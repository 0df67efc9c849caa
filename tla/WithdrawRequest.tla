---------------------------- MODULE WithdrawRequest ----------------------------
(***************************************************************************)
(* Withdraw requests (withdraw.request): a customer asks for money that was *)
(* collected for him.  He is billed a fee, which is paid, and the money is   *)
(* entered as paid to him.                                                  *)
(***************************************************************************)
EXTENDS Receivables

CONSTANTS
    Requests,     \* requests that are made
    Asked,        \* the amounts that are asked for
    Commissions,  \* sequence of ranges of amounts with their commissions
    HandFees,     \* the fees that users enter by hand
    TaxRate       \* the percentage of tax on a fee, 0 without VAT calculation

ASSUME WithdrawAssumption ==
    /\ Asked \subseteq Nat \ {0} /\ HandFees \subseteq Nat /\ TaxRate \in 0..100
    /\ Commissions \in Seq([from : Nat, to : Nat, type : {"percent", "amount"}, value : Nat])

VARIABLES
    requests,  \* the requests that exist, by number
    payments,  \* the payments of fees: for which request, of how much
    entries    \* the entries of money paid out, likewise

vars == <<invoices, requests, payments, entries>>

None == 0
Document(r, amount) == [for |-> r, amount |-> amount]

Init == invoices = << >> /\ requests = << >> /\ payments = << >> /\ entries = << >>

\* The first commission of whose range the amount is.
CommissionsFor(amount) ==
    {k \in DOMAIN Commissions : Commissions[k].from <= amount /\ amount <= Commissions[k].to}

\* calculate_service_revenue_amount: nothing outside all ranges.
Fee(amount) ==
    IF CommissionsFor(amount) = {} THEN 0
    ELSE LET c == Commissions[Min(CommissionsFor(amount))]
         IN IF c.type = "percent" THEN HalfUp(amount * c.value) ELSE c.value

New(amount, fee) == [amount |-> amount, fee |-> fee, status |-> "draft", operation |-> "draft",
                     invoice |-> NoInvoice, payment |-> None, entry |-> None]

\* create_with_draw_request of the controller needs a commission; the form does
\* not, and lets the fee be changed.
Fees(amount) == {Fee(amount)} \cup HandFees

Create(r) ==
    /\ r \notin DOMAIN requests
    /\ \E amount \in Asked : \E fee \in Fees(amount) :
        requests' = [q \in DOMAIN requests \cup {r} |-> IF q = r THEN New(amount, fee) ELSE requests[q]]
    /\ UNCHANGED <<invoices, payments, entries>>

Write(r, record) == requests' = [requests EXCEPT ![r] = record]

\* Amount and fee are edited in the form of a request in draft, even when it has
\* been billed and paid out.
Edit(r) ==
    /\ requests[r].status = "draft"
    /\ \E amount \in Asked : \E fee \in Fees(amount) :
        Write(r, [requests[r] EXCEPT !.amount = amount, !.fee = fee])
    /\ UNCHANGED <<invoices, payments, entries>>

\* request_invoice_creation.
RequestInvoiceCreation(r) ==
    LET total == requests[r].fee + HalfUp(requests[r].fee * TaxRate)
    IN /\ requests[r].invoice = NoInvoice
       /\ Post(NewInvoice("fee", r), total)
       /\ Write(r, [requests[r] EXCEPT !.invoice = NewInvoice("fee", r)])
       /\ UNCHANGED <<payments, entries>>

\* Mutant: the payment is of the fee of the request.
FeeAsked(r) == requests[r].fee + HalfUp(requests[r].fee * TaxRate)

\* _prepare_invoice_payment_record_values: the payment is of what is left.
FeeLeft(r) == Residual(requests[r].invoice)

\* Mutant: what exists is not made again, what does not is made.
PaymentEntriesAgain(r) ==
    /\ requests[r].invoice # NoInvoice
    /\ payments' = Append(payments, Document(r, FeeLeft(r)))
    /\ invoices' = [invoices EXCEPT ![requests[r].invoice].paid = @ + FeeLeft(r)]
    /\ entries' = Append(entries, Document(r, requests[r].amount))
    /\ Write(r, [requests[r] EXCEPT !.payment = Len(payments'), !.entry = Len(entries')])

\* request_payment_entries_creation: the fee is paid and the amount paid out, both
\* or, if one is there already, none.
RequestPaymentEntriesCreation(r) ==
    /\ requests[r].invoice # NoInvoice
    /\ requests[r].payment = None
    /\ requests[r].entry = None
    /\ payments' = Append(payments, Document(r, FeeLeft(r)))
    /\ invoices' = [invoices EXCEPT ![requests[r].invoice].paid = @ + FeeLeft(r)]
    /\ entries' = Append(entries, Document(r, requests[r].amount))
    /\ Write(r, [requests[r] EXCEPT !.payment = Len(payments'), !.entry = Len(entries')])

\* confirm_request_payment: its button needs an entry, which stays once it is made.
ConfirmRequestPayment(r) ==
    /\ requests[r].entry # None
    /\ Write(r, [requests[r] EXCEPT !.status = "done"])
    /\ UNCHANGED <<invoices, payments, entries>>

ResetRequestPayment(r) ==
    /\ requests[r].status = "done"
    /\ Write(r, [requests[r] EXCEPT !.status = "draft"])
    /\ UNCHANGED <<invoices, payments, entries>>

\* operation_confirm_payment, by the controller, at any time.
OperationConfirmPayment(r) ==
    /\ Write(r, [requests[r] EXCEPT !.operation = "finished"])
    /\ UNCHANGED <<invoices, payments, entries>>

Account ==
    /\ \E i \in DOMAIN invoices : Pay(i) \/ AuditAndLock(i)
    /\ UNCHANGED <<requests, payments, entries>>

Next ==
    \/ \E r \in Requests : Create(r)
    \/ \E r \in DOMAIN requests :
        \/ Edit(r)
        \/ RequestInvoiceCreation(r)
        \/ RequestPaymentEntriesCreation(r)
        \/ ConfirmRequestPayment(r) \/ ResetRequestPayment(r) \/ OperationConfirmPayment(r)
    \/ Account

Spec == Init /\ [][Next]_vars

-----------------------------------------------------------------------------
(* Properties. *)

\* A request that is done has been billed and nothing is left to pay of its fee,
\* nor was too much, whatever was paid before and edited since.
DoneIsSettled ==
    \A r \in DOMAIN requests :
        requests[r].status = "done" =>
            requests[r].invoice # NoInvoice /\ Residual(requests[r].invoice) = 0

\* Each invoice, payment and entry is the one of its request: whoever presses what
\* again, on a form of any age and after a reset, the fee is billed and taken and
\* the money paid out at most once; the fee is taken exactly when it is paid out.
PaidOutOnce ==
    /\ \A i \in DOMAIN invoices : requests[i[2]].invoice = i
    /\ \A p \in DOMAIN payments : requests[payments[p].for].payment = p
    /\ \A e \in DOMAIN entries : requests[entries[e].for].entry = e
    /\ \A r \in DOMAIN requests : requests[r].payment = None <=> requests[r].entry = None
=============================================================================
