---------------------------- MODULE BillOfLoading ----------------------------
(***************************************************************************)
(* The life of one order of the shipping company: the bill of loading of   *)
(* models/bill_of_loading/bill_of_loading.py, the requests of              *)
(* controllers/bill_of_loading.py that check it and leave the work to jobs *)
(* of queue_job, those jobs, and the buttons of its form.                  *)
(*                                                                         *)
(* Every transaction that changes the order writes its row, so that of two *)
(* that overlap one is run again: a handler, a job or a button is a step.  *)
(* The jobs are in channels of their own and run in any order.  One that   *)
(* raises is rolled back and fails; a user may requeue it, so it stays     *)
(* among those that may run.                                               *)
(***************************************************************************)
EXTENDS Integers

CONSTANTS
    InitialFees,    \* the shipping fees orders are created with
    InitialMoney,   \* the money to collect for the customer
    Updates,        \* the pairs <<field, value>> that update requests bring
    Buttons,        \* the buttons users press
    MaxRequests,    \* bound on the requests
    None

Methods == {"on_pickup", "on_delivery", "on_credit"}
Statuses == {"draft", "done", "refund", "canceled", "audited"}
AllButtons == {"confirm", "refund", "cancel", "reset", "audit",
               "register payment", "create money collection entry"}
AllUpdates == ({"payment_method"} \X Methods)
              \cup ({"is_pos_payment"} \X BOOLEAN)
              \cup ({"shipping_fees", "money_collected"} \X Nat)

ASSUME OrderAssumption == /\ InitialFees \subseteq Nat
                          /\ InitialMoney \subseteq Nat
                          /\ Updates \subseteq AllUpdates
                          /\ Buttons \subseteq AllButtons
                          /\ MaxRequests \in Nat
                          /\ None \notin Nat

VARIABLES
    bol,       \* the order
    ledger,    \* how many documents of each kind accounting has for the order
    jobs,      \* the jobs that wait, by the method they call
    writes,    \* the jobs that wait to write an update
    requests,  \* history: how many requests have come
    shown      \* the states the order has had, which forms may still show

vars == <<bol, ledger, jobs, writes, requests, shown>>

Documents == {"invoice", "payment entry", "payment", "money entry"}
JobMethods == {"confirm", "deliver", "pay", "collect"}

\* invoice_id when it is empty: its amount_total reads 0.
NoInvoice == [state |-> "none", amount |-> 0]

Invoice(amount) == [state |-> "open", amount |-> amount]

\* action_create_bill_of_loading.
Init ==
    /\ bol \in [order_status : {"draft"}, delivery : {"none"},
                picked : {0}, delivered : {0}, payment_method : Methods,
                is_pos_payment : BOOLEAN, shipping_fees : InitialFees,
                money_collected : InitialMoney, invoice : {NoInvoice},
                payment_entry : {None}, payment : {None}, money_entry : {None}]
    /\ ledger = [d \in Documents |-> 0]
    /\ jobs = [m \in JobMethods |-> 0]
    /\ writes = [u \in Updates |-> 0]
    /\ requests = 0
    /\ shown = {"draft"}

Write(b) == /\ bol' = b
            /\ shown' = shown \cup {b.order_status}

Account(d) == ledger' = [ledger EXCEPT ![d] = @ + 1]

HasTrips == bol.picked + bol.delivered > 0
-----------------------------------------------------------------------------
(***************************************************************************)
(* What jobs and buttons do.                                               *)
(***************************************************************************)

\* Mutant: a confirmation always makes an invoice.
ConfirmAgain == /\ Write([bol EXCEPT !.order_status = "done",
                                     !.invoice = Invoice(bol.shipping_fees)])
                /\ Account("invoice")

\* confirm_bill_loading.  The last line of the invoice makes up the difference
\* between the others and the shipping fees, which are thus its total.  An
\* invoice there is already has been posted.
ConfirmBillLoading ==
    IF bol.invoice = NoInvoice /\ bol.shipping_fees # 0
    THEN /\ Write([bol EXCEPT !.order_status = "done",
                              !.invoice = Invoice(bol.shipping_fees)])
         /\ Account("invoice")
    ELSE /\ Write([bol EXCEPT !.order_status = "done"])
         /\ UNCHANGED ledger

\* A trip is created with status delivered.
CreateDeliveredTrip == /\ bol.delivery = "picked"
                       /\ Write([bol EXCEPT !.delivery = "delivered",
                                            !.delivered = @ + 1])
                       /\ UNCHANGED ledger

\* _prepare_pos_payment_vals: amount_residual.
Residual == IF bol.invoice.state = "open" THEN bol.invoice.amount ELSE 0

PosPayment == /\ bol.invoice # NoInvoice
              /\ bol.invoice.state # "paid"
              /\ bol.payment = None
              /\ Write([bol EXCEPT !.payment = Residual])
              /\ Account("payment")

\* Mutant: the driver is the one who picked the order up.
PickupDriver == bol.picked = 1

\* _get_invoice_money_collection_driver finds a driver, and one only.
PaymentDriver ==
    \/ bol.payment_method = "on_pickup" /\ bol.picked = 1
    \/ bol.payment_method = "on_delivery" /\ bol.delivered = 1

CashPayment == /\ bol.invoice.state # "paid"
               /\ bol.payment_entry = None
               /\ PaymentDriver
               /\ Write([bol EXCEPT !.payment_entry = bol.invoice.amount])
               /\ Account("payment entry")

\* register_payment, when it raises no error.
RegisterPayment ==
    /\ HasTrips
    /\ bol.payment_method # "on_credit"
    /\ IF bol.shipping_fees = 0 THEN UNCHANGED <<bol, shown, ledger>>
       ELSE IF bol.is_pos_payment THEN PosPayment ELSE CashPayment

\* create_money_collection_entry, when it raises no error.
CreateMoneyCollectionEntry ==
    IF bol.money_collected = 0 THEN UNCHANGED <<bol, shown, ledger>>
    ELSE /\ bol.money_entry = None
         /\ bol.delivered = 1
         /\ Write([bol EXCEPT !.money_entry = bol.money_collected])
         /\ Account("money entry")
-----------------------------------------------------------------------------
(***************************************************************************)
(* Requests of the REST API.                                               *)
(***************************************************************************)

Request == /\ requests < MaxRequests
           /\ requests' = requests + 1

Delay(S) == jobs' = [m \in JobMethods |-> IF m \in S THEN jobs[m] + 1 ELSE jobs[m]]

PickupJobs == IF bol.payment_method = "on_pickup" THEN {"confirm"} ELSE {}

\* Mutant: without its check the handler relies on that of the trip, whose
\* error it catches once the trip is inserted.
PickupUnchecked ==
    /\ Request
    /\ Write([bol EXCEPT !.order_status = "done", !.picked = @ + 1,
                         !.delivery = IF @ = "none" THEN "picked" ELSE @])
    /\ Delay(IF bol.delivery = "none" THEN PickupJobs ELSE {})
    /\ UNCHANGED <<ledger, writes>>

\* confirm_order_pickup.
ConfirmOrderPickup ==
    /\ Request
    /\ bol.picked = 0
    /\ Write([bol EXCEPT !.order_status = "done", !.picked = @ + 1,
                         !.delivery = "picked"])
    /\ Delay(PickupJobs)
    /\ UNCHANGED <<ledger, writes>>

\* Mutant: orders on credit are not confirmed.
DeliveryNotOnCredit ==
    /\ Request
    /\ Delay({"deliver"} \cup IF bol.payment_method = "on_delivery"
                              THEN {"confirm"} ELSE {})
    /\ UNCHANGED <<bol, ledger, writes, shown>>

\* confirm_order_delivery: the checks have been commented out.
ConfirmOrderDelivery ==
    /\ Request
    /\ Delay({"deliver"} \cup IF bol.payment_method \in {"on_delivery", "on_credit"}
                              THEN {"confirm"} ELSE {})
    /\ UNCHANGED <<bol, ledger, writes, shown>>

\* confirm_order_money_collection, of the shipping fees or of the money
\* collected for the customer.  payment_is_registered is never set.
ConfirmOrderMoneyCollection(m) ==
    /\ Request
    /\ bol.order_status = "done"
    /\ Delay({m})
    /\ UNCHANGED <<bol, ledger, writes, shown>>

\* The checks update_bill_of_loading makes of each field.
MayUpdate(field) ==
    CASE field = "payment_method" -> bol.order_status # "done"
      [] field = "is_pos_payment" ->
            bol.order_status = "done" =>
                /\ bol.payment_method = "on_pickup" => bol.delivery = "none"
                /\ bol.payment_method = "on_delivery" => bol.delivery # "delivered"
      [] field = "money_collected" -> bol.money_entry = None
      [] field = "shipping_fees" ->
            bol.order_status = "done" => /\ bol.payment_method # "on_pickup"
                                         /\ bol.delivery # "delivered"
                                         /\ bol.invoice.state # "paid"

\* New fees of a confirmed order are written at once, and its invoice, if there
\* is one, is reset to draft and posted with them.
NewFees(f) == [bol EXCEPT !.shipping_fees = f,
                          !.invoice = IF @ = NoInvoice THEN @ ELSE Invoice(f)]

\* update_bill_of_loading: the rest is left to a job.
UpdateBillOfLoading(u) ==
    /\ Request
    /\ MayUpdate(u[1])
    /\ writes' = [writes EXCEPT ![u] = @ + 1]
    /\ Write(IF u[1] = "shipping_fees" /\ bol.order_status = "done"
             THEN NewFees(u[2]) ELSE bol)
    /\ UNCHANGED <<ledger, jobs>>
-----------------------------------------------------------------------------
(***************************************************************************)
(* Jobs, buttons, and the accountants.                                     *)
(***************************************************************************)

RunJob(m) == /\ jobs[m] > 0
             /\ jobs' = [jobs EXCEPT ![m] = @ - 1]
             /\ UNCHANGED <<writes, requests>>

ConfirmJob == RunJob("confirm") /\ ConfirmBillLoading
DeliverJob == RunJob("deliver") /\ CreateDeliveredTrip
PayJob == RunJob("pay") /\ RegisterPayment
CollectJob == RunJob("collect") /\ CreateMoneyCollectionEntry

\* The job of an update writes the field, whatever the order has become.
WriteJob(u) ==
    /\ writes[u] > 0
    /\ writes' = [writes EXCEPT ![u] = @ - 1]
    /\ Write(CASE u[1] = "payment_method" -> [bol EXCEPT !.payment_method = u[2]]
               [] u[1] = "is_pos_payment" -> [bol EXCEPT !.is_pos_payment = u[2]]
               [] u[1] = "shipping_fees" -> [bol EXCEPT !.shipping_fees = u[2]]
               [] u[1] = "money_collected" -> [bol EXCEPT !.money_collected = u[2]])
    /\ UNCHANGED <<ledger, jobs, requests>>

\* A form that shows the order in a state of S, now or when it was opened: no
\* method looks at the state again.
Press(b, S) == /\ b \in Buttons
               /\ shown \cap S # {}
               /\ UNCHANGED <<jobs, writes, requests>>

ConfirmButton == Press("confirm", {"draft"}) /\ ConfirmBillLoading

\* refund_bill_loading: the reversal is reconciled with an open invoice.
RefundBillLoading ==
    /\ Press("refund", {"done"})
    /\ Write([bol EXCEPT !.order_status = "refund",
                         !.invoice.state = IF @ = "open" THEN "reversed" ELSE @])
    /\ UNCHANGED ledger

\* refund_bill_loading and cancel_bill_loading ask for a reason only.
CancelBillLoading == /\ Press("cancel", {"draft"})
                     /\ Write([bol EXCEPT !.order_status = "canceled"])
                     /\ UNCHANGED ledger

ResetToDraft == /\ Press("reset", {"done"})
                /\ Write([bol EXCEPT !.order_status = "draft"])
                /\ UNCHANGED ledger

\* audited_bill_of_loading and _check_both_driver_exists.
AuditBillOfLoading == /\ Press("audit", {"done"})
                      /\ bol.picked > 0 /\ bol.delivered > 0
                      /\ Write([bol EXCEPT !.order_status = "audited"])
                      /\ UNCHANGED ledger

PaymentButton == Press("register payment", {"done"}) /\ RegisterPayment
CollectButton == /\ Press("create money collection entry", Statuses)
                 /\ CreateMoneyCollectionEntry

\* The accountants reconcile the invoice with money received.
InvoicePaid == /\ bol.invoice.state = "open"
               /\ Write([bol EXCEPT !.invoice.state = "paid"])
               /\ UNCHANGED <<ledger, jobs, writes, requests>>
-----------------------------------------------------------------------------
Requested == \/ ConfirmOrderPickup \/ ConfirmOrderDelivery
             \/ \E m \in {"pay", "collect"} : ConfirmOrderMoneyCollection(m)
             \/ \E u \in Updates : UpdateBillOfLoading(u)
Job == \/ ConfirmJob \/ DeliverJob \/ PayJob \/ CollectJob
       \/ \E u \in Updates : WriteJob(u)
Button == \/ ConfirmButton \/ RefundBillLoading \/ CancelBillLoading
          \/ ResetToDraft \/ AuditBillOfLoading \/ PaymentButton \/ CollectButton

Next == Requested \/ Job \/ Button \/ InvoicePaid

Spec == Init /\ [][Next]_vars

\* Jobs that wait are run.
Fairness == WF_vars(ConfirmJob) /\ WF_vars(DeliverJob)
FairSpec == Spec /\ Fairness
-----------------------------------------------------------------------------
(***************************************************************************)
(* Properties.                                                             *)
(***************************************************************************)

\* The order is a record of its fields, and jobs are counted from 0.
TypeOK == /\ bol \in [order_status : Statuses,
                      delivery : {"none", "picked", "delivered"},
                      picked : Nat, delivered : Nat, payment_method : Methods,
                      is_pos_payment : BOOLEAN, shipping_fees : Nat,
                      money_collected : Nat,
                      invoice : [state : {"none", "open", "paid", "reversed"},
                                 amount : Nat],
                      payment_entry : Nat \cup {None}, payment : Nat \cup {None},
                      money_entry : Nat \cup {None}]
          /\ ledger \in [Documents -> Nat]
          /\ jobs \in [JobMethods -> Nat]
          /\ writes \in [Updates -> Nat]
          /\ requests \in Nat
          /\ shown \subseteq Statuses

\* The order links to a document of this kind.
Linked(d) == CASE d = "invoice" -> bol.invoice # NoInvoice
               [] d = "payment entry" -> bol.payment_entry # None
               [] d = "payment" -> bol.payment # None
               [] d = "money entry" -> bol.money_entry # None

\* Requests that come twice, jobs in any order and buttons of forms that show
\* an old state never make a second invoice, payment or entry of money for
\* the order, nor one that the order does not link to.
BilledOnce == \A d \in Documents : ledger[d] = IF Linked(d) THEN 1 ELSE 0

\* The order is picked up by one driver and then delivered by one, and its
\* delivery status says how far it is, however often requests of pick-up and
\* delivery come and in whatever order.
TripsInOrder ==
    <<bol.picked, bol.delivered>> = CASE bol.delivery = "none" -> <<0, 0>>
                                      [] bol.delivery = "picked" -> <<1, 0>>
                                      [] bol.delivery = "delivered" -> <<1, 1>>

\* "Money collection is made after order delivery is made", and so is that of
\* the shipping fees of an order paid on delivery.
CollectedAfterDelivery ==
    \/ bol.money_entry # None
    \/ bol.payment_entry # None /\ bol.payment_method = "on_delivery"
    => bol.delivery = "delivered"

\* An order is billed in the end, on pick-up or on delivery as its payment
\* method says, unless it is free.
BilledInTheEnd ==
    \/ bol.delivery # "none" /\ bol.payment_method = "on_pickup"
    \/ bol.delivery = "delivered"
    ~> bol.invoice # NoInvoice \/ bol.shipping_fees = 0
=============================================================================
