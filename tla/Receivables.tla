------------------------------ MODULE Receivables ------------------------------
(***************************************************************************)
(* The invoices of a customer: records of account.move, as the modules of   *)
(* fastrak use them.  An invoice is known by what it is for and its number  *)
(* among the invoices for that.                                             *)
(* The framework that posts and pays them is not part of the repository.    *)
(***************************************************************************)
EXTENDS Integers, SequencesExt, FiniteSetsExt

CONSTANT MaxLocked  \* bound on the invoices that are locked

VARIABLE invoices

NoInvoice == << >>

InvoicesFor(kind, id) == {i \in DOMAIN invoices : i[1] = kind /\ i[2] = id}
NewInvoice(kind, id) == <<kind, id, Cardinality(InvoicesFor(kind, id)) + 1>>

\* An invoice is posted: what it asks, the discounts in it, what has been paid
\* and whether it has been audited and locked.
Post(i, total) ==
    invoices' = [j \in DOMAIN invoices \cup {i} |->
                    IF j = i THEN [total |-> total, discount |-> 0, paid |-> 0, locked |-> FALSE]
                    ELSE invoices[j]]

Residual(i) == invoices[i].total - invoices[i].paid

\* payment_state.
NotPaid(i) == Residual(i) # 0 /\ invoices[i].paid = 0

\* CustomAccountMove.write refuses an invoice that was audited and locked.
Writable(i) == ~invoices[i].locked

\* A discount line, of the same invoice.
Discounted(inv, d) == [inv EXCEPT !.total = @ - d, !.discount = @ + d]

\* float_round, and round of Python, of n hundredths.
HalfUp(n) == (n + 50) \div 100
HalfEven(n) == IF n % 100 = 50 THEN (n \div 100) + ((n \div 100) % 2) ELSE HalfUp(n)

\* An accountant registers a payment of some of what is left to pay.
Pay(i) == \E a \in 1..Residual(i) : invoices' = [invoices EXCEPT ![i].paid = @ + a]

\* audit_and_lock_move.
AuditAndLock(i) ==
    /\ Writable(i) /\ Cardinality({j \in DOMAIN invoices : ~Writable(j)}) < MaxLocked
    /\ invoices' = [invoices EXCEPT ![i].locked = TRUE]
=============================================================================
