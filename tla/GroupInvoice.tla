----------------------------- MODULE GroupInvoice -----------------------------
(***************************************************************************)
(* Group invoices of a customer (fastrak.group.invoice): the unpaid invoices *)
(* on credit of a period are put into a group, which is due at a day; from   *)
(* then on a penalty grows until the payment of the group is confirmed.      *)
(*                                                                         *)
(* Buttons are drawn from the form as it was loaded: the methods do not look *)
(* at the state of the group, and neither do the actions.                    *)
(***************************************************************************)
EXTENDS Receivables

CONSTANTS
    Orders,       \* orders paid on credit, by number
    Charge,       \* the amount of the invoice of each
    Groups,       \* group invoices of the customer
    DueAt,        \* the day each is due
    PenaltyRate,  \* percentage of the penalty of a day
    Percentages,  \* the discounts given, in percent
    Amounts,      \* the discounts given, as amounts
    MaxDiscount,  \* bound on the discounts of a group
    MaxByHand,    \* bound on the lines of a group that users add
    LastDay       \* bound on the days

ASSUME GroupAssumption ==
    /\ Charge \in [Orders -> Nat \ {0}] /\ DueAt \in [Groups -> Nat]
    /\ PenaltyRate \in 0..100 /\ Percentages \subseteq 1..100 /\ LastDay \in Nat
    /\ Amounts \subseteq Nat /\ {MaxDiscount, MaxByHand} \subseteq Nat /\ IsFiniteSet(Groups)

VARIABLES
    groups,  \* the group invoices
    today

vars == <<invoices, groups, today>>

OnCredit(i) == i[1] = "order"

\* History: byHand, the lines that a user added.
Init ==
    /\ invoices = << >>
    /\ groups = [g \in Groups |-> [lines |-> {}, byHand |-> {}, penalty |-> 0,
                                   penaltyInvoice |-> NoInvoice, discount |-> 0, state |-> "unpaid"]]
    /\ today = 0

-----------------------------------------------------------------------------
(* The invoices of a group. *)

\* The invoice of an order paid on credit.
Bill(o) ==
    /\ InvoicesFor("order", o) = {}
    /\ Post(NewInvoice("order", o), Charge[o])
    /\ UNCHANGED <<groups, today>>

\* Mutant: only groups that are not paid are searched.
NotInUnpaidGroup(g, i) == \A h \in Groups \ {g} : groups[h].state # "paid" => i \notin groups[h].lines

\* _check_not_in_old_group_invoice.
NotInOldGroup(g, i) == \A h \in Groups \ {g} : i \notin groups[h].lines

\* _get_customer_credit_invoices: the lines are made anew, of the invoices that
\* are of the period of the group, of which users set the dates.
Generate(g, period) ==
    /\ groups' = [groups EXCEPT
            ![g].lines = {i \in DOMAIN invoices : /\ OnCredit(i) /\ NotPaid(i) /\ NotInOldGroup(g, i)
                                                 /\ i \in period},
            ![g].byHand = {}]
    /\ UNCHANGED <<invoices, today>>

\* The list is edited in the form unless the group is paid.
AddLine(g, i) ==
    /\ groups[g].state # "paid" /\ OnCredit(i) /\ i \notin groups[g].lines
    /\ \A h \in Groups : Cardinality(groups[h].byHand) < MaxByHand
    /\ groups' = [groups EXCEPT ![g].lines = @ \cup {i}, ![g].byHand = @ \cup {i}]
    /\ UNCHANGED <<invoices, today>>

RemoveLine(g, i) ==
    /\ groups[g].state # "paid" /\ i \in groups[g].lines
    /\ groups' = [groups EXCEPT ![g].lines = @ \ {i}, ![g].byHand = @ \ {i}]
    /\ UNCHANGED <<invoices, today>>

\* total_amount: what the invoices ask, whether it has been paid or not.
TotalAmount(g) == MapThenSumSet(LAMBDA i : invoices[i].total, groups[g].lines)

-----------------------------------------------------------------------------
(* Discounts. *)

\* Mutant: the group is not told of invoices that are paid in part.
GivenUnpaid(discount) == MapThenSumSet(LAMBDA i : discount[i], {i \in DOMAIN discount : NotPaid(i)})

Given(discount) == MapThenSumSet(LAMBDA i : discount[i], DOMAIN discount)

\* The discount of each invoice is given to it and to the group; if an invoice
\* is locked, none is given.
Give(g, discount) ==
    /\ \A i \in DOMAIN discount : Writable(i)
    /\ invoices' = [i \in DOMAIN invoices |-> IF i \in DOMAIN discount THEN Discounted(invoices[i], discount[i])
                                             ELSE invoices[i]]
    /\ groups' = [groups EXCEPT ![g].discount = @ + Given(discount)]

\* update_group_invoice, of the wizard: all invoices or one, an amount of each
\* or a percentage of what is left to pay.
Discount(g, targets) ==
    /\ TotalAmount(g) # 0 /\ groups[g].discount < MaxDiscount
    /\ \/ \E d \in Amounts : Give(g, [i \in targets |-> d])
       \/ \E p \in Percentages : Give(g, [i \in targets |-> HalfEven(Residual(i) * p)])
    /\ UNCHANGED today

-----------------------------------------------------------------------------
(* Penalties. *)

\* _calculate_penalty_amount.
Penalty(g) == HalfUp((today - DueAt[g]) * TotalAmount(g) * PenaltyRate)

\* calculate_penalty: a negative amount is refused.
CalculatePenalty(g) ==
    /\ TotalAmount(g) # 0 /\ Penalty(g) >= 0
    /\ groups' = [groups EXCEPT ![g].penalty = Penalty(g)]
    /\ UNCHANGED <<invoices, today>>

Late == {g \in Groups : groups[g].state # "paid" /\ today > DueAt[g]}

\* scheduled_penalty_calculator: if one penalty is refused, none is written.
ScheduledPenaltyCalculator ==
    /\ Late # {} /\ \A g \in Late : Penalty(g) >= 0
    /\ groups' = [g \in Groups |-> IF g \in Late THEN [groups[g] EXCEPT !.state = "delayed", !.penalty = Penalty(g)]
                                   ELSE groups[g]]
    /\ UNCHANGED <<invoices, today>>

\* Mutant: an invoice that is not paid is left alone and a new one made.
PenaltyInvoiceAnew(g) ==
    LET i == groups[g].penaltyInvoice
    IN /\ i # NoInvoice => NotPaid(i)
       /\ Post(NewInvoice("penalty", g), groups[g].penalty)
       /\ groups' = [groups EXCEPT ![g].penaltyInvoice = NewInvoice("penalty", g)]

\* The invoice is made, or its line is replaced if nothing has been paid.
PenaltyInvoice(g) ==
    LET i == groups[g].penaltyInvoice
    IN \/ /\ i = NoInvoice
          /\ Post(NewInvoice("penalty", g), groups[g].penalty)
          /\ groups' = [groups EXCEPT ![g].penaltyInvoice = NewInvoice("penalty", g)]
       \/ /\ i # NoInvoice /\ NotPaid(i) /\ Writable(i)
          /\ invoices' = [invoices EXCEPT ![i].total = groups[g].penalty, ![i].discount = 0]
          /\ UNCHANGED groups

CreatePenaltyInvoice(g) ==
    /\ TotalAmount(g) # 0 /\ groups[g].penalty # 0
    /\ PenaltyInvoice(g)
    /\ UNCHANGED today

ConfirmGroupInvoicePayment(g) ==
    /\ TotalAmount(g) # 0
    /\ groups' = [groups EXCEPT ![g].state = "paid"]
    /\ UNCHANGED <<invoices, today>>

Tick == today < LastDay /\ today' = today + 1 /\ UNCHANGED <<invoices, groups>>

Account ==
    /\ \E i \in DOMAIN invoices : Pay(i) \/ AuditAndLock(i)
    /\ UNCHANGED <<groups, today>>

Next ==
    \/ \E o \in Orders : Bill(o)
    \/ \E g \in Groups :
        \/ \E period \in SUBSET {i \in DOMAIN invoices : OnCredit(i)} : Generate(g, period)
        \/ \E i \in DOMAIN invoices : AddLine(g, i) \/ RemoveLine(g, i)
        \/ Discount(g, groups[g].lines) \/ \E i \in groups[g].lines : Discount(g, {i})
        \/ CalculatePenalty(g) \/ CreatePenaltyInvoice(g) \/ ConfirmGroupInvoicePayment(g)
    \/ ScheduledPenaltyCalculator
    \/ Account
    \/ Tick

Spec == Init /\ [][Next]_vars

-----------------------------------------------------------------------------
(* Properties. *)

\* A group that was billed a penalty has one penalty invoice, its own, however
\* often the penalty was calculated and billed again, and no discount of its
\* orders is in it; what has been paid of it is never undone by billing it again.
OnePenaltyInvoice ==
    /\ \A i \in DOMAIN invoices :
        i[1] = "penalty" =>
            /\ groups[i[2]].penaltyInvoice = i
            /\ invoices[i].discount = 0
            /\ 0 <= invoices[i].paid /\ invoices[i].paid <= invoices[i].total
    /\ \A g \in Groups : groups[g].penaltyInvoice \in InvoicesFor("penalty", g) \cup {NoInvoice}

\* Generation never puts one invoice into two groups, whatever becomes of the
\* groups and whatever users add and remove.
NotInTwoGroups ==
    \A g, h \in Groups : \A i \in groups[g].lines \ groups[g].byHand :
        g # h => i \notin groups[h].lines \ groups[h].byHand

\* The discounts that the groups print are those that are in the invoices they
\* print: none is counted twice, given in part or lost when a group is generated
\* anew.
DiscountsAgree ==
    MapThenSumSet(LAMBDA g : groups[g].discount, Groups)
        = MapThenSumSet(LAMBDA i : invoices[i].discount, DOMAIN invoices)
=============================================================================
