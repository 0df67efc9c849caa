----------------------- MODULE BillOfLoading_proofs -----------------------
(***************************************************************************)
(* Proofs about BillOfLoading, for any fees, money, updates, buttons and   *)
(* number of requests.                                                     *)
(***************************************************************************)
EXTENDS BillOfLoading, TLAPS

Orders == [order_status : Statuses, delivery : {"none", "picked", "delivered"},
           picked : Nat, delivered : Nat, payment_method : Methods,
           is_pos_payment : BOOLEAN, shipping_fees : Nat, money_collected : Nat,
           invoice : [state : {"none", "open", "paid", "reversed"}, amount : Nat],
           payment_entry : Nat \cup {None}, payment : Nat \cup {None},
           money_entry : Nat \cup {None}]

\* An update is of one of four fields and brings a value of its type.
LEMMA UpdateTypes ==
  ASSUME NEW u \in Updates
  PROVE  /\ u[1] \in {"payment_method", "is_pos_payment", "shipping_fees",
                      "money_collected"}
         /\ u[1] = "payment_method" => u[2] \in Methods
         /\ u[1] = "is_pos_payment" => u[2] \in BOOLEAN
         /\ u[1] \in {"shipping_fees", "money_collected"} => u[2] \in Nat
<1>1. u \in AllUpdates
  BY OrderAssumption
<1> QED BY <1>1 DEF AllUpdates

\* What every step does to the order, its documents and its states.
EffectOK == /\ bol' \in Orders
            /\ ledger' \in [Documents -> Nat]
            /\ shown' \subseteq Statuses

LEMMA WriteType ==
  ASSUME TypeOK, NEW b \in Orders, Write(b)
  PROVE  bol' \in Orders /\ shown' \subseteq Statuses
BY DEF TypeOK, Orders, Write

LEMMA AccountType ==
  ASSUME TypeOK, NEW d \in Documents, Account(d)
  PROVE  ledger' \in [Documents -> Nat]
BY DEF TypeOK, Account

\* A new invoice of a natural amount.
LEMMA InvoiceType ==
  ASSUME NEW f \in Nat
  PROVE  Invoice(f) \in [state : {"none", "open", "paid", "reversed"}, amount : Nat]
BY DEF Invoice

LEMMA ConfirmType == ASSUME TypeOK, ConfirmBillLoading PROVE EffectOK
<1>1. bol \in Orders /\ bol.shipping_fees \in Nat
  BY DEF TypeOK, Orders
<1>2. [bol EXCEPT !.order_status = "done"] \in Orders
  BY <1>1 DEF Orders, Statuses
<1>3. [bol EXCEPT !.order_status = "done",
                  !.invoice = Invoice(bol.shipping_fees)] \in Orders
  BY <1>1, InvoiceType DEF Orders, Statuses
<1>4. CASE bol.invoice = NoInvoice /\ bol.shipping_fees # 0
  BY <1>3, <1>4, WriteType, AccountType DEF ConfirmBillLoading, EffectOK, Documents
<1>5. CASE ~(bol.invoice = NoInvoice /\ bol.shipping_fees # 0)
  BY <1>2, <1>5, WriteType DEF ConfirmBillLoading, EffectOK, TypeOK
<1> QED BY <1>4, <1>5

LEMMA DeliverType == ASSUME TypeOK, CreateDeliveredTrip PROVE EffectOK
<1>0. bol \in Orders /\ bol.delivered \in Nat
  BY DEF TypeOK, Orders
<1>n. bol.delivered + 1 \in Nat
  BY <1>0
<1>1. [bol EXCEPT !.delivery = "delivered", !.delivered = @ + 1] \in Orders
  BY <1>0, <1>n DEF Orders
<1> QED BY <1>1, WriteType DEF CreateDeliveredTrip, EffectOK, TypeOK

LEMMA PaymentType == ASSUME TypeOK, RegisterPayment PROVE EffectOK
<1>0. bol \in Orders /\ bol.invoice.amount \in Nat
  BY DEF TypeOK, Orders
<1>1. CASE UNCHANGED <<bol, shown, ledger>>
  BY <1>0, <1>1 DEF EffectOK, TypeOK
<1>2. CASE PosPayment
  <2>1. Residual \in Nat
    BY <1>0 DEF Residual
  <2>2. [bol EXCEPT !.payment = Residual] \in Orders
    BY <1>0, <2>1 DEF Orders
  <2> QED BY <1>2, <2>2, WriteType, AccountType DEF PosPayment, EffectOK, Documents
<1>3. CASE CashPayment
  <2>1. [bol EXCEPT !.payment_entry = bol.invoice.amount] \in Orders
    BY <1>0 DEF Orders
  <2> QED BY <1>3, <2>1, WriteType, AccountType DEF CashPayment, EffectOK, Documents
<1> QED BY <1>1, <1>2, <1>3 DEF RegisterPayment

LEMMA CollectType == ASSUME TypeOK, CreateMoneyCollectionEntry PROVE EffectOK
<1>0. bol \in Orders
  BY DEF TypeOK, Orders
<1>1. [bol EXCEPT !.money_entry = bol.money_collected] \in Orders
  BY <1>0 DEF Orders
<1>2. CASE bol.money_collected = 0
  BY <1>0, <1>2 DEF CreateMoneyCollectionEntry, EffectOK, TypeOK
<1>3. CASE bol.money_collected # 0
  BY <1>1, <1>3, WriteType, AccountType
     DEF CreateMoneyCollectionEntry, EffectOK, Documents
<1> QED BY <1>2, <1>3

LEMMA DelayType ==
  ASSUME TypeOK, NEW S, Delay(S)
  PROVE  jobs' \in [JobMethods -> Nat]
BY DEF TypeOK, Delay

LEMMA RequestedType == ASSUME TypeOK, Requested PROVE TypeOK'
<1>0. bol \in Orders /\ requests' \in Nat
  BY DEF TypeOK, Orders, Requested, Request, ConfirmOrderPickup, ConfirmOrderDelivery,
         ConfirmOrderMoneyCollection, UpdateBillOfLoading
<1>1. CASE ConfirmOrderPickup
  <2>0. bol.picked + 1 \in Nat
    BY <1>0 DEF Orders
  <2>1. [bol EXCEPT !.order_status = "done", !.picked = @ + 1,
                    !.delivery = "picked"] \in Orders
    BY <1>0, <2>0 DEF Orders, Statuses
  <2>2. bol' \in Orders /\ shown' \subseteq Statuses
    BY <1>1, <2>1, WriteType DEF ConfirmOrderPickup
  <2> QED BY <1>0, <1>1, <2>2, DelayType DEF ConfirmOrderPickup, TypeOK, Orders
<1>2. CASE ConfirmOrderDelivery
  BY <1>0, <1>2, DelayType DEF ConfirmOrderDelivery, TypeOK
<1>3. CASE \E m \in {"pay", "collect"} : ConfirmOrderMoneyCollection(m)
  BY <1>0, <1>3, DelayType DEF ConfirmOrderMoneyCollection, TypeOK
<1>4. ASSUME NEW u \in Updates, UpdateBillOfLoading(u) PROVE TypeOK'
  <2> DEFINE b == IF u[1] = "shipping_fees" /\ bol.order_status = "done"
                  THEN NewFees(u[2]) ELSE bol
  <2>1. u[1] = "shipping_fees" => NewFees(u[2]) \in Orders
    BY <1>0, UpdateTypes, InvoiceType DEF Orders, NewFees
  <2>2. b \in Orders
    BY <1>0, <2>1
  <2>3. Write(b)
    BY <1>4 DEF UpdateBillOfLoading
  <2>4. bol' \in Orders /\ shown' \subseteq Statuses
    BY <2>2, <2>3, WriteType
  <2>5. writes' \in [Updates -> Nat]
    BY <1>4 DEF UpdateBillOfLoading, TypeOK
  <2> QED BY <1>0, <1>4, <2>4, <2>5 DEF UpdateBillOfLoading, TypeOK, Orders
<1> QED BY <1>1, <1>2, <1>3, <1>4 DEF Requested

LEMMA JobType == ASSUME TypeOK, Job PROVE TypeOK'
<1>0. bol \in Orders
  BY DEF TypeOK, Orders
<1>1. ASSUME NEW m \in JobMethods, RunJob(m), EffectOK PROVE TypeOK'
  <2>1. jobs' \in [JobMethods -> Nat]
    BY <1>1 DEF RunJob, TypeOK
  <2> QED BY <1>1, <2>1 DEF RunJob, TypeOK, EffectOK, Orders
<1>2. CASE ConfirmJob
  BY <1>1, <1>2, ConfirmType DEF ConfirmJob, JobMethods
<1>3. CASE DeliverJob
  BY <1>1, <1>3, DeliverType DEF DeliverJob, JobMethods
<1>4. CASE PayJob
  BY <1>1, <1>4, PaymentType DEF PayJob, JobMethods
<1>5. CASE CollectJob
  BY <1>1, <1>5, CollectType DEF CollectJob, JobMethods
<1>6. ASSUME NEW u \in Updates, WriteJob(u) PROVE TypeOK'
  <2> DEFINE b == CASE u[1] = "payment_method" -> [bol EXCEPT !.payment_method = u[2]]
                    [] u[1] = "is_pos_payment" -> [bol EXCEPT !.is_pos_payment = u[2]]
                    [] u[1] = "shipping_fees" -> [bol EXCEPT !.shipping_fees = u[2]]
                    [] u[1] = "money_collected" -> [bol EXCEPT !.money_collected = u[2]]
  <2>1. b \in Orders
    BY <1>0, UpdateTypes DEF Orders
  <2>2. Write(b)
    BY <1>6 DEF WriteJob
  <2>3. bol' \in Orders /\ shown' \subseteq Statuses
    BY <2>1, <2>2, WriteType
  <2>4. writes' \in [Updates -> Nat]
    BY <1>6 DEF WriteJob, TypeOK
  <2> QED BY <1>6, <2>3, <2>4 DEF WriteJob, TypeOK, Orders
<1> QED BY <1>2, <1>3, <1>4, <1>5, <1>6 DEF Job

LEMMA ButtonType == ASSUME TypeOK, Button \/ InvoicePaid PROVE TypeOK'
<1>0. bol \in Orders
  BY DEF TypeOK, Orders
<1>1. \A s \in Statuses : [bol EXCEPT !.order_status = s] \in Orders
  BY <1>0 DEF Orders
<1>2. ASSUME EffectOK, UNCHANGED <<jobs, writes, requests>> PROVE TypeOK'
  BY <1>2 DEF TypeOK, EffectOK, Orders
<1>3. CASE ConfirmButton
  BY <1>2, <1>3, ConfirmType DEF ConfirmButton, Press
<1>4. CASE PaymentButton
  BY <1>2, <1>4, PaymentType DEF PaymentButton, Press
<1>5. CASE CollectButton
  BY <1>2, <1>5, CollectType DEF CollectButton, Press
<1>6. CASE CancelBillLoading \/ ResetToDraft \/ AuditBillOfLoading
  <2>1. PICK s \in Statuses : Write([bol EXCEPT !.order_status = s])
    BY <1>6 DEF CancelBillLoading, ResetToDraft, AuditBillOfLoading, Statuses
  <2>2. bol' \in Orders /\ shown' \subseteq Statuses
    BY <1>1, <2>1, WriteType
  <2> QED BY <1>2, <1>6, <2>2 DEF CancelBillLoading, ResetToDraft,
                                  AuditBillOfLoading, Press, EffectOK, TypeOK
<1>7. CASE RefundBillLoading
  <2>1. [bol EXCEPT !.order_status = "refund",
                    !.invoice.state = IF @ = "open" THEN "reversed" ELSE @] \in Orders
    BY <1>0 DEF Orders, Statuses
  <2> QED BY <1>2, <1>7, <2>1, WriteType DEF RefundBillLoading, Press, EffectOK, TypeOK
<1>8. CASE InvoicePaid
  <2>1. [bol EXCEPT !.invoice.state = "paid"] \in Orders
    BY <1>0 DEF Orders
  <2> QED BY <1>2, <1>8, <2>1, WriteType DEF InvoicePaid, EffectOK, TypeOK
<1> QED BY <1>3, <1>4, <1>5, <1>6, <1>7, <1>8 DEF Button

LEMMA InitType == Init => TypeOK
<1> SUFFICES ASSUME Init PROVE TypeOK
  OBVIOUS
<1>1. bol \in Orders
  <2>1. /\ InitialFees \subseteq Nat /\ InitialMoney \subseteq Nat
        /\ "draft" \in Statuses /\ NoInvoice.state = "none" /\ NoInvoice.amount = 0
    BY OrderAssumption DEF Statuses, NoInvoice
  <2>2. NoInvoice \in [state : {"none", "open", "paid", "reversed"}, amount : Nat]
    BY DEF NoInvoice
  <2> QED BY <2>1, <2>2 DEF Init, Orders
<1>2. ledger \in [Documents -> Nat] /\ jobs \in [JobMethods -> Nat]
  BY DEF Init
<1>3. writes \in [Updates -> Nat] /\ requests \in Nat /\ shown \subseteq Statuses
  BY DEF Init, Statuses
<1> QED BY <1>1, <1>2, <1>3 DEF TypeOK, Orders

\* Every variable keeps its type: the order is a record of its fields, however
\* requests, jobs and buttons follow each other (bill_of_loading.py).
THEOREM Types == Spec => []TypeOK
<1>1. TypeOK /\ [Next]_vars => TypeOK'
  <2> SUFFICES ASSUME TypeOK, [Next]_vars PROVE TypeOK'
    OBVIOUS
  <2>1. CASE UNCHANGED vars
    BY <2>1 DEF vars, TypeOK
  <2> QED BY <2>1, RequestedType, JobType, ButtonType DEF Next
<1> QED BY InitType, <1>1, PTL DEF Spec
-----------------------------------------------------------------------------
(***************************************************************************)
(* Trips.  Two steps change them; the others leave them as they are.       *)
(***************************************************************************)

SameTrips == /\ bol'.picked = bol.picked /\ bol'.delivered = bol.delivered
             /\ bol'.delivery = bol.delivery

LEMMA SameTripsKeep == ASSUME TripsInOrder, SameTrips PROVE TripsInOrder'
BY DEF TripsInOrder, SameTrips

LEMMA EffectTrips ==
  ASSUME TypeOK,
         ConfirmBillLoading \/ RegisterPayment \/ CreateMoneyCollectionEntry
  PROVE  SameTrips
<1>0. bol \in Orders
  BY DEF TypeOK, Orders
<1> QED BY <1>0 DEF ConfirmBillLoading, RegisterPayment, PosPayment, CashPayment,
                    CreateMoneyCollectionEntry, Write, SameTrips, Orders

LEMMA DeliverTrips ==
  ASSUME TypeOK, TripsInOrder, CreateDeliveredTrip PROVE TripsInOrder'
<1>1. bol.picked = 1 /\ bol.delivered = 0
  BY DEF TripsInOrder, CreateDeliveredTrip
<1>2. bol \in Orders
  BY DEF TypeOK, Orders
<1>3. bol'.picked = 1 /\ bol'.delivered = 1 /\ bol'.delivery = "delivered"
  BY <1>1, <1>2 DEF CreateDeliveredTrip, Write, Orders
<1> QED BY <1>3 DEF TripsInOrder

LEMMA PickupTrips ==
  ASSUME TypeOK, TripsInOrder, ConfirmOrderPickup
  PROVE  bol.delivery = "none" /\ TripsInOrder'
<1>1. bol \in Orders
  BY DEF TypeOK, Orders
<1>2. bol.picked = 0 /\ bol.delivery = "none" /\ bol.delivered = 0
  BY <1>1 DEF TripsInOrder, ConfirmOrderPickup, Orders
<1>3. bol'.picked = 1 /\ bol'.delivered = 0 /\ bol'.delivery = "picked"
  BY <1>1, <1>2 DEF ConfirmOrderPickup, Write, Orders
<1> QED BY <1>2, <1>3 DEF TripsInOrder

\* What update requests and their jobs, buttons and accountants do to trips.
LEMMA OtherTrips ==
  ASSUME TypeOK,
         \/ \E u \in Updates : UpdateBillOfLoading(u) \/ WriteJob(u)
         \/ RefundBillLoading \/ CancelBillLoading \/ ResetToDraft
         \/ AuditBillOfLoading \/ InvoicePaid
  PROVE  SameTrips
<1>0. bol \in Orders
  BY DEF TypeOK, Orders
<1>1. ASSUME NEW u \in Updates, UpdateBillOfLoading(u) PROVE SameTrips
  BY <1>0, <1>1 DEF UpdateBillOfLoading, Write, NewFees, SameTrips, Orders
<1>2. ASSUME NEW u \in Updates, WriteJob(u) PROVE SameTrips
  BY <1>0, <1>2, UpdateTypes DEF WriteJob, Write, SameTrips, Orders
<1>3. CASE RefundBillLoading \/ InvoicePaid
  BY <1>0, <1>3 DEF RefundBillLoading, InvoicePaid, Write, SameTrips, Orders
<1>4. CASE CancelBillLoading \/ ResetToDraft \/ AuditBillOfLoading
  BY <1>0, <1>4 DEF CancelBillLoading, ResetToDraft, AuditBillOfLoading, Write,
                    SameTrips, Orders
<1> QED BY <1>1, <1>2, <1>3, <1>4

LEMMA TripsStep ==
  ASSUME TypeOK, TripsInOrder, [Next]_vars PROVE TripsInOrder'
<1>1. CASE UNCHANGED vars
  BY <1>1 DEF vars, TripsInOrder
<1>2. CASE Requested
  <2>1. CASE ConfirmOrderPickup
    BY <2>1, PickupTrips
  <2>2. CASE \/ ConfirmOrderDelivery
             \/ \E m \in {"pay", "collect"} : ConfirmOrderMoneyCollection(m)
    BY <2>2 DEF ConfirmOrderDelivery, ConfirmOrderMoneyCollection, TripsInOrder
  <2>3. CASE \E u \in Updates : UpdateBillOfLoading(u)
    BY <2>3, OtherTrips, SameTripsKeep
  <2> QED BY <1>2, <2>1, <2>2, <2>3 DEF Requested
<1>3. CASE Job
  <2>1. CASE DeliverJob
    BY <2>1, DeliverTrips DEF DeliverJob
  <2>2. CASE ConfirmJob \/ PayJob \/ CollectJob
    BY <2>2, EffectTrips, SameTripsKeep DEF ConfirmJob, PayJob, CollectJob
  <2>3. CASE \E u \in Updates : WriteJob(u)
    BY <2>3, OtherTrips, SameTripsKeep
  <2> QED BY <1>3, <2>1, <2>2, <2>3 DEF Job
<1>4. CASE Button
  <2>1. CASE ConfirmButton \/ PaymentButton \/ CollectButton
    BY <2>1, EffectTrips, SameTripsKeep DEF ConfirmButton, PaymentButton, CollectButton
  <2>2. CASE \/ RefundBillLoading \/ CancelBillLoading \/ ResetToDraft
             \/ AuditBillOfLoading
    BY <2>2, OtherTrips, SameTripsKeep
  <2> QED BY <1>4, <2>1, <2>2 DEF Button
<1>5. CASE InvoicePaid
  BY <1>5, OtherTrips, SameTripsKeep
<1> QED BY <1>1, <1>2, <1>3, <1>4, <1>5 DEF Next

\* However often requests of pick-up and delivery come, and in whatever order
\* their jobs run, an order has one trip of each kind, the delivery after the
\* pick-up (BillOfLoadingTrips.create).
THEOREM OneTripOfEach == Spec => []TripsInOrder
<1>1. Init => TripsInOrder
  BY DEF Init, TripsInOrder
<1> QED BY Types, TripsStep, <1>1, PTL DEF Spec
-----------------------------------------------------------------------------
(***************************************************************************)
(* Documents.  A step that makes one links the order to it.                *)
(***************************************************************************)

SameLinks == /\ UNCHANGED ledger
             /\ bol'.invoice = NoInvoice <=> bol.invoice = NoInvoice
             /\ bol'.payment_entry = None <=> bol.payment_entry = None
             /\ bol'.payment = None <=> bol.payment = None
             /\ bol'.money_entry = None <=> bol.money_entry = None

LEMMA SameLinksKeep == ASSUME BilledOnce, SameLinks PROVE BilledOnce'
<1>1. \A d \in Documents : Linked(d)' <=> Linked(d)
  BY DEF SameLinks, Linked, Documents
<1> QED BY <1>1 DEF BilledOnce, SameLinks

\* The step makes document d, which the order did not link to and now does.
Makes(d) == /\ Account(d)
            /\ ~Linked(d) /\ Linked(d)'
            /\ \A e \in Documents \ {d} : Linked(e)' <=> Linked(e)

LEMMA MakesKeeps ==
  ASSUME TypeOK, BilledOnce, NEW d \in Documents, Makes(d) PROVE BilledOnce'
<1>1. ledger' = [ledger EXCEPT ![d] = @ + 1] /\ ledger \in [Documents -> Nat]
  BY DEF Makes, Account, TypeOK
<1>2. ledger'[d] = 1 /\ Linked(d)'
  BY <1>1 DEF Makes, BilledOnce
<1>3. \A e \in Documents \ {d} : ledger'[e] = ledger[e] /\ (Linked(e)' <=> Linked(e))
  BY <1>1 DEF Makes
<1> QED BY <1>2, <1>3 DEF BilledOnce

LEMMA InvoiceIsOne == \A f : Invoice(f) # NoInvoice
<1> SUFFICES ASSUME NEW f PROVE Invoice(f) # NoInvoice
  OBVIOUS
<1>1. Invoice(f).state = "open" /\ NoInvoice.state = "none"
  BY DEF Invoice, NoInvoice
<1> QED BY <1>1

LEMMA EffectDocuments ==
  ASSUME TypeOK, BilledOnce,
         \/ ConfirmBillLoading \/ RegisterPayment \/ CreateMoneyCollectionEntry
         \/ CreateDeliveredTrip
  PROVE  BilledOnce'
<1>0. bol \in Orders /\ bol.shipping_fees \in Nat /\ bol.money_collected \in Nat
      /\ bol.invoice.amount \in Nat /\ None \notin Nat
  BY OrderAssumption DEF TypeOK, Orders
<1>1. CASE ConfirmBillLoading
  <2>1. CASE bol.invoice = NoInvoice /\ bol.shipping_fees # 0
    <3>1. bol' = [bol EXCEPT !.order_status = "done",
                             !.invoice = Invoice(bol.shipping_fees)]
          /\ Account("invoice")
      BY <1>1, <2>1 DEF ConfirmBillLoading, Write
    <3>2. /\ bol'.invoice # NoInvoice
          /\ bol'.payment_entry = bol.payment_entry
          /\ bol'.payment = bol.payment /\ bol'.money_entry = bol.money_entry
      BY <1>0, <3>1, InvoiceIsOne DEF Orders
    <3>3. Makes("invoice")
      BY <2>1, <3>1, <3>2 DEF Makes, Linked, Documents
    <3> QED BY <3>3, MakesKeeps DEF Documents
  <2>2. CASE ~(bol.invoice = NoInvoice /\ bol.shipping_fees # 0)
    BY <1>0, <1>1, <2>2, SameLinksKeep DEF ConfirmBillLoading, Write, SameLinks, Orders
  <2> QED BY <2>1, <2>2
<1>2. CASE PosPayment
  <2>1. Residual \in Nat
    BY <1>0 DEF Residual
  <2>2. bol' = [bol EXCEPT !.payment = Residual] /\ Account("payment")
        /\ bol.payment = None
    BY <1>2 DEF PosPayment, Write
  <2>3. /\ bol'.payment # None /\ bol'.invoice = bol.invoice
        /\ bol'.payment_entry = bol.payment_entry
        /\ bol'.money_entry = bol.money_entry
    BY <1>0, <2>1, <2>2 DEF Orders
  <2>4. Makes("payment")
    BY <2>2, <2>3 DEF Makes, Linked, Documents
  <2> QED BY <2>4, MakesKeeps DEF Documents
<1>3. CASE CashPayment
  <2>1. bol' = [bol EXCEPT !.payment_entry = bol.invoice.amount]
        /\ Account("payment entry") /\ bol.payment_entry = None
    BY <1>3 DEF CashPayment, Write
  <2>2. /\ bol'.payment_entry # None /\ bol'.invoice = bol.invoice
        /\ bol'.payment = bol.payment
        /\ bol'.money_entry = bol.money_entry
    BY <1>0, <2>1 DEF Orders
  <2>3. Makes("payment entry")
    BY <2>1, <2>2 DEF Makes, Linked, Documents
  <2> QED BY <2>3, MakesKeeps DEF Documents
<1>4. CASE CreateMoneyCollectionEntry /\ bol.money_collected # 0
  <2>1. bol' = [bol EXCEPT !.money_entry = bol.money_collected]
        /\ Account("money entry") /\ bol.money_entry = None
    BY <1>4 DEF CreateMoneyCollectionEntry, Write
  <2>2. /\ bol'.money_entry # None /\ bol'.invoice = bol.invoice
        /\ bol'.payment_entry = bol.payment_entry
        /\ bol'.payment = bol.payment
    BY <1>0, <2>1 DEF Orders
  <2>3. Makes("money entry")
    BY <2>1, <2>2 DEF Makes, Linked, Documents
  <2> QED BY <2>3, MakesKeeps DEF Documents
<1>5. CASE UNCHANGED <<bol, shown, ledger>>
  BY <1>5, SameLinksKeep DEF SameLinks
<1>6. CASE CreateDeliveredTrip
  BY <1>0, <1>6, SameLinksKeep DEF CreateDeliveredTrip, Write, SameLinks, Orders
<1> QED BY <1>1, <1>2, <1>3, <1>4, <1>5, <1>6
        DEF RegisterPayment, CreateMoneyCollectionEntry

LEMMA OtherLinks ==
  ASSUME TypeOK,
         \/ Requested
         \/ \E u \in Updates : WriteJob(u)
         \/ RefundBillLoading \/ CancelBillLoading \/ ResetToDraft
         \/ AuditBillOfLoading \/ InvoicePaid
  PROVE  SameLinks
<1>0. bol \in Orders
  BY DEF TypeOK, Orders
<1>1. CASE ConfirmOrderPickup
  BY <1>0, <1>1 DEF ConfirmOrderPickup, Write, SameLinks, Orders
<1>2. CASE \/ ConfirmOrderDelivery
           \/ \E m \in {"pay", "collect"} : ConfirmOrderMoneyCollection(m)
  BY <1>2 DEF ConfirmOrderDelivery, ConfirmOrderMoneyCollection, SameLinks
<1>3. ASSUME NEW u \in Updates, UpdateBillOfLoading(u) PROVE SameLinks
  <2>1. CASE bol' = NewFees(u[2])
    BY <1>0, <1>3, <2>1, InvoiceIsOne DEF UpdateBillOfLoading, NewFees, SameLinks, Orders
  <2>2. CASE bol' = bol
    BY <1>3, <2>2 DEF UpdateBillOfLoading, SameLinks
  <2> QED BY <1>3, <2>1, <2>2 DEF UpdateBillOfLoading, Write
<1>4. ASSUME NEW u \in Updates, WriteJob(u) PROVE SameLinks
  BY <1>0, <1>4, UpdateTypes DEF WriteJob, Write, SameLinks, Orders
<1>5. CASE CancelBillLoading \/ ResetToDraft \/ AuditBillOfLoading
  BY <1>0, <1>5 DEF CancelBillLoading, ResetToDraft, AuditBillOfLoading, Write,
                    SameLinks, Orders
<1>6. CASE RefundBillLoading
  <2>1. bol' = [bol EXCEPT !.order_status = "refund",
                           !.invoice.state = IF @ = "open" THEN "reversed" ELSE @]
    BY <1>6 DEF RefundBillLoading, Write
  <2>2. bol.invoice.state # "open" => bol'.invoice = bol.invoice
    BY <1>0, <2>1 DEF Orders
  <2>3. bol.invoice.state = "open" => bol'.invoice.state = "reversed"
    BY <1>0, <2>1 DEF Orders
  <2>4. NoInvoice.state = "none"
    BY DEF NoInvoice
  <2>5. bol'.invoice = NoInvoice <=> bol.invoice = NoInvoice
    BY <2>2, <2>3, <2>4
  <2> QED BY <1>0, <1>6, <2>1, <2>5 DEF RefundBillLoading, SameLinks, Orders
<1>7. CASE InvoicePaid
  <2>1. bol' = [bol EXCEPT !.invoice.state = "paid"] /\ bol.invoice.state = "open"
    BY <1>7 DEF InvoicePaid, Write
  <2>2. bol'.invoice.state = "paid" /\ NoInvoice.state = "none"
    BY <1>0, <2>1 DEF Orders, NoInvoice
  <2> QED BY <1>0, <1>7, <2>1, <2>2 DEF InvoicePaid, SameLinks, Orders
<1> QED BY <1>1, <1>2, <1>3, <1>4, <1>5, <1>6, <1>7 DEF Requested

LEMMA DocumentsStep ==
  ASSUME TypeOK, BilledOnce, [Next]_vars PROVE BilledOnce'
<1>1. CASE UNCHANGED vars
  BY <1>1, SameLinksKeep DEF vars, SameLinks
<1>2. CASE Requested \/ InvoicePaid
  BY <1>2, OtherLinks, SameLinksKeep
<1>3. CASE Job
  <2>1. CASE ConfirmJob \/ PayJob \/ CollectJob \/ DeliverJob
    BY <2>1, EffectDocuments DEF ConfirmJob, PayJob, CollectJob, DeliverJob
  <2>2. CASE \E u \in Updates : WriteJob(u)
    BY <2>2, OtherLinks, SameLinksKeep
  <2> QED BY <1>3, <2>1, <2>2 DEF Job
<1>4. CASE Button
  <2>1. CASE ConfirmButton \/ PaymentButton \/ CollectButton
    BY <2>1, EffectDocuments DEF ConfirmButton, PaymentButton, CollectButton
  <2>2. CASE \/ RefundBillLoading \/ CancelBillLoading \/ ResetToDraft
             \/ AuditBillOfLoading
    BY <2>2, OtherLinks, SameLinksKeep
  <2> QED BY <1>4, <2>1, <2>2 DEF Button
<1> QED BY <1>1, <1>2, <1>3, <1>4 DEF Next

\* Accounting has exactly the documents the order links to, one of each kind at
\* most: confirm_bill_loading, register_payment and
\* create_money_collection_entry make none twice.
THEOREM NoDocumentTwice == Spec => []BilledOnce
<1>1. Init => BilledOnce
  <2> SUFFICES ASSUME Init PROVE BilledOnce
    OBVIOUS
  <2>1. /\ bol.invoice = NoInvoice /\ bol.payment_entry = None
        /\ bol.payment = None /\ bol.money_entry = None
    BY DEF Init
  <2> QED BY <2>1 DEF Init, BilledOnce, Linked, Documents
<1> QED BY Types, DocumentsStep, <1>1, PTL DEF Spec
-----------------------------------------------------------------------------
(***************************************************************************)
(* Collection, when no update changes the payment method: a job that did,  *)
(* after the shipping fees were paid on pick-up, would have them paid      *)
(* before delivery.                                                        *)
(***************************************************************************)

MethodIsKept == \A u \in Updates : u[1] # "payment_method"

NoCollection == /\ bol'.money_entry = bol.money_entry
                /\ bol'.payment_entry = bol.payment_entry
                /\ bol'.payment_method = bol.payment_method
                /\ bol.delivery = "delivered" => bol'.delivery = "delivered"

LEMMA NoCollectionKeeps ==
  ASSUME CollectedAfterDelivery, NoCollection PROVE CollectedAfterDelivery'
BY DEF CollectedAfterDelivery, NoCollection

LEMMA EffectCollection ==
  ASSUME TypeOK, TripsInOrder, CollectedAfterDelivery,
         \/ ConfirmBillLoading \/ RegisterPayment \/ CreateMoneyCollectionEntry
         \/ CreateDeliveredTrip
  PROVE  CollectedAfterDelivery'
<1>0. bol \in Orders
  BY DEF TypeOK, Orders
<1>1. CASE ConfirmBillLoading \/ CreateDeliveredTrip \/ PosPayment
  <2>1. NoCollection
    BY <1>0, <1>1 DEF ConfirmBillLoading, CreateDeliveredTrip, PosPayment, Write,
                      NoCollection, Orders
  <2> QED BY <2>1, NoCollectionKeeps
<1>2. CASE CashPayment
  <2>1. /\ bol'.delivery = bol.delivery /\ bol'.money_entry = bol.money_entry
        /\ bol'.payment_method = bol.payment_method
    BY <1>0, <1>2 DEF CashPayment, Write, Orders
  <2>2. bol.payment_method = "on_delivery" => bol.delivered = 1
    BY <1>2 DEF CashPayment, PaymentDriver
  <2>3. bol.delivered = 1 => bol.delivery = "delivered"
    BY <1>0 DEF TripsInOrder, Orders
  <2> QED BY <2>1, <2>2, <2>3 DEF CollectedAfterDelivery
<1>3. CASE CreateMoneyCollectionEntry /\ bol.money_collected # 0
  <2>1. bol'.delivery = bol.delivery /\ bol.delivered = 1
    BY <1>0, <1>3 DEF CreateMoneyCollectionEntry, Write, Orders
  <2>2. bol.delivery = "delivered"
    BY <1>0, <2>1 DEF TripsInOrder, Orders
  <2> QED BY <2>1, <2>2 DEF CollectedAfterDelivery
<1>4. CASE UNCHANGED <<bol, shown, ledger>>
  BY <1>4, NoCollectionKeeps DEF NoCollection
<1> QED BY <1>1, <1>2, <1>3, <1>4 DEF RegisterPayment, CreateMoneyCollectionEntry

LEMMA OtherCollection ==
  ASSUME MethodIsKept, TypeOK, TripsInOrder,
         \/ Requested
         \/ \E u \in Updates : WriteJob(u)
         \/ RefundBillLoading \/ CancelBillLoading \/ ResetToDraft
         \/ AuditBillOfLoading \/ InvoicePaid
  PROVE  NoCollection
<1>0. bol \in Orders
  BY DEF TypeOK, Orders
<1>1. CASE ConfirmOrderPickup
  BY <1>0, <1>1, PickupTrips DEF ConfirmOrderPickup, Write, NoCollection, Orders
<1>2. CASE \/ ConfirmOrderDelivery
           \/ \E m \in {"pay", "collect"} : ConfirmOrderMoneyCollection(m)
  BY <1>2 DEF ConfirmOrderDelivery, ConfirmOrderMoneyCollection, NoCollection
<1>3. ASSUME NEW u \in Updates, UpdateBillOfLoading(u) PROVE NoCollection
  BY <1>0, <1>3 DEF UpdateBillOfLoading, Write, NewFees, NoCollection, Orders
<1>4. ASSUME NEW u \in Updates, WriteJob(u) PROVE NoCollection
  BY <1>0, <1>4, UpdateTypes DEF MethodIsKept, WriteJob, Write, NoCollection, Orders
<1>5. CASE CancelBillLoading \/ ResetToDraft \/ AuditBillOfLoading
  BY <1>0, <1>5 DEF CancelBillLoading, ResetToDraft, AuditBillOfLoading, Write,
                    NoCollection, Orders
<1>6. CASE RefundBillLoading \/ InvoicePaid
  BY <1>0, <1>6 DEF RefundBillLoading, InvoicePaid, Write, NoCollection, Orders
<1> QED BY <1>1, <1>2, <1>3, <1>4, <1>5, <1>6 DEF Requested

LEMMA CollectionStep ==
  ASSUME MethodIsKept, TypeOK, TripsInOrder, CollectedAfterDelivery, [Next]_vars
  PROVE  CollectedAfterDelivery'
<1>1. CASE UNCHANGED vars
  BY <1>1, NoCollectionKeeps DEF vars, NoCollection
<1>2. CASE Requested \/ InvoicePaid
  BY <1>2, OtherCollection, NoCollectionKeeps
<1>3. CASE Job
  <2>1. CASE ConfirmJob \/ PayJob \/ CollectJob \/ DeliverJob
    BY <2>1, EffectCollection DEF ConfirmJob, PayJob, CollectJob, DeliverJob
  <2>2. CASE \E u \in Updates : WriteJob(u)
    BY <2>2, OtherCollection, NoCollectionKeeps
  <2> QED BY <1>3, <2>1, <2>2 DEF Job
<1>4. CASE Button
  <2>1. CASE ConfirmButton \/ PaymentButton \/ CollectButton
    BY <2>1, EffectCollection DEF ConfirmButton, PaymentButton, CollectButton
  <2>2. CASE \/ RefundBillLoading \/ CancelBillLoading \/ ResetToDraft
             \/ AuditBillOfLoading
    BY <2>2, OtherCollection, NoCollectionKeeps
  <2> QED BY <1>4, <2>1, <2>2 DEF Button
<1> QED BY <1>1, <1>2, <1>3, <1>4 DEF Next

\* Money for the customer, and the shipping fees of an order paid on delivery,
\* are entered only once the order is delivered, unless an update changes the
\* payment method (create_money_collection_entry, register_payment).
THEOREM CollectionFollowsDelivery ==
  ASSUME MethodIsKept
  PROVE  Spec => []CollectedAfterDelivery
<1>1. Init => CollectedAfterDelivery
  BY DEF Init, CollectedAfterDelivery
<1>2. TypeOK /\ TripsInOrder /\ CollectedAfterDelivery /\ [Next]_vars
        => CollectedAfterDelivery'
  BY CollectionStep
<1> QED BY Types, OneTripOfEach, <1>1, <1>2, PTL DEF Spec
=============================================================================
