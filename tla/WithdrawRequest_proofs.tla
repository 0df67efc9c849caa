------------------------ MODULE WithdrawRequest_proofs ------------------------
(***************************************************************************)
(* Proofs about WithdrawRequest, for any requests, commissions, taxes and    *)
(* amounts: no request is billed or paid out twice, and one that is done is  *)
(* settled.                                                                 *)
(***************************************************************************)
EXTENDS WithdrawRequest, FiniteSetTheorems, SequenceTheorems, WellFoundedInduction, TLAPS

InvoiceRecord == [total : Int, discount : Int, paid : Int, locked : BOOLEAN]

RequestRecord ==
    [amount : Int, fee : Int, status : {"draft", "done"}, operation : {"draft", "finished"},
     invoice : DOMAIN invoices \cup {NoInvoice}, payment : Nat, entry : Nat]

\* Types, as far as the arithmetic needs them.
TypeOK ==
    /\ invoices \in [DOMAIN invoices -> InvoiceRecord]
    /\ requests \in [DOMAIN requests -> RequestRecord]
    /\ payments \in Seq([for : DOMAIN requests, amount : Int])
    /\ entries \in Seq([for : DOMAIN requests, amount : Int])

\* The number of an invoice says whose it is.
Numbered ==
    /\ \A i \in DOMAIN invoices : i # NoInvoice /\ i[2] \in DOMAIN requests
    /\ \A r \in DOMAIN requests : requests[r].invoice # NoInvoice => requests[r].invoice[2] = r

\* What was paid out was billed, and its fee paid.
PaidIsSettled ==
    \A r \in DOMAIN requests :
        /\ requests[r].entry # None =>
                requests[r].invoice # NoInvoice /\ Residual(requests[r].invoice) = 0
        /\ requests[r].status = "done" => requests[r].entry # None

Inv == TypeOK /\ Numbered /\ PaidOutOnce /\ PaidIsSettled

-----------------------------------------------------------------------------
(* Sequences and arithmetic. *)

LEMMA SeqElements ==
  ASSUME NEW S, NEW s \in Seq(S)
  PROVE  DOMAIN s = 1..Len(s) /\ \A k \in DOMAIN s : s[k] \in S
  BY ElementOfSeq, LenProperties

LEMMA HalfUpType == ASSUME NEW n \in Int PROVE HalfUp(n) \in Int
  BY DEF HalfUp

\* A set of numbers has a first one.
LEMMA MinType ==
  ASSUME NEW S, S \subseteq Nat, S # {}
  PROVE  Min(S) \in S
<1> DEFINE R == {n \in Nat \X Nat : n[1] < n[2]}
<1>1. IsWellFoundedOn(R, Nat)
  BY NatLessThanWellFounded DEF OpToRel
<1> HIDE DEF R
<1>2. PICK x \in S : \A y \in S : ~(<<y, x>> \in R)
  BY <1>1, WFMin
<1>3. ASSUME NEW y \in S PROVE x <= y
  <2>1. <<y, x>> \in Nat \X Nat /\ <<y, x>>[1] = y /\ <<y, x>>[2] = x
    OBVIOUS
  <2>2. ~(y < x)
    BY <1>2, <2>1 DEF R
  <2> QED BY <2>2
<1> QED BY <1>3 DEF Min

\* The fee of an amount, calculated or entered, is a number.
LEMMA FeesType ==
  ASSUME NEW amount \in Asked, NEW fee \in Fees(amount)
  PROVE  amount \in Int /\ fee \in Int
<1> USE WithdrawAssumption
<1>1. amount \in Nat
  OBVIOUS
<1>2. Fee(amount) \in Int
  <2>1. CASE CommissionsFor(amount) = {}
    BY <2>1 DEF Fee
  <2>2. CASE CommissionsFor(amount) # {}
    <3>1. CommissionsFor(amount) \subseteq DOMAIN Commissions /\ DOMAIN Commissions \subseteq Nat
      BY DEF CommissionsFor
    <3>2. Min(CommissionsFor(amount)) \in DOMAIN Commissions
      BY <2>2, <3>1, MinType
    <3> DEFINE c == Commissions[Min(CommissionsFor(amount))]
    <3>3. c \in [from : Nat, to : Nat, type : {"percent", "amount"}, value : Nat]
      BY <3>2, SeqElements
    <3>0. Fee(amount) = IF c.type = "percent" THEN HalfUp(amount * c.value) ELSE c.value
      BY <2>2 DEF Fee
    <3> HIDE DEF c
    <3>4. c.value \in Nat /\ amount * c.value \in Int
      BY <1>1, <3>3
    <3>5. HalfUp(amount * c.value) \in Int
      BY <3>4, HalfUpType
    <3> QED BY <3>0, <3>4, <3>5
  <2> QED BY <2>1, <2>2
<1>3. HandFees \subseteq Int /\ amount \in Int
  BY <1>1
<1>4. fee = Fee(amount) \/ fee \in HandFees
  BY DEF Fees
<1> QED BY <1>2, <1>3, <1>4

\* Payments and entries are of requests.
LEMMA DocumentsType ==
  ASSUME Inv
  PROVE  /\ DOMAIN payments = 1..Len(payments) /\ DOMAIN entries = 1..Len(entries)
         /\ \A p \in DOMAIN payments : payments[p].for \in DOMAIN requests
         /\ \A e \in DOMAIN entries : entries[e].for \in DOMAIN requests
<1>1. /\ payments \in Seq([for : DOMAIN requests, amount : Int])
      /\ entries \in Seq([for : DOMAIN requests, amount : Int])
  BY DEF Inv, TypeOK
<1>2. /\ DOMAIN payments = 1..Len(payments)
      /\ \A p \in DOMAIN payments : payments[p] \in [for : DOMAIN requests, amount : Int]
  BY <1>1, SeqElements
<1>3. /\ DOMAIN entries = 1..Len(entries)
      /\ \A e \in DOMAIN entries : entries[e] \in [for : DOMAIN requests, amount : Int]
  BY <1>1, SeqElements
<1> QED BY <1>2, <1>3

LEMMA InitInv == Init => Inv
  BY DEF Init, Inv, TypeOK, Numbered, PaidOutOnce, PaidIsSettled, InvoiceRecord, RequestRecord

\* Only the fields of one request change, and neither its documents nor whether
\* it is done.
LEMMA WriteKeepsInv ==
  ASSUME Inv, NEW r \in DOMAIN requests, NEW record \in RequestRecord, Write(r, record),
         record.invoice = requests[r].invoice, record.payment = requests[r].payment,
         record.entry = requests[r].entry, record.status = "done" => record.entry # None,
         UNCHANGED <<invoices, payments, entries>>
  PROVE  Inv'
<1>1. DOMAIN requests' = DOMAIN requests /\ requests' \in [DOMAIN requests -> RequestRecord]
  BY DEF Inv, TypeOK, Write
<1>2. RequestRecord' = RequestRecord
  BY DEF RequestRecord
<1>3. \A q \in DOMAIN requests :
        /\ requests'[q].invoice = requests[q].invoice /\ requests'[q].payment = requests[q].payment
        /\ requests'[q].entry = requests[q].entry
        /\ requests'[q].status = "done" => requests'[q].entry # None
  BY DEF Inv, TypeOK, Write, PaidIsSettled
<1>4. TypeOK' /\ Numbered'
  BY <1>1, <1>2, <1>3 DEF Inv, TypeOK, Numbered
<1>5. PaidOutOnce'
  <2>1. /\ \A p \in DOMAIN payments : payments[p].for \in DOMAIN requests
        /\ \A e \in DOMAIN entries : entries[e].for \in DOMAIN requests
    BY DocumentsType
  <2> QED BY <1>1, <1>3, <2>1 DEF Inv, Numbered, PaidOutOnce
<1>6. PaidIsSettled'
  BY <1>1, <1>3 DEF Inv, PaidIsSettled, Residual
<1> QED BY <1>4, <1>5, <1>6 DEF Inv

LEMMA CreateKeepsInv ==
  ASSUME Inv, NEW r \in Requests, Create(r)
  PROVE  Inv'
<1>0. PICK amount \in Asked : \E fee \in Fees(amount) :
        requests' = [q \in DOMAIN requests \cup {r} |-> IF q = r THEN New(amount, fee) ELSE requests[q]]
  BY DEF Create
<1>1. PICK fee \in Fees(amount) :
        requests' = [q \in DOMAIN requests \cup {r} |-> IF q = r THEN New(amount, fee) ELSE requests[q]]
  BY <1>0
<1>2. r \notin DOMAIN requests /\ UNCHANGED <<invoices, payments, entries>>
  BY DEF Create
<1>3. New(amount, fee) \in RequestRecord
  BY FeesType DEF New, RequestRecord, None
<1>4. DOMAIN requests' = DOMAIN requests \cup {r}
  BY <1>1
<1>5. requests' \in [DOMAIN requests \cup {r} -> RequestRecord]
  BY <1>1, <1>3 DEF Inv, TypeOK
<1>6. \A q \in DOMAIN requests : requests'[q] = requests[q]
  BY <1>1, <1>2
<1>7. requests'[r] = New(amount, fee)
  BY <1>1
<1>8. TypeOK'
  <2>1. [for : DOMAIN requests, amount : Int] \subseteq [for : DOMAIN requests', amount : Int]
    BY <1>4
  <2>2. /\ payments' \in Seq([for : DOMAIN requests', amount : Int])
        /\ entries' \in Seq([for : DOMAIN requests', amount : Int])
    BY <1>2, <2>1, SeqMonotonic DEF Inv, TypeOK
  <2> QED BY <1>2, <1>4, <1>5, <2>2 DEF Inv, TypeOK, RequestRecord
<1>9. Numbered'
  BY <1>2, <1>4, <1>6, <1>7 DEF Inv, Numbered, New
<1>10. PaidOutOnce'
  <2>1. /\ \A p \in DOMAIN payments : payments[p].for \in DOMAIN requests
        /\ \A e \in DOMAIN entries : entries[e].for \in DOMAIN requests
    BY DocumentsType
  <2> QED BY <1>2, <1>4, <1>6, <1>7, <2>1 DEF Inv, Numbered, PaidOutOnce, New
<1>11. PaidIsSettled'
  BY <1>2, <1>4, <1>6, <1>7 DEF Inv, PaidIsSettled, Residual, New
<1> QED BY <1>8, <1>9, <1>10, <1>11 DEF Inv

LEMMA EditKeepsInv ==
  ASSUME Inv, NEW r \in DOMAIN requests, Edit(r)
  PROVE  Inv'
<1>0. PICK amount \in Asked : \E fee \in Fees(amount) :
        Write(r, [requests[r] EXCEPT !.amount = amount, !.fee = fee])
  BY DEF Edit
<1>1. PICK fee \in Fees(amount) :
        Write(r, [requests[r] EXCEPT !.amount = amount, !.fee = fee])
  BY <1>0
<1> DEFINE record == [requests[r] EXCEPT !.amount = amount, !.fee = fee]
<1>2. requests[r] \in RequestRecord /\ requests[r].status = "draft" /\ UNCHANGED <<invoices, payments, entries>>
  BY DEF Edit, Inv, TypeOK
<1>3. /\ record \in RequestRecord /\ record.invoice = requests[r].invoice
      /\ record.payment = requests[r].payment /\ record.entry = requests[r].entry
      /\ record.status = "draft"
  BY <1>2, FeesType DEF RequestRecord
<1> HIDE DEF record
<1> QED BY <1>1, <1>2, <1>3, WriteKeepsInv DEF record

LEMMA BillKeepsInv ==
  ASSUME Inv, NEW r \in DOMAIN requests, RequestInvoiceCreation(r)
  PROVE  Inv'
<1> DEFINE i == NewInvoice("fee", r)
           total == requests[r].fee + HalfUp(requests[r].fee * TaxRate)
           record == [requests[r] EXCEPT !.invoice = i]
<1>1. requests[r] \in RequestRecord
  BY DEF Inv, TypeOK
<1>2. total \in Int
  <2>1. requests[r].fee \in Int /\ TaxRate \in Int
    BY <1>1, WithdrawAssumption DEF RequestRecord
  <2>2. requests[r].fee * TaxRate \in Int
    BY <2>1
  <2> QED BY <2>1, <2>2, HalfUpType
<1>3. i # NoInvoice /\ i[2] = r
  BY DEF NewInvoice, NoInvoice
<1>4. /\ requests[r].invoice = NoInvoice
      /\ requests' = [requests EXCEPT ![r] = record]
      /\ UNCHANGED <<payments, entries>>
  BY DEF RequestInvoiceCreation, Write
<1> HIDE DEF i, total
<1>5. /\ DOMAIN invoices' = DOMAIN invoices \cup {i}
      /\ invoices' \in [DOMAIN invoices \cup {i} -> InvoiceRecord]
      /\ \A j \in DOMAIN invoices : j # i => invoices'[j] = invoices[j]
  <2>1. invoices' = [j \in DOMAIN invoices \cup {i} |->
                        IF j = i THEN [total |-> total, discount |-> 0, paid |-> 0, locked |-> FALSE]
                        ELSE invoices[j]]
    BY DEF RequestInvoiceCreation, Post, i, total
  <2>2. [total |-> total, discount |-> 0, paid |-> 0, locked |-> FALSE] \in InvoiceRecord
    BY <1>2 DEF InvoiceRecord
  <2> QED BY <2>1, <2>2 DEF Inv, TypeOK
<1>6. i \notin DOMAIN invoices
  BY <1>3, <1>4 DEF Inv, PaidOutOnce
<1>7. record.invoice = i /\ record.entry = requests[r].entry /\ record.payment = requests[r].payment
      /\ record.status = requests[r].status
  BY <1>1 DEF RequestRecord
<1>8. requests[r].entry = None /\ requests[r].payment = None /\ requests[r].status # "done"
  BY <1>4 DEF Inv, PaidIsSettled, PaidOutOnce
<1>9. requests' \in [DOMAIN requests -> RequestRecord']
  <2>1. RequestRecord \subseteq RequestRecord'
    BY <1>5 DEF RequestRecord
  <2>2. record \in RequestRecord'
    BY <1>1, <1>5 DEF RequestRecord
  <2> HIDE DEF record
  <2> QED BY <1>4, <2>1, <2>2 DEF Inv, TypeOK
<1>10. DOMAIN requests' = DOMAIN requests
  BY <1>9
<1>11. TypeOK'
  BY <1>4, <1>5, <1>9, <1>10 DEF Inv, TypeOK
<1>12. requests'[r] = record /\ \A q \in DOMAIN requests : q # r => requests'[q] = requests[q]
  BY <1>4 DEF Inv, TypeOK
<1> HIDE DEF record
<1>13. Numbered'
  BY <1>3, <1>5, <1>7, <1>10, <1>12 DEF Inv, Numbered
<1>14. PaidOutOnce'
  <2>1. \A j \in DOMAIN invoices' : requests'[j[2]].invoice = j
    <3> SUFFICES ASSUME NEW j \in DOMAIN invoices' PROVE requests'[j[2]].invoice = j
      OBVIOUS
    <3>1. CASE j = i
      BY <3>1, <1>3, <1>7, <1>12
    <3>2. CASE j # i
      <4>1. j \in DOMAIN invoices /\ j # NoInvoice /\ j[2] \in DOMAIN requests /\ requests[j[2]].invoice = j
        BY <3>2, <1>5 DEF Inv, Numbered, PaidOutOnce
      <4>2. j[2] # r
        BY <4>1, <1>4
      <4> QED BY <4>1, <4>2, <1>12
    <3> QED BY <3>1, <3>2
  <2>2. \A p \in DOMAIN payments : requests'[payments[p].for].payment = p
    <3>1. \A p \in DOMAIN payments : payments[p].for \in DOMAIN requests
      BY DocumentsType
    <3> QED BY <3>1, <1>7, <1>12 DEF Inv, PaidOutOnce
  <2>3. \A e \in DOMAIN entries : requests'[entries[e].for].entry = e
    <3>1. \A e \in DOMAIN entries : entries[e].for \in DOMAIN requests
      BY DocumentsType
    <3> QED BY <3>1, <1>7, <1>12 DEF Inv, PaidOutOnce
  <2>4. \A q \in DOMAIN requests : requests'[q].payment = None <=> requests'[q].entry = None
    BY <1>7, <1>12 DEF Inv, PaidOutOnce
  <2> QED BY <1>4, <1>10, <2>1, <2>2, <2>3, <2>4 DEF PaidOutOnce
<1>15. PaidIsSettled'
  <2>1. ASSUME NEW q \in DOMAIN requests, q # r, requests[q].entry # None
        PROVE  (requests[q].invoice # NoInvoice /\ Residual(requests[q].invoice) = 0)'
    <3>1. requests[q].invoice \in DOMAIN invoices /\ Residual(requests[q].invoice) = 0
      BY <2>1 DEF Inv, TypeOK, PaidIsSettled, RequestRecord
    <3>2. requests'[q] = requests[q] /\ requests[q].invoice # NoInvoice /\ requests[q].invoice # i
      BY <2>1, <3>1, <1>6, <1>12 DEF Inv, PaidIsSettled
    <3> QED BY <3>1, <3>2, <1>5 DEF Residual
  <2> QED BY <1>7, <1>8, <1>10, <1>12, <2>1 DEF Inv, PaidIsSettled
<1> QED BY <1>11, <1>13, <1>14, <1>15 DEF Inv

\* A payment takes what is left of one invoice, and an entry is the first of its
\* request.
LEMMA PayOutKeepsInv ==
  ASSUME Inv, NEW r \in DOMAIN requests, RequestPaymentEntriesCreation(r)
  PROVE  Inv'
<1> DEFINE i == requests[r].invoice
           p == Len(payments) + 1
           e == Len(entries) + 1
           record == [requests[r] EXCEPT !.payment = p, !.entry = e]
<1>1. /\ requests[r] \in RequestRecord /\ i # NoInvoice /\ i \in DOMAIN invoices
      /\ invoices[i] \in InvoiceRecord /\ requests[r].amount \in Int
      /\ requests[r].payment = None /\ requests[r].entry = None
  BY DEF RequestPaymentEntriesCreation, Inv, TypeOK, RequestRecord
<1>2. FeeLeft(r) \in Int /\ FeeLeft(r) = invoices[i].total - invoices[i].paid
  BY <1>1 DEF FeeLeft, Residual, InvoiceRecord
<1>3. /\ Document(r, FeeLeft(r)) \in [for : DOMAIN requests, amount : Int]
      /\ Document(r, requests[r].amount) \in [for : DOMAIN requests, amount : Int]
  BY <1>1, <1>2 DEF Document
<1>4. /\ payments' = Append(payments, Document(r, FeeLeft(r)))
      /\ entries' = Append(entries, Document(r, requests[r].amount))
      /\ invoices' = [invoices EXCEPT ![i].paid = @ + FeeLeft(r)]
  BY DEF RequestPaymentEntriesCreation
<1>5. /\ payments' \in Seq([for : DOMAIN requests, amount : Int]) /\ DOMAIN payments' = 1..p
      /\ \A k \in 1..Len(payments) : payments'[k] = payments[k]
      /\ payments'[p] = Document(r, FeeLeft(r)) /\ Len(payments') = p /\ DOMAIN payments = 1..Len(payments)
  BY <1>3, <1>4, AppendProperties DEF Inv, TypeOK
<1>6. /\ entries' \in Seq([for : DOMAIN requests, amount : Int]) /\ DOMAIN entries' = 1..e
      /\ \A k \in 1..Len(entries) : entries'[k] = entries[k]
      /\ entries'[e] = Document(r, requests[r].amount) /\ Len(entries') = e /\ DOMAIN entries = 1..Len(entries)
  BY <1>3, <1>4, AppendProperties DEF Inv, TypeOK
<1>7. requests' = [requests EXCEPT ![r] = record]
  BY <1>5, <1>6 DEF RequestPaymentEntriesCreation, Write
<1>8. p \in Nat /\ e \in Nat /\ p # None /\ e # None /\ p > Len(payments) /\ e > Len(entries)
  BY DEF Inv, TypeOK, None
<1> HIDE DEF i, p, e
<1>9. /\ record \in RequestRecord /\ record.payment = p /\ record.entry = e
      /\ record.invoice = i /\ record.status = requests[r].status
  BY <1>1, <1>8 DEF RequestRecord, i
<1>10. /\ DOMAIN invoices' = DOMAIN invoices /\ invoices' \in [DOMAIN invoices -> InvoiceRecord]
       /\ invoices'[i].total - invoices'[i].paid = 0
       /\ \A j \in DOMAIN invoices : j # i => invoices'[j] = invoices[j]
  <2> DEFINE paid == invoices[i].paid + FeeLeft(r)
  <2>1. invoices' = [invoices EXCEPT ![i].paid = paid]
    BY <1>4
  <2>2. paid \in Int /\ invoices[i].total - paid = 0
    BY <1>1, <1>2 DEF InvoiceRecord
  <2> HIDE DEF paid
  <2>3. invoices \in [DOMAIN invoices -> InvoiceRecord]
    BY DEF Inv, TypeOK
  <2>4. [invoices[i] EXCEPT !.paid = paid] \in InvoiceRecord
    BY <1>1, <2>2 DEF InvoiceRecord
  <2>5. invoices' = [invoices EXCEPT ![i] = [invoices[i] EXCEPT !.paid = paid]]
    BY <2>1
  <2>6. invoices'[i] = [invoices[i] EXCEPT !.paid = paid]
    BY <1>1, <2>5
  <2>7. invoices'[i].total = invoices[i].total /\ invoices'[i].paid = paid
    BY <1>1, <2>6 DEF InvoiceRecord
  <2> QED BY <1>1, <2>2, <2>3, <2>4, <2>5, <2>7
<1> HIDE DEF record
<1>11. /\ DOMAIN requests' = DOMAIN requests /\ requests' \in [DOMAIN requests -> RequestRecord]
       /\ requests'[r] = record /\ \A q \in DOMAIN requests : q # r => requests'[q] = requests[q]
  BY <1>7, <1>9 DEF Inv, TypeOK
<1>12. TypeOK'
  <2>1. RequestRecord' = RequestRecord
    BY <1>10 DEF RequestRecord
  <2> QED BY <2>1, <1>5, <1>6, <1>10, <1>11 DEF TypeOK
<1>13. Numbered'
  BY <1>9, <1>10, <1>11 DEF Inv, Numbered, i
<1>14. PaidOutOnce'
  <2>1. \A j \in DOMAIN invoices' : requests'[j[2]].invoice = j
    BY <1>9, <1>10, <1>11 DEF Inv, Numbered, PaidOutOnce, i
  <2>2. \A k \in DOMAIN payments' : requests'[payments'[k].for].payment = k
    <3> SUFFICES ASSUME NEW k \in 1..p PROVE requests'[payments'[k].for].payment = k
      BY <1>5
    <3>1. CASE k = p
      BY <3>1, <1>5, <1>9, <1>11 DEF Document
    <3>2. CASE k # p
      <4>1. k \in 1..Len(payments)
        BY <3>2 DEF Inv, TypeOK, p
      <4>2. payments[k].for \in DOMAIN requests /\ requests[payments[k].for].payment = k
        BY <4>1, DocumentsType DEF Inv, PaidOutOnce
      <4>3. payments[k].for # r
        BY <4>1, <4>2, <1>1 DEF None
      <4> QED BY <4>1, <4>2, <4>3, <1>5, <1>11
    <3> QED BY <3>1, <3>2
  <2>3. \A k \in DOMAIN entries' : requests'[entries'[k].for].entry = k
    <3> SUFFICES ASSUME NEW k \in 1..e PROVE requests'[entries'[k].for].entry = k
      BY <1>6
    <3>1. CASE k = e
      BY <3>1, <1>6, <1>9, <1>11 DEF Document
    <3>2. CASE k # e
      <4>1. k \in 1..Len(entries)
        BY <3>2 DEF Inv, TypeOK, e
      <4>2. entries[k].for \in DOMAIN requests /\ requests[entries[k].for].entry = k
        BY <4>1, DocumentsType DEF Inv, PaidOutOnce
      <4>3. entries[k].for # r
        BY <4>1, <4>2, <1>1 DEF None
      <4> QED BY <4>1, <4>2, <4>3, <1>6, <1>11
    <3> QED BY <3>1, <3>2
  <2>4. \A q \in DOMAIN requests' : requests'[q].payment = None <=> requests'[q].entry = None
    BY <1>8, <1>9, <1>11 DEF Inv, PaidOutOnce
  <2> QED BY <2>1, <2>2, <2>3, <2>4 DEF PaidOutOnce
<1>15. PaidIsSettled'
  <2>1. ASSUME NEW q \in DOMAIN requests, q # r, requests[q].entry # None
        PROVE  (requests[q].invoice # NoInvoice /\ Residual(requests[q].invoice) = 0)'
    <3>1. requests[q].invoice \in DOMAIN invoices /\ Residual(requests[q].invoice) = 0
          /\ requests[q].invoice # NoInvoice
      BY <2>1 DEF Inv, TypeOK, PaidIsSettled, RequestRecord
    <3>2. requests[q].invoice # i
      BY <3>1, <2>1, <1>1 DEF Inv, Numbered, i
    <3> QED BY <2>1, <3>1, <3>2, <1>10, <1>11 DEF Residual
  <2>2. (requests[r].invoice # NoInvoice /\ Residual(requests[r].invoice) = 0)'
    BY <1>1, <1>9, <1>10, <1>11 DEF Residual
  <2> QED BY <1>8, <1>9, <1>11, <2>1, <2>2 DEF Inv, PaidIsSettled
<1> QED BY <1>12, <1>13, <1>14, <1>15 DEF Inv

\* The buttons of a form that only change a status.
LEMMA ButtonsKeepInv ==
  ASSUME Inv, NEW r \in DOMAIN requests,
         ConfirmRequestPayment(r) \/ ResetRequestPayment(r) \/ OperationConfirmPayment(r)
  PROVE  Inv'
<1>1. requests[r] \in RequestRecord /\ (requests[r].status = "done" => requests[r].entry # None)
  BY DEF Inv, TypeOK, PaidIsSettled
<1>2. CASE ConfirmRequestPayment(r)
  <2> DEFINE record == [requests[r] EXCEPT !.status = "done"]
  <2>1. /\ record \in RequestRecord /\ record.invoice = requests[r].invoice
        /\ record.payment = requests[r].payment /\ record.entry = requests[r].entry
        /\ record.entry # None
    BY <1>1, <1>2 DEF RequestRecord, ConfirmRequestPayment
  <2> QED BY <1>2, <2>1, WriteKeepsInv DEF ConfirmRequestPayment
<1>3. CASE ResetRequestPayment(r)
  <2> DEFINE record == [requests[r] EXCEPT !.status = "draft"]
  <2>1. /\ record \in RequestRecord /\ record.invoice = requests[r].invoice
        /\ record.payment = requests[r].payment /\ record.entry = requests[r].entry
        /\ record.status # "done"
    BY <1>1 DEF RequestRecord
  <2> QED BY <1>3, <2>1, WriteKeepsInv DEF ResetRequestPayment
<1>4. CASE OperationConfirmPayment(r)
  <2> DEFINE record == [requests[r] EXCEPT !.operation = "finished"]
  <2>1. /\ record \in RequestRecord /\ record.invoice = requests[r].invoice
        /\ record.payment = requests[r].payment /\ record.entry = requests[r].entry
        /\ record.status = requests[r].status
    BY <1>1 DEF RequestRecord
  <2> QED BY <1>1, <1>4, <2>1, WriteKeepsInv DEF OperationConfirmPayment
<1> QED BY <1>2, <1>3, <1>4

\* An accountant pays no more than is left of an invoice.
LEMMA AccountKeepsInv == ASSUME Inv, Account PROVE Inv'
<1>1. PICK i \in DOMAIN invoices : Pay(i) \/ AuditAndLock(i)
  BY DEF Account
<1>2. UNCHANGED <<requests, payments, entries>>
  BY DEF Account
<1>3. /\ DOMAIN invoices' = DOMAIN invoices /\ invoices' \in [DOMAIN invoices -> InvoiceRecord]
      /\ \A j \in DOMAIN invoices : Residual(j) = 0 => Residual(j)' = 0
  <2>1. invoices[i] \in InvoiceRecord
    BY DEF Inv, TypeOK
  <2>2. CASE Pay(i)
    <3>1. Residual(i) \in Int
      BY <2>1 DEF Residual, InvoiceRecord
    <3>2. PICK a \in 1..Residual(i) : invoices' = [invoices EXCEPT ![i].paid = @ + a]
      BY <2>2 DEF Pay
    <3>3. Residual(i) # 0 /\ a \in Int
      BY <3>1
    <3>4. [invoices[i] EXCEPT !.paid = @ + a] \in InvoiceRecord
      BY <2>1, <3>3 DEF InvoiceRecord
    <3>5. /\ DOMAIN invoices' = DOMAIN invoices /\ invoices' \in [DOMAIN invoices -> InvoiceRecord]
          /\ \A j \in DOMAIN invoices : j # i => invoices'[j] = invoices[j]
      BY <3>2, <3>4 DEF Inv, TypeOK
    <3> QED BY <3>3, <3>5 DEF Residual
  <2>3. CASE AuditAndLock(i)
    <3>1. invoices' = [invoices EXCEPT ![i].locked = TRUE]
      BY <2>3 DEF AuditAndLock
    <3> QED BY <2>1, <3>1 DEF Inv, TypeOK, Residual, InvoiceRecord
  <2> QED BY <1>1, <2>2, <2>3
<1>4. TypeOK' /\ Numbered' /\ PaidOutOnce'
  BY <1>2, <1>3 DEF Inv, TypeOK, Numbered, PaidOutOnce, RequestRecord
<1>5. PaidIsSettled'
  <2>1. \A q \in DOMAIN requests : requests[q].invoice \in DOMAIN invoices \cup {NoInvoice}
    BY DEF Inv, TypeOK, RequestRecord
  <2> QED BY <1>2, <1>3, <2>1 DEF Inv, PaidIsSettled
<1> QED BY <1>4, <1>5 DEF Inv

LEMMA NextInv == Inv /\ [Next]_vars => Inv'
<1> SUFFICES ASSUME Inv, [Next]_vars PROVE Inv'
  OBVIOUS
<1>1. ASSUME NEW r \in Requests, Create(r) PROVE Inv'
  BY <1>1, CreateKeepsInv
<1>2. ASSUME NEW r \in DOMAIN requests,
             \/ Edit(r) \/ RequestInvoiceCreation(r) \/ RequestPaymentEntriesCreation(r)
             \/ ConfirmRequestPayment(r) \/ ResetRequestPayment(r) \/ OperationConfirmPayment(r)
      PROVE  Inv'
  BY <1>2, EditKeepsInv, BillKeepsInv, PayOutKeepsInv, ButtonsKeepInv
<1>3. CASE Account
  BY <1>3, AccountKeepsInv
<1>4. CASE UNCHANGED vars
  BY <1>4 DEF vars, Inv, TypeOK, Numbered, PaidOutOnce, PaidIsSettled, Residual, RequestRecord
<1> QED BY <1>1, <1>2, <1>3, <1>4 DEF Next

LEMMA Invariance == Spec => []Inv
<1> QED BY InitInv, NextInv, PTL DEF Spec

\* Every invoice, payment and entry is the one of its request, for any number of
\* requests: nothing is billed, taken or paid out twice.
THEOREM PaidOnce == Spec => []PaidOutOnce
<1>1. Inv => PaidOutOnce
  BY DEF Inv
<1> QED BY <1>1, Invariance, PTL

\* A request that is done has been billed and its fee paid, no more and no less.
THEOREM Settled == Spec => []DoneIsSettled
<1>1. Inv => DoneIsSettled
  BY DEF Inv, PaidIsSettled, DoneIsSettled
<1> QED BY <1>1, Invariance, PTL
===============================================================================
