----------------------------- MODULE Reports_proofs -----------------------------
(***************************************************************************)
(* Proofs about the reports, for any chart of accounts, any kinds of        *)
(* entries and any number of entries: ReportsInv, that entries are balanced *)
(* and that what is reconciled belongs together, is inductive, and from it  *)
(* the reports agree with each other.                                       *)
(*                                                                         *)
(* Each report is a fold over the journal items.  What the folds come to is *)
(* compared with sums over sets (Over), which are taken class by class      *)
(* (OverClasses), in either order (OverSwap) and term by term (OverPlus).   *)
(***************************************************************************)
EXTENDS Accounting_proofs, AccountingReports

-----------------------------------------------------------------------------
(* The sum of a function over some of its domain. *)

Over(V, S) == Total(Part(V, S))

LEMMA OverType ==
  ASSUME NEW I, IsFiniteSet(I), NEW V \in [I -> Int], NEW S \in SUBSET I
  PROVE  Over(V, S) \in Int /\ IsFiniteSet(S) /\ Part(V, S) \in [S -> Int]
<1>1. IsFiniteSet(S) /\ Part(V, S) \in [S -> Int]
  BY FS_Subset DEF Part
<1> QED BY <1>1, SumType DEF Over

LEMMA TotalOver ==
  ASSUME NEW S, NEW F, DOMAIN F = S, F = [x \in S |-> F[x]]
  PROVE  Total(F) = Over(F, S)
<1>1. F = Part(F, S)
  BY DEF Part
<1> QED BY <1>1 DEF Over

LEMMA OverSame ==
  ASSUME NEW V, NEW W, NEW S, \A x \in S : V[x] = W[x]
  PROVE  Over(V, S) = Over(W, S)
<1>1. Part(V, S) = Part(W, S)
  BY DEF Part
<1> QED BY <1>1 DEF Over

LEMMA OverZeros ==
  ASSUME NEW S, IsFiniteSet(S), NEW V, \A x \in S : V[x] = 0
  PROVE  Over(V, S) = 0
<1> DEFINE F == Part(V, S)
<1>1. DOMAIN F = S /\ F \in [S -> Int] /\ \A x \in S : F[x] = 0
  BY DEF Part
<1> HIDE DEF F
<1>2. Total(F) = 0
  BY <1>1, SumOfZeros
<1> QED BY <1>2 DEF Over, F

LEMMA OverNone == ASSUME NEW V PROVE Over(V, {}) = 0
  BY OverZeros, FS_EmptySet

LEMMA OverOne ==
  ASSUME NEW V, NEW x, V[x] \in Int
  PROVE  Over(V, {x}) = V[x]
<1> DEFINE D == Part(V, {x})
<1>1. D \in [{x} -> Int] /\ D[x] = V[x]
  BY DEF Part
<1> HIDE DEF D
<1>2. Total(D) = D[x]
  BY <1>1, SumOfOne
<1> QED BY <1>1, <1>2 DEF Over, D

\* The sum over a set and over another is that over both.
LEMMA OverUnion ==
  ASSUME NEW I, IsFiniteSet(I), NEW V \in [I -> Int],
         NEW A \in SUBSET I, NEW B \in SUBSET I, A \cap B = {}
  PROVE  Over(V, A \cup B) = Over(V, A) + Over(V, B)
<1> DEFINE S == A \cup B
           F == Part(V, S)
<1>1. IsFiniteSet(S) /\ F \in [S -> Int]
  BY OverType
<1>2. S \ A = B /\ A \in SUBSET S
  OBVIOUS
<1>3. Part(F, A) = Part(V, A) /\ Part(F, B) = Part(V, B)
  BY DEF Part
<1> HIDE DEF F, S
<1>4. Total(F) = Total(Part(F, A)) + Total(Part(F, S \ A))
  BY <1>1, <1>2, SumSplit
<1> QED BY <1>2, <1>3, <1>4 DEF Over, F, S

\* An element may be taken first.
LEMMA OverFirst ==
  ASSUME NEW I, IsFiniteSet(I), NEW V \in [I -> Int], NEW S \in SUBSET I, NEW x \in S
  PROVE  Over(V, S) = V[x] + Over(V, S \ {x}) /\ Over(V, S \ {x}) \in Int /\ V[x] \in Int
<1>1. {x} \in SUBSET I /\ S \ {x} \in SUBSET I /\ {x} \cap (S \ {x}) = {} /\ {x} \cup (S \ {x}) = S
  OBVIOUS
<1>2. V[x] \in Int
  OBVIOUS
<1>3. Over(V, {x} \cup (S \ {x})) = Over(V, {x}) + Over(V, S \ {x})
  BY <1>1, OverUnion
<1>4. Over(V, {x}) = V[x]
  BY <1>2, OverOne
<1>5. Over(V, S \ {x}) \in Int
  BY <1>1, OverType
<1> QED BY <1>1, <1>2, <1>3, <1>4, <1>5

\* What is zero outside a set adds up to its sum over the set.
LEMMA OverWhere ==
  ASSUME NEW I, IsFiniteSet(I), NEW V \in [I -> Int], NEW S \in SUBSET I, NEW T \in SUBSET S,
         \A x \in S \ T : V[x] = 0
  PROVE  Over(V, S) = Over(V, T)
<1> DEFINE R == S \ T
<1>1. T \in SUBSET I /\ R \in SUBSET I /\ T \cap R = {} /\ T \cup R = S /\ \A x \in R : V[x] = 0
  OBVIOUS
<1> HIDE DEF R
<1>2. Over(V, S) = Over(V, T) + Over(V, R)
  BY <1>1, OverUnion
<1>3. IsFiniteSet(R)
  BY <1>1, OverType
<1>4. Over(V, R) = 0
  BY <1>1, <1>3, OverZeros
<1>5. Over(V, T) \in Int
  BY <1>1, OverType
<1> QED BY <1>2, <1>4, <1>5

\* Term by term.
LEMMA OverPlus ==
  ASSUME NEW I, IsFiniteSet(I), NEW V \in [I -> Int], NEW W \in [I -> Int], NEW U \in [I -> Int],
         NEW S \in SUBSET I, \A x \in S : U[x] = V[x] + W[x]
  PROVE  Over(U, S) = Over(V, S) + Over(W, S)
<1> DEFINE H == Part(U, S)
           F == Part(V, S)
           D == Part(W, S)
<1>1. IsFiniteSet(S) /\ H \in [S -> Int] /\ F \in [S -> Int] /\ D \in [S -> Int]
  BY OverType
<1>2. \A x \in S : H[x] = F[x] + D[x]
  BY DEF Part
<1> HIDE DEF H, F, D
<1>3. Adds(H, F, D, S, S)
  BY <1>1, <1>2 DEF Adds
<1>4. Total(H) = Total(F) + Total(D)
  BY <1>3, SumAdd
<1> QED BY <1>4 DEF Over, H, F, D

LEMMA Distributes == \A a, b, c \in Int : c * a \in Int /\ c * (a + b) = c * a + c * b /\ c * 0 = 0
  OBVIOUS

Multiplies(c, U, V, S) == \A x \in S : U[x] = c * V[x]

\* A sum of multiples is the multiple of the sum.
LEMMA OverScaled ==
  ASSUME NEW I, IsFiniteSet(I), NEW V \in [I -> Int], NEW U \in [I -> Int], NEW c \in Int,
         NEW S \in SUBSET I, Multiplies(c, U, V, S)
  PROVE  Over(U, S) = c * Over(V, S)
<1> DEFINE Q == {t \in SUBSET S : Over(U, t) = c * Over(V, t)}
<1>1. IsFiniteSet(S)
  BY OverType
<1>2. ASSUME NEW t \in SUBSET S, \A x \in t : t \ {x} \in Q PROVE t \in Q
  <2>1. CASE t = {}
    <3>1. Over(U, t) = 0 /\ Over(V, t) = 0
      BY <2>1, OverNone
    <3>2. c * 0 = 0
      OBVIOUS
    <3> QED BY <3>1, <3>2
  <2>2. CASE t # {}
    <3>1. PICK x \in t : TRUE
      BY <2>2
    <3>0. t \in SUBSET I
      OBVIOUS
    <3>2. t \in SUBSET I /\ U[x] = c * V[x] /\ Over(U, t \ {x}) = c * Over(V, t \ {x})
      BY <1>2 DEF Multiplies
    <3>3. Over(U, t) = U[x] + Over(U, t \ {x})
      BY <3>2, OverFirst
    <3>4. Over(V, t) = V[x] + Over(V, t \ {x}) /\ Over(V, t \ {x}) \in Int /\ V[x] \in Int
      BY <3>0, OverFirst
    <3>5. c * (V[x] + Over(V, t \ {x})) = c * V[x] + c * Over(V, t \ {x})
      BY <3>4, Distributes
    <3>6. Over(U, t) = c * Over(V, t)
      BY <3>2, <3>3, <3>4, <3>5
    <3> QED BY <3>6
  <2> QED BY <2>1, <2>2
<1> HIDE DEF Q
<1>3. \A t \in SUBSET S : t \in Q
  BY <1>1, <1>2, SubsetInduction
<1> QED BY <1>3 DEF Q

\* The elements of a class, and the sums of the classes.
Fiber(k, S, j) == {x \in S : k[x] = j}
Classes(V, S, k, J) == [j \in J |-> Over(V, Fiber(k, S, j))]

\* A sum may be taken class by class.
LEMMA OverClasses ==
  ASSUME NEW I, IsFiniteSet(I), NEW V \in [I -> Int], NEW S \in SUBSET I,
         NEW J, IsFiniteSet(J), NEW k, \A x \in S : k[x] \in J
  PROVE  Classes(V, S, k, J) \in [J -> Int] /\ Total(Classes(V, S, k, J)) = Over(V, S)
<1> DEFINE C(t) == Classes(V, t, k, J)
           Q == {t \in SUBSET S : Total(C(t)) = Over(V, t)}
<1>1. IsFiniteSet(S)
  BY OverType
<1>2. ASSUME NEW t \in SUBSET S PROVE C(t) \in [J -> Int]
  <2>1. \A j \in J : Over(V, Fiber(k, t, j)) \in Int
    <3> SUFFICES ASSUME NEW j \in J PROVE Over(V, Fiber(k, t, j)) \in Int
      OBVIOUS
    <3>1. Fiber(k, t, j) \in SUBSET I
      BY DEF Fiber
    <3> QED BY <3>1, OverType
  <2> QED BY <2>1 DEF Classes
<1>3. ASSUME NEW t \in SUBSET S, \A x \in t : t \ {x} \in Q PROVE t \in Q
  <2>1. CASE t = {}
    <3>1. DOMAIN C(t) = J /\ \A j \in J : C(t)[j] = 0
      <4>1. \A j \in J : Fiber(k, t, j) = {}
        BY <2>1 DEF Fiber
      <4> QED BY <4>1, OverNone DEF Classes
    <3>2. C(t) \in [J -> Int]
      BY <1>2
    <3> HIDE DEF C
    <3>3. Total(C(t)) = 0
      BY <3>1, <3>2, SumOfZeros
    <3>4. Over(V, t) = 0
      BY <2>1, OverNone
    <3> QED BY <3>3, <3>4
  <2>2. CASE t # {}
    <3>1. PICK x \in t : TRUE
      BY <2>2
    <3> DEFINE r == t \ {x}
               i == k[x]
               D == [j \in {i} |-> V[x]]
    <3>2. r \in SUBSET S /\ i \in J /\ V[x] \in Int /\ Total(C(r)) = Over(V, r)
      BY <1>3
    <3>3. \A j \in J : j # i => Fiber(k, t, j) = Fiber(k, r, j)
      BY DEF Fiber
    <3>4. x \in Fiber(k, t, i) /\ Fiber(k, t, i) \ {x} = Fiber(k, r, i) /\ Fiber(k, t, i) \in SUBSET I
      BY DEF Fiber
    <3>5. Over(V, Fiber(k, t, i)) = V[x] + Over(V, Fiber(k, r, i)) /\ Over(V, Fiber(k, r, i)) \in Int
      <4> DEFINE f == Fiber(k, t, i)
      <4>1. x \in f /\ f \in SUBSET I
        BY <3>4
      <4> HIDE DEF f
      <4>2. Over(V, f) = V[x] + Over(V, f \ {x}) /\ Over(V, f \ {x}) \in Int
        BY <4>1, OverFirst
      <4> QED BY <3>4, <4>2 DEF f
    <3>6. C(t) \in [J -> Int] /\ C(r) \in [J -> Int]
      BY <1>2, <3>2
    <3>7. D \in [{i} -> Int] /\ D[i] = V[x]
      BY <3>2
    <3>8. \A j \in J \ {i} : C(t)[j] = C(r)[j]
      BY <3>3 DEF Classes
    <3>9. C(t)[i] = C(r)[i] + D[i]
      <4>1. C(t)[i] = Over(V, Fiber(k, t, i)) /\ C(r)[i] = Over(V, Fiber(k, r, i))
        BY <3>2 DEF Classes
      <4> QED BY <3>2, <3>5, <3>7, <4>1
    <3>10. Over(V, t) = V[x] + Over(V, r) /\ Over(V, r) \in Int
      <4>1. t \in SUBSET I
        OBVIOUS
      <4> QED BY <4>1, OverFirst
    <3> HIDE DEF C, D, r, i
    <3>11. Adds(C(t), C(r), D, J, {i})
      BY <3>2, <3>6, <3>7, <3>8, <3>9 DEF Adds
    <3>12. Total(C(t)) = Total(C(r)) + Total(D)
      BY <3>11, SumAdd
    <3>13. Total(D) = D[i]
      BY <3>7, SumOfOne
    <3>14. Total(C(t)) = Over(V, t)
      BY <3>2, <3>7, <3>10, <3>12, <3>13
    <3> QED BY <3>14
  <2> QED BY <2>1, <2>2
<1> HIDE DEF Q, C
<1>4. \A t \in SUBSET S : t \in Q
  BY <1>1, <1>3, SubsetInduction
<1> QED BY <1>2, <1>4 DEF Q, C

\* The two orders of a double sum.
RowSums(F, A, B) == [a \in A |-> Over(F[a], B)]
Column(F, A, b) == [a \in A |-> F[a][b]]
ColumnSums(F, A, B, t) == [b \in B |-> Over(Column(F, A, b), t)]

LEMMA OverSwap ==
  ASSUME NEW A, IsFiniteSet(A), NEW B, IsFiniteSet(B), NEW F \in [A -> [B -> Int]]
  PROVE  /\ Over(RowSums(F, A, B), A) = Over(ColumnSums(F, A, B, A), B)
         /\ RowSums(F, A, B) \in [A -> Int] /\ ColumnSums(F, A, B, A) \in [B -> Int]
<1> DEFINE R == RowSums(F, A, B)
           C(t) == ColumnSums(F, A, B, t)
           Q == {t \in SUBSET A : Over(R, t) = Over(C(t), B)}
<1>1. \A a \in A : F[a] \in [B -> Int]
  OBVIOUS
<1>2. R \in [A -> Int] /\ \A a \in A : R[a] = Over(F[a], B)
  <2>1. \A a \in A : Over(F[a], B) \in Int
    BY <1>1, OverType
  <2> QED BY <2>1 DEF RowSums
<1>3. \A b \in B : Column(F, A, b) \in [A -> Int]
  BY <1>1 DEF Column
<1>4. ASSUME NEW t \in SUBSET A PROVE C(t) \in [B -> Int]
  <2>1. \A b \in B : Over(Column(F, A, b), t) \in Int
    BY <1>3, OverType
  <2> QED BY <2>1 DEF ColumnSums
<1>5. ASSUME NEW t \in SUBSET A, \A x \in t : t \ {x} \in Q PROVE t \in Q
  <2>1. CASE t = {}
    <3>1. \A b \in B : C(t)[b] = 0
      BY <2>1, OverNone DEF ColumnSums
    <3> HIDE DEF C
    <3>2. Over(C(t), B) = 0
      BY <3>1, OverZeros
    <3>3. Over(R, t) = 0
      BY <2>1, OverNone
    <3> QED BY <3>2, <3>3
  <2>2. CASE t # {}
    <3>1. PICK x \in t : TRUE
      BY <2>2
    <3> DEFINE r == t \ {x}
    <3>2. r \in SUBSET A /\ Over(R, r) = Over(C(r), B)
      BY <1>5
    <3>3. Over(R, t) = R[x] + Over(R, r)
      BY <1>2, OverFirst
    <3>4. ASSUME NEW b \in B PROVE C(t)[b] = F[x][b] + C(r)[b]
      <4>1. Column(F, A, b) \in [A -> Int] /\ Column(F, A, b)[x] = F[x][b]
        BY <1>3 DEF Column
      <4> DEFINE V == Column(F, A, b)
      <4> HIDE DEF V
      <4>2. Over(V, t) = V[x] + Over(V, t \ {x})
        BY <4>1, OverFirst DEF V
      <4> QED BY <4>1, <4>2 DEF V, ColumnSums
    <3>5. C(t) \in [B -> Int] /\ C(r) \in [B -> Int] /\ F[x] \in [B -> Int] /\ B \in SUBSET B
      BY <1>1, <1>4, <3>2
    <3> HIDE DEF C, r
    <3>6. Over(C(t), B) = Over(F[x], B) + Over(C(r), B)
      BY <3>4, <3>5, OverPlus
    <3>7. Over(R, t) = Over(C(t), B)
      BY <1>2, <3>2, <3>3, <3>6
    <3> QED BY <3>7
  <2> QED BY <2>1, <2>2
<1> HIDE DEF Q, C, R
<1>6. \A t \in SUBSET A : t \in Q
  BY <1>5, SubsetInduction
<1> QED BY <1>2, <1>4, <1>6 DEF Q, R, C

-----------------------------------------------------------------------------
(* Sets in an order. *)

\* The elements of a set that is arranged, each once, from those with the fewest
\* before them to those with the most.
LEMMA ArrangedIs ==
  ASSUME NEW S, NEW R, Ranked(S, R)
  PROVE  /\ Cardinality(S) \in Nat
         /\ Arranged(S, R) \in Bijection(1..Cardinality(S), S)
         /\ Arranged(S, R) \in Seq(S) /\ Len(Arranged(S, R)) = Cardinality(S)
         /\ \A n \in 1..Cardinality(S) : Cardinality(R[Arranged(S, R)[n]]) = n
<1> DEFINE N == Cardinality(S)
           rank == [x \in S |-> Cardinality(R[x])]
           b == [n \in 1..N |-> CHOOSE x \in S : rank[x] = n]
<1>1. N \in Nat
  BY FS_CardinalityType DEF Ranked
<1>2. rank \in Bijection(S, 1..N)
  BY Ranks
<1>3. b \in Bijection(1..N, S)
  BY <1>2, Inverses
<1>4. Arranged(S, R) = b
  <2>1. \A n \in 1..N : b[n] = CHOOSE x \in S : Cardinality(R[x]) = n
    OBVIOUS
  <2> HIDE DEF rank
  <2>2. b = [n \in 1..N |-> CHOOSE x \in S : Cardinality(R[x]) = n]
    BY <2>1
  <2> HIDE DEF b
  <2> QED BY <2>2 DEF Arranged
<1>5. \A n \in 1..N : \E x \in S : rank[x] = n
  BY <1>2 DEF Bijection, Surjection
<1>6. \A n \in 1..N : b[n] \in S /\ rank[b[n]] = n
  BY <1>5
<1>7. \A n \in 1..N : Cardinality(R[b[n]]) = n
  BY <1>6
<1> HIDE DEF N, rank
<1>8. b \in Seq(S) /\ Len(b) = N
  BY <1>1, <1>6
<1> HIDE DEF b
<1> QED BY <1>1, <1>3, <1>4, <1>7, <1>8 DEF N

\* What is arranged is in the order that it is arranged in.
LEMMA ArrangedSorted ==
  ASSUME NEW S, NEW R, Ranked(S, R)
  PROVE  \A i, j \in 1..Cardinality(S) :
            i <= j => Arranged(S, R)[i] \in R[Arranged(S, R)[j]]
<1> DEFINE N == Cardinality(S)
           b == Arranged(S, R)
<1>1. /\ N \in Nat /\ b \in Seq(S) /\ Len(b) = N
      /\ \A n \in 1..N : Cardinality(R[b[n]]) = n
  BY ArrangedIs
<1> HIDE DEF N, b
<1> SUFFICES ASSUME NEW i \in 1..N, NEW j \in 1..N, i <= j PROVE b[i] \in R[b[j]]
  BY DEF N, b
<1>2. b[i] \in S /\ b[j] \in S
  BY <1>1
<1>3. /\ b[i] \in R[b[i]] /\ R[b[i]] \in SUBSET S /\ R[b[j]] \in SUBSET S /\ IsFiniteSet(S)
      /\ b[i] # b[j] => R[b[i]] \subseteq R[b[j]] \/ R[b[j]] \subseteq R[b[i]]
      /\ b[j] \in R[b[j]]
  BY <1>2 DEF Ranked
<1>4. Cardinality(R[b[i]]) = i /\ Cardinality(R[b[j]]) = j
  BY <1>1
<1>5. CASE R[b[i]] \subseteq R[b[j]]
  BY <1>3, <1>5
<1>6. CASE R[b[j]] \subseteq R[b[i]]
  <2> DEFINE X == R[b[i]]
             Y == R[b[j]]
  <2>1. IsFiniteSet(X) /\ Y \in SUBSET X
    BY <1>3, <1>6, FS_Subset
  <2>2. Cardinality(X) = i /\ Cardinality(Y) = j
    BY <1>4
  <2> HIDE DEF X, Y
  <2>3. Cardinality(Y) <= Cardinality(X) /\ (Cardinality(Y) = Cardinality(X) => Y = X)
    BY <2>1, FS_Subset
  <2>4. i = j
    BY <2>2, <2>3
  <2> QED BY <1>3, <2>4
<1>7. CASE b[i] = b[j]
  BY <1>3, <1>7
<1> QED BY <1>3, <1>5, <1>6, <1>7

-----------------------------------------------------------------------------
(* The inductive invariant: entries are balanced, and what is reconciled are    *)
(* posted items of one account and one partner, a debit and a credit.           *)

ItemRecord == [account : Accounts, amount : Int, tax : {"", "base", "tax"}]
EntryRecord ==
    [journal : Journals, lines : Seq(ItemRecord), date : Dates, maturity : Int,
     partner : Partners \cup {NoPartner}, state : {"draft", "posted", "cancel"}]

WholeAmount(lines) == Total([i \in DOMAIN lines |-> lines[i].amount])
EntriesFit(es) == es \in Seq(EntryRecord) /\ \A e \in DOMAIN es : WholeAmount(es[e].lines) = 0

ItemIn(l, es) == l = <<l[1], l[2]>> /\ l[1] \in DOMAIN es /\ l[2] \in DOMAIN es[l[1]].lines
LineIn(l, es) == es[l[1]].lines[l[2]]

PartialFits(p, es) ==
    /\ ItemIn(p.debit, es) /\ ItemIn(p.credit, es) /\ p.amount \in Int
    /\ es[p.debit[1]].state = "posted" /\ es[p.credit[1]].state = "posted"
    /\ es[p.debit[1]].partner = es[p.credit[1]].partner
    /\ LineIn(p.debit, es).account = LineIn(p.credit, es).account
    /\ TypeOf[LineIn(p.debit, es).account] \in Reconcilable
    /\ LineIn(p.debit, es).amount > 0 /\ LineIn(p.credit, es).amount < 0
PartialsFit(ps, es) == IsFiniteSet(ps) /\ \A p \in ps : PartialFits(p, es)

ReportsInv == EntriesFit(entries) /\ PartialsFit(partials, entries)

LEMMA EntryIs ==
  ASSUME NEW es, EntriesFit(es), NEW e \in DOMAIN es
  PROVE  /\ es[e].journal \in Journals /\ es[e].lines \in Seq(ItemRecord) /\ es[e].date \in Dates
         /\ es[e].maturity \in Int /\ es[e].partner \in Partners \cup {NoPartner}
         /\ es[e].state \in {"draft", "posted", "cancel"}
         /\ Len(es) \in Nat /\ DOMAIN es = 1..Len(es) /\ e \in Nat
<1>1. es[e] \in EntryRecord /\ Len(es) \in Nat /\ DOMAIN es = 1..Len(es)
  BY DEF EntriesFit
<1> QED BY <1>1 DEF EntryRecord

LEMMA ItemIs ==
  ASSUME NEW es, EntriesFit(es), NEW l, ItemIn(l, es)
  PROVE  /\ LineIn(l, es).account \in Accounts /\ LineIn(l, es).amount \in Int
         /\ LineIn(l, es).tax \in {"", "base", "tax"} /\ LineIn(l, es) \in ItemRecord
         /\ l[1] \in Nat /\ l[2] \in Nat /\ l[2] \in 1..Len(es[l[1]].lines)
<1>1. es[l[1]].lines \in Seq(ItemRecord) /\ l[1] \in Nat
  BY EntryIs DEF ItemIn
<1>2. LineIn(l, es) \in ItemRecord /\ l[2] \in Nat /\ l[2] \in 1..Len(es[l[1]].lines)
  BY <1>1 DEF ItemIn, LineIn
<1> QED BY <1>1, <1>2 DEF ItemRecord

LEMMA ItemsAre == \A l : l \in Items <=> ItemIn(l, entries)
<1> SUFFICES ASSUME NEW l PROVE l \in Items <=> ItemIn(l, entries)
  OBVIOUS
<1>1. l \in Items <=> \E e \in DOMAIN entries : l \in {e} \X DOMAIN entries[e].lines
  BY DEF Items
<1>2. \A e : l \in {e} \X DOMAIN entries[e].lines <=> l = <<l[1], l[2]>> /\ l[1] = e /\ l[2] \in DOMAIN entries[e].lines
  OBVIOUS
<1> QED BY <1>1, <1>2 DEF ItemIn

LEMMA ItemsFinite ==
  ASSUME EntriesFit(entries)
  PROVE  IsFiniteSet(Items)
<1> DEFINE Of(e) == {e} \X DOMAIN entries[e].lines
           All == {Of(e) : e \in DOMAIN entries}
           f == [e \in DOMAIN entries |-> Of(e)]
<1>1. IsFiniteSet(DOMAIN entries)
  <2>1. Len(entries) \in Nat /\ DOMAIN entries = 1..Len(entries)
    BY DEF EntriesFit
  <2> QED BY <2>1, FS_Interval
<1>2. ASSUME NEW e \in DOMAIN entries PROVE IsFiniteSet(Of(e))
  <2>1. entries[e].lines \in Seq(ItemRecord)
    BY EntryIs
  <2>2. Len(entries[e].lines) \in Nat /\ DOMAIN entries[e].lines = 1..Len(entries[e].lines)
    BY <2>1
  <2>3. IsFiniteSet(DOMAIN entries[e].lines)
    BY <2>2, FS_Interval
  <2> QED BY <2>3, FS_Singleton, FS_Product
<1>3. f \in Surjection(DOMAIN entries, All)
  BY DEF Surjection
<1>4. IsFiniteSet(All)
  BY <1>1, <1>3, FS_Surjection
<1>5. \A S \in All : IsFiniteSet(S)
  BY <1>2
<1> HIDE DEF Of
<1>6. IsFiniteSet(UNION All)
  BY <1>4, <1>5, FS_UNION
<1> QED BY <1>6 DEF Items, Of

\* What is left of an item is a number.
LEMMA LeftType ==
  ASSUME ReportsInv, NEW l \in Items
  PROVE  LeftOf(l) \in Int
<1> DEFINE S == PartialsOf(l)
           F == [p \in S |-> p.amount]
<1>1. S \in SUBSET partials /\ IsFiniteSet(partials)
  BY DEF PartialsOf, ReportsInv, PartialsFit
<1>2. IsFiniteSet(S)
  BY <1>1, FS_Subset
<1>3. \A p \in S : p.amount \in Int
  BY <1>1 DEF ReportsInv, PartialsFit, PartialFits
<1>4. F \in [S -> Int]
  BY <1>3
<1> HIDE DEF F, S
<1>5. Total(F) \in Int
  BY <1>2, <1>4, SumType
<1>6. Matched(PartialsOf(l)) \in Int
  BY <1>5 DEF Matched, F, S
<1>7. Balance(l) \in Int
  BY ItemsAre, ItemIs DEF Balance, LineIn, ReportsInv
<1>8. Debit(l) \in Int /\ Credit(l) \in Int
  BY <1>7 DEF Debit, Credit, Positive
<1> QED BY <1>6, <1>8 DEF LeftOf

LEMMA ReportsInitInv == ReportsInit => ReportsInv
<1> SUFFICES ASSUME ReportsInit PROVE ReportsInv
  OBVIOUS
<1>1. entries = <<>> /\ partials = {}
  BY DEF ReportsInit
<1>2. EntriesFit(entries)
  BY <1>1 DEF EntriesFit
<1>3. PartialsFit(partials, entries)
  BY <1>1, FS_EmptySet DEF PartialsFit
<1> QED BY <1>2, <1>3 DEF ReportsInv

\* The entries es are in fs, with the states of fs.
Carries(fs, es) ==
    /\ DOMAIN es \subseteq DOMAIN fs
    /\ \A e \in DOMAIN es : fs[e].lines = es[e].lines /\ fs[e].partner = es[e].partner

LEMMA PartialKept ==
  ASSUME NEW es, NEW fs, Carries(fs, es), NEW p, PartialFits(p, es),
         fs[p.debit[1]].state = "posted", fs[p.credit[1]].state = "posted"
  PROVE  PartialFits(p, fs)
<1>1. p.debit[1] \in DOMAIN es /\ p.credit[1] \in DOMAIN es
  BY DEF PartialFits, ItemIn
<1>2. /\ fs[p.debit[1]].lines = es[p.debit[1]].lines /\ fs[p.debit[1]].partner = es[p.debit[1]].partner
      /\ fs[p.credit[1]].lines = es[p.credit[1]].lines /\ fs[p.credit[1]].partner = es[p.credit[1]].partner
      /\ p.debit[1] \in DOMAIN fs /\ p.credit[1] \in DOMAIN fs
  BY <1>1 DEF Carries
<1>3. ItemIn(p.debit, fs) /\ ItemIn(p.credit, fs)
  BY <1>2 DEF PartialFits, ItemIn
<1>4. LineIn(p.debit, fs) = LineIn(p.debit, es) /\ LineIn(p.credit, fs) = LineIn(p.credit, es)
  BY <1>2 DEF LineIn
<1> QED BY <1>2, <1>3, <1>4 DEF PartialFits

LEMMA EnterKeepsReports ==
  ASSUME ReportsInv, Enter
  PROVE  ReportsInv'
<1>0. PICK k \in Kinds : \E date \in k.dates :
        entries' = Append(entries, [journal |-> k.journal, lines |-> k.lines, date |-> date,
                                    maturity |-> date + k.term, partner |-> k.partner, state |-> "draft"])
  BY DEF Enter
<1>1. PICK date \in k.dates :
        entries' = Append(entries, [journal |-> k.journal, lines |-> k.lines, date |-> date,
                                    maturity |-> date + k.term, partner |-> k.partner, state |-> "draft"])
  BY <1>0
<1>2. partials' = partials
  BY DEF Enter
<1> DEFINE r == [journal |-> k.journal, lines |-> k.lines, date |-> date,
                 maturity |-> date + k.term, partner |-> k.partner, state |-> "draft"]
<1>3. /\ k.term \in Int /\ k.partner \in Partners \cup {NoPartner} /\ k.dates \in SUBSET Dates
      /\ k.lines \in Seq(ItemRecord)
  BY ReportsAssumption DEF KindRecord, ItemRecord
<1>4. k.journal \in Journals
  BY DEF Journals
<1>5. date \in Dates /\ date \in Int
  BY <1>3 DEF Dates
<1>6. r \in EntryRecord
  BY <1>3, <1>4, <1>5 DEF EntryRecord
<1>7. WholeAmount(r.lines) = 0
  BY ReportsAssumption DEF WholeAmount
<1>8. r.lines = k.lines /\ entries' = Append(entries, r)
  BY <1>1
<1> HIDE DEF r
<1>9. entries \in Seq(EntryRecord) /\ \A e \in DOMAIN entries : WholeAmount(entries[e].lines) = 0
  BY DEF ReportsInv, EntriesFit
<1>10. /\ entries' \in Seq(EntryRecord) /\ DOMAIN entries' = DOMAIN entries \cup {Len(entries) + 1}
       /\ \A e \in DOMAIN entries : entries'[e] = entries[e]
       /\ entries'[Len(entries) + 1] = r
  BY <1>6, <1>8, <1>9
<1>11. EntriesFit(entries')
  <2>1. ASSUME NEW e \in DOMAIN entries' PROVE WholeAmount(entries'[e].lines) = 0
    <3>1. CASE e \in DOMAIN entries
      BY <1>9, <1>10, <3>1
    <3>2. CASE e = Len(entries) + 1
      BY <1>7, <1>10, <3>2
    <3> QED BY <1>10, <3>1, <3>2
  <2> QED BY <1>10, <2>1 DEF EntriesFit
<1>12. Carries(entries', entries)
  BY <1>10 DEF Carries
<1>13. ASSUME NEW p \in partials PROVE PartialFits(p, entries')
  <2>1. PartialFits(p, entries)
    BY DEF ReportsInv, PartialsFit
  <2>2. entries'[p.debit[1]].state = "posted" /\ entries'[p.credit[1]].state = "posted"
    BY <1>10, <2>1 DEF PartialFits, ItemIn
  <2> QED BY <1>12, <2>1, <2>2, PartialKept
<1>14. PartialsFit(partials', entries')
  BY <1>2, <1>13 DEF ReportsInv, PartialsFit
<1> QED BY <1>11, <1>14 DEF ReportsInv

\* An entry in another state.
LEMMA SetKeeps ==
  ASSUME EntriesFit(entries), NEW e \in DOMAIN entries, NEW s \in {"draft", "posted", "cancel"}, Set(e, s)
  PROVE  /\ EntriesFit(entries') /\ Carries(entries', entries)
         /\ \A f \in DOMAIN entries : f # e => entries'[f] = entries[f]
         /\ entries'[e].state = s
<1>1. entries \in Seq(EntryRecord) /\ entries[e] \in EntryRecord
  BY DEF EntriesFit
<1>2. entries' = [entries EXCEPT ![e].state = s]
  BY DEF Set
<1> DEFINE r == [entries[e] EXCEPT !.state = s]
<1>3. r \in EntryRecord /\ r.lines = entries[e].lines /\ r.partner = entries[e].partner /\ r.state = s
  BY <1>1 DEF EntryRecord
<1>4. entries' = [entries EXCEPT ![e] = r]
  BY <1>2
<1> HIDE DEF r
<1>5. /\ entries' \in Seq(EntryRecord) /\ DOMAIN entries' = DOMAIN entries /\ entries'[e] = r
      /\ \A f \in DOMAIN entries : f # e => entries'[f] = entries[f]
  BY <1>1, <1>3, <1>4
<1>6. ASSUME NEW f \in DOMAIN entries
      PROVE  entries'[f].lines = entries[f].lines /\ entries'[f].partner = entries[f].partner
  BY <1>3, <1>5
<1>7. EntriesFit(entries')
  BY <1>5, <1>6 DEF EntriesFit
<1> QED BY <1>3, <1>5, <1>6, <1>7 DEF Carries

LEMMA PostKeepsReports ==
  ASSUME ReportsInv, NEW e \in DOMAIN entries,
         PostEntry(e) \/ CancelEntry(e)
  PROVE  ReportsInv'
<1>1. EntriesFit(entries) /\ IsFiniteSet(partials) /\ \A p \in partials : PartialFits(p, entries)
  BY DEF ReportsInv, PartialsFit
<1>2. entries[e].state = "draft" /\ partials' = partials /\ \E s \in {"posted", "cancel"} : Set(e, s)
  BY DEF PostEntry, CancelEntry
<1>3. PICK s \in {"posted", "cancel"} : Set(e, s)
  BY <1>2
<1>4. /\ EntriesFit(entries') /\ Carries(entries', entries)
      /\ \A f \in DOMAIN entries : f # e => entries'[f] = entries[f]
  BY <1>1, <1>3, SetKeeps
<1>5. ASSUME NEW p \in partials PROVE PartialFits(p, entries')
  <2>1. PartialFits(p, entries)
    BY <1>1
  <2>2. p.debit[1] \in DOMAIN entries /\ p.credit[1] \in DOMAIN entries /\ p.debit[1] # e /\ p.credit[1] # e
    BY <1>2, <2>1 DEF PartialFits, ItemIn
  <2>3. entries'[p.debit[1]].state = "posted" /\ entries'[p.credit[1]].state = "posted"
    BY <1>4, <2>1, <2>2 DEF PartialFits
  <2> QED BY <1>4, <2>1, <2>3, PartialKept
<1>6. PartialsFit(partials', entries')
  BY <1>1, <1>2, <1>5 DEF PartialsFit
<1> QED BY <1>4, <1>6 DEF ReportsInv

LEMMA ResetKeepsReports ==
  ASSUME ReportsInv, NEW e \in DOMAIN entries, ResetEntry(e)
  PROVE  ReportsInv'
<1>1. EntriesFit(entries) /\ IsFiniteSet(partials) /\ \A p \in partials : PartialFits(p, entries)
  BY DEF ReportsInv, PartialsFit
<1>2. Set(e, "draft") /\ partials' = {p \in partials : e \notin {p.debit[1], p.credit[1]}}
  BY DEF ResetEntry
<1>4. /\ EntriesFit(entries') /\ Carries(entries', entries)
      /\ \A f \in DOMAIN entries : f # e => entries'[f] = entries[f]
  BY <1>1, <1>2, SetKeeps
<1>5. ASSUME NEW p \in partials' PROVE PartialFits(p, entries')
  <2>1. PartialFits(p, entries) /\ p.debit[1] # e /\ p.credit[1] # e
    BY <1>1, <1>2
  <2>2. p.debit[1] \in DOMAIN entries /\ p.credit[1] \in DOMAIN entries
    BY <2>1 DEF PartialFits, ItemIn
  <2>3. entries'[p.debit[1]].state = "posted" /\ entries'[p.credit[1]].state = "posted"
    BY <1>4, <2>1, <2>2 DEF PartialFits
  <2> QED BY <1>4, <2>1, <2>3, PartialKept
<1>6. partials' \in SUBSET partials
  BY <1>2
<1>7. IsFiniteSet(partials')
  BY <1>1, <1>6, FS_Subset
<1>8. PartialsFit(partials', entries')
  BY <1>5, <1>7 DEF PartialsFit
<1> QED BY <1>4, <1>8 DEF ReportsInv

LEMMA ReconcileKeepsReports ==
  ASSUME ReportsInv, NEW d \in Items, NEW c \in Items, Reconcile(d, c)
  PROVE  ReportsInv'
<1>1. EntriesFit(entries) /\ IsFiniteSet(partials) /\ \A p \in partials : PartialFits(p, entries)
  BY DEF ReportsInv, PartialsFit
<1> DEFINE n == Min({LeftOf(d), LeftOf(c)})
           p == [debit |-> d, credit |-> c, amount |-> n]
<1>2. entries' = entries /\ partials' = partials \cup {p}
  BY DEF Reconcile
<1>3. LeftOf(d) \in Int /\ LeftOf(c) \in Int /\ LeftOf(d) > 0 /\ LeftOf(c) > 0
  BY LeftType DEF Reconcile
<1>4. n \in Int
  <2>1. {LeftOf(d), LeftOf(c)} \in SUBSET Nat /\ {LeftOf(d), LeftOf(c)} # {}
    BY <1>3
  <2> QED BY <2>1, MinType
<1> HIDE DEF n
<1>5. p.debit = d /\ p.credit = c /\ p.amount = n
  OBVIOUS
<1> HIDE DEF p
<1>6. ItemIn(d, entries) /\ ItemIn(c, entries)
  BY ItemsAre
<1>7. /\ entries[d[1]].state = "posted" /\ entries[c[1]].state = "posted"
      /\ entries[d[1]].partner = entries[c[1]].partner
      /\ LineIn(d, entries).account = LineIn(c, entries).account
      /\ TypeOf[LineIn(d, entries).account] \in Reconcilable
      /\ LineIn(d, entries).amount > 0 /\ LineIn(c, entries).amount < 0
  BY DEF Reconcile, State, Partner, AccountOf, Balance, LineIn
<1>8. PartialFits(p, entries)
  BY <1>4, <1>5, <1>6, <1>7 DEF PartialFits
<1>9. IsFiniteSet(partials')
  BY <1>1, <1>2, FS_AddElement
<1>10. PartialsFit(partials', entries')
  BY <1>1, <1>2, <1>8, <1>9 DEF PartialsFit
<1> QED BY <1>1, <1>2, <1>10 DEF ReportsInv

LEMMA ReportsNextInv == ReportsInv /\ [ReportsNext]_reportsVars => ReportsInv'
<1> SUFFICES ASSUME ReportsInv, [ReportsNext]_reportsVars PROVE ReportsInv'
  OBVIOUS
<1>1. CASE Enter
  BY <1>1, EnterKeepsReports
<1>2. CASE \E e \in DOMAIN entries : PostEntry(e) \/ CancelEntry(e) \/ ResetEntry(e)
  BY <1>2, PostKeepsReports, ResetKeepsReports
<1>3. CASE \E d, c \in Items : Reconcile(d, c)
  BY <1>3, ReconcileKeepsReports
<1>4. CASE \E p \in partials : Unreconcile(p)
  <2>1. PICK p \in partials : Unreconcile(p)
    BY <1>4
  <2>2. entries' = entries /\ partials' = partials \ {p}
    BY <2>1 DEF Unreconcile
  <2>3. IsFiniteSet(partials')
    BY <2>2, FS_RemoveElement DEF ReportsInv, PartialsFit
  <2> QED BY <2>2, <2>3 DEF ReportsInv, PartialsFit
<1>5. CASE UNCHANGED reportsVars
  BY <1>5 DEF reportsVars, ReportsInv
<1> QED BY <1>1, <1>2, <1>3, <1>4, <1>5 DEF ReportsNext

\* Whatever is entered, posted, reconciled and reset, the entries are balanced and
\* what is reconciled belongs together: what every report is then right for.
THEOREM ReportsInvHolds == ReportsSpec => []ReportsInv
  BY ReportsInitInv, ReportsNextInv, PTL DEF ReportsSpec

-----------------------------------------------------------------------------
(* Debits and credits. *)

DebitIn == [l \in Items |-> Debit(l)]
CreditIn == [l \in Items |-> Credit(l)]
BalanceIn == [l \in Items |-> Balance(l)]

LEMMA AmountsAre ==
  ASSUME ReportsInv
  PROVE  /\ IsFiniteSet(Items)
         /\ DebitIn \in [Items -> Int] /\ CreditIn \in [Items -> Int] /\ BalanceIn \in [Items -> Int]
         /\ \A l \in Items : /\ DebitIn[l] = BalanceIn[l] + CreditIn[l]
                             /\ DebitIn[l] = Debit(l) /\ CreditIn[l] = Credit(l) /\ BalanceIn[l] = Balance(l)
                             /\ Debit(l) \in Int /\ Credit(l) \in Int /\ Balance(l) \in Int
<1>1. ASSUME NEW l \in Items PROVE Balance(l) \in Int
  BY ItemsAre, ItemIs DEF Balance, LineIn, ReportsInv
<1>2. ASSUME NEW l \in Items
      PROVE  Debit(l) \in Int /\ Credit(l) \in Int /\ Debit(l) = Balance(l) + Credit(l)
  BY <1>1 DEF Debit, Credit, Positive
<1>3. IsFiniteSet(Items)
  BY ItemsFinite DEF ReportsInv
<1> QED BY <1>1, <1>2, <1>3 DEF DebitIn, CreditIn, BalanceIn

TotalRecord == [debit : Int, credit : Int, balance : Int]

LEMMA TotalsAre ==
  ASSUME ReportsInv, NEW S \in SUBSET Items
  PROVE  /\ Debits(S) = Over(DebitIn, S) /\ Credits(S) = Over(CreditIn, S) /\ Balances(S) = Over(BalanceIn, S)
         /\ Debits(S) \in Int /\ Credits(S) \in Int /\ Balances(S) \in Int
         /\ Debits(S) = Balances(S) + Credits(S) /\ Balances(S) = Debits(S) - Credits(S)
         /\ IsFiniteSet(S)
<1>1. [l \in S |-> Debit(l)] = Part(DebitIn, S)
  BY DEF Part, DebitIn
<1>2. [l \in S |-> Credit(l)] = Part(CreditIn, S)
  BY DEF Part, CreditIn
<1>3. [l \in S |-> Balance(l)] = Part(BalanceIn, S)
  BY DEF Part, BalanceIn
<1>4. Debits(S) = Over(DebitIn, S) /\ Credits(S) = Over(CreditIn, S) /\ Balances(S) = Over(BalanceIn, S)
  BY <1>1, <1>2, <1>3 DEF Debits, Credits, Balances, Over
<1>5. Debits(S) \in Int /\ Credits(S) \in Int /\ Balances(S) \in Int /\ IsFiniteSet(S)
  BY <1>4, AmountsAre, OverType
<1>6. Over(DebitIn, S) = Over(BalanceIn, S) + Over(CreditIn, S)
  <2>1. \A x \in S : DebitIn[x] = BalanceIn[x] + CreditIn[x]
    BY AmountsAre
  <2> QED BY <2>1, AmountsAre, OverPlus
<1> QED BY <1>4, <1>5, <1>6

LEMMA TotalsType ==
  ASSUME ReportsInv, NEW S \in SUBSET Items
  PROVE  /\ TotalsOf(S) \in TotalRecord
         /\ TotalsOf(S).debit = Debits(S) /\ TotalsOf(S).credit = Credits(S)
         /\ TotalsOf(S).balance = Balances(S)
         /\ TotalsOf(S) = [debit |-> Debits(S), credit |-> Credits(S), balance |-> Balances(S)]
  BY TotalsAre DEF TotalsOf, TotalRecord

LEMMA TotalsOfBoth ==
  ASSUME ReportsInv, NEW S \in SUBSET Items, NEW T \in SUBSET Items, S \cap T = {}
  PROVE  /\ Debits(S \cup T) = Debits(S) + Debits(T) /\ Credits(S \cup T) = Credits(S) + Credits(T)
         /\ Balances(S \cup T) = Balances(S) + Balances(T)
<1>1. S \cup T \in SUBSET Items
  OBVIOUS
<1>2. /\ Over(DebitIn, S \cup T) = Over(DebitIn, S) + Over(DebitIn, T)
      /\ Over(CreditIn, S \cup T) = Over(CreditIn, S) + Over(CreditIn, T)
      /\ Over(BalanceIn, S \cup T) = Over(BalanceIn, S) + Over(BalanceIn, T)
  BY AmountsAre, OverUnion
<1> QED BY <1>1, <1>2, TotalsAre

LEMMA OneItem ==
  ASSUME ReportsInv, NEW l \in Items
  PROVE  Debits({l}) = Debit(l) /\ Credits({l}) = Credit(l) /\ Balances({l}) = Balance(l)
<1>1. {l} \in SUBSET Items
  OBVIOUS
<1>2. Over(DebitIn, {l}) = DebitIn[l] /\ Over(CreditIn, {l}) = CreditIn[l] /\ Over(BalanceIn, {l}) = BalanceIn[l]
  BY AmountsAre, OverOne
<1> QED BY <1>1, <1>2, AmountsAre, TotalsAre

LEMMA NoItems ==
  ASSUME ReportsInv
  PROVE  Debits({}) = 0 /\ Credits({}) = 0 /\ Balances({}) = 0
<1>1. {} \in SUBSET Items
  OBVIOUS
<1> QED BY <1>1, TotalsAre, OverNone

-----------------------------------------------------------------------------
(* Functions from 0 up. *)

Recurs(f, N, start, step) == f = [n \in 0..N |-> IF n = 0 THEN start ELSE step[<<n, f[n - 1]>>]]

Steps(f, n, X, start, step) ==
    f \in [0..n -> X] /\ f[0] = start /\ \A i \in 1..n : f[i] = step[<<i, f[i - 1]>>]

LEMMA RecursionUpTo ==
  ASSUME NEW N \in Nat, NEW X, NEW start \in X, NEW step \in [(1..N) \X X -> X]
  PROVE  \E f : Steps(f, N, X, start, step)
<1> USE DEF Steps
<1> DEFINE Fits(f, n) == Steps(f, n, X, start, step)
           Q == {n \in Nat : n <= N => \E f : Fits(f, n)}
<1>1. 0 \in Q
  <2> DEFINE f == [i \in 0..0 |-> start]
  <2>1. Fits(f, 0)
    OBVIOUS
  <2> QED BY <2>1
<1>2. ASSUME NEW n \in Nat, n \in Q PROVE n + 1 \in Q
  <2> SUFFICES ASSUME n + 1 <= N PROVE \E f : Fits(f, n + 1)
    OBVIOUS
  <2>1. PICK f : Fits(f, n)
    BY <1>2
  <2> DEFINE v == step[<<n + 1, f[n]>>]
             g == [i \in 0..(n + 1) |-> IF i = n + 1 THEN v ELSE f[i]]
  <2>2. v \in X
    <3>1. f[n] \in X /\ n + 1 \in 1..N
      BY <2>1
    <3> QED BY <3>1
  <2>3. \A i \in 0..n : g[i] = f[i] /\ f[i] \in X
    BY <2>1
  <2>0. n + 1 \in 0..(n + 1) /\ 0..n \subseteq 0..(n + 1) /\ \A i \in 0..(n + 1) : i # n + 1 => i \in 0..n
    OBVIOUS
  <2>4. g[n + 1] = v /\ g[0] = f[0] /\ g \in [0..(n + 1) -> X]
    <3>1. \A i \in 0..(n + 1) : (IF i = n + 1 THEN v ELSE f[i]) \in X
      BY <2>0, <2>2, <2>3
    <3>2. g \in [0..(n + 1) -> X]
      BY <3>1
    <3> QED BY <2>0, <2>3, <3>2
  <2> HIDE DEF g
  <2>5. ASSUME NEW i \in 1..(n + 1) PROVE g[i] = step[<<i, g[i - 1]>>]
    <3>1. i - 1 \in 0..n /\ i \in Nat
      OBVIOUS
    <3>2. g[i - 1] = f[i - 1]
      BY <2>3, <3>1
    <3>3. CASE i = n + 1
      <4>1. i - 1 = n
        BY <3>3
      <4> QED BY <2>4, <3>2, <3>3, <4>1
    <3>4. CASE i # n + 1
      <4>1. i \in 1..n /\ i \in 0..n
        BY <3>4
      <4> QED BY <2>1, <2>3, <3>2, <4>1
    <3> QED BY <3>3, <3>4
  <2>6. Fits(g, n + 1)
    BY <2>1, <2>4, <2>5
  <2> QED BY <2>6
<1> HIDE DEF Q, Fits
<1>3. N \in Q
  BY <1>1, <1>2, NumberInduction
<1> QED BY <1>3 DEF Q, Fits

LEMMA Recursion ==
  ASSUME NEW N \in Nat, NEW X, NEW start \in X, NEW step \in [(1..N) \X X -> X]
  PROVE  \E f : Recurs(f, N, start, step) /\ f \in [0..N -> X]
<1>0. PICK f : Steps(f, N, X, start, step)
  BY RecursionUpTo, Zenon
<1>1. f \in [0..N -> X] /\ f[0] = start /\ \A i \in 1..N : f[i] = step[<<i, f[i - 1]>>]
  BY <1>0 DEF Steps
<1>2. \A n \in 0..N : f[n] = IF n = 0 THEN start ELSE step[<<n, f[n - 1]>>]
  BY <1>1
<1>4. f = [n \in 0..N |-> f[n]]
  BY <1>1
<1>3. Recurs(f, N, start, step)
  BY <1>2, <1>4 DEF Recurs
<1> HIDE DEF Recurs
<1> QED BY <1>1, <1>3

-----------------------------------------------------------------------------
(* The rows of an account in the general ledger. *)

\* The sum of a sequence of numbers with one more.
LEMMA SumLast ==
  ASSUME NEW n \in Nat, NEW F \in [1..(n + 1) -> Int], NEW G \in [1..n -> Int],
         \A i \in 1..n : F[i] = G[i]
  PROVE  Total(F) = Total(G) + F[n + 1] /\ Total(G) \in Int /\ F[n + 1] \in Int
<1> DEFINE I == 1..(n + 1)
           x == n + 1
<1>1. IsFiniteSet(I) /\ IsFiniteSet(1..n)
  BY FS_Interval
<1>2. x \in I /\ I \ {x} = 1..n /\ I \in SUBSET I
  OBVIOUS
<1>3. Part(F, 1..n) = G /\ Part(F, I) = F
  BY <1>2 DEF Part
<1>4. Total(G) \in Int /\ F[x] \in Int
  BY <1>1, SumType
<1>5. F \in [I -> Int]
  OBVIOUS
<1> HIDE DEF I, x
<1>6. Over(F, I) = F[x] + Over(F, I \ {x})
  BY <1>1, <1>2, <1>5, OverFirst
<1>7. Total(F) = F[x] + Total(G)
  BY <1>2, <1>3, <1>6 DEF Over
<1> QED BY <1>4, <1>7 DEF x

DebitsIn(rows) == [i \in DOMAIN rows |-> rows[i].debit]
CreditsIn(rows) == [i \in DOMAIN rows |-> rows[i].credit]
DiffersIn(rows) == [i \in DOMAIN rows |-> rows[i].debit - rows[i].credit]

LEMMA RowsDiffer ==
  ASSUME NEW rows \in Seq(TotalRecord)
  PROVE  /\ Total(DiffersIn(rows)) = Total(DebitsIn(rows)) - Total(CreditsIn(rows))
         /\ Total(DebitsIn(rows)) \in Int /\ Total(CreditsIn(rows)) \in Int
<1> DEFINE N == DOMAIN rows
           D == DebitsIn(rows)
           C == CreditsIn(rows)
           E == DiffersIn(rows)
<1>0. IsFiniteSet(N)
  <2>1. Len(rows) \in Nat /\ DOMAIN rows = 1..Len(rows)
    OBVIOUS
  <2> QED BY <2>1, FS_Interval
<1>1. \A i \in N : rows[i].debit \in Int /\ rows[i].credit \in Int
  <2>1. \A i \in N : rows[i] \in TotalRecord
    OBVIOUS
  <2> QED BY <2>1 DEF TotalRecord
<1>2. D \in [N -> Int] /\ C \in [N -> Int] /\ E \in [N -> Int] /\ \A i \in N : D[i] = E[i] + C[i]
  BY <1>1 DEF DebitsIn, CreditsIn, DiffersIn
<1> HIDE DEF N, D, C, E
<1>3. Adds(D, E, C, N, N)
  BY <1>0, <1>2 DEF Adds
<1>4. Total(D) = Total(E) + Total(C)
  BY <1>3, SumAdd
<1>5. Total(D) \in Int /\ Total(C) \in Int /\ Total(E) \in Int
  BY <1>0, <1>2, SumType
<1>6. Total(E) = Total(D) - Total(C)
  BY <1>4, <1>5
<1> QED BY <1>5, <1>6 DEF D, C, E

\* The rows of some items.
RowsFit(rows, P) ==
    /\ rows \in Seq(TotalRecord)
    /\ Total(DebitsIn(rows)) = Debits(P) /\ Total(CreditsIn(rows)) = Credits(P)
    /\ IF rows = <<>> THEN P = {} ELSE rows[Len(rows)].balance = Balances(P)

LEMMA FitTotals ==
  ASSUME ReportsInv, NEW P \in SUBSET Items, NEW rows, RowsFit(rows, P)
  PROVE  LedgerTotals(rows) = TotalsOf(P)
<1>1. LedgerTotals(rows) = [debit |-> Debits(P), credit |-> Credits(P),
                            balance |-> IF rows = <<>> THEN 0 ELSE rows[Len(rows)].balance]
  BY DEF LedgerTotals, RowsFit, DebitsIn, CreditsIn
<1>2. (IF rows = <<>> THEN 0 ELSE rows[Len(rows)].balance) = Balances(P)
  BY NoItems DEF RowsFit
<1> QED BY <1>1, <1>2, TotalsType

LEMMA RowIs ==
  ASSUME ReportsInv, NEW rows \in Seq(TotalRecord), NEW l \in Items
  PROVE  /\ LedgerRow(rows, l) \in TotalRecord
         /\ LedgerRow(rows, l).debit = Debit(l) /\ LedgerRow(rows, l).credit = Credit(l)
         /\ LedgerRow(rows, l).balance = Balance(l) + (Total(DebitsIn(rows)) - Total(CreditsIn(rows)))
<1>1. {l} \in SUBSET Items
  OBVIOUS
<1>2. /\ TotalsOf({l}) \in TotalRecord /\ TotalsOf({l}).debit = Debit(l) /\ TotalsOf({l}).credit = Credit(l)
      /\ TotalsOf({l}).balance = Balance(l)
  BY <1>1, TotalsType, OneItem
<1>3. LedgerRow(rows, l) = [TotalsOf({l}) EXCEPT !.balance = @ + Total(DiffersIn(rows))]
  BY DEF LedgerRow, DiffersIn
<1> DEFINE t == TotalsOf({l})
           n == Total(DiffersIn(rows))
           r == LedgerRow(rows, l)
<1>4. n \in Int /\ n = Total(DebitsIn(rows)) - Total(CreditsIn(rows))
  BY RowsDiffer
<1>5. r = [t EXCEPT !.balance = @ + n] /\ t \in TotalRecord
  BY <1>2, <1>3
<1> HIDE DEF t, n, r
<1>6. r \in TotalRecord /\ r.debit = t.debit /\ r.credit = t.credit /\ r.balance = t.balance + n
  BY <1>4, <1>5 DEF TotalRecord
<1> QED BY <1>2, <1>4, <1>6 DEF t, r

\* One item more.
LEMMA FitMore ==
  ASSUME ReportsInv, NEW P \in SUBSET Items, NEW rows, RowsFit(rows, P), NEW l \in Items, l \notin P
  PROVE  RowsFit(Append(rows, LedgerRow(rows, l)), P \cup {l})
<1> DEFINE r == LedgerRow(rows, l)
           more == Append(rows, r)
           n == Len(rows)
<1>1. rows \in Seq(TotalRecord) /\ n \in Nat
  BY DEF RowsFit
<1>2. /\ r \in TotalRecord /\ r.debit = Debit(l) /\ r.credit = Credit(l)
      /\ r.balance = Balance(l) + (Debits(P) - Credits(P))
  BY <1>1, RowIs DEF RowsFit
<1> HIDE DEF r
<1>3. /\ more \in Seq(TotalRecord) /\ Len(more) = n + 1 /\ DOMAIN more = 1..(n + 1) /\ more # <<>>
      /\ \A i \in 1..n : more[i] = rows[i]
      /\ more[n + 1] = r /\ DOMAIN rows = 1..n
  BY <1>1, <1>2
<1> HIDE DEF more, n
<1>4. /\ DebitsIn(more) \in [1..(n + 1) -> Int] /\ CreditsIn(more) \in [1..(n + 1) -> Int]
      /\ DebitsIn(rows) \in [1..n -> Int] /\ CreditsIn(rows) \in [1..n -> Int]
  <2>1. /\ \A i \in DOMAIN more : more[i].debit \in Int /\ more[i].credit \in Int
        /\ \A i \in DOMAIN rows : rows[i].debit \in Int /\ rows[i].credit \in Int
    <3>1. /\ \A i \in DOMAIN more : more[i] \in TotalRecord
          /\ \A i \in DOMAIN rows : rows[i] \in TotalRecord
      BY <1>1, <1>3
    <3> QED BY <3>1 DEF TotalRecord
  <2> QED BY <1>3, <2>1 DEF DebitsIn, CreditsIn
<1>5. /\ \A i \in 1..n : DebitsIn(more)[i] = DebitsIn(rows)[i] /\ CreditsIn(more)[i] = CreditsIn(rows)[i]
      /\ DebitsIn(more)[n + 1] = Debit(l) /\ CreditsIn(more)[n + 1] = Credit(l)
  <2>1. n + 1 \in DOMAIN more /\ 1..n \subseteq DOMAIN more
    BY <1>1, <1>3
  <2> QED BY <1>2, <1>3, <2>1 DEF DebitsIn, CreditsIn
<1>6. /\ Total(DebitsIn(more)) = Debits(P) + Debit(l)
      /\ Total(CreditsIn(more)) = Credits(P) + Credit(l)
  BY <1>1, <1>4, <1>5, SumLast DEF RowsFit
<1>7. /\ Debits(P \cup {l}) = Debits(P) + Debit(l) /\ Credits(P \cup {l}) = Credits(P) + Credit(l)
      /\ Balances(P \cup {l}) = Balances(P) + Balance(l)
  <2>1. {l} \in SUBSET Items /\ P \cap {l} = {}
    OBVIOUS
  <2> QED BY <2>1, TotalsOfBoth, OneItem
<1>8. r.balance = Balances(P \cup {l})
  <2>1. Balances(P) = Debits(P) - Credits(P) /\ Balances(P) \in Int
    BY TotalsAre
  <2>2. Balance(l) \in Int
    BY AmountsAre
  <2> QED BY <1>2, <1>7, <2>1, <2>2
<1>9. RowsFit(more, P \cup {l})
  BY <1>3, <1>6, <1>7, <1>8 DEF RowsFit
<1> QED BY <1>9 DEF more, r

\* Items are in the order of date, entry and place in the entry.
LEMMA PrecedesOrders ==
  ASSUME ReportsInv, NEW S \in SUBSET Items
  PROVE  Ranked(S, [m \in S |-> {l \in S : Precedes(l, m)}])
<1> DEFINE R == [m \in S |-> {l \in S : Precedes(l, m)}]
<1>1. \A l \in S : DateOf(l) \in Int /\ l[1] \in Int /\ l[2] \in Int /\ l = <<l[1], l[2]>>
  <2> SUFFICES ASSUME NEW l \in S PROVE DateOf(l) \in Int /\ l[1] \in Int /\ l[2] \in Int /\ l = <<l[1], l[2]>>
    OBVIOUS
  <2>1. ItemIn(l, entries) /\ EntriesFit(entries)
    BY ItemsAre DEF ReportsInv
  <2>2. entries[l[1]].date \in Dates
    BY <2>1, EntryIs DEF ItemIn
  <2>3. l[1] \in Nat /\ l[2] \in Nat
    BY <2>1, ItemIs
  <2> QED BY <2>1, <2>2, <2>3 DEF DateOf, Dates, ItemIn
<1>2. IsFiniteSet(S)
  BY TotalsAre
<1>3. \A x \in S : R[x] \in SUBSET S /\ x \in R[x]
  BY <1>1 DEF Precedes
<1>4. \A x, y \in S : Precedes(x, y) \/ Precedes(y, x)
  BY <1>1 DEF Precedes
<1>5. \A x, y, z \in S : Precedes(x, y) /\ Precedes(y, z) => Precedes(x, z)
  BY <1>1 DEF Precedes
<1>6. \A x, y \in S : Precedes(x, y) /\ Precedes(y, x) => x = y
  <2> SUFFICES ASSUME NEW x \in S, NEW y \in S, Precedes(x, y), Precedes(y, x) PROVE x = y
    OBVIOUS
  <2>1. x[1] = y[1] /\ x[2] = y[2]
    BY <1>1 DEF Precedes
  <2> QED BY <1>1, <2>1
<1>7. ASSUME NEW x \in S, NEW y \in S, x # y
      PROVE  R[x] # R[y] /\ (R[x] \subseteq R[y] \/ R[y] \subseteq R[x])
  <2>1. R[x] = {l \in S : Precedes(l, x)} /\ R[y] = {l \in S : Precedes(l, y)}
    OBVIOUS
  <2>2. R[x] # R[y]
    <3> SUFFICES ASSUME R[x] = R[y] PROVE FALSE
      OBVIOUS
    <3>1. Precedes(x, y) /\ Precedes(y, x)
      BY <1>3, <2>1
    <3> QED BY <1>6, <1>7, <3>1
  <2> HIDE DEF R
  <2>3. Precedes(x, y) => R[x] \subseteq R[y]
    <3>1. Precedes(x, y) => \A l \in S : Precedes(l, x) => Precedes(l, y)
      BY <1>5
    <3> QED BY <2>1, <3>1
  <2>4. Precedes(y, x) => R[y] \subseteq R[x]
    <3>1. Precedes(y, x) => \A l \in S : Precedes(l, y) => Precedes(l, x)
      BY <1>5
    <3> QED BY <2>1, <3>1
  <2> QED BY <1>4, <2>2, <2>3, <2>4
<1> HIDE DEF R
<1> QED BY <1>2, <1>3, <1>7 DEF Ranked, R

\* The rows that come before those of the items, and those of the first items.
StartOf(before) == IF before = {} THEN <<>> ELSE <<TotalsOf(before)>>
RowsOf(list, start) ==
    CHOOSE rows : rows = [n \in 0..Len(list) |->
                             IF n = 0 THEN start ELSE Append(rows[n - 1], LedgerRow(rows[n - 1], list[n]))]
RowsStep(list) ==
    [p \in (1..Len(list)) \X Seq(TotalRecord) |-> Append(p[2], LedgerRow(p[2], list[p[1]]))]

LEMMA LedgerRowsAre ==
  ASSUME NEW before, NEW during
  PROVE  LedgerRows(before, during) = RowsOf(InOrder(during), StartOf(before))[Len(InOrder(during))]
  BY Zenon DEF LedgerRows, RowsOf, StartOf

LEMMA RowsAt ==
  ASSUME ReportsInv, NEW list \in Seq(Items), NEW start \in Seq(TotalRecord)
  PROVE  /\ RowsOf(list, start)[0] = start
         /\ \A n \in 1..Len(list) : RowsOf(list, start)[n] =
                Append(RowsOf(list, start)[n - 1], LedgerRow(RowsOf(list, start)[n - 1], list[n]))
<1> DEFINE N == Len(list)
           step == RowsStep(list)
           X == Seq(TotalRecord)
           rows == RowsOf(list, start)
<1>1. N \in Nat /\ \A n \in 1..N : list[n] \in Items
  OBVIOUS
<1>2. ASSUME NEW p \in (1..N) \X X PROVE step[p] \in X
  <2>1. p[2] \in Seq(TotalRecord) /\ list[p[1]] \in Items
    BY <1>1
  <2>2. LedgerRow(p[2], list[p[1]]) \in TotalRecord
    BY <2>1, RowIs
  <2> QED BY <2>1, <2>2 DEF RowsStep
<1>3. step \in [(1..N) \X X -> X]
  BY <1>2 DEF RowsStep
<1>4. \A n \in 1..N, x \in X : step[<<n, x>>] = Append(x, LedgerRow(x, list[n]))
  BY DEF RowsStep
<1> HIDE DEF step, N, X
<1>5. PICK f : Recurs(f, N, start, step) /\ f \in [0..N -> X]
  BY <1>1, <1>3, Recursion DEF X
<1>6. f = [n \in 0..N |-> IF n = 0 THEN start ELSE Append(f[n - 1], LedgerRow(f[n - 1], list[n]))]
  <2>1. f = [n \in 0..N |-> IF n = 0 THEN start ELSE step[<<n, f[n - 1]>>]]
    BY <1>5 DEF Recurs
  <2>2. \A n \in 0..N : n # 0 => n \in 1..N /\ n - 1 \in 0..N
    BY <1>1
  <2>3. \A n \in 0..N : n # 0 => step[<<n, f[n - 1]>>] = Append(f[n - 1], LedgerRow(f[n - 1], list[n]))
    BY <1>4, <1>5, <2>2
  <2>4. \A n \in 0..N : f[n] = IF n = 0 THEN start ELSE Append(f[n - 1], LedgerRow(f[n - 1], list[n]))
    BY <2>1, <2>3
  <2>5. DOMAIN f = 0..N /\ f = [n \in 0..N |-> f[n]]
    BY <2>1
  <2> QED BY <2>4, <2>5
<1>7. rows = [n \in 0..N |-> IF n = 0 THEN start ELSE Append(rows[n - 1], LedgerRow(rows[n - 1], list[n]))]
  BY <1>6 DEF RowsOf, N
<1> HIDE DEF rows
<1>8. 0 \in 0..N /\ \A n \in 1..N : n \in 0..N /\ n # 0
  BY <1>1
<1>9. rows[0] = start /\ \A n \in 1..N : rows[n] = Append(rows[n - 1], LedgerRow(rows[n - 1], list[n]))
  BY <1>7, <1>8
<1> QED BY <1>9 DEF rows, N

LEMMA StartFits ==
  ASSUME ReportsInv, NEW before \in SUBSET Items
  PROVE  RowsFit(StartOf(before), before) /\ StartOf(before) \in Seq(TotalRecord)
<1> DEFINE none == <<>>
<1>1. CASE before = {}
  <2>1. StartOf(before) = none /\ none \in Seq(TotalRecord)
    BY <1>1 DEF StartOf
  <2>2. DebitsIn(none) = Part(DebitIn, {}) /\ CreditsIn(none) = Part(CreditIn, {})
    BY DEF DebitsIn, CreditsIn, Part
  <2>3. Total(DebitsIn(none)) = 0 /\ Total(CreditsIn(none)) = 0
    BY <2>2, OverNone DEF Over
  <2> QED BY <1>1, <2>1, <2>3, NoItems DEF RowsFit
<1>2. CASE before # {}
  <2> DEFINE t == TotalsOf(before)
             one == <<t>>
  <2>1. t \in TotalRecord /\ t.debit = Debits(before) /\ t.credit = Credits(before) /\ t.balance = Balances(before)
    BY TotalsType
  <2>2. StartOf(before) = one
    BY <1>2 DEF StartOf
  <2> HIDE DEF t
  <2>3. one \in Seq(TotalRecord) /\ Len(one) = 1 /\ DOMAIN one = {1} /\ one[1] = t /\ one # <<>>
    BY <2>1
  <2> HIDE DEF one
  <2>4. Total(DebitsIn(one)) = t.debit /\ Total(CreditsIn(one)) = t.credit
    <3> DEFINE D == DebitsIn(one)
               C == CreditsIn(one)
    <3>1. t.debit \in Int /\ t.credit \in Int
      BY <2>1 DEF TotalRecord
    <3>2. D \in [{1} -> Int] /\ D[1] = t.debit /\ C \in [{1} -> Int] /\ C[1] = t.credit
      BY <2>3, <3>1 DEF DebitsIn, CreditsIn
    <3> HIDE DEF D, C
    <3>3. Total(D) = D[1] /\ Total(C) = C[1]
      BY <3>2, SumOfOne
    <3> QED BY <3>2, <3>3 DEF D, C
  <2> QED BY <2>1, <2>2, <2>3, <2>4 DEF RowsFit
<1> QED BY <1>1, <1>2

\* The first items of a list.
FirstOf(list, n) == {list[i] : i \in 1..n}

\* What the rows of an account add up to is what its items do.
LEMMA LedgerTotalsAre ==
  ASSUME ReportsInv, NEW B \in SUBSET Items, NEW S \in SUBSET Items, B \cap S = {}
  PROVE  LedgerTotals(LedgerRows(B, S)) = TotalsOf(B \cup S)
<1> DEFINE list == InOrder(S)
           N == Len(list)
           start == StartOf(B)
           rows == RowsOf(list, start)
           P(n) == B \cup FirstOf(list, n)
           Q == {n \in Nat : n <= N => RowsFit(rows[n], P(n))}
           R == [m \in S |-> {l \in S : Precedes(l, m)}]
<1>1. Ranked(S, R)
  BY PrecedesOrders
<1> HIDE DEF R
<1>2. list = Arranged(S, R)
  BY DEF InOrder, R
<1>3. /\ N \in Nat /\ list \in Seq(S) /\ list \in Bijection(1..N, S)
  BY <1>1, <1>2, ArrangedIs
<1>4. /\ \A i \in 1..N : list[i] \in S
      /\ \A i, j \in 1..N : list[i] = list[j] => i = j
      /\ FirstOf(list, N) = S
  <2>1. list \in Injection(1..N, S) /\ list \in Surjection(1..N, S)
    BY <1>3 DEF Bijection
  <2>2. /\ \A i \in 1..N : list[i] \in S
        /\ \A i, j \in 1..N : list[i] = list[j] => i = j
        /\ \A x \in S : \E i \in 1..N : list[i] = x
    BY <2>1 DEF Injection, Surjection, IsInjective
  <2> QED BY <2>2 DEF FirstOf
<1>5. list \in Seq(Items)
  <2>1. S \subseteq Items
    OBVIOUS
  <2> HIDE DEF list, N
  <2>2. Len(list) \in Nat /\ list \in [1..Len(list) -> Items]
    BY <1>3, <1>4, <2>1 DEF N
  <2> QED BY <1>3, <2>1
<1> HIDE DEF list
<1>6. start \in Seq(TotalRecord) /\ RowsFit(start, B)
  BY StartFits
<1> HIDE DEF start
<1>7. /\ rows[0] = start
      /\ \A n \in 1..N : rows[n] = Append(rows[n - 1], LedgerRow(rows[n - 1], list[n]))
  BY <1>5, <1>6, RowsAt
<1> HIDE DEF rows, N
<1>8. 0 \in Q
  <2>1. P(0) = B
    BY DEF FirstOf
  <2> QED BY <1>6, <1>7, <2>1
<1>9. ASSUME NEW n \in Nat, n \in Q PROVE n + 1 \in Q
  <2> SUFFICES ASSUME n + 1 <= N PROVE RowsFit(rows[n + 1], P(n + 1))
    OBVIOUS
  <2> DEFINE l == list[n + 1]
  <2>1. n + 1 \in 1..N /\ (n + 1) - 1 = n /\ 1..(n + 1) = 1..n \cup {n + 1} /\ 1..n \subseteq 1..N
    BY <1>3
  <2>2. l \in S /\ P(n) \in SUBSET Items
    BY <1>4, <2>1 DEF FirstOf
  <2>3. l \notin P(n) /\ P(n + 1) = P(n) \cup {l}
    <3>1. \A i \in 1..n : list[i] # l
      BY <1>4, <2>1
    <3>2. l \notin FirstOf(list, n) /\ FirstOf(list, n + 1) = FirstOf(list, n) \cup {l}
      BY <2>1, <3>1 DEF FirstOf
    <3> QED BY <2>2, <3>2
  <2>4. RowsFit(rows[n], P(n))
    <3>1. n <= N
      BY <1>3
    <3> QED BY <1>9, <3>1
  <2>5. rows[n + 1] = Append(rows[n], LedgerRow(rows[n], l))
    BY <1>7, <2>1
  <2>6. l \in Items
    BY <2>2
  <2> HIDE DEF l, P
  <2>7. RowsFit(Append(rows[n], LedgerRow(rows[n], l)), P(n) \cup {l})
    BY <2>2, <2>3, <2>4, <2>6, FitMore
  <2> QED BY <2>3, <2>5, <2>7
<1> HIDE DEF Q
<1>10. N \in Q
  BY <1>3, <1>8, <1>9, NumberInduction
<1>11. RowsFit(rows[N], B \cup S)
  BY <1>3, <1>4, <1>10 DEF Q
<1>12. LedgerRows(B, S) = rows[N]
  BY LedgerRowsAre DEF rows, N, list, start
<1>13. B \cup S \in SUBSET Items
  OBVIOUS
<1> QED BY <1>11, <1>12, <1>13, FitTotals

-----------------------------------------------------------------------------
(* Items by account, by journal, and entries as a whole. *)

LEMMA AccountIn ==
  ASSUME ReportsInv, NEW l \in Items
  PROVE  AccountOf(l) \in Accounts /\ entries[l[1]].journal \in Journals /\ l[1] \in DOMAIN entries
         /\ DateOf(l) \in Dates /\ Partner(l) \in Partners \cup {NoPartner} /\ Maturity(l) \in Int
<1>1. ItemIn(l, entries) /\ EntriesFit(entries)
  BY ItemsAre DEF ReportsInv
<1>2. l[1] \in DOMAIN entries /\ LineIn(l, entries).account \in Accounts
  BY <1>1, ItemIs DEF ItemIn
<1>3. /\ entries[l[1]].journal \in Journals /\ entries[l[1]].date \in Dates
      /\ entries[l[1]].partner \in Partners \cup {NoPartner} /\ entries[l[1]].maturity \in Int
  BY <1>1, <1>2, EntryIs
<1> QED BY <1>2, <1>3 DEF AccountOf, LineIn, DateOf, Partner, Maturity

LEMMA JournalsFinite == IsFiniteSet(Journals)
<1> DEFINE f == [k \in Kinds |-> k.journal]
<1>1. f \in Surjection(Kinds, Journals)
  BY DEF Surjection, Journals
<1> QED BY <1>1, ReportsAssumption, FS_Surjection

\* The sums of the accounts and of the journals are those of all items.
LEMMA AccountSums ==
  ASSUME ReportsInv, NEW S \in SUBSET Items, NEW V \in [Items -> Int]
  PROVE  /\ [a \in Accounts |-> Over(V, OfAccount(a, S))] \in [Accounts -> Int]
         /\ Total([a \in Accounts |-> Over(V, OfAccount(a, S))]) = Over(V, S)
<1> DEFINE k == [l \in S |-> AccountOf(l)]
<1>1. \A l \in S : k[l] \in Accounts
  BY AccountIn
<1>2. IsFiniteSet(Accounts) /\ IsFiniteSet(Items)
  BY ReportsAssumption, AmountsAre
<1>3. \A a \in Accounts : Fiber(k, S, a) = OfAccount(a, S)
  BY DEF Fiber, OfAccount
<1>4. Classes(V, S, k, Accounts) = [a \in Accounts |-> Over(V, OfAccount(a, S))]
  BY <1>3 DEF Classes
<1> HIDE DEF k
<1>5. /\ Classes(V, S, k, Accounts) \in [Accounts -> Int]
      /\ Total(Classes(V, S, k, Accounts)) = Over(V, S)
  BY <1>1, <1>2, OverClasses
<1> QED BY <1>4, <1>5

LEMMA JournalSums ==
  ASSUME ReportsInv, NEW S \in SUBSET Items, NEW V \in [Items -> Int]
  PROVE  /\ [j \in Journals |-> Over(V, OfJournal(j, S))] \in [Journals -> Int]
         /\ Total([j \in Journals |-> Over(V, OfJournal(j, S))]) = Over(V, S)
<1> DEFINE k == [l \in S |-> entries[l[1]].journal]
<1>1. \A l \in S : k[l] \in Journals
  BY AccountIn
<1>2. IsFiniteSet(Journals) /\ IsFiniteSet(Items)
  BY JournalsFinite, AmountsAre
<1>3. \A a \in Journals : Fiber(k, S, a) = OfJournal(a, S)
  BY DEF Fiber, OfJournal
<1>4. Classes(V, S, k, Journals) = [a \in Journals |-> Over(V, OfJournal(a, S))]
  BY <1>3 DEF Classes
<1> HIDE DEF k
<1>5. /\ Classes(V, S, k, Journals) \in [Journals -> Int]
      /\ Total(Classes(V, S, k, Journals)) = Over(V, S)
  BY <1>1, <1>2, OverClasses
<1> QED BY <1>4, <1>5

\* Items that are those of whole entries.
Whole(S) == S \in SUBSET Items /\ \A l \in S : \A m \in Items : m[1] = l[1] => m \in S

EntryItems(e) == {e} \X DOMAIN entries[e].lines

LEMMA EntryBalance ==
  ASSUME ReportsInv, NEW e \in DOMAIN entries
  PROVE  EntryItems(e) \in SUBSET Items /\ Over(BalanceIn, EntryItems(e)) = 0
<1> DEFINE S == EntryItems(e)
           T == DOMAIN entries[e].lines
           F == Part(BalanceIn, S)
           G == [i \in T |-> entries[e].lines[i].amount]
           b == [i \in T |-> <<e, i>>]
<1>1. S \in SUBSET Items
  BY DEF Items, EntryItems
<1>2. IsFiniteSet(S) /\ F \in [S -> Int]
  BY <1>1, AmountsAre, OverType
<1>3. G \in [T -> Int] /\ Total(G) = 0
  <2>1. entries[e].lines \in Seq(ItemRecord)
    BY EntryIs DEF ReportsInv
  <2>2. \A i \in T : entries[e].lines[i] \in ItemRecord
    BY <2>1
  <2>3. \A i \in T : entries[e].lines[i].amount \in Int
    BY <2>2 DEF ItemRecord
  <2>4. Total(G) = 0
    BY DEF ReportsInv, EntriesFit, WholeAmount
  <2> QED BY <2>3, <2>4
<1>4. \A i \in T : b[i] \in S /\ G[i] = F[b[i]]
  <2> SUFFICES ASSUME NEW i \in T PROVE b[i] \in S /\ G[i] = F[b[i]]
    OBVIOUS
  <2>1. <<e, i>> \in S
    BY DEF EntryItems
  <2>2. F[<<e, i>>] = Balance(<<e, i>>)
    BY <1>1, <2>1 DEF Part, BalanceIn
  <2> QED BY <2>1, <2>2 DEF Balance
<1>5. b \in Injection(T, S)
  BY <1>4 DEF Injection, IsInjective
<1>6. b \in Surjection(T, S)
  <2>1. \A x \in S : x[2] \in T /\ x = <<e, x[2]>>
    BY DEF EntryItems
  <2>2. \A x \in S : \E i \in T : b[i] = x
    BY <2>1
  <2>3. b \in [T -> S]
    BY <1>4
  <2> QED BY <2>2, <2>3 DEF Surjection
<1>0. b \in Bijection(T, S)
  BY <1>5, <1>6 DEF Bijection
<1> HIDE DEF S, T, F, G, b
<1>7. Reorders(b, G, T, F, S)
  BY <1>0, <1>2, <1>3, <1>4 DEF Reorders
<1>8. Total(F) = 0
  BY <1>3, <1>7, SumReordered
<1> QED BY <1>1, <1>8 DEF Over, F, S

\* What is whole comes to nothing.
LEMMA WholeBalances ==
  ASSUME ReportsInv, NEW S, Whole(S)
  PROVE  Balances(S) = 0
<1> DEFINE k == [l \in S |-> l[1]]
           J == DOMAIN entries
           C == Classes(BalanceIn, S, k, J)
<1>0. S \in SUBSET Items
  BY DEF Whole
<1>1. \A l \in S : k[l] \in J
  BY <1>0, AccountIn
<1>2. IsFiniteSet(J) /\ IsFiniteSet(Items) /\ BalanceIn \in [Items -> Int]
  <2>1. Len(entries) \in Nat /\ DOMAIN entries = 1..Len(entries)
    BY DEF EntriesFit, ReportsInv
  <2> QED BY <2>1, FS_Interval, AmountsAre
<1>3. ASSUME NEW e \in J PROVE C[e] = 0
  <2>1. C[e] = Over(BalanceIn, Fiber(k, S, e))
    BY DEF Classes
  <2>2. CASE Fiber(k, S, e) = {}
    BY <2>1, <2>2, OverNone
  <2>3. CASE Fiber(k, S, e) # {}
    <3>1. \E l \in S : l[1] = e
      BY <2>3 DEF Fiber
    <3>2. \A m \in Items : m[1] = e => m \in S
      BY <3>1 DEF Whole
    <3>3. \A m \in EntryItems(e) : m[1] = e
      BY DEF EntryItems
    <3>4. \A m \in S : m[1] = e => m \in EntryItems(e)
      <4> SUFFICES ASSUME NEW m \in S, m[1] = e PROVE m \in EntryItems(e)
        OBVIOUS
      <4>1. ItemIn(m, entries)
        BY <1>0, ItemsAre
      <4> QED BY <4>1 DEF ItemIn, EntryItems
    <3>5. EntryItems(e) \in SUBSET Items /\ Over(BalanceIn, EntryItems(e)) = 0
      BY EntryBalance
    <3>6. \A m : m \in Fiber(k, S, e) <=> m \in S /\ m[1] = e
      BY DEF Fiber
    <3>7. Fiber(k, S, e) = EntryItems(e)
      BY <3>2, <3>3, <3>4, <3>5, <3>6
    <3> QED BY <2>1, <3>5, <3>7
  <2> QED BY <2>2, <2>3
<1> HIDE DEF k, J
<1>4. C \in [J -> Int] /\ Total(C) = Over(BalanceIn, S)
  BY <1>0, <1>1, <1>2, OverClasses
<1> HIDE DEF C
<1>5. DOMAIN C = J
  BY <1>4
<1>6. Total(C) = 0
  BY <1>2, <1>3, <1>4, <1>5, SumOfZeros
<1> QED BY <1>0, <1>4, <1>6, TotalsAre

-----------------------------------------------------------------------------
(* Queries. *)

\* What a target shows.
Shown(l, target) == State(l) # "cancel" /\ (target # "all" => State(l) = target)

LEMMA QueryIs ==
  ASSUME NEW from, NEW to, NEW target
  PROVE  Query(Form(from, to, target)) =
            {l \in Items : /\ Shown(l, target) /\ (to # NoDate => DateOf(l) <= to)
                           /\ (from # NoDate => DateOf(l) >= from)}
  BY DEF Query, Form, Shown

LEMMA InitialIs ==
  ASSUME NEW from, from # NoDate, NEW to, NEW target
  PROVE  Initial(Form(from, to, target)) = {l \in Items : Shown(l, target) /\ DateOf(l) < from}
  BY DEF Initial, Query, Form, Shown

LEMMA FormFrom ==
  ASSUME NEW from, NEW to, NEW target
  PROVE  /\ [Form(from, to, target) EXCEPT !.from = NoDate] = Form(NoDate, to, target)
         /\ Form(from, to, target).from = from
<1> DEFINE F == {"from", "to", "target", "initial"}
           r == [Form(from, to, target) EXCEPT !.from = NoDate]
           q == Form(NoDate, to, target)
<1>1. r = [x \in F |-> r[x]] /\ q = [x \in F |-> q[x]]
  BY DEF Form
<1>2. \A x \in F : r[x] = q[x]
  <2>1. r.from = q.from /\ r.to = q.to /\ r.target = q.target /\ r.initial = q.initial
    BY DEF Form
  <2> HIDE DEF r, q
  <2> QED BY <2>1
<1>3. r = q
  BY <1>1, <1>2
<1> QED BY <1>3 DEF Form

LEMMA QueriesWhole ==
  ASSUME ReportsInv, NEW from, NEW to, NEW target
  PROVE  Whole(Query(Form(from, to, target)))
  BY QueryIs DEF Whole, Shown, State, DateOf

\* A period with what was before it.
LEMMA PeriodSplit ==
  ASSUME ReportsInv, NEW to \in Dates, NEW from \in 1..to, NEW target
  PROVE  /\ Initial(Form(from, to, target)) \in SUBSET Items
         /\ Initial(Form(from, to, target)) \cap Query(Form(from, to, target)) = {}
         /\ Initial(Form(from, to, target)) \cup Query(Form(from, to, target)) = Query(Form(NoDate, to, target))
<1>1. to \in Int /\ from \in Int /\ from <= to /\ from # NoDate /\ to # NoDate
  BY ReportsAssumption DEF Dates
<1>2. \A l \in Items : DateOf(l) \in Int
  BY AccountIn DEF Dates
<1>3. /\ Initial(Form(from, to, target)) = {l \in Items : Shown(l, target) /\ DateOf(l) < from}
      /\ Query(Form(from, to, target)) = {l \in Items : Shown(l, target) /\ DateOf(l) <= to /\ DateOf(l) >= from}
      /\ Query(Form(NoDate, to, target)) = {l \in Items : Shown(l, target) /\ DateOf(l) <= to}
  BY <1>1, InitialIs, QueryIs
<1> QED BY <1>1, <1>2, <1>3

LEMMA QueryItems == ASSUME NEW form PROVE Query(form) \in SUBSET Items
  BY DEF Query

-----------------------------------------------------------------------------
(* The ledgers agree. *)

LEMMA LedgerIs ==
  ASSUME ReportsInv, NEW to \in Dates, NEW from, NEW target
  PROVE  /\ GeneralLedger(Form(from, to, target), FALSE) = TrialBalance(Form(from, to, target))
         /\ from \in 1..to => GeneralLedger(Form(from, to, target), TRUE) = TrialBalance(Form(NoDate, to, target))
<1> DEFINE S == Query(Form(from, to, target))
           B == Initial(Form(from, to, target))
           W == Query(Form(NoDate, to, target))
           LedgerOf(X, Y) == [a \in Accounts |-> LedgerTotals(LedgerRows(OfAccount(a, X), OfAccount(a, Y)))]
<1>1. S \in SUBSET Items /\ W \in SUBSET Items
  BY QueryItems
<1>2. GeneralLedger(Form(from, to, target), FALSE) = LedgerOf({}, S)
  BY DEF GeneralLedger
<1>3. GeneralLedger(Form(from, to, target), TRUE) = LedgerOf(B, S)
  BY DEF GeneralLedger
<1>4. /\ TrialBalance(Form(from, to, target)) = [a \in Accounts |-> TotalsOf(OfAccount(a, S))]
      /\ TrialBalance(Form(NoDate, to, target)) = [a \in Accounts |-> TotalsOf(OfAccount(a, W))]
  BY DEF TrialBalance
<1>5. from \in 1..to => B \in SUBSET Items /\ B \cap S = {} /\ B \cup S = W
  BY PeriodSplit
<1> HIDE DEF S, B, W
<1>6. ASSUME NEW X \in SUBSET Items, X \cap S = {}, NEW a \in Accounts
      PROVE  LedgerTotals(LedgerRows(OfAccount(a, X), OfAccount(a, S))) = TotalsOf(OfAccount(a, X \cup S))
  <2> DEFINE x == OfAccount(a, X)
             s == OfAccount(a, S)
  <2>1. /\ x \in SUBSET Items /\ s \in SUBSET Items /\ x \cap s = {}
        /\ x \cup s = OfAccount(a, X \cup S)
    BY <1>1, <1>6 DEF OfAccount
  <2> HIDE DEF x, s
  <2>2. LedgerTotals(LedgerRows(x, s)) = TotalsOf(x \cup s)
    BY <2>1, LedgerTotalsAre
  <2> QED BY <2>1, <2>2 DEF x, s
<1>7. LedgerOf({}, S) = [a \in Accounts |-> TotalsOf(OfAccount(a, S))]
  <2>1. {} \in SUBSET Items /\ {} \cap S = {} /\ {} \cup S = S
    OBVIOUS
  <2> QED BY <1>6, <2>1
<1>8. from \in 1..to => LedgerOf(B, S) = [a \in Accounts |-> TotalsOf(OfAccount(a, W))]
  <2> SUFFICES ASSUME from \in 1..to PROVE LedgerOf(B, S) = [a \in Accounts |-> TotalsOf(OfAccount(a, W))]
    OBVIOUS
  <2>1. \A a \in Accounts : LedgerTotals(LedgerRows(OfAccount(a, B), OfAccount(a, S))) = TotalsOf(OfAccount(a, W))
    BY <1>5, <1>6
  <2> QED BY <2>1
<1> QED BY <1>2, <1>3, <1>4, <1>7, <1>8

LEMMA SignTwice == \A j : \A n \in Int : Sign(j) * n \in Int /\ Sign(j) * (Sign(j) * n) = n
  BY DEF Sign

LEMMA TaxesAre ==
  ASSUME ReportsInv, NEW S \in SUBSET Items
  PROVE  TaxReport(S).tax = Abs(Total([j \in Journals |-> Sign(j) * JournalTaxes(S, j).tax]))
<1> DEFINE T == TaxLines(S)
           F == [j \in Journals |-> Sign(j) * JournalTaxes(S, j).tax]
           G == [j \in Journals |-> Over(BalanceIn, OfJournal(j, T))]
<1>1. T \in SUBSET Items /\ \A j \in Journals : OfJournal(j, T) \in SUBSET Items
  BY DEF TaxLines, OfJournal
<1>2. Total(G) = Over(BalanceIn, T)
  BY <1>1, AmountsAre, JournalSums
<1>3. ASSUME NEW j \in Journals PROVE F[j] = G[j]
  <2>1. TaxLines(OfJournal(j, S)) = OfJournal(j, T)
    BY DEF TaxLines, OfJournal
  <2>2. JournalTaxes(S, j).tax = Sign(j) * Balances(OfJournal(j, T))
    BY <2>1 DEF JournalTaxes
  <2>3. Balances(OfJournal(j, T)) = Over(BalanceIn, OfJournal(j, T)) /\ Balances(OfJournal(j, T)) \in Int
    BY <1>1, TotalsAre
  <2>4. Sign(j) * (Sign(j) * Balances(OfJournal(j, T))) = Balances(OfJournal(j, T))
    BY <2>3, SignTwice
  <2> QED BY <2>2, <2>3, <2>4
<1>4. F = G
  BY <1>3
<1> HIDE DEF F, G, T
<1>5. TaxReport(S).tax = Abs(Balances(T))
  BY DEF TaxReport, T
<1>6. TaxReport(S).tax = Abs(Total(F))
  BY <1>1, <1>2, <1>4, <1>5, TotalsAre
<1> QED BY <1>6 DEF F

LEMMA DebitsAgree ==
  ASSUME ReportsInv, NEW S \in SUBSET Items
  PROVE  Total([j \in Journals |-> JournalSum(S, j).debit]) = Total([a \in Accounts |-> TotalsOf(OfAccount(a, S)).debit])
<1>1. \A j \in Journals : JournalSum(S, j).debit = Over(DebitIn, OfJournal(j, S))
  <2> SUFFICES ASSUME NEW j \in Journals PROVE JournalSum(S, j).debit = Over(DebitIn, OfJournal(j, S))
    OBVIOUS
  <2>1. OfJournal(j, S) \in SUBSET Items
    BY DEF OfJournal
  <2>2. Debits(OfJournal(j, S)) = Over(DebitIn, OfJournal(j, S))
    BY <2>1, TotalsAre
  <2> QED BY <2>2 DEF JournalSum, TotalsOf
<1>2. \A a \in Accounts : TotalsOf(OfAccount(a, S)).debit = Over(DebitIn, OfAccount(a, S))
  <2> SUFFICES ASSUME NEW a \in Accounts PROVE TotalsOf(OfAccount(a, S)).debit = Over(DebitIn, OfAccount(a, S))
    OBVIOUS
  <2>1. OfAccount(a, S) \in SUBSET Items
    BY DEF OfAccount
  <2>2. Debits(OfAccount(a, S)) = Over(DebitIn, OfAccount(a, S))
    BY <2>1, TotalsAre
  <2> QED BY <2>2 DEF TotalsOf
<1>3. /\ [j \in Journals |-> JournalSum(S, j).debit] = [j \in Journals |-> Over(DebitIn, OfJournal(j, S))]
      /\ [a \in Accounts |-> TotalsOf(OfAccount(a, S)).debit] = [a \in Accounts |-> Over(DebitIn, OfAccount(a, S))]
  BY <1>1, <1>2
<1>4. DebitIn \in [Items -> Int]
  BY AmountsAre
<1>5. /\ Total([j \in Journals |-> Over(DebitIn, OfJournal(j, S))]) = Over(DebitIn, S)
      /\ Total([a \in Accounts |-> Over(DebitIn, OfAccount(a, S))]) = Over(DebitIn, S)
  BY <1>4, JournalSums, AccountSums
<1> QED BY <1>3, <1>5

LEMMA JournalBalances ==
  ASSUME ReportsInv, NEW S, Whole(S), NEW j \in Journals
  PROVE  JournalSum(S, j).balance = 0
<1>1. Whole(OfJournal(j, S))
  BY DEF Whole, OfJournal
<1>2. Balances(OfJournal(j, S)) = 0 /\ OfJournal(j, S) \in SUBSET Items
  BY <1>1, WholeBalances DEF Whole
<1>3. TotalsOf(OfJournal(j, S)).balance = 0
  BY <1>2, TotalsType
<1> QED BY <1>3 DEF JournalSum

LEMMA InvLedgersAgree == ReportsInv => LedgersAgree
<1> SUFFICES ASSUME ReportsInv, NEW to \in Dates, NEW target \in Targets, NEW from \in 1..to \cup {NoDate}
             PROVE  LET form == Form(from, to, target)
                        trial == TrialBalance(form)
                        S == Query(form)
                        sums == [j \in Journals |-> JournalSum(S, j)]
                    IN /\ GeneralLedger(form, FALSE) = trial
                       /\ form.from # NoDate =>
                               GeneralLedger(form, TRUE) = TrialBalance([form EXCEPT !.from = NoDate])
                       /\ \A j \in Journals : sums[j].balance = 0
                       /\ Total([j \in Journals |-> sums[j].debit]) = Total([a \in Accounts |-> trial[a].debit])
                       /\ TaxReport(S).tax = Abs(Total([j \in Journals |-> Sign(j) * JournalTaxes(S, j).tax]))
  BY Zenon DEF LedgersAgree
<1> DEFINE form == Form(from, to, target)
           trial == TrialBalance(form)
           S == Query(form)
           sums == [j \in Journals |-> JournalSum(S, j)]
<1>1. S \in SUBSET Items /\ Whole(S)
  BY QueryItems, QueriesWhole
<1>2. GeneralLedger(form, FALSE) = trial
  BY LedgerIs
<1>3. form.from # NoDate => GeneralLedger(form, TRUE) = TrialBalance([form EXCEPT !.from = NoDate])
  <2> SUFFICES ASSUME form.from # NoDate
               PROVE  GeneralLedger(form, TRUE) = TrialBalance([form EXCEPT !.from = NoDate])
    OBVIOUS
  <2>1. form.from = from /\ [form EXCEPT !.from = NoDate] = Form(NoDate, to, target)
    BY FormFrom
  <2>2. from \in 1..to
    BY <2>1
  <2> HIDE DEF form
  <2>3. GeneralLedger(form, TRUE) = TrialBalance(Form(NoDate, to, target))
    BY <2>2, LedgerIs DEF form
  <2> QED BY <2>1, <2>3
<1>4. \A j \in Journals : sums[j].balance = 0
  BY <1>1, JournalBalances
<1>5. Total([j \in Journals |-> sums[j].debit]) = Total([a \in Accounts |-> trial[a].debit])
  <2>1. [j \in Journals |-> sums[j].debit] = [j \in Journals |-> JournalSum(S, j).debit]
    OBVIOUS
  <2>2. [a \in Accounts |-> trial[a].debit] = [a \in Accounts |-> TotalsOf(OfAccount(a, S)).debit]
    BY DEF TrialBalance
  <2> HIDE DEF S, sums, trial
  <2> QED BY <1>1, <2>1, <2>2, DebitsAgree
<1>6. TaxReport(S).tax = Abs(Total([j \in Journals |-> Sign(j) * JournalTaxes(S, j).tax]))
  <2> HIDE DEF S
  <2> QED BY <1>1, TaxesAre
<1> QED BY <1>2, <1>3, <1>4, <1>5, <1>6, Zenon

\* The general ledger ends with what the trial balance has, with the initial
\* balances and without; journals and taxes add up to what the accounts and the tax
\* report do, whatever the entries, their dates and their states.
THEOREM LedgersAgreeHolds == ReportsSpec => []LedgersAgree
  BY ReportsInvHolds, InvLedgersAgree, PTL

-----------------------------------------------------------------------------
(* Financial statements: the values of the nodes. *)

Nodes == DOMAIN Sheet

LEMMA NodeIs ==
  /\ Len(Sheet) \in Nat /\ Nodes = 1..Len(Sheet) /\ IsFiniteSet(Nodes) /\ 1 \in Nodes /\ Nodes \in SUBSET Int
  /\ \A n \in Nodes :
        /\ Sheet[n].type \in {"accounts", "account_type", "account_report", "sum"}
        /\ NodeAccounts(Sheet[n]) \in SUBSET Accounts
        /\ Sheet[n].type = "account_report" => Sheet[n].report \in Nodes /\ Sheet[n].report > n
        /\ Sheet[n].type = "sum" => Sheet[n].children \in SUBSET Nodes /\ \A c \in Sheet[n].children : c > n
<1> DEFINE NodeRecord == [type : {"accounts", "account_type", "account_report", "sum"},
                          accounts : SUBSET Accounts, types : SUBSET STRING, report : Nat, children : SUBSET Nat]
<1>1. Sheet # <<>> /\ Sheet \in Seq(NodeRecord)
  BY SheetAssumption
<1>2. Len(Sheet) \in Nat /\ Nodes = 1..Len(Sheet) /\ \A n \in Nodes : Sheet[n] \in NodeRecord
  <2> HIDE DEF NodeRecord
  <2> QED BY <1>1 DEF Nodes
<1>3. Len(Sheet) # 0
  BY <1>1
<1>4. IsFiniteSet(Nodes)
  BY <1>2, FS_Interval
<1>5. ASSUME NEW n \in Nodes
      PROVE  /\ Sheet[n].type \in {"accounts", "account_type", "account_report", "sum"}
             /\ NodeAccounts(Sheet[n]) \in SUBSET Accounts
  BY <1>2 DEF NodeAccounts
<1>6. ASSUME NEW n \in Nodes, Sheet[n].type = "account_report"
      PROVE  Sheet[n].report \in Nodes /\ Sheet[n].report > n
  <2>1. Sheet[n].report \in (n + 1)..Len(Sheet)
    BY <1>6, SheetAssumption DEF Nodes
  <2> QED BY <1>2, <2>1
<1>7. ASSUME NEW n \in Nodes, Sheet[n].type = "sum"
      PROVE  Sheet[n].children \in SUBSET Nodes /\ \A c \in Sheet[n].children : c > n
  <2>1. Sheet[n].children \subseteq (n + 1)..Len(Sheet)
    BY <1>7, SheetAssumption DEF Nodes
  <2> QED BY <1>2, <2>1
<1>8. 1 \in Nodes /\ Nodes \in SUBSET Int
  BY <1>2, <1>3
<1> QED BY <1>2, <1>4, <1>5, <1>6, <1>7, <1>8

OwnType == {"accounts", "account_type"}

LEMMA NodeValueIs ==
  ASSUME NEW n \in Nodes, NEW v, NEW own
  PROVE  /\ Sheet[n].type \in OwnType => NodeValue(n, v, own) = own[n]
         /\ Sheet[n].type = "account_report" => NodeValue(n, v, own) = v[Sheet[n].report]
         /\ Sheet[n].type = "sum" => NodeValue(n, v, own) = Over(v, Sheet[n].children)
         /\ Sheet[n].type \in OwnType \/ Sheet[n].type = "account_report" \/ Sheet[n].type = "sum"
<1>1. Sheet[n].type \in {"accounts", "account_type", "account_report", "sum"}
  BY NodeIs
<1>2. Total([c \in Sheet[n].children |-> v[c]]) = Over(v, Sheet[n].children)
  BY DEF Over, Part
<1> QED BY <1>1, <1>2 DEF NodeValue, OwnType

\* The value of a node depends on the later nodes only.
LEMMA NodeSame ==
  ASSUME NEW n \in Nodes, NEW v, NEW w, NEW own, \A m \in Nodes : m > n => v[m] = w[m]
  PROVE  NodeValue(n, v, own) = NodeValue(n, w, own)
<1>1. CASE Sheet[n].type \in OwnType
  BY <1>1, NodeValueIs
<1>2. CASE Sheet[n].type = "account_report"
  BY <1>2, NodeValueIs, NodeIs
<1>3. CASE Sheet[n].type = "sum"
  <2>1. \A c \in Sheet[n].children : v[c] = w[c]
    BY <1>3, NodeIs
  <2>2. Over(v, Sheet[n].children) = Over(w, Sheet[n].children)
    BY <2>1, OverSame
  <2> QED BY <1>3, <2>2, NodeValueIs
<1> QED BY <1>1, <1>2, <1>3, NodeValueIs

LEMMA NodeInduction ==
  ASSUME NEW Q, \A n \in Nodes : (\A m \in Nodes : m > n => m \in Q) => n \in Q
  PROVE  \A n \in Nodes : n \in Q
<1> DEFINE Gaps == {n \in Nodes : n \notin Q}
<1> SUFFICES ASSUME Gaps # {} PROVE FALSE
  OBVIOUS
<1>1. Gaps \in SUBSET Int /\ Gaps \in SUBSET Nodes
  BY NodeIs
<1>2. IsFiniteSet(Gaps)
  BY <1>1, NodeIs, FS_Subset
<1>3. PICK n \in Gaps : \A y \in Gaps : n >= y
  BY <1>1, <1>2, LargestNumber
<1>4. \A m \in Nodes : m > n => m \notin Gaps
  BY <1>1, <1>3, NodeIs
<1> QED BY <1>3, <1>4

\* A value for each node there is, from the last up.
LEMMA ValuesExist ==
  ASSUME NEW own
  PROVE  \E v : v = [n \in Nodes |-> NodeValue(n, v, own)]
<1> DEFINE L == Len(Sheet)
           Fits(v, k) == /\ v = [n \in Nodes |-> v[n]]
                         /\ \A n \in Nodes : n > L - k => v[n] = NodeValue(n, v, own)
           Q == {k \in Nat : \E v : Fits(v, k)}
<1>0. L \in Nat /\ Nodes = 1..L
  BY NodeIs
<1>1. 0 \in Q
  <2> DEFINE v == [n \in Nodes |-> 0]
  <2>1. Fits(v, 0)
    BY <1>0
  <2> QED BY <2>1
<1>2. ASSUME NEW k \in Nat, k \in Q PROVE k + 1 \in Q
  <2>1. PICK v : Fits(v, k)
    BY <1>2
  <2> DEFINE i == L - k
             w == [n \in Nodes |-> IF n = i THEN NodeValue(i, v, own) ELSE v[n]]
  <2>2. \A n \in Nodes : n # i => w[n] = v[n]
    OBVIOUS
  <2>3. ASSUME NEW n \in Nodes, n > L - (k + 1) PROVE w[n] = NodeValue(n, w, own)
    <3>1. n >= i /\ \A m \in Nodes : m > n => m # i
      BY <1>0, <2>3
    <3>2. \A m \in Nodes : m > n => w[m] = v[m]
      BY <2>2, <3>1
    <3>3. NodeValue(n, w, own) = NodeValue(n, v, own)
      BY <3>2, NodeSame
    <3>4. CASE n = i
      BY <3>3, <3>4
    <3>5. CASE n # i
      <4>1. n > L - k
        BY <1>0, <3>1, <3>5
      <4>2. v[n] = NodeValue(n, v, own)
        BY <2>1, <4>1
      <4> QED BY <2>2, <3>3, <3>5, <4>2
    <3> QED BY <3>4, <3>5
  <2>4. w = [n \in Nodes |-> w[n]]
    OBVIOUS
  <2> HIDE DEF w
  <2>5. Fits(w, k + 1)
    BY <2>3, <2>4
  <2> QED BY <2>5
<1> HIDE DEF Q
<1>3. L \in Q
  BY <1>0, <1>1, <1>2, NumberInduction
<1>4. PICK v : Fits(v, L)
  BY <1>3 DEF Q
<1>5. \A n \in Nodes : n > L - L
  BY <1>0
<1>6. v = [n \in Nodes |-> v[n]] /\ \A n \in Nodes : v[n] = NodeValue(n, v, own)
  BY <1>4, <1>5
<1>7. v = [n \in Nodes |-> NodeValue(n, v, own)]
  BY <1>6
<1> QED BY <1>7

LEMMA RolledUpIs ==
  ASSUME NEW own
  PROVE  /\ RolledUp(own) = [n \in Nodes |-> RolledUp(own)[n]]
         /\ \A n \in Nodes : RolledUp(own)[n] = NodeValue(n, RolledUp(own), own)
<1> DEFINE r == CHOOSE v : v = [n \in Nodes |-> NodeValue(n, v, own)]
<1>1. RolledUp(own) = r
  BY Zenon DEF RolledUp, Nodes
<1>2. r = [n \in Nodes |-> NodeValue(n, r, own)]
  BY ValuesExist
<1> HIDE DEF r
<1>3. DOMAIN r = Nodes /\ \A n \in Nodes : r[n] = NodeValue(n, r, own)
  BY <1>2
<1>4. r = [n \in Nodes |-> r[n]]
  BY <1>2, <1>3
<1> QED BY <1>1, <1>3, <1>4

LEMMA RolledUpType ==
  ASSUME NEW own \in [Nodes -> Int]
  PROVE  RolledUp(own) \in [Nodes -> Int]
<1> DEFINE v == RolledUp(own)
           Q == {n \in Nodes : v[n] \in Int}
<1>1. v = [n \in Nodes |-> v[n]] /\ \A n \in Nodes : v[n] = NodeValue(n, v, own)
  BY RolledUpIs
<1> HIDE DEF v
<1>2. ASSUME NEW n \in Nodes, \A m \in Nodes : m > n => m \in Q PROVE n \in Q
  <2>0. \A m \in Nodes : m > n => v[m] \in Int
    BY <1>2
  <2>1. CASE Sheet[n].type \in OwnType
    <3>1. v[n] = own[n] /\ own[n] \in Int
      BY <1>1, <2>1, NodeValueIs
    <3> QED BY <3>1
  <2>2. CASE Sheet[n].type = "account_report"
    <3>1. v[n] = v[Sheet[n].report]
      BY <1>1, <2>2, NodeValueIs
    <3>2. Sheet[n].report \in Nodes /\ Sheet[n].report > n
      BY <2>2, NodeIs
    <3> QED BY <2>0, <3>1, <3>2
  <2>3. CASE Sheet[n].type = "sum"
    <3> DEFINE C == Sheet[n].children
    <3>0. C \in SUBSET Nodes /\ \A c \in C : c > n
      BY <2>3, NodeIs
    <3>1. v[n] = Over(v, C) /\ \A c \in C : v[c] \in Int
      BY <1>1, <2>0, <2>3, <3>0, NodeValueIs
    <3> HIDE DEF C
    <3>2. Part(v, C) \in [C -> Int] /\ IsFiniteSet(C)
      BY <3>0, <3>1, NodeIs, FS_Subset DEF Part
    <3>3. Over(v, C) \in Int
      BY <3>2, SumType DEF Over
    <3> QED BY <3>1, <3>3
  <2> QED BY <2>1, <2>2, <2>3, NodeValueIs
<1> HIDE DEF Q
<1>3. \A n \in Nodes : n \in Q
  BY <1>2, NodeInduction
<1>4. \A n \in Nodes : v[n] \in Int
  BY <1>3 DEF Q
<1> QED BY <1>1, <1>4 DEF v

\* The sum of the values W[a] of a node, each times bal[a].
Products(A, bal, W, n) == [a \in A |-> bal[a] * W[a][n]]
Weighted(A, bal, W, n) == Over(Products(A, bal, W, n), A)

LEMMA ProductsType ==
  ASSUME NEW A, IsFiniteSet(A), NEW bal \in [A -> Int], NEW W \in [A -> [Nodes -> Int]], NEW n \in Nodes
  PROVE  Products(A, bal, W, n) \in [A -> Int] /\ Weighted(A, bal, W, n) \in Int
<1>1. ASSUME NEW a \in A PROVE bal[a] * W[a][n] \in Int
  <2>1. bal[a] \in Int /\ W[a] \in [Nodes -> Int]
    OBVIOUS
  <2>2. W[a][n] \in Int
    BY <2>1
  <2> QED BY <2>1, <2>2, Distributes
<1>2. Products(A, bal, W, n) \in [A -> Int]
  BY <1>1 DEF Products
<1>3. A \in SUBSET A
  OBVIOUS
<1> QED BY <1>2, <1>3, OverType DEF Weighted

\* The values of nodes are those of the accounts, and those of a node the sums of others.
OfAccounts(v, C, A, bal, W) == \A c \in C : v[c] = Weighted(A, bal, W, c)
SumsOf(W, A, C, n) == \A a \in A : W[a][n] = Over(W[a], C)

\* Sums over nodes and over accounts are taken in either order.
LEMMA SumOfWeighted ==
  ASSUME NEW A, IsFiniteSet(A), NEW bal \in [A -> Int], NEW W \in [A -> [Nodes -> Int]], NEW C \in SUBSET Nodes,
         NEW v, OfAccounts(v, C, A, bal, W), NEW n \in Nodes, SumsOf(W, A, C, n)
  PROVE  Over(v, C) = Weighted(A, bal, W, n)
<1> DEFINE F == [a \in A |-> [c \in C |-> bal[a] * W[a][c]]]
           R == RowSums(F, A, C)
           L == ColumnSums(F, A, C, A)
           P == Products(A, bal, W, n)
<1>1. IsFiniteSet(C) /\ IsFiniteSet(Nodes) /\ \A a \in A : bal[a] \in Int /\ W[a] \in [Nodes -> Int]
  BY NodeIs, FS_Subset
<1>2. ASSUME NEW a \in A, NEW c \in C PROVE bal[a] * W[a][c] \in Int /\ F[a][c] = bal[a] * W[a][c]
  <2>1. bal[a] \in Int /\ W[a][c] \in Int
    BY <1>1
  <2> QED BY <2>1, Distributes
<1>3. \A a \in A : F[a] \in [C -> Int]
  BY <1>2
<1>4. F \in [A -> [C -> Int]]
  BY <1>3
<1>5. \A a \in A : DOMAIN F[a] = C
  OBVIOUS
<1> HIDE DEF F
<1>6. Over(R, A) = Over(L, C) /\ R \in [A -> Int] /\ L \in [C -> Int]
  BY <1>1, <1>4, OverSwap
<1>7. ASSUME NEW c \in C PROVE L[c] = v[c]
  <2>1. L[c] = Over(Column(F, A, c), A)
    BY DEF ColumnSums
  <2>2. Column(F, A, c) = Products(A, bal, W, c)
    BY <1>2 DEF Column, Products
  <2> QED BY <2>1, <2>2 DEF Weighted, OfAccounts
<1>8. ASSUME NEW a \in A PROVE R[a] = P[a]
  <2>1. R[a] = Over(F[a], C)
    BY DEF RowSums
  <2> DEFINE k == bal[a]
             V == Part(W[a], C)
             U == F[a]
  <2>2. V \in [C -> Int] /\ U \in [C -> Int] /\ k \in Int
    BY <1>1, <1>3 DEF Part
  <2>3. \A c \in C : U[c] = k * V[c]
    BY <1>2 DEF Part
  <2>4. Over(V, C) = Over(W[a], C)
    BY OverSame DEF Part
  <2>5. P[a] = k * W[a][n]
    BY DEF Products
  <2>6. W[a][n] = Over(W[a], C)
    BY DEF SumsOf
  <2> HIDE DEF V, U, k, P, R
  <2>7. Multiplies(k, U, V, C) /\ C \in SUBSET C
    BY <2>3 DEF Multiplies
  <2>8. Over(U, C) = k * Over(V, C)
    BY <1>1, <2>2, <2>7, OverScaled
  <2>9. P[a] = k * Over(V, C)
    BY <2>4, <2>5, <2>6
  <2> QED BY <2>1, <2>8, <2>9 DEF U
<1> HIDE DEF R, L, P
<1>9. Over(R, A) = Over(P, A)
  BY <1>8, OverSame
<1>10. Over(L, C) = Over(v, C)
  BY <1>7, OverSame
<1> QED BY <1>6, <1>9, <1>10 DEF Weighted, P

Follows(own, A, bal, M) == \A n \in Nodes : own[n] = Weighted(A, bal, M, n)
RolledUpEach(A, M) == [a \in A |-> RolledUp(M[a])]

\* What the nodes come to is what they come to with each account alone, times its
\* balance.
LEMMA RolledUpLinear ==
  ASSUME NEW A, IsFiniteSet(A), NEW bal \in [A -> Int], NEW M \in [A -> [Nodes -> Int]],
         NEW own, Follows(own, A, bal, M)
  PROVE  Follows(RolledUp(own), A, bal, RolledUpEach(A, M))
<1> DEFINE W == RolledUpEach(A, M)
           v == RolledUp(own)
           Q == {n \in Nodes : v[n] = Weighted(A, bal, W, n)}
<1>1. \A a \in A : M[a] \in [Nodes -> Int]
  OBVIOUS
<1>2. W \in [A -> [Nodes -> Int]]
  BY <1>1, RolledUpType DEF RolledUpEach
<1>3. \A n \in Nodes : v[n] = NodeValue(n, v, own)
  BY RolledUpIs
<1>4. \A a \in A : \A n \in Nodes : W[a][n] = NodeValue(n, W[a], M[a])
  BY <1>1, RolledUpIs DEF RolledUpEach
<1>5. \A n \in Nodes : own[n] = Weighted(A, bal, M, n)
  BY DEF Follows
<1> HIDE DEF W, v
<1>6. ASSUME NEW n \in Nodes, \A m \in Nodes : m > n => m \in Q PROVE n \in Q
  <2>0. \A m \in Nodes : m > n => v[m] = Weighted(A, bal, W, m)
    BY <1>6
  <2>1. CASE Sheet[n].type \in OwnType
    <3>1. v[n] = own[n]
      BY <1>3, <2>1, NodeValueIs
    <3>2. \A a \in A : W[a][n] = M[a][n]
      BY <1>4, <2>1, NodeValueIs
    <3>3. Products(A, bal, W, n) = Products(A, bal, M, n)
      BY <3>2 DEF Products
    <3>4. v[n] = Weighted(A, bal, W, n)
      BY <1>5, <3>1, <3>3 DEF Weighted
    <3> QED BY <3>4
  <2>2. CASE Sheet[n].type = "account_report"
    <3> DEFINE r == Sheet[n].report
    <3>1. r \in Nodes /\ r > n
      BY <2>2, NodeIs
    <3>2. v[n] = v[r] /\ \A a \in A : W[a][n] = W[a][r]
      BY <1>3, <1>4, <2>2, NodeValueIs
    <3> HIDE DEF r
    <3>3. Products(A, bal, W, n) = Products(A, bal, W, r)
      BY <3>2 DEF Products
    <3>4. v[n] = Weighted(A, bal, W, n)
      BY <2>0, <3>1, <3>2, <3>3 DEF Weighted
    <3> QED BY <3>4
  <2>3. CASE Sheet[n].type = "sum"
    <3> DEFINE C == Sheet[n].children
    <3>1. C \in SUBSET Nodes /\ \A c \in C : c > n
      BY <2>3, NodeIs
    <3>2. v[n] = Over(v, C)
      BY <1>3, <2>3, NodeValueIs
    <3>3. SumsOf(W, A, C, n)
      BY <1>4, <2>3, NodeValueIs DEF SumsOf
    <3> HIDE DEF C, Q
    <3>4. OfAccounts(v, C, A, bal, W)
      BY <2>0, <3>1 DEF OfAccounts
    <3>5. Over(v, C) = Weighted(A, bal, W, n)
      BY <1>2, <3>1, <3>3, <3>4, SumOfWeighted
    <3> QED BY <3>2, <3>5 DEF Q
  <2> QED BY <2>1, <2>2, <2>3, NodeValueIs
<1> HIDE DEF Q
<1>7. \A n \in Nodes : n \in Q
  BY <1>6, NodeInduction
<1> QED BY <1>7 DEF Follows, Q, v, W

-----------------------------------------------------------------------------
(* Statements balance. *)

\* The nodes that an account is in.
Membership == [a \in Accounts |-> [n \in Nodes |-> IF a \in NodeAccounts(Sheet[n]) THEN 1 ELSE 0]]

BalanceOf(S) == [a \in Accounts |-> Over(BalanceIn, OfAccount(a, S))]

\* What a node has of its own.
OwnOf(S) == [n \in Nodes |-> Over(BalanceOf(S), NodeAccounts(Sheet[n]))]

LEMMA OwnIs ==
  ASSUME NEW bal \in [Accounts -> Int], NEW n \in Nodes
  PROVE  Over(bal, NodeAccounts(Sheet[n])) = Weighted(Accounts, bal, Membership, n)
<1> DEFINE T == NodeAccounts(Sheet[n])
           P == Products(Accounts, bal, Membership, n)
<1>1. T \in SUBSET Accounts /\ IsFiniteSet(Accounts)
  BY NodeIs, ReportsAssumption
<1>2. Membership \in [Accounts -> [Nodes -> Int]]
  BY DEF Membership
<1>3. P \in [Accounts -> Int]
  BY <1>1, <1>2, ProductsType
<1>4. \A a \in Accounts : P[a] = bal[a] * (IF a \in T THEN 1 ELSE 0) /\ bal[a] \in Int
  BY DEF Products, Membership
<1>5. \A a \in T : P[a] = bal[a]
  BY <1>1, <1>4
<1>6. \A a \in Accounts \ T : P[a] = 0
  BY <1>4
<1> HIDE DEF T, P
<1>7. Over(P, Accounts) = Over(P, T)
  <2>1. Accounts \in SUBSET Accounts
    OBVIOUS
  <2> QED BY <1>1, <1>3, <1>6, <2>1, OverWhere
<1>8. Over(P, T) = Over(bal, T)
  BY <1>5, OverSame
<1> QED BY <1>7, <1>8 DEF Weighted, P, T

\* A statement that has each account once has the balance of all items.
LEMMA StatementIs ==
  ASSUME ReportsInv, NEW S \in SUBSET Items
  PROVE  RolledUp(OwnOf(S))[1] = Balances(S)
<1> DEFINE bal == BalanceOf(S)
           own == OwnOf(S)
           W == RolledUpEach(Accounts, Membership)
<1>1. IsFiniteSet(Accounts) /\ 1 \in Nodes
  BY ReportsAssumption, NodeIs
<1>2. bal \in [Accounts -> Int] /\ Over(bal, Accounts) = Balances(S)
  <2>1. bal \in [Accounts -> Int] /\ Total(bal) = Over(BalanceIn, S)
    BY AmountsAre, AccountSums DEF BalanceOf
  <2>2. Total(bal) = Over(bal, Accounts)
    BY <2>1, TotalOver
  <2> QED BY <2>1, <2>2, TotalsAre
<1>3. \A n \in Nodes : own[n] = Over(bal, NodeAccounts(Sheet[n]))
  BY DEF OwnOf
<1>4. Membership \in [Accounts -> [Nodes -> Int]]
  BY DEF Membership
<1>5. \A a \in Accounts : W[a][1] = 1
  <2>1. \A a \in Accounts : RolledUp(Membership[a])[1] = 1
    BY SheetAssumption DEF Membership, Nodes
  <2> QED BY <2>1 DEF RolledUpEach
<1> HIDE DEF bal, own
<1>6. Follows(own, Accounts, bal, Membership)
  BY <1>2, <1>3, OwnIs DEF Follows
<1>7. Follows(RolledUp(own), Accounts, bal, W)
  BY <1>1, <1>2, <1>4, <1>6, RolledUpLinear
<1>8. RolledUp(own)[1] = Over(Products(Accounts, bal, W, 1), Accounts)
  BY <1>1, <1>7 DEF Follows, Weighted
<1>9. \A a \in Accounts : Products(Accounts, bal, W, 1)[a] = bal[a]
  <2> SUFFICES ASSUME NEW a \in Accounts PROVE Products(Accounts, bal, W, 1)[a] = bal[a]
    OBVIOUS
  <2>1. W[a][1] = 1 /\ bal[a] \in Int
    BY <1>2, <1>5
  <2>2. Products(Accounts, bal, W, 1)[a] = bal[a] * W[a][1]
    BY DEF Products
  <2> QED BY <2>1, <2>2
<1> HIDE DEF W
<1>10. Over(Products(Accounts, bal, W, 1), Accounts) = Over(bal, Accounts)
  BY <1>9, OverSame
<1> QED BY <1>2, <1>8, <1>10 DEF own

LEMMA InvSheetBalances == ReportsInv => SheetBalances
<1> SUFFICES ASSUME ReportsInv, NEW to, NEW target, NEW from
             PROVE  ReportBalance(Form(from, to, target))[1] = 0
  BY DEF SheetBalances
<1> DEFINE form == Form(from, to, target)
           S == Query(form)
           trial == TrialBalance(form)
           own == [n \in DOMAIN Sheet |-> Total([a \in NodeAccounts(Sheet[n]) |-> trial[a].balance])]
<1>1. S \in SUBSET Items /\ Whole(S)
  BY QueryItems, QueriesWhole
<1>2. \A a \in Accounts : trial[a].balance = BalanceOf(S)[a]
  <2> SUFFICES ASSUME NEW a \in Accounts PROVE trial[a].balance = BalanceOf(S)[a]
    OBVIOUS
  <2>1. OfAccount(a, S) \in SUBSET Items
    BY <1>1 DEF OfAccount
  <2>2. TotalsOf(OfAccount(a, S)).balance = Over(BalanceIn, OfAccount(a, S))
    BY <2>1, TotalsType, TotalsAre
  <2>3. trial[a] = TotalsOf(OfAccount(a, S))
    BY DEF TrialBalance
  <2> QED BY <2>2, <2>3 DEF BalanceOf
<1>3. ReportBalance(form) = RolledUp(own)
  BY Zenon DEF ReportBalance
<1> HIDE DEF S, trial, form
<1>4. ASSUME NEW n \in Nodes PROVE own[n] = OwnOf(S)[n]
  <2> DEFINE T == NodeAccounts(Sheet[n])
  <2>1. T \in SUBSET Accounts
    BY NodeIs
  <2> HIDE DEF T
  <2>2. [a \in T |-> trial[a].balance] = Part(BalanceOf(S), T)
    BY <1>2, <2>1 DEF Part
  <2>3. own[n] = Total([a \in T |-> trial[a].balance])
    BY DEF Nodes, T
  <2>4. OwnOf(S)[n] = Over(BalanceOf(S), T)
    BY DEF OwnOf, T
  <2> QED BY <2>2, <2>3, <2>4 DEF Over
<1>5. own = OwnOf(S)
  BY <1>4 DEF OwnOf, Nodes
<1> HIDE DEF own
<1>6. RolledUp(OwnOf(S))[1] = 0
  BY <1>1, StatementIs, WholeBalances
<1> QED BY <1>3, <1>5, <1>6 DEF form

\* The statement comes to nothing in every period and for both targets: each account
\* is counted once, whatever its nodes are and however they refer to each other.
THEOREM SheetBalancesHolds == ReportsSpec => []SheetBalances
  BY ReportsInvHolds, InvSheetBalances, PTL

-----------------------------------------------------------------------------
(* The groups of the trial balance. *)

LEMMA KeyIs ==
  ASSUME ReportsInv, NEW l \in Items
  PROVE  /\ KeyOf(l)[1] = AccountOf(l) /\ KeyOf(l)[2] = DateOf(l) /\ KeyOf(l) = <<AccountOf(l), DateOf(l)>>
         /\ AccountOf(l) \in Accounts /\ AccountOf(l) \in Int /\ DateOf(l) \in Int
<1>1. AccountOf(l) \in Accounts /\ DateOf(l) \in Dates
  BY AccountIn
<1>2. Accounts \subseteq Int /\ Dates \subseteq Int
  BY ReportsAssumption DEF Dates
<1> DEFINE a == AccountOf(l)
           d == DateOf(l)
<1>3. a \in Accounts /\ a \in Int /\ d \in Int
  BY <1>1, <1>2
<1>4. KeyOf(l) = <<a, d>>
  BY DEF KeyOf
<1> HIDE DEF a, d
<1> QED BY <1>3, <1>4 DEF a, d

Keys(S) == {KeyOf(l) : l \in S}

LEMMA KeysRanked ==
  ASSUME ReportsInv, NEW S \in SUBSET Items
  PROVE  Ranked(Keys(S), KeysUpTo(Keys(S)))
<1> DEFINE K == Keys(S)
           R == KeysUpTo(K)
           f == [l \in S |-> KeyOf(l)]
           Upto(h, k) == h[1] < k[1] \/ (h[1] = k[1] /\ h[2] <= k[2])
<1>1. IsFiniteSet(K)
  <2>1. f \in Surjection(S, K)
    BY DEF Surjection, Keys
  <2> QED BY <2>1, TotalsAre, FS_Surjection
<1>2. \A k \in K : k[1] \in Int /\ k[2] \in Int /\ k = <<k[1], k[2]>>
  <2>1. \A l \in S : KeyOf(l)[1] \in Int /\ KeyOf(l)[2] \in Int /\ KeyOf(l) = <<KeyOf(l)[1], KeyOf(l)[2]>>
    BY KeyIs
  <2> QED BY <2>1 DEF Keys
<1>3. \A k \in K : R[k] = {h \in K : Upto(h, k)}
  BY DEF KeysUpTo
<1> HIDE DEF K, R
<1>4. \A x, y, z \in K : Upto(x, y) /\ Upto(y, z) => Upto(x, z)
  BY <1>2
<1>5. \A x, y \in K : Upto(x, y) \/ Upto(y, x)
  BY <1>2
<1>6. \A x, y \in K : Upto(x, y) /\ Upto(y, x) => x = y
  <2> SUFFICES ASSUME NEW x \in K, NEW y \in K, Upto(x, y), Upto(y, x) PROVE x = y
    OBVIOUS
  <2>1. x[1] = y[1] /\ x[2] = y[2]
    BY <1>2
  <2> QED BY <1>2, <2>1
<1> HIDE DEF Upto
<1>7. \A x \in K : R[x] \in SUBSET K /\ x \in R[x]
  BY <1>3, <1>5
<1>8. ASSUME NEW x \in K, NEW y \in K, x # y
      PROVE  R[x] # R[y] /\ (R[x] \subseteq R[y] \/ R[y] \subseteq R[x])
  <2>1. R[x] = {l \in K : Upto(l, x)} /\ R[y] = {l \in K : Upto(l, y)}
    BY <1>3
  <2>2. R[x] # R[y]
    <3> SUFFICES ASSUME R[x] = R[y] PROVE FALSE
      OBVIOUS
    <3>1. Upto(x, y) /\ Upto(y, x)
      BY <1>7, <2>1
    <3> QED BY <1>6, <1>8, <3>1
  <2>3. Upto(x, y) => R[x] \subseteq R[y]
    <3>1. Upto(x, y) => \A l \in K : Upto(l, x) => Upto(l, y)
      BY <1>4
    <3> QED BY <2>1, <3>1
  <2>4. Upto(y, x) => R[y] \subseteq R[x]
    <3>1. Upto(y, x) => \A l \in K : Upto(l, y) => Upto(l, x)
      BY <1>4
    <3> QED BY <2>1, <3>1
  <2> QED BY <1>5, <2>2, <2>3, <2>4
<1>9. Ranked(K, R)
  BY <1>1, <1>7, <1>8 DEF Ranked
<1> QED BY <1>9 DEF K, R

\* The groups of some items, by a list of their keys.
ItemsAt(S, keys, i) == {l \in S : KeyOf(l) = keys[i]}
GroupedBy(list, keys, S) ==
    /\ Len(list) \in Nat /\ DOMAIN list = 1..Len(list)
    /\ keys \in Bijection(1..Len(list), Keys(S))
    /\ \A i \in 1..Len(list) : list[i].code = keys[i][1] /\ list[i].sum = TotalsOf(ItemsAt(S, keys, i))
    /\ \A i, j \in 1..Len(list) : i <= j => keys[i] \in KeysUpTo(Keys(S))[keys[j]]

LEMMA GroupsAre ==
  ASSUME ReportsInv, NEW S \in SUBSET Items
  PROVE  \E keys : GroupedBy(GroupsOf(S), keys, S)
<1> DEFINE K == Keys(S)
           R == KeysUpTo(K)
           keys == Arranged(K, R)
           N == Cardinality(K)
           list == GroupsOf(S)
<1>1. Ranked(K, R)
  BY KeysRanked
<1>2. list = [n \in DOMAIN keys |-> [code |-> keys[n][1], sum |-> TotalsOf(ItemsAt(S, keys, n))]]
  BY Zenon DEF GroupsOf, ItemsAt, Keys
<1> HIDE DEF K, R, list
<1>3. N \in Nat /\ keys \in Bijection(1..N, K) /\ keys \in Seq(K) /\ Len(keys) = N
  BY <1>1, ArrangedIs
<1>4. \A i, j \in 1..N : i <= j => keys[i] \in R[keys[j]]
  BY <1>1, ArrangedSorted
<1> HIDE DEF keys, N
<1>5. DOMAIN keys = 1..N
  BY <1>3
<1>6. DOMAIN list = 1..N /\ Len(list) = N
  BY <1>2, <1>3, <1>5
<1>7. \A i \in 1..N : list[i].code = keys[i][1] /\ list[i].sum = TotalsOf(ItemsAt(S, keys, i))
  BY <1>2, <1>5
<1>8. GroupedBy(list, keys, S)
  BY <1>3, <1>4, <1>6, <1>7 DEF GroupedBy, K, R
<1> QED BY <1>8 DEF list

\* The groups of an account.
PlacesOf(list, a) == {i \in DOMAIN list : list[i].code = a}

AccountGroup(S, a) == [debit |-> Debits(OfAccount(a, S)), credit |-> Credits(OfAccount(a, S))]

GroupsFit(list, S) ==
    /\ Len(list) \in Nat /\ DOMAIN list = 1..Len(list)
    /\ \A i \in DOMAIN list : /\ list[i].code \in Int /\ list[i].sum.debit \in Int /\ list[i].sum.credit \in Int
                              /\ \E l \in S : AccountOf(l) = list[i].code
    /\ \A i, j \in DOMAIN list : i <= j => list[i].code <= list[j].code
    /\ \A a \in Accounts : SumOf(list, PlacesOf(list, a)) = AccountGroup(S, a)

\* A sum by the groups of an account.
LEMMA OverPlaces ==
  ASSUME ReportsInv, NEW S \in SUBSET Items, NEW list, NEW keys, GroupedBy(list, keys, S), NEW a \in Accounts,
         NEW V \in [Items -> Int]
  PROVE  Total([i \in PlacesOf(list, a) |-> Over(V, ItemsAt(S, keys, i))]) = Over(V, OfAccount(a, S))
<1> DEFINE N == Len(list)
           J == PlacesOf(list, a)
           T == OfAccount(a, S)
           k == [l \in T |-> CHOOSE i \in 1..N : keys[i] = KeyOf(l)]
<1>1. /\ N \in Nat /\ DOMAIN list = 1..N /\ \A i \in 1..N : list[i].code = keys[i][1]
  BY DEF GroupedBy
<1>2. /\ \A i, j \in 1..N : keys[i] = keys[j] => i = j
      /\ \A x \in Keys(S) : \E i \in 1..N : keys[i] = x
  <2>1. keys \in Injection(1..N, Keys(S)) /\ keys \in Surjection(1..N, Keys(S))
    BY DEF GroupedBy, Bijection
  <2> QED BY <2>1 DEF Injection, Surjection, IsInjective
<1>3. T \in SUBSET Items /\ \A l \in T : KeyOf(l) \in Keys(S) /\ KeyOf(l)[1] = a /\ l \in S
  BY KeyIs DEF OfAccount, Keys
<1> HIDE DEF N
<1>4. \A l \in T : k[l] \in 1..N /\ keys[k[l]] = KeyOf(l)
  BY <1>2, <1>3
<1>5. \A l \in T : k[l] \in J
  BY <1>1, <1>3, <1>4 DEF PlacesOf
<1>6. IsFiniteSet(J)
  <2>1. J \in SUBSET (1..N)
    BY <1>1 DEF PlacesOf
  <2> HIDE DEF J
  <2>2. IsFiniteSet(1..N)
    BY <1>1, FS_Interval
  <2> QED BY <2>1, <2>2, FS_Subset
<1>7. ASSUME NEW i \in J PROVE Fiber(k, T, i) = ItemsAt(S, keys, i)
  <2>1. i \in 1..N /\ keys[i][1] = a
    BY <1>1 DEF PlacesOf
  <2>2. \A l \in T : k[l] = i <=> KeyOf(l) = keys[i]
    BY <1>2, <1>4, <2>1
  <2>3. \A l \in S : KeyOf(l) = keys[i] => l \in T
    BY <2>1, KeyIs DEF OfAccount
  <2> HIDE DEF k, T
  <2> QED BY <1>3, <2>2, <2>3 DEF Fiber, ItemsAt
<1> HIDE DEF k, T, J
<1>8. Classes(V, T, k, J) = [i \in J |-> Over(V, ItemsAt(S, keys, i))]
  BY <1>7 DEF Classes
<1>9. IsFiniteSet(Items)
  BY AmountsAre
<1>10. Total(Classes(V, T, k, J)) = Over(V, T)
  BY <1>3, <1>5, <1>6, <1>9, OverClasses
<1> QED BY <1>8, <1>10 DEF T, J

LEMMA GroupsFitItems ==
  ASSUME ReportsInv, NEW S \in SUBSET Items
  PROVE  GroupsFit(GroupsOf(S), S)
<1> DEFINE list == GroupsOf(S)
<1>1. PICK keys : GroupedBy(list, keys, S)
  BY GroupsAre
<1> HIDE DEF list
<1>2. /\ Len(list) \in Nat /\ DOMAIN list = 1..Len(list)
      /\ \A i \in 1..Len(list) : list[i].code = keys[i][1] /\ list[i].sum = TotalsOf(ItemsAt(S, keys, i))
      /\ \A i \in 1..Len(list) : keys[i] \in Keys(S)
      /\ \A i, j \in 1..Len(list) : i <= j => keys[i] \in KeysUpTo(Keys(S))[keys[j]]
  <2>1. keys \in [1..Len(list) -> Keys(S)]
    BY <1>1 DEF GroupedBy, Bijection, Injection
  <2> QED BY <1>1, <2>1 DEF GroupedBy
<1>3. \A i : ItemsAt(S, keys, i) \in SUBSET Items
  BY DEF ItemsAt
<1>4. ASSUME NEW i \in DOMAIN list
      PROVE  /\ list[i].code \in Int /\ list[i].sum.debit \in Int /\ list[i].sum.credit \in Int
             /\ \E l \in S : AccountOf(l) = list[i].code
             /\ list[i].sum.debit = Over(DebitIn, ItemsAt(S, keys, i))
             /\ list[i].sum.credit = Over(CreditIn, ItemsAt(S, keys, i))
  <2>1. keys[i] \in Keys(S) /\ list[i].code = keys[i][1] /\ list[i].sum = TotalsOf(ItemsAt(S, keys, i))
    BY <1>2
  <2>2. PICK l \in S : keys[i] = KeyOf(l)
    BY <2>1 DEF Keys
  <2>3. list[i].code = AccountOf(l) /\ AccountOf(l) \in Int
    BY <2>1, <2>2, KeyIs
  <2> DEFINE X == ItemsAt(S, keys, i)
  <2>4. X \in SUBSET Items /\ list[i].sum = TotalsOf(X)
    BY <1>3, <2>1
  <2> HIDE DEF X
  <2>5. TotalsOf(X).debit = Debits(X) /\ TotalsOf(X).credit = Credits(X)
    BY DEF TotalsOf
  <2>6. Debits(X) = Over(DebitIn, X) /\ Credits(X) = Over(CreditIn, X) /\ Debits(X) \in Int /\ Credits(X) \in Int
    BY <2>4, TotalsAre
  <2> QED BY <2>3, <2>4, <2>5, <2>6 DEF X
<1>5. ASSUME NEW i \in DOMAIN list, NEW j \in DOMAIN list, i <= j PROVE list[i].code <= list[j].code
  <2>1. keys[i] \in KeysUpTo(Keys(S))[keys[j]] /\ keys[j] \in Keys(S)
    BY <1>2, <1>5
  <2>2. keys[i][1] < keys[j][1] \/ keys[i][1] = keys[j][1]
    BY <2>1 DEF KeysUpTo
  <2>3. list[i].code < list[j].code \/ list[i].code = list[j].code
    BY <1>2, <2>2
  <2>4. list[i].code \in Int /\ list[j].code \in Int
    BY <1>4
  <2> QED BY <2>3, <2>4
<1>6. ASSUME NEW a \in Accounts PROVE SumOf(list, PlacesOf(list, a)) = AccountGroup(S, a)
  <2> DEFINE I == PlacesOf(list, a)
             X == OfAccount(a, S)
  <2>1. I \subseteq DOMAIN list
    BY DEF PlacesOf
  <2>2. X \in SUBSET Items
    BY DEF OfAccount
  <2>3. /\ Total([i \in I |-> Over(DebitIn, ItemsAt(S, keys, i))]) = Over(DebitIn, X)
        /\ Total([i \in I |-> Over(CreditIn, ItemsAt(S, keys, i))]) = Over(CreditIn, X)
    BY <1>1, AmountsAre, OverPlaces
  <2> HIDE DEF I, X
  <2>4. /\ [i \in I |-> list[i].sum.debit] = [i \in I |-> Over(DebitIn, ItemsAt(S, keys, i))]
        /\ [i \in I |-> list[i].sum.credit] = [i \in I |-> Over(CreditIn, ItemsAt(S, keys, i))]
    BY <1>4, <2>1
  <2>5. SumOf(list, I) = [debit |-> Over(DebitIn, X), credit |-> Over(CreditIn, X)]
    BY <2>3, <2>4 DEF SumOf
  <2>6. Debits(X) = Over(DebitIn, X) /\ Credits(X) = Over(CreditIn, X)
    BY <2>2, TotalsAre
  <2> QED BY <2>5, <2>6 DEF AccountGroup, I, X
<1>7. GroupsFit(list, S)
  BY <1>2, <1>4, <1>5, <1>6 DEF GroupsFit
<1> QED BY <1>7 DEF list

-----------------------------------------------------------------------------
(* The walk of the trial balance, with its cursors. *)

\* A set of numbers with all smaller ones.
LEMMA DownClosed ==
  ASSUME NEW N \in Nat, NEW D \in SUBSET (1..N), \A i \in D : \A j \in 1..N : j <= i => j \in D
  PROVE  IsFiniteSet(D) /\ Cardinality(D) \in Nat /\ D = 1..Cardinality(D)
<1>1. IsFiniteSet(D)
  <2>1. IsFiniteSet(1..N)
    BY FS_Interval
  <2> QED BY <2>1, FS_Subset
<1>2. Cardinality(D) \in Nat
  BY <1>1, FS_CardinalityType
<1>3. CASE D = {}
  <2>1. Cardinality(D) = 0
    BY <1>3, FS_EmptySet
  <2> QED BY <1>1, <1>3, <2>1
<1>4. CASE D # {}
  <2>1. D \in SUBSET Int
    OBVIOUS
  <2>2. PICK m \in D : \A y \in D : m >= y
    BY <1>1, <1>4, <2>1, LargestNumber
  <2>3. m \in Nat /\ m >= 1 /\ m <= N
    OBVIOUS
  <2>4. D = 1..m
    <3>1. \A y \in D : y \in 1..m
      BY <2>2, <2>3
    <3>2. \A y \in 1..m : y \in 1..N /\ y <= m
      BY <2>3
    <3>3. \A y \in 1..m : y \in D
      BY <2>2, <3>2
    <3> QED BY <3>1, <3>3
  <2>5. Cardinality(1..m) = m
    BY <2>3, FS_Interval
  <2> QED BY <1>1, <2>3, <2>4, <2>5
<1> QED BY <1>1, <1>2, <1>3, <1>4

\* A list of codes that rise.
Rising(codes) ==
    /\ Len(codes) \in Nat /\ DOMAIN codes = 1..Len(codes)
    /\ \A i \in 1..Len(codes) : codes[i] \in Int
    /\ \A i, j \in 1..Len(codes) : i < j => codes[i] < codes[j]

\* The groups in a list of which the codes have been passed.
Passed(list, codes, n) == {i \in DOMAIN list : \E k \in 1..n : list[i].code = codes[k]}

\* A list of groups in the order of codes that are among the codes.
Merges(list, codes) ==
    /\ Rising(codes)
    /\ Len(list) \in Nat /\ DOMAIN list = 1..Len(list)
    /\ \A i \in DOMAIN list : list[i].code \in Int /\ \E k \in 1..Len(codes) : list[i].code = codes[k]
    /\ \A i, j \in DOMAIN list : i <= j => list[i].code <= list[j].code

\* The cursor is after the groups that were passed.
CursorAt(cursor, list, codes, n) == cursor \in Nat \ {0} /\ Passed(list, codes, n) = 1..(cursor - 1)

LEMMA PassedAre ==
  ASSUME NEW list, NEW codes, Merges(list, codes), NEW n \in Nat, n <= Len(codes)
  PROVE  /\ IsFiniteSet(Passed(list, codes, n)) /\ Cardinality(Passed(list, codes, n)) \in Nat
         /\ Passed(list, codes, n) = 1..Cardinality(Passed(list, codes, n))
<1> DEFINE D == Passed(list, codes, n)
           N == Len(list)
<1>1. /\ N \in Nat /\ DOMAIN list = 1..N /\ D \in SUBSET (1..N)
      /\ \A i, j \in 1..N : i <= j => list[i].code <= list[j].code
      /\ \A i \in 1..N : list[i].code \in Int /\ \E k \in 1..Len(codes) : list[i].code = codes[k]
  BY DEF Merges, Passed
<1>2. /\ \A i \in 1..Len(codes) : codes[i] \in Int
      /\ \A i, j \in 1..Len(codes) : i < j => codes[i] < codes[j]
      /\ Len(codes) \in Nat
  BY DEF Merges, Rising
<1>3. ASSUME NEW i \in D, NEW j \in 1..N, j <= i PROVE j \in D
  <2>1. PICK k \in 1..n : list[i].code = codes[k]
    BY DEF Passed
  <2>2. PICK m \in 1..Len(codes) : list[j].code = codes[m]
    BY <1>1
  <2>3. codes[m] <= codes[k]
    BY <1>1, <1>3, <2>1, <2>2
  <2>4. k \in 1..Len(codes)
    BY <1>2
  <2>5. ~(k < m)
    BY <1>2, <2>3, <2>4
  <2>6. m \in 1..n
    BY <2>5
  <2> QED BY <1>1, <2>2, <2>6 DEF Passed
<1> HIDE DEF D, N
<1>4. IsFiniteSet(D) /\ Cardinality(D) \in Nat /\ D = 1..Cardinality(D)
  BY <1>1, <1>3, DownClosed
<1> QED BY <1>4 DEF D

\* The groups at a cursor are those of the code, and the cursor goes past them.
LEMMA CursorMoves ==
  ASSUME NEW list, NEW codes, Merges(list, codes), NEW n \in Nat, n + 1 <= Len(codes),
         NEW cursor, CursorAt(cursor, list, codes, n)
  PROVE  /\ AtCursor(list, cursor, codes[n + 1]) = PlacesOf(list, codes[n + 1])
         /\ CursorAt(cursor + Cardinality(AtCursor(list, cursor, codes[n + 1])), list, codes, n + 1)
<1> DEFINE D == Passed(list, codes, n)
           E == Passed(list, codes, n + 1)
           N == Len(list)
           L == Len(codes)
           a == codes[n + 1]
           P == PlacesOf(list, a)
<1>1. /\ N \in Nat /\ DOMAIN list = 1..N
      /\ \A i, j \in 1..N : i <= j => list[i].code <= list[j].code
      /\ \A i \in 1..N : list[i].code \in Int /\ \E k \in 1..L : list[i].code = codes[k]
  BY DEF Merges
<1>2. /\ L \in Nat /\ \A i \in 1..L : codes[i] \in Int
      /\ \A i, j \in 1..L : i < j => codes[i] < codes[j]
  BY DEF Merges, Rising
<1>3. cursor \in Nat /\ cursor >= 1 /\ D = 1..(cursor - 1)
  BY DEF CursorAt
<1>4. n + 1 \in 1..L /\ a \in Int /\ \A k \in 1..n : k \in 1..L /\ codes[k] < a
  BY <1>2
<1>5. P = {i \in 1..N : list[i].code = a}
  BY <1>1 DEF PlacesOf
<1>6. \A i \in 1..N : i \in D <=> \E k \in 1..n : list[i].code = codes[k]
  BY <1>1 DEF Passed
<1>7. \A i \in 1..N : i \in E <=> \E k \in 1..(n + 1) : list[i].code = codes[k]
  BY <1>1 DEF Passed
<1>8. D \subseteq 1..N /\ E \subseteq 1..N
  BY <1>1 DEF Passed
<1> HIDE DEF D, E, N, L, a, P
<1>9. E = D \cup P /\ D \cap P = {}
  <2>1. \A k \in 1..(n + 1) : k = n + 1 \/ k \in 1..n
    OBVIOUS
  <2>2. 1..n \subseteq 1..(n + 1) /\ n + 1 \in 1..(n + 1)
    OBVIOUS
  <2>3. \A i \in 1..N : i \in E <=> i \in D \/ list[i].code = a
    BY <1>6, <1>7, <2>1, <2>2 DEF a
  <2>4. \A i \in 1..N : list[i].code = a => i \notin D
    <3> SUFFICES ASSUME NEW i \in 1..N, list[i].code = a, i \in D PROVE FALSE
      OBVIOUS
    <3>1. PICK k \in 1..n : list[i].code = codes[k]
      BY <1>6
    <3>2. codes[k] < a /\ codes[k] = a
      BY <1>4, <3>1
    <3> QED BY <1>4, <3>2
  <2> QED BY <1>5, <1>8, <2>3, <2>4
<1>10. AtCursor(list, cursor, a) = P
  <2>1. ASSUME NEW i \in cursor..N, \A k \in cursor..i : list[k].code = a PROVE i \in P
    <3>1. i \in cursor..i /\ i \in 1..N
      BY <1>1, <1>3
    <3> QED BY <1>5, <2>1, <3>1
  <2>2. ASSUME NEW i \in P PROVE i \in cursor..N /\ \A k \in cursor..i : list[k].code = a
    <3>1. i \in 1..N /\ list[i].code = a /\ i \notin D
      BY <1>5, <1>9
    <3>2. i \in cursor..N
      BY <1>1, <1>3, <3>1
    <3>3. ASSUME NEW k \in cursor..i PROVE list[k].code = a
      <4>1. k \in 1..N /\ k <= i /\ k \notin D
        BY <1>1, <1>3, <3>2
      <4>2. list[k].code <= a /\ list[k].code \in Int
        BY <1>1, <3>1, <4>1
      <4>3. PICK m \in 1..L : list[k].code = codes[m]
        BY <1>1, <4>1
      <4>4. m \notin 1..n
        BY <1>6, <4>1, <4>3
      <4>5. m = n + 1 \/ m > n + 1
        BY <1>2, <4>4
      <4>6. m > n + 1 => codes[m] > a
        BY <1>2, <1>4 DEF a
      <4> QED BY <1>4, <4>2, <4>3, <4>5, <4>6 DEF a
    <3> QED BY <3>2, <3>3
  <2>3. AtCursor(list, cursor, a) = {i \in cursor..N : \A k \in cursor..i : list[k].code = a}
    BY DEF AtCursor, N
  <2>4. \A i \in P : i \in cursor..N
    BY <2>2
  <2> QED BY <2>1, <2>2, <2>3
<1>11. /\ IsFiniteSet(E) /\ Cardinality(E) \in Nat /\ E = 1..Cardinality(E)
  BY <1>2, <1>4, PassedAre DEF E, L
<1>12. Cardinality(E) = (cursor - 1) + Cardinality(P)
  <2>1. IsFiniteSet(D) /\ IsFiniteSet(P)
    BY <1>9, <1>11, FS_Subset
  <2>2. Cardinality(D) = cursor - 1
    <3> DEFINE c == cursor - 1
    <3>1. c \in Int /\ c >= 0 /\ D = 1..c
      BY <1>3
    <3> HIDE DEF c
    <3>2. Cardinality(1..c) = c
      BY <3>1, FS_Interval
    <3> QED BY <3>1, <3>2 DEF c
  <2>3. Cardinality(D \cap P) = 0
    BY <1>9, FS_EmptySet
  <2>4. Cardinality(P) \in Nat
    BY <2>1, FS_CardinalityType
  <2>5. Cardinality(D \cup P) = Cardinality(D) + Cardinality(P) - Cardinality(D \cap P)
    BY <2>1, FS_Union
  <2> QED BY <1>3, <1>9, <2>2, <2>3, <2>4, <2>5
<1>13. CursorAt(cursor + Cardinality(P), list, codes, n + 1)
  <2>1. Cardinality(P) \in Nat
    <3>1. IsFiniteSet(P)
      BY <1>9, <1>11, FS_Subset
    <3> QED BY <3>1, FS_CardinalityType
  <2>2. cursor + Cardinality(P) \in Nat \ {0} /\ (cursor + Cardinality(P)) - 1 = Cardinality(E)
    BY <1>3, <1>12, <2>1
  <2> QED BY <1>11, <2>2 DEF CursorAt, E
<1> QED BY <1>10, <1>13 DEF P, a

LEMMA CursorStarts ==
  ASSUME NEW list, NEW codes
  PROVE  CursorAt(1, list, codes, 0)
  BY DEF CursorAt, Passed

ItemAccounts == {AccountOf(l) : l \in Items}
Codes == Arranged(ItemAccounts, [a \in ItemAccounts |-> {b \in ItemAccounts : b <= a}])

LEMMA CodesAre ==
  ASSUME ReportsInv
  PROVE  /\ Rising(Codes) /\ Codes \in Bijection(1..Len(Codes), ItemAccounts)
         /\ ItemAccounts \in SUBSET Accounts
         /\ \A i \in 1..Len(Codes) : Codes[i] \in ItemAccounts
         /\ \A a \in ItemAccounts : \E i \in 1..Len(Codes) : Codes[i] = a
<1> DEFINE A == ItemAccounts
           R == [a \in A |-> {b \in A : b <= a}]
           N == Cardinality(A)
<1>1. A \in SUBSET Accounts /\ A \subseteq Int
  <2>1. A \in SUBSET Accounts
    BY AccountIn DEF ItemAccounts
  <2>2. Accounts \subseteq Int
    BY ReportsAssumption
  <2> QED BY <2>1, <2>2
<1>2. IsFiniteSet(A)
  BY <1>1, ReportsAssumption, FS_Subset
<1> HIDE DEF A
<1>3. Ranked(A, R)
  <2>1. \A x \in A : R[x] \in SUBSET A /\ x \in R[x]
    BY <1>1
  <2>2. ASSUME NEW x \in A, NEW y \in A, x # y
        PROVE  R[x] # R[y] /\ (R[x] \subseteq R[y] \/ R[y] \subseteq R[x])
    <3>1. x \in Int /\ y \in Int /\ R[x] = {b \in A : b <= x} /\ R[y] = {b \in A : b <= y}
      BY <1>1
    <3> HIDE DEF R
    <3>2. x < y => y \notin R[x] /\ y \in R[y]
      BY <3>1
    <3>3. x < y => R[x] \subseteq R[y]
      <4>1. x < y => \A b \in A : b <= x => b <= y
        BY <1>1, <3>1
      <4> QED BY <3>1, <4>1
    <3>4. y < x => x \notin R[y] /\ x \in R[x]
      BY <3>1
    <3>5. y < x => R[y] \subseteq R[x]
      <4>1. y < x => \A b \in A : b <= y => b <= x
        BY <1>1, <3>1
      <4> QED BY <3>1, <4>1
    <3>6. x < y \/ y < x
      BY <2>2, <3>1
    <3> QED BY <3>2, <3>3, <3>4, <3>5, <3>6
  <2> HIDE DEF R
  <2> QED BY <1>2, <2>1, <2>2 DEF Ranked
<1>4. \A x, y \in A : x \in R[y] => x <= y
  OBVIOUS
<1> HIDE DEF R
<1>5. Codes = Arranged(A, R)
  BY DEF Codes, A, R
<1>6. N \in Nat /\ Codes \in Bijection(1..N, A) /\ Codes \in Seq(A) /\ Len(Codes) = N
  BY <1>3, <1>5, ArrangedIs
<1>7. \A i, j \in 1..N : i <= j => Codes[i] \in R[Codes[j]]
  BY <1>3, <1>5, ArrangedSorted
<1> HIDE DEF N, Codes
<1>8. /\ \A i \in 1..N : Codes[i] \in A
      /\ \A i, j \in 1..N : Codes[i] = Codes[j] => i = j
      /\ \A a \in A : \E i \in 1..N : Codes[i] = a
  <2>1. Codes \in Injection(1..N, A) /\ Codes \in Surjection(1..N, A)
    BY <1>6 DEF Bijection
  <2> QED BY <2>1 DEF Injection, Surjection, IsInjective
<1>9. ASSUME NEW i \in 1..N, NEW j \in 1..N, i < j PROVE Codes[i] < Codes[j]
  <2>0. i <= j /\ i # j
    BY <1>6, <1>9
  <2>1. Codes[i] \in A /\ Codes[j] \in A /\ Codes[i] # Codes[j]
    BY <1>8, <2>0
  <2>2. Codes[i] <= Codes[j]
    BY <1>4, <1>7, <2>0, <2>1
  <2>3. Codes[i] \in Int /\ Codes[j] \in Int
    BY <1>1, <2>1
  <2> QED BY <2>1, <2>2, <2>3
<1>10. Rising(Codes)
  <2>1. DOMAIN Codes = 1..N
    BY <1>6
  <2>2. \A i \in 1..N : Codes[i] \in Int
    BY <1>1, <1>8
  <2> QED BY <1>6, <1>9, <2>1, <2>2 DEF Rising
<1> QED BY <1>1, <1>6, <1>8, <1>10 DEF A

LEMMA GroupsMerge ==
  ASSUME ReportsInv, NEW S \in SUBSET Items, NEW list, GroupsFit(list, S)
  PROVE  Merges(list, Codes)
<1>1. ASSUME NEW i \in DOMAIN list PROVE \E k \in 1..Len(Codes) : list[i].code = Codes[k]
  <2>1. PICK l \in S : AccountOf(l) = list[i].code
    BY DEF GroupsFit
  <2>2. AccountOf(l) \in ItemAccounts
    BY DEF ItemAccounts
  <2> QED BY <2>1, <2>2, CodesAre
<1> QED BY <1>1, CodesAre DEF Merges, GroupsFit

-----------------------------------------------------------------------------
(* The states of the walk. *)

MergedRow == [code : Int, initD : Int, initC : Int, filterD : Int, filterC : Int, totalD : Int, totalC : Int]
WalkState == [init : Nat \ {0}, filter : Nat \ {0}, rows : Seq(MergedRow)]
AmountPair == [debit : Int, credit : Int]

LEMMA CursorType ==
  ASSUME NEW S, NEW list, GroupsFit(list, S), NEW cursor \in Nat \ {0}, NEW a
  PROVE  /\ cursor + Cardinality(AtCursor(list, cursor, a)) \in Nat \ {0}
         /\ SumOf(list, AtCursor(list, cursor, a)) \in AmountPair
<1> DEFINE I == AtCursor(list, cursor, a)
           N == Len(list)
<1>1. N \in Nat /\ DOMAIN list = 1..N /\ \A i \in 1..N : list[i].sum.debit \in Int /\ list[i].sum.credit \in Int
  BY DEF GroupsFit
<1>2. I \in SUBSET (1..N)
  BY <1>1 DEF AtCursor
<1> HIDE DEF I, N
<1>3. IsFiniteSet(I)
  <2>1. IsFiniteSet(1..N)
    BY <1>1, FS_Interval
  <2> QED BY <1>2, <2>1, FS_Subset
<1>4. Cardinality(I) \in Nat
  BY <1>3, FS_CardinalityType
<1> DEFINE F == [i \in I |-> list[i].sum.debit]
           G == [i \in I |-> list[i].sum.credit]
<1>5. F \in [I -> Int] /\ G \in [I -> Int]
  BY <1>1, <1>2
<1>6. SumOf(list, I) = [debit |-> Total(F), credit |-> Total(G)]
  BY DEF SumOf
<1> HIDE DEF F, G
<1>7. Total(F) \in Int /\ Total(G) \in Int
  BY <1>3, <1>5, SumType
<1>8. SumOf(list, I) \in AmountPair
  BY <1>6, <1>7 DEF AmountPair
<1>9. cursor + Cardinality(I) \in Nat \ {0}
  BY <1>4
<1> QED BY <1>8, <1>9 DEF I

LEMMA RowType ==
  ASSUME NEW a \in Int, NEW init \in AmountPair, NEW filter \in AmountPair
  PROVE  Row(a, init, filter) \in MergedRow
<1> DEFINE net == init.debit + filter.debit - init.credit - filter.credit
<1>1. init.debit \in Int /\ init.credit \in Int /\ filter.debit \in Int /\ filter.credit \in Int
  BY DEF AmountPair
<1>2. net \in Int
  BY <1>1
<1> HIDE DEF net
<1>3. Positive(net) \in Int /\ Positive(-net) \in Int
  BY <1>2 DEF Positive
<1>4. Row(a, init, filter) = [code |-> a, initD |-> init.debit, initC |-> init.credit,
                              filterD |-> filter.debit, filterC |-> filter.credit,
                              totalD |-> Positive(net), totalC |-> Positive(-net)]
  BY DEF Row, net
<1> QED BY <1>1, <1>3, <1>4 DEF MergedRow

LEMMA MergedType ==
  ASSUME NEW B, NEW before, GroupsFit(before, B), NEW D, NEW during, GroupsFit(during, D),
         NEW acc \in WalkState, NEW a \in Int
  PROVE  Merged(before, during, acc, a) \in WalkState
<1> DEFINE i == acc.init + Cardinality(AtCursor(before, acc.init, a))
           f == acc.filter + Cardinality(AtCursor(during, acc.filter, a))
           r == Row(a, SumOf(before, AtCursor(before, acc.init, a)), SumOf(during, AtCursor(during, acc.filter, a)))
<1>1. acc.init \in Nat \ {0} /\ acc.filter \in Nat \ {0} /\ acc.rows \in Seq(MergedRow)
  BY DEF WalkState
<1>2. i \in Nat \ {0} /\ f \in Nat \ {0} /\ r \in MergedRow
  BY <1>1, CursorType, RowType
<1>3. Merged(before, during, acc, a) = [init |-> i, filter |-> f, rows |-> Append(acc.rows, r)]
  BY DEF Merged
<1> HIDE DEF i, f, r
<1>4. Append(acc.rows, r) \in Seq(MergedRow)
  BY <1>1, <1>2
<1> QED BY <1>2, <1>3, <1>4 DEF WalkState

WalkStart == [init |-> 1, filter |-> 1, rows |-> <<>>]
WalkOf(before, during) ==
    CHOOSE walk : walk = [n \in 0..Len(Codes) |->
                             IF n = 0 THEN WalkStart ELSE Merged(before, during, walk[n - 1], Codes[n])]
WalkStep(before, during) ==
    [p \in (1..Len(Codes)) \X WalkState |-> Merged(before, during, p[2], Codes[p[1]])]

LEMMA WalkRows ==
  ASSUME NEW before, NEW during
  PROVE  Walk(before, during) = WalkOf(before, during)[Len(Codes)].rows
<1>1. Walk(before, during) =
        LET walk[n \in 0..Len(Codes)] ==
              IF n = 0 THEN [init |-> 1, filter |-> 1, rows |-> <<>>]
              ELSE Merged(before, during, walk[n - 1], Codes[n])
        IN walk[Len(Codes)].rows
  BY Zenon DEF Walk, Codes, ItemAccounts
<1> QED BY <1>1, Zenon DEF WalkOf, WalkStart

LEMMA WalkAt ==
  ASSUME ReportsInv, NEW B, NEW before, GroupsFit(before, B), NEW D, NEW during, GroupsFit(during, D)
  PROVE  /\ WalkOf(before, during)[0] = WalkStart
         /\ \A n \in 1..Len(Codes) :
               WalkOf(before, during)[n] = Merged(before, during, WalkOf(before, during)[n - 1], Codes[n])
<1> DEFINE N == Len(Codes)
           step == WalkStep(before, during)
           X == WalkState
           start == WalkStart
           walk == WalkOf(before, during)
<1>1. N \in Nat /\ \A n \in 1..N : Codes[n] \in Int
  BY CodesAre DEF Rising
<1>2. start \in X
  BY DEF WalkStart, WalkState
<1>3. ASSUME NEW p \in (1..N) \X X PROVE step[p] \in X
  <2>1. p[2] \in X /\ Codes[p[1]] \in Int
    BY <1>1
  <2>2. Merged(before, during, p[2], Codes[p[1]]) \in X
    BY <2>1, MergedType
  <2> QED BY <2>2 DEF WalkStep
<1>4. step \in [(1..N) \X X -> X]
  BY <1>3 DEF WalkStep
<1>5. \A n \in 1..N, x \in X : step[<<n, x>>] = Merged(before, during, x, Codes[n])
  BY DEF WalkStep
<1> HIDE DEF step, N, X, start
<1>6. PICK f : Recurs(f, N, start, step) /\ f \in [0..N -> X]
  BY <1>1, <1>2, <1>4, Recursion
<1>7. f = [n \in 0..N |-> IF n = 0 THEN start ELSE Merged(before, during, f[n - 1], Codes[n])]
  <2>1. f = [n \in 0..N |-> IF n = 0 THEN start ELSE step[<<n, f[n - 1]>>]]
    BY <1>6 DEF Recurs
  <2>2. \A n \in 0..N : n # 0 => n \in 1..N /\ n - 1 \in 0..N
    BY <1>1
  <2>3. \A n \in 0..N : n # 0 => step[<<n, f[n - 1]>>] = Merged(before, during, f[n - 1], Codes[n])
    BY <1>5, <1>6, <2>2
  <2>4. \A n \in 0..N : f[n] = IF n = 0 THEN start ELSE Merged(before, during, f[n - 1], Codes[n])
    BY <2>1, <2>3
  <2>5. f = [n \in 0..N |-> f[n]]
    BY <2>1
  <2> QED BY <2>4, <2>5
<1>8. walk = [n \in 0..N |-> IF n = 0 THEN start ELSE Merged(before, during, walk[n - 1], Codes[n])]
  BY <1>7 DEF WalkOf, N, start
<1> HIDE DEF walk
<1>9. 0 \in 0..N /\ \A n \in 1..N : n \in 0..N /\ n # 0
  BY <1>1
<1>10. walk[0] = start /\ \A n \in 1..N : walk[n] = Merged(before, during, walk[n - 1], Codes[n])
  BY <1>8, <1>9
<1> QED BY <1>10 DEF walk, N, start

\* The row of an account.
RowFor(B, D, a) == Row(a, AccountGroup(B, a), AccountGroup(D, a))

Walked(acc, before, B, during, D, n) ==
    /\ acc \in WalkState
    /\ CursorAt(acc.init, before, Codes, n) /\ CursorAt(acc.filter, during, Codes, n)
    /\ Len(acc.rows) = n /\ \A i \in 1..n : acc.rows[i] = RowFor(B, D, Codes[i])

LEMMA WalkSteps ==
  ASSUME ReportsInv, NEW B \in SUBSET Items, NEW before, GroupsFit(before, B),
         NEW D \in SUBSET Items, NEW during, GroupsFit(during, D),
         NEW n \in Nat, n + 1 <= Len(Codes), NEW acc, Walked(acc, before, B, during, D, n)
  PROVE  Walked(Merged(before, during, acc, Codes[n + 1]), before, B, during, D, n + 1)
<1> DEFINE a == Codes[n + 1]
           next == Merged(before, during, acc, a)
           i == acc.init + Cardinality(AtCursor(before, acc.init, a))
           f == acc.filter + Cardinality(AtCursor(during, acc.filter, a))
           r == Row(a, SumOf(before, AtCursor(before, acc.init, a)), SumOf(during, AtCursor(during, acc.filter, a)))
<1>0. n + 1 \in 1..Len(Codes)
  BY CodesAre DEF Rising
<1>1. a \in Int /\ a \in Accounts
  BY <1>0, CodesAre DEF Rising
<1>2. Merges(before, Codes) /\ Merges(during, Codes)
  BY GroupsMerge
<1>3. CursorAt(acc.init, before, Codes, n) /\ CursorAt(acc.filter, during, Codes, n) /\ acc \in WalkState
  BY DEF Walked
<1>4. /\ AtCursor(before, acc.init, a) = PlacesOf(before, a) /\ CursorAt(i, before, Codes, n + 1)
      /\ AtCursor(during, acc.filter, a) = PlacesOf(during, a) /\ CursorAt(f, during, Codes, n + 1)
  BY <1>2, <1>3, CursorMoves
<1>5. r = RowFor(B, D, a)
  <2>1. SumOf(before, PlacesOf(before, a)) = AccountGroup(B, a) /\ SumOf(during, PlacesOf(during, a)) = AccountGroup(D, a)
    BY <1>1 DEF GroupsFit
  <2> QED BY <1>4, <2>1 DEF RowFor
<1>6. next = [init |-> i, filter |-> f, rows |-> Append(acc.rows, r)]
  BY DEF Merged
<1>7. next \in WalkState
  BY <1>1, <1>3, MergedType
<1>8. acc.rows \in Seq(MergedRow) /\ Len(acc.rows) = n /\ \A k \in 1..n : acc.rows[k] = RowFor(B, D, Codes[k])
  BY DEF Walked, WalkState
<1> HIDE DEF i, f, r, next, a
<1>9. next.init = i /\ next.filter = f /\ next.rows = Append(acc.rows, r)
  BY <1>6
<1> DEFINE old == acc.rows
           new == next.rows
<1>10. old \in Seq(MergedRow) /\ Len(old) = n /\ new = Append(old, r)
  BY <1>8, <1>9
<1> HIDE DEF old, new
<1>11. Len(new) = n + 1 /\ new[n + 1] = r /\ \A k \in 1..n : new[k] = old[k]
  BY <1>10
<1>12. ASSUME NEW k \in 1..(n + 1) PROVE new[k] = RowFor(B, D, Codes[k])
  <2>1. CASE k = n + 1
    BY <1>5, <1>11, <2>1 DEF a
  <2>2. CASE k \in 1..n
    BY <1>8, <1>11, <2>2 DEF old
  <2> QED BY <2>1, <2>2
<1>13. Walked(next, before, B, during, D, n + 1)
  BY <1>4, <1>7, <1>9, <1>11, <1>12 DEF Walked, new
<1> QED BY <1>13 DEF next, a

\* The rows are those of the accounts.
LEMMA WalkIs ==
  ASSUME ReportsInv, NEW B \in SUBSET Items, NEW before, GroupsFit(before, B),
         NEW D \in SUBSET Items, NEW during, GroupsFit(during, D)
  PROVE  /\ Len(Walk(before, during)) = Len(Codes) /\ DOMAIN Walk(before, during) = 1..Len(Codes)
         /\ \A i \in 1..Len(Codes) : Walk(before, during)[i] = RowFor(B, D, Codes[i])
<1> DEFINE N == Len(Codes)
           walk == WalkOf(before, during)
           Q == {n \in Nat : n <= N => Walked(walk[n], before, B, during, D, n)}
<1>1. N \in Nat
  BY CodesAre DEF Rising
<1>2. walk[0] = WalkStart /\ \A n \in 1..N : walk[n] = Merged(before, during, walk[n - 1], Codes[n])
  BY WalkAt
<1> HIDE DEF walk, N
<1>3. 0 \in Q
  <2> DEFINE s == WalkStart
  <2>1. s \in WalkState /\ s.init = 1 /\ s.filter = 1 /\ Len(s.rows) = 0
    BY DEF WalkStart, WalkState
  <2> HIDE DEF s
  <2>2. Walked(s, before, B, during, D, 0)
    BY <2>1, CursorStarts DEF Walked
  <2> QED BY <1>2, <2>2 DEF s
<1>4. ASSUME NEW n \in Nat, n \in Q PROVE n + 1 \in Q
  <2> SUFFICES ASSUME n + 1 <= N PROVE Walked(walk[n + 1], before, B, during, D, n + 1)
    OBVIOUS
  <2>1. n <= N /\ n + 1 \in 1..N /\ (n + 1) - 1 = n
    BY <1>1
  <2>2. Walked(walk[n], before, B, during, D, n)
    BY <1>4, <2>1
  <2>3. walk[n + 1] = Merged(before, during, walk[n], Codes[n + 1])
    BY <1>2, <2>1
  <2>4. n + 1 <= Len(Codes)
    BY DEF N
  <2> QED BY <2>2, <2>3, <2>4, WalkSteps
<1> HIDE DEF Q
<1>5. N \in Q
  BY <1>1, <1>3, <1>4, NumberInduction
<1>6. Walked(walk[N], before, B, during, D, N)
  BY <1>1, <1>5 DEF Q
<1>7. Walk(before, during) = walk[N].rows
  BY WalkRows DEF walk, N
<1> DEFINE rows == walk[N].rows
<1>8. rows \in Seq(MergedRow) /\ Len(rows) = N /\ \A i \in 1..N : rows[i] = RowFor(B, D, Codes[i])
  BY <1>6 DEF Walked, WalkState
<1>9. Walk(before, during) = rows
  BY <1>7
<1> HIDE DEF rows
<1>10. DOMAIN rows = 1..N
  BY <1>8
<1> QED BY <1>8, <1>9, <1>10 DEF N

-----------------------------------------------------------------------------
(* The merged trial balance agrees. *)

LEMMA PostedAre ==
  ASSUME ReportsInv, NEW to \in Dates, NEW from \in 1..to
  PROVE  /\ PostedItems(1, from - 1) = Query([Form(from, NoDate, "posted") EXCEPT !.initial = TRUE])
         /\ PostedItems(from, to) = Query(Form(from, to, "posted"))
         /\ PostedItems(1, from - 1) \in SUBSET Items /\ PostedItems(from, to) \in SUBSET Items
         /\ Whole(PostedItems(1, from - 1) \cup PostedItems(from, to))
         /\ PostedItems(1, from - 1) \cap PostedItems(from, to) = {}
<1> DEFINE f == [Form(from, NoDate, "posted") EXCEPT !.initial = TRUE]
<1>1. to \in Int /\ from \in Int /\ from <= to /\ from >= 1 /\ from # NoDate /\ to # NoDate
  BY ReportsAssumption DEF Dates
<1>2. \A l \in Items : DateOf(l) \in Int /\ DateOf(l) >= 1
  BY AccountIn DEF Dates
<1>3. f.from = from /\ f.to = NoDate /\ f.target = "posted" /\ f.initial = TRUE
  BY DEF Form
<1> HIDE DEF f
<1>4. Query(f) = {l \in Items : Shown(l, "posted") /\ DateOf(l) < from}
  BY <1>1, <1>3 DEF Query, Shown
<1>5. Query(Form(from, to, "posted")) = {l \in Items : Shown(l, "posted") /\ DateOf(l) <= to /\ DateOf(l) >= from}
  BY <1>1, QueryIs
<1>6. \A l : Shown(l, "posted") <=> State(l) = "posted"
  BY DEF Shown
<1>7. PostedItems(1, from - 1) = {l \in Items : State(l) = "posted" /\ DateOf(l) < from}
  BY <1>1, <1>2 DEF PostedItems
<1>8. PostedItems(from, to) = {l \in Items : State(l) = "posted" /\ DateOf(l) <= to /\ DateOf(l) >= from}
  BY <1>1, <1>2 DEF PostedItems
<1>9. Whole(PostedItems(1, from - 1) \cup PostedItems(from, to))
  BY <1>7, <1>8 DEF Whole, State, DateOf
<1>10. PostedItems(1, from - 1) \cap PostedItems(from, to) = {}
  BY <1>1, <1>2, <1>7, <1>8
<1> QED BY <1>4, <1>5, <1>6, <1>7, <1>8, <1>9, <1>10 DEF f

\* What an account has, of which the row shows debit or credit.
NetOf(B, D, a) == Debits(OfAccount(a, B)) + Debits(OfAccount(a, D))
                    - Credits(OfAccount(a, B)) - Credits(OfAccount(a, D))

LEMMA RowForIs ==
  ASSUME NEW B, NEW D, NEW a
  PROVE  /\ RowFor(B, D, a).code = a
         /\ RowFor(B, D, a).initD = Debits(OfAccount(a, B)) /\ RowFor(B, D, a).initC = Credits(OfAccount(a, B))
         /\ RowFor(B, D, a).filterD = Debits(OfAccount(a, D)) /\ RowFor(B, D, a).filterC = Credits(OfAccount(a, D))
         /\ RowFor(B, D, a).totalD = Positive(NetOf(B, D, a)) /\ RowFor(B, D, a).totalC = Positive(-NetOf(B, D, a))
  BY DEF RowFor, Row, AccountGroup, NetOf

LEMMA NetIs ==
  ASSUME ReportsInv, NEW B \in SUBSET Items, NEW D \in SUBSET Items, B \cap D = {}, NEW a
  PROVE  NetOf(B, D, a) = Over(BalanceIn, OfAccount(a, B \cup D)) /\ NetOf(B, D, a) \in Int
<1> DEFINE X == OfAccount(a, B)
           Y == OfAccount(a, D)
<1>1. X \in SUBSET Items /\ Y \in SUBSET Items /\ X \cap Y = {} /\ X \cup Y = OfAccount(a, B \cup D)
  BY DEF OfAccount
<1>2. NetOf(B, D, a) = Debits(X) + Debits(Y) - Credits(X) - Credits(Y)
  BY DEF NetOf
<1> HIDE DEF X, Y
<1>3. Balances(X) = Debits(X) - Credits(X) /\ Debits(X) \in Int /\ Credits(X) \in Int
  BY <1>1, TotalsAre
<1>4. Balances(Y) = Debits(Y) - Credits(Y) /\ Debits(Y) \in Int /\ Credits(Y) \in Int
  BY <1>1, TotalsAre
<1>5. Balances(X \cup Y) = Balances(X) + Balances(Y)
  BY <1>1, TotalsOfBoth
<1>6. Balances(X \cup Y) = Over(BalanceIn, X \cup Y)
  <2>1. X \cup Y \in SUBSET Items
    BY <1>1
  <2> QED BY <2>1, TotalsAre
<1>7. NetOf(B, D, a) = Balances(X \cup Y) /\ NetOf(B, D, a) \in Int
  BY <1>2, <1>3, <1>4, <1>5
<1> QED BY <1>1, <1>6, <1>7

\* What the rows of all accounts are together is nothing.
LEMMA NetsBalance ==
  ASSUME ReportsInv, NEW B \in SUBSET Items, NEW D \in SUBSET Items, B \cap D = {}, Whole(B \cup D)
  PROVE  /\ [i \in 1..Len(Codes) |-> NetOf(B, D, Codes[i])] \in [1..Len(Codes) -> Int]
         /\ Total([i \in 1..Len(Codes) |-> NetOf(B, D, Codes[i])]) = 0
<1> DEFINE N == Len(Codes)
           S == B \cup D
           bal == BalanceOf(S)
           G == [i \in 1..N |-> NetOf(B, D, Codes[i])]
           F == Part(bal, ItemAccounts)
<1>1. S \in SUBSET Items /\ Balances(S) = 0
  BY WholeBalances
<1>2. bal \in [Accounts -> Int] /\ Total(bal) = 0
  <2>1. bal \in [Accounts -> Int] /\ Total(bal) = Over(BalanceIn, S)
    BY <1>1, AmountsAre, AccountSums DEF BalanceOf
  <2> QED BY <1>1, <2>1, TotalsAre
<1>3. /\ ItemAccounts \in SUBSET Accounts /\ Codes \in Bijection(1..N, ItemAccounts)
      /\ \A i \in 1..N : Codes[i] \in ItemAccounts
  BY CodesAre
<1>4. IsFiniteSet(Accounts) /\ IsFiniteSet(ItemAccounts)
  BY <1>3, ReportsAssumption, FS_Subset
<1>5. F \in [ItemAccounts -> Int]
  BY <1>2, <1>3, <1>4, OverType
<1>6. \A i \in 1..N : G[i] = F[Codes[i]]
  <2> SUFFICES ASSUME NEW i \in 1..N PROVE G[i] = F[Codes[i]]
    OBVIOUS
  <2> DEFINE a == Codes[i]
  <2>1. a \in ItemAccounts /\ a \in Accounts
    BY <1>3
  <2> HIDE DEF a
  <2>2. F[a] = Over(BalanceIn, OfAccount(a, S))
    BY <2>1 DEF Part, BalanceOf
  <2>3. NetOf(B, D, a) = Over(BalanceIn, OfAccount(a, S))
    BY NetIs
  <2> QED BY <2>2, <2>3 DEF a
<1>7. G \in [1..N -> Int]
  BY NetIs
<1>8. \A a \in Accounts \ ItemAccounts : bal[a] = 0
  <2> SUFFICES ASSUME NEW a \in Accounts \ ItemAccounts PROVE bal[a] = 0
    OBVIOUS
  <2>1. OfAccount(a, S) = {}
    BY <1>1 DEF OfAccount, ItemAccounts
  <2> QED BY <2>1, OverNone DEF BalanceOf
<1>9. Total(bal) = Over(bal, Accounts)
  BY <1>2, TotalOver
<1> HIDE DEF bal, F, G, N
<1>10. Over(bal, Accounts) = Over(bal, ItemAccounts)
  <2>1. Accounts \in SUBSET Accounts
    OBVIOUS
  <2> QED BY <1>2, <1>3, <1>4, <1>8, <2>1, OverWhere
<1>11. Reorders(Codes, G, 1..N, F, ItemAccounts)
  BY <1>3, <1>4, <1>5, <1>6, <1>7 DEF Reorders
<1>12. Total(G) = Total(F)
  BY <1>11, SumReordered
<1> QED BY <1>2, <1>7, <1>9, <1>10, <1>12 DEF Over, F, G, N

LEMMA PositiveParts == \A n \in Int : Positive(n) \in Int /\ Positive(-n) \in Int /\ Positive(n) = n + Positive(-n)
  BY DEF Positive

\* The rows of all accounts have the same debit and credit.
LEMMA MergedTotals ==
  ASSUME ReportsInv, NEW B \in SUBSET Items, NEW D \in SUBSET Items, B \cap D = {}, Whole(B \cup D)
  PROVE  Total([i \in 1..Len(Codes) |-> Positive(NetOf(B, D, Codes[i]))])
            = Total([i \in 1..Len(Codes) |-> Positive(-NetOf(B, D, Codes[i]))])
<1> DEFINE N == Len(Codes)
           E == [i \in 1..N |-> NetOf(B, D, Codes[i])]
           P == [i \in 1..N |-> Positive(NetOf(B, D, Codes[i]))]
           M == [i \in 1..N |-> Positive(-NetOf(B, D, Codes[i]))]
<1>1. E \in [1..N -> Int] /\ Total(E) = 0
  BY NetsBalance
<1>2. \A i \in 1..N : NetOf(B, D, Codes[i]) \in Int
  BY NetIs
<1>3. P \in [1..N -> Int] /\ M \in [1..N -> Int] /\ \A i \in 1..N : P[i] = E[i] + M[i]
  BY <1>2, PositiveParts
<1>4. IsFiniteSet(1..N)
  <2>1. N \in Nat
    BY CodesAre DEF Rising
  <2> HIDE DEF N
  <2> QED BY <2>1, FS_Interval
<1> HIDE DEF N, E, P, M
<1>5. Adds(P, E, M, 1..N, 1..N)
  BY <1>1, <1>3, <1>4 DEF Adds
<1>6. Total(P) = Total(E) + Total(M)
  BY <1>5, SumAdd
<1>7. Total(M) \in Int
  BY <1>3, <1>4, SumType
<1>8. Total(P) = Total(M)
  BY <1>1, <1>6, <1>7
<1> QED BY <1>8 DEF P, M, N

LEMMA InvMergedAgrees == ReportsInv => MergedAgrees
<1> SUFFICES ASSUME ReportsInv, NEW to \in Dates, NEW from \in 1..to
             PROVE  LET rows == AccountTrialBl(from, to)
                        before == TrialBalance([Form(from, NoDate, "posted") EXCEPT !.initial = TRUE])
                        during == TrialBalance(Form(from, to, "posted"))
                    IN /\ \A i \in DOMAIN rows :
                            /\ rows[i].initD = before[rows[i].code].debit
                            /\ rows[i].initC = before[rows[i].code].credit
                            /\ rows[i].filterD = during[rows[i].code].debit
                            /\ rows[i].filterC = during[rows[i].code].credit
                       /\ Total([i \in DOMAIN rows |-> rows[i].totalD]) = Total([i \in DOMAIN rows |-> rows[i].totalC])
  BY ZenonT(30) DEF MergedAgrees
<1> DEFINE rows == AccountTrialBl(from, to)
           before == TrialBalance([Form(from, NoDate, "posted") EXCEPT !.initial = TRUE])
           during == TrialBalance(Form(from, to, "posted"))
           B == PostedItems(1, from - 1)
           D == PostedItems(from, to)
           N == Len(Codes)
<1>1. /\ B \in SUBSET Items /\ D \in SUBSET Items /\ B \cap D = {} /\ Whole(B \cup D)
      /\ before = [a \in Accounts |-> TotalsOf(OfAccount(a, B))]
      /\ during = [a \in Accounts |-> TotalsOf(OfAccount(a, D))]
  BY PostedAre DEF TrialBalance
<1>2. rows = Walk(GroupsOf(B), GroupsOf(D))
  BY DEF AccountTrialBl
<1> HIDE DEF B, D, rows, before, during
<1>3. GroupsFit(GroupsOf(B), B) /\ GroupsFit(GroupsOf(D), D)
  BY <1>1, GroupsFitItems
<1>4. DOMAIN rows = 1..N /\ \A i \in 1..N : rows[i] = RowFor(B, D, Codes[i])
  BY <1>1, <1>2, <1>3, WalkIs
<1>5. ASSUME NEW i \in DOMAIN rows
      PROVE  /\ rows[i].initD = before[rows[i].code].debit
             /\ rows[i].initC = before[rows[i].code].credit
             /\ rows[i].filterD = during[rows[i].code].debit
             /\ rows[i].filterC = during[rows[i].code].credit
  <2> DEFINE a == Codes[i]
  <2>1. a \in Accounts /\ rows[i] = RowFor(B, D, a)
    BY <1>4, CodesAre
  <2> HIDE DEF a
  <2>2. /\ rows[i].code = a /\ rows[i].initD = Debits(OfAccount(a, B)) /\ rows[i].initC = Credits(OfAccount(a, B))
        /\ rows[i].filterD = Debits(OfAccount(a, D)) /\ rows[i].filterC = Credits(OfAccount(a, D))
    BY <2>1, RowForIs
  <2>3. before[a] = TotalsOf(OfAccount(a, B)) /\ during[a] = TotalsOf(OfAccount(a, D))
    BY <1>1, <2>1
  <2> QED BY <2>2, <2>3 DEF TotalsOf
<1>6. Total([i \in DOMAIN rows |-> rows[i].totalD]) = Total([i \in DOMAIN rows |-> rows[i].totalC])
  <2>1. \A i \in 1..N : rows[i].totalD = Positive(NetOf(B, D, Codes[i])) /\ rows[i].totalC = Positive(-NetOf(B, D, Codes[i]))
    BY <1>4, RowForIs
  <2>2. [i \in DOMAIN rows |-> rows[i].totalD] = [i \in 1..N |-> Positive(NetOf(B, D, Codes[i]))]
    BY <1>4, <2>1
  <2>3. [i \in DOMAIN rows |-> rows[i].totalC] = [i \in 1..N |-> Positive(-NetOf(B, D, Codes[i]))]
    BY <1>4, <2>1
  <2> QED BY <1>1, <2>2, <2>3, MergedTotals
<1> QED BY <1>5, <1>6 DEF rows, before, during

\* The two lists of groups are walked in step with the codes: the rows have the
\* items before the period and those in it, and come to the same debit and credit.
THEOREM MergedAgreesHolds == ReportsSpec => []MergedAgrees
  BY ReportsInvHolds, InvMergedAgrees, PTL

-----------------------------------------------------------------------------
(* What is left of items. *)

AmountIn == [p \in partials |-> p.amount]
DebitOf == [p \in partials |-> p.debit]
CreditOf == [p \in partials |-> p.credit]

LEMMA PartialIs ==
  ASSUME ReportsInv, NEW p \in partials
  PROVE  /\ p.debit \in Items /\ p.credit \in Items /\ p.amount \in Int
         /\ State(p.debit) = "posted" /\ State(p.credit) = "posted"
         /\ Partner(p.debit) = Partner(p.credit) /\ AccountOf(p.debit) = AccountOf(p.credit)
         /\ Balance(p.debit) > 0 /\ Balance(p.credit) < 0
<1>1. PartialFits(p, entries)
  BY DEF ReportsInv, PartialsFit
<1>2. p.debit \in Items /\ p.credit \in Items
  BY <1>1, ItemsAre DEF PartialFits
<1> QED BY <1>1, <1>2 DEF PartialFits, State, Partner, AccountOf, Balance, LineIn

LEMMA AmountsOf ==
  ASSUME ReportsInv
  PROVE  IsFiniteSet(partials) /\ AmountIn \in [partials -> Int]
         /\ DebitOf \in [partials -> Items] /\ CreditOf \in [partials -> Items]
<1>1. IsFiniteSet(partials)
  BY DEF ReportsInv, PartialsFit
<1>2. \A p \in partials : p.debit \in Items /\ p.credit \in Items /\ p.amount \in Int
  BY PartialIs
<1> QED BY <1>1, <1>2 DEF AmountIn, DebitOf, CreditOf

\* What some reconciliations take off a debit and a credit.
OffDebit(P) == [l \in Items |-> Over(AmountIn, Fiber(DebitOf, P, l))]
OffCredit(P) == [l \in Items |-> Over(AmountIn, Fiber(CreditOf, P, l))]
RestIn(P) == [l \in Items |-> (BalanceIn[l] - OffDebit(P)[l]) + OffCredit(P)[l]]

LEMMA OffType ==
  ASSUME ReportsInv, NEW P \in SUBSET partials
  PROVE  OffDebit(P) \in [Items -> Int] /\ OffCredit(P) \in [Items -> Int] /\ RestIn(P) \in [Items -> Int]
<1>1. ASSUME NEW l \in Items PROVE OffDebit(P)[l] \in Int /\ OffCredit(P)[l] \in Int
  <2>1. Fiber(DebitOf, P, l) \in SUBSET partials /\ Fiber(CreditOf, P, l) \in SUBSET partials
    BY DEF Fiber
  <2>2. Over(AmountIn, Fiber(DebitOf, P, l)) \in Int /\ Over(AmountIn, Fiber(CreditOf, P, l)) \in Int
    BY <2>1, AmountsOf, OverType
  <2> QED BY <2>2 DEF OffDebit, OffCredit
<1>2. ASSUME NEW l \in Items PROVE RestIn(P)[l] \in Int
  <2>1. BalanceIn[l] \in Int
    BY AmountsAre
  <2> QED BY <1>1, <2>1 DEF RestIn
<1> QED BY <1>1, <1>2 DEF OffDebit, OffCredit, RestIn

\* The reconciliations of an item among some.
MatchedWith(P, l) == Matched({p \in P : l \in {p.debit, p.credit}})

LEMMA RestIs ==
  ASSUME ReportsInv, NEW P \in SUBSET partials, NEW l \in Items
  PROVE  /\ MatchedWith(P, l) \in Int /\ Balance(l) \in Int
         /\ RestIn(P)[l] = IF Balance(l) > 0 THEN Balance(l) - MatchedWith(P, l) ELSE Balance(l) + MatchedWith(P, l)
<1> DEFINE S == {p \in P : l \in {p.debit, p.credit}}
           D == Fiber(DebitOf, P, l)
           C == Fiber(CreditOf, P, l)
<1>1. /\ S \in SUBSET partials /\ D \in SUBSET partials /\ C \in SUBSET partials
      /\ D = {p \in P : p.debit = l} /\ C = {p \in P : p.credit = l}
  BY DEF Fiber, DebitOf, CreditOf
<1>2. MatchedWith(P, l) = Over(AmountIn, S)
  BY <1>1 DEF MatchedWith, Matched, Over, Part, AmountIn
<1>3. Balance(l) \in Int /\ BalanceIn[l] = Balance(l)
  BY AmountsAre
<1>4. Over(AmountIn, S) \in Int /\ Over(AmountIn, D) \in Int /\ Over(AmountIn, C) \in Int
  BY <1>1, AmountsOf, OverType
<1>5. RestIn(P)[l] = (Balance(l) - Over(AmountIn, D)) + Over(AmountIn, C)
  BY <1>3 DEF RestIn, OffDebit, OffCredit
<1>6. \A p \in P : Balance(p.debit) > 0 /\ Balance(p.credit) < 0
  BY PartialIs
<1>7. CASE Balance(l) > 0
  <2>1. C = {} /\ S = D
    BY <1>1, <1>3, <1>6, <1>7
  <2>2. Over(AmountIn, C) = 0
    BY <2>1, OverNone
  <2> HIDE DEF S, D, C
  <2> QED BY <1>2, <1>3, <1>4, <1>5, <1>7, <2>1, <2>2
<1>8. CASE ~(Balance(l) > 0)
  <2>1. D = {} /\ S = C
    BY <1>1, <1>3, <1>6, <1>8
  <2>2. Over(AmountIn, D) = 0
    BY <2>1, OverNone
  <2> HIDE DEF S, D, C
  <2> QED BY <1>2, <1>3, <1>4, <1>5, <1>8, <2>1, <2>2
<1> QED BY <1>2, <1>3, <1>4, <1>7, <1>8

\* What reconciliations take off debits and off credits of a set that has both ends
\* of each of them or none is the same.
EndsTogether(P, S) == \A p \in P : p.debit \in S <=> p.credit \in S

LEMMA OffSums ==
  ASSUME ReportsInv, NEW P \in SUBSET partials, NEW S \in SUBSET Items
  PROVE  /\ Over(OffDebit(P), S) = Over(AmountIn, {p \in P : p.debit \in S})
         /\ Over(OffCredit(P), S) = Over(AmountIn, {p \in P : p.credit \in S})
<1> DEFINE D == {p \in P : p.debit \in S}
           C == {p \in P : p.credit \in S}
<1>1. /\ D \in SUBSET partials /\ C \in SUBSET partials
      /\ \A p \in D : DebitOf[p] \in S
      /\ \A p \in C : CreditOf[p] \in S
  BY DEF DebitOf, CreditOf
<1>2. /\ \A l \in S : Fiber(DebitOf, D, l) = Fiber(DebitOf, P, l)
      /\ \A l \in S : Fiber(CreditOf, C, l) = Fiber(CreditOf, P, l)
  BY DEF Fiber, DebitOf, CreditOf
<1>3. IsFiniteSet(S) /\ IsFiniteSet(partials) /\ AmountIn \in [partials -> Int]
  BY TotalsAre, AmountsOf
<1> HIDE DEF D, C
<1>4. /\ Total(Classes(AmountIn, D, DebitOf, S)) = Over(AmountIn, D)
      /\ Total(Classes(AmountIn, C, CreditOf, S)) = Over(AmountIn, C)
  BY <1>1, <1>3, OverClasses
<1>5. /\ Classes(AmountIn, D, DebitOf, S) = Part(OffDebit(P), S)
      /\ Classes(AmountIn, C, CreditOf, S) = Part(OffCredit(P), S)
  BY <1>2 DEF Classes, Part, OffDebit, OffCredit
<1> QED BY <1>4, <1>5 DEF Over, D, C

LEMMA ClosedRest ==
  ASSUME ReportsInv, NEW P \in SUBSET partials, NEW S \in SUBSET Items, EndsTogether(P, S)
  PROVE  Over(RestIn(P), S) = Balances(S)
<1> DEFINE R == RestIn(P)
           D == OffDebit(P)
           C == OffCredit(P)
           M == [l \in Items |-> BalanceIn[l] - D[l]]
<1>1. /\ IsFiniteSet(Items) /\ BalanceIn \in [Items -> Int] /\ R \in [Items -> Int]
      /\ D \in [Items -> Int] /\ C \in [Items -> Int]
  BY AmountsAre, OffType
<1>2. \A l \in Items : R[l] = (BalanceIn[l] - D[l]) + C[l]
  BY DEF RestIn
<1>3. Over(D, S) = Over(C, S)
  <2>1. {p \in P : p.debit \in S} = {p \in P : p.credit \in S}
    BY DEF EndsTogether
  <2>2. /\ Over(D, S) = Over(AmountIn, {p \in P : p.debit \in S})
        /\ Over(C, S) = Over(AmountIn, {p \in P : p.credit \in S})
    BY OffSums
  <2> QED BY <2>1, <2>2
<1> HIDE DEF R, D, C
<1>4. M \in [Items -> Int] /\ \A l \in Items : M[l] = BalanceIn[l] - D[l]
  BY <1>1
<1> HIDE DEF M
<1>5. \A x \in S : R[x] = M[x] + C[x]
  BY <1>2, <1>4
<1>6. \A x \in S : BalanceIn[x] = M[x] + D[x]
  BY <1>1, <1>4
<1>7. Over(R, S) = Over(M, S) + Over(C, S)
  BY <1>1, <1>4, <1>5, OverPlus
<1>8. Over(BalanceIn, S) = Over(M, S) + Over(D, S)
  BY <1>1, <1>4, <1>6, OverPlus
<1>9. Balances(S) = Over(BalanceIn, S)
  BY TotalsAre
<1> QED BY <1>3, <1>7, <1>8, <1>9 DEF R

\* An item that is reconciled has nothing left.
LEMMA NothingLeft ==
  ASSUME ReportsInv, NEW P \in SUBSET partials, NEW l \in Items, PartialsOf(l) \subseteq P, LeftOf(l) = 0
  PROVE  RestIn(P)[l] = 0
<1> DEFINE m == MatchedWith(P, l)
           b == Balance(l)
           r == RestIn(P)[l]
<1>1. {p \in P : l \in {p.debit, p.credit}} = PartialsOf(l)
  BY DEF PartialsOf
<1>2. m = Matched(PartialsOf(l))
  BY <1>1 DEF MatchedWith
<1>3. m \in Int /\ b \in Int /\ r = IF b > 0 THEN b - m ELSE b + m
  BY RestIs
<1>4. LeftOf(l) = Positive(b) + (Positive(-b) - Matched(PartialsOf(l)))
  BY DEF LeftOf, Debit, Credit
<1> HIDE DEF m, b, r
<1>5. Positive(b) + (Positive(-b) - m) = 0
  BY <1>2, <1>4
<1>6. r = 0
  BY <1>3, <1>5 DEF Positive
<1> QED BY <1>6 DEF r

-----------------------------------------------------------------------------
(* The aged balance agrees. *)

\* What a partner owes or is owed, and the reconciliations until a date.
Owed(to, target, partner) == PartnerItems(Form(NoDate, to, target), Reconcilable, TRUE, partner)
SettledBy(date) == {p \in partials : MaxDate(p) <= date}

LEMMA OwedIs ==
  ASSUME NEW to, NEW target, NEW partner
  PROVE  /\ Owed(to, target, partner) =
                {l \in Items : /\ TypeOf[AccountOf(l)] \in Reconcilable /\ Shown(l, target)
                               /\ to # NoDate => DateOf(l) <= to
                               /\ Partner(l) = partner}
         /\ Owed(to, target, partner) \in SUBSET Items
<1>1. Query(Form(NoDate, to, target)) = {l \in Items : Shown(l, target) /\ (to # NoDate => DateOf(l) <= to)}
  BY QueryIs
<1> QED BY <1>1 DEF Owed, PartnerItems, OfTypes

LEMMA OpenIs ==
  ASSUME NEW date, NEW l \in Items, ReportsInv
  PROVE  OpenAt(l, date) = RestIn(SettledBy(date))[l]
<1> DEFINE P == SettledBy(date)
<1>1. {p \in PartialsOf(l) : MaxDate(p) <= date} = {p \in P : l \in {p.debit, p.credit}}
  BY DEF PartialsOf, SettledBy
<1>2. Matched({p \in PartialsOf(l) : MaxDate(p) <= date}) = MatchedWith(P, l)
  BY <1>1 DEF MatchedWith
<1>3. P \in SUBSET partials
  BY DEF SettledBy
<1> HIDE DEF P
<1>4. RestIn(P)[l] = IF Balance(l) > 0 THEN Balance(l) - MatchedWith(P, l) ELSE Balance(l) + MatchedWith(P, l)
  BY <1>3, RestIs
<1> QED BY <1>2, <1>4 DEF OpenAt, P

\* Both ends of a reconciliation are owed by the same partner, and until its date.
LEMMA OwedEnds ==
  ASSUME ReportsInv, NEW target, NEW partner
  PROVE  /\ \A date \in Dates : EndsTogether(SettledBy(date), Owed(date, target, partner))
         /\ EndsTogether(partials, Owed(NoDate, target, partner))
<1>1. \A p \in partials : /\ p.debit \in Items /\ p.credit \in Items
                          /\ State(p.debit) = State(p.credit) /\ Partner(p.debit) = Partner(p.credit)
                          /\ AccountOf(p.debit) = AccountOf(p.credit)
  BY PartialIs
<1>2. \A p \in partials : Shown(p.debit, target) <=> Shown(p.credit, target)
  BY <1>1 DEF Shown
<1>3. EndsTogether(partials, Owed(NoDate, target, partner))
  BY <1>1, <1>2, OwedIs DEF EndsTogether
<1>4. ASSUME NEW date \in Dates, NEW p \in SettledBy(date)
      PROVE  p.debit \in Owed(date, target, partner) <=> p.credit \in Owed(date, target, partner)
  <2>1. p \in partials /\ MaxDate(p) <= date
    BY DEF SettledBy
  <2>2. DateOf(p.debit) \in Int /\ DateOf(p.credit) \in Int /\ date \in Int
    BY <1>1, <2>1, AccountIn DEF Dates
  <2>3. DateOf(p.debit) <= date /\ DateOf(p.credit) <= date
    BY <2>1, <2>2 DEF MaxDate
  <2> QED BY <1>1, <1>2, <2>1, <2>3, OwedIs
<1> QED BY <1>3, <1>4 DEF EndsTogether

\* What is owed at a date is what is then left of it.
LEMMA OwedIsLeft ==
  ASSUME ReportsInv, NEW date \in Dates, NEW target, NEW partner
  PROVE  Over(RestIn(SettledBy(date)), Owed(date, target, partner)) = Balances(Owed(date, target, partner))
<1> DEFINE P == SettledBy(date)
           S == Owed(date, target, partner)
<1>1. P \in SUBSET partials /\ S \in SUBSET Items /\ EndsTogether(P, S)
  BY OwedIs, OwedEnds DEF SettledBy
<1> HIDE DEF P, S
<1>2. Over(RestIn(P), S) = Balances(S)
  BY <1>1, ClosedRest
<1> QED BY <1>2 DEF P, S

LEMMA PeriodType ==
  ASSUME NEW maturity \in Int, NEW date \in Int, NEW length \in Nat
  PROVE  Period(maturity, date, length) \in 1..6
<1> DEFINE S == {i \in 1..5 : i = 1 \/ maturity >= date - (6 - i) * length}
<1>1. S \in SUBSET Int /\ 1 \in S /\ S \in SUBSET (1..5)
  OBVIOUS
<1>2. IsFiniteSet(1..5)
  <2>1. 1 \in Int /\ 5 \in Int
    OBVIOUS
  <2> QED BY <2>1, FS_Interval
<1>3. Period(maturity, date, length) = IF maturity >= date THEN 6 ELSE Max(S)
  BY DEF Period
<1> HIDE DEF S
<1>4. IsFiniteSet(S) /\ S # {}
  BY <1>1, <1>2, FS_Subset
<1>5. \E x \in S : \A y \in S : x >= y
  BY <1>1, <1>4, LargestNumber
<1>6. Max(S) \in S
  BY <1>5 DEF Max
<1>7. Max(S) \in 1..5
  BY <1>1, <1>6
<1>8. CASE maturity >= date
  BY <1>3, <1>8
<1>9. CASE ~(maturity >= date)
  <2>1. Period(maturity, date, length) = Max(S)
    BY <1>3, <1>9
  <2> QED BY <1>7, <2>1
<1> QED BY <1>8, <1>9

\* The items of a period, and what is open of them.
InPeriod(S, date, length, i) == {l \in S : Period(Maturity(l), date, length) = i}
OpenBy(S, date, length) == [i \in 1..6 |-> Total([l \in InPeriod(S, date, length, i) |-> OpenAt(l, date)])]

LEMMA OpenSums ==
  ASSUME ReportsInv, NEW date \in Dates, NEW length \in Lengths, NEW S \in SUBSET Items
  PROVE  Total(OpenBy(S, date, length)) = Over(RestIn(SettledBy(date)), S)
<1> DEFINE P == SettledBy(date)
           V == RestIn(P)
           k == [l \in Items |-> Period(Maturity(l), date, length)]
           J == 1..6
<1>1. P \in SUBSET partials
  BY DEF SettledBy
<1>2. V \in [Items -> Int] /\ IsFiniteSet(Items) /\ IsFiniteSet(J)
  <2>1. 1 \in Int /\ 6 \in Int
    OBVIOUS
  <2>2. IsFiniteSet(J)
    BY <2>1, FS_Interval
  <2> QED BY <1>1, <2>2, OffType, AmountsAre
<1>3. \A x \in S : k[x] \in J
  <2> SUFFICES ASSUME NEW x \in S PROVE k[x] \in J
    OBVIOUS
  <2>1. Maturity(x) \in Int /\ date \in Int /\ length \in Nat
    BY AccountIn, ReportsAssumption DEF Dates
  <2> QED BY <2>1, PeriodType
<1>4. \A i \in J : InPeriod(S, date, length, i) = Fiber(k, S, i)
  BY DEF InPeriod, Fiber
<1>5. ASSUME NEW i \in J
      PROVE  Total([l \in InPeriod(S, date, length, i) |-> OpenAt(l, date)]) = Over(V, Fiber(k, S, i))
  <2> DEFINE D == InPeriod(S, date, length, i)
  <2>1. D \in SUBSET Items /\ D = Fiber(k, S, i)
    BY <1>4 DEF InPeriod
  <2>2. \A l \in D : OpenAt(l, date) = V[l]
    BY <2>1, OpenIs
  <2> HIDE DEF D, V, k
  <2>3. [l \in D |-> OpenAt(l, date)] = Part(V, D)
    BY <2>2 DEF Part
  <2> QED BY <2>1, <2>3 DEF Over, D
<1>6. OpenBy(S, date, length) = Classes(V, S, k, J)
  BY <1>5 DEF OpenBy, Classes
<1> HIDE DEF V, k, J
<1>7. Total(Classes(V, S, k, J)) = Over(V, S)
  BY <1>2, <1>3, OverClasses
<1> QED BY <1>6, <1>7 DEF V

LEMMA AgedItemsAre ==
  ASSUME ReportsInv, NEW date \in Dates, NEW target \in Targets, NEW partner
  PROVE  Owed(date, target, partner) = {l \in AgedItems(date, target, Reconcilable) : Partner(l) = partner}
<1>1. date # NoDate
  BY ReportsAssumption
<1>2. ASSUME NEW l \in Items
      PROVE  Shown(l, target) <=> State(l) \in IF target = "posted" THEN {"posted"} ELSE {"draft", "posted"}
  <2>1. State(l) \in {"draft", "posted", "cancel"}
    BY ItemsAre, EntryIs DEF State, ReportsInv, ItemIn
  <2> QED BY <2>1 DEF Shown, Targets
<1>3. Owed(date, target, partner) =
        {l \in Items : /\ TypeOf[AccountOf(l)] \in Reconcilable /\ Shown(l, target)
                       /\ DateOf(l) <= date /\ Partner(l) = partner}
  BY <1>1, OwedIs
<1> QED BY <1>2, <1>3 DEF AgedItems, OfTypes

\* The aged balance of a partner with items that are open, of all or of the partner.
LEMMA AgedOf ==
  ASSUME ReportsInv, NEW date \in Dates, NEW target \in Targets, NEW length, NEW partner \in Partners,
         NEW chosen \in {{}, {partner}}, partner \in AgedPartners(date, target, Reconcilable)
  PROVE  /\ partner \in DOMAIN AgedBalance(date, target, Reconcilable, length, chosen)
         /\ AgedBalance(date, target, Reconcilable, length, chosen)[partner] =
                OpenBy(Owed(date, target, partner), date, length)
<1> DEFINE found == AgedPartners(date, target, Reconcilable)
           of == IF chosen = {} THEN found \ {NoPartner} ELSE chosen
           shown == {l \in AgedItems(date, target, Reconcilable) : of # {} /\ Partner(l) \in of \cup {NoPartner}}
           In(i) == {l \in shown : Partner(l) = partner /\ Period(Maturity(l), date, length) = i}
           aged == [p \in IF of = {} THEN {} ELSE found |->
                       [i \in 1..6 |->
                           LET S == {l \in shown : Partner(l) = p /\ Period(Maturity(l), date, length) = i}
                           IN Total([l \in S |-> OpenAt(l, date)])]]
<1>1. AgedBalance(date, target, Reconcilable, length, chosen) = aged
  BY Zenon DEF AgedBalance
<1>2. partner # NoPartner
  BY ReportsAssumption
<1>3. partner \in of
  BY <1>2
<1>4. Owed(date, target, partner) = {l \in AgedItems(date, target, Reconcilable) : Partner(l) = partner}
  BY AgedItemsAre
<1> HIDE DEF of
<1>5. \A i \in 1..6 : In(i) = InPeriod(Owed(date, target, partner), date, length, i)
  BY <1>3, <1>4 DEF InPeriod
<1>6. partner \in DOMAIN aged /\ aged[partner] = [i \in 1..6 |-> Total([l \in In(i) |-> OpenAt(l, date)])]
  BY <1>3
<1> HIDE DEF In, aged
<1>7. aged[partner] = OpenBy(Owed(date, target, partner), date, length)
  BY <1>5, <1>6 DEF OpenBy
<1> QED BY <1>1, <1>6, <1>7

\* Of no other partner is there an aged balance.
LEMMA AgedOnly ==
  ASSUME NEW date, NEW target, NEW length, NEW partner,
         partner \in DOMAIN AgedBalance(date, target, Reconcilable, length, {})
  PROVE  partner \in AgedPartners(date, target, Reconcilable)
  BY DEF AgedBalance

\* Nothing is left of the items of a partner without an aged balance.
LEMMA NotAged ==
  ASSUME ReportsInv, NEW date \in Dates, NEW target \in Targets, NEW partner,
         partner \notin AgedPartners(date, target, Reconcilable)
  PROVE  Balances(Owed(date, target, partner)) = 0
<1> DEFINE S == Owed(date, target, partner)
           P == SettledBy(date)
           V == RestIn(P)
<1>1. S = {l \in AgedItems(date, target, Reconcilable) : Partner(l) = partner} /\ S \in SUBSET Items
  BY AgedItemsAre, OwedIs
<1>2. ASSUME NEW l \in S PROVE V[l] = 0
  <2>1. Reconciled(l) /\ \A p \in PartialsOf(l) : ~(MaxDate(p) > date)
    BY <1>1 DEF AgedPartners
  <2>2. \A p \in PartialsOf(l) : p \in P
    <3> SUFFICES ASSUME NEW p \in PartialsOf(l) PROVE p \in P
      OBVIOUS
    <3>1. p \in partials /\ ~(MaxDate(p) > date)
      BY <2>1 DEF PartialsOf
    <3>2. p.debit \in Items /\ p.credit \in Items
      BY <3>1, PartialIs
    <3>3. DateOf(p.debit) \in Int /\ DateOf(p.credit) \in Int /\ date \in Int
      BY <3>2, AccountIn DEF Dates
    <3>4. MaxDate(p) <= date
      BY <3>1, <3>3 DEF MaxDate
    <3> QED BY <3>1, <3>4 DEF SettledBy
  <2>3. P \in SUBSET partials /\ PartialsOf(l) \subseteq P /\ LeftOf(l) = 0 /\ l \in Items
    BY <1>1, <2>1, <2>2 DEF SettledBy, Reconciled
  <2> HIDE DEF P
  <2> QED BY <2>3, NothingLeft
<1>3. Over(V, S) = Balances(S)
  BY OwedIsLeft
<1>4. IsFiniteSet(S)
  BY <1>1, TotalsAre
<1> HIDE DEF S, V
<1>5. Over(V, S) = 0
  BY <1>2, <1>4, OverZeros
<1> QED BY <1>3, <1>5 DEF S

\* What is reconciled in full comes to nothing.
InFull(S) == {l \in S : FullyReconciled(l)}

LEMMA FullEnds ==
  ASSUME ReportsInv, NEW S \in SUBSET Items, EndsTogether(partials, S)
  PROVE  EndsTogether(partials, InFull(S))
<1>1. ASSUME NEW p \in partials, NEW l, NEW m, {l, m} = {p.debit, p.credit}, FullyReconciled(l)
      PROVE  FullyReconciled(m)
  <2>1. PICK M \in SUBSET Ends(partials) : l \in M /\ \A n \in M : Reconciled(n) /\ Ends(PartialsOf(n)) \subseteq M
    BY <1>1 DEF FullyReconciled
  <2>2. p \in PartialsOf(l)
    BY <1>1 DEF PartialsOf
  <2>3. m \in Ends(PartialsOf(l))
    BY <1>1, <2>2 DEF Ends
  <2>4. m \in M
    BY <2>1, <2>3
  <2> QED BY <2>1, <2>4 DEF FullyReconciled
<1>2. ASSUME NEW p \in partials PROVE FullyReconciled(p.debit) <=> FullyReconciled(p.credit)
  BY <1>1
<1> QED BY <1>2 DEF EndsTogether, InFull

LEMMA FullIsNothing ==
  ASSUME ReportsInv, NEW S \in SUBSET Items, EndsTogether(partials, S)
  PROVE  Balances(InFull(S)) = 0
<1> DEFINE F == InFull(S)
           V == RestIn(partials)
<1>1. F \in SUBSET Items /\ EndsTogether(partials, F) /\ partials \in SUBSET partials
  BY FullEnds DEF InFull
<1>2. ASSUME NEW l \in F PROVE V[l] = 0
  <2>1. Reconciled(l)
    BY DEF InFull, FullyReconciled
  <2>2. LeftOf(l) = 0 /\ PartialsOf(l) \subseteq partials /\ l \in Items
    BY <1>1, <2>1 DEF Reconciled, PartialsOf
  <2> QED BY <1>1, <2>2, NothingLeft
<1> HIDE DEF F
<1>3. Over(V, F) = Balances(F)
  BY <1>1, ClosedRest
<1>4. IsFiniteSet(F)
  BY <1>1, TotalsAre
<1> HIDE DEF V
<1>5. Over(V, F) = 0
  BY <1>2, <1>4, OverZeros
<1> QED BY <1>3, <1>5 DEF F

LEMMA WithoutReconciled ==
  ASSUME ReportsInv, NEW target, NEW partner
  PROVE  LET form == Form(NoDate, NoDate, target)
         IN SumPartner(form, Reconcilable, FALSE, partner) = SumPartner(form, Reconcilable, TRUE, partner)
<1> DEFINE form == Form(NoDate, NoDate, target)
           S == Owed(NoDate, target, partner)
           R == PartnerItems(form, Reconcilable, FALSE, partner)
           F == InFull(S)
<1>1. S \in SUBSET Items /\ EndsTogether(partials, S)
  BY OwedIs, OwedEnds
<1>2. R = {l \in S : ~FullyReconciled(l)}
  BY DEF Owed, PartnerItems
<1>3. SumPartner(form, Reconcilable, FALSE, partner) = Balances(R) /\ SumPartner(form, Reconcilable, TRUE, partner) = Balances(S)
  BY DEF SumPartner, Owed
<1> HIDE DEF S, R
<1>4. R \in SUBSET Items /\ F \in SUBSET Items /\ R \cap F = {} /\ R \cup F = S
  BY <1>1, <1>2 DEF InFull
<1>5. Balances(F) = 0
  BY <1>1, FullIsNothing
<1> HIDE DEF F
<1>6. Balances(R \cup F) = Balances(R) + Balances(F) /\ Balances(R) \in Int
  BY <1>4, TotalsOfBoth, TotalsAre
<1>7. Balances(R \cup F) = Balances(R)
  BY <1>5, <1>6
<1>8. Balances(S) = Balances(R)
  BY <1>4, <1>7
<1> QED BY <1>3, <1>8

LEMMA OwesSomething ==
  ASSUME ReportsInv, NEW form, NEW withReconciled, NEW partner \in Partners,
         SumPartner(form, Reconcilable, withReconciled, partner) # 0
  PROVE  partner \in LedgerPartners(form, Reconcilable, withReconciled)
<1>1. PartnerItems(form, Reconcilable, withReconciled, partner) # {}
  BY NoItems DEF SumPartner
<1> QED BY <1>1 DEF LedgerPartners

LEMMA AgedIs ==
  ASSUME ReportsInv, NEW date \in Dates, NEW target \in Targets, NEW length \in Lengths, NEW partner \in Partners
  PROVE  LET aged == AgedBalance(date, target, Reconcilable, length, {})
         IN /\ SumPartner(Form(NoDate, date, target), Reconcilable, TRUE, partner) =
                    IF partner \in DOMAIN aged THEN Total(aged[partner]) ELSE 0
            /\ partner \in DOMAIN aged =>
                    AgedBalance(date, target, Reconcilable, length, {partner})[partner] = aged[partner]
<1> DEFINE aged == AgedBalance(date, target, Reconcilable, length, {})
           chosen == AgedBalance(date, target, Reconcilable, length, {partner})
           S == Owed(date, target, partner)
<1>1. SumPartner(Form(NoDate, date, target), Reconcilable, TRUE, partner) = Balances(S)
  BY DEF SumPartner, Owed
<1>2. CASE partner \in AgedPartners(date, target, Reconcilable)
  <2>1. partner \in DOMAIN aged /\ aged[partner] = OpenBy(S, date, length)
    BY <1>2, AgedOf
  <2>2. chosen[partner] = OpenBy(S, date, length)
    BY <1>2, AgedOf
  <2>3. S \in SUBSET Items
    BY OwedIs
  <2>4. Over(RestIn(SettledBy(date)), S) = Balances(S)
    BY OwedIsLeft
  <2> HIDE DEF aged, chosen, S
  <2>5. Total(OpenBy(S, date, length)) = Over(RestIn(SettledBy(date)), S)
    BY <2>3, OpenSums
  <2> QED BY <1>1, <2>1, <2>2, <2>4, <2>5 DEF aged, chosen
<1>3. CASE partner \notin AgedPartners(date, target, Reconcilable)
  <2>1. partner \notin DOMAIN aged
    BY <1>3, AgedOnly
  <2>2. Balances(S) = 0
    BY <1>3, NotAged
  <2> HIDE DEF aged, S
  <2> QED BY <1>1, <2>1, <2>2 DEF aged
<1> QED BY <1>2, <1>3

LEMMA InvAgedAgrees == ReportsInv => AgedAgrees
<1> SUFFICES ASSUME ReportsInv, NEW date \in Dates, NEW target \in Targets, NEW length \in Lengths, NEW p \in Partners
             PROVE  LET aged == AgedBalance(date, target, Reconcilable, length, {})
                        Owes(to, withReconciled) == SumPartner(Form(NoDate, to, target), Reconcilable, withReconciled, p)
                    IN /\ Owes(date, TRUE) = IF p \in DOMAIN aged THEN Total(aged[p]) ELSE 0
                       /\ p \in DOMAIN aged =>
                              AgedBalance(date, target, Reconcilable, length, {p})[p] = aged[p]
                       /\ Owes(NoDate, FALSE) = Owes(NoDate, TRUE)
                       /\ Owes(NoDate, FALSE) # 0 =>
                              p \in LedgerPartners(Form(NoDate, NoDate, target), Reconcilable, FALSE)
  BY Zenon DEF AgedAgrees
<1> QED BY AgedIs, WithoutReconciled, OwesSomething

\* The aged balance of a partner at a date adds up, over the periods, to the partner
\* ledger at that date, whatever was reconciled before and after it; what is
\* reconciled in full adds nothing to a ledger (_get_partner_move_lines, _sum_partner).
THEOREM AgedAgreesHolds == ReportsSpec => []AgedAgrees
  BY ReportsInvHolds, InvAgedAgrees, PTL
=================================================================================
