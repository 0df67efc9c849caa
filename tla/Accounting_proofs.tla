-------------------------- MODULE Accounting_proofs --------------------------
(***************************************************************************)
(* Proofs about the two components that keep sums in the ledger.            *)
(*                                                                         *)
(* AccountAsset, for any assets, plans, prices and changes: a board is the  *)
(* whole value of its asset, each depreciation is booked once, a closed     *)
(* asset is depreciated, and an open one has work left.                     *)
(*                                                                         *)
(* GroupInvoice, for any orders, groups, charges, rates and discounts:      *)
(* generation never puts an invoice into two groups, a group has one        *)
(* penalty invoice, and the discounts of the groups are those of the        *)
(* invoices.                                                               *)
(*                                                                         *)
(* The amounts of both are folds.  What they compute is proved here by an   *)
(* induction over the subsets of a finite set, which WFMin justifies: see   *)
(* SubsetInduction.                                                        *)
(***************************************************************************)
EXTENDS AccountAsset, GroupInvoice, FiniteSetTheorems, WellFoundedInduction, TLAPS

-----------------------------------------------------------------------------
(* Sums over finite sets.  An induction over sets: the library's theorems take *)
(* an operator; a set of sets serves as well, and its smallest gap.           *)

LEMMA SmallestNumber ==
  ASSUME NEW S \in SUBSET Nat, S # {}
  PROVE  \E x \in S : \A y \in S : x <= y
<1> DEFINE R == {n \in Nat \X Nat : n[1] < n[2]}
<1>1. IsWellFoundedOn(R, Nat)
  BY NatLessThanWellFounded DEF OpToRel
<1> HIDE DEF R
<1>2. PICK x \in S : \A y \in S : ~(<<y, x>> \in R)
  BY <1>1, WFMin
<1>3. ASSUME NEW y \in S PROVE x <= y
  <2>1. <<y, x>> \in Nat \X Nat /\ <<y, x>>[1] = y /\ <<y, x>>[2] = x
    OBVIOUS
  <2>2. ~(y < x)
    BY <1>2, <2>1 DEF R
  <2> QED BY <2>2
<1> QED BY <1>3

\* Q holds all subsets of S when it holds each whose subsets without one
\* element it holds.
LEMMA SubsetInduction ==
  ASSUME NEW S, IsFiniteSet(S), NEW Q,
         \A s \in SUBSET S : (\A x \in s : s \ {x} \in Q) => s \in Q
  PROVE  \A s \in SUBSET S : s \in Q
<1> DEFINE Gaps == {s \in SUBSET S : s \notin Q}
<1> SUFFICES ASSUME Gaps # {} PROVE FALSE
  OBVIOUS
<1> DEFINE Sizes == {Cardinality(s) : s \in Gaps}
<1>1. \A s \in SUBSET S : IsFiniteSet(s) /\ Cardinality(s) \in Nat
  BY FS_Subset, FS_CardinalityType
<1>2. PICK s \in Gaps : \A t \in Gaps : Cardinality(s) <= Cardinality(t)
  <2>1. Sizes \in SUBSET Nat /\ Sizes # {}
    BY <1>1
  <2>2. PICK n \in Sizes : \A m \in Sizes : n <= m
    BY <2>1, SmallestNumber
  <2> QED BY <2>2
<1>3. ASSUME NEW x \in s PROVE s \ {x} \in Q
  <2>1. Cardinality(s \ {x}) = Cardinality(s) - 1
    BY <1>1, FS_RemoveElement
  <2>2. s \ {x} \in SUBSET S
    OBVIOUS
  <2>3. s \ {x} \notin Gaps
    BY <1>1, <1>2, <2>1, <2>2
  <2> QED BY <2>2, <2>3
<1> QED BY <1>3

\* W[s] is the sum of F over s, for the subsets s of S, taken in some order.
Element(s) == CHOOSE x \in s : TRUE

Sums(W, F, S) == W = [s \in SUBSET S |-> IF s = {} THEN 0 ELSE F[Element(s)] + W[s \ {Element(s)}]]

LEMMA ElementIn == \A s : s # {} => Element(s) \in s
  BY DEF Element

LEMMA SumsOver ==
  ASSUME NEW S, NEW F, NEW W, Sums(W, F, S)
  PROVE  \A s \in SUBSET S : W[s] = IF s = {} THEN 0 ELSE F[Element(s)] + W[s \ {Element(s)}]
  BY DEF Sums

LEMMA NumberInduction ==
  ASSUME NEW Q, 0 \in Q, \A n \in Nat : n \in Q => n + 1 \in Q
  PROVE  \A n \in Nat : n \in Q
<1> DEFINE Gaps == Nat \ Q
<1> SUFFICES ASSUME Gaps # {} PROVE FALSE
  OBVIOUS
<1>1. PICK n \in Gaps : \A m \in Gaps : n <= m
  BY SmallestNumber
<1>2. n - 1 \in Nat /\ n - 1 \notin Gaps
  BY <1>1
<1>3. (n - 1) + 1 = n
  BY <1>1
<1> QED BY <1>1, <1>2, <1>3

\* There are such sums, made from the small sets up.
LEMMA SumsExist ==
  ASSUME NEW S, IsFiniteSet(S), NEW F
  PROVE  \E W : Sums(W, F, S)
<1> DEFINE Upto(n) == {s \in SUBSET S : Cardinality(s) <= n}
           Level(W, n) == W = [s \in Upto(n) |-> IF s = {} THEN 0 ELSE F[Element(s)] + W[s \ {Element(s)}]]
           Q == {n \in Nat : \E W : Level(W, n)}
<1>1. \A s \in SUBSET S : IsFiniteSet(s) /\ Cardinality(s) \in Nat
  BY FS_Subset, FS_CardinalityType
<1>2. \A s \in SUBSET S : s # {} => /\ s \ {Element(s)} \in SUBSET S
                                    /\ Cardinality(s \ {Element(s)}) = Cardinality(s) - 1
  BY <1>1, ElementIn, FS_RemoveElement
<1>3. 0 \in Q
  <2> DEFINE W == [s \in Upto(0) |-> 0]
  <2>1. \A s \in Upto(0) : s = {}
    BY <1>1, FS_EmptySet
  <2>2. Level(W, 0)
    BY <2>1
  <2> QED BY <2>2
<1>4. ASSUME NEW n \in Nat, n \in Q PROVE n + 1 \in Q
  <2>1. PICK W : Level(W, n)
    BY <1>4
  <2>2. \A s \in Upto(n) : W[s] = IF s = {} THEN 0 ELSE F[Element(s)] + W[s \ {Element(s)}]
    BY <2>1
  <2> DEFINE V == [s \in Upto(n + 1) |-> IF s = {} THEN 0 ELSE F[Element(s)] + W[s \ {Element(s)}]]
  <2>3. \A s \in Upto(n + 1) : s # {} => s \ {Element(s)} \in Upto(n)
    BY <1>1, <1>2
  <2>4. Upto(n) \subseteq Upto(n + 1)
    BY <1>1
  <2>5. \A s \in Upto(n) : V[s] = W[s]
    BY <2>2, <2>4
  <2> HIDE DEF Upto
  <2>6. Level(V, n + 1)
    <3>1. \A s \in Upto(n + 1) : s # {} => V[s \ {Element(s)}] = W[s \ {Element(s)}]
      BY <2>3, <2>5
    <3>2. V = [s \in Upto(n + 1) |-> IF s = {} THEN 0 ELSE F[Element(s)] + V[s \ {Element(s)}]]
      <4> DEFINE U == [s \in Upto(n + 1) |-> IF s = {} THEN 0 ELSE F[Element(s)] + V[s \ {Element(s)}]]
      <4>1. \A s \in Upto(n + 1) : V[s] = U[s]
        BY <3>1
      <4> QED BY <4>1
    <3> QED BY <3>2
  <2> HIDE DEF V, Level
  <2> QED BY <2>6
<1>5. Cardinality(S) \in Q
  BY <1>1, <1>3, <1>4, NumberInduction
<1>6. Upto(Cardinality(S)) = SUBSET S
  BY <1>1, FS_Subset
<1> QED BY <1>5, <1>6 DEF Sums

\* There is one value of them for each set, whatever the larger set they are taken in.
LEMMA SumsUnique ==
  ASSUME NEW S, IsFiniteSet(S), NEW T \in SUBSET S, NEW F, NEW G, \A x \in T : F[x] = G[x],
         NEW W, Sums(W, F, S), NEW V, Sums(V, G, T)
  PROVE  W[T] = V[T]
<1> DEFINE Q == {s \in SUBSET T : W[s] = V[s]}
<1>1. IsFiniteSet(T)
  BY FS_Subset
<1>2. ASSUME NEW s \in SUBSET T, \A x \in s : s \ {x} \in Q PROVE s \in Q
  <2>1. s # {} => Element(s) \in s /\ F[Element(s)] = G[Element(s)] /\ W[s \ {Element(s)}] = V[s \ {Element(s)}]
    BY <1>2, ElementIn
  <2>2. /\ W[s] = IF s = {} THEN 0 ELSE F[Element(s)] + W[s \ {Element(s)}]
        /\ V[s] = IF s = {} THEN 0 ELSE G[Element(s)] + V[s \ {Element(s)}]
    BY SumsOver
  <2> QED BY <2>1, <2>2
<1> HIDE DEF Q
<1>3. \A s \in SUBSET T : s \in Q
  BY <1>1, <1>2, SubsetInduction
<1> QED BY <1>3 DEF Q

LEMMA SumIs ==
  ASSUME NEW S, IsFiniteSet(S), NEW F, DOMAIN F \in SUBSET S, NEW G, \A x \in DOMAIN F : F[x] = G[x], NEW W, Sums(W, G, S)
  PROVE  Total(F) = W[DOMAIN F]
<1> DEFINE T == DOMAIN F
           V == CHOOSE V : Sums(V, F, T)
<1>1. Total(F) = V[T]
  BY Zenon DEF Total, MapThenSumSet, MapThenFoldSet, Sums, Element
<1>2. Sums(V, F, T)
  BY SumsExist, FS_Subset
<1> HIDE DEF V
<1> QED BY <1>1, <1>2, SumsUnique

\* A sum is a number; the sum of nothing is 0; an element may be taken first.
Additive(W, F, S) ==
    /\ W \in [SUBSET S -> Int]
    /\ W[{}] = 0
    /\ \A s \in SUBSET S : \A x \in s : W[s] = F[x] + W[s \ {x}]

LEMMA SumsAre ==
  ASSUME NEW S, IsFiniteSet(S), NEW F \in [S -> Int], NEW W, Sums(W, F, S)
  PROVE  Additive(W, F, S)
<1>1. W[{}] = 0
  BY SumsOver
<1>2. \A s \in SUBSET S : W[s] \in Int
  <2> DEFINE Q == {s \in SUBSET S : W[s] \in Int}
  <2>1. ASSUME NEW s \in SUBSET S, \A x \in s : s \ {x} \in Q PROVE s \in Q
    <3>1. s # {} => Element(s) \in s /\ F[Element(s)] \in Int /\ W[s \ {Element(s)}] \in Int
      BY <2>1, ElementIn
    <3>2. s = {} => W[s] = 0
      BY <1>1
    <3>3. s # {} => W[s] = F[Element(s)] + W[s \ {Element(s)}]
      BY SumsOver
    <3>4. W[s] \in Int
      BY <3>1, <3>2, <3>3
    <3> QED BY <3>4
  <2> HIDE DEF Q
  <2>2. \A s \in SUBSET S : s \in Q
    BY <2>1, SubsetInduction
  <2> QED BY <2>2 DEF Q
<1>3. \A s \in SUBSET S : \A x \in s : W[s] = F[x] + W[s \ {x}]
  <2> DEFINE Q == {s \in SUBSET S : \A x \in s : W[s] = F[x] + W[s \ {x}]}
  <2>1. ASSUME NEW s \in SUBSET S, \A x \in s : s \ {x} \in Q PROVE s \in Q
    <3> SUFFICES ASSUME NEW x \in s PROVE W[s] = F[x] + W[s \ {x}]
      OBVIOUS
    <3> DEFINE c == Element(s)
    <3>1. c \in s /\ W[s] = F[c] + W[s \ {c}]
      BY SumsOver, ElementIn
    <3> HIDE DEF c
    <3>2. CASE x = c
      BY <3>1, <3>2
    <3>3. CASE x # c
      <4>1. W[s \ {c}] = F[x] + W[(s \ {c}) \ {x}]
        BY <3>1, <3>3, <2>1
      <4>2. W[s \ {x}] = F[c] + W[(s \ {x}) \ {c}]
        BY <3>1, <3>3, <2>1
      <4>3. (s \ {c}) \ {x} = (s \ {x}) \ {c}
        OBVIOUS
      <4>4. F[x] \in Int /\ F[c] \in Int
        BY <3>1
      <4>5. W[(s \ {x}) \ {c}] \in Int
        BY <1>2
      <4> DEFINE w == W[(s \ {x}) \ {c}]
                 a == F[x]
                 b == F[c]
      <4>6. W[s] = b + (a + w) /\ W[s \ {x}] = b + w
        BY <3>1, <4>1, <4>2, <4>3
      <4>7. a \in Int /\ b \in Int /\ w \in Int
        BY <4>4, <4>5
      <4> HIDE DEF a, b, w
      <4>8. W[s] = a + W[s \ {x}]
        BY <4>6, <4>7
      <4> QED BY <4>8 DEF a
    <3> QED BY <3>2, <3>3
  <2> HIDE DEF Q
  <2>2. \A s \in SUBSET S : s \in Q
    BY <2>1, SubsetInduction
  <2> QED BY <2>2 DEF Q
<1>4. DOMAIN W = SUBSET S /\ W = [s \in SUBSET S |-> W[s]]
  BY DEF Sums
<1> QED BY <1>1, <1>2, <1>3, <1>4 DEF Additive

LEMMA SumType ==
  ASSUME NEW S, IsFiniteSet(S), NEW F \in [S -> Int]
  PROVE  Total(F) \in Int
<1>1. PICK W : Sums(W, F, S)
  BY SumsExist
<1>2. Total(F) = W[S]
  BY <1>1, SumIs
<1>3. Additive(W, F, S)
  BY <1>1, SumsAre
<1> QED BY <1>2, <1>3 DEF Additive

\* H is F with D added to the elements of T.
Adds(H, F, D, S, T) ==
    /\ IsFiniteSet(S) /\ T \in SUBSET S
    /\ F \in [S -> Int] /\ D \in [T -> Int] /\ H \in [S -> Int]
    /\ \A x \in T : H[x] = F[x] + D[x]
    /\ \A x \in S \ T : H[x] = F[x]

\* What is added to some elements is added to the sum.
LEMMA SumAdd ==
  ASSUME NEW H, NEW F, NEW D, NEW S, NEW T, Adds(H, F, D, S, T)
  PROVE  Total(H) = Total(F) + Total(D)
<1> USE DEF Adds
<1>0. IsFiniteSet(T)
  BY FS_Subset
<1>1. PICK W : Sums(W, F, S)
  BY SumsExist
<1>2. PICK V : Sums(V, D, T)
  BY <1>0, SumsExist
<1>3. PICK U : Sums(U, H, S)
  BY SumsExist
<1>4. Additive(W, F, S)
  BY <1>1, SumsAre
<1>5. Additive(V, D, T)
  BY <1>0, <1>2, SumsAre
<1>6. Additive(U, H, S)
  BY <1>3, SumsAre
<1> DEFINE Q == {s \in SUBSET S : U[s] = W[s] + V[s \cap T]}
<1>7. ASSUME NEW s \in SUBSET S, \A x \in s : s \ {x} \in Q PROVE s \in Q
  <2>1. CASE s = {}
    <3> QED BY <2>1, <1>4, <1>5, <1>6 DEF Additive
  <2>2. CASE s # {}
    <3>1. PICK x \in s : TRUE
      BY <2>2
    <3> DEFINE r == s \ {x}
    <3>2. /\ U[s] = H[x] + U[r] /\ W[s] = F[x] + W[r] /\ U[r] = W[r] + V[r \cap T]
          /\ H[x] \in Int /\ F[x] \in Int /\ U[r] \in Int /\ W[r] \in Int /\ V[r \cap T] \in Int
      BY <1>4, <1>5, <1>6, <1>7 DEF Additive
    <3>3. CASE x \in T
      <4>1. r \cap T = (s \cap T) \ {x} /\ x \in s \cap T /\ s \cap T \in SUBSET T
        BY <3>3
      <4> HIDE DEF r
      <4>2. V[s \cap T] = D[x] + V[r \cap T]
        <5>1. \A t \in SUBSET T : \A y \in t : V[t] = D[y] + V[t \ {y}]
          BY <1>5 DEF Additive
        <5> DEFINE t == s \cap T
        <5>2. t \in SUBSET T /\ x \in t /\ r \cap T = t \ {x}
          BY <4>1
        <5> HIDE DEF t
        <5>3. V[t] = D[x] + V[t \ {x}]
          BY <5>1, <5>2
        <5> QED BY <5>2, <5>3 DEF t
      <4>4. D[x] \in Int
        BY <3>3
      <4>3. H[x] = F[x] + D[x]
        BY <3>3
      <4> QED BY <4>2, <4>3, <4>4, <3>2
    <3>4. CASE x \notin T
      <4>1. r \cap T = s \cap T
        BY <3>4
      <4>2. H[x] = F[x]
        BY <3>4
      <4> HIDE DEF r
      <4>3. V[r \cap T] = V[s \cap T]
        BY <4>1
      <4> DEFINE v == V[s \cap T]
      <4>4. U[s] = F[x] + (W[r] + v) /\ W[s] = F[x] + W[r] /\ v \in Int
        BY <4>2, <4>3, <3>2
      <4> HIDE DEF v
      <4>5. U[s] = W[s] + v
        BY <4>4, <3>2
      <4> QED BY <4>5 DEF v
    <3> QED BY <3>3, <3>4
  <2> QED BY <2>1, <2>2
<1> HIDE DEF Q
<1>8. S \in Q
  BY <1>7, SubsetInduction
<1>9. Total(H) = U[S] /\ Total(F) = W[S]
  BY <1>1, <1>3, SumIs
<1>10. Total(D) = V[T]
  BY <1>0, <1>2, SumIs
<1>11. S \cap T = T
  OBVIOUS
<1> QED BY <1>8, <1>9, <1>10, <1>11 DEF Q

LEMMA SumOfOne ==
  ASSUME NEW x, NEW D \in [{x} -> Int]
  PROVE  Total(D) = D[x]
<1>0. IsFiniteSet({x})
  BY FS_Singleton
<1>1. PICK W : Sums(W, D, {x})
  BY <1>0, SumsExist
<1>2. Total(D) = W[{x}]
  BY <1>0, <1>1, SumIs
<1>3. Additive(W, D, {x})
  BY <1>0, <1>1, SumsAre
<1>4. W[{x}] = D[x] + W[{x} \ {x}] /\ W[{}] = 0
  BY <1>3 DEF Additive
<1>5. {x} \ {x} = {} /\ D[x] \in Int
  OBVIOUS
<1> QED BY <1>2, <1>4, <1>5

\* One element more that is 0 adds nothing.
LEMMA SumMore ==
  ASSUME NEW S, IsFiniteSet(S), NEW x, x \notin S,
         NEW F \in [S -> Int], NEW H \in [S \cup {x} -> Int],
         H[x] = 0, \A y \in S : H[y] = F[y]
  PROVE  Total(H) = Total(F)
<1> DEFINE R == S \cup {x}
<1>0. IsFiniteSet(R)
  BY FS_AddElement
<1>1. PICK W : Sums(W, H, R)
  BY <1>0, SumsExist
<1>2. Additive(W, H, R)
  BY <1>0, <1>1, SumsAre
<1>3. R \ {x} = S
  OBVIOUS
<1>4. W[R] = H[x] + W[S] /\ W[S] \in Int
  BY <1>2, <1>3 DEF Additive
<1>5. Total(H) = W[R]
  BY <1>0, <1>1, SumIs
<1>6. Total(F) = W[S]
  BY <1>0, <1>1, SumIs
<1> QED BY <1>4, <1>5, <1>6

LEMMA ItsDouble == \A n \in Int : n = n + n => n = 0
  OBVIOUS

\* A sum of zeros is 0: they add nothing to themselves.
LEMMA SumOfZeros ==
  ASSUME NEW F, IsFiniteSet(DOMAIN F), F \in [DOMAIN F -> Int], \A x \in DOMAIN F : F[x] = 0
  PROVE  Total(F) = 0
<1> DEFINE S == DOMAIN F
<1>1. Adds(F, F, F, S, S)
  BY DEF Adds
<1>2. Total(F) = Total(F) + Total(F)
  BY <1>1, SumAdd
<1>3. Total(F) \in Int
  BY SumType
<1> DEFINE n == Total(F)
<1>4. n = n + n /\ n \in Int
  BY <1>2, <1>3
<1> HIDE DEF S, n
<1> QED BY <1>4, ItsDouble DEF n

Part(F, T) == [x \in T |-> F[x]]

\* The sum over a set is that over a part of it and that over the rest.
LEMMA SumSplit ==
  ASSUME NEW S, IsFiniteSet(S), NEW F \in [S -> Int], NEW T \in SUBSET S
  PROVE  /\ Total(F) = Total(Part(F, T)) + Total(Part(F, S \ T))
         /\ Total(Part(F, T)) \in Int /\ Total(Part(F, S \ T)) \in Int /\ Total(F) \in Int
<1> DEFINE P == Part(F, T)
           R == Part(F, S \ T)
           Z == [x \in S |-> IF x \in T THEN 0 ELSE F[x]]
           O == [x \in S |-> 0]
<1>1. IsFiniteSet(T) /\ IsFiniteSet(S \ T)
  BY FS_Subset
<1>2. P \in [T -> Int] /\ R \in [S \ T -> Int] /\ Z \in [S -> Int] /\ O \in [S -> Int]
  BY DEF Part
<1>3. Adds(F, Z, P, S, T)
  BY DEF Adds, Part
<1>4. Adds(Z, O, R, S, S \ T)
  BY DEF Adds, Part
<1>5. DOMAIN O = S /\ \A x \in S : O[x] = 0
  OBVIOUS
<1> HIDE DEF P, R, Z, O
<1>6. Total(O) = 0
  BY <1>2, <1>5, SumOfZeros
<1>7. Total(F) = Total(Z) + Total(P) /\ Total(Z) = Total(O) + Total(R)
  BY <1>3, <1>4, SumAdd
<1>8. Total(P) \in Int /\ Total(R) \in Int /\ Total(F) \in Int
  BY <1>1, <1>2, SumType
<1> QED BY <1>6, <1>7, <1>8 DEF P, R

\* G has the values of F at other places.
Reorders(b, G, T, F, S) ==
    /\ IsFiniteSet(S) /\ F \in [S -> Int] /\ G \in [T -> Int] /\ b \in Bijection(T, S)
    /\ \A x \in T : G[x] = F[b[x]]

\* The order of what is added does not matter.
LEMMA SumReordered ==
  ASSUME NEW S, NEW F, NEW T, NEW G, NEW b, Reorders(b, G, T, F, S)
  PROVE  Total(G) = Total(F)
<1> USE DEF Reorders
<1> DEFINE Image(t) == {b[x] : x \in t}
<1>1. b \in Injection(T, S) /\ b \in Surjection(T, S)
  BY DEF Bijection
<1>2. /\ \A x \in T : b[x] \in S
      /\ \A x \in T : \A y \in T : b[x] = b[y] => x = y
      /\ Image(T) = S
  BY <1>1 DEF Injection, Surjection, IsInjective
<1>3. IsFiniteSet(T)
  BY <1>1, FS_Injection
<1>4. PICK W : Sums(W, F, S)
  BY SumsExist
<1>5. PICK V : Sums(V, G, T)
  BY <1>3, SumsExist
<1>6. Additive(W, F, S) /\ Additive(V, G, T)
  BY <1>3, <1>4, <1>5, SumsAre
<1> DEFINE Q == {t \in SUBSET T : V[t] = W[Image(t)]}
<1>7. ASSUME NEW t \in SUBSET T, \A x \in t : t \ {x} \in Q PROVE t \in Q
  <2>1. CASE t = {}
    <3>1. Image(t) = {}
      BY <2>1
    <3> QED BY <2>1, <3>1, <1>6 DEF Additive
  <2>2. CASE t # {}
    <3>1. PICK x \in t : TRUE
      BY <2>2
    <3>2. Image(t \ {x}) = Image(t) \ {b[x]}
      BY <1>2
    <3>3. Image(t) \in SUBSET S /\ b[x] \in Image(t)
      BY <1>2
    <3>4. V[t \ {x}] = W[Image(t \ {x})]
      BY <1>7
    <3> HIDE DEF Image
    <3>5. W[Image(t)] = F[b[x]] + W[Image(t) \ {b[x]}]
      BY <3>3, <1>6 DEF Additive
    <3>6. V[t] = G[x] + V[t \ {x}]
      BY <1>6 DEF Additive
    <3> QED BY <3>2, <3>4, <3>5, <3>6
  <2> QED BY <2>1, <2>2
<1> HIDE DEF Q
<1>8. T \in Q
  BY <1>3, <1>7, SubsetInduction
<1>9. Total(G) = V[T] /\ Total(F) = W[S]
  BY <1>3, <1>4, <1>5, SumIs
<1> QED BY <1>2, <1>8, <1>9 DEF Q

\* Elements of a finite set whose sets of elements before them grow have ranks
\* of their own.
Ranked(S, R) ==
    /\ IsFiniteSet(S)
    /\ \A x \in S : R[x] \in SUBSET S /\ x \in R[x]
    /\ \A x, y \in S : x # y => R[x] # R[y] /\ (R[x] \subseteq R[y] \/ R[y] \subseteq R[x])

LEMMA Ranks ==
  ASSUME NEW S, NEW R, Ranked(S, R)
  PROVE  [x \in S |-> Cardinality(R[x])] \in Bijection(S, 1..Cardinality(S))
<1> USE DEF Ranked
<1> DEFINE n == Cardinality(S)
           rank == [x \in S |-> Cardinality(R[x])]
<1>1. n \in Nat /\ IsFiniteSet(1..n) /\ Cardinality(1..n) = n
  BY FS_CardinalityType, FS_Interval
<1>2. ASSUME NEW x \in S PROVE IsFiniteSet(R[x]) /\ rank[x] \in 1..n
  <2>1. IsFiniteSet(R[x]) /\ Cardinality(R[x]) <= n
    BY FS_Subset
  <2>2. Cardinality(R[x]) \in Nat /\ Cardinality(R[x]) # 0
    BY <2>1, FS_CardinalityType, FS_EmptySet
  <2> QED BY <1>1, <2>1, <2>2
<1>3. ASSUME NEW x \in S, NEW y \in S, rank[x] = rank[y] PROVE x = y
  <2>1. R[x] \subseteq R[y] => R[x] = R[y]
    BY <1>2, <1>3, FS_Subset
  <2>2. R[y] \subseteq R[x] => R[x] = R[y]
    BY <1>2, <1>3, FS_Subset
  <2> QED BY <2>1, <2>2
<1> HIDE DEF n
<1>4. rank \in Injection(S, 1..n)
  BY <1>2, <1>3 DEF Injection, IsInjective
<1>5. rank \in Surjection(S, 1..n)
  BY <1>1, <1>4, FS_Injection DEF n
<1> QED BY <1>4, <1>5 DEF Bijection, n

\* What is chosen by its rank is the inverse.
LEMMA Inverses ==
  ASSUME NEW S, NEW T, NEW b \in Bijection(S, T)
  PROVE  [y \in T |-> CHOOSE x \in S : b[x] = y] \in Bijection(T, S)
<1> DEFINE c == [y \in T |-> CHOOSE x \in S : b[x] = y]
<1>1. /\ \A x \in S : b[x] \in T
      /\ \A x \in S : \A y \in S : b[x] = b[y] => x = y
      /\ \A y \in T : \E x \in S : b[x] = y
  BY DEF Bijection, Injection, Surjection, IsInjective
<1>2. \A y \in T : c[y] \in S /\ b[c[y]] = y
  BY <1>1
<1>3. c \in [T -> S]
  BY <1>2
<1> HIDE DEF c
<1>4. c \in Injection(T, S)
  BY <1>2, <1>3 DEF Injection, IsInjective
<1>5. \A x \in S : c[b[x]] = x
  BY <1>1, <1>2
<1>6. c \in Surjection(T, S)
  BY <1>1, <1>3, <1>5 DEF Surjection
<1> QED BY <1>4, <1>6 DEF Bijection, c

-----------------------------------------------------------------------------
(* The lines of an asset. *)

LineRecord == [seq : Int, amount : Int, date : Int, move : Nat \cup {NoMove}]

LEMMA LinesAre ==
  ASSUME NEW lines \in Seq(LineRecord)
  PROVE  /\ Len(lines) \in Nat /\ DOMAIN lines = 1..Len(lines) /\ IsFiniteSet(DOMAIN lines)
         /\ IsFiniteSet(LinkedIn(lines)) /\ LinkedIn(lines) \in SUBSET DOMAIN lines
         /\ Cardinality(LinkedIn(lines)) \in Nat
         /\ \A i \in DOMAIN lines : lines[i] \in LineRecord
<1>1. Len(lines) \in Nat /\ DOMAIN lines = 1..Len(lines) /\ \A i \in DOMAIN lines : lines[i] \in LineRecord
  OBVIOUS
<1>2. IsFiniteSet(DOMAIN lines)
  BY <1>1, FS_Interval
<1>3. LinkedIn(lines) \in SUBSET DOMAIN lines
  BY DEF LinkedIn
<1>4. IsFiniteSet(LinkedIn(lines))
  BY <1>2, <1>3, FS_Subset
<1> QED BY <1>1, <1>2, <1>3, <1>4, FS_CardinalityType

LEMMA AmountType ==
  ASSUME NEW lines \in Seq(LineRecord), NEW S \in SUBSET DOMAIN lines
  PROVE  [i \in S |-> lines[i].amount] \in [S -> Int] /\ IsFiniteSet(S) /\ Amount(lines, S) \in Int
<1>1. IsFiniteSet(S)
  BY LinesAre, FS_Subset
<1>2. [i \in S |-> lines[i].amount] \in [S -> Int]
  BY LinesAre DEF LineRecord
<1> QED BY <1>1, <1>2, SumType DEF Amount

\* The amount of some lines and of the others.
LEMMA AmountSplit ==
  ASSUME NEW lines \in Seq(LineRecord), NEW S \in SUBSET DOMAIN lines, NEW T \in SUBSET S
  PROVE  Amount(lines, S) = Amount(lines, T) + Amount(lines, S \ T)
<1> DEFINE F == [i \in S |-> lines[i].amount]
<1>1. F \in [S -> Int] /\ IsFiniteSet(S)
  BY AmountType
<1>2. Part(F, T) = [i \in T |-> lines[i].amount] /\ Part(F, S \ T) = [i \in S \ T |-> lines[i].amount]
  BY DEF Part
<1> HIDE DEF F
<1>3. Total(F) = Total(Part(F, T)) + Total(Part(F, S \ T))
  BY <1>1, SumSplit
<1> QED BY <1>2, <1>3 DEF Amount, F

\* o arranges the lines with an entry.
Arranges(o, lines) ==
    /\ o \in Bijection(1..Cardinality(LinkedIn(lines)), LinkedIn(lines))
    /\ Linked(lines) = [n \in 1..Cardinality(LinkedIn(lines)) |-> lines[o[n]]]

LEMMA LinkedOrdered ==
  ASSUME NEW lines \in Seq(LineRecord)
  PROVE  \E o : Arranges(o, lines)
<1> DEFINE S == LinkedIn(lines)
           R == [i \in S |-> {j \in S : j <= i}]
           rank == [i \in S |-> Cardinality(R[i])]
           n == Cardinality(S)
           o == [k \in 1..n |-> CHOOSE i \in S : rank[i] = k]
<1>1. IsFiniteSet(S) /\ S \subseteq Int
  BY LinesAre
<1>2. Ranked(S, R)
  BY <1>1 DEF Ranked
<1>3. rank \in Bijection(S, 1..n)
  BY <1>2, Ranks
<1>4. o \in Bijection(1..n, S)
  BY <1>3, Inverses
<1>5. \A k \in 1..n : o[k] = CHOOSE i \in S : Cardinality({j \in S : j <= i}) = k
  OBVIOUS
<1>6. Linked(lines) = [k \in 1..n |-> lines[CHOOSE i \in S : Cardinality({j \in S : j <= i}) = k]]
  BY Zenon DEF Linked
<1> HIDE DEF o, n, S
<1>7. Linked(lines) = [k \in 1..n |-> lines[o[k]]]
  BY <1>5, <1>6
<1> QED BY <1>4, <1>7 DEF Arranges, n, S

LEMMA LinkedAre ==
  ASSUME NEW lines \in Seq(LineRecord)
  PROVE  /\ Linked(lines) \in Seq(LineRecord) /\ Len(Linked(lines)) = Cardinality(LinkedIn(lines))
         /\ \A k \in DOMAIN Linked(lines) : \E i \in LinkedIn(lines) : Linked(lines)[k] = lines[i]
         /\ \A i \in LinkedIn(lines) : \E k \in DOMAIN Linked(lines) : Linked(lines)[k] = lines[i]
         /\ Amount(Linked(lines), DOMAIN Linked(lines)) = Amount(lines, LinkedIn(lines))
<1> DEFINE S == LinkedIn(lines)
           n == Cardinality(S)
           L == Linked(lines)
<1>1. n \in Nat /\ S \subseteq DOMAIN lines /\ IsFiniteSet(S)
  BY LinesAre
<1>2. PICK o : Arranges(o, lines)
  BY LinkedOrdered
<1>3. o \in Bijection(1..n, S) /\ L = [k \in 1..n |-> lines[o[k]]]
  BY <1>2 DEF Arranges
<1>4. \A k \in 1..n : o[k] \in S
  BY <1>3 DEF Bijection, Injection
<1>5. \A i \in S : \E k \in 1..n : o[k] = i
  BY <1>3 DEF Bijection, Surjection
<1>6. \A k \in 1..n : lines[o[k]] \in LineRecord
  BY <1>1, <1>4, LinesAre
<1> HIDE DEF n, S, L
<1>7. L \in Seq(LineRecord) /\ Len(L) = n /\ DOMAIN L = 1..n
  BY <1>1, <1>3, <1>6
<1>8. Amount(L, DOMAIN L) = Amount(lines, S)
  <2> DEFINE F == [i \in S |-> lines[i].amount]
             G == [k \in 1..n |-> L[k].amount]
  <2>1. F \in [S -> Int] /\ G \in [1..n -> Int]
    BY <1>1, <1>7, AmountType
  <2>2. \A k \in 1..n : G[k] = F[o[k]]
    BY <1>3, <1>4
  <2>3. o \in Bijection(1..n, S) /\ IsFiniteSet(S)
    BY <1>1, <1>3
  <2> HIDE DEF F, G
  <2>4. Reorders(o, G, 1..n, F, S)
    BY <2>1, <2>2, <2>3 DEF Reorders
  <2>5. Total(G) = Total(F)
    BY <2>4, SumReordered
  <2> QED BY <1>7, <2>5 DEF Amount, F, G
<1>9. /\ \A k \in DOMAIN L : \E i \in S : L[k] = lines[i]
      /\ \A i \in S : \E k \in DOMAIN L : L[k] = lines[i]
  BY <1>3, <1>4, <1>5, <1>7
<1> QED BY <1>7, <1>8, <1>9 DEF n, S, L

LEMMA ConcatAmount ==
  ASSUME NEW s \in Seq(LineRecord), NEW t \in Seq(LineRecord)
  PROVE  /\ Amount(s \o t, DOMAIN s) = Amount(s, DOMAIN s)
         /\ Amount(s \o t, DOMAIN (s \o t)) = Amount(s, DOMAIN s) + Amount(t, DOMAIN t)
<1> DEFINE m == Len(s)
           k == Len(t)
           u == s \o t
<1>1. /\ m \in Nat /\ k \in Nat /\ DOMAIN s = 1..m /\ DOMAIN t = 1..k
      /\ u \in Seq(LineRecord) /\ DOMAIN u = 1..(m + k) /\ \A i \in 1..m : u[i] = s[i]
      /\ \A j \in 1..k : u[m + j] = t[j]
  OBVIOUS
<1> HIDE DEF m, k, u
<1>2. Amount(u, 1..m) = Amount(s, 1..m)
  BY <1>1 DEF Amount
<1>3. 1..m \subseteq DOMAIN u /\ DOMAIN u \ 1..m = (m + 1)..(m + k)
  BY <1>1
<1>4. Amount(u, DOMAIN u) = Amount(u, 1..m) + Amount(u, (m + 1)..(m + k))
  BY <1>1, <1>3, AmountSplit
<1>5. Amount(u, (m + 1)..(m + k)) = Amount(t, 1..k)
  <2> DEFINE T == (m + 1)..(m + k)
             F == [j \in 1..k |-> t[j].amount]
             G == [i \in T |-> u[i].amount]
             b == [i \in T |-> i - m]
  <2>1. F \in [1..k -> Int] /\ G \in [T -> Int] /\ IsFiniteSet(1..k)
    BY <1>1, <1>3, AmountType
  <2>2. \A i \in T : b[i] \in 1..k /\ m + b[i] = i
    BY <1>1
  <2>3. b \in Injection(T, 1..k)
    BY <1>1, <2>2 DEF Injection, IsInjective
  <2>4. \A j \in 1..k : m + j \in T /\ b[m + j] = j
    BY <1>1
  <2>5. b \in Surjection(T, 1..k)
    BY <2>2, <2>4 DEF Surjection
  <2>6. \A i \in T : G[i] = F[b[i]]
    BY <1>1, <2>2
  <2> HIDE DEF T, F, G, b
  <2>0. b \in Bijection(T, 1..k)
    BY <2>3, <2>5 DEF Bijection
  <2>7. Reorders(b, G, T, F, 1..k)
    BY <2>0, <2>1, <2>6 DEF Reorders
  <2>8. Total(G) = Total(F)
    BY <2>7, SumReordered
  <2> QED BY <2>8 DEF Amount, F, G, T
<1> QED BY <1>1, <1>2, <1>4, <1>5 DEF u

LEMMA AppendAmount ==
  ASSUME NEW s \in Seq(LineRecord), NEW x \in LineRecord
  PROVE  Amount(Append(s, x), DOMAIN Append(s, x)) = Amount(s, DOMAIN s) + x.amount
<1> DEFINE t == <<x>>
<1>1. t \in Seq(LineRecord) /\ Append(s, x) = s \o t /\ DOMAIN t = {1} /\ t[1] = x
  OBVIOUS
<1> HIDE DEF t
<1>2. [i \in {1} |-> t[i].amount] \in [{1} -> Int]
  BY <1>1 DEF LineRecord
<1>3. Amount(t, {1}) = t[1].amount
  BY <1>2, SumOfOne DEF Amount
<1> QED BY <1>1, <1>3, ConcatAmount

-----------------------------------------------------------------------------
(* Assets and their boards. *)

AssetRecord ==
    [state : States, price : Int \X Int, plan : PlanRecord \cup {NoPlan}, lines : Seq(LineRecord)]

\* An asset that exists has a plan.
HasPlan(r) == r \in AssetRecord /\ r.plan \in PlanRecord /\ CheckProrata(r.plan)

LEMMA LargestNumber ==
  ASSUME NEW S \in SUBSET Int, IsFiniteSet(S), S # {}
  PROVE  \E x \in S : \A y \in S : x >= y
<1> DEFINE Top(s) == \E x \in s : \A y \in s : x >= y
           Q == {s \in SUBSET S : s = {} \/ Top(s)}
<1>1. ASSUME NEW s \in SUBSET S, \A x \in s : s \ {x} \in Q PROVE s \in Q
  <2>1. CASE s = {}
    BY <2>1
  <2>2. CASE s # {}
    <3>1. PICK x \in s : TRUE
      BY <2>2
    <3>2. CASE s \ {x} = {}
      BY <3>1, <3>2
    <3>3. CASE s \ {x} # {}
      <4>1. PICK z \in s \ {x} : \A y \in s \ {x} : z >= y
        BY <1>1, <3>3
      <4>2. x \in Int /\ z \in Int
        OBVIOUS
      <4>3. CASE x >= z
        <5>1. \A y \in s : x >= y
          BY <4>1, <4>2, <4>3
        <5> QED BY <5>1
      <4>4. CASE z >= x
        <5>1. \A y \in s : z >= y
          BY <4>1, <4>2, <4>4
        <5> QED BY <5>1
      <4> QED BY <4>2, <4>3, <4>4
    <3> QED BY <3>2, <3>3
  <2> QED BY <2>1, <2>2
<1> HIDE DEF Q
<1>2. S \in Q
  BY <1>1, SubsetInduction
<1> QED BY <1>2 DEF Q

LEMMA MaxType ==
  ASSUME NEW S \in SUBSET Int, IsFiniteSet(S), S # {}
  PROVE  Max(S) \in Int
  BY LargestNumber DEF Max

LEMMA MinType ==
  ASSUME NEW S \in SUBSET Nat, S # {}
  PROVE  Min(S) \in Int
<1>1. \E x \in S : \A y \in S : x <= y
  BY SmallestNumber
<1>2. \A y \in S : y \in Int
  OBVIOUS
<1> QED BY <1>1, <1>2 DEF Min

LEMMA PeriodEndType ==
  ASSUME NEW month \in Nat, NEW period
  PROVE  PeriodEnd(month, period) \in Int
<1> DEFINE M == {m \in month..(month + 11) : m % 12 = 11}
           k == month % 12
<1>1. k \in 0..11 /\ (month + (11 - k)) % 12 = 11
  OBVIOUS
<1>2. month + (11 - k) \in M
  BY <1>1
<1>3. month..(month + 11) \subseteq Nat
  OBVIOUS
<1>4. M \in SUBSET Nat /\ M # {}
  BY <1>2, <1>3
<1> HIDE DEF M, k
<1>5. Min(M) \in Int
  BY <1>4, MinType
<1> QED BY <1>5 DEF PeriodEnd, M

LEMMA RoundType ==
  ASSUME NEW num \in Int, NEW den \in Nat \ {0}
  PROVE  Round(num, den) \in Int
<1> DEFINE d == 2 * den
           n == 2 * num + den
           k == den - 2 * num
<1>1. d \in Nat \ {0} /\ n \in Int /\ k \in Int
  OBVIOUS
<1> HIDE DEF d, n, k
<1>2. n \div d \in Int /\ k \div d \in Int
  BY <1>1
<1>3. -(k \div d) \in Int
  BY <1>2
<1> QED BY <1>2, <1>3 DEF Round, d, n, k

LEMMA RecordIs ==
  ASSUME NEW r, HasPlan(r)
  PROVE  /\ r.lines \in Seq(LineRecord) /\ r.price[1] \in Int /\ r.price[2] \in Int
         /\ r.plan.number \in Nat /\ r.plan.period \in Nat \ {0} /\ r.plan.start \in Nat /\ r.plan.end \in Int
         /\ r.plan.factor[1] \in Int /\ r.plan.factor[2] \in Nat \ {0}
         /\ r.plan.share[1] \in Int /\ r.plan.share[2] \in Nat \ {0}
         /\ r.plan.prorata \in BOOLEAN /\ r.plan.lastDay \in BOOLEAN
         /\ r.plan.prorata => r.plan.time = "number"
         /\ r.state \in States
<1>1. r \in AssetRecord /\ r.plan \in PlanRecord /\ CheckProrata(r.plan)
  BY DEF HasPlan
<1>2. r.price \in Int \X Int /\ r.lines \in Seq(LineRecord) /\ r.state \in States
  BY <1>1 DEF AssetRecord
<1>3. /\ r.plan.number \in Nat /\ r.plan.period \in Nat \ {0} /\ r.plan.start \in Nat /\ r.plan.end \in Int
      /\ r.plan.factor \in Int \X (Nat \ {0}) /\ r.plan.share \in Int \X (Nat \ {0})
      /\ r.plan.prorata \in BOOLEAN /\ r.plan.lastDay \in BOOLEAN
  BY <1>1 DEF PlanRecord
<1>4. r.plan.prorata => r.plan.time = "number"
  BY <1>1 DEF CheckProrata
<1> QED BY <1>2, <1>3, <1>4

LEMMA DatesType ==
  ASSUME NEW r, HasPlan(r)
  PROVE  /\ FirstDate(r) \in Int /\ Undone(r) \in Nat /\ Posted(r) \in Nat
         /\ ValueResidual(r) \in Int /\ r.lines \in Seq(LineRecord)
<1> DEFINE S == LinkedIn(r.lines)
           D == {r.lines[i].date : i \in S}
<1>1. r.lines \in Seq(LineRecord)
  BY RecordIs
<1>2. IsFiniteSet(S) /\ S \subseteq DOMAIN r.lines /\ \A i \in S : r.lines[i].date \in Int
  BY <1>1, LinesAre DEF LineRecord
<1>3. FirstDate(r) \in Int
  <2>1. CASE S # {}
    <3>1. D # {} /\ D \in SUBSET Int
      BY <1>2, <2>1
    <3> DEFINE f == [i \in S |-> r.lines[i].date]
    <3>2. f \in Surjection(S, D)
      BY DEF Surjection
    <3> HIDE DEF f, D
    <3>5. IsFiniteSet(D)
      BY <1>2, <3>2, FS_Surjection
    <3>3. Max(D) \in Int
      BY <3>1, <3>5, MaxType
    <3>4. Max(D) + r.plan.period \in Int
      BY <3>3, RecordIs
    <3> QED BY <2>1, <3>4 DEF FirstDate, D
  <2>2. CASE S = {}
    <3>1. PeriodEnd(r.plan.start, r.plan.period) \in Int /\ r.plan.start \in Int
      BY RecordIs, PeriodEndType
    <3> QED BY <2>2, <3>1 DEF FirstDate
  <2> QED BY <2>1, <2>2
<1>4. Undone(r) \in Nat
  <2> DEFINE M == {m \in FirstDate(r)..r.plan.end : (m - FirstDate(r)) % r.plan.period = 0}
  <2>1. IsFiniteSet(FirstDate(r)..r.plan.end)
    BY <1>3, RecordIs, FS_Interval
  <2>2. IsFiniteSet(M)
    BY <2>1, FS_Subset
  <2>3. Cardinality(M) \in Nat
    BY <2>2, FS_CardinalityType
  <2> HIDE DEF M
  <2>4. r.plan.number \in Nat
    BY RecordIs
  <2>5. Undone(r) = (IF r.plan.time = "number" THEN r.plan.number ELSE Cardinality(M)) + (IF r.plan.prorata THEN 1 ELSE 0)
    BY DEF Undone, M
  <2> QED BY <2>3, <2>4, <2>5
<1>5. Posted(r) \in Nat
  BY <1>2, FS_CardinalityType DEF Posted
<1>6. ValueResidual(r) \in Int
  <2>1. Amount(r.lines, S) \in Int
    BY <1>1, <1>2, AmountType
  <2> HIDE DEF S
  <2> QED BY <2>1, RecordIs DEF ValueResidual, S
<1> QED BY <1>1, <1>3, <1>4, <1>5, <1>6

LEMMA BoardAmountType ==
  ASSUME NEW r, HasPlan(r), NEW seq \in Int, NEW residual \in Int, NEW todo \in Int,
         NEW undone \in Nat, NEW posted \in Nat, posted < seq, seq <= undone,
         r.plan.prorata /\ r.plan.time = "number" => undone = r.plan.number + 1
  PROVE  BoardAmount(r.plan, seq, residual, todo, undone, posted) \in Int
<1> DEFINE p == r.plan
<1>1. /\ p.number \in Nat
      /\ p.prorata => p.time = "number"
      /\ p.factor[1] \in Int /\ p.factor[2] \in Nat \ {0}
      /\ p.share[1] \in Int /\ p.share[2] \in Nat \ {0}
  BY RecordIs
<1> HIDE DEF p
<1> DEFINE part == IF p.prorata /\ seq = 1 THEN p.share ELSE <<1, 1>>
           a == part[1]
           b == part[2]
           f == p.factor[1]
           g == p.factor[2]
<1>2. a \in Int /\ b \in Nat \ {0} /\ f \in Int /\ g \in Nat \ {0}
  BY <1>1
<1> HIDE DEF part
<1>3. BoardAmount(p, seq, residual, todo, undone, posted) =
        IF seq = undone THEN residual
        ELSE IF p.method = "degressive" THEN Round(residual * f * a, g * b)
        ELSE IF p.prorata THEN Round(todo * a, p.number * b)
        ELSE Round(todo, undone - posted)
  BY DEF BoardAmount, part
<1> HIDE DEF a, b, f, g
<1>4. residual * f * a \in Int /\ g * b \in Nat \ {0}
  BY <1>2
<1>0. \A m, k \in Nat \ {0} : m * k \in Nat \ {0}
  OBVIOUS
<1> DEFINE n == p.number
<1>11. todo * a \in Int
  BY <1>2
<1>12. n \in Nat
  BY <1>1
<1> HIDE DEF n
<1>13. n # 0 => n * b \in Nat \ {0}
  BY <1>0, <1>2, <1>12
<1>5. todo * a \in Int /\ (p.number # 0 => p.number * b \in Nat \ {0})
  BY <1>11, <1>13 DEF n
<1>6. undone - posted \in Nat \ {0}
  OBVIOUS
<1>14. p.prorata /\ seq # undone => p.number # 0
  <2>1. p.prorata => undone = p.number + 1
    BY <1>1 DEF p
  <2> QED BY <1>1, <2>1
<1>7. Round(residual * f * a, g * b) \in Int
  BY <1>4, RoundType
<1>8. p.prorata /\ seq # undone => Round(todo * a, p.number * b) \in Int
  BY <1>5, <1>14, RoundType
<1>9. Round(todo, undone - posted) \in Int
  BY <1>6, RoundType
<1>10. BoardAmount(p, seq, residual, todo, undone, posted) \in Int
  BY <1>3, <1>7, <1>8, <1>9
<1> QED BY <1>10 DEF p

\* The lines of a board, none with an entry, and its residual are the value.
BoardOf(b, value) ==
    /\ b.residual \in Int /\ b.date \in Int /\ b.lines \in Seq(LineRecord)
    /\ LinkedIn(b.lines) = {}
    /\ Amount(b.lines, DOMAIN b.lines) + b.residual = value

LEMMA AppendUnlinked ==
  ASSUME NEW s \in Seq(LineRecord), NEW x \in LineRecord, LinkedIn(s) = {}, ~IsLinked(x)
  PROVE  LinkedIn(Append(s, x)) = {}
<1> DEFINE t == Append(s, x)
           n == Len(s)
<1>1. n \in Nat /\ DOMAIN s = 1..n /\ DOMAIN t = 1..(n + 1) /\ t[n + 1] = x /\ \A i \in 1..n : t[i] = s[i]
  OBVIOUS
<1> HIDE DEF t, n
<1>2. \A i \in DOMAIN t : i \in 1..n \/ i = n + 1
  BY <1>1
<1>3. \A i \in 1..n : ~IsLinked(s[i])
  BY <1>1 DEF LinkedIn
<1>4. \A i \in DOMAIN t : ~IsLinked(t[i])
  BY <1>1, <1>2, <1>3
<1> QED BY <1>4 DEF LinkedIn, t

LEMMA WithLineIs ==
  ASSUME NEW r, HasPlan(r), NEW value \in Int, NEW b, BoardOf(b, value),
         Posted(r) < Undone(r), NEW seq \in (Posted(r) + 1)..Undone(r)
  PROVE  /\ BoardOf(WithLine(r, b, seq), value)
         /\ seq = Undone(r) => WithLine(r, b, seq).residual = 0
<1> DEFINE amount == BoardAmount(r.plan, seq, b.residual, ValueResidual(r), Undone(r), Posted(r))
           line == [seq |-> seq, amount |-> amount, date |-> b.date, move |-> NoMove]
           c == [residual |-> b.residual - amount, date |-> b.date + r.plan.period, lines |-> Append(b.lines, line)]
<1>0. /\ b.residual \in Int /\ b.date \in Int /\ b.lines \in Seq(LineRecord) /\ LinkedIn(b.lines) = {}
      /\ Amount(b.lines, DOMAIN b.lines) + b.residual = value
  BY DEF BoardOf
<1> DEFINE p == Posted(r)
           u == Undone(r)
           v == ValueResidual(r)
           e == b.residual
<1>14. p \in Nat /\ u \in Nat /\ v \in Int /\ e \in Int /\ p < u
  BY <1>0, DatesType
<1>15. seq \in Int /\ p < seq /\ seq <= u
  BY <1>14
<1>16. BoardAmount(r.plan, seq, e, v, u, p) \in Int
  <2>1. r.plan.prorata /\ r.plan.time = "number" => u = r.plan.number + 1
    BY RecordIs DEF Undone
  <2> HIDE DEF p, u, v, e
  <2> QED BY <1>14, <1>15, <2>1, BoardAmountType
<1>1. amount \in Int /\ seq \in Int
  BY <1>15, <1>16
<1>2. seq = Undone(r) => amount = b.residual
  BY DEF BoardAmount
<1>3. WithLine(r, b, seq) = IF amount = 0 THEN b ELSE c
  BY DEF WithLine
<1> HIDE DEF amount
<1>4. line \in LineRecord /\ ~IsLinked(line) /\ line.amount = amount
  BY <1>0, <1>1 DEF LineRecord, IsLinked
<1> HIDE DEF line
<1>5. Append(b.lines, line) \in Seq(LineRecord) /\ LinkedIn(Append(b.lines, line)) = {}
  BY <1>0, <1>4, AppendUnlinked
<1>6. Amount(Append(b.lines, line), DOMAIN Append(b.lines, line)) = Amount(b.lines, DOMAIN b.lines) + amount
  BY <1>0, <1>4, AppendAmount
<1>7. Amount(b.lines, DOMAIN b.lines) \in Int
  BY <1>0, AmountType
<1>8. r.plan.period \in Int
  BY RecordIs
<1>9. /\ c.residual = b.residual - amount /\ c.date = b.date + r.plan.period
      /\ c.lines = Append(b.lines, line)
  OBVIOUS
<1> HIDE DEF c
<1>10. Amount(c.lines, DOMAIN c.lines) + c.residual = value
  BY <1>0, <1>1, <1>6, <1>7, <1>9
<1>11. BoardOf(c, value)
  BY <1>0, <1>1, <1>5, <1>8, <1>9, <1>10 DEF BoardOf
<1>12. BoardOf(WithLine(r, b, seq), value)
  BY <1>3, <1>11
<1>13. seq = Undone(r) => WithLine(r, b, seq).residual = 0
  BY <1>0, <1>2, <1>3, <1>9
<1> QED BY <1>12, <1>13

\* f[seq] is the board up to the line number seq.
Boards(f, r, n) ==
    f = [seq \in Posted(r)..n |->
            IF seq = Posted(r) THEN [residual |-> ValueResidual(r), date |-> FirstDate(r), lines |-> <<>>]
            ELSE WithLine(r, f[seq - 1], seq)]

LEMMA BoardsAt ==
  ASSUME NEW r, NEW n, NEW f, Boards(f, r, n)
  PROVE  /\ DOMAIN f = Posted(r)..n
         /\ \A seq \in Posted(r)..n : f[seq] =
              IF seq = Posted(r) THEN [residual |-> ValueResidual(r), date |-> FirstDate(r), lines |-> <<>>]
              ELSE WithLine(r, f[seq - 1], seq)
  BY DEF Boards

LEMMA BoardsExist ==
  ASSUME NEW r, HasPlan(r)
  PROVE  \A n \in Nat : \E f : Boards(f, r, Posted(r) + n)
<1> DEFINE p == Posted(r)
           Q == {n \in Nat : \E f : Boards(f, r, p + n)}
           start == [residual |-> ValueResidual(r), date |-> FirstDate(r), lines |-> <<>>]
<1>0. p \in Nat
  BY DatesType
<1>1. 0 \in Q
  <2> DEFINE f == [seq \in p..p |-> start]
  <2>1. p + 0 = p /\ \A seq \in p..p : seq = p
    BY <1>0
  <2>2. Boards(f, r, p)
    BY <2>1 DEF Boards
  <2> QED BY <2>1, <2>2
<1>2. ASSUME NEW n \in Nat, n \in Q PROVE n + 1 \in Q
  <2>1. PICK f : Boards(f, r, p + n)
    BY <1>2
  <2> DEFINE m == p + n
             g == [seq \in p..(m + 1) |-> IF seq = m + 1 THEN WithLine(r, f[m], m + 1) ELSE f[seq]]
  <2>2. m \in Nat /\ p <= m /\ p + (n + 1) = m + 1
    BY <1>0
  <2>3. \A seq \in p..m : f[seq] = IF seq = p THEN start ELSE WithLine(r, f[seq - 1], seq)
    BY <2>1, BoardsAt
  <2> HIDE DEF m, start
  <2>4. \A seq \in p..m : g[seq] = f[seq]
    BY <1>0, <2>2
  <2>5. g[m + 1] = WithLine(r, g[m], m + 1)
    BY <1>0, <2>2, <2>4
  <2>6. \A seq \in p..(m + 1) : seq \in p..m \/ seq = m + 1
    BY <1>0, <2>2
  <2>7. \A seq \in p..(m + 1) : g[seq] = IF seq = p THEN start ELSE WithLine(r, g[seq - 1], seq)
    <3> SUFFICES ASSUME NEW seq \in p..(m + 1) PROVE g[seq] = IF seq = p THEN start ELSE WithLine(r, g[seq - 1], seq)
      OBVIOUS
    <3>1. CASE seq = m + 1
      <4>1. seq # p /\ seq - 1 = m
        BY <1>0, <2>2, <3>1
      <4> QED BY <2>5, <3>1, <4>1
    <3>2. CASE seq \in p..m
      <4>1. seq # p => seq - 1 \in p..m
        BY <1>0, <2>2, <3>2
      <4>2. g[seq] = f[seq] /\ (seq # p => g[seq - 1] = f[seq - 1])
        BY <2>4, <3>2, <4>1
      <4> HIDE DEF g
      <4> QED BY <2>3, <3>2, <4>2
    <3> QED BY <2>6, <3>1, <3>2
  <2>8. g = [seq \in p..(m + 1) |-> g[seq]]
    OBVIOUS
  <2> HIDE DEF g
  <2>9. g = [seq \in p..(m + 1) |-> IF seq = p THEN start ELSE WithLine(r, g[seq - 1], seq)]
    BY <2>7, <2>8
  <2>10. Boards(g, r, m + 1)
    BY <2>9 DEF Boards, start
  <2> QED BY <2>2, <2>10
<1> HIDE DEF Q
<1>3. \A n \in Nat : n \in Q
  BY <1>1, <1>2, NumberInduction
<1> QED BY <1>3 DEF Q

\* The planned lines depreciate what is left of the value, if it is not 0 and
\* there are periods left for them.
LEMMA PlannedAre ==
  ASSUME NEW r, HasPlan(r)
  PROVE  /\ Planned(r) \in Seq(LineRecord) /\ LinkedIn(Planned(r)) = {}
         /\ Planned(r) # <<>> =>
              Amount(Planned(r), DOMAIN Planned(r)) = ValueResidual(r)
         /\ Planned(r) = <<>> => ValueResidual(r) = 0 \/ Undone(r) <= Posted(r)
<1> DEFINE p == Posted(r)
           u == Undone(r)
           value == ValueResidual(r)
           start == [residual |-> value, date |-> FirstDate(r), lines |-> <<>>]
           f == CHOOSE f : Boards(f, r, u)
<1>0. p \in Nat /\ u \in Nat /\ value \in Int /\ FirstDate(r) \in Int
  BY DatesType
<1>1. <<>> \in Seq(LineRecord) /\ LinkedIn(<<>>) = {} /\ DOMAIN <<>> = {}
  BY DEF LinkedIn
<1>2. CASE value = 0 \/ u <= p
  <2>1. Planned(r) = <<>>
    BY <1>2 DEF Planned
  <2> QED BY <1>1, <1>2, <2>1
<1>3. CASE ~(value = 0 \/ u <= p)
  <2>1. Planned(r) = f[u].lines
    <3>1. Planned(r) = IF value = 0 \/ u <= p THEN <<>> ELSE f[u].lines
      BY Zenon DEF Planned, Boards
    <3> QED BY <1>3, <3>1
  <2>2. p < u /\ u - p \in Nat /\ p + (u - p) = u
    BY <1>0, <1>3
  <2>3. Boards(f, r, u)
    <3>1. \E g : Boards(g, r, p + (u - p))
      BY <2>2, BoardsExist
    <3> QED BY <2>2, <3>1
  <2> HIDE DEF f
  <2>4. \A seq \in p..u : f[seq] = IF seq = p THEN start ELSE WithLine(r, f[seq - 1], seq)
    BY <2>3, BoardsAt
  <2>5. BoardOf(start, value)
    <3>1. Amount(<<>>, {}) = 0
      <4> DEFINE F == [i \in {} |-> <<>>[i].amount]
      <4>1. F \in [{} -> Int] /\ DOMAIN F = {}
        OBVIOUS
      <4>2. IsFiniteSet({})
        BY FS_EmptySet
      <4> HIDE DEF F
      <4>3. Total(F) = 0
        BY <4>1, <4>2, SumOfZeros
      <4> QED BY <4>3 DEF Amount, F
    <3> QED BY <1>0, <1>1, <3>1 DEF BoardOf
  <2> DEFINE Q == {n \in Nat : p + n <= u => BoardOf(f[p + n], value)}
  <2>6. 0 \in Q
    <3>1. p + 0 = p /\ p \in p..u
      BY <1>0, <2>2
    <3>2. f[p] = start
      BY <2>4, <3>1
    <3> QED BY <2>5, <3>1, <3>2
  <2>7. ASSUME NEW n \in Nat, n \in Q PROVE n + 1 \in Q
    <3> SUFFICES ASSUME p + (n + 1) <= u PROVE BoardOf(f[p + (n + 1)], value)
      OBVIOUS
    <3> DEFINE seq == p + (n + 1)
    <3>1. seq \in (p + 1)..u /\ seq \in p..u /\ seq # p /\ seq - 1 = p + n /\ p + n <= u
      BY <1>0
    <3>2. BoardOf(f[seq - 1], value)
      BY <2>7, <3>1
    <3>3. f[seq] = WithLine(r, f[seq - 1], seq)
      BY <2>4, <3>1
    <3> HIDE DEF seq
    <3>4. BoardOf(WithLine(r, f[seq - 1], seq), value)
      BY <1>0, <2>2, <3>1, <3>2, WithLineIs
    <3> QED BY <3>3, <3>4 DEF seq
  <2> HIDE DEF Q
  <2>8. \A n \in Nat : n \in Q
    BY <2>6, <2>7, NumberInduction
  <2> DEFINE b == f[u]
             c == f[u - 1]
  <2>9. BoardOf(c, value)
    <3>1. u - 1 - p \in Nat /\ p + (u - 1 - p) = u - 1
      BY <1>0, <2>2
    <3>2. u - 1 - p \in Q
      BY <2>8, <3>1
    <3>3. p + (u - 1 - p) <= u => BoardOf(f[p + (u - 1 - p)], value)
      BY <3>2 DEF Q
    <3> QED BY <1>0, <3>1, <3>3
  <2>10. b = WithLine(r, c, u) /\ u \in (p + 1)..u
    BY <1>0, <2>2, <2>4
  <2> HIDE DEF b, c
  <2>11. BoardOf(b, value) /\ b.residual = 0
    BY <1>0, <2>2, <2>9, <2>10, WithLineIs
  <2>12. b.lines \in Seq(LineRecord) /\ LinkedIn(b.lines) = {} /\ Amount(b.lines, DOMAIN b.lines) + 0 = value
    BY <2>11 DEF BoardOf
  <2>13. Amount(b.lines, DOMAIN b.lines) \in Int
    BY <2>12, AmountType
  <2>14. Amount(b.lines, DOMAIN b.lines) = value
    BY <2>12, <2>13
  <2>15. b.lines # <<>>
    <3> SUFFICES ASSUME b.lines = <<>> PROVE FALSE
      OBVIOUS
    <3>1. BoardOf(start, value) /\ start.lines = <<>> /\ start.residual = value
      BY <2>5
    <3>2. Amount(<<>>, DOMAIN <<>>) + value = value
      BY <3>1 DEF BoardOf
    <3> QED BY <1>0, <1>3, <2>13, <2>14, <3>2
  <2> QED BY <2>1, <2>12, <2>14, <2>15 DEF b
<1> QED BY <1>2, <1>3

-----------------------------------------------------------------------------
(* What holds of an asset, and the steps of one. *)

LEMMA ConcatIs ==
  ASSUME NEW s \in Seq(LineRecord), NEW t \in Seq(LineRecord)
  PROVE  /\ s \o t \in Seq(LineRecord) /\ DOMAIN (s \o t) = 1..(Len(s) + Len(t))
         /\ \A i \in 1..Len(s) : (s \o t)[i] = s[i]
         /\ \A j \in 1..Len(t) : (s \o t)[Len(s) + j] = t[j]
  OBVIOUS

\* new has the lines of lines with an entry, in their order, and those of tail,
\* which have none.
Prefixed(new, lines, tail) ==
    LET S == LinkedIn(lines)
        T == LinkedIn(new)
    IN /\ new \in Seq(LineRecord)
       /\ T = 1..Cardinality(S) /\ Cardinality(T) = Cardinality(S)
       /\ \A k \in T : new[k] = Linked(lines)[k]
       /\ \A k \in T : \E i \in S : new[k] = lines[i]
       /\ \A i \in S : \E k \in T : new[k] = lines[i]
       /\ Amount(new, T) = Amount(lines, S)
       /\ Amount(new, DOMAIN new) = Amount(lines, S) + Amount(tail, DOMAIN tail)
       /\ T = DOMAIN new <=> tail = <<>>

LEMMA PrefixIs ==
  ASSUME NEW lines \in Seq(LineRecord), NEW tail \in Seq(LineRecord), LinkedIn(tail) = {}
  PROVE  Prefixed(Linked(lines) \o tail, lines, tail)
<1> DEFINE L == Linked(lines)
           n == Cardinality(LinkedIn(lines))
           k == Len(tail)
           new == L \o tail
<1>1. /\ L \in Seq(LineRecord) /\ Len(L) = n /\ n \in Nat
      /\ \A j \in DOMAIN L : \E i \in LinkedIn(lines) : L[j] = lines[i]
      /\ \A i \in LinkedIn(lines) : \E j \in DOMAIN L : L[j] = lines[i]
      /\ Amount(L, DOMAIN L) = Amount(lines, LinkedIn(lines))
  BY LinkedAre, LinesAre
<1>2. \A i \in LinkedIn(lines) : IsLinked(lines[i])
  BY DEF LinkedIn
<1>3. /\ k \in Nat /\ DOMAIN L = 1..n /\ DOMAIN tail = 1..k /\ (tail = <<>> <=> k = 0)
  BY <1>1
<1>4. /\ new \in Seq(LineRecord) /\ DOMAIN new = 1..(n + k)
      /\ \A j \in 1..n : new[j] = L[j]
      /\ \A j \in 1..k : new[n + j] = tail[j]
  <2> HIDE DEF L, n
  <2> QED BY <1>1, ConcatIs
<1> HIDE DEF L, n, k
<1>5. \A j \in 1..n : IsLinked(new[j])
  BY <1>1, <1>2, <1>3, <1>4
<1>6. \A j \in 1..k : ~IsLinked(tail[j])
  BY <1>3 DEF LinkedIn
<1>7. \A j \in DOMAIN new : j \in 1..n \/ (j - n \in 1..k /\ n + (j - n) = j)
  BY <1>1, <1>3, <1>4
<1>8. \A j \in DOMAIN new : j \notin 1..n => ~IsLinked(new[j])
  BY <1>4, <1>6, <1>7
<1>9. 1..n \subseteq DOMAIN new
  BY <1>1, <1>3, <1>4
<1>10. LinkedIn(new) = 1..n
  BY <1>5, <1>8, <1>9 DEF LinkedIn
<1>11. Cardinality(1..n) = n
  BY <1>1, FS_Interval
<1>12. /\ Amount(new, 1..n) = Amount(L, 1..n)
       /\ Amount(new, DOMAIN new) = Amount(L, 1..n) + Amount(tail, DOMAIN tail)
  BY <1>1, <1>3, ConcatAmount
<1> HIDE DEF new
<1>13. 1..n = DOMAIN new <=> k = 0
  BY <1>1, <1>3, <1>4
<1>14. /\ \A j \in LinkedIn(new) : \E i \in LinkedIn(lines) : new[j] = lines[i]
       /\ \A i \in LinkedIn(lines) : \E j \in LinkedIn(new) : new[j] = lines[i]
  BY <1>1, <1>3, <1>4, <1>10
<1>15. /\ LinkedIn(new) = DOMAIN L /\ \A j \in LinkedIn(new) : new[j] = L[j]
       /\ Amount(new, LinkedIn(new)) = Amount(lines, LinkedIn(lines))
       /\ Amount(new, DOMAIN new) = Amount(lines, LinkedIn(lines)) + Amount(tail, DOMAIN tail)
       /\ LinkedIn(new) = DOMAIN new <=> tail = <<>>
  BY <1>1, <1>3, <1>4, <1>10, <1>12, <1>13
<1> QED BY <1>4, <1>10, <1>11, <1>14, <1>15 DEF Prefixed, L, n, new

MoveRecord == [state : {"draft", "posted", "cancel"}, amount : Int]

(* What holds of an asset while its entries are among those of mv. *)
Moved(r, mv) == \A i \in LinkedIn(r.lines) : r.lines[i].move \in DOMAIN mv

\* Assets are without entries before they are confirmed.
Starts(r) == r.state = "draft" => LinkedIn(r.lines) = {}

Conserves(r) ==
    HasPlanned(r) => Amount(r.lines, DOMAIN r.lines) = r.price[1] - r.price[2]

Closes(r) ==
    r.state = "close" => /\ ValueResidual(r) = 0
                         /\ Amount(r.lines, DOMAIN r.lines) = r.price[1] - r.price[2]

\* What is booked in full waits for an entry to be posted: the one that booked
\* the rest, which would have closed the asset.
Waits(r, mv) ==
    r.state = "open" /\ LinkedIn(r.lines) # {} /\ ValueResidual(r) = 0 =>
        \E i \in LinkedIn(r.lines) : mv[r.lines[i].move].state # "posted"

\* A board that has run out of lines before the value has run out of periods.
Runs(r) ==
    r.state = "open" /\ ~HasPlanned(r) /\ r.lines # <<>> =>
        ValueResidual(r) = 0 \/ Undone(r) <= Posted(r)

AssetFits(r, mv) ==
    HasPlan(r) /\ r.state \in {"draft", "open", "close"} /\ Moved(r, mv) /\ Starts(r) /\ Waits(r, mv)

AssetHolds(r, mv) ==
    r = NoAsset \/ (AssetFits(r, mv) /\ Conserves(r) /\ Closes(r) /\ Runs(r))

\* What depends on the lines with an entry is the same when the others are replaced.
LEMMA PrefixFits ==
  ASSUME NEW r, HasPlan(r), NEW q \in AssetRecord, NEW tail \in Seq(LineRecord), LinkedIn(tail) = {},
         q.lines = Linked(r.lines) \o tail, q.state = r.state, q.price = r.price
  PROVE  /\ ValueResidual(q) = ValueResidual(r) /\ Posted(q) = Posted(r)
         /\ q.plan = r.plan => Undone(q) = Undone(r)
         /\ Amount(q.lines, DOMAIN q.lines) = r.price[1] - r.price[2] - ValueResidual(r) + Amount(tail, DOMAIN tail)
         /\ HasPlanned(q) <=> tail # <<>>
         /\ \A mv : Moved(r, mv) => Moved(q, mv)
         /\ Starts(r) => Starts(q)
         /\ \A mv : Waits(r, mv) => Waits(q, mv)
<1>0. r.lines \in Seq(LineRecord)
  BY RecordIs
<1> DEFINE S == LinkedIn(r.lines)
           T == LinkedIn(q.lines)
<1>1. /\ Cardinality(T) = Cardinality(S)
      /\ \A k \in T : \E i \in S : q.lines[k] = r.lines[i]
      /\ \A i \in S : \E k \in T : q.lines[k] = r.lines[i]
      /\ Amount(q.lines, T) = Amount(r.lines, S)
      /\ Amount(q.lines, DOMAIN q.lines) = Amount(r.lines, S) + Amount(tail, DOMAIN tail)
      /\ T = DOMAIN q.lines <=> tail = <<>>
  <2>1. Prefixed(q.lines, r.lines, tail)
    BY <1>0, PrefixIs
  <2> QED BY <2>1 DEF Prefixed
<1>2. T = {} <=> S = {}
  BY <1>1
<1>3. {q.lines[k].date : k \in T} = {r.lines[i].date : i \in S}
  <2>1. \A k \in T : \E i \in S : q.lines[k].date = r.lines[i].date
    BY <1>1
  <2>2. \A i \in S : \E k \in T : q.lines[k].date = r.lines[i].date
    BY <1>1
  <2> DEFINE C == {q.lines[k].date : k \in T}
             D == {r.lines[i].date : i \in S}
  <2>3. ASSUME NEW d PROVE d \in C <=> d \in D
    <3>1. ASSUME NEW k \in T, d = q.lines[k].date PROVE d \in D
      BY <2>1, <3>1, Zenon
    <3>2. ASSUME NEW i \in S, d = r.lines[i].date PROVE d \in C
      BY <2>2, <3>2, Zenon
    <3> QED BY <3>1, <3>2, Zenon
  <2> HIDE DEF C, D
  <2>4. C = D
    BY <2>3
  <2> QED BY <2>4 DEF C, D
<1>4. ValueResidual(q) = ValueResidual(r) /\ Posted(q) = Posted(r)
  BY <1>1 DEF ValueResidual, Posted
<1>5. q.plan = r.plan => Undone(q) = Undone(r)
  <2> SUFFICES ASSUME q.plan = r.plan PROVE Undone(q) = Undone(r)
    OBVIOUS
  <2>1. FirstDate(q) = FirstDate(r)
    BY <1>2, <1>3 DEF FirstDate
  <2> QED BY <2>1 DEF Undone
<1>6. Amount(q.lines, DOMAIN q.lines) = r.price[1] - r.price[2] - ValueResidual(r) + Amount(tail, DOMAIN tail)
  <2> DEFINE s == Amount(r.lines, S)
             t == Amount(tail, DOMAIN tail)
  <2>1. s \in Int /\ t \in Int
    BY <1>0, LinesAre, AmountType
  <2>2. r.price[1] \in Int /\ r.price[2] \in Int
    BY RecordIs
  <2>3. ValueResidual(r) = r.price[1] - s - r.price[2] /\ Amount(q.lines, DOMAIN q.lines) = s + t
    BY <1>1 DEF ValueResidual
  <2> HIDE DEF s, t
  <2>4. Amount(q.lines, DOMAIN q.lines) = r.price[1] - r.price[2] - ValueResidual(r) + t
    BY <2>1, <2>2, <2>3
  <2> QED BY <2>4 DEF t
<1>7. HasPlanned(q) <=> tail # <<>>
  BY <1>1 DEF HasPlanned
<1>8. \A mv : Moved(r, mv) => Moved(q, mv)
  BY <1>1 DEF Moved
<1>9. Starts(r) => Starts(q)
  BY <1>2 DEF Starts
<1>10. \A mv : Waits(r, mv) => Waits(q, mv)
  <2> SUFFICES ASSUME NEW mv, Waits(r, mv), q.state = "open", T # {}, ValueResidual(q) = 0
               PROVE  \E k \in T : mv[q.lines[k].move].state # "posted"
    BY DEF Waits
  <2>1. PICK i \in S : mv[r.lines[i].move].state # "posted"
    BY <1>2, <1>4 DEF Waits
  <2>2. PICK k \in T : q.lines[k] = r.lines[i]
    BY <1>1
  <2> QED BY <2>1, <2>2
<1> QED BY <1>4, <1>5, <1>6, <1>7, <1>8, <1>9, <1>10

\* A new board.
LEMMA BoardHolds ==
  ASSUME NEW mv, NEW r, AssetFits(r, mv), r.state \in {"draft", "open"}
  PROVE  AssetHolds(Board(r), mv)
<1> DEFINE q == Board(r)
           tail == Planned(r)
<1>1. HasPlan(r) /\ r \in AssetRecord
  BY DEF AssetFits, HasPlan
<1>2. /\ q.lines = Linked(r.lines) \o tail /\ q.state = r.state /\ q.price = r.price /\ q.plan = r.plan
      /\ DOMAIN q = DOMAIN r
  BY <1>1 DEF Board, AssetRecord
<1>3. /\ tail \in Seq(LineRecord) /\ LinkedIn(tail) = {}
      /\ tail # <<>> => Amount(tail, DOMAIN tail) = ValueResidual(r)
      /\ tail = <<>> => ValueResidual(r) = 0 \/ Undone(r) <= Posted(r)
  BY <1>1, PlannedAre
<1>4. Linked(r.lines) \o tail \in Seq(LineRecord)
  BY <1>1, <1>3, RecordIs, PrefixIs DEF Prefixed
<1>5. q \in AssetRecord
  BY <1>1, <1>4 DEF Board, AssetRecord
<1> HIDE DEF q, tail
<1>6. HasPlan(q)
  BY <1>1, <1>2, <1>5 DEF HasPlan
<1>7. /\ ValueResidual(q) = ValueResidual(r) /\ Posted(q) = Posted(r) /\ Undone(q) = Undone(r)
      /\ Amount(q.lines, DOMAIN q.lines) = r.price[1] - r.price[2] - ValueResidual(r) + Amount(tail, DOMAIN tail)
      /\ HasPlanned(q) <=> tail # <<>>
      /\ Moved(r, mv) => Moved(q, mv)
      /\ Starts(r) => Starts(q)
      /\ Waits(r, mv) => Waits(q, mv)
  BY <1>1, <1>2, <1>3, <1>5, PrefixFits
<1>8. Conserves(q)
  <2>1. r.price[1] \in Int /\ r.price[2] \in Int /\ ValueResidual(r) \in Int
    BY <1>1, RecordIs, DatesType
  <2>2. tail # <<>> => Amount(q.lines, DOMAIN q.lines) = r.price[1] - r.price[2]
    BY <1>3, <1>7, <2>1
  <2> QED BY <1>2, <1>7, <2>2 DEF Conserves
<1>9. Closes(q) /\ Runs(q)
  BY <1>2, <1>3, <1>7 DEF Closes, Runs
<1>10. AssetFits(q, mv)
  BY <1>2, <1>6, <1>7 DEF AssetFits
<1> QED BY <1>8, <1>9, <1>10 DEF AssetHolds, q

Close(r) == [r EXCEPT !.state = "close"]

\* Another state leaves the plan, the value and the lines.
LEMMA StateIs ==
  ASSUME NEW r, HasPlan(r), NEW state \in States, NEW q, q = [r EXCEPT !.state = state]
  PROVE  /\ HasPlan(q) /\ q.state = state /\ q.lines = r.lines /\ q.price = r.price /\ q.plan = r.plan
         /\ ValueResidual(q) = ValueResidual(r) /\ (HasPlanned(q) <=> HasPlanned(r))
         /\ Undone(q) = Undone(r) /\ Posted(q) = Posted(r)
<1>1. r \in AssetRecord
  BY DEF HasPlan
<1>2. q \in AssetRecord /\ q.state = state /\ q.lines = r.lines /\ q.price = r.price /\ q.plan = r.plan
  BY <1>1 DEF AssetRecord
<1>3. HasPlan(q)
  BY <1>2 DEF HasPlan
<1>4. ValueResidual(q) = ValueResidual(r) /\ (HasPlanned(q) <=> HasPlanned(r)) /\ Posted(q) = Posted(r)
  BY <1>2 DEF ValueResidual, HasPlanned, Posted
<1>5. FirstDate(q) = FirstDate(r)
  BY <1>2 DEF FirstDate
<1>6. Undone(q) = Undone(r)
  <2>1. ASSUME NEW x, NEW y, x.plan = y.plan, FirstDate(x) = FirstDate(y) PROVE Undone(x) = Undone(y)
    BY <2>1 DEF Undone
  <2> QED BY <1>2, <1>5, <2>1
<1> QED BY <1>2, <1>3, <1>4, <1>6

LEMMA CloseHolds ==
  ASSUME NEW mv, NEW q, HasPlan(q), Moved(q, mv), Conserves(q), ValueResidual(q) = 0
  PROVE  AssetHolds(Close(q), mv)
<1> DEFINE c == Close(q)
<1>1. /\ HasPlan(c) /\ c.state = "close" /\ c.lines = q.lines /\ c.price = q.price
      /\ ValueResidual(c) = 0 /\ (HasPlanned(c) <=> HasPlanned(q))
  BY StateIs DEF Close, States
<1> HIDE DEF c
<1>2. Amount(q.lines, DOMAIN q.lines) = q.price[1] - q.price[2]
  <2>1. CASE HasPlanned(q)
    BY <2>1 DEF Conserves
  <2>2. CASE ~HasPlanned(q)
    <3> DEFINE n == Amount(q.lines, DOMAIN q.lines)
    <3>1. LinkedIn(q.lines) = DOMAIN q.lines
      BY <2>2 DEF HasPlanned
    <3>2. q.price[1] - n - q.price[2] = 0
      BY <3>1 DEF ValueResidual
    <3>3. n \in Int /\ q.price[1] \in Int /\ q.price[2] \in Int
      BY RecordIs, AmountType
    <3> HIDE DEF n
    <3>4. n = q.price[1] - q.price[2]
      BY <3>2, <3>3
    <3> QED BY <3>4 DEF n
  <2> QED BY <2>1, <2>2
<1>3. Moved(c, mv)
  BY <1>1 DEF Moved
<1>4. AssetFits(c, mv)
  BY <1>1, <1>3 DEF AssetFits, Starts, Waits
<1>5. Conserves(c) /\ Closes(c) /\ Runs(c)
  BY <1>1, <1>2 DEF Conserves, Closes, Runs
<1> QED BY <1>4, <1>5 DEF AssetHolds, c

\* New entries are drafts.
Grows(mv, nv) ==
    /\ mv \in Seq(MoveRecord) /\ nv \in Seq(MoveRecord) /\ Len(mv) <= Len(nv)
    /\ \A m \in DOMAIN mv : nv[m] = mv[m]
    /\ \A m \in (Len(mv) + 1)..Len(nv) : nv[m].state = "draft"

\* Lines of a running asset are linked to the entries after n.
Joins(q, r, n, nv) ==
    /\ q \in AssetRecord /\ q.state = r.state /\ q.price = r.price /\ q.plan = r.plan
    /\ DOMAIN q.lines = DOMAIN r.lines
    /\ \A i \in DOMAIN r.lines :
        \/ q.lines[i] = r.lines[i]
        \/ /\ r.state = "open" /\ ~IsLinked(r.lines[i]) /\ IsLinked(q.lines[i])
           /\ q.lines[i].move \in (n + 1)..Len(nv) /\ q.lines[i].amount = r.lines[i].amount

PostedIn(nv, M) == [m \in DOMAIN nv |-> IF m \in M THEN [nv[m] EXCEPT !.state = "posted"] ELSE nv[m]]
ClosedBy(q, M) == IF HasLineIn(q, M) /\ ValueResidual(q) = 0 THEN Close(q) ELSE q

LEMMA PostedInIs ==
  ASSUME NEW nv \in Seq(MoveRecord), NEW M
  PROVE  /\ PostedIn(nv, M) \in Seq(MoveRecord) /\ DOMAIN PostedIn(nv, M) = DOMAIN nv
         /\ Len(PostedIn(nv, M)) = Len(nv)
         /\ \A m \in DOMAIN nv : PostedIn(nv, M)[m].amount = nv[m].amount
         /\ \A m \in DOMAIN nv : m \notin M => PostedIn(nv, M)[m] = nv[m]
<1> DEFINE pv == PostedIn(nv, M)
<1>1. Len(nv) \in Nat /\ DOMAIN nv = 1..Len(nv) /\ \A m \in DOMAIN nv : nv[m] \in MoveRecord
  OBVIOUS
<1>2. \A m \in DOMAIN nv : [nv[m] EXCEPT !.state = "posted"] \in MoveRecord /\ [nv[m] EXCEPT !.state = "posted"].amount = nv[m].amount
  BY <1>1 DEF MoveRecord
<1>3. pv \in [1..Len(nv) -> MoveRecord]
  BY <1>1, <1>2 DEF PostedIn
<1>4. \A m \in DOMAIN nv : pv[m].amount = nv[m].amount /\ (m \notin M => pv[m] = nv[m])
  BY <1>2 DEF PostedIn
<1> HIDE DEF pv
<1>5. pv \in Seq(MoveRecord) /\ Len(pv) = Len(nv) /\ DOMAIN pv = DOMAIN nv
  BY <1>1, <1>3
<1> QED BY <1>4, <1>5 DEF pv

\* The lines of an asset are linked to new entries, and entries are posted.
LEMMA JoinedHolds ==
  ASSUME NEW mv, NEW nv, Grows(mv, nv), NEW r, r # NoAsset, AssetHolds(r, mv),
         NEW q, Joins(q, r, Len(mv), nv), NEW M
  PROVE  AssetHolds(ClosedBy(q, M), PostedIn(nv, M))
<1> DEFINE pv == PostedIn(nv, M)
<1>0. /\ mv \in Seq(MoveRecord) /\ nv \in Seq(MoveRecord)
      /\ Len(mv) \in Nat /\ Len(nv) \in Nat /\ Len(mv) <= Len(nv)
      /\ DOMAIN mv = 1..Len(mv) /\ DOMAIN nv = 1..Len(nv) /\ DOMAIN mv \subseteq DOMAIN nv
      /\ \A m \in DOMAIN mv : nv[m] = mv[m]
      /\ \A m \in (Len(mv) + 1)..Len(nv) : nv[m].state = "draft"
  BY DEF Grows
<1>1. /\ DOMAIN pv = DOMAIN nv
      /\ \A m \in DOMAIN nv : m \notin M => pv[m] = nv[m]
  BY <1>0, PostedInIs
<1> HIDE DEF pv
<1>2. AssetFits(r, mv) /\ Conserves(r) /\ Closes(r) /\ Runs(r) /\ HasPlan(r) /\ r \in AssetRecord
  BY DEF AssetHolds, AssetFits, HasPlan
<1>3. /\ q \in AssetRecord /\ q.state = r.state /\ q.price = r.price /\ q.plan = r.plan
      /\ DOMAIN q.lines = DOMAIN r.lines
      /\ \A i \in DOMAIN r.lines :
          \/ q.lines[i] = r.lines[i]
          \/ /\ r.state = "open" /\ ~IsLinked(r.lines[i]) /\ IsLinked(q.lines[i])
             /\ q.lines[i].move \in (Len(mv) + 1)..Len(nv) /\ q.lines[i].amount = r.lines[i].amount
  BY DEF Joins
<1>4. HasPlan(q) /\ q.lines \in Seq(LineRecord) /\ r.lines \in Seq(LineRecord)
  BY <1>2, <1>3, RecordIs DEF HasPlan
<1>5. LinkedIn(r.lines) \subseteq LinkedIn(q.lines)
  BY <1>3 DEF LinkedIn
<1>6. Amount(q.lines, DOMAIN q.lines) = Amount(r.lines, DOMAIN r.lines)
  <2>1. \A i \in DOMAIN r.lines : q.lines[i].amount = r.lines[i].amount
    BY <1>3
  <2> QED BY <1>3, <2>1 DEF Amount
<1>7. HasPlanned(q) => HasPlanned(r)
  <2>1. LinkedIn(q.lines) \subseteq DOMAIN q.lines
    BY DEF LinkedIn
  <2> QED BY <1>3, <1>5, <2>1 DEF HasPlanned
<1>8. Conserves(q)
  BY <1>2, <1>3, <1>6, <1>7 DEF Conserves
<1>9. Moved(q, nv) /\ Moved(q, pv)
  <2>1. \A i \in LinkedIn(r.lines) : r.lines[i].move \in DOMAIN nv
    BY <1>0, <1>2 DEF AssetFits, Moved
  <2>2. ASSUME NEW i \in LinkedIn(q.lines) PROVE q.lines[i].move \in DOMAIN nv
    <3>1. i \in DOMAIN r.lines /\ IsLinked(q.lines[i])
      BY <1>3 DEF LinkedIn
    <3>2. CASE q.lines[i] = r.lines[i]
      BY <2>1, <3>1, <3>2 DEF LinkedIn
    <3>3. CASE q.lines[i] # r.lines[i]
      BY <1>0, <1>3, <3>1, <3>3
    <3> QED BY <3>2, <3>3
  <2> QED BY <1>1, <2>2 DEF Moved
<1>10. CASE HasLineIn(q, M) /\ ValueResidual(q) = 0
  <2>1. ClosedBy(q, M) = Close(q)
    BY <1>10 DEF ClosedBy
  <2> QED BY <1>4, <1>8, <1>9, <1>10, <2>1, CloseHolds DEF pv
<1>11. CASE ~(HasLineIn(q, M) /\ ValueResidual(q) = 0)
  <2>1. ClosedBy(q, M) = q
    BY <1>11 DEF ClosedBy
  <2>2. ASSUME NEW i \in LinkedIn(q.lines), ValueResidual(q) = 0, nv[q.lines[i].move].state # "posted"
        PROVE  pv[q.lines[i].move].state # "posted"
    <3>1. i \in DOMAIN q.lines /\ q.lines[i].move \in DOMAIN nv
      BY <1>9 DEF Moved, LinkedIn
    <3>2. q.lines[i].move \notin M
      BY <1>11, <2>2, <3>1 DEF HasLineIn
    <3> QED BY <1>1, <2>2, <3>1, <3>2
  <2>3. CASE \A i \in DOMAIN r.lines : q.lines[i] = r.lines[i]
    <3>1. q.lines = r.lines
      BY <1>3, <1>4, <2>3
    <3>2. /\ ValueResidual(q) = ValueResidual(r) /\ (HasPlanned(q) <=> HasPlanned(r)) /\ Posted(q) = Posted(r)
          /\ FirstDate(q) = FirstDate(r)
      BY <1>3, <3>1 DEF ValueResidual, HasPlanned, Posted, FirstDate
    <3>3. Undone(q) = Undone(r)
      BY <1>3, <3>2 DEF Undone
    <3>4. Starts(q) /\ Closes(q) /\ Runs(q) /\ q.state \in {"draft", "open", "close"}
      BY <1>2, <1>3, <3>1, <3>2, <3>3 DEF AssetFits, Starts, Closes, Runs
    <3>5. Waits(q, pv)
      <4> SUFFICES ASSUME q.state = "open", LinkedIn(q.lines) # {}, ValueResidual(q) = 0
                   PROVE  \E i \in LinkedIn(q.lines) : pv[q.lines[i].move].state # "posted"
        BY DEF Waits
      <4>1. Waits(r, mv) /\ Moved(r, mv)
        BY <1>2 DEF AssetFits
      <4>2. PICK i \in LinkedIn(r.lines) : mv[r.lines[i].move].state # "posted"
        BY <1>3, <3>1, <3>2, <4>1 DEF Waits
      <4>3. r.lines[i].move \in DOMAIN mv
        BY <4>1 DEF Moved
      <4>4. nv[q.lines[i].move].state # "posted"
        BY <1>0, <3>1, <4>2, <4>3
      <4> QED BY <2>2, <3>1, <4>4
    <3>6. AssetFits(q, pv)
      BY <1>4, <1>9, <3>4, <3>5 DEF AssetFits
    <3> QED BY <1>8, <2>1, <3>4, <3>6 DEF AssetHolds, pv
  <2>4. CASE ~\A i \in DOMAIN r.lines : q.lines[i] = r.lines[i]
    <3>1. PICK i \in DOMAIN r.lines : q.lines[i] # r.lines[i]
      BY <2>4
    <3>2. /\ r.state = "open" /\ ~IsLinked(r.lines[i]) /\ IsLinked(q.lines[i])
          /\ q.lines[i].move \in (Len(mv) + 1)..Len(nv)
      BY <1>3, <3>1
    <3>3. i \in LinkedIn(q.lines) /\ HasPlanned(r)
      BY <1>3, <3>2 DEF LinkedIn, HasPlanned
    <3>4. ~HasPlanned(q) => ValueResidual(q) = 0
      <4> SUFFICES ASSUME ~HasPlanned(q) PROVE ValueResidual(q) = 0
        OBVIOUS
      <4> DEFINE n == Amount(q.lines, DOMAIN q.lines)
      <4>1. LinkedIn(q.lines) = DOMAIN q.lines
        BY DEF HasPlanned
      <4>2. ValueResidual(q) = q.price[1] - n - q.price[2]
        BY <4>1 DEF ValueResidual
      <4>3. n = q.price[1] - q.price[2]
        BY <1>2, <1>3, <1>6, <3>3 DEF Conserves
      <4>4. q.price[1] \in Int /\ q.price[2] \in Int
        BY <1>4, RecordIs
      <4> HIDE DEF n
      <4> QED BY <4>2, <4>3, <4>4
    <3>5. Waits(q, pv)
      <4> SUFFICES ASSUME ValueResidual(q) = 0 PROVE \E j \in LinkedIn(q.lines) : pv[q.lines[j].move].state # "posted"
        BY DEF Waits
      <4>1. nv[q.lines[i].move].state # "posted"
        BY <1>0, <3>2
      <4> QED BY <2>2, <3>3, <4>1
    <3>6. Starts(q) /\ Closes(q) /\ Runs(q) /\ q.state \in {"draft", "open", "close"}
      BY <1>3, <3>2, <3>4 DEF Starts, Closes, Runs
    <3>7. AssetFits(q, pv)
      BY <1>4, <1>9, <3>5, <3>6 DEF AssetFits
    <3> QED BY <1>8, <2>1, <3>6, <3>7 DEF AssetHolds, pv
  <2> QED BY <2>3, <2>4
<1> QED BY <1>10, <1>11

\* A running asset is sold: the rest of its value is in one line.
Sold(r, month) ==
    LET seq == Posted(r) + 1
        last == [seq |-> seq, amount |-> ValueResidual(r), date |-> month, move |-> NoMove]
    IN [r EXCEPT !.lines = Append(Linked(r.lines), last), !.plan.end = month, !.plan.number = seq]

LEMMA SoldHolds ==
  ASSUME NEW mv, NEW r, AssetHolds(r, mv), r.state = "open", NEW month \in Nat
  PROVE  /\ AssetHolds(Sold(r, month), mv) /\ Sold(r, month).state = "open"
         /\ \E tail \in Seq(LineRecord) : LinkedIn(tail) = {} /\ Sold(r, month).lines = Linked(r.lines) \o tail
         /\ Posted(r) + 1 \in DOMAIN Sold(r, month).lines
         /\ ~IsLinked(Sold(r, month).lines[Posted(r) + 1])
<1> DEFINE n == Posted(r)
           v == ValueResidual(r)
           last == [seq |-> n + 1, amount |-> v, date |-> month, move |-> NoMove]
           tail == <<last>>
           L == Linked(r.lines)
           plan == [r.plan EXCEPT !.end = month, !.number = n + 1]
           q == [r EXCEPT !.lines = Append(L, last), !.plan = plan]
           s == Sold(r, month)
<1>1. r # NoAsset
  BY DEF NoAsset
<1>2. AssetFits(r, mv) /\ Conserves(r) /\ HasPlan(r) /\ r \in AssetRecord
  BY <1>1 DEF AssetHolds, AssetFits, HasPlan
<1>3. n \in Nat /\ v \in Int /\ r.lines \in Seq(LineRecord)
  BY <1>2, DatesType
<1>4. L \in Seq(LineRecord) /\ Len(L) = n
  BY <1>3, LinkedAre DEF Posted
<1>5. s = q
  BY <1>2 DEF Sold, HasPlan, AssetRecord
<1>6. last \in LineRecord /\ ~IsLinked(last) /\ last.amount = v
  BY <1>3 DEF LineRecord, IsLinked
<1>7. plan \in PlanRecord /\ CheckProrata(plan)
  <2>1. r.plan \in PlanRecord /\ CheckProrata(r.plan)
    BY <1>2 DEF HasPlan
  <2>2. n + 1 \in Nat /\ n + 1 # 0 /\ month \in Int
    BY <1>3
  <2> HIDE DEF n
  <2> QED BY <2>1, <2>2 DEF PlanRecord, CheckProrata
<1> HIDE DEF last, plan, n, L
<1>8. tail \in Seq(LineRecord) /\ Append(L, last) = L \o tail /\ DOMAIN tail = {1} /\ tail[1] = last
  BY <1>4, <1>6
<1>9. LinkedIn(tail) = {} /\ tail # <<>>
  BY <1>6, <1>8 DEF LinkedIn
<1>10. Append(L, last) \in Seq(LineRecord) /\ n + 1 \in DOMAIN Append(L, last) /\ Append(L, last)[n + 1] = last
  BY <1>3, <1>4, <1>6
<1>11. q \in AssetRecord /\ q.lines = L \o tail /\ q.state = r.state /\ q.price = r.price /\ q.plan = plan
  BY <1>2, <1>7, <1>8, <1>10 DEF AssetRecord
<1>12. Amount(tail, DOMAIN tail) = v
  <2>1. [i \in {1} |-> tail[i].amount] \in [{1} -> Int]
    BY <1>3, <1>6, <1>8
  <2> QED BY <1>6, <1>8, <2>1, SumOfOne DEF Amount
<1> HIDE DEF tail, q
<1>13. /\ ValueResidual(q) = v
       /\ Amount(q.lines, DOMAIN q.lines) = r.price[1] - r.price[2] - v + v
       /\ HasPlanned(q)
       /\ Moved(r, mv) => Moved(q, mv)
       /\ Starts(r) => Starts(q)
       /\ Waits(r, mv) => Waits(q, mv)
  <2>1. q.lines = Linked(r.lines) \o tail
    BY <1>11 DEF L
  <2> HIDE DEF v
  <2>2. /\ ValueResidual(q) = ValueResidual(r)
        /\ Amount(q.lines, DOMAIN q.lines) = r.price[1] - r.price[2] - ValueResidual(r) + Amount(tail, DOMAIN tail)
        /\ HasPlanned(q) <=> tail # <<>>
        /\ Moved(r, mv) => Moved(q, mv)
        /\ Starts(r) => Starts(q)
        /\ Waits(r, mv) => Waits(q, mv)
    BY <1>2, <1>8, <1>9, <1>11, <2>1, PrefixFits
  <2> QED BY <1>9, <1>12, <2>2 DEF v
<1>14. Conserves(q)
  <2>1. r.price[1] \in Int /\ r.price[2] \in Int
    BY <1>2, RecordIs
  <2> HIDE DEF v
  <2> QED BY <1>3, <1>11, <1>13, <2>1 DEF Conserves, v
<1>15. HasPlan(q)
  BY <1>7, <1>11 DEF HasPlan
<1>16. AssetHolds(q, mv)
  BY <1>2, <1>11, <1>13, <1>14, <1>15 DEF AssetHolds, AssetFits, Closes, Runs
<1>17. q.lines = Append(L, last)
  BY <1>8, <1>11
<1> QED BY <1>5, <1>6, <1>8, <1>9, <1>10, <1>11, <1>16, <1>17 DEF n, L

-----------------------------------------------------------------------------
(* What holds of the assets and the entries. *)

AssetsAre(as) == as \in [Assets -> AssetRecord]

LinkedTo(as, m) == {l \in LinesOf(as, Assets) : Line(as, l).move = m}

InLines(l, as) == \E a \in Assets : \E i \in DOMAIN as[a].lines : l = <<a, i>>

LEMMA LinesIn ==
  ASSUME NEW as, NEW l
  PROVE  l \in LinesOf(as, Assets) <=> InLines(l, as)
<1>1. l \in LinesOf(as, Assets) <=> \E a \in Assets : l \in {a} \X DOMAIN as[a].lines
  BY Zenon DEF LinesOf
<1>2. \A a, D : l \in {a} \X D <=> \E i \in D : l = <<a, i>>
  OBVIOUS
<1> QED BY <1>1, <1>2, Zenon DEF InLines

LEMMA LinesFinite ==
  ASSUME NEW as, AssetsAre(as)
  PROVE  /\ IsFiniteSet(LinesOf(as, Assets))
         /\ \A l \in LinesOf(as, Assets) : Line(as, l) \in LineRecord
<1> DEFINE P == [a \in Assets |-> {a} \X DOMAIN as[a].lines]
           T == {{a} \X DOMAIN as[a].lines : a \in Assets}
<1>1. \A a \in Assets : as[a].lines \in Seq(LineRecord)
  BY DEF AssetsAre, AssetRecord
<1>2. \A a \in Assets : IsFiniteSet({a} \X DOMAIN as[a].lines)
  BY <1>1, LinesAre, FS_Singleton, FS_Product
<1>3. P \in Surjection(Assets, T)
  BY DEF Surjection
<1>4. IsFiniteSet(Assets)
  BY AssetAssumption
<1>5. IsFiniteSet(T)
  <2> HIDE DEF P, T
  <2> QED BY <1>3, <1>4, FS_Surjection
<1>6. \A t \in T : IsFiniteSet(t)
  BY <1>2
<1>7. IsFiniteSet(UNION T)
  <2> HIDE DEF T
  <2> QED BY <1>5, <1>6, FS_UNION
<1>8. ASSUME NEW l \in LinesOf(as, Assets) PROVE Line(as, l) \in LineRecord
  <2>1. InLines(l, as)
    BY LinesIn
  <2>2. PICK a \in Assets : \E i \in DOMAIN as[a].lines : l = <<a, i>>
    BY <2>1 DEF InLines
  <2>3. PICK i \in DOMAIN as[a].lines : l = <<a, i>>
    BY <2>2
  <2>4. Line(as, l) = as[a].lines[i]
    BY <2>3 DEF Line
  <2> QED BY <1>1, <2>4, LinesAre
<1> QED BY <1>7, <1>8, Zenon DEF LinesOf

\* l is linked to the entry m.
InEntry(l, m, as) ==
    \E a \in Assets : \E i \in LinkedIn(as[a].lines) : l = <<a, i>> /\ as[a].lines[i].move = m

LEMMA LinkedToIs ==
  ASSUME NEW as, NEW m, m # NoMove, NEW l
  PROVE  l \in LinkedTo(as, m) <=> InEntry(l, m, as)
<1>1. l \in LinesOf(as, Assets) <=> InLines(l, as)
  BY LinesIn
<1>2. \A a, i : l = <<a, i>> => Line(as, l) = as[a].lines[i]
  BY DEF Line
<1>3. \A a, i : i \in LinkedIn(as[a].lines) <=> i \in DOMAIN as[a].lines /\ as[a].lines[i].move # NoMove
  BY DEF LinkedIn, IsLinked
<1>4. ASSUME l \in LinkedTo(as, m) PROVE InEntry(l, m, as)
  <2>1. InLines(l, as) /\ Line(as, l).move = m
    BY <1>1, <1>4 DEF LinkedTo
  <2>2. PICK a \in Assets : \E i \in DOMAIN as[a].lines : l = <<a, i>>
    BY <2>1 DEF InLines
  <2>3. PICK i \in DOMAIN as[a].lines : l = <<a, i>>
    BY <2>2
  <2>4. as[a].lines[i].move = m
    BY <1>2, <2>1, <2>3
  <2> QED BY <1>3, <2>3, <2>4, Zenon DEF InEntry
<1>5. ASSUME NEW a \in Assets, NEW i \in LinkedIn(as[a].lines), l = <<a, i>>, as[a].lines[i].move = m
      PROVE  l \in LinkedTo(as, m)
  <2>1. InLines(l, as) /\ Line(as, l).move = m
    BY <1>2, <1>3, <1>5 DEF InLines
  <2> QED BY <1>1, <2>1 DEF LinkedTo
<1> QED BY <1>4, <1>5, Zenon DEF InEntry

LEMMA AmountsIn ==
  ASSUME NEW as, AssetsAre(as), NEW S \in SUBSET LinesOf(as, Assets)
  PROVE  IsFiniteSet(S) /\ [l \in S |-> Line(as, l).amount] \in [S -> Int] /\ AmountOf(as, S) \in Int
<1>1. IsFiniteSet(S)
  BY LinesFinite, FS_Subset
<1>2. [l \in S |-> Line(as, l).amount] \in [S -> Int]
  BY LinesFinite DEF LineRecord
<1> QED BY <1>1, <1>2, SumType DEF AmountOf

\* Lines of the same amounts.
LEMMA SameAmounts ==
  ASSUME NEW as, NEW bs, NEW S, \A l \in S : Line(as, l).amount = Line(bs, l).amount
  PROVE  AmountOf(as, S) = AmountOf(bs, S)
<1>1. [l \in S |-> Line(as, l).amount] = [l \in S |-> Line(bs, l).amount]
  OBVIOUS
<1> QED BY <1>1 DEF AmountOf

\* An entry is of the amount of the lines that are linked to it.
Booked(as, mv) == \A m \in DOMAIN mv : mv[m].amount = AmountOf(as, LinkedTo(as, m))

BooksHold(as, mv) ==
    /\ AssetsAre(as) /\ mv \in Seq(MoveRecord)
    /\ \A a \in Assets : AssetHolds(as[a], mv)
    /\ Booked(as, mv)

\* The lines of an asset with an entry are moved up when the others are replaced.
LEMMA Reboarded ==
  ASSUME NEW as, AssetsAre(as), NEW a \in Assets, NEW q \in AssetRecord,
         NEW tail \in Seq(LineRecord), LinkedIn(tail) = {}, q.lines = Linked(as[a].lines) \o tail,
         NEW m \in Nat
  PROVE  AmountOf([as EXCEPT ![a] = q], LinkedTo([as EXCEPT ![a] = q], m)) = AmountOf(as, LinkedTo(as, m))
<1> DEFINE bs == [as EXCEPT ![a] = q]
           lines == as[a].lines
           n == Cardinality(LinkedIn(lines))
           S == LinkedTo(as, m)
           T == LinkedTo(bs, m)
           F == [l \in S |-> Line(as, l).amount]
           G == [l \in T |-> Line(bs, l).amount]
<1>1. /\ AssetsAre(bs) /\ bs[a] = q /\ \A c \in Assets : c # a => bs[c] = as[c]
      /\ lines \in Seq(LineRecord)
  BY DEF AssetsAre, AssetRecord
<1> HIDE DEF bs, lines
<1>2. PICK o : Arranges(o, lines)
  BY <1>1, LinkedOrdered
<1>3. /\ o \in Bijection(1..n, LinkedIn(lines)) /\ LinkedIn(q.lines) = 1..n
      /\ \A k \in 1..n : q.lines[k] = lines[o[k]]
  <2>1. Prefixed(q.lines, lines, tail)
    BY <1>1, PrefixIs DEF lines
  <2>2. /\ o \in Bijection(1..n, LinkedIn(lines)) /\ Linked(lines) = [k \in 1..n |-> lines[o[k]]]
    BY <1>2 DEF Arranges
  <2>3. LinkedIn(q.lines) = 1..n /\ \A k \in 1..n : q.lines[k] = Linked(lines)[k]
    BY <2>1 DEF Prefixed
  <2> HIDE DEF n
  <2> QED BY <2>2, <2>3
<1> HIDE DEF n
<1>4. /\ \A k \in 1..n : o[k] \in LinkedIn(lines)
      /\ \A j \in 1..n : \A k \in 1..n : o[j] = o[k] => j = k
      /\ \A i \in LinkedIn(lines) : \E k \in 1..n : o[k] = i
  <2>1. o \in Injection(1..n, LinkedIn(lines)) /\ o \in Surjection(1..n, LinkedIn(lines))
    BY <1>3 DEF Bijection
  <2> QED BY <2>1 DEF Injection, IsInjective, Surjection
<1>5. m # NoMove
  BY AssetAssumption
<1>6. \A l : l \in S <=> \E c \in Assets : \E i \in LinkedIn(as[c].lines) : l = <<c, i>> /\ as[c].lines[i].move = m
  <2>1. \A l : l \in S <=> InEntry(l, m, as)
    BY <1>5, LinkedToIs
  <2> QED BY <2>1, Zenon DEF InEntry
<1>7. \A l : l \in T <=> \E c \in Assets : \E i \in LinkedIn(bs[c].lines) : l = <<c, i>> /\ bs[c].lines[i].move = m
  <2>1. \A l : l \in T <=> InEntry(l, m, bs)
    BY <1>5, LinkedToIs
  <2> QED BY <2>1, Zenon DEF InEntry
<1>8. /\ F \in [S -> Int] /\ IsFiniteSet(S) /\ G \in [T -> Int]
  BY <1>1, AmountsIn DEF LinkedTo
<1> HIDE DEF S, T
<1> DEFINE at(l) == IF l[1] = a THEN <<a, o[l[2]]>> ELSE l
           b == [l \in T |-> at(l)]
<1>9. ASSUME NEW l \in T PROVE at(l) \in S /\ Line(as, at(l)) = Line(bs, l)
  <2>10. PICK c \in Assets : \E i \in LinkedIn(bs[c].lines) : l = <<c, i>> /\ bs[c].lines[i].move = m
    BY <1>7
  <2>1. PICK i \in LinkedIn(bs[c].lines) : l = <<c, i>> /\ bs[c].lines[i].move = m
    BY <2>10
  <2>2. CASE c = a
    <3>1. i \in 1..n /\ bs[c].lines[i] = lines[o[i]] /\ o[i] \in LinkedIn(lines)
      BY <1>1, <1>3, <1>4, <2>1, <2>2
    <3>2. at(l) = <<a, o[i]>>
      BY <2>1, <2>2
    <3>3. as[a].lines[o[i]].move = m /\ o[i] \in LinkedIn(as[a].lines)
      BY <2>1, <3>1 DEF lines
    <3> QED BY <1>6, <2>1, <2>2, <3>1, <3>2, <3>3 DEF Line, lines
  <2>3. CASE c # a
    <3>1. at(l) = l /\ bs[c] = as[c]
      BY <1>1, <2>1, <2>3
    <3> QED BY <1>6, <2>1, <3>1 DEF Line
  <2> QED BY <2>2, <2>3
<1>10. ASSUME NEW l \in T, NEW k \in T, at(l) = at(k) PROVE l = k
  <2>10. PICK c \in Assets : \E i \in LinkedIn(bs[c].lines) : l = <<c, i>>
    BY <1>7
  <2>1. PICK i \in LinkedIn(bs[c].lines) : l = <<c, i>>
    BY <2>10
  <2>20. PICK d \in Assets : \E j \in LinkedIn(bs[d].lines) : k = <<d, j>>
    BY <1>7
  <2>2. PICK j \in LinkedIn(bs[d].lines) : k = <<d, j>>
    BY <2>20
  <2>3. c = d
    BY <1>10, <2>1, <2>2
  <2>4. CASE c = a
    BY <1>1, <1>3, <1>4, <1>10, <2>1, <2>2, <2>3, <2>4
  <2>5. CASE c # a
    BY <1>10, <2>1, <2>2, <2>3, <2>5
  <2> QED BY <2>4, <2>5
<1>11. ASSUME NEW k \in S PROVE \E l \in T : at(l) = k
  <2>10. PICK c \in Assets : \E i \in LinkedIn(as[c].lines) : k = <<c, i>> /\ as[c].lines[i].move = m
    BY <1>6
  <2>1. PICK i \in LinkedIn(as[c].lines) : k = <<c, i>> /\ as[c].lines[i].move = m
    BY <2>10
  <2>2. CASE c = a
    <3>1. PICK j \in 1..n : o[j] = i
      BY <1>4, <2>1, <2>2 DEF lines
    <3>2. j \in LinkedIn(bs[a].lines) /\ bs[a].lines[j].move = m
      BY <1>1, <1>3, <2>1, <2>2, <3>1 DEF lines
    <3>3. <<a, j>> \in T
      BY <1>7, <3>2
    <3>4. at(<<a, j>>) = k
      BY <2>1, <2>2, <3>1
    <3> QED BY <3>3, <3>4
  <2>3. CASE c # a
    <3>1. k \in T /\ at(k) = k
      BY <1>1, <1>7, <2>1, <2>3
    <3> QED BY <3>1
  <2> QED BY <2>2, <2>3
<1> HIDE DEF at
<1>12. b \in [T -> S] /\ \A l \in T : b[l] = at(l)
  BY <1>9
<1> HIDE DEF b
<1>13. b \in Bijection(T, S)
  <2>1. b \in Injection(T, S)
    BY <1>10, <1>12 DEF Injection, IsInjective
  <2>2. b \in Surjection(T, S)
    BY <1>11, <1>12 DEF Surjection
  <2> QED BY <2>1, <2>2 DEF Bijection
<1>14. \A l \in T : G[l] = F[b[l]]
  BY <1>9, <1>12
<1>15. Reorders(b, G, T, F, S)
  <2> HIDE DEF F, G
  <2> QED BY <1>8, <1>13, <1>14 DEF Reorders
<1>16. Total(G) = Total(F)
  <2> HIDE DEF F, G
  <2> QED BY <1>15, SumReordered
<1> QED BY <1>16 DEF AmountOf, bs, S, T

\* An asset is replaced by one with the same entries.
LEMMA Replaced ==
  ASSUME NEW as, NEW mv, BooksHold(as, mv), NEW a \in Assets, NEW q \in AssetRecord, AssetHolds(q, mv),
         NEW tail \in Seq(LineRecord), LinkedIn(tail) = {}, q.lines = Linked(as[a].lines) \o tail
  PROVE  BooksHold([as EXCEPT ![a] = q], mv)
<1> DEFINE bs == [as EXCEPT ![a] = q]
<1>1. AssetsAre(as) /\ mv \in Seq(MoveRecord) /\ (\A c \in Assets : AssetHolds(as[c], mv)) /\ Booked(as, mv)
  BY DEF BooksHold
<1>2. AssetsAre(bs) /\ bs[a] = q /\ \A c \in Assets : c # a => bs[c] = as[c]
  BY <1>1 DEF AssetsAre
<1>3. \A m \in Nat : AmountOf(bs, LinkedTo(bs, m)) = AmountOf(as, LinkedTo(as, m))
  BY <1>1, Reboarded
<1> HIDE DEF bs
<1>4. DOMAIN mv \subseteq Nat
  BY <1>1
<1>5. Booked(bs, mv)
  BY <1>1, <1>3, <1>4 DEF Booked
<1>6. \A c \in Assets : AssetHolds(bs[c], mv)
  BY <1>1, <1>2
<1> QED BY <1>1, <1>2, <1>5, <1>6 DEF BooksHold, bs

\* Assets with the same lines.
LEMMA SameLines ==
  ASSUME NEW as, AssetsAre(as), NEW bs, AssetsAre(bs), \A a \in Assets : bs[a].lines = as[a].lines
  PROVE  \A m : LinkedTo(bs, m) = LinkedTo(as, m) /\ AmountOf(bs, LinkedTo(bs, m)) = AmountOf(as, LinkedTo(as, m))
<1>1. ASSUME NEW l \in LinesOf(as, Assets) PROVE Line(bs, l) = Line(as, l)
  <2>1. InLines(l, as)
    BY LinesIn
  <2>2. PICK a \in Assets : \E i \in DOMAIN as[a].lines : l = <<a, i>>
    BY <2>1 DEF InLines
  <2>3. PICK i \in DOMAIN as[a].lines : l = <<a, i>>
    BY <2>2
  <2> QED BY <2>3 DEF Line
<1>2. LinesOf(bs, Assets) = LinesOf(as, Assets)
  <2>1. ASSUME NEW l PROVE l \in LinesOf(bs, Assets) <=> l \in LinesOf(as, Assets)
    <3>1. l \in LinesOf(bs, Assets) <=> InLines(l, bs)
      BY LinesIn
    <3>2. l \in LinesOf(as, Assets) <=> InLines(l, as)
      BY LinesIn
    <3>3. InLines(l, bs) <=> InLines(l, as)
      BY DEF InLines
    <3> QED BY <3>1, <3>2, <3>3
  <2> QED BY <2>1
<1> TAKE m
<1>3. LinkedTo(bs, m) = LinkedTo(as, m)
  BY <1>1, <1>2 DEF LinkedTo
<1>4. \A l \in LinkedTo(as, m) : Line(bs, l).amount = Line(as, l).amount
  BY <1>1 DEF LinkedTo
<1>5. AmountOf(bs, LinkedTo(as, m)) = AmountOf(as, LinkedTo(as, m))
  BY <1>4, SameAmounts
<1> QED BY <1>3, <1>5

\* The state of an asset is another.
LEMMA Restated ==
  ASSUME NEW as, NEW mv, BooksHold(as, mv), NEW a \in Assets, NEW q \in AssetRecord, AssetHolds(q, mv),
         q.lines = as[a].lines
  PROVE  BooksHold([as EXCEPT ![a] = q], mv)
<1> DEFINE bs == [as EXCEPT ![a] = q]
<1>1. AssetsAre(as) /\ mv \in Seq(MoveRecord) /\ (\A c \in Assets : AssetHolds(as[c], mv)) /\ Booked(as, mv)
  BY DEF BooksHold
<1>2. AssetsAre(bs) /\ bs[a] = q /\ (\A c \in Assets : c # a => bs[c] = as[c]) /\ \A c \in Assets : bs[c].lines = as[c].lines
  BY <1>1 DEF AssetsAre
<1> HIDE DEF bs
<1>3. \A m : AmountOf(bs, LinkedTo(bs, m)) = AmountOf(as, LinkedTo(as, m))
  BY <1>1, <1>2, SameLines
<1>6. Booked(bs, mv)
  BY <1>1, <1>3 DEF Booked
<1>7. \A c \in Assets : AssetHolds(bs[c], mv)
  BY <1>1, <1>2
<1> QED BY <1>1, <1>2, <1>6, <1>7 DEF BooksHold, bs

LEMMA AssetIs ==
  ASSUME NEW as, AssetsAre(as), NEW a \in Assets
  PROVE  as[a] \in AssetRecord /\ as[a].lines \in Seq(LineRecord)
<1>1. as[a] \in AssetRecord
  BY DEF AssetsAre
<1> QED BY <1>1 DEF AssetRecord

LEMMA SequenceIs ==
  ASSUME NEW R, NEW s \in Seq(R)
  PROVE  Len(s) \in Nat /\ DOMAIN s = 1..Len(s) /\ \A i \in DOMAIN s : s[i] \in R
  OBVIOUS

\* Lines of as are linked to new entries, each of the amount of its lines.
Linkage(as, mv, bs, nv) ==
    /\ AssetsAre(bs) /\ Grows(mv, nv)
    /\ \A a \in Assets : Joins(bs[a], as[a], Len(mv), nv)
    /\ \A m \in (Len(mv) + 1)..Len(nv) : nv[m].amount = AmountOf(bs, LinkedTo(bs, m))

\* What is linked to an entry that there was remains linked to it.
KeptIn(as, bs, mv) ==
    \A m \in DOMAIN mv : AmountOf(bs, LinkedTo(bs, m)) = AmountOf(as, LinkedTo(as, m))

LEMMA Kept ==
  ASSUME NEW as, NEW mv, BooksHold(as, mv), NEW bs, NEW nv, Linkage(as, mv, bs, nv)
  PROVE  KeptIn(as, bs, mv)
<1> SUFFICES ASSUME NEW m \in DOMAIN mv
             PROVE  AmountOf(bs, LinkedTo(bs, m)) = AmountOf(as, LinkedTo(as, m))
  BY DEF KeptIn
<1>0. m \in Nat /\ Len(mv) \in Nat /\ m <= Len(mv) /\ m # NoMove /\ \A n \in Nat : m \notin (Len(mv) + 1)..n
  <2>1. mv \in Seq(MoveRecord)
    BY DEF BooksHold
  <2>2. m \in Nat /\ Len(mv) \in Nat /\ m <= Len(mv)
    BY <2>1
  <2> QED BY <2>2, AssetAssumption
<1>1. \A a \in Assets : Joins(bs[a], as[a], Len(mv), nv)
  BY DEF Linkage
<1>2. Len(nv) \in Nat
  BY DEF Linkage, Grows
<1>3. ASSUME NEW a \in Assets, NEW i
      PROVE  /\ i \in LinkedIn(bs[a].lines) /\ bs[a].lines[i].move = m =>
                  i \in LinkedIn(as[a].lines) /\ as[a].lines[i].move = m /\ bs[a].lines[i] = as[a].lines[i]
             /\ i \in LinkedIn(as[a].lines) /\ as[a].lines[i].move = m =>
                  i \in LinkedIn(bs[a].lines) /\ bs[a].lines[i].move = m /\ bs[a].lines[i] = as[a].lines[i]
  <2>1. /\ DOMAIN bs[a].lines = DOMAIN as[a].lines
        /\ \A j \in DOMAIN as[a].lines :
             \/ bs[a].lines[j] = as[a].lines[j]
             \/ ~IsLinked(as[a].lines[j]) /\ bs[a].lines[j].move \in (Len(mv) + 1)..Len(nv)
    BY <1>1 DEF Joins
  <2>2. \A j \in DOMAIN as[a].lines : bs[a].lines[j].move = m => bs[a].lines[j] = as[a].lines[j]
    BY <1>0, <1>2, <2>1
  <2>3. \A j \in DOMAIN as[a].lines : IsLinked(as[a].lines[j]) => bs[a].lines[j] = as[a].lines[j]
    BY <2>1
  <2> QED BY <2>1, <2>2, <2>3 DEF LinkedIn
<1>4. \A l : InEntry(l, m, bs) <=> InEntry(l, m, as)
  BY <1>3 DEF InEntry
<1>5. LinkedTo(bs, m) = LinkedTo(as, m)
  <2>1. ASSUME NEW l PROVE l \in LinkedTo(bs, m) <=> l \in LinkedTo(as, m)
    BY <1>0, <1>4, LinkedToIs
  <2> QED BY <2>1
<1>6. ASSUME NEW l \in LinkedTo(as, m) PROVE Line(bs, l).amount = Line(as, l).amount
  <2>1. InEntry(l, m, as)
    BY <1>0, LinkedToIs
  <2>2. PICK a \in Assets : \E i \in LinkedIn(as[a].lines) : l = <<a, i>> /\ as[a].lines[i].move = m
    BY <2>1 DEF InEntry
  <2>3. PICK i \in LinkedIn(as[a].lines) : l = <<a, i>> /\ as[a].lines[i].move = m
    BY <2>2
  <2>4. bs[a].lines[i] = as[a].lines[i]
    BY <1>3, <2>3
  <2> QED BY <2>3, <2>4 DEF Line
<1>7. AmountOf(bs, LinkedTo(as, m)) = AmountOf(as, LinkedTo(as, m))
  BY <1>6, SameAmounts
<1> QED BY <1>5, <1>7

\* Entries are made and some are posted.
LEMMA BookedHolds ==
  ASSUME NEW as, NEW mv, BooksHold(as, mv), NEW bs, NEW nv, Linkage(as, mv, bs, nv), NEW M
  PROVE  BooksHold([a \in Assets |-> ClosedBy(bs[a], M)], PostedIn(nv, M))
<1> DEFINE cs == [a \in Assets |-> ClosedBy(bs[a], M)]
           pv == PostedIn(nv, M)
<1>1. /\ AssetsAre(as) /\ mv \in Seq(MoveRecord) /\ (\A a \in Assets : AssetHolds(as[a], mv)) /\ Booked(as, mv)
  BY DEF BooksHold
<1>2. /\ AssetsAre(bs) /\ Grows(mv, nv) /\ nv \in Seq(MoveRecord)
      /\ \A a \in Assets : Joins(bs[a], as[a], Len(mv), nv)
      /\ \A m \in (Len(mv) + 1)..Len(nv) : nv[m].amount = AmountOf(bs, LinkedTo(bs, m))
  BY DEF Linkage, Grows
<1>3. /\ pv \in Seq(MoveRecord) /\ DOMAIN pv = DOMAIN nv
      /\ \A m \in DOMAIN nv : pv[m].amount = nv[m].amount
  BY <1>2, PostedInIs
<1>4. ASSUME NEW a \in Assets PROVE ClosedBy(bs[a], M) \in AssetRecord /\ ClosedBy(bs[a], M).lines = bs[a].lines
  <2>1. bs[a] \in AssetRecord
    BY <1>2 DEF AssetsAre
  <2>2. Close(bs[a]) \in AssetRecord /\ Close(bs[a]).lines = bs[a].lines
    BY <2>1 DEF Close, AssetRecord, States
  <2> QED BY <2>1, <2>2 DEF ClosedBy
<1>5. ASSUME NEW a \in Assets PROVE AssetHolds(ClosedBy(bs[a], M), pv)
  <2>1. CASE as[a] # NoAsset
    BY <1>1, <1>2, <2>1, JoinedHolds
  <2>2. CASE as[a] = NoAsset
    <3> DEFINE q == bs[a]
    <3>1. /\ q \in AssetRecord /\ q.state = "none" /\ q.price = <<0, 0>> /\ q.plan = NoPlan
          /\ DOMAIN q.lines = {}
      <4>1. Joins(q, NoAsset, Len(mv), nv)
        BY <1>2, <2>2
      <4> HIDE DEF q
      <4>2. DOMAIN <<>> = {}
        OBVIOUS
      <4> QED BY <4>1, <4>2, Zenon DEF Joins, NoAsset
    <3>2. q.lines \in Seq(LineRecord)
      BY <3>1 DEF AssetRecord
    <3>3. q.lines = <<>>
      <4> HIDE DEF q
      <4>1. Len(q.lines) = 0
        <5> DEFINE k == Len(q.lines)
        <5>1. k \in Nat /\ DOMAIN q.lines = 1..k
          BY <3>2, LinesAre
        <5> HIDE DEF k
        <5>2. 1 \notin 1..k
          BY <3>1, <5>1
        <5>3. k = 0
          BY <5>1, <5>2
        <5> QED BY <5>3 DEF k
      <4> QED BY <3>2, <4>1
    <3> HIDE DEF q
    <3>4. q = [state |-> q.state, price |-> q.price, plan |-> q.plan, lines |-> q.lines]
      BY <3>1 DEF AssetRecord
    <3>5. q = NoAsset
      BY <3>1, <3>3, <3>4 DEF NoAsset
    <3>6. ~HasLineIn(q, M)
      BY <3>1 DEF HasLineIn
    <3>7. ClosedBy(q, M) = NoAsset
      BY <3>5, <3>6 DEF ClosedBy
    <3> QED BY <3>7 DEF AssetHolds, q
  <2> QED BY <2>1, <2>2
<1>6. AssetsAre(cs) /\ \A a \in Assets : cs[a].lines = bs[a].lines /\ AssetHolds(cs[a], pv)
  BY <1>4, <1>5 DEF AssetsAre
<1> HIDE DEF cs, pv
<1>7. \A m : AmountOf(cs, LinkedTo(cs, m)) = AmountOf(bs, LinkedTo(bs, m))
  BY <1>2, <1>6, SameLines
<1>9. KeptIn(as, bs, mv)
  BY Kept
<1>8. ASSUME NEW m \in DOMAIN pv PROVE pv[m].amount = AmountOf(cs, LinkedTo(cs, m))
  <2>1. nv[m].amount = AmountOf(bs, LinkedTo(bs, m))
    <3>1. CASE m \in DOMAIN mv
      <4>1. nv[m] = mv[m]
        BY <1>2, <3>1 DEF Grows
      <4>2. AmountOf(bs, LinkedTo(bs, m)) = AmountOf(as, LinkedTo(as, m))
        BY <3>1, <1>9 DEF KeptIn
      <4> QED BY <1>1, <3>1, <4>1, <4>2 DEF Booked
    <3>2. CASE m \notin DOMAIN mv
      <4>1. m \in 1..Len(nv) /\ Len(nv) \in Nat /\ Len(mv) \in Nat /\ m \notin 1..Len(mv)
        BY <1>1, <1>2, <1>3, <3>2
      <4>2. m \in (Len(mv) + 1)..Len(nv)
        BY <4>1
      <4> QED BY <1>2, <4>2
    <3> QED BY <3>1, <3>2
  <2> QED BY <1>3, <1>7, <2>1
<1> QED BY <1>3, <1>6, <1>8 DEF BooksHold, Booked, cs, pv

\* Nothing is linked to anything.
LEMMA NoLinkage ==
  ASSUME NEW as, NEW mv, BooksHold(as, mv)
  PROVE  Linkage(as, mv, as, mv)
<1>1. AssetsAre(as) /\ mv \in Seq(MoveRecord)
  BY DEF BooksHold
<1>2. Grows(mv, mv)
  BY <1>1 DEF Grows
<1>3. \A a \in Assets : Joins(as[a], as[a], Len(mv), mv)
  BY <1>1 DEF Joins, AssetsAre
<1>4. (Len(mv) + 1)..Len(mv) = {}
  <2>1. Len(mv) \in Nat
    BY <1>1
  <2> QED BY <2>1
<1> QED BY <1>1, <1>2, <1>3, <1>4 DEF Linkage

\* Some lines of running assets that have no entry, in batches of different lines.
Batched(as, batches) ==
    /\ batches \in Seq(SUBSET LinesOf(as, Assets))
    /\ \A k \in DOMAIN batches : \A l \in batches[k] : as[l[1]].state = "open" /\ ~IsLinked(Line(as, l))
    /\ \A j, k \in DOMAIN batches : j # k => batches[j] \cap batches[k] = {}

\* The lines of r in the batches are linked to the entries after n.
LinkedAfter(q, r, a, batches, n) ==
    /\ q \in AssetRecord /\ q.state = r.state /\ q.price = r.price /\ q.plan = r.plan
    /\ DOMAIN q.lines = DOMAIN r.lines
    /\ \A i \in DOMAIN r.lines :
        /\ (\A k \in DOMAIN batches : <<a, i>> \notin batches[k]) => q.lines[i] = r.lines[i]
        /\ \A k \in DOMAIN batches : <<a, i>> \in batches[k] => q.lines[i] = [r.lines[i] EXCEPT !.move = n + k]

\* The line i of r is linked to the entry m.
Taken(q, r, i, m) ==
    IsLinked(q.lines[i]) /\ q.lines[i].move = m /\ q.lines[i].amount = r.lines[i].amount

LEMMA LinkedAt ==
  ASSUME NEW q, NEW r \in AssetRecord, NEW a, NEW batches, NEW n \in Nat, LinkedAfter(q, r, a, batches, n),
         NEW i \in DOMAIN r.lines, NEW k \in DOMAIN batches, k \in Nat, <<a, i>> \in batches[k]
  PROVE  Taken(q, r, i, n + k)
<1> DEFINE l == <<a, i>>
           x == q.lines[i]
           y == r.lines[i]
           m == n + k
<1>1. \A j \in DOMAIN batches : l \in batches[j] => x = [y EXCEPT !.move = n + j]
  BY Zenon DEF LinkedAfter
<1>2. l \in batches[k]
  OBVIOUS
<1> HIDE DEF l, x
<1>3. x = [y EXCEPT !.move = m]
  BY <1>1, <1>2, Zenon
<1>4. y \in LineRecord
  <2>1. r.lines \in Seq(LineRecord)
    BY DEF AssetRecord
  <2> QED BY <2>1, LinesAre
<1>5. m \in Nat
  OBVIOUS
<1> HIDE DEF y, m
<1>6. x.move = m /\ x.amount = y.amount
  BY <1>3, <1>4 DEF LineRecord
<1>7. IsLinked(x)
  BY <1>5, <1>6, AssetAssumption DEF IsLinked
<1> QED BY <1>6, <1>7 DEF Taken, x, y, m

LEMMA LinkIs ==
  ASSUME NEW as, AssetsAre(as), NEW batches, NEW a \in Assets, moves \in Seq(MoveRecord), Batched(as, batches)
  PROVE  LinkedAfter(Link(as, batches)[a], as[a], a, batches, Len(moves))
<1> DEFINE in(l) == {k \in DOMAIN batches : l \in batches[k]}
           line(i) == IF in(<<a, i>>) = {} THEN as[a].lines[i]
                      ELSE [as[a].lines[i] EXCEPT !.move = Len(moves) + CHOOSE k \in in(<<a, i>>) : TRUE]
           lines == [i \in DOMAIN as[a].lines |-> line(i)]
           q == [as[a] EXCEPT !.lines = lines]
<1>1. Link(as, batches)[a] = q
  BY DEF Link
<1>2. as[a] \in AssetRecord /\ as[a].lines \in Seq(LineRecord) /\ Len(moves) \in Nat
  BY AssetIs, SequenceIs
<1>3. batches \in Seq(SUBSET LinesOf(as, Assets)) /\ \A j, k \in DOMAIN batches : j # k => batches[j] \cap batches[k] = {}
  BY DEF Batched
<1>4. \A k \in DOMAIN batches : k \in Nat
  BY <1>3
<1>5. ASSUME NEW i \in DOMAIN as[a].lines
      PROVE  /\ line(i) \in LineRecord
             /\ (\A k \in DOMAIN batches : <<a, i>> \notin batches[k]) => line(i) = as[a].lines[i]
             /\ \A k \in DOMAIN batches : <<a, i>> \in batches[k] => line(i) = [as[a].lines[i] EXCEPT !.move = Len(moves) + k]
  <2>1. as[a].lines[i] \in LineRecord
    BY <1>2, LinesAre
  <2>2. CASE in(<<a, i>>) = {}
    BY <2>1, <2>2
  <2>3. CASE in(<<a, i>>) # {}
    <3>1. PICK k \in DOMAIN batches : <<a, i>> \in batches[k]
      BY <2>3
    <3>2. in(<<a, i>>) = {k}
      BY <1>3, <3>1
    <3>3. line(i) = [as[a].lines[i] EXCEPT !.move = Len(moves) + k]
      <4> HIDE DEF in
      <4> QED BY <2>3, <3>2
    <3>4. line(i) \in LineRecord
      <4>1. Len(moves) + k \in Nat
        BY <1>2, <1>4
      <4> HIDE DEF line
      <4> QED BY <2>1, <3>3, <4>1 DEF LineRecord
    <3>5. \A j \in DOMAIN batches : <<a, i>> \in batches[j] => j = k
      BY <1>3, <3>1
    <3> HIDE DEF line
    <3> QED BY <3>1, <3>3, <3>4, <3>5
  <2> QED BY <2>2, <2>3
<1> HIDE DEF line
<1>6. DOMAIN lines = DOMAIN as[a].lines /\ \A i \in DOMAIN as[a].lines : lines[i] = line(i)
  OBVIOUS
<1>7. lines \in Seq(LineRecord)
  <2> DEFINE n == Len(as[a].lines)
  <2>1. n \in Nat /\ DOMAIN as[a].lines = 1..n
    BY <1>2, LinesAre
  <2>2. lines \in [1..n -> LineRecord]
    BY <1>5, <2>1
  <2> HIDE DEF n, lines
  <2> QED BY <2>1, <2>2
<1> HIDE DEF lines
<1>8. q \in AssetRecord /\ q.lines = lines /\ q.state = as[a].state /\ q.price = as[a].price /\ q.plan = as[a].plan
  BY <1>2, <1>7 DEF AssetRecord
<1> HIDE DEF q
<1> QED BY <1>1, <1>5, <1>6, <1>8 DEF LinkedAfter

\* nv has an entry for each of the batches after those of mv.
EntriesAfter(nv, mv, as, batches) ==
    /\ Grows(mv, nv) /\ Len(nv) = Len(mv) + Len(batches) /\ Len(batches) \in Nat
    /\ DOMAIN batches = 1..Len(batches)
    /\ \A k \in DOMAIN batches : nv[Len(mv) + k].amount = AmountOf(as, batches[k])

LEMMA EntriesAre ==
  ASSUME NEW as, AssetsAre(as), NEW batches, moves \in Seq(MoveRecord), Batched(as, batches)
  PROVE  EntriesAfter(Entries(as, batches), moves, as, batches)
<1> DEFINE n == Len(moves)
           new == [k \in DOMAIN batches |-> [state |-> "draft", amount |-> AmountOf(as, batches[k])]]
           nv == moves \o new
<1>1. batches \in Seq(SUBSET LinesOf(as, Assets)) /\ Len(batches) \in Nat /\ DOMAIN batches = 1..Len(batches)
  BY DEF Batched
<1>2. \A k \in DOMAIN batches : AmountOf(as, batches[k]) \in Int
  <2>1. \A k \in DOMAIN batches : batches[k] \in SUBSET LinesOf(as, Assets)
    <3> DEFINE R == SUBSET LinesOf(as, Assets)
    <3>1. batches \in Seq(R)
      BY <1>1
    <3> HIDE DEF R
    <3>2. \A k \in DOMAIN batches : batches[k] \in R
      BY <3>1, SequenceIs
    <3> QED BY <3>2 DEF R
  <2> QED BY <2>1, AmountsIn
<1>3. new \in Seq(MoveRecord) /\ Len(new) = Len(batches)
  <2>1. new \in [1..Len(batches) -> MoveRecord]
    BY <1>1, <1>2 DEF MoveRecord
  <2> HIDE DEF new
  <2> QED BY <1>1, <2>1
<1>4. \A k \in DOMAIN batches : new[k].amount = AmountOf(as, batches[k]) /\ new[k].state = "draft"
  OBVIOUS
<1>5. Entries(as, batches) = nv
  BY DEF Entries
<1> HIDE DEF new
<1>6. /\ nv \in Seq(MoveRecord) /\ Len(nv) = n + Len(batches) /\ n \in Nat
      /\ \A m \in 1..n : nv[m] = moves[m]
      /\ \A k \in 1..Len(batches) : nv[n + k] = new[k]
  BY <1>1, <1>3
<1>7. DOMAIN moves = 1..n
  OBVIOUS
<1> HIDE DEF nv, n
<1>8. ASSUME NEW m \in (n + 1)..Len(nv) PROVE nv[m].state = "draft"
  <2> DEFINE k == m - n
  <2>1. k \in 1..Len(batches) /\ m = n + k
    BY <1>1, <1>6
  <2> HIDE DEF k
  <2>2. nv[n + k] = new[k]
    BY <1>6, <2>1
  <2>3. new[k].state = "draft"
    BY <1>1, <1>4, <2>1
  <2> QED BY <2>1, <2>2, <2>3
<1>9. Len(moves) <= Len(nv)
  BY <1>1, <1>6 DEF n
<1>10. Grows(moves, nv)
  BY <1>6, <1>7, <1>8, <1>9 DEF Grows, n
<1> QED BY <1>1, <1>4, <1>5, <1>6, <1>10 DEF n, EntriesAfter

LEMMA LinkLinks ==
  ASSUME NEW as, BooksHold(as, moves), NEW batches, Batched(as, batches)
  PROVE  Linkage(as, moves, Link(as, batches), Entries(as, batches))
<1> DEFINE bs == Link(as, batches)
           nv == Entries(as, batches)
           n == Len(moves)
           takes(k, a, i) == <<a, i>> \in batches[k]
<1>1. AssetsAre(as) /\ moves \in Seq(MoveRecord) /\ \A a \in Assets : AssetHolds(as[a], moves)
  BY DEF BooksHold
<1>2. /\ Grows(moves, nv) /\ Len(nv) = n + Len(batches) /\ Len(batches) \in Nat /\ n \in Nat
      /\ DOMAIN batches = 1..Len(batches)
      /\ \A k \in DOMAIN batches : nv[n + k].amount = AmountOf(as, batches[k])
  <2>1. EntriesAfter(nv, moves, as, batches)
    BY <1>1, EntriesAre
  <2>2. n \in Nat
    BY <1>1
  <2> HIDE DEF nv
  <2> QED BY <2>1, <2>2 DEF EntriesAfter
<1>3. /\ batches \in Seq(SUBSET LinesOf(as, Assets))
      /\ \A k \in DOMAIN batches : \A l \in batches[k] : as[l[1]].state = "open" /\ ~IsLinked(Line(as, l))
  BY DEF Batched
<1>9. ASSUME NEW a \in Assets PROVE LinkedAfter(bs[a], as[a], a, batches, n)
  BY <1>1, LinkIs
<1>4. ASSUME NEW a \in Assets
      PROVE  /\ bs[a] \in AssetRecord
             /\ bs[a].state = as[a].state /\ bs[a].price = as[a].price /\ bs[a].plan = as[a].plan
             /\ DOMAIN bs[a].lines = DOMAIN as[a].lines
             /\ \A i \in DOMAIN as[a].lines :
                  /\ (\A k \in DOMAIN batches : ~takes(k, a, i)) => bs[a].lines[i] = as[a].lines[i]
                  /\ \A k \in DOMAIN batches : takes(k, a, i) =>
                       bs[a].lines[i] = [as[a].lines[i] EXCEPT !.move = n + k]
  <2>1. LinkedAfter(bs[a], as[a], a, batches, n)
    BY <1>9
  <2> HIDE DEF bs
  <2> QED BY <2>1 DEF LinkedAfter
<1>5. AssetsAre(bs)
  <2>1. bs = [a \in Assets |-> bs[a]]
    BY DEF Link
  <2> HIDE DEF bs
  <2> QED BY <1>4, <2>1 DEF AssetsAre
<1> HIDE DEF bs, nv, n, takes
<1>6. ASSUME NEW a \in Assets, NEW i \in DOMAIN as[a].lines, NEW k \in DOMAIN batches, takes(k, a, i)
      PROVE  as[a].state = "open" /\ ~IsLinked(as[a].lines[i]) /\ Taken(bs[a], as[a], i, n + k)
  <2>1. LinkedAfter(bs[a], as[a], a, batches, n)
    BY <1>9
  <2>2. as[a] \in AssetRecord
    BY <1>1, AssetIs
  <2>3. <<a, i>> \in batches[k]
    BY <1>6 DEF takes
  <2>4. n \in Nat /\ k \in Nat
    BY <1>2
  <2>5. as[a].state = "open" /\ ~IsLinked(as[a].lines[i])
    <3>1. Line(as, <<a, i>>) = as[a].lines[i] /\ <<a, i>>[1] = a
      BY DEF Line
    <3>2. <<a, i>> \in batches[k]
      BY <1>6 DEF takes
    <3> QED BY <1>3, <3>1, <3>2
  <2>6. Taken(bs[a], as[a], i, n + k)
    BY <2>1, <2>2, <2>3, <2>4, LinkedAt
  <2> QED BY <2>5, <2>6
<1>7. ASSUME NEW a \in Assets PROVE Joins(bs[a], as[a], n, nv)
  <2>1. ASSUME NEW i \in DOMAIN as[a].lines
        PROVE  \/ bs[a].lines[i] = as[a].lines[i]
               \/ /\ as[a].state = "open" /\ ~IsLinked(as[a].lines[i]) /\ IsLinked(bs[a].lines[i])
                  /\ bs[a].lines[i].move \in (n + 1)..Len(nv) /\ bs[a].lines[i].amount = as[a].lines[i].amount
    <3>1. CASE \A k \in DOMAIN batches : ~takes(k, a, i)
      BY <1>4, <3>1
    <3>2. CASE \E k \in DOMAIN batches : takes(k, a, i)
      <4>1. PICK k \in DOMAIN batches : takes(k, a, i)
        BY <3>2
      <4>2. n + k \in (n + 1)..Len(nv)
        BY <1>2, <4>1
      <4>3. /\ as[a].state = "open" /\ ~IsLinked(as[a].lines[i]) /\ IsLinked(bs[a].lines[i])
            /\ bs[a].lines[i].move = n + k /\ bs[a].lines[i].amount = as[a].lines[i].amount
        <5>1. as[a].state = "open" /\ ~IsLinked(as[a].lines[i]) /\ Taken(bs[a], as[a], i, n + k)
          BY <1>6, <4>1
        <5> QED BY <5>1 DEF Taken
      <4> QED BY <4>2, <4>3
    <3> QED BY <3>1, <3>2
  <2> QED BY <1>4, <2>1 DEF Joins
<1>8. ASSUME NEW m \in (n + 1)..Len(nv) PROVE nv[m].amount = AmountOf(bs, LinkedTo(bs, m))
  <2> DEFINE k == m - n
  <2>1. k \in DOMAIN batches /\ m = n + k /\ m \in Nat /\ m \notin 1..n
    BY <1>2
  <2> HIDE DEF k
  <2>2. m # NoMove
    BY <2>1, AssetAssumption
  <2>3. ASSUME NEW l, l \in batches[k] PROVE l \in LinkedTo(bs, m) /\ Line(bs, l).amount = Line(as, l).amount
    <3>0. l \in LinesOf(as, Assets)
      <4> DEFINE R == SUBSET LinesOf(as, Assets)
      <4>1. batches \in Seq(R)
        BY <1>3
      <4> HIDE DEF R
      <4>2. batches[k] \in R
        BY <2>1, <4>1, SequenceIs
      <4> QED BY <2>3, <4>2 DEF R
    <3>1. InLines(l, as)
      BY <3>0, LinesIn
    <3>2. PICK a \in Assets : \E i \in DOMAIN as[a].lines : l = <<a, i>>
      BY <3>1 DEF InLines
    <3>3. PICK i \in DOMAIN as[a].lines : l = <<a, i>>
      BY <3>2
    <3>4. IsLinked(bs[a].lines[i]) /\ bs[a].lines[i].move = m /\ bs[a].lines[i].amount = as[a].lines[i].amount
      <4>1. IsLinked(bs[a].lines[i]) /\ bs[a].lines[i].move = n + k /\ bs[a].lines[i].amount = as[a].lines[i].amount
        <5>1. takes(k, a, i)
          BY <2>3, <3>3 DEF takes
        <5>2. Taken(bs[a], as[a], i, n + k)
          BY <1>6, <2>1, <3>3, <5>1
        <5> QED BY <5>2 DEF Taken
      <4> QED BY <2>1, <4>1
    <3>5. i \in LinkedIn(bs[a].lines)
      BY <1>4, <3>3, <3>4 DEF LinkedIn
    <3>6. InEntry(l, m, bs)
      BY <3>3, <3>4, <3>5 DEF InEntry
    <3> QED BY <2>2, <3>3, <3>4, <3>6, LinkedToIs DEF Line
  <2>4. ASSUME NEW l, l \in LinkedTo(bs, m) PROVE l \in batches[k]
    <3>1. InEntry(l, m, bs)
      BY <2>2, <2>4, LinkedToIs
    <3>2. PICK a \in Assets : \E i \in LinkedIn(bs[a].lines) : l = <<a, i>> /\ bs[a].lines[i].move = m
      BY <3>1 DEF InEntry
    <3>3. PICK i \in LinkedIn(bs[a].lines) : l = <<a, i>> /\ bs[a].lines[i].move = m
      BY <3>2
    <3>4. i \in DOMAIN as[a].lines /\ IsLinked(bs[a].lines[i])
      BY <1>4, <3>3 DEF LinkedIn
    <3>5. CASE \A j \in DOMAIN batches : ~takes(j, a, i)
      <4>1. bs[a].lines[i] = as[a].lines[i]
        BY <1>4, <3>4, <3>5
      <4>2. i \in LinkedIn(as[a].lines)
        BY <3>4, <4>1 DEF LinkedIn
      <4>3. as[a] # NoAsset
        <5>1. NoAsset.lines = <<>> /\ DOMAIN <<>> = {}
          BY DEF NoAsset
        <5> QED BY <3>4, <5>1
      <4>4. Moved(as[a], moves)
        BY <1>1, <4>3 DEF AssetHolds, AssetFits
      <4>5. m \in DOMAIN moves
        BY <3>3, <4>1, <4>2, <4>4 DEF Moved
      <4>6. DOMAIN moves = 1..n
        BY <1>1 DEF n
      <4> QED BY <2>1, <4>5, <4>6
    <3>6. CASE \E j \in DOMAIN batches : takes(j, a, i)
      <4>1. PICK j \in DOMAIN batches : takes(j, a, i)
        BY <3>6
      <4>2. n + j = m
        <5>1. bs[a].lines[i].move = n + j
          <6>1. Taken(bs[a], as[a], i, n + j)
            BY <1>6, <3>4, <4>1
          <6> QED BY <6>1 DEF Taken
        <5> QED BY <3>3, <5>1
      <4>3. j = k
        BY <1>2, <2>1, <4>1, <4>2
      <4> QED BY <3>3, <4>1, <4>3 DEF takes
    <3> QED BY <3>5, <3>6
  <2>5. LinkedTo(bs, m) = batches[k]
    BY <2>3, <2>4
  <2>6. AmountOf(bs, batches[k]) = AmountOf(as, batches[k])
    <3>1. \A l \in batches[k] : Line(bs, l).amount = Line(as, l).amount
      BY <2>3
    <3> QED BY <3>1, SameAmounts
  <2> QED BY <1>2, <2>1, <2>5, <2>6
<1> QED BY <1>2, <1>5, <1>7, <1>8 DEF Linkage, bs, nv, n

-----------------------------------------------------------------------------
(* The steps before entries, and the invariant. *)

\* A new board for an asset.
LEMMA Rebuilt ==
  ASSUME NEW as, NEW mv, BooksHold(as, mv), NEW a \in Assets, NEW r, AssetFits(r, mv), r.state \in {"draft", "open"},
         r.lines = as[a].lines
  PROVE  BooksHold([as EXCEPT ![a] = Board(r)], mv)
<1> DEFINE q == Board(r)
           tail == Planned(r)
<1>1. HasPlan(r) /\ r \in AssetRecord
  BY DEF AssetFits, HasPlan
<1>2. tail \in Seq(LineRecord) /\ LinkedIn(tail) = {}
  BY <1>1, PlannedAre
<1>3. q.lines = Linked(r.lines) \o tail
  BY <1>1 DEF Board, AssetRecord
<1>4. AssetHolds(q, mv)
  BY BoardHolds
<1>5. q \in AssetRecord
  <2>1. Linked(r.lines) \o tail \in Seq(LineRecord)
    BY <1>1, <1>2, RecordIs, PrefixIs DEF Prefixed
  <2> QED BY <1>1, <2>1 DEF Board, AssetRecord
<1> HIDE DEF q, tail
<1>6. q.lines = Linked(as[a].lines) \o tail
  BY <1>3
<1>7. BooksHold([as EXCEPT ![a] = q], mv)
  BY <1>2, <1>4, <1>5, <1>6, Replaced
<1> QED BY <1>7 DEF q

\* An entry is taken out of the ledger.
LEMMA Unposted ==
  ASSUME NEW as, NEW mv, BooksHold(as, mv), NEW m \in DOMAIN mv, NEW to \in {"draft", "cancel"}
  PROVE  BooksHold(as, [mv EXCEPT ![m].state = to])
<1> DEFINE nv == [mv EXCEPT ![m].state = to]
<1>1. /\ AssetsAre(as) /\ mv \in Seq(MoveRecord) /\ \A a \in Assets : AssetHolds(as[a], mv)
      /\ Booked(as, mv)
  BY DEF BooksHold
<1>2. \A k \in DOMAIN mv : mv[k] \in MoveRecord
  BY <1>1
<1>3. [mv[m] EXCEPT !.state = to] \in MoveRecord /\ [mv[m] EXCEPT !.state = to].amount = mv[m].amount
      /\ [mv[m] EXCEPT !.state = to].state = to
  BY <1>2 DEF MoveRecord
<1>4. /\ nv \in Seq(MoveRecord) /\ DOMAIN nv = DOMAIN mv
      /\ \A k \in DOMAIN mv : nv[k].amount = mv[k].amount /\ (mv[k].state # "posted" => nv[k].state # "posted")
  <2> DEFINE n == Len(mv)
  <2>1. n \in Nat /\ DOMAIN mv = 1..n
    BY <1>1
  <2>2. DOMAIN nv = DOMAIN mv /\ \A k \in DOMAIN mv : nv[k] = IF k = m THEN [mv[m] EXCEPT !.state = to] ELSE mv[k]
    BY <1>1
  <2>3. nv \in [1..n -> MoveRecord]
    <3>1. nv = [k \in 1..n |-> nv[k]]
      BY <2>1
    <3> HIDE DEF nv, n
    <3> QED BY <1>2, <1>3, <2>1, <2>2, <3>1
  <2> HIDE DEF nv, n
  <2>4. nv \in Seq(MoveRecord)
    BY <2>1, <2>3
  <2> QED BY <1>3, <2>2, <2>4
<1> HIDE DEF nv
<1>5. Booked(as, nv)
  BY <1>1, <1>4 DEF Booked
<1>6. ASSUME NEW a \in Assets PROVE AssetHolds(as[a], nv)
  <2> DEFINE r == as[a]
  <2>1. CASE r = NoAsset
    BY <2>1 DEF AssetHolds
  <2>2. CASE r # NoAsset
    <3>1. AssetFits(r, mv) /\ Conserves(r) /\ Closes(r) /\ Runs(r)
      BY <1>1, <2>2 DEF AssetHolds
    <3>2. Moved(r, nv) /\ Moved(r, mv)
      BY <1>4, <3>1 DEF AssetFits, Moved
    <3>3. Waits(r, nv)
      <4> SUFFICES ASSUME r.state = "open", LinkedIn(r.lines) # {}, ValueResidual(r) = 0
                   PROVE  \E i \in LinkedIn(r.lines) : nv[r.lines[i].move].state # "posted"
        BY DEF Waits
      <4>1. PICK i \in LinkedIn(r.lines) : mv[r.lines[i].move].state # "posted"
        BY <3>1 DEF AssetFits, Waits
      <4>2. r.lines[i].move \in DOMAIN mv
        BY <3>2 DEF Moved
      <4> QED BY <1>4, <4>1, <4>2
    <3> HIDE DEF r
    <3>4. AssetFits(r, nv)
      BY <3>1, <3>2, <3>3 DEF AssetFits
    <3> QED BY <3>1, <3>4 DEF AssetHolds, r
  <2> QED BY <2>1, <2>2
<1> QED BY <1>1, <1>4, <1>5, <1>6 DEF BooksHold, nv

AssetInv == BooksHold(asset, moves) /\ now \in Nat

LEMMA AssetInitInv == AssetInit => AssetInv
<1> SUFFICES ASSUME AssetInit PROVE AssetInv
  OBVIOUS
<1>1. asset = [a \in Assets |-> NoAsset] /\ moves = <<>> /\ now = 0
  BY DEF AssetInit
<1>2. NoAsset \in AssetRecord
  <2>1. <<>> \in Seq(LineRecord) /\ <<0, 0>> \in Int \X Int
    OBVIOUS
  <2> QED BY <2>1 DEF NoAsset, AssetRecord, States
<1>3. AssetsAre(asset)
  BY <1>1, <1>2 DEF AssetsAre
<1>4. \A a \in Assets : AssetHolds(asset[a], moves)
  BY <1>1 DEF AssetHolds
<1>5. moves \in Seq(MoveRecord) /\ DOMAIN moves = {}
  BY <1>1
<1>6. Booked(asset, moves)
  BY <1>5 DEF Booked
<1> QED BY <1>1, <1>3, <1>4, <1>5, <1>6 DEF AssetInv, BooksHold

\* What is known of an asset.
LEMMA AssetAt ==
  ASSUME NEW as, NEW mv, BooksHold(as, mv), NEW a \in Assets
  PROVE  /\ as[a] \in AssetRecord /\ AssetHolds(as[a], mv)
         /\ as[a].state = "none" => as[a] = NoAsset
         /\ as[a].state # "none" => /\ AssetFits(as[a], mv) /\ HasPlan(as[a]) /\ Conserves(as[a])
                                    /\ Closes(as[a]) /\ Runs(as[a])
<1>1. AssetsAre(as) /\ AssetHolds(as[a], mv)
  BY DEF BooksHold
<1>2. as[a] \in AssetRecord
  BY <1>1, AssetIs
<1>3. NoAsset.state = "none"
  BY DEF NoAsset
<1>4. AssetFits(as[a], mv) => as[a].state # "none" /\ HasPlan(as[a])
  BY DEF AssetFits
<1>5. \/ as[a] = NoAsset
      \/ AssetFits(as[a], mv) /\ Conserves(as[a]) /\ Closes(as[a]) /\ Runs(as[a])
  BY <1>1 DEF AssetHolds
<1>6. CASE as[a] = NoAsset
  BY <1>1, <1>2, <1>3, <1>6
<1>7. CASE as[a] # NoAsset
  BY <1>1, <1>2, <1>4, <1>5, <1>7
<1> QED BY <1>6, <1>7

\* An asset that is new.
LEMMA NewHolds ==
  ASSUME NEW as, NEW mv, BooksHold(as, mv), NEW a \in Assets, as[a].state = "none",
         NEW state \in {"draft", "open"}, NEW price \in Prices, NEW plan \in Plans
  PROVE  BooksHold([as EXCEPT ![a] = New(state, price, plan)], mv)
<1> DEFINE r == [state |-> state, price |-> price, plan |-> plan, lines |-> <<>>]
<1>1. as[a] = NoAsset
  BY AssetAt
<1>2. r.lines = as[a].lines /\ r.lines = <<>> /\ r.state = state
  BY <1>1 DEF NoAsset
<1>3. price \in Int \X Int /\ plan \in PlanRecord /\ CheckProrata(plan)
  BY AssetAssumption
<1>4. HasPlan(r)
  <2>1. <<>> \in Seq(LineRecord)
    OBVIOUS
  <2> QED BY <1>3, <2>1 DEF HasPlan, AssetRecord, States
<1>5. LinkedIn(r.lines) = {}
  BY <1>2 DEF LinkedIn
<1> HIDE DEF r
<1>6. AssetFits(r, mv)
  BY <1>2, <1>4, <1>5 DEF AssetFits, Moved, Starts, Waits
<1>7. BooksHold([as EXCEPT ![a] = Board(r)], mv)
  BY <1>2, <1>6, Rebuilt
<1> QED BY <1>7 DEF New, r

\* A draft is edited.
LEMMA WriteHolds ==
  ASSUME NEW as, NEW mv, BooksHold(as, mv), NEW a \in Assets, as[a].state = "draft",
         NEW price \in Prices, NEW plan \in Plans
  PROVE  BooksHold([as EXCEPT ![a] = Board([as[a] EXCEPT !.price = price, !.plan = plan])], mv)
<1> DEFINE r == [as[a] EXCEPT !.price = price, !.plan = plan]
<1>1. AssetFits(as[a], mv) /\ as[a] \in AssetRecord
  BY AssetAt
<1>2. price \in Int \X Int /\ plan \in PlanRecord /\ CheckProrata(plan)
  BY AssetAssumption
<1>3. r \in AssetRecord /\ r.lines = as[a].lines /\ r.state = "draft" /\ r.plan = plan
  BY <1>1, <1>2 DEF AssetRecord
<1>4. HasPlan(r)
  BY <1>2, <1>3 DEF HasPlan
<1> HIDE DEF r
<1>5. AssetFits(r, mv)
  BY <1>1, <1>3, <1>4 DEF AssetFits, Moved, Starts, Waits
<1>6. BooksHold([as EXCEPT ![a] = Board(r)], mv)
  BY <1>3, <1>5, Rebuilt
<1> QED BY <1>6 DEF r

\* A running asset is modified.
LEMMA ModifyHolds ==
  ASSUME NEW as, NEW mv, BooksHold(as, mv), NEW a \in Assets, as[a].state = "open",
         NEW c \in Changes, c.time = as[a].plan.time
  PROVE  BooksHold([as EXCEPT ![a] = Board([as[a] EXCEPT !.plan.number = c.number,
                                                  !.plan.period = c.period, !.plan.end = c.end])], mv)
<1> DEFINE p == as[a].plan
           plan == [p EXCEPT !.number = c.number, !.period = c.period, !.end = c.end]
           r == [as[a] EXCEPT !.plan = plan]
<1>1. AssetFits(as[a], mv) /\ as[a] \in AssetRecord /\ p \in PlanRecord /\ CheckProrata(p)
  BY AssetAt DEF HasPlan
<1>2. c.number \in Nat /\ c.period \in Nat \ {0} /\ c.end \in Int
  BY AssetAssumption
<1>3. plan \in PlanRecord /\ CheckProrata(plan)
  <2> HIDE DEF p
  <2>1. plan \in PlanRecord
    BY <1>1, <1>2 DEF PlanRecord
  <2>2. plan.prorata = p.prorata /\ plan.time = p.time /\ plan.number = c.number
    BY <1>1 DEF PlanRecord
  <2>3. c.time = p.time
    BY DEF p
  <2> HIDE DEF plan
  <2> QED BY <1>1, <1>2, <2>1, <2>2, <2>3 DEF CheckProrata
<1>4. r = [as[a] EXCEPT !.plan.number = c.number, !.plan.period = c.period, !.plan.end = c.end]
  BY <1>1 DEF AssetRecord
<1> HIDE DEF plan, p
<1>5. r \in AssetRecord /\ r.lines = as[a].lines /\ r.state = "open" /\ r.plan = plan /\ r.price = as[a].price
  BY <1>1, <1>3 DEF AssetRecord
<1>6. HasPlan(r)
  BY <1>3, <1>5 DEF HasPlan
<1> HIDE DEF r
<1>7. ValueResidual(r) = ValueResidual(as[a])
  BY <1>5 DEF ValueResidual
<1>8. AssetFits(r, mv)
  BY <1>1, <1>5, <1>6, <1>7 DEF AssetFits, Moved, Starts, Waits
<1>9. BooksHold([as EXCEPT ![a] = Board(r)], mv)
  BY <1>5, <1>8, Rebuilt
<1> QED BY <1>4, <1>9

\* A draft without entries is deleted.
LEMMA UnlinkHolds ==
  ASSUME NEW as, NEW mv, BooksHold(as, mv), NEW a \in Assets, LinkedIn(as[a].lines) = {}
  PROVE  BooksHold([as EXCEPT ![a] = NoAsset], mv)
<1> DEFINE L == Linked(as[a].lines)
<1>1. as[a].lines \in Seq(LineRecord)
  BY AssetIs DEF BooksHold
<1>2. L \in Seq(LineRecord) /\ Len(L) = Cardinality(LinkedIn(as[a].lines))
  BY <1>1, LinkedAre
<1>3. Len(L) = 0
  BY <1>2, FS_EmptySet
<1>4. <<>> \in Seq(LineRecord) /\ LinkedIn(<<>>) = {}
  BY DEF LinkedIn
<1>5. NoAsset.lines = L \o <<>>
  <2> HIDE DEF L
  <2>1. L = <<>>
    BY <1>2, <1>3
  <2> QED BY <2>1 DEF NoAsset
<1> HIDE DEF L
<1>6. NoAsset \in AssetRecord /\ AssetHolds(NoAsset, mv)
  <2>1. <<>> \in Seq(LineRecord) /\ <<0, 0>> \in Int \X Int
    OBVIOUS
  <2> QED BY <2>1 DEF NoAsset, AssetRecord, States, AssetHolds
<1> QED BY <1>4, <1>5, <1>6, Replaced DEF L

\* A draft is confirmed, and a running asset without entries becomes a draft.
LEMMA RestateHolds ==
  ASSUME NEW as, NEW mv, BooksHold(as, mv), NEW a \in Assets, as[a].state \in {"draft", "open"},
         LinkedIn(as[a].lines) = {}, NEW state \in {"draft", "open"}
  PROVE  BooksHold([as EXCEPT ![a] = [as[a] EXCEPT !.state = state]], mv)
<1> DEFINE r == as[a]
           q == [r EXCEPT !.state = state]
<1>1. AssetFits(r, mv) /\ HasPlan(r) /\ Conserves(r) /\ Closes(r) /\ Runs(r)
  BY AssetAt
<1>2. /\ HasPlan(q) /\ q.state = state /\ q.lines = r.lines /\ q.price = r.price /\ q.plan = r.plan
      /\ ValueResidual(q) = ValueResidual(r) /\ (HasPlanned(q) <=> HasPlanned(r))
  <2>1. state \in States
    BY DEF States
  <2> HIDE DEF r
  <2> QED BY <1>1, <2>1, StateIs
<1>3. q \in AssetRecord
  BY <1>2 DEF HasPlan
<1> HIDE DEF q
<1>4. AssetHolds(q, mv)
  <2>1. Runs(q)
    <3>1. LinkedIn(r.lines) = DOMAIN r.lines => r.lines = <<>>
      <4> SUFFICES ASSUME DOMAIN r.lines = {} PROVE r.lines = <<>>
        OBVIOUS
      <4> DEFINE L == r.lines
                 k == Len(L)
      <4>1. L \in Seq(LineRecord) /\ k \in Nat /\ DOMAIN L = 1..k
        BY <1>1, RecordIs, LinesAre
      <4> HIDE DEF L, k
      <4>2. DOMAIN L = {}
        BY DEF L
      <4>3. 1 \notin 1..k
        BY <4>1, <4>2
      <4>4. k = 0
        BY <4>1, <4>3
      <4>5. L = <<>>
        BY <4>1, <4>4 DEF k
      <4> QED BY <4>5 DEF L
    <3> HIDE DEF r
    <3> QED BY <1>2, <3>1 DEF Runs, HasPlanned
  <2>2. LinkedIn(q.lines) = {}
    BY <1>2
  <2> HIDE DEF r
  <2> QED BY <1>1, <1>2, <2>1, <2>2 DEF AssetHolds, AssetFits, Moved, Starts, Waits, Conserves, Closes
<1>5. BooksHold([as EXCEPT ![a] = q], mv)
  BY <1>2, <1>3, <1>4, Restated
<1> QED BY <1>5 DEF q

-----------------------------------------------------------------------------
(* The steps that make entries. *)

\* Batches of different lines, all among those of P.
BatchesIn(batches, P) ==
    /\ batches \in Seq(SUBSET P)
    /\ \A j, k \in DOMAIN batches : j # k => batches[j] \cap batches[k] = {}

LEMMA ConcatBatches ==
  ASSUME NEW P, NEW R, P \cap R = {}, NEW s, BatchesIn(s, P), NEW t, BatchesIn(t, R)
  PROVE  BatchesIn(s \o t, P \cup R)
<1> DEFINE m == Len(s)
           n == Len(t)
           u == s \o t
           B == SUBSET (P \cup R)
<1>1. /\ s \in Seq(B) /\ t \in Seq(B)
  <2>1. s \in Seq(SUBSET P) /\ t \in Seq(SUBSET R)
    BY DEF BatchesIn
  <2>2. SUBSET P \subseteq B /\ SUBSET R \subseteq B
    OBVIOUS
  <2> DEFINE X == SUBSET P
             Y == SUBSET R
  <2>3. s \in Seq(X) /\ t \in Seq(Y) /\ X \subseteq B /\ Y \subseteq B
    BY <2>1, <2>2
  <2> HIDE DEF X, Y, B
  <2> QED BY <2>3
<1>2. /\ m \in Nat /\ n \in Nat /\ DOMAIN s = 1..m /\ DOMAIN t = 1..n
      /\ \A k \in 1..m : s[k] \subseteq P
      /\ \A k \in 1..n : t[k] \subseteq R
  <2> DEFINE X == SUBSET P
             Y == SUBSET R
  <2>1. s \in Seq(X) /\ t \in Seq(Y)
    BY DEF BatchesIn
  <2> HIDE DEF X, Y
  <2>2. /\ m \in Nat /\ n \in Nat /\ DOMAIN s = 1..m /\ DOMAIN t = 1..n
        /\ (\A k \in 1..m : s[k] \in X) /\ (\A k \in 1..n : t[k] \in Y)
    BY <2>1
  <2> QED BY <2>2 DEF X, Y
<1>3. /\ u \in Seq(B) /\ DOMAIN u = 1..(m + n)
      /\ \A k \in 1..m : u[k] = s[k]
      /\ \A k \in 1..n : u[m + k] = t[k]
  <2> HIDE DEF B
  <2> QED BY <1>1, <1>2
<1> HIDE DEF m, n, u
<1>4. \A j \in 1..(m + n) : j \in 1..m \/ (j - m \in 1..n /\ j = m + (j - m))
  BY <1>2
<1>5. ASSUME NEW j \in DOMAIN u, NEW k \in DOMAIN u, j # k PROVE u[j] \cap u[k] = {}
  <2>1. \A x \in 1..m : \A y \in 1..m : x # y => s[x] \cap s[y] = {}
    BY <1>2 DEF BatchesIn
  <2>2. \A x \in 1..n : \A y \in 1..n : x # y => t[x] \cap t[y] = {}
    BY <1>2 DEF BatchesIn
  <2>3. CASE j \in 1..m /\ k \in 1..m
    BY <1>3, <1>5, <2>1, <2>3
  <2>4. CASE j \notin 1..m /\ k \notin 1..m
    <3>1. j - m \in 1..n /\ k - m \in 1..n /\ j = m + (j - m) /\ k = m + (k - m)
      BY <1>3, <1>4, <2>4
    <3>2. j - m # k - m
      BY <1>5, <3>1
    <3>3. u[j] = t[j - m] /\ u[k] = t[k - m]
      BY <1>3, <3>1
    <3> QED BY <2>2, <3>1, <3>2, <3>3
  <2>5. CASE j \in 1..m /\ k \notin 1..m
    <3>1. k - m \in 1..n /\ k = m + (k - m)
      BY <1>3, <1>4, <2>5
    <3>2. u[k] = t[k - m] /\ u[j] = s[j]
      BY <1>3, <2>5, <3>1
    <3> QED BY <1>2, <2>5, <3>1, <3>2
  <2>6. CASE j \notin 1..m /\ k \in 1..m
    <3>1. j - m \in 1..n /\ j = m + (j - m)
      BY <1>3, <1>4, <2>6
    <3>2. u[j] = t[j - m] /\ u[k] = s[k]
      BY <1>3, <2>6, <3>1
    <3> QED BY <1>2, <2>6, <3>1, <3>2
  <2> QED BY <2>3, <2>4, <2>5, <2>6
<1> QED BY <1>3, <1>5 DEF BatchesIn, u

LEMMA EachIs ==
  ASSUME NEW S, IsFiniteSet(S)
  PROVE  BatchesIn(Each(S), S)
<1> DEFINE n == Cardinality(S)
           batch(k) == {l \in S : Cardinality(Before(l, S)) = k}
           e == [k \in 1..n |-> batch(k)]
<1>1. n \in Nat
  BY FS_CardinalityType
<1>2. \A k : batch(k) \in SUBSET S
  OBVIOUS
<1>3. \A j, k : j # k => batch(j) \cap batch(k) = {}
  OBVIOUS
<1> HIDE DEF batch, n
<1>4. DOMAIN e = 1..n /\ \A k \in 1..n : e[k] = batch(k)
  OBVIOUS
<1> DEFINE B == SUBSET S
<1>5. e \in [1..n -> B]
  BY <1>2
<1>6. e \in Seq(B)
  <2> HIDE DEF e, B
  <2> QED BY <1>1, <1>5
<1>7. \A j, k \in DOMAIN e : j # k => e[j] \cap e[k] = {}
  BY <1>3, <1>4
<1> QED BY <1>6, <1>7, Zenon DEF BatchesIn, Each, e, n, batch

\* Sets without common elements.
Disjoint(sets) == \A s, t \in sets : s # t => s \cap t = {}

LEMMA GroupedIs ==
  ASSUME NEW P, IsFiniteSet(P), NEW sets \in SUBSET (SUBSET P), Disjoint(sets)
  PROVE  BatchesIn(Grouped(sets), P)
<1> DEFINE T == sets \ {{}}
           n == Cardinality(T)
           g == Grouped(sets)
           B == SUBSET P
<1>1. IsFiniteSet(T)
  <2>1. IsFiniteSet(B)
    BY FS_SUBSET
  <2>2. T \in SUBSET B
    OBVIOUS
  <2> HIDE DEF B, T
  <2> QED BY <2>1, <2>2, FS_Subset
<1>2. T \subseteq B
  OBVIOUS
<1>3. g = CHOOSE f \in [1..n -> T] : IsInjective(f)
  BY DEF Grouped, SetToSeq
<1>4. \A s, t \in T : s # t => s \cap t = {}
  BY DEF Disjoint
<1> HIDE DEF T
<1>5. n \in Nat /\ \E f \in [1..n -> T] : IsInjective(f)
  <2>1. n \in Nat /\ ExistsBijection(1..n, T)
    BY <1>1, FS_CardinalityType
  <2>2. PICK f : f \in Bijection(1..n, T)
    BY <2>1 DEF ExistsBijection
  <2> HIDE DEF n
  <2> QED BY <2>1, <2>2 DEF Bijection, Injection
<1> HIDE DEF n, g
<1>6. g \in [1..n -> T] /\ IsInjective(g)
  BY <1>3, <1>5
<1>7. g \in Seq(B)
  <2> HIDE DEF B
  <2> QED BY <1>2, <1>5, <1>6
<1>8. ASSUME NEW j \in DOMAIN g, NEW k \in DOMAIN g, j # k PROVE g[j] \cap g[k] = {}
  <2>1. g[j] \in T /\ g[k] \in T
    BY <1>6
  <2>2. g[j] # g[k]
    BY <1>6, <1>8 DEF IsInjective
  <2> QED BY <1>4, <2>1, <2>2
<1> QED BY <1>7, <1>8 DEF BatchesIn, g

OpenLines ==
    {l \in LinesOf(asset, Assets) : asset[l[1]].state = "open" /\ ~IsLinked(Line(asset, l))}

LEMMA BatchesAre ==
  ASSUME NEW batches, BatchesIn(batches, OpenLines)
  PROVE  Batched(asset, batches)
<1> DEFINE X == SUBSET OpenLines
           Y == SUBSET LinesOf(asset, Assets)
<1>1. batches \in Seq(X) /\ X \subseteq Y
  BY DEF BatchesIn, OpenLines
<1>2. batches \in Seq(Y) /\ \A k \in DOMAIN batches : batches[k] \in X
  <2> HIDE DEF X, Y
  <2> QED BY <1>1
<1>3. \A k \in DOMAIN batches : \A l \in batches[k] : asset[l[1]].state = "open" /\ ~IsLinked(Line(asset, l))
  <2>1. \A l \in OpenLines : asset[l[1]].state = "open" /\ ~IsLinked(Line(asset, l))
    BY Zenon DEF OpenLines
  <2> QED BY <1>2, <2>1
<1> QED BY <1>2, <1>3 DEF Batched, BatchesIn

\* What is posted.
LEMMA PostEntriesIs ==
  ASSUME NEW as, NEW mv, NEW M, PostEntries(as, mv, M)
  PROVE  asset' = [a \in Assets |-> ClosedBy(as[a], M)] /\ moves' = PostedIn(mv, M)
  BY DEF PostEntries, ClosedBy, Close, PostedIn

LEMMA PostHolds ==
  ASSUME NEW as, NEW mv, BooksHold(as, mv), NEW bs, NEW nv, Linkage(as, mv, bs, nv),
         NEW M, PostEntries(bs, nv, M)
  PROVE  BooksHold(asset', moves')
<1>1. BooksHold([a \in Assets |-> ClosedBy(bs[a], M)], PostedIn(nv, M))
  BY BookedHolds
<1> QED BY <1>1, PostEntriesIs

LEMMA BookHolds ==
  ASSUME BooksHold(asset, moves), NEW P \in SUBSET OpenLines, NEW R \in SUBSET OpenLines, P \cap R = {},
         NEW each, BatchesIn(each, P), NEW grouped, BatchesIn(grouped, R), Book(each, grouped)
  PROVE  BooksHold(asset', moves')
<1> DEFINE batches == each \o grouped
<1>1. BatchesIn(batches, P \cup R)
  BY ConcatBatches
<1>2. BatchesIn(batches, OpenLines)
  <2> DEFINE X == SUBSET (P \cup R)
             Y == SUBSET OpenLines
  <2>1. batches \in Seq(X) /\ X \subseteq Y
    BY <1>1 DEF BatchesIn
  <2>2. batches \in Seq(Y)
    <3> HIDE DEF X, Y, batches
    <3> QED BY <2>1
  <2> QED BY <1>1, <2>2 DEF BatchesIn
<1>3. Linkage(asset, moves, Link(asset, batches), Entries(asset, batches))
  <2>1. Batched(asset, batches)
    BY <1>2, BatchesAre
  <2> HIDE DEF batches
  <2> QED BY <2>1, LinkLinks
<1>4. \E M : PostEntries(Link(asset, batches), Entries(asset, batches), M)
  BY Zenon DEF Book
<1> HIDE DEF batches
<1> QED BY <1>3, <1>4, PostHolds

LEMMA LinesOfSome ==
  ASSUME NEW A \in SUBSET Assets, NEW l \in LinesOf(asset, A)
  PROVE  l \in LinesOf(asset, Assets) /\ l[1] \in A
<1>1. \E a \in A : l \in {a} \X DOMAIN asset[a].lines
  BY Zenon DEF LinesOf
<1>2. PICK a \in A : l \in {a} \X DOMAIN asset[a].lines
  BY <1>1
<1>3. l[1] = a
  BY <1>2
<1>4. a \in Assets
  OBVIOUS
<1>5. l \in LinesOf(asset, Assets)
  BY <1>2, <1>4, Zenon DEF LinesOf
<1> QED BY <1>3, <1>5

LEMMA DueAre ==
  ASSUME NEW A, A \subseteq {a \in Assets : asset[a].state = "open"}, NEW date
  PROVE  Due(A, date) \subseteq OpenLines /\ \A l \in Due(A, date) : l[1] \in A
<1>1. A \in SUBSET Assets
  OBVIOUS
<1>2. ASSUME NEW l \in Due(A, date) PROVE l \in OpenLines /\ l[1] \in A
  <2>1. l \in LinesOf(asset, A) /\ ~IsLinked(Line(asset, l))
    BY DEF Due
  <2>2. l \in LinesOf(asset, Assets) /\ l[1] \in A
    BY <1>1, <2>1, LinesOfSome
  <2> QED BY <2>1, <2>2 DEF OpenLines
<1> QED BY <1>2

\* The cron or the wizard.
LEMMA GenerateHolds ==
  ASSUME BooksHold(asset, moves), NEW date, GenerateEntries(date)
  PROVE  BooksHold(asset', moves')
<1> DEFINE open == {a \in Assets : asset[a].state = "open"}
           in(c) == {a \in open : asset[a].plan.category = c}
           single == {a \in open : asset[a].plan.category \notin GroupEntries}
           others == {a \in open : asset[a].plan.category \in GroupEntries}
           P == Due(single, date)
           R == {l \in OpenLines : l[1] \in others}
           sets == {Due(in(c), date) : c \in GroupEntries}
<1>1. Book(Each(P), Grouped(sets))
  BY Zenon DEF GenerateEntries
<1>2. P \subseteq OpenLines /\ \A l \in P : l[1] \in single
  BY DueAre
<1>3. P \cap R = {}
  BY <1>2
<1>4. IsFiniteSet(P) /\ IsFiniteSet(R)
  <2>1. IsFiniteSet(LinesOf(asset, Assets))
    BY LinesFinite DEF BooksHold
  <2>2. P \in SUBSET LinesOf(asset, Assets) /\ R \in SUBSET LinesOf(asset, Assets)
    <3>1. OpenLines \subseteq LinesOf(asset, Assets)
      BY DEF OpenLines
    <3> HIDE DEF P
    <3> QED BY <1>2, <3>1
  <2> HIDE DEF P, R
  <2> QED BY <2>1, <2>2, FS_Subset
<1>5. ASSUME NEW c \in GroupEntries
      PROVE  Due(in(c), date) \subseteq R /\ \A l \in Due(in(c), date) : asset[l[1]].plan.category = c
  <2>1. Due(in(c), date) \subseteq OpenLines /\ \A l \in Due(in(c), date) : l[1] \in in(c)
    BY DueAre
  <2> QED BY <2>1
<1>6. sets \in SUBSET (SUBSET R)
  BY <1>5
<1>7. Disjoint(sets)
  <2> SUFFICES ASSUME NEW s \in sets, NEW t \in sets, s # t PROVE s \cap t = {}
    BY DEF Disjoint
  <2>1. PICK c \in GroupEntries : s = Due(in(c), date)
    OBVIOUS
  <2>2. PICK d \in GroupEntries : t = Due(in(d), date)
    OBVIOUS
  <2>3. c # d
    BY <2>1, <2>2
  <2>4. (\A l \in s : asset[l[1]].plan.category = c) /\ (\A l \in t : asset[l[1]].plan.category = d)
    BY <1>5, <2>1, <2>2
  <2> QED BY <2>3, <2>4
<1> HIDE DEF P, sets
<1>8. R \in SUBSET OpenLines
  OBVIOUS
<1> HIDE DEF R
<1>9. BatchesIn(Each(P), P) /\ BatchesIn(Grouped(sets), R)
  BY <1>4, <1>6, <1>7, EachIs, GroupedIs
<1> QED BY <1>1, <1>2, <1>3, <1>8, <1>9, BookHolds

\* A click on a line.
LEMMA CreateMoveHolds ==
  ASSUME BooksHold(asset, moves), NEW a \in Assets, CreateMove(a)
  PROVE  BooksHold(asset', moves')
<1>1. PICK l \in LinesOf(asset, {a}) : ~IsLinked(Line(asset, l)) /\ Book(<<{l}>>, <<>>)
  BY Zenon DEF CreateMove
<1>2. asset[a].state = "open"
  BY DEF CreateMove
<1>3. l \in LinesOf(asset, Assets) /\ l[1] = a
  BY LinesOfSome
<1>4. {l} \in SUBSET OpenLines
  BY <1>1, <1>2, <1>3 DEF OpenLines
<1>5. BatchesIn(<<{l}>>, {l})
  BY DEF BatchesIn
<1>6. BatchesIn(<<>>, {})
  BY DEF BatchesIn
<1> QED BY <1>1, <1>4, <1>5, <1>6, BookHolds

\* A sale.
LEMMA SetToCloseHolds ==
  ASSUME BooksHold(asset, moves), now \in Nat, NEW a \in Assets, SetToClose(a)
  PROVE  BooksHold(asset', moves')
<1> DEFINE r == asset[a]
           seq == Posted(r) + 1
           q == Sold(r, now)
           as == [asset EXCEPT ![a] = q]
           batches == <<{<<a, seq>>}>>
<1>1. r.state = "open" /\ PostEntries(Link(as, batches), Entries(as, batches), {})
  BY Zenon DEF SetToClose, Sold
<1>2. r \in AssetRecord /\ AssetHolds(r, moves) /\ HasPlan(r)
  BY <1>1, AssetAt
<1>3. /\ AssetHolds(q, moves) /\ q.state = "open"
      /\ \E tail \in Seq(LineRecord) : LinkedIn(tail) = {} /\ q.lines = Linked(r.lines) \o tail
      /\ seq \in DOMAIN q.lines /\ ~IsLinked(q.lines[seq])
  <2> HIDE DEF r
  <2> QED BY <1>1, <1>2, SoldHolds
<1> HIDE DEF q, seq
<1>4. q \in AssetRecord
  <2>1. q # NoAsset
    BY <1>3 DEF NoAsset
  <2> QED BY <1>3, <2>1 DEF AssetHolds, AssetFits, HasPlan
<1>5. BooksHold(as, moves)
  <2>1. PICK tail \in Seq(LineRecord) : LinkedIn(tail) = {} /\ q.lines = Linked(r.lines) \o tail
    BY <1>3
  <2> QED BY <1>4, <1>3, <2>1, Replaced
<1>6. as[a] = q
  BY DEF BooksHold, AssetsAre
<1> HIDE DEF as
<1>7. Batched(as, batches)
  <2> DEFINE l == <<a, seq>>
  <2>1. l \in LinesOf(as, Assets)
    <3>1. InLines(l, as)
      BY <1>3, <1>6 DEF InLines
    <3> QED BY <3>1, LinesIn
  <2>2. Line(as, l) = q.lines[seq] /\ l[1] = a
    BY <1>6 DEF Line
  <2>3. batches = <<{l}>>
    OBVIOUS
  <2> HIDE DEF l
  <2> DEFINE S == {l}
             X == SUBSET LinesOf(as, Assets)
  <2>4. S \in X /\ (\A k \in S : as[k[1]].state = "open" /\ ~IsLinked(Line(as, k)))
    BY <1>3, <1>6, <2>1, <2>2
  <2> HIDE DEF S, X
  <2>5. <<S>> \in Seq(X) /\ DOMAIN <<S>> = {1} /\ <<S>>[1] = S
    BY <2>4
  <2>6. batches = <<S>>
    BY <2>3 DEF S
  <2> HIDE DEF batches
  <2> QED BY <2>4, <2>5, <2>6 DEF Batched, X
<1>8. Linkage(as, moves, Link(as, batches), Entries(as, batches))
  BY <1>5, <1>7, LinkLinks
<1> HIDE DEF batches
<1> QED BY <1>1, <1>5, <1>8, PostHolds

LEMMA AssetNextInv == AssetInv /\ [AssetNext]_assetVars => AssetInv'
<1> SUFFICES ASSUME AssetInv, [AssetNext]_assetVars PROVE BooksHold(asset', moves') /\ now' \in Nat
  BY DEF AssetInv
<1>0. BooksHold(asset, moves) /\ now \in Nat
  BY DEF AssetInv
<1>1. ASSUME NEW a \in Assets, Create(a) \/ AssetCreate(a) \/ Write(a) \/ Unlink(a) \/ Validate(a)
                               \/ SetToDraft(a) \/ Modify(a)
      PROVE  BooksHold(asset', moves') /\ now' \in Nat
  <2>0. \A r : Save(a, r) => asset' = [asset EXCEPT ![a] = r] /\ moves' = moves /\ now' = now
    BY DEF Save
  <2>1. CASE Create(a)
    <3>1. PICK price \in Prices, plan \in Plans : Save(a, New("draft", price, plan))
      BY <2>1 DEF Create
    <3>2. asset[a].state = "none"
      BY <2>1 DEF Create
    <3>3. BooksHold([asset EXCEPT ![a] = New("draft", price, plan)], moves)
      BY <1>0, <3>2, NewHolds
    <3> QED BY <1>0, <2>0, <3>1, <3>3
  <2>2. CASE AssetCreate(a)
    <3>1. PICK price \in Prices, plan \in Plans :
            Save(a, New(IF plan.category \in OpenAsset THEN "open" ELSE "draft", price, plan))
      BY <2>2 DEF AssetCreate
    <3>2. asset[a].state = "none"
      BY <2>2 DEF AssetCreate
    <3> DEFINE state == IF plan.category \in OpenAsset THEN "open" ELSE "draft"
    <3>3. BooksHold([asset EXCEPT ![a] = New(state, price, plan)], moves)
      <4>1. state \in {"draft", "open"}
        OBVIOUS
      <4> HIDE DEF state
      <4> QED BY <1>0, <3>2, <4>1, NewHolds
    <3> QED BY <1>0, <2>0, <3>1, <3>3
  <2>3. CASE Write(a)
    <3>1. PICK price \in Prices, plan \in Plans : Save(a, Board([asset[a] EXCEPT !.price = price, !.plan = plan]))
      BY <2>3 DEF Write
    <3>2. asset[a].state = "draft"
      BY <2>3 DEF Write
    <3>3. BooksHold([asset EXCEPT ![a] = Board([asset[a] EXCEPT !.price = price, !.plan = plan])], moves)
      BY <1>0, <3>2, WriteHolds
    <3> QED BY <1>0, <2>0, <3>1, <3>3
  <2>4. CASE Unlink(a)
    <3>1. Save(a, NoAsset) /\ LinkedIn(asset[a].lines) = {}
      BY <2>4 DEF Unlink
    <3>3. BooksHold([asset EXCEPT ![a] = NoAsset], moves)
      BY <1>0, <3>1, UnlinkHolds
    <3> QED BY <1>0, <2>0, <3>1, <3>3
  <2>5. CASE Validate(a)
    <3>1. Save(a, [asset[a] EXCEPT !.state = "open"]) /\ asset[a].state = "draft"
      BY <2>5 DEF Validate
    <3>2. LinkedIn(asset[a].lines) = {}
      BY <1>0, <3>1, AssetAt DEF AssetFits, Starts
    <3>3. BooksHold([asset EXCEPT ![a] = [asset[a] EXCEPT !.state = "open"]], moves)
      BY <1>0, <3>1, <3>2, RestateHolds
    <3> QED BY <1>0, <2>0, <3>1, <3>3
  <2>6. CASE SetToDraft(a)
    <3>1. Save(a, [asset[a] EXCEPT !.state = "draft"]) /\ asset[a].state = "open" /\ LinkedIn(asset[a].lines) = {}
      BY <2>6 DEF SetToDraft
    <3>3. BooksHold([asset EXCEPT ![a] = [asset[a] EXCEPT !.state = "draft"]], moves)
      BY <1>0, <3>1, RestateHolds
    <3> QED BY <1>0, <2>0, <3>1, <3>3
  <2>7. CASE Modify(a)
    <3>1. PICK c \in Changes :
            /\ c.time = asset[a].plan.time
            /\ Save(a, Board([asset[a] EXCEPT !.plan.number = c.number,
                              !.plan.period = c.period, !.plan.end = c.end]))
      BY <2>7 DEF Modify
    <3>2. asset[a].state = "open"
      BY <2>7 DEF Modify
    <3>3. BooksHold([asset EXCEPT ![a] = Board([asset[a] EXCEPT !.plan.number = c.number,
                                                      !.plan.period = c.period, !.plan.end = c.end])], moves)
      BY <1>0, <3>1, <3>2, ModifyHolds
    <3> QED BY <1>0, <2>0, <3>1, <3>3
  <2> QED BY <1>1, <2>1, <2>2, <2>3, <2>4, <2>5, <2>6, <2>7
<1>2. ASSUME NEW a \in Assets, CreateMove(a) PROVE BooksHold(asset', moves') /\ now' \in Nat
  BY <1>0, <1>2, CreateMoveHolds DEF CreateMove
<1>3. ASSUME NEW a \in Assets, SetToClose(a) PROVE BooksHold(asset', moves') /\ now' \in Nat
  <2>1. now' = now
    BY <1>3 DEF SetToClose
  <2> QED BY <1>0, <1>3, <2>1, SetToCloseHolds
<1>4. ASSUME NEW date, GenerateEntries(date) PROVE BooksHold(asset', moves') /\ now' \in Nat
  <2>1. now' = now
    BY <1>4 DEF GenerateEntries
  <2> QED BY <1>0, <1>4, <2>1, GenerateHolds
<1>5. CASE CronGenerateEntries
  BY <1>4, <1>5 DEF CronGenerateEntries
<1>6. CASE AssetCompute
  BY <1>4, <1>6 DEF AssetCompute
<1>7. ASSUME NEW m \in DOMAIN moves, PostMove(m) PROVE BooksHold(asset', moves') /\ now' \in Nat
  <2>1. PostEntries(asset, moves, {m}) /\ now' = now
    BY <1>7 DEF PostMove
  <2>2. Linkage(asset, moves, asset, moves)
    BY <1>0, NoLinkage
  <2> QED BY <1>0, <2>1, <2>2, PostHolds
<1>8. ASSUME NEW m \in DOMAIN moves, ButtonDraft(m) \/ ButtonCancel(m) PROVE BooksHold(asset', moves') /\ now' \in Nat
  <2>1. PICK to \in {"draft", "cancel"} : moves' = [moves EXCEPT ![m].state = to] /\ asset' = asset /\ now' = now
    BY <1>8 DEF ButtonDraft, ButtonCancel, SetMove
  <2> QED BY <1>0, <2>1, Unposted
<1>9. CASE NextMonth
  BY <1>0, <1>9 DEF NextMonth
<1>10. CASE UNCHANGED assetVars
  BY <1>0, <1>10 DEF assetVars
<1> QED BY <1>1, <1>2, <1>3, <1>5, <1>6, <1>7, <1>8, <1>9, <1>10 DEF AssetNext

LEMMA AssetInvHolds == AssetSpec => []AssetInv
  BY AssetInitInv, AssetNextInv, PTL DEF AssetSpec

\* While lines are planned, the board is the whole value of the asset and no
\* more, whatever the plans, the prices and the edits: _compute_board_amount
\* leaves the rounding to the last line.
THEOREM BoardConservesHolds == AssetSpec => []BoardConserves
<1>1. AssetInv => BoardConserves
  <2> SUFFICES ASSUME AssetInv, NEW a \in Assets, HasPlanned(asset[a])
               PROVE  Amount(asset[a].lines, DOMAIN asset[a].lines) = asset[a].price[1] - asset[a].price[2]
    BY DEF BoardConserves
  <2>1. asset[a] # NoAsset
    BY DEF NoAsset, HasPlanned, LinkedIn
  <2>2. Conserves(asset[a])
    BY <2>1 DEF AssetInv, BooksHold, AssetHolds
  <2> QED BY <2>2 DEF Conserves
<1> QED BY <1>1, AssetInvHolds, PTL

\* Each depreciation is in one entry, of the amount of its lines, however the
\* cron, the wizard and clicks book them and boards are made again around them.
THEOREM BookedOnceHolds == AssetSpec => []BookedOnce
<1>1. AssetInv => BookedOnce
  BY DEF AssetInv, BooksHold, Booked, BookedOnce, LinkedTo
<1> QED BY <1>1, AssetInvHolds, PTL

\* An asset that post_lines_and_close_asset closes is depreciated to its salvage
\* value, and the lines left on its board add nothing.
THEOREM ClosedIsDepreciatedHolds == AssetSpec => []ClosedIsDepreciated
<1>1. AssetInv => ClosedIsDepreciated
  <2> SUFFICES ASSUME AssetInv, NEW a \in Assets, asset[a].state = "close"
               PROVE  /\ ValueResidual(asset[a]) = 0
                      /\ Amount(asset[a].lines, DOMAIN asset[a].lines) = asset[a].price[1] - asset[a].price[2]
    BY DEF ClosedIsDepreciated
  <2>1. Closes(asset[a])
    BY AssetAt DEF AssetInv
  <2> QED BY <2>1 DEF Closes
<1> QED BY <1>1, AssetInvHolds, PTL

\* An open asset has a line to book or an entry to post, unless it has no board,
\* a modification left no period for its value or an entry was cancelled.
THEOREM OpenHasWorkHolds == AssetSpec => []OpenHasWork
<1>1. AssetInv => OpenHasWork
  <2> SUFFICES ASSUME AssetInv, NEW a \in Assets, asset[a].state = "open"
               PROVE  \/ HasPlanned(asset[a]) \/ asset[a].lines = <<>>
                      \/ {"draft", "cancel"} \cap {moves[asset[a].lines[i].move].state : i \in LinkedIn(asset[a].lines)} # {}
                      \/ Undone(asset[a]) <= Posted(asset[a]) /\ ValueResidual(asset[a]) # 0
    BY DEF OpenHasWork
  <2> DEFINE r == asset[a]
  <2>1. AssetFits(r, moves) /\ Runs(r)
    BY AssetAt DEF AssetInv
  <2>2. moves \in Seq(MoveRecord)
    BY DEF AssetInv, BooksHold
  <2>3. CASE ~HasPlanned(r) /\ r.lines # <<>> /\ ValueResidual(r) = 0
    <3>1. LinkedIn(r.lines) # {}
      <4> SUFFICES ASSUME DOMAIN r.lines = {} PROVE r.lines = <<>>
        BY <2>3 DEF HasPlanned
      <4> DEFINE L == r.lines
                 k == Len(L)
      <4>1. L \in Seq(LineRecord) /\ k \in Nat /\ DOMAIN L = 1..k
        BY <2>1, RecordIs, LinesAre DEF AssetFits
      <4> HIDE DEF L, k
      <4>2. DOMAIN L = {}
        BY DEF L
      <4>3. 1 \notin 1..k
        BY <4>1, <4>2
      <4>4. k = 0
        BY <4>1, <4>3
      <4>5. L = <<>>
        BY <4>1, <4>4 DEF k
      <4> QED BY <4>5 DEF L
    <3>2. PICK i \in LinkedIn(r.lines) : moves[r.lines[i].move].state # "posted"
      BY <2>1, <2>3, <3>1 DEF AssetFits, Waits
    <3>3. r.lines[i].move \in DOMAIN moves
      BY <2>1 DEF AssetFits, Moved
    <3>4. moves[r.lines[i].move].state \in {"draft", "cancel"}
      <4>1. moves[r.lines[i].move] \in MoveRecord
        BY <2>2, <3>3
      <4> QED BY <3>2, <4>1 DEF MoveRecord
    <3> QED BY <3>4
  <2>4. CASE ~HasPlanned(r) /\ r.lines # <<>> /\ ValueResidual(r) # 0
    BY <2>1, <2>4 DEF Runs
  <2> QED BY <2>3, <2>4
<1> QED BY <1>1, AssetInvHolds, PTL

-----------------------------------------------------------------------------
(* Groups of invoices. *)

Fields == {"lines", "byHand", "penalty", "penaltyInvoice", "discount", "state"}

Inv ==
    /\ DOMAIN groups = Groups
    /\ \A g \in Groups : DOMAIN groups[g] = Fields
    /\ NotInTwoGroups

USE DEF Fields

LEMMA InitInv == Init => Inv
  BY DEF Init, Inv, NotInTwoGroups

\* What the groups have from generation gets no bigger.
LEMMA SameLinesKeepInv ==
  ASSUME Inv, DOMAIN groups' = Groups,
         \A g \in Groups : /\ DOMAIN groups'[g] = Fields
                           /\ groups'[g].lines \ groups'[g].byHand \subseteq groups[g].lines \ groups[g].byHand
  PROVE  Inv'
  BY DEF Inv, NotInTwoGroups

\* The lines that are made anew are in no other group, by hand or not.
LEMMA GenerateKeepsInv ==
  ASSUME Inv, NEW g \in Groups, NEW period, Generate(g, period)
  PROVE  Inv'
<1> DEFINE fresh == {i \in DOMAIN invoices : /\ OnCredit(i) /\ NotPaid(i) /\ NotInOldGroup(g, i)
                                            /\ i \in period}
<1>1. groups' = [groups EXCEPT ![g].lines = fresh, ![g].byHand = {}]
  BY DEF Generate
<1>2. \A i \in fresh : \A h \in Groups \ {g} : i \notin groups[h].lines
  BY DEF NotInOldGroup
<1> HIDE DEF fresh
<1>3. /\ DOMAIN groups' = Groups /\ groups'[g].lines = fresh
      /\ \A h \in Groups : DOMAIN groups'[h] = Fields
      /\ \A h \in Groups \ {g} : groups'[h] = groups[h]
  BY <1>1 DEF Inv
<1>4. NotInTwoGroups'
  <2> SUFFICES ASSUME NEW h \in Groups, NEW k \in Groups, h # k,
                      NEW i \in groups'[h].lines \ groups'[h].byHand,
                      i \in groups'[k].lines \ groups'[k].byHand
               PROVE  FALSE
    BY DEF NotInTwoGroups
  <2>1. CASE h = g
    BY <2>1, <1>2, <1>3
  <2>2. CASE k = g
    BY <2>2, <1>2, <1>3
  <2>3. CASE h # g /\ k # g
    BY <2>3, <1>3 DEF Inv, NotInTwoGroups
  <2> QED BY <2>1, <2>2, <2>3
<1> QED BY <1>3, <1>4 DEF Inv

\* What users add by hand does not count, and what they remove is gone.
LEMMA LinesKeepInv ==
  ASSUME Inv, NEW g \in Groups, NEW i, AddLine(g, i) \/ RemoveLine(g, i)
  PROVE  Inv'
<1>1. \/ groups' = [groups EXCEPT ![g].lines = groups[g].lines \cup {i}, ![g].byHand = groups[g].byHand \cup {i}]
      \/ groups' = [groups EXCEPT ![g].lines = groups[g].lines \ {i}, ![g].byHand = groups[g].byHand \ {i}]
  BY DEF AddLine, RemoveLine
<1>2. /\ DOMAIN groups' = Groups
      /\ \A h \in Groups : DOMAIN groups'[h] = Fields
      /\ \A h \in Groups \ {g} : groups'[h] = groups[h]
      /\ \/ /\ groups'[g].lines = groups[g].lines \cup {i} /\ groups'[g].byHand = groups[g].byHand \cup {i}
         \/ /\ groups'[g].lines = groups[g].lines \ {i} /\ groups'[g].byHand = groups[g].byHand \ {i}
            /\ i \in groups[g].lines
  <2>1. CASE AddLine(g, i)
    BY <2>1 DEF AddLine, Inv
  <2>2. CASE RemoveLine(g, i)
    BY <2>2 DEF RemoveLine, Inv
  <2> QED BY <2>1, <2>2
<1>3. groups'[g].lines \ groups'[g].byHand \subseteq groups[g].lines \ groups[g].byHand
  BY <1>2
<1> QED BY <1>2, <1>3, SameLinesKeepInv

\* Discounts, penalties and payments leave the lines alone.
LEMMA OthersKeepInv ==
  ASSUME Inv,
         \/ \E g \in Groups : \/ \E targets : Discount(g, targets)
                              \/ CalculatePenalty(g) \/ CreatePenaltyInvoice(g)
                              \/ ConfirmGroupInvoicePayment(g)
         \/ ScheduledPenaltyCalculator \/ UNCHANGED groups
  PROVE  Inv'
<1>1. ASSUME NEW g \in Groups, NEW targets, Discount(g, targets) PROVE Inv'
  <2>1. \E d : groups' = [groups EXCEPT ![g].discount = groups[g].discount + d]
    BY <1>1 DEF Discount, Give
  <2>2. PICK d : groups' = [groups EXCEPT ![g].discount = groups[g].discount + d]
    BY <2>1
  <2> QED BY <2>2, SameLinesKeepInv DEF Inv
<1>2. ASSUME NEW g \in Groups, CalculatePenalty(g) PROVE Inv'
  BY <1>2, SameLinesKeepInv DEF CalculatePenalty, Inv
<1>3. ASSUME NEW g \in Groups, CreatePenaltyInvoice(g) PROVE Inv'
  <2>1. \/ groups' = [groups EXCEPT ![g].penaltyInvoice = NewInvoice("penalty", g)]
        \/ UNCHANGED groups
    BY <1>3 DEF CreatePenaltyInvoice, PenaltyInvoice
  <2> QED BY <2>1, SameLinesKeepInv DEF Inv
<1>4. ASSUME NEW g \in Groups, ConfirmGroupInvoicePayment(g) PROVE Inv'
  BY <1>4, SameLinesKeepInv DEF ConfirmGroupInvoicePayment, Inv
<1>5. CASE ScheduledPenaltyCalculator
  <2>1. groups' = [g \in Groups |-> IF g \in Late
                       THEN [groups[g] EXCEPT !.state = "delayed", !.penalty = Penalty(g)] ELSE groups[g]]
    BY <1>5 DEF ScheduledPenaltyCalculator
  <2>2. \A g \in Groups : /\ DOMAIN groups'[g] = Fields
                          /\ groups'[g].lines = groups[g].lines /\ groups'[g].byHand = groups[g].byHand
    BY <2>1 DEF Inv
  <2> QED BY <2>1, <2>2, SameLinesKeepInv
<1>6. CASE UNCHANGED groups
  BY <1>6 DEF Inv, NotInTwoGroups
<1> QED BY <1>1, <1>2, <1>3, <1>4, <1>5, <1>6

LEMMA NextInv == Inv /\ [Next]_vars => Inv'
<1> SUFFICES ASSUME Inv, [Next]_vars PROVE Inv'
  OBVIOUS
<1>1. ASSUME NEW o \in Orders, Bill(o) PROVE Inv'
  BY <1>1, OthersKeepInv DEF Bill
<1>2. CASE Account \/ Tick \/ UNCHANGED vars
  BY <1>2, OthersKeepInv DEF Account, Tick, vars
<1>3. CASE ScheduledPenaltyCalculator
  BY <1>3, OthersKeepInv
<1>4. ASSUME NEW g \in Groups,
             \/ \E period \in SUBSET {i \in DOMAIN invoices : OnCredit(i)} : Generate(g, period)
             \/ \E i \in DOMAIN invoices : AddLine(g, i) \/ RemoveLine(g, i)
      PROVE  Inv'
  BY <1>4, GenerateKeepsInv, LinesKeepInv
<1>5. ASSUME NEW g \in Groups,
             \/ Discount(g, groups[g].lines) \/ \E i \in groups[g].lines : Discount(g, {i})
             \/ CalculatePenalty(g) \/ CreatePenaltyInvoice(g) \/ ConfirmGroupInvoicePayment(g)
      PROVE  Inv'
  BY <1>5, OthersKeepInv
<1> QED BY <1>1, <1>2, <1>3, <1>4, <1>5 DEF Next

\* However groups are generated again, edited, paid and fined, no invoice that
\* generation put into a group is in another one too.
THEOREM GroupsAreDisjoint == Spec => []NotInTwoGroups
<1>1. Spec => []Inv
  BY InitInv, NextInv, PTL DEF Spec
<1>2. Inv => NotInTwoGroups
  BY DEF Inv
<1> QED BY <1>1, <1>2, PTL

-----------------------------------------------------------------------------
(* The penalty invoices. *)

Totals(v, S) == MapThenSumSet(LAMBDA i : v[i].total, S)
Discounts(v, S) == MapThenSumSet(LAMBDA i : v[i].discount, S)

LEMMA TotalsSum ==
  ASSUME NEW v, NEW S, IsFiniteSet(S)
  PROVE  Totals(v, S) = Total([i \in S |-> v[i].total])
<1> DEFINE F == [i \in S |-> v[i].total]
           Is(W) == W = [s \in SUBSET S |-> IF s = {} THEN 0 ELSE v[Element(s)].total + W[s \ {Element(s)}]]
           V == CHOOSE W : Is(W)
<1>1. Totals(v, S) = V[S]
  BY Zenon DEF Totals, MapThenSumSet, MapThenFoldSet, Element
<1>2. PICK W : Sums(W, F, S)
  BY SumsExist
<1>3. \A s \in SUBSET S : s # {} => F[Element(s)] = v[Element(s)].total
  BY ElementIn
<1>4. \A U : Is(U) <=> Sums(U, F, S)
  BY <1>3 DEF Sums
<1>5. Is(V)
  BY <1>2, <1>4
<1> HIDE DEF V, Is
<1>6. Sums(V, F, S)
  BY <1>4, <1>5
<1> HIDE DEF F
<1>7. DOMAIN F = S
  BY DEF F
<1>8. Total(F) = V[S]
  BY <1>6, <1>7, SumIs
<1> QED BY <1>1, <1>8 DEF F

LEMMA DiscountsSum ==
  ASSUME NEW v, NEW S, IsFiniteSet(S)
  PROVE  Discounts(v, S) = Total([i \in S |-> v[i].discount])
<1> DEFINE F == [i \in S |-> v[i].discount]
           Is(W) == W = [s \in SUBSET S |-> IF s = {} THEN 0 ELSE v[Element(s)].discount + W[s \ {Element(s)}]]
           V == CHOOSE W : Is(W)
<1>1. Discounts(v, S) = V[S]
  BY Zenon DEF Discounts, MapThenSumSet, MapThenFoldSet, Element
<1>2. PICK W : Sums(W, F, S)
  BY SumsExist
<1>3. \A s \in SUBSET S : s # {} => F[Element(s)] = v[Element(s)].discount
  BY ElementIn
<1>4. \A U : Is(U) <=> Sums(U, F, S)
  BY <1>3 DEF Sums
<1>5. Is(V)
  BY <1>2, <1>4
<1> HIDE DEF V, Is
<1>6. Sums(V, F, S)
  BY <1>4, <1>5
<1> HIDE DEF F
<1>7. DOMAIN F = S
  BY DEF F
<1>8. Total(F) = V[S]
  BY <1>6, <1>7, SumIs
<1> QED BY <1>1, <1>8 DEF F

LEMMA TotalAmountIs == \A g : TotalAmount(g) = Totals(invoices, groups[g].lines)
  BY Zenon DEF TotalAmount, Totals, MapThenSumSet, MapThenFoldSet

LEMMA AgreeIs == DiscountsAgree <=> Discounts(groups, Groups) = Discounts(invoices, DOMAIN invoices)
  BY Zenon DEF DiscountsAgree, Discounts, MapThenSumSet, MapThenFoldSet

LEMMA AgreeIsNext == DiscountsAgree' <=> Discounts(groups', Groups) = Discounts(invoices', DOMAIN invoices')
  BY Zenon DEF DiscountsAgree, Discounts, MapThenSumSet, MapThenFoldSet

LEMMA GivenIs == \A d : Given(d) = Total(d)
  BY Zenon DEF Given, Total, MapThenSumSet, MapThenFoldSet

Names == ({"order"} \X Orders \X Nat) \cup ({"penalty"} \X Groups \X Nat)

Invoice == [total : Int, discount : Int, paid : Nat, locked : BOOLEAN]

GroupRecord ==
    [lines : SUBSET Names, byHand : SUBSET Names, penalty : Nat, penaltyInvoice : Names \cup {NoInvoice},
     discount : Int, state : {"unpaid", "delayed", "paid"}]

LedgerInv ==
    /\ IsFiniteSet(DOMAIN invoices) /\ DOMAIN invoices \subseteq Names
    /\ invoices \in [DOMAIN invoices -> Invoice]

TypeInv ==
    /\ LedgerInv
    /\ groups \in [Groups -> GroupRecord] /\ today \in Nat
    /\ \A g \in Groups : groups[g].lines \subseteq {i \in DOMAIN invoices : OnCredit(i)}

Books == TypeInv /\ OnePenaltyInvoice

LEMMA NamesAre ==
  /\ \A i \in Names : /\ i # NoInvoice
                      /\ i[1] = "order" => i[2] \in Orders
                      /\ i[1] = "penalty" => i[2] \in Groups
                      /\ i[1] \in {"order", "penalty"}
  /\ \A o \in Orders, n \in Nat : /\ <<"order", o, n>> \in Names
                                  /\ <<"order", o, n>>[1] = "order" /\ <<"order", o, n>>[2] = o
  /\ \A g \in Groups, n \in Nat : /\ <<"penalty", g, n>> \in Names
                                  /\ <<"penalty", g, n>>[1] = "penalty" /\ <<"penalty", g, n>>[2] = g
<1>1. ASSUME NEW i \in {"order"} \X Orders \X Nat
      PROVE  i # NoInvoice /\ i[1] = "order" /\ i[2] \in Orders
  BY DEF NoInvoice
<1>2. ASSUME NEW i \in {"penalty"} \X Groups \X Nat
      PROVE  i # NoInvoice /\ i[1] = "penalty" /\ i[2] \in Groups
  BY DEF NoInvoice
<1>3. \A i \in Names : i \in {"order"} \X Orders \X Nat \/ i \in {"penalty"} \X Groups \X Nat
  BY DEF Names
<1>4. \A o \in Orders, n \in Nat : /\ <<"order", o, n>> \in Names
                                   /\ <<"order", o, n>>[1] = "order" /\ <<"order", o, n>>[2] = o
  BY DEF Names
<1>5. \A g \in Groups, n \in Nat : /\ <<"penalty", g, n>> \in Names
                                   /\ <<"penalty", g, n>>[1] = "penalty" /\ <<"penalty", g, n>>[2] = g
  BY DEF Names
<1> QED BY <1>1, <1>2, <1>3, <1>4, <1>5

\* The invoice made for something that has none is new.
LEMMA NewInvoiceIs ==
  ASSUME NEW kind, NEW id, InvoicesFor(kind, id) = {}
  PROVE  NewInvoice(kind, id) = <<kind, id, 1>> /\ <<kind, id, 1>> \notin DOMAIN invoices
<1>1. Cardinality({}) = 0
  BY FS_EmptySet
<1>2. <<kind, id, 1>>[1] = kind /\ <<kind, id, 1>>[2] = id
  OBVIOUS
<1> QED BY <1>1, <1>2 DEF NewInvoice, InvoicesFor

LEMMA TotalAmountType ==
  ASSUME TypeInv, NEW g \in Groups
  PROVE  TotalAmount(g) \in Int
<1> DEFINE S == groups[g].lines
           F == [i \in S |-> invoices[i].total]
<1>1. S \subseteq DOMAIN invoices /\ IsFiniteSet(S)
  BY FS_Subset DEF TypeInv, LedgerInv
<1>2. F \in [S -> Int]
  BY <1>1 DEF TypeInv, LedgerInv, Invoice
<1>3. TotalAmount(g) = Total(F)
  BY <1>1, TotalAmountIs, TotalsSum
<1> HIDE DEF S, F
<1> QED BY <1>1, <1>2, <1>3, SumType

LEMMA PenaltyType ==
  ASSUME TypeInv, NEW g \in Groups
  PROVE  Penalty(g) \in Int
<1> DEFINE n == (today - DueAt[g]) * TotalAmount(g) * PenaltyRate
<1>1. today - DueAt[g] \in Int /\ TotalAmount(g) \in Int /\ PenaltyRate \in Int
  BY TotalAmountType, GroupAssumption DEF TypeInv
<1>2. n \in Int
  BY <1>1
<1> HIDE DEF n
<1>3. HalfUp(n) \in Int
  BY <1>2 DEF HalfUp
<1> QED BY <1>3 DEF n, Penalty

-----------------------------------------------------------------------------
LEMMA InitBooks == Init => Books
<1> SUFFICES ASSUME Init PROVE Books
  OBVIOUS
<1>1. DOMAIN invoices = {} /\ IsFiniteSet({})
  BY FS_EmptySet DEF Init
<1>2. LedgerInv
  BY <1>1 DEF LedgerInv
<1>3. groups \in [Groups -> GroupRecord]
  BY DEF Init, GroupRecord
<1>4. \A g \in Groups : groups[g].lines = {} /\ groups[g].penaltyInvoice = NoInvoice
  BY DEF Init
<1> QED BY <1>1, <1>2, <1>3, <1>4 DEF Books, TypeInv, OnePenaltyInvoice, Init

\* Steps that change the groups only, and not their penalty invoices.
LEMMA GroupsKeepBooks ==
  ASSUME Books, UNCHANGED invoices, today' \in Nat, groups' \in [Groups -> GroupRecord],
         \A g \in Groups : /\ groups'[g].penaltyInvoice = groups[g].penaltyInvoice
                           /\ groups'[g].lines \subseteq {i \in DOMAIN invoices : OnCredit(i)}
  PROVE  Books'
<1>1. TypeInv'
  BY DEF Books, TypeInv, LedgerInv, OnCredit
<1>2. OnePenaltyInvoice'
  <2>1. ASSUME NEW i \in DOMAIN invoices', i[1] = "penalty"
        PROVE  /\ groups'[i[2]].penaltyInvoice = i /\ invoices'[i].discount = 0
               /\ 0 <= invoices'[i].paid /\ invoices'[i].paid <= invoices'[i].total
    <3>1. i[2] \in Groups
      BY <2>1, NamesAre DEF Books, TypeInv, LedgerInv
    <3> QED BY <2>1, <3>1 DEF Books, OnePenaltyInvoice
  <2>2. \A g \in Groups : groups'[g].penaltyInvoice \in InvoicesFor("penalty", g)' \cup {NoInvoice}
    BY DEF Books, OnePenaltyInvoice, InvoicesFor
  <2> QED BY <2>1, <2>2 DEF OnePenaltyInvoice
<1> QED BY <1>1, <1>2 DEF Books

LEMMA GroupStepsKeepBooks ==
  ASSUME Books,
         \/ \E g \in Groups : \/ \E period : Generate(g, period)
                              \/ \E i \in DOMAIN invoices : AddLine(g, i) \/ RemoveLine(g, i)
                              \/ CalculatePenalty(g) \/ ConfirmGroupInvoicePayment(g)
         \/ ScheduledPenaltyCalculator \/ Tick \/ UNCHANGED vars
  PROVE  Books'
<1> USE DEF Books
<1>0. /\ groups \in [Groups -> GroupRecord] /\ today \in Nat /\ DOMAIN invoices \subseteq Names
      /\ \A g \in Groups : groups[g].lines \subseteq {i \in DOMAIN invoices : OnCredit(i)}
  BY DEF TypeInv, LedgerInv
<1>1. ASSUME NEW g \in Groups, NEW period, Generate(g, period) PROVE Books'
  <2> DEFINE fresh == {i \in DOMAIN invoices : /\ OnCredit(i) /\ NotPaid(i) /\ NotInOldGroup(g, i)
                                              /\ i \in period}
  <2>1. groups' = [groups EXCEPT ![g].lines = fresh, ![g].byHand = {}] /\ UNCHANGED <<invoices, today>>
    BY <1>1 DEF Generate
  <2>2. fresh \subseteq {i \in DOMAIN invoices : OnCredit(i)} /\ fresh \in SUBSET Names
    BY <1>0
  <2> HIDE DEF fresh
  <2>3. groups' \in [Groups -> GroupRecord]
    <3>1. [groups[g] EXCEPT !.lines = fresh, !.byHand = {}] \in GroupRecord
      BY <1>0, <2>2 DEF GroupRecord
    <3>2. groups' = [groups EXCEPT ![g] = [groups[g] EXCEPT !.lines = fresh, !.byHand = {}]]
      BY <1>0, <2>1
    <3> QED BY <1>0, <3>1, <3>2
  <2>4. \A h \in Groups : /\ groups'[h].penaltyInvoice = groups[h].penaltyInvoice
                          /\ groups'[h].lines \in {groups[h].lines, fresh}
    BY <1>0, <2>1 DEF GroupRecord
  <2>5. \A h \in Groups : groups'[h].lines \subseteq {i \in DOMAIN invoices : OnCredit(i)}
    BY <1>0, <2>2, <2>4
  <2> QED BY <1>0, <2>1, <2>3, <2>4, <2>5, GroupsKeepBooks
<1>2. ASSUME NEW g \in Groups, NEW i \in DOMAIN invoices, AddLine(g, i) \/ RemoveLine(g, i) PROVE Books'
  <2>1. PICK L \in {groups[g].lines \cup {i}, groups[g].lines \ {i}},
             H \in {groups[g].byHand \cup {i}, groups[g].byHand \ {i}} :
                groups' = [groups EXCEPT ![g].lines = L, ![g].byHand = H]
    BY <1>2 DEF AddLine, RemoveLine
  <2>2. UNCHANGED <<invoices, today>> /\ (OnCredit(i) \/ RemoveLine(g, i))
    BY <1>2 DEF AddLine, RemoveLine
  <2>3. OnCredit(i)
    BY <1>0, <2>2 DEF RemoveLine
  <2>4. groups[g].lines \in SUBSET Names /\ groups[g].byHand \in SUBSET Names
    BY <1>0 DEF GroupRecord
  <2>5. L \in SUBSET Names /\ H \in SUBSET Names /\ L \subseteq {j \in DOMAIN invoices : OnCredit(j)}
    BY <1>0, <2>3, <2>4
  <2>6. groups' \in [Groups -> GroupRecord]
    <3>1. [groups[g] EXCEPT !.lines = L, !.byHand = H] \in GroupRecord
      BY <1>0, <2>5 DEF GroupRecord
    <3>2. groups' = [groups EXCEPT ![g] = [groups[g] EXCEPT !.lines = L, !.byHand = H]]
      BY <1>0, <2>1
    <3> QED BY <1>0, <3>1, <3>2
  <2>7. \A h \in Groups : /\ groups'[h].penaltyInvoice = groups[h].penaltyInvoice
                          /\ groups'[h].lines \in {groups[h].lines, L}
    BY <1>0, <2>1 DEF GroupRecord
  <2>8. \A h \in Groups : groups'[h].lines \subseteq {j \in DOMAIN invoices : OnCredit(j)}
    BY <1>0, <2>5, <2>7
  <2> QED BY <1>0, <2>2, <2>6, <2>7, <2>8, GroupsKeepBooks
<1>3. ASSUME NEW g \in Groups, CalculatePenalty(g) PROVE Books'
  <2>1. groups' = [groups EXCEPT ![g].penalty = Penalty(g)] /\ UNCHANGED <<invoices, today>>
    BY <1>3 DEF CalculatePenalty
  <2>2. Penalty(g) \in Nat
    BY <1>3, PenaltyType DEF CalculatePenalty
  <2>3. groups' \in [Groups -> GroupRecord]
    <3>1. [groups[g] EXCEPT !.penalty = Penalty(g)] \in GroupRecord
      BY <1>0, <2>2 DEF GroupRecord
    <3> QED BY <1>0, <2>1, <3>1
  <2>4. \A h \in Groups : /\ groups'[h].penaltyInvoice = groups[h].penaltyInvoice
                          /\ groups'[h].lines = groups[h].lines
    BY <1>0, <2>1 DEF GroupRecord
  <2> QED BY <1>0, <2>1, <2>3, <2>4, GroupsKeepBooks
<1>4. ASSUME NEW g \in Groups, ConfirmGroupInvoicePayment(g) PROVE Books'
  <2>1. groups' = [groups EXCEPT ![g].state = "paid"] /\ UNCHANGED <<invoices, today>>
    BY <1>4 DEF ConfirmGroupInvoicePayment
  <2>2. groups' \in [Groups -> GroupRecord]
    BY <1>0, <2>1 DEF GroupRecord
  <2>3. \A h \in Groups : /\ groups'[h].penaltyInvoice = groups[h].penaltyInvoice
                          /\ groups'[h].lines = groups[h].lines
    BY <1>0, <2>1 DEF GroupRecord
  <2> QED BY <1>0, <2>1, <2>2, <2>3, GroupsKeepBooks
<1>5. CASE ScheduledPenaltyCalculator
  <2>1. /\ groups' = [g \in Groups |-> IF g \in Late
               THEN [groups[g] EXCEPT !.state = "delayed", !.penalty = Penalty(g)] ELSE groups[g]]
        /\ UNCHANGED <<invoices, today>> /\ \A g \in Late : Penalty(g) >= 0
    BY <1>5 DEF ScheduledPenaltyCalculator
  <2>2. \A g \in Late : Penalty(g) \in Nat
    <3> SUFFICES ASSUME NEW g \in Late PROVE Penalty(g) \in Nat
      OBVIOUS
    <3>1. g \in Groups
      BY DEF Late
    <3>2. Penalty(g) \in Int
      BY <3>1, PenaltyType
    <3>3. Penalty(g) >= 0
      BY <2>1
    <3> QED BY <3>2, <3>3
  <2>3. groups' \in [Groups -> GroupRecord]
    BY <1>0, <2>1, <2>2 DEF GroupRecord
  <2>4. \A h \in Groups : /\ groups'[h].penaltyInvoice = groups[h].penaltyInvoice
                          /\ groups'[h].lines = groups[h].lines
    BY <1>0, <2>1 DEF GroupRecord
  <2> QED BY <1>0, <2>1, <2>3, <2>4, GroupsKeepBooks
<1>6. CASE Tick \/ UNCHANGED vars
  <2>1. UNCHANGED <<invoices, groups>> /\ today' \in Nat
    BY <1>0, <1>6 DEF Tick, vars
  <2> QED BY <1>0, <2>1, GroupsKeepBooks
<1> QED BY <1>1, <1>2, <1>3, <1>4, <1>5, <1>6

-----------------------------------------------------------------------------
(* The discounts of the groups and of the invoices. *)

GroupDiscount == [g \in Groups |-> groups[g].discount]
InvoiceDiscount == [i \in DOMAIN invoices |-> invoices[i].discount]

LEMMA Agreement ==
  ASSUME TypeInv
  PROVE  /\ GroupDiscount \in [Groups -> Int] /\ InvoiceDiscount \in [DOMAIN invoices -> Int]
         /\ DiscountsAgree <=> Total(GroupDiscount) = Total(InvoiceDiscount)
<1>1. IsFiniteSet(Groups) /\ IsFiniteSet(DOMAIN invoices)
  BY GroupAssumption DEF TypeInv, LedgerInv
<1>2. /\ Discounts(groups, Groups) = Total(GroupDiscount)
      /\ Discounts(invoices, DOMAIN invoices) = Total(InvoiceDiscount)
  BY <1>1, DiscountsSum DEF GroupDiscount, InvoiceDiscount
<1>3. GroupDiscount \in [Groups -> Int] /\ InvoiceDiscount \in [DOMAIN invoices -> Int]
  BY DEF GroupDiscount, InvoiceDiscount, TypeInv, LedgerInv, GroupRecord, Invoice
<1> QED BY <1>2, <1>3, AgreeIs

LEMMA AgreementNext ==
  ASSUME IsFiniteSet(DOMAIN invoices')
  PROVE  DiscountsAgree' <=> Total(GroupDiscount') = Total(InvoiceDiscount')
<1>1. IsFiniteSet(Groups)
  BY GroupAssumption
<1>2. /\ Discounts(groups', Groups) = Total(GroupDiscount')
      /\ Discounts(invoices', DOMAIN invoices') = Total(InvoiceDiscount')
  BY <1>1, DiscountsSum DEF GroupDiscount, InvoiceDiscount
<1> QED BY <1>2, AgreeIsNext

LEMMA SameDiscountsAgree ==
  ASSUME TypeInv, DOMAIN invoices' = DOMAIN invoices,
         \A g \in Groups : groups'[g].discount = groups[g].discount,
         \A i \in DOMAIN invoices : invoices'[i].discount = invoices[i].discount
  PROVE  DiscountsAgree => DiscountsAgree'
<1>1. GroupDiscount' = GroupDiscount /\ InvoiceDiscount' = InvoiceDiscount
  BY DEF GroupDiscount, InvoiceDiscount
<1>2. IsFiniteSet(DOMAIN invoices')
  BY DEF TypeInv, LedgerInv
<1> QED BY <1>1, <1>2, Agreement, AgreementNext

LEMMA NewInvoiceAgrees ==
  ASSUME TypeInv, NEW i, i \notin DOMAIN invoices, DOMAIN invoices' = DOMAIN invoices \cup {i},
         invoices'[i].discount = 0,
         \A g \in Groups : groups'[g].discount = groups[g].discount,
         \A j \in DOMAIN invoices : invoices'[j] = invoices[j]
  PROVE  DiscountsAgree => DiscountsAgree'
<1>1. GroupDiscount' = GroupDiscount
  BY DEF GroupDiscount
<1>2. IsFiniteSet(DOMAIN invoices) /\ IsFiniteSet(DOMAIN invoices')
  BY FS_AddElement DEF TypeInv, LedgerInv
<1>3. /\ InvoiceDiscount \in [DOMAIN invoices -> Int]
      /\ DiscountsAgree <=> Total(GroupDiscount) = Total(InvoiceDiscount)
  BY Agreement
<1>4. InvoiceDiscount' \in [DOMAIN invoices \cup {i} -> Int]
  BY <1>3 DEF InvoiceDiscount
<1>5. InvoiceDiscount'[i] = 0 /\ \A j \in DOMAIN invoices : InvoiceDiscount'[j] = InvoiceDiscount[j]
  BY DEF InvoiceDiscount
<1> DEFINE F == InvoiceDiscount
           H == InvoiceDiscount'
           S == DOMAIN invoices
<1> HIDE DEF F, H, S
<1>6. Total(H) = Total(F)
  <2>1. IsFiniteSet(S) /\ i \notin S /\ F \in [S -> Int] /\ H \in [S \cup {i} -> Int]
        /\ H[i] = 0 /\ \A j \in S : H[j] = F[j]
    BY <1>2, <1>3, <1>4, <1>5 DEF F, H, S
  <2> QED BY <2>1, SumMore
<1> QED BY <1>1, <1>2, <1>3, <1>6, AgreementNext DEF F, H

-----------------------------------------------------------------------------
(* Steps that change invoices. *)

\* Posting an invoice leaves the others as they are.
LEMMA PostIs ==
  ASSUME TypeInv, NEW i \in Names, i \notin DOMAIN invoices, NEW total \in Int, Post(i, total)
  PROVE  /\ LedgerInv' /\ DOMAIN invoices' = DOMAIN invoices \cup {i}
         /\ invoices'[i] = [total |-> total, discount |-> 0, paid |-> 0, locked |-> FALSE]
         /\ \A j \in DOMAIN invoices : invoices'[j] = invoices[j]
<1>1. /\ DOMAIN invoices' = DOMAIN invoices \cup {i}
      /\ invoices'[i] = [total |-> total, discount |-> 0, paid |-> 0, locked |-> FALSE]
      /\ \A j \in DOMAIN invoices : invoices'[j] = invoices[j]
  BY DEF Post
<1>2. IsFiniteSet(DOMAIN invoices')
  BY <1>1, FS_AddElement DEF TypeInv, LedgerInv
<1>3. \A j \in DOMAIN invoices' : invoices'[j] \in Invoice
  <2>1. [total |-> total, discount |-> 0, paid |-> 0, locked |-> FALSE] \in Invoice
    BY DEF Invoice
  <2> QED BY <1>1, <2>1 DEF TypeInv, LedgerInv
<1>4. invoices' = [j \in DOMAIN invoices' |-> invoices'[j]]
  BY <1>1 DEF Post
<1>5. DOMAIN invoices' \subseteq Names
  BY <1>1 DEF TypeInv, LedgerInv
<1> QED BY <1>1, <1>2, <1>3, <1>4, <1>5 DEF LedgerInv

LEMMA BillKeepsBooks ==
  ASSUME Books, NEW o \in Orders, Bill(o)
  PROVE  Books' /\ (DiscountsAgree => DiscountsAgree')
<1> DEFINE i == <<"order", o, 1>>
<1>1. NewInvoice("order", o) = i /\ i \notin DOMAIN invoices /\ i \in Names /\ i[1] = "order"
  BY NewInvoiceIs, NamesAre DEF Bill
<1>2. Post(i, Charge[o]) /\ Charge[o] \in Int /\ UNCHANGED <<groups, today>>
  BY <1>1, GroupAssumption DEF Bill
<1> HIDE DEF i
<1>3. /\ LedgerInv' /\ DOMAIN invoices' = DOMAIN invoices \cup {i}
      /\ invoices'[i] = [total |-> Charge[o], discount |-> 0, paid |-> 0, locked |-> FALSE]
      /\ \A j \in DOMAIN invoices : invoices'[j] = invoices[j]
  BY <1>1, <1>2, PostIs DEF Books
<1>4. TypeInv'
  BY <1>2, <1>3 DEF Books, TypeInv, OnCredit
<1>5. OnePenaltyInvoice'
  BY <1>1, <1>2, <1>3 DEF Books, OnePenaltyInvoice, InvoicesFor
<1>6. DiscountsAgree => DiscountsAgree'
  <2>1. invoices'[i].discount = 0 /\ \A g \in Groups : groups'[g].discount = groups[g].discount
    BY <1>2, <1>3
  <2> QED BY <1>1, <1>3, <2>1, NewInvoiceAgrees DEF Books
<1> QED BY <1>4, <1>5, <1>6 DEF Books

LEMMA PenaltyInvoiceKeepsBooks ==
  ASSUME Books, NEW g \in Groups, CreatePenaltyInvoice(g)
  PROVE  Books' /\ (DiscountsAgree => DiscountsAgree')
<1> DEFINE p == groups[g].penaltyInvoice
<1>0. /\ groups \in [Groups -> GroupRecord] /\ groups[g].penalty \in Nat /\ today' = today
      /\ DOMAIN invoices \subseteq Names
  BY DEF Books, TypeInv, GroupRecord, CreatePenaltyInvoice, LedgerInv
<1>1. ASSUME p = NoInvoice,
             Post(NewInvoice("penalty", g), groups[g].penalty),
             groups' = [groups EXCEPT ![g].penaltyInvoice = NewInvoice("penalty", g)]
      PROVE  Books' /\ (DiscountsAgree => DiscountsAgree')
  <2> DEFINE i == <<"penalty", g, 1>>
  <2>1. InvoicesFor("penalty", g) = {}
    BY <1>0, <1>1, NamesAre DEF Books, OnePenaltyInvoice, InvoicesFor
  <2>2. NewInvoice("penalty", g) = i /\ i \notin DOMAIN invoices /\ i \in Names /\ i[1] = "penalty" /\ i[2] = g
    BY <2>1, NewInvoiceIs, NamesAre
  <2> HIDE DEF i
  <2>3. /\ LedgerInv' /\ DOMAIN invoices' = DOMAIN invoices \cup {i}
        /\ invoices'[i] = [total |-> groups[g].penalty, discount |-> 0, paid |-> 0, locked |-> FALSE]
        /\ \A j \in DOMAIN invoices : invoices'[j] = invoices[j]
    BY <1>0, <1>1, <2>2, PostIs DEF Books
  <2>4. groups' = [groups EXCEPT ![g].penaltyInvoice = i]
    BY <1>1, <2>2
  <2>5. groups' \in [Groups -> GroupRecord]
    <3>1. [groups[g] EXCEPT !.penaltyInvoice = i] \in GroupRecord
      BY <1>0, <2>2 DEF GroupRecord
    <3> QED BY <1>0, <2>4, <3>1
  <2>6. /\ \A h \in Groups : groups'[h].lines = groups[h].lines /\ groups'[h].discount = groups[h].discount
        /\ \A h \in Groups \ {g} : groups'[h] = groups[h]
        /\ groups'[g].penaltyInvoice = i
    BY <1>0, <2>4 DEF GroupRecord
  <2>7. TypeInv'
    BY <1>0, <2>3, <2>5, <2>6 DEF Books, TypeInv, OnCredit
  <2>8. OnePenaltyInvoice'
    <3>1. ASSUME NEW j \in DOMAIN invoices', j[1] = "penalty"
          PROVE  /\ groups'[j[2]].penaltyInvoice = j /\ invoices'[j].discount = 0
                 /\ 0 <= invoices'[j].paid /\ invoices'[j].paid <= invoices'[j].total
      <4>1. CASE j = i
        BY <1>0, <2>2, <2>3, <2>6, <4>1
      <4>2. CASE j # i
        <5>1. j \in DOMAIN invoices /\ j[2] \in Groups /\ invoices'[j] = invoices[j]
          BY <1>0, <2>3, <3>1, <4>2, NamesAre
        <5>2. j[2] # g
          BY <2>1, <3>1, <5>1 DEF InvoicesFor
        <5> QED BY <2>6, <3>1, <5>1, <5>2 DEF Books, OnePenaltyInvoice
      <4> QED BY <4>1, <4>2
    <3>2. ASSUME NEW h \in Groups
          PROVE  groups'[h].penaltyInvoice \in InvoicesFor("penalty", h)' \cup {NoInvoice}
      <4>1. CASE h = g
        BY <2>2, <2>3, <2>6, <4>1 DEF InvoicesFor
      <4>2. CASE h # g
        BY <2>3, <2>6, <4>2 DEF Books, OnePenaltyInvoice, InvoicesFor
      <4> QED BY <4>1, <4>2
    <3> QED BY <3>1, <3>2 DEF OnePenaltyInvoice
  <2>9. DiscountsAgree => DiscountsAgree'
    BY <2>2, <2>3, <2>6, NewInvoiceAgrees DEF Books
  <2> QED BY <2>7, <2>8, <2>9 DEF Books
<1>2. ASSUME p # NoInvoice, NotPaid(p), UNCHANGED groups,
             invoices' = [invoices EXCEPT ![p].total = groups[g].penalty, ![p].discount = 0]
      PROVE  Books' /\ (DiscountsAgree => DiscountsAgree')
  <2>1. p \in DOMAIN invoices /\ p[1] = "penalty" /\ p[2] = g
    BY <1>2 DEF Books, OnePenaltyInvoice, InvoicesFor
  <2> HIDE DEF p
  <2>2. invoices[p] \in Invoice /\ invoices[p].paid = 0 /\ invoices[p].discount = 0
    BY <1>2, <2>1 DEF Books, TypeInv, LedgerInv, NotPaid, OnePenaltyInvoice
  <2>3. /\ DOMAIN invoices' = DOMAIN invoices /\ invoices'[p] \in Invoice
        /\ invoices'[p].total = groups[g].penalty /\ invoices'[p].discount = 0 /\ invoices'[p].paid = 0
        /\ \A j \in DOMAIN invoices \ {p} : invoices'[j] = invoices[j]
    <3> DEFINE a == [invoices[p] EXCEPT !.total = groups[g].penalty, !.discount = 0]
    <3>1. /\ a \in Invoice /\ a.total = groups[g].penalty /\ a.discount = 0 /\ a.paid = 0
      <4> DEFINE b == invoices[p]
                 n == groups[g].penalty
      <4>1. b \in Invoice /\ b.paid = 0 /\ n \in Int
        BY <1>0, <2>2
      <4> HIDE DEF b, n
      <4> DEFINE c == [b EXCEPT !.total = n, !.discount = 0]
      <4>2. DOMAIN b = {"total", "discount", "paid", "locked"}
        BY <4>1 DEF Invoice
      <4>3. c.total = n /\ c.discount = 0 /\ c.paid = 0
        BY <4>1, <4>2
      <4>4. c \in Invoice
        <5> DEFINE e == [b EXCEPT !.total = n]
        <5>2. e \in Invoice
          BY <4>1 DEF Invoice
        <5>3. c = [e EXCEPT !.discount = 0]
          OBVIOUS
        <5> HIDE DEF c, e
        <5>4. [e EXCEPT !.discount = 0] \in Invoice
          BY <5>2 DEF Invoice
        <5> QED BY <5>3, <5>4
      <4>5. a = c
        BY DEF b, n
      <4> QED BY <4>3, <4>4, <4>5 DEF n
    <3>2. invoices' = [invoices EXCEPT ![p] = a]
      BY <1>2
    <3> HIDE DEF a
    <3> QED BY <2>1, <3>1, <3>2
  <2>4. LedgerInv'
    <3>1. invoices' = [j \in DOMAIN invoices' |-> invoices'[j]]
      BY <1>2
    <3>2. \A j \in DOMAIN invoices' : invoices'[j] \in Invoice
      BY <2>3 DEF Books, TypeInv, LedgerInv
    <3> QED BY <2>3, <3>1, <3>2 DEF Books, TypeInv, LedgerInv
  <2>5. TypeInv'
    BY <1>0, <1>2, <2>3, <2>4 DEF Books, TypeInv, OnCredit
  <2>6. OnePenaltyInvoice'
    <3>1. ASSUME NEW j \in DOMAIN invoices', j[1] = "penalty"
          PROVE  /\ groups'[j[2]].penaltyInvoice = j /\ invoices'[j].discount = 0
                 /\ 0 <= invoices'[j].paid /\ invoices'[j].paid <= invoices'[j].total
      <4>1. groups[j[2]].penaltyInvoice = j /\ j \in DOMAIN invoices
        BY <2>3, <3>1 DEF Books, OnePenaltyInvoice
      <4>2. CASE j = p
        BY <1>0, <1>2, <2>3, <4>1, <4>2
      <4>3. CASE j # p
        BY <1>2, <2>3, <3>1, <4>1, <4>3 DEF Books, OnePenaltyInvoice
      <4> QED BY <4>2, <4>3
    <3>2. \A h \in Groups : groups'[h].penaltyInvoice \in InvoicesFor("penalty", h)' \cup {NoInvoice}
      BY <1>2, <2>3 DEF Books, OnePenaltyInvoice, InvoicesFor
    <3> QED BY <3>1, <3>2 DEF OnePenaltyInvoice
  <2>7. DiscountsAgree => DiscountsAgree'
    <3>1. \A j \in DOMAIN invoices : invoices'[j].discount = invoices[j].discount
      BY <2>2, <2>3
    <3> QED BY <1>2, <2>3, <3>1, SameDiscountsAgree DEF Books
  <2> QED BY <2>5, <2>6, <2>7 DEF Books
<1> QED BY <1>1, <1>2 DEF CreatePenaltyInvoice, PenaltyInvoice

\* Steps that change what is asked and paid of invoices that are there.
LEMMA InvoicesKeepBooks ==
  ASSUME Books, UNCHANGED today, DOMAIN invoices' = DOMAIN invoices,
         invoices' \in [DOMAIN invoices -> Invoice], groups' \in [Groups -> GroupRecord],
         \A g \in Groups : /\ groups'[g].penaltyInvoice = groups[g].penaltyInvoice
                           /\ groups'[g].lines = groups[g].lines,
         \A i \in DOMAIN invoices : i[1] = "penalty" =>
             /\ invoices'[i].discount = invoices[i].discount
             /\ 0 <= invoices'[i].paid /\ invoices'[i].paid <= invoices'[i].total
  PROVE  Books'
<1>1. TypeInv'
  BY DEF Books, TypeInv, LedgerInv, OnCredit
<1>2. OnePenaltyInvoice'
  <2>1. ASSUME NEW i \in DOMAIN invoices', i[1] = "penalty"
        PROVE  /\ groups'[i[2]].penaltyInvoice = i /\ invoices'[i].discount = 0
               /\ 0 <= invoices'[i].paid /\ invoices'[i].paid <= invoices'[i].total
    <3>1. i[2] \in Groups /\ i \in DOMAIN invoices
      BY <2>1, NamesAre DEF Books, TypeInv, LedgerInv
    <3> QED BY <2>1, <3>1 DEF Books, OnePenaltyInvoice
  <2>2. \A g \in Groups : groups'[g].penaltyInvoice \in InvoicesFor("penalty", g)' \cup {NoInvoice}
    BY DEF Books, OnePenaltyInvoice, InvoicesFor
  <2> QED BY <2>1, <2>2 DEF OnePenaltyInvoice
<1> QED BY <1>1, <1>2 DEF Books

LEMMA AccountKeepsBooks ==
  ASSUME Books, Account
  PROVE  Books' /\ (DiscountsAgree => DiscountsAgree')
<1>1. PICK i \in DOMAIN invoices : Pay(i) \/ AuditAndLock(i)
  BY DEF Account
<1> DEFINE b == invoices[i]
<1>2. b \in Invoice
  BY DEF Books, TypeInv, LedgerInv
<1>3. UNCHANGED <<groups, today>>
  BY DEF Account
<1>4. \E c \in Invoice : /\ invoices' = [invoices EXCEPT ![i] = c]
                         /\ c.discount = b.discount /\ c.total = b.total
                         /\ c.paid = b.paid \/ (b.paid <= c.paid /\ c.paid <= c.total)
  <2>1. CASE Pay(i)
    <3>1. PICK a \in 1..(b.total - b.paid) : invoices' = [invoices EXCEPT ![i].paid = b.paid + a]
      BY <2>1 DEF Pay, Residual
    <3> DEFINE c == [b EXCEPT !.paid = b.paid + a]
    <3>2. invoices' = [invoices EXCEPT ![i] = c]
      BY <3>1
    <3> HIDE DEF b
    <3>3. b.total \in Int /\ b.paid \in Nat /\ a \in Nat /\ a <= b.total - b.paid
      BY <1>2 DEF Invoice
    <3>4. b.paid + a \in Nat /\ b.paid <= b.paid + a /\ b.paid + a <= b.total
      BY <3>3
    <3>5. c \in Invoice /\ c.discount = b.discount /\ c.total = b.total /\ c.paid = b.paid + a
      BY <1>2, <3>4 DEF Invoice
    <3> HIDE DEF c
    <3> QED BY <3>2, <3>4, <3>5
  <2>2. CASE AuditAndLock(i)
    <3> DEFINE c == [b EXCEPT !.locked = TRUE]
    <3>1. invoices' = [invoices EXCEPT ![i] = c]
      BY <2>2 DEF AuditAndLock
    <3> HIDE DEF b
    <3>2. c \in Invoice /\ c.discount = b.discount /\ c.total = b.total /\ c.paid = b.paid
      BY <1>2 DEF Invoice
    <3> HIDE DEF c
    <3> QED BY <3>1, <3>2
  <2> QED BY <1>1, <2>1, <2>2
<1>5. PICK c \in Invoice : /\ invoices' = [invoices EXCEPT ![i] = c]
                           /\ c.discount = b.discount /\ c.total = b.total
                           /\ c.paid = b.paid \/ (b.paid <= c.paid /\ c.paid <= c.total)
  BY <1>4
<1>6. /\ DOMAIN invoices' = DOMAIN invoices /\ invoices'[i] = c
      /\ \A j \in DOMAIN invoices \ {i} : invoices'[j] = invoices[j]
      /\ invoices' \in [DOMAIN invoices -> Invoice]
  BY <1>5 DEF Books, TypeInv, LedgerInv
<1>7. c.paid \in Nat /\ b.paid \in Nat
  BY <1>2 DEF Invoice
<1>8. ASSUME NEW j \in DOMAIN invoices, j[1] = "penalty"
      PROVE  /\ invoices'[j].discount = invoices[j].discount
             /\ 0 <= invoices'[j].paid /\ invoices'[j].paid <= invoices'[j].total
  <2>1. 0 <= invoices[j].paid /\ invoices[j].paid <= invoices[j].total
    BY <1>8 DEF Books, OnePenaltyInvoice
  <2>2. CASE j = i
    BY <1>5, <1>6, <1>7, <2>1, <2>2
  <2>3. CASE j # i
    BY <1>6, <2>1, <2>3
  <2> QED BY <2>2, <2>3
<1>9. Books'
  <2>1. groups' \in [Groups -> GroupRecord]
    BY <1>3 DEF Books, TypeInv
  <2> QED BY <1>3, <1>6, <1>8, <2>1, InvoicesKeepBooks
<1>10. DiscountsAgree => DiscountsAgree'
  <2>1. \A j \in DOMAIN invoices : invoices'[j].discount = invoices[j].discount
    BY <1>5, <1>6
  <2> QED BY <1>3, <1>6, <2>1, SameDiscountsAgree DEF Books
<1> QED BY <1>9, <1>10

\* What is given to the invoices is added to what the group was given.
LEMMA GiveKeepsBooks ==
  ASSUME Books, NEW g \in Groups, NEW T \in SUBSET groups[g].lines, NEW d \in [T -> Int],
         Give(g, d), UNCHANGED today
  PROVE  Books' /\ (DiscountsAgree => DiscountsAgree')
<1>0. /\ groups \in [Groups -> GroupRecord] /\ T \subseteq DOMAIN invoices /\ IsFiniteSet(DOMAIN invoices)
      /\ \A i \in T : i[1] = "order"
      /\ invoices \in [DOMAIN invoices -> Invoice]
  BY DEF Books, TypeInv, LedgerInv, OnCredit
<1>1. IsFiniteSet(T) /\ Given(d) = Total(d) /\ Total(d) \in Int
  BY <1>0, FS_Subset, GivenIs, SumType
<1> DEFINE v == invoices'
<1>2. /\ v = [i \in DOMAIN invoices |-> IF i \in T THEN Discounted(invoices[i], d[i]) ELSE invoices[i]]
      /\ groups' = [groups EXCEPT ![g].discount = groups[g].discount + Total(d)]
  BY <1>1 DEF Give
<1>3. /\ DOMAIN v = DOMAIN invoices
      /\ \A i \in DOMAIN invoices \ T : v[i] = invoices[i]
      /\ \A i \in T : v[i] = Discounted(invoices[i], d[i])
  BY <1>0, <1>2
<1>4. ASSUME NEW b \in Invoice, NEW n \in Int
      PROVE  Discounted(b, n) \in Invoice /\ Discounted(b, n).discount = b.discount + n
  <2> DEFINE a == [b EXCEPT !.total = b.total - n]
             x == b.total - n
             y == b.discount + n
  <2>1. x \in Int /\ y \in Int
    BY DEF Invoice
  <2>2. a \in Invoice /\ a.discount = b.discount
    <3> HIDE DEF x
    <3>1. [b EXCEPT !.total = x] \in Invoice /\ [b EXCEPT !.total = x].discount = b.discount
      BY <2>1 DEF Invoice
    <3> QED BY <3>1 DEF x
  <2>3. Discounted(b, n) = [a EXCEPT !.discount = y]
    BY DEF Discounted
  <2> HIDE DEF a, y
  <2>4. [a EXCEPT !.discount = y] \in Invoice /\ [a EXCEPT !.discount = y].discount = y
    BY <2>1, <2>2 DEF Invoice
  <2> QED BY <2>3, <2>4 DEF y
<1>5. \A i \in T : v[i] \in Invoice /\ v[i].discount = invoices[i].discount + d[i]
  BY <1>0, <1>3, <1>4
<1>6. v \in [DOMAIN invoices -> Invoice]
  <2>1. \A i \in DOMAIN invoices : v[i] \in Invoice
    BY <1>0, <1>3, <1>5
  <2>2. v = [i \in DOMAIN invoices |-> v[i]]
    BY <1>2
  <2> QED BY <2>1, <2>2
<1>7. /\ groups' \in [Groups -> GroupRecord]
      /\ \A h \in Groups : /\ groups'[h].penaltyInvoice = groups[h].penaltyInvoice
                           /\ groups'[h].lines = groups[h].lines
      /\ \A h \in Groups \ {g} : groups'[h] = groups[h]
      /\ groups'[g].discount = groups[g].discount + Total(d)
      /\ groups[g].discount \in Int
  <2> DEFINE n == groups[g].discount + Total(d)
  <2>1. n \in Int /\ groups[g].discount \in Int
    BY <1>0, <1>1 DEF GroupRecord
  <2>2. groups' = [groups EXCEPT ![g].discount = n]
    BY <1>2
  <2> HIDE DEF n
  <2>3. [groups[g] EXCEPT !.discount = n] \in GroupRecord
    BY <1>0, <2>1 DEF GroupRecord
  <2>4. groups' \in [Groups -> GroupRecord]
    BY <1>0, <2>2, <2>3
  <2>5. \A h \in Groups : /\ groups'[h].penaltyInvoice = groups[h].penaltyInvoice
                          /\ groups'[h].lines = groups[h].lines
    BY <1>0, <2>2 DEF GroupRecord
  <2>6. groups'[g].discount = n /\ \A h \in Groups \ {g} : groups'[h] = groups[h]
    BY <1>0, <2>2 DEF GroupRecord
  <2> QED BY <2>1, <2>4, <2>5, <2>6 DEF n
<1>8. \A i \in DOMAIN invoices : i[1] = "penalty" => v[i] = invoices[i]
  BY <1>0, <1>3
<1>9. Books'
  <2>1. \A i \in DOMAIN invoices : i[1] = "penalty" =>
             /\ v[i].discount = invoices[i].discount
             /\ 0 <= v[i].paid /\ v[i].paid <= v[i].total
    BY <1>8 DEF Books, OnePenaltyInvoice
  <2> QED BY <1>3, <1>6, <1>7, <2>1, InvoicesKeepBooks
<1>10. DiscountsAgree => DiscountsAgree'
  <2> DEFINE F == InvoiceDiscount
             H == InvoiceDiscount'
             P == GroupDiscount
             R == GroupDiscount'
             D == [x \in {g} |-> Total(d)]
             S == DOMAIN invoices
  <2>1. /\ P \in [Groups -> Int] /\ F \in [S -> Int] /\ (DiscountsAgree <=> Total(P) = Total(F))
    BY Agreement DEF Books
  <2>2. H \in [S -> Int] /\ \A i \in T : H[i] = F[i] + d[i]
    BY <1>0, <1>3, <1>5, <1>6 DEF InvoiceDiscount, Invoice
  <2>3. \A i \in S \ T : H[i] = F[i]
    BY <1>3 DEF InvoiceDiscount
  <2>4. R \in [Groups -> Int] /\ \A h \in Groups \ {g} : R[h] = P[h]
    BY <1>7 DEF GroupDiscount, GroupRecord
  <2>5. R[g] = P[g] + Total(d) /\ D \in [{g} -> Int] /\ D[g] = Total(d)
    BY <1>1, <1>7 DEF GroupDiscount
  <2>6. DiscountsAgree' <=> Total(R) = Total(H)
    BY <1>0, <1>3, AgreementNext
  <2>7. IsFiniteSet(Groups)
    BY GroupAssumption
  <2> HIDE DEF F, H, P, R, D, S
  <2>8. Total(H) = Total(F) + Total(d)
    <3>1. Adds(H, F, d, S, T)
      BY <1>0, <2>1, <2>2, <2>3 DEF Adds, S
    <3> QED BY <3>1, SumAdd
  <2>9. Total(D) = Total(d)
    BY <2>5, SumOfOne
  <2>10. Total(R) = Total(P) + Total(D)
    <3>1. Adds(R, P, D, Groups, {g})
      BY <2>1, <2>4, <2>5, <2>7 DEF Adds
    <3> QED BY <3>1, SumAdd
  <2> QED BY <2>1, <2>6, <2>8, <2>9, <2>10
<1> QED BY <1>9, <1>10

LEMMA DiscountKeepsBooks ==
  ASSUME Books, NEW g \in Groups, NEW T \in SUBSET groups[g].lines, Discount(g, T)
  PROVE  Books' /\ (DiscountsAgree => DiscountsAgree')
<1>1. \A i \in T : Residual(i) \in Int
  BY DEF Books, TypeInv, LedgerInv, Invoice, Residual
<1>2. ASSUME NEW a \in Amounts, Give(g, [i \in T |-> a])
      PROVE  Books' /\ (DiscountsAgree => DiscountsAgree')
  <2>1. [i \in T |-> a] \in [T -> Int]
    BY GroupAssumption
  <2> QED BY <1>2, <2>1, GiveKeepsBooks DEF Discount
<1>3. ASSUME NEW p \in Percentages, Give(g, [i \in T |-> HalfEven(Residual(i) * p)])
      PROVE  Books' /\ (DiscountsAgree => DiscountsAgree')
  <2>1. \A n \in Int : HalfEven(n) \in Int
    BY DEF HalfEven, HalfUp
  <2>2. \A i \in T : Residual(i) * p \in Int
    BY <1>1, GroupAssumption
  <2>3. [i \in T |-> HalfEven(Residual(i) * p)] \in [T -> Int]
    BY <2>1, <2>2
  <2> QED BY <1>3, <2>3, GiveKeepsBooks DEF Discount
<1> QED BY <1>2, <1>3 DEF Discount

LEMMA NextBooks == Books /\ [Next]_vars => Books' /\ (DiscountsAgree => DiscountsAgree')
<1> SUFFICES ASSUME Books, [Next]_vars PROVE Books' /\ (DiscountsAgree => DiscountsAgree')
  OBVIOUS
<1>1. ASSUME NEW o \in Orders, Bill(o) PROVE Books' /\ (DiscountsAgree => DiscountsAgree')
  BY <1>1, BillKeepsBooks
<1>2. ASSUME NEW g \in Groups, CreatePenaltyInvoice(g) PROVE Books' /\ (DiscountsAgree => DiscountsAgree')
  BY <1>2, PenaltyInvoiceKeepsBooks
<1>3. ASSUME NEW g \in Groups,
             Discount(g, groups[g].lines) \/ \E i \in groups[g].lines : Discount(g, {i})
      PROVE  Books' /\ (DiscountsAgree => DiscountsAgree')
  BY <1>3, DiscountKeepsBooks
<1>4. CASE Account
  BY <1>4, AccountKeepsBooks
<1>5. CASE \/ \E g \in Groups : \/ \E period : Generate(g, period)
                                \/ \E i \in DOMAIN invoices : AddLine(g, i) \/ RemoveLine(g, i)
                                \/ CalculatePenalty(g) \/ ConfirmGroupInvoicePayment(g)
           \/ ScheduledPenaltyCalculator \/ Tick \/ UNCHANGED vars
  <2>1. Books'
    BY <1>5, GroupStepsKeepBooks
  <2>2. UNCHANGED invoices /\ \A g \in Groups : groups'[g].discount = groups[g].discount
    <3>1. groups \in [Groups -> GroupRecord]
      BY DEF Books, TypeInv
    <3>2. ASSUME NEW g \in Groups, NEW L, NEW H,
                 groups' = [groups EXCEPT ![g].lines = L, ![g].byHand = H]
          PROVE  \A h \in Groups : groups'[h].discount = groups[h].discount
      BY <3>1, <3>2 DEF GroupRecord
    <3>3. ASSUME NEW g \in Groups,
                 \/ \E period : Generate(g, period)
                 \/ \E i \in DOMAIN invoices : AddLine(g, i) \/ RemoveLine(g, i)
          PROVE  UNCHANGED invoices /\ \A h \in Groups : groups'[h].discount = groups[h].discount
      BY <3>2, <3>3 DEF Generate, AddLine, RemoveLine
    <3>4. ASSUME NEW g \in Groups, CalculatePenalty(g)
          PROVE  UNCHANGED invoices /\ \A h \in Groups : groups'[h].discount = groups[h].discount
      BY <3>1, <3>4 DEF CalculatePenalty, GroupRecord
    <3>5. ASSUME NEW g \in Groups, ConfirmGroupInvoicePayment(g)
          PROVE  UNCHANGED invoices /\ \A h \in Groups : groups'[h].discount = groups[h].discount
      BY <3>1, <3>5 DEF ConfirmGroupInvoicePayment, GroupRecord
    <3>6. CASE ScheduledPenaltyCalculator
      BY <3>1, <3>6 DEF ScheduledPenaltyCalculator, GroupRecord
    <3>7. CASE Tick \/ UNCHANGED vars
      BY <3>7 DEF Tick, vars
    <3> QED BY <1>5, <3>3, <3>4, <3>5, <3>6, <3>7
  <2>3. DiscountsAgree => DiscountsAgree'
    BY <2>2, SameDiscountsAgree DEF Books
  <2> QED BY <2>1, <2>3
<1> QED BY <1>1, <1>2, <1>3, <1>4, <1>5 DEF Next

\* However often the penalty of a group is calculated and billed, and whatever
\* is paid, locked and discounted between, it has one invoice at the most, its
\* own, with none of the discounts of its orders, of which no more is paid than
\* it asks.
THEOREM PenaltyBilledOnce == Spec => []OnePenaltyInvoice
<1>1. Spec => []Books
  BY InitBooks, NextBooks, PTL DEF Spec
<1>2. Books => OnePenaltyInvoice
  BY DEF Books
<1> QED BY <1>1, <1>2, PTL

\* The discounts that the groups print add up to those of all invoices: none is
\* given to an invoice and not to its group, counted twice, or undone.
THEOREM DiscountsAdd == Spec => []DiscountsAgree
<1>1. Init => DiscountsAgree
  <2> SUFFICES ASSUME Init PROVE DiscountsAgree
    OBVIOUS
  <2>1. TypeInv
    BY InitBooks DEF Books
  <2>2. IsFiniteSet(Groups) /\ DOMAIN invoices = {} /\ \A g \in Groups : groups[g].discount = 0
    BY GroupAssumption DEF Init
  <2>3. Total(InvoiceDiscount) = 0
    <3>1. DOMAIN InvoiceDiscount = {} /\ InvoiceDiscount \in [{} -> Int] /\ IsFiniteSet({})
      BY <2>2, FS_EmptySet DEF InvoiceDiscount
    <3> QED BY <3>1, SumOfZeros
  <2>4. Total(GroupDiscount) = 0
    <3>1. DOMAIN GroupDiscount = Groups /\ GroupDiscount \in [Groups -> Int] /\ \A g \in Groups : GroupDiscount[g] = 0
      BY <2>2 DEF GroupDiscount
    <3> QED BY <2>2, <3>1, SumOfZeros
  <2> QED BY <2>1, <2>3, <2>4, Agreement
<1>2. Books /\ DiscountsAgree /\ [Next]_vars => (Books /\ DiscountsAgree)'
  BY NextBooks
<1>3. Spec => [](Books /\ DiscountsAgree)
  BY <1>1, <1>2, InitBooks, PTL DEF Spec
<1> QED BY <1>3, PTL
=============================================================================
