-------------------------- MODULE JobCreation_proofs --------------------------
(***************************************************************************)
(* Proofs about JobCreation, for any callers, graphs of delayables and      *)
(* configurations.                                                         *)
(***************************************************************************)
EXTENDS JobCreation, FiniteSetTheorems, WellFoundedInduction, TLAPS

Fields == {"state", "depends", "reverse", "graph", "key", "channel"}

\* Rows and jobs in memory.
Table(t) == \A u \in DOMAIN t : DOMAIN t[u] = Fields

Waits(t) == \A u \in DOMAIN t : t[u].state = "wait_dependencies" => t[u].graph # None

\* A job that was delayed alone and waits to be run.
Lone(job) == job.key # None /\ job.graph = None /\ job.state = "pending"

LoneKeys(t) == \A u, v \in DOMAIN t : Lone(t[u]) /\ Lone(t[v]) /\ t[u].key = t[v].key => u = v

Indexes(u) == u \in Nat \X Nat

\* What the transaction sees: the rows as they were, whose jobs have only gone on
\* since, and those of the caller.
Snapshot ==
    /\ caller \in Nat
    /\ \A u \in DOMAIN seen : Indexes(u) /\ u[1] <= caller /\ seen[u].key = KeyOf(u)
    /\ DOMAIN rows = {u \in DOMAIN seen : u[1] # caller}
    /\ \A u \in DOMAIN rows : /\ rows[u].key = KeyOf(u) /\ rows[u].graph = seen[u].graph
                              /\ rows[u].state = "pending" /\ rows[u].graph = None
                                    => seen[u].state = "pending"
    /\ Table(rows) /\ Table(seen)
    /\ Waits(rows) /\ Waits(seen) /\ LoneKeys(seen)

Memory ==
    /\ Table(memory) /\ Waits(memory)
    /\ \A d \in DOMAIN memory : /\ memory[d].key = KeyOf(Uuid(d))
                                /\ memory[d].state \in {"pending", "wait_dependencies"}

\* A call is of jobs of one caller; of one that stored nothing, each job or one
\* of its key was there.
Calls ==
    \A call \in story : \A u \in call.jobs :
        /\ Indexes(u) /\ u[1] <= caller
        /\ call.stored => u \in DOMAIN seen
        /\ ~call.stored /\ (\A v \in call.jobs : KeyOf(v) # None) =>
                \/ u \in DOMAIN seen
                \/ \E v \in DOMAIN seen : v # u /\ v[1] <= u[1] /\ KeyOf(v) = KeyOf(u)

Kinds == {"delayable", "chain", "group"}
Record == [kind : Kinds, items : Seq(Nat), edges : SUBSET (Nat \X Nat), then : SUBSET Nat]

\* The delayables come first; chains and groups are of objects before them.
Objects ==
    /\ objects \in Seq(Record)
    /\ \A x \in DOMAIN objects :
        /\ Vertices(objects[x]) \subseteq DOMAIN objects
        /\ objects[x].kind = "delayable" => objects[x].items = <<x>>
        /\ objects[x].kind # "delayable" =>
                objects[x].items # << >> /\ \A i \in DOMAIN objects[x].items : objects[x].items[i] < x

Inv == Snapshot /\ Memory /\ Calls /\ Objects

\* What is known of the jobs that an object is made into (see below).
Sound(M, links) == M \subseteq Nat /\ IsFiniteSet(M) /\ links \subseteq M \X M

-----------------------------------------------------------------------------
LEMMA UuidIs == \A d \in Nat : Uuid(d) = <<caller, d>>
  BY DEF Uuid

LEMMA TheOnlyOne ==
  ASSUME NEW M, IsFiniteSet(M), Cardinality(M) = 1, NEW d \in M
  PROVE  M = {d}
<1>1. PICK x : M = {x}
  BY FS_Singleton
<1> QED BY <1>1

LEMMA Smallest ==
  ASSUME NEW S \in SUBSET Nat, S # {}
  PROVE  \E x \in S : \A y \in S : x <= y
<1> DEFINE R == {n \in Nat \X Nat : n[1] < n[2]}
<1>1. IsWellFoundedOn(R, Nat)
  BY NatLessThanWellFounded DEF OpToRel
<1> HIDE DEF R
<1>2. PICK x \in S : \A y \in S : ~(<<y, x>> \in R)
  BY <1>1, WFMin
<1>3. ASSUME NEW y \in S PROVE x <= y
  <2>1. <<y, x>> \in Nat \X Nat /\ <<y, x>>[1] = y /\ <<y, x>>[2] = x
    OBVIOUS
  <2>2. ~(y < x)
    BY <1>2, <2>1 DEF R
  <2> QED BY <2>2
<1> QED BY <1>3

LEMMA MinIn ==
  ASSUME NEW S \in SUBSET Nat, S # {}
  PROVE  Min(S) \in S
  BY Smallest DEF Min

-----------------------------------------------------------------------------
(* The jobs of a call of delay(). *)

LEMMA BuiltIs ==
  ASSUME Inv, NEW M \in SUBSET Nat
  PROVE  /\ DOMAIN Built(M) = M \cup DOMAIN memory
         /\ \A d \in DOMAIN Built(M) :
                /\ DOMAIN Built(M)[d] = Fields
                /\ Built(M)[d].state = "wait_dependencies" => Built(M)[d].graph # None
                /\ Built(M)[d].state \in {"pending", "wait_dependencies"}
                /\ Built(M)[d].key = KeyOf(Uuid(d))
<1>1. \A d \in Nat : /\ DOMAIN NewJob(d) = Fields /\ NewJob(d).state = "pending"
                     /\ NewJob(d).key = KeyOf(Uuid(d))
  BY DEF NewJob, Fields, Props, KeyOf, Uuid
<1>2. DOMAIN Built(M) = M \cup DOMAIN memory
  BY DEF Built
<1>3. \A d \in DOMAIN Built(M) : Built(M)[d] = IF d \in DOMAIN memory THEN memory[d] ELSE NewJob(d)
  BY DEF Built
<1> QED BY <1>1, <1>2, <1>3 DEF Inv, Memory, Table, Waits

Parented(d, links) == {e[1] : e \in {l \in links : l[2] = d}}

AreConnected(jobs, M, links) ==
    /\ DOMAIN jobs = M \cup DOMAIN memory
    /\ \A d \in DOMAIN jobs : DOMAIN jobs[d] = Fields /\ jobs[d].key = KeyOf(Uuid(d))
    /\ \A d \in DOMAIN jobs \ M : jobs[d] = memory[d]
    /\ \A d \in M : /\ jobs[d].graph = GraphOf(Built(M), M)
                    /\ jobs[d].depends = Built(M)[d].depends \cup {Uuid(p) : p \in Parented(d, links)}
                    /\ jobs[d].reverse = Built(M)[d].reverse \cup {Uuid(c) : c \in Successors(links, d)}
                    /\ jobs[d].state = IF Parented(d, links) = {} THEN Built(M)[d].state
                                       ELSE "wait_dependencies"

LEMMA ConnectedIs ==
  ASSUME Inv, NEW M, NEW links, Sound(M, links), NEW jobs, jobs = Connected(Built(M), M, links)
  PROVE  AreConnected(jobs, M, links)
<1> DEFINE B == Built(M)
<1>0. M \in SUBSET Nat
  BY DEF Sound
<1>1. /\ DOMAIN B = M \cup DOMAIN memory
      /\ \A d \in DOMAIN B : DOMAIN B[d] = Fields /\ B[d].key = KeyOf(Uuid(d))
      /\ \A d \in DOMAIN B \ M : B[d] = memory[d]
  BY <1>0, BuiltIs DEF Built
<1> HIDE DEF B
<1>2. DOMAIN jobs = DOMAIN B /\ \A d \in DOMAIN B \ M : jobs[d] = B[d]
  BY DEF Connected, B
<1>3. ASSUME NEW d \in M
      PROVE  jobs[d] = [B[d] EXCEPT !.graph = GraphOf(B, M),
                            !.depends = @ \cup {Uuid(p) : p \in Parented(d, links)},
                            !.reverse = @ \cup {Uuid(c) : c \in Successors(links, d)},
                            !.state = IF Parented(d, links) = {} THEN @ ELSE "wait_dependencies"]
  BY <1>1 DEF Connected, B, Parented
<1>4. ASSUME NEW d \in M
      PROVE  /\ DOMAIN jobs[d] = Fields /\ jobs[d].key = B[d].key /\ jobs[d].graph = GraphOf(B, M)
             /\ jobs[d].depends = B[d].depends \cup {Uuid(p) : p \in Parented(d, links)}
             /\ jobs[d].reverse = B[d].reverse \cup {Uuid(c) : c \in Successors(links, d)}
             /\ jobs[d].state = IF Parented(d, links) = {} THEN B[d].state ELSE "wait_dependencies"
  <2>1. DOMAIN B[d] = Fields
    BY <1>1
  <2> QED BY <1>3, <2>1 DEF Fields
<1> QED BY <1>1, <1>2, <1>4 DEF B, AreConnected

\* A job has no graph only if it is delayed alone; it did not have one then, and
\* depends on nothing.
LEMMA DelayedAlone ==
  ASSUME Inv, NEW M, NEW links, Sound(M, links), ~Refuses(Built(M), M, links),
         NEW d \in M, GraphOf(Built(M), M) = None
  PROVE  M = {d} /\ Built(M)[d].graph = None /\ Parented(d, links) = {}
<1> DEFINE B == Built(M)
<1>1. Cardinality(M) = 1
  <2> SUFFICES ASSUME Cardinality(M) # 1 PROVE FALSE
    OBVIOUS
  <2>1. CASE Graphs(B, M) = {}
    <3>1. Min(M) \in Nat
      BY MinIn DEF Sound
    <3>2. Uuid(Min(M)) \in Nat \X Nat
      BY <3>1 DEF Uuid, Inv, Snapshot
    <3> QED BY <2>1, <3>2, CreationAssumption DEF GraphOf
  <2>2. CASE Graphs(B, M) # {}
    <3>1. (CHOOSE g \in Graphs(B, M) : TRUE) \in Graphs(B, M)
      BY <2>2
    <3>2. None \notin Graphs(B, M)
      BY DEF Graphs
    <3> QED BY <2>2, <3>1, <3>2 DEF GraphOf
  <2> QED BY <2>1, <2>2
<1>2. M = {d}
  BY <1>1, TheOnlyOne DEF Sound
<1>3. Graphs(B, M) = {}
  BY <1>1 DEF Refuses
<1>4. B[d].graph = None
  BY <1>3 DEF Graphs
<1>5. <<d, d>> \notin links
  BY DEF Refuses
<1>6. Parented(d, links) = {}
  <2> SUFFICES ASSUME NEW l \in links, l[2] = d PROVE FALSE
    BY DEF Parented
  <2>1. l \in M \X M
    BY DEF Sound
  <2>2. l[1] \in M /\ l = <<l[1], l[2]>>
    BY <2>1
  <2> QED BY <1>2, <1>5, <2>2
<1> QED BY <1>2, <1>4, <1>6

Prepared(jobs) ==
    /\ Table(jobs) /\ Waits(jobs)
    /\ \A d \in DOMAIN jobs : /\ jobs[d].key = KeyOf(Uuid(d))
                              /\ jobs[d].state \in {"pending", "wait_dependencies"}

LEMMA ConnectedMemory ==
  ASSUME Inv, NEW M, NEW links, Sound(M, links), ~Refuses(Built(M), M, links),
         NEW jobs, jobs = Connected(Built(M), M, links)
  PROVE  Prepared(jobs)
<1>0. M \in SUBSET Nat
  BY DEF Sound
<1>9. AreConnected(jobs, M, links)
  BY ConnectedIs
<1>1. \A d \in M : Built(M)[d].state \in {"pending", "wait_dependencies"}
  BY <1>0, BuiltIs
<1>2. ASSUME NEW d \in M
      PROVE  /\ jobs[d].state \in {"pending", "wait_dependencies"}
             /\ jobs[d].state = "wait_dependencies" => jobs[d].graph # None
  <2>1. jobs[d].graph = GraphOf(Built(M), M)
    BY <1>9 DEF AreConnected
  <2>2. jobs[d].state = IF Parented(d, links) = {} THEN Built(M)[d].state ELSE "wait_dependencies"
    BY <1>9 DEF AreConnected
  <2>3. CASE jobs[d].graph = None
    <3>1. Built(M)[d].graph = None /\ Parented(d, links) = {}
      BY <2>1, <2>3, DelayedAlone
    <3>2. Built(M)[d].state # "wait_dependencies"
      BY <1>0, <3>1, BuiltIs
    <3> QED BY <1>1, <2>2, <3>1, <3>2
  <2>4. CASE jobs[d].graph # None
    BY <1>1, <2>2, <2>4
  <2> QED BY <2>3, <2>4
<1>3. /\ DOMAIN jobs = M \cup DOMAIN memory
      /\ \A d \in DOMAIN jobs : DOMAIN jobs[d] = Fields /\ jobs[d].key = KeyOf(Uuid(d))
      /\ \A d \in DOMAIN jobs \ M : jobs[d] = memory[d]
  BY <1>9 DEF AreConnected
<1>4. \A d \in DOMAIN jobs \ M : /\ jobs[d].state \in {"pending", "wait_dependencies"}
                                 /\ jobs[d].state = "wait_dependencies" => jobs[d].graph # None
  BY <1>3 DEF Inv, Memory, Waits
<1>5. \A d \in DOMAIN jobs : /\ jobs[d].state \in {"pending", "wait_dependencies"}
                             /\ jobs[d].state = "wait_dependencies" => jobs[d].graph # None
  BY <1>2, <1>4
<1> QED BY <1>3, <1>5 DEF Prepared, Table, Waits

NewRows(M) == {Uuid(d) : d \in M}

LEMMA StoredTable ==
  ASSUME Inv, NEW M \in SUBSET Nat, NEW jobs, seen' = Stored(jobs, M)
  PROVE  /\ DOMAIN seen' = DOMAIN seen \cup NewRows(M)
         /\ \A u \in DOMAIN seen' : seen'[u] = IF u \in NewRows(M) THEN jobs[u[2]] ELSE seen[u]
         /\ \A u \in NewRows(M) : Indexes(u) /\ u[1] = caller /\ u[2] \in M /\ u = Uuid(u[2])
         /\ \A d \in M : Uuid(d) \in NewRows(M) /\ Uuid(d)[2] = d
<1> DEFINE new == NewRows(M)
<1>1. caller \in Nat /\ \A d \in M : Uuid(d) = <<caller, d>>
  BY DEF Inv, Snapshot, Uuid
<1>2. /\ \A u \in new : Indexes(u) /\ u[1] = caller /\ u[2] \in M /\ u = Uuid(u[2])
      /\ \A d \in M : Uuid(d) \in new /\ Uuid(d)[2] = d
  BY <1>1 DEF Indexes, NewRows
<1>3. \A u \in DOMAIN seen : u[1] = caller /\ u[2] \in M => u \in new
  <2> SUFFICES ASSUME NEW u \in DOMAIN seen, u[1] = caller, u[2] \in M PROVE u \in new
    OBVIOUS
  <2>1. u = <<u[1], u[2]>>
    BY DEF Inv, Snapshot, Indexes
  <2>2. u = Uuid(u[2])
    BY <1>1, <2>1
  <2> QED BY <2>2 DEF NewRows
<1>4. /\ DOMAIN seen' = DOMAIN seen \cup new
      /\ \A u \in DOMAIN seen' : seen'[u] = IF u \in new THEN jobs[u[2]] ELSE seen[u]
  BY <1>2, <1>3 DEF Stored, NewRows
<1> QED BY <1>2, <1>4

\* A job that is stored alone is the only one of its key that waits.
LEMMA StoredIs ==
  ASSUME Inv, NEW M, NEW links, Sound(M, links), ~Refuses(Built(M), M, links),
         NEW jobs, jobs = Connected(Built(M), M, links), ~AllExist(jobs, M),
         seen' = Stored(jobs, M), UNCHANGED <<caller, rows>>
  PROVE  /\ Snapshot' /\ DOMAIN seen \subseteq DOMAIN seen'
         /\ \A d \in M : Uuid(d) \in DOMAIN seen'
<1> DEFINE new == NewRows(M)
<1>0. M \in SUBSET Nat /\ caller \in Nat /\ \A d \in M : Uuid(d) = <<caller, d>>
  BY DEF Sound, Inv, Snapshot, Uuid
<1>1. \A u \in new : Indexes(u) /\ u[1] = caller /\ u[2] \in M
  BY <1>0, StoredTable
<1>3. /\ DOMAIN seen' = DOMAIN seen \cup new
      /\ \A u \in DOMAIN seen' : seen'[u] = IF u \in new THEN jobs[u[2]] ELSE seen[u]
  BY <1>0, StoredTable
<1>4. DOMAIN rows' = {u \in DOMAIN seen' : u[1] # caller'}
  BY <1>1, <1>3 DEF Inv, Snapshot
<1>5. /\ Table(jobs) /\ Waits(jobs)
      /\ \A d \in DOMAIN jobs : jobs[d].key = KeyOf(Uuid(d))
      /\ DOMAIN jobs = M \cup DOMAIN memory
  <2>1. Prepared(jobs)
    BY ConnectedMemory
  <2>2. AreConnected(jobs, M, links)
    BY ConnectedIs
  <2> QED BY <2>1, <2>2 DEF Prepared, AreConnected
<1>6. \A u \in new : /\ u[2] \in DOMAIN jobs /\ seen'[u] = jobs[u[2]] /\ u = Uuid(u[2])
  <2>1. \A u \in new : u = Uuid(u[2])
    BY <1>0, StoredTable
  <2> QED BY <1>1, <1>3, <1>5, <2>1
<1>7. \A u \in DOMAIN rows : u \notin new /\ u \in DOMAIN seen /\ seen'[u] = seen[u]
  BY <1>1, <1>3 DEF Inv, Snapshot
<1>8. \A u \in DOMAIN seen' : Indexes(u) /\ u[1] <= caller /\ seen'[u].key = KeyOf(u)
  <2>1. \A u \in new : seen'[u].key = KeyOf(u)
    BY <1>5, <1>6
  <2> QED BY <1>0, <1>1, <1>3, <2>1 DEF Inv, Snapshot
<1>9. Table(seen') /\ Waits(seen')
  <2>1. \A u \in new : /\ DOMAIN seen'[u] = Fields
                       /\ seen'[u].state = "wait_dependencies" => seen'[u].graph # None
    BY <1>5, <1>6 DEF Table, Waits
  <2> QED BY <1>3, <2>1 DEF Inv, Snapshot, Table, Waits
<1>10. LoneKeys(seen')
  <2>1. ASSUME NEW u \in new, NEW v \in DOMAIN seen', Lone(seen'[u]), Lone(seen'[v]), seen'[u].key = seen'[v].key
        PROVE  u = v
    <3> DEFINE d == u[2]
    <3>1. d \in M /\ u = Uuid(d) /\ Lone(jobs[d])
      BY <1>1, <1>6, <2>1
    <3>2. GraphOf(Built(M), M) = None
      <4>1. AreConnected(jobs, M, links)
        BY ConnectedIs
      <4> QED BY <3>1, <4>1 DEF Lone, AreConnected
    <3>3. M = {d}
      BY <3>1, <3>2, DelayedAlone
    <3>4. jobs[d].key # None
      BY <3>1 DEF Lone
    <3>5. Existing(jobs[d].key) = {}
      BY <3>3, <3>4 DEF AllExist
    <3>6. CASE v \in new
      BY <1>6, <3>1, <3>3, <3>6, <1>1
    <3>7. CASE v \notin new
      <4>1. v \in DOMAIN seen /\ seen[v].key = jobs[d].key /\ seen[v].state = "pending"
        BY <1>3, <1>6, <2>1, <3>7 DEF Lone
      <4> QED BY <3>5, <4>1 DEF Existing
    <3> QED BY <3>6, <3>7
  <2>2. ASSUME NEW u \in DOMAIN seen' \ new, NEW v \in DOMAIN seen' \ new,
               Lone(seen'[u]), Lone(seen'[v]), seen'[u].key = seen'[v].key
        PROVE  u = v
    BY <1>3, <2>2 DEF Inv, Snapshot, LoneKeys
  <2> QED BY <1>3, <2>1, <2>2 DEF LoneKeys
<1>11. \A u \in DOMAIN rows' : /\ rows'[u].key = KeyOf(u) /\ rows'[u].graph = seen'[u].graph
                               /\ rows'[u].state = "pending" /\ rows'[u].graph = None
                                     => seen'[u].state = "pending"
  BY <1>7 DEF Inv, Snapshot
<1>12. Snapshot'
  BY <1>0, <1>4, <1>8, <1>9, <1>10, <1>11 DEF Inv, Snapshot, Table, Waits, LoneKeys, KeyOf, Indexes
<1> QED BY <1>0, <1>3, <1>12, StoredTable

-----------------------------------------------------------------------------
(* The steps. *)

\* Another transaction begins.
LEMMA ServeIs ==
  ASSUME NEW c, NEW table, Serve(c, table)
  PROVE  caller' = c /\ seen' = table /\ DOMAIN memory' = {}
  BY DEF Serve

LEMMA DelayablesAreObjects ==
  ASSUME NEW c \in DOMAIN Callers
  PROVE  /\ Delayables(c) \in Seq(Record)
         /\ \A x \in DOMAIN Delayables(c) :
                /\ Delayables(c)[x].kind = "delayable" /\ Delayables(c)[x].items = <<x>>
                /\ Vertices(Delayables(c)[x]) = {x}
<1>1. Len(Callers[c]) \in Nat /\ DOMAIN Callers[c] = 1..Len(Callers[c])
  BY CreationAssumption
<1>2. \A x \in Nat : <<x>> \in Seq(Nat) /\ ToSet(<<x>>) = {x}
  BY DEF ToSet
<1>3. \A x \in Nat : /\ Delayable(x) \in Record
                     /\ Delayable(x).kind = "delayable" /\ Delayable(x).items = <<x>>
                     /\ Delayable(x).edges = {}
  BY <1>2 DEF Delayable, Object, Record, Kinds
<1>4. \A x \in Nat : Vertices(Delayable(x)) = {x}
  BY <1>2, <1>3 DEF Vertices
<1>5. Delayables(c) = [x \in 1..Len(Callers[c]) |-> Delayable(x)]
  BY <1>1 DEF Delayables
<1> DEFINE n == Len(Callers[c])
           D == Delayables(c)
<1>6. n \in Nat /\ D = [x \in 1..n |-> Delayable(x)]
  BY <1>1, <1>5
<1> HIDE DEF n, D
<1>7. D \in Seq(Record)
  BY <1>3, <1>6
<1>8. \A x \in DOMAIN D : D[x] = Delayable(x) /\ x \in Nat
  BY <1>6
<1> QED BY <1>3, <1>4, <1>7, <1>8 DEF D

LEMMA ServeKeepsObjects ==
  ASSUME NEW c \in Nat, NEW table, Serve(c, table)
  PROVE  Objects' /\ Memory'
<1>1. CASE c \in DOMAIN Callers
  <2>1. objects' = Delayables(c)
    BY <1>1 DEF Serve
  <2>2. \A x \in DOMAIN objects' : Vertices(objects'[x]) \subseteq DOMAIN objects'
    BY <1>1, <2>1, DelayablesAreObjects
  <2>3. Objects'
    BY <1>1, <2>1, <2>2, DelayablesAreObjects DEF Objects
  <2> QED BY <2>3, ServeIs DEF Memory, Table, Waits
<1>2. CASE c \notin DOMAIN Callers
  <2>1. objects' = << >>
    BY <1>2 DEF Serve
  <2>2. << >> \in Seq(Record) /\ DOMAIN << >> = {}
    OBVIOUS
  <2>3. Objects'
    BY <2>1, <2>2 DEF Objects
  <2> QED BY <2>3, ServeIs DEF Memory, Table, Waits
<1> QED BY <1>1, <1>2

LEMMA InitInv == Init => Inv
<1> SUFFICES ASSUME Init PROVE Inv
  OBVIOUS
<1>1. 1 \in DOMAIN Callers
  BY CreationAssumption
<1>2. objects = Delayables(1)
  BY DEF Init
<1>3. \A x \in DOMAIN objects : Vertices(objects[x]) \subseteq DOMAIN objects
  BY <1>1, <1>2, DelayablesAreObjects
<1>4. Objects
  BY <1>1, <1>2, <1>3, DelayablesAreObjects DEF Objects
<1>5. caller = 1 /\ DOMAIN memory = {} /\ DOMAIN seen = {} /\ DOMAIN rows = {} /\ story = {}
  BY DEF Init
<1>6. Snapshot
  BY <1>5 DEF Snapshot, Table, Waits, LoneKeys
<1> QED BY <1>4, <1>5, <1>6 DEF Inv, Memory, Calls, Table, Waits

\* What a caller was told of its jobs holds when it is done.
LEMMA NextCaller ==
  ASSUME Inv, NEW table, Serve(caller + 1, table),
         \A u \in DOMAIN rows : u \in DOMAIN table,
         story' \subseteq story,
         \A call \in story' : \A u \in call.jobs : u[1] = caller =>
             /\ call.stored => u \in DOMAIN table
             /\ ~call.stored => \A v \in DOMAIN seen : v \in DOMAIN table
  PROVE  Calls'
<1> SUFFICES ASSUME NEW call \in story', NEW u \in call.jobs
             PROVE  /\ Indexes(u) /\ u[1] <= caller'
                    /\ call.stored => u \in DOMAIN seen'
                    /\ ~call.stored /\ (\A v \in call.jobs : KeyOf(v) # None) =>
                           \/ u \in DOMAIN seen'
                           \/ \E v \in DOMAIN seen' : v # u /\ v[1] <= u[1] /\ KeyOf(v) = KeyOf(u)
  BY DEF Calls, KeyOf, Indexes
<1>1. caller' = caller + 1 /\ seen' = table /\ caller \in Nat
  BY ServeIs DEF Inv, Snapshot
<1>2. /\ Indexes(u) /\ u[1] <= caller
      /\ call.stored => u \in DOMAIN seen
      /\ ~call.stored /\ (\A v \in call.jobs : KeyOf(v) # None) =>
             \/ u \in DOMAIN seen
             \/ \E v \in DOMAIN seen : v # u /\ v[1] <= u[1] /\ KeyOf(v) = KeyOf(u)
  BY DEF Inv, Calls
<1>3. u[1] \in Nat
  BY <1>2 DEF Indexes
<1>4. \A v \in DOMAIN seen : v[1] \in Nat /\ (v[1] # caller => v \in DOMAIN table)
  BY DEF Inv, Snapshot, Indexes
<1>5. CASE u[1] = caller
  BY <1>1, <1>2, <1>3, <1>5
<1>6. CASE u[1] # caller
  <2>1. \A v \in DOMAIN seen : v[1] <= u[1] => v \in DOMAIN table
    BY <1>1, <1>2, <1>3, <1>4, <1>6
  <2>2. u \in DOMAIN seen => u \in DOMAIN table
    BY <1>4, <1>6
  <2> QED BY <1>1, <1>2, <1>3, <2>1, <2>2
<1> QED BY <1>5, <1>6

\* A transaction begins with the committed rows.
LEMMA NextSnapshot ==
  ASSUME Inv, Serve(caller + 1, rows'),
         \A u \in DOMAIN rows' : Indexes(u) /\ u[1] <= caller /\ rows'[u].key = KeyOf(u),
         Table(rows'), Waits(rows'), LoneKeys(rows')
  PROVE  Snapshot'
<1>1. caller' = caller + 1 /\ seen' = rows' /\ caller \in Nat
  BY ServeIs DEF Inv, Snapshot
<1>2. \A u \in DOMAIN rows' : u[1] \in Nat /\ u[1] # caller + 1 /\ u[1] <= caller + 1
  BY <1>1 DEF Indexes
<1>3. \A u \in DOMAIN seen' : Indexes(u)' /\ u[1] <= caller' /\ seen'[u].key = KeyOf(u)'
  BY <1>1, <1>2 DEF Indexes, KeyOf
<1>4. DOMAIN rows' = {u \in DOMAIN seen' : u[1] # caller'}
  BY <1>1, <1>2
<1>5. \A u \in DOMAIN rows' : rows'[u].key = KeyOf(u)'
  BY DEF KeyOf
<1>6. Table(rows)' /\ Table(seen)' /\ Waits(rows)' /\ Waits(seen)' /\ LoneKeys(seen)'
  BY <1>1 DEF Table, Waits, LoneKeys, Lone
<1> QED BY <1>1, <1>3, <1>4, <1>5, <1>6 DEF Snapshot

LEMMA RowsLone == Inv => LoneKeys(rows)
<1> SUFFICES ASSUME Inv, NEW u \in DOMAIN rows, NEW v \in DOMAIN rows,
                    Lone(rows[u]), Lone(rows[v]), rows[u].key = rows[v].key
             PROVE  u = v
  BY DEF LoneKeys
<1>1. ASSUME NEW w \in DOMAIN rows, Lone(rows[w])
      PROVE  w \in DOMAIN seen /\ Lone(seen[w]) /\ seen[w].key = rows[w].key
  BY <1>1 DEF Inv, Snapshot, Lone
<1> QED BY <1>1 DEF Inv, Snapshot, LoneKeys

\* A refused call undoes what its caller did.
LEMMA RefusalKeepsInv ==
  ASSUME Inv, Serve(caller + 1, rows), UNCHANGED rows,
         story' = {call \in story : \A u \in call.jobs : u[1] # caller}
  PROVE  Inv'
<1>1. Calls'
  BY NextCaller
<1>2. \A u \in DOMAIN rows' : Indexes(u) /\ u[1] <= caller /\ rows'[u].key = KeyOf(u)
  BY DEF Inv, Snapshot
<1>3. Table(rows') /\ Waits(rows') /\ LoneKeys(rows')
  BY RowsLone DEF Inv, Snapshot, Table, Waits, LoneKeys
<1>4. Snapshot'
  BY <1>2, <1>3, NextSnapshot
<1>5. Objects' /\ Memory'
  <2>1. caller + 1 \in Nat
    BY DEF Inv, Snapshot
  <2> QED BY <2>1, ServeKeepsObjects
<1> QED BY <1>1, <1>4, <1>5 DEF Inv

LEMMA DelayKeepsInv ==
  ASSUME Inv, NEW x \in DOMAIN objects, Delay(x),
         Sound(Members(objects, x), Links(objects, Ends(objects), x))
  PROVE  Inv'
<1> DEFINE M == Members(objects, x)
           links == Links(objects, Ends(objects), x)
           jobs == Connected(Built(M), M, links)
           stored == ~AllExist(jobs, M)
<1>1. CASE Refuses(Built(M), M, links)
  BY <1>1, RefusalKeepsInv DEF Delay
<1>2. CASE ~Refuses(Built(M), M, links)
  <2>1. /\ story' = story \cup {Call(x, M, stored)} /\ memory' = jobs
        /\ seen' = IF stored THEN Stored(jobs, M) ELSE seen
        /\ UNCHANGED <<caller, objects, ops, rows>>
    BY <1>2 DEF Delay
  <2>2. M \in SUBSET Nat /\ caller \in Nat /\ \A d \in M : Uuid(d) = <<caller, d>> /\ Uuid(d)[1] = caller
    BY DEF Sound, Inv, Snapshot, Uuid
  <2> DEFINE c == Call(x, M, stored)
  <2>3. c.jobs = {Uuid(d) : d \in M} /\ c.stored = stored
    BY DEF Call
  <2> HIDE DEF M, links, c
  <2>4. Sound(M, links)
    BY DEF M, links
  <2>5. Prepared(jobs)
    BY <1>2, <2>4, ConnectedMemory
  <2>6. AreConnected(jobs, M, links)
    BY <2>4, ConnectedIs
  <2> HIDE DEF jobs
  <2>7. Memory'
    BY <2>1, <2>5 DEF Prepared, Memory, Table, Waits, Uuid, KeyOf
  <2>8. Snapshot' /\ DOMAIN seen \subseteq DOMAIN seen' /\ (stored => \A d \in M : Uuid(d) \in DOMAIN seen')
    <3>1. CASE stored
      <4>1. seen' = Stored(jobs, M) /\ ~AllExist(jobs, M) /\ UNCHANGED <<caller, rows>>
        BY <2>1, <3>1
      <4> QED BY <1>2, <2>4, <4>1, StoredIs DEF jobs
    <3>2. CASE ~stored
      <4>1. UNCHANGED <<caller, rows, seen>>
        BY <2>1, <3>2
      <4> QED BY <3>2, <4>1 DEF Inv, Snapshot, Table, Waits, LoneKeys, KeyOf, Indexes
    <3> QED BY <3>1, <3>2
  <2>9. Calls'
    <3> SUFFICES ASSUME NEW call \in story', NEW u \in call.jobs
                 PROVE  /\ Indexes(u) /\ u[1] <= caller'
                        /\ call.stored => u \in DOMAIN seen'
                        /\ ~call.stored /\ (\A v \in call.jobs : KeyOf(v) # None) =>
                               \/ u \in DOMAIN seen'
                               \/ \E v \in DOMAIN seen' : v # u /\ v[1] <= u[1] /\ KeyOf(v) = KeyOf(u)
      BY DEF Calls, KeyOf, Indexes
    <3>1. CASE call \in story
      <4>1. /\ Indexes(u) /\ u[1] <= caller
            /\ call.stored => u \in DOMAIN seen
            /\ ~call.stored /\ (\A v \in call.jobs : KeyOf(v) # None) =>
                   \/ u \in DOMAIN seen
                   \/ \E v \in DOMAIN seen : v # u /\ v[1] <= u[1] /\ KeyOf(v) = KeyOf(u)
        BY <3>1 DEF Inv, Calls
      <4>2. caller' = caller /\ \A v \in DOMAIN seen : v \in DOMAIN seen'
        BY <2>1, <2>8
      <4>3. ASSUME ~call.stored, \A v \in call.jobs : KeyOf(v) # None
            PROVE  \/ u \in DOMAIN seen'
                   \/ \E v \in DOMAIN seen' : v # u /\ v[1] <= u[1] /\ KeyOf(v) = KeyOf(u)
        <5>1. CASE u \in DOMAIN seen
          BY <4>2, <5>1
        <5>2. CASE u \notin DOMAIN seen
          <6>1. PICK v \in DOMAIN seen : v # u /\ v[1] <= u[1] /\ KeyOf(v) = KeyOf(u)
            BY <4>1, <4>3, <5>2
          <6>2. v \in DOMAIN seen'
            BY <4>2
          <6> QED BY <6>1, <6>2
        <5> QED BY <5>1, <5>2
      <4>4. Indexes(u) /\ u[1] <= caller' /\ (call.stored => u \in DOMAIN seen')
        BY <4>1, <4>2
      <4> QED BY <4>3, <4>4
    <3>2. CASE call = c
      <4>1. PICK d \in M : u = Uuid(d)
        BY <2>3, <3>2
      <4>2. Indexes(u) /\ u[1] = caller /\ caller' = caller
        BY <2>1, <2>2, <4>1 DEF Indexes
      <4>3. stored => u \in DOMAIN seen'
        BY <2>8, <4>1
      <4>4. ASSUME ~stored, \A v \in call.jobs : KeyOf(v) # None
            PROVE  \/ u \in DOMAIN seen'
                   \/ \E v \in DOMAIN seen' : v # u /\ v[1] <= u[1] /\ KeyOf(v) = KeyOf(u)
        <5>1. d \in DOMAIN jobs /\ jobs[d].key = KeyOf(u) /\ KeyOf(u) # None
          BY <2>3, <2>6, <3>2, <4>1, <4>4 DEF AreConnected
        <5>2. Existing(jobs[d].key) # {}
          BY <4>4, <5>1 DEF AllExist
        <5>3. PICK v \in DOMAIN seen : seen[v].key = jobs[d].key
          BY <5>2 DEF Existing
        <5>4. v[1] <= caller /\ KeyOf(v) = KeyOf(u)
          BY <5>1, <5>3 DEF Inv, Snapshot
        <5>5. v \in DOMAIN seen'
          BY <2>8
        <5> QED BY <4>2, <5>4, <5>5
      <4>5. u[1] <= caller'
        BY <2>2, <4>2
      <4>6. call.stored = stored
        BY <2>3, <3>2
      <4> HIDE DEF stored
      <4> QED BY Zenon, <4>2, <4>3, <4>4, <4>5, <4>6
    <3> QED BY <2>1, <3>1, <3>2 DEF c
  <2>10. Objects'
    BY <2>1 DEF Inv, Objects
  <2> QED BY <2>7, <2>8, <2>9, <2>10 DEF Inv
<1> QED BY <1>1, <1>2

LEMMA CommitKeepsInv ==
  ASSUME Inv, Commit
  PROVE  Inv'
<1>1. /\ rows' = [u \in DOMAIN rows \cup Own(seen) |-> IF u \in Own(seen) THEN seen[u] ELSE rows[u]]
      /\ Serve(caller + 1, rows') /\ UNCHANGED story
  BY DEF Commit
<1>2. \A u \in Own(seen) : u \in DOMAIN seen /\ u[1] = caller
  BY DEF Own
<1>3. DOMAIN rows' = DOMAIN seen
  BY <1>1 DEF Own, Inv, Snapshot
<1>4. \A u \in DOMAIN rows' : rows'[u] = IF u \in Own(seen) THEN seen[u] ELSE rows[u]
  BY <1>1
<1>5. \A u \in DOMAIN rows' : u \in Own(seen) \/ u \in DOMAIN rows
  BY <1>1
<1>6. \A u \in DOMAIN rows' : Indexes(u) /\ u[1] <= caller /\ rows'[u].key = KeyOf(u)
  BY <1>2, <1>3, <1>4, <1>5 DEF Inv, Snapshot
<1>7. Table(rows') /\ Waits(rows')
  BY <1>2, <1>3, <1>4, <1>5 DEF Inv, Snapshot, Table, Waits
<1>8. LoneKeys(rows')
  <2>1. ASSUME NEW w \in DOMAIN rows', Lone(rows'[w])
        PROVE  w \in DOMAIN seen /\ Lone(seen[w]) /\ seen[w].key = rows'[w].key
    BY <1>3, <1>4, <1>5, <2>1 DEF Inv, Snapshot, Lone
  <2> QED BY <2>1 DEF Inv, Snapshot, LoneKeys
<1>9. Snapshot'
  BY <1>1, <1>6, <1>7, <1>8, NextSnapshot
<1>10. Calls'
  <2>1. \A call \in story' : \A u \in call.jobs : call.stored => u \in DOMAIN rows'
    BY <1>1, <1>3 DEF Inv, Calls
  <2>2. \A u \in DOMAIN rows : u \in DOMAIN rows'
    BY <1>1
  <2> QED BY <1>1, <1>3, <2>1, <2>2, NextCaller
<1>11. Objects' /\ Memory'
  <2>1. caller + 1 \in Nat
    BY DEF Inv, Snapshot
  <2> QED BY <1>1, <2>1, ServeKeepsObjects
<1> QED BY <1>9, <1>10, <1>11 DEF Inv

\* The runner and the workers only take jobs on: none that was delayed alone
\* becomes pending again.
LEMMA RowsKeepInv ==
  ASSUME Inv, UNCHANGED <<caller, objects, memory, seen, story>>, DOMAIN rows' = DOMAIN rows,
         \A u \in DOMAIN rows : /\ DOMAIN rows'[u] = Fields
                                /\ rows'[u].key = rows[u].key /\ rows'[u].graph = rows[u].graph
                                /\ rows'[u].state = "pending" => rows[u].state \in {"pending", "wait_dependencies"}
                                /\ rows'[u].state = "wait_dependencies" => rows[u].state = "wait_dependencies"
  PROVE  Inv'
<1>1. Snapshot'
  <2>1. \A u \in DOMAIN rows : rows'[u].state = "pending" /\ rows'[u].graph = None => seen[u].state = "pending"
    BY DEF Inv, Snapshot, Waits
  <2>2. Table(rows') /\ Waits(rows')
    BY DEF Inv, Snapshot, Table, Waits
  <2> QED BY <2>1, <2>2 DEF Inv, Snapshot, Table, Waits, LoneKeys, Lone, KeyOf, Indexes
<1>2. Memory' /\ Calls' /\ Objects'
  BY DEF Inv, Memory, Calls, Objects, Table, Waits, Uuid, KeyOf, Indexes
<1> QED BY <1>1, <1>2 DEF Inv

LEMMA RunKeepsInv ==
  ASSUME Inv, \/ \E u \in DOMAIN rows : Notify(u) \/ Start(u) \/ Finish(u)
              \/ UNCHANGED vars
  PROVE  Inv'
<1>0. \A u \in DOMAIN rows : DOMAIN rows[u] = Fields
  BY DEF Inv, Snapshot, Table
<1>1. ASSUME NEW u \in DOMAIN rows, Start(u) PROVE Inv'
  <2>1. rows' = [rows EXCEPT ![u].state = "started"] /\ UNCHANGED <<caller, objects, memory, seen, story>>
    BY <1>1 DEF Start, Update
  <2> QED BY <1>0, <2>1, RowsKeepInv DEF Fields
<1>2. ASSUME NEW u \in DOMAIN rows, Finish(u) PROVE Inv'
  <2> DEFINE done == [rows EXCEPT ![u].state = "done"]
             ready == {c \in rows[u].reverse : /\ rows[c].state = "wait_dependencies"
                                               /\ \A p \in rows[c].depends : done[p].state = "done"}
  <2>1. /\ rows' = [v \in DOMAIN rows |-> IF v \in ready THEN [done[v] EXCEPT !.state = "pending"] ELSE done[v]]
        /\ UNCHANGED <<caller, objects, memory, seen, story>>
    BY <1>2 DEF Finish, Update
  <2>2. \A v \in ready : rows[v].state = "wait_dependencies"
    OBVIOUS
  <2>3. \A v \in DOMAIN rows : /\ DOMAIN done[v] = Fields /\ done[v].key = rows[v].key
                               /\ done[v].graph = rows[v].graph
                               /\ done[v].state \in {rows[v].state, "done"}
    BY <1>0 DEF Fields
  <2> HIDE DEF done, ready
  <2>4. DOMAIN rows' = DOMAIN rows
    BY <2>1
  <2>5. ASSUME NEW v \in DOMAIN rows
        PROVE  /\ DOMAIN rows'[v] = Fields
               /\ rows'[v].key = rows[v].key /\ rows'[v].graph = rows[v].graph
               /\ rows'[v].state = "pending" => rows[v].state \in {"pending", "wait_dependencies"}
               /\ rows'[v].state = "wait_dependencies" => rows[v].state = "wait_dependencies"
    <3>1. CASE v \in ready
      <4>1. rows'[v] = [done[v] EXCEPT !.state = "pending"]
        BY <2>1, <3>1
      <4> QED BY <2>2, <2>3, <3>1, <4>1 DEF Fields
    <3>2. CASE v \notin ready
      <4>1. rows'[v] = done[v]
        BY <2>1, <3>2
      <4> QED BY <2>3, <4>1
    <3> QED BY <3>1, <3>2
  <2> QED BY <2>1, <2>4, <2>5, RowsKeepInv
<1>3. ASSUME NEW u \in DOMAIN rows, Notify(u) PROVE Inv'
  BY <1>0, <1>3, RowsKeepInv DEF Notify
<1>4. CASE UNCHANGED vars
  BY <1>0, <1>4, RowsKeepInv DEF vars
<1> QED BY <1>1, <1>2, <1>3, <1>4

-----------------------------------------------------------------------------
(* The caller builds its graphs. *)

\* What Objects says of one object among n of them.
Placed(o, x, n) ==
    /\ o \in Record
    /\ Vertices(o) \subseteq 1..n
    /\ o.kind = "delayable" => o.items = <<x>>
    /\ o.kind # "delayable" => o.items # << >> /\ \A i \in DOMAIN o.items : o.items[i] < x

LEMMA AllPlaced == Objects <=> /\ objects \in Seq(Record)
                               /\ \A x \in 1..Len(objects) : Placed(objects[x], x, Len(objects))
<1>1. ASSUME objects \in Seq(Record)
      PROVE  /\ DOMAIN objects = 1..Len(objects)
             /\ \A x \in DOMAIN objects : objects[x] \in Record
  BY <1>1
<1> QED BY <1>1 DEF Objects, Placed

\* An object of earlier ones is added.
LEMMA AddKeepsObjects ==
  ASSUME Objects, NEW o, Placed(o, Len(objects) + 1, Len(objects)), objects' = Append(objects, o)
  PROVE  Objects'
<1> DEFINE n == Len(objects)
<1>1. /\ objects \in Seq(Record) /\ n \in Nat
      /\ \A x \in 1..n : Placed(objects[x], x, n)
  BY AllPlaced
<1>2. o \in Record
  BY DEF Placed
<1>3. /\ objects' \in Seq(Record) /\ Len(objects') = n + 1 /\ objects'[n + 1] = o
      /\ \A x \in 1..n : objects'[x] = objects[x]
  BY <1>1, <1>2
<1>4. \A p, x : Placed(p, x, n) => Placed(p, x, n + 1)
  BY <1>1 DEF Placed
<1> HIDE DEF n
<1>5. \A x \in 1..(n + 1) : x = n + 1 \/ x \in 1..n
  BY <1>1
<1>6. \A x \in 1..(n + 1) : Placed(objects'[x], x, n + 1)
  BY <1>1, <1>3, <1>4, <1>5 DEF n
<1>7. DOMAIN objects' = 1..(n + 1) /\ \A x \in 1..(n + 1) : objects'[x] \in Record
  BY <1>1, <1>3
<1> QED BY <1>3, <1>6, <1>7 DEF Objects, Placed

LEMMA OnDoneKeepsObjects ==
  ASSUME Objects, NEW x \in DOMAIN objects, NEW Y \in SUBSET DOMAIN objects,
         objects' = OnDone(objects, x, Y)
  PROVE  Objects'
<1> DEFINE n == Len(objects)
           o == objects[x]
           parents == IF o.kind = "chain" THEN {Last(o.items)} ELSE Parents(o)
           new == [o EXCEPT !.edges = @ \cup (parents \X Y), !.then = @ \cup Y]
<1>1. /\ objects \in Seq(Record) /\ n \in Nat /\ DOMAIN objects = 1..n
      /\ \A z \in 1..n : Placed(objects[z], z, n)
  BY AllPlaced
<1>2. objects' = [objects EXCEPT ![x] = new]
  BY DEF OnDone
<1>3. o \in Record /\ Placed(o, x, n) /\ x \in Nat /\ Y \subseteq Nat
  BY <1>1 DEF Placed
<1>4. parents \subseteq ToSet(o.items)
  <2>1. CASE o.kind = "chain"
    <3>1. o.items \in Seq(Nat) /\ o.items # << >>
      BY <1>3, <2>1 DEF Placed, Record
    <3>2. Len(o.items) \in DOMAIN o.items
      BY <3>1
    <3> QED BY <2>1, <3>2 DEF Last, ToSet
  <2> QED BY <2>1 DEF Parents
<1>5. ToSet(o.items) \subseteq 1..n /\ 1..n \subseteq Nat
  BY <1>1, <1>3 DEF Placed, Vertices
<1> HIDE DEF parents, n
<1>6. /\ new \in Record /\ new.kind = o.kind /\ new.items = o.items
      /\ new.edges = o.edges \cup (parents \X Y)
  <2>1. parents \X Y \subseteq Nat \X Nat
    BY <1>3, <1>4, <1>5
  <2> HIDE DEF o
  <2> QED BY <1>3, <2>1 DEF Record
<1> HIDE DEF new
<1>7. Vertices(new) \subseteq 1..n
  <2>1. \A e \in new.edges : e \in o.edges \/ (e[1] \in parents /\ e[2] \in Y)
    BY <1>6
  <2>2. Vertices(o) \subseteq 1..n
    BY <1>3 DEF Placed
  <2>3. \A e \in new.edges : e[1] \in 1..n /\ e[2] \in 1..n
    BY <1>1, <1>4, <1>5, <2>1, <2>2 DEF Vertices
  <2> HIDE DEF o
  <2> QED BY <1>5, <1>6, <2>3 DEF Vertices
<1>8. Placed(new, x, n)
  BY <1>3, <1>6, <1>7 DEF Placed
<1> HIDE DEF o
<1>9. objects' \in Seq(Record) /\ DOMAIN objects' = 1..n
  BY <1>1, <1>2, <1>6
<1>10. \A z \in 1..n : Placed(objects'[z], z, n)
  BY <1>1, <1>2, <1>8
<1> QED BY <1>9, <1>10 DEF Objects, Placed

LEMMA BuildKeepsInv ==
  ASSUME Inv, NewChain \/ NewGroup \/ Connect
  PROVE  Inv'
<1> USE DEF Inv
<1> DEFINE n == Len(objects)
<1>0. DOMAIN objects = 1..n /\ n \in Nat
  BY AllPlaced
<1>1. ASSUME NEW new, Build(new), Objects' PROVE Inv'
  BY <1>1 DEF Build, Snapshot, Memory, Calls, Table, Waits, LoneKeys, Lone, KeyOf, Uuid, Indexes
<1>2. ASSUME NEW x \in 1..n, NEW y \in 1..n, NEW edges, edges \subseteq {<<x, y>>},
             NEW kind \in {"chain", "group"}
      PROVE  Placed(Object(kind, <<x, y>>, edges), n + 1, n)
  <2> DEFINE o == Object(kind, <<x, y>>, edges)
  <2>1. o.kind = kind /\ o.items = <<x, y>> /\ o.edges = edges /\ o.then = {}
    BY DEF Object
  <2>2. o \in Record
    BY <1>0, <1>2 DEF Object, Record, Kinds
  <2>3. ToSet(<<x, y>>) = {x, y}
    BY DEF ToSet
  <2> HIDE DEF o
  <2>4. Vertices(o) \subseteq 1..n
    BY <1>2, <2>1, <2>3 DEF Vertices
  <2>5. o.kind # "delayable" /\ o.items # << >> /\ \A i \in DOMAIN o.items : o.items[i] < n + 1
    BY <1>0, <2>1
  <2>6. Placed(o, n + 1, n)
    BY <2>2, <2>4, <2>5 DEF Placed
  <2> QED BY <2>6 DEF o
<1>3. \A x, y : Pairs(<<x, y>>) = {<<x, y>>}
  BY DEF Pairs
<1>4. Loose \subseteq 1..n
  BY <1>0 DEF Loose
<1>5. CASE NewChain
  <2>1. PICK x, y \in 1..n : Build(Append(objects, Chain(<<x, y>>)))
    BY <1>4, <1>5 DEF NewChain
  <2>2. Placed(Chain(<<x, y>>), n + 1, n)
    BY <1>2, <1>3 DEF Chain
  <2>3. Objects'
    BY <2>1, <2>2, AddKeepsObjects DEF Build
  <2> QED BY <1>1, <2>1, <2>3
<1>6. CASE NewGroup
  <2>1. PICK x, y \in 1..n : Build(Append(objects, Group(<<x, y>>)))
    BY <1>4, <1>6 DEF NewGroup
  <2>2. Placed(Group(<<x, y>>), n + 1, n)
    BY <1>2 DEF Group
  <2>3. Objects'
    BY <2>1, <2>2, AddKeepsObjects DEF Build
  <2> QED BY <1>1, <2>1, <2>3
<1>7. CASE Connect
  <2>1. PICK x \in DOMAIN objects : \E Y \in SUBSET DOMAIN objects : Build(OnDone(objects, x, Y))
    BY <1>7 DEF Connect
  <2>2. PICK Y \in SUBSET DOMAIN objects : Build(OnDone(objects, x, Y))
    BY <2>1
  <2>3. Objects'
    BY <2>2, OnDoneKeepsObjects DEF Build
  <2> QED BY <1>1, <2>2, <2>3
<1> QED BY <1>5, <1>6, <1>7

-----------------------------------------------------------------------------
(* The graph that an object is made into.  The functions that compute it are *)
(* recursive; that there are such functions is shown by a fixed point.       *)

LEMMA FixedPoint ==
  ASSUME NEW U, NEW T \in [SUBSET U -> SUBSET U],
         \A R, S \in SUBSET U : R \subseteq S => T[R] \subseteq T[S]
  PROVE  \E L \in SUBSET U : T[L] = L
<1> DEFINE L == {u \in U : \A R \in SUBSET U : T[R] \subseteq R => u \in R}
<1>1. L \in SUBSET U /\ T[L] \in SUBSET U
  OBVIOUS
<1>2. ASSUME NEW R \in SUBSET U, T[R] \subseteq R PROVE L \subseteq R
  BY <1>2
<1>3. \A u \in U : (\A R \in SUBSET U : T[R] \subseteq R => u \in R) => u \in L
  OBVIOUS
<1> HIDE DEF L
<1>4. ASSUME NEW R \in SUBSET U, T[R] \subseteq R PROVE T[L] \subseteq R
  BY <1>1, <1>2, <1>4
<1>5. T[L] \subseteq L
  BY <1>1, <1>3, <1>4
<1>6. T[T[L]] \subseteq T[L]
  BY <1>1, <1>5
<1>7. L \subseteq T[L]
  BY <1>1, <1>2, <1>6
<1>8. T[L] = L
  BY <1>5, <1>7
<1> QED BY <1>1, <1>8

Reaching(f, x) ==
    f = [k \in Nat |-> IF k = 0 THEN {x}
                       ELSE f[k - 1] \cup UNION {Vertices(objects[y]) : y \in f[k - 1]}]

LEMMA VisitedIs ==
  ASSUME Objects, NEW x \in DOMAIN objects
  PROVE  \E f : Reaching(f, x) /\ Visited(objects, x) = f[Len(objects)]
<1> DEFINE D == DOMAIN objects
           U == Nat \X D
           Next1(R, u) == IF u[1] = 0 THEN u[2] = x
                          ELSE \/ <<u[1] - 1, u[2]>> \in R
                               \/ \E y \in D : <<u[1] - 1, y>> \in R /\ u[2] \in Vertices(objects[y])
           T == [R \in SUBSET U |-> {u \in U : Next1(R, u)}]
<1>1. T \in [SUBSET U -> SUBSET U]
  OBVIOUS
<1>2. \A R, S \in SUBSET U : R \subseteq S => T[R] \subseteq T[S]
  OBVIOUS
<1>3. \A R \in SUBSET U : \A u \in U : u \in T[R] <=> Next1(R, u)
  OBVIOUS
<1> HIDE DEF T, Next1
<1>4. PICK L \in SUBSET U : T[L] = L
  BY <1>1, <1>2, FixedPoint
<1>5. \A u \in U : u \in L <=> Next1(L, u)
  BY <1>3, <1>4
<1> DEFINE f == [k \in Nat |-> {z \in D : <<k, z>> \in L}]
<1>6. f[0] = {x}
  <2>1. \A z \in D : <<0, z>> \in L <=> z = x
    BY <1>5 DEF Next1
  <2> QED BY <2>1
<1>7. ASSUME NEW k \in Nat, k # 0
      PROVE  f[k] = f[k - 1] \cup UNION {Vertices(objects[y]) : y \in f[k - 1]}
  <2>1. k - 1 \in Nat
    BY <1>7
  <2>2. \A z \in D : z \in f[k - 1] <=> <<k - 1, z>> \in L
    BY <2>1
  <2>3. \A z \in D : <<k, z>> \in L <=> (<<k - 1, z>> \in L \/ \E y \in D : <<k - 1, y>> \in L /\ z \in Vertices(objects[y]))
    BY <1>5, <1>7 DEF Next1
  <2>4. \A y \in D : Vertices(objects[y]) \subseteq D
    BY DEF Objects
  <2>5. f[k - 1] \subseteq D /\ f[k] = {z \in D : <<k, z>> \in L}
    BY <2>1
  <2> HIDE DEF f, D
  <2> QED BY <2>2, <2>3, <2>4, <2>5
<1>8. Reaching(f, x)
  <2>1. \A k \in Nat : f[k] = IF k = 0 THEN {x} ELSE f[k - 1] \cup UNION {Vertices(objects[y]) : y \in f[k - 1]}
    BY <1>6, <1>7
  <2>2. f = [k \in Nat |-> f[k]]
    OBVIOUS
  <2> HIDE DEF f
  <2> QED BY <2>1, <2>2 DEF Reaching
<1>9. Visited(objects, x) = (CHOOSE g : Reaching(g, x))[Len(objects)]
  BY Zenon DEF Visited, Reaching
<1>10. Reaching((CHOOSE g : Reaching(g, x)), x)
  BY <1>8
<1> QED BY <1>9, <1>10

LEMMA Induction ==
  ASSUME NEW Q, 0 \in Q, \A k \in Nat : k \in Q => k + 1 \in Q
  PROVE  \A k \in Nat : k \in Q
<1> DEFINE Gaps == Nat \ Q
<1> SUFFICES ASSUME Gaps # {} PROVE FALSE
  OBVIOUS
<1>1. PICK k \in Gaps : \A j \in Gaps : k <= j
  BY Smallest
<1>2. k - 1 \in Nat /\ k - 1 \notin Gaps
  BY <1>1
<1>3. (k - 1) + 1 = k
  BY <1>1
<1> QED BY <1>1, <1>2, <1>3

\* As many rounds as there are objects are enough to find all of them.
LEMMA VisitedIsClosed ==
  ASSUME Objects, NEW x \in DOMAIN objects
  PROVE  /\ Visited(objects, x) \subseteq DOMAIN objects
         /\ \A y \in Visited(objects, x) : Vertices(objects[y]) \subseteq Visited(objects, x)
<1> DEFINE D == DOMAIN objects
           n == Len(objects)
           V(y) == Vertices(objects[y])
<1>1. n \in Nat /\ D = 1..n /\ \A y \in D : V(y) \subseteq D
  BY DEF Objects
<1>2. PICK f : Reaching(f, x) /\ Visited(objects, x) = f[n]
  BY VisitedIs
<1> HIDE DEF D, n
<1>3. f[0] = {x}
  BY <1>2 DEF Reaching
<1>4. ASSUME NEW k \in Nat PROVE f[k + 1] = f[k] \cup UNION {V(y) : y \in f[k]}
  <2>1. k + 1 \in Nat /\ k + 1 # 0 /\ (k + 1) - 1 = k
    OBVIOUS
  <2>2. f[k + 1] = f[(k + 1) - 1] \cup UNION {Vertices(objects[y]) : y \in f[(k + 1) - 1]}
    BY <1>2, <2>1 DEF Reaching
  <2> QED BY <2>1, <2>2
<1> HIDE DEF V
<1>5. \A k \in Nat : f[k] \subseteq D
  <2> DEFINE Q == {k \in Nat : f[k] \subseteq D}
  <2>1. 0 \in Q
    BY <1>3 DEF D
  <2>2. ASSUME NEW k \in Nat, k \in Q PROVE k + 1 \in Q
    BY <1>1, <1>4, <2>2
  <2> HIDE DEF Q
  <2>3. \A k \in Nat : k \in Q
    BY <2>1, <2>2, Induction
  <2> QED BY <2>3 DEF Q
<1>6. \A k \in Nat : f[k] \subseteq f[k + 1]
  BY <1>4
<1>7. \A y \in f[n] : V(y) \subseteq f[n]
  <2> SUFFICES ASSUME NEW y \in f[n], ~(V(y) \subseteq f[n]) PROVE FALSE
    OBVIOUS
  <2>1. f[n + 1] # f[n]
    BY <1>1, <1>4
  <2>2. ASSUME NEW k \in 0..n PROVE f[k + 1] # f[k]
    <3> SUFFICES ASSUME f[k + 1] = f[k] PROVE FALSE
      OBVIOUS
    <3> DEFINE Q == {j \in Nat : f[(k + j) + 1] = f[k + j]}
    <3>0. k \in Nat
      BY <1>1
    <3>1. 0 \in Q
      BY <3>0
    <3>2. ASSUME NEW j \in Nat, j \in Q PROVE j + 1 \in Q
      <4>1. k + j \in Nat /\ (k + j) + 1 \in Nat /\ k + (j + 1) = (k + j) + 1
        BY <3>0
      <4>2. f[(k + j) + 1] = f[k + j]
        BY <3>2
      <4>3. f[((k + j) + 1) + 1] = f[(k + j) + 1]
        <5>1. f[((k + j) + 1) + 1] = f[(k + j) + 1] \cup UNION {V(z) : z \in f[(k + j) + 1]}
          BY <1>4, <4>1
        <5>2. f[(k + j) + 1] = f[k + j] \cup UNION {V(z) : z \in f[k + j]}
          BY <1>4, <4>1
        <5> QED BY <4>2, <5>1, <5>2
      <4> QED BY <4>1, <4>3
    <3> HIDE DEF Q
    <3>3. n - k \in Q
      <4>1. n - k \in Nat
        BY <1>1
      <4> QED BY <3>1, <3>2, <4>1, Induction
    <3>4. k + (n - k) = n
      BY <1>1, <3>0
    <3> QED BY <2>1, <3>3, <3>4 DEF Q
  <2>3. IsFiniteSet(D) /\ Cardinality(D) = n
    BY <1>1, FS_Interval
  <2>4. \A k \in Nat : IsFiniteSet(f[k]) /\ Cardinality(f[k]) \in Nat
    BY <1>5, <2>3, FS_Subset, FS_CardinalityType
  <2> DEFINE P == {k \in Nat : k <= n => Cardinality(f[k]) >= k + 1}
  <2>5. 0 \in P
    BY <1>3, FS_Singleton
  <2>6. ASSUME NEW k \in Nat, k \in P PROVE k + 1 \in P
    <3> SUFFICES ASSUME k + 1 <= n PROVE Cardinality(f[k + 1]) >= (k + 1) + 1
      OBVIOUS
    <3>1. k \in 0..n /\ k <= n /\ k + 1 \in Nat
      BY <1>1
    <3>2. Cardinality(f[k]) >= k + 1
      BY <2>6, <3>1
    <3>3. f[k] # f[k + 1] /\ f[k] \in SUBSET f[k + 1]
      BY <1>6, <2>2, <3>1
    <3>4. Cardinality(f[k]) <= Cardinality(f[k + 1]) /\ Cardinality(f[k]) # Cardinality(f[k + 1])
      BY <2>4, <3>1, <3>3, FS_Subset
    <3>5. Cardinality(f[k]) \in Nat /\ Cardinality(f[k + 1]) \in Nat
      BY <2>4, <3>1
    <3> QED BY <3>2, <3>4, <3>5
  <2> HIDE DEF P
  <2>7. n \in P
    BY <1>1, <2>5, <2>6, Induction
  <2>8. Cardinality(f[n]) >= n + 1
    BY <1>1, <2>7 DEF P
  <2>9. Cardinality(f[n]) <= n
    <3>1. f[n] \in SUBSET D
      BY <1>1, <1>5
    <3> QED BY <2>3, <3>1, FS_Subset
  <2>10. Cardinality(f[n]) \in Nat
    BY <1>1, <2>4
  <2> QED BY <1>1, <2>8, <2>9, <2>10
<1> QED BY <1>1, <1>2, <1>5, <1>7 DEF D, V

\* The ends of the objects, those of a chain crossed as _head and _tail take
\* them or as the documentation says.
Ending(f, crossed) ==
    f = [x \in DOMAIN objects |->
            LET o == objects[x]
            IN IF o.kind = "delayable" THEN [head |-> {x}, tail |-> {x}]
               ELSE IF o.kind = "chain"
               THEN IF crossed THEN [head |-> f[Head(o.items)].tail, tail |-> f[Last(o.items)].head]
                    ELSE [head |-> f[Head(o.items)].head, tail |-> f[Last(o.items)].tail]
               ELSE [head |-> UNION {f[i].head : i \in ToSet(o.items)},
                     tail |-> UNION {f[i].tail : i \in ToSet(o.items)}]]

\* The items of a chain or group are objects.
LEMMA ItemsAre ==
  ASSUME Objects, NEW x \in DOMAIN objects
  PROVE  /\ x \in Nat
         /\ \A i \in ToSet(objects[x].items) : i \in DOMAIN objects /\ i \in Vertices(objects[x])
         /\ objects[x].kind # "delayable" =>
                /\ \A i \in ToSet(objects[x].items) : i < x
                /\ Head(objects[x].items) \in ToSet(objects[x].items)
                /\ Last(objects[x].items) \in ToSet(objects[x].items)
<1> DEFINE o == objects[x]
<1>1. /\ x \in Nat /\ o \in Record /\ Vertices(o) \subseteq DOMAIN objects
      /\ o.kind # "delayable" => o.items # << >> /\ \A i \in DOMAIN o.items : o.items[i] < x
  BY DEF Objects
<1> HIDE DEF o
<1>2. o.items \in Seq(Nat)
  BY <1>1 DEF Record
<1>3. ToSet(o.items) = {o.items[i] : i \in DOMAIN o.items}
  BY DEF ToSet
<1>4. o.items # << >> => /\ 1 \in DOMAIN o.items /\ Head(o.items) = o.items[1]
                         /\ Len(o.items) \in DOMAIN o.items /\ Last(o.items) = o.items[Len(o.items)]
  BY <1>2 DEF Last
<1>5. ToSet(o.items) \subseteq Vertices(o)
  BY DEF Vertices
<1>6. o.kind # "delayable" => /\ \A i \in ToSet(o.items) : i < x
                              /\ Head(o.items) \in ToSet(o.items) /\ Last(o.items) \in ToSet(o.items)
  BY <1>1, <1>3, <1>4
<1> QED BY <1>1, <1>5, <1>6 DEF o

LEMMA EndsExist ==
  ASSUME Objects, NEW crossed \in BOOLEAN
  PROVE  \E f : Ending(f, crossed)
<1> DEFINE D == DOMAIN objects
           Sides == {"head", "tail"}
           U == D \X Sides \X D
           first == IF crossed THEN "tail" ELSE "head"
           last == IF crossed THEN "head" ELSE "tail"
           At(R, u) ==
             IF objects[u[1]].kind = "delayable" THEN u[3] = u[1]
             ELSE IF objects[u[1]].kind = "chain"
             THEN \/ u[2] = "head" /\ <<Head(objects[u[1]].items), first, u[3]>> \in R
                  \/ u[2] = "tail" /\ <<Last(objects[u[1]].items), last, u[3]>> \in R
             ELSE \E i \in ToSet(objects[u[1]].items) : <<i, u[2], u[3]>> \in R
           T == [R \in SUBSET U |-> {u \in U : At(R, u)}]
<1>1. T \in [SUBSET U -> SUBSET U]
  OBVIOUS
<1> HIDE DEF first, last
<1>2. \A R, S \in SUBSET U : R \subseteq S => T[R] \subseteq T[S]
  OBVIOUS
<1>3. \A R \in SUBSET U : \A u \in U : u \in T[R] <=> At(R, u)
  OBVIOUS
<1> HIDE DEF T, At
<1>4. PICK L \in SUBSET U : T[L] = L
  BY <1>1, <1>2, FixedPoint
<1>5. ASSUME NEW x \in D, NEW s \in Sides, NEW z \in D
      PROVE  <<x, s, z>> \in L <=> At(L, <<x, s, z>>)
  BY <1>3, <1>4
<1> DEFINE Side(x, s) == {z \in D : <<x, s, z>> \in L}
           E == [x \in D |-> [head |-> Side(x, "head"), tail |-> Side(x, "tail")]]
<1>6. \A x \in D : E[x].head = Side(x, "head") /\ E[x].tail = Side(x, "tail")
  OBVIOUS
<1>7. ASSUME NEW x \in D
      PROVE  E[x] = LET o == objects[x]
                    IN IF o.kind = "delayable" THEN [head |-> {x}, tail |-> {x}]
                       ELSE IF o.kind = "chain"
                       THEN IF crossed THEN [head |-> E[Head(o.items)].tail, tail |-> E[Last(o.items)].head]
                            ELSE [head |-> E[Head(o.items)].head, tail |-> E[Last(o.items)].tail]
                       ELSE [head |-> UNION {E[i].head : i \in ToSet(o.items)},
                             tail |-> UNION {E[i].tail : i \in ToSet(o.items)}]
  <2> DEFINE o == objects[x]
  <2>1. /\ \A i \in ToSet(o.items) : i \in D
        /\ o.kind # "delayable" => Head(o.items) \in D /\ Last(o.items) \in D
    BY ItemsAre
  <2>2. E[x] = [head |-> Side(x, "head"), tail |-> Side(x, "tail")]
    OBVIOUS
  <2>3. \A z \in D : \A s \in Sides : <<x, s, z>> \in L <=> At(L, <<x, s, z>>)
    BY <1>5
  <2> HIDE DEF D, o
  <2>4. CASE o.kind = "delayable"
    <3>1. \A s \in Sides : Side(x, s) = {x}
      BY <2>3, <2>4 DEF At, o
    <3> QED BY <2>2, <2>4, <3>1 DEF o
  <2>5. CASE o.kind = "chain"
    <3>1. Side(x, "head") = Side(Head(o.items), first) /\ Side(x, "tail") = Side(Last(o.items), last)
      <4>1. \A z \in D : <<x, "head", z>> \in L <=> <<Head(o.items), first, z>> \in L
        BY <2>3, <2>5 DEF At, o
      <4>2. \A z \in D : <<x, "tail", z>> \in L <=> <<Last(o.items), last, z>> \in L
        BY <2>3, <2>5 DEF At, o
      <4> QED BY <4>1, <4>2
    <3>2. /\ E[Head(o.items)].head = Side(Head(o.items), "head")
          /\ E[Head(o.items)].tail = Side(Head(o.items), "tail")
          /\ E[Last(o.items)].head = Side(Last(o.items), "head")
          /\ E[Last(o.items)].tail = Side(Last(o.items), "tail")
      BY <1>6, <2>1, <2>5
    <3> HIDE DEF E, Side
    <3>3. CASE crossed
      BY <2>2, <2>5, <3>1, <3>2, <3>3 DEF o, first, last
    <3>4. CASE ~crossed
      BY <2>2, <2>5, <3>1, <3>2, <3>4 DEF o, first, last
    <3> QED BY <3>3, <3>4
  <2>6. CASE o.kind # "delayable" /\ o.kind # "chain"
    <3>1. \A s \in Sides : Side(x, s) = UNION {Side(i, s) : i \in ToSet(o.items)}
      <4>1. ASSUME NEW s \in Sides, NEW z \in D
            PROVE  z \in Side(x, s) <=> \E i \in ToSet(o.items) : z \in Side(i, s)
        <5>1. <<x, s, z>> \in L <=> \E i \in ToSet(o.items) : <<i, s, z>> \in L
          BY <2>3, <2>6 DEF At, o
        <5> QED BY <5>1
      <4>2. \A i, s : Side(i, s) \subseteq D
        OBVIOUS
      <4> HIDE DEF Side
      <4> QED BY <4>1, <4>2
    <3>2. /\ UNION {E[i].head : i \in ToSet(o.items)} = UNION {Side(i, "head") : i \in ToSet(o.items)}
          /\ UNION {E[i].tail : i \in ToSet(o.items)} = UNION {Side(i, "tail") : i \in ToSet(o.items)}
      <4>1. \A i \in ToSet(o.items) : E[i].head = Side(i, "head") /\ E[i].tail = Side(i, "tail")
        BY <1>6, <2>1
      <4> HIDE DEF E, Side
      <4> QED BY <4>1
    <3> HIDE DEF E, Side
    <3> QED BY <2>2, <2>6, <3>1, <3>2 DEF o
  <2> QED BY <2>4, <2>5, <2>6
<1>8. Ending(E, crossed)
  <2>1. E = [x \in D |-> E[x]]
    OBVIOUS
  <2> HIDE DEF E
  <2> QED BY <1>7, <2>1 DEF Ending
<1> QED BY <1>8

LEMMA EndsAre ==
  ASSUME Objects
  PROVE  Ending(Ends(objects), TRUE) /\ Ending(DocumentedEnds(objects), FALSE)
<1> DEFINE Crossed(f) ==
             f = [x \in DOMAIN objects |->
                    LET o == objects[x]
                    IN IF o.kind = "delayable" THEN [head |-> {x}, tail |-> {x}]
                       ELSE IF o.kind = "chain"
                       THEN [head |-> f[Head(o.items)].tail, tail |-> f[Last(o.items)].head]
                       ELSE [head |-> UNION {f[i].head : i \in ToSet(o.items)},
                             tail |-> UNION {f[i].tail : i \in ToSet(o.items)}]]
           Straight(f) ==
             f = [x \in DOMAIN objects |->
                    LET o == objects[x]
                    IN IF o.kind = "delayable" THEN [head |-> {x}, tail |-> {x}]
                       ELSE IF o.kind = "chain"
                       THEN [head |-> f[Head(o.items)].head, tail |-> f[Last(o.items)].tail]
                       ELSE [head |-> UNION {f[i].head : i \in ToSet(o.items)},
                             tail |-> UNION {f[i].tail : i \in ToSet(o.items)}]]
<1>1. \A f : (Ending(f, TRUE) <=> Crossed(f)) /\ (Ending(f, FALSE) <=> Straight(f))
  BY DEF Ending
<1>2. (\E f : Crossed(f)) /\ (\E f : Straight(f))
  <2>1. (\E f : Ending(f, TRUE)) /\ (\E f : Ending(f, FALSE))
    BY EndsExist
  <2> HIDE DEF Crossed, Straight
  <2> QED BY Zenon, <1>1, <2>1
<1>3. Ends(objects) = (CHOOSE f : Crossed(f)) /\ DocumentedEnds(objects) = (CHOOSE f : Straight(f))
  BY Zenon DEF Ends, DocumentedEnds
<1> HIDE DEF Crossed, Straight
<1>4. Crossed(CHOOSE f : Crossed(f)) /\ Straight(CHOOSE f : Straight(f))
  BY <1>2
<1> QED BY <1>1, <1>3, <1>4

\* The ends of an object are delayables that it is made of.
LEMMA EndsAreVisited ==
  ASSUME Objects, NEW V \in SUBSET DOMAIN objects, \A y \in V : Vertices(objects[y]) \subseteq V,
         NEW E, NEW crossed \in BOOLEAN, Ending(E, crossed)
  PROVE  \A y \in V : /\ E[y].head \subseteq {v \in V : objects[v].kind = "delayable"}
                      /\ E[y].tail \subseteq {v \in V : objects[v].kind = "delayable"}
<1> DEFINE M == {v \in V : objects[v].kind = "delayable"}
           Good(y) == E[y].head \subseteq M /\ E[y].tail \subseteq M
           Bad == {y \in V : ~Good(y)}
<1> HIDE DEF M
<1> SUFFICES ASSUME Bad # {} PROVE FALSE
  BY DEF M
<1>2. Bad \in SUBSET Nat
  BY DEF Objects
<1>3. PICK y \in Bad : \A z \in Bad : y <= z
  BY <1>2, Smallest
<1> DEFINE o == objects[y]
<1>4. /\ y \in V /\ y \in Nat /\ y \in DOMAIN objects
      /\ o.kind # "delayable" => /\ \A i \in ToSet(o.items) : i < y
                                 /\ Head(o.items) \in ToSet(o.items) /\ Last(o.items) \in ToSet(o.items)
      /\ \A i \in ToSet(o.items) : i \in V /\ i \in Nat
  <2>1. y \in V /\ y \in DOMAIN objects
    BY <1>3
  <2> QED BY <2>1, ItemsAre
<1>5. E[y] = IF o.kind = "delayable" THEN [head |-> {y}, tail |-> {y}]
             ELSE IF o.kind = "chain"
             THEN IF crossed THEN [head |-> E[Head(o.items)].tail, tail |-> E[Last(o.items)].head]
                  ELSE [head |-> E[Head(o.items)].head, tail |-> E[Last(o.items)].tail]
             ELSE [head |-> UNION {E[i].head : i \in ToSet(o.items)},
                   tail |-> UNION {E[i].tail : i \in ToSet(o.items)}]
  BY <1>4 DEF Ending
<1> HIDE DEF Good, o
<1>6. o.kind # "delayable" => \A i \in ToSet(o.items) : Good(i)
  <2> SUFFICES ASSUME o.kind # "delayable", NEW i \in ToSet(o.items), ~Good(i) PROVE FALSE
    OBVIOUS
  <2>1. i < y /\ i \in Nat /\ i \in V
    BY <1>4
  <2>2. y <= i
    BY <1>3, <2>1
  <2> QED BY <1>4, <2>1, <2>2
<1>7. Good(y)
  <2>1. CASE o.kind = "delayable"
    <3>1. y \in M
      BY <1>4, <2>1 DEF o, M
    <3> QED BY <1>5, <2>1, <3>1 DEF Good
  <2>2. CASE o.kind = "chain"
    <3>1. Good(Head(o.items)) /\ Good(Last(o.items))
      BY <1>4, <1>6, <2>2
    <3> QED BY <1>5, <2>2, <3>1 DEF Good
  <2>3. CASE o.kind # "delayable" /\ o.kind # "chain"
    <3>1. \A i \in ToSet(o.items) : E[i].head \subseteq M /\ E[i].tail \subseteq M
      BY <1>6, <2>3 DEF Good
    <3>2. UNION {E[i].head : i \in ToSet(o.items)} \subseteq M /\ UNION {E[i].tail : i \in ToSet(o.items)} \subseteq M
      BY <3>1
    <3> QED BY <1>5, <2>3, <3>2 DEF Good
  <2> QED BY <2>1, <2>2, <2>3
<1> QED BY <1>3, <1>7

\* The jobs of an object are of some of its delayables, and linked among
\* themselves.
LEMMA GraphIsSound ==
  ASSUME Objects, NEW x \in DOMAIN objects
  PROVE  Sound(Members(objects, x), Links(objects, Ends(objects), x))
<1> DEFINE V == Visited(objects, x)
           M == {v \in V : objects[v].kind = "delayable"}
           E == Ends(objects)
<1>1. Members(objects, x) = M
  BY DEF Members
<1>2. V \in SUBSET DOMAIN objects /\ \A y \in V : Vertices(objects[y]) \subseteq V
  BY VisitedIsClosed
<1>3. \A y \in V : E[y].head \subseteq M /\ E[y].tail \subseteq M
  BY <1>2, EndsAre, EndsAreVisited
<1>4. Links(objects, E, x) = UNION {UNION {E[e[1]].tail \X E[e[2]].head : e \in objects[y].edges} : y \in V}
  BY DEF Links
<1>5. M \subseteq Nat /\ IsFiniteSet(M)
  <2>1. DOMAIN objects = 1..Len(objects) /\ Len(objects) \in Nat
    BY DEF Objects
  <2>2. IsFiniteSet(1..Len(objects))
    BY <2>1, FS_Interval
  <2>3. M \in SUBSET (1..Len(objects))
    BY <1>2, <2>1
  <2>4. IsFiniteSet(M)
    BY <2>2, <2>3, FS_Subset
  <2> QED BY <2>1, <2>3, <2>4
<1>6. ASSUME NEW y \in V, NEW e \in objects[y].edges
      PROVE  E[e[1]].tail \X E[e[2]].head \subseteq M \X M
  <2>1. e[1] \in V /\ e[2] \in V
    BY <1>2 DEF Vertices
  <2> QED BY <1>3, <2>1
<1> HIDE DEF M, E, V
<1>7. Links(objects, E, x) \subseteq M \X M
  BY <1>4, <1>6
<1> QED BY <1>1, <1>5, <1>7 DEF Sound, E

-----------------------------------------------------------------------------
(* The theorems. *)

LEMMA InvHolds == Spec => []Inv
<1>1. Init => Inv
  BY InitInv
<1>2. Inv /\ [Next]_vars => Inv'
  <2> SUFFICES ASSUME Inv, [Next]_vars PROVE Inv'
    OBVIOUS
  <2>1. CASE NewChain \/ NewGroup \/ Connect
    BY <2>1, BuildKeepsInv
  <2>2. ASSUME NEW x \in DOMAIN objects, Delay(x) PROVE Inv'
    <3>1. Sound(Members(objects, x), Links(objects, Ends(objects), x))
      BY GraphIsSound DEF Inv
    <3> QED BY <2>2, <3>1, DelayKeepsInv
  <2>3. CASE Commit
    BY <2>3, CommitKeepsInv
  <2>4. CASE \E u \in DOMAIN rows : Notify(u) \/ Start(u) \/ Finish(u)
    BY <2>4, RunKeepsInv
  <2>5. CASE UNCHANGED vars
    BY <2>5, RunKeepsInv
  <2> QED BY <2>1, <2>2, <2>3, <2>4, <2>5 DEF Next
<1> QED BY <1>1, <1>2, PTL DEF Spec

\* A job that was asked for is stored when its caller is done, or one of its
\* identity key is: delay() leaves jobs out only where each has its key there.
THEOREM DelayedIsKept == Spec => []NoJobLost
<1>1. Inv => NoJobLost
  <2> SUFFICES ASSUME Inv, NEW call \in story, NEW u \in call.jobs, u[1] < caller,
                      \A v \in call.jobs : KeyOf(v) # None
               PROVE  \/ u \in DOMAIN rows
                      \/ \E v \in DOMAIN rows : v # u /\ rows[v].key = KeyOf(u)
    BY DEF NoJobLost
  <2>1. /\ Indexes(u)
        /\ call.stored => u \in DOMAIN seen
        /\ ~call.stored => \/ u \in DOMAIN seen
                           \/ \E v \in DOMAIN seen : v # u /\ v[1] <= u[1] /\ KeyOf(v) = KeyOf(u)
    BY DEF Inv, Calls
  <2>2. caller \in Nat /\ u[1] \in Nat
    BY <2>1 DEF Inv, Snapshot, Indexes
  <2>3. \A v \in DOMAIN seen : v[1] # caller => v \in DOMAIN rows /\ rows[v].key = KeyOf(v)
    BY DEF Inv, Snapshot
  <2>4. \A v \in DOMAIN seen : v[1] \in Nat
    BY DEF Inv, Snapshot, Indexes
  <2>5. CASE u \in DOMAIN seen
    BY <2>2, <2>3, <2>5
  <2>6. CASE u \notin DOMAIN seen
    <3>1. PICK v \in DOMAIN seen : v # u /\ v[1] <= u[1] /\ KeyOf(v) = KeyOf(u)
      BY <2>1, <2>6
    <3>2. v[1] # caller
      BY <2>2, <2>4, <3>1
    <3> QED BY <2>3, <3>1, <3>2
  <2> QED BY <2>5, <2>6
<1> QED BY <1>1, InvHolds, PTL

\* Two jobs of one identity key, each delayed alone, never wait together.
THEOREM KeysAreUnique == Spec => []OnePerKey
<1>1. Inv => OnePerKey
  BY RowsLone DEF OnePerKey, LoneKeys, Lone
<1> QED BY <1>1, InvHolds, PTL

-----------------------------------------------------------------------------
(* What the jobs depend on. *)

\* The items that what is given to on_done is connected to.
Ended(o) == IF o.kind = "chain" THEN {Last(o.items)} ELSE Parents(o)

Spanned ==
    \A x \in DOMAIN objects :
        objects[x].edges = (Ended(objects[x]) \X objects[x].then)
                           \cup (IF objects[x].kind = "chain" THEN Pairs(objects[x].items) ELSE {})

\* A job that a call of the caller did not store.
LeftOut(u) == \E call \in story : ~call.stored /\ u \in call.jobs

\* The jobs in memory are those in the table, but for what was left out.
Drafts ==
    /\ \A u \in DOMAIN seen : u[1] = caller => u[2] \in DOMAIN memory
    /\ \A d \in DOMAIN memory : ~LeftOut(Uuid(d)) => Uuid(d) \in DOMAIN seen /\ seen[Uuid(d)] = memory[d]

Requests ==
    \A call \in story :
        /\ call.links \subseteq call.jobs \X call.jobs
        /\ \A u, v \in call.jobs : u[1] = v[1]
        /\ \A u \in call.jobs : u[1] = caller => u[2] \in DOMAIN memory

\* Jobs know their parents and children, which are in the table and their graph.
Joined(t) ==
    \A u \in DOMAIN t :
        /\ \A p \in t[u].depends : /\ p \in DOMAIN t /\ u \in t[p].reverse
                                   /\ t[u].graph = t[p].graph /\ t[u].graph # None
        /\ \A c \in t[u].reverse : c \in DOMAIN t /\ u \in t[c].depends

Alike == \A u \in DOMAIN rows : rows[u].depends = seen[u].depends /\ rows[u].reverse = seen[u].reverse

Promised ==
    \A u \in DOMAIN seen :
        (\A call \in story : u \in call.jobs => ~call.nested) => seen[u].depends = Documented(u)

Dependencies == Spanned /\ Drafts /\ Requests /\ Joined(rows) /\ Joined(seen) /\ Alike /\ Promised

\* Unless a chain begins or ends with a chain, the links of the jobs of an object
\* are those of the documentation.
LEMMA DocumentedLinksAre ==
  ASSUME Objects, Spanned, NEW x \in DOMAIN objects
  PROVE  /\ DocumentedLinks(objects, x) \subseteq Members(objects, x) \X Members(objects, x)
         /\ Ends(objects) = DocumentedEnds(objects) =>
                DocumentedLinks(objects, x) = Links(objects, Ends(objects), x)
<1> DEFINE V == Visited(objects, x)
           M == {v \in V : objects[v].kind = "delayable"}
           F == DocumentedEnds(objects)
           after(y) == {<<y, z>> : z \in objects[y].then}
                       \cup (IF objects[y].kind = "chain" THEN Pairs(objects[y].items) ELSE {})
           Linked(edges) == UNION {F[e[1]].tail \X F[e[2]].head : e \in edges}
<1>1. Members(objects, x) = M
  BY DEF Members
<1>2. V \in SUBSET DOMAIN objects /\ \A y \in V : Vertices(objects[y]) \subseteq V
  BY VisitedIsClosed
<1>3. Ending(F, FALSE)
  BY EndsAre
<1> HIDE DEF F
<1>4. \A y \in V : F[y].head \subseteq M /\ F[y].tail \subseteq M
  BY <1>2, <1>3, EndsAreVisited
<1>5. DocumentedLinks(objects, x) = UNION {Linked(after(y)) : y \in V}
  BY DEF DocumentedLinks, F
<1>6. Links(objects, F, x) = UNION {Linked(objects[y].edges) : y \in V}
  BY DEF Links
<1> HIDE DEF V, M
<1>7. ASSUME NEW y \in V
      PROVE  /\ F[y].tail = UNION {F[i].tail : i \in Ended(objects[y])}
             /\ Ended(objects[y]) # {}
  <2> DEFINE o == objects[y]
  <2>0. y \in DOMAIN objects
    BY <1>2
  <2>1. F[y] = IF o.kind = "delayable" THEN [head |-> {y}, tail |-> {y}]
               ELSE IF o.kind = "chain"
               THEN [head |-> F[Head(o.items)].head, tail |-> F[Last(o.items)].tail]
               ELSE [head |-> UNION {F[i].head : i \in ToSet(o.items)},
                     tail |-> UNION {F[i].tail : i \in ToSet(o.items)}]
    BY <1>3, <2>0 DEF Ending
  <2>2. o.kind # "delayable" => Last(o.items) \in ToSet(o.items)
    BY <2>0, ItemsAre
  <2>3. o.kind = "delayable" => o.items = <<y>>
    BY <2>0 DEF Objects
  <2>4. ToSet(<<y>>) = {y}
    BY DEF ToSet
  <2> HIDE DEF o
  <2>5. CASE o.kind = "delayable"
    <3>1. Ended(o) = {y} /\ F[y].tail = {y}
      BY <2>1, <2>3, <2>4, <2>5 DEF Ended, Parents
    <3> QED BY <3>1 DEF o
  <2>6. CASE o.kind = "chain"
    <3>1. Ended(o) = {Last(o.items)} /\ F[y].tail = F[Last(o.items)].tail
      BY <2>1, <2>6 DEF Ended
    <3> QED BY <3>1 DEF o
  <2>7. CASE o.kind # "delayable" /\ o.kind # "chain"
    <3>1. Ended(o) = ToSet(o.items) /\ F[y].tail = UNION {F[i].tail : i \in ToSet(o.items)}
      BY <2>1, <2>7 DEF Ended, Parents
    <3> QED BY <2>2, <2>7, <3>1 DEF o
  <2> QED BY <2>5, <2>6, <2>7
<1>8. ASSUME NEW y \in V
      PROVE  objects[y].edges = (Ended(objects[y]) \X objects[y].then)
                                \cup (IF objects[y].kind = "chain" THEN Pairs(objects[y].items) ELSE {})
  BY <1>2 DEF Spanned
<1>9. ASSUME NEW y \in V, NEW e \in after(y)
      PROVE  e[1] \in V /\ e[2] \in V
  <2>0. \A d \in objects[y].edges : d[1] \in V /\ d[2] \in V
    BY <1>2 DEF Vertices
  <2>1. CASE e \in {<<y, z>> : z \in objects[y].then}
    <3>1. PICK z \in objects[y].then : e = <<y, z>>
      BY <2>1
    <3>2. PICK i \in Ended(objects[y]) : TRUE
      BY <1>7
    <3>3. <<i, z>> \in objects[y].edges
      BY <1>8, <3>1, <3>2
    <3>4. z \in V
      BY <2>0, <3>3
    <3> QED BY <3>1, <3>4
  <2>2. CASE e \notin {<<y, z>> : z \in objects[y].then}
    <3>1. e \in objects[y].edges
      BY <1>8, <2>2
    <3> QED BY <2>0, <3>1
  <2> QED BY <2>1, <2>2
<1>10. DocumentedLinks(objects, x) \subseteq M \X M
  BY <1>4, <1>5, <1>9
<1>11. ASSUME NEW y \in V PROVE Linked(after(y)) = Linked(objects[y].edges)
  <2> DEFINE o == objects[y]
             P == IF o.kind = "chain" THEN Pairs(o.items) ELSE {}
             A == {<<y, z>> : z \in o.then}
             B == Ended(o) \X o.then
  <2>1. \A S, w : w \in Linked(S) <=> \E e \in S : w \in F[e[1]].tail \X F[e[2]].head
    OBVIOUS
  <2> HIDE DEF Linked
  <2>2. Linked(A) \subseteq Linked(B)
    <3> SUFFICES ASSUME NEW w \in Linked(A) PROVE w \in Linked(B)
      OBVIOUS
    <3>1. PICK e \in A : w \in F[e[1]].tail \X F[e[2]].head
      BY <2>1
    <3>2. PICK z \in o.then : e = <<y, z>>
      OBVIOUS
    <3>3. w[1] \in F[y].tail /\ w = <<w[1], w[2]>> /\ w[2] \in F[z].head
      BY <3>1, <3>2
    <3>4. PICK i \in Ended(o) : w[1] \in F[i].tail
      BY <1>7, <3>3
    <3>5. <<i, z>> \in B /\ w \in F[i].tail \X F[z].head
      BY <3>2, <3>3, <3>4
    <3> QED BY <2>1, <3>5
  <2>3. Linked(B) \subseteq Linked(A)
    <3> SUFFICES ASSUME NEW w \in Linked(B) PROVE w \in Linked(A)
      OBVIOUS
    <3>1. PICK e \in B : w \in F[e[1]].tail \X F[e[2]].head
      BY <2>1
    <3>2. e[1] \in Ended(o) /\ e[2] \in o.then
      OBVIOUS
    <3>3. F[e[1]].tail \subseteq F[y].tail
      BY <1>7, <3>2
    <3>4. <<y, e[2]>> \in A /\ w \in F[y].tail \X F[e[2]].head
      BY <3>1, <3>2, <3>3
    <3> QED BY <2>1, <3>4
  <2>4. \A S, T : Linked(S \cup T) = Linked(S) \cup Linked(T)
    BY DEF Linked
  <2>5. after(y) = A \cup P /\ o.edges = B \cup P
    BY <1>8
  <2> HIDE DEF A, B, P, after
  <2>6. Linked(after(y)) = Linked(A) \cup Linked(P) /\ Linked(o.edges) = Linked(B) \cup Linked(P)
    BY <2>4, <2>5
  <2> QED BY <2>2, <2>3, <2>6
<1> HIDE DEF Linked, after
<1>12. DocumentedLinks(objects, x) = Links(objects, F, x)
  BY <1>5, <1>6, <1>11
<1> QED BY <1>1, <1>10, <1>12 DEF F

LEMMA BuiltAre ==
  ASSUME Inv, Drafts, NEW M \in SUBSET Nat, NEW d \in M, ~LeftOut(Uuid(d))
  PROVE  IF Uuid(d) \in DOMAIN seen THEN Built(M)[d] = seen[Uuid(d)]
         ELSE Built(M)[d].depends = {} /\ Built(M)[d].reverse = {} /\ Built(M)[d].graph = None
<1>1. Built(M)[d] = IF d \in DOMAIN memory THEN memory[d] ELSE NewJob(d)
  BY DEF Built
<1>2. CASE d \in DOMAIN memory
  BY <1>1, <1>2 DEF Drafts
<1>3. CASE d \notin DOMAIN memory
  <2>1. Uuid(d)[1] = caller /\ Uuid(d)[2] = d
    BY DEF Uuid
  <2>2. Uuid(d) \notin DOMAIN seen
    BY <1>3, <2>1 DEF Drafts
  <2> QED BY <1>1, <1>3, <2>2 DEF NewJob
<1> QED BY <1>2, <1>3

\* The graph of jobs that have one already.
LEMMA GraphStays ==
  ASSUME NEW M, IsFiniteSet(M), NEW links, NEW jobs, ~Refuses(jobs, M, links),
         NEW d \in M, jobs[d].graph # None
  PROVE  GraphOf(jobs, M) = jobs[d].graph
<1> DEFINE G == Graphs(jobs, M)
<1>1. jobs[d].graph \in G
  BY DEF Graphs
<1>2. IsFiniteSet(G)
  <2>1. IsFiniteSet({jobs[e].graph : e \in M})
    <3> DEFINE T == {jobs[e].graph : e \in M}
               f == [e \in M |-> jobs[e].graph]
    <3>1. f \in Surjection(M, T)
      BY DEF Surjection
    <3> HIDE DEF f, T
    <3>2. IsFiniteSet(T)
      BY <3>1, FS_Surjection
    <3> QED BY <3>2 DEF T
  <2>2. G \in SUBSET {jobs[e].graph : e \in M}
    BY DEF Graphs
  <2> QED BY <2>1, <2>2, FS_Subset
<1>3. G # {}
  BY <1>1
<1>4. Cardinality(M) # 1 /\ ~(Cardinality(G) > 1)
  BY <1>3 DEF Refuses
<1>5. Cardinality(G) = 1
  <2>1. Cardinality(G) \in Nat /\ Cardinality(G) # 0
    BY <1>2, <1>3, FS_CardinalityType, FS_EmptySet
  <2> QED BY <1>4, <2>1
<1>6. G = {jobs[d].graph}
  BY <1>1, <1>2, <1>5, TheOnlyOne
<1>7. GraphOf(jobs, M) = CHOOSE g \in G : TRUE
  BY <1>3, <1>4 DEF GraphOf
<1> QED BY <1>6, <1>7

Named(links) == {<<Uuid(e[1]), Uuid(e[2])>> : e \in links}

LEMMA NamedIn ==
  ASSUME NEW M, NEW links \in SUBSET (M \X M)
  PROVE  Named(links) \subseteq NewRows(M) \X NewRows(M)
<1> SUFFICES ASSUME NEW e \in links PROVE <<Uuid(e[1]), Uuid(e[2])>> \in NewRows(M) \X NewRows(M)
  BY DEF Named
<1>1. e[1] \in M /\ e[2] \in M
  OBVIOUS
<1> QED BY <1>1 DEF NewRows

\* What store() adds to the table.
Grows(links) ==
    /\ DOMAIN seen \subseteq DOMAIN seen'
    /\ \A u \in DOMAIN seen : seen[u].graph # None => seen'[u].graph = seen[u].graph
    /\ \A u \in DOMAIN seen' :
        /\ seen'[u].depends = (IF u \in DOMAIN seen THEN seen[u].depends ELSE {})
                              \cup {l[1] : l \in {k \in Named(links) : k[2] = u}}
        /\ seen'[u].reverse = (IF u \in DOMAIN seen THEN seen[u].reverse ELSE {})
                              \cup {l[2] : l \in {k \in Named(links) : k[1] = u}}
    /\ \A l \in Named(links) : /\ l[1] \in DOMAIN seen' /\ l[2] \in DOMAIN seen'
                               /\ seen'[l[1]].graph = seen'[l[2]].graph /\ seen'[l[1]].graph # None

LEMMA StoredGrows ==
  ASSUME Inv, Drafts, NEW M, NEW links, Sound(M, links), ~Refuses(Built(M), M, links),
         NEW jobs, jobs = Connected(Built(M), M, links), seen' = Stored(jobs, M),
         \A d \in M : ~LeftOut(Uuid(d))
  PROVE  Grows(links)
<1> DEFINE new == NewRows(M)
           B == Built(M)
           g == GraphOf(B, M)
<1>0. M \in SUBSET Nat
  BY DEF Sound
<1>1. /\ DOMAIN seen' = DOMAIN seen \cup new
      /\ \A u \in DOMAIN seen' : seen'[u] = IF u \in new THEN jobs[u[2]] ELSE seen[u]
      /\ \A u \in new : u[2] \in M /\ u = Uuid(u[2])
      /\ \A d \in M : Uuid(d) \in new /\ Uuid(d)[2] = d
  BY <1>0, StoredTable
<1>2. \A d \in M : /\ jobs[d].graph = g
                   /\ jobs[d].depends = B[d].depends \cup {Uuid(p) : p \in Parented(d, links)}
                   /\ jobs[d].reverse = B[d].reverse \cup {Uuid(c) : c \in Successors(links, d)}
  <2>1. AreConnected(jobs, M, links)
    BY ConnectedIs
  <2> QED BY <2>1 DEF AreConnected
<1>3. \A d \in M : IF Uuid(d) \in DOMAIN seen THEN B[d] = seen[Uuid(d)]
                   ELSE B[d].depends = {} /\ B[d].reverse = {} /\ B[d].graph = None
  BY <1>0, BuiltAre
<1>4. \A d \in M : B[d].graph # None => g = B[d].graph
  BY GraphStays DEF Sound
<1>5. \A e \in links : e[1] \in M /\ e[2] \in M /\ e = <<e[1], e[2]>>
  BY DEF Sound
<1>6. ASSUME NEW e \in links PROVE g # None
  <2>1. e[1] \in Parented(e[2], links) /\ e[2] \in M
    BY <1>5 DEF Parented
  <2> QED BY <2>1, DelayedAlone
<1> HIDE DEF B, g
<1>7. \A u \in DOMAIN seen : seen[u].graph # None => seen'[u].graph = seen[u].graph
  BY <1>1, <1>2, <1>3, <1>4
<1>8. \A l \in Named(links) : \E e \in links : l[1] = Uuid(e[1]) /\ l[2] = Uuid(e[2])
  BY DEF Named
<1>9. \A l \in Named(links) : /\ l[1] \in DOMAIN seen' /\ l[2] \in DOMAIN seen'
                              /\ seen'[l[1]].graph = seen'[l[2]].graph /\ seen'[l[1]].graph # None
  <2> SUFFICES ASSUME NEW l \in Named(links)
               PROVE  /\ l[1] \in DOMAIN seen' /\ l[2] \in DOMAIN seen'
                      /\ seen'[l[1]].graph = seen'[l[2]].graph /\ seen'[l[1]].graph # None
    OBVIOUS
  <2>1. PICK e \in links : l[1] = Uuid(e[1]) /\ l[2] = Uuid(e[2])
    BY <1>8
  <2>2. /\ l[1] \in new /\ l[1][2] \in M /\ l[2] \in new /\ l[2][2] \in M
    BY <1>1, <1>5, <2>1
  <2> QED BY <1>1, <1>2, <1>6, <2>2
<1>10. ASSUME NEW d \in M
       PROVE  /\ {l[1] : l \in {k \in Named(links) : k[2] = Uuid(d)}} = {Uuid(p) : p \in Parented(d, links)}
              /\ {l[2] : l \in {k \in Named(links) : k[1] = Uuid(d)}} = {Uuid(c) : c \in Successors(links, d)}
  <2>1. \A e \in links : (Uuid(e[1]) = Uuid(d) <=> e[1] = d) /\ (Uuid(e[2]) = Uuid(d) <=> e[2] = d)
    BY <1>1, <1>5
  <2>2. /\ \A e \in links : <<Uuid(e[1]), Uuid(e[2])>> \in Named(links)
        /\ \A k \in Named(links) : \E e \in links : k = <<Uuid(e[1]), Uuid(e[2])>>
    BY DEF Named
  <2> DEFINE parents == {l[1] : l \in {k \in Named(links) : k[2] = Uuid(d)}}
             children == {l[2] : l \in {k \in Named(links) : k[1] = Uuid(d)}}
  <2>3. parents \subseteq {Uuid(p) : p \in Parented(d, links)}
    <3> SUFFICES ASSUME NEW l \in Named(links), l[2] = Uuid(d)
                 PROVE  l[1] \in {Uuid(p) : p \in Parented(d, links)}
      OBVIOUS
    <3>1. PICK e \in links : l = <<Uuid(e[1]), Uuid(e[2])>>
      BY <2>2
    <3>2. e[1] \in Parented(d, links)
      BY <2>1, <3>1 DEF Parented
    <3> QED BY <3>1, <3>2
  <2>4. {Uuid(p) : p \in Parented(d, links)} \subseteq parents
    <3> SUFFICES ASSUME NEW p \in Parented(d, links) PROVE Uuid(p) \in parents
      OBVIOUS
    <3>1. PICK e \in links : e[2] = d /\ e[1] = p
      BY DEF Parented
    <3>2. <<Uuid(p), Uuid(d)>> \in Named(links)
      BY <2>2, <3>1
    <3> QED BY <3>2
  <2>5. children \subseteq {Uuid(c) : c \in Successors(links, d)}
    <3> SUFFICES ASSUME NEW l \in Named(links), l[1] = Uuid(d)
                 PROVE  l[2] \in {Uuid(c) : c \in Successors(links, d)}
      OBVIOUS
    <3>1. PICK e \in links : l = <<Uuid(e[1]), Uuid(e[2])>>
      BY <2>2
    <3>2. e[2] \in Successors(links, d)
      BY <2>1, <3>1 DEF Successors
    <3> QED BY <3>1, <3>2
  <2>6. {Uuid(c) : c \in Successors(links, d)} \subseteq children
    <3> SUFFICES ASSUME NEW c \in Successors(links, d) PROVE Uuid(c) \in children
      OBVIOUS
    <3>1. PICK e \in links : e[1] = d /\ e[2] = c
      BY DEF Successors
    <3>2. <<Uuid(d), Uuid(c)>> \in Named(links)
      BY <2>2, <3>1
    <3> QED BY <3>2
  <2> QED BY <2>3, <2>4, <2>5, <2>6
<1>11. ASSUME NEW u \in DOMAIN seen'
       PROVE  /\ seen'[u].depends = (IF u \in DOMAIN seen THEN seen[u].depends ELSE {})
                                    \cup {l[1] : l \in {k \in Named(links) : k[2] = u}}
              /\ seen'[u].reverse = (IF u \in DOMAIN seen THEN seen[u].reverse ELSE {})
                                    \cup {l[2] : l \in {k \in Named(links) : k[1] = u}}
  <2>1. CASE u \in new
    <3> DEFINE d == u[2]
    <3>1. d \in M /\ u = Uuid(d) /\ seen'[u] = jobs[d]
      BY <1>1, <2>1
    <3> HIDE DEF d
    <3>2. /\ B[d].depends = IF u \in DOMAIN seen THEN seen[u].depends ELSE {}
          /\ B[d].reverse = IF u \in DOMAIN seen THEN seen[u].reverse ELSE {}
      BY <1>3, <3>1
    <3>3. /\ {l[1] : l \in {k \in Named(links) : k[2] = u}} = {Uuid(p) : p \in Parented(d, links)}
          /\ {l[2] : l \in {k \in Named(links) : k[1] = u}} = {Uuid(c) : c \in Successors(links, d)}
      BY <1>10, <3>1
    <3>4. /\ seen'[u].depends = B[d].depends \cup {Uuid(p) : p \in Parented(d, links)}
          /\ seen'[u].reverse = B[d].reverse \cup {Uuid(c) : c \in Successors(links, d)}
      BY <1>2, <3>1
    <3> QED BY <3>2, <3>3, <3>4
  <2>2. CASE u \notin new
    <3>1. u \in DOMAIN seen /\ seen'[u] = seen[u]
      BY <1>1, <2>2
    <3>2. \A k \in Named(links) : k[1] # u /\ k[2] # u
      BY <1>1, <1>5, <1>8, <2>2
    <3> QED BY <3>1, <3>2
  <2> QED BY <2>1, <2>2
<1> QED BY <1>1, <1>7, <1>9, <1>11 DEF Grows

\* The jobs of the table stay joined.
LEMMA GrowsJoined ==
  ASSUME Joined(seen), NEW links, Grows(links)
  PROVE  Joined(seen')
<1> DEFINE N == Named(links)
<1>1. ASSUME NEW u \in DOMAIN seen', NEW p \in seen'[u].depends
      PROVE  /\ p \in DOMAIN seen' /\ u \in seen'[p].reverse
             /\ seen'[u].graph = seen'[p].graph /\ seen'[u].graph # None
  <2>1. CASE u \in DOMAIN seen /\ p \in seen[u].depends
    <3>1. /\ p \in DOMAIN seen /\ u \in seen[p].reverse
          /\ seen[u].graph = seen[p].graph /\ seen[u].graph # None
      BY <2>1 DEF Joined
    <3>2. p \in DOMAIN seen' /\ u \in seen'[p].reverse
      BY <3>1 DEF Grows
    <3>3. seen'[u].graph = seen[u].graph /\ seen'[p].graph = seen[p].graph
      BY <2>1, <3>1 DEF Grows
    <3> QED BY <3>1, <3>2, <3>3
  <2>2. CASE \E l \in N : l[2] = u /\ l[1] = p
    <3>1. PICK l \in N : l[2] = u /\ l[1] = p
      BY <2>2
    <3>2. p \in DOMAIN seen' /\ seen'[u].graph = seen'[p].graph /\ seen'[u].graph # None
      BY <3>1 DEF Grows
    <3>3. u \in seen'[p].reverse
      BY <3>1, <3>2 DEF Grows
    <3> QED BY <3>2, <3>3
  <2>3. (u \in DOMAIN seen /\ p \in seen[u].depends) \/ \E l \in N : l[2] = u /\ l[1] = p
    BY <1>1 DEF Grows
  <2> QED BY <2>1, <2>2, <2>3
<1>2. ASSUME NEW u \in DOMAIN seen', NEW c \in seen'[u].reverse
      PROVE  c \in DOMAIN seen' /\ u \in seen'[c].depends
  <2>1. CASE u \in DOMAIN seen /\ c \in seen[u].reverse
    BY <2>1 DEF Joined, Grows
  <2>2. CASE \E l \in N : l[1] = u /\ l[2] = c
    <3>1. PICK l \in N : l[1] = u /\ l[2] = c
      BY <2>2
    <3>2. c \in DOMAIN seen'
      BY <3>1 DEF Grows
    <3> QED BY <3>1, <3>2 DEF Grows
  <2>3. (u \in DOMAIN seen /\ c \in seen[u].reverse) \/ \E l \in N : l[1] = u /\ l[2] = c
    BY <1>2 DEF Grows
  <2> QED BY <2>1, <2>2, <2>3
<1> QED BY <1>1, <1>2 DEF Joined

LEMMA DelayablesSpanned ==
  ASSUME NEW c, NEW table, Serve(c, table)
  PROVE  Spanned'
<1>1. CASE c \in DOMAIN Callers
  <2>1. objects' = [d \in DOMAIN Callers[c] |-> Delayable(d)]
    BY <1>1 DEF Serve, Delayables
  <2>2. \A d : Delayable(d).edges = {} /\ Delayable(d).then = {} /\ Delayable(d).kind = "delayable"
    BY DEF Delayable, Object
  <2>3. \A x \in DOMAIN objects' : /\ objects'[x].edges = {} /\ objects'[x].then = {}
                                   /\ objects'[x].kind = "delayable"
    BY <2>1, <2>2
  <2> QED BY <2>3 DEF Spanned
<1>2. CASE c \notin DOMAIN Callers
  <2>1. DOMAIN objects' = {}
    BY <1>2 DEF Serve
  <2> QED BY <2>1 DEF Spanned
<1> QED BY <1>1, <1>2

LEMMA InitDependencies == Init => Dependencies
<1> SUFFICES ASSUME Init PROVE Dependencies
  OBVIOUS
<1>1. objects = [d \in DOMAIN Callers[1] |-> Delayable(d)]
  BY DEF Init, Delayables
<1>2. \A d : Delayable(d).edges = {} /\ Delayable(d).then = {} /\ Delayable(d).kind = "delayable"
  BY DEF Delayable, Object
<1>3. Spanned
  BY <1>1, <1>2 DEF Spanned
<1>4. DOMAIN memory = {} /\ DOMAIN seen = {} /\ DOMAIN rows = {} /\ story = {}
  BY DEF Init
<1> QED BY <1>3, <1>4 DEF Dependencies, Drafts, Requests, Joined, Alike, Promised

LEMMA DocumentedIs ==
  \A u, w : w \in Documented(u) <=> \E call \in story : call.stored /\ \E l \in call.links : l[2] = u /\ l[1] = w
  BY DEF Documented

\* The next caller finds what was promised to the ones before.
LEMMA NextDependencies ==
  ASSUME Inv, Dependencies, Serve(caller + 1, rows'), Joined(rows'), story' \subseteq story,
         \A u \in DOMAIN rows' : /\ u \in DOMAIN seen /\ rows'[u].depends = seen[u].depends
                                 /\ \A call \in story : u \in call.jobs => call \in story'
  PROVE  Dependencies'
<1>1. caller' = caller + 1 /\ seen' = rows' /\ DOMAIN memory' = {} /\ caller \in Nat
  BY ServeIs DEF Inv, Snapshot
<1>2. Spanned'
  BY DelayablesSpanned
<1>3. \A u \in DOMAIN seen : u[1] <= caller /\ u[1] \in Nat
  BY DEF Inv, Snapshot, Indexes
<1>4. \A call \in story : \A u \in call.jobs : u[1] <= caller /\ u[1] \in Nat
  BY DEF Inv, Calls, Indexes
<1>5. Drafts'
  <2>1. \A u \in DOMAIN seen' : u[1] # caller'
    BY <1>1, <1>3
  <2> QED BY <1>1, <2>1 DEF Drafts
<1>6. Requests'
  <2>1. \A call \in story' : \A u \in call.jobs : u[1] # caller'
    BY <1>1, <1>4
  <2> QED BY <2>1 DEF Dependencies, Requests
<1>7. Promised'
  <2> SUFFICES ASSUME NEW u \in DOMAIN seen', \A call \in story' : u \in call.jobs => ~call.nested
               PROVE  seen'[u].depends = Documented(u)'
    BY DEF Promised
  <2>1. /\ u \in DOMAIN seen /\ seen'[u].depends = seen[u].depends
        /\ \A call \in story : u \in call.jobs => call \in story'
    BY <1>1
  <2>2. seen[u].depends = Documented(u)
    BY <2>1 DEF Dependencies, Promised
  <2>3. \A w : w \in Documented(u) <=> \E call \in story : call.stored /\ \E l \in call.links : l[2] = u /\ l[1] = w
    BY DocumentedIs
  <2>4. \A w : w \in Documented(u)' <=> \E call \in story' : call.stored /\ \E l \in call.links : l[2] = u /\ l[1] = w
    BY DEF Documented
  <2>5. \A call \in story : \A l \in call.links : l[2] \in call.jobs
    BY DEF Dependencies, Requests
  <2>6. \A w : w \in Documented(u) <=> w \in Documented(u)'
    BY <2>1, <2>3, <2>4, <2>5
  <2>7. Documented(u)' = Documented(u)
    BY <2>6 DEF Documented
  <2> QED BY <2>1, <2>2, <2>7
<1> QED BY <1>1, <1>2, <1>5, <1>6, <1>7 DEF Dependencies, Alike, Joined

LEMMA AlikeJoined ==
  ASSUME NEW s, NEW t, Joined(s), DOMAIN t = DOMAIN s,
         \A u \in DOMAIN s : t[u].depends = s[u].depends /\ t[u].reverse = s[u].reverse /\ t[u].graph = s[u].graph
  PROVE  Joined(t)
  BY DEF Joined

LEMMA RefusalKeepsDependencies ==
  ASSUME Inv, Dependencies, Serve(caller + 1, rows), UNCHANGED rows,
         story' = {call \in story : \A u \in call.jobs : u[1] # caller}
  PROVE  Dependencies'
<1>1. ASSUME NEW u \in DOMAIN rows'
      PROVE  /\ u \in DOMAIN seen /\ rows'[u].depends = seen[u].depends
             /\ \A call \in story : u \in call.jobs => call \in story'
  <2>1. u \in DOMAIN seen /\ u[1] # caller /\ rows[u].depends = seen[u].depends
    BY DEF Inv, Snapshot, Dependencies, Alike
  <2>2. \A call \in story : u \in call.jobs => \A v \in call.jobs : v[1] = u[1]
    BY DEF Dependencies, Requests
  <2> QED BY <2>1, <2>2
<1>2. Joined(rows')
  BY DEF Dependencies, Joined
<1> QED BY <1>1, <1>2, NextDependencies

LEMMA CommitKeepsDependencies ==
  ASSUME Inv, Dependencies, Commit
  PROVE  Dependencies'
<1>1. /\ rows' = [u \in DOMAIN rows \cup Own(seen) |-> IF u \in Own(seen) THEN seen[u] ELSE rows[u]]
      /\ Serve(caller + 1, rows') /\ UNCHANGED story
  BY DEF Commit
<1>2. DOMAIN rows' = DOMAIN seen
  BY <1>1 DEF Own, Inv, Snapshot
<1>3. \A u \in DOMAIN seen : /\ rows'[u].depends = seen[u].depends /\ rows'[u].reverse = seen[u].reverse
                             /\ rows'[u].graph = seen[u].graph
  BY <1>1, <1>2 DEF Own, Inv, Snapshot, Dependencies, Alike
<1>4. Joined(rows')
  <2>1. Joined(seen)
    BY DEF Dependencies
  <2> QED BY <1>2, <1>3, <2>1, AlikeJoined
<1> QED BY <1>1, <1>2, <1>3, <1>4, NextDependencies

LEMMA DelayKeepsDependencies ==
  ASSUME Inv, Dependencies, NEW x \in DOMAIN objects, Delay(x)
  PROVE  Dependencies'
<1> DEFINE M == Members(objects, x)
           links == Links(objects, Ends(objects), x)
           jobs == Connected(Built(M), M, links)
           stored == ~AllExist(jobs, M)
           c == Call(x, M, stored)
<1>0. CASE Refuses(Built(M), M, links)
  BY <1>0, RefusalKeepsDependencies DEF Delay
<1> SUFFICES ASSUME ~Refuses(Built(M), M, links) PROVE Dependencies'
  BY <1>0
<1>1. /\ story' = story \cup {c} /\ memory' = jobs
      /\ seen' = IF stored THEN Stored(jobs, M) ELSE seen
      /\ UNCHANGED <<caller, objects, rows>>
      /\ \A call \in story : ~call.stored => call.jobs \cap NewRows(M) = {}
  BY DEF Delay, NewRows
<1>2. /\ c.jobs = NewRows(M) /\ c.stored = stored
      /\ c.links = Named(DocumentedLinks(objects, x)) /\ c.nested = (Ends(objects) # DocumentedEnds(objects))
  BY DEF Call, NewRows, Named
<1>3. /\ DocumentedLinks(objects, x) \subseteq M \X M
      /\ Ends(objects) = DocumentedEnds(objects) => DocumentedLinks(objects, x) = links
  BY DocumentedLinksAre DEF Inv, Dependencies
<1>4. Sound(M, links)
  BY GraphIsSound DEF Inv
<1> HIDE DEF M, links, c
<1>5. M \in SUBSET Nat /\ \A d \in M : Uuid(d) \in NewRows(M)
  BY <1>4 DEF Sound, NewRows
<1>6. \A u \in NewRows(M) : u[1] = caller /\ u[2] \in M /\ u = Uuid(u[2])
  BY <1>5 DEF NewRows, Uuid
<1>7. c.links \subseteq c.jobs \X c.jobs /\ (~c.nested => c.links = Named(links))
  <2>1. Named(DocumentedLinks(objects, x)) \subseteq NewRows(M) \X NewRows(M)
    BY <1>3, NamedIn
  <2> QED BY <1>2, <1>3, <2>1
<1>8. DOMAIN jobs = M \cup DOMAIN memory /\ \A d \in DOMAIN jobs \ M : jobs[d] = memory[d]
  <2>1. AreConnected(jobs, M, links)
    BY <1>4, ConnectedIs
  <2> QED BY <2>1 DEF AreConnected
<1>9. \A d \in M : ~LeftOut(Uuid(d))
  BY <1>1, <1>5 DEF LeftOut
<1>10. stored => Grows(links)
  BY <1>1, <1>4, <1>9, StoredGrows DEF Dependencies
<1>11. stored => /\ DOMAIN seen' = DOMAIN seen \cup NewRows(M)
                 /\ \A u \in DOMAIN seen' : seen'[u] = IF u \in NewRows(M) THEN jobs[u[2]] ELSE seen[u]
  BY <1>1, <1>5, StoredTable
<1> HIDE DEF jobs, stored
<1>12. Spanned'
  BY <1>1 DEF Dependencies, Spanned
<1>13. Drafts'
  <2>1. ASSUME NEW u \in DOMAIN seen', u[1] = caller' PROVE u[2] \in DOMAIN memory'
    <3>1. u \in NewRows(M) \/ (u \in DOMAIN seen /\ u[1] = caller)
      BY <1>1, <1>11, <2>1
    <3> QED BY <1>1, <1>6, <1>8, <3>1 DEF Dependencies, Drafts
  <2>2. ASSUME NEW d \in DOMAIN memory', ~LeftOut(Uuid(d))'
        PROVE  Uuid(d)' \in DOMAIN seen' /\ seen'[Uuid(d)'] = memory'[d]
    <3>0. Uuid(d)' = Uuid(d)
      BY <1>1 DEF Uuid
    <3>1. /\ ~LeftOut(Uuid(d))
          /\ ~stored => Uuid(d) \notin NewRows(M)
      BY <1>1, <1>2, <2>2, <3>0 DEF LeftOut
    <3>2. CASE d \in M
      <4>1. stored /\ Uuid(d) \in NewRows(M) /\ Uuid(d)[2] = d
        BY <1>5, <3>1, <3>2 DEF Uuid
      <4> QED BY <1>1, <1>11, <3>0, <4>1
    <3>3. CASE d \notin M
      <4>1. d \in DOMAIN memory /\ jobs[d] = memory[d]
        BY <1>1, <1>8, <3>3
      <4>2. Uuid(d) \in DOMAIN seen /\ seen[Uuid(d)] = memory[d]
        BY <3>1, <4>1 DEF Dependencies, Drafts
      <4>3. Uuid(d) \notin NewRows(M)
        BY <1>6, <3>3 DEF Uuid
      <4>4. seen'[Uuid(d)] = seen[Uuid(d)] /\ Uuid(d) \in DOMAIN seen'
        BY <1>1, <1>11, <4>2, <4>3
      <4> QED BY <1>1, <3>0, <4>1, <4>2, <4>4
    <3> QED BY <3>2, <3>3
  <2> QED BY <2>1, <2>2 DEF Drafts
<1>14. Requests'
  <2>1. ASSUME NEW call \in story'
        PROVE  /\ call.links \subseteq call.jobs \X call.jobs
               /\ \A u, v \in call.jobs : u[1] = v[1]
               /\ \A u \in call.jobs : u[1] = caller => u[2] \in DOMAIN jobs
    <3>1. CASE call \in story
      BY <1>8, <3>1 DEF Dependencies, Requests
    <3>2. CASE call = c
      BY <1>2, <1>6, <1>7, <1>8, <3>2
    <3> QED BY <1>1, <3>1, <3>2
  <2> QED BY <1>1, <2>1 DEF Requests
<1>15. Joined(rows') /\ Joined(seen')
  <2>1. Joined(rows) /\ Joined(seen)
    BY DEF Dependencies
  <2>2. CASE stored
    BY <1>1, <1>10, <2>1, <2>2, GrowsJoined
  <2>3. CASE ~stored
    BY <1>1, <2>1, <2>3
  <2> QED BY <2>1, <2>2, <2>3, <1>1
<1>16. Alike'
  <2>1. \A u \in DOMAIN rows : u \in DOMAIN seen /\ u \notin NewRows(M)
    BY <1>6 DEF Inv, Snapshot
  <2>2. \A u \in DOMAIN rows : seen'[u] = seen[u]
    BY <1>1, <1>11, <2>1
  <2> QED BY <1>1, <2>2 DEF Dependencies, Alike
<1>17. Promised'
  <2> SUFFICES ASSUME NEW u \in DOMAIN seen', \A call \in story' : u \in call.jobs => ~call.nested
               PROVE  seen'[u].depends = Documented(u)'
    BY DEF Promised
  <2>1. \A w : w \in Documented(u) <=> \E call \in story : call.stored /\ \E l \in call.links : l[2] = u /\ l[1] = w
    BY DocumentedIs
  <2>2. \A w : w \in Documented(u)' <=> \E call \in story' : call.stored /\ \E l \in call.links : l[2] = u /\ l[1] = w
    BY DEF Documented
  <2>3. \A w : w \in Documented(u)' <=> \/ w \in Documented(u)
                                        \/ stored /\ \E l \in c.links : l[2] = u /\ l[1] = w
    BY <1>1, <1>2, <2>1, <2>2
  <2>4. u \in DOMAIN seen => seen[u].depends = Documented(u)
    BY <1>1 DEF Dependencies, Promised
  <2>5. CASE ~stored
    <3>1. seen' = seen
      BY <1>1, <2>5
    <3>2. Documented(u)' = Documented(u)
      <4>1. \A w : w \in Documented(u)' <=> w \in Documented(u)
        BY <2>3, <2>5
      <4> QED BY <4>1 DEF Documented
    <3> QED BY <2>4, <3>1, <3>2
  <2>6. CASE stored
    <3>1. seen'[u].depends = (IF u \in DOMAIN seen THEN seen[u].depends ELSE {})
                             \cup {l[1] : l \in {k \in Named(links) : k[2] = u}}
      BY <1>10, <2>6 DEF Grows
    <3>2. u \notin DOMAIN seen => Documented(u) = {}
      <4>1. \A call \in story : call.stored => \A l \in call.links : l[2] \in DOMAIN seen
        BY DEF Inv, Calls, Dependencies, Requests
      <4>2. u \notin DOMAIN seen => \A w : w \notin Documented(u)
        BY <2>1, <4>1
      <4> QED BY <4>2
    <3>3. {l[1] : l \in {k \in Named(links) : k[2] = u}} = {l[1] : l \in {k \in c.links : k[2] = u}}
      <4>1. CASE u \in NewRows(M)
        <5>1. ~c.nested
          BY <1>1, <1>2, <4>1
        <5> QED BY <1>7, <5>1
      <4>2. CASE u \notin NewRows(M)
        <5>1. \A k \in Named(links) : k[2] # u
          <6>1. Named(links) \subseteq NewRows(M) \X NewRows(M)
            BY <1>4, NamedIn DEF Sound
          <6> QED BY <4>2, <6>1
        <5>2. \A k \in c.links : k[2] # u
          BY <1>2, <1>7, <4>2
        <5> QED BY <5>1, <5>2
      <4> QED BY <4>1, <4>2
    <3>4. seen'[u].depends = Documented(u) \cup {l[1] : l \in {k \in c.links : k[2] = u}}
      BY <2>4, <3>1, <3>2, <3>3
    <3>5. \A w : w \in seen'[u].depends <=> w \in Documented(u)'
      BY <2>3, <2>6, <3>4
    <3> QED BY <3>5
  <2> QED BY <2>5, <2>6
<1> QED BY <1>12, <1>13, <1>14, <1>15, <1>16, <1>17 DEF Dependencies

LEMMA BuildKeepsDependencies ==
  ASSUME Inv, Dependencies, NewChain \/ NewGroup \/ Connect
  PROVE  Dependencies'
<1>0. DOMAIN objects = 1..Len(objects) /\ Len(objects) \in Nat /\ objects \in Seq(Record)
  BY DEF Inv, Objects
<1>1. ASSUME NEW new, Build(new), Spanned' PROVE Dependencies'
  <2>1. UNCHANGED <<caller, memory, seen, rows, story>>
    BY <1>1 DEF Build
  <2>2. Drafts' /\ Requests' /\ Joined(rows)' /\ Joined(seen)' /\ Alike'
    BY <2>1 DEF Dependencies, Drafts, LeftOut, Uuid, Requests, Joined, Alike
  <2>3. Promised'
    BY <2>1 DEF Dependencies, Promised, Documented
  <2> QED BY <1>1, <2>2, <2>3 DEF Dependencies
<1>2. ASSUME NEW o, objects' = Append(objects, o), o.then = {},
             o.edges = IF o.kind = "chain" THEN Pairs(o.items) ELSE {}
      PROVE  Spanned'
  <2>1. \A z \in DOMAIN objects' : objects'[z] = o \/ (z \in DOMAIN objects /\ objects'[z] = objects[z])
    BY <1>0, <1>2
  <2>2. o.edges = (Ended(o) \X o.then) \cup (IF o.kind = "chain" THEN Pairs(o.items) ELSE {})
    BY <1>2
  <2> QED BY <2>1, <2>2 DEF Dependencies, Spanned
<1>3. CASE NewChain
  <2>1. PICK x, y \in Loose : Build(Append(objects, Chain(<<x, y>>)))
    BY <1>3 DEF NewChain
  <2>2. objects' = Append(objects, Chain(<<x, y>>))
    BY <2>1 DEF Build
  <2>3. Spanned'
    BY <1>2, <2>2 DEF Chain, Object
  <2> QED BY <1>1, <2>1, <2>3
<1>4. CASE NewGroup
  <2>1. PICK x, y \in Loose : Build(Append(objects, Group(<<x, y>>)))
    BY <1>4 DEF NewGroup
  <2>2. objects' = Append(objects, Group(<<x, y>>))
    BY <2>1 DEF Build
  <2>3. Spanned'
    BY <1>2, <2>2 DEF Group, Object
  <2> QED BY <1>1, <2>1, <2>3
<1>5. CASE Connect
  <2>1. PICK x \in DOMAIN objects : \E Y \in SUBSET DOMAIN objects : Build(OnDone(objects, x, Y))
    BY <1>5 DEF Connect
  <2>2. PICK Y \in SUBSET DOMAIN objects : Build(OnDone(objects, x, Y))
    BY <2>1
  <2> DEFINE o == objects[x]
             new == [o EXCEPT !.edges = @ \cup (Ended(o) \X Y), !.then = @ \cup Y]
  <2>3. objects' = [objects EXCEPT ![x] = new]
    BY <2>2 DEF Build, OnDone, Ended
  <2>4. o \in Record
    BY <1>0, <2>1
  <2>5. /\ new.kind = o.kind /\ new.items = o.items
        /\ new.edges = o.edges \cup (Ended(o) \X Y) /\ new.then = o.then \cup Y
    <3> HIDE DEF o
    <3> QED BY <2>4 DEF Record
  <2>6. o.edges = (Ended(o) \X o.then) \cup (IF o.kind = "chain" THEN Pairs(o.items) ELSE {})
    BY DEF Dependencies, Spanned
  <2> HIDE DEF o, new
  <2>7. Ended(new) = Ended(o)
    BY <2>5 DEF Ended, Parents
  <2>8. new.edges = (Ended(new) \X new.then) \cup (IF new.kind = "chain" THEN Pairs(new.items) ELSE {})
    BY <2>5, <2>6, <2>7
  <2>9. Spanned'
    BY <2>3, <2>8 DEF Dependencies, Spanned
  <2> QED BY <1>1, <2>2, <2>9
<1> QED BY <1>3, <1>4, <1>5

LEMMA RunKeepsDependencies ==
  ASSUME Inv, Dependencies,
         \/ \E u \in DOMAIN rows : Notify(u) \/ Start(u) \/ Finish(u)
         \/ UNCHANGED vars
  PROVE  Dependencies'
<1>0. \A u \in DOMAIN rows : DOMAIN rows[u] = Fields
  BY DEF Inv, Snapshot, Table
<1>1. ASSUME UNCHANGED <<caller, objects, memory, seen, story>>, DOMAIN rows' = DOMAIN rows,
             \A u \in DOMAIN rows : /\ rows'[u].depends = rows[u].depends
                                    /\ rows'[u].reverse = rows[u].reverse /\ rows'[u].graph = rows[u].graph
      PROVE  Dependencies'
  <2>1. Joined(rows')
    BY <1>1, AlikeJoined DEF Dependencies
  <2>2. Alike'
    BY <1>1 DEF Dependencies, Alike
  <2>3. Spanned' /\ Drafts' /\ Requests' /\ Joined(seen)'
    BY <1>1 DEF Dependencies, Spanned, Drafts, LeftOut, Uuid, Requests, Joined
  <2>4. Promised'
    BY <1>1 DEF Dependencies, Promised, Documented
  <2> QED BY <2>1, <2>2, <2>3, <2>4 DEF Dependencies, Joined
<1>2. ASSUME NEW u \in DOMAIN rows, Start(u) PROVE Dependencies'
  <2>1. rows' = [rows EXCEPT ![u].state = "started"] /\ UNCHANGED <<caller, objects, memory, seen, story>>
    BY <1>2 DEF Start, Update
  <2> QED BY <1>0, <1>1, <2>1 DEF Fields
<1>3. ASSUME NEW u \in DOMAIN rows, Finish(u) PROVE Dependencies'
  <2> DEFINE done == [rows EXCEPT ![u].state = "done"]
             ready == {c \in rows[u].reverse : /\ rows[c].state = "wait_dependencies"
                                               /\ \A p \in rows[c].depends : done[p].state = "done"}
  <2>1. /\ rows' = [v \in DOMAIN rows |-> IF v \in ready THEN [done[v] EXCEPT !.state = "pending"] ELSE done[v]]
        /\ UNCHANGED <<caller, objects, memory, seen, story>>
    BY <1>3 DEF Finish, Update
  <2>2. \A v \in DOMAIN rows : /\ DOMAIN done[v] = Fields /\ done[v].depends = rows[v].depends
                               /\ done[v].reverse = rows[v].reverse /\ done[v].graph = rows[v].graph
    BY <1>0 DEF Fields
  <2> HIDE DEF done, ready
  <2>3. \A v \in DOMAIN rows : /\ rows'[v].depends = rows[v].depends
                               /\ rows'[v].reverse = rows[v].reverse /\ rows'[v].graph = rows[v].graph
    BY <2>1, <2>2 DEF Fields
  <2> QED BY <1>1, <2>1, <2>3
<1>4. ASSUME NEW u \in DOMAIN rows, Notify(u) PROVE Dependencies'
  <2>1. UNCHANGED <<caller, objects, memory, seen, story, rows>>
    BY <1>4 DEF Notify
  <2> QED BY <1>1, <2>1
<1>5. CASE UNCHANGED vars
  BY <1>1, <1>5 DEF vars
<1> QED BY <1>2, <1>3, <1>4, <1>5

\* A job depends on the jobs that the documentation of chains, groups and on_done
\* says, unless a chain begins or ends with a chain, and parents and children
\* know each other and are in one graph: however objects are nested, connected
\* and shared, and delayed in one call or several, stored, left out or refused.
THEOREM DocumentationHolds == Spec => []DependsAsDocumented
<1>1. Init => Dependencies
  BY InitDependencies
<1>2. Inv /\ Dependencies /\ [Next]_vars => Dependencies'
  <2> SUFFICES ASSUME Inv, Dependencies, [Next]_vars PROVE Dependencies'
    OBVIOUS
  <2>1. CASE NewChain \/ NewGroup \/ Connect
    BY <2>1, BuildKeepsDependencies
  <2>2. ASSUME NEW x \in DOMAIN objects, Delay(x) PROVE Dependencies'
    BY <2>2, DelayKeepsDependencies
  <2>3. CASE Commit
    BY <2>3, CommitKeepsDependencies
  <2>4. CASE \E u \in DOMAIN rows : Notify(u) \/ Start(u) \/ Finish(u)
    BY <2>4, RunKeepsDependencies
  <2>5. CASE UNCHANGED vars
    BY <2>5, RunKeepsDependencies
  <2> QED BY <2>1, <2>2, <2>3, <2>4, <2>5 DEF Next
<1>3. Inv /\ Dependencies => DependsAsDocumented
  <2> SUFFICES ASSUME Inv, Dependencies PROVE DependsAsDocumented
    OBVIOUS
  <2>1. \A u \in DOMAIN rows : u \in DOMAIN seen /\ rows[u].depends = seen[u].depends
    BY DEF Inv, Snapshot, Dependencies, Alike
  <2> QED BY <2>1 DEF Dependencies, Promised, Joined, DependsAsDocumented
<1> QED BY <1>1, <1>2, <1>3, InvHolds, PTL DEF Spec

-----------------------------------------------------------------------------
(* The tree of channels. *)

Paths == Seq(STRING)

LEMMA PrefixesAre ==
  ASSUME NEW p \in Paths
  PROVE  /\ Prefixes(p) \subseteq Paths /\ p \in Prefixes(p) /\ << >> \in Prefixes(p)
         /\ \A q \in Prefixes(p) : Len(q) <= Len(p) /\ q = SubSeq(p, 1, Len(q))
<1>1. \A l \in 0..Len(p) : SubSeq(p, 1, l) \in Paths /\ Len(SubSeq(p, 1, l)) = l
  BY DEF Paths
<1>2. p = SubSeq(p, 1, Len(p)) /\ << >> = SubSeq(p, 1, 0) /\ Len(p) \in 0..Len(p) /\ 0 \in 0..Len(p)
  BY DEF Paths
<1>3. \A q \in Prefixes(p) : \E l \in 0..Len(p) : q = SubSeq(p, 1, l)
  BY DEF Prefixes
<1>4. \A l \in 0..Len(p) : SubSeq(p, 1, l) \in Prefixes(p)
  BY DEF Prefixes
<1>5. Len(p) \in Nat
  BY DEF Paths
<1>6. ASSUME NEW q \in Prefixes(p) PROVE q \in Paths /\ Len(q) <= Len(p) /\ q = SubSeq(p, 1, Len(q))
  <2>1. PICK l \in 0..Len(p) : q = SubSeq(p, 1, l)
    BY <1>3
  <2>2. Len(q) = l /\ q \in Paths
    BY <1>1, <2>1
  <2> QED BY <1>5, <2>1, <2>2
<1>7. p \in Prefixes(p) /\ << >> \in Prefixes(p)
  BY <1>2, <1>4
<1> QED BY <1>6, <1>7

\* Of two prefixes of a path, the shorter is one of the longer, and of what it begins.
LEMMA PrefixOfLonger ==
  ASSUME NEW p \in Paths, NEW q \in Paths, IsPrefix(q, p), NEW r \in Prefixes(p), Len(q) <= Len(r),
         NEW t \in Paths
  PROVE  IsPrefix(q, r \o t)
<1>1. r \in Paths /\ Len(r) <= Len(p) /\ r = SubSeq(p, 1, Len(r))
  BY PrefixesAre
<1>2. Len(q) \in Nat /\ Len(r) \in Nat /\ Len(p) \in Nat /\ Len(t) \in Nat
  BY <1>1 DEF Paths
<1>3. \A i \in 1..Len(q) : q[i] = p[i]
  <2>1. SubSeq(q, 1, Len(q)) = SubSeq(p, 1, Len(q))
    BY DEF IsPrefix
  <2>2. \A i \in 1..Len(q) : SubSeq(q, 1, Len(q))[i] = q[i] /\ SubSeq(p, 1, Len(q))[i] = p[i]
    BY <1>1, <1>2 DEF Paths
  <2> QED BY <2>1, <2>2
<1>4. \A i \in 1..Len(r) : r[i] = p[i]
  <2>1. \A i \in 1..Len(r) : SubSeq(p, 1, Len(r))[i] = p[i]
    BY <1>1, <1>2 DEF Paths
  <2> QED BY <1>1, <2>1
<1>5. /\ r \o t \in Paths /\ Len(r \o t) = Len(r) + Len(t)
      /\ \A i \in 1..Len(r) : (r \o t)[i] = r[i]
  BY <1>1 DEF Paths
<1> DEFINE s == r \o t
           n == Len(q)
<1> HIDE DEF s
<1>6. \A i \in 1..n : q[i] = s[i]
  BY <1>2, <1>3, <1>4, <1>5 DEF s
<1>7. n <= Len(s) /\ Len(s) \in Nat
  BY <1>2, <1>5 DEF s
<1>8. SubSeq(q, 1, n) = SubSeq(s, 1, n)
  <2>1. SubSeq(q, 1, n) = [i \in 1..n |-> q[i]] /\ SubSeq(s, 1, n) = [i \in 1..n |-> s[i]]
    BY <1>2, <1>5, <1>7 DEF Paths, s
  <2> QED BY <1>6, <2>1
<1> QED BY <1>7, <1>8 DEF IsPrefix, s

LEMMA PathIs ==
  ASSUME NEW name \in Paths
  PROVE  Path(name) \in Paths
<1>1. CASE name # << >> /\ Head(name) = "root"
  <2>1. Tail(name) \in Paths
    BY <1>1 DEF Paths
  <2> QED BY <1>1, <2>1 DEF Path
<1>2. CASE ~(name # << >> /\ Head(name) = "root")
  BY <1>2 DEF Path
<1> QED BY <1>1, <1>2

\* A tree in which the entries in s of a configuration are configured.
Reads(t, cfg, s) ==
    LET set == {Path(cfg[i].name) : i \in s}
    IN /\ DOMAIN t \subseteq Paths /\ << >> \in DOMAIN t
       /\ set \subseteq DOMAIN t
       /\ \A p \in set : \E i \in s : Path(cfg[i].name) = p /\ t[p] = Parsed(cfg[i])
       /\ \A p \in DOMAIN t \ (set \cup {<< >>}) : t[p] = DefaultSetting

LEMMA GrownReads ==
  ASSUME NEW t, NEW cfg, NEW s, Reads(t, cfg, s), NEW p \in Paths
  PROVE  /\ Reads(Grown(t, p), cfg, s)
         /\ DOMAIN Grown(t, p) = DOMAIN t \cup Prefixes(p)
         /\ p \in DOMAIN Grown(t, p)
<1> DEFINE g == Grown(t, p)
<1>1. DOMAIN g = DOMAIN t \cup Prefixes(p) /\ \A q \in DOMAIN g : g[q] = IF q \in DOMAIN t THEN t[q] ELSE DefaultSetting
  BY DEF Grown
<1>2. Prefixes(p) \subseteq Paths /\ p \in Prefixes(p)
  BY PrefixesAre
<1> HIDE DEF g
<1>3. Reads(g, cfg, s)
  BY <1>1, <1>2 DEF Reads
<1> QED BY <1>1, <1>2, <1>3 DEF g

LEMMA ConfigureReads ==
  ASSUME NEW t, NEW cfg, NEW s, Reads(t, cfg, s), NEW i, cfg[i].name \in Paths
  PROVE  Reads(Configure(t, cfg[i]), cfg, s \cup {i})
<1> DEFINE p == Path(cfg[i].name)
           g == Grown(t, p)
           c == Configure(t, cfg[i])
<1>1. p \in Paths
  BY PathIs
<1>2. Serves(t, cfg[i].name, FALSE) = p
  BY DEF Serves
<1>3. c = [g EXCEPT ![p] = Parsed(cfg[i])]
  BY <1>2 DEF Configure
<1>4. Reads(g, cfg, s) /\ p \in DOMAIN g
  BY <1>1, GrownReads
<1> HIDE DEF g, c
<1>5. /\ DOMAIN c = DOMAIN g /\ c[p] = Parsed(cfg[i])
      /\ \A q \in DOMAIN g : q # p => c[q] = g[q]
  BY <1>3, <1>4
<1>6. {Path(cfg[k].name) : k \in s \cup {i}} = {Path(cfg[k].name) : k \in s} \cup {p}
  OBVIOUS
<1> HIDE DEF p
<1>7. \A q \in {Path(cfg[k].name) : k \in s} \cup {p} :
        \E k \in s \cup {i} : Path(cfg[k].name) = q /\ c[q] = Parsed(cfg[k])
  <2> SUFFICES ASSUME NEW q \in {Path(cfg[k].name) : k \in s} \cup {p}
               PROVE  \E k \in s \cup {i} : Path(cfg[k].name) = q /\ c[q] = Parsed(cfg[k])
    OBVIOUS
  <2>1. CASE q = p
    BY <1>5, <2>1 DEF p
  <2>2. CASE q # p
    <3>1. PICK k \in s : Path(cfg[k].name) = q /\ g[q] = Parsed(cfg[k])
      BY <1>4, <2>2 DEF Reads
    <3>2. q \in DOMAIN g
      BY <1>4, <2>2 DEF Reads
    <3> QED BY <1>5, <2>2, <3>1, <3>2
  <2> QED BY <2>1, <2>2
<1> QED BY <1>4, <1>5, <1>6, <1>7 DEF Reads, c

\* The trees that simple_configure makes on its way, for each set of entries.
Trees(W, cfg) ==
    W = [s \in SUBSET DOMAIN cfg |->
            IF s = {} THEN RootOnly ELSE Configure(W[s \ {Max(s)}], cfg[Max(s)])]

LEMMA MaxIn ==
  ASSUME NEW n \in Nat, NEW s \in SUBSET (1..n), s # {}
  PROVE  Max(s) \in s
<1> DEFINE R == {n - k : k \in s}
<1>1. \A k \in s : n - k \in Nat /\ n - k \in R
  OBVIOUS
<1>2. R \in SUBSET Nat /\ R # {}
  BY <1>1
<1>3. PICK r \in R : \A q \in R : r <= q
  BY <1>2, Smallest
<1>4. PICK k \in s : r = n - k
  BY <1>3
<1> HIDE DEF R
<1>5. \A j \in s : n - k <= n - j
  BY <1>1, <1>3, <1>4
<1>6. \A j \in s : k >= j
  BY <1>5
<1> QED BY <1>4, <1>6 DEF Max

LEMMA SubsetInduction ==
  ASSUME NEW S, IsFiniteSet(S), NEW Q,
         \A s \in SUBSET S : (\A x \in s : s \ {x} \in Q) => s \in Q
  PROVE  \A s \in SUBSET S : s \in Q
<1> DEFINE Gaps == {s \in SUBSET S : s \notin Q}
           Sizes == {Cardinality(s) : s \in Gaps}
<1> SUFFICES ASSUME Gaps # {} PROVE FALSE
  OBVIOUS
<1>1. \A s \in SUBSET S : IsFiniteSet(s) /\ Cardinality(s) \in Nat
  BY FS_Subset, FS_CardinalityType
<1>2. PICK s \in Gaps : \A t \in Gaps : Cardinality(s) <= Cardinality(t)
  <2>1. Sizes \in SUBSET Nat /\ Sizes # {}
    BY <1>1
  <2>2. PICK n \in Sizes : \A m \in Sizes : n <= m
    BY <2>1, Smallest
  <2> QED BY <2>2
<1>3. ASSUME NEW x \in s PROVE s \ {x} \in Q
  <2>1. Cardinality(s \ {x}) = Cardinality(s) - 1
    BY <1>1, FS_RemoveElement
  <2>2. s \ {x} \notin Gaps
    BY <1>1, <1>2, <2>1
  <2> QED BY <2>2
<1> QED BY <1>3

LEMMA TreesExist ==
  ASSUME NEW cfg, Len(cfg) \in Nat, DOMAIN cfg = 1..Len(cfg)
  PROVE  \E W : Trees(W, cfg)
<1> DEFINE S == DOMAIN cfg
           Upto(n) == {s \in SUBSET S : Cardinality(s) <= n}
           Level(W, n) == W = [s \in Upto(n) |->
                                IF s = {} THEN RootOnly ELSE Configure(W[s \ {Max(s)}], cfg[Max(s)])]
           Q == {n \in Nat : \E W : Level(W, n)}
<1>0. IsFiniteSet(S)
  BY FS_Interval
<1>1. \A s \in SUBSET S : IsFiniteSet(s) /\ Cardinality(s) \in Nat
  BY <1>0, FS_Subset, FS_CardinalityType
<1>2. \A s \in SUBSET S : s # {} => /\ s \ {Max(s)} \in SUBSET S
                                    /\ Cardinality(s \ {Max(s)}) = Cardinality(s) - 1
  BY <1>1, MaxIn, FS_RemoveElement
<1>3. 0 \in Q
  <2> DEFINE W == [s \in Upto(0) |-> RootOnly]
  <2>1. \A s \in Upto(0) : s = {}
    BY <1>1, FS_EmptySet
  <2>2. Level(W, 0)
    BY <2>1
  <2> QED BY <2>2
<1>4. ASSUME NEW n \in Nat, n \in Q PROVE n + 1 \in Q
  <2>1. PICK W : Level(W, n)
    BY <1>4
  <2>2. \A s \in Upto(n) : W[s] = IF s = {} THEN RootOnly ELSE Configure(W[s \ {Max(s)}], cfg[Max(s)])
    BY <2>1
  <2> DEFINE V == [s \in Upto(n + 1) |->
                    IF s = {} THEN RootOnly ELSE Configure(W[s \ {Max(s)}], cfg[Max(s)])]
  <2>3. \A s \in Upto(n + 1) : s # {} => s \ {Max(s)} \in Upto(n)
    <3> SUFFICES ASSUME NEW s \in Upto(n + 1), s # {} PROVE s \ {Max(s)} \in Upto(n)
      OBVIOUS
    <3>1. Cardinality(s) \in Nat /\ Cardinality(s) <= n + 1
      BY <1>1
    <3>2. s \ {Max(s)} \in SUBSET S /\ Cardinality(s \ {Max(s)}) = Cardinality(s) - 1
      BY <1>2
    <3> QED BY <3>1, <3>2
  <2>4. Upto(n) \subseteq Upto(n + 1)
    BY <1>1
  <2>5. \A s \in Upto(n) : V[s] = W[s]
    BY <2>2, <2>4
  <2> HIDE DEF Upto
  <2>6. Level(V, n + 1)
    <3>1. \A s \in Upto(n + 1) : s # {} => V[s \ {Max(s)}] = W[s \ {Max(s)}]
      BY <2>3, <2>5
    <3> DEFINE U == [s \in Upto(n + 1) |->
                      IF s = {} THEN RootOnly ELSE Configure(V[s \ {Max(s)}], cfg[Max(s)])]
    <3>2. \A s \in Upto(n + 1) : V[s] = U[s]
      BY <3>1
    <3> QED BY <3>2
  <2> HIDE DEF V, Level
  <2> QED BY <2>6
<1>5. Cardinality(S) \in Q
  BY <1>1, <1>3, <1>4, Induction
<1>6. Upto(Cardinality(S)) = SUBSET S
  BY <1>0, <1>1, FS_Subset
<1> QED BY <1>5, <1>6 DEF Trees

\* What simple_configure makes of a configuration.
LEMMA SimpleConfigureReads ==
  ASSUME NEW cfg, Len(cfg) \in Nat, DOMAIN cfg = 1..Len(cfg), \A i \in DOMAIN cfg : cfg[i].name \in Paths
  PROVE  Reads(SimpleConfigure(cfg), cfg, DOMAIN cfg)
<1> DEFINE W == CHOOSE V : Trees(V, cfg)
           S == DOMAIN cfg
           Q == {s \in SUBSET S : Reads(W[s], cfg, s)}
<1>1. SimpleConfigure(cfg) = W[S]
  BY Zenon DEF SimpleConfigure, FoldLeft, MapThenFoldSet, Trees
<1>2. Trees(W, cfg)
  BY TreesExist
<1> HIDE DEF W
<1>3. \A s \in SUBSET S : W[s] = IF s = {} THEN RootOnly ELSE Configure(W[s \ {Max(s)}], cfg[Max(s)])
  BY <1>2 DEF Trees
<1>4. ASSUME NEW s \in SUBSET S, \A x \in s : s \ {x} \in Q PROVE s \in Q
  <2>1. CASE s = {}
    <3>1. DOMAIN RootOnly = {<< >>}
      BY DEF RootOnly
    <3>2. << >> \in Paths
      BY DEF Paths
    <3>3. Reads(RootOnly, cfg, {})
      BY <3>1, <3>2 DEF Reads
    <3> QED BY <1>3, <2>1, <3>3
  <2>2. CASE s # {}
    <3> DEFINE i == Max(s)
    <3>1. i \in s
      BY <2>2, MaxIn
    <3> HIDE DEF i
    <3>2. Reads(W[s \ {i}], cfg, s \ {i})
      BY <1>4, <3>1
    <3>3. Reads(Configure(W[s \ {i}], cfg[i]), cfg, (s \ {i}) \cup {i})
      BY <3>1, <3>2, ConfigureReads
    <3>4. (s \ {i}) \cup {i} = s
      BY <3>1
    <3>5. W[s] = Configure(W[s \ {i}], cfg[i])
      BY <1>3, <2>2 DEF i
    <3> QED BY <3>3, <3>4, <3>5
  <2> QED BY <2>1, <2>2
<1>5. IsFiniteSet(S)
  BY FS_Interval
<1> HIDE DEF Q
<1>6. \A s \in SUBSET S : (\A x \in s : s \ {x} \in Q) => s \in Q
  BY <1>4
<1>7. \A s \in SUBSET S : s \in Q
  BY <1>5, <1>6, SubsetInduction
<1>8. S \in Q
  BY <1>7
<1> QED BY <1>1, <1>8 DEF Q

\* A channel that is found for a job is in or below the channels of the tree that
\* are named at the beginning of the channel of the job.
LEMMA ServesIs ==
  ASSUME NEW t, DOMAIN t \subseteq Paths, << >> \in DOMAIN t, NEW name \in Paths
  PROVE  /\ Serves(t, name, TRUE) \in Paths
         /\ \A q \in DOMAIN t : IsPrefix(q, Path(name)) => IsPrefix(q, Serves(t, name, TRUE))
<1> DEFINE p == Path(name)
           K == (Prefixes(p) \cap DOMAIN t) \ {p}
           c == Closest(t, p)
<1>1. p \in Paths
  BY PathIs
<1>2. CASE p \in DOMAIN t
  BY <1>1, <1>2 DEF Serves
<1>3. CASE p \notin DOMAIN t
  <2>1. Serves(t, name, TRUE) = c \o p
    BY <1>3 DEF Serves
  <2>2. /\ << >> \in K /\ K \subseteq Paths
        /\ \A q \in K : Len(q) \in Nat /\ Len(q) <= Len(p)
    <3>1. K \subseteq Paths
      OBVIOUS
    <3>2. << >> \in Prefixes(p) /\ \A q \in Prefixes(p) : Len(q) <= Len(p)
      BY <1>1, PrefixesAre
    <3>3. \A q \in Paths : Len(q) \in Nat
      BY DEF Paths
    <3> QED BY <1>3, <3>1, <3>2, <3>3
  <2>3. Len(p) \in Nat
    BY <1>1 DEF Paths
  <2> HIDE DEF K, p
  <2>4. PICK m \in K : \A q \in K : Len(q) <= Len(m)
    <3> DEFINE R == {Len(p) - Len(q) : q \in K}
    <3>1. \A q \in K : Len(p) - Len(q) \in Nat /\ Len(p) - Len(q) \in R
      BY <2>2, <2>3
    <3>2. R \in SUBSET Nat /\ R # {}
      BY <2>2, <3>1
    <3>3. PICK r \in R : \A s \in R : r <= s
      BY <3>2, Smallest
    <3>4. PICK k \in K : r = Len(p) - Len(k)
      BY <3>3
    <3> HIDE DEF R
    <3>5. \A q \in K : Len(p) - Len(k) <= Len(p) - Len(q)
      BY <3>1, <3>3, <3>4
    <3>6. \A q \in K : Len(q) <= Len(k)
      BY <2>2, <2>3, <3>5
    <3> QED BY <3>6
  <2>5. c \in K /\ \A q \in K : Len(q) <= Len(c)
    <3>1. \E k \in Prefixes(p) \cap DOMAIN t :
            /\ k # p
            /\ \A q \in Prefixes(p) \cap DOMAIN t : q # p => Len(q) <= Len(k)
      BY <2>4 DEF K
    <3>2. /\ c \in Prefixes(p) \cap DOMAIN t /\ c # p
          /\ \A q \in Prefixes(p) \cap DOMAIN t : q # p => Len(q) <= Len(c)
      BY <3>1, Zenon DEF Closest
    <3> QED BY <3>2 DEF K
  <2>6. c \in Prefixes(p) /\ c \in Paths
    BY <2>2, <2>5 DEF K
  <2> HIDE DEF c
  <2>7. c \o p \in Paths
    BY <1>1, <2>6 DEF Paths
  <2>8. ASSUME NEW q \in DOMAIN t, IsPrefix(q, p) PROVE IsPrefix(q, c \o p)
    <3>1. q \in Paths /\ Len(q) \in 0..Len(p)
      <4>1. q \in Paths
        OBVIOUS
      <4>2. Len(q) \in Nat
        BY <4>1 DEF Paths
      <4> QED BY <2>3, <2>8, <4>1, <4>2 DEF IsPrefix
    <3>2. q = SubSeq(p, 1, Len(q))
      <4>1. q = SubSeq(q, 1, Len(q))
        BY <3>1 DEF Paths
      <4> QED BY <2>8, <4>1 DEF IsPrefix
    <3>3. q \in K
      BY <1>3, <3>1, <3>2 DEF K, Prefixes, p
    <3>4. Len(q) <= Len(c)
      BY <2>5, <3>3
    <3> QED BY <1>1, <2>6, <2>8, <3>1, <3>4, PrefixOfLonger
  <2> QED BY <2>1, <2>7, <2>8 DEF p
<1> QED BY <1>2, <1>3

-----------------------------------------------------------------------------
(* Where the jobs are filed. *)

Channelled(t) == \A u \in DOMAIN t : t[u].channel \in Paths

\* The delayables are those of the caller; the jobs have channels that can be
\* looked up; the tree is that of the configuration and what grew on it, and what
\* is configured above a job that has been filed is above its channel in the tree.
Filed ==
    /\ \A x \in DOMAIN objects :
        objects[x].kind = "delayable" => caller \in DOMAIN Callers /\ x \in DOMAIN Callers[caller]
    /\ Channelled(memory) /\ Channelled(seen) /\ Channelled(rows)
    /\ config \in Configs /\ Reads(tree, config, DOMAIN config)
    /\ \A u \in DOMAIN served :
        /\ u \in DOMAIN rows
        /\ \A i \in DOMAIN config : IsPrefix(Path(config[i].name), Path(rows[u].channel))
                                    => IsPrefix(Path(config[i].name), served[u])

LEMMA InitFiled == Init => Filed
<1> SUFFICES ASSUME Init PROVE Filed
  OBVIOUS
<1>1. config \in Configs /\ tree = SimpleConfigure(config)
  BY DEF Init
<1>2. Reads(tree, config, DOMAIN config)
  BY <1>1, SimpleConfigureReads, CreationAssumption DEF Paths
<1>3. objects = Delayables(1) /\ DOMAIN memory = {} /\ DOMAIN seen = {} /\ DOMAIN rows = {} /\ DOMAIN served = {}
      /\ caller = 1
  BY DEF Init
<1>4. 1 \in DOMAIN Callers /\ DOMAIN objects = DOMAIN Callers[1]
  BY <1>3, CreationAssumption DEF Delayables
<1> QED BY <1>1, <1>2, <1>3, <1>4 DEF Filed, Channelled

\* The next caller has delayables of its own.
LEMMA NextFiled ==
  ASSUME Filed, NEW table, Serve(caller + 1, table), Channelled(table), Channelled(rows'),
         UNCHANGED <<config, tree, served>>,
         \A u \in DOMAIN rows : u \in DOMAIN rows' /\ rows'[u] = rows[u]
  PROVE  Filed'
<1>1. seen' = table /\ DOMAIN memory' = {} /\ caller' = caller + 1
  BY ServeIs
<1>2. objects' = IF caller' \in DOMAIN Callers THEN Delayables(caller') ELSE << >>
  BY DEF Serve
<1>3. ASSUME NEW x \in DOMAIN objects' PROVE caller' \in DOMAIN Callers /\ x \in DOMAIN Callers[caller']
  <2>1. caller' \in DOMAIN Callers
    BY <1>2, <1>3
  <2>2. objects' = Delayables(caller')
    BY <1>2, <2>1
  <2> QED BY <1>3, <2>1, <2>2 DEF Delayables
<1>4. Channelled(memory)' /\ Channelled(seen)' /\ Channelled(rows)'
  BY <1>1 DEF Channelled
<1>5. \A u \in DOMAIN served' :
        /\ u \in DOMAIN rows'
        /\ \A i \in DOMAIN config' : IsPrefix(Path(config'[i].name), Path(rows'[u].channel))
                                     => IsPrefix(Path(config'[i].name), served'[u])
  BY DEF Filed
<1>6. config' \in Configs /\ Reads(tree', config', DOMAIN config')
  BY DEF Filed
<1> QED BY <1>3, <1>4, <1>5, <1>6 DEF Filed

LEMMA BuildKeepsFiled ==
  ASSUME Inv, Filed, NewChain \/ NewGroup \/ Connect
  PROVE  Filed'
<1>1. UNCHANGED <<config, tree, caller, memory, seen, rows, served, story>>
  BY DEF NewChain, NewGroup, Connect, Build
<1>2. objects \in Seq(Record)
  BY DEF Inv, Objects
<1>3. ASSUME NEW x \in DOMAIN objects', objects'[x].kind = "delayable"
      PROVE  x \in DOMAIN objects /\ objects[x].kind = "delayable"
  <2>1. CASE NewChain \/ NewGroup
    <3>0. \A items : Chain(items).kind # "delayable" /\ Group(items).kind # "delayable"
      BY DEF Chain, Group, Object
    <3> DEFINE Added(o) == objects' = Append(objects, o) /\ o.kind # "delayable"
    <3>1. \E o : Added(o)
      <4>1. CASE NewChain
        <5>1. PICK items : objects' = Append(objects, Chain(items))
          BY <4>1 DEF NewChain, Build
        <5>2. Added(Chain(items))
          BY <3>0, <5>1
        <5> QED BY <5>2
      <4>2. CASE NewGroup
        <5>1. PICK items : objects' = Append(objects, Group(items))
          BY <4>2 DEF NewGroup, Build
        <5>2. Added(Group(items))
          BY <3>0, <5>1
        <5> QED BY <5>2
      <4> QED BY <2>1, <4>1, <4>2
    <3>2. PICK o : Added(o)
      BY <3>1
    <3>3. /\ DOMAIN objects' = 1..(Len(objects) + 1) /\ DOMAIN objects = 1..Len(objects) /\ Len(objects) \in Nat
          /\ objects'[Len(objects) + 1] = o /\ \A y \in DOMAIN objects : objects'[y] = objects[y]
      BY <1>2, <3>2
    <3> QED BY <1>3, <3>2, <3>3
  <2>2. CASE Connect
    <3>1. \E y \in DOMAIN objects : \E Y : objects' = OnDone(objects, y, Y)
      BY <2>2 DEF Connect, Build
    <3>2. /\ DOMAIN objects' = DOMAIN objects
          /\ \A z \in DOMAIN objects : objects'[z].kind = objects[z].kind
      BY <1>2, <3>1 DEF OnDone, Record
    <3> QED BY <1>3, <3>2
  <2> QED BY <2>1, <2>2
<1> QED BY <1>1, <1>3 DEF Filed, Channelled

LEMMA DelayKeepsFiled ==
  ASSUME Inv, Filed, NEW x \in DOMAIN objects, Delay(x)
  PROVE  Filed'
<1> DEFINE M == Members(objects, x)
           links == Links(objects, Ends(objects), x)
           B == Built(M)
           jobs == Connected(B, M, links)
<1>1. UNCHANGED <<config, tree, rows, served>>
  BY DEF Delay
<1>2. /\ \/ Serve(caller + 1, rows)
         \/ /\ memory' = jobs /\ (seen' = Stored(jobs, M) \/ seen' = seen)
            /\ UNCHANGED <<caller, objects>>
  BY Zenon DEF Delay
<1>3. CASE Serve(caller + 1, rows)
  BY <1>1, <1>3, NextFiled DEF Filed
<1>4. CASE /\ memory' = jobs /\ (seen' = Stored(jobs, M) \/ seen' = seen)
           /\ UNCHANGED <<caller, objects>>
  <2>1. M \in SUBSET Nat
    BY GraphIsSound DEF Inv, Sound
  <2>2. \A d \in M : caller \in DOMAIN Callers /\ d \in DOMAIN Callers[caller]
    <3>1. Visited(objects, x) \subseteq DOMAIN objects
      BY VisitedIsClosed DEF Inv
    <3>2. \A d \in M : d \in DOMAIN objects /\ objects[d].kind = "delayable"
      BY <3>1 DEF Members
    <3> QED BY <3>2 DEF Filed
  <2> HIDE DEF M
  <2>3. \A d \in M : NewJob(d).channel \in Paths
    BY <2>2, CreationAssumption DEF NewJob, Props, Paths
  <2>4. DOMAIN B = M \cup DOMAIN memory /\ \A d \in DOMAIN B : DOMAIN B[d] = Fields
    BY <2>1, BuiltIs
  <2>5. \A d \in DOMAIN B : B[d] = IF d \in DOMAIN memory THEN memory[d] ELSE NewJob(d)
    BY DEF Built
  <2>6. \A d \in DOMAIN B : B[d].channel \in Paths
    BY <2>3, <2>4, <2>5 DEF Filed, Channelled
  <2> HIDE DEF B
  <2>7. DOMAIN jobs = DOMAIN B /\ \A d \in DOMAIN B : jobs[d].channel = B[d].channel
    BY <2>4 DEF Connected, Fields
  <2> HIDE DEF jobs
  <2>8. Channelled(memory')
    BY <1>4, <2>6, <2>7 DEF Channelled
  <2>9. Channelled(seen')
    <3>1. CASE seen' = Stored(jobs, M)
      <4>1. /\ DOMAIN seen' = DOMAIN seen \cup NewRows(M)
            /\ \A u \in DOMAIN seen' : seen'[u] = IF u \in NewRows(M) THEN jobs[u[2]] ELSE seen[u]
            /\ \A u \in NewRows(M) : u[2] \in M
        BY <2>1, <3>1, StoredTable
      <4> QED BY <2>4, <2>6, <2>7, <4>1 DEF Filed, Channelled
    <3>2. CASE seen' = seen
      BY <3>2 DEF Filed
    <3> QED BY <1>4, <3>1, <3>2
  <2> QED BY <1>1, <1>4, <2>8, <2>9 DEF Filed, Channelled
<1> QED BY <1>2, <1>3, <1>4

LEMMA CommitKeepsFiled ==
  ASSUME Inv, Filed, Commit
  PROVE  Filed'
<1>1. /\ rows' = [u \in DOMAIN rows \cup Own(seen) |-> IF u \in Own(seen) THEN seen[u] ELSE rows[u]]
      /\ Serve(caller + 1, rows') /\ UNCHANGED <<config, tree, served>>
  BY DEF Commit
<1>2. \A u \in Own(seen) : u \in DOMAIN seen /\ u \notin DOMAIN rows
  BY DEF Own, Inv, Snapshot
<1>3. DOMAIN rows' = DOMAIN rows \cup Own(seen)
      /\ \A u \in DOMAIN rows' : rows'[u] = IF u \in Own(seen) THEN seen[u] ELSE rows[u]
  BY <1>1
<1>4. Channelled(rows')
  BY <1>2, <1>3 DEF Filed, Channelled
<1>5. \A u \in DOMAIN rows : u \in DOMAIN rows' /\ rows'[u] = rows[u]
  BY <1>2, <1>3
<1> QED BY <1>1, <1>4, <1>5, NextFiled

LEMMA NotifyKeepsFiled ==
  ASSUME Filed, NEW u \in DOMAIN rows, Notify(u)
  PROVE  Filed'
<1> DEFINE path == Serves(tree, rows[u].channel, TRUE)
<1>1. /\ tree' = Grown(tree, path)
      /\ served' = [v \in DOMAIN served \cup {u} |-> IF v = u THEN path ELSE served[v]]
      /\ UNCHANGED <<config, caller, objects, memory, seen, rows>>
  BY DEF Notify
<1>2. rows[u].channel \in Paths /\ DOMAIN tree \subseteq Paths /\ << >> \in DOMAIN tree
  BY DEF Filed, Channelled, Reads
<1>3. path \in Paths /\ \A q \in DOMAIN tree : IsPrefix(q, Path(rows[u].channel)) => IsPrefix(q, path)
  BY <1>2, ServesIs
<1> HIDE DEF path
<1>4. Reads(tree', config', DOMAIN config')
  BY <1>1, <1>3, GrownReads DEF Filed
<1>5. \A i \in DOMAIN config : Path(config[i].name) \in DOMAIN tree
  BY DEF Filed, Reads
<1>6. ASSUME NEW v \in DOMAIN served'
      PROVE  /\ v \in DOMAIN rows
             /\ \A i \in DOMAIN config : IsPrefix(Path(config[i].name), Path(rows[v].channel))
                                         => IsPrefix(Path(config[i].name), served'[v])
  <2>1. CASE v = u
    <3>1. served'[v] = path
      BY <1>1, <2>1
    <3> QED BY <1>3, <1>5, <2>1, <3>1
  <2>2. CASE v # u
    <3>1. v \in DOMAIN served /\ served'[v] = served[v]
      BY <1>1, <2>2
    <3> QED BY <3>1 DEF Filed
  <2> QED BY <2>1, <2>2
<1> QED BY <1>1, <1>4, <1>6 DEF Filed

LEMMA RowsKeepFiled ==
  ASSUME Filed, UNCHANGED <<config, tree, caller, objects, memory, seen, served>>,
         DOMAIN rows' = DOMAIN rows, \A u \in DOMAIN rows : rows'[u].channel = rows[u].channel
  PROVE  Filed'
<1>1. Channelled(rows')
  BY DEF Filed, Channelled
<1> QED BY <1>1 DEF Filed

LEMMA RunKeepsFiled ==
  ASSUME Inv, Filed, NEW u \in DOMAIN rows, Start(u) \/ Finish(u)
  PROVE  Filed'
<1>1. UNCHANGED <<config, tree, caller, objects, memory, seen, served>>
  BY DEF Start, Finish, Update
<1>2. \A v \in DOMAIN rows : DOMAIN rows[v] = Fields
  BY DEF Inv, Snapshot, Table
<1>3. DOMAIN rows' = DOMAIN rows /\ \A v \in DOMAIN rows : rows'[v].channel = rows[v].channel
  <2>1. CASE Start(u)
    <3>1. rows' = [rows EXCEPT ![u].state = "started"]
      BY <2>1 DEF Start, Update
    <3> QED BY <1>2, <3>1 DEF Fields
  <2>2. CASE Finish(u)
    <3> DEFINE done == [rows EXCEPT ![u].state = "done"]
    <3>1. PICK ready : rows' = [v \in DOMAIN rows |->
                                    IF v \in ready THEN [done[v] EXCEPT !.state = "pending"] ELSE done[v]]
      BY <2>2 DEF Finish, Update
    <3>2. \A v \in DOMAIN rows : DOMAIN done[v] = Fields /\ done[v].channel = rows[v].channel
      BY <1>2 DEF Fields
    <3> HIDE DEF done
    <3> QED BY <3>1, <3>2 DEF Fields
  <2> QED BY <2>1, <2>2
<1> QED BY <1>1, <1>3, RowsKeepFiled

\* What is configured for a channel holds for every job that is named to run in it
\* or below (get_channel_by_name, simple_configure), for any callers, any
\* configurations and any number of channels that grow.
THEOREM LimitsHold == Spec => []LimitsApply
<1>1. Init => Filed
  BY InitFiled
<1>2. Inv /\ Filed /\ [Next]_vars => Filed'
  <2> SUFFICES ASSUME Inv, Filed, [Next]_vars PROVE Filed'
    OBVIOUS
  <2>1. CASE NewChain \/ NewGroup \/ Connect
    BY <2>1, BuildKeepsFiled
  <2>2. CASE \E x \in DOMAIN objects : Delay(x)
    BY <2>2, DelayKeepsFiled
  <2>3. CASE Commit
    BY <2>3, CommitKeepsFiled
  <2>4. CASE \E u \in DOMAIN rows : Notify(u)
    BY <2>4, NotifyKeepsFiled
  <2>5. CASE \E u \in DOMAIN rows : Start(u) \/ Finish(u)
    BY <2>5, RunKeepsFiled
  <2>6. CASE UNCHANGED vars
    BY <2>6 DEF vars, Filed, Channelled
  <2> QED BY <2>1, <2>2, <2>3, <2>4, <2>5, <2>6 DEF Next
<1>3. Filed => LimitsApply
  <2> SUFFICES ASSUME Filed PROVE LimitsApply
    OBVIOUS
  <2> DEFINE set == {Path(config[i].name) : i \in DOMAIN config}
  <2>1. /\ set \subseteq DOMAIN tree
        /\ \A p \in set : \E i \in DOMAIN config : Path(config[i].name) = p /\ tree[p] = Parsed(config[i])
        /\ \A p \in DOMAIN tree \ (set \cup {<< >>}) : tree[p] = DefaultSetting
    BY DEF Filed, Reads
  <2>2. \A u \in DOMAIN served : \A p \in set :
            IsPrefix(p, Path(rows[u].channel)) => IsPrefix(p, served[u])
    BY DEF Filed
  <2> QED BY <2>1, <2>2 DEF LimitsApply
<1> QED BY <1>1, <1>2, <1>3, InvHolds, PTL DEF Spec

-----------------------------------------------------------------------------
(* The order in which jobs are executed at once. *)

\* The states of a loop that starts with a and goes on by g.
Loop(f, S, a, g) == f \in [Nat -> S] /\ f[0] = a /\ \A n \in Nat : f[n + 1] = g[f[n]]

LEMMA LoopExists ==
  ASSUME NEW S, NEW a \in S, NEW g \in [S -> S]
  PROVE  \E f : Loop(f, S, a, g)
<1> DEFINE Runs(W, n) == W \in [0..n -> S] /\ W[0] = a /\ \A k \in 0..n : k # 0 => W[k] = g[W[k - 1]]
           Q == {n \in Nat : \E W : Runs(W, n)}
<1>1. 0 \in Q
  <2> DEFINE W == [k \in 0..0 |-> a]
  <2>1. Runs(W, 0)
    OBVIOUS
  <2> QED BY <2>1
<1>2. ASSUME NEW n \in Nat, n \in Q PROVE n + 1 \in Q
  <2>1. PICK W : Runs(W, n)
    BY <1>2
  <2> DEFINE V == [k \in 0..(n + 1) |-> IF k = n + 1 THEN g[W[n]] ELSE W[k]]
  <2>2. W \in [0..n -> S] /\ W[0] = a /\ \A k \in 0..n : k # 0 => W[k] = g[W[k - 1]]
    BY <2>1
  <2>3. \A k \in 0..(n + 1) : k # n + 1 => k \in 0..n
    OBVIOUS
  <2>4. V \in [0..(n + 1) -> S]
    BY <2>2, <2>3
  <2>5. V[0] = a
    BY <2>2
  <2>6. \A k \in 0..(n + 1) : k # 0 => V[k] = g[V[k - 1]]
    <3> SUFFICES ASSUME NEW k \in 0..(n + 1), k # 0 PROVE V[k] = g[V[k - 1]]
      OBVIOUS
    <3>1. k - 1 \in 0..n /\ k - 1 \in 0..(n + 1) /\ k - 1 # n + 1
      OBVIOUS
    <3>2. V[k - 1] = W[k - 1]
      BY <3>1
    <3>3. CASE k = n + 1
      BY <3>2, <3>3
    <3>4. CASE k # n + 1
      BY <2>2, <2>3, <3>2, <3>4
    <3> QED BY <3>3, <3>4
  <2> HIDE DEF V
  <2>7. Runs(V, n + 1)
    BY <2>4, <2>5, <2>6
  <2> HIDE DEF Runs
  <2> QED BY <2>7
<1>3. \A n \in Nat : \E W : Runs(W, n)
  <2> HIDE DEF Runs
  <2>1. \A n \in Nat : n \in Q
    <3> HIDE DEF Q
    <3> QED BY <1>1, <1>2, Induction
  <2> QED BY <2>1
<1>4. ASSUME NEW n \in Nat, NEW W, Runs(W, n), NEW V, Runs(V, n + 1)
      PROVE  \A k \in Nat : k <= n => W[k] = V[k]
  <2> DEFINE R == {k \in Nat : k <= n => W[k] = V[k]}
  <2>1. W[0] = V[0]
    BY <1>4
  <2>2. 0 \in R
    BY <2>1
  <2>3. ASSUME NEW k \in Nat, k \in R PROVE k + 1 \in R
    <3> SUFFICES ASSUME k + 1 <= n PROVE W[k + 1] = V[k + 1]
      OBVIOUS
    <3>1. k + 1 \in 0..n /\ k + 1 \in 0..(n + 1) /\ k + 1 # 0 /\ (k + 1) - 1 = k /\ k <= n
      OBVIOUS
    <3>2. W[k] = V[k]
      BY <2>3, <3>1
    <3> QED BY <1>4, <3>1, <3>2
  <2> HIDE DEF R
  <2>4. \A k \in Nat : k \in R
    BY <2>2, <2>3, Induction
  <2> QED BY <2>4 DEF R
<1> DEFINE W(n) == CHOOSE V : Runs(V, n)
           f == [n \in Nat |-> W(n)[n]]
<1>5. \A n \in Nat : Runs(W(n), n)
  BY <1>3
<1> HIDE DEF W
<1>6. f \in [Nat -> S] /\ f[0] = a
  BY <1>5
<1>7. ASSUME NEW n \in Nat PROVE f[n + 1] = g[f[n]]
  <2>1. Runs(W(n), n) /\ Runs(W(n + 1), n + 1)
    BY <1>5
  <2>2. W(n)[n] = W(n + 1)[n]
    <3> HIDE DEF Runs
    <3>1. \A k \in Nat : k <= n => W(n)[k] = W(n + 1)[k]
      BY <1>4, <2>1
    <3> QED BY <3>1
  <2>3. n + 1 \in 0..(n + 1) /\ n + 1 # 0 /\ (n + 1) - 1 = n
    OBVIOUS
  <2>4. W(n + 1)[n + 1] = g[W(n + 1)[n]]
    BY <2>1, <2>3
  <2> QED BY <2>2, <2>4
<1> HIDE DEF f
<1>8. Loop(f, S, a, g)
  BY <1>6, <1>7 DEF Loop
<1> QED BY <1>8

\* The elements of a set, each once.
LEMMA SetToSeqIs ==
  ASSUME NEW S, IsFiniteSet(S)
  PROVE  /\ SetToSeq(S) \in Seq(S) /\ Len(SetToSeq(S)) = Cardinality(S)
         /\ ToSet(SetToSeq(S)) = S /\ IsInjective(SetToSeq(S))
<1> DEFINE n == Cardinality(S)
           q == SetToSeq(S)
<1>1. n \in Nat
  BY FS_CardinalityType
<1>2. \E b \in [1..n -> S] : IsInjective(b)
  BY FS_CardinalityType DEF ExistsBijection, Bijection, Injection
<1>3. q \in [1..n -> S] /\ IsInjective(q)
  BY <1>2 DEF SetToSeq
<1> HIDE DEF q
<1>4. q \in Seq(S) /\ Len(q) = n
  BY <1>1, <1>3
<1>5. q \in Injection(1..n, S)
  BY <1>3 DEF Injection
<1>6. q \in Surjection(1..n, S)
  <2>1. Cardinality(1..n) = n
    BY <1>1, FS_Interval
  <2> QED BY <1>5, <2>1, FS_Injection
<1>7. ToSet(q) = S
  BY <1>3, <1>6 DEF Surjection, ToSet
<1> QED BY <1>3, <1>4, <1>7 DEF q

Unyielded(E, order, w) == {e \in E : e[2] = w /\ e[1] \notin ToSet(order)}

States(V) == [queue : Seq(V), left : [V -> Int], order : Seq(V)]

\* What the sort starts with and how it goes on, as in TopologicalSort.
First(V, E) ==
    [queue |-> SetToSeq(RootVertices(V, E)),
     left |-> [v \in V |-> Cardinality({e \in E : e[2] = v})],
     order |-> << >>]

Yield(V, E, state) ==
    LET v == Head(state.queue)
        next == Successors(E, v)
        left == [w \in V |-> state.left[w] - (IF w \in next THEN 1 ELSE 0)]
    IN [queue |-> Tail(state.queue) \o SetToSeq({w \in next : left[w] = 0}),
        left |-> left,
        order |-> Append(state.order, v)]

Going(V, E, state) == IF state.queue = << >> THEN state ELSE Yield(V, E, state)

\* A vertex is queued once, when all before it are yielded.
Sorted(V, E, s) ==
    /\ s \in States(V)
    /\ IsInjective(s.order) /\ IsInjective(s.queue) /\ ToSet(s.order) \cap ToSet(s.queue) = {}
    /\ \A w \in V : s.left[w] = Cardinality(Unyielded(E, s.order, w))
    /\ \A w \in V : w \in ToSet(s.order) \cup ToSet(s.queue) <=> Unyielded(E, s.order, w) = {}
    /\ \A i, j \in DOMAIN s.order : <<s.order[i], s.order[j]>> \in E => i < j

LEMMA FirstSorted ==
  ASSUME NEW V, IsFiniteSet(V), NEW E \in SUBSET (V \X V)
  PROVE  Sorted(V, E, First(V, E))
<1> DEFINE s == First(V, E)
           R == RootVertices(V, E)
           In(v) == {e \in E : e[2] = v}
<1>1. IsFiniteSet(E) /\ IsFiniteSet(R) /\ R \subseteq V
  <2>1. IsFiniteSet(V \X V)
    BY FS_Product
  <2>2. R \subseteq V
    BY DEF RootVertices
  <2> QED BY <2>1, <2>2, FS_Subset
<1>2. \A v : IsFiniteSet(In(v))
  BY <1>1, FS_Subset
<1> HIDE DEF In
<1>3. \A v : Cardinality(In(v)) \in Int
  <2>1. \A v : Cardinality(In(v)) \in Nat
    BY <1>2, FS_CardinalityType
  <2> QED BY <2>1
<1>4. /\ SetToSeq(R) \in Seq(R) /\ ToSet(SetToSeq(R)) = R /\ IsInjective(SetToSeq(R))
  BY <1>1, SetToSeqIs
<1>5. /\ s.queue = SetToSeq(R) /\ s.left = [v \in V |-> Cardinality(In(v))]
      /\ s.order = << >> /\ s = [queue |-> s.queue, left |-> s.left, order |-> s.order]
  BY DEF First, In
<1> HIDE DEF s
<1>6. SetToSeq(R) \in Seq(V) /\ << >> \in Seq(V)
  BY <1>1, <1>4
<1>7. s \in States(V)
  BY <1>3, <1>5, <1>6 DEF States
<1>8. ToSet(s.order) = {} /\ IsInjective(s.order) /\ DOMAIN s.order = {}
  BY <1>5 DEF ToSet, IsInjective
<1>9. \A w : Unyielded(E, s.order, w) = In(w)
  BY <1>8 DEF Unyielded, In
<1>10. \A w \in V : w \in R <=> In(w) = {}
  BY DEF RootVertices, In
<1>11. \A w \in V : s.left[w] = Cardinality(Unyielded(E, s.order, w))
  BY <1>5, <1>9
<1>12. \A w \in V : w \in ToSet(s.order) \cup ToSet(s.queue) <=> Unyielded(E, s.order, w) = {}
  BY <1>4, <1>5, <1>8, <1>9, <1>10
<1>13. Sorted(V, E, s)
  <2>1. \A i, j \in DOMAIN s.order : <<s.order[i], s.order[j]>> \in E => i < j
    BY <1>8
  <2>2. IsInjective(s.queue) /\ ToSet(s.order) \cap ToSet(s.queue) = {}
    BY <1>4, <1>5, <1>8
  <2> QED BY <1>7, <1>8, <1>11, <1>12, <2>1, <2>2 DEF Sorted
<1> QED BY <1>13 DEF s

LEMMA YieldSorted ==
  ASSUME NEW V, IsFiniteSet(V), NEW E \in SUBSET (V \X V), NEW s, Sorted(V, E, s), s.queue # << >>
  PROVE  /\ Sorted(V, E, Yield(V, E, s))
         /\ Len(Yield(V, E, s).order) = Len(s.order) + 1
<1> DEFINE v == Head(s.queue)
           next == Successors(E, v)
           left == [w \in V |-> s.left[w] - (IF w \in next THEN 1 ELSE 0)]
           new == {w \in next : left[w] = 0}
           t == Yield(V, E, s)
           U(w) == Unyielded(E, s.order, w)
           U2(w) == U(w) \ {<<v, w>>}
<1>1. s.queue \in Seq(V) /\ s.left \in [V -> Int] /\ s.order \in Seq(V)
  BY DEF Sorted, States
<1>2. /\ v \in V /\ Tail(s.queue) \in Seq(V) /\ Len(s.queue) \in Nat \ {0}
      /\ Len(Tail(s.queue)) = Len(s.queue) - 1 /\ v = s.queue[1]
      /\ \A i \in 1..Len(Tail(s.queue)) : Tail(s.queue)[i] = s.queue[i + 1]
  BY <1>1
<1>3. /\ t.queue = Tail(s.queue) \o SetToSeq(new) /\ t.left = left /\ t.order = Append(s.order, v)
      /\ t = [queue |-> t.queue, left |-> t.left, order |-> t.order]
  BY DEF Yield
<1> HIDE DEF t, v
<1>4. next \subseteq V /\ \A w : w \in next <=> <<v, w>> \in E
  BY DEF Successors
<1> HIDE DEF next
<1>5. new \subseteq V /\ IsFiniteSet(new)
  <2>1. new \subseteq V
    BY <1>4
  <2> QED BY <2>1, FS_Subset
<1>6. /\ SetToSeq(new) \in Seq(V) /\ ToSet(SetToSeq(new)) = new /\ IsInjective(SetToSeq(new))
  <2> HIDE DEF new
  <2>1. SetToSeq(new) \in Seq(new) /\ ToSet(SetToSeq(new)) = new /\ IsInjective(SetToSeq(new))
    BY <1>5, SetToSeqIs
  <2> QED BY <1>5, <2>1
<1>7. t \in States(V)
  <2>1. left \in [V -> Int]
    BY <1>1
  <2> HIDE DEF left, new
  <2>2. Tail(s.queue) \o SetToSeq(new) \in Seq(V) /\ Append(s.order, v) \in Seq(V)
    BY <1>1, <1>2, <1>6
  <2> QED BY <1>3, <2>1, <2>2 DEF States
\* The vertices yielded and queued.
<1>8. /\ Len(t.order) = Len(s.order) + 1 /\ DOMAIN t.order = 1..(Len(s.order) + 1)
      /\ DOMAIN s.order = 1..Len(s.order) /\ Len(s.order) \in Nat
      /\ t.order[Len(s.order) + 1] = v /\ \A i \in DOMAIN s.order : t.order[i] = s.order[i]
  BY <1>1, <1>2, <1>3
<1>9. ToSet(t.order) = ToSet(s.order) \cup {v}
  BY <1>8 DEF ToSet
<1>10. ToSet(s.queue) = ToSet(Tail(s.queue)) \cup {v} /\ v \notin ToSet(Tail(s.queue)) /\ IsInjective(Tail(s.queue))
  <2> DEFINE q == s.queue
             r == Tail(s.queue)
  <2>1. /\ DOMAIN q = 1..Len(q) /\ DOMAIN r = 1..(Len(q) - 1) /\ \A i \in DOMAIN r : r[i] = q[i + 1]
        /\ q[1] = v /\ Len(q) \in Nat \ {0}
    BY <1>1, <1>2
  <2>2. IsInjective(q)
    BY DEF Sorted
  <2> HIDE DEF q, r
  <2>3. \A i \in DOMAIN q : i = 1 \/ (i - 1 \in DOMAIN r /\ q[i] = r[i - 1])
    BY <2>1
  <2>4. \A i \in DOMAIN r : i + 1 \in DOMAIN q /\ i + 1 # 1 /\ 1 \in DOMAIN q
    BY <2>1
  <2>5. ToSet(q) = ToSet(r) \cup {v}
    BY <2>1, <2>3, <2>4 DEF ToSet
  <2>6. v \notin ToSet(r)
    BY <2>1, <2>2, <2>4 DEF ToSet, IsInjective
  <2>7. IsInjective(r)
    <3> SUFFICES ASSUME NEW i \in DOMAIN r, NEW j \in DOMAIN r, r[i] = r[j] PROVE i = j
      BY DEF IsInjective
    <3>1. q[i + 1] = q[j + 1]
      BY <2>1
    <3>2. i + 1 = j + 1
      BY <2>2, <2>4, <3>1 DEF IsInjective
    <3> QED BY <2>1, <3>2
  <2> QED BY <2>5, <2>6, <2>7 DEF q, r
<1>11. /\ v \notin ToSet(s.order) /\ U(v) = {}
  BY <1>2, <1>10 DEF Sorted
<1> DEFINE Q == ToSet(Tail(s.queue))
           O == ToSet(s.order)
\* What is left to yield before a vertex.
<1>12. \A w : Unyielded(E, t.order, w) = U2(w)
  <2> SUFFICES ASSUME NEW w PROVE Unyielded(E, t.order, w) = U2(w)
    OBVIOUS
  <2>1. \A e \in E : e = <<e[1], e[2]>>
    OBVIOUS
  <2>2. \A e \in E : e[2] = w => (e[1] = v <=> e = <<v, w>>)
    BY <2>1
  <2> QED BY <1>9, <2>2 DEF Unyielded
<1>13. \A w : <<v, w>> \in U(w) <=> w \in next
  BY <1>4, <1>11 DEF Unyielded
<1>14. \A w : IsFiniteSet(U(w)) /\ Cardinality(U(w)) \in Nat
  <2>1. IsFiniteSet(E)
    BY FS_Product, FS_Subset
  <2>2. \A w : U(w) \in SUBSET E
    BY DEF Unyielded
  <2> QED BY <2>1, <2>2, FS_Subset, FS_CardinalityType
<1>15. \A w \in V : left[w] = Cardinality(U2(w))
  <2> SUFFICES ASSUME NEW w \in V PROVE left[w] = Cardinality(U2(w))
    OBVIOUS
  <2>1. s.left[w] = Cardinality(U(w))
    BY DEF Sorted
  <2>2. Cardinality(U2(w)) = IF <<v, w>> \in U(w) THEN Cardinality(U(w)) - 1 ELSE Cardinality(U(w))
    BY <1>14, FS_RemoveElement
  <2>3. Cardinality(U(w)) \in Nat
    BY <1>14
  <2> HIDE DEF U, U2
  <2> QED BY <1>13, <2>1, <2>2, <2>3
<1>16. \A w \in V : w \in new <=> w \in next /\ U2(w) = {}
  <2>1. \A w \in V : IsFiniteSet(U2(w))
    BY <1>14, FS_Subset
  <2>2. \A w \in V : Cardinality(U2(w)) = 0 <=> U2(w) = {}
    BY <2>1, FS_EmptySet
  <2> QED BY <1>15, <2>2
<1>17. \A w \in V : w \in O \cup Q \cup {v} <=> U(w) = {}
  BY <1>10 DEF Sorted
<1> HIDE DEF U, U2, left, new, Q, O
<1>18. \A w : w \in next => U(w) # {}
  BY <1>13
<1>19. \A w : w \notin next => U2(w) = U(w)
  BY <1>13 DEF U2
<1>20. \A w : U(w) = {} => U2(w) = {}
  BY DEF U2
<1>21. ToSet(t.queue) = Q \cup new /\ IsInjective(t.queue)
  <2>1. Q \cap new = {}
    BY <1>5, <1>16, <1>17, <1>18
  <2> DEFINE a == Tail(s.queue)
             b == SetToSeq(new)
  <2>2. /\ t.queue = a \o b /\ a \in Seq(V) /\ b \in Seq(V) /\ IsInjective(a) /\ IsInjective(b)
        /\ ToSet(a) = Q /\ ToSet(b) = new
    BY <1>2, <1>3, <1>6, <1>10 DEF Q
  <2> HIDE DEF a, b
  <2>3. /\ DOMAIN (a \o b) = 1..(Len(a) + Len(b)) /\ DOMAIN a = 1..Len(a) /\ DOMAIN b = 1..Len(b)
        /\ Len(a) \in Nat /\ Len(b) \in Nat
        /\ \A i \in 1..Len(a) : (a \o b)[i] = a[i]
        /\ \A i \in 1..Len(b) : (a \o b)[Len(a) + i] = b[i]
    BY <2>2
  <2>4. \A i \in DOMAIN (a \o b) : \/ i \in DOMAIN a /\ (a \o b)[i] = a[i]
                                   \/ i - Len(a) \in DOMAIN b /\ (a \o b)[i] = b[i - Len(a)]
    <3> SUFFICES ASSUME NEW i \in DOMAIN (a \o b), i \notin DOMAIN a
                 PROVE  i - Len(a) \in DOMAIN b /\ (a \o b)[i] = b[i - Len(a)]
      BY <2>3
    <3>1. i - Len(a) \in DOMAIN b /\ Len(a) + (i - Len(a)) = i
      BY <2>3
    <3> QED BY <2>3, <3>1
  <2>5. \A i \in DOMAIN a : i \in DOMAIN (a \o b) /\ (a \o b)[i] = a[i]
    BY <2>3
  <2>6. \A i \in DOMAIN b : Len(a) + i \in DOMAIN (a \o b) /\ (a \o b)[Len(a) + i] = b[i]
    BY <2>3
  <2>7. ToSet(a \o b) = ToSet(a) \cup ToSet(b)
    <3> DEFINE c == a \o b
    <3>1. \A i \in DOMAIN c : c[i] \in ToSet(a) \cup ToSet(b)
      BY <2>4 DEF ToSet
    <3>2. \A i \in DOMAIN a : a[i] \in ToSet(c)
      BY <2>5 DEF ToSet
    <3>3. \A i \in DOMAIN b : b[i] \in ToSet(c)
      BY <2>6 DEF ToSet
    <3> HIDE DEF c
    <3>4. ToSet(c) \subseteq ToSet(a) \cup ToSet(b) /\ ToSet(a) \subseteq ToSet(c) /\ ToSet(b) \subseteq ToSet(c)
      BY <3>1, <3>2, <3>3 DEF ToSet
    <3>5. ToSet(c) = ToSet(a) \cup ToSet(b)
      BY <3>4
    <3> QED BY <3>5 DEF c
  <2>8. IsInjective(a \o b)
    <3> SUFFICES ASSUME NEW i \in DOMAIN (a \o b), NEW j \in DOMAIN (a \o b), (a \o b)[i] = (a \o b)[j]
                 PROVE  i = j
      BY DEF IsInjective
    <3>1. (\A k \in DOMAIN a : a[k] \in Q) /\ (\A k \in DOMAIN b : b[k] \in new)
      BY <2>2 DEF ToSet
    <3>2. CASE i \in DOMAIN a /\ j \in DOMAIN a
      BY <2>2, <2>5, <3>2 DEF IsInjective
    <3>3. CASE i \notin DOMAIN a /\ j \notin DOMAIN a
      <4>1. i - Len(a) = j - Len(a)
        BY <2>2, <2>4, <3>3 DEF IsInjective
      <4> QED BY <2>3, <4>1
    <3>4. CASE i \in DOMAIN a /\ j \notin DOMAIN a
      BY <2>1, <2>4, <3>1, <3>4
    <3>5. CASE i \notin DOMAIN a /\ j \in DOMAIN a
      BY <2>1, <2>4, <3>1, <3>5
    <3> QED BY <3>2, <3>3, <3>4, <3>5
  <2> QED BY <2>2, <2>7, <2>8
<1>22. \A w \in V : w \in ToSet(t.order) \cup ToSet(t.queue) <=> U2(w) = {}
  BY <1>9, <1>16, <1>17, <1>18, <1>19, <1>20, <1>21 DEF O
<1>23. ToSet(t.order) \cap ToSet(t.queue) = {}
  <2>1. O \cap Q = {} /\ v \notin Q
    BY <1>10 DEF Sorted, O, Q
  <2>2. (O \cup {v}) \cap new = {}
    BY <1>5, <1>16, <1>17, <1>18
  <2> QED BY <1>9, <1>21, <2>1, <2>2 DEF O
<1>24. \A i \in DOMAIN t.order : i = Len(s.order) + 1 \/ i \in DOMAIN s.order
  BY <1>8
<1>25. \A i \in DOMAIN s.order : s.order[i] \in O /\ s.order[i] # v /\ s.order[i] \in V
  BY <1>1, <1>11 DEF O, ToSet
<1>26. IsInjective(t.order)
  <2>1. IsInjective(s.order)
    BY DEF Sorted
  <2> QED BY <1>8, <1>24, <1>25, <2>1 DEF IsInjective
<1>27. ASSUME NEW i \in DOMAIN t.order, NEW j \in DOMAIN t.order, <<t.order[i], t.order[j]>> \in E PROVE i < j
  <2>1. CASE i \in DOMAIN s.order /\ j \in DOMAIN s.order
    BY <1>8, <1>27, <2>1 DEF Sorted
  <2>2. CASE i \in DOMAIN s.order /\ j = Len(s.order) + 1
    BY <1>8, <2>2
  <2>3. CASE i = Len(s.order) + 1
    <3>1. t.order[j] \in next
      BY <1>4, <1>8, <1>27, <2>3
    <3>2. t.order[j] \in O \cup {v} /\ t.order[j] \in V
      BY <1>2, <1>8, <1>24, <1>25
    <3> QED BY <1>17, <1>18, <3>1, <3>2
  <2> QED BY <1>24, <2>1, <2>2, <2>3
<1>28. \A w \in V : t.left[w] = Cardinality(Unyielded(E, t.order, w))
  BY <1>3, <1>12, <1>15
<1>29. \A w \in V : w \in ToSet(t.order) \cup ToSet(t.queue) <=> Unyielded(E, t.order, w) = {}
  BY <1>12, <1>22
<1> QED BY <1>7, <1>8, <1>21, <1>23, <1>26, <1>27, <1>28, <1>29 DEF Sorted, t

\* A graph without a cycle is sorted: each vertex once, after those before it.
LEMMA TopologicalSortIs ==
  ASSUME NEW V, IsFiniteSet(V), NEW E \in SUBSET (V \X V), Acyclic(V, E)
  PROVE  LET order == TopologicalSort(V, E)
         IN /\ ToSet(order) = V /\ Len(order) = Cardinality(V)
            /\ \A i, j \in DOMAIN order : <<order[i], order[j]>> \in E => i < j
<1> DEFINE n == Cardinality(V)
           S == {s \in States(V) : Sorted(V, E, s)}
           Sorting(f) == f = [k \in Nat |-> IF k = 0 THEN First(V, E)
                                            ELSE IF f[k - 1].queue = << >> THEN f[k - 1]
                                            ELSE Yield(V, E, f[k - 1])]
           f == CHOOSE g : Sorting(g)
           Resting(r) == r = [k \in Nat |-> IF k = 0 THEN V
                                            ELSE {v \in r[k - 1] : \E u \in r[k - 1] : <<u, v>> \in E}]
           rest == CHOOSE r : Resting(r)
<1>0. n \in Nat
  BY FS_CardinalityType
<1>1. TopologicalSort(V, E) = f[n].order
  BY Zenon DEF TopologicalSort, First, Yield
<1>2. rest[n] = {}
  BY Zenon DEF Acyclic
<1>3. First(V, E) \in S
  BY FirstSorted DEF Sorted
<1>4. \A s \in S : Going(V, E, s) \in S /\ (s.queue # << >> => Len(Going(V, E, s).order) = Len(s.order) + 1)
  <2> SUFFICES ASSUME NEW s \in S
               PROVE  Going(V, E, s) \in S /\ (s.queue # << >> => Len(Going(V, E, s).order) = Len(s.order) + 1)
    OBVIOUS
  <2>1. CASE s.queue = << >>
    BY <2>1 DEF Going
  <2>2. CASE s.queue # << >>
    <3>1. /\ Sorted(V, E, Yield(V, E, s)) /\ Len(Yield(V, E, s).order) = Len(s.order) + 1
          /\ Going(V, E, s) = Yield(V, E, s)
      BY <2>2, YieldSorted DEF Going
    <3>2. Yield(V, E, s) \in States(V)
      BY <3>1 DEF Sorted
    <3> QED BY <3>1, <3>2
  <2> QED BY <2>1, <2>2
<1>5. \E g : Sorting(g)
  <2> DEFINE step == [s \in S |-> Going(V, E, s)]
  <2> HIDE DEF S
  <2>1. step \in [S -> S]
    BY <1>4
  <2> DEFINE a == First(V, E)
  <2> HIDE DEF step, a
  <2>2. PICK g : Loop(g, S, a, step)
    <3>1. a \in S
      BY <1>3 DEF a
    <3> QED BY <2>1, <3>1, LoopExists
  <2>3. \A k \in Nat : g[k] = IF k = 0 THEN First(V, E)
                              ELSE IF g[k - 1].queue = << >> THEN g[k - 1] ELSE Yield(V, E, g[k - 1])
    <3> SUFFICES ASSUME NEW k \in Nat, k # 0 PROVE g[k] = Going(V, E, g[k - 1])
      BY <2>2 DEF Going, Loop, a
    <3>1. k - 1 \in Nat /\ (k - 1) + 1 = k
      OBVIOUS
    <3>2. g[k] = step[g[k - 1]] /\ g[k - 1] \in S
      BY <2>2, <3>1 DEF Loop
    <3> QED BY <3>2 DEF step
  <2>4. Sorting(g)
    BY <2>2, <2>3 DEF Loop
  <2> HIDE DEF Sorting
  <2> QED BY <2>4
<1>6. \E r : Resting(r)
  <2> DEFINE step == [R \in SUBSET V |-> {v \in R : \E u \in R : <<u, v>> \in E}]
  <2>1. step \in [SUBSET V -> SUBSET V] /\ V \in SUBSET V
    OBVIOUS
  <2> HIDE DEF step
  <2>2. PICK r : Loop(r, SUBSET V, V, step)
    BY <2>1, LoopExists
  <2>3. \A k \in Nat : r[k] = IF k = 0 THEN V ELSE {v \in r[k - 1] : \E u \in r[k - 1] : <<u, v>> \in E}
    <3> SUFFICES ASSUME NEW k \in Nat, k # 0
                 PROVE  r[k] = {v \in r[k - 1] : \E u \in r[k - 1] : <<u, v>> \in E}
      BY <2>2 DEF Loop
    <3>1. k - 1 \in Nat /\ (k - 1) + 1 = k
      OBVIOUS
    <3>2. r[k] = step[r[k - 1]] /\ r[k - 1] \in SUBSET V
      BY <2>2, <3>1 DEF Loop
    <3> QED BY <3>2 DEF step
  <2>4. Resting(r)
    BY <2>2, <2>3 DEF Loop
  <2> HIDE DEF Resting
  <2> QED BY <2>4
<1>7. /\ f[0] = First(V, E)
      /\ \A k \in Nat : f[k + 1] = Going(V, E, f[k])
  <2>1. Sorting(f)
    <3> HIDE DEF Sorting
    <3> QED BY <1>5
  <2> HIDE DEF f
  <2>2. \A k \in Nat : f[k] = IF k = 0 THEN First(V, E)
                              ELSE IF f[k - 1].queue = << >> THEN f[k - 1] ELSE Yield(V, E, f[k - 1])
    BY <2>1
  <2>3. \A k \in Nat : k + 1 \in Nat /\ k + 1 # 0 /\ (k + 1) - 1 = k
    OBVIOUS
  <2>4. ASSUME NEW k \in Nat PROVE f[k + 1] = Going(V, E, f[k])
    BY <2>2, <2>3 DEF Going
  <2> QED BY <2>2, <2>4
<1>8. /\ rest[0] = V
      /\ \A k \in Nat : rest[k + 1] = {v \in rest[k] : \E u \in rest[k] : <<u, v>> \in E}
  <2>1. Resting(rest)
    <3> HIDE DEF Resting
    <3> QED BY <1>6
  <2> HIDE DEF rest
  <2>2. \A k \in Nat : rest[k] = IF k = 0 THEN V
                                 ELSE {v \in rest[k - 1] : \E u \in rest[k - 1] : <<u, v>> \in E}
    BY <2>1
  <2>3. \A k \in Nat : k + 1 \in Nat /\ k + 1 # 0 /\ (k + 1) - 1 = k
    OBVIOUS
  <2>4. ASSUME NEW k \in Nat PROVE rest[k + 1] = {v \in rest[k] : \E u \in rest[k] : <<u, v>> \in E}
    <3> DEFINE m == k + 1
    <3>1. m \in Nat /\ m # 0 /\ m - 1 = k
      BY <2>3
    <3> HIDE DEF m
    <3>2. rest[m] = {v \in rest[m - 1] : \E u \in rest[m - 1] : <<u, v>> \in E}
      BY <2>2, <3>1
    <3>3. rest[m] = {v \in rest[k] : \E u \in rest[k] : <<u, v>> \in E}
      BY <3>1, <3>2
    <3> QED BY <3>3 DEF m
  <2> QED BY <2>2, <2>4
<1> HIDE DEF f, rest, Sorting, Resting
\* One more vertex is yielded at each step until none is queued.
<1>9. \A k \in Nat : f[k] \in S /\ (f[k].queue = << >> \/ Len(f[k].order) = k)
  <2> DEFINE Q == {k \in Nat : f[k] \in S /\ (f[k].queue = << >> \/ Len(f[k].order) = k)}
  <2>1. 0 \in Q
    BY <1>3, <1>7 DEF First
  <2>2. ASSUME NEW k \in Nat, k \in Q PROVE k + 1 \in Q
    <3>1. f[k] \in S /\ (f[k].queue = << >> \/ Len(f[k].order) = k) /\ k + 1 \in Nat
      BY <2>2
    <3> HIDE DEF S
    <3>2. f[k + 1] \in S /\ f[k + 1] = Going(V, E, f[k])
      BY <1>4, <1>7, <3>1
    <3>3. f[k + 1].queue = << >> \/ Len(f[k + 1].order) = k + 1
      <4>1. CASE f[k].queue = << >>
        BY <3>2, <4>1 DEF Going
      <4>2. CASE f[k].queue # << >>
        BY <1>4, <3>1, <3>2, <4>2
      <4> QED BY <4>1, <4>2
    <3> QED BY <3>1, <3>2, <3>3
  <2> HIDE DEF Q
  <2>3. \A k \in Nat : k \in Q
    BY <2>1, <2>2, Induction
  <2> QED BY <2>3 DEF Q
<1> DEFINE s == f[n]
<1>10. Sorted(V, E, s) /\ (s.queue = << >> \/ Len(s.order) = n)
  BY <1>0, <1>9
<1> HIDE DEF s, S
<1>11. s.order \in Seq(V) /\ s.queue \in Seq(V) /\ IsInjective(s.order)
  BY <1>10 DEF Sorted, States
<1>12. Len(s.order) \in Nat /\ ToSet(s.order) \subseteq V
  BY <1>11 DEF ToSet
<1>13. s.order \in Bijection(1..Len(s.order), ToSet(s.order))
  BY <1>11 DEF Bijection, Injection, Surjection, ToSet
<1>14. Cardinality(ToSet(s.order)) = Len(s.order)
  <2>1. IsFiniteSet(1..Len(s.order)) /\ Cardinality(1..Len(s.order)) = Len(s.order)
    BY <1>12, FS_Interval
  <2>2. ExistsBijection(1..Len(s.order), ToSet(s.order))
    BY <1>13 DEF ExistsBijection
  <2> QED BY <2>1, <2>2, FS_Bijection
<1>15. s.queue = << >>
  <2> SUFFICES ASSUME s.queue # << >> PROVE FALSE
    OBVIOUS
  <2>1. ToSet(s.order) = V
    BY <1>10, <1>12, <1>14, FS_Subset
  <2>2. s.queue[1] \in ToSet(s.queue) /\ s.queue[1] \in V
    BY <1>11 DEF ToSet
  <2> QED BY <1>10, <2>1, <2>2 DEF Sorted
\* What is not yielded would be before itself.
<1> DEFINE left == V \ ToSet(s.order)
<1>16. \A w \in left : \E u \in left : <<u, w>> \in E
  <2> SUFFICES ASSUME NEW w \in left PROVE \E u \in left : <<u, w>> \in E
    OBVIOUS
  <2>1. ToSet(s.queue) = {}
    BY <1>15 DEF ToSet
  <2>2. Unyielded(E, s.order, w) # {}
    BY <1>10, <2>1 DEF Sorted
  <2>3. PICK e \in E : e[2] = w /\ e[1] \notin ToSet(s.order)
    BY <2>2 DEF Unyielded
  <2>4. e = <<e[1], w>> /\ e[1] \in left
    BY <2>3
  <2> QED BY <2>4
<1>17. left = {}
  <2> DEFINE Q == {k \in Nat : left \subseteq rest[k]}
  <2>1. 0 \in Q
    BY <1>8
  <2>2. ASSUME NEW k \in Nat, k \in Q PROVE k + 1 \in Q
    <3>1. left \subseteq rest[k] /\ k + 1 \in Nat
      BY <2>2
    <3> HIDE DEF left
    <3>2. left \subseteq rest[k + 1]
      BY <1>8, <1>16, <3>1
    <3> QED BY <3>1, <3>2
  <2> HIDE DEF Q
  <2>3. n \in Q
    BY <1>0, <2>1, <2>2, Induction
  <2> QED BY <1>2, <2>3 DEF Q
<1>18. ToSet(s.order) = V
  BY <1>12, <1>17
<1>19. TopologicalSort(V, E) = s.order
  BY <1>1 DEF s
<1>20. \A i, j \in DOMAIN s.order : <<s.order[i], s.order[j]>> \in E => i < j
  BY <1>10 DEF Sorted
<1> QED BY <1>14, <1>18, <1>19, <1>20

\* Jobs that are executed at once (DelayableGraph._execute_directly) are executed
\* each once and its parents before it, for any graph that has no cycle.
THEOREM ExecutedInOrder == Spec => []OrderRespectsEdges
<1>1. Inv => OrderRespectsEdges
  <2> SUFFICES ASSUME Inv, NEW x \in DOMAIN objects,
                      Acyclic(Members(objects, x), Links(objects, Ends(objects), x))
               PROVE  LET M == Members(objects, x)
                          links == Links(objects, Ends(objects), x)
                          order == TopologicalSort(M, links)
                      IN /\ ToSet(order) = M /\ Len(order) = Cardinality(M)
                         /\ \A i, j \in DOMAIN order : <<order[i], order[j]>> \in links => i < j
    BY DEF OrderRespectsEdges
  <2> DEFINE M == Members(objects, x)
             links == Links(objects, Ends(objects), x)
  <2>1. IsFiniteSet(M) /\ links \in SUBSET (M \X M) /\ Acyclic(M, links)
    BY GraphIsSound DEF Inv, Sound
  <2> HIDE DEF M, links
  <2>2. LET order == TopologicalSort(M, links)
        IN /\ ToSet(order) = M /\ Len(order) = Cardinality(M)
           /\ \A i, j \in DOMAIN order : <<order[i], order[j]>> \in links => i < j
    BY <2>1, TopologicalSortIs
  <2> QED BY <2>2 DEF M, links
<1> QED BY <1>1, InvHolds, PTL
=============================================================================
