--------------------------- MODULE JobRunner_proofs ---------------------------
(***************************************************************************)
(* Proofs about the job runner, for any number of jobs, requests, users    *)
(* and troubles, any graph of jobs and any capacity: no more jobs are      *)
(* active than the capacity; no job is executed twice at a time as long as *)
(* users do nothing but cancel jobs; the runner's view of a job that it is *)
(* not about to be told of is right; a job runs after the jobs that it     *)
(* depends on; and, under the hypotheses that the runs show to be needed,  *)
(* no job waits for jobs that are done.                                    *)
(***************************************************************************)
EXTENDS JobRunner, FiniteSetTheorems, TLAPS

USE JobsAssumption, BoundsAssumption

LEMMA RequestUpdate ==
  ASSUME NEW R \in RequestTables, NEW q \in Requests, NEW a \in RequestRecord,
         a.job = NoJob <=> a.phase = "free"
  PROVE  [R EXCEPT ![q] = a] \in RequestTables
  BY DEF RequestTables

LEMMA TxUpdate ==
  ASSUME NEW T \in TxTables, NEW u \in Users, NEW a \in TxRecord,
         a.job = NoJob <=> a.op = "none"
  PROVE  [T EXCEPT ![u] = a] \in TxTables
  BY DEF TxTables

\* What a commit of another transaction does to a request and a transaction.
LEMMA Staled ==
  ASSUME NEW a \in RequestRecord
  PROVE  /\ [a EXCEPT !.stale = TRUE] \in RequestRecord
         /\ [a EXCEPT !.stale = TRUE].phase = a.phase
         /\ [a EXCEPT !.stale = TRUE].job = a.job
  BY DEF RequestRecord

LEMMA Changed ==
  ASSUME NEW a \in TxRecord, NEW D \in SUBSET Jobs
  PROVE  /\ [a EXCEPT !.changed = @ \cup D] \in TxRecord
         /\ [a EXCEPT !.changed = @ \cup D].op = a.op
         /\ [a EXCEPT !.changed = @ \cup D].job = a.job
         /\ [a EXCEPT !.changed = @ \cup D].changed = a.changed \cup D
  BY DEF TxRecord

LEMMA CommitType ==
  ASSUME TypeOK, NEW r \in Tables, NEW D \in SUBSET Jobs,
         NEW R \in RequestTables, NEW T \in TxTables, Commit(r, D, R, T)
  PROVE  /\ row' \in Tables /\ finished' \in SUBSET Jobs /\ notifs' \in SUBSET Jobs
         /\ req' \in RequestTables /\ tx' \in TxTables
<1>1. row' \in Tables /\ finished' \in SUBSET Jobs /\ notifs' \in SUBSET Jobs
  BY DEF Commit, TypeOK
<1>2. req' \in RequestTables
  BY Staled DEF Commit, RequestTables
<1>3. tx' \in TxTables
  <2>1. T \in [Users -> TxRecord] /\ \A u \in Users : T[u].job = NoJob <=> T[u].op = "none"
    BY DEF TxTables
  <2>2. ASSUME NEW u \in Users
        PROVE  tx'[u] \in TxRecord /\ tx'[u].job = T[u].job /\ tx'[u].op = T[u].op
    <3>1. tx'[u] = IF T[u].op # "none" THEN [T[u] EXCEPT !.changed = @ \cup D] ELSE T[u]
      BY DEF Commit
    <3>2. T[u] \in TxRecord
      BY <2>1
    <3> QED BY <3>1, <3>2, Changed
  <2>3. tx' = [u \in Users |-> tx'[u]]
    BY DEF Commit
  <2> QED BY <2>1, <2>2, <2>3 DEF TxTables
<1> QED BY <1>1, <1>2, <1>3

LEMMA RowType ==
  ASSUME TypeOK, NEW j \in Jobs
  PROVE  /\ row[j] \in [state : States, retry : Nat]
         /\ State(j) \in States
         /\ \A s \in States : SetState(j, s) \in Tables
         /\ \A s \in States, n \in Nat :
               [row EXCEPT ![j] = [state |-> s, retry |-> n]] \in Tables
  BY DEF TypeOK, Tables, SetState, State

LEMMA StateNames ==
  /\ {"wait_dependencies", "pending", "enqueued", "started", "done",
      "cancelled", "failed", "deleted"} \subseteq States
  /\ \A b : PendingOrWait(b) \in States
  BY DEF States, PendingOrWait

LEMMA SnapshotType ==
  ASSUME TypeOK
  PROVE  CurrentStates \in [Jobs -> States]
  BY RowType DEF CurrentStates

LEMMA WokenType ==
  ASSUME NEW p, NEW state
  PROVE  Woken(p, state) \in SUBSET Jobs
  BY DEF Woken, Children

LEMMA WithPendingType ==
  ASSUME NEW r \in Tables, NEW S
  PROVE  WithPending(S, r) \in Tables
  BY StateNames DEF WithPending, Tables

LEMMA RequestType ==
  ASSUME TypeOK, NEW q \in Requests
  PROVE  /\ req[q].phase # "free" => req[q].job \in Jobs
         /\ req[q].retry \in Nat /\ req[q].woken \in SUBSET Jobs
         /\ [req EXCEPT ![q] = FreeReq] \in RequestTables
  BY DEF TypeOK, RequestTables, FreeReq, RequestRecord, Phases
-----------------------------------------------------------------------------
(***************************************************************************)
(* Every variable keeps its type.                                          *)
(***************************************************************************)

LEMMA ResetType ==
  ASSUME TypeOK, NEW j \in Jobs
  PROVE  ResetIfEnqueued(j) \in Tables /\ ResetRows(j) \in SUBSET Jobs
  BY RowType, StateNames DEF ResetIfEnqueued, ResetRows, TypeOK

LEMMA StoreType ==
  ASSUME TypeOK, NEW q \in Requests, req[q].phase # "free", NEW s \in States
  PROVE  /\ Store(q, s) \in Tables
         /\ [row EXCEPT ![req[q].job] = [state |-> s, retry |-> req[q].retry]] \in Tables
<1>1. req[q].job \in Jobs /\ req[q].retry \in Nat
  BY RequestType
<1>2. req[q].retry + 1 \in Nat
  BY <1>1
<1> QED BY <1>1, <1>2, RowType DEF Store

LEMMA RunnerType ==
  ASSUME TypeOK, Runner
  PROVE  TypeOK'
<1>1. CASE Listen \/ Load \/ Loaded
  BY <1>1 DEF Listen, Load, Loaded, TypeOK, table, channel
<1>2. ASSUME NEW j \in Jobs, ProcessNotification(j)
      PROVE  TypeOK'
  <2>1. queue' \subseteq Jobs /\ running' \subseteq Jobs
    <3>1. State(j) \in States
      BY RowType
    <3> QED BY <1>2, <3>1 DEF ProcessNotification, Notify, TypeOK, States, channel
  <2> QED BY <1>2, <2>1 DEF ProcessNotification, TypeOK, table
<1>3. ASSUME NEW j \in Jobs, NEW q \in Requests, RunJob(j, q)
      PROVE  TypeOK'
  <2> DEFINE R == [req EXCEPT ![q] = [FreeReq EXCEPT !.phase = "sending", !.job = j,
                                                     !.client = TRUE]]
             r == IF Exists(j) THEN SetState(j, "enqueued") ELSE row
             D == IF Exists(j) THEN {j} ELSE {}
  <2>1. R \in RequestTables
    BY DEF TypeOK, RequestTables, RequestRecord, Phases, FreeReq
  <2>2. r \in Tables /\ D \in SUBSET Jobs /\ tx \in TxTables
    BY RowType, StateNames DEF TypeOK
  <2>3. Commit(r, D, R, tx)
    BY <1>3 DEF RunJob
  <2> HIDE DEF R, r, D
  <2>4. /\ row' \in Tables /\ finished' \in SUBSET Jobs /\ notifs' \in SUBSET Jobs
        /\ req' \in RequestTables /\ tx' \in TxTables
    BY <2>1, <2>2, <2>3, CommitType
  <2>5. /\ queue' \subseteq Jobs /\ running' \subseteq Jobs
        /\ runner' = runner /\ used' = used
    BY <1>3 DEF RunJob, TypeOK
  <2> QED BY <2>4, <2>5 DEF TypeOK
<1> QED BY <1>1, <1>2, <1>3 DEF Runner

LEMMA TroubleType ==
  ASSUME TypeOK, Trouble
  PROVE  TypeOK'
<1> USE DEF TypeOK
<1>1. CASE RunnerError
  BY <1>1 DEF RunnerError, table
<1>2. CASE RunnerCrash
  <2>1. req' \in RequestTables
    <3>1. /\ FreeReq \in RequestRecord
          /\ FreeReq.job = NoJob /\ FreeReq.phase = "free"
      BY DEF FreeReq, RequestRecord, Phases
    <3>2. \A q \in Requests : req[q] \in RequestRecord
      BY DEF RequestTables
    <3>3. ASSUME NEW q \in Requests
          PROVE  /\ req'[q] \in RequestRecord
                 /\ req'[q].job = NoJob <=> req'[q].phase = "free"
      <4>1. req'[q] = IF req[q].phase = "sending" THEN FreeReq
                      ELSE [req[q] EXCEPT !.client = FALSE]
        BY <1>2 DEF RunnerCrash
      <4>2. req[q].job = NoJob <=> req[q].phase = "free"
        BY DEF RequestTables
      <4> DEFINE b == [req[q] EXCEPT !.client = FALSE]
      <4>3. b \in RequestRecord /\ b.job = req[q].job /\ b.phase = req[q].phase
        BY <3>2 DEF RequestRecord
      <4> HIDE DEF b
      <4>4. req'[q] = FreeReq \/ req'[q] = b
        BY <4>1 DEF b
      <4> QED BY <3>1, <4>2, <4>3, <4>4
    <3>4. req' = [q \in Requests |-> req'[q]]
      BY <1>2 DEF RunnerCrash
    <3> QED BY <3>3, <3>4 DEF RequestTables
  <2> QED BY <1>2, <2>1 DEF RunnerCrash, table
<1>3. ASSUME NEW q \in Requests, ClientTimeout(q)
      PROVE  TypeOK'
  <2> DEFINE R == [req EXCEPT ![q].client = FALSE]
  <2>1. req[q].job \in Jobs
    BY <1>3, RequestType DEF ClientTimeout
  <2>2. R \in RequestTables
    <3> DEFINE b == [req[q] EXCEPT !.client = FALSE]
    <3>1. R = [req EXCEPT ![q] = b]
      OBVIOUS
    <3>2. req[q] \in RequestRecord /\ (req[q].job = NoJob <=> req[q].phase = "free")
      BY DEF RequestTables
    <3>3. b \in RequestRecord /\ b.job = req[q].job /\ b.phase = req[q].phase
      BY <3>2 DEF RequestRecord
    <3> HIDE DEF b, R
    <3> QED BY <3>1, <3>2, <3>3, RequestUpdate
  <2> HIDE DEF R
  <2>3. Commit(ResetIfEnqueued(req[q].job), ResetRows(req[q].job), R, tx)
    BY <1>3 DEF ClientTimeout, R
  <2> QED BY <1>3, <2>1, <2>2, <2>3, ResetType, CommitType DEF ClientTimeout, channel
<1>4. ASSUME NEW q \in Requests, ConnectionRefused(q)
      PROVE  TypeOK'
  <2>1. req[q].job \in Jobs /\ [req EXCEPT ![q] = FreeReq] \in RequestTables
    BY <1>4, RequestType DEF ConnectionRefused
  <2> QED BY <1>4, <2>1, ResetType, CommitType DEF ConnectionRefused, channel
<1>5. ASSUME NEW q \in Requests, WorkerCrash(q)
      PROVE  TypeOK'
  <2> DEFINE j == req[q].job
             reset == req[q].client /\ State(j) = "enqueued"
             r == IF reset THEN SetState(j, "pending") ELSE row
             D == IF reset THEN {j} ELSE {}
  <2>1. req[q].job \in Jobs /\ [req EXCEPT ![q] = FreeReq] \in RequestTables
    BY <1>5, RequestType DEF WorkerCrash
  <2>2. r \in Tables /\ D \in SUBSET Jobs
    BY <2>1, RowType, StateNames
  <2>3. Commit(r, D, [req EXCEPT ![q] = FreeReq], tx)
    BY <1>5 DEF WorkerCrash
  <2> HIDE DEF r, D
  <2> QED BY <1>5, <2>1, <2>2, <2>3, CommitType DEF WorkerCrash, channel
<1> QED BY <1>1, <1>2, <1>3, <1>4, <1>5 DEF Trouble

LEMMA WorkerType ==
  ASSUME TypeOK, NEW q \in Requests, Worker(q)
  PROVE  TypeOK'
<1> DEFINE Common == req[q].phase # "free" => req[q].job \in Jobs
           Free == [req EXCEPT ![q] = FreeReq]
<1>a. Free \in RequestTables /\ tx \in TxTables /\ req \in RequestTables
  BY RequestType DEF TypeOK
<1>b. Common
  BY RequestType
<1> HIDE DEF Common, Free
<1>1. CASE ReachServer(q) \/ BeginPerform(q) \/ NothingToDoLost(q) \/ BeginEnqueue(q)
  <2>1. req' \in RequestTables
    <3> DEFINE woken == Woken(req[q].job, CurrentStates)
    <3>1. req[q] \in RequestRecord /\ (req[q].job = NoJob <=> req[q].phase = "free")
      BY <1>a DEF RequestTables
    <3>2. woken \in SUBSET Jobs
      BY WokenType
    <3> HIDE DEF woken
    <3>4. CASE ReachServer(q) \/ NothingToDoLost(q)
      <4> DEFINE b == [req[q] EXCEPT !.phase = "accepted"]
      <4>1. req[q].phase # "free" /\ req' = [req EXCEPT ![q] = b]
        BY <3>4 DEF ReachServer, NothingToDoLost
      <4>2. b \in RequestRecord /\ b.job = req[q].job /\ b.phase = "accepted"
        BY <3>1, <3>2 DEF RequestRecord, Phases
      <4> HIDE DEF b
      <4> QED BY <4>1, <4>2, <1>a, <3>1, RequestUpdate
    <3>5. CASE BeginPerform(q)
      <4> DEFINE b == [req[q] EXCEPT !.phase = "performing", !.stale = FALSE]
      <4>1. req[q].phase # "free" /\ req' = [req EXCEPT ![q] = b]
        BY <3>5 DEF BeginPerform
      <4>2. b \in RequestRecord /\ b.job = req[q].job /\ b.phase = "performing"
        BY <3>1, <3>2 DEF RequestRecord, Phases
      <4> HIDE DEF b
      <4> QED BY <4>1, <4>2, <1>a, <3>1, RequestUpdate
    <3>6. CASE BeginEnqueue(q)
      <4> DEFINE b == [req[q] EXCEPT !.phase = "enqueueing", !.stale = FALSE,
                                 !.woken = woken]
      <4>1. req[q].phase # "free" /\ req' = [req EXCEPT ![q] = b]
        BY <3>6 DEF BeginEnqueue, woken
      <4>2. b \in RequestRecord /\ b.job = req[q].job /\ b.phase = "enqueueing"
        BY <3>1, <3>2 DEF RequestRecord, Phases
      <4> HIDE DEF b
      <4> QED BY <4>1, <4>2, <1>a, <3>1, RequestUpdate
    <3> QED BY <1>1, <3>4, <3>5, <3>6
  <2> QED BY <1>1, <2>1 DEF ReachServer, BeginPerform, NothingToDoLost, BeginEnqueue,
             TypeOK, table, channel
<1>2. CASE RejectJob(q) \/ EnqueueFails(q)
  BY <1>2, <1>a DEF RejectJob, EnqueueFails, TypeOK, table, channel, Free
<1>3. CASE StartJob(q)
  <2> DEFINE j == req[q].job
             R == [req EXCEPT ![q].phase = "started", ![q].ready = ParentsDone(j),
                              ![q].retry = row[j].retry]
  <2>1. j \in Jobs
    BY <1>3, <1>b DEF StartJob, Common
  <2>2. row[j].retry \in Nat
    BY <2>1, RowType
  <2>3. ParentsDone(j) \in BOOLEAN
    BY DEF ParentsDone, AllDone
  <2>4. R \in RequestTables
    <3> DEFINE b == [req[q] EXCEPT !.phase = "started", !.ready = ParentsDone(j), !.retry = row[j].retry]
    <3>1. req[q] \in RequestRecord /\ req[q].phase # "free" /\ (req[q].job = NoJob <=> req[q].phase = "free")
      BY <1>3, <1>a, <1>b DEF StartJob, RequestTables
    <3>2. b \in RequestRecord /\ b.job = req[q].job /\ b.phase = "started"
      BY <2>2, <2>3, <3>1 DEF RequestRecord, Phases
    <3>3. R = [req EXCEPT ![q] = b]
      BY <1>a DEF RequestTables
    <3> HIDE DEF b
    <3> QED BY <1>a, <3>1, <3>2, <3>3, RequestUpdate
  <2>5. SetState(j, "started") \in Tables /\ {j} \in SUBSET Jobs
    BY <2>1, RowType, StateNames
  <2>6. Commit(SetState(j, "started"), {j}, R, tx)
    BY <1>3 DEF StartJob
  <2> HIDE DEF j, R
  <2> QED BY <1>3, <1>a, <2>4, <2>5, <2>6, CommitType DEF StartJob, TypeOK, channel
<1>4. CASE FinishJob(q)
  <2> DEFINE R == [req EXCEPT ![q].phase = "finished"]
  <2>1. R \in RequestTables
    BY <1>4, <1>a DEF FinishJob, RequestTables, RequestRecord, Phases
  <2>2. Store(q, "done") \in Tables /\ {req[q].job} \in SUBSET Jobs
    BY <1>4, <1>b, StoreType, StateNames DEF FinishJob, Common
  <2>3. Commit(Store(q, "done"), {req[q].job}, R, tx)
    BY <1>4 DEF FinishJob
  <2> HIDE DEF R
  <2> QED BY <1>4, <1>a, <2>1, <2>2, <2>3, CommitType DEF FinishJob, TypeOK, channel
<1>5. CASE RetryJob(q)
  <2>1. /\ Store(q, PendingOrWait(req[q].ready)) \in Tables
        /\ {req[q].job} \in SUBSET Jobs
    BY <1>5, <1>b, StoreType, StateNames DEF RetryJob, Common
  <2> QED BY <1>5, <1>a, <2>1, CommitType DEF RetryJob, TypeOK, channel, Free
<1>6. CASE IgnoredRetry(q)
  <2>1. /\ [row EXCEPT ![req[q].job] = [state |-> PendingOrWait(req[q].ready),
                                        retry |-> req[q].retry]] \in Tables
        /\ {req[q].job} \in SUBSET Jobs
    BY <1>6, <1>b, StoreType, StateNames DEF IgnoredRetry, Common
  <2> QED BY <1>6, <1>a, <2>1, CommitType DEF IgnoredRetry, TypeOK, channel, Free
<1>7. CASE FailJob(q)
  <2>1. Store(q, "failed") \in Tables /\ {req[q].job} \in SUBSET Jobs
    BY <1>7, <1>b, StoreType, StateNames DEF FailJob, Common
  <2> QED BY <1>7, <1>a, <2>1, CommitType DEF FailJob, TypeOK, channel, Free
<1>8. CASE EnqueueDependents(q)
  <2>1. WithPending(req[q].woken, row) \in Tables /\ req[q].woken \in SUBSET Jobs
    BY WithPendingType, RequestType DEF TypeOK
  <2> QED BY <1>8, <1>a, <2>1, CommitType DEF EnqueueDependents, TypeOK, channel, Free
<1> QED BY <1>1, <1>2, <1>3, <1>4, <1>5, <1>6, <1>7, <1>8 DEF Worker

LEMMA CronType ==
  ASSUME TypeOK, Cron
  PROVE  TypeOK'
<1> USE DEF TypeOK
<1>1. ASSUME NEW j \in Jobs, RequeueStuck(j)
      PROVE  TypeOK'
  <2> DEFINE r == [row EXCEPT ![j] = [state |-> PendingOrWait(ParentsDone(j)),
                                      retry |-> 0]]
  <2>1. r \in Tables
    BY RowType, StateNames
  <2>2. Commit(r, {j}, req, tx)
    BY <1>1 DEF RequeueStuck
  <2> HIDE DEF r
  <2> QED BY <1>1, <2>1, <2>2, CommitType DEF RequeueStuck, channel
<1>2. ASSUME NEW j \in Jobs, Vacuum(j)
      PROVE  TypeOK'
  <2>1. row' \in Tables
    BY <1>2, RowType, StateNames DEF Vacuum
  <2> QED BY <1>2, <2>1 DEF Vacuum, channel
<1> QED BY <1>1, <1>2 DEF Cron

LEMMA UserType ==
  ASSUME TypeOK, NEW u \in Users,
         User(u) \/ \E op \in Operations, j \in Jobs : UserBegin(u, op, j)
  PROVE  TypeOK'
<1>1. ASSUME NEW op \in Operations, NEW j \in Jobs, UserBegin(u, op, j)
      PROVE  TypeOK'
  <2>1. op # "none"
    BY DEF Operations
  <2>2. tx' \in TxTables
    BY <1>1, <2>1, SnapshotType DEF UserBegin, TypeOK, TxTables, TxRecord
  <2> QED BY <1>1, <2>2 DEF UserBegin, TypeOK, table, channel
<1>2. CASE UserRetry(u)
  <2>1. [tx[u] EXCEPT !.seen = CurrentStates, !.changed = {}] \in TxRecord
    <3>1. tx[u] \in TxRecord
      BY DEF TypeOK, TxTables
    <3> QED BY <3>1, SnapshotType DEF TxRecord
  <2>2. NoTx \in TxRecord /\ NoTx.job = NoJob /\ NoTx.op = "none"
    BY DEF NoTx, TxRecord, States
  <2>3. [tx[u] EXCEPT !.seen = CurrentStates, !.changed = {}].job = NoJob
          <=> [tx[u] EXCEPT !.seen = CurrentStates, !.changed = {}].op = "none"
    BY DEF TypeOK, TxTables, TxRecord
  <2>4. tx \in TxTables
    BY DEF TypeOK
  <2>5. tx' \in TxTables
    BY <1>2, <2>1, <2>2, <2>3, <2>4, TxUpdate DEF UserRetry
  <2> QED BY <1>2, <2>5 DEF UserRetry, TypeOK, table, channel
<1>3. CASE UserCommit(u)
  <2>1. NoTx \in TxRecord /\ NoTx.job = NoJob /\ NoTx.op = "none"
    BY DEF NoTx, TxRecord, States
  <2>2. [tx EXCEPT ![u] = NoTx] \in TxTables
    BY <2>1 DEF TypeOK, TxTables
  <2>3. tx[u].job \in Jobs /\ tx[u].op \in Operations
    BY <1>3 DEF UserCommit, TypeOK, TxTables, TxRecord
  <2>4. UserWrites(u) \in SUBSET Jobs
    BY <2>3, WokenType DEF UserWrites
  <2>5. UserRows(u) \in Tables
    BY <2>3, RowType, StateNames, WithPendingType DEF UserRows, Operations
  <2> QED BY <1>3, <2>2, <2>4, <2>5, CommitType DEF UserCommit, TypeOK, RequestTables, channel
<1> QED BY <1>1, <1>2, <1>3 DEF User

LEMMA TypeStep ==
  TypeOK /\ [Next]_vars => TypeOK'
<1> SUFFICES ASSUME TypeOK, [Next]_vars PROVE TypeOK'
  OBVIOUS
<1>1. CASE Next
  BY <1>1, RunnerType, TroubleType, WorkerType, CronType, UserType DEF Next
<1>2. CASE UNCHANGED vars
  BY <1>2 DEF vars, TypeOK, table, channel
<1> QED BY <1>1, <1>2

LEMMA TypeInit ==
  Init => TypeOK
<1> SUFFICES ASSUME Init PROVE TypeOK
  OBVIOUS
<1>1. row \in Tables
  BY StateNames DEF Init, Tables
<1>2. req \in RequestTables
  BY DEF Init, RequestTables, RequestRecord, Phases, FreeReq
<1>3. tx \in TxTables
  BY DEF Init, TxTables, TxRecord, NoTx, States
<1> QED BY <1>1, <1>2, <1>3 DEF Init, TypeOK
-----------------------------------------------------------------------------
(***************************************************************************)
(* Capacity.  The set of the running jobs of the runner, once it has       *)
(* loaded the table, holds at least the jobs that are active, whatever the *)
(* notifications it has yet to read; and no active job is in its queue.    *)
(***************************************************************************)

Aware == runner \in {"loading", "up"} =>
             /\ Active \subseteq running
             /\ Cardinality(running) <= Capacity
             /\ queue \cap Active = {}

CapacityInv == CapacityHolds /\ Aware

LEMMA Counting ==
  ASSUME TypeOK
  PROVE  /\ \A S \in SUBSET Jobs : IsFiniteSet(S) /\ Cardinality(S) \in Nat
         /\ \A S, T \in SUBSET Jobs : S \subseteq T => Cardinality(S) <= Cardinality(T)
         /\ \A S \in SUBSET Jobs, j \in Jobs : Cardinality(S \cup {j}) <= Cardinality(S) + 1
<1>1. \A S \in SUBSET Jobs : IsFiniteSet(S) /\ Cardinality(S) \in Nat
  BY FS_Subset, FS_CardinalityType
<1>2. \A S, T \in SUBSET Jobs : S \subseteq T => Cardinality(S) <= Cardinality(T)
  BY <1>1, FS_Subset
<1>3. ASSUME NEW S \in SUBSET Jobs, NEW j \in Jobs
      PROVE  Cardinality(S \cup {j}) <= Cardinality(S) + 1
  <2>1. Cardinality(S \cup {j}) = IF j \in S THEN Cardinality(S) ELSE Cardinality(S) + 1
    BY <1>1, FS_AddElement
  <2> QED BY <1>1, <2>1
<1> QED BY <1>1, <1>2, <1>3

\* A write of one row of a state that is not active activates no job.
LEMMA WriteRow ==
  ASSUME TypeOK, NEW j \in Jobs, NEW s \in States, NEW n, NEW S,
         \/ row' = SetState(j, s)
         \/ row' = [row EXCEPT ![j] = [state |-> s, retry |-> n]]
  PROVE  /\ State(j)' = s
         /\ \A i \in Jobs \ {j} : row'[i] = row[i] /\ State(i)' = State(i)
  BY DEF TypeOK, Tables, SetState, State

LEMMA WritePending ==
  ASSUME NEW r \in Tables, NEW S, row' = WithPending(S, r), NEW i \in Jobs
  PROVE  State(i)' = IF i \in S THEN "pending" ELSE r[i].state
  BY DEF WithPending, State, Tables

Quiet == \A i \in Jobs : i \in Active' => i \in Active

LEMMA QuietWrite ==
  ASSUME TypeOK, NEW j \in Jobs, NEW s \in States \ {"enqueued", "started"}, NEW n,
         \/ row' = SetState(j, s)
         \/ row' = [row EXCEPT ![j] = [state |-> s, retry |-> n]]
  PROVE  Quiet
  BY WriteRow DEF Quiet, Active

LEMMA NotActive ==
  ASSUME NEW b
  PROVE  /\ PendingOrWait(b) \in States \ {"enqueued", "started"}
         /\ {"pending", "done", "cancelled", "failed", "deleted"}
               \subseteq States \ {"enqueued", "started"}
  BY DEF PendingOrWait, States

LEMMA QuietReset ==
  ASSUME TypeOK, NEW j \in Jobs, row' = ResetIfEnqueued(j)
  PROVE  Quiet
<1>1. CASE row' = row
  BY <1>1 DEF Quiet, Active, State
<1>2. CASE row' = SetState(j, "pending")
  BY <1>2, QuietWrite, NotActive
<1> QED BY <1>1, <1>2 DEF ResetIfEnqueued

LEMMA QuietWorker ==
  ASSUME TypeOK, NEW q \in Requests, Worker(q)
  PROVE  Quiet
<1>j. req[q].phase # "free" => req[q].job \in Jobs
  BY RequestType
<1>1. CASE row' = row
  BY <1>1 DEF Quiet, Active, State
<1>2. CASE StartJob(q)
  <2>1. req[q].job \in Jobs /\ State(req[q].job) = "enqueued"
    BY <1>2, <1>j DEF StartJob
  <2>2. row' = SetState(req[q].job, "started")
    BY <1>2 DEF StartJob, Commit
  <2>3. \A i \in Jobs \ {req[q].job} : State(i)' = State(i)
    BY <2>1, <2>2, WriteRow, StateNames
  <2> QED BY <2>1, <2>3 DEF Quiet, Active
<1>3. CASE FinishJob(q) \/ FailJob(q) \/ RetryJob(q) \/ IgnoredRetry(q)
  <2>1. req[q].job \in Jobs
    BY <1>3, <1>j DEF FinishJob, FailJob, RetryJob, IgnoredRetry
  <2>2. \E s \in States \ {"enqueued", "started"} :
           \/ row' = Store(q, s)
           \/ row' = [row EXCEPT ![req[q].job] = [state |-> s, retry |-> req[q].retry]]
    BY <1>3, NotActive DEF FinishJob, FailJob, RetryJob, IgnoredRetry, Commit
  <2> QED BY <2>1, <2>2, QuietWrite DEF Store
<1>4. CASE EnqueueDependents(q)
  <2>1. row \in Tables /\ row' = WithPending(req[q].woken, row)
    BY <1>4 DEF EnqueueDependents, Commit, TypeOK
  <2> QED BY <2>1, WritePending DEF Quiet, Active, State
<1> QED BY <1>1, <1>2, <1>3, <1>4 DEF Worker, ReachServer, RejectJob, BeginPerform,
        NothingToDoLost, BeginEnqueue, EnqueueFails, table

LEMMA QuietTrouble ==
  ASSUME TypeOK, Trouble
  PROVE  Quiet
<1>1. CASE row' = row
  BY <1>1 DEF Quiet, Active, State
<1>2. ASSUME NEW q \in Requests, ClientTimeout(q) \/ ConnectionRefused(q)
      PROVE  Quiet
  <2>1. req[q].job \in Jobs
    BY <1>2, RequestType DEF ClientTimeout, ConnectionRefused
  <2> QED BY <1>2, <2>1, QuietReset DEF ClientTimeout, ConnectionRefused, Commit
<1>3. ASSUME NEW q \in Requests, WorkerCrash(q)
      PROVE  Quiet
  <2>1. req[q].job \in Jobs
    BY <1>3, RequestType DEF WorkerCrash
  <2>2. row' = row \/ row' = SetState(req[q].job, "pending")
    BY <1>3 DEF WorkerCrash, Commit
  <2> QED BY <1>1, <2>1, <2>2, QuietWrite, NotActive
<1> QED BY <1>1, <1>2, <1>3 DEF Trouble, RunnerError, RunnerCrash, table

LEMMA QuietCron ==
  ASSUME TypeOK, Cron
  PROVE  Quiet
<1>1. ASSUME NEW j \in Jobs, RequeueStuck(j)
      PROVE  Quiet
  <2>1. row' = [row EXCEPT ![j] = [state |-> PendingOrWait(ParentsDone(j)), retry |-> 0]]
    BY <1>1 DEF RequeueStuck, Commit
  <2> QED BY <2>1, QuietWrite, NotActive
<1>2. ASSUME NEW j \in Jobs, Vacuum(j)
      PROVE  Quiet
  BY <1>2, QuietWrite, NotActive DEF Vacuum
<1> QED BY <1>1, <1>2 DEF Cron

LEMMA QuietUser ==
  ASSUME TypeOK, NEW u \in Users,
         User(u) \/ \E op \in Operations, j \in Jobs : UserBegin(u, op, j)
  PROVE  Quiet
<1>1. CASE row' = row
  BY <1>1 DEF Quiet, Active, State
<1>2. CASE UserCommit(u)
  <2> DEFINE j == tx[u].job
  <2>1. j \in Jobs /\ tx[u].op \in Operations
    BY <1>2 DEF UserCommit, TypeOK, TxTables, TxRecord
  <2>2. row' = UserRows(u)
    BY <1>2 DEF UserCommit, Commit
  <2>3. CASE tx[u].op = "done"
    <3>1. row' = WithPending(Woken(j, SeenDone(u)), SetState(j, "done"))
      BY <2>2, <2>3 DEF UserRows
    <3>2. SetState(j, "done") \in Tables
      BY <2>1, RowType, StateNames
    <3>3. ASSUME NEW i \in Jobs, i \in Active'
          PROVE  i \in Active
      <4>1. State(i)' = IF i \in Woken(j, SeenDone(u)) THEN "pending"
                        ELSE SetState(j, "done")[i].state
        BY <3>1, <3>2, WritePending
      <4>2. SetState(j, "done")[i].state = IF i = j THEN "done" ELSE State(i)
        BY <2>1 DEF SetState, State, TypeOK, Tables
      <4> QED BY <3>3, <4>1, <4>2 DEF Active
    <3> QED BY <3>3 DEF Quiet
  <2>4. CASE tx[u].op = "cancel"
    BY <2>1, <2>2, <2>4, QuietWrite, NotActive DEF UserRows
  <2>5. CASE tx[u].op = "requeue"
    <3>1. row' = [row EXCEPT ![j] = [state |-> PendingOrWait(AllDone(Parents[j], tx[u].seen)),
                                     retry |-> 0]]
      BY <2>2, <2>5 DEF UserRows
    <3> QED BY <2>1, <3>1, QuietWrite, NotActive
  <2> QED BY <2>1, <2>3, <2>4, <2>5 DEF Operations
<1> QED BY <1>1, <1>2 DEF User, UserRetry, UserBegin, table

\* A step that activates no job and leaves the channel alone.
LEMMA QuietStep ==
  ASSUME TypeOK, CapacityInv, Quiet,
         \/ runner' = "down"
         \/ runner' = runner /\ queue' = queue /\ running' = running
  PROVE  CapacityInv'
<1>1. Active' \subseteq Active /\ Active \in SUBSET Jobs
  BY DEF Quiet, Active
<1>2. Cardinality(Active') <= Cardinality(Active)
  BY <1>1, Counting
<1>3. Cardinality(Active') \in Nat /\ Cardinality(Active) \in Nat /\ Capacity \in Nat
  BY <1>1, Counting
<1>4. Cardinality(Active') <= Capacity
  BY <1>2, <1>3 DEF CapacityInv, CapacityHolds
<1>5. Aware'
  BY <1>1 DEF CapacityInv, Aware
<1> QED BY <1>4, <1>5 DEF CapacityInv, CapacityHolds

LEMMA RunnerCapacity ==
  ASSUME TypeOK, CapacityInv, Runner
  PROVE  CapacityInv'
<1>a. Active \in SUBSET Jobs /\ Capacity \in Nat
  BY DEF Active
<1>1. CASE Listen \/ Load \/ Loaded
  <2>1. Active' = Active
    BY <1>1 DEF Listen, Load, Loaded, table, Active, State
  <2>2. CASE Listen \/ Loaded
    BY <2>1, <2>2 DEF Listen, Loaded, CapacityInv, CapacityHolds, Aware, channel
  <2>3. CASE Load
    <3>1. running' = Active /\ queue' \cap Active = {}
      BY <2>3 DEF Load, Active
    <3> QED BY <2>1, <3>1 DEF CapacityInv, CapacityHolds, Aware
  <2> QED BY <1>1, <2>2, <2>3
<1>2. ASSUME NEW j \in Jobs, ProcessNotification(j)
      PROVE  CapacityInv'
  <2>1. Active' = Active /\ runner' = runner /\ runner = "up"
    BY <1>2 DEF ProcessNotification, table, Active, State
  <2>2. /\ Active \subseteq running /\ Cardinality(running) <= Capacity
        /\ queue \cap Active = {} /\ running \in SUBSET Jobs
    BY <2>1 DEF CapacityInv, Aware, TypeOK
  <2>3. /\ Active \subseteq running' /\ running' \subseteq running
        /\ queue' \cap Active = {}
    BY <1>2, <2>2, RowType DEF ProcessNotification, Notify, States, Active, channel
  <2>4. Cardinality(running') <= Cardinality(running)
    BY <2>2, <2>3, Counting
  <2>5. Cardinality(running') \in Nat /\ Cardinality(running) \in Nat
    BY <2>2, <2>3, Counting
  <2>6. Cardinality(running') <= Capacity
    BY <1>a, <2>2, <2>4, <2>5
  <2> QED BY <2>1, <2>3, <2>6 DEF CapacityInv, CapacityHolds, Aware
<1>3. ASSUME NEW j \in Jobs, NEW q \in Requests, RunJob(j, q)
      PROVE  CapacityInv'
  <2>1. /\ runner = "up" /\ runner' = runner
        /\ j \in queue /\ Cardinality(running) < Capacity
        /\ queue' = queue \ {j} /\ running' = running \cup {j}
        /\ row' = IF Exists(j) THEN SetState(j, "enqueued") ELSE row
    BY <1>3 DEF RunJob, Commit
  <2>2. /\ Active \subseteq running /\ running \in SUBSET Jobs
        /\ queue \cap Active = {}
    BY <2>1 DEF CapacityInv, Aware, TypeOK
  <2>3. \A i \in Jobs \ {j} : State(i)' = State(i)
    <3>1. CASE row' = row
      BY <3>1 DEF State
    <3>2. CASE row' = SetState(j, "enqueued")
      BY <3>2, WriteRow, StateNames
    <3> QED BY <2>1, <3>1, <3>2
  <2>4. Active' \subseteq Active \cup {j}
    BY <2>3 DEF Active
  <2>5. Cardinality(running') <= Cardinality(running) + 1
    BY <2>1, <2>2, Counting
  <2>6. running' \in SUBSET Jobs /\ Active' \in SUBSET Jobs /\ Active' \subseteq running'
    BY <2>1, <2>2, <2>4 DEF Active
  <2>7. Cardinality(Active') <= Cardinality(running')
    BY <2>6, Counting
  <2>8. /\ Cardinality(running') \in Nat /\ Cardinality(running) \in Nat
        /\ Cardinality(Active') \in Nat
    BY <2>2, <2>6, Counting
  <2>9. Cardinality(running') <= Capacity /\ Cardinality(Active') <= Capacity
    BY <1>a, <2>1, <2>5, <2>7, <2>8
  <2>10. queue' \cap Active' = {}
    BY <2>1, <2>2, <2>4
  <2> QED BY <2>1, <2>6, <2>9, <2>10 DEF CapacityInv, CapacityHolds, Aware
<1> QED BY <1>1, <1>2, <1>3 DEF Runner

LEMMA CapacityStep ==
  TypeOK /\ CapacityInv /\ [Next]_vars => CapacityInv'
<1> SUFFICES ASSUME TypeOK, CapacityInv, [Next]_vars PROVE CapacityInv'
  OBVIOUS
<1>1. CASE Runner
  BY <1>1, RunnerCapacity
<1>2. CASE Trouble
  <2>1. \/ runner' = "down"
        \/ runner' = runner /\ queue' = queue /\ running' = running
    BY <1>2 DEF Trouble, RunnerError, RunnerCrash, ClientTimeout, ConnectionRefused,
       WorkerCrash, channel
  <2> QED BY <1>2, <2>1, QuietTrouble, QuietStep
<1>3. CASE Cron
  <2>1. runner' = runner /\ queue' = queue /\ running' = running
    BY <1>3 DEF Cron, RequeueStuck, Vacuum, channel
  <2> QED BY <1>3, <2>1, QuietCron, QuietStep
<1>4. ASSUME NEW q \in Requests, Worker(q)
      PROVE  CapacityInv'
  <2>1. runner' = runner /\ queue' = queue /\ running' = running
    BY <1>4 DEF Worker, ReachServer, StartJob, RejectJob, BeginPerform, FinishJob,
       NothingToDoLost, RetryJob, IgnoredRetry, FailJob, BeginEnqueue,
       EnqueueDependents, EnqueueFails, channel
  <2> QED BY <1>4, <2>1, QuietWorker, QuietStep
<1>5. ASSUME NEW u \in Users,
             User(u) \/ \E op \in Operations, j \in Jobs : UserBegin(u, op, j)
      PROVE  CapacityInv'
  <2>1. runner' = runner /\ queue' = queue /\ running' = running
    BY <1>5 DEF User, UserCommit, UserRetry, UserBegin, channel
  <2> QED BY <1>5, <2>1, QuietUser, QuietStep
<1>6. CASE UNCHANGED vars
  <2>1. runner' = runner /\ queue' = queue /\ running' = running /\ row' = row
    BY <1>6 DEF vars, table, channel
  <2> QED BY <2>1 DEF CapacityInv, CapacityHolds, Aware, Active, State
<1> QED BY <1>1, <1>2, <1>3, <1>4, <1>5, <1>6 DEF Next

LEMMA CapacityInit ==
  Init => CapacityInv
<1> SUFFICES ASSUME Init PROVE CapacityInv
  OBVIOUS
<1>1. Active = {}
  BY DEF Init, Active, State, PendingOrWait
<1>2. Cardinality({}) = 0
  BY FS_EmptySet
<1> QED BY <1>1, <1>2 DEF Init, CapacityInv, CapacityHolds, Aware

\* Every variable keeps its type, at every step of the runner, of the workers,
\* of the crons and of the users.
THEOREM Types == Spec => []TypeOK
  BY TypeInit, TypeStep, PTL DEF Spec

\* Never more jobs are enqueued or started than the capacity of the root
\* channel, whatever is lost, killed or requeued and whatever users do.
THEOREM CapacityIsKept == Spec => []CapacityHolds
<1>1. CapacityInv => CapacityHolds
  BY DEF CapacityInv
<1> QED BY <1>1, CapacityInit, CapacityStep, Types, PTL DEF Spec
-----------------------------------------------------------------------------
(***************************************************************************)
(* One execution at a time, when users only cancel jobs: those that set a  *)
(* started job to done or requeue it free its row for another execution.   *)
(***************************************************************************)

OnlyCancels == \A a \in Allowed : a[1] = "cancel"

\* A job that is executed has a row that says so.
ExecutingIsStarted == \A q \in Executing : State(req[q].job) = "started"

\* The children about to be woken still wait.
WokenWait == \A q \in Requests : req[q].phase = "enqueueing" /\ ~req[q].stale =>
                 \A c \in req[q].woken : State(c) = "wait_dependencies"

\* A transaction that can commit sees the state of its job.
CancelSees == \A u \in Users : tx[u].op # "none" =>
                 /\ tx[u].op = "cancel"
                 /\ tx[u].job \notin tx[u].changed
                       => State(tx[u].job) \in {"pending", "enqueued", "failed"}

ExecutionInv == ExecutingIsStarted /\ AtMostOneExecution /\ WokenWait /\ CancelSees

\* As far as the invariant is concerned, request a is request b.
SameRequest(a, b) == /\ a.phase = b.phase /\ a.job = b.job
                     /\ a.stale = b.stale /\ a.woken = b.woken

\* A commit of rows that no request is executing, by a request that stops or a
\* transaction that ends.
LEMMA CommitKeeps ==
  ASSUME TypeOK, ExecutionInv, NEW r \in Tables, NEW D \in SUBSET Jobs,
         NEW R \in RequestTables, NEW T \in TxTables, Commit(r, D, R, T),
         \A j \in Jobs \ D : r[j] = row[j],
         \A q \in Requests :
            \/ SameRequest(R[q], req[q])
            \/ R[q].phase \notin {"started", "performing", "enqueueing"},
         \A q \in Requests : R[q].phase \in {"started", "performing"} => R[q].job \notin D,
         \A u \in Users : T[u] = tx[u] \/ T[u].op = "none"
  PROVE  ExecutionInv'
<1>1. \A j \in Jobs \ D : row'[j] = row[j]
  BY DEF Commit
<1>2. \A q \in Requests :
         /\ R[q] \in RequestRecord /\ req[q] \in RequestRecord
         /\ (R[q].job = NoJob <=> R[q].phase = "free")
  BY DEF TypeOK, RequestTables
<1>3. ASSUME NEW q \in Requests
      PROVE  /\ req'[q].phase = R[q].phase /\ req'[q].job = R[q].job
             /\ req'[q].woken = R[q].woken
             /\ R[q].phase = "enqueueing" /\ ~req'[q].stale
                   => ~R[q].stale /\ R[q].woken \cap D = {}
  <2>1. req'[q] = IF \/ R[q].phase = "performing" /\ R[q].job \in D
                     \/ R[q].phase = "enqueueing" /\ R[q].woken \cap D # {}
                  THEN [R[q] EXCEPT !.stale = TRUE] ELSE R[q]
    BY DEF Commit
  <2>2. R[q] \in RequestRecord
    BY <1>2
  <2> QED BY <2>1, <2>2 DEF RequestRecord
<1>4. Executing' = {q \in Requests : R[q].phase \in {"started", "performing"}}
  BY <1>3 DEF Executing
<1>5. \A q \in Executing' : q \in Executing /\ R[q].job = req[q].job /\ R[q].job \in Jobs \ D
  <2> SUFFICES ASSUME NEW q \in Executing'
               PROVE  q \in Executing /\ R[q].job = req[q].job /\ R[q].job \in Jobs \ D
    OBVIOUS
  <2>1. q \in Requests /\ R[q].phase \in {"started", "performing"}
    BY <1>4
  <2>2. SameRequest(R[q], req[q]) /\ R[q].job \in Jobs
    BY <1>2, <2>1 DEF RequestRecord
  <2> QED BY <2>1, <2>2 DEF SameRequest, Executing
<1>6. ExecutingIsStarted' /\ AtMostOneExecution'
  <2>1. ExecutingIsStarted'
    <3> SUFFICES ASSUME NEW q \in Executing' PROVE row'[req'[q].job].state = "started"
      BY DEF ExecutingIsStarted, State
    <3>1. /\ q \in Requests /\ q \in Executing
          /\ R[q].job = req[q].job /\ R[q].job \in Jobs \ D
      BY <1>4, <1>5
    <3>2. req'[q].job = R[q].job
      BY <1>3, <3>1
    <3> QED BY <1>1, <3>1, <3>2 DEF ExecutionInv, ExecutingIsStarted, State
  <2>2. AtMostOneExecution'
    <3> SUFFICES ASSUME NEW q \in Executing', NEW s \in Executing',
                        req'[q].job = req'[s].job
                 PROVE  q = s
      BY DEF AtMostOneExecution
    <3>1. /\ q \in Requests /\ q \in Executing /\ R[q].job = req[q].job
          /\ s \in Requests /\ s \in Executing /\ R[s].job = req[s].job
      BY <1>4, <1>5
    <3> QED BY <1>3, <3>1 DEF ExecutionInv, AtMostOneExecution
  <2> QED BY <2>1, <2>2
<1>7. WokenWait'
  <2> SUFFICES ASSUME NEW q \in Requests, req'[q].phase = "enqueueing", ~req'[q].stale,
                      NEW c \in req'[q].woken
               PROVE  row'[c].state = "wait_dependencies"
    BY DEF WokenWait, State
  <2>1. /\ R[q].phase = "enqueueing" /\ ~R[q].stale /\ R[q].woken \cap D = {}
        /\ req'[q].woken = R[q].woken
    BY <1>3
  <2>2. SameRequest(R[q], req[q])
    BY <2>1
  <2>3. c \in Jobs \ D /\ c \in req[q].woken /\ req[q].phase = "enqueueing" /\ ~req[q].stale
    BY <1>2, <2>1, <2>2 DEF SameRequest, RequestRecord
  <2> QED BY <1>1, <2>3 DEF ExecutionInv, WokenWait, State
<1>8. CancelSees'
  <2> SUFFICES ASSUME NEW u \in Users, tx'[u].op # "none"
               PROVE  /\ tx'[u].op = "cancel"
                      /\ tx'[u].job \notin tx'[u].changed
                           => row'[tx'[u].job].state \in {"pending", "enqueued", "failed"}
    BY DEF CancelSees, State
  <2>1. T[u] \in TxRecord /\ (T[u].job = NoJob <=> T[u].op = "none")
    BY DEF TxTables
  <2>2. tx'[u] = IF T[u].op # "none" THEN [T[u] EXCEPT !.changed = @ \cup D] ELSE T[u]
    BY DEF Commit
  <2>3. T[u].op # "none" /\ T[u] = tx[u]
    BY <2>2
  <2>4. /\ tx'[u].op = tx[u].op /\ tx'[u].job = tx[u].job
        /\ tx'[u].changed = tx[u].changed \cup D
    BY <2>1, <2>2, <2>3, Changed
  <2>5. tx[u].job \in Jobs
    BY <2>1, <2>3 DEF TxRecord
  <2> QED BY <1>1, <2>3, <2>4, <2>5 DEF ExecutionInv, CancelSees, State
<1> QED BY <1>6, <1>7, <1>8 DEF ExecutionInv

\* A step that leaves the rows alone.
LEMMA NoWriteKeeps ==
  ASSUME ExecutionInv, row' = row, tx' = tx,
         \A q \in Requests :
            \/ SameRequest(req'[q], req[q])
            \/ req'[q].phase \notin {"started", "performing", "enqueueing"}
            \/ req[q].phase = "started" /\ req'[q].phase = "performing"
                  /\ req'[q].job = req[q].job
  PROVE  ExecutionInv'
<1>1. \A q \in Executing' : q \in Executing /\ req'[q].job = req[q].job
  BY DEF Executing, SameRequest
<1>2. ExecutingIsStarted'
  BY <1>1 DEF ExecutingIsStarted, ExecutionInv, State
<1>3. AtMostOneExecution'
  BY <1>1 DEF AtMostOneExecution, ExecutionInv
<1>4. WokenWait'
  BY DEF WokenWait, ExecutionInv, State, SameRequest
<1>5. CancelSees'
  BY DEF CancelSees, ExecutionInv, State
<1> QED BY <1>2, <1>3, <1>4, <1>5 DEF ExecutionInv

LEMMA WrittenRow ==
  ASSUME TypeOK, NEW j \in Jobs
  PROVE  /\ \A s : \A i \in Jobs \ {j} : SetState(j, s)[i] = row[i]
         /\ \A e : \A i \in Jobs \ {j} : [row EXCEPT ![j] = e][i] = row[i]
  BY DEF TypeOK, Tables, SetState

\* The request q stops.
LEMMA Freed ==
  ASSUME TypeOK, NEW q \in Requests
  PROVE  LET R == [req EXCEPT ![q] = FreeReq]
         IN  /\ \A s \in Requests : \/ SameRequest(R[s], req[s])
                                    \/ R[s].phase \notin {"started", "performing", "enqueueing"}
             /\ \A s \in Requests : R[s].phase \in {"started", "performing"}
                                       => s # q /\ R[s] = req[s]
  BY DEF SameRequest, FreeReq, TypeOK, RequestTables

\* The rows of the other executions are not that of q.
LEMMA OthersElsewhere ==
  ASSUME ExecutionInv, NEW q \in Executing, NEW s \in Requests \ {q},
         req[s].phase \in {"started", "performing"}
  PROVE  req[s].job # req[q].job
  BY DEF ExecutionInv, AtMostOneExecution, Executing

LEMMA ResetKeeps ==
  ASSUME TypeOK, NEW j \in Jobs
  PROVE  /\ \A i \in Jobs \ ResetRows(j) : ResetIfEnqueued(j)[i] = row[i]
         /\ \A i \in ResetRows(j) : State(i) = "enqueued"
  BY WrittenRow DEF ResetRows, ResetIfEnqueued

LEMMA ExecutionRunner ==
  ASSUME TypeOK, CapacityInv, ExecutionInv, Runner
  PROVE  ExecutionInv'
<1>1. CASE row' = row /\ req' = req /\ tx' = tx
  BY <1>1, NoWriteKeeps DEF SameRequest
<1>2. ASSUME NEW j \in Jobs, NEW q \in Requests, RunJob(j, q)
      PROVE  ExecutionInv'
  <2> DEFINE R == [req EXCEPT ![q] = [FreeReq EXCEPT !.phase = "sending", !.job = j,
                                                     !.client = TRUE]]
             r == IF Exists(j) THEN SetState(j, "enqueued") ELSE row
             D == IF Exists(j) THEN {j} ELSE {}
  <2>1. R \in RequestTables
    BY DEF TypeOK, RequestTables, RequestRecord, Phases, FreeReq
  <2>2. r \in Tables /\ D \in SUBSET Jobs /\ tx \in TxTables
    BY RowType, StateNames DEF TypeOK
  <2>3. Commit(r, D, R, tx)
    BY <1>2 DEF RunJob
  <2>4. \A i \in Jobs \ D : r[i] = row[i]
    BY WrittenRow
  <2>5. \A s \in Requests : \/ s # q /\ R[s] = req[s]
                            \/ s = q /\ R[s].phase = "sending"
    BY DEF TypeOK, RequestTables, FreeReq
  <2>6. j \notin Active
    BY <1>2 DEF RunJob, CapacityInv, Aware
  <2>7. \A s \in Requests : R[s].phase \in {"started", "performing"} => R[s].job \notin D
    <3> SUFFICES ASSUME NEW s \in Requests, R[s].phase \in {"started", "performing"}
                 PROVE  R[s].job # j
      OBVIOUS
    <3>1. R[s] = req[s] /\ s \in Executing
      BY <2>5 DEF Executing
    <3>2. State(req[s].job) = "started"
      BY <3>1 DEF ExecutionInv, ExecutingIsStarted
    <3> QED BY <2>6, <3>1, <3>2 DEF Active
  <2>8. \A s \in Requests : \/ SameRequest(R[s], req[s])
                            \/ R[s].phase \notin {"started", "performing", "enqueueing"}
    BY <2>5 DEF SameRequest
  <2> HIDE DEF R, r, D
  <2> QED BY <2>1, <2>2, <2>3, <2>4, <2>7, <2>8, CommitKeeps
<1> QED BY <1>1, <1>2 DEF Runner, Listen, Load, Loaded, ProcessNotification, table

\* Requests that only stop, and a row that no other request executes.
LEMMA StopKeeps ==
  ASSUME TypeOK, ExecutionInv, NEW q \in Requests, NEW r \in Tables, NEW D \in SUBSET Jobs,
         Commit(r, D, [req EXCEPT ![q] = FreeReq], tx),
         \A j \in Jobs \ D : r[j] = row[j],
         \/ q \in Executing /\ D \subseteq {req[q].job}
         \/ \A j \in D : State(j) # "started"
  PROVE  ExecutionInv'
<1> DEFINE R == [req EXCEPT ![q] = FreeReq]
<1>1. R \in RequestTables /\ tx \in TxTables
  BY RequestType DEF TypeOK
<1>2. /\ \A s \in Requests : \/ SameRequest(R[s], req[s])
                             \/ R[s].phase \notin {"started", "performing", "enqueueing"}
      /\ \A s \in Requests : R[s].phase \in {"started", "performing"}
                                => s # q /\ R[s] = req[s]
  BY Freed
<1> HIDE DEF R
<1>3. ASSUME NEW s \in Requests, R[s].phase \in {"started", "performing"}
      PROVE  R[s].job \notin D
  <2>1. s # q /\ R[s] = req[s] /\ s \in Executing
    BY <1>2, <1>3 DEF Executing
  <2>2. CASE q \in Executing /\ D \subseteq {req[q].job}
    BY <2>1, <2>2, OthersElsewhere DEF Executing
  <2>3. CASE \A j \in D : State(j) # "started"
    BY <2>1, <2>3 DEF ExecutionInv, ExecutingIsStarted
  <2> QED BY <2>2, <2>3
<1>4. Commit(r, D, R, tx)
  BY DEF R
<1> QED BY <1>1, <1>2, <1>3, <1>4, CommitKeeps

LEMMA ExecutionWorker ==
  ASSUME TypeOK, ExecutionInv, NEW q \in Requests, Worker(q)
  PROVE  ExecutionInv'
<1>j. req[q].phase # "free" => req[q].job \in Jobs
  BY RequestType
<1>f. \A s \in Requests \ {q} : \A a : [req EXCEPT ![q] = a][s] = req[s]
  BY DEF TypeOK, RequestTables
<1>q. \A a : [req EXCEPT ![q] = a][q] = a
  BY DEF TypeOK, RequestTables
<1>t. req[q] \in RequestRecord
  BY DEF TypeOK, RequestTables
<1>1. CASE ReachServer(q) \/ NothingToDoLost(q)
  <2>1. row' = row /\ tx' = tx /\ req' = [req EXCEPT ![q] = [req[q] EXCEPT !.phase = "accepted"]]
    BY <1>1 DEF ReachServer, NothingToDoLost, table
  <2>2. [req[q] EXCEPT !.phase = "accepted"].phase = "accepted"
    BY <1>t DEF RequestRecord
  <2> QED BY <1>f, <1>q, <2>1, <2>2, NoWriteKeeps DEF SameRequest
<1>2. CASE RejectJob(q) \/ EnqueueFails(q)
  <2>1. row' = row /\ tx' = tx /\ req' = [req EXCEPT ![q] = FreeReq]
    BY <1>2 DEF RejectJob, EnqueueFails, table
  <2> QED BY <2>1, Freed, NoWriteKeeps
<1>3. CASE BeginPerform(q)
  <2> DEFINE b == [req[q] EXCEPT !.phase = "performing", !.stale = FALSE]
  <2>1. row' = row /\ tx' = tx /\ req[q].phase = "started" /\ req' = [req EXCEPT ![q] = b]
    BY <1>3 DEF BeginPerform, table
  <2>2. b.phase = "performing" /\ b.job = req[q].job
    BY <1>t DEF RequestRecord
  <2> HIDE DEF b
  <2>3. \A s \in Requests : s = q \/ SameRequest(req'[s], req[s])
    BY <1>f, <2>1 DEF SameRequest
  <2>4. req'[q] = b
    BY <1>q, <2>1
  <2> QED BY <2>1, <2>2, <2>3, <2>4, NoWriteKeeps
<1>4. CASE BeginEnqueue(q)
  <2> DEFINE b == [req[q] EXCEPT !.phase = "enqueueing", !.stale = FALSE,
                                 !.woken = Woken(req[q].job, CurrentStates)]
  <2>1. row' = row /\ tx' = tx /\ req' = [req EXCEPT ![q] = b]
    BY <1>4 DEF BeginEnqueue, table
  <2>2. b.phase = "enqueueing" /\ b.woken = Woken(req[q].job, CurrentStates)
    BY <1>t DEF RequestRecord
  <2> HIDE DEF b
  <2>3. \A s \in Requests \ {q} : req'[s] = req[s]
    BY <1>f, <2>1
  <2>4. req'[q] = b
    BY <1>q, <2>1
  <2>5. \A s \in Executing' : s \in Executing /\ req'[s] = req[s]
    BY <2>2, <2>3, <2>4 DEF Executing
  <2>6. ExecutingIsStarted' /\ AtMostOneExecution'
    BY <2>1, <2>5 DEF ExecutionInv, ExecutingIsStarted, AtMostOneExecution, State
  <2>7. \A c \in b.woken : State(c) = "wait_dependencies"
    BY <2>2 DEF Woken, CurrentStates, Children
  <2>8. WokenWait'
    BY <2>1, <2>3, <2>4, <2>7 DEF ExecutionInv, WokenWait, State
  <2>9. CancelSees'
    BY <2>1 DEF ExecutionInv, CancelSees, State
  <2> QED BY <2>6, <2>8, <2>9 DEF ExecutionInv
<1>5. CASE StartJob(q)
  <2> DEFINE j == req[q].job
             b == [req[q] EXCEPT !.phase = "started", !.ready = ParentsDone(j),
                                 !.retry = row[j].retry]
             R == [req EXCEPT ![q] = b]
  <2>1. j \in Jobs /\ State(j) = "enqueued" /\ req[q].phase = "accepted"
    BY <1>5, <1>j DEF StartJob
  <2>2. Commit(SetState(j, "started"), {j}, R, tx)
    BY <1>5 DEF StartJob
  <2>3. b.phase = "started" /\ b.job = j
    BY <1>t DEF RequestRecord
  <2>4. \A s \in Requests : req'[s].phase = R[s].phase /\ req'[s].job = R[s].job
                            /\ req'[s].woken = R[s].woken
                            /\ (R[s].phase = "enqueueing" /\ ~req'[s].stale
                                   => ~R[s].stale /\ R[s].woken \cap {j} = {})
    <3> SUFFICES ASSUME NEW s \in Requests
                 PROVE  /\ req'[s].phase = R[s].phase /\ req'[s].job = R[s].job
                        /\ req'[s].woken = R[s].woken
                        /\ (R[s].phase = "enqueueing" /\ ~req'[s].stale
                               => ~R[s].stale /\ R[s].woken \cap {j} = {})
      OBVIOUS
    <3>1. req'[s] = IF \/ R[s].phase = "performing" /\ R[s].job \in {j}
                       \/ R[s].phase = "enqueueing" /\ R[s].woken \cap {j} # {}
                    THEN [R[s] EXCEPT !.stale = TRUE] ELSE R[s]
      BY <2>2 DEF Commit
    <3>2. ParentsDone(j) \in BOOLEAN /\ row[j].retry \in Nat
      BY <2>1, RowType DEF ParentsDone, AllDone
    <3>3. b \in RequestRecord
      BY <1>t, <3>2 DEF RequestRecord, Phases
    <3>4. R[s] \in RequestRecord
      BY <1>f, <1>q, <3>3 DEF TypeOK, RequestTables
    <3> HIDE DEF R
    <3> QED BY <3>1, <3>4 DEF RequestRecord
  <2>5. \A s \in Requests \ {q} : R[s] = req[s]
    BY <1>f
  <2>6. R[q] = b
    BY <1>q
  <2>7. \A i \in Jobs \ {j} : row'[i] = row[i]
    BY <2>1, <2>2, WrittenRow DEF Commit
  <2>8. row'[j].state = "started"
    BY <2>1, <2>2 DEF Commit, SetState, TypeOK, Tables
  <2> HIDE DEF b, R
  <2>9. \A s \in Executing' \ {q} : s \in Executing /\ req'[s].job = req[s].job
    BY <2>4, <2>5 DEF Executing
  <2>10. \A s \in Executing : req[s].job \in Jobs \ {j}
    BY <2>1, RequestType DEF ExecutionInv, ExecutingIsStarted, Executing
  <2>11. req'[q].job = j
    BY <2>3, <2>4, <2>6
  <2>12. ExecutingIsStarted'
    BY <2>7, <2>8, <2>9, <2>10, <2>11 DEF ExecutionInv, ExecutingIsStarted, State
  <2>13. AtMostOneExecution'
    BY <2>9, <2>10, <2>11 DEF ExecutionInv, AtMostOneExecution
  <2>14. WokenWait'
    <3> SUFFICES ASSUME NEW s \in Requests, req'[s].phase = "enqueueing", ~req'[s].stale,
                        NEW c \in req'[s].woken
                 PROVE  row'[c].state = "wait_dependencies"
      BY DEF WokenWait, State
    <3>1. s # q
      BY <2>3, <2>4, <2>6
    <3>2. /\ req[s].phase = "enqueueing" /\ ~req[s].stale /\ c \in req[s].woken
          /\ c # j
      BY <2>4, <2>5, <3>1
    <3>3. c \in Jobs
      BY <3>2, RequestType
    <3> QED BY <2>7, <3>2, <3>3 DEF ExecutionInv, WokenWait, State
  <2>15. CancelSees'
    <3> SUFFICES ASSUME NEW u \in Users, tx'[u].op # "none"
                 PROVE  /\ tx'[u].op = "cancel"
                        /\ tx'[u].job \notin tx'[u].changed
                             => row'[tx'[u].job].state \in {"pending", "enqueued", "failed"}
      BY DEF CancelSees, State
    <3>1. tx[u] \in TxRecord /\ (tx[u].job = NoJob <=> tx[u].op = "none")
      BY DEF TypeOK, TxTables
    <3>2. tx'[u] = IF tx[u].op # "none" THEN [tx[u] EXCEPT !.changed = @ \cup {j}] ELSE tx[u]
      BY <2>2 DEF Commit
    <3>3. tx[u].op # "none" /\ {j} \in SUBSET Jobs
      BY <2>1, <3>2
    <3>4. /\ tx'[u].op = tx[u].op /\ tx'[u].job = tx[u].job
          /\ tx'[u].changed = tx[u].changed \cup {j}
      BY <3>1, <3>2, <3>3, Changed
    <3>5. tx[u].job \in Jobs
      BY <3>1, <3>3 DEF TxRecord
    <3> QED BY <2>7, <3>3, <3>4, <3>5 DEF ExecutionInv, CancelSees, State
  <2> QED BY <2>12, <2>13, <2>14, <2>15 DEF ExecutionInv
<1>6. CASE FinishJob(q)
  <2> DEFINE b == [req[q] EXCEPT !.phase = "finished"]
             R == [req EXCEPT ![q] = b]
  <2>1. /\ req[q].phase = "performing" /\ q \in Executing /\ req[q].job \in Jobs
        /\ Commit(Store(q, "done"), {req[q].job}, R, tx)
    BY <1>6, <1>j DEF FinishJob, Executing
  <2>2. b \in RequestRecord /\ b.phase = "finished" /\ b.job = req[q].job
    BY <1>t DEF RequestRecord, Phases
  <2>3. R[q] = b /\ \A s \in Requests \ {q} : R[s] = req[s]
    BY <1>q, <1>f
  <2>4. req[q].job # NoJob
    BY <2>1
  <2>5. req \in RequestTables /\ tx \in TxTables
    BY DEF TypeOK
  <2>6. Store(q, "done") \in Tables
    BY <2>1, StoreType, StateNames
  <2>7. \A i \in Jobs \ {req[q].job} : Store(q, "done")[i] = row[i]
    BY <2>1, WrittenRow DEF Store
  <2> HIDE DEF b
  <2>8. R \in RequestTables
    BY <2>2, <2>4, <2>5, RequestUpdate
  <2> HIDE DEF R
  <2>9. \A s \in Requests : R[s].phase \in {"started", "performing"}
                               => R[s].job \notin {req[q].job}
    BY <2>1, <2>2, <2>3, OthersElsewhere
  <2>10. \A s \in Requests : \/ SameRequest(R[s], req[s])
                             \/ R[s].phase \notin {"started", "performing", "enqueueing"}
    BY <2>2, <2>3 DEF SameRequest
  <2> QED BY <2>1, <2>5, <2>6, <2>7, <2>8, <2>9, <2>10, CommitKeeps
<1>7. CASE RetryJob(q) \/ FailJob(q)
  <2>1. PICK s \in States : Commit(Store(q, s), {req[q].job}, [req EXCEPT ![q] = FreeReq], tx)
    BY <1>7, StateNames DEF RetryJob, FailJob
  <2>2. q \in Executing /\ req[q].job \in Jobs
    BY <1>7, <1>j DEF RetryJob, FailJob, Executing
  <2>3. Store(q, s) \in Tables
    BY <2>2, StoreType DEF Executing
  <2>4. \A i \in Jobs \ {req[q].job} : Store(q, s)[i] = row[i]
    BY <2>2, WrittenRow DEF Store
  <2> QED BY <2>1, <2>2, <2>3, <2>4, StopKeeps
<1>8. CASE IgnoredRetry(q)
  <2> DEFINE r == [row EXCEPT ![req[q].job] = [state |-> PendingOrWait(req[q].ready),
                                               retry |-> req[q].retry]]
  <2>1. /\ q \in Executing /\ req[q].job \in Jobs
        /\ Commit(r, {req[q].job}, [req EXCEPT ![q] = FreeReq], tx)
    BY <1>8, <1>j DEF IgnoredRetry, Executing
  <2>2. r \in Tables
    BY <2>1, StoreType, StateNames DEF Executing
  <2>3. \A i \in Jobs \ {req[q].job} : r[i] = row[i]
    BY <2>1, WrittenRow
  <2> HIDE DEF r
  <2> QED BY <2>1, <2>2, <2>3, StopKeeps
<1>9. CASE EnqueueDependents(q)
  <2>1. /\ req[q].phase = "enqueueing" /\ ~req[q].stale
        /\ Commit(WithPending(req[q].woken, row), req[q].woken,
                  [req EXCEPT ![q] = FreeReq], tx)
    BY <1>9 DEF EnqueueDependents
  <2>2. WithPending(req[q].woken, row) \in Tables /\ req[q].woken \in SUBSET Jobs
    BY WithPendingType, RequestType DEF TypeOK
  <2>3. \A j \in req[q].woken : State(j) # "started"
    BY <2>1 DEF ExecutionInv, WokenWait
  <2>4. \A i \in Jobs \ req[q].woken : WithPending(req[q].woken, row)[i] = row[i]
    BY DEF WithPending
  <2> QED BY <2>1, <2>2, <2>3, <2>4, StopKeeps
<1> QED BY <1>1, <1>2, <1>3, <1>4, <1>5, <1>6, <1>7, <1>8, <1>9 DEF Worker

\* The rows change, and no request or transaction does.
LEMMA WriteKeeps ==
  ASSUME TypeOK, ExecutionInv, NEW r \in Tables, NEW D \in SUBSET Jobs, NEW T \in TxTables,
         Commit(r, D, req, T), \A j \in Jobs \ D : r[j] = row[j],
         \A j \in D : State(j) # "started",
         \A u \in Users : T[u] = tx[u] \/ T[u].op = "none"
  PROVE  ExecutionInv'
<1>1. req \in RequestTables
  BY DEF TypeOK
<1>2. \A s \in Requests : req[s].phase \in {"started", "performing"} => req[s].job \notin D
  BY DEF ExecutionInv, ExecutingIsStarted, Executing
<1>3. \A s \in Requests : SameRequest(req[s], req[s])
  BY DEF SameRequest
<1> QED BY <1>1, <1>2, <1>3, CommitKeeps

LEMMA ExecutionTrouble ==
  ASSUME TypeOK, ExecutionInv, Trouble
  PROVE  ExecutionInv'
<1>1. CASE RunnerError
  <2>1. row' = row /\ req' = req /\ tx' = tx
    BY <1>1 DEF RunnerError, table
  <2> QED BY <2>1, NoWriteKeeps DEF SameRequest
<1>2. CASE RunnerCrash
  <2>1. row' = row /\ tx' = tx
    BY <1>2 DEF RunnerCrash, table
  <2>2. ASSUME NEW s \in Requests
        PROVE  \/ SameRequest(req'[s], req[s])
               \/ req'[s].phase \notin {"started", "performing", "enqueueing"}
    <3>1. req'[s] = IF req[s].phase = "sending" THEN FreeReq
                    ELSE [req[s] EXCEPT !.client = FALSE]
      BY <1>2 DEF RunnerCrash
    <3>2. req[s] \in RequestRecord
      BY DEF TypeOK, RequestTables
    <3> DEFINE b == [req[s] EXCEPT !.client = FALSE]
    <3>3. /\ b.phase = req[s].phase /\ b.job = req[s].job
          /\ b.stale = req[s].stale /\ b.woken = req[s].woken
      BY <3>2 DEF RequestRecord
    <3>4. FreeReq.phase = "free"
      BY DEF FreeReq
    <3>5. req'[s] = FreeReq \/ req'[s] = b
      BY <3>1
    <3> HIDE DEF b
    <3>6. CASE req'[s] = FreeReq
      BY <3>4, <3>6
    <3>7. CASE req'[s] = b
      BY <3>3, <3>7 DEF SameRequest
    <3> QED BY <3>5, <3>6, <3>7
  <2> QED BY <2>1, <2>2, NoWriteKeeps
<1>3. ASSUME NEW q \in Requests, ClientTimeout(q)
      PROVE  ExecutionInv'
  <2> DEFINE b == [req[q] EXCEPT !.client = FALSE]
             R == [req EXCEPT ![q] = b]
             r == ResetIfEnqueued(req[q].job)
             D == ResetRows(req[q].job)
  <2>1. /\ req[q].job \in Jobs
        /\ Commit(r, D, R, tx)
    BY <1>3, RequestType DEF ClientTimeout
  <2>2. req[q] \in RequestRecord /\ (req[q].job = NoJob <=> req[q].phase = "free")
    BY DEF TypeOK, RequestTables
  <2>3. b \in RequestRecord /\ SameRequest(b, req[q])
    BY <2>2 DEF RequestRecord, SameRequest
  <2>4. R[q] = b /\ \A s \in Requests \ {q} : R[s] = req[s]
    BY DEF TypeOK, RequestTables
  <2>5. req \in RequestTables /\ tx \in TxTables
    BY DEF TypeOK
  <2> HIDE DEF b
  <2>6. R \in RequestTables
    BY <2>2, <2>3, <2>5, RequestUpdate DEF SameRequest
  <2>7. /\ r \in Tables /\ D \in SUBSET Jobs
        /\ \A i \in Jobs \ D : r[i] = row[i]
        /\ \A i \in D : State(i) = "enqueued"
    BY <2>1, ResetType, ResetKeeps
  <2> HIDE DEF R, r, D
  <2>8. \A s \in Requests : SameRequest(R[s], req[s])
    BY <2>3, <2>4 DEF SameRequest
  <2>9. \A s \in Requests : R[s].phase \in {"started", "performing"} => R[s].job \notin D
    BY <2>7, <2>8 DEF SameRequest, ExecutionInv, ExecutingIsStarted, Executing
  <2> QED BY <2>1, <2>5, <2>6, <2>7, <2>8, <2>9, CommitKeeps
<1>4. ASSUME NEW q \in Requests, ConnectionRefused(q)
      PROVE  ExecutionInv'
  <2> DEFINE r == ResetIfEnqueued(req[q].job)
             D == ResetRows(req[q].job)
  <2>1. /\ req[q].job \in Jobs
        /\ Commit(r, D, [req EXCEPT ![q] = FreeReq], tx)
    BY <1>4, RequestType DEF ConnectionRefused
  <2>2. /\ r \in Tables /\ D \in SUBSET Jobs
        /\ \A i \in Jobs \ D : r[i] = row[i]
        /\ \A i \in D : State(i) # "started"
    BY <2>1, ResetType, ResetKeeps
  <2> HIDE DEF r, D
  <2> QED BY <2>1, <2>2, StopKeeps
<1>5. ASSUME NEW q \in Requests, WorkerCrash(q)
      PROVE  ExecutionInv'
  <2> DEFINE j == req[q].job
             reset == req[q].client /\ State(j) = "enqueued"
             r == IF reset THEN SetState(j, "pending") ELSE row
             D == IF reset THEN {j} ELSE {}
  <2>1. j \in Jobs /\ Commit(r, D, [req EXCEPT ![q] = FreeReq], tx)
    BY <1>5, RequestType DEF WorkerCrash
  <2>2. r \in Tables /\ D \in SUBSET Jobs
    BY <2>1, RowType, StateNames DEF TypeOK
  <2>3. \A i \in Jobs \ D : r[i] = row[i]
    BY <2>1, WrittenRow
  <2>4. \A i \in D : State(i) # "started"
    OBVIOUS
  <2> HIDE DEF r, D
  <2> QED BY <2>1, <2>2, <2>3, <2>4, StopKeeps
<1> QED BY <1>1, <1>2, <1>3, <1>4, <1>5 DEF Trouble

LEMMA ExecutionCron ==
  ASSUME TypeOK, ExecutionInv, Cron
  PROVE  ExecutionInv'
<1>1. ASSUME NEW j \in Jobs, RequeueStuck(j)
      PROVE  ExecutionInv'
  <2> DEFINE r == [row EXCEPT ![j] = [state |-> PendingOrWait(ParentsDone(j)),
                                      retry |-> 0]]
  <2>1. r \in Tables /\ tx \in TxTables
    BY RowType, StateNames DEF TypeOK
  <2>2. Commit(r, {j}, req, tx) /\ State(j) = "enqueued"
    BY <1>1 DEF RequeueStuck
  <2>3. \A i \in Jobs \ {j} : r[i] = row[i]
    BY WrittenRow
  <2>4. {j} \in SUBSET Jobs /\ \A i \in {j} : State(i) # "started"
    BY <2>2
  <2> HIDE DEF r
  <2> QED BY <2>1, <2>2, <2>3, <2>4, WriteKeeps
<1>2. ASSUME NEW j \in Jobs, Vacuum(j)
      PROVE  ExecutionInv'
  <2>1. /\ State(j) \in {"done", "cancelled"} /\ row' = SetState(j, "deleted")
        /\ \A q \in Requests : req[q].job # j
        /\ \A u \in Users : tx[u].job # j
        /\ req' = req /\ tx' = tx
    BY <1>2 DEF Vacuum
  <2>2. \A i \in Jobs \ {j} : row'[i] = row[i]
    BY <2>1, WrittenRow
  <2>3. ExecutingIsStarted'
    <3> SUFFICES ASSUME NEW q \in Executing PROVE row'[req[q].job].state = "started"
      BY <2>1 DEF ExecutingIsStarted, Executing, State
    <3>1. req[q].job \in Jobs \ {j}
      BY <2>1, RequestType DEF Executing
    <3> QED BY <2>2, <3>1 DEF ExecutionInv, ExecutingIsStarted, State
  <2>4. AtMostOneExecution'
    BY <2>1 DEF ExecutionInv, AtMostOneExecution, Executing
  <2>5. WokenWait'
    <3> SUFFICES ASSUME NEW q \in Requests, req[q].phase = "enqueueing", ~req[q].stale,
                        NEW c \in req[q].woken
                 PROVE  row'[c].state = "wait_dependencies"
      BY <2>1 DEF WokenWait, State
    <3>1. State(c) = "wait_dependencies" /\ c \in Jobs
      BY RequestType DEF ExecutionInv, WokenWait
    <3>2. c # j
      BY <2>1, <3>1
    <3> QED BY <2>2, <3>1, <3>2 DEF State
  <2>6. CancelSees'
    <3> SUFFICES ASSUME NEW u \in Users, tx[u].op # "none"
                 PROVE  /\ tx[u].op = "cancel"
                        /\ tx[u].job \notin tx[u].changed
                             => row'[tx[u].job].state \in {"pending", "enqueued", "failed"}
      BY <2>1 DEF CancelSees, State
    <3>1. tx[u].job \in Jobs \ {j}
      BY <2>1 DEF TypeOK, TxTables, TxRecord
    <3> QED BY <2>2, <3>1 DEF ExecutionInv, CancelSees, State
  <2> QED BY <2>3, <2>4, <2>5, <2>6 DEF ExecutionInv
<1> QED BY <1>1, <1>2 DEF Cron

LEMMA ExecutionUser ==
  ASSUME OnlyCancels, TypeOK, ExecutionInv, NEW u \in Users,
         User(u) \/ \E op \in Operations, j \in Jobs : UserBegin(u, op, j)
  PROVE  ExecutionInv'
<1>1. ASSUME row' = row, req' = req,
             \A v \in Users \ {u} : tx'[v] = tx[v],
             tx'[u].op # "none" =>
                 /\ tx'[u].op = "cancel"
                 /\ State(tx'[u].job) \in {"pending", "enqueued", "failed"}
      PROVE  ExecutionInv'
  <2>1. ExecutingIsStarted' /\ AtMostOneExecution' /\ WokenWait'
    BY <1>1 DEF ExecutionInv, ExecutingIsStarted, AtMostOneExecution, WokenWait,
       Executing, State
  <2>2. CancelSees'
    BY <1>1 DEF ExecutionInv, CancelSees, State
  <2> QED BY <2>1, <2>2 DEF ExecutionInv
<1>t. tx[u] \in TxRecord /\ \A a : /\ [tx EXCEPT ![u] = a][u] = a
                                   /\ \A v \in Users \ {u} : [tx EXCEPT ![u] = a][v] = tx[v]
  BY DEF TypeOK, TxTables
<1>2. ASSUME NEW op \in Operations, NEW j \in Jobs, UserBegin(u, op, j)
      PROVE  ExecutionInv'
  <2>1. op = "cancel" /\ State(j) \in Applicable(op)
    <3>1. <<op, State(j)>> \in Allowed
      BY <1>2 DEF UserBegin
    <3> QED BY <3>1 DEF OnlyCancels
  <2>2. State(j) \in {"pending", "enqueued", "failed"}
    BY <2>1 DEF Applicable
  <2>3. /\ row' = row /\ req' = req
        /\ tx' = [tx EXCEPT ![u] = [op |-> op, job |-> j, seen |-> CurrentStates,
                                    changed |-> {}]]
    BY <1>2 DEF UserBegin, table
  <2> QED BY <1>1, <1>t, <2>1, <2>2, <2>3
<1>3. CASE UserRetry(u)
  <2> DEFINE b == [tx[u] EXCEPT !.seen = CurrentStates, !.changed = {}]
  <2>1. /\ row' = row /\ req' = req /\ tx[u].op # "none"
        /\ tx' = [tx EXCEPT ![u] = IF State(tx[u].job) \in Applicable(tx[u].op)
                                   THEN b ELSE NoTx]
    BY <1>3 DEF UserRetry, table
  <2>2. b.op = tx[u].op /\ b.job = tx[u].job
    BY <1>t DEF TxRecord
  <2>3. tx[u].op = "cancel"
    BY <2>1 DEF ExecutionInv, CancelSees
  <2>4. NoTx.op = "none"
    BY DEF NoTx
  <2>5. Applicable("cancel") = {"pending", "enqueued", "failed"}
    BY DEF Applicable
  <2> HIDE DEF b
  <2>6. \A v \in Users \ {u} : tx'[v] = tx[v]
    BY <1>t, <2>1
  <2>7. tx'[u] = IF State(tx[u].job) \in Applicable(tx[u].op) THEN b ELSE NoTx
    BY <1>t, <2>1
  <2>8. CASE State(tx[u].job) \in Applicable(tx[u].op)
    <3>1. tx'[u] = b
      BY <2>7, <2>8
    <3>2. State(tx[u].job) \in {"pending", "enqueued", "failed"}
      BY <2>3, <2>5, <2>8
    <3>3. tx'[u].op = "cancel" /\ tx'[u].job = tx[u].job
      BY <2>2, <2>3, <3>1
    <3>4. State(tx'[u].job) \in {"pending", "enqueued", "failed"}
      BY <3>2, <3>3
    <3> QED BY <1>1, <2>1, <2>6, <3>3, <3>4
  <2>9. CASE State(tx[u].job) \notin Applicable(tx[u].op)
    <3>1. tx'[u].op = "none"
      BY <2>4, <2>7, <2>9
    <3> QED BY <1>1, <2>1, <2>6, <3>1
  <2> QED BY <2>8, <2>9
<1>4. CASE UserCommit(u)
  <2> DEFINE j == tx[u].job
             T == [tx EXCEPT ![u] = NoTx]
  <2>1. tx[u].op = "cancel" /\ j \in Jobs
    BY <1>4 DEF UserCommit, ExecutionInv, CancelSees, TypeOK, TxTables, TxRecord
  <2>2. UserWrites(u) = {j} /\ UserRows(u) = SetState(j, "cancelled")
    BY <2>1 DEF UserWrites, UserRows
  <2>3. j \notin tx[u].changed /\ Commit(SetState(j, "cancelled"), {j}, req, T)
    BY <1>4, <2>2 DEF UserCommit
  <2>4. State(j) # "started"
    BY <2>1, <2>3 DEF ExecutionInv, CancelSees
  <2>5. NoTx \in TxRecord /\ NoTx.job = NoJob /\ NoTx.op = "none"
    BY DEF NoTx, TxRecord, States
  <2>6. T \in TxTables
    BY <2>5 DEF TypeOK, TxTables
  <2>7. \A v \in Users : T[v] = tx[v] \/ T[v].op = "none"
    BY <1>t, <2>5
  <2>8. SetState(j, "cancelled") \in Tables
    BY <2>1, RowType, StateNames
  <2>9. \A i \in Jobs \ {j} : SetState(j, "cancelled")[i] = row[i]
    BY <2>1, WrittenRow
  <2>10. {j} \in SUBSET Jobs /\ \A i \in {j} : State(i) # "started"
    BY <2>1, <2>4
  <2> HIDE DEF j, T
  <2> QED BY <2>3, <2>6, <2>7, <2>8, <2>9, <2>10, WriteKeeps
<1> QED BY <1>2, <1>3, <1>4 DEF User

LEMMA ExecutionInit ==
  Init => ExecutionInv
<1> SUFFICES ASSUME Init PROVE ExecutionInv
  OBVIOUS
<1>1. \A q \in Requests : req[q].phase = "free"
  BY DEF Init, FreeReq
<1>2. \A u \in Users : tx[u].op = "none"
  BY DEF Init, NoTx
<1> QED BY <1>1, <1>2 DEF ExecutionInv, ExecutingIsStarted, AtMostOneExecution, WokenWait,
        CancelSees, Executing

LEMMA ExecutionStep ==
  ASSUME OnlyCancels
  PROVE  TypeOK /\ CapacityInv /\ ExecutionInv /\ [Next]_vars => ExecutionInv'
<1> SUFFICES ASSUME TypeOK, CapacityInv, ExecutionInv, [Next]_vars PROVE ExecutionInv'
  OBVIOUS
<1>1. CASE Next
  BY <1>1, ExecutionRunner, ExecutionTrouble, ExecutionCron, ExecutionWorker,
     ExecutionUser DEF Next
<1>2. CASE UNCHANGED vars
  <2>1. row' = row /\ req' = req /\ tx' = tx
    BY <1>2 DEF vars, table
  <2> QED BY <2>1, NoWriteKeeps DEF SameRequest
<1> QED BY <1>1, <1>2

\* No job is ever executed by two requests at a time, whatever is lost, killed
\* or requeued by the garbage collector, as long as users only cancel jobs.
THEOREM OneExecution ==
  ASSUME OnlyCancels
  PROVE  Spec => []AtMostOneExecution
<1>1. Init => CapacityInv /\ ExecutionInv
  BY CapacityInit, ExecutionInit
<1>2. ExecutionInv => AtMostOneExecution
  BY DEF ExecutionInv
<1>3. TypeOK /\ CapacityInv /\ ExecutionInv /\ [Next]_vars => ExecutionInv'
  BY ExecutionStep
<1> QED BY <1>1, <1>2, <1>3, CapacityStep, Types, PTL DEF Spec
-----------------------------------------------------------------------------
(***************************************************************************)
(* The memory of the runner.  From the moment it has read the table it     *)
(* agrees with it, but for the jobs it has been notified of: while it is   *)
(* connected every transaction that changes a row notifies, except that    *)
(* which deletes a job that was done, which the runner had forgotten.      *)
(***************************************************************************)

\* What the runner keeps of job j is what the row says.
Fresh(j) == /\ State(j) = "pending" => j \in queue /\ j \notin running
            /\ j \in Active => j \in running /\ j \notin queue
            /\ State(j) \in {"done", "cancelled", "failed", "deleted"} =>
                   j \notin queue /\ j \notin running

View == runner \in {"loading", "up"} => \A j \in Jobs \ notifs : Fresh(j)

\* The runner is told of the rows that a step changes.
Told == /\ notifs \subseteq notifs'
        /\ \A j \in Jobs \ notifs' :
              \/ State(j)' = State(j)
              \/ State(j) = "done" /\ State(j)' = "deleted"

\* A step of which the runner is told keeps its view of the table.
LEMMA ToldKeeps ==
  ASSUME View, runner' = runner, queue' = queue, running' = running,
         Connected => Told
  PROVE  View'
<1> SUFFICES ASSUME runner \in {"loading", "up"}, NEW j \in Jobs \ notifs'
             PROVE  Fresh(j)'
  BY DEF View
<1>1. Told
  BY DEF Connected
<1>2. Fresh(j)
  BY <1>1 DEF View, Told
<1>3. \/ State(j)' = State(j)
      \/ State(j) = "done" /\ State(j)' = "deleted"
  BY <1>1 DEF Told
<1> QED BY <1>2, <1>3 DEF Fresh, Active

LEMMA CommitTells ==
  ASSUME NEW r, NEW D, NEW R, NEW T, Commit(r, D, R, T),
         \A j \in Jobs \ D : r[j] = row[j]
  PROVE  Connected => Told
<1> SUFFICES ASSUME Connected PROVE Told
  OBVIOUS
<1>1. notifs' = notifs \cup D /\ row' = r
  BY DEF Commit
<1> QED BY <1>1 DEF Told, State

LEMMA NoWriteTells ==
  ASSUME row' = row, notifs' = notifs
  PROVE  Told
  BY DEF Told, State

LEMMA UserRowsElsewhere ==
  ASSUME TypeOK, NEW u \in Users, tx[u].op # "none"
  PROVE  \A i \in Jobs \ UserWrites(u) : UserRows(u)[i] = row[i]
<1>1. tx[u].job \in Jobs /\ tx[u].op \in Operations
  BY DEF TypeOK, TxTables, TxRecord
<1>2. CASE tx[u].op = "done"
  <2>1. UserRows(u) = WithPending(Woken(tx[u].job, SeenDone(u)), SetState(tx[u].job, "done"))
    BY <1>2 DEF UserRows
  <2>2. UserWrites(u) = {tx[u].job} \cup Woken(tx[u].job, SeenDone(u))
    BY <1>2 DEF UserWrites
  <2>3. \A i \in Jobs \ {tx[u].job} : SetState(tx[u].job, "done")[i] = row[i]
    BY <1>1, WrittenRow
  <2> QED BY <2>1, <2>2, <2>3 DEF WithPending
<1>3. CASE tx[u].op = "cancel"
  BY <1>1, <1>3, WrittenRow DEF UserRows, UserWrites
<1>4. CASE tx[u].op = "requeue"
  <2>1. UserRows(u) = [row EXCEPT ![tx[u].job] =
                          [state |-> PendingOrWait(AllDone(Parents[tx[u].job], tx[u].seen)),
                           retry |-> 0]]
    BY <1>4 DEF UserRows
  <2>2. UserWrites(u) = {tx[u].job}
    BY <1>4 DEF UserWrites
  <2> QED BY <1>1, <2>1, <2>2, WrittenRow
<1> QED BY <1>1, <1>2, <1>3, <1>4 DEF Operations

LEMMA WorkerTells ==
  ASSUME TypeOK, NEW q \in Requests, Worker(q)
  PROVE  Connected => Told
<1>j. req[q].phase # "free" => req[q].job \in Jobs
  BY RequestType
<1>1. CASE \/ ReachServer(q) \/ RejectJob(q) \/ BeginPerform(q) \/ NothingToDoLost(q)
           \/ BeginEnqueue(q) \/ EnqueueFails(q)
  BY <1>1, NoWriteTells DEF ReachServer, RejectJob, BeginPerform, NothingToDoLost,
     BeginEnqueue, EnqueueFails, table
<1>2. CASE StartJob(q)
  BY <1>2, <1>j, WrittenRow, CommitTells DEF StartJob
<1>3. CASE FinishJob(q) \/ RetryJob(q) \/ FailJob(q)
  <2>1. PICK s, R : Commit(Store(q, s), {req[q].job}, R, tx)
    BY <1>3 DEF FinishJob, RetryJob, FailJob
  <2>2. req[q].job \in Jobs
    BY <1>3, <1>j DEF FinishJob, RetryJob, FailJob
  <2>3. \A i \in Jobs \ {req[q].job} : Store(q, s)[i] = row[i]
    BY <2>2, WrittenRow DEF Store
  <2> QED BY <2>1, <2>3, CommitTells
<1>4. CASE IgnoredRetry(q)
  <2>1. req[q].job \in Jobs
    BY <1>4, <1>j DEF IgnoredRetry
  <2> DEFINE r == [row EXCEPT ![req[q].job] = [state |-> PendingOrWait(req[q].ready),
                                               retry |-> req[q].retry]]
  <2>2. Commit(r, {req[q].job}, [req EXCEPT ![q] = FreeReq], tx)
    BY <1>4 DEF IgnoredRetry
  <2>3. \A i \in Jobs \ {req[q].job} : r[i] = row[i]
    BY <2>1, WrittenRow
  <2> HIDE DEF r
  <2> QED BY <2>2, <2>3, CommitTells
<1>5. CASE EnqueueDependents(q)
  <2>1. PICK R : Commit(WithPending(req[q].woken, row), req[q].woken, R, tx)
    BY <1>5 DEF EnqueueDependents
  <2>2. \A i \in Jobs \ req[q].woken : WithPending(req[q].woken, row)[i] = row[i]
    BY DEF WithPending
  <2> QED BY <2>1, <2>2, CommitTells
<1> QED BY <1>1, <1>2, <1>3, <1>4, <1>5 DEF Worker

LEMMA TroubleTells ==
  ASSUME TypeOK, NEW q \in Requests,
         ClientTimeout(q) \/ ConnectionRefused(q) \/ WorkerCrash(q)
  PROVE  Connected => Told
<1>j. req[q].phase # "free" => req[q].job \in Jobs
  BY RequestType
<1>1. CASE ClientTimeout(q) \/ ConnectionRefused(q)
  <2>1. req[q].job \in Jobs
    BY <1>1, <1>j DEF ClientTimeout, ConnectionRefused
  <2>2. PICK R : Commit(ResetIfEnqueued(req[q].job), ResetRows(req[q].job), R, tx)
    BY <1>1 DEF ClientTimeout, ConnectionRefused
  <2> QED BY <2>1, <2>2, ResetKeeps, CommitTells
<1>2. CASE WorkerCrash(q)
  <2> DEFINE j == req[q].job
             reset == req[q].client /\ State(j) = "enqueued"
             r == IF reset THEN SetState(j, "pending") ELSE row
             D == IF reset THEN {j} ELSE {}
  <2>1. j \in Jobs
    BY <1>2, <1>j DEF WorkerCrash
  <2>2. PICK R : Commit(r, D, R, tx)
    BY <1>2 DEF WorkerCrash
  <2>3. \A i \in Jobs \ D : r[i] = row[i]
    BY <2>1, WrittenRow
  <2> HIDE DEF r, D
  <2> QED BY <2>2, <2>3, CommitTells
<1> QED BY <1>1, <1>2

LEMMA CronTells ==
  ASSUME TypeOK, Cron
  PROVE  Connected => Told
<1>1. ASSUME NEW j \in Jobs, RequeueStuck(j)
      PROVE  Connected => Told
  <2> DEFINE r == [row EXCEPT ![j] = [state |-> PendingOrWait(ParentsDone(j)), retry |-> 0]]
  <2>1. Commit(r, {j}, req, tx)
    BY <1>1 DEF RequeueStuck
  <2>2. \A i \in Jobs \ {j} : r[i] = row[i]
    BY WrittenRow
  <2> HIDE DEF r
  <2> QED BY <2>1, <2>2, CommitTells
<1>2. ASSUME NEW j \in Jobs, Vacuum(j)
      PROVE  Connected => Told
  <2>1. row' = SetState(j, "deleted")
    BY <1>2 DEF Vacuum
  <2>2. State(j)' = "deleted" /\ \A i \in Jobs \ {j} : State(i)' = State(i)
    BY <2>1, WriteRow, StateNames
  <2>3. Connected => notifs' = IF State(j) # "done" THEN notifs \cup {j} ELSE notifs
    BY <1>2 DEF Vacuum
  <2> QED BY <2>2, <2>3 DEF Told
<1> QED BY <1>1, <1>2 DEF Cron

LEMMA UserTells ==
  ASSUME TypeOK, NEW u \in Users,
         User(u) \/ \E op \in Operations, j \in Jobs : UserBegin(u, op, j)
  PROVE  Connected => Told
<1>1. CASE UserCommit(u)
  <2>1. /\ tx[u].op # "none"
        /\ Commit(UserRows(u), UserWrites(u), req, [tx EXCEPT ![u] = NoTx])
    BY <1>1 DEF UserCommit
  <2> QED BY <2>1, UserRowsElsewhere, CommitTells
<1>2. CASE row' = row /\ notifs' = notifs
  BY <1>2, NoWriteTells
<1> QED BY <1>1, <1>2 DEF User, UserRetry, UserBegin, table

LEMMA RunnerView ==
  ASSUME TypeOK, View, Runner
  PROVE  View'
<1>1. CASE Listen
  BY <1>1 DEF Listen, View
<1>2. CASE Load
  <2>1. \A j \in Jobs : Fresh(j)'
    BY <1>2 DEF Load, table, Fresh, Active, State
  <2> QED BY <2>1 DEF View
<1>3. CASE Loaded
  <2>1. /\ runner = "loading" /\ queue' = queue /\ running' = running
        /\ notifs' = notifs /\ row' = row
    BY <1>3 DEF Loaded, channel, table
  <2> QED BY <2>1 DEF View, Fresh, Active, State
<1>4. ASSUME NEW j \in Jobs, ProcessNotification(j)
      PROVE  View'
  <2>1. /\ runner = "up" /\ notifs' = notifs \ {j} /\ row' = row /\ Notify(j)
    BY <1>4 DEF ProcessNotification, table
  <2>2. State(j) \in States
    BY RowType
  <2>3. Fresh(j)'
    BY <2>1, <2>2 DEF Notify, Fresh, Active, State, States
  <2>4. ASSUME NEW i \in Jobs \ notifs, i # j
        PROVE  Fresh(i)'
    <3>1. Fresh(i)
      BY <2>1 DEF View
    <3>2. (i \in queue' <=> i \in queue) /\ (i \in running' <=> i \in running)
      BY <2>1, <2>2, <2>4 DEF Notify, States, channel
    <3> QED BY <2>1, <3>1, <3>2 DEF Fresh, Active, State
  <2> QED BY <2>1, <2>3, <2>4 DEF View
<1>5. ASSUME NEW j \in Jobs, NEW q \in Requests, RunJob(j, q)
      PROVE  View'
  <2> DEFINE r == IF Exists(j) THEN SetState(j, "enqueued") ELSE row
             D == IF Exists(j) THEN {j} ELSE {}
  <2>1. /\ runner = "up" /\ j \in queue
        /\ queue' = queue \ {j} /\ running' = running \cup {j}
    BY <1>5 DEF RunJob
  <2>2. PICK R : Commit(r, D, R, tx)
    BY <1>5 DEF RunJob
  <2>3. notifs' = notifs \cup D /\ row' = r
    BY <2>1, <2>2 DEF Commit, Connected
  <2>4. \A i \in Jobs \ {j} : row'[i] = row[i]
    BY <2>3, WrittenRow
  <2>5. ~Exists(j) => j \in notifs
    BY <2>1 DEF View, Fresh, Exists
  <2>6. ASSUME NEW i \in Jobs \ notifs'
        PROVE  Fresh(i)'
    <3>1. i \in Jobs \ notifs /\ i # j
      BY <2>3, <2>5, <2>6
    <3>2. Fresh(i) /\ State(i)' = State(i)
      BY <2>1, <2>4, <3>1 DEF View, State
    <3> QED BY <2>1, <3>1, <3>2 DEF Fresh, Active
  <2> QED BY <2>6 DEF View
<1> QED BY <1>1, <1>2, <1>3, <1>4, <1>5 DEF Runner

LEMMA ViewStep ==
  TypeOK /\ View /\ [Next]_vars => View'
<1> SUFFICES ASSUME TypeOK, View, [Next]_vars PROVE View'
  OBVIOUS
<1>1. CASE Runner
  BY <1>1, RunnerView
<1>2. CASE RunnerError \/ RunnerCrash
  BY <1>2 DEF RunnerError, RunnerCrash, View
<1>3. ASSUME NEW q \in Requests, ClientTimeout(q) \/ ConnectionRefused(q) \/ WorkerCrash(q)
      PROVE  View'
  <2>1. runner' = runner /\ queue' = queue /\ running' = running
    BY <1>3 DEF ClientTimeout, ConnectionRefused, WorkerCrash, channel
  <2> QED BY <1>3, <2>1, TroubleTells, ToldKeeps
<1>4. CASE Cron
  <2>1. runner' = runner /\ queue' = queue /\ running' = running
    BY <1>4 DEF Cron, RequeueStuck, Vacuum, channel
  <2> QED BY <1>4, <2>1, CronTells, ToldKeeps
<1>5. ASSUME NEW q \in Requests, Worker(q)
      PROVE  View'
  <2>1. runner' = runner /\ queue' = queue /\ running' = running
    BY <1>5 DEF Worker, ReachServer, StartJob, RejectJob, BeginPerform, FinishJob,
       NothingToDoLost, RetryJob, IgnoredRetry, FailJob, BeginEnqueue,
       EnqueueDependents, EnqueueFails, channel
  <2> QED BY <1>5, <2>1, WorkerTells, ToldKeeps
<1>6. ASSUME NEW u \in Users,
             User(u) \/ \E op \in Operations, j \in Jobs : UserBegin(u, op, j)
      PROVE  View'
  <2>1. runner' = runner /\ queue' = queue /\ running' = running
    BY <1>6 DEF User, UserCommit, UserRetry, UserBegin, channel
  <2> QED BY <1>6, <2>1, UserTells, ToldKeeps
<1>7. CASE UNCHANGED vars
  <2>1. /\ runner' = runner /\ queue' = queue /\ running' = running
        /\ row' = row /\ notifs' = notifs
    BY <1>7 DEF vars, table, channel
  <2> QED BY <2>1, NoWriteTells, ToldKeeps
<1> QED BY <1>1, <1>2, <1>3, <1>4, <1>5, <1>6, <1>7 DEF Next, Trouble

\* The runner, once started, knows of every job what its row says or has been
\* notified of it: it listens before it reads the table, so that no change
\* falls between, whatever it misses while it is down.
THEOREM ViewCorrect == Spec => []ViewIsFresh
<1>1. Init => View
  BY DEF Init, View
<1>2. View => ViewIsFresh
  BY DEF View, ViewIsFresh, Fresh
<1> QED BY <1>1, <1>2, ViewStep, Types, PTL DEF Spec
-----------------------------------------------------------------------------
(***************************************************************************)
(* The parents of a job come first.  Every row that may run, every place   *)
(* of the queue, every request, every child about to be woken and every    *)
(* snapshot of a user stands for parents that have been done.  This needs  *)
(* that the autovacuum deletes no row but those of done jobs: the parents  *)
(* that are deleted are not waited for.                                    *)
(***************************************************************************)

OnlyDoneVacuumed == Vacuumed \subseteq {"done"}

Cleared(j) == Parents[j] \subseteq finished

\* A state in which a job is going to run, or runs.
Ready == {"pending", "enqueued", "started"}

RowsCleared == \A j \in Jobs : /\ State(j) \in {"done", "deleted"} => j \in finished
                               /\ State(j) \in Ready => Cleared(j)
QueueCleared == runner \in {"loading", "up"} => \A j \in queue : Cleared(j)
RequestsCleared ==
    \A q \in Requests :
        /\ req[q].phase # "free" => Cleared(req[q].job)
        /\ req[q].phase = "enqueueing" => \A c \in req[q].woken : Cleared(c)
SnapshotsTrue ==
    \A u \in Users : tx[u].op # "none" =>
        \A p \in Jobs : tx[u].seen[p] \in {"done", "deleted"} => p \in finished

Parentage == RowsCleared /\ QueueCleared /\ RequestsCleared /\ SnapshotsTrue

\* The row of j is as it was, or agrees with the history.
Justified(j) == \/ State(j)' = State(j)
                \/ /\ State(j)' \in {"done", "deleted"} => j \in finished'
                   /\ State(j)' \in Ready => Cleared(j)'

LEMMA Clears ==
  ASSUME TypeOK, Parentage, finished \subseteq finished',
         \A j \in Jobs : Justified(j),
         runner' \in {"loading", "up"} =>
            \A j \in queue' : (j \in queue /\ runner \in {"loading", "up"}) \/ Cleared(j),
         \A q \in Requests :
            \/ SameRequest(req'[q], req[q])
            \/ /\ req'[q].phase # "free" => Cleared(req'[q].job)
               /\ req'[q].phase = "enqueueing" => \A c \in req'[q].woken : Cleared(c),
         \A u \in Users : \/ tx'[u].op = "none"
                          \/ tx'[u].op = tx[u].op /\ tx'[u].seen = tx[u].seen
                          \/ tx'[u].seen = CurrentStates
  PROVE  Parentage'
<1>1. \A j : Cleared(j) => Cleared(j)'
  BY DEF Cleared
<1>2. RowsCleared'
  BY <1>1 DEF Parentage, RowsCleared, Justified
<1>3. QueueCleared'
  BY <1>1 DEF Parentage, QueueCleared
<1>4. RequestsCleared'
  <2> SUFFICES ASSUME NEW q \in Requests
               PROVE  /\ req'[q].phase # "free" => Parents[req'[q].job] \subseteq finished'
                      /\ req'[q].phase = "enqueueing" =>
                            \A c \in req'[q].woken : Parents[c] \subseteq finished'
    BY DEF RequestsCleared, Cleared
  <2>1. CASE SameRequest(req'[q], req[q])
    BY <2>1 DEF Parentage, RequestsCleared, SameRequest, Cleared
  <2>2. CASE ~SameRequest(req'[q], req[q])
    <3>1. /\ req'[q].phase # "free" => Cleared(req'[q].job)
          /\ req'[q].phase = "enqueueing" => \A c \in req'[q].woken : Cleared(c)
      BY <2>2
    <3> QED BY <3>1 DEF Cleared
  <2> QED BY <2>1, <2>2
<1>5. SnapshotsTrue'
  <2> SUFFICES ASSUME NEW u \in Users, tx'[u].op # "none", NEW p \in Jobs,
                      tx'[u].seen[p] \in {"done", "deleted"}
               PROVE  p \in finished'
    BY DEF SnapshotsTrue
  <2>1. CASE tx'[u].op = tx[u].op /\ tx'[u].seen = tx[u].seen
    BY <2>1 DEF Parentage, SnapshotsTrue
  <2>2. CASE tx'[u].seen = CurrentStates
    <3>1. tx'[u].seen[p] = State(p)
      BY <2>2 DEF CurrentStates
    <3> QED BY <3>1 DEF Parentage, RowsCleared
  <2> QED BY <2>1, <2>2
<1> QED BY <1>2, <1>3, <1>4, <1>5 DEF Parentage

\* What a commit leaves of the requests and of the transactions.
LEMMA CommittedRequest ==
  ASSUME NEW r, NEW D \in SUBSET Jobs, NEW R \in RequestTables, NEW T,
         Commit(r, D, R, T), NEW q \in Requests
  PROVE  /\ req'[q].phase = R[q].phase /\ req'[q].job = R[q].job
         /\ req'[q].woken = R[q].woken /\ req'[q].ready = R[q].ready
         /\ req'[q].phase = "enqueueing" /\ req'[q].woken \cap D = {}
               => req'[q].stale = R[q].stale
<1>1. req'[q] = IF \/ R[q].phase = "performing" /\ R[q].job \in D
                   \/ R[q].phase = "enqueueing" /\ R[q].woken \cap D # {}
                THEN [R[q] EXCEPT !.stale = TRUE] ELSE R[q]
  BY DEF Commit
<1>2. R[q] \in RequestRecord
  BY DEF RequestTables
<1> QED BY <1>1, <1>2 DEF RequestRecord

LEMMA CommittedTx ==
  ASSUME NEW r, NEW D \in SUBSET Jobs, NEW R, NEW T \in TxTables,
         Commit(r, D, R, T), NEW u \in Users
  PROVE  tx'[u].op = T[u].op /\ tx'[u].job = T[u].job /\ tx'[u].seen = T[u].seen
<1>1. tx'[u] = IF T[u].op # "none" THEN [T[u] EXCEPT !.changed = @ \cup D] ELSE T[u]
  BY DEF Commit
<1>2. T[u] \in TxRecord
  BY DEF TxTables
<1> QED BY <1>1, <1>2 DEF TxRecord

\* A commit of rows that agree with the history it makes.
LEMMA CommitClears ==
  ASSUME TypeOK, Parentage, NEW r \in Tables, NEW D \in SUBSET Jobs,
         NEW R \in RequestTables, NEW T \in TxTables, Commit(r, D, R, T),
         \A j \in Jobs \ D : r[j] = row[j],
         \A j \in D : /\ r[j].state # "deleted"
                      /\ r[j].state \in Ready =>
                            Parents[j] \subseteq finished \cup {i \in D : r[i].state = "done"},
         \A q \in Requests :
            \/ R[q].phase = req[q].phase /\ R[q].job = req[q].job /\ R[q].woken = req[q].woken
            \/ /\ R[q].phase # "free" => Cleared(R[q].job)
               /\ R[q].phase # "enqueueing",
         \A u \in Users : T[u] = tx[u] \/ T[u].op = "none",
         runner' = runner, queue' \subseteq queue
  PROVE  Parentage'
<1>1. row' = r /\ finished' = finished \cup {i \in D : r[i].state = "done"}
  BY DEF Commit
<1>2. \A j \in Jobs : Justified(j)
  BY <1>1 DEF Justified, State, Cleared
<1>3. \A q \in Requests : /\ req'[q].phase = R[q].phase /\ req'[q].job = R[q].job
                          /\ req'[q].woken = R[q].woken
  BY CommittedRequest
<1>4. \A u \in Users : /\ tx'[u].op = T[u].op /\ tx'[u].job = T[u].job
                       /\ tx'[u].seen = T[u].seen
  BY CommittedTx
<1>5. ASSUME NEW q \in Requests
      PROVE  /\ req'[q].phase # "free" => Cleared(req'[q].job)
             /\ req'[q].phase = "enqueueing" => \A c \in req'[q].woken : Cleared(c)
  <2>1. CASE R[q].phase = req[q].phase /\ R[q].job = req[q].job /\ R[q].woken = req[q].woken
    BY <1>3, <2>1 DEF Parentage, RequestsCleared
  <2>2. CASE /\ R[q].phase # "free" => Cleared(R[q].job)
             /\ R[q].phase # "enqueueing"
    BY <1>3, <2>2
  <2> QED BY <2>1, <2>2
<1>6. \A u \in Users : \/ tx'[u].op = "none"
                       \/ tx'[u].op = tx[u].op /\ tx'[u].seen = tx[u].seen
  BY <1>4
<1>7. finished \subseteq finished'
  BY <1>1
<1> QED BY <1>2, <1>5, <1>6, <1>7, Clears

\* A step that leaves the rows alone, by one request.
LEMMA NoWriteClears ==
  ASSUME TypeOK, Parentage, row' = row, finished' = finished, tx' = tx,
         runner' = runner, queue' = queue,
         \A q \in Requests :
            \/ SameRequest(req'[q], req[q])
            \/ /\ req'[q].phase # "free" => Cleared(req'[q].job)
               /\ req'[q].phase = "enqueueing" => \A c \in req'[q].woken : Cleared(c)
  PROVE  Parentage'
<1>1. \A j \in Jobs : Justified(j)
  BY DEF Justified, State
<1>2. \A q \in queue' : q \in queue
  OBVIOUS
<1> QED BY <1>1, Clears

\* A job whose parents are all done, or deleted, is cleared.
LEMMA AllDoneClears ==
  ASSUME RowsCleared, NEW j \in Jobs, ParentsDone(j)
  PROVE  Cleared(j)
<1>1. Parents[j] \subseteq Jobs
  OBVIOUS
<1> QED BY <1>1 DEF ParentsDone, AllDone, CurrentStates, RowsCleared, Cleared

LEMMA WokenAreCleared ==
  ASSUME RowsCleared, NEW p, NEW c \in Woken(p, CurrentStates)
  PROVE  c \in Jobs /\ Cleared(c)
<1>1. c \in Jobs /\ ParentsDone(c)
  BY DEF Woken, Children, ParentsDone
<1> QED BY <1>1, AllDoneClears

\* What CommitClears asks of the requests, when one of them changes.
LEMMA OneRequest ==
  ASSUME TypeOK, NEW q \in Requests, NEW a, a.phase # "enqueueing",
         a.phase # "free" => Cleared(a.job)
  PROVE  \A s \in Requests :
            LET R == [req EXCEPT ![q] = a]
            IN  \/ R[s].phase = req[s].phase /\ R[s].job = req[s].job /\ R[s].woken = req[s].woken
                \/ /\ R[s].phase # "free" => Cleared(R[s].job)
                   /\ R[s].phase # "enqueueing"
<1>1. \A s \in Requests : [req EXCEPT ![q] = a][s] = IF s = q THEN a ELSE req[s]
  BY DEF TypeOK, RequestTables
<1> QED BY <1>1

LEMMA FreeRequest ==
  FreeReq.phase = "free"
  BY DEF FreeReq

\* A write of one row, by a transaction that changes the request q to a.
LEMMA OneRowClears ==
  ASSUME TypeOK, Parentage, NEW j \in Jobs, NEW s \in States \ {"deleted"},
         s \in Ready => Cleared(j), NEW r \in Tables, NEW D \in SUBSET {j},
         NEW q \in Requests, NEW a \in RequestRecord,
         a.job = NoJob <=> a.phase = "free",
         a.phase # "enqueueing", a.phase # "free" => Cleared(a.job),
         Commit(r, D, [req EXCEPT ![q] = a], tx),
         \A i \in Jobs \ D : r[i] = row[i], \A i \in D : r[i].state = s,
         runner' = runner, queue' \subseteq queue
  PROVE  Parentage'
<1> DEFINE R == [req EXCEPT ![q] = a]
<1>1. req \in RequestTables /\ tx \in TxTables
  BY DEF TypeOK
<1>2. R \in RequestTables
  BY <1>1, RequestUpdate
<1>3. \A x \in Requests :
         \/ R[x].phase = req[x].phase /\ R[x].job = req[x].job /\ R[x].woken = req[x].woken
         \/ /\ R[x].phase # "free" => Cleared(R[x].job)
            /\ R[x].phase # "enqueueing"
  BY OneRequest
<1>4. Commit(r, D, R, tx)
  OBVIOUS
<1>5. \A i \in D : /\ r[i].state # "deleted"
                   /\ r[i].state \in Ready =>
                         Parents[i] \subseteq finished \cup {x \in D : r[x].state = "done"}
  BY DEF Cleared
<1>6. D \in SUBSET Jobs /\ \A u \in Users : tx[u] = tx[u] \/ tx[u].op = "none"
  OBVIOUS
<1> HIDE DEF R
<1> QED BY <1>1, <1>2, <1>3, <1>4, <1>5, <1>6, CommitClears

LEMMA FreeRecord ==
  /\ FreeReq \in RequestRecord
  /\ FreeReq.job = NoJob /\ FreeReq.phase = "free"
  BY DEF FreeReq, RequestRecord, Phases

LEMMA ParentageWorker ==
  ASSUME TypeOK, Parentage, NEW q \in Requests, Worker(q)
  PROVE  Parentage'
<1>t. /\ req[q] \in RequestRecord /\ (req[q].job = NoJob <=> req[q].phase = "free")
      /\ req[q].phase # "free" => req[q].job \in Jobs
  BY RequestType DEF TypeOK, RequestTables
<1>c. req[q].phase # "free" => Cleared(req[q].job)
  BY DEF Parentage, RequestsCleared
<1>f. \A a : \A s \in Requests : [req EXCEPT ![q] = a][s] = IF s = q THEN a ELSE req[s]
  BY DEF TypeOK, RequestTables
<1>s. \A s \in Requests : SameRequest(req[s], req[s])
  BY DEF SameRequest
<1>k. Worker(q) => runner' = runner /\ queue' = queue
  BY DEF Worker, ReachServer, StartJob, RejectJob, BeginPerform, FinishJob,
       NothingToDoLost, RetryJob, IgnoredRetry, FailJob, BeginEnqueue,
       EnqueueDependents, EnqueueFails, channel
<1>1. CASE ReachServer(q) \/ NothingToDoLost(q) \/ BeginPerform(q)
  <2>1. PICK a : /\ req' = [req EXCEPT ![q] = a] /\ a.phase # "enqueueing"
                 /\ a.job = req[q].job
    <3> DEFINE a == [req[q] EXCEPT !.phase = "accepted"]
               b == [req[q] EXCEPT !.phase = "performing", !.stale = FALSE]
    <3>1. /\ a.phase # "enqueueing" /\ a.job = req[q].job
          /\ b.phase # "enqueueing" /\ b.job = req[q].job
      BY <1>t DEF RequestRecord
    <3>2. req' = [req EXCEPT ![q] = a] \/ req' = [req EXCEPT ![q] = b]
      BY <1>1 DEF ReachServer, NothingToDoLost, BeginPerform
    <3> HIDE DEF a, b
    <3> QED BY <3>1, <3>2
  <2>2. req[q].phase # "free" /\ row' = row /\ finished' = finished /\ tx' = tx
    BY <1>1 DEF ReachServer, NothingToDoLost, BeginPerform, table
  <2>3. \A s \in Requests :
            \/ SameRequest(req'[s], req[s])
            \/ /\ req'[s].phase # "free" => Cleared(req'[s].job)
               /\ req'[s].phase = "enqueueing" => \A c \in req'[s].woken : Cleared(c)
    BY <1>c, <1>f, <1>s, <2>1, <2>2
  <2> QED BY <1>k, <2>2, <2>3, NoWriteClears
<1>2. CASE RejectJob(q) \/ EnqueueFails(q)
  <2>1. /\ req' = [req EXCEPT ![q] = FreeReq] /\ row' = row /\ finished' = finished
        /\ tx' = tx
    BY <1>2 DEF RejectJob, EnqueueFails, table
  <2>2. \A s \in Requests :
            \/ SameRequest(req'[s], req[s])
            \/ /\ req'[s].phase # "free" => Cleared(req'[s].job)
               /\ req'[s].phase = "enqueueing" => \A c \in req'[s].woken : Cleared(c)
    BY <1>f, <1>s, <2>1, FreeRecord
  <2> QED BY <1>k, <2>1, <2>2, NoWriteClears
<1>3. CASE BeginEnqueue(q)
  <2> DEFINE woken == Woken(req[q].job, CurrentStates)
             a == [req[q] EXCEPT !.phase = "enqueueing", !.stale = FALSE, !.woken = woken]
  <2>1. /\ req' = [req EXCEPT ![q] = a] /\ row' = row /\ finished' = finished
        /\ tx' = tx /\ req[q].phase # "free"
    BY <1>3 DEF BeginEnqueue, table
  <2>2. a.job = req[q].job /\ a.woken = woken
    BY <1>t DEF RequestRecord
  <2>3. \A c \in woken : Cleared(c)
    BY WokenAreCleared DEF Parentage
  <2> HIDE DEF woken, a
  <2>4. \A s \in Requests :
            \/ SameRequest(req'[s], req[s])
            \/ /\ req'[s].phase # "free" => Cleared(req'[s].job)
               /\ req'[s].phase = "enqueueing" => \A c \in req'[s].woken : Cleared(c)
    BY <1>c, <1>f, <1>s, <2>1, <2>2, <2>3
  <2> QED BY <1>k, <2>1, <2>4, NoWriteClears
<1>4. CASE StartJob(q)
  <2> DEFINE j == req[q].job
             a == [req[q] EXCEPT !.phase = "started", !.ready = ParentsDone(j),
                                 !.retry = row[j].retry]
  <2>1. j \in Jobs /\ req[q].phase # "free" /\ Cleared(j)
    BY <1>4, <1>t, <1>c DEF StartJob
  <2>2. Commit(SetState(j, "started"), {j}, [req EXCEPT ![q] = a], tx)
    BY <1>4 DEF StartJob
  <2>3. ParentsDone(j) \in BOOLEAN /\ row[j].retry \in Nat
    BY <2>1, RowType DEF ParentsDone, AllDone
  <2>4. a \in RequestRecord /\ a.phase = "started" /\ a.job = j
    BY <1>t, <2>3 DEF RequestRecord, Phases
  <2>5. /\ SetState(j, "started") \in Tables
        /\ \A i \in Jobs \ {j} : SetState(j, "started")[i] = row[i]
        /\ SetState(j, "started")[j].state = "started"
    BY <2>1, RowType, StateNames, WrittenRow DEF SetState, TypeOK, Tables
  <2>6. j # NoJob /\ "started" \in States \ {"deleted"}
    BY <2>1 DEF States
  <2> HIDE DEF a, j
  <2> QED BY <1>k, <2>1, <2>2, <2>4, <2>5, <2>6, OneRowClears
<1>5. CASE FinishJob(q)
  <2> DEFINE a == [req[q] EXCEPT !.phase = "finished"]
             j == req[q].job
  <2>1. j \in Jobs /\ req[q].phase # "free" /\ Cleared(j)
    BY <1>5, <1>t, <1>c DEF FinishJob
  <2>2. Commit(Store(q, "done"), {j}, [req EXCEPT ![q] = a], tx)
    BY <1>5 DEF FinishJob
  <2>3. a \in RequestRecord /\ a.phase = "finished" /\ a.job = j
    BY <1>t DEF RequestRecord, Phases
  <2>4. /\ Store(q, "done") \in Tables
        /\ \A i \in Jobs \ {j} : Store(q, "done")[i] = row[i]
        /\ Store(q, "done")[j].state = "done"
    BY <2>1, StoreType, StateNames, WrittenRow DEF Store, TypeOK, Tables
  <2>5. j # NoJob /\ "done" \in States \ {"deleted"}
    BY <2>1 DEF States
  <2> HIDE DEF a, j
  <2> QED BY <1>k, <2>1, <2>2, <2>3, <2>4, <2>5, OneRowClears
<1>6. CASE RetryJob(q) \/ FailJob(q)
  <2> DEFINE j == req[q].job
  <2>1. j \in Jobs /\ req[q].phase # "free" /\ Cleared(j)
    BY <1>6, <1>t, <1>c DEF RetryJob, FailJob
  <2>2. PICK s \in States \ {"deleted"} :
           Commit(Store(q, s), {j}, [req EXCEPT ![q] = FreeReq], tx)
    BY <1>6 DEF RetryJob, FailJob, PendingOrWait, States
  <2>3. /\ Store(q, s) \in Tables
        /\ \A i \in Jobs \ {j} : Store(q, s)[i] = row[i]
        /\ Store(q, s)[j].state = s
    BY <2>1, StoreType, WrittenRow DEF Store, TypeOK, Tables
  <2> DEFINE r == Store(q, s)
  <2>4. /\ r \in Tables /\ r[j].state = s /\ Commit(r, {j}, [req EXCEPT ![q] = FreeReq], tx)
        /\ \A i \in Jobs \ {j} : r[i] = row[i]
    BY <2>2, <2>3
  <2>5. /\ {j} \in SUBSET {j} /\ s \in Ready => Cleared(j)
        /\ \A i \in {j} : r[i].state = s
    BY <2>1, <2>4
  <2>6. /\ FreeReq \in RequestRecord /\ FreeReq.job = NoJob /\ FreeReq.phase = "free"
    BY FreeRecord DEF FreeReq
  <2> HIDE DEF j, r
  <2> QED BY <1>k, <2>1, <2>2, <2>4, <2>5, <2>6, OneRowClears
<1>7. CASE IgnoredRetry(q)
  <2> DEFINE j == req[q].job
             s == PendingOrWait(req[q].ready)
             r == [row EXCEPT ![j] = [state |-> s, retry |-> req[q].retry]]
  <2>1. j \in Jobs /\ req[q].phase # "free" /\ Cleared(j)
    BY <1>7, <1>t, <1>c DEF IgnoredRetry
  <2>2. Commit(r, {j}, [req EXCEPT ![q] = FreeReq], tx)
    BY <1>7 DEF IgnoredRetry
  <2>3. s \in States \ {"deleted"}
    BY DEF PendingOrWait, States
  <2>4. /\ r \in Tables /\ r[j].state = s
        /\ \A i \in Jobs \ {j} : r[i] = row[i]
    BY <2>1, <2>3, StoreType, WrittenRow DEF TypeOK, Tables
  <2> HIDE DEF j, s, r
  <2> QED BY <1>k, <2>1, <2>2, <2>3, <2>4, FreeRecord, OneRowClears
<1>8. CASE EnqueueDependents(q)
  <2> DEFINE W == req[q].woken
             R == [req EXCEPT ![q] = FreeReq]
             r == WithPending(W, row)
  <2>1. req[q].phase = "enqueueing" /\ Commit(r, W, R, tx)
    BY <1>8 DEF EnqueueDependents
  <2>2. /\ r \in Tables /\ W \in SUBSET Jobs
        /\ R \in RequestTables /\ tx \in TxTables
    BY WithPendingType, RequestType DEF TypeOK
  <2>3. \A c \in W : Cleared(c)
    BY <2>1 DEF Parentage, RequestsCleared
  <2>4. \A i \in Jobs \ W : r[i] = row[i]
    BY DEF WithPending
  <2>5. \A c \in W : r[c].state = "pending"
    BY <2>2 DEF WithPending, TypeOK, Tables
  <2>6. \A s \in Requests :
           \/ R[s].phase = req[s].phase /\ R[s].job = req[s].job /\ R[s].woken = req[s].woken
           \/ /\ R[s].phase # "free" => Cleared(R[s].job)
              /\ R[s].phase # "enqueueing"
    BY FreeRecord, OneRequest
  <2>7. \A u \in Users : tx[u] = tx[u] \/ tx[u].op = "none"
    OBVIOUS
  <2>8. \A c \in W : /\ r[c].state # "deleted"
                     /\ r[c].state \in Ready =>
                           Parents[c] \subseteq finished \cup {i \in W : r[i].state = "done"}
    BY <2>3, <2>5 DEF Cleared
  <2>9. runner' = runner /\ queue' \subseteq queue
    BY <1>k
  <2> HIDE DEF W, R, r
  <2> QED BY <2>1, <2>2, <2>4, <2>6, <2>7, <2>8, <2>9, CommitClears
<1> QED BY <1>1, <1>2, <1>3, <1>4, <1>5, <1>6, <1>7, <1>8 DEF Worker

LEMMA ParentageRunner ==
  ASSUME TypeOK, Parentage, Runner
  PROVE  Parentage'
<1>s. \A s \in Requests : SameRequest(req[s], req[s])
  BY DEF SameRequest
<1>1. ASSUME row' = row, finished' = finished, req' = req, tx' = tx,
             runner' \in {"loading", "up"} =>
                \A j \in queue' : (j \in queue /\ runner \in {"loading", "up"}) \/ Cleared(j)
      PROVE  Parentage'
  <2>1. \A j \in Jobs : Justified(j)
    BY <1>1 DEF Justified, State
  <2> QED BY <1>1, <1>s, <2>1, Clears
<1>2. CASE Listen \/ Loaded
  <2>1. \A j \in queue' : runner' \in {"loading", "up"} =>
                             j \in queue /\ runner \in {"loading", "up"}
    BY <1>2 DEF Listen, Loaded, channel
  <2> QED BY <1>1, <1>2, <2>1 DEF Listen, Loaded, table
<1>3. CASE Load
  <2>1. \A j \in queue' : Cleared(j)
    BY <1>3 DEF Load, Parentage, RowsCleared, Ready
  <2> QED BY <1>1, <1>3, <2>1 DEF Load, table
<1>4. ASSUME NEW j \in Jobs, ProcessNotification(j)
      PROVE  Parentage'
  <2>1. State(j) \in States /\ runner = "up" /\ runner' = runner /\ Notify(j)
    BY <1>4, RowType DEF ProcessNotification
  <2>2. \A i \in queue' : i \in queue \/ (i = j /\ State(j) = "pending")
    BY <2>1 DEF Notify, States, channel
  <2>3. State(j) = "pending" => Cleared(j)
    BY DEF Parentage, RowsCleared, Ready
  <2> QED BY <1>1, <1>4, <2>1, <2>2, <2>3 DEF ProcessNotification, table
<1>5. ASSUME NEW j \in Jobs, NEW q \in Requests, RunJob(j, q)
      PROVE  Parentage'
  <2> DEFINE a == [FreeReq EXCEPT !.phase = "sending", !.job = j, !.client = TRUE]
             r == IF Exists(j) THEN SetState(j, "enqueued") ELSE row
             D == IF Exists(j) THEN {j} ELSE {}
  <2>1. /\ runner = "up" /\ runner' = runner /\ j \in queue /\ queue' \subseteq queue
        /\ Commit(r, D, [req EXCEPT ![q] = a], tx)
    BY <1>5 DEF RunJob
  <2>2. Cleared(j)
    BY <2>1 DEF Parentage, QueueCleared
  <2>3. a \in RequestRecord /\ a.phase = "sending" /\ a.job = j /\ j # NoJob
    BY DEF FreeReq, RequestRecord, Phases
  <2>4. /\ r \in Tables /\ D \in SUBSET {j}
        /\ \A i \in Jobs \ D : r[i] = row[i]
        /\ \A i \in D : r[i].state = "enqueued"
    BY RowType, StateNames, WrittenRow DEF SetState, TypeOK, Tables
  <2>5. "enqueued" \in States \ {"deleted"}
    BY DEF States
  <2> HIDE DEF a, r, D
  <2> QED BY <2>1, <2>2, <2>3, <2>4, <2>5, OneRowClears
<1> QED BY <1>2, <1>3, <1>4, <1>5 DEF Runner

LEMMA ParentageTrouble ==
  ASSUME TypeOK, Parentage, Trouble
  PROVE  Parentage'
<1>1. CASE RunnerError \/ RunnerCrash
  <2>1. /\ row' = row /\ finished' = finished /\ tx' = tx
        /\ runner' \notin {"loading", "up"}
    BY <1>1 DEF RunnerError, RunnerCrash, table
  <2>2. \A j \in Jobs : Justified(j)
    BY <2>1 DEF Justified, State
  <2>3. ASSUME NEW s \in Requests
        PROVE  \/ SameRequest(req'[s], req[s])
               \/ req'[s].phase = "free"
    <3> DEFINE b == [req[s] EXCEPT !.client = FALSE]
    <3>1. \/ req'[s] = req[s] \/ req'[s] = FreeReq \/ req'[s] = b
      BY <1>1 DEF RunnerError, RunnerCrash
    <3>2. req[s] \in RequestRecord
      BY DEF TypeOK, RequestTables
    <3>3. SameRequest(b, req[s]) /\ SameRequest(req[s], req[s])
      BY <3>2 DEF RequestRecord, SameRequest
    <3> HIDE DEF b
    <3> QED BY <3>1, <3>3, FreeRecord
  <2> QED BY <2>1, <2>2, <2>3, Clears
<1>2. ASSUME NEW q \in Requests, NEW j \in Jobs, NEW r \in Tables, NEW D \in SUBSET {j},
             Commit(r, D, [req EXCEPT ![q] = FreeReq], tx),
             \A i \in Jobs \ D : r[i] = row[i],
             \A i \in D : r[i].state = "pending" /\ State(j) = "enqueued",
             runner' = runner, queue' = queue
      PROVE  Parentage'
  <2>1. CASE D = {}
    <3>1. /\ "done" \in States \ {"deleted"} /\ ("done" \in Ready => Cleared(j))
          /\ \A i \in D : r[i].state = "done"
      BY <2>1 DEF States, Ready
    <3> QED BY <1>2, <3>1, FreeRecord, OneRowClears
  <2>2. CASE D # {}
    <3>1. State(j) = "enqueued"
      BY <1>2, <2>2
    <3>2. Cleared(j)
      BY <3>1 DEF Parentage, RowsCleared, Ready
    <3>3. "pending" \in States \ {"deleted"}
      BY DEF States
    <3> QED BY <1>2, <3>2, <3>3, FreeRecord, OneRowClears
  <2> QED BY <2>1, <2>2
<1>3. ASSUME NEW q \in Requests, ClientTimeout(q)
      PROVE  Parentage'
  <2> DEFINE b == [req[q] EXCEPT !.client = FALSE]
             j == req[q].job
  <2>1. /\ j \in Jobs /\ runner' = runner /\ queue' = queue
        /\ Commit(ResetIfEnqueued(j), ResetRows(j), [req EXCEPT ![q] = b], tx)
    BY <1>3, RequestType DEF ClientTimeout, channel
  <2>2. /\ req[q] \in RequestRecord /\ (req[q].job = NoJob <=> req[q].phase = "free")
        /\ req \in RequestTables /\ tx \in TxTables
    BY DEF TypeOK, RequestTables
  <2>3. b \in RequestRecord /\ SameRequest(b, req[q])
    BY <2>2 DEF RequestRecord, SameRequest
  <2> HIDE DEF b
  <2>4. [req EXCEPT ![q] = b] \in RequestTables
    BY <2>2, <2>3, RequestUpdate DEF SameRequest
  <2> DEFINE R == [req EXCEPT ![q] = b]
             r == ResetIfEnqueued(j)
             D == ResetRows(j)
  <2>5. \A s \in Requests :
           \/ R[s].phase = req[s].phase /\ R[s].job = req[s].job /\ R[s].woken = req[s].woken
           \/ /\ R[s].phase # "free" => Cleared(R[s].job)
              /\ R[s].phase # "enqueueing"
    BY <2>2, <2>3 DEF SameRequest, RequestTables
  <2>6. /\ r \in Tables /\ D \in SUBSET Jobs
        /\ \A i \in Jobs \ D : r[i] = row[i]
        /\ \A i \in D : State(i) = "enqueued"
    BY <2>1, ResetType, ResetKeeps
  <2>7. \A i \in D : r[i].state = "pending"
    BY <2>1 DEF ResetRows, ResetIfEnqueued, SetState, TypeOK, Tables
  <2>8. \A i \in D : Cleared(i)
    BY <2>6 DEF Parentage, RowsCleared, Ready
  <2>9. \A i \in D : /\ r[i].state # "deleted"
                     /\ r[i].state \in Ready =>
                           Parents[i] \subseteq finished \cup {x \in D : r[x].state = "done"}
    BY <2>7, <2>8 DEF Cleared
  <2>10. /\ Commit(r, D, R, tx) /\ R \in RequestTables
         /\ \A u \in Users : tx[u] = tx[u] \/ tx[u].op = "none"
    BY <2>1, <2>4
  <2> HIDE DEF R, r, D
  <2> QED BY <2>1, <2>2, <2>5, <2>6, <2>9, <2>10, CommitClears
<1>4. ASSUME NEW q \in Requests, ConnectionRefused(q)
      PROVE  Parentage'
  <2> DEFINE j == req[q].job
             r == ResetIfEnqueued(j)
             D == ResetRows(j)
  <2>1. /\ j \in Jobs /\ runner' = runner /\ queue' = queue
        /\ Commit(r, D, [req EXCEPT ![q] = FreeReq], tx)
    BY <1>4, RequestType DEF ConnectionRefused, channel
  <2>2. /\ r \in Tables /\ D \in SUBSET {j}
        /\ \A i \in Jobs \ D : r[i] = row[i]
        /\ \A i \in D : r[i].state = "pending" /\ State(j) = "enqueued"
    BY <2>1, ResetType, ResetKeeps DEF ResetRows, ResetIfEnqueued, SetState, TypeOK, Tables
  <2> HIDE DEF j, r, D
  <2> QED BY <1>2, <2>1, <2>2
<1>5. ASSUME NEW q \in Requests, WorkerCrash(q)
      PROVE  Parentage'
  <2> DEFINE j == req[q].job
             reset == req[q].client /\ State(j) = "enqueued"
             r == IF reset THEN SetState(j, "pending") ELSE row
             D == IF reset THEN {j} ELSE {}
  <2>1. /\ j \in Jobs /\ runner' = runner /\ queue' = queue
        /\ Commit(r, D, [req EXCEPT ![q] = FreeReq], tx)
    BY <1>5, RequestType DEF WorkerCrash, channel
  <2>2. /\ r \in Tables /\ D \in SUBSET {j}
        /\ \A i \in Jobs \ D : r[i] = row[i]
        /\ \A i \in D : r[i].state = "pending" /\ State(j) = "enqueued"
    <3>1. CASE ~reset
      BY <2>1, <3>1 DEF TypeOK
    <3>2. CASE reset
      <4>1. r = SetState(j, "pending") /\ D = {j} /\ State(j) = "enqueued"
        BY <3>2
      <4>2. SetState(j, "pending") \in Tables
        BY <2>1, RowType, StateNames, WrittenRow DEF SetState, TypeOK
      <4>3. /\ \A i \in Jobs \ {j} : SetState(j, "pending")[i] = row[i]
            /\ SetState(j, "pending")[j].state = "pending"
        BY <2>1 DEF SetState, TypeOK, Tables
      <4> QED BY <4>1, <4>2, <4>3
    <3> QED BY <3>1, <3>2
  <2> HIDE DEF j, r, D
  <2> QED BY <1>2, <2>1, <2>2
<1> QED BY <1>1, <1>3, <1>4, <1>5 DEF Trouble

LEMMA ParentageCron ==
  ASSUME OnlyDoneVacuumed, TypeOK, Parentage, Cron
  PROVE  Parentage'
<1>s. \A s \in Requests : /\ SameRequest(req[s], req[s])
                          /\ req[s].phase = req[s].phase /\ req[s].job = req[s].job
                          /\ req[s].woken = req[s].woken
  BY DEF SameRequest
<1>1. ASSUME NEW j \in Jobs, RequeueStuck(j)
      PROVE  Parentage'
  <2> DEFINE s == PendingOrWait(ParentsDone(j))
             r == [row EXCEPT ![j] = [state |-> s, retry |-> 0]]
             D == {j}
  <2>1. /\ Commit(r, D, req, tx) /\ runner' = runner /\ queue' \subseteq queue
        /\ State(j) = "enqueued"
    BY <1>1 DEF RequeueStuck, channel
  <2>2. Cleared(j)
    BY <2>1 DEF Parentage, RowsCleared, Ready
  <2>3. s \in States \ {"deleted"}
    BY DEF PendingOrWait, States
  <2>4. /\ r \in Tables /\ r[j].state = s
        /\ \A i \in Jobs \ D : r[i] = row[i]
    BY <2>3, RowType, WrittenRow DEF TypeOK, Tables
  <2>5. /\ req \in RequestTables /\ tx \in TxTables /\ D \in SUBSET Jobs
        /\ \A u \in Users : tx[u] = tx[u] \/ tx[u].op = "none"
    BY DEF TypeOK
  <2>6. \A i \in D : /\ r[i].state # "deleted"
                     /\ r[i].state \in Ready =>
                           Parents[i] \subseteq finished \cup {x \in D : r[x].state = "done"}
    BY <2>2, <2>3, <2>4 DEF Cleared
  <2> HIDE DEF s, r, D
  <2> QED BY <1>s, <2>1, <2>4, <2>5, <2>6, CommitClears
<1>2. ASSUME NEW j \in Jobs, Vacuum(j)
      PROVE  Parentage'
  <2>1. /\ State(j) = "done" /\ row' = SetState(j, "deleted") /\ finished' = finished
        /\ runner' = runner /\ queue' = queue /\ req' = req /\ tx' = tx
    BY <1>2 DEF Vacuum, OnlyDoneVacuumed, channel
  <2>2. State(j)' = "deleted" /\ \A i \in Jobs \ {j} : State(i)' = State(i)
    BY <2>1, WriteRow, StateNames
  <2>3. \A i \in Jobs : Justified(i)
    BY <2>1, <2>2 DEF Parentage, RowsCleared, Justified, Ready
  <2>4. \A i \in queue' : i \in queue
    BY <2>1
  <2> QED BY <1>s, <2>1, <2>3, <2>4, Clears
<1> QED BY <1>1, <1>2 DEF Cron

LEMMA ParentageUser ==
  ASSUME TypeOK, Parentage, NEW u \in Users,
         User(u) \/ \E op \in Operations, j \in Jobs : UserBegin(u, op, j)
  PROVE  Parentage'
<1>s. \A s \in Requests : /\ SameRequest(req[s], req[s])
                          /\ req[s].phase = req[s].phase /\ req[s].job = req[s].job
                          /\ req[s].woken = req[s].woken
  BY DEF SameRequest
<1>t. /\ tx[u] \in TxRecord
      /\ \A a : \A v \in Users : [tx EXCEPT ![u] = a][v] = IF v = u THEN a ELSE tx[v]
  BY DEF TypeOK, TxTables
<1>1. CASE UserRetry(u) \/ \E op \in Operations, j \in Jobs : UserBegin(u, op, j)
  <2>1. /\ row' = row /\ finished' = finished /\ runner' = runner /\ queue' = queue
        /\ req' = req
    BY <1>1 DEF UserRetry, UserBegin, table, channel
  <2>2. PICK a : /\ tx' = [tx EXCEPT ![u] = a]
                 /\ a.op = "none" \/ a.seen = CurrentStates
    <3>1. CASE UserRetry(u)
      <4> DEFINE b == [tx[u] EXCEPT !.seen = CurrentStates, !.changed = {}]
      <4>1. tx' = [tx EXCEPT ![u] = b] \/ tx' = [tx EXCEPT ![u] = NoTx]
        BY <3>1 DEF UserRetry
      <4>2. b.seen = CurrentStates /\ NoTx.op = "none"
        BY <1>t DEF TxRecord, NoTx
      <4> HIDE DEF b
      <4> QED BY <4>1, <4>2
    <3>2. ASSUME NEW op \in Operations, NEW j \in Jobs, UserBegin(u, op, j)
          PROVE  \E a : /\ tx' = [tx EXCEPT ![u] = a]
                        /\ a.op = "none" \/ a.seen = CurrentStates
      <4> DEFINE b == [op |-> op, job |-> j, seen |-> CurrentStates, changed |-> {}]
      <4>1. tx' = [tx EXCEPT ![u] = b] /\ b.seen = CurrentStates
        BY <3>2 DEF UserBegin
      <4> HIDE DEF b
      <4> QED BY <4>1
    <3> QED BY <1>1, <3>1, <3>2
  <2>3. \A j \in Jobs : Justified(j)
    BY <2>1 DEF Justified, State
  <2>4. \A v \in Users : \/ tx'[v].op = "none"
                         \/ tx'[v].op = tx[v].op /\ tx'[v].seen = tx[v].seen
                         \/ tx'[v].seen = CurrentStates
    BY <1>t, <2>2
  <2>5. \A i \in queue' : i \in queue
    BY <2>1
  <2> QED BY <1>s, <2>1, <2>3, <2>4, <2>5, Clears
<1>2. CASE UserCommit(u)
  <2> DEFINE j == tx[u].job
             r == UserRows(u)
             D == UserWrites(u)
             T == [tx EXCEPT ![u] = NoTx]
  <2>1. /\ tx[u].op # "none" /\ Commit(r, D, req, T)
        /\ runner' = runner /\ queue' \subseteq queue
    BY <1>2 DEF UserCommit, channel
  <2>2. j \in Jobs /\ tx[u].op \in Operations /\ tx[u].seen \in [Jobs -> States]
    BY <2>1 DEF TypeOK, TxTables, TxRecord
  <2>3. NoTx \in TxRecord /\ NoTx.job = NoJob /\ NoTx.op = "none"
    BY DEF NoTx, TxRecord, States
  <2>4. /\ T \in TxTables /\ req \in RequestTables
        /\ \A v \in Users : T[v] = tx[v] \/ T[v].op = "none"
    BY <1>t, <2>3 DEF TypeOK, TxTables
  <2>5. \A i \in Jobs \ D : r[i] = row[i]
    BY <2>1, UserRowsElsewhere
  <2>6. \A p \in Jobs : tx[u].seen[p] \in {"done", "deleted"} => p \in finished
    BY <2>1 DEF Parentage, SnapshotsTrue
  <2>7. /\ r \in Tables /\ D \in SUBSET Jobs
        /\ \A i \in D : /\ r[i].state # "deleted"
                        /\ r[i].state \in Ready =>
                              Parents[i] \subseteq finished \cup {x \in D : r[x].state = "done"}
    <3>1. CASE tx[u].op = "done"
      <4> DEFINE W == Woken(j, SeenDone(u))
      <4>1. r = WithPending(W, SetState(j, "done")) /\ D = {j} \cup W
        BY <3>1 DEF UserRows, UserWrites
      <4>2. W \in SUBSET Jobs /\ SetState(j, "done") \in Tables
        BY <2>2, WokenType, RowType, StateNames
      <4>3. j \notin W
        BY <2>2 DEF Woken, Children
      <4>4. \A c \in W : r[c].state = "pending"
        BY <4>1, <4>2 DEF WithPending, Tables
      <4>5. r[j].state = "done"
        BY <2>2, <4>1, <4>3 DEF WithPending, SetState, TypeOK, Tables
      <4>6. ASSUME NEW c \in W
            PROVE  Parents[c] \subseteq finished \cup {j}
        <5>1. \A p \in Parents[c] : SeenDone(u)[p] \in {"done", "deleted"}
          BY DEF Woken, AllDone
        <5>2. Parents[c] \subseteq Jobs
          BY <4>2
        <5>3. \A p \in Jobs \ {j} : SeenDone(u)[p] = tx[u].seen[p]
          BY <2>2 DEF SeenDone
        <5> QED BY <2>6, <5>1, <5>2, <5>3
      <4>7. r \in Tables
        BY <4>1, <4>2, WithPendingType
      <4>8. j \in {x \in D : r[x].state = "done"}
        BY <4>1, <4>5
      <4>9. ASSUME NEW i \in D
            PROVE  /\ r[i].state # "deleted"
                   /\ r[i].state \in Ready =>
                         Parents[i] \subseteq finished \cup {x \in D : r[x].state = "done"}
        <5>1. i = j \/ i \in W
          BY <4>1
        <5>2. CASE i = j
          BY <4>5, <5>2 DEF Ready
        <5>3. CASE i \in W
          BY <4>4, <4>6, <4>8, <5>3
        <5> QED BY <5>1, <5>2, <5>3
      <4>10. D \in SUBSET Jobs
        BY <2>2, <4>1, <4>2
      <4> QED BY <4>7, <4>9, <4>10
    <3>2. CASE tx[u].op = "cancel"
      <4>1. r = SetState(j, "cancelled") /\ D = {j}
        BY <3>2 DEF UserRows, UserWrites
      <4>2. r \in Tables /\ r[j].state = "cancelled"
        BY <2>2, <4>1, RowType, StateNames DEF SetState, TypeOK, Tables
      <4> QED BY <2>2, <4>1, <4>2 DEF Ready
    <3>3. CASE tx[u].op = "requeue"
      <4> DEFINE s == PendingOrWait(AllDone(Parents[j], tx[u].seen))
      <4>1. r = [row EXCEPT ![j] = [state |-> s, retry |-> 0]] /\ D = {j}
        BY <3>3 DEF UserRows, UserWrites
      <4>2. s \in States \ {"deleted"}
        BY DEF PendingOrWait, States
      <4>3. r \in Tables /\ r[j].state = s
        BY <2>2, <4>1, <4>2, RowType DEF TypeOK, Tables
      <4>4. s \in Ready => Cleared(j)
        <5>1. s \in Ready => AllDone(Parents[j], tx[u].seen)
          BY DEF PendingOrWait, Ready
        <5>2. Parents[j] \subseteq Jobs
          BY <2>2
        <5> QED BY <2>6, <5>1, <5>2 DEF AllDone, Cleared
      <4> QED BY <2>2, <4>1, <4>2, <4>3, <4>4 DEF Cleared
    <3> QED BY <2>2, <3>1, <3>2, <3>3 DEF Operations
  <2> HIDE DEF j, r, D, T
  <2> QED BY <1>s, <2>1, <2>4, <2>5, <2>7, CommitClears
<1> QED BY <1>1, <1>2 DEF User

LEMMA ParentageStep ==
  ASSUME OnlyDoneVacuumed
  PROVE  TypeOK /\ Parentage /\ [Next]_vars => Parentage'
<1> SUFFICES ASSUME TypeOK, Parentage, [Next]_vars PROVE Parentage'
  OBVIOUS
<1>1. CASE Next
  BY <1>1, ParentageRunner, ParentageTrouble, ParentageCron, ParentageWorker,
     ParentageUser DEF Next
<1>2. CASE UNCHANGED vars
  <2>1. /\ row' = row /\ finished' = finished /\ req' = req /\ tx' = tx
        /\ runner' = runner /\ queue' = queue
    BY <1>2 DEF vars, table, channel
  <2>2. \A q \in Requests : SameRequest(req'[q], req[q])
    BY <2>1 DEF SameRequest
  <2> QED BY <2>1, <2>2, NoWriteClears
<1> QED BY <1>1, <1>2

\* No job is ever executed before each of its parents has been done, whatever
\* is lost, killed, requeued, cancelled or set to done, as long as the
\* autovacuum deletes no job but those that are done.
THEOREM ParentsComeFirst ==
  ASSUME OnlyDoneVacuumed
  PROVE  Spec => []ParentsFirst
<1>1. Init => Parentage
  <2> SUFFICES ASSUME Init PROVE Parentage
    OBVIOUS
  <2>1. \A j \in Jobs : State(j) = PendingOrWait(Parents[j] = {})
    BY DEF Init, State
  <2>2. RowsCleared
    BY <2>1 DEF RowsCleared, PendingOrWait, Ready, Cleared
  <2>3. \A q \in Requests : req[q].phase = "free"
    BY FreeRecord DEF Init
  <2>4. \A u \in Users : tx[u].op = "none"
    BY DEF Init, NoTx
  <2> QED BY <2>2, <2>3, <2>4 DEF Init, Parentage, QueueCleared, RequestsCleared,
             SnapshotsTrue
<1>2. Parentage => ParentsFirst
  BY DEF Parentage, RequestsCleared, ParentsFirst, Executing, Cleared
<1>3. TypeOK /\ Parentage /\ [Next]_vars => Parentage'
  BY ParentageStep
<1> QED BY <1>1, <1>2, <1>3, Types, PTL DEF Spec
-----------------------------------------------------------------------------
(***************************************************************************)
(* No child is forgotten.  A job waits from its creation until a request   *)
(* that has finished one of its parents wakes it, and never waits again:   *)
(* so that once its parents are done the request that finished the last of *)
(* them has yet to look for it, or has seen it.  What can go wrong is that *)
(* this request dies, that a parent is done without a request, or done no  *)
(* more, or that another transaction writes one of the children before it: *)
(* hence the assumptions, the last of which says that the requests that    *)
(* may write a common child want to write the same children.               *)
(***************************************************************************)

NoWorkerKilled == MaxWorkerStops = 0

\* The jobs that share a parent share all of them, as those of the groups that
\* are chained by on_done.
Layered == \A c, d \in Jobs : Parents[c] \cap Parents[d] # {} => Parents[c] = Parents[d]

Waits(j) == State(j) = "wait_dependencies"
Ended(j) == State(j) \in {"done", "deleted"}

\* A job that waits no more need not, and neither does one about to be woken.
RowsReady == \A j \in Jobs : ~Waits(j) => ParentsDone(j)
WokenReady == \A q \in Requests : req[q].phase = "enqueueing" =>
                  \A c \in req[q].woken : ParentsDone(c) /\ req[q].job \in Parents[c]

\* A job that is executed is put back in the queue when it is retried.
TriesReady == \A q \in Executing : req[q].ready

\* The jobs that the runner may enqueue neither wait nor are done.
QueueHopes == runner \in {"loading", "up"} =>
                  \A j \in queue : ~Waits(j) /\ State(j) # "done"

\* A request about to wake a job has seen the jobs with the same parents.
Abreast == \A q \in Requests : req[q].phase = "enqueueing" =>
               \A d \in req[q].woken, c \in Jobs :
                   Parents[c] = Parents[d] /\ Waits(c) => c \in req[q].woken

OrphanInv == RowsReady /\ WokenReady /\ TriesReady /\ QueueHopes /\ Abreast /\ NoOrphan

\* What a step may make of a request.
SameRest(a, b) == /\ a.phase = b.phase /\ a.job = b.job
                  /\ a.woken = b.woken /\ a.ready = b.ready
Idle(a) == a.phase \notin {"started", "performing", "enqueueing"}
Tries(a) == a.phase \in {"started", "performing"} /\ a.ready
Looks(a) == a.phase = "enqueueing" /\ a.woken = Woken(a.job, CurrentStates)

LEMMA EndedParents ==
  ASSUME NEW c \in Jobs
  PROVE  ParentsDone(c) <=> \A p \in Parents[c] : p \in Jobs /\ Ended(p)
<1>1. Parents[c] \subseteq Jobs
  OBVIOUS
<1> QED BY <1>1 DEF ParentsDone, AllDone, CurrentStates, Ended

LEMMA OrphanKeeps ==
  ASSUME TypeOK, OrphanInv,
         \A p \in Jobs : Ended(p) => Ended(p)',
         \A c \in Jobs : Waits(c)' => Waits(c),
         \A c \in Jobs : Waits(c) /\ ~Waits(c)' => ParentsDone(c),
         runner' \in {"loading", "up"} =>
            \A j \in queue' : ~Waits(j)' /\ State(j)' # "done",
         \A q \in Requests : \/ SameRest(req'[q], req[q]) \/ Idle(req'[q])
                             \/ Tries(req'[q]) \/ Looks(req'[q]),
         \A c \in Jobs : Waits(c)' /\ ParentsDone(c)' /\ ~ParentsDone(c) =>
                            \E s \in Requests : WillWake(s, c)',
         \A c \in Jobs, q \in Requests : Waits(c)' /\ ParentsDone(c) /\ WillWake(q, c) =>
                                            \E s \in Requests : WillWake(s, c)'
  PROVE  OrphanInv'
<1>1. \A c \in Jobs : ParentsDone(c) => ParentsDone(c)'
  <2> SUFFICES ASSUME NEW c \in Jobs, ParentsDone(c) PROVE ParentsDone(c)'
    OBVIOUS
  <2>1. \A p \in Parents[c] : p \in Jobs /\ Ended(p)
    BY EndedParents
  <2>2. \A p \in Parents[c] : p \in Jobs /\ Ended(p)'
    BY <2>1
  <2>3. ParentsDone(c)' <=> \A p \in Parents[c] : p \in Jobs /\ Ended(p)'
    <3>1. Parents[c] \subseteq Jobs
      OBVIOUS
    <3> QED BY <3>1 DEF ParentsDone, AllDone, CurrentStates, Ended
  <2> QED BY <2>2, <2>3
<1>2. RowsReady'
  BY <1>1 DEF OrphanInv, RowsReady
<1>3. ASSUME NEW q \in Requests, req'[q].phase = "enqueueing"
      PROVE  /\ \A c \in req'[q].woken : /\ c \in Jobs /\ ParentsDone(c)
                                         /\ req'[q].job \in Parents[c]
             /\ \A d \in req'[q].woken, c \in Jobs :
                   Parents[c] = Parents[d] /\ Waits(c) => c \in req'[q].woken
  <2>1. CASE SameRest(req'[q], req[q])
    <3>1. req[q].phase = "enqueueing" /\ req'[q].woken = req[q].woken /\ req'[q].job = req[q].job
      BY <1>3, <2>1 DEF SameRest
    <3>2. req[q].woken \subseteq Jobs
      BY RequestType
    <3> QED BY <3>1, <3>2 DEF OrphanInv, WokenReady, Abreast
  <2>2. CASE Looks(req'[q])
    <3>1. req'[q].woken = Woken(req'[q].job, CurrentStates)
      BY <2>2 DEF Looks
    <3>2. \A c : c \in Woken(req'[q].job, CurrentStates) <=>
                    /\ c \in Jobs /\ req'[q].job \in Parents[c]
                    /\ Waits(c) /\ ParentsDone(c)
      BY DEF Woken, Children, ParentsDone, Waits, CurrentStates
    <3>3. \A c, d \in Jobs : Parents[c] = Parents[d] => (ParentsDone(c) <=> ParentsDone(d))
      BY DEF ParentsDone
    <3> QED BY <3>1, <3>2, <3>3
  <2>3. ~Idle(req'[q]) /\ ~Tries(req'[q])
    BY <1>3 DEF Idle, Tries
  <2> QED BY <2>1, <2>2, <2>3
<1>4. WokenReady'
  BY <1>1, <1>3 DEF WokenReady
<1>5. Abreast'
  BY <1>3 DEF Abreast
<1>6. TriesReady'
  <2> SUFFICES ASSUME NEW q \in Executing' PROVE req'[q].ready
    BY DEF TriesReady
  <2>1. q \in Requests /\ req'[q].phase \in {"started", "performing"}
    BY DEF Executing
  <2>2. CASE SameRest(req'[q], req[q])
    BY <2>1, <2>2 DEF SameRest, OrphanInv, TriesReady, Executing
  <2> QED BY <2>1, <2>2 DEF Idle, Tries, Looks
<1>7. QueueHopes'
  BY DEF QueueHopes
<1>8. NoOrphan'
  <2> SUFFICES ASSUME NEW c \in Jobs, Waits(c)', ParentsDone(c)'
               PROVE  \E s \in Requests : WillWake(s, c)'
    BY DEF NoOrphan, Waits
  <2>1. CASE ~ParentsDone(c)
    BY <2>1
  <2>2. CASE ParentsDone(c)
    <3>1. PICK q \in Requests : WillWake(q, c)
      BY <2>2 DEF OrphanInv, NoOrphan, Waits
    <3> QED BY <3>1
  <2> QED BY <2>1, <2>2
<1> QED BY <1>2, <1>4, <1>5, <1>6, <1>7, <1>8 DEF OrphanInv

\* A request that is going to look for the children of its job, or has seen
\* them, goes on.
GoesOn(a, b) == SameRest(a, b) /\ (a.phase = "enqueueing" => a.stale = b.stale)

LEMMA WillWakeKept ==
  ASSUME NEW q \in Requests, NEW c \in Jobs, WillWake(q, c), GoesOn(req'[q], req[q])
  PROVE  WillWake(q, c)'
  BY DEF WillWake, GoesOn, SameRest

\* A step that leaves the rows alone.
LEMMA OrphanNoWrite ==
  ASSUME TypeOK, OrphanInv, row' = row, queue' \subseteq Jobs,
         runner' \in {"loading", "up"} =>
            \A j \in queue' : ~Waits(j) /\ State(j) # "done",
         \A q \in Requests :
            \/ GoesOn(req'[q], req[q])
            \/ /\ req[q].phase \notin {"finished", "enqueueing"}
               /\ Idle(req'[q]) \/ Tries(req'[q])
            \/ /\ req[q].phase = "finished" /\ Looks(req'[q])
               /\ req'[q].job = req[q].job /\ ~req'[q].stale
            \/ req[q].phase = "enqueueing" /\ req[q].stale /\ Idle(req'[q])
  PROVE  OrphanInv'
<1>1. \A j \in Jobs : /\ Waits(j)' <=> Waits(j)
                      /\ Ended(j)' <=> Ended(j)
                      /\ State(j)' = State(j)
                      /\ ParentsDone(j)' <=> ParentsDone(j)
  BY DEF Waits, Ended, ParentsDone, CurrentStates, State
<1>2. ASSUME NEW c \in Jobs, NEW q \in Requests, Waits(c), ParentsDone(c), WillWake(q, c)
      PROVE  WillWake(q, c)'
  <2>1. CASE GoesOn(req'[q], req[q])
    BY <1>2, <2>1, WillWakeKept
  <2>2. CASE /\ req[q].phase = "finished" /\ Looks(req'[q])
             /\ req'[q].job = req[q].job /\ ~req'[q].stale
    <3>1. req[q].job \in Parents[c]
      BY <1>2 DEF WillWake
    <3>2. c \in Woken(req[q].job, CurrentStates)
      BY <1>2, <3>1 DEF Woken, Children, ParentsDone, Waits, CurrentStates
    <3> QED BY <2>2, <3>1, <3>2 DEF WillWake, Looks
  <2> QED BY <1>2, <2>1, <2>2 DEF WillWake
<1>3. \A q \in Requests : \/ SameRest(req'[q], req[q]) \/ Idle(req'[q])
                          \/ Tries(req'[q]) \/ Looks(req'[q])
  BY DEF GoesOn
<1>4. runner' \in {"loading", "up"} => \A j \in queue' : ~Waits(j)' /\ State(j)' # "done"
  BY <1>1
<1>5. /\ \A p \in Jobs : Ended(p) => Ended(p)'
      /\ \A c \in Jobs : Waits(c)' => Waits(c)
      /\ \A c \in Jobs : ~(Waits(c) /\ ~Waits(c)')
      /\ \A c \in Jobs : ~(ParentsDone(c)' /\ ~ParentsDone(c))
  BY <1>1
<1>6. \A c \in Jobs, q \in Requests : Waits(c)' /\ ParentsDone(c) /\ WillWake(q, c) =>
                                        \E s \in Requests : WillWake(s, c)'
  BY <1>2, <1>5
<1> QED BY <1>3, <1>4, <1>5, <1>6, OrphanKeeps

\* The row of j neither waits nor is done, and is written with state s: "done"
\* by a request, as R has it, that is going to look for the children of j.
Harmless(j, s, R) ==
    /\ ~Waits(j) /\ ~Ended(j) /\ s \notin {"wait_dependencies", "deleted"}
    /\ s = "done" => /\ runner \in {"loading", "up"} => j \notin queue
                     /\ \E q \in Requests : R[q].phase = "finished" /\ R[q].job = j

\* A request becomes a from b, and if b is about to wake children a is too.
Continues(a, b) == \/ GoesOn(a, b)
                   \/ /\ b.phase \notin {"finished", "enqueueing"}
                      /\ Idle(a) \/ Tries(a)

\* A commit, by a request that does not look for children, of rows that
\* neither wait nor are done, and of which one may become done, with a request
\* that is going to look for its children.
LEMMA OrphanCommit ==
  ASSUME TypeOK, ExecutionInv, OrphanInv, NEW r \in Tables, NEW D \in SUBSET Jobs,
         NEW R \in RequestTables, NEW T \in TxTables, Commit(r, D, R, T),
         \A j \in Jobs \ D : r[j] = row[j],
         \A j \in D : Harmless(j, r[j].state, R),
         runner' = runner, queue' \subseteq queue,
         \A q \in Requests : Continues(R[q], req[q])
  PROVE  OrphanInv'
<1> USE DEF Harmless, Continues
<1>1. row' = r
  BY DEF Commit
<1>2. \A q \in Requests :
         /\ req'[q].phase = R[q].phase /\ req'[q].job = R[q].job
         /\ req'[q].woken = R[q].woken /\ req'[q].ready = R[q].ready
         /\ req'[q].phase = "enqueueing" /\ req'[q].woken \cap D = {}
               => req'[q].stale = R[q].stale
  BY CommittedRequest
<1>3. \A j \in Jobs \ D : State(j)' = State(j)
  BY <1>1 DEF State
<1>4. \A j \in D : ~Waits(j)' /\ State(j)' = r[j].state
  BY <1>1 DEF State, Waits
<1>5. /\ \A p \in Jobs : Ended(p) => Ended(p)'
      /\ \A c \in Jobs : Waits(c)' <=> Waits(c)
  BY <1>3, <1>4 DEF Ended, Waits
<1>6. runner' \in {"loading", "up"} =>
         \A j \in queue' : ~Waits(j)' /\ State(j)' # "done"
  <2> SUFFICES ASSUME runner \in {"loading", "up"}, NEW j \in queue'
               PROVE  ~Waits(j)' /\ State(j)' # "done"
    OBVIOUS
  <2>1. j \in queue /\ j \in Jobs /\ ~Waits(j) /\ State(j) # "done"
    BY DEF OrphanInv, QueueHopes, TypeOK
  <2> QED BY <1>3, <1>4, <2>1 DEF Waits
<1>7. \A q \in Requests : \/ SameRest(req'[q], req[q]) \/ Idle(req'[q])
                          \/ Tries(req'[q]) \/ Looks(req'[q])
  BY <1>2 DEF GoesOn, SameRest, Idle, Tries
<1>8. ASSUME NEW c \in Jobs, Waits(c)', ParentsDone(c)', ~ParentsDone(c)
      PROVE  \E s \in Requests : WillWake(s, c)'
  <2>1. PICK p \in Parents[c] : p \in Jobs /\ ~Ended(p)
    BY <1>8, EndedParents
  <2>2. Ended(p)'
    BY <1>8, <2>1 DEF ParentsDone, AllDone, CurrentStates, Ended
  <2>3. p \in D /\ r[p].state = "done"
    BY <1>3, <1>4, <2>1, <2>2 DEF Ended
  <2>4. PICK q \in Requests : R[q].phase = "finished" /\ R[q].job = p
    BY <2>3
  <2>5. WillWake(q, c)'
    BY <1>2, <2>1, <2>4 DEF WillWake
  <2> QED BY <2>5
<1>9. ASSUME NEW c \in Jobs, NEW q \in Requests, Waits(c)', WillWake(q, c)
      PROVE  WillWake(q, c)'
  <2>1. GoesOn(R[q], req[q])
    BY <1>9 DEF WillWake
  <2>2. CASE req[q].phase = "finished"
    BY <1>2, <1>9, <2>1, <2>2 DEF WillWake, GoesOn, SameRest
  <2>3. CASE req[q].phase = "enqueueing"
    <3>1. ~req[q].stale /\ c \in req[q].woken
      BY <1>9, <2>3 DEF WillWake
    <3>2. \A d \in req[q].woken : Waits(d)
      BY <2>3, <3>1 DEF ExecutionInv, WokenWait, Waits
    <3>3. req[q].woken \cap D = {}
      BY <3>2
    <3>4. GoesOn(req'[q], req[q])
      BY <1>2, <2>1, <2>3, <3>3 DEF GoesOn, SameRest
    <3> QED BY <1>9, <3>4, WillWakeKept
  <2> QED BY <1>9, <2>2, <2>3 DEF WillWake
<1> QED BY <1>5, <1>6, <1>7, <1>8, <1>9, OrphanKeeps

\* The wake up of children, which makes stale only requests that wanted to
\* write some of the same rows.
LEMMA OrphanWakes ==
  ASSUME Layered, TypeOK, ExecutionInv, OrphanInv, NEW q \in Requests, EnqueueDependents(q)
  PROVE  OrphanInv'
<1> DEFINE W == req[q].woken
           R == [req EXCEPT ![q] = FreeReq]
           r == WithPending(W, row)
<1>1. /\ req[q].phase = "enqueueing" /\ ~req[q].stale /\ Commit(r, W, R, tx)
      /\ runner' = runner /\ queue' = queue
  BY DEF EnqueueDependents, channel
<1>2. r \in Tables /\ W \in SUBSET Jobs /\ R \in RequestTables /\ tx \in TxTables
  BY WithPendingType, RequestType DEF TypeOK
<1>3. \A i \in Jobs : State(i)' = IF i \in W THEN "pending" ELSE State(i)
  <2>1. row' = WithPending(W, row) /\ row \in Tables
    BY <1>1 DEF Commit, TypeOK
  <2> QED BY <2>1, WritePending DEF State
<1>4. \A c \in W : Waits(c) /\ ParentsDone(c)
  BY <1>1 DEF ExecutionInv, WokenWait, Waits, OrphanInv, WokenReady
<1>5. \A s \in Requests : R[s] = IF s = q THEN FreeReq ELSE req[s]
  BY DEF TypeOK, RequestTables
<1>6. \A c \in Jobs : Parents[c] \cap Parents[c] = Parents[c] /\ Parents[c] \subseteq Jobs
  OBVIOUS
<1> HIDE DEF R, r
<1>7. \A s \in Requests :
         /\ req'[s].phase = R[s].phase /\ req'[s].job = R[s].job
         /\ req'[s].woken = R[s].woken /\ req'[s].ready = R[s].ready
         /\ req'[s].phase = "enqueueing" /\ req'[s].woken \cap W = {}
               => req'[s].stale = R[s].stale
  BY <1>1, <1>2, CommittedRequest
<1>8. /\ \A p \in Jobs : Ended(p)' <=> Ended(p)
      /\ \A c \in Jobs : Waits(c)' => Waits(c) /\ c \notin W
      /\ \A c \in Jobs : Waits(c) /\ ~Waits(c)' => ParentsDone(c)
  BY <1>3, <1>4 DEF Ended, Waits
<1>9. runner' \in {"loading", "up"} =>
         \A j \in queue' : ~Waits(j)' /\ State(j)' # "done"
  BY <1>1, <1>3 DEF OrphanInv, QueueHopes, Waits, TypeOK
<1>10. \A s \in Requests : \/ SameRest(req'[s], req[s]) \/ Idle(req'[s])
                           \/ Tries(req'[s]) \/ Looks(req'[s])
  BY <1>5, <1>7, FreeRecord DEF SameRest, Idle
<1>11. \A c \in Jobs : ParentsDone(c)' => ParentsDone(c)
  BY <1>6, <1>8 DEF ParentsDone, AllDone, CurrentStates, Ended
<1>12. ASSUME NEW c \in Jobs, NEW s \in Requests, Waits(c)', WillWake(s, c)
       PROVE  WillWake(s, c)'
  <2>1. c \notin W /\ Waits(c)
    BY <1>8, <1>12
  <2>2. s # q
    BY <1>1, <1>12, <2>1 DEF WillWake
  <2>3. CASE req[s].phase = "finished"
    BY <1>5, <1>7, <1>12, <2>2, <2>3 DEF WillWake
  <2>4. CASE req[s].phase = "enqueueing"
    <3>1. ~req[s].stale /\ c \in req[s].woken /\ req[s].job \in Parents[c]
      BY <1>12, <2>4 DEF WillWake
    <3>2. ASSUME NEW d \in req[s].woken \cap W
          PROVE  FALSE
      <4>1. d \in Jobs /\ req[s].job \in Parents[d]
        BY <1>2, <2>4 DEF OrphanInv, WokenReady
      <4>2. Parents[c] = Parents[d]
        BY <3>1, <4>1 DEF Layered
      <4> QED BY <1>1, <2>1, <4>2 DEF OrphanInv, Abreast
    <3>3. req'[s].stale = req[s].stale
      BY <1>5, <1>7, <2>2, <2>4, <3>2
    <3> QED BY <1>5, <1>7, <2>2, <2>4, <3>1, <3>3 DEF WillWake
  <2> QED BY <1>12, <2>3, <2>4 DEF WillWake
<1> QED BY <1>8, <1>9, <1>10, <1>11, <1>12, OrphanKeeps

LEMMA GoingOn ==
  \A a : GoesOn(a, a)
  BY DEF GoesOn, SameRest

\* As Harmless, of the request that writes the row.
HarmlessBy(j, s, a) ==
    /\ ~Waits(j) /\ ~Ended(j) /\ s \notin {"wait_dependencies", "deleted"}
    /\ s = "done" => /\ runner \in {"loading", "up"} => j \notin queue
                     /\ a.phase = "finished" /\ a.job = j

\* A commit of one row by a request that does not look for children.
LEMMA OrphanOneRow ==
  ASSUME TypeOK, ExecutionInv, OrphanInv, NEW j \in Jobs, NEW r \in Tables,
         NEW D \in SUBSET {j}, NEW q \in Requests, NEW a \in RequestRecord,
         a.job = NoJob <=> a.phase = "free",
         Commit(r, D, [req EXCEPT ![q] = a], tx),
         \A i \in Jobs \ D : r[i] = row[i],
         D # {} => HarmlessBy(j, r[j].state, a),
         runner' = runner, queue' \subseteq queue, Continues(a, req[q])
  PROVE  OrphanInv'
<1> DEFINE R == [req EXCEPT ![q] = a]
<1>1. R \in RequestTables /\ tx \in TxTables /\ Commit(r, D, R, tx) /\ D \in SUBSET Jobs
  BY RequestUpdate DEF TypeOK
<1>2. \A s \in Requests : R[s] = IF s = q THEN a ELSE req[s]
  BY DEF TypeOK, RequestTables
<1> HIDE DEF R
<1>3. \A s \in Requests : Continues(R[s], req[s])
  BY <1>2, GoingOn DEF Continues
<1>4. \A i \in D : Harmless(i, r[i].state, R)
  BY <1>2 DEF Harmless, HarmlessBy
<1> QED BY <1>1, <1>3, <1>4, OrphanCommit

LEMMA OrphanRunner ==
  ASSUME TypeOK, ExecutionInv, OrphanInv, Runner
  PROVE  OrphanInv'
<1>g. \A s \in Requests : GoesOn(req[s], req[s])
  BY GoingOn
<1>1. CASE Listen \/ Load \/ Loaded
  <2>1. row' = row /\ req' = req /\ queue' \subseteq Jobs
    BY <1>1 DEF Listen, Load, Loaded, table, channel, TypeOK
  <2>2. runner' \in {"loading", "up"} =>
            \A j \in queue' : ~Waits(j) /\ State(j) # "done"
    BY <1>1 DEF Listen, Load, Loaded, channel, OrphanInv, QueueHopes, Waits
  <2> QED BY <1>g, <2>1, <2>2, OrphanNoWrite
<1>2. ASSUME NEW j \in Jobs, ProcessNotification(j)
      PROVE  OrphanInv'
  <2>1. /\ row' = row /\ req' = req /\ runner = "up" /\ runner' = runner
        /\ Notify(j) /\ State(j) \in States
    BY <1>2, RowType DEF ProcessNotification, table
  <2>2. /\ queue' \subseteq Jobs
        /\ \A i \in queue' : i \in queue \/ (i = j /\ State(j) = "pending")
    BY <2>1 DEF Notify, States, channel, TypeOK
  <2>3. \A i \in queue' : ~Waits(i) /\ State(i) # "done"
    BY <2>1, <2>2 DEF OrphanInv, QueueHopes, Waits
  <2> QED BY <1>g, <2>1, <2>2, <2>3, OrphanNoWrite
<1>3. ASSUME NEW j \in Jobs, NEW q \in Requests, RunJob(j, q)
      PROVE  OrphanInv'
  <2> DEFINE a == [FreeReq EXCEPT !.phase = "sending", !.job = j, !.client = TRUE]
             r == IF Exists(j) THEN SetState(j, "enqueued") ELSE row
             D == IF Exists(j) THEN {j} ELSE {}
  <2>1. /\ runner = "up" /\ runner' = runner /\ j \in queue /\ queue' \subseteq queue
        /\ req[q].phase = "free" /\ Commit(r, D, [req EXCEPT ![q] = a], tx)
    BY <1>3 DEF RunJob
  <2>2. a \in RequestRecord /\ a.phase = "sending" /\ a.job = j /\ j # NoJob
    BY DEF FreeReq, RequestRecord, Phases
  <2>3. /\ r \in Tables /\ D \in SUBSET {j}
        /\ \A i \in Jobs \ D : r[i] = row[i]
        /\ D # {} => Exists(j) /\ r[j].state = "enqueued"
    BY RowType, StateNames, WrittenRow DEF SetState, TypeOK, Tables
  <2>4. ~Waits(j) /\ State(j) # "done"
    BY <2>1 DEF OrphanInv, QueueHopes
  <2>5. D # {} => ~Ended(j)
    BY <2>3, <2>4 DEF Exists, Ended
  <2>6. Continues(a, req[q])
    BY <2>1, <2>2 DEF Idle, Continues
  <2>7. D # {} => HarmlessBy(j, r[j].state, a)
    BY <2>3, <2>4, <2>5 DEF HarmlessBy
  <2>8. a.job = NoJob <=> a.phase = "free"
    BY <2>2
  <2> HIDE DEF a, r, D
  <2> QED BY <2>1, <2>2, <2>3, <2>6, <2>7, <2>8, OrphanOneRow
<1> QED BY <1>1, <1>2, <1>3 DEF Runner

LEMMA OrphanTrouble ==
  ASSUME NoWorkerKilled, TypeOK, ExecutionInv, OrphanInv, Trouble
  PROVE  OrphanInv'
<1>1. CASE RunnerError \/ RunnerCrash
  <2>1. row' = row /\ runner' = "down" /\ queue' \subseteq Jobs
    BY <1>1 DEF RunnerError, RunnerCrash, table
  <2>2. ASSUME NEW s \in Requests
        PROVE  \/ GoesOn(req'[s], req[s])
               \/ req[s].phase \notin {"finished", "enqueueing"} /\ Idle(req'[s])
    <3> DEFINE b == [req[s] EXCEPT !.client = FALSE]
    <3>1. \/ req'[s] = req[s] \/ req'[s] = b
          \/ req[s].phase = "sending" /\ req'[s] = FreeReq
      BY <1>1 DEF RunnerError, RunnerCrash
    <3>2. req[s] \in RequestRecord
      BY DEF TypeOK, RequestTables
    <3>3. GoesOn(b, req[s]) /\ GoesOn(req[s], req[s]) /\ Idle(FreeReq)
      BY <3>2, FreeRecord DEF RequestRecord, GoesOn, SameRest, Idle
    <3> HIDE DEF b
    <3> QED BY <3>1, <3>3
  <2> QED BY <2>1, <2>2, OrphanNoWrite
<1>2. ASSUME NEW j \in Jobs
      PROVE  /\ ResetIfEnqueued(j) \in Tables /\ ResetRows(j) \in SUBSET {j}
             /\ \A i \in Jobs \ ResetRows(j) : ResetIfEnqueued(j)[i] = row[i]
             /\ ResetRows(j) # {} => /\ ~Waits(j) /\ ~Ended(j)
                                     /\ ResetIfEnqueued(j)[j].state = "pending"
  BY ResetType, ResetKeeps DEF ResetRows, ResetIfEnqueued, SetState, TypeOK, Tables,
     Waits, Ended
<1>3. ASSUME NEW q \in Requests, ClientTimeout(q)
      PROVE  OrphanInv'
  <2> DEFINE b == [req[q] EXCEPT !.client = FALSE]
             j == req[q].job
             r == ResetIfEnqueued(j)
             D == ResetRows(j)
  <2>1. /\ j \in Jobs /\ runner' = runner /\ queue' \subseteq queue
        /\ Commit(r, D, [req EXCEPT ![q] = b], tx)
    BY <1>3, RequestType DEF ClientTimeout, channel
  <2>2. req[q] \in RequestRecord /\ (req[q].job = NoJob <=> req[q].phase = "free")
    BY DEF TypeOK, RequestTables
  <2>3. b \in RequestRecord /\ GoesOn(b, req[q]) /\ (b.job = NoJob <=> b.phase = "free")
    BY <2>2 DEF RequestRecord, GoesOn, SameRest
  <2>4. /\ r \in Tables /\ D \in SUBSET {j}
        /\ \A i \in Jobs \ D : r[i] = row[i]
        /\ D # {} => ~Waits(j) /\ ~Ended(j) /\ r[j].state = "pending"
    BY <1>2, <2>1
  <2>5. D # {} => HarmlessBy(j, r[j].state, b)
    BY <2>4 DEF HarmlessBy
  <2>6. Continues(b, req[q])
    BY <2>3 DEF Continues
  <2> HIDE DEF b, j, r, D
  <2> QED BY <2>1, <2>3, <2>4, <2>5, <2>6, OrphanOneRow
<1>4. ASSUME NEW q \in Requests, ConnectionRefused(q)
      PROVE  OrphanInv'
  <2> DEFINE j == req[q].job
             r == ResetIfEnqueued(j)
             D == ResetRows(j)
  <2>1. /\ j \in Jobs /\ runner' = runner /\ queue' \subseteq queue
        /\ req[q].phase = "sending"
        /\ Commit(r, D, [req EXCEPT ![q] = FreeReq], tx)
    BY <1>4, RequestType DEF ConnectionRefused, channel
  <2>2. /\ r \in Tables /\ D \in SUBSET {j}
        /\ \A i \in Jobs \ D : r[i] = row[i]
        /\ D # {} => ~Waits(j) /\ ~Ended(j) /\ r[j].state = "pending"
    BY <1>2, <2>1
  <2>3. Continues(FreeReq, req[q])
    BY <2>1, FreeRecord DEF Idle, Continues
  <2>4. D # {} => HarmlessBy(j, r[j].state, FreeReq)
    BY <2>2 DEF HarmlessBy
  <2> HIDE DEF j, r, D
  <2> QED BY <2>1, <2>2, <2>3, <2>4, FreeRecord, OrphanOneRow
<1>5. ASSUME NEW q \in Requests
      PROVE  ~WorkerCrash(q)
  <2>1. used.worker \in Nat
    BY DEF TypeOK
  <2> QED BY <2>1 DEF WorkerCrash, NoWorkerKilled
<1> QED BY <1>1, <1>3, <1>4, <1>5 DEF Trouble

LEMMA OrphanWorker ==
  ASSUME Layered, TypeOK, CapacityInv, ExecutionInv, OrphanInv, NEW q \in Requests, Worker(q)
  PROVE  OrphanInv'
<1>t. /\ req[q] \in RequestRecord /\ (req[q].job = NoJob <=> req[q].phase = "free")
      /\ req[q].phase # "free" => req[q].job \in Jobs
  BY RequestType DEF TypeOK, RequestTables
<1>f. \A a : \A s \in Requests : [req EXCEPT ![q] = a][s] = IF s = q THEN a ELSE req[s]
  BY DEF TypeOK, RequestTables
<1>k. runner' = runner /\ queue' = queue
  BY DEF Worker, ReachServer, StartJob, RejectJob, BeginPerform, FinishJob,
       NothingToDoLost, RetryJob, IgnoredRetry, FailJob, BeginEnqueue,
       EnqueueDependents, EnqueueFails, channel
<1>q. /\ runner' \in {"loading", "up"} => \A j \in queue' : ~Waits(j) /\ State(j) # "done"
      /\ queue' \subseteq Jobs /\ queue' \subseteq queue
  BY <1>k DEF OrphanInv, QueueHopes, TypeOK
<1>i. Idle(FreeReq)
  BY FreeRecord DEF Idle
<1>e. req[q].phase = "performing" =>
          /\ State(req[q].job) = "started" /\ req[q].ready
          /\ ~Waits(req[q].job) /\ ~Ended(req[q].job)
          /\ runner \in {"loading", "up"} => req[q].job \notin queue
  <2> SUFFICES ASSUME req[q].phase = "performing"
               PROVE  /\ State(req[q].job) = "started" /\ req[q].ready
                      /\ ~Waits(req[q].job) /\ ~Ended(req[q].job)
                      /\ runner \in {"loading", "up"} => req[q].job \notin queue
    OBVIOUS
  <2>1. q \in Executing /\ req[q].job \in Jobs
    BY <1>t DEF Executing
  <2>2. State(req[q].job) = "started" /\ req[q].ready
    BY <2>1 DEF ExecutionInv, ExecutingIsStarted, OrphanInv, TriesReady
  <2>3. req[q].job \in Active
    BY <2>1, <2>2 DEF Active
  <2> QED BY <2>2, <2>3 DEF CapacityInv, Aware, Waits, Ended
<1>1. CASE ReachServer(q) \/ NothingToDoLost(q)
  <2> DEFINE a == [req[q] EXCEPT !.phase = "accepted"]
  <2>1. /\ row' = row /\ req' = [req EXCEPT ![q] = a]
        /\ req[q].phase \notin {"finished", "enqueueing"}
    BY <1>1 DEF ReachServer, NothingToDoLost, table
  <2>2. Idle(a)
    BY <1>t DEF RequestRecord, Idle
  <2> HIDE DEF a
  <2> QED BY <1>f, <1>q, <2>1, <2>2, GoingOn, OrphanNoWrite
<1>2. CASE RejectJob(q) \/ EnqueueFails(q)
  <2>1. /\ row' = row /\ req' = [req EXCEPT ![q] = FreeReq]
        /\ \/ req[q].phase \notin {"finished", "enqueueing"}
           \/ req[q].phase = "enqueueing" /\ req[q].stale
    BY <1>2 DEF RejectJob, EnqueueFails, table
  <2> QED BY <1>f, <1>i, <1>q, <2>1, GoingOn, OrphanNoWrite
<1>3. CASE BeginPerform(q)
  <2> DEFINE a == [req[q] EXCEPT !.phase = "performing", !.stale = FALSE]
  <2>1. row' = row /\ req' = [req EXCEPT ![q] = a] /\ req[q].phase = "started"
    BY <1>3 DEF BeginPerform, table
  <2>2. req[q].ready
    BY <2>1 DEF OrphanInv, TriesReady, Executing
  <2>3. Tries(a)
    BY <1>t, <2>2 DEF RequestRecord, Tries
  <2> HIDE DEF a
  <2> QED BY <1>f, <1>q, <2>1, <2>3, GoingOn, OrphanNoWrite
<1>4. CASE BeginEnqueue(q)
  <2> DEFINE a == [req[q] EXCEPT !.phase = "enqueueing", !.stale = FALSE,
                                 !.woken = Woken(req[q].job, CurrentStates)]
  <2>1. row' = row /\ req' = [req EXCEPT ![q] = a] /\ req[q].phase = "finished"
    BY <1>4 DEF BeginEnqueue, table
  <2>2. Looks(a) /\ a.job = req[q].job /\ ~a.stale
    BY <1>t DEF RequestRecord, Looks
  <2> HIDE DEF a
  <2> QED BY <1>f, <1>q, <2>1, <2>2, GoingOn, OrphanNoWrite
<1>5. CASE StartJob(q)
  <2> DEFINE j == req[q].job
             a == [req[q] EXCEPT !.phase = "started", !.ready = ParentsDone(j),
                                 !.retry = row[j].retry]
             r == SetState(j, "started")
             D == {j}
  <2>1. /\ j \in Jobs /\ req[q].phase = "accepted" /\ State(j) = "enqueued"
        /\ Commit(r, D, [req EXCEPT ![q] = a], tx)
    BY <1>5, <1>t DEF StartJob
  <2>2. ~Waits(j) /\ ~Ended(j) /\ ParentsDone(j)
    BY <2>1 DEF Waits, Ended, OrphanInv, RowsReady
  <2>3. a \in RequestRecord /\ Tries(a) /\ a.phase = "started" /\ a.job = j
    <3>1. row[j].retry \in Nat /\ ParentsDone(j) = TRUE
      BY <2>1, <2>2, RowType DEF ParentsDone, AllDone
    <3> QED BY <1>t, <2>2, <3>1 DEF RequestRecord, Phases, Tries
  <2>4. /\ r \in Tables /\ D \in SUBSET {j} /\ r[j].state = "started"
        /\ \A i \in Jobs \ D : r[i] = row[i]
    BY <2>1, RowType, StateNames, WrittenRow DEF SetState, TypeOK, Tables
  <2>5. HarmlessBy(j, r[j].state, a) /\ Continues(a, req[q])
    BY <2>1, <2>2, <2>3, <2>4 DEF HarmlessBy, Continues
  <2>6. a \in RequestRecord /\ (a.job = NoJob <=> a.phase = "free")
    BY <2>1, <2>3
  <2>7. j \in Jobs /\ Commit(r, D, [req EXCEPT ![q] = a], tx)
    BY <2>1
  <2>8. runner' = runner /\ queue' \subseteq queue
    BY <1>q, <1>k
  <2> HIDE DEF a, j, r, D
  <2> QED BY <2>4, <2>5, <2>6, <2>7, <2>8, OrphanOneRow
<1>6. CASE FinishJob(q)
  <2> DEFINE j == req[q].job
             a == [req[q] EXCEPT !.phase = "finished"]
             r == Store(q, "done")
             D == {j}
  <2>1. /\ j \in Jobs /\ req[q].phase = "performing"
        /\ Commit(r, D, [req EXCEPT ![q] = a], tx)
    BY <1>6, <1>t DEF FinishJob
  <2>2. /\ ~Waits(j) /\ ~Ended(j) /\ j # NoJob
        /\ runner \in {"loading", "up"} => j \notin queue
    BY <1>e, <2>1
  <2>3. a \in RequestRecord /\ Idle(a) /\ a.phase = "finished" /\ a.job = j
    BY <1>t DEF RequestRecord, Phases, Idle
  <2>4. /\ r \in Tables /\ D \in SUBSET {j} /\ r[j].state = "done"
        /\ \A i \in Jobs \ D : r[i] = row[i]
    BY <2>1, StoreType, StateNames, WrittenRow DEF Store, TypeOK, Tables
  <2>5. HarmlessBy(j, r[j].state, a) /\ Continues(a, req[q])
    BY <2>1, <2>2, <2>3, <2>4 DEF HarmlessBy, Continues
  <2>6. a.job = NoJob <=> a.phase = "free"
    BY <2>2, <2>3
  <2> HIDE DEF a, j, r, D
  <2> QED BY <1>k, <1>q, <2>1, <2>3, <2>4, <2>5, <2>6, OrphanOneRow
<1>7. CASE RetryJob(q) \/ FailJob(q) \/ IgnoredRetry(q)
  <2> DEFINE j == req[q].job
             D == {j}
  <2>1. j \in Jobs /\ req[q].phase = "performing"
    BY <1>7, <1>t DEF RetryJob, FailJob, IgnoredRetry
  <2>2. ~Waits(j) /\ ~Ended(j) /\ req[q].ready
    BY <1>e, <2>1
  <2>3. PICK r : /\ r \in Tables /\ r[j].state \in {"pending", "failed"}
                 /\ \A i \in Jobs \ D : r[i] = row[i]
                 /\ Commit(r, D, [req EXCEPT ![q] = FreeReq], tx)
    <3> DEFINE p == Store(q, PendingOrWait(req[q].ready))
               f == Store(q, "failed")
               i == [row EXCEPT ![j] = [state |-> PendingOrWait(req[q].ready),
                                        retry |-> req[q].retry]]
    <3>1. \/ Commit(p, D, [req EXCEPT ![q] = FreeReq], tx)
          \/ Commit(f, D, [req EXCEPT ![q] = FreeReq], tx)
          \/ Commit(i, D, [req EXCEPT ![q] = FreeReq], tx)
      BY <1>7 DEF RetryJob, FailJob, IgnoredRetry
    <3>2. PendingOrWait(req[q].ready) = "pending"
      BY <2>2 DEF PendingOrWait
    <3>3. /\ p \in Tables /\ p[j].state = "pending"
          /\ f \in Tables /\ f[j].state = "failed"
          /\ i \in Tables /\ i[j].state = "pending"
      BY <2>1, <3>2, StoreType, StateNames DEF Store, TypeOK, Tables
    <3>4. \A x \in Jobs \ D : p[x] = row[x] /\ f[x] = row[x] /\ i[x] = row[x]
      BY <2>1, WrittenRow DEF Store
    <3> HIDE DEF p, f, i, D
    <3> QED BY <3>1, <3>3, <3>4
  <2>4. HarmlessBy(j, r[j].state, FreeReq)
    BY <2>2, <2>3 DEF HarmlessBy
  <2>5. D \in SUBSET {j} /\ Continues(FreeReq, req[q])
    BY <1>i, <2>1 DEF Continues
  <2> HIDE DEF j, D
  <2> QED BY <1>k, <1>q, <2>1, <2>3, <2>4, <2>5, FreeRecord, OrphanOneRow
<1>8. CASE EnqueueDependents(q)
  BY <1>8, OrphanWakes
<1> QED BY <1>1, <1>2, <1>3, <1>4, <1>5, <1>6, <1>7, <1>8 DEF Worker

LEMMA OrphanCron ==
  ASSUME OnlyDoneVacuumed, TypeOK, ExecutionInv, OrphanInv, Cron
  PROVE  OrphanInv'
<1>1. ASSUME NEW j \in Jobs, RequeueStuck(j)
      PROVE  OrphanInv'
  <2> DEFINE r == [row EXCEPT ![j] = [state |-> PendingOrWait(ParentsDone(j)), retry |-> 0]]
             D == {j}
  <2>1. /\ Commit(r, D, req, tx) /\ State(j) = "enqueued"
        /\ runner' = runner /\ queue' \subseteq queue
    BY <1>1 DEF RequeueStuck, channel
  <2>2. ~Waits(j) /\ ~Ended(j) /\ ParentsDone(j)
    BY <2>1 DEF Waits, Ended, OrphanInv, RowsReady
  <2>3. PendingOrWait(ParentsDone(j)) = "pending"
    BY <2>2 DEF PendingOrWait
  <2>4. /\ r \in Tables /\ r[j].state = "pending"
        /\ \A i \in Jobs \ D : r[i] = row[i]
    BY <2>3, RowType, StateNames, WrittenRow DEF TypeOK, Tables
  <2>5. \A i \in D : Harmless(i, r[i].state, req)
    BY <2>2, <2>4 DEF Harmless
  <2>6. req \in RequestTables /\ tx \in TxTables /\ D \in SUBSET Jobs
    BY DEF TypeOK
  <2>7. \A s \in Requests : Continues(req[s], req[s])
    BY GoingOn DEF Continues
  <2> HIDE DEF r, D
  <2> QED BY <2>1, <2>4, <2>5, <2>6, <2>7, OrphanCommit
<1>2. ASSUME NEW j \in Jobs, Vacuum(j)
      PROVE  OrphanInv'
  <2>1. /\ State(j) = "done" /\ row' = SetState(j, "deleted")
        /\ runner' = runner /\ queue' = queue /\ req' = req
    BY <1>2 DEF Vacuum, OnlyDoneVacuumed, channel
  <2>2. State(j)' = "deleted" /\ \A i \in Jobs \ {j} : State(i)' = State(i)
    BY <2>1, WriteRow, StateNames
  <2>3. \A i \in Jobs : /\ Waits(i)' <=> Waits(i)
                        /\ Ended(i)' <=> Ended(i)
                        /\ State(i)' # "done" \/ State(i)' = State(i)
    BY <2>1, <2>2 DEF Waits, Ended
  <2>4. \A c \in Jobs : Parents[c] \subseteq Jobs
    OBVIOUS
  <2>5. \A c \in Jobs : ParentsDone(c)' => ParentsDone(c)
    BY <2>3, <2>4 DEF ParentsDone, AllDone, CurrentStates, Ended
  <2>6. runner' \in {"loading", "up"} =>
            \A i \in queue' : ~Waits(i)' /\ State(i)' # "done"
    BY <2>1, <2>3 DEF OrphanInv, QueueHopes, TypeOK
  <2>7. \A q \in Requests : SameRest(req'[q], req[q]) /\ GoesOn(req'[q], req[q])
    BY <2>1, GoingOn DEF SameRest
  <2>8. \A c \in Jobs, q \in Requests : WillWake(q, c) => WillWake(q, c)'
    BY <2>7, WillWakeKept
  <2> QED BY <2>3, <2>5, <2>6, <2>7, <2>8, OrphanKeeps
<1> QED BY <1>1, <1>2 DEF Cron

LEMMA OrphanUser ==
  ASSUME TypeOK, ExecutionInv, OrphanInv, NEW u \in Users,
         User(u) \/ \E op \in Operations, j \in Jobs : UserBegin(u, op, j)
  PROVE  OrphanInv'
<1>1. CASE UserRetry(u) \/ \E op \in Operations, j \in Jobs : UserBegin(u, op, j)
  <2>1. /\ row' = row /\ runner' = runner /\ queue' = queue /\ req' = req
    BY <1>1 DEF UserRetry, UserBegin, table, channel
  <2>2. /\ queue' \subseteq Jobs
        /\ runner' \in {"loading", "up"} => \A j \in queue' : ~Waits(j) /\ State(j) # "done"
    BY <2>1 DEF OrphanInv, QueueHopes, TypeOK
  <2>3. \A q \in Requests : GoesOn(req'[q], req[q])
    BY <2>1, GoingOn
  <2> QED BY <2>1, <2>2, <2>3, OrphanNoWrite
<1>2. CASE UserCommit(u)
  <2> DEFINE j == tx[u].job
             T == [tx EXCEPT ![u] = NoTx]
             r == SetState(j, "cancelled")
             D == {j}
  <2>1. tx[u].op = "cancel" /\ j \in Jobs
    BY <1>2 DEF UserCommit, ExecutionInv, CancelSees, TypeOK, TxTables, TxRecord
  <2>2. UserWrites(u) = D /\ UserRows(u) = r
    BY <2>1 DEF UserWrites, UserRows
  <2>3. /\ j \notin tx[u].changed /\ Commit(r, D, req, T)
        /\ runner' = runner /\ queue' \subseteq queue
    BY <1>2, <2>2 DEF UserCommit, channel
  <2>4. ~Waits(j) /\ ~Ended(j)
    BY <2>1, <2>3 DEF ExecutionInv, CancelSees, Waits, Ended
  <2>5. NoTx \in TxRecord /\ NoTx.job = NoJob /\ NoTx.op = "none"
    BY DEF NoTx, TxRecord, States
  <2>6. T \in TxTables /\ req \in RequestTables /\ D \in SUBSET Jobs
    BY <2>1, <2>5 DEF TypeOK, TxTables
  <2>7. /\ r \in Tables /\ r[j].state = "cancelled"
        /\ \A i \in Jobs \ D : r[i] = row[i]
    BY <2>1, RowType, StateNames, WrittenRow DEF SetState, TypeOK, Tables
  <2>8. \A i \in D : Harmless(i, r[i].state, req)
    BY <2>4, <2>7 DEF Harmless
  <2>9. \A s \in Requests : Continues(req[s], req[s])
    BY GoingOn DEF Continues
  <2> HIDE DEF j, T, r, D
  <2> QED BY <2>3, <2>6, <2>7, <2>8, <2>9, OrphanCommit
<1> QED BY <1>1, <1>2 DEF User

LEMMA OrphanStep ==
  ASSUME Layered, NoWorkerKilled, OnlyDoneVacuumed
  PROVE  TypeOK /\ CapacityInv /\ ExecutionInv /\ OrphanInv /\ [Next]_vars => OrphanInv'
<1> SUFFICES ASSUME TypeOK, CapacityInv, ExecutionInv, OrphanInv, [Next]_vars
             PROVE  OrphanInv'
  OBVIOUS
<1>1. CASE Next
  BY <1>1, OrphanRunner, OrphanTrouble, OrphanCron, OrphanWorker, OrphanUser DEF Next
<1>2. CASE UNCHANGED vars
  <2>1. row' = row /\ runner' = runner /\ queue' = queue /\ req' = req
    BY <1>2 DEF vars, table, channel
  <2>2. /\ queue' \subseteq Jobs
        /\ runner' \in {"loading", "up"} => \A j \in queue' : ~Waits(j) /\ State(j) # "done"
    BY <2>1 DEF OrphanInv, QueueHopes, TypeOK
  <2>3. \A q \in Requests : GoesOn(req'[q], req[q])
    BY <2>1, GoingOn
  <2> QED BY <2>1, <2>2, <2>3, OrphanNoWrite
<1> QED BY <1>1, <1>2

\* A job whose parents are all done is woken, or about to be, when users do
\* nothing but cancel jobs, no worker is killed, only jobs that are done are
\* deleted, and jobs that share a parent share them all.
THEOREM NoChildForgotten ==
  ASSUME OnlyCancels, NoWorkerKilled, OnlyDoneVacuumed, Layered
  PROVE  Spec => []NoOrphan
<1>1. Init => CapacityInv /\ ExecutionInv /\ OrphanInv
  <2> SUFFICES ASSUME Init PROVE CapacityInv /\ ExecutionInv /\ OrphanInv
    OBVIOUS
  <2>1. CapacityInv
    BY CapacityInit
  <2>2. ExecutionInv
    BY ExecutionInit
  <2>3. \A q \in Requests : req[q].phase = "free"
    BY FreeRecord DEF Init
  <2>4. \A j \in Jobs : State(j) = PendingOrWait(Parents[j] = {})
    BY DEF Init, State
  <2>5. \A j \in Jobs : Parents[j] \subseteq Jobs
    OBVIOUS
  <2>6. \A j \in Jobs : ~Ended(j) /\ (~Waits(j) <=> Parents[j] = {})
    BY <2>4 DEF PendingOrWait, Ended, Waits
  <2>7. \A j \in Jobs : ParentsDone(j) <=> Parents[j] = {}
    BY <2>5, <2>6 DEF ParentsDone, AllDone, CurrentStates, Ended
  <2>8. RowsReady /\ NoOrphan
    BY <2>6, <2>7 DEF RowsReady, NoOrphan, Waits
  <2>9. WokenReady /\ TriesReady /\ QueueHopes /\ Abreast
    BY <2>3 DEF WokenReady, TriesReady, QueueHopes, Abreast, Executing, Init
  <2> QED BY <2>1, <2>2, <2>8, <2>9 DEF OrphanInv
<1>2. OrphanInv => NoOrphan
  BY DEF OrphanInv
<1>3. TypeOK /\ CapacityInv /\ ExecutionInv /\ [Next]_vars => ExecutionInv'
  BY ExecutionStep
<1>4. TypeOK /\ CapacityInv /\ ExecutionInv /\ OrphanInv /\ [Next]_vars => OrphanInv'
  BY OrphanStep
<1> QED BY <1>1, <1>2, <1>3, <1>4, CapacityStep, Types, PTL DEF Spec
=============================================================================
