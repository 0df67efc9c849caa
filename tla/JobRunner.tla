------------------------------ MODULE JobRunner ------------------------------
(***************************************************************************)
(* The job queue as a whole: the queue_job rows, the job runner of         *)
(* jobrunner/runner.py that learns of them from PostgreSQL notifications   *)
(* and asks Odoo over HTTP to run them, the runjob requests of             *)
(* controllers/main.py, the dependencies between jobs, and what users and  *)
(* the garbage collector do to the rows.                                   *)
(*                                                                         *)
(* The channels are reduced to a root channel: module Channels shows what  *)
(* a tree of them does, and when a job with an eta competes.  Here a       *)
(* postponed job may be picked at any later time.                          *)
(*                                                                         *)
(* Odoo's transactions are REPEATABLE READ: they read the rows as of their *)
(* beginning and fail when they write one that another has changed since.  *)
(***************************************************************************)
EXTENDS Integers, FiniteSets

CONSTANTS
    Jobs,
    Parents,        \* the jobs that each job depends on
    Capacity,       \* of the root channel
    MaxRetries,     \* max_retries of each job, 0 for no maximum
    IgnoreRetry,    \* the jobs that raise RetryableJobError(ignore_retry=True)
    Requests,       \* HTTP requests that can be under way
    Users,          \* concurrent transactions of users
    Allowed,        \* the pairs <<operation, state>> users apply
    Vacuumed,       \* the states whose old rows autovacuum deletes
    MaxUserOps,     \* bound on the users' transactions
    MaxRunnerStops, \* bound on the errors and crashes of the runner
    MaxWorkerStops, \* bound on the crashes of workers
    MaxTries,       \* bound on the tries of a job that conflicts of
                    \* transactions postpone
    MaxTimeouts,    \* bound on the requests that time out or are refused
    NoJob

\* The states of a row, and "deleted" for a row that is no more.
States == {"wait_dependencies", "pending", "enqueued", "started", "done",
           "cancelled", "failed", "deleted"}
Operations == {"done", "cancel", "requeue"}

\* The states in which the wizards apply their operation to a job.
Applicable(op) ==
    CASE op = "done" -> States \ {"deleted"}
      [] op = "cancel" -> {"pending", "enqueued", "failed"}
      [] op = "requeue" -> States \ {"wait_dependencies", "deleted"}

ASSUME JobsAssumption ==
    /\ NoJob \notin Jobs
    /\ IsFiniteSet(Jobs)
    /\ Parents \in [Jobs -> SUBSET Jobs]
    /\ \A j \in Jobs : j \notin Parents[j]
    /\ MaxRetries \in [Jobs -> Nat]
    /\ IgnoreRetry \subseteq Jobs

ASSUME BoundsAssumption ==
    /\ Capacity \in Nat \ {0}
    /\ Allowed \subseteq Operations \X States
    /\ \A a \in Allowed : a[2] \in Applicable(a[1])
    /\ Vacuumed \subseteq {"done", "cancelled"}
    /\ MaxUserOps \in Nat /\ MaxTries \in Nat /\ MaxTimeouts \in Nat
    /\ MaxRunnerStops \in Nat /\ MaxWorkerStops \in Nat

VARIABLES
    row,       \* queue_job: state and retry of each job
    finished,  \* history: the jobs that have been done
    notifs,    \* notified uuids the runner has not processed
    runner,    \* "down", "listening", "loading" or "up"
    queue,     \* the queue of the root channel
    running,   \* the running set of the root channel
    req,       \* the runjob requests
    tx,        \* the users' transactions
    used       \* history: what has been used of the bounds

table == <<row, finished>>
channel == <<queue, running>>
vars == <<table, notifs, runner, channel, req, tx, used>>

FreeReq == [phase |-> "free", job |-> NoJob, client |-> FALSE,
            ready |-> FALSE, stale |-> FALSE, retry |-> 0, woken |-> {}]
NoTx == [op |-> "none", job |-> NoJob, seen |-> [j \in Jobs |-> "pending"],
         changed |-> {}]

State(j) == row[j].state
CurrentStates == [j \in Jobs |-> State(j)]

\* Parents whose rows are deleted are not found, and not waited for.
AllDone(S, state) == \A p \in S : state[p] \in {"done", "deleted"}
ParentsDone(j) == AllDone(Parents[j], CurrentStates)
Children(p) == {c \in Jobs : p \in Parents[c]}

\* Job.set_pending, with the states of the parents it knows.
PendingOrWait(ready) == IF ready THEN "pending" ELSE "wait_dependencies"

\* Mutant: the runner listens once it has loaded the jobs.
ConnectedLate == runner = "up"

\* The connection of the runner gets the notifications.
Connected == runner # "down"

\* A commit that leaves the rows as in r, having changed those in D: the
\* trigger notifies the runner, and the transactions that have read the
\* changed rows can no longer write them.  R and T are the requests and the
\* users' transactions as the committing action leaves them.
Commit(r, D, R, T) ==
    /\ row' = r
    /\ finished' = finished \cup {j \in D : r[j].state = "done"}
    /\ notifs' = IF Connected THEN notifs \cup D ELSE notifs
    /\ req' = [q \in Requests |->
                 IF \/ R[q].phase = "performing" /\ R[q].job \in D
                    \/ R[q].phase = "enqueueing" /\ R[q].woken \cap D # {}
                 THEN [R[q] EXCEPT !.stale = TRUE] ELSE R[q]]
    /\ tx' = [u \in Users |-> IF T[u].op # "none"
                                THEN [T[u] EXCEPT !.changed = @ \cup D] ELSE T[u]]

Exists(j) == State(j) # "deleted"
SetState(j, state) == [row EXCEPT ![j].state = state]

Init ==
    /\ row = [j \in Jobs |-> [state |-> PendingOrWait(Parents[j] = {}), retry |-> 0]]
    /\ notifs = {}
    /\ runner = "down"
    /\ queue = {} /\ running = {}
    /\ req = [q \in Requests |-> FreeReq]
    /\ tx = [u \in Users |-> NoTx]
    /\ finished = {}
    /\ used = [users |-> 0, runner |-> 0, worker |-> 0, timeouts |-> 0]
-----------------------------------------------------------------------------
(***************************************************************************)
(* The runner.                                                             *)
(***************************************************************************)

\* Database.__init__: a new connection, which listens from now on.
Listen == /\ runner = "down"
          /\ runner' = "listening"
          /\ UNCHANGED <<table, notifs, channel, req, tx, used>>

\* Mutant: the started jobs are not loaded.
LoadEnqueued == /\ runner = "listening"
                /\ runner' = "loading"
                /\ queue' = {j \in Jobs : State(j) = "pending"}
                /\ running' = {j \in Jobs : State(j) = "enqueued"}
                /\ UNCHANGED <<table, notifs, req, tx, used>>

\* The SELECT of initialize_databases: every row that is not done, ...
Load == /\ runner = "listening"
        /\ runner' = "loading"
        /\ queue' = {j \in Jobs : State(j) = "pending"}
        /\ running' = {j \in Jobs : State(j) \in {"enqueued", "started"}}
        /\ UNCHANGED <<table, notifs, req, tx, used>>

\* ... which the channel manager is told of, as they were, one by one.
Loaded == /\ runner = "loading"
          /\ runner' = "up"
          /\ UNCHANGED <<table, notifs, channel, req, tx, used>>

\* Mutant: a job that has failed keeps its place in the channel.
NotifyKeepsFailed(j) ==
    CASE State(j) = "pending" -> queue' = queue \cup {j} /\ running' = running \ {j}
      [] State(j) \in {"enqueued", "started"} ->
             queue' = queue \ {j} /\ running' = running \cup {j}
      [] State(j) \in {"done", "cancelled", "deleted"} ->
             queue' = queue \ {j} /\ running' = running \ {j}
      [] OTHER -> UNCHANGED channel

\* ChannelManager.notify with a root channel only, and remove_job for a row
\* that is not found; a job that waits for its dependencies is left where it
\* is.
Notify(j) ==
    CASE State(j) = "pending" -> queue' = queue \cup {j} /\ running' = running \ {j}
      [] State(j) \in {"enqueued", "started"} ->
             queue' = queue \ {j} /\ running' = running \cup {j}
      [] State(j) \in {"done", "cancelled", "failed", "deleted"} ->
             queue' = queue \ {j} /\ running' = running \ {j}
      [] State(j) = "wait_dependencies" -> UNCHANGED channel

\* process_notifications reads the row of a notified job again.
ProcessNotification(j) == /\ runner = "up"
                          /\ j \in notifs
                          /\ notifs' = notifs \ {j}
                          /\ Notify(j)
                          /\ UNCHANGED <<table, runner, req, tx, used>>

\* run_jobs takes a job while there is capacity: set_job_enqueued writes the
\* row whatever its state, and a thread is started for the request.
RunJob(j, q) ==
    /\ runner = "up"
    /\ j \in queue
    /\ Cardinality(running) < Capacity
    /\ req[q].phase = "free"
    /\ queue' = queue \ {j} /\ running' = running \cup {j}
    /\ Commit(IF Exists(j) THEN SetState(j, "enqueued") ELSE row,
              IF Exists(j) THEN {j} ELSE {},
              [req EXCEPT ![q] = [FreeReq EXCEPT !.phase = "sending", !.job = j,
                                                 !.client = TRUE]], tx)
    /\ UNCHANGED <<runner, used>>

\* set_job_pending, in the thread of the request, of a job still enqueued.
ResetIfEnqueued(j) == IF State(j) = "enqueued" THEN SetState(j, "pending") ELSE row
ResetRows(j) == IF State(j) = "enqueued" THEN {j} ELSE {}

\* The request gets no answer within a second, wherever it is.
ClientTimeout(q) ==
    /\ req[q].phase # "free" /\ req[q].client
    /\ used.timeouts < MaxTimeouts
    /\ used' = [used EXCEPT !.timeouts = @ + 1]
    /\ Commit(ResetIfEnqueued(req[q].job), ResetRows(req[q].job),
              [req EXCEPT ![q].client = FALSE], tx)
    /\ UNCHANGED <<runner, channel>>

\* The server cannot be reached.
ConnectionRefused(q) ==
    /\ req[q].phase = "sending" /\ req[q].client
    /\ used.timeouts < MaxTimeouts
    /\ used' = [used EXCEPT !.timeouts = @ + 1]
    /\ Commit(ResetIfEnqueued(req[q].job), ResetRows(req[q].job),
              [req EXCEPT ![q] = FreeReq], tx)
    /\ UNCHANGED <<runner, channel>>

\* An exception in the loop of the runner: it closes its connection, drops
\* every job and starts again.  The threads of the requests live on.
RunnerError == /\ runner # "down"
               /\ used.runner < MaxRunnerStops
               /\ used' = [used EXCEPT !.runner = @ + 1]
               /\ runner' = "down"
               /\ notifs' = {} /\ queue' = {} /\ running' = {}
               /\ UNCHANGED <<table, req, tx>>

\* The process of the runner dies, with the daemon threads of the requests:
\* some of these have not reached the server.
RunnerCrash ==
    /\ runner # "down"
    /\ used.runner < MaxRunnerStops
    /\ used' = [used EXCEPT !.runner = @ + 1]
    /\ runner' = "down"
    /\ notifs' = {} /\ queue' = {} /\ running' = {}
    /\ req' = [q \in Requests |-> IF req[q].phase = "sending" THEN FreeReq
                                  ELSE [req[q] EXCEPT !.client = FALSE]]
    /\ UNCHANGED <<table, tx>>
-----------------------------------------------------------------------------
(***************************************************************************)
(* The workers: runjob and what it calls.                                  *)
(***************************************************************************)

\* The request comes to a worker, at once or after waiting for one.
ReachServer(q) == /\ req[q].phase = "sending"
                  /\ req' = [req EXCEPT ![q].phase = "accepted"]
                  /\ UNCHANGED <<table, notifs, runner, channel, tx, used>>

\* Mutant: the job is started without looking at its state.
StartAny(q) ==
    LET j == req[q].job IN
    /\ req[q].phase = "accepted"
    /\ Commit(SetState(j, "started"), {j},
              [req EXCEPT ![q].phase = "started", ![q].ready = ParentsDone(j),
                          ![q].retry = row[j].retry], tx)
    /\ UNCHANGED <<runner, channel, used>>

\* SELECT ... FOR UPDATE of an enqueued job, then set_started, store, commit.
\* store() reads the parents of the job, which stay in memory.
StartJob(q) ==
    LET j == req[q].job IN
    /\ req[q].phase = "accepted"
    /\ State(j) = "enqueued"
    /\ Commit(SetState(j, "started"), {j},
              [req EXCEPT ![q].phase = "started", ![q].ready = ParentsDone(j),
                          ![q].retry = row[j].retry], tx)
    /\ UNCHANGED <<runner, channel, used>>

\* "was requested to run job, but it ... is not in state enqueued".
RejectJob(q) == /\ req[q].phase = "accepted"
                /\ State(req[q].job) # "enqueued"
                /\ req' = [req EXCEPT ![q] = FreeReq]
                /\ UNCHANGED <<table, notifs, runner, channel, tx, used>>

\* The method of the job begins to read the database.
BeginPerform(q) == /\ req[q].phase = "started"
                   /\ req' = [req EXCEPT ![q].phase = "performing",
                                         ![q].stale = FALSE]
                   /\ UNCHANGED <<table, notifs, runner, channel, tx, used>>

\* store(), by an execution that perform has counted.
Store(q, state) == [row EXCEPT ![req[q].job] =
                        [state |-> state, retry |-> req[q].retry + 1]]

\* Mutant: a job with nothing to do returns before its children are enqueued.
FinishAndReturn(q) == /\ req[q].phase = "performing"
                      /\ ~req[q].stale
                      /\ Commit(Store(q, "done"), {req[q].job},
                                [req EXCEPT ![q] = FreeReq], tx)
                      /\ UNCHANGED <<runner, channel, used>>

\* perform returns, or raises NothingToDoJob: set_done, store, commit.
FinishJob(q) == /\ req[q].phase = "performing"
                /\ ~req[q].stale
                /\ Commit(Store(q, "done"), {req[q].job},
                          [req EXCEPT ![q].phase = "finished"], tx)
                /\ UNCHANGED <<runner, channel, used>>

\* NothingToDoJob in a transaction that cannot be serialized: the exception
\* escapes the handlers of runjob, and Odoo serves the request once more.
NothingToDoLost(q) == /\ req[q].phase = "performing"
                      /\ req[q].stale
                      /\ req' = [req EXCEPT ![q].phase = "accepted"]
                      /\ UNCHANGED <<table, notifs, runner, channel, tx, used>>

LastTry(q) == /\ MaxRetries[req[q].job] # 0
              /\ req[q].retry + 1 >= MaxRetries[req[q].job]

\* retry_postpone: RetryableJobError before the last try, or a transaction
\* that cannot be serialized, which the number of tries does not limit.  The
\* state is written over whatever it has become.
RetryJob(q) ==
    /\ req[q].phase = "performing"
    /\ ~LastTry(q) \/ req[q].stale
    /\ req[q].retry < MaxTries
    /\ Commit(Store(q, PendingOrWait(req[q].ready)), {req[q].job},
              [req EXCEPT ![q] = FreeReq], tx)
    /\ UNCHANGED <<runner, channel, used>>

\* RetryableJobError(ignore_retry=True): the try is not counted.
IgnoredRetry(q) ==
    LET j == req[q].job IN
    /\ req[q].phase = "performing"
    /\ j \in IgnoreRetry
    /\ Commit([row EXCEPT ![j] = [state |-> PendingOrWait(req[q].ready),
                                  retry |-> req[q].retry]], {j},
              [req EXCEPT ![q] = FreeReq], tx)
    /\ UNCHANGED <<runner, channel, used>>

\* Any other exception, or the last try: set_failed and store.
FailJob(q) == /\ req[q].phase = "performing"
              /\ Commit(Store(q, "failed"), {req[q].job},
                        [req EXCEPT ![q] = FreeReq], tx)
              /\ UNCHANGED <<runner, channel, used>>

\* Mutant: one parent that is done is enough.
AnyWoken(p, state) == {c \in Children(p) : state[c] = "wait_dependencies"}

\* enqueue_waiting: the children that wait, and whose parents are all done,
\* as the states given show.
Woken(p, state) == {c \in Children(p) : /\ state[c] = "wait_dependencies"
                                        /\ AllDone(Parents[c], state)}

WithPending(S, r) == [j \in Jobs |-> IF j \in S THEN [r[j] EXCEPT !.state = "pending"]
                                     ELSE r[j]]

\* enqueue_waiting reads the rows, in a transaction of its own, ...
BeginEnqueue(q) ==
    /\ req[q].phase = "finished"
    /\ req' = [req EXCEPT ![q].phase = "enqueueing", ![q].stale = FALSE,
                          ![q].woken = Woken(req[q].job, CurrentStates)]
    /\ UNCHANGED <<table, notifs, runner, channel, tx, used>>

\* ... and writes those of the children, if no other transaction has.
EnqueueDependents(q) ==
    LET woken == req[q].woken IN
    /\ req[q].phase = "enqueueing" /\ ~req[q].stale
    /\ Commit(WithPending(woken, row), woken, [req EXCEPT ![q] = FreeReq], tx)
    /\ UNCHANGED <<runner, channel, used>>

\* The loop of _enqueue_dependent_jobs tries again in the transaction that
\* has failed, which PostgreSQL refuses with an error the loop does not catch.
EnqueueFails(q) ==
    /\ req[q].phase = "enqueueing" /\ req[q].stale
    /\ req' = [req EXCEPT ![q] = FreeReq]
    /\ UNCHANGED <<table, notifs, runner, channel, tx, used>>

\* The worker is killed: its transaction is rolled back, and a client that
\* still waits gets an error.
WorkerCrash(q) ==
    LET j == req[q].job
        reset == req[q].client /\ State(j) = "enqueued" IN
    /\ req[q].phase \in {"accepted", "started", "performing", "finished",
                         "enqueueing"}
    /\ used.worker < MaxWorkerStops
    /\ used' = [used EXCEPT !.worker = @ + 1]
    /\ Commit(IF reset THEN SetState(j, "pending") ELSE row,
              IF reset THEN {j} ELSE {}, [req EXCEPT ![q] = FreeReq], tx)
    /\ UNCHANGED <<runner, channel>>
-----------------------------------------------------------------------------
(***************************************************************************)
(* The garbage collector and the users.                                    *)
(***************************************************************************)

\* requeue_stuck_jobs: a job enqueued for five minutes, so that no client
\* waits for it any more.
RequeueStuck(j) ==
    /\ State(j) = "enqueued"
    /\ \A q \in Requests : req[q].job = j => ~req[q].client
    /\ Commit([row EXCEPT ![j] = [state |-> PendingOrWait(ParentsDone(j)),
                                  retry |-> 0]], {j}, req, tx)
    /\ UNCHANGED <<runner, channel, used>>

\* autovacuum: a row done or cancelled for a month, which no request and no
\* open transaction still uses.  The trigger is silent for a row that was done.
Vacuum(j) ==
    /\ State(j) \in Vacuumed
    /\ \A q \in Requests : req[q].job # j
    /\ \A u \in Users : tx[u].job # j
    /\ row' = SetState(j, "deleted")
    /\ notifs' = IF Connected /\ State(j) # "done" THEN notifs \cup {j} ELSE notifs
    /\ UNCHANGED <<finished, runner, channel, req, tx, used>>

\* A button of the form or of a wizard is pressed for job j.
UserBegin(u, op, j) ==
    /\ tx[u].op = "none"
    /\ used.users < MaxUserOps
    /\ <<op, State(j)>> \in Allowed
    /\ used' = [used EXCEPT !.users = @ + 1]
    /\ tx' = [tx EXCEPT ![u] = [op |-> op, job |-> j, seen |-> CurrentStates,
                                changed |-> {}]]
    /\ UNCHANGED <<table, notifs, runner, channel, req>>

\* What the transaction of u reads once it has set its job to done.
SeenDone(u) == [tx[u].seen EXCEPT ![tx[u].job] = "done"]

UserWrites(u) ==
    {tx[u].job} \cup IF tx[u].op = "done" THEN Woken(tx[u].job, SeenDone(u)) ELSE {}

\* _change_job_state.
UserRows(u) ==
    LET j == tx[u].job IN
    CASE tx[u].op = "done" ->
           WithPending(Woken(j, SeenDone(u)), SetState(j, "done"))
      [] tx[u].op = "cancel" -> SetState(j, "cancelled")
      [] tx[u].op = "requeue" ->
           [row EXCEPT ![j] = [state |-> PendingOrWait(AllDone(Parents[j], tx[u].seen)),
                               retry |-> 0]]

UserCommit(u) ==
    /\ tx[u].op # "none"
    /\ UserWrites(u) \cap tx[u].changed = {}
    /\ Commit(UserRows(u), UserWrites(u), req, [tx EXCEPT ![u] = NoTx])
    /\ UNCHANGED <<runner, channel, used>>

\* Odoo runs the request again when its transaction cannot be serialized, and
\* the wizard looks again at the state of the job.
UserRetry(u) ==
    /\ tx[u].op # "none"
    /\ UserWrites(u) \cap tx[u].changed # {}
    /\ tx' = [tx EXCEPT ![u] = IF State(tx[u].job) \in Applicable(tx[u].op)
                               THEN [@ EXCEPT !.seen = CurrentStates, !.changed = {}]
                               ELSE NoTx]
    /\ UNCHANGED <<table, notifs, runner, channel, req, used>>
-----------------------------------------------------------------------------
Runner == \/ Listen \/ Load \/ Loaded
          \/ \E j \in Jobs : ProcessNotification(j)
          \/ \E j \in Jobs, q \in Requests : RunJob(j, q)
Worker(q) == \/ ReachServer(q) \/ StartJob(q) \/ RejectJob(q) \/ BeginPerform(q)
             \/ FinishJob(q) \/ NothingToDoLost(q) \/ RetryJob(q)
             \/ IgnoredRetry(q) \/ FailJob(q)
             \/ BeginEnqueue(q) \/ EnqueueDependents(q) \/ EnqueueFails(q)
User(u) == UserCommit(u) \/ UserRetry(u)
Cron == \E j \in Jobs : RequeueStuck(j) \/ Vacuum(j)
Trouble == \/ RunnerError \/ RunnerCrash
           \/ \E q \in Requests : ClientTimeout(q) \/ ConnectionRefused(q)
                                 \/ WorkerCrash(q)

Next == \/ Runner \/ Cron \/ Trouble
        \/ \E q \in Requests : Worker(q)
        \/ \E u \in Users : \/ User(u)
                            \/ \E op \in Operations, j \in Jobs : UserBegin(u, op, j)

Spec == Init /\ [][Next]_vars

\* The loops of the runner and of the crons never stop, a worker that serves
\* a request comes to its end, and so does a transaction of a user.
Fairness == /\ WF_vars(Listen) /\ WF_vars(Load) /\ WF_vars(Loaded)
            /\ WF_vars(\E j \in Jobs : ProcessNotification(j))
            /\ WF_vars(\E j \in Jobs, q \in Requests : RunJob(j, q))
            /\ WF_vars(\E j \in Jobs : RequeueStuck(j))
            /\ \A q \in Requests : WF_vars(Worker(q))
            /\ \A u \in Users : WF_vars(User(u))
FairSpec == Spec /\ Fairness
-----------------------------------------------------------------------------
(***************************************************************************)
(* Properties.                                                             *)
(***************************************************************************)

Executing == {q \in Requests : req[q].phase \in {"started", "performing"}}
Active == {j \in Jobs : State(j) \in {"enqueued", "started"}}

Tables == [Jobs -> [state : States, retry : Nat]]

Phases == {"free", "sending", "accepted", "started", "performing", "finished",
           "enqueueing"}
RequestRecord == [phase : Phases, job : Jobs \cup {NoJob}, client : BOOLEAN,
                  ready : BOOLEAN, stale : BOOLEAN, retry : Nat, woken : SUBSET Jobs]
TxRecord == [op : Operations \cup {"none"}, job : Jobs \cup {NoJob},
             seen : [Jobs -> States], changed : SUBSET Jobs]

\* A request is for a job as long as it is not free, and a transaction as long
\* as it is open.
RequestTables == {R \in [Requests -> RequestRecord] :
                      \A q \in Requests : R[q].job = NoJob <=> R[q].phase = "free"}
TxTables == {T \in [Users -> TxRecord] :
                 \A u \in Users : T[u].job = NoJob <=> T[u].op = "none"}

\* Every variable has its type: no try is counted below zero, and a request or
\* a transaction holds a job exactly as long as it is under way.
TypeOK == /\ row \in Tables
          /\ finished \subseteq Jobs /\ notifs \subseteq Jobs
          /\ queue \subseteq Jobs /\ running \subseteq Jobs
          /\ runner \in {"down", "listening", "loading", "up"}
          /\ req \in RequestTables
          /\ tx \in TxTables
          /\ used \in [users : Nat, runner : Nat, worker : Nat, timeouts : Nat]

\* What the runner keeps of a job in memory is what the row says, but for the
\* jobs whose notification waits to be processed: initialize_databases and
\* process_notifications miss no change of the table.
ViewIsFresh ==
    runner = "up" =>
        \A j \in Jobs \ notifs :
            /\ State(j) = "pending" => j \in queue /\ j \notin running
            /\ j \in Active => j \in running /\ j \notin queue
            /\ State(j) \in {"done", "cancelled", "failed", "deleted"} =>
                   j \notin queue /\ j \notin running

\* Whatever times out, crashes or is requeued, never more jobs are enqueued or
\* started, and so executed, than the capacity of the root channel.
CapacityHolds == Cardinality(Active) <= Capacity

\* A job is never executed by two requests at a time: the FOR UPDATE of runjob
\* stops the requests of a job asked for twice.
AtMostOneExecution ==
    \A q, r \in Executing : req[q].job = req[r].job => q = r

\* A job runs only after each of its parents has been done, at least once.
ParentsFirst == \A q \in Executing : Parents[req[q].job] \subseteq finished

\* The request r is going to wake c: a parent of c is done, and runjob has not
\* yet looked for its children, or has seen c.
WillWake(r, c) == /\ req[r].job \in Parents[c]
                  /\ \/ req[r].phase = "finished"
                     \/ /\ req[r].phase = "enqueueing" /\ ~req[r].stale
                        /\ c \in req[r].woken

\* A job that waits for parents that are all done is about to be woken: "the
\* dependency is resolved and the graph will continue to be processed".
NoOrphan == \A c \in Jobs :
    State(c) = "wait_dependencies" /\ ParentsDone(c)
        => \E r \in Requests : WillWake(r, c)

\* A job ends, done, failed or cancelled, unless one of its parents ends without
\* being done, or a worker was killed, of which nobody restarts the jobs.
JobsEnd ==
    \A j \in Jobs : <>(\/ State(j) \in {"done", "failed", "cancelled"}
                       \/ \E p \in Parents[j] : State(p) \in {"failed", "cancelled"}
                       \/ used.worker > 0)
=============================================================================
