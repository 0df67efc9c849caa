------------------------------ MODULE Channels ------------------------------
(***************************************************************************)
(* jobrunner/channels.py: the ChannelManager and its tree of Channels,     *)
(* with the loop of jobrunner/runner.py that drives it.  Jobs flow from    *)
(* their home channel down to the root: "from the point of view of a       *)
(* channel, 'running' means enqueued in the downstream channel", and only  *)
(* the jobs that run in the root are sent to Odoo.                         *)
(*                                                                         *)
(* The two PriorityQueues of a ChannelQueue are sets here, read in the     *)
(* order of their members: Channels_proofs shows that is what they are.    *)
(***************************************************************************)
EXTENDS Integers, FiniteSets, Sequences

CONSTANTS
    Jobs,
    Tree,          \* the channels
    Root,          \* the root channel
    Parent,        \* the channel downstream of each channel but the root
    Path,          \* a channel and all those downstream of it
    PostOrder,     \* the order in which get_jobs_to_run reaches the channels
    Capacity,      \* 0 when the capacity is unlimited
    Sequential,    \* the channels configured as sequential
    Throttle,      \* seconds between two jobs of a channel, or 0
    Shapes,        \* the scheduling properties the row of a job may show
    MaxTime        \* bound on the clock

\* Channels are created below an existing parent (get_channel_by_name), so
\* they form a tree: the paths to the root are chains of an order.  The
\* recursion of get_jobs_to_run ends with the root.
ASSUME TreeAssumption ==
    /\ Root \in Tree
    /\ Parent \in [Tree \ {Root} -> Tree]
    /\ Path \in [Tree -> SUBSET Tree]
    /\ Path[Root] = {Root}
    /\ \A c \in Tree \ {Root} : /\ Path[c] = {c} \cup Path[Parent[c]]
                                /\ c \notin Path[Parent[c]]
    /\ \A c \in Tree : c \in Path[c] /\ Root \in Path[c]
    /\ \A c \in Tree : \A d, e \in Path[c] : d \in Path[e] \/ e \in Path[d]
    /\ \A c, d \in Tree : c \in Path[d] /\ d \in Path[c] => c = d
    /\ \A c \in Tree : \A d \in Path[c] : Path[d] \subseteq Path[c]
    /\ PostOrder \in Seq(Tree) /\ Len(PostOrder) > 0
    /\ \A i \in 1..Len(PostOrder) : PostOrder[i] = Root <=> i = Len(PostOrder)

\* get_jobs_to_run exhausts the children of a channel before its own queue,
\* and reaches each channel once.
ASSUME PostOrderAssumption ==
    /\ \A c \in Tree : \E i \in 1..Len(PostOrder) : PostOrder[i] = c
    /\ \A i, j \in 1..Len(PostOrder) : PostOrder[i] = PostOrder[j] => i = j
    /\ \A i, j \in 1..Len(PostOrder) :
          PostOrder[i] # Root /\ PostOrder[j] = Parent[PostOrder[i]] => i < j

\* configure() refuses a sequential channel with a capacity other than 1.
ASSUME ConfigAssumption ==
    /\ Capacity \in [Tree -> Nat]
    /\ Throttle \in [Tree -> Nat]
    /\ Sequential \subseteq Tree
    /\ \A c \in Sequential : Capacity[c] = 1
    /\ MaxTime \in Nat

\* home: the channel of the job; rank: its place in the order (priority,
\* date_created, seq), shared by no other job since seq is the id of the row;
\* eta: 0 for None.
Shape == [home : Tree, rank : Nat, eta : Nat]

ASSUME ShapesAssumption ==
    /\ Shapes \in [Jobs -> SUBSET Shape]
    /\ IsFiniteSet(Jobs)
    /\ \A i, j \in Jobs : i # j =>
          \A s \in Shapes[i], t \in Shapes[j] : s.rank # t.rank

\* The WeakValueDictionary holds no ChannelJob for the uuid.
Gone == [home |-> Root, rank |-> 0, eta |-> -1]

VARIABLES
    job,         \* ChannelManager._jobs_by_uuid: the ChannelJob of each job
    ch,          \* the queue, etaQueue, running and failed sets of a Channel
    pauseUntil,  \* Channel._pause_until, 0 when not paused
    now,         \* the clock
    pc,          \* where the runner is: "load", "idle", "serve", "yielded", "wait"
    at,          \* the position in PostOrder of the channel being served
    alarm,       \* the wakeup time the runner sleeps until, 0 for none
    calm,        \* history: nothing was notified since the alarm was set
    early,       \* history: only the safety timeout can have begun this pass
    due,         \* history: the eta the row of each job showed last
    notBefore    \* history: when the throttle interval of a channel ends

history == <<calm, early, due, notBefore>>
vars == <<job, ch, pauseUntil, now, pc, at, alarm, history>>

Here == PostOrder[at]

\* ChannelJob.__lt__ among jobs without an eta, and among jobs with one.
RankLess(i, j) == job[i].rank < job[j].rank
EtaLess(i, j) == \/ job[i].eta < job[j].eta
                 \/ job[i].eta = job[j].eta /\ RankLess(i, j)

IsHead(j, S) == j \in S /\ \A i \in S \ {j} : RankLess(j, i)
IsEtaHead(j, S) == j \in S /\ \A i \in S \ {j} : EtaLess(j, i)
-----------------------------------------------------------------------------
(***************************************************************************)
(* The methods of Channel, on a function C from channels to their sets.    *)
(***************************************************************************)

Waiting(r) == r.queue \cup r.etaQueue

\* Mutant: a failed job does not block a sequential channel.
NeverBlocked(c) == \/ Capacity[c] = 0
                   \/ Cardinality(ch[c].running) < Capacity[c]

\* Mutant: one job too many fits.
CapacityPlusOne(c) == /\ ~(c \in Sequential /\ ch[c].failed # {})
                      /\ \/ Capacity[c] = 0
                         \/ Cardinality(ch[c].running) <= Capacity[c]

HasCapacity(c) == /\ ~(c \in Sequential /\ ch[c].failed # {})
                  /\ \/ Capacity[c] = 0
                     \/ Cardinality(ch[c].running) < Capacity[c]

Cleared(r, j) == [queue |-> r.queue \ {j}, etaQueue |-> r.etaQueue \ {j},
                  running |-> r.running \ {j}, failed |-> r.failed \ {j}]

\* Mutant: a channel forgets the job and its parent does not.
RemoveHere(C, j, h) == [C EXCEPT ![h] = Cleared(@, j)]

\* Channel.remove recurses to the root.
Remove(C, j, h) == [c \in Tree |-> IF c \in Path[h] THEN Cleared(C[c], j) ELSE C[c]]

\* ChannelQueue.add sets a job with an eta aside.
Enqueue(r, j, eta) == IF eta = 0 THEN [r EXCEPT !.queue = @ \cup {j}]
                                 ELSE [r EXCEPT !.etaQueue = @ \cup {j}]

SetPending(C, j, s) ==
    IF j \in Waiting(C[s.home]) THEN C
    ELSE [Remove(C, j, s.home) EXCEPT ![s.home] = Enqueue(@, j, s.eta)]

\* Recurses downstream until a channel where the job runs already.
SetRunning(C, j, h) ==
    LET reached == {c \in Path[h] : \A d \in Path[h] : 
                                      c \in Path[d] => j \notin C[d].running}
    IN  [c \in Tree |-> IF c \in reached
                          THEN [Cleared(C[c], j) EXCEPT !.running = @ \cup {j}]
                          ELSE C[c]]

SetFailed(C, j, h) ==
    IF j \in C[h].failed THEN C
    ELSE [Remove(C, j, h) EXCEPT ![h].failed = @ \cup {j}]
-----------------------------------------------------------------------------
(***************************************************************************)
(* ChannelManager.notify, remove_job and remove_db.                        *)
(***************************************************************************)

\* The states of a row as notify groups them: "done" is also cancelled,
\* "running" is enqueued or started.
States == {"wait", "pending", "running", "failed", "done"}

\* A ChannelJob with other properties is removed and a new one made.
Changed(j, s) == job[j] # Gone /\ job[j] # s

\* Mutant: a job whose row changed keeps its old object in the channels.
KeepChanged(j, s) == ch

Refreshed(j, s) == IF Changed(j, s) THEN Remove(ch, j, job[j].home) ELSE ch

\* Nothing holds the ChannelJob of a job that is in no set: it is collected.
Notify(j, s, st) ==
    LET C == Refreshed(j, s)
    IN  /\ ch' = CASE st = "done" -> Remove(C, j, s.home)
                   [] st = "pending" -> SetPending(C, j, s)
                   [] st = "running" -> SetRunning(C, j, s.home)
                   [] st = "failed" -> SetFailed(C, j, s.home)
                   [] st = "wait" -> C
        /\ job' = [job EXCEPT ![j] = IF \/ st = "done"
                                        \/ st = "wait" /\ @ # s
                                       THEN Gone ELSE s]
        /\ due' = [due EXCEPT ![j] = s.eta]

Forget(j) == /\ ch' = IF job[j] = Gone THEN ch ELSE Remove(ch, j, job[j].home)
             /\ job' = [job EXCEPT ![j] = Gone]

Empty == [queue |-> {}, etaQueue |-> {}, running |-> {}, failed |-> {}]

RemoveDb == /\ ch' = [c \in Tree |-> Empty]
            /\ job' = [j \in Jobs |-> Gone]
-----------------------------------------------------------------------------
(***************************************************************************)
(* The runner: load, process_notifications, run_jobs, wait_notification.   *)
(***************************************************************************)

Init == /\ job = [j \in Jobs |-> Gone]
        /\ ch = [c \in Tree |-> Empty]
        /\ pauseUntil = [c \in Tree |-> 0]
        /\ now = 1
        /\ pc = "load" /\ at = 0 /\ alarm = 0
        /\ calm = FALSE /\ early = FALSE
        /\ due = [j \in Jobs |-> 0]
        /\ notBefore = [c \in Tree |-> 0]

\* initialize_databases reads each row that is not done.
LoadRow(j, s, st) == /\ pc = "load"
                     /\ job[j] = Gone
                     /\ st # "done"
                     /\ Notify(j, s, st)
                     /\ UNCHANGED <<pauseUntil, now, pc, at, alarm,
                                    calm, early, notBefore>>

EndLoad == /\ pc = "load"
           /\ pc' = "idle"
           /\ UNCHANGED <<job, ch, pauseUntil, now, at, alarm, history>>

\* Once the rows are loaded, a job is enqueued only by the runner's own
\* set_job_enqueued, and started only from there: a row that is notified as
\* running is one that runs in the root.
NotifyRow(j, s, st) == /\ pc = "idle"
                       /\ st = "running" => j \in ch[Root].running
                       /\ Notify(j, s, st)
                       /\ calm' = FALSE
                       /\ UNCHANGED <<pauseUntil, now, pc, at, alarm, early,
                                      notBefore>>

\* The notified row no longer exists.
RowDeleted(j) == /\ pc = "idle"
                 /\ Forget(j)
                 /\ calm' = FALSE
                 /\ UNCHANGED <<pauseUntil, now, pc, at, alarm, early, due,
                                notBefore>>

Tick == /\ pc = "idle"
        /\ now < MaxTime
        /\ now' = now + 1
        /\ UNCHANGED <<job, ch, pauseUntil, pc, at, alarm, history>>

\* run_jobs: on a notification, at the wakeup time, or at the timeout that
\* wait_notification has "just to be safe".
BeginPass == /\ pc = "idle"
             /\ pc' = "serve" /\ at' = 1
             /\ early' = (calm /\ (alarm = 0 \/ now < alarm))
             /\ UNCHANGED <<job, ch, pauseUntil, now, alarm, calm, due, notBefore>>

\* The generator of a channel is exhausted: its parent's loop goes on, and
\* after the root's run_jobs returns.
NextChannel == IF at < Len(PostOrder) THEN at' = at + 1 /\ pc' = "serve"
                                      ELSE at' = 0 /\ pc' = "wait"

Paused(c) == pauseUntil[c] # 0 /\ now < pauseUntil[c]

SkipPaused == /\ pc = "serve"
              /\ Paused(Here)
              /\ NextChannel
              /\ UNCHANGED <<job, ch, pauseUntil, now, alarm, history>>

\* ChannelQueue.pop first lets the jobs whose eta is past compete.
Ripe(c) == {j \in ch[c].etaQueue : job[j].eta <= now}
Ready(c) == ch[c].queue \cup Ripe(c)
Aside(c) == ch[c].etaQueue \ Ripe(c)

\* Mutant: a sequential queue does not wait for an eta.
NeverWaits(c) == FALSE

WaitsForEta(c) == /\ c \in Sequential
                  /\ \E i \in Aside(c), j \in Ready(c) :
                        /\ IsEtaHead(i, Aside(c)) /\ IsHead(j, Ready(c))
                        /\ RankLess(i, j)

Ripen(c) == job' = [j \in Jobs |-> IF j \in Ripe(c) THEN [job[j] EXCEPT !.eta = 0]
                                                    ELSE job[j]]

\* The channel is full, has nothing to run, or waits for an eta.
Exhausted(c) == \/ ~HasCapacity(c) /\ UNCHANGED <<job, ch>>
                \/ /\ HasCapacity(c)
                   /\ Ready(c) = {} \/ WaitsForEta(c)
                   /\ Ripen(c)
                   /\ ch' = [ch EXCEPT ![c].queue = Ready(c), ![c].etaQueue = Aside(c)]

EndChannel == /\ pc = "serve"
              /\ ~Paused(Here)
              /\ Exhausted(Here)
              /\ pauseUntil' = [pauseUntil EXCEPT ![Here] = 0]
              /\ NextChannel
              /\ UNCHANGED <<now, alarm, history>>

\* Job j is popped and marked running in channel c.
Pops(c, j) == /\ ~Paused(c)
              /\ HasCapacity(c)
              /\ ~WaitsForEta(c)
              /\ IsHead(j, Ready(c))
              /\ Ripen(c)

Popped(c, j) == [ch[c] EXCEPT !.queue = Ready(c) \ {j}, !.etaQueue = Aside(c),
                              !.running = @ \cup {j}]

\* Mutant: the pause is computed without the throttle.
PauseUntilNow(c) ==
    IF Throttle[c] # 0
      THEN /\ pauseUntil' = [pauseUntil EXCEPT ![c] = now]
           /\ notBefore' = [notBefore EXCEPT ![c] = now + Throttle[c]]
           /\ NextChannel
      ELSE /\ pc' = "serve"
           /\ UNCHANGED <<pauseUntil, notBefore, at>>

\* After a job, a channel with a throttle pauses and yields no more.
PauseAfterJob(c) ==
    IF Throttle[c] # 0
      THEN /\ pauseUntil' = [pauseUntil EXCEPT ![c] = now + Throttle[c]]
           /\ notBefore' = [notBefore EXCEPT ![c] = now + Throttle[c]]
           /\ NextChannel
      ELSE /\ pc' = "serve"
           /\ UNCHANGED <<pauseUntil, notBefore, at>>

\* A job goes from a channel to the queue of its parent.
Promote(j) == /\ pc = "serve"
              /\ Here # Root
              /\ Pops(Here, j)
              /\ ch' = [ch EXCEPT ![Here] = Popped(Here, j),
                                 ![Parent[Here]].queue = @ \cup {j}]
              /\ PauseAfterJob(Here)
              /\ UNCHANGED <<now, alarm, calm, early, due>>

\* A job leaves the root: run_jobs gets it.
Yield(j) == /\ pc = "serve"
            /\ Here = Root
            /\ Pops(Root, j)
            /\ ch' = [ch EXCEPT ![Root] = Popped(Root, j)]
            /\ pauseUntil' = [pauseUntil EXCEPT ![Root] = 0]
            /\ pc' = "yielded"
            /\ UNCHANGED <<now, at, alarm, history>>

\* run_jobs has sent the job to Odoo and asks for the next one.
Resume == /\ pc = "yielded"
          /\ PauseAfterJob(Root)
          /\ UNCHANGED <<job, ch, now, alarm, calm, early, due>>

\* A database error, in process_notifications or in set_job_enqueued: the
\* generator is abandoned, every job removed and the databases read again.
Recover == /\ pc \in {"idle", "yielded"}
           /\ RemoveDb
           /\ pc' = "load" /\ at' = 0 /\ calm' = FALSE
           /\ UNCHANGED <<pauseUntil, now, alarm, early, due, notBefore>>

\* get_wakeup_time: a channel that is full hides itself and its children, one
\* that is paused hides its children.
Asks(c) == /\ \A d \in Path[c] : HasCapacity(d)
           /\ \A d \in Path[c] \ {c} : pauseUntil[d] = 0

WakeupTimes(c) == IF pauseUntil[c] # 0 THEN {pauseUntil[c]}
                  ELSE {job[j].eta : j \in ch[c].etaQueue}

\* Mutant: a paused channel asks for no wakeup at the end of its pause.
EtaTimes == UNION {{job[j].eta : j \in ch[c].etaQueue} :
                       c \in {d \in Tree : Asks(d) /\ pauseUntil[d] = 0}}

AllTimes == UNION {WakeupTimes(c) : c \in {d \in Tree : Asks(d)}}

WaitNotification == /\ pc = "wait"
                    /\ \/ AllTimes = {} /\ alarm' = 0
                       \/ \E t \in AllTimes : /\ \A u \in AllTimes : t <= u
                                              /\ alarm' = t
                    /\ pc' = "idle" /\ calm' = TRUE
                    /\ UNCHANGED <<job, ch, pauseUntil, now, at, early, due, notBefore>>

Next == \/ \E j \in Jobs : \/ \E s \in Shapes[j], st \in States :
                                 LoadRow(j, s, st) \/ NotifyRow(j, s, st)
                           \/ RowDeleted(j)
                           \/ Promote(j)
                           \/ Yield(j)
        \/ EndLoad \/ Tick \/ BeginPass \/ SkipPaused \/ EndChannel
        \/ Resume \/ Recover \/ WaitNotification

Spec == Init /\ [][Next]_vars
-----------------------------------------------------------------------------
(***************************************************************************)
(* Properties.                                                             *)
(***************************************************************************)

Sets == [queue : SUBSET Jobs, etaQueue : SUBSET Jobs,
         running : SUBSET Jobs, failed : SUBSET Jobs]

\* Every variable keeps its type.
TypeOK ==
    /\ job \in [Jobs -> Shape \cup {Gone}]
    /\ ch \in [Tree -> Sets]
    /\ pauseUntil \in [Tree -> Nat]
    /\ now \in Nat
    /\ pc \in {"load", "idle", "serve", "yielded", "wait"}
    /\ at \in 0..Len(PostOrder)
    /\ pc \in {"serve", "yielded"} => at # 0
    /\ alarm \in Nat
    /\ calm \in BOOLEAN /\ early \in BOOLEAN
    /\ due \in [Jobs -> Nat]
    /\ notBefore \in [Tree -> Nat]

\* Where a job can be: nowhere, failed in its home channel, running in every
\* channel of its path, or waiting in one of them and running in those that
\* are upstream of it.
Nowhere(C, j) == \A c \in Tree : /\ j \notin Waiting(C[c])
                                 /\ j \notin C[c].running
                                 /\ j \notin C[c].failed

FailedAt(C, j, h) == \A c \in Tree : /\ j \notin Waiting(C[c])
                                     /\ j \notin C[c].running
                                     /\ j \in C[c].failed <=> c = h

RunsIn(C, j, h) == \A c \in Tree : /\ j \notin Waiting(C[c])
                                   /\ j \in C[c].running <=> c \in Path[h]
                                   /\ j \notin C[c].failed

WaitsIn(C, j, h, w) == \A c \in Tree :
    /\ j \in Waiting(C[c]) <=> c = w
    /\ ~(j \in C[c].queue /\ j \in C[c].etaQueue)
    /\ j \in C[c].running <=> c \in Path[h] /\ w \in Path[c] \ {c}
    /\ j \notin C[c].failed

Placed(C, j, s) == IF s = Gone THEN Nowhere(C, j)
                   ELSE \/ FailedAt(C, j, s.home)
                        \/ RunsIn(C, j, s.home)
                        \/ \E w \in Path[s.home] : WaitsIn(C, j, s.home, w)

\* "Running means enqueued in the downstream channel": a job that a channel
\* counts as running waits in exactly one channel downstream, or was sent to
\* Odoo; no sequence of notifications, promotions and retries leaves a job
\* in two places, half removed, or counted by a channel that it has left.
FlowIsConsistent == \A j \in Jobs : Placed(ch, j, job[j])

Takes(c, j) == /\ pc = "serve" /\ j \in ch'[c].running /\ j \notin ch[c].running

\* No channel takes a job before the eta its row showed last, although the
\* eta of its object is cleared on the way ("Execute only after").
EtaRespected == [][\A c \in Tree, j \in Jobs : Takes(c, j) => due[j] <= now]_vars

\* A channel "yields no job until at least throttle seconds have elapsed since
\* the previous yield", whatever was notified or recovered in between.
ThrottleRespected ==
    [][\A c \in Tree, j \in Jobs : Takes(c, j) => notBefore[c] <= now]_vars

\* "This could very well be no timeout at all": a pass that no notification
\* and no wakeup time asked for finds no job to send.
SafetyTimeoutFindsNothing ==
    [][early => \A j \in Jobs : ~Takes(Root, j)]_vars

\* When a job is sent to Odoo, the jobs being run fit the capacity of every
\* channel on its path, counted over all its subchannels.
RunningBelow(c, C) == {j \in C[Root].running : c \in Path[job[j].home]}

StartsFit ==
    [][\A j \in Jobs : Takes(Root, j) =>
          \A c \in Path[job[j].home] :
              \/ Capacity[c] = 0
              \/ Cardinality(RunningBelow(c, ch')) <= Capacity[c]]_vars

\* A sequential channel takes a job when none of its jobs runs or has failed, and
\* takes its jobs in the order of priority, date and sequence, waiting for the
\* eta of the first: "since it's a sequential queue we wait until eta".  It waits
\* for the first eta only: a job set aside is overtaken just when one of a
\* later rank is set aside with an earlier eta.
SequentialOrder ==
    [][\A c \in Sequential, j \in Jobs :
          Takes(c, j) => /\ ch[c].running = {} /\ ch[c].failed = {}
                         /\ \A i \in Waiting(ch[c]) \ {j} :
                               \/ RankLess(j, i)
                               \/ \E k \in Aside(c) : EtaLess(k, i) /\ RankLess(j, k)]_vars
=============================================================================
