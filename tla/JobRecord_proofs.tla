--------------------------- MODULE JobRecord_proofs ---------------------------
(***************************************************************************)
(* Proofs about JobRecord, for any retry patterns, delays and bounds: the    *)
(* dates of a row are those of its state, the autovacuum deletes nothing     *)
(* that waits, max_retries limits the tries that a method asks for, and no  *)
(* try comes before the time that the last one was put off until.           *)
(*                                                                         *)
(* The search of a pattern is a fold.  What it finds is proved by an        *)
(* induction over the subsets of a finite set: see SubsetInduction.         *)
(***************************************************************************)
EXTENDS JobRecord, FiniteSetTheorems, WellFoundedInduction, TLAPS

Fields == {"state", "retry", "eta", "enqueued", "started", "done", "cancelled", "excName", "excInfo"}

IsJob(job) ==
    /\ DOMAIN job = Fields
    /\ job.state \in States /\ job.retry \in Nat
    /\ {job.enqueued, job.started, job.done, job.cancelled} \subseteq Nat \cup {None}

\* DatesAgree, of any job, and what it takes to keep it: a job that waits or is
\* executed was not cancelled, and none was enqueued in the future.
Agrees(job) ==
    /\ job.state = "pending" =>
            job.enqueued = None /\ job.started = None /\ job.done = None /\ job.cancelled = None
    /\ job.state = "enqueued" =>
            /\ job.enqueued # None /\ job.enqueued <= now /\ job.started = None
            /\ job.done = None /\ job.cancelled = None
    /\ job.state = "started" =>
            /\ job.enqueued # None /\ job.started # None /\ job.enqueued <= job.started
            /\ job.done = None /\ job.cancelled = None
    /\ job.state = "done" => job.done # None /\ ~job.excInfo
    /\ job.state = "cancelled" => job.cancelled # None
    /\ job.state = "failed" => job.excName /\ job.excInfo
    /\ job.excName \in BOOLEAN /\ job.excInfo \in BOOLEAN /\ (job.excName => job.excInfo)

\* The errors that asked for another try are among the tries that are counted, in
\* the row and in the execution, which goes on when the row is set to pending anew.
Counts ==
    /\ raised \in Nat
    /\ row.state # "deleted" => raised <= row.retry
    /\ exec.busy => raised <= exec.job.retry

Inv ==
    /\ now \in Nat
    /\ IsJob(row) /\ Agrees(row)
    /\ exec.busy \in BOOLEAN
    /\ exec.busy => IsJob(exec.job) /\ exec.job.state = "started" /\ Agrees(exec.job)
    /\ row.state = "deleted" => ~exec.busy
    /\ Counts
    /\ TriesAreLimited

USE DEF IsJob, Agrees, Counts, Fields, States, TriesAreLimited

LEMMA InitInv == Init => Inv
  BY RecordAssumption DEF Init, Inv, NewJob, NoExec

\* What the methods of Job do to the fields of a job.
LEMMA SetPendingFields ==
  ASSUME NEW job, DOMAIN job = Fields, job.retry \in Nat, NEW reset \in BOOLEAN,
         job.excName \in BOOLEAN, job.excInfo \in BOOLEAN, job.excName => job.excInfo
  PROVE  /\ IsJob(SetPending(job, reset)) /\ Agrees(SetPending(job, reset))
         /\ SetPending(job, reset).state = "pending"
         /\ SetPending(job, reset).retry = IF reset THEN 0 ELSE job.retry
<1> DEFINE new == SetPending(job, reset)
<1>1. /\ DOMAIN new = Fields /\ new.state = "pending" /\ new.retry = IF reset THEN 0 ELSE job.retry
      /\ new.enqueued = None /\ new.started = None /\ new.done = None /\ new.cancelled = None
      /\ new.excName = job.excName /\ new.excInfo = job.excInfo
  BY DEF SetPending
<1> HIDE DEF new
<1> QED BY <1>1 DEF new

LEMMA PostponeFields ==
  ASSUME NEW job, DOMAIN job = Fields, NEW seconds
  PROVE  /\ DOMAIN Postpone(job, seconds) = Fields /\ Postpone(job, seconds).retry = job.retry
         /\ Postpone(job, seconds).excName = FALSE /\ Postpone(job, seconds).excInfo = FALSE
  BY DEF Postpone

LEMMA LoadFields ==
  ASSUME NEW job, IsJob(job), job.excInfo \in BOOLEAN
  PROVE  LET new == Load(job)
         IN /\ IsJob(new) /\ new.state = job.state /\ new.retry = job.retry
            /\ new.enqueued = job.enqueued /\ new.started = job.started
            /\ new.done = job.done /\ new.cancelled = job.cancelled
            /\ new.excName = FALSE /\ new.excInfo = job.excInfo
  BY DEF Load

\* The try is counted.
LEMMA CountedFields ==
  ASSUME NEW job, IsJob(job)
  PROVE  IsJob(Counted(job)) /\ Counted(job).retry = job.retry + 1
<1>1. Counted(job) = [job EXCEPT !.retry = job.retry + 1]
  BY DEF Counted
<1>2. job.retry + 1 \in Nat
  OBVIOUS
<1> QED BY <1>1, <1>2

\* A job that ends: done, failed or cancelled.
LEMMA DoneFields ==
  ASSUME NEW job, IsJob(job), now \in Nat
  PROVE  /\ IsJob(SetDone(job)) /\ Agrees(SetDone(job))
         /\ SetDone(job).state = "done" /\ SetDone(job).retry = job.retry
<1> DEFINE new == SetDone(job)
<1>1. /\ DOMAIN new = Fields /\ new.state = "done" /\ new.retry = job.retry
      /\ new.enqueued = job.enqueued /\ new.started = job.started
      /\ new.done = now /\ new.cancelled = job.cancelled
      /\ new.excName = FALSE /\ new.excInfo = FALSE
  BY DEF SetDone
<1> HIDE DEF new
<1>2. now # None
  BY RecordAssumption
<1>3. IsJob(new)
  BY <1>1
<1>4. Agrees(new)
  BY <1>1, <1>2
<1> QED BY <1>1, <1>3, <1>4 DEF new

LEMMA FailedFields ==
  ASSUME NEW job, IsJob(job)
  PROVE  /\ IsJob(SetFailed(job)) /\ Agrees(SetFailed(job))
         /\ SetFailed(job).state = "failed" /\ SetFailed(job).retry = job.retry
<1> DEFINE new == SetFailed(job)
<1>1. /\ DOMAIN new = Fields /\ new.state = "failed" /\ new.retry = job.retry
      /\ new.enqueued = job.enqueued /\ new.started = job.started
      /\ new.done = job.done /\ new.cancelled = job.cancelled
      /\ new.excName = TRUE /\ new.excInfo = TRUE
  BY DEF SetFailed
<1> HIDE DEF new
<1> QED BY <1>1 DEF new

LEMMA CancelledFields ==
  ASSUME NEW job, IsJob(job), now \in Nat, job.excName = FALSE, job.excInfo \in BOOLEAN
  PROVE  /\ IsJob(SetCancelled(job)) /\ Agrees(SetCancelled(job))
         /\ SetCancelled(job).state = "cancelled" /\ SetCancelled(job).retry = job.retry
<1> DEFINE new == SetCancelled(job)
<1>1. /\ DOMAIN new = Fields /\ new.state = "cancelled" /\ new.retry = job.retry
      /\ new.enqueued = job.enqueued /\ new.started = job.started
      /\ new.done = job.done /\ new.cancelled = now
      /\ new.excName = FALSE /\ new.excInfo \in BOOLEAN
  BY DEF SetCancelled
<1> HIDE DEF new
<1>2. now # None
  BY RecordAssumption
<1>3. IsJob(new)
  BY <1>1
<1>4. Agrees(new)
  BY <1>1, <1>2
<1> QED BY <1>1, <1>3, <1>4 DEF new

-----------------------------------------------------------------------------
(* The steps. *)

\* An execution comes to its end with a row that agrees with itself.
LEMMA StoreKeepsInv ==
  ASSUME Inv, NEW job, Store(job), IsJob(job), Agrees(job), job.state # "deleted",
         raised' \in Nat, raised' <= job.retry, now' = now,
         MaxRetries # 0 => raised' < MaxRetries
  PROVE  Inv'
  BY DEF Inv, Store, NoExec

\* The job is put off; the tries that its method asked for are fewer than the
\* maximum.
LEMMA RetryPostponeKeepsInv ==
  ASSUME Inv, NEW job, IsJob(job), NEW seconds, NEW documented,
         RetryPostpone(job, seconds, documented), now' = now,
         raised' \in Nat, raised' <= job.retry, MaxRetries # 0 => raised' < MaxRetries
  PROVE  Inv'
<1>1. PICK s \in RetrySeconds(job, exec.pattern, seconds) : Store(SetPending(Postpone(job, s), FALSE))
  BY DEF RetryPostpone
<1> DEFINE later == Postpone(job, s)
           new == SetPending(later, FALSE)
<1>2. DOMAIN later = Fields /\ later.retry = job.retry /\ later.excName = FALSE /\ later.excInfo = FALSE
  BY PostponeFields
<1> HIDE DEF later
<1>3. IsJob(new) /\ Agrees(new) /\ new.state = "pending" /\ new.retry = job.retry
  BY <1>2, SetPendingFields
<1> HIDE DEF new
<1> QED BY <1>1, <1>3, StoreKeepsInv DEF new, later

\* A user or a cron changes the row and leaves the execution alone.
LEMMA ChangeKeepsInv ==
  ASSUME Inv, NEW job, Change(job), IsJob(job), Agrees(job),
         job.state = "deleted" => ~exec.busy,
         \/ raised' = 0
         \/ raised' = raised /\ (job.state # "deleted" => raised <= job.retry)
  PROVE  Inv'
<1>1. row' = job /\ UNCHANGED <<exec, pattern, now, asked>>
  BY DEF Change
<1>2. Counts' /\ TriesAreLimited'
  BY <1>1, RecordAssumption DEF Inv
<1> QED BY <1>1, <1>2 DEF Inv

\* What makes a job ready to be executed or takes it back.
LEMMA RunnerKeepsInv ==
  ASSUME Inv, Enqueue \/ SetJobPending \/ StartJob
  PROVE  Inv'
<1>1. CASE Enqueue
  BY <1>1, RecordAssumption DEF Enqueue, Keep, Inv
<1>2. CASE SetJobPending
  BY <1>2 DEF SetJobPending, Keep, Inv
<1>3. CASE StartJob
  <2>1. /\ row' = SetStarted(Load(row)) /\ row.state = "enqueued" /\ UNCHANGED <<now, raised>>
        /\ exec' = [job |-> row', pattern |-> pattern, busy |-> TRUE]
    BY <1>3 DEF StartJob, Keep
  <2>2. IsJob(row') /\ Agrees(row') /\ row'.state = "started" /\ row'.retry = row.retry
    BY <2>1, RecordAssumption DEF SetStarted, Load, Inv
  <2>3. exec'.job = row' /\ exec'.busy = TRUE
    BY <2>1
  <2> QED BY <2>1, <2>2, <2>3 DEF Inv
<1> QED BY <1>1, <1>2, <1>3

\* What comes of an execution.
LEMMA ExecutionKeepsInv ==
  ASSUME Inv,
         \/ Finish \/ FlushFails \/ Fail \/ Conflict
         \/ \E s \in ErrorSeconds : Retry(s) \/ IgnoredRetry(s)
  PROVE  Inv'
<1>1. exec.busy
  BY DEF Finish, FlushFails, Fail, Conflict, Retry, IgnoredRetry, RetryPostpone, Store
<1>2. /\ IsJob(exec.job) /\ now \in Nat /\ raised \in Nat /\ raised <= exec.job.retry
      /\ MaxRetries \in Nat /\ (MaxRetries # 0 => raised < MaxRetries)
  BY <1>1, RecordAssumption DEF Inv
<1> DEFINE job == Counted(exec.job)
<1>3. IsJob(job) /\ job.retry = exec.job.retry + 1 /\ raised <= job.retry
  BY <1>2, CountedFields
<1> HIDE DEF job
<1>4. CASE Finish
  <2>1. IsJob(SetDone(job)) /\ Agrees(SetDone(job)) /\ SetDone(job).state = "done" /\ SetDone(job).retry = job.retry
    BY <1>2, <1>3, DoneFields
  <2>2. Store(SetDone(job)) /\ UNCHANGED <<now, raised>>
    BY <1>4 DEF Finish, Keep, job
  <2> QED BY <1>2, <1>3, <2>1, <2>2, StoreKeepsInv
<1>5. CASE FlushFails
  <2> DEFINE done == SetDone(job)
  <2>1. IsJob(done) /\ done.retry = job.retry
    BY <1>2, <1>3, DoneFields
  <2>2. Store(SetFailed(done)) /\ UNCHANGED <<now, raised>>
    BY <1>5 DEF FlushFails, Keep, job
  <2> HIDE DEF done
  <2>3. IsJob(SetFailed(done)) /\ Agrees(SetFailed(done)) /\ SetFailed(done).state = "failed"
        /\ SetFailed(done).retry = job.retry
    BY <1>2, <2>1, FailedFields
  <2> QED BY <1>2, <1>3, <2>2, <2>3, StoreKeepsInv
<1>6. CASE Fail
  <2>1. IsJob(SetFailed(job)) /\ Agrees(SetFailed(job)) /\ SetFailed(job).state = "failed"
        /\ SetFailed(job).retry = job.retry
    BY <1>2, <1>3, FailedFields
  <2>2. Store(SetFailed(job)) /\ UNCHANGED <<now, raised>>
    BY <1>6 DEF Fail, Keep, job
  <2> QED BY <1>2, <1>3, <2>1, <2>2, StoreKeepsInv
<1>7. CASE Conflict
  <2>1. RetryPostpone(job, PgRetry, PgRetry) /\ UNCHANGED <<now, raised>>
    BY <1>7 DEF Conflict, job
  <2> QED BY <1>2, <1>3, <2>1, RetryPostponeKeepsInv
<1>8. ASSUME NEW s \in ErrorSeconds, Retry(s) PROVE Inv'
  <2>1. /\ ~LastTry(job) /\ raised' = raised + 1 /\ now' = now
        /\ RetryPostpone(job, s, Documented(job.retry, s))
    BY <1>8 DEF Retry, job
  <2>2. MaxRetries # 0 => job.retry < MaxRetries
    BY <1>2, <1>3, <2>1 DEF LastTry
  <2>3. raised' \in Nat /\ raised' <= job.retry /\ (MaxRetries # 0 => raised' < MaxRetries)
    BY <1>2, <1>3, <2>1, <2>2
  <2> QED BY <1>3, <2>1, <2>3, RetryPostponeKeepsInv
<1>9. ASSUME NEW s \in ErrorSeconds, IgnoredRetry(s) PROVE Inv'
  <2>1. RetryPostpone(exec.job, s, Documented(exec.job.retry, s)) /\ UNCHANGED <<now, raised>>
    BY <1>9 DEF IgnoredRetry
  <2> QED BY <1>2, <2>1, RetryPostponeKeepsInv
<1> QED BY <1>4, <1>5, <1>6, <1>7, <1>8, <1>9

\* What users and crons do.
LEMMA ChangesKeepInv ==
  ASSUME Inv, Requeue \/ ButtonDone \/ ButtonCancelled \/ RequeueStuckJobs \/ Autovacuum
  PROVE  Inv'
<1> DEFINE job == Load(row)
<1>1. /\ IsJob(job) /\ job.state = row.state /\ job.retry = row.retry /\ now \in Nat
      /\ job.excName = FALSE /\ job.excInfo \in BOOLEAN
      /\ row.state # "deleted" => raised <= row.retry
  BY LoadFields DEF Inv
<1> HIDE DEF job
<1>2. CASE Requeue \/ RequeueStuckJobs
  <2>1. IsJob(SetPending(job, TRUE)) /\ Agrees(SetPending(job, TRUE)) /\ SetPending(job, TRUE).state = "pending"
    BY <1>1, SetPendingFields
  <2>2. Change(SetPending(job, TRUE)) /\ raised' = 0
    BY <1>2 DEF Requeue, RequeueStuckJobs, job
  <2> QED BY <2>1, <2>2, ChangeKeepsInv
<1>3. CASE ButtonDone
  <2>1. /\ IsJob(SetDone(job)) /\ Agrees(SetDone(job)) /\ SetDone(job).state = "done"
        /\ SetDone(job).retry = job.retry
    BY <1>1, DoneFields
  <2>2. Change(SetDone(job)) /\ raised' = raised /\ row.state # "deleted"
    BY <1>3 DEF ButtonDone, job
  <2> QED BY <1>1, <2>1, <2>2, ChangeKeepsInv
<1>4. CASE ButtonCancelled
  <2>1. /\ IsJob(SetCancelled(job)) /\ Agrees(SetCancelled(job)) /\ SetCancelled(job).state = "cancelled"
        /\ SetCancelled(job).retry = job.retry
    BY <1>1, CancelledFields
  <2>2. Change(SetCancelled(job)) /\ raised' = raised /\ row.state # "deleted"
    BY <1>4 DEF ButtonCancelled, job
  <2> QED BY <1>1, <2>1, <2>2, ChangeKeepsInv
<1>5. CASE Autovacuum
  <2> DEFINE deleted == [NewJob EXCEPT !.state = "deleted"]
  <2>1. IsJob(deleted) /\ Agrees(deleted) /\ deleted.state = "deleted"
    BY DEF NewJob
  <2>2. Change(deleted) /\ raised' = raised /\ ~exec.busy
    BY <1>5 DEF Autovacuum
  <2> HIDE DEF deleted
  <2> QED BY <2>1, <2>2, ChangeKeepsInv
<1> QED BY <1>2, <1>3, <1>4, <1>5

LEMMA NextInv == Inv /\ [Next]_vars => Inv'
<1> SUFFICES ASSUME Inv, [Next]_vars PROVE Inv'
  OBVIOUS
<1>1. CASE EditRetryPattern
  BY <1>1 DEF EditRetryPattern, Inv
<1>2. CASE Tick
  BY <1>2 DEF Tick, Inv
<1>3. CASE UNCHANGED vars
  BY <1>3 DEF vars, Inv
<1> QED BY <1>1, <1>2, <1>3, RunnerKeepsInv, ExecutionKeepsInv, ChangesKeepInv DEF Next

LEMMA Invariance == Spec => []Inv
<1> QED BY InitInv, NextInv, PTL DEF Spec

-----------------------------------------------------------------------------
(* The theorems. *)

\* The dates and the exception of a row are those of its state, for any delays
\* and retry patterns, whatever users, crons, the runner and the worker do.
THEOREM DatesOfState == Spec => []DatesAgree
<1>1. Inv => DatesAgree
  BY DEF Inv, DatesAgree, Dates
<1> QED BY <1>1, Invariance, PTL

\* A method that goes on asking for another try gets no more than max_retries.
THEOREM LimitedTries == Spec => []TriesAreLimited
<1>1. Inv => TriesAreLimited
  BY DEF Inv
<1> QED BY <1>1, Invariance, PTL

\* Only the autovacuum deletes.
LEMMA OnlyAutovacuumDeletes ==
  ASSUME Inv, Next, row'.state = "deleted", row.state # "deleted"
  PROVE  Autovacuum
<1>1. DOMAIN row = Fields /\ DOMAIN Load(row) = Fields
  BY DEF Inv, Load
<1>2. ~Enqueue /\ ~SetJobPending
  BY <1>1 DEF Enqueue, SetJobPending
<1>3. ~StartJob
  BY <1>1 DEF StartJob, SetStarted
<1>4. exec.busy => /\ DOMAIN exec.job = Fields /\ DOMAIN Counted(exec.job) = Fields
                   /\ IsJob(Counted(exec.job)) /\ now \in Nat
  BY CountedFields DEF Inv
<1>5. ~Finish
  BY <1>4 DEF Finish, Store, SetDone
<1>6. ~FlushFails
  <2>1. exec.busy => SetFailed(SetDone(Counted(exec.job))).state = "failed"
    BY <1>4, DoneFields, FailedFields
  <2> QED BY <2>1 DEF FlushFails, Store
<1>7. ~Fail
  <2>1. exec.busy => SetFailed(Counted(exec.job)).state = "failed"
    BY <1>4, FailedFields
  <2> QED BY <2>1 DEF Fail, Store
<1>8. ASSUME NEW job, DOMAIN job = Fields, NEW seconds, NEW documented
      PROVE  ~RetryPostpone(job, seconds, documented)
  <2> SUFFICES ASSUME NEW s, Store(SetPending(Postpone(job, s), FALSE)) PROVE FALSE
    BY DEF RetryPostpone
  <2>1. DOMAIN Postpone(job, s) = Fields
    BY <1>8 DEF Postpone
  <2> QED BY <2>1 DEF Store, SetPending
<1>9. ~Conflict /\ \A s \in ErrorSeconds : ~Retry(s) /\ ~IgnoredRetry(s)
  <2>1. \A seconds, documented : ~RetryPostpone(Counted(exec.job), seconds, documented)
    BY <1>4, <1>8 DEF RetryPostpone
  <2>2. \A seconds, documented : ~RetryPostpone(exec.job, seconds, documented)
    BY <1>4, <1>8 DEF RetryPostpone
  <2> QED BY <2>1, <2>2 DEF Conflict, Retry, IgnoredRetry
<1>10. ~Requeue /\ ~RequeueStuckJobs
  BY <1>1 DEF Requeue, RequeueStuckJobs, Change, SetPending
<1>11. ~ButtonDone /\ ~ButtonCancelled
  BY <1>1 DEF ButtonDone, ButtonCancelled, Change, SetDone, SetCancelled
<1>12. ~EditRetryPattern /\ ~Tick
  BY DEF EditRetryPattern, Tick
<1> QED BY <1>2, <1>3, <1>5, <1>6, <1>7, <1>9, <1>10, <1>11, <1>12 DEF Next

\* The autovacuum, which looks at dates only, deletes no job that has still to be
\* executed.
THEOREM NothingWaitingDeleted == Spec => WaitingIsKept
<1>1. Inv /\ [Next]_vars =>
        [row'.state = "deleted" => row.state \in {"done", "cancelled", "failed", "deleted"}]_vars
  <2> SUFFICES ASSUME Inv, Next, row'.state = "deleted", row.state # "deleted"
               PROVE  row.state \in {"done", "cancelled", "failed"}
    BY DEF vars
  <2>1. Autovacuum
    BY OnlyAutovacuumDeletes
  <2> QED BY <2>1 DEF Autovacuum, Inv
<1> QED BY <1>1, Invariance, PTL DEF Spec, WaitingIsKept

-----------------------------------------------------------------------------
(* The retry pattern.  An induction over sets: the library's theorems take an  *)
(* operator; a set of sets serves as well, and its smallest gap.              *)

LEMMA SmallestNumber ==
  ASSUME NEW S \in SUBSET Nat, S # {}
  PROVE  \E x \in S : \A y \in S : x <= y
<1> DEFINE R == {n \in Nat \X Nat : n[1] < n[2]}
<1>1. IsWellFoundedOn(R, Nat)
  BY NatLessThanWellFounded DEF OpToRel
<1> HIDE DEF R
<1>2. PICK x \in S : \A y \in S : ~(<<y, x>> \in R)
  BY <1>1, WFMin
<1>3. ASSUME NEW y \in S PROVE x <= y
  <2>1. <<y, x>> \in Nat \X Nat /\ <<y, x>>[1] = y /\ <<y, x>>[2] = x
    OBVIOUS
  <2>2. ~(y < x)
    BY <1>2, <2>1 DEF R
  <2> QED BY <2>2
<1> QED BY <1>3

\* Q holds all subsets of S when it holds each whose subsets without one
\* element it holds.
LEMMA SubsetInduction ==
  ASSUME NEW S, IsFiniteSet(S), NEW Q,
         \A s \in SUBSET S : (\A x \in s : s \ {x} \in Q) => s \in Q
  PROVE  \A s \in SUBSET S : s \in Q
<1> DEFINE Gaps == {s \in SUBSET S : s \notin Q}
<1> SUFFICES ASSUME Gaps # {} PROVE FALSE
  OBVIOUS
<1> DEFINE Sizes == {Cardinality(s) : s \in Gaps}
<1>1. \A s \in SUBSET S : IsFiniteSet(s) /\ Cardinality(s) \in Nat
  BY FS_Subset, FS_CardinalityType
<1>2. PICK s \in Gaps : \A t \in Gaps : Cardinality(s) <= Cardinality(t)
  <2>1. Sizes \in SUBSET Nat /\ Sizes # {}
    BY <1>1
  <2>2. PICK n \in Sizes : \A m \in Sizes : n <= m
    BY <2>1, SmallestNumber
  <2> QED BY <2>2
<1>3. ASSUME NEW x \in s PROVE s \ {x} \in Q
  <2>1. Cardinality(s \ {x}) = Cardinality(s) - 1
    BY <1>1, FS_RemoveElement
  <2>2. s \ {x} \in SUBSET S
    OBVIOUS
  <2>3. s \ {x} \notin Gaps
    BY <1>1, <1>2, <2>1, <2>2
  <2> QED BY <2>2, <2>3
<1> QED BY <1>3

\* A finite set of numbers has a largest, which Max chooses.
LEMMA MaxIs ==
  ASSUME NEW S, IsFiniteSet(S), S \subseteq Nat
  PROVE  \A s \in SUBSET S : s # {} => Max(s) \in s /\ \A t \in s : t <= Max(s)
<1> DEFINE Q == {s \in SUBSET S : s # {} => \E m \in s : \A t \in s : m >= t}
<1>1. ASSUME NEW s \in SUBSET S, \A x \in s : s \ {x} \in Q PROVE s \in Q
  <2> SUFFICES ASSUME NEW x \in s PROVE \E m \in s : \A t \in s : m >= t
    OBVIOUS
  <2>1. CASE s \ {x} = {}
    BY <2>1
  <2>2. CASE s \ {x} # {}
    <3>1. PICK m \in s \ {x} : \A t \in s \ {x} : m >= t
      BY <1>1, <2>2
    <3>2. CASE m >= x
      BY <3>1, <3>2
    <3>3. CASE x >= m
      BY <3>1, <3>3
    <3> QED BY <3>1, <3>2, <3>3
  <2> QED BY <2>1, <2>2
<1> HIDE DEF Q
<1>2. \A s \in SUBSET S : s \in Q
  BY <1>1, SubsetInduction
<1>3. ASSUME NEW s \in SUBSET S, s # {} PROVE Max(s) \in s /\ \A t \in s : t <= Max(s)
  <2>1. \E m \in s : \A t \in s : m >= t
    BY <1>2, <1>3 DEF Q
  <2>2. Max(s) \in s /\ \A t \in s : Max(s) >= t
    BY <2>1 DEF Max
  <2> QED BY <2>2
<1> QED BY <1>3

\* W[s] is what the entries s of the pattern say of a job of that many tries.
Chosen(W, p, tries) ==
    W = [s \in SUBSET DOMAIN p |->
            IF s = {} THEN <<RetryInterval>>
            ELSE IF Max(s) <= tries THEN p[Max(s)] ELSE W[s \ {Max(s)}]]

\* The entry of the most tries that the job has reached.
Reached(s, tries) == {t \in s : t <= tries}
Entry(p, s, tries) ==
    IF Reached(s, tries) = {} THEN <<RetryInterval>>
    ELSE p[CHOOSE t \in Reached(s, tries) : \A u \in Reached(s, tries) : u <= t]

\* A pattern as _check_retry_pattern lets it pass.
Pattern(p) == /\ IsFiniteSet(DOMAIN p) /\ DOMAIN p \subseteq Nat
              /\ \A t \in DOMAIN p : p[t] \in Seq(Int) /\ Number(p[t])

LEMMA EntryIs ==
  ASSUME NEW p, Pattern(p), NEW tries \in Nat, NEW s \in SUBSET DOMAIN p
  PROVE  Entry(p, s, tries) = IF s = {} THEN <<RetryInterval>>
                              ELSE IF Max(s) <= tries THEN p[Max(s)]
                              ELSE Entry(p, s \ {Max(s)}, tries)
<1>1. s # {} => Max(s) \in s /\ \A t \in s : t <= Max(s)
  BY MaxIs DEF Pattern
<1>2. CASE s = {}
  BY <1>2 DEF Entry, Reached
<1>3. CASE s # {} /\ Max(s) <= tries
  <2> DEFINE R == Reached(s, tries)
  <2>1. Max(s) \in R /\ \A u \in R : u <= Max(s)
    BY <1>1, <1>3 DEF Reached
  <2>2. \A t \in R : (\A u \in R : u <= t) => t = Max(s)
    BY <1>1, <2>1 DEF Reached, Pattern
  <2> HIDE DEF R
  <2>3. (CHOOSE t \in R : \A u \in R : u <= t) = Max(s)
    BY <2>1, <2>2
  <2> QED BY <1>3, <2>1, <2>3 DEF Entry, R
<1>4. CASE s # {} /\ ~(Max(s) <= tries)
  <2>1. Reached(s, tries) = Reached(s \ {Max(s)}, tries)
    BY <1>4 DEF Reached
  <2> QED BY <1>4, <2>1 DEF Entry
<1> QED BY <1>2, <1>3, <1>4

\* The fold finds it, whatever the pattern.
LEMMA ChosenIs ==
  ASSUME NEW p, Pattern(p), NEW tries \in Nat
  PROVE  /\ \E W : Chosen(W, p, tries)
         /\ \A W : Chosen(W, p, tries) => W[DOMAIN p] = Entry(p, DOMAIN p, tries)
<1> DEFINE D == DOMAIN p
           E == [s \in SUBSET D |-> Entry(p, s, tries)]
<1>1. Chosen(E, p, tries)
  <2> DEFINE F == [s \in SUBSET D |-> IF s = {} THEN <<RetryInterval>>
                                      ELSE IF Max(s) <= tries THEN p[Max(s)] ELSE E[s \ {Max(s)}]]
  <2>1. \A s \in SUBSET D : E[s] = F[s]
    BY EntryIs
  <2>2. E = F
    BY <2>1
  <2> QED BY <2>2 DEF Chosen
<1>2. ASSUME NEW W, Chosen(W, p, tries) PROVE W[D] = Entry(p, D, tries)
  <2> DEFINE Q == {s \in SUBSET D : W[s] = Entry(p, s, tries)}
  <2>1. \A s \in SUBSET D : W[s] = IF s = {} THEN <<RetryInterval>>
                                   ELSE IF Max(s) <= tries THEN p[Max(s)] ELSE W[s \ {Max(s)}]
    BY <1>2 DEF Chosen
  <2>2. ASSUME NEW s \in SUBSET D, \A x \in s : s \ {x} \in Q PROVE s \in Q
    <3>1. s # {} => Max(s) \in s
      BY MaxIs DEF Pattern
    <3>2. s # {} => W[s \ {Max(s)}] = Entry(p, s \ {Max(s)}, tries)
      BY <2>2, <3>1
    <3>3. W[s] = Entry(p, s, tries)
      BY <2>1, <3>2, EntryIs
    <3> QED BY <3>3
  <2> HIDE DEF Q
  <2>3. \A s \in SUBSET D : s \in Q
    BY <2>2, SubsetInduction DEF Pattern
  <2> QED BY <2>3 DEF Q
<1> HIDE DEF E
<1> QED BY <1>1, <1>2

\* What was asked for is what is documented: the one value that may be drawn.
LEMMA RetrySecondsIs ==
  ASSUME Pattern(exec.pattern), NEW job, job.retry \in Nat, NEW seconds \in Int
  PROVE  /\ RetrySeconds(job, exec.pattern, seconds) = {Documented(job.retry, seconds)}
         /\ Documented(job.retry, seconds) \in Int
<1> DEFINE p == exec.pattern
           D == DOMAIN p
           W == CHOOSE W : Chosen(W, p, job.retry)
           entry == Entry(p, D, job.retry)
<1>1. RetrySeconds(job, p, seconds) = IF seconds # 0 THEN {seconds} ELSE Drawn(W[D])
  BY Zenon DEF RetrySeconds, MapThenFoldSet, Chosen
<1>2. W[D] = entry
  BY ChosenIs
<1>3. entry \in Seq(Int) /\ Len(entry) = 1
  <2>1. CASE Reached(D, job.retry) = {}
    BY <2>1, RecordAssumption DEF Entry
  <2>2. CASE Reached(D, job.retry) # {}
    <3> DEFINE R == Reached(D, job.retry)
    <3>1. Max(R) \in R /\ \A u \in R : u <= Max(R)
      BY <2>2, MaxIs DEF Pattern, Reached
    <3>2. (CHOOSE t \in R : \A u \in R : u <= t) \in R
      BY <3>1
    <3>3. R \subseteq D
      BY DEF Reached
    <3> HIDE DEF R
    <3> QED BY <2>2, <3>2, <3>3 DEF Entry, R, Pattern, Number
  <2> QED BY <2>1, <2>2
<1>4. Drawn(entry) = {entry[1]} /\ entry[1] \in Int
  BY <1>3 DEF Drawn
<1>5. Documented(job.retry, seconds) = IF seconds # 0 THEN seconds ELSE entry[1]
  <2> DEFINE R == Reached(D, job.retry)
  <2>1. Documented(job.retry, seconds) =
            IF seconds # 0 THEN seconds
            ELSE IF R = {} THEN RetryInterval
            ELSE p[CHOOSE t \in R : \A u \in R : u <= t][1]
    BY Zenon DEF Documented, Reached
  <2>2. entry = IF R = {} THEN <<RetryInterval>> ELSE p[CHOOSE t \in R : \A u \in R : u <= t]
    BY Zenon DEF Entry
  <2> HIDE DEF R, entry
  <2> QED BY <2>1, <2>2
<1> HIDE DEF W, entry
<1> QED BY <1>1, <1>2, <1>4, <1>5

-----------------------------------------------------------------------------
(* The spacing of the tries. *)

PutOffUntil == asked.at + asked.seconds
Over == PutOffUntil <= now

\* The row has the eta that the last postponement asked for, until it is over; it
\* is once the job has been enqueued, and all the time that it is executed.
Spaced ==
    /\ asked \in [at : Nat, seconds : Int]
    /\ Pattern(pattern)
    /\ exec.busy => Pattern(exec.pattern) /\ Over
    /\ row.state = "enqueued" => Over
    /\ row.state # "deleted" => Over \/ (row.eta \in Int /\ row.eta # None /\ PutOffUntil <= row.eta)

LEMMA InitSpaced == Init => Spaced
<1>1. Pattern(<< >>)
  <2>1. DOMAIN << >> = {}
    OBVIOUS
  <2> QED BY <2>1, FS_EmptySet DEF Pattern
<1>2. SUFFICES ASSUME Init PROVE Spaced
  OBVIOUS
<1>3. asked = [at |-> 0, seconds |-> 0] /\ now = 0 /\ ~exec.busy /\ row.state = "pending" /\ pattern = << >>
  BY <1>2 DEF Init, NewJob, NoExec
<1> QED BY <1>1, <1>3 DEF Spaced, Over, PutOffUntil

\* The job is enqueued at its eta at the earliest, so that it is over when it starts.
LEMMA RunnerSpaced ==
  ASSUME Inv, Spaced, Enqueue \/ SetJobPending \/ StartJob
  PROVE  Spaced' /\ (StartJob => Over)
<1>1. CASE Enqueue
  <2>1. row'.state = "enqueued" /\ row'.eta = row.eta /\ UNCHANGED <<exec, pattern, now, asked>>
    BY <1>1 DEF Enqueue, Keep, Inv
  <2>2. Over
    BY <1>1 DEF Enqueue, Spaced, Inv, Over, PutOffUntil
  <2> QED BY <1>1, <2>1, <2>2 DEF Spaced, Over, PutOffUntil, StartJob, Enqueue
<1>2. CASE SetJobPending
  <2>1. row.state = "enqueued" /\ row'.state = "pending" /\ UNCHANGED <<exec, pattern, now, asked>>
    BY <1>2 DEF SetJobPending, Keep, Inv
  <2> QED BY <2>1 DEF Spaced, Over, PutOffUntil
<1>3. CASE StartJob
  <2>1. /\ row.state = "enqueued" /\ row'.state = "started" /\ UNCHANGED <<pattern, now, asked>>
        /\ exec'.pattern = pattern
    BY <1>3 DEF StartJob, Keep, Inv, SetStarted, Load
  <2> QED BY <2>1 DEF Spaced, Over, PutOffUntil
<1> QED BY <1>1, <1>2, <1>3

LEMMA PostponeSpaced ==
  ASSUME Inv, Spaced, NEW job, DOMAIN job = Fields, job.retry \in Nat, NEW seconds \in Int,
         RetryPostpone(job, seconds, Documented(job.retry, seconds)), UNCHANGED <<pattern, now>>
  PROVE  Spaced'
<1> DEFINE documented == Documented(job.retry, seconds)
<1>1. exec.busy /\ asked' = [at |-> now, seconds |-> documented]
  BY DEF RetryPostpone
<1>2. RetrySeconds(job, exec.pattern, seconds) = {documented} /\ documented \in Int
  BY <1>1, RetrySecondsIs DEF Spaced
<1>3. Store(SetPending(Postpone(job, documented), FALSE))
  BY <1>2 DEF RetryPostpone
<1> HIDE DEF documented
<1>4. /\ row'.state = "pending" /\ ~exec'.busy
      /\ row'.eta = IF documented = 0 THEN None ELSE now + documented
  BY <1>3 DEF Store, SetPending, Postpone, NoExec
<1>5. now \in Nat
  BY DEF Inv
<1>6. Over' \/ (row'.eta \in Int /\ row'.eta # None /\ PutOffUntil' <= row'.eta)
  BY <1>1, <1>2, <1>4, <1>5, RecordAssumption DEF Over, PutOffUntil
<1> QED BY <1>1, <1>2, <1>4, <1>5, <1>6 DEF Spaced

LEMMA ExecutionSpaced ==
  ASSUME Inv, Spaced,
         \/ Finish \/ FlushFails \/ Fail \/ Conflict
         \/ \E s \in ErrorSeconds : Retry(s) \/ IgnoredRetry(s)
  PROVE  Spaced'
<1>1. exec.busy /\ Over
  BY DEF Finish, FlushFails, Fail, Conflict, Retry, IgnoredRetry, RetryPostpone, Store, Spaced
<1>2. IsJob(exec.job) /\ IsJob(Counted(exec.job))
  BY <1>1, CountedFields DEF Inv
<1>3. CASE Finish \/ FlushFails \/ Fail
  <2>1. ~exec'.busy /\ UNCHANGED <<pattern, now, asked>>
    BY <1>3 DEF Finish, FlushFails, Fail, Store, NoExec, Keep
  <2> QED BY <1>1, <2>1 DEF Spaced, Over, PutOffUntil
<1>4. CASE Conflict
  <2>1. Documented(Counted(exec.job).retry, PgRetry) = PgRetry /\ PgRetry \in Int
    BY RecordAssumption DEF Documented
  <2> QED BY <1>2, <1>4, <2>1, PostponeSpaced DEF Conflict
<1>5. ASSUME NEW s \in ErrorSeconds, Retry(s) \/ IgnoredRetry(s) PROVE Spaced'
  <2>1. s \in Int
    BY RecordAssumption
  <2> QED BY <1>2, <1>5, <2>1, PostponeSpaced DEF Retry, IgnoredRetry
<1> QED BY <1>3, <1>4, <1>5

LEMMA ChangesSpaced ==
  ASSUME Inv, Spaced, Requeue \/ ButtonDone \/ ButtonCancelled \/ RequeueStuckJobs \/ Autovacuum
  PROVE  Spaced'
<1>1. /\ UNCHANGED <<exec, pattern, now, asked>> /\ row.state # "deleted"
      /\ row'.state # "enqueued" /\ (row'.state # "deleted" => row'.eta = row.eta)
  BY DEF Requeue, ButtonDone, ButtonCancelled, RequeueStuckJobs, Autovacuum, Change, SetPending,
         SetDone, SetCancelled, Load, NewJob, Inv
<1> QED BY <1>1 DEF Spaced, Over, PutOffUntil

LEMMA NextSpaced == Inv /\ Spaced /\ [Next]_vars => Spaced' /\ (StartJob => Over)
<1> SUFFICES ASSUME Inv, Spaced, [Next]_vars PROVE Spaced' /\ (StartJob => Over)
  OBVIOUS
<1>1. StartJob => Over
  BY DEF StartJob, Spaced
<1>2. CASE EditRetryPattern
  <2>1. Pattern(pattern')
    BY <1>2, RecordAssumption DEF EditRetryPattern, Pattern
  <2>2. UNCHANGED <<row, exec, now, asked>>
    BY <1>2 DEF EditRetryPattern
  <2> QED BY <1>1, <2>1, <2>2 DEF Spaced, Over, PutOffUntil
<1>3. CASE Tick
  <2>1. UNCHANGED <<row, exec, pattern, asked>> /\ now <= now' /\ now \in Nat /\ now' \in Nat
    BY <1>3 DEF Tick, Inv
  <2>2. PutOffUntil \in Int /\ PutOffUntil' = PutOffUntil
    BY <2>1 DEF Spaced, PutOffUntil
  <2>3. Over => Over'
    BY <2>1, <2>2 DEF Over
  <2> QED BY <1>1, <2>1, <2>2, <2>3 DEF Spaced
<1>4. CASE UNCHANGED vars
  <2>1. UNCHANGED <<row, exec, pattern, now, asked>>
    BY <1>4 DEF vars
  <2> QED BY <1>1, <2>1 DEF Spaced, Over, PutOffUntil
<1> QED BY <1>1, <1>2, <1>3, <1>4, RunnerSpaced, ExecutionSpaced, ChangesSpaced DEF Next

\* A job that was put off is not tried again before the time its error or the
\* pattern of its function asked for, for any patterns, whoever requeues it or
\* edits the pattern in between.
THEOREM TriesAreSpaced == Spec => RetriesAreApart
<1>1. Inv /\ Spaced /\ [Next]_vars => [StartJob => now >= asked.at + asked.seconds]_vars
  <2> SUFFICES ASSUME Inv, Spaced, StartJob PROVE now >= asked.at + asked.seconds
    OBVIOUS
  <2> QED BY DEF StartJob, Spaced, Over, PutOffUntil, Inv
<1> QED BY <1>1, InitSpaced, NextSpaced, Invariance, PTL DEF Spec, RetriesAreApart
===============================================================================
