------------------------------- MODULE JobRecord -------------------------------
(***************************************************************************)
(* What is written about a job: the dates, the number of tries, the eta and *)
(* the exception that job.py loads from its queue_job row, changes and      *)
(* stores, the retry pattern of its function, and the crons that select     *)
(* rows by their dates.                                                     *)
(*                                                                         *)
(* One job without parents, in a channel that is free.  A job that is       *)
(* requeued while it is executed is not executed a second time before the   *)
(* first execution has come to its end: that race is in module JobRunner.   *)
(***************************************************************************)
EXTENDS Integers, FiniteSets, SequencesExt

CONSTANTS
    Patterns,        \* what is typed as retry patterns: from tries to <<seconds>> or <<low, high>>
    ErrorSeconds,    \* the seconds that a RetryableJobError may ask for, 0 for none
    MaxRetries,      \* max_retries of the job, 0 for no maximum
    RetryInterval,   \* RETRY_INTERVAL
    PgRetry,         \* PG_RETRY
    EnqueuedDelta,   \* after which an enqueued job is requeued
    RemovalInterval, \* of the channel
    MaxTime,         \* bound on time
    MaxTries,        \* bound on the tries
    None

ASSUME RecordAssumption ==
    /\ {MaxRetries, MaxTime, MaxTries} \subseteq Nat
    /\ {RetryInterval, PgRetry, EnqueuedDelta, RemovalInterval} \subseteq Nat \ {0}
    /\ ErrorSeconds \subseteq Nat
    /\ \A p \in Patterns : /\ IsFiniteSet(DOMAIN p) /\ DOMAIN p \subseteq Nat
                           /\ \A tries \in DOMAIN p : p[tries] \in Seq(Int)
    /\ None \notin Nat

VARIABLES
    row,      \* the row of the job
    exec,     \* the job in the memory of the worker that executes it
    pattern,  \* the retry pattern of the job's function
    now,
    asked,    \* history: how long after which moment the next try was put off
    raised    \* history: the RetryableJobErrors since the job was last set to pending anew

vars == <<row, exec, pattern, now, asked, raised>>

States == {"pending", "enqueued", "started", "done", "cancelled", "failed", "deleted"}
Dates == {"enqueued", "started", "done", "cancelled"}

NewJob == [state |-> "pending", retry |-> 0, eta |-> None,
           enqueued |-> None, started |-> None, done |-> None, cancelled |-> None,
           excName |-> FALSE, excInfo |-> FALSE]

NoExec == [job |-> NewJob, pattern |-> << >>, busy |-> FALSE]

Init ==
    /\ row = NewJob /\ exec = NoExec
    /\ pattern = << >>
    /\ now = 0
    /\ asked = [at |-> 0, seconds |-> 0] /\ raised = 0

-----------------------------------------------------------------------------
(* Job. *)

\* _load_from_db_record: the traceback is loaded, the name of the exception not.
Load(r) == [r EXCEPT !.excName = FALSE]

\* Mutant: a job set to pending again keeps the date it was cancelled on.
PendingKeepsCancelled(job, reset) ==
    [job EXCEPT !.state = "pending", !.enqueued = None, !.started = None, !.done = None,
                !.retry = IF reset THEN 0 ELSE @]

\* Mutant: ... or the date it was started on.
PendingKeepsStarted(job, reset) ==
    [job EXCEPT !.state = "pending", !.enqueued = None, !.done = None, !.cancelled = None,
                !.retry = IF reset THEN 0 ELSE @]

SetPending(job, reset) ==
    [job EXCEPT !.state = "pending", !.enqueued = None, !.started = None, !.done = None,
                !.cancelled = None, !.retry = IF reset THEN 0 ELSE @]

SetStarted(job) == [job EXCEPT !.state = "started", !.started = now]
SetDone(job) == [job EXCEPT !.state = "done", !.done = now, !.excName = FALSE, !.excInfo = FALSE]
SetCancelled(job) == [job EXCEPT !.state = "cancelled", !.cancelled = now]
SetFailed(job) == [job EXCEPT !.state = "failed", !.excName = TRUE, !.excInfo = TRUE]

\* perform counts the try, unless the error says not to.
Counted(job) == [job EXCEPT !.retry = @ + 1]

\* randint, for a pair of seconds.
Drawn(value) == IF Len(value) = 2 THEN value[1]..value[2] ELSE {value[1]}

\* Mutant: a pattern applies from one try later.
RetrySecondsLater(job, retryPattern, seconds) ==
    LET Step(tries, found) == IF tries < job.retry THEN retryPattern[tries] ELSE found
        postponed == MapThenFoldSet(Step, <<RetryInterval>>, LAMBDA tries : tries, Max, DOMAIN retryPattern)
    IN IF seconds # 0 THEN {seconds} ELSE Drawn(postponed)

\* _get_retry_seconds: the entries of the pattern are gone through in the order of
\* the tries, the fold taking the largest last, and the last reached counts.
RetrySeconds(job, retryPattern, seconds) ==
    LET Step(tries, found) == IF tries <= job.retry THEN retryPattern[tries] ELSE found
        postponed == MapThenFoldSet(Step, <<RetryInterval>>, LAMBDA tries : tries, Max, DOMAIN retryPattern)
    IN IF seconds # 0 THEN {seconds} ELSE Drawn(postponed)

\* postpone; an eta of no seconds is no eta.
Postpone(job, seconds) ==
    [job EXCEPT !.eta = IF seconds = 0 THEN None ELSE now + seconds, !.excName = FALSE, !.excInfo = FALSE]

-----------------------------------------------------------------------------
(* The runner and the execution. *)

Keep == UNCHANGED <<pattern, now, asked, raised>>

\* set_job_enqueued, once the channel yields the job: at its eta.
Enqueue ==
    /\ row.state = "pending" /\ (row.eta # None => row.eta <= now)
    /\ row' = [row EXCEPT !.state = "enqueued", !.enqueued = now]
    /\ Keep /\ UNCHANGED exec

\* set_job_pending: the request has timed out.
SetJobPending ==
    /\ row.state = "enqueued"
    /\ row' = [row EXCEPT !.state = "pending", !.enqueued = None, !.started = None]
    /\ Keep /\ UNCHANGED exec

\* runjob loads the job, with the pattern of the moment, and stores it started.
StartJob ==
    /\ row.state = "enqueued" /\ ~exec.busy
    /\ row' = SetStarted(Load(row))
    /\ exec' = [job |-> row', pattern |-> pattern, busy |-> TRUE]
    /\ Keep

\* Whether another transaction has changed the row since.
Stale == row # exec.job

\* store() of what the execution made of the job.
Store(job) == exec.busy /\ row' = job /\ exec' = NoExec

Finish == ~Stale /\ Store(SetDone(Counted(exec.job))) /\ Keep

\* What the method left to compute raises, when the job has been set to done.
FlushFails == ~Stale /\ Store(SetFailed(SetDone(Counted(exec.job)))) /\ Keep

\* Any other exception, or the FailedJobError of the last try.
Fail == Store(SetFailed(Counted(exec.job))) /\ Keep

\* Mutant: the last try is one try too late.
LastTryLate(job) == MaxRetries # 0 /\ job.retry > MaxRetries

\* "Max. retries reached".
LastTry(job) == MaxRetries # 0 /\ job.retry >= MaxRetries

\* retry_postpone.
RetryPostpone(job, seconds, documented) ==
    /\ exec.busy /\ job.retry <= MaxTries
    /\ \E s \in RetrySeconds(job, exec.pattern, seconds) : Store(SetPending(Postpone(job, s), FALSE))
    /\ asked' = [at |-> now, seconds |-> documented]

\* What the documentation says of a pattern: "from X tries, postpone to Y
\* seconds", and of the seconds of an error, which come first.
Documented(tries, seconds) ==
    LET reached == {t \in DOMAIN exec.pattern : t <= tries}
    IN IF seconds # 0 THEN seconds
       ELSE IF reached = {} THEN RetryInterval
       ELSE exec.pattern[CHOOSE t \in reached : \A u \in reached : u <= t][1]

\* RetryableJobError.
Retry(seconds) ==
    LET job == Counted(exec.job)
    IN /\ ~LastTry(job)
       /\ RetryPostpone(job, seconds, Documented(job.retry, seconds))
       /\ raised' = raised + 1
       /\ UNCHANGED <<pattern, now>>

\* RetryableJobError(ignore_retry=True).
IgnoredRetry(seconds) ==
    /\ RetryPostpone(exec.job, seconds, Documented(exec.job.retry, seconds))
    /\ UNCHANGED <<pattern, now, raised>>

\* The transaction cannot be serialized, here or where the method writes; tries
\* of this kind are not limited.
Conflict ==
    /\ RetryPostpone(Counted(exec.job), PgRetry, PgRetry)
    /\ UNCHANGED <<pattern, now, raised>>

-----------------------------------------------------------------------------
(* Users and crons. *)

\* The row is changed by somebody else than the execution.
Change(job) == row' = job /\ UNCHANGED <<exec, pattern, now, asked>>

Requeue ==
    /\ row.state # "deleted"
    /\ Change(SetPending(Load(row), TRUE))
    /\ raised' = 0

ButtonDone == row.state # "deleted" /\ Change(SetDone(Load(row))) /\ UNCHANGED raised

ButtonCancelled ==
    /\ row.state \in {"pending", "enqueued", "failed"}
    /\ Change(SetCancelled(Load(row)))
    /\ UNCHANGED raised

RequeueStuckJobs ==
    /\ row.state = "enqueued" /\ row.enqueued <= now - EnqueuedDelta
    /\ Change(SetPending(Load(row), TRUE))
    /\ raised' = 0

\* autovacuum, which looks at the dates and not at the state; no execution takes
\* as long as the interval.
Autovacuum ==
    /\ ~exec.busy /\ row.state # "deleted"
    /\ \E d \in {"done", "cancelled"} : row[d] # None /\ row[d] <= now - RemovalInterval
    /\ Change([NewJob EXCEPT !.state = "deleted"])
    /\ UNCHANGED raised

\* _check_retry_pattern: what is not a number is refused, and a pair is none.
Number(value) == Len(value) = 1

EditRetryPattern ==
    /\ \E p \in Patterns : /\ \A t \in DOMAIN p : Number(p[t])
                           /\ pattern' = p
    /\ pattern' # pattern
    /\ UNCHANGED <<row, exec, now, asked, raised>>

Tick == now < MaxTime /\ now' = now + 1 /\ UNCHANGED <<row, exec, pattern, asked, raised>>

Next ==
    \/ Enqueue \/ SetJobPending \/ StartJob
    \/ Finish \/ FlushFails \/ Fail \/ Conflict
    \/ \E s \in ErrorSeconds : Retry(s) \/ IgnoredRetry(s)
    \/ Requeue \/ ButtonDone \/ ButtonCancelled
    \/ RequeueStuckJobs \/ Autovacuum \/ EditRetryPattern
    \/ Tick

Spec == Init /\ [][Next]_vars

-----------------------------------------------------------------------------
(* Properties. *)

\* The dates and the exception of a row are those of its state, whatever came
\* before: the crons, the form and the runner find a job by them.
DatesAgree ==
    /\ row.state \in States /\ row.retry \in Nat
    /\ row.state = "pending" => \A d \in Dates : row[d] = None
    /\ row.state = "enqueued" => row.enqueued # None /\ row.started = None /\ row.done = None
    /\ row.state = "started" => row.enqueued # None /\ row.enqueued <= row.started /\ row.done = None
    /\ row.state = "done" => row.done # None /\ ~row.excInfo
    /\ row.state = "cancelled" => row.cancelled # None
    /\ row.state = "failed" => row.excName /\ row.excInfo
    /\ row.excName => row.excInfo

\* A job that was put off is not tried again before the time that its error asked
\* for or, if it asked for none, that the pattern of its function gives for its
\* tries; not even when a user or a cron requeues it in between.
RetriesAreApart == [][StartJob => now >= asked.at + asked.seconds]_vars

\* A job whose method goes on asking for another try gets max_retries of them,
\* however often it is put off by conflicts or by errors that do not count; more
\* only when it is requeued.
TriesAreLimited == MaxRetries # 0 => raised < MaxRetries

\* The autovacuum never deletes a job that has still to be executed, though it
\* was done or cancelled once.
WaitingIsKept ==
    [][row'.state = "deleted" => row.state \in {"done", "cancelled", "failed", "deleted"}]_vars
=============================================================================
