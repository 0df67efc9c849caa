# Formal models of fastrak

TLA+ models, TLC runs and TLAPS proofs of the repository `fastrak`: a set of
Odoo 16 add-ons for a shipping company (`src/fastrak` and its companions) and
the job queue they run their work with (`src/queue_job`, the OCA connector).
`PROJECT.json` maps every definition to the lines it models, and lists the
components, runs, mutants, hazards, findings and theorems.

    tlc -config MCChannels.cfg MCChannels           # a run
    tlapm Channels_proofs.tla                       # the proofs of a module

## 1. The system

### Parts, their state, their operations

| part | source | state | operations |
|---|---|---|---|
| channels | `queue_job/jobrunner/channels.py` | a tree of channels, each with a queue ordered by priority, date and sequence, a running set, a failed set, a pause; the job objects by uuid | `notify`, `remove_job`, `get_jobs_to_run`, `get_wakeup_time`, `ChannelQueue` / `PriorityQueue` add, remove, pop |
| job runner | `queue_job/jobrunner/runner.py` | the connection that listens, the channel manager, one thread per HTTP request | load, process notifications, run jobs, reset to pending on a timeout, wait, recover from errors |
| runjob controller | `queue_job/controllers/main.py` | none of its own | start a job, perform it, store done / failed / postponed, wake the dependent jobs |
| Job | `queue_job/job.py` | a row of `queue_job`: state, retry, max_retries, dependencies | `perform`, `set_*`, `store`, `enqueue_waiting` |
| queue.job, wizards, crons, trigger | `queue_job/models/queue_job.py`, `wizards/`, `post_init_hook.py` | the same rows | set to done, cancel, requeue, garbage collector, autovacuum, `pg_notify` on a change |
| delay, functions, configuration | `queue_job/delay.py`, `job.py`, `models/queue_job_function.py`, `jobrunner/channels.py` | a graph of delayables; a tree of channels | builds jobs and their dependencies, finds jobs of the same identity key; reads the configuration, finds the channel of a job |
| bill of loading | `fastrak/models/bill_of_loading`, `fastrak/controllers/bill_of_loading.py` | an order: status, delivery status, trips, fees, invoice, payments, collection entry | REST requests that read, check and delay jobs; the jobs; the buttons of the form |
| group invoice | `fastrak/models/group_invoice`, `invoice` | groups of unpaid invoices with discounts and a penalty; locked invoices | generate, edit lines, discount, penalty by button and by cron, confirm |
| withdraw request | `fastrak/models/withdraw_request`, `controllers/withdraw_request.py` | requests for money collected for a customer, their fee, payment and entry | create, edit, bill, pay, confirm, reset |
| assets | `om_account_asset` | assets with their depreciation lines; the entries made from them | create, edit, modify, dispose, book by hand, wizard and cron; post, reset, cancel an entry |
| accounting reports | `accounting_pdf_reports`, `trial_balance_report` | none: queries over journal items | ledgers, trial balances, journals, taxes, financial statements, aged balance |
| the rest | customers, authentication, `fastrak_crm`, `om_account_budget`, ... | records and reports | one transaction each, no protocol |

### How they interact

A request of the REST API, or any transaction of Odoo, inserts rows in
`queue_job` (`with_delay`). A PostgreSQL trigger notifies the runner, a process
of its own, of every change of a row. The runner reads the row again and tells
the channel manager; `run_jobs` takes the jobs the channels let through, marks
each enqueued and asks Odoo over HTTP to run it, waiting a second for an answer
and then forgetting about it. A worker locks the row, marks the job started,
performs it in a transaction whose effects and `done` commit together, and wakes
the jobs that depend on it in a third transaction. Users change rows with
buttons and wizards at any time, and two crons requeue jobs that are stuck and
delete old rows. All transactions of the ORM are REPEATABLE READ: they read the
rows as of their beginning and fail if they write one that has changed since.

### What is hard

The state of a job lives in the row, in the memory of the runner, in requests
under way and in users' transactions, and nothing keeps these together but
notifications, which may come late, in any order, or not at all while the runner
is down. A request that timed out may still be served. Each process may stop
between any two commits. In the channels, a job is in several structures at a
time, capacity, throttle, sequence and etas interact, and a mistake in the
wakeup time leaves the queue asleep. In fastrak, requests check the order when
they come and act on it later, in jobs that run in any order and may fail; the
buttons of a form act on records that have changed since it was loaded. Amounts are
computed in one place, billed in a second and compared in a third: discounts of
groups, fees of requests, depreciation, the balances of reports. `hazards` in
`PROJECT.json` lists these at their lines.

### What makes each part correct

* channels: a job is in one place; capacities, throttles, etas and the order of
  sequential channels are respected; the runner sleeps only when nothing can run.
* runner, controller, rows: what the runner believes follows from the rows;
  capacity is kept; a job is not executed twice at a time; a job runs after its
  parents; a job is picked and ends, and wakes its children.
* one job: its dates are those of its state, its tries are limited and spaced, no
  cron deletes it before it has run.
* creation of jobs: the dependencies are those the calls ask for, no job is lost,
  one waits per identity key, each gets the channel its name and the configuration
  say.
* bill of loading: an order is billed once and in the end; it is picked up and
  delivered once; its money is collected after delivery.
* group invoices, withdraw requests: an invoice is in one group, a discount, penalty
  or fee is given or billed once, money is paid out once.
* assets: the whole value is planned to be depreciated, each depreciation is booked
  once, an asset is closed only when nothing is left of its value and stays open only
  while something is left to do.
* reports: they agree with one another.

## 2. The modules

    SortedSet <--refined by-- PriorityQueue
                                   | (its queues are sets in Channels)
                                Channels      one runner, a tree of channels
                                   | (its tree is one root channel in JobRunner)
                                JobRunner     rows, runner, requests, users
                                   | (its jobs run in any order, once)
                              BillOfLoading   an order and the jobs about it

    DelayGraph, ChannelTree --> JobCreation   graphs of jobs, keys, channel names
    JobRecord                                 the row of one job: dates and tries
    Receivables --> GroupInvoice, WithdrawRequest
    Sums --> AccountAsset                     assets, their boards and entries
    Sums --> AccountingReports                what the reports add up

`-->` is EXTENDS. Each `X` that is run has an `MCX` with the constants of its runs;
`X_proofs` has its theorems. Those of PriorityQueue are in `Channels_proofs`; those of
AccountAsset and GroupInvoice, which both rest on sums, are together in
`Accounting_proofs`, which `Reports_proofs`, about AccountingReports, extends.
Definitions marked "Mutant" are not part of a specification: each is a plausible bug,
and a run must fail when it takes the place of the definition under it.

**PriorityQueue** is the heap of `channels.py` whose removals are lazy:
`heap`, `known` (`_known`), `removed` (`_removed`), the `call` in progress and what the
last one returned (`out`). `Add` and `Remove` are steps; `q[0]` and `pop()` begin, drop
removed entries from the top one at a time, and return. **SortedSet** is what the
callers think it is, and the refinement maps its set to `known \ removed`.

**Channels** is the `ChannelManager` and the loop of the runner around it. `job`
is `_jobs_by_uuid` with the properties of a `ChannelJob`, `ch` the two queues, the
running and the failed set of each channel, `pauseUntil` its `_pause_until`. `pc`
says where the single-threaded loop is: `load` (`initialize_databases`), `idle`
(`process_notifications` and `select`), `serve` (`get_jobs_to_run` of the channel
`at` in the order its recursion visits them), `yielded` (the generator is
suspended while `set_job_enqueued` runs), `wait` (`get_wakeup_time`). Rows are
environment: a notification shows any of the `Shapes` of a job and any state, in
any order, but for "running", which only the runner itself brings about. The
methods that recurse to the root (`remove`, `set_running`) act on all channels of
`Path[home]` at once.

**JobRunner** is the system around one root channel. `row` has the state and
retry of each row of `queue_job`; `notifs` what PostgreSQL has notified;
`runner`, `queue` and `running` the memory of the runner; `req` the requests,
from the thread that sends one (`sending`), through the worker's transactions
(`accepted`, `started`, `performing`, `finished`, `enqueueing`), `client` being
true while the thread still waits for its answer; `tx` the transactions of users.
REPEATABLE READ is modelled where it matters: a transaction reads when it begins
(`seen`, `woken`, `ready`) and `Commit` marks every open one that has read a
changed row (`stale`, `changed`), which can then not write it. One commit of the
code is one action; `store()` writes state and retry over whatever is there, as
the code does.

**JobRecord** is the row of one job with all that JobRunner leaves out: `eta`, the
four dates, the exception, the number of tries. `exec` is the `Job` in the memory of
the worker, from `load` to `store`; `pattern` the retry pattern of its function, which
users may edit in between. `asked` and `raised` are history: what the last postponement
asked for, and the retryable errors since the job was last set to pending. The job
has no parents and one execution at a time; that requests and wake-ups are late is
the subject of JobRunner.

**DelayGraph** has the pure part of `delay.py`: chains, groups, `on_done`, the graph
that `delay()` makes of them, its topological sort, and the dependencies as the
documentation describes them, to compare with. **ChannelTree** reads a configuration
of channels and finds or makes the channel of a name. **JobCreation** composes the
two: a `caller` builds `objects`, delays them in a transaction that sees the table
as it was when it began (`seen`), and commits to `rows`; the runner files each job
under a channel (`served`) and jobs are run. Transactions do not overlap. `story` is history: what each `delay()` was asked
for. What becomes of a job in its channel is left to Channels and JobRunner.

**BillOfLoading** is one order. `bol` has the fields that decide what may happen
to it; `ledger` counts what accounting really has, to compare with what the order
links to; `jobs` and `writes` the delayed calls, by method and by update. A job
that raises is rolled back and stays among those that may run, since a user may
requeue it. A button acts if the order is or *was* in a state that shows it
(`shown`): no method of the form looks at the state again.

**Receivables** has the invoices as the modules of fastrak use them, known by what
they are for; posting and payment belong to Odoo and are external. **GroupInvoice**
adds the groups: `lines` are found among the unpaid invoices of a period, `byHand` is
history, `discount` what the group prints, `penalty` what the cron computes.
**WithdrawRequest** adds requests with their commission, and the `payments` and
`entries` that are made for them. In both, a button acts on a record in any state,
since the methods do not look at it; in GroupInvoice a form may show an invoice that
has been paid since.

**AccountAsset** has for each asset its plan, value and depreciation lines, and the
`moves` made from the lines, alone or one for a group of assets. A step is a
transaction: those that overlap write the same row of the asset or of the sequence
of a journal, and one of them is run again. `compute_depreciation_board`, the pro rata
of the first line and the rounding of its last are as in the code, with months for
dates and units for money. `Book` is what `create_move` and `create_grouped_move` do: the
lines are divided into batches, one for each entry (`Each`, `Grouped`), linked, and
`PostEntries` closes the assets of the lines of which nothing is left.

**AccountingReports** has `entries` with their lines and `partials` for
reconciliations, which are entered, posted, cancelled, reset, reconciled and
unreconciled by the framework, and one operator per query of a report: `_query_get`,
the ledgers, the trial balances, the journals and taxes, the financial report and its
tree of nodes, the aged balance, and the merge of two lists of accounts by a cursor.
Where the code goes through rows one by one (the running balance of the ledger, the
walk with two cursors) so does the model. An item is reconciled in full
(`full_reconcile_id`) if some set of items that has it is closed under
reconciliations and nothing is left of any of them.

**Sums** has the sum of a function and a set in an order, as functions and folds that
can be proved about.

## 3. The runs

| run | system | checks |
|---|---|---|
| `priority_queue` | 4 objects, every sequence of calls | the books of the lazy heap agree, it implements `SortedSet` |
| `channels` | 4 jobs, 3 nested channels of capacity 2, unlimited and 1, the middle one throttled, the innermost sequential with etas on two of its jobs; one job edited between channel, priority and eta; clock to 4 | a job is in one place; capacities, etas, throttle and the order of a sequential channel; the wakeup time finds everything |
| `jobs_safe` | 3 jobs, one after the two others, capacity 1; an operation of a user, a restart of the runner, a timeout, the autovacuum | the runner's memory follows the rows; capacity; a child is woken when, and only when, its parents are done |
| `jobs_live` | a chain of 2 jobs of 2 tries; a cancellation, a runner stop, a worker stop and a timeout | no job is executed twice at a time; jobs end |
| `jobs_records` | one job, three retry patterns, clock to 7, 4 tries | dates and exception of each state; tries limited and spaced; what the autovacuum keeps |
| `jobs_created` | a caller with one delayable, then one with three; 2 operations each; 5 configurations, of which 3 are refused | dependencies as documented; identity keys; channels found and limits applied; topological order |
| `bol_flow` | 4 requests, every button, updates of all fields but the payment method | billed once, and in the end; one trip of each kind; collected after delivery |
| `group_invoices` | 2 orders of different amounts, 2 groups due on different days, one discount by percent and one by amount | an invoice is in one group; discounts agree; one penalty invoice |
| `withdrawals` | 2 requests of amounts in one, both or none of two ranges | paid out once; a request that is done is settled |
| `assets` | 2 assets of 2 values; linear pro rata and grouped, degressive, and until a date and confirmed at once; 2 edits, clock to 3 | the board adds up; booked once; closed only when depreciated; open only while something is left to do |
| `reports` | every book of 3 entries over 3 days, one of them reset, cancelled or unreconciled | the reports agree with one another |
| `jobs_skew` | the three jobs, capacity 2; a user sets a failed parent to done | violation: section 6 |

Every property of a passing run has a mutant in `PROJECT.json`, a plausible bug of
the code under which the run fails.

**Bounds.** `MaxTime` bounds the clocks: in Channels etas and the ends of throttles
fall below it, so that each is waited for and passed; in JobRecord it leaves room for
a retry, its eta, a requeue by the garbage collector and the removal interval one
after the other; in AccountAsset all lines of every plan fall due, and of two assets, of one or of two
categories, entries are made together and apart. Four jobs are what it
takes to have two in the sequential channel, one that competes with them and one that
is edited. In JobRunner `MaxUserOps`, `MaxRunnerStops`, `MaxWorkerStops`, `MaxTimeouts`
bound what may go wrong to one each: one suffices for a request that is served after
its client gave up, a load of rows in every state, a transaction that conflicts with
any other. `MaxTries` bounds the tries that conflicts add, which nothing bounds in
the code; at this bound a conflicting execution can only fail. Two `Requests` let a
job be asked for twice and two parents finish at the same time; they are
interchangeable, hence `SYMMETRY` (not used with liveness). `MaxRequests` = 4 lets a
pick-up, a delivery and a payment come with one repeated or one update between them.
Fees and money of an order are 1, or 0 by an update: the code only compares them
with 0. `MaxOps` = 2 lets three delayables be a group in a chain, share a parent, or
be connected twice. `MaxDiscount`, `MaxByHand` and `MaxLocked` = 1 let a group be
discounted, edited and refused once, before or after it is generated again.
`MaxEdits` bounds edits and modifications of assets, `MaxResets` = 1 what is reset,
cancelled or unreconciled in the books that are reported; three days (`LastDate`) are
one before, one in and one after a period, and three entries (`MaxEntries`) an invoice
with two payments, one of them later than the date of an aged balance. The amounts of groups and requests are odd and even, so that both ways of
rounding happen.

**Deadlock** is checked for PriorityQueue and Channels, whose callers never stop.
Elsewhere the system comes to rest when nothing is left to do (and the bounds are
used up), so the runs say `CHECK_DEADLOCK FALSE`; that JobRunner and BillOfLoading do
not rest too early is what the liveness properties say, and AccountAsset what
`OpenHasWork` says.

**What the runs leave out on purpose.** In `jobs_safe` users set no parent of another
job to done: with it NoOrphan fails as in `jobs_skew`; no two children share some of
their parents only, since with capacity 2 one of them may be forgotten (section 6); and
no worker crashes, since one
killed between the commit of `done` and `enqueue_waiting` leaves the children waiting
for ever (`main.py:40`; the documentation makes no promise about it). `JobsEnd`
exempts that crash, and the children of jobs that failed or were cancelled. In
`jobs_live` users only cancel: one who requeues a job that is being executed has it
executed twice, which the code allows on purpose. `channels` edits the
channel of a job only between A and the root, neither of which is full (section 6). `jobs_created` has callers whose transactions do not overlap: with
two at a time `OnePerKey` does not hold (section 6).
`bol_flow` keeps the payment method: changed by a late job after the pick-up, it can
leave an order never billed, or make a payment taken on pick-up one of an order to be
paid on delivery. Its fees change only to 0: an order that is free when it is
confirmed is never billed later. `group_invoices` has one generation at a time, and
hand edits of invoices on credit only. `withdrawals` supposes that a payment settles
its own invoice.

## 4. Fairness

`JobRunner!Fairness` is weak fairness of the runner's own steps, of the garbage
collector and of each request a worker serves. The runner is a loop that ends only
with its process, and is started again by its worker; crons run periodically; a
worker's request ends, within Odoo's time limits. Nothing is assumed of timeouts,
crashes and users except that a user's open transaction ends. That a crashed runner
comes back is `WF(Listen)`. `RunJob` is fair as a whole and not for each job: with a
fixed priority the code owes a job nothing while others keep coming, which the
bounds on tries and operations rule out here.

`BillOfLoading!Fairness` says that a delayed `confirm` or `deliver` job that *can*
succeed is run, which is what `jobs_live` shows of the queue, users requeueing
those that failed earlier. It supposes that accounting is configured (journals,
products, cost centers), without which the jobs raise every time.

The other modules state no fairness: users decide what comes next, and the crons
of assets and penalties are checked for what they must not do.

## 5. The proofs

For any value of the constants under the assumptions of the modules: finite, numbered
assets with plans of whole months that `_check_prorata` accepts, whole amounts and
fractions for rates, a tree of channels
that `subchannels` lists children first, finite jobs with the ranks of different jobs
different (`sorting_key` ends with the id), a graph without loops of length one, finite
groups and retry patterns, natural bounds, names that are sequences of strings, finitely many accounts and kinds of
balanced entries (`ReportsAssumption`), and a financial statement whose nodes refer
to later ones and that has each account once (`SheetAssumption`: the property is about
such statements). An assumption that a theorem needs beyond these is a definition named
in its statement.

* **PriorityQueue**: `QueueInvariance` proves BooksAgree — the heap holds what is in
  `_known`, once each, and `_removed` is a part of it — inductive with the types.
  `LenCorrect` and `QueueRefinement` follow: an entry that is dropped is not in the sorted
  set, and the top that is returned is the least that is.
* **Channels**: `TypeCorrect` and `FlowInvariance` share the inductive invariant
  `TypeOK /\ FlowIsConsistent`; each needs the other, since a function updated at a
  channel that is no channel would be left as it is. The lemmas say of each method (`RemoveOK`,
  `SetPendingOK`, ...) where it leaves the job it is given and, by `Frame`, that it
  leaves all others alone; `PromoteOK` uses that paths are chains. On it rest the
  action properties. `ThrottleCorrect`: the pause of a channel covers the interval after
  its last job, or that is over (`PauseCovers`), whatever resets the pause meanwhile.
  `EtaCorrect`: a job in a queue by rank is due, and one in a queue by eta still has
  the eta of its row (`EtaIsDue`), since an eta is dropped only when it is past.
  `SequentialCorrect`: the head that `pop` compares exists in a finite queue
  (`EtaHeadExists`) and the ranks in a channel are those the runner was told last.
  `StartsFitCorrect` assumes that no edit moves a job in or out of a channel with a
  capacity (`EditsKeepLimits`), without which it is false (section 6), and shows that
  a channel only exceeds its capacity by jobs that ran when they were read.
  `WakeupCorrect`: a channel that was served has nothing to run now, is paused or is
  full, and one that asks for a wakeup has nothing to run before the alarm
  (`WakeupInv`); the channels that do not ask can only pass jobs to such a one.
* **JobRunner**: `Types`. `CapacityIsKept` needs `Aware`: while the runner is
  loading or up, every job enqueued or started is in its running set, which never
  exceeds the capacity, and none is in its queue. All that others do to rows makes no job active (`QuietStep`); only `RunJob`
  does, having counted. `OneExecution`, when users only cancel (`OnlyCancels`), needs
  that a job that is executed is `started` in its row (`ExecutingIsStarted`), that
  nobody but its execution changes it then — not a late wake-up (`WokenWait`), not a
  cancellation that saw it in another state (`CancelSees`) — and that only an
  `enqueued` job is started. `ViewCorrect`: what the runner holds of a job is what
  the row says or the *last* notification of it will. `ParentsComeFirst`: a job that
  may run, in its row, the queue of the runner, a request, or the memory of a
  transaction, has had all its parents done (`Cleared`), and so has one that a late
  UPDATE is going to wake; the autovacuum must delete nothing but done jobs
  (`OnlyDoneVacuumed`), as `ParentsDone` ignores parents that are deleted: with a
  cancelled parent deleted the child does run.
  `NoChildForgotten` is the converse, for any capacity, where users cancel
  (`OnlyCancels`), no worker is killed (`NoWorkerKilled`), jobs that
  share a parent share all (`Layered`). Then two workers that wake a child
  have the same children, so the one whose UPDATE fails to serialize finds them
  all woken by the other; of two that finish at the same time the later one sees the
  other done, as each commits `done` before it begins to wake.
* **JobRecord**: `DatesOfState` and `LimitedTries` share one inductive invariant. To
  keep the dates of a row right those of the copy in the worker's memory must be right
  too, and a job that waits or is executed must have no date of a cancellation. The errors
  that asked for another try are among the tries that the row and that copy count
  (`Counts`), whatever conflicts add and requeues reset in between.
  `NothingWaitingDeleted` follows from the dates. `TriesAreSpaced`: until the time that
  was asked for is over, the row keeps its eta (`Spaced`), whoever changes its state; the
  search of the pattern, a fold, finds the entry of the most tries reached (`ChosenIs`).
* **BillOfLoading**: `Types`, `OneTripOfEach` and `NoDocumentTwice` are inductive with
  the types. `CollectionFollowsDelivery` assumes that no update changes the payment
  method (`MethodIsKept`) and rests on `OneTripOfEach`: one delivery trip means
  delivered.
* **AccountAsset**: one invariant, `AssetInv`, of which all four properties follow. For
  each asset (`AssetHolds`) it says that while a line is planned its lines add up to the value
  to depreciate (`Conserves`), that nothing is left of a closed one (`Closes`), and what
  an open one waits for (`Runs`, `Waits`): lines that all have entries and leave nothing
  to depreciate have an entry that is not posted, since the posting of the last one would
  have closed the asset. For that `Moved` must say that the entry of a line exists and
  `Starts` that a draft has none. Of all assets together it says that an entry is the sum
  of its lines (`Booked`). The board is a recursive function that is first shown to exist,
  then followed line by line: what a line takes, the residual loses, and the last line
  takes all of it. When it is made again, the lines with entries keep their amounts but
  change places, which sums do not notice (a bijection); when entries are made, the
  batches are disjoint and each new entry gets the amount of its own (`LinkLinks`).
* **GroupInvoice**: `GroupsAreDisjoint`, inductive with the fields of a group: only
  generation adds lines that are not by hand, and it takes invoices of no other group.
  `PenaltyBilledOnce`: every penalty invoice is the one its group links to, and as it
  is in no group it is never discounted (`Books`). `DiscountsAdd`: the discounts that the
  groups print add up to those the invoices were given; what the sums are is shown by
  induction over the subsets of a finite set (`SubsetInduction`, from `WFMin`).
* **WithdrawRequest**: `PaidOnce` and `Settled` rest on one invariant: every invoice is
  numbered by the request it is for (`Numbered`), and of a request whose money was
  paid out the fee has been billed and nothing of it is left (`PaidIsSettled`), which
  is why neither an edited fee nor a button pressed again pays anything more.
* **JobCreation**: an open transaction has the objects it built, the rows it saw and
  those it makes (`Snapshot`, `Memory`, `Calls`, `Objects`): `DelayedIsKept` and
  `KeysAreUnique`. `DocumentationHolds` compares the graph that `delay()` makes of
  chains and groups with what the documentation says of them, for all shapes that it
  covers, and needs that a row keeps the dependencies it was stored with.
  `LimitsHold`: a configured channel has its limits, another the default, and a job
  is filed at or below each configured channel above its name, whatever names were
  looked up before (`Filed`); the reading of a configuration is followed entry by entry.
  `ExecutedInOrder`: in the topological sort each job follows those it depends on
  (`Sorted`), for every graph without a cycle. The recursive functions of
  these modules are first shown to exist, as least fixed points or by the number of
  their steps, since nothing can be said of a function that is only written down.

* **AccountingReports**: one invariant, `ReportsInv`: entries balance, and what is
  reconciled are posted items of one account and one partner, a debit and a credit. It
  is needed because no property says where items come from: a trial balance is
  nothing in total only if every entry is, and an aged balance agrees with a ledger
  only if both ends of a reconciliation are in it. A draft can be reset or cancelled at
  any time, so that the reconciliations of an entry must go with its state. The four
  properties follow from it by way of sums over sets (`Over`), taken class by class
  (`OverClasses`), in either order (`OverSwap`) and term by term (`OverPlus`):
  `LedgersAgreeHolds` follows the rows of the ledger, of which each keeps the balance of
  all before it (`RowsFit`), and takes the journals and the accounts as two ways to divide
  the same items. `SheetBalancesHolds`: the value of a node is linear in those of its
  accounts (`RolledUpLinear`), so that it is the sum over the accounts of their balance
  times how often the statement has them. `MergedAgreesHolds`: when the walk comes to an
  account, the groups that each cursor has passed are those of the accounts before it,
  and as the groups are in the order of the codes the next ones are its own. `AgedAgreesHolds`:
  what reconciliations until a date take off the debits of a partner they take off the
  credits also (`ClosedRest`), so that what was open at a date adds up to the balance; the
  same argument with the items reconciled in full says that they add nothing.

Only model-checked: liveness (`JobsEnd`, `BilledInTheEnd`), which needs
`ENABLED` of every fair action, beyond TLAPS. Every other property of a passing run is
stated by a theorem. `NoOrphan`, `AtMostOneExecution`, `ParentsFirst`,
`StartsFit` and `CollectedAfterDelivery` are proved under the assumptions named above,
which are what the runs leave out on purpose.

## 6. Findings

* **`jobs_skew`** — a user sets a failed parent to done while the other parent
  finishes. Each transaction updates the children on a snapshot in which the other
  parent is not done; they write no row in common, both commit, and the child waits
  for ever, against README.rst:232.

Seen while modelling, of which no run is kept. In the queue:

* Two workers wake children at the same time: the UPDATE of one fails to serialize, and
  the loop that would "Automatically retry" (main.py:49) repeats it in the aborted
  transaction, where it can only fail. What it shares with the other worker is woken;
  its other children wait for ever (with two parents, a child of both and a child of the
  second alone, at capacity 2, NoOrphan fails).
* With etas on two jobs of a sequential channel a ready job can pass one of higher
  priority: `pop` compares only the job with the earliest eta (channels.py:337), and
  `SequentialOrder` says exactly when. A job moved, while it runs, into a channel with a capacity can exceed it.
* A row that goes back to `wait_dependencies` is ignored by `notify`
  (channels.py:1057). Requeued while pending, the job stays in the runner's queue and
  may run before its parent; retried while running, it keeps its place, and with
  capacity 1 its parent is never picked.
* `set_job_enqueued` writes a row whatever its state: a job a user sets to done just
  before runs all the same, though "the final state is done" (job.py:120).
* "the failed job and all its dependent jobs can be canceled by a user"
  (README.rst:233): the wizard leaves out jobs in `wait_dependencies`.
* `_tail` of a chain takes the `_head` of its last item (delay.py:335), so that
  `chain(a, chain(b, c)).on_done(x)` puts `x` after `b`; delay.py:38 says otherwise.
  `DependsAsDocumented` leaves out chains that begin or end with a chain.
* "if specified and a job with the same key has not yet been run, the new job will not be
  created" (README.rst:255): two transactions at a time do not see the job of each other, take no
  lock, and create both (job.py:295); and the search leaves out jobs in
  `wait_dependencies`.
* The jobs without a key of a graph are lost when all its jobs with one exist
  (delay.py:277). No cycle is ever detected. Two jobs of one channel name may be filed
  under different channels, before and after the name is known below root.
* A retry pattern with a pair of seconds, which the help of the field allows
  (queue_job_function.py:66), makes its check raise a TypeError. "5 first retries are
  postponed 10 seconds later" (README.rst:374) are four.
* An exception in the flush after `set_done` leaves a failed job with a date of
  completion, and the autovacuum deletes it; a job cancelled long ago and then set to
  done keeps its old date and is deleted at once. A failed job that is loaded and
  stored again loses `exc_name` and `exc_message`.

In fastrak:

* A confirmation job that runs late takes an order out of refund, canceled or
  audited; an order can be paid in cash and by POS if `is_pos_payment` changes between
  the requests; editing a trip after delivery sets the delivery status back. A payment
  in cash registered before the invoice is made enters the amount 0 and keeps the real
  payment out (bill_of_loading.py:792). Fees updated before the pick-up are written
  after it, and the invoice keeps the old ones (controllers/bill_of_loading.py:448).
* The check of a discount's percentage, `0 >= p > 100`, never fires. Amounts are those
  of the whole invoice though a comment says "Using Amount Residual"
  (group_invoice.py:209). Fixed discounts can make an invoice negative; a penalty that is
  then refused stops the cron for all groups.
* The amount and the fee of a withdraw request can be edited after it was billed and
  paid out. Ranges of commissions may overlap, and amounts outside all of them are
  accepted with no fee.

In accounting:

* An invoice that is reset and posted again makes a second asset
  (account_invoice.py:29). An asset closes when its last line is linked or posted while
  other entries are still drafts, against its help text (account_asset.py:88).
  `Modify` to fewer lines than are posted leaves the rest of the value without a line.
  Rounding may depreciate more than the value on the way, or all of it before the
  last line: 2 over 4 periods are lines of 1, 1, 1 and -1, and the posting of the
  second closes the asset with 1 and -1 still planned, which nothing will book
  (hence `ClosedIsDepreciated` says that these cancel out, not that there are none).
* The aged balance drops open items without a partner when no other partner is found
  (report_aged_partner.py:88) and shows them when partners are chosen. The merged trial
  balance ignores company and journals. The practical amount of a budget counts
  entries that are drafts or cancelled.

## 7. Not modelled

`PROJECT.json` says why for each component. Of the parts modelled: the syntax of
the channel configuration, several databases, the graceful stop, the encoding of
arguments and exceptions, the records of functions and channels and their cache,
direct execution of graphs in tests (queue_job); discounts, weights, addresses, the
lines of documents, edits of trips in the form and order_payment_status (bill of
loading); dates of a period and deletion of groups (group invoices); the choice of
journals, notifications (withdraw requests); the cancellation of an asset's invoice,
deletion of draft entries, planned lines edited by hand (assets); layout, currencies,
several companies, analytic accounts (reports).

Customers, employees and authentication, accounts and banks, the CRM, budgets, the
printed reports and cost centers have no protocol to check: they are fields, views and
handlers of one transaction each. The Odoo ORM and PostgreSQL appear only as how they
are used: transactions, notifications, row locks.

## 8. Plan

Done, in this order: PriorityQueue, Channels, JobRunner, BillOfLoading, AccountAsset,
JobCreation with DelayGraph and ChannelTree, Receivables with GroupInvoice and
WithdrawRequest, AccountingReports, JobRecord. Next:

1. **BillOfLoading**: discounts, and edits of trips in the form, under which
   `TripsInOrder` does not hold; its jobs as an instance of what JobRunner promises
   (an abstract queue that both can refine).
