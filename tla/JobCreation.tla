------------------------------ MODULE JobCreation ------------------------------
(***************************************************************************)
(* How jobs come to be: callers connect delayables into graphs and delay    *)
(* them (DelayGraph), which stores jobs unless jobs with the same identity  *)
(* keys wait already; once the transaction is committed, the runner files   *)
(* each under a channel of its tree (ChannelTree) and jobs are run.         *)
(*                                                                         *)
(* Callers are served one after the other, each in a transaction that sees  *)
(* the jobs as they were when it began, while the jobs of the ones before   *)
(* go on.  What happens to a job once it is in its channel is the subject   *)
(* of Channels and JobRunner; here it is pending, started, then done.       *)
(***************************************************************************)
EXTENDS DelayGraph, ChannelTree

CONSTANTS
    Callers,   \* the callers: the properties of the delayables each one has
    Configs,   \* the configurations of channels the runner may start with
    MaxOps     \* bound on the chains, groups and connections of a caller

Jobs == UNION {{c} \X DOMAIN Callers[c] : c \in DOMAIN Callers}

ASSUME CreationAssumption ==
    /\ Len(Callers) \in Nat \ {0} /\ DOMAIN Callers = 1..Len(Callers)
    /\ \A c \in DOMAIN Callers :
        /\ Len(Callers[c]) \in Nat /\ DOMAIN Callers[c] = 1..Len(Callers[c])
        /\ \A d \in DOMAIN Callers[c] : /\ DOMAIN Callers[c][d] = {"channel", "key"}
                                         /\ Callers[c][d].channel \in Seq(STRING)
    /\ \A cfg \in Configs : /\ Len(cfg) \in Nat /\ DOMAIN cfg = 1..Len(cfg)
                           /\ \A i \in DOMAIN cfg : cfg[i].name \in Seq(STRING)
    /\ MaxOps \in Nat
    /\ None \notin Nat \X Nat

VARIABLES
    config,   \* what the runner was started with
    tree,     \* the channels of the runner
    caller,   \* the caller that is served
    objects,  \* its delayables, chains and groups
    ops,      \* how many chains, groups and connections it has made
    memory,   \* the jobs in its memory: _generated_job of its delayables
    seen,     \* the table of jobs as its transaction sees it, its own included
    rows,     \* the committed table of jobs
    served,   \* the channel of each job that the runner has been notified of
    story     \* history: what each call of delay() was asked for

vars == <<config, tree, caller, objects, ops, memory, seen, rows, served, story>>

Delayables(c) == [d \in DOMAIN Callers[c] |-> Delayable(d)]
Props(d) == Callers[caller][d]

\* Job.__init__: a pending job without dependencies and graph.
NewJob(d) == [state |-> "pending", depends |-> {}, reverse |-> {}, graph |-> None,
              key |-> Props(d).key, channel |-> Props(d).channel]

Serve(c, table) ==
    /\ caller' = c
    /\ objects' = IF c \in DOMAIN Callers THEN Delayables(c) ELSE << >>
    /\ ops' = 0
    /\ memory' = << >>
    /\ seen' = table

Init ==
    /\ config \in Configs /\ Accepted(config) /\ tree = SimpleConfigure(config)
    /\ caller = 1 /\ objects = Delayables(1)
    /\ ops = 0 /\ memory = << >> /\ seen = << >> /\ story = {}
    /\ rows = << >> /\ served = << >>

-----------------------------------------------------------------------------
(* The caller. *)

Build(new) ==
    /\ ops < MaxOps /\ ops' = ops + 1
    /\ objects' = new
    /\ UNCHANGED <<config, tree, caller, memory, seen, rows, served, story>>

\* Objects are put into at most one chain or group.
Loose == {x \in DOMAIN objects :
            \A y \in DOMAIN objects : objects[y].kind # "delayable" => x \notin ToSet(objects[y].items)}

NewChain == \E x, y \in Loose : x # y /\ Build(Append(objects, Chain(<<x, y>>)))
NewGroup == \E x, y \in Loose : x < y /\ Build(Append(objects, Group(<<x, y>>)))
Connect == \E x \in DOMAIN objects :
            \E Y \in SUBSET (DOMAIN objects \ Vertices(objects[x])) \ {{}} : Build(OnDone(objects, x, Y))

Uuid(d) == <<caller, d>>

\* _build_job for the delayables that have none.
Built(M) == [d \in M \cup DOMAIN memory |-> IF d \in DOMAIN memory THEN memory[d] ELSE NewJob(d)]

Graphs(jobs, M) == {jobs[d].graph : d \in M} \ {None}

\* _ensure_same_graph_uuid and add_depends raise: jobs of several graphs, a
\* single job that has a graph, a job that depends on itself.
Refuses(jobs, M, links) ==
    \/ Cardinality(Graphs(jobs, M)) > 1
    \/ Cardinality(M) = 1 /\ Graphs(jobs, M) # {}
    \/ \E d \in M : <<d, d>> \in links

\* The graph of the jobs, a new one of the caller if they have none yet.
GraphOf(jobs, M) ==
    IF Cardinality(M) = 1 THEN None
    ELSE IF Graphs(jobs, M) = {} THEN Uuid(Min(M)) ELSE CHOOSE g \in Graphs(jobs, M) : TRUE

\* Mutant: a parent does not know its children.
ConnectedOneWay(jobs, M, links) ==
    [d \in DOMAIN jobs |->
        IF d \notin M THEN jobs[d]
        ELSE LET parents == {e[1] : e \in {l \in links : l[2] = d}}
             IN [jobs[d] EXCEPT !.graph = GraphOf(jobs, M),
                    !.depends = @ \cup {Uuid(p) : p \in parents},
                    !.state = IF parents = {} THEN @ ELSE "wait_dependencies"]]

\* The jobs of a graph with its uuid and their dependencies; those in memory
\* are never done, so that one with a parent waits.
Connected(jobs, M, links) ==
    [d \in DOMAIN jobs |->
        IF d \notin M THEN jobs[d]
        ELSE LET parents == {e[1] : e \in {l \in links : l[2] = d}}
             IN [jobs[d] EXCEPT !.graph = GraphOf(jobs, M),
                    !.depends = @ \cup {Uuid(p) : p \in parents},
                    !.reverse = @ \cup {Uuid(c) : c \in Successors(links, d)},
                    !.state = IF parents = {} THEN @ ELSE "wait_dependencies"]]

\* Mutant: only jobs that are being run count as existing.
ExistingStarted(key) == {u \in DOMAIN seen : seen[u].key = key /\ seen[u].state = "started"}

\* job_record_with_same_identity_key.
Existing(key) == {u \in DOMAIN seen : seen[u].key = key /\ seen[u].state = "pending"}

\* Mutant: one existing job is enough.
OneExists(jobs, M) == \E d \in M : jobs[d].key # None /\ Existing(jobs[d].key) # {}

\* Whether the jobs of a graph are not stored: it has identity keys, and a job
\* waits for each of them.
AllExist(jobs, M) ==
    LET keyed == {d \in M : jobs[d].key # None}
    IN keyed # {} /\ \A d \in keyed : Existing(jobs[d].key) # {}

\* A call of delay(): the jobs it is for, the dependencies the documentation
\* gives them, whether they were stored, and whether an end of a chain in the
\* graph is itself a chain.
Call(x, M, stored) ==
    [jobs |-> {Uuid(d) : d \in M},
     links |-> {<<Uuid(e[1]), Uuid(e[2])>> : e \in DocumentedLinks(objects, x)},
     stored |-> stored,
     nested |-> Ends(objects) # DocumentedEnds(objects)]

\* store(): the rows of the jobs are written, or created.
Stored(jobs, M) ==
    [u \in DOMAIN seen \cup {Uuid(d) : d \in M} |->
        IF u[1] = caller /\ u[2] \in M THEN jobs[u[2]] ELSE seen[u]]

\* delay() of an object: all its jobs are stored, or none, or it raises and the
\* transaction is rolled back.  A job already in the table is written again; jobs
\* that were left out are not delayed again.
Delay(x) ==
    LET M == Members(objects, x)
        links == Links(objects, Ends(objects), x)
        jobs == Connected(Built(M), M, links)
        stored == ~AllExist(jobs, M)
    IN /\ \A call \in story : ~call.stored => call.jobs \cap {Uuid(d) : d \in M} = {}
       /\ \/ /\ Refuses(Built(M), M, links)
             /\ Serve(caller + 1, rows)
             /\ story' = {call \in story : \A u \in call.jobs : u[1] # caller}
          \/ /\ ~Refuses(Built(M), M, links)
             /\ story' = story \cup {Call(x, M, stored)} /\ story' # story
             /\ memory' = jobs
             /\ seen' = IF stored THEN Stored(jobs, M) ELSE seen
             /\ UNCHANGED <<caller, objects, ops>>
       /\ UNCHANGED <<config, tree, rows, served>>

Own(table) == {u \in DOMAIN table : u[1] = caller}

\* The jobs of the caller are seen by others, and the next one is served.
Commit ==
    /\ memory # << >>
    /\ rows' = [u \in DOMAIN rows \cup Own(seen) |-> IF u \in Own(seen) THEN seen[u] ELSE rows[u]]
    /\ Serve(caller + 1, rows')
    /\ UNCHANGED <<config, tree, served, story>>

-----------------------------------------------------------------------------
(* The runner and the workers. *)

\* ChannelManager.notify files a job under its channel; that of a job that waits
\* is looked up again when it becomes pending.
Notify(u) ==
    LET path == Serves(tree, rows[u].channel, TRUE)
    IN /\ u \notin DOMAIN served /\ rows[u].state = "pending"
       /\ tree' = Grown(tree, path)
       /\ served' = [v \in DOMAIN served \cup {u} |-> IF v = u THEN path ELSE served[v]]
       /\ UNCHANGED <<config, caller, objects, ops, memory, seen, rows, story>>

Update(table) == rows' = table /\ UNCHANGED <<config, tree, caller, objects, ops, memory, seen, served, story>>

\* set_started.
Start(u) ==
    /\ u \in DOMAIN served /\ rows[u].state = "pending"
    /\ Update([rows EXCEPT ![u].state = "started"])

\* set_done and enqueue_waiting: the children whose parents are done.
Finish(u) ==
    LET done == [rows EXCEPT ![u].state = "done"]
        ready == {c \in rows[u].reverse : /\ rows[c].state = "wait_dependencies"
                                          /\ \A p \in rows[c].depends : done[p].state = "done"}
    IN /\ rows[u].state = "started"
       /\ Update([v \in DOMAIN rows |-> IF v \in ready THEN [done[v] EXCEPT !.state = "pending"]
                                        ELSE done[v]])

Next ==
    \/ NewChain \/ NewGroup \/ Connect
    \/ \E x \in DOMAIN objects : Delay(x)
    \/ Commit
    \/ \E u \in DOMAIN rows : Notify(u) \/ Start(u) \/ Finish(u)

Spec == Init /\ [][Next]_vars

-----------------------------------------------------------------------------
(* Properties. *)

\* The jobs that the documentation makes a job depend on.
Documented(u) ==
    UNION {{l[1] : l \in {k \in call.links : k[2] = u}} : call \in {c \in story : c.stored}}

\* A job depends on the jobs that the documentation of chains, groups and
\* on_done says, and these know of it, through any nesting of groups, sharing of
\* jobs and repeated calls of delay(); not where a chain begins or ends with a
\* chain.  Both ends are in the table, and in one graph.
DependsAsDocumented ==
    \A u \in DOMAIN rows :
        /\ (\A call \in story : u \in call.jobs => ~call.nested) => rows[u].depends = Documented(u)
        /\ \A p \in rows[u].depends :
            p \in DOMAIN rows /\ u \in rows[p].reverse /\ rows[u].graph = rows[p].graph
        /\ \A c \in rows[u].reverse : c \in DOMAIN rows /\ u \in rows[c].depends

KeyOf(u) == Callers[u[1]][u[2]].key

\* A delayed job is stored, unless another job with its identity key was there
\* before; not where only some jobs of a graph have keys.
NoJobLost ==
    \A call \in story : \A u \in call.jobs :
        u[1] < caller /\ (\A v \in call.jobs : KeyOf(v) # None) =>
            \/ u \in DOMAIN rows
            \/ \E v \in DOMAIN rows : v # u /\ rows[v].key = KeyOf(u)

\* Two jobs with one identity key never wait to be run, when each was delayed
\* alone, by callers of which one saw the jobs of the other.
OnePerKey ==
    \A u, v \in DOMAIN rows :
        /\ rows[u].key # None /\ rows[u].key = rows[v].key
        /\ rows[u].graph = None /\ rows[v].graph = None
        /\ rows[u].state = "pending" /\ rows[v].state = "pending"
        => u = v

\* What is configured for a channel holds for every job that is named to run in
\* it or below: the channel of the job is in or below the configured one, and
\* the tree keeps the capacities through the channels it creates.
LimitsApply ==
    LET set == {Path(config[i].name) : i \in DOMAIN config}
    IN /\ set \subseteq DOMAIN tree
       /\ \A path \in set : \E i \in DOMAIN config :
            Path(config[i].name) = path /\ tree[path] = Parsed(config[i])
       /\ \A path \in DOMAIN tree \ (set \cup {<< >>}) : tree[path] = DefaultSetting
       /\ \A u \in DOMAIN served : \A path \in set :
            IsPrefix(path, Path(rows[u].channel)) => IsPrefix(path, served[u])

\* The jobs of an object are executed parents first, each once, when they are
\* executed at once instead of queued.
OrderRespectsEdges ==
    memory = << >> => \A x \in DOMAIN objects :
        LET M == Members(objects, x)
            links == Links(objects, Ends(objects), x)
            order == TopologicalSort(M, links)
        IN Acyclic(M, links) =>
            /\ ToSet(order) = M /\ Len(order) = Cardinality(M)
            /\ \A i, j \in DOMAIN order : <<order[i], order[j]>> \in links => i < j
=============================================================================
