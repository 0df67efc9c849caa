--------------------------- MODULE Channels_proofs ---------------------------
(***************************************************************************)
(* Proof that the flow of jobs through the channels is consistent, for     *)
(* every tree of channels, every configuration and every set of jobs.      *)
(***************************************************************************)
EXTENDS Channels, PriorityQueue, FiniteSetTheorems, WellFoundedInduction, TLAPS

Channelling == [Tree -> Sets]

Inv == TypeOK /\ FlowIsConsistent

\* Job i is where it was, in D as in C; it may have ripened.
Same(C, D, i) ==
    \A c \in Tree : /\ i \in Waiting(D[c]) <=> i \in Waiting(C[c])
                    /\ ~(i \in D[c].queue /\ i \in D[c].etaQueue)
                         \/ (i \in C[c].queue /\ i \in C[c].etaQueue)
                    /\ i \in D[c].running <=> i \in C[c].running
                    /\ i \in D[c].failed <=> i \in C[c].failed

\* What only moves other jobs leaves a job placed.
LEMMA Frame ==
  ASSUME NEW C, NEW D, NEW i \in Jobs, NEW s, NEW t, Same(C, D, i),
         s = Gone <=> t = Gone, s.home = t.home, Placed(C, i, s)
  PROVE  Placed(D, i, t)
<1>1. CASE s = Gone
  BY <1>1 DEF Placed, Nowhere, Same
<1>2. CASE s # Gone /\ FailedAt(C, i, s.home)
  <2>1. FailedAt(D, i, t.home)
    BY <1>2 DEF FailedAt, Same
  <2> QED BY <1>2, <2>1 DEF Placed
<1>3. CASE s # Gone /\ RunsIn(C, i, s.home)
  <2>1. RunsIn(D, i, t.home)
    BY <1>3 DEF RunsIn, Same
  <2> QED BY <1>3, <2>1 DEF Placed
<1>4. ASSUME NEW w \in Path[s.home], s # Gone, WaitsIn(C, i, s.home, w)
      PROVE  Placed(D, i, t)
  <2>1. WaitsIn(D, i, t.home, w)
    BY <1>4 DEF WaitsIn, Same
  <2> QED BY <1>4, <2>1 DEF Placed
<1> QED BY <1>1, <1>2, <1>3, <1>4 DEF Placed

LEMMA ClearedFields ==
  ASSUME NEW r, NEW j
  PROVE  /\ Cleared(r, j).queue = r.queue \ {j}
         /\ Cleared(r, j).etaQueue = r.etaQueue \ {j}
         /\ Cleared(r, j).running = r.running \ {j}
         /\ Cleared(r, j).failed = r.failed \ {j}
         /\ Waiting(Cleared(r, j)) = Waiting(r) \ {j}
  BY DEF Cleared, Waiting

LEMMA RemoveOK ==
  ASSUME NEW C \in Channelling, NEW j \in Jobs, NEW h \in Tree
  PROVE  /\ Remove(C, j, h) \in Channelling
         /\ \A i \in Jobs \ {j} : Same(C, Remove(C, j, h), i)
         /\ Nowhere(C, j) => Nowhere(Remove(C, j, h), j)
<1> DEFINE R == Remove(C, j, h)
<1>1. \A c \in Tree : C[c] \in Sets
  BY DEF Channelling
<1>2. \A c \in Tree : R[c] = IF c \in Path[h] THEN Cleared(C[c], j) ELSE C[c]
  BY DEF Remove
<1>3. R \in Channelling
  BY <1>1 DEF Remove, Channelling, Cleared, Sets
<1>4. ASSUME NEW i \in Jobs \ {j} PROVE Same(C, R, i)
  <2> SUFFICES ASSUME NEW c \in Tree
               PROVE  /\ i \in R[c].queue <=> i \in C[c].queue
                      /\ i \in R[c].etaQueue <=> i \in C[c].etaQueue
                      /\ i \in R[c].running <=> i \in C[c].running
                      /\ i \in R[c].failed <=> i \in C[c].failed
    BY DEF Same, Waiting
  <2>1. CASE c \in Path[h]
    BY <1>2, <2>1, ClearedFields
  <2>2. CASE c \notin Path[h]
    BY <1>2, <2>2
  <2> QED BY <2>1, <2>2
<1>5. Nowhere(C, j) => Nowhere(R, j)
  BY <1>2, ClearedFields DEF Nowhere
<1> QED BY <1>3, <1>4, <1>5

\* Channel.remove takes a job out of every set it can be in.
LEMMA RemoveEmpties ==
  ASSUME NEW C \in Channelling, NEW j \in Jobs, NEW s \in Shape,
         Placed(C, j, s)
  PROVE  Nowhere(Remove(C, j, s.home), j)
<1> DEFINE h == s.home
<1> DEFINE R == Remove(C, j, h)
<1>0. h \in Tree /\ s # Gone /\ h \in Path[h] /\ Path[h] \subseteq Tree
  BY TreeAssumption DEF Shape, Gone
<1>1. \A c \in Tree : C[c] \in Sets
  BY DEF Channelling
<1>2. \A c \in Tree : R[c] = IF c \in Path[h] THEN Cleared(C[c], j) ELSE C[c]
  BY DEF Remove
<1>3. \A c \in Tree : c \in Path[h] => /\ j \notin Waiting(R[c])
                                       /\ j \notin R[c].running
                                       /\ j \notin R[c].failed
  BY <1>2, ClearedFields
<1>4. \A c \in Tree : c \notin Path[h] => /\ j \notin Waiting(C[c])
                                          /\ j \notin C[c].running
                                          /\ j \notin C[c].failed
  BY <1>0 DEF Placed, FailedAt, RunsIn, WaitsIn
<1>5. \A c \in Tree : c \notin Path[h] => R[c] = C[c]
  BY <1>2
<1> QED BY <1>3, <1>4, <1>5 DEF Nowhere

LEMMA HomePath ==
  ASSUME NEW s \in Shape
  PROVE  /\ s.home \in Tree /\ s # Gone /\ s.home \in Path[s.home]
         /\ Path[s.home] \subseteq Tree /\ Root \in Path[s.home]
  BY TreeAssumption DEF Shape, Gone

\* A job is the only one that a set_* method moves.
LEMMA RemoveThen ==
  ASSUME NEW C \in Channelling, NEW j \in Jobs, NEW s \in Shape,
         Placed(C, j, s) \/ Nowhere(C, j)
  PROVE  /\ Remove(C, j, s.home) \in Channelling
         /\ \A i \in Jobs \ {j} : Same(C, Remove(C, j, s.home), i)
         /\ Nowhere(Remove(C, j, s.home), j)
  BY RemoveOK, RemoveEmpties, HomePath

LEMMA EnqueueFields ==
  ASSUME NEW r \in Sets, NEW j \in Jobs, NEW eta
  PROVE  /\ Enqueue(r, j, eta) \in Sets
         /\ Waiting(Enqueue(r, j, eta)) = Waiting(r) \cup {j}
         /\ Enqueue(r, j, eta).running = r.running
         /\ Enqueue(r, j, eta).failed = r.failed
         /\ \A i \in Jobs \ {j} :
               /\ i \in Enqueue(r, j, eta).queue <=> i \in r.queue
               /\ i \in Enqueue(r, j, eta).etaQueue <=> i \in r.etaQueue
         /\ j \notin Waiting(r) =>
               ~(j \in Enqueue(r, j, eta).queue /\ j \in Enqueue(r, j, eta).etaQueue)
  BY DEF Enqueue, Waiting, Sets

LEMMA SetPendingOK ==
  ASSUME NEW C \in Channelling, NEW j \in Jobs, NEW s \in Shape,
         Placed(C, j, s) \/ Nowhere(C, j)
  PROVE  /\ SetPending(C, j, s) \in Channelling
         /\ \A i \in Jobs \ {j} : Same(C, SetPending(C, j, s), i)
         /\ Placed(SetPending(C, j, s), j, s)
<1> DEFINE h == s.home
<1>0. h \in Tree /\ s # Gone /\ h \in Path[h]
  BY HomePath
<1>1. CASE j \in Waiting(C[h])
  <2>1. SetPending(C, j, s) = C
    BY <1>1 DEF SetPending
  <2>2. Placed(C, j, s)
    BY <1>1, <1>0 DEF Nowhere
  <2> QED BY <2>1, <2>2 DEF Same
<1>2. CASE j \notin Waiting(C[h])
  <2> DEFINE R == Remove(C, j, h)
  <2> DEFINE D == [R EXCEPT ![h] = Enqueue(@, j, s.eta)]
  <2>1. SetPending(C, j, s) = D
    BY <1>2 DEF SetPending
  <2>2. R \in Channelling /\ Nowhere(R, j) /\ \A i \in Jobs \ {j} : Same(C, R, i)
    BY RemoveThen
  <2> HIDE DEF R
  <2>3. R[h] \in Sets
    BY <1>0, <2>2 DEF Channelling
  <2>4. /\ D[h] = Enqueue(R[h], j, s.eta)
        /\ \A c \in Tree \ {h} : D[c] = R[c]
    BY <1>0, <2>2 DEF Channelling
  <2>5. D \in Channelling
    BY <1>0, <2>2, <2>3, EnqueueFields DEF Channelling
  <2> HIDE DEF D
  <2>6. ASSUME NEW i \in Jobs \ {j} PROVE Same(C, D, i)
    <3>1. Same(R, D, i)
      BY <2>3, <2>4, EnqueueFields DEF Same, Waiting
    <3> QED BY <3>1, <2>2 DEF Same
  <2>7. WaitsIn(D, j, h, h)
    <3> SUFFICES ASSUME NEW c \in Tree
                 PROVE  /\ j \in Waiting(D[c]) <=> c = h
                        /\ ~(j \in D[c].queue /\ j \in D[c].etaQueue)
                        /\ j \notin D[c].running
                        /\ j \notin D[c].failed
                        /\ ~(c \in Path[h] /\ h \in Path[c] \ {c})
      BY DEF WaitsIn
    <3>1. ~(c \in Path[h] /\ h \in Path[c] \ {c})
      BY <1>0, TreeAssumption
    <3>2. CASE c = h
      BY <1>0, <2>2, <2>3, <2>4, <3>1, <3>2, EnqueueFields DEF Nowhere
    <3>3. CASE c # h
      BY <2>2, <2>4, <3>1, <3>3 DEF Nowhere, Waiting
    <3> QED BY <3>2, <3>3
  <2> QED BY <1>0, <2>1, <2>5, <2>6, <2>7 DEF Placed
<1> QED BY <1>1, <1>2

LEMMA SetFailedOK ==
  ASSUME NEW C \in Channelling, NEW j \in Jobs, NEW s \in Shape,
         Placed(C, j, s) \/ Nowhere(C, j)
  PROVE  /\ SetFailed(C, j, s.home) \in Channelling
         /\ \A i \in Jobs \ {j} : Same(C, SetFailed(C, j, s.home), i)
         /\ Placed(SetFailed(C, j, s.home), j, s)
<1> DEFINE h == s.home
<1>0. h \in Tree /\ s # Gone
  BY HomePath
<1>1. CASE j \in C[h].failed
  <2>1. SetFailed(C, j, h) = C
    BY <1>1 DEF SetFailed
  <2>2. Placed(C, j, s)
    BY <1>1, <1>0 DEF Nowhere
  <2> QED BY <2>1, <2>2 DEF Same
<1>2. CASE j \notin C[h].failed
  <2> DEFINE R == Remove(C, j, h)
  <2> DEFINE D == [R EXCEPT ![h].failed = @ \cup {j}]
  <2>1. SetFailed(C, j, h) = D
    BY <1>2 DEF SetFailed
  <2>2. R \in Channelling /\ Nowhere(R, j) /\ \A i \in Jobs \ {j} : Same(C, R, i)
    BY RemoveThen
  <2> HIDE DEF R
  <2>3. R[h] \in Sets
    BY <1>0, <2>2 DEF Channelling
  <2>4. /\ D[h] = [R[h] EXCEPT !.failed = R[h].failed \cup {j}]
        /\ \A c \in Tree \ {h} : D[c] = R[c]
    BY <1>0, <2>2 DEF Channelling
  <2>5. /\ D[h].queue = R[h].queue /\ D[h].etaQueue = R[h].etaQueue
        /\ D[h].running = R[h].running /\ D[h].failed = R[h].failed \cup {j}
    BY <2>3, <2>4 DEF Sets
  <2>6. D \in Channelling
    BY <1>0, <2>2, <2>3 DEF Channelling, Sets
  <2> HIDE DEF D
  <2>7. ASSUME NEW i \in Jobs \ {j} PROVE Same(C, D, i)
    <3>1. Same(R, D, i)
      BY <2>4, <2>5 DEF Same, Waiting
    <3> QED BY <3>1, <2>2 DEF Same
  <2>8. FailedAt(D, j, h)
    BY <1>0, <2>2, <2>4, <2>5 DEF Nowhere, FailedAt, Waiting
  <2> QED BY <1>0, <2>1, <2>6, <2>7, <2>8 DEF Placed
<1> QED BY <1>1, <1>2

\* Channel.set_running, of a new job or of one that runs.
LEMMA SetRunningOK ==
  ASSUME NEW C \in Channelling, NEW j \in Jobs, NEW s \in Shape,
         Nowhere(C, j) \/ RunsIn(C, j, s.home)
  PROVE  /\ SetRunning(C, j, s.home) \in Channelling
         /\ \A i \in Jobs \ {j} : Same(C, SetRunning(C, j, s.home), i)
         /\ Placed(SetRunning(C, j, s.home), j, s)
<1> DEFINE h == s.home
<1> DEFINE reached == {c \in Path[h] : \A d \in Path[h] :
                                  c \in Path[d] => j \notin C[d].running}
<1> DEFINE D == SetRunning(C, j, h)
<1>0. h \in Tree /\ s # Gone /\ Path[h] \subseteq Tree
  BY HomePath
<1>1. \A c \in Tree : C[c] \in Sets
  BY DEF Channelling
<1>2. D = [c \in Tree |-> IF c \in reached
                            THEN [Cleared(C[c], j) EXCEPT !.running = @ \cup {j}]
                            ELSE C[c]]
  BY DEF SetRunning
<1> HIDE DEF D
<1>3. CASE RunsIn(C, j, h)
  <2>1. reached = {}
    BY <1>0, <1>3, TreeAssumption DEF RunsIn
  <2>2. D = C
    BY <1>2, <2>1 DEF Channelling
  <2> QED BY <1>0, <1>3, <2>2 DEF D, Placed, Same
<1>4. CASE Nowhere(C, j)
  <2>1. reached = Path[h]
    BY <1>0, <1>4 DEF Nowhere
  <2> HIDE DEF reached
  <2>2. ASSUME NEW c \in Tree, c \in Path[h]
        PROVE  /\ D[c].queue = C[c].queue \ {j}
               /\ D[c].etaQueue = C[c].etaQueue \ {j}
               /\ D[c].running = C[c].running \cup {j}
               /\ D[c].failed = C[c].failed \ {j}
               /\ D[c] \in Sets
    <3>1. D[c] = [Cleared(C[c], j) EXCEPT !.running = @ \cup {j}]
      BY <1>2, <2>1, <2>2
    <3>2. C[c] \in Sets
      BY <1>1
    <3> QED BY <3>1, <3>2 DEF Cleared, Sets
  <2>3. \A c \in Tree : c \notin Path[h] => D[c] = C[c]
    BY <1>2, <2>1
  <2>4. D \in Channelling
    BY <1>1, <1>2, <2>2, <2>3 DEF Channelling
  <2>5. ASSUME NEW i \in Jobs \ {j} PROVE Same(C, D, i)
    BY <2>2, <2>3 DEF Same, Waiting
  <2>6. RunsIn(D, j, h)
    BY <1>4, <2>2, <2>3 DEF Nowhere, RunsIn, Waiting
  <2> QED BY <1>0, <2>4, <2>5, <2>6 DEF D, Placed
<1> QED BY <1>3, <1>4

\* ChannelManager.notify keeps every job placed.  A job that is notified as
\* running is unknown, or runs already.
LEMMA NotifyOK ==
  ASSUME TypeOK, FlowIsConsistent, NEW j \in Jobs, NEW s \in Shapes[j],
         NEW st \in States, Notify(j, s, st),
         st = "running" => job[j] = Gone \/ j \in ch[Root].running
  PROVE  /\ job' \in [Jobs -> Shape \cup {Gone}]
         /\ ch' \in Channelling
         /\ due' \in [Jobs -> Nat]
         /\ FlowIsConsistent'
<1> DEFINE C == Refreshed(j, s)
<1>0. s \in Shape /\ s # Gone /\ s.home \in Tree /\ s.eta \in Nat
  BY ShapesAssumption, HomePath DEF Shape
<1>1. ch \in Channelling /\ \A i \in Jobs : job[i] \in Shape \cup {Gone}
  BY DEF TypeOK, Channelling
<1>2. /\ C \in Channelling
      /\ \A i \in Jobs \ {j} : Same(ch, C, i)
      /\ \/ C = ch /\ job[j] = s
         \/ Nowhere(C, j)
  <2>1. CASE Changed(j, s)
    <3>1. job[j] \in Shape /\ Placed(ch, j, job[j])
      BY <1>1, <2>1 DEF Changed, FlowIsConsistent
    <3> QED BY <1>1, <2>1, <3>1, RemoveThen DEF Refreshed
  <2>2. CASE ~Changed(j, s)
    <3>1. C = ch
      BY <2>2 DEF Refreshed
    <3>2. job[j] = s \/ Nowhere(ch, j)
      BY <2>2 DEF Changed, FlowIsConsistent, Placed
    <3> QED BY <1>1, <3>1, <3>2 DEF Same
  <2> QED BY <2>1, <2>2
<1>3. Placed(C, j, s) \/ Nowhere(C, j)
  BY <1>2 DEF FlowIsConsistent
<1>4. /\ ch' \in Channelling
      /\ \A i \in Jobs \ {j} : Same(C, ch', i)
      /\ Placed(ch', j, job'[j])
  <2> HIDE DEF C
  <2>1. CASE st = "done"
    <3>1. ch' = Remove(C, j, s.home) /\ job'[j] = Gone
      BY <1>1, <2>1 DEF Notify, C, TypeOK
    <3> QED BY <1>0, <1>2, <1>3, <3>1, RemoveThen DEF Placed
  <2>2. CASE st = "pending"
    <3>1. ch' = SetPending(C, j, s) /\ job'[j] = s
      BY <1>1, <2>2 DEF Notify, C, TypeOK
    <3> QED BY <1>0, <1>2, <1>3, <3>1, SetPendingOK
  <2>3. CASE st = "running"
    <3>1. ch' = SetRunning(C, j, s.home) /\ job'[j] = s
      BY <1>1, <2>3 DEF Notify, C, TypeOK
    <3>2. Nowhere(C, j) \/ RunsIn(C, j, s.home)
      <4> SUFFICES ASSUME C = ch, job[j] = s PROVE RunsIn(ch, j, s.home)
        BY <1>2
      <4>1. j \in ch[Root].running /\ Placed(ch, j, s)
        BY <1>0, <2>3 DEF FlowIsConsistent
      <4> QED BY <1>0, <4>1, TreeAssumption DEF Placed, FailedAt, WaitsIn
    <3> QED BY <1>0, <1>2, <3>1, <3>2, SetRunningOK
  <2>4. CASE st = "failed"
    <3>1. ch' = SetFailed(C, j, s.home) /\ job'[j] = s
      BY <1>1, <2>4 DEF Notify, C, TypeOK
    <3> QED BY <1>0, <1>2, <1>3, <3>1, SetFailedOK
  <2>5. CASE st = "wait"
    <3>1. ch' = C /\ job'[j] = IF job[j] = s THEN s ELSE Gone
      BY <1>1, <2>5 DEF Notify, C, TypeOK
    <3>2. job[j] # s => Placed(C, j, Gone)
      BY <1>2 DEF Placed
    <3>3. job[j] = s => Placed(C, j, s)
      <4>1. CASE Changed(j, s)
        BY <4>1 DEF Changed
      <4>2. CASE ~Changed(j, s)
        BY <4>2 DEF C, Refreshed, FlowIsConsistent
      <4> QED BY <4>1, <4>2
    <3> QED BY <1>2, <3>1, <3>2, <3>3 DEF Same
  <2> QED BY <2>1, <2>2, <2>3, <2>4, <2>5 DEF States
<1>5. job' \in [Jobs -> Shape \cup {Gone}] /\ \A i \in Jobs \ {j} : job'[i] = job[i]
  BY <1>0 DEF Notify, TypeOK
<1>6. FlowIsConsistent'
  <2> SUFFICES ASSUME NEW i \in Jobs PROVE Placed(ch', i, job'[i])
    BY DEF FlowIsConsistent
  <2>1. CASE i = j
    BY <1>4, <2>1
  <2>2. CASE i # j
    <3>1. Same(ch, ch', i)
      BY <1>2, <1>4, <2>2 DEF Same
    <3>2. job'[i] = job[i] /\ Placed(ch, i, job[i])
      BY <1>5, <2>2 DEF FlowIsConsistent
    <3> HIDE DEF C
    <3> QED BY <3>1, <3>2, Frame
  <2> QED BY <2>1, <2>2
<1>7. due' \in [Jobs -> Nat]
  BY <1>0 DEF Notify, TypeOK
<1> QED BY <1>4, <1>5, <1>6, <1>7

LEMMA ForgetOK ==
  ASSUME TypeOK, FlowIsConsistent, NEW j \in Jobs, Forget(j)
  PROVE  /\ job' \in [Jobs -> Shape \cup {Gone}]
         /\ ch' \in Channelling
         /\ FlowIsConsistent'
<1>1. ch \in Channelling /\ job[j] \in Shape \cup {Gone} /\ Placed(ch, j, job[j])
  BY DEF TypeOK, Channelling, FlowIsConsistent
<1>2. /\ ch' \in Channelling /\ Nowhere(ch', j)
      /\ \A i \in Jobs \ {j} : Same(ch, ch', i)
  <2>1. CASE job[j] = Gone
    BY <1>1, <2>1 DEF Forget, Placed, Same
  <2>2. CASE job[j] # Gone
    BY <1>1, <2>2, RemoveThen DEF Forget
  <2> QED BY <2>1, <2>2
<1>3. job' = [job EXCEPT ![j] = Gone]
  BY DEF Forget
<1>4. FlowIsConsistent'
  <2> SUFFICES ASSUME NEW i \in Jobs PROVE Placed(ch', i, job'[i])
    BY DEF FlowIsConsistent
  <2>1. CASE i = j
    BY <1>2, <1>3, <2>1 DEF Placed, TypeOK
  <2>2. CASE i # j
    BY <1>2, <1>3, <2>2, Frame DEF FlowIsConsistent, TypeOK
  <2> QED BY <2>1, <2>2
<1> QED BY <1>2, <1>3, <1>4 DEF TypeOK

\* Jobs ripen: they lose their eta and nothing else.
LEMMA RipenOK ==
  ASSUME TypeOK, FlowIsConsistent, NEW c \in Tree, Ripen(c)
  PROVE  /\ job' \in [Jobs -> Shape \cup {Gone}]
         /\ \A i \in Jobs : /\ job[i] = Gone <=> job'[i] = Gone
                            /\ job[i].home = job'[i].home
         /\ Ready(c) \in SUBSET Jobs /\ Aside(c) \in SUBSET Jobs
         /\ Ready(c) \cup Aside(c) = Waiting(ch[c])
         /\ \A i \in Jobs : i \in Ready(c) /\ i \in Aside(c) =>
                               i \in ch[c].queue /\ i \in ch[c].etaQueue
<1>1. ch[c] \in Sets /\ Ripe(c) \subseteq ch[c].etaQueue
  BY DEF TypeOK, Ripe
<1>2. ASSUME NEW i \in Ripe(c) PROVE job[i] \in Shape /\ i \in Jobs
  <2>1. i \in Jobs /\ i \in Waiting(ch[c])
    BY <1>1 DEF Sets, Waiting
  <2>2. job[i] # Gone
    BY <2>1 DEF FlowIsConsistent, Placed, Nowhere
  <2> QED BY <2>1, <2>2 DEF TypeOK
<1>3. ASSUME NEW i \in Jobs
      PROVE  /\ job'[i] \in Shape \cup {Gone}
             /\ job[i] = Gone <=> job'[i] = Gone
             /\ job[i].home = job'[i].home
  <2>1. CASE i \in Ripe(c)
    <3>1. job'[i] = [job[i] EXCEPT !.eta = 0] /\ job[i] \in Shape
      BY <1>2, <2>1 DEF Ripen
    <3> QED BY <3>1 DEF Shape, Gone
  <2>2. CASE i \notin Ripe(c)
    BY <2>2 DEF Ripen, TypeOK
  <2> QED BY <2>1, <2>2
<1>4. job' \in [Jobs -> Shape \cup {Gone}]
  BY <1>3 DEF Ripen
<1>5. /\ Ready(c) \in SUBSET Jobs /\ Aside(c) \in SUBSET Jobs
      /\ Ready(c) \cup Aside(c) = Waiting(ch[c])
      /\ \A i \in Jobs : i \in Ready(c) /\ i \in Aside(c) =>
                            i \in ch[c].queue /\ i \in ch[c].etaQueue
  BY <1>1 DEF Ready, Aside, Waiting, Sets
<1> QED BY <1>3, <1>4, <1>5

LEMMA ExhaustedOK ==
  ASSUME TypeOK, FlowIsConsistent, NEW c \in Tree, Exhausted(c)
  PROVE  /\ job' \in [Jobs -> Shape \cup {Gone}]
         /\ ch' \in Channelling
         /\ FlowIsConsistent'
<1>1. CASE UNCHANGED <<job, ch>>
  <2>1. job' \in [Jobs -> Shape \cup {Gone}] /\ ch' \in Channelling
    BY <1>1 DEF TypeOK, Channelling
  <2>2. FlowIsConsistent'
    BY <1>1 DEF FlowIsConsistent, Placed, Nowhere, FailedAt, RunsIn, WaitsIn, Waiting
  <2> QED BY <2>1, <2>2
<1>2. CASE /\ Ripen(c)
           /\ ch' = [ch EXCEPT ![c].queue = Ready(c), ![c].etaQueue = Aside(c)]
  <2>1. ch \in Channelling /\ ch[c] \in Sets
    BY DEF TypeOK, Channelling
  <2>2. /\ ch'[c].queue = Ready(c) /\ ch'[c].etaQueue = Aside(c)
        /\ ch'[c].running = ch[c].running /\ ch'[c].failed = ch[c].failed
        /\ \A d \in Tree \ {c} : ch'[d] = ch[d]
    BY <1>2, <2>1 DEF Channelling, Sets
  <2>3. ch' \in Channelling
    BY <1>2, <2>1, RipenOK DEF Channelling, Sets
  <2>4. ASSUME NEW i \in Jobs PROVE Same(ch, ch', i)
    <3>1. Waiting(ch'[c]) = Waiting(ch[c])
      BY <1>2, <2>2, RipenOK DEF Waiting
    <3>2. i \in ch'[c].queue /\ i \in ch'[c].etaQueue =>
              i \in ch[c].queue /\ i \in ch[c].etaQueue
      BY <1>2, <2>2, RipenOK
    <3> QED BY <2>2, <3>1, <3>2 DEF Same
  <2>5. ASSUME NEW i \in Jobs PROVE Placed(ch', i, job'[i])
    <3>1. /\ Placed(ch, i, job[i])
          /\ job[i] = Gone <=> job'[i] = Gone
          /\ job[i].home = job'[i].home
      BY <1>2, RipenOK DEF FlowIsConsistent
    <3> QED BY <2>4, <3>1, Frame
  <2> QED BY <1>2, <2>3, <2>5, RipenOK DEF FlowIsConsistent
<1> QED BY <1>1, <1>2 DEF Exhausted

\* The popped job waited in the channel, and no other job moves.
LEMMA PoppedOK ==
  ASSUME TypeOK, FlowIsConsistent, NEW c \in Tree, NEW j \in Jobs, Pops(c, j)
  PROVE  /\ Popped(c, j) \in Sets
         /\ j \in Waiting(ch[c])
         /\ Popped(c, j).failed = ch[c].failed
         /\ Popped(c, j).running = ch[c].running \cup {j}
         /\ j \notin Waiting(Popped(c, j))
         /\ \A i \in Jobs \ {j} :
               /\ i \in Waiting(Popped(c, j)) <=> i \in Waiting(ch[c])
               /\ i \in Popped(c, j).queue /\ i \in Popped(c, j).etaQueue =>
                     i \in ch[c].queue /\ i \in ch[c].etaQueue
         /\ job[j] \in Shape
         /\ \E w \in Path[job[j].home] : w = c /\ WaitsIn(ch, j, job[j].home, w)
<1>1. ch[c] \in Sets /\ j \in Ready(c) /\ Ripen(c)
  BY DEF TypeOK, Pops, IsHead
<1>2. /\ Popped(c, j).queue = Ready(c) \ {j} /\ Popped(c, j).etaQueue = Aside(c)
      /\ Popped(c, j).running = ch[c].running \cup {j}
      /\ Popped(c, j).failed = ch[c].failed
      /\ Popped(c, j) \in Sets
  BY <1>1, RipenOK DEF Popped, Sets
<1>3. j \in Waiting(ch[c])
  BY <1>1, RipenOK
<1>4. job[j] \in Shape
  BY <1>3 DEF FlowIsConsistent, Placed, Nowhere, TypeOK
<1>5. \E w \in Path[job[j].home] : w = c /\ WaitsIn(ch, j, job[j].home, w)
  BY <1>3, <1>4, HomePath DEF FlowIsConsistent, Placed, FailedAt, RunsIn, WaitsIn
<1>6. ~(j \in Ready(c) /\ j \in Aside(c))
  BY <1>1, <1>5, RipenOK DEF WaitsIn
<1>7. j \notin Waiting(Popped(c, j))
  BY <1>1, <1>2, <1>6 DEF Waiting
<1>8. \A i \in Jobs \ {j} :
               /\ i \in Waiting(Popped(c, j)) <=> i \in Waiting(ch[c])
               /\ i \in Popped(c, j).queue /\ i \in Popped(c, j).etaQueue =>
                     i \in ch[c].queue /\ i \in ch[c].etaQueue
  <2> SUFFICES ASSUME NEW i \in Jobs \ {j}
               PROVE /\ i \in Waiting(Popped(c, j)) <=> i \in Waiting(ch[c])
                     /\ i \in Popped(c, j).queue /\ i \in Popped(c, j).etaQueue =>
                            i \in ch[c].queue /\ i \in ch[c].etaQueue
    OBVIOUS
  <2>1. i \in Waiting(Popped(c, j)) <=> i \in Ready(c) \cup Aside(c)
    BY <1>2 DEF Waiting
  <2>2. /\ Ready(c) \cup Aside(c) = Waiting(ch[c])
        /\ i \in Ready(c) /\ i \in Aside(c) => 
              i \in ch[c].queue /\ i \in ch[c].etaQueue
    BY <1>1, RipenOK
  <2> QED BY <1>2, <2>1, <2>2
<1> QED BY <1>2, <1>3, <1>4, <1>5, <1>7, <1>8

LEMMA YieldOK ==
  ASSUME TypeOK, FlowIsConsistent, NEW j \in Jobs, Yield(j)
  PROVE  /\ job' \in [Jobs -> Shape \cup {Gone}]
         /\ ch' \in Channelling
         /\ FlowIsConsistent'
<1> DEFINE h == job[j].home
<1>0. Root \in Tree /\ Pops(Root, j) /\ Ripen(Root)
  BY TreeAssumption DEF Yield, Pops
<1>1. ch \in Channelling /\ ch' = [ch EXCEPT ![Root] = Popped(Root, j)]
  BY DEF TypeOK, Channelling, Yield
<1>2. ch' \in Channelling /\ ch'[Root] = Popped(Root, j)
      /\ \A d \in Tree \ {Root} : ch'[d] = ch[d]
  BY <1>0, <1>1, PoppedOK DEF Channelling
<1>3. job' \in [Jobs -> Shape \cup {Gone}]
  BY <1>0, RipenOK
<1>4. Placed(ch', j, job'[j])
  <2>1. job'[j] # Gone /\ job'[j].home = h /\ h \in Tree
    BY <1>0, PoppedOK, RipenOK, HomePath
  <2>2. WaitsIn(ch, j, h, Root)
    BY <1>0, PoppedOK
  <2>3. RunsIn(ch', j, h)
    <3> SUFFICES ASSUME NEW d \in Tree
                 PROVE  /\ j \notin Waiting(ch'[d])
                        /\ j \in ch'[d].running <=> d \in Path[h]
                        /\ j \notin ch'[d].failed
      BY DEF RunsIn
    <3>1. CASE d = Root
      <4>1. d \in Path[h]
        BY <2>1, <3>1, TreeAssumption
      <4> QED BY <1>0, <1>2, <2>2, <3>1, <4>1, PoppedOK DEF WaitsIn
    <3>2. CASE d # Root
      <4>1. Root \in Path[d] \ {d} /\ ch'[d] = ch[d]
        BY <1>2, <3>2, TreeAssumption
      <4> QED BY <2>2, <3>2, <4>1 DEF WaitsIn
    <3> QED BY <3>1, <3>2
  <2> QED BY <2>1, <2>3 DEF Placed
<1>5. ASSUME NEW i \in Jobs \ {j} PROVE Placed(ch', i, job'[i])
  <2>1. Same(ch, ch', i)
    BY <1>0, <1>2, PoppedOK DEF Same
  <2>2. /\ Placed(ch, i, job[i])
        /\ job[i] = Gone <=> job'[i] = Gone
        /\ job[i].home = job'[i].home
    BY <1>0, RipenOK DEF FlowIsConsistent
  <2> QED BY <2>1, <2>2, Frame
<1> QED BY <1>2, <1>3, <1>4, <1>5 DEF FlowIsConsistent

LEMMA HereInTree == TypeOK /\ pc = "serve" => at \in 1..Len(PostOrder) /\ Here \in Tree
  BY TreeAssumption DEF TypeOK, Here

LEMMA PromoteOK ==
  ASSUME TypeOK, FlowIsConsistent, NEW j \in Jobs, Promote(j)
  PROVE  /\ job' \in [Jobs -> Shape \cup {Gone}]
         /\ ch' \in Channelling
         /\ FlowIsConsistent'
<1> DEFINE h == job[j].home
<1> DEFINE c == Here
<1> DEFINE p == Parent[c]
<1>0. c \in Tree /\ c # Root /\ Pops(c, j) /\ Ripen(c)
  BY HereInTree DEF Promote, Pops
<1>1. p \in Tree /\ p # c /\ p \in Path[c] /\ Path[c] = {c} \cup Path[p]
  BY <1>0, TreeAssumption
<1> HIDE DEF c, p
<1>2. ch \in Channelling /\ Popped(c, j) \in Sets /\ ch[p] \in Sets
  BY <1>0, <1>1, PoppedOK DEF TypeOK, Channelling
<1>3. ch' = [ch EXCEPT ![c] = Popped(c, j), ![p].queue = @ \cup {j}]
  BY DEF Promote, c, p
<1>4. /\ ch'[c] = Popped(c, j)
      /\ ch'[p].queue = ch[p].queue \cup {j} /\ ch'[p].etaQueue = ch[p].etaQueue
      /\ ch'[p].running = ch[p].running /\ ch'[p].failed = ch[p].failed
      /\ \A d \in Tree \ {c, p} : ch'[d] = ch[d]
  BY <1>0, <1>1, <1>2, <1>3 DEF Channelling, Sets
<1>5. ch' \in Channelling
  BY <1>0, <1>1, <1>2, <1>3 DEF Channelling, Sets
<1>6. job' \in [Jobs -> Shape \cup {Gone}]
  BY <1>0, RipenOK
<1>7. Placed(ch', j, job'[j])
  <2>1. job'[j] # Gone /\ job'[j].home = h /\ h \in Tree /\ c \in Path[h]
    BY <1>0, PoppedOK, RipenOK, HomePath
  <2>2. WaitsIn(ch, j, h, c)
    BY <1>0, PoppedOK
  <2>3. p \in Path[h]
    BY <1>0, <1>1, <2>1, TreeAssumption
  <2>4. ASSUME NEW d \in Tree, d \in Path[h]
        PROVE  p \in Path[d] \ {d} <=> d = c \/ c \in Path[d] \ {d}
    <3>1. CASE d = c
      BY <1>1, <3>1
    <3>2. CASE c \in Path[d] \ {d}
      <4>1. p \in Path[d]
        BY <1>1, <3>2, TreeAssumption
      <4>2. p # d
        BY <1>0, <1>1, <3>2, TreeAssumption
      <4> QED BY <3>2, <4>1, <4>2
    <3>3. CASE d \in Path[c] /\ d # c
      <4>1. d \in Path[p]
        BY <1>1, <3>3
      <4>2. c \notin Path[d]
        BY <1>0, <3>3, TreeAssumption
      <4> QED BY <1>1, <3>3, <4>1, <4>2, TreeAssumption
    <3>4. d \in Path[c] \/ c \in Path[d]
      BY <2>1, <2>4, TreeAssumption
    <3> QED BY <3>1, <3>2, <3>3, <3>4
  <2>5. ASSUME NEW d \in Tree
        PROVE  /\ j \in Waiting(ch'[d]) <=> d = p
               /\ ~(j \in ch'[d].queue /\ j \in ch'[d].etaQueue)
               /\ j \in ch'[d].running <=> d \in Path[h] /\ p \in Path[d] \ {d}
               /\ j \notin ch'[d].failed
    <3>1. CASE d = c
      <4>1. d \in Path[h] /\ p \in Path[d] \ {d}
        BY <1>1, <2>1, <3>1
      <4> QED BY <1>0, <1>1, <1>2, <1>4, <2>2, <3>1, <4>1, PoppedOK DEF WaitsIn, Waiting
    <3>2. CASE d = p
      <4>1. c \notin Path[d]
        BY <1>0, <3>2, TreeAssumption DEF p
      <4> QED BY <1>1, <1>4, <2>2, <3>2, <4>1 DEF WaitsIn, Waiting
    <3>3. CASE d \notin {c, p}
      BY <1>4, <2>2, <2>4, <3>3 DEF WaitsIn
    <3> QED BY <3>1, <3>2, <3>3
  <2>6. WaitsIn(ch', j, h, p)
    BY <2>5 DEF WaitsIn
  <2> QED BY <2>1, <2>3, <2>6 DEF Placed
<1>8. ASSUME NEW i \in Jobs \ {j} PROVE Placed(ch', i, job'[i])
  <2>1. Same(ch, ch', i)
    <3> SUFFICES ASSUME NEW d \in Tree
                 PROVE  /\ i \in Waiting(ch'[d]) <=> i \in Waiting(ch[d])
                        /\ ~(i \in ch'[d].queue /\ i \in ch'[d].etaQueue)
                             \/ (i \in ch[d].queue /\ i \in ch[d].etaQueue)
                        /\ i \in ch'[d].running <=> i \in ch[d].running
                        /\ i \in ch'[d].failed <=> i \in ch[d].failed
      BY DEF Same
    <3>1. CASE d = c
      BY <1>0, <1>4, <3>1, PoppedOK
    <3>2. CASE d = p
      BY <1>4, <3>2 DEF Waiting
    <3>3. CASE d \notin {c, p}
      BY <1>4, <3>3
    <3> QED BY <3>1, <3>2, <3>3
  <2>2. /\ Placed(ch, i, job[i])
        /\ job[i] = Gone <=> job'[i] = Gone
        /\ job[i].home = job'[i].home
    BY <1>0, RipenOK DEF FlowIsConsistent
  <2> QED BY <2>1, <2>2, Frame
<1> QED BY <1>5, <1>6, <1>7, <1>8 DEF FlowIsConsistent

LEMMA InitInv == Init => Inv
<1> SUFFICES ASSUME Init PROVE Inv
  OBVIOUS
<1>1. TypeOK
  <2>1. job \in [Jobs -> Shape \cup {Gone}] /\ ch \in [Tree -> Sets]
    BY DEF Init, Empty, Sets
  <2>2. at \in 0..Len(PostOrder)
    BY TreeAssumption DEF Init
  <2> QED BY <2>1, <2>2 DEF Init, TypeOK
<1>2. FlowIsConsistent
  BY DEF Init, FlowIsConsistent, Placed, Nowhere, Waiting, Empty
<1> QED BY <1>1, <1>2 DEF Inv

\* The clock and the control of the runner keep their types.
LEMMA NextChannelType ==
  ASSUME TypeOK, NextChannel
  PROVE  /\ at' \in 0..Len(PostOrder)
         /\ pc' \in {"load", "idle", "serve", "yielded", "wait"}
         /\ pc' \in {"serve", "yielded"} => at' # 0
  BY TreeAssumption DEF TypeOK, NextChannel

LEMMA PauseType ==
  ASSUME TypeOK, NEW c \in Tree, PauseAfterJob(c), pc \in {"serve", "yielded"}
  PROVE  /\ pauseUntil' \in [Tree -> Nat]
         /\ notBefore' \in [Tree -> Nat]
         /\ at' \in 0..Len(PostOrder)
         /\ pc' \in {"load", "idle", "serve", "yielded", "wait"}
         /\ pc' \in {"serve", "yielded"} => at' # 0
<1>1. CASE Throttle[c] # 0
  <2>1. now + Throttle[c] \in Nat
    BY ConfigAssumption DEF TypeOK
  <2> QED BY <1>1, <2>1, NextChannelType DEF PauseAfterJob, TypeOK
<1>2. CASE Throttle[c] = 0
  BY <1>2 DEF PauseAfterJob, TypeOK
<1> QED BY <1>1, <1>2

\* Every wakeup time is a time: only jobs with an eta are set aside.
LEMMA WakeupType == Inv => AllTimes \subseteq Nat
<1> SUFFICES ASSUME Inv, NEW c \in Tree, NEW t \in WakeupTimes(c) PROVE t \in Nat
  BY DEF AllTimes
<1>1. CASE pauseUntil[c] # 0
  BY <1>1 DEF WakeupTimes, Inv, TypeOK
<1>2. CASE pauseUntil[c] = 0
  <2>1. PICK j \in ch[c].etaQueue : t = job[j].eta
    BY <1>2 DEF WakeupTimes
  <2>2. j \in Jobs /\ j \in Waiting(ch[c])
    BY <2>1 DEF Inv, TypeOK, Sets, Waiting
  <2>3. job[j] \in Shape
    BY <2>2 DEF Inv, TypeOK, FlowIsConsistent, Placed, Nowhere
  <2> QED BY <2>1, <2>3 DEF Shape
<1> QED BY <1>1, <1>2

\* Each action keeps the types and the flow.
LEMMA NextInv == Inv /\ [Next]_vars => Inv'
<1> SUFFICES ASSUME Inv, [Next]_vars PROVE Inv'
  OBVIOUS
<1>0. TypeOK /\ FlowIsConsistent
  BY DEF Inv
<1> DEFINE Moved == /\ job' \in [Jobs -> Shape \cup {Gone}]
                    /\ ch' \in Channelling
                    /\ FlowIsConsistent'
<1>a. ASSUME UNCHANGED <<job, ch>> PROVE Moved
  BY <1>0, <1>a DEF TypeOK, Channelling, FlowIsConsistent, Placed, Nowhere,
                    FailedAt, RunsIn, WaitsIn, Waiting
<1>1. ASSUME NEW j \in Jobs, NEW s \in Shapes[j], NEW st \in States,
             LoadRow(j, s, st)
      PROVE  Inv'
  <2>1. Moved /\ due' \in [Jobs -> Nat]
    BY <1>0, <1>1, NotifyOK DEF LoadRow
  <2> QED BY <1>0, <1>1, <2>1 DEF LoadRow, Inv, TypeOK, Channelling
<1>2. ASSUME NEW j \in Jobs, NEW s \in Shapes[j], NEW st \in States,
             NotifyRow(j, s, st)
      PROVE  Inv'
  <2>1. Moved /\ due' \in [Jobs -> Nat]
    BY <1>0, <1>2, NotifyOK DEF NotifyRow
  <2> QED BY <1>0, <1>2, <2>1 DEF NotifyRow, Inv, TypeOK, Channelling
<1>3. ASSUME NEW j \in Jobs, RowDeleted(j) PROVE Inv'
  <2>1. Moved
    BY <1>0, <1>3, ForgetOK DEF RowDeleted
  <2> QED BY <1>0, <1>3, <2>1 DEF RowDeleted, Inv, TypeOK, Channelling
<1>4. ASSUME NEW j \in Jobs, Promote(j) PROVE Inv'
  <2>1. Moved
    BY <1>0, <1>4, PromoteOK
  <2>2. PauseAfterJob(Here) /\ Here \in Tree /\ pc = "serve"
    BY <1>0, <1>4, HereInTree DEF Promote
  <2> QED BY <1>0, <1>4, <2>1, <2>2, PauseType DEF Promote, Inv, TypeOK, Channelling
<1>5. ASSUME NEW j \in Jobs, Yield(j) PROVE Inv'
  <2>1. Moved
    BY <1>0, <1>5, YieldOK
  <2> QED BY <1>0, <1>5, <2>1, TreeAssumption
          DEF Yield, history, Inv, TypeOK, Channelling
<1>6. CASE EndLoad \/ Tick
  <2>1. Moved
    BY <1>6, <1>a DEF EndLoad, Tick
  <2> QED BY <1>0, <1>6, <2>1 DEF EndLoad, Tick, history, Inv, TypeOK, Channelling
<1>7. CASE BeginPass
  <2>1. Moved
    BY <1>7, <1>a DEF BeginPass
  <2> QED BY <1>0, <1>7, <2>1, TreeAssumption DEF BeginPass, Inv, TypeOK, Channelling
<1>8. CASE SkipPaused
  <2>1. Moved
    BY <1>8, <1>a DEF SkipPaused
  <2> QED BY <1>0, <1>8, <2>1, NextChannelType
          DEF SkipPaused, history, Inv, TypeOK, Channelling
<1>9. CASE EndChannel
  <2>1. Moved
    BY <1>0, <1>9, HereInTree, ExhaustedOK DEF EndChannel
  <2> QED BY <1>0, <1>9, <2>1, NextChannelType
          DEF EndChannel, history, Inv, TypeOK, Channelling
<1>10. CASE Resume
  <2>1. Moved
    BY <1>10, <1>a DEF Resume
  <2> QED BY <1>0, <1>10, <2>1, PauseType, TreeAssumption
          DEF Resume, Inv, TypeOK, Channelling
<1>11. CASE Recover
  <2>1. Moved
    BY <1>11 DEF Recover, RemoveDb, Channelling, Sets, Empty, FlowIsConsistent,
                 Placed, Nowhere, Waiting
  <2>2. at' \in 0..Len(PostOrder)
    BY <1>11, TreeAssumption DEF Recover
  <2> QED BY <1>0, <1>11, <2>1, <2>2 DEF Recover, Inv, TypeOK, Channelling
<1>12. CASE WaitNotification
  <2>1. Moved
    BY <1>12, <1>a DEF WaitNotification
  <2>2. alarm' \in Nat
    BY <1>12, WakeupType DEF WaitNotification
  <2> QED BY <1>0, <1>12, <2>1, <2>2 DEF WaitNotification, Inv, TypeOK, Channelling
<1>13. CASE UNCHANGED vars
  <2>1. Moved
    BY <1>13, <1>a DEF vars
  <2> QED BY <1>0, <1>13, <2>1 DEF vars, history, Inv, TypeOK, Channelling
<1> QED BY <1>1, <1>2, <1>3, <1>4, <1>5, <1>6, <1>7, <1>8, <1>9, <1>10, <1>11,
           <1>12, <1>13 DEF Next

\* The types of all variables, for every tree and every configuration.
THEOREM TypeCorrect == Spec => []TypeOK
<1>1. Spec => []Inv
  BY InitInv, NextInv, PTL DEF Spec
<1> QED BY <1>1, PTL DEF Inv

\* At every moment each job is in one place of its path to the root, and
\* runs in exactly the channels upstream of it.
THEOREM FlowInvariance == Spec => []FlowIsConsistent
<1>1. Spec => []Inv
  BY InitInv, NextInv, PTL DEF Spec
<1> QED BY <1>1, PTL DEF Inv
-----------------------------------------------------------------------------
(***************************************************************************)
(* When jobs are taken: throttles and etas.                                *)
(***************************************************************************)

\* What an exhausted channel leaves behind.
LEMMA ExhaustedFields ==
  ASSUME TypeOK, NEW c \in Tree, Exhausted(c)
  PROVE  /\ \/ ~HasCapacity(c) /\ UNCHANGED <<job, ch>>
            \/ /\ Ready(c) = {} \/ WaitsForEta(c)
               /\ Ripen(c)
               /\ ch'[c].queue = Ready(c) /\ ch'[c].etaQueue = Aside(c)
         /\ \A d \in Tree : /\ ch'[d].running = ch[d].running
                            /\ ch'[d].failed = ch[d].failed
         /\ \A d \in Tree \ {c} : ch'[d] = ch[d]
<1>1. CASE ~HasCapacity(c) /\ UNCHANGED <<job, ch>>
  BY <1>1 DEF Exhausted
<1>2. CASE ch' = [ch EXCEPT ![c].queue = Ready(c), ![c].etaQueue = Aside(c)]
  <2>1. ch \in Channelling /\ ch[c] \in Sets
    BY DEF TypeOK, Channelling
  <2>2. /\ ch'[c].queue = Ready(c) /\ ch'[c].etaQueue = Aside(c)
        /\ ch'[c].running = ch[c].running /\ ch'[c].failed = ch[c].failed
        /\ \A d \in Tree \ {c} : ch'[d] = ch[d]
    BY <1>2, <2>1 DEF Channelling, Sets
  <2> QED BY <2>2 DEF Exhausted
<1> QED BY <1>1, <1>2 DEF Exhausted

\* A channel takes a job only when it is served and pops the job.
LEMMA TakingStep ==
  ASSUME Inv, [Next]_vars, NEW c \in Tree, NEW j \in Jobs, Takes(c, j)
  PROVE  c = Here /\ Pops(c, j) /\ (Promote(j) \/ Yield(j))
<1>0. TypeOK /\ FlowIsConsistent /\ pc = "serve" /\ Here \in Tree
  BY HereInTree DEF Inv, Takes
<1>1. ASSUME NEW i \in Jobs, Promote(i) PROVE c = Here /\ i = j /\ Pops(c, j)
  <2> DEFINE p == Parent[Here]
  <2>0. p \in Tree /\ p # Here /\ Here # Root /\ Pops(Here, i)
    BY <1>0, <1>1, TreeAssumption DEF Promote
  <2>1. /\ ch'[Here] = Popped(Here, i)
        /\ ch'[p].running = ch[p].running
        /\ \A d \in Tree \ {Here, p} : ch'[d] = ch[d]
    <3>1. ch \in [Tree -> Sets] /\ ch[p] \in Sets
      BY <1>0, <2>0 DEF TypeOK
    <3>2. ch' = [ch EXCEPT ![Here] = Popped(Here, i), ![p].queue = @ \cup {i}]
      BY <1>1 DEF Promote
    <3> QED BY <1>0, <2>0, <3>1, <3>2, PoppedOK DEF Sets
  <2>2. c = Here
    BY <2>1 DEF Takes
  <2> QED BY <1>0, <2>0, <2>1, <2>2, PoppedOK DEF Takes
<1>2. ASSUME NEW i \in Jobs, Yield(i) PROVE c = Here /\ i = j /\ Pops(c, j)
  <2>1. Here = Root /\ Pops(Root, i) /\ ch' = [ch EXCEPT ![Root] = Popped(Root, i)]
    BY <1>2 DEF Yield
  <2>2. ch'[Root] = Popped(Root, i) /\ \A d \in Tree \ {Root} : ch'[d] = ch[d]
    BY <1>0, <2>1 DEF TypeOK
  <2> QED BY <1>0, <2>1, <2>2, PoppedOK DEF Takes
<1>3. CASE EndChannel
  <2>1. \A d \in Tree : ch'[d].running = ch[d].running
    BY <1>0, <1>3, ExhaustedFields DEF EndChannel
  <2> QED BY <2>1 DEF Takes
<1>4. ~(\E i \in Jobs : Promote(i) \/ Yield(i)) /\ ~EndChannel => ch' = ch
  BY <1>0 DEF Next, vars, LoadRow, NotifyRow, RowDeleted, EndLoad, Tick, BeginPass,
              SkipPaused, Resume, Recover, WaitNotification
<1> QED BY <1>1, <1>2, <1>3, <1>4 DEF Takes

\* A throttle interval that has not ended keeps its channel paused.
PauseCovers == \A c \in Tree : \/ notBefore[c] <= now
                               \/ pauseUntil[c] # 0 /\ notBefore[c] <= pauseUntil[c]

LEMMA PauseAfterJobCovers ==
  ASSUME TypeOK, PauseCovers, NEW c \in Tree, PauseAfterJob(c), now' = now
  PROVE  PauseCovers'
<1>1. CASE Throttle[c] # 0
  <2>1. now + Throttle[c] \in Nat /\ now + Throttle[c] # 0
    BY <1>1, ConfigAssumption DEF TypeOK
  <2>2. /\ pauseUntil' = [pauseUntil EXCEPT ![c] = now + Throttle[c]]
        /\ notBefore' = [notBefore EXCEPT ![c] = now + Throttle[c]]
    BY <1>1 DEF PauseAfterJob
  <2>3. \A d \in Tree \ {c} : pauseUntil'[d] = pauseUntil[d] /\ notBefore'[d] = notBefore[d]
    BY <2>2 DEF TypeOK
  <2>4. pauseUntil'[c] = now + Throttle[c] /\ notBefore'[c] = now + Throttle[c]
    BY <2>2 DEF TypeOK
  <2> QED BY <2>1, <2>3, <2>4 DEF PauseCovers
<1>2. CASE Throttle[c] = 0
  BY <1>2 DEF PauseAfterJob, PauseCovers
<1> QED BY <1>1, <1>2

LEMMA PauseCoversStep == Inv /\ PauseCovers /\ [Next]_vars => PauseCovers'
<1> SUFFICES ASSUME Inv, PauseCovers, [Next]_vars PROVE PauseCovers'
  OBVIOUS
<1>0. TypeOK /\ Root \in Tree
  BY TreeAssumption DEF Inv
<1>1. CASE \E j \in Jobs : Promote(j)
  BY <1>0, <1>1, HereInTree, PauseAfterJobCovers DEF Promote
<1>2. CASE Resume
  BY <1>0, <1>2, PauseAfterJobCovers DEF Resume
<1>3. ASSUME NEW c \in Tree, ~Paused(c), pauseUntil' = [pauseUntil EXCEPT ![c] = 0],
             UNCHANGED <<now, notBefore>>
      PROVE  PauseCovers'
  <2>1. notBefore[c] <= now
    BY <1>0, <1>3 DEF Paused, PauseCovers, TypeOK
  <2> QED BY <1>0, <1>3, <2>1 DEF PauseCovers, TypeOK
<1>4. CASE EndChannel
  BY <1>0, <1>3, <1>4, HereInTree DEF EndChannel, history
<1>5. CASE \E j \in Jobs : Yield(j)
  BY <1>0, <1>3, <1>5 DEF Yield, Pops, history
<1>6. CASE Tick
  BY <1>0, <1>6 DEF Tick, history, PauseCovers, TypeOK
<1>7. ASSUME UNCHANGED <<pauseUntil, now, notBefore>> PROVE PauseCovers'
  BY <1>7 DEF PauseCovers
<1>8. ASSUME NEW j \in Jobs, NEW s \in Shapes[j], NEW st \in States,
             LoadRow(j, s, st) \/ NotifyRow(j, s, st)
      PROVE  PauseCovers'
  BY <1>7, <1>8 DEF LoadRow, NotifyRow
<1>9. CASE (\E j \in Jobs : RowDeleted(j)) \/ EndLoad \/ BeginPass \/ SkipPaused
           \/ Recover \/ WaitNotification \/ UNCHANGED vars
  BY <1>7, <1>9 DEF RowDeleted, EndLoad, BeginPass, SkipPaused, Recover,
                    WaitNotification, vars, history
<1> QED BY <1>1, <1>2, <1>4, <1>5, <1>6, <1>8, <1>9 DEF Next

\* No channel takes a job within its throttle interval, whatever is notified,
\* lost or read again between two jobs of the channel.
THEOREM ThrottleCorrect == Spec => ThrottleRespected
<1>1. Init => PauseCovers
  BY DEF Init, PauseCovers
<1>2. Inv /\ PauseCovers /\ [Next]_vars =>
         [\A c \in Tree, j \in Jobs : Takes(c, j) => notBefore[c] <= now]_vars
  <2> SUFFICES ASSUME Inv, PauseCovers, [Next]_vars, NEW c \in Tree, NEW j \in Jobs,
                      Takes(c, j)
               PROVE  notBefore[c] <= now
    OBVIOUS
  <2>1. ~Paused(c)
    BY TakingStep DEF Pops
  <2> QED BY <2>1 DEF Paused, PauseCovers, Inv, TypeOK
<1> QED BY <1>1, <1>2, InitInv, NextInv, PauseCoversStep, PTL DEF Spec, ThrottleRespected

-----------------------------------------------------------------------------
\* Job i is in the same sets of D as of C.
SameSets(C, D, i) ==
    \A c \in Tree : /\ i \in D[c].queue <=> i \in C[c].queue
                    /\ i \in D[c].etaQueue <=> i \in C[c].etaQueue
                    /\ i \in D[c].running <=> i \in C[c].running
                    /\ i \in D[c].failed <=> i \in C[c].failed

\* Job j waits nowhere but, with an eta, in an etaQueue or, with none, in a queue.
WaitsAs(D, j, eta) == \A c \in Tree : /\ j \in D[c].queue => eta = 0
                                      /\ j \in D[c].etaQueue => eta # 0
                                      /\ j \notin D[c].running

LEMMA RemoveExact ==
  ASSUME NEW C, NEW j \in Jobs, NEW h \in Tree
  PROVE  \A i \in Jobs \ {j} : SameSets(C, Remove(C, j, h), i)
<1> SUFFICES ASSUME NEW i \in Jobs \ {j}, NEW c \in Tree
             PROVE  LET D == Remove(C, j, h)
                    IN  /\ i \in D[c].queue <=> i \in C[c].queue
                        /\ i \in D[c].etaQueue <=> i \in C[c].etaQueue
                        /\ i \in D[c].running <=> i \in C[c].running
                        /\ i \in D[c].failed <=> i \in C[c].failed
  BY DEF SameSets
<1>1. Remove(C, j, h)[c] = IF c \in Path[h] THEN Cleared(C[c], j) ELSE C[c]
  BY DEF Remove
<1>2. CASE c \in Path[h]
  BY <1>1, <1>2, ClearedFields
<1>3. CASE c \notin Path[h]
  BY <1>1, <1>3
<1> QED BY <1>2, <1>3

LEMMA SetPendingExact ==
  ASSUME NEW C \in Channelling, NEW j \in Jobs, NEW s \in Shape,
         Placed(C, j, s) \/ Nowhere(C, j)
  PROVE  LET D == SetPending(C, j, s)
         IN  /\ \A i \in Jobs \ {j} : SameSets(C, D, i)
             /\ (D = C /\ ~Nowhere(C, j)) \/ WaitsAs(D, j, s.eta)
<1> DEFINE h == s.home
           D == SetPending(C, j, s)
<1>0. h \in Tree
  BY HomePath
<1>1. CASE j \in Waiting(C[h])
  <2>1. D = C /\ ~Nowhere(C, j)
    BY <1>0, <1>1 DEF SetPending, Nowhere
  <2> HIDE DEF D
  <2> QED BY <2>1 DEF SameSets, D
<1>2. CASE j \notin Waiting(C[h])
  <2> DEFINE R == Remove(C, j, h)
  <2>1. R \in Channelling /\ Nowhere(R, j) /\ \A i \in Jobs \ {j} : SameSets(C, R, i)
    BY <1>0, RemoveThen, RemoveExact
  <2>2. D = [R EXCEPT ![h] = Enqueue(@, j, s.eta)]
    BY <1>2 DEF SetPending
  <2> HIDE DEF R, D
  <2>3. /\ D[h] = Enqueue(R[h], j, s.eta)
        /\ \A c \in Tree \ {h} : D[c] = R[c]
    BY <1>0, <2>1, <2>2 DEF Channelling
  <2>4. R[h] \in Sets /\ j \notin R[h].queue /\ j \notin R[h].etaQueue
    BY <1>0, <2>1 DEF Channelling, Nowhere, Waiting
  <2>5. ASSUME NEW i \in Jobs \ {j} PROVE SameSets(C, D, i)
    <3>1. SameSets(R, D, i)
      BY <2>3, <2>4, EnqueueFields DEF SameSets
    <3> QED BY <2>1, <3>1 DEF SameSets
  <2>6. WaitsAs(D, j, s.eta)
    <3>1. /\ j \in D[h].queue => s.eta = 0
          /\ j \in D[h].etaQueue => s.eta # 0
          /\ D[h].running = R[h].running
      BY <2>3, <2>4 DEF Enqueue, Sets
    <3> QED BY <1>0, <2>1, <2>3, <3>1 DEF WaitsAs, Nowhere, Waiting
  <2> QED BY <2>5, <2>6 DEF D
<1> QED BY <1>1, <1>2

LEMMA SetFailedExact ==
  ASSUME NEW C \in Channelling, NEW j \in Jobs, NEW s \in Shape,
         Placed(C, j, s) \/ Nowhere(C, j)
  PROVE  LET D == SetFailed(C, j, s.home)
         IN  /\ \A i \in Jobs \ {j} : SameSets(C, D, i)
             /\ (D = C /\ ~Nowhere(C, j)) \/ WaitsAs(D, j, s.eta)
<1> DEFINE h == s.home
           D == SetFailed(C, j, h)
<1>0. h \in Tree
  BY HomePath
<1>1. CASE j \in C[h].failed
  <2>1. D = C /\ ~Nowhere(C, j)
    BY <1>0, <1>1 DEF SetFailed, Nowhere
  <2> HIDE DEF D
  <2> QED BY <2>1 DEF SameSets, D
<1>2. CASE j \notin C[h].failed
  <2> DEFINE R == Remove(C, j, h)
  <2>1. R \in Channelling /\ Nowhere(R, j) /\ \A i \in Jobs \ {j} : SameSets(C, R, i)
    BY <1>0, RemoveThen, RemoveExact
  <2>2. D = [R EXCEPT ![h].failed = @ \cup {j}]
    BY <1>2 DEF SetFailed
  <2> HIDE DEF R, D
  <2>3. R[h] \in Sets
    BY <1>0, <2>1 DEF Channelling
  <2>4. /\ D[h].queue = R[h].queue /\ D[h].etaQueue = R[h].etaQueue
        /\ D[h].running = R[h].running /\ D[h].failed = R[h].failed \cup {j}
        /\ \A c \in Tree \ {h} : D[c] = R[c]
    BY <1>0, <2>1, <2>2, <2>3 DEF Channelling, Sets
  <2>5. ASSUME NEW i \in Jobs \ {j} PROVE SameSets(C, D, i)
    <3>1. SameSets(R, D, i)
      BY <2>4 DEF SameSets
    <3> QED BY <2>1, <3>1 DEF SameSets
  <2>6. WaitsAs(D, j, s.eta)
    BY <1>0, <2>1, <2>4 DEF WaitsAs, Nowhere, Waiting
  <2> QED BY <2>5, <2>6 DEF D
<1> QED BY <1>1, <1>2

LEMMA SetRunningExact ==
  ASSUME NEW C \in Channelling, NEW j \in Jobs, NEW s \in Shape,
         Nowhere(C, j) \/ RunsIn(C, j, s.home)
  PROVE  LET D == SetRunning(C, j, s.home)
         IN  /\ \A i \in Jobs \ {j} : SameSets(C, D, i)
             /\ RunsIn(D, j, s.home)
<1> DEFINE h == s.home
           reached == {c \in Path[h] : \A d \in Path[h] :
                                  c \in Path[d] => j \notin C[d].running}
           D == SetRunning(C, j, h)
<1>0. h \in Tree /\ s # Gone /\ Path[h] \subseteq Tree
  BY HomePath
<1>1. \A c \in Tree : C[c] \in Sets
  BY DEF Channelling
<1>2. D = [c \in Tree |-> IF c \in reached
                            THEN [Cleared(C[c], j) EXCEPT !.running = @ \cup {j}]
                            ELSE C[c]]
  BY DEF SetRunning
<1> HIDE DEF D, reached
<1>3. \A c \in Tree : c \in reached =>
               /\ D[c].queue = C[c].queue \ {j}
               /\ D[c].etaQueue = C[c].etaQueue \ {j}
               /\ D[c].running = C[c].running \cup {j}
               /\ D[c].failed = C[c].failed \ {j}
  BY <1>1, <1>2 DEF Cleared, Sets
<1>4. \A c \in Tree : c \notin reached => D[c] = C[c]
  BY <1>2
<1>5. ASSUME NEW i \in Jobs \ {j} PROVE SameSets(C, D, i)
  BY <1>3, <1>4 DEF SameSets
<1>6. CASE RunsIn(C, j, h)
  <2>1. reached = {}
    BY <1>0, <1>6, TreeAssumption DEF RunsIn, reached
  <2> QED BY <1>4, <1>5, <1>6, <2>1 DEF RunsIn, Waiting, D
<1>7. CASE Nowhere(C, j)
  <2>1. reached = Path[h]
    BY <1>0, <1>7 DEF Nowhere, reached
  <2> QED BY <1>3, <1>4, <1>5, <1>7, <2>1 DEF Nowhere, RunsIn, Waiting, D
<1> QED BY <1>6, <1>7

\* What ChannelManager.notify does to the notified job and to the others.
LEMMA NotifyExact ==
  ASSUME TypeOK, FlowIsConsistent, NEW j \in Jobs, NEW s \in Shapes[j],
         NEW st \in States, Notify(j, s, st),
         st = "running" => job[j] = Gone \/ j \in ch[Root].running
  PROVE  /\ \A i \in Jobs \ {j} : /\ SameSets(ch, ch', i)
                                  /\ job'[i] = job[i] /\ due'[i] = due[i]
         /\ job'[j] \in {s, Gone} /\ due'[j] = s.eta
         /\ \/ ch' = ch /\ job[j] = s /\ job'[j] = s
            \/ st = "running" /\ job'[j] = s /\ RunsIn(ch', j, s.home)
            \/ WaitsAs(ch', j, s.eta)
<1> DEFINE C == Refreshed(j, s)
<1>0. s \in Shape /\ s # Gone /\ s.home \in Tree
  BY ShapesAssumption, HomePath
<1>1. ch \in Channelling /\ \A i \in Jobs : job[i] \in Shape \cup {Gone}
  BY DEF TypeOK, Channelling
<1>2. /\ C \in Channelling
      /\ \A i \in Jobs \ {j} : SameSets(ch, C, i)
      /\ \/ C = ch /\ job[j] = s
         \/ Nowhere(C, j)
  <2>1. CASE Changed(j, s)
    <3>1. job[j] \in Shape /\ Placed(ch, j, job[j]) /\ job[j].home \in Tree
      BY <1>1, <2>1, HomePath DEF Changed, FlowIsConsistent
    <3> QED BY <1>1, <2>1, <3>1, RemoveThen, RemoveExact DEF Refreshed
  <2>2. CASE ~Changed(j, s)
    <3>1. C = ch
      BY <2>2 DEF Refreshed
    <3>2. job[j] = s \/ Nowhere(ch, j)
      BY <2>2 DEF Changed, FlowIsConsistent, Placed
    <3> QED BY <1>1, <3>1, <3>2 DEF SameSets
  <2> QED BY <2>1, <2>2
<1>3. Placed(C, j, s) \/ Nowhere(C, j)
  BY <1>2 DEF FlowIsConsistent
<1>4. /\ \A i \in Jobs \ {j} : SameSets(C, ch', i)
      /\ \/ ch' = C /\ C = ch /\ job[j] = s /\ job'[j] = s
         \/ st = "running" /\ job'[j] = s /\ RunsIn(ch', j, s.home)
         \/ WaitsAs(ch', j, s.eta)
  <2> HIDE DEF C
  <2>0. Nowhere(C, j) => WaitsAs(C, j, s.eta)
    BY DEF Nowhere, WaitsAs, Waiting
  <2>1. CASE st = "done"
    <3>1. ch' = Remove(C, j, s.home)
      BY <1>1, <2>1 DEF Notify, C, TypeOK
    <3>2. Nowhere(ch', j)
      BY <1>0, <1>2, <1>3, <3>1, RemoveThen
    <3> QED BY <1>0, <3>1, <3>2, RemoveExact DEF Nowhere, WaitsAs, Waiting
  <2>2. CASE st = "pending"
    <3>1. ch' = SetPending(C, j, s) /\ job'[j] = s
      BY <1>1, <2>2 DEF Notify, C, TypeOK
    <3> QED BY <1>0, <1>2, <1>3, <3>1, SetPendingExact
  <2>3. CASE st = "running"
    <3>1. ch' = SetRunning(C, j, s.home) /\ job'[j] = s
      BY <1>1, <2>3 DEF Notify, C, TypeOK
    <3>2. Nowhere(C, j) \/ RunsIn(C, j, s.home)
      <4> SUFFICES ASSUME C = ch, job[j] = s PROVE RunsIn(ch, j, s.home)
        BY <1>2
      <4>1. j \in ch[Root].running /\ Placed(ch, j, s)
        BY <1>0, <2>3 DEF FlowIsConsistent
      <4> QED BY <1>0, <4>1, TreeAssumption DEF Placed, FailedAt, WaitsIn
    <3> QED BY <1>0, <1>2, <2>3, <3>1, <3>2, SetRunningExact
  <2>4. CASE st = "failed"
    <3>1. ch' = SetFailed(C, j, s.home) /\ job'[j] = s
      BY <1>1, <2>4 DEF Notify, C, TypeOK
    <3> QED BY <1>0, <1>2, <1>3, <3>1, SetFailedExact
  <2>5. CASE st = "wait"
    <3>1. ch' = C /\ job'[j] = IF job[j] = s THEN s ELSE Gone
      BY <1>1, <2>5 DEF Notify, C, TypeOK
    <3> QED BY <1>2, <2>0, <3>1 DEF SameSets
  <2> QED BY <2>1, <2>2, <2>3, <2>4, <2>5 DEF States
<1>5. /\ \A i \in Jobs \ {j} : job'[i] = job[i] /\ due'[i] = due[i]
      /\ job'[j] \in {s, Gone} /\ due'[j] = s.eta
  BY <1>1 DEF Notify, TypeOK
<1>6. \A i \in Jobs \ {j} : SameSets(ch, ch', i)
  BY <1>2, <1>4 DEF SameSets
<1> HIDE DEF C
<1> QED BY <1>4, <1>5, <1>6

LEMMA ForgetExact ==
  ASSUME TypeOK, FlowIsConsistent, NEW j \in Jobs, Forget(j)
  PROVE  /\ \A i \in Jobs \ {j} : SameSets(ch, ch', i) /\ job'[i] = job[i]
         /\ job'[j] = Gone /\ Nowhere(ch', j)
<1>1. job' = [job EXCEPT ![j] = Gone] /\ ch \in Channelling
      /\ job[j] \in Shape \cup {Gone}
  BY DEF Forget, TypeOK, Channelling
<1>2. job'[j] = Gone /\ \A i \in Jobs \ {j} : job'[i] = job[i]
  BY <1>1 DEF TypeOK
<1>3. Nowhere(ch', j)
  BY <1>2, ForgetOK DEF FlowIsConsistent, Placed
<1>4. ASSUME NEW i \in Jobs \ {j} PROVE SameSets(ch, ch', i)
  BY <1>1, RemoveExact, HomePath DEF Forget, SameSets
<1> QED BY <1>2, <1>3, <1>4

\* A job waits in one channel and in one of its two queues.
LEMMA WaitsOnce ==
  ASSUME TypeOK, FlowIsConsistent, NEW i, NEW c \in Tree, NEW d \in Tree,
         i \in Waiting(ch[c])
  PROVE  /\ i \in Jobs /\ job[i] \in Shape
         /\ i \in Waiting(ch[d]) => d = c
         /\ ~(i \in ch[c].queue /\ i \in ch[c].etaQueue)
<1>1. i \in Jobs
  BY DEF TypeOK, Sets, Waiting
<1> QED BY <1>1 DEF TypeOK, FlowIsConsistent, Placed, Nowhere, FailedAt, RunsIn, WaitsIn

\* A queued job has ripened and its time has come; a job that is set aside shows
\* the eta of its row.
EtaIsDue == \A c \in Tree, j \in Jobs :
    /\ j \in ch[c].queue => job[j].eta = 0 /\ due[j] <= now
    /\ j \in ch[c].etaQueue => job[j].eta = due[j] /\ due[j] # 0

\* What ripening leaves of the jobs of channel c and of the others.
LEMMA RipenExact ==
  ASSUME TypeOK, FlowIsConsistent, NEW c \in Tree, Ripen(c)
  PROVE  /\ \A i \in Jobs : /\ job'[i].home = job[i].home
                            /\ job'[i].rank = job[i].rank
                            /\ job[i] = Gone <=> job'[i] = Gone
                            /\ i \in Ripe(c) => job'[i].eta = 0
                            /\ i \notin Ripe(c) => job'[i] = job[i]
         /\ Ready(c) \subseteq Waiting(ch[c]) /\ Aside(c) \subseteq Waiting(ch[c])
         /\ \A i \in Aside(c) : job'[i] = job[i] /\ i \in Jobs
         /\ \A d \in Tree \ {c} : \A i \in Waiting(ch[d]) : job'[i] = job[i]
<1>1. ASSUME NEW i \in Ripe(c) PROVE i \in Waiting(ch[c]) /\ i \in Jobs /\ job[i] \in Shape
  BY WaitsOnce DEF Ripe, Waiting
<1>2. ASSUME NEW i \in Jobs
      PROVE  /\ job'[i].home = job[i].home
             /\ job'[i].rank = job[i].rank
             /\ job[i] = Gone <=> job'[i] = Gone
             /\ i \in Ripe(c) => job'[i].eta = 0
             /\ i \notin Ripe(c) => job'[i] = job[i]
  <2>1. CASE i \in Ripe(c)
    <3>1. job'[i] = [job[i] EXCEPT !.eta = 0] /\ job[i] \in Shape
      BY <1>1, <2>1 DEF Ripen
    <3> QED BY <2>1, <3>1 DEF Shape, Gone
  <2>2. CASE i \notin Ripe(c)
    BY <2>2 DEF Ripen
  <2> QED BY <2>1, <2>2
<1>3. Ready(c) \subseteq Waiting(ch[c]) /\ Aside(c) \subseteq Waiting(ch[c])
  BY DEF Ready, Aside, Ripe, Waiting
<1>4. \A i \in Aside(c) : i \in Jobs /\ i \notin Ripe(c)
  BY <1>3, WaitsOnce DEF Aside
<1>5. \A d \in Tree \ {c} : \A i \in Waiting(ch[d]) : i \in Jobs /\ i \notin Ripe(c)
  BY <1>1, WaitsOnce
<1> QED BY <1>2, <1>3, <1>4, <1>5

LEMMA RipenEta ==
  ASSUME TypeOK, FlowIsConsistent, EtaIsDue, NEW c \in Tree, Ripen(c)
  PROVE  /\ \A i \in Ready(c) : i \in Jobs /\ job'[i].eta = 0 /\ due[i] <= now
         /\ \A i \in Aside(c) : job'[i].eta = due[i] /\ due[i] # 0
         /\ \A d \in Tree \ {c}, i \in Jobs :
               /\ i \in ch[d].queue => job'[i].eta = 0 /\ due[i] <= now
               /\ i \in ch[d].etaQueue => job'[i].eta = due[i] /\ due[i] # 0
<1>1. ASSUME NEW i \in Ready(c)
      PROVE  i \in Jobs /\ job'[i].eta = 0 /\ due[i] <= now
  <2>1. i \in Jobs
    BY RipenExact, WaitsOnce
  <2>2. CASE i \in Ripe(c)
    BY <2>1, <2>2, RipenExact DEF Ripe, EtaIsDue
  <2>3. CASE i \in ch[c].queue /\ i \notin Ripe(c)
    BY <2>1, <2>3, RipenExact DEF EtaIsDue
  <2> QED BY <2>2, <2>3 DEF Ready
<1>2. \A i \in Aside(c) : job'[i].eta = due[i] /\ due[i] # 0
  BY RipenExact DEF Aside, EtaIsDue
<1>3. \A d \in Tree \ {c}, i \in Jobs :
               /\ i \in ch[d].queue => job'[i].eta = 0 /\ due[i] <= now
               /\ i \in ch[d].etaQueue => job'[i].eta = due[i] /\ due[i] # 0
  BY RipenExact DEF EtaIsDue, Waiting
<1> QED BY <1>1, <1>2, <1>3

\* The queues of a channel that popped a job.
LEMMA PoppedFields ==
  ASSUME TypeOK, FlowIsConsistent, NEW c \in Tree, NEW j \in Jobs, Pops(c, j)
  PROVE  /\ j \in Ready(c) /\ Ripen(c) /\ HasCapacity(c) /\ ~Paused(c)
         /\ Popped(c, j).queue = Ready(c) \ {j}
         /\ Popped(c, j).etaQueue = Aside(c)
         /\ Popped(c, j).running = ch[c].running \cup {j}
         /\ Popped(c, j).failed = ch[c].failed
<1>1. ch[c] \in Sets
  BY DEF TypeOK
<1> QED BY <1>1 DEF Pops, IsHead, Popped, Sets

LEMMA PromoteFields ==
  ASSUME TypeOK, FlowIsConsistent, NEW j \in Jobs, Promote(j)
  PROVE  LET p == Parent[Here]
         IN  /\ Here \in Tree /\ Here # Root /\ p \in Tree /\ p # Here
             /\ Pops(Here, j)
             /\ ch'[Here] = Popped(Here, j)
             /\ ch'[p].queue = ch[p].queue \cup {j}
             /\ ch'[p].etaQueue = ch[p].etaQueue
             /\ ch'[p].running = ch[p].running /\ ch'[p].failed = ch[p].failed
             /\ \A d \in Tree \ {Here, p} : ch'[d] = ch[d]
<1> DEFINE p == Parent[Here]
<1>1. Here \in Tree /\ Here # Root /\ p \in Tree /\ p # Here /\ Pops(Here, j)
  BY HereInTree, TreeAssumption DEF Promote
<1>2. ch \in [Tree -> Sets] /\ ch[p] \in Sets
  BY <1>1 DEF TypeOK
<1>3. ch' = [ch EXCEPT ![Here] = Popped(Here, j), ![p].queue = @ \cup {j}]
  BY DEF Promote
<1>4. /\ ch'[Here] = Popped(Here, j)
      /\ ch'[p].queue = ch[p].queue \cup {j} /\ ch'[p].etaQueue = ch[p].etaQueue
      /\ ch'[p].running = ch[p].running /\ ch'[p].failed = ch[p].failed
      /\ \A d \in Tree \ {Here, p} : ch'[d] = ch[d]
  BY <1>1, <1>2, <1>3 DEF Sets
<1> QED BY <1>1, <1>4

LEMMA YieldFields ==
  ASSUME TypeOK, FlowIsConsistent, NEW j \in Jobs, Yield(j)
  PROVE  /\ Root \in Tree /\ Here = Root /\ Pops(Root, j)
         /\ ch'[Root] = Popped(Root, j)
         /\ \A d \in Tree \ {Root} : ch'[d] = ch[d]
<1>1. ch \in [Tree -> Sets] /\ Root \in Tree /\ Pops(Root, j)
  BY TreeAssumption DEF TypeOK, Yield
<1>2. ch' = [ch EXCEPT ![Root] = Popped(Root, j)]
  BY DEF Yield
<1> QED BY <1>1, <1>2 DEF Yield

LEMMA EtaIsDueStep == Inv /\ EtaIsDue /\ [Next]_vars => EtaIsDue'
<1> SUFFICES ASSUME Inv, EtaIsDue, [Next]_vars PROVE EtaIsDue'
  OBVIOUS
<1>0. TypeOK /\ FlowIsConsistent /\ TypeOK' /\ FlowIsConsistent'
  BY NextInv DEF Inv
<1> DEFINE Timely(C, i) == \A c \in Tree :
                   /\ i \in C[c].queue => job'[i].eta = 0 /\ due'[i] <= now'
                   /\ i \in C[c].etaQueue => job'[i].eta = due'[i] /\ due'[i] # 0
<1> SUFFICES \A i \in Jobs : Timely(ch', i)
  BY DEF EtaIsDue
<1>1. ASSUME NEW j \in Jobs, NEW s \in Shapes[j], NEW st \in States,
             Notify(j, s, st), now' = now,
             st = "running" => job[j] = Gone \/ j \in ch[Root].running
      PROVE  \A i \in Jobs : Timely(ch', i)
  <2>0. s \in Shape /\ s.eta \in Nat /\ now \in Nat
    BY <1>0, ShapesAssumption DEF Shape, TypeOK
  <2>1. ASSUME NEW i \in Jobs, i # j PROVE Timely(ch', i)
    <3>1. SameSets(ch, ch', i) /\ job'[i] = job[i] /\ due'[i] = due[i]
      BY <1>0, <1>1, <2>1, NotifyExact
    <3> QED BY <1>1, <3>1 DEF EtaIsDue, SameSets
  <2>2. /\ job'[j] \in {s, Gone} /\ due'[j] = s.eta
        /\ \/ ch' = ch /\ job[j] = s /\ job'[j] = s
           \/ RunsIn(ch', j, s.home)
           \/ WaitsAs(ch', j, s.eta)
    BY <1>0, <1>1, NotifyExact
  <2>3. Timely(ch', j)
    <3>1. CASE ch' = ch /\ job[j] = s /\ job'[j] = s
      BY <1>1, <2>0, <2>2, <3>1 DEF EtaIsDue
    <3>2. CASE RunsIn(ch', j, s.home)
      BY <3>2 DEF RunsIn, Waiting
    <3>3. CASE WaitsAs(ch', j, s.eta)
      <4>1. job'[j] = Gone => Nowhere(ch', j)
        BY <1>0 DEF FlowIsConsistent, Placed
      <4> QED BY <1>1, <2>0, <2>2, <3>3, <4>1 DEF WaitsAs, Nowhere, Waiting
    <3> QED BY <2>2, <3>1, <3>2, <3>3
  <2> QED BY <2>1, <2>3
<1>2. ASSUME NEW j \in Jobs, RowDeleted(j) PROVE \A i \in Jobs : Timely(ch', i)
  <2>1. ASSUME NEW i \in Jobs PROVE Timely(ch', i)
    <3>1. (SameSets(ch, ch', i) /\ job'[i] = job[i]) \/ Nowhere(ch', i)
      BY <1>0, <1>2, ForgetExact DEF RowDeleted
    <3> QED BY <1>2, <3>1 DEF RowDeleted, EtaIsDue, SameSets, Nowhere, Waiting
  <2> QED BY <2>1
<1>3. ASSUME NEW j \in Jobs, Promote(j) PROVE \A i \in Jobs : Timely(ch', i)
  <2>1. Here \in Tree /\ Ripen(Here) /\ j \in Ready(Here)
    BY <1>0, <1>3, PromoteFields, PoppedFields
  <2>2. now' = now /\ due' = due
    BY <1>3 DEF Promote
  <2>3. ASSUME NEW i \in Jobs, NEW c \in Tree
        PROVE  /\ i \in ch'[c].queue => \/ i \in Ready(Here)
                                        \/ c # Here /\ i \in ch[c].queue
               /\ i \in ch'[c].etaQueue => \/ i \in Aside(Here)
                                           \/ c # Here /\ i \in ch[c].etaQueue
    BY <1>0, <1>3, <2>1, PromoteFields, PoppedFields
  <2> QED BY <1>0, <2>1, <2>2, <2>3, RipenEta
<1>4. ASSUME NEW j \in Jobs, Yield(j) PROVE \A i \in Jobs : Timely(ch', i)
  <2>1. Root \in Tree /\ Ripen(Root)
    BY <1>0, <1>4, YieldFields, PoppedFields
  <2>2. now' = now /\ due' = due
    BY <1>4 DEF Yield, history
  <2>3. ASSUME NEW i \in Jobs, NEW c \in Tree
        PROVE  /\ i \in ch'[c].queue => \/ i \in Ready(Root)
                                        \/ c # Root /\ i \in ch[c].queue
               /\ i \in ch'[c].etaQueue => \/ i \in Aside(Root)
                                           \/ c # Root /\ i \in ch[c].etaQueue
    BY <1>0, <1>4, <2>1, YieldFields, PoppedFields
  <2> QED BY <1>0, <2>1, <2>2, <2>3, RipenEta
<1>5. CASE EndChannel
  <2>1. Here \in Tree /\ Exhausted(Here) /\ now' = now /\ due' = due
    BY <1>0, <1>5, HereInTree DEF EndChannel, history
  <2>2. CASE UNCHANGED <<job, ch>>
    BY <2>1, <2>2 DEF EtaIsDue
  <2>3. CASE Ripen(Here) /\ ch'[Here].queue = Ready(Here)
             /\ ch'[Here].etaQueue = Aside(Here)
    <3>1. \A d \in Tree \ {Here} : ch'[d] = ch[d]
      BY <1>0, <2>1, ExhaustedFields
    <3>2. ASSUME NEW i \in Jobs, NEW c \in Tree
          PROVE  /\ i \in ch'[c].queue => \/ i \in Ready(Here)
                                          \/ c # Here /\ i \in ch[c].queue
                 /\ i \in ch'[c].etaQueue => \/ i \in Aside(Here)
                                             \/ c # Here /\ i \in ch[c].etaQueue
      BY <2>1, <2>3, <3>1
    <3> QED BY <1>0, <2>1, <2>3, <3>2, RipenEta
  <2> QED BY <1>0, <2>1, <2>2, <2>3, ExhaustedFields
<1>6. CASE Recover
  BY <1>6 DEF Recover, RemoveDb, Empty
<1>7. ASSUME UNCHANGED <<job, ch, due>>, now' >= now PROVE \A i \in Jobs : Timely(ch', i)
  BY <1>0, <1>7 DEF EtaIsDue, TypeOK
<1>8. CASE EndLoad \/ Tick \/ BeginPass \/ SkipPaused \/ Resume \/ WaitNotification
           \/ UNCHANGED vars
  <2>1. UNCHANGED <<job, ch, due>> /\ now' >= now
    BY <1>0, <1>8 DEF EndLoad, Tick, BeginPass, SkipPaused, Resume, WaitNotification,
                      vars, history, TypeOK
  <2> QED BY <1>7, <2>1
<1>9. ASSUME NEW j \in Jobs, NEW s \in Shapes[j], NEW st \in States,
             LoadRow(j, s, st) \/ NotifyRow(j, s, st)
      PROVE  \A i \in Jobs : Timely(ch', i)
  <2>1. /\ Notify(j, s, st) /\ now' = now
        /\ st = "running" => job[j] = Gone \/ j \in ch[Root].running
    BY <1>9 DEF LoadRow, NotifyRow
  <2> QED BY <1>1, <2>1
<1> QED BY <1>2, <1>3, <1>4, <1>5, <1>6, <1>8, <1>9 DEF Next

\* "Execute only after": no channel takes a job before the eta that its row
\* showed last, however the job was edited, ripened or moved on the way.
THEOREM EtaCorrect == Spec => EtaRespected
<1>1. Init => EtaIsDue
  BY DEF Init, EtaIsDue, Empty
<1>2. Inv /\ EtaIsDue /\ [Next]_vars =>
         [\A c \in Tree, j \in Jobs : Takes(c, j) => due[j] <= now]_vars
  <2> SUFFICES ASSUME Inv, EtaIsDue, [Next]_vars, NEW c \in Tree, NEW j \in Jobs,
                      Takes(c, j)
               PROVE  due[j] <= now
    OBVIOUS
  <2>1. Ripen(c) /\ j \in Ready(c)
    BY TakingStep DEF Pops, IsHead
  <2> QED BY <2>1, RipenEta DEF Inv
<1> QED BY <1>1, <1>2, InitInv, NextInv, EtaIsDueStep, PTL DEF Spec, EtaRespected

-----------------------------------------------------------------------------
(***************************************************************************)
(* In which order a sequential channel takes its jobs.                     *)
(***************************************************************************)

\* The object of a job keeps the home and the rank of a row it was read from.
Known == \A j \in Jobs : job[j] # Gone =>
            \E s \in Shapes[j] : s.home = job[j].home /\ s.rank = job[j].rank

LEMMA KnownStep == Inv /\ Known /\ [Next]_vars => Known'
<1> SUFFICES ASSUME Inv, Known, [Next]_vars PROVE Known'
  OBVIOUS
<1>0. TypeOK /\ FlowIsConsistent
  BY DEF Inv
<1>1. ASSUME NEW j \in Jobs, NEW s \in Shapes[j], NEW st \in States,
             LoadRow(j, s, st) \/ NotifyRow(j, s, st)
      PROVE  Known'
  <2>1. Notify(j, s, st) /\ (st = "running" => job[j] = Gone \/ j \in ch[Root].running)
    BY <1>1 DEF LoadRow, NotifyRow
  <2>2. job'[j] \in {s, Gone} /\ \A i \in Jobs \ {j} : job'[i] = job[i]
    BY <1>0, <2>1, NotifyExact
  <2> QED BY <2>2 DEF Known
<1>2. ASSUME NEW j \in Jobs, RowDeleted(j) PROVE Known'
  BY <1>0, <1>2, ForgetExact DEF RowDeleted, Known
<1>3. ASSUME NEW c \in Tree, Ripen(c) PROVE Known'
  BY <1>0, <1>3, RipenExact DEF Known
<1>4. ASSUME NEW j \in Jobs, Promote(j) \/ Yield(j) PROVE Known'
  BY <1>0, <1>3, <1>4, PromoteFields, YieldFields, PoppedFields
<1>5. CASE EndChannel
  <2>1. CASE UNCHANGED job
    BY <2>1 DEF Known
  <2> QED BY <1>0, <1>3, <1>5, <2>1, HereInTree, ExhaustedFields DEF EndChannel
<1>6. CASE Recover
  BY <1>6 DEF Recover, RemoveDb, Known
<1>7. CASE EndLoad \/ Tick \/ BeginPass \/ SkipPaused \/ Resume \/ WaitNotification
           \/ UNCHANGED vars
  BY <1>7 DEF EndLoad, Tick, BeginPass, SkipPaused, Resume, WaitNotification, vars,
              Known
<1> QED BY <1>1, <1>2, <1>4, <1>5, <1>6, <1>7 DEF Next

LEMMA KnownCorrect == Spec => [](Inv /\ Known)
<1>1. Init => Known
  BY DEF Init, Known
<1> QED BY <1>1, InitInv, NextInv, KnownStep, PTL DEF Spec

\* No two jobs have the same rank, which is a number.
LEMMA Ranks ==
  ASSUME TypeOK, Known, NEW i \in Jobs, NEW j \in Jobs, i # j,
         job[i] \in Shape, job[j] \in Shape
  PROVE  /\ job[i].rank \in Nat /\ job[j].rank \in Nat
         /\ RankLess(i, j) <=> ~RankLess(j, i)
<1>1. job[i].rank \in Nat /\ job[j].rank \in Nat
  BY DEF Shape
<1>2. job[i] # Gone /\ job[j] # Gone
  BY HomePath
<1>3. job[i].rank # job[j].rank
  BY <1>2, ShapesAssumption DEF Known
<1> QED BY <1>1, <1>3 DEF RankLess

\* A set of numbers has a smallest one.
LEMMA Smallest ==
  ASSUME NEW S, S \subseteq Nat, S # {}
  PROVE  \E x \in S : \A y \in S : x <= y
<1> DEFINE R == {n \in Nat \X Nat : n[1] < n[2]}
<1>1. IsWellFoundedOn(R, Nat)
  BY NatLessThanWellFounded DEF OpToRel
<1> HIDE DEF R
<1>2. PICK x \in S : \A y \in S : ~(<<y, x>> \in R)
  BY <1>1, WFMin
<1>3. ASSUME NEW y \in S PROVE x <= y
  <2>1. <<y, x>> \in Nat \X Nat /\ <<y, x>>[1] = y /\ <<y, x>>[2] = x
    OBVIOUS
  <2>2. ~(y < x)
    BY <1>2, <2>1 DEF R
  <2> QED BY <2>2
<1> QED BY <1>3

\* A set of jobs has a first one in the order of etas and ranks.
LEMMA EtaHeadExists ==
  ASSUME TypeOK, Known, NEW S \in SUBSET Jobs, S # {}, \A i \in S : job[i] \in Shape
  PROVE  \E k \in S : IsEtaHead(k, S)
<1>1. \A i \in S : job[i].eta \in Nat /\ job[i].rank \in Nat
  BY DEF Shape
<1>2. PICK k1 \in S : \A i \in S : job[k1].eta <= job[i].eta
  <2> DEFINE T == {job[i].eta : i \in S}
  <2>1. T \subseteq Nat /\ T # {}
    BY <1>1
  <2>2. PICK x \in T : \A y \in T : x <= y
    BY <2>1, Smallest
  <2> QED BY <2>2
<1> DEFINE First == {i \in S : job[i].eta = job[k1].eta}
<1>3. PICK k \in First : \A i \in First : job[k].rank <= job[i].rank
  <2> DEFINE T == {job[i].rank : i \in First}
  <2>1. T \subseteq Nat /\ T # {}
    BY <1>1
  <2>2. PICK x \in T : \A y \in T : x <= y
    BY <2>1, Smallest
  <2> QED BY <2>2
<1>4. ASSUME NEW i \in S \ {k} PROVE EtaLess(k, i)
  <2>1. CASE i \in First
    <3>1. RankLess(k, i) <=> ~RankLess(i, k)
      BY <2>1, Ranks
    <3> QED BY <1>1, <1>3, <2>1, <3>1 DEF EtaLess, RankLess
  <2>2. CASE i \notin First
    BY <1>1, <1>2, <1>3, <2>2 DEF EtaLess
  <2> QED BY <2>1, <2>2
<1> QED BY <1>4 DEF IsEtaHead

\* The jobs that run in a channel are finitely many.
LEMMA RunningFinite ==
  ASSUME TypeOK, NEW c \in Tree
  PROVE  /\ ch[c].running \subseteq Jobs
         /\ IsFiniteSet(ch[c].running) /\ Cardinality(ch[c].running) \in Nat
<1>1. ch[c].running \in SUBSET Jobs
  BY DEF TypeOK, Sets
<1> QED BY <1>1, ShapesAssumption, FS_Subset, FS_CardinalityType

\* "Since it's a sequential queue we wait until eta": a sequential channel takes
\* its jobs one by one, none after a failed one, and in their order, in which a
\* job is overtaken only while its eta lies behind that of a job of a later rank.
THEOREM SequentialCorrect == Spec => SequentialOrder
<1> DEFINE InOrder(c, j) ==
              /\ ch[c].running = {} /\ ch[c].failed = {}
              /\ \A i \in Waiting(ch[c]) \ {j} :
                    \/ RankLess(j, i)
                    \/ \E k \in Aside(c) : EtaLess(k, i) /\ RankLess(j, k)
<1>1. ASSUME Inv, Known, [Next]_vars, NEW c \in Sequential, NEW j \in Jobs, Takes(c, j)
      PROVE  InOrder(c, j)
  <2>0. TypeOK /\ FlowIsConsistent /\ c \in Tree /\ Capacity[c] = 1
    BY <1>1, ConfigAssumption DEF Inv
  <2>1. Pops(c, j) /\ Ripen(c) /\ j \in Ready(c) /\ IsHead(j, Ready(c)) /\ HasCapacity(c)
    BY <1>1, <2>0, TakingStep DEF Pops, IsHead
  <2>2. Cardinality(ch[c].running) < 1 /\ ch[c].failed = {}
    BY <1>1, <2>0, <2>1 DEF HasCapacity
  <2>3. ch[c].running = {}
    BY <2>0, <2>2, RunningFinite, FS_EmptySet
  <2>4. Ready(c) \cup Aside(c) = Waiting(ch[c]) /\ \A i \in Aside(c) : i \notin Ready(c)
    <3>1. Ready(c) \cup Aside(c) = Waiting(ch[c])
      BY <2>0, <2>1, RipenOK
    <3>2. \A i \in Aside(c) : i \notin ch[c].queue /\ i \notin Ripe(c)
      BY <2>0, WaitsOnce DEF Aside, Waiting
    <3> QED BY <3>1, <3>2 DEF Ready
  <2>5. \A i \in Waiting(ch[c]) : i \in Jobs /\ job[i] \in Shape
    BY <2>0, WaitsOnce
  <2>6. ASSUME NEW k \in Aside(c), IsEtaHead(k, Aside(c)) PROVE RankLess(j, k)
    <3>1. ~RankLess(k, j)
      BY <1>1, <2>1, <2>6 DEF Pops, WaitsForEta
    <3> QED BY <1>1, <2>0, <2>1, <2>4, <2>5, <3>1, Ranks
  <2>7. ASSUME NEW i \in Waiting(ch[c]) \ {j}
        PROVE  \/ RankLess(j, i)
               \/ \E k \in Aside(c) : EtaLess(k, i) /\ RankLess(j, k)
    <3>1. CASE i \in Ready(c)
      BY <2>1, <3>1 DEF IsHead
    <3>2. CASE i \in Aside(c)
      <4>1. PICK k \in Aside(c) : IsEtaHead(k, Aside(c))
        BY <1>1, <2>0, <2>4, <2>5, <3>2, EtaHeadExists
      <4> QED BY <2>6, <3>2, <4>1 DEF IsEtaHead
    <3> QED BY <2>4, <3>1, <3>2
  <2> QED BY <2>2, <2>3, <2>7
<1>2. Inv /\ Known /\ [Next]_vars =>
         [\A c \in Sequential, j \in Jobs : Takes(c, j) => InOrder(c, j)]_vars
  BY <1>1
<1> QED BY <1>2, KnownCorrect, PTL DEF Spec, SequentialOrder

-----------------------------------------------------------------------------
(***************************************************************************)
(* What runs fits the capacities.                                          *)
(***************************************************************************)

\* The edits of the channel of a job leave it below the same limited channels.
\* A job that runs and is moved below another one counts there at once, full
\* or not: set_running asks for no capacity.
EditsKeepLimits ==
    \A j \in Jobs : \A s, t \in Shapes[j] : \A c \in Tree :
        Capacity[c] # 0 => (c \in Path[s.home] <=> c \in Path[t.home])

\* A limited channel is within its capacity as soon as it has promoted a job:
\* only the jobs that run already when they are read can exceed it.
Fits(c) == \/ Capacity[c] = 0
           \/ Cardinality(ch[c].running) <= Capacity[c]
           \/ ch[c].running \subseteq ch[Root].running

CapacityInv == /\ \A c \in Tree : Fits(c)
               /\ pc = "load" =>
                     \A c \in Tree : ch[c].running \subseteq ch[Root].running

\* A channel that loses running jobs together with the root still fits.
LEMMA FitsFewer ==
  ASSUME TypeOK, NEW c \in Tree, Fits(c), ch'[c].running \subseteq ch[c].running,
         \A i \in ch'[c].running : i \in ch[Root].running => i \in ch'[Root].running
  PROVE  Fits(c)'
<1>1. CASE Cardinality(ch[c].running) <= Capacity[c]
  <2>1. /\ Cardinality(ch'[c].running) <= Cardinality(ch[c].running)
        /\ IsFiniteSet(ch'[c].running)
    BY RunningFinite, FS_Subset
  <2> QED BY <1>1, <2>1, RunningFinite, FS_CardinalityType, ConfigAssumption DEF Fits
<1>2. CASE Capacity[c] = 0 \/ ch[c].running \subseteq ch[Root].running
  BY <1>2 DEF Fits
<1> QED BY <1>1, <1>2 DEF Fits

\* A channel with capacity that takes a job is within its capacity.
LEMMA FitsOneMore ==
  ASSUME TypeOK, NEW c \in Tree, NEW j, HasCapacity(c)
  PROVE  \/ Capacity[c] = 0
         \/ /\ IsFiniteSet(ch[c].running \cup {j})
            /\ Cardinality(ch[c].running \cup {j}) <= Capacity[c]
<1>1. CASE Capacity[c] # 0
  <2>1. Cardinality(ch[c].running) < Capacity[c] /\ Capacity[c] \in Nat
    BY <1>1, ConfigAssumption DEF HasCapacity
  <2>2. IsFiniteSet(ch[c].running) /\ Cardinality(ch[c].running) \in Nat
    BY RunningFinite
  <2>3. /\ IsFiniteSet(ch[c].running \cup {j})
        /\ \/ Cardinality(ch[c].running \cup {j}) = Cardinality(ch[c].running)
           \/ Cardinality(ch[c].running \cup {j}) = Cardinality(ch[c].running) + 1
    BY <2>2, FS_AddElement
  <2> QED BY <2>1, <2>2, <2>3
<1> QED BY <1>1

LEMMA CapacityInvStep ==
  ASSUME EditsKeepLimits, Inv, Known, CapacityInv, [Next]_vars
  PROVE  CapacityInv'
<1>0. TypeOK /\ FlowIsConsistent /\ Root \in Tree /\ \A c \in Tree : Root \in Path[c]
  BY TreeAssumption DEF Inv
<1>1. ASSUME NEW j \in Jobs, NEW s \in Shapes[j], NEW st \in States, LoadRow(j, s, st)
      PROVE  CapacityInv'
  <2>1. Notify(j, s, st) /\ pc = "load" /\ job[j] = Gone /\ s \in Shape
    BY <1>1, ShapesAssumption DEF LoadRow
  <2>2. \A c \in Tree : j \notin ch[c].running
    BY <2>1 DEF Inv, FlowIsConsistent, Placed, Nowhere
  <2>3. \/ \A c \in Tree : j \notin ch'[c].running
        \/ j \in ch'[Root].running
    BY <1>0, <2>1, <2>2, NotifyExact, HomePath DEF RunsIn, WaitsAs
  <2>4. \A i \in Jobs \ {j} : SameSets(ch, ch', i)
    BY <1>0, <2>1, NotifyExact
  <2>5. \A c \in Tree : ch'[c].running \subseteq Jobs
    BY NextInv DEF Inv, TypeOK, Sets
  <2>6. \A c \in Tree : ch'[c].running \subseteq ch'[Root].running
    BY <1>0, <2>1, <2>3, <2>4, <2>5 DEF CapacityInv, SameSets
  <2> QED BY <2>6 DEF CapacityInv, Fits
<1>2. ASSUME NEW j \in Jobs, \A i \in Jobs \ {j} : SameSets(ch, ch', i),
             \A c \in Tree : j \notin ch'[c].running, pc' # "load"
      PROVE  CapacityInv'
  <2>1. \A c \in Tree : ch'[c].running \subseteq Jobs
    BY NextInv DEF Inv, TypeOK, Sets
  <2>2. ASSUME NEW c \in Tree PROVE Fits(c)'
    <3>1. Fits(c) /\ ch'[c].running \subseteq ch[c].running
      BY <1>2, <2>1 DEF CapacityInv, SameSets
    <3>2. \A i \in ch'[c].running : i \in ch[Root].running => i \in ch'[Root].running
      BY <1>0, <1>2, <2>1 DEF SameSets
    <3> QED BY <1>0, <3>1, <3>2, FitsFewer
  <2> QED BY <1>2, <2>2 DEF CapacityInv
<1>3. ASSUME NEW j \in Jobs, NEW s \in Shapes[j], NEW st \in States, NotifyRow(j, s, st)
      PROVE  CapacityInv'
  <2>1. /\ Notify(j, s, st) /\ pc' = "idle"
        /\ st = "running" => j \in ch[Root].running
        /\ s \in Shape
    BY <1>3, ShapesAssumption DEF NotifyRow
  <2>2. /\ \A i \in Jobs \ {j} : SameSets(ch, ch', i)
        /\ \/ ch' = ch
           \/ st = "running" /\ RunsIn(ch', j, s.home)
           \/ \A c \in Tree : j \notin ch'[c].running
    BY <1>0, <2>1, NotifyExact DEF WaitsAs
  <2>3. CASE ch' = ch
    BY <2>1, <2>3 DEF CapacityInv, Fits
  <2>4. CASE st = "running" /\ RunsIn(ch', j, s.home)
    <3>1. /\ RunsIn(ch, j, job[j].home) /\ job[j] # Gone /\ job[j] \in Shape
      <4>1. Placed(ch, j, job[j]) /\ job[j] \in Shape \cup {Gone}
        BY <1>0 DEF FlowIsConsistent, TypeOK
      <4>2. j \in ch[Root].running /\ Path[Root] = {Root}
        BY <2>1, <2>4, TreeAssumption
      <4> QED BY <1>0, <4>1, <4>2 DEF Placed, Nowhere, FailedAt, WaitsIn
    <3>2. \A c \in Tree : Capacity[c] # 0 =>
                (c \in Path[s.home] <=> c \in Path[job[j].home])
      BY <3>1 DEF EditsKeepLimits, Known
    <3>3. \A c \in Tree : ch'[c].running \subseteq Jobs /\ ch[c].running \subseteq Jobs
      BY NextInv DEF Inv, TypeOK, Sets
    <3>4. ASSUME NEW c \in Tree, Capacity[c] # 0 \/ c = Root
          PROVE  ch'[c].running = ch[c].running
      <4>1. j \in ch'[c].running <=> j \in ch[c].running
        <5>1. c \in Path[s.home] <=> c \in Path[job[j].home]
          BY <1>0, <2>1, <3>1, <3>2, <3>4, HomePath
        <5> QED BY <2>4, <3>1, <5>1 DEF RunsIn
      <4>2. \A i \in Jobs \ {j} : i \in ch'[c].running <=> i \in ch[c].running
        BY <2>2 DEF SameSets
      <4>3. ch'[c].running \subseteq Jobs /\ ch[c].running \subseteq Jobs
        BY <3>3
      <4>4. \A i \in Jobs : i \in ch'[c].running <=> i \in ch[c].running
        BY <4>1, <4>2
      <4> QED BY Zenon, <4>3, <4>4
    <3>5. ASSUME NEW c \in Tree PROVE Fits(c)'
      BY <1>0, <3>4 DEF CapacityInv, Fits
    <3> QED BY <2>1, <3>5 DEF CapacityInv
  <2> QED BY <1>2, <2>1, <2>2, <2>3, <2>4
<1>4. ASSUME NEW j \in Jobs, RowDeleted(j) PROVE CapacityInv'
  BY <1>0, <1>2, <1>4, ForgetExact DEF RowDeleted, Nowhere
<1>5. ASSUME NEW j \in Jobs, Promote(j) PROVE CapacityInv'
  <2>1. PICK h \in Tree :
              /\ h # Root /\ HasCapacity(h)
              /\ ch'[h].running = ch[h].running \cup {j}
              /\ \A c \in Tree \ {h} : ch'[c].running = ch[c].running
    BY <1>0, <1>5, PromoteFields, PoppedFields
  <2>2. Fits(h)'
    BY <1>0, <2>1, FitsOneMore DEF Fits
  <2>3. \A c \in Tree \ {h} : Fits(c)'
    BY <1>0, <2>1 DEF CapacityInv, Fits
  <2>4. pc' # "load"
    BY <1>5 DEF Promote, PauseAfterJob, NextChannel
  <2> QED BY <2>2, <2>3, <2>4 DEF CapacityInv
<1>6. ASSUME NEW j \in Jobs, Yield(j) PROVE CapacityInv'
  <2>1. /\ ch'[Root].running = ch[Root].running \cup {j}
        /\ \A c \in Tree \ {Root} : ch'[c].running = ch[c].running
    BY <1>0, <1>6, YieldFields, PoppedFields
  <2>2. \A c \in Tree : Fits(c)'
    BY <1>0, <2>1 DEF CapacityInv, Fits
  <2> QED BY <1>6, <2>2 DEF CapacityInv, Yield
<1>7. CASE EndChannel
  <2>1. \A c \in Tree : ch'[c].running = ch[c].running
    BY <1>0, <1>7, HereInTree, ExhaustedFields DEF EndChannel
  <2>2. \A c \in Tree : Fits(c)'
    BY <1>0, <2>1 DEF CapacityInv, Fits
  <2> QED BY <1>7, <2>2 DEF CapacityInv, EndChannel, NextChannel
<1>8. CASE Recover
  BY <1>0, <1>8 DEF Recover, RemoveDb, Empty, CapacityInv, Fits
<1>9. ASSUME UNCHANGED ch, pc' = "load" => pc = "load" PROVE CapacityInv'
  BY <1>9 DEF CapacityInv, Fits
<1>10. CASE EndLoad \/ Tick \/ BeginPass \/ SkipPaused \/ Resume \/ WaitNotification
            \/ UNCHANGED vars
  BY <1>9, <1>10 DEF EndLoad, Tick, BeginPass, SkipPaused, Resume, WaitNotification,
                     NextChannel, PauseAfterJob, vars
<1> QED BY <1>1, <1>3, <1>4, <1>5, <1>6, <1>7, <1>8, <1>10 DEF Next

\* When a job is sent to Odoo the jobs that run fit the capacity of every
\* channel on its path, counted over all its subchannels, whatever ran already
\* when the runner started.
THEOREM StartsFitCorrect ==
  ASSUME EditsKeepLimits
  PROVE  Spec => StartsFit
<1> DEFINE Fit(j) == \A c \in Path[job[j].home] :
                        \/ Capacity[c] = 0
                        \/ Cardinality(RunningBelow(c, ch')) <= Capacity[c]
<1>1. Init => CapacityInv
  BY TreeAssumption DEF Init, Empty, CapacityInv, Fits
<1>2. ASSUME Inv, CapacityInv, [Next]_vars, NEW j \in Jobs, Takes(Root, j)
      PROVE  Fit(j)
  <2> SUFFICES ASSUME NEW c \in Path[job[j].home], Capacity[c] # 0
               PROVE  Cardinality(RunningBelow(c, ch')) <= Capacity[c]
    OBVIOUS
  <2>0. TypeOK /\ FlowIsConsistent /\ Root \in Tree
    BY <1>2, TreeAssumption DEF Inv
  <2>1. Yield(j)
    BY <1>2, <2>0, TakingStep DEF Promote
  <2>2. /\ Pops(Root, j) /\ HasCapacity(Root)
        /\ ch'[Root].running = ch[Root].running \cup {j}
    BY <2>0, <2>1, YieldFields, PoppedFields
  <2>3. /\ job[j] \in Shape /\ WaitsIn(ch, j, job[j].home, Root)
        /\ c \in Tree /\ Root \in Path[c]
    BY <2>0, <2>2, PoppedOK, HomePath, TreeAssumption
  <2>4. CASE c = Root
    <3>1. RunningBelow(c, ch') \subseteq ch[Root].running \cup {j}
      BY <2>2 DEF RunningBelow
    <3>2. /\ IsFiniteSet(ch[Root].running \cup {j})
          /\ Cardinality(ch[Root].running \cup {j}) <= Capacity[c]
      BY <2>0, <2>2, <2>4, FitsOneMore
    <3> QED BY <3>1, <3>2, <2>3, ConfigAssumption, FS_Subset, FS_CardinalityType
  <2>5. CASE c # Root
    <3>1. j \in ch[c].running /\ j \notin ch[Root].running
      BY <2>0, <2>3, <2>5 DEF WaitsIn
    <3>2. Cardinality(ch[c].running) <= Capacity[c]
      BY <1>2, <2>3, <3>1 DEF CapacityInv, Fits
    <3>3. ASSUME NEW i \in ch[Root].running, c \in Path[job[i].home]
          PROVE  i \in ch[c].running
      <4>1. i \in Jobs
        BY <2>0, RunningFinite
      <4> QED BY <2>0, <2>3, <3>3, <4>1, TreeAssumption
              DEF FlowIsConsistent, Placed, Nowhere, FailedAt, RunsIn, WaitsIn
    <3>4. RunningBelow(c, ch') \subseteq ch[c].running
      BY <2>2, <3>1, <3>3 DEF RunningBelow
    <3> QED BY <2>0, <2>3, <3>2, <3>4, RunningFinite, ConfigAssumption, FS_Subset,
               FS_CardinalityType
  <2> QED BY <2>4, <2>5
<1>3. Inv /\ Known /\ CapacityInv /\ [Next]_vars => CapacityInv'
  BY CapacityInvStep
<1>4. Inv /\ CapacityInv /\ [Next]_vars => [\A j \in Jobs : Takes(Root, j) => Fit(j)]_vars
  BY <1>2
<1> QED BY <1>1, <1>3, <1>4, KnownCorrect, PTL DEF Spec, StartsFit

-----------------------------------------------------------------------------
(***************************************************************************)
(* The wakeup times: a pass that nothing asked for has nothing to do.      *)
(*                                                                         *)
(* A pass leaves each channel it has served with nothing to run now        *)
(* (Done); the channels that ask for a wakeup then have nothing to run     *)
(* before the alarm (SleepsUntilAlarm), and a pass that begins earlier     *)
(* finds them asleep (Asleep).  The channels that do not ask may run jobs  *)
(* in such a pass, but only into a channel that is paused or asks nothing. *)
(***************************************************************************)

\* The first job of the queue, if any, has to wait for the eta of another.
Holds(c) == c \in Sequential /\ \E i \in ch[c].etaQueue, j \in ch[c].queue :
    IsEtaHead(i, ch[c].etaQueue) /\ IsHead(j, ch[c].queue) /\ RankLess(i, j)

Drained(c) == ch[c].queue = {} \/ Holds(c)
AllLater(c) == \A j \in ch[c].etaQueue : now < job[j].eta

Served == CASE pc \in {"serve", "yielded"} -> {PostOrder[i] : i \in 1..(at - 1)}
            [] pc = "wait" -> Tree
            [] OTHER -> {}

Done(c) == Paused(c) \/ ~HasCapacity(c) \/ (Drained(c) /\ AllLater(c))

Asleep(c) == IF pauseUntil[c] # 0 THEN Paused(c) ELSE Drained(c) /\ AllLater(c)

SleepsUntilAlarm(c) ==
    IF pauseUntil[c] # 0
      THEN alarm # 0 /\ alarm <= pauseUntil[c]
      ELSE /\ Drained(c)
           /\ \A j \in ch[c].etaQueue : alarm # 0 /\ alarm <= job[j].eta

WakeupInv ==
    /\ \A c \in Served : Done(c)
    /\ pc = "load" => ~calm
    /\ pc = "idle" /\ calm => \A c \in Tree : Asks(c) => SleepsUntilAlarm(c)
    /\ pc = "serve" /\ early => \A c \in Tree : Asks(c) => Asleep(c)
    /\ pc = "yielded" => ~early /\ Here = Root

\* A channel that is drained and whose etas are all to come gives no job.
LEMMA DrainedGivesNothing ==
  ASSUME NEW c \in Tree, Drained(c), AllLater(c), TypeOK, FlowIsConsistent
  PROVE  /\ Ripe(c) = {} /\ Ready(c) = ch[c].queue /\ Aside(c) = ch[c].etaQueue
         /\ \A j \in Jobs : ~Pops(c, j)
<1>1. Ripe(c) = {}
  <2> SUFFICES ASSUME NEW i \in ch[c].etaQueue, job[i].eta <= now PROVE FALSE
    BY DEF Ripe
  <2>1. job[i] \in Shape
    BY WaitsOnce DEF Waiting
  <2>2. job[i].eta \in Nat /\ now \in Nat /\ now < job[i].eta
    BY <2>1 DEF Shape, AllLater, TypeOK
  <2> QED BY <2>2
<1>2. Ready(c) = ch[c].queue /\ Aside(c) = ch[c].etaQueue
  BY <1>1 DEF Ready, Aside
<1>3. ASSUME NEW j \in Jobs, Pops(c, j) PROVE FALSE
  <2>1. ch[c].queue # {} /\ ~WaitsForEta(c)
    BY <1>2, <1>3 DEF Pops, IsHead
  <2> QED BY <1>2, <2>1 DEF Drained, Holds, WaitsForEta
<1> QED BY <1>1, <1>2, <1>3

\* A channel that keeps its sets, its pause and its waiting jobs stays as it was.
LEMMA ChannelFrame ==
  ASSUME NEW c \in Tree, ch'[c] = ch[c], pauseUntil'[c] = pauseUntil[c], now' = now,
         \A i \in Waiting(ch[c]) : job'[i] = job[i]
  PROVE  /\ HasCapacity(c)' <=> HasCapacity(c)
         /\ Paused(c)' <=> Paused(c)
         /\ Drained(c)' <=> Drained(c)
         /\ AllLater(c)' <=> AllLater(c)
         /\ Done(c)' <=> Done(c)
         /\ Asleep(c)' <=> Asleep(c)
<1>1. (HasCapacity(c)' <=> HasCapacity(c)) /\ (Paused(c)' <=> Paused(c))
  BY DEF HasCapacity, Paused
<1>2. \A i \in Waiting(ch[c]) : \A j \in Waiting(ch[c]) :
           /\ RankLess(i, j)' <=> RankLess(i, j)
           /\ EtaLess(i, j)' <=> EtaLess(i, j)
  BY DEF RankLess, EtaLess
<1>3. \A i : /\ IsHead(i, ch[c].queue)' <=> IsHead(i, ch[c].queue)
             /\ IsEtaHead(i, ch[c].etaQueue)' <=> IsEtaHead(i, ch[c].etaQueue)
  BY <1>2 DEF IsHead, IsEtaHead, Waiting
<1>4. Holds(c)' <=> Holds(c)
  BY <1>2, <1>3 DEF Holds, Waiting
<1>5. (Drained(c)' <=> Drained(c)) /\ (AllLater(c)' <=> AllLater(c))
  BY <1>4 DEF Drained, AllLater, Waiting
<1> QED BY <1>1, <1>5 DEF Done, Asleep

\* An exhausted channel with capacity is left drained, its etas to come.
LEMMA ExhaustedDone ==
  ASSUME TypeOK, FlowIsConsistent, NEW c \in Tree, Exhausted(c), now' = now
  PROVE  Done(c)'
<1>1. CASE ~HasCapacity(c) /\ UNCHANGED <<job, ch>>
  BY <1>1 DEF HasCapacity, Done
<1>2. CASE /\ Ready(c) = {} \/ WaitsForEta(c)
           /\ Ripen(c)
           /\ ch'[c].queue = Ready(c) /\ ch'[c].etaQueue = Aside(c)
  <2>1. \A i \in Aside(c) : job'[i] = job[i] /\ i \in Jobs /\ job[i] \in Shape
    BY <1>2, RipenExact, WaitsOnce
  <2>2. AllLater(c)'
    <3> SUFFICES ASSUME NEW i \in Aside(c) PROVE now < job[i].eta
      BY <1>2, <2>1 DEF AllLater
    <3>1. i \in ch[c].etaQueue /\ ~(job[i].eta <= now)
      BY DEF Aside, Ripe
    <3> QED BY <2>1, <3>1 DEF Shape, TypeOK
  <2>3. \A i \in Waiting(ch[c]) : job'[i].rank = job[i].rank
    BY <1>2, RipenExact, WaitsOnce
  <2>4. WaitsForEta(c) => Holds(c)'
    <3> SUFFICES ASSUME NEW i \in Aside(c), NEW j \in Ready(c), c \in Sequential,
                        IsEtaHead(i, Aside(c)), IsHead(j, Ready(c)), RankLess(i, j)
                 PROVE  Holds(c)'
      BY DEF WaitsForEta
    <3>1. Ready(c) \subseteq Waiting(ch[c]) /\ Aside(c) \subseteq Waiting(ch[c])
      BY <1>2, RipenExact
    <3>2. \A k \in Waiting(ch[c]), l \in Waiting(ch[c]) : RankLess(k, l)' <=> RankLess(k, l)
      BY <2>3 DEF RankLess
    <3>3. \A k \in Aside(c), l \in Aside(c) : EtaLess(k, l)' <=> EtaLess(k, l)
      BY <2>1, <3>1, <3>2 DEF EtaLess
    <3>4. IsEtaHead(i, ch[c].etaQueue)'
      BY <1>2, <3>3 DEF IsEtaHead
    <3>5. IsHead(j, ch[c].queue)'
      BY <1>2, <3>1, <3>2 DEF IsHead
    <3> QED BY <1>2, <3>1, <3>2, <3>4, <3>5 DEF Holds
  <2> QED BY <1>2, <2>2, <2>4 DEF Done, Drained
<1> QED BY <1>1, <1>2, ExhaustedFields

\* The channel being served and its parent have not been served in this pass,
\* and the next step of the loop adds just that channel.
LEMMA ServedOnce ==
  ASSUME TypeOK, pc \in {"serve", "yielded"}
  PROVE  /\ Here \in Tree /\ Here \notin Served
         /\ Here # Root => Parent[Here] \notin Served
         /\ Served \subseteq Tree
<1>1. at \in 1..Len(PostOrder) /\ \A i \in 1..Len(PostOrder) : PostOrder[i] \in Tree
  BY TreeAssumption DEF TypeOK
<1>2. Served = {PostOrder[i] : i \in 1..(at - 1)}
  BY DEF Served
<1>3. \A i \in 1..(at - 1) : i \in 1..Len(PostOrder) /\ i < at
  BY <1>1
<1> QED BY <1>1, <1>2, <1>3, PostOrderAssumption DEF Here

LEMMA NextServed ==
  ASSUME TypeOK, pc \in {"serve", "yielded"}, NextChannel
  PROVE  /\ Served' = Served \cup {Here}
         /\ pc' \in {"serve", "wait"}
<1>1. at \in 1..Len(PostOrder) /\ Len(PostOrder) \in Nat
      /\ \A i \in 1..Len(PostOrder) : PostOrder[i] \in Tree
  BY TreeAssumption DEF TypeOK
<1>2. Served = {PostOrder[i] : i \in 1..(at - 1)}
  BY DEF Served
<1>3. 1..at = 1..(at - 1) \cup {at}
  BY <1>1
<1>4. {PostOrder[i] : i \in 1..at} = Served \cup {Here}
  BY <1>2, <1>3 DEF Here
<1>5. CASE at < Len(PostOrder)
  <2>1. at' = at + 1 /\ pc' = "serve" /\ (at + 1) - 1 = at
    BY <1>1, <1>5 DEF NextChannel
  <2> QED BY <1>4, <2>1 DEF Served
<1>6. CASE ~(at < Len(PostOrder))
  <2>1. at = Len(PostOrder) /\ pc' = "wait"
    BY <1>1, <1>6 DEF NextChannel
  <2>2. {PostOrder[i] : i \in 1..at} = Tree
    BY <1>1, <2>1, PostOrderAssumption
  <2> QED BY <1>4, <2>1, <2>2 DEF Served
<1> QED BY <1>5, <1>6

\* PauseAfterJob serves the channel if it has a throttle, and pauses it.
LEMMA PauseAfterJobServed ==
  ASSUME TypeOK, pc \in {"serve", "yielded"}, PauseAfterJob(Here), now' = now
  PROVE  /\ \A d \in Tree \ {Here} : pauseUntil'[d] = pauseUntil[d]
         /\ pauseUntil'[Here] = 0 => pauseUntil[Here] = 0
         /\ \/ Served' = Served \cup {Here} /\ pauseUntil'[Here] # 0
               /\ now < pauseUntil'[Here]
            \/ Served' = Served
         /\ pc' \in {"serve", "wait"}
<1>0. Here \in Tree /\ Throttle[Here] \in Nat /\ now \in Nat
  BY ServedOnce, ConfigAssumption DEF TypeOK
<1>1. CASE Throttle[Here] # 0
  <2>1. NextChannel /\ pauseUntil' = [pauseUntil EXCEPT ![Here] = now + Throttle[Here]]
    BY <1>1 DEF PauseAfterJob
  <2>2. pauseUntil'[Here] = now + Throttle[Here]
        /\ \A d \in Tree \ {Here} : pauseUntil'[d] = pauseUntil[d]
    BY <1>0, <2>1 DEF TypeOK
  <2> QED BY <1>0, <1>1, <2>1, <2>2, NextServed
<1>2. CASE Throttle[Here] = 0
  <2>1. pauseUntil' = pauseUntil /\ at' = at /\ pc' = "serve"
    BY <1>2 DEF PauseAfterJob
  <2>2. Served' = Served
    BY <2>1 DEF Served
  <2> QED BY <2>1, <2>2
<1> QED BY <1>1, <1>2

\* A channel downstream of one that asks asks too.
LEMMA AsksDownstream ==
  ASSUME NEW c \in Tree, NEW d \in Path[c], Asks(c)
  PROVE  Asks(d)
<1>1. d \in Tree /\ Path[d] \subseteq Path[c]
  BY TreeAssumption
<1>2. d # c => c \notin Path[d]
  BY <1>1, TreeAssumption
<1> QED BY <1>1, <1>2 DEF Asks

\* A served channel stays done while another one is served.
LEMMA ServedStayDone ==
  ASSUME TypeOK, FlowIsConsistent, NEW h \in Tree, NEW c \in Tree, c # h, Done(c),
         ch'[c] = ch[c], pauseUntil'[c] = pauseUntil[c], now' = now,
         UNCHANGED job \/ Ripen(h)
  PROVE  Done(c)'
<1>1. \A i \in Waiting(ch[c]) : job'[i] = job[i]
  BY RipenExact
<1> QED BY <1>1, ChannelFrame

LEMMA SleepersStayAsleep ==
  ASSUME TypeOK, FlowIsConsistent, NEW h \in Tree, NEW c \in Tree, c # h, Asleep(c),
         ch'[c] = ch[c], pauseUntil'[c] = pauseUntil[c], now' = now,
         UNCHANGED job \/ Ripen(h)
  PROVE  Asleep(c)'
<1>1. \A i \in Waiting(ch[c]) : job'[i] = job[i]
  BY RipenExact
<1> QED BY <1>1, ChannelFrame

LEMMA PromoteWakeup ==
  ASSUME Inv, WakeupInv, NEW j \in Jobs, Promote(j)
  PROVE  WakeupInv'
<1>0. TypeOK /\ FlowIsConsistent /\ pc = "serve" /\ now' = now /\ early' = early
  BY DEF Inv, Promote
<1>1. PICK h \in Tree : h = Here
  BY <1>0, HereInTree
<1> DEFINE p == Parent[h]
<1>2. /\ h # Root /\ p \in Tree /\ p # h /\ Pops(h, j) /\ Ripen(h) /\ HasCapacity(h)
      /\ ch'[h].running = ch[h].running \cup {j} /\ ch'[h].failed = ch[h].failed
      /\ ch'[p].running = ch[p].running /\ ch'[p].failed = ch[p].failed
      /\ \A d \in Tree \ {h, p} : ch'[d] = ch[d]
  BY <1>0, <1>1, PromoteFields, PoppedFields
<1>3. /\ \A d \in Tree \ {h} : pauseUntil'[d] = pauseUntil[d]
      /\ pauseUntil'[h] = 0 => pauseUntil[h] = 0
      /\ (Served' = Served \cup {h} /\ pauseUntil'[h] # 0 /\ now < pauseUntil'[h])
         \/ Served' = Served
      /\ pc' \in {"serve", "wait"}
  BY <1>0, <1>1, PauseAfterJobServed DEF Promote
<1>4. h \notin Served /\ p \notin Served /\ Served \subseteq Tree
  BY <1>0, <1>1, <1>2, ServedOnce
<1> HIDE DEF p
<1>5. ASSUME NEW c \in Served' PROVE Done(c)'
  <2>1. CASE c \in Served
    <3>1. c \in Tree /\ c # h /\ c # p /\ Done(c)
      BY <1>4, <2>1 DEF WakeupInv
    <3> QED BY <1>0, <1>2, <1>3, <3>1, ServedStayDone
  <2>2. CASE c = h /\ pauseUntil'[h] # 0 /\ now < pauseUntil'[h]
    BY <1>0, <2>2 DEF Done, Paused
  <2> QED BY <1>3, <2>1, <2>2
<1>6. ASSUME early, NEW c \in Tree, Asks(c)' PROVE Asleep(c)'
  <2>1. \A d \in Tree : HasCapacity(d)' => HasCapacity(d)
    BY <1>2 DEF HasCapacity
  <2>2. Asks(c)
    BY <1>3, <1>6, <2>1, TreeAssumption DEF Asks
  <2>3. \A d \in Tree : Asks(d) => Asleep(d)
    BY <1>0, <1>6 DEF WakeupInv
  <2>4. ~Asks(h)
    <3> SUFFICES ASSUME Asleep(h) PROVE FALSE
      BY <2>3
    <3>1. Drained(h) /\ AllLater(h)
      BY <1>2 DEF Pops, Asleep
    <3> QED BY <1>0, <1>2, <3>1, DrainedGivesNothing
  <2>5. c # h /\ Asleep(c)
    BY <2>2, <2>3, <2>4
  <2>6. CASE c # p
    BY <1>0, <1>2, <1>3, <2>5, <2>6, SleepersStayAsleep
  <2>7. CASE c = p
    <3>1. Path[h] = {h} \cup Path[p] /\ h \notin Path[p]
      BY <1>2, TreeAssumption DEF p
    <3>2. pauseUntil[p] # 0
      BY <1>2, <2>2, <2>4, <2>7, <3>1 DEF Asks
    <3> QED BY <1>0, <1>2, <1>3, <2>5, <2>7, <3>2 DEF Asleep, Paused
  <2> QED BY <2>6, <2>7
<1> QED BY <1>0, <1>3, <1>5, <1>6 DEF WakeupInv

LEMMA YieldWakeup ==
  ASSUME Inv, WakeupInv, NEW j \in Jobs, Yield(j)
  PROVE  WakeupInv' /\ ~early
<1>0. /\ TypeOK /\ FlowIsConsistent /\ pc = "serve" /\ pc' = "yielded"
      /\ UNCHANGED <<now, at, early>>
      /\ pauseUntil' = [pauseUntil EXCEPT ![Root] = 0]
  BY DEF Inv, Yield, history
<1>1. /\ Root \in Tree /\ Here = Root /\ Pops(Root, j) /\ Ripen(Root) /\ HasCapacity(Root)
      /\ \A d \in Tree \ {Root} : ch'[d] = ch[d]
  BY <1>0, YieldFields, PoppedFields
<1>2. ~early
  <2> SUFFICES ASSUME early PROVE FALSE
    OBVIOUS
  <2>1. Asks(Root)
    BY <1>1, TreeAssumption DEF Asks
  <2>2. Asleep(Root)
    BY <1>0, <1>1, <2>1 DEF WakeupInv
  <2>3. Drained(Root) /\ AllLater(Root)
    BY <1>1, <2>2 DEF Pops, Asleep
  <2> QED BY <1>0, <1>1, <2>3, DrainedGivesNothing
<1>3. Served' = Served /\ Here' = Here
  BY <1>0 DEF Served, Here
<1>4. ASSUME NEW c \in Served PROVE Done(c)'
  <2>1. c \in Tree /\ c # Root /\ Done(c)
    BY <1>0, <1>1, ServedOnce DEF WakeupInv
  <2>2. pauseUntil'[c] = pauseUntil[c]
    BY <1>0, <2>1 DEF TypeOK
  <2> QED BY <1>0, <1>1, <2>1, <2>2, ServedStayDone
<1> QED BY <1>0, <1>1, <1>2, <1>3, <1>4 DEF WakeupInv

LEMMA EndChannelWakeup ==
  ASSUME Inv, WakeupInv, EndChannel
  PROVE  WakeupInv'
<1>0. /\ TypeOK /\ FlowIsConsistent /\ pc = "serve" /\ UNCHANGED <<now, early>>
      /\ NextChannel
  BY DEF Inv, EndChannel, history
<1>1. PICK h \in Tree : h = Here
  BY <1>0, HereInTree
<1>2. /\ ~Paused(h) /\ Exhausted(h) /\ pauseUntil' = [pauseUntil EXCEPT ![h] = 0]
      /\ UNCHANGED job \/ Ripen(h)
      /\ \A d \in Tree : ch'[d].running = ch[d].running /\ ch'[d].failed = ch[d].failed
      /\ \A d \in Tree \ {h} : ch'[d] = ch[d]
  BY <1>0, <1>1, ExhaustedFields DEF EndChannel
<1>3. pauseUntil'[h] = 0 /\ \A d \in Tree \ {h} : pauseUntil'[d] = pauseUntil[d]
  BY <1>0, <1>2 DEF TypeOK
<1>4. Served' = Served \cup {h} /\ h \notin Served /\ Served \subseteq Tree
      /\ pc' \in {"serve", "wait"}
  BY <1>0, <1>1, NextServed, ServedOnce
<1>5. ASSUME NEW c \in Served' PROVE Done(c)'
  <2>1. CASE c \in Served
    <3>1. c \in Tree /\ c # h /\ Done(c)
      BY <1>4, <2>1 DEF WakeupInv
    <3> QED BY <1>0, <1>2, <1>3, <3>1, ServedStayDone
  <2>2. CASE c = h
    BY <1>0, <1>2, <2>2, ExhaustedDone
  <2> QED BY <1>4, <2>1, <2>2
<1>6. ASSUME early, NEW c \in Tree, Asks(c)' PROVE Asleep(c)'
  <2>1. \A d \in Tree : HasCapacity(d)' <=> HasCapacity(d)
    BY <1>2 DEF HasCapacity
  <2>2. \A d \in Tree : Asks(d) => Asleep(d)
    BY <1>0, <1>6 DEF WakeupInv
  <2>3. Asks(h) => pauseUntil[h] = 0 /\ Drained(h) /\ AllLater(h)
    BY <1>2, <2>2 DEF Asleep
  <2>4. ASSUME h \in Path[c] PROVE Asks(h)
    <3>1. /\ \A d \in Path[c] : HasCapacity(d)'
          /\ \A d \in Path[c] \ {c} : pauseUntil'[d] = 0
      BY <1>6 DEF Asks
    <3>2. Path[h] \subseteq Path[c] /\ Path[c] \subseteq Tree
      BY <2>4, TreeAssumption
    <3>3. h # c => c \notin Path[h]
      BY <2>4, <3>2, TreeAssumption
    <3>4. \A d \in Path[h] \ {h} : d \in Path[c] \ {c}
      BY <3>2, <3>3
    <3> QED BY <1>3, <2>1, <3>1, <3>2, <3>4 DEF Asks
  <2>5. Asks(c)
    <3>1. Path[c] \subseteq Tree
      BY TreeAssumption
    <3>2. \A d \in Path[c] \ {c} : pauseUntil'[d] = pauseUntil[d]
      BY <1>3, <2>3, <2>4, <3>1
    <3> QED BY <1>6, <2>1, <3>1, <3>2 DEF Asks
  <2>6. CASE c # h
    BY <1>0, <1>2, <1>3, <2>2, <2>5, <2>6, SleepersStayAsleep
  <2>7. CASE c = h
    <3>1. pauseUntil[h] = 0 /\ Drained(h) /\ AllLater(h)
      BY <2>3, <2>5, <2>7
    <3>2. Ripe(h) = {} /\ Ready(h) = ch[h].queue /\ Aside(h) = ch[h].etaQueue
      BY <1>0, <3>1, DrainedGivesNothing
    <3>3. job' = job
      BY <1>0, <1>2, <3>2 DEF Ripen, TypeOK
    <3>4. ch'[h] = ch[h]
      <4>1. ch[h] \in Sets /\ ch'[h] \in Sets
        BY <1>0, ExhaustedOK, <1>2 DEF TypeOK, Channelling
      <4>2. ch'[h].queue = ch[h].queue /\ ch'[h].etaQueue = ch[h].etaQueue
        BY <1>0, <1>2, <3>2, ExhaustedFields
      <4> QED BY <1>2, <4>1, <4>2 DEF Sets
    <3>5. Asleep(h)
      BY <3>1 DEF Asleep
    <3> QED BY <1>0, <1>3, <2>7, <3>1, <3>3, <3>4, <3>5, ChannelFrame
  <2> QED BY <2>6, <2>7
<1> QED BY <1>0, <1>4, <1>5, <1>6 DEF WakeupInv

LEMMA SkipPausedWakeup ==
  ASSUME Inv, WakeupInv, SkipPaused
  PROVE  WakeupInv'
<1>0. /\ TypeOK /\ FlowIsConsistent /\ pc = "serve" /\ NextChannel /\ Paused(Here)
      /\ UNCHANGED <<job, ch, pauseUntil, now, early>>
  BY DEF Inv, SkipPaused, history
<1>1. /\ Served' = Served \cup {Here} /\ Here \in Tree /\ Served \subseteq Tree
      /\ pc' \in {"serve", "wait"}
  BY <1>0, NextServed, ServedOnce
<1>2. \A c \in Tree : (Done(c)' <=> Done(c)) /\ (Asleep(c)' <=> Asleep(c))
  BY <1>0, ChannelFrame
<1>3. \A c \in Tree : Asks(c)' <=> Asks(c)
  BY <1>0 DEF Asks, HasCapacity
<1>4. Done(Here)
  BY <1>0 DEF Done
<1> QED BY <1>0, <1>1, <1>2, <1>3, <1>4 DEF WakeupInv

LEMMA WaitWakeup ==
  ASSUME Inv, EtaIsDue, WakeupInv, WaitNotification
  PROVE  WakeupInv'
<1>0. /\ TypeOK /\ FlowIsConsistent /\ pc = "wait" /\ pc' = "idle"
      /\ UNCHANGED <<job, ch, pauseUntil, now>>
  BY DEF Inv, WaitNotification
<1>1. \A c \in Tree : Done(c) /\ (Drained(c)' <=> Drained(c)) /\ (Asks(c)' <=> Asks(c))
  <2>1. \A c \in Tree : Done(c)
    BY <1>0 DEF WakeupInv, Served
  <2>2. \A c \in Tree : Drained(c)' <=> Drained(c)
    BY <1>0, ChannelFrame
  <2>3. \A c \in Tree : Asks(c)' <=> Asks(c)
    BY <1>0 DEF Asks, HasCapacity
  <2> QED BY <2>1, <2>2, <2>3
<1>2. ASSUME NEW t \in AllTimes PROVE alarm' # 0 /\ alarm' <= t
  <2>1. alarm' \in AllTimes /\ \A u \in AllTimes : alarm' <= u
    BY <1>2 DEF WaitNotification
  <2>2. \A u \in AllTimes : u # 0
    <3> SUFFICES ASSUME NEW c \in Tree, NEW u \in WakeupTimes(c) PROVE u # 0
      BY DEF AllTimes
    <3>1. CASE pauseUntil[c] # 0
      BY <3>1 DEF WakeupTimes
    <3>2. CASE pauseUntil[c] = 0
      <4>1. PICK j \in ch[c].etaQueue : u = job[j].eta
        BY <3>2 DEF WakeupTimes
      <4>2. j \in Jobs
        BY <1>0, <4>1, WaitsOnce DEF Waiting
      <4> QED BY <4>1, <4>2 DEF EtaIsDue
    <3> QED BY <3>1, <3>2
  <2> QED BY <2>1, <2>2
<1>3. ASSUME NEW c \in Tree, Asks(c) PROVE SleepsUntilAlarm(c)'
  <2>1. \A t \in WakeupTimes(c) : t \in AllTimes
    BY <1>3 DEF AllTimes
  <2>2. CASE pauseUntil[c] # 0
    BY <1>0, <1>2, <2>1, <2>2 DEF SleepsUntilAlarm, WakeupTimes
  <2>3. CASE pauseUntil[c] = 0
    <3>1. HasCapacity(c) /\ ~Paused(c)
      BY <1>3, <2>3, TreeAssumption DEF Asks, Paused
    <3>2. Drained(c)'
      BY <1>1, <3>1 DEF Done
    <3>3. \A j \in ch[c].etaQueue : alarm' # 0 /\ alarm' <= job[j].eta
      BY <1>2, <2>1, <2>3 DEF WakeupTimes
    <3> QED BY <1>0, <2>3, <3>2, <3>3 DEF SleepsUntilAlarm
  <2> QED BY <2>2, <2>3
<1>4. Served' = {}
  BY <1>0 DEF Served
<1> QED BY <1>0, <1>1, <1>3, <1>4 DEF WakeupInv

LEMMA BeginPassWakeup ==
  ASSUME Inv, WakeupInv, BeginPass
  PROVE  WakeupInv'
<1>0. /\ TypeOK /\ FlowIsConsistent /\ pc = "idle" /\ pc' = "serve" /\ at' = 1
      /\ early' = (calm /\ (alarm = 0 \/ now < alarm))
      /\ UNCHANGED <<job, ch, pauseUntil, now>>
  BY DEF Inv, BeginPass
<1>1. Served' = {}
  <2>1. 1..(1 - 1) = {}
    OBVIOUS
  <2> QED BY <1>0, <2>1 DEF Served
<1>2. ASSUME calm, alarm = 0 \/ now < alarm, NEW c \in Tree, Asks(c) PROVE Asleep(c)'
  <2>1. SleepsUntilAlarm(c)
    BY <1>0, <1>2 DEF WakeupInv
  <2>2. Asleep(c)
    <3>1. CASE pauseUntil[c] # 0
      BY <1>0, <1>2, <2>1, <3>1 DEF SleepsUntilAlarm, Asleep, Paused, TypeOK
    <3>2. CASE pauseUntil[c] = 0
      <4>1. Drained(c) /\ \A j \in ch[c].etaQueue : alarm # 0 /\ alarm <= job[j].eta
        BY <2>1, <3>2 DEF SleepsUntilAlarm
      <4>2. ASSUME NEW j \in ch[c].etaQueue PROVE now < job[j].eta
        <5>1. job[j] \in Shape
          BY <1>0, WaitsOnce DEF Waiting
        <5> QED BY <1>0, <1>2, <4>1, <5>1 DEF Shape, TypeOK
      <4> QED BY <3>2, <4>1, <4>2 DEF Asleep, AllLater
    <3> QED BY <3>1, <3>2
  <2> QED BY <1>0, <2>2, ChannelFrame
<1>3. \A c \in Tree : Asks(c)' <=> Asks(c)
  BY <1>0 DEF Asks, HasCapacity
<1> QED BY <1>0, <1>1, <1>2, <1>3 DEF WakeupInv

LEMMA WakeupInvStep == Inv /\ EtaIsDue /\ WakeupInv /\ [Next]_vars => WakeupInv'
<1> SUFFICES ASSUME Inv, EtaIsDue, WakeupInv, [Next]_vars PROVE WakeupInv'
  OBVIOUS
<1>1. ASSUME pc' = "load", calm' = FALSE PROVE WakeupInv'
  BY <1>1 DEF WakeupInv, Served
<1>2. ASSUME pc' = "idle", calm' = FALSE PROVE WakeupInv'
  BY <1>2 DEF WakeupInv, Served
<1>3. ASSUME NEW j \in Jobs, NEW s \in Shapes[j], NEW st \in States,
             LoadRow(j, s, st) \/ NotifyRow(j, s, st)
      PROVE  WakeupInv'
  BY <1>1, <1>2, <1>3 DEF LoadRow, NotifyRow, WakeupInv, Inv, TypeOK
<1>4. CASE (\E j \in Jobs : RowDeleted(j)) \/ EndLoad \/ Recover
  BY <1>1, <1>2, <1>4 DEF RowDeleted, EndLoad, Recover, WakeupInv, history, Inv, TypeOK
<1>5. CASE Tick
  <2>1. pc = "idle" /\ pc' = "idle" /\ UNCHANGED <<job, ch, pauseUntil, alarm, calm>>
    BY <1>5 DEF Tick, history
  <2>2. \A c \in Tree : Asks(c)' <=> Asks(c)
    BY <2>1 DEF Asks, HasCapacity
  <2>3. \A c \in Tree : SleepsUntilAlarm(c)' <=> SleepsUntilAlarm(c)
    BY <2>1 DEF SleepsUntilAlarm, Drained, Holds, IsHead, IsEtaHead, RankLess, EtaLess
  <2> QED BY <2>1, <2>2, <2>3 DEF WakeupInv, Served
<1>6. CASE Resume
  <2>0. /\ TypeOK /\ FlowIsConsistent /\ pc = "yielded" /\ Here = Root /\ ~early
        /\ early' = early /\ now' = now /\ ch' = ch /\ job' = job
        /\ PauseAfterJob(Here)
    BY <1>6 DEF Resume, Inv, WakeupInv
  <2>1. PICK h \in Tree : h = Here
    BY <2>0, TreeAssumption
  <2>2. /\ \A d \in Tree \ {h} : pauseUntil'[d] = pauseUntil[d]
        /\ (Served' = Served \cup {h} /\ pauseUntil'[h] # 0 /\ now < pauseUntil'[h])
           \/ Served' = Served
        /\ pc' \in {"serve", "wait"}
    BY <2>0, <2>1, PauseAfterJobServed
  <2>3. h \notin Served /\ Served \subseteq Tree
    BY <2>0, <2>1, ServedOnce
  <2>4. ASSUME NEW c \in Served' PROVE Done(c)'
    <3>1. CASE c \in Served
      <4>1. c \in Tree /\ c # h /\ Done(c)
        BY <2>3, <3>1 DEF WakeupInv
      <4> QED BY <2>0, <2>2, <4>1, ServedStayDone
    <3>2. CASE c = h /\ pauseUntil'[h] # 0 /\ now < pauseUntil'[h]
      BY <2>0, <3>2 DEF Done, Paused
    <3> QED BY <2>2, <3>1, <3>2
  <2> QED BY <2>0, <2>2, <2>4 DEF WakeupInv
<1>7. CASE UNCHANGED vars
  BY <1>7 DEF vars, history, WakeupInv, Served, Done, Paused, HasCapacity, Drained, Holds,
              AllLater, Asks, SleepsUntilAlarm, Asleep, IsHead, IsEtaHead, RankLess,
              EtaLess, Here
<1> QED BY <1>3, <1>4, <1>5, <1>6, <1>7, PromoteWakeup, YieldWakeup, EndChannelWakeup,
           SkipPausedWakeup, WaitWakeup, BeginPassWakeup DEF Next

\* "This could very well be no timeout at all": a pass of the runner that begins
\* with no notification and before the wakeup time has no job to send.
THEOREM WakeupCorrect == Spec => SafetyTimeoutFindsNothing
<1>1. Init => WakeupInv /\ EtaIsDue
  BY DEF Init, WakeupInv, Served, EtaIsDue, Empty
<1>2. Inv /\ WakeupInv /\ [Next]_vars => [early => \A j \in Jobs : ~Takes(Root, j)]_vars
  <2> SUFFICES ASSUME Inv, WakeupInv, [Next]_vars, early, NEW j \in Jobs, Takes(Root, j)
               PROVE  FALSE
    OBVIOUS
  <2>1. Yield(j)
    BY TakingStep, TreeAssumption DEF Promote
  <2> QED BY <2>1, YieldWakeup
<1> QED BY <1>1, <1>2, InitInv, NextInv, EtaIsDueStep, WakeupInvStep, PTL
        DEF Spec, SafetyTimeoutFindsNothing
-----------------------------------------------------------------------------
(***************************************************************************)
(* The queue of a channel, for every finite set of objects: the heap, the  *)
(* objects it knows and those it forgot agree, len(q) is the number of     *)
(* objects in the queue, and the queue is a SortedSet.                     *)
(***************************************************************************)

QueueInv == QueueTypeOK /\ BooksAgree

\* What the heap holds is what _known records.
LEMMA InHeapIsKnown == QueueInv => InHeap = known
  BY DEF QueueInv, QueueTypeOK, BooksAgree, InHeap

LEMMA QueueInitInv == QueueInit => QueueInv
  BY ObjectsAssumption DEF QueueInit, QueueInv, QueueTypeOK, BooksAgree

\* Taking the top object out of the heap and of _known, and out of _removed
\* when it is there, keeps the books.
LEMMA TakeTopKeepsBooks ==
  ASSUME NEW o \in Objects, QueueInv, IsTop(o), TakeTop(o),
         known' = known \ {o}, removed' = removed \ {o}
  PROVE  /\ heap' \in [Objects -> Nat] /\ known' \subseteq Objects
         /\ removed' \subseteq Objects /\ BooksAgree'
<1>1. heap[o] = 1 /\ o \in known
  BY DEF QueueInv, QueueTypeOK, BooksAgree, IsTop, InHeap
<1>2. heap' = [heap EXCEPT ![o] = 0]
  BY <1>1 DEF TakeTop, QueueInv, QueueTypeOK
<1> QED
  BY <1>1, <1>2 DEF QueueInv, QueueTypeOK, BooksAgree

\* Every step of every call keeps the type and the books.
LEMMA QueueNextInv == QueueInv /\ [QueueNext]_queueVars => QueueInv'
<1> SUFFICES ASSUME QueueInv, [QueueNext]_queueVars PROVE QueueInv'
  OBVIOUS
<1> USE ObjectsAssumption
<1>1. ASSUME NEW o \in Objects, AddObject(o) PROVE QueueInv'
  <2>1. CASE o \in known
    BY <1>1, <2>1 DEF QueueInv, QueueTypeOK, BooksAgree, AddObject
  <2>2. CASE o \notin known
    <3>1. /\ heap' = [heap EXCEPT ![o] = 1]
          /\ known' = known \cup {o} /\ removed' = removed \ {o}
          /\ call' = call /\ out' = None
      BY <1>1, <2>2 DEF QueueInv, QueueTypeOK, BooksAgree, AddObject
    <3>2. QueueTypeOK'
      BY <3>1 DEF QueueInv, QueueTypeOK
    <3>3. BooksAgree'
      BY <3>1 DEF QueueInv, QueueTypeOK, BooksAgree
    <3> QED BY <3>2, <3>3 DEF QueueInv
  <2> QED BY <2>1, <2>2
<1>2. ASSUME NEW o \in Objects, RemoveObject(o) PROVE QueueInv'
  BY <1>2 DEF QueueInv, QueueTypeOK, BooksAgree, RemoveObject
<1>3. ASSUME NEW o \in Objects, GetItemDrop(o) PROVE QueueInv'
  BY <1>3, TakeTopKeepsBooks DEF GetItemDrop, QueueInv, QueueTypeOK
<1>4. ASSUME NEW o \in Objects, GetItemReturn(o) PROVE QueueInv'
  BY <1>4 DEF GetItemReturn, QueueInv, QueueTypeOK, BooksAgree
<1>5. ASSUME NEW o \in Objects, PopDrop(o) PROVE QueueInv'
  BY <1>5, TakeTopKeepsBooks DEF PopDrop, QueueInv, QueueTypeOK
<1>6. ASSUME NEW o \in Objects, PopReturn(o) PROVE QueueInv'
  <2>1. removed' = removed \ {o}
    BY <1>6 DEF PopReturn
  <2> QED BY <1>6, <2>1, TakeTopKeepsBooks DEF PopReturn, QueueInv, QueueTypeOK
<1>7. CASE Begin("getitem") \/ Begin("pop")
  BY <1>7 DEF Begin, QueueInv, QueueTypeOK, BooksAgree
<1>8. CASE GetItemEmpty \/ PopEmpty
  BY <1>8 DEF GetItemEmpty, PopEmpty, QueueInv, QueueTypeOK, BooksAgree
<1>9. CASE UNCHANGED queueVars
  BY <1>9 DEF queueVars, QueueInv, QueueTypeOK, BooksAgree
<1> QED
  BY <1>1, <1>2, <1>3, <1>4, <1>5, <1>6, <1>7, <1>8, <1>9 DEF QueueNext, QueueStep

\* The heap, _known and _removed always have their types and agree.
THEOREM QueueInvariance == QueueSpec => [](QueueTypeOK /\ BooksAgree)
<1>1. QueueSpec => []QueueInv
  BY QueueInitInv, QueueNextInv, PTL DEF QueueSpec
<1> QED BY <1>1, PTL DEF QueueInv

\* len(q) counts exactly the objects that are in the queue.
THEOREM LenCorrect == QueueSpec => []LenIsSize
<1>1. QueueInv => LenIsSize
  <2> SUFFICES ASSUME QueueInv PROVE LenIsSize
    OBVIOUS
  <2>1. IsFiniteSet(known)
    BY ObjectsAssumption, FS_Subset DEF QueueInv, QueueTypeOK
  <2>2. removed \subseteq known /\ known \cap removed = removed
    BY DEF QueueInv, BooksAgree
  <2>3. IsFiniteSet(removed)
    BY <2>1, <2>2, FS_Subset
  <2>4. Cardinality(known \ removed)
           = Cardinality(known) - Cardinality(known \cap removed)
    BY <2>1, FS_Difference
  <2>5. {o \in Objects : Contains(o)} = known \ removed
    BY DEF QueueInv, QueueTypeOK, Contains
  <2> QED BY <2>2, <2>4, <2>5 DEF LenIsSize, QueueLen
<1> QED BY <1>1, QueueInvariance, PTL DEF QueueInv

\* The lazily emptied heap implements the sorted set its callers rely on.
THEOREM QueueRefinement == QueueSpec => ImplementsSortedSet
<1>1. QueueInit => Sorted!Init
  BY DEF QueueInit, Sorted!Init
<1>2. QueueInv /\ [QueueNext]_queueVars => [Sorted!Next]_<<known \ removed, out>>
  <2> SUFFICES ASSUME QueueInv, [QueueNext]_queueVars
               PROVE  [Sorted!Next]_<<known \ removed, out>>
    OBVIOUS
  <2>0. removed \subseteq known /\ known \subseteq Objects
    BY DEF QueueInv, QueueTypeOK, BooksAgree
  <2>1. ASSUME NEW o \in Objects, AddObject(o) PROVE Sorted!Add(o)
    BY <2>1, <2>0 DEF AddObject, Sorted!Add
  <2>2. ASSUME NEW o \in Objects, RemoveObject(o) PROVE Sorted!Remove(o)
    BY <2>2, <2>0 DEF RemoveObject, Sorted!Remove
  <2>3. ASSUME NEW o \in Objects, IsTop(o), o \notin removed
        PROVE  o \in known \ removed /\ Sorted!IsSmallest(o, known \ removed)
    BY <2>3, InHeapIsKnown DEF IsTop, Sorted!IsSmallest
  <2>4. ASSUME NEW o \in Objects, GetItemDrop(o) \/ PopDrop(o)
        PROVE  UNCHANGED <<known \ removed, out>>
    BY <2>4 DEF GetItemDrop, PopDrop
  <2>5. ASSUME NEW o \in Objects, GetItemReturn(o) PROVE Sorted!Peek
    BY <2>5, <2>3 DEF GetItemReturn, Sorted!Peek
  <2>6. ASSUME NEW o \in Objects, PopReturn(o) PROVE Sorted!Pop
    BY <2>6, <2>3 DEF PopReturn, Sorted!Pop
  <2>7. CASE Begin("getitem") \/ Begin("pop")
    BY <2>7 DEF Begin
  <2>8. CASE GetItemEmpty
    <3>1. known \ removed = {}
      BY <2>8, <2>0, InHeapIsKnown DEF GetItemEmpty
    <3> QED BY <2>8, <3>1 DEF GetItemEmpty, Sorted!Peek, Sorted!Next
  <2>9. CASE PopEmpty
    <3>1. known \ removed = {}
      BY <2>9, <2>0, InHeapIsKnown DEF PopEmpty
    <3> QED BY <2>9, <3>1 DEF PopEmpty, Sorted!Pop, Sorted!Next
  <2>10. CASE UNCHANGED queueVars
    BY <2>10 DEF queueVars
  <2> QED
    BY <2>1, <2>2, <2>4, <2>5, <2>6, <2>7, <2>8, <2>9, <2>10
    DEF QueueNext, QueueStep, Sorted!Next
<1> QED
  BY <1>1, <1>2, QueueInvariance, PTL DEF ImplementsSortedSet, QueueSpec, Sorted!Spec, QueueInv
=============================================================================
