---------------------------- MODULE PriorityQueue ----------------------------
(***************************************************************************)
(* jobrunner/channels.py, class PriorityQueue: a heap that forgets removed *)
(* objects lazily.  remove() only records the object in _removed; the      *)
(* loops of q[0] and pop() drop recorded objects when they reach the top,  *)
(* and add() takes an object off the record when it is still in the heap.  *)
(* The class is used by one thread, so calls do not overlap, but the loops *)
(* of q[0] and pop() are modelled one iteration at a time.                 *)
(***************************************************************************)
EXTENDS Integers, FiniteSets

CONSTANTS Objects, None, IndexError

ASSUME ObjectsAssumption == /\ Objects \subseteq Int
                            /\ IsFiniteSet(Objects)
                            /\ None \notin Objects
                            /\ IndexError \notin Objects

VARIABLES heap,      \* _heap: how many times each object is in the heap
          known,     \* _known
          removed,   \* _removed
          call,      \* the call in progress: "none", "getitem" or "pop"
          out        \* what the last completed call returned

queueVars == <<heap, known, removed, call, out>>

InHeap == {o \in Objects : heap[o] > 0}

IsTop(o) == o \in InHeap /\ \A p \in InHeap : o <= p

TakeTop(o) == heap' = [heap EXCEPT ![o] = @ - 1]

QueueLen == Cardinality(known) - Cardinality(removed)

Contains(o) == o \in known /\ o \notin removed

QueueInit == /\ heap = [o \in Objects |-> 0]
             /\ known = {}
             /\ removed = {}
             /\ call = "none"
             /\ out = None

\* Mutant: an object already in the heap is pushed again.
AddObjectTwice(o) == /\ call = "none"
                     /\ removed' = removed \ {o}
                     /\ known' = known \cup {o}
                     /\ heap' = [heap EXCEPT ![o] = @ + 1]
                     /\ out' = None
                     /\ UNCHANGED call

AddObject(o) == /\ call = "none"
                /\ removed' = removed \ {o}
                /\ IF o \in known
                     THEN UNCHANGED <<heap, known>>
                     ELSE /\ known' = known \cup {o}
                          /\ heap' = [heap EXCEPT ![o] = @ + 1]
                /\ out' = None
                /\ UNCHANGED call

RemoveObject(o) == /\ call = "none"
                   /\ removed' = IF o \in known THEN removed \cup {o} ELSE removed
                   /\ out' = None
                   /\ UNCHANGED <<heap, known, call>>

Begin(c) == /\ call = "none"
            /\ call' = c
            /\ UNCHANGED <<heap, known, removed, out>>

GetItemEmpty == /\ call = "getitem" /\ InHeap = {}
                /\ call' = "none" /\ out' = IndexError
                /\ UNCHANGED <<heap, known, removed>>

GetItemDrop(o) == /\ call = "getitem" /\ IsTop(o)
                  /\ o \in removed
                  /\ TakeTop(o)
                  /\ removed' = removed \ {o}
                  /\ known' = known \ {o}
                  /\ UNCHANGED <<call, out>>

GetItemReturn(o) == /\ call = "getitem" /\ IsTop(o)
                    /\ o \notin removed
                    /\ call' = "none" /\ out' = o
                    /\ UNCHANGED <<heap, known, removed>>

PopEmpty == /\ call = "pop" /\ InHeap = {}
            /\ call' = "none" /\ out' = None
            /\ UNCHANGED <<heap, known, removed>>

PopDrop(o) == /\ call = "pop" /\ IsTop(o)
              /\ o \in removed
              /\ TakeTop(o)
              /\ known' = known \ {o}
              /\ removed' = removed \ {o}
              /\ UNCHANGED <<call, out>>

\* Mutant: pop() returns the top of the heap, removed or not.
PopTop(o) == /\ call = "pop" /\ IsTop(o)
             /\ TakeTop(o)
             /\ known' = known \ {o}
             /\ removed' = removed \ {o}
             /\ call' = "none" /\ out' = o

PopReturn(o) == /\ call = "pop" /\ IsTop(o)
                /\ o \notin removed
                /\ TakeTop(o)
                /\ known' = known \ {o}
                /\ call' = "none" /\ out' = o
                /\ UNCHANGED removed

QueueStep(o) == \/ AddObject(o) \/ RemoveObject(o)
                \/ GetItemDrop(o) \/ GetItemReturn(o)
                \/ PopDrop(o) \/ PopReturn(o)

QueueNext == \/ \E o \in Objects : QueueStep(o)
             \/ Begin("getitem") \/ Begin("pop")
             \/ GetItemEmpty \/ PopEmpty

QueueSpec == QueueInit /\ [][QueueNext]_queueVars
-----------------------------------------------------------------------------
(***************************************************************************)
(* Properties.                                                             *)
(***************************************************************************)

\* Every variable keeps its type (the attributes set by __init__).
QueueTypeOK == /\ heap \in [Objects -> Nat]
               /\ known \subseteq Objects
               /\ removed \subseteq Objects
               /\ call \in {"none", "getitem", "pop"}
               /\ out \in Objects \cup {None, IndexError}

\* _known is exactly what the heap holds, once each, and _removed is a part
\* of it: no add() duplicates an object, and none of the set removals of
\* q[0] and pop() can raise KeyError.
BooksAgree == /\ \A o \in Objects : heap[o] = IF o \in known THEN 1 ELSE 0
              /\ removed \subseteq known

\* len(q), a difference of two sizes, is the number of objects that
\* "o in q" is true of.
LenIsSize == QueueLen = Cardinality({o \in Objects : Contains(o)})

\* The lazy queue is a sorted set: q[0] and pop() return the smallest object
\* that has been added and not removed since, and no other.
Sorted == INSTANCE SortedSet WITH content <- known \ removed

ImplementsSortedSet == Sorted!Spec
=============================================================================
