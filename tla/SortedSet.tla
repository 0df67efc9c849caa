------------------------------ MODULE SortedSet ------------------------------
(***************************************************************************)
(* What jobrunner/channels.py's PriorityQueue promises its callers: a set, *)
(* ordered by the comparison of its members, from which any member can be  *)
(* removed and whose smallest member can be read or taken.                 *)
(***************************************************************************)
EXTENDS Integers

CONSTANTS Objects,       \* the comparable objects, as integers in that order
          None,          \* "None": the value of a call that returns nothing
          IndexError     \* raised by q[0] on an empty queue

VARIABLES content,       \* the objects in the queue
          out            \* what the last completed call returned

IsSmallest(o, S) == o \in S /\ \A p \in S : o <= p

Init == content = {} /\ out = None

Add(o) == /\ content' = content \cup {o}
          /\ out' = None

Remove(o) == /\ content' = content \ {o}
             /\ out' = None

Peek == /\ \/ content = {} /\ out' = IndexError
           \/ \E o \in content : IsSmallest(o, content) /\ out' = o
        /\ UNCHANGED content

Pop == \/ content = {} /\ out' = None /\ UNCHANGED content
       \/ \E o \in content : /\ IsSmallest(o, content)
                             /\ content' = content \ {o}
                             /\ out' = o

Next == \/ \E o \in Objects : Add(o) \/ Remove(o)
        \/ Peek
        \/ Pop

Spec == Init /\ [][Next]_<<content, out>>
=============================================================================
