----------------------------- MODULE MCChannels -----------------------------
(* A root channel, a channel A below it and a channel B below A, so that a   *)
(* job of B is promoted twice.                                               *)
EXTENDS Channels

CONSTANTS j1, j2, j3, j4

MCTree == {"root", "A", "B"}
MCParent == [c \in {"A", "B"} |-> IF c = "A" THEN "root" ELSE "A"]
MCPath == [c \in MCTree |-> CASE c = "root" -> {"root"}
                              [] c = "A" -> {"root", "A"}
                              [] c = "B" -> {"root", "A", "B"}]
MCPostOrder == <<"B", "A", "root">>

At(h, r, e) == [home |-> h, rank |-> r, eta |-> e]

(* Four jobs: j1 is edited between A and the root, its priority and its eta too;  *)
(* j2, j3 and j4 are of the sequential channel B, where the first of them may     *)
(* have a later eta than the last and be overtaken by the one between.            *)
MCJobs == {j1, j2, j3, j4}
MCCapacity == [c \in MCTree |-> CASE c = "root" -> 2 [] c = "A" -> 0 [] c = "B" -> 1]
MCThrottle == [c \in MCTree |-> IF c = "A" THEN 2 ELSE 0]
MCShapes == [j \in MCJobs |-> CASE j = j1 -> {At("A", 3, 0), At("root", 0, 3)}
                                   [] j = j2 -> {At("B", 1, 0), At("B", 1, 3)}
                                   [] j = j3 -> {At("B", 2, 0)}
                                   [] j = j4 -> {At("B", 4, 2)}]
=============================================================================
