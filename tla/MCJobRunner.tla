---------------------------- MODULE MCJobRunner ----------------------------
(* Small graphs of jobs, and what users do in each run.                     *)
EXTENDS JobRunner, TLC

CONSTANTS j1, j2, j3, j4, r1, r2, r3, u1, u2

RequestSymmetry == Permutations({r1, r2, r3} \cap Requests)

(* two jobs, ... *)
TwoJobs == {j1, j2}
TwoTries == [j \in TwoJobs |-> 2]

(* ... j2 after j1 *)
Chain == [j \in TwoJobs |-> IF j = j2 THEN {j1} ELSE {}]

(* j3 after j1 and j2 *)
ThreeJobs == {j1, j2, j3}
Join == [j \in ThreeJobs |-> IF j = j3 THEN {j1, j2} ELSE {}]
OneTry == [j \in ThreeJobs |-> 1]


Cancels == {<<"cancel", s>> : s \in {"pending", "enqueued", "failed"}}

(* what users do: no parent of another job is set to done *)
AllButDone == {<<"done", "wait_dependencies">>} \cup {<<op, s>> \in {"cancel", "requeue"} \X States : s \in Applicable(op)}
SetsFailedDone == {<<"done", "failed">>}
============================================================================
