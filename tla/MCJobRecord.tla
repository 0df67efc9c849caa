------------------------------ MODULE MCJobRecord ------------------------------
(* A pattern with two steps, one that begins at the second try, a random one. *)
EXTENDS JobRecord

MCPatterns == {1 :> <<1>> @@ 2 :> <<3>>, 2 :> <<1>>, 1 :> <<1, 2>>}
=============================================================================
