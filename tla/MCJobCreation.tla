---------------------------- MODULE MCJobCreation ----------------------------
(* A caller with one delayable, then one with three, one of the same key. *)
EXTENDS JobCreation

CONSTANTS k1, k2

Job(channel, key) == [channel |-> channel, key |-> key]
Entry(name, capacity, options) == [name |-> name, capacity |-> capacity, options |-> options]

MCCallers == << <<Job(<<"root", "sub", "sub">>, k1)>>,
                <<Job(<<"sub">>, k1), Job(<<"sub", "x">>, k2), Job(<<>>, None)>> >>

MCConfigs == {<<Entry(<<"root">>, 4, <<>>), Entry(<<"sub">>, 1, << <<"sequential">> >>)>>,
              <<Entry(<<"root", "sub", "x">>, None, <<>>),
                Entry(<<"sub">>, 2, << <<"throttle", 3>> >>)>>,
              <<Entry(<<"sub">>, 2, << <<"sequential">> >>)>>,
              <<Entry(<<"sub">>, Garbled, <<>>)>>,
              <<Entry(<<"sub">>, 1, << <<"throttle", 1>>, <<"throttle", 2>> >>)>>}
=============================================================================
