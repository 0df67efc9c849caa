---------------------------- MODULE MCAccountAsset ----------------------------
(* Two assets of a grouped category, or one in each kind of category. *)
EXTENDS AccountAsset

Linear == [category |-> "equipment", method |-> "linear", factor |-> <<1, 1>>,
           number |-> 3, period |-> 1, time |-> "number", end |-> 0, prorata |-> FALSE,
           share |-> <<1, 1>>, start |-> 0, lastDay |-> FALSE]
ProRata == [Linear EXCEPT !.category = "revenue", !.prorata = TRUE, !.share = <<10, 31>>,
                          !.number = 2]
Degressive == [Linear EXCEPT !.method = "degressive", !.factor = <<3, 10>>, !.number = 2]
UntilEnd == [Linear EXCEPT !.category = "software", !.time = "end", !.end = 2,
                           !.lastDay = TRUE]

MCPlans == {ProRata, Degressive, UntilEnd}
MCPrices == {<<11, 3>>, <<5, 3>>}
MCChanges == {[time |-> "number", number |-> 3, period |-> 1, end |-> 0],
              [time |-> "end", number |-> 0, period |-> 1, end |-> 3]}
=============================================================================
