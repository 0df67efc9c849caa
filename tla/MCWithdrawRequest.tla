-------------------------- MODULE MCWithdrawRequest --------------------------
(* Two requests, of amounts in one, both or none of two ranges.              *)
EXTENDS WithdrawRequest

MCCommissions == << [from |-> 1, to |-> 4, type |-> "percent", value |-> 50],
                    [from |-> 4, to |-> 6, type |-> "amount", value |-> 1] >>
=============================================================================
