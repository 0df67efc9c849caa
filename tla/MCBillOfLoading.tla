-------------------------- MODULE MCBillOfLoading --------------------------
(* What is updated in each run.                                             *)
EXTENDS BillOfLoading

(* all but the payment method; fees only become free, so that an order that *)
(* was free when it was confirmed stays so                                  *)
KeepsMethod == {<<"is_pos_payment", TRUE>>, <<"shipping_fees", 0>>,
                <<"money_collected", 0>>}
============================================================================
