---------------------------- MODULE MCGroupInvoice ----------------------------
(* Two orders on credit of different amounts, and two groups due on different *)
(* days.                                                                      *)
EXTENDS GroupInvoice

MCCharge == [o \in Orders |-> 3 - o]
MCDueAt == [g \in Groups |-> g - 1]
=============================================================================
