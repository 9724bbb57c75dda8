------------------------------- MODULE MCPrinting -------------------------------
(* Instances of Printing for TLC: which row is the label of which item. *)
EXTENDS Printing, TLC

CONSTANTS i1, i2, w1, w2

TwoLabels == 1 :> i1 @@ 2 :> i1
OneLabel == 1 :> i1
================================================================================
