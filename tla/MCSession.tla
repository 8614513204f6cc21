------------------------------ MODULE MCSession ------------------------------
(* Instances of Session for TLC.                                           *)
EXTENDS Session

\* A keyed mutation and a plain call.
Shapes == {[keyed |-> TRUE, bytes |-> 1], [keyed |-> FALSE, bytes |-> 1]}
=============================================================================
