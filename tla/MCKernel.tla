------------------------------ MODULE MCKernel ------------------------------
(* Instances of Kernel for TLC.                                            *)
EXTENDS Kernel

\* A keyed mutation, and a plain call with a larger payload.
Shapes == {[keyed |-> TRUE, bytes |-> 1], [keyed |-> FALSE, bytes |-> 2]}
KeyedOnly == {[keyed |-> TRUE, bytes |-> 1]}
=============================================================================
