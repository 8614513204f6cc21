--------------------------- MODULE MCKernelRuntime ---------------------------
(* Instances of KernelRuntime for TLC.                                     *)
EXTENDS KernelRuntime

CONSTANTS t1, t2
=============================================================================
