---------------------------- MODULE MCKernelStream ----------------------------
(* Instances of KernelStream for TLC.                                      *)
EXTENDS KernelStream

CONSTANTS up, down

\* A file of two bytes to read, and one byte declared for the upload.
Totals == [c \in Calls |-> IF c = down THEN 2 ELSE 1]
=============================================================================
