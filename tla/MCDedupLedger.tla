--------------------------- MODULE MCDedupLedger ---------------------------
(* Instances of DedupLedger for TLC.                                       *)
EXTENDS DedupLedger

CONSTANTS r1, r2, r3, k1, post, share, bad
=============================================================================
