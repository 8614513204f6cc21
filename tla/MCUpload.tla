------------------------------ MODULE MCUpload ------------------------------
(* Instances of Upload for TLC.                                            *)
EXTENDS Upload, TLC

\* Cancel tasks differ in nothing but their identity.
CancellersAlike == Permutations(Cancellers)

\* What the rest of a behaviour can depend on.  Once the connection is gone no
\* step reads the producer's side or the record checks it fed; no step ever
\* reads the histories.
Relevant ==
  <<phase, gone, expired, order, reader, laneVars, actorVars, cancelVars, withdrawn,
    ingress.producer, ingress.openFatal, client.open,
    IF gone THEN <<>> ELSE <<ingress, client, source, down, rude>>>>
=============================================================================
