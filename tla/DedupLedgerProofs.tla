-------------------------- MODULE DedupLedgerProofs --------------------------
(***************************************************************************)
(* Theorems about DedupLedger: its safety properties hold for any number   *)
(* of requests, keys, bodies and processes.                                *)
(*                                                                         *)
(* The inductive invariant says how the tables of the ledger support each  *)
(* other: an owner holds its reservation (OwnersHold), a reservation has   *)
(* an owner and a recorded reply has its effect (EntriesBacked), a channel *)
(* carries what is recorded (WatchRecorded), a waiter waits for somebody   *)
(* (WaitersServed), an effect has left its key in the ledger (EffectsKept) *)
(* and an answer repeats the record (AnswersRecorded).                     *)
(***************************************************************************)
EXTENDS DedupLedger, TLAPS

-----------------------------------------------------------------------------
(* The inductive invariant                                                 *)

RequestsInOrder ==
    \A r \in Requests :
      /\ request[r].stage = "new" => request[r].key = NoKey
      /\ request[r].stage \in {"new", "received", "validated"} => request[r].on = r
      /\ request[r].incarnation <= incarnation
      /\ request[r].stage \in {"received", "validated", "waiting"}
           => request[r].incarnation = incarnation
      /\ request[r].stage \in {"new", "received", "validated", "waiting"}
           => request[r].reply = "none"
      /\ request[r].stage \in {"received", "validated", "waiting"} /\ Streamed(r)
           => Keyed(r)
      /\ request[r].stage = "validated" =>
           Keyed(r) /\ request[r].body \notin Malformed
      /\ request[r].reply = "conflict" => Keyed(r)

OwnersHold ==
    \A r \in DOMAIN owners :
      /\ \/ request[r].stage = "gone"
         \/ request[r].stage = "waiting" /\ request[r].on = r
      /\ request[r].incarnation = incarnation
      /\ watch[r] = "none"
      /\ owners[r].stage = "running" => ~owners[r].cancelled
      /\ IF Keyed(r)
         THEN /\ request[r].key \in DOMAIN entries
              /\ entries[request[r].key].body_hash = request[r].body
              /\ owners[r].cancelled <=> entries[request[r].key].cancellation
              /\ IF owners[r].stage = "publishing"
                 THEN /\ entries[request[r].key].state = "Done"
                      /\ entries[request[r].key].reply = owners[r].reply
                 ELSE entries[request[r].key].state = "InFlight"
         ELSE owners[r].stage = "running"

OwnersUnique ==
    \A p, q \in DOMAIN owners :
      Keyed(p) /\ request[p].key = request[q].key => p = q

EntriesBacked ==
    \A k \in DOMAIN entries :
      /\ \E s \in Requests : /\ request[s].key = k
                             /\ request[s].incarnation = incarnation
                             /\ request[s].body = entries[k].body_hash
                             /\ request[s].body \notin Malformed
      /\ entries[k].state = "InFlight" =>
           /\ entries[k].reply = "none"
           /\ \E o \in DOMAIN owners :
                request[o].key = k /\ owners[o].stage # "publishing"
      /\ entries[k].state = "Done" =>
           /\ entries[k].reply # "none"
           /\ entries[k].cancellation => entries[k].reply = "cancelled"
           /\ entries[k].reply = "ok" =>
                \E e \in effects : /\ e.key = k
                                   /\ e.body = entries[k].body_hash
                                   /\ e.incarnation = incarnation
      /\ entries[k].cancellation \/ entries[k].reply = "cancelled" =>
           \A e \in effects : e.key # k \/ e.incarnation # incarnation

WatchRecorded ==
    \A r \in Requests : watch[r] # "none" =>
      /\ request[r].incarnation = incarnation
      /\ request[r].key \in DOMAIN entries
      /\ entries[request[r].key].body_hash = request[r].body
      /\ entries[request[r].key].state = "Done"
      /\ entries[request[r].key].reply = watch[r]
      /\ request[r].stage \notin {"new", "received", "validated"}

WaitersServed ==
    \A r \in Requests : request[r].stage = "waiting" =>
      /\ request[r].on \in DOMAIN owners \/ watch[request[r].on] # "none"
      /\ request[request[r].on].key = request[r].key
      /\ request[request[r].on].body = request[r].body
      /\ ~Keyed(r) => request[r].on = r

EffectsKept ==
    \A e \in effects :
      /\ e.key = request[e.owner].key
      /\ e.body = request[e.owner].body
      /\ e.incarnation = request[e.owner].incarnation
      /\ request[e.owner].stage \notin {"new", "received", "validated"}
      /\ e.owner \in DOMAIN owners =>
           owners[e.owner].stage \in {"running", "publishing"}
      /\ e.key # NoKey /\ e.incarnation = incarnation =>
           /\ e.key \in DOMAIN entries
           /\ entries[e.key].state = "InFlight" => e.owner \in DOMAIN owners

AnswersRecorded ==
    \A r \in Requests : FromLedger(r) /\ request[r].incarnation = incarnation =>
      /\ request[r].key \in DOMAIN entries
      /\ entries[request[r].key].body_hash = request[r].body
      /\ entries[request[r].key].state = "Done"
      /\ entries[request[r].key].reply = request[r].reply

LedgerInv ==
    /\ TypeOK
    /\ RequestsInOrder
    /\ OwnersHold
    /\ OwnersUnique
    /\ EntriesBacked
    /\ WatchRecorded
    /\ WaitersServed
    /\ EffectsKept
    /\ AnswersRecorded
    /\ AtMostOneEffect
    /\ FaithfulReplay
    /\ AnswersBacked
    /\ ConflictIsReal

-----------------------------------------------------------------------------
(* Steps that change one request and nothing else                          *)

\* Request r may become the record q: it keeps its identity, moves forward, and
\* an answer it is given repeats the record of its key.
Moves(r, q) ==
    /\ q \in Request
    /\ q.key = request[r].key
    /\ q.body = request[r].body
    /\ q.incarnation = request[r].incarnation
    /\ request[r].stage \in {"received", "validated", "waiting"}
    /\ q.stage # "new"
    /\ q.stage \in {"received", "validated"} => q.on = request[r].on
    /\ q.stage = "received" => request[r].stage = "received"
    /\ q.stage = "validated" => request[r].stage \in {"received", "validated"}
    /\ q.stage = "validated" => Keyed(r) /\ request[r].body \notin Malformed
    /\ q.stage \in {"received", "validated", "waiting"} => q.reply = "none"
    /\ r \in DOMAIN owners => q.stage = "gone" \/ (q.stage = "waiting" /\ q.on = r)
    /\ q.stage = "waiting" =>
         /\ Keyed(r)
         /\ q.on \in DOMAIN owners \/ watch[q.on] # "none"
         /\ request[q.on].key = request[r].key
         /\ request[q.on].body = request[r].body
    /\ q.reply = "conflict" =>
         /\ Keyed(r)
         /\ \E s \in Requests : /\ request[s].key = request[r].key
                                /\ request[s].incarnation = request[r].incarnation
                                /\ request[s].body # request[r].body
                                /\ request[s].body \notin Malformed
    /\ q.stage = "answered" /\ Keyed(r) /\ q.reply \in Recordable =>
         /\ request[r].key \in DOMAIN entries
         /\ entries[request[r].key].body_hash = request[r].body
         /\ entries[request[r].key].state = "Done"
         /\ entries[request[r].key].reply = q.reply

LEMMA MovePreserves ==
    ASSUME LedgerInv, NEW r \in Requests, NEW q, Moves(r, q),
           request' = [request EXCEPT ![r] = q],
           UNCHANGED <<incarnation, subject, entries, owners, watch, effects>>
    PROVE  LedgerInv'
<1> USE DEF LedgerInv
<1>t. TypeOK /\ q \in Request /\ request \in [Requests -> Request]
  BY DEF Moves, TypeOK
<1>r. /\ request'[r] = q
      /\ \A s \in Requests : s # r => request'[s] = request[s]
      /\ request' \in [Requests -> Request]
  BY <1>t
<1>k. \A s \in Requests : /\ request'[s].key = request[s].key
                          /\ request'[s].body = request[s].body
                          /\ request'[s].incarnation = request[s].incarnation
  BY <1>r DEF Moves
<1>o. /\ DOMAIN owners \subseteq Requests
      /\ \A e \in effects : e.owner \in Requests
      /\ \A s \in Requests : request[s].on \in Requests
      /\ q.on \in Requests
  BY <1>t DEF TypeOK, Effect, Request
<1>n. request[r].incarnation = incarnation
  BY DEF Moves, RequestsInOrder
<1>1. TypeOK'
  BY <1>t, <1>r DEF TypeOK
<1>2. RequestsInOrder'
  BY <1>r, <1>k, <1>n DEF RequestsInOrder, Moves, Keyed, Streamed
<1>3. OwnersHold'
  BY <1>r, <1>k, <1>o DEF OwnersHold, Moves, Keyed
<1>4. OwnersUnique'
  BY <1>k, <1>o DEF OwnersUnique, Keyed
<1>5. EntriesBacked'
  BY <1>k, <1>o DEF EntriesBacked
<1>6. WatchRecorded'
  BY <1>r, <1>k DEF WatchRecorded, Moves
<1>7. WaitersServed'
  BY <1>r, <1>k, <1>o DEF WaitersServed, Moves, Keyed
<1>8. EffectsKept'
  BY <1>r, <1>k, <1>o DEF EffectsKept, Moves
<1>9. AnswersRecorded'
  BY <1>r, <1>k, <1>n DEF AnswersRecorded, Moves, FromLedger, Keyed
<1>10. AtMostOneEffect'
  BY DEF AtMostOneEffect
<1>11. FaithfulReplay'
  <2> SUFFICES ASSUME NEW a \in Requests, NEW b \in Requests,
                      FromLedger(a)', FromLedger(b)',
                      request[a].key = request[b].key,
                      request[a].body = request[b].body,
                      request[a].incarnation = request[b].incarnation
               PROVE  request'[a].reply = request'[b].reply
    BY <1>k DEF FaithfulReplay
  <2>1. CASE a # r /\ b # r
    BY <2>1, <1>r DEF FaithfulReplay, FromLedger
  <2>2. CASE a = r \/ b = r
    BY <2>2, <1>9, <1>k, <1>n DEF AnswersRecorded
  <2> QED BY <2>1, <2>2
<1>12. AnswersBacked'
  <2> SUFFICES ASSUME NEW a \in Requests, FromLedger(a)'
               PROVE  /\ request'[a].reply = "ok" => Authored(a) # {}
                      /\ request'[a].reply = "cancelled" => Authored(a) = {}
    BY <1>k DEF AnswersBacked, Authored
  <2>1. CASE a # r
    BY <2>1, <1>r DEF AnswersBacked, FromLedger
  <2>2. CASE a = r
    <3>1. /\ request[r].key \in DOMAIN entries
          /\ entries[request[r].key].body_hash = request[r].body
          /\ entries[request[r].key].state = "Done"
          /\ entries[request[r].key].reply = request'[r].reply
      BY <2>2, <1>9, <1>k, <1>n DEF AnswersRecorded
    <3> QED BY <3>1, <2>2, <1>n DEF EntriesBacked, Authored
  <2> QED BY <2>1, <2>2
<1>13. ConflictIsReal'
  BY <1>r, <1>k DEF ConflictIsReal, Moves
<1> QED BY <1>1, <1>2, <1>3, <1>4, <1>5, <1>6, <1>7, <1>8, <1>9, <1>10, <1>11,
           <1>12, <1>13

\* The steps of a handler that end, refuse, wait or are torn down.
LEMMA RefuseMoves ==
    ASSUME LedgerInv, NEW r \in Requests, Refuse(r)
    PROVE  LedgerInv'
<1> DEFINE q == [request[r] EXCEPT !.reply = "invalid",
                   !.stage = IF request[r].connected THEN "answered" ELSE "gone"]
<1>1. request[r] \in Request
  BY DEF LedgerInv, TypeOK
<1>2. request' = [request EXCEPT ![r] = q]
  BY DEF Refuse, Answered
<1>3. Moves(r, q)
  <2>1. r \notin DOMAIN owners
    BY DEF LedgerInv, OwnersHold, Refuse
  <2> QED BY <1>1, <2>1 DEF Moves, Refuse, Request, Replies, Recordable
<1> HIDE DEF q
<1> QED BY <1>2, <1>3, MovePreserves DEF Refuse, ledgerVars

LEMMA ValidateMoves ==
    ASSUME LedgerInv, NEW r \in Requests, Validate(r)
    PROVE  LedgerInv'
<1> DEFINE q == [request[r] EXCEPT !.stage = "validated"]
<1>1. request[r] \in Request
  BY DEF LedgerInv, TypeOK
<1>2. request' = [request EXCEPT ![r] = q]
  BY DEF Validate
<1>3. Moves(r, q)
  <2>1. r \notin DOMAIN owners
    BY DEF LedgerInv, OwnersHold, Validate
  <2> QED BY <1>1, <2>1 DEF LedgerInv, RequestsInOrder, Moves, Validate, Request, Valid
<1> HIDE DEF q
<1> QED BY <1>2, <1>3, MovePreserves DEF Validate, ledgerVars

LEMMA GateReplayMoves ==
    ASSUME LedgerInv, NEW r \in Requests, GateReplay(r)
    PROVE  LedgerInv'
<1>1. request[r] \in Request
  BY DEF LedgerInv, TypeOK
<1>2. /\ r \notin DOMAIN owners /\ Keyed(r) /\ request[r].reply = "none"
      /\ entries[request[r].key].body_hash = request[r].body
  BY DEF LedgerInv, OwnersHold, RequestsInOrder, GateReplay
<1>3. CASE entries[request[r].key].state = "InFlight"
  <2>1. PICK o \in DOMAIN owners :
          /\ request[o].key = request[r].key
          /\ request' = [request EXCEPT ![r] = [@ EXCEPT !.stage = "waiting",
                                                        !.on = o]]
    BY <1>3 DEF GateReplay
  <2> DEFINE q == [request[r] EXCEPT !.stage = "waiting", !.on = o]
  <2>2. request' = [request EXCEPT ![r] = q]
    BY <2>1
  <2>3. o \in Requests /\ Keyed(o)
    BY <1>2, <2>1 DEF LedgerInv, TypeOK, Keyed
  <2>4. request[o].body = request[r].body
    BY <1>2, <2>1, <2>3 DEF LedgerInv, OwnersHold
  <2>5. Moves(r, q)
    BY <1>1, <1>2, <2>1, <2>3, <2>4 DEF Moves, GateReplay, Request
  <2> HIDE DEF q
  <2> QED BY <2>2, <2>5, MovePreserves DEF GateReplay, ledgerVars
<1>4. CASE entries[request[r].key].state = "Done"
  <2> DEFINE q == [request[r] EXCEPT !.reply = entries[request[r].key].reply,
                     !.stage = IF request[r].connected THEN "answered" ELSE "gone"]
  <2>1. request' = [request EXCEPT ![r] = q]
    BY <1>4 DEF GateReplay, Answered
  <2>2. entries[request[r].key].reply \in Recordable
    BY <1>4 DEF LedgerInv, TypeOK, Entry, EntriesBacked, GateReplay, Recorded
  <2>3. Moves(r, q)
    BY <1>1, <1>2, <1>4, <2>2
    DEF Moves, GateReplay, Recorded, Request, Replies, Recordable
  <2> HIDE DEF q
  <2> QED BY <2>1, <2>3, MovePreserves DEF GateReplay, ledgerVars
<1> QED BY <1>3, <1>4 DEF GateReplay

LEMMA GateConflictMoves ==
    ASSUME LedgerInv, NEW r \in Requests, GateConflict(r)
    PROVE  LedgerInv'
<1> DEFINE q == [request[r] EXCEPT !.reply = "conflict",
                   !.stage = IF request[r].connected THEN "answered" ELSE "gone"]
<1>1. request[r] \in Request
  BY DEF LedgerInv, TypeOK
<1>2. request' = [request EXCEPT ![r] = q]
  BY DEF GateConflict, Answered
<1>3. /\ r \notin DOMAIN owners
      /\ Keyed(r)
      /\ request[r].incarnation = incarnation
  BY DEF LedgerInv, OwnersHold, RequestsInOrder, GateConflict
<1>4. \E s \in Requests : /\ request[s].key = request[r].key
                         /\ request[s].incarnation = request[r].incarnation
                         /\ request[s].body # request[r].body
                         /\ request[s].body \notin Malformed
  BY <1>3 DEF LedgerInv, EntriesBacked, GateConflict, Recorded
<1>5. Moves(r, q)
  BY <1>1, <1>3, <1>4 DEF Moves, GateConflict, Request, Replies, Recordable
<1> HIDE DEF q
<1> QED BY <1>2, <1>5, MovePreserves DEF GateConflict, ledgerVars

LEMMA WakeMoves ==
    ASSUME LedgerInv, NEW r \in Requests, Wake(r)
    PROVE  LedgerInv'
<1> DEFINE q == [request[r] EXCEPT !.reply = watch[request[r].on],
                   !.stage = IF request[r].connected THEN "answered" ELSE "gone"]
<1>1. /\ request[r] \in Request
      /\ request[r].on \in Requests
      /\ watch[request[r].on] \in Recordable
  BY DEF LedgerInv, TypeOK, Request, Wake
<1>2. request' = [request EXCEPT ![r] = q]
  BY DEF Wake, Answered
<1>3. /\ request[r].key \in DOMAIN entries
      /\ entries[request[r].key].body_hash = request[r].body
      /\ entries[request[r].key].state = "Done"
      /\ entries[request[r].key].reply = watch[request[r].on]
  BY <1>1 DEF LedgerInv, WaitersServed, WatchRecorded, Wake
<1>4. r \notin DOMAIN owners
  <2>1. r \in DOMAIN owners => request[r].on = r /\ watch[r] = "none"
    BY DEF LedgerInv, OwnersHold, Wake
  <2> QED BY <2>1 DEF Wake
<1>5. Moves(r, q)
  BY <1>1, <1>3, <1>4 DEF Moves, Wake, Request, Replies, Recordable
<1> HIDE DEF q
<1> QED BY <1>2, <1>5, MovePreserves DEF Wake, ledgerVars

LEMMA LossMoves ==
    ASSUME LedgerInv, NEW r \in Requests, Keyed(r), ConnectionLost(r)
    PROVE  LedgerInv'
<1> DEFINE q == [request[r] EXCEPT !.connected = FALSE,
                   !.stage = IF Streamed(r) THEN request[r].stage ELSE "gone"]
<1>1. request[r] \in Request
  BY DEF LedgerInv, TypeOK
<1>2. request' = [request EXCEPT ![r] = q]
  BY DEF ConnectionLost
<1>3. /\ request[r].reply = "none"
      /\ r \in DOMAIN owners => request[r].stage = "waiting" /\ request[r].on = r
      /\ request[r].stage = "validated" => request[r].body \notin Malformed
  BY DEF LedgerInv, RequestsInOrder, OwnersHold, ConnectionLost
<1>4. request[r].stage = "waiting" =>
        /\ request[r].on \in DOMAIN owners \/ watch[request[r].on] # "none"
        /\ request[request[r].on].key = request[r].key
        /\ request[request[r].on].body = request[r].body
  BY DEF LedgerInv, WaitersServed
<1>5. Moves(r, q)
  <2>1. /\ q \in Request
        /\ q.key = request[r].key
        /\ q.body = request[r].body
        /\ q.incarnation = request[r].incarnation
        /\ q.reply = request[r].reply
        /\ q.on = request[r].on
        /\ q.stage = request[r].stage \/ q.stage = "gone"
        /\ Streamed(r) => q.stage = request[r].stage
    BY <1>1 DEF Request
  <2> HIDE DEF q
  <2> QED BY <2>1, <1>3, <1>4 DEF Moves, ConnectionLost
<1> HIDE DEF q
<1> QED BY <1>2, <1>5, MovePreserves DEF ConnectionLost

-----------------------------------------------------------------------------
(* Steps that touch the tables                                             *)

LEMMA SubjectPreserves ==
    ASSUME LedgerInv, subject' \in BOOLEAN,
           UNCHANGED <<incarnation, entries, owners, watch, request, effects>>
    PROVE  LedgerInv'
<1> USE DEF LedgerInv
<1>1. TypeOK'
  BY DEF TypeOK
<1>2. RequestsInOrder' /\ OwnersHold' /\ OwnersUnique'
  BY DEF RequestsInOrder, OwnersHold, OwnersUnique, Keyed, Streamed
<1>3. EntriesBacked' /\ WatchRecorded' /\ WaitersServed'
  BY DEF EntriesBacked, WatchRecorded, WaitersServed, Keyed
<1>4. EffectsKept' /\ AnswersRecorded' /\ AtMostOneEffect'
  BY DEF EffectsKept, AnswersRecorded, AtMostOneEffect, FromLedger
<1>5. FaithfulReplay' /\ AnswersBacked' /\ ConflictIsReal'
  BY DEF FaithfulReplay, AnswersBacked, ConflictIsReal, FromLedger, Authored
<1> QED BY <1>1, <1>2, <1>3, <1>4, <1>5

LEMMA ReceivePreserves ==
    ASSUME LedgerInv, NEW r \in Requests, NEW k \in Keys \cup {NoKey},
           NEW b \in Bodies, Receive(r, k, b)
    PROVE  LedgerInv'
<1> USE DEF LedgerInv
<1>u. /\ UNCHANGED <<incarnation, subject, entries, owners, watch, effects>>
      /\ request[r].stage = "new"
      /\ b \in Uploads => k # NoKey
  BY DEF Receive, ledgerVars
<1>t. TypeOK /\ request[r] \in Request /\ incarnation \in Nat
  BY DEF TypeOK
<1>r. /\ \A s \in Requests : s # r => request'[s] = request[s]
      /\ request' \in [Requests -> Request]
      /\ request'[r].stage = "received"
      /\ request'[r].key = k
      /\ request'[r].body = b
      /\ request'[r].incarnation = incarnation
      /\ request'[r].reply = request[r].reply
      /\ request'[r].on = request[r].on
  BY <1>t DEF Receive, TypeOK, Request
<1>n. /\ request[r].key = NoKey
      /\ request[r].reply = "none"
      /\ r \notin DOMAIN owners
      /\ watch[r] = "none"
      /\ \A e \in effects : e.owner # r
  BY <1>u DEF RequestsInOrder, OwnersHold, WatchRecorded, EffectsKept
<1>o. /\ DOMAIN owners \subseteq Requests
      /\ DOMAIN entries \subseteq Keys
      /\ NoKey \notin Keys
      /\ \A e \in effects : e.owner \in Requests
      /\ \A s \in Requests : request[s].on \in Requests
  BY <1>t, KeysAssumption DEF TypeOK, Effect, Request
<1>1. TypeOK'
  BY <1>t, <1>u, <1>r DEF TypeOK
<1>2. RequestsInOrder'
  BY <1>t, <1>u, <1>r, <1>n DEF RequestsInOrder, Keyed, Streamed
<1>3. OwnersHold' /\ OwnersUnique'
  BY <1>u, <1>r, <1>n, <1>o DEF OwnersHold, OwnersUnique, Keyed
<1>4. EntriesBacked'
  BY <1>u, <1>r, <1>n, <1>o DEF EntriesBacked
<1>5. WatchRecorded' /\ WaitersServed'
  BY <1>u, <1>r, <1>n, <1>o DEF WatchRecorded, WaitersServed, Keyed
<1>6. EffectsKept' /\ AtMostOneEffect'
  BY <1>u, <1>r, <1>n, <1>o DEF EffectsKept, AtMostOneEffect
<1>7. AnswersRecorded' /\ FaithfulReplay' /\ AnswersBacked'
  BY <1>u, <1>r DEF AnswersRecorded, FaithfulReplay, AnswersBacked, FromLedger,
                    Authored
<1>8. ConflictIsReal'
  <2>1. \A s \in Requests : request[s].reply = "conflict" => request[s].key # NoKey
    BY DEF RequestsInOrder, Keyed
  <2> QED BY <2>1, <1>r, <1>n DEF ConflictIsReal
<1> QED BY <1>1, <1>2, <1>3, <1>4, <1>5, <1>6, <1>7, <1>8

\* What joining owners and entries does to the two tables.
LEMMA AddOwnerFacts ==
    ASSUME NEW r, NEW stage, owners' = AddOwner(r, stage)
    PROVE  /\ DOMAIN owners' = DOMAIN owners \cup {r}
           /\ owners'[r] = NewOwner(stage)
           /\ \A o \in DOMAIN owners : o # r => owners'[o] = owners[o]
BY DEF AddOwner

LEMMA DropOwnerFacts ==
    ASSUME NEW r, owners' = DropOwner(r)
    PROVE  /\ DOMAIN owners' = DOMAIN owners \ {r}
           /\ \A o \in DOMAIN owners' : owners'[o] = owners[o]
BY DEF DropOwner

LEMMA InsertFacts ==
    ASSUME NEW k, NEW e, entries' = Insert(k, e)
    PROVE  /\ DOMAIN entries' = DOMAIN entries \cup {k}
           /\ entries'[k] = e
           /\ \A j \in DOMAIN entries : j # k => entries'[j] = entries[j]
BY DEF Insert

LEMMA GateOwnerPreserves ==
    ASSUME LedgerInv, NEW r \in Requests, GateOwner(r)
    PROVE  LedgerInv'
<1> USE DEF LedgerInv
<1> DEFINE k == request[r].key
<1>u. /\ UNCHANGED <<incarnation, subject, watch, effects>>
      /\ request[r].stage = "validated"
      /\ k \notin DOMAIN entries
  BY DEF GateOwner, Recorded
<1>t. TypeOK /\ request[r] \in Request
  BY DEF TypeOK
<1>r. /\ \A s \in Requests : s # r => request'[s] = request[s]
      /\ request' \in [Requests -> Request]
      /\ request'[r].stage = "waiting"
      /\ request'[r].on = r
      /\ request'[r].reply = request[r].reply
  BY <1>t DEF GateOwner, TypeOK, Request
<1>k. \A s \in Requests : /\ request'[s].key = request[s].key
                          /\ request'[s].body = request[s].body
                          /\ request'[s].incarnation = request[s].incarnation
  BY <1>t DEF GateOwner, TypeOK, Request
<1>n. /\ k # NoKey /\ k \in Keys
      /\ request[r].incarnation = incarnation
      /\ request[r].body \notin Malformed
      /\ request[r].reply = "none"
      /\ r \notin DOMAIN owners
      /\ watch[r] = "none"
      /\ \A e \in effects : e.owner # r
  BY <1>u, <1>t
  DEF RequestsInOrder, OwnersHold, WatchRecorded, EffectsKept, Keyed, Request
<1>e. /\ DOMAIN entries' = DOMAIN entries \cup {k}
      /\ entries'[k] = [state |-> "InFlight", body_hash |-> request[r].body,
                        reply |-> "none", cancellation |-> FALSE]
      /\ \A j \in DOMAIN entries : j # k => entries'[j] = entries[j]
  BY InsertFacts DEF GateOwner
<1>w. /\ DOMAIN owners' = DOMAIN owners \cup {r}
      /\ owners'[r] = NewOwner(FirstStage(r))
      /\ \A o \in DOMAIN owners : o # r => owners'[o] = owners[o]
  BY AddOwnerFacts DEF GateOwner
<1>f. FirstStage(r) \in {"uploading", "unaccepted", "running"}
  BY DEF FirstStage
<1>o. /\ DOMAIN owners \subseteq Requests
      /\ \A e \in effects : e.owner \in Requests
      /\ \A s \in Requests : request[s].on \in Requests
  BY <1>t DEF TypeOK, Effect, Request
<1> HIDE DEF k
<1>1. TypeOK'
  <2>1. entries'[k] \in Entry /\ owners'[r] \in Owner
    BY <1>e, <1>w, <1>f, <1>t DEF Entry, Owner, NewOwner, Request
  <2> QED BY <2>1, <1>t, <1>u, <1>r, <1>n, <1>e, <1>w DEF TypeOK
<1>2. RequestsInOrder'
  BY <1>u, <1>r, <1>k, <1>n DEF RequestsInOrder, Keyed, Streamed, k
<1>q. \A p \in DOMAIN owners : /\ p # r
                              /\ owners'[p] = owners[p]
                              /\ request'[p] = request[p]
                              /\ request[p].key # k
  <2>1. \A p \in DOMAIN owners : request[p].key # NoKey => request[p].key \in DOMAIN entries
    BY DEF OwnersHold, Keyed
  <2> QED BY <2>1, <1>u, <1>r, <1>n, <1>w, <1>o
<1>3. OwnersHold'
  BY <1>u, <1>r, <1>k, <1>n, <1>e, <1>w, <1>f, <1>q
  DEF OwnersHold, Keyed, NewOwner, k
<1>9. OwnersUnique'
  BY <1>k, <1>n, <1>w, <1>q, <1>o DEF OwnersUnique, Keyed, k
<1>4. EntriesBacked'
  BY <1>u, <1>r, <1>k, <1>n, <1>e, <1>w, <1>f, <1>o
  DEF EntriesBacked, NewOwner, k
<1>5. WatchRecorded' /\ WaitersServed'
  BY <1>u, <1>r, <1>k, <1>n, <1>e, <1>w, <1>o
  DEF WatchRecorded, WaitersServed, Keyed, k
<1>6. EffectsKept'
  BY <1>u, <1>r, <1>k, <1>n, <1>e, <1>w, <1>o DEF EffectsKept
<1>7. AtMostOneEffect' /\ AnswersRecorded'
  BY <1>u, <1>r, <1>k, <1>n, <1>e
  DEF AtMostOneEffect, AnswersRecorded, FromLedger
<1>8. FaithfulReplay' /\ AnswersBacked' /\ ConflictIsReal'
  BY <1>u, <1>r, <1>k
  DEF FaithfulReplay, AnswersBacked, ConflictIsReal, FromLedger, Authored
<1> QED BY <1>1, <1>2, <1>3, <1>9, <1>4, <1>5, <1>6, <1>7, <1>8

LEMMA RunInlinePreserves ==
    ASSUME LedgerInv, NEW r \in Requests, RunInline(r)
    PROVE  LedgerInv'
<1> USE DEF LedgerInv
<1>u. /\ UNCHANGED <<incarnation, subject, entries, watch, effects>>
      /\ request[r].stage = "received"
      /\ request[r].key = NoKey
  BY DEF RunInline, Keyed
<1>t. TypeOK /\ request[r] \in Request
  BY DEF TypeOK
<1>r. /\ \A s \in Requests : s # r => request'[s] = request[s]
      /\ request' \in [Requests -> Request]
      /\ request'[r].stage = "waiting"
      /\ request'[r].on = request[r].on
      /\ request'[r].reply = request[r].reply
  BY <1>t DEF RunInline, TypeOK, Request
<1>k. \A s \in Requests : /\ request'[s].key = request[s].key
                          /\ request'[s].body = request[s].body
                          /\ request'[s].incarnation = request[s].incarnation
  BY <1>t DEF RunInline, TypeOK, Request
<1>n. /\ request[r].incarnation = incarnation
      /\ request[r].on = r
      /\ request[r].reply = "none"
      /\ r \notin DOMAIN owners
      /\ watch[r] = "none"
      /\ \A e \in effects : e.owner # r
  BY <1>u DEF RequestsInOrder, OwnersHold, WatchRecorded, EffectsKept
<1>w. /\ DOMAIN owners' = DOMAIN owners \cup {r}
      /\ owners'[r] = NewOwner("running")
      /\ \A o \in DOMAIN owners : o # r => owners'[o] = owners[o]
  BY AddOwnerFacts DEF RunInline
<1>o. /\ DOMAIN owners \subseteq Requests
      /\ DOMAIN entries \subseteq Keys
      /\ NoKey \notin Keys
      /\ \A e \in effects : e.owner \in Requests
      /\ \A s \in Requests : request[s].on \in Requests
  BY <1>t, KeysAssumption DEF TypeOK, Effect, Request
<1>q. \A p \in DOMAIN owners : /\ p # r
                              /\ owners'[p] = owners[p]
                              /\ request'[p] = request[p]
  BY <1>r, <1>n, <1>w, <1>o
<1>1. TypeOK'
  <2>1. owners'[r] \in Owner
    BY <1>w DEF Owner, NewOwner
  <2> QED BY <2>1, <1>t, <1>u, <1>r, <1>w DEF TypeOK
<1>2. RequestsInOrder'
  BY <1>u, <1>r, <1>k, <1>n DEF RequestsInOrder, Keyed, Streamed
<1>3. OwnersHold'
  BY <1>u, <1>r, <1>k, <1>n, <1>w, <1>q DEF OwnersHold, Keyed, NewOwner
<1>4. OwnersUnique'
  BY <1>u, <1>k, <1>w, <1>q, <1>o DEF OwnersUnique, Keyed
<1>5. EntriesBacked'
  BY <1>u, <1>k, <1>w, <1>q, <1>o DEF EntriesBacked
<1>6. WatchRecorded' /\ WaitersServed'
  BY <1>u, <1>r, <1>k, <1>n, <1>w, <1>o DEF WatchRecorded, WaitersServed, Keyed
<1>7. EffectsKept'
  BY <1>u, <1>r, <1>k, <1>n, <1>w, <1>q, <1>o DEF EffectsKept
<1>8. AtMostOneEffect' /\ AnswersRecorded'
  BY <1>u, <1>r, <1>k DEF AtMostOneEffect, AnswersRecorded, FromLedger
<1>9. FaithfulReplay' /\ AnswersBacked' /\ ConflictIsReal'
  BY <1>u, <1>r, <1>k
  DEF FaithfulReplay, AnswersBacked, ConflictIsReal, FromLedger, Authored
<1> QED BY <1>1, <1>2, <1>3, <1>4, <1>5, <1>6, <1>7, <1>8, <1>9

\* The effect: while its key is in flight, any other effect of the key would be
\* this same owner's.
LEMMA AuthorPreserves ==
    ASSUME LedgerInv, NEW r \in Requests, Author(r)
    PROVE  LedgerInv'
<1> USE DEF LedgerInv
<1> DEFINE new == [owner |-> r, key |-> request[r].key, body |-> request[r].body,
                   incarnation |-> incarnation]
<1>u. /\ UNCHANGED <<incarnation, subject, entries, owners, watch, request>>
      /\ effects' = effects \cup {new}
      /\ r \in DOMAIN owners
      /\ owners[r].stage = "running"
      /\ \A e \in effects : e.owner # r
  BY DEF Author, Running, ledgerVars
<1>t. TypeOK /\ request[r] \in Request /\ incarnation \in Nat
  BY DEF TypeOK
<1>m. /\ new.owner = r
      /\ new.key = request[r].key
      /\ new.body = request[r].body
      /\ new.incarnation = incarnation
      /\ new \in Effect
  BY <1>t DEF Effect, Request
<1> HIDE DEF new
<1>n. /\ request[r].incarnation = incarnation
      /\ request[r].stage \notin {"new", "received", "validated"}
      /\ request[r].key # NoKey =>
           /\ request[r].key \in DOMAIN entries
           /\ entries[request[r].key].state = "InFlight"
           /\ ~entries[request[r].key].cancellation
           /\ entries[request[r].key].reply = "none"
  BY <1>u DEF OwnersHold, EntriesBacked, Keyed
<1>f. \A e \in effects : ~(/\ e.key = request[r].key
                           /\ e.key # NoKey
                           /\ e.incarnation = incarnation)
  BY <1>u, <1>n DEF EffectsKept, OwnersUnique, Keyed
<1>e. NoKey \notin DOMAIN entries
  BY <1>t, KeysAssumption DEF TypeOK
<1>1. TypeOK'
  BY <1>t, <1>u, <1>m DEF TypeOK
<1>2. RequestsInOrder' /\ OwnersHold' /\ OwnersUnique'
  BY <1>u DEF RequestsInOrder, OwnersHold, OwnersUnique, Keyed, Streamed
<1>3. EntriesBacked'
  BY <1>u, <1>m, <1>n, <1>e DEF EntriesBacked
<1>4. WatchRecorded' /\ WaitersServed' /\ AnswersRecorded'
  BY <1>u DEF WatchRecorded, WaitersServed, AnswersRecorded, FromLedger, Keyed
<1>5. EffectsKept'
  BY <1>u, <1>m, <1>n DEF EffectsKept
<1>6. AtMostOneEffect'
  BY <1>u, <1>m, <1>f DEF AtMostOneEffect
<1>7. FaithfulReplay' /\ ConflictIsReal'
  BY <1>u DEF FaithfulReplay, ConflictIsReal, FromLedger
<1>8. AnswersBacked'
  <2>1. \A a \in Requests :
          FromLedger(a) /\ request[a].reply = "cancelled"
            => ~(/\ request[a].key = request[r].key
                 /\ request[a].incarnation = incarnation)
    BY <1>n DEF AnswersRecorded, FromLedger
  <2> QED BY <2>1, <1>u, <1>m DEF AnswersBacked, FromLedger, Authored
<1> QED BY <1>1, <1>2, <1>3, <1>4, <1>5, <1>6, <1>7, <1>8

\* A record is made: the reply is one the owner may publish, "ok" only with its
\* effect, "cancelled" exactly when it was cancelled before it could run.
LEMMA PublishPreserves ==
    ASSUME LedgerInv, NEW r \in Requests, NEW v \in Recordable,
           r \in DOMAIN owners, request[r].key # NoKey,
           owners[r].stage # "publishing",
           v = "ok" => \E e \in effects : e.owner = r,
           v = "cancelled" => owners[r].cancelled,
           owners[r].cancelled => v = "cancelled",
           Publish(r, v),
           UNCHANGED <<incarnation, subject, watch, request, effects>>
    PROVE  LedgerInv'
<1> USE DEF LedgerInv
<1> DEFINE k == request[r].key
<1>t. /\ TypeOK /\ request[r] \in Request
      /\ k \in DOMAIN entries /\ k # NoKey
      /\ entries[k] \in Entry
      /\ owners[r] \in Owner
  BY DEF TypeOK, OwnersHold, Keyed
<1>n. /\ request[r].incarnation = incarnation
      /\ entries[k].state = "InFlight"
      /\ entries[k].body_hash = request[r].body
      /\ entries[k].cancellation => owners[r].cancelled
      /\ owners[r].cancelled => entries[k].cancellation
      /\ watch[r] = "none"
  BY DEF OwnersHold, Keyed
<1>e. /\ DOMAIN entries' = DOMAIN entries
      /\ entries'[k].state = "Done"
      /\ entries'[k].reply = v
      /\ entries'[k].body_hash = entries[k].body_hash
      /\ entries'[k].cancellation = entries[k].cancellation
      /\ entries'[k] \in Entry
      /\ \A j \in DOMAIN entries : j # k => entries'[j] = entries[j]
  <2>1. entries' = Insert(k, [entries[k] EXCEPT !.state = "Done", !.reply = v])
    BY DEF Publish
  <2>2. /\ DOMAIN entries' = DOMAIN entries \cup {k}
        /\ entries'[k] = [entries[k] EXCEPT !.state = "Done", !.reply = v]
        /\ \A j \in DOMAIN entries : j # k => entries'[j] = entries[j]
    BY <2>1, InsertFacts
  <2> DEFINE d == entries[k]
             c == [d EXCEPT !.state = "Done", !.reply = v]
  <2>3. d \in Entry
    BY <1>t
  <2> HIDE DEF d
  <2>4. c \in Entry /\ c.state = "Done" /\ c.reply = v /\ c.body_hash = d.body_hash
    BY <2>3 DEF Entry
  <2>5. c.cancellation = d.cancellation
    BY <2>3 DEF Entry
  <2>6. entries'[k] = c
    BY <2>2 DEF d
  <2> HIDE DEF c
  <2> QED BY <2>2, <2>4, <2>5, <2>6, <1>t DEF d
<1>w. /\ DOMAIN owners' = DOMAIN owners
      /\ owners'[r].stage = "publishing"
      /\ owners'[r].reply = v
      /\ owners'[r].cancelled = owners[r].cancelled
      /\ owners'[r] \in Owner
      /\ \A o \in DOMAIN owners : o # r => owners'[o] = owners[o]
  BY <1>t DEF Publish, Owner
<1>o. /\ DOMAIN owners \subseteq Requests
      /\ \A e \in effects : e.owner \in Requests
      /\ \A s \in Requests : request[s].on \in Requests
  BY <1>t DEF TypeOK, Effect, Request
<1>q. \A p \in DOMAIN owners : p # r => request[p].key # k
  BY <1>t DEF OwnersUnique, Keyed
<1>d. \A j \in DOMAIN entries : entries[j].state = "Done" => j # k
  BY <1>n
<1> HIDE DEF k
<1>1. TypeOK'
  BY <1>t, <1>e, <1>w DEF TypeOK
<1>2. RequestsInOrder'
  BY DEF RequestsInOrder, Keyed, Streamed
<1>3. OwnersHold'
  <2>1. /\ owners'[r].stage # "running"
        /\ owners'[r].cancelled => entries'[k].cancellation
        /\ entries'[k].cancellation => owners'[r].cancelled
    BY <1>n, <1>e, <1>w
  <2> QED BY <2>1, <1>t, <1>n, <1>e, <1>w, <1>q DEF OwnersHold, Keyed, k
<1>4. OwnersUnique'
  BY <1>w DEF OwnersUnique, Keyed
<1>5. EntriesBacked'
  <2>1. entries'[k].cancellation \/ v = "cancelled" => entries[k].cancellation
    BY <1>n, <1>e
  <2>2. ASSUME v = "ok"
        PROVE  \E e \in effects : /\ e.key = k
                                  /\ e.body = entries'[k].body_hash
                                  /\ e.incarnation = incarnation
    <3>1. PICK e \in effects : e.owner = r
      BY <2>2
    <3>2. e.key = k /\ e.body = request[r].body /\ e.incarnation = incarnation
      BY <3>1, <1>n DEF EffectsKept, k
    <3> QED BY <3>1, <3>2, <1>n, <1>e
  <2>3. v # "none" /\ (entries'[k].cancellation => v = "cancelled")
    BY <1>n, <1>e DEF Recordable
  <2> QED BY <2>1, <2>2, <2>3, <1>t, <1>e, <1>w, <1>q DEF EntriesBacked, k
<1>6. WatchRecorded' /\ WaitersServed'
  BY <1>e, <1>w, <1>d DEF WatchRecorded, WaitersServed, Keyed
<1>7. EffectsKept'
  BY <1>e, <1>w DEF EffectsKept
<1>8. AtMostOneEffect' /\ AnswersRecorded'
  BY <1>e, <1>d DEF AtMostOneEffect, AnswersRecorded, FromLedger
<1>9. FaithfulReplay' /\ AnswersBacked' /\ ConflictIsReal'
  BY DEF FaithfulReplay, AnswersBacked, ConflictIsReal, FromLedger, Authored
<1> QED BY <1>1, <1>2, <1>3, <1>4, <1>5, <1>6, <1>7, <1>8, <1>9

LEMMA FinishPreserves ==
    ASSUME LedgerInv, NEW r \in Requests, NEW v \in Recordable, Finish(r, v)
    PROVE  LedgerInv'
<1> USE DEF LedgerInv
<1>u. /\ r \in DOMAIN owners /\ owners[r].stage = "running"
      /\ ~owners[r].cancelled
      /\ UNCHANGED <<incarnation, subject, watch, effects>>
      /\ v # "cancelled"
      /\ v = "ok" => \E e \in effects : e.owner = r
  <2>1. r \in DOMAIN owners /\ owners[r].stage = "running"
    BY DEF Finish, Running
  <2> QED BY <2>1 DEF Finish, OwnersHold, Dropped
<1>1. CASE request[r].key # NoKey
  <2>1. Publish(r, v) /\ request' = request
    BY <1>1, <1>u DEF Finish, Keyed, Terminal
  <2> QED BY <2>1, <1>1, <1>u, PublishPreserves
<1>2. CASE request[r].key = NoKey
  <2>u. /\ owners' = DropOwner(r)
        /\ request' = Answered(r, v)
        /\ entries' = entries
    BY <1>2 DEF Finish, Keyed
  <2>t. TypeOK /\ request[r] \in Request /\ v \in Replies
    BY DEF TypeOK, Replies
  <2>r. /\ \A s \in Requests : s # r => request'[s] = request[s]
        /\ request' \in [Requests -> Request]
        /\ request'[r].stage \in {"answered", "gone"}
        /\ request'[r].reply = v
    BY <2>u, <2>t DEF Answered, TypeOK, Request
  <2>k. \A s \in Requests : /\ request'[s].key = request[s].key
                            /\ request'[s].body = request[s].body
                            /\ request'[s].incarnation = request[s].incarnation
    BY <2>u, <2>t DEF Answered, TypeOK, Request
  <2>w. /\ DOMAIN owners' = DOMAIN owners \ {r}
        /\ \A o \in DOMAIN owners' : owners'[o] = owners[o]
    BY <2>u, DropOwnerFacts
  <2>o. /\ DOMAIN owners \subseteq Requests
        /\ NoKey \notin DOMAIN entries
        /\ \A e \in effects : e.owner \in Requests
        /\ \A s \in Requests : request[s].on \in Requests
    BY <2>t, KeysAssumption DEF TypeOK, Effect, Request
  <2>n. watch[r] = "none" /\ v # "conflict" /\ request[r].incarnation <= incarnation
    BY <1>u DEF OwnersHold, Recordable, RequestsInOrder
  <2>1. TypeOK'
    BY <2>t, <1>u, <2>u, <2>r, <2>w DEF TypeOK
  <2>2. RequestsInOrder'
    BY <1>u, <2>r, <2>k, <2>n DEF RequestsInOrder, Keyed, Streamed
  <2>3. OwnersHold' /\ OwnersUnique'
    BY <1>u, <2>u, <2>r, <2>k, <2>w, <2>o DEF OwnersHold, OwnersUnique, Keyed
  <2>4. EntriesBacked'
    BY <1>2, <1>u, <2>u, <2>k, <2>w, <2>o DEF EntriesBacked
  <2>5. WatchRecorded'
    BY <1>2, <1>u, <2>u, <2>r, <2>k DEF WatchRecorded
  <2>6. WaitersServed'
    BY <1>2, <1>u, <2>r, <2>k, <2>w, <2>o DEF WaitersServed, Keyed
  <2>7. EffectsKept'
    BY <1>2, <1>u, <2>u, <2>r, <2>k, <2>w, <2>o DEF EffectsKept
  <2>8. AtMostOneEffect' /\ AnswersRecorded'
    BY <1>2, <1>u, <2>u, <2>r, <2>k
    DEF AtMostOneEffect, AnswersRecorded, FromLedger
  <2>9. FaithfulReplay' /\ AnswersBacked' /\ ConflictIsReal'
    BY <1>2, <1>u, <2>r, <2>k, <2>n
    DEF FaithfulReplay, AnswersBacked, ConflictIsReal, FromLedger, Authored
  <2> QED BY <2>1, <2>2, <2>3, <2>4, <2>5, <2>6, <2>7, <2>8, <2>9
<1> QED BY <1>1, <1>2

LEMMA UploadEndsPreserves ==
    ASSUME LedgerInv, NEW r \in Requests, UploadEnds(r)
    PROVE  LedgerInv'
<1> USE DEF LedgerInv
<1>1. /\ r \in DOMAIN owners /\ owners[r].stage \in {"uploading", "unaccepted"}
      /\ UNCHANGED <<incarnation, subject, watch, request, effects>>
      /\ \/ Publish(r, Terminal(r, "transport_lost"))
         \/ Publish(r, Terminal(r, "refused"))
  BY DEF UploadEnds, Uploading, Unaccepted
<1>2. request[r].key # NoKey
  BY <1>1 DEF OwnersHold, Keyed
<1>3. /\ Terminal(r, "transport_lost") \in Recordable \ {"ok"}
      /\ Terminal(r, "refused") \in Recordable \ {"ok"}
      /\ Terminal(r, "transport_lost") = "cancelled" => owners[r].cancelled
      /\ Terminal(r, "refused") = "cancelled" => owners[r].cancelled
      /\ owners[r].cancelled => /\ Terminal(r, "transport_lost") = "cancelled"
                                /\ Terminal(r, "refused") = "cancelled"
  BY DEF Terminal, Recordable
<1>4. CASE Publish(r, Terminal(r, "transport_lost"))
  BY <1>1, <1>2, <1>3, <1>4, PublishPreserves
<1>5. CASE Publish(r, Terminal(r, "refused"))
  BY <1>1, <1>2, <1>3, <1>5, PublishPreserves
<1> QED BY <1>1, <1>4, <1>5

LEMMA AnnouncePreserves ==
    ASSUME LedgerInv, NEW r \in Requests, Announce(r)
    PROVE  LedgerInv'
<1> USE DEF LedgerInv
<1>u. /\ UNCHANGED <<incarnation, subject, entries, request, effects>>
      /\ r \in DOMAIN owners /\ owners[r].stage = "publishing"
      /\ watch' = [watch EXCEPT ![r] = owners[r].reply]
      /\ owners' = DropOwner(r)
  BY DEF Announce
<1>t. TypeOK /\ owners[r] \in Owner /\ watch \in [Requests -> Recordable \cup {"none"}]
  BY <1>u DEF TypeOK
<1>n. /\ request[r].key # NoKey
      /\ request[r].key \in DOMAIN entries
      /\ entries[request[r].key].body_hash = request[r].body
      /\ entries[request[r].key].state = "Done"
      /\ entries[request[r].key].reply = owners[r].reply
      /\ owners[r].reply # "none"
      /\ request[r].incarnation = incarnation
      /\ request[r].stage \in {"gone", "waiting"}
  BY <1>u DEF OwnersHold, EntriesBacked, Keyed
<1>v. /\ watch'[r] = owners[r].reply
      /\ watch'[r] \in Recordable \cup {"none"}
      /\ \A s \in Requests : s # r => watch'[s] = watch[s]
      /\ watch' \in [Requests -> Recordable \cup {"none"}]
  BY <1>u, <1>t DEF Owner
<1>w. /\ DOMAIN owners' = DOMAIN owners \ {r}
      /\ \A o \in DOMAIN owners' : owners'[o] = owners[o]
  BY <1>u, DropOwnerFacts
<1>o. /\ DOMAIN owners \subseteq Requests
      /\ \A e \in effects : e.owner \in Requests
      /\ \A s \in Requests : request[s].on \in Requests
  BY <1>t DEF TypeOK, Effect, Request
<1>1. TypeOK'
  BY <1>t, <1>u, <1>v, <1>w DEF TypeOK
<1>2. RequestsInOrder'
  BY <1>u DEF RequestsInOrder, Keyed, Streamed
<1>3. OwnersHold' /\ OwnersUnique'
  BY <1>u, <1>v, <1>w, <1>o DEF OwnersHold, OwnersUnique, Keyed
<1>4. EntriesBacked'
  BY <1>u, <1>w, <1>n DEF EntriesBacked
<1>5. WatchRecorded' /\ WaitersServed'
  BY <1>u, <1>v, <1>w, <1>n, <1>o DEF WatchRecorded, WaitersServed, Keyed
<1>6. EffectsKept'
  BY <1>u, <1>w, <1>n DEF EffectsKept
<1>7. AtMostOneEffect' /\ AnswersRecorded'
  BY <1>u DEF AtMostOneEffect, AnswersRecorded, FromLedger
<1>8. FaithfulReplay' /\ AnswersBacked' /\ ConflictIsReal'
  BY <1>u DEF FaithfulReplay, AnswersBacked, ConflictIsReal, FromLedger, Authored
<1> QED BY <1>1, <1>2, <1>3, <1>4, <1>5, <1>6, <1>7, <1>8

\* The steps of an upload that has not begun to run: no effect of its key exists.
LEMMA SelectCancelledPreserves ==
    ASSUME LedgerInv, NEW r \in Requests, SelectCancelled(r)
    PROVE  LedgerInv'
<1> USE DEF LedgerInv
<1> DEFINE k == request[r].key
<1>u. /\ UNCHANGED <<incarnation, subject, watch, request, effects>>
      /\ r \in DOMAIN owners /\ owners[r].stage = "uploading"
      /\ owners' = [owners EXCEPT ![r].cancelled = TRUE]
      /\ entries' = [entries EXCEPT ![k].cancellation = TRUE]
  BY DEF SelectCancelled, Uploading
<1>t. /\ TypeOK /\ owners[r] \in Owner
      /\ k \in DOMAIN entries /\ k # NoKey
      /\ entries[k] \in Entry
  BY <1>u DEF TypeOK, OwnersHold, Keyed
<1>n. /\ entries[k].state = "InFlight"
      /\ entries[k].body_hash = request[r].body
      /\ request[r].incarnation = incarnation
  BY <1>u, <1>t DEF OwnersHold, Keyed
<1>e. /\ DOMAIN entries' = DOMAIN entries
      /\ entries'[k].state = entries[k].state
      /\ entries'[k].reply = entries[k].reply
      /\ entries'[k].body_hash = entries[k].body_hash
      /\ entries'[k].cancellation
      /\ entries'[k] \in Entry
      /\ \A j \in DOMAIN entries : j # k => entries'[j] = entries[j]
  BY <1>u, <1>t DEF Entry
<1>w. /\ DOMAIN owners' = DOMAIN owners
      /\ owners'[r].stage = "uploading"
      /\ owners'[r].cancelled
      /\ owners'[r] \in Owner
      /\ \A o \in DOMAIN owners : o # r => owners'[o] = owners[o]
  BY <1>u, <1>t DEF Owner
<1>q. \A p \in DOMAIN owners : p # r => request[p].key # k
  BY <1>u, <1>t DEF OwnersUnique, Keyed
<1>f. \A e \in effects : e.key # k \/ e.incarnation # incarnation
  <2> SUFFICES ASSUME NEW e \in effects, e.key = k, e.incarnation = incarnation
               PROVE  FALSE
    OBVIOUS
  <2>1. /\ e.owner \in DOMAIN owners
        /\ request[e.owner].key = k
        /\ owners[e.owner].stage \in {"running", "publishing"}
    BY <1>t, <1>n DEF EffectsKept
  <2> QED BY <2>1, <1>q, <1>u
<1>d. \A j \in DOMAIN entries : entries[j].state = "Done" => j # k
  BY <1>n
<1> HIDE DEF k
<1>1. TypeOK'
  BY <1>t, <1>u, <1>e, <1>w DEF TypeOK
<1>2. RequestsInOrder'
  BY <1>u DEF RequestsInOrder, Keyed, Streamed
<1>3. OwnersHold'
  BY <1>t, <1>u, <1>n, <1>e, <1>w, <1>q DEF OwnersHold, Keyed, k
<1>4. OwnersUnique'
  BY <1>u, <1>w DEF OwnersUnique, Keyed
<1>5. EntriesBacked'
  BY <1>t, <1>u, <1>n, <1>e, <1>w, <1>q, <1>f DEF EntriesBacked, k
<1>6. WatchRecorded' /\ WaitersServed'
  BY <1>u, <1>e, <1>w, <1>d DEF WatchRecorded, WaitersServed, Keyed
<1>7. EffectsKept'
  BY <1>u, <1>e, <1>w DEF EffectsKept
<1>8. AtMostOneEffect' /\ AnswersRecorded'
  BY <1>u, <1>e, <1>d DEF AtMostOneEffect, AnswersRecorded, FromLedger
<1>9. FaithfulReplay' /\ AnswersBacked' /\ ConflictIsReal'
  BY <1>u DEF FaithfulReplay, AnswersBacked, ConflictIsReal, FromLedger, Authored
<1> QED BY <1>1, <1>2, <1>3, <1>4, <1>5, <1>6, <1>7, <1>8, <1>9

LEMMA FinalizePreserves ==
    ASSUME LedgerInv, NEW r \in Requests, Finalize(r)
    PROVE  LedgerInv'
<1> USE DEF LedgerInv
<1>u. /\ UNCHANGED <<incarnation, subject, entries, watch, request, effects>>
      /\ r \in DOMAIN owners /\ owners[r].stage = "uploading"
      /\ ~owners[r].cancelled
      /\ owners' = [owners EXCEPT ![r].stage = "running"]
  BY DEF Finalize, Uploading
<1>t. TypeOK /\ owners[r] \in Owner
  BY <1>u DEF TypeOK
<1>n. /\ request[r].key # NoKey
      /\ request[r].key \in DOMAIN entries
      /\ ~entries[request[r].key].cancellation
  BY <1>u DEF OwnersHold, Keyed
<1>w. /\ DOMAIN owners' = DOMAIN owners
      /\ owners'[r].stage = "running"
      /\ ~owners'[r].cancelled
      /\ owners'[r] \in Owner
      /\ \A o \in DOMAIN owners : o # r => owners'[o] = owners[o]
  BY <1>u, <1>t DEF Owner
<1>1. TypeOK'
  BY <1>t, <1>u, <1>w DEF TypeOK
<1>2. RequestsInOrder' /\ OwnersUnique'
  BY <1>u, <1>w DEF RequestsInOrder, OwnersUnique, Keyed, Streamed
<1>3. OwnersHold'
  BY <1>u, <1>n, <1>w DEF OwnersHold, Keyed
<1>4. EntriesBacked'
  BY <1>u, <1>w DEF EntriesBacked
<1>5. WatchRecorded' /\ WaitersServed'
  BY <1>u, <1>w DEF WatchRecorded, WaitersServed, Keyed
<1>6. EffectsKept'
  BY <1>u, <1>w DEF EffectsKept
<1>7. AtMostOneEffect' /\ AnswersRecorded'
  BY <1>u DEF AtMostOneEffect, AnswersRecorded, FromLedger
<1>8. FaithfulReplay' /\ AnswersBacked' /\ ConflictIsReal'
  BY <1>u DEF FaithfulReplay, AnswersBacked, ConflictIsReal, FromLedger, Authored
<1> QED BY <1>1, <1>2, <1>3, <1>4, <1>5, <1>6, <1>7, <1>8

LEMMA UnkeyedLossPreserves ==
    ASSUME LedgerInv, NEW r \in Requests, ~Keyed(r), ConnectionLost(r)
    PROVE  LedgerInv'
<1> USE DEF LedgerInv
<1>u. /\ request[r].key = NoKey
      /\ request[r].stage \in {"received", "validated", "waiting"}
      /\ ~Streamed(r)
      /\ UNCHANGED <<incarnation, subject, entries, watch, effects>>
      /\ owners' = DropOwner(r)
  BY DEF ConnectionLost, Keyed, RequestsInOrder
<1>t. TypeOK /\ request[r] \in Request
  BY DEF TypeOK
<1>r. /\ \A s \in Requests : s # r => request'[s] = request[s]
      /\ request' \in [Requests -> Request]
      /\ request'[r].stage = "gone"
      /\ request'[r].reply = request[r].reply
  BY <1>u, <1>t DEF ConnectionLost, TypeOK, Request
<1>k. \A s \in Requests : /\ request'[s].key = request[s].key
                          /\ request'[s].body = request[s].body
                          /\ request'[s].incarnation = request[s].incarnation
  BY <1>t DEF ConnectionLost, TypeOK, Request
<1>w. /\ DOMAIN owners' = DOMAIN owners \ {r}
      /\ \A o \in DOMAIN owners' : owners'[o] = owners[o]
  BY <1>u, DropOwnerFacts
<1>o. /\ DOMAIN owners \subseteq Requests
      /\ NoKey \notin DOMAIN entries
      /\ \A e \in effects : e.owner \in Requests
      /\ \A s \in Requests : request[s].on \in Requests
  BY <1>t, KeysAssumption DEF TypeOK, Effect, Request
<1>1. TypeOK'
  BY <1>t, <1>u, <1>r, <1>w DEF TypeOK
<1>2. RequestsInOrder'
  BY <1>u, <1>r, <1>k DEF RequestsInOrder, Keyed, Streamed
<1>3. OwnersHold' /\ OwnersUnique'
  BY <1>u, <1>r, <1>k, <1>w, <1>o DEF OwnersHold, OwnersUnique, Keyed
<1>4. EntriesBacked'
  BY <1>u, <1>k, <1>w, <1>o DEF EntriesBacked
<1>5. WatchRecorded'
  BY <1>u, <1>r, <1>k, <1>o DEF WatchRecorded
<1>6. WaitersServed'
  BY <1>u, <1>r, <1>k, <1>w, <1>o DEF WaitersServed, Keyed
<1>7. EffectsKept'
  BY <1>u, <1>r, <1>k, <1>w, <1>o DEF EffectsKept
<1>8. AtMostOneEffect' /\ AnswersRecorded'
  BY <1>u, <1>r, <1>k DEF AtMostOneEffect, AnswersRecorded, FromLedger
<1>9. FaithfulReplay' /\ AnswersBacked' /\ ConflictIsReal'
  BY <1>u, <1>r, <1>k
  DEF FaithfulReplay, AnswersBacked, ConflictIsReal, FromLedger, Authored
<1> QED BY <1>1, <1>2, <1>3, <1>4, <1>5, <1>6, <1>7, <1>8, <1>9

\* A new process knows nothing, and nothing of the old ones bears its number.
LEMMA RestartPreserves ==
    ASSUME LedgerInv, Restart
    PROVE  LedgerInv'
<1> USE DEF LedgerInv
<1>u. /\ incarnation' = incarnation + 1
      /\ incarnation' \in 1..MaxIncarnations
      /\ DOMAIN entries' = {}
      /\ DOMAIN owners' = {}
      /\ \A r \in Requests : watch'[r] = "none"
      /\ watch' \in [Requests -> Recordable \cup {"none"}]
      /\ UNCHANGED <<subject, effects>>
  <2>1. /\ incarnation' = incarnation + 1 /\ incarnation < MaxIncarnations
        /\ entries' = Nothing /\ owners' = Nothing
        /\ watch' = [r \in Requests |-> "none"]
        /\ UNCHANGED <<subject, effects>>
    BY DEF Restart
  <2>2. incarnation' \in 1..MaxIncarnations
    BY <2>1, IncarnationsAssumption DEF TypeOK
  <2>3. DOMAIN entries' = {} /\ DOMAIN owners' = {}
    BY <2>1 DEF Nothing
  <2>4. watch' \in [Requests -> Recordable \cup {"none"}]
    BY <2>1
  <2>5. \A r \in Requests : watch'[r] = "none"
    BY <2>1
  <2> QED BY <2>1, <2>2, <2>3, <2>4, <2>5
<1>t. TypeOK /\ incarnation \in Nat /\ request \in [Requests -> Request]
  BY DEF TypeOK
<1>r. \A r \in Requests :
        /\ request'[r].key = request[r].key
        /\ request'[r].body = request[r].body
        /\ request'[r].incarnation = request[r].incarnation
        /\ request'[r].reply = request[r].reply
        /\ request'[r].on = request[r].on
        /\ \/ request'[r].stage = request[r].stage
           \/ request'[r].stage = "gone"
        /\ request'[r].stage \notin {"received", "validated", "waiting"}
        /\ request'[r] \in Request
  BY <1>t DEF Restart, Request
<1>s. request' \in [Requests -> Request]
  BY <1>r, <1>t DEF Restart
<1>i. \A r \in Requests : /\ request[r].incarnation \in Nat
                          /\ request[r].incarnation <= incarnation
                          /\ request[r].incarnation # incarnation'
  BY <1>t, <1>u DEF RequestsInOrder, Request
<1>e. \A e \in effects : e.owner \in Requests /\ e.incarnation # incarnation'
  BY <1>i, <1>t DEF EffectsKept, TypeOK, Effect
<1>1. TypeOK'
  BY <1>t, <1>u, <1>s DEF TypeOK
<1>2. RequestsInOrder'
  BY <1>t, <1>u, <1>r, <1>i DEF RequestsInOrder, Keyed, Streamed
<1>3. OwnersHold' /\ OwnersUnique' /\ EntriesBacked'
  BY <1>u DEF OwnersHold, OwnersUnique, EntriesBacked
<1>4. WatchRecorded' /\ WaitersServed'
  BY <1>u, <1>r DEF WatchRecorded, WaitersServed
<1>5. EffectsKept'
  BY <1>u, <1>r, <1>e DEF EffectsKept
<1>6. AtMostOneEffect' /\ AnswersRecorded'
  BY <1>u, <1>r, <1>i DEF AtMostOneEffect, AnswersRecorded
<1>7. FaithfulReplay' /\ AnswersBacked' /\ ConflictIsReal'
  BY <1>u, <1>r
  DEF FaithfulReplay, AnswersBacked, ConflictIsReal, FromLedger, Authored
<1> QED BY <1>1, <1>2, <1>3, <1>4, <1>5, <1>6, <1>7

-----------------------------------------------------------------------------
(* The invariant holds                                                     *)

LEMMA InitEstablishes == Init => LedgerInv
<1> SUFFICES ASSUME Init PROVE LedgerInv
  OBVIOUS
<1> USE DEF Init
<1>1. /\ DOMAIN entries = {} /\ DOMAIN owners = {}
      /\ \A r \in Requests : watch[r] = "none"
      /\ incarnation = 1 /\ effects = {}
  BY DEF Nothing
<1>2. \A r \in Requests :
        /\ request[r] \in Request
        /\ request[r].stage = "new"
        /\ request[r].key = NoKey
        /\ request[r].on = r
        /\ request[r].reply = "none"
        /\ request[r].incarnation = 0
  <2>1. (CHOOSE b \in Bodies : TRUE) \in Bodies
    BY BodiesAssumption
  <2> QED BY <2>1 DEF Request
<1>3. TypeOK
  BY <1>1, <1>2, IncarnationsAssumption DEF TypeOK
<1>4. RequestsInOrder
  BY <1>1, <1>2 DEF RequestsInOrder
<1>5. OwnersHold /\ OwnersUnique /\ EntriesBacked
  BY <1>1 DEF OwnersHold, OwnersUnique, EntriesBacked
<1>6. WatchRecorded /\ WaitersServed /\ EffectsKept
  BY <1>1, <1>2 DEF WatchRecorded, WaitersServed, EffectsKept
<1>7. /\ AnswersRecorded /\ AtMostOneEffect
      /\ FaithfulReplay /\ AnswersBacked /\ ConflictIsReal
  BY <1>1, <1>2 DEF AnswersRecorded, AtMostOneEffect, FaithfulReplay,
                    AnswersBacked, ConflictIsReal, FromLedger
<1> QED BY <1>3, <1>4, <1>5, <1>6, <1>7 DEF LedgerInv

LEMMA StepPreserves == LedgerInv /\ [Next]_daemonVars => LedgerInv'
<1> SUFFICES ASSUME LedgerInv, [Next]_daemonVars PROVE LedgerInv'
  OBVIOUS
<1>1. ASSUME NEW r \in Requests, NEW k \in Keys \cup {NoKey}, NEW b \in Bodies,
             Receive(r, k, b)
      PROVE  LedgerInv'
  BY <1>1, ReceivePreserves
<1>2. CASE EnsureSubject
  BY <1>2, SubjectPreserves DEF EnsureSubject, ledgerVars
<1>3. ASSUME NEW r \in Requests, Handle(r)
      PROVE  LedgerInv'
  BY <1>3, RefuseMoves, ValidateMoves, GateOwnerPreserves, GateReplayMoves,
     GateConflictMoves, RunInlinePreserves, AnnouncePreserves, WakeMoves
  DEF Handle
<1>4. ASSUME NEW r \in Requests, Effectful(r)
      PROVE  LedgerInv'
  BY <1>4, AuthorPreserves, FinishPreserves DEF Effectful
<1>5. ASSUME NEW r \in Requests, Upload(r)
      PROVE  LedgerInv'
  BY <1>5, SelectCancelledPreserves, FinalizePreserves, UploadEndsPreserves
  DEF Upload
<1>6. ASSUME NEW r \in Requests, ConnectionLost(r)
      PROVE  LedgerInv'
  BY <1>6, LossMoves, UnkeyedLossPreserves
<1>7. CASE Restart
  BY <1>7, RestartPreserves
<1>8. CASE UNCHANGED daemonVars
  <2>1. subject' \in BOOLEAN
    BY <1>8 DEF daemonVars, LedgerInv, TypeOK
  <2> QED BY <1>8, <2>1, SubjectPreserves DEF daemonVars
<1> QED BY <1>1, <1>2, <1>3, <1>4, <1>5, <1>6, <1>7, <1>8 DEF Next, DaemonStep

\* The inductive invariant holds in every reachable state.
THEOREM LedgerInvariant == Spec => []LedgerInv
BY InitEstablishes, StepPreserves, PTL DEF Spec

-----------------------------------------------------------------------------
(* What the ledger promises                                                *)

\* Every variable keeps its type (DedupLedger and its owners).
THEOREM TypeCorrect == Spec => []TypeOK
<1>1. LedgerInv => TypeOK
  BY DEF LedgerInv
<1> QED BY <1>1, LedgerInvariant, PTL

\* However many requests carry one op_id, and however they overlap, lose their
\* connections, fail or are cancelled, a process authors at most one effect.
THEOREM EffectivelyOnce == Spec => []AtMostOneEffect
<1>1. LedgerInv => AtMostOneEffect
  BY DEF LedgerInv
<1> QED BY <1>1, LedgerInvariant, PTL

\* All requests of one key and body that gate_operation, LedgerWaiter::wait or a
\* replay answers in one process get the same reply.
THEOREM SameReply == Spec => []FaithfulReplay
<1>1. LedgerInv => FaithfulReplay
  BY DEF LedgerInv
<1> QED BY <1>1, LedgerInvariant, PTL

\* "ok" is answered only for an authored effect, "cancelled" only without one.
THEOREM AnswersTrue == Spec => []AnswersBacked
<1>1. LedgerInv => AnswersBacked
  BY DEF LedgerInv
<1> QED BY <1>1, LedgerInvariant, PTL

\* op_id_conflict is answered only against another, well-formed body.
THEOREM ConflictsReal == Spec => []ConflictIsReal
<1>1. LedgerInv => ConflictIsReal
  BY DEF LedgerInv
<1> QED BY <1>1, LedgerInvariant, PTL

\* A reserved key always has its one owner, and a joiner somebody to wait for.
THEOREM ReservationsOwned == Spec => []EveryReservationOwned
<1>1. LedgerInv => EveryReservationOwned
  <2> SUFFICES ASSUME LedgerInv PROVE EveryReservationOwned
    OBVIOUS
  <2>1. NoKey \notin DOMAIN entries
    BY KeysAssumption DEF LedgerInv, TypeOK
  <2>2. ASSUME NEW k \in DOMAIN entries, entries[k].state = "InFlight"
        PROVE  \E o \in DOMAIN owners :
                 /\ request[o].key = k
                 /\ owners[o].stage # "publishing"
                 /\ \A p \in DOMAIN owners : request[p].key = k => p = o
    <3>1. PICK o \in DOMAIN owners :
                 request[o].key = k /\ owners[o].stage # "publishing"
      BY <2>2 DEF LedgerInv, EntriesBacked
    <3>2. \A p \in DOMAIN owners : request[p].key = k => p = o
      BY <2>1, <3>1 DEF LedgerInv, OwnersUnique, Keyed
    <3> QED BY <3>1, <3>2
  <2>3. \A r \in Requests : request[r].stage = "waiting" =>
          request[r].on \in DOMAIN owners \/ watch[request[r].on] # "none"
    BY DEF LedgerInv, WaitersServed
  <2> QED BY <2>2, <2>3 DEF EveryReservationOwned
<1> QED BY <1>1, LedgerInvariant, PTL

\* After transfer.cancel selected an upload it never runs, and its record says so.
THEOREM CancellationsStick == Spec => []CancellationSticks
<1>1. LedgerInv => CancellationSticks
  BY DEF LedgerInv, EntriesBacked, CancellationSticks
<1> QED BY <1>1, LedgerInvariant, PTL

\* Every reply of the ledger is true of what the process did: ok has its effect,
\* cancelled has none and stays, op_id_conflict has another body behind it.
THEOREM RepliesAreTrue == Spec => []RepliesTrue
<1>1. AnswersBacked /\ ConflictIsReal /\ CancellationSticks => RepliesTrue
  BY DEF RepliesTrue
<1> QED BY <1>1, AnswersTrue, ConflictsReal, CancellationsStick, PTL

\* Nothing a process does changes or forgets a recorded reply: publish and
\* select_cancelled touch only keys that are in flight.
THEOREM RecordsFinal == Spec => RecordedIsFinal
<1> DEFINE Final == incarnation' = incarnation =>
              \A k \in DOMAIN entries :
                /\ k \in DOMAIN entries'
                /\ entries[k].state = "Done" => entries'[k] = entries[k]
<1>1. LedgerInv /\ [Next]_daemonVars => [Final]_daemonVars
  <2> SUFFICES ASSUME LedgerInv, [Next]_daemonVars PROVE Final
    OBVIOUS
  <2>1. ASSUME NEW r \in Requests, NEW v, r \in DOMAIN owners,
               request[r].key # NoKey, owners[r].stage # "publishing",
               Publish(r, v)
        PROVE  Final
    <3>1. entries[request[r].key].state # "Done"
      BY <2>1 DEF LedgerInv, OwnersHold, Keyed
    <3> QED BY <2>1, <3>1, InsertFacts DEF Publish
  <2>2. CASE entries' = entries
    BY <2>2
  <2>3. ASSUME NEW r \in Requests, GateOwner(r)
        PROVE  Final
    BY <2>3, InsertFacts DEF GateOwner, Recorded
  <2>4. ASSUME NEW r \in Requests, NEW v \in Recordable, Finish(r, v)
        PROVE  Final
    BY <2>1, <2>2, <2>4 DEF Finish, Running, Keyed
  <2>5. ASSUME NEW r \in Requests, SelectCancelled(r)
        PROVE  Final
    <3>1. entries[request[r].key].state # "Done"
      BY <2>5 DEF SelectCancelled, Uploading, LedgerInv, OwnersHold, Keyed
    <3> QED BY <2>5, <3>1 DEF SelectCancelled
  <2>6. ASSUME NEW r \in Requests, UploadEnds(r)
        PROVE  Final
    <3>1. /\ r \in DOMAIN owners /\ owners[r].stage \in {"uploading", "unaccepted"}
          /\ request[r].key # NoKey
      <4>1. r \in DOMAIN owners /\ owners[r].stage \in {"uploading", "unaccepted"}
        BY <2>6 DEF UploadEnds, Uploading, Unaccepted
      <4> QED BY <4>1 DEF LedgerInv, OwnersHold, Keyed
    <3>2. \/ Publish(r, Terminal(r, "transport_lost"))
          \/ Publish(r, Terminal(r, "refused"))
      BY <2>6 DEF UploadEnds
    <3>3. ASSUME NEW v, Publish(r, v) PROVE Final
      BY <2>1, <3>1, <3>3
    <3> QED BY <3>2, <3>3
  <2>7. CASE Restart
    <3>1. incarnation' # incarnation
      <4>1. incarnation \in Nat
        BY IncarnationsAssumption DEF LedgerInv, TypeOK
      <4>2. incarnation' = incarnation + 1
        BY <2>7 DEF Restart
      <4> QED BY <4>1, <4>2
    <3> QED BY <3>1
  <2>8. ASSUME NEW r \in Requests, DaemonStep(r)
        PROVE  Final
    BY <2>2, <2>3, <2>4, <2>5, <2>6, <2>8
    DEF DaemonStep, Handle, Effectful, Upload, Refuse, Validate, GateReplay,
        GateConflict, RunInline, Announce, Wake, Author, Finalize,
        ConnectionLost, ledgerVars
  <2> QED BY <2>2, <2>7, <2>8 DEF Next, Receive, EnsureSubject, ledgerVars, daemonVars
<1> QED BY <1>1, LedgerInvariant, PTL DEF Spec, RecordedIsFinal
=============================================================================
