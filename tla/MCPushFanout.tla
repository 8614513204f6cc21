---------------------------- MODULE MCPushFanout ----------------------------
(***************************************************************************)
(* PushFanout for TLC, and the loop of collect_committed as a fold, which  *)
(* New, Collected and Marked state in closed form.                         *)
(***************************************************************************)
EXTENDS PushFanout, SequencesExt, TLC

CONSTANTS pump, poll

\* One row of the loop over the tail.
Row(acc, id) ==
    LET rank == acc.rank
        next == [acc EXCEPT !.rank = rank + 1]
    IN  IF id \in acc.seen THEN next
        ELSE IF rank >= acc.next_push_rank
        THEN [next EXCEPT !.seen = @ \cup {id}, !.next_push_rank = rank + 1,
                          !.out = @ \cup {[id |-> id, pos |-> rank, gap |-> FALSE]}]
        ELSE [next EXCEPT !.seen = @ \cup {id}, !.next_push_rank = rank,
                          !.out = @ \cup {[id |-> id, pos |-> rank, gap |-> TRUE]}]

Looped(rows, s) ==
    FoldLeft(Row, [rank |-> 0, seen |-> s.seen, next_push_rank |-> s.next_push_rank, out |-> {}],
             rows)

\* The closed form is what the loop computes, for every tail of up to five
\* events, every subset of them seen and every mark.
ASSUME ClosedForm ==
    \A n \in 0 .. 5 : \A S \in SUBSET (1 .. n), mark \in 0 .. n :
        LET rows == [i \in 1 .. n |-> i]
            s == [seen |-> S, next_push_rank |-> mark]
            r == Looped(rows, s)
        IN  /\ r.out = Collected(rows, s)
            /\ [seen |-> r.seen, next_push_rank |-> r.next_push_rank] = Marked(rows, s)
=============================================================================
