------------------------------- MODULE Queues -------------------------------
(***************************************************************************)
(* The queues of ids that the client kernel keeps beside its tables.       *)
(***************************************************************************)
EXTENDS Naturals, Sequences

Elements(s) == {s[i] : i \in DOMAIN s}

\* VecDeque::retain(|x| x != c), for a queue that holds c at most once.
Without(s, c) ==
    IF c \in Elements(s)
    THEN LET i == CHOOSE j \in DOMAIN s : s[j] = c
         IN  SubSeq(s, 1, i - 1) \o SubSeq(s, i + 1, Len(s))
    ELSE s

\* No id is queued twice.
Distinct(s) == \A i, j \in DOMAIN s : s[i] = s[j] => i = j
=============================================================================
