------------------------------- MODULE Queues -------------------------------
(***************************************************************************)
(* What the queues of the connection need beyond the standard sequences.     *)
(***************************************************************************)
EXTENDS Integers, Sequences

\* retain(|x| x != e) on a queue that holds e at most once.
Without(seq, e) ==
  IF \E i \in DOMAIN seq : seq[i] = e
  THEN LET i == CHOOSE i \in DOMAIN seq : seq[i] = e
       IN  SubSeq(seq, 1, i - 1) \o SubSeq(seq, i + 1, Len(seq))
  ELSE seq

=============================================================================
