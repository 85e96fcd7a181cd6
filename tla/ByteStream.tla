----------------------------- MODULE ByteStream -----------------------------
(***************************************************************************)
(* What one direction of a muxtls stream promises its two applications: the  *)
(* bytes accepted from the writer come out in order, each once, and the      *)
(* reader learns how the direction ended.  Byte k is the k-th accepted one.  *)
(***************************************************************************)
EXTENDS Integers, Sequences

VARIABLES
  accepted,  \* how many bytes the sending side has accepted
  ending,    \* how the sender has ended the direction
  read,      \* the bytes returned to the reader
  outcome    \* what the reader has been told of the end

vars == <<accepted, ending, read, outcome>>

Init ==
  /\ accepted = 0 /\ ending = "open"
  /\ read = <<>> /\ outcome = "none"

\* A direction that has been reset may still swallow bytes; after FIN none is
\* accepted.
Accept ==
  /\ ending # "fin"
  /\ \E n \in 1..(accepted' - accepted) : accepted' = accepted + n
  /\ UNCHANGED <<ending, read, outcome>>

Finish ==
  /\ ending = "open"
  /\ ending' = "fin"
  /\ UNCHANGED <<accepted, read, outcome>>

\* A reset may overtake bytes and a FIN, but not an end the reader has seen.
Reset ==
  /\ ending # "reset" /\ outcome = "none"
  /\ ending' = "reset"
  /\ UNCHANGED <<accepted, read, outcome>>

\* The next bytes, no more than were accepted, while the end is not known.
Read ==
  /\ outcome = "none"
  /\ \E n \in 1..(accepted - Len(read)) :
       read' = read \o [i \in 1..n |-> Len(read) + i]
  /\ UNCHANGED <<accepted, ending, outcome>>

\* End of file is reported for a finished direction, after its last byte.
ReadEnd ==
  /\ outcome = "none"
  /\ ending = "fin" /\ Len(read) = accepted
  /\ outcome' = "eof"
  /\ UNCHANGED <<accepted, ending, read>>

ReadReset ==
  /\ outcome = "none" /\ ending = "reset"
  /\ outcome' = "reset"
  /\ UNCHANGED <<accepted, ending, read>>

Next == Accept \/ Finish \/ Reset \/ Read \/ ReadEnd \/ ReadReset

Spec == Init /\ [][Next]_vars

=============================================================================
