------------------------------- MODULE Stream -------------------------------
(***************************************************************************)
(* What a stream connection promises its two ends: each reads the bytes    *)
(* the other has written, in that order and each of them once, and is told *)
(* of the end only after the other has shut down and all was read.         *)
(***************************************************************************)
EXTENDS Integers, Sequences

CONSTANTS End, Peer(_)

VARIABLES
  sent,   \* how many bytes an end has written; the n-th is the number n
  got,    \* the bytes it has read
  shut,   \* the ends that have shut down
  eof     \* the ends that were told of the other's end

streamvars == <<sent, got, shut, eof>>

Write(e) == e \notin shut /\ sent' = [sent EXCEPT ![e] = @ + 1] /\ UNCHANGED <<got, shut, eof>>
Read(e) ==
  /\ Len(got[e]) < sent[Peer(e)]
  /\ got' = [got EXCEPT ![e] = Append(@, Len(@) + 1)]
  /\ UNCHANGED <<sent, shut, eof>>
Shut(e) == shut' = shut \cup {e} /\ UNCHANGED <<sent, got, eof>>
ReadEnd(e) ==
  /\ Peer(e) \in shut /\ Len(got[e]) = sent[Peer(e)]
  /\ eof' = eof \cup {e} /\ UNCHANGED <<sent, got, shut>>

StreamInit ==
  sent = [e \in End |-> 0] /\ got = [e \in End |-> << >>] /\ shut = {} /\ eof = {}
StreamNext == \E e \in End : Write(e) \/ Read(e) \/ Shut(e) \/ ReadEnd(e)
StreamSpec == StreamInit /\ [][StreamNext]_streamvars
=============================================================================
