------------------------------ MODULE BlockIO ------------------------------
(***************************************************************************)
(* What the block layer promises the buffer cache: a buffer that is handed *)
(* to a device stays locked until its transfer ends, and comes back either *)
(* clean or invalid.  Module BlkDev (dev/blk and llrwab of fs/buf.cc)      *)
(* implements it.                                                          *)
(***************************************************************************)
EXTENDS FiniteSets

CONSTANTS Buf

VARIABLES
  io,      \* the transfer a buffer is in: "free" (unlocked), "BREAD", "BWRITE"
  bstate   \* buf_t::state

vars == <<io, bstate>>

Cmd == {"BREAD", "BWRITE"}
BState == {"BINVAL", "BCLEAN", "BDIRTY"}

\* Only an invalid buffer is read, only a dirty one is written.
Submit(b, cmd) ==
  /\ io[b] = "free"
  /\ bstate[b] = IF cmd = "BREAD" THEN "BINVAL" ELSE "BDIRTY"
  /\ io' = [io EXCEPT ![b] = cmd]
  /\ UNCHANGED bstate

\* The buffers of one request are given back together; each of them is clean,
\* or invalid after an error.
Complete(S) ==
  /\ S # {}
  /\ \E cmd \in Cmd : \A b \in S : io[b] = cmd
  /\ io' = [b \in Buf |-> IF b \in S THEN "free" ELSE io[b]]
  /\ \E bad \in SUBSET S :
       bstate' = [b \in Buf |-> IF b \in bad THEN "BINVAL"
                                ELSE IF b \in S THEN "BCLEAN" ELSE bstate[b]]

\* A holder changes the contents; the buffer may be under output meanwhile.
Dirty(b) ==
  /\ io[b] # "BREAD"
  /\ bstate' = [bstate EXCEPT ![b] = "BDIRTY"]
  /\ UNCHANGED io

Init ==
  /\ io = [b \in Buf |-> "free"]
  /\ bstate = [b \in Buf |-> "BINVAL"]

Next ==
  \/ \E b \in Buf : Dirty(b) \/ \E cmd \in Cmd : Submit(b, cmd)
  \/ \E S \in SUBSET Buf : Complete(S)

Spec == Init /\ [][Next]_vars
=============================================================================
