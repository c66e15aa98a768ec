------------------------------- MODULE BlkDev -------------------------------
(***************************************************************************)
(* The block layer: llrwab of fs/buf.cc locks buffers and queues them as   *)
(* requests of a disk (dev/blk/dev.cc, dev/blk/req.cc); the hard disk      *)
(* driver (dev/blk/hddev.cc) works the queue off in its interrupt handler, *)
(* one sector per interrupt.                                               *)
(*                                                                         *)
(* Code that runs with interrupts off is one step, or a run of steps with  *)
(* starting = TRUE in which nothing else happens.  A buffer stays with its *)
(* block here: callers of llrwab hold their buffers, and getb gives none   *)
(* that is held another block.                                             *)
(***************************************************************************)
EXTENDS Integers, Sequences, SequencesExt

CONSTANTS
  Task,
  Dev, NBLK,    \* the devices of the disk and the blocks of each
  SECTPERBLK,   \* sectors of a block (2 in the code)
  MAXSECT,      \* the drive's limit on one command (255 in the code)
  MAXBUFPERIO,  \* blocks of one call of llwriteb (32 in the code)
  PartSect,     \* sectors of each partition
  DriveFails    \* the drive may report errors

ASSUME BlkDevAssumption ==
  /\ SECTPERBLK \in Nat \ {0} /\ MAXSECT \in Nat /\ MAXSECT >= SECTPERBLK
  /\ DriveFails \in BOOLEAN
  /\ NBLK \in Nat /\ MAXBUFPERIO \in Nat

\* The buffers, each the pair <<dev, bno>> of its block.
Buf == Dev \X (0 .. NBLK - 1)

VARIABLES
  reqq,      \* blkdev_t::reqq; the request with cur = TRUE is curreq
  bstate,    \* buf_t::state
  locked,    \* the iolock of a buffer
  curisr,    \* hddev_t::curisr
  drive,     \* the drive's command: next sector, sectors left (0: none)
  starting,  \* docurreq is to be called; interrupts are off
  fell,      \* an outer docurreq is to set curisr to nullisr when this returns
  pc,        \* where a task is in llrwab or llreadb/llwriteb
  op, arr,   \* its arguments
  count,     \* llrwab's count
  got,       \* history: the sectors transferred of the buffers in requests
  erred      \* history: an I/O error has been reported

dev == <<reqq, bstate, locked, curisr, drive, starting, fell, got, erred>>
task == <<pc, op, arr, count>>
vars == <<dev, task>>

Elems(s) == {s[i] : i \in 1 .. Len(s)}
InReq(b) == \E i \in 1 .. Len(reqq) : b \in Elems(reqq[i].bufs)
Cur(q) == CHOOSE i \in 1 .. Len(q) : q[i].cur
HasCur(q) == \E i \in 1 .. Len(q) : q[i].cur
Sectors(b) == {<<b, k>> : k \in 0 .. SECTPERBLK - 1}

----------------------------------------------------------------------------
(* Requests. *)

\* req_t::req_t.
NewReq(cmd, b) ==
  [cmd |-> cmd, dev |-> b[1], startsect |-> b[2] * SECTPERBLK,
   nsect |-> SECTPERBLK, bufs |-> <<b>>, pos |-> 0, cur |-> FALSE]

\* req_t::merge: b follows or precedes the request's blocks.  setcur() puts
\* the position back to the first sector.
MayMerge(r, cmd, b) ==
  r.cmd = cmd /\ r.dev = b[1] /\ r.nsect + SECTPERBLK <= MAXSECT
Follows(r, b) == r.startsect + r.nsect = b[2] * SECTPERBLK
Precedes(r, b) == (b[2] + 1) * SECTPERBLK = r.startsect
Merges(r, cmd, b) == MayMerge(r, cmd, b) /\ (Follows(r, b) \/ Precedes(r, b))
Merged(r, b) ==
  IF Follows(r, b)
    THEN [r EXCEPT !.nsect = @ + SECTPERBLK, !.pos = 0, !.bufs = Append(@, b)]
    ELSE [r EXCEPT !.startsect = @ - SECTPERBLK, !.nsect = @ + SECTPERBLK,
                   !.pos = 0, !.bufs = <<b>> \o @]

\* The lists of blkdev_t::addreq: the first request b merges with, else a new
\* one in front of the first request that starts behind it.
AddReqAny(q, cmd, b) ==
  LET M == {i \in 1 .. Len(q) : Merges(q[i], cmd, b)}
      new == NewReq(cmd, b)
      L == {i \in 1 .. Len(q) : new.startsect < q[i].startsect}
      First(S) == CHOOSE i \in S : \A j \in S : i <= j
  IN  IF M # {} THEN [q EXCEPT ![First(M)] = Merged(@, b)]
      ELSE IF L # {} THEN InsertAt(q, First(L), new) ELSE Append(q, new)
AddReq(q, cmd, b) ==
  LET M == {i \in 1 .. Len(q) : ~q[i].cur /\ Merges(q[i], cmd, b)}
      new == NewReq(cmd, b)
      L == {i \in 1 .. Len(q) : new.startsect < q[i].startsect}
      First(S) == CHOOSE i \in S : \A j \in S : i <= j
  IN  IF M # {} THEN [q EXCEPT ![First(M)] = Merged(@, b)]
      ELSE IF L # {} THEN InsertAt(q, First(L), new) ELSE Append(q, new)

\* ~req_t.
EndedStateKeep(st, r) == [b \in Buf |-> IF b \in Elems(r.bufs) THEN "BCLEAN" ELSE st[b]]
EndedState(st, r) ==
  [b \in Buf |-> IF b \notin Elems(r.bufs) THEN st[b]
                 ELSE IF st[b] = "BERROR" THEN "BINVAL" ELSE "BCLEAN"]

\* blkdev_t::endcurreq: the request is disposed of, and the next one of the
\* queue, or its head after the last, becomes curreq.
NextCur(q) ==
  LET rest == RemoveAt(q, Cur(q))
      next == IF Cur(q) > Len(rest) THEN 1 ELSE Cur(q)
  IN  IF rest = << >> THEN rest ELSE [rest EXCEPT ![next].cur = TRUE]

EndCurReq(st) ==
  LET r == reqq[Cur(reqq)]
  IN  /\ reqq' = NextCur(reqq)
      /\ bstate' = EndedState(st, r)
      /\ locked' = [b \in Buf |-> locked[b] /\ b \notin Elems(r.bufs)]
      /\ got' = got \ UNION {Sectors(b) : b \in Elems(r.bufs)}

----------------------------------------------------------------------------
(* The driver. *)

Idle == [sect |-> 0, left |-> 0]

\* hddev_t::docurreq.  A request outside the partition is ended with errors,
\* which starts the next one from inside; when that returns, curisr is set to
\* nullisr.
InPartition(r) == r.startsect + r.nsect <= PartSect
DoCurReq ==
  /\ starting
  /\ LET r == reqq[Cur(reqq)]
     IN  IF InPartition(r)
           THEN /\ curisr' = IF fell THEN "nullisr" ELSE r.cmd
                /\ drive' = [sect |-> r.startsect, left |-> r.nsect]
                /\ starting' = FALSE /\ fell' = FALSE
                /\ UNCHANGED <<reqq, bstate, locked, got, erred>>
           ELSE /\ EndCurReq([b \in Buf |-> IF b \in Elems(r.bufs) THEN "BERROR"
                                            ELSE bstate[b]])
                /\ starting' = (Len(reqq) > 1)
                /\ fell' = starting'
                /\ curisr' = "nullisr"
                /\ erred' = TRUE
                /\ UNCHANGED drive
  /\ UNCHANGED task

\* The buffer and the sector of it the driver is at.
AtBuf(r) == r.bufs[(r.pos \div SECTPERBLK) + 1]
AtSector(r) == <<AtBuf(r), r.pos % SECTPERBLK>>

\* readisr and writeisr when the drive is well: one sector more.
Isr ==
  /\ ~starting /\ drive.left > 0 /\ curisr # "nullisr"
  /\ LET r == reqq[Cur(reqq)]
         moved == got \cup {AtSector(r)}
     IN  IF r.pos + 1 < r.nsect
           THEN /\ reqq' = [reqq EXCEPT ![Cur(reqq)].pos = @ + 1]
                /\ drive' = [sect |-> drive.sect + 1, left |-> drive.left - 1]
                /\ got' = moved
                /\ UNCHANGED <<bstate, locked, curisr, starting>>
           ELSE /\ EndCurReq(bstate)
                /\ drive' = Idle
                /\ curisr' = "nullisr"
                /\ starting' = (Len(reqq) > 1)
  /\ UNCHANGED <<fell, erred, task>>

\* They find an error: the sector is skipped and nothing else is done, at the
\* request's last sector too.  The drive gives the command up, or goes on.
IsrError ==
  /\ DriveFails /\ ~starting /\ drive.left > 0 /\ curisr # "nullisr"
  /\ LET r == reqq[Cur(reqq)]
     IN  /\ bstate' = [bstate EXCEPT ![AtBuf(r)] = "BERROR"]
         /\ reqq' = [reqq EXCEPT ![Cur(reqq)].pos = @ + 1]
         /\ drive' \in {Idle, [sect |-> drive.sect + 1, left |-> drive.left - 1]}
  /\ erred' = TRUE
  /\ UNCHANGED <<locked, curisr, starting, fell, got, task>>

\* nullisr: the interrupt is not served, and the drive waits.
NullIsr ==
  /\ ~starting /\ drive.left > 0 /\ curisr = "nullisr"
  /\ drive' = Idle
  /\ UNCHANGED <<reqq, bstate, locked, curisr, starting, fell, got, erred, task>>

----------------------------------------------------------------------------
(* Tasks. *)

\* llreadb and llwriteb are called, for one block or for a run of blocks in
\* ascending order (writeb).
Run(b, n) == [i \in 1 .. n |-> <<b[1], b[2] + i - 1>>]
Call(t, cmd, b, n) ==
  /\ ~starting /\ pc[t] = "out"
  /\ Elems(Run(b, n)) \subseteq Buf
  /\ cmd = "BREAD" => n = 1
  /\ pc' = [pc EXCEPT ![t] = "loop"]
  /\ op' = [op EXCEPT ![t] = cmd]
  /\ arr' = [arr EXCEPT ![t] = [todo |-> Run(b, n), wait |-> Run(b, n)]]
  /\ count' = [count EXCEPT ![t] = 0]
  /\ UNCHANGED dev

\* One turn of llrwab's loop: lock the buffer (waiting until it is unlocked),
\* and queue it if there is still something to transfer.
WantedAlways(t, b) == TRUE
Wanted(t, b) == bstate[b] = IF op[t] = "BREAD" THEN "BINVAL" ELSE "BDIRTY"
Lock(t) ==
  /\ ~starting /\ pc[t] = "loop" /\ arr[t].todo # << >>
  /\ LET buf == Head(arr[t].todo)
     IN  /\ ~locked[buf]
         /\ arr' = [arr EXCEPT ![t].todo = Tail(@)]
         /\ IF Wanted(t, buf)
              THEN /\ locked' = [locked EXCEPT ![buf] = TRUE]
                   /\ reqq' = AddReq(reqq, op[t], buf)
                   /\ count' = [count EXCEPT ![t] = @ + 1]
              ELSE UNCHANGED <<locked, reqq, count>>
  /\ UNCHANGED <<bstate, curisr, drive, starting, fell, got, erred, pc, op>>

\* blkdev_t::doreq at the end of llrwab: start the head of the queue if the
\* device is idle.
DoReqNever(t) ==
  /\ ~starting /\ pc[t] = "loop" /\ arr[t].todo = << >>
  /\ pc' = [pc EXCEPT ![t] = "wait"]
  /\ UNCHANGED <<dev, op, arr, count>>
DoReq(t) ==
  /\ ~starting /\ pc[t] = "loop" /\ arr[t].todo = << >>
  /\ pc' = [pc EXCEPT ![t] = "wait"]
  /\ IF count[t] = 0 \/ reqq = << >> \/ HasCur(reqq)
       THEN UNCHANGED <<reqq, starting>>
       ELSE reqq' = [reqq EXCEPT ![1].cur = TRUE] /\ starting' = TRUE
  /\ UNCHANGED <<bstate, locked, curisr, drive, fell, got, erred, op, arr, count>>

\* The loop of llreadb and llwriteb that waits for each buffer.
Wait(t) ==
  /\ ~starting /\ pc[t] = "wait"
  /\ IF arr[t].wait = << >>
       THEN pc' = [pc EXCEPT ![t] = "out"] /\ UNCHANGED arr
       ELSE /\ ~locked[Head(arr[t].wait)]
            /\ arr' = [arr EXCEPT ![t].wait = Tail(@)]
            /\ UNCHANGED pc
  /\ UNCHANGED <<dev, op, count>>

\* buf_t::lose2, by any holder: the buffer may be locked for output.
BeingRead(b) ==
  \E i \in 1 .. Len(reqq) : reqq[i].cmd = "BREAD" /\ b \in Elems(reqq[i].bufs)
Dirty(b) ==
  /\ ~starting /\ ~BeingRead(b)
  /\ bstate' = [bstate EXCEPT ![b] = "BDIRTY"]
  /\ UNCHANGED <<reqq, locked, curisr, drive, starting, fell, got, erred, task>>

----------------------------------------------------------------------------
Init ==
  /\ reqq = << >>
  /\ bstate = [b \in Buf |-> "BINVAL"]
  /\ locked = [b \in Buf |-> FALSE]
  /\ curisr = "nullisr" /\ drive = Idle /\ starting = FALSE /\ fell = FALSE
  /\ pc = [t \in Task |-> "out"]
  /\ op = [t \in Task |-> "BREAD"]
  /\ arr = [t \in Task |-> [todo |-> << >>, wait |-> << >>]]
  /\ count = [t \in Task |-> 0]
  /\ got = {} /\ erred = FALSE

TaskStep(t) == Lock(t) \/ DoReq(t) \/ Wait(t)
DiskStep == DoCurReq \/ Isr \/ IsrError \/ NullIsr
Next ==
  \/ DiskStep
  \/ \E t \in Task : TaskStep(t)
  \/ \E t \in Task, cmd \in {"BREAD", "BWRITE"}, b \in Buf, n \in 1 .. MAXBUFPERIO :
       Call(t, cmd, b, n)
  \/ \E b \in Buf : Dirty(b)

Spec == Init /\ [][Next]_vars

\* The drive answers every command, and a task that can go on does.
FairSpec == Spec /\ WF_vars(DiskStep) /\ \A t \in Task : WF_vars(TaskStep(t))

----------------------------------------------------------------------------
(* Properties. *)

Req == [cmd : {"BREAD", "BWRITE"}, dev : Dev, startsect : Nat,
        nsect : 0 .. MAXSECT, bufs : Seq(Buf), pos : 0 .. MAXSECT, cur : BOOLEAN]

\* Every variable keeps its type; no request exceeds the drive's limit, which
\* docurreq alleges.
TypeOK ==
  /\ reqq \in Seq(Req)
  /\ bstate \in [Buf -> {"BINVAL", "BCLEAN", "BDIRTY", "BERROR"}]
  /\ locked \in [Buf -> BOOLEAN]
  /\ curisr \in {"nullisr", "BREAD", "BWRITE"}
  /\ drive \in [sect : Nat, left : 0 .. MAXSECT]
  /\ starting \in BOOLEAN /\ fell \in BOOLEAN
  /\ pc \in [Task -> {"out", "loop", "wait"}]
  /\ op \in [Task -> {"BREAD", "BWRITE"}]
  /\ arr \in [Task -> [todo : Seq(Buf), wait : Seq(Buf)]]
  /\ count \in [Task -> 0 .. MAXBUFPERIO]
  /\ erred \in BOOLEAN
  /\ got \subseteq Buf \X (0 .. SECTPERBLK - 1)

\* A buffer is locked exactly while it is in the queue, and then it is in one
\* request, once: no buffer is transferred twice, none stays locked behind.
LockedIffQueued ==
  \A b \in Buf :
    LET At == {ij \in (1 .. Len(reqq)) \X (1 .. MAXSECT) :
                 ij[2] <= Len(reqq[ij[1]].bufs) /\ reqq[ij[1]].bufs[ij[2]] = b}
    IN  IF locked[b] THEN \E x \in At : At = {x} ELSE At = {}

\* After any sequence of merges at both ends a request's buffers are those of
\* its sectors, in their order, all of its sectors are theirs, and the drive
\* can take it in one command (docurreq's allege).
RequestCoversBuffers ==
  \A i \in 1 .. Len(reqq) :
    LET r == reqq[i]
    IN  /\ r.nsect = SECTPERBLK * Len(r.bufs) /\ r.nsect <= MAXSECT
        /\ \A k \in 1 .. Len(r.bufs) :
             /\ r.bufs[k][1] = r.dev
             /\ r.bufs[k][2] * SECTPERBLK = r.startsect + (k - 1) * SECTPERBLK

\* While an interrupt of a command is to come, the driver is at the sector the
\* drive is at, in the request the command was given for: every sector is
\* copied to the place in the buffers it belongs to.
DriveInStep ==
  drive.left > 0 /\ ~starting =>
    /\ HasCur(reqq)
    /\ LET r == reqq[Cur(reqq)]
       IN  /\ drive.sect = r.startsect + r.pos
           /\ drive.left = r.nsect - r.pos
           /\ curisr \in {"nullisr", r.cmd}

\* The queue is not forgotten: if the device has requests and works on none of
\* them, some task is still inside llrwab and will call doreq().
QueueIsKicked ==
  reqq # << >> /\ ~HasCur(reqq) => \E t \in Task : pc[t] = "loop" /\ count[t] > 0

\* Locks, requests, the device's attention and the drive's place agree at every
\* interrupt.
QueueConsistent == LockedIffQueued /\ RequestCoversBuffers /\ QueueIsKicked /\ DriveInStep

\* The contents of a buffer count as valid after a read only if each of its
\* sectors was read: an error on any of them, or a request refused by
\* docurreq, makes it BINVAL.
ReadIsComplete ==
  [][\A b \in Buf : BeingRead(b) /\ bstate'[b] = "BCLEAN" =>
       \A s \in Sectors(b) : s \in got \/ s = AtSector(reqq[Cur(reqq)])]_vars

\* Each buffer handed to the device is unlocked in the end, however many other
\* requests come in and whatever the tasks in llrwab wait for, while the device
\* reports no error: after one the next request may be started with nullisr.
IoEndsIfWell == \A b \in Buf : (locked[b] /\ ~erred) ~> (~locked[b] \/ erred)

\* The block layer as the buffer cache sees it: BERROR is not visible outside.
Io(b) ==
  IF InReq(b)
    THEN reqq[CHOOSE i \in 1 .. Len(reqq) : b \in Elems(reqq[i].bufs)].cmd
    ELSE "free"
Abstract == INSTANCE BlockIO WITH
  io <- [b \in Buf |-> Io(b)],
  bstate <- [b \in Buf |-> IF bstate[b] # "BERROR" THEN bstate[b]
                            ELSE IF Io(b) = "BREAD" THEN "BINVAL" ELSE "BDIRTY"]

\* The queue, its merges and the interrupt-driven transfers implement BlockIO.
ImplementsBlockIO == Abstract!Spec
=============================================================================
