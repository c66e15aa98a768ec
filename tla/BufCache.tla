------------------------------ MODULE BufCache ------------------------------
(***************************************************************************)
(* The buffer cache of fs/buf.cc over the block layer as module BlockIO    *)
(* promises it: getb gives the buffers of the free list, least recently    *)
(* used first, to the blocks that are asked for; readb, writeb and syncb   *)
(* move them to and from the disk.                                         *)
(*                                                                         *)
(* The kernel is not preempted: a task keeps the processor (curr) until it *)
(* sleeps or leaves, and only the disk's interrupt comes in between.  Each *)
(* turn of getb's scan is one step.  Contents are version numbers: last[n] *)
(* is the newest one that a holder of block n has put into its buffer.     *)
(***************************************************************************)
EXTENDS Integers, Sequences, SequencesExt, FiniteSets

CONSTANTS
  BufTask,
  Nobody,       \* not a task
  Buf,
  Block,        \* block numbers of the one device
  NoBlock,      \* the null device's block a buffer has at first
  CANDIDATES,   \* getb's candidates (8 in the code)
  CLUSTER,      \* half of MAXBUFPERIO: the places in writeb's array left of core
  MaxVersion,   \* bound: changes of one block
  MaxCalls      \* bound: calls by all tasks

ASSUME BufAssumption ==
  /\ IsFiniteSet(BufTask) /\ IsFiniteSet(Buf) /\ Nobody \notin BufTask
  /\ Block \subseteq Int /\ NoBlock \in Int \ Block
  /\ CANDIDATES \in Nat /\ CLUSTER \in Nat \ {0}

VARIABLES
  blk, bstate, refcnt, freeq,   \* buf_t::bno, state and refcnt; the free list
  io,       \* the transfer the buffer is locked for, or "free"
  data,     \* the version a buffer's data is
  disk,     \* the version of each block on the disk
  last,     \* history: the newest version of each block
  excused,  \* history: blocks changed during a transfer, or hit by an error
  curr, tpc, call, ncall        \* see Call

contents == <<data, disk, last, excused>>
cache == <<blk, bstate, refcnt, freeq, io, data, disk, last, excused>>
bufvars == <<cache, curr, tpc, call, ncall>>

Dev == INSTANCE BlockIO

\* findb.  The hash queues hold every buffer once, under its block.
Findb(n) == {b \in Buf : blk[b] = n}
Locked(b) == io[b] # "free"

\* buf_t::hold for the buffers of S, and lose, which puts a buffer that nobody
\* holds any more at the end of the free list; unlink takes it out.
Held(S) == [b \in Buf |-> refcnt[b] + IF b \in S THEN 1 ELSE 0]
Dropped(b) == [refcnt EXCEPT ![b] = @ - 1]
Freed(b) == IF refcnt[b] = 1 /\ ~Contains(freeq, b) THEN Append(freeq, b) ELSE freeq
Unlinked(b) ==
  IF Contains(freeq, b) THEN RemoveAt(freeq, CHOOSE i \in DOMAIN freeq : freeq[i] = b) ELSE freeq

\* What a task does in the cache: the call, its block, the buffer it has or
\* waits for, getb's candidates and position, writeb's cluster, and the
\* buffers syncb has still to visit.
Rest == [op |-> "none", bno |-> NoBlock, buf |-> {}, cand |-> 0, pos |-> 1,
         todo |-> << >>, cluster |-> << >>, left |-> {}]
BufGoto(t, l) == tpc' = [tpc EXCEPT ![t] = l]
BufCall(t, c) == call' = [call EXCEPT ![t] = c]
Runs(t, l) == curr = t /\ tpc[t] = l
\* The task sleeps in iolock_t::wait until the buffer is unlocked.
Buffer(t) == CHOOSE b \in call[t].buf : TRUE

Enter(t, op, n) ==
  /\ curr = Nobody /\ tpc[t] = "out" /\ ncall < MaxCalls
  /\ curr' = t
  /\ ncall' = ncall + 1
  /\ BufCall(t, [Rest EXCEPT !.op = op, !.bno = n, !.cand = CANDIDATES,
                          !.left = IF op = "sync" THEN Buf ELSE {}])
  /\ BufGoto(t, IF op = "sync" THEN "sync" ELSE "repeat")
  /\ UNCHANGED cache

\* getb, label repeat: a hit is held at once, and unlinked from the free list
\* when it is unlocked.
Repeat(t) ==
  /\ Runs(t, "repeat")
  /\ LET hit == Findb(call[t].bno)
     IN  IF hit # {}
           THEN /\ refcnt' = Held(hit)
                /\ BufCall(t, [call[t] EXCEPT !.buf = hit])
                /\ BufGoto(t, "hit")
           ELSE /\ BufCall(t, [call[t] EXCEPT !.pos = 1])
                /\ BufGoto(t, "scan")
                /\ UNCHANGED refcnt
  /\ UNCHANGED <<blk, bstate, freeq, io, contents, curr, ncall>>

BufHit(t) ==
  /\ tpc[t] = "hit" /\ curr \in {t, Nobody}
  /\ IF Locked(Buffer(t))
       THEN curr = t /\ curr' = Nobody /\ UNCHANGED <<freeq, tpc>>
       ELSE /\ curr' = t
            /\ freeq' = Unlinked(Buffer(t))
            /\ BufGoto(t, "got")
  /\ UNCHANGED <<blk, bstate, refcnt, io, contents, call, ncall>>

\* The unheld buffer at the scan's position is given to the block.
TakeBuf(t, b) ==
  /\ refcnt' = Held({b})
  /\ freeq' = Unlinked(b)
  /\ bstate' = [bstate EXCEPT ![b] = "BINVAL"]
  /\ blk' = [blk EXCEPT ![b] = call[t].bno]
  /\ BufCall(t, [call[t] EXCEPT !.buf = {b}])
  /\ BufGoto(t, "got")
  /\ UNCHANGED curr

\* writeb: core and the dirty, unlocked buffers of the blocks around it, as far
\* as there is room in the array.
Ideal(n) == \E b \in Findb(n) : ~Locked(b) /\ bstate[b] = "BDIRTY"
Reach(b, d, room) ==
  CHOOSE k \in 0 .. room : /\ \A i \in 1 .. k : Ideal(blk[b] + d * i)
                           /\ k = room \/ ~Ideal(blk[b] + d * (k + 1))
Cluster(b) ==
  LET left == Reach(b, -1, CLUSTER)
      right == Reach(b, 1, CLUSTER - 1)
  IN  [i \in 1 .. left + 1 + right |->
         IF i = left + 1 THEN b ELSE CHOOSE x \in Findb(blk[b] - left - 1 + i) : TRUE]
Writeb(t, b, c) ==
  /\ refcnt' = [e \in Buf |-> refcnt[e] + (IF e = b THEN 1 ELSE 0)
                                        + (IF Contains(Cluster(b), e) THEN 1 ELSE 0)]
  /\ BufCall(t, [c EXCEPT !.buf = {b}, !.cluster = Cluster(b), !.todo = Cluster(b)])

NeverInUse(b) == FALSE
InUse(b) == refcnt[b] > 0

\* One turn of getb's loop over the free list.
Scan(t) ==
  /\ Runs(t, "scan")
  /\ LET at == call[t].pos
         next == [call[t] EXCEPT !.pos = at + 1]
         cand == IF call[t].cand > 0 THEN call[t].cand - 1 ELSE 0
     IN  IF at > Len(freeq)
           THEN BufGoto(t, "panic") /\ UNCHANGED <<cache, curr, call>>
           ELSE LET b == freeq[at] IN
                IF InUse(b) THEN BufCall(t, next) /\ UNCHANGED <<cache, curr, tpc>>
                ELSE IF Locked(b) /\ cand > 0
                  THEN BufCall(t, [next EXCEPT !.cand = cand]) /\ UNCHANGED <<cache, curr, tpc>>
                ELSE IF Locked(b)
                  THEN /\ BufCall(t, [next EXCEPT !.cand = cand, !.buf = {b}])
                       /\ BufGoto(t, "waitany") /\ curr' = Nobody /\ UNCHANGED cache
                ELSE IF bstate[b] = "BDIRTY"
                  THEN /\ Writeb(t, b, [call[t] EXCEPT !.cand = cand])
                       /\ BufGoto(t, "submit")
                       /\ UNCHANGED <<blk, bstate, freeq, io, contents, curr>>
                ELSE TakeBuf(t, b) /\ UNCHANGED <<io, contents>>
  /\ UNCHANGED ncall

AfterSleepScan == "scan"
\* getb slept: it starts again at the label repeat.
AfterSleep == "repeat"

\* The buffer it slept for is not held.
Again(t) ==
  /\ curr = Nobody /\ tpc[t] = "waitany" /\ ~Locked(Buffer(t))
  /\ curr' = t /\ BufGoto(t, AfterSleep)
  /\ BufCall(t, [call[t] EXCEPT !.buf = {}])
  /\ UNCHANGED <<cache, ncall>>

Wanted(b) == bstate[b] = "BDIRTY"

\* llrwab(BWRITE): lock the next buffer, sleeping until it is unlocked, and
\* hand it to the device if it is still dirty.
Submit(t) ==
  /\ tpc[t] = "submit" /\ curr \in {t, Nobody}
  /\ IF call[t].todo = << >>
       THEN /\ curr' = t
            /\ BufCall(t, [call[t] EXCEPT !.todo = call[t].cluster])
            /\ BufGoto(t, "written") /\ UNCHANGED cache
       ELSE LET b == Head(call[t].todo) IN
            /\ UNCHANGED <<blk, refcnt, freeq, contents, tpc>>
            /\ IF Locked(b)
                 THEN curr = t /\ curr' = Nobody /\ UNCHANGED <<io, bstate, call>>
                 ELSE /\ curr' = t
                      /\ BufCall(t, [call[t] EXCEPT !.todo = Tail(@)])
                      /\ IF Wanted(b)
                           THEN Dev!Submit(b, "BWRITE") ELSE UNCHANGED <<io, bstate>>
  /\ UNCHANGED ncall

\* llwriteb waits for each of them.
WaitWritten(t) ==
  /\ tpc[t] = "written" /\ curr \in {t, Nobody}
  /\ IF call[t].todo = << >>
       THEN curr' = t /\ BufGoto(t, "losing") /\ UNCHANGED call
       ELSE /\ IF Locked(Head(call[t].todo))
                 THEN curr = t /\ curr' = Nobody /\ UNCHANGED call
                 ELSE curr' = t /\ BufCall(t, [call[t] EXCEPT !.todo = Tail(@)])
            /\ UNCHANGED tpc
  /\ UNCHANGED <<cache, ncall>>

\* writeb loses its cluster, one buffer after the other.
LoseCluster(t) ==
  /\ Runs(t, "losing")
  /\ IF call[t].cluster = << >>
       THEN BufGoto(t, "core") /\ UNCHANGED <<refcnt, freeq, call>>
       ELSE LET b == Head(call[t].cluster) IN
            /\ refcnt' = Dropped(b) /\ freeq' = Freed(b)
            /\ BufCall(t, [call[t] EXCEPT !.cluster = Tail(@)])
            /\ UNCHANGED tpc
  /\ UNCHANGED <<blk, bstate, io, contents, curr, ncall>>

\* Then the caller loses its buffer: getb, which waits for it once more when
\* it is out of candidates, starts again; syncb goes to the next buffer and
\* lets others run (prempt).
Core(t) ==
  /\ tpc[t] = "core" /\ curr \in {t, Nobody}
  /\ IF call[t].op # "sync" /\ call[t].cand = 0 /\ Locked(Buffer(t))
       THEN curr = t /\ curr' = Nobody /\ UNCHANGED <<cache, call, tpc>>
       ELSE /\ refcnt' = Dropped(Buffer(t))
            /\ freeq' = Freed(Buffer(t))
            /\ BufCall(t, [call[t] EXCEPT !.buf = {}])
            /\ IF call[t].op = "sync" THEN BufGoto(t, "sync") /\ curr' = Nobody
                                      ELSE BufGoto(t, AfterSleep) /\ curr' = t
            /\ UNCHANGED <<blk, bstate, io, contents>>
  /\ UNCHANGED ncall

\* syncb visits every buffer of allq.
Syncb(t) ==
  /\ tpc[t] = "sync" /\ curr \in {t, Nobody}
  /\ IF call[t].left = {}
       THEN /\ curr' = Nobody /\ BufGoto(t, "out") /\ BufCall(t, Rest)
            /\ UNCHANGED refcnt
       ELSE LET b == CHOOSE e \in call[t].left : TRUE
                c == [call[t] EXCEPT !.left = @ \ {b}]
            IN  IF blk[b] = NoBlock
                  THEN curr' = Nobody /\ BufCall(t, c) /\ UNCHANGED <<refcnt, tpc>>
                  ELSE curr' = t /\ Writeb(t, b, c) /\ BufGoto(t, "submit")
  /\ UNCHANGED <<blk, bstate, freeq, io, contents, ncall>>

\* buf_t::lose by the holder, who leaves the cache.
Leave(t) ==
  /\ curr' = Nobody /\ BufGoto(t, "out") /\ BufCall(t, Rest)
  /\ refcnt' = Dropped(Buffer(t))
  /\ freeq' = Freed(Buffer(t))

\* getb has returned.  readb reads an invalid buffer (llreadb) and waits,
\* reada2 does not wait (llreadab) and loses it at once; a getb for a block
\* that is to be overwritten reads nothing.
Got(t) ==
  /\ Runs(t, "got")
  /\ IF call[t].op # "get" /\ bstate[Buffer(t)] = "BINVAL"
       THEN Dev!Submit(Buffer(t), "BREAD") ELSE UNCHANGED <<io, bstate>>
  /\ CASE call[t].op = "ahead" -> Leave(t)
       [] call[t].op = "read" /\ bstate[Buffer(t)] = "BINVAL" ->
            BufGoto(t, "reading") /\ curr' = Nobody /\ UNCHANGED <<refcnt, freeq, call>>
       [] OTHER -> BufGoto(t, "have") /\ UNCHANGED <<curr, refcnt, freeq, call>>
  /\ UNCHANGED <<blk, contents, ncall>>

\* llreadb returns; a buffer that is still invalid had an I/O error.
BufRead(t) ==
  /\ tpc[t] = "reading" /\ curr = Nobody /\ ~Locked(Buffer(t))
  /\ IF bstate[Buffer(t)] = "BINVAL"
       THEN Leave(t)
       ELSE curr' = t /\ BufGoto(t, "have") /\ UNCHANGED <<refcnt, freeq, call>>
  /\ UNCHANGED <<blk, bstate, io, contents, ncall>>

\* The holder sleeps for something else and comes back.
Pause(t) ==
  /\ tpc[t] = "have"
  /\ \/ curr = t /\ curr' = Nobody
     \/ curr = Nobody /\ curr' = t
  /\ UNCHANGED <<cache, tpc, call, ncall>>

\* The holder is done with the buffer: lose, or a change and lose2.
LoseBuf(t) ==
  /\ Runs(t, "have") /\ bstate[Buffer(t)] # "BINVAL" /\ Leave(t)
  /\ UNCHANGED <<blk, bstate, io, contents, ncall>>

Change(t) ==
  /\ Runs(t, "have") /\ last[call[t].bno] < MaxVersion
  /\ LET b == Buffer(t)
         n == call[t].bno
     IN  /\ last' = [last EXCEPT ![n] = @ + 1]
         /\ data' = [data EXCEPT ![b] = last[n] + 1]
         /\ bstate' = [bstate EXCEPT ![b] = "BDIRTY"]
         /\ excused' = IF Locked(b) THEN excused \cup {n} ELSE excused
  /\ Leave(t)
  /\ UNCHANGED <<blk, io, disk, ncall>>

\* The transfer of a buffer ends (~req_t): the disk or the buffer has the
\* other's contents, or an error leaves the buffer invalid.
Complete(b) ==
  /\ Dev!Complete({b})
  /\ LET n == blk[b]
     IN  \/ /\ bstate'[b] = "BCLEAN"
            /\ IF io[b] = "BWRITE"
                 THEN disk' = [disk EXCEPT ![n] = data[b]] /\ UNCHANGED data
                 ELSE data' = [data EXCEPT ![b] = disk[n]] /\ UNCHANGED disk
            /\ UNCHANGED excused
         \/ /\ bstate'[b] = "BINVAL"
            /\ excused' = IF io[b] = "BWRITE" THEN excused \cup {n} ELSE excused
            /\ UNCHANGED <<data, disk>>
  /\ UNCHANGED <<blk, refcnt, freeq, last, curr, tpc, call, ncall>>

BufInit ==
  /\ blk = [b \in Buf |-> NoBlock] /\ bstate = [b \in Buf |-> "BINVAL"]
  /\ refcnt = [b \in Buf |-> 0] /\ freeq = SetToSeq(Buf)
  /\ io = [b \in Buf |-> "free"] /\ data = [b \in Buf |-> 0]
  /\ disk = [n \in Block |-> 0] /\ last = [n \in Block |-> 0] /\ excused = {}
  /\ curr = Nobody /\ tpc = [t \in BufTask |-> "out"]
  /\ call = [t \in BufTask |-> Rest] /\ ncall = 0

BufStep(t) ==
  \/ Repeat(t) \/ BufHit(t) \/ Scan(t) \/ Again(t) \/ Submit(t) \/ WaitWritten(t)
  \/ LoseCluster(t) \/ Core(t) \/ Syncb(t) \/ Got(t) \/ BufRead(t) \/ LoseBuf(t) \/ Change(t)

BufNext ==
  \/ \E t \in BufTask : BufStep(t) \/ Pause(t)
  \/ \E t \in BufTask, n \in Block, op \in {"read", "ahead", "get", "sync"} : Enter(t, op, n)
  \/ \E b \in Buf : Complete(b)

BufSpec == BufInit /\ [][BufNext]_bufvars

----------------------------------------------------------------------------
(* Properties. *)

\* Caching is invisible: the newest contents of a block are in its one buffer
\* if that is dirty, else on the disk too, whatever was evicted, written in
\* clusters, synced or read again meanwhile; only a change made during a
\* transfer of the block, or a failed write, may lose them.
NewestIsKept ==
  \A n \in Block \ excused :
    LET at == Findb(n)
    IN  /\ Cardinality(at) <= 1
        /\ \/ disk[n] = last[n] /\ \A b \in at : bstate[b] = "BCLEAN" => data[b] = last[n]
           \/ \E b \in at : bstate[b] = "BDIRTY" /\ data[b] = last[n]

\* A buffer keeps its block while somebody holds it or the disk works on it:
\* getb, which sleeps and starts again, never gives such a buffer away.
HeldKeepsBlock ==
  [][\A b \in Buf : blk'[b] # blk[b] =>
       /\ refcnt[b] = 0 /\ io[b] = "free" /\ bstate[b] # "BDIRTY"
       /\ \A t \in BufTask : b \in call[t].buf => tpc[t] = "waitany"]_bufvars
=============================================================================
