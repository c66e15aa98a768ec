------------------------------- MODULE ICache -------------------------------
(***************************************************************************)
(* The inode cache of fs/icache.cc with the inode bitmap of fs/fs.cc, the  *)
(* release of files without links (inode_t::lose and truncate) and the     *)
(* unmounting of a file system (fs/mount.cc).                              *)
(*                                                                         *)
(* A task runs until it sleeps; it sleeps for an inode's lock, for a       *)
(* directory's lock and inside seeki and truncate, which read blocks.      *)
(* Interrupts do not touch inodes, so that what happens between two sleeps *)
(* is one step.  Directories are reduced to the number of entries of each  *)
(* inode and the reader-writer lock of the directory they are in; a new    *)
(* file goes to a directory that nobody uses.                              *)
(***************************************************************************)
EXTENDS Integers, Sequences, SequencesExt, FiniteSets

CONSTANTS
  ITask,
  Slot,        \* the inode_t of inodetab
  Ino,         \* the inode numbers of the mounted file system
  Used,        \* those of the files that are there at first
  NoIno,       \* the number of a slot that was never used
  ICANDIDATES, \* geti's candidates (8 in the code)
  MaxIOps      \* bound: operations by all tasks

ASSUME IAssumption ==
  /\ IsFiniteSet(ITask) /\ IsFiniteSet(Slot)
  /\ Ino \subseteq Int /\ NoIno \notin Ino /\ Used \subseteq Ino /\ ICANDIDATES \in Nat

VARIABLES
  ino, istate, irefcnt, ilock,        \* inode_t: ino, state, refcnt, locked_
  slot,        \* its fields: nlink, and whether the file has blocks
  ifreeq,
  dinode,      \* the fields of the inodes in the inode table
  imap,        \* the inode bitmap
  links,       \* directory entries of each inode
  dirlock,     \* tasks that read the directory; the one that writes it
  newest,      \* history: the fields as last set
  iexcused,    \* history: inodes changed while a umount is on, not written for an
               \* error, or freed while geti writes them; all of them once one
               \* was taken during its release
  ipc, icall, nops

table == <<ino, istate, irefcnt, ilock, slot, ifreeq>>
ondisk == <<dinode, imap, links, dirlock, newest>>
ivars == <<table, ondisk, iexcused, ipc, icall, nops>>

NoSlot == [op |-> "none", ino |-> NoIno, slot |-> {}, cand |-> 0, left |-> {}]
IGoto(t, l) == ipc' = [ipc EXCEPT ![t] = l]
ICall(t, c) == icall' = [icall EXCEPT ![t] = c]
Syncs(t) == icall[t].op \in {"sync", "umount"}
My(t) == CHOOSE s \in icall[t].slot : TRUE

\* findi.
Findi(i) == {s \in DOMAIN ino : ino[s] = i}

\* inode_t::setdirty after a change of the fields.
SetDirty(s, f) ==
  /\ slot' = [slot EXCEPT ![s] = f]
  /\ istate' = [istate EXCEPT ![s] = "IDIRTY"]
  /\ newest' = [newest EXCEPT ![ino[s]] = f]
  /\ iexcused' = IF \E t \in ITask : icall[t].op = "umount"
                  THEN iexcused \cup {ino[s]} ELSE iexcused

\* The slot is held while a task is about to release its file.
HoldSlots(S) ==
  /\ irefcnt' = [s \in Slot |-> irefcnt[s] + IF s \in S THEN 1 ELSE 0]
  /\ iexcused' = IF \E t \in ITask : ipc[t] = "trunc" /\ My(t) \in S THEN Ino ELSE iexcused

----------------------------------------------------------------------------
(* geti and readi. *)

\* The scan of the free list: the unheld inodes, least recently used first;
\* a locked one is passed over as long as there are candidates.
Unheld == {k \in DOMAIN ifreeq : irefcnt[ifreeq[k]] = 0}
Seen(k) == Cardinality({j \in Unheld : j <= k})
Stops(t) == {k \in Unheld : ~ilock[ifreeq[k]] \/ Seen(k) >= icall[t].cand}
Pick(t) == CHOOSE k \in Stops(t) : \A j \in Stops(t) : k <= j
CandLeft(t, k) == IF icall[t].cand > Seen(k) THEN icall[t].cand - Seen(k) ELSE 0
WithoutSlot(s) ==
  IF Contains(ifreeq, s)
    THEN RemoveAt(ifreeq, CHOOSE k \in DOMAIN ifreeq : ifreeq[k] = s) ELSE ifreeq

\* The slot is given to the inode number; read() locks it and calls seeki.
TakeSlot(t, s) ==
  /\ istate[s] # "IDIRTY"
  /\ HoldSlots({s})
  /\ ifreeq' = WithoutSlot(s)
  /\ istate' = [istate EXCEPT ![s] = "IINVAL"]
  /\ ino' = [ino EXCEPT ![s] = icall[t].ino]
  /\ ilock' = [ilock EXCEPT ![s] = TRUE]
  /\ ICall(t, [icall[t] EXCEPT !.slot = {s}])
  /\ IGoto(t, "read")

\* geti.  A dirty inode is written first, not held, and everything is looked
\* at again; with no inode left it fails (ENFILE).
Geti(t) ==
  /\ ipc[t] = "geti"
  /\ LET hit == Findi(icall[t].ino)
         k == Pick(t)
         s == ifreeq[k]
         c == [icall[t] EXCEPT !.cand = CandLeft(t, k), !.slot = {s}]
     IN  IF hit # {}
           THEN /\ HoldSlots(hit)
                /\ ICall(t, [icall[t] EXCEPT !.slot = hit])
                /\ IGoto(t, "hit")
                /\ UNCHANGED <<ino, istate, ilock, ifreeq>>
           ELSE \/ Stops(t) = {} /\ IGoto(t, "fail") /\ UNCHANGED <<table, iexcused, icall>>
                \/ /\ Stops(t) # {} /\ ilock[s]
                   /\ ICall(t, c) /\ IGoto(t, "wait")
                   /\ UNCHANGED <<table, iexcused>>
                \/ /\ Stops(t) # {} /\ ~ilock[s] /\ istate[s] = "IDIRTY"
                   /\ ICall(t, c) /\ IGoto(t, "write")
                   /\ ilock' = [ilock EXCEPT ![s] = TRUE]
                   /\ UNCHANGED <<ino, istate, irefcnt, ifreeq, iexcused>>
                \/ Stops(t) # {} /\ ~ilock[s] /\ TakeSlot(t, s)
  /\ UNCHANGED <<slot, ondisk, nops>>

WaitOther(t) ==
  /\ ipc[t] = "wait" /\ ~ilock[My(t)]
  /\ IGoto(t, "geti") /\ ICall(t, [icall[t] EXCEPT !.slot = {}])
  /\ UNCHANGED <<table, ondisk, iexcused, nops>>

\* A hit, unlocked by now: readi is done if it is valid, else reads it.
IHit(t) ==
  /\ ipc[t] = "hit" /\ ~ilock[My(t)]
  /\ ifreeq' = WithoutSlot(My(t))
  /\ IF istate[My(t)] # "IINVAL"
       THEN IGoto(t, "have") /\ UNCHANGED ilock
       ELSE IGoto(t, "read") /\ ilock' = [ilock EXCEPT ![My(t)] = TRUE]
  /\ UNCHANGED <<ino, istate, irefcnt, slot, ondisk, iexcused, icall, nops>>

\* inode_t::read, after seeki: the fields are taken over, or there was an error.
IRead(t) ==
  /\ ipc[t] = "read"
  /\ LET s == My(t)
     IN  /\ ilock' = [ilock EXCEPT ![s] = FALSE]
         /\ \/ /\ slot' = [slot EXCEPT ![s] = dinode[ino[s]]]
               /\ istate' = [istate EXCEPT ![s] = "ICLEAN"]
               /\ IGoto(t, "have")
            \/ IGoto(t, "fail") /\ UNCHANGED <<slot, istate>>
  /\ UNCHANGED <<ino, irefcnt, ifreeq, ondisk, iexcused, icall, nops>>

\* inode_t::write, after seeki: all fields are copied at once.
CopiedOldFields(s) == dinode' = [dinode EXCEPT ![ino[s]] = [@ EXCEPT !.nlink = slot[s].nlink]]
CopiedFields(s) == dinode' = [dinode EXCEPT ![ino[s]] = slot[s]]
IWrite(t) ==
  /\ ipc[t] = "write"
  /\ LET s == My(t)
     IN  /\ ilock' = [ilock EXCEPT ![s] = FALSE]
         /\ \/ /\ CopiedFields(s)
               /\ istate' = [istate EXCEPT ![s] = "ICLEAN"]
               /\ UNCHANGED iexcused
            \/ iexcused' = iexcused \cup {ino[s]} /\ UNCHANGED <<dinode, istate>>
  /\ ICall(t, IF Syncs(t) THEN icall[t] ELSE [icall[t] EXCEPT !.slot = {}])
  /\ IGoto(t, IF Syncs(t) THEN "lose" ELSE "geti")
  /\ UNCHANGED <<ino, irefcnt, slot, ifreeq, imap, links, dirlock, newest, nops>>

----------------------------------------------------------------------------
(* lose. *)

\* A file without links is truncated, which reads blocks, after the inode is
\* in the free list.
IDone(t) == IGoto(t, "done") /\ ICall(t, [icall[t] EXCEPT !.slot = {}])
LoseSlot(t) ==
  /\ ipc[t] = "lose"
  /\ LET s == My(t)
     IN  /\ irefcnt' = [irefcnt EXCEPT ![s] = @ - 1]
         /\ ifreeq' = IF irefcnt[s] = 1 /\ ~Contains(ifreeq, s) THEN Append(ifreeq, s) ELSE ifreeq
         /\ IF irefcnt[s] > 1 \/ istate[s] = "IINVAL" \/ slot[s].nlink > 0
              THEN IDone(t) ELSE IGoto(t, "trunc") /\ UNCHANGED icall
  /\ UNCHANGED <<ino, istate, ilock, slot, ondisk, iexcused, nops>>

\* truncate has gone through the blocks of whatever inode the slot is now; the
\* inode is freed unless it has come to be used ("nonexistent inode is
\* referenced").
Truncated(t) ==
  /\ ipc[t] = "trunc"
  /\ LET s == My(t)
         f == [slot[s] EXCEPT !.full = FALSE]
     IN  IF irefcnt[s] > 0 \/ slot[s].nlink > 0
           THEN SetDirty(s, f) /\ UNCHANGED imap
           ELSE /\ slot' = [slot EXCEPT ![s] = f]
                /\ istate' = [istate EXCEPT ![s] = "IINVAL"]
                /\ imap' = imap \ {ino[s]}
                /\ iexcused' = IF ilock[s] THEN iexcused \cup {ino[s]} ELSE iexcused
                /\ UNCHANGED newest
  /\ IDone(t)
  /\ UNCHANGED <<ino, irefcnt, ilock, ifreeq, dinode, links, dirlock, nops>>

----------------------------------------------------------------------------
(* System calls. *)

MayRead(i) == \A t \in ITask : icall[t].ino = i => dirlock[t] # "w"
MayWrite(i) == \A t \in ITask : icall[t].ino = i => dirlock[t] = "free"

\* A name is looked up, to open the file (the directory's lock is for reading)
\* or to remove the name (for writing): readi.
Lookup(t, op, i) ==
  /\ ipc[t] = "out" /\ nops < MaxIOps /\ links[i] > 0
  /\ IF op = "open" THEN MayRead(i) ELSE MayWrite(i)
  /\ dirlock' = [dirlock EXCEPT ![t] = IF op = "open" THEN "r" ELSE "w"]
  /\ nops' = nops + 1
  /\ ICall(t, [NoSlot EXCEPT !.op = op, !.ino = i, !.cand = ICANDIDATES])
  /\ IGoto(t, "geti")
  /\ UNCHANGED <<table, dinode, imap, links, newest, iexcused>>

\* The name is removed.  Its entry is cleared when lose() is back, and nobody
\* sees it until then, for the directory is locked.
Unlink(t) ==
  /\ ipc[t] = "have" /\ icall[t].op = "unlink"
  /\ SetDirty(My(t), [slot[My(t)] EXCEPT !.nlink = @ - 1])
  /\ links' = [links EXCEPT ![icall[t].ino] = @ - 1]
  /\ IGoto(t, "lose")
  /\ UNCHANGED <<ino, irefcnt, ilock, ifreeq, dinode, imap, dirlock, icall, nops>>

\* The file is open: the lookup's lock is given back; then it is written to,
\* and closed.
Opened(t) ==
  /\ ipc[t] = "have" /\ icall[t].op = "open"
  /\ dirlock' = [dirlock EXCEPT ![t] = "free"]
  /\ IGoto(t, "open")
  /\ UNCHANGED <<table, dinode, imap, links, newest, iexcused, icall, nops>>
WriteFile(t) ==
  /\ ipc[t] = "open" /\ ~slot[My(t)].full
  /\ SetDirty(My(t), [slot[My(t)] EXCEPT !.full = TRUE])
  /\ UNCHANGED <<ino, irefcnt, ilock, ifreeq, dinode, imap, links, dirlock, ipc, icall, nops>>
CloseInode(t) ==
  /\ ipc[t] = "open" /\ IGoto(t, "lose")
  /\ UNCHANGED <<table, ondisk, iexcused, icall, nops>>

\* A system call is over; a failed readi has its slot to lose.
IReturn(t) ==
  /\ ipc[t] = "done"
  /\ IF Syncs(t) THEN IGoto(t, "next") /\ UNCHANGED icall
                            ELSE IGoto(t, "out") /\ ICall(t, NoSlot)
  /\ dirlock' = [dirlock EXCEPT ![t] = "free"]
  /\ UNCHANGED <<table, dinode, imap, links, newest, iexcused, nops>>
IFail(t) ==
  /\ ipc[t] = "fail"
  /\ IGoto(t, IF icall[t].slot = {} THEN "done" ELSE "lose")
  /\ UNCHANGED <<table, ondisk, iexcused, icall, nops>>

\* mkcommon: a free inode number whose slot, if any, is not in use; its fields
\* are set up in the inode table.
Creat(t) ==
  /\ ipc[t] = "out" /\ nops < MaxIOps
  /\ \E i \in Ino \ imap :
       /\ \A j \in Ino \ imap : i <= j
       /\ \A s \in Findi(i) : istate[s] = "IINVAL"
       /\ imap' = imap \cup {i}
       /\ LET f == [nlink |-> 1, full |-> FALSE]
          IN  dinode' = [dinode EXCEPT ![i] = f] /\ newest' = [newest EXCEPT ![i] = f]
       /\ links' = [links EXCEPT ![i] = 1]
  /\ nops' = nops + 1
  /\ UNCHANGED <<table, dirlock, iexcused, ipc, icall>>

\* synci, for syssync or as the first thing of doumount, which is under the
\* lock gate: every inode is held, written and lost.
Synci(t, op) ==
  /\ ipc[t] = "out" /\ nops < MaxIOps /\ nops' = nops + 1
  /\ op = "umount" => \A u \in ITask : icall[u].op # "umount"
  /\ ICall(t, [NoSlot EXCEPT !.op = op, !.left = Slot]) /\ IGoto(t, "next")
  /\ UNCHANGED <<table, ondisk, iexcused>>
SyncNext(t) ==
  /\ ipc[t] = "next"
  /\ IF icall[t].left = {}
       THEN /\ IF icall[t].op = "umount" THEN IGoto(t, "umount") /\ UNCHANGED icall
                                         ELSE IGoto(t, "out") /\ ICall(t, NoSlot)
            /\ UNCHANGED <<irefcnt, iexcused>>
       ELSE LET s == CHOOSE e \in icall[t].left : TRUE
            IN  /\ HoldSlots({s})
                /\ ICall(t, [icall[t] EXCEPT !.left = @ \ {s}, !.slot = {s}])
                /\ IGoto(t, "lock")
  /\ UNCHANGED <<ino, istate, ilock, slot, ifreeq, ondisk, nops>>
SyncLock(t) ==
  /\ ipc[t] = "lock" /\ ~ilock[My(t)]
  /\ IF istate[My(t)] = "IDIRTY"
       THEN ilock' = [ilock EXCEPT ![My(t)] = TRUE] /\ IGoto(t, "write")
       ELSE IGoto(t, "lose") /\ UNCHANGED ilock
  /\ UNCHANGED <<ino, istate, irefcnt, slot, ifreeq, ondisk, iexcused, icall, nops>>

\* doumount, after syncb and fs_t::write, which sleep: tryumount fails if an
\* inode is held, a directory that is locked among them; then invali drops
\* them all, also one that is being released.
Umount(t) ==
  /\ ipc[t] = "umount"
  /\ IF (\E s \in Slot : irefcnt[s] > 0) \/ (\E u \in ITask : dirlock[u] # "free")
       THEN UNCHANGED <<istate, iexcused>>
       ELSE /\ istate' = [s \in Slot |-> "IINVAL"]
            /\ iexcused' = IF \E u \in ITask : ipc[u] = "trunc" THEN Ino ELSE iexcused
  /\ IGoto(t, "out") /\ ICall(t, NoSlot)
  /\ UNCHANGED <<ino, irefcnt, ilock, slot, ifreeq, ondisk, nops>>

----------------------------------------------------------------------------
IInit ==
  /\ ino = [s \in Slot |-> NoIno] /\ istate = [s \in Slot |-> "IINVAL"]
  /\ irefcnt = [s \in Slot |-> 0] /\ ilock = [s \in Slot |-> FALSE]
  /\ slot = [s \in Slot |-> [nlink |-> 0, full |-> FALSE]]
  /\ ifreeq = SetToSeq(Slot)
  /\ imap = Used
  /\ dinode = [i \in Ino |-> [nlink |-> IF i \in Used THEN 1 ELSE 0, full |-> i \in Used]]
  /\ links = [i \in Ino |-> dinode[i].nlink] /\ newest = dinode
  /\ dirlock = [t \in ITask |-> "free"] /\ iexcused = {}
  /\ ipc = [t \in ITask |-> "out"] /\ icall = [t \in ITask |-> NoSlot] /\ nops = 0

IStep(t) ==
  \/ Geti(t) \/ WaitOther(t) \/ IHit(t) \/ IRead(t) \/ IWrite(t) \/ LoseSlot(t) \/ Truncated(t)
  \/ Unlink(t) \/ Opened(t) \/ CloseInode(t) \/ IReturn(t) \/ IFail(t)
  \/ SyncNext(t) \/ SyncLock(t) \/ Umount(t)
INext ==
  \E t \in ITask :
    \/ IStep(t) \/ WriteFile(t) \/ Creat(t)
    \/ \E op \in {"sync", "umount"} : Synci(t, op)
    \/ \E i \in Ino, op \in {"open", "unlink"} : Lookup(t, op, i)

ISpec == IInit /\ [][INext]_ivars

----------------------------------------------------------------------------
(* Properties. *)

\* An inode in use is not given to another number: neither a task that holds
\* it nor one that waits for its lock, to read, write or sync it, finds it
\* changed.
HeldKeepsIno ==
  [][\A s \in DOMAIN ino : ino'[s] # ino[s] =>
       \A t \in ITask : s \in icall[t].slot => ipc[t] \in {"geti", "trunc", "wait"}]_ivars

\* A number with a directory entry is allocated, and has at most one slot: no
\* release frees the inode under a name.
NamedIsAllocated ==
  \A i \in Ino \ iexcused : links[i] > 0 => i \in imap /\ Cardinality(Findi(i)) <= 1

\* The fields of a file as last set are in its slot, and in the inode table
\* unless the slot is dirty: the cache loses no change, except one made during
\* a umount, by an I/O error, after a slot was taken during its release, or by
\* a write of the slot that its release did not wait for.
FieldsAreKept ==
  \A i \in imap \ iexcused :
    LET valid == {s \in Findi(i) : istate[s] # "IINVAL"}
    IN  /\ \A s \in valid : slot[s] = newest[i]
        /\ (\A s \in valid : istate[s] = "ICLEAN") => dinode[i] = newest[i]

\* Whoever has looked a number up has the slot of that number, after every
\* sleep until the file is closed.
HeldAsAsked ==
  \A t \in ITask : ipc[t] \in {"hit", "read", "have", "open"} => ino[My(t)] = icall[t].ino

\* The inode cache keeps what names and files need.
InodesAreKept == NamedIsAllocated /\ FieldsAreKept /\ HeldAsAsked
=============================================================================
