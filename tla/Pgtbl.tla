------------------------------- MODULE Pgtbl -------------------------------
(***************************************************************************)
(* The two walks over a two-level page table in asm/pgtbl.cc: scanpgtbl_t, *)
(* behind foreachpte, which seg_t::unmap frees a range with; and           *)
(* copypgtbl_t, which copypte copies a parent's range to its child with.   *)
(* A second-level table occupies a frame of memory, and a pte_t pointer is *)
(* an address: ++ on it may leave the table.  Whether a copied entry is    *)
(* made read-only is Cow's subject.                                        *)
(***************************************************************************)
EXTENDS Integers

CONSTANTS
    NPde,       \* entries of the page directory (768 for user space)
    NPte,       \* entries of a page table (1024), PDECOVERED in pages
    NFrame,     \* frames of memory, numbered from 0
    NoTable        \* a page-directory entry that is not present

Pde == 0..(NPde - 1)
Upage == 0..(NPde * NPte - 1)
TableFrame == 0..(NFrame - 1)
Word == 0..((NFrame + 1) * NPte - 1)

ASSUME PgtblAssumption ==
    NPde \in Nat /\ NPte \in Nat \ {0} /\ NFrame \in Nat /\ NoTable \notin TableFrame

\* A word of a frame that holds no page table of the task.
Foreign == NPde * NPte + 1

VARIABLES
    op,         \* "scan" or "copy"
    pc,         \* "start", "body", "next", "done"; "enomem" if getpte failed
    src,        \* src[d]: the frame of the table behind directory entry d
    dst,        \* the same of the page table copied to
    word,       \* memory: the entry at each address, 0 when it is none()
    from, end,  \* the range of pages
    curpos,     \* the page the walk is at
    spte, dpte, \* the addresses of the current entries
    visited     \* the pages and addresses the loop's body has seen

walkvars == <<op, pc, src, dst, word, from, end, curpos, spte, dpte, visited>>
given == <<op, src, from, end>>

PdeOf(v) == v \div NPte

\* pgtbl_t::probe: the address of the entry of page v in page table t.
PteOf(t, v) == (t[PdeOf(v)] * NPte) + (v % NPte)

\* What a page table holds for page v.
Entry(t, v) == IF t[PdeOf(v)] = NoTable THEN 0 ELSE word[PteOf(t, v)]

\* The pages of the range that have a table.
Present == {v \in from..(end - 1) : src[PdeOf(v)] # NoTable}

WalkTypeOK ==
    /\ op \in {"scan", "copy"}
    /\ pc \in {"start", "body", "next", "done", "enomem"}
    /\ src \in [Pde -> TableFrame \cup {NoTable}]
    /\ dst \in [Pde -> TableFrame \cup {NoTable}]
    /\ DOMAIN word = Word
    /\ from \in Upage /\ end \in from..(NPde * NPte)
    /\ curpos \in from..(NPde * NPte)

\* A task's tables are in distinct frames anywhere in memory, with any of
\* their entries in use; the rest of memory holds anything, here a value no
\* entry of the task has.
WalkInit ==
    /\ op \in {"scan", "copy"}
    /\ pc = "start"
    /\ src \in {s \in [Pde -> TableFrame \cup {NoTable}] :
                   \A d, e \in Pde : d # e /\ s[d] # NoTable => s[d] # s[e]}
    /\ dst = [d \in Pde |-> NoTable]
    /\ \E used \in SUBSET {v \in Upage : src[PdeOf(v)] # NoTable} :
          word = [w \in Word |->
                     IF \E v \in used : PteOf(src, v) = w
                     THEN 1 + CHOOSE v \in used : PteOf(src, v) = w
                     ELSE IF \E d \in Pde : src[d] = w \div NPte THEN 0 ELSE Foreign]
    /\ from \in Upage
    /\ end \in from..(NPde * NPte)
    /\ curpos = from
    /\ spte = 0 /\ dpte = 0
    /\ visited = {}

(***************************************************************************)
(* explore, and the skipping in both next(): the first page at or after v  *)
(* that has a table and is before the end; the end if there is none.       *)
(***************************************************************************)
Explore(v) ==
    LET P == {p \in Present : p >= v}
    IN IF P = {} THEN end ELSE CHOOSE p \in P : \A q \in P : p <= q

\* The new table is not cleared.
GetPteDirty(v, ok) ==
    IF dst[PdeOf(v)] # NoTable \/ ~ok
    THEN (dst[PdeOf(v)] # NoTable => ok) /\ UNCHANGED <<dst, word>>
    ELSE \E f \in {f \in TableFrame : \A d \in Pde : f # src[d] /\ f # dst[d]} :
            dst' = [dst EXCEPT ![PdeOf(v)] = f] /\ UNCHANGED word

\* dst->getpte(v), which takes a cleared frame for the table if there is none
\* and fails when allocphys does.
GetPte(v, ok) ==
    IF dst[PdeOf(v)] # NoTable \/ ~ok
    THEN (dst[PdeOf(v)] # NoTable => ok) /\ UNCHANGED <<dst, word>>
    ELSE \E f \in {f \in TableFrame : \A d \in Pde : f # src[d] /\ f # dst[d]} :
            /\ dst' = [dst EXCEPT ![PdeOf(v)] = f]
            /\ word' = [w \in Word |-> IF w \div NPte = f THEN 0 ELSE word[w]]

\* The walk goes on at page v with the source entry at address s.
Enter(v, s) ==
    /\ curpos' = v
    /\ IF v >= end
       THEN pc' = "done" /\ UNCHANGED <<dst, word, spte, dpte>>
       ELSE \E ok \in BOOLEAN :
            /\ IF op = "copy" THEN GetPte(v, ok)
                              ELSE ok /\ UNCHANGED <<dst, word>>
            /\ pc' = IF ok THEN "body" ELSE "enomem"
            /\ spte' = s
            /\ dpte' = IF ok /\ op = "copy" THEN PteOf(dst', v) ELSE dpte

\* scanpgtbl_t's constructor, copypgtbl_t::fromto
Start ==
    /\ pc = "start"
    /\ LET v == Explore(from) IN Enter(v, IF v < end THEN PteOf(src, v) ELSE 0)
    /\ UNCHANGED <<given, visited>>

\* The loop's body; copypte's is *dst = *src.
Body ==
    /\ pc = "body"
    /\ visited' = visited \cup {<<curpos, spte>>}
    /\ word' = IF op = "copy" THEN [word EXCEPT ![dpte] = word[spte]] ELSE word
    /\ pc' = "next"
    /\ UNCHANGED <<given, dst, curpos, spte, dpte>>

\* next() within a table.
NextInTable ==
    /\ pc = "next"
    /\ (curpos + 1) % NPte # 0
    /\ curpos' = curpos + 1
    /\ spte' = spte + 1
    /\ dpte' = IF op = "copy" THEN dpte + 1 ELSE dpte
    /\ pc' = IF curpos + 1 < end THEN "body" ELSE "done"
    /\ UNCHANGED <<given, dst, word, visited>>

\* The source entry next() goes on with in another table, at page v:
\* scanpgtbl_t takes the first of that table, copypgtbl_t the word after the
\* last one of the table it leaves.
SrcPte(v) == IF op = "scan" THEN PteOf(src, v) ELSE spte + 1

\* next() at the end of a table.
NextTable ==
    /\ pc = "next"
    /\ (curpos + 1) % NPte = 0
    /\ LET v == Explore(curpos + 1) IN Enter(v, IF v < end THEN SrcPte(v) ELSE 0)
    /\ UNCHANGED <<given, visited>>

WalkNext == Start \/ Body \/ NextInTable \/ NextTable

WalkSpec == WalkInit /\ [][WalkNext]_walkvars

(***************************************************************************)
(* Properties.                                                             *)
(***************************************************************************)
\* foreachpte visits each page of the range that has a table, once at the
\* address of its own entry, and skips the holes: seg_t::unmap frees all of a
\* range and nothing else.
ScanIsExact ==
    op = "scan" /\ pc = "done" =>
        visited = {<<v, PteOf(src, v)>> : v \in Present}

\* "copy the page table tree": after the walk the child's table holds, for
\* each page of the range, the entry that the parent's holds, and nothing
\* outside the range.
CopyIsExact ==
    op = "copy" /\ pc = "done" =>
        \A v \in Upage :
            Entry(dst, v) = IF v \in from..(end - 1) THEN Entry(src, v) ELSE 0

\* foreachpte visits every entry of a range, whatever tables are missing, and
\* what copypgtbl_t copies is exact for a range that one page table holds, 4 MB
\* from its start: that is what fork relies on for every segment.
WalksAreExact == ScanIsExact /\ (end <= (PdeOf(from) + 1) * NPte => CopyIsExact)
=============================================================================
