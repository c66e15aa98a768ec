-------------------------------- MODULE Cow --------------------------------
(***************************************************************************)
(* The address spaces of the tasks (mm/mm.cc): segments, demand paging,    *)
(* copy-on-write fork, brk, the growing stack and the teardown at exit and *)
(* exec, on top of the counted page frames of mm/allocpage.cc and of the   *)
(* translation cache of the processor, which the kernel must flush by      *)
(* hand.  CR0.WP is set (boot/setup.S:339): kernel stores to user pages    *)
(* fault on a read-only entry like the user's own.                         *)
(*                                                                         *)
(* A task has four segments: code (read only, from the file), data (from   *)
(* the file) and bss, which grow up from page 0 and end at ebss, and the   *)
(* stack, which ends at Top and grows down.  allocpage(AUSER) may return   *)
(* NULL at any time, since the kernel, the drivers and the page tables     *)
(* take frames too; the task that faulted is then killed (outofmem).       *)
(***************************************************************************)
EXTENDS Naturals, FiniteSets

CONSTANTS
    Task,
    Boot,           \* the task that exists first
    UserFrame,      \* the frames that allocpage(AUSER) hands out
    Val,            \* what a page may hold
    Top,            \* the highest virtual page
    Bss,            \* the first page of bss; pages below come from the file
    Text,           \* the pages of the read-only segment
    Fresh,          \* file contents, or zero, of each page
    MaxOrphan,      \* bound: entries left behind by failed forks
    NoPte

Page == 0..Top

ASSUME CowAssumption ==
    /\ IsFiniteSet(Task) /\ IsFiniteSet(UserFrame) /\ Boot \in Task
    /\ Top \in Nat \ {0}
    /\ Bss \in 1..Top
    /\ Text \subseteq 0..(Bss - 1)
    /\ Fresh \in [Page -> Val]
    /\ MaxOrphan \in Nat
    /\ NoPte \notin [page : UserFrame, w : BOOLEAN]

VARIABLES
    live,       \* the tasks that exist
    curr,       \* the task that runs
    pte,        \* pte[t][v]: t's page-table entry of page v
    tlb,        \* tlb[v]: the entry the processor may have cached for curr
    ebss,       \* ebss[t]: bss->end
    stack,      \* stack[t]: the stack segment's start
    refcnt,     \* page_t::refcnt of each frame
    data,       \* what each frame holds
    orphan,     \* entries of the page tables that a failed clone abandoned
    seen        \* the value the last load returned

vars == <<live, curr, pte, tlb, ebss, stack, refcnt, data, orphan, seen>>

Pte == [page : UserFrame, w : BOOLEAN]

TypeOK ==
    /\ live \subseteq Task
    /\ curr \in live
    /\ pte \in [Task -> [Page -> Pte \cup {NoPte}]]
    /\ tlb \in [Page -> Pte \cup {NoPte}]
    /\ ebss \in [Task -> Bss..Top]
    /\ stack \in [Task -> Bss..Top]
    /\ refcnt \in [UserFrame -> Nat]
    /\ data \in [UserFrame -> Val]
    /\ orphan \in [UserFrame -> Nat]
    /\ seen \in Val

Unmapped == [v \in Page |-> NoPte]

Init ==
    /\ live = {Boot}
    /\ curr = Boot
    /\ pte = [t \in Task |-> Unmapped]
    /\ tlb = Unmapped
    /\ ebss = [t \in Task |-> Bss]
    /\ stack = [t \in Task |-> Top]
    /\ refcnt = [f \in UserFrame |-> 0]
    /\ data \in [UserFrame -> Val]
    /\ orphan = [f \in UserFrame |-> 0]
    /\ seen \in Val

(***************************************************************************)
(* Segments.                                                               *)
(***************************************************************************)
\* mm_t::contain: the pages of t's segments.
Mapped(t) == {v \in Page : v < ebss[t] \/ v >= stack[t]}

\* The pages from the end of bss to the stack's start, where the stack grows.
Gap(t) == ebss[t]..(stack[t] - 1)

Writable == Page \ Text

(***************************************************************************)
(* Page-table entries and frames.                                          *)
(***************************************************************************)
\* The number of entries of p that map frame f at one of the pages P.
Maps(p, P, f) == Cardinality({v \in P : p[v] # NoPte /\ p[v].page = f})

\* pte_t::clrw
Clrw(e) == IF e = NoPte THEN NoPte ELSE [e EXCEPT !.w = FALSE]

\* flushone() of each page in P
Flush(P) == [v \in Page |-> IF v \in P THEN NoPte ELSE tlb[v]]

FreeFrame == {f \in UserFrame : refcnt[f] = 0}

\* The entries a memory access at v may go through: the cached one or, after
\* an eviction, the page table's.
Walk(v) == {tlb[v], pte[curr][v]} \ {NoPte}

(***************************************************************************)
(* Memory accesses that need no help from the kernel.                      *)
(***************************************************************************)
Load(v) ==
    \E e \in Walk(v) :
        /\ seen' = data[e.page]
        /\ tlb' = [tlb EXCEPT ![v] = e]
        /\ UNCHANGED <<live, curr, pte, ebss, stack, refcnt, data, orphan>>

Store(v, x) ==
    \E e \in Walk(v) :
        /\ e.w
        /\ data' = [data EXCEPT ![e.page] = x]
        /\ tlb' = [tlb EXCEPT ![v] = e]
        /\ UNCHANGED <<live, curr, pte, ebss, stack, refcnt, orphan, seen>>

(***************************************************************************)
(* Page faults.                                                            *)
(***************************************************************************)
\* mm_t::pagefault: an address below the stack segment, and not below the
\* stack pointer, first extends the segment down to its page.
Grown(v) == IF v \in Gap(curr) THEN [stack EXCEPT ![curr] = v] ELSE stack

\* seg_t::nopage with a frame: the entry has the segment's protection and the
\* frame is filled from the file, or with zeroes.
Nopage(v) ==
    \E f \in FreeFrame :
        /\ v \in Mapped(curr) \cup Gap(curr)
        /\ pte[curr][v] = NoPte
        /\ stack' = Grown(v)
        /\ pte' = [pte EXCEPT ![curr][v] = [page |-> f, w |-> v \in Writable]]
        /\ refcnt' = [refcnt EXCEPT ![f] = 1]
        /\ data' = [data EXCEPT ![f] = Fresh[v]]
        /\ UNCHANGED <<live, curr, tlb, ebss, orphan, seen>>

\* A store through a read-only entry in a writable segment.
WriteFault(v) ==
    /\ v \in Mapped(curr) \cap Writable
    /\ \E e \in Walk(v) : ~e.w
    /\ pte[curr][v] # NoPte

\* The last user takes the frame over.
OnlyUserAny(f) == TRUE
OnlyUser(f) == refcnt[f] = 1

\* seg_t::wppage, the frame has no other user.
WppageOwn(v) ==
    /\ WriteFault(v)
    /\ OnlyUser(pte[curr][v].page)
    /\ pte' = [pte EXCEPT ![curr][v].w = TRUE]
    /\ tlb' = Flush({v})
    /\ UNCHANGED <<live, curr, ebss, stack, refcnt, data, orphan, seen>>

\* The copy keeps its reference to the old frame.
WppageCopyKeep(v) ==
    \E my \in FreeFrame :
        LET our == pte[curr][v].page IN
        /\ WriteFault(v)
        /\ ~OnlyUser(our)
        /\ pte' = [pte EXCEPT ![curr][v] = [page |-> my, w |-> TRUE]]
        /\ tlb' = Flush({v})
        /\ data' = [data EXCEPT ![my] = data[our]]
        /\ refcnt' = [refcnt EXCEPT ![my] = 1]
        /\ UNCHANGED <<live, curr, ebss, stack, orphan, seen>>

\* seg_t::wppage, the frame is shared and is copied.
WppageCopy(v) ==
    \E my \in FreeFrame :
        LET our == pte[curr][v].page IN
        /\ WriteFault(v)
        /\ ~OnlyUser(our)
        /\ pte' = [pte EXCEPT ![curr][v] = [page |-> my, w |-> TRUE]]
        /\ tlb' = Flush({v})
        /\ data' = [data EXCEPT ![my] = data[our]]
        /\ refcnt' = [refcnt EXCEPT ![my] = 1, ![our] = @ - 1]
        /\ UNCHANGED <<live, curr, ebss, stack, orphan, seen>>

(***************************************************************************)
(* fork: mm_t::clone and copypte over the pages P the copy reaches.        *)
(***************************************************************************)
Copied(P) == [v \in Page |-> IF v \in P THEN Clrw(pte[curr][v]) ELSE NoPte]

\* What copypte leaves in the parent's table and in the translation cache.
Protected(P) == [v \in Page |-> IF v \in P THEN Clrw(pte[curr][v]) ELSE pte[curr][v]]

\* dupphys of each frame mapped at one of the pages P.
Dup(P) == [f \in UserFrame |-> refcnt[f] + Maps(pte[curr], P, f)]

WasWritable(P) == {v \in P : pte[curr][v] # NoPte /\ pte[curr][v].w}

Fork(c) ==
    /\ c \notin live
    /\ pte' = [pte EXCEPT ![curr] = Protected(Mapped(curr)), ![c] = Copied(Mapped(curr))]
    /\ tlb' = Flush(WasWritable(Mapped(curr)))
    /\ refcnt' = Dup(Mapped(curr))
    /\ ebss' = [ebss EXCEPT ![c] = ebss[curr]]
    /\ stack' = [stack EXCEPT ![c] = stack[curr]]
    /\ live' = live \cup {c}
    /\ UNCHANGED <<curr, data, orphan, seen>>

\* clone() runs out of frames for the child's page tables at page k and
\* returns ENOMEM: the child's mm, with the entries copied so far, is lost.
ForkFail(k) ==
    LET P == {v \in Mapped(curr) : v < k}
        n == [f \in UserFrame |-> Maps(pte[curr], P, f)]
    IN /\ live # Task
       /\ \A f \in UserFrame : orphan[f] + n[f] <= MaxOrphan
       /\ pte' = [pte EXCEPT ![curr] = Protected(P)]
       /\ tlb' = Flush(WasWritable(P))
       /\ refcnt' = Dup(P)
       /\ orphan' = [f \in UserFrame |-> orphan[f] + n[f]]
       /\ UNCHANGED <<live, curr, ebss, stack, data, seen>>

(***************************************************************************)
(* Unmapping.                                                              *)
(***************************************************************************)
\* seg_t::unmap over the pages P of curr: freephys of each frame.
Freed(P) == [f \in UserFrame |-> refcnt[f] - Maps(pte[curr], P, f)]

\* The entries that are left.
Unmap(P) == [v \in Page |-> IF v \in P THEN NoPte ELSE pte[curr][v]]

\* sysbrk: a page number below bss changes nothing; a smaller one gives pages
\* back; a larger one is capped by the stack's start.
BrkEnd(e) == IF e < stack[curr] THEN e ELSE stack[curr]

BrkShrink(e) ==
    /\ e \in Bss..(ebss[curr] - 1)
    /\ pte' = [pte EXCEPT ![curr] = Unmap(e..(ebss[curr] - 1))]
    /\ refcnt' = Freed(e..(ebss[curr] - 1))
    /\ tlb' = Flush(e..(ebss[curr] - 1))
    /\ ebss' = [ebss EXCEPT ![curr] = e]
    /\ UNCHANGED <<live, curr, stack, data, orphan, seen>>

BrkGrow(e) ==
    /\ e > ebss[curr]
    /\ ebss' = [ebss EXCEPT ![curr] = BrkEnd(e)]
    /\ UNCHANGED <<live, curr, pte, tlb, stack, refcnt, data, orphan, seen>>

\* doexit: unmapuspace; another task is switched to.  Also what becomes of a
\* task after outofmem() or a bad access.
Exit(n) ==
    /\ n \in live \ {curr}
    /\ pte' = [pte EXCEPT ![curr] = Unmap(Mapped(curr))]
    /\ refcnt' = Freed(Mapped(curr))
    /\ tlb' = Unmapped
    /\ live' = live \ {curr}
    /\ ebss' = [ebss EXCEPT ![curr] = Bss]
    /\ stack' = [stack EXCEPT ![curr] = Top]
    /\ curr' = n
    /\ UNCHANGED <<data, orphan, seen>>

\* sysexecve: the argument page is built in frame f before the flush, and
\* mapped at the top of the new stack after it.
Exec(f, x) ==
    /\ f \in FreeFrame
    /\ pte' = [pte EXCEPT ![curr] =
                  [Unmap(Mapped(curr)) EXCEPT ![Top] = [page |-> f, w |-> TRUE]]]
    /\ refcnt' = [Freed(Mapped(curr)) EXCEPT ![f] = 1]
    /\ tlb' = Flush(Mapped(curr))
    /\ data' = [data EXCEPT ![f] = x]
    /\ ebss' = [ebss EXCEPT ![curr] = Bss]
    /\ stack' = [stack EXCEPT ![curr] = Top]
    /\ UNCHANGED <<live, curr, orphan, seen>>

\* Switching tasks loads cr3, which empties the translation cache.
Switch(t) ==
    /\ t \in live \ {curr}
    /\ curr' = t
    /\ tlb' = Unmapped
    /\ UNCHANGED <<live, pte, ebss, stack, refcnt, data, orphan, seen>>

Next ==
    \/ \E v \in Page : \/ Load(v)
                       \/ \E x \in Val : Store(v, x)
                       \/ Nopage(v)
                       \/ WppageOwn(v)
                       \/ WppageCopy(v)
                       \/ BrkShrink(v)
                       \/ BrkGrow(v)
                       \/ ForkFail(v)
    \/ \E t \in Task : Fork(t) \/ Exit(t) \/ Switch(t)
    \/ \E f \in UserFrame, x \in Val : Exec(f, x)

Spec == Init /\ [][Next]_vars

(***************************************************************************)
(* Properties.                                                             *)
(***************************************************************************)
\* A frame's count is the number of page-table entries that map it, those of
\* the page tables a failed fork left behind included: a frame is never freed
\* while mapped, and is freed by the last seg_t::unmap.
RefcntExact ==
    \A f \in UserFrame :
        refcnt[f] = orphan[f] + Cardinality({x \in Task \X Page :
            /\ pte[x[1]][x[2]] # NoPte
            /\ pte[x[1]][x[2]].page = f})

\* A frame that several entries map is writable through none of them, neither
\* in a page table nor in the translation cache, after any order of forks,
\* faults and switches.
SharedIsReadOnly ==
    \A v \in Page :
        /\ \A t \in Task :
              pte[t][v] # NoPte /\ pte[t][v].w => refcnt[pte[t][v].page] = 1
        /\ tlb[v] # NoPte /\ tlb[v].w => refcnt[tlb[v].page] = 1

\* No entry lies outside the segments, so that unmapuspace leaves an empty
\* table (the assertion in pgtbl_t's operator delete), and bss and the stack
\* never overlap, although insertseg and pagefault do not look for it.
SegmentsHoldPtes ==
    /\ \A t \in Task : ebss[t] <= stack[t]
    /\ \A t \in Task, v \in Page : pte[t][v] # NoPte => t \in live /\ v \in Mapped(t)

\* Counts, write permissions and segments agree: what exit, exec and the next
\* fault of any task rely on.
MappingsExact == RefcntExact /\ SharedIsReadOnly /\ SegmentsHoldPtes

\* Copy-on-write is invisible: loads and stores are those of private arrays.
M == INSTANCE Mem WITH mem <- [t \in Task |-> [v \in Page |->
                                  IF pte[t][v] = NoPte THEN Fresh[v]
                                  ELSE data[pte[t][v].page]]]

ImplementsMem == M!Spec
=============================================================================
