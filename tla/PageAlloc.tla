------------------------------ MODULE PageAlloc ------------------------------
(***************************************************************************)
(* The page allocator, mm/allocpage.cc: a stack of free pages, a reference *)
(* count per page, and quotas that keep pages back for drivers and for the *)
(* kernel.                                                                 *)
(*                                                                         *)
(* The task in the kernel tests the quota with interrupts on and takes the *)
(* page with interrupts off; the network interrupt may allocate and free   *)
(* in between.  An interrupt handler runs with interrupts off (interrupt   *)
(* gates), and so do the object pools of mm/allockm.cc.                    *)
(***************************************************************************)
EXTENDS Integers, Sequences, FiniteSets

CONSTANTS
  Frame,        \* the allocable page frames
  KERNQUOTA,    \* frames kept for AKERN (4 in the code)
  DRIVERQUOTA,  \* frames kept for ADRIVER besides (12 in the code)
  MaxRef        \* bound: reference count of a frame in PageAlloc

ASSUME PageAllocAssumption ==
  /\ IsFiniteSet(Frame)
  /\ KERNQUOTA \in Nat \ {0} /\ DRIVERQUOTA \in Nat /\ MaxRef \in Nat

VARIABLES
  freepageq,  \* the free pages, the next to be taken first
  nfreepage,
  pagerefcnt, \* page_t::refcnt
  allocpc,    \* the task: "out", past the quota test ("AKERN", "AUSER"),
              \* or "push": the count of a page has dropped to 0 in freepage
  freeing,    \* the page to be pushed
  denied      \* the last request that was turned down

allocvars == <<freepageq, nfreepage, pagerefcnt, allocpc, freeing, denied>>

Rng(q) == {q[i] : i \in 1 .. Len(q)}
Inj(q) == \A i, j \in 1 .. Len(q) : q[i] = q[j] => i = j

\* The quota test of allocpage.
MayAllocNoQuota(flag) == nfreepage > 0
MayAlloc(flag) ==
  nfreepage > CASE flag = "AUSER"   -> DRIVERQUOTA + KERNQUOTA
                [] flag = "ADRIVER" -> KERNQUOTA
                [] flag = "AKERN"   -> 0

\* The part of allocpage with interrupts off.
Pop ==
  /\ freepageq' = Tail(freepageq)
  /\ nfreepage' = nfreepage - 1
  /\ pagerefcnt' = [pagerefcnt EXCEPT ![Head(freepageq)] = 1]

\* The part of freepage with interrupts off.
Push(p) ==
  /\ freepageq' = <<p>> \o freepageq
  /\ nfreepage' = nfreepage + 1

----------------------------------------------------------------------------
(* The task in the kernel. *)

\* allocpage up to the cli(), or its return when the quota is used up.
Request(flag) ==
  /\ allocpc = "out"
  /\ IF MayAlloc(flag) THEN allocpc' = flag /\ denied' = "none"
       ELSE allocpc' = allocpc /\ denied' = flag
  /\ UNCHANGED <<freepageq, nfreepage, pagerefcnt, freeing>>

Alloc ==
  /\ allocpc \in {"AKERN", "AUSER"}
  /\ Pop
  /\ allocpc' = "out"
  /\ UNCHANGED <<freeing, denied>>

\* dupphys, when fork shares a page.
Dupphys(p) ==
  /\ allocpc = "out" /\ pagerefcnt[p] \in 1 .. MaxRef - 1
  /\ pagerefcnt' = [pagerefcnt EXCEPT ![p] = @ + 1]
  /\ UNCHANGED <<freepageq, nfreepage, allocpc, freeing, denied>>

\* freepage up to the cli(): only the last reference frees the page.
ReleaseAny(p) ==
  /\ allocpc = "out" /\ pagerefcnt[p] > 0
  /\ pagerefcnt' = [pagerefcnt EXCEPT ![p] = @ - 1]
  /\ allocpc' = "push" /\ freeing' = p
  /\ UNCHANGED <<freepageq, nfreepage, denied>>
Release(p) ==
  /\ allocpc = "out" /\ pagerefcnt[p] > 0
  /\ pagerefcnt' = [pagerefcnt EXCEPT ![p] = @ - 1]
  /\ IF pagerefcnt[p] = 1 THEN allocpc' = "push" /\ freeing' = p
       ELSE UNCHANGED <<allocpc, freeing>>
  /\ UNCHANGED <<freepageq, nfreepage, denied>>

Free ==
  /\ allocpc = "push"
  /\ Push(freeing)
  /\ allocpc' = "out"
  /\ UNCHANGED <<pagerefcnt, freeing, denied>>

----------------------------------------------------------------------------
(* The network interrupt, at any of these points. *)

IrqAlloc ==
  /\ IF MayAlloc("ADRIVER")
       THEN Pop /\ denied' = "none"
       ELSE UNCHANGED <<freepageq, nfreepage, pagerefcnt>> /\ denied' = "ADRIVER"
  /\ UNCHANGED <<allocpc, freeing>>

IrqFree(p) ==
  /\ pagerefcnt[p] = 1
  /\ pagerefcnt' = [pagerefcnt EXCEPT ![p] = 0]
  /\ Push(p)
  /\ UNCHANGED <<allocpc, freeing, denied>>

----------------------------------------------------------------------------
\* After pagemapinit and freebm: all these pages are free.
AllocInit ==
  /\ nfreepage = Cardinality(Frame)
  /\ freepageq \in [1 .. nfreepage -> Frame]
  /\ Inj(freepageq) /\ Rng(freepageq) = Frame
  /\ pagerefcnt = [p \in Frame |-> 0]
  /\ allocpc = "out" /\ freeing \in Frame /\ denied = "none"

AllocNext ==
  \/ \E flag \in {"AKERN", "AUSER"} : Request(flag)
  \/ Alloc \/ Free \/ IrqAlloc
  \/ \E p \in Frame : Dupphys(p) \/ Release(p) \/ IrqFree(p)

AllocSpec == AllocInit /\ [][AllocNext]_allocvars

----------------------------------------------------------------------------
(* Properties. *)

\* Every variable keeps its type.
AllocTypeOK ==
  /\ freepageq \in Seq(Frame)
  /\ nfreepage \in Nat
  /\ pagerefcnt \in [Frame -> Nat]
  /\ allocpc \in {"out", "AKERN", "AUSER", "push"}
  /\ freeing \in Frame
  /\ denied \in {"none", "AKERN", "ADRIVER", "AUSER"}

\* check(): nfreepage counts the free list; no page is in it twice or while
\* somebody refers to it, and none is lost: a page without a reference is in
\* the list, or on its way there.
FreeListExact ==
  /\ nfreepage = Len(freepageq)
  /\ Inj(freepageq)
  /\ \A p \in Frame : pagerefcnt[p] = 0 <=>
       p \in Rng(freepageq) \/ (allocpc = "push" /\ freeing = p)
  /\ allocpc = "push" => freeing \notin Rng(freepageq)

\* allocpage never takes a page from an empty list (its assert(allocable)):
\* the quota test made before cli() still holds enough after it, because the
\* interrupts in between leave KERNQUOTA pages.
NeverPopsEmpty == allocpc \in {"AKERN", "AUSER"} => freepageq # << >>

\* User requests do not eat up what is kept for the kernel, interrupts between
\* test and cli() included: a page is missing from the reserve at most.
ReserveKept == [][allocpc = "AUSER" /\ Alloc => nfreepage' >= KERNQUOTA - 1]_allocvars
=============================================================================
