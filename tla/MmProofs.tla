----------------------------- MODULE MmProofs ------------------------------
(***************************************************************************)
(* TLAPS proofs about memory management.                                   *)
(*                                                                         *)
(* The page allocator, for any number of pages and any quotas: the         *)
(* inductive invariant adds to the properties what the quota test leaves   *)
(* behind, a user request that passed it has KERNQUOTA pages ahead of it.  *)
(*                                                                         *)
(* The address spaces, for any finite number of tasks, frames and pages:   *)
(* counts, permissions and segments agree, and copy on write is invisible. *)
(*                                                                         *)
(* The walks over page tables, for any sizes of directory, tables and      *)
(* memory: the invariant says what has been visited or copied up to the    *)
(* current page, and that the current pointers are that page's own.        *)
(***************************************************************************)
EXTENDS Cow, PageAlloc, Pgtbl, SequenceTheorems, FiniteSetTheorems,
        WellFoundedInduction, TLAPS

----------------------------------------------------------------------------
(* The page allocator. *)

\* What a request that passed its quota test can still count on.
Reserve ==
  /\ allocpc = "AKERN" => nfreepage > 0
  /\ allocpc = "AUSER" => nfreepage >= KERNQUOTA

AllocInv == AllocTypeOK /\ FreeListExact /\ Reserve

\* The free list after a page is taken.
LEMMA PopQueue ==
  ASSUME NEW S, NEW q \in Seq(S), Inj(q), Len(q) > 0
  PROVE  /\ Head(q) \in S /\ Tail(q) \in Seq(S) /\ Inj(Tail(q))
         /\ Len(Tail(q)) = Len(q) - 1
         /\ Rng(Tail(q)) = Rng(q) \ {Head(q)}
         /\ Head(q) \in Rng(q)
<1>1. q # << >> /\ Len(q) \in Nat
  OBVIOUS
<1>2. /\ Head(q) \in S /\ Tail(q) \in Seq(S) /\ Head(q) = q[1]
      /\ Len(Tail(q)) = Len(q) - 1
      /\ \A i \in 1 .. Len(q) - 1 : Tail(q)[i] = q[i + 1]
  BY <1>1, HeadTailProperties
<1>3. Inj(Tail(q))
  <2> SUFFICES ASSUME NEW i \in 1 .. Len(q) - 1, NEW j \in 1 .. Len(q) - 1,
                      Tail(q)[i] = Tail(q)[j]
               PROVE  i = j
    BY <1>2 DEF Inj
  <2>1. q[i + 1] = q[j + 1] /\ i + 1 \in 1 .. Len(q) /\ j + 1 \in 1 .. Len(q)
    BY <1>1, <1>2
  <2> QED BY <2>1 DEF Inj
<1>4. Rng(Tail(q)) \subseteq Rng(q) \ {Head(q)}
  <2> SUFFICES ASSUME NEW i \in 1 .. Len(q) - 1
               PROVE  Tail(q)[i] \in Rng(q) \ {Head(q)}
    BY <1>2 DEF Rng
  <2>1. Tail(q)[i] = q[i + 1] /\ i + 1 \in 1 .. Len(q) /\ 1 \in 1 .. Len(q) /\ i + 1 # 1
    BY <1>1, <1>2
  <2>2. q[i + 1] # q[1]
    BY <2>1 DEF Inj
  <2> QED BY <1>2, <2>1, <2>2 DEF Rng
<1>5. Rng(q) \ {Head(q)} \subseteq Rng(Tail(q))
  <2> SUFFICES ASSUME NEW i \in 1 .. Len(q), q[i] # q[1]
               PROVE  q[i] \in Rng(Tail(q))
    BY <1>2 DEF Rng
  <2>1. i - 1 \in 1 .. Len(q) - 1 /\ Tail(q)[i - 1] = q[(i - 1) + 1] /\ (i - 1) + 1 = i
    BY <1>1, <1>2
  <2> QED BY <1>2, <2>1 DEF Rng
<1>6. Head(q) \in Rng(q)
  BY <1>1, <1>2 DEF Rng
<1> QED BY <1>2, <1>3, <1>4, <1>5, <1>6

\* The free list after a page is given back.
LEMMA PushQueue ==
  ASSUME NEW S, NEW q \in Seq(S), Inj(q), NEW p \in S, p \notin Rng(q)
  PROVE  /\ <<p>> \o q \in Seq(S) /\ Inj(<<p>> \o q)
         /\ Len(<<p>> \o q) = Len(q) + 1
         /\ Rng(<<p>> \o q) = Rng(q) \cup {p}
<1> DEFINE r == <<p>> \o q
<1>1. Len(q) \in Nat /\ <<p>> \in Seq(S) /\ Len(<<p>>) = 1 /\ <<p>>[1] = p
  OBVIOUS
<1>2. /\ r \in Seq(S) /\ Len(r) = Len(q) + 1
      /\ \A i \in 1 .. Len(q) + 1 : r[i] = IF i <= 1 THEN p ELSE q[i - 1]
  BY <1>1, ConcatProperties
<1> HIDE DEF r
<1>3. Inj(r)
  <2> SUFFICES ASSUME NEW i \in 1 .. Len(q) + 1, NEW j \in 1 .. Len(q) + 1,
                      r[i] = r[j], i < j
               PROVE  FALSE
    BY <1>1, <1>2 DEF Inj
  <2>1. j - 1 \in 1 .. Len(q) /\ r[j] = q[j - 1]
    BY <1>1, <1>2
  <2>2. CASE i = 1
    BY <2>1, <2>2, <1>2 DEF Rng
  <2>3. CASE i # 1
    <3>1. i - 1 \in 1 .. Len(q) /\ r[i] = q[i - 1] /\ i - 1 # j - 1
      BY <2>3, <1>1, <1>2
    <3> QED BY <3>1, <2>1 DEF Inj
  <2> QED BY <2>2, <2>3
<1>4. Rng(r) \subseteq Rng(q) \cup {p}
  <2> SUFFICES ASSUME NEW i \in 1 .. Len(q) + 1 PROVE r[i] \in Rng(q) \cup {p}
    BY <1>2 DEF Rng
  <2>1. CASE i = 1
    BY <2>1, <1>2
  <2>2. CASE i # 1
    <3>1. i - 1 \in 1 .. Len(q) /\ r[i] = q[i - 1]
      BY <2>2, <1>1, <1>2
    <3> QED BY <3>1 DEF Rng
  <2> QED BY <2>1, <2>2
<1>5. Rng(q) \subseteq Rng(r)
  <2> SUFFICES ASSUME NEW i \in 1 .. Len(q) PROVE q[i] \in Rng(r)
    BY DEF Rng
  <2>1. i + 1 \in 1 .. Len(r) /\ r[i + 1] = q[(i + 1) - 1] /\ (i + 1) - 1 = i
    BY <1>1, <1>2
  <2> QED BY <2>1 DEF Rng
<1>6. p \in Rng(r)
  <2>1. 1 \in 1 .. Len(r) /\ r[1] = p
    BY <1>1, <1>2
  <2> QED BY <2>1 DEF Rng
<1> QED BY <1>2, <1>3, <1>4, <1>5, <1>6 DEF r

LEMMA InitAllocInv == AllocInit => AllocInv
<1> SUFFICES ASSUME AllocInit PROVE AllocInv
  OBVIOUS
<1>1. nfreepage \in Nat
  BY PageAllocAssumption, FS_CardinalityType DEF AllocInit
<1>2. freepageq \in Seq(Frame) /\ Len(freepageq) = nfreepage
  BY <1>1 DEF AllocInit
<1>3. \A p \in Frame : pagerefcnt[p] = 0 /\ p \in Rng(freepageq)
  BY DEF AllocInit
<1> QED BY <1>1, <1>2, <1>3 DEF AllocInit, AllocInv, AllocTypeOK, FreeListExact, Reserve

\* A step that takes a page.
LEMMA PopStep ==
  ASSUME AllocInv, Pop, nfreepage > 0, freeing' = freeing,
         allocpc' = "out" \/ (allocpc' = allocpc /\ nfreepage > KERNQUOTA),
         allocpc' = "out" => allocpc # "push" \/ allocpc' = allocpc,
         denied' \in {"none", "AKERN", "ADRIVER", "AUSER"}
  PROVE  AllocInv'
<1> USE DEF AllocInv
<1>1. /\ freepageq \in Seq(Frame) /\ Inj(freepageq) /\ Len(freepageq) > 0
      /\ nfreepage = Len(freepageq) /\ KERNQUOTA \in Nat \ {0}
  BY PageAllocAssumption DEF AllocTypeOK, FreeListExact
<1> DEFINE h == Head(freepageq)
<1>2. /\ h \in Frame /\ freepageq' \in Seq(Frame) /\ Inj(freepageq')
      /\ Len(freepageq') = Len(freepageq) - 1
      /\ Rng(freepageq') = Rng(freepageq) \ {h}
      /\ h \in Rng(freepageq)
  BY <1>1, PopQueue DEF Pop
<1>3. nfreepage' = nfreepage - 1 /\ pagerefcnt' = [pagerefcnt EXCEPT ![h] = 1]
  BY DEF Pop
<1> HIDE DEF h
<1>4. AllocTypeOK'
  BY <1>1, <1>2, <1>3 DEF AllocTypeOK
<1>5. Reserve'
  BY <1>1, <1>3, <1>4 DEF Reserve, AllocTypeOK
<1>6. allocpc' = "push" <=> allocpc = "push"
  OBVIOUS
<1>7. \A p \in Frame : pagerefcnt'[p] = 0 <=>
        p \in Rng(freepageq') \/ (allocpc' = "push" /\ freeing' = p)
  BY <1>2, <1>3, <1>6 DEF AllocTypeOK, FreeListExact
<1>8. FreeListExact'
  BY <1>1, <1>2, <1>3, <1>6, <1>7 DEF FreeListExact
<1> QED BY <1>4, <1>5, <1>8

\* A step that gives page p back.
LEMMA PushStep ==
  ASSUME AllocInv, NEW p \in Frame, Push(p), p \notin Rng(freepageq),
         pagerefcnt' \in [Frame -> Nat], pagerefcnt'[p] = 0,
         \A x \in Frame \ {p} : pagerefcnt'[x] = pagerefcnt[x],
         allocpc = "push" => (allocpc' = "out" /\ freeing = p) \/ (allocpc' = allocpc /\ freeing # p),
         allocpc # "push" => allocpc' = allocpc,
         freeing' = freeing, denied' = denied
  PROVE  AllocInv'
<1> USE DEF AllocInv
<1>1. /\ freepageq \in Seq(Frame) /\ Inj(freepageq)
      /\ nfreepage = Len(freepageq) /\ nfreepage \in Nat /\ KERNQUOTA \in Nat
  BY PageAllocAssumption DEF AllocTypeOK, FreeListExact
<1>2. /\ freepageq' \in Seq(Frame) /\ Inj(freepageq')
      /\ Len(freepageq') = Len(freepageq) + 1
      /\ Rng(freepageq') = Rng(freepageq) \cup {p}
  BY <1>1, PushQueue DEF Push
<1>3. nfreepage' = nfreepage + 1
  BY DEF Push
<1>4. AllocTypeOK'
  BY <1>1, <1>2, <1>3 DEF AllocTypeOK
<1>5. Reserve'
  BY <1>1, <1>3 DEF Reserve
<1>6. \A x \in Frame : pagerefcnt'[x] = 0 <=>
        x \in Rng(freepageq') \/ (allocpc' = "push" /\ freeing' = x)
  BY <1>2 DEF FreeListExact
<1>7. allocpc' = "push" => freeing' \notin Rng(freepageq')
  BY <1>2 DEF FreeListExact
<1>8. FreeListExact'
  BY <1>1, <1>2, <1>3, <1>6, <1>7 DEF FreeListExact
<1> QED BY <1>4, <1>5, <1>8

LEMMA NextAllocInv == AllocInv /\ [AllocNext]_allocvars => AllocInv'
<1> SUFFICES ASSUME AllocInv, [AllocNext]_allocvars PROVE AllocInv'
  OBVIOUS
<1> USE DEF AllocInv
<1>0. /\ nfreepage \in Nat /\ KERNQUOTA \in Nat \ {0} /\ DRIVERQUOTA \in Nat
      /\ nfreepage = Len(freepageq) /\ freepageq \in Seq(Frame)
  BY PageAllocAssumption DEF AllocTypeOK, FreeListExact
<1>1. ASSUME NEW flag \in {"AKERN", "AUSER"}, Request(flag) PROVE AllocInv'
  <2>1. AllocTypeOK'
    BY <1>1 DEF Request, AllocTypeOK
  <2>2. FreeListExact'
    BY <1>1 DEF Request, FreeListExact
  <2>3. Reserve'
    BY <1>1, <1>0 DEF Request, Reserve, MayAlloc
  <2> QED BY <2>1, <2>2, <2>3
<1>2. CASE Alloc
  <2>1. Pop /\ allocpc' = "out" /\ freeing' = freeing /\ denied' = denied /\ allocpc # "push"
    BY <1>2 DEF Alloc
  <2>2. nfreepage > 0
    BY <1>2, <1>0 DEF Alloc, Reserve
  <2>3. denied' \in {"none", "AKERN", "ADRIVER", "AUSER"}
    BY <2>1 DEF AllocTypeOK
  <2> QED BY <2>1, <2>2, <2>3, PopStep
<1>3. CASE Free
  <2>1. /\ allocpc = "push" /\ allocpc' = "out" /\ Push(freeing) /\ pagerefcnt' = pagerefcnt
        /\ freeing' = freeing /\ denied' = denied
    BY <1>3 DEF Free
  <2>2. /\ freeing \in Frame /\ freeing \notin Rng(freepageq)
        /\ pagerefcnt' \in [Frame -> Nat] /\ pagerefcnt'[freeing] = 0
        /\ \A x \in Frame \ {freeing} : pagerefcnt'[x] = pagerefcnt[x]
    BY <2>1 DEF AllocTypeOK, FreeListExact
  <2> QED BY <2>1, <2>2, PushStep
<1>4. CASE IrqAlloc
  <2>1. CASE MayAlloc("ADRIVER")
    <3>1. Pop /\ denied' = "none" /\ allocpc' = allocpc /\ freeing' = freeing
      BY <1>4, <2>1 DEF IrqAlloc
    <3>2. nfreepage > KERNQUOTA /\ nfreepage > 0
      BY <2>1, <1>0 DEF MayAlloc
    <3> QED BY <3>1, <3>2, PopStep
  <2>2. CASE ~MayAlloc("ADRIVER")
    <3>1. /\ UNCHANGED <<freepageq, nfreepage, pagerefcnt, allocpc, freeing>>
          /\ denied' = "ADRIVER"
      BY <1>4, <2>2 DEF IrqAlloc
    <3> QED BY <3>1 DEF AllocTypeOK, FreeListExact, Reserve
  <2> QED BY <2>1, <2>2
<1>5. ASSUME NEW p \in Frame, Dupphys(p) PROVE AllocInv'
  <2>1. /\ UNCHANGED <<freepageq, nfreepage, allocpc, freeing, denied>>
        /\ pagerefcnt[p] \in Nat /\ pagerefcnt[p] > 0 /\ pagerefcnt' = [pagerefcnt EXCEPT ![p] = pagerefcnt[p] + 1]
    BY <1>5 DEF Dupphys, AllocTypeOK
  <2>2. AllocTypeOK' /\ Reserve'
    BY <2>1 DEF AllocTypeOK, Reserve
  <2>3. \A x \in Frame : pagerefcnt'[x] = 0 <=> pagerefcnt[x] = 0
    BY <2>1 DEF AllocTypeOK
  <2> QED BY <2>1, <2>2, <2>3 DEF FreeListExact
<1>6. ASSUME NEW p \in Frame, Release(p) PROVE AllocInv'
  <2>1. /\ UNCHANGED <<freepageq, nfreepage, denied>> /\ allocpc = "out"
        /\ pagerefcnt[p] \in Nat /\ pagerefcnt[p] > 0 /\ pagerefcnt' = [pagerefcnt EXCEPT ![p] = pagerefcnt[p] - 1]
        /\ IF pagerefcnt[p] = 1 THEN allocpc' = "push" /\ freeing' = p
             ELSE allocpc' = allocpc /\ freeing' = freeing
    BY <1>6 DEF Release, AllocTypeOK
  <2>2. AllocTypeOK' /\ Reserve'
    BY <2>1 DEF AllocTypeOK, Reserve
  <2>3. p \notin Rng(freepageq)
    BY <2>1 DEF FreeListExact
  <2>4. \A x \in Frame : pagerefcnt'[x] = 0 <=>
          x \in Rng(freepageq) \/ (allocpc' = "push" /\ freeing' = x)
    BY <2>1, <2>3 DEF AllocTypeOK, FreeListExact
  <2> QED BY <2>1, <2>2, <2>3, <2>4 DEF FreeListExact
<1>7. ASSUME NEW p \in Frame, IrqFree(p) PROVE AllocInv'
  <2>1. /\ pagerefcnt[p] = 1 /\ pagerefcnt' = [pagerefcnt EXCEPT ![p] = 0] /\ Push(p)
        /\ UNCHANGED <<allocpc, freeing, denied>>
    BY <1>7 DEF IrqFree
  <2>2. /\ p \notin Rng(freepageq) /\ (allocpc = "push" => freeing # p)
        /\ pagerefcnt' \in [Frame -> Nat] /\ pagerefcnt'[p] = 0
        /\ \A x \in Frame \ {p} : pagerefcnt'[x] = pagerefcnt[x]
    BY <2>1 DEF AllocTypeOK, FreeListExact
  <2> QED BY <2>1, <2>2, PushStep
<1>8. CASE UNCHANGED allocvars
  BY <1>8 DEF allocvars, AllocTypeOK, FreeListExact, Reserve
<1> QED BY <1>1, <1>2, <1>3, <1>4, <1>5, <1>6, <1>7, <1>8 DEF AllocNext

\* The inductive invariant holds throughout.
THEOREM Inductive == AllocSpec => []AllocInv
<1> QED BY InitAllocInv, NextAllocInv, PTL DEF AllocSpec

\* allocpage and freepage keep the free list exact, whatever the interrupt does
\* between their tests and their cli().
THEOREM FreeListCorrect == AllocSpec => [](AllocTypeOK /\ FreeListExact)
<1>1. AllocInv => AllocTypeOK /\ FreeListExact
  BY DEF AllocInv
<1> QED BY <1>1, Inductive, PTL

\* A request that passed its quota test finds a page after cli().
THEOREM AllocCorrect == AllocSpec => []NeverPopsEmpty
<1>1. AllocInv => NeverPopsEmpty
  BY PageAllocAssumption DEF AllocInv, AllocTypeOK, FreeListExact, Reserve, NeverPopsEmpty
<1> QED BY <1>1, Inductive, PTL

\* User requests leave the kernel its reserve, but for one page.
THEOREM ReserveCorrect == AllocSpec => ReserveKept
<1>1. AllocInv /\ [AllocNext]_allocvars => [allocpc = "AUSER" /\ Alloc => nfreepage' >= KERNQUOTA - 1]_allocvars
  BY PageAllocAssumption DEF AllocInv, AllocTypeOK, Reserve, Alloc, Pop
<1> QED BY <1>1, Inductive, PTL DEF AllocSpec, ReserveKept

----------------------------------------------------------------------------
(* The address spaces. *)

\* A row is the table of one task; Here(r, P, f) are the pages of P at which it
\* maps frame f, Entries(p, f) the places of all tables that map it.
Row == [Page -> Pte \cup {NoPte}]
Here(r, P, f) == {v \in P : r[v] # NoPte /\ r[v].page = f}
Entries(p, f) == {x \in Task \X Page : p[x[1]][x[2]] # NoPte /\ p[x[1]][x[2]].page = f}

\* What the translation cache has is in the table, with no more rights there
\* than here: every place that takes rights or a frame away has flushed it.
TlbInTable ==
  \A v \in Page : tlb[v] # NoPte =>
    /\ pte[curr][v] # NoPte
    /\ tlb[v].page = pte[curr][v].page
    /\ tlb[v].w => pte[curr][v].w

IInv == TypeOK /\ RefcntExact /\ SharedIsReadOnly /\ SegmentsHoldPtes /\ TlbInTable

----------------------------------------------------------------------------
(* Counting. *)

LEMMA PageFinite == IsFiniteSet(Page)
<1>1. Top \in Int /\ 0 \in Int
  BY CowAssumption
<1> QED BY <1>1, FS_Interval DEF Page

\* The pages of a row that map a frame are finitely many, and none of them at
\* pages that map nothing.
LEMMA MapsType ==
  ASSUME NEW r, NEW P \in SUBSET Page, NEW f
  PROVE  /\ IsFiniteSet(Here(r, P, f)) /\ Maps(r, P, f) = Cardinality(Here(r, P, f))
         /\ Maps(r, P, f) \in Nat
         /\ Maps(r, P, f) = 0 <=> \A v \in P : r[v] # NoPte => r[v].page # f
<1>1. IsFiniteSet(Here(r, P, f))
  BY PageFinite, FS_Subset, Here(r, P, f) \subseteq Page DEF Here
<1>2. Maps(r, P, f) = Cardinality(Here(r, P, f))
  BY DEF Maps, Here
<1>3. Cardinality(Here(r, P, f)) = 0 <=> Here(r, P, f) = {}
  BY <1>1, FS_EmptySet
<1>4. Here(r, P, f) = {} <=> \A v \in P : r[v] # NoPte => r[v].page # f
  BY DEF Here
<1> QED BY <1>1, <1>2, <1>3, <1>4, FS_CardinalityType

\* Rows that map a frame at the same pages map it equally often.
LEMMA MapsSame ==
  ASSUME NEW r, NEW s, NEW P \in SUBSET Page, NEW f,
         \A v \in P : (r[v] # NoPte /\ r[v].page = f) <=> (s[v] # NoPte /\ s[v].page = f)
  PROVE  Maps(r, P, f) = Maps(s, P, f)
<1>1. Here(r, P, f) = Here(s, P, f)
  BY DEF Here
<1> QED BY <1>1, MapsType

\* A row that maps a frame at one page more maps it once more.
LEMMA MapsOneMore ==
  ASSUME NEW r, NEW s, NEW v \in Page, NEW f,
         r[v] # NoPte => r[v].page # f, s[v] # NoPte, s[v].page = f,
         \A w \in Page \ {v} : r[w] = s[w]
  PROVE  Maps(s, Page, f) = Maps(r, Page, f) + 1
<1>1. Here(s, Page, f) = Here(r, Page, f) \cup {v} /\ v \notin Here(r, Page, f)
  BY DEF Here
<1>2. IsFiniteSet(Here(r, Page, f))
  BY MapsType
<1>3. Cardinality(Here(r, Page, f) \cup {v}) = Cardinality(Here(r, Page, f)) + 1
  BY <1>1, <1>2, FS_AddElement
<1>4. /\ Maps(s, Page, f) = Cardinality(Here(s, Page, f))
      /\ Maps(r, Page, f) = Cardinality(Here(r, Page, f))
  BY MapsType
<1> QED BY <1>1, <1>3, <1>4

\* A row from which the pages P are unmapped maps the rest.
LEMMA MapsUnmapped ==
  ASSUME NEW r, NEW s, NEW P \in SUBSET Page, NEW f,
         \A v \in Page : s[v] = IF v \in P THEN NoPte ELSE r[v]
  PROVE  Maps(s, Page, f) = Maps(r, Page, f) - Maps(r, P, f)
<1>1. /\ Here(s, Page, f) = Here(r, Page, f) \ Here(r, P, f)
      /\ Here(r, P, f) = Here(r, Page, f) \cap Here(r, P, f)
  BY DEF Here
<1>2. IsFiniteSet(Here(r, Page, f)) /\ IsFiniteSet(Here(r, P, f))
  BY MapsType
<1>3. Cardinality(Here(r, Page, f) \ Here(r, P, f))
        = Cardinality(Here(r, Page, f)) - Cardinality(Here(r, Page, f) \cap Here(r, P, f))
  BY <1>2, FS_Difference
<1>4. /\ Maps(s, Page, f) = Cardinality(Here(s, Page, f))
      /\ Maps(r, Page, f) = Cardinality(Here(r, Page, f))
      /\ Maps(r, P, f) = Cardinality(Here(r, P, f))
  BY MapsType
<1> QED BY <1>1, <1>3, <1>4

\* The tables are finite, and a frame that no row maps has no entry.
LEMMA EntriesType ==
  ASSUME NEW p, NEW f
  PROVE  /\ IsFiniteSet(Entries(p, f)) /\ Cardinality(Entries(p, f)) \in Nat
         /\ Cardinality(Entries(p, f)) = 0 <=>
              \A t \in Task, v \in Page : p[t][v] # NoPte => p[t][v].page # f
<1>1. IsFiniteSet(Task \X Page)
  BY PageFinite, CowAssumption, FS_Product
<1>2. IsFiniteSet(Entries(p, f))
  BY <1>1, FS_Subset, Entries(p, f) \subseteq Task \X Page DEF Entries
<1>3. Cardinality(Entries(p, f)) = 0 <=> Entries(p, f) = {}
  BY <1>2, FS_EmptySet
<1>4. Entries(p, f) = {} <=> \A t \in Task, v \in Page : p[t][v] # NoPte => p[t][v].page # f
  <2>1. ASSUME Entries(p, f) = {}, NEW t \in Task, NEW v \in Page, p[t][v] # NoPte, p[t][v].page = f
        PROVE  FALSE
    <3>1. <<t, v>> \in Entries(p, f)
      BY <2>1 DEF Entries
    <3> QED BY <2>1, <3>1
  <2> QED BY <2>1 DEF Entries
<1> QED BY <1>2, <1>3, <1>4, FS_CardinalityType

\* Two entries for one frame count twice.
LEMMA TwoEntries ==
  ASSUME NEW p, NEW f,
         NEW t \in Task, NEW v \in Page, p[t][v] # NoPte, p[t][v].page = f,
         NEW u \in Task, NEW w \in Page, p[u][w] # NoPte, p[u][w].page = f,
         <<t, v>> # <<u, w>>
  PROVE  Cardinality(Entries(p, f)) >= 2
<1> DEFINE E == Entries(p, f)
<1>1. <<t, v>> \in E /\ <<u, w>> \in E /\ <<u, w>> \in E \ {<<t, v>>}
  BY DEF Entries
<1>2. IsFiniteSet(E) /\ Cardinality(E) \in Nat
  BY EntriesType
<1>3. IsFiniteSet(E \ {<<t, v>>}) /\ Cardinality(E \ {<<t, v>>}) = Cardinality(E) - 1
  BY <1>1, <1>2, FS_RemoveElement
<1>4. Cardinality(E \ {<<t, v>>}) # 0
  BY <1>1, <1>3, FS_EmptySet
<1>5. Cardinality(E \ {<<t, v>>}) \in Nat
  BY <1>3, FS_CardinalityType
<1> QED BY <1>2, <1>3, <1>4, <1>5

\* One row is replaced: the count changes by what the two rows map.
LEMMA RowReplaced ==
  ASSUME NEW p \in [Task -> Row], NEW q \in [Task -> Row], NEW t \in Task, NEW f,
         \A u \in Task \ {t} : q[u] = p[u]
  PROVE  Cardinality(Entries(q, f))
           = Cardinality(Entries(p, f)) - Maps(p[t], Page, f) + Maps(q[t], Page, f)
<1> DEFINE Rest == {x \in Entries(p, f) : x[1] # t}
           A == Here(p[t], Page, f)
           B == Here(q[t], Page, f)
<1>1. /\ Entries(p, f) = Rest \cup ({t} \X A) /\ Rest \cap ({t} \X A) = {}
      /\ Entries(q, f) = Rest \cup ({t} \X B) /\ Rest \cap ({t} \X B) = {}
  BY DEF Entries, Here
<1>2. IsFiniteSet(Rest) /\ Cardinality(Rest) \in Nat
  BY EntriesType, FS_Subset, FS_CardinalityType
<1>3. ASSUME NEW S \in SUBSET Page, IsFiniteSet(S)
      PROVE  IsFiniteSet({t} \X S) /\ Cardinality({t} \X S) = Cardinality(S)
  <2>1. IsFiniteSet({t}) /\ Cardinality({t}) = 1
    BY FS_Singleton
  <2>2. IsFiniteSet({t} \X S) /\ Cardinality({t} \X S) = Cardinality({t}) * Cardinality(S)
    BY <2>1, <1>3, FS_Product
  <2>3. Cardinality(S) \in Nat
    BY <1>3, FS_CardinalityType
  <2> QED BY <2>1, <2>2, <2>3
<1>4. /\ IsFiniteSet(A) /\ Cardinality(A) = Maps(p[t], Page, f) /\ Cardinality(A) \in Nat
      /\ IsFiniteSet(B) /\ Cardinality(B) = Maps(q[t], Page, f) /\ Cardinality(B) \in Nat
  BY MapsType
<1>5. A \in SUBSET Page /\ B \in SUBSET Page
  BY DEF Here
<1>6. /\ IsFiniteSet({t} \X A) /\ Cardinality({t} \X A) = Cardinality(A)
      /\ IsFiniteSet({t} \X B) /\ Cardinality({t} \X B) = Cardinality(B)
  BY <1>3, <1>4, <1>5
<1>7. Cardinality({}) = 0
  BY FS_EmptySet
<1>8. /\ Cardinality(Rest \cup ({t} \X A))
           = Cardinality(Rest) + Cardinality({t} \X A) - Cardinality(Rest \cap ({t} \X A))
      /\ Cardinality(Rest \cup ({t} \X B))
           = Cardinality(Rest) + Cardinality({t} \X B) - Cardinality(Rest \cap ({t} \X B))
  BY <1>2, <1>6, FS_Union
<1>9. /\ Cardinality(Entries(p, f)) = Cardinality(Rest) + Cardinality(A)
      /\ Cardinality(Entries(q, f)) = Cardinality(Rest) + Cardinality(B)
  <2> HIDE DEF Rest, A, B
  <2>1. /\ Cardinality(Entries(p, f)) = Cardinality(Rest) + Cardinality({t} \X A) - Cardinality({})
        /\ Cardinality(Entries(q, f)) = Cardinality(Rest) + Cardinality({t} \X B) - Cardinality({})
    BY ONLY <1>1, <1>8
  <2> QED BY <1>2, <1>4, <1>6, <1>7, <2>1
<1> HIDE DEF Rest, A, B
<1> QED BY <1>2, <1>4, <1>9

----------------------------------------------------------------------------
(* What the invariant says of a state. *)

\* SharedIsReadOnly without the translation cache, which follows from it.
PteReadOnly ==
  \A t \in Task, v \in Page : pte[t][v] # NoPte /\ pte[t][v].w => refcnt[pte[t][v].page] = 1

LEMMA TypeFacts ==
  ASSUME TypeOK
  PROVE  /\ pte \in [Task -> Row] /\ tlb \in Row /\ curr \in Task
         /\ \A t \in Task : pte[t] \in Row
         /\ \A t \in Task, v \in Page : pte[t][v] # NoPte =>
              pte[t][v] \in Pte /\ pte[t][v].page \in UserFrame /\ pte[t][v].w \in BOOLEAN
BY DEF TypeOK, Row, Pte

LEMMA SharedFromPte ==
  /\ TypeOK /\ SharedIsReadOnly => PteReadOnly
  /\ TypeOK /\ PteReadOnly /\ TlbInTable => SharedIsReadOnly
<1>1. TypeOK /\ SharedIsReadOnly => PteReadOnly
  BY DEF SharedIsReadOnly, PteReadOnly
<1>2. ASSUME TypeOK, PteReadOnly, TlbInTable PROVE SharedIsReadOnly
  <2>1. curr \in Task
    BY <1>2, TypeFacts
  <2> QED BY <1>2, <2>1 DEF PteReadOnly, TlbInTable, SharedIsReadOnly
<1> QED BY <1>1, <1>2

LEMMA ExactEntries ==
  RefcntExact <=> \A f \in UserFrame : refcnt[f] = orphan[f] + Cardinality(Entries(pte, f))
BY DEF RefcntExact, Entries

\* No entry maps a free frame.
LEMMA FreeIsUnmapped ==
  ASSUME TypeOK, RefcntExact, NEW f \in FreeFrame, NEW t \in Task, NEW v \in Page, pte[t][v] # NoPte
  PROVE  f \in UserFrame /\ refcnt[f] = 0 /\ pte[t][v].page # f
<1>1. f \in UserFrame /\ refcnt[f] = 0 /\ orphan[f] \in Nat
  BY DEF FreeFrame, TypeOK
<1>2. Cardinality(Entries(pte, f)) \in Nat
  BY EntriesType
<1>3. Cardinality(Entries(pte, f)) = 0
  BY <1>1, <1>2, ExactEntries
<1> QED BY <1>1, <1>3, EntriesType

\* A frame with one reference has no second entry.
LEMMA SoleEntry ==
  ASSUME TypeOK, RefcntExact,
         NEW t \in Task, NEW v \in Page, pte[t][v] # NoPte, refcnt[pte[t][v].page] = 1,
         NEW u \in Task, NEW w \in Page, pte[u][w] # NoPte, pte[u][w].page = pte[t][v].page
  PROVE  u = t /\ w = v
<1> DEFINE f == pte[t][v].page
<1>1. f \in UserFrame /\ orphan[f] \in Nat
  BY TypeFacts DEF TypeOK
<1>2. SUFFICES ASSUME <<t, v>> # <<u, w>> PROVE FALSE
  OBVIOUS
<1>3. Cardinality(Entries(pte, f)) >= 2 /\ Cardinality(Entries(pte, f)) \in Nat
  BY <1>2, TwoEntries, EntriesType
<1> QED BY <1>1, <1>3, ExactEntries

\* ... and so is not mapped at pages that are not its own.
LEMMA SoleMaps ==
  ASSUME TypeOK, RefcntExact,
         NEW t \in Task, NEW v \in Page, pte[t][v] # NoPte, refcnt[pte[t][v].page] = 1,
         NEW u \in Task, NEW P \in SUBSET Page, u # t \/ v \notin P
  PROVE  Maps(pte[u], P, pte[t][v].page) = 0
<1>1. \A w \in P : pte[u][w] # NoPte => pte[u][w].page # pte[t][v].page
  BY SoleEntry
<1> QED BY <1>1, MapsType

\* The counts stay exact when one task's table is replaced and each count is
\* corrected by the entries that came and went.
LEMMA CountStep ==
  ASSUME TypeOK, RefcntExact, NEW t \in Task, NEW r \in Row,
         pte' = [pte EXCEPT ![t] = r], orphan' = orphan,
         refcnt' \in [UserFrame -> Int],
         \A f \in UserFrame : refcnt'[f] = refcnt[f] - Maps(pte[t], Page, f) + Maps(r, Page, f)
  PROVE  pte' \in [Task -> Row] /\ RefcntExact' /\ refcnt' \in [UserFrame -> Nat]
<1>0. pte \in [Task -> Row]
  BY TypeFacts
<1>1. pte' \in [Task -> Row] /\ pte'[t] = r /\ \A u \in Task \ {t} : pte'[u] = pte[u]
  BY <1>0
<1>2. ASSUME NEW f \in UserFrame
      PROVE  /\ refcnt'[f] = orphan'[f] + Cardinality(Entries(pte', f))
             /\ refcnt'[f] \in Nat
  <2>1. Cardinality(Entries(pte', f)) =
          Cardinality(Entries(pte, f)) - Maps(pte[t], Page, f) + Maps(r, Page, f)
    <3>1. Cardinality(Entries(pte', f)) =
            Cardinality(Entries(pte, f)) - Maps(pte[t], Page, f) + Maps(pte'[t], Page, f)
      BY ONLY <1>0, <1>1, RowReplaced, t \in Task
    <3> QED BY ONLY <1>1, <3>1
  <2>2. refcnt[f] = orphan[f] + Cardinality(Entries(pte, f)) /\ orphan[f] \in Nat
    BY ExactEntries DEF TypeOK
  <2>3. /\ Cardinality(Entries(pte, f)) \in Nat /\ Cardinality(Entries(pte', f)) \in Nat
        /\ Maps(pte[t], Page, f) \in Nat /\ Maps(r, Page, f) \in Nat
    BY EntriesType, MapsType
  <2> QED BY <2>1, <2>2, <2>3
<1>3. RefcntExact'
  BY <1>2 DEF RefcntExact, Entries
<1>4. refcnt' \in [UserFrame -> Nat]
  BY <1>2
<1> QED BY <1>1, <1>3, <1>4

----------------------------------------------------------------------------
(* The steps. *)

\* The parts of the invariant from which the rest follows.
LEMMA Recombine ==
  TypeOK /\ RefcntExact /\ PteReadOnly /\ SegmentsHoldPtes /\ TlbInTable => IInv
BY SharedFromPte DEF IInv

LEMMA RecombineNext ==
  TypeOK' /\ RefcntExact' /\ PteReadOnly' /\ SegmentsHoldPtes' /\ TlbInTable' => IInv'
BY Recombine, PTL

LEMMA InitIInv == Init => IInv
<1> SUFFICES ASSUME Init PROVE IInv
  OBVIOUS
<1>1. TypeOK
  BY CowAssumption DEF Init, TypeOK, Unmapped
<1>2. \A v \in Page : tlb[v] = NoPte /\ \A t \in Task : pte[t][v] = NoPte
  BY DEF Init, Unmapped
<1>3. RefcntExact
  <2>1. \A f \in UserFrame : Cardinality(Entries(pte, f)) = 0
    BY <1>2, EntriesType
  <2> QED BY <2>1, ExactEntries DEF Init
<1>4. PteReadOnly /\ TlbInTable
  BY <1>2 DEF PteReadOnly, TlbInTable
<1>5. SegmentsHoldPtes
  BY <1>2, CowAssumption DEF SegmentsHoldPtes, Init
<1> QED BY <1>1, <1>3, <1>4, <1>5, Recombine

LEMMA LoadStoreStep ==
  ASSUME IInv, NEW v \in Page, NEW x \in Val, Load(v) \/ Store(v, x)
  PROVE  IInv'
<1>1. TypeOK /\ RefcntExact /\ PteReadOnly /\ SegmentsHoldPtes /\ TlbInTable
  BY SharedFromPte DEF IInv
<1>2. PICK e \in Walk(v) :
        /\ tlb' = [tlb EXCEPT ![v] = e]
        /\ UNCHANGED <<live, curr, pte, ebss, stack, refcnt, orphan>>
        /\ \/ seen' = data[e.page] /\ data' = data
           \/ seen' = seen /\ data' = [data EXCEPT ![e.page] = x]
  BY DEF Load, Store
<1>3. /\ e \in Pte /\ pte[curr][v] # NoPte /\ e.page = pte[curr][v].page
      /\ e.w => pte[curr][v].w
  BY <1>1, TypeFacts, CowAssumption DEF Walk, TlbInTable, Row, Pte
<1>4. e.page \in UserFrame
  BY <1>3 DEF Pte
<1>5. TypeOK'
  BY <1>1, <1>2, <1>3, <1>4 DEF TypeOK
<1>6. TlbInTable'
  <2>1. tlb \in Row
    BY <1>1, TypeFacts
  <2> QED BY <1>1, <1>2, <1>3, <2>1 DEF TlbInTable, Row
<1>7. RefcntExact' /\ PteReadOnly' /\ SegmentsHoldPtes'
  BY <1>1, <1>2 DEF RefcntExact, PteReadOnly, SegmentsHoldPtes, Mapped
<1> QED BY <1>5, <1>6, <1>7, RecombineNext

\* What an unfold of the invariant gives in every step below.
LEMMA Parts ==
  ASSUME IInv
  PROVE  /\ TypeOK /\ RefcntExact /\ PteReadOnly /\ SegmentsHoldPtes /\ TlbInTable
         /\ pte \in [Task -> Row] /\ pte[curr] \in Row /\ tlb \in Row /\ curr \in Task
         /\ refcnt \in [UserFrame -> Nat]
BY SharedFromPte, TypeFacts DEF IInv, TypeOK

LEMMA NopageStep ==
  ASSUME IInv, NEW v \in Page, Nopage(v)
  PROVE  IInv'
<1>1. /\ TypeOK /\ RefcntExact /\ PteReadOnly /\ SegmentsHoldPtes /\ TlbInTable
      /\ pte \in [Task -> Row] /\ pte[curr] \in Row /\ tlb \in Row /\ curr \in Task
      /\ refcnt \in [UserFrame -> Nat]
  BY Parts
<1>2. PICK f \in FreeFrame :
        /\ v \in Mapped(curr) \cup Gap(curr)
        /\ pte[curr][v] = NoPte
        /\ stack' = Grown(v)
        /\ pte' = [pte EXCEPT ![curr][v] = [page |-> f, w |-> v \in Writable]]
        /\ refcnt' = [refcnt EXCEPT ![f] = 1]
        /\ data' = [data EXCEPT ![f] = Fresh[v]]
        /\ UNCHANGED <<live, curr, tlb, ebss, orphan, seen>>
  BY DEF Nopage
<1>3. f \in UserFrame /\ refcnt[f] = 0
  BY DEF FreeFrame
<1> DEFINE e == [page |-> f, w |-> v \in Writable]
           r == [pte[curr] EXCEPT ![v] = e]
<1>4. e \in Pte /\ e # NoPte /\ e.page = f
  <2>1. e \in [page : UserFrame, w : BOOLEAN]
    BY ONLY <1>3
  <2>2. e # NoPte
    BY ONLY <2>1, CowAssumption
  <2> QED BY ONLY <2>1, <2>2 DEF Pte
<1>5. /\ r \in Row /\ r[v] = e /\ \A w \in Page \ {v} : pte[curr][w] = r[w]
      /\ pte' = [pte EXCEPT ![curr] = r]
  BY <1>1, <1>2, <1>4 DEF Row
<1>6. \A t \in Task, w \in Page : pte[t][w] # NoPte => pte[t][w].page # f
  BY <1>1, FreeIsUnmapped
<1>7. \A g \in UserFrame : refcnt'[g] = refcnt[g] - Maps(pte[curr], Page, g) + Maps(r, Page, g)
  <2> SUFFICES ASSUME NEW g \in UserFrame
               PROVE  refcnt'[g] = refcnt[g] - Maps(pte[curr], Page, g) + Maps(r, Page, g)
    OBVIOUS
  <2> HIDE DEF e, r
  <2>1. Maps(pte[curr], Page, g) \in Nat
    BY MapsType
  <2>2. CASE g = f
    <3>1. Maps(r, Page, g) = Maps(pte[curr], Page, g) + 1
      BY <1>2, <1>4, <1>5, <2>2, MapsOneMore
    <3>2. refcnt'[g] = 1
      BY <1>1, <1>2, <2>2
    <3> QED BY <1>3, <2>1, <2>2, <3>1, <3>2
  <2>3. CASE g # f
    <3>1. Maps(r, Page, g) = Maps(pte[curr], Page, g)
      BY <1>2, <1>4, <1>5, <2>3, MapsSame
    <3>2. refcnt'[g] = refcnt[g] /\ refcnt[g] \in Nat
      BY <1>1, <1>2, <2>3
    <3> QED BY <2>1, <3>1, <3>2
  <2> QED BY <2>2, <2>3
<1> HIDE DEF e, r
<1>8. pte' \in [Task -> Row] /\ RefcntExact' /\ refcnt' \in [UserFrame -> Nat]
  <2>1. refcnt' \in [UserFrame -> Int] /\ orphan' = orphan
    <3>1. \A g \in UserFrame : refcnt[g] \in Int /\ 1 \in Int
      BY <1>1
    <3> QED BY <1>1, <1>2, <3>1
  <2> QED BY <1>1, <1>5, <1>7, <2>1, CountStep
<1>9. ebss[curr] \in Nat /\ stack[curr] \in Nat /\ stack[curr] <= Top /\ Bss \in Nat /\ v \in Nat /\ v <= Top
  BY <1>1, CowAssumption DEF TypeOK, Page
<1>10. stack' \in [Task -> Bss..Top]
  BY <1>1, <1>2, <1>9, CowAssumption DEF Grown, Gap, TypeOK
<1>11. TypeOK'
  BY <1>1, <1>2, <1>3, <1>8, <1>10, CowAssumption DEF TypeOK, Row
<1>12. PteReadOnly'
  <2> SUFFICES ASSUME NEW t \in Task, NEW w \in Page, pte'[t][w] # NoPte, pte'[t][w].w
               PROVE  refcnt'[pte'[t][w].page] = 1
    BY DEF PteReadOnly
  <2>1. CASE t = curr /\ w = v
    BY <1>1, <1>2, <1>3, <1>4, <1>5, <2>1
  <2>2. CASE ~(t = curr /\ w = v)
    <3>1. pte'[t][w] = pte[t][w]
      BY <1>1, <1>5, <2>2
    <3>2. pte[t][w].page # f /\ refcnt[pte[t][w].page] = 1 /\ pte[t][w].page \in UserFrame
      BY <1>1, <1>6, <3>1, TypeFacts DEF PteReadOnly
    <3> QED BY <1>1, <1>2, <3>1, <3>2
  <2> QED BY <2>1, <2>2
<1>13. SegmentsHoldPtes'
  <2>1. ASSUME NEW t \in Task PROVE ebss'[t] <= stack'[t]
    BY <1>1, <1>2, <1>9 DEF SegmentsHoldPtes, Grown, Gap, TypeOK
  <2>2. ASSUME NEW t \in Task, NEW w \in Page, pte'[t][w] # NoPte
        PROVE  t \in live' /\ w \in Mapped(t)'
    <3>1. stack[t] \in Nat /\ stack'[t] \in Nat /\ stack'[t] <= stack[t] /\ ebss'[t] = ebss[t] /\ w \in Nat
      BY <1>1, <1>2, <1>9, <1>10, CowAssumption DEF Grown, Gap, TypeOK, Page
    <3>2. CASE t = curr /\ w = v
      <4>1. v < ebss'[curr] \/ v >= stack'[curr]
        BY <1>1, <1>2, <1>9 DEF Grown, Gap, Mapped, TypeOK
      <4> QED BY <1>1, <1>2, <3>2, <4>1 DEF Mapped, TypeOK
    <3>3. CASE ~(t = curr /\ w = v)
      <4>1. pte[t][w] # NoPte
        BY <1>1, <1>5, <2>2, <3>3
      <4>2. t \in live /\ w \in Mapped(t)
        BY <1>1, <4>1 DEF SegmentsHoldPtes
      <4> QED BY <1>2, <3>1, <4>2 DEF Mapped
    <3> QED BY <3>2, <3>3
  <2> QED BY <2>1, <2>2 DEF SegmentsHoldPtes
<1>14. TlbInTable'
  <2> SUFFICES ASSUME NEW w \in Page, tlb[w] # NoPte
               PROVE  /\ pte'[curr][w] # NoPte
                      /\ tlb[w].page = pte'[curr][w].page
                      /\ tlb[w].w => pte'[curr][w].w
    BY <1>2 DEF TlbInTable
  <2>1. w # v
    BY <1>1, <1>2 DEF TlbInTable
  <2>2. pte'[curr][w] = pte[curr][w]
    BY <1>1, <1>5, <2>1
  <2> QED BY <1>1, <2>2 DEF TlbInTable
<1> QED BY <1>8, <1>11, <1>12, <1>13, <1>14, RecombineNext

\* The segments stay as they are and no page is newly mapped.
LEMMA SegmentsSame ==
  ASSUME SegmentsHoldPtes, UNCHANGED <<live, ebss, stack>>,
         \A t \in Task, w \in Page : pte'[t][w] # NoPte => pte[t][w] # NoPte
  PROVE  SegmentsHoldPtes'
BY DEF SegmentsHoldPtes, Mapped

\* A write fault is resolved by the entry e, and the cache forgets the page.
LEMMA FaultStep ==
  ASSUME IInv, NEW v \in Page, pte[curr][v] # NoPte, NEW e \in Pte,
         pte' = [pte EXCEPT ![curr] = [pte[curr] EXCEPT ![v] = e]], tlb' = Flush({v}),
         UNCHANGED <<live, curr, ebss, stack, orphan, seen>>,
         data' \in [UserFrame -> Val],
         RefcntExact', refcnt' \in [UserFrame -> Nat], refcnt'[e.page] = 1,
         \A t \in Task, w \in Page : ~(t = curr /\ w = v) /\ pte[t][w] # NoPte /\ pte[t][w].w
            => refcnt'[pte[t][w].page] = 1
  PROVE  IInv'
<1>1. /\ TypeOK /\ PteReadOnly /\ SegmentsHoldPtes /\ TlbInTable
      /\ pte \in [Task -> Row] /\ pte[curr] \in Row /\ tlb \in Row /\ curr \in Task
  BY Parts
<1>2. /\ pte' \in [Task -> Row]
      /\ pte'[curr][v] = e
      /\ \A t \in Task, w \in Page : ~(t = curr /\ w = v) => pte'[t][w] = pte[t][w]
  BY <1>1 DEF Row
<1>3. tlb' \in Row /\ tlb'[v] = NoPte /\ \A w \in Page \ {v} : tlb'[w] = tlb[w]
  BY <1>1 DEF Row, Flush
<1>4. e # NoPte
  BY CowAssumption DEF Pte
<1>5. TypeOK'
  BY <1>1, <1>2, <1>3 DEF TypeOK, Row
<1>6. PteReadOnly'
  BY <1>1, <1>2 DEF PteReadOnly
<1>7. SegmentsHoldPtes'
  BY <1>1, <1>2, SegmentsSame
<1>8. TlbInTable'
  <2> SUFFICES ASSUME NEW w \in Page, tlb'[w] # NoPte
               PROVE  /\ pte'[curr][w] # NoPte
                      /\ tlb'[w].page = pte'[curr][w].page
                      /\ tlb'[w].w => pte'[curr][w].w
    BY DEF TlbInTable
  <2>1. w # v /\ tlb'[w] = tlb[w] /\ pte'[curr][w] = pte[curr][w]
    BY <1>1, <1>2, <1>3
  <2> QED BY <1>1, <2>1 DEF TlbInTable
<1> QED BY <1>5, <1>6, <1>7, <1>8, RecombineNext

LEMMA WppageOwnStep ==
  ASSUME IInv, NEW v \in Page, WppageOwn(v)
  PROVE  IInv'
<1>1. /\ TypeOK /\ RefcntExact /\ PteReadOnly
      /\ pte \in [Task -> Row] /\ pte[curr] \in Row /\ curr \in Task
      /\ refcnt \in [UserFrame -> Nat]
  BY Parts
<1> DEFINE e == [pte[curr][v] EXCEPT !.w = TRUE]
           r == [pte[curr] EXCEPT ![v] = e]
<1>2. /\ pte[curr][v] # NoPte /\ refcnt[pte[curr][v].page] = 1
      /\ pte' = [pte EXCEPT ![curr] = r] /\ tlb' = Flush({v})
      /\ UNCHANGED <<live, curr, ebss, stack, refcnt, data, orphan, seen>>
  BY DEF WppageOwn, WriteFault, OnlyUser
<1>3. e \in Pte /\ e # NoPte /\ e.page = pte[curr][v].page
  BY <1>1, <1>2, CowAssumption, TypeFacts DEF Pte
<1>4. r \in Row /\ r[v] = e /\ \A w \in Page \ {v} : pte[curr][w] = r[w]
  BY <1>1, <1>3 DEF Row
<1> HIDE DEF e, r
<1>5. \A g \in UserFrame : refcnt'[g] = refcnt[g] - Maps(pte[curr], Page, g) + Maps(r, Page, g)
  <2> SUFFICES ASSUME NEW g \in UserFrame
               PROVE  refcnt'[g] = refcnt[g] - Maps(pte[curr], Page, g) + Maps(r, Page, g)
    OBVIOUS
  <2>1. Maps(pte[curr], Page, g) \in Nat
    BY MapsType
  <2>2. Maps(r, Page, g) = Maps(pte[curr], Page, g)
    BY <1>2, <1>3, <1>4, MapsSame
  <2>3. refcnt'[g] = refcnt[g] /\ refcnt[g] \in Nat
    BY <1>1, <1>2
  <2> QED BY <2>1, <2>2, <2>3
<1>6. refcnt' \in [UserFrame -> Int] /\ orphan' = orphan
  <2>1. \A g \in UserFrame : refcnt[g] \in Int
    BY <1>1
  <2> QED BY <1>1, <1>2, <2>1
<1>7. RefcntExact' /\ refcnt' \in [UserFrame -> Nat]
  BY <1>1, <1>2, <1>4, <1>5, <1>6, CountStep
<1>8. data' \in [UserFrame -> Val] /\ refcnt'[e.page] = 1
  BY <1>1, <1>2, <1>3 DEF TypeOK
<1>9. \A t \in Task, w \in Page : ~(t = curr /\ w = v) /\ pte[t][w] # NoPte /\ pte[t][w].w
        => refcnt'[pte[t][w].page] = 1
  BY <1>1, <1>2 DEF PteReadOnly
<1> QED BY <1>2, <1>3, <1>7, <1>8, <1>9, FaultStep DEF r

LEMMA WppageCopyStep ==
  ASSUME IInv, NEW v \in Page, WppageCopy(v)
  PROVE  IInv'
<1>1. /\ TypeOK /\ RefcntExact /\ PteReadOnly
      /\ pte \in [Task -> Row] /\ pte[curr] \in Row /\ curr \in Task
      /\ refcnt \in [UserFrame -> Nat]
  BY Parts
<1> DEFINE our == pte[curr][v].page
<1>2. PICK my \in FreeFrame :
        /\ pte[curr][v] # NoPte /\ refcnt[our] # 1
        /\ pte' = [pte EXCEPT ![curr][v] = [page |-> my, w |-> TRUE]]
        /\ tlb' = Flush({v})
        /\ data' = [data EXCEPT ![my] = data[our]]
        /\ refcnt' = [refcnt EXCEPT ![my] = 1, ![our] = @ - 1]
        /\ UNCHANGED <<live, curr, ebss, stack, orphan, seen>>
  BY DEF WppageCopy, WriteFault, OnlyUser
<1> DEFINE e == [page |-> my, w |-> TRUE]
           r == [pte[curr] EXCEPT ![v] = e]
<1>3. my \in UserFrame /\ refcnt[my] = 0 /\ our \in UserFrame /\ our # my
  BY <1>1, <1>2, FreeIsUnmapped, TypeFacts
<1>4. e \in Pte /\ e # NoPte /\ e.page = my
  <2>1. e \in Pte /\ e.page = my
    BY <1>3 DEF Pte
  <2> QED BY <2>1, CowAssumption DEF Pte
<1>5. /\ r \in Row /\ r[v] = e /\ \A w \in Page \ {v} : pte[curr][w] = r[w]
      /\ pte' = [pte EXCEPT ![curr] = r]
  BY <1>1, <1>2, <1>4 DEF Row
<1>6. /\ refcnt'[my] = 1 /\ refcnt'[our] = refcnt[our] - 1
      /\ \A g \in UserFrame \ {my, our} : refcnt'[g] = refcnt[g]
      /\ refcnt' \in [UserFrame -> Int] /\ orphan' = orphan
  <2>1. \A g \in UserFrame : refcnt[g] \in Int /\ 1 \in Int /\ refcnt[g] - 1 \in Int
    BY <1>1
  <2> QED BY <1>1, <1>2, <1>3, <2>1
<1> HIDE DEF e, r
<1>7. \A g \in UserFrame : refcnt'[g] = refcnt[g] - Maps(pte[curr], Page, g) + Maps(r, Page, g)
  <2> SUFFICES ASSUME NEW g \in UserFrame
               PROVE  refcnt'[g] = refcnt[g] - Maps(pte[curr], Page, g) + Maps(r, Page, g)
    OBVIOUS
  <2>1. Maps(pte[curr], Page, g) \in Nat /\ Maps(r, Page, g) \in Nat /\ refcnt[g] \in Nat
    BY <1>1, MapsType
  <2>2. CASE g = my
    <3>1. Maps(r, Page, g) = Maps(pte[curr], Page, g) + 1
      <4>1. pte[curr][v].page # g /\ r[v] # NoPte /\ r[v].page = g
        BY <1>3, <1>4, <1>5, <2>2
      <4> QED BY <1>5, <4>1, MapsOneMore
    <3> QED BY <1>3, <1>6, <2>1, <2>2, <3>1
  <2>3. CASE g = our
    <3>1. Maps(pte[curr], Page, g) = Maps(r, Page, g) + 1
      <4>1. r[v] # NoPte => r[v].page # g
        BY <1>3, <1>4, <1>5, <2>3
      <4>2. \A w \in Page \ {v} : r[w] = pte[curr][w]
        BY <1>5
      <4> QED BY <1>2, <2>3, <4>1, <4>2, MapsOneMore
    <3> QED BY <1>6, <2>1, <2>3, <3>1
  <2>4. CASE g # my /\ g # our
    <3>1. Maps(r, Page, g) = Maps(pte[curr], Page, g)
      BY <1>2, <1>4, <1>5, <2>4, MapsSame
    <3> QED BY <1>6, <2>1, <2>4, <3>1
  <2> QED BY <2>2, <2>3, <2>4
<1>8. RefcntExact' /\ refcnt' \in [UserFrame -> Nat]
  BY <1>1, <1>5, <1>6, <1>7, CountStep
<1>9. data' \in [UserFrame -> Val]
  BY <1>1, <1>2, <1>3 DEF TypeOK
<1>10. \A t \in Task, w \in Page : ~(t = curr /\ w = v) /\ pte[t][w] # NoPte /\ pte[t][w].w
         => refcnt'[pte[t][w].page] = 1
  <2> SUFFICES ASSUME NEW t \in Task, NEW w \in Page, pte[t][w] # NoPte, pte[t][w].w
               PROVE  refcnt'[pte[t][w].page] = 1
    OBVIOUS
  <2>1. pte[t][w].page \in UserFrame /\ refcnt[pte[t][w].page] = 1
    BY <1>1, TypeFacts DEF PteReadOnly
  <2> QED BY <1>2, <1>3, <1>6, <2>1
<1>11. refcnt'[e.page] = 1
  BY <1>4, <1>6
<1> QED BY <1>2, <1>4, <1>5, <1>8, <1>9, <1>10, <1>11, FaultStep DEF r

\* Taking the pages P out of curr's table takes their entries off the counts.
LEMMA UnmapCount ==
  ASSUME TypeOK, RefcntExact, NEW P \in SUBSET Page
  PROVE  /\ Unmap(P) \in Row
         /\ \A f \in UserFrame :
              Freed(P)[f] = refcnt[f] - Maps(pte[curr], Page, f) + Maps(Unmap(P), Page, f)
         /\ Freed(P) \in [UserFrame -> Int]
         /\ \A t \in Task, w \in Page :
              pte[t][w] # NoPte /\ (t # curr \/ w \notin P) /\ refcnt[pte[t][w].page] = 1
                => Freed(P)[pte[t][w].page] = 1
<1>1. pte[curr] \in Row /\ curr \in Task /\ refcnt \in [UserFrame -> Nat]
  BY TypeFacts DEF TypeOK
<1>2. Unmap(P) \in Row /\ \A v \in Page : Unmap(P)[v] = IF v \in P THEN NoPte ELSE pte[curr][v]
  BY <1>1 DEF Unmap, Row
<1>3. \A f \in UserFrame : Freed(P)[f] = refcnt[f] - Maps(pte[curr], P, f)
  BY DEF Freed
<1>4. ASSUME NEW f \in UserFrame
      PROVE  /\ Freed(P)[f] = refcnt[f] - Maps(pte[curr], Page, f) + Maps(Unmap(P), Page, f)
             /\ Freed(P)[f] \in Int
  <2>1. Maps(Unmap(P), Page, f) = Maps(pte[curr], Page, f) - Maps(pte[curr], P, f)
    BY <1>2, MapsUnmapped
  <2>2. Maps(pte[curr], P, f) \in Nat /\ refcnt[f] \in Nat
    BY <1>1, MapsType
  <2>3. Maps(pte[curr], Page, f) \in Nat
    BY MapsType
  <2> QED BY ONLY <1>3, <2>1, <2>2, <2>3, f \in UserFrame
<1>5. Freed(P) \in [UserFrame -> Int]
  BY <1>4 DEF Freed
<1>6. ASSUME NEW t \in Task, NEW w \in Page, pte[t][w] # NoPte,
             t # curr \/ w \notin P, refcnt[pte[t][w].page] = 1
      PROVE  Freed(P)[pte[t][w].page] = 1
  <2>1. pte[t][w].page \in UserFrame
    BY <1>6, TypeFacts
  <2>2. Maps(pte[curr], P, pte[t][w].page) = 0
    BY <1>1, <1>6, SoleMaps
  <2> QED BY <1>3, <1>6, <2>1, <2>2
<1> QED BY <1>2, <1>4, <1>5, <1>6

\* Every entry of curr lies in its segments.
LEMMA SegmentsAreAll ==
  ASSUME TypeOK, SegmentsHoldPtes, TlbInTable
  PROVE  /\ Mapped(curr) \in SUBSET Page /\ Top \in Mapped(curr)
         /\ \A w \in Page : Unmap(Mapped(curr))[w] = NoPte /\ Flush(Mapped(curr))[w] = NoPte
<1>1. Mapped(curr) \in SUBSET Page /\ curr \in Task
  BY TypeFacts DEF Mapped
<1>2. Top \in Mapped(curr)
  <2>1. stack[curr] \in Bss..Top
    BY <1>1 DEF TypeOK
  <2> QED BY <2>1, CowAssumption DEF Mapped, Page
<1>3. \A w \in Page : (pte[curr][w] # NoPte => w \in Mapped(curr)) /\ (tlb[w] # NoPte => w \in Mapped(curr))
  BY <1>1 DEF SegmentsHoldPtes, TlbInTable
<1> QED BY <1>1, <1>2, <1>3 DEF Unmap, Flush

LEMMA BrkShrinkStep ==
  ASSUME IInv, NEW v \in Page, BrkShrink(v)
  PROVE  IInv'
<1>1. /\ TypeOK /\ RefcntExact /\ PteReadOnly /\ SegmentsHoldPtes /\ TlbInTable
      /\ pte \in [Task -> Row] /\ pte[curr] \in Row /\ tlb \in Row /\ curr \in Task
      /\ refcnt \in [UserFrame -> Nat]
  BY Parts
<1> DEFINE P == v..(ebss[curr] - 1)
           r == Unmap(P)
<1>2. ebss[curr] \in Nat /\ stack[curr] \in Nat /\ ebss[curr] <= Top /\ v \in Nat
      /\ Bss \in Nat /\ Top \in Nat /\ ebss[curr] <= stack[curr]
  BY <1>1, CowAssumption DEF TypeOK, Page, SegmentsHoldPtes
<1>3. /\ v \in Bss..(ebss[curr] - 1)
      /\ pte' = [pte EXCEPT ![curr] = r] /\ refcnt' = Freed(P) /\ tlb' = Flush(P)
      /\ ebss' = [ebss EXCEPT ![curr] = v]
      /\ UNCHANGED <<live, curr, stack, data, orphan, seen>>
  BY DEF BrkShrink
<1>4. P \in SUBSET Page
  BY <1>2 DEF Page
<1>5. /\ r \in Row
      /\ \A f \in UserFrame : refcnt'[f] = refcnt[f] - Maps(pte[curr], Page, f) + Maps(r, Page, f)
      /\ refcnt' \in [UserFrame -> Int] /\ orphan' = orphan
      /\ \A t \in Task, w \in Page :
           pte[t][w] # NoPte /\ (t # curr \/ w \notin P) /\ refcnt[pte[t][w].page] = 1
             => refcnt'[pte[t][w].page] = 1
  BY <1>1, <1>3, <1>4, UnmapCount
<1>6. \A w \in Page : /\ r[w] = IF w \in P THEN NoPte ELSE pte[curr][w]
                      /\ tlb'[w] = IF w \in P THEN NoPte ELSE tlb[w]
  BY <1>3 DEF Unmap, Flush
<1>7. tlb' \in Row
  BY <1>1, <1>3 DEF Row, Flush
<1>8. \A w \in Page : w \in Mapped(curr) /\ w \notin P => w < v \/ w >= stack[curr]
  BY <1>2, <1>3 DEF Mapped, Page
<1> HIDE DEF P, r
<1>9. pte' \in [Task -> Row] /\ RefcntExact' /\ refcnt' \in [UserFrame -> Nat]
  BY <1>1, <1>3, <1>5, CountStep
<1>10. /\ pte'[curr] = r
       /\ \A t \in Task, w \in Page : pte'[t][w] # NoPte =>
            pte[t][w] # NoPte /\ pte'[t][w] = pte[t][w] /\ (t # curr \/ w \notin P)
  BY <1>1, <1>3, <1>6
<1>11. TypeOK'
  <2>1. ebss' \in [Task -> Bss..Top]
    BY <1>1, <1>2, <1>3 DEF TypeOK
  <2> QED BY <1>1, <1>3, <1>7, <1>9, <2>1 DEF TypeOK, Row
<1>12. PteReadOnly'
  BY <1>1, <1>5, <1>10 DEF PteReadOnly
<1>13. SegmentsHoldPtes'
  <2>1. ASSUME NEW t \in Task PROVE ebss'[t] <= stack'[t]
    BY <1>1, <1>2, <1>3 DEF SegmentsHoldPtes, TypeOK
  <2>2. ASSUME NEW t \in Task, NEW w \in Page, pte'[t][w] # NoPte
        PROVE  t \in live' /\ w \in Mapped(t)'
    <3>1. t \in live /\ w \in Mapped(t) /\ (t # curr \/ w \notin P)
      BY <1>1, <1>10, <2>2 DEF SegmentsHoldPtes
    <3>2. t # curr => ebss'[t] = ebss[t]
      BY <1>1, <1>3 DEF TypeOK
    <3>3. t = curr => ebss'[t] = v
      BY <1>1, <1>3 DEF TypeOK
    <3> QED BY <1>3, <1>8, <3>1, <3>2, <3>3 DEF Mapped
  <2> QED BY <2>1, <2>2 DEF SegmentsHoldPtes
<1>14. TlbInTable'
  <2> SUFFICES ASSUME NEW w \in Page, tlb'[w] # NoPte
               PROVE  /\ pte'[curr][w] # NoPte
                      /\ tlb'[w].page = pte'[curr][w].page
                      /\ tlb'[w].w => pte'[curr][w].w
    BY <1>3 DEF TlbInTable
  <2>1. w \notin P /\ tlb'[w] = tlb[w] /\ pte'[curr][w] = pte[curr][w]
    BY <1>6, <1>10
  <2> QED BY <1>1, <2>1 DEF TlbInTable
<1> QED BY <1>9, <1>11, <1>12, <1>13, <1>14, RecombineNext

LEMMA BrkGrowStep ==
  ASSUME IInv, NEW v \in Page, BrkGrow(v)
  PROVE  IInv'
<1>1. /\ TypeOK /\ RefcntExact /\ PteReadOnly /\ SegmentsHoldPtes /\ TlbInTable /\ curr \in Task
  BY Parts
<1>2. ebss[curr] \in Nat /\ stack[curr] \in Nat /\ stack[curr] <= Top /\ v \in Nat /\ v <= Top
      /\ Bss \in Nat /\ Top \in Nat /\ ebss[curr] <= stack[curr] /\ Bss <= ebss[curr]
  BY <1>1, CowAssumption DEF TypeOK, Page, SegmentsHoldPtes
<1>3. /\ v > ebss[curr] /\ ebss' = [ebss EXCEPT ![curr] = BrkEnd(v)]
      /\ UNCHANGED <<live, curr, pte, tlb, stack, refcnt, data, orphan, seen>>
  BY DEF BrkGrow
<1>4. /\ BrkEnd(v) \in Bss..Top /\ BrkEnd(v) <= stack[curr] /\ BrkEnd(v) >= ebss[curr]
  BY <1>2, <1>3 DEF BrkEnd
<1>5. ebss' \in [Task -> Bss..Top] /\ \A t \in Task : ebss'[t] >= ebss[t] /\ ebss'[t] <= stack[t]
  BY <1>1, <1>2, <1>3, <1>4 DEF TypeOK, SegmentsHoldPtes
<1>6. TypeOK' /\ RefcntExact' /\ PteReadOnly' /\ TlbInTable'
  BY <1>1, <1>3, <1>5 DEF TypeOK, RefcntExact, PteReadOnly, TlbInTable
<1>7. SegmentsHoldPtes'
  <2>1. ASSUME NEW t \in Task, NEW w \in Page, pte'[t][w] # NoPte
        PROVE  t \in live' /\ w \in Mapped(t)'
    <3>1. t \in live /\ w \in Mapped(t)
      BY <1>1, <1>3, <2>1 DEF SegmentsHoldPtes
    <3>2. ebss[t] \in Nat /\ ebss'[t] \in Nat /\ w \in Nat /\ ebss'[t] >= ebss[t]
      BY <1>1, <1>2, <1>5 DEF TypeOK, Page
    <3> QED BY <1>3, <3>1, <3>2 DEF Mapped
  <2> QED BY <1>3, <1>5, <2>1 DEF SegmentsHoldPtes
<1> QED BY <1>6, <1>7, RecombineNext

LEMMA SwitchStep ==
  ASSUME IInv, NEW t \in Task, Switch(t)
  PROVE  IInv'
<1>1. /\ TypeOK /\ RefcntExact /\ PteReadOnly /\ SegmentsHoldPtes
  BY Parts
<1>2. /\ t \in live /\ curr' = t /\ tlb' = [v \in Page |-> NoPte]
      /\ UNCHANGED <<live, pte, ebss, stack, refcnt, data, orphan, seen>>
  BY DEF Switch, Unmapped
<1>3. TypeOK'
  BY <1>1, <1>2 DEF TypeOK
<1>4. TlbInTable'
  BY <1>2 DEF TlbInTable
<1>5. RefcntExact' /\ PteReadOnly' /\ SegmentsHoldPtes'
  BY <1>1, <1>2 DEF RefcntExact, PteReadOnly, SegmentsHoldPtes, Mapped
<1> QED BY <1>3, <1>4, <1>5, RecombineNext

LEMMA ExitStep ==
  ASSUME IInv, NEW n \in Task, Exit(n)
  PROVE  IInv'
<1>1. /\ TypeOK /\ RefcntExact /\ PteReadOnly /\ SegmentsHoldPtes /\ TlbInTable
      /\ pte \in [Task -> Row] /\ pte[curr] \in Row /\ tlb \in Row /\ curr \in Task
      /\ refcnt \in [UserFrame -> Nat]
  BY Parts
<1> DEFINE P == Mapped(curr)
           r == Unmap(P)
<1>2. /\ n \in live /\ n # curr
      /\ pte' = [pte EXCEPT ![curr] = r] /\ refcnt' = Freed(P)
      /\ tlb' = [v \in Page |-> NoPte]
      /\ live' = live \ {curr} /\ curr' = n
      /\ ebss' = [ebss EXCEPT ![curr] = Bss] /\ stack' = [stack EXCEPT ![curr] = Top]
      /\ UNCHANGED <<data, orphan, seen>>
  BY DEF Exit, Unmapped
<1>3. P \in SUBSET Page /\ \A w \in Page : r[w] = NoPte
  BY <1>1, SegmentsAreAll
<1>4. /\ r \in Row
      /\ \A f \in UserFrame : refcnt'[f] = refcnt[f] - Maps(pte[curr], Page, f) + Maps(r, Page, f)
      /\ refcnt' \in [UserFrame -> Int] /\ orphan' = orphan
      /\ \A t \in Task, w \in Page :
           pte[t][w] # NoPte /\ (t # curr \/ w \notin P) /\ refcnt[pte[t][w].page] = 1
             => refcnt'[pte[t][w].page] = 1
  BY <1>1, <1>2, <1>3, UnmapCount
<1> HIDE DEF P, r
<1>5. pte' \in [Task -> Row] /\ RefcntExact' /\ refcnt' \in [UserFrame -> Nat]
  BY <1>1, <1>2, <1>4, CountStep
<1>6. \A t \in Task, w \in Page : pte'[t][w] # NoPte => t # curr /\ pte'[t][w] = pte[t][w]
  BY <1>1, <1>2, <1>3
<1>7. TypeOK'
  <2>1. ebss' \in [Task -> Bss..Top] /\ stack' \in [Task -> Bss..Top]
    BY <1>1, <1>2, CowAssumption DEF TypeOK
  <2>2. tlb' \in Row
    BY <1>2 DEF Row
  <2> QED BY <1>1, <1>2, <1>5, <2>1, <2>2 DEF TypeOK, Row
<1>8. PteReadOnly'
  BY <1>1, <1>4, <1>6 DEF PteReadOnly
<1>9. SegmentsHoldPtes'
  <2>1. ASSUME NEW t \in Task PROVE ebss'[t] <= stack'[t]
    BY <1>1, <1>2, CowAssumption DEF SegmentsHoldPtes, TypeOK
  <2>2. ASSUME NEW t \in Task, NEW w \in Page, pte'[t][w] # NoPte
        PROVE  t \in live' /\ w \in Mapped(t)'
    <3>1. t # curr /\ t \in live /\ w \in Mapped(t)
      BY <1>1, <1>6, <2>2 DEF SegmentsHoldPtes
    <3>2. ebss'[t] = ebss[t] /\ stack'[t] = stack[t]
      BY <1>1, <1>2, <3>1 DEF TypeOK
    <3> QED BY <1>2, <3>1, <3>2 DEF Mapped
  <2> QED BY <2>1, <2>2 DEF SegmentsHoldPtes
<1>10. TlbInTable'
  BY <1>2 DEF TlbInTable
<1> QED BY <1>5, <1>7, <1>8, <1>9, <1>10, RecombineNext

LEMMA ExecStep ==
  ASSUME IInv, NEW f \in UserFrame, NEW x \in Val, Exec(f, x)
  PROVE  IInv'
<1>1. /\ TypeOK /\ RefcntExact /\ PteReadOnly /\ SegmentsHoldPtes /\ TlbInTable
      /\ pte \in [Task -> Row] /\ pte[curr] \in Row /\ tlb \in Row /\ curr \in Task
      /\ refcnt \in [UserFrame -> Nat]
  BY Parts
<1> DEFINE P == Mapped(curr)
           e == [page |-> f, w |-> TRUE]
           s == Unmap(P)
           r == [s EXCEPT ![Top] = e]
<1>2. /\ f \in FreeFrame
      /\ pte' = [pte EXCEPT ![curr] = r] /\ refcnt' = [Freed(P) EXCEPT ![f] = 1]
      /\ tlb' = Flush(P) /\ data' = [data EXCEPT ![f] = x]
      /\ ebss' = [ebss EXCEPT ![curr] = Bss] /\ stack' = [stack EXCEPT ![curr] = Top]
      /\ UNCHANGED <<live, curr, orphan, seen>>
  BY DEF Exec
<1>3. /\ P \in SUBSET Page /\ Top \in Page /\ Top \in P
      /\ \A w \in Page : s[w] = NoPte /\ tlb'[w] = NoPte
  BY <1>1, <1>2, SegmentsAreAll
<1>4. /\ s \in Row
      /\ \A g \in UserFrame :
           Freed(P)[g] = refcnt[g] - Maps(pte[curr], Page, g) + Maps(s, Page, g)
      /\ Freed(P) \in [UserFrame -> Int]
      /\ \A t \in Task, w \in Page :
           pte[t][w] # NoPte /\ (t # curr \/ w \notin P) /\ refcnt[pte[t][w].page] = 1
             => Freed(P)[pte[t][w].page] = 1
  BY <1>1, <1>3, UnmapCount
<1>5. e \in Pte /\ e # NoPte /\ e.page = f
  <2>1. e \in Pte /\ e.page = f
    BY DEF Pte
  <2> QED BY <2>1, CowAssumption DEF Pte
<1>6. r \in Row /\ r[Top] = e /\ \A w \in Page \ {Top} : r[w] = NoPte
  BY <1>3, <1>4, <1>5 DEF Row
<1>7. tlb' \in Row
  BY <1>1, <1>2 DEF Row, Flush
<1>8. \A t \in Task, w \in Page : pte[t][w] # NoPte => pte[t][w].page # f /\ refcnt[f] = 0
  BY <1>1, <1>2, FreeIsUnmapped
<1>9. refcnt[f] = 0
  BY <1>2 DEF FreeFrame
<1> HIDE DEF P, e, s, r
<1>10. \A g \in UserFrame : refcnt'[g] = refcnt[g] - Maps(pte[curr], Page, g) + Maps(r, Page, g)
  <2> SUFFICES ASSUME NEW g \in UserFrame
               PROVE  refcnt'[g] = refcnt[g] - Maps(pte[curr], Page, g) + Maps(r, Page, g)
    OBVIOUS
  <2>1. Maps(s, Page, g) = 0
    BY <1>3, MapsType
  <2>2. CASE g = f
    <3>1. Maps(r, Page, g) = Maps(s, Page, g) + 1
      BY <1>3, <1>5, <1>6, <2>2, MapsOneMore
    <3>2. Maps(pte[curr], Page, g) = 0
      BY <1>1, <1>8, <2>2, MapsType
    <3>3. refcnt'[g] = 1
      BY <1>2, <1>4, <2>2
    <3> QED BY <1>9, <2>1, <2>2, <3>1, <3>2, <3>3
  <2>3. CASE g # f
    <3>1. Maps(r, Page, g) = Maps(s, Page, g)
      BY <1>3, <1>5, <1>6, <2>3, MapsSame
    <3>2. refcnt'[g] = Freed(P)[g]
      BY <1>2, <1>4, <2>3
    <3> QED BY <1>4, <3>1, <3>2
  <2> QED BY <2>2, <2>3
<1>11. pte' \in [Task -> Row] /\ RefcntExact' /\ refcnt' \in [UserFrame -> Nat]
  <2>1. refcnt' \in [UserFrame -> Int] /\ orphan' = orphan
    BY <1>2, <1>4
  <2> QED BY <1>1, <1>2, <1>6, <1>10, <2>1, CountStep
<1>12. /\ pte'[curr] = r
       /\ \A t \in Task, w \in Page : pte'[t][w] # NoPte =>
            \/ t = curr /\ w = Top /\ pte'[t][w] = e
            \/ t # curr /\ pte'[t][w] = pte[t][w]
  BY <1>1, <1>2, <1>6
<1>13. TypeOK'
  <2>1. ebss' \in [Task -> Bss..Top] /\ stack' \in [Task -> Bss..Top] /\ data' \in [UserFrame -> Val]
    BY <1>1, <1>2, CowAssumption DEF TypeOK
  <2> QED BY <1>1, <1>2, <1>7, <1>11, <2>1 DEF TypeOK, Row
<1>14. PteReadOnly'
  <2> SUFFICES ASSUME NEW t \in Task, NEW w \in Page, pte'[t][w] # NoPte, pte'[t][w].w
               PROVE  refcnt'[pte'[t][w].page] = 1
    BY DEF PteReadOnly
  <2>1. CASE pte'[t][w] = e
    BY <1>2, <1>4, <1>5, <2>1
  <2>2. CASE t # curr /\ pte'[t][w] = pte[t][w]
    <3>1. Freed(P)[pte[t][w].page] = 1 /\ pte[t][w].page # f /\ pte[t][w].page \in UserFrame
      BY <1>1, <1>4, <1>8, <2>2, TypeFacts DEF PteReadOnly
    <3> QED BY <1>2, <1>4, <2>2, <3>1
  <2> QED BY <1>12, <2>1, <2>2
<1>15. SegmentsHoldPtes'
  <2>1. ASSUME NEW t \in Task PROVE ebss'[t] <= stack'[t]
    BY <1>1, <1>2, CowAssumption DEF SegmentsHoldPtes, TypeOK
  <2>2. ASSUME NEW t \in Task, NEW w \in Page, pte'[t][w] # NoPte
        PROVE  t \in live' /\ w \in Mapped(t)'
    <3>1. CASE t = curr /\ w = Top
      BY <1>1, <1>2, <3>1, CowAssumption DEF Mapped, TypeOK
    <3>2. CASE t # curr /\ pte'[t][w] = pte[t][w]
      <4>1. t \in live /\ w \in Mapped(t)
        BY <1>1, <2>2, <3>2 DEF SegmentsHoldPtes
      <4>2. ebss'[t] = ebss[t] /\ stack'[t] = stack[t]
        BY <1>1, <1>2, <3>2 DEF TypeOK
      <4> QED BY <1>2, <4>1, <4>2 DEF Mapped
    <3> QED BY <1>12, <2>2, <3>1, <3>2
  <2> QED BY <2>1, <2>2 DEF SegmentsHoldPtes
<1>16. TlbInTable'
  BY <1>3 DEF TlbInTable
<1> QED BY <1>11, <1>13, <1>14, <1>15, <1>16, RecombineNext

\* clrw takes the write permission and nothing else.
LEMMA ClrwFacts ==
  ASSUME NEW e \in Pte \cup {NoPte}
  PROVE  /\ Clrw(e) \in Pte \cup {NoPte} /\ (Clrw(e) = NoPte <=> e = NoPte)
         /\ e # NoPte => Clrw(e).page = e.page /\ Clrw(e).w = FALSE
<1>1. CASE e = NoPte
  BY <1>1 DEF Clrw
<1>2. CASE e # NoPte
  <2>1. e \in Pte /\ Clrw(e) = [e EXCEPT !.w = FALSE]
    BY <1>2 DEF Clrw
  <2>2. Clrw(e) \in Pte /\ Clrw(e).page = e.page /\ Clrw(e).w = FALSE
    BY <2>1 DEF Pte
  <2>3. Clrw(e) # NoPte
    BY <2>2, CowAssumption DEF Pte
  <2> QED BY <1>2, <2>2, <2>3
<1> QED BY <1>1, <1>2

\* copypte over the pages P: the two rows it leaves, and the counts.
LEMMA CopyFacts ==
  ASSUME TypeOK, RefcntExact, NEW P \in SUBSET Page
  PROVE  /\ Protected(P) \in Row /\ Copied(P) \in Row /\ Dup(P) \in [UserFrame -> Nat]
         /\ \A w \in Page :
              /\ Protected(P)[w] = NoPte <=> pte[curr][w] = NoPte
              /\ pte[curr][w] # NoPte => Protected(P)[w].page = pte[curr][w].page
              /\ w \notin P => Protected(P)[w] = pte[curr][w] /\ Copied(P)[w] = NoPte
              /\ w \in P => Copied(P)[w] = Protected(P)[w]
              /\ w \in P /\ pte[curr][w] # NoPte => Protected(P)[w].w = FALSE
         /\ \A f \in UserFrame :
              /\ Dup(P)[f] = refcnt[f] + Maps(pte[curr], P, f)
              /\ Maps(pte[curr], P, f) \in Nat /\ Maps(pte[curr], Page, f) \in Nat
              /\ Maps(Protected(P), Page, f) = Maps(pte[curr], Page, f)
              /\ Maps(Copied(P), Page, f) = Maps(pte[curr], P, f)
         /\ \A t \in Task, w \in Page :
              pte[t][w] # NoPte /\ (t # curr \/ w \notin P) /\ refcnt[pte[t][w].page] = 1
                => Dup(P)[pte[t][w].page] = 1
<1>1. pte[curr] \in Row /\ curr \in Task /\ refcnt \in [UserFrame -> Nat]
  BY TypeFacts DEF TypeOK
<1>2. \A w \in Page : /\ Clrw(pte[curr][w]) \in Pte \cup {NoPte}
                      /\ Clrw(pte[curr][w]) = NoPte <=> pte[curr][w] = NoPte
                      /\ pte[curr][w] # NoPte => /\ Clrw(pte[curr][w]).page = pte[curr][w].page
                                                 /\ Clrw(pte[curr][w]).w = FALSE
  BY <1>1, ClrwFacts DEF Row
<1>3. \A w \in Page :
        /\ Protected(P)[w] = IF w \in P THEN Clrw(pte[curr][w]) ELSE pte[curr][w]
        /\ Copied(P)[w] = IF w \in P THEN Clrw(pte[curr][w]) ELSE NoPte
  BY DEF Protected, Copied
<1>4. Protected(P) \in Row /\ Copied(P) \in Row
  BY <1>1, <1>2 DEF Protected, Copied, Row
<1>5. \A w \in Page :
        /\ Protected(P)[w] = NoPte <=> pte[curr][w] = NoPte
        /\ pte[curr][w] # NoPte => Protected(P)[w].page = pte[curr][w].page
        /\ w \notin P => Protected(P)[w] = pte[curr][w] /\ Copied(P)[w] = NoPte
        /\ w \in P => Copied(P)[w] = Protected(P)[w]
        /\ w \in P /\ pte[curr][w] # NoPte => Protected(P)[w].w = FALSE
  BY <1>2, <1>3
<1>6. ASSUME NEW f \in UserFrame
      PROVE  /\ Dup(P)[f] = refcnt[f] + Maps(pte[curr], P, f)
             /\ Maps(pte[curr], P, f) \in Nat /\ Maps(pte[curr], Page, f) \in Nat
             /\ Maps(Protected(P), Page, f) = Maps(pte[curr], Page, f)
             /\ Maps(Copied(P), Page, f) = Maps(pte[curr], P, f)
  <2>1. Dup(P)[f] = refcnt[f] + Maps(pte[curr], P, f)
    BY DEF Dup
  <2>2. Maps(pte[curr], P, f) \in Nat
    BY MapsType
  <2>3. Maps(pte[curr], Page, f) \in Nat
    BY MapsType
  <2>4. Maps(Protected(P), Page, f) = Maps(pte[curr], Page, f)
    BY <1>5, MapsSame
  <2>5. Maps(Copied(P), Page, f) = Maps(pte[curr], P, f)
    <3>1. Here(Copied(P), Page, f) = Here(pte[curr], P, f)
      BY <1>5 DEF Here
    <3> QED BY <3>1 DEF Maps, Here
  <2> QED BY <2>1, <2>2, <2>3, <2>4, <2>5
<1>7. Dup(P) \in [UserFrame -> Nat]
  <2>1. \A f \in UserFrame : refcnt[f] + Maps(pte[curr], P, f) \in Nat
    BY <1>1, <1>6
  <2> QED BY <2>1 DEF Dup
<1>8. ASSUME NEW t \in Task, NEW w \in Page, pte[t][w] # NoPte,
             t # curr \/ w \notin P, refcnt[pte[t][w].page] = 1
      PROVE  Dup(P)[pte[t][w].page] = 1
  <2>1. pte[t][w].page \in UserFrame
    BY <1>8, TypeFacts
  <2>2. Maps(pte[curr], P, pte[t][w].page) = 0
    BY <1>1, <1>8, SoleMaps
  <2> QED BY <1>6, <1>8, <2>1, <2>2
<1> QED BY <1>4, <1>5, <1>6, <1>7, <1>8

\* The cache after copypte: what was writable in P is flushed, and what is left
\* is in the parent's table.
LEMMA CopyTlb ==
  ASSUME TypeOK, RefcntExact, TlbInTable, NEW P \in SUBSET Page,
         tlb' = Flush(WasWritable(P)), curr' = curr, pte'[curr] = Protected(P)
  PROVE  tlb' \in Row /\ TlbInTable'
<1>1. tlb \in Row /\ pte[curr] \in Row /\ curr \in Task
  BY TypeFacts
<1>2. tlb' \in Row
  BY <1>1 DEF Row, Flush
<1>3. ASSUME NEW w \in Page, tlb'[w] # NoPte
      PROVE  /\ pte'[curr][w] # NoPte
             /\ tlb'[w].page = pte'[curr][w].page
             /\ tlb'[w].w => pte'[curr][w].w
  <2>1. tlb'[w] = tlb[w] /\ w \notin WasWritable(P)
    BY <1>3 DEF Flush
  <2>2. /\ pte[curr][w] # NoPte /\ tlb[w].page = pte[curr][w].page
        /\ tlb[w].w => pte[curr][w].w
    BY <1>3, <2>1 DEF TlbInTable
  <2>3. tlb[w].w => w \notin P
    BY <2>1, <2>2 DEF WasWritable
  <2>4. /\ Protected(P)[w] # NoPte /\ Protected(P)[w].page = pte[curr][w].page
        /\ w \notin P => Protected(P)[w] = pte[curr][w]
    BY <2>2, CopyFacts
  <2>5. /\ pte'[curr][w] # NoPte /\ pte'[curr][w].page = pte[curr][w].page
        /\ w \notin P => pte'[curr][w] = pte[curr][w]
    BY <2>4
  <2> QED BY <2>1, <2>2, <2>3, <2>5
<1> QED BY <1>2, <1>3 DEF TlbInTable

LEMMA ForkStep ==
  ASSUME IInv, NEW c \in Task, Fork(c)
  PROVE  IInv'
<1>1. /\ TypeOK /\ RefcntExact /\ PteReadOnly /\ SegmentsHoldPtes /\ TlbInTable
      /\ pte \in [Task -> Row] /\ pte[curr] \in Row /\ tlb \in Row /\ curr \in Task
      /\ refcnt \in [UserFrame -> Nat] /\ curr \in live
  BY Parts DEF TypeOK
<1> DEFINE P == Mapped(curr)
           a == Protected(P)
           b == Copied(P)
           q == [pte EXCEPT ![curr] = a]
<1>2. /\ c \notin live /\ c # curr
      /\ pte' = [q EXCEPT ![c] = b] /\ tlb' = Flush(WasWritable(P)) /\ refcnt' = Dup(P)
      /\ ebss' = [ebss EXCEPT ![c] = ebss[curr]] /\ stack' = [stack EXCEPT ![c] = stack[curr]]
      /\ live' = live \cup {c}
      /\ UNCHANGED <<curr, data, orphan, seen>>
  BY <1>1 DEF Fork
<1>3. P \in SUBSET Page /\ \A w \in Page : pte[curr][w] # NoPte => w \in P
  BY <1>1 DEF Mapped, SegmentsHoldPtes
<1>4. /\ a \in Row /\ b \in Row /\ refcnt' \in [UserFrame -> Nat]
      /\ \A w \in Page :
           /\ a[w] = NoPte <=> pte[curr][w] = NoPte
           /\ w \notin P => b[w] = NoPte
           /\ w \in P => b[w] = a[w]
           /\ w \in P /\ pte[curr][w] # NoPte => a[w].w = FALSE
      /\ \A f \in UserFrame :
           /\ refcnt'[f] = refcnt[f] + Maps(pte[curr], P, f)
           /\ Maps(pte[curr], P, f) \in Nat /\ Maps(pte[curr], Page, f) \in Nat
           /\ Maps(a, Page, f) = Maps(pte[curr], Page, f)
           /\ Maps(b, Page, f) = Maps(pte[curr], P, f)
      /\ \A t \in Task, w \in Page :
           pte[t][w] # NoPte /\ (t # curr \/ w \notin P) /\ refcnt[pte[t][w].page] = 1
             => refcnt'[pte[t][w].page] = 1
  BY <1>1, <1>2, <1>3, CopyFacts
<1>5. /\ q \in [Task -> Row] /\ q[curr] = a /\ \A u \in Task \ {curr} : q[u] = pte[u]
      /\ pte' \in [Task -> Row] /\ pte'[c] = b /\ \A u \in Task \ {c} : pte'[u] = q[u]
      /\ pte'[curr] = a
  BY <1>1, <1>2, <1>4
<1>6. tlb' \in Row /\ TlbInTable'
  BY <1>1, <1>2, <1>3, <1>5, CopyTlb
<1>7. Mapped(curr) = P
  OBVIOUS
<1> HIDE DEF P, a, b, q
<1>8. \A f \in UserFrame : refcnt'[f] = orphan'[f] + Cardinality(Entries(pte', f))
  <2> SUFFICES ASSUME NEW f \in UserFrame
               PROVE  refcnt'[f] = orphan'[f] + Cardinality(Entries(pte', f))
    OBVIOUS
  <2>1. Cardinality(Entries(q, f)) =
          Cardinality(Entries(pte, f)) - Maps(pte[curr], Page, f) + Maps(q[curr], Page, f)
    BY ONLY <1>1, <1>5, RowReplaced
  <2>2. Cardinality(Entries(pte', f)) =
          Cardinality(Entries(q, f)) - Maps(q[c], Page, f) + Maps(pte'[c], Page, f)
    BY ONLY <1>5, RowReplaced, c \in Task
  <2>3. Maps(q[c], Page, f) = 0
    <3>1. \A w \in Page : q[c][w] = NoPte
      BY <1>1, <1>2, <1>5 DEF SegmentsHoldPtes
    <3> QED BY <3>1, MapsType
  <2>4. /\ refcnt[f] = orphan[f] + Cardinality(Entries(pte, f)) /\ orphan[f] \in Nat
        /\ Cardinality(Entries(pte, f)) \in Nat
    BY <1>1, ExactEntries, EntriesType DEF TypeOK
  <2>5. /\ refcnt'[f] = refcnt[f] + Maps(pte[curr], P, f)
        /\ Maps(pte[curr], P, f) \in Nat /\ Maps(pte[curr], Page, f) \in Nat
        /\ Maps(q[curr], Page, f) = Maps(pte[curr], Page, f)
        /\ Maps(pte'[c], Page, f) = Maps(pte[curr], P, f)
    BY <1>4, <1>5
  <2>6. Cardinality(Entries(q, f)) = Cardinality(Entries(pte, f))
    BY ONLY <2>1, <2>4, <2>5
  <2>7. Cardinality(Entries(pte', f)) = Cardinality(Entries(pte, f)) + Maps(pte[curr], P, f)
    BY ONLY <2>2, <2>3, <2>4, <2>5, <2>6
  <2>8. orphan'[f] = orphan[f]
    BY <1>2
  <2> QED BY ONLY <2>4, <2>5, <2>7, <2>8
<1>9. RefcntExact'
  BY <1>8 DEF RefcntExact, Entries
<1>10. \A t \in Task, w \in Page : pte'[t][w] # NoPte =>
         \/ t \in {curr, c} /\ w \in P /\ pte[curr][w] # NoPte /\ pte'[t][w].w = FALSE
         \/ t \notin {curr, c} /\ pte'[t][w] = pte[t][w]
  BY <1>3, <1>4, <1>5
<1>11. TypeOK'
  <2>1. ebss' \in [Task -> Bss..Top] /\ stack' \in [Task -> Bss..Top] /\ live' \subseteq Task
    BY <1>1, <1>2 DEF TypeOK
  <2> QED BY <1>1, <1>2, <1>4, <1>5, <1>6, <2>1 DEF TypeOK, Row
<1>12. PteReadOnly'
  <2> SUFFICES ASSUME NEW t \in Task, NEW w \in Page, pte'[t][w] # NoPte, pte'[t][w].w
               PROVE  refcnt'[pte'[t][w].page] = 1
    BY DEF PteReadOnly
  <2>1. t \notin {curr, c} /\ pte'[t][w] = pte[t][w]
    BY <1>10
  <2> QED BY <1>1, <1>4, <2>1 DEF PteReadOnly
<1>13. SegmentsHoldPtes'
  <2>1. \A t \in Task : /\ t # c => ebss'[t] = ebss[t] /\ stack'[t] = stack[t]
                        /\ t = c => ebss'[t] = ebss[curr] /\ stack'[t] = stack[curr]
    BY <1>1, <1>2 DEF TypeOK
  <2>2. ASSUME NEW t \in Task, NEW w \in Page, pte'[t][w] # NoPte
        PROVE  t \in live' /\ w \in Mapped(t)'
    <3>1. CASE t \in {curr, c} /\ w \in P
      <4>1. w < ebss[curr] \/ w >= stack[curr]
        BY <1>7, <3>1 DEF Mapped
      <4> QED BY <1>1, <1>2, <2>1, <3>1, <4>1 DEF Mapped
    <3>2. CASE t \notin {curr, c} /\ pte'[t][w] = pte[t][w]
      <4>1. t \in live /\ w \in Mapped(t)
        BY <1>1, <2>2, <3>2 DEF SegmentsHoldPtes
      <4> QED BY <1>2, <2>1, <3>2, <4>1 DEF Mapped
    <3> QED BY <1>10, <2>2, <3>1, <3>2
  <2> QED BY <1>1, <2>1, <2>2 DEF SegmentsHoldPtes
<1> QED BY <1>6, <1>9, <1>11, <1>12, <1>13, RecombineNext

LEMMA ForkFailStep ==
  ASSUME IInv, NEW k \in Page, ForkFail(k)
  PROVE  IInv'
<1>1. /\ TypeOK /\ RefcntExact /\ PteReadOnly /\ SegmentsHoldPtes /\ TlbInTable
      /\ pte \in [Task -> Row] /\ pte[curr] \in Row /\ tlb \in Row /\ curr \in Task
      /\ refcnt \in [UserFrame -> Nat] /\ orphan \in [UserFrame -> Nat]
  BY Parts DEF TypeOK
<1> DEFINE P == {v \in Mapped(curr) : v < k}
           a == Protected(P)
<1>2. /\ pte' = [pte EXCEPT ![curr] = a] /\ tlb' = Flush(WasWritable(P)) /\ refcnt' = Dup(P)
      /\ orphan' = [f \in UserFrame |-> orphan[f] + Maps(pte[curr], P, f)]
      /\ UNCHANGED <<live, curr, ebss, stack, data, seen>>
  BY DEF ForkFail
<1>3. P \in SUBSET Page
  BY <1>1 DEF Mapped
<1>4. /\ a \in Row /\ refcnt' \in [UserFrame -> Nat]
      /\ \A w \in Page :
           /\ a[w] = NoPte <=> pte[curr][w] = NoPte
           /\ w \notin P => a[w] = pte[curr][w]
           /\ w \in P /\ pte[curr][w] # NoPte => a[w].w = FALSE
      /\ \A f \in UserFrame :
           /\ refcnt'[f] = refcnt[f] + Maps(pte[curr], P, f)
           /\ Maps(pte[curr], P, f) \in Nat /\ Maps(pte[curr], Page, f) \in Nat
           /\ Maps(a, Page, f) = Maps(pte[curr], Page, f)
      /\ \A t \in Task, w \in Page :
           pte[t][w] # NoPte /\ (t # curr \/ w \notin P) /\ refcnt[pte[t][w].page] = 1
             => refcnt'[pte[t][w].page] = 1
  BY <1>1, <1>2, <1>3, CopyFacts
<1>5. /\ pte' \in [Task -> Row] /\ pte'[curr] = a /\ \A u \in Task \ {curr} : pte'[u] = pte[u]
  BY <1>1, <1>2, <1>4
<1>6. tlb' \in Row /\ TlbInTable'
  BY <1>1, <1>2, <1>3, <1>5, CopyTlb
<1> HIDE DEF P, a
<1>7. orphan' \in [UserFrame -> Nat] /\ \A f \in UserFrame : orphan'[f] = orphan[f] + Maps(pte[curr], P, f)
  BY <1>1, <1>2, <1>4
<1>8. \A f \in UserFrame : refcnt'[f] = orphan'[f] + Cardinality(Entries(pte', f))
  <2> SUFFICES ASSUME NEW f \in UserFrame
               PROVE  refcnt'[f] = orphan'[f] + Cardinality(Entries(pte', f))
    OBVIOUS
  <2>1. Cardinality(Entries(pte', f)) =
          Cardinality(Entries(pte, f)) - Maps(pte[curr], Page, f) + Maps(pte'[curr], Page, f)
    BY ONLY <1>1, <1>5, RowReplaced
  <2>2. /\ refcnt[f] = orphan[f] + Cardinality(Entries(pte, f)) /\ orphan[f] \in Nat
        /\ Cardinality(Entries(pte, f)) \in Nat
    BY <1>1, ExactEntries, EntriesType
  <2>3. /\ refcnt'[f] = refcnt[f] + Maps(pte[curr], P, f)
        /\ orphan'[f] = orphan[f] + Maps(pte[curr], P, f)
        /\ Maps(pte[curr], P, f) \in Nat /\ Maps(pte[curr], Page, f) \in Nat
        /\ Maps(pte'[curr], Page, f) = Maps(pte[curr], Page, f)
    BY <1>4, <1>5, <1>7
  <2> QED BY ONLY <2>1, <2>2, <2>3
<1>9. RefcntExact'
  BY <1>8 DEF RefcntExact, Entries
<1>10. TypeOK'
  BY <1>1, <1>2, <1>4, <1>5, <1>6, <1>7 DEF TypeOK, Row
<1>11. PteReadOnly'
  <2> SUFFICES ASSUME NEW t \in Task, NEW w \in Page, pte'[t][w] # NoPte, pte'[t][w].w
               PROVE  refcnt'[pte'[t][w].page] = 1
    BY DEF PteReadOnly
  <2>1. (t # curr \/ w \notin P) /\ pte'[t][w] = pte[t][w]
    BY <1>4, <1>5
  <2> QED BY <1>1, <1>4, <2>1 DEF PteReadOnly
<1>12. SegmentsHoldPtes'
  <2>1. \A t \in Task, w \in Page : pte'[t][w] # NoPte => pte[t][w] # NoPte
    BY <1>4, <1>5
  <2> QED BY <1>1, <1>2, <2>1, SegmentsSame
<1> QED BY <1>6, <1>9, <1>10, <1>11, <1>12, RecombineNext

LEMMA NextIInv == IInv /\ [Next]_vars => IInv'
<1> SUFFICES ASSUME IInv, [Next]_vars PROVE IInv'
  OBVIOUS
<1>1. ASSUME NEW v \in Page, NEW x \in Val, Load(v) \/ Store(v, x) PROVE IInv'
  BY <1>1, LoadStoreStep
<1>2. ASSUME NEW v \in Page, Nopage(v) PROVE IInv'
  BY <1>2, NopageStep
<1>3. ASSUME NEW v \in Page, WppageOwn(v) PROVE IInv'
  BY <1>3, WppageOwnStep
<1>4. ASSUME NEW v \in Page, WppageCopy(v) PROVE IInv'
  BY <1>4, WppageCopyStep
<1>5. ASSUME NEW v \in Page, BrkShrink(v) PROVE IInv'
  BY <1>5, BrkShrinkStep
<1>6. ASSUME NEW v \in Page, BrkGrow(v) PROVE IInv'
  BY <1>6, BrkGrowStep
<1>7. ASSUME NEW v \in Page, ForkFail(v) PROVE IInv'
  BY <1>7, ForkFailStep
<1>8. ASSUME NEW t \in Task, Fork(t) PROVE IInv'
  BY <1>8, ForkStep
<1>9. ASSUME NEW t \in Task, Exit(t) PROVE IInv'
  BY <1>9, ExitStep
<1>10. ASSUME NEW t \in Task, Switch(t) PROVE IInv'
  BY <1>10, SwitchStep
<1>11. ASSUME NEW f \in UserFrame, NEW x \in Val, Exec(f, x) PROVE IInv'
  BY <1>11, ExecStep
<1>12. CASE UNCHANGED vars
  <2>1. TypeOK /\ RefcntExact /\ PteReadOnly /\ SegmentsHoldPtes /\ TlbInTable
    BY Parts
  <2> QED BY <1>12, <2>1, RecombineNext
          DEF vars, TypeOK, RefcntExact, PteReadOnly, SegmentsHoldPtes, TlbInTable, Mapped
<1>13. seen \in Val
  BY DEF IInv, TypeOK
<1> QED BY <1>1, <1>2, <1>3, <1>4, <1>5, <1>6, <1>7, <1>8, <1>9, <1>10, <1>11, <1>12, <1>13 DEF Next

\* Types.
THEOREM CowTypes == Spec => []TypeOK
<1>1. IInv => TypeOK
  BY DEF IInv
<1> QED BY <1>1, InitIInv, NextIInv, PTL DEF Spec

\* For any number of tasks, frames and pages, after any order of forks, failed
\* forks, faults, brk, exec, exit and switches: a frame's count is the number of
\* entries that map it, a shared frame is writable through no entry and no cached
\* one, and every entry lies in a segment of a live task.
THEOREM CowMappings == Spec => []MappingsExact
<1>1. IInv => MappingsExact
  BY DEF IInv, MappingsExact
<1> QED BY <1>1, InitIInv, NextIInv, PTL DEF Spec

----------------------------------------------------------------------------
(* Copy on write is invisible: the refinement of private arrays. *)

\* What a task finds at a page, and the arrays the tables p over the frames'
\* contents d stand for.
At(p, d, t, v) == IF p[t][v] = NoPte THEN Fresh[v] ELSE d[p[t][v].page]
Arrays(p, d) == [t \in Task |-> [v \in Page |-> At(p, d, t, v)]]

LEMMA ArraysSame ==
  ASSUME NEW p, NEW d, NEW q, NEW e,
         \A t \in Task, v \in Page : At(q, e, t, v) = At(p, d, t, v)
  PROVE  Arrays(q, e) = Arrays(p, d)
BY DEF Arrays

LEMMA ArraysRow ==
  ASSUME NEW p, NEW d, NEW q, NEW e, NEW t \in Task, NEW R,
         R = [v \in Page |-> At(q, e, t, v)],
         \A u \in Task \ {t}, v \in Page : At(q, e, u, v) = At(p, d, u, v)
  PROVE  Arrays(q, e) = [Arrays(p, d) EXCEPT ![t] = R]
BY DEF Arrays

\* The steps of the arrays, in terms of the tables.
LEMMA MemLoad ==
  ASSUME NEW t \in Task, NEW v \in Page,
         seen' = Arrays(pte, data)[t][v], Arrays(pte', data') = Arrays(pte, data)
  PROVE  M!Load(t, v)
BY DEF M!Load, Arrays, At

LEMMA MemStore ==
  ASSUME NEW t \in Task, NEW v \in Page, NEW x \in Val,
         Arrays(pte', data') = [Arrays(pte, data) EXCEPT ![t][v] = x], seen' = seen
  PROVE  M!Store(t, v, x)
BY DEF M!Store, Arrays, At

LEMMA MemFork ==
  ASSUME NEW t \in Task, NEW c \in Task, Arrays(pte, data)[c] = Fresh,
         Arrays(pte', data') = [Arrays(pte, data) EXCEPT ![c] = Arrays(pte, data)[t]], seen' = seen
  PROVE  M!Fork(t, c)
BY DEF M!Fork, Arrays, At

LEMMA MemForget ==
  ASSUME NEW t \in Task, NEW P \in SUBSET Page, NEW R,
         R = [v \in Page |-> IF v \in P THEN Fresh[v] ELSE Arrays(pte, data)[t][v]],
         Arrays(pte', data') = [Arrays(pte, data) EXCEPT ![t] = R], seen' = seen
  PROVE  M!Forget(t, P)
BY DEF M!Forget, Arrays, At

LEMMA MemExec ==
  ASSUME NEW t \in Task, NEW x \in Val,
         Arrays(pte', data') = [Arrays(pte, data) EXCEPT ![t] = [Fresh EXCEPT ![Top] = x]], seen' = seen
  PROVE  M!Exec(t, Top, x)
BY DEF M!Exec, Arrays, At

LEMMA MemStutter ==
  ASSUME Arrays(pte', data') = Arrays(pte, data), seen' = seen
  PROVE  UNCHANGED M!memvars
BY DEF M!memvars, Arrays, At

LEMMA InitMem == Init => M!Init
<1> SUFFICES ASSUME Init PROVE M!Init
  OBVIOUS
<1>1. \A t \in Task, v \in Page : pte[t][v] = NoPte
  BY DEF Init, Unmapped
<1>2. Fresh = [v \in Page |-> Fresh[v]]
  BY CowAssumption
<1>3. [t \in Task |-> [v \in Page |-> IF pte[t][v] = NoPte THEN Fresh[v] ELSE data[pte[t][v].page]]]
        = [t \in Task |-> [v \in Page |-> Fresh[v]]]
  BY <1>1
<1> QED BY <1>2, <1>3 DEF M!Init, Init

LEMMA LoadMem ==
  ASSUME IInv, NEW v \in Page, Load(v)
  PROVE  M!Next
<1>1. TypeOK /\ TlbInTable /\ curr \in Task
  BY Parts
<1>2. PICK e \in Walk(v) : seen' = data[e.page] /\ pte' = pte /\ data' = data
  BY DEF Load
<1>3. pte[curr][v] # NoPte /\ e.page = pte[curr][v].page
  BY <1>1 DEF Walk, TlbInTable
<1>4. Arrays(pte, data)[curr][v] = data[e.page]
  BY <1>1, <1>3 DEF Arrays, At
<1>5. Arrays(pte', data') = Arrays(pte, data)
  BY <1>2
<1>6. M!Load(curr, v)
  BY <1>1, <1>2, <1>4, <1>5, MemLoad
<1> QED BY <1>1, <1>6 DEF M!Next

\* The frame under a writable entry has no other, so no other array changes.
LEMMA StoreMem ==
  ASSUME IInv, NEW v \in Page, NEW x \in Val, Store(v, x)
  PROVE  M!Next
<1>1. TypeOK /\ RefcntExact /\ PteReadOnly /\ TlbInTable /\ curr \in Task /\ data \in [UserFrame -> Val]
  BY Parts DEF TypeOK
<1>2. PICK e \in Walk(v) : e.w /\ data' = [data EXCEPT ![e.page] = x] /\ pte' = pte /\ seen' = seen
  BY DEF Store
<1>3. pte[curr][v] # NoPte /\ e.page = pte[curr][v].page /\ pte[curr][v].w
  BY <1>1, <1>2 DEF Walk, TlbInTable
<1>4. refcnt[pte[curr][v].page] = 1 /\ pte[curr][v].page \in UserFrame
  BY <1>1, <1>3, TypeFacts DEF PteReadOnly
<1>5. \A u \in Task, w \in Page : ~(u = curr /\ w = v) => At(pte', data', u, w) = At(pte, data, u, w)
  <2> SUFFICES ASSUME NEW u \in Task, NEW w \in Page, ~(u = curr /\ w = v)
               PROVE  At(pte', data', u, w) = At(pte, data, u, w)
    OBVIOUS
  <2>1. CASE pte[u][w] = NoPte
    BY <1>2, <2>1 DEF At
  <2>2. CASE pte[u][w] # NoPte
    <3>1. pte[u][w].page # pte[curr][v].page /\ pte[u][w].page \in UserFrame
      BY <1>1, <1>3, <1>4, <2>2, SoleEntry, TypeFacts
    <3> QED BY <1>1, <1>2, <1>3, <2>2, <3>1 DEF At
  <2> QED BY <2>1, <2>2
<1>6. At(pte', data', curr, v) = x
  BY <1>1, <1>2, <1>3, <1>4 DEF At
<1>7. Arrays(pte', data') = [Arrays(pte, data) EXCEPT ![curr][v] = x]
  BY <1>1, <1>5, <1>6 DEF Arrays
<1>8. M!Store(curr, v, x)
  BY <1>1, <1>2, <1>7, MemStore
<1> QED BY <1>1, <1>8 DEF M!Next

\* The kernel fills frames that no array stands on, and copies what it replaces.
LEMMA FaultMem ==
  ASSUME IInv, NEW v \in Page, Nopage(v) \/ WppageOwn(v) \/ WppageCopy(v)
  PROVE  UNCHANGED M!memvars
<1>1. /\ TypeOK /\ RefcntExact /\ curr \in Task /\ data \in [UserFrame -> Val]
      /\ pte \in [Task -> Row] /\ pte[curr] \in Row
  BY Parts DEF TypeOK
<1>2. /\ seen' = seen
      /\ \A u \in Task, w \in Page : ~(u = curr /\ w = v) => pte'[u][w] = pte[u][w]
  BY <1>1 DEF Nopage, WppageOwn, WppageCopy, Row
<1>3. /\ At(pte', data', curr, v) = At(pte, data, curr, v)
      /\ \/ data' = data
         \/ \E f \in FreeFrame, y \in Val : data' = [data EXCEPT ![f] = y]
  <2>1. CASE Nopage(v)
    <3>1. PICK f \in FreeFrame :
            /\ pte[curr][v] = NoPte
            /\ pte' = [pte EXCEPT ![curr][v] = [page |-> f, w |-> v \in Writable]]
            /\ data' = [data EXCEPT ![f] = Fresh[v]]
      BY <2>1 DEF Nopage
    <3>2. f \in UserFrame /\ Fresh[v] \in Val
      BY CowAssumption DEF FreeFrame
    <3>3. pte'[curr][v] = [page |-> f, w |-> v \in Writable]
      BY <1>1, <3>1 DEF Row
    <3>4. pte'[curr][v].page = f
      BY <3>3
    <3>5. data'[f] = Fresh[v]
      BY <1>1, <3>1, <3>2
    <3>6. At(pte', data', curr, v) = Fresh[v] /\ At(pte, data, curr, v) = Fresh[v]
      BY <3>1, <3>4, <3>5 DEF At
    <3> QED BY <3>1, <3>2, <3>6
  <2>2. CASE WppageOwn(v)
    <3>1. /\ pte[curr][v] # NoPte /\ data' = data
          /\ pte' = [pte EXCEPT ![curr][v].w = TRUE]
      BY <2>2 DEF WppageOwn, WriteFault
    <3>2. pte'[curr][v] = [pte[curr][v] EXCEPT !.w = TRUE] /\ pte[curr][v] \in Pte
      BY <1>1, <3>1, TypeFacts DEF Row
    <3>3. pte'[curr][v].page = pte[curr][v].page /\ pte'[curr][v] \in Pte
      BY <3>2 DEF Pte
    <3>4. pte'[curr][v] # NoPte
      BY <3>3, CowAssumption DEF Pte
    <3> QED BY <3>1, <3>3, <3>4 DEF At
  <2>3. CASE WppageCopy(v)
    <3>1. PICK my \in FreeFrame :
            /\ pte[curr][v] # NoPte
            /\ pte' = [pte EXCEPT ![curr][v] = [page |-> my, w |-> TRUE]]
            /\ data' = [data EXCEPT ![my] = data[pte[curr][v].page]]
      BY <2>3 DEF WppageCopy, WriteFault
    <3>2. my \in UserFrame /\ pte[curr][v].page \in UserFrame
      BY <1>1, <3>1, TypeFacts DEF FreeFrame
    <3>3. data[pte[curr][v].page] \in Val /\ data'[my] = data[pte[curr][v].page]
      BY <1>1, <3>1, <3>2
    <3>4. pte'[curr][v] = [page |-> my, w |-> TRUE]
      BY <1>1, <3>1 DEF Row
    <3>5. pte'[curr][v] \in Pte /\ pte'[curr][v].page = my
      BY <3>2, <3>4 DEF Pte
    <3>6. pte'[curr][v] # NoPte
      BY <3>5, CowAssumption DEF Pte
    <3> QED BY <3>1, <3>3, <3>5, <3>6 DEF At
  <2> QED BY <2>1, <2>2, <2>3
<1>4. ASSUME NEW u \in Task, NEW w \in Page, ~(u = curr /\ w = v)
      PROVE  At(pte', data', u, w) = At(pte, data, u, w)
  <2>1. CASE pte[u][w] = NoPte
    BY <1>2, <1>4, <2>1 DEF At
  <2>2. CASE pte[u][w] # NoPte
    <3>1. data'[pte[u][w].page] = data[pte[u][w].page]
      BY <1>1, <1>3, <2>2, FreeIsUnmapped, TypeFacts
    <3> QED BY <1>2, <1>4, <3>1 DEF At
  <2> QED BY <2>1, <2>2
<1>5. Arrays(pte', data') = Arrays(pte, data)
  BY <1>3, <1>4, ArraysSame
<1> QED BY <1>2, <1>5, MemStutter

LEMMA UnmapMem ==
  ASSUME IInv, NEW P \in SUBSET Page, pte' = [pte EXCEPT ![curr] = Unmap(P)],
         data' = data, seen' = seen
  PROVE  M!Next
<1>1. curr \in Task /\ pte \in [Task -> Row]
  BY Parts
<1>2. \A w \in Page : pte'[curr][w] = IF w \in P THEN NoPte ELSE pte[curr][w]
  BY <1>1 DEF Unmap
<1>3. \A u \in Task \ {curr}, w \in Page : At(pte', data', u, w) = At(pte, data, u, w)
  BY <1>1 DEF At
<1>4. \A w \in Page : Arrays(pte, data)[curr][w] = At(pte, data, curr, w)
  BY <1>1 DEF Arrays
<1>5. \A w \in Page : At(pte', data', curr, w) = IF w \in P THEN Fresh[w] ELSE Arrays(pte, data)[curr][w]
  BY <1>2, <1>4 DEF At
<1> DEFINE R == [v \in Page |-> IF v \in P THEN Fresh[v] ELSE Arrays(pte, data)[curr][v]]
<1>6. R = [v \in Page |-> At(pte', data', curr, v)]
  BY <1>5
<1>t. PICK t \in Task : t = curr
  BY <1>1
<1>7. M!Forget(t, P)
  <2>1. R = [v \in Page |-> IF v \in P THEN Fresh[v] ELSE Arrays(pte, data)[curr][v]]
    OBVIOUS
  <2> HIDE DEF R
  <2>2. Arrays(pte', data') = [Arrays(pte, data) EXCEPT ![curr] = R]
    BY ONLY <1>1, <1>3, <1>6, ArraysRow
  <2> QED BY ONLY seen' = seen, t \in Task, P \in SUBSET Page, <1>t, <2>1, <2>2, MemForget
<1> QED BY <1>7 DEF M!Next

LEMMA ExecMem ==
  ASSUME IInv, NEW f \in UserFrame, NEW x \in Val, Exec(f, x)
  PROVE  M!Next
<1>1. /\ TypeOK /\ RefcntExact /\ SegmentsHoldPtes /\ TlbInTable
      /\ curr \in Task /\ pte \in [Task -> Row] /\ data \in [UserFrame -> Val]
  BY Parts DEF TypeOK
<1>2. /\ f \in FreeFrame /\ seen' = seen
      /\ pte' = [pte EXCEPT ![curr] =
                   [Unmap(Mapped(curr)) EXCEPT ![Top] = [page |-> f, w |-> TRUE]]]
      /\ data' = [data EXCEPT ![f] = x]
  BY DEF Exec
<1>3. Top \in Page /\ \A w \in Page : Unmap(Mapped(curr))[w] = NoPte
  BY <1>1, SegmentsAreAll
<1>4. pte'[curr][Top] = [page |-> f, w |-> TRUE] /\ \A w \in Page \ {Top} : pte'[curr][w] = NoPte
  BY <1>1, <1>2, <1>3 DEF Unmap
<1>5. pte'[curr][Top] \in Pte /\ pte'[curr][Top].page = f
  BY <1>4 DEF Pte
<1>6. pte'[curr][Top] # NoPte
  BY <1>5, CowAssumption DEF Pte
<1>7. data'[f] = x
  BY <1>1, <1>2
<1>8. \A w \in Page : At(pte', data', curr, w) = [Fresh EXCEPT ![Top] = x][w]
  BY <1>3, <1>4, <1>5, <1>6, <1>7, CowAssumption DEF At
<1>9. [Fresh EXCEPT ![Top] = x] = [v \in Page |-> At(pte', data', curr, v)]
  BY <1>8, CowAssumption
<1>10. \A u \in Task \ {curr}, w \in Page : At(pte', data', u, w) = At(pte, data, u, w)
  <2> SUFFICES ASSUME NEW u \in Task \ {curr}, NEW w \in Page
               PROVE  At(pte', data', u, w) = At(pte, data, u, w)
    OBVIOUS
  <2>1. pte'[u][w] = pte[u][w]
    BY <1>1, <1>2
  <2>2. CASE pte[u][w] = NoPte
    BY <2>1, <2>2 DEF At
  <2>3. CASE pte[u][w] # NoPte
    <3>1. data'[pte[u][w].page] = data[pte[u][w].page]
      BY <1>1, <1>2, <2>3, FreeIsUnmapped, TypeFacts
    <3> QED BY <2>1, <3>1 DEF At
  <2> QED BY <2>2, <2>3
<1>11. Arrays(pte', data') = [Arrays(pte, data) EXCEPT ![curr] = [Fresh EXCEPT ![Top] = x]]
  BY ONLY <1>1, <1>9, <1>10, ArraysRow
<1>12. M!Exec(curr, Top, x)
  BY <1>1, <1>2, <1>11, MemExec
<1> QED BY <1>1, <1>3, <1>12 DEF M!Next

LEMMA ForkMem ==
  ASSUME IInv, NEW c \in Task, Fork(c)
  PROVE  M!Next
<1>1. /\ TypeOK /\ RefcntExact /\ SegmentsHoldPtes
      /\ curr \in Task /\ curr \in live /\ pte \in [Task -> Row]
  BY Parts DEF TypeOK
<1> DEFINE P == Mapped(curr)
<1>2. /\ c \notin live /\ c # curr
      /\ pte' = [pte EXCEPT ![curr] = Protected(P), ![c] = Copied(P)]
      /\ data' = data /\ seen' = seen
  BY <1>1 DEF Fork
<1>3. P \in SUBSET Page /\ \A w \in Page : pte[curr][w] # NoPte => w \in P
  BY <1>1 DEF Mapped, SegmentsHoldPtes
<1>4. \A w \in Page :
        /\ Protected(P)[w] = NoPte <=> pte[curr][w] = NoPte
        /\ pte[curr][w] # NoPte => Protected(P)[w].page = pte[curr][w].page
        /\ w \notin P => Copied(P)[w] = NoPte
        /\ w \in P => Copied(P)[w] = Protected(P)[w]
  BY <1>1, <1>3, CopyFacts
<1>5. /\ pte'[curr] = Protected(P) /\ pte'[c] = Copied(P)
      /\ \A u \in Task \ {curr, c} : pte'[u] = pte[u]
  BY <1>1, <1>2
<1> HIDE DEF P
<1>6. \A u \in Task \ {c}, w \in Page : At(pte', data', u, w) = At(pte, data, u, w)
  <2>1. \A w \in Page : At(pte', data', curr, w) = At(pte, data, curr, w)
    BY <1>2, <1>4, <1>5 DEF At
  <2>2. ASSUME NEW u \in Task \ {curr, c}, NEW w \in Page
        PROVE  At(pte', data', u, w) = At(pte, data, u, w)
    <3>1. pte'[u][w] = pte[u][w] /\ data' = data
      BY <1>2, <1>5
    <3> QED BY ONLY <3>1 DEF At
  <2> QED BY <2>1, <2>2
<1>7. \A w \in Page : At(pte', data', c, w) = At(pte, data, curr, w)
  BY <1>2, <1>3, <1>4, <1>5 DEF At
<1>8. Arrays(pte, data)[curr] = [v \in Page |-> At(pte', data', c, v)]
  BY <1>1, <1>7 DEF Arrays
<1>9. Arrays(pte', data') = [Arrays(pte, data) EXCEPT ![c] = Arrays(pte, data)[curr]]
  BY ONLY <1>6, <1>8, ArraysRow, c \in Task
<1>10. Arrays(pte, data)[c] = Fresh
  <2>1. \A w \in Page : pte[c][w] = NoPte
    BY <1>1, <1>2 DEF SegmentsHoldPtes
  <2>2. \A w \in Page : At(pte, data, c, w) = Fresh[w]
    BY <2>1 DEF At
  <2> QED BY <2>2, CowAssumption DEF Arrays
<1>t. PICK t \in Task : t = curr
  BY <1>1
<1>11. M!Fork(t, c)
  BY ONLY <1>2, <1>9, <1>10, <1>t, t \in Task, c \in Task, MemFork
<1> QED BY <1>2, <1>11, <1>t DEF M!Next

LEMMA ForkFailMem ==
  ASSUME IInv, NEW k \in Page, ForkFail(k)
  PROVE  UNCHANGED M!memvars
<1>1. TypeOK /\ RefcntExact /\ curr \in Task /\ pte \in [Task -> Row]
  BY Parts
<1> DEFINE P == {v \in Mapped(curr) : v < k}
<1>2. pte' = [pte EXCEPT ![curr] = Protected(P)] /\ data' = data /\ seen' = seen
  BY DEF ForkFail
<1>3. P \in SUBSET Page
  BY DEF Mapped
<1>4. \A w \in Page :
        /\ Protected(P)[w] = NoPte <=> pte[curr][w] = NoPte
        /\ pte[curr][w] # NoPte => Protected(P)[w].page = pte[curr][w].page
  BY <1>1, <1>3, CopyFacts
<1>5. pte'[curr] = Protected(P) /\ \A u \in Task \ {curr} : pte'[u] = pte[u]
  BY <1>1, <1>2
<1> HIDE DEF P
<1>6. \A w \in Page : At(pte', data', curr, w) = At(pte, data, curr, w)
  BY <1>2, <1>4, <1>5 DEF At
<1>7. \A u \in Task \ {curr}, w \in Page : At(pte', data', u, w) = At(pte, data, u, w)
  BY <1>2, <1>5 DEF At
<1>8. \A u \in Task, w \in Page : At(pte', data', u, w) = At(pte, data, u, w)
  BY <1>6, <1>7
<1>9. Arrays(pte', data') = Arrays(pte, data)
  BY ONLY <1>8, ArraysSame
<1> QED BY <1>2, <1>9, MemStutter

LEMMA NextMem == IInv /\ [Next]_vars => [M!Next]_(M!memvars)
<1> SUFFICES ASSUME IInv, [Next]_vars PROVE [M!Next]_(M!memvars)
  OBVIOUS
<1>1. /\ TypeOK /\ SegmentsHoldPtes /\ curr \in Task
      /\ ebss[curr] \in Nat /\ ebss[curr] <= Top /\ Bss \in Nat /\ Top \in Nat
  BY Parts, CowAssumption DEF TypeOK
<1>2. ASSUME NEW v \in Page, Load(v) PROVE M!Next
  BY <1>2, LoadMem
<1>3. ASSUME NEW v \in Page, NEW x \in Val, Store(v, x) PROVE M!Next
  BY <1>3, StoreMem
<1>4. ASSUME NEW v \in Page, Nopage(v) \/ WppageOwn(v) \/ WppageCopy(v) PROVE UNCHANGED M!memvars
  BY <1>4, FaultMem
<1>5. ASSUME NEW v \in Page, BrkShrink(v) PROVE M!Next
  <2>1. v..(ebss[curr] - 1) \in SUBSET Page
    BY <1>1 DEF Page
  <2>2. pte' = [pte EXCEPT ![curr] = Unmap(v..(ebss[curr] - 1))] /\ data' = data /\ seen' = seen
    BY <1>5 DEF BrkShrink
  <2> QED BY <2>1, <2>2, UnmapMem
<1>6. ASSUME NEW t \in Task, Exit(t) PROVE M!Next
  <2>1. Mapped(curr) \in SUBSET Page
    BY DEF Mapped
  <2>2. pte' = [pte EXCEPT ![curr] = Unmap(Mapped(curr))] /\ data' = data /\ seen' = seen
    BY <1>6 DEF Exit
  <2> QED BY <2>1, <2>2, UnmapMem
<1>7. ASSUME UNCHANGED <<pte, data, seen>> PROVE UNCHANGED M!memvars
  <2>1. Arrays(pte', data') = Arrays(pte, data)
    BY <1>7
  <2> QED BY <1>7, <2>1, MemStutter
<1>8. ASSUME NEW v \in Page, BrkGrow(v) PROVE UNCHANGED M!memvars
  BY <1>7, <1>8 DEF BrkGrow
<1>9. ASSUME NEW t \in Task, Switch(t) PROVE UNCHANGED M!memvars
  BY <1>7, <1>9 DEF Switch
<1>10. ASSUME NEW v \in Page, ForkFail(v) PROVE UNCHANGED M!memvars
  BY <1>10, ForkFailMem
<1>11. ASSUME NEW t \in Task, Fork(t) PROVE M!Next
  BY <1>11, ForkMem
<1>12. ASSUME NEW f \in UserFrame, NEW x \in Val, Exec(f, x) PROVE M!Next
  BY <1>12, ExecMem
<1>13. CASE UNCHANGED vars
  BY <1>7, <1>13 DEF vars
<1> QED BY <1>2, <1>3, <1>4, <1>5, <1>6, <1>8, <1>9, <1>10, <1>11, <1>12, <1>13 DEF Next

\* Copy on write, the translation cache and the sharing of frames are invisible:
\* every task sees the loads and stores of an array of its own.
THEOREM CowIsPrivate == Spec => ImplementsMem
BY InitIInv, NextIInv, InitMem, NextMem, PTL DEF Spec, ImplementsMem, M!Spec

----------------------------------------------------------------------------
(* The page-table walks. *)

\* Division by the number of entries of a table.
LEMMA DivMod ==
  ASSUME NEW v \in Nat
  PROVE  /\ PdeOf(v) \in Nat /\ v % NPte \in 0 .. NPte - 1
         /\ v = PdeOf(v) * NPte + (v % NPte)
BY PgtblAssumption DEF PdeOf

\* A number is one multiple of it and one rest.
LEMMA DivModIs ==
  ASSUME NEW d \in Nat, NEW r \in 0 .. NPte - 1
  PROVE  /\ d * NPte + r \in Nat
         /\ (d * NPte + r) \div NPte = d /\ (d * NPte + r) % NPte = r
<1>1. d * NPte + r \in Nat
  BY PgtblAssumption
<1> QED BY <1>1, PgtblAssumption

\* The multiples keep their order.
LEMMA MultipleBelow ==
  ASSUME NEW d \in Nat, NEW e \in Nat, d < e
  PROVE  (d + 1) * NPte <= e * NPte
<1>1. PICK k \in Nat : e = d + 1 + k
  <2>1. e - d - 1 \in Nat /\ e = d + 1 + (e - d - 1)
    OBVIOUS
  <2> QED BY <2>1
<1>2. (d + 1 + k) * NPte = (d + 1) * NPte + k * NPte
  BY PgtblAssumption
<1>3. k * NPte \in Nat /\ (d + 1) * NPte \in Nat
  BY PgtblAssumption
<1> QED BY <1>1, <1>2, <1>3

\* Within a table: the next page.
LEMMA NextPage ==
  ASSUME NEW v \in Nat, (v + 1) % NPte # 0
  PROVE  PdeOf(v + 1) = PdeOf(v) /\ (v + 1) % NPte = (v % NPte) + 1
<1>1. /\ PdeOf(v) \in Nat /\ v % NPte \in 0 .. NPte - 1
      /\ v = PdeOf(v) * NPte + (v % NPte)
  BY DivMod
<1>2. CASE (v % NPte) + 1 = NPte
  <2>1. v + 1 = (PdeOf(v) + 1) * NPte + 0
    BY <1>1, <1>2, PgtblAssumption
  <2>2. (v + 1) % NPte = 0
    BY <1>1, <2>1, DivModIs, PgtblAssumption
  <2> QED BY <2>2
<1>3. CASE (v % NPte) + 1 # NPte
  <2>1. PICK x \in Nat : x = PdeOf(v) * NPte
    BY <1>1, PgtblAssumption
  <2>2. PICK m \in 0 .. NPte - 1 : m = v % NPte
    BY <1>1
  <2>3. m + 1 # NPte
    BY <1>3, <2>2
  <2>4. PICK r \in 0 .. NPte - 1 : r = m + 1
    BY <2>3, PgtblAssumption
  <2>5. v = x + m
    BY <1>1, <2>1, <2>2
  <2>6. v + 1 = x + r
    BY <2>4, <2>5, PgtblAssumption
  <2>7. (v + 1) \div NPte = PdeOf(v) /\ (v + 1) % NPte = r
    BY <1>1, <2>1, <2>6, DivModIs
  <2> QED BY <2>2, <2>4, <2>7 DEF PdeOf
<1> QED BY <1>2, <1>3

\* The last page of a table.
LEMMA LastPage ==
  ASSUME NEW v \in Nat, (v + 1) % NPte = 0
  PROVE  v + 1 = (PdeOf(v) + 1) * NPte
<1>1. /\ PdeOf(v) \in Nat /\ v % NPte \in 0 .. NPte - 1
      /\ v = PdeOf(v) * NPte + (v % NPte)
  BY DivMod
<1>2. CASE (v % NPte) + 1 = NPte
  BY <1>1, <1>2, PgtblAssumption
<1>3. CASE (v % NPte) + 1 # NPte
  <2>1. PICK x \in Nat : x = PdeOf(v) * NPte
    BY <1>1, PgtblAssumption
  <2>2. PICK m \in 0 .. NPte - 1 : m = v % NPte
    BY <1>1
  <2>3. m + 1 # NPte
    BY <1>3, <2>2
  <2>4. PICK r \in 0 .. NPte - 1 : r = m + 1
    BY <2>3, PgtblAssumption
  <2>5. v = x + m
    BY <1>1, <2>1, <2>2
  <2>6. v + 1 = x + r
    BY <2>4, <2>5, PgtblAssumption
  <2>7. (v + 1) % NPte = r
    BY <1>1, <2>1, <2>6, DivModIs
  <2>8. r # 0
    BY <2>4, PgtblAssumption
  <2> QED BY <2>7, <2>8
<1> QED BY <1>2, <1>3

\* A range that ends with the table of its first page is in that table.
LEMMA OneTable ==
  ASSUME NEW v \in Nat, NEW u \in Nat, u <= v, v < (PdeOf(u) + 1) * NPte
  PROVE  PdeOf(v) = PdeOf(u)
<1>1. /\ PdeOf(u) \in Nat /\ u % NPte \in 0 .. NPte - 1 /\ u = PdeOf(u) * NPte + (u % NPte)
  BY DivMod
<1>2. PdeOf(u) * NPte \in Nat /\ (PdeOf(u) + 1) * NPte = PdeOf(u) * NPte + NPte
  BY <1>1, PgtblAssumption
<1>3. PICK r \in 0 .. NPte - 1 : r = v - PdeOf(u) * NPte
  BY <1>1, <1>2, PgtblAssumption
<1>4. v = PdeOf(u) * NPte + r
  BY <1>2, <1>3
<1> QED BY <1>1, <1>4, DivModIs DEF PdeOf

\* A page has an entry of the directory.
LEMMA PageHasPde ==
  ASSUME NEW v \in Upage
  PROVE  v \in Nat /\ PdeOf(v) \in Pde
<1>1. NPde * NPte \in Nat /\ v \in Nat /\ v < NPde * NPte
  BY PgtblAssumption DEF Upage
<1>2. PdeOf(v) \in Nat /\ v % NPte \in 0 .. NPte - 1 /\ v = PdeOf(v) * NPte + (v % NPte)
  BY <1>1, DivMod
<1>3. PdeOf(v) * NPte \in Nat /\ PdeOf(v) * NPte <= v
  BY <1>2, PgtblAssumption
<1>4. PdeOf(v) < NPde
  <2> SUFFICES ASSUME NPde <= PdeOf(v) PROVE FALSE
    BY <1>2, PgtblAssumption
  <2>1. CASE NPde = PdeOf(v)
    BY <1>1, <1>3, <2>1
  <2>2. CASE NPde < PdeOf(v)
    <3>1. (NPde + 1) * NPte <= PdeOf(v) * NPte
      BY <1>2, <2>2, MultipleBelow, PgtblAssumption
    <3>2. (NPde + 1) * NPte = NPde * NPte + NPte
      BY PgtblAssumption
    <3> QED BY <1>1, <1>3, <3>1, <3>2, PgtblAssumption
  <2>3. PICK d \in Nat : d = PdeOf(v)
    BY <1>2
  <2>4. NPde \in Nat /\ (NPde = d \/ NPde < d)
    BY <2>3, PgtblAssumption
  <2> QED BY <2>1, <2>2, <2>3, <2>4
<1> QED BY <1>1, <1>2, <1>4, PgtblAssumption DEF Pde

\* The address of an entry is in the frame of its table.
LEMMA PteInFrame ==
  ASSUME NEW f \in TableFrame, NEW r \in 0 .. NPte - 1
  PROVE  f * NPte + r \in Word /\ (f * NPte + r) \div NPte = f /\ (f * NPte + r) % NPte = r
<1>1. f \in Nat /\ f < NFrame
  BY PgtblAssumption DEF TableFrame
<1>2. (f + 1) * NPte <= NFrame * NPte
  BY <1>1, MultipleBelow, PgtblAssumption
<1>3. /\ (f + 1) * NPte = f * NPte + NPte /\ (NFrame + 1) * NPte = NFrame * NPte + NPte
      /\ f * NPte \in Nat /\ NFrame * NPte \in Nat
  BY <1>1, PgtblAssumption
<1>4. f * NPte + r \in Word
  BY <1>2, <1>3, PgtblAssumption DEF Word
<1> QED BY <1>1, <1>4, DivModIs
----------------------------------------------------------------------------
\* The range is in one table, that of its first page.
Short == end <= (PdeOf(from) + 1) * NPte

\* The pages of the range with a table, up to a page.
Below(n) == {v \in Present : v < n}
Seen(n) == {<<v, PteOf(src, v)>> : v \in Below(n)}

\* A scan is at an entry, and has seen those before it, and it where it is about
\* to go on.
ScanInv ==
  op = "scan" =>
    /\ pc # "enomem"
    /\ pc = "start" => curpos = from
    /\ pc \in {"body", "next"} => spte = PteOf(src, curpos)
    /\ pc = "done" => end <= curpos
    /\ visited = Seen(IF pc = "next" THEN curpos + 1 ELSE curpos)

\* What the table of the copy holds when the pages below n are copied.
CopiedTo(n) ==
  \A v \in Upage : PdeOf(v) = PdeOf(from) =>
    word[PteOf(dst, v)] = IF v \in from .. n - 1 THEN word[PteOf(src, v)] ELSE 0

\* The copy has one table, in a frame of its own.
CopyTable ==
  /\ src[PdeOf(from)] \in TableFrame /\ dst[PdeOf(from)] \in TableFrame
  /\ dst[PdeOf(from)] # src[PdeOf(from)]
  /\ \A d \in Pde \ {PdeOf(from)} : dst[d] = NoTable

\* A copy of a range of one table is exact up to the current page.
CopyInv ==
  op = "copy" /\ Short =>
    /\ pc = "start" => curpos = from /\ \A d \in Pde : dst[d] = NoTable
    /\ pc \in {"body", "next"} => /\ CopyTable
                                  /\ spte = PteOf(src, curpos) /\ dpte = PteOf(dst, curpos)
                                  /\ CopiedTo(IF pc = "next" THEN curpos + 1 ELSE curpos)
    /\ pc = "done" => CopyIsExact

\* The inductive invariant of the walks.
WalkInv ==
  /\ WalkTypeOK
  /\ pc \in {"body", "next"} => curpos \in Present
  /\ ScanInv /\ CopyInv

\* A set of pages has a first one.
LEMMA FirstPage ==
  ASSUME NEW S \in SUBSET Nat, S # {}
  PROVE  \E x \in S : \A y \in S : x <= y
<1> DEFINE R == {ss \in Nat \X Nat : ss[1] < ss[2]}
<1>1. IsWellFoundedOn(R, Nat)
  BY NatLessThanWellFounded DEF OpToRel
<1>2. \E x \in S : \A y \in S : ~ (<<y, x>> \in R)
  <2> HIDE DEF R
  <2> QED BY <1>1, WFMin
<1>3. PICK x \in S : \A y \in S : ~ (<<y, x>> \in R)
  BY <1>2
<1>4. ASSUME NEW y \in S PROVE x <= y
  <2>1. ~(<<y, x>>[1] < <<y, x>>[2])
    BY <1>3
  <2>2. x \in Nat /\ y \in Nat
    OBVIOUS
  <2> QED BY <2>1, <2>2
<1> QED BY <1>4

\* Ranges and pages are numbers.
LEMMA RangeIs ==
  ASSUME WalkTypeOK
  PROVE  /\ from \in Nat /\ end \in Nat /\ curpos \in Nat /\ from <= end /\ from <= curpos
         /\ NPde * NPte \in Nat /\ end <= NPde * NPte /\ curpos <= NPde * NPte
         /\ \A p \in Present : p \in Nat /\ p \in Upage /\ from <= p /\ p < end
<1>1. NPde * NPte \in Nat
  BY PgtblAssumption
<1>2. from \in Nat /\ end \in Nat /\ curpos \in Nat /\ from <= end /\ end <= NPde * NPte /\ from <= curpos
      /\ curpos <= NPde * NPte
  BY <1>1 DEF WalkTypeOK, Upage
<1>3. \A p \in Present : p \in Nat /\ from <= p /\ p < end
  BY <1>2 DEF Present
<1>4. \A p \in Present : p \in Upage
  BY <1>1, <1>2, <1>3 DEF Upage
<1> QED BY <1>1, <1>2, <1>3, <1>4

\* explore finds the first page with a table, or the end of the range.
LEMMA ExploreIs ==
  ASSUME WalkTypeOK, NEW v \in Nat
  PROVE  \/ Explore(v) = end /\ \A p \in Present : p < v
         \/ Explore(v) \in Present /\ v <= Explore(v) /\ \A p \in Present : p < v \/ Explore(v) <= p
<1> DEFINE P == {p \in Present : p >= v}
<1>1. P \in SUBSET Nat
  BY RangeIs
<1>2. CASE P = {}
  <2>1. Explore(v) = end
    BY <1>2 DEF Explore
  <2>2. \A p \in Present : p < v
    BY <1>2, RangeIs
  <2> QED BY <2>1, <2>2
<1>3. CASE P # {}
  <2>1. Explore(v) = CHOOSE p \in P : \A x \in P : p <= x
    BY <1>3 DEF Explore
  <2>2. \E p \in P : \A x \in P : p <= x
    <3> HIDE DEF P
    <3> QED BY <1>1, <1>3, FirstPage
  <2>3. Explore(v) \in P /\ \A x \in P : Explore(v) <= x
    <3> HIDE DEF P
    <3> QED BY <2>1, <2>2
  <2>4. Explore(v) \in Present /\ v <= Explore(v)
    BY <2>3, RangeIs
  <2>5. \A p \in Present : p < v \/ Explore(v) <= p
    BY <2>3, RangeIs
  <2> QED BY <2>4, <2>5
<1> QED BY <1>2, <1>3

\* So the pages below it are those below v.
LEMMA BelowExplore ==
  ASSUME WalkTypeOK, NEW v \in Nat
  PROVE  Below(Explore(v)) = Below(v) /\ Explore(v) \in from .. (NPde * NPte)
         /\ (Explore(v) < end => Explore(v) \in Present)
<1>1. /\ from \in Nat /\ end \in Nat /\ from <= end /\ NPde * NPte \in Nat /\ end <= NPde * NPte
      /\ \A p \in Present : p \in Nat /\ from <= p /\ p < end
  BY RangeIs
<1>2. CASE Explore(v) = end /\ \A p \in Present : p < v
  BY <1>1, <1>2 DEF Below
<1>3. CASE Explore(v) \in Present /\ v <= Explore(v) /\ \A p \in Present : p < v \/ Explore(v) <= p
  BY <1>1, <1>3 DEF Below
<1> QED BY <1>2, <1>3, ExploreIs
\* A step leaves the request alone, and with it all that is said of it.
LEMMA GivenKept ==
  ASSUME UNCHANGED given
  PROVE  /\ op' = op /\ src' = src /\ from' = from /\ end' = end
         /\ Present' = Present /\ (Short <=> Short')
         /\ \A n : Below(n)' = Below(n) /\ Seen(n)' = Seen(n)
         /\ \A v : PteOf(src, v)' = PteOf(src, v)
<1>1. op' = op /\ src' = src /\ from' = from /\ end' = end
  BY DEF given
<1>2. Present' = Present /\ (Short <=> Short') /\ \A v : PteOf(src, v)' = PteOf(src, v)
  BY <1>1 DEF Present, Short, PteOf
<1>3. \A n : Below(n)' = Below(n)
  BY <1>2 DEF Below
<1>4. \A n : Seen(n)' = Seen(n)
  BY <1>1, <1>3 DEF Seen, PteOf
<1> QED BY <1>1, <1>2, <1>3, <1>4

\* Where a walk goes on.
LEMMA EnterTypes ==
  ASSUME WalkTypeOK, NEW n \in Nat, NEW s, Enter(Explore(n), s), UNCHANGED given
  PROVE  /\ WalkTypeOK' /\ pc' \in {"body", "done", "enomem"}
         /\ pc' = "body" => curpos' \in Present'
         /\ op = "scan" => pc' # "enomem"
         /\ curpos' = Explore(n) /\ (pc' = "done" <=> end <= curpos')
         /\ pc' = "body" => spte' = s
<1>1. /\ op' = op /\ src' = src /\ from' = from /\ end' = end /\ Present' = Present
  BY GivenKept
<1>2. PICK v \in from .. (NPde * NPte) : v = Explore(n)
  BY BelowExplore
<1>3. v < end => v \in Present
  BY <1>2, BelowExplore
<1>4. end \in Nat /\ v \in Nat /\ from \in Nat /\ NPde * NPte \in Nat
  BY RangeIs
<1>5. /\ WalkTypeOK
      /\ op \in {"scan", "copy"} /\ src \in [Pde -> TableFrame \cup {NoTable}]
      /\ dst \in [Pde -> TableFrame \cup {NoTable}] /\ DOMAIN word = Word
      /\ from \in Upage /\ end \in from .. (NPde * NPte)
  BY DEF WalkTypeOK
<1>6. CASE v >= end
  <2>1. curpos' = v /\ pc' = "done" /\ dst' = dst /\ word' = word
    BY <1>2, <1>6 DEF Enter
  <2>2. WalkTypeOK'
    BY <1>1, <1>5, <2>1 DEF WalkTypeOK
  <2> QED BY <1>1, <1>2, <1>4, <1>6, <2>1, <2>2
<1>7. CASE ~(v >= end)
  <2>1. PICK ok \in BOOLEAN :
          /\ IF op = "copy" THEN GetPte(v, ok) ELSE ok /\ UNCHANGED <<dst, word>>
          /\ pc' = IF ok THEN "body" ELSE "enomem"
          /\ spte' = s
          /\ dpte' = IF ok /\ op = "copy" THEN PteOf(dst', v) ELSE dpte
    BY <1>2, <1>7 DEF Enter
  <2>2. curpos' = v
    BY <1>2 DEF Enter
  <2>3. dst' \in [Pde -> TableFrame \cup {NoTable}] /\ DOMAIN word' = Word
    <3>1. CASE dst' = dst /\ word' = word
      BY <1>5, <3>1
    <3>2. CASE \E f \in TableFrame : /\ dst' = [dst EXCEPT ![PdeOf(v)] = f]
                                     /\ word' = [w \in Word |-> IF w \div NPte = f THEN 0 ELSE word[w]]
      BY <1>5, <3>2
    <3> QED BY <2>1, <3>1, <3>2 DEF GetPte
  <2>4. WalkTypeOK'
    BY <1>1, <1>5, <2>1, <2>2, <2>3 DEF WalkTypeOK
  <2>5. v < end
    BY <1>4, <1>7
  <2> QED BY <1>1, <1>2, <1>3, <1>4, <2>1, <2>2, <2>4, <2>5
<1> QED BY <1>6, <1>7

\* A scan that goes on at the next page with a table has still seen what it must.
LEMMA EnterScan ==
  ASSUME WalkTypeOK, NEW n \in Nat, NEW s, Enter(Explore(n), s), UNCHANGED <<given, visited>>,
         op = "scan" => visited = Seen(n),
         op = "scan" /\ Explore(n) < end => s = PteOf(src, Explore(n))
  PROVE  ScanInv'
<1> SUFFICES ASSUME op' = "scan"
             PROVE  /\ pc' # "enomem" /\ pc' # "start" /\ pc' # "next"
                    /\ pc' = "body" => spte' = PteOf(src', curpos')
                    /\ pc' = "done" => end' <= curpos'
                    /\ visited' = Seen(curpos)'
  BY DEF ScanInv
<1>1. UNCHANGED given /\ visited' = visited
  BY DEF given
<1>2. /\ op' = op /\ src' = src /\ end' = end /\ \A m : Seen(m)' = Seen(m)
  BY <1>1, GivenKept
<1>3. /\ pc' \in {"body", "done", "enomem"} /\ pc' # "enomem"
      /\ curpos' = Explore(n) /\ (pc' = "done" <=> end <= curpos')
      /\ pc' = "body" => spte' = s
  BY <1>1, <1>2, EnterTypes
<1>4. pc' = "body" => curpos' < end
  <2>1. Explore(n) \in Int /\ end \in Int
    BY BelowExplore, RangeIs
  <2> QED BY <1>3, <2>1
<1>5. Seen(Explore(n)) = Seen(n)
  BY BelowExplore DEF Seen
<1>6. Seen(curpos)' = Seen(curpos')
  <2>1. Present' = Present
    BY <1>1, GivenKept
  <2> QED BY <1>2, <2>1 DEF Seen, Below, PteOf
<1> QED BY <1>1, <1>2, <1>3, <1>4, <1>5, <1>6 DEF PteOf
----------------------------------------------------------------------------
\* What CopyIsExact says of the end of a copy.
Exact == \A v \in Upage : Entry(dst, v) = IF v \in from .. (end - 1) THEN Entry(src, v) ELSE 0

\* The pages of a short range are in one table.
LEMMA ShortRange ==
  ASSUME WalkTypeOK, Short, NEW v \in from .. (end - 1)
  PROVE  v \in Upage /\ PdeOf(v) = PdeOf(from) /\ (v \in Present <=> src[PdeOf(from)] # NoTable)
<1>1. from \in Nat /\ end \in Nat /\ NPde * NPte \in Nat /\ end <= NPde * NPte
  BY RangeIs
<1>2. v \in Nat /\ from <= v /\ v < end /\ v \in Upage
  BY <1>1 DEF Upage
<1>3. PdeOf(from) \in Nat
  BY <1>1, DivMod
<1>4. (PdeOf(from) + 1) * NPte \in Nat
  BY <1>3, PgtblAssumption
<1>5. v < (PdeOf(from) + 1) * NPte
  BY <1>1, <1>2, <1>4 DEF Short
<1>6. PdeOf(v) = PdeOf(from)
  BY <1>1, <1>2, <1>5, OneTable
<1> QED BY <1>2, <1>6 DEF Present

\* Without a table in the range there is nothing to copy.
LEMMA NothingToCopy ==
  ASSUME WalkTypeOK, Present = {}, \A d \in Pde : dst[d] = NoTable
  PROVE  Exact
<1> SUFFICES ASSUME NEW v \in Upage
             PROVE  Entry(dst, v) = IF v \in from .. (end - 1) THEN Entry(src, v) ELSE 0
  BY DEF Exact
<1>1. Entry(dst, v) = 0
  BY PageHasPde DEF Entry
<1>2. v \in from .. (end - 1) => Entry(src, v) = 0
  BY DEF Present, Entry
<1> QED BY <1>1, <1>2

\* With the last page of a short range the copy is exact.
LEMMA AllCopied ==
  ASSUME WalkTypeOK, Short, CopyTable, CopiedTo(end)
  PROVE  Exact
<1> SUFFICES ASSUME NEW v \in Upage
             PROVE  Entry(dst, v) = IF v \in from .. (end - 1) THEN Entry(src, v) ELSE 0
  BY DEF Exact
<1>1. PdeOf(v) \in Pde
  BY PageHasPde
<1>2. CASE PdeOf(v) = PdeOf(from)
  <2>1. dst[PdeOf(v)] # NoTable /\ src[PdeOf(v)] # NoTable
    BY <1>2, PgtblAssumption DEF CopyTable
  <2>2. Entry(dst, v) = word[PteOf(dst, v)] /\ Entry(src, v) = word[PteOf(src, v)]
    BY <2>1 DEF Entry
  <2> QED BY <1>2, <2>2 DEF CopiedTo
<1>3. CASE PdeOf(v) # PdeOf(from)
  <2>1. Entry(dst, v) = 0
    BY <1>1, <1>3 DEF CopyTable, Entry
  <2>2. v \notin from .. (end - 1)
    BY <1>3, ShortRange
  <2> QED BY <2>1, <2>2
<1> QED BY <1>2, <1>3

\* The entries of the copy and of the source do not share words.
LEMMA PtesApart ==
  ASSUME WalkTypeOK, CopyTable, NEW v \in Upage, NEW u \in Upage,
         PdeOf(v) = PdeOf(from), PdeOf(u) = PdeOf(from)
  PROVE  /\ PteOf(dst, v) \in Word /\ PteOf(dst, v) # PteOf(src, u)
         /\ PteOf(dst, v) = PteOf(dst, u) => v = u
<1>1. /\ v % NPte \in 0 .. NPte - 1 /\ v = PdeOf(v) * NPte + (v % NPte)
      /\ u % NPte \in 0 .. NPte - 1 /\ u = PdeOf(u) * NPte + (u % NPte)
  BY PageHasPde, DivMod
<1>2. PICK f \in TableFrame : f = dst[PdeOf(from)]
  BY DEF CopyTable
<1>3. PICK g \in TableFrame : g = src[PdeOf(from)]
  BY DEF CopyTable
<1>4. f # g
  BY <1>2, <1>3 DEF CopyTable
<1>5. PteOf(dst, v) = f * NPte + (v % NPte) /\ PteOf(dst, u) = f * NPte + (u % NPte)
      /\ PteOf(src, u) = g * NPte + (u % NPte)
  BY <1>2, <1>3 DEF PteOf
<1>6. /\ PteOf(dst, v) \in Word /\ PteOf(dst, v) \div NPte = f /\ PteOf(dst, v) % NPte = v % NPte
  BY <1>1, <1>5, PteInFrame
<1>7. PteOf(dst, u) % NPte = u % NPte
  BY <1>1, <1>5, PteInFrame
<1>8. PteOf(src, u) \div NPte = g
  BY <1>1, <1>5, PteInFrame
<1>9. PteOf(dst, v) = PteOf(dst, u) => v = u
  <2> SUFFICES ASSUME PteOf(dst, v) = PteOf(dst, u) PROVE v = u
    OBVIOUS
  <2>1. v % NPte = u % NPte
    BY <1>6, <1>7
  <2> QED BY <1>1, <2>1
<1> QED BY <1>4, <1>6, <1>8, <1>9

\* The copy takes a table for the first page: it is new and clear.
LEMMA FirstTable ==
  ASSUME WalkTypeOK, UNCHANGED given, \A d \in Pde : dst[d] = NoTable,
         src[PdeOf(from)] # NoTable, GetPte(from, TRUE)
  PROVE  CopyTable' /\ CopiedTo(from)'
<1>1. op' = op /\ src' = src /\ from' = from /\ end' = end
  BY GivenKept
<1>2. from \in Nat /\ PdeOf(from) \in Pde /\ dst[PdeOf(from)] = NoTable
  BY PageHasPde DEF WalkTypeOK
<1>3. PICK f \in TableFrame :
        /\ \A d \in Pde : f # src[d] /\ f # dst[d]
        /\ dst' = [dst EXCEPT ![PdeOf(from)] = f]
        /\ word' = [w \in Word |-> IF w \div NPte = f THEN 0 ELSE word[w]]
  BY <1>2 DEF GetPte
<1>4. dst'[PdeOf(from)] = f /\ \A d \in Pde \ {PdeOf(from)} : dst'[d] = NoTable
  BY <1>2, <1>3 DEF WalkTypeOK
<1>5. CopyTable'
  <2>1. src[PdeOf(from)] \in TableFrame /\ f # src[PdeOf(from)]
    BY <1>2, <1>3 DEF WalkTypeOK
  <2>2. PdeOf(from)' = PdeOf(from)
    BY <1>1 DEF PdeOf
  <2> QED BY <1>1, <1>4, <2>1, <2>2 DEF CopyTable
<1>6. CopiedTo(from)'
  <2> SUFFICES ASSUME NEW v \in Upage, PdeOf(v) = PdeOf(from)
               PROVE  word'[PteOf(dst, v)'] = IF v \in from .. from - 1 THEN word'[PteOf(src, v)'] ELSE 0
    BY <1>1 DEF CopiedTo, PdeOf
  <2>1. PteOf(dst, v)' = f * NPte + (v % NPte)
    BY <1>4 DEF PteOf
  <2>2. v % NPte \in 0 .. NPte - 1
    BY PageHasPde, DivMod
  <2>3. f * NPte + (v % NPte) \in Word /\ (f * NPte + (v % NPte)) \div NPte = f
    BY <2>2, PteInFrame
  <2>4. word'[f * NPte + (v % NPte)] = 0
    BY <1>3, <2>3
  <2>5. from .. from - 1 = {}
    BY <1>2
  <2> QED BY <2>1, <2>4, <2>5
<1> QED BY <1>5, <1>6
----------------------------------------------------------------------------
\* The first page with a table, and for a copy its table.
LEMMA StartStep ==
  ASSUME WalkInv, Start
  PROVE  WalkInv'
<1>1. PICK s : s = IF Explore(from) < end THEN PteOf(src, Explore(from)) ELSE 0
  OBVIOUS
<1>2. pc = "start" /\ Enter(Explore(from), s) /\ UNCHANGED <<given, visited>> /\ UNCHANGED given
  BY <1>1 DEF Start, given
<1>3. WalkTypeOK /\ from \in Nat /\ end \in Nat
  BY RangeIs DEF WalkInv
<1>4. /\ WalkTypeOK' /\ pc' \in {"body", "done", "enomem"}
      /\ pc' = "body" => curpos' \in Present'
      /\ curpos' = Explore(from) /\ (pc' = "done" <=> end <= curpos')
      /\ pc' = "body" => spte' = s
  BY <1>2, <1>3, EnterTypes
<1>5. ScanInv'
  <2>1. op = "scan" => visited = Seen(from)
    BY <1>2 DEF WalkInv, ScanInv
  <2> QED BY <1>1, <1>2, <1>3, <2>1, EnterScan
<1>6. ASSUME op' = "copy", Short'
      PROVE  /\ pc' = "body" => CopyTable' /\ spte' = PteOf(src, curpos)' /\ dpte' = PteOf(dst, curpos)' /\ CopiedTo(curpos)'
             /\ pc' = "done" => Exact'
  <2>1. /\ op = "copy" /\ Short /\ op' = op /\ src' = src /\ from' = from /\ end' = end /\ Present' = Present
    BY <1>2, <1>6, GivenKept
  <2>2. \A d \in Pde : dst[d] = NoTable
    BY <1>2, <2>1 DEF WalkInv, CopyInv
  <2>3. PICK v \in from .. (NPde * NPte) : v = Explore(from)
    BY <1>3, BelowExplore
  <2>4. v \in Nat /\ \A p \in Present : p \in Nat /\ from <= p /\ p < end
    BY <1>3, RangeIs
  <2>5. CASE end <= v
    <3>1. pc' = "done" /\ dst' = dst /\ word' = word
      BY <1>2, <1>3, <2>3, <2>4, <2>5 DEF Enter
    <3>2. Present = {}
      BY <1>3, <2>3, <2>4, <2>5, ExploreIs
    <3>3. Exact
      BY <1>3, <2>2, <3>2, NothingToCopy
    <3>4. Exact'
      BY <2>1, <3>1, <3>3 DEF Exact, Entry, PteOf
    <3> QED BY <3>1, <3>4
  <2>6. CASE v < end
    <3>1. v \in Present
      BY <1>3, <2>3, <2>6, BelowExplore
    <3>2. from \in from .. (end - 1) /\ v \in from .. (end - 1)
      BY <1>3, <2>3, <2>4, <2>6, <3>1
    <3>3. src[PdeOf(from)] # NoTable
      BY <1>3, <2>1, <3>1, <3>2, ShortRange
    <3>4. from \in Present
      BY <1>3, <2>1, <3>2, <3>3, ShortRange
    <3>5. v = from
      BY <1>3, <2>3, <2>4, <2>6, <3>2, <3>4, ExploreIs
    <3>6. PICK ok \in BOOLEAN :
            /\ GetPte(from, ok) /\ pc' = IF ok THEN "body" ELSE "enomem"
            /\ dpte' = IF ok THEN PteOf(dst', from) ELSE dpte
      BY <1>2, <1>3, <2>1, <2>3, <2>4, <2>6, <3>5 DEF Enter
    <3>7. CASE ok
      <4>1. CopyTable' /\ CopiedTo(from)'
        <5>1. GetPte(from, TRUE)
          BY <3>6, <3>7
        <5> QED BY <1>2, <1>3, <2>2, <3>3, <5>1, FirstTable
      <4>2. curpos' = from /\ pc' = "body" /\ dpte' = PteOf(dst', from)
        BY <1>4, <2>3, <3>5, <3>6, <3>7
      <4>3. spte' = PteOf(src, from)
        BY <1>1, <1>4, <2>3, <2>6, <3>5, <4>2
      <4>4. CopiedTo(curpos)'
        BY <2>1, <4>1, <4>2 DEF CopiedTo
      <4>5. spte' = PteOf(src, curpos)' /\ dpte' = PteOf(dst, curpos)'
        BY <2>1, <4>2, <4>3 DEF PteOf
      <4> QED BY <4>1, <4>2, <4>4, <4>5
    <3>8. CASE ~ok
      BY <3>6, <3>8
    <3> QED BY <3>7, <3>8
  <2> QED BY <1>3, <2>4, <2>5, <2>6
<1>7. CopyInv'
  BY <1>4, <1>6 DEF CopyInv, CopyIsExact, Exact
<1> QED BY <1>4, <1>5, <1>7 DEF WalkInv

\* The body of the loop: one entry is seen or copied, and no other changes.
LEMMA BodyStep ==
  ASSUME WalkInv, Body
  PROVE  WalkInv'
<1>1. /\ pc = "body" /\ pc' = "next" /\ visited' = visited \cup {<<curpos, spte>>}
      /\ word' = IF op = "copy" THEN [word EXCEPT ![dpte] = word[spte]] ELSE word
      /\ UNCHANGED given /\ dst' = dst /\ curpos' = curpos /\ spte' = spte /\ dpte' = dpte
  BY DEF Body, given
<1>2. /\ op' = op /\ src' = src /\ from' = from /\ end' = end /\ Present' = Present /\ (Short <=> Short')
      /\ \A n : Seen(n)' = Seen(n)
  BY <1>1, GivenKept
<1>3. WalkTypeOK /\ curpos \in Present /\ curpos \in Nat /\ curpos \in Upage
  BY <1>1, RangeIs DEF WalkInv
<1>4. WalkTypeOK'
  BY <1>1, <1>2, <1>3 DEF WalkTypeOK
<1>5. ScanInv'
  <2> SUFFICES ASSUME op = "scan"
               PROVE  spte = PteOf(src, curpos)' /\ visited' = Seen(curpos + 1)'
    BY <1>1, <1>2 DEF ScanInv
  <2>1. spte = PteOf(src, curpos) /\ visited = Seen(curpos)
    BY <1>1 DEF WalkInv, ScanInv
  <2>2. Below(curpos + 1) = Below(curpos) \cup {curpos}
    <3>1. ASSUME NEW p \in Present
          PROVE  p < curpos + 1 <=> p < curpos \/ p = curpos
      <4>1. p \in Nat
        BY <1>3, RangeIs
      <4> QED BY <1>3, <4>1
    <3> QED BY <1>3, <3>1 DEF Below
  <2>3. Seen(curpos + 1) = Seen(curpos) \cup {<<curpos, PteOf(src, curpos)>>}
    BY <2>2 DEF Seen
  <2>4. Seen(curpos + 1)' = Seen(curpos + 1)
    BY <1>1, <1>2 DEF Seen, Below, PteOf
  <2> QED BY <1>1, <1>2, <2>1, <2>3, <2>4 DEF PteOf
<1>6. CopyInv'
  <2> SUFFICES ASSUME op = "copy", Short
               PROVE  /\ CopyTable' /\ spte = PteOf(src, curpos)' /\ dpte = PteOf(dst, curpos)'
                      /\ CopiedTo(curpos + 1)'
    BY <1>1, <1>2 DEF CopyInv, CopyIsExact
  <2>1. CopyTable /\ spte = PteOf(src, curpos) /\ dpte = PteOf(dst, curpos) /\ CopiedTo(curpos)
    BY <1>1 DEF WalkInv, CopyInv
  <2>2. curpos \in from .. (end - 1) /\ from \in Nat /\ end \in Nat
    BY <1>3, RangeIs
  <2>3. PdeOf(curpos) = PdeOf(from)
    BY <1>3, <2>2, ShortRange
  <2>4. CopyTable'
    BY <1>1, <1>2, <2>1 DEF CopyTable, PdeOf
  <2>5. ASSUME NEW v \in Upage, PdeOf(v) = PdeOf(from)
        PROVE  word'[PteOf(dst, v)] = IF v \in from .. curpos THEN word'[PteOf(src, v)] ELSE 0
    <3>1. word' = [word EXCEPT ![dpte] = word[spte]]
      BY <1>1
    <3>2. dpte \in Word /\ PteOf(dst, v) \in Word /\ dpte # PteOf(src, v)
      BY <1>3, <2>1, <2>3, <2>5, PtesApart
    <3>3. PteOf(dst, v) = dpte => v = curpos
      BY <1>3, <2>1, <2>3, <2>5, PtesApart
    <3>4. word'[PteOf(src, v)] = word[PteOf(src, v)] /\ DOMAIN word = Word
      BY <1>3, <3>1, <3>2 DEF WalkTypeOK
    <3>5. word[PteOf(dst, v)] = IF v \in from .. curpos - 1 THEN word[PteOf(src, v)] ELSE 0
      BY <2>1, <2>5 DEF CopiedTo
    <3>6. CASE v = curpos
      <4>1. word'[PteOf(dst, v)] = word[spte] /\ spte = PteOf(src, v)
        BY <2>1, <3>1, <3>2, <3>4, <3>6
      <4>2. v \in from .. curpos
        BY <1>3, <2>2, <3>6
      <4> QED BY <3>4, <4>1, <4>2
    <3>7. CASE v # curpos
      <4>1. word'[PteOf(dst, v)] = word[PteOf(dst, v)]
        BY <3>1, <3>2, <3>3, <3>4, <3>7
      <4>2. v \in Nat
        BY PageHasPde
      <4>3. v \in from .. curpos <=> v \in from .. curpos - 1
        BY <1>3, <2>2, <3>7, <4>2
      <4> QED BY <3>4, <3>5, <4>1, <4>3
    <3> QED BY <3>6, <3>7
  <2>6. CopiedTo(curpos + 1)'
    <3>1. (curpos + 1) - 1 = curpos
      BY <1>3
    <3>2. \A v : PteOf(dst, v)' = PteOf(dst, v) /\ PteOf(src, v)' = PteOf(src, v)
      BY <1>1, <1>2 DEF PteOf
    <3> QED BY <1>1, <1>2, <2>5, <3>1, <3>2 DEF CopiedTo, PdeOf
  <2> QED BY <1>1, <1>2, <2>1, <2>4, <2>6 DEF PteOf
<1> QED BY <1>1, <1>2, <1>3, <1>4, <1>5, <1>6 DEF WalkInv

\* The next entry of the same table.
LEMMA NextInTableStep ==
  ASSUME WalkInv, NextInTable
  PROVE  WalkInv'
<1>1. /\ pc = "next" /\ (curpos + 1) % NPte # 0 /\ curpos' = curpos + 1 /\ spte' = spte + 1
      /\ dpte' = IF op = "copy" THEN dpte + 1 ELSE dpte
      /\ pc' = IF curpos + 1 < end THEN "body" ELSE "done"
      /\ UNCHANGED given /\ dst' = dst /\ word' = word /\ visited' = visited
  BY DEF NextInTable, given
<1>2. /\ op' = op /\ src' = src /\ from' = from /\ end' = end /\ Present' = Present /\ (Short <=> Short')
      /\ \A n : Seen(n)' = Seen(n)
  BY <1>1, GivenKept
<1>3. /\ WalkTypeOK /\ curpos \in Present /\ curpos \in Nat /\ curpos \in Upage
      /\ from \in Nat /\ end \in Nat /\ from <= curpos /\ curpos < end
      /\ NPde * NPte \in Nat /\ end <= NPde * NPte
  BY <1>1, RangeIs DEF WalkInv
<1>4. WalkTypeOK'
  <2>1. curpos + 1 \in from .. (NPde * NPte)
    BY <1>3
  <2> QED BY <1>1, <1>2, <1>3, <2>1 DEF WalkTypeOK
<1>5. PdeOf(curpos + 1) = PdeOf(curpos) /\ (curpos + 1) % NPte = (curpos % NPte) + 1
  BY <1>1, <1>3, NextPage
<1>6. PdeOf(curpos) \in Pde /\ curpos % NPte \in Nat
  BY <1>3, PageHasPde, DivMod
<1>7. pc' = "body" => curpos' \in Present'
  <2> SUFFICES ASSUME curpos + 1 < end PROVE curpos + 1 \in Present
    BY <1>1, <1>2
  <2>1. curpos + 1 \in from .. (end - 1)
    BY <1>3
  <2> QED BY <1>3, <1>5, <2>1 DEF Present
<1>8. ASSUME NEW tb, tb[PdeOf(curpos)] \in TableFrame PROVE PteOf(tb, curpos + 1) = PteOf(tb, curpos) + 1
  <2>1. PICK f \in Nat : f = tb[PdeOf(curpos)]
    BY <1>8, PgtblAssumption DEF TableFrame
  <2>2. PICK x \in Nat : x = f * NPte
    BY PgtblAssumption
  <2>3. PICK m \in Nat : m = curpos % NPte
    BY <1>6
  <2>4. PteOf(tb, curpos + 1) = x + (m + 1) /\ PteOf(tb, curpos) = x + m
    BY <1>5, <2>1, <2>2, <2>3 DEF PteOf
  <2> QED BY <2>4
<1>9. src[PdeOf(curpos)] \in TableFrame
  BY <1>3, <1>6 DEF Present, WalkTypeOK
<1>10. PteOf(src, curpos + 1) = PteOf(src, curpos) + 1
  BY <1>8, <1>9
<1>11. ScanInv'
  <2> SUFFICES ASSUME op = "scan"
               PROVE  /\ spte + 1 = PteOf(src, curpos + 1) /\ visited = Seen(curpos)'
                      /\ ~(curpos + 1 < end) => end <= curpos + 1
    BY <1>1, <1>2 DEF ScanInv, PteOf
  <2>1. spte = PteOf(src, curpos) /\ visited = Seen(curpos + 1)
    BY <1>1 DEF WalkInv, ScanInv
  <2>2. Seen(curpos)' = Seen(curpos + 1)
    BY <1>1, <1>2 DEF Seen, Below, PteOf
  <2> QED BY <1>3, <1>10, <2>1, <2>2
<1>12. CopyInv'
  <2> SUFFICES ASSUME op = "copy", Short
               PROVE  /\ CopyTable' /\ spte' = PteOf(src, curpos)' /\ dpte' = PteOf(dst, curpos)' /\ CopiedTo(curpos)'
                      /\ ~(curpos + 1 < end) => Exact'
    BY <1>1, <1>2 DEF CopyInv, CopyIsExact, Exact
  <2>1. CopyTable /\ spte = PteOf(src, curpos) /\ dpte = PteOf(dst, curpos) /\ CopiedTo(curpos + 1)
    BY <1>1 DEF WalkInv, CopyInv
  <2>2. curpos \in from .. (end - 1)
    BY <1>3
  <2>3. PdeOf(curpos) = PdeOf(from)
    BY <1>3, <2>2, ShortRange
  <2>4. dst[PdeOf(curpos)] \in TableFrame
    BY <2>1, <2>3 DEF CopyTable
  <2>5. PteOf(dst, curpos + 1) = PteOf(dst, curpos) + 1
    BY <1>8, <2>4
  <2>6. spte' = PteOf(src, curpos)' /\ dpte' = PteOf(dst, curpos)'
    BY <1>1, <1>2, <1>10, <2>1, <2>5 DEF PteOf
  <2>7. CopyTable' /\ CopiedTo(curpos)'
    BY <1>1, <1>2, <2>1 DEF CopyTable, CopiedTo, PdeOf, PteOf
  <2>8. ~(curpos + 1 < end) => Exact'
    <3> SUFFICES ASSUME ~(curpos + 1 < end) PROVE Exact'
      OBVIOUS
    <3>1. curpos + 1 = end
      BY <1>3
    <3>2. Exact
      BY <1>3, <2>1, <3>1, AllCopied
    <3> QED BY <1>1, <1>2, <3>2 DEF Exact, Entry, PteOf
  <2> QED BY <2>6, <2>7, <2>8
<1> QED BY <1>1, <1>4, <1>7, <1>11, <1>12 DEF WalkInv

\* The first entry of a later table; a short copy has none.
LEMMA NextTableStep ==
  ASSUME WalkInv, NextTable
  PROVE  WalkInv'
<1>1. PICK s : s = IF Explore(curpos + 1) < end THEN SrcPte(Explore(curpos + 1)) ELSE 0
  OBVIOUS
<1>2. /\ pc = "next" /\ (curpos + 1) % NPte = 0 /\ Enter(Explore(curpos + 1), s)
      /\ UNCHANGED <<given, visited>> /\ UNCHANGED given
  BY <1>1 DEF NextTable, given
<1>3. /\ WalkTypeOK /\ curpos \in Present /\ curpos \in Nat /\ curpos + 1 \in Nat
      /\ from \in Nat /\ end \in Nat /\ from <= curpos /\ curpos < end
  BY <1>2, RangeIs DEF WalkInv
<1>4. /\ WalkTypeOK' /\ pc' \in {"body", "done", "enomem"}
      /\ pc' = "body" => curpos' \in Present'
      /\ curpos' = Explore(curpos + 1) /\ (pc' = "done" <=> end <= curpos')
  BY <1>2, <1>3, EnterTypes
<1>5. ScanInv'
  <2>1. op = "scan" => visited = Seen(curpos + 1)
    BY <1>2 DEF WalkInv, ScanInv
  <2>2. op = "scan" /\ Explore(curpos + 1) < end => s = PteOf(src, Explore(curpos + 1))
    BY <1>1 DEF SrcPte
  <2> QED BY <1>2, <1>3, <2>1, <2>2, EnterScan
<1>6. ASSUME op' = "copy", Short'
      PROVE  pc' = "done" /\ Exact'
  <2>1. /\ op = "copy" /\ Short /\ op' = op /\ src' = src /\ from' = from /\ end' = end
    BY <1>2, <1>6, GivenKept
  <2>2. CopyTable /\ CopiedTo(curpos + 1)
    BY <1>2, <2>1 DEF WalkInv, CopyInv
  <2>3. curpos \in from .. (end - 1)
    BY <1>3
  <2>4. PdeOf(curpos) = PdeOf(from)
    BY <1>3, <2>1, <2>3, ShortRange
  <2>5. curpos + 1 = (PdeOf(from) + 1) * NPte
    BY <1>2, <1>3, <2>4, LastPage
  <2>6. curpos + 1 = end
    BY <1>3, <2>1, <2>5 DEF Short
  <2>7. PICK v \in Nat : v = Explore(curpos + 1)
    <3>1. Explore(curpos + 1) \in from .. (NPde * NPte) /\ NPde * NPte \in Nat
      BY <1>3, BelowExplore, RangeIs
    <3> QED BY <1>3, <3>1
  <2>8. end <= v
    BY <1>3, <2>6, <2>7, ExploreIs
  <2>9. pc' = "done" /\ dst' = dst /\ word' = word
    BY <1>2, <1>3, <2>7, <2>8 DEF Enter
  <2>10. Exact
    BY <1>3, <2>1, <2>2, <2>6, AllCopied
  <2>11. Exact'
    BY <2>1, <2>9, <2>10 DEF Exact, Entry, PteOf
  <2> QED BY <2>9, <2>11
<1>7. CopyInv'
  BY <1>4, <1>6 DEF CopyInv, CopyIsExact, Exact
<1> QED BY <1>4, <1>5, <1>7 DEF WalkInv

\* A walk starts at its first page, with nothing seen and nothing copied.
LEMMA WalkInitOK == WalkInit => WalkInv
<1> SUFFICES ASSUME WalkInit PROVE WalkInv
  OBVIOUS
<1>1. WalkTypeOK
  <2>1. NPde * NPte \in Nat
    BY PgtblAssumption
  <2>2. from \in from .. (NPde * NPte)
    BY <2>1 DEF WalkInit, Upage
  <2>3. DOMAIN word = Word
    BY DEF WalkInit
  <2> QED BY <2>2, <2>3 DEF WalkInit, WalkTypeOK
<1>2. Below(from) = {}
  BY <1>1, RangeIs DEF Below
<1>3. ScanInv
  BY <1>2 DEF WalkInit, ScanInv, Seen
<1>4. CopyInv
  BY DEF WalkInit, CopyInv
<1> QED BY <1>1, <1>3, <1>4 DEF WalkInit, WalkInv

\* Each step of a walk keeps the invariant.
LEMMA WalkNextOK == WalkInv /\ [WalkNext]_walkvars => WalkInv'
<1> SUFFICES ASSUME WalkInv, [WalkNext]_walkvars PROVE WalkInv'
  OBVIOUS
<1>1. CASE UNCHANGED walkvars
  <2>1. /\ op' = op /\ pc' = pc /\ src' = src /\ dst' = dst /\ word' = word /\ from' = from /\ end' = end
        /\ curpos' = curpos /\ spte' = spte /\ dpte' = dpte /\ visited' = visited
    BY <1>1 DEF walkvars
  <2>2. WalkTypeOK' /\ (pc' \in {"body", "next"} => curpos' \in Present')
    BY <2>1 DEF WalkInv, WalkTypeOK, Present
  <2>3. ScanInv'
    BY <2>1 DEF WalkInv, ScanInv, Seen, Below, Present, PteOf
  <2>4. CopyInv'
    BY <2>1 DEF WalkInv, CopyInv, Short, CopyTable, CopiedTo, CopyIsExact, Entry, PdeOf, PteOf
  <2> QED BY <2>2, <2>3, <2>4 DEF WalkInv
<1> QED BY <1>1, StartStep, BodyStep, NextInTableStep, NextTableStep DEF WalkNext

\* At the end of the range the invariant is the property.
LEMMA WalkInvExact == WalkInv => WalksAreExact
<1> SUFFICES ASSUME WalkInv PROVE WalksAreExact
  OBVIOUS
<1>1. ScanIsExact
  <2> SUFFICES ASSUME op = "scan", pc = "done"
               PROVE  visited = {<<v, PteOf(src, v)>> : v \in Present}
    BY DEF ScanIsExact
  <2>1. end <= curpos /\ visited = Seen(curpos)
    BY DEF WalkInv, ScanInv
  <2>2. Below(curpos) = Present
    BY <2>1, RangeIs DEF Below, WalkInv
  <2> QED BY <2>1, <2>2 DEF Seen
<1>2. Short => CopyIsExact
  BY DEF WalkInv, CopyInv, CopyIsExact
<1> QED BY <1>1, <1>2 DEF WalksAreExact, Short

(***************************************************************************)
(* asm/pgtbl.cc: foreachpte visits each page of a range that has a table,  *)
(* once and at the address of its own entry, whatever tables are missing;  *)
(* and what copypte copies for a range within one table is exact, nothing  *)
(* outside the range.  For any sizes of directory, tables and memory.      *)
(***************************************************************************)
THEOREM WalksCorrect == WalkSpec => []WalksAreExact
BY WalkInitOK, WalkNextOK, WalkInvExact, PTL DEF WalkSpec
=============================================================================
