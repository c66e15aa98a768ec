---------------------------- MODULE BlkDevProofs ----------------------------
(***************************************************************************)
(* TLAPS proofs about the devices: the block layer, for any set of blocks, *)
(* any number of tasks and any limits of the drive; the terminal's input,  *)
(* for any keyboard and any queues; and the console, for any screen and    *)
(* video memory.                                                           *)
(***************************************************************************)
EXTENDS
  BlkDev, Tty, Console, FiniteSetTheorems, SequenceTheorems, WellFoundedInduction, TLAPS

\* A request's blocks lie in a line and are those of its sectors; only the one
\* the device works on has got anywhere.
GoodReq(r) ==
  /\ r.bufs # << >> /\ r.nsect = SECTPERBLK * Len(r.bufs) /\ r.nsect <= MAXSECT
  /\ \A k \in 1 .. Len(r.bufs) : r.bufs[k][1] = r.dev /\ r.bufs[k][2] * SECTPERBLK = r.startsect + (k - 1) * SECTPERBLK
  /\ \A j, k \in 1 .. Len(r.bufs) : r.bufs[j] = r.bufs[k] => j = k
  /\ r.pos <= r.nsect /\ (~r.cur => r.pos = 0)

\* No two requests share a buffer, and the device works on one at most.
Queue(q) ==
  /\ \A i \in 1 .. Len(q) : GoodReq(q[i])
  /\ \A i, k \in 1 .. Len(q) : i # k => Elems(q[i].bufs) \cap Elems(q[k].bufs) = {}
  /\ \A i, k \in 1 .. Len(q) : q[i].cur /\ q[k].cur => i = k

InQ(q, b) == \E i \in 1 .. Len(q) : b \in Elems(q[i].bufs)

LocksMatch == \A b \in Buf : locked[b] <=> InQ(reqq, b)

\* A buffer is in the state its request was made for, or in error; BERROR is
\* not seen outside requests.
StatesMatch ==
  /\ \A i \in 1 .. Len(reqq) : \A b \in Elems(reqq[i].bufs) :
       bstate[b] \in {IF reqq[i].cmd = "BREAD" THEN "BINVAL" ELSE "BDIRTY", "BERROR"}
  /\ \A b \in Buf : bstate[b] = "BERROR" => InQ(reqq, b)

\* What the driver has passed of a read was read, or has an error.
PassedIsRead ==
  \A i \in 1 .. Len(reqq) : reqq[i].cmd = "BREAD" =>
    \A j \in 1 .. Len(reqq[i].bufs), k \in 0 .. SECTPERBLK - 1 :
      (j - 1) * SECTPERBLK + k < reqq[i].pos =>
        <<reqq[i].bufs[j], k>> \in got \/ bstate[reqq[i].bufs[j]] = "BERROR"

\* When a request is to be started the drive rests, and nothing of the request
\* is done.
StartsAfresh == starting => HasCur(reqq) /\ drive.left = 0 /\ reqq[Cur(reqq)].pos = 0

CountsFit == \A t \in Task : count[t] + Len(arr[t].todo) <= MAXBUFPERIO

IInv ==
  /\ TypeOK /\ Queue(reqq) /\ LocksMatch /\ StatesMatch /\ PassedIsRead
  /\ StartsAfresh /\ DriveInStep /\ QueueIsKicked /\ CountsFit

----------------------------------------------------------------------------
(* Arithmetic of sectors and blocks. *)

LEMMA Times ==
  ASSUME NEW s \in Nat, s > 0, NEW a \in Nat
  PROVE  a * s \in Nat /\ (a > 0 => a * s >= s)
OBVIOUS

LEMMA Remainder ==
  ASSUME NEW s \in Nat, s > 0, NEW p \in Int
  PROVE  p - s * (p \div s) = p % s
BY Z3

LEMMA Euclid ==
  ASSUME NEW s \in Nat, s > 0, NEW p \in Nat
  PROVE  p \div s \in Nat /\ p % s \in 0 .. s - 1 /\ p = (p \div s) * s + (p % s)
<1>1. p \div s \in Nat /\ p % s \in 0 .. s - 1
  OBVIOUS
<1>2. p - s * (p \div s) = p % s
  BY Remainder
<1>3. PICK d \in Nat, m \in Int : d = p \div s /\ m = p % s
  BY <1>1
<1>4. p - s * d = m
  BY <1>2, <1>3
<1>5. p = d * s + m
  BY <1>4
<1> QED BY <1>1, <1>3, <1>5

\* The sector k of the block number j (from 0), and back.
LEMMA SectorIs ==
  ASSUME NEW s \in Nat, s > 0, NEW j \in Nat, NEW k \in 0 .. s - 1,
         NEW d \in Nat, NEW m \in 0 .. s - 1, j * s + k = d * s + m
  PROVE  j = d /\ k = m
<1>1. ASSUME j > d PROVE FALSE
  <2>1. PICK a \in Nat : j = d + a /\ a > 0
    BY <1>1
  <2>2. j * s = d * s + a * s
    BY <2>1
  <2>3. a * s >= s
    BY <2>1, Times
  <2> QED BY <2>2, <2>3
<1>2. ASSUME d > j PROVE FALSE
  <2>1. PICK a \in Nat : d = j + a /\ a > 0
    BY <1>2
  <2>2. d * s = j * s + a * s
    BY <2>1
  <2>3. a * s >= s
    BY <2>1, Times
  <2> QED BY <2>2, <2>3
<1> QED BY <1>1, <1>2

LEMMA BlockIs ==
  ASSUME NEW s \in Nat, s > 0, NEW n \in Nat, NEW p \in Nat, p < s * n
  PROVE  p \div s < n
<1>1. PICK d \in Nat, m \in 0 .. s - 1 : d = p \div s /\ m = p % s /\ p = d * s + m
  BY Euclid
<1>2. ASSUME d >= n PROVE FALSE
  <2>1. PICK a \in Nat : d = n + a
    BY <1>2
  <2>2. d * s = s * n + a * s /\ a * s >= 0
    BY <2>1
  <2> QED BY <1>1, <2>2
<1> QED BY <1>1, <1>2

----------------------------------------------------------------------------
(* Sequences. *)

LEMMA LeastOf ==
  ASSUME NEW S \in SUBSET Nat, S # {}
  PROVE  \E x \in S : \A y \in S : x <= y
<1> DEFINE R == {ss \in Nat \X Nat : ss[1] < ss[2]}
<1>1. IsWellFoundedOn(R, Nat)
  BY NatLessThanWellFounded DEF OpToRel
<1>2. \E x \in S : \A y \in S : ~ (<<y, x>> \in R)
  <2> HIDE DEF R
  <2> QED BY <1>1, WFMin
<1>3. PICK x \in S : \A y \in S : ~ (<<y, x>> \in R)
  BY <1>2
<1>4. ASSUME NEW y \in S PROVE x <= y
  <2>1. ~(<<y, x>>[1] < <<y, x>>[2])
    BY <1>3
  <2>2. x \in Nat /\ y \in Nat
    OBVIOUS
  <2> QED BY <2>1, <2>2
<1> QED BY <1>4

\* v is q with e at its place i.
Inserted(q, v, i, e) ==
  /\ Len(v) = Len(q) + 1 /\ i \in 1 .. Len(q) + 1
  /\ \A k \in 1 .. Len(q) + 1 : v[k] = IF k < i THEN q[k] ELSE IF k = i THEN e ELSE q[k - 1]

LEMMA InsertIs ==
  ASSUME NEW T, NEW q \in Seq(T), NEW e \in T, NEW i \in 1 .. Len(q)
  PROVE  InsertAt(q, i, e) \in Seq(T) /\ Inserted(q, InsertAt(q, i, e), i, e)
<1>1. PICK n \in Nat, l \in Nat : n = Len(q) /\ l = i - 1 /\ i \in Nat
  OBVIOUS
<1> DEFINE a == SubSeq(q, 1, l)
           c == SubSeq(q, i, n)
           d == a \o <<e>>
<1>2. a \in Seq(T) /\ Len(a) = l /\ \A k \in 1 .. l : a[k] = q[k]
  BY <1>1
<1>3. c \in Seq(T) /\ Len(c) = n - i + 1 /\ \A k \in 1 .. n - i + 1 : c[k] = q[i + k - 1]
  BY <1>1
<1> HIDE DEF a, c
<1>4. d \in Seq(T) /\ Len(d) = i /\ d[i] = e /\ \A k \in 1 .. l : d[k] = q[k]
  BY <1>1, <1>2
<1> HIDE DEF d
<1>5. /\ d \o c \in Seq(T) /\ Len(d \o c) = n + 1
      /\ \A k \in 1 .. n + 1 : (d \o c)[k] = IF k <= i THEN d[k] ELSE c[k - i]
  <2>1. /\ d \o c \in Seq(T) /\ Len(d \o c) = Len(d) + Len(c)
        /\ \A k \in 1 .. Len(d) + Len(c) : (d \o c)[k] = IF k <= Len(d) THEN d[k] ELSE c[k - Len(d)]
    BY ONLY <1>3, <1>4, ConcatProperties
  <2> QED BY ONLY <1>1, <1>3, <1>4, <2>1
<1>6. \A k \in 1 .. n + 1 : (d \o c)[k] = IF k < i THEN q[k] ELSE IF k = i THEN e ELSE q[k - 1]
  <2> SUFFICES ASSUME NEW k \in 1 .. n + 1
               PROVE  (d \o c)[k] = IF k < i THEN q[k] ELSE IF k = i THEN e ELSE q[k - 1]
    OBVIOUS
  <2>1. CASE k < i
    <3>1. k \in 1 .. l /\ k <= i
      BY ONLY <1>1, <2>1, k \in 1 .. n + 1
    <3> QED BY ONLY <1>4, <1>5, <2>1, <3>1, k \in 1 .. n + 1
  <2>2. CASE k = i
    <3>1. k <= i /\ ~(k < i)
      BY ONLY <1>1, <2>2
    <3> QED BY ONLY <1>4, <1>5, <2>2, <3>1, k \in 1 .. n + 1
  <2>3. CASE k > i
    <3>1. k - i \in 1 .. n - i + 1 /\ i + (k - i) - 1 = k - 1
      BY <1>1, <2>3
    <3>2. c[k - i] = q[k - 1]
      BY <1>3, <3>1
    <3> QED BY <1>1, <1>5, <2>3, <3>2
  <2>4. k < i \/ k = i \/ k > i
    BY <1>1
  <2> QED BY <2>1, <2>2, <2>3, <2>4
<1>7. InsertAt(q, i, e) = d \o c
  BY <1>1 DEF InsertAt, a, c, d
<1>8. i \in 1 .. n + 1
  BY <1>1
<1> QED BY <1>1, <1>5, <1>6, <1>7, <1>8 DEF Inserted

\* v is q without its element i.
Removed(q, v, i) ==
  /\ Len(v) = Len(q) - 1
  /\ \A k \in 1 .. Len(q) - 1 : v[k] = IF k < i THEN q[k] ELSE q[k + 1]

LEMMA RemoveIs ==
  ASSUME NEW T, NEW q \in Seq(T), NEW i \in 1 .. Len(q)
  PROVE  RemoveAt(q, i) \in Seq(T) /\ Removed(q, RemoveAt(q, i), i)
<1>1. PICK n \in Nat, l \in Nat, m \in Nat : n = Len(q) /\ l = i - 1 /\ m = i + 1 /\ i \in Nat
  OBVIOUS
<1> DEFINE a == SubSeq(q, 1, l)
           c == SubSeq(q, m, n)
<1>2. a \in Seq(T) /\ Len(a) = l /\ \A k \in 1 .. l : a[k] = q[k]
  BY <1>1
<1>3. c \in Seq(T) /\ Len(c) = n - i /\ \A k \in 1 .. n - i : c[k] = q[i + k]
  BY <1>1
<1> HIDE DEF a, c
<1>5. /\ a \o c \in Seq(T) /\ Len(a \o c) = n - 1
      /\ \A k \in 1 .. n - 1 : (a \o c)[k] = IF k <= l THEN a[k] ELSE c[k - l]
  <2>1. /\ a \o c \in Seq(T) /\ Len(a \o c) = Len(a) + Len(c)
        /\ \A k \in 1 .. Len(a) + Len(c) : (a \o c)[k] = IF k <= Len(a) THEN a[k] ELSE c[k - Len(a)]
    BY ONLY <1>2, <1>3, ConcatProperties
  <2> QED BY ONLY <1>1, <1>2, <1>3, <2>1
<1>6. \A k \in 1 .. n - 1 : (a \o c)[k] = IF k < i THEN q[k] ELSE q[k + 1]
  <2> SUFFICES ASSUME NEW k \in 1 .. n - 1
               PROVE  (a \o c)[k] = IF k < i THEN q[k] ELSE q[k + 1]
    OBVIOUS
  <2>1. CASE k < i
    <3>1. k \in 1 .. l /\ k <= l
      BY ONLY <1>1, <2>1, k \in 1 .. n - 1
    <3> QED BY ONLY <1>2, <1>5, <2>1, <3>1, k \in 1 .. n - 1
  <2>2. CASE k >= i
    <3>1. k - l \in 1 .. n - i /\ i + (k - l) = k + 1
      BY <1>1, <2>2
    <3>2. c[k - l] = q[k + 1]
      BY <1>3, <3>1
    <3>3. k \in 1 .. n - 1 /\ ~(k <= l) /\ ~(k < i)
      BY ONLY <1>1, <2>2, k \in 1 .. n - 1
    <3>4. (a \o c)[k] = c[k - l]
      BY ONLY <1>5, <3>3
    <3> QED BY <3>2, <3>3, <3>4
  <2>4. k < i \/ k >= i
    BY <1>1
  <2> QED BY <2>1, <2>2, <2>4
<1>7. RemoveAt(q, i) = a \o c
  BY <1>1 DEF RemoveAt, a, c
<1> QED BY <1>1, <1>5, <1>6, <1>7 DEF Removed

----------------------------------------------------------------------------
(* Requests. *)

LEMMA BufIs ==
  /\ SECTPERBLK \in Nat /\ SECTPERBLK > 0 /\ MAXSECT \in Nat /\ SECTPERBLK <= MAXSECT
  /\ \A b \in Buf : b[2] \in Nat /\ b[1] \in Dev
<1>1. SECTPERBLK \in Nat /\ SECTPERBLK > 0 /\ MAXSECT \in Nat /\ SECTPERBLK <= MAXSECT
  BY BlkDevAssumption
<1>2. \A b \in Buf : b[2] \in 0 .. NBLK - 1 /\ b[1] \in Dev
  BY DEF Buf
<1>3. NBLK \in Nat
  BY BlkDevAssumption
<1> QED BY <1>1, <1>2, <1>3

LEMMA NewReqIs ==
  ASSUME NEW cmd \in {"BREAD", "BWRITE"}, NEW b \in Buf
  PROVE  /\ NewReq(cmd, b) \in Req /\ GoodReq(NewReq(cmd, b)) /\ Elems(NewReq(cmd, b).bufs) = {b}
         /\ NewReq(cmd, b).cmd = cmd /\ ~NewReq(cmd, b).cur
<1> DEFINE r == NewReq(cmd, b)
<1>1. /\ r.cmd = cmd /\ r.dev = b[1] /\ r.startsect = b[2] * SECTPERBLK /\ r.nsect = SECTPERBLK
      /\ r.bufs = <<b>> /\ r.pos = 0 /\ r.cur = FALSE
  BY DEF NewReq
<1>2. b[2] * SECTPERBLK \in Nat
  BY BufIs, Times
<1>3. <<b>> \in Seq(Buf) /\ Len(<<b>>) = 1 /\ <<b>>[1] = b /\ <<b>> # << >>
  OBVIOUS
<1>4. r \in Req
  BY <1>2, <1>3, BufIs DEF NewReq, Req
<1> HIDE DEF r
<1>5. Elems(r.bufs) = {b}
  BY <1>1, <1>3 DEF Elems
<1>6. SECTPERBLK = SECTPERBLK * 1 /\ b[2] * SECTPERBLK = b[2] * SECTPERBLK + (1 - 1) * SECTPERBLK
  BY <1>2, BufIs
<1>7. GoodReq(r)
  <2>1. r.bufs # << >> /\ r.nsect = SECTPERBLK * Len(r.bufs) /\ r.nsect <= MAXSECT
    BY <1>1, <1>3, <1>6, BufIs
  <2>2. \A k \in 1 .. Len(r.bufs) : k = 1 /\ r.bufs[k] = b
    BY <1>1, <1>3
  <2>3. \A k \in 1 .. Len(r.bufs) :
          r.bufs[k][1] = r.dev /\ r.bufs[k][2] * SECTPERBLK = r.startsect + (k - 1) * SECTPERBLK
    BY <1>1, <1>6, <2>2
  <2>4. r.pos <= r.nsect /\ (~r.cur => r.pos = 0)
    BY <1>1, BufIs
  <2> QED BY <2>1, <2>2, <2>3, <2>4 DEF GoodReq
<1> QED BY <1>1, <1>4, <1>5, <1>7 DEF r

\* A sequence with b at its end, and with b at its head.
LEMMA WithLast ==
  ASSUME NEW q \in Seq(Buf), NEW b \in Buf, NEW n \in Nat, n = Len(q)
  PROVE  /\ Append(q, b) \in Seq(Buf) /\ Len(Append(q, b)) = n + 1 /\ Append(q, b)[n + 1] = b
         /\ \A k \in 1 .. n : Append(q, b)[k] = q[k]
         /\ Elems(Append(q, b)) = Elems(q) \cup {b}
<1> DEFINE w == Append(q, b)
<1>1. w \in Seq(Buf) /\ Len(w) = n + 1 /\ w[n + 1] = b /\ \A k \in 1 .. n : w[k] = q[k]
  OBVIOUS
<1> HIDE DEF w
<1>2. /\ \A k \in 1 .. n + 1 : k = n + 1 \/ k \in 1 .. n
      /\ \A k \in 1 .. n : k \in 1 .. n + 1
      /\ n + 1 \in 1 .. n + 1
  OBVIOUS
<1>3. Elems(w) = {w[k] : k \in 1 .. n + 1} /\ Elems(q) = {q[k] : k \in 1 .. n}
  BY <1>1 DEF Elems
<1>4. Elems(w) = Elems(q) \cup {b}
  BY ONLY <1>1, <1>2, <1>3
<1> QED BY <1>1, <1>4 DEF w

LEMMA WithFirst ==
  ASSUME NEW q \in Seq(Buf), NEW b \in Buf, NEW n \in Nat, n = Len(q)
  PROVE  /\ <<b>> \o q \in Seq(Buf) /\ Len(<<b>> \o q) = n + 1 /\ (<<b>> \o q)[1] = b
         /\ \A k \in 1 .. n : (<<b>> \o q)[k + 1] = q[k]
         /\ Elems(<<b>> \o q) = Elems(q) \cup {b}
<1> DEFINE w == <<b>> \o q
<1>1. <<b>> \in Seq(Buf) /\ Len(<<b>>) = 1 /\ <<b>>[1] = b
  OBVIOUS
<1>2. /\ w \in Seq(Buf) /\ Len(w) = Len(<<b>>) + Len(q)
      /\ \A k \in 1 .. Len(<<b>>) + Len(q) :
           w[k] = IF k <= Len(<<b>>) THEN <<b>>[k] ELSE q[k - Len(<<b>>)]
  BY ONLY <1>1, q \in Seq(Buf), ConcatProperties
<1> HIDE DEF w
<1>3. Len(w) = n + 1 /\ \A k \in 1 .. n + 1 : w[k] = IF k <= 1 THEN <<b>>[k] ELSE q[k - 1]
  BY ONLY <1>1, <1>2, n = Len(q), n \in Nat
<1>4. w[1] = b
  BY <1>1, <1>3
<1>5. \A k \in 1 .. n : w[k + 1] = q[k]
  <2> SUFFICES ASSUME NEW k \in 1 .. n PROVE w[k + 1] = q[k]
    OBVIOUS
  <2>1. k + 1 \in 1 .. n + 1 /\ ~(k + 1 <= 1) /\ (k + 1) - 1 = k
    OBVIOUS
  <2> QED BY ONLY <1>3, <2>1
<1>6. /\ \A k \in 1 .. n + 1 : k = 1 \/ (k - 1 \in 1 .. n /\ k = (k - 1) + 1)
      /\ \A k \in 1 .. n : k + 1 \in 1 .. n + 1
      /\ 1 \in 1 .. n + 1
  OBVIOUS
<1>7. Elems(w) = {w[k] : k \in 1 .. n + 1} /\ Elems(q) = {q[k] : k \in 1 .. n}
  BY <1>3 DEF Elems
<1>8. Elems(w) \subseteq Elems(q) \cup {b}
  <2> SUFFICES ASSUME NEW k \in 1 .. n + 1 PROVE w[k] \in Elems(q) \cup {b}
    BY <1>7
  <2>1. k = 1 \/ (k - 1 \in 1 .. n /\ w[k] = q[k - 1])
    BY <1>5, <1>6
  <2> QED BY ONLY <1>4, <1>7, <2>1
<1>9. Elems(q) \cup {b} \subseteq Elems(w)
  BY ONLY <1>4, <1>5, <1>6, <1>7
<1> QED BY <1>2, <1>3, <1>4, <1>5, <1>8, <1>9 DEF w

LEMMA ReqIs ==
  ASSUME NEW r \in Req
  PROVE  /\ r.cmd \in {"BREAD", "BWRITE"} /\ r.dev \in Dev /\ r.startsect \in Nat
         /\ r.nsect \in 0 .. MAXSECT /\ r.bufs \in Seq(Buf) /\ r.pos \in 0 .. MAXSECT
         /\ r.cur \in BOOLEAN
BY DEF Req

LEMMA GoodReqIf ==
  ASSUME NEW r \in Req, NEW n \in Nat, n > 0, Len(r.bufs) = n, r.nsect = SECTPERBLK * n,
         \A k \in 1 .. n : r.bufs[k][1] = r.dev /\ r.bufs[k][2] * SECTPERBLK = r.startsect + (k - 1) * SECTPERBLK,
         \A j, k \in 1 .. n : r.bufs[j] = r.bufs[k] => j = k,
         r.pos = 0
  PROVE  GoodReq(r)
<1>1. r.nsect \in 0 .. MAXSECT /\ MAXSECT \in Nat /\ r.bufs \in Seq(Buf)
  BY ReqIs, BufIs
<1>2. r.nsect <= MAXSECT /\ r.pos <= r.nsect /\ r.bufs # << >>
  BY <1>1
<1> QED BY <1>2 DEF GoodReq

LEMMA MergedIs ==
  ASSUME NEW r \in Req, GoodReq(r), ~r.cur, NEW cmd, NEW b \in Buf, b \notin Elems(r.bufs),
         Merges(r, cmd, b)
  PROVE  /\ Merged(r, b) \in Req /\ GoodReq(Merged(r, b))
         /\ Elems(Merged(r, b).bufs) = Elems(r.bufs) \cup {b}
         /\ Merged(r, b).cmd = cmd /\ ~Merged(r, b).cur /\ r.cmd = cmd
<1> DEFINE m == Merged(r, b)
<1>1. /\ r.cmd \in {"BREAD", "BWRITE"} /\ r.dev \in Dev /\ r.startsect \in Nat
      /\ r.nsect \in 0 .. MAXSECT /\ r.bufs \in Seq(Buf) /\ r.cur = FALSE
  BY ReqIs
<1>2. PICK n \in Nat, S \in Nat, bb \in Nat :
        n = Len(r.bufs) /\ S = SECTPERBLK /\ S > 0 /\ bb = b[2]
  <2>1. Len(r.bufs) \in Nat
    BY ONLY <1>1
  <2>2. SECTPERBLK \in Nat /\ SECTPERBLK > 0 /\ b[2] \in Nat
    BY BufIs
  <2> QED BY ONLY <2>1, <2>2
<1>3. /\ r.nsect = S * n /\ r.cmd = cmd /\ r.dev = b[1] /\ r.nsect + S <= MAXSECT
      /\ MAXSECT \in Nat
  BY <1>2, BufIs DEF GoodReq, Merges, MayMerge
<1>4. \A k \in 1 .. n : r.bufs[k][1] = r.dev /\ r.bufs[k][2] * S = r.startsect + (k - 1) * S
  BY <1>2 DEF GoodReq
<1>5. \A j, k \in 1 .. n : r.bufs[j] = r.bufs[k] => j = k
  BY <1>2 DEF GoodReq
<1>6. \A k \in 1 .. n : r.bufs[k] # b
  BY <1>2 DEF Elems
<1>7. r.nsect + S \in 0 .. MAXSECT /\ r.nsect + S = S * (n + 1) /\ bb * S \in Nat
  BY ONLY <1>1, <1>2, <1>3
<1>9. CASE Follows(r, b)
  <2>1. PICK w \in Seq(Buf) :
          /\ w = Append(r.bufs, b) /\ Len(w) = n + 1 /\ w[n + 1] = b
          /\ (\A k \in 1 .. n : w[k] = r.bufs[k]) /\ Elems(w) = Elems(r.bufs) \cup {b}
    <3>1. /\ Append(r.bufs, b) \in Seq(Buf) /\ Len(Append(r.bufs, b)) = n + 1 /\ Append(r.bufs, b)[n + 1] = b
          /\ \A k \in 1 .. n : Append(r.bufs, b)[k] = r.bufs[k]
          /\ Elems(Append(r.bufs, b)) = Elems(r.bufs) \cup {b}
      BY ONLY <1>1, <1>2, b \in Buf, WithLast
    <3> QED BY ONLY <3>1
  <2>2. m = [r EXCEPT !.nsect = r.nsect + S, !.pos = 0, !.bufs = w]
    BY <1>2, <1>9, <2>1 DEF Merged
  <2>3. /\ m.cmd = cmd /\ m.dev = r.dev /\ m.startsect = r.startsect /\ m.nsect = r.nsect + S
        /\ m.bufs = w /\ m.pos = 0 /\ m.cur = FALSE /\ m \in Req
    <3>1. m = [cmd |-> r.cmd, dev |-> r.dev, startsect |-> r.startsect, nsect |-> r.nsect + S,
               bufs |-> w, pos |-> 0, cur |-> r.cur]
      BY ONLY <2>2, r \in Req DEF Req
    <3> HIDE DEF m
    <3>2. 0 \in 0 .. MAXSECT
      BY ONLY <1>3
    <3> QED BY ONLY <1>1, <1>3, <1>7, <3>1, <3>2, w \in Seq(Buf) DEF Req
  <2>5. bb * S = r.startsect + ((n + 1) - 1) * S
    <3>1. r.startsect + r.nsect = bb * S
      BY <1>2, <1>9 DEF Follows
    <3> QED BY ONLY <1>1, <1>2, <1>3, <3>1
  <2>6. \A k \in 1 .. n + 1 : w[k][1] = r.dev /\ w[k][2] * S = r.startsect + (k - 1) * S
    <3> SUFFICES ASSUME NEW k \in 1 .. n + 1
                 PROVE  w[k][1] = r.dev /\ w[k][2] * S = r.startsect + (k - 1) * S
      OBVIOUS
    <3>1. CASE k = n + 1
      BY ONLY <1>2, <1>3, <2>1, <2>5, <3>1
    <3>2. CASE k \in 1 .. n
      BY ONLY <1>4, <2>1, <3>2
    <3>3. k = n + 1 \/ k \in 1 .. n
      BY ONLY <1>2, k \in 1 .. n + 1
    <3> QED BY ONLY <3>1, <3>2, <3>3
  <2>7. \A j, k \in 1 .. n + 1 : w[j] = w[k] => j = k
    <3>1. \A k \in 1 .. n : w[k] # b
      BY ONLY <1>6, <2>1
    <3>2. \A k \in 1 .. n + 1 : k = n + 1 \/ k \in 1 .. n
      BY ONLY <1>2
    <3> QED BY ONLY <1>5, <2>1, <3>1, <3>2
  <2> HIDE DEF m
  <2>9. GoodReq(m)
    <3>1. n + 1 \in Nat /\ n + 1 > 0 /\ m.nsect = SECTPERBLK * (n + 1) /\ Len(m.bufs) = n + 1
      BY ONLY <1>2, <1>7, <2>1, <2>3
    <3>2. \A k \in 1 .. n + 1 :
            m.bufs[k][1] = m.dev /\ m.bufs[k][2] * SECTPERBLK = m.startsect + (k - 1) * SECTPERBLK
      BY ONLY <1>2, <2>3, <2>6
    <3>3. \A j, k \in 1 .. n + 1 : m.bufs[j] = m.bufs[k] => j = k
      BY ONLY <2>3, <2>7
    <3> QED BY ONLY <2>3, <3>1, <3>2, <3>3, GoodReqIf
  <2> QED BY <1>3, <2>1, <2>3, <2>9 DEF m
<1>10. CASE ~Follows(r, b)
  <2>1. PICK w \in Seq(Buf) :
          /\ w = <<b>> \o r.bufs /\ Len(w) = n + 1 /\ w[1] = b
          /\ (\A k \in 1 .. n : w[k + 1] = r.bufs[k]) /\ Elems(w) = Elems(r.bufs) \cup {b}
    <3>1. /\ <<b>> \o r.bufs \in Seq(Buf) /\ Len(<<b>> \o r.bufs) = n + 1 /\ (<<b>> \o r.bufs)[1] = b
          /\ \A k \in 1 .. n : (<<b>> \o r.bufs)[k + 1] = r.bufs[k]
          /\ Elems(<<b>> \o r.bufs) = Elems(r.bufs) \cup {b}
      BY ONLY <1>1, <1>2, b \in Buf, WithFirst
    <3> QED BY ONLY <3>1
  <2>2. m = [r EXCEPT !.startsect = r.startsect - S, !.nsect = r.nsect + S, !.pos = 0, !.bufs = w]
    BY <1>2, <1>10, <2>1 DEF Merged
  <2>3. (bb + 1) * S = r.startsect
    BY <1>2, <1>10 DEF Merges, Precedes
  <2>4. r.startsect - S = bb * S
    BY ONLY <1>1, <1>2, <2>3
  <2>5. /\ m.cmd = cmd /\ m.dev = r.dev /\ m.startsect = bb * S /\ m.nsect = r.nsect + S
        /\ m.bufs = w /\ m.pos = 0 /\ m.cur = FALSE /\ m \in Req
    <3>1. m = [cmd |-> r.cmd, dev |-> r.dev, startsect |-> r.startsect - S, nsect |-> r.nsect + S,
               bufs |-> w, pos |-> 0, cur |-> r.cur]
      BY ONLY <2>2, r \in Req DEF Req
    <3> HIDE DEF m
    <3>2. 0 \in 0 .. MAXSECT
      BY ONLY <1>3
    <3> QED BY ONLY <1>1, <1>3, <1>7, <2>4, <3>1, <3>2, w \in Seq(Buf) DEF Req
  <2>6. \A k \in 1 .. n + 1 : k = 1 \/ \E j \in 1 .. n : k = j + 1
    <3> SUFFICES ASSUME NEW k \in 1 .. n + 1, k # 1 PROVE \E j \in 1 .. n : k = j + 1
      OBVIOUS
    <3>1. k - 1 \in 1 .. n /\ k = (k - 1) + 1
      BY ONLY <1>2, k \in 1 .. n + 1, k # 1
    <3> QED BY <3>1
  <2>7. \A k \in 1 .. n + 1 : w[k][1] = r.dev /\ w[k][2] * S = bb * S + (k - 1) * S
    <3> SUFFICES ASSUME NEW k \in 1 .. n + 1
                 PROVE  w[k][1] = r.dev /\ w[k][2] * S = bb * S + (k - 1) * S
      OBVIOUS
    <3>1. CASE k = 1
      <4>1. (k - 1) * S = 0
        BY ONLY <1>2, <3>1
      <4> QED BY ONLY <1>2, <1>3, <1>7, <2>1, <3>1, <4>1
    <3>2. ASSUME NEW j \in 1 .. n, k = j + 1
          PROVE  w[k][1] = r.dev /\ w[k][2] * S = bb * S + (k - 1) * S
      <4>1. r.bufs[j][1] = r.dev /\ r.bufs[j][2] * S = r.startsect + (j - 1) * S
        BY <1>4
      <4>2. r.startsect + (j - 1) * S = bb * S + (k - 1) * S
        <5>1. j \in Nat
          OBVIOUS
        <5> QED BY ONLY <1>2, <2>3, <3>2, <5>1
      <4> QED BY ONLY <2>1, <3>2, <4>1, <4>2
    <3> QED BY <2>6, <3>1, <3>2
  <2>8. \A j, k \in 1 .. n + 1 : w[j] = w[k] => j = k
    <3>1. \A k \in 1 .. n : w[k + 1] # b
      BY ONLY <1>6, <2>1
    <3> QED BY ONLY <1>5, <2>1, <2>6, <3>1
  <2> HIDE DEF m
  <2>9. GoodReq(m)
    <3>1. n + 1 \in Nat /\ n + 1 > 0 /\ m.nsect = SECTPERBLK * (n + 1) /\ Len(m.bufs) = n + 1
      BY ONLY <1>2, <1>7, <2>1, <2>5
    <3>2. \A k \in 1 .. n + 1 :
            m.bufs[k][1] = m.dev /\ m.bufs[k][2] * SECTPERBLK = m.startsect + (k - 1) * SECTPERBLK
      BY ONLY <1>2, <2>5, <2>7
    <3>3. \A j, k \in 1 .. n + 1 : m.bufs[j] = m.bufs[k] => j = k
      BY ONLY <2>5, <2>8
    <3> QED BY ONLY <2>5, <3>1, <3>2, <3>3, GoodReqIf
  <2> QED BY <1>3, <2>1, <2>5, <2>9 DEF m
<1> QED BY <1>9, <1>10
----------------------------------------------------------------------------
(* Queues. *)

\* The request the device works on.
LEMMA CurIs ==
  ASSUME NEW q, Queue(q), HasCur(q)
  PROVE  Cur(q) \in 1 .. Len(q) /\ q[Cur(q)].cur /\ \A i \in 1 .. Len(q) : q[i].cur => i = Cur(q)
<1>1. Cur(q) \in 1 .. Len(q) /\ q[Cur(q)].cur
  BY DEF HasCur, Cur
<1> QED BY ONLY <1>1, Queue(q) DEF Queue

\* A queue whose requests, all but the one at i, are those of another queue.
SameBut(q, v, f, i) ==
  /\ i \in 1 .. Len(v)
  /\ \A k \in 1 .. Len(v) : k # i => f[k] \in 1 .. Len(q) /\ v[k] = q[f[k]]
  /\ \A k, l \in 1 .. Len(v) : k # i /\ l # i /\ f[k] = f[l] => k = l
  /\ GoodReq(v[i])
  /\ \A k \in 1 .. Len(v) : k # i => Elems(v[i].bufs) \cap Elems(v[k].bufs) = {}
  /\ \A k \in 1 .. Len(v) : k # i => ~(v[i].cur /\ v[k].cur)

LEMMA QueueOf ==
  ASSUME NEW q, NEW v, NEW f, NEW i, Queue(q), SameBut(q, v, f, i)
  PROVE  Queue(v)
<1> USE DEF SameBut
<1>1. \A k \in 1 .. Len(v) : GoodReq(v[k])
  <2> SUFFICES ASSUME NEW k \in 1 .. Len(v), k # i PROVE GoodReq(v[k])
    OBVIOUS
  <2> QED BY DEF Queue
<1>2. ASSUME NEW k \in 1 .. Len(v), NEW l \in 1 .. Len(v), k # l
      PROVE  Elems(v[k].bufs) \cap Elems(v[l].bufs) = {} /\ ~(v[k].cur /\ v[l].cur)
  <2>1. CASE k # i /\ l # i
    <3>1. f[k] \in 1 .. Len(q) /\ f[l] \in 1 .. Len(q) /\ f[k] # f[l] /\ v[k] = q[f[k]] /\ v[l] = q[f[l]]
      BY <1>2, <2>1
    <3> QED BY ONLY <3>1, Queue(q) DEF Queue
  <2>2. CASE k = i
    BY <1>2, <2>2
  <2>3. CASE l = i
    BY <1>2, <2>3
  <2> QED BY <2>1, <2>2, <2>3
<1> QED BY <1>1, <1>2 DEF Queue

\* What an added buffer does to a queue: b is in one request more, or in one
\* more of the requests, made for the same command and not yet begun.
Old(q, r) == \E j \in 1 .. Len(q) : r = q[j]
Grown(q, r, cmd, b) ==
  /\ r.cmd = cmd /\ ~r.cur /\ b \in Elems(r.bufs)
  /\ \/ Elems(r.bufs) = {b}
     \/ \E j \in 1 .. Len(q) : ~q[j].cur /\ q[j].cmd = cmd /\ Elems(r.bufs) = Elems(q[j].bufs) \cup {b}
AddedTo(q, v, cmd, b) ==
  /\ v \in Seq(Req) /\ Queue(v)
  /\ \A k \in 1 .. Len(v) : (Old(q, v[k]) /\ b \notin Elems(v[k].bufs)) \/ Grown(q, v[k], cmd, b)
  /\ \E k \in 1 .. Len(v) : b \in Elems(v[k].bufs)
  /\ \A j \in 1 .. Len(q) : \E k \in 1 .. Len(v) :
       \/ v[k] = q[j]
       \/ ~q[j].cur /\ Elems(q[j].bufs) \subseteq Elems(v[k].bufs)

LEMMA AddNew ==
  ASSUME NEW q \in Seq(Req), Queue(q), NEW v \in Seq(Req), NEW cmd, NEW b, ~InQ(q, b), NEW e,
         NEW i, Inserted(q, v, i, e), GoodReq(e), Elems(e.bufs) = {b}, e.cmd = cmd, ~e.cur
  PROVE  AddedTo(q, v, cmd, b)
<1>A. PICK n \in Nat : n = Len(q)
  OBVIOUS
<1>B. /\ i \in 1 .. n + 1 /\ Len(v) = n + 1
        /\ \A k \in 1 .. n + 1 : v[k] = IF k < i THEN q[k] ELSE IF k = i THEN e ELSE q[k - 1]
  BY <1>A DEF Inserted
<1> USE <1>A, <1>B
<1> DEFINE f == [k \in 1 .. n + 1 |-> IF k < i THEN k ELSE k - 1]
<1>0. v[i] = e /\ i \in 1 .. Len(v)
  OBVIOUS
<1>1. \A k \in 1 .. n + 1 : k # i => f[k] \in 1 .. n /\ v[k] = q[f[k]]
  <2> SUFFICES ASSUME NEW k \in 1 .. n + 1, k # i PROVE f[k] \in 1 .. n /\ v[k] = q[f[k]]
    OBVIOUS
  <2>1. CASE k < i
    <3>1. f[k] = k /\ k \in 1 .. n
      BY <2>1
    <3> HIDE DEF f
    <3> QED BY <2>1, <3>1
  <2>2. CASE k > i
    <3>1. f[k] = k - 1 /\ k - 1 \in 1 .. n
      BY <2>2
    <3> HIDE DEF f
    <3> QED BY <2>2, <3>1
  <2> QED BY <2>1, <2>2
<1>2. \A k, l \in 1 .. n + 1 : k # i /\ l # i /\ f[k] = f[l] => k = l
  OBVIOUS
<1>3. \A j \in 1 .. n : \E k \in 1 .. n + 1 : k # i /\ f[k] = j
  <2> SUFFICES ASSUME NEW j \in 1 .. n PROVE \E k \in 1 .. n + 1 : k # i /\ f[k] = j
    OBVIOUS
  <2>1. CASE j < i
    <3>1. j \in 1 .. n + 1 /\ j # i /\ f[j] = j
      BY <2>1
    <3> HIDE DEF f
    <3> QED BY <3>1
  <2>2. CASE j >= i
    <3>1. j + 1 \in 1 .. n + 1 /\ j + 1 # i /\ f[j + 1] = j
      BY <2>2
    <3> HIDE DEF f
    <3> QED BY <3>1
  <2> QED BY <2>1, <2>2
<1> HIDE DEF f
<1>4. \A k \in 1 .. n + 1 : k # i => b \notin Elems(v[k].bufs)
  BY <1>1 DEF InQ
<1>5. Queue(v)
  <2>1. \A k \in 1 .. Len(v) : k # i => Elems(v[i].bufs) \cap Elems(v[k].bufs) = {}
    BY <1>0, <1>4
  <2>2. \A k \in 1 .. Len(v) : k # i => f[k] \in 1 .. Len(q) /\ v[k] = q[f[k]]
    BY <1>1
  <2>3. \A k, l \in 1 .. Len(v) : k # i /\ l # i /\ f[k] = f[l] => k = l
    BY <1>2
  <2>4. GoodReq(v[i])
    BY <1>0
  <2>5. \A k \in 1 .. Len(v) : k # i => ~(v[i].cur /\ v[k].cur)
    BY <1>0
  <2>6. i \in 1 .. Len(v)
    BY <1>0
  <2>7. SameBut(q, v, f, i)
    BY ONLY <2>1, <2>2, <2>3, <2>4, <2>5, <2>6 DEF SameBut
  <2> QED BY ONLY Queue(q), <2>7, QueueOf
<1>6. Grown(q, v[i], cmd, b)
  BY <1>0 DEF Grown
<1>7. \A k \in 1 .. n + 1 : k # i => Old(q, v[k])
  BY <1>1 DEF Old
<1>8. \A j \in 1 .. n : \E k \in 1 .. n + 1 : v[k] = q[j]
  <2> SUFFICES ASSUME NEW j \in 1 .. n PROVE \E k \in 1 .. n + 1 : v[k] = q[j]
    OBVIOUS
  <2>1. PICK k \in 1 .. n + 1 : k # i /\ f[k] = j
    BY <1>3
  <2> QED BY ONLY <1>1, <2>1
<1> QED BY ONLY <1>0, <1>4, <1>5, <1>6, <1>7, <1>8, v \in Seq(Req), <1>A, <1>B, b \in {b}, Elems(e.bufs) = {b} DEF AddedTo

LEMMA AddMerged ==
  ASSUME NEW q \in Seq(Req), Queue(q), NEW cmd, NEW b \in Buf, ~InQ(q, b),
         NEW i \in 1 .. Len(q), ~q[i].cur, Merges(q[i], cmd, b)
  PROVE  AddedTo(q, [q EXCEPT ![i] = Merged(q[i], b)], cmd, b)
<1> DEFINE m == Merged(q[i], b)
           v == [q EXCEPT ![i] = m]
<1>1. q[i] \in Req /\ GoodReq(q[i]) /\ b \notin Elems(q[i].bufs)
  BY DEF Queue, InQ
<1>2. /\ m \in Req /\ GoodReq(m) /\ Elems(m.bufs) = Elems(q[i].bufs) \cup {b}
      /\ m.cmd = cmd /\ ~m.cur /\ q[i].cmd = cmd
  BY <1>1, MergedIs
<1> HIDE DEF m
<1>3. /\ v \in Seq(Req) /\ Len(v) = Len(q) /\ v[i] = m
      /\ \A k \in 1 .. Len(q) : k # i => v[k] = q[k]
  BY <1>2
<1> HIDE DEF v
<1>4. \A k \in 1 .. Len(q) : k # i =>
        b \notin Elems(v[k].bufs) /\ Elems(q[i].bufs) \cap Elems(v[k].bufs) = {}
  BY <1>3 DEF InQ, Queue
<1>5. Queue(v)
  <2> DEFINE f == [k \in 1 .. Len(q) |-> k]
  <2>1. \A k \in 1 .. Len(v) : k # i => f[k] \in 1 .. Len(q) /\ v[k] = q[f[k]]
    BY <1>3
  <2>2. \A k, l \in 1 .. Len(v) : k # i /\ l # i /\ f[k] = f[l] => k = l
    BY <1>3
  <2>3. \A k \in 1 .. Len(v) : k # i => Elems(v[i].bufs) \cap Elems(v[k].bufs) = {}
    BY <1>2, <1>3, <1>4
  <2>4. GoodReq(v[i])
    BY <1>2, <1>3
  <2>5. \A k \in 1 .. Len(v) : k # i => ~(v[i].cur /\ v[k].cur)
    BY <1>2, <1>3
  <2>6. i \in 1 .. Len(v)
    BY <1>3
  <2> HIDE DEF f
  <2>7. SameBut(q, v, f, i)
    BY ONLY <2>1, <2>2, <2>3, <2>4, <2>5, <2>6 DEF SameBut
  <2> QED BY ONLY Queue(q), <2>7, QueueOf
<1>6. Grown(q, v[i], cmd, b)
  BY <1>2, <1>3 DEF Grown
<1>7. \A k \in 1 .. Len(q) : k # i => Old(q, v[k])
  BY <1>3 DEF Old
<1>8. AddedTo(q, v, cmd, b)
  <2>1. \A j \in 1 .. Len(q) : j # i => v[j] = q[j]
    BY <1>3
  <2>2. ~q[i].cur /\ Elems(q[i].bufs) \subseteq Elems(v[i].bufs) /\ b \in Elems(v[i].bufs)
    BY <1>2, <1>3
  <2>3. \A j \in 1 .. Len(q) : v[j] = q[j] \/ (~q[j].cur /\ Elems(q[j].bufs) \subseteq Elems(v[j].bufs))
    BY <2>1, <2>2
  <2> QED BY ONLY <1>3, <1>4, <1>5, <1>6, <1>7, <2>2, <2>3, i \in 1 .. Len(q) DEF AddedTo
<1> QED BY <1>8 DEF v, m

LEMMA Added ==
  ASSUME NEW q \in Seq(Req), Queue(q), NEW cmd \in {"BREAD", "BWRITE"}, NEW b \in Buf, ~InQ(q, b)
  PROVE  AddedTo(q, AddReq(q, cmd, b), cmd, b)
<1> DEFINE M == {i \in 1 .. Len(q) : ~q[i].cur /\ Merges(q[i], cmd, b)}
           new == NewReq(cmd, b)
           L == {i \in 1 .. Len(q) : new.startsect < q[i].startsect}
           First(S) == CHOOSE i \in S : \A j \in S : i <= j
<1>1. AddReq(q, cmd, b) = IF M # {} THEN [q EXCEPT ![First(M)] = Merged(q[First(M)], b)]
                          ELSE IF L # {} THEN InsertAt(q, First(L), new) ELSE Append(q, new)
  BY DEF AddReq
<1>2. new \in Req /\ GoodReq(new) /\ Elems(new.bufs) = {b} /\ new.cmd = cmd /\ ~new.cur
  BY NewReqIs
<1>3. ASSUME NEW S \in SUBSET Nat, S # {} PROVE First(S) \in S
  <2>1. \E i \in S : \A j \in S : i <= j
    BY ONLY <1>3, LeastOf
  <2> QED BY <2>1
<1>4. M \subseteq 1 .. Len(q) /\ L \subseteq 1 .. Len(q)
  OBVIOUS
<1>5. M \in SUBSET Nat /\ L \in SUBSET Nat
  OBVIOUS
<1>6. CASE M # {}
  <2>1. First(M) \in M
    BY <1>3, <1>5, <1>6
  <2>2. PICK i \in 1 .. Len(q) : i = First(M) /\ ~q[i].cur /\ Merges(q[i], cmd, b)
    BY ONLY <2>1
  <2>3. AddReq(q, cmd, b) = [q EXCEPT ![i] = Merged(q[i], b)]
    BY <1>1, <1>6, <2>2
  <2>4. AddedTo(q, [q EXCEPT ![i] = Merged(q[i], b)], cmd, b)
    BY ONLY q \in Seq(Req), Queue(q), b \in Buf, ~InQ(q, b), <2>2, AddMerged
  <2> QED BY ONLY <2>3, <2>4
<1>7. CASE M = {} /\ L # {}
  <2>1. First(L) \in L
    BY <1>3, <1>5, <1>7
  <2>2. PICK i \in 1 .. Len(q) : i = First(L)
    BY <1>4, <2>1
  <2>3. AddReq(q, cmd, b) = InsertAt(q, i, new)
    BY <1>1, <1>7, <2>2
  <2> HIDE DEF new, M, L, First
  <2>4. PICK v : v = InsertAt(q, i, new)
    OBVIOUS
  <2>5. v \in Seq(Req) /\ Inserted(q, v, i, new)
    BY ONLY <1>2, <2>4, q \in Seq(Req), i \in 1 .. Len(q), InsertIs
  <2>6. AddedTo(q, v, cmd, b)
    BY ONLY q \in Seq(Req), Queue(q), ~InQ(q, b), <1>2, <2>5, AddNew
  <2> QED BY <2>3, <2>4, <2>6
<1>8. CASE M = {} /\ L = {}
  <2>3. AddReq(q, cmd, b) = Append(q, new)
    BY <1>1, <1>8
  <2> HIDE DEF new, M, L, First
  <2>4. PICK n \in Nat : n = Len(q)
    OBVIOUS
  <2>5. PICK v : v = Append(q, new)
    OBVIOUS
  <2>6. /\ v \in Seq(Req) /\ Len(v) = n + 1 /\ v[n + 1] = new /\ \A k \in 1 .. n : v[k] = q[k]
    BY <1>2, <2>4, <2>5
  <2>7. /\ n + 1 \in 1 .. n + 1
        /\ \A k \in 1 .. n + 1 : v[k] = IF k < n + 1 THEN q[k] ELSE IF k = n + 1 THEN new ELSE q[k - 1]
    BY <2>4, <2>6
  <2>8. Inserted(q, v, n + 1, new)
    BY ONLY <2>4, <2>6, <2>7 DEF Inserted
  <2>9. AddedTo(q, v, cmd, b)
    BY ONLY q \in Seq(Req), Queue(q), ~InQ(q, b), <1>2, <2>6, <2>8, AddNew
  <2> QED BY <2>3, <2>5, <2>9
<1> QED BY <1>6, <1>7, <1>8

LEMMA SetCur ==
  ASSUME NEW r \in Req, GoodReq(r)
  PROVE  /\ [r EXCEPT !.cur = TRUE] \in Req /\ GoodReq([r EXCEPT !.cur = TRUE])
         /\ [r EXCEPT !.cur = TRUE].cmd = r.cmd /\ [r EXCEPT !.cur = TRUE].bufs = r.bufs
         /\ [r EXCEPT !.cur = TRUE].pos = r.pos /\ [r EXCEPT !.cur = TRUE].cur
<1>1. PICK m : m = [r EXCEPT !.cur = TRUE]
  OBVIOUS
<1>2. m = [cmd |-> r.cmd, dev |-> r.dev, startsect |-> r.startsect, nsect |-> r.nsect,
           bufs |-> r.bufs, pos |-> r.pos, cur |-> TRUE]
  BY ONLY <1>1, r \in Req DEF Req
<1>3. /\ m.cmd = r.cmd /\ m.dev = r.dev /\ m.startsect = r.startsect /\ m.nsect = r.nsect
      /\ m.bufs = r.bufs /\ m.pos = r.pos /\ m.cur = TRUE
  BY ONLY <1>2
<1>4. m \in Req
  BY ONLY <1>2, ReqIs, r \in Req DEF Req
<1>5. GoodReq(m)
  BY ONLY <1>3, GoodReq(r) DEF GoodReq
<1> QED BY ONLY <1>1, <1>3, <1>4, <1>5

\* What is left when the current request has ended: the others, the next of
\* them begun.
EndedTo(q, v) ==
  /\ v \in Seq(Req) /\ Queue(v)
  /\ \A k \in 1 .. Len(v) : \E j \in 1 .. Len(q) :
       j # Cur(q) /\ v[k].cmd = q[j].cmd /\ v[k].bufs = q[j].bufs /\ v[k].pos = 0
  /\ \A j \in 1 .. Len(q) : j # Cur(q) =>
       \E k \in 1 .. Len(v) : v[k].cmd = q[j].cmd /\ v[k].bufs = q[j].bufs
  /\ Len(q) > 1 => HasCur(v)
  /\ ~(Len(q) > 1) => v = << >>

LEMMA Ended ==
  ASSUME NEW q \in Seq(Req), Queue(q), HasCur(q)
  PROVE  EndedTo(q, NextCur(q))
<1>1. PICK n \in Nat, c \in Nat, w \in Seq(Req) :
        n = Len(q) /\ c = Cur(q) /\ c \in 1 .. n /\ w = RemoveAt(q, c)
  <2>1. Cur(q) \in 1 .. Len(q) /\ Len(q) \in Nat
    BY CurIs
  <2>2. RemoveAt(q, Cur(q)) \in Seq(Req)
    BY ONLY <2>1, q \in Seq(Req), RemoveIs
  <2> QED BY ONLY <2>1, <2>2
<1>2. Removed(q, w, c)
  BY ONLY <1>1, q \in Seq(Req), RemoveIs
<1>3. Len(w) = n - 1 /\ \A k \in 1 .. n - 1 : w[k] = IF k < c THEN q[k] ELSE q[k + 1]
  BY ONLY <1>1, <1>2 DEF Removed
<1>4. \A j \in 1 .. n : q[j].cur => j = c
  BY <1>1, CurIs
<1>5. CASE n = 1
  <2>1. w = << >>
    BY <1>3, <1>5
  <2>2. NextCur(q) = << >>
    BY ONLY <1>1, <2>1 DEF NextCur
  <2>3. << >> \in Seq(Req) /\ Len(<< >>) = 0 /\ ~(n > 1) /\ \A j \in 1 .. n : j = c
    BY ONLY <1>1, <1>5
  <2>4. Queue(<< >>)
    BY DEF Queue
  <2> QED BY <1>1, <2>2, <2>3, <2>4 DEF EndedTo
<1>6. CASE n > 1
  <2>1. PICK h \in 1 .. n - 1 : h = IF c > Len(w) THEN 1 ELSE c
    BY ONLY <1>1, <1>3, <1>6
  <2>2. PICK v : v = [w EXCEPT ![h].cur = TRUE]
    OBVIOUS
  <2>3. NextCur(q) = v
    <3>1. w # << >>
      BY ONLY <1>1, <1>3, <1>6
    <3> QED BY ONLY <1>1, <2>1, <2>2, <3>1 DEF NextCur
  <2>4. PICK f : f = [k \in 1 .. n - 1 |-> IF k < c THEN k ELSE k + 1]
    OBVIOUS
  <2>5. \A k \in 1 .. n - 1 : f[k] \in 1 .. n /\ f[k] # c /\ w[k] = q[f[k]]
    <3> SUFFICES ASSUME NEW k \in 1 .. n - 1 PROVE f[k] \in 1 .. n /\ f[k] # c /\ w[k] = q[f[k]]
      OBVIOUS
    <3>1. CASE k < c
      <4>1. f[k] = k /\ k \in 1 .. n /\ k # c
        BY ONLY <1>1, <2>4, <3>1, k \in 1 .. n - 1
      <4> QED BY ONLY <1>3, <3>1, <4>1, k \in 1 .. n - 1
    <3>2. CASE ~(k < c)
      <4>1. f[k] = k + 1 /\ k + 1 \in 1 .. n /\ k + 1 # c
        BY ONLY <1>1, <2>4, <3>2, k \in 1 .. n - 1
      <4> QED BY ONLY <1>3, <3>2, <4>1, k \in 1 .. n - 1
    <3> QED BY <3>1, <3>2
  <2>6. \A k, l \in 1 .. n - 1 : f[k] = f[l] => k = l
    BY ONLY <1>1, <2>4
  <2>7. \A j \in 1 .. n : j # c => \E k \in 1 .. n - 1 : f[k] = j
    <3> SUFFICES ASSUME NEW j \in 1 .. n, j # c PROVE \E k \in 1 .. n - 1 : f[k] = j
      OBVIOUS
    <3>1. CASE j < c
      <4>1. j \in 1 .. n - 1 /\ f[j] = j
        BY ONLY <1>1, <2>4, <3>1, j \in 1 .. n
      <4> QED BY ONLY <4>1
    <3>2. CASE ~(j < c)
      <4>1. j - 1 \in 1 .. n - 1 /\ f[j - 1] = j
        BY ONLY <1>1, <2>4, <3>2, j \in 1 .. n, j # c
      <4> QED BY ONLY <4>1
    <3> QED BY <3>1, <3>2
  <2>8. w[h] \in Req /\ GoodReq(w[h]) /\ ~w[h].cur
    <3>1. h \in 1 .. Len(w) /\ f[h] \in 1 .. Len(q) /\ f[h] # c /\ w[h] = q[f[h]]
      BY ONLY <1>1, <1>3, <2>5, h \in 1 .. n - 1
    <3>2. q[f[h]] \in Req /\ GoodReq(q[f[h]])
      BY ONLY <3>1, q \in Seq(Req), Queue(q) DEF Queue
    <3> QED BY ONLY <1>1, <1>4, <3>1, <3>2
  <2>9. PICK m \in Req :
          /\ m = [w[h] EXCEPT !.cur = TRUE] /\ GoodReq(m)
          /\ m.cmd = w[h].cmd /\ m.bufs = w[h].bufs /\ m.pos = w[h].pos /\ m.cur
    BY ONLY <2>8, SetCur
  <2>10. /\ v \in Seq(Req) /\ Len(v) = n - 1 /\ v[h] = m
         /\ \A k \in 1 .. n - 1 : k # h => v[k] = w[k]
    <3>1. v = [w EXCEPT ![h] = m]
      BY ONLY <2>2, <2>9
    <3> QED BY ONLY <1>1, <1>3, <2>1, <3>1, m \in Req
  <2>11. \A k \in 1 .. n - 1 :
           /\ v[k].cmd = q[f[k]].cmd /\ v[k].bufs = q[f[k]].bufs /\ v[k].pos = 0
           /\ k # h => ~v[k].cur
    <3> SUFFICES ASSUME NEW k \in 1 .. n - 1
                 PROVE  /\ v[k].cmd = q[f[k]].cmd /\ v[k].bufs = q[f[k]].bufs /\ v[k].pos = 0
                        /\ k # h => ~v[k].cur
      OBVIOUS
    <3>1. w[k] = q[f[k]] /\ f[k] \in 1 .. Len(q) /\ ~q[f[k]].cur
      BY ONLY <1>1, <1>4, <2>5, k \in 1 .. n - 1
    <3>2. q[f[k]].pos = 0
      BY ONLY <3>1, Queue(q) DEF Queue, GoodReq
    <3>3. /\ v[k].cmd = w[k].cmd /\ v[k].bufs = w[k].bufs /\ v[k].pos = w[k].pos
          /\ k # h => v[k] = w[k]
      BY ONLY <2>9, <2>10, k \in 1 .. n - 1
    <3> QED BY ONLY <3>1, <3>2, <3>3
  <2>12. SameBut(q, v, f, h)
    <3>1. h \in 1 .. Len(v) /\ GoodReq(v[h])
      BY ONLY <2>9, <2>10, h \in 1 .. n - 1
    <3>2. \A k \in 1 .. Len(v) : k # h => f[k] \in 1 .. Len(q) /\ v[k] = q[f[k]]
      BY ONLY <1>1, <2>5, <2>10
    <3>3. \A k, l \in 1 .. Len(v) : k # h /\ l # h /\ f[k] = f[l] => k = l
      BY ONLY <2>6, <2>10
    <3>4. \A k \in 1 .. Len(v) : k # h => Elems(v[h].bufs) \cap Elems(v[k].bufs) = {}
      <4> SUFFICES ASSUME NEW k \in 1 .. n - 1, k # h PROVE Elems(v[h].bufs) \cap Elems(v[k].bufs) = {}
        BY <2>10
      <4>1. f[k] \in 1 .. Len(q) /\ f[h] \in 1 .. Len(q) /\ f[k] # f[h]
        BY ONLY <1>1, <2>5, <2>6, k \in 1 .. n - 1, k # h, h \in 1 .. n - 1
      <4>2. v[k].bufs = q[f[k]].bufs /\ v[h].bufs = q[f[h]].bufs
        BY ONLY <2>11, k \in 1 .. n - 1, h \in 1 .. n - 1
      <4> QED BY ONLY <4>1, <4>2, Queue(q) DEF Queue
    <3>5. \A k \in 1 .. Len(v) : k # h => ~(v[h].cur /\ v[k].cur)
      BY ONLY <2>10, <2>11
    <3> QED BY ONLY <3>1, <3>2, <3>3, <3>4, <3>5 DEF SameBut
  <2>13. Queue(v)
    BY ONLY Queue(q), <2>12, QueueOf
  <2>14. HasCur(v)
    BY ONLY <2>9, <2>10, h \in 1 .. n - 1 DEF HasCur
  <2>15. \A k \in 1 .. Len(v) : \E j \in 1 .. Len(q) :
           j # Cur(q) /\ v[k].cmd = q[j].cmd /\ v[k].bufs = q[j].bufs /\ v[k].pos = 0
    <3> SUFFICES ASSUME NEW k \in 1 .. n - 1
                 PROVE  \E j \in 1 .. n : j # c /\ v[k].cmd = q[j].cmd /\ v[k].bufs = q[j].bufs /\ v[k].pos = 0
      BY <1>1, <2>10
    <3>1. f[k] \in 1 .. n /\ f[k] # c
      BY <2>5
    <3>2. v[k].cmd = q[f[k]].cmd /\ v[k].bufs = q[f[k]].bufs /\ v[k].pos = 0
      BY <2>11
    <3> QED BY ONLY <3>1, <3>2
  <2>16. \A j \in 1 .. Len(q) : j # Cur(q) =>
           \E k \in 1 .. Len(v) : v[k].cmd = q[j].cmd /\ v[k].bufs = q[j].bufs
    <3> SUFFICES ASSUME NEW j \in 1 .. n, j # c
                 PROVE  \E k \in 1 .. n - 1 : v[k].cmd = q[j].cmd /\ v[k].bufs = q[j].bufs
      BY <1>1, <2>10
    <3>1. PICK k \in 1 .. n - 1 : f[k] = j
      BY ONLY <2>7, j \in 1 .. n, j # c
    <3> QED BY ONLY <2>11, <3>1
  <2> QED BY ONLY <1>1, <1>6, <2>3, <2>10, <2>13, <2>14, <2>15, <2>16 DEF EndedTo
<1> QED BY <1>1, <1>5, <1>6

\* A queue in which only the progress of the request at i changes.
TouchedTo(q, v, i) ==
  /\ v \in Seq(Req) /\ Queue(v) /\ Len(v) = Len(q) /\ i \in 1 .. Len(q)
  /\ \A k \in 1 .. Len(q) : v[k].cmd = q[k].cmd /\ v[k].bufs = q[k].bufs
  /\ \A k \in 1 .. Len(q) : k # i => v[k] = q[k]
  /\ HasCur(v) /\ Cur(v) = i

LEMMA Touched ==
  ASSUME NEW q \in Seq(Req), Queue(q), NEW i \in 1 .. Len(q), NEW m \in Req, GoodReq(m),
         m.cmd = q[i].cmd, m.bufs = q[i].bufs, m.cur,
         \A k \in 1 .. Len(q) : k # i => ~q[k].cur
  PROVE  TouchedTo(q, [q EXCEPT ![i] = m], i) /\ [q EXCEPT ![i] = m][i] = m
<1>1. PICK v : v = [q EXCEPT ![i] = m]
  OBVIOUS
<1>2. /\ v \in Seq(Req) /\ Len(v) = Len(q) /\ v[i] = m
      /\ \A k \in 1 .. Len(q) : k # i => v[k] = q[k]
  BY <1>1
<1>3. PICK f : f = [k \in 1 .. Len(q) |-> k]
  OBVIOUS
<1>4. SameBut(q, v, f, i)
  <2>1. i \in 1 .. Len(v) /\ GoodReq(v[i])
    BY <1>2
  <2>2. \A k \in 1 .. Len(v) : k # i => f[k] \in 1 .. Len(q) /\ v[k] = q[f[k]]
    BY <1>2, <1>3
  <2>3. \A k, l \in 1 .. Len(v) : k # i /\ l # i /\ f[k] = f[l] => k = l
    BY <1>2, <1>3
  <2>4. \A k \in 1 .. Len(v) : k # i => Elems(v[i].bufs) \cap Elems(v[k].bufs) = {}
    BY <1>2 DEF Queue
  <2>5. \A k \in 1 .. Len(v) : k # i => ~(v[i].cur /\ v[k].cur)
    BY <1>2
  <2> QED BY ONLY <2>1, <2>2, <2>3, <2>4, <2>5 DEF SameBut
<1>5. Queue(v)
  BY ONLY Queue(q), <1>4, QueueOf
<1>6. HasCur(v)
  BY <1>2 DEF HasCur
<1>7. Cur(v) = i
  BY <1>2, <1>5, <1>6, CurIs
<1>8. \A k \in 1 .. Len(q) : v[k].cmd = q[k].cmd /\ v[k].bufs = q[k].bufs
  BY <1>2
<1> QED BY <1>1, <1>2, <1>5, <1>6, <1>7, <1>8 DEF TouchedTo

\* The driver goes on to the next sector of the current request.
LEMMA Advance ==
  ASSUME NEW q \in Seq(Req), Queue(q), HasCur(q), q[Cur(q)].pos < q[Cur(q)].nsect
  PROVE  /\ TouchedTo(q, [q EXCEPT ![Cur(q)].pos = @ + 1], Cur(q))
         /\ LET m == [q EXCEPT ![Cur(q)].pos = @ + 1][Cur(q)]
                r == q[Cur(q)]
            IN  m.pos = r.pos + 1 /\ m.nsect = r.nsect /\ m.startsect = r.startsect
<1>1. PICK c \in 1 .. Len(q), r \in Req : c = Cur(q) /\ r = q[c]
  BY CurIs
<1>2. GoodReq(r) /\ r.cur /\ r.pos < r.nsect /\ \A k \in 1 .. Len(q) : k # c => ~q[k].cur
  BY <1>1, CurIs DEF Queue
<1>3. PICK m : m = [r EXCEPT !.pos = r.pos + 1]
  OBVIOUS
<1>4. m = [cmd |-> r.cmd, dev |-> r.dev, startsect |-> r.startsect, nsect |-> r.nsect,
           bufs |-> r.bufs, pos |-> r.pos + 1, cur |-> r.cur]
  BY ONLY <1>3, r \in Req DEF Req
<1>5. /\ m.cmd = r.cmd /\ m.dev = r.dev /\ m.startsect = r.startsect /\ m.nsect = r.nsect
      /\ m.bufs = r.bufs /\ m.pos = r.pos + 1 /\ m.cur = r.cur
  BY ONLY <1>4
<1>6. r.pos + 1 \in 0 .. MAXSECT /\ r.pos + 1 <= r.nsect
  BY <1>2, ReqIs, BufIs
<1>7. m \in Req
  BY ONLY <1>4, <1>6, ReqIs, r \in Req DEF Req
<1>8. GoodReq(m)
  BY ONLY <1>2, <1>5, <1>6 DEF GoodReq
<1>9. m.cmd = q[c].cmd /\ m.bufs = q[c].bufs /\ m.cur
  BY <1>1, <1>2, <1>5
<1>10. TouchedTo(q, [q EXCEPT ![c] = m], c) /\ [q EXCEPT ![c] = m][c] = m
  BY ONLY q \in Seq(Req), Queue(q), c \in 1 .. Len(q), <1>2, <1>7, <1>8, <1>9, Touched
<1>11. [q EXCEPT ![Cur(q)].pos = @ + 1] = [q EXCEPT ![c] = m]
  BY <1>1, <1>3
<1> QED BY ONLY <1>1, <1>5, <1>10, <1>11

\* doreq makes the head of the queue the current request.
LEMMA Started ==
  ASSUME NEW q \in Seq(Req), Queue(q), ~HasCur(q), q # << >>
  PROVE  /\ TouchedTo(q, [q EXCEPT ![1].cur = TRUE], 1)
         /\ [q EXCEPT ![1].cur = TRUE][1].pos = 0
<1>1. 1 \in 1 .. Len(q)
  OBVIOUS
<1>2. \A k \in 1 .. Len(q) : ~q[k].cur
  BY DEF HasCur
<1>3. PICK r \in Req : r = q[1] /\ GoodReq(r) /\ r.pos = 0
  BY <1>1, <1>2 DEF Queue, GoodReq
<1>4. PICK m \in Req : /\ m = [r EXCEPT !.cur = TRUE] /\ GoodReq(m) /\ m.cmd = r.cmd
                       /\ m.bufs = r.bufs /\ m.pos = r.pos /\ m.cur
  BY ONLY <1>3, SetCur
<1>5. TouchedTo(q, [q EXCEPT ![1] = m], 1) /\ [q EXCEPT ![1] = m][1] = m
  <2>1. /\ m \in Req /\ GoodReq(m) /\ m.cmd = q[1].cmd /\ m.bufs = q[1].bufs /\ m.cur
        /\ \A k \in 1 .. Len(q) : k # 1 => ~q[k].cur
    BY <1>2, <1>3, <1>4
  <2>2. PICK i : i = 1
    OBVIOUS
  <2>3. TouchedTo(q, [q EXCEPT ![i] = m], i) /\ [q EXCEPT ![i] = m][i] = m
    BY ONLY q \in Seq(Req), Queue(q), <1>1, <2>1, <2>2, Touched
  <2> QED BY ONLY <2>2, <2>3
<1>6. [q EXCEPT ![1].cur = TRUE] = [q EXCEPT ![1] = m]
  BY <1>3, <1>4
<1> QED BY ONLY <1>3, <1>4, <1>5, <1>6

----------------------------------------------------------------------------
(* The buffers of a queue. *)

LEMMA AddedBufs ==
  ASSUME NEW q, NEW v, NEW cmd, NEW b, AddedTo(q, v, cmd, b), NEW x
  PROVE  InQ(v, x) <=> (InQ(q, x) \/ x = b)
<1>1. ASSUME InQ(v, x) PROVE InQ(q, x) \/ x = b
  <2>1. PICK k \in 1 .. Len(v) : x \in Elems(v[k].bufs)
    BY <1>1 DEF InQ
  <2>2. Old(q, v[k]) \/ Grown(q, v[k], cmd, b)
    BY DEF AddedTo
  <2> QED BY <2>1, <2>2 DEF Old, Grown, InQ
<1>2. ASSUME InQ(q, x) PROVE InQ(v, x)
  <2>1. PICK j \in 1 .. Len(q) : x \in Elems(q[j].bufs)
    BY <1>2 DEF InQ
  <2>2. PICK k \in 1 .. Len(v) : v[k] = q[j] \/ Elems(q[j].bufs) \subseteq Elems(v[k].bufs)
    BY DEF AddedTo
  <2> QED BY <2>1, <2>2 DEF InQ
<1>3. InQ(v, b)
  BY DEF AddedTo, InQ
<1> QED BY <1>1, <1>2, <1>3

LEMMA EndedBufs ==
  ASSUME NEW q, NEW v, Queue(q), HasCur(q), EndedTo(q, v), NEW x
  PROVE  InQ(v, x) <=> (InQ(q, x) /\ x \notin Elems(q[Cur(q)].bufs))
<1>0. Cur(q) \in 1 .. Len(q)
  BY CurIs
<1>1. ASSUME InQ(v, x) PROVE InQ(q, x) /\ x \notin Elems(q[Cur(q)].bufs)
  <2>1. PICK k \in 1 .. Len(v) : x \in Elems(v[k].bufs)
    BY <1>1 DEF InQ
  <2>2. PICK j \in 1 .. Len(q) : j # Cur(q) /\ v[k].bufs = q[j].bufs
    BY DEF EndedTo
  <2> QED BY <1>0, <2>1, <2>2 DEF InQ, Queue
<1>2. ASSUME InQ(q, x), x \notin Elems(q[Cur(q)].bufs) PROVE InQ(v, x)
  <2>1. PICK j \in 1 .. Len(q) : x \in Elems(q[j].bufs) /\ j # Cur(q)
    BY <1>2 DEF InQ
  <2>2. PICK k \in 1 .. Len(v) : v[k].bufs = q[j].bufs
    BY <2>1 DEF EndedTo
  <2> QED BY <2>1, <2>2 DEF InQ
<1> QED BY <1>1, <1>2

LEMMA TouchedBufs ==
  ASSUME NEW q, NEW v, NEW i, TouchedTo(q, v, i), NEW x
  PROVE  InQ(v, x) <=> InQ(q, x)
BY DEF TouchedTo, InQ

\* An added buffer leaves the current request alone.
LEMMA AddedCur ==
  ASSUME NEW q, NEW v, NEW cmd, NEW b, Queue(q), AddedTo(q, v, cmd, b)
  PROVE  /\ HasCur(q) => HasCur(v) /\ v[Cur(v)] = q[Cur(q)]
         /\ HasCur(v) => HasCur(q)
         /\ v # << >>
<1>0. Queue(v) /\ Len(v) \in Nat /\ v # << >>
  <2>1. PICK k \in 1 .. Len(v) : b \in Elems(v[k].bufs)
    BY DEF AddedTo
  <2>2. v \in Seq(Req) /\ Queue(v)
    BY DEF AddedTo
  <2> QED BY <2>1, <2>2
<1>1. ASSUME HasCur(q) PROVE HasCur(v) /\ v[Cur(v)] = q[Cur(q)]
  <2>1. Cur(q) \in 1 .. Len(q) /\ q[Cur(q)].cur
    BY <1>1, CurIs
  <2>2. PICK k \in 1 .. Len(v) : v[k] = q[Cur(q)]
    BY ONLY <2>1, AddedTo(q, v, cmd, b) DEF AddedTo
  <2>3. HasCur(v)
    BY <2>1, <2>2 DEF HasCur
  <2>4. k = Cur(v)
    BY <1>0, <2>1, <2>2, <2>3, CurIs
  <2> QED BY <2>2, <2>3, <2>4
<1>2. ASSUME HasCur(v) PROVE HasCur(q)
  <2>1. PICK k \in 1 .. Len(v) : v[k].cur
    BY <1>2 DEF HasCur
  <2>2. Old(q, v[k])
    BY ONLY <2>1, AddedTo(q, v, cmd, b) DEF AddedTo, Grown
  <2> QED BY <2>1, <2>2 DEF Old, HasCur
<1> QED BY <1>0, <1>1, <1>2

\* The place in the buffers the driver is at.
LEMMA AtBufIs ==
  ASSUME NEW r \in Req, GoodReq(r), r.pos < r.nsect
  PROVE  /\ AtBuf(r) \in Buf /\ AtBuf(r) \in Elems(r.bufs)
         /\ AtSector(r) \in Buf \X (0 .. SECTPERBLK - 1)
         /\ \A j \in 1 .. Len(r.bufs), k \in 0 .. SECTPERBLK - 1 :
              (j - 1) * SECTPERBLK + k = r.pos => <<r.bufs[j], k>> = AtSector(r) /\ r.bufs[j] = AtBuf(r)
<1>1. PICK n \in Nat, S \in Nat, p \in Nat : n = Len(r.bufs) /\ S = SECTPERBLK /\ S > 0 /\ p = r.pos
  <2>1. Len(r.bufs) \in Nat /\ SECTPERBLK \in Nat /\ SECTPERBLK > 0 /\ r.pos \in Nat
    BY ReqIs, BufIs
  <2> QED BY ONLY <2>1
<1>2. p < S * n
  BY <1>1 DEF GoodReq
<1>3. PICK d \in Nat, m \in 0 .. S - 1 : d = p \div S /\ m = p % S /\ p = d * S + m /\ d < n
  BY ONLY <1>1, <1>2, Euclid, BlockIs
<1>4. AtBuf(r) = r.bufs[d + 1] /\ AtSector(r) = <<r.bufs[d + 1], m>>
  BY ONLY <1>1, <1>3 DEF AtBuf, AtSector
<1>5. d + 1 \in 1 .. n
  <2>1. d \in Nat /\ n \in Nat /\ d < n
    BY <1>3
  <2> QED BY ONLY <2>1
<1>6. r.bufs[d + 1] \in Buf /\ r.bufs[d + 1] \in Elems(r.bufs)
  BY <1>1, <1>5, ReqIs DEF Elems
<1>7. ASSUME NEW j \in 1 .. n, NEW k \in 0 .. S - 1, (j - 1) * S + k = p
      PROVE  <<r.bufs[j], k>> = AtSector(r) /\ r.bufs[j] = AtBuf(r)
  <2>1. j - 1 \in Nat
    BY ONLY <1>1, j \in 1 .. n
  <2>2. j - 1 = d /\ k = m
    <3>1. PICK jj \in Nat : jj = j - 1
      BY ONLY <2>1
    <3>2. jj * S + k = d * S + m
      BY ONLY <1>3, <1>7, <3>1
    <3>3. S \in Nat /\ S > 0 /\ k \in 0 .. S - 1 /\ m \in 0 .. S - 1 /\ d \in Nat
      BY <1>1
    <3>4. jj = d /\ k = m
      BY ONLY <3>2, <3>3, jj \in Nat, SectorIs
    <3> QED BY ONLY <3>1, <3>4
  <2>3. j = d + 1
    BY ONLY <1>1, <2>2, j \in 1 .. n
  <2> QED BY ONLY <1>4, <2>2, <2>3
<1>8. AtSector(r) \in Buf \X (0 .. SECTPERBLK - 1)
  BY ONLY <1>1, <1>4, <1>6, m \in 0 .. S - 1
<1> QED BY ONLY <1>1, <1>4, <1>6, <1>7, <1>8

----------------------------------------------------------------------------
(* The steps. *)

BStates == {"BINVAL", "BCLEAN", "BDIRTY", "BERROR"}

\* A request ends: its buffers leave the queue unlocked, and the others are
\* what they were.
LEMMA EndStep ==
  ASSUME TypeOK, Queue(reqq), LocksMatch, StatesMatch, HasCur(reqq),
         NEW st \in [Buf -> BStates], EndCurReq(st),
         \A b \in Buf : b \notin Elems(reqq[Cur(reqq)].bufs) => st[b] = bstate[b]
  PROVE  /\ EndedTo(reqq, reqq') /\ reqq' \in Seq(Req) /\ Queue(reqq)'
         /\ bstate' \in [Buf -> BStates] /\ locked' \in [Buf -> BOOLEAN] /\ got' \subseteq got
         /\ LocksMatch' /\ StatesMatch' /\ PassedIsRead'
         /\ Len(reqq) > 1 => HasCur(reqq') /\ reqq'[Cur(reqq')].pos = 0
         /\ ~(Len(reqq) > 1) => reqq' = << >>
<1>1. PICK r \in Req : r = reqq[Cur(reqq)] /\ r.bufs \in Seq(Buf)
  <2>1. Cur(reqq) \in 1 .. Len(reqq) /\ reqq \in Seq(Req)
    BY CurIs DEF TypeOK
  <2>2. reqq[Cur(reqq)] \in Req
    BY ONLY <2>1
  <2> QED BY <2>2, ReqIs
<1>2. /\ reqq' = NextCur(reqq) /\ bstate' = EndedState(st, r)
      /\ locked' = [b \in Buf |-> locked[b] /\ b \notin Elems(r.bufs)]
      /\ got' = got \ UNION {Sectors(b) : b \in Elems(r.bufs)}
  BY <1>1 DEF EndCurReq
<1>3. EndedTo(reqq, reqq')
  BY <1>2, Ended DEF TypeOK
<1>4. reqq' \in Seq(Req) /\ Queue(reqq')
  BY <1>3 DEF EndedTo
<1>5. \A b \in Buf : bstate'[b] = IF b \notin Elems(r.bufs) THEN bstate[b]
                                  ELSE IF st[b] = "BERROR" THEN "BINVAL" ELSE "BCLEAN"
  BY <1>1, <1>2 DEF EndedState
<1>6. bstate' \in [Buf -> BStates]
  BY <1>2 DEF EndedState, BStates
<1>7. locked' \in [Buf -> BOOLEAN] /\ got' \subseteq got
  BY <1>2
<1>8. \A x : InQ(reqq', x) <=> (InQ(reqq, x) /\ x \notin Elems(r.bufs))
  BY <1>1, <1>3, EndedBufs
<1>9. LocksMatch'
  BY <1>2, <1>8 DEF LocksMatch
<1>10. StatesMatch'
  <2>1. ASSUME NEW i \in 1 .. Len(reqq'), NEW b \in Elems(reqq'[i].bufs)
        PROVE  bstate'[b] \in {IF reqq'[i].cmd = "BREAD" THEN "BINVAL" ELSE "BDIRTY", "BERROR"}
    <3>1. PICK j \in 1 .. Len(reqq) : reqq'[i].cmd = reqq[j].cmd /\ reqq'[i].bufs = reqq[j].bufs
      BY ONLY <1>3, i \in 1 .. Len(reqq') DEF EndedTo
    <3>2. b \notin Elems(r.bufs)
      BY <1>8 DEF InQ
    <3>3. reqq[j].bufs \in Seq(Buf)
      BY ReqIs DEF TypeOK
    <3>4. b \in Buf
      BY ONLY <3>1, <3>3, b \in Elems(reqq'[i].bufs) DEF Elems
    <3>5. bstate'[b] = bstate[b]
      BY ONLY <1>5, <3>2, <3>4
    <3>6. bstate[b] \in {IF reqq[j].cmd = "BREAD" THEN "BINVAL" ELSE "BDIRTY", "BERROR"}
      BY ONLY <3>1, StatesMatch, b \in Elems(reqq'[i].bufs) DEF StatesMatch
    <3> QED BY ONLY <3>1, <3>5, <3>6
  <2>2. ASSUME NEW b \in Buf, bstate'[b] = "BERROR" PROVE InQ(reqq', b)
    <3>1. b \notin Elems(r.bufs) /\ bstate[b] = "BERROR"
      BY <1>5, <2>2
    <3> QED BY <1>8, <3>1 DEF StatesMatch
  <2> QED BY <2>1, <2>2 DEF StatesMatch
<1>11. \A k \in 1 .. Len(reqq') : reqq'[k].pos = 0
  BY <1>3 DEF EndedTo
<1>12. PassedIsRead'
  <2> SUFFICES ASSUME NEW j \in Nat, NEW k \in 0 .. SECTPERBLK - 1, j > 0
               PROVE  ~((j - 1) * SECTPERBLK + k < 0)
    <3>1. \A i \in 1 .. Len(reqq') : Len(reqq'[i].bufs) \in Nat
      BY <1>4, ReqIs
    <3>2. \A i \in 1 .. Len(reqq') : \A j \in 1 .. Len(reqq'[i].bufs) : j \in Nat /\ j > 0
      BY <3>1
    <3> QED BY <1>11, <3>2 DEF PassedIsRead
  <2>1. (j - 1) * SECTPERBLK \in Nat
    BY BufIs, Times
  <2> QED BY <2>1, BufIs
<1>13. /\ Len(reqq) > 1 => HasCur(reqq') /\ reqq'[Cur(reqq')].pos = 0
       /\ ~(Len(reqq) > 1) => reqq' = << >>
  BY <1>3, <1>4, <1>11, CurIs DEF EndedTo
<1> QED BY <1>3, <1>4, <1>6, <1>7, <1>9, <1>10, <1>12, <1>13

\* The current request of a type-correct queue.
LEMMA CurReq ==
  ASSUME TypeOK, Queue(reqq), HasCur(reqq)
  PROVE  /\ Cur(reqq) \in 1 .. Len(reqq) /\ reqq[Cur(reqq)] \in Req /\ GoodReq(reqq[Cur(reqq)])
         /\ Elems(reqq[Cur(reqq)].bufs) \subseteq Buf
<1>1. Cur(reqq) \in 1 .. Len(reqq) /\ reqq \in Seq(Req)
  BY CurIs DEF TypeOK
<1>2. reqq[Cur(reqq)] \in Req /\ GoodReq(reqq[Cur(reqq)])
  BY <1>1 DEF Queue
<1>3. reqq[Cur(reqq)].bufs \in Seq(Buf)
  BY <1>2, ReqIs
<1>4. Elems(reqq[Cur(reqq)].bufs) \subseteq Buf
  BY ONLY <1>3 DEF Elems
<1> QED BY <1>1, <1>2, <1>4

LEMMA DoCurReqStep ==
  ASSUME IInv, DoCurReq
  PROVE  IInv'
<1> USE DEF IInv
<1>1. PICK r \in Req : /\ r = reqq[Cur(reqq)] /\ GoodReq(r) /\ Elems(r.bufs) \subseteq Buf
                       /\ HasCur(reqq) /\ r.pos = 0 /\ drive.left = 0 /\ starting
  BY CurReq DEF DoCurReq, StartsAfresh
<1>2. UNCHANGED <<pc, op, arr, count>>
  BY DEF DoCurReq, task
<1>3. CASE InPartition(r)
  <2>1. /\ curisr' = IF fell THEN "nullisr" ELSE r.cmd
        /\ drive' = [sect |-> r.startsect, left |-> r.nsect]
        /\ starting' = FALSE /\ fell' = FALSE
        /\ UNCHANGED <<reqq, bstate, locked, got, erred>>
    BY <1>1, <1>3 DEF DoCurReq
  <2>2. TypeOK'
    BY <1>1, <1>2, <2>1, ReqIs DEF TypeOK
  <2>3. Queue(reqq)' /\ LocksMatch' /\ StatesMatch' /\ PassedIsRead' /\ QueueIsKicked' /\ CountsFit'
    BY <1>2, <2>1 DEF Queue, LocksMatch, StatesMatch, PassedIsRead, QueueIsKicked, CountsFit
  <2>4. StartsAfresh'
    BY <2>1 DEF StartsAfresh
  <2>5. DriveInStep'
    BY <1>1, <2>1, ReqIs DEF DriveInStep
  <2> QED BY <2>2, <2>3, <2>4, <2>5
<1>4. CASE ~InPartition(r)
  <2> DEFINE st == [b \in Buf |-> IF b \in Elems(r.bufs) THEN "BERROR" ELSE bstate[b]]
  <2>1. /\ EndCurReq(st) /\ starting' = (Len(reqq) > 1) /\ fell' = starting'
        /\ curisr' = "nullisr" /\ erred' = TRUE /\ UNCHANGED drive
    BY <1>1, <1>4 DEF DoCurReq
  <2>2. st \in [Buf -> BStates] /\ \A b \in Buf : b \notin Elems(r.bufs) => st[b] = bstate[b]
    BY DEF TypeOK, BStates
  <2> HIDE DEF st
  <2>3. /\ EndedTo(reqq, reqq') /\ reqq' \in Seq(Req) /\ Queue(reqq)'
        /\ bstate' \in [Buf -> BStates] /\ locked' \in [Buf -> BOOLEAN] /\ got' \subseteq got
        /\ LocksMatch' /\ StatesMatch' /\ PassedIsRead'
        /\ Len(reqq) > 1 => HasCur(reqq') /\ reqq'[Cur(reqq')].pos = 0
        /\ ~(Len(reqq) > 1) => reqq' = << >>
    BY <1>1, <2>1, <2>2, EndStep
  <2>4. TypeOK'
    BY <1>2, <2>1, <2>3 DEF TypeOK, BStates
  <2>5. StartsAfresh'
    BY <1>1, <2>1, <2>3 DEF StartsAfresh
  <2>6. DriveInStep'
    BY <1>1, <2>1 DEF DriveInStep
  <2>7. QueueIsKicked' /\ CountsFit'
    BY <1>2, <2>3 DEF QueueIsKicked, CountsFit
  <2> QED BY <2>3, <2>4, <2>5, <2>6, <2>7
<1> QED BY <1>3, <1>4

\* The driver moves on in the current request; what it passes was read or has
\* an error.
LEMMA PassStep ==
  ASSUME IInv, HasCur(reqq), reqq[Cur(reqq)].pos < reqq[Cur(reqq)].nsect,
         reqq' = [reqq EXCEPT ![Cur(reqq)].pos = @ + 1],
         got \subseteq got', \A b \in Buf : bstate[b] = "BERROR" => bstate'[b] = "BERROR",
         \/ AtSector(reqq[Cur(reqq)]) \in got'
         \/ bstate'[AtBuf(reqq[Cur(reqq)])] = "BERROR"
  PROVE  /\ reqq' \in Seq(Req) /\ Queue(reqq)' /\ TouchedTo(reqq, reqq', Cur(reqq))
         /\ PassedIsRead' /\ HasCur(reqq')
         /\ reqq'[Cur(reqq')].pos = reqq[Cur(reqq)].pos + 1
         /\ reqq'[Cur(reqq')].nsect = reqq[Cur(reqq)].nsect
         /\ reqq'[Cur(reqq')].startsect = reqq[Cur(reqq)].startsect
         /\ reqq'[Cur(reqq')].cmd = reqq[Cur(reqq)].cmd
<1> USE DEF IInv
<1>1. PICK c \in 1 .. Len(reqq), r \in Req :
        c = Cur(reqq) /\ r = reqq[c] /\ GoodReq(r) /\ r.pos < r.nsect
  BY CurReq
<1>2. /\ TouchedTo(reqq, reqq', c)
      /\ reqq'[c].pos = r.pos + 1 /\ reqq'[c].nsect = r.nsect /\ reqq'[c].startsect = r.startsect
  BY <1>1, Advance DEF TypeOK
<1>3. reqq' \in Seq(Req) /\ Queue(reqq') /\ HasCur(reqq') /\ Cur(reqq') = c
      /\ Len(reqq') = Len(reqq) /\ reqq'[c].cmd = r.cmd
  BY <1>1, <1>2 DEF TouchedTo
<1>4. PassedIsRead'
  <2> SUFFICES ASSUME NEW i \in 1 .. Len(reqq), reqq'[i].cmd = "BREAD",
                      NEW j \in 1 .. Len(reqq'[i].bufs), NEW k \in 0 .. SECTPERBLK - 1,
                      (j - 1) * SECTPERBLK + k < reqq'[i].pos
               PROVE  <<reqq'[i].bufs[j], k>> \in got' \/ bstate'[reqq'[i].bufs[j]] = "BERROR"
    BY <1>3 DEF PassedIsRead
  <2>1. reqq'[i].cmd = reqq[i].cmd /\ reqq'[i].bufs = reqq[i].bufs
    BY <1>2 DEF TouchedTo
  <2>2. reqq[i] \in Req /\ reqq[i].bufs \in Seq(Buf) /\ reqq[i].pos \in Nat
    BY ReqIs DEF TypeOK
  <2>3. reqq[i].bufs[j] \in Buf
    BY ONLY <2>1, <2>2, j \in 1 .. Len(reqq'[i].bufs)
  <2>4. CASE (j - 1) * SECTPERBLK + k < reqq[i].pos
    <3>1. <<reqq[i].bufs[j], k>> \in got \/ bstate[reqq[i].bufs[j]] = "BERROR"
      BY <2>1, <2>4 DEF PassedIsRead
    <3> QED BY <2>1, <2>3, <3>1
  <2>5. CASE ~((j - 1) * SECTPERBLK + k < reqq[i].pos)
    <3>1. i = c
      BY <1>2, <2>5 DEF TouchedTo
    <3>2. (j - 1) * SECTPERBLK + k \in Int
      <4>1. j \in Nat /\ k \in Nat /\ SECTPERBLK \in Nat /\ j > 0
        BY SMTT(40), <2>1, <2>2, BufIs
      <4> QED BY ONLY <4>1
    <3>3. (j - 1) * SECTPERBLK + k = r.pos
      BY <1>1, <1>2, <2>2, <2>5, <3>1, <3>2
    <3>4. j \in 1 .. Len(r.bufs)
      BY <1>1, <2>1, <3>1
    <3>5. <<r.bufs[j], k>> = AtSector(r) /\ r.bufs[j] = AtBuf(r)
      BY ONLY <1>1, <3>3, <3>4, k \in 0 .. SECTPERBLK - 1, AtBufIs
    <3> QED BY <1>1, <2>1, <3>1, <3>5
  <2> QED BY <2>4, <2>5
<1> QED BY <1>1, <1>2, <1>3, <1>4

LEMMA IsrStep ==
  ASSUME IInv, Isr
  PROVE  IInv'
<1> USE DEF IInv
<1>1. PICK r \in Req :
        /\ r = reqq[Cur(reqq)] /\ GoodReq(r) /\ Elems(r.bufs) \subseteq Buf /\ HasCur(reqq)
        /\ ~starting /\ drive.left > 0 /\ curisr # "nullisr"
        /\ drive.sect = r.startsect + r.pos /\ drive.left = r.nsect - r.pos /\ curisr = r.cmd
  BY CurReq DEF Isr, DriveInStep
<1>2. UNCHANGED <<fell, erred, pc, op, arr, count>>
  BY DEF Isr, task
<1>3. r.pos \in Nat /\ r.nsect \in Nat /\ r.startsect \in Nat /\ r.pos < r.nsect
  BY <1>1, ReqIs, BufIs
<1>4. CASE r.pos + 1 < r.nsect
  <2>1. /\ reqq' = [reqq EXCEPT ![Cur(reqq)].pos = @ + 1]
        /\ drive' = [sect |-> drive.sect + 1, left |-> drive.left - 1]
        /\ got' = got \cup {AtSector(r)}
        /\ UNCHANGED <<bstate, locked, curisr, starting>>
    BY <1>1, <1>4 DEF Isr
  <2>2. /\ reqq' \in Seq(Req) /\ Queue(reqq)' /\ TouchedTo(reqq, reqq', Cur(reqq))
        /\ PassedIsRead' /\ HasCur(reqq')
        /\ reqq'[Cur(reqq')].pos = r.pos + 1 /\ reqq'[Cur(reqq')].nsect = r.nsect
        /\ reqq'[Cur(reqq')].startsect = r.startsect /\ reqq'[Cur(reqq')].cmd = r.cmd
    BY <1>1, <1>3, <2>1, PassStep
  <2>3. AtSector(r) \in Buf \X (0 .. SECTPERBLK - 1)
    BY <1>1, <1>3, AtBufIs
  <2>4. drive' \in [sect : Nat, left : 0 .. MAXSECT]
    BY SMTT(40), <1>1, <1>3, <2>1, BufIs DEF TypeOK
  <2>5. TypeOK'
    BY <1>2, <2>1, <2>2, <2>3, <2>4 DEF TypeOK
  <2>6. LocksMatch'
    BY <2>1, <2>2, TouchedBufs DEF LocksMatch
  <2>7. StatesMatch'
    <3>1. \A b \in Buf : InQ(reqq, b) => InQ(reqq', b)
      BY <2>2, TouchedBufs
    <3>2. /\ Len(reqq') = Len(reqq) /\ bstate' = bstate
          /\ \A i \in 1 .. Len(reqq) : reqq'[i].cmd = reqq[i].cmd /\ reqq'[i].bufs = reqq[i].bufs
      BY <2>1, <2>2 DEF TouchedTo
    <3> QED BY ONLY StatesMatch, <3>1, <3>2 DEF StatesMatch
  <2>8. StartsAfresh' /\ QueueIsKicked' /\ CountsFit'
    BY <1>1, <1>2, <2>1, <2>2 DEF StartsAfresh, QueueIsKicked, CountsFit
  <2>9. DriveInStep'
    <3>1. drive'.sect = r.startsect + (r.pos + 1) /\ drive'.left = r.nsect - (r.pos + 1)
      BY <1>1, <1>3, <2>1
    <3> QED BY <1>1, <2>1, <2>2, <3>1 DEF DriveInStep
  <2> QED BY <2>2, <2>5, <2>6, <2>7, <2>8, <2>9
<1>5. CASE ~(r.pos + 1 < r.nsect)
  <2>1. /\ EndCurReq(bstate) /\ drive' = Idle /\ curisr' = "nullisr" /\ starting' = (Len(reqq) > 1)
    BY <1>1, <1>5 DEF Isr
  <2>2. bstate \in [Buf -> BStates]
    BY DEF TypeOK, BStates
  <2>3. /\ EndedTo(reqq, reqq') /\ reqq' \in Seq(Req) /\ Queue(reqq)'
        /\ bstate' \in [Buf -> BStates] /\ locked' \in [Buf -> BOOLEAN] /\ got' \subseteq got
        /\ LocksMatch' /\ StatesMatch' /\ PassedIsRead'
        /\ Len(reqq) > 1 => HasCur(reqq') /\ reqq'[Cur(reqq')].pos = 0
        /\ ~(Len(reqq) > 1) => reqq' = << >>
    BY <1>1, <2>1, <2>2, EndStep
  <2>4. drive' \in [sect : Nat, left : 0 .. MAXSECT] /\ drive'.left = 0
    BY <2>1, BufIs DEF Idle
  <2>5. TypeOK'
    BY <1>2, <2>1, <2>3, <2>4 DEF TypeOK, BStates
  <2>6. StartsAfresh'
    BY <2>1, <2>3, <2>4 DEF StartsAfresh
  <2>7. DriveInStep'
    BY <2>4 DEF DriveInStep
  <2>8. QueueIsKicked' /\ CountsFit'
    BY <1>2, <2>3 DEF QueueIsKicked, CountsFit
  <2> QED BY <2>3, <2>5, <2>6, <2>7, <2>8
<1> QED BY <1>4, <1>5

LEMMA IsrErrorStep ==
  ASSUME IInv, IsrError
  PROVE  IInv'
<1> USE DEF IInv
<1>1. PICK r \in Req :
        /\ r = reqq[Cur(reqq)] /\ GoodReq(r) /\ Elems(r.bufs) \subseteq Buf /\ HasCur(reqq)
        /\ Cur(reqq) \in 1 .. Len(reqq)
        /\ ~starting /\ drive.left > 0 /\ curisr # "nullisr"
        /\ drive.sect = r.startsect + r.pos /\ drive.left = r.nsect - r.pos /\ curisr = r.cmd
  BY CurReq DEF IsrError, DriveInStep
<1>2. /\ UNCHANGED <<locked, curisr, starting, fell, got, pc, op, arr, count>> /\ erred' = TRUE
      /\ bstate' = [bstate EXCEPT ![AtBuf(r)] = "BERROR"]
      /\ reqq' = [reqq EXCEPT ![Cur(reqq)].pos = @ + 1]
      /\ drive' \in {Idle, [sect |-> drive.sect + 1, left |-> drive.left - 1]}
  BY <1>1 DEF IsrError, task
<1>3. r.pos \in Nat /\ r.nsect \in Nat /\ r.startsect \in Nat /\ r.pos < r.nsect
  BY <1>1, ReqIs, BufIs
<1>4. AtBuf(r) \in Buf /\ AtBuf(r) \in Elems(r.bufs)
  BY <1>1, <1>3, AtBufIs
<1>5. /\ bstate' \in [Buf -> BStates] /\ bstate'[AtBuf(r)] = "BERROR"
      /\ \A b \in Buf : bstate'[b] \in {bstate[b], "BERROR"} /\ (b # AtBuf(r) => bstate'[b] = bstate[b])
  BY <1>2, <1>4 DEF TypeOK, BStates
<1>6. /\ reqq' \in Seq(Req) /\ Queue(reqq)' /\ TouchedTo(reqq, reqq', Cur(reqq))
      /\ PassedIsRead' /\ HasCur(reqq')
      /\ reqq'[Cur(reqq')].pos = r.pos + 1 /\ reqq'[Cur(reqq')].nsect = r.nsect
      /\ reqq'[Cur(reqq')].startsect = r.startsect /\ reqq'[Cur(reqq')].cmd = r.cmd
  BY <1>1, <1>2, <1>3, <1>5, PassStep
<1>7. drive' \in [sect : Nat, left : 0 .. MAXSECT]
  BY <1>1, <1>2, <1>3, BufIs DEF TypeOK, Idle
<1>8. TypeOK'
  BY <1>2, <1>5, <1>6, <1>7 DEF TypeOK, BStates
<1>9. LocksMatch'
  BY <1>2, <1>6, TouchedBufs DEF LocksMatch
<1>10. StatesMatch'
  <2>1. \A x : InQ(reqq', x) <=> InQ(reqq, x)
    BY <1>6, TouchedBufs
  <2>2. ASSUME NEW i \in 1 .. Len(reqq'), NEW b \in Elems(reqq'[i].bufs)
        PROVE  bstate'[b] \in {IF reqq'[i].cmd = "BREAD" THEN "BINVAL" ELSE "BDIRTY", "BERROR"}
    <3>1. i \in 1 .. Len(reqq) /\ reqq'[i].cmd = reqq[i].cmd /\ reqq'[i].bufs = reqq[i].bufs
      BY <1>6 DEF TouchedTo
    <3>2. reqq[i].bufs \in Seq(Buf)
      BY <3>1, ReqIs DEF TypeOK
    <3>3. b \in Buf
      BY ONLY <3>1, <3>2, b \in Elems(reqq'[i].bufs) DEF Elems
    <3>4. bstate[b] \in {IF reqq[i].cmd = "BREAD" THEN "BINVAL" ELSE "BDIRTY", "BERROR"}
      BY <3>1 DEF StatesMatch
    <3> QED BY ONLY <1>5, <3>1, <3>3, <3>4
  <2>3. ASSUME NEW b \in Buf, bstate'[b] = "BERROR" PROVE InQ(reqq', b)
    <3>1. CASE b = AtBuf(r)
      BY <1>1, <1>4, <2>1, <3>1 DEF InQ
    <3>2. CASE b # AtBuf(r)
      BY <1>5, <2>1, <2>3, <3>2 DEF StatesMatch
    <3> QED BY <3>1, <3>2
  <2> QED BY <2>2, <2>3 DEF StatesMatch
<1>11. StartsAfresh' /\ QueueIsKicked' /\ CountsFit'
  BY <1>1, <1>2, <1>6 DEF StartsAfresh, QueueIsKicked, CountsFit
<1>12. DriveInStep'
  <2>1. CASE drive' = Idle
    BY <2>1 DEF DriveInStep, Idle
  <2>2. CASE drive' = [sect |-> drive.sect + 1, left |-> drive.left - 1]
    <3>1. drive'.sect = r.startsect + (r.pos + 1) /\ drive'.left = r.nsect - (r.pos + 1)
      BY <1>1, <1>3, <2>2
    <3> QED BY <1>1, <1>2, <1>6, <3>1 DEF DriveInStep
  <2> QED BY <1>2, <2>1, <2>2
<1> QED BY <1>6, <1>8, <1>9, <1>10, <1>11, <1>12

LEMMA NullIsrStep ==
  ASSUME IInv, NullIsr
  PROVE  IInv'
<1> USE DEF IInv
<1>1. /\ UNCHANGED <<reqq, bstate, locked, curisr, starting, fell, got, erred, pc, op, arr, count>>
      /\ ~starting /\ drive' = [sect |-> 0, left |-> 0]
  BY DEF NullIsr, task, Idle
<1>2. TypeOK'
  BY <1>1, BufIs DEF TypeOK
<1>3. Queue(reqq)' /\ LocksMatch' /\ StatesMatch' /\ PassedIsRead' /\ QueueIsKicked' /\ CountsFit'
  BY <1>1 DEF Queue, LocksMatch, StatesMatch, PassedIsRead, QueueIsKicked, CountsFit
<1>4. StartsAfresh' /\ DriveInStep'
  BY <1>1 DEF StartsAfresh, DriveInStep
<1> QED BY <1>2, <1>3, <1>4

LEMMA CallStep ==
  ASSUME IInv, NEW t \in Task, NEW cmd \in {"BREAD", "BWRITE"}, NEW b \in Buf,
         NEW n \in 1 .. MAXBUFPERIO, Call(t, cmd, b, n)
  PROVE  IInv'
<1> USE DEF IInv
<1>1. /\ UNCHANGED <<reqq, bstate, locked, curisr, drive, starting, fell, got, erred>>
      /\ pc[t] = "out" /\ pc' = [pc EXCEPT ![t] = "loop"] /\ op' = [op EXCEPT ![t] = cmd]
      /\ arr' = [arr EXCEPT ![t] = [todo |-> Run(b, n), wait |-> Run(b, n)]]
      /\ count' = [count EXCEPT ![t] = 0] /\ Elems(Run(b, n)) \subseteq Buf
  BY DEF Call, dev
<1>2. n \in Nat /\ n <= MAXBUFPERIO /\ MAXBUFPERIO \in Nat
  BY BlkDevAssumption
<1>3. Run(b, n) \in Seq(Buf) /\ Len(Run(b, n)) = n
  <2>1. Len(Run(b, n)) = n
    BY <1>2 DEF Run
  <2>2. \A i \in 1 .. n : Run(b, n)[i] \in Buf
    BY <1>1, <2>1 DEF Elems
  <2>3. Run(b, n) = [i \in 1 .. n |-> Run(b, n)[i]]
    BY DEF Run
  <2> QED BY ONLY <1>2, <2>1, <2>2, <2>3
<1>4. TypeOK'
  BY <1>1, <1>2, <1>3 DEF TypeOK
<1>5. Queue(reqq)' /\ LocksMatch' /\ StatesMatch' /\ PassedIsRead' /\ StartsAfresh' /\ DriveInStep'
  BY <1>1 DEF Queue, LocksMatch, StatesMatch, PassedIsRead, StartsAfresh, DriveInStep
<1>6. QueueIsKicked'
  <2> SUFFICES ASSUME reqq # << >>, ~HasCur(reqq)
               PROVE  \E u \in Task : pc'[u] = "loop" /\ count'[u] > 0
    BY <1>1 DEF QueueIsKicked
  <2>1. PICK u \in Task : pc[u] = "loop" /\ count[u] > 0
    BY DEF QueueIsKicked
  <2> QED BY <1>1, <2>1 DEF TypeOK
<1>7. CountsFit'
  <2> SUFFICES ASSUME NEW u \in Task PROVE count'[u] + Len(arr'[u].todo) <= MAXBUFPERIO
    BY DEF CountsFit
  <2>1. CASE u = t
    BY <1>1, <1>2, <1>3, <2>1 DEF TypeOK
  <2>2. CASE u # t
    BY <1>1, <2>2 DEF TypeOK, CountsFit
  <2> QED BY <2>1, <2>2
<1> QED BY <1>4, <1>5, <1>6, <1>7

\* Taking the first of a task's buffers.
LEMMA TodoIs ==
  ASSUME TypeOK, NEW t \in Task, arr[t].todo # << >>, arr' = [arr EXCEPT ![t].todo = Tail(@)]
  PROVE  /\ Head(arr[t].todo) \in Buf /\ arr' \in [Task -> [todo : Seq(Buf), wait : Seq(Buf)]]
         /\ Len(arr[t].todo) \in Nat /\ Len(arr'[t].todo) = Len(arr[t].todo) - 1
         /\ \A u \in Task : u # t => arr'[u] = arr[u]
<1>1. PICK a \in [todo : Seq(Buf), wait : Seq(Buf)] : a = arr[t] /\ a.todo \in Seq(Buf) /\ a.todo # << >>
  BY DEF TypeOK
<1>2. PICK s \in Seq(Buf) : s = a.todo /\ s # << >>
  BY <1>1
<1>3. Head(s) \in Buf /\ Tail(s) \in Seq(Buf) /\ Len(s) \in Nat /\ Len(Tail(s)) = Len(s) - 1
  BY ONLY <1>2, s \in Seq(Buf)
<1>4. arr' = [arr EXCEPT ![t] = [a EXCEPT !.todo = Tail(s)]]
  BY <1>1, <1>2
<1>5. [a EXCEPT !.todo = Tail(s)] \in [todo : Seq(Buf), wait : Seq(Buf)] /\ [a EXCEPT !.todo = Tail(s)].todo = Tail(s)
  BY <1>3
<1> QED BY <1>1, <1>2, <1>3, <1>4, <1>5 DEF TypeOK

LEMMA LockStep ==
  ASSUME IInv, NEW t \in Task, Lock(t)
  PROVE  IInv'
<1> USE DEF IInv
<1>1. PICK b : /\ b = Head(arr[t].todo) /\ ~starting /\ pc[t] = "loop" /\ arr[t].todo # << >> /\ ~locked[b]
               /\ arr' = [arr EXCEPT ![t].todo = Tail(@)]
               /\ UNCHANGED <<bstate, curisr, drive, starting, fell, got, erred, pc, op>>
  BY DEF Lock
<1>2. /\ b \in Buf /\ arr' \in [Task -> [todo : Seq(Buf), wait : Seq(Buf)]]
      /\ Len(arr[t].todo) \in Nat /\ Len(arr'[t].todo) = Len(arr[t].todo) - 1
      /\ \A u \in Task : u # t => arr'[u] = arr[u]
  BY <1>1, TodoIs
<1>3. count[t] \in Nat /\ count[t] + Len(arr[t].todo) <= MAXBUFPERIO /\ MAXBUFPERIO \in Nat
  BY BlkDevAssumption DEF TypeOK, CountsFit
<1>4. CASE Wanted(t, b)
  <2>1. /\ locked' = [locked EXCEPT ![b] = TRUE] /\ reqq' = AddReq(reqq, op[t], b)
        /\ count' = [count EXCEPT ![t] = @ + 1]
    BY <1>1, <1>4 DEF Lock
  <2>2. PICK cmd \in {"BREAD", "BWRITE"} : cmd = op[t] /\ bstate[b] = IF cmd = "BREAD" THEN "BINVAL" ELSE "BDIRTY"
    BY <1>4 DEF TypeOK, Wanted
  <2>3. ~InQ(reqq, b)
    BY <1>1, <1>2 DEF LocksMatch
  <2>4. AddedTo(reqq, reqq', cmd, b)
    BY <1>2, <2>1, <2>2, <2>3, Added DEF TypeOK
  <2>5. reqq' \in Seq(Req) /\ Queue(reqq')
    BY <2>4 DEF AddedTo
  <2>6. /\ HasCur(reqq) => HasCur(reqq') /\ reqq'[Cur(reqq')] = reqq[Cur(reqq)]
        /\ HasCur(reqq') => HasCur(reqq)
    BY <2>4, AddedCur
  <2>7. \A x : InQ(reqq', x) <=> (InQ(reqq, x) \/ x = b)
    BY <2>4, AddedBufs
  <2>8. TypeOK'
    <3>1. count' \in [Task -> 0 .. MAXBUFPERIO]
      <4>1. count[t] + 1 \in 0 .. MAXBUFPERIO
        <5>1. Len(arr[t].todo) > 0
          BY <1>1 DEF TypeOK
        <5> QED BY <1>2, <1>3, <5>1
      <4> QED BY <2>1, <4>1 DEF TypeOK
    <3> QED BY <1>1, <1>2, <2>1, <2>5, <3>1 DEF TypeOK
  <2>9. LocksMatch'
    BY <1>2, <2>1, <2>7 DEF LocksMatch, TypeOK
  <2>10. StatesMatch'
    <3>1. ASSUME NEW k \in 1 .. Len(reqq'), NEW x \in Elems(reqq'[k].bufs)
          PROVE  bstate[x] \in {IF reqq'[k].cmd = "BREAD" THEN "BINVAL" ELSE "BDIRTY", "BERROR"}
      <4>1. Old(reqq, reqq'[k]) \/ Grown(reqq, reqq'[k], cmd, b)
        BY <2>4 DEF AddedTo
      <4>2. CASE Old(reqq, reqq'[k])
        BY <4>2 DEF Old, StatesMatch
      <4>3. CASE Grown(reqq, reqq'[k], cmd, b)
        <5>1. reqq'[k].cmd = cmd
          BY <4>3 DEF Grown
        <5>2. x = b \/ \E j \in 1 .. Len(reqq) : reqq[j].cmd = cmd /\ x \in Elems(reqq[j].bufs)
          BY <4>3 DEF Grown
        <5> QED BY <2>2, <5>1, <5>2 DEF StatesMatch
      <4> QED BY <4>1, <4>2, <4>3
    <3> QED BY <1>1, <2>7, <3>1 DEF StatesMatch
  <2>11. PassedIsRead'
    <3> SUFFICES ASSUME NEW i \in 1 .. Len(reqq'), reqq'[i].cmd = "BREAD",
                        NEW j \in 1 .. Len(reqq'[i].bufs), NEW k \in 0 .. SECTPERBLK - 1,
                        (j - 1) * SECTPERBLK + k < reqq'[i].pos
                 PROVE  <<reqq'[i].bufs[j], k>> \in got \/ bstate[reqq'[i].bufs[j]] = "BERROR"
      BY <1>1 DEF PassedIsRead
    <3>1. Old(reqq, reqq'[i]) \/ Grown(reqq, reqq'[i], cmd, b)
      BY <2>4 DEF AddedTo
    <3>2. CASE Old(reqq, reqq'[i])
      BY <3>2 DEF Old, PassedIsRead
    <3>3. CASE Grown(reqq, reqq'[i], cmd, b)
      <4>1. reqq'[i].pos = 0
        BY <2>5, <3>3 DEF Grown, Queue, GoodReq
      <4>2. Len(reqq'[i].bufs) \in Nat
        BY <2>5, ReqIs
      <4>3. j - 1 \in Nat /\ k \in Nat
        BY <4>2, BufIs
      <4>4. (j - 1) * SECTPERBLK \in Nat
        BY <4>3, BufIs, Times
      <4> QED BY <4>1, <4>3, <4>4
    <3> QED BY <3>1, <3>2, <3>3
  <2>12. StartsAfresh' /\ DriveInStep'
    BY <1>1, <2>6 DEF StartsAfresh, DriveInStep
  <2>13. QueueIsKicked'
    <3>1. pc'[t] = "loop" /\ count'[t] > 0
      BY <1>1, <1>3, <2>1 DEF TypeOK
    <3> QED BY <3>1 DEF QueueIsKicked
  <2>14. CountsFit'
    <3> SUFFICES ASSUME NEW u \in Task PROVE count'[u] + Len(arr'[u].todo) <= MAXBUFPERIO
      BY DEF CountsFit
    <3>1. CASE u = t
      <4>1. count'[t] = count[t] + 1
        BY <2>1 DEF TypeOK
      <4> QED BY <1>2, <1>3, <3>1, <4>1
    <3>2. CASE u # t
      BY <1>2, <2>1, <3>2 DEF TypeOK, CountsFit
    <3> QED BY <3>1, <3>2
  <2> QED BY <2>5, <2>8, <2>9, <2>10, <2>11, <2>12, <2>13, <2>14
<1>5. CASE ~Wanted(t, b)
  <2>1. UNCHANGED <<locked, reqq, count>>
    BY <1>1, <1>5 DEF Lock
  <2>2. TypeOK'
    BY <1>1, <1>2, <2>1 DEF TypeOK
  <2>3. /\ Queue(reqq)' /\ LocksMatch' /\ StatesMatch' /\ PassedIsRead' /\ QueueIsKicked'
        /\ StartsAfresh' /\ DriveInStep'
    BY <1>1, <2>1
       DEF Queue, LocksMatch, StatesMatch, PassedIsRead, QueueIsKicked, StartsAfresh, DriveInStep
  <2>4. CountsFit'
    <3> SUFFICES ASSUME NEW u \in Task PROVE count[u] + Len(arr'[u].todo) <= MAXBUFPERIO
      BY <2>1 DEF CountsFit
    <3>1. CASE u = t
      BY <1>2, <1>3, <3>1
    <3>2. CASE u # t
      BY <1>2, <3>2 DEF CountsFit
    <3> QED BY <3>1, <3>2
  <2> QED BY <2>2, <2>3, <2>4
<1> QED BY <1>4, <1>5

LEMMA DoReqStep ==
  ASSUME IInv, NEW t \in Task, DoReq(t)
  PROVE  IInv'
<1> USE DEF IInv
<1>1. /\ ~starting /\ pc[t] = "loop" /\ pc' = [pc EXCEPT ![t] = "wait"]
      /\ UNCHANGED <<bstate, locked, curisr, drive, fell, got, erred, op, arr, count>>
  BY DEF DoReq
<1>2. CASE count[t] = 0 \/ reqq = << >> \/ HasCur(reqq)
  <2>1. UNCHANGED <<reqq, starting>>
    BY <1>2 DEF DoReq
  <2>2. TypeOK'
    BY <1>1, <2>1 DEF TypeOK
  <2>3. /\ Queue(reqq)' /\ LocksMatch' /\ StatesMatch' /\ PassedIsRead' /\ CountsFit'
        /\ StartsAfresh' /\ DriveInStep'
    BY <1>1, <2>1
       DEF Queue, LocksMatch, StatesMatch, PassedIsRead, CountsFit, StartsAfresh, DriveInStep
  <2>4. QueueIsKicked'
    <3> SUFFICES ASSUME reqq # << >>, ~HasCur(reqq)
                 PROVE  \E u \in Task : pc'[u] = "loop" /\ count[u] > 0
      BY <1>1, <2>1 DEF QueueIsKicked
    <3>1. PICK u \in Task : pc[u] = "loop" /\ count[u] > 0
      BY DEF QueueIsKicked
    <3>2. u # t
      BY <1>2, <3>1
    <3> QED BY <1>1, <3>1, <3>2 DEF TypeOK
  <2> QED BY <2>2, <2>3, <2>4
<1>3. CASE ~(count[t] = 0 \/ reqq = << >> \/ HasCur(reqq))
  <2>1. reqq' = [reqq EXCEPT ![1].cur = TRUE] /\ starting' = TRUE
    BY <1>3 DEF DoReq
  <2>2. TouchedTo(reqq, reqq', 1) /\ reqq'[1].pos = 0
    <3>1. reqq \in Seq(Req) /\ Queue(reqq) /\ ~HasCur(reqq) /\ reqq # << >>
      BY <1>3 DEF TypeOK
    <3> QED BY ONLY <2>1, <3>1, Started
  <2>3. reqq' \in Seq(Req) /\ Queue(reqq') /\ HasCur(reqq') /\ Cur(reqq') = 1 /\ Len(reqq') = Len(reqq)
    BY <2>2 DEF TouchedTo
  <2>4. TypeOK'
    BY <1>1, <2>1, <2>3 DEF TypeOK
  <2>5. \A x : InQ(reqq', x) <=> InQ(reqq, x)
    BY <2>2, TouchedBufs
  <2>6. LocksMatch' /\ StatesMatch'
    <3>1. /\ Len(reqq') = Len(reqq) /\ bstate' = bstate /\ locked' = locked
          /\ \A i \in 1 .. Len(reqq) : reqq'[i].cmd = reqq[i].cmd /\ reqq'[i].bufs = reqq[i].bufs
      BY <1>1, <2>2 DEF TouchedTo
    <3>2. StatesMatch'
      BY ONLY StatesMatch, <2>5, <3>1 DEF StatesMatch
    <3> QED BY ONLY LocksMatch, <2>5, <3>1, <3>2 DEF LocksMatch
  <2>7. PassedIsRead'
    <3> SUFFICES ASSUME NEW i \in 1 .. Len(reqq'), reqq'[i].cmd = "BREAD",
                        NEW j \in 1 .. Len(reqq'[i].bufs), NEW k \in 0 .. SECTPERBLK - 1,
                        (j - 1) * SECTPERBLK + k < reqq'[i].pos
                 PROVE  FALSE
      BY DEF PassedIsRead
    <3>1. reqq'[i].pos = 0
      BY SMTT(40), <1>3, <2>2, <2>3 DEF TouchedTo, HasCur, Queue, GoodReq
    <3>2. Len(reqq'[i].bufs) \in Nat
      BY <2>3, ReqIs
    <3>3. j - 1 \in Nat /\ k \in Nat
      BY <3>2, BufIs
    <3>4. (j - 1) * SECTPERBLK \in Nat
      BY <3>3, BufIs, Times
    <3> QED BY <3>1, <3>3, <3>4
  <2>8. drive.left = 0
    BY <1>1, <1>3, BufIs DEF DriveInStep, TypeOK
  <2>9. StartsAfresh' /\ DriveInStep' /\ QueueIsKicked' /\ CountsFit'
    BY <1>1, <2>1, <2>2, <2>3, <2>8 DEF StartsAfresh, DriveInStep, QueueIsKicked, CountsFit
  <2> QED BY <2>3, <2>4, <2>6, <2>7, <2>9
<1> QED BY <1>2, <1>3

LEMMA WaitStep ==
  ASSUME IInv, NEW t \in Task, Wait(t)
  PROVE  IInv'
<1> USE DEF IInv
<1>1. /\ UNCHANGED <<reqq, bstate, locked, curisr, drive, starting, fell, got, erred, op, count>>
      /\ pc[t] = "wait"
  BY DEF Wait, dev
<1>2. /\ pc' \in [Task -> {"out", "loop", "wait"}] /\ \A u \in Task : pc[u] = "loop" => pc'[u] = "loop"
      /\ arr' \in [Task -> [todo : Seq(Buf), wait : Seq(Buf)]] /\ \A u \in Task : arr'[u].todo = arr[u].todo
  <2>1. CASE arr[t].wait = << >>
    <3>1. pc' = [pc EXCEPT ![t] = "out"] /\ UNCHANGED arr
      BY <2>1 DEF Wait
    <3> QED BY <1>1, <3>1 DEF TypeOK
  <2>2. CASE arr[t].wait # << >>
    <3>1. arr' = [arr EXCEPT ![t].wait = Tail(@)] /\ UNCHANGED pc
      BY <2>2 DEF Wait
    <3>2. PICK a \in [todo : Seq(Buf), wait : Seq(Buf)] : a = arr[t] /\ a.wait \in Seq(Buf) /\ a.wait # << >>
      BY <2>2 DEF TypeOK
    <3>3. PICK s \in Seq(Buf) : s = a.wait /\ s # << >>
      BY <3>2
    <3>4. Tail(s) \in Seq(Buf)
      BY <3>3
    <3>5. arr' = [arr EXCEPT ![t] = [a EXCEPT !.wait = Tail(s)]]
      BY <3>1, <3>2, <3>3
    <3>6. /\ [a EXCEPT !.wait = Tail(s)] \in [todo : Seq(Buf), wait : Seq(Buf)]
          /\ [a EXCEPT !.wait = Tail(s)].todo = a.todo
      BY <3>4
    <3>7. PICK e \in [todo : Seq(Buf), wait : Seq(Buf)] : e = [a EXCEPT !.wait = Tail(s)] /\ e.todo = arr[t].todo
      BY ONLY <3>2, <3>6
    <3>8. arr' = [arr EXCEPT ![t] = e] /\ arr \in [Task -> [todo : Seq(Buf), wait : Seq(Buf)]]
      BY <3>5, <3>7 DEF TypeOK
    <3>9. arr' \in [Task -> [todo : Seq(Buf), wait : Seq(Buf)]] /\ \A u \in Task : arr'[u].todo = arr[u].todo
      BY ONLY <3>7, <3>8, t \in Task
    <3> QED BY <3>1, <3>9 DEF TypeOK
  <2> QED BY <2>1, <2>2
<1>3. TypeOK'
  BY <1>1, <1>2 DEF TypeOK
<1>4. Queue(reqq)' /\ LocksMatch' /\ StatesMatch' /\ PassedIsRead' /\ StartsAfresh' /\ DriveInStep'
  BY <1>1 DEF Queue, LocksMatch, StatesMatch, PassedIsRead, StartsAfresh, DriveInStep
<1>5. QueueIsKicked' /\ CountsFit'
  BY <1>1, <1>2 DEF QueueIsKicked, CountsFit
<1> QED BY <1>3, <1>4, <1>5

LEMMA DirtyStep ==
  ASSUME IInv, NEW b \in Buf, Dirty(b)
  PROVE  IInv'
<1> USE DEF IInv
<1>1. /\ bstate' = [bstate EXCEPT ![b] = "BDIRTY"] /\ ~BeingRead(b)
      /\ UNCHANGED <<reqq, locked, curisr, drive, starting, fell, got, erred, pc, op, arr, count>>
  BY DEF Dirty, task
<1>2. TypeOK'
  BY <1>1 DEF TypeOK
<1>3. bstate'[b] = "BDIRTY" /\ \A x \in Buf : x # b => bstate'[x] = bstate[x]
  BY <1>1 DEF TypeOK
<1>4. \A i \in 1 .. Len(reqq) : reqq[i].bufs \in Seq(Buf)
  BY ReqIs DEF TypeOK
<1>5. \A i \in 1 .. Len(reqq) : Elems(reqq[i].bufs) \subseteq Buf
  BY <1>4 DEF Elems
<1>6. StatesMatch'
  <2>1. \A i \in 1 .. Len(reqq) : \A x \in Elems(reqq[i].bufs) :
          bstate'[x] \in {IF reqq[i].cmd = "BREAD" THEN "BINVAL" ELSE "BDIRTY", "BERROR"}
    BY <1>1, <1>3, <1>5 DEF StatesMatch, BeingRead
  <2>2. \A x \in Buf : bstate'[x] = "BERROR" => InQ(reqq, x)
    BY <1>3 DEF StatesMatch
  <2> QED BY <1>1, <2>1, <2>2 DEF StatesMatch
<1>7. PassedIsRead'
  <2> SUFFICES ASSUME NEW i \in 1 .. Len(reqq), reqq[i].cmd = "BREAD",
                      NEW j \in 1 .. Len(reqq[i].bufs), NEW k \in 0 .. SECTPERBLK - 1,
                      (j - 1) * SECTPERBLK + k < reqq[i].pos
               PROVE  <<reqq[i].bufs[j], k>> \in got \/ bstate'[reqq[i].bufs[j]] = "BERROR"
    BY <1>1 DEF PassedIsRead
  <2>1. reqq[i].bufs[j] \in Elems(reqq[i].bufs)
    BY DEF Elems
  <2>2. reqq[i].bufs[j] \in Buf /\ reqq[i].bufs[j] # b
    BY <1>1, <1>5, <2>1 DEF BeingRead
  <2> QED BY <1>3, <2>2 DEF PassedIsRead
<1>8. Queue(reqq)' /\ LocksMatch' /\ StartsAfresh' /\ DriveInStep' /\ QueueIsKicked' /\ CountsFit'
  BY <1>1 DEF Queue, LocksMatch, StartsAfresh, DriveInStep, QueueIsKicked, CountsFit
<1> QED BY <1>2, <1>6, <1>7, <1>8

LEMMA Inductive ==
  ASSUME IInv, [Next]_vars
  PROVE  IInv'
<1>1. CASE UNCHANGED vars
  <2>1. UNCHANGED <<reqq, bstate, locked, curisr, drive, starting, fell, got, erred, pc, op, arr, count>>
    BY <1>1 DEF vars, dev, task
  <2>2. /\ TypeOK' /\ Queue(reqq)' /\ LocksMatch' /\ StatesMatch' /\ PassedIsRead' /\ StartsAfresh'
        /\ DriveInStep' /\ QueueIsKicked' /\ CountsFit'
    BY <2>1 DEF IInv, TypeOK, Queue, LocksMatch, StatesMatch, PassedIsRead, StartsAfresh, DriveInStep,
                QueueIsKicked, CountsFit
  <2> QED BY <2>2 DEF IInv
<1>2. CASE DiskStep
  BY <1>2, DoCurReqStep, IsrStep, IsrErrorStep, NullIsrStep DEF DiskStep
<1>3. CASE \E t \in Task : TaskStep(t)
  BY <1>3, LockStep, DoReqStep, WaitStep DEF TaskStep
<1>4. CASE \E t \in Task, cmd \in {"BREAD", "BWRITE"}, b \in Buf, n \in 1 .. MAXBUFPERIO : Call(t, cmd, b, n)
  BY <1>4, CallStep
<1>5. CASE \E b \in Buf : Dirty(b)
  BY <1>5, DirtyStep
<1> QED BY <1>1, <1>2, <1>3, <1>4, <1>5 DEF Next

LEMMA InitIInv ==
  ASSUME Init
  PROVE  IInv
<1>1. /\ reqq = << >> /\ Len(reqq) = 0 /\ drive.left = 0 /\ starting = FALSE
      /\ \A t \in Task : count[t] = 0 /\ arr[t].todo = << >>
  BY DEF Init, Idle
<1>2. MAXBUFPERIO \in Nat /\ MAXSECT \in Nat
  BY BlkDevAssumption
<1>3. TypeOK
  <2>1. << >> \in Seq(Req) /\ << >> \in Seq(Buf)
    OBVIOUS
  <2>2. reqq \in Seq(Req) /\ drive \in [sect : Nat, left : 0 .. MAXSECT]
    BY <1>2, <2>1 DEF Init, Idle
  <2>3. arr \in [Task -> [todo : Seq(Buf), wait : Seq(Buf)]] /\ count \in [Task -> 0 .. MAXBUFPERIO]
    BY <1>2, <2>1 DEF Init
  <2> QED BY <2>2, <2>3 DEF Init, TypeOK
<1>4. Queue(reqq) /\ LocksMatch /\ PassedIsRead /\ StartsAfresh /\ DriveInStep /\ QueueIsKicked
  BY <1>1 DEF Init, Queue, LocksMatch, InQ, PassedIsRead, StartsAfresh, DriveInStep, QueueIsKicked
<1>5. StatesMatch
  BY <1>1 DEF Init, StatesMatch
<1>6. CountsFit
  BY <1>1, <1>2 DEF CountsFit
<1> QED BY <1>3, <1>4, <1>5, <1>6 DEF IInv

\* The inductive invariant of the block layer.
THEOREM BlkDevInvariant == Spec => []IInv
<1>1. Init => IInv
  BY InitIInv
<1>2. IInv /\ [Next]_vars => IInv'
  BY Inductive
<1> QED BY <1>1, <1>2, PTL DEF Spec

\* Every variable of the block layer keeps its type: no request exceeds what
\* docurreq alleges, and llrwab's count never exceeds its arguments.
THEOREM BlkDevTypes == Spec => []TypeOK
<1>1. IInv => TypeOK
  BY DEF IInv
<1> QED BY <1>1, BlkDevInvariant, PTL

\* A buffer is locked exactly while it is in the queue, and then it is in one
\* request, once.
LEMMA LockedOnce ==
  ASSUME IInv
  PROVE  LockedIffQueued
<1> USE DEF IInv
<1>1. ASSUME NEW i \in 1 .. Len(reqq)
      PROVE  Len(reqq[i].bufs) \in Nat /\ Len(reqq[i].bufs) <= MAXSECT
  <2>1. reqq[i] \in Req /\ GoodReq(reqq[i])
    BY DEF TypeOK, Queue
  <2>2. PICK n \in Nat, S \in Nat : n = Len(reqq[i].bufs) /\ S = SECTPERBLK /\ S > 0
    <3>1. Len(reqq[i].bufs) \in Nat /\ SECTPERBLK \in Nat /\ SECTPERBLK > 0
      BY <2>1, ReqIs, BufIs
    <3> QED BY ONLY <3>1
  <2>3. S * n <= MAXSECT /\ MAXSECT \in Nat
    BY <2>1, <2>2, BufIs DEF GoodReq
  <2>4. S * n >= n
    <3>1. CASE n = 0
      BY ONLY <2>2, <3>1
    <3>2. CASE n > 0
      BY ONLY <2>2, <3>2, Times
    <3> QED BY ONLY <2>2, <3>1, <3>2
  <2> QED BY <2>2, <2>3, <2>4
<1> SUFFICES ASSUME NEW b \in Buf, NEW At,
                    At = {ij \in (1 .. Len(reqq)) \X (1 .. MAXSECT) :
                            ij[2] <= Len(reqq[ij[1]].bufs) /\ reqq[ij[1]].bufs[ij[2]] = b}
             PROVE  IF locked[b] THEN \E x \in At : At = {x} ELSE At = {}
  BY DEF LockedIffQueued
<1>2. ASSUME NEW x \in At
      PROVE  \E i \in 1 .. Len(reqq) : \E k \in 1 .. Len(reqq[i].bufs) : x = <<i, k>> /\ reqq[i].bufs[k] = b
  <2>1. x[1] \in 1 .. Len(reqq) /\ x[2] \in 1 .. MAXSECT /\ x = <<x[1], x[2]>>
    OBVIOUS
  <2>2. x[2] <= Len(reqq[x[1]].bufs) /\ reqq[x[1]].bufs[x[2]] = b
    OBVIOUS
  <2>3. x[2] \in 1 .. Len(reqq[x[1]].bufs)
    BY <1>1, <2>1, <2>2, BufIs
  <2> QED BY <2>1, <2>2, <2>3
<1>3. ASSUME NEW i \in 1 .. Len(reqq), NEW k \in 1 .. Len(reqq[i].bufs), reqq[i].bufs[k] = b
      PROVE  <<i, k>> \in At
  <2>1. k \in 1 .. MAXSECT /\ k <= Len(reqq[i].bufs)
    BY <1>1, BufIs
  <2> QED BY <1>3, <2>1
<1>4. CASE locked[b]
  <2>1. PICK i \in 1 .. Len(reqq) : b \in Elems(reqq[i].bufs)
    BY <1>4 DEF LocksMatch, InQ
  <2>2. PICK k \in 1 .. Len(reqq[i].bufs) : reqq[i].bufs[k] = b
    BY <2>1 DEF Elems
  <2>3. <<i, k>> \in At
    BY <1>3, <2>2
  <2>4. ASSUME NEW x \in At PROVE x = <<i, k>>
    <3>1. PICK j \in 1 .. Len(reqq) : \E l \in 1 .. Len(reqq[j].bufs) : x = <<j, l>> /\ reqq[j].bufs[l] = b
      BY <1>2
    <3>2. PICK l \in 1 .. Len(reqq[j].bufs) : x = <<j, l>> /\ reqq[j].bufs[l] = b
      BY <3>1
    <3>3. b \in Elems(reqq[j].bufs)
      BY <3>2 DEF Elems
    <3>4. j = i
      BY <2>1, <3>3 DEF Queue
    <3>5. l = k
      <4>1. \A y, z \in 1 .. Len(reqq[i].bufs) : reqq[i].bufs[y] = reqq[i].bufs[z] => y = z
        BY DEF Queue, GoodReq
      <4>2. l \in 1 .. Len(reqq[i].bufs) /\ reqq[i].bufs[l] = b
        BY ONLY <3>2, <3>4
      <4> QED BY ONLY <2>2, <4>1, <4>2
    <3> QED BY <3>2, <3>4, <3>5
  <2> QED BY <1>4, <2>3, <2>4
<1>5. CASE ~locked[b]
  <2>1. ASSUME NEW x \in At PROVE FALSE
    <3>1. PICK j \in 1 .. Len(reqq) : \E l \in 1 .. Len(reqq[j].bufs) : x = <<j, l>> /\ reqq[j].bufs[l] = b
      BY <1>2
    <3> QED BY <1>5, <3>1 DEF Elems, LocksMatch, InQ
  <2> QED BY <1>5, <2>1
<1> QED BY <1>4, <1>5

\* At every interrupt the locks, the requests, the device's attention and the
\* drive's place agree, for any blocks, tasks, limits and errors of the drive.
THEOREM QueueCorrect == Spec => []QueueConsistent
<1>1. IInv => QueueConsistent
  <2> SUFFICES ASSUME IInv PROVE QueueConsistent
    OBVIOUS
  <2>1. LockedIffQueued
    BY LockedOnce
  <2>2. RequestCoversBuffers
    BY DEF IInv, Queue, GoodReq, RequestCoversBuffers
  <2> QED BY <2>1, <2>2 DEF IInv, QueueConsistent
<1> QED BY <1>1, BlkDevInvariant, PTL

----------------------------------------------------------------------------
(* What a read brings. *)

LEMMA LastOfRead ==
  ASSUME IInv, HasCur(reqq), NEW r, r = reqq[Cur(reqq)], r.cmd = "BREAD",
         r.pos < r.nsect, ~(r.pos + 1 < r.nsect),
         NEW b \in Elems(r.bufs), bstate[b] # "BERROR", NEW k \in 0 .. SECTPERBLK - 1
  PROVE  <<b, k>> \in got \/ <<b, k>> = AtSector(r)
<1> USE DEF IInv
<1>1. Cur(reqq) \in 1 .. Len(reqq) /\ r \in Req /\ GoodReq(r)
  BY CurReq
<1>2. PICK n \in Nat, S \in Nat, p \in Nat : n = Len(r.bufs) /\ S = SECTPERBLK /\ S > 0 /\ p = r.pos
  <2>1. Len(r.bufs) \in Nat /\ SECTPERBLK \in Nat /\ SECTPERBLK > 0 /\ r.pos \in Nat
    BY <1>1, ReqIs, BufIs
  <2> QED BY ONLY <2>1
<1>3. r.nsect = S * n /\ S * n \in Nat
  BY <1>1, <1>2 DEF GoodReq
<1>4. p = S * n - 1
  BY <1>2, <1>3
<1>5. PICK j \in 1 .. n : b = r.bufs[j]
  BY <1>2 DEF Elems
<1>6. PICK d \in Nat : d = (j - 1) * S + k /\ d <= p
  <2>1. PICK jj \in Nat, a \in Nat : jj = j - 1 /\ n = jj + 1 + a
    <3>1. j - 1 \in Nat /\ n - j \in Nat /\ n = (j - 1) + 1 + (n - j)
      BY ONLY <1>2, j \in 1 .. n
    <3> QED BY ONLY <3>1
  <2>2. S * n = jj * S + S + a * S /\ a * S \in Nat /\ jj * S \in Nat
    BY ONLY <1>2, <2>1
  <2>3. k \in Nat /\ k < S
    BY <1>2
  <2> QED BY ONLY <1>2, <1>4, <2>1, <2>2, <2>3
<1>7. CASE d < p
  <2>1. <<r.bufs[j], k>> \in got \/ bstate[r.bufs[j]] = "BERROR"
    BY <1>1, <1>2, <1>6, <1>7 DEF PassedIsRead
  <2> QED BY <1>5, <2>1
<1>8. CASE d = p
  <2>1. (j - 1) * SECTPERBLK + k = r.pos /\ j \in 1 .. Len(r.bufs)
    BY <1>2, <1>6, <1>8
  <2> QED BY <1>1, <1>5, <2>1, AtBufIs
<1> QED BY ONLY <1>2, <1>6, <1>7, <1>8

\* The contents of a buffer count as valid after a read only if every sector
\* of it was read.
THEOREM ReadIsCompleteCorrect == Spec => ReadIsComplete
<1> DEFINE A == \A b \in Buf : BeingRead(b) /\ bstate'[b] = "BCLEAN" =>
                  \A s \in Sectors(b) : s \in got \/ s = AtSector(reqq[Cur(reqq)])
<1>1. IInv /\ [Next]_vars => [A]_vars
  <2> SUFFICES ASSUME IInv, Next, NEW b \in Buf, BeingRead(b), bstate'[b] = "BCLEAN",
                      NEW k \in 0 .. SECTPERBLK - 1
               PROVE  <<b, k>> \in got \/ <<b, k>> = AtSector(reqq[Cur(reqq)])
    BY DEF Sectors
  <2> USE DEF IInv
  <2>1. PICK i \in 1 .. Len(reqq) : reqq[i].cmd = "BREAD" /\ b \in Elems(reqq[i].bufs)
    BY DEF BeingRead
  <2>2. bstate[b] \in {"BINVAL", "BERROR"}
    BY <2>1 DEF StatesMatch
  <2>3. ASSUME NEW st, HasCur(reqq), EndCurReq(st), st[b] \in {bstate[b], "BERROR"}
        PROVE  i = Cur(reqq) /\ b \in Elems(reqq[Cur(reqq)].bufs) /\ st[b] # "BERROR"
    <3>1. bstate' = EndedState(st, reqq[Cur(reqq)])
      BY <2>3 DEF EndCurReq
    <3>2. b \in Elems(reqq[Cur(reqq)].bufs) /\ st[b] # "BERROR"
      BY <2>2, <2>3, <3>1 DEF EndedState
    <3>3. Cur(reqq) \in 1 .. Len(reqq)
      BY <2>3, CurReq
    <3> QED BY <2>1, <3>2, <3>3 DEF Queue
  <2>4. CASE DoCurReq
    <3>1. HasCur(reqq)
      BY <2>4 DEF DoCurReq, StartsAfresh
    <3>2. InPartition(reqq[Cur(reqq)]) => bstate' = bstate
      BY <2>4 DEF DoCurReq
    <3> DEFINE st == [x \in Buf |-> IF x \in Elems(reqq[Cur(reqq)].bufs) THEN "BERROR" ELSE bstate[x]]
    <3>3. ~InPartition(reqq[Cur(reqq)]) => EndCurReq(st)
      BY <2>4 DEF DoCurReq
    <3>4. st[b] = IF b \in Elems(reqq[Cur(reqq)].bufs) THEN "BERROR" ELSE bstate[b]
      OBVIOUS
    <3> HIDE DEF st
    <3> QED BY <2>2, <2>3, <3>1, <3>2, <3>3, <3>4
  <2>5. CASE Isr
    <3>1. PICK r : r = reqq[Cur(reqq)]
      OBVIOUS
    <3>2. HasCur(reqq) /\ r.pos < r.nsect
      <4>1. HasCur(reqq) /\ drive.left > 0 /\ drive.left = r.nsect - r.pos
        BY <2>5, <3>1 DEF Isr, DriveInStep
      <4>2. r \in Req
        BY <3>1, <4>1, CurReq
      <4>3. r.nsect \in Nat /\ r.pos \in Nat
        BY <4>2, ReqIs, BufIs
      <4> QED BY <4>1, <4>3
    <3>3. r.pos + 1 < r.nsect => bstate' = bstate
      BY <2>5, <3>1 DEF Isr
    <3>4. ~(r.pos + 1 < r.nsect) /\ EndCurReq(bstate)
      BY <2>2, <2>5, <3>1, <3>3 DEF Isr
    <3>5. i = Cur(reqq) /\ b \in Elems(r.bufs) /\ bstate[b] # "BERROR"
      BY <2>3, <3>1, <3>2, <3>4
    <3>6. r.cmd = "BREAD"
      BY <2>1, <3>1, <3>5
    <3> QED BY <3>1, <3>2, <3>4, <3>5, <3>6, LastOfRead
  <2>6. CASE IsrError
    <3>1. bstate' = [bstate EXCEPT ![AtBuf(reqq[Cur(reqq)])] = "BERROR"]
      BY <2>6 DEF IsrError
    <3> QED BY <2>2, <3>1 DEF TypeOK
  <2>7. ASSUME NEW x \in Buf, Dirty(x) PROVE FALSE
    <3>1. bstate' = [bstate EXCEPT ![x] = "BDIRTY"]
      BY <2>7 DEF Dirty
    <3> QED BY <2>2, <3>1 DEF TypeOK
  <2>8. ASSUME bstate' = bstate PROVE FALSE
    BY <2>2, <2>8
  <2>9. CASE NullIsr
    BY <2>8, <2>9 DEF NullIsr
  <2>10. CASE \E t \in Task : TaskStep(t)
    BY <2>8, <2>10 DEF TaskStep, Lock, DoReq, Wait, dev
  <2>11. CASE \E t \in Task, cmd \in {"BREAD", "BWRITE"}, x \in Buf, n \in 1 .. MAXBUFPERIO : Call(t, cmd, x, n)
    BY <2>8, <2>11 DEF Call, dev
  <2> QED BY <2>4, <2>5, <2>6, <2>7, <2>9, <2>10, <2>11 DEF Next, DiskStep
<1>2. Spec => [][A]_vars
  <2> HIDE DEF A
  <2> QED BY <1>1, BlkDevInvariant, PTL DEF Spec
<1> QED BY <1>2 DEF ReadIsComplete

----------------------------------------------------------------------------
(* The block layer implements BlockIO. *)

IoOf(q, b) == IF InQ(q, b) THEN q[CHOOSE i \in 1 .. Len(q) : b \in Elems(q[i].bufs)].cmd ELSE "free"
AbsIo(q) == [b \in Buf |-> IoOf(q, b)]
AbsState(q, bs) ==
  [b \in Buf |-> IF bs[b] # "BERROR" THEN bs[b]
                 ELSE IF IoOf(q, b) = "BREAD" THEN "BINVAL" ELSE "BDIRTY"]

LEMMA IoIs ==
  ASSUME NEW q, Queue(q), NEW b
  PROVE  /\ \A i \in 1 .. Len(q) : b \in Elems(q[i].bufs) => IoOf(q, b) = q[i].cmd
         /\ ~InQ(q, b) => IoOf(q, b) = "free"
<1>1. ASSUME NEW i \in 1 .. Len(q), b \in Elems(q[i].bufs) PROVE IoOf(q, b) = q[i].cmd
  <2>1. PICK c : c = CHOOSE k \in 1 .. Len(q) : b \in Elems(q[k].bufs)
    OBVIOUS
  <2>2. c \in 1 .. Len(q) /\ b \in Elems(q[c].bufs)
    BY <1>1, <2>1
  <2>3. c = i
    BY <1>1, <2>2 DEF Queue
  <2> QED BY <1>1, <2>1, <2>3 DEF IoOf, InQ
<1> QED BY <1>1 DEF IoOf

LEMMA AbsIs ==
  /\ [b \in Buf |-> Io(b)] = AbsIo(reqq)
  /\ [b \in Buf |-> IF bstate[b] # "BERROR" THEN bstate[b]
                    ELSE IF Io(b) = "BREAD" THEN "BINVAL" ELSE "BDIRTY"] = AbsState(reqq, bstate)
  /\ [b \in Buf |-> Io(b)]' = AbsIo(reqq')
  /\ [b \in Buf |-> IF bstate[b] # "BERROR" THEN bstate[b]
                    ELSE IF Io(b) = "BREAD" THEN "BINVAL" ELSE "BDIRTY"]' = AbsState(reqq', bstate')
<1>1. \A b : Io(b) = IoOf(reqq, b)
  BY DEF Io, IoOf, InReq, InQ
<1>2. \A b : Io(b)' = IoOf(reqq', b)
  BY DEF Io, IoOf, InReq, InQ
<1> QED BY <1>1, <1>2 DEF AbsIo, AbsState

LEMMA TouchedIo ==
  ASSUME NEW q, NEW v, Queue(q), Queue(v), NEW i, TouchedTo(q, v, i), NEW b
  PROVE  IoOf(v, b) = IoOf(q, b)
<1>1. CASE InQ(q, b)
  <2>1. PICK k \in 1 .. Len(q) : b \in Elems(q[k].bufs)
    BY <1>1 DEF InQ
  <2>2. k \in 1 .. Len(v) /\ b \in Elems(v[k].bufs) /\ v[k].cmd = q[k].cmd
    BY <2>1 DEF TouchedTo
  <2> QED BY <2>1, <2>2, IoIs
<1>2. CASE ~InQ(q, b)
  BY <1>2, TouchedBufs, IoIs
<1> QED BY <1>1, <1>2

LEMMA AddedIo ==
  ASSUME NEW q, NEW v, NEW cmd, NEW b, Queue(q), AddedTo(q, v, cmd, b)
  PROVE  IoOf(v, b) = cmd /\ \A x : x # b => IoOf(v, x) = IoOf(q, x)
<1>0. Queue(v)
  BY DEF AddedTo
<1>1. IoOf(v, b) = cmd
  <2>1. PICK k \in 1 .. Len(v) : b \in Elems(v[k].bufs)
    BY DEF AddedTo
  <2>2. Grown(q, v[k], cmd, b)
    BY <2>1 DEF AddedTo
  <2> QED BY <1>0, <2>1, <2>2, IoIs DEF Grown
<1>2. ASSUME NEW x, x # b PROVE IoOf(v, x) = IoOf(q, x)
  <2>1. CASE InQ(v, x)
    <3>1. PICK k \in 1 .. Len(v) : x \in Elems(v[k].bufs)
      BY <2>1 DEF InQ
    <3>2. \E j \in 1 .. Len(q) : x \in Elems(q[j].bufs) /\ v[k].cmd = q[j].cmd
      <4>1. Old(q, v[k]) \/ Grown(q, v[k], cmd, b)
        BY DEF AddedTo
      <4> QED BY <1>2, <3>1, <4>1 DEF Old, Grown
    <3> QED BY <1>0, <3>1, <3>2, IoIs
  <2>2. CASE ~InQ(v, x)
    <3>1. ~InQ(q, x)
      BY <2>2, AddedBufs
    <3> QED BY <1>0, <2>2, <3>1, IoIs
  <2> QED BY <2>1, <2>2
<1> QED BY <1>1, <1>2

LEMMA EndedIo ==
  ASSUME NEW q, NEW v, Queue(q), HasCur(q), EndedTo(q, v), NEW x
  PROVE  IoOf(v, x) = IF x \in Elems(q[Cur(q)].bufs) THEN "free" ELSE IoOf(q, x)
<1>0. Queue(v) /\ (InQ(v, x) <=> (InQ(q, x) /\ x \notin Elems(q[Cur(q)].bufs)))
  BY EndedBufs DEF EndedTo
<1>1. CASE InQ(v, x)
  <2>1. PICK k \in 1 .. Len(v) : x \in Elems(v[k].bufs)
    BY <1>1 DEF InQ
  <2>2. PICK j \in 1 .. Len(q) : v[k].cmd = q[j].cmd /\ v[k].bufs = q[j].bufs
    BY DEF EndedTo
  <2>3. IoOf(v, x) = v[k].cmd /\ IoOf(q, x) = q[j].cmd
    BY <1>0, <2>1, <2>2, IoIs
  <2> QED BY <1>0, <1>1, <2>2, <2>3
<1>2. CASE ~InQ(v, x)
  BY <1>0, <1>2, IoIs
<1> QED BY <1>1, <1>2

\* A step that leaves the requests of buffers alone.
LEMMA SameAbs ==
  ASSUME AbsIo(reqq') = AbsIo(reqq), AbsState(reqq', bstate') = AbsState(reqq, bstate)
  PROVE  UNCHANGED Abstract!vars
BY AbsIs DEF Abstract!vars

\* A request that ends is a completed transfer.
LEMMA EndCompletes ==
  ASSUME IInv, HasCur(reqq), NEW st \in [Buf -> BStates], EndCurReq(st),
         \A b \in Buf : b \notin Elems(reqq[Cur(reqq)].bufs) => st[b] = bstate[b]
  PROVE  Abstract!Next
<1> USE DEF IInv
<1>1. PICK r \in Req, S \in SUBSET Buf :
        r = reqq[Cur(reqq)] /\ S = Elems(r.bufs) /\ GoodReq(r) /\ Cur(reqq) \in 1 .. Len(reqq)
  BY CurReq
<1>2. S # {}
  <2>1. r.bufs # << >> /\ r.bufs \in Seq(Buf)
    BY <1>1, ReqIs DEF GoodReq
  <2>2. 1 \in 1 .. Len(r.bufs)
    BY ONLY <2>1
  <2> QED BY <1>1, <2>2 DEF Elems
<1>3. EndedTo(reqq, reqq') /\ Queue(reqq')
  BY EndStep
<1>4. \A b : IoOf(reqq', b) = IF b \in S THEN "free" ELSE IoOf(reqq, b)
  BY <1>1, <1>3, EndedIo
<1>5. \A b \in S : IoOf(reqq, b) = r.cmd
  BY <1>1, IoIs
<1>6. \A b \in Buf : bstate'[b] = IF b \notin S THEN bstate[b]
                                  ELSE IF st[b] = "BERROR" THEN "BINVAL" ELSE "BCLEAN"
  BY <1>1 DEF EndCurReq, EndedState
<1>7. PICK bad \in SUBSET S : bad = {b \in S : st[b] = "BERROR"}
  OBVIOUS
<1>8. AbsIo(reqq') = [b \in Buf |-> IF b \in S THEN "free" ELSE AbsIo(reqq)[b]]
  BY <1>4 DEF AbsIo
<1>9. AbsState(reqq', bstate') =
        [b \in Buf |-> IF b \in bad THEN "BINVAL" ELSE IF b \in S THEN "BCLEAN" ELSE AbsState(reqq, bstate)[b]]
  <2> SUFFICES ASSUME NEW b \in Buf
               PROVE  AbsState(reqq', bstate')[b] =
                        IF b \in bad THEN "BINVAL" ELSE IF b \in S THEN "BCLEAN" ELSE AbsState(reqq, bstate)[b]
    BY DEF AbsState
  <2>1. AbsState(reqq', bstate')[b] = IF bstate'[b] # "BERROR" THEN bstate'[b]
                                      ELSE IF IoOf(reqq', b) = "BREAD" THEN "BINVAL" ELSE "BDIRTY"
    BY DEF AbsState
  <2>2. AbsState(reqq, bstate)[b] = IF bstate[b] # "BERROR" THEN bstate[b]
                                    ELSE IF IoOf(reqq, b) = "BREAD" THEN "BINVAL" ELSE "BDIRTY"
    BY DEF AbsState
  <2>3. CASE b \in S
    BY <1>6, <1>7, <2>1, <2>3
  <2>4. CASE b \notin S
    BY <1>4, <1>6, <1>7, <2>1, <2>2, <2>4
  <2> QED BY <2>3, <2>4
<1>10. \E cmd \in {"BREAD", "BWRITE"} : \A b \in S : AbsIo(reqq)[b] = cmd
  <2>1. r.cmd \in {"BREAD", "BWRITE"}
    BY ReqIs
  <2>2. \A b \in S : AbsIo(reqq)[b] = r.cmd
    BY <1>5 DEF AbsIo
  <2> QED BY <2>1, <2>2
<1>11. Abstract!Complete(S)
  BY <1>2, <1>7, <1>8, <1>9, <1>10, AbsIs DEF Abstract!Complete, Abstract!Cmd
<1> QED BY <1>11 DEF Abstract!Next

\* llrwab hands a buffer to the device.
LEMMA LockSubmits ==
  ASSUME IInv, NEW t \in Task, Lock(t)
  PROVE  Abstract!Next \/ UNCHANGED Abstract!vars
<1> USE DEF IInv
<1>1. PICK b \in Buf : /\ b = Head(arr[t].todo) /\ ~locked[b] /\ UNCHANGED bstate
                       /\ Wanted(t, b) => reqq' = AddReq(reqq, op[t], b)
                       /\ ~Wanted(t, b) => UNCHANGED reqq
  <2>1. arr[t].todo # << >> /\ arr' = [arr EXCEPT ![t].todo = Tail(@)]
    BY DEF Lock
  <2>2. Head(arr[t].todo) \in Buf
    BY <2>1, TodoIs
  <2> QED BY <2>2 DEF Lock
<1>2. CASE ~Wanted(t, b)
  BY <1>1, <1>2, SameAbs
<1>3. CASE Wanted(t, b)
  <2>1. PICK cmd \in {"BREAD", "BWRITE"} :
          cmd = op[t] /\ bstate[b] = IF cmd = "BREAD" THEN "BINVAL" ELSE "BDIRTY"
    BY <1>3 DEF TypeOK, Wanted
  <2>2. ~InQ(reqq, b)
    BY <1>1 DEF LocksMatch
  <2>3. AddedTo(reqq, reqq', cmd, b)
    BY <1>1, <1>3, <2>1, <2>2, Added DEF TypeOK
  <2>4. IoOf(reqq', b) = cmd /\ (\A x : x # b => IoOf(reqq', x) = IoOf(reqq, x)) /\ IoOf(reqq, b) = "free"
    BY <2>2, <2>3, AddedIo, IoIs
  <2>5. AbsIo(reqq)[b] = "free" /\ AbsState(reqq, bstate)[b] = IF cmd = "BREAD" THEN "BINVAL" ELSE "BDIRTY"
    BY <2>1, <2>4 DEF AbsIo, AbsState
  <2>6. AbsIo(reqq') = [AbsIo(reqq) EXCEPT ![b] = cmd]
    BY <2>4 DEF AbsIo
  <2>7. AbsState(reqq', bstate') = AbsState(reqq, bstate)
    <3>1. \A x \in Buf : (IF bstate[x] # "BERROR" THEN bstate[x]
                          ELSE IF IoOf(reqq', x) = "BREAD" THEN "BINVAL" ELSE "BDIRTY")
                       = (IF bstate[x] # "BERROR" THEN bstate[x]
                          ELSE IF IoOf(reqq, x) = "BREAD" THEN "BINVAL" ELSE "BDIRTY")
      BY <2>1, <2>4
    <3> QED BY <1>1, <3>1 DEF AbsState
  <2>8. Abstract!Submit(b, cmd)
    BY <2>5, <2>6, <2>7, AbsIs DEF Abstract!Submit
  <2> QED BY <2>8 DEF Abstract!Next, Abstract!Cmd
<1> QED BY <1>2, <1>3

LEMMA ErrorStutters ==
  ASSUME IInv, IsrError
  PROVE  UNCHANGED Abstract!vars
<1> USE DEF IInv
<1>1. PICK r \in Req :
        /\ r = reqq[Cur(reqq)] /\ GoodReq(r) /\ HasCur(reqq) /\ Cur(reqq) \in 1 .. Len(reqq)
        /\ drive.left > 0 /\ drive.left = r.nsect - r.pos
  BY CurReq DEF IsrError, DriveInStep
<1>2. r.pos \in Nat /\ r.nsect \in Nat /\ r.pos < r.nsect
  BY <1>1, ReqIs, BufIs
<1>3. PICK b \in Buf : b = AtBuf(r) /\ b \in Elems(r.bufs)
  BY <1>1, <1>2, AtBufIs
<1>4. bstate' = [bstate EXCEPT ![b] = "BERROR"] /\ reqq' = [reqq EXCEPT ![Cur(reqq)].pos = @ + 1]
  BY <1>1, <1>3 DEF IsrError
<1>5. TouchedTo(reqq, reqq', Cur(reqq)) /\ Queue(reqq')
  <2>1. reqq \in Seq(Req) /\ Queue(reqq) /\ HasCur(reqq) /\ reqq[Cur(reqq)].pos < reqq[Cur(reqq)].nsect
    BY <1>1, <1>2 DEF TypeOK
  <2>2. TouchedTo(reqq, reqq', Cur(reqq))
    BY ONLY <1>4, <2>1, Advance
  <2> QED BY <2>2 DEF TouchedTo
<1>6. \A x : IoOf(reqq', x) = IoOf(reqq, x)
  BY <1>5, TouchedIo
<1>7. IoOf(reqq, b) = r.cmd
  BY <1>1, <1>3, IoIs
<1>8. bstate[b] \in {IF r.cmd = "BREAD" THEN "BINVAL" ELSE "BDIRTY", "BERROR"}
  BY <1>1, <1>3 DEF StatesMatch
<1>9. AbsIo(reqq') = AbsIo(reqq)
  BY <1>6 DEF AbsIo
<1>10. AbsState(reqq', bstate') = AbsState(reqq, bstate)
  <2>1. \A x \in Buf : (IF bstate'[x] # "BERROR" THEN bstate'[x]
                        ELSE IF IoOf(reqq', x) = "BREAD" THEN "BINVAL" ELSE "BDIRTY")
                     = (IF bstate[x] # "BERROR" THEN bstate[x]
                        ELSE IF IoOf(reqq, x) = "BREAD" THEN "BINVAL" ELSE "BDIRTY")
    <3> SUFFICES ASSUME NEW x \in Buf
                 PROVE  (IF bstate'[x] # "BERROR" THEN bstate'[x]
                         ELSE IF IoOf(reqq', x) = "BREAD" THEN "BINVAL" ELSE "BDIRTY")
                      = (IF bstate[x] # "BERROR" THEN bstate[x]
                         ELSE IF IoOf(reqq, x) = "BREAD" THEN "BINVAL" ELSE "BDIRTY")
      OBVIOUS
    <3>1. CASE x = b
      <4>1. bstate'[b] = "BERROR"
        BY <1>4 DEF TypeOK
      <4> QED BY <1>6, <1>7, <1>8, <3>1, <4>1
    <3>2. CASE x # b
      <4>1. bstate'[x] = bstate[x]
        BY <1>4, <3>2 DEF TypeOK
      <4> QED BY <1>6, <4>1
    <3> QED BY <3>1, <3>2
  <2> QED BY <2>1 DEF AbsState
<1> QED BY <1>9, <1>10, SameAbs

LEMMA DirtyDirties ==
  ASSUME IInv, NEW b \in Buf, Dirty(b)
  PROVE  Abstract!Next
<1> USE DEF IInv
<1>1. bstate' = [bstate EXCEPT ![b] = "BDIRTY"] /\ UNCHANGED reqq /\ ~BeingRead(b)
  BY DEF Dirty
<1>2. IoOf(reqq, b) # "BREAD"
  <2>1. CASE InQ(reqq, b)
    <3>1. PICK i \in 1 .. Len(reqq) : b \in Elems(reqq[i].bufs)
      BY <2>1 DEF InQ
    <3>2. IoOf(reqq, b) = reqq[i].cmd
      BY <3>1, IoIs
    <3> QED BY <1>1, <3>1, <3>2 DEF BeingRead
  <2>2. CASE ~InQ(reqq, b)
    BY <2>2 DEF IoOf
  <2> QED BY <2>1, <2>2
<1>3. AbsIo(reqq)[b] # "BREAD" /\ AbsIo(reqq') = AbsIo(reqq)
  BY <1>1, <1>2 DEF AbsIo
<1>4. AbsState(reqq', bstate') = [AbsState(reqq, bstate) EXCEPT ![b] = "BDIRTY"]
  <2>1. bstate'[b] = "BDIRTY" /\ \A x \in Buf : x # b => bstate'[x] = bstate[x]
    BY <1>1 DEF TypeOK
  <2> QED BY <1>1, <2>1 DEF AbsState
<1>5. Abstract!Dirty(b)
  BY <1>3, <1>4, AbsIs DEF Abstract!Dirty
<1> QED BY <1>5 DEF Abstract!Next

LEMMA Simulates ==
  ASSUME IInv, [Next]_vars
  PROVE  [Abstract!Next]_(Abstract!vars)
<1> USE DEF IInv
<1>1. ASSUME UNCHANGED <<reqq, bstate>> PROVE UNCHANGED Abstract!vars
  BY <1>1, SameAbs
<1>2. CASE UNCHANGED vars
  BY <1>1, <1>2 DEF vars, dev
<1>3. CASE DoCurReq
  <2>1. PICK r : r = reqq[Cur(reqq)] /\ HasCur(reqq)
    BY <1>3 DEF DoCurReq, StartsAfresh
  <2>2. CASE InPartition(r)
    BY <1>1, <1>3, <2>1, <2>2 DEF DoCurReq
  <2>3. CASE ~InPartition(r)
    <3> DEFINE st == [b \in Buf |-> IF b \in Elems(r.bufs) THEN "BERROR" ELSE bstate[b]]
    <3>1. EndCurReq(st)
      BY <1>3, <2>1, <2>3 DEF DoCurReq
    <3>2. st \in [Buf -> BStates] /\ \A b \in Buf : b \notin Elems(r.bufs) => st[b] = bstate[b]
      BY DEF TypeOK, BStates
    <3> HIDE DEF st
    <3> QED BY <2>1, <3>1, <3>2, EndCompletes
  <2> QED BY <2>2, <2>3
<1>4. CASE Isr
  <2>1. PICK r : r = reqq[Cur(reqq)] /\ HasCur(reqq) /\ drive.left > 0 /\ drive.left = r.nsect - r.pos
    BY <1>4 DEF Isr, DriveInStep
  <2>2. r.pos < r.nsect
    <3>1. r \in Req
      BY <2>1, CurReq
    <3>2. r.pos \in Nat /\ r.nsect \in Nat
      BY <3>1, ReqIs, BufIs
    <3> QED BY <2>1, <3>2
  <2>3. CASE r.pos + 1 < r.nsect
    <3>1. reqq' = [reqq EXCEPT ![Cur(reqq)].pos = @ + 1] /\ UNCHANGED bstate
      BY <1>4, <2>1, <2>3 DEF Isr
    <3>2. TouchedTo(reqq, reqq', Cur(reqq)) /\ Queue(reqq')
      <4>1. reqq \in Seq(Req) /\ Queue(reqq) /\ HasCur(reqq) /\ reqq[Cur(reqq)].pos < reqq[Cur(reqq)].nsect
        BY <2>1, <2>2 DEF TypeOK
      <4>2. TouchedTo(reqq, reqq', Cur(reqq))
        BY ONLY <3>1, <4>1, Advance
      <4> QED BY <4>2 DEF TouchedTo
    <3>3. \A x : IoOf(reqq', x) = IoOf(reqq, x)
      BY <3>2, TouchedIo
    <3> QED BY <3>1, <3>3, SameAbs DEF AbsIo, AbsState
  <2>4. CASE ~(r.pos + 1 < r.nsect)
    <3>1. EndCurReq(bstate) /\ bstate \in [Buf -> BStates]
      BY <1>4, <2>1, <2>4 DEF Isr, TypeOK, BStates
    <3> QED BY <2>1, <3>1, EndCompletes
  <2> QED BY <2>3, <2>4
<1>5. CASE IsrError
  BY <1>5, ErrorStutters
<1>6. CASE NullIsr
  BY <1>1, <1>6 DEF NullIsr
<1>7. ASSUME NEW t \in Task, DoReq(t) PROVE UNCHANGED Abstract!vars
  <2>1. UNCHANGED bstate
    BY <1>7 DEF DoReq
  <2>2. CASE count[t] = 0 \/ reqq = << >> \/ HasCur(reqq)
    BY <1>1, <1>7, <2>1, <2>2 DEF DoReq
  <2>3. CASE ~(count[t] = 0 \/ reqq = << >> \/ HasCur(reqq))
    <3>1. reqq' = [reqq EXCEPT ![1].cur = TRUE]
      BY <1>7, <2>3 DEF DoReq
    <3>2. TouchedTo(reqq, reqq', 1) /\ Queue(reqq')
      <4>1. reqq \in Seq(Req) /\ Queue(reqq) /\ ~HasCur(reqq) /\ reqq # << >>
        BY <2>3 DEF TypeOK
      <4>2. TouchedTo(reqq, reqq', 1)
        BY ONLY <3>1, <4>1, Started
      <4> QED BY ONLY <4>2 DEF TouchedTo
    <3>3. \A x : IoOf(reqq', x) = IoOf(reqq, x)
      BY <3>2, TouchedIo
    <3> QED BY <2>1, <3>3, SameAbs DEF AbsIo, AbsState
  <2> QED BY <2>2, <2>3
<1>8. ASSUME NEW t \in Task, Wait(t) PROVE UNCHANGED Abstract!vars
  BY <1>1, <1>8 DEF Wait, dev
<1>9. CASE \E t \in Task : TaskStep(t)
  BY <1>7, <1>8, <1>9, LockSubmits DEF TaskStep
<1>10. CASE \E t \in Task, cmd \in {"BREAD", "BWRITE"}, b \in Buf, n \in 1 .. MAXBUFPERIO : Call(t, cmd, b, n)
  BY <1>1, <1>10 DEF Call, dev
<1>11. CASE \E b \in Buf : Dirty(b)
  BY <1>11, DirtyDirties
<1> QED BY <1>2, <1>3, <1>4, <1>5, <1>6, <1>9, <1>10, <1>11 DEF Next, DiskStep

LEMMA InitAbs ==
  ASSUME Init
  PROVE  Abstract!Init
<1>1. reqq = << >> /\ Len(reqq) = 0 /\ bstate = [b \in Buf |-> "BINVAL"]
  BY DEF Init
<1>2. \A b : IoOf(reqq, b) = "free"
  BY <1>1 DEF IoOf, InQ
<1>3. AbsIo(reqq) = [b \in Buf |-> "free"] /\ AbsState(reqq, bstate) = [b \in Buf |-> "BINVAL"]
  BY <1>1, <1>2 DEF AbsIo, AbsState
<1> QED BY <1>3, AbsIs DEF Abstract!Init

\* The queue, its merges, the interrupt-driven transfers and their errors
\* implement BlockIO: a buffer handed to the device stays so until the device
\* gives it back, clean or invalid.
THEOREM BlkDevImplements == Spec => ImplementsBlockIO
<1>1. Init => Abstract!Init
  BY InitAbs
<1>2. IInv /\ [Next]_vars => [Abstract!Next]_(Abstract!vars)
  BY Simulates
<1> QED BY <1>1, <1>2, BlkDevInvariant, PTL DEF Spec, ImplementsBlockIO, Abstract!Spec

----------------------------------------------------------------------------
(* The terminal's input. *)

LEMMA MinIs ==
  ASSUME NEW S \in SUBSET Nat, S # {}
  PROVE  Min(S) \in S /\ \A y \in S : Min(S) <= y
BY LeastOf DEF Min

\* A set of numbers up to n has a largest: n less the smallest distance to n.
LEMMA MaxIs ==
  ASSUME NEW n \in Nat, NEW S \in SUBSET (0 .. n), S # {}
  PROVE  Max(S) \in 0 .. n
<1> DEFINE D == {d \in 0 .. n : n - d \in S}
<1>1. D \in SUBSET Nat
  OBVIOUS
<1>2. D # {}
  <2>1. PICK x \in S : TRUE
    OBVIOUS
  <2>2. x \in 0 .. n /\ n - x \in 0 .. n /\ n - (n - x) = x
    OBVIOUS
  <2> QED BY <2>1, <2>2
<1>3. PICK d \in D : \A e \in D : d <= e
  <2> HIDE DEF D
  <2> QED BY <1>1, <1>2, MinIs
<1>4. n - d \in S /\ d \in 0 .. n
  OBVIOUS
<1>5. ASSUME NEW y \in S PROVE n - d >= y
  <2>1. y \in 0 .. n /\ n - y \in 0 .. n /\ n - (n - y) = y
    OBVIOUS
  <2>2. n - y \in D
    BY <2>1
  <2>3. d <= n - y
    BY <1>3, <2>2
  <2> QED BY <1>4, <2>1, <2>3
<1>6. Max(S) \in S
  <2> HIDE DEF D
  <2> QED BY <1>4, <1>5 DEF Max
<1> QED BY <1>6

RdRec == [kind : {"none", "line", "char"}, len : Nat, n : Nat, timed : BOOLEAN, left : Nat]
\* The reader sleeps exactly while it is in readerq.
InQueue ==
  /\ \A t \in TTask : ttypc[t] = "wait" => t \in Reader /\ readerq = <<t>>
  /\ readerq = << >> \/ \E t \in Reader : readerq = <<t>> /\ ttypc[t] = "wait"
NoEnd(q) == \A i \in 1 .. Len(q) : ~Ends(q[i])
TtyInv ==
  /\ rawq \in Seq(Char) /\ cookedq \in Seq(Char) /\ termios \in TermiosRec
  /\ ttypc \in [TTask -> {"user", "read", "wait", "woken"}]
  /\ rd \in [TTask -> RdRec] /\ \A t \in TTask : rd[t].n <= rd[t].len
  /\ InQueue /\ NoSleepWithLine

LEMMA WithoutNobody ==
  ASSUME NEW S PROVE Without(<< >>, S) = << >>
<1>1. {i \in DOMAIN << >> : << >>[i] \notin S} = {}
  OBVIOUS
<1>2. Cardinality({}) = 0
  BY FS_EmptySet
<1> QED BY <1>1, <1>2 DEF Without

LEMMA WithoutOne ==
  ASSUME NEW S, NEW a PROVE Without(<<a>>, S) = IF a \in S THEN << >> ELSE <<a>>
<1>1. DOMAIN <<a>> = {1} /\ <<a>>[1] = a
  OBVIOUS
<1>2. Cardinality({}) = 0 /\ Cardinality({1}) = 1
  BY FS_EmptySet, FS_Singleton
<1> DEFINE left == {i \in DOMAIN <<a>> : <<a>>[i] \notin S}
           W == [k \in 1 .. Cardinality(left) |->
                   <<a>>[CHOOSE i \in left : Cardinality({j \in left : j <= i}) = k]]
<1>3. Without(<<a>>, S) = W
  BY DEF Without
<1>4. CASE a \in S
  <2>1. left = {}
    BY <1>1, <1>4
  <2>2. 1 .. Cardinality(left) = {}
    BY <1>2, <2>1
  <2>3. W = << >>
    <3> HIDE DEF left
    <3> QED BY <2>2
  <2> QED BY <1>3, <1>4, <2>3
<1>5. CASE a \notin S
  <2>1. left = {1}
    BY <1>1, <1>5
  <2>2. {j \in left : j <= 1} = {1}
    BY <2>1
  <2>3. (CHOOSE i \in left : Cardinality({j \in left : j <= i}) = 1) = 1
    BY <1>2, <2>1, <2>2
  <2>4. W = [k \in 1 .. 1 |-> a]
    BY SMTT(40), <1>1, <1>2, <2>1, <2>3
  <2>5. [k \in 1 .. 1 |-> a] = <<a>>
    OBVIOUS
  <2> QED BY <1>3, <1>5, <2>4, <2>5
<1> QED BY <1>4, <1>5

\* waking some leaves readerq and the sleepers in step.
LEMMA WokenIs ==
  ASSUME TtyInv, NEW S, Woken(S)
  PROVE  /\ ttypc' \in [TTask -> {"user", "read", "wait", "woken"}]
         /\ InQueue'
         /\ \A t \in TTask : ttypc'[t] = "wait" => ttypc[t] = "wait" /\ t \notin S
<1>1. /\ ttypc \in [TTask -> {"user", "read", "wait", "woken"}]
      /\ ttypc' = [t \in TTask |-> IF t \in S \cap ToSet(readerq) THEN "woken" ELSE ttypc[t]]
      /\ readerq' = Without(readerq, S) /\ InQueue
      /\ Reader \subseteq TTask /\ \A t, u \in Reader : t = u
  BY TtyAssumption DEF TtyInv, Woken
<1>2. CASE readerq = << >>
  <2>1. readerq' = << >> /\ \A t \in TTask : ttypc[t] # "wait"
    BY <1>1, <1>2, WithoutNobody DEF InQueue
  <2>2. \A t \in TTask : ttypc'[t] # "wait"
    BY <1>1, <2>1
  <2> QED BY <1>1, <2>1, <2>2 DEF InQueue
<1>3. CASE \E t \in Reader : readerq = <<t>> /\ ttypc[t] = "wait"
  <2>1. PICK a \in Reader : readerq = <<a>> /\ ttypc[a] = "wait"
    BY <1>3
  <2>2. ToSet(readerq) = {a} /\ a \in TTask
    BY <1>1, <2>1 DEF ToSet
  <2>3. readerq' = IF a \in S THEN << >> ELSE <<a>>
    BY <1>1, <2>1, WithoutOne
  <2>4. \A t \in TTask : ttypc[t] = "wait" => t = a
    BY <1>1, <2>1 DEF InQueue
  <2>5. \A t \in TTask : ttypc'[t] = IF t = a /\ a \in S THEN "woken" ELSE ttypc[t]
    BY <1>1, <2>2
  <2>6. ttypc' \in [TTask -> {"user", "read", "wait", "woken"}]
    BY <1>1
  <2>7. \A t \in TTask : ttypc'[t] = "wait" => t = a /\ a \notin S
    BY <2>4, <2>5
  <2>8. a \notin S => ttypc'[a] = "wait"
    BY <2>1, <2>2, <2>5
  <2> QED BY <2>1, <2>3, <2>6, <2>7, <2>8 DEF InQueue
<1> QED BY <1>1, <1>2, <1>3 DEF InQueue

\* If a line ends, the first of readerq is the one who could sleep over it.
LEMMA FirstIs ==
  ASSUME TtyInv, NEW t \in TTask, ttypc[t] = "wait"
  PROVE  t \in FirstReader
<1>1. readerq = <<t>>
  BY DEF TtyInv, InQueue
<1> QED BY <1>1 DEF FirstReader

LEMMA KeptToIs ==
  ASSUME NEW q \in Seq(Char)
  PROVE  /\ KeptTo(q, LAMBDA d : ~Space(d)) \in 0 .. Len(q)
         /\ KeptTo(q, Ends) \in 0 .. Len(q)
         /\ KeptTo(q, LAMBDA d : Ends(d) \/ Space(d)) \in 0 .. Len(q)
<1>1. Len(q) \in Nat
  OBVIOUS
<1>2. Max({0} \cup {i \in 1 .. Len(q) : ~Space(q[i])}) \in 0 .. Len(q)
  <2>1. PICK S : S = {0} \cup {i \in 1 .. Len(q) : ~Space(q[i])}
    OBVIOUS
  <2>2. S \in SUBSET (0 .. Len(q)) /\ S # {}
    BY <1>1, <2>1
  <2> QED BY <1>1, <2>1, <2>2, MaxIs
<1>3. Max({0} \cup {i \in 1 .. Len(q) : Ends(q[i])}) \in 0 .. Len(q)
  <2>1. PICK S : S = {0} \cup {i \in 1 .. Len(q) : Ends(q[i])}
    OBVIOUS
  <2>2. S \in SUBSET (0 .. Len(q)) /\ S # {}
    BY <1>1, <2>1
  <2> QED BY <1>1, <2>1, <2>2, MaxIs
<1>4. Max({0} \cup {i \in 1 .. Len(q) : Ends(q[i]) \/ Space(q[i])}) \in 0 .. Len(q)
  <2>1. PICK S : S = {0} \cup {i \in 1 .. Len(q) : Ends(q[i]) \/ Space(q[i])}
    OBVIOUS
  <2>2. S \in SUBSET (0 .. Len(q)) /\ S # {}
    BY <1>1, <2>1
  <2> QED BY <1>1, <2>1, <2>2, MaxIs
<1> QED BY <1>2, <1>3, <1>4 DEF KeptTo

\* A beginning of q.
LEMMA Beginning ==
  ASSUME NEW q \in Seq(Char), NEW n \in 0 .. Len(q)
  PROVE  /\ SubSeq(q, 1, n) \in Seq(Char)
         /\ NoEnd(q) => NoEnd(SubSeq(q, 1, n))
<1>1. /\ SubSeq(q, 1, n) \in Seq(Char) /\ Len(SubSeq(q, 1, n)) = n
      /\ \A i \in 1 .. n : SubSeq(q, 1, n)[i] = q[i]
  OBVIOUS
<1> QED BY <1>1 DEF NoEnd

LEMMA EditedIs ==
  ASSUME NEW q \in Seq(Char), NEW c \in {"erase", "werase", "kill"}
  PROVE  Edited(q, c) \in Seq(Char) /\ (NoEnd(q) => NoEnd(Edited(q, c)))
<1>1. CASE c = "erase"
  <2>1. CASE q = << >> \/ Ends(Last(q))
    BY <1>1, <2>1 DEF Edited
  <2>2. CASE ~(q = << >> \/ Ends(Last(q)))
    <3>1. Len(q) - 1 \in 0 .. Len(q)
      BY <2>2
    <3>2. Edited(q, c) = SubSeq(q, 1, Len(q) - 1)
      BY <1>1, <2>2 DEF Edited, Front
    <3> QED BY <3>1, <3>2, Beginning
  <2> QED BY <2>1, <2>2
<1>2. CASE c = "kill"
  <2>1. Edited(q, c) = SubSeq(q, 1, KeptTo(q, Ends))
    BY <1>2 DEF Edited
  <2> QED BY <2>1, KeptToIs, Beginning
<1>3. CASE c = "werase"
  <2>1. PICK m : m = KeptTo(q, LAMBDA d : ~Space(d))
    OBVIOUS
  <2>2. PICK r : r = SubSeq(q, 1, m)
    OBVIOUS
  <2>3. PICK k : k = KeptTo(r, LAMBDA d : Ends(d) \/ Space(d))
    OBVIOUS
  <2>4. Edited(q, c) = SubSeq(r, 1, k)
    BY <1>3, <2>1, <2>2, <2>3 DEF Edited
  <2>5. r \in Seq(Char) /\ (NoEnd(q) => NoEnd(r))
    BY <2>1, <2>2, KeptToIs, Beginning
  <2> QED BY <2>3, <2>4, <2>5, KeptToIs, Beginning
<1> QED BY <1>1, <1>2, <1>3

LEMMA TtyInitOK == TtyInit => TtyInv
<1> SUFFICES ASSUME TtyInit PROVE TtyInv
  OBVIOUS
<1>1. \A t \in TTask : ttypc[t] = "user" /\ rd[t] = NoCall
  BY DEF TtyInit
<1>2. InQueue /\ NoSleepWithLine
  BY <1>1 DEF TtyInit, InQueue, NoSleepWithLine
<1>3. NoCall \in RdRec /\ NoCall.n <= NoCall.len
  BY DEF NoCall, RdRec
<1>4. termios \in TermiosRec
  BY DEF TtyInit, TermiosRec
<1> QED BY <1>1, <1>2, <1>3, <1>4 DEF TtyInit, TtyInv

LEMMA TtyStutter ==
  ASSUME TtyInv, UNCHANGED <<cookedq, termios, readerq, ttypc, rd>>, rawq' \in Seq(Char)
  PROVE  TtyInv'
  BY DEF TtyInv, InQueue, NoSleepWithLine

LEMMA KbdisrOK ==
  ASSUME TtyInv, NEW k \in Key, NEW down \in BOOLEAN, Kbdisr(k, down)
  PROVE  TtyInv'
<1>1. rawq \in Seq(Char) /\ Keymap[k] \in KeyRec
  BY TtyAssumption DEF TtyInv
<1>2. Keymap[k].hook = "char" => charkey(k) \in Seq(Char)
  <2> SUFFICES ASSUME Keymap[k].hook = "char" PROVE charkey(k) \in Seq(Char)
    OBVIOUS
  <2>1. /\ Keymap[k].ascii \in Char /\ Keymap[k].shift \in Char /\ Keymap[k].upper \in Char
        /\ Keymap[k].ctrl \in Char \cup {"none"}
    BY <1>1 DEF KeyRec
  <2>2. \A c \in Char : Putc(c) \in Seq(Char)
    BY <1>1 DEF Putc
  <2> QED BY <2>1, <2>2 DEF charkey
<1>3. \A s \in Seq(Char) : stringkey(s) \in Seq(Char)
  BY <1>1 DEF stringkey
<1>4. Keymap[k].hook = "string" => Keymap[k].ascii \in Seq(Char)
  BY <1>1 DEF KeyRec
<1>5. Keymap[k].hook = "numpad" => Keymap[k].unlock \in Seq(Char) /\ <<Keymap[k].lock>> \in Seq(Char)
  BY <1>1 DEF KeyRec
<1>6. Keymap[k].hook = "numpad" => numpadkey(k) \in Seq(Char)
  BY <1>3, <1>5 DEF numpadkey
<1>7. rawq' \in Seq(Char)
  BY <1>1, <1>2, <1>3, <1>4, <1>6 DEF Kbdisr
<1> QED BY <1>7, TtyStutter DEF Kbdisr

LEMMA CookOK ==
  ASSUME TtyInv, Cook
  PROVE  TtyInv'
<1>1. PICK c : c = Head(rawq)
  OBVIOUS
<1>2. PICK d : d = Translated(c)
  OBVIOUS
<1>3. rawq \in Seq(Char) /\ cookedq \in Seq(Char) /\ rawq # << >>
  BY DEF TtyInv, Cook
<1>4. c \in Char /\ d \in Char /\ rawq' \in Seq(Char)
  BY <1>1, <1>2, <1>3, TtyAssumption DEF Translated, Cook
<1>5. CASE c = "lnext" /\ UNCHANGED <<cookedq, ttypc, readerq>>
  BY <1>4, <1>5, TtyStutter DEF Cook
<1>6. CASE Woken(Fg) /\ UNCHANGED cookedq
  <2>1. /\ ttypc' \in [TTask -> {"user", "read", "wait", "woken"}] /\ InQueue'
        /\ \A t \in TTask : ttypc'[t] = "wait" => ttypc[t] = "wait"
    BY <1>6, WokenIs
  <2>2. UNCHANGED <<termios, rd, cookedq>>
    BY <1>6 DEF Cook
  <2> QED BY <1>4, <2>1, <2>2 DEF TtyInv, NoSleepWithLine
<1>7. CASE editchar(c) /\ cookedq' = Edited(cookedq, c) /\ UNCHANGED <<ttypc, readerq>>
  <2>1. c \in {"erase", "werase", "kill"}
    BY <1>7 DEF editchar
  <2>2. cookedq' \in Seq(Char) /\ (NoEnd(cookedq) => NoEnd(cookedq'))
    BY <1>3, <1>7, <2>1, EditedIs
  <2>3. UNCHANGED <<termios, rd, ttypc, readerq>>
    BY <1>7 DEF Cook
  <2>4. NoSleepWithLine'
    BY <2>2, <2>3 DEF TtyInv, NoSleepWithLine, NoEnd
  <2> QED BY <1>4, <2>2, <2>3, <2>4 DEF TtyInv, InQueue
<1>8. CASE cookedq' = Append(cookedq, d) /\ Woken(IF Signals(d) THEN FirstReader ELSE {})
  <2>1. PICK S : S = IF Signals(d) THEN FirstReader ELSE {}
    OBVIOUS
  <2>2. /\ ttypc' \in [TTask -> {"user", "read", "wait", "woken"}] /\ InQueue'
        /\ \A t \in TTask : ttypc'[t] = "wait" => ttypc[t] = "wait" /\ t \notin S
    BY <1>8, <2>1, WokenIs
  <2>3. UNCHANGED <<termios, rd>>
    BY DEF Cook
  <2>4. cookedq' \in Seq(Char) /\ Len(cookedq') = Len(cookedq) + 1 /\ cookedq'[Len(cookedq) + 1] = d
        /\ \A i \in 1 .. Len(cookedq) : cookedq'[i] = cookedq[i]
    BY <1>3, <1>4, <1>8
  <2>5. ASSUME NEW t \in TTask, ttypc'[t] = "wait"
        PROVE  \A i \in 1 .. Len(cookedq') : ~Ends(cookedq'[i])
    <3>1. ttypc[t] = "wait" /\ t \notin S
      BY <2>2, <2>5
    <3>2. ~Signals(d)
      BY <2>1, <3>1, FirstIs
    <3>3. ~Ends(d)
      BY <3>2 DEF Signals
    <3>4. \A i \in 1 .. Len(cookedq) : ~Ends(cookedq[i])
      BY <3>1 DEF TtyInv, NoSleepWithLine
    <3> QED BY <1>3, <2>4, <3>3, <3>4
  <2>6. NoSleepWithLine'
    BY <2>5 DEF NoSleepWithLine
  <2> QED BY <1>4, <2>2, <2>3, <2>4, <2>6 DEF TtyInv
<1> QED BY <1>1, <1>2, <1>5, <1>6, <1>7, <1>8 DEF Cook

\* What the call takes, unless it is enough, is all there is.
LEMMA TakenIs ==
  ASSUME TtyInv, NEW t \in TTask
  PROVE  /\ Taken(t) \in Nat /\ Taken(t) <= Len(cookedq) /\ rd[t].n + Taken(t) <= rd[t].len
         /\ ~Enough(t) => Taken(t) = Len(cookedq)
<1>1. cookedq \in Seq(Char) /\ rd[t] \in RdRec /\ rd[t].n <= rd[t].len
  BY DEF TtyInv
<1>2. Len(cookedq) \in Nat /\ rd[t].len \in Nat /\ rd[t].n \in Nat /\ rd[t].len - rd[t].n \in Nat
  BY <1>1 DEF RdRec
<1>3. PICK room \in Nat : room = rd[t].len - rd[t].n
  BY <1>2
<1>4. PICK E : E = IF rd[t].kind = "line" THEN {i \in 1 .. Len(cookedq) : Ends(cookedq[i])} ELSE {}
  OBVIOUS
<1>5. PICK S : S = {room, Len(cookedq)} \cup E
  OBVIOUS
<1>6. S \in SUBSET Nat /\ S # {}
  BY <1>2, <1>3, <1>4, <1>5
<1>7. PICK m : m = Min(S)
  OBVIOUS
<1>8. m \in S /\ \A y \in S : m <= y
  BY <1>6, <1>7, MinIs
<1>9. Taken(t) = m
  BY <1>3, <1>4, <1>5, <1>7 DEF Taken
<1>10. m \in Nat /\ m <= Len(cookedq) /\ m <= room
  BY <1>5, <1>6, <1>8
<1>11. m = room => Enough(t)
  BY <1>2, <1>3, <1>9 DEF Enough
<1>12. m \in E => Enough(t)
  BY <1>4, <1>9 DEF Enough
<1> QED BY <1>2, <1>3, <1>5, <1>8, <1>9, <1>10, <1>11, <1>12

\* A step of one task that leaves the others where they are.
LEMMA OneTask ==
  ASSUME TtyInv, NEW t \in Reader, NEW p \in {"user", "read"}, NEW r \in RdRec, r.n <= r.len,
         ttypc[t] # "wait", ttypc' = [ttypc EXCEPT ![t] = p], rd' = [rd EXCEPT ![t] = r],
         cookedq' \in Seq(Char), UNCHANGED <<rawq, termios, readerq>>
  PROVE  TtyInv'
<1>1. /\ ttypc \in [TTask -> {"user", "read", "wait", "woken"}] /\ rd \in [TTask -> RdRec]
      /\ t \in TTask /\ InQueue /\ \A u \in Reader : u = t
      /\ rawq \in Seq(Char) /\ termios \in TermiosRec /\ \A u \in TTask : rd[u].n <= rd[u].len
  BY TtyAssumption DEF TtyInv
<1>2. \A u \in TTask : ttypc[u] # "wait"
  BY <1>1 DEF InQueue
<1>3. readerq = << >>
  BY <1>1 DEF InQueue
<1>4. \A u \in TTask : ttypc'[u] # "wait"
  BY <1>1, <1>2
<1>5. InQueue' /\ NoSleepWithLine'
  BY <1>3, <1>4 DEF InQueue, NoSleepWithLine
<1>6. /\ ttypc' \in [TTask -> {"user", "read", "wait", "woken"}] /\ rd' \in [TTask -> RdRec]
      /\ \A u \in TTask : rd'[u].n <= rd'[u].len
  BY <1>1
<1> QED BY <1>1, <1>5, <1>6 DEF TtyInv

LEMMA EnterOK ==
  ASSUME TtyInv, NEW t \in Reader, NEW len \in Lens, Enter(t, len)
  PROVE  TtyInv'
<1>1. PICK r : r = [kind |-> IF termios.icanon THEN "line" ELSE "char", len |-> len, n |-> 0,
                    timed |-> FALSE, left |-> termios.vtime]
  OBVIOUS
<1>2. termios \in TermiosRec /\ len \in Nat /\ cookedq \in Seq(Char)
  BY TtyAssumption DEF TtyInv
<1>3. r \in RdRec /\ r.n <= r.len
  BY <1>1, <1>2 DEF RdRec, TermiosRec
<1>4. /\ ttypc[t] # "wait" /\ ttypc' = [ttypc EXCEPT ![t] = "read"] /\ rd' = [rd EXCEPT ![t] = r]
      /\ cookedq' \in Seq(Char) /\ UNCHANGED <<rawq, termios, readerq>>
  BY <1>1, <1>2 DEF Enter
<1> QED BY <1>3, <1>4, OneTask

LEMMA ReturnOK ==
  ASSUME TtyInv, NEW t \in Reader, ttypc[t] # "wait", Return(t), cookedq' \in Seq(Char),
         UNCHANGED <<rawq, termios>>
  PROVE  TtyInv'
<1>1. NoCall \in RdRec /\ NoCall.n <= NoCall.len
  BY DEF NoCall, RdRec
<1>2. ttypc' = [ttypc EXCEPT ![t] = "user"] /\ rd' = [rd EXCEPT ![t] = NoCall] /\ UNCHANGED readerq
  BY DEF Return
<1> QED BY <1>1, <1>2, OneTask

LEMMA ReadOK ==
  ASSUME TtyInv, NEW t \in Reader, Read(t)
  PROVE  TtyInv'
<1>1. /\ ttypc \in [TTask -> {"user", "read", "wait", "woken"}] /\ rd \in [TTask -> RdRec]
      /\ t \in TTask /\ InQueue /\ (\A u \in Reader : u = t) /\ cookedq \in Seq(Char)
      /\ rawq \in Seq(Char) /\ termios \in TermiosRec /\ \A u \in TTask : rd[u].n <= rd[u].len
  BY TtyAssumption DEF TtyInv
<1>2. PICK k : k = Taken(t)
  OBVIOUS
<1>3. k \in Nat /\ k <= Len(cookedq) /\ rd[t].n + k <= rd[t].len /\ (~Enough(t) => k = Len(cookedq))
  BY <1>1, <1>2, TakenIs
<1>4. ttypc[t] # "wait" /\ cookedq' = SubSeq(cookedq, k + 1, Len(cookedq)) /\ UNCHANGED <<rawq, termios>>
  BY <1>2 DEF Read
<1>5. cookedq' \in Seq(Char)
  BY <1>1, <1>3, <1>4
<1>6. CASE Return(t)
  BY <1>4, <1>5, <1>6, ReturnOK
<1>7. CASE ~Enough(t) /\ ~Return(t)
  <2>1. PICK r : r = [rd[t] EXCEPT !.n = rd[t].n + k, !.timed = Timed(t, rd[t].n + k),
                        !.left = IF k > 0 /\ termios.vmin # 0 THEN termios.vtime ELSE rd[t].left]
    OBVIOUS
  <2>2. /\ ttypc' = [ttypc EXCEPT ![t] = "wait"] /\ readerq' = Append(readerq, t)
        /\ rd' = [rd EXCEPT ![t] = r]
    BY <1>1, <1>2, <1>7, <2>1 DEF Read
  <2>3. rd[t] \in RdRec /\ Timed(t, rd[t].n + k) \in BOOLEAN
    BY <1>1 DEF Timed
  <2>4. r \in RdRec /\ r.n <= r.len
    <3>1. PICK l : l = IF k > 0 /\ termios.vmin # 0 THEN termios.vtime ELSE rd[t].left
      OBVIOUS
    <3>2. l \in Nat /\ rd[t].n + k \in Nat
      BY <1>1, <1>3, <2>3, <3>1 DEF RdRec, TermiosRec
    <3>3. PICK n : n = rd[t].n + k
      OBVIOUS
    <3>4. PICK b : b = Timed(t, rd[t].n + k)
      OBVIOUS
    <3>5. n \in Nat /\ l \in Nat /\ b \in BOOLEAN /\ rd[t] \in RdRec /\ n <= rd[t].len
      BY <1>3, <2>3, <3>2, <3>3, <3>4
    <3>6. r = [rd[t] EXCEPT !.n = n, !.timed = b, !.left = l]
      BY <2>1, <3>1, <3>3, <3>4
    <3>7. r \in RdRec /\ r.n = n /\ r.len = rd[t].len
      BY <3>5, <3>6 DEF RdRec
    <3> QED BY <3>5, <3>7
  <2>5. readerq = << >> /\ \A u \in TTask : ttypc[u] # "wait"
    BY <1>1, <1>4 DEF InQueue
  <2>6. readerq' = <<t>>
    BY <2>2, <2>5
  <2>7. \A u \in TTask : ttypc'[u] = "wait" => u = t
    BY <1>1, <2>2, <2>5
  <2>8. ttypc'[t] = "wait" /\ ttypc' \in [TTask -> {"user", "read", "wait", "woken"}]
    BY <1>1, <2>2
  <2>9. cookedq' = << >>
    BY <1>1, <1>3, <1>4, <1>7
  <2>10. InQueue' /\ NoSleepWithLine'
    BY <2>6, <2>7, <2>8, <2>9 DEF InQueue, NoSleepWithLine
  <2>11. rd' \in [TTask -> RdRec] /\ \A u \in TTask : rd'[u].n <= rd'[u].len
    BY <1>1, <2>2, <2>4
  <2> QED BY <1>1, <1>4, <1>5, <2>8, <2>10, <2>11 DEF TtyInv
<1> QED BY <1>6, <1>7 DEF Read

LEMMA ReadEndsOK ==
  ASSUME TtyInv, NEW t \in Reader, ReadEnds(t)
  PROVE  TtyInv'
<1>1. cookedq \in Seq(Char)
  BY DEF TtyInv
<1>2. cookedq' \in Seq(Char)
  BY <1>1 DEF ReadEnds
<1> QED BY <1>2, ReturnOK DEF ReadEnds

LEMMA WokenOK ==
  ASSUME TtyInv, NEW S, Woken(S), UNCHANGED <<rawq, cookedq, termios>>,
         rd' \in [TTask -> RdRec], \A u \in TTask : rd'[u].n <= rd'[u].len
  PROVE  TtyInv'
<1>1. /\ ttypc' \in [TTask -> {"user", "read", "wait", "woken"}] /\ InQueue'
      /\ \A t \in TTask : ttypc'[t] = "wait" => ttypc[t] = "wait"
  BY WokenIs
<1> QED BY <1>1 DEF TtyInv, NoSleepWithLine

LEMMA ExpireOK ==
  ASSUME TtyInv, NEW t \in Reader, Expire(t)
  PROVE  TtyInv'
<1>1. rd \in [TTask -> RdRec] /\ t \in TTask /\ \A u \in TTask : rd[u].n <= rd[u].len
  BY TtyAssumption DEF TtyInv
<1>2. PICK r : r = [rd[t] EXCEPT !.left = 0]
  OBVIOUS
<1>3. r \in RdRec /\ r.n <= r.len
  BY <1>1, <1>2 DEF RdRec
<1>4. rd' = [rd EXCEPT ![t] = r] /\ Woken({t}) /\ UNCHANGED <<rawq, cookedq, termios>>
  BY <1>2 DEF Expire
<1>5. rd' \in [TTask -> RdRec] /\ \A u \in TTask : rd'[u].n <= rd'[u].len
  BY <1>1, <1>3, <1>4
<1> QED BY <1>4, <1>5, WokenOK

LEMMA PostOK ==
  ASSUME TtyInv, NEW t \in TTask, Post(t)
  PROVE  TtyInv'
<1>1. rd \in [TTask -> RdRec] /\ \A u \in TTask : rd[u].n <= rd[u].len
  BY DEF TtyInv
<1>2. Woken({t}) /\ UNCHANGED <<rawq, cookedq, termios, rd>>
  BY DEF Post
<1> QED BY <1>1, <1>2, WokenOK

LEMMA IoctlOK ==
  ASSUME TtyInv, NEW t \in TTask, NEW ts \in Termios, NEW flush \in BOOLEAN, Ioctl(t, ts, flush)
  PROVE  TtyInv'
<1>1. PICK S : S = IF flush THEN TTask ELSE {}
  OBVIOUS
<1>2. Woken(S) /\ UNCHANGED rd /\ termios' \in TermiosRec
  BY <1>1, TtyAssumption DEF Ioctl
<1>3. /\ ttypc' \in [TTask -> {"user", "read", "wait", "woken"}] /\ InQueue'
      /\ \A u \in TTask : ttypc'[u] = "wait" => ttypc[u] = "wait" /\ u \notin S
  BY <1>2, WokenIs
<1>4. rawq \in Seq(Char) /\ cookedq \in Seq(Char)
  BY DEF TtyInv
<1>5. rawq' \in Seq(Char) /\ cookedq' \in Seq(Char)
  BY <1>4 DEF Ioctl
<1>6. NoSleepWithLine'
  BY <1>1, <1>3 DEF TtyInv, NoSleepWithLine, Ioctl
<1> QED BY <1>2, <1>3, <1>5, <1>6 DEF TtyInv

LEMMA TtyNextOK ==
  ASSUME TtyInv, [TtyNext]_ttyvars
  PROVE  TtyInv'
<1>1. rawq \in Seq(Char)
  BY DEF TtyInv
<1>2. CASE UNCHANGED ttyvars
  BY <1>1, <1>2, TtyStutter DEF ttyvars
<1>3. ASSUME NEW k \in Key, NEW down \in BOOLEAN, Kbdisr(k, down) PROVE TtyInv'
  BY <1>3, KbdisrOK
<1>4. CASE CookBegins
  BY <1>1, <1>4, TtyStutter DEF CookBegins
<1>5. CASE Cook
  BY <1>5, CookOK
<1>6. CASE CookEnds
  BY <1>1, <1>6, TtyStutter DEF CookEnds
<1>7. ASSUME NEW t \in Reader, (\E len \in Lens : Enter(t, len)) \/ Read(t) \/ ReadEnds(t) \/ Expire(t)
      PROVE  TtyInv'
  BY <1>7, EnterOK, ReadOK, ReadEndsOK, ExpireOK
<1>8. ASSUME NEW t \in TTask, Post(t) PROVE TtyInv'
  BY <1>8, PostOK
<1>9. ASSUME NEW t \in TTask, Handle(t) PROVE TtyInv'
  BY <1>1, <1>9, TtyStutter DEF Handle
<1>10. ASSUME NEW t \in TTask \ Reader, NEW ts \in Termios, NEW flush \in BOOLEAN, Ioctl(t, ts, flush)
       PROVE  TtyInv'
  BY <1>10, IoctlOK
<1> QED BY <1>2, <1>3, <1>4, <1>5, <1>6, <1>7, <1>8, <1>9, <1>10 DEF TtyNext

\* The one reader of a terminal never sleeps over a finished line, for any keys,
\* queues and modes: cook()'s readerq.signal() for a line reaches it, and a read
\* that goes to sleep has emptied cookedq.
THEOREM NoSleepOverLine == TtySpec => []NoSleepWithLine
<1>1. TtyInv /\ [TtyNext]_ttyvars => TtyInv'
  BY TtyNextOK
<1>2. TtyInv => NoSleepWithLine
  BY DEF TtyInv
<1> QED BY <1>1, <1>2, TtyInitOK, PTL DEF TtySpec

----------------------------------------------------------------------------
(* The console. *)

Cell == Told \cup {"other", Blank}
Mem == [0 .. Evideo - 1 -> Cell]
State == {"NORMAL", "ESC", "GETPAR", "ESCBRACKET", "ESCBRACE", "ESCNUMBER", "ESCBRACKETQUEST", "none"}
ConRec ==
  [m : Mem, org : Int, cursor : Int, top : {0}, bottom : {NROW}, state : State, npar : 0 .. NPAR,
   par : [0 .. NPAR - 1 -> Nat], aftergetpar : State, saved : Int \X Int]

\* The window lies in the memory, a number of whole lines from its start, and
\* the cursor in the window.
OrgOK(v) ==
  /\ v \in ConRec /\ v.org >= 0 /\ v.org + Page <= Evideo
  /\ \E k \in Nat : v.org = k * NCOL
ConOK(v) == OrgOK(v) /\ v.cursor >= v.org /\ v.cursor < v.org + Page

\* What the terminal shows, and where its cursor is.
Shows(v) == [i \in 0 .. Page - 1 |-> v.m[v.org + i]]
Where(v) == v.cursor - v.org

\* A step of the terminal from v to w.
Upped(p) == [i \in 0 .. Page - 1 |-> IF i < Page - NCOL THEN p[i + NCOL] ELSE Blank]
Moves(v, w) == Shows(w) = Shows(v)
Erases(v, w) ==
  \E i, j \in 0 .. Page - 1 :
    /\ Shows(w) = [k \in 0 .. Page - 1 |-> IF k \in i .. j THEN Blank ELSE Shows(v)[k]]
    /\ Where(w) \in {Where(v), i}
Scrolls(v, w) ==
  /\ Where(v) >= Page - NCOL
  /\ Shows(w) = Upped(Shows(v)) /\ Where(w) \in {Where(v), Page - NCOL}
Prints(v, w) ==
  \E g \in Told \cup {"other"} :
    /\ Shows(w) = IF Where(v) = Page - 1 THEN Upped([Shows(v) EXCEPT ![Where(v)] = g])
                                         ELSE [Shows(v) EXCEPT ![Where(v)] = g]
    /\ Where(w) = IF Where(v) = Page - 1 THEN Page - NCOL ELSE Where(v) + 1
GoodStep(v, w) == ConOK(w) /\ (Moves(v, w) \/ Erases(v, w) \/ Scrolls(v, w) \/ Prints(v, w))

LEMMA Sizes ==
  /\ NCOL \in Nat /\ NCOL > 0 /\ NROW \in Nat /\ NROW > 1
  /\ Page \in Nat /\ Page = NROW * NCOL /\ Page >= NCOL + NCOL
  /\ Evideo \in Nat /\ Evideo >= Page + Page
  /\ (NROW - 1) * NCOL = Page - NCOL /\ (NROW - 2) * NCOL = Page - NCOL - NCOL
<1>1. NCOL \in Nat /\ NCOL > 0 /\ NROW \in Nat /\ NROW > 1 /\ NSCREEN \in Nat /\ NSCREEN > 1
  BY ConAssumption
<1>2. PICK a \in Nat : NROW = a + 2
  BY <1>1
<1>3. PICK b \in Nat : NSCREEN = b + 2
  BY <1>1
<1>4. a * NCOL \in Nat /\ NROW * NCOL = a * NCOL + NCOL + NCOL /\ NROW - 1 = a + 1 /\ NROW - 2 = a
  BY <1>1, <1>2
<1>5. (a + 1) * NCOL = a * NCOL + NCOL
  BY <1>1
<1>6. Page \in Nat /\ Page = NROW * NCOL /\ Page = a * NCOL + NCOL + NCOL
  BY <1>1, <1>4 DEF Page
<1>7. Evideo = Page * NSCREEN
  BY <1>6 DEF Evideo
<1>8. PICK p \in Nat : p = Page
  BY <1>6
<1>9. b * p \in Nat /\ p * (b + 2) = b * p + p + p
  BY <1>8
<1>10. Evideo \in Nat /\ Evideo >= Page + Page
  BY <1>3, <1>7, <1>8, <1>9
<1> QED BY <1>1, <1>4, <1>5, <1>6, <1>10

\* A window that is not at the end of the memory has a line behind it.
LEMMA OrgRoom ==
  ASSUME NEW v, OrgOK(v), v.org + Page # Evideo
  PROVE  v.org + Page + NCOL <= Evideo
<1>1. PICK k \in Nat : v.org = k * NCOL
  BY DEF OrgOK
<1>2. /\ NCOL \in Nat /\ NCOL > 0 /\ NROW \in Nat /\ NSCREEN \in Nat /\ Page = NROW * NCOL
      /\ v.org + Page <= Evideo /\ v.org \in Int
  BY Sizes, ConAssumption DEF OrgOK, ConRec
<1>3. PICK b \in Nat : b = NROW * NSCREEN
  BY <1>2
<1>4. Evideo = b * NCOL
  BY <1>2, <1>3 DEF Evideo
<1>5. PICK a \in Nat : a = k + NROW
  BY <1>2
<1>6. v.org + Page = a * NCOL
  BY <1>1, <1>2, <1>5
<1>7. a < b
  <2>1. ASSUME a >= b PROVE FALSE
    <3>1. PICK c \in Nat : a = b + c
      BY <2>1
    <3>2. a * NCOL = b * NCOL + c * NCOL /\ c * NCOL >= 0
      BY <1>2, <3>1
    <3> QED BY <1>2, <1>4, <1>6, <3>2
  <2> QED BY <2>1
<1>8. PICK c \in Nat : b = a + 1 + c
  BY <1>7
<1>9. b * NCOL = a * NCOL + NCOL + c * NCOL /\ c * NCOL >= 0
  BY <1>2, <1>8
<1>10. a * NCOL \in Int /\ b * NCOL \in Int /\ c * NCOL \in Int
  BY <1>2
<1> QED BY <1>2, <1>4, <1>6, <1>9, <1>10

LEMMA OrgNext ==
  ASSUME NEW k \in Nat
  PROVE  k * NCOL + NCOL = (k + 1) * NCOL
  BY Sizes

\* The row and the column of a place.
LEMMA RowIs ==
  ASSUME NEW o \in Nat, o < Page
  PROVE  /\ o % NCOL \in 0 .. NCOL - 1 /\ o \div NCOL \in 0 .. NROW - 1
         /\ o = (o \div NCOL) * NCOL + (o % NCOL)
         /\ (o \div NCOL) * NCOL \in Nat /\ (o \div NCOL) * NCOL + NCOL <= Page
         /\ o \div NCOL = NROW - 1 <=> o >= Page - NCOL
<1>1. NCOL \in Nat /\ NCOL > 0 /\ NROW \in Nat /\ Page = NROW * NCOL /\ Page \in Nat
  BY Sizes
<1>2. PICK y \in Nat, x \in 0 .. NCOL - 1 : y = o \div NCOL /\ x = o % NCOL /\ o = y * NCOL + x
  BY <1>1, Euclid
<1>3. y < NROW
  <2>1. o < NCOL * NROW
    BY <1>1
  <2> QED BY <1>1, <1>2, <2>1, BlockIs
<1>4. PICK c \in Nat : NROW = y + 1 + c
  BY <1>1, <1>3
<1>5. Page = y * NCOL + NCOL + c * NCOL /\ c * NCOL >= 0 /\ (c > 0 => c * NCOL >= NCOL) /\ y * NCOL \in Nat /\ c * NCOL \in Nat
  BY <1>1, <1>4, Times
<1>6. y = NROW - 1 <=> o >= Page - NCOL
  BY <1>1, <1>2, <1>4, <1>5
<1> QED BY <1>1, <1>2, <1>3, <1>5, <1>6

----------------------------------------------------------------------------
(* The memory. *)

\* The fields that a step changes, and what becomes of the others.
LEMMA SetM ==
  ASSUME NEW v \in ConRec, NEW a \in Mem
  PROVE  LET w == [v EXCEPT !.m = a] IN
         w \in ConRec /\ w.m = a /\ w.org = v.org /\ w.cursor = v.cursor
  BY DEF ConRec
LEMMA SetCursor ==
  ASSUME NEW v \in ConRec, NEW c \in Int
  PROVE  LET w == [v EXCEPT !.cursor = c] IN
         w \in ConRec /\ w.m = v.m /\ w.org = v.org /\ w.cursor = c
  BY DEF ConRec
LEMMA SetOrg ==
  ASSUME NEW v \in ConRec, NEW o \in Int
  PROVE  LET w == [v EXCEPT !.org = o] IN
         w \in ConRec /\ w.m = v.m /\ w.org = o /\ w.cursor = v.cursor
  BY DEF ConRec

LEMMA EraseIs ==
  ASSUME NEW v \in ConRec, NEW from \in Int, NEW to \in Int
  PROVE  LET w == erasechar(v, from, to) IN
         /\ w \in ConRec /\ w.org = v.org /\ w.cursor = v.cursor
         /\ \A i \in 0 .. Evideo - 1 : w.m[i] = IF from <= i /\ i < to THEN Blank ELSE v.m[i]
<1>1. PICK a : a = [i \in 0 .. Evideo - 1 |-> IF i \in from .. to - 1 THEN Blank ELSE v.m[i]]
  OBVIOUS
<1>2. v.m \in Mem /\ Evideo \in Nat
  BY Sizes DEF ConRec
<1>3. a \in Mem
  BY <1>1, <1>2 DEF Mem, Cell
<1>4. \A i \in 0 .. Evideo - 1 : a[i] = IF from <= i /\ i < to THEN Blank ELSE v.m[i]
  BY <1>1, <1>2
<1>5. PICK w : w = [v EXCEPT !.m = a]
  OBVIOUS
<1>6. erasechar(v, from, to) = w
  BY <1>1, <1>5 DEF erasechar
<1>7. w \in ConRec /\ w.m = a /\ w.org = v.org /\ w.cursor = v.cursor
  BY <1>3, <1>5, SetM
<1> QED BY <1>4, <1>6, <1>7

LEMMA MoveIs ==
  ASSUME NEW v \in ConRec, NEW from \in Nat, NEW to \in Nat, NEW n \in Int, from + n <= Evideo
  PROVE  LET w == movechar(v, from, to, n) IN
         /\ w \in ConRec /\ w.org = v.org /\ w.cursor = v.cursor
         /\ \A i \in 0 .. Evideo - 1 :
              w.m[i] = IF to <= i /\ i < to + n THEN v.m[i - to + from] ELSE v.m[i]
<1>1. PICK a : a = [i \in 0 .. Evideo - 1 |-> IF i \in to .. to + n - 1 THEN v.m[i - to + from] ELSE v.m[i]]
  OBVIOUS
<1>2. v.m \in Mem /\ Evideo \in Nat
  BY Sizes DEF ConRec
<1>3. ASSUME NEW i \in 0 .. Evideo - 1, i \in to .. to + n - 1 PROVE i - to + from \in 0 .. Evideo - 1
  BY <1>2, <1>3
<1>4. a \in Mem
  BY <1>1, <1>2, <1>3 DEF Mem
<1>5. \A i \in 0 .. Evideo - 1 : a[i] = IF to <= i /\ i < to + n THEN v.m[i - to + from] ELSE v.m[i]
  BY <1>1, <1>2
<1>6. PICK w : w = [v EXCEPT !.m = a]
  OBVIOUS
<1>7. movechar(v, from, to, n) = w
  BY <1>1, <1>6 DEF movechar
<1>8. w \in ConRec /\ w.m = a /\ w.org = v.org /\ w.cursor = v.cursor
  BY <1>4, <1>6, SetM
<1> QED BY <1>5, <1>7, <1>8

\* Nothing is moved when the places to move to begin at the end or behind it.
LEMMA MoveNothing ==
  ASSUME NEW v \in ConRec, NEW from \in Int, NEW to \in Int, NEW n \in Int, n <= 0
  PROVE  movechar(v, from, to, n) = v
<1>1. \A i : i \notin to .. to + n - 1
  OBVIOUS
<1>2. v.m \in Mem
  BY DEF ConRec
<1>3. [i \in 0 .. Evideo - 1 |-> IF i \in to .. to + n - 1 THEN v.m[i - to + from] ELSE v.m[i]] = v.m
  BY <1>1, <1>2 DEF Mem
<1>4. movechar(v, from, to, n) = [v EXCEPT !.m = v.m]
  BY <1>3 DEF movechar
<1>5. [v EXCEPT !.m = v.m] = v
  BY DEF ConRec
<1> QED BY <1>4, <1>5

\* What is in the window is in the memory.
LEMMA InMemory ==
  ASSUME NEW v, OrgOK(v), NEW i \in 0 .. Page - 1
  PROVE  v.org + i \in 0 .. Evideo - 1 /\ Shows(v)[i] = v.m[v.org + i] /\ v.org \in Int
<1>1. v.org \in Int /\ v.org >= 0 /\ v.org + Page <= Evideo /\ Page \in Nat /\ Evideo \in Nat
  BY Sizes DEF OrgOK, ConRec
<1> QED BY <1>1 DEF Shows

LEMMA SameShown ==
  ASSUME NEW v, OrgOK(v), NEW w, OrgOK(w), \A i \in 0 .. Page - 1 : w.m[w.org + i] = v.m[v.org + i]
  PROVE  Shows(w) = Shows(v)
  BY DEF Shows

\* Erasing from a place of the window on, wherever it ends, is a step of the
\* terminal.
LEMMA ErasedStep ==
  ASSUME NEW v, ConOK(v), NEW from \in Int, NEW to \in Int, v.org <= from, from < v.org + Page
  PROVE  GoodStep(v, erasechar(v, from, to))
<1>1. v \in ConRec /\ OrgOK(v) /\ v.org \in Int /\ v.cursor \in Int /\ Page \in Nat /\ Page > 0
  BY Sizes DEF ConOK, OrgOK, ConRec
<1>2. PICK w : w = erasechar(v, from, to)
  OBVIOUS
<1>3. /\ w \in ConRec /\ w.org = v.org /\ w.cursor = v.cursor
      /\ \A i \in 0 .. Evideo - 1 : w.m[i] = IF from <= i /\ i < to THEN Blank ELSE v.m[i]
  BY <1>1, <1>2, EraseIs
<1>4. ConOK(w) /\ OrgOK(w)
  BY <1>1, <1>3 DEF ConOK, OrgOK
<1>5. \A i \in 0 .. Page - 1 : w.m[w.org + i] = IF from <= v.org + i /\ v.org + i < to THEN Blank ELSE v.m[v.org + i]
  BY <1>1, <1>3, InMemory
<1>6. CASE to <= from
  <2>1. Shows(w) = Shows(v)
    BY <1>1, <1>4, <1>5, <1>6, SameShown
  <2> QED BY <1>2, <1>4, <2>1 DEF GoodStep, Moves
<1>7. CASE to > from
  <2>1. PICK i \in 0 .. Page - 1 : i = from - v.org
    BY <1>1
  <2>2. PICK j : j = IF to <= v.org + Page THEN to - 1 - v.org ELSE Page - 1
    OBVIOUS
  <2>3. j \in 0 .. Page - 1
    BY <1>1, <1>7, <2>2
  <2>4. ASSUME NEW k \in 0 .. Page - 1
        PROVE  (from <= v.org + k /\ v.org + k < to) <=> k \in i .. j
    BY <1>1, <2>1, <2>2, <2>3
  <2>5. Shows(w) = [k \in 0 .. Page - 1 |-> IF k \in i .. j THEN Blank ELSE Shows(v)[k]]
    <3>1. ASSUME NEW k \in 0 .. Page - 1
          PROVE  Shows(w)[k] = IF k \in i .. j THEN Blank ELSE Shows(v)[k]
      <4>1. Shows(w)[k] = w.m[w.org + k] /\ Shows(v)[k] = v.m[v.org + k]
        BY <1>1, <1>4, InMemory
      <4> QED BY <1>5, <2>4, <4>1
    <3> QED BY <3>1 DEF Shows
  <2>6. Where(w) = Where(v)
    BY <1>3 DEF Where
  <2>7. Erases(v, w)
    BY <2>3, <2>5, <2>6 DEF Erases
  <2> QED BY <1>2, <1>4, <2>7 DEF GoodStep
<1> QED BY <1>1, <1>6, <1>7

\* The same memory and window, with the cursor in it.
LEMMA MovedStep ==
  ASSUME NEW v, ConOK(v), NEW w \in ConRec, w.m = v.m, w.org = v.org,
         w.cursor >= v.org, w.cursor < v.org + Page
  PROVE  GoodStep(v, w)
<1>1. OrgOK(v) /\ OrgOK(w) /\ ConOK(w)
  BY DEF ConOK, OrgOK
<1>2. Shows(w) = Shows(v)
  BY <1>1, SameShown
<1> QED BY <1>1, <1>2 DEF GoodStep, Moves

LEMMA GotoIs ==
  ASSUME NEW v, ConOK(v), NEW x \in Int, NEW y \in Int
  PROVE  GoodStep(v, gotoxy(v, x, y))
<1>1. v \in ConRec /\ v.org \in Int /\ v.cursor \in Int
  BY DEF ConOK, OrgOK, ConRec
<1>2. CASE x \in 0 .. NCOL - 1 /\ y \in 0 .. NROW - 1
  <2>1. NCOL \in Nat /\ NROW \in Nat /\ y \in Nat /\ x \in Nat /\ Page \in Nat
    BY <1>2, Sizes
  <2>2. PICK c \in Nat : NROW = y + 1 + c
    BY <1>2, <2>1
  <2>3. Page = y * NCOL + NCOL + c * NCOL /\ c * NCOL \in Nat /\ y * NCOL \in Nat
    BY <2>1, <2>2, Sizes
  <2>4. PICK o : o = v.org + x + y * NCOL
    OBVIOUS
  <2>5. o \in Int /\ o >= v.org /\ o < v.org + Page
    BY <1>1, <1>2, <2>1, <2>3, <2>4
  <2>6. PICK w : w = [v EXCEPT !.cursor = o]
    OBVIOUS
  <2>7. w \in ConRec /\ w.m = v.m /\ w.org = v.org /\ w.cursor = o
    BY <1>1, <2>5, <2>6, SetCursor
  <2>8. gotoxy(v, x, y) = w
    BY <1>2, <2>4, <2>6 DEF gotoxy
  <2> QED BY <2>5, <2>7, <2>8, MovedStep
<1>3. CASE ~(x \in 0 .. NCOL - 1 /\ y \in 0 .. NROW - 1)
  <2>1. gotoxy(v, x, y) = v
    BY <1>3 DEF gotoxy
  <2> QED BY <2>1 DEF GoodStep, Moves
<1> QED BY <1>2, <1>3

----------------------------------------------------------------------------
(* Scrolling. *)

LEMMA CopiedIs ==
  ASSUME NEW v, OrgOK(v)
  PROVE  LET w == Copied(v, 0) IN
         OrgOK(w) /\ w.org = 0 /\ Where(w) = Where(v) /\ Shows(w) = Shows(v)
<1>1. /\ v \in ConRec /\ v.org \in Nat /\ v.cursor \in Int /\ v.org + Page <= Evideo
      /\ Page \in Nat /\ Evideo \in Nat /\ Page <= Evideo
  BY Sizes DEF OrgOK, ConRec
<1>2. PICK u : u = movechar(v, v.org, 0, Page)
  OBVIOUS
<1>3. /\ u \in ConRec
      /\ \A i \in 0 .. Evideo - 1 : u.m[i] = IF 0 <= i /\ i < 0 + Page THEN v.m[i - 0 + v.org] ELSE v.m[i]
  <2>1. PICK f \in Nat, n \in Int, z \in Nat : f = v.org /\ n = Page /\ z = 0
    BY <1>1
  <2>2. v \in ConRec /\ f + n <= Evideo /\ u = movechar(v, f, z, n)
    BY <1>1, <1>2, <2>1
  <2>3. /\ u \in ConRec
        /\ \A i \in 0 .. Evideo - 1 : u.m[i] = IF z <= i /\ i < z + n THEN v.m[i - z + f] ELSE v.m[i]
    BY <2>2, MoveIs
  <2> QED BY <2>1, <2>3
<1>4. PICK c \in Int : c = 0 + (v.cursor - v.org)
  BY <1>1
<1>5. PICK w : w = [u EXCEPT !.cursor = c, !.org = 0]
  OBVIOUS
<1>6. Copied(v, 0) = w
  BY <1>2, <1>4, <1>5 DEF Copied
<1>7. w \in ConRec /\ w.m = u.m /\ w.org = 0 /\ w.cursor = c
  <2>1. PICK z \in Int : z = 0
    OBVIOUS
  <2>2. u \in ConRec /\ w = [u EXCEPT !.cursor = c, !.org = z]
    BY <1>3, <1>5, <2>1
  <2>3. w \in ConRec /\ w.m = u.m /\ w.org = z /\ w.cursor = c
    BY <2>2 DEF ConRec
  <2> QED BY <2>1, <2>3
<1>8. 0 = 0 * NCOL
  BY Sizes
<1>9. OrgOK(w)
  BY <1>1, <1>7, <1>8 DEF OrgOK
<1>10. Where(w) = Where(v)
  BY <1>1, <1>4, <1>7 DEF Where
<1>11. ASSUME NEW i \in 0 .. Page - 1 PROVE w.m[w.org + i] = v.m[v.org + i]
  BY <1>1, <1>3, <1>7
<1>12. Shows(w) = Shows(v)
  BY <1>9, <1>11, SameShown
<1> QED BY <1>6, <1>7, <1>9, <1>10, <1>12

\* Scrolling moves the page up by a line, the cursor with it.
LEMMA ScrollIs ==
  ASSUME NEW v, OrgOK(v)
  PROVE  LET w == scrollup(v) IN
         OrgOK(w) /\ Where(w) = Where(v) - NCOL /\ Shows(w) = Upped(Shows(v))
<1>1. NCOL \in Nat /\ Page \in Nat /\ Evideo \in Nat /\ Evideo >= Page + Page /\ Page >= NCOL + NCOL /\ NCOL > 0
  BY Sizes
<1>2. v \in ConRec /\ Whole(v) /\ v.org \in Int /\ v.cursor \in Int
  BY DEF OrgOK, ConRec, Whole
<1>3. PICK u : u = IF Eorg(v) = Evideo THEN Copied(v, 0) ELSE v
  OBVIOUS
<1>4. OrgOK(u) /\ Where(u) = Where(v) /\ Shows(u) = Shows(v) /\ u.org + Page + NCOL <= Evideo
  <2>1. CASE Eorg(v) = Evideo
    <3>1. u = Copied(v, 0)
      BY <1>3, <2>1
    <3>2. OrgOK(u) /\ u.org = 0 /\ Where(u) = Where(v) /\ Shows(u) = Shows(v)
      BY <3>1, CopiedIs
    <3> QED BY <1>1, <3>2
  <2>2. CASE Eorg(v) # Evideo
    <3>1. u = v
      BY <1>3, <2>2
    <3>2. v.org + Page + NCOL <= Evideo
      BY <2>2, OrgRoom DEF Eorg
    <3> QED BY <3>1, <3>2
  <2> QED BY <2>1, <2>2
<1>5. u \in ConRec /\ u.org \in Int /\ u.org >= 0 /\ u.cursor \in Int
  BY <1>4 DEF OrgOK, ConRec
<1>6. PICK k \in Nat : u.org = k * NCOL
  BY <1>4 DEF OrgOK
<1>7. PICK o \in Int : o = u.org + NCOL
  BY <1>1, <1>5
<1>8. o = (k + 1) * NCOL /\ k + 1 \in Nat
  BY <1>6, <1>7, OrgNext
<1>9. PICK s : s = [u EXCEPT !.org = o]
  OBVIOUS
<1>10. s \in ConRec /\ s.m = u.m /\ s.org = o /\ s.cursor = u.cursor
  BY <1>5, <1>7, <1>9, SetOrg
<1>11. s = Slid(u, NCOL)
  BY <1>7, <1>9 DEF Slid
<1>12. PICK from \in Int, to \in Int : from = Eorg(s) - NCOL /\ to = Eorg(s)
  BY <1>1, <1>10 DEF Eorg
<1>13. PICK w : w = erasechar(s, from, to)
  OBVIOUS
<1>14. scrollup(v) = w
  BY <1>2, <1>3, <1>11, <1>12, <1>13 DEF scrollup
<1>15. /\ w \in ConRec /\ w.org = o /\ w.cursor = u.cursor
       /\ \A i \in 0 .. Evideo - 1 : w.m[i] = IF from <= i /\ i < to THEN Blank ELSE u.m[i]
  <2>1. /\ w \in ConRec /\ w.org = s.org /\ w.cursor = s.cursor
        /\ \A i \in 0 .. Evideo - 1 : w.m[i] = IF from <= i /\ i < to THEN Blank ELSE s.m[i]
    BY <1>10, <1>13, EraseIs
  <2> QED BY <1>10, <2>1
<1>16. from = o + Page - NCOL /\ to = o + Page
  BY <1>1, <1>10, <1>12 DEF Eorg
<1>17. OrgOK(w)
  <2>1. w.org >= 0 /\ w.org + Page <= Evideo
    BY <1>1, <1>4, <1>5, <1>7, <1>15
  <2>2. w \in ConRec /\ w.org = (k + 1) * NCOL /\ k + 1 \in Nat
    BY <1>8, <1>15
  <2> QED BY <2>1, <2>2 DEF OrgOK
<1>18. Where(w) = Where(v) - NCOL
  BY <1>1, <1>2, <1>4, <1>5, <1>7, <1>15 DEF Where
<1>19. ASSUME NEW i \in 0 .. Page - 1
       PROVE  Shows(w)[i] = IF i < Page - NCOL THEN Shows(v)[i + NCOL] ELSE Blank
  <2>1. Shows(w)[i] = w.m[w.org + i] /\ w.org + i \in 0 .. Evideo - 1
    BY <1>17, InMemory
  <2>2. CASE i < Page - NCOL
    <3>1. i + NCOL \in 0 .. Page - 1
      BY <1>1, <2>2
    <3>2. Shows(u)[i + NCOL] = u.m[u.org + (i + NCOL)]
      BY <1>4, <3>1, InMemory
    <3>3. u.org + (i + NCOL) = o + i /\ ~(from <= o + i)
      BY <1>1, <1>5, <1>7, <1>16, <2>2
    <3> QED BY <1>4, <1>15, <2>1, <2>2, <3>2, <3>3
  <2>3. CASE i >= Page - NCOL
    <3>1. from <= o + i /\ o + i < to
      BY <1>1, <1>16, <2>3
    <3> QED BY <1>1, <1>15, <2>1, <2>3, <3>1
  <2> QED BY <1>1, <2>2, <2>3
<1>20. Shows(w) = Upped(Shows(v))
  BY <1>19 DEF Shows, Upped
<1> QED BY <1>14, <1>17, <1>18, <1>20

\* The line and the column of the cursor.
LEMMA CursorIs ==
  ASSUME NEW v, ConOK(v)
  PROVE  /\ v \in ConRec /\ v.org \in Int /\ v.cursor \in Int
         /\ Where(v) \in 0 .. Page - 1 /\ v.cursor = v.org + Where(v)
         /\ Curx(v) \in 0 .. NCOL - 1 /\ Cury(v) \in 0 .. NROW - 1
         /\ Currow(v) \in Int /\ Currow(v) = v.cursor - Curx(v) /\ Currow(v) = v.org + Cury(v) * NCOL
         /\ v.org <= Currow(v) /\ Ecurrow(v) = Currow(v) + NCOL /\ Ecurrow(v) <= v.org + Page
         /\ Lastrow(v) <=> Where(v) >= Page - NCOL
<1>1. v \in ConRec /\ v.org \in Int /\ v.cursor \in Int /\ Page \in Nat /\ NCOL \in Nat
  BY Sizes DEF ConOK, OrgOK, ConRec
<1>2. PICK o \in Nat : o = v.cursor - v.org /\ o < Page
  BY <1>1 DEF ConOK
<1>3. /\ o % NCOL \in 0 .. NCOL - 1 /\ o \div NCOL \in 0 .. NROW - 1
      /\ o = (o \div NCOL) * NCOL + (o % NCOL)
      /\ (o \div NCOL) * NCOL \in Nat /\ (o \div NCOL) * NCOL + NCOL <= Page
      /\ o \div NCOL = NROW - 1 <=> o >= Page - NCOL
  BY <1>2, RowIs
<1>4. PICK x, y, l : x = o % NCOL /\ y = o \div NCOL /\ l = y * NCOL
  OBVIOUS
<1>5. /\ x \in 0 .. NCOL - 1 /\ y \in 0 .. NROW - 1 /\ o = l + x /\ l \in Nat /\ l + NCOL <= Page
      /\ y = NROW - 1 <=> o >= Page - NCOL
  BY <1>3, <1>4
<1>6. Curx(v) = x /\ Cury(v) = y /\ Where(v) = o
  BY <1>2, <1>4 DEF Curx, Cury, Where
<1>7. Currow(v) = v.cursor - x /\ Ecurrow(v) = Currow(v) + NCOL
  BY <1>6 DEF Currow, Ecurrow
<1>8. Currow(v) = v.org + l
  BY <1>1, <1>2, <1>5, <1>7
<1>9. Lastrow(v) <=> o >= Page - NCOL
  BY <1>5, <1>6 DEF Lastrow
<1>10. /\ Where(v) \in 0 .. Page - 1 /\ v.cursor = v.org + Where(v) /\ Currow(v) \in Int
       /\ v.org <= Currow(v) /\ Ecurrow(v) <= v.org + Page
  BY <1>1, <1>2, <1>5, <1>6, <1>7, <1>8
<1>11. Currow(v) = v.cursor - Curx(v) /\ Currow(v) = v.org + Cury(v) * NCOL
  BY <1>4, <1>6, <1>7, <1>8
<1>12. Lastrow(v) <=> Where(v) >= Page - NCOL
  BY <1>6, <1>9
<1> QED BY <1>1, <1>5, <1>6, <1>7, <1>10, <1>11, <1>12

\* Down by a line, or the page up by one.
LEMMA LineFeedStep ==
  ASSUME NEW v, ConOK(v)
  PROVE  GoodStep(v, Advanced(AfterScroll(v), NCOL))
<1>1. /\ v \in ConRec /\ v.org \in Int /\ v.cursor \in Int /\ OrgOK(v)
      /\ Where(v) \in 0 .. Page - 1 /\ v.cursor = v.org + Where(v)
      /\ Lastrow(v) <=> Where(v) >= Page - NCOL
  BY CursorIs DEF ConOK
<1>2. NCOL \in Nat /\ Page \in Nat /\ Page >= NCOL + NCOL
  BY Sizes
<1>3. CASE Lastrow(v)
  <2>1. PICK u : u = scrollup(v)
    OBVIOUS
  <2>2. OrgOK(u) /\ Where(u) = Where(v) - NCOL /\ Shows(u) = Upped(Shows(v))
    BY <1>1, <2>1, ScrollIs
  <2>3. u \in ConRec /\ u.org \in Int /\ u.cursor \in Int
    BY <2>2 DEF OrgOK, ConRec
  <2>4. PICK c \in Int : c = u.cursor + NCOL
    BY <1>2, <2>3
  <2>5. PICK w : w = [u EXCEPT !.cursor = c]
    OBVIOUS
  <2>6. w \in ConRec /\ w.m = u.m /\ w.org = u.org /\ w.cursor = c
    BY <2>3, <2>5, SetCursor
  <2>7. Advanced(AfterScroll(v), NCOL) = w
    BY <1>3, <2>1, <2>4, <2>5 DEF Advanced, AfterScroll
  <2>8. Where(w) = Where(v) /\ Shows(w) = Shows(u)
    <3>1. Where(w) = Where(u) + NCOL
      BY <1>2, <2>3, <2>4, <2>6 DEF Where
    <3>2. Shows(w) = Shows(u)
      BY <2>6 DEF Shows
    <3> QED BY <1>1, <1>2, <2>2, <3>1, <3>2
  <2>9. OrgOK(w)
    BY <2>2, <2>6 DEF OrgOK
  <2>10. ConOK(w)
    BY <1>1, <1>2, <2>3, <2>6, <2>8, <2>9 DEF ConOK, Where
  <2>11. Scrolls(v, w)
    BY <1>1, <1>3, <2>2, <2>8 DEF Scrolls
  <2> QED BY <2>7, <2>10, <2>11 DEF GoodStep
<1>4. CASE ~Lastrow(v)
  <2>1. PICK c \in Int : c = v.cursor + NCOL
    BY <1>1, <1>2
  <2>2. PICK w : w = [v EXCEPT !.cursor = c]
    OBVIOUS
  <2>3. w \in ConRec /\ w.m = v.m /\ w.org = v.org /\ w.cursor = c
    BY <1>1, <2>2, SetCursor
  <2>4. Advanced(AfterScroll(v), NCOL) = w
    BY <1>4, <2>1, <2>2 DEF Advanced, AfterScroll
  <2>5. c >= v.org /\ c < v.org + Page
    BY <1>1, <1>2, <1>4, <2>1
  <2> QED BY <2>3, <2>4, <2>5, MovedStep
<1> QED BY <1>3, <1>4

\* The same, and to the start of the line.
LEMMA NextLineStep ==
  ASSUME NEW v, ConOK(v)
  PROVE  LET u == AfterScroll(v) IN GoodStep(v, [u EXCEPT !.cursor = Ecurrow(u)])
<1>1. /\ v \in ConRec /\ v.org \in Int /\ v.cursor \in Int /\ OrgOK(v)
      /\ Where(v) \in 0 .. Page - 1 /\ v.cursor = v.org + Where(v)
      /\ Curx(v) \in 0 .. NCOL - 1 /\ Currow(v) \in Int
      /\ Currow(v) = v.cursor - Curx(v) /\ Ecurrow(v) = Currow(v) + NCOL /\ v.org <= Currow(v)
      /\ Lastrow(v) <=> Where(v) >= Page - NCOL
  BY CursorIs DEF ConOK
<1>2. NCOL \in Nat /\ Page \in Nat /\ Page >= NCOL + NCOL /\ NCOL > 0
  BY Sizes
<1>3. CASE Lastrow(v)
  <2>1. PICK u : u = scrollup(v)
    OBVIOUS
  <2>2. OrgOK(u) /\ Where(u) = Where(v) - NCOL /\ Shows(u) = Upped(Shows(v))
    BY <1>1, <2>1, ScrollIs
  <2>3. u \in ConRec /\ u.org \in Int /\ u.cursor \in Int /\ u.cursor = u.org + Where(u)
    BY <2>2 DEF OrgOK, ConRec, Where
  <2>4. ConOK(u)
    BY <1>1, <1>2, <1>3, <2>2, <2>3 DEF ConOK
  <2>5. Ecurrow(u) = u.org + (Page - NCOL)
    <3>1. /\ Curx(u) \in 0 .. NCOL - 1 /\ Cury(u) \in 0 .. NROW - 1 /\ u.cursor = u.org + Where(u)
          /\ Where(u) \in Int
          /\ Currow(u) = u.cursor - Curx(u) /\ Currow(u) = u.org + Cury(u) * NCOL
          /\ Ecurrow(u) = Currow(u) + NCOL
      BY <2>4, CursorIs
    <3>2. /\ Where(u) = Cury(u) * NCOL + Curx(u) /\ Cury(u) * NCOL \in Int /\ Cury(u) \in Nat
      <4>1. PICK x \in Nat, y \in Nat, l \in Int : x = Curx(u) /\ y = Cury(u) /\ l = y * NCOL
        BY <1>2, <3>1
      <4>2. u.cursor - x = u.org + l /\ u.cursor = u.org + Where(u)
        BY <3>1, <4>1
      <4> QED BY <2>3, <3>1, <4>1, <4>2
    <3>3. PICK o \in Nat, y \in Nat, x \in 0 .. NCOL - 1, r \in Int :
            o = Where(u) /\ y = Cury(u) /\ x = Curx(u) /\ r = NROW - 2
      BY <2>4, <3>1, <3>2, CursorIs, Sizes
    <3>4. r * NCOL = Page - NCOL - NCOL /\ o = y * NCOL + x /\ o >= r * NCOL /\ o < r * NCOL + NCOL /\ r \in Nat
      BY <1>1, <1>2, <1>3, <2>2, <3>2, <3>3, Sizes
    <3>5. y = r
      <4>1. ASSUME y < r PROVE FALSE
        <5>1. PICK d \in Nat : r = y + 1 + d
          BY <3>4, <4>1
        <5>2. r * NCOL = y * NCOL + NCOL + d * NCOL /\ d * NCOL >= 0 /\ d * NCOL \in Int /\ y * NCOL \in Int
          BY <1>2, <5>1
        <5> QED BY <1>2, <3>3, <3>4, <5>2
      <4>2. ASSUME y > r PROVE FALSE
        <5>1. PICK d \in Nat : y = r + 1 + d
          BY <3>4, <4>2
        <5>2. y * NCOL = r * NCOL + NCOL + d * NCOL /\ d * NCOL >= 0 /\ d * NCOL \in Int /\ r * NCOL \in Int
          BY <1>2, <3>4, <5>1
        <5> QED BY <1>2, <3>3, <3>4, <5>2
      <4> QED BY <3>4, <4>1, <4>2
    <3> QED BY <1>2, <2>3, <3>1, <3>3, <3>4, <3>5
  <2>6. PICK c \in Int : c = Ecurrow(u)
    BY <1>2, <2>3, <2>5
  <2>7. PICK w : w = [u EXCEPT !.cursor = c]
    OBVIOUS
  <2>8. w \in ConRec /\ w.m = u.m /\ w.org = u.org /\ w.cursor = c
    BY <2>3, <2>7, SetCursor
  <2>9. AfterScroll(v) = u
    BY <1>3, <2>1 DEF AfterScroll
  <2>10. Where(w) = Page - NCOL /\ Shows(w) = Shows(u)
    BY <1>2, <2>3, <2>5, <2>6, <2>8 DEF Where, Shows
  <2>11. OrgOK(w)
    BY <2>2, <2>8 DEF OrgOK
  <2>12. ConOK(w)
    BY <1>2, <2>3, <2>5, <2>6, <2>8, <2>11 DEF ConOK
  <2>13. Scrolls(v, w)
    BY <1>1, <1>3, <2>2, <2>10 DEF Scrolls
  <2> QED BY <2>6, <2>7, <2>9, <2>12, <2>13 DEF GoodStep
<1>4. CASE ~Lastrow(v)
  <2>1. PICK c \in Int : c = Ecurrow(v)
    BY <1>1, <1>2
  <2>2. PICK w : w = [v EXCEPT !.cursor = c]
    OBVIOUS
  <2>3. w \in ConRec /\ w.m = v.m /\ w.org = v.org /\ w.cursor = c
    BY <1>1, <2>2, SetCursor
  <2>4. AfterScroll(v) = v
    BY <1>4 DEF AfterScroll
  <2>5. c >= v.org /\ c < v.org + Page
    BY <1>1, <1>2, <1>4, <2>1
  <2>6. GoodStep(v, w)
    BY <2>3, <2>5, MovedStep
  <2> QED BY <2>1, <2>2, <2>4, <2>6
<1> QED BY <1>3, <1>4

----------------------------------------------------------------------------
(* The characters. *)

LEMMA LesserOf ==
  ASSUME NEW a \in Int, NEW b \in Int
  PROVE  Min({a, b}) = IF a <= b THEN a ELSE b
<1>1. PICK x \in {a, b} : \A y \in {a, b} : x <= y
  OBVIOUS
<1>2. Min({a, b}) \in {a, b} /\ \A y \in {a, b} : Min({a, b}) <= y
  BY <1>1 DEF Min
<1> QED BY <1>2
LEMMA GreaterOf ==
  ASSUME NEW a \in Int, NEW b \in Int
  PROVE  Max({a, b}) = IF a >= b THEN a ELSE b
<1>1. PICK x \in {a, b} : \A y \in {a, b} : x >= y
  OBVIOUS
<1>2. Max({a, b}) \in {a, b} /\ \A y \in {a, b} : Max({a, b}) >= y
  BY <1>1 DEF Max
<1> QED BY <1>2

\* At least n is inserted, or taken out, since n is not zero.
LEMMA CountIs ==
  ASSUME NEW p \in Nat, NEW n \in Nat, n > 0
  PROVE  Count(p, n) = n
<1>1. PICK m \in Int : m = Min({1, p}) /\ m <= 1
  BY LesserOf
<1>2. Max({m, n}) = n
  BY <1>1, GreaterOf
<1> QED BY <1>1, <1>2 DEF Count

\* A cell of the window is set.
LEMMA CellIs ==
  ASSUME NEW v, ConOK(v), NEW o \in 0 .. Page - 1, NEW a, a = v.org + o, NEW g \in Cell
  PROVE  LET w == [v EXCEPT !.m[a] = g] IN
         /\ w \in ConRec /\ w.org = v.org /\ w.cursor = v.cursor /\ OrgOK(w)
         /\ Shows(w) = [Shows(v) EXCEPT ![o] = g]
<1>1. OrgOK(v) /\ v \in ConRec /\ v.m \in Mem /\ v.org \in Int /\ Page \in Nat
  BY Sizes DEF ConOK, OrgOK, ConRec
<1>2. a \in 0 .. Evideo - 1
  BY <1>1, InMemory
<1>3. PICK b : b = [v.m EXCEPT ![a] = g]
  OBVIOUS
<1>4. b \in Mem /\ \A i \in 0 .. Evideo - 1 : b[i] = IF i = a THEN g ELSE v.m[i]
  BY <1>1, <1>2, <1>3 DEF Mem
<1>5. PICK w : w = [v EXCEPT !.m = b]
  OBVIOUS
<1>6. w = [v EXCEPT !.m[a] = g]
  BY <1>3, <1>5
<1>7. w \in ConRec /\ w.m = b /\ w.org = v.org /\ w.cursor = v.cursor
  BY <1>1, <1>4, <1>5, SetM
<1>8. OrgOK(w)
  BY <1>1, <1>7 DEF OrgOK
<1>9. ASSUME NEW i \in 0 .. Page - 1 PROVE Shows(w)[i] = IF i = o THEN g ELSE Shows(v)[i]
  <2>1. v.org + i \in 0 .. Evideo - 1 /\ Shows(v)[i] = v.m[v.org + i] /\ Shows(w)[i] = w.m[w.org + i]
    BY <1>1, <1>8, InMemory
  <2>2. v.org + i = a <=> i = o
    BY <1>1
  <2> QED BY <1>4, <1>7, <2>1, <2>2
<1>10. Shows(w) = [Shows(v) EXCEPT ![o] = g]
  BY <1>9 DEF Shows
<1> QED BY <1>6, <1>7, <1>8, <1>10

LEMMA PrintStep ==
  ASSUME NEW v, ConOK(v), NEW c
  PROVE  LET w == Advanced([v EXCEPT !.m[v.cursor] = Shown(c)], 1)
         IN  GoodStep(v, IF w.cursor = Eorg(w) THEN scrollup(w) ELSE w)
<1>1. /\ v.org \in Int /\ v.cursor \in Int /\ Where(v) \in 0 .. Page - 1 /\ v.cursor = v.org + Where(v)
      /\ Page \in Nat /\ NCOL \in Nat /\ NCOL > 0 /\ Page >= NCOL + NCOL
  BY CursorIs, Sizes
<1>2. PICK g : g = Shown(c)
  OBVIOUS
<1>3. g \in Told \cup {"other"} /\ g \in Cell
  BY <1>2 DEF Shown, Cell
<1>4. PICK u : u = [v EXCEPT !.m[v.cursor] = g]
  OBVIOUS
<1>5. PICK o \in 0 .. Page - 1, a \in Int : o = Where(v) /\ a = v.cursor
  BY <1>1
<1>6. a = v.org + o /\ u = [v EXCEPT !.m[a] = g]
  BY <1>1, <1>4, <1>5
<1>7. u \in ConRec /\ u.org = v.org /\ u.cursor = v.cursor /\ OrgOK(u) /\ Shows(u) = [Shows(v) EXCEPT ![o] = g]
  BY <1>3, <1>6, CellIs
<1>8. PICK d \in Int : d = u.cursor + 1
  BY <1>1, <1>7
<1>9. PICK w : w = [u EXCEPT !.cursor = d]
  OBVIOUS
<1>10. w \in ConRec /\ w.m = u.m /\ w.org = u.org /\ w.cursor = d
  BY <1>7, <1>9, SetCursor
<1>11. w = Advanced([v EXCEPT !.m[v.cursor] = Shown(c)], 1)
  BY <1>2, <1>4, <1>8, <1>9 DEF Advanced
<1>12. OrgOK(w)
  BY <1>7, <1>10 DEF OrgOK
<1>13. Shows(w) = [Shows(v) EXCEPT ![o] = g]
  BY <1>7, <1>10 DEF Shows
<1>14. Where(w) = o + 1
  BY <1>1, <1>5, <1>7, <1>8, <1>10 DEF Where
<1>15. w.cursor = Eorg(w) <=> o = Page - 1
  BY <1>1, <1>5, <1>7, <1>8, <1>10 DEF Eorg
<1>16. CASE o = Page - 1
  <2>1. PICK x : x = scrollup(w)
    OBVIOUS
  <2>2. OrgOK(x) /\ Where(x) = Where(w) - NCOL /\ Shows(x) = Upped(Shows(w))
    BY <1>12, <2>1, ScrollIs
  <2>3. Where(x) = Page - NCOL
    BY <1>1, <1>14, <1>16, <2>2
  <2>4. x.org \in Int /\ x.cursor \in Int
    BY <2>2 DEF OrgOK, ConRec
  <2>5. ConOK(x)
    BY <1>1, <2>2, <2>3, <2>4 DEF ConOK, Where
  <2>6. Shows(x) = Upped([Shows(v) EXCEPT ![Where(v)] = g])
    BY <1>5, <1>13, <2>2
  <2>7. Prints(v, x)
    BY <1>3, <1>5, <1>16, <2>3, <2>6 DEF Prints
  <2> QED BY <1>11, <1>15, <1>16, <2>1, <2>5, <2>7 DEF GoodStep
<1>17. CASE o # Page - 1
  <2>1. ConOK(w)
    BY <1>1, <1>5, <1>7, <1>8, <1>10, <1>12, <1>17 DEF ConOK
  <2>2. Prints(v, w)
    BY <1>3, <1>5, <1>13, <1>14, <1>17 DEF Prints
  <2> QED BY <1>11, <1>15, <1>17, <2>1, <2>2 DEF GoodStep
<1> QED BY <1>16, <1>17

LEMMA DeleteStep ==
  ASSUME NEW v, ConOK(v), Curx(v) # 0
  PROVE  GoodStep(v, Advanced([v EXCEPT !.m[v.cursor - 1] = Blank], -1))
<1>1. /\ v.org \in Int /\ v.cursor \in Int /\ Where(v) \in 0 .. Page - 1 /\ v.cursor = v.org + Where(v)
      /\ Page \in Nat /\ Curx(v) \in 0 .. NCOL - 1 /\ Currow(v) = v.cursor - Curx(v) /\ v.org <= Currow(v)
      /\ NCOL \in Nat
  BY CursorIs, Sizes
<1>2. PICK o \in 0 .. Page - 1, a \in Int : o = Where(v) - 1 /\ a = v.cursor - 1 /\ a = v.org + o
  BY <1>1
<1>3. PICK u : u = [v EXCEPT !.m[a] = Blank]
  OBVIOUS
<1>4. PICK g \in Cell : g = Blank
  BY DEF Cell
<1>5. u = [v EXCEPT !.m[a] = g]
  BY <1>3, <1>4
<1>6. u \in ConRec /\ u.org = v.org /\ u.cursor = v.cursor /\ OrgOK(u) /\ Shows(u) = [Shows(v) EXCEPT ![o] = g]
  BY <1>2, <1>5, CellIs
<1>7. PICK w : w = [u EXCEPT !.cursor = a]
  OBVIOUS
<1>8. w \in ConRec /\ w.m = u.m /\ w.org = u.org /\ w.cursor = a
  BY <1>6, <1>7, SetCursor
<1>9. w = Advanced([v EXCEPT !.m[v.cursor - 1] = Blank], -1)
  <2>1. u.cursor + (-1) = a
    BY <1>1, <1>2, <1>6
  <2>2. w = Advanced(u, -1)
    BY <1>7, <2>1 DEF Advanced
  <2> QED BY <1>2, <1>3, <2>2
<1>10. OrgOK(w)
  BY <1>6, <1>8 DEF OrgOK
<1>11. ConOK(w) /\ Where(w) = o
  BY <1>1, <1>2, <1>6, <1>8, <1>10 DEF ConOK, Where
<1>12. Shows(w) = [k \in 0 .. Page - 1 |-> IF k \in o .. o THEN Blank ELSE Shows(v)[k]]
  <2>1. Shows(w) = [Shows(v) EXCEPT ![o] = Blank]
    BY <1>4, <1>6, <1>8 DEF Shows
  <2>2. \A k \in 0 .. Page - 1 : k \in o .. o <=> k = o
    BY <1>2
  <2> QED BY <2>1, <2>2 DEF Shows
<1>13. Erases(v, w)
  BY <1>11, <1>12 DEF Erases
<1> QED BY <1>9, <1>11, <1>13 DEF GoodStep

\* The cursor goes to a place of the window.
LEMMA ToStep ==
  ASSUME NEW v, ConOK(v), NEW c \in Int, c >= v.org, c < v.org + Page
  PROVE  GoodStep(v, [v EXCEPT !.cursor = c])
<1>1. v \in ConRec
  BY CursorIs
<1>2. PICK w : w = [v EXCEPT !.cursor = c]
  OBVIOUS
<1>3. w \in ConRec /\ w.m = v.m /\ w.org = v.org /\ w.cursor = c
  BY <1>1, <1>2, SetCursor
<1> QED BY <1>2, <1>3, MovedStep

LEMMA TabStep ==
  ASSUME NEW v, ConOK(v)
  PROVE  GoodStep(v, [v EXCEPT !.cursor = Min({Eorg(v) - TAB, Currow(v) + ((Curx(v) + TAB) \div TAB) * TAB})])
<1>1. /\ v.org \in Int /\ Curx(v) \in Nat /\ Currow(v) \in Int /\ v.org <= Currow(v)
      /\ Page \in Nat /\ NCOL \in Nat /\ Page >= NCOL + NCOL /\ TAB \in Nat /\ TAB > 0 /\ TAB <= NCOL
  BY CursorIs, Sizes, ConAssumption
<1>2. PICK x \in Nat : x = Curx(v) + TAB
  BY <1>1
<1>3. PICK d \in Nat : d = x \div TAB
  BY <1>1, Euclid
<1>4. PICK a \in Int, b \in Int : a = Eorg(v) - TAB /\ b = Currow(v) + d * TAB /\ b >= v.org
  BY <1>1, Times DEF Eorg
<1>5. a >= v.org /\ a < v.org + Page
  BY <1>1, <1>4 DEF Eorg
<1>6. PICK c \in Int : c = Min({a, b}) /\ c >= v.org /\ c < v.org + Page
  BY <1>1, <1>4, <1>5, LesserOf
<1>7. GoodStep(v, [v EXCEPT !.cursor = c])
  BY <1>6, ToStep
<1> QED BY <1>2, <1>3, <1>4, <1>6, <1>7

LEMMA SameStep ==
  ASSUME NEW v, ConOK(v)
  PROVE  GoodStep(v, v)
  BY DEF GoodStep, Moves

\* The state alone is set.
LEMMA StateIs ==
  ASSUME NEW v, ConOK(v), NEW s \in State
  PROVE  LET w == [v EXCEPT !.state = s] IN
         /\ ConOK(w) /\ GoodStep(v, w) /\ w.m = v.m /\ w.org = v.org /\ w.cursor = v.cursor
         /\ w.state = s /\ w.par = v.par
<1>1. v \in ConRec
  BY CursorIs
<1>2. PICK w : w = [v EXCEPT !.state = s]
  OBVIOUS
<1>3. /\ w \in ConRec /\ w.m = v.m /\ w.org = v.org /\ w.cursor = v.cursor /\ w.state = s
      /\ w.par = v.par
  BY <1>1, <1>2 DEF ConRec
<1>4. GoodStep(v, w)
  BY <1>3, MovedStep DEF ConOK
<1>5. ConOK(w)
  BY <1>4 DEF GoodStep
<1> QED BY <1>2, <1>3, <1>4, <1>5

\* What is a step from there is one from here.
LEMMA Through ==
  ASSUME NEW v, ConOK(v), NEW w, ConOK(w), w.m = v.m, w.org = v.org, w.cursor = v.cursor,
         NEW x, GoodStep(w, x)
  PROVE  GoodStep(v, x)
<1>1. Shows(w) = Shows(v) /\ Where(w) = Where(v)
  BY DEF Shows, Where
<1> QED BY <1>1 DEF GoodStep, Moves, Erases, Scrolls, Prints

LEMMA NormalStep ==
  ASSUME NEW v, ConOK(v), NEW c
  PROVE  GoodStep(v, normal(v, c))
<1>1. /\ v.org \in Int /\ v.cursor \in Int /\ v.cursor >= v.org /\ v.cursor < v.org + Page
      /\ Curx(v) \in 0 .. NCOL - 1 /\ Currow(v) \in Int /\ Currow(v) = v.cursor - Curx(v)
      /\ v.org <= Currow(v) /\ Page \in Nat /\ NCOL \in Nat
  BY CursorIs, Sizes DEF ConOK
<1>2. CASE c = "ESC"
  <2>1. normal(v, c) = [v EXCEPT !.state = "ESC"]
    BY <1>2 DEF normal, Control
  <2>2. "ESC" \in State
    BY DEF State
  <2> QED BY <2>1, <2>2, StateIs
<1>3. CASE c \notin Control
  <2>1. PICK w : w = Advanced([v EXCEPT !.m[v.cursor] = Shown(c)], 1)
    OBVIOUS
  <2>2. normal(v, c) = IF w.cursor = Eorg(w) THEN scrollup(w) ELSE w
    BY <1>3, <2>1 DEF normal, Control
  <2> QED BY <2>1, <2>2, PrintStep
<1>4. CASE c = "BS"
  <2>1. normal(v, c) = IF Curx(v) # 0 THEN Advanced(v, -1) ELSE v
    BY <1>4 DEF normal, Control
  <2>2. CASE Curx(v) # 0
    <3>1. PICK d \in Int : d = v.cursor + (-1)
      BY <1>1
    <3>2. d >= v.org /\ d < v.org + Page
      BY <1>1, <2>2, <3>1
    <3>3. normal(v, c) = [v EXCEPT !.cursor = d]
      BY <2>1, <2>2, <3>1 DEF Advanced
    <3> QED BY <3>2, <3>3, ToStep
  <2> QED BY <2>1, <2>2, SameStep
<1>5. CASE c = "HT"
  <2>1. normal(v, c) = [v EXCEPT !.cursor = Min({Eorg(v) - TAB, Currow(v) + ((Curx(v) + TAB) \div TAB) * TAB})]
    BY <1>5 DEF normal, Control
  <2> QED BY <2>1, TabStep
<1>6. CASE c = "LF"
  <2>1. normal(v, c) = Advanced(AfterScroll(v), NCOL)
    BY <1>6 DEF normal, Control
  <2> QED BY <2>1, LineFeedStep
<1>7. CASE c = "CR"
  <2>1. PICK d \in Int : d = Currow(v) /\ d >= v.org /\ d < v.org + Page
    BY <1>1
  <2>2. normal(v, c) = [v EXCEPT !.cursor = d]
    BY <1>7, <2>1 DEF normal, Control
  <2> QED BY <2>1, <2>2, ToStep
<1>8. CASE c = "DEL"
  <2>1. normal(v, c) = IF Curx(v) # 0 THEN Advanced([v EXCEPT !.m[v.cursor - 1] = Blank], -1) ELSE v
    BY <1>8 DEF normal, Control
  <2> QED BY <2>1, DeleteStep, SameStep
<1>9. CASE c = "BEL"
  <2>1. normal(v, c) = v
    BY <1>9 DEF normal, Control
  <2> QED BY <2>1, SameStep
<1> QED BY <1>2, <1>3, <1>4, <1>5, <1>6, <1>7, <1>8, <1>9 DEF Control

LEMMA BeforegetparStep ==
  ASSUME NEW v, ConOK(v), NEW s \in State
  PROVE  GoodStep(v, beforegetpar(v, s))
<1>1. v \in ConRec /\ NPAR \in Nat
  BY CursorIs, ConAssumption
<1>2. PICK w : w = beforegetpar(v, s)
  OBVIOUS
<1>3. PICK a \in [0 .. NPAR - 1 -> Nat] : a = [i \in 0 .. NPAR - 1 |-> 0]
  OBVIOUS
<1>4. w = [v EXCEPT !.state = "GETPAR", !.aftergetpar = s, !.npar = 0, !.par = a]
  BY <1>2, <1>3 DEF beforegetpar
<1>5. w \in ConRec /\ w.m = v.m /\ w.org = v.org /\ w.cursor = v.cursor
  <2>1. PICK q \in State, z \in 0 .. NPAR : q = "GETPAR" /\ z = 0
    BY <1>1 DEF State
  <2>2. v \in ConRec /\ w = [v EXCEPT !.state = q, !.aftergetpar = s, !.npar = z, !.par = a]
    BY <1>1, <1>4, <2>1
  <2> QED BY <2>2 DEF ConRec
<1> QED BY <1>2, <1>5, MovedStep DEF ConOK

\* The place is saved, or gone back to.
LEMMA SaveStep ==
  ASSUME NEW v, ConOK(v)
  PROVE  GoodStep(v, [v EXCEPT !.saved = <<Curx(v), Cury(v)>>])
<1>1. v \in ConRec /\ Curx(v) \in Int /\ Cury(v) \in Int
  BY CursorIs
<1>2. PICK s \in Int \X Int : s = <<Curx(v), Cury(v)>>
  BY <1>1
<1>3. PICK w : w = [v EXCEPT !.saved = s]
  OBVIOUS
<1>4. w \in ConRec /\ w.m = v.m /\ w.org = v.org /\ w.cursor = v.cursor
  BY <1>1, <1>3 DEF ConRec
<1>5. GoodStep(v, w)
  BY <1>4, MovedStep DEF ConOK
<1> QED BY <1>2, <1>3, <1>5
LEMMA SavedIs ==
  ASSUME NEW v, ConOK(v)
  PROVE  v.saved[1] \in Int /\ v.saved[2] \in Int
<1>1. v \in ConRec
  BY CursorIs
<1> QED BY <1>1 DEF ConRec

LEMMA EscStep ==
  ASSUME NEW v, ConOK(v), NEW c, c # "M"
  PROVE  GoodStep(v, esc(v, c))
<1>1. PICK w : w = [v EXCEPT !.state = "NORMAL"]
  OBVIOUS
<1>2. PICK s \in State : s = "NORMAL"
  BY DEF State
<1>3. ConOK(w) /\ GoodStep(v, w) /\ w.m = v.m /\ w.org = v.org /\ w.cursor = v.cursor
  BY <1>1, <1>2, StateIs
<1>4. CASE c = "["
  <2>1. esc(v, c) = beforegetpar(v, "ESCBRACKET") /\ "ESCBRACKET" \in State
    BY <1>4 DEF esc, State
  <2> QED BY <2>1, BeforegetparStep
<1>5. CASE c = "("
  <2>1. esc(v, c) = beforegetpar(v, "ESCBRACE") /\ "ESCBRACE" \in State
    BY <1>5 DEF esc, State
  <2> QED BY <2>1, BeforegetparStep
<1>6. CASE c = "#"
  <2>1. esc(v, c) = beforegetpar(v, "ESCNUMBER") /\ "ESCNUMBER" \in State
    BY <1>6 DEF esc, State
  <2> QED BY <2>1, BeforegetparStep
<1>7. CASE c = "E"
  <2>1. PICK u : u = AfterScroll(w)
    OBVIOUS
  <2>2. PICK x : x = [u EXCEPT !.cursor = Ecurrow(u)]
    OBVIOUS
  <2>3. esc(v, c) = x
    BY <1>1, <1>7, <2>1, <2>2 DEF esc
  <2>4. GoodStep(w, x)
    BY <1>3, <2>1, <2>2, NextLineStep
  <2> QED BY <1>3, <2>3, <2>4, Through
<1>8. CASE c = "D"
  <2>1. PICK x : x = Advanced(AfterScroll(w), NCOL)
    OBVIOUS
  <2>2. esc(v, c) = x
    BY <1>1, <1>8, <2>1 DEF esc
  <2>3. GoodStep(w, x)
    BY <1>3, <2>1, LineFeedStep
  <2> QED BY <1>3, <2>2, <2>3, Through
<1>9. CASE c = "7"
  <2>1. PICK x : x = [w EXCEPT !.saved = <<Curx(w), Cury(w)>>]
    OBVIOUS
  <2>2. esc(v, c) = x
    BY <1>1, <1>9, <2>1 DEF esc
  <2>3. GoodStep(w, x)
    BY <1>3, <2>1, SaveStep
  <2> QED BY <1>3, <2>2, <2>3, Through
<1>10. CASE c = "8"
  <2>1. PICK x : x = gotoxy(w, w.saved[1], w.saved[2])
    OBVIOUS
  <2>2. esc(v, c) = x
    BY <1>1, <1>10, <2>1 DEF esc
  <2>3. GoodStep(w, x)
    BY <1>3, <2>1, SavedIs, GotoIs
  <2> QED BY <1>3, <2>2, <2>3, Through
<1>11. CASE c \notin {"[", "(", "#", "E", "D", "7", "8"}
  <2>1. esc(v, c) = w
    BY <1>1, <1>11 DEF esc
  <2> QED BY <1>3, <2>1
<1> QED BY <1>4, <1>5, <1>6, <1>7, <1>8, <1>9, <1>10, <1>11

\* The erasing of lines, and the inserting that erases to the end.
LEMMA EscbracketKStep ==
  ASSUME NEW v, ConOK(v), NEW p
  PROVE  GoodStep(v, escbracketK(v, p))
<1>1. /\ v.org \in Int /\ v.cursor \in Int /\ v.cursor >= v.org /\ v.cursor < v.org + Page
      /\ Curx(v) \in 0 .. NCOL - 1 /\ Currow(v) \in Int /\ Currow(v) = v.cursor - Curx(v)
      /\ v.org <= Currow(v) /\ Page \in Nat /\ NCOL \in Nat /\ Ecurrow(v) = Currow(v) + NCOL
  BY CursorIs, Sizes DEF ConOK
<1>2. PICK r \in Int, e \in Int : r = Currow(v) /\ e = Ecurrow(v) /\ v.org <= r /\ r < v.org + Page
  BY <1>1
<1>3. GoodStep(v, erasechar(v, v.cursor, e)) /\ GoodStep(v, erasechar(v, r, v.cursor)) /\ GoodStep(v, erasechar(v, r, e))
  <2>1. PICK q \in Int : q = v.cursor /\ v.org <= q /\ q < v.org + Page
    BY <1>1
  <2>2. GoodStep(v, erasechar(v, q, e))
    BY <2>1, ErasedStep
  <2>3. GoodStep(v, erasechar(v, r, q))
    BY <1>2, ErasedStep
  <2>4. GoodStep(v, erasechar(v, r, e))
    BY <1>2, ErasedStep
  <2> QED BY <2>1, <2>2, <2>3, <2>4
<1>4. CASE p \in {0, 1, 2}
  BY <1>2, <1>3, <1>4 DEF escbracketK
<1>5. CASE p \notin {0, 1, 2}
  <2>1. escbracketK(v, p) = v
    BY <1>5 DEF escbracketK
  <2> QED BY <2>1, SameStep
<1> QED BY <1>4, <1>5

LEMMA EscbracketJStep ==
  ASSUME NEW v, ConOK(v), NEW p
  PROVE  GoodStep(v, escbracketJ(v, p))
<1>1. /\ v.org \in Int /\ v.cursor \in Int /\ v.cursor >= v.org /\ v.cursor < v.org + Page /\ Page \in Nat
  BY CursorIs, Sizes DEF ConOK
<1>2. PICK r \in Int, e \in Int : r = v.org /\ e = Eorg(v) /\ v.org <= r /\ r < v.org + Page
  BY <1>1 DEF Eorg
<1>3. GoodStep(v, erasechar(v, v.cursor, e)) /\ GoodStep(v, erasechar(v, r, v.cursor)) /\ GoodStep(v, erasechar(v, r, e))
  <2>1. PICK q \in Int : q = v.cursor /\ v.org <= q /\ q < v.org + Page
    BY <1>1
  <2>2. GoodStep(v, erasechar(v, q, e))
    BY <2>1, ErasedStep
  <2>3. GoodStep(v, erasechar(v, r, q))
    BY <1>2, ErasedStep
  <2>4. GoodStep(v, erasechar(v, r, e))
    BY <1>2, ErasedStep
  <2> QED BY <2>1, <2>2, <2>3, <2>4
<1>4. CASE p \in {0, 1, 2}
  BY <1>2, <1>3, <1>4 DEF escbracketJ
<1>5. CASE p \notin {0, 1, 2}
  <2>1. escbracketJ(v, p) = v
    BY <1>5 DEF escbracketJ
  <2> QED BY <2>1, SameStep
<1> QED BY <1>4, <1>5

LEMMA EscbracketLStep ==
  ASSUME NEW v, ConOK(v), NEW p \in Nat
  PROVE  GoodStep(v, escbracketL(v, p))
<1>1. /\ v \in ConRec /\ v.org \in Int /\ Cury(v) \in 0 .. NROW - 1 /\ Currow(v) \in Int
      /\ Currow(v) = v.org + Cury(v) * NCOL /\ v.org <= Currow(v) /\ Ecurrow(v) = Currow(v) + NCOL
      /\ Ecurrow(v) <= v.org + Page
  BY CursorIs
<1>2. Page \in Nat /\ NCOL \in Nat /\ NROW \in Nat /\ Page = NROW * NCOL /\ v.bottom = NROW /\ NCOL > 0
  BY <1>1, Sizes DEF ConRec
<1>3. PICK y \in Nat, n \in Nat : y = Cury(v) /\ NROW = y + n /\ n > 0
  BY <1>1, <1>2
<1>4. NROW * NCOL = y * NCOL + n * NCOL /\ y * NCOL \in Int /\ n * NCOL \in Int
  BY <1>2, <1>3
<1>5. v.bottom - Cury(v) = n
  BY <1>2, <1>3
<1>6. Count(p, n) = n
  BY <1>3, CountIs
<1>7. PICK from \in Int, to \in Int, z \in Int : from = Currow(v) /\ to = Currow(v) + n * NCOL /\ z = to - to
  BY <1>1, <1>4
<1>8. to = Eorg(v)
  BY <1>1, <1>2, <1>3, <1>4, <1>7 DEF Eorg
<1>9. escbracketL(v, p) = erasechar(movechar(v, from, to, z), from, to)
  BY <1>5, <1>6, <1>7, <1>8 DEF escbracketL, insertchar
<1>10. movechar(v, from, to, z) = v
  BY <1>1, <1>7, MoveNothing
<1>11. v.org <= from /\ from < v.org + Page
  BY <1>1, <1>2, <1>7
<1>12. GoodStep(v, erasechar(v, from, to))
  BY <1>11, ErasedStep
<1> QED BY <1>9, <1>10, <1>12

LEMMA EscbracketPStep ==
  ASSUME NEW v, ConOK(v), NEW p \in Nat
  PROVE  GoodStep(v, escbracketP(v, p))
<1>1. /\ v \in ConRec /\ v.org \in Int /\ v.cursor \in Int /\ Curx(v) \in 0 .. NCOL - 1 /\ Currow(v) \in Int
      /\ Currow(v) = v.cursor - Curx(v) /\ v.org <= Currow(v) /\ Ecurrow(v) = Currow(v) + NCOL
      /\ Ecurrow(v) <= v.org + Page
  BY CursorIs
<1>2. NCOL \in Nat /\ NCOL > 0 /\ Page \in Nat
  BY Sizes
<1>3. Count(p, NCOL) = NCOL
  BY <1>2, CountIs
<1>4. PICK from \in Int, to \in Int, end \in Int : from = v.cursor /\ to = v.cursor + NCOL /\ end = Ecurrow(v)
  BY <1>1, <1>2
<1>5. PICK n \in Int : n = end - to /\ n <= 0
  BY <1>1, <1>2, <1>4
<1>6. PICK r \in Int : r = from + n /\ r = Currow(v)
  BY <1>1, <1>2, <1>4, <1>5
<1>7. escbracketP(v, p) = erasechar(movechar(v, to, from, n), r, end)
  BY <1>3, <1>4, <1>5, <1>6 DEF escbracketP, deletechar
<1>8. movechar(v, to, from, n) = v
  BY <1>1, <1>5, MoveNothing
<1>9. v.org <= r /\ r < v.org + Page
  BY <1>1, <1>2, <1>6
<1>10. GoodStep(v, erasechar(v, r, end))
  BY <1>9, ErasedStep
<1> QED BY <1>7, <1>8, <1>10

LEMMA EscbracketATStep ==
  ASSUME NEW v, ConOK(v), NEW p \in Nat
  PROVE  GoodStep(v, escbracketAT(v, p))
<1>1. /\ v \in ConRec /\ v.org \in Int /\ v.cursor \in Int /\ Curx(v) \in 0 .. NCOL - 1 /\ Currow(v) \in Int
      /\ Currow(v) = v.cursor - Curx(v) /\ Ecurrow(v) = Currow(v) + NCOL
      /\ v.org <= v.cursor /\ v.cursor < v.org + Page
  BY CursorIs DEF ConOK
<1>2. NCOL \in Nat /\ NCOL > 0 /\ Page \in Nat
  BY Sizes
<1>3. Count(p, NCOL) = NCOL
  BY <1>2, CountIs
<1>4. PICK from \in Int, to \in Int, end \in Int : from = v.cursor /\ to = v.cursor + NCOL /\ end = Ecurrow(v)
  BY <1>1, <1>2
<1>5. PICK n \in Int : n = end - to /\ n <= 0
  BY <1>1, <1>2, <1>4
<1>6. escbracketAT(v, p) = erasechar(movechar(v, from, to, n), from, to)
  BY <1>3, <1>4, <1>5 DEF escbracketAT, insertchar
<1>7. movechar(v, from, to, n) = v
  BY <1>1, <1>5, MoveNothing
<1>8. v.org <= from /\ from < v.org + Page
  BY <1>1, <1>4
<1>9. GoodStep(v, erasechar(v, from, to))
  BY <1>8, ErasedStep
<1> QED BY <1>6, <1>7, <1>9

LEMMA EscbracketStep ==
  ASSUME NEW v, ConOK(v), NEW c, c # "r"
  PROVE  GoodStep(v, escbracket(v, c))
<1>1. PICK w : w = [v EXCEPT !.state = "NORMAL"]
  OBVIOUS
<1>2. PICK s \in State : s = "NORMAL"
  BY DEF State
<1>3. ConOK(w) /\ GoodStep(v, w) /\ w.m = v.m /\ w.org = v.org /\ w.cursor = v.cursor
  BY <1>1, <1>2, StateIs
<1>4. w \in ConRec /\ Curx(w) \in Int /\ Cury(w) \in Int
  BY <1>3, CursorIs
<1>5. w.par[0] \in Nat /\ w.par[1] \in Nat
  <2>1. NPAR \in Nat /\ 0 \in 0 .. NPAR - 1 /\ 1 \in 0 .. NPAR - 1
    BY ConAssumption
  <2> QED BY <1>4, <2>1 DEF ConRec
<1>6. PICK x \in Int, y \in Int, p \in Nat, q \in Nat : x = Curx(w) /\ y = Cury(w) /\ p = w.par[0] /\ q = w.par[1]
  BY <1>4, <1>5
<1>7. Less(p) \in Int /\ Less(q) \in Int /\ Atleast1(p) \in Int
  BY DEF Less, Atleast1
<1>8. ASSUME NEW z, GoodStep(w, z) PROVE GoodStep(v, z)
  BY <1>3, <1>8, Through
<1>9. ASSUME NEW i \in Int, NEW j \in Int PROVE GoodStep(v, gotoxy(w, i, j))
  BY <1>3, <1>8, GotoIs
<1>10. CASE c = "?"
  <2>1. escbracket(v, c) = beforegetpar(v, "ESCBRACKETQUEST") /\ "ESCBRACKETQUEST" \in State
    BY <1>10 DEF escbracket, State
  <2> QED BY <2>1, BeforegetparStep
<1>11. CASE c \in {"G", "backquote", "A", "B", "e", "C", "a", "D", "E", "F", "d", "H", "f"}
  <2>1. PICK i \in Int, j \in Int : escbracket(v, c) = gotoxy(w, i, j)
    <3>1. CASE c \in {"G", "backquote"}
      <4>1. escbracket(v, c) = gotoxy(w, Less(p), y)
        BY <1>1, <1>6, <3>1 DEF escbracket
      <4> QED BY <1>7, <4>1
    <3>2. CASE c = "A"
      <4>1. escbracket(v, c) = gotoxy(w, x, y - Atleast1(p)) /\ y - Atleast1(p) \in Int
        BY <1>1, <1>6, <1>7, <3>2 DEF escbracket
      <4> QED BY <4>1
    <3>3. CASE c \in {"B", "e"}
      <4>1. escbracket(v, c) = gotoxy(w, x, y + Atleast1(p)) /\ y + Atleast1(p) \in Int
        BY <1>1, <1>6, <1>7, <3>3 DEF escbracket
      <4> QED BY <4>1
    <3>4. CASE c \in {"C", "a"}
      <4>1. escbracket(v, c) = gotoxy(w, x + Atleast1(p), y) /\ x + Atleast1(p) \in Int
        BY <1>1, <1>6, <1>7, <3>4 DEF escbracket
      <4> QED BY <4>1
    <3>5. CASE c = "D"
      <4>1. escbracket(v, c) = gotoxy(w, x - Atleast1(p), y) /\ x - Atleast1(p) \in Int
        BY <1>1, <1>6, <1>7, <3>5 DEF escbracket
      <4> QED BY <4>1
    <3>6. CASE c = "E"
      <4>1. escbracket(v, c) = gotoxy(w, 0, y + Atleast1(p)) /\ y + Atleast1(p) \in Int
        BY <1>1, <1>6, <1>7, <3>6 DEF escbracket
      <4> QED BY <4>1
    <3>7. CASE c = "F"
      <4>1. escbracket(v, c) = gotoxy(w, 0, y - Atleast1(p)) /\ y - Atleast1(p) \in Int
        BY <1>1, <1>6, <1>7, <3>7 DEF escbracket
      <4> QED BY <4>1
    <3>8. CASE c = "d"
      <4>1. escbracket(v, c) = gotoxy(w, x, Less(p))
        BY <1>1, <1>6, <3>8 DEF escbracket
      <4> QED BY <1>7, <4>1
    <3>9. CASE c \in {"H", "f"}
      <4>1. escbracket(v, c) = gotoxy(w, Less(q), Less(p))
        BY <1>1, <1>6, <3>9 DEF escbracket
      <4> QED BY <1>7, <4>1
    <3> QED BY <1>11, <3>1, <3>2, <3>3, <3>4, <3>5, <3>6, <3>7, <3>8, <3>9
  <2> QED BY <1>9, <2>1
<1>12. CASE c = "J"
  <2>1. escbracket(v, c) = escbracketJ(w, p)
    BY <1>1, <1>6, <1>12 DEF escbracket
  <2> QED BY <1>3, <1>8, <2>1, EscbracketJStep
<1>13. CASE c = "K"
  <2>1. escbracket(v, c) = escbracketK(w, p)
    BY <1>1, <1>6, <1>13 DEF escbracket
  <2> QED BY <1>3, <1>8, <2>1, EscbracketKStep
<1>14. CASE c \in {"L", "M"}
  <2>1. escbracket(v, c) = escbracketL(w, p)
    BY <1>1, <1>6, <1>14 DEF escbracket
  <2> QED BY <1>3, <1>8, <2>1, EscbracketLStep
<1>15. CASE c = "P"
  <2>1. escbracket(v, c) = escbracketP(w, p)
    BY <1>1, <1>6, <1>15 DEF escbracket
  <2> QED BY <1>3, <1>8, <2>1, EscbracketPStep
<1>16. CASE c = "@"
  <2>1. escbracket(v, c) = escbracketAT(w, p)
    BY <1>1, <1>6, <1>16 DEF escbracket
  <2> QED BY <1>3, <1>8, <2>1, EscbracketATStep
<1>17. CASE c = "s"
  <2>1. escbracket(v, c) = [w EXCEPT !.saved = <<Curx(w), Cury(w)>>]
    BY <1>1, <1>17 DEF escbracket
  <2> QED BY <1>3, <1>8, <2>1, SaveStep
<1>18. CASE c = "u"
  <2>1. escbracket(v, c) = gotoxy(w, w.saved[1], w.saved[2])
    BY <1>1, <1>18 DEF escbracket
  <2> QED BY <1>3, <1>9, <2>1, SavedIs
<1>19. CASE c \notin {"?", "G", "backquote", "A", "B", "e", "C", "a", "D", "E", "F", "d", "H", "f", "J", "K", "L", "M",
                      "P", "@", "s", "u"}
  <2>1. escbracket(v, c) = w
    BY <1>1, <1>19 DEF escbracket
  <2> QED BY <1>3, <2>1
<1> QED BY <1>10, <1>11, <1>12, <1>13, <1>14, <1>15, <1>16, <1>17, <1>18, <1>19

LEMMA AfterStep ==
  ASSUME NEW v, ConOK(v), NEW c, c # "r"
  PROVE  GoodStep(v, After(v, c))
  BY EscbracketStep, SameStep DEF After

LEMMA GetparStep ==
  ASSUME NEW v, ConOK(v), NEW c, c # "r"
  PROVE  GoodStep(v, getpar(v, c))
<1>1. /\ v \in ConRec /\ NPAR \in Nat /\ v.npar \in 0 .. NPAR /\ v.aftergetpar \in State
      /\ v.par \in [0 .. NPAR - 1 -> Nat]
  <2>1. v \in ConRec /\ NPAR \in Nat
    BY CursorIs, ConAssumption
  <2> QED BY <2>1 DEF ConRec
<1>2. PICK n \in Nat : n = v.npar /\ n <= NPAR
  BY <1>1
<1>3. c \in Digit => c # ";"
  BY DEF Digit, Value
<1>4. ASSUME NEW w \in ConRec, w.m = v.m, w.org = v.org, w.cursor = v.cursor PROVE GoodStep(v, w)
  BY <1>4, MovedStep DEF ConOK
<1>5. CASE c \in Digit /\ v.npar = NPAR
  <2>1. PICK s \in State : s = "none"
    BY DEF State
  <2>2. PICK w : w = [v EXCEPT !.aftergetpar = s]
    OBVIOUS
  <2>3. w \in ConRec /\ w.m = v.m /\ w.org = v.org /\ w.cursor = v.cursor
    BY <1>1, <2>2 DEF ConRec
  <2>4. c # ";" /\ c \in Digit /\ v.npar = NPAR /\ ~(v.npar < NPAR)
    <3>1. n = NPAR /\ ~(n < NPAR)
      BY <1>1, <1>2, <1>5
    <3>2. c # ";" /\ c \in Digit /\ v.npar = NPAR
      BY <1>3, <1>5
    <3> QED BY <1>2, <3>1, <3>2
  <2>5. getpar(v, c) = w
    BY <2>1, <2>2, <2>4 DEF getpar
  <2> QED BY <1>4, <2>3, <2>5
<1>6. CASE c \in Digit /\ v.npar < NPAR
  <2>1. Value[c] \in Nat
    BY <1>6 DEF Digit, Value
  <2>2. n \in 0 .. NPAR - 1 /\ n = v.npar /\ n # NPAR
    BY <1>1, <1>2, <1>6
  <2>3. PICK k \in Nat : k = 10 * v.par[n] + Value[c]
    BY <1>1, <2>1, <2>2
  <2>4. PICK a : a = [v.par EXCEPT ![n] = k]
    OBVIOUS
  <2>5. a \in [0 .. NPAR - 1 -> Nat]
    BY <1>1, <2>2, <2>4
  <2>6. PICK w : w = [v EXCEPT !.par = a]
    OBVIOUS
  <2>7. w \in ConRec /\ w.m = v.m /\ w.org = v.org /\ w.cursor = v.cursor
    BY <1>1, <2>5, <2>6 DEF ConRec
  <2>8. getpar(v, c) = w
    <3>1. getpar(v, c) = [v EXCEPT !.par[v.npar] = 10 * @ + Value[c]]
      BY <1>3, <1>6, <2>2 DEF getpar
    <3> QED BY <2>2, <2>3, <2>4, <2>6, <3>1
  <2> QED BY <1>4, <2>7, <2>8
<1>7. CASE c = ";" /\ v.npar < NPAR
  <2>1. c \notin Digit
    BY <1>7 DEF Digit, Value
  <2>2. PICK k \in 0 .. NPAR : k = n + 1
    <3>1. n < NPAR
      BY <1>2, <1>7
    <3> QED BY <1>1, <3>1
  <2>3. PICK w : w = [v EXCEPT !.npar = k]
    OBVIOUS
  <2>4. w \in ConRec /\ w.m = v.m /\ w.org = v.org /\ w.cursor = v.cursor
    BY <1>1, <2>3 DEF ConRec
  <2>5. getpar(v, c) = w
    BY <1>2, <1>7, <2>1, <2>2, <2>3 DEF getpar
  <2> QED BY <1>4, <2>4, <2>5
<1>8. CASE c \notin Digit /\ ~(c = ";" /\ v.npar < NPAR)
  <2>1. PICK w : w = [v EXCEPT !.state = v.aftergetpar]
    OBVIOUS
  <2>2. ConOK(w) /\ w.m = v.m /\ w.org = v.org /\ w.cursor = v.cursor
    BY <1>1, <2>1, StateIs
  <2>3. getpar(v, c) = After(w, c)
    BY <1>8, <2>1 DEF getpar
  <2>4. GoodStep(w, After(w, c))
    BY <2>2, AfterStep
  <2> QED BY <2>2, <2>3, <2>4, Through
<1>9. v.npar = NPAR \/ v.npar < NPAR
  BY <1>1, <1>2
<1> QED BY <1>5, <1>6, <1>7, <1>8, <1>9

\* The character does not end ESC M or ESC [ r.
Spared(v, c) ==
  ~(c = "M" /\ v.state = "ESC") /\ ~(c = "r" /\ v.state \in {"GETPAR", "ESCBRACKET"})

LEMMA HandledStep ==
  ASSUME NEW v, ConOK(v), NEW c, Spared(v, c)
  PROVE  GoodStep(v, Handled(v, c))
<1>1. CASE v.state = "NORMAL"
  BY <1>1, NormalStep DEF Handled
<1>2. CASE v.state = "ESC"
  BY <1>2, EscStep DEF Handled, Spared
<1>3. CASE v.state = "GETPAR"
  BY <1>3, GetparStep DEF Handled, Spared
<1>4. CASE v.state = "ESCBRACKET"
  BY <1>4, AfterStep DEF Handled, Spared
<1>5. CASE v.state \notin {"NORMAL", "ESC", "GETPAR", "ESCBRACKET"}
  <2>1. Handled(v, c) = v
    BY <1>5 DEF Handled, After
  <2> QED BY <2>1, SameStep
<1> QED BY <1>1, <1>2, <1>3, <1>4, <1>5

LEMMA RestedStep ==
  ASSUME NEW v, NEW w, GoodStep(v, w)
  PROVE  GoodStep(v, Rested(w))
<1>1. w \in ConRec /\ ConOK(w) /\ NPAR \in Nat
  BY CursorIs, ConAssumption DEF GoodStep
<1>2. PICK u : u = Rested(w)
  OBVIOUS
<1>3. u \in ConRec /\ u.m = w.m /\ u.org = w.org /\ u.cursor = w.cursor
  <2>1. CASE w.state # "NORMAL"
    BY <1>1, <1>2, <2>1 DEF Rested
  <2>2. CASE w.state = "NORMAL"
    <3>1. PICK a \in [0 .. NPAR - 1 -> Nat] : a = [i \in 0 .. NPAR - 1 |-> 0]
      OBVIOUS
    <3>2. PICK z \in 0 .. NPAR, s \in State : z = 0 /\ s = "NORMAL"
      BY <1>1 DEF State
    <3>3. w \in ConRec /\ u = [w EXCEPT !.npar = z, !.par = a, !.aftergetpar = s]
      BY <1>1, <1>2, <2>2, <3>1, <3>2 DEF Rested
    <3> QED BY <3>3 DEF ConRec
  <2> QED BY <2>1, <2>2
<1>4. ConOK(u)
  BY <1>1, <1>3 DEF ConOK, OrgOK
<1>5. Shows(u) = Shows(w) /\ Where(u) = Where(w)
  BY <1>3 DEF Shows, Where
<1> QED BY <1>2, <1>4, <1>5 DEF GoodStep, Moves, Erases, Scrolls, Prints

----------------------------------------------------------------------------
(* The terminal. *)

ConInv == ConOK(con) /\ ~panicked

LEMMA ConInvInit ==
  ASSUME ConInit
  PROVE  ConInv /\ Shows(con) = [i \in 0 .. Page - 1 |-> Blank] /\ Where(con) = 0
<1>1. Page \in Nat /\ Page > 0 /\ Evideo \in Nat /\ Page <= Evideo /\ NPAR \in Nat /\ NCOL \in Nat
  BY Sizes, ConAssumption
<1>2. PICK a \in Mem : a = [i \in 0 .. Evideo - 1 |-> Blank]
  BY DEF Mem, Cell
<1>3. PICK b \in [0 .. NPAR - 1 -> Nat], s \in State : b = [i \in 0 .. NPAR - 1 |-> 0] /\ s = "NORMAL"
  BY DEF State
<1>4. con = [m |-> a, org |-> 0, cursor |-> 0, top |-> 0, bottom |-> NROW, state |-> s, npar |-> 0,
             par |-> b, aftergetpar |-> s, saved |-> <<0, 0>>]
  BY <1>2, <1>3 DEF ConInit
<1>5. con \in ConRec
  BY <1>1, <1>4 DEF ConRec
<1>6. con.m = a /\ con.org = 0 /\ con.cursor = 0
  BY <1>4
<1>7. 0 = 0 * NCOL
  BY <1>1
<1>8. ConOK(con)
  BY <1>1, <1>5, <1>6, <1>7 DEF ConOK, OrgOK
<1>9. Shows(con) = [i \in 0 .. Page - 1 |-> Blank]
  BY <1>1, <1>2, <1>6 DEF Shows
<1>10. Where(con) = 0 /\ ~panicked
  BY <1>6 DEF Where, ConInit
<1> QED BY <1>8, <1>9, <1>10 DEF ConInv

LEMMA PutStep ==
  ASSUME ConInv, NEW c, Spared(con, c), Put(c, "write")
  PROVE  GoodStep(con, con') /\ ~panicked'
<1>1. ConOK(con) /\ ~panicked
  BY DEF ConInv
<1>2. OnScreen
  BY <1>1, CursorIs, Sizes DEF ConOK, OnScreen, Eorg
<1>3. con' = Rested(Handled(con, c)) /\ panicked' = panicked
  BY <1>2 DEF Put
<1>4. GoodStep(con, Handled(con, c))
  BY <1>1, HandledStep
<1> QED BY <1>1, <1>3, <1>4, RestedStep

\* A step of the terminal is one that it may take.
LEMMA TerminalStep ==
  ASSUME ConInv, GoodStep(con, con')
  PROVE  Term!TermNext
<1>1. Shows(con) = [i \in 0 .. Page - 1 |-> con.m[con.org + i]] /\ Where(con) = con.cursor - con.org
  BY DEF Shows, Where
<1>2. Shows(con') = [i \in 0 .. Page - 1 |-> con'.m[con'.org + i]] /\ Where(con') = con'.cursor - con'.org
  BY DEF Shows, Where
<1>3. ConOK(con')
  BY DEF GoodStep
<1>4. Where(con') \in 0 .. Page - 1
  BY <1>3, CursorIs
<1>5. CASE Moves(con, con')
  <2>1. Term!Move(Where(con'))
    BY <1>1, <1>2, <1>5 DEF Term!Move, Moves
  <2> QED BY <1>4, <2>1 DEF Term!TermNext, Term!Place
<1>6. CASE Erases(con, con')
  <2>1. PICK i, j \in 0 .. Page - 1 :
          /\ Shows(con') = [k \in 0 .. Page - 1 |-> IF k \in i .. j THEN Blank ELSE Shows(con)[k]]
          /\ Where(con') \in {Where(con), i}
    BY <1>6 DEF Erases
  <2>2. Term!EraseTo(i, j)
    BY <1>1, <1>2, <2>1 DEF Term!EraseTo, Term!Place
  <2> QED BY <2>2 DEF Term!TermNext, Term!Place
<1>7. CASE Scrolls(con, con')
  <2>1. Term!Scroll
    BY <1>1, <1>2, <1>7 DEF Term!Scroll, Term!Up, Term!Place, Term!LastLine, Scrolls, Upped
  <2> QED BY <2>1 DEF Term!TermNext
<1>8. CASE Prints(con, con')
  <2>1. PICK g \in Told \cup {"other"} :
          /\ Shows(con') = IF Where(con) = Page - 1 THEN Upped([Shows(con) EXCEPT ![Where(con)] = g])
                                                  ELSE [Shows(con) EXCEPT ![Where(con)] = g]
          /\ Where(con') = IF Where(con) = Page - 1 THEN Page - NCOL ELSE Where(con) + 1
    BY <1>8 DEF Prints
  <2>2. Term!Show(g)
    BY <1>1, <1>2, <2>1 DEF Term!Show, Term!Up, Term!Place, Term!LastLine, Upped
  <2> QED BY <2>2 DEF Term!TermNext
<1> QED BY <1>5, <1>6, <1>7, <1>8 DEF GoodStep

(***************************************************************************)
(* What write2 shows through the window is the terminal of module          *)
(* Terminal, whatever the size of the screen and of the video memory and   *)
(* whatever the programs write, but for ESC M (whose firstrow asks for     *)
(* the column) and ESC [ r (below whose region a line feed leaves the      *)
(* screen); and write2 does not panic.  The window is always a number of   *)
(* whole lines into the memory, so one that has not reached its end has a  *)
(* line left to slide over.                                                *)
(***************************************************************************)
THEOREM ConsoleIsTerminal ==
  ConSpec /\ [][\E c \in Outq : Spared(con, c) /\ Put(c, "write")]_convars
    => ImplementsTerminal /\ []~panicked
<1> DEFINE A == \E c \in Outq : Spared(con, c) /\ Put(c, "write")
<1>1. ConInit => ConInv /\ Term!TermInit
  <2> SUFFICES ASSUME ConInit PROVE ConInv /\ Term!TermInit
    OBVIOUS
  <2>1. ConInv /\ Shows(con) = [i \in 0 .. Page - 1 |-> Blank] /\ Where(con) = 0
    BY ConInvInit
  <2> QED BY <2>1 DEF Term!TermInit, Term!Place, Shows, Where
<1>2. ConInv /\ [A]_convars => ConInv' /\ [Term!TermNext]_(Term!termvars)
  <2> SUFFICES ASSUME ConInv, [A]_convars PROVE ConInv' /\ [Term!TermNext]_(Term!termvars)
    OBVIOUS
  <2>1. CASE A
    <3>1. PICK c \in Outq : Spared(con, c) /\ Put(c, "write")
      BY <2>1
    <3>2. GoodStep(con, con') /\ ~panicked'
      BY <3>1, PutStep
    <3>3. Term!TermNext
      BY <3>2, TerminalStep
    <3>4. ConInv'
      BY <3>2 DEF ConInv, GoodStep
    <3> QED BY <3>3, <3>4
  <2>2. CASE UNCHANGED convars
    <3>1. con' = con /\ panicked' = panicked
      BY <2>2 DEF convars
    <3>2. ConInv'
      BY <3>1 DEF ConInv
    <3>3. UNCHANGED Term!termvars
      BY <3>1 DEF Term!termvars
    <3> QED BY <3>2, <3>3
  <2> QED BY <2>1, <2>2
<1>3. ConInv => ~panicked
  BY DEF ConInv
<1> QED BY <1>1, <1>2, <1>3, PTL DEF ConSpec, ImplementsTerminal, Term!TermSpec
=============================================================================
