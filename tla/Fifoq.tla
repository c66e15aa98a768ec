------------------------------- MODULE Fifoq -------------------------------
(***************************************************************************)
(* fifoq_t of lib/fifoq.h and lib/fifoq.cc: a ring buffer with a read and  *)
(* a write pointer and a byte count, the store of pipes, of the terminal's *)
(* raw and cooked queues, and of unix stream sockets.                      *)
(***************************************************************************)
EXTENDS Integers, Sequences, SyncParams

VARIABLES
  q,      \* fifoq_t: room, r, w, nbyte
  call    \* the last call, its argument and its result

ringvars == <<q, call>>

\* n & mask, for the n that occur: -SIZE <= n < 2 * SIZE.
Offset(n) == IF n >= SIZE THEN n - SIZE ELSE IF n < 0 THEN n + SIZE ELSE n

\* fifoq_t::init.
Initq(room) == [room |-> room, r |-> 0, w |-> 0, nbyte |-> 0]

Empty(f) == f.nbyte = 0
Full(f) == f.nbyte = SIZE
Maxrchunk(f) == Smaller(f.nbyte, SIZE - f.r)
MaxwchunkOver(f) == SIZE - f.nbyte
Maxwchunk(f) == Smaller(SIZE - f.nbyte, SIZE - f.w)
Adjustrptr(f, nr) ==
  [room |-> f.room, r |-> Offset(f.r + nr), w |-> f.w, nbyte |-> f.nbyte - nr]
Adjustwptr(f, nr) ==
  [room |-> f.room, r |-> f.r, w |-> Offset(f.w + nr), nbyte |-> f.nbyte + nr]
Store(f, room) == [room |-> room, r |-> f.r, w |-> f.w, nbyte |-> f.nbyte]

\* One turn of the loop of putc(buf, len): as much of bs as fits before the
\* end of the room.
PutChunk(f, bs) ==
  LET n == Smaller(Len(bs), Maxwchunk(f))
  IN  Adjustwptr(Store(f, [i \in 0 .. SIZE - 1 |->
                    IF i \in f.w .. f.w + n - 1 THEN bs[i - f.w + 1] ELSE f.room[i]]), n)
Rest(f, bs) == SubSeq(bs, Smaller(Len(bs), Maxwchunk(f)) + 1, Len(bs))

\* putc(buf, len): the loop ends after at most two turns.
Put(f, bs) == PutChunk(PutChunk(f, bs), Rest(f, bs))
Written(f, bs) == Put(f, bs).nbyte - f.nbyte

\* getc(buf, len), also at most two turns, and the bytes that it copies out.
GetChunk(f, len) == Adjustrptr(f, Smaller(len, Maxrchunk(f)))
Get(f, len) == GetChunk(GetChunk(f, len), len - Smaller(len, Maxrchunk(f)))
Chunk(f, len) == [i \in 1 .. Smaller(len, Maxrchunk(f)) |-> f.room[f.r + i - 1]]
Readed(f, len) ==
  Chunk(f, len) \o Chunk(GetChunk(f, len), len - Smaller(len, Maxrchunk(f)))

\* ungetc, unputc.
Ungetc(f, c) ==
  LET g == Adjustrptr(f, -1) IN Store(g, [g.room EXCEPT ![g.r] = c])
Unputc(f) == Adjustwptr(f, -1)

\* peekc(buf, len): read and step back.
Peekc(f, len) == LET g == Get(f, len) IN Adjustrptr(g, g.nbyte - f.nbyte)

----------------------------------------------------------------------------
FifoqInit ==
  /\ \E c \in Char : q = Initq([i \in 0 .. SIZE - 1 |-> c])
  /\ call = <<"init">>

\* putc(c), getc(c) and peekc(c) are the cases of one byte.  What finds the
\* ring full or empty changes nothing.
DoPut(bs) == q' = Put(q, bs) /\ call' = <<"putc", bs, Written(q, bs)>>
DoGet(n) == q' = Get(q, n) /\ call' = <<"getc", n, Readed(q, n)>>
DoPeekc(n) == q' = Peekc(q, n) /\ call' = <<"peekc", n, Readed(q, n)>>
DoUngetc(c) == ~Full(q) /\ q' = Ungetc(q, c) /\ call' = <<"ungetc", c>>
DoUnputc ==
  /\ ~Empty(q)
  /\ q' = Unputc(q) /\ call' = <<"unputc", Unputc(q).room[Unputc(q).w]>>
DoClear == q' = Initq(q.room) /\ call' = <<"init">>

FifoqNext ==
  \/ \E n \in 1 .. SIZE : (\E bs \in [1 .. n -> Char] : DoPut(bs)) \/ DoGet(n) \/ DoPeekc(n)
  \/ \E c \in Char : DoUngetc(c)
  \/ DoUnputc \/ DoClear

FifoqSpec == FifoqInit /\ [][FifoqNext]_ringvars

----------------------------------------------------------------------------
(* Properties. *)

\* The pointers stay inside the room.
FifoqTypeOK ==
  q \in [room : [0 .. SIZE - 1 -> Char], r : 0 .. SIZE - 1, w : 0 .. SIZE - 1,
         nbyte : 0 .. SIZE]

\* fifoq_t::check(): the pointers and the count tell the same story, whatever
\* wraps around; in particular full and empty are told apart when r = w.
Check ==
  /\ q.r < q.w => q.nbyte = q.w - q.r
  /\ q.w < q.r => q.nbyte = SIZE + q.w - q.r
  /\ q.r = q.w => q.nbyte \in {0, SIZE}

\* The bytes between the pointers, oldest first.
Bytes(f, n) == [i \in 1 .. n |-> f.room[Offset(f.r + i - 1)]]

\* What goes in and what comes out is what a plain queue takes and gives: two
\* chunks around the end of the room lose, double or reorder nothing.
Abstract == INSTANCE Fifo WITH s <- Bytes(q, q.nbyte)
ImplementsFifo == Abstract!Spec
=============================================================================
