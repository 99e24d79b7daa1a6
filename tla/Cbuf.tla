-------------------------------- MODULE Cbuf --------------------------------
(***************************************************************************)
(* host/flexsoc/Cbuf.cpp: the circular buffer between the listen thread    *)
(* (the only writer, flexsoc_listen) and the thread that holds api_lock    *)
(* (the only reader, flexsoc_recv).                                        *)
(*                                                                         *)
(* Each method runs under one mutex and gives it up only inside            *)
(* pthread_cond_wait, so a method is one action when it does not wait and  *)
(* two when it does: XxxWait (check, start waiting) and XxxResume (the     *)
(* rest, after a wake-up, WITHOUT checking again: the code tests with      *)
(* `if`, not `while`).  A byte is represented by its position in the       *)
(* stream that the writer passes to Write.                                 *)
(***************************************************************************)
EXTENDS Integers, Sequences

CONSTANTS Size,      \* capacity in bytes (MBUF_SZ, flexsoc.cpp:33)
          Wrap,      \* 2^32: widx, ridx and size are unsigned int
          MaxPacket, \* longest packet flexsoc_listen writes (17)
          MaxRecv,   \* longest flexsoc_recv (READ_RECV_BUF_SZ)
          MaxBytes   \* bound: length of the byte stream explored

\* Size divides 2^32 in the program (16K), which the unsigned subtraction in
\* SpaceAvail needs; the longest flexsoc_recv (900) is shorter than the buffer.
ASSUME SizeAssumption == Size \in Nat \ {0}
ASSUME WrapAssumption ==
         Wrap \in Nat /\ \E q \in 1..Wrap : Wrap = q * Size
ASSUME LengthAssumption == /\ MaxPacket \in Nat \ {0}
                           /\ MaxRecv \in 1..(Size - 1)
                           /\ MaxBytes \in Nat

Unset == -1           \* a byte of malloc'ed memory nothing was written to

VARIABLES widx, ridx, full, buf, \* the fields of class Cbuf
          writer, reader,        \* "out", "waiting" or "woken": each side's
                                 \*   place in its call of the class
          wleft,                 \* bytes of the current packet not written yet
          rleft,                 \* bytes the current flexsoc_recv still wants
          nput, ntaken,          \* length of the stream written / read so far
          rdata                  \* what the latest Read copied out

vars == <<widx, ridx, full, buf, writer, reader, wleft, rleft, nput, ntaken,
          rdata>>

Slots == 0..(Size - 1)

Init == /\ widx = 0 /\ ridx = 0 /\ full = FALSE
        /\ buf = [s \in Slots |-> Unset]
        /\ writer = "out" /\ reader = "out"
        /\ wleft = 0 /\ rleft = 0
        /\ nput = 0 /\ ntaken = 0
        /\ rdata = <<>>

-----------------------------------------------------------------------------
SpaceAvail == IF full THEN 0 ELSE Size - (((widx - ridx) % Wrap) % Size)
DataAvail == Size - SpaceAvail

\* Definitions marked "slip" are not used by the specification: each is the
\* definition after it with a plausible mistake, which a property has to notice.
\* slip: the other index is ignored.
SpanIgnoringOther(from, to, len) ==
  IF from + len < Size THEN len ELSE Size - from

\* How many of the len bytes fit (are there) before the other index, or before
\* the end of the array.
Span(from, to, len) ==
  IF to > from THEN (IF from + len < to THEN len ELSE to - from)
               ELSE (IF from + len < Size THEN len ELSE Size - from)

WriteSize == Span(widx, ridx, wleft)
ReadSize == Span(ridx, widx, rleft)

\* slip: the end of the array is noticed one byte late.
AdvanceLate(idx, sz) == IF idx + sz > Size THEN 0 ELSE idx + sz
Advance(idx, sz) == IF idx + sz >= Size THEN 0 ELSE idx + sz

\* slip: nobody is signalled.
SignalNobody(thread) == thread
Signal(thread) == IF thread = "waiting" THEN "woken" ELSE thread

\* From the size computation of Write to its return.
WriteBody ==
  LET sz == WriteSize
      w == Advance(widx, sz)
  IN /\ buf' = [s \in Slots |-> IF s \in widx..(widx + sz - 1)
                                  THEN nput + (s - widx) ELSE buf[s]]
     /\ widx' = w
     /\ full' = (full \/ w = ridx)
     /\ reader' = IF sz > 0 THEN Signal(reader) ELSE reader
     /\ writer' = "out"
     /\ wleft' = wleft - sz
     /\ nput' = nput + sz
     /\ UNCHANGED <<ridx, rleft, ntaken, rdata>>

\* From the size computation of Read to its return.
ReadBody ==
  LET sz == ReadSize
      r == Advance(ridx, sz)
      f == IF sz > 0 THEN FALSE ELSE full
  IN /\ rdata' = [k \in 1..sz |-> buf[ridx + k - 1]]
     /\ ridx' = r
     /\ full' = f
     /\ writer' = IF f \/ r # widx THEN Signal(writer) ELSE writer
     /\ reader' = "out"
     /\ rleft' = rleft - sz
     /\ ntaken' = ntaken + sz
     /\ UNCHANGED <<widx, buf, wleft, nput>>

-----------------------------------------------------------------------------
\* flexsoc_listen has a packet of n bytes for the master interface.
StartPacket(n) == /\ wleft = 0
                  /\ nput + n <= MaxBytes
                  /\ wleft' = n
                  /\ UNCHANGED <<widx, ridx, full, buf, writer, reader, rleft,
                                 nput, ntaken, rdata>>

Write == writer = "out" /\ wleft > 0 /\ SpaceAvail # 0 /\ WriteBody

WriteWait == /\ writer = "out" /\ wleft > 0 /\ SpaceAvail = 0
             /\ writer' = "waiting"
             /\ UNCHANGED <<widx, ridx, full, buf, reader, wleft, rleft, nput,
                            ntaken, rdata>>

WriteResume == writer = "woken" /\ WriteBody

\* flexsoc_recv is called for n bytes.
StartRecv(n) == /\ rleft = 0
                /\ rleft' = n
                /\ UNCHANGED <<widx, ridx, full, buf, writer, reader, wleft,
                               nput, ntaken, rdata>>

Read == reader = "out" /\ rleft > 0 /\ DataAvail # 0 /\ ReadBody

ReadWait == /\ reader = "out" /\ rleft > 0 /\ DataAvail = 0
            /\ reader' = "waiting"
            /\ UNCHANGED <<widx, ridx, full, buf, writer, wleft, rleft, nput,
                           ntaken, rdata>>

ReadResume == reader = "woken" /\ ReadBody

Next == \/ \E n \in 1..MaxPacket : StartPacket(n)
        \/ Write \/ WriteWait \/ WriteResume
        \/ \E n \in 1..MaxRecv : StartRecv(n)
        \/ Read \/ ReadWait \/ ReadResume

\* Condition variables wake only on a signal.  POSIX allows other wake-ups, after
\* which the code would go on with an empty or a full buffer.
Spec == Init /\ [][Next]_vars

\* A thread inside a call that does not wait is scheduled again.  Nothing makes
\* the callers start a new packet or a new flexsoc_recv.
Fairness == /\ WF_vars(Write \/ WriteWait) /\ WF_vars(WriteResume)
            /\ WF_vars(Read \/ ReadWait) /\ WF_vars(ReadResume)

FairSpec == Spec /\ Fairness

-----------------------------------------------------------------------------
ThreadPlaces == {"out", "waiting", "woken"}

\* The class's fields and the callers' counters stay in their ranges: in
\* particular both indexes name a slot, so both memcpy stay inside _buf.
TypeOK == /\ widx \in Slots /\ ridx \in Slots
          /\ full \in BOOLEAN
          /\ buf \in [Slots -> Int]
          /\ writer \in ThreadPlaces /\ reader \in ThreadPlaces
          /\ wleft \in 0..MaxPacket /\ rleft \in 0..MaxRecv
          /\ nput \in Nat /\ ntaken \in Nat
          /\ rdata \in Seq(Int)

\* The buffer never holds a negative number of bytes (a byte read that was not
\* written) nor more than Size (a byte overwritten before it was read): "Buffer
\* will block when full or empty", Cbuf.h:2.
OccupancyBounded == nput - ntaken \in 0..Size

\* Nobody sleeps while what it waits for is there: the reader waits only on an
\* empty buffer, the writer only on a full one (Cbuf.cpp:58 and :99 signal when
\* that stops being so).
NoLostWakeup == /\ reader = "waiting" => DataAvail = 0
                /\ writer = "waiting" => SpaceAvail = 0

\* Cbuf implements the abstract queue: Read returns the bytes of the stream in
\* order, each exactly once, and Write never loses one.
Fifo == INSTANCE ByteFifo WITH Capacity <- Size, put <- nput,
                               taken <- ntaken, last <- rdata
ImplementsFifo == Fifo!FifoSpec

\* A flexsoc_recv whose bytes have all been stored returns.
RecvCompletes == (rleft > 0 /\ nput - ntaken >= rleft) ~> (rleft = 0)

\* A packet that fits in the free space is stored, even when the writer had to
\* wait for that space.
PacketStored ==
  (wleft > 0 /\ nput - ntaken + wleft <= Size) ~> (wleft = 0)
=============================================================================
