----------------------------- MODULE CbufProofs -----------------------------
(***************************************************************************)
(* Cbuf is correct for every buffer size, packet length and read length    *)
(* that its assumptions allow, when threads wake only on a signal: Spec.   *)
(*                                                                         *)
(* The inductive invariant IInv says where the unread bytes are.  Held is  *)
(* how many there are according to the indexes; the k-th of them lies in   *)
(* slot Slot(k) and is byte ntaken + k of the stream.  A thread that waits *)
(* has a reason to, and a thread that was woken finds what it waited for:  *)
(* that is why the missing second check does no harm as long as only a     *)
(* signal wakes a thread.                                                  *)
(***************************************************************************)
EXTENDS Cbuf, TLAPS

Held == IF full THEN Size
        ELSE IF widx >= ridx THEN widx - ridx ELSE widx - ridx + Size

Slot(k) == IF ridx + k < Size THEN ridx + k ELSE ridx + k - Size

Counted == /\ nput - ntaken = Held
           /\ full => widx = ridx

Stored == \A k \in 0..(Held - 1) : buf[Slot(k)] = ntaken + k

Reasons == /\ reader = "waiting" => Held = 0
           /\ reader = "woken" => Held > 0
           /\ reader # "out" => rleft > 0
           /\ writer = "waiting" => full
           /\ writer = "woken" => ~full
           /\ writer # "out" => wleft > 0

IInv == TypeOK /\ Counted /\ Stored /\ Reasons

-----------------------------------------------------------------------------
(* Arithmetic of the indexes.                                              *)

\* A number already in range is its own remainder.
LEMMA ModSmall ==
  ASSUME NEW m \in Nat \ {0}, NEW x \in 0..(m - 1)
  PROVE  x % m = x
BY SMT

\* One period below zero, the remainder is one period up.
LEMMA ModNegative ==
  ASSUME NEW m \in Nat \ {0}, NEW x \in (1 - m)..(-1)
  PROVE  x % m = x + m
BY SMT

\* Whole periods do not change the remainder.
LEMMA ModShift ==
  ASSUME NEW m \in Nat \ {0}, NEW q \in Nat, NEW x \in 0..(m - 1)
  PROVE  (q * m + x) % m = x
BY SMTT(30)

\* The distance between two slots, reduced modulo 2^32 as the unsigned
\* subtraction does and then modulo Size, is the cyclic distance: this is where
\* Size has to divide 2^32.
LEMMA ModDifference ==
  ASSUME NEW a \in Slots, NEW b \in Slots
  PROVE  ((a - b) % Wrap) % Size = IF a >= b THEN a - b ELSE a - b + Size
<1> DEFINE d == a - b
<1>1. Size \in Nat \ {0}
  BY SizeAssumption
<1>2. PICK q \in 1..Wrap : Wrap = q * Size
  BY WrapAssumption
<1>3. d \in (1 - Size)..(Size - 1)
  BY <1>1 DEF Slots
<1>4. Wrap \in Nat \ {0} /\ Wrap >= Size
  BY <1>1, <1>2, WrapAssumption
<1>5. CASE a >= b
  <2>1. d \in 0..(Size - 1) /\ d \in 0..(Wrap - 1)
    BY <1>5, <1>3, <1>4, <1>1 DEF Slots
  <2>2. d % Wrap = d
    BY <2>1, <1>4, ModSmall
  <2>3. d % Size = d
    BY <2>1, <1>1, ModSmall
  <2> QED BY <2>2, <2>3, <1>5
<1>6. CASE ~(a >= b)
  <2>1. d \in (1 - Wrap)..(-1) /\ d + Size \in 0..(Size - 1)
    BY <1>6, <1>3, <1>4, <1>1 DEF Slots
  <2>2. d % Wrap = d + Wrap
    BY <2>1, <1>4, ModNegative
  <2>3. d + Wrap = (q - 1) * Size + (d + Size) /\ q - 1 \in Nat
    BY <1>2, <1>1, <1>3
  <2>4. ((q - 1) * Size + (d + Size)) % Size = d + Size
    BY <2>1, <2>3, <1>1, ModShift
  <2> HIDE DEF d
  <2>5. (d % Wrap) % Size = d + Size
    BY <2>2, <2>3, <2>4
  <2> QED BY <2>5, <1>6 DEF d
<1> QED BY <1>5, <1>6

\* The tests of Write and Read, in terms of the indexes.
LEMMA Availability ==
  ASSUME TypeOK, Counted
  PROVE  /\ SpaceAvail = 0 <=> full
         /\ DataAvail = 0 <=> Held = 0
<1>1. Size \in Nat /\ Size > 0
  BY SizeAssumption
<1>2. /\ widx \in Slots /\ ridx \in Slots
      /\ ((widx - ridx) % Wrap) % Size =
            IF widx >= ridx THEN widx - ridx ELSE widx - ridx + Size
  BY ModDifference DEF TypeOK
<1>3. CASE full
  BY <1>1, <1>2, <1>3 DEF SpaceAvail, DataAvail, Held
<1>4. CASE ~full
  BY <1>1, <1>2, <1>4 DEF SpaceAvail, DataAvail, Held, Slots
<1> QED BY <1>3, <1>4

\* How far one Write goes: not past the unread bytes, not past the array.
LEMMA WriteSpan ==
  ASSUME TypeOK, Counted, ~full, wleft > 0
  PROVE  /\ WriteSize \in 1..wleft
         /\ WriteSize <= Size - Held
         /\ widx + WriteSize <= Size
         /\ ridx > widx => widx + WriteSize <= ridx
BY SizeAssumption DEF TypeOK, WriteSize, Span, Held, Slots

\* How far one Read goes: not past the unwritten bytes, not past the array.
LEMMA ReadSpan ==
  ASSUME TypeOK, Counted, Held > 0, rleft > 0
  PROVE  /\ ReadSize \in 1..rleft
         /\ ReadSize <= Held
         /\ ridx + ReadSize <= Size
         /\ ridx < widx => ridx + ReadSize <= widx
BY SizeAssumption DEF TypeOK, Counted, ReadSize, Span, Held, Slots

\* The indexes never account for more than Size bytes.
LEMMA HeldRange ==
  ASSUME TypeOK, Counted
  PROVE  Held \in 0..Size
BY SizeAssumption DEF TypeOK, Held, Slots

-----------------------------------------------------------------------------
(* The two critical sections preserve the invariant and act on the queue.  *)

\* The critical section of Write: on a buffer that is not full it keeps IInv
\* and puts its bytes into the abstract queue.
LEMMA WriteStep ==
  ASSUME IInv, ~full, wleft > 0, writer # "waiting", WriteBody
  PROVE  IInv' /\ Fifo!FifoNext
<1> DEFINE sz == WriteSize
           w == Advance(widx, sz)
<1>1. /\ sz \in 1..wleft
      /\ sz <= Size - Held
      /\ widx + sz <= Size
      /\ ridx > widx => widx + sz <= ridx
  BY WriteSpan DEF IInv
<1> HIDE DEF sz
<1>2. /\ Size \in Nat /\ Size > 0 /\ widx \in 0..(Size - 1)
      /\ ridx \in 0..(Size - 1) /\ sz \in Nat /\ sz > 0
      /\ nput \in Nat /\ ntaken \in Nat /\ wleft \in 0..MaxPacket
      /\ MaxPacket \in Nat
  BY <1>1, SizeAssumption, LengthAssumption DEF IInv, TypeOK, Slots
<1>3. /\ buf' = [s \in Slots |-> IF s \in widx..(widx + sz - 1)
                                   THEN nput + (s - widx) ELSE buf[s]]
      /\ widx' = w /\ full' \in BOOLEAN /\ (full' <=> w = ridx)
      /\ reader' = Signal(reader) /\ writer' = "out"
      /\ wleft' = wleft - sz /\ nput' = nput + sz
      /\ ridx' = ridx /\ rleft' = rleft
      /\ ntaken' = ntaken /\ rdata' = rdata
  BY <1>1, <1>2 DEF WriteBody, sz, IInv, TypeOK
<1>4. w = IF widx + sz = Size THEN 0 ELSE widx + sz
  BY <1>1, <1>2 DEF Advance
<1>5. Held' = Held + sz
  BY <1>1, <1>2, <1>3, <1>4 DEF Held
<1>6. TypeOK'
  <2>1. buf' \in [Slots -> Int]
    BY <1>2, <1>3 DEF IInv, TypeOK, Slots
  <2>2. widx' \in Slots /\ ridx' \in Slots
    BY <1>1, <1>2, <1>3, <1>4 DEF Slots
  <2>3. wleft' \in 0..MaxPacket /\ nput' \in Nat
    BY <1>1, <1>2, <1>3
  <2> QED BY <2>1, <2>2, <2>3, <1>3 DEF IInv, TypeOK, ThreadPlaces, Signal
<1>7. Counted'
  BY <1>1, <1>2, <1>3, <1>5 DEF IInv, Counted
<1>8. Stored'
  <2> SUFFICES ASSUME NEW k \in (0..(Held - 1))'
               PROVE  (buf[Slot(k)] = ntaken + k)'
    BY DEF Stored
  <2>0. Held \in 0..Size /\ nput - ntaken = Held
    BY HeldRange DEF IInv, Counted
  <2>4. Slot(k)' = Slot(k) /\ k \in 0..(Held + sz - 1)
    BY <2>0, <1>2, <1>3, <1>5 DEF Slot
  <2>5. SUFFICES buf'[Slot(k)] = ntaken + k
    BY <2>4, <1>3
  <2>1. k \in Int /\ 0 <= k /\ k < Held + sz /\ Slot(k) \in Slots
    BY <2>0, <2>4, <1>1, <1>2 DEF Slot, Slots
  <2>2. CASE k < Held
    <3>1. Slot(k) \notin widx..(widx + sz - 1)
      BY <2>0, <2>1, <2>2, <1>1, <1>2 DEF Slot, Held
    <3>2. buf'[Slot(k)] = buf[Slot(k)]
      BY <3>1, <2>1, <1>3
    <3> QED BY <3>2, <2>0, <2>1, <2>2 DEF IInv, Stored
  <2>3. CASE k >= Held
    <3>1. Slot(k) = widx + (k - Held)
      BY <2>0, <2>1, <2>3, <1>1, <1>2 DEF Slot, Held
    <3>2. Slot(k) \in widx..(widx + sz - 1)
      BY <3>1, <2>0, <2>1, <2>3, <1>2
    <3>3. buf'[Slot(k)] = nput + (Slot(k) - widx)
      BY <3>2, <2>1, <1>3
    <3> QED BY <3>1, <3>3, <2>0, <2>1, <1>2
  <2> QED BY <2>0, <2>1, <2>2, <2>3
<1>9. Reasons'
  <2>1. Held \in 0..Size
    BY HeldRange DEF IInv
  <2>2. reader' = "waiting" => FALSE
    BY <1>3 DEF Signal
  <2> QED BY <2>1, <2>2, <1>2, <1>3, <1>5 DEF IInv, Reasons, Signal
<1>10. Fifo!FifoNext
  <2>0. Held \in 0..Size /\ nput - ntaken = Held
    BY HeldRange DEF IInv, Counted
  <2>1. sz \in 1..Size
    BY <2>0, <1>1, <1>2
  <2>2. Fifo!Put(sz)
    BY <2>0, <1>1, <1>2, <1>3 DEF Fifo!Put
  <2> QED BY <2>1, <2>2 DEF Fifo!FifoNext
<1> QED BY <1>6, <1>7, <1>8, <1>9, <1>10 DEF IInv

\* The critical section of Read: on a buffer that is not empty it keeps IInv
\* and takes its bytes from the abstract queue.
LEMMA ReadStep ==
  ASSUME IInv, Held > 0, rleft > 0, reader # "waiting", ReadBody
  PROVE  IInv' /\ Fifo!FifoNext
<1> DEFINE sz == ReadSize
           r == Advance(ridx, sz)
<1>1. /\ sz \in 1..rleft
      /\ sz <= Held
      /\ ridx + sz <= Size
      /\ ridx < widx => ridx + sz <= widx
  BY ReadSpan DEF IInv
<1> HIDE DEF sz
<1>2. /\ Size \in Nat /\ Size > 0 /\ widx \in 0..(Size - 1)
      /\ ridx \in 0..(Size - 1) /\ sz \in Nat /\ sz > 0
      /\ nput \in Nat /\ ntaken \in Nat /\ rleft \in 0..MaxRecv
      /\ MaxRecv \in 1..(Size - 1)
  BY <1>1, SizeAssumption, LengthAssumption DEF IInv, TypeOK, Slots
<1>3. Held \in 0..Size /\ nput - ntaken = Held /\ (full => widx = ridx)
  BY HeldRange DEF IInv, Counted
<1>4. /\ rdata' = [k \in 1..sz |-> buf[ridx + k - 1]]
      /\ ridx' = r /\ full' = FALSE
      /\ writer' = IF r # widx THEN Signal(writer) ELSE writer
      /\ reader' = "out" /\ rleft' = rleft - sz /\ ntaken' = ntaken + sz
      /\ widx' = widx /\ buf' = buf /\ wleft' = wleft /\ nput' = nput
  BY <1>1, <1>2 DEF ReadBody, sz
<1>5. r = IF ridx + sz = Size THEN 0 ELSE ridx + sz
  BY <1>1, <1>2 DEF Advance
<1>6. Held' = Held - sz
  BY <1>1, <1>2, <1>3, <1>4, <1>5 DEF Held
<1>7. \A k \in 1..sz : buf[ridx + k - 1] = ntaken + k - 1
  <2> TAKE k \in 1..sz
  <2>1. k - 1 \in 0..(Held - 1) /\ Slot(k - 1) = ridx + k - 1
    BY <1>1, <1>2, <1>3 DEF Slot
  <2>2. buf[Slot(k - 1)] = ntaken + (k - 1)
    BY <2>1 DEF IInv, Stored
  <2> QED BY <2>1, <2>2, <1>2
<1>8. TypeOK'
  <2>1. ridx' \in Slots
    BY <1>1, <1>2, <1>4, <1>5 DEF Slots
  <2>2. rleft' \in 0..MaxRecv /\ ntaken' \in Nat
    BY <1>1, <1>2, <1>4
  <2>3. rdata' \in Seq(Int)
    <3>1. \A k \in 1..sz : buf[ridx + k - 1] \in Int
      BY <1>7, <1>2
    <3> QED BY <3>1, <1>2, <1>4
  <2> QED BY <2>1, <2>2, <2>3, <1>4 DEF IInv, TypeOK, ThreadPlaces, Signal
<1>9. Counted'
  BY <1>1, <1>2, <1>3, <1>4, <1>6 DEF Counted
<1>10. Stored'
  <2> SUFFICES ASSUME NEW k \in (0..(Held - 1))'
               PROVE  (buf[Slot(k)] = ntaken + k)'
    BY DEF Stored
  <2>1. k \in 0..(Held - sz - 1)
    BY <1>2, <1>3, <1>6
  <2>2. Slot(k)' = Slot(k + sz)
    BY <2>1, <1>1, <1>2, <1>3, <1>4, <1>5 DEF Slot
  <2>3. k + sz \in 0..(Held - 1)
    BY <2>1, <1>2, <1>3
  <2>4. buf[Slot(k + sz)] = ntaken + (k + sz)
    BY <2>3 DEF IInv, Stored
  <2> QED BY <2>1, <2>2, <2>4, <1>2, <1>4
<1>11. Reasons'
  <2>1. full => r # widx
    BY <1>1, <1>2, <1>3, <1>5
  <2>2. writer' # "waiting"
    BY <2>1, <1>4 DEF Signal, IInv, Reasons
  <2>3. writer' # "out" => wleft' > 0
    BY <1>4 DEF Signal, IInv, Reasons
  <2> QED BY <2>2, <2>3, <1>4 DEF Reasons
<1>12. Fifo!FifoNext
  <2>1. sz \in 1..Size
    BY <1>1, <1>2, <1>3
  <2>2. rdata' = [k \in 1..sz |-> ntaken + k - 1]
    BY <1>4, <1>7
  <2>3. Fifo!Get(sz)
    BY <2>2, <1>1, <1>2, <1>3, <1>4 DEF Fifo!Get
  <2> QED BY <2>1, <2>3 DEF Fifo!FifoNext
<1> QED BY <1>8, <1>9, <1>10, <1>11, <1>12 DEF IInv

-----------------------------------------------------------------------------
(* The invariant holds initially and every step preserves it, and every    *)
(* step is a step of the abstract queue or leaves it alone.                *)

\* A step that moves neither index and no byte keeps where the bytes are.
LEMMA FrameStep ==
  ASSUME IInv, UNCHANGED <<widx, ridx, full, buf, nput, ntaken, rdata>>,
         writer' \in ThreadPlaces, reader' \in ThreadPlaces,
         wleft' \in 0..MaxPacket, rleft' \in 0..MaxRecv,
         Reasons'
  PROVE  IInv' /\ UNCHANGED Fifo!fifoVars
<1>1. Held' = Held
  BY DEF Held
<1>2. TypeOK'
  BY DEF IInv, TypeOK
<1>3. Counted'
  BY <1>1 DEF IInv, Counted
<1>4. Stored'
  BY DEF IInv, Stored, Held, Slot
<1> QED BY <1>2, <1>3, <1>4 DEF IInv, Fifo!fifoVars

\* The constructor (Cbuf.h:31) establishes IInv and an empty abstract queue.
LEMMA InitStep == Init => IInv /\ Fifo!FifoInit
<1> SUFFICES ASSUME Init PROVE IInv /\ Fifo!FifoInit
  OBVIOUS
<1>1. Size \in Nat \ {0} /\ MaxPacket \in Nat /\ MaxRecv \in Nat
  BY SizeAssumption, LengthAssumption
<1>2. Held = 0
  BY DEF Init, Held
<1>3. TypeOK
  BY <1>1 DEF Init, TypeOK, Slots, ThreadPlaces, Unset
<1> QED BY <1>1, <1>2, <1>3
        DEF IInv, Init, Counted, Stored, Reasons, Fifo!FifoInit

\* Every step keeps IInv, and is a step of the abstract queue or leaves it
\* alone.
LEMMA NextStep ==
  ASSUME IInv, [Next]_vars
  PROVE  IInv' /\ [Fifo!FifoNext]_(Fifo!fifoVars)
<1>1. /\ SpaceAvail = 0 <=> full
      /\ DataAvail = 0 <=> Held = 0
      /\ Held \in 0..Size /\ Size \in Nat \ {0}
  BY Availability, HeldRange, SizeAssumption DEF IInv
<1>2. ASSUME NEW n \in 1..MaxPacket, StartPacket(n)
      PROVE  IInv' /\ UNCHANGED Fifo!fifoVars
  <2>1. Reasons'
    BY <1>2, LengthAssumption DEF StartPacket, IInv, Reasons, Held
  <2> QED BY <1>2, <2>1, FrameStep, LengthAssumption
          DEF StartPacket, IInv, TypeOK
<1>3. ASSUME Write PROVE IInv' /\ Fifo!FifoNext
  BY <1>1, <1>3, WriteStep DEF Write
<1>4. ASSUME WriteWait PROVE IInv' /\ UNCHANGED Fifo!fifoVars
  <2>1. Reasons'
    BY <1>1, <1>4 DEF WriteWait, IInv, Reasons, Held
  <2> QED BY <1>4, <2>1, FrameStep DEF WriteWait, IInv, TypeOK, ThreadPlaces
<1>5. ASSUME WriteResume PROVE IInv' /\ Fifo!FifoNext
  BY <1>5, WriteStep DEF WriteResume, IInv, Reasons
<1>6. ASSUME NEW n \in 1..MaxRecv, StartRecv(n)
      PROVE  IInv' /\ UNCHANGED Fifo!fifoVars
  <2>1. Reasons'
    BY <1>6, LengthAssumption DEF StartRecv, IInv, Reasons, Held
  <2> QED BY <1>6, <2>1, FrameStep, LengthAssumption
          DEF StartRecv, IInv, TypeOK
<1>7. ASSUME Read PROVE IInv' /\ Fifo!FifoNext
  BY <1>1, <1>7, ReadStep DEF Read
<1>8. ASSUME ReadWait PROVE IInv' /\ UNCHANGED Fifo!fifoVars
  <2>1. Reasons'
    BY <1>1, <1>8 DEF ReadWait, IInv, Reasons, Held
  <2> QED BY <1>8, <2>1, FrameStep DEF ReadWait, IInv, TypeOK, ThreadPlaces
<1>9. ASSUME ReadResume PROVE IInv' /\ Fifo!FifoNext
  BY <1>9, ReadStep DEF ReadResume, IInv, Reasons
<1>10. ASSUME UNCHANGED vars PROVE IInv' /\ UNCHANGED Fifo!fifoVars
  <2>1. Reasons'
    BY <1>10 DEF vars, IInv, Reasons, Held
  <2> QED BY <1>10, <2>1, FrameStep DEF vars, IInv, TypeOK
<1> QED BY <1>2, <1>3, <1>4, <1>5, <1>6, <1>7, <1>8, <1>9, <1>10 DEF Next

\* The fields of the class stay in their ranges (both memcpy of Cbuf.cpp stay
\* inside _buf), the unread bytes are where the indexes say, and a thread that
\* sleeps in Read or Write has a reason to.
THEOREM Invariance == Spec => []IInv
<1>1. Init => IInv
  BY InitStep
<1>2. IInv /\ [Next]_vars => IInv'
  BY NextStep
<1> QED BY <1>1, <1>2, PTL DEF Spec

\* TypeOK holds of every execution of the buffer (Cbuf.cpp), for all sizes.
THEOREM TypeCorrect == Spec => []TypeOK
<1>1. IInv => TypeOK
  BY DEF IInv
<1> QED BY <1>1, Invariance, PTL

\* The buffer never holds fewer than 0 or more than Size unread bytes.
THEOREM Bounded == Spec => []OccupancyBounded
<1>1. IInv => OccupancyBounded
  BY HeldRange DEF IInv, Counted, OccupancyBounded
<1> QED BY <1>1, Invariance, PTL

\* The signals of Cbuf.cpp:59 and :100 are enough: nobody is left asleep.
THEOREM NobodyLeftAsleep == Spec => []NoLostWakeup
<1>1. IInv => NoLostWakeup
  BY Availability DEF IInv, Reasons, NoLostWakeup
<1> QED BY <1>1, Invariance, PTL

\* Cbuf implements the abstract queue of bytes.
THEOREM Refinement == Spec => ImplementsFifo
<1>1. Init => Fifo!FifoInit
  BY InitStep
<1>2. IInv /\ [Next]_vars => [Fifo!FifoNext]_(Fifo!fifoVars)
  BY NextStep
<1> QED BY <1>1, <1>2, Invariance, PTL DEF Spec, ImplementsFifo, Fifo!FifoSpec
=============================================================================
