------------------------- MODULE TransferOrderProofs -------------------------
(***************************************************************************)
(* The pipelined accesses of flexsoc_read and flexsoc_write, for every     *)
(* buffer size, transfer length, width and speed: each response is that of *)
(* the element it is stored for, each command finds the device where its   *)
(* predecessor left it, what is on its way is bounded by two receive       *)
(* buffers, and no bus error goes unnoticed.                               *)
(*                                                                         *)
(* The argument: the elements of the transfer under api_lock up to the one *)
(* that the caller is at are, in this order, processed, in mbuf, on the    *)
(* way to the device, and in the buffer that is being filled; the bytes    *)
(* expected count exactly the ones that are not processed.  BuffersSuffice *)
(* (BlockTransferProofs) gives the bounds of the indexes and counts.       *)
(***************************************************************************)
EXTENDS BlockTransferProofs, SequenceTheorems

Responses == [by : Callers, k : Int, err : BOOLEAN]

\* The places between Lock and Unlock.
Inside == {"loop", "older", "put", "rest", "unlock"}

\* The commands that caller t has in the buffer that it fills.
Gathered(t) ==
  IF pc[t] = "loop" /\ loc[t].idx # 0 THEN tbuf[loc[t].bi] ELSE <<>>

\* The elements done..i-1 of a transfer of t are those of the responses to be
\* read, the commands sent and the ones gathered; the device is just behind the
\* last response.
Pipeline(t, i, done, gathered, sent, responses, latest) ==
  LET next == done + Len(responses)   \* the element the device performs next
  IN /\ next + Len(sent) + Len(gathered) = i
     /\ \A k \in 1..Len(responses) :
          responses[k].by = t /\ responses[k].k = done + k - 1
     /\ \A k \in 1..Len(sent) : sent[k] = [by |-> t, k |-> next + k - 1]
     /\ \A k \in 1..Len(gathered) :
          gathered[k] = [by |-> t, k |-> next + Len(sent) + k - 1]
     /\ next > 0 => latest = [by |-> t, k |-> next - 1]

\* The bytes expected for the two buffers are whole responses of R bytes, to the
\* elements not processed, and for the current buffer to the n gathered in it.
Expected(R, rcnt, pending, p, bi, n) ==
  \E c \in [0..1 -> Nat] :
    /\ \A b \in 0..1 : rcnt[b] = R * c[b]
    /\ c[0] + c[1] = pending
    /\ p = "loop" => c[bi] = n
    /\ p = "put" => c[bi] = 0
    /\ p = "unlock" => pending = 0

\* The transfer that caller t makes.
Ordered(t) ==
  LET l == loc[t]
  IN /\ Pipeline(t, l.i, l.done, Gathered(t), toDev, mbuf, last)
     /\ Expected(ResponseSize(xfer[t]), l.rcnt, l.i - l.done, pc[t], l.bi,
                 Len(Gathered(t)))

\* A bus error is still among the responses when the caller has not seen it.
Unseen(responses) == \E k \in 1..Len(responses) : responses[k].err

OrderInv ==
  /\ mbuf \in Seq(Responses)
  /\ \A t \in Callers : pc[t] \in Inside <=> api_lock = t
  /\ \A t \in Callers : pc[t] = "lock" => loc[t] = Fresh
  /\ api_lock = "nobody" => mbuf = <<>> /\ toDev = <<>>
  /\ \A t \in Callers : api_lock = t => Ordered(t)
  /\ \A t \in failed : api_lock = t /\ (process = "running" => Unseen(mbuf))

-----------------------------------------------------------------------------
(* The pipeline, and the bytes expected, operation by operation.           *)

\* A command gathered for element i.
LEMMA PipelinePut ==
  ASSUME NEW t \in Callers, NEW i \in Nat, NEW done \in Nat,
         NEW gathered \in Seq(Commands), NEW sent \in Seq(Commands),
         NEW responses \in Seq(Responses), NEW latest,
         Pipeline(t, i, done, gathered, sent, responses, latest)
  PROVE  Pipeline(t, i + 1, done, Append(gathered, [by |-> t, k |-> i]), sent,
                  responses, latest)
<1> DEFINE command == [by |-> t, k |-> i]
           longer == Append(gathered, command)
           next == done + Len(responses)
<1>1. command \in Commands
  BY DEF Commands
<1>2. /\ Len(gathered) \in Nat /\ Len(sent) \in Nat /\ Len(responses) \in Nat
      /\ next \in Nat /\ next + Len(sent) + Len(gathered) = i
  BY DEF Pipeline
<1>3. /\ Len(longer) = Len(gathered) + 1 /\ longer[Len(gathered) + 1] = command
      /\ \A k \in 1..Len(gathered) : longer[k] = gathered[k]
  BY <1>1, AppendProperties
<1>4. \A k \in 1..Len(gathered) :
        gathered[k] = [by |-> t, k |-> next + Len(sent) + k - 1]
  BY DEF Pipeline
<1> HIDE DEF longer, command, next
<1>5. ASSUME NEW k \in 1..Len(longer)
      PROVE  longer[k] = [by |-> t, k |-> next + Len(sent) + k - 1]
  <2>1. CASE k = Len(gathered) + 1
    <3>1. next + Len(sent) + k - 1 = i
      BY <2>1, <1>2
    <3> QED BY <3>1, <2>1, <1>3 DEF command
  <2>2. CASE k # Len(gathered) + 1
    <3>1. k \in 1..Len(gathered)
      BY <2>2, <1>2, <1>3
    <3> QED BY <3>1, <1>3, <1>4
  <2> QED BY <2>1, <2>2
<1>6. next + Len(sent) + Len(longer) = i + 1
  BY <1>2, <1>3, SMTT(30)
<1> QED BY <1>5, <1>6 DEF Pipeline, longer, command, next

\* The gathered commands sent.
LEMMA PipelineSend ==
  ASSUME NEW t \in Callers, NEW i \in Nat, NEW done \in Nat,
         NEW gathered \in Seq(Commands), NEW sent \in Seq(Commands),
         NEW responses \in Seq(Responses), NEW latest,
         Pipeline(t, i, done, gathered, sent, responses, latest)
  PROVE  Pipeline(t, i, done, <<>>, sent \o gathered, responses, latest)
<1> DEFINE all == sent \o gathered
           next == done + Len(responses)
<1>1. /\ Len(gathered) \in Nat /\ Len(sent) \in Nat /\ Len(responses) \in Nat
      /\ next \in Nat /\ next + Len(sent) + Len(gathered) = i
  BY DEF Pipeline
<1>2. /\ Len(all) = Len(sent) + Len(gathered)
      /\ \A k \in 1..(Len(sent) + Len(gathered)) :
           all[k] = IF k <= Len(sent) THEN sent[k] ELSE gathered[k - Len(sent)]
  BY ConcatProperties
<1>3. /\ \A k \in 1..Len(sent) : sent[k] = [by |-> t, k |-> next + k - 1]
      /\ \A k \in 1..Len(gathered) :
           gathered[k] = [by |-> t, k |-> next + Len(sent) + k - 1]
  BY DEF Pipeline
<1> HIDE DEF all, next
<1>4. ASSUME NEW k \in 1..Len(all)
      PROVE  all[k] = [by |-> t, k |-> next + k - 1]
  <2>1. CASE k <= Len(sent)
    <3>1. k \in 1..Len(sent) /\ all[k] = sent[k]
      BY <2>1, <1>1, <1>2
    <3> QED BY <3>1, <1>3
  <2>2. CASE ~(k <= Len(sent))
    <3>1. /\ k - Len(sent) \in 1..Len(gathered)
          /\ all[k] = gathered[k - Len(sent)]
      BY <2>2, <1>1, <1>2
    <3>2. next + Len(sent) + (k - Len(sent)) - 1 = next + k - 1
      BY <1>1
    <3> QED BY <3>1, <3>2, <1>3
  <2> QED BY <2>1, <2>2
<1>5. next + Len(all) + Len(<<>>) = i
  BY <1>1, <1>2
<1> QED BY <1>4, <1>5 DEF Pipeline, all, next

\* n responses read.
LEMMA PipelineReceive ==
  ASSUME NEW t \in Callers, NEW i \in Nat, NEW done \in Nat,
         NEW gathered \in Seq(Commands), NEW sent \in Seq(Commands),
         NEW responses \in Seq(Responses), NEW latest,
         Pipeline(t, i, done, gathered, sent, responses, latest),
         NEW n \in 0..Len(responses)
  PROVE  /\ SubSeq(responses, n + 1, Len(responses)) \in Seq(Responses)
         /\ Pipeline(t, i, done + n, gathered, sent,
                     SubSeq(responses, n + 1, Len(responses)), latest)
<1> DEFINE left == SubSeq(responses, n + 1, Len(responses))
           next == done + Len(responses)
<1>1. Len(responses) \in Nat /\ n \in Nat /\ next \in Nat
  OBVIOUS
<1>2. /\ left \in Seq(Responses) /\ Len(left) = Len(responses) - n
      /\ \A k \in 1..Len(left) : left[k] = responses[k + n]
  <2>1. \A k \in (n + 1)..Len(responses) : responses[k] \in Responses
    BY <1>1, ElementOfSeq
  <2>2. /\ left \in Seq(Responses)
        /\ Len(left) = IF n + 1 <= Len(responses)
                         THEN Len(responses) - (n + 1) + 1 ELSE 0
        /\ \A k \in 1..(Len(responses) - (n + 1) + 1) :
             left[k] = responses[(n + 1) + k - 1]
    BY <1>1, <2>1, SubSeqProperties
  <2> HIDE DEF left
  <2>3. Len(left) = Len(responses) - n
    BY <1>1, <2>2
  <2>4. ASSUME NEW k \in 1..Len(left) PROVE left[k] = responses[k + n]
    <3>1. k \in 1..(Len(responses) - (n + 1) + 1) /\ (n + 1) + k - 1 = k + n
      BY <1>1, <2>3
    <3> QED BY <3>1, <2>2
  <2> QED BY <2>2, <2>3, <2>4
<1> HIDE DEF left, next
<1>3. ASSUME NEW k \in 1..Len(left)
      PROVE  left[k].by = t /\ left[k].k = (done + n) + k - 1
  <2>1. k + n \in 1..Len(responses) /\ done + (k + n) - 1 = (done + n) + k - 1
    BY <1>1, <1>2
  <2>2. responses[k + n].by = t /\ responses[k + n].k = done + (k + n) - 1
    BY <2>1 DEF Pipeline
  <2> QED BY <2>1, <2>2, <1>2
<1>4. (done + n) + Len(left) = next
  BY <1>1, <1>2 DEF next
<1> QED BY <1>2, <1>3, <1>4 DEF Pipeline, left, next

\* The device performs the first command sent.
LEMMA PipelinePerform ==
  ASSUME NEW t \in Callers, NEW i \in Nat, NEW done \in Nat,
         NEW gathered \in Seq(Commands), NEW sent \in Seq(Commands),
         NEW responses \in Seq(Responses), NEW latest, NEW err \in BOOLEAN,
         Pipeline(t, i, done, gathered, sent, responses, latest),
         sent # <<>>
  PROVE  /\ Head(sent).by = t
         /\ Pipeline(t, i, done, gathered, Tail(sent),
                     Append(responses, [by |-> Head(sent).by,
                                        k |-> Head(sent).k, err |-> err]),
                     Head(sent))
<1> DEFINE r == [by |-> Head(sent).by, k |-> Head(sent).k, err |-> err]
           more == Append(responses, r)
           next == done + Len(responses)
<1>1. /\ Len(gathered) \in Nat /\ Len(sent) \in Nat /\ Len(responses) \in Nat
      /\ next \in Nat /\ next + Len(sent) + Len(gathered) = i
  BY DEF Pipeline
<1>2. /\ Head(sent) \in Commands /\ Tail(sent) \in Seq(Commands)
      /\ Len(Tail(sent)) = Len(sent) - 1
      /\ \A k \in 1..Len(Tail(sent)) : Tail(sent)[k] = sent[k + 1]
  BY HeadTailProperties
<1>3. Len(sent) > 0 /\ Head(sent) = sent[1]
  BY <1>1, EmptySeq
<1>4. /\ \A k \in 1..Len(responses) :
           responses[k].by = t /\ responses[k].k = done + k - 1
      /\ \A k \in 1..Len(sent) : sent[k] = [by |-> t, k |-> next + k - 1]
      /\ \A k \in 1..Len(gathered) :
           gathered[k] = [by |-> t, k |-> next + Len(sent) + k - 1]
  BY DEF Pipeline
<1> HIDE DEF next
<1>5. Head(sent) = [by |-> t, k |-> next]
  <2>1. 1 \in 1..Len(sent) /\ next + 1 - 1 = next
    BY <1>1, <1>3
  <2> QED BY <2>1, <1>3, <1>4
<1>6. r \in Responses /\ r.by = t /\ r.k = next
  BY <1>1, <1>5 DEF Responses
<1> HIDE DEF r
<1>7. /\ Len(more) = Len(responses) + 1 /\ more[Len(responses) + 1] = r
      /\ \A k \in 1..Len(responses) : more[k] = responses[k]
  BY <1>6, AppendProperties
<1> HIDE DEF more
<1>8. done + Len(more) = next + 1
  BY <1>1, <1>7 DEF next
<1>9. ASSUME NEW k \in 1..Len(more)
      PROVE  more[k].by = t /\ more[k].k = done + k - 1
  <2>1. CASE k = Len(responses) + 1
    <3>1. done + k - 1 = next
      BY <2>1, <1>1 DEF next
    <3> QED BY <2>1, <3>1, <1>6, <1>7
  <2>2. CASE k # Len(responses) + 1
    <3>1. k \in 1..Len(responses)
      BY <2>2, <1>1, <1>7
    <3> QED BY <3>1, <1>4, <1>7
  <2> QED BY <2>1, <2>2
<1>10. ASSUME NEW k \in 1..Len(Tail(sent))
       PROVE  Tail(sent)[k] = [by |-> t, k |-> (next + 1) + k - 1]
  <2>1. k + 1 \in 1..Len(sent) /\ next + (k + 1) - 1 = (next + 1) + k - 1
    BY <1>1, <1>2
  <2>2. sent[k + 1] = [by |-> t, k |-> next + (k + 1) - 1]
    BY <2>1, <1>4
  <2> QED BY <2>1, <2>2, <1>2
<1> DEFINE after == done + Len(more)
<1>12. after \in Nat /\ after = next + 1 /\ after - 1 = next
  BY <1>1, <1>8
<1> HIDE DEF after
<1>13. /\ after + Len(Tail(sent)) + Len(gathered) = i
       /\ after + Len(Tail(sent)) = next + Len(sent)
  BY <1>1, <1>2, <1>12
<1>14. /\ \A k \in 1..Len(Tail(sent)) :
            Tail(sent)[k] = [by |-> t, k |-> after + k - 1]
       /\ \A k \in 1..Len(gathered) :
            gathered[k] = [by |-> t, k |-> after + Len(Tail(sent)) + k - 1]
       /\ Head(sent) = [by |-> t, k |-> after - 1]
  BY <1>4, <1>5, <1>10, <1>12, <1>13
<1>15. Pipeline(t, i, done, gathered, Tail(sent), more, Head(sent))
  BY <1>9, <1>13, <1>14 DEF Pipeline, after
<1> QED BY <1>5, <1>15 DEF more, r

\* Whole responses are counted exactly.
LEMMA CountResponses ==
  ASSUME NEW R \in {1, 2, 3, 5}, NEW c \in Nat
  PROVE  (R * c) \div R = c
<1>1. CASE R = 1 BY <1>1
<1>2. CASE R = 2 BY <1>2
<1>3. CASE R = 3 BY <1>3
<1>4. CASE R = 5 BY <1>4
<1> QED BY <1>1, <1>2, <1>3, <1>4

\* One more command in the current buffer, and one more response expected.
LEMMA ExpectedPut ==
  ASSUME NEW R \in {1, 2, 3, 5}, NEW rcnt \in [0..1 -> Nat],
         NEW pending \in Nat, NEW bi \in 0..1, NEW n \in Nat,
         NEW p \in {"loop", "put"}, p = "put" => n = 0,
         Expected(R, rcnt, pending, p, bi, n)
  PROVE  Expected(R, [rcnt EXCEPT ![bi] = @ + R], pending + 1, "loop", bi,
                  n + 1)
<1>1. PICK c \in [0..1 -> Nat] :
        /\ \A b \in 0..1 : rcnt[b] = R * c[b]
        /\ c[0] + c[1] = pending
        /\ c[bi] = n
  BY DEF Expected
<1> DEFINE d == [c EXCEPT ![bi] = @ + 1]
           r == [rcnt EXCEPT ![bi] = @ + R]
<1>2. /\ d \in [0..1 -> Nat] /\ d[bi] = c[bi] + 1 /\ d[1 - bi] = c[1 - bi]
      /\ r[bi] = rcnt[bi] + R /\ r[1 - bi] = rcnt[1 - bi]
      /\ c[bi] \in Nat /\ c[1 - bi] \in Nat /\ 1 - bi \in 0..1
  BY <1>1
<1> HIDE DEF d, r
<1>3. d[0] + d[1] = pending + 1
  BY <1>1, <1>2
<1>4. R * c[bi] + R = R * (c[bi] + 1)
  BY <1>2
<1>5. r[bi] = R * d[bi] /\ r[1 - bi] = R * d[1 - bi]
  BY <1>1, <1>2, <1>4
<1>6. \A b \in 0..1 : r[b] = R * d[b]
  BY <1>5, <1>2
<1>7. Expected(R, r, pending + 1, "loop", bi, n + 1)
  BY <1>1, <1>2, <1>3, <1>6 DEF Expected
<1> QED BY <1>7 DEF r

\* The caller goes on, to where it reads responses or to an empty buffer.
LEMMA ExpectedMove ==
  ASSUME NEW R \in {1, 2, 3, 5}, NEW rcnt, NEW pending, NEW bi, NEW n, NEW p,
         Expected(R, rcnt, pending, p, bi, n),
         NEW q \in {"older", "put", "rest"}, NEW b \in 0..1, NEW m,
         q = "put" => rcnt[b] = 0
  PROVE  Expected(R, rcnt, pending, q, b, m)
<1>1. PICK c \in [0..1 -> Nat] :
        /\ \A a \in 0..1 : rcnt[a] = R * c[a]
        /\ c[0] + c[1] = pending
  BY DEF Expected
<1>2. q = "put" => c[b] = 0
  <2>1. c[b] \in Nat /\ rcnt[b] = R * c[b]
    BY <1>1
  <2> QED BY <2>1
<1> QED BY <1>1, <1>2 DEF Expected

\* The responses to the commands of buffer b read.
LEMMA ExpectedReceive ==
  ASSUME NEW R \in {1, 2, 3, 5}, NEW rcnt \in [0..1 -> Nat],
         NEW pending \in Nat, NEW bi \in 0..1, NEW n, NEW p,
         Expected(R, rcnt, pending, p, bi, n),
         NEW b \in 0..1, NEW q \in {"put", "rest", "unlock"}, NEW m,
         q = "put" => b = bi, q = "unlock" => rcnt[1 - b] = 0,
         NEW r, r = [rcnt EXCEPT ![b] = 0], NEW k, k = rcnt[b] \div R,
         NEW left, left = pending - k
  PROVE  Expected(R, r, left, q, bi, m)
<1>1. PICK c \in [0..1 -> Nat] :
        /\ \A a \in 0..1 : rcnt[a] = R * c[a]
        /\ c[0] + c[1] = pending
  BY DEF Expected
<1> DEFINE d == [c EXCEPT ![b] = 0]
<1>2. /\ d \in [0..1 -> Nat] /\ d[b] = 0 /\ d[1 - b] = c[1 - b]
      /\ r[b] = 0 /\ r[1 - b] = rcnt[1 - b]
      /\ c[b] \in Nat /\ c[1 - b] \in Nat /\ 1 - b \in 0..1
      /\ rcnt[1 - b] = R * c[1 - b] /\ rcnt[b] = R * c[b]
  BY <1>1
<1>3. k = c[b]
  BY <1>2, CountResponses
<1> HIDE DEF d
<1>4. c[b] + c[1 - b] = pending
  BY <1>1, <1>2
<1>5. d[0] + d[1] = pending - c[b]
  BY <1>2, <1>4
<1>6. r[b] = R * d[b] /\ r[1 - b] = R * d[1 - b]
  BY <1>2
<1>7. \A a \in 0..1 : r[a] = R * d[a]
  BY <1>6, <1>2
<1>8. q = "unlock" => pending - c[b] = 0
  BY <1>2, <1>4
<1>9. q = "put" => d[bi] = 0
  BY <1>2
<1>10. Expected(R, r, pending - c[b], q, bi, m)
  BY <1>2, <1>5, <1>7, <1>8, <1>9 DEF Expected
<1> QED BY <1>2, <1>3, <1>4, <1>10

-----------------------------------------------------------------------------
(* The actions of a caller.                                                *)

\* The locals of a caller are numbers.
LEMMA LocalTypes ==
  ASSUME IInv, NEW t \in Callers
  PROVE  /\ loc[t] \in Locals /\ loc[t].i \in Nat /\ loc[t].done \in Nat
         /\ loc[t].idx \in Nat /\ loc[t].bi \in 0..1 /\ 1 - loc[t].bi \in 0..1
         /\ loc[t].rcnt \in [0..1 -> Nat] /\ loc[t].process \in BOOLEAN
         /\ xfer[t].len \in Nat /\ loc[t].i - loc[t].done \in Nat
         /\ ResponseSize(xfer[t]) \in {1, 2, 3, 5}
         /\ CommandSize(xfer[t], loc[t].i) \in Nat \ {0}
         /\ \A b \in 0..1 : tbuf[b] \in Seq(Commands)
         /\ toDev \in Seq(Commands) /\ Gathered(t) \in Seq(Commands)
<1>1. /\ loc[t] \in Locals /\ xfer[t] \in Xfers
      /\ Sized(t, loc[t], xfer[t], pc[t], read_send_sz)
      /\ \A b \in 0..1 : tbuf[b] \in Seq(Commands)
      /\ toDev \in Seq(Commands)
  BY DEF IInv, Types
<1>2. /\ xfer[t].width \in {1, 2, 4} /\ xfer[t].len \in Nat
      /\ xfer[t].dir \in {"read", "write"}
  BY <1>1 DEF Xfers, Widths, Directions
<1>3. /\ loc[t].i \in Nat /\ loc[t].done \in Nat /\ loc[t].idx \in Nat
      /\ loc[t].bi \in 0..1 /\ loc[t].rcnt \in [0..1 -> Nat]
      /\ loc[t].process \in BOOLEAN
  BY <1>1 DEF Locals
<1>4. ResponseSize(xfer[t]) \in {1, 2, 3, 5}
  BY <1>2 DEF ResponseSize
<1>5. CommandSize(xfer[t], loc[t].i) \in Nat \ {0}
  BY <1>2, <1>3 DEF CommandSize
<1>6. loc[t].done <= loc[t].i
  BY <1>1 DEF Sized
<1>7. 1 - loc[t].bi \in 0..1
  BY <1>3
<1>8. Gathered(t) \in Seq(Commands)
  BY <1>1, <1>3, EmptySeq DEF Gathered
<1> QED BY <1>1, <1>2, <1>3, <1>4, <1>5, <1>6, <1>7, <1>8

\* A step of caller t that keeps api_lock leaves the other outside.
LEMMA OthersOutside ==
  ASSUME OrderInv, NEW t \in Callers, api_lock = t,
         api_lock' = api_lock, pc'[t] \in Inside, mbuf' \in Seq(Responses),
         \A u \in Callers \ {t} : pc'[u] = pc[u] /\ loc'[u] = loc[u],
         Ordered(t)',
         \A u \in failed' : u = t /\ (process' = "running" => Unseen(mbuf'))
  PROVE  OrderInv'
<1>1. /\ \A u \in Callers : u = api_lock' <=> u = t
      /\ api_lock' # "nobody"
  BY DEF Callers
<1>2. \A u \in Callers : pc'[u] \in Inside <=> api_lock' = u
  BY <1>1 DEF OrderInv
<1>3. \A u \in Callers : pc'[u] = "lock" => loc'[u] = Fresh
  BY DEF OrderInv, Inside
<1> QED BY <1>1, <1>2, <1>3 DEF OrderInv

\* What the invariant says of the caller that holds api_lock.
LEMMA Holder ==
  ASSUME IInv, OrderInv, NEW t \in Callers, pc[t] \in Inside
  PROVE  /\ api_lock = t /\ Ordered(t) /\ mbuf \in Seq(Responses)
         /\ \A u \in failed : u = t /\ (process = "running" => Unseen(mbuf))
BY DEF OrderInv

\* A transfer starts when its caller holds no lock; it has seen no error.
LEMMA StartOrder ==
  ASSUME IInv, OrderInv, NEW t \in Callers, Start(t)
  PROVE  OrderInv'
<1>1. /\ pc[t] = "idle" /\ pc' = [pc EXCEPT ![t] = "lock"]
      /\ loc' = [loc EXCEPT ![t] = Fresh] /\ failed' = failed \ {t}
      /\ UNCHANGED <<process, api_lock, tbuf, toDev, mbuf, last>>
      /\ \A u \in Callers \ {t} : xfer'[u] = xfer[u]
  BY DEF Start, IInv, Types
<1>2. /\ pc'[t] = "lock" /\ loc'[t] = Fresh
      /\ \A u \in Callers \ {t} : pc'[u] = pc[u] /\ loc'[u] = loc[u]
  BY <1>1 DEF IInv, Types
<1>3. api_lock # t
  BY <1>1 DEF OrderInv, Inside
<1>4. \A u \in Callers : pc'[u] \in Inside <=> api_lock' = u
  BY <1>1, <1>2, <1>3 DEF OrderInv, Inside
<1>5. \A u \in Callers : pc'[u] = "lock" => loc'[u] = Fresh
  BY <1>1, <1>2 DEF OrderInv
<1>6. ASSUME NEW u \in Callers, api_lock' = u
      PROVE  Ordered(u)'
  <2>1. u # t /\ Ordered(u)
    BY <1>1, <1>3, <1>6 DEF OrderInv
  <2>2. /\ pc'[u] = pc[u] /\ loc'[u] = loc[u] /\ xfer'[u] = xfer[u]
        /\ Gathered(u)' = Gathered(u)
    BY <2>1, <1>1, <1>2 DEF Gathered
  <2> QED BY <2>1, <2>2, <1>1 DEF Ordered
<1> QED BY <1>1, <1>4, <1>5, <1>6 DEF OrderInv

\* The lock is taken with the links empty, and kept by one caller.
LEMMA LockOrder ==
  ASSUME IInv, OrderInv, NEW t \in Callers, Lock(t)
  PROVE  OrderInv'
<1>1. /\ pc[t] = "lock" /\ pc' = [pc EXCEPT ![t] = "loop"]
      /\ api_lock = "nobody" /\ api_lock' = t /\ process = "running"
      /\ UNCHANGED <<process, tbuf, xfer, loc, toDev, mbuf, last, failed>>
  BY DEF Lock
<1>2. /\ pc'[t] = "loop" /\ \A u \in Callers \ {t} : pc'[u] = pc[u]
  BY <1>1 DEF IInv, Types
<1>3. loc[t] = Fresh /\ mbuf = <<>> /\ toDev = <<>>
  BY <1>1 DEF OrderInv
<1>4. failed = {}
  BY <1>1, <1>3 DEF OrderInv, Unseen, Callers
<1>5. Ordered(t)'
  <2>1. Gathered(t)' = <<>>
    BY <1>1, <1>3 DEF Gathered, Fresh
  <2>2. Pipeline(t, 0, 0, <<>>, <<>>, <<>>, last)
    BY DEF Pipeline
  <2>3. Expected(ResponseSize(xfer[t]), Fresh.rcnt, 0, "loop", 0, 0)
    <3> DEFINE c == [b \in 0..1 |-> 0]
               R == ResponseSize(xfer[t])
    <3>1. /\ c \in [0..1 -> Nat] /\ c[0] + c[1] = 0 /\ c[0] = 0
          /\ \A b \in 0..1 : c[b] = 0 /\ Fresh.rcnt[b] = 0
      BY DEF Fresh
    <3>2. R * 0 = 0
      BY LocalTypes
    <3> HIDE DEF c, R
    <3>3. \A b \in 0..1 : Fresh.rcnt[b] = R * c[b]
      BY <3>1, <3>2
    <3>4. Expected(R, Fresh.rcnt, 0, "loop", 0, 0)
      BY <3>1, <3>3 DEF Expected
    <3> QED BY <3>4 DEF R
  <2>4. Fresh.i = 0 /\ Fresh.done = 0 /\ Fresh.bi = 0 /\ 0 - 0 = 0
    BY DEF Fresh
  <2> QED BY <2>1, <2>2, <2>3, <2>4, <1>1, <1>2, <1>3 DEF Ordered
<1>6. \A u \in Callers : pc'[u] \in Inside <=> api_lock' = u
  BY <1>1, <1>2 DEF OrderInv, Inside, Callers
<1>7. \A u \in Callers : pc'[u] = "lock" => loc'[u] = Fresh
  BY <1>1, <1>2 DEF OrderInv
<1> QED BY <1>1, <1>4, <1>5, <1>6, <1>7 DEF OrderInv, Callers

\* A command put into the buffer joins the ones gathered.
LEMMA PutOrder ==
  ASSUME IInv, OrderInv, NEW t \in Callers, PutCommand(t),
         pc[t] \in {"loop", "put"}, pc' = [pc EXCEPT ![t] = "loop"],
         UNCHANGED <<process, api_lock, xfer, toDev, mbuf, last, failed>>
  PROVE  OrderInv'
<1> DEFINE l == loc[t]
           R == ResponseSize(xfer[t])
           command == [by |-> t, k |-> l.i]
           r == [l.rcnt EXCEPT ![l.bi] = @ + R]
           m == [l EXCEPT !.i = l.i + 1,
                          !.idx = l.idx + CommandSize(xfer[t], l.i),
                          !.rcnt = r]
<1>1. /\ l \in Locals /\ l.i \in Nat /\ l.done \in Nat /\ l.idx \in Nat
      /\ l.bi \in 0..1 /\ l.rcnt \in [0..1 -> Nat] /\ l.i - l.done \in Nat
      /\ R \in {1, 2, 3, 5} /\ CommandSize(xfer[t], l.i) \in Nat \ {0}
      /\ tbuf[l.bi] \in Seq(Commands) /\ toDev \in Seq(Commands)
      /\ Gathered(t) \in Seq(Commands)
  BY LocalTypes
<1>2. /\ api_lock = t /\ Ordered(t) /\ mbuf \in Seq(Responses)
      /\ \A u \in failed : u = t /\ (process = "running" => Unseen(mbuf))
  BY Holder DEF Inside
<1>3. /\ loc' = [loc EXCEPT ![t].i = @ + 1,
                            ![t].idx = @ + CommandSize(xfer[t], l.i),
                            ![t].rcnt[l.bi] = @ + R]
      /\ tbuf' = [tbuf EXCEPT ![l.bi] = IF l.idx = 0 THEN <<command>>
                                                     ELSE Append(@, command)]
  BY DEF PutCommand
<1>4. loc' = [loc EXCEPT ![t] = m]
  BY <1>1, <1>3 DEF Locals
<1>5. /\ loc'[t].i = l.i + 1 /\ loc'[t].done = l.done /\ loc'[t].bi = l.bi
      /\ loc'[t].idx # 0 /\ loc'[t].rcnt = r
      /\ pc'[t] = "loop"
      /\ \A u \in Callers \ {t} : loc'[u] = loc[u] /\ pc'[u] = pc[u]
  <2>1. /\ loc'[t] = m /\ pc'[t] = "loop"
        /\ \A u \in Callers \ {t} : loc'[u] = loc[u] /\ pc'[u] = pc[u]
    BY <1>4 DEF IInv, Types
  <2>2. /\ m.i = l.i + 1 /\ m.done = l.done /\ m.bi = l.bi /\ m.rcnt = r
        /\ m.idx = l.idx + CommandSize(xfer[t], l.i)
    BY <1>1 DEF Locals
  <2>3. l.idx + CommandSize(xfer[t], l.i) # 0
    BY <1>1
  <2> HIDE DEF m, r
  <2> QED BY <2>1, <2>2, <2>3
<1>6. pc[t] = "put" => l.idx = 0
  BY DEF IInv, Sized
<1>7. Gathered(t)' = Append(Gathered(t), command)
  <2>1. Gathered(t)' = tbuf'[l.bi]
    BY <1>5 DEF Gathered
  <2>2. tbuf'[l.bi] = IF l.idx = 0 THEN <<command>>
                                   ELSE Append(tbuf[l.bi], command)
    BY <1>1, <1>3 DEF IInv, Types
  <2>3. CASE l.idx = 0
    <3>1. Gathered(t) = <<>>
      BY <2>3 DEF Gathered
    <3>2. Append(<<>>, command) = <<command>>
      OBVIOUS
    <3> QED BY <3>1, <3>2, <2>1, <2>2, <2>3
  <2>4. CASE l.idx # 0
    <3>1. Gathered(t) = tbuf[l.bi]
      BY <2>4, <1>6 DEF Gathered
    <3> QED BY <3>1, <2>1, <2>2, <2>4
  <2> QED BY <2>3, <2>4
<1>8. Len(Gathered(t)') = Len(Gathered(t)) + 1 /\ Len(Gathered(t)) \in Nat
  <2>1. command \in Commands
    BY <1>1 DEF Commands
  <2> HIDE DEF command
  <2> QED BY <2>1, <1>1, <1>7, AppendProperties, LenProperties
<1>9. Pipeline(t, l.i + 1, l.done, Gathered(t)', toDev, mbuf, last)
  <2>1. Pipeline(t, l.i, l.done, Gathered(t), toDev, mbuf, last)
    BY <1>2 DEF Ordered
  <2> HIDE DEF l
  <2> QED BY <2>1, <1>1, <1>2, <1>7, PipelinePut
<1>10. Expected(R, r, (l.i + 1) - l.done, "loop", l.bi, Len(Gathered(t)'))
  <2>1. Expected(R, l.rcnt, l.i - l.done, pc[t], l.bi, Len(Gathered(t)))
    BY <1>2 DEF Ordered
  <2>2. pc[t] = "put" => Len(Gathered(t)) = 0
    BY DEF Gathered
  <2>3. l.i \in Nat /\ l.done \in Nat /\ l.i - l.done \in Nat
    BY <1>1
  <2>4. /\ l.rcnt \in [0..1 -> Nat] /\ l.bi \in 0..1 /\ R \in {1, 2, 3, 5}
        /\ Len(Gathered(t)) \in Nat /\ pc[t] \in {"loop", "put"}
    BY <1>1, <1>8
  <2> HIDE DEF l, R
  <2>5. Expected(R, [l.rcnt EXCEPT ![l.bi] = @ + R], (l.i - l.done) + 1, "loop",
                 l.bi, Len(Gathered(t)) + 1)
    BY <2>1, <2>2, <2>3, <2>4, ExpectedPut
  <2>6. (l.i + 1) - l.done = (l.i - l.done) + 1
    BY <2>3
  <2> QED BY <2>5, <2>6, <1>8
<1>11. Ordered(t)'
  <2> HIDE DEF l, r, m, command
  <2> QED BY <1>5, <1>9, <1>10 DEF Ordered
<1> HIDE DEF l, r, m, command
<1> QED BY <1>2, <1>5, <1>11, OthersOutside DEF Inside

\* A full buffer is sent behind what is on its way, and the other one is empty.
LEMMA FlushOrder ==
  ASSUME IInv, OrderInv, NEW t \in Callers, Flush(t)
  PROVE  OrderInv'
<1> DEFINE l == loc[t]
           R == ResponseSize(xfer[t])
           q == IF NextProcess(l) THEN "older" ELSE "put"
           m == [l EXCEPT !.bi = 1 - @, !.idx = 0, !.process = NextProcess(l)]
<1>1. /\ l \in Locals /\ l.i \in Nat /\ l.done \in Nat /\ l.idx \in Nat
      /\ l.bi \in 0..1 /\ 1 - l.bi \in 0..1 /\ l.rcnt \in [0..1 -> Nat]
      /\ R \in {1, 2, 3, 5} /\ toDev \in Seq(Commands)
      /\ Gathered(t) \in Seq(Commands)
  BY LocalTypes
<1>2. /\ pc[t] = "loop" /\ IsFull(xfer[t], l.idx)
      /\ toDev' = toDev \o tbuf[l.bi]
      /\ loc' = [loc EXCEPT ![t] = m] /\ pc' = [pc EXCEPT ![t] = q]
      /\ UNCHANGED <<process, api_lock, xfer, mbuf, last, failed>>
  BY DEF Flush
<1>3. /\ api_lock = t /\ Ordered(t) /\ mbuf \in Seq(Responses)
      /\ \A u \in failed : u = t /\ (process = "running" => Unseen(mbuf))
  BY <1>2, Holder DEF Inside
<1>4. /\ loc'[t].i = l.i /\ loc'[t].done = l.done /\ loc'[t].bi = 1 - l.bi
      /\ loc'[t].rcnt = l.rcnt
      /\ pc'[t] = q
      /\ \A u \in Callers \ {t} : loc'[u] = loc[u] /\ pc'[u] = pc[u]
  <2>1. /\ loc'[t] = m /\ pc'[t] = q
        /\ \A u \in Callers \ {t} : loc'[u] = loc[u] /\ pc'[u] = pc[u]
    BY <1>2 DEF IInv, Types
  <2>2. /\ m.i = l.i /\ m.done = l.done /\ m.bi = 1 - l.bi /\ m.rcnt = l.rcnt
    BY <1>1 DEF Locals
  <2> HIDE DEF m, q
  <2> QED BY <2>1, <2>2
<1>5. l.idx # 0
  <2>1. xfer[t].width \in {1, 2, 4} /\ xfer[t].dir \in {"read", "write"}
    BY DEF IInv, Types, Xfers, Widths, Directions
  <2>2. read_send_sz \in Nat /\ read_send_sz >= 5
    BY SpeedAssumption DEF IInv, Types
  <2> HIDE DEF l
  <2> QED BY <2>1, <2>2, <1>1, <1>2 DEF IsFull, write_send_sz
<1>6. Gathered(t) = tbuf[l.bi] /\ Gathered(t)' = <<>>
  BY <1>2, <1>4, <1>5 DEF Gathered
<1>7. q = "put" => l.rcnt[1 - l.bi] = 0
  BY <1>1 DEF NextProcess, IInv, Sized
<1>8. q \in {"older", "put"}
  OBVIOUS
<1> HIDE DEF m, q
<1>9. Pipeline(t, l.i, l.done, Gathered(t)', toDev', mbuf, last)
  <2>1. Pipeline(t, l.i, l.done, Gathered(t), toDev, mbuf, last)
    BY <1>3 DEF Ordered
  <2> HIDE DEF l
  <2> QED BY <2>1, <1>1, <1>2, <1>3, <1>6, PipelineSend
<1>10. Expected(R, l.rcnt, l.i - l.done, q, 1 - l.bi, Len(Gathered(t)'))
  <2>1. Expected(R, l.rcnt, l.i - l.done, pc[t], l.bi, Len(Gathered(t)))
    BY <1>3 DEF Ordered
  <2> HIDE DEF l, R
  <2> QED BY <2>1, <1>1, <1>7, <1>8, ExpectedMove
<1>11. Ordered(t)'
  <2> HIDE DEF l
  <2> QED BY <1>2, <1>4, <1>9, <1>10 DEF Ordered
<1> HIDE DEF l
<1> QED BY <1>2, <1>3, <1>4, <1>8, <1>11, OthersOutside DEF Inside

\* A bus error is not among the responses read when the program goes on.
LEMMA StillUnseen ==
  ASSUME NEW responses \in Seq(Responses), NEW n \in 0..Len(responses),
         Unseen(responses), Status(SubSeq(responses, 1, n)) = "running"
  PROVE  Unseen(SubSeq(responses, n + 1, Len(responses)))
<1> DEFINE gone == SubSeq(responses, 1, n)
           left == SubSeq(responses, n + 1, Len(responses))
<1>1. PICK k \in 1..Len(responses) : responses[k].err
  BY DEF Unseen
<1>2. Len(responses) \in Nat /\ n \in Nat /\ k \in Nat
  OBVIOUS
<1>3. \A j \in 1..Len(responses) : responses[j] \in Responses
  BY ElementOfSeq
<1>4. CASE k <= n
  <2>1. \A j \in 1..n : responses[j] \in Responses
    BY <1>2, <1>3
  <2>2. /\ gone \in Seq(Responses)
        /\ Len(gone) = IF 1 <= n THEN n - 1 + 1 ELSE 0
        /\ \A j \in 1..(n - 1 + 1) : gone[j] = responses[1 + j - 1]
    BY <2>1, <1>2, SubSeqProperties
  <2> HIDE DEF gone
  <2>3. Len(gone) = n /\ n - 1 + 1 = n /\ 1 + k - 1 = k
    BY <2>2, <1>2
  <2>4. k \in DOMAIN gone /\ gone[k] = responses[k]
    BY <2>2, <2>3, <1>1, <1>2, <1>4, LenProperties
  <2>5. gone[k] \in ToSet(gone) /\ gone[k].err
    BY <2>4, <1>1 DEF ToSet
  <2>6. Status(gone) = "exited"
    BY <2>5 DEF Status
  <2> QED BY <2>6 DEF gone
<1>5. CASE ~(k <= n)
  <2>1. \A j \in (n + 1)..Len(responses) : responses[j] \in Responses
    BY <1>2, <1>3
  <2>2. /\ Len(left) = IF n + 1 <= Len(responses)
                         THEN Len(responses) - (n + 1) + 1 ELSE 0
        /\ \A j \in 1..(Len(responses) - (n + 1) + 1) :
             left[j] = responses[(n + 1) + j - 1]
    BY <2>1, <1>2, SubSeqProperties
  <2> HIDE DEF left
  <2>3. Len(left) = Len(responses) - n
    BY <2>2, <1>2
  <2>4. /\ k - n \in 1..Len(left) /\ k - n \in 1..(Len(responses) - (n + 1) + 1)
        /\ (n + 1) + (k - n) - 1 = k
    BY <2>3, <1>2, <1>1, <1>5
  <2>5. left[k - n].err
    BY <2>2, <2>4, <1>1
  <2>6. Unseen(left)
    BY <2>4, <2>5 DEF Unseen
  <2> QED BY <2>6 DEF left
<1> QED BY <1>4, <1>5

\* The responses read are those of the elements next in turn.
LEMMA ReceiveOrder ==
  ASSUME IInv, OrderInv, NEW t \in Callers, NEW b \in 0..1, Receive(t, b),
         process = "running",
         pc[t] \in {"older", "rest"}, NEW q \in {"put", "rest", "unlock"},
         pc' = [pc EXCEPT ![t] = q], q = "put" => b = loc[t].bi,
         q = "unlock" => loc[t].rcnt[1 - b] = 0,
         UNCHANGED <<api_lock, tbuf, xfer, toDev, last, failed>>
  PROVE  OrderInv'
<1> DEFINE l == loc[t]
           R == ResponseSize(xfer[t])
           n == l.rcnt[b] \div R
           r == [l.rcnt EXCEPT ![b] = 0]
           m == [l EXCEPT !.done = @ + n, !.rcnt = r]
<1>1. /\ l \in Locals /\ l.i \in Nat /\ l.done \in Nat /\ l.bi \in 0..1
      /\ l.rcnt \in [0..1 -> Nat] /\ l.i - l.done \in Nat
      /\ R \in {1, 2, 3, 5} /\ toDev \in Seq(Commands)
      /\ Gathered(t) \in Seq(Commands)
  BY LocalTypes
<1>2. /\ api_lock = t /\ Ordered(t) /\ mbuf \in Seq(Responses)
      /\ \A u \in failed : u = t /\ Unseen(mbuf)
  BY Holder DEF Inside
<1>3. /\ Len(mbuf) >= n /\ mbuf' = SubSeq(mbuf, n + 1, Len(mbuf))
      /\ process' = Status(SubSeq(mbuf, 1, n))
      /\ loc' = [loc EXCEPT ![t] = m]
  BY <1>1 DEF Receive, Locals
<1>4. /\ loc'[t].i = l.i /\ loc'[t].done = l.done + n /\ loc'[t].bi = l.bi
      /\ loc'[t].rcnt = r /\ pc'[t] = q
      /\ \A u \in Callers \ {t} : loc'[u] = loc[u] /\ pc'[u] = pc[u]
  <2>1. /\ loc'[t] = m /\ pc'[t] = q
        /\ \A u \in Callers \ {t} : loc'[u] = loc[u] /\ pc'[u] = pc[u]
    BY <1>3 DEF IInv, Types
  <2>2. m.i = l.i /\ m.done = l.done + n /\ m.bi = l.bi /\ m.rcnt = r
    BY <1>1 DEF Locals
  <2> HIDE DEF m, r, n
  <2> QED BY <2>1, <2>2
<1>5. Gathered(t) = <<>> /\ Gathered(t)' = <<>>
  BY <1>4 DEF Gathered
<1>6. /\ n \in 0..(l.i - l.done)
      /\ Expected(R, r, (l.i - l.done) - n, q, l.bi, Len(Gathered(t)'))
  <2>1. Expected(R, l.rcnt, l.i - l.done, pc[t], l.bi, Len(Gathered(t)))
    BY <1>2 DEF Ordered
  <2>2. l.i - l.done \in Nat /\ l.rcnt \in [0..1 -> Nat] /\ l.bi \in 0..1
        /\ R \in {1, 2, 3, 5}
    BY <1>1
  <2>3. /\ q = "put" => b = l.bi
        /\ q = "unlock" => l.rcnt[1 - b] = 0
    OBVIOUS
  <2>4. n = l.rcnt[b] \div R /\ r = [l.rcnt EXCEPT ![b] = 0]
    OBVIOUS
  <2> DEFINE pending == l.i - l.done
             left == pending - n
             g == Len(Gathered(t))
             h == Len(Gathered(t)')
             p == pc[t]
  <2> HIDE DEF l, R, n, r
  <2>5. /\ Expected(R, l.rcnt, pending, p, l.bi, g) /\ pending \in Nat
        /\ left = pending - n
    BY <2>1, <2>2
  <2> HIDE DEF pending, left, g, h, p
  <2>6. Expected(R, r, left, q, l.bi, h)
    BY <2>2, <2>3, <2>4, <2>5, ExpectedReceive, ZenonT(40)
  <2>7. left \in Nat
    BY <2>6 DEF Expected
  <2>8. n \in Nat
    BY <2>2, <2>4
  <2>9. n \in 0..pending
    BY <2>5, <2>7, <2>8
  <2> QED BY <2>6, <2>9 DEF pending, left, h
<1>7. n \in 0..Len(mbuf)
  <2> HIDE DEF n, l
  <2> QED BY <1>1, <1>2, <1>3, <1>6
<1>8. /\ mbuf' \in Seq(Responses)
      /\ Pipeline(t, l.i, l.done + n, Gathered(t)', toDev, mbuf', last)
  <2>1. Pipeline(t, l.i, l.done, Gathered(t), toDev, mbuf, last)
    BY <1>2 DEF Ordered
  <2>2. l.i \in Nat /\ l.done \in Nat /\ toDev \in Seq(Commands)
        /\ Gathered(t) \in Seq(Commands)
    BY <1>1
  <2> HIDE DEF n, l
  <2> QED BY <2>1, <2>2, <1>2, <1>3, <1>5, <1>7, PipelineReceive
<1>9. \A u \in failed' : u = t /\ (process' = "running" => Unseen(mbuf'))
  <2> HIDE DEF n
  <2> QED BY <1>2, <1>3, <1>7, StillUnseen
<1>10. l.i - (l.done + n) = (l.i - l.done) - n
  <2>1. l.i \in Nat /\ l.done \in Nat
    BY <1>1
  <2> HIDE DEF n, l
  <2> QED BY <2>1, <1>6
<1>11. Ordered(t)'
  <2> HIDE DEF n, l, r, m
  <2> QED BY <1>4, <1>6, <1>8, <1>10 DEF Ordered
<1> HIDE DEF n, l, r, m
<1> QED BY <1>2, <1>4, <1>8, <1>9, <1>11, OthersOutside DEF Inside

\* The rest is sent behind what is on its way.
LEMMA SendRestOrder ==
  ASSUME IInv, OrderInv, NEW t \in Callers, SendRest(t)
  PROVE  OrderInv'
<1> DEFINE l == loc[t]
           R == ResponseSize(xfer[t])
<1>1. /\ l.i \in Nat /\ l.done \in Nat /\ l.bi \in 0..1
      /\ R \in {1, 2, 3, 5} /\ toDev \in Seq(Commands)
      /\ Gathered(t) \in Seq(Commands)
  BY LocalTypes
<1>2. /\ pc[t] = "loop"
      /\ toDev' = IF l.idx # 0 THEN toDev \o tbuf[l.bi] ELSE toDev
      /\ pc' = [pc EXCEPT ![t] = "rest"]
      /\ UNCHANGED <<process, api_lock, xfer, loc, mbuf, last, failed>>
  BY DEF SendRest
<1>3. /\ api_lock = t /\ Ordered(t) /\ mbuf \in Seq(Responses)
      /\ \A u \in failed : u = t /\ (process = "running" => Unseen(mbuf))
  BY <1>2, Holder DEF Inside
<1>4. pc'[t] = "rest" /\ \A u \in Callers \ {t} : pc'[u] = pc[u]
  BY <1>2 DEF IInv, Types
<1>5. toDev' = toDev \o Gathered(t) /\ Gathered(t)' = <<>>
  <2>1. toDev \o <<>> = toDev
    BY <1>1, ConcatEmptySeq
  <2> QED BY <2>1, <1>2, <1>4 DEF Gathered
<1> HIDE DEF l, R
<1>6. Pipeline(t, l.i, l.done, Gathered(t)', toDev', mbuf, last)
  <2>1. Pipeline(t, l.i, l.done, Gathered(t), toDev, mbuf, last)
    BY <1>3 DEF Ordered, l
  <2> QED BY <2>1, <1>1, <1>3, <1>5, PipelineSend
<1>7. Expected(R, l.rcnt, l.i - l.done, "rest", l.bi, Len(Gathered(t)'))
  <2>1. Expected(R, l.rcnt, l.i - l.done, pc[t], l.bi, Len(Gathered(t)))
    BY <1>3 DEF Ordered, l, R
  <2> QED BY <2>1, <1>1, ExpectedMove
<1>8. Ordered(t)'
  BY <1>2, <1>4, <1>6, <1>7 DEF Ordered, l, R
<1> QED BY <1>2, <1>3, <1>4, <1>8, OthersOutside DEF Inside

\* The lock is given back with nothing on its way, and no error unseen.
LEMMA UnlockOrder ==
  ASSUME IInv, OrderInv, NEW t \in Callers, Unlock(t)
  PROVE  OrderInv'
<1>1. /\ pc[t] = "unlock" /\ pc' = [pc EXCEPT ![t] = "idle"]
      /\ api_lock' = "nobody" /\ process = "running"
      /\ UNCHANGED <<process, loc, toDev, mbuf, failed>>
  BY DEF Unlock
<1>2. /\ api_lock = t /\ Ordered(t) /\ mbuf \in Seq(Responses)
      /\ \A u \in failed : u = t /\ Unseen(mbuf)
  BY <1>1, Holder DEF Inside
<1>3. pc'[t] = "idle" /\ \A u \in Callers \ {t} : pc'[u] = pc[u]
  BY <1>1 DEF IInv, Types
<1>4. mbuf = <<>> /\ toDev = <<>>
  <2>1. /\ loc[t].i \in Nat /\ loc[t].done \in Nat /\ toDev \in Seq(Commands)
        /\ Gathered(t) \in Seq(Commands)
    BY LocalTypes
  <2>2. loc[t].i - loc[t].done = 0
    BY <1>1, <1>2 DEF Ordered, Expected
  <2>3. loc[t].done + Len(mbuf) + Len(toDev) + Len(Gathered(t)) = loc[t].i
    BY <1>2 DEF Ordered, Pipeline
  <2>4. Len(mbuf) \in Nat /\ Len(toDev) \in Nat /\ Len(Gathered(t)) \in Nat
    BY <2>1, <1>2
  <2>5. Len(mbuf) = 0 /\ Len(toDev) = 0
    BY <2>1, <2>2, <2>3, <2>4
  <2> QED BY <2>1, <2>5, <1>2, EmptySeq
<1>5. failed = {}
  BY <1>2, <1>4 DEF Unseen
<1>6. \A u \in Callers : pc'[u] \in Inside <=> api_lock' = u
  BY <1>1, <1>2, <1>3 DEF OrderInv, Inside, Callers
<1>7. \A u \in Callers : pc'[u] = "lock" => loc'[u] = Fresh
  BY <1>1, <1>3 DEF OrderInv
<1> QED BY <1>1, <1>2, <1>4, <1>5, <1>6, <1>7 DEF OrderInv, Callers

\* The device performs the next command of the transfer under api_lock.
LEMMA PerformOrder ==
  ASSUME IInv, OrderInv, NEW err \in BOOLEAN, Perform(err)
  PROVE  OrderInv'
<1> DEFINE response == [by |-> Head(toDev).by, k |-> Head(toDev).k, err |-> err]
<1>1. /\ toDev # <<>> /\ toDev' = Tail(toDev) /\ last' = Head(toDev)
      /\ mbuf' = Append(mbuf, response)
      /\ failed' = IF err THEN failed \cup {Head(toDev).by} ELSE failed
      /\ process = "running"
      /\ UNCHANGED <<process, api_lock, tbuf, pc, xfer, loc>>
  BY DEF Perform
<1>2. PICK t \in Callers : api_lock = t
  BY <1>1 DEF OrderInv, IInv, Types
<1>3. /\ Ordered(t) /\ mbuf \in Seq(Responses)
      /\ \A u \in failed : u = t /\ Unseen(mbuf)
  BY <1>1, <1>2 DEF OrderInv
<1>4. /\ loc[t].i \in Nat /\ loc[t].done \in Nat /\ toDev \in Seq(Commands)
      /\ Gathered(t) \in Seq(Commands)
  BY LocalTypes
<1>5. /\ Head(toDev).by = t
      /\ Pipeline(t, loc[t].i, loc[t].done, Gathered(t), toDev', mbuf', last')
  <2>1. Pipeline(t, loc[t].i, loc[t].done, Gathered(t), toDev, mbuf, last)
    BY <1>3 DEF Ordered
  <2> QED BY <2>1, <1>1, <1>3, <1>4, PipelinePerform, SMTT(30)
<1>6. Ordered(t)'
  <2>1. Gathered(t)' = Gathered(t)
    BY <1>1 DEF Gathered
  <2> HIDE DEF response
  <2> QED BY <2>1, <1>1, <1>3, <1>5 DEF Ordered
<1>7. response \in Responses /\ response.err = err
  <2>1. Head(toDev) \in Commands
    BY <1>1, <1>4, HeadTailProperties
  <2> QED BY <2>1 DEF Commands, Responses
<1> HIDE DEF response
<1>8. /\ mbuf' \in Seq(Responses) /\ Len(mbuf') = Len(mbuf) + 1
      /\ \A k \in 1..Len(mbuf) : mbuf'[k] = mbuf[k]
      /\ mbuf'[Len(mbuf) + 1] = response /\ Len(mbuf) \in Nat
  BY <1>1, <1>3, <1>7, AppendProperties, LenProperties
<1>9. \A u \in failed' : u = t /\ Unseen(mbuf')
  <2>1. Unseen(mbuf) => Unseen(mbuf')
    BY <1>8 DEF Unseen
  <2>2. err => Unseen(mbuf')
    <3>1. Len(mbuf) + 1 \in 1..Len(mbuf')
      BY <1>8
    <3> QED BY <3>1, <1>7, <1>8 DEF Unseen
  <2> QED BY <2>1, <2>2, <1>1, <1>3, <1>5
<1>10. \A u \in Callers : u = api_lock' <=> u = t
  BY <1>1, <1>2
<1> QED BY <1>1, <1>2, <1>6, <1>8, <1>9, <1>10 DEF OrderInv, Callers

-----------------------------------------------------------------------------
(* The invariant, and what it gives.                                       *)

\* Both callers start outside, with the links empty.
LEMMA InitOrder == Init => OrderInv
<1>1. <<>> \in Seq(Responses)
  BY EmptySeq
<1> QED BY <1>1 DEF Init, OrderInv, Inside, Callers

\* The actions of a caller preserve the invariant.
LEMMA CallerOrder ==
  ASSUME IInv, OrderInv, NEW t \in Callers, Start(t) \/ Caller(t)
  PROVE  OrderInv'
<1>1. CASE Start(t) BY <1>1, StartOrder
<1>2. CASE Lock(t) BY <1>2, LockOrder
<1>3. CASE Fill(t)
  <2>1. pc' = [pc EXCEPT ![t] = "loop"]
    BY <1>3 DEF Fill, IInv, Types
  <2> QED BY <2>1, <1>3, PutOrder DEF Fill
<1>4. CASE Flush(t) BY <1>4, FlushOrder
<1>5. CASE ReceiveOlder(t)
  <2>1. /\ Receive(t, loc[t].bi) /\ pc' = [pc EXCEPT ![t] = "put"]
        /\ pc[t] \in {"older", "rest"} /\ process = "running"
        /\ UNCHANGED <<api_lock, tbuf, xfer, toDev, last, failed>>
    BY <1>5 DEF ReceiveOlder
  <2>2. loc[t].bi \in 0..1
    BY LocalTypes
  <2> QED BY <2>1, <2>2, ReceiveOrder
<1>6. CASE Put(t) BY <1>6, PutOrder DEF Put
<1>7. CASE SendRest(t) BY <1>7, SendRestOrder
<1>8. CASE ReceiveRest(t)
  <2> DEFINE l == loc[t]
             b == IF l.rcnt[1 - l.bi] > 0 THEN 1 - l.bi ELSE l.bi
             q == IF b = l.bi THEN "unlock" ELSE "rest"
  <2>1. /\ Receive(t, b) /\ pc' = [pc EXCEPT ![t] = q]
        /\ pc[t] \in {"older", "rest"} /\ process = "running"
        /\ UNCHANGED <<api_lock, tbuf, xfer, toDev, last, failed>>
    BY <1>8 DEF ReceiveRest
  <2>2. /\ l.bi \in 0..1 /\ 1 - l.bi \in 0..1
        /\ l.rcnt[0] \in Nat /\ l.rcnt[1] \in Nat
    BY LocalTypes
  <2> HIDE DEF l
  <2>3. b \in 0..1 /\ q \in {"rest", "unlock"}
    BY <2>2
  <2>4. q = "unlock" => l.rcnt[1 - b] = 0
    BY <2>2
  <2> HIDE DEF b, q
  <2> QED BY <2>1, <2>3, <2>4, ReceiveOrder DEF l
<1>9. CASE Unlock(t) BY <1>9, UnlockOrder
<1> QED BY <1>1, <1>2, <1>3, <1>4, <1>5, <1>6, <1>7, <1>8, <1>9 DEF Caller

\* Every step preserves the invariant.
LEMMA NextOrder ==
  ASSUME IInv, OrderInv, [Next]_vars
  PROVE  OrderInv'
<1>1. ASSUME NEW t \in Callers, Start(t) \/ Caller(t)
      PROVE  OrderInv'
  BY <1>1, CallerOrder
<1>2. ASSUME NEW en \in BOOLEAN, Hispeed(en)
      PROVE  OrderInv'
  BY <1>2 DEF Hispeed, OrderInv, Ordered, Gathered
<1>3. ASSUME NEW err \in BOOLEAN, Perform(err)
      PROVE  OrderInv'
  BY <1>3, PerformOrder
<1>4. CASE UNCHANGED vars
  BY <1>4 DEF vars, OrderInv, Ordered, Gathered
<1> QED BY <1>1, <1>2, <1>3, <1>4 DEF Next

\* What is on its way is in the order of the transfer.
THEOREM OrderInvariance == Spec => [](IInv /\ OrderInv)
<1>1. Init => OrderInv
  BY InitOrder
<1>2. IInv /\ OrderInv /\ [Next]_vars => OrderInv'
  BY NextOrder
<1> QED BY <1>1, <1>2, Invariance, PTL DEF Spec

\* What is on its way, element by element.
LEMMA InFlightElements ==
  ASSUME IInv, OrderInv, NEW t \in Callers, api_lock = t
  PROVE  /\ Len(InFlight) = Len(mbuf) + Len(toDev)
         /\ Len(mbuf) \in Nat /\ Len(toDev) \in Nat
         /\ \A k \in 1..Len(InFlight) :
              InFlight[k] = [by |-> t, k |-> loc[t].done + k - 1]
<1> DEFINE read == [k \in 1..Len(mbuf) |-> [by |-> mbuf[k].by, k |-> mbuf[k].k]]
           done == loc[t].done
<1>1. /\ mbuf \in Seq(Responses) /\ toDev \in Seq(Commands) /\ done \in Nat
      /\ Len(mbuf) \in Nat /\ Len(toDev) \in Nat
  BY LocalTypes DEF OrderInv
<1>2. \A k \in 1..Len(mbuf) : mbuf[k] \in Responses
  BY <1>1, ElementOfSeq
<1>3. read \in Seq(Commands) /\ Len(read) = Len(mbuf)
  <2>1. \A k \in 1..Len(mbuf) :
          [by |-> mbuf[k].by, k |-> mbuf[k].k] \in Commands
    BY <1>2 DEF Responses, Commands
  <2> QED BY <2>1, <1>1
<1>4. /\ \A k \in 1..Len(mbuf) : mbuf[k].by = t /\ mbuf[k].k = done + k - 1
      /\ \A k \in 1..Len(toDev) :
           toDev[k] = [by |-> t, k |-> done + Len(mbuf) + k - 1]
  BY DEF OrderInv, Ordered, Pipeline
<1>5. \A k \in 1..Len(mbuf) : read[k] = [by |-> t, k |-> done + k - 1]
  BY <1>4
<1> HIDE DEF read, done
<1>6. /\ Len(read \o toDev) = Len(read) + Len(toDev)
      /\ \A k \in 1..(Len(read) + Len(toDev)) :
           (read \o toDev)[k] = IF k <= Len(read) THEN read[k]
                                                  ELSE toDev[k - Len(read)]
  BY <1>1, <1>3, ConcatProperties
<1>7. InFlight = read \o toDev
  BY DEF InFlight, read
<1>8. ASSUME NEW k \in 1..Len(InFlight)
      PROVE  InFlight[k] = [by |-> t, k |-> done + k - 1]
  <2>1. CASE k <= Len(mbuf)
    BY <2>1, <1>1, <1>3, <1>5, <1>6, <1>7
  <2>2. CASE ~(k <= Len(mbuf))
    <3>1. k - Len(mbuf) \in 1..Len(toDev)
      BY <2>2, <1>1, <1>3, <1>6, <1>7
    <3>2. InFlight[k] = toDev[k - Len(mbuf)]
      BY <2>2, <1>1, <1>3, <1>6, <1>7
    <3>3. done + Len(mbuf) + (k - Len(mbuf)) - 1 = done + k - 1
      BY <1>1
    <3> QED BY <3>1, <3>2, <3>3, <1>4
  <2> QED BY <2>1, <2>2
<1> QED BY <1>1, <1>3, <1>6, <1>7, <1>8 DEF done

\* Each response is that of the element that the holder of api_lock stores next:
\* read_process and write_process take the responses in the order in which
\* flexsoc_read and flexsoc_write numbered the commands (flexsoc.cpp:320, 348).
THEOREM InOrder == Spec => []ResponsesInOrder
<1>1. IInv /\ OrderInv => ResponsesInOrder
  <2> SUFFICES ASSUME IInv, OrderInv, NEW k \in 1..Len(InFlight)
               PROVE  /\ api_lock # "nobody"
                      /\ InFlight[k] = [by |-> api_lock,
                                        k |-> loc[api_lock].done + k - 1]
    BY DEF ResponsesInOrder
  <2>1. api_lock # "nobody"
    <3>1. ASSUME api_lock = "nobody" PROVE Len(InFlight) = 0
      <4>1. mbuf = <<>> /\ toDev = <<>>
        BY <3>1 DEF OrderInv
      <4>2. InFlight = <<>> \o <<>>
        BY <4>1 DEF InFlight
      <4> QED BY <4>2
    <3> QED BY <3>1
  <2>2. api_lock \in Callers
    BY <2>1 DEF IInv, Types
  <2> QED BY <2>1, <2>2, InFlightElements
<1> QED BY <1>1, OrderInvariance, PTL

\* A command without an address finds the device just behind its predecessor:
\* two transfers never mix their commands ("Send incrementing read after first
\* command", flexsoc.cpp:412).
THEOREM Increments == Spec => []AutoIncrement
<1>1. IInv /\ OrderInv => AutoIncrement
  <2> SUFFICES ASSUME IInv, OrderInv, toDev # <<>>, Head(toDev).k > 0
               PROVE  last = [Head(toDev) EXCEPT !.k = @ - 1]
    BY DEF AutoIncrement
  <2>1. PICK t \in Callers : api_lock = t
    BY DEF OrderInv, IInv, Types
  <2> DEFINE next == loc[t].done + Len(mbuf)
  <2>2. /\ \A k \in 1..Len(toDev) : toDev[k] = [by |-> t, k |-> next + k - 1]
        /\ next > 0 => last = [by |-> t, k |-> next - 1]
    BY <2>1 DEF OrderInv, Ordered, Pipeline
  <2>3. /\ toDev \in Seq(Commands) /\ Len(toDev) \in Nat /\ next \in Nat
    BY LocalTypes DEF OrderInv
  <2> HIDE DEF next
  <2>4. Len(toDev) > 0 /\ Head(toDev) = toDev[1]
    BY <2>3, EmptySeq
  <2>5. Head(toDev) = [by |-> t, k |-> next]
    <3>1. 1 \in 1..Len(toDev) /\ next + 1 - 1 = next
      BY <2>3, <2>4
    <3> QED BY <3>1, <2>2, <2>4
  <2> QED BY <2>2, <2>5
<1> QED BY <1>1, OrderInvariance, PTL

\* What is on its way is answered within two receive buffers, so the listen
\* thread never waits for room in mbuf (flexsoc.cpp:179, 323, 351).
THEOREM Bounded == Spec => []OutstandingBounded
<1>1. IInv /\ OrderInv => OutstandingBounded
  <2> SUFFICES ASSUME IInv, OrderInv, NEW t \in Callers, api_lock = t
               PROVE  Len(InFlight) * ResponseSize(xfer[t])
                        <= 2 * RecvBuf(xfer[t])
    BY DEF OutstandingBounded, IInv, Types
  <2> DEFINE l == loc[t]
             R == ResponseSize(xfer[t])
             room == RecvBuf(xfer[t])
  <2>1. /\ l.i \in Nat /\ l.done \in Nat /\ R \in {1, 2, 3, 5}
        /\ l.rcnt[0] \in Nat /\ l.rcnt[1] \in Nat
        /\ Gathered(t) \in Seq(Commands)
    BY LocalTypes
  <2>2. l.rcnt[0] <= room /\ l.rcnt[1] <= room /\ room \in Nat
    BY SpeedAssumption
       DEF IInv, Sized, RecvBuf, ReadRecvBuf, WriteRecvBuf
  <2>3. PICK c \in [0..1 -> Nat] : /\ \A b \in 0..1 : l.rcnt[b] = R * c[b]
                                   /\ c[0] + c[1] = l.i - l.done
    BY DEF OrderInv, Ordered, Expected
  <2>4. l.done + Len(mbuf) + Len(toDev) + Len(Gathered(t)) = l.i
    BY DEF OrderInv, Ordered, Pipeline
  <2>5. /\ Len(InFlight) = Len(mbuf) + Len(toDev)
        /\ Len(mbuf) \in Nat /\ Len(toDev) \in Nat
        /\ Len(Gathered(t)) \in Nat
    BY <2>1, InFlightElements, LenProperties
  <2> HIDE DEF l, R, room
  <2>6. Len(InFlight) <= c[0] + c[1]
    BY <2>1, <2>3, <2>4, <2>5
  <2>7. c[0] \in Nat /\ c[1] \in Nat /\ Len(InFlight) \in Nat
    BY <2>3, <2>5
  <2>8. R * c[0] + R * c[1] <= 2 * room
    BY <2>1, <2>2, <2>3, SMTT(30)
  <2>9. Len(InFlight) * R <= R * c[0] + R * c[1]
    BY <2>1, <2>6, <2>7
  <2>10. Len(InFlight) * R \in Nat /\ R * c[0] \in Nat /\ R * c[1] \in Nat
    BY <2>1, <2>7
  <2>11. Len(InFlight) * R <= 2 * room
    BY <2>2, <2>8, <2>9, <2>10
  <2> QED BY <2>11 DEF R, room
<1> QED BY <1>1, OrderInvariance, PTL

\* A transfer that returned met no bus error: the error is still among its
\* responses, or the program has ended (flexsoc.cpp:331, 359).
THEOREM NoneSilent == Spec => []NoSilentError
<1>1. IInv /\ OrderInv => NoSilentError
  BY DEF IInv, Types, OrderInv, Inside, NoSilentError
<1> QED BY <1>1, OrderInvariance, PTL
=============================================================================
