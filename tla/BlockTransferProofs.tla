------------------------- MODULE BlockTransferProofs -------------------------
(***************************************************************************)
(* The buffers of flexsoc_read and flexsoc_write suffice for every buffer  *)
(* size, transfer length, width and speed that the assumptions of          *)
(* BlockTransfer allow: TypeOK is invariant.                               *)
(*                                                                         *)
(* The inductive invariant relates, for each caller, the index into the    *)
(* current buffer with the bytes expected for it (Fits) and the bytes      *)
(* expected with the elements not processed, and says that a buffer is     *)
(* started again with nothing expected for it.  The equality tests of the  *)
(* code are safe because the index of a read moves by one once it is past  *)
(* the first command, and main's speed does not change under a transfer.   *)
(***************************************************************************)
EXTENDS BlockTransfer, TLAPS

Xfers == [dir : Directions, width : Widths, len : Nat \ {0}]
Locals == [i : Nat, bi : 0..1, idx : Nat, rcnt : [0..1 -> Nat],
           process : BOOLEAN, done : Nat]
Commands == [by : Callers, k : Int]

Filling == {"lock", "loop", "older", "put"}

\* How the bytes expected for a buffer compare with its index.
Fits(x, idx, expected) ==
  IF x.dir = "read" THEN expected <= (1 + x.width) * idx
                    ELSE (1 + x.width) * expected <= idx

\* The locals l of caller t, at place p of transfer x, at speed s.
Sized(t, l, x, p, s) ==
  /\ l.i <= x.len /\ l.done <= l.i
  /\ l.i = 0 => l.idx = 0
  /\ l.rcnt[0] + l.rcnt[1] <= ResponseSize(x) * (l.i - l.done)
  /\ l.idx <= TbufSize
  /\ \A b \in 0..1 : l.rcnt[b] <= RecvBuf(x)
  /\ t = "main" /\ x.dir = "read" /\ p \in Filling => l.idx <= s
  /\ p # "older" => Fits(x, l.idx, l.rcnt[l.bi])
  /\ ~l.process /\ l.bi = 0 => l.rcnt[1] = 0
  /\ p \in {"older", "put"} => l.idx = 0 /\ l.i \in 1..(x.len - 1)

Types ==
  /\ process \in {"running", "exited"}
  /\ read_send_sz \in {High, Low}
  /\ api_lock \in Callers \cup {"nobody"}
  /\ pc \in [Callers -> {"idle", "lock", "loop", "older", "put", "rest",
                         "unlock"}]
  /\ calls \in [Callers -> 0..MaxCalls]
  /\ xfer \in [Callers -> Xfers]
  /\ xfer["main"] \in Transfers \cup {NoTransfer}
  /\ xfer["plugin"] \in Nested \cup {NoTransfer}
  /\ loc \in [Callers -> Locals]
  /\ tbuf \in [0..1 -> Seq(Commands)]
  /\ toDev \in Seq(Commands)
  /\ failed \subseteq Callers /\ nerr \in 0..MaxErrors

IInv == /\ Types
        /\ \A t \in Callers : Sized(t, loc[t], xfer[t], pc[t], read_send_sz)

-----------------------------------------------------------------------------
(* Arithmetic of one transfer.                                             *)

\* A whole number of responses is not larger than the bytes it is counted from.
LEMMA WholeResponses ==
  ASSUME NEW x \in Xfers, NEW c \in Nat
  PROVE  /\ c \div ResponseSize(x) \in Nat
         /\ ResponseSize(x) * (c \div ResponseSize(x)) <= c
<1>1. CASE x.dir = "write"
  BY <1>1 DEF ResponseSize, Xfers, Directions
<1>2. CASE x.dir # "write"
  <2>1. x.dir = "read" /\ x.width \in {1, 2, 4}
    BY <1>2 DEF Xfers, Directions, Widths
  <2>2. CASE x.width = 1
    <3>1. ResponseSize(x) = 2 BY <2>1, <2>2 DEF ResponseSize
    <3>2. c \div 2 \in Nat /\ 2 * (c \div 2) <= c OBVIOUS
    <3> QED BY <3>1, <3>2
  <2>3. CASE x.width = 2
    <3>1. ResponseSize(x) = 3 BY <2>1, <2>3 DEF ResponseSize
    <3>2. c \div 3 \in Nat /\ 3 * (c \div 3) <= c OBVIOUS
    <3> QED BY <3>1, <3>2
  <2>4. CASE x.width = 4
    <3>1. ResponseSize(x) = 5 BY <2>1, <2>4 DEF ResponseSize
    <3>2. c \div 5 \in Nat /\ 5 * (c \div 5) <= c OBVIOUS
    <3> QED BY <3>1, <3>2
  <2> QED BY <2>1, <2>2, <2>3, <2>4
<1> QED BY <1>1, <1>2

\* A command put into a buffer that is not full: the body of PutCommand.
LEMMA PutSized ==
  ASSUME NEW t \in Callers, NEW l \in Locals, NEW x \in Xfers,
         NEW p \in {"loop", "put"}, read_send_sz \in {High, Low},
         Sized(t, l, x, p, read_send_sz),
         t = "plugin" => x.len = 1,
         l.i < x.len, p = "loop" => ~IsFull(x, l.idx),
         NEW m \in Locals,
         m = [l EXCEPT !.i = @ + 1, !.idx = @ + CommandSize(x, l.i),
                       !.rcnt[l.bi] = @ + ResponseSize(x)]
  PROVE  Sized(t, m, x, "loop", read_send_sz)
<1>1. /\ l.i \in Nat /\ l.idx \in Nat /\ l.done \in Nat /\ l.bi \in 0..1
      /\ l.rcnt[0] \in Nat /\ l.rcnt[1] \in Nat /\ l.process \in BOOLEAN
      /\ x.len \in Nat /\ x.width \in {1, 2, 4} /\ x.dir \in {"read", "write"}
      /\ High \in Nat /\ Low \in 5..High
  BY SpeedAssumption DEF Locals, Xfers, Widths, Directions
<1>2. /\ m.i = l.i + 1 /\ m.idx = l.idx + CommandSize(x, l.i)
      /\ m.done = l.done /\ m.bi = l.bi /\ m.process = l.process
      /\ m.rcnt[l.bi] = l.rcnt[l.bi] + ResponseSize(x)
      /\ m.rcnt[1 - l.bi] = l.rcnt[1 - l.bi]
  BY <1>1 DEF Locals
<1> DEFINE R == ResponseSize(x)
           C == CommandSize(x, l.i)
<1>3. R \in {1, 2, 3, 5} /\ C \in 1..9 /\ (x.dir = "read" => R = 1 + x.width)
      /\ (x.dir = "write" => R = 1 /\ C >= 1 + x.width)
  BY <1>1 DEF ResponseSize, CommandSize
<1>4. Fits(x, m.idx, m.rcnt[m.bi])
  BY <1>1, <1>2, <1>3 DEF Sized, Fits
<1>5. m.rcnt[0] + m.rcnt[1] <= R * (m.i - m.done)
  <2>1. m.rcnt[0] + m.rcnt[1] = l.rcnt[0] + l.rcnt[1] + R
    BY <1>1, <1>2, <1>3
  <2>2. R * (m.i - m.done) = R * (l.i - l.done) + R
    BY <1>1, <1>2, <1>3
  <2> QED BY <2>1, <2>2, <1>1, <1>3 DEF Sized
<1>6. /\ m.idx <= TbufSize
      /\ t = "main" /\ x.dir = "read" => m.idx <= read_send_sz
      /\ x.dir = "read" => m.idx <= High
  BY <1>1, <1>2, <1>3
     DEF Sized, CommandSize, IsFull, write_send_sz, TbufSize, Filling, Callers
<1>7. m.rcnt[m.bi] <= RecvBuf(x)
  <2>1. m.rcnt[m.bi] \in Nat /\ m.idx \in Nat
    BY <1>1, <1>2, <1>3
  <2>2. CASE x.dir = "read"
    <3>1. m.rcnt[m.bi] <= (1 + x.width) * m.idx /\ m.idx <= High
      BY <2>2, <1>4, <1>6 DEF Fits
    <3>2. CASE x.width = 1
      BY <3>1, <3>2, <2>1, <2>2, <1>1 DEF RecvBuf, ReadRecvBuf
    <3>3. CASE x.width = 2
      BY <3>1, <3>3, <2>1, <2>2, <1>1 DEF RecvBuf, ReadRecvBuf
    <3>4. CASE x.width = 4
      BY <3>1, <3>4, <2>1, <2>2, <1>1 DEF RecvBuf, ReadRecvBuf
    <3> QED BY <3>2, <3>3, <3>4, <1>1
  <2>3. CASE x.dir = "write"
    <3>1. (1 + x.width) * m.rcnt[m.bi] <= High * 5
      BY <2>3, <2>1, <1>1, <1>4, <1>6 DEF Fits, TbufSize
    <3>2. 2 * m.rcnt[m.bi] <= High * 5
      BY <3>1, <2>1, <1>1
    <3> QED BY <3>2, <2>1, <2>3, <1>1 DEF RecvBuf, WriteRecvBuf
  <2> QED BY <2>2, <2>3, <1>1
<1> QED BY <1>1, <1>2, <1>4, <1>5, <1>6, <1>7 DEF Sized, Filling

\* The responses to buffer b, read and counted: the body of Receive.
LEMMA ReceiveSized ==
  ASSUME NEW t \in Callers, NEW l \in Locals, NEW x \in Xfers,
         NEW p \in {"older", "rest"}, read_send_sz \in {High, Low},
         Sized(t, l, x, p, read_send_sz),
         NEW b \in 0..1, p = "older" => b = l.bi,
         NEW q \in {"put", "rest", "unlock"}, q = "put" <=> p = "older",
         NEW m,
         m = [l EXCEPT !.done = @ + (l.rcnt[b] \div ResponseSize(x)),
                       !.rcnt[b] = 0]
  PROVE  m \in Locals /\ Sized(t, m, x, q, read_send_sz)
<1> DEFINE R == ResponseSize(x)
           n == l.rcnt[b] \div R
<1>1. /\ l.i \in Nat /\ l.idx \in Nat /\ l.done \in Nat /\ l.bi \in 0..1
      /\ l.rcnt \in [0..1 -> Nat]
      /\ l.rcnt[0] \in Nat /\ l.rcnt[1] \in Nat /\ l.process \in BOOLEAN
      /\ x.len \in Nat /\ x.width \in {1, 2, 4} /\ x.dir \in {"read", "write"}
      /\ High \in Nat /\ Low \in 5..High
  BY SpeedAssumption DEF Locals, Xfers, Widths, Directions
<1>2. n \in Nat /\ R * n <= l.rcnt[b]
  BY <1>1, WholeResponses
<1>3. m \in Locals
  <2> DEFINE r == [l.rcnt EXCEPT ![b] = 0]
  <2>1. r \in [0..1 -> Nat] /\ l.done + n \in Nat
    BY <1>1, <1>2
  <2>2. m = [l EXCEPT !.done = l.done + n, !.rcnt = r]
    BY DEF Locals
  <2> HIDE DEF r, n
  <2> QED BY <2>1, <2>2 DEF Locals
<1>4. /\ m.i = l.i /\ m.idx = l.idx /\ m.bi = l.bi /\ m.process = l.process
      /\ m.done = l.done + n
      /\ m.rcnt[b] = 0 /\ m.rcnt[1 - b] = l.rcnt[1 - b]
  BY <1>1 DEF Locals
<1>5. R \in {1, 2, 3, 5}
  BY <1>1 DEF ResponseSize
<1>6. l.rcnt[1 - b] + l.rcnt[b] <= R * (l.i - l.done)
  BY <1>1 DEF Sized
<1>7. l.rcnt[1 - b] <= R * (l.i - m.done)
  <2>1. R * (l.i - m.done) = R * (l.i - l.done) - R * n
    BY <1>1, <1>2, <1>4, <1>5
  <2> HIDE DEF n, R
  <2> QED BY <2>1, <1>1, <1>2, <1>5, <1>6
<1>8. m.done <= m.i /\ m.rcnt[0] + m.rcnt[1] <= R * (m.i - m.done)
  <2>1. m.rcnt[0] + m.rcnt[1] = l.rcnt[1 - b]
    BY <1>1, <1>4
  <2>2. 0 <= R * (l.i - m.done)
    BY <1>1, <1>7, <1>3, <1>5 DEF Locals
  <2>3. m.done <= l.i
    BY <2>2, <1>1, <1>2, <1>4, <1>5
  <2> QED BY <2>1, <2>3, <1>4, <1>7
<1>9. Fits(x, m.idx, m.rcnt[m.bi])
  <2>1. CASE m.bi = b
    BY <2>1, <1>1, <1>4 DEF Fits
  <2>2. CASE m.bi # b
    BY <2>2, <1>1, <1>4 DEF Fits, Sized
  <2> QED BY <2>1, <2>2
<1>10. \A c \in 0..1 : m.rcnt[c] <= RecvBuf(x)
  <2>1. RecvBuf(x) >= 0
    BY <1>1 DEF RecvBuf, ReadRecvBuf, WriteRecvBuf
  <2> QED BY <2>1, <1>1, <1>4 DEF Sized
<1>11. ~m.process /\ m.bi = 0 => m.rcnt[1] = 0
  BY <1>1, <1>4 DEF Sized
<1>12. q = "put" => m.idx = 0 /\ m.i \in 1..(x.len - 1)
  BY <1>4 DEF Sized
<1> QED BY <1>1, <1>3, <1>4, <1>8, <1>9, <1>10, <1>11, <1>12
        DEF Sized, Filling

\* A full buffer sent, and the other one taken: the body of Flush.
LEMMA FlushSized ==
  ASSUME NEW t \in Callers, NEW l \in Locals, NEW x \in Xfers,
         read_send_sz \in {High, Low},
         Sized(t, l, x, "loop", read_send_sz),
         l.i < x.len, IsFull(x, l.idx),
         NEW m,
         m = [l EXCEPT !.bi = 1 - @, !.idx = 0, !.process = NextProcess(l)]
  PROVE  /\ m \in Locals
         /\ Sized(t, m, x, IF NextProcess(l) THEN "older" ELSE "put",
                  read_send_sz)
<1>1. /\ l.i \in Nat /\ l.idx \in Nat /\ l.done \in Nat /\ l.bi \in 0..1
      /\ l.rcnt \in [0..1 -> Nat]
      /\ l.rcnt[0] \in Nat /\ l.rcnt[1] \in Nat /\ l.process \in BOOLEAN
      /\ x.len \in Nat /\ x.width \in {1, 2, 4} /\ x.dir \in {"read", "write"}
      /\ High \in Nat /\ Low \in 5..High
  BY SpeedAssumption DEF Locals, Xfers, Widths, Directions
<1>2. NextProcess(l) \in BOOLEAN /\ (NextProcess(l) <=> l.process \/ l.bi = 1)
  BY <1>1 DEF NextProcess
<1>3. m \in Locals
  <2>1. 1 - l.bi \in 0..1
    BY <1>1
  <2> QED BY <2>1, <1>2 DEF Locals
<1>4. /\ m.i = l.i /\ m.idx = 0 /\ m.done = l.done /\ m.rcnt = l.rcnt
      /\ m.bi = 1 - l.bi /\ m.process = NextProcess(l)
  BY <1>1 DEF Locals
<1>5. l.i >= 1
  BY <1>1 DEF Sized, IsFull, write_send_sz
<1>6. ~NextProcess(l) => m.bi = 1 /\ m.rcnt[1] = 0
  BY <1>1, <1>2, <1>4 DEF Sized
<1>7. ~NextProcess(l) => Fits(x, m.idx, m.rcnt[m.bi])
  BY <1>1, <1>4, <1>6 DEF Fits
<1>8. ~m.process /\ m.bi = 0 => m.rcnt[1] = 0
  BY <1>1, <1>4, <1>6
<1>9. m.idx <= TbufSize /\ m.idx <= read_send_sz
  BY <1>1, <1>4 DEF TbufSize
<1>10. CASE NextProcess(l)
  BY <1>1, <1>3, <1>4, <1>5, <1>8, <1>9, <1>10 DEF Sized
<1>11. CASE ~NextProcess(l)
  BY <1>1, <1>3, <1>4, <1>5, <1>7, <1>8, <1>9, <1>11 DEF Sized
<1> QED BY <1>10, <1>11

-----------------------------------------------------------------------------
(* The invariant holds initially and every step preserves it.              *)

\* A step of one caller leaves the locals of the other alone.
LEMMA OneCaller ==
  ASSUME IInv, Types', NEW t \in Callers,
         \A u \in Callers \ {t} :
           loc'[u] = loc[u] /\ xfer'[u] = xfer[u] /\ pc'[u] = pc[u],
         read_send_sz' = read_send_sz,
         Sized(t, loc'[t], xfer'[t], pc'[t], read_send_sz)
  PROVE  IInv'
BY DEF IInv

\* The transfers of the constants are transfers, a plugin's of one element.
LEMMA TransferTypes ==
  /\ Transfers \cup {NoTransfer} \subseteq Xfers
  /\ Nested \cup {NoTransfer} \subseteq {x \in Xfers : x.len = 1}
BY TransferAssumption DEF Xfers, NoTransfer, Directions, Widths

\* A caller that starts has nothing in its buffers and expects nothing.
LEMMA FreshSized ==
  ASSUME NEW t \in Callers, NEW x \in Xfers, NEW p \in {"idle", "lock"},
         NEW s \in {High, Low}
  PROVE  Fresh \in Locals /\ Sized(t, Fresh, x, p, s)
<1>1. Fresh \in Locals
  BY DEF Fresh, Locals
<1>2. /\ x.len \in Nat /\ x.width \in {1, 2, 4} /\ x.dir \in {"read", "write"}
      /\ High \in Nat /\ Low \in Nat
  BY SpeedAssumption DEF Xfers, Widths, Directions
<1>3. RecvBuf(x) >= 0 /\ TbufSize >= 0
  BY <1>2 DEF RecvBuf, ReadRecvBuf, WriteRecvBuf, TbufSize
<1>4. Fits(x, 0, 0)
  BY <1>2 DEF Fits
<1>5. 0 <= ResponseSize(x) * (0 - 0)
  BY <1>2 DEF ResponseSize
<1> QED BY <1>1, <1>2, <1>3, <1>4, <1>5 DEF Sized, Fresh

\* Both callers start with empty buffers.
LEMMA InitStep == Init => IInv
<1> SUFFICES ASSUME Init PROVE IInv
  OBVIOUS
<1>1. NoTransfer \in Xfers /\ High \in Nat /\ Low \in Nat
  BY TransferTypes, SpeedAssumption
<1>2. \A t \in Callers : Fresh \in Locals /\ Sized(t, Fresh, NoTransfer, "idle", High)
  BY <1>1, FreshSized
<1>3. Types
  BY <1>1, <1>2, TransferAssumption DEF Init, Types, Callers
<1> QED BY <1>2, <1>3 DEF IInv, Init

\* Putting a command (Fill and Put) keeps the caller's locals within bounds.
LEMMA PutStep ==
  ASSUME IInv, NEW t \in Callers, PutCommand(t), loc[t].i < xfer[t].len,
         \/ pc[t] = "loop" /\ ~IsFull(xfer[t], loc[t].idx)
         \/ pc[t] = "put"
  PROVE  /\ tbuf' \in [0..1 -> Seq(Commands)]
         /\ loc' \in [Callers -> Locals]
         /\ \A u \in Callers \ {t} : loc'[u] = loc[u]
         /\ Sized(t, loc'[t], xfer[t], "loop", read_send_sz)
<1> DEFINE l == loc[t]
           x == xfer[t]
           m == [l EXCEPT !.i = @ + 1, !.idx = @ + CommandSize(x, l.i),
                          !.rcnt[l.bi] = @ + ResponseSize(x)]
<1>1. /\ l \in Locals /\ x \in Xfers /\ read_send_sz \in {High, Low}
      /\ Sized(t, l, x, pc[t], read_send_sz)
      /\ t = "plugin" => x.len = 1
  BY TransferTypes DEF IInv, Types
<1>2. loc' = [loc EXCEPT ![t] = m]
  BY DEF PutCommand
<1>3. m \in Locals
  <2> DEFINE r == [l.rcnt EXCEPT ![l.bi] = @ + ResponseSize(x)]
  <2>1. CommandSize(x, l.i) \in Nat /\ ResponseSize(x) \in Nat
    BY <1>1 DEF CommandSize, ResponseSize, Xfers, Widths
  <2>2. r \in [0..1 -> Nat]
    BY <1>1, <2>1 DEF Locals
  <2>3. l.i + 1 \in Nat /\ l.idx + CommandSize(x, l.i) \in Nat
    BY <1>1, <2>1 DEF Locals
  <2>4. m = [l EXCEPT !.i = l.i + 1, !.idx = l.idx + CommandSize(x, l.i),
                      !.rcnt = r]
    BY <1>1 DEF Locals
  <2> HIDE DEF r, l, x
  <2> QED BY <1>1, <2>2, <2>3, <2>4 DEF Locals
<1>4. Sized(t, m, x, "loop", read_send_sz)
  <2> HIDE DEF l, x
  <2> QED BY <1>1, <1>3, PutSized DEF l, x
<1>5. tbuf' \in [0..1 -> Seq(Commands)]
  <2> DEFINE command == [by |-> t, k |-> l.i]
  <2>1. command \in Commands /\ l.bi \in 0..1
    BY <1>1 DEF Commands, Locals
  <2>2. tbuf[l.bi] \in Seq(Commands)
    BY <2>1 DEF IInv, Types
  <2>3. <<command>> \in Seq(Commands) /\ Append(tbuf[l.bi], command) \in Seq(Commands)
    BY <2>1, <2>2
  <2> QED BY <2>3 DEF PutCommand, IInv, Types
<1> QED BY <1>1, <1>2, <1>3, <1>4, <1>5 DEF IInv, Types

\* Reading the responses to a buffer keeps the caller's locals within bounds.
LEMMA ReceiveStep ==
  ASSUME IInv, NEW t \in Callers, NEW b \in 0..1, Receive(t, b),
         NEW q \in {"put", "rest", "unlock"},
         pc[t] \in {"older", "rest"}, q = "put" <=> pc[t] = "older",
         pc[t] = "older" => b = loc[t].bi
  PROVE  /\ process' \in {"running", "exited"}
         /\ loc' \in [Callers -> Locals]
         /\ \A u \in Callers \ {t} : loc'[u] = loc[u]
         /\ Sized(t, loc'[t], xfer[t], q, read_send_sz)
<1> DEFINE l == loc[t]
           x == xfer[t]
           m == [l EXCEPT !.done = @ + (l.rcnt[b] \div ResponseSize(x)),
                          !.rcnt[b] = 0]
<1>1. /\ l \in Locals /\ x \in Xfers /\ read_send_sz \in {High, Low}
      /\ Sized(t, l, x, pc[t], read_send_sz)
  BY DEF IInv, Types
<1>2. loc' = [loc EXCEPT ![t] = m]
  BY DEF Receive
<1>3. m \in Locals /\ Sized(t, m, x, q, read_send_sz)
  <2> HIDE DEF l, x
  <2> QED BY <1>1, ReceiveSized DEF l, x
<1>4. process' \in {"running", "exited"}
  BY DEF Receive, Status
<1> QED BY <1>2, <1>3, <1>4 DEF IInv, Types

\* The actions of a caller.
LEMMA CallerStep ==
  ASSUME IInv, NEW t \in Callers, Start(t) \/ Caller(t)
  PROVE  IInv'
<1>1. /\ loc[t] \in Locals /\ xfer[t] \in Xfers /\ read_send_sz \in {High, Low}
      /\ Sized(t, loc[t], xfer[t], pc[t], read_send_sz)
  BY DEF IInv, Types
<1>2. CASE Start(t)
  <2>1. PICK x \in (IF t = "main" THEN Transfers ELSE Nested) :
          xfer' = [xfer EXCEPT ![t] = x]
    BY <1>2 DEF Start
  <2>2. x \in Xfers
    BY <2>1, TransferTypes
  <2>3. Fresh \in Locals /\ Sized(t, Fresh, x, "lock", read_send_sz)
    BY <1>1, <2>2, FreshSized
  <2>4. calls' \in [Callers -> 0..MaxCalls]
    BY <1>2, TransferAssumption DEF Start, IInv, Types
  <2>5. Types'
    BY <1>2, <2>1, <2>2, <2>3, <2>4 DEF Start, IInv, Types, Callers
  <2> QED BY <1>2, <2>1, <2>3, <2>5, OneCaller DEF Start, IInv, Types
<1>3. CASE Lock(t)
  <2>1. Types'
    BY <1>3 DEF Lock, IInv, Types
  <2>2. Sized(t, loc[t], xfer[t], "loop", read_send_sz)
    BY <1>1, <1>3 DEF Lock, Sized, Filling
  <2> QED BY <1>3, <2>1, <2>2, OneCaller DEF Lock, IInv, Types
<1>4. CASE Fill(t)
  <2>1. /\ tbuf' \in [0..1 -> Seq(Commands)]
        /\ loc' \in [Callers -> Locals]
        /\ \A u \in Callers \ {t} : loc'[u] = loc[u]
        /\ Sized(t, loc'[t], xfer[t], "loop", read_send_sz)
    BY <1>4, PutStep DEF Fill
  <2>2. Types'
    BY <1>4, <2>1 DEF Fill, IInv, Types
  <2> QED BY <1>4, <2>1, <2>2, OneCaller DEF Fill
<1>5. CASE Flush(t)
  <2> DEFINE m == [loc[t] EXCEPT !.bi = 1 - @, !.idx = 0,
                                 !.process = NextProcess(loc[t])]
             q == IF NextProcess(loc[t]) THEN "older" ELSE "put"
  <2>1. loc' = [loc EXCEPT ![t] = m] /\ pc' = [pc EXCEPT ![t] = q]
    BY <1>5 DEF Flush
  <2>2. m \in Locals /\ Sized(t, m, xfer[t], q, read_send_sz)
    BY <1>1, <1>5, FlushSized DEF Flush
  <2>3. toDev' \in Seq(Commands)
    <3>1. tbuf[loc[t].bi] \in Seq(Commands)
      BY <1>1 DEF IInv, Types, Locals
    <3> QED BY <3>1, <1>5 DEF Flush, IInv, Types
  <2>5. q \in {"older", "put"}
    OBVIOUS
  <2> HIDE DEF m, q
  <2>6. /\ loc' \in [Callers -> Locals]
        /\ pc' \in [Callers -> {"idle", "lock", "loop", "older", "put",
                                 "rest", "unlock"}]
    BY <2>1, <2>2, <2>5 DEF IInv, Types
  <2>4. Types'
    BY <1>5, <2>3, <2>6 DEF Flush, IInv, Types
  <2> QED BY <1>5, <2>1, <2>2, <2>4, OneCaller DEF Flush, IInv, Types
<1>6. CASE ReceiveOlder(t)
  <2>1. /\ process' \in {"running", "exited"}
        /\ loc' \in [Callers -> Locals]
        /\ \A u \in Callers \ {t} : loc'[u] = loc[u]
        /\ Sized(t, loc'[t], xfer[t], "put", read_send_sz)
    BY <1>1, <1>6, ReceiveStep DEF ReceiveOlder, Locals
  <2>2. Types'
    BY <1>6, <2>1 DEF ReceiveOlder, IInv, Types
  <2> QED BY <1>6, <2>1, <2>2, OneCaller DEF ReceiveOlder, IInv, Types
<1>7. CASE Put(t)
  <2>1. loc[t].i < xfer[t].len
    BY <1>1, <1>7 DEF Put, Sized, Xfers
  <2>2. /\ tbuf' \in [0..1 -> Seq(Commands)]
        /\ loc' \in [Callers -> Locals]
        /\ \A u \in Callers \ {t} : loc'[u] = loc[u]
        /\ Sized(t, loc'[t], xfer[t], "loop", read_send_sz)
    BY <1>7, <2>1, PutStep DEF Put
  <2>3. Types'
    BY <1>7, <2>2 DEF Put, IInv, Types
  <2> QED BY <1>7, <2>2, <2>3, OneCaller DEF Put, IInv, Types
<1>8. CASE SendRest(t)
  <2>1. toDev' \in Seq(Commands)
    <3>1. tbuf[loc[t].bi] \in Seq(Commands)
      BY <1>1 DEF IInv, Types, Locals
    <3> QED BY <3>1, <1>8 DEF SendRest, IInv, Types
  <2>2. Types'
    BY <1>8, <2>1 DEF SendRest, IInv, Types
  <2>3. Sized(t, loc[t], xfer[t], "rest", read_send_sz)
    BY <1>1, <1>8 DEF SendRest, Sized, Filling
  <2> QED BY <1>8, <2>2, <2>3, OneCaller DEF SendRest, IInv, Types
<1>9. CASE ReceiveRest(t)
  <2> DEFINE b == IF loc[t].rcnt[1 - loc[t].bi] > 0 THEN 1 - loc[t].bi
                                                    ELSE loc[t].bi
             q == IF b = loc[t].bi THEN "unlock" ELSE "rest"
  <2>1. b \in 0..1 /\ Receive(t, b) /\ pc' = [pc EXCEPT ![t] = q]
    BY <1>1, <1>9 DEF ReceiveRest, Locals
  <2> HIDE DEF b
  <2>2. /\ process' \in {"running", "exited"}
        /\ loc' \in [Callers -> Locals]
        /\ \A u \in Callers \ {t} : loc'[u] = loc[u]
        /\ Sized(t, loc'[t], xfer[t], q, read_send_sz)
    BY <2>1, <1>9, ReceiveStep DEF ReceiveRest
  <2>3. Types'
    BY <1>9, <2>1, <2>2 DEF ReceiveRest, IInv, Types
  <2> QED BY <1>9, <2>1, <2>2, <2>3, OneCaller DEF ReceiveRest, IInv, Types
<1>10. CASE Unlock(t)
  <2>1. Types'
    BY <1>10 DEF Unlock, IInv, Types
  <2>2. Sized(t, loc[t], xfer[t], "idle", read_send_sz)
    BY <1>1, <1>10 DEF Unlock, Sized, Filling
  <2> QED BY <1>10, <2>1, <2>2, OneCaller DEF Unlock, IInv, Types
<1> QED BY <1>2, <1>3, <1>4, <1>5, <1>6, <1>7, <1>8, <1>9, <1>10 DEF Caller

\* Every step preserves the invariant.
LEMMA NextStep ==
  ASSUME IInv, [Next]_vars
  PROVE  IInv'
<1>1. ASSUME NEW t \in Callers, Start(t) \/ Caller(t)
      PROVE  IInv'
  BY <1>1, CallerStep
<1>2. ASSUME NEW en \in BOOLEAN, Hispeed(en)
      PROVE  IInv'
  <2>1. Types'
    BY <1>2 DEF Hispeed, IInv, Types
  <2>2. ASSUME NEW t \in Callers
        PROVE  Sized(t, loc[t], xfer[t], pc[t], read_send_sz')
    BY <1>2 DEF Hispeed, IInv, Sized, Filling
  <2> QED BY <1>2, <2>1, <2>2 DEF Hispeed, IInv
<1>3. ASSUME NEW err \in BOOLEAN, Perform(err)
      PROVE  IInv'
  <2>1. Head(toDev) \in Commands /\ toDev' \in Seq(Commands)
    BY <1>3 DEF Perform, IInv, Types
  <2>2. nerr' \in 0..MaxErrors
    BY <1>3, TransferAssumption DEF Perform, IInv, Types
  <2>3. failed' \subseteq Callers
    BY <1>3, <2>1 DEF Perform, IInv, Types, Commands
  <2>4. Types'
    BY <1>3, <2>1, <2>2, <2>3 DEF Perform, IInv, Types
  <2> QED BY <1>3, <2>4 DEF Perform, IInv
<1>4. CASE UNCHANGED vars
  BY <1>4 DEF vars, IInv, Types
<1> QED BY <1>1, <1>2, <1>3, <1>4 DEF Next

\* flexsoc_read and flexsoc_write keep their indexes and counts in range.
THEOREM Invariance == Spec => []IInv
<1>1. Init => IInv
  BY InitStep
<1>2. IInv /\ [Next]_vars => IInv'
  BY NextStep
<1> QED BY <1>1, <1>2, PTL DEF Spec

\* The commands gathered always fit into tbuf and the responses expected for
\* one buffer into rbuf, at either speed (flexsoc.cpp:231, 323, 351, 390, 460).
THEOREM BuffersSuffice == Spec => []TypeOK
<1>1. IInv => TypeOK
  <2> SUFFICES ASSUME IInv PROVE TypeOK
    OBVIOUS
  <2>1. ASSUME NEW t \in Callers
        PROVE  /\ loc[t].i \in 0..xfer[t].len /\ loc[t].done \in 0..loc[t].i
               /\ loc[t].bi \in 0..1 /\ loc[t].process \in BOOLEAN
               /\ loc[t].idx \in 0..TbufSize
               /\ \A b \in 0..1 : loc[t].rcnt[b] \in 0..RecvBuf(xfer[t])
    <3>1. loc[t] \in Locals /\ xfer[t] \in Xfers
          /\ Sized(t, loc[t], xfer[t], pc[t], read_send_sz)
      BY DEF IInv, Types
    <3>2. /\ loc[t].i \in Nat /\ loc[t].idx \in Nat /\ loc[t].done \in Nat
          /\ loc[t].bi \in 0..1 /\ loc[t].process \in BOOLEAN
          /\ \A b \in 0..1 : loc[t].rcnt[b] \in Nat
          /\ xfer[t].len \in Nat
      BY <3>1 DEF Locals, Xfers
    <3>3. TbufSize \in Nat /\ RecvBuf(xfer[t]) \in Nat
      BY SpeedAssumption DEF TbufSize, RecvBuf, ReadRecvBuf, WriteRecvBuf
    <3>4. /\ loc[t].i <= xfer[t].len /\ loc[t].done <= loc[t].i
          /\ loc[t].idx <= TbufSize
          /\ \A b \in 0..1 : loc[t].rcnt[b] <= RecvBuf(xfer[t])
      BY <3>1 DEF Sized
    <3> QED BY <3>2, <3>3, <3>4
  <2> QED BY <2>1 DEF IInv, Types, TypeOK
<1> QED BY <1>1, Invariance, PTL
=============================================================================
