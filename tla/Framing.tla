------------------------------- MODULE Framing -------------------------------
(***************************************************************************)
(* Packets on the link.  A packet is a header byte, whose payload code     *)
(* tells how many bytes follow, and those bytes; nothing else marks where  *)
(* a packet starts, so one byte too many or too few shifts all that come   *)
(* after it.                                                               *)
(*                                                                         *)
(* To the device: the two threads that call flexsoc_send, under write_lock *)
(* ("master" is the holder of api_lock, whose buffer may hold many         *)
(* commands; "slave" is the slave thread, which sends one reply).          *)
(* To the host: flexsoc_listen, which reads the header and then the rest   *)
(* of the packet in as many pieces as the transport delivers.              *)
(*                                                                         *)
(* A byte is named by its packet and its place in it; only the header's    *)
(* payload code has a value.  A Read or Write that transfers nothing is a  *)
(* stuttering step: both loops try again.                                  *)
(***************************************************************************)
EXTENDS Integers, Sequences, SequencesExt

CONSTANTS Buffers,       \* interface -> the buffers its thread may send: each
                         \*   a sequence of payload lengths
          DevicePackets, \* set of [to, len]: packets the device may send
          Works,         \* set of [master, slave, device]: how many buffers or
                         \*   packets each sends in an execution
          Transports,    \* subset of {"tcp", "ftdi"}
          ShortWrites    \* may the transport accept part of a buffer?

Interfaces == {"master", "slave"}
Parties == Interfaces \cup {"device"}
PayloadLengths == {0, 1, 2, 4, 5, 6, 8, 16}
SlavePktSize == 9        \* slave_pkt[9]

ASSUME PacketsAssumption ==
  /\ \A i \in Interfaces : Buffers[i] \subseteq Seq(PayloadLengths) \ {<<>>}
  /\ DevicePackets \subseteq [to : Interfaces, len : PayloadLengths]
\* The device's part of it: no transaction of the bus is longer than slave_pkt,
\* with its header, an address and at most a word.
ASSUME SlavePacketAssumption ==
  \A p \in DevicePackets : p.to = "slave" => p.len + 1 <= SlavePktSize
ASSUME WorkAssumption ==
  Works \subseteq [Parties -> Nat] /\ Transports \subseteq {"tcp", "ftdi"}
  /\ ShortWrites \in BOOLEAN

NotAvail == -1000        \* DEVICE_NOTAVAIL

VARIABLES
  work,                  \* what is still to be sent
  transport,
  \* flexsoc_send
  write_lock,            \* "nobody" or the thread that holds it
  spc,                   \* thread -> "out", "lock", "write", "ended"
  sbuf, written,         \* thread -> the buffer, the local `written`
  nsent,                 \* thread -> packets handed to flexsoc_send so far
  \* device
  toDev,                 \* bytes the transport accepted
  cur, need,             \* the byte it took last, how many belong to its packet
  ngot,                  \* thread -> packets received whole
  sent,                  \* interface -> all bytes the device has sent to it
  lost,                  \* the device is gone
  \* flexsoc_listen
  toHost,
  lpc,                   \* "read", "rest", "dispatch", "ended"
  pkt, pread, wr,        \* pkt, pread and the inner `written`
  got                    \* interface -> all bytes dispatched to it: mbuf's
                         \*   stream, the contents slave_pkt has had

sendVars == <<write_lock, spc, sbuf, written, nsent>>
devVars == <<cur, need, ngot>>
listenVars == <<lpc, pkt, pread, wr, got>>
vars == <<work, transport, sendVars, toDev, devVars, sent, lost, toHost,
          listenVars>>

-----------------------------------------------------------------------------
\* Definitions marked "slip" are not used by the specification: each is the
\* definition after it with a plausible mistake, which a property has to notice.

\* slip: the length of a first half-word write has no code.
payload2cmdWithout6(len) ==
  CASE len = 1 -> 1 [] len = 2 -> 2 [] len = 4 -> 3 [] len = 5 -> 4
    [] len = 8 -> 6 [] len = 16 -> 7 [] OTHER -> 0

payload2cmd(len) ==
  CASE len = 1 -> 1 [] len = 2 -> 2 [] len = 4 -> 3 [] len = 5 -> 4
    [] len = 6 -> 5 [] len = 8 -> 6 [] len = 16 -> 7 [] OTHER -> 0

\* slip: five bytes, the address and a byte, are forgotten.
cmd2payloadWithout5(code) == <<0, 1, 2, 4, 6, 8, 16, 16>>[code + 1]

cmd2payload(code) == <<0, 1, 2, 4, 5, 6, 8, 16>>[code + 1]

\* The bytes of the n-th packet of an interface, with len payload bytes.
PacketBytes(i, n, len) ==
  [k \in 1..(len + 1) |->
     [to |-> i, pkt |-> n, pos |-> k - 1,
      code |-> IF k = 1 THEN payload2cmd(len) ELSE 0]]

BufferBytes(i, n, lens) ==
  FlattenSeq([k \in 1..Len(lens) |-> PacketBytes(i, n + k, lens[k])])

NoByte == [to |-> "master", pkt |-> 0, pos |-> 0, code |-> 0]

Init == /\ work \in Works /\ transport \in Transports
        /\ write_lock = "nobody"
        /\ spc = [i \in Interfaces |-> "out"]
        /\ sbuf = [i \in Interfaces |-> <<>>]
        /\ written = [i \in Interfaces |-> 0]
        /\ nsent = [i \in Interfaces |-> 0]
        /\ toDev = <<>> /\ cur = NoByte /\ need = 0
        /\ ngot = [i \in Interfaces |-> 0]
        /\ sent = [i \in Interfaces |-> <<>>] /\ lost = FALSE
        /\ toHost = <<>> /\ lpc = "read"
        /\ pkt = <<>> /\ pread = 0 /\ wr = 0
        /\ got = [i \in Interfaces |-> <<>>]

-----------------------------------------------------------------------------
(* flexsoc_send.                                                           *)

SendCall(i) == /\ spc[i] = "out" /\ work[i] > 0
               /\ work' = [work EXCEPT ![i] = @ - 1]
               /\ \E lens \in Buffers[i] :
                    /\ sbuf' = [sbuf EXCEPT ![i] =
                                  BufferBytes(i, nsent[i], lens)]
                    /\ nsent' = [nsent EXCEPT ![i] = @ + Len(lens)]
               /\ written' = [written EXCEPT ![i] = 0]
               /\ spc' = [spc EXCEPT ![i] = "lock"]
               /\ UNCHANGED <<transport, write_lock, toDev, devVars, sent,
                              lost, toHost, listenVars>>

SendLock(i) == /\ spc[i] = "lock" /\ write_lock = "nobody"
               /\ write_lock' = i
               /\ spc' = [spc EXCEPT ![i] = "write"]
               /\ UNCHANGED <<work, transport, sbuf, written, nsent, toDev,
                              devVars, sent, lost, toHost, listenVars>>

\* One round of the loop: the transport accepts n bytes of the WHOLE buffer,
\* whatever it accepted before.
SendWrite(i) ==
  /\ spc[i] = "write" /\ written[i] < Len(sbuf[i]) /\ ~lost
  /\ \E n \in (IF ShortWrites THEN 1..Len(sbuf[i]) ELSE {Len(sbuf[i])}) :
       /\ toDev' = toDev \o SubSeq(sbuf[i], 1, n)
       /\ written' = [written EXCEPT ![i] = @ + n]
  /\ UNCHANGED <<work, transport, write_lock, spc, sbuf, nsent, devVars, sent,
                 lost, toHost, listenVars>>

\* The device is gone: FTDI's write fails and err ends the process, a socket's
\* raises SIGPIPE, which does too; every thread ends with it.  What a socket
\* still buffers counts as sent before the loss.
SendWriteLost(i) ==
  /\ spc[i] = "write" /\ written[i] < Len(sbuf[i])
  /\ lost
  /\ spc' = [t \in Interfaces |-> "ended"] /\ lpc' = "ended"
  /\ UNCHANGED <<work, transport, write_lock, sbuf, written, nsent, toDev,
                 devVars, sent, lost, toHost, pkt, pread, wr, got>>

\* slip: write_lock is left locked.
SendReturnLocked(i) == /\ spc[i] = "write" /\ written[i] >= Len(sbuf[i])
                       /\ spc' = [spc EXCEPT ![i] = "out"]
                       /\ UNCHANGED <<work, transport, write_lock, sbuf,
                                      written, nsent, toDev, devVars, sent,
                                      lost, toHost, listenVars>>

SendReturn(i) == /\ spc[i] = "write" /\ written[i] >= Len(sbuf[i])
                 /\ write_lock' = "nobody"
                 /\ spc' = [spc EXCEPT ![i] = "out"]
                 /\ UNCHANGED <<work, transport, sbuf, written, nsent, toDev,
                                devVars, sent, lost, toHost, listenVars>>

-----------------------------------------------------------------------------
(* The device.                                                             *)

\* It takes one byte: the header of a packet, or the next byte of one.
DeviceTake ==
  /\ toDev # <<>> /\ ~lost
  /\ LET b == Head(toDev)
         left == IF need = 0 THEN cmd2payload(b.code) ELSE need - 1
     IN /\ cur' = b
        /\ need' = left
        /\ ngot' = IF left = 0 THEN [ngot EXCEPT ![b.to] = @ + 1] ELSE ngot
  /\ toDev' = Tail(toDev)
  /\ UNCHANGED <<work, transport, sendVars, sent, lost, toHost, listenVars>>

\* It sends a packet, which may arrive in pieces.
DeviceSend ==
  /\ work["device"] > 0 /\ ~lost
  /\ \E p \in DevicePackets :
       LET bytes == PacketBytes(p.to, work["device"], p.len)
       IN /\ sent' = [sent EXCEPT ![p.to] = @ \o bytes]
          /\ toHost' = toHost \o bytes
  /\ work' = [work EXCEPT !["device"] = @ - 1]
  /\ UNCHANGED <<transport, sendVars, toDev, devVars, lost, listenVars>>

\* The device is unplugged or closes its connection; the host may still read
\* some of what is on its way.
DeviceLost ==
  /\ ~lost /\ lost' = TRUE
  /\ \E n \in 0..Len(toHost) : toHost' = SubSeq(toHost, 1, n)
  /\ UNCHANGED <<work, transport, sendVars, toDev, devVars, sent, listenVars>>

-----------------------------------------------------------------------------
(* flexsoc_listen.                                                         *)

ReadHeader == /\ lpc = "read" /\ toHost # <<>>
              /\ pkt' = <<Head(toHost)>> /\ toHost' = Tail(toHost)
              /\ pread' = 0 /\ wr' = 0
              /\ lpc' = "rest"
              /\ UNCHANGED <<work, transport, sendVars, toDev, devVars, sent,
                             lost, got>>

\* slip: the result is taken for an empty read.
ReadHeaderLostUnseen == /\ lpc = "read" /\ toHost = <<>> /\ lost
                        /\ transport = "ftdi"
                        /\ UNCHANGED vars

\* Only the FTDI transport reports that the device is gone.
ReadHeaderLost == /\ lpc = "read" /\ toHost = <<>> /\ lost
                  /\ transport = "ftdi"
                  /\ lpc' = "ended"
                  /\ UNCHANGED <<work, transport, sendVars, toDev, devVars,
                                 sent, lost, toHost, pkt, pread, wr, got>>

sz == cmd2payload(pkt[1].code)

\* slip: the header is counted as part of the payload.
StillWantedWithHeader == sz + 1 - pread
StillWanted == sz - pread

\* slip: every piece is stored behind the header.
StoreAtStart(piece) == SubSeq(pkt, 1, 1) \o piece

\* The piece goes to pkt[1 + pread].
Store(piece) == SubSeq(pkt, 1, 1 + pread) \o piece

ReadRest == /\ lpc = "rest" /\ pread >= 0
            /\ \E n \in 1..Len(toHost) :
                 /\ n <= StillWanted
                 /\ pkt' = Store(SubSeq(toHost, 1, n))
                 /\ toHost' = SubSeq(toHost, n + 1, Len(toHost))
                 /\ pread' = pread + n
            /\ UNCHANGED <<work, transport, sendVars, toDev, devVars, sent,
                           lost, lpc, wr, got>>

\* pread += DEVICE_NOTAVAIL, again and again; the model keeps the first.  (Two
\* million rounds later the sum overflows, which is undefined; the model stops
\* before.)
ReadRestLost == /\ lpc = "rest" /\ pread \in 0..(sz - 1) /\ toHost = <<>>
                /\ lost /\ transport = "ftdi"
                /\ pread' = pread + NotAvail
                /\ UNCHANGED <<work, transport, sendVars, toDev, devVars, sent,
                               lost, toHost, lpc, pkt, wr, got>>

ReadAll == /\ lpc = "rest" /\ pread >= sz
           /\ lpc' = "dispatch"
           /\ UNCHANGED <<work, transport, sendVars, toDev, devVars, sent, lost,
                          toHost, pkt, pread, wr, got>>

\* mbuf->Write stores n further bytes; the last round ends the loop.
DispatchMaster ==
  /\ lpc = "dispatch" /\ pkt[1].to = "master"
  /\ \E n \in 1..(sz + 1 - wr) :
       /\ got' = [got EXCEPT !["master"] = @ \o SubSeq(pkt, wr + 1, wr + n)]
       /\ wr' = wr + n
       /\ lpc' = IF wr + n = sz + 1 THEN "read" ELSE "dispatch"
  /\ UNCHANGED <<work, transport, sendVars, toDev, devVars, sent, lost, toHost,
                 pkt, pread>>

DispatchSlave ==
  /\ lpc = "dispatch" /\ pkt[1].to = "slave"
  /\ got' = [got EXCEPT !["slave"] = @ \o SubSeq(pkt, 1, sz + 1)]
  /\ lpc' = "read"
  /\ UNCHANGED <<work, transport, sendVars, toDev, devVars, sent, lost, toHost,
                 pkt, pread, wr>>

-----------------------------------------------------------------------------
Send(i) == \/ SendLock(i) \/ SendWrite(i) \/ SendWriteLost(i)
           \/ SendReturn(i)
Listen == \/ ReadHeader \/ ReadHeaderLost \/ ReadRest \/ ReadRestLost
          \/ ReadAll \/ DispatchMaster \/ DispatchSlave

Next == \/ \E i \in Interfaces : SendCall(i) \/ Send(i)
        \/ DeviceTake \/ DeviceSend \/ DeviceLost
        \/ Listen

Spec == Init /\ [][Next]_vars

\* Both loops retry until the transport takes or has something; the device
\* takes what it is sent.  It need not send anything.
Fairness == /\ \A i \in Interfaces : WF_vars(Send(i))
            /\ WF_vars(DeviceTake) /\ WF_vars(Listen)

FairSpec == Spec /\ Fairness

-----------------------------------------------------------------------------
Byte == [to : Interfaces, pkt : Nat, pos : 0..16, code : 0..7]

\* Besides the types: flexsoc_listen never reads into what is not pkt[17], unless
\* the device is lost in the middle of a packet.
TypeOK ==
  /\ work \in [Parties -> Nat] /\ transport \in Transports
  /\ write_lock \in Interfaces \cup {"nobody"}
  /\ spc \in [Interfaces -> {"out", "lock", "write", "ended"}]
  /\ sbuf \in [Interfaces -> Seq(Byte)] /\ written \in [Interfaces -> Nat]
  /\ nsent \in [Interfaces -> Nat] /\ ngot \in [Interfaces -> Nat]
  /\ toDev \in Seq(Byte) /\ cur \in Byte /\ need \in 0..16
  /\ sent \in [Interfaces -> Seq(Byte)] /\ got \in [Interfaces -> Seq(Byte)]
  /\ lost \in BOOLEAN
  /\ toHost \in Seq(Byte) /\ lpc \in {"read", "rest", "dispatch", "ended"}
  /\ pkt \in Seq(Byte) /\ wr \in 0..17
  /\ lpc = "rest" => Len(pkt) >= 1 /\ (pread \in 0..sz \/ lost)

\* Where the device expects a header it finds the header of its sender's next
\* packet, and where it expects payload it finds the next byte of the packet it
\* is receiving: no retry, no second sender and no length without a code makes
\* the two ends disagree about where packets start.
FramesIntact ==
  toDev # <<>> =>
    LET b == Head(toDev)
    IN IF need = 0 THEN b.pos = 0 /\ b.pkt = ngot[b.to] + 1
                   ELSE b = [cur EXCEPT !.pos = @ + 1, !.code = 0]

\* Each interface is handed what the device sent to it, in order, in whatever
\* pieces it arrived and was stored; and what is copied to slave_pkt is one whole
\* packet, which slave_pkt has room for: the code checks neither (flexsoc.cpp:187
\* copies as many bytes as the header's code says).
DeliveredInOrder ==
  /\ \A i \in Interfaces : IsPrefix(got[i], sent[i])
  /\ lpc = "dispatch" /\ pkt[1].to = "slave" =>
       Len(pkt) = sz + 1 /\ Len(pkt) <= SlavePktSize

\* All packets handed to flexsoc_send reach the device, each once, if it is
\* still there.
PacketsArrive == \A i \in Interfaces :
  (ngot[i] # nsent[i]) ~> (ngot[i] = nsent[i] \/ lost)

\* A packet that the device has sent is dispatched: flexsoc_listen does not
\* wait for bytes that no packet has.
PacketsDispatched ==
  (toHost # <<>> \/ lpc # "read") ~> (lost \/ (toHost = <<>> /\ lpc = "read"))

\* What is left to read ends with a whole packet.
EndsWhole ==
  IF toHost = <<>> THEN lpc # "rest" \/ pread >= sz
  ELSE LET b == Last(toHost)
       IN \A k \in 1..Len(sent[b.to]) :
            sent[b.to][k].pkt = b.pkt => sent[b.to][k].pos <= b.pos

\* "Device closed - kill thread", flexsoc.cpp:151: flexsoc_listen ends when the
\* device is gone, if the transport can tell and no packet is cut off.  (Only the
\* read of a header looks for DEVICE_NOTAVAIL: when the rest of a packet never
\* comes, the loop at flexsoc.cpp:166 adds it to pread, see ReadRestLost.)
ListenEndsWhenClosed ==
  (lost /\ transport = "ftdi" /\ EndsWhole) ~> (lpc = "ended")
=============================================================================
