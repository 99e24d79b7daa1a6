---------------------------- MODULE BlockTransfer ----------------------------
(***************************************************************************)
(* flexsoc_read and flexsoc_write: an access to len elements of width      *)
(* bytes, sent as one command per element, gathered in two buffers.  The   *)
(* first command carries the address; each further one tells the device to *)
(* go on behind the previous one.  When both buffers are on their way, the *)
(* responses to the older one are read before it is filled again.          *)
(*                                                                         *)
(* Commands and responses are numbered by element and named by caller: the *)
(* packets carry neither.  The link, the listen thread and Cbuf keep       *)
(* responses in order, so the two queues here are toDev (commands not      *)
(* performed) and mbuf (responses not read).                               *)
(***************************************************************************)
EXTENDS Integers, Sequences, SequencesExt

CONSTANTS High, Low,    \* HIGH_SPEED_SEND_SZ, LOW_SPEED_SEND_SZ (180, 9)
          Transfers,    \* set of [dir, width, len] that main asks for
          Nested,       \* ... and that a plugin asks for (one element)
          MaxCalls,     \* bound: transfers each caller makes
          MaxErrors     \* bound: bus errors the device reports

Directions == {"read", "write"}
Widths == {1, 2, 4}

\* A first read command is five bytes: the test for a full buffer is an
\* equality, and a smaller buffer would be passed over.
ASSUME SpeedAssumption == High \in Nat /\ Low \in 5..High
ASSUME TransferAssumption ==
  /\ Transfers \subseteq [dir : Directions, width : Widths, len : Nat \ {0}]
  /\ Nested \subseteq [dir : Directions, width : Widths, len : {1}]
  /\ MaxCalls \in Nat /\ MaxErrors \in Nat

Callers == {"main", "plugin"}

VARIABLES process,        \* "running" or "exited" (err)
          read_send_sz,
          api_lock,
          tbuf,           \* the two buffers: sequences of commands
          pc,             \* caller -> place in flexsoc_read / flexsoc_write
          xfer,           \* caller -> the transfer it makes
          loc,            \* caller -> its local variables
          calls,          \* caller -> transfers made so far
          toDev, mbuf,
          last,           \* the command the device performed last
          failed,         \* callers whose current transfer met a bus error
          nerr

vars == <<process, read_send_sz, api_lock, tbuf, pc, xfer, loc, calls, toDev,
          mbuf, last, failed, nerr>>

\* The locals: `done` counts the elements whose response has been processed.
Fresh == [i |-> 0, bi |-> 0, idx |-> 0, rcnt |-> [b \in 0..1 |-> 0],
          process |-> FALSE, done |-> 0]

NoTransfer == [dir |-> "read", width |-> 4, len |-> 1]
NoCommand == [by |-> "main", k |-> -1]

Init == /\ process = "running" /\ read_send_sz = High /\ api_lock = "nobody"
        /\ tbuf = [b \in 0..1 |-> <<>>]
        /\ pc = [t \in Callers |-> "idle"]
        /\ xfer = [t \in Callers |-> NoTransfer]
        /\ loc = [t \in Callers |-> Fresh]
        /\ calls = [t \in Callers |-> 0]
        /\ toDev = <<>> /\ mbuf = <<>> /\ last = NoCommand
        /\ failed = {} /\ nerr = 0

-----------------------------------------------------------------------------
(* Sizes.                                                                  *)

write_send_sz == read_send_sz * 5
TbufSize == High * 5                 \* malloc (HIGH_SPEED_SEND_SZ * 5)
ReadRecvBuf == High * 5              \* READ_RECV_BUF_SZ
WriteRecvBuf == (High * 5) \div 2    \* WRITE_RECV_BUF_SZ
SendSize(x) == IF x.dir = "read" THEN read_send_sz ELSE write_send_sz
RecvBuf(x) == IF x.dir = "read" THEN ReadRecvBuf ELSE WriteRecvBuf

CommandSize(x, i) == (IF i = 0 THEN 5 ELSE 1)
                     + (IF x.dir = "write" THEN x.width ELSE 0)
ResponseSize(x) == IF x.dir = "read" THEN 1 + x.width ELSE 1

\* Definitions marked "slip" are not used by the specification: each is the
\* definition after it with a plausible mistake, which a property has to notice.

\* slip: the test of flexsoc_read is used for writes too.
IsFullEqual(x, idx) == idx = SendSize(x)

\* Is the buffer to be flushed before the next command?
IsFull(x, idx) == IF x.dir = "read" THEN idx = read_send_sz
                                    ELSE idx + 1 + x.width > write_send_sz

-----------------------------------------------------------------------------
(* One transfer.                                                           *)

Start(t) == /\ process = "running" /\ pc[t] = "idle" /\ calls[t] < MaxCalls
            /\ \E x \in (IF t = "main" THEN Transfers ELSE Nested) :
                 xfer' = [xfer EXCEPT ![t] = x]
            /\ loc' = [loc EXCEPT ![t] = Fresh]
            /\ calls' = [calls EXCEPT ![t] = @ + 1]
            /\ pc' = [pc EXCEPT ![t] = "lock"]
            /\ failed' = failed \ {t}
            /\ UNCHANGED <<process, read_send_sz, api_lock, tbuf, toDev, mbuf,
                           last, nerr>>

\* slip: api_lock is not waited for.
LockIgnored(t) == /\ process = "running" /\ pc[t] = "lock"
                  /\ api_lock' = t
                  /\ pc' = [pc EXCEPT ![t] = "loop"]
                  /\ UNCHANGED <<process, read_send_sz, tbuf, xfer, loc, calls,
                                 toDev, mbuf, last, failed, nerr>>

\* dev->WriteSize and dev->ReadSize, which follow, set sizes of the transport's
\* own transfers and are left out.
Lock(t) == /\ process = "running" /\ pc[t] = "lock"
           /\ api_lock = "nobody"
           /\ api_lock' = t
           /\ pc' = [pc EXCEPT ![t] = "loop"]
           /\ UNCHANGED <<process, read_send_sz, tbuf, xfer, loc, calls, toDev,
                          mbuf, last, failed, nerr>>

\* The buffers the two threads fill are the static ones.
PutCommand(t) ==
  LET l == loc[t]
      x == xfer[t]
      command == [by |-> t, k |-> l.i]
  IN /\ tbuf' = [tbuf EXCEPT ![l.bi] = IF l.idx = 0 THEN <<command>>
                                                    ELSE Append(@, command)]
     /\ loc' = [loc EXCEPT ![t].i = @ + 1,
                           ![t].idx = @ + CommandSize(x, l.i),
                           ![t].rcnt[l.bi] = @ + ResponseSize(x)]

\* The loop body for element i, when the current buffer has room.
Fill(t) == /\ process = "running" /\ pc[t] = "loop"
           /\ loc[t].i < xfer[t].len /\ ~IsFull(xfer[t], loc[t].idx)
           /\ PutCommand(t)
           /\ UNCHANGED <<process, read_send_sz, api_lock, pc, xfer, calls,
                          toDev, mbuf, last, failed, nerr>>

\* slip: nothing is processed before the end.
NextProcessNever(l) == l.process

\* Both buffers have been sent once the index is back at the first.
NextProcess(l) == l.process \/ l.bi = 1

\* The loop body when the current buffer is full: send it, switch buffers, ...
Flush(t) ==
  LET l == loc[t]
  IN /\ process = "running" /\ pc[t] = "loop"
     /\ l.i < xfer[t].len /\ IsFull(xfer[t], l.idx)
     /\ toDev' = toDev \o tbuf[l.bi]
     /\ loc' = [loc EXCEPT ![t].bi = 1 - @, ![t].idx = 0,
                           ![t].process = NextProcess(l)]
     /\ pc' = [pc EXCEPT ![t] = IF NextProcess(l) THEN "older" ELSE "put"]
     /\ UNCHANGED <<process, read_send_sz, api_lock, tbuf, xfer, calls, mbuf,
                    last, failed, nerr>>

\* ... and, after the responses to its previous contents have been read, put
\* the command into the other.
Put(t) == /\ process = "running" /\ pc[t] = "put"
          /\ PutCommand(t)
          /\ pc' = [pc EXCEPT ![t] = "loop"]
          /\ UNCHANGED <<process, read_send_sz, api_lock, xfer, calls, toDev,
                         mbuf, last, failed, nerr>>

\* slip: a bus error is only logged.
StatusIgnored(responses) == "running"

\* read_process and write_process: an error response ends the program.
Status(responses) == IF \E r \in ToSet(responses) : r.err
                       THEN "exited" ELSE "running"

\* slip: the count is not reset once the responses have been read.
ReceiveKeepsCount(t, b) ==
  LET n == loc[t].rcnt[b] \div ResponseSize(xfer[t])
  IN /\ Len(mbuf) >= n
     /\ mbuf' = SubSeq(mbuf, n + 1, Len(mbuf))
     /\ process' = Status(SubSeq(mbuf, 1, n))
     /\ loc' = [loc EXCEPT ![t].done = @ + n]

\* read_process (rcnt[b]) or write_process (rcnt[b]): wait for all the
\* responses expected for buffer b and read them.
Receive(t, b) ==
  LET n == loc[t].rcnt[b] \div ResponseSize(xfer[t])
  IN /\ Len(mbuf) >= n
     /\ mbuf' = SubSeq(mbuf, n + 1, Len(mbuf))
     /\ process' = Status(SubSeq(mbuf, 1, n))
     /\ loc' = [loc EXCEPT ![t].done = @ + n, ![t].rcnt[b] = 0]

ReceiveOlder(t) == /\ process = "running" /\ pc[t] = "older"
                   /\ Receive(t, loc[t].bi)
                   /\ pc' = [pc EXCEPT ![t] = "put"]
                   /\ UNCHANGED <<read_send_sz, api_lock, tbuf, xfer, calls,
                                  toDev, last, failed, nerr>>

\* After the loop: send what the current buffer holds, ...
SendRest(t) == /\ process = "running" /\ pc[t] = "loop"
               /\ loc[t].i = xfer[t].len
               /\ toDev' = IF loc[t].idx # 0 THEN toDev \o tbuf[loc[t].bi]
                                             ELSE toDev
               /\ pc' = [pc EXCEPT ![t] = "rest"]
               /\ UNCHANGED <<process, read_send_sz, api_lock, tbuf, xfer, loc,
                              calls, mbuf, last, failed, nerr>>

\* ... read the responses to the older buffer, then those to the newer one.
ReceiveRest(t) ==
  LET l == loc[t]
      b == IF l.rcnt[1 - l.bi] > 0 THEN 1 - l.bi ELSE l.bi
  IN /\ process = "running" /\ pc[t] = "rest"
     /\ Receive(t, b)
     /\ pc' = [pc EXCEPT ![t] = IF b = l.bi THEN "unlock" ELSE "rest"]
     /\ UNCHANGED <<read_send_sz, api_lock, tbuf, xfer, calls, toDev, last,
                    failed, nerr>>

Unlock(t) == /\ process = "running" /\ pc[t] = "unlock"
             /\ api_lock' = "nobody"
             /\ pc' = [pc EXCEPT ![t] = "idle"]
             /\ UNCHANGED <<process, read_send_sz, tbuf, xfer, loc, calls,
                            toDev, mbuf, last, failed, nerr>>

\* main switches speed between its transfers, without api_lock.
Hispeed(en) == /\ process = "running" /\ pc["main"] = "idle"
               /\ read_send_sz' = IF en THEN High ELSE Low
               /\ UNCHANGED <<process, api_lock, tbuf, pc, xfer, loc, calls,
                              toDev, mbuf, last, failed, nerr>>

\* The device performs the commands in order, each with or without a bus error.
Perform(err) ==
  /\ process = "running" /\ toDev # <<>>
  /\ err => nerr < MaxErrors
  /\ toDev' = Tail(toDev)
  /\ last' = Head(toDev)
  /\ mbuf' = Append(mbuf, [by |-> Head(toDev).by, k |-> Head(toDev).k,
                           err |-> err])
  /\ failed' = IF err THEN failed \cup {Head(toDev).by} ELSE failed
  /\ nerr' = IF err THEN nerr + 1 ELSE nerr
  /\ UNCHANGED <<process, read_send_sz, api_lock, tbuf, pc, xfer, loc, calls>>

-----------------------------------------------------------------------------
Caller(t) == \/ Lock(t) \/ Fill(t) \/ Flush(t) \/ ReceiveOlder(t) \/ Put(t)
             \/ SendRest(t) \/ ReceiveRest(t) \/ Unlock(t)

Next == \/ \E t \in Callers : Start(t) \/ Caller(t)
        \/ \E en \in BOOLEAN : Hispeed(en)
        \/ \E err \in BOOLEAN : Perform(err)

Spec == Init /\ [][Next]_vars

\* A caller inside the API is scheduled, and the device performs what it gets.
Fairness == /\ \A t \in Callers : WF_vars(Caller(t))
            /\ WF_vars(Perform(FALSE))

FairSpec == Spec /\ Fairness

-----------------------------------------------------------------------------
\* Besides the types: the commands gathered fit into tbuf, and the responses
\* expected for one buffer fit into rbuf of read_process and write_process, at
\* either speed, for every direction and width.
TypeOK ==
  /\ process \in {"running", "exited"}
  /\ read_send_sz \in {High, Low}
  /\ api_lock \in Callers \cup {"nobody"}
  /\ pc \in [Callers -> {"idle", "lock", "loop", "older", "put", "rest",
                        "unlock"}]
  /\ calls \in [Callers -> 0..MaxCalls]
  /\ xfer["main"] \in Transfers \cup {NoTransfer}
  /\ xfer["plugin"] \in Nested \cup {NoTransfer}
  /\ \A t \in Callers :
       /\ loc[t].i \in 0..xfer[t].len /\ loc[t].done \in 0..loc[t].i
       /\ loc[t].bi \in 0..1 /\ loc[t].process \in BOOLEAN
       /\ loc[t].idx \in 0..TbufSize
       /\ \A b \in 0..1 : loc[t].rcnt[b] \in 0..RecvBuf(xfer[t])
  /\ failed \subseteq Callers /\ nerr \in 0..MaxErrors

InFlight == [k \in 1..Len(mbuf) |-> [by |-> mbuf[k].by, k |-> mbuf[k].k]]
            \o toDev

\* What mbuf delivers next is always the response to the element that the
\* holder of api_lock stores next, and so on for all that is on its way: data[k]
\* is the value of element k, a caller gets no response of another transfer,
\* and a transfer leaves none behind.
ResponsesInOrder ==
  \A k \in 1..Len(InFlight) :
    /\ api_lock # "nobody"
    /\ InFlight[k] = [by |-> api_lock, k |-> loc[api_lock].done + k - 1]

\* "Send incrementing read after first command", flexsoc.cpp:412: a command
\* without an address finds the device just behind its predecessor.
AutoIncrement ==
  toDev # <<>> /\ Head(toDev).k > 0 =>
    last = [Head(toDev) EXCEPT !.k = @ - 1]

\* Never more is on its way than the responses to two buffers: far less than
\* mbuf holds, so the listen thread, which also serves the plugins, never
\* blocks in mbuf->Write.
OutstandingBounded ==
  api_lock # "nobody" =>
    Len(InFlight) * ResponseSize(xfer[api_lock])
      <= 2 * RecvBuf(xfer[api_lock])

\* A transfer that returned met no bus error.
NoSilentError == \A t \in failed : pc[t] # "idle"

\* Every transfer returns or ends the program: it never waits for a response to
\* a command that it has not sent.
TransferCompletes ==
  \A t \in Callers :
    (pc[t] # "idle") ~> (pc[t] = "idle" \/ process = "exited")
=============================================================================
