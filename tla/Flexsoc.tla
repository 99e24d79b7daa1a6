------------------------------- MODULE Flexsoc -------------------------------
(***************************************************************************)
(* The threads of the flexsoc-cm3 command: the main thread, which runs the *)
(* command from plugin_init to the end of ~Target; the listen thread,      *)
(* which routes every packet that comes from the device; and the slave     *)
(* thread, which runs the plugins on the bus transactions the device       *)
(* forwards.  Main and slave share the link for master accesses under      *)
(* api_lock.  The device is the environment: its CSRs, its host master,    *)
(* which performs the accesses, and its host slave, which forwards one bus *)
(* transaction at a time and stalls the bus until the host replies.  It    *)
(* may be unplugged, between two packets (Framing has the loss within a    *)
(* packet): then every flexsoc_send ends the process with err.             *)
(*                                                                         *)
(* One access is one request and one response here; BlockTransfer models   *)
(* the pipelined ones.  flexsoc_send is one step because write_lock covers *)
(* it.  mbuf is the queue that Cbuf implements.                            *)
(***************************************************************************)
EXTENDS Integers, Sequences, FiniteSets

CONSTANTS Setups,    \* set of [handler, load, lossy]: what the plugin does
                     \*   with a transaction, where the binary is loaded,
                     \*   whether the device may be unplugged (FTDI)
          MaxRequest \* bound: transactions the host slave forwards

Handlers == {"plain",   \* answers by itself (Memory)
             "nested",  \* makes a master access first (Redirect)
             "exit"}    \* calls PluginTarget::Exit (UnitTest)
Loads == {"ram",        \* into memory of the SoC
          "plugin"}     \* into a region that a plugin serves

ASSUME SetupsAssumption == 
  Setups \subseteq [handler : Handlers, load : Loads, lossy : BOOLEAN]
ASSUME MaxRequestAssumption == MaxRequest \in Nat \ {0}

\* Definitions marked "slip" are not used by the specification: each is the
\* definition after it with a plausible mistake, which a property has to notice.

\* slip: the CPU runs before the handler of SIGINT is installed.
ProgramCpuFirst ==
  <<"register", "slave_on", "load", "verify", "cpu_on", "signal", "spin",
    "cpu_off", "ahb_off", "brg_off", "slave_off", "slave_off", "unregister",
    "free_plugins", "kill", "join_listen", "join_slave", "close">>

\* slip: the plugins are freed before the interface is shut down.
ProgramFreeFirst ==
  <<"register", "slave_on", "load", "verify", "signal", "cpu_on", "spin",
    "cpu_off", "ahb_off", "brg_off", "free_plugins", "slave_off", "slave_off",
    "unregister", "kill", "join_listen", "join_slave", "close">>

\* What main does between plugin_init and its return, in order.
Program == <<"register", "slave_on",                       \* plugin_init
             "load", "verify", "signal", "cpu_on", "spin", \* flexsoc_cm3
             "cpu_off", "ahb_off", "brg_off",              \* cleanup:
             "slave_off", "slave_off", "unregister",       \* plugin_cleanup
             "free_plugins",
             "kill", "join_listen", "join_slave", "close"  \* flexsoc_close
             >>
AccessSteps == {"slave_on", "load", "verify", "cpu_on", "cpu_off", "ahb_off",
                "brg_off", "slave_off"}
PC == 1..(Len(Program) + 1)

None == 0
Requests == 1..MaxRequest
Callers == {"main", "slave"}

VARIABLES
  setup,        \* the configuration of this execution
  \* process
  process,      \* "running", "killed" (by a signal), "crashed", or "exited"
                \*   (by err)
  sigint,       \* SIGINT pending for the main thread
  handled,      \* is the disposition of SIGINT the function shutdown?
  raised,       \* how many SIGINTs were raised
  shutdown_flag,
  \* globals of flexsoc.cpp
  recv_cb,      \* is a callback registered?
  kill_thread,
  slave_free,   \* slave_lock is unlocked: a packet waits for the slave thread
  slave_pkt,    \* the transaction in slave_pkt
  api_lock,     \* "nobody" or its holder
  mbuf,         \* responses, each named by the caller it answers
  \* threads
  mpc,          \* main: the step of Program it is at
  lpc,          \* listen: "read", "unlock", "done"
  spc,          \* slave: "wait", "woken", "check", "call", "handler",
                \*   "access", "reply", "done"
  call,         \* caller -> its place in flexsoc_read or flexsoc_write:
                \*   "none", "lock", "send", "recv"
  \* device
  toDev, toHost,\* the two directions of the link
  slave_en, cpu_run,
  host_slave,   \* the transaction the host slave waits for, or None
  by_master,    \* ... and whether the host master made it (else the CPU)
  nreq,         \* transactions forwarded so far
  lost          \* the device is unplugged

procVars == <<process, sigint, handled, raised, shutdown_flag>>
globVars == <<recv_cb, kill_thread, slave_free, slave_pkt, api_lock, mbuf>>
thrVars == <<mpc, lpc, spc, call>>
devVars == <<slave_en, cpu_run, host_slave, by_master, nreq, lost>>
vars == <<setup, procVars, globVars, thrVars, toDev, toHost, devVars>>

\* slave_en and cpu_run are CSRs of the device.  They start here as a command
\* that ran to its end leaves them; one that was killed leaves them as they were
\* at that moment, and nothing clears them when the next one starts.
Init == /\ setup \in Setups
        /\ process = "running" /\ sigint = FALSE /\ handled = FALSE
        /\ raised = 0 /\ shutdown_flag = FALSE
        /\ recv_cb = FALSE /\ kill_thread = FALSE
        /\ slave_free = FALSE /\ slave_pkt = None
        /\ api_lock = "nobody" /\ mbuf = <<>>
        /\ mpc = 1 /\ lpc = "read" /\ spc = "wait"
        /\ call = [t \in Callers |-> "none"]
        /\ toDev = <<>> /\ toHost = <<>>
        /\ slave_en = FALSE /\ cpu_run = FALSE
        /\ host_slave = None /\ by_master = FALSE /\ nreq = 0
        /\ lost = FALSE

\* The process exists: no signal has killed it and main has not returned.
Running == process = "running" /\ mpc <= Len(Program)

At(step) == Running /\ Program[mpc] = step
CallAt(t, place) == Running /\ call[t] = place
ListenAt(place) == Running /\ lpc = place
SlaveAt(place) == Running /\ spc = place
AtDevice(endpoint) == Running /\ toDev # <<>> /\ Head(toDev).to = endpoint
Past(step) == \E k \in 1..(mpc - 1) : Program[k] = step

\* What the access that t makes does on the device.
Operation(t) == IF t = "slave" THEN "nested"
                ELSE IF Program[mpc] \in {"load", "verify"} THEN setup.load
                ELSE Program[mpc]

ToMaster(t) == [to |-> "master", by |-> t, op |-> Operation(t)]
SlaveReplyTo(r) == [to |-> "slave", id |-> r]
Response(t) == [to |-> "mbuf", by |-> t]
Transaction(r) == [to |-> "slave", id |-> r]

\* slip: a failed write is taken for a full transport, and given up.
SendOrStop(packet) ==
  /\ toDev' = IF lost THEN toDev ELSE Append(toDev, packet)
  /\ UNCHANGED process

\* flexsoc_send: if the device is gone, Write fails and err ends the process.
Send(packet) == IF lost THEN process' = "exited" /\ UNCHANGED toDev
                        ELSE toDev' = Append(toDev, packet) /\ UNCHANGED process

otherProcVars == <<sigint, handled, raised, shutdown_flag>>

-----------------------------------------------------------------------------
(* flexsoc_read and flexsoc_write, one element long.                       *)

\* slip: api_lock is not waited for.
ApiLockIgnored(t) == /\ CallAt(t, "lock")
                     /\ api_lock' = t
                     /\ call' = [call EXCEPT ![t] = "send"]
                     /\ UNCHANGED <<setup, procVars, recv_cb, kill_thread,
                                    slave_free, slave_pkt, mbuf, mpc, lpc, spc,
                                    toDev, toHost, devVars>>

ApiLock(t) == /\ CallAt(t, "lock")
              /\ api_lock = "nobody"
              /\ api_lock' = t
              /\ call' = [call EXCEPT ![t] = "send"]
              /\ UNCHANGED <<setup, procVars, recv_cb, kill_thread, slave_free,
                             slave_pkt, mbuf, mpc, lpc, spc, toDev, toHost,
                             devVars>>

ApiSend(t) == /\ CallAt(t, "send")
              /\ Send(ToMaster(t))
              /\ call' = [call EXCEPT ![t] = "recv"]
              /\ UNCHANGED <<setup, otherProcVars, globVars, mpc, lpc, spc,
                             toHost, devVars>>

\* slip: an early return leaves api_lock locked.
ApiRecvKeepsLock(t) ==
  /\ CallAt(t, "recv") /\ mbuf # <<>>
  /\ mbuf' = Tail(mbuf)
  /\ call' = [call EXCEPT ![t] = "none"]
  /\ IF t = "main" THEN mpc' = mpc + 1 /\ UNCHANGED spc
                   ELSE spc' = "reply" /\ UNCHANGED mpc
  /\ UNCHANGED <<setup, procVars, recv_cb, kill_thread, slave_free, slave_pkt,
                 api_lock, lpc, toDev, toHost, devVars>>

\* flexsoc_recv blocks while mbuf is empty; then the caller unlocks and returns.
ApiRecv(t) == /\ CallAt(t, "recv")
              /\ mbuf # <<>>
              /\ mbuf' = Tail(mbuf)
              /\ api_lock' = "nobody"
              /\ call' = [call EXCEPT ![t] = "none"]
              /\ IF t = "main" THEN mpc' = mpc + 1 /\ UNCHANGED spc
                               ELSE spc' = "reply" /\ UNCHANGED mpc
              /\ UNCHANGED <<setup, procVars, recv_cb, kill_thread, slave_free,
                             slave_pkt, lpc, toDev, toHost, devVars>>

-----------------------------------------------------------------------------
(* The main thread.                                                        *)

MainAccess == /\ \E step \in AccessSteps : At(step)
              /\ call["main"] = "none"
              /\ call' = [call EXCEPT !["main"] = "lock"]
              /\ UNCHANGED <<setup, procVars, globVars, mpc, lpc, spc, toDev,
                             toHost, devVars>>

NextStep == mpc' = mpc + 1 /\ UNCHANGED <<setup, lpc, spc, call, toDev, toHost,
                                          devVars>>

MainRegister == /\ At("register") /\ recv_cb' = TRUE
                /\ NextStep
                /\ UNCHANGED <<procVars, kill_thread, slave_free, slave_pkt,
                               api_lock, mbuf>>

MainUnregister == /\ At("unregister") /\ recv_cb' = FALSE
                  /\ NextStep
                  /\ UNCHANGED <<procVars, kill_thread, slave_free, slave_pkt,
                                 api_lock, mbuf>>

MainSignal == /\ At("signal") /\ handled' = TRUE
              /\ NextStep
              /\ UNCHANGED <<process, sigint, raised, shutdown_flag, globVars>>

MainSpin == /\ At("spin") /\ shutdown_flag
            /\ NextStep
            /\ UNCHANGED <<procVars, globVars>>

\* sysmap_cleanup deletes the PluginTarget that the plugins call (Past).
MainFreePlugins == /\ At("free_plugins")
                   /\ NextStep
                   /\ UNCHANGED <<procVars, globVars>>

MainKill == /\ At("kill") /\ kill_thread' = TRUE
            /\ NextStep
            /\ UNCHANGED <<procVars, recv_cb, slave_free, slave_pkt, api_lock,
                           mbuf>>

MainJoin == /\ \/ At("join_listen") /\ lpc = "done"
               \/ At("join_slave") /\ spc = "done"
            /\ NextStep
            /\ UNCHANGED <<procVars, globVars>>

MainClose == /\ At("close")
             /\ NextStep
             /\ UNCHANGED <<procVars, globVars>>

-----------------------------------------------------------------------------
(* SIGINT.                                                                 *)

\* ^C, at any moment from plugin_init to the return of main; at most once, and
\* as the first SIGINT: later ones are plugins'.
UserInterrupt == /\ Running /\ raised = 0
                 /\ sigint' = TRUE /\ raised' = 1
                 /\ UNCHANGED <<setup, process, handled, shutdown_flag,
                                globVars, thrVars, toDev, toHost, devVars>>

\* The handler restores the default disposition before it sets the flag.
Deliver == /\ Running /\ sigint
           /\ sigint' = FALSE
           /\ IF handled
                THEN handled' = FALSE /\ shutdown_flag' = TRUE
                     /\ UNCHANGED process
                ELSE process' = "killed" /\ UNCHANGED <<handled, shutdown_flag>>
           /\ UNCHANGED <<setup, raised, globVars, thrVars, toDev, toHost,
                          devVars>>

-----------------------------------------------------------------------------
(* The listen thread.                                                      *)

ListenMaster == /\ ListenAt("read") /\ ~kill_thread
                /\ toHost # <<>> /\ Head(toHost).to = "mbuf"
                /\ mbuf' = Append(mbuf, Head(toHost).by)
                /\ toHost' = Tail(toHost)
                /\ UNCHANGED <<setup, procVars, recv_cb, kill_thread,
                               slave_free, slave_pkt, api_lock, thrVars, toDev,
                               devVars>>

\* The copy to slave_pkt, outside any lock ...
ListenSlave == /\ ListenAt("read") /\ ~kill_thread
               /\ toHost # <<>> /\ Head(toHost).to = "slave"
               /\ slave_pkt' = Head(toHost).id
               /\ toHost' = Tail(toHost)
               /\ lpc' = "unlock"
               /\ UNCHANGED <<setup, procVars, recv_cb, kill_thread,
                              slave_free, api_lock, mbuf, mpc, spc, call,
                              toDev, devVars>>

\* slip: the transaction is copied but nobody is told.
ListenUnlockForgotten == /\ ListenAt("unlock")
                         /\ lpc' = "read"
                         /\ UNCHANGED <<setup, procVars, globVars, mpc, spc,
                                        call, toDev, toHost, devVars>>

\* ... and the unlock that hands it to the slave thread.
ListenUnlock == /\ ListenAt("unlock")
                /\ slave_free' = TRUE
                /\ lpc' = "read"
                /\ UNCHANGED <<setup, procVars, recv_cb, kill_thread, slave_pkt,
                               api_lock, mbuf, mpc, spc, call, toDev, toHost,
                               devVars>>

\* slip: the listen thread ends without unblocking the slave thread.
ListenStopSilently == /\ ListenAt("read") /\ (kill_thread \/ lost)
                      /\ lpc' = "done"
                      /\ UNCHANGED <<setup, procVars, globVars, mpc, spc, call,
                                     toDev, toHost, devVars>>

\* kill_thread and DEVICE_NOTAVAIL are looked for after every Read of a header,
\* whether it read a byte or not.
ListenStop == /\ ListenAt("read") /\ (kill_thread \/ lost)
              /\ slave_free' = TRUE
              /\ lpc' = "done"
              /\ UNCHANGED <<setup, procVars, recv_cb, kill_thread, slave_pkt,
                             api_lock, mbuf, mpc, spc, call, toDev, toHost,
                             devVars>>

-----------------------------------------------------------------------------
(* The slave thread.                                                       *)

Goto(place) == spc' = place /\ UNCHANGED <<setup, mpc, lpc, call, toHost,
                                           devVars>>

\* slip: the slave thread looks at the mutex but does not take it.
SlaveWakeWithoutLocking == /\ SlaveAt("wait") /\ slave_free
                           /\ Goto("woken")
                           /\ UNCHANGED <<procVars, globVars, toDev>>

\* pthread_mutex_lock (&slave_lock): the mutex is a semaphore, the listen
\* thread unlocks it.
SlaveWake == /\ SlaveAt("wait") /\ slave_free
             /\ slave_free' = FALSE
             /\ Goto("woken")
             /\ UNCHANGED <<procVars, recv_cb, kill_thread, slave_pkt, api_lock,
                            mbuf, toDev>>

SlaveKillCheck == /\ SlaveAt("woken")
                  /\ Goto(IF kill_thread THEN "done" ELSE "check")
                  /\ UNCHANGED <<procVars, globVars, toDev>>

\* if (recv_cb): without a callback the transaction is dropped unanswered.
SlaveCheck == /\ SlaveAt("check")
              /\ Goto(IF recv_cb THEN "call" ELSE "wait")
              /\ UNCHANGED <<procVars, globVars, toDev>>

\* recv_cb is read again for the call.
SlaveCall == /\ SlaveAt("call")
             /\ IF recv_cb
                  THEN Goto("handler") /\ UNCHANGED process
                  ELSE Goto("call") /\ process' = "crashed"
             /\ UNCHANGED <<sigint, handled, raised, shutdown_flag, globVars,
                            toDev>>

\* Is the transaction a write or a read?  The CPU's may be either, and so may
\* an old one that is still in slave_pkt when the device is lost.
MayWrite == by_master => At("load") \/ lost
MayRead == by_master => At("verify") \/ lost

\* The plugin's method, up to the access a nested one makes.  A plugin that
\* uses its PluginTarget after main deleted it may do what it would have done,
\* or crash.
Handle ==
  \/ /\ setup.handler = "plain"
     /\ Goto("reply")
     /\ UNCHANGED procVars
  \/ /\ setup.handler = "nested"
     /\ spc' = "access"
     /\ call' = [call EXCEPT !["slave"] = "lock"]
     /\ UNCHANGED <<setup, mpc, lpc, toHost, devVars, procVars>>
  \/ /\ setup.handler = "exit" /\ MayWrite
     /\ Goto("reply")
     /\ sigint' = TRUE /\ raised' = raised + 1
     /\ UNCHANGED <<process, handled, shutdown_flag>>
  \/ /\ setup.handler = "exit" /\ MayRead
     /\ Goto("reply")
     /\ UNCHANGED procVars

HandlerCrash == /\ setup.handler # "plain" /\ Past("free_plugins")
                /\ Goto("handler") /\ process' = "crashed"
                /\ UNCHANGED <<sigint, handled, raised, shutdown_flag>>

\* The device is lost before any transaction came: slave_sz is 0, and err ends
\* the process.
InvalidLen == /\ Goto("handler") /\ process' = "exited"
              /\ UNCHANGED otherProcVars

SlaveHandler == /\ SlaveAt("handler")
                /\ IF slave_pkt = None THEN InvalidLen
                                       ELSE Handle \/ HandlerCrash
                /\ UNCHANGED <<globVars, toDev>>

\* target->SlaveSend at the end of plugin_handler.
SlaveReply == /\ SlaveAt("reply")
              /\ Send(SlaveReplyTo(slave_pkt))
              /\ Goto("wait")
              /\ UNCHANGED <<otherProcVars, globVars>>

-----------------------------------------------------------------------------
(* The device.                                                             *)

\* The host master performs a CSR or a memory access and responds.
DeviceAccess ==
  /\ AtDevice("master") /\ Head(toDev).op # "plugin"
  /\ LET op == Head(toDev).op
     IN /\ slave_en' = CASE op = "slave_on" -> TRUE
                         [] op = "slave_off" -> FALSE
                         [] OTHER -> slave_en
        /\ cpu_run' = CASE op = "cpu_on" -> TRUE
                        [] op = "cpu_off" -> FALSE
                        [] OTHER -> cpu_run
  /\ toHost' = Append(toHost, Response(Head(toDev).by))
  /\ toDev' = Tail(toDev)
  /\ UNCHANGED <<setup, procVars, globVars, thrVars, host_slave, by_master,
                 nreq, lost>>

Forward(master) ==
  /\ host_slave = None /\ slave_en /\ nreq < MaxRequest /\ ~lost
  /\ nreq' = nreq + 1
  /\ host_slave' = nreq + 1
  /\ by_master' = master
  /\ toHost' = Append(toHost, Transaction(nreq + 1))
  /\ UNCHANGED <<setup, procVars, globVars, thrVars, slave_en, cpu_run, lost>>

\* The host master's access hits a plugin's region: the bus forwards it, and
\* the host master waits for the bus.
DeviceForward == /\ AtDevice("master") /\ Head(toDev).op = "plugin"
                 /\ Forward(TRUE)
                 /\ toDev' = Tail(toDev)

CpuAccess == Running /\ cpu_run /\ Forward(FALSE) /\ UNCHANGED toDev

\* The host's reply ends the bus transaction; the host master then responds.
DeviceReply ==
  /\ AtDevice("slave")
  /\ toDev' = Tail(toDev)
  /\ host_slave' = None
  /\ toHost' = IF by_master THEN Append(toHost, Response("main")) ELSE toHost
  /\ UNCHANGED <<setup, procVars, globVars, thrVars, slave_en, cpu_run,
                 by_master, nreq, lost>>

\* The device is unplugged: what was on its way is lost.
DeviceLost == /\ Running /\ setup.lossy /\ ~lost
              /\ lost' = TRUE
              /\ toDev' = <<>> /\ toHost' = <<>>
              /\ UNCHANGED <<setup, procVars, globVars, thrVars, slave_en,
                             cpu_run, host_slave, by_master, nreq>>

-----------------------------------------------------------------------------
Api(t) == ApiLock(t) \/ ApiSend(t) \/ ApiRecv(t)

Main == \/ MainAccess \/ MainRegister \/ MainUnregister \/ MainSignal
        \/ MainSpin \/ MainFreePlugins \/ MainKill \/ MainJoin \/ MainClose
Listen == ListenMaster \/ ListenSlave \/ ListenUnlock \/ ListenStop
Slave == \/ SlaveWake \/ SlaveKillCheck \/ SlaveCheck \/ SlaveCall
         \/ SlaveHandler \/ SlaveReply
Device == DeviceAccess \/ DeviceForward \/ DeviceReply

Next == \/ Main \/ (\E t \in Callers : Api(t))
        \/ UserInterrupt \/ Deliver
        \/ Listen \/ Slave
        \/ Device \/ CpuAccess \/ DeviceLost

Spec == Init /\ [][Next]_vars

\* Every thread is scheduled and every message travels; a mutex is not granted
\* in any particular order.  Neither ^C nor a CPU access nor a loss has to happen.
Fairness == /\ WF_vars(Main \/ Api("main"))
            /\ WF_vars(Slave \/ Api("slave"))
            /\ WF_vars(Listen)
            /\ WF_vars(Deliver)
            /\ WF_vars(Device)

FairSpec == Spec /\ Fairness

-----------------------------------------------------------------------------
Stopped == ~Running

TypeOK ==
  /\ setup \in Setups
  /\ process \in {"running", "killed", "crashed", "exited"}
  /\ {sigint, handled, shutdown_flag, recv_cb, kill_thread, slave_free,
      slave_en, cpu_run, by_master, lost} \subseteq BOOLEAN
  /\ raised \in 0..(MaxRequest + 2)
  /\ slave_pkt \in Requests \cup {None}
  /\ host_slave \in Requests \cup {None}
  /\ nreq \in Requests \cup {0}
  /\ api_lock \in Callers \cup {"nobody"}
  /\ mbuf \in Seq(Callers)
  /\ mpc \in PC
  /\ lpc \in {"read", "unlock", "done"}
  /\ spc \in {"wait", "woken", "check", "call", "handler", "access", "reply",
              "done"}
  /\ call \in [Callers -> {"none", "lock", "send", "recv"}]
  /\ toDev \in Seq([to : {"master"}, by : Callers,
                    op : AccessSteps \cup Loads \cup {"nested"}]
                   \cup [to : {"slave"}, id : Requests])
  /\ toHost \in Seq([to : {"mbuf"}, by : Callers]
                    \cup [to : {"slave"}, id : Requests])

Count(seq, to) == Cardinality({k \in 1..Len(seq) : seq[k].to = to})
One(b) == IF b THEN 1 ELSE 0

\* In how many places the forwarded transaction is: on the link to the host, in
\* the hands of the listen thread, behind slave_lock, in the slave thread, or
\* answered on the link to the device.
Places == Count(toHost, "slave") + One(lpc = "unlock") + One(slave_free)
          + One(spc \notin {"wait", "done"}) + Count(toDev, "slave")

\* A forwarded transaction is never lost, doubled, or overwritten in slave_pkt
\* by the next one: slave_lock, used as a semaphore, and the one unprotected
\* buffer are enough (flexsoc.cpp:128, 187-191) until the command ends or the
\* device is lost.
RequestConserved ==
  ~kill_thread /\ ~lost =>
    /\ Places <= One(host_slave # None)
    /\ host_slave # None /\ ~Past("unregister") => Places = 1

\* The plugin runs only on the transaction the bus waits for (flexsoc.cpp:136),
\* during shutdown too.  (When the device is lost it runs once more on an old
\* one: LossEnds.)
HandlerServesPending ==
  spc \in {"handler", "access", "reply"} /\ ~lost => slave_pkt = host_slave

\* A response reaches the caller whose request it answers: responses carry no
\* name, so api_lock has to keep main's and the plugins' accesses apart from
\* the request to the end of flexsoc_recv.
ResponseToOwner ==
  LET waiting == {t \in Callers : call[t] = "recv"}
  IN ~lost => /\ \A k \in 1..Len(mbuf) : mbuf[k] \in waiting
              /\ \A k \in 1..Len(toHost) :
                    toHost[k].to = "mbuf" => toHost[k].by \in waiting
              /\ \A t \in waiting :
                    Len(mbuf) + Count(toHost, "mbuf") + Count(toDev, "master")
                      + One(host_slave # None /\ by_master) = 1

\* A single SIGINT, whoever raises it, kills the command only before its handler
\* is installed (flexsoc_cm3.cpp:189): ^C during the start, or a plugin that
\* calls Exit when main's own load reaches it.  The CPU is then still in reset,
\* so that it is not left running on a bus that nobody serves; from there on the
\* first SIGINT leads to cleanup (flexsoc_cm3.cpp:27-30, 194).
FirstInterruptGraceful ==
  process = "killed" /\ raised = 1 => ~Past("signal") /\ ~cpu_run

\* The slave thread may call through the recv_cb that main has cleared since it
\* looked (flexsoc.cpp:135), or a plugin use the PluginTarget that main has
\* deleted (sysmap_parse.cpp:293) -- but only at the very end: with the CPU back
\* in reset and the callback unregistered, for a transaction already under way.
CrashOnlyInCleanup == process = "crashed" => Past("unregister") /\ ~cpu_run

\* While the CPU runs, the bus is not stalled for ever.
CpuRequestAnswered ==
  (host_slave # None /\ cpu_run)
    ~> (host_slave = None \/ ~cpu_run \/ lost \/ Stopped)

\* Every flexsoc_read and flexsoc_write of main returns, with a device that
\* stays.
AccessCompletes ==
  (call["main"] # "none") ~> (call["main"] = "none" \/ lost \/ Stopped)

\* After a shutdown request the command ends: it gets through plugin_cleanup
\* and both joins of flexsoc_close, unless a plugin makes master accesses.
ShutdownCompletes ==
  (shutdown_flag /\ setup.handler # "nested") ~> (lost \/ Stopped)

\* "Wait for threads", flexsoc.cpp:284: once kill_thread is set, both threads
\* end and flexsoc_close returns -- unless it is set while a plugin is about to
\* make a master access: its response is never received, because the listen
\* thread ends at its next Read.
JoinReturns ==
  /\ kill_thread /\ lpc # "done"
  /\ setup.handler = "nested" => spc \notin {"handler", "access"}
  ~> Stopped

\* Main has something to send yet, or waits for a response.
MainNeedsDevice ==
  \/ call["main"] = "recv" /\ mbuf = <<>>
  \/ \E k \in mpc..Len(Program) :
       /\ Program[k] \in AccessSteps
       /\ k = mpc => call["main"] # "recv"

\* When the device is lost the process ends by itself, even if main waits for a
\* response or for ^C: the listen thread lets the slave thread go without a
\* transaction (flexsoc.cpp:152-155), and sending the answer to the old one, or
\* its length, ends in err.  A plugin that makes master accesses may wait for
\* api_lock instead; and a loss after main's last access leaves main waiting
\* for the slave thread, which has used up the unlock.
LossEnds ==
  (lost /\ setup.handler # "nested" /\ Running /\ MainNeedsDevice) ~> Stopped
=============================================================================
