--------------------------- MODULE FlexsocProofs ---------------------------
(***************************************************************************)
(* The safety properties of Flexsoc, for every set of setups and every     *)
(* number of transactions.                                                 *)
(*                                                                         *)
(* The argument is a count: a transaction that the bus waits for is in one *)
(* place at most (Conserved), and so is the response of the one caller     *)
(* that is in flexsoc_recv (Outstanding).  So what a thread finds in a     *)
(* shared buffer is what it waits for (Carried, Owned).  The rest says     *)
(* how far main must have come for the device to be in the state it is in  *)
(* (Progress), and how many SIGINTs there can have been (Interrupts).      *)
(*                                                                         *)
(* Every action has a lemma.  Its first step is what the action does, as   *)
(* equations; the next ones say what that makes of the links and of the    *)
(* places; then one step for every conjunct that is disturbed.             *)
(***************************************************************************)
EXTENDS Flexsoc, FiniteSetTheorems, FunctionTheorems, SequenceTheorems, TLAPS

Accessing == {k \in 1..Len(Program) : Program[k] \in AccessSteps}

\* Where a caller is in an access: main at a step that makes one, the slave
\* thread in a plugin that makes one, and api_lock with whoever is past "lock".
Calls ==
  /\ call["main"] # "none" => mpc \in Accessing
  /\ call["slave"] # "none" <=> spc = "access"
  /\ \A t \in Callers : api_lock = t <=> call[t] \in {"send", "recv"}

\* Responses and requests belong to a caller in flexsoc_recv, and a request is
\* for what that caller is doing: 3 is "load", 4 "verify".
Owned ==
  /\ \A k \in 1..Len(mbuf) : call[mbuf[k]] = "recv"
  /\ \A k \in 1..Len(toHost) :
       toHost[k].to = "mbuf" => call[toHost[k].by] = "recv"
  /\ \A k \in 1..Len(toDev) :
       toDev[k].to = "master" => /\ call[toDev[k].by] = "recv"
                                 /\ toDev[k].op = Operation(toDev[k].by)
  /\ host_slave # None /\ by_master => call["main"] = "recv" /\ mpc \in {3, 4}

\* The places a request or its response can be in, counted.
Out == Len(mbuf) + Count(toHost, "mbuf") + Count(toDev, "master")
       + One(host_slave # None /\ by_master)
Waiting == \E t \in Callers : call[t] = "recv"

Outstanding == /\ Out <= One(Waiting)
               /\ ~lost => Out = One(Waiting)

\* The slave thread has a transaction; an unlock after kill_thread brings none.
Serving == {"check", "call", "handler", "access", "reply"}
Brought == slave_free /\ ~kill_thread
Taken == spc \in Serving \/ (spc = "woken" /\ ~kill_thread)

Held == Count(toHost, "slave") + One(lpc = "unlock") + One(Brought)
        + One(Taken) + Count(toDev, "slave")

\* Up to flexsoc_unregister a transaction is in one place; later it may be
\* dropped, but it is never in two.
Conserved ==
  ~lost => /\ Held <= One(host_slave # None)
           /\ host_slave # None /\ mpc <= 13 => Held = 1

\* Wherever the host has a transaction, it is the one the bus waits for.
Carried ==
  ~lost => /\ \A k \in 1..Len(toHost) :
                toHost[k].to = "slave" => toHost[k].id = host_slave
           /\ lpc = "unlock" \/ Brought \/ Taken => slave_pkt = host_slave

\* Main's response for the step it is at has been sent.
Answered == \/ \E k \in 1..Len(mbuf) : mbuf[k] = "main"
            \/ \E k \in 1..Len(toHost) : /\ toHost[k].to = "mbuf"
                                         /\ toHost[k].by = "main"

\* How far main has come: 1 is "register", 5 "signal", 8 "cpu_off", 13
\* "unregister", 15 "kill".
Progress ==
  /\ recv_cb <=> mpc \in 2..13
  /\ kill_thread <=> mpc > 15
  /\ slave_en \/ nreq > 0 => mpc >= 2
  /\ nreq = 0 => /\ slave_pkt = None /\ host_slave = None
                 /\ Count(toHost, "slave") = 0
  /\ spc \in Serving \ {"check"} => mpc >= 2
  /\ spc \in {"access", "reply"} => slave_pkt # None
  /\ cpu_run => mpc \in 6..8
  /\ mpc = 8 /\ Answered => ~cpu_run

\* The bus waits, and the plugin's method was not called yet.
Unhandled == /\ host_slave # None /\ spc \notin {"access", "reply"}
             /\ Count(toDev, "slave") = 0

\* A transaction raises one SIGINT at most, the user one, and the run of a
\* plugin on an old transaction, after a loss, one.
Interrupts ==
  /\ raised = 0 => ~sigint
  /\ raised = 0 /\ mpc > 5 => handled
  /\ raised = 1 /\ sigint /\ mpc > 5 => handled
  /\ raised <= nreq + 1 + One(lost /\ (spc = "reply" \/ process # "running"))
  /\ ~lost /\ Unhandled => raised <= nreq

IInv == /\ TypeOK /\ Calls /\ Owned /\ Outstanding /\ Conserved /\ Carried
        /\ Progress /\ Interrupts
        /\ FirstInterruptGraceful /\ CrashOnlyInCleanup

-----------------------------------------------------------------------------
(* Counting the packets on a link.                                         *)

Matching(seq, to) == {k \in 1..Len(seq) : seq[k].to = to}

\* Counts are natural numbers.
LEMMA CountType ==
  ASSUME NEW S, NEW seq \in Seq(S), NEW to
  PROVE  IsFiniteSet(Matching(seq, to)) /\ Count(seq, to) \in Nat
<1>1. IsFiniteSet(1..Len(seq)) /\ Matching(seq, to) \in SUBSET (1..Len(seq))
  BY FS_Interval DEF Matching
<1>2. IsFiniteSet(Matching(seq, to))
  BY <1>1, FS_Subset
<1>3. Count(seq, to) = Cardinality(Matching(seq, to))
  BY DEF Count, Matching
<1> QED BY <1>2, <1>3, FS_CardinalityType

\* A packet that was appended is counted once more ...
LEMMA CountAppend ==
  ASSUME NEW S, NEW seq \in Seq(S), NEW e \in S, NEW to
  PROVE  Count(Append(seq, e), to) = Count(seq, to) + One(e.to = to)
<1> DEFINE M == Matching(seq, to)
           N == Matching(Append(seq, e), to)
<1>1. IsFiniteSet(M) /\ Cardinality(M) \in Nat
  BY CountType, FS_CardinalityType
<1>2. /\ Count(seq, to) = Cardinality(M)
      /\ Count(Append(seq, e), to) = Cardinality(N)
  BY DEF Count, Matching
<1> HIDE DEF M, N
<1>3. Len(seq) + 1 \notin M
  BY DEF M, Matching
<1>4. CASE e.to = to
  <2>1. N = M \cup {Len(seq) + 1}
    BY <1>4 DEF M, N, Matching
  <2>2. Cardinality(N) = Cardinality(M) + 1
    BY <2>1, <1>1, <1>3, FS_AddElement
  <2> QED BY <2>2, <1>2, <1>4 DEF One
<1>5. CASE e.to # to
  <2>1. N = M
    BY <1>5 DEF M, N, Matching
  <2> QED BY <2>1, <1>1, <1>2, <1>5 DEF One
<1> QED BY <1>4, <1>5

\* ... and one that was taken, once less.
LEMMA CountTail ==
  ASSUME NEW S, NEW seq \in Seq(S), seq # <<>>, NEW to
  PROVE  /\ Count(seq, to) = Count(Tail(seq), to) + One(Head(seq).to = to)
         /\ Count(Tail(seq), to) \in Nat
<1> DEFINE T == Matching(Tail(seq), to)
           M == Matching(seq, to)
           f == [k \in T |-> k + 1]
<1>1. /\ Tail(seq) \in Seq(S) /\ Len(Tail(seq)) = Len(seq) - 1
      /\ Head(seq) = seq[1] /\ Len(seq) \in Nat \ {0}
      /\ \A k \in 1..Len(Tail(seq)) : Tail(seq)[k] = seq[k + 1]
  BY HeadTailProperties, EmptySeq
<1>2. IsFiniteSet(T) /\ IsFiniteSet(M) /\ Cardinality(T) \in Nat
  BY <1>1, CountType, FS_CardinalityType
<1>3. /\ \A k \in T : k \in Nat /\ k + 1 \in M \ {1}
      /\ \A k \in M \ {1} : k \in Int /\ k - 1 \in T
  BY <1>1 DEF Matching
<1>4. f \in Bijection(T, M \ {1})
  <2>1. f \in [T -> M \ {1}]
    BY <1>3
  <2>2. \A a, b \in T : f[a] = f[b] => a = b
    BY <1>3
  <2>3. \A k \in M \ {1} : \E a \in T : f[a] = k
    BY <1>3
  <2> QED BY <2>1, <2>2, <2>3, Fun_IsBij
<1>5. Cardinality(M \ {1}) = Cardinality(T)
  BY <1>4, <1>2, FS_Bijection DEF ExistsBijection
<1>6. 1 \in M <=> Head(seq).to = to
  BY <1>1 DEF Matching
<1>7. Cardinality(M \ {1}) = IF 1 \in M THEN Cardinality(M) - 1
                                        ELSE Cardinality(M)
  BY <1>2, FS_RemoveElement
<1>8. Cardinality(M) \in Nat
  BY <1>2, FS_CardinalityType
<1>9. Count(seq, to) = Cardinality(M) /\ Count(Tail(seq), to) = Cardinality(T)
  BY DEF Count, Matching
<1> HIDE DEF T, M
<1> QED BY <1>5, <1>6, <1>7, <1>8, <1>9, <1>2 DEF One

\* Nothing is counted on an empty link.
LEMMA CountEmpty == \A to : Count(<<>>, to) = 0
<1> SUFFICES ASSUME NEW to PROVE Count(<<>>, to) = 0
  OBVIOUS
<1>1. Matching(<<>>, to) = {}
  BY DEF Matching
<1> QED BY <1>1, FS_EmptySet DEF Count, Matching

\* What is counted zero times is not there.
LEMMA CountZero ==
  ASSUME NEW S, NEW seq \in Seq(S), NEW to, Count(seq, to) = 0
  PROVE  \A k \in 1..Len(seq) : seq[k].to # to
<1>1. Matching(seq, to) = {}
  <2>1. IsFiniteSet(Matching(seq, to))
    BY CountType
  <2>2. Cardinality(Matching(seq, to)) = 0
    BY DEF Count, Matching
  <2> QED BY <2>1, <2>2, FS_EmptySet
<1> QED BY <1>1 DEF Matching

\* What is left on a link when its first packet is taken ...
LEMMA TakeFrom ==
  ASSUME NEW S, NEW seq \in Seq(S), seq # <<>>
  PROVE  /\ Head(seq) \in S /\ Head(seq) = seq[1] /\ 1 \in 1..Len(seq)
         /\ Tail(seq) \in Seq(S)
         /\ \A k \in 1..Len(Tail(seq)) : /\ k + 1 \in 1..Len(seq)
                                         /\ Tail(seq)[k] = seq[k + 1]
         /\ Len(Tail(seq)) = Len(seq) - 1
         /\ \A to : /\ Count(seq, to) = Count(Tail(seq), to)
                                          + One(Head(seq).to = to)
                    /\ Count(Tail(seq), to) \in Nat
<1>1. Len(seq) \in Nat \ {0}
  BY EmptySeq
<1> QED BY <1>1, HeadTailProperties, CountTail

\* ... and what is on it when one was sent.
LEMMA PutOn ==
  ASSUME NEW S, NEW seq \in Seq(S), NEW e \in S
  PROVE  /\ Append(seq, e) \in Seq(S)
         /\ Len(Append(seq, e)) = Len(seq) + 1
         /\ \A k \in 1..Len(Append(seq, e)) :
              \/ k \in 1..Len(seq) /\ Append(seq, e)[k] = seq[k]
              \/ k = Len(seq) + 1 /\ Append(seq, e)[k] = e
         /\ \A to : /\ Count(Append(seq, e), to) = Count(seq, to)
                                                   + One(e.to = to)
                    /\ Count(seq, to) \in Nat
<1>1. Len(seq) \in Nat
  OBVIOUS
<1> QED BY <1>1, AppendProperties, CountAppend, CountType

-----------------------------------------------------------------------------
(* What TypeOK says, in the form the provers use it.                       *)

\* The packets on the two directions of the link.
ToDevPackets == [to : {"master"}, by : Callers,
                 op : AccessSteps \cup Loads \cup {"nested"}]
                \cup [to : {"slave"}, id : Requests]
ToHostPackets == [to : {"mbuf"}, by : Callers]
                 \cup [to : {"slave"}, id : Requests]

\* Both directions are sequences of their packets.
LEMMA PacketTypes ==
  TypeOK => toDev \in Seq(ToDevPackets) /\ toHost \in Seq(ToHostPackets)
BY DEF TypeOK, ToDevPackets, ToHostPackets

\* The counters, and the counts, are natural numbers.
LEMMA Numbers ==
  TypeOK => /\ raised \in Nat /\ nreq \in Nat /\ Len(mbuf) \in Nat
            /\ MaxRequest \in Nat
            /\ \A to : Count(toDev, to) \in Nat /\ Count(toHost, to) \in Nat
BY CountType, MaxRequestAssumption DEF TypeOK, Requests

\* The callers that responses and requests name are callers.
LEMMA NamedCallers ==
  TypeOK => /\ \A k \in 1..Len(mbuf) : mbuf[k] \in Callers
            /\ \A k \in 1..Len(toHost) :
                 toHost[k].to = "mbuf" => toHost[k].by \in Callers
            /\ \A k \in 1..Len(toDev) :
                 toDev[k].to = "master" => toDev[k].by \in Callers
BY DEF TypeOK

\* The flags are Booleans.
LEMMA Flags ==
  TypeOK => /\ sigint \in BOOLEAN /\ handled \in BOOLEAN
            /\ shutdown_flag \in BOOLEAN /\ recv_cb \in BOOLEAN
            /\ kill_thread \in BOOLEAN /\ slave_free \in BOOLEAN
            /\ slave_en \in BOOLEAN /\ cpu_run \in BOOLEAN
            /\ by_master \in BOOLEAN /\ lost \in BOOLEAN
BY DEF TypeOK

-----------------------------------------------------------------------------
(* Main's program.                                                         *)

\* Where each step of Program is.
LEMMA Steps ==
  /\ Len(Program) = 18
  /\ Program[1] = "register" /\ Program[2] = "slave_on" /\ Program[3] = "load"
  /\ Program[4] = "verify" /\ Program[5] = "signal" /\ Program[6] = "cpu_on"
  /\ Program[7] = "spin" /\ Program[8] = "cpu_off" /\ Program[9] = "ahb_off"
  /\ Program[10] = "brg_off" /\ Program[11] = "slave_off"
  /\ Program[12] = "slave_off" /\ Program[13] = "unregister"
  /\ Program[14] = "free_plugins" /\ Program[15] = "kill"
  /\ Program[16] = "join_listen" /\ Program[17] = "join_slave"
  /\ Program[18] = "close"
BY DEF Program

Located(k) ==
  /\ Program[k] = "register" <=> k = 1
  /\ Program[k] = "slave_on" <=> k = 2
  /\ Program[k] = "load" <=> k = 3
  /\ Program[k] = "verify" <=> k = 4
  /\ Program[k] = "signal" <=> k = 5
  /\ Program[k] = "cpu_on" <=> k = 6
  /\ Program[k] = "spin" <=> k = 7
  /\ Program[k] = "cpu_off" <=> k = 8
  /\ Program[k] = "unregister" <=> k = 13
  /\ Program[k] = "free_plugins" <=> k = 14
  /\ Program[k] = "kill" <=> k = 15
  /\ k \in Accessing <=> k \in {2, 3, 4, 6, 8, 9, 10, 11, 12}

\* A step's number, from its name.
LEMMA StepOf == PC = 1..19 /\ \A k \in 1..18 : Located(k)
<1>1. PC = 1..19
  BY Steps DEF PC
<1>2. SUFFICES ASSUME NEW k \in 1..18
                PROVE  Located(k)
  BY <1>1
<1>3. k \in {1, 2, 3, 4, 5, 6, 7, 8, 9, 10, 11, 12, 13, 14, 15, 16, 17, 18}
  OBVIOUS
<1> QED BY <1>3, Steps DEF Located, Accessing, AccessSteps

\* The steps that make an access.
LEMMA Accesses == Accessing = {2, 3, 4, 6, 8, 9, 10, 11, 12}
BY StepOf, Steps DEF Accessing, Located

\* At a step of Program, main's place is where that step is.
LEMMA AtStep ==
  ASSUME TypeOK, NEW step, At(step)
  PROVE  /\ process = "running" /\ mpc \in 1..18 /\ Program[mpc] = step
         /\ Located(mpc)
<1>1. process = "running" /\ mpc \in 1..18 /\ Program[mpc] = step
  BY Steps DEF At, Running, TypeOK, PC
<1> QED BY <1>1, StepOf

-----------------------------------------------------------------------------
(* Main.                                                                   *)

\* What the steps that make no access do.
LEMMA MainEffect ==
  ASSUME TypeOK, Calls,
         Main, ~MainAccess
  PROVE  /\ process = "running" /\ mpc \in {1, 5, 7, 13, 14, 15, 16, 17, 18}
         /\ mpc' = mpc + 1
         /\ call["main"] = "none"
         /\ mpc = 1 => recv_cb' = TRUE
         /\ mpc = 13 => recv_cb' = FALSE
         /\ mpc \notin {1, 13} => recv_cb' = recv_cb
         /\ mpc = 15 => kill_thread' = TRUE
         /\ mpc # 15 => kill_thread' = kill_thread
         /\ mpc = 5 => handled' = TRUE
         /\ mpc # 5 => handled' = handled
         /\ UNCHANGED <<setup, process, sigint, raised, shutdown_flag,
                        slave_free, slave_pkt, api_lock, mbuf, lpc, spc, call,
                        toDev, toHost, devVars>>
<1>1. /\ MainRegister => process = "running" /\ mpc = 1
      /\ MainUnregister => process = "running" /\ mpc = 13
      /\ MainSignal => process = "running" /\ mpc = 5
      /\ MainSpin => process = "running" /\ mpc = 7
      /\ MainFreePlugins => process = "running" /\ mpc = 14
      /\ MainKill => process = "running" /\ mpc = 15
  BY AtStep DEF Located, MainRegister, MainUnregister, MainSignal, MainSpin,
                MainFreePlugins, MainKill
<1>2. MainJoin => process = "running" /\ mpc \in {16, 17}
  BY AtStep, Steps DEF MainJoin
<1>3. MainClose => process = "running" /\ mpc = 18
  BY AtStep, Steps DEF MainClose
<1>4. /\ process = "running" /\ mpc \in {1, 5, 7, 13, 14, 15, 16, 17, 18}
  BY <1>1, <1>2, <1>3 DEF Main
<1>5. call["main"] = "none"
  BY <1>4, Accesses DEF Calls
<1> USE DEF NextStep, procVars, globVars
<1>6. /\ mpc' = mpc + 1
      /\ UNCHANGED <<setup, process, sigint, raised, shutdown_flag,
                        slave_free, slave_pkt, api_lock, mbuf, lpc, spc, call,
                        toDev, toHost, devVars>>
  BY DEF Main, MainRegister, MainUnregister, MainSignal, MainSpin,
                MainFreePlugins, MainKill, MainJoin, MainClose
<1>7. /\ mpc = 1 => recv_cb' = TRUE
      /\ mpc = 13 => recv_cb' = FALSE
      /\ mpc \notin {1, 13} => recv_cb' = recv_cb
  BY <1>1, <1>2, <1>3 DEF Main, MainRegister, MainUnregister, MainSignal,
     MainSpin,
                MainFreePlugins, MainKill, MainJoin, MainClose
<1>8. /\ mpc = 15 => kill_thread' = TRUE
      /\ mpc # 15 => kill_thread' = kill_thread
  BY <1>1, <1>2, <1>3 DEF Main, MainRegister, MainUnregister, MainSignal,
     MainSpin,
                MainFreePlugins, MainKill, MainJoin, MainClose
<1>9. /\ mpc = 5 => handled' = TRUE
      /\ mpc # 5 => handled' = handled
  BY <1>1, <1>2, <1>3 DEF Main, MainRegister, MainUnregister, MainSignal,
     MainSpin,
                MainFreePlugins, MainKill, MainJoin, MainClose
<1> QED BY <1>4, <1>5, <1>6, <1>7, <1>8, <1>9

\* Main starts an access: it waits for api_lock.
LEMMA MainAccessStep ==
  ASSUME IInv, MainAccess
  PROVE  IInv'
<1>1. /\ process = "running" /\ mpc \in Accessing /\ mpc \in 1..18
      /\ call["main"] = "none"
      /\ call' = [call EXCEPT !["main"] = "lock"]
      /\ UNCHANGED <<setup, procVars, globVars, mpc, lpc, spc, toDev, toHost,
                     devVars>>
  BY AtStep, Steps DEF IInv, MainAccess, Accessing
<1>2. call'["main"] = "lock" /\ call'["slave"] = call["slave"]
      /\ call' \in [Callers -> {"none", "lock", "send", "recv"}]
  BY <1>1 DEF IInv, TypeOK, Callers
<1>3. TypeOK'
  BY <1>1, <1>2 DEF IInv, TypeOK, procVars, globVars, devVars
<1>4. \A t \in Callers : call'[t] = "recv" <=> call[t] = "recv"
  BY <1>1, <1>2 DEF Callers
<1>5. Calls'
  BY <1>1, <1>2, Accesses DEF IInv, Calls, Callers, globVars
<1>6. Owned'
  BY NamedCallers, <1>1, <1>4 DEF IInv, Owned, Operation, globVars, devVars,
     Callers
<1>7. Outstanding'
  BY <1>1, <1>4 DEF IInv, Outstanding, Out, Waiting, globVars, devVars
<1>8. Conserved' /\ Carried' /\ Progress' /\ Interrupts'
  BY <1>1 DEF IInv, Conserved, Held, Brought, Taken, Carried, Progress,
     Answered,
              Interrupts, Unhandled, procVars, globVars, devVars
<1>9. FirstInterruptGraceful' /\ CrashOnlyInCleanup'
  BY <1>1 DEF IInv, FirstInterruptGraceful, CrashOnlyInCleanup, Past,
     procVars, devVars
<1> QED BY <1>3, <1>5, <1>6, <1>7, <1>8, <1>9 DEF IInv

\* The other steps are made with no access under way: no response, and nothing
\* on the way, is main's.
LEMMA MainMoves ==
  ASSUME IInv, Main, ~MainAccess
  PROVE  IInv'
<1>1. /\ process = "running" /\ mpc \in {1, 5, 7, 13, 14, 15, 16, 17, 18}
      /\ mpc' = mpc + 1
      /\ call["main"] = "none"
      /\ mpc = 1 => recv_cb' = TRUE
      /\ mpc = 13 => recv_cb' = FALSE
      /\ mpc \notin {1, 13} => recv_cb' = recv_cb
      /\ mpc = 15 => kill_thread' = TRUE
      /\ mpc # 15 => kill_thread' = kill_thread
      /\ mpc = 5 => handled' = TRUE
      /\ mpc # 5 => handled' = handled
      /\ UNCHANGED <<setup, process, sigint, raised, shutdown_flag,
                     slave_free, slave_pkt, api_lock, mbuf, lpc, spc, call,
                     toDev, toHost, devVars>>
  BY MainEffect DEF IInv
<1>2. TypeOK'
  <2>1. /\ recv_cb' \in BOOLEAN /\ kill_thread' \in BOOLEAN
        /\ handled' \in BOOLEAN
    BY <1>1, Flags DEF IInv
  <2>2. mpc' \in PC
    BY <1>1, StepOf
  <2> QED BY <1>1, <2>1, <2>2 DEF IInv, TypeOK, devVars
<1>3. Calls'
  BY <1>1 DEF IInv, Calls
<1>4. Owned'
  <2>1. \A k \in 1..Len(toDev) :
          toDev[k].to = "master" => toDev[k].by = "slave"
    BY <1>1 DEF IInv, TypeOK, Owned, Callers
  <2> QED BY <2>1, <1>1 DEF IInv, Owned, Operation, devVars
<1>5. Outstanding'
  BY <1>1 DEF IInv, Outstanding, Out, Waiting, devVars
<1>6. Conserved'
  <2>1. mpc = 15 => Held' <= Held
    BY <1>1, Numbers, Flags DEF IInv, Held, Brought, Taken, One
  <2>2. mpc # 15 => Held' = Held
    BY <1>1 DEF Held, Brought, Taken
  <2>3. Held \in Nat /\ Held' \in Nat
    BY <1>1, Numbers, SMTT(30) DEF IInv, Held, One
  <2> QED BY <1>1, <2>1, <2>2, <2>3 DEF IInv, Conserved, One, devVars
<1>7. Carried'
  BY <1>1 DEF IInv, Carried, Brought, Taken, devVars
<1>8. Progress'
  <2>1. ~Answered'
    BY <1>1 DEF IInv, Answered, Owned, TypeOK, Callers
  <2>2. (recv_cb <=> mpc \in 2..13)' /\ (kill_thread <=> mpc > 15)'
    BY <1>1 DEF IInv, Progress
  <2> QED BY <1>1, <2>1, <2>2 DEF IInv, Progress, devVars
<1>9. Interrupts'
  BY <1>1 DEF IInv, Interrupts, Unhandled, One, TypeOK, Requests, devVars
<1>10. FirstInterruptGraceful' /\ CrashOnlyInCleanup'
  BY <1>1 DEF IInv, FirstInterruptGraceful, CrashOnlyInCleanup
<1> QED BY <1>2, <1>3, <1>4, <1>5, <1>6, <1>7, <1>8, <1>9, <1>10 DEF IInv

-----------------------------------------------------------------------------
(* flexsoc_read and flexsoc_write.                                         *)

\* A caller takes api_lock: it was nobody's.
LEMMA ApiLockStep ==
  ASSUME IInv, NEW t \in Callers, ApiLock(t)
  PROVE  IInv'
<1>1. /\ process = "running"
      /\ call[t] = "lock" /\ api_lock = "nobody" /\ api_lock' = t
      /\ call' = [call EXCEPT ![t] = "send"]
      /\ UNCHANGED <<setup, procVars, recv_cb, kill_thread, slave_free,
                     slave_pkt, mbuf, mpc, lpc, spc, toDev, toHost, devVars>>
  BY DEF ApiLock, CallAt, Running
<1>2. /\ call'[t] = "send" /\ \A u \in Callers \ {t} : call'[u] = call[u]
      /\ call' \in [Callers -> {"none", "lock", "send", "recv"}]
  BY <1>1 DEF IInv, TypeOK
<1>3. TypeOK'
  BY <1>1, <1>2 DEF IInv, TypeOK, procVars, devVars
<1>4. \A u \in Callers : call'[u] = "recv" <=> call[u] = "recv"
  BY <1>1, <1>2
<1>5. Calls'
  BY <1>1, <1>2 DEF IInv, Calls, Callers
<1>6. Owned'
  BY NamedCallers, <1>1, <1>4 DEF IInv, Owned, Operation, devVars, Callers
<1>7. Outstanding'
  BY <1>1, <1>4 DEF IInv, Outstanding, Out, Waiting, devVars
<1>8. Conserved' /\ Carried' /\ Progress' /\ Interrupts'
  BY <1>1 DEF IInv, Conserved, Held, Brought, Taken, Carried, Progress,
     Answered,
              Interrupts, Unhandled, procVars, devVars
<1>9. FirstInterruptGraceful' /\ CrashOnlyInCleanup'
  BY <1>1 DEF IInv, FirstInterruptGraceful, CrashOnlyInCleanup, Past,
     procVars, devVars
<1> QED BY <1>3, <1>5, <1>6, <1>7, <1>8, <1>9 DEF IInv

\* The caller that sends is the holder of api_lock, so nobody else waits.
LEMMA ApiSendStep ==
  ASSUME IInv, NEW t \in Callers, ApiSend(t)
  PROVE  IInv'
<1>1. /\ process = "running"
      /\ call[t] = "send"
      /\ Send(ToMaster(t))
      /\ call' = [call EXCEPT ![t] = "recv"]
      /\ UNCHANGED <<setup, otherProcVars, globVars, mpc, lpc, spc,
                             toHost, devVars>>
  BY DEF ApiSend, CallAt, Running
<1>2. /\ call'[t] = "recv"
      /\ \A u \in Callers \ {t} : /\ call'[u] = call[u]
                                   /\ call[u] \notin {"send", "recv"}
      /\ call' \in [Callers -> {"none", "lock", "send", "recv"}]
  BY <1>1 DEF IInv, TypeOK, Calls, Callers
<1>3. /\ ToMaster(t) \in ToDevPackets
      /\ ToMaster(t).to = "master" /\ ToMaster(t).by = t
      /\ ToMaster(t).op = Operation(t)
  <2>1. /\ ToMaster(t).to = "master" /\ ToMaster(t).by = t
        /\ ToMaster(t).op = Operation(t)
    BY DEF ToMaster
  <2>2. Operation(t) \in AccessSteps \cup Loads \cup {"nested"}
    <3>1. setup.load \in Loads
      BY SetupsAssumption DEF IInv, TypeOK
    <3>2. t = "main" => Program[mpc] \in AccessSteps
      BY <1>1 DEF IInv, Calls, Accessing
    <3> QED BY <3>1, <3>2 DEF Operation, Callers
  <2> QED BY <2>1, <2>2 DEF ToMaster, ToDevPackets
<1>4. ~Waiting /\ Waiting'
  BY <1>1, <1>2 DEF Waiting, IInv, Calls
<1>5. mpc' = mpc /\ setup' = setup /\ \A u : Operation(u)' = Operation(u)
  BY <1>1 DEF Operation
<1>6. Calls'
  BY <1>1, <1>2 DEF IInv, Calls, Callers, globVars
<1>7. Out = 0
  BY <1>4, Numbers DEF IInv, Outstanding, Out, One, TypeOK
<1>9. Carried'
  BY <1>1 DEF IInv, Carried, Brought, Taken, globVars, devVars
<1>10. FirstInterruptGraceful' /\ CrashOnlyInCleanup'
  BY <1>1 DEF IInv, FirstInterruptGraceful, CrashOnlyInCleanup, Past, Send,
              otherProcVars, devVars
<1>11. Progress'
  BY <1>1 DEF IInv, Progress, Answered, globVars, devVars
<1>12. CASE lost
  <2>1. process' = "exited" /\ toDev' = toDev
    BY <1>1, <1>12 DEF Send
  <2>2. TypeOK'
    BY <2>1, <1>1, <1>2 DEF IInv, TypeOK, otherProcVars, globVars, devVars
  <2>3. Owned'
    BY <2>1, <1>1, <1>2, <1>5, NamedCallers DEF IInv, Owned, globVars, devVars
  <2>4. Outstanding'
    BY <2>1, <1>1, <1>4, <1>7, <1>12 DEF Outstanding, Out, One, globVars,
       devVars
  <2>5. Conserved'
    BY <1>1, <1>12 DEF Conserved, devVars
  <2>6. Interrupts'
    <3>1. raised <= nreq + 2
      BY Numbers DEF IInv, Interrupts, One
    <3> QED BY <3>1, <2>1, <1>1, <1>12, Numbers
           DEF IInv, Interrupts, One, otherProcVars, devVars
  <2> QED BY <2>2, <2>3, <2>4, <2>5, <2>6, <1>6, <1>9, <1>10, <1>11 DEF IInv
<1>13. CASE ~lost
  <2>1. toDev' = Append(toDev, ToMaster(t)) /\ UNCHANGED process
    BY <1>1, <1>13 DEF Send
  <2>2. /\ toDev' \in Seq(ToDevPackets)
        /\ \A k \in 1..Len(toDev') :
              \/ k \in 1..Len(toDev) /\ toDev'[k] = toDev[k]
              \/ toDev'[k] = ToMaster(t)
        /\ Count(toDev', "master") = Count(toDev, "master") + 1
        /\ Count(toDev', "slave") = Count(toDev, "slave")
    BY <2>1, <1>3, PutOn, PacketTypes DEF IInv, One
  <2>3. TypeOK'
    BY <2>1, <2>2, <1>1, <1>2 DEF IInv, TypeOK, ToDevPackets, otherProcVars,
       globVars, devVars
  <2>4. Owned'
    BY <2>2, <1>1, <1>2, <1>3, <1>5, NamedCallers
       DEF IInv, Owned, globVars, devVars
  <2>5. Outstanding'
    <3>1. Out' = Out + 1
      BY <2>2, <1>1, Numbers DEF IInv, Out, One, globVars, devVars
    <3> QED BY <3>1, <1>4, <1>7 DEF Outstanding, One
  <2>6. Conserved' /\ Interrupts'
    BY <2>1, <2>2, <1>1 DEF IInv, Conserved, Held, Brought, Taken, Interrupts,
                       Unhandled, One, otherProcVars, globVars, devVars
  <2> QED BY <2>3, <2>4, <2>5, <2>6, <1>6, <1>9, <1>10, <1>11 DEF IInv
<1> QED BY <1>12, <1>13

\* A caller in flexsoc_recv is the only one.
LEMMA OneWaits ==
  ASSUME TypeOK, Calls, NEW t \in Callers, call[t] = "recv"
  PROVE  \A u \in Callers : call[u] = "recv" => u = t
BY DEF Calls, Callers

\* The response is the only one there is, and it is the caller's.
LEMMA ApiRecvStep ==
  ASSUME IInv, NEW t \in Callers, ApiRecv(t)
  PROVE  IInv'
<1>1. /\ process = "running"
      /\ call[t] = "recv" /\ mbuf # <<>>
      /\ mbuf' = Tail(mbuf)
      /\ api_lock' = "nobody"
      /\ call' = [call EXCEPT ![t] = "none"]
      /\ IF t = "main" THEN mpc' = mpc + 1 /\ UNCHANGED spc
                       ELSE spc' = "reply" /\ UNCHANGED mpc
      /\ UNCHANGED <<setup, procVars, recv_cb, kill_thread, slave_free,
                     slave_pkt, lpc, toDev, toHost, devVars>>
  BY DEF ApiRecv, CallAt, Running
<1>2. /\ call'[t] = "none"
      /\ \A u \in Callers \ {t} : call'[u] = call[u] /\ call'[u] # "recv"
      /\ call' \in [Callers -> {"none", "lock", "send", "recv"}]
  BY <1>1, OneWaits DEF IInv, TypeOK
<1>3. /\ Len(mbuf) \in Nat \ {0} /\ mbuf[1] \in Callers
      /\ Tail(mbuf) \in Seq(Callers)
      /\ Len(Tail(mbuf)) = Len(mbuf) - 1
  BY <1>1, EmptySeq, HeadTailProperties DEF IInv, TypeOK
<1>4. Waiting /\ ~Waiting'
  BY <1>1, <1>2 DEF Waiting
<1>5. /\ Len(mbuf) = 1 /\ Count(toHost, "mbuf") = 0
      /\ Count(toDev, "master") = 0 /\ ~(host_slave # None /\ by_master)
  BY <1>3, <1>4, Numbers DEF IInv, Outstanding, Out, One
<1>6. /\ \A k \in 1..Len(toHost) : toHost[k].to # "mbuf"
      /\ \A k \in 1..Len(toDev) : toDev[k].to # "master"
  BY <1>5, CountZero, PacketTypes DEF IInv
<1>7. mbuf[1] = t /\ 1 \in 1..Len(mbuf)
  BY <1>3, <1>1, OneWaits DEF IInv, Owned
<1>8. \/ t = "main" /\ mpc \in Accessing /\ mpc' = mpc + 1 /\ spc' = spc
      \/ t = "slave" /\ spc = "access" /\ spc' = "reply" /\ mpc' = mpc
  BY <1>1 DEF IInv, Calls, Callers
<1>9. TypeOK'
  <2>1. mpc \in 1..19 /\ (mpc \in Accessing => mpc + 1 \in 1..19) /\ PC = 1..19
    BY StepOf, Accesses DEF IInv, TypeOK
  <2>2. mpc' \in PC
    BY <2>1, <1>8
  <2> QED BY <2>2, <1>1, <1>2, <1>3, <1>8 DEF IInv, TypeOK, procVars, devVars
<1>10. Calls'
  BY <1>1, <1>2, <1>8 DEF IInv, Calls, Callers
<1>11. Owned'
  BY <1>1, <1>3, <1>5, <1>6 DEF Owned, devVars
<1>12. Outstanding'
  BY <1>1, <1>3, <1>4, <1>5 DEF Outstanding, Out, One, devVars
<1>13. Conserved' /\ Carried'
  BY <1>1, <1>8, Accesses DEF IInv, Conserved, Held, Brought, Taken, Serving,
     Carried, devVars
<1>14. Progress'
  <2>1. ~Answered'
    BY <1>1, <1>3, <1>5, <1>6 DEF Answered
  <2>2. t = "main" /\ mpc = 8 => ~cpu_run
    BY <1>7 DEF IInv, Progress, Answered
  <2> QED BY <2>1, <2>2, <1>1, <1>8, Accesses
     DEF IInv, Progress, Serving, devVars
<1>15. Interrupts'
  BY <1>1, <1>8, Accesses, Numbers DEF IInv, Interrupts, Unhandled, One,
     procVars, devVars
<1>16. FirstInterruptGraceful' /\ CrashOnlyInCleanup'
  BY <1>1 DEF IInv, FirstInterruptGraceful, CrashOnlyInCleanup, procVars,
     devVars
<1> QED BY <1>9, <1>10, <1>11, <1>12, <1>13, <1>14, <1>15, <1>16 DEF IInv

-----------------------------------------------------------------------------
(* SIGINT.                                                                 *)

\* The user's ^C is the first SIGINT.
LEMMA UserInterruptStep ==
  ASSUME IInv, UserInterrupt
  PROVE  IInv'
<1>1. /\ process = "running" /\ raised = 0
      /\ sigint' = TRUE /\ raised' = 1
      /\ UNCHANGED <<setup, process, handled, shutdown_flag,
                     globVars, thrVars, toDev, toHost, devVars>>
  BY DEF UserInterrupt, Running
<1>2. TypeOK'
  BY <1>1, MaxRequestAssumption DEF IInv, TypeOK, globVars, thrVars, devVars
<1>3. Interrupts'
  BY <1>1, Numbers DEF IInv, Interrupts, Progress, Unhandled, One, globVars,
     thrVars, devVars
<1>4. Calls' /\ Owned' /\ Outstanding'
  BY <1>1 DEF IInv, Calls, Owned, Operation, Outstanding, Out, Waiting,
     globVars, thrVars, devVars
<1>5. Conserved' /\ Carried' /\ Progress'
  BY <1>1 DEF IInv, Conserved, Held, Brought, Taken, Carried, Progress,
     Answered,
              globVars, thrVars, devVars
<1>6. FirstInterruptGraceful' /\ CrashOnlyInCleanup'
  BY <1>1 DEF IInv, FirstInterruptGraceful, CrashOnlyInCleanup, Past, thrVars,
     devVars
<1> QED BY <1>2, <1>3, <1>4, <1>5, <1>6 DEF IInv

\* A SIGINT that finds no handler is not the first one, or comes before "signal".
LEMMA DeliverStep ==
  ASSUME IInv, Deliver
  PROVE  IInv'
<1>1. /\ process = "running" /\ sigint /\ sigint' = FALSE
      /\ handled => /\ handled' = FALSE /\ shutdown_flag' = TRUE
                    /\ process' = process
      /\ ~handled => /\ process' = "killed"
                     /\ UNCHANGED <<handled, shutdown_flag>>
      /\ UNCHANGED <<setup, raised, globVars, thrVars, toDev, toHost, devVars>>
  BY DEF Deliver, Running
<1>2. TypeOK'
  <2>1. /\ sigint' \in BOOLEAN /\ handled' \in BOOLEAN
        /\ shutdown_flag' \in BOOLEAN
        /\ process' \in {"running", "killed", "crashed", "exited"}
    BY <1>1, Flags DEF IInv
  <2> QED BY <2>1, <1>1 DEF IInv, TypeOK, globVars, thrVars, devVars
<1>3. Interrupts'
  BY <1>1, Numbers DEF IInv, Interrupts, Unhandled, One, globVars, thrVars,
     devVars
<1>4. Calls' /\ Owned' /\ Outstanding'
  BY <1>1 DEF IInv, Calls, Owned, Operation, Outstanding, Out, Waiting,
     globVars, thrVars, devVars
<1>5. Conserved' /\ Carried' /\ Progress'
  BY <1>1 DEF IInv, Conserved, Held, Brought, Taken, Carried, Progress,
     Answered,
              globVars, thrVars, devVars
<1>6. FirstInterruptGraceful'
  <2>1. CASE handled
    BY <2>1, <1>1 DEF FirstInterruptGraceful
  <2>2. CASE ~handled /\ raised = 1
    <3>1. ~(mpc > 5)
      BY <2>2, <1>1 DEF IInv, Interrupts
    <3>2. mpc \in Nat
      BY DEF IInv, TypeOK, PC
    <3>3. ~cpu_run
      BY <3>1, <3>2 DEF IInv, Progress
    <3>4. ~Past("signal")
      <4>1. \A k \in 1..(mpc - 1) : k \in 1..4
        BY <3>1, <3>2
      <4> QED BY <4>1 DEF Past, Program
    <3>5. Past("signal")' <=> Past("signal")
      BY <1>1 DEF Past, thrVars
    <3> QED BY <3>3, <3>4, <3>5, <1>1 DEF FirstInterruptGraceful, devVars
  <2>3. CASE raised # 1
    BY <2>3, <1>1 DEF FirstInterruptGraceful
  <2> QED BY <2>1, <2>2, <2>3
<1>7. CrashOnlyInCleanup'
  BY <1>1 DEF IInv, CrashOnlyInCleanup, Past, thrVars, devVars
<1> QED BY <1>2, <1>3, <1>4, <1>5, <1>6, <1>7 DEF IInv

-----------------------------------------------------------------------------
(* The listen thread.                                                      *)

\* A response moves from the link to mbuf.
LEMMA ListenMasterStep ==
  ASSUME IInv, ListenMaster
  PROVE  IInv'
<1>1. /\ process = "running" /\ toHost # <<>> /\ Head(toHost).to = "mbuf"
      /\ mbuf' = Append(mbuf, Head(toHost).by)
      /\ toHost' = Tail(toHost)
      /\ UNCHANGED <<setup, procVars, recv_cb, kill_thread, slave_free,
                     slave_pkt, api_lock, thrVars, toDev, devVars>>
  BY DEF ListenMaster, ListenAt, Running
<1>2. /\ Head(toHost) = toHost[1] /\ 1 \in 1..Len(toHost)
      /\ toHost' \in Seq(ToHostPackets)
      /\ \A k \in 1..Len(toHost') : /\ k + 1 \in 1..Len(toHost)
                                    /\ toHost'[k] = toHost[k + 1]
      /\ Head(toHost) \in ToHostPackets
      /\ Count(toHost, "mbuf") = Count(toHost', "mbuf") + 1
      /\ Count(toHost', "mbuf") \in Nat
      /\ Count(toHost', "slave") = Count(toHost, "slave")
  <2>1. toHost \in Seq(ToHostPackets)
    BY PacketTypes DEF IInv
  <2>2. One(Head(toHost).to = "mbuf") = 1 /\ One(Head(toHost).to = "slave") = 0
    BY <1>1 DEF One
  <2> QED BY <2>1, <2>2, <1>1, TakeFrom, Numbers DEF IInv
<1>3. Head(toHost).by \in Callers /\ toHost[1].to = "mbuf"
  BY <1>1, <1>2 DEF ToHostPackets
<1>4. /\ mbuf' \in Seq(Callers) /\ Len(mbuf') = Len(mbuf) + 1 
      /\ \A k \in 1..Len(mbuf') : \/ k \in 1..Len(mbuf) /\ mbuf'[k] = mbuf[k]
                                  \/ mbuf'[k] = toHost[1].by
  BY <1>1, <1>2, <1>3 DEF IInv, TypeOK
<1>5. TypeOK'
  BY <1>1, <1>2, <1>4 DEF IInv, TypeOK, ToHostPackets, procVars, thrVars,
     devVars
<1>6. Calls'
  BY <1>1 DEF IInv, Calls, thrVars
<1>7. Owned'
  BY <1>1, <1>2, <1>3, <1>4 DEF IInv, Owned, Operation, thrVars, devVars
<1>8. Outstanding'
  <2>1. Out' = Out
    BY <1>1, <1>2, <1>4, Numbers DEF IInv, Out, One, devVars
  <2> QED BY <2>1, <1>1 DEF IInv, Outstanding, Waiting, thrVars, devVars
<1>9. Conserved' /\ Carried'
  BY <1>1, <1>2 DEF IInv, Conserved, Held, Brought, Taken, Carried, thrVars,
     devVars
<1>10. Progress'
  <2>1. Answered' => Answered
    BY <1>1, <1>2, <1>3, <1>4 DEF Answered
  <2> QED BY <2>1, <1>1, <1>2 DEF IInv, Progress, thrVars, devVars
<1>11. Interrupts' /\ FirstInterruptGraceful' /\ CrashOnlyInCleanup'
  BY <1>1 DEF IInv, Interrupts, Unhandled, FirstInterruptGraceful,
              CrashOnlyInCleanup, Past, procVars, thrVars, devVars
<1> QED BY <1>5, <1>6, <1>7, <1>8, <1>9, <1>10, <1>11 DEF IInv

\* A transaction moves from the link to slave_pkt, where no other is.
LEMMA ListenSlaveStep ==
  ASSUME IInv, ListenSlave
  PROVE  IInv'
<1>1. /\ process = "running" /\ lpc = "read"
      /\ toHost # <<>> /\ Head(toHost).to = "slave"
      /\ slave_pkt' = Head(toHost).id
      /\ toHost' = Tail(toHost)
      /\ lpc' = "unlock"
      /\ UNCHANGED <<setup, procVars, recv_cb, kill_thread,
                     slave_free, api_lock, mbuf, mpc, spc, call,
                     toDev, devVars>>
  BY DEF ListenSlave, ListenAt, Running
<1>2. /\ Head(toHost) = toHost[1] /\ 1 \in 1..Len(toHost)
      /\ toHost' \in Seq(ToHostPackets)
      /\ \A k \in 1..Len(toHost') : /\ k + 1 \in 1..Len(toHost)
                                    /\ toHost'[k] = toHost[k + 1]
      /\ Head(toHost) \in ToHostPackets
      /\ Count(toHost, "slave") = Count(toHost', "slave") + 1
      /\ Count(toHost', "slave") \in Nat
      /\ Count(toHost', "mbuf") = Count(toHost, "mbuf")
  BY <1>1, TakeFrom, PacketTypes, Numbers DEF IInv, One
<1>3. slave_pkt' \in Requests /\ toHost[1].to = "slave"
  BY <1>1, <1>2 DEF ToHostPackets
<1>4. TypeOK'
  BY <1>1, <1>2, <1>3 DEF IInv, TypeOK, ToHostPackets, procVars, devVars
<1>5. Calls'
  BY <1>1 DEF IInv, Calls
<1>6. Owned' /\ Outstanding'
  BY <1>1, <1>2 DEF IInv, Owned, Operation, Outstanding, Out, Waiting, devVars
<1>7. Conserved'
  <2>1. Held' = Held
    BY <1>1, <1>2, Numbers DEF IInv, Held, One, Brought, Taken
  <2> QED BY <2>1, <1>1 DEF IInv, Conserved, devVars
<1>8. Carried'
  BY <1>1, <1>2, <1>3 DEF IInv, Carried, devVars
<1>9. Progress'
  <2>1. Answered' => Answered
    BY <1>1, <1>2 DEF Answered
  <2>2. nreq # 0
    BY <1>2, Numbers DEF IInv, Progress
  <2> QED BY <2>1, <2>2, <1>1, <1>3 DEF IInv, Progress, Requests, None, devVars
<1>10. Interrupts' /\ FirstInterruptGraceful' /\ CrashOnlyInCleanup'
  BY <1>1 DEF IInv, Interrupts, Unhandled, FirstInterruptGraceful,
              CrashOnlyInCleanup, Past, procVars, devVars
<1> QED BY <1>4, <1>5, <1>6, <1>7, <1>8, <1>9, <1>10 DEF IInv

\* The unlock: it hands a transaction over, or lets the slave thread end.
LEMMA ListenUnlockStep ==
  ASSUME IInv, ListenUnlock \/ ListenStop
  PROVE  IInv'
<1>1. /\ process = "running" /\ slave_free' = TRUE
      /\ UNCHANGED <<setup, procVars, recv_cb, kill_thread, slave_pkt,
                     api_lock, mbuf, mpc, spc, call, toDev, toHost, devVars>>
  BY DEF ListenUnlock, ListenStop, ListenAt, Running
<1>2. \/ lpc = "unlock" /\ lpc' = "read"
      \/ lpc = "read" /\ lpc' = "done" /\ (kill_thread \/ lost)
  BY DEF ListenUnlock, ListenStop, ListenAt
<1>3. TypeOK'
  <2>1. lpc' \in {"read", "unlock", "done"} /\ slave_free' \in BOOLEAN
    BY <1>1, <1>2
  <2> QED BY <1>1, <2>1 DEF IInv, TypeOK, procVars, devVars
<1>4. Calls' /\ Owned' /\ Outstanding'
  BY <1>1 DEF IInv, Calls, Owned, Operation, Outstanding, Out, Waiting, devVars
<1>5. Conserved'
  <2>1. SUFFICES ASSUME ~lost
                 PROVE  /\ Held' <= Held
                        /\ Held <= 1 /\ mpc <= 13 => Held' = Held
    <3>1. Held \in Nat /\ Held' \in Nat
      BY <1>1, Numbers, SMTT(30) DEF IInv, Held, One
    <3> QED BY <3>1, <1>1 DEF IInv, Conserved, One, devVars
  <2>2. CASE kill_thread
    <3>1. mpc > 15
      BY <2>2 DEF IInv, Progress
    <3>2. Held' <= Held
      BY <1>1, <1>2, <2>2, Numbers DEF IInv, Held, One, Brought, Taken
    <3> QED BY <3>1, <3>2 DEF IInv, TypeOK, PC
  <2>3. CASE ~kill_thread
    <3>1. lpc = "unlock" /\ lpc' = "read"
      BY <1>2, <2>1, <2>3
    <3> QED BY <3>1, <1>1, <2>3, Numbers DEF IInv, Held, One, Brought, Taken
  <2> QED BY <2>2, <2>3
<1>6. Carried'
  BY <1>1, <1>2 DEF IInv, Carried, Brought, Taken, devVars
<1>7. /\ Progress' /\ Interrupts'
      /\ FirstInterruptGraceful' /\ CrashOnlyInCleanup'
  BY <1>1 DEF IInv, Progress, Answered, Interrupts, Unhandled,
              FirstInterruptGraceful, CrashOnlyInCleanup, Past, procVars,
              devVars
<1> QED BY <1>3, <1>4, <1>5, <1>6, <1>7 DEF IInv

-----------------------------------------------------------------------------
(* The slave thread.                                                       *)

\* The slave thread takes the transaction, or drops it when main has come past
\* flexsoc_unregister or the device has forwarded none.
LEMMA SlaveStartStep ==
  ASSUME IInv, SlaveWake \/ SlaveKillCheck \/ SlaveCheck
  PROVE  IInv'
<1>1. /\ process = "running"
      /\ UNCHANGED <<setup, procVars, recv_cb, kill_thread, slave_pkt, api_lock,
                     mbuf, mpc, lpc, call, toDev, toHost, devVars>>
  BY DEF SlaveWake, SlaveKillCheck, SlaveCheck, SlaveAt, Running, Goto,
     globVars
<1>2. \/ spc = "wait" /\ slave_free /\ slave_free' = FALSE /\ spc' = "woken"
      \/ spc = "woken" /\ slave_free' = slave_free
         /\ spc' = IF kill_thread THEN "done" ELSE "check"
      \/ spc = "check" /\ slave_free' = slave_free
         /\ spc' = IF recv_cb THEN "call" ELSE "wait"
  BY DEF SlaveWake, SlaveKillCheck, SlaveCheck, SlaveAt, Goto, globVars
<1>3. TypeOK'
  <2>1. /\ spc' \in {"woken", "done", "check", "call", "wait"}
        /\ slave_free' \in BOOLEAN
    BY <1>2, Flags DEF IInv
  <2> QED BY <2>1, <1>1 DEF IInv, TypeOK, procVars, devVars
<1>4. Calls' /\ Owned' /\ Outstanding'
  BY <1>1, <1>2 DEF IInv, Calls, Owned, Operation, Outstanding, Out, Waiting,
     devVars
<1>5. Conserved'
  <2>1. Held \in Nat /\ Held' \in Nat
    BY <1>1, Numbers, SMTT(30) DEF IInv, Held, One
  <2>2. CASE spc = "check" /\ ~recv_cb
    <3>1. Held' <= Held
      BY <2>2, <1>1, <1>2, Numbers DEF IInv, Held, One, Brought, Taken, Serving
    <3>2. mpc <= 13 => host_slave = None
      BY <2>2, Numbers DEF IInv, Progress, TypeOK, PC
    <3> QED BY <3>1, <3>2, <2>1, <1>1 DEF IInv, Conserved, One, devVars
  <2>3. CASE ~(spc = "check" /\ ~recv_cb)
    <3>1. Held' = Held
      BY <2>3, <1>1, <1>2, Numbers DEF IInv, Held, One, Brought, Taken, Serving
    <3> QED BY <3>1, <1>1 DEF IInv, Conserved, devVars
  <2> QED BY <2>2, <2>3
<1>6. Carried'
  BY <1>1, <1>2 DEF IInv, Carried, Brought, Taken, Serving, devVars
<1>7. Progress'
  BY <1>1, <1>2 DEF IInv, Progress, Answered, Serving, devVars
<1>8. Interrupts' /\ FirstInterruptGraceful' /\ CrashOnlyInCleanup'
  BY <1>1, <1>2 DEF IInv, Interrupts, Unhandled, FirstInterruptGraceful,
                    CrashOnlyInCleanup, Past, procVars, devVars
<1> QED BY <1>3, <1>4, <1>5, <1>6, <1>7, <1>8 DEF IInv

\* A recv_cb that is gone at the call was cleared by flexsoc_unregister.
LEMMA SlaveCallStep ==
  ASSUME IInv, SlaveCall
  PROVE  IInv'
<1>1. /\ process = "running" /\ spc = "call"
      /\ recv_cb => spc' = "handler" /\ process' = process
      /\ ~recv_cb => spc' = "call" /\ process' = "crashed"
      /\ UNCHANGED <<setup, sigint, handled, raised, shutdown_flag, globVars,
                     mpc, lpc, call, toDev, toHost, devVars>>
  BY DEF SlaveCall, SlaveAt, Running, Goto
<1>2. spc' \in {"call", "handler"} /\ process' \in {"running", "crashed"}
  BY <1>1
<1>3. TypeOK'
  BY <1>1, <1>2 DEF IInv, TypeOK, globVars, devVars
<1>4. Calls' /\ Owned' /\ Outstanding'
  BY <1>1, <1>2 DEF IInv, Calls, Owned, Operation, Outstanding, Out, Waiting,
     globVars, devVars
<1>5. Conserved' /\ Carried'
  BY <1>1, <1>2 DEF IInv, Conserved, Held, Brought, Taken, Serving, Carried,
     globVars, devVars
<1>6. Progress'
  BY <1>1, <1>2 DEF IInv, Progress, Answered, Serving, globVars, devVars
<1>7. Interrupts' /\ FirstInterruptGraceful'
  BY <1>1, <1>2, Numbers DEF IInv, Interrupts, Unhandled, One,
     FirstInterruptGraceful, devVars
<1>8. CrashOnlyInCleanup'
  <2>1. ~recv_cb => mpc > 13 /\ mpc \in 1..19 /\ ~cpu_run
    BY <1>1, StepOf DEF IInv, Progress, Serving, TypeOK
  <2>2. mpc > 13 /\ mpc \in 1..19 => Past("unregister")
    BY Steps DEF Past
  <2> QED BY <2>1, <2>2, <1>1 DEF IInv, CrashOnlyInCleanup, Past, devVars
<1> QED BY <1>3, <1>4, <1>5, <1>6, <1>7, <1>8 DEF IInv

\* The answer leaves the host for the device.
LEMMA SlaveReplyStep ==
  ASSUME IInv, SlaveReply
  PROVE  IInv'
<1>1. /\ process = "running" /\ spc = "reply" /\ spc' = "wait"
      /\ Send(SlaveReplyTo(slave_pkt))
      /\ UNCHANGED <<setup, otherProcVars, globVars, mpc, lpc, call, toHost,
                     devVars>>
  BY DEF SlaveReply, SlaveAt, Running, Goto
<1>2. /\ SlaveReplyTo(slave_pkt) \in ToDevPackets
      /\ SlaveReplyTo(slave_pkt).to = "slave"
  BY <1>1 DEF SlaveReplyTo, ToDevPackets, IInv, Progress, TypeOK
<1>3. Calls'
  BY <1>1 DEF IInv, Calls, globVars
<1>4. Carried' /\ Progress'
  BY <1>1 DEF IInv, Carried, Brought, Taken, Progress, Answered, Serving,
     globVars, devVars
<1>5. FirstInterruptGraceful' /\ CrashOnlyInCleanup'
  BY <1>1 DEF IInv, FirstInterruptGraceful, CrashOnlyInCleanup, Past, Send,
              otherProcVars, devVars
<1>6. CASE lost
  <2>1. process' = "exited" /\ toDev' = toDev
    BY <1>1, <1>6 DEF Send
  <2>2. TypeOK'
    BY <2>1, <1>1 DEF IInv, TypeOK, otherProcVars, globVars, devVars
  <2>3. Owned' /\ Outstanding'
    BY <2>1, <1>1 DEF IInv, Owned, Operation, Outstanding, Out, Waiting,
       globVars, devVars
  <2>4. Conserved'
    BY <1>1, <1>6 DEF Conserved, devVars
  <2>5. Interrupts'
    BY <2>1, <1>1, <1>6, Numbers DEF IInv, Interrupts, One, otherProcVars,
       devVars
  <2> QED BY <2>2, <2>3, <2>4, <2>5, <1>3, <1>4, <1>5 DEF IInv
<1>7. CASE ~lost
  <2>1. toDev' = Append(toDev, SlaveReplyTo(slave_pkt)) /\ UNCHANGED process
    BY <1>1, <1>7 DEF Send
  <2>2. /\ toDev' \in Seq(ToDevPackets)
        /\ \A k \in 1..Len(toDev') :
              \/ k \in 1..Len(toDev) /\ toDev'[k] = toDev[k]
              \/ toDev'[k].to = "slave"
        /\ Count(toDev', "master") = Count(toDev, "master")
        /\ Count(toDev', "slave") = Count(toDev, "slave") + 1
    <3>1. toDev \in Seq(ToDevPackets)
      BY PacketTypes DEF IInv
    <3>2. /\ One(SlaveReplyTo(slave_pkt).to = "slave") = 1
          /\ One(SlaveReplyTo(slave_pkt).to = "master") = 0
      BY <1>2 DEF One
    <3> QED BY <3>1, <3>2, <2>1, <1>2, PutOn, Numbers DEF IInv
  <2>3. TypeOK'
    BY <2>1, <2>2, <1>1 DEF IInv, TypeOK, ToDevPackets, otherProcVars,
       globVars, devVars
  <2>4. Owned'
    BY <2>2, <1>1 DEF IInv, Owned, Operation, globVars, devVars
  <2>5. Outstanding'
    BY <2>2, <1>1 DEF IInv, Outstanding, Out, Waiting, globVars, devVars
  <2>6. Conserved'
    <3>1. Held' = Held
      <4>1. Taken /\ ~Taken' /\ Brought' = Brought
        BY <1>1 DEF Taken, Serving, Brought, globVars
      <4>2. /\ One(Taken) = 1 /\ One(Taken') = 0
            /\ One(Brought') = One(Brought) /\ One(Brought) \in Nat
            /\ One(lpc' = "unlock") = One(lpc = "unlock")
            /\ One(lpc = "unlock") \in Nat
        BY <4>1, <1>1 DEF One
      <4>3. Count(toHost', "slave") = Count(toHost, "slave")
        BY <1>1
      <4> QED BY <4>2, <4>3, <2>2, Numbers DEF IInv, Held
    <3> QED BY <3>1, <1>1 DEF IInv, Conserved, devVars
  <2>7. Interrupts'
    BY <2>1, <2>2, <1>1, <1>7, Numbers DEF IInv, Interrupts, Unhandled, One,
       otherProcVars, devVars
  <2> QED BY <2>3, <2>4, <2>5, <2>6, <2>7, <1>3, <1>4, <1>5 DEF IInv
<1> QED BY <1>6, <1>7

\* At "handler", with the device there, the bus waits for the plugin's answer.
LEMMA HandlerUnhandled ==
  ASSUME IInv, spc = "handler", ~lost
  PROVE  Unhandled
<1>1. Held <= One(host_slave # None)
  BY DEF IInv, Conserved
<1>2. One(Taken) = 1 /\ One(lpc = "unlock") \in Nat /\ One(Brought) \in Nat
  BY DEF Taken, Serving, One
<1>3. host_slave # None /\ Count(toDev, "slave") = 0
  BY <1>1, <1>2, Numbers DEF IInv, Held, One
<1> QED BY <1>3 DEF Unhandled

\* The plugin's method.
LEMMA SlaveHandlerStep ==
  ASSUME IInv, SlaveHandler
  PROVE  IInv'
<1>1. /\ process = "running" /\ spc = "handler"
      /\ UNCHANGED <<setup, globVars, mpc, lpc, toDev, toHost, devVars>>
  BY DEF SlaveHandler, SlaveAt, Running, InvalidLen, Handle, HandlerCrash, Goto
<1>2. \/ slave_pkt = None /\ InvalidLen
      \/ slave_pkt # None /\ (Handle \/ HandlerCrash)
  BY DEF SlaveHandler
<1>3. /\ process = "running" /\ mpc \in 1..19 /\ mpc >= 2
      /\ call["slave"] = "none"
  BY <1>1, StepOf DEF IInv, TypeOK, Calls, Progress, Serving
<1>4. CASE InvalidLen \/ (HandlerCrash /\ slave_pkt # None)
  <2>1. /\ spc' = "handler" /\ call' = call
        /\ UNCHANGED <<sigint, handled, raised, shutdown_flag>>
        /\ \/ process' = "exited"
           \/ process' = "crashed" /\ Past("free_plugins")
    BY <1>4 DEF InvalidLen, HandlerCrash, Goto, otherProcVars
  <2>2. TypeOK'
    BY <2>1, <1>1 DEF IInv, TypeOK, globVars, devVars
  <2>3. Calls' /\ Owned' /\ Outstanding'
    BY <2>1, <1>1 DEF IInv, Calls, Owned, Operation, Outstanding, Out, Waiting,
                      globVars, devVars
  <2>4. Conserved' /\ Carried' /\ Progress'
    BY <2>1, <1>1 DEF IInv, Conserved, Held, Brought, Taken, Carried, Progress,
                      Answered, globVars, devVars
  <2>5. Interrupts'
    BY <2>1, <1>1, Numbers DEF IInv, Interrupts, Unhandled, One, devVars
  <2>6. FirstInterruptGraceful' /\ CrashOnlyInCleanup'
    <3>1. Past("free_plugins") => mpc > 14
      BY <1>3, Steps, StepOf DEF Past, Located
    <3>2. mpc > 14 => Past("unregister") /\ ~cpu_run
      BY <1>3, Steps DEF Past, IInv, Progress
    <3> QED BY <3>1, <3>2, <2>1, <1>1
            DEF IInv, FirstInterruptGraceful, CrashOnlyInCleanup, Past, devVars
  <2> QED BY <2>2, <2>3, <2>4, <2>5, <2>6 DEF IInv
<1>5. CASE Handle /\ slave_pkt # None
  <2>1. /\ process' = process
        /\ handled' = handled /\ shutdown_flag' = shutdown_flag
        /\ \/ spc' = "reply" /\ call' = call
           \/ spc' = "access" /\ call' = [call EXCEPT !["slave"] = "lock"]
        /\ \/ sigint' = sigint /\ raised' = raised
           \/ sigint' = TRUE /\ raised' = raised + 1 /\ spc' = "reply"
    BY <1>5 DEF Handle, Goto, procVars
  <2>2. nreq > 0
    BY <1>5, Numbers DEF IInv, Progress
  <2>3. raised' <= nreq + 1 + One(lost /\ spc' = "reply") /\ raised' \in Nat
    <3>1. CASE lost
      BY <3>1, <2>1, <1>1, <1>3, Numbers DEF IInv, Interrupts, One
    <3>2. CASE ~lost
      <4>1. raised <= nreq
        BY <3>2, <1>1, HandlerUnhandled DEF IInv, Interrupts
      <4> QED BY <4>1, <2>1, <3>2, Numbers DEF IInv, One
    <3> QED BY <3>1, <3>2
  <2>4. TypeOK'
    <3>1. nreq <= MaxRequest /\ raised' <= nreq + 2
      BY <2>3, Numbers DEF IInv, TypeOK, Requests, One
    <3>2. raised' \in 0..(MaxRequest + 2)
      BY <2>3, <3>1, Numbers DEF IInv
    <3>3. /\ sigint' \in BOOLEAN /\ spc' \in {"access", "reply"}
          /\ call' \in [Callers -> {"none", "lock", "send", "recv"}]
      BY <2>1, Flags DEF IInv, TypeOK
    <3> QED BY <3>2, <3>3, <2>1, <1>1 DEF IInv, TypeOK, globVars, devVars
  <2>5. /\ call'["main"] = call["main"]
        /\ spc' = "reply" => call'["slave"] = "none"
        /\ spc' = "access" => call'["slave"] = "lock"
    BY <2>1, <1>3 DEF IInv, TypeOK, Callers
  <2>6. Calls'
    BY <2>1, <2>5, <1>1, <1>3 DEF IInv, Calls, Callers, globVars
  <2>7. \A t \in Callers : call'[t] = "recv" <=> call[t] = "recv"
    BY <2>1, <2>5, <1>3 DEF Callers
  <2>8. Owned'
    BY NamedCallers, <2>7, <1>1 DEF IInv, Owned, Operation, globVars, devVars,
       Callers
  <2>9. Outstanding'
    BY <2>7, <1>1 DEF IInv, Outstanding, Out, Waiting, globVars, devVars
  <2>10. Conserved' /\ Carried' /\ Progress'
    BY <2>1, <1>1, <1>3, <1>5
       DEF IInv, Conserved, Held, Brought, Taken, Serving, Carried, Progress,
           Answered, globVars, devVars
  <2>11. Interrupts'
    <3>1. raised = 0 => raised' \in {0, 1} /\ (raised' = 0 => sigint' = sigint)
      BY <2>1
    <3>2. raised # 0 => /\ raised' # 0
                        /\ raised' = 1 => raised = 1 /\ sigint' = sigint
      BY <2>1, Numbers DEF IInv
    <3>3. spc' \in {"access", "reply"}
      BY <2>1
    <3> QED BY <3>1, <3>2, <3>3, <2>1, <2>2, <2>3, <1>1, <1>3, Numbers
            DEF IInv, Interrupts, Unhandled, One, devVars
  <2>12. FirstInterruptGraceful' /\ CrashOnlyInCleanup'
    BY <2>1, <1>1, <1>3 DEF IInv, FirstInterruptGraceful, CrashOnlyInCleanup
  <2> QED BY <2>4, <2>6, <2>8, <2>9, <2>10, <2>11, <2>12 DEF IInv
<1> QED BY <1>2, <1>4, <1>5

-----------------------------------------------------------------------------
(* The device.                                                             *)

\* The link of a device that is gone carries nothing.
Unplugged == lost => toDev = <<>> /\ toHost = <<>>

\* ... and nothing is put on it.
LEMMA UnpluggedStep == Unplugged /\ [Next]_vars => Unplugged'
<1> SUFFICES ASSUME Unplugged, [Next]_vars PROVE Unplugged'
  OBVIOUS
<1>1. CASE UNCHANGED vars
  BY <1>1 DEF vars, devVars, Unplugged
<1> USE DEF globVars, procVars, thrVars, devVars, Unplugged
<1>2. CASE Main
  BY <1>2 DEF Main, MainAccess, MainRegister, MainUnregister, MainSignal,
     MainSpin,
     MainFreePlugins, MainKill, MainJoin, MainClose, NextStep
<1>3. ASSUME NEW t \in Callers, Api(t) PROVE Unplugged'
  BY <1>3 DEF Api, ApiLock, ApiSend, ApiRecv, Send
<1>4. CASE UserInterrupt \/ Deliver
  BY <1>4 DEF UserInterrupt, Deliver
<1>5. CASE Listen
  BY <1>5 DEF Listen, ListenMaster, ListenSlave, ListenUnlock, ListenStop
<1>6. CASE Slave
  <2>1. CASE SlaveWake \/ SlaveKillCheck \/ SlaveCheck \/ SlaveCall
    BY <2>1 DEF SlaveWake, SlaveKillCheck, SlaveCheck, SlaveCall, Goto
  <2>2. CASE SlaveHandler
    BY <2>2 DEF SlaveHandler, InvalidLen, Handle, HandlerCrash, Goto
  <2>3. CASE SlaveReply
    BY <2>3 DEF SlaveReply, Send, Goto
  <2> QED BY <1>6, <2>1, <2>2, <2>3 DEF Slave
<1>7. CASE Device
  BY <1>7 DEF Device, DeviceAccess, DeviceForward, DeviceReply, Forward,
     AtDevice
<1>8. CASE CpuAccess
  BY <1>8 DEF CpuAccess, Forward
<1>9. CASE DeviceLost
  BY <1>9 DEF DeviceLost
<1> QED BY <1>1, <1>2, <1>3, <1>4, <1>5, <1>6, <1>7, <1>8, <1>9 DEF Next

\* The packet at the device, and what is left.
LEMMA AtDeviceTake ==
  ASSUME IInv, Unplugged, NEW endpoint, AtDevice(endpoint)
  PROVE  /\ process = "running" /\ ~lost
         /\ toDev # <<>> /\ Head(toDev) = toDev[1] /\ 1 \in 1..Len(toDev)
         /\ toDev[1] \in ToDevPackets /\ toDev[1].to = endpoint
         /\ Tail(toDev) \in Seq(ToDevPackets)
         /\ \A k \in 1..Len(Tail(toDev)) : /\ k + 1 \in 1..Len(toDev)
                                           /\ Tail(toDev)[k] = toDev[k + 1]
         /\ Count(toDev, endpoint) = Count(Tail(toDev), endpoint) + 1
         /\ \A to : Count(Tail(toDev), to) \in Nat
         /\ \A to : to # endpoint => Count(Tail(toDev), to) = Count(toDev, to)
<1>1. /\ process = "running" /\ ~lost
      /\ toDev # <<>> /\ Head(toDev).to = endpoint
  BY DEF AtDevice, Running, Unplugged
<1>2. toDev \in Seq(ToDevPackets)
  BY PacketTypes DEF IInv
<1>3. /\ One(Head(toDev).to = endpoint) = 1
      /\ \A to : to # endpoint => One(Head(toDev).to = to) = 0
  BY <1>1 DEF One
<1>4. /\ Head(toDev) = toDev[1] /\ 1 \in 1..Len(toDev)
      /\ Head(toDev) \in ToDevPackets
      /\ Tail(toDev) \in Seq(ToDevPackets)
      /\ \A k \in 1..Len(Tail(toDev)) : /\ k + 1 \in 1..Len(toDev)
                                        /\ Tail(toDev)[k] = toDev[k + 1]
      /\ \A to : /\ Count(toDev, to) = Count(Tail(toDev), to)
                                       + One(Head(toDev).to = to)
                 /\ Count(Tail(toDev), to) \in Nat
  BY <1>1, <1>2, TakeFrom
<1>5. ASSUME NEW to, to # endpoint
      PROVE  Count(Tail(toDev), to) = Count(toDev, to)
  <2>1. One(Head(toDev).to = to) = 0
    BY <1>3, <1>5
  <2>2. /\ Count(toDev, to) = Count(Tail(toDev), to) + One(Head(toDev).to = to)
        /\ Count(Tail(toDev), to) \in Nat
    BY <1>4
  <2> QED BY <2>1, <2>2
<1>6. Count(toDev, endpoint) = Count(Tail(toDev), endpoint) + 1
  BY <1>3, <1>4
<1> QED BY <1>1, <1>4, <1>5, <1>6

\* A master request is for the step of a caller in flexsoc_recv.
LEMMA AtMaster ==
  ASSUME IInv, Unplugged, AtDevice("master")
  PROVE  LET by == toDev[1].by
         IN  /\ by \in Callers /\ call[by] = "recv"
             /\ toDev[1].op = Operation(by)
             /\ by = "main" => mpc \in Accessing
             /\ toDev[1].op = "slave_on" => by = "main" /\ mpc = 2
             /\ toDev[1].op = "cpu_on" => by = "main" /\ mpc = 6
             /\ toDev[1].op = "plugin" =>
                  by = "main" /\ mpc \in {3, 4} /\ setup.load = "plugin"
             /\ by = "main" /\ mpc = 8 => toDev[1].op = "cpu_off"
<1>1. /\ toDev[1] \in ToDevPackets /\ toDev[1].to = "master"
      /\ 1 \in 1..Len(toDev)
  BY AtDeviceTake
<1>2. toDev[1].by \in Callers
  BY <1>1 DEF ToDevPackets
<1>3. call[toDev[1].by] = "recv" /\ toDev[1].op = Operation(toDev[1].by)
  BY <1>1 DEF IInv, Owned
<1>4. toDev[1].by = "main" => mpc \in Accessing
  BY <1>3 DEF IInv, Calls
<1>5. setup.load \in {"ram", "plugin"}
  BY SetupsAssumption DEF IInv, TypeOK, Loads
<1>6. toDev[1].by = "slave" => toDev[1].op = "nested"
  BY <1>3 DEF Operation
<1>7. ASSUME toDev[1].by = "main"
      PROVE  /\ mpc \in {3, 4} => toDev[1].op = setup.load
             /\ mpc \notin {3, 4} => toDev[1].op = Program[mpc]
             /\ mpc \in 1..18
  BY <1>3, <1>4, <1>7, Accesses, StepOf DEF Operation, Located
<1> QED BY <1>2, <1>3, <1>4, <1>5, <1>6, <1>7, Accesses, Steps, StepOf
   DEF Callers

\* The host master performs a request, and owes its response to the caller.
LEMMA DeviceAccessStep ==
  ASSUME IInv, Unplugged, DeviceAccess
  PROVE  IInv'
<1> DEFINE by == toDev[1].by
           op == toDev[1].op
<1>1. AtDevice("master") /\ process = "running" /\ ~lost
  BY AtDeviceTake DEF DeviceAccess
<1>2. /\ op # "plugin"
      /\ slave_en' = CASE op = "slave_on" -> TRUE
                         [] op = "slave_off" -> FALSE
                         [] OTHER -> slave_en
      /\ cpu_run' = CASE op = "cpu_on" -> TRUE
                        [] op = "cpu_off" -> FALSE
                        [] OTHER -> cpu_run
      /\ toHost' = Append(toHost, Response(by))
      /\ toDev' = Tail(toDev)
      /\ UNCHANGED <<setup, procVars, globVars, thrVars, host_slave, by_master,
                     nreq, lost>>
  BY <1>1, AtDeviceTake DEF DeviceAccess
<1>3. /\ by \in Callers /\ call[by] = "recv"
      /\ by = "main" => mpc \in Accessing
      /\ op = "slave_on" => by = "main" /\ mpc = 2
      /\ op = "cpu_on" => by = "main" /\ mpc = 6
      /\ by = "main" /\ mpc = 8 => op = "cpu_off"
  BY <1>1, AtMaster
<1>4. /\ toDev' \in Seq(ToDevPackets)
      /\ \A k \in 1..Len(toDev') : /\ k + 1 \in 1..Len(toDev)
                                   /\ toDev'[k] = toDev[k + 1]
      /\ Count(toDev, "master") = Count(toDev', "master") + 1
      /\ Count(toDev', "master") \in Nat
      /\ Count(toDev', "slave") = Count(toDev, "slave")
  BY <1>1, <1>2, AtDeviceTake
<1>5. /\ Response(by) \in ToHostPackets
      /\ Response(by).to = "mbuf" /\ Response(by).by = by
  BY <1>3 DEF Response, ToHostPackets
<1>6. /\ toHost' \in Seq(ToHostPackets)
      /\ \A k \in 1..Len(toHost') :
           \/ k \in 1..Len(toHost) /\ toHost'[k] = toHost[k]
           \/ toHost'[k] = Response(by)
      /\ Count(toHost', "mbuf") = Count(toHost, "mbuf") + 1
      /\ Count(toHost', "slave") = Count(toHost, "slave")
  <2>1. toHost \in Seq(ToHostPackets)
    BY PacketTypes DEF IInv
  <2>2. /\ One(Response(by).to = "mbuf") = 1
        /\ One(Response(by).to = "slave") = 0
    BY <1>5 DEF One
  <2> HIDE DEF by
  <2> QED BY <2>1, <2>2, <1>2, <1>5, PutOn, Numbers DEF IInv
<1> HIDE DEF by, op
<1>7. /\ slave_en' => slave_en \/ mpc = 2
      /\ cpu_run' => cpu_run \/ mpc = 6
      /\ by = "main" /\ mpc = 8 => ~cpu_run'
      /\ slave_en' \in BOOLEAN /\ cpu_run' \in BOOLEAN
  BY <1>2, <1>3, Flags DEF IInv
<1>8. TypeOK'
  <2>1. UNCHANGED <<setup, procVars, globVars, thrVars, host_slave, by_master,
                    nreq, lost>>
    BY <1>2
  <2> QED BY <2>1, <1>4, <1>6, <1>7
          DEF IInv, TypeOK, ToDevPackets, ToHostPackets, procVars, globVars,
             thrVars
<1>9. Calls'
  BY <1>2 DEF IInv, Calls, globVars, thrVars
<1>10. Owned'
  BY <1>2, <1>3, <1>4, <1>5, <1>6 DEF IInv, Owned, Operation, globVars, thrVars
<1>11. Outstanding'
  <2>1. Out' = Out
    BY <1>2, <1>4, <1>6, Numbers, SMTT(30) DEF IInv, Out, One, globVars
  <2> QED BY <2>1, <1>2 DEF IInv, Outstanding, Waiting, thrVars
<1>12. Conserved' /\ Carried'
  BY <1>2, <1>4, <1>5, <1>6
     DEF IInv, Conserved, Held, Brought, Taken, Carried, globVars, thrVars
<1>13. Progress'
  <2>1. Answered' => Answered \/ by = "main"
    BY <1>2, <1>5, <1>6 DEF Answered, globVars
  <2>2. mpc = 8 /\ Answered' => ~cpu_run'
    BY <2>1, <1>7 DEF IInv, Progress
  <2> QED BY <2>2, <1>2, <1>6, <1>7 DEF IInv, Progress, globVars, thrVars
<1>14. Interrupts' /\ FirstInterruptGraceful' /\ CrashOnlyInCleanup'
  BY <1>1, <1>2, <1>4 DEF IInv, Interrupts, Unhandled, FirstInterruptGraceful,
                          CrashOnlyInCleanup, procVars, thrVars
<1> QED BY <1>8, <1>9, <1>10, <1>11, <1>12, <1>13, <1>14 DEF IInv

\* A transaction is forwarded when no other is anywhere.
LEMMA ForwardStep ==
  ASSUME IInv, Unplugged, DeviceForward \/ CpuAccess
  PROVE  IInv'
<1>1. /\ process = "running" /\ host_slave = None /\ slave_en
      /\ nreq < MaxRequest /\ ~lost
      /\ nreq' = nreq + 1 /\ host_slave' = nreq + 1
      /\ toHost' = Append(toHost, Transaction(nreq + 1))
      /\ UNCHANGED <<setup, procVars, globVars, thrVars, slave_en, cpu_run,
                     lost>>
  BY DEF DeviceForward, CpuAccess, Forward, AtDevice, Running
<1>2. mpc \in Nat /\ mpc >= 2 /\ nreq \in Nat
  BY <1>1, Numbers, StepOf, SMTT(30) DEF IInv, Progress, TypeOK
<1>3. \/ by_master' = TRUE /\ AtDevice("master") /\ toDev[1].op = "plugin"
         /\ toDev' = Tail(toDev)
      \/ by_master' = FALSE /\ cpu_run /\ toDev' = toDev
  BY AtDeviceTake DEF DeviceForward, CpuAccess, Forward
<1>4. /\ by_master' => /\ call["main"] = "recv" /\ mpc \in {3, 4}
                        /\ setup.load = "plugin"
      /\ ~by_master' => mpc > 5
  BY <1>3, <1>2, AtMaster DEF IInv, Progress
<1>5. /\ toDev' \in Seq(ToDevPackets)
      /\ \A k \in 1..Len(toDev') :
           \/ k \in 1..Len(toDev) /\ toDev'[k] = toDev[k]
           \/ k + 1 \in 1..Len(toDev) /\ toDev'[k] = toDev[k + 1]
      /\ by_master' => Count(toDev, "master") = Count(toDev', "master") + 1
      /\ ~by_master' => Count(toDev, "master") = Count(toDev', "master")
      /\ Count(toDev', "master") \in Nat
      /\ Count(toDev', "slave") = Count(toDev, "slave")
  BY <1>3, AtDeviceTake, PacketTypes, Numbers DEF IInv
<1>6. /\ Transaction(nreq + 1) \in ToHostPackets
      /\ Transaction(nreq + 1).to = "slave"
      /\ Transaction(nreq + 1).id = nreq + 1
  BY <1>1, Numbers DEF IInv, Transaction, ToHostPackets, Requests
<1>7. /\ toHost' \in Seq(ToHostPackets)
      /\ \A k \in 1..Len(toHost') :
           \/ k \in 1..Len(toHost) /\ toHost'[k] = toHost[k]
           \/ toHost'[k] = Transaction(nreq + 1)
      /\ Count(toHost', "slave") = Count(toHost, "slave") + 1
      /\ Count(toHost', "mbuf") = Count(toHost, "mbuf")
  <2>1. toHost \in Seq(ToHostPackets)
    BY PacketTypes DEF IInv
  <2>2. /\ One(Transaction(nreq + 1).to = "slave") = 1
        /\ One(Transaction(nreq + 1).to = "mbuf") = 0
    BY <1>6 DEF One
  <2> QED BY <2>1, <2>2, <1>1, <1>6, PutOn, Numbers DEF IInv
<1>8. /\ Count(toHost, "slave") = 0 /\ Count(toDev, "slave") = 0
      /\ lpc # "unlock" /\ ~Brought /\ ~Taken
  BY <1>1, Numbers DEF IInv, Conserved, Held, One
<1>9. \A k \in 1..Len(toHost) : toHost[k].to # "slave"
  BY <1>8, CountZero, PacketTypes DEF IInv
<1>10. TypeOK'
  <2>1. nreq' \in Requests /\ host_slave' \in Requests
    BY <1>1, Numbers DEF IInv, Requests
  <2>2. by_master' \in BOOLEAN
    BY <1>3
  <2> QED BY <2>1, <2>2, <1>1, <1>5, <1>7
          DEF IInv, TypeOK, ToDevPackets, ToHostPackets, procVars, globVars,
             thrVars
<1>11. Calls'
  BY <1>1 DEF IInv, Calls, globVars, thrVars
<1>12. Owned'
  <2>1. \A k \in 1..Len(toHost') :
          toHost'[k].to = "mbuf" => /\ k \in 1..Len(toHost)
                                    /\ toHost'[k] = toHost[k]
    BY <1>6, <1>7
  <2>2. \A k \in 1..Len(toDev') :
          \E j \in 1..Len(toDev) : toDev'[k] = toDev[j]
    BY <1>5
  <2>3. /\ call' = call /\ mbuf' = mbuf /\ mpc' = mpc
        /\ \A t : Operation(t)' = Operation(t)
    BY <1>1 DEF Operation, globVars, thrVars
  <2>4. \A k \in 1..Len(toDev') :
          toDev'[k].to = "master" =>
            /\ call[toDev'[k].by] = "recv"
            /\ toDev'[k].op = Operation(toDev'[k].by)
    BY <2>2 DEF IInv, Owned
  <2>5. \A k \in 1..Len(toHost') :
          toHost'[k].to = "mbuf" => call[toHost'[k].by] = "recv"
    BY <2>1 DEF IInv, Owned
  <2> QED BY <2>3, <2>4, <2>5, <1>4 DEF IInv, Owned
<1>13. Outstanding'
  <2>1. /\ One(host_slave # None /\ by_master) = 0
        /\ One(host_slave # None /\ by_master)' = One(by_master')
    BY <1>1, <1>2 DEF One, None
  <2>2. /\ by_master' => One(by_master') = 1
        /\ ~by_master' => One(by_master') = 0
    BY DEF One
  <2>3. /\ Len(mbuf') = Len(mbuf) /\ Len(mbuf) \in Nat
        /\ Count(toHost', "mbuf") = Count(toHost, "mbuf")
        /\ Count(toHost, "mbuf") \in Nat /\ Count(toDev', "master") \in Nat
    BY <1>1, <1>5, <1>7, Numbers DEF IInv, globVars
  <2>4. Out' = Out
    BY <2>1, <2>2, <2>3, <1>5 DEF Out
  <2> QED BY <2>4, <1>1 DEF IInv, Outstanding, Waiting, thrVars
<1>14. Conserved'
  <2>1. lpc' # "unlock" /\ ~Brought' /\ ~Taken'
    BY <1>1, <1>8 DEF Brought, Taken, globVars, thrVars
  <2>2. Held' = 1 /\ One(host_slave # None)' = 1
    BY <2>1, <1>1, <1>2, <1>5, <1>7, <1>8 DEF Held, One, None
  <2> QED BY <2>2 DEF Conserved
<1>15. Carried'
  <2>1. lpc' # "unlock" /\ ~Brought' /\ ~Taken'
    BY <1>1, <1>8 DEF Brought, Taken, globVars, thrVars
  <2> QED BY <2>1, <1>1, <1>6, <1>7, <1>9 DEF Carried
<1>16. Progress'
  <2>1. Answered' => Answered
    BY <1>1, <1>6, <1>7 DEF Answered, globVars
  <2> QED BY <2>1, <1>1, <1>2 DEF IInv, Progress, globVars, thrVars
<1>17. Interrupts'
  <2>1. raised <= nreq'
    BY <1>1, Numbers DEF IInv, Interrupts, One
  <2>2. nreq' > 0 /\ raised \in Nat /\ nreq' \in Nat
    BY <1>1, <1>2, Numbers DEF IInv
  <2> QED BY <2>1, <2>2, <1>1, <1>4 DEF IInv, Interrupts, One, procVars,
     thrVars
<1>18. FirstInterruptGraceful' /\ CrashOnlyInCleanup'
  BY <1>1 DEF FirstInterruptGraceful, CrashOnlyInCleanup, procVars
<1> QED BY <1>10, <1>11, <1>12, <1>13, <1>14, <1>15, <1>16, <1>17, <1>18
   DEF IInv

\* The answered transaction was the only one; main's access ends with it.
LEMMA DeviceReplyStep ==
  ASSUME IInv, Unplugged, DeviceReply
  PROVE  IInv'
<1>1. /\ AtDevice("slave") /\ process = "running" /\ ~lost
      /\ toDev' = Tail(toDev) /\ host_slave' = None
      /\ toHost' = IF by_master THEN Append(toHost, Response("main"))
                                ELSE toHost
      /\ UNCHANGED <<setup, procVars, globVars, thrVars, slave_en, cpu_run,
                     by_master, nreq, lost>>
  BY AtDeviceTake DEF DeviceReply
<1>2. /\ toDev' \in Seq(ToDevPackets)
      /\ \A k \in 1..Len(toDev') : /\ k + 1 \in 1..Len(toDev)
                                   /\ toDev'[k] = toDev[k + 1]
      /\ Count(toDev, "slave") = Count(toDev', "slave") + 1
      /\ Count(toDev', "slave") \in Nat
      /\ Count(toDev', "master") = Count(toDev, "master")
  BY <1>1, AtDeviceTake
<1>3. /\ host_slave # None
      /\ Count(toDev', "slave") = 0 /\ Count(toHost, "slave") = 0
      /\ lpc # "unlock" /\ ~Brought /\ ~Taken
  <2>1. Held <= One(host_slave # None)
    BY <1>1 DEF IInv, Conserved
  <2> QED BY <2>1, <1>2, Numbers, SMTT(30) DEF IInv, Held, One
<1>4. \A k \in 1..Len(toHost) : toHost[k].to # "slave"
  BY <1>3, CountZero, PacketTypes DEF IInv
<1>5. /\ Response("main") \in ToHostPackets
      /\ Response("main").to = "mbuf" /\ Response("main").by = "main"
  BY DEF Response, ToHostPackets, Callers
<1>6. /\ toHost' \in Seq(ToHostPackets)
      /\ \A k \in 1..Len(toHost') :
           \/ k \in 1..Len(toHost) /\ toHost'[k] = toHost[k]
           \/ by_master /\ toHost'[k] = Response("main")
      /\ by_master => Count(toHost', "mbuf") = Count(toHost, "mbuf") + 1
      /\ ~by_master => Count(toHost', "mbuf") = Count(toHost, "mbuf")
      /\ Count(toHost', "slave") = Count(toHost, "slave")
  <2>1. toHost \in Seq(ToHostPackets)
    BY PacketTypes DEF IInv
  <2>2. /\ One(Response("main").to = "mbuf") = 1
        /\ One(Response("main").to = "slave") = 0
    BY <1>5 DEF One
  <2>3. CASE by_master
    <3>1. toHost' = Append(toHost, Response("main"))
      BY <2>3, <1>1
    <3> QED BY <3>1, <2>1, <2>2, <2>3, <1>5, PutOn, Numbers DEF IInv
  <2>4. CASE ~by_master
    BY <2>1, <2>4, <1>1
  <2> QED BY <2>3, <2>4
<1>7. by_master => call["main"] = "recv" /\ mpc \in {3, 4}
  BY <1>3 DEF IInv, Owned
<1>8. TypeOK'
  BY <1>1, <1>2, <1>6
     DEF IInv, TypeOK, ToDevPackets, ToHostPackets, procVars, globVars, thrVars
<1>9. Calls'
  BY <1>1 DEF IInv, Calls, globVars, thrVars
<1>10. Owned'
  BY <1>1, <1>2, <1>5, <1>6, <1>7 DEF IInv, Owned, Operation, globVars, thrVars
<1>11. Outstanding'
  <2>1. /\ by_master => One(host_slave # None /\ by_master) = 1
        /\ ~by_master => One(host_slave # None /\ by_master) = 0
        /\ One(host_slave # None /\ by_master)' = 0
    BY <1>1, <1>3 DEF One
  <2>2. /\ Len(mbuf') = Len(mbuf) /\ Len(mbuf) \in Nat
        /\ Count(toHost, "mbuf") \in Nat /\ Count(toDev, "master") \in Nat
    BY <1>1, Numbers DEF IInv, globVars
  <2>3. Out' = Out
    BY <2>1, <2>2, <1>2, <1>6 DEF Out
  <2> QED BY <2>3, <1>1 DEF IInv, Outstanding, Waiting, thrVars
<1>12. lpc' # "unlock" /\ ~Brought' /\ ~Taken'
  BY <1>1, <1>3 DEF Brought, Taken, globVars, thrVars
<1>13. Conserved'
  BY <1>1, <1>2, <1>3, <1>6, <1>12 DEF Conserved, Held, One
<1>14. Carried'
  BY <1>1, <1>4, <1>5, <1>6, <1>12 DEF Carried
<1>15. Progress'
  <2>1. Answered' => Answered \/ mpc \in {3, 4}
    BY <1>1, <1>6, <1>7 DEF Answered, globVars
  <2> QED BY <2>1, <1>1, <1>6 DEF IInv, Progress, globVars, thrVars
<1>16. Interrupts' /\ FirstInterruptGraceful' /\ CrashOnlyInCleanup'
  BY <1>1 DEF IInv, Interrupts, Unhandled, FirstInterruptGraceful,
              CrashOnlyInCleanup, procVars, thrVars
<1> QED BY <1>8, <1>9, <1>10, <1>11, <1>13, <1>14, <1>15, <1>16 DEF IInv

\* What was on its way is gone.
LEMMA DeviceLostStep ==
  ASSUME IInv, DeviceLost
  PROVE  IInv'
<1>1. /\ process = "running" /\ ~lost /\ lost' = TRUE
      /\ toDev' = <<>> /\ toHost' = <<>>
      /\ UNCHANGED <<setup, procVars, globVars, thrVars, slave_en, cpu_run,
                     host_slave, by_master, nreq>>
  BY DEF DeviceLost, Running
<1>2. \A to : Count(toDev', to) = 0 /\ Count(toHost', to) = 0
  BY <1>1, CountEmpty
<1>3. TypeOK'
  <2>1. toDev' \in Seq(ToDevPackets) /\ toHost' \in Seq(ToHostPackets)
    BY <1>1
  <2> QED BY <2>1, <1>1
          DEF IInv, TypeOK, ToDevPackets, ToHostPackets, procVars, globVars,
             thrVars
<1>4. Calls' /\ Owned'
  BY <1>1 DEF IInv, Calls, Owned, globVars, thrVars
<1>5. Outstanding'
  <2>1. Out' <= Out
    BY <1>1, <1>2, Numbers DEF IInv, Out, One, globVars
  <2>2. Out \in Nat /\ Out' \in Nat
    BY <1>1, <1>2, Numbers DEF IInv, Out, One, globVars
  <2>3. /\ Out <= One(Waiting) /\ One(Waiting) \in Nat
        /\ One(Waiting') = One(Waiting)
    BY <1>1 DEF IInv, Outstanding, One, Waiting, thrVars
  <2> QED BY <2>1, <2>2, <2>3, <1>1 DEF Outstanding
<1>6. Conserved' /\ Carried'
  BY <1>1 DEF Conserved, Carried
<1>7. Progress'
  <2>1. Answered' => Answered
    BY <1>1 DEF Answered, globVars
  <2> QED BY <2>1, <1>1, <1>2 DEF IInv, Progress, globVars, thrVars
<1>8. Interrupts'
  BY <1>1, Numbers DEF IInv, Interrupts, One, procVars, thrVars
<1>9. FirstInterruptGraceful' /\ CrashOnlyInCleanup'
  BY <1>1 DEF FirstInterruptGraceful, CrashOnlyInCleanup, procVars
<1> QED BY <1>3, <1>4, <1>5, <1>6, <1>7, <1>8, <1>9 DEF IInv

-----------------------------------------------------------------------------
(* The invariant, and what follows from it.                                *)

\* The invariant holds at the start ...
LEMMA InitIInv == Init => IInv /\ Unplugged
<1> SUFFICES ASSUME Init PROVE IInv /\ Unplugged
  OBVIOUS
<1> USE DEF Init
<1>1. \A to : Count(toDev, to) = 0 /\ Count(toHost, to) = 0
  BY CountEmpty
<1>2. /\ call \in [Callers -> {"none", "lock", "send", "recv"}]
      /\ call["main"] = "none" /\ call["slave"] = "none"
  BY DEF Callers
<1>3. TypeOK
  <2>1. /\ mbuf \in Seq(Callers) /\ toDev \in Seq(ToDevPackets)
        /\ toHost \in Seq(ToHostPackets)
    OBVIOUS
  <2>2. mpc \in PC /\ raised \in 0..(MaxRequest + 2)
    BY StepOf, MaxRequestAssumption
  <2> QED BY <2>1, <2>2, <1>2 DEF TypeOK, ToDevPackets, ToHostPackets
<1>4. Calls /\ Owned
  BY <1>2 DEF Calls, Owned, Callers
<1>5. ~Waiting /\ Out = 0 /\ Held = 0
  BY <1>1, <1>2 DEF Waiting, Out, Held, Brought, Taken, Serving, One, Callers
<1>6. Outstanding /\ Conserved /\ Carried
  BY <1>5 DEF Outstanding, Conserved, Carried, One, Brought, Taken, Serving
<1>7. Progress /\ Interrupts
  BY <1>1 DEF Progress, Answered, Serving, Interrupts, Unhandled, One
<1>8. FirstInterruptGraceful /\ CrashOnlyInCleanup /\ Unplugged
  BY DEF FirstInterruptGraceful, CrashOnlyInCleanup, Unplugged
<1> QED BY <1>3, <1>4, <1>6, <1>7, <1>8 DEF IInv

\* ... is kept when nothing happens ...
LEMMA StutterIInv == ASSUME IInv, UNCHANGED vars PROVE IInv'
<1> USE DEF vars, procVars, globVars, thrVars, devVars
<1>1. TypeOK'
  BY DEF IInv, TypeOK
<1>2. Calls' /\ Owned' /\ Outstanding'
  BY DEF IInv, Calls, Owned, Operation, Outstanding, Out, Waiting
<1>3. Conserved' /\ Carried' /\ Progress'
  BY DEF IInv, Conserved, Held, Brought, Taken, Carried, Progress, Answered
<1>4. Interrupts' /\ FirstInterruptGraceful' /\ CrashOnlyInCleanup'
  BY DEF IInv, Interrupts, Unhandled, FirstInterruptGraceful,
     CrashOnlyInCleanup,
         Past
<1> QED BY <1>1, <1>2, <1>3, <1>4 DEF IInv

\* ... and by every step.
LEMMA NextIInv == IInv /\ Unplugged /\ [Next]_vars => IInv'
<1> SUFFICES ASSUME IInv, Unplugged, [Next]_vars PROVE IInv'
  OBVIOUS
<1>1. CASE UNCHANGED vars
  BY <1>1, StutterIInv
<1>2. CASE Main
  BY <1>2, MainAccessStep, MainMoves
<1>3. ASSUME NEW t \in Callers, Api(t) PROVE IInv'
  BY <1>3, ApiLockStep, ApiSendStep, ApiRecvStep DEF Api
<1>4. CASE UserInterrupt \/ Deliver
  BY <1>4, UserInterruptStep, DeliverStep
<1>5. CASE Listen
  BY <1>5, ListenMasterStep, ListenSlaveStep, ListenUnlockStep DEF Listen
<1>6. CASE Slave
  BY <1>6, SlaveStartStep, SlaveCallStep, SlaveHandlerStep, SlaveReplyStep
     DEF Slave
<1>7. CASE Device \/ CpuAccess
  BY <1>7, DeviceAccessStep, ForwardStep, DeviceReplyStep DEF Device
<1>8. CASE DeviceLost
  BY <1>8, DeviceLostStep
<1> QED BY <1>1, <1>2, <1>3, <1>4, <1>5, <1>6, <1>7, <1>8 DEF Next

\* The inductive invariant holds in every reachable state.
LEMMA Invariance == Spec => [](IInv /\ Unplugged)
<1>1. IInv /\ Unplugged /\ [Next]_vars => (IInv /\ Unplugged)'
  BY NextIInv, UnpluggedStep
<1> QED BY <1>1, InitIInv, PTL DEF Spec

\* Every variable of the model has its type, in every reachable state.
THEOREM TypeCorrect == Spec => []TypeOK
<1>1. IInv => TypeOK
  BY DEF IInv
<1> QED BY <1>1, Invariance, PTL

\* The one buffer slave_pkt and the mutex slave_lock, which the listen thread
\* unlocks and the slave thread locks, are enough to hand every transaction
\* over: none is lost, doubled or overwritten (flexsoc.cpp:128, 187-191).
THEOREM Conservation == Spec => []RequestConserved
<1>1. ASSUME IInv PROVE RequestConserved
  <2>1. SUFFICES ASSUME ~kill_thread, ~lost
                 PROVE  /\ Places <= One(host_slave # None)
                        /\ host_slave # None /\ ~Past("unregister") =>
                             Places = 1
    BY DEF RequestConserved
  <2>2. (Brought <=> slave_free) /\ (Taken <=> spc \notin {"wait", "done"})
    BY <1>1, <2>1 DEF IInv, TypeOK, Brought, Taken, Serving
  <2>3. Places = Held
    <3>1. /\ One(Brought) = One(slave_free)
          /\ One(Taken) = One(spc \notin {"wait", "done"})
      BY <2>2 DEF One
    <3> QED BY <3>1 DEF Places, Held
  <2>4. ~Past("unregister") => mpc <= 13
    <3>1. mpc \in 1..19
      BY <1>1, StepOf DEF IInv, TypeOK
    <3>2. mpc > 13 => 13 \in 1..(mpc - 1)
      BY <3>1
    <3> QED BY <3>1, <3>2, Steps DEF Past
  <2> QED BY <2>1, <2>3, <2>4, <1>1 DEF IInv, Conserved
<1> QED BY <1>1, Invariance, PTL

\* The plugin's method always runs on the transaction the bus waits for
\* (flexsoc.cpp:136), although slave_pkt is written outside any lock.
THEOREM Serves == Spec => []HandlerServesPending
<1>1. ASSUME IInv PROVE HandlerServesPending
  BY <1>1 DEF IInv, Carried, Taken, Serving, HandlerServesPending
<1> QED BY <1>1, Invariance, PTL

\* A response reaches the caller whose request it answers, although it carries
\* no name: of main and the slave thread one at a time is between its request
\* and the end of flexsoc_recv (flexsoc.cpp, api_lock), and the host master
\* owes that one exactly one response.
THEOREM ToOwner == Spec => []ResponseToOwner
<1>1. ASSUME IInv PROVE ResponseToOwner
  <2> DEFINE waiting == {t \in Callers : call[t] = "recv"}
  <2>1. SUFFICES ASSUME ~lost
                 PROVE  /\ \A k \in 1..Len(mbuf) : mbuf[k] \in waiting
                        /\ \A k \in 1..Len(toHost) :
                             toHost[k].to = "mbuf" => toHost[k].by \in waiting
                        /\ \A t \in waiting : Out = 1
    BY DEF ResponseToOwner, Out
  <2>2. /\ \A k \in 1..Len(mbuf) : mbuf[k] \in Callers
        /\ \A k \in 1..Len(toHost) :
             toHost[k].to = "mbuf" => toHost[k].by \in Callers
    BY <1>1 DEF IInv, TypeOK
  <2>3. \A t \in waiting : Out = 1
    BY <1>1, <2>1 DEF IInv, Outstanding, Waiting, One
  <2> QED BY <2>2, <2>3, <1>1 DEF IInv, Owned
<1> QED BY <1>1, Invariance, PTL

\* A single SIGINT kills the command only before the handler is installed, with
\* the CPU still in reset (flexsoc_cm3.cpp:189, 194); from there on it leads to
\* cleanup.
THEOREM Graceful == Spec => []FirstInterruptGraceful
<1>1. IInv => FirstInterruptGraceful
  BY DEF IInv
<1> QED BY <1>1, Invariance, PTL

\* The slave thread uses a cleared recv_cb or a deleted PluginTarget only at
\* the end, with the callback unregistered and the CPU in reset
\* (flexsoc.cpp:135, sysmap_parse.cpp:293).
THEOREM CrashAtEnd == Spec => []CrashOnlyInCleanup
<1>1. IInv => CrashOnlyInCleanup
  BY DEF IInv
<1> QED BY <1>1, Invariance, PTL
=============================================================================
