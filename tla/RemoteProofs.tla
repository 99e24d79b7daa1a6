---------------------------- MODULE RemoteProofs ----------------------------
(***************************************************************************)
(* remote_open and remote_close, for every divisor, polling limit, number  *)
(* of APs and target: success is reported, and the bus bridge switched on, *)
(* only when the port is up; and when no access was given up the bridge is *)
(* configured for the last MEM-AP of the list, the only AP written.        *)
(*                                                                         *)
(* The host does not see when the bridge performs a command, so the        *)
(* invariant is not about todo and value but about what is left to be      *)
(* performed (Left) and what the access under way will return (Result):    *)
(* the host's own steps leave both alone.  As long as no access is given   *)
(* up, Left is the rest of the accesses of the current place (Script), and *)
(* each one performed adds what it did to what is known (Effect).          *)
(***************************************************************************)
EXTENDS Remote, SequenceTheorems, TLAPS

Places == {"connect", "idcode", "check", "power", "scan", "idr", "chosen",
           "halt", "halting", "size", "fixed", "fail_ahb", "fail_en", "open",
           "close_ahb", "close_en", "closed"}
APs == 0..Keep
APRegs == {"IDR", "CSW", "TAR", "DRW"}
Sizes == {"word", "byte"}

\* The accesses that remote_open makes: the request to power up, and the others.
PowerUpRequest == Wr("DP", "CTLSTAT", "asked")
Quiet ==
  {Select(a, r) : a \in APs, r \in APRegs}
  \cup {Rd("DP", "CTLSTAT"), Rd("DP", "RDBUFF"),
        Rd("AP", "IDR"), Rd("AP", "CSW"), Rd("AP", "DRW"),
        Wr("AP", "CSW", "word"), Wr("AP", "CSW", "byte"),
        Wr("AP", "TAR", "SCB_DHCSR"), Wr("AP", "DRW", "DEBUG_HALT")}
Accesses == Quiet \cup {PowerUpRequest}

\* The registers of the target.
Registers == [sel : [ap : APs, reg : APRegs], power : Powers,
              rdbuff : Kinds \cup Sizes \cup {"zero"}, csw : [APs -> Sizes],
              tar : [APs -> {"zero", "SCB_DHCSR"}], halted : BOOLEAN]

Types ==
  /\ target \in Targets /\ halt \in BOOLEAN
  /\ pc \in Places /\ rv \in {"none", "success", "error"}
  /\ div \in Divs \cup 0..NoLink /\ n \in 0..Polls /\ i \in 0..NumAP
  /\ memap \in APs /\ apsel \in APs
  /\ todo \in Seq(Accesses)
  /\ wait \in 0..NotStarted /\ (wait # NotStarted => todo # <<>>)
  /\ brg \in BridgeRegs
  /\ cmd \in Accesses \cup {NoCommand}
  /\ dp \in Registers
  /\ touched \subseteq APs /\ expired \in BOOLEAN

-----------------------------------------------------------------------------
(* The bridge is on only when the port is up.                              *)

\* The places where accesses are under way, and those after the port answered.
Accessing == {"power", "idr", "halt", "halting", "fixed"}
Powered == {"scan", "idr", "chosen", "halt", "halting", "size", "fixed", "open"}

\* The locals of remote_open are in range at each place.
Locals ==
  /\ pc \notin Accessing => todo = <<>>
  /\ pc \in {"idcode", "check"} => div <= MaxDiv
  /\ pc = "idcode" => n >= 1
  /\ pc = "idr" => i < NumAP

\* What was read as "acked" is.
Asked ==
  /\ value = "acked" => dp.power = "acked"
  /\ dato = "acked" => dp.power = "acked"

\* The control registers of the bridge follow the place, but for what was on
\* before.
Bridge ==
  /\ pc = "connect" => (brg.en => target.brg.en)
  /\ pc \in Powered \cup {"power"} => brg.en /\ div >= target.link
  /\ pc \in Powered => dp.power = "acked"
  /\ pc = "check" /\ value = "arm" => div >= target.link
  /\ pc \in {"idcode", "check"} => brg.en
  /\ brg.ahb => \/ target.brg.ahb
                \/ pc = "close_ahb" /\ brg.en /\ rv = "success"
  /\ pc \in {"fail_en", "close_en", "closed"} => ~brg.ahb
  /\ pc = "closed" => ~brg.en
  /\ rv = "success" => /\ pc \in {"open", "close_ahb", "close_en", "closed"}
                       /\ div >= target.link /\ dp.power = "acked"
  /\ pc = "open" => rv = "success"
  /\ rv = "error" => /\ pc \in {"close_ahb", "close_en", "closed"}
                     /\ brg.en => target.brg.en /\ div > MaxDiv
                     /\ brg.ahb => target.brg.ahb /\ div > MaxDiv

Upward == Types /\ Locals /\ Asked /\ Bridge

-----------------------------------------------------------------------------
(* The AP chosen is configured, when no access was given up.               *)

\* What is still to be performed, and what the access under way returns.
Performed == wait # NotStarted /\ cmd = NoCommand
Left == IF Performed THEN Tail(todo) ELSE todo
Result == IF Performed /\ Head(todo).op = "read" THEN dato ELSE value

\* The accesses of a place after the scan began.
Script(p, a) ==
  CASE p = "idr"     -> APRead(a, "IDR")
    [] p = "halt"    -> APWrite(a, "CSW", "word")
    [] p = "halting" -> APWrite(a, "TAR", "SCB_DHCSR")
                        \o APWrite(a, "DRW", "DEBUG_HALT") \o APRead(a, "DRW")
    [] p = "fixed"   -> APWrite(a, "CSW", "byte") \o APRead(a, "CSW")
    [] OTHER         -> <<>>

\* All but the first k of s.
Rest(left, s, k) == /\ k \in 0..Len(s) /\ Len(left) = Len(s) - k
                    /\ \A j \in 1..Len(left) : left[j] = s[k + j]

\* What is known when k accesses of the place have been performed.
Selected(reg) == dp.sel = [ap |-> apsel, reg |-> reg]
Halted == target.halts => dp.halted
Effect(p, k) ==
  /\ p = "idr" => /\ k = 1 => Selected("IDR")
                  /\ k = 2 => dp.rdbuff = APValue(apsel, "IDR")
                  /\ k = 3 => Result = APValue(apsel, "IDR")
  /\ p = "halt" => (k = 1 => Selected("CSW"))
  /\ p = "halting" => /\ k = 1 => Selected("TAR")
                      /\ k \in {2, 3} => dp.tar[apsel] = "SCB_DHCSR"
                      /\ k = 3 => Selected("DRW")
                      /\ k >= 4 => Halted
  /\ p = "fixed" => /\ k = 1 => Selected("CSW")
                    /\ k >= 2 => dp.csw[apsel] = "byte"
                    /\ k = 3 => Selected("CSW")
                    /\ k = 4 => dp.rdbuff = APValue(apsel, "CSW")
                    /\ k = 5 => Result = APValue(apsel, "CSW")

\* The command under way is the first access of the list.
InTurn == cmd # NoCommand => /\ wait # NotStarted /\ todo # <<>>
                             /\ cmd = Head(todo)

\* The APs before index m are present, and memap is the last MEM-AP of them.
Scanned(m) ==
  /\ \A a \in 0..(m - 1) : target.aps[a] # "none"
  /\ \/ memap = Keep /\ \A a \in 0..(m - 1) : target.aps[a] # "mem"
     \/ /\ memap \in 0..(m - 1) /\ target.aps[memap] = "mem"
        /\ \A a \in (memap + 1)..(m - 1) : target.aps[a] # "mem"

Driving == {"halt", "halting", "size", "fixed", "open"}

\* The AP chosen, as the scan finds it and as it is passed on.
Found ==
  /\ pc \in {"connect", "idcode", "check", "power"} => i = 0 /\ memap = Keep
  /\ pc \in {"scan", "idr"} => Scanned(i)
  /\ pc = "idr" => apsel = i
  /\ pc \in Driving \cup {"chosen"} => memap = LastMemAP /\ memap \in MemAPs
  /\ pc \in Driving => apsel = memap
  /\ rv = "success" => brg.apsel = LastMemAP /\ brg.fixed = target.fixed

\* How far the accesses of the place are.
Progress ==
  /\ pc = "power" => \A k \in 1..Len(Left) : Left[k].port = "DP"
  /\ pc # "power" =>
       \E k \in 0..7 : Rest(Left, Script(pc, apsel), k) /\ Effect(pc, k)

Stopped ==
  pc \in {"size", "fixed", "open"} \/ rv = "success" => (halt => Halted)

Written ==
  /\ pc \in {"connect", "idcode", "check", "power", "scan", "idr", "chosen"} =>
       touched = {}
  /\ touched \subseteq {LastMemAP}

Choosing == InTurn /\ Found /\ Progress /\ Stopped /\ Written

Kept == Suitable /\ ~expired => Choosing

-----------------------------------------------------------------------------
(* The accesses.                                                           *)

\* Indexes and limits are numbers.
LEMMA Limits ==
  /\ MaxDiv \in Nat /\ NoLink \in Nat /\ NoLink = MaxDiv + 1
  /\ NumAP \in Nat /\ NumAP >= 2 /\ Keep \in Nat /\ Keep = NumAP - 1
  /\ Polls \in Nat /\ Polls >= 2 /\ Timeout \in Nat /\ Timeout >= 1
  /\ NotStarted \in Nat /\ NotStarted = Timeout + 1 /\ 0 \in APs /\ Keep \in APs
BY RemoteAssumption DEF NoLink, Keep, NotStarted, APs

\* The accesses, one kind at a time: what each is, and how they differ.
LEMMA AccessKinds ==
  ASSUME NEW c \in Accesses
  PROVE  /\ c.op \in {"read", "write"} /\ c.port \in {"DP", "AP"}
         /\ c # NoCommand
         /\ c \in Quiet <=> c # PowerUpRequest
         /\ c.op = "read" <=> c \in {Rd("DP", "CTLSTAT"), Rd("DP", "RDBUFF"),
              Rd("AP", "IDR"), Rd("AP", "CSW"), Rd("AP", "DRW")}
<1>1. CASE \E a \in APs, r \in APRegs : c = Select(a, r)
  BY <1>1 DEF Select, Rd, Wr, NoCommand, PowerUpRequest, Quiet
<1>2. CASE c \in {Rd("DP", "CTLSTAT"), Rd("DP", "RDBUFF"),
              Rd("AP", "IDR"), Rd("AP", "CSW"), Rd("AP", "DRW")}
  BY <1>2 DEF Rd, Wr, NoCommand, PowerUpRequest, Quiet
<1>3. CASE c \in {Wr("AP", "CSW", "word"), Wr("AP", "CSW", "byte"),
              Wr("AP", "TAR", "SCB_DHCSR"), Wr("AP", "DRW", "DEBUG_HALT")}
  BY <1>3 DEF Rd, Wr, NoCommand, PowerUpRequest, Quiet
<1>4. CASE c = PowerUpRequest
  <2>1. /\ c.op = "write" /\ c.port = "DP" /\ c.reg = "CTLSTAT"
        /\ c # NoCommand
    BY <1>4 DEF PowerUpRequest, Wr, NoCommand
  <2>2. \A a \in APs, r \in APRegs : c # Select(a, r)
    BY <2>1 DEF Select, Wr
  <2>3. c # Rd("DP", "CTLSTAT") /\ c # Rd("DP", "RDBUFF")
    BY <2>1 DEF Rd
  <2>4. /\ c # Rd("AP", "IDR") /\ c # Rd("AP", "CSW") /\ c # Rd("AP", "DRW")
        /\ c # Wr("AP", "CSW", "word") /\ c # Wr("AP", "CSW", "byte")
        /\ c # Wr("AP", "TAR", "SCB_DHCSR") /\ c # Wr("AP", "DRW", "DEBUG_HALT")
    BY <2>1 DEF Rd, Wr
  <2>5. c \notin Quiet
    BY <2>2, <2>3, <2>4 DEF Quiet
  <2> QED BY <1>4, <2>1, <2>3, <2>4, <2>5
<1> QED BY <1>1, <1>2, <1>3, <1>4 DEF Accesses, Quiet

\* The access lists of remote_open but the first do not ask for power.
LEMMA QuietLists ==
  ASSUME NEW a \in APs
  PROVE  /\ \A r \in {"IDR", "CSW", "DRW"} : APRead(a, r) \in Seq(Quiet)
         /\ \A v \in Sizes : APWrite(a, "CSW", v) \in Seq(Quiet)
         /\ APWrite(a, "TAR", "SCB_DHCSR") \in Seq(Quiet)
         /\ APWrite(a, "DRW", "DEBUG_HALT") \in Seq(Quiet)
         /\ \A s, t \in Seq(Quiet) : s \o t \in Seq(Quiet)
         /\ <<Rd("DP", "CTLSTAT")>> \in Seq(Quiet) /\ <<>> \in Seq(Quiet)
<1>1. /\ \A r \in APRegs : Select(a, r) \in Quiet
      /\ \A r \in {"IDR", "CSW", "DRW"} : Rd("AP", r) \in Quiet
      /\ Rd("DP", "RDBUFF") \in Quiet /\ Rd("DP", "CTLSTAT") \in Quiet
      /\ \A v \in Sizes : Wr("AP", "CSW", v) \in Quiet
      /\ Wr("AP", "TAR", "SCB_DHCSR") \in Quiet
      /\ Wr("AP", "DRW", "DEBUG_HALT") \in Quiet
  BY DEF Quiet, Sizes
<1>2. ASSUME NEW c \in Quiet, NEW d \in Quiet, NEW e \in Quiet
      PROVE  /\ <<c>> \in Seq(Quiet) /\ <<c, d>> \in Seq(Quiet)
             /\ <<c, d, e>> \in Seq(Quiet)
  OBVIOUS
<1>3. \A s, t \in Seq(Quiet) : s \o t \in Seq(Quiet)
  BY ConcatProperties
<1>4. \A r \in {"IDR", "CSW", "DRW"} : APRead(a, r) \in Seq(Quiet)
  BY <1>1, <1>2 DEF APRead, APRegs
<1>5. /\ \A v \in Sizes : APWrite(a, "CSW", v) \in Seq(Quiet)
      /\ APWrite(a, "TAR", "SCB_DHCSR") \in Seq(Quiet)
      /\ APWrite(a, "DRW", "DEBUG_HALT") \in Seq(Quiet)
  BY <1>1, <1>2 DEF APWrite, APRegs
<1> QED BY <1>1, <1>2, <1>3, <1>4, <1>5, EmptySeq

\* Nothing in such a list asks for power.
LEMMA QuietSeq ==
  ASSUME NEW s \in Seq(Quiet)
  PROVE  /\ s \in Seq(Accesses) /\ \A k \in 1..Len(s) : s[k] # PowerUpRequest
         /\ s # <<>> => Head(s) # PowerUpRequest
<1>1. \A k \in 1..Len(s) : s[k] \in Quiet
  BY ElementOfSeq
<1>2. ASSUME NEW c \in Quiet PROVE c \in Accesses /\ c # PowerUpRequest
  <2>1. c \in Accesses
    BY DEF Accesses
  <2> QED BY <2>1, AccessKinds
<1>3. s \in Seq(Accesses)
  BY <1>2 DEF Accesses
<1>4. s # <<>> => Head(s) \in Quiet
  BY HeadTailProperties
<1> QED BY <1>1, <1>2, <1>3, <1>4

\* What a command performed does to the registers, whatever is selected.
LEMMA PerformRegisters ==
  ASSUME Types, Perform
  PROVE  /\ dp' \in Registers /\ touched' \subseteq APs
         /\ cmd \in Accesses /\ cmd' = NoCommand
         /\ dp.power = "acked" => dp'.power = "acked"
         /\ dato' \in {dato, dp.rdbuff, dp.power}
         /\ UNCHANGED <<callVars, ctlVars, accVars, brg, expired>>
<1>1. /\ dp \in Registers /\ cmd \in Accesses /\ cmd # NoCommand
      /\ target \in Targets /\ touched \subseteq APs
      /\ cmd' = NoCommand
      /\ UNCHANGED <<callVars, ctlVars, accVars, brg, expired>>
  BY DEF Perform, Types
<1>2. dp.sel.ap \in APs /\ dp.sel.reg \in APRegs
  BY <1>1 DEF Registers
<1>3. CASE \E a \in APs, r \in APRegs : cmd = Select(a, r)
  <2>1. PICK a \in APs, r \in APRegs : cmd = Select(a, r)
    BY <1>3
  <2>2. /\ cmd.op = "write" /\ cmd.port = "DP" /\ cmd.reg = "SELECT"
        /\ cmd.val = [ap |-> a, reg |-> r] /\ cmd # PowerUpRequest
    BY <2>1 DEF Select, Wr, PowerUpRequest
  <2>3. dp' = [dp EXCEPT !.sel = cmd.val] /\ UNCHANGED <<dato, touched>>
    BY <2>2 DEF Perform, DPWrite
  <2>4. dp' \in Registers /\ dp'.power = dp.power
    BY <2>2, <2>3, <1>1 DEF Registers
  <2> QED BY <1>1, <2>2, <2>3, <2>4
<1>4. CASE cmd = PowerUpRequest
  <2>1. cmd.op = "write" /\ cmd.port = "DP" /\ cmd.reg = "CTLSTAT"
    BY <1>4 DEF Wr, PowerUpRequest
  <2> DEFINE v == IF dp.power = "off" THEN "asked" ELSE dp.power
  <2>2. dp' = [dp EXCEPT !.power = v] /\ UNCHANGED <<dato, touched>>
    BY <2>1 DEF Perform, DPWrite
  <2>3. v \in Powers /\ (dp.power = "acked" => v = "acked")
    BY <1>1 DEF Registers, Powers
  <2> HIDE DEF v
  <2>4. dp' \in Registers /\ dp'.power = v
    BY <2>2, <2>3, <1>1 DEF Registers
  <2> QED BY <1>1, <1>4, <2>2, <2>3, <2>4
<1>5. CASE cmd \in {Rd("DP", "CTLSTAT"), Rd("DP", "RDBUFF")}
  <2>1. cmd.op = "read" /\ cmd.port = "DP" /\ cmd # PowerUpRequest
    BY <1>5 DEF Rd, Wr, PowerUpRequest
  <2>2. /\ dato' = IF cmd.reg = "RDBUFF" THEN dp.rdbuff ELSE dp.power
        /\ UNCHANGED <<dp, touched>>
    BY <2>1 DEF Perform
  <2> QED BY <1>1, <2>1, <2>2
<1>6. CASE cmd \in {Rd("AP", "IDR"), Rd("AP", "CSW"), Rd("AP", "DRW")}
  <2>1. cmd.op = "read" /\ cmd.port = "AP" /\ cmd # PowerUpRequest
    BY <1>6 DEF Rd, Wr, PowerUpRequest
  <2> DEFINE v == APValue(dp.sel.ap, Reached(cmd.reg))
  <2>2. dp' = [dp EXCEPT !.rdbuff = v] /\ UNCHANGED <<dato, touched>>
    BY <2>1 DEF Perform
  <2>3. v \in Kinds \cup Sizes \cup {"zero"}
    <3>1. target.aps[dp.sel.ap] \in Kinds
      BY <1>1, <1>2, RemoteAssumption DEF APs, Keep
    <3>2. dp.csw[dp.sel.ap] \in Sizes
      BY <1>1, <1>2 DEF Registers
    <3> QED BY <3>1, <3>2 DEF APValue, Sizes
  <2> HIDE DEF v
  <2>4. dp' \in Registers /\ dp'.power = dp.power
    BY <2>2, <2>3, <1>1 DEF Registers
  <2> QED BY <1>1, <2>1, <2>2, <2>4
<1>7. CASE cmd \in {Wr("AP", "CSW", "word"), Wr("AP", "CSW", "byte"),
                    Wr("AP", "TAR", "SCB_DHCSR"), Wr("AP", "DRW", "DEBUG_HALT")}
  <2>1. /\ cmd.op = "write" /\ cmd.port = "AP" /\ cmd # PowerUpRequest
        /\ \/ cmd.reg = "CSW" /\ cmd.val \in Sizes
           \/ cmd.reg = "TAR" /\ cmd.val = "SCB_DHCSR"
           \/ cmd.reg = "DRW" /\ cmd.val = "DEBUG_HALT"
    BY <1>7 DEF Wr, PowerUpRequest, Sizes
  <2> DEFINE a == dp.sel.ap
             r == Reached(cmd.reg)
  <2>2. /\ APWritten(cmd, a, r) /\ touched' = touched \cup {a}
        /\ UNCHANGED dato
    BY <2>1 DEF Perform
  <2>3. r = cmd.reg \/ r \notin {"CSW", "TAR"}
    BY <2>1 DEF Reached, Low
  <2>4. dp' \in Registers /\ dp'.power = dp.power
    <3>1. CASE r = "CSW"
      <4>1. dp' = [dp EXCEPT !.csw[a] = cmd.val] /\ cmd.val \in Sizes
        BY <3>1, <2>1, <2>2, <2>3 DEF APWritten
      <4> QED BY <4>1, <1>1 DEF Registers
    <3>2. CASE r = "TAR"
      <4>1. dp' = [dp EXCEPT !.tar[a] = cmd.val] /\ cmd.val = "SCB_DHCSR"
        BY <3>2, <2>1, <2>2, <2>3 DEF APWritten
      <4> QED BY <4>1, <1>1 DEF Registers
    <3>3. CASE r \notin {"CSW", "TAR"}
      <4>1. dp' = dp \/ dp' = [dp EXCEPT !.halted = TRUE]
        BY <3>3, <2>2 DEF APWritten
      <4> QED BY <4>1, <1>1 DEF Registers
    <3> QED BY <3>1, <3>2, <3>3
  <2> QED BY <1>1, <1>2, <2>1, <2>2, <2>4
<1> QED BY <1>1, <1>3, <1>4, <1>5, <1>6, <1>7 DEF Accesses, Quiet

-----------------------------------------------------------------------------
(* The bridge is on only when the port is up: every step.                  *)

\* Starting, polling and finishing an access.
LEMMA AccessUp ==
  ASSUME Upward, Start \/ Poll \/ Finish
  PROVE  Upward'
<1>1. /\ todo \in Seq(Accesses) /\ wait \in 0..NotStarted
      /\ todo # <<>> /\ pc \in Accessing
      /\ UNCHANGED <<callVars, ctlVars, apsel, brg, dato, dp, touched>>
  <2>1. todo # <<>>
    BY DEF Start, Poll, Finish, Upward, Types
  <2> QED BY <2>1
          DEF Start, Poll, Finish, devVars, Upward, Types, Locals
<1>2. /\ Head(todo) \in Accesses /\ Tail(todo) \in Seq(Accesses)
      /\ Len(Tail(todo)) = Len(todo) - 1 /\ Len(todo) \in Nat
      /\ \A k \in 1..Len(Tail(todo)) : Tail(todo)[k] = todo[k + 1]
  BY <1>1, HeadTailProperties
<1>3. CASE Start
  <2>1. /\ cmd' = Head(todo) /\ wait' = Timeout /\ wait = NotStarted
        /\ UNCHANGED <<todo, value, expired>>
    BY <1>3 DEF Start
  <2>2. Types'
    BY <1>1, <1>2, <2>1, Limits DEF Upward, Types, callVars, ctlVars
  <2>3. Asked'
    BY <1>1, <2>1 DEF Upward, Asked
  <2>4. Locals' /\ Bridge'
    BY <1>1, <2>1 DEF Upward, Locals, Bridge, callVars, ctlVars
  <2> QED BY <2>2, <2>3, <2>4 DEF Upward
<1>4. CASE Poll
  <2>1. /\ wait' = wait - 1 /\ wait > 0 /\ wait # NotStarted
        /\ UNCHANGED <<todo, value, cmd, expired>>
    BY <1>4 DEF Poll, Waiting, devVars
  <2>2. wait' \in 0..NotStarted /\ wait' # NotStarted
    BY <1>1, <2>1, Limits
  <2>3. Types'
    BY <1>1, <2>1, <2>2 DEF Upward, Types, callVars, ctlVars
  <2>4. Asked'
    BY <1>1, <2>1 DEF Upward, Asked
  <2>5. Locals' /\ Bridge'
    BY <1>1, <2>1 DEF Upward, Locals, Bridge, callVars, ctlVars
  <2> QED BY <2>3, <2>4, <2>5 DEF Upward
<1>5. CASE Finish
  <2>1. /\ todo' = Tail(todo) /\ wait' = NotStarted
        /\ value' \in {value, dato, "zero"} /\ expired' = (expired \/ wait = 0)
        /\ UNCHANGED cmd
    BY <1>5 DEF Finish, devVars
  <2>2. Types'
    BY <1>1, <1>2, <2>1, Limits DEF Upward, Types, callVars, ctlVars
  <2>3. Asked'
    BY <1>1, <2>1 DEF Upward, Asked
  <2>4. Locals' /\ Bridge'
    BY <1>1, <2>1
       DEF Upward, Locals, Bridge, callVars, ctlVars, Accessing, Powered
  <2> QED BY <2>2, <2>3, <2>4 DEF Upward
<1> QED BY <1>3, <1>4, <1>5

\* The bridge performs a command; the target powers up.
LEMMA TargetUp ==
  ASSUME Upward, Perform \/ PowerUp
  PROVE  Upward'
<1>1. CASE Perform
  <2>1. /\ dp' \in Registers /\ touched' \subseteq APs
        /\ cmd \in Accesses /\ cmd' = NoCommand /\ cmd # NoCommand
        /\ dp.power = "acked" => dp'.power = "acked"
        /\ dato' \in {dato, dp.rdbuff, dp.power}
        /\ UNCHANGED <<callVars, ctlVars, accVars, brg, expired>>
    BY <1>1, PerformRegisters DEF Upward, Perform
  <2>2. dp.rdbuff # "acked"
    BY DEF Upward, Types, Registers, Kinds, Sizes
  <2>3. Types'
    BY <2>1 DEF Upward, Types, callVars, ctlVars, accVars
  <2>4. Asked'
    BY <2>1, <2>2 DEF Upward, Asked, accVars
  <2>5. Locals' /\ Bridge'
    BY <2>1 DEF Upward, Locals, Bridge, callVars, ctlVars, accVars
  <2> QED BY <2>3, <2>4, <2>5 DEF Upward
<1>2. CASE PowerUp
  <2>1. /\ dp.power = "asked" /\ dp' = [dp EXCEPT !.power = "acked"]
        /\ UNCHANGED <<callVars, ctlVars, accVars, brg, cmd, dato, touched,
                       expired>>
    BY <1>2 DEF PowerUp
  <2>2. dp' \in Registers /\ dp'.power = "acked"
    BY <2>1 DEF Upward, Types, Registers, Powers
  <2>3. Types'
    BY <2>1, <2>2 DEF Upward, Types, callVars, ctlVars, accVars
  <2>4. Asked'
    BY <2>1, <2>2 DEF Upward, Asked, callVars, ctlVars, accVars
  <2>5. Locals' /\ Bridge'
    BY <2>1, <2>2 DEF Upward, Locals, Bridge, callVars, ctlVars, accVars
  <2> QED BY <2>3, <2>4, <2>5 DEF Upward
<1> QED BY <1>1, <1>2

\* A step of remote_open between two accesses.
LEMMA ListUp ==
  ASSUME Upward, todo = <<>>, todo' \in Seq(Quiet),
         UNCHANGED <<wait, cmd, dato, dp>>,
         value' = value \/ value' # "acked"
  PROVE  Asked' /\ todo' \in Seq(Accesses) /\ wait' = NotStarted
<1>1. todo' \in Seq(Accesses)
  BY QuietSeq
<1>2. wait = NotStarted
  BY DEF Upward, Types
<1> QED BY <1>1, <1>2 DEF Upward, Asked

\* What such a step leaves alone.
LEMMA AtFrame ==
  ASSUME NEW p, At(p)
  PROVE  /\ pc = p /\ todo = <<>>
         /\ UNCHANGED <<target, halt, wait, value, cmd, dato, dp, touched,
                        expired>>
BY DEF At, callVars, devVars

\* Connecting: the clock divisor is raised until the port answers, or too large.
LEMMA ConnectUp ==
  ASSUME Upward, Connect \/ PollIDCode \/ CheckStat \/ Power
  PROVE  Upward'
<1>1. <<>> \in Seq(Quiet) /\ <<Rd("DP", "CTLSTAT")>> \in Seq(Quiet)
  BY QuietLists, Limits
<1>2. CASE Connect
  <2>1. /\ pc = "connect" /\ todo = <<>> /\ todo' = <<>>
        /\ UNCHANGED <<target, halt, wait, value, cmd, dato, dp, touched,
                       expired, div, i, memap, apsel>>
        /\ \/ /\ div > MaxDiv /\ pc' = "close_ahb" /\ rv' = "error"
              /\ UNCHANGED <<brg, n>>
           \/ /\ ~(div > MaxDiv) /\ pc' = "idcode"
              /\ brg' = [brg EXCEPT !.en = TRUE] /\ n' = Polls /\ UNCHANGED rv
    BY <1>2, AtFrame DEF Connect, Goto
  <2>2. Asked' /\ todo' \in Seq(Accesses) /\ wait' = NotStarted
    BY <2>1, <1>1, ListUp
  <2>3. /\ brg' \in BridgeRegs
        /\ brg'.ahb = brg.ahb /\ (pc' = "idcode" => brg'.en)
        /\ (pc' = "close_ahb" => brg'.en = brg.en)
        /\ rv \notin {"success", "error"}
    BY <2>1 DEF Upward, Types, Bridge, BridgeRegs
  <2>4. pc' = "idcode" => div <= MaxDiv /\ n' >= 1
    BY <2>1, Limits, RemoteAssumption DEF Upward, Types
  <2>5. Types'
    BY <2>1, <2>2, <2>3, Limits DEF Upward, Types, Places
  <2>6. Locals' /\ Bridge'
    BY <2>1, <2>3, <2>4
       DEF Upward, Locals, Bridge, Accessing, Powered
  <2> QED BY <2>2, <2>5, <2>6 DEF Upward
<1>3. CASE PollIDCode
  <2>1. /\ pc = "idcode" /\ todo = <<>> /\ todo' = <<>>
        /\ UNCHANGED <<target, halt, wait, cmd, dato, dp, touched, expired,
                       rv, div, i, memap, apsel, brg>>
        /\ n' = n - 1 /\ value' \in {"zero", "arm", "wrong"}
        /\ value' = "arm" => div >= target.link
        /\ pc' = IF n > 1 /\ value' = "zero" THEN "idcode" ELSE "check"
    BY <1>3 DEF PollIDCode, IDCodes, callVars, devVars
  <2>2. Asked' /\ todo' \in Seq(Accesses) /\ wait' = NotStarted
    BY <2>1, <1>1, ListUp
  <2>3. n' \in 0..Polls /\ (n > 1 => n' >= 1)
    BY <2>1, Limits DEF Upward, Types, Locals
  <2>4. Types'
    BY <2>1, <2>2, <2>3 DEF Upward, Types, Places
  <2>5. Locals' /\ Bridge'
    BY <2>1, <2>3 DEF Upward, Locals, Bridge, Accessing, Powered
  <2> QED BY <2>2, <2>4, <2>5 DEF Upward
<1>4. CASE CheckStat
  <2>1. /\ pc = "check" /\ todo = <<>>
        /\ UNCHANGED <<target, halt, wait, value, cmd, dato, dp, touched,
                       expired, rv, i, memap, apsel>>
    BY <1>4, AtFrame DEF CheckStat
  <2>2. \/ pc' = "fail_ahb" /\ todo' = <<>> /\ UNCHANGED <<brg, div, n>>
        \/ /\ pc' = "connect" /\ todo' = <<>> /\ UNCHANGED n
           /\ brg' = [brg EXCEPT !.en = FALSE] /\ div' = div + 1
        \/ /\ pc' = "power" /\ todo' = <<PowerUpRequest, Rd("DP", "CTLSTAT")>>
           /\ value = "arm" /\ n' = Polls /\ UNCHANGED <<brg, div>>
    <3>1. PICK stat \in Stats :
            CASE stat = "ERR_NOCONNECT" ->
                   Goto("fail_ahb", <<>>) /\ UNCHANGED <<brg, div, n>>
              [] stat = "ERR_FAULT" \/ (stat = "SUCCESS" /\ value # "arm") ->
                   Retry /\ UNCHANGED n
              [] OTHER ->
                   /\ Goto("power", <<Wr("DP", "CTLSTAT", "asked"),
                                      Rd("DP", "CTLSTAT")>>)
                   /\ n' = Polls /\ UNCHANGED <<brg, div>>
      BY <1>4 DEF CheckStat
    <3>2. stat \in {"ERR_NOCONNECT", "ERR_FAULT", "SUCCESS"}
      BY DEF Stats
    <3>3. CASE stat = "ERR_NOCONNECT"
      BY <3>1, <3>3 DEF Goto
    <3>4. CASE stat = "ERR_FAULT"
      BY <3>1, <3>4 DEF Goto, Retry
    <3>5. CASE stat = "SUCCESS" /\ value # "arm"
      BY <3>1, <3>5 DEF Goto, Retry
    <3>6. CASE stat = "SUCCESS" /\ value = "arm"
      BY <3>1, <3>6 DEF Goto, PowerUpRequest
    <3> QED BY <3>2, <3>3, <3>4, <3>5, <3>6
  <2>3. CASE pc' # "power"
    <3>1. Asked' /\ todo' \in Seq(Accesses) /\ wait' = NotStarted
      BY <2>1, <2>2, <2>3, <1>1, ListUp
    <3>2. div' \in Divs \cup 0..NoLink
      BY <2>1, <2>2, <2>3, Limits, RemoteAssumption DEF Upward, Types, Locals
    <3>3. /\ brg' \in BridgeRegs
          /\ brg'.ahb = brg.ahb /\ (pc' = "connect" => ~brg'.en)
      BY <2>2, <2>3 DEF Upward, Types, BridgeRegs
    <3>4. Types'
      BY <2>1, <2>2, <2>3, <3>1, <3>2, <3>3 DEF Upward, Types, Places
    <3>5. Locals' /\ Bridge'
      BY <2>1, <2>2, <2>3, <3>3 DEF Upward, Locals, Bridge, Accessing, Powered
    <3> QED BY <3>1, <3>4, <3>5 DEF Upward
  <2>4. CASE pc' = "power"
    <3>1. /\ todo' = <<PowerUpRequest, Rd("DP", "CTLSTAT")>>
          /\ value = "arm" /\ n' = Polls /\ UNCHANGED <<brg, div>>
      BY <2>2, <2>4
    <3>2. Rd("DP", "CTLSTAT") \in Quiet /\ PowerUpRequest \in Accesses
      BY DEF Quiet, Accesses
    <3>3. Rd("DP", "CTLSTAT") \in Accesses
      BY <3>2 DEF Accesses
    <3> DEFINE c == Rd("DP", "CTLSTAT")
    <3> HIDE DEF c
    <3>4. todo' \in Seq(Accesses)
      BY <3>1, <3>2, <3>3 DEF c
    <3>5. wait = NotStarted
      BY <2>1 DEF Upward, Types
    <3>6. Types'
      BY <2>1, <2>4, <3>1, <3>4, <3>5, Limits DEF Upward, Types, Places
    <3>7. Asked'
      BY <2>1 DEF Upward, Asked
    <3>8. Locals' /\ Bridge'
      BY <2>1, <2>4, <3>1 DEF Upward, Locals, Bridge, Accessing, Powered
    <3> QED BY <3>6, <3>7, <3>8 DEF Upward
  <2> QED BY <2>3, <2>4
<1>5. CASE Power
  <2>1. /\ pc = "power" /\ todo = <<>>
        /\ UNCHANGED <<target, halt, wait, value, cmd, dato, dp, touched,
                       expired, rv, div, i, memap, apsel, brg>>
    BY <1>5, AtFrame DEF Power
  <2>2. \/ pc' = "fail_ahb" /\ todo' = <<>> /\ UNCHANGED n
        \/ pc' = "scan" /\ todo' = <<>> /\ UNCHANGED n /\ value = "acked"
        \/ /\ pc' = "power" /\ todo' = <<Rd("DP", "CTLSTAT")>> /\ n > 0
           /\ n' = n - 1
    BY <1>5, Limits DEF Power, Goto, Upward, Types
  <2>3. Asked' /\ todo' \in Seq(Accesses) /\ wait' = NotStarted
    BY <2>1, <2>2, <1>1, ListUp
  <2>4. n' \in 0..Polls
    BY <2>2, Limits DEF Upward, Types
  <2>5. Types'
    BY <2>1, <2>2, <2>3, <2>4 DEF Upward, Types, Places
  <2>6. pc' = "scan" => dp.power = "acked"
    BY <2>2 DEF Upward, Asked
  <2>7. Locals' /\ Bridge'
    BY <2>1, <2>2, <2>6 DEF Upward, Locals, Bridge, Accessing, Powered
  <2> QED BY <2>3, <2>5, <2>7 DEF Upward
<1> QED BY <1>2, <1>3, <1>4, <1>5

\* The scan, halting the CPU and setting the size.
LEMMA DriveUp ==
  ASSUME Upward, Scan \/ Idr \/ Chosen \/ Halt \/ Halting \/ Size
  PROVE  Upward'
<1> DEFINE From == {"scan", "idr", "chosen", "halt", "halting", "size"}
           To == {"scan", "idr", "chosen", "halt", "halting", "size", "fixed",
                  "fail_ahb"}
<1>1. /\ apsel \in APs /\ Polls - 1 \in 0..Polls
      /\ Addressed(i) \in APs \/ ~(i < NumAP)
      /\ Addressed(memap) \in APs
  BY Limits DEF Upward, Types, Addressed, APs, Keep
<1>2. ASSUME NEW a \in APs
      PROVE  /\ APRead(a, "IDR") \in Seq(Quiet)
             /\ APWrite(a, "CSW", "word") \in Seq(Quiet)
             /\ APWrite(a, "TAR", "SCB_DHCSR") \o APWrite(a, "DRW", "DEBUG_HALT")
                  \o APRead(a, "DRW") \in Seq(Quiet)
             /\ APWrite(a, "CSW", "byte") \o APRead(a, "CSW") \in Seq(Quiet)
             /\ <<>> \in Seq(Quiet)
  BY QuietLists DEF Sizes
<1>3. /\ pc \in From /\ pc' \in To /\ todo = <<>> /\ todo' \in Seq(Quiet)
      /\ UNCHANGED <<target, halt, wait, value, cmd, dato, dp, touched, expired,
                     rv, div, brg>>
      /\ pc' \notin Accessing => todo' = <<>>
      /\ n' \in 0..Polls /\ i' \in 0..NumAP /\ apsel' \in APs /\ memap' \in APs
      /\ pc' = "idr" => i' < NumAP
  <2>1. CASE Scan
    <3>1. /\ pc = "scan" /\ todo = <<>>
          /\ UNCHANGED <<target, halt, wait, value, cmd, dato, dp, touched,
                         expired, rv, div, brg, n, i, memap>>
          /\ \/ /\ i < NumAP /\ apsel' = Addressed(i) /\ pc' = "idr"
                /\ todo' = APRead(apsel', "IDR")
             \/ pc' = "chosen" /\ todo' = <<>> /\ UNCHANGED apsel
      BY <2>1, AtFrame DEF Scan, Goto
    <3>2. apsel' \in APs
      BY <1>1, <3>1
    <3> QED BY <1>2, <3>1, <3>2 DEF Upward, Types, Accessing
  <2>2. CASE Idr
    <3>1. /\ pc = "idr" /\ todo = <<>> /\ todo' = <<>>
          /\ UNCHANGED <<target, halt, wait, value, cmd, dato, dp, touched,
                         expired, rv, div, brg, n, apsel>>
          /\ \/ pc' = "chosen" /\ UNCHANGED <<i, memap>>
             \/ pc' = "scan" /\ i' = i + 1 /\ memap' \in {i, memap}
      BY <2>2, AtFrame DEF Idr, Goto
    <3>2. i < NumAP /\ i \in APs /\ i + 1 \in 0..NumAP
      BY <3>1, Limits DEF Upward, Types, Locals, APs
    <3> QED BY <1>1, <1>2, <3>1, <3>2 DEF Upward, Types
  <2>3. CASE Chosen
    <3>1. /\ pc = "chosen" /\ todo = <<>>
          /\ UNCHANGED <<target, halt, wait, value, cmd, dato, dp, touched,
                         expired, rv, div, brg, n, i, memap>>
          /\ \/ pc' = "fail_ahb" /\ todo' = <<>> /\ UNCHANGED apsel
             \/ /\ apsel' = Addressed(memap) /\ pc' = "halt"
                /\ todo' = APWrite(apsel', "CSW", "word")
      BY <2>3, AtFrame DEF Chosen, Goto
    <3>2. apsel' \in APs
      BY <1>1, <3>1
    <3> QED BY <1>1, <1>2, <3>1, <3>2 DEF Upward, Types, Accessing
  <2>4. CASE Halt
    <3>1. /\ pc = "halt" /\ todo = <<>>
          /\ UNCHANGED <<target, halt, wait, value, cmd, dato, dp, touched,
                         expired, rv, div, brg, i, memap, apsel>>
          /\ \/ /\ pc' = "halting" /\ n' = Polls - 1
                /\ todo' = APWrite(apsel, "TAR", "SCB_DHCSR")
                           \o APWrite(apsel, "DRW", "DEBUG_HALT")
                           \o APRead(apsel, "DRW")
             \/ pc' = "size" /\ todo' = <<>> /\ UNCHANGED n
      BY <2>4, AtFrame DEF Halt, Goto
    <3> QED BY <1>1, <1>2, <3>1 DEF Upward, Types, Accessing
  <2>5. CASE Halting
    <3>1. /\ pc = "halting" /\ todo = <<>> /\ todo' = <<>>
          /\ UNCHANGED <<target, halt, wait, value, cmd, dato, dp, touched,
                         expired, rv, div, brg, n, i, memap, apsel>>
          /\ pc' \in {"fail_ahb", "size"}
      BY <2>5, AtFrame DEF Halting, Goto
    <3> QED BY <1>1, <1>2, <3>1 DEF Upward, Types
  <2>6. CASE Size
    <3>1. /\ pc = "size" /\ todo = <<>> /\ pc' = "fixed"
          /\ todo' = APWrite(apsel, "CSW", "byte") \o APRead(apsel, "CSW")
          /\ UNCHANGED <<target, halt, wait, value, cmd, dato, dp, touched,
                         expired, rv, div, brg, n, i, memap, apsel>>
      BY <2>6, AtFrame DEF Size, Goto
    <3> QED BY <1>1, <1>2, <3>1 DEF Upward, Types, Accessing
  <2> QED BY <2>1, <2>2, <2>3, <2>4, <2>5, <2>6
<1>4. Asked' /\ todo' \in Seq(Accesses) /\ wait' = NotStarted
  BY <1>3, ListUp
<1>5. Types'
  BY <1>3, <1>4, Limits DEF Upward, Types, Places
<1>6. Locals' /\ Bridge'
  BY <1>3 DEF Upward, Locals, Bridge, Powered
<1> QED BY <1>4, <1>5, <1>6 DEF Upward

\* Success, the ways out of it, and remote_close.
LEMMA CloseUp ==
  ASSUME Upward, Fixed \/ FailAHB \/ FailEn \/ EnableAHB \/ CloseAHB \/ CloseEn
  PROVE  Upward'
<1>1. /\ todo = <<>> /\ todo' = <<>>
      /\ UNCHANGED <<target, halt, wait, value, cmd, dato, dp, touched, expired,
                     div, n, i, memap, apsel>>
      /\ \/ /\ pc = "fixed" /\ pc' = "open" /\ rv' = "success"
            /\ brg' = [brg EXCEPT !.fixed = (value = "word"), !.apsel = memap]
         \/ /\ pc = "fail_ahb" /\ pc' = "fail_en" /\ UNCHANGED rv
            /\ brg' = [brg EXCEPT !.ahb = FALSE]
         \/ /\ pc = "fail_en" /\ pc' = "close_ahb" /\ rv' = "error"
            /\ brg' = [brg EXCEPT !.en = FALSE]
         \/ /\ pc = "open" /\ pc' = "close_ahb" /\ UNCHANGED rv
            /\ brg' = [brg EXCEPT !.ahb = TRUE]
         \/ /\ pc = "close_ahb" /\ pc' = "close_en" /\ UNCHANGED rv
            /\ brg' = [brg EXCEPT !.ahb = FALSE]
         \/ /\ pc = "close_en" /\ pc' = "closed" /\ UNCHANGED rv
            /\ brg' = [brg EXCEPT !.en = FALSE]
  <2>1. CASE Fixed
    BY <2>1, AtFrame DEF Fixed, Goto
  <2>2. CASE FailAHB
    BY <2>2, AtFrame DEF FailAHB, Goto
  <2>3. CASE FailEn
    BY <2>3, AtFrame DEF FailEn, Goto
  <2>4. CASE EnableAHB
    BY <2>4, AtFrame DEF EnableAHB, Goto
  <2>5. CASE CloseAHB
    BY <2>5, AtFrame DEF CloseAHB, Goto
  <2>6. CASE CloseEn
    BY <2>6, AtFrame DEF CloseEn, Goto
  <2> QED BY <2>1, <2>2, <2>3, <2>4, <2>5, <2>6
<1>2. Asked' /\ todo' \in Seq(Accesses) /\ wait' = NotStarted
  BY <1>1, QuietLists, Limits, ListUp
<1>3. brg' \in BridgeRegs
  BY <1>1 DEF Upward, Types, BridgeRegs, APs
<1>4. Types'
  BY <1>1, <1>2, <1>3, Limits DEF Upward, Types, Places
<1>5. Locals'
  BY <1>1 DEF Locals
<1>6. Bridge'
  <2>1. /\ brg \in [en : BOOLEAN, ahb : BOOLEAN, apsel : APs, fixed : BOOLEAN]
        /\ Bridge
    BY DEF Upward, Types, BridgeRegs, APs
  <2> QED BY <1>1, <2>1 DEF Bridge, Powered
<1> QED BY <1>2, <1>4, <1>5, <1>6 DEF Upward

LEMMA UpwardInvariance == Spec => []Upward
<1>1. Init => Upward
  <2> SUFFICES ASSUME Init PROVE Upward
    OBVIOUS
  <2>1. target.brg \in BridgeRegs /\ target.power \in Powers
    BY RemoteAssumption DEF Init
  <2>2. /\ dp \in Registers /\ cmd = NoCommand
        /\ todo \in Seq(Accesses) /\ todo = <<>>
    BY <2>1, Limits DEF Init, Registers, APRegs, Sizes, APs, Keep
  <2>3. Types
    <3>1. brg \in BridgeRegs
      BY <2>1 DEF Init
    <3>2. /\ n \in 0..Polls /\ i \in 0..NumAP /\ memap \in APs /\ apsel \in APs
          /\ wait \in 0..NotStarted /\ wait = NotStarted
          /\ touched \subseteq APs
      BY Limits DEF Init
    <3> QED BY <2>2, <3>1, <3>2 DEF Init, Types, Places
  <2>4. Locals /\ Asked /\ Bridge
    BY <2>2 DEF Init, Locals, Asked, Bridge, Accessing, Powered
  <2> QED BY <2>3, <2>4 DEF Upward
<1>2. Upward /\ [Next]_vars => Upward'
  <2> SUFFICES ASSUME Upward, [Next]_vars PROVE Upward'
    OBVIOUS
  <2>1. CASE Next
    BY <2>1, AccessUp, TargetUp, ConnectUp, DriveUp, CloseUp DEF Next, Host
  <2>2. CASE UNCHANGED vars
    BY <2>2 DEF Upward, Types, Locals, Asked, Bridge, vars, callVars, ctlVars,
                accVars, devVars
  <2> QED BY <2>1, <2>2
<1> QED BY <1>1, <1>2, PTL DEF Spec

\* Every variable stays in its domain.
THEOREM TypeCorrect == Spec => []TypeOK
<1>1. Upward => TypeOK
  BY DEF Upward, Types, TypeOK, APs
<1> QED BY <1>1, UpwardInvariance, PTL

\* Success is reported, and the bus bridge switched on, only with a port that
\* answered and is powered; after an error and at the end the bridge is off; but
\* for the registers that an earlier command left on (remote.cpp:67-209).
THEOREM BridgeUp == Spec => []BridgeOnlyWhenUp
<1>1. Upward => BridgeOnlyWhenUp
  BY DEF Upward, Bridge, BridgeOnlyWhenUp
<1> QED BY <1>1, UpwardInvariance, PTL

-----------------------------------------------------------------------------
(* What is left of a list.                                                 *)

LEMMA RestStart ==
  ASSUME NEW S, NEW s \in Seq(S)
  PROVE  Rest(s, s, 0)
BY DEF Rest

LEMMA RestNext ==
  ASSUME NEW S, NEW T, NEW s \in Seq(S), NEW left \in Seq(T),
         NEW k \in Nat, NEW j \in Nat,
         j = k + 1, Rest(left, s, k), left # <<>>
  PROVE  Rest(Tail(left), s, j) /\ Head(left) = s[j] /\ j \in 1..Len(s)
<1>1. /\ Head(left) = left[1] /\ Tail(left) \in Seq(T)
      /\ Len(left) \in Nat \ {0}
      /\ Len(Tail(left)) = Len(left) - 1 /\ Len(s) \in Nat
      /\ \A q \in 1..Len(Tail(left)) : Tail(left)[q] = left[q + 1]
  BY HeadTailProperties, EmptySeq
<1>2. /\ Len(left) = Len(s) - k /\ \A q \in 1..Len(left) : left[q] = s[k + q]
  BY DEF Rest
<1>3. /\ j \in 0..Len(s) /\ j \in 1..Len(s) /\ Len(Tail(left)) = Len(s) - j
      /\ 1 \in 1..Len(left)
  BY <1>1, <1>2
<1>4. Head(left) = s[j]
  BY <1>1, <1>2, <1>3
<1>5. ASSUME NEW q \in 1..Len(Tail(left)) PROVE Tail(left)[q] = s[j + q]
  <2>1. q + 1 \in 1..Len(left) /\ k + (q + 1) = j + q
    BY <1>1, <1>3
  <2> QED BY <1>1, <1>2, <2>1
<1> QED BY <1>3, <1>4, <1>5 DEF Rest

LEMMA RestDone ==
  ASSUME NEW S, NEW s \in Seq(S), NEW k \in Nat, Rest(<<>>, s, k)
  PROVE  k = Len(s)
BY DEF Rest

\* Two lists after each other are the list with the elements of both.
LEMMA Joined ==
  ASSUME NEW S, NEW s \in Seq(S), NEW t \in Seq(S), NEW u \in Seq(S),
         Len(u) = Len(s) + Len(t),
         \A k \in 1..Len(s) : s[k] = u[k],
         \A k \in 1..Len(t) : t[k] = u[Len(s) + k]
  PROVE  s \o t = u
<1>1. /\ s \o t \in Seq(S) /\ Len(s \o t) = Len(s) + Len(t)
      /\ \A q \in 1..Len(s) + Len(t) :
           (s \o t)[q] = IF q <= Len(s) THEN s[q] ELSE t[q - Len(s)]
  BY ConcatProperties
<1>2. ASSUME NEW q \in 1..Len(u) PROVE (s \o t)[q] = u[q]
  <2>1. Len(s) \in Nat /\ Len(t) \in Nat
    BY LenProperties
  <2>2. CASE q <= Len(s)
    <3>1. q \in 1..Len(s) /\ q \in 1..Len(s) + Len(t)
      BY <2>1, <2>2
    <3>2. s[q] = u[q]
      BY <3>1
    <3> QED BY <1>1, <2>2, <3>1, <3>2
  <2>3. CASE ~(q <= Len(s))
    <3>1. q - Len(s) \in 1..Len(t) /\ Len(s) + (q - Len(s)) = q
      BY <2>1, <2>3
    <3>2. t[q - Len(s)] = u[q]
      BY <3>1
    <3> QED BY <1>1, <2>3, <3>2
  <2> QED BY <2>2, <2>3
<1> DEFINE x == s \o t
<1>3. x \in Seq(S) /\ Len(x) = Len(u) /\ \A q \in 1..Len(x) : x[q] = u[q]
  BY <1>1, <1>2
<1> HIDE DEF x
<1>4. x = u
  BY <1>3, SeqEqual
<1> QED BY <1>4 DEF x

LEMMA Join23 ==
  ASSUME NEW b, NEW c, NEW d, NEW e, NEW f
  PROVE  <<b, c>> \o <<d, e, f>> = <<b, c, d, e, f>>
<1> DEFINE S == {b, c, d, e, f}
           s == <<b, c>>
           t == <<d, e, f>>
           u == <<b, c, d, e, f>>
<1>1. /\ s \in Seq(S) /\ t \in Seq(S) /\ u \in Seq(S)
      /\ Len(s) = 2 /\ Len(t) = 3 /\ Len(u) = 5
  OBVIOUS
<1>2. /\ s[1] = b /\ s[2] = c
      /\ t[1] = d /\ t[2] = e /\ t[3] = f
      /\ u[1] = b /\ u[2] = c /\ u[3] = d /\ u[4] = e
      /\ u[5] = f
  OBVIOUS
<1> HIDE DEF S, s, t, u
<1>3. Len(u) = Len(s) + Len(t)
  BY <1>1
<1>4. \A k \in 1..Len(s) : s[k] = u[k]
  BY <1>1, <1>2
<1>5. \A k \in 1..Len(t) : t[k] = u[Len(s) + k]
  BY <1>1, <1>2
<1>6. s \o t = u
  BY <1>1, <1>3, <1>4, <1>5, Joined
<1> QED BY <1>6 DEF s, t, u

LEMMA Join22 ==
  ASSUME NEW b, NEW c, NEW d, NEW e
  PROVE  <<b, c>> \o <<d, e>> = <<b, c, d, e>>
<1> DEFINE S == {b, c, d, e}
           s == <<b, c>>
           t == <<d, e>>
           u == <<b, c, d, e>>
<1>1. /\ s \in Seq(S) /\ t \in Seq(S) /\ u \in Seq(S)
      /\ Len(s) = 2 /\ Len(t) = 2 /\ Len(u) = 4
  OBVIOUS
<1>2. /\ s[1] = b /\ s[2] = c
      /\ t[1] = d /\ t[2] = e
      /\ u[1] = b /\ u[2] = c /\ u[3] = d /\ u[4] = e
  OBVIOUS
<1> HIDE DEF S, s, t, u
<1>3. Len(u) = Len(s) + Len(t)
  BY <1>1
<1>4. \A k \in 1..Len(s) : s[k] = u[k]
  BY <1>1, <1>2
<1>5. \A k \in 1..Len(t) : t[k] = u[Len(s) + k]
  BY <1>1, <1>2
<1>6. s \o t = u
  BY <1>1, <1>3, <1>4, <1>5, Joined
<1> QED BY <1>6 DEF s, t, u

LEMMA Join43 ==
  ASSUME NEW b, NEW c, NEW d, NEW e, NEW f, NEW g, NEW h
  PROVE  <<b, c, d, e>> \o <<f, g, h>> = <<b, c, d, e, f, g, h>>
<1> DEFINE S == {b, c, d, e, f, g, h}
           s == <<b, c, d, e>>
           t == <<f, g, h>>
           u == <<b, c, d, e, f, g, h>>
<1>1. /\ s \in Seq(S) /\ t \in Seq(S) /\ u \in Seq(S)
      /\ Len(s) = 4 /\ Len(t) = 3 /\ Len(u) = 7
  OBVIOUS
<1>2. /\ s[1] = b /\ s[2] = c /\ s[3] = d /\ s[4] = e
      /\ t[1] = f /\ t[2] = g /\ t[3] = h
      /\ u[1] = b /\ u[2] = c /\ u[3] = d /\ u[4] = e
      /\ u[5] = f /\ u[6] = g /\ u[7] = h
  OBVIOUS
<1> HIDE DEF S, s, t, u
<1>3. Len(u) = Len(s) + Len(t)
  BY <1>1
<1>4. \A k \in 1..Len(s) : s[k] = u[k]
  BY <1>1, <1>2
<1>5. \A k \in 1..Len(t) : t[k] = u[Len(s) + k]
  BY <1>1, <1>2
<1>6. s \o t = u
  BY <1>1, <1>3, <1>4, <1>5, Joined
<1> QED BY <1>6 DEF s, t, u

\* The lists, element by element.
LEMMA Scripts ==
  ASSUME NEW a \in APs
  PROVE  /\ Script("idr", a) =
              <<Select(a, "IDR"), Rd("AP", "IDR"), Rd("DP", "RDBUFF")>>
         /\ Script("halt", a) = <<Select(a, "CSW"), Wr("AP", "CSW", "word")>>
         /\ Script("halting", a) =
              <<Select(a, "TAR"), Wr("AP", "TAR", "SCB_DHCSR"),
                Select(a, "DRW"), Wr("AP", "DRW", "DEBUG_HALT"),
                Select(a, "DRW"), Rd("AP", "DRW"), Rd("DP", "RDBUFF")>>
         /\ Script("fixed", a) =
              <<Select(a, "CSW"), Wr("AP", "CSW", "byte"),
                Select(a, "CSW"), Rd("AP", "CSW"), Rd("DP", "RDBUFF")>>
         /\ \A p \in Places \ {"idr", "halt", "halting", "fixed"} :
              Script(p, a) = <<>>
<1>2. Script("idr", a) =
              <<Select(a, "IDR"), Rd("AP", "IDR"), Rd("DP", "RDBUFF")>>
  BY DEF Script, APRead
<1>3. Script("halt", a) = <<Select(a, "CSW"), Wr("AP", "CSW", "word")>>
  BY DEF Script, APWrite
<1>4. Script("halting", a) =
              <<Select(a, "TAR"), Wr("AP", "TAR", "SCB_DHCSR"),
                Select(a, "DRW"), Wr("AP", "DRW", "DEBUG_HALT"),
                Select(a, "DRW"), Rd("AP", "DRW"), Rd("DP", "RDBUFF")>>
  <2>1. APWrite(a, "TAR", "SCB_DHCSR") \o APWrite(a, "DRW", "DEBUG_HALT") =
              <<Select(a, "TAR"), Wr("AP", "TAR", "SCB_DHCSR"),
                Select(a, "DRW"), Wr("AP", "DRW", "DEBUG_HALT")>>
    BY Join22 DEF APWrite
  <2>2. Script("halting", a) =
              (APWrite(a, "TAR", "SCB_DHCSR") \o APWrite(a, "DRW", "DEBUG_HALT"))
              \o APRead(a, "DRW")
    BY DEF Script
  <2>3. APRead(a, "DRW") =
              <<Select(a, "DRW"), Rd("AP", "DRW"), Rd("DP", "RDBUFF")>>
    BY DEF APRead
  <2> DEFINE b == Select(a, "TAR")
             c == Wr("AP", "TAR", "SCB_DHCSR")
             d == Select(a, "DRW")
             e == Wr("AP", "DRW", "DEBUG_HALT")
             g == Rd("AP", "DRW")
             h == Rd("DP", "RDBUFF")
  <2> HIDE DEF b, c, d, e, g, h
  <2>4. <<b, c, d, e>> \o <<d, g, h>> = <<b, c, d, e, d, g, h>>
    BY Join43
  <2> USE DEF b, c, d, e, g, h
  <2> QED BY <2>1, <2>2, <2>3, <2>4
<1>5. Script("fixed", a) =
              <<Select(a, "CSW"), Wr("AP", "CSW", "byte"),
                Select(a, "CSW"), Rd("AP", "CSW"), Rd("DP", "RDBUFF")>>
  BY Join23 DEF Script, APRead, APWrite
<1>6. \A p \in Places \ {"idr", "halt", "halting", "fixed"} :
        Script(p, a) = <<>>
  BY DEF Script
<1> QED BY <1>2, <1>3, <1>4, <1>5, <1>6

-----------------------------------------------------------------------------
(* What each kind of access does when it is performed.                     *)

LEMMA Selecting ==
  ASSUME Perform, NEW a, NEW r, cmd = Select(a, r)
  PROVE  /\ dp' = [dp EXCEPT !.sel = [ap |-> a, reg |-> r]]
         /\ UNCHANGED <<dato, touched>>
<1>1. /\ cmd.op = "write" /\ cmd.port = "DP" /\ cmd.reg = "SELECT"
      /\ cmd.val = [ap |-> a, reg |-> r]
  BY DEF Select, Wr
<1> QED BY <1>1 DEF Perform, DPWrite

\* SELECT leads to the register addressed.
LEMMA Reaching ==
  ASSUME NEW r \in APRegs, dp.sel.reg = r
  PROVE  Reached(r) = r
BY DEF Reached, Low, APRegs

LEMMA APReading ==
  ASSUME Perform, NEW a, NEW r \in APRegs, dp.sel = [ap |-> a, reg |-> r],
         cmd = Rd("AP", r)
  PROVE  /\ dp' = [dp EXCEPT !.rdbuff = APValue(a, r)]
         /\ UNCHANGED <<dato, touched>>
<1>1. cmd.op = "read" /\ cmd.port = "AP" /\ cmd.reg = r
  BY DEF Rd
<1>2. dp.sel.ap = a /\ Reached(r) = r
  BY Reaching
<1> QED BY <1>1, <1>2 DEF Perform

LEMMA BufferReading ==
  ASSUME Perform, cmd = Rd("DP", "RDBUFF")
  PROVE  dato' = dp.rdbuff /\ cmd.op = "read" /\ UNCHANGED <<dp, touched>>
<1>1. cmd.op = "read" /\ cmd.port = "DP" /\ cmd.reg = "RDBUFF"
  BY DEF Rd
<1> QED BY <1>1 DEF Perform

LEMMA APWriting ==
  ASSUME Perform, NEW a, NEW r \in {"CSW", "TAR", "DRW"}, NEW v,
         dp.sel = [ap |-> a, reg |-> r], cmd = Wr("AP", r, v)
  PROVE  /\ r = "CSW" => dp' = [dp EXCEPT !.csw[a] = v]
         /\ r = "TAR" => dp' = [dp EXCEPT !.tar[a] = v]
         /\ r = "DRW" => \/ dp' = [dp EXCEPT !.halted = TRUE]
                         \/ /\ dp' = dp
                            /\ ~(/\ v = "DEBUG_HALT" /\ dp.tar[a] = "SCB_DHCSR"
                                 /\ target.aps[a] = "mem" /\ target.halts)
         /\ touched' = touched \cup {a} /\ UNCHANGED dato
<1>1. cmd.op = "write" /\ cmd.port = "AP" /\ cmd.reg = r /\ cmd.val = v
  BY DEF Wr
<1>2. dp.sel.ap = a /\ Reached(r) = r
  BY Reaching DEF APRegs
<1>3. APWritten(cmd, a, r) /\ touched' = touched \cup {a} /\ UNCHANGED dato
  BY <1>1, <1>2 DEF Perform
<1>4. CASE r = "CSW"
  BY <1>1, <1>3, <1>4 DEF APWritten
<1>5. CASE r = "TAR"
  BY <1>1, <1>3, <1>5 DEF APWritten
<1>6. CASE r = "DRW"
  BY <1>1, <1>3, <1>6 DEF APWritten
<1> QED BY <1>3, <1>4, <1>5, <1>6

\* Each access of a place adds its effect.
LEMMA EffectNext ==
  ASSUME Upward, Choosing, Perform, pc \in {"idr", "halt", "halting", "fixed"},
         NEW k \in Nat, NEW j \in Nat, j = k + 1,
         j \in 1..Len(Script(pc, apsel)), Effect(pc, k),
         cmd = Script(pc, apsel)[j], wait # NotStarted, cmd = Head(todo)
  PROVE  /\ Effect(pc, j)'
         /\ touched' \subseteq touched \cup IF pc = "idr" THEN {} ELSE {apsel}
<1>1. /\ cmd' = NoCommand /\ dp \in Registers /\ apsel \in APs
      /\ UNCHANGED <<target, halt, pc, apsel, todo, wait, value>>
  BY PerformRegisters DEF Upward, Types, callVars, ctlVars, accVars
<1>2. cmd.op = "read" => Result' = dato'
  BY <1>1 DEF Result, Performed
<1>3. CASE pc = "idr"
  <2>1. /\ j \in 1..3
        /\ cmd = <<Select(apsel, "IDR"), Rd("AP", "IDR"),
                   Rd("DP", "RDBUFF")>>[j]
    BY <1>1, <1>3, Scripts
  <2>2. CASE j = 1
    <3>1. cmd = Select(apsel, "IDR")
      BY <2>1, <2>2
    <3>2. /\ dp' = [dp EXCEPT !.sel = [ap |-> apsel, reg |-> "IDR"]]
          /\ UNCHANGED touched
      BY <3>1, Selecting
    <3>3. dp'.sel = [ap |-> apsel, reg |-> "IDR"]
      BY <1>1, <3>2 DEF Registers
    <3> QED BY <1>1, <1>3, <2>2, <3>2, <3>3 DEF Effect, Selected
  <2>3. CASE j = 2
    <3>1. cmd = Rd("AP", "IDR") /\ k = 1
      BY <2>1, <2>3
    <3>2. dp.sel = [ap |-> apsel, reg |-> "IDR"]
      BY <1>3, <3>1 DEF Effect, Selected
    <3>3. /\ dp' = [dp EXCEPT !.rdbuff = APValue(apsel, "IDR")]
          /\ UNCHANGED touched
      BY <3>1, <3>2, APReading DEF APRegs
    <3>4. dp'.rdbuff = APValue(apsel, "IDR")
      BY <1>1, <3>3 DEF Registers
    <3>5. APValue(apsel, "IDR")' = APValue(apsel, "IDR")
      BY <1>1 DEF APValue
    <3> QED BY <1>1, <1>3, <2>3, <3>3, <3>4, <3>5 DEF Effect
  <2>4. CASE j = 3
    <3>1. cmd = Rd("DP", "RDBUFF") /\ k = 2
      BY <2>1, <2>4
    <3>2. dato' = dp.rdbuff /\ cmd.op = "read" /\ UNCHANGED touched
      BY <3>1, BufferReading
    <3>3. Result' = APValue(apsel, "IDR")
      BY <1>2, <1>3, <3>1, <3>2 DEF Effect
    <3>4. APValue(apsel, "IDR")' = APValue(apsel, "IDR")
      BY <1>1 DEF APValue
    <3> QED BY <1>1, <1>3, <2>4, <3>2, <3>3, <3>4 DEF Effect
  <2> QED BY <2>1, <2>2, <2>3, <2>4
<1>4. CASE pc = "halt"
  <2>1. j \in 1..2 /\ cmd = <<Select(apsel, "CSW"), Wr("AP", "CSW", "word")>>[j]
    BY <1>1, <1>4, Scripts
  <2>2. CASE j = 1
    <3>1. cmd = Select(apsel, "CSW")
      BY <2>1, <2>2
    <3>2. /\ dp' = [dp EXCEPT !.sel = [ap |-> apsel, reg |-> "CSW"]]
          /\ UNCHANGED touched
      BY <3>1, Selecting
    <3>3. dp'.sel = [ap |-> apsel, reg |-> "CSW"]
      BY <1>1, <3>2 DEF Registers
    <3> QED BY <1>1, <1>4, <2>2, <3>2, <3>3 DEF Effect, Selected
  <2>3. CASE j = 2
    <3>1. cmd = Wr("AP", "CSW", "word") /\ k = 1
      BY <2>1, <2>3
    <3>2. dp.sel = [ap |-> apsel, reg |-> "CSW"]
      BY <1>4, <3>1 DEF Effect, Selected
    <3>3. touched' = touched \cup {apsel}
      BY <3>1, <3>2, APWriting
    <3> QED BY <1>1, <1>4, <2>3, <3>3 DEF Effect
  <2> QED BY <2>1, <2>2, <2>3
<1>5. CASE pc = "halting"
  <2>1. /\ j \in 1..7
        /\ cmd = <<Select(apsel, "TAR"), Wr("AP", "TAR", "SCB_DHCSR"),
                   Select(apsel, "DRW"), Wr("AP", "DRW", "DEBUG_HALT"),
                   Select(apsel, "DRW"), Rd("AP", "DRW"),
                   Rd("DP", "RDBUFF")>>[j]
    BY <1>1, <1>5, Scripts
  <2>2. CASE j = 1
    <3>1. cmd = Select(apsel, "TAR")
      BY <2>1, <2>2
    <3>2. /\ dp' = [dp EXCEPT !.sel = [ap |-> apsel, reg |-> "TAR"]]
          /\ UNCHANGED touched
      BY <3>1, Selecting
    <3>3. dp'.sel = [ap |-> apsel, reg |-> "TAR"]
      BY <1>1, <3>2 DEF Registers
    <3> QED BY <1>1, <1>5, <2>2, <3>2, <3>3 DEF Effect, Selected
  <2>3. CASE j = 2
    <3>1. cmd = Wr("AP", "TAR", "SCB_DHCSR") /\ k = 1
      BY <2>1, <2>3
    <3>2. dp.sel = [ap |-> apsel, reg |-> "TAR"]
      BY <1>5, <3>1 DEF Effect, Selected
    <3>3. /\ dp' = [dp EXCEPT !.tar[apsel] = "SCB_DHCSR"]
          /\ touched' = touched \cup {apsel}
      BY <3>1, <3>2, APWriting, ZenonT(60)
    <3>4. dp'.tar[apsel] = "SCB_DHCSR"
      BY <1>1, <3>3 DEF Registers
    <3> QED BY <1>1, <1>5, <2>3, <3>3, <3>4 DEF Effect
  <2>4. CASE j = 3
    <3>1. cmd = Select(apsel, "DRW") /\ k = 2
      BY <2>1, <2>4
    <3>2. /\ dp' = [dp EXCEPT !.sel = [ap |-> apsel, reg |-> "DRW"]]
          /\ UNCHANGED touched
      BY <3>1, Selecting
    <3>3. dp'.sel = [ap |-> apsel, reg |-> "DRW"] /\ dp'.tar = dp.tar
      BY <1>1, <3>2 DEF Registers
    <3>4. dp.tar[apsel] = "SCB_DHCSR"
      BY <1>5, <3>1 DEF Effect
    <3> QED BY <1>1, <1>5, <2>4, <3>2, <3>3, <3>4 DEF Effect, Selected
  <2>5. CASE j = 4
    <3>1. cmd = Wr("AP", "DRW", "DEBUG_HALT") /\ k = 3
      BY <2>1, <2>5
    <3>2. dp.sel = [ap |-> apsel, reg |-> "DRW"] /\ dp.tar[apsel] = "SCB_DHCSR"
      BY <1>5, <3>1 DEF Effect, Selected
    <3>3. /\ touched' = touched \cup {apsel}
          /\ \/ dp' = [dp EXCEPT !.halted = TRUE]
             \/ /\ dp' = dp
                /\ ~(dp.tar[apsel] = "SCB_DHCSR" /\ target.aps[apsel] = "mem"
                     /\ target.halts)
      BY <3>1, <3>2, APWriting
    <3>4. target.aps[apsel] = "mem"
      BY <1>5 DEF Choosing, Found, Driving, MemAPs
    <3>5. target.halts => dp'.halted
      BY <1>1, <3>2, <3>3, <3>4 DEF Registers
    <3> QED BY <1>1, <1>5, <2>5, <3>3, <3>5 DEF Effect, Halted
  <2>6. CASE j \in 5..7
    <3>1. k >= 4 /\ Halted
      BY <1>5, <2>6 DEF Effect
    <3>2. dp'.halted = dp.halted /\ UNCHANGED touched
      <4>1. CASE j = 5
        <5>1. cmd = Select(apsel, "DRW")
          BY <2>1, <4>1
        <5>2. /\ dp' = [dp EXCEPT !.sel = [ap |-> apsel, reg |-> "DRW"]]
              /\ UNCHANGED touched
          BY <5>1, Selecting
        <5> QED BY <1>1, <5>2 DEF Registers
      <4>2. CASE j = 6
        <5>1. cmd = Rd("AP", "DRW") /\ cmd.op = "read" /\ cmd.port = "AP"
          BY <2>1, <4>2 DEF Rd
        <5> DEFINE v == APValue(dp.sel.ap, Reached(cmd.reg))
        <5>2. dp' = [dp EXCEPT !.rdbuff = v] /\ UNCHANGED touched
          BY <5>1 DEF Perform
        <5> HIDE DEF v
        <5> QED BY <1>1, <5>2 DEF Registers
      <4>3. CASE j = 7
        <5>1. cmd = Rd("DP", "RDBUFF")
          BY <2>1, <4>3
        <5> QED BY <5>1, BufferReading
      <4> QED BY <2>6, <4>1, <4>2, <4>3
    <3> QED BY <1>1, <1>5, <2>6, <3>1, <3>2 DEF Effect, Halted
  <2> QED BY <2>1, <2>2, <2>3, <2>4, <2>5, <2>6
<1>6. CASE pc = "fixed"
  <2>1. /\ j \in 1..5
        /\ cmd = <<Select(apsel, "CSW"), Wr("AP", "CSW", "byte"),
                   Select(apsel, "CSW"), Rd("AP", "CSW"),
                   Rd("DP", "RDBUFF")>>[j]
    BY <1>1, <1>6, Scripts
  <2>2. CASE j \in {1, 3}
    <3>1. cmd = Select(apsel, "CSW") /\ (j = 3 => dp.csw[apsel] = "byte")
      BY <1>6, <2>1, <2>2 DEF Effect
    <3>2. /\ dp' = [dp EXCEPT !.sel = [ap |-> apsel, reg |-> "CSW"]]
          /\ UNCHANGED touched
      BY <3>1, Selecting
    <3>3. dp'.sel = [ap |-> apsel, reg |-> "CSW"] /\ dp'.csw = dp.csw
      BY <1>1, <3>2 DEF Registers
    <3> QED BY <1>1, <1>6, <2>2, <3>1, <3>2, <3>3 DEF Effect, Selected
  <2>3. CASE j = 2
    <3>1. cmd = Wr("AP", "CSW", "byte") /\ k = 1
      BY <2>1, <2>3
    <3>2. dp.sel = [ap |-> apsel, reg |-> "CSW"]
      BY <1>6, <3>1 DEF Effect, Selected
    <3>3. /\ dp' = [dp EXCEPT !.csw[apsel] = "byte"]
          /\ touched' = touched \cup {apsel}
      BY <3>1, <3>2, APWriting, ZenonT(60)
    <3>4. dp'.csw[apsel] = "byte"
      BY <1>1, <3>3 DEF Registers
    <3> QED BY <1>1, <1>6, <2>3, <3>3, <3>4 DEF Effect
  <2>4. CASE j = 4
    <3>1. cmd = Rd("AP", "CSW") /\ k = 3
      BY <2>1, <2>4
    <3>2. dp.sel = [ap |-> apsel, reg |-> "CSW"] /\ dp.csw[apsel] = "byte"
      BY <1>6, <3>1 DEF Effect, Selected
    <3>3. /\ dp' = [dp EXCEPT !.rdbuff = APValue(apsel, "CSW")]
          /\ UNCHANGED touched
      BY <3>1, <3>2, APReading DEF APRegs
    <3>4. dp'.rdbuff = APValue(apsel, "CSW") /\ dp'.csw = dp.csw
      BY <1>1, <3>3 DEF Registers
    <3>5. APValue(apsel, "CSW")' = APValue(apsel, "CSW")
      BY <1>1, <3>4 DEF APValue
    <3> QED BY <1>1, <1>6, <2>4, <3>2, <3>3, <3>4, <3>5 DEF Effect
  <2>5. CASE j = 5
    <3>1. cmd = Rd("DP", "RDBUFF") /\ k = 4
      BY <2>1, <2>5
    <3>2. dato' = dp.rdbuff /\ cmd.op = "read" /\ UNCHANGED <<dp, touched>>
      BY <3>1, BufferReading
    <3>3. Result' = APValue(apsel, "CSW") /\ dp.csw[apsel] = "byte"
      BY <1>2, <1>6, <3>1, <3>2 DEF Effect
    <3>4. APValue(apsel, "CSW")' = APValue(apsel, "CSW")
      BY <1>1, <3>2 DEF APValue
    <3> QED BY <1>1, <1>6, <2>5, <3>2, <3>3, <3>4 DEF Effect
  <2> QED BY <2>1, <2>2, <2>3, <2>4, <2>5
<1> QED BY <1>3, <1>4, <1>5, <1>6

-----------------------------------------------------------------------------
(* The AP chosen is configured: every step.                                *)

LEMMA StaysHalted ==
  ASSUME Types, Perform
  PROVE  dp.halted => dp'.halted
<1>1. dp \in Registers /\ cmd \in Accesses
  BY PerformRegisters DEF Types
<1>2. cmd.op \in {"read", "write"} /\ cmd.port \in {"DP", "AP"}
  BY <1>1, AccessKinds
<1>3. CASE cmd.port = "DP" /\ cmd.op = "write"
  <2>1. \/ dp' = [dp EXCEPT !.sel = cmd.val]
        \/ dp' = [dp EXCEPT !.power = IF @ = "off" THEN "asked" ELSE @]
    BY <1>3 DEF Perform, DPWrite
  <2> QED BY <1>1, <2>1 DEF Registers
<1>4. CASE cmd.port = "DP" /\ cmd.op = "read"
  BY <1>4 DEF Perform
<1>5. CASE cmd.port = "AP" /\ cmd.op = "write"
  <2> DEFINE a == dp.sel.ap
             r == Reached(cmd.reg)
  <2>1. APWritten(cmd, a, r)
    BY <1>5 DEF Perform
  <2> HIDE DEF a, r
  <2>2. \/ dp' = [dp EXCEPT !.csw[a] = cmd.val]
        \/ dp' = [dp EXCEPT !.tar[a] = cmd.val]
        \/ dp' = [dp EXCEPT !.halted = TRUE] \/ dp' = dp
    BY <2>1 DEF APWritten
  <2> QED BY <1>1, <2>2 DEF Registers
<1>6. CASE cmd.port = "AP" /\ cmd.op = "read"
  <2> DEFINE v == APValue(dp.sel.ap, Reached(cmd.reg))
  <2>1. dp' = [dp EXCEPT !.rdbuff = v]
    BY <1>6 DEF Perform
  <2> HIDE DEF v
  <2> QED BY <1>1, <2>1 DEF Registers
<1> QED BY <1>2, <1>3, <1>4, <1>5, <1>6

\* Which AP is the last MEM-AP does not change.
LEMMA SameAPs ==
  ASSUME target' = target
  PROVE  Suitable' = Suitable /\ LastMemAP' = LastMemAP /\ MemAPs' = MemAPs
BY DEF Suitable, LastMemAP, MemAPs, Present

LEMMA ScriptLists ==
  ASSUME NEW a \in APs
  PROVE  /\ \A p \in Places : Script(p, a) \in Seq(Quiet)
         /\ Len(Script("idr", a)) = 3 /\ Len(Script("halt", a)) = 2
         /\ Len(Script("halting", a)) = 7 /\ Len(Script("fixed", a)) = 5
<1>1. /\ APRead(a, "IDR") \in Seq(Quiet) /\ APRead(a, "CSW") \in Seq(Quiet)
      /\ APRead(a, "DRW") \in Seq(Quiet)
      /\ APWrite(a, "CSW", "word") \in Seq(Quiet)
      /\ APWrite(a, "CSW", "byte") \in Seq(Quiet) /\ <<>> \in Seq(Quiet)
      /\ APWrite(a, "TAR", "SCB_DHCSR") \in Seq(Quiet)
      /\ APWrite(a, "DRW", "DEBUG_HALT") \in Seq(Quiet)
      /\ \A s, t \in Seq(Quiet) : s \o t \in Seq(Quiet)
  BY QuietLists DEF Sizes
<1>2. APWrite(a, "TAR", "SCB_DHCSR") \o APWrite(a, "DRW", "DEBUG_HALT")
        \in Seq(Quiet)
  BY <1>1
<1>3. \A p \in Places : Script(p, a) \in Seq(Quiet)
  BY <1>1, <1>2 DEF Script
<1>4. Len(Script("idr", a)) = 3
  BY Scripts
<1>5. Len(Script("halt", a)) = 2
  BY Scripts
<1>6. Len(Script("halting", a)) = 7
  BY Scripts
<1>7. Len(Script("fixed", a)) = 5
  BY Scripts
<1> QED BY <1>3, <1>4, <1>5, <1>6, <1>7

\* Where a list is under way.
LEMMA ListPlaces ==
  ASSUME Upward, todo # <<>>
  PROVE  /\ pc = "power" \/ pc \in {"idr", "halt", "halting", "fixed"}
         /\ rv # "success" /\ todo \in Seq(Accesses)
BY DEF Upward, Types, Locals, Bridge, Accessing

\* The bridge performs a command.
LEMMA PerformKept ==
  ASSUME Upward, Choosing, Perform
  PROVE  Choosing'
<1>1. /\ cmd # NoCommand /\ cmd' = NoCommand /\ cmd \in Accesses
      /\ UNCHANGED <<target, halt, pc, rv, div, n, i, memap, apsel, todo, wait,
                     value, brg, expired>>
  BY PerformRegisters DEF Upward, Perform, callVars, ctlVars, accVars
<1>2. wait # NotStarted /\ todo # <<>> /\ cmd = Head(todo)
  BY <1>1 DEF Choosing, InTurn
<1>3. /\ pc = "power" \/ pc \in {"idr", "halt", "halting", "fixed"}
      /\ rv # "success" /\ todo \in Seq(Accesses) /\ apsel \in APs
  BY <1>2, ListPlaces DEF Upward, Types
<1>4. Left = todo /\ Left' = Tail(todo)
  BY <1>1, <1>2 DEF Left, Performed
<1>5. InTurn'
  BY <1>1 DEF InTurn
<1>6. LastMemAP' = LastMemAP /\ MemAPs' = MemAPs
  BY <1>1, SameAPs
<1>7. Found'
  BY <1>1, <1>6 DEF Choosing, Found, Scanned
<1>8. Stopped'
  <2>1. dp.halted => dp'.halted
    BY StaysHalted DEF Upward
  <2> QED BY <1>1, <1>3, <2>1 DEF Choosing, Stopped, Halted
<1>9. CASE pc = "power"
  <2>1. /\ Head(todo) = todo[1] /\ Len(todo) \in Nat \ {0}
        /\ Len(Tail(todo)) = Len(todo) - 1
        /\ \A k \in 1..Len(Tail(todo)) : Tail(todo)[k] = todo[k + 1]
    BY <1>2, <1>3, HeadTailProperties, EmptySeq
  <2>2. \A k \in 1..Len(todo) : todo[k].port = "DP"
    BY <1>4, <1>9 DEF Choosing, Progress
  <2>3. \A k \in 1..Len(Tail(todo)) : k + 1 \in 1..Len(todo)
    BY <2>1
  <2>4. Progress'
    BY <1>1, <1>4, <1>9, <2>1, <2>2, <2>3 DEF Progress
  <2>5. cmd.port = "DP"
    BY <1>2, <2>1, <2>2
  <2>6. touched' = touched
    BY <1>1, <2>5, AccessKinds DEF Perform
  <2>7. Written'
    BY <1>1, <1>6, <2>6 DEF Choosing, Written
  <2> QED BY <1>5, <1>7, <1>8, <2>4, <2>7 DEF Choosing
<1>10. CASE pc \in {"idr", "halt", "halting", "fixed"}
  <2> DEFINE s == Script(pc, apsel)
  <2>1. PICK k \in 0..7 : Rest(todo, s, k) /\ Effect(pc, k)
    BY <1>4, <1>10 DEF Choosing, Progress
  <2>2. s \in Seq(Quiet) /\ Len(s) \in 1..7
    BY <1>3, <1>10, ScriptLists, SMTT(30) DEF Places
  <2> DEFINE j == k + 1
  <2>3. j \in Nat /\ j = k + 1
    OBVIOUS
  <2> HIDE DEF j, s
  <2>4. Rest(Tail(todo), s, j) /\ Head(todo) = s[j] /\ j \in 1..Len(s)
    BY <1>2, <1>3, <2>1, <2>2, <2>3, RestNext
  <2>5. /\ Effect(pc, j)'
        /\ touched' \subseteq touched \cup IF pc = "idr" THEN {} ELSE {apsel}
    BY <1>2, <1>10, <2>1, <2>3, <2>4, EffectNext DEF s
  <2>6. j \in 0..7
    BY <2>2, <2>4
  <2>7. Progress'
    <3>1. Script(pc, apsel)' = s
      BY <1>1 DEF s, Script, APRead, APWrite
    <3>2. Rest(Left, Script(pc, apsel), j)'
      BY <1>4, <2>4, <3>1 DEF Rest
    <3> QED BY <1>1, <1>10, <2>5, <2>6, <3>2 DEF Progress
  <2>8. Written'
    <3>1. pc # "idr" => apsel = LastMemAP
      BY <1>10 DEF Choosing, Found, Driving
    <3> QED BY <1>1, <1>6, <1>10, <2>5, <3>1 DEF Choosing, Written
  <2> QED BY <1>5, <1>7, <1>8, <2>7, <2>8 DEF Choosing
<1> QED BY <1>3, <1>9, <1>10

\* A step that leaves alone what is left to be performed and what is returned.
LEMMA SameKept ==
  ASSUME Choosing, InTurn', Left' = Left, Result' = Result,
         UNCHANGED <<target, halt, pc, rv, i, memap, apsel, brg, touched>>,
         dp'.sel = dp.sel, dp'.rdbuff = dp.rdbuff, dp'.csw = dp.csw,
         dp'.tar = dp.tar, dp'.halted = dp.halted
  PROVE  Choosing'
<1>1. LastMemAP' = LastMemAP /\ MemAPs' = MemAPs
  BY SameAPs
<1>2. Found'
  BY <1>1 DEF Choosing, Found, Scanned
<1>3. Stopped'
  BY DEF Choosing, Stopped, Halted
<1>4. Written'
  BY <1>1 DEF Choosing, Written
<1>5. CASE pc = "power"
  BY <1>2, <1>3, <1>4, <1>5 DEF Choosing, Progress
<1>6. CASE pc # "power"
  <2>1. PICK k \in 0..7 : Rest(Left, Script(pc, apsel), k) /\ Effect(pc, k)
    BY <1>6 DEF Choosing, Progress
  <2>2. Effect(pc, k)'
    <3>1. /\ APValue(apsel, "IDR")' = APValue(apsel, "IDR")
          /\ APValue(apsel, "CSW")' = APValue(apsel, "CSW")
      BY DEF APValue
    <3> QED BY <2>1, <3>1 DEF Effect, Selected, Halted
  <2>3. Rest(Left, Script(pc, apsel), k)'
    <3>1. Script(pc, apsel)' = Script(pc, apsel)
      BY DEF Script, APRead, APWrite
    <3> QED BY <2>1, <3>1 DEF Rest
  <2>4. Progress'
    BY <1>6, <2>2, <2>3 DEF Progress
  <2> QED BY <1>2, <1>3, <1>4, <2>4 DEF Choosing
<1> QED BY <1>5, <1>6

\* Starting, polling for and finishing an access change nothing of this, as long
\* as the host waits for the bridge; nor does the power-up.
LEMMA AccessKept ==
  ASSUME Upward, Choosing, ~expired', Start \/ Poll \/ Finish \/ PowerUp
  PROVE  Choosing'
<1>1. dp \in Registers /\ wait \in 0..NotStarted /\ todo \in Seq(Accesses)
  BY DEF Upward, Types
<1>2. CASE Start
  <2>1. /\ todo # <<>> /\ wait = NotStarted /\ cmd' = Head(todo)
        /\ wait' = Timeout
        /\ UNCHANGED <<target, halt, pc, rv, i, memap, apsel, todo, value, brg,
                       dato, dp, touched>>
    BY <1>2 DEF Start, callVars, ctlVars
  <2>2. cmd' # NoCommand /\ wait' # NotStarted
    <3>1. Head(todo) \in Accesses
      BY <1>1, <2>1, HeadTailProperties
    <3> QED BY <2>1, <3>1, AccessKinds, Limits
  <2>3. InTurn' /\ Left' = Left /\ Result' = Result
    BY <2>1, <2>2 DEF InTurn, Left, Result, Performed
  <2> QED BY <2>1, <2>3, SameKept
<1>3. CASE Poll
  <2>1. /\ wait # NotStarted /\ cmd # NoCommand /\ wait > 0 /\ wait' = wait - 1
        /\ UNCHANGED <<target, halt, pc, rv, i, memap, apsel, todo, value, brg,
                       cmd, dato, dp, touched>>
    BY <1>3 DEF Poll, Waiting, callVars, ctlVars, devVars
  <2>2. wait' # NotStarted
    BY <1>1, <2>1, Limits
  <2>3. InTurn'
    BY <2>1, <2>2 DEF Choosing, InTurn
  <2>4. Left' = Left /\ Result' = Result
    BY <2>1, <2>2 DEF Left, Result, Performed
  <2> QED BY <2>1, <2>3, <2>4, SameKept
<1>4. CASE Finish
  <2>1. /\ wait # NotStarted /\ ~Waiting /\ todo' = Tail(todo)
        /\ wait' = NotStarted
        /\ value' = IF Head(todo).op = "write" THEN value
                    ELSE IF wait # 0 THEN dato ELSE "zero"
        /\ expired' = (expired \/ wait = 0)
        /\ UNCHANGED <<target, halt, pc, rv, i, memap, apsel, brg, cmd, dato,
                       dp, touched>>
    BY <1>4 DEF Finish, callVars, ctlVars, devVars
  <2>2. wait # 0 /\ cmd = NoCommand
    <3>1. wait # 0
      BY <2>1
    <3>2. wait > 0
      BY <1>1, <3>1, Limits
    <3> QED BY <2>1, <3>1, <3>2 DEF Waiting
  <2>3. Head(todo).op \in {"read", "write"}
    <3>1. todo # <<>>
      BY <2>1 DEF Upward, Types
    <3>2. Head(todo) \in Accesses
      BY <1>1, <3>1, HeadTailProperties
    <3> QED BY <3>2, AccessKinds
  <2>4. InTurn'
    BY <2>1, <2>2 DEF InTurn
  <2>5. Left' = Left /\ Result' = Result
    BY <2>1, <2>2, <2>3 DEF Left, Result, Performed
  <2> QED BY <2>1, <2>4, <2>5, SameKept
<1>5. CASE PowerUp
  <2>1. /\ dp' = [dp EXCEPT !.power = "acked"]
        /\ UNCHANGED <<target, halt, pc, rv, i, memap, apsel, todo, wait,
                       value, brg, cmd, dato, touched>>
    BY <1>5 DEF PowerUp, callVars, ctlVars, accVars
  <2>2. /\ dp'.sel = dp.sel /\ dp'.rdbuff = dp.rdbuff /\ dp'.csw = dp.csw
        /\ dp'.tar = dp.tar /\ dp'.halted = dp.halted
    BY <1>1, <2>1 DEF Registers
  <2>3. InTurn' /\ Left' = Left /\ Result' = Result
    BY <2>1 DEF Choosing, InTurn, Left, Result, Performed
  <2> QED BY <2>1, <2>2, <2>3, SameKept
<1> QED BY <1>2, <1>3, <1>4, <1>5

\* When the accesses of a place are made, all their effects are known.
LEMMA ListDone ==
  ASSUME Upward, Choosing, todo = <<>>
  PROVE  /\ cmd = NoCommand /\ wait = NotStarted
         /\ pc = "idr" => value = APValue(apsel, "IDR")
         /\ pc = "halting" => Halted
         /\ pc = "fixed" =>
              dp.csw[apsel] = "byte" /\ value = APValue(apsel, "CSW")
<1>1. cmd = NoCommand /\ wait = NotStarted /\ apsel \in APs
  BY DEF Choosing, InTurn, Upward, Types
<1>2. Left = <<>> /\ Result = value
  BY <1>1 DEF Left, Result, Performed
<1>3. CASE pc \in {"idr", "halt", "halting", "fixed"}
  <2> DEFINE s == Script(pc, apsel)
  <2>1. PICK k \in 0..7 : Rest(<<>>, s, k) /\ Effect(pc, k)
    BY <1>2, <1>3 DEF Choosing, Progress
  <2>2. s \in Seq(Quiet)
    BY <1>1, <1>3, ScriptLists DEF Places
  <2> HIDE DEF s
  <2>3. k = Len(s)
    BY <2>1, <2>2, RestDone
  <2>4. /\ pc = "idr" => k = 3
        /\ pc = "halting" => k = 7
        /\ pc = "fixed" => k = 5
    BY <1>1, <2>3, ScriptLists DEF s
  <2>5. CASE pc = "idr"
    BY <1>1, <1>2, <2>1, <2>4, <2>5 DEF Effect
  <2>6. CASE pc = "halting"
    BY <1>1, <2>1, <2>4, <2>6 DEF Effect
  <2>7. CASE pc = "fixed"
    BY <1>1, <1>2, <2>1, <2>4, <2>7 DEF Effect
  <2> QED BY <1>1, <2>5, <2>6, <2>7
<1> QED BY <1>1, <1>3

\* A step from one place to the next.
LEMMA ListKept ==
  ASSUME Upward, Choosing, todo = <<>>, UNCHANGED <<cmd, wait>>, pc' \in Places,
         apsel' \in APs, pc' # "power", todo' = Script(pc', apsel')
  PROVE  InTurn' /\ Progress'
<1>1. cmd' = NoCommand /\ wait' = NotStarted
  BY ListDone
<1>2. Left' = todo'
  BY <1>1 DEF Left, Performed
<1> DEFINE s == Script(pc', apsel')
<1>3. s \in Seq(Quiet) /\ todo' = s /\ Script(pc, apsel)' = s
  BY ScriptLists DEF Script, APRead, APWrite
<1> HIDE DEF s
<1>4. Rest(s, s, 0)
  BY <1>3, RestStart
<1>5. Rest(Left, Script(pc, apsel), 0)'
  BY <1>2, <1>3, <1>4 DEF Rest
<1>6. Effect(pc, 0)'
  BY DEF Effect
<1>7. InTurn'
  BY <1>1 DEF InTurn
<1>8. Progress'
  BY <1>5, <1>6 DEF Progress
<1> QED BY <1>7, <1>8

\* The scan of a suitable port ends before the index that Target reserves, and
\* with the last MEM-AP.
LEMMA ScanEnds ==
  ASSUME Types, Suitable, Scanned(i)
  PROVE  /\ i < Keep
         /\ target.aps[i] = "none" => memap = LastMemAP /\ memap \in MemAPs
<1>1. /\ i \in 0..NumAP /\ Keep \in Nat /\ Keep >= 1 /\ NumAP = Keep + 1
      /\ memap \in 0..Keep
  BY Limits DEF Types, APs
<1>2. i < Keep
  <2> SUFFICES ASSUME ~(i < Keep) PROVE FALSE
    OBVIOUS
  <2>1. \A b \in 0..(Keep - 1) : b \in 0..(i - 1)
    BY <1>1
  <2>2. Keep - 1 \in 0..Keep
    BY <1>1
  <2>3. Keep - 1 \in Present
    BY <2>1, <2>2 DEF Present, Scanned
  <2> QED BY <2>3 DEF Suitable
<1>3. ASSUME target.aps[i] = "none"
      PROVE  memap = LastMemAP /\ memap \in MemAPs
  <2>1. ASSUME NEW a \in Present PROVE a \in 0..(i - 1)
    <3>1. a \in 0..Keep /\ \A b \in 0..a : target.aps[b] # "none"
      BY DEF Present
    <3>2. i \notin 0..a
      BY <1>3, <3>1
    <3> QED BY <1>1, <3>1, <3>2
  <2>2. ASSUME NEW a \in 0..(i - 1) PROVE a \in Present
    <3>1. a \in 0..Keep /\ \A b \in 0..a : b \in 0..(i - 1)
      BY <1>1, <1>2
    <3> QED BY <3>1 DEF Present, Scanned
  <2>3. PICK a \in MemAPs : TRUE
    BY DEF Suitable
  <2>4. a \in 0..(i - 1) /\ target.aps[a] = "mem"
    BY <2>1 DEF MemAPs
  <2>5. /\ memap \in 0..(i - 1) /\ target.aps[memap] = "mem"
        /\ \A b \in (memap + 1)..(i - 1) : target.aps[b] # "mem"
    BY <2>4 DEF Scanned
  <2>6. memap \in MemAPs
    BY <2>2, <2>5 DEF MemAPs
  <2>7. ASSUME NEW b \in MemAPs PROVE b <= memap
    <3>1. b \in 0..(i - 1) /\ target.aps[b] = "mem"
      BY <2>1 DEF MemAPs
    <3>2. b \notin (memap + 1)..(i - 1)
      BY <2>5, <3>1
    <3> QED BY <1>1, <2>5, <3>1, <3>2
  <2> DEFINE P(m) == m \in MemAPs /\ \A b \in MemAPs : b <= m
  <2>8. ASSUME NEW m, P(m) PROVE m = memap
    <3>1. m \in 0..Keep
      BY <2>8 DEF MemAPs, Present
    <3>2. m <= memap /\ memap <= m
      BY <2>6, <2>7, <2>8
    <3> QED BY <1>1, <3>1, <3>2
  <2>9. P(memap)
    BY <2>6, <2>7
  <2>10. LastMemAP = CHOOSE m : P(m)
    BY DEF LastMemAP
  <2> HIDE DEF P
  <2> QED BY <2>6, <2>8, <2>9, <2>10
<1> QED BY <1>2, <1>3

\* Neither is the AP chosen the reserved index.
LEMMA ChosenBelow ==
  ASSUME Suitable, NEW a \in MemAPs
  PROVE  a \in APs /\ a # Keep
<1>1. a \in 0..Keep /\ \A b \in 0..a : target.aps[b] # "none"
  BY DEF MemAPs, Present
<1>2. a # Keep
  <2> SUFFICES ASSUME a = Keep PROVE FALSE
    OBVIOUS
  <2>1. Keep - 1 \in 0..Keep /\ \A b \in 0..(Keep - 1) : b \in 0..Keep
    BY Limits
  <2>2. Keep - 1 \in Present
    BY <1>1, <2>1 DEF Present
  <2> QED BY <2>2 DEF Suitable
<1> QED BY <1>1, <1>2 DEF APs

\* Connecting writes no AP.
LEMMA ConnectKept ==
  ASSUME Upward, Choosing, Suitable, Connect \/ PollIDCode \/ CheckStat \/ Power
  PROVE  Choosing'
<1> DEFINE Early == {"connect", "idcode", "check", "power"}
<1>1. /\ pc \in Early /\ todo = <<>> /\ rv # "success" /\ apsel \in APs
      /\ UNCHANGED <<target, halt, wait, cmd, i, memap, apsel, touched>>
      /\ rv' # "success"
      /\ \/ /\ pc' \in {"connect", "idcode", "check", "scan", "fail_ahb",
                         "close_ahb"}
            /\ todo' = <<>>
         \/ pc' = "power" /\ todo' = <<Rd("DP", "CTLSTAT")>>
         \/ pc' = "power" /\ todo' = <<PowerUpRequest, Rd("DP", "CTLSTAT")>>
  <2>1. rv # "success" /\ apsel \in APs
    BY DEF Upward, Types, Bridge, Connect, PollIDCode, CheckStat, Power, At
  <2>2. CASE Connect
    BY <2>1, <2>2, AtFrame DEF Connect, Goto
  <2>3. CASE PollIDCode
    BY <2>1, <2>3 DEF PollIDCode, callVars, devVars
  <2>4. CASE CheckStat
    <3>1. PICK stat \in Stats :
            CASE stat = "ERR_NOCONNECT" ->
                   Goto("fail_ahb", <<>>) /\ UNCHANGED <<brg, div, n>>
              [] stat = "ERR_FAULT" \/ (stat = "SUCCESS" /\ value # "arm") ->
                   Retry /\ UNCHANGED n
              [] OTHER ->
                   /\ Goto("power", <<Wr("DP", "CTLSTAT", "asked"),
                                      Rd("DP", "CTLSTAT")>>)
                   /\ n' = Polls /\ UNCHANGED <<brg, div>>
      BY <2>4 DEF CheckStat
    <3>2. /\ pc = "check" /\ todo = <<>>
          /\ UNCHANGED <<target, halt, wait, value, cmd, dato, dp, touched,
                         expired, rv, i, memap, apsel>>
      BY <2>4, AtFrame DEF CheckStat
    <3>3. CASE stat = "ERR_NOCONNECT"
      BY <2>1, <3>1, <3>2, <3>3 DEF Goto
    <3>4. CASE /\ stat # "ERR_NOCONNECT"
               /\ stat = "ERR_FAULT" \/ (stat = "SUCCESS" /\ value # "arm")
      BY <2>1, <3>1, <3>2, <3>4 DEF Goto, Retry
    <3>5. CASE /\ stat # "ERR_NOCONNECT"
               /\ ~(stat = "ERR_FAULT" \/ (stat = "SUCCESS" /\ value # "arm"))
      BY <2>1, <3>1, <3>2, <3>5 DEF Goto, PowerUpRequest
    <3> QED BY <3>3, <3>4, <3>5
  <2>5. CASE Power
    BY <2>1, <2>5, AtFrame DEF Power, Goto
  <2> QED BY <2>2, <2>3, <2>4, <2>5
<1>2. LastMemAP' = LastMemAP /\ MemAPs' = MemAPs
  BY <1>1, SameAPs
<1>3. /\ i = 0 /\ memap = Keep /\ touched = {}
      /\ cmd = NoCommand /\ wait = NotStarted
  BY <1>1, ListDone DEF Choosing, Found, Written
<1>4. Scanned(i)'
  BY <1>1, <1>3 DEF Scanned
<1>5. Found'
  BY <1>1, <1>3, <1>4 DEF Found, Driving
<1>6. Stopped' /\ Written'
  BY <1>1, <1>3 DEF Stopped, Written
<1>7. CASE pc' # "power"
  <2>1. pc' \in Places /\ todo' = Script(pc', apsel')
    BY <1>1, <1>7 DEF Script, Places
  <2>2. InTurn' /\ Progress'
    BY <1>1, <1>7, <2>1, ListKept
  <2> QED BY <1>5, <1>6, <2>2 DEF Choosing
<1>8. CASE pc' = "power"
  <2>1. Left' = todo' /\ InTurn'
    BY <1>1, <1>3 DEF Left, Performed, InTurn
  <2>2. Rd("DP", "CTLSTAT").port = "DP" /\ PowerUpRequest.port = "DP"
    BY DEF Rd, Wr, PowerUpRequest
  <2> DEFINE c == Rd("DP", "CTLSTAT")
             d == PowerUpRequest
  <2>3. (todo' = <<c>> \/ todo' = <<d, c>>) /\ c.port = "DP" /\ d.port = "DP"
    BY <1>1, <1>8, <2>2
  <2> HIDE DEF c, d
  <2>4. \A k \in 1..Len(todo') : todo'[k].port = "DP"
    BY <2>3
  <2>5. Progress'
    BY <1>8, <2>1, <2>4 DEF Progress
  <2> QED BY <1>5, <1>6, <2>1, <2>5 DEF Choosing
<1> QED BY <1>7, <1>8

\* The scan, and its end.
LEMMA ScanKept ==
  ASSUME Upward, Choosing, Suitable, Scan \/ Idr
  PROVE  Choosing'
<1>1. /\ pc \in {"scan", "idr"} /\ todo = <<>>
      /\ UNCHANGED <<target, halt, wait, value, cmd, dato, dp, touched,
                     expired, rv>>
  BY AtFrame DEF Scan, Idr
<1>2. /\ Scanned(i) /\ i < Keep /\ i \in 0..NumAP /\ touched = {}
      /\ rv # "success"
      /\ target.aps[i] = "none" => memap = LastMemAP /\ memap \in MemAPs
      /\ i \in Nat /\ i < NumAP /\ apsel \in APs /\ i \in APs /\ Types
  <2>1. Scanned(i) /\ Types /\ touched = {} /\ rv # "success"
    BY <1>1 DEF Choosing, Found, Written, Upward, Bridge
  <2>2. /\ i < Keep /\ i \in 0..NumAP /\ apsel \in APs
        /\ target.aps[i] = "none" => memap = LastMemAP /\ memap \in MemAPs
    BY <2>1, ScanEnds DEF Types
  <2> QED BY <2>1, <2>2, Limits DEF APs
<1>3. LastMemAP' = LastMemAP /\ MemAPs' = MemAPs
  BY <1>1, SameAPs
<1>4. CASE Scan
  <2>1. /\ pc' = "idr" /\ apsel' = i /\ todo' = APRead(i, "IDR")
        /\ UNCHANGED <<i, memap>>
    BY <1>2, <1>4 DEF Scan, Goto, Addressed
  <2>2. InTurn' /\ Progress'
    <3>1. todo' = Script(pc', apsel')
      BY <2>1 DEF Script
    <3> QED BY <1>1, <1>2, <2>1, <3>1, ListKept DEF Places
  <2>3. Found'
    BY <1>1, <1>2, <2>1 DEF Found, Scanned, Driving
  <2>4. Stopped' /\ Written'
    BY <1>1, <1>2, <2>1 DEF Stopped, Written
  <2> QED BY <2>2, <2>3, <2>4 DEF Choosing
<1>5. CASE Idr
  <2>1. /\ pc = "idr" /\ apsel = i /\ value = APValue(i, "IDR")
    BY <1>1, <1>5, ListDone DEF Idr, At, Choosing, Found
  <2>2. /\ target.aps[i] \in Kinds
        /\ value = IF target.aps[i] = "none" THEN "zero" ELSE target.aps[i]
    <3>1. i \in APs /\ target \in Targets
      BY <1>2, Limits DEF Types, APs
    <3>2. target.aps \in [APs -> Kinds]
      BY <3>1, RemoteAssumption DEF APs
    <3>3. target.aps[i] \in Kinds
      BY <3>1, <3>2
    <3>4. APValue(i, "IDR") = IF target.aps[i] = "none" THEN "zero"
                                                         ELSE target.aps[i]
      BY DEF APValue
    <3> QED BY <2>1, <3>3, <3>4
  <2>3. CASE target.aps[i] = "none"
    <3>1. pc' = "chosen" /\ todo' = <<>> /\ UNCHANGED <<i, memap, apsel>>
      BY <1>5, <2>2, <2>3 DEF Idr, Goto
    <3>2. InTurn' /\ Progress'
      <4>1. todo' = Script(pc', apsel')
        BY <3>1 DEF Script
      <4> QED BY <1>1, <1>2, <3>1, <4>1, ListKept DEF Places
    <3>3. Found'
      BY <1>1, <1>2, <1>3, <2>3, <3>1 DEF Found, Driving
    <3>4. Stopped' /\ Written'
      BY <1>1, <1>2, <3>1 DEF Stopped, Written
    <3> QED BY <3>2, <3>3, <3>4 DEF Choosing
  <2>4. CASE target.aps[i] # "none"
    <3>1. /\ pc' = "scan" /\ todo' = <<>> /\ i' = i + 1 /\ UNCHANGED apsel
          /\ memap' = IF target.aps[i] = "mem" THEN i ELSE memap
      BY <1>5, <2>2, <2>4 DEF Idr, Goto, Kinds
    <3>2. InTurn' /\ Progress'
      <4>1. todo' = Script(pc', apsel')
        BY <3>1 DEF Script
      <4> QED BY <1>1, <1>2, <3>1, <4>1, ListKept DEF Places
    <3>3. Scanned(i)'
      <4> DEFINE m == i + 1
      <4>1. \A a \in 0..(m - 1) : a \in 0..(i - 1) \/ a = i
        BY <1>2
      <4>2. \A a \in 0..(m - 1) : target.aps[a] # "none"
        BY <1>2, <2>4, <4>1 DEF Scanned
      <4>3. CASE target.aps[i] = "mem"
        <5>1. memap' = i /\ i \in 0..(m - 1) /\ (i + 1)..(m - 1) = {}
          BY <1>2, <3>1, <4>3
        <5> QED BY <1>1, <3>1, <4>2, <4>3, <5>1 DEF Scanned
      <4>4. CASE /\ target.aps[i] # "mem" /\ memap = Keep
                 /\ \A a \in 0..(i - 1) : target.aps[a] # "mem"
        <5>1. memap' = Keep /\ \A a \in 0..(m - 1) : target.aps[a] # "mem"
          BY <3>1, <4>1, <4>4
        <5> QED BY <1>1, <3>1, <4>2, <5>1 DEF Scanned
      <4>5. CASE /\ target.aps[i] # "mem"
                 /\ memap \in 0..(i - 1) /\ target.aps[memap] = "mem"
                 /\ \A a \in (memap + 1)..(i - 1) : target.aps[a] # "mem"
        <5>1. /\ memap' = memap /\ memap \in 0..(m - 1)
              /\ \A a \in (memap + 1)..(m - 1) :
                   a \in (memap + 1)..(i - 1) \/ a = i
          BY <1>2, <3>1, <4>5
        <5>2. \A a \in (memap + 1)..(m - 1) : target.aps[a] # "mem"
          BY <4>5, <5>1
        <5> QED BY <1>1, <3>1, <4>2, <4>5, <5>1, <5>2 DEF Scanned
      <4> QED BY <1>2, <4>3, <4>4, <4>5 DEF Scanned
    <3>4. Found'
      BY <1>1, <1>2, <3>1, <3>3 DEF Found, Driving
    <3>5. Stopped' /\ Written'
      BY <1>1, <1>2, <3>1 DEF Stopped, Written
    <3> QED BY <3>2, <3>4, <3>5 DEF Choosing
  <2> QED BY <2>3, <2>4
<1> QED BY <1>4, <1>5 DEF Scan, Idr

\* The AP found is passed on, written and read back.
LEMMA DriveKept ==
  ASSUME Upward, Choosing, Suitable, Chosen \/ Halt \/ Halting \/ Size
  PROVE  Choosing'
<1>1. /\ pc \in {"chosen", "halt", "halting", "size"} /\ todo = <<>>
      /\ UNCHANGED <<target, halt, wait, value, cmd, dato, dp, touched,
                     expired, rv, i, memap, brg>>
  BY AtFrame DEF Chosen, Halt, Halting, Size
<1>2. /\ memap = LastMemAP /\ memap \in MemAPs /\ memap \in APs /\ memap # Keep
      /\ memap # NumAP /\ rv # "success" /\ touched \subseteq {LastMemAP}
      /\ pc # "chosen" => apsel = memap
  <2>1. /\ memap = LastMemAP /\ memap \in MemAPs
        /\ touched \subseteq {LastMemAP} /\ (pc # "chosen" => apsel = memap)
    BY <1>1 DEF Choosing, Found, Written, Driving
  <2>2. memap \in APs /\ memap # Keep
    BY <2>1, ChosenBelow
  <2>3. rv # "success"
    BY <1>1 DEF Upward, Bridge
  <2> QED BY <2>1, <2>2, <2>3, Limits DEF APs
<1>3. LastMemAP' = LastMemAP /\ MemAPs' = MemAPs
  BY <1>1, SameAPs
<1>4. /\ pc' \in {"halt", "halting", "size", "fixed", "fail_ahb"}
      /\ todo' = Script(pc', apsel') /\ apsel' \in APs
      /\ pc' # "fail_ahb" => apsel' = memap
      /\ pc' = "size" => (halt => pc = "halting")
      /\ pc' = "fixed" => pc = "size"
  <2>1. CASE Chosen
    <3>1. /\ pc' = "halt" /\ apsel' = memap
          /\ todo' = APWrite(memap, "CSW", "word")
      BY <1>2, <2>1 DEF Chosen, Goto, Addressed
    <3> QED BY <1>2, <3>1 DEF Script
  <2>2. CASE Halt
    <3>1. /\ pc = "halt" /\ apsel' = apsel /\ apsel = memap
          /\ \/ /\ pc' = "halting"
                /\ todo' = APWrite(apsel, "TAR", "SCB_DHCSR")
                           \o APWrite(apsel, "DRW", "DEBUG_HALT")
                           \o APRead(apsel, "DRW")
             \/ pc' = "size" /\ todo' = <<>> /\ ~halt
      BY <1>2, <2>2 DEF Halt, At, Goto
    <3> QED BY <1>2, <3>1 DEF Script
  <2>3. CASE Halting
    <3>1. /\ pc = "halting" /\ apsel' = apsel /\ apsel = memap
          /\ pc' \in {"fail_ahb", "size"} /\ todo' = <<>>
      BY <1>2, <2>3 DEF Halting, At, Goto
    <3> QED BY <1>2, <3>1 DEF Script
  <2>4. CASE Size
    <3>1. /\ pc = "size" /\ apsel' = apsel /\ apsel = memap /\ pc' = "fixed"
          /\ todo' = APWrite(apsel, "CSW", "byte") \o APRead(apsel, "CSW")
      BY <1>2, <2>4 DEF Size, At, Goto
    <3> QED BY <1>2, <3>1 DEF Script
  <2> QED BY <2>1, <2>2, <2>3, <2>4
<1>5. InTurn' /\ Progress'
  BY <1>1, <1>4, ListKept DEF Places
<1>6. Found'
  BY <1>1, <1>2, <1>3, <1>4 DEF Found, Driving
<1>7. Stopped'
  <2>1. CASE pc' = "size"
    <3>1. halt => Halted
      BY <1>1, <1>4, <2>1, ListDone
    <3> QED BY <1>1, <3>1 DEF Stopped, Halted
  <2>2. CASE pc' = "fixed"
    BY <1>1, <1>4, <2>2 DEF Choosing, Stopped, Halted
  <2>3. CASE pc' \notin {"size", "fixed"}
    BY <1>1, <1>2, <1>4, <2>3 DEF Stopped
  <2> QED BY <2>1, <2>2, <2>3
<1>8. Written'
  BY <1>1, <1>2, <1>3, <1>4 DEF Written
<1> QED BY <1>5, <1>6, <1>7, <1>8 DEF Choosing

\* The size read back is what the AP has.
LEMMA FixedKept ==
  ASSUME Upward, Choosing, Fixed
  PROVE  Choosing'
<1>1. /\ pc = "fixed" /\ todo = <<>> /\ pc' = "open" /\ todo' = <<>>
      /\ rv' = "success"
      /\ brg' = [brg EXCEPT !.fixed = (value = "word"), !.apsel = memap]
      /\ UNCHANGED <<target, halt, wait, value, cmd, dato, dp, touched,
                     expired, i, memap, apsel>>
  BY AtFrame DEF Fixed, Goto
<1>2. /\ memap = LastMemAP /\ memap \in MemAPs /\ apsel = memap /\ apsel \in APs
      /\ target \in Targets /\ touched \subseteq {LastMemAP}
      /\ brg \in [en : BOOLEAN, ahb : BOOLEAN, apsel : APs, fixed : BOOLEAN]
  <2>1. memap = LastMemAP /\ memap \in MemAPs /\ apsel = memap
    BY <1>1 DEF Choosing, Found, Driving
  <2>2. /\ apsel \in APs /\ target \in Targets
        /\ brg \in [en : BOOLEAN, ahb : BOOLEAN, apsel : APs, fixed : BOOLEAN]
    BY DEF Upward, Types, BridgeRegs, APs
  <2>3. touched \subseteq {LastMemAP}
    BY DEF Choosing, Written
  <2> QED BY <2>1, <2>2, <2>3
<1>3. LastMemAP' = LastMemAP /\ MemAPs' = MemAPs
  BY <1>1, SameAPs
<1>4. value = "word" <=> target.fixed
  <2>1. dp.csw[apsel] = "byte" /\ value = APValue(apsel, "CSW")
    BY <1>1, ListDone
  <2>2. target.aps[apsel] = "mem"
    BY <1>2 DEF MemAPs
  <2> QED BY <2>1, <2>2 DEF APValue
<1>5. brg'.apsel = LastMemAP /\ brg'.fixed = target.fixed
  <2>1. target.fixed \in BOOLEAN
    BY <1>2, RemoteAssumption
  <2>2. (value = "word") = target.fixed
    BY <1>4, <2>1
  <2>3. brg'.apsel = memap /\ brg'.fixed = (value = "word")
    BY <1>1, <1>2
  <2> QED BY <1>2, <2>2, <2>3
<1>6. InTurn' /\ Progress'
  <2>1. todo' = Script(pc', apsel')
    BY <1>1 DEF Script
  <2> QED BY <1>1, <1>2, <2>1, ListKept DEF Places
<1>7. Found'
  BY <1>1, <1>2, <1>3, <1>5 DEF Found, Driving
<1>8. Stopped' /\ Written'
  BY <1>1, <1>2, <1>3 DEF Choosing, Stopped, Halted, Written
<1> QED BY <1>6, <1>7, <1>8 DEF Choosing

\* The ways out, and remote_close.
LEMMA CloseKept ==
  ASSUME Upward, Choosing, FailAHB \/ FailEn \/ EnableAHB \/ CloseAHB \/ CloseEn
  PROVE  Choosing'
<1>1. /\ pc \in {"fail_ahb", "fail_en", "open", "close_ahb", "close_en"}
      /\ pc' \in {"fail_en", "close_ahb", "close_en", "closed"}
      /\ todo = <<>> /\ todo' = <<>> /\ (rv' = rv \/ rv' = "error")
      /\ \/ brg' = [brg EXCEPT !.ahb = FALSE]
         \/ brg' = [brg EXCEPT !.ahb = TRUE]
         \/ brg' = [brg EXCEPT !.en = FALSE]
      /\ UNCHANGED <<target, halt, wait, value, cmd, dato, dp, touched,
                     expired, i, memap, apsel>>
  <2>1. CASE FailAHB
    BY <2>1, AtFrame DEF FailAHB, Goto
  <2>2. CASE FailEn
    BY <2>2, AtFrame DEF FailEn, Goto
  <2>3. CASE EnableAHB
    BY <2>3, AtFrame DEF EnableAHB, Goto
  <2>4. CASE CloseAHB
    BY <2>4, AtFrame DEF CloseAHB, Goto
  <2>5. CASE CloseEn
    BY <2>5, AtFrame DEF CloseEn, Goto
  <2> QED BY <2>1, <2>2, <2>3, <2>4, <2>5
<1>2. brg'.apsel = brg.apsel /\ brg'.fixed = brg.fixed /\ apsel \in APs
  <2>1. brg \in BridgeRegs /\ apsel \in APs
    BY DEF Upward, Types
  <2>2. \/ brg' = [brg EXCEPT !.ahb = FALSE]
        \/ brg' = [brg EXCEPT !.ahb = TRUE]
        \/ brg' = [brg EXCEPT !.en = FALSE]
    BY <1>1
  <2> QED BY <2>1, <2>2 DEF BridgeRegs
<1>3. LastMemAP' = LastMemAP /\ MemAPs' = MemAPs
  BY <1>1, SameAPs
<1>4. InTurn' /\ Progress'
  <2>1. todo' = Script(pc', apsel')
    BY <1>1 DEF Script
  <2> QED BY <1>1, <1>2, <2>1, ListKept DEF Places
<1>5. Found'
  BY <1>1, <1>2, <1>3 DEF Choosing, Found, Driving
<1>6. Stopped' /\ Written'
  BY <1>1, <1>3 DEF Choosing, Stopped, Halted, Written
<1> QED BY <1>4, <1>5, <1>6 DEF Choosing

LEMMA KeptInvariance == Spec => [](Upward /\ Kept)
<1>1. Init => Kept
  <2> SUFFICES ASSUME Init PROVE Choosing
    BY DEF Kept
  <2>1. Left = <<>> /\ InTurn
    BY DEF Init, Left, Performed, InTurn
  <2>2. Rest(Left, Script(pc, apsel), 0) /\ Effect(pc, 0)
    <3>1. pc = "connect" /\ Script(pc, apsel) = <<>>
      BY DEF Init, Script
    <3>2. <<>> \in Seq(Quiet)
      BY EmptySeq
    <3> QED BY <2>1, <3>1, <3>2, RestStart DEF Effect
  <2>3. Progress
    BY <2>2 DEF Init, Progress
  <2>4. Found /\ Stopped /\ Written
    BY DEF Init, Found, Stopped, Written, Driving
  <2> QED BY <2>1, <2>3, <2>4 DEF Choosing
<1>2. Upward /\ Kept /\ [Next]_vars => Kept'
  <2> SUFFICES ASSUME Upward, Kept, [Next]_vars, Suitable', ~expired'
               PROVE  Choosing'
    BY DEF Kept
  <2>1. /\ target' = target /\ (expired => expired')
    <3>1. CASE Finish
      BY <3>1 DEF Finish, callVars
    <3>2. CASE Start \/ Poll \/ PollIDCode \/ Perform \/ PowerUp
      <4>1. CASE Start \/ Poll \/ PollIDCode \/ PowerUp
        BY <4>1 DEF Start, Poll, PollIDCode, PowerUp, callVars
      <4>2. CASE Perform
        <5>1. UNCHANGED <<callVars, expired>>
          BY <4>2 DEF Perform
        <5> QED BY <5>1 DEF callVars
      <4> QED BY <3>2, <4>1, <4>2
    <3>3. CASE \/ Connect \/ CheckStat \/ Power \/ Scan \/ Idr \/ Chosen \/ Halt
               \/ Halting \/ Size \/ Fixed \/ FailAHB \/ FailEn \/ EnableAHB
               \/ CloseAHB \/ CloseEn
      BY <3>3, AtFrame
         DEF Connect, CheckStat, Power, Scan, Idr, Chosen, Halt, Halting, Size,
             Fixed, FailAHB, FailEn, EnableAHB, CloseAHB, CloseEn
    <3>4. CASE UNCHANGED vars
      BY <3>4 DEF vars, callVars
    <3> QED BY <3>1, <3>2, <3>3, <3>4 DEF Next, Host
  <2>2. Suitable /\ Choosing
    BY <2>1, SameAPs DEF Kept
  <2>3. CASE Next
    <3>1. CASE Start \/ Poll \/ Finish \/ PowerUp
      BY <2>2, <3>1, AccessKept
    <3>2. CASE Perform
      BY <2>2, <3>2, PerformKept
    <3>3. CASE Connect \/ PollIDCode \/ CheckStat \/ Power
      BY <2>2, <3>3, ConnectKept
    <3>4. CASE Scan \/ Idr
      BY <2>2, <3>4, ScanKept
    <3>5. CASE Chosen \/ Halt \/ Halting \/ Size
      BY <2>2, <3>5, DriveKept
    <3>6. CASE Fixed
      BY <2>2, <3>6, FixedKept
    <3>7. CASE FailAHB \/ FailEn \/ EnableAHB \/ CloseAHB \/ CloseEn
      BY <2>2, <3>7, CloseKept
    <3> QED BY <2>3, <3>1, <3>2, <3>3, <3>4, <3>5, <3>6, <3>7 DEF Next, Host
  <2>4. CASE UNCHANGED vars
    <3>1. /\ UNCHANGED <<target, halt, pc, rv, i, memap, apsel, todo, wait,
                         value, brg, cmd, dato, dp, touched>>
      BY <2>4 DEF vars, callVars, ctlVars, accVars, devVars
    <3>2. InTurn' /\ Left' = Left /\ Result' = Result
      BY <2>2, <3>1 DEF Choosing, InTurn, Left, Result, Performed
    <3> QED BY <2>2, <3>1, <3>2, SameKept
  <2> QED BY <2>3, <2>4
<1> QED BY <1>1, <1>2, UpwardInvariance, PTL DEF Spec

\* When no access was given up, only the last MEM-AP of the list is written,
\* though most calls leave the AP to Target's apsel (Target.cpp:315,
\* remote.cpp:143-193).
THEOREM OnlyChosenWritten == Spec => []DrivesChosenAP
<1>1. Kept => DrivesChosenAP
  BY DEF Kept, Choosing, Written, DrivesChosenAP
<1> QED BY <1>1, KeptInvariance, PTL

\* When no access was given up, success means that the bus bridge uses the last
\* MEM-AP, that the CPU was halted if asked for and able to, and that
\* brg_csw_fixed, which the bridge does not see, says whether this AP has one
\* size only (remote.cpp:143-193).
THEOREM ConfiguredRight == Spec => []Configured
<1>1. Kept => Configured
  BY DEF Kept, Choosing, Found, Stopped, Halted, Configured
<1> QED BY <1>1, KeptInvariance, PTL
=============================================================================
