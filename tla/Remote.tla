------------------------------- MODULE Remote -------------------------------
(***************************************************************************)
(* remote_open and remote_close: bringing up the bridge to a debug port.   *)
(* The host has the control registers of the bridge (brg) and nothing      *)
(* else: a register of the debug port (DP) or of one of its access ports   *)
(* (AP) is accessed with a command, started by a write to brg_ctrl and     *)
(* polled for until it is done or remote_timeout polls have passed.  Both  *)
(* outcomes look alike to the caller, but for the 0 that a read returns.   *)
(*                                                                         *)
(* The bridge and the target behind it are not in the repository.  They    *)
(* perform a command at any moment after it was started, or never; one     *)
(* that was not performed is replaced by the next.  (A bridge that reports *)
(* an earlier command done while the host polls for the next one, and one  *)
(* that still has a command of a killed process, are left out.)            *)
(***************************************************************************)
EXTENDS Naturals, Sequences

CONSTANTS MaxDiv,       \* largest clock divisor (31)
          Divs,         \* divisors the user asks for
          Polls,        \* timeout in remote_open (100)
          Timeout,      \* remote_timeout (10)
          NumAP,        \* APs a debug port can have (256)
          Targets       \* set of [link, aps, fixed, halts, brg, power], see
                        \*   below

\* An AP index of 255 (-1 in eight bits) leaves Target's apsel alone.
Keep == NumAP - 1

\* The control registers of the bridge: brg_en, brg_ahb_en, brg_apsel and
\* brg_csw_fixed.
BridgeRegs == [en : BOOLEAN, ahb : BOOLEAN, apsel : 0..Keep, fixed : BOOLEAN]

\* link: the smallest divisor that works, or NoLink; aps: what is at each
\* index; fixed: CSW has one size only; halts: the CPU stops when told to;
\* brg and power: what remote_open finds in the bridge's registers and in the
\* port's, which outlive a command that is killed.
NoLink == MaxDiv + 1
Kinds == {"none", "other", "mem"}
Powers == {"off", "asked", "acked"}
ASSUME RemoteAssumption ==
  /\ MaxDiv \in Nat /\ Divs \subseteq Nat /\ NumAP \in Nat \ {0, 1}
  /\ Polls \in Nat \ {0, 1} /\ Timeout \in Nat \ {0}
  /\ Targets \subseteq [link : 0..NoLink, aps : [0..Keep -> Kinds],
                        fixed : BOOLEAN, halts : BOOLEAN,
                        brg : BridgeRegs, power : Powers]

VARIABLES target,       \* the member of Targets that is connected
          halt,         \* the user wants the CPU halted
          pc, rv,       \* place in remote_open; what it returned
          div, n, i,    \* its locals
          memap,        \* ... apsel, the AP chosen
          apsel,        \* Target's apsel, the AP last addressed
          todo,         \* register accesses still to be made
          wait,         \* polls left for the one under way, or NotStarted
          value,        \* what the last one returned
          brg,          \* control registers of the bridge
          cmd, dato,    \* command under way in the bridge; data read
          dp,           \* registers of the target
          touched,      \* history: APs written
          expired       \* history: an access was given up

callVars == <<target, halt>>
ctlVars == <<pc, rv, div, n, i, memap>>
accVars == <<apsel, todo, wait, value>>
devVars == <<cmd, dato, dp, touched>>
vars == <<callVars, ctlVars, accVars, brg, devVars, expired>>

NotStarted == Timeout + 1
NoCommand == [op |-> "none"]
Rd(port, reg) == [op |-> "read", port |-> port, reg |-> reg]
Wr(port, reg, val) == [op |-> "write", port |-> port, reg |-> reg, val |-> val]
Select(ap, reg) == Wr("DP", "SELECT", [ap |-> ap, reg |-> reg])

\* The target's other registers are written before they are read.
Init ==
  /\ target \in Targets /\ halt \in BOOLEAN /\ div \in Divs
  /\ pc = "connect" /\ rv = "none" /\ n = 0 /\ i = 0 /\ memap = Keep
  /\ apsel = 0 /\ todo = <<>> /\ wait = NotStarted /\ value = "zero"
  /\ brg = target.brg
  /\ cmd = NoCommand /\ dato = "zero"
  /\ dp = [sel |-> [ap |-> 0, reg |-> "CSW"], power |-> target.power,
           rdbuff |-> "zero", csw |-> [a \in 0..(NumAP - 1) |-> "word"],
           tar |-> [a \in 0..(NumAP - 1) |-> "zero"], halted |-> FALSE]
  /\ touched = {} /\ expired = FALSE

-----------------------------------------------------------------------------
(* The registers behind the bridge.                                        *)

\* IDR and DRW have the same two address bits; SELECT holds the others.
Low(reg) == IF reg = "IDR" THEN "DRW" ELSE reg
Reached(reg) ==
  CASE dp.sel.reg = "IDR" /\ Low(reg) = "DRW" -> "IDR"
    [] dp.sel.reg = "IDR" /\ Low(reg) # "DRW" -> "other"
    [] OTHER -> Low(reg)

\* What an AP answers.
APValue(ap, reg) ==
  CASE reg = "IDR" -> IF target.aps[ap] = "none" THEN "zero" ELSE target.aps[ap]
    [] reg = "CSW" /\ target.aps[ap] = "mem" ->
         IF target.fixed THEN "word" ELSE dp.csw[ap]
    [] OTHER -> "zero"

\* A debug part that is powered already stays so.
DPWrite(c) ==
  IF c.reg = "SELECT"
    THEN dp' = [dp EXCEPT !.sel = c.val]
    ELSE dp' = [dp EXCEPT !.power = IF @ = "off" THEN "asked" ELSE @]

APWritten(c, ap, reg) ==
  CASE reg = "CSW" -> dp' = [dp EXCEPT !.csw[ap] = c.val]
    [] reg = "TAR" -> dp' = [dp EXCEPT !.tar[ap] = c.val]
    [] reg = "DRW" /\ c.val = "DEBUG_HALT" /\ dp.tar[ap] = "SCB_DHCSR"
       /\ target.aps[ap] = "mem" /\ target.halts -> dp' = [dp EXCEPT !.halted = TRUE]
    [] OTHER -> dp' = dp

\* What is connected to the bridge: of the four registers, not brg_csw_fixed.
BridgePort == [EN |-> brg.en, AHB_EN |-> brg.ahb, AHB_APSEL |-> brg.apsel]

\* The bridge performs the command under way.
Perform ==
  /\ cmd # NoCommand /\ BridgePort.EN
  /\ cmd' = NoCommand
  /\ CASE cmd.port = "DP" /\ cmd.op = "write" ->
            DPWrite(cmd) /\ UNCHANGED <<dato, touched>>
       [] cmd.port = "DP" /\ cmd.op = "read" ->
            /\ dato' = IF cmd.reg = "RDBUFF" THEN dp.rdbuff ELSE dp.power
            /\ UNCHANGED <<dp, touched>>
       [] cmd.port = "AP" /\ cmd.op = "write" ->
            /\ APWritten(cmd, dp.sel.ap, Reached(cmd.reg))
            /\ touched' = touched \cup {dp.sel.ap}
            /\ UNCHANGED dato
       [] cmd.port = "AP" /\ cmd.op = "read" ->
            /\ dp' = [dp EXCEPT !.rdbuff = APValue(dp.sel.ap, Reached(cmd.reg))]
            /\ UNCHANGED <<dato, touched>>
  /\ UNCHANGED <<callVars, ctlVars, accVars, brg, expired>>

\* The target powers its debug part up.
PowerUp ==
  /\ dp.power = "asked"
  /\ dp' = [dp EXCEPT !.power = "acked"]
  /\ UNCHANGED <<callVars, ctlVars, accVars, brg, cmd, dato, touched, expired>>

-----------------------------------------------------------------------------
(* RemoteRegRead and RemoteRegWrite: the accesses in todo, one after       *)
(* another.                                                                *)

\* The writes of brg_data and brg_ctrl: main is alone on the link.
Start ==
  /\ todo # <<>> /\ wait = NotStarted
  /\ cmd' = Head(todo) /\ wait' = Timeout
  /\ UNCHANGED <<callVars, ctlVars, apsel, todo, value, brg, dato, dp, touched,
                 expired>>

\* Definitions marked "slip" are not used by the specification: each is the
\* next one with a plausible mistake.
\*
\* slip: the limit is not looked at.
WaitingForEver == cmd # NoCommand
Waiting == cmd # NoCommand /\ wait > 0

Poll ==
  /\ wait # NotStarted /\ Waiting
  /\ wait' = wait - 1
  /\ UNCHANGED <<callVars, ctlVars, apsel, todo, value, brg, devVars, expired>>

Finish ==
  /\ wait # NotStarted /\ ~Waiting
  /\ todo' = Tail(todo) /\ wait' = NotStarted
  /\ value' = IF Head(todo).op = "write" THEN value
              ELSE IF wait # 0 THEN dato ELSE "zero"
  /\ expired' = (expired \/ wait = 0)
  /\ UNCHANGED <<callVars, ctlVars, apsel, brg, devVars>>

\* The accesses that RemoteAPRead and RemoteAPWrite make.
APRead(ap, reg) == <<Select(ap, reg), Rd("AP", reg), Rd("DP", "RDBUFF")>>
APWrite(ap, reg, val) == <<Select(ap, reg), Wr("AP", reg, val)>>

\* The AP addressed by a call with argument ap.
Addressed(ap) == IF ap # Keep THEN ap ELSE apsel

-----------------------------------------------------------------------------
(* remote_open.                                                            *)

\* At label p with no access to make; on to label q with the accesses s.
At(p) == pc = p /\ todo = <<>> /\ UNCHANGED <<callVars, wait, value, devVars, expired>>
Goto(q, s) == pc' = q /\ todo' = s

Connect ==
  /\ At("connect")
  /\ IF div > MaxDiv
       THEN Goto("close_ahb", <<>>) /\ rv' = "error" /\ UNCHANGED <<brg, n>>
       ELSE Goto("idcode", <<>>) /\ brg' = [brg EXCEPT !.en = TRUE]
            /\ n' = Polls /\ UNCHANGED rv
  /\ UNCHANGED <<div, i, memap, apsel>>

\* One poll: 0 until the port answered, and then what came over the wire.
IDCodes == {"zero"} \cup IF div >= target.link THEN {"arm"} ELSE {"wrong"}

PollIDCode ==
  /\ pc = "idcode" /\ todo = <<>>
  /\ \E id \in IDCodes :
       /\ value' = id
       /\ pc' = IF n > 1 /\ id = "zero" THEN "idcode" ELSE "check"
  /\ n' = n - 1
  /\ UNCHANGED <<callVars, rv, div, i, memap, apsel, todo, wait, brg, devVars, expired>>

\* slip: the bridge stays enabled for the next attempt.
RetryEnabled == Goto("connect", <<>>) /\ div' = div + 1 /\ UNCHANGED brg

\* slip: the divisor stays as it is.
RetrySameDiv == Goto("connect", <<>>) /\ brg' = [brg EXCEPT !.en = FALSE]
                /\ UNCHANGED div

Retry == /\ Goto("connect", <<>>)
         /\ brg' = [brg EXCEPT !.en = FALSE]
         /\ div' = div + 1

Stats == CASE target.link = NoLink -> {"ERR_NOCONNECT", "ERR_FAULT"}
           [] div >= target.link -> {"SUCCESS"}
           [] OTHER -> {"SUCCESS", "ERR_FAULT"}

CheckStat ==
  /\ At("check")
  /\ \E stat \in Stats :
       CASE stat = "ERR_NOCONNECT" ->
              Goto("fail_ahb", <<>>) /\ UNCHANGED <<brg, div, n>>
         [] stat = "ERR_FAULT" \/ (stat = "SUCCESS" /\ value # "arm") ->
              Retry /\ UNCHANGED n
         [] OTHER ->
              /\ Goto("power", <<Wr("DP", "CTLSTAT", "asked"), Rd("DP", "CTLSTAT")>>)
              /\ n' = Polls /\ UNCHANGED <<brg, div>>
  /\ UNCHANGED <<rv, i, memap, apsel>>

\* The last of the reads comes too late: n is 0 whatever it returned.
Power ==
  /\ At("power")
  /\ CASE n = 0 -> Goto("fail_ahb", <<>>) /\ UNCHANGED n
       [] n > 0 /\ value = "acked" -> Goto("scan", <<>>) /\ UNCHANGED n
       [] OTHER -> Goto("power", <<Rd("DP", "CTLSTAT")>>) /\ n' = n - 1
  /\ UNCHANGED <<rv, div, i, memap, apsel, brg>>

Scan ==
  /\ At("scan")
  /\ IF i < NumAP
       THEN /\ apsel' = Addressed(i)
            /\ Goto("idr", APRead(apsel', "IDR"))
       ELSE Goto("chosen", <<>>) /\ UNCHANGED apsel
  /\ UNCHANGED <<rv, div, n, i, memap, brg>>

\* The register of AP i, or a break: 0 is the end of the list.
Idr ==
  /\ At("idr")
  /\ IF value = "zero"
       THEN Goto("chosen", <<>>) /\ UNCHANGED <<i, memap>>
       ELSE /\ Goto("scan", <<>>) /\ i' = i + 1
            /\ memap' = IF value = "mem" THEN i ELSE memap
  /\ UNCHANGED <<rv, div, n, apsel, brg>>

\* slip: the AP found is not passed on.
ChosenKeeps ==
  /\ At("chosen")
  /\ Goto("halt", APWrite(apsel, "CSW", "word"))
  /\ UNCHANGED <<rv, div, n, i, memap, apsel, brg>>

\* apsel has eight bits and is never 256.
Chosen ==
  /\ At("chosen")
  /\ IF memap = NumAP
       THEN Goto("fail_ahb", <<>>) /\ UNCHANGED apsel
       ELSE apsel' = Addressed(memap) /\ Goto("halt", APWrite(apsel', "CSW", "word"))
  /\ UNCHANGED <<rv, div, n, i, memap, brg>>

\* One attempt: 1 << 17 == 0 is 0, and so is its conjunction with DHCSR.
Halt ==
  /\ At("halt")
  /\ IF halt
       THEN /\ Goto("halting", APWrite(apsel, "TAR", "SCB_DHCSR")
                               \o APWrite(apsel, "DRW", "DEBUG_HALT")
                               \o APRead(apsel, "DRW"))
            /\ n' = Polls - 1
       ELSE Goto("size", <<>>) /\ UNCHANGED n
  /\ UNCHANGED <<rv, div, i, memap, apsel, brg>>

Halting ==
  /\ At("halting")
  /\ Goto(IF n = 0 THEN "fail_ahb" ELSE "size", <<>>)
  /\ UNCHANGED <<rv, div, n, i, memap, apsel, brg>>

Size ==
  /\ At("size")
  /\ Goto("fixed", APWrite(apsel, "CSW", "byte") \o APRead(apsel, "CSW"))
  /\ UNCHANGED <<rv, div, n, i, memap, apsel, brg>>

\* slip: where the scan stopped is taken for the AP chosen.
FixedIndex ==
  /\ At("fixed")
  /\ brg' = [brg EXCEPT !.fixed = (value = "word"), !.apsel = i % NumAP]
  /\ Goto("open", <<>>) /\ rv' = "success"
  /\ UNCHANGED <<div, n, i, memap, apsel>>

\* The size read back, the AP of the bus bridge; return 0.
Fixed ==
  /\ At("fixed")
  /\ brg' = [brg EXCEPT !.fixed = (value = "word"), !.apsel = memap]
  /\ Goto("open", <<>>) /\ rv' = "success"
  /\ UNCHANGED <<div, n, i, memap, apsel>>

\* The cleanup label.
FailAHB ==
  /\ At("fail_ahb") /\ Goto("fail_en", <<>>)
  /\ brg' = [brg EXCEPT !.ahb = FALSE]
  /\ UNCHANGED <<rv, div, n, i, memap, apsel>>
FailEn ==
  /\ At("fail_en") /\ Goto("close_ahb", <<>>)
  /\ brg' = [brg EXCEPT !.en = FALSE] /\ rv' = "error"
  /\ UNCHANGED <<div, n, i, memap, apsel>>

\* main, when remote_open succeeded.
EnableAHB ==
  /\ At("open") /\ Goto("close_ahb", <<>>)
  /\ brg' = [brg EXCEPT !.ahb = TRUE]
  /\ UNCHANGED <<rv, div, n, i, memap, apsel>>

\* remote_close, in any case.
CloseAHB ==
  /\ At("close_ahb") /\ Goto("close_en", <<>>)
  /\ brg' = [brg EXCEPT !.ahb = FALSE]
  /\ UNCHANGED <<rv, div, n, i, memap, apsel>>
CloseEn ==
  /\ At("close_en") /\ Goto("closed", <<>>)
  /\ brg' = [brg EXCEPT !.en = FALSE]
  /\ UNCHANGED <<rv, div, n, i, memap, apsel>>

Host == \/ Start \/ Poll \/ Finish \/ Connect \/ PollIDCode \/ CheckStat \/ Power
        \/ Scan \/ Idr \/ Chosen \/ Halt \/ Halting \/ Size \/ Fixed
        \/ FailAHB \/ FailEn \/ EnableAHB \/ CloseAHB \/ CloseEn
Next == Host \/ Perform \/ PowerUp

Spec == Init /\ [][Next]_vars
\* Only the host's thread is sure to go on: the target may be dead.
FairSpec == Spec /\ WF_vars(Host)

-----------------------------------------------------------------------------
(* Properties.                                                             *)

\* Where remote_open is, what it holds, and which commands are under way.
TypeOK ==
  /\ rv \in {"none", "success", "error"}
  /\ div \in Divs \cup 0..NoLink /\ n \in 0..Polls /\ i \in 0..NumAP
  /\ memap \in 0..Keep /\ apsel \in 0..Keep
  /\ wait \in 0..NotStarted /\ (wait # NotStarted => todo # <<>>)
  /\ brg \in BridgeRegs
  /\ touched \subseteq 0..Keep

\* The APs that the scan gets to, and those among them it looks for.  The scan
\* has to end before index Keep, where RemoteAPRead reads the AP before it again.
Present == {a \in 0..Keep : \A b \in 0..a : target.aps[b] # "none"}
MemAPs == {a \in Present : target.aps[a] = "mem"}
Suitable == MemAPs # {} /\ Keep - 1 \notin Present
LastMemAP == CHOOSE a \in MemAPs : \A b \in MemAPs : b <= a

\* Success is reported, and the bus bridge switched on, only with a port that
\* answered at this divisor and is powered (remote.cpp:94-121); after an error
\* both parts of the bridge are off (remote.cpp:196-200).  What a killed command
\* left on stays on: brg_ahb_en through all the attempts to connect, as only
\* brg_en is cleared between them (remote.cpp:102), and both after the return of
\* -1 at remote.cpp:71-73.  At the end of remote_close both are off.
BridgeOnlyWhenUp ==
  /\ rv = "success" => div >= target.link /\ dp.power = "acked"
  /\ brg.ahb => \/ target.brg.ahb
                \/ brg.en /\ rv = "success"
  /\ rv = "error" => /\ brg.en => target.brg.en /\ div > MaxDiv
                     /\ brg.ahb => target.brg.ahb /\ div > MaxDiv
  /\ pc = "closed" => ~brg.en /\ ~brg.ahb

\* Only the chosen AP is written, though most calls leave the AP to Target's
\* apsel, which the scan left behind the end of the list (Target.cpp:315).
DrivesChosenAP == Suitable /\ ~expired => touched \subseteq {LastMemAP}

\* When no access was given up, success means that the bus bridge uses a MEM-AP
\* and that a CPU able to halt was halted if asked for; and brg_csw_fixed says
\* whether this AP has one size only (remote.cpp:143-193).  That is all: "Set
\* value for state machine" (183) is what the register is for, but its port at
\* the bridge is commented out (flexsoc_cm3.sv:206, see BridgePort).
Configured ==
  rv = "success" /\ Suitable /\ ~expired =>
    /\ brg.apsel = LastMemAP
    /\ halt /\ target.halts => dp.halted
    /\ brg.fixed = target.fixed

\* "Check if we failed to find MEM-AP" (remote.cpp:143) and "Check if we
\* succeeded", of halting the CPU (remote.cpp:167).
SuccessChecked ==
  rv = "success" => MemAPs # {} /\ (halt => dp.halted)

\* Whatever the target does or fails to do, remote_open returns and the bridge
\* is closed (the retries at remote.cpp:67-104 and all polling loops are bounded).
OpenReturns == <>(pc = "closed" /\ ~brg.en /\ ~brg.ahb)
=============================================================================
