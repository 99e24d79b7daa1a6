---------------------------- MODULE SysmapProofs ----------------------------
(***************************************************************************)
(* The system map, for every set of lines, every library of plugins, any   *)
(* number of starts of any length, and a command that may be killed at any *)
(* step.                                                                   *)
(*                                                                         *)
(* The properties compare what the device and the loader hold with what    *)
(* the lines read so far say.  The invariants are the same comparisons     *)
(* after every line, also between the register writes of an alias.         *)
(***************************************************************************)
EXTENDS Sysmap, SequenceTheorems, FiniteSetTheorems, TLAPS

-----------------------------------------------------------------------------
(* Types.                                                                  *)

\* The values of the two words of windows.
Words == [0..1 -> [0..3 -> {a \in Address : a % 2 = 0}]]

LEMMA WindowPlace ==
  ASSUME NEW i \in 0..7
  PROVE  i \div 4 \in 0..1 /\ i % 4 \in 0..3
OBVIOUS

LEMMA WithWindowType ==
  ASSUME TypeOK, NEW i \in 0..7, NEW remap \in Address
  PROVE  WithWindow(i, remap) \in Words
<1> DEFINE E == {a \in Address : a % 2 = 0}
<1>1. remap32 \in [0..1 -> [0..3 -> E]]
  BY DEF TypeOK, CSRs, Registers
<1>2. CASE remap % 2 = 0
  <2>1. remap \in E
    BY <1>2
  <2> HIDE DEF E
  <2>2. [remap32[i \div 4] EXCEPT ![i % 4] = remap] \in [0..3 -> E]
    BY <1>1, <2>1, WindowPlace
  <2>3. [remap32 EXCEPT ![i \div 4] = [remap32[i \div 4] EXCEPT ![i % 4] = remap]]
          \in [0..1 -> [0..3 -> E]]
    BY <1>1, <2>2, WindowPlace
  <2>4. WithWindow(i, remap) \in [0..1 -> [0..3 -> E]]
    BY <1>2, <2>3 DEF WithWindow
  <2> QED BY <2>4 DEF E, Words
<1>3. CASE remap % 2 # 0
  BY <1>1, <1>3 DEF WithWindow, Words
<1> QED BY <1>2, <1>3

LEMMA With256Type ==
  ASSUME TypeOK, NEW remap \in Address
  PROVE  With256(remap) \in 0..15
<1>1. remap256 \in 0..15
  BY DEF TypeOK, CSRs, Registers
<1>2. remap \div 16 \in 0..15
  BY DEF Address, Space
<1> QED BY <1>1, <1>2 DEF With256

\* The fields of a line of each kind.
LEMMA LineTypes ==
  ASSUME NEW line \in Line
  PROVE  /\ line.kind = "alias" =>
              line.base \in Address /\ line.size \in Address /\ line.remap \in Address
         /\ line.kind = "remap32" =>
              line.window \in Nat /\ line.idx \in 0..7 /\ line.remap \in Address
         /\ line.kind = "remap256" => line.remap \in Address
         /\ line.kind = "plugin" => line.name \in DOMAIN Library /\ line.base \in Address
BY DEF Line

LEMMA LoadType ==
  ASSUME TypeOK, NEW n \in DOMAIN Library
  PROVE  Load(n) \in Seq([name : DOMAIN Library, refcnt : Nat \ {0}])
<1> DEFINE R == [name : DOMAIN Library, refcnt : Nat \ {0}]
<1>1. plist \in Seq(R)
  BY DEF TypeOK
<1>2. \A k \in DOMAIN plist : plist[k] \in R
  <2> HIDE DEF R
  <2>1. DOMAIN plist = 1..Len(plist)
    BY <1>1, LenProperties
  <2> QED BY <1>1, <2>1, ElementOfSeq
<1>3. [name |-> n, refcnt |-> 1] \in R
  OBVIOUS
<1>4. \A r \in R : [r EXCEPT !.refcnt = @ + 1] \in R
  OBVIOUS
<1> HIDE DEF R
<1>5. CASE \E k \in DOMAIN plist : plist[k].name = n
  <2> DEFINE f == [k \in DOMAIN plist |-> IF plist[k].name = n
                                            THEN [plist[k] EXCEPT !.refcnt = @ + 1]
                                            ELSE plist[k]]
  <2>1. DOMAIN plist = 1..Len(plist) /\ Len(plist) \in Nat
    BY <1>1, LenProperties
  <2>2. \A k \in DOMAIN plist : f[k] \in R
    BY <1>2, <1>4
  <2>3. f \in [1..Len(plist) -> R]
    BY <2>1, <2>2
  <2>4. f \in Seq(R)
    <3> HIDE DEF f
    <3> QED BY <2>1, <2>3, SeqDef
  <2> QED BY <1>5, <2>4 DEF Load, R
<1>6. CASE ~ \E k \in DOMAIN plist : plist[k].name = n
  <2>1. <<[name |-> n, refcnt |-> 1]>> \in Seq(R)
    BY <1>3
  <2>2. <<[name |-> n, refcnt |-> 1]>> \o plist \in Seq(R)
    BY <1>1, <2>1, ConcatProperties
  <2> QED BY <1>6, <2>2 DEF Load, R
<1> QED BY <1>5, <1>6 DEF R

Reads(line) == ReadAlias(line) \/ ReadRemap32(line) \/ ReadRemap256(line)
               \/ ReadPlugin(line)

\* What stays when a line is read.
LEMMA ReadMap ==
  ASSUME TypeOK, NEW line \in Line, Reads(line)
  PROVE  /\ pc = "parse" /\ map' = Append(map, line) /\ map' \in Seq(Line)
         /\ UNCHANGED <<lines, starts, before, ptarget, recv_cb, slave_en>>
<1>1. map \in Seq(Line)
  BY DEF TypeOK
<1>2. Append(map, line) \in Seq(Line)
  BY <1>1, AppendProperties
<1> QED BY <1>2 DEF Reads, ReadAlias, ReadRemap32, ReadRemap256, ReadPlugin, Read,
                    Onward, csrVars

LEMMA LastLine ==
  ASSUME TypeOK, map # <<>>
  PROVE  Last(map) \in Line
<1>1. map \in Seq(Line)
  BY DEF TypeOK
<1> QED BY <1>1, ElementOfSeq, LenProperties, EmptySeq DEF Last

\* The registers, each by itself.
LEMMA CSRTypes ==
  /\ TypeOK => CSRs \in Registers
  /\ CSRs \in Registers <=>
       /\ code \in [0..1 -> AliasReg] /\ sys \in AliasReg
       /\ remap32 \in Words
       /\ remap256 \in 0..15 /\ slave_en \in BOOLEAN
  /\ CSRs' \in Registers <=>
       /\ code' \in [0..1 -> AliasReg] /\ sys' \in AliasReg
       /\ remap32' \in Words
       /\ remap256' \in 0..15 /\ slave_en' \in BOOLEAN
<1>1. ASSUME NEW a, NEW b, NEW c, NEW d, NEW e
      PROVE  [code |-> a, sys |-> b, remap32 |-> c, remap256 |-> d, slave_en |-> e]
               \in Registers
             <=> /\ a \in [0..1 -> AliasReg] /\ b \in AliasReg
                 /\ c \in Words
                 /\ d \in 0..15 /\ e \in BOOLEAN
  BY DEF Registers, Words
<1>2. CSRs \in Registers <=>
       /\ code \in [0..1 -> AliasReg] /\ sys \in AliasReg
       /\ remap32 \in Words
       /\ remap256 \in 0..15 /\ slave_en \in BOOLEAN
  BY <1>1 DEF CSRs
<1>3. CSRs' \in Registers <=>
       /\ code' \in [0..1 -> AliasReg] /\ sys' \in AliasReg
       /\ remap32' \in Words
       /\ remap256' \in 0..15 /\ slave_en' \in BOOLEAN
  BY <1>1 DEF CSRs
<1> QED BY <1>2, <1>3 DEF TypeOK

LEMMA TypesRead ==
  ASSUME TypeOK, NEW line \in Line, Reads(line)
  PROVE  TypeOK'
<1>1. /\ pc = "parse" /\ map' = Append(map, line) /\ map' \in Seq(Line)
      /\ UNCHANGED <<lines, starts, before, ptarget, recv_cb, slave_en>>
  BY ReadMap
<1>2. /\ code \in [0..1 -> AliasReg] /\ sys \in AliasReg /\ remap32 \in Words
      /\ remap256 \in 0..15 /\ slave_en \in BOOLEAN
  BY CSRTypes
<1>3. CASE ReadAlias(line)
  <2>1. idx' \in 0..1
    BY <1>3 DEF ReadAlias, Slot
  <2>2. CSRs' = CSRs
    BY <1>3 DEF ReadAlias, CSRs, csrVars
  <2> QED BY <1>1, <1>3, <2>1, <2>2 DEF ReadAlias, Onward, TypeOK
<1>4. CASE ReadRemap32(line)
  <2>1. line.idx \in 0..7 /\ line.remap \in Address
    BY <1>4, LineTypes DEF ReadRemap32
  <2>2. remap32' \in Words
    BY <1>4, <2>1, WithWindowType DEF ReadRemap32
  <2>3. /\ code' = code /\ sys' = sys /\ remap256' = remap256
        /\ slave_en' = slave_en
    BY <1>4 DEF ReadRemap32
  <2>4. CSRs' \in Registers
    BY <1>2, <2>2, <2>3, CSRTypes
  <2> QED BY <1>1, <1>4, <2>4 DEF ReadRemap32, Onward, TypeOK
<1>5. CASE ReadRemap256(line)
  <2>1. remap256' \in 0..15
    BY <1>5, LineTypes, With256Type DEF ReadRemap256
  <2>2. code' = code /\ sys' = sys /\ remap32' = remap32 /\ slave_en' = slave_en
    BY <1>5 DEF ReadRemap256
  <2>3. CSRs' \in Registers
    BY <1>2, <2>1, <2>2, CSRTypes
  <2> QED BY <1>1, <1>5, <2>3 DEF ReadRemap256, Onward, TypeOK
<1>6. CASE ReadPlugin(line)
  <2>1. line.name \in DOMAIN Library /\ line.base \in Address
    BY <1>6, LineTypes DEF ReadPlugin
  <2>2. plist' \in Seq([name : DOMAIN Library, refcnt : Nat \ {0}])
    BY <1>6, <2>1, LoadType DEF ReadPlugin
  <2>3. plugin' \in Seq([name : DOMAIN Library, base : Address])
    <3> DEFINE R == [name : DOMAIN Library, base : Address]
    <3>1. plugin \in Seq(R) /\ [name |-> line.name, base |-> line.base] \in R
      BY <2>1 DEF TypeOK
    <3> HIDE DEF R
    <3>2. Append(plugin, [name |-> line.name, base |-> line.base]) \in Seq(R)
      BY <3>1, AppendProperties
    <3>3. plugin' \in Seq(R)
      BY <1>6, <3>1, <3>2 DEF ReadPlugin
    <3> QED BY <3>3 DEF R
  <2>4. CSRs' = CSRs
    BY <1>6 DEF ReadPlugin, CSRs, csrVars
  <2> QED BY <1>1, <1>6, <2>2, <2>3, <2>4 DEF ReadPlugin, Onward, TypeOK
<1> QED BY <1>3, <1>4, <1>5, <1>6 DEF Reads

\* An alias is written while its line is the last one read.
WritingAlias == pc \in {"base", "end", "off"} =>
                  map # <<>> /\ Last(map).kind = "alias"

LEMMA TypesWrite ==
  ASSUME TypeOK, WritingAlias, AliasBase \/ AliasSize \/ AliasOff
  PROVE  TypeOK'
<1> DEFINE line == Last(map)
<1>1. line.base \in Address /\ line.size \in Address /\ line.remap \in Address
  <2>1. line \in Line /\ line.kind = "alias"
    BY LastLine DEF WritingAlias, AliasBase, AliasSize, AliasOff
  <2> QED BY <2>1, LineTypes
<1>2. AliasEnd(line) \in Address
  <2>1. \A x, y \in Address : (x + y) % Space \in Address
    BY DEF Address, Space
  <2> HIDE DEF line
  <2> QED BY <1>1, <2>1 DEF AliasEnd
<1>3. PICK field \in {"base", "end", "off"}, value \in Address,
           place \in {"end", "off", "parse"} : WriteAlias(field, value, place)
  BY <1>1, <1>2 DEF AliasBase, AliasSize, AliasOff
<1>4. /\ code \in [0..1 -> AliasReg] /\ sys \in AliasReg /\ idx \in 0..1
      /\ remap32 \in Words /\ remap256 \in 0..15 /\ slave_en \in BOOLEAN
  BY CSRTypes DEF TypeOK
<1> HIDE DEF line
<1>5. [sys EXCEPT ![field] = value] \in AliasReg
  BY <1>4 DEF AliasReg
<1>6. [code EXCEPT ![idx][field] = value] \in [0..1 -> AliasReg]
  <2>1. code[idx] \in AliasReg
    BY <1>4
  <2>2. [code[idx] EXCEPT ![field] = value] \in AliasReg
    BY <2>1 DEF AliasReg
  <2>3. [code EXCEPT ![idx] = [code[idx] EXCEPT ![field] = value]]
          \in [0..1 -> AliasReg]
    BY <1>4, <2>2
  <2> QED BY <2>3
<1>7. /\ code' \in [0..1 -> AliasReg] /\ sys' \in AliasReg
      /\ remap32' = remap32 /\ remap256' = remap256 /\ slave_en' = slave_en
  BY <1>3, <1>4, <1>5, <1>6 DEF WriteAlias
<1>8. CSRs' \in Registers
  BY <1>4, <1>7, CSRTypes
<1> QED BY <1>3, <1>8 DEF WriteAlias, Onward, hostVars, TypeOK

LEMMA ResetTypes ==
  /\ ResetCode \in [0..1 -> AliasReg] /\ NoAlias \in AliasReg
  /\ ResetRemap32 \in Words
BY DEF NoAlias, ResetCode, ResetRemap32, AliasReg, Address, Space, Words

LEMMA TypesHost ==
  ASSUME TypeOK,
         \/ PowerCycle \/ Start \/ Killed \/ ReadEnd
         \/ \E line \in lines : ReadFails(line)
         \/ Register \/ Enable \/ Disable \/ Unregister \/ Free \/ Return
         \/ UNCHANGED vars
  PROVE  TypeOK'
<1>1. CSRs' \in Registers
  <2>1. CASE PowerCycle
    <3>1. code' = ResetCode /\ sys' = NoAlias /\ remap32' = ResetRemap32
          /\ remap256' = 0 /\ slave_en' = FALSE
      BY <2>1 DEF PowerCycle
    <3>2. remap256' \in 0..15
      BY <3>1
    <3>3. code' \in [0..1 -> AliasReg] /\ sys' \in AliasReg /\ remap32' \in Words
      BY <3>1, ResetTypes
    <3>4. slave_en' \in BOOLEAN
      BY <3>1
    <3> QED BY <3>2, <3>3, <3>4, CSRTypes
  <2>2. CASE ~PowerCycle
    <3>1. code' = code /\ sys' = sys /\ remap32' = remap32 /\ remap256' = remap256
          /\ slave_en' \in BOOLEAN
      BY <2>2, CSRTypes DEF Start, Killed, ReadEnd, ReadFails, Register, Enable,
             Disable, Unregister, Free, Return, csrVars, vars
    <3> QED BY <3>1, CSRTypes
  <2> QED BY <2>1, <2>2
<1>2. before' \in Registers
  BY DEF TypeOK, PowerCycle, Start, Killed, Return, ReadFails, End, ReadEnd,
         Register, Enable, Disable, Unregister, Free, Onward, vars
<1>3. starts' \in 0..Len(MaxLines) /\ lines' = lines
  <2>1. Len(MaxLines) \in Nat
    BY MaxLinesAssumption, LenProperties
  <2>2. (starts' = starts \/ Start) /\ lines' = lines
    BY DEF PowerCycle, Start, Killed, Return, ReadFails, End, ReadEnd,
           Register, Enable, Disable, Unregister, Free, Onward, vars
  <2>3. starts \in 0..Len(MaxLines)
    BY DEF TypeOK
  <2>4. CASE starts' = starts
    BY <2>2, <2>3, <2>4
  <2>5. CASE Start
    BY <2>1, <2>2, <2>3, <2>5 DEF Start
  <2> QED BY <2>2, <2>4, <2>5
<1>4. CASE PowerCycle \/ Start
  BY <1>1, <1>2, <1>3, <1>4 DEF PowerCycle, Start, hostVars, TypeOK
<1>5. CASE Killed \/ Return \/ \E line \in lines : ReadFails(line)
  <2>1. End
    BY <1>5 DEF Killed, Return, ReadFails
  <2>2. /\ map' \in Seq(Line)
        /\ plist' \in Seq([name : DOMAIN Library, refcnt : Nat \ {0}])
        /\ plugin' \in Seq([name : DOMAIN Library, base : Address])
    BY <2>1, EmptySeq DEF End
  <2>3. pc' = "gone" /\ idx' \in 0..1 /\ ptarget' = "none"
    BY <2>1 DEF End
  <2>4. recv_cb' \in BOOLEAN
    BY <2>1 DEF End
  <2> QED BY <1>1, <1>2, <1>3, <2>2, <2>3, <2>4 DEF TypeOK
<1>6. CASE \/ ReadEnd \/ Register \/ Enable \/ Disable \/ Unregister \/ Free
           \/ UNCHANGED vars
  <2>1. /\ pc' \in {pc, "register", "run", "enable", "unregister", "free", "return"}
        /\ UNCHANGED <<map, idx, plist, plugin>>
        /\ recv_cb' \in BOOLEAN
        /\ ptarget' \in {"none", "alive", "deleted"}
    BY <1>6 DEF TypeOK, ReadEnd, Register, Enable, Disable, Unregister, Free, Onward,
                hostVars, vars
  <2> QED BY <1>1, <1>2, <1>3, <2>1 DEF TypeOK
<1> QED BY <1>4, <1>5, <1>6

\* Every line is read, written and left by one of these.
LEMMA Steps ==
  ASSUME TypeOK, [Next]_vars
  PROVE  \/ \E line \in Line : Reads(line)
         \/ AliasBase \/ AliasSize \/ AliasOff
         \/ PowerCycle \/ Start \/ Killed \/ ReadEnd
         \/ \E line \in lines : ReadFails(line)
         \/ Register \/ Enable \/ Disable \/ Unregister \/ Free \/ Return
         \/ UNCHANGED vars
<1>1. lines \subseteq Line
  BY LinesAssumption DEF TypeOK
<1> QED BY <1>1 DEF Next, Reads

\* Without a process there is no map, and an alias is written while its line is
\* the last one read.
Places == /\ pc = "gone" => map = <<>> /\ plist = <<>> /\ plugin = <<>>
          /\ WritingAlias
Types == TypeOK /\ Places

LEMMA TypesInit == Init => Types
<1> SUFFICES ASSUME Init PROVE Types
  OBVIOUS
<1>1. Len(MaxLines) \in Nat
  BY MaxLinesAssumption, LenProperties
<1>2. CSRs \in Registers
  <2>1. remap256 \in 0..15
    BY DEF Init
  <2>2. code \in [0..1 -> AliasReg] /\ sys \in AliasReg /\ remap32 \in Words
    BY ResetTypes DEF Init
  <2>3. slave_en \in BOOLEAN
    BY DEF Init
  <2> QED BY <2>1, <2>2, <2>3, CSRTypes
<1>3. before \in Registers
  BY <1>2 DEF Init
<1>4. /\ map \in Seq(Line)
      /\ plist \in Seq([name : DOMAIN Library, refcnt : Nat \ {0}])
      /\ plugin \in Seq([name : DOMAIN Library, base : Address])
  BY EmptySeq DEF Init
<1>5. /\ lines \in LineSets /\ starts \in 0..Len(MaxLines) /\ pc = "gone"
      /\ idx \in 0..1 /\ ptarget = "none"
  BY <1>1 DEF Init
<1>6. recv_cb \in BOOLEAN
  BY DEF Init
<1>7. TypeOK
  BY <1>2, <1>3, <1>4, <1>5, <1>6 DEF TypeOK
<1> QED BY <1>7 DEF Init, Types, Places, WritingAlias

LEMMA TypesNext ==
  ASSUME Types, [Next]_vars
  PROVE  Types'
<1>1. TypeOK'
  BY Steps, TypesRead, TypesWrite, TypesHost DEF Types, Places
<1>2. Places'
  <2> USE DEF Types, Places, WritingAlias
  <2>1. ASSUME NEW line \in Line, Reads(line) PROVE Places'
    <3>1. map \in Seq(Line) /\ map' = Append(map, line) /\ pc = "parse"
      BY <2>1, ReadMap DEF TypeOK
    <3>2. map' # <<>> /\ Last(map') = line
      BY <3>1, AppendProperties, EmptySeq, LenProperties DEF Last
    <3>3. \/ pc' = "parse"
          \/ pc' = "base" /\ line.kind = "alias"
      BY <2>1 DEF Reads, ReadAlias, ReadRemap32, ReadRemap256, ReadPlugin, Onward
    <3> QED BY <3>2, <3>3
  <2>2. CASE AliasBase \/ AliasSize \/ AliasOff
    BY <2>2 DEF AliasBase, AliasSize, AliasOff, WriteAlias, Onward, hostVars
  <2>3. CASE \/ PowerCycle \/ Start \/ Killed \/ ReadEnd
             \/ \E line \in lines : ReadFails(line)
             \/ Register \/ Enable \/ Disable \/ Unregister \/ Free \/ Return
             \/ UNCHANGED vars
    BY <2>3 DEF PowerCycle, Start, Killed, Return, ReadFails, End, ReadEnd, Register,
                Enable, Disable, Unregister, Free, Onward, hostVars, vars
  <2> QED BY <2>1, <2>2, <2>3, Steps
<1> QED BY <1>1, <1>2 DEF Types

LEMMA TypesInvariance == Spec => []Types
BY TypesInit, TypesNext, PTL DEF Spec

\* Every variable has its type: a signal between two register writes leaves
\* registers that are still addresses, RemoteRemap32M never sets the lowest bit of a
\* window (Target.cpp:385-399), the sum of base and size stays an address
\* (sysmap_parse.cpp:196-209), idx is 0 or 1, and no plugin has count 0.
THEOREM TypeCorrect == Spec => []TypeOK
<1>1. Types => TypeOK
  BY DEF Types
<1> QED BY <1>1, TypesInvariance, PTL

-----------------------------------------------------------------------------
(* The remaps.                                                             *)

\* The lines before a line read stay where they are.
LEMMA MapGrows ==
  ASSUME TypeOK, NEW line \in Line, map' = Append(map, line),
         NEW n, n = Len(map) + 1
  PROVE  /\ n \in Nat \ {0} /\ map'[n] = line /\ Len(map') = n
         /\ DOMAIN map = 1..(n - 1) /\ DOMAIN map' = DOMAIN map \cup {n}
         /\ \A k \in DOMAIN map : /\ k \in Nat /\ k < n /\ k # n
                                  /\ map[k] \in Line /\ map'[k] = map[k]
<1>1. map \in Seq(Line) /\ map' \in Seq(Line)
  BY AppendProperties DEF TypeOK
<1>2. /\ Len(map) \in Nat /\ Len(map') = Len(map) + 1
      /\ DOMAIN map = 1..Len(map) /\ DOMAIN map' = 1..Len(map')
  BY <1>1, AppendProperties, LenProperties
<1>3. \A k \in 1..Len(map) : map[k] \in Line /\ map'[k] = map[k]
  BY <1>1, AppendProperties, ElementOfSeq
<1>4. map'[n] = line
  BY <1>1, AppendProperties
<1>5. n - 1 = Len(map) /\ n \in Nat \ {0} /\ 1..n = 1..(n - 1) \cup {n}
  BY <1>2
<1> QED BY <1>2, <1>3, <1>4, <1>5

\* The newest line of some is the last one of them.
LEMMA MaxNew ==
  ASSUME NEW K, NEW n \in Nat, \A k \in K : k \in Nat /\ k < n
  PROVE  Max(K \cup {n}) = n
<1> DEFINE Q(x) == x \in K \cup {n} /\ \A y \in K \cup {n} : x >= y
<1>1. Q(n)
  OBVIOUS
<1>2. \A x : Q(x) => x = n
  OBVIOUS
<1>3. Max(K \cup {n}) = CHOOSE x : Q(x)
  BY DEF Max
<1> HIDE DEF Q
<1> QED BY <1>1, <1>2, <1>3

LEMMA RemapLines ==
  ASSUME TypeOK, NEW line \in Line, map' = Append(map, line),
         NEW n, n = Len(map) + 1
  PROVE  /\ \A i : (Accepted(i))' =
              IF line.kind = "remap32" /\ line.idx = i /\ line.remap % 2 = 0
                THEN Accepted(i) \cup {n} ELSE Accepted(i)
         /\ Accepted256' = IF line.kind = "remap256" /\ line.remap % 16 = 0
                             THEN Accepted256 \cup {n} ELSE Accepted256
         /\ \A i : \A k \in Accepted(i) \cup Accepted256 :
              k \in DOMAIN map /\ k \in Nat /\ k < n /\ map'[k] = map[k]
<1>1. /\ map'[n] = line /\ DOMAIN map' = DOMAIN map \cup {n}
      /\ \A k \in DOMAIN map : k \in Nat /\ k < n /\ k # n /\ map'[k] = map[k]
  BY MapGrows
<1> QED BY <1>1 DEF Accepted, Accepted256, LinesOf

LEMMA WindowRead ==
  ASSUME TypeOK, NEW i \in 0..7, NEW j \in 0..7, NEW remap \in Address,
         remap32' = WithWindow(i, remap)
  PROVE  (RemoteRemap32M(j))' = IF j = i /\ remap % 2 = 0 THEN remap
                                ELSE RemoteRemap32M(j)
<1>1. remap32 \in Words
  BY CSRTypes
<1>2. (j \div 4 = i \div 4 /\ j % 4 = i % 4) <=> j = i
  OBVIOUS
<1> DEFINE w == i \div 4
           b == i % 4
           v == j \div 4
           c == j % 4
<1>3. w \in 0..1 /\ b \in 0..3 /\ v \in 0..1 /\ c \in 0..3
  BY WindowPlace
<1> HIDE DEF w, b, v, c
<1>4. [remap32 EXCEPT ![w][b] = remap][v][c] =
        IF v = w /\ c = b THEN remap ELSE remap32[v][c]
  BY <1>1, <1>3 DEF Words
<1> QED BY <1>2, <1>4 DEF WithWindow, RemoteRemap32M, w, b, v, c

LEMMA UpperRead ==
  ASSUME NEW remap \in Address, remap % 16 = 0
  PROVE  (remap \div 16) * 16 = remap
BY DEF Address, Space

\* The last line of some is one of them.
LastOf(K) == K # {} => Max(K) \in K
RemapLast == (\A i \in 0..7 : LastOf(Accepted(i))) /\ LastOf(Accepted256)

\* What a window holds, before and after lines are read.
Held(i) == IF Accepted(i) = {} THEN before.remap32[i \div 4][i % 4]
           ELSE map[Max(Accepted(i))].remap
Held256 == IF Accepted256 = {} THEN before.remap256 * 16
           ELSE map[Max(Accepted256)].remap

LEMMA HeldGrows ==
  ASSUME TypeOK, RemapLast, NEW line \in Line, map' = Append(map, line),
         before' = before
  PROVE  /\ RemapLast'
         /\ \A i \in 0..7 :
              Held(i)' = IF line.kind = "remap32" /\ line.idx = i /\ line.remap % 2 = 0
                           THEN line.remap ELSE Held(i)
         /\ Held256' = IF line.kind = "remap256" /\ line.remap % 16 = 0
                         THEN line.remap ELSE Held256
<1> DEFINE n == Len(map) + 1
<1>1. n \in Nat /\ map'[n] = line
  BY MapGrows
<1>2. /\ \A i : (Accepted(i))' =
           IF line.kind = "remap32" /\ line.idx = i /\ line.remap % 2 = 0
             THEN Accepted(i) \cup {n} ELSE Accepted(i)
      /\ Accepted256' = IF line.kind = "remap256" /\ line.remap % 16 = 0
                          THEN Accepted256 \cup {n} ELSE Accepted256
      /\ \A i : \A k \in Accepted(i) \cup Accepted256 :
           k \in DOMAIN map /\ k \in Nat /\ k < n /\ map'[k] = map[k]
  BY RemapLines
<1> HIDE DEF n
<1>3. /\ \A i : Max(Accepted(i) \cup {n}) = n
      /\ Max(Accepted256 \cup {n}) = n
  <2>1. ASSUME NEW i PROVE Max(Accepted(i) \cup {n}) = n
    <3>1. \A k \in Accepted(i) : k \in Nat /\ k < n
      BY <1>2
    <3> QED BY <1>1, <3>1, MaxNew
  <2>2. Max(Accepted256 \cup {n}) = n
    <3>1. \A k \in Accepted256 : k \in Nat /\ k < n
      BY <1>2
    <3> QED BY <1>1, <3>1, MaxNew
  <2> QED BY <2>1, <2>2
<1>4. RemapLast'
  BY <1>2, <1>3 DEF RemapLast, LastOf
<1>5. ASSUME NEW i \in 0..7
      PROVE  Held(i)' = IF line.kind = "remap32" /\ line.idx = i /\ line.remap % 2 = 0
                          THEN line.remap ELSE Held(i)
  <2>1. Accepted(i) # {} => map'[Max(Accepted(i))] = map[Max(Accepted(i))]
    BY <1>2 DEF RemapLast, LastOf
  <2>2. CASE line.kind = "remap32" /\ line.idx = i /\ line.remap % 2 = 0
    BY <1>1, <1>2, <1>3, <2>2 DEF Held
  <2>3. CASE ~(line.kind = "remap32" /\ line.idx = i /\ line.remap % 2 = 0)
    <3>1. (Accepted(i))' = Accepted(i)
      BY <1>2, <2>3
    <3> QED BY <2>1, <2>3, <3>1 DEF Held
  <2> QED BY <2>2, <2>3
<1>6. Held256' = IF line.kind = "remap256" /\ line.remap % 16 = 0
                   THEN line.remap ELSE Held256
  <2>1. Accepted256 # {} => map'[Max(Accepted256)] = map[Max(Accepted256)]
    BY <1>2 DEF RemapLast, LastOf
  <2>2. CASE line.kind = "remap256" /\ line.remap % 16 = 0
    BY <1>1, <1>2, <1>3, <2>2 DEF Held256
  <2>3. CASE ~(line.kind = "remap256" /\ line.remap % 16 = 0)
    <3>1. Accepted256' = Accepted256
      BY <1>2, <2>3
    <3> QED BY <2>1, <2>3, <3>1 DEF Held256
  <2> QED BY <2>2, <2>3
<1> QED BY <1>4, <1>5, <1>6

\* The windows hold what the lines say, whenever there is a process.
RemapInv == pc # "gone" => /\ RemapLast
                           /\ \A i \in 0..7 : RemoteRemap32M(i) = Held(i)
                           /\ RemoteRemap256M = Held256

LEMMA RemapRead ==
  ASSUME TypeOK, RemapInv, NEW line \in Line, Reads(line)
  PROVE  RemapInv'
<1>1. pc = "parse" /\ map' = Append(map, line) /\ before' = before
  BY ReadMap
<1>2. /\ RemapLast
      /\ \A i \in 0..7 : RemoteRemap32M(i) = Held(i)
      /\ RemoteRemap256M = Held256
  BY <1>1 DEF RemapInv
<1>3. /\ RemapLast'
      /\ \A i \in 0..7 :
           Held(i)' = IF line.kind = "remap32" /\ line.idx = i /\ line.remap % 2 = 0
                        THEN line.remap ELSE Held(i)
      /\ Held256' = IF line.kind = "remap256" /\ line.remap % 16 = 0
                      THEN line.remap ELSE Held256
  BY <1>1, <1>2, HeldGrows
<1>4. ASSUME NEW i \in 0..7
      PROVE  (RemoteRemap32M(i))' = Held(i)'
  <2>1. CASE ReadRemap32(line)
    <3>1. /\ line.idx \in 0..7 /\ line.remap \in Address
          /\ remap32' = WithWindow(line.idx, line.remap)
          /\ line.kind = "remap32"
      BY <2>1, LineTypes DEF ReadRemap32
    <3>2. (RemoteRemap32M(i))' = IF i = line.idx /\ line.remap % 2 = 0
                                   THEN line.remap ELSE RemoteRemap32M(i)
      BY <3>1, WindowRead
    <3> QED BY <1>2, <1>3, <3>1, <3>2
  <2>2. CASE ~ReadRemap32(line)
    <3>1. remap32' = remap32 /\ line.kind # "remap32"
      BY <2>2 DEF Reads, ReadAlias, ReadRemap256, ReadPlugin, csrVars
    <3>2. (RemoteRemap32M(i))' = RemoteRemap32M(i)
      BY <3>1 DEF RemoteRemap32M
    <3> QED BY <1>2, <1>3, <3>1, <3>2
  <2> QED BY <2>1, <2>2
<1>5. RemoteRemap256M' = Held256'
  <2>1. CASE ReadRemap256(line)
    <3>1. /\ line.kind = "remap256" /\ line.remap \in Address
          /\ remap256' = With256(line.remap)
      BY <2>1, LineTypes DEF ReadRemap256
    <3>2. line.remap % 16 = 0 => (line.remap \div 16) * 16 = line.remap
      BY <3>1, UpperRead
    <3> QED BY <1>2, <1>3, <3>1, <3>2 DEF With256, RemoteRemap256M
  <2>2. CASE ~ReadRemap256(line)
    <3>1. remap256' = remap256 /\ line.kind # "remap256"
      BY <2>2 DEF Reads, ReadAlias, ReadRemap32, ReadPlugin, csrVars
    <3> QED BY <1>2, <1>3, <3>1 DEF RemoteRemap256M
  <2> QED BY <2>1, <2>2
<1> QED BY <1>3, <1>4, <1>5 DEF RemapInv

LEMMA RemapNext ==
  ASSUME Types, RemapInv, [Next]_vars
  PROVE  RemapInv'
<1>1. CASE \E line \in Line : Reads(line)
  BY <1>1, RemapRead DEF Types
<1>2. CASE Start
  <2>1. /\ map = <<>> /\ map' = map /\ remap32' = remap32 /\ remap256' = remap256
        /\ before' = CSRs
    BY <1>2 DEF Start, Types, Places, hostVars, csrVars
  <2>2. /\ \A i : (Accepted(i))' = {}
        /\ Accepted256' = {}
    BY <2>1 DEF Accepted, Accepted256, LinesOf
  <2>3. before'.remap32 = remap32 /\ before'.remap256 = remap256
    BY <2>1 DEF CSRs
  <2> QED BY <2>1, <2>2, <2>3 DEF RemapInv, RemapLast, LastOf, Held, Held256,
                                  RemoteRemap32M, RemoteRemap256M
<1>3. CASE pc' = "gone"
  BY <1>3 DEF RemapInv
<1>4. CASE (pc' # "gone" => pc # "gone") /\ UNCHANGED <<map, remap32, remap256, before>>
  <2>1. map' = map /\ remap32' = remap32 /\ remap256' = remap256 /\ before' = before
    BY <1>4
  <2>2. /\ \A i : (Accepted(i))' = Accepted(i)
        /\ Accepted256' = Accepted256
    BY <2>1 DEF Accepted, Accepted256, LinesOf
  <2>3. /\ RemapLast' = RemapLast
        /\ \A i : Held(i)' = Held(i) /\ (RemoteRemap32M(i))' = RemoteRemap32M(i)
        /\ Held256' = Held256 /\ RemoteRemap256M' = RemoteRemap256M
    BY <2>1, <2>2 DEF RemapLast, LastOf, Held, Held256, RemoteRemap32M, RemoteRemap256M
  <2>4. pc' # "gone" => pc # "gone"
    BY <1>4
  <2> QED BY <2>3, <2>4 DEF RemapInv
<1>5. \/ \E line \in Line : Reads(line)
      \/ Start \/ pc' = "gone"
      \/ (pc' # "gone" => pc # "gone") /\ UNCHANGED <<map, remap32, remap256, before>>
  <2>1. CASE AliasBase \/ AliasSize \/ AliasOff
    BY <2>1 DEF AliasBase, AliasSize, AliasOff, WriteAlias, Onward, hostVars
  <2>2. CASE \/ PowerCycle \/ Killed \/ ReadEnd
             \/ \E line \in lines : ReadFails(line)
             \/ Register \/ Enable \/ Disable \/ Unregister \/ Free \/ Return
             \/ UNCHANGED vars
    BY <2>2 DEF PowerCycle, Killed, Return, ReadFails, End, ReadEnd, Register,
                Enable, Disable, Unregister, Free, Onward, hostVars, csrVars, vars
  <2> QED BY <2>1, <2>2, Steps DEF Types
<1> QED BY <1>1, <1>2, <1>3, <1>4, <1>5

\* The remote windows hold what the last line for each says, and one that no
\* line names what the command found: the code changes one byte of a register of
\* four windows for every line (Target.cpp:393-399), and no other step of the
\* command writes them.
THEOREM RemapsHold == Spec => []RemapsOfMap
<1>1. Init => RemapInv
  BY DEF Init, RemapInv
<1>2. Types /\ RemapInv /\ [Next]_vars => RemapInv'
  BY RemapNext
<1>3. RemapInv => RemapsOfMap
  BY DEF RemapInv, RemapsOfMap, Held, Held256
<1> QED BY <1>1, <1>2, <1>3, TypesInvariance, PTL DEF Spec

-----------------------------------------------------------------------------
(* The plugins.                                                            *)

\* The places of a plugin in the list.
Listed(n) == {k \in DOMAIN plist : plist[k].name = n}
\* The bus peripherals named by the lines up to the k-th.
UpTo(k) == {j \in Peripherals : j <= k}
Entry(line) == [name |-> line.name, base |-> line.base]

LEMMA PluginLines ==
  ASSUME TypeOK, NEW line \in Line, map' = Append(map, line),
         NEW n, n = Len(map) + 1
  PROVE  /\ \A m : (Uses(m))' = IF line.kind = "plugin" /\ line.name = m
                                  THEN Uses(m) \cup {n} ELSE Uses(m)
         /\ Peripherals' = IF line.kind = "plugin" /\ Library[line.name] = "bus"
                             THEN Peripherals \cup {n} ELSE Peripherals
         /\ \A k \in Peripherals : k \in Nat /\ k < n /\ map'[k] = map[k]
         /\ \A m : n \notin Uses(m)
<1>1. /\ map'[n] = line /\ DOMAIN map' = DOMAIN map \cup {n}
      /\ \A k \in DOMAIN map : k \in Nat /\ k < n /\ k # n /\ map'[k] = map[k]
  BY MapGrows
<1> QED BY <1>1 DEF Uses, Peripherals, LinesOf

LEMMA PluginFinite ==
  ASSUME TypeOK
  PROVE  /\ IsFiniteSet(Peripherals) /\ Cardinality(Peripherals) \in Nat
         /\ \A m : IsFiniteSet(Uses(m)) /\ Cardinality(Uses(m)) \in Nat
<1>1. IsFiniteSet(DOMAIN map)
  <2>1. Len(map) \in Nat /\ DOMAIN map = 1..Len(map)
    BY LenProperties DEF TypeOK
  <2> QED BY <2>1, FS_Interval
<1>2. Peripherals \subseteq DOMAIN map /\ \A m : Uses(m) \subseteq DOMAIN map
  BY DEF Peripherals, Uses, LinesOf
<1> QED BY <1>1, <1>2, FS_Subset, FS_CardinalityType

\* The array holds the bus peripherals in the order of their lines.
ArrayInv == /\ Len(plugin) = Cardinality(Peripherals)
            /\ \A k \in Peripherals : plugin[Cardinality(UpTo(k))] = Entry(map[k])

LEMMA ArrayRead ==
  ASSUME TypeOK, ArrayInv, NEW line \in Line, Reads(line)
  PROVE  ArrayInv'
<1> DEFINE n == Len(map) + 1
<1>1. pc = "parse" /\ map' = Append(map, line)
  BY ReadMap
<1>2. n \in Nat /\ map'[n] = line
  BY <1>1, MapGrows
<1>3. /\ Peripherals' = IF line.kind = "plugin" /\ Library[line.name] = "bus"
                          THEN Peripherals \cup {n} ELSE Peripherals
      /\ \A k \in Peripherals : k \in Nat /\ k < n /\ map'[k] = map[k]
  BY <1>1, PluginLines
<1> HIDE DEF n
<1>4. CASE line.kind = "plugin" /\ Library[line.name] = "bus"
  <2>1. plugin' = Append(plugin, Entry(line))
    BY <1>4 DEF Reads, ReadAlias, ReadRemap32, ReadRemap256, ReadPlugin, Entry
  <2>2. Peripherals' = Peripherals \cup {n} /\ n \notin Peripherals
    BY <1>2, <1>3, <1>4
  <2>3. /\ IsFiniteSet(Peripherals) /\ Cardinality(Peripherals) \in Nat
        /\ Cardinality(Peripherals') = Cardinality(Peripherals) + 1
    BY <2>2, PluginFinite, FS_AddElement
  <2>4. /\ Len(plugin') = Len(plugin) + 1
        /\ \A i \in 1..Len(plugin) : plugin'[i] = plugin[i]
        /\ plugin'[Len(plugin) + 1] = Entry(line)
    <3> DEFINE R == [name : DOMAIN Library, base : Address]
    <3>1. plugin \in Seq(R)
      BY DEF TypeOK
    <3>2. Entry(line) \in R
      BY <1>4, LineTypes DEF Entry
    <3> HIDE DEF R
    <3> QED BY <2>1, <3>1, <3>2, AppendProperties
  <2>5. ASSUME NEW k \in Peripherals'
        PROVE  plugin'[Cardinality((UpTo(k))')] = Entry(map'[k])
    <3>1. CASE k = n
      <4>1. (UpTo(k))' = Peripherals'
        BY <1>2, <1>3, <2>2, <3>1 DEF UpTo
      <4> QED BY <1>2, <2>3, <2>4, <3>1, <4>1 DEF ArrayInv
    <3>2. CASE k # n
      <4>1. k \in Peripherals
        BY <2>2, <3>2
      <4>2. (UpTo(k))' = UpTo(k)
        BY <1>2, <1>3, <2>2, <4>1 DEF UpTo
      <4>3. Cardinality(UpTo(k)) \in 1..Cardinality(Peripherals)
        <5>1. k \in UpTo(k) /\ UpTo(k) \subseteq Peripherals
          BY <1>3, <4>1 DEF UpTo
        <5>2. /\ IsFiniteSet(UpTo(k)) /\ Cardinality(UpTo(k)) \in Nat
              /\ Cardinality(UpTo(k)) <= Cardinality(Peripherals)
          BY <2>3, <5>1, FS_Subset, FS_CardinalityType
        <5>3. Cardinality(UpTo(k)) # 0
          BY <5>1, <5>2, FS_EmptySet
        <5> QED BY <2>3, <5>2, <5>3
      <4> QED BY <1>3, <2>4, <4>1, <4>2, <4>3 DEF ArrayInv
    <3> QED BY <3>1, <3>2
  <2> QED BY <2>3, <2>4, <2>5 DEF ArrayInv
<1>5. CASE ~(line.kind = "plugin" /\ Library[line.name] = "bus")
  <2>1. plugin' = plugin
    BY <1>5 DEF Reads, ReadAlias, ReadRemap32, ReadRemap256, ReadPlugin
  <2>2. Peripherals' = Peripherals
    BY <1>3, <1>5
  <2>3. \A k : (UpTo(k))' = UpTo(k)
    BY <2>2 DEF UpTo
  <2> QED BY <1>3, <2>1, <2>2, <2>3 DEF ArrayInv
<1> QED BY <1>4, <1>5

\* Every plugin of the map is in the list once, with the number of its lines.
ListInv ==
  \A m \in DOMAIN Library :
    /\ Uses(m) = {} => Listed(m) = {}
    /\ Uses(m) # {} =>
         \E x \in DOMAIN plist : /\ Listed(m) = {x}
                                 /\ plist[x].refcnt = Cardinality(Uses(m))

\* Loading n counts its entry, or puts one in front.
LEMMA LoadList ==
  ASSUME TypeOK, NEW m, plist' = Load(m)
  PROVE  \/ /\ Listed(m) # {} /\ DOMAIN plist' = DOMAIN plist
            /\ \A k \in DOMAIN plist :
                 plist'[k].name = plist[k].name
                 /\ plist'[k].refcnt = IF plist[k].name = m THEN plist[k].refcnt + 1
                                       ELSE plist[k].refcnt
         \/ /\ Listed(m) = {} /\ (Listed(m))' = {1} /\ plist'[1].refcnt = 1
            /\ \A l, x : l # m /\ Listed(l) = {x} =>
                 /\ x + 1 \in DOMAIN plist' /\ (Listed(l))' = {x + 1}
                 /\ plist'[x + 1].refcnt = plist[x].refcnt
            /\ \A l : l # m /\ Listed(l) = {} => (Listed(l))' = {}
<1>1. CASE \E k \in DOMAIN plist : plist[k].name = m
  <2>1. Listed(m) # {}
    BY <1>1 DEF Listed
  <2>2. plist' = [k \in DOMAIN plist |-> IF plist[k].name = m
                                   THEN [plist[k] EXCEPT !.refcnt = @ + 1]
                                   ELSE plist[k]]
    BY <1>1 DEF Load
  <2>3. \A k \in DOMAIN plist : DOMAIN plist[k] = {"name", "refcnt"}
    <3> DEFINE R == [name : DOMAIN Library, refcnt : Nat \ {0}]
    <3>1. plist \in Seq(R)
      BY DEF TypeOK
    <3>2. \A r \in R : DOMAIN r = {"name", "refcnt"}
      OBVIOUS
    <3> HIDE DEF R
    <3> QED BY <3>1, <3>2, ElementOfSeq, LenProperties
  <2>4. DOMAIN plist' = DOMAIN plist
    BY <2>2
  <2>5. \A k \in DOMAIN plist :
          plist'[k].name = plist[k].name
          /\ plist'[k].refcnt = IF plist[k].name = m THEN plist[k].refcnt + 1
                                ELSE plist[k].refcnt
    BY <2>2, <2>3
  <2> QED BY <2>1, <2>4, <2>5
<1>2. CASE ~ \E k \in DOMAIN plist : plist[k].name = m
  <2> DEFINE new == [name |-> m, refcnt |-> 1]
             len == Len(plist)
  <2>1. Listed(m) = {}
    BY <1>2 DEF Listed
  <2>2. plist' = <<new>> \o plist
    BY <1>2 DEF Load
  <2>3. /\ len \in Nat /\ DOMAIN plist = 1..len
        /\ DOMAIN plist' = 1..(len + 1) /\ plist'[1] = new
        /\ \A k \in 2..(len + 1) : plist'[k] = plist[k - 1]
    <3> DEFINE R == [name : DOMAIN Library, refcnt : Nat \ {0}]
               T == R \cup {new}
    <3>1. plist \in Seq(R)
      BY DEF TypeOK
    <3> HIDE DEF R, new
    <3>2. plist \in Seq(T)
      BY <3>1, SeqMonotonic
    <3>3. <<new>> \in Seq(T) /\ Len(<<new>>) = 1 /\ <<new>>[1] = new
      OBVIOUS
    <3> HIDE DEF T
    <3>4. /\ plist' \in Seq(T) /\ Len(plist') = 1 + len
          /\ \A k \in 1..(1 + len) : plist'[k] = IF k <= 1 THEN <<new>>[k]
                                                 ELSE plist[k - 1]
      BY <2>2, <3>2, <3>3, ConcatProperties
    <3> QED BY <3>2, <3>3, <3>4, LenProperties
  <2>4. new.name = m /\ new.refcnt = 1
    OBVIOUS
  <2> HIDE DEF new, len
  <2>5. \A l : (Listed(l))' = {k \in 1..(len + 1) :
                  IF k = 1 THEN m = l ELSE plist[k - 1].name = l}
    BY <2>3, <2>4 DEF Listed
  <2>6. (Listed(m))' = {1}
    BY <1>2, <2>3, <2>5
  <2>7. ASSUME NEW l, NEW x, l # m, Listed(l) = {x}
        PROVE  /\ x + 1 \in DOMAIN plist' /\ (Listed(l))' = {x + 1}
               /\ plist'[x + 1].refcnt = plist[x].refcnt
    <3>1. x \in 1..len /\ \A k \in 1..len : plist[k].name = l <=> k = x
      BY <2>3, <2>7 DEF Listed
    <3>2. \A k \in 1..(len + 1) : (k # 1 /\ plist[k - 1].name = l) <=> k = x + 1
      BY <2>3, <3>1
    <3>3. x + 1 \in 2..(len + 1) /\ (x + 1) - 1 = x
      BY <2>3, <3>1
    <3>4. \A k \in 1..(len + 1) :
            (IF k = 1 THEN m = l ELSE plist[k - 1].name = l) <=> k = x + 1
      BY <2>7, <3>2, <3>3
    <3>5. (Listed(l))' = {x + 1}
      BY <2>3, <2>5, <3>3, <3>4, SMTT(30)
    <3>6. plist'[x + 1] = plist[x]
      BY <2>3, <3>3
    <3> QED BY <2>3, <3>3, <3>5, <3>6
  <2>8. ASSUME NEW l, l # m, Listed(l) = {}
        PROVE  (Listed(l))' = {}
    <3>1. \A k \in 1..len : plist[k].name # l
      BY <2>3, <2>8 DEF Listed
    <3> QED BY <2>3, <2>5, <2>8, <3>1
  <2> QED BY <2>1, <2>3, <2>4, <2>6, <2>7, <2>8
<1> QED BY <1>1, <1>2

LEMMA ListRead ==
  ASSUME TypeOK, ListInv, NEW line \in Line, Reads(line)
  PROVE  ListInv'
<1> DEFINE n == Len(map) + 1
           name == line.name
<1>1. pc = "parse" /\ map' = Append(map, line)
  BY ReadMap
<1>2. \A m : /\ (Uses(m))' = IF line.kind = "plugin" /\ line.name = m
                               THEN Uses(m) \cup {n} ELSE Uses(m)
             /\ n \notin Uses(m)
  BY <1>1, PluginLines
<1> HIDE DEF n
<1>3. \A m : IsFiniteSet(Uses(m)) /\ Cardinality(Uses(m)) \in Nat
  BY PluginFinite
<1>4. CASE ReadPlugin(line)
  <2>1. line.kind = "plugin" /\ name \in DOMAIN Library /\ plist' = Load(name)
    BY <1>4, LineTypes DEF ReadPlugin
  <2> HIDE DEF name
  <2>2. /\ (Uses(name))' = Uses(name) \cup {n}
        /\ Cardinality((Uses(name))') = Cardinality(Uses(name)) + 1
    BY <1>2, <1>3, <2>1, FS_AddElement DEF name
  <2>3. \A m : m # name => (Uses(m))' = Uses(m)
    BY <1>2 DEF name
  <2>4. CASE /\ Listed(name) # {} /\ DOMAIN plist' = DOMAIN plist
             /\ \A k \in DOMAIN plist :
                  plist'[k].name = plist[k].name
                  /\ plist'[k].refcnt = IF plist[k].name = name
                                          THEN plist[k].refcnt + 1
                                          ELSE plist[k].refcnt
    <3>1. \A m : (Listed(m))' = Listed(m)
      BY <2>4 DEF Listed
    <3>2. ASSUME NEW m \in DOMAIN Library, m # name
          PROVE  /\ (Uses(m))' = {} => (Listed(m))' = {}
                 /\ (Uses(m))' # {} =>
                      \E x \in DOMAIN plist' :
                         /\ (Listed(m))' = {x}
                         /\ plist'[x].refcnt = Cardinality((Uses(m))')
      <4>1. CASE Uses(m) = {}
        BY <2>3, <3>1, <3>2, <4>1 DEF ListInv
      <4>2. CASE Uses(m) # {}
        <5>1. PICK x \in DOMAIN plist : /\ Listed(m) = {x}
                                        /\ plist[x].refcnt = Cardinality(Uses(m))
          BY <4>2 DEF ListInv
        <5>2. plist[x].name = m
          BY <5>1 DEF Listed
        <5>3. plist'[x].refcnt = plist[x].refcnt
          BY <2>4, <3>2, <5>2
        <5> QED BY <2>3, <2>4, <3>1, <3>2, <4>2, <5>1, <5>3
      <4> QED BY <4>1, <4>2
    <3>3. \E x \in DOMAIN plist' :
             /\ (Listed(name))' = {x}
             /\ plist'[x].refcnt = Cardinality((Uses(name))')
      <4>1. PICK x \in DOMAIN plist : /\ Listed(name) = {x}
                                      /\ plist[x].refcnt = Cardinality(Uses(name))
        BY <2>1, <2>4 DEF ListInv
      <4>2. plist[x].name = name
        BY <4>1 DEF Listed
      <4>3. plist'[x].refcnt = plist[x].refcnt + 1
        BY <2>4, <4>2
      <4> QED BY <2>2, <2>4, <3>1, <4>1, <4>3
    <3> QED BY <2>2, <3>2, <3>3 DEF ListInv
  <2>5. CASE /\ Listed(name) = {} /\ (Listed(name))' = {1} /\ plist'[1].refcnt = 1
             /\ \A l, x : l # name /\ Listed(l) = {x} =>
                  /\ x + 1 \in DOMAIN plist' /\ (Listed(l))' = {x + 1}
                  /\ plist'[x + 1].refcnt = plist[x].refcnt
             /\ \A l : l # name /\ Listed(l) = {} => (Listed(l))' = {}
    <3>1. ASSUME NEW m \in DOMAIN Library, m # name
          PROVE  /\ (Uses(m))' = {} => (Listed(m))' = {}
                 /\ (Uses(m))' # {} =>
                      \E x \in DOMAIN plist' :
                         /\ (Listed(m))' = {x}
                         /\ plist'[x].refcnt = Cardinality((Uses(m))')
      <4>1. CASE Uses(m) = {}
        BY <2>3, <2>5, <3>1, <4>1 DEF ListInv
      <4>2. CASE Uses(m) # {}
        <5>1. PICK x \in DOMAIN plist : /\ Listed(m) = {x}
                                        /\ plist[x].refcnt = Cardinality(Uses(m))
          BY <4>2 DEF ListInv
        <5>2. /\ x + 1 \in DOMAIN plist' /\ (Listed(m))' = {x + 1}
              /\ plist'[x + 1].refcnt = plist[x].refcnt
          BY <2>5, <3>1, <5>1
        <5> QED BY <2>3, <3>1, <4>2, <5>1, <5>2
      <4> QED BY <4>1, <4>2
    <3>2. \E x \in DOMAIN plist' :
             /\ (Listed(name))' = {x}
             /\ plist'[x].refcnt = Cardinality((Uses(name))')
      <4>1. Uses(name) = {}
        BY <2>1, <2>5 DEF ListInv
      <4>2. Cardinality((Uses(name))') = 1
        BY <2>2, <4>1, FS_Singleton
      <4>3. 1 \in DOMAIN plist'
        BY <2>5 DEF Listed
      <4> QED BY <2>5, <4>2, <4>3
    <3> QED BY <2>2, <3>1, <3>2 DEF ListInv
  <2> QED BY <2>1, <2>4, <2>5, LoadList
<1>5. CASE ~ReadPlugin(line)
  <2>1. plist' = plist /\ line.kind # "plugin"
    BY <1>5 DEF Reads, ReadAlias, ReadRemap32, ReadRemap256
  <2>2. \A m : (Uses(m))' = Uses(m) /\ (Listed(m))' = Listed(m)
    BY <1>2, <2>1 DEF Listed
  <2> QED BY <2>1, <2>2 DEF ListInv
<1> QED BY <1>4, <1>5

\* The interface is enabled last and disabled first.
ControlInv ==
  /\ slave_en /\ pc # "gone" /\ ~before.slave_en =>
       pc = "run" /\ recv_cb /\ ptarget = "alive" /\ plugin # <<>>
  /\ pc \in {"parse", "base", "end", "off", "register", "enable"} => ptarget = "alive"
  /\ pc \in {"register", "enable"} => plugin # <<>>
  /\ pc = "enable" => recv_cb

LoadedInv == ControlInv /\ (pc # "gone" => ArrayInv /\ ListInv)

LEMMA ControlNext ==
  ASSUME Types, ControlInv, [Next]_vars
  PROVE  ControlInv'
<1> USE DEF ControlInv
<1>1. ASSUME NEW line \in Line, Reads(line) PROVE ControlInv'
  <2>1. /\ pc = "parse" /\ pc' \in {"parse", "base"}
        /\ UNCHANGED <<before, ptarget, slave_en>>
    BY <1>1, ReadMap DEF Types, Reads, ReadAlias, ReadRemap32, ReadRemap256,
                         ReadPlugin, Onward
  <2> QED BY <2>1
<1>2. CASE AliasBase \/ AliasSize \/ AliasOff
  BY <1>2 DEF AliasBase, AliasSize, AliasOff, WriteAlias, Onward, hostVars
<1>3. CASE Start
  <2>1. before'.slave_en = slave_en /\ slave_en' = slave_en
    BY <1>3 DEF Start, CSRs, csrVars
  <2> QED BY <1>3, <2>1 DEF Start
<1>4. CASE Killed \/ Return \/ (\E line \in lines : ReadFails(line)) \/ PowerCycle
  BY <1>4 DEF Killed, Return, ReadFails, End, PowerCycle
<1>5. CASE ReadEnd \/ Register \/ UNCHANGED vars
  BY <1>5 DEF ReadEnd, Register, Onward, csrVars, hostVars, vars
<1>6. CASE Enable
  BY <1>6 DEF Enable, Onward, hostVars
<1>7. CASE Disable
  <2>1. /\ pc = "run" /\ pc' \in {"unregister", "free"} /\ before' = before
        /\ slave_en' => slave_en /\ plugin = <<>>
    BY <1>7 DEF Disable, Onward
  <2> QED BY <2>1
<1>8. CASE Unregister \/ Free
  <2>1. /\ pc \in {"unregister", "free"} /\ pc' \in {"free", "return"}
        /\ before' = before
        /\ slave_en' => slave_en
    BY <1>8 DEF Unregister, Free, Onward, csrVars
  <2> QED BY <2>1
<1> QED BY <1>1, <1>2, <1>3, <1>4, <1>5, <1>6, <1>7, <1>8, Steps DEF Types

LEMMA LoadedNext ==
  ASSUME Types, LoadedInv, [Next]_vars
  PROVE  LoadedInv'
<1>1. ControlInv'
  BY ControlNext DEF LoadedInv
<1>2. CASE \E line \in Line : Reads(line)
  BY <1>1, <1>2, ReadMap, ArrayRead, ListRead DEF LoadedInv, Types
<1>3. CASE Start
  <2>1. map' = <<>> /\ plist' = <<>> /\ plugin' = <<>>
    BY <1>3 DEF Start, Types, Places, hostVars
  <2>2. Peripherals' = {} /\ \A m : (Uses(m))' = {} /\ (Listed(m))' = {}
    BY <2>1 DEF Peripherals, Uses, LinesOf, Listed
  <2>3. ArrayInv'
    BY <2>1, <2>2, FS_EmptySet, EmptySeq DEF ArrayInv
  <2>4. ListInv'
    BY <2>2 DEF ListInv
  <2> QED BY <1>1, <2>3, <2>4 DEF LoadedInv
<1>4. CASE pc' = "gone"
  BY <1>1, <1>4 DEF LoadedInv
<1>5. CASE (pc' # "gone" => pc # "gone") /\ UNCHANGED <<map, plist, plugin>>
  <2>1. Peripherals' = Peripherals /\ \A m : (Uses(m))' = Uses(m)
                                             /\ (Listed(m))' = Listed(m)
    BY <1>5 DEF Peripherals, Uses, LinesOf, Listed
  <2>2. \A k : (UpTo(k))' = UpTo(k)
    BY <2>1 DEF UpTo
  <2>3. ArrayInv' = ArrayInv
    BY <1>5, <2>1, <2>2 DEF ArrayInv
  <2>4. ListInv' = ListInv
    BY <1>5, <2>1 DEF ListInv
  <2> QED BY <1>1, <1>5, <2>3, <2>4 DEF LoadedInv
<1>6. \/ \E line \in Line : Reads(line)
      \/ Start \/ pc' = "gone"
      \/ (pc' # "gone" => pc # "gone") /\ UNCHANGED <<map, plist, plugin>>
  <2>1. CASE AliasBase \/ AliasSize \/ AliasOff
    BY <2>1 DEF AliasBase, AliasSize, AliasOff, WriteAlias, Onward, hostVars
  <2>2. CASE \/ PowerCycle \/ Killed \/ ReadEnd
             \/ \E line \in lines : ReadFails(line)
             \/ Register \/ Enable \/ Disable \/ Unregister \/ Free \/ Return
             \/ UNCHANGED vars
    BY <2>2 DEF PowerCycle, Killed, Return, ReadFails, End, ReadEnd, Register,
                Enable, Disable, Unregister, Free, Onward, hostVars, vars
  <2> QED BY <2>1, <2>2, Steps DEF Types
<1> QED BY <1>2, <1>3, <1>4, <1>5, <1>6

LEMMA LoadedServed ==
  ASSUME Types, LoadedInv
  PROVE  EnabledIsServed
<1> SUFFICES ASSUME slave_en, pc # "gone", ~before.slave_en
             PROVE  /\ recv_cb /\ ptarget = "alive" /\ plugin # <<>>
                    /\ ArrayInv
                    /\ \A m \in DOMAIN Library :
                         /\ Cardinality(Listed(m)) = IF Uses(m) = {} THEN 0 ELSE 1
                         /\ \A k \in Listed(m) :
                              plist[k].refcnt = Cardinality(Uses(m))
  BY DEF EnabledIsServed, ArrayInv, UpTo, Entry, Listed
<1>1. recv_cb /\ ptarget = "alive" /\ plugin # <<>> /\ ArrayInv /\ ListInv
  BY DEF LoadedInv, ControlInv
<1>2. ASSUME NEW m \in DOMAIN Library
      PROVE  /\ Cardinality(Listed(m)) = IF Uses(m) = {} THEN 0 ELSE 1
             /\ \A k \in Listed(m) : plist[k].refcnt = Cardinality(Uses(m))
  <2>1. CASE Uses(m) = {}
    <3>1. Listed(m) = {}
      BY <1>1, <2>1 DEF ListInv
    <3>2. Cardinality(Listed(m)) = 0
      BY <3>1, FS_EmptySet
    <3> QED BY <2>1, <3>1, <3>2
  <2>2. CASE Uses(m) # {}
    <3>1. PICK x \in DOMAIN plist : /\ Listed(m) = {x}
                                    /\ plist[x].refcnt = Cardinality(Uses(m))
      BY <1>1, <2>2 DEF ListInv
    <3>2. Cardinality(Listed(m)) = 1
      BY <3>1, FS_Singleton
    <3> QED BY <2>2, <3>1, <3>2
  <2> QED BY <2>1, <2>2
<1> QED BY <1>1, <1>2

\* The device forwards transactions only to a process that can answer them, with
\* the peripherals and the reference counts of the lines read: plugin_init enables
\* the interface after everything else, plugin_cleanup disables it before
\* (plugini.cpp:321-326, 331-339), and plugin_load counts a plugin it finds
\* instead of loading it again.
THEOREM EnabledServed == Spec => []EnabledIsServed
<1>1. Init => LoadedInv
  BY DEF Init, LoadedInv, ControlInv
<1>2. Types /\ LoadedInv /\ [Next]_vars => LoadedInv'
  BY LoadedNext
<1>3. Types /\ LoadedInv => EnabledIsServed
  BY LoadedServed
<1> QED BY <1>1, <1>2, <1>3, TypesInvariance, PTL DEF Spec

-----------------------------------------------------------------------------
(* The aliases.                                                            *)

\* What the registers of an alias hold when its line is done.
Reg(line) == [base |-> line.base, end |-> line.base + line.size, off |-> line.remap]

\* What they hold at place p of the command, old being what they held before.
WrittenAt(p, line, old) ==
  [base |-> IF p = "base" THEN old.base ELSE line.base,
   end |-> IF p \in {"base", "end"} THEN old.end ELSE line.base + line.size,
   off |-> IF p \in {"base", "end", "off"} THEN old.off ELSE line.remap]
RegAt(k, old) == IF k = Len(map) THEN WrittenAt(pc, map[k], old) ELSE Reg(map[k])

LEMMA WrittenNext ==
  ASSUME NEW line, NEW old \in AliasReg
  PROVE  /\ WrittenAt("base", line, old) = old
         /\ [WrittenAt("base", line, old) EXCEPT !["base"] = line.base]
              = WrittenAt("end", line, old)
         /\ [WrittenAt("end", line, old) EXCEPT !["end"] = line.base + line.size]
              = WrittenAt("off", line, old)
         /\ [WrittenAt("off", line, old) EXCEPT !["off"] = line.remap]
              = WrittenAt("parse", line, old)
         /\ \A p : p \notin {"base", "end", "off"} => WrittenAt(p, line, old) = Reg(line)
<1>1. WrittenAt("base", line, old) = old
  BY DEF WrittenAt, AliasReg
<1>2. [WrittenAt("base", line, old) EXCEPT !["base"] = line.base]
        = WrittenAt("end", line, old)
  BY DEF WrittenAt
<1>3. [WrittenAt("end", line, old) EXCEPT !["end"] = line.base + line.size]
        = WrittenAt("off", line, old)
  BY DEF WrittenAt
<1>4. [WrittenAt("off", line, old) EXCEPT !["off"] = line.remap]
        = WrittenAt("parse", line, old)
  BY DEF WrittenAt
<1>5. \A p : p \notin {"base", "end", "off"} => WrittenAt(p, line, old) = Reg(line)
  BY DEF WrittenAt, Reg
<1> QED BY <1>1, <1>2, <1>3, <1>4, <1>5

CodeAliases == Aliases(TRUE)
SysAliases == Aliases(FALSE)

FitsForm == /\ Cardinality(CodeAliases) <= 2 /\ Cardinality(SysAliases) <= 1
            /\ \A j, k \in CodeAliases : j < k => map[j].base # 0
            /\ \A k \in LinesOf("alias") : map[k].base + map[k].size < Space

LEMMA FitsOf == (Fits <=> FitsForm) /\ (Fits' <=> FitsForm')
BY DEF Fits, FitsForm, CodeAliases, SysAliases

LEMMA AliasLines ==
  ASSUME TypeOK
  PROVE  /\ \A k \in DOMAIN map :
              /\ k \in CodeAliases <=> map[k].kind = "alias" /\ map[k].base < CodeTop
              /\ k \in SysAliases <=> map[k].kind = "alias" /\ ~(map[k].base < CodeTop)
         /\ \A k \in CodeAliases \cup SysAliases :
              /\ k \in DOMAIN map /\ k \in Nat /\ k <= Len(map)
              /\ map[k].base \in Address /\ map[k].size \in Address
              /\ map[k].remap \in Address
         /\ IsFiniteSet(CodeAliases) /\ Cardinality(CodeAliases) \in Nat
         /\ IsFiniteSet(SysAliases) /\ Cardinality(SysAliases) \in Nat
<1>1. /\ Len(map) \in Nat /\ DOMAIN map = 1..Len(map)
      /\ \A k \in DOMAIN map : map[k] \in Line
  BY LenProperties, ElementOfSeq DEF TypeOK
<1>2. \A k \in DOMAIN map :
        /\ k \in CodeAliases <=> map[k].kind = "alias" /\ map[k].base < CodeTop
        /\ k \in SysAliases <=> map[k].kind = "alias" /\ ~(map[k].base < CodeTop)
  BY DEF CodeAliases, SysAliases, Aliases, LinesOf
<1>3. CodeAliases \subseteq DOMAIN map /\ SysAliases \subseteq DOMAIN map
  BY DEF CodeAliases, SysAliases, Aliases, LinesOf
<1>4. \A k \in CodeAliases \cup SysAliases :
        map[k].base \in Address /\ map[k].size \in Address /\ map[k].remap \in Address
  BY <1>1, <1>2, <1>3, LineTypes
<1>5. IsFiniteSet(DOMAIN map)
  BY <1>1, FS_Interval
<1>6. /\ IsFiniteSet(CodeAliases) /\ Cardinality(CodeAliases) \in Nat
      /\ IsFiniteSet(SysAliases) /\ Cardinality(SysAliases) \in Nat
  BY <1>3, <1>5, FS_Subset, FS_CardinalityType
<1>7. \A k \in DOMAIN map : k \in Nat /\ k <= Len(map)
  BY <1>1
<1> QED BY <1>2, <1>3, <1>4, <1>6, <1>7

\* A line read is a new alias of its bus, or none.
LEMMA AliasGrows ==
  ASSUME TypeOK, NEW line \in Line, map' = Append(map, line),
         NEW n, n = Len(map) + 1
  PROVE  /\ CodeAliases' = IF line.kind = "alias" /\ line.base < CodeTop
                               THEN CodeAliases \cup {n} ELSE CodeAliases
         /\ SysAliases' = IF line.kind = "alias" /\ ~(line.base < CodeTop)
                                THEN SysAliases \cup {n} ELSE SysAliases
         /\ \A k \in CodeAliases \cup SysAliases : k < n /\ map'[k] = map[k]
         /\ n \notin CodeAliases /\ n \notin SysAliases
<1>1. /\ map'[n] = line /\ DOMAIN map' = DOMAIN map \cup {n}
      /\ \A k \in DOMAIN map : k \in Nat /\ k < n /\ k # n /\ map'[k] = map[k]
  BY MapGrows
<1> QED BY <1>1 DEF CodeAliases, SysAliases, Aliases, LinesOf

\* A map that fits has fitted all along.
LEMMA FitsBack ==
  ASSUME TypeOK, NEW line \in Line, map' = Append(map, line), Fits'
  PROVE  Fits
<1> DEFINE n == Len(map) + 1
<1>1. /\ map'[n] = line /\ DOMAIN map' = DOMAIN map \cup {n}
      /\ \A k \in DOMAIN map : k \in Nat /\ k < n /\ k # n /\ map'[k] = map[k]
  BY MapGrows
<1> HIDE DEF n
<1>2. /\ CodeAliases \subseteq CodeAliases'
      /\ SysAliases \subseteq SysAliases'
      /\ LinesOf("alias") \subseteq LinesOf("alias")'
  BY <1>1 DEF CodeAliases, SysAliases, Aliases, LinesOf
<1>3. /\ IsFiniteSet(CodeAliases') /\ IsFiniteSet(SysAliases')
  <2>1. /\ CodeAliases' \subseteq CodeAliases \cup {n}
        /\ SysAliases' \subseteq SysAliases \cup {n}
    BY <1>1 DEF CodeAliases, SysAliases, Aliases, LinesOf
  <2> QED BY <2>1, AliasLines, FS_AddElement, FS_Subset
<1>4. /\ Cardinality(CodeAliases) \in Nat /\ Cardinality(CodeAliases') \in Nat
      /\ Cardinality(CodeAliases) <= Cardinality(CodeAliases')
      /\ Cardinality(SysAliases) \in Nat /\ Cardinality(SysAliases') \in Nat
      /\ Cardinality(SysAliases) <= Cardinality(SysAliases')
  BY <1>2, <1>3, AliasLines, FS_Subset, FS_CardinalityType
<1>5. Cardinality(CodeAliases) <= 2 /\ Cardinality(SysAliases) <= 1
  <2>1. Cardinality(CodeAliases') <= 2 /\ Cardinality(SysAliases') <= 1
    BY FitsOf DEF FitsForm
  <2> QED BY <1>4, <2>1
<1>6. \A j, k \in CodeAliases : j < k => map[j].base # 0
  BY <1>1, <1>2, AliasLines, FitsOf DEF FitsForm
<1>7. \A k \in LinesOf("alias") : map[k].base + map[k].size < Space
  <2>1. \A k \in LinesOf("alias") : k \in DOMAIN map
    BY DEF LinesOf
  <2> QED BY <1>1, <1>2, <2>1, FitsOf DEF FitsForm
<1> QED BY <1>5, <1>6, <1>7, FitsOf DEF FitsForm

\* The register of the system alias.
SysForm == \/ SysAliases = {} /\ sys = before.sys
           \/ \E k : SysAliases = {k} /\ sys = RegAt(k, before.sys)

\* The registers of the code aliases, in the order of their lines.
WritingCode == pc \in {"base", "end", "off"} /\ Len(map) \in CodeAliases
NoCode == CodeAliases = {} /\ code = ResetCode
OneCode(k) == /\ CodeAliases = {k}
              /\ code[0] = RegAt(k, NoAlias) /\ code[1] = NoAlias
              /\ WritingCode => idx = 0
TwoCodes(j, k) == /\ CodeAliases = {j, k} /\ j < k
                  /\ code[0] = Reg(map[j]) /\ code[1] = RegAt(k, NoAlias)
                  /\ WritingCode => idx = 1
CodeForm == NoCode \/ (\E k : OneCode(k)) \/ (\E j, k : TwoCodes(j, k))

AliasInv == pc # "gone" /\ Fits => /\ SysForm
                                   /\ before.code = ResetCode => CodeForm

LEMMA AliasTypes ==
  ASSUME TypeOK
  PROVE  /\ code \in [0..1 -> AliasReg] /\ sys \in AliasReg
         /\ before.sys \in AliasReg /\ before.code \in [0..1 -> AliasReg]
         /\ NoAlias \in AliasReg /\ idx \in 0..1
BY CSRTypes, ResetTypes DEF TypeOK, Registers

\* An alias that is not being written is written.
LEMMA RegDone ==
  ASSUME NEW k, NEW old \in AliasReg, pc \notin {"base", "end", "off"}
  PROVE  RegAt(k, old) = Reg(map[k])
<1>1. WrittenAt(pc, map[k], old) = Reg(map[k])
  BY DEF WrittenAt, Reg
<1> QED BY <1>1 DEF RegAt

LEMMA SysRead ==
  ASSUME TypeOK, SysForm, NEW line \in Line, Reads(line), Fits'
  PROVE  SysForm'
<1>0. PICK n : n = Len(map) + 1
  OBVIOUS
<1>1. pc = "parse" /\ map' = Append(map, line) /\ before' = before /\ sys' = sys
  BY ReadMap DEF Reads, ReadAlias, ReadRemap32, ReadRemap256, ReadPlugin, csrVars
<1>2. /\ SysAliases' = IF line.kind = "alias" /\ ~(line.base < CodeTop)
                             THEN SysAliases \cup {n} ELSE SysAliases
      /\ \A k \in SysAliases : k < n /\ map'[k] = map[k]
      /\ n \notin SysAliases /\ Len(map') = n
      /\ \A k \in SysAliases : k \in Nat
      /\ IsFiniteSet(SysAliases) /\ map'[n] = line /\ n \in Nat
  BY <1>0, <1>1, AliasGrows, MapGrows, AliasLines
<1>3. \A k \in SysAliases : RegAt(k, before.sys)' = RegAt(k, before.sys)
  BY <1>1, <1>2, RegDone, AliasTypes DEF RegAt
<1>4. CASE line.kind = "alias" /\ ~(line.base < CodeTop)
  <2>1. SysAliases = {}
    <3>1. SUFFICES ASSUME NEW k, SysAliases = {k} PROVE FALSE
      BY DEF SysForm
    <3>2. Cardinality(SysAliases) = 1
      BY <3>1, FS_Singleton
    <3>3. SysAliases' = SysAliases \cup {n} /\ n \notin SysAliases
      BY <1>2, <1>4
    <3>4. Cardinality(SysAliases \cup {n}) = Cardinality(SysAliases) + 1
      BY <1>2, <3>3, FS_AddElement
    <3>5. Cardinality(SysAliases') = 2
      BY <3>2, <3>3, <3>4
    <3> QED BY <3>5, FitsOf DEF FitsForm
  <2>2. ReadAlias(line) /\ pc' = "base"
    BY <1>4 DEF Reads, ReadAlias, ReadRemap32, ReadRemap256, ReadPlugin, Onward
  <2>3. WrittenAt("base", line, before.sys) = before.sys
    BY WrittenNext, AliasTypes
  <2>4. SysAliases' = {n} /\ RegAt(n, before.sys)' = before.sys
    BY <1>1, <1>2, <1>4, <2>1, <2>2, <2>3 DEF RegAt
  <2>5. sys' = before.sys
    BY <1>1, <2>1 DEF SysForm
  <2>6. SysAliases' = {n} /\ sys' = RegAt(n, before.sys)'
    BY <2>4, <2>5
  <2> QED BY <2>6 DEF SysForm
<1>5. CASE ~(line.kind = "alias" /\ ~(line.base < CodeTop))
  <2>1. SysAliases' = SysAliases
    BY <1>2, <1>5
  <2> QED BY <1>1, <1>3, <2>1 DEF SysForm
<1> QED BY <1>4, <1>5

\* A code alias read takes register 0 if it is the first, else register 1.
LEMMA CodeRead ==
  ASSUME TypeOK, CodeForm, NEW line \in Line, Reads(line), Fits'
  PROVE  CodeForm'
<1>0. PICK n : n = Len(map) + 1
  OBVIOUS
<1>1. pc = "parse" /\ map' = Append(map, line) /\ code' = code
  BY ReadMap DEF Reads, ReadAlias, ReadRemap32, ReadRemap256, ReadPlugin, csrVars
<1>2. /\ CodeAliases' = IF line.kind = "alias" /\ line.base < CodeTop
                          THEN CodeAliases \cup {n} ELSE CodeAliases
      /\ \A k \in CodeAliases : k \in Nat /\ k < n /\ map'[k] = map[k]
      /\ n \notin CodeAliases /\ Len(map') = n
      /\ IsFiniteSet(CodeAliases) /\ map'[n] = line /\ n \in Nat
  BY <1>0, <1>1, AliasGrows, MapGrows, AliasLines
<1>3. \A k \in CodeAliases : /\ RegAt(k, NoAlias) = Reg(map[k])
                             /\ RegAt(k, NoAlias)' = Reg(map[k])
  BY <1>1, <1>2, RegDone, AliasTypes DEF RegAt
<1>4. CASE line.kind = "alias" /\ line.base < CodeTop
  <2>1. CodeAliases' = CodeAliases \cup {n}
    BY <1>2, <1>4
  <2>2. pc' = "base" /\ idx' = IF code[0].base # 0 THEN 1 ELSE 0
    BY <1>4 DEF Reads, ReadAlias, ReadRemap32, ReadRemap256, ReadPlugin, Onward, Slot,
                CodeAliasGet
  <2>3. WrittenAt("base", line, NoAlias) = NoAlias
    BY WrittenNext, AliasTypes
  <2>4. RegAt(n, NoAlias)' = NoAlias
    BY <1>2, <2>2, <2>3 DEF RegAt
  <2>5. CASE NoCode
    <3>1. code[0] = NoAlias /\ code[1] = NoAlias /\ code[0].base = 0
      BY <2>5 DEF NoCode, ResetCode, NoAlias
    <3>2. OneCode(n)'
      <4>1. CodeAliases' = {n}
        BY <2>1, <2>5 DEF NoCode
      <4> QED BY <1>1, <2>2, <2>4, <3>1, <4>1 DEF OneCode
    <3> QED BY <3>2 DEF CodeForm
  <2>6. ASSUME NEW j, OneCode(j) PROVE CodeForm'
    <3>1. /\ CodeAliases = {j} /\ j < n /\ map'[j] = map[j]
          /\ code[0] = Reg(map[j]) /\ code[1] = NoAlias
      BY <1>2, <1>3, <2>6 DEF OneCode
    <3>2. CodeAliases' = {j, n}
      BY <2>1, <3>1
    <3>3. map[j].base # 0
      BY <1>2, <3>1, <3>2, FitsOf DEF FitsForm
    <3>4. code[0].base # 0
      BY <3>1, <3>3 DEF Reg
    <3>5. TwoCodes(j, n)'
      BY <1>1, <2>2, <2>4, <3>1, <3>2, <3>4 DEF TwoCodes
    <3> QED BY <3>5 DEF CodeForm
  <2>7. ASSUME NEW j, NEW k, TwoCodes(j, k) PROVE FALSE
    <3>1. CodeAliases = {j} \cup {k} /\ j # k
      BY <1>2, <2>7 DEF TwoCodes
    <3>2. IsFiniteSet({j}) /\ Cardinality({j}) = 1
      BY FS_Singleton
    <3>3. Cardinality(CodeAliases) = Cardinality({j}) + 1
      BY <3>1, <3>2, FS_AddElement
    <3>4. Cardinality(CodeAliases \cup {n}) = Cardinality(CodeAliases) + 1
      BY <1>2, FS_AddElement
    <3>5. Cardinality(CodeAliases') = 3
      BY <2>1, <3>2, <3>3, <3>4
    <3> QED BY <3>5, FitsOf DEF FitsForm
  <2> QED BY <2>5, <2>6, <2>7 DEF CodeForm
<1>5. CASE ~(line.kind = "alias" /\ line.base < CodeTop)
  <2>1. CodeAliases' = CodeAliases
    BY <1>2, <1>5
  <2>2. ~WritingCode'
    BY <1>2, <2>1 DEF WritingCode
  <2>3. CASE NoCode
    BY <1>1, <2>1, <2>3 DEF CodeForm, NoCode
  <2>4. ASSUME NEW j, OneCode(j) PROVE CodeForm'
    <3>1. OneCode(j)'
      BY <1>1, <1>3, <2>1, <2>2, <2>4 DEF OneCode
    <3> QED BY <3>1 DEF CodeForm
  <2>5. ASSUME NEW j, NEW k, TwoCodes(j, k) PROVE CodeForm'
    <3>1. j \in CodeAliases /\ k \in CodeAliases
      BY <2>5 DEF TwoCodes
    <3>2. TwoCodes(j, k)'
      BY <1>1, <1>2, <1>3, <2>1, <2>2, <2>5, <3>1 DEF TwoCodes
    <3> QED BY <3>2 DEF CodeForm
  <2> QED BY <2>3, <2>4, <2>5 DEF CodeForm
<1> QED BY <1>4, <1>5

\* One register write of an alias.
Writes(field, value) ==
  /\ \A old \in AliasReg :
       [WrittenAt(pc, Last(map), old) EXCEPT ![field] = value]
         = WrittenAt(pc', Last(map), old)
  /\ IF Last(map).base < CodeTop
       THEN code' = [code EXCEPT ![idx][field] = value] /\ sys' = sys
       ELSE sys' = [sys EXCEPT ![field] = value] /\ code' = code

LEMMA WriteStep ==
  ASSUME Types, AliasBase \/ AliasSize \/ AliasOff, Fits
  PROVE  \E field, value : field \in {"base", "end", "off"} /\ Writes(field, value)
<1>1. pc \in {"base", "end", "off"} /\ Last(map).kind = "alias" /\ map # <<>>
  BY DEF AliasBase, AliasSize, AliasOff, Types, Places, WritingAlias
<1>2. /\ Last(map).base \in Address /\ Last(map).size \in Address
      /\ Last(map).base + Last(map).size < Space
  <2>1. Last(map) \in Line
    BY <1>1, LastLine DEF Types
  <2>2. Len(map) \in DOMAIN map /\ Last(map) = map[Len(map)]
    BY <1>1, LenProperties, EmptySeq DEF Last, Types, TypeOK
  <2>3. Len(map) \in LinesOf("alias")
    BY <1>1, <2>2 DEF LinesOf
  <2> QED BY <1>1, <2>1, <2>2, <2>3, LineTypes DEF Fits
<1>3. AliasEnd(Last(map)) = Last(map).base + Last(map).size
  <2>1. \A x, y \in Address : x + y < Space => (x + y) % Space = x + y
    BY DEF Address, Space
  <2> QED BY <1>2, <2>1 DEF AliasEnd
<1>4. ASSUME NEW field \in {"base", "end", "off"}, NEW value, NEW place,
             WriteAlias(field, value, place),
             \A old \in AliasReg :
                [WrittenAt(pc, Last(map), old) EXCEPT ![field] = value]
                  = WrittenAt(place, Last(map), old)
      PROVE  Writes(field, value)
  <2>1. pc' = place
    BY <1>4 DEF WriteAlias, Onward
  <2>2. IF Last(map).base < CodeTop
          THEN code' = [code EXCEPT ![idx][field] = value] /\ sys' = sys
          ELSE sys' = [sys EXCEPT ![field] = value] /\ code' = code
    BY <1>4 DEF WriteAlias
  <2> QED BY <1>4, <2>1, <2>2 DEF Writes
<1>5. CASE AliasBase
  <2>1. pc = "base" /\ WriteAlias("base", Last(map).base, "end")
    BY <1>5 DEF AliasBase
  <2>2. \A old \in AliasReg :
          [WrittenAt(pc, Last(map), old) EXCEPT !["base"] = Last(map).base]
            = WrittenAt("end", Last(map), old)
    BY <2>1, WrittenNext
  <2>3. Writes("base", Last(map).base)
    BY <1>4, <2>1, <2>2
  <2> QED BY <2>3
<1>6. CASE AliasSize
  <2>1. pc = "end" /\ WriteAlias("end", AliasEnd(Last(map)), "off")
    BY <1>6 DEF AliasSize
  <2>2. \A old \in AliasReg :
          [WrittenAt(pc, Last(map), old) EXCEPT !["end"] = AliasEnd(Last(map))]
            = WrittenAt("off", Last(map), old)
    BY <1>3, <2>1, WrittenNext
  <2>3. Writes("end", AliasEnd(Last(map)))
    BY <1>4, <2>1, <2>2
  <2> QED BY <2>3
<1>7. CASE AliasOff
  <2>1. pc = "off" /\ WriteAlias("off", Last(map).remap, "parse")
    BY <1>7 DEF AliasOff
  <2>2. \A old \in AliasReg :
          [WrittenAt(pc, Last(map), old) EXCEPT !["off"] = Last(map).remap]
            = WrittenAt("parse", Last(map), old)
    BY <2>1, WrittenNext
  <2>3. Writes("off", Last(map).remap)
    BY <1>4, <2>1, <2>2
  <2> QED BY <2>3
<1> QED BY <1>5, <1>6, <1>7

LEMMA AliasWrite ==
  ASSUME Types, AliasInv, Fits, AliasBase \/ AliasSize \/ AliasOff
  PROVE  /\ SysForm' /\ before' = before
         /\ before.code = ResetCode => CodeForm'
<1>1. /\ map' = map /\ before' = before /\ idx' = idx /\ pc # "gone"
      /\ pc \in {"base", "end", "off"}
  BY DEF AliasBase, AliasSize, AliasOff, WriteAlias, Onward, hostVars
<1>2. PICK field, value : field \in {"base", "end", "off"} /\ Writes(field, value)
  BY WriteStep
<1>3. PICK n : n = Len(map)
  OBVIOUS
<1>4. /\ n \in DOMAIN map /\ Last(map) = map[n] /\ map[n].kind = "alias"
  BY <1>1, <1>3, LenProperties, EmptySeq
     DEF Last, Types, TypeOK, Places, WritingAlias
<1>5. CodeAliases' = CodeAliases /\ SysAliases' = SysAliases
  BY <1>1 DEF CodeAliases, SysAliases, Aliases, LinesOf
<1>6. SysForm /\ (before.code = ResetCode => CodeForm)
  BY <1>1 DEF AliasInv
<1>7. \A k, old : k # n => RegAt(k, old)' = RegAt(k, old) /\ RegAt(k, old) = Reg(map[k])
  BY <1>1, <1>3 DEF RegAt
<1>8. \A old \in AliasReg : RegAt(n, old)' = [RegAt(n, old) EXCEPT ![field] = value]
  <2> SUFFICES ASSUME NEW old \in AliasReg
               PROVE  RegAt(n, old)' = [RegAt(n, old) EXCEPT ![field] = value]
    OBVIOUS
  <2>1. /\ RegAt(n, old) = WrittenAt(pc, map[n], old)
        /\ RegAt(n, old)' = WrittenAt(pc', map[n], old)
    BY <1>1, <1>3 DEF RegAt
  <2> QED BY <1>2, <1>4, <2>1 DEF Writes
<1>9. CASE map[n].base < CodeTop
  <2>1. n \in CodeAliases /\ n \notin SysAliases /\ WritingCode
    BY <1>1, <1>3, <1>4, <1>9, AliasLines DEF WritingCode, Types, CodeAliases, SysAliases
  <2>2. code' = [code EXCEPT ![idx][field] = value] /\ sys' = sys
    BY <1>2, <1>4, <1>9 DEF Writes
  <2>3. SysForm'
    BY <1>1, <1>5, <1>6, <1>7, <2>1, <2>2 DEF SysForm
  <2>4. ASSUME before.code = ResetCode PROVE CodeForm'
    <3>1. ~NoCode
      BY <2>1 DEF NoCode
    <3>2. ASSUME NEW k, OneCode(k) PROVE CodeForm'
      <4>1. k = n /\ idx = 0 /\ CodeAliases = {n}
            /\ code[0] = RegAt(n, NoAlias) /\ code[1] = NoAlias
        BY <2>1, <3>2 DEF OneCode
      <4>2. /\ code'[0] = [code[0] EXCEPT ![field] = value]
            /\ code'[1] = code[1]
        BY <2>2, <4>1, AliasTypes DEF Types
      <4>3. code'[0] = RegAt(n, NoAlias)'
        BY <1>8, <4>1, <4>2, AliasTypes DEF Types
      <4>4. OneCode(n)'
        BY <1>1, <1>5, <4>1, <4>2, <4>3 DEF OneCode
      <4> QED BY <4>4 DEF CodeForm
    <3>3. ASSUME NEW j, NEW k, TwoCodes(j, k) PROVE CodeForm'
      <4>1. k = n /\ idx = 1 /\ CodeAliases = {j, n} /\ j < n
            /\ code[0] = Reg(map[j]) /\ code[1] = RegAt(n, NoAlias)
        <5>1. /\ j \in CodeAliases /\ k \in CodeAliases /\ j < k
              /\ CodeAliases = {j, k} /\ idx = 1
              /\ code[0] = Reg(map[j]) /\ code[1] = RegAt(k, NoAlias)
          BY <2>1, <3>3 DEF TwoCodes
        <5>2. j \in Nat /\ k \in Nat /\ k <= n
          BY <1>3, <5>1, AliasLines DEF Types, CodeAliases
        <5>3. n = j \/ n = k
          BY <2>1, <5>1
        <5>4. n = k
          BY <5>1, <5>2, <5>3
        <5> QED BY <5>1, <5>4
      <4>2. /\ code'[1] = [code[1] EXCEPT ![field] = value]
            /\ code'[0] = code[0]
        BY <2>2, <4>1, AliasTypes DEF Types
      <4>3. code'[1] = RegAt(n, NoAlias)'
        BY <1>8, <4>1, <4>2, AliasTypes DEF Types
      <4>4. Reg(map'[j]) = Reg(map[j])
        BY <1>1
      <4>5. TwoCodes(j, n)'
        BY <1>1, <1>5, <4>1, <4>2, <4>3, <4>4 DEF TwoCodes
      <4> QED BY <4>5 DEF CodeForm
    <3> QED BY <1>6, <2>4, <3>1, <3>2, <3>3 DEF CodeForm
  <2> QED BY <1>1, <2>3, <2>4
<1>10. CASE ~(map[n].base < CodeTop)
  <2>1. n \notin CodeAliases /\ n \in SysAliases /\ ~WritingCode'
    BY <1>1, <1>3, <1>4, <1>5, <1>10, AliasLines
       DEF WritingCode, Types, CodeAliases, SysAliases
  <2>2. sys' = [sys EXCEPT ![field] = value] /\ code' = code
    BY <1>2, <1>4, <1>10 DEF Writes
  <2>3. SysForm'
    <3>1. PICK k : SysAliases = {k} /\ sys = RegAt(k, before.sys)
      BY <1>6, <2>1 DEF SysForm
    <3>2. k = n
      BY <2>1, <3>1
    <3>3. sys' = RegAt(n, before.sys)'
      BY <1>1, <1>8, <2>2, <3>1, <3>2, AliasTypes DEF Types
    <3> QED BY <1>1, <1>5, <3>1, <3>2, <3>3 DEF SysForm
  <2>4. ASSUME before.code = ResetCode PROVE CodeForm'
    <3>1. CASE NoCode
      BY <1>5, <2>2, <3>1 DEF CodeForm, NoCode
    <3>2. ASSUME NEW k, OneCode(k) PROVE CodeForm'
      <4>1. k # n
        BY <2>1, <3>2 DEF OneCode
      <4>2. OneCode(k)'
        BY <1>5, <1>7, <2>1, <2>2, <3>2, <4>1 DEF OneCode
      <4> QED BY <4>2 DEF CodeForm
    <3>3. ASSUME NEW j, NEW k, TwoCodes(j, k) PROVE CodeForm'
      <4>1. k # n
        BY <2>1, <3>3 DEF TwoCodes
      <4>2. TwoCodes(j, k)'
        BY <1>1, <1>5, <1>7, <2>1, <2>2, <3>3, <4>1 DEF TwoCodes
      <4> QED BY <4>2 DEF CodeForm
    <3> QED BY <1>6, <2>4, <3>1, <3>2, <3>3 DEF CodeForm
  <2> QED BY <1>1, <2>3, <2>4
<1> QED BY <1>9, <1>10

LEMMA AliasNext ==
  ASSUME Types, AliasInv, [Next]_vars
  PROVE  AliasInv'
<1> SUFFICES ASSUME pc' # "gone", Fits'
             PROVE  SysForm' /\ (before'.code = ResetCode => CodeForm')
  BY DEF AliasInv
<1>1. ASSUME NEW line \in Line, Reads(line)
      PROVE  SysForm' /\ (before'.code = ResetCode => CodeForm')
  <2>1. pc = "parse" /\ map' = Append(map, line) /\ before' = before
    BY <1>1, ReadMap DEF Types
  <2>2. Fits
    BY <2>1, FitsBack DEF Types
  <2>3. SysForm /\ (before.code = ResetCode => CodeForm)
    BY <2>1, <2>2 DEF AliasInv
  <2> QED BY <1>1, <2>1, <2>3, SysRead, CodeRead DEF Types
<1>2. CASE AliasBase \/ AliasSize \/ AliasOff
  <2>1. map' = map
    BY <1>2 DEF AliasBase, AliasSize, AliasOff, WriteAlias, hostVars
  <2>2. Fits
    BY <2>1 DEF Fits, Aliases, LinesOf
  <2> QED BY <1>2, <2>2, AliasWrite
<1>3. CASE Start
  <2>1. /\ map' = <<>> /\ before'.code = code /\ before'.sys = sys
        /\ code' = code /\ sys' = sys
    BY <1>3 DEF Start, CSRs, Types, Places, hostVars, csrVars
  <2>2. CodeAliases' = {} /\ SysAliases' = {}
    BY <2>1 DEF CodeAliases, SysAliases, Aliases, LinesOf
  <2> QED BY <2>1, <2>2 DEF SysForm, CodeForm, NoCode
<1>4. CASE /\ pc # "gone" /\ pc \notin {"base", "end", "off"}
           /\ pc' \notin {"base", "end", "off"}
           /\ UNCHANGED <<map, code, sys, before>>
  <2>1. Fits
    BY <1>4 DEF Fits, Aliases, LinesOf
  <2>2. SysForm /\ (before.code = ResetCode => CodeForm)
    BY <1>4, <2>1 DEF AliasInv
  <2>3. CodeAliases' = CodeAliases /\ SysAliases' = SysAliases
    BY <1>4 DEF CodeAliases, SysAliases, Aliases, LinesOf
  <2>4. \A k : \A old \in AliasReg : RegAt(k, old)' = RegAt(k, old)
    <3> SUFFICES ASSUME NEW k, NEW old \in AliasReg
                 PROVE  RegAt(k, old)' = RegAt(k, old)
      OBVIOUS
    <3>1. /\ WrittenAt(pc, map[k], old) = Reg(map[k])
          /\ WrittenAt(pc', map[k], old) = Reg(map[k])
      BY <1>4 DEF WrittenAt, Reg
    <3> QED BY <1>4, <3>1 DEF RegAt
  <2>5. SysForm'
    BY <1>4, <2>2, <2>3, <2>4, AliasTypes DEF SysForm, Types
  <2>6. ASSUME before.code = ResetCode PROVE CodeForm'
    <3>1. ~WritingCode'
      BY <1>4 DEF WritingCode
    <3>2. CASE NoCode
      BY <1>4, <2>3, <3>2 DEF CodeForm, NoCode
    <3>3. ASSUME NEW k, OneCode(k) PROVE CodeForm'
      <4>1. OneCode(k)'
        BY <1>4, <2>3, <2>4, <3>1, <3>3, ResetTypes DEF OneCode
      <4> QED BY <4>1 DEF CodeForm
    <3>4. ASSUME NEW j, NEW k, TwoCodes(j, k) PROVE CodeForm'
      <4>1. TwoCodes(j, k)'
        BY <1>4, <2>3, <2>4, <3>1, <3>4, ResetTypes DEF TwoCodes
      <4> QED BY <4>1 DEF CodeForm
    <3> QED BY <2>2, <2>6, <3>2, <3>3, <3>4 DEF CodeForm
  <2> QED BY <1>4, <2>5, <2>6
<1>5. CASE UNCHANGED <<pc, map, code, sys, before, idx>>
  <2>1. Fits
    BY <1>5 DEF Fits, Aliases, LinesOf
  <2>2. SysForm /\ (before.code = ResetCode => CodeForm)
    BY <1>5, <2>1 DEF AliasInv
  <2>3. CodeAliases' = CodeAliases /\ SysAliases' = SysAliases
    BY <1>5 DEF CodeAliases, SysAliases, Aliases, LinesOf
  <2>4. \A k, old : RegAt(k, old)' = RegAt(k, old)
    BY <1>5 DEF RegAt
  <2>5. SysForm'
    BY <1>5, <2>2, <2>3, <2>4 DEF SysForm
  <2>6. WritingCode' = WritingCode
    BY <1>5, <2>3 DEF WritingCode
  <2>7. /\ NoCode' = NoCode
        /\ \A k : OneCode(k)' = OneCode(k)
        /\ \A j, k : TwoCodes(j, k)' = TwoCodes(j, k)
    BY <1>5, <2>3, <2>4, <2>6 DEF NoCode, OneCode, TwoCodes
  <2> QED BY <1>5, <2>2, <2>5, <2>7 DEF CodeForm
<1>6. \/ \E line \in Line : Reads(line)
      \/ AliasBase \/ AliasSize \/ AliasOff \/ Start
      \/ UNCHANGED <<pc, map, code, sys, before, idx>>
      \/ /\ pc # "gone" /\ pc \notin {"base", "end", "off"}
         /\ pc' \notin {"base", "end", "off"}
         /\ UNCHANGED <<map, code, sys, before>>
  <2>1. CASE PowerCycle \/ Killed \/ Return \/ \E line \in lines : ReadFails(line)
    BY <2>1 DEF PowerCycle, Killed, Return, ReadFails, End
  <2>2. CASE \/ ReadEnd \/ Register \/ Enable \/ Disable \/ Unregister \/ Free
             \/ UNCHANGED vars
    BY <2>2 DEF ReadEnd, Register, Enable, Disable, Unregister, Free, Onward,
                hostVars, csrVars, vars
  <2> QED BY <2>1, <2>2, Steps DEF Types
<1> QED BY <1>1, <1>2, <1>3, <1>4, <1>5, <1>6

\* The first of the lines that name an address.
LEMMA MinFirst ==
  ASSUME NEW j \in Nat
  PROVE  /\ Min({j}) = j
         /\ \A k \in Nat : j < k => Min({j, k}) = j
<1>1. ASSUME NEW K, j \in K, \A y \in K : y \in Nat /\ j <= y
      PROVE  Min(K) = j
  <2> DEFINE Q(x) == x \in K /\ \A y \in K : x <= y
  <2>1. Q(j)
    BY <1>1
  <2>2. \A x : Q(x) => x = j
    BY <1>1
  <2>3. Min(K) = CHOOSE x : Q(x)
    BY DEF Min
  <2> HIDE DEF Q
  <2> QED BY <2>1, <2>2, <2>3
<1>2. Min({j}) = j
  BY <1>1
<1>3. ASSUME NEW k \in Nat, j < k PROVE Min({j, k}) = j
  BY <1>1, <1>3
<1> QED BY <1>2, <1>3

\* An access is moved by a finished register if the line names its address.
LEMMA RegMoves ==
  ASSUME NEW line, line.base \in Address, line.size \in Address,
         line.remap \in Address, NEW a \in Address
  PROVE  /\ In(Reg(line), a) <=> Names(line, a)
         /\ Moved(Reg(line), a) = (a - line.base + line.remap) % Space
         /\ ~In(NoAlias, a)
<1> DEFINE b == line.base
           z == line.size
<1>1. a \in Int /\ b \in Int /\ z \in Int /\ a >= 0
  BY DEF Address, Space
<1> HIDE DEF b, z
<1>2. (a >= b /\ a < b + z) <=> a \in b .. (b + z - 1)
  BY <1>1
<1>3. In(Reg(line), a) <=> Names(line, a)
  BY <1>2 DEF In, Reg, Names, b, z
<1>4. Moved(Reg(line), a) = (a - line.base + line.remap) % Space
  BY DEF Moved, Reg
<1>5. ~In(NoAlias, a)
  BY <1>1 DEF In, NoAlias
<1> QED BY <1>3, <1>4, <1>5

LEMMA AliasesServed ==
  ASSUME Types, AliasInv
  PROVE  AliasesOfMap
<1> SUFFICES ASSUME Parsed, Fits, NEW a \in Address,
                    a >= CodeTop \/ before.code = ResetCode
             PROVE  Bus(code, sys, a) =
                      IF Named(a) # {} THEN Declared(a)
                      ELSE IF a >= CodeTop /\ Aliases(FALSE) # {} THEN a
                      ELSE Bus(before.code, before.sys, a)
  BY DEF AliasesOfMap
<1>1. SysForm /\ (before.code = ResetCode => CodeForm)
  BY DEF AliasInv, Parsed
<1>2. \A k : \A old \in AliasReg : RegAt(k, old) = Reg(map[k])
  BY RegDone DEF Parsed
<1>3. \A k \in CodeAliases \cup SysAliases :
        /\ k \in Nat
        /\ In(Reg(map[k]), a) <=> Names(map[k], a)
        /\ Moved(Reg(map[k]), a) = (a - map[k].base + map[k].remap) % Space
  BY AliasLines, RegMoves DEF Types, CodeAliases, SysAliases
<1>4. a \in Int /\ CodeTop \in Int /\ ~In(NoAlias, a)
  BY RegMoves, ResetTypes DEF Address, CodeTop, NoAlias, In
<1>5. CASE ~(a < CodeTop)
  <2>1. Named(a) = {k \in SysAliases : Names(map[k], a)}
    <3>1. (a < CodeTop) = FALSE
      BY <1>5
    <3> QED BY <3>1 DEF Named, SysAliases
  <2>2. \A cs, s : Bus(cs, s, a) = IF In(s, a) THEN Moved(s, a) ELSE a
    BY <1>5 DEF Bus
  <2>3. CASE SysAliases = {} /\ sys = before.sys
    <3>1. Named(a) = {} /\ Bus(code, sys, a) = Bus(before.code, before.sys, a)
      BY <2>1, <2>2, <2>3
    <3> QED BY <2>3, <3>1 DEF SysAliases
  <2>4. ASSUME NEW k, SysAliases = {k}, sys = RegAt(k, before.sys)
        PROVE  Bus(code, sys, a) = IF Named(a) # {} THEN Declared(a) ELSE a
    <3>1. sys = Reg(map[k]) /\ k \in Nat
      BY <1>2, <1>3, <2>4, AliasTypes DEF Types
    <3>2. CASE Names(map[k], a)
      <4>1. Named(a) = {k}
        BY <2>1, <2>4, <3>2
      <4>2. Declared(a) = (a - map[k].base + map[k].remap) % Space
        BY <3>1, <4>1, MinFirst DEF Declared
      <4> QED BY <1>3, <2>2, <2>4, <3>1, <3>2, <4>1, <4>2
    <3>3. CASE ~Names(map[k], a)
      <4>1. Named(a) = {}
        BY <2>1, <2>4, <3>3
      <4> QED BY <1>3, <2>2, <2>4, <3>1, <3>3, <4>1
    <3> QED BY <3>2, <3>3
  <2>5. ASSUME NEW k, SysAliases = {k} PROVE Aliases(FALSE) # {}
    BY <2>5 DEF SysAliases
  <2>6. a >= CodeTop
    BY <1>4, <1>5
  <2> QED BY <1>1, <2>3, <2>4, <2>5, <2>6 DEF SysForm
<1>6. CASE a < CodeTop
  <2>1. before.code = ResetCode /\ ~(a >= CodeTop)
    BY <1>4, <1>6
  <2>2. Named(a) = {k \in CodeAliases : Names(map[k], a)}
    <3>1. (a < CodeTop) = TRUE
      BY <1>6
    <3> QED BY <3>1 DEF Named, CodeAliases
  <2>3. \A cs, s : Bus(cs, s, a) = IF In(cs[0], a) THEN Moved(cs[0], a)
                                   ELSE IF In(cs[1], a) THEN Moved(cs[1], a) ELSE a
    BY <1>6 DEF Bus
  <2>4. Bus(before.code, before.sys, a) = a
    BY <1>4, <2>1, <2>3 DEF ResetCode
  <2> SUFFICES Bus(code, sys, a) = IF Named(a) # {} THEN Declared(a) ELSE a
    BY <2>1, <2>4
  <2>5. CASE NoCode
    <3>1. Named(a) = {} /\ code[0] = NoAlias /\ code[1] = NoAlias
      BY <2>2, <2>5 DEF NoCode, ResetCode
    <3> QED BY <1>4, <2>3, <3>1
  <2>6. ASSUME NEW k, OneCode(k)
        PROVE  Bus(code, sys, a) = IF Named(a) # {} THEN Declared(a) ELSE a
    <3>1. /\ CodeAliases = {k} /\ k \in Nat
          /\ code[0] = Reg(map[k]) /\ code[1] = NoAlias
      BY <1>2, <1>3, <2>6, ResetTypes DEF OneCode
    <3>2. CASE Names(map[k], a)
      <4>1. Named(a) = {k}
        BY <2>2, <3>1, <3>2
      <4>2. Declared(a) = (a - map[k].base + map[k].remap) % Space
        BY <3>1, <4>1, MinFirst DEF Declared
      <4> QED BY <1>3, <2>3, <3>1, <3>2, <4>1, <4>2
    <3>3. CASE ~Names(map[k], a)
      <4>1. Named(a) = {}
        BY <2>2, <3>1, <3>3
      <4> QED BY <1>3, <1>4, <2>3, <3>1, <3>3, <4>1
    <3> QED BY <3>2, <3>3
  <2>7. ASSUME NEW j, NEW k, TwoCodes(j, k)
        PROVE  Bus(code, sys, a) = IF Named(a) # {} THEN Declared(a) ELSE a
    <3>1. /\ CodeAliases = {j, k} /\ j \in Nat /\ k \in Nat /\ j < k
          /\ code[0] = Reg(map[j]) /\ code[1] = Reg(map[k])
      BY <1>2, <1>3, <2>7, ResetTypes DEF TwoCodes
    <3>2. CASE Names(map[j], a)
      <4>1. Named(a) = {j} \/ Named(a) = {j, k}
        BY <2>2, <3>1, <3>2
      <4>2. Min(Named(a)) = j
        BY <3>1, <4>1, MinFirst
      <4>3. Declared(a) = (a - map[j].base + map[j].remap) % Space
        BY <4>2 DEF Declared
      <4> QED BY <1>3, <2>3, <3>1, <3>2, <4>1, <4>3
    <3>3. CASE ~Names(map[j], a) /\ Names(map[k], a)
      <4>1. Named(a) = {k}
        BY <2>2, <3>1, <3>3
      <4>2. Declared(a) = (a - map[k].base + map[k].remap) % Space
        BY <3>1, <4>1, MinFirst DEF Declared
      <4> QED BY <1>3, <2>3, <3>1, <3>3, <4>1, <4>2
    <3>4. CASE ~Names(map[j], a) /\ ~Names(map[k], a)
      <4>1. Named(a) = {}
        BY <2>2, <3>1, <3>4
      <4> QED BY <1>3, <2>3, <3>1, <3>4, <4>1
    <3> QED BY <3>2, <3>3, <3>4
  <2> QED BY <1>1, <2>1, <2>5, <2>6, <2>7 DEF CodeForm
<1> QED BY <1>5, <1>6

\* The CPU's accesses go where the map's aliases say and all others where they
\* went before, for every map that fits and a device that came with its code
\* aliases unused: sysmap_parse takes register 0 for the first and, seeing its
\* base, register 1 for the second (sysmap_parse.cpp:186-210), and the device
\* looks at register 0 first (flexsoc_cm3.sv:89-112), as the first line of the
\* map comes first.  The system alias is right whatever was there before.
THEOREM AliasesHold == Spec => []AliasesOfMap
<1>1. Init => AliasInv
  BY DEF Init, AliasInv
<1>2. Types /\ AliasInv /\ [Next]_vars => AliasInv'
  BY AliasNext
<1>3. Types /\ AliasInv => AliasesOfMap
  BY AliasesServed
<1> QED BY <1>1, <1>2, <1>3, TypesInvariance, PTL DEF Spec
=============================================================================
