------------------------------- MODULE Sysmap -------------------------------
(***************************************************************************)
(* The system map: sysmap_parse with what its lines change (the aliases    *)
(* and remaps in the device, the list of loaded plugins, the plugin        *)
(* array), plugin_init and plugin_cleanup around it.                       *)
(*                                                                         *)
(* The registers belong to the device and are reset with it (PORESETn),    *)
(* not by the command: each start of the command finds what the last one   *)
(* left, be it the end of a run, an error, or a signal between two         *)
(* register writes.                                                        *)
(*                                                                         *)
(* An address is its upper byte, a multiple of 16 MB: what the masks of    *)
(* the remaps keep, and enough to tell the two buses apart.  Text that is  *)
(* no number is left out.                                                  *)
(***************************************************************************)
EXTENDS Integers, Sequences, FiniteSets, SequencesExt

CONSTANTS
  LineSets,  \* set of sets of lines: the lines of an execution's maps
  Library,   \* plugin name -> what plugin_open and dlsym find: "bus",
             \*   "other" (a plugin, but no BUSPERIPH), "nosymbol", "missing"
  MaxLines   \* bound: how many lines the n-th start of the command reads

Space == 256         \* 2^32 bytes
CodeTop == 32        \* 0x20000000: the code bus ends, the system bus begins
Address == 0..(Space - 1)

Line == [kind : {"alias"}, base : Address, size : Address, remap : Address]
        \* window: what stoi makes of the text, idx: what parse_uint does
        \cup [kind : {"remap32"}, window : Nat, idx : 0..7, remap : Address]
        \cup [kind : {"remap256"}, remap : Address]
        \cup [kind : {"plugin"}, name : DOMAIN Library, base : Address]
        \cup [kind : {"invalid"}]

ASSUME LinesAssumption == \A S \in LineSets : S \subseteq Line
ASSUME LibraryAssumption == \A n \in DOMAIN Library :
                              Library[n] \in {"bus", "other", "nosymbol", "missing"}
ASSUME MaxLinesAssumption == MaxLines \in Seq(Nat)

VARIABLES
  lines,       \* the line set of this execution
  starts,      \* how often the command was started
  \* CSRs of the device
  code,        \* 0..1 -> [base, end, off]: code_remap_*
  sys,         \* [base, end, off]: sys_remap_*
  remap32,     \* word 0..1 -> byte 0..3 -> upper byte of the remote address
  remap256,    \* its upper four bits
  slave_en,
  \* the command
  pc,          \* "gone" (not running), "parse", an alias's "base", "end" and
               \*   "off", "register", "enable", "run", "unregister", "free"
  map,         \* the lines read so far
  idx,         \* sysmap_parse's idx: the alias register written
  plist,       \* loaded plugins, first in the list first
  plugin,      \* the array of bus peripherals
  ptarget,     \* "none", "alive", "deleted"
  recv_cb,     \* is plugin_handler registered?
  before       \* the CSRs at the start of the command

csrVars == <<code, sys, remap32, remap256, slave_en>>
hostVars == <<map, idx, plist, plugin, ptarget, recv_cb>>
vars == <<lines, starts, csrVars, pc, hostVars, before>>

NoAlias == [base |-> 0, end |-> 0, off |-> 0]
ResetCode == [i \in 0..1 |-> NoAlias]
ResetRemap32 == [w \in 0..1 |-> [b \in 0..3 |-> 0]]
CSRs == [code |-> code, sys |-> sys, remap32 |-> remap32, remap256 |-> remap256,
         slave_en |-> slave_en]

Init == /\ lines \in LineSets /\ starts = 0
        /\ code = ResetCode /\ sys = NoAlias
        /\ remap32 = ResetRemap32 /\ remap256 = 0 /\ slave_en = FALSE
        /\ pc = "gone"
        /\ map = <<>> /\ idx = 0 /\ plist = <<>> /\ plugin = <<>>
        /\ ptarget = "none" /\ recv_cb = FALSE
        /\ before = CSRs

-----------------------------------------------------------------------------
\* Definitions marked "slip" are not used by the specification: each is the
\* definition after it with a plausible mistake, which a property has to notice.

\* Power, and with it PORESETn, goes and comes back between two starts.
PowerCycle == /\ pc = "gone" /\ CSRs # [code |-> ResetCode, sys |-> NoAlias,
                                        remap32 |-> ResetRemap32,
                                        remap256 |-> 0, slave_en |-> FALSE]
              /\ code' = ResetCode /\ sys' = NoAlias
              /\ remap32' = ResetRemap32 /\ remap256' = 0 /\ slave_en' = FALSE
              /\ UNCHANGED <<lines, starts, pc, hostVars, before>>

\* The process starts; with --map it comes to sysmap_parse.  Without, or when
\* remote_open fails, plugin_cleanup finds no plugin and deletes no PluginTarget.
Start == /\ pc = "gone" /\ starts < Len(MaxLines)
         /\ starts' = starts + 1
         /\ before' = CSRs
         /\ \/ pc' = "parse" /\ ptarget' = "alive"
            \/ pc' = "run" /\ UNCHANGED ptarget
         /\ UNCHANGED <<lines, csrVars, map, idx, plist, plugin, recv_cb>>

\* The process is gone, its memory with it; the device keeps its registers.
End == /\ pc' = "gone"
       /\ map' = <<>> /\ idx' = 0 /\ plist' = <<>> /\ plugin' = <<>>
       /\ ptarget' = "none" /\ recv_cb' = FALSE
       /\ UNCHANGED <<lines, starts, before>>

\* A signal that nobody handles: ^C before flexsoc_cm3 installs its handler, a
\* second ^C after it.
Killed == pc # "gone" /\ End /\ UNCHANGED csrVars

-----------------------------------------------------------------------------
(* sysmap_parse.                                                           *)

\* The next line of the file.
Read(line) == /\ pc = "parse" /\ Len(map) < MaxLines[starts]
              /\ map' = Append(map, line)

Onward(place) == pc' = place /\ UNCHANGED <<lines, starts, before>>

\* slip: the register is not looked at before it is used.
SlotFirst(line) == 0

CodeAliasGet(i) == [base |-> code[i].base,
                    size |-> (code[i].end - code[i].base) % Space,
                    remap |-> code[i].off]

\* Is code alias 0 used?  Its base tells.
Slot(line) == IF line.base < CodeTop /\ CodeAliasGet(0).base # 0 THEN 1 ELSE 0

ReadAlias(line) ==
  /\ line.kind = "alias" /\ Read(line)
  /\ idx' = Slot(line)
  /\ Onward("base")
  /\ UNCHANGED <<csrVars, plist, plugin, ptarget, recv_cb>>

\* slip: the sum is computed with more than 32 bits.
AliasEndWide(line) == line.base + line.size
AliasEnd(line) == (line.base + line.size) % Space

\* CodeAliasSet and SysAliasSet write one register after the other.
WriteAlias(field, value, place) ==
  /\ IF Last(map).base < CodeTop
       THEN code' = [code EXCEPT ![idx][field] = value] /\ UNCHANGED sys
       ELSE sys' = [sys EXCEPT ![field] = value] /\ UNCHANGED code
  /\ Onward(place)
  /\ UNCHANGED <<remap32, remap256, slave_en, hostVars>>

AliasBase == pc = "base" /\ WriteAlias("base", Last(map).base, "end")
AliasSize == pc = "end" /\ WriteAlias("end", AliasEnd(Last(map)), "off")
AliasOff == pc = "off" /\ WriteAlias("off", Last(map).remap, "parse")

\* slip: the other windows of the word are not kept.
WithWindowAlone(i, remap) ==
  IF remap % 2 = 0
    THEN [remap32 EXCEPT ![i \div 4] = [b \in 0..3 |->
                                         IF b = i % 4 THEN remap ELSE 0]]
    ELSE remap32

\* RemoteRemap32M refuses what is not a multiple of 32 MB, else it reads, changes
\* and writes the byte of window i.
WithWindow(i, remap) ==
  IF remap % 2 = 0 THEN [remap32 EXCEPT ![i \div 4][i % 4] = remap] ELSE remap32

\* RemoteRemap256M refuses what is not a multiple of 256 MB.
With256(remap) == IF remap % 16 = 0 THEN remap \div 16 ELSE remap256

ReadRemap32(line) ==
  /\ line.kind = "remap32" /\ line.window <= 7 /\ Read(line)
  /\ remap32' = WithWindow(line.idx, line.remap)
  /\ Onward("parse")
  /\ UNCHANGED <<code, sys, remap256, slave_en, idx, plist, plugin, ptarget,
                 recv_cb>>

ReadRemap256(line) ==
  /\ line.kind = "remap256" /\ Read(line)
  /\ remap256' = With256(line.remap)
  /\ Onward("parse")
  /\ UNCHANGED <<code, sys, remap32, slave_en, idx, plist, plugin, ptarget,
                 recv_cb>>

\* plugin_open finds a library and dlsym the plugin in it.
Opens(name) == Library[name] \in {"bus", "other"}

\* plugin_load: find the plugin in the list, or open it and put it in front.
Load(name) ==
  IF \E k \in DOMAIN plist : plist[k].name = name
    THEN [k \in DOMAIN plist |-> IF plist[k].name = name
                                   THEN [plist[k] EXCEPT !.refcnt = @ + 1]
                                   ELSE plist[k]]
    ELSE <<[name |-> name, refcnt |-> 1]>> \o plist

ReadPlugin(line) ==
  /\ line.kind = "plugin" /\ Opens(line.name)
  /\ Read(line)
  /\ plist' = Load(line.name)
  /\ plugin' = IF Library[line.name] = "bus"
                 THEN Append(plugin, [name |-> line.name, base |-> line.base])
                 ELSE plugin
  /\ Onward("parse")
  /\ UNCHANGED <<csrVars, idx, ptarget, recv_cb>>

\* A line that is wrong, a window above 7, a plugin that is not found: err ends
\* the process, in plugin_load or, with ptarget deleted, in plugin_init.
ReadFails(line) ==
  /\ \/ line.kind = "invalid"
     \/ line.kind = "remap32" /\ line.window > 7
     \/ line.kind = "plugin" /\ ~Opens(line.name)
  /\ pc = "parse" /\ Len(map) < MaxLines[starts]
  /\ End
  /\ UNCHANGED csrVars

ReadEnd == /\ pc = "parse"
           /\ Onward(IF plugin # <<>> THEN "register" ELSE "run")
           /\ UNCHANGED <<csrVars, hostVars>>

-----------------------------------------------------------------------------
(* The rest of plugin_init, and plugin_cleanup.                            *)

\* slip: the interface is enabled before there is a callback.
RegisterLate == /\ pc = "register"
                /\ slave_en' = TRUE
                /\ Onward("enable")
                /\ UNCHANGED <<code, sys, remap32, remap256, hostVars>>

Register == /\ pc = "register"
            /\ recv_cb' = TRUE
            /\ Onward("enable")
            /\ UNCHANGED <<csrVars, map, idx, plist, plugin, ptarget>>

Enable == /\ pc = "enable"
          /\ slave_en' = TRUE
          /\ Onward("run")
          /\ UNCHANGED <<code, sys, remap32, remap256, hostVars>>

\* The command is told to stop.
Disable == /\ pc = "run"
           /\ slave_en' = IF plugin # <<>> THEN FALSE ELSE slave_en
           /\ Onward(IF plugin # <<>> THEN "unregister" ELSE "free")
           /\ UNCHANGED <<code, sys, remap32, remap256, hostVars>>

\* SlaveUnregister disables the interface once more.
Unregister == /\ pc = "unregister"
              /\ slave_en' = FALSE /\ recv_cb' = FALSE
              /\ Onward("free")
              /\ UNCHANGED <<code, sys, remap32, remap256, map, idx, plist,
                             plugin, ptarget>>

Free == /\ pc = "free"
        /\ ptarget' = IF ptarget = "alive" THEN "deleted" ELSE ptarget
        /\ Onward("return")
        /\ UNCHANGED <<csrVars, map, idx, plist, plugin, recv_cb>>

Return == pc = "return" /\ End /\ UNCHANGED csrVars

-----------------------------------------------------------------------------
Next == \/ PowerCycle \/ Start \/ Killed
        \/ \E line \in lines : \/ ReadAlias(line) \/ ReadRemap32(line)
                               \/ ReadRemap256(line) \/ ReadPlugin(line)
                               \/ ReadFails(line)
        \/ AliasBase \/ AliasSize \/ AliasOff \/ ReadEnd
        \/ Register \/ Enable \/ Disable \/ Unregister \/ Free \/ Return

Spec == Init /\ [][Next]_vars

-----------------------------------------------------------------------------
AliasReg == [base : Address, end : Address, off : Address]
\* The lowest bit of a window is never set: it is no multiple of 32 MB.
Registers == [code : [0..1 -> AliasReg], sys : AliasReg,
              remap32 : [0..1 -> [0..3 -> {a \in Address : a % 2 = 0}]],
              remap256 : 0..15, slave_en : BOOLEAN]

TypeOK ==
  /\ lines \in LineSets /\ starts \in 0..Len(MaxLines)
  /\ CSRs \in Registers /\ before \in Registers
  /\ pc \in {"gone", "parse", "base", "end", "off", "register", "enable", "run",
             "unregister", "free", "return"}
  /\ map \in Seq(Line) /\ idx \in 0..1
  /\ plist \in Seq([name : DOMAIN Library, refcnt : Nat \ {0}])
  /\ plugin \in Seq([name : DOMAIN Library, base : Address])
  /\ ptarget \in {"none", "alive", "deleted"} /\ recv_cb \in BOOLEAN

\* The address the device puts on the bus for an access of the CPU to a: code
\* alias 0 before code alias 1 on the code bus, the alias of the system bus.
In(reg, a) == a >= reg.base /\ a < reg.end
Moved(reg, a) == (a - reg.base + reg.off) % Space
Bus(cs, s, a) == IF a < CodeTop
                   THEN IF In(cs[0], a) THEN Moved(cs[0], a)
                        ELSE IF In(cs[1], a) THEN Moved(cs[1], a) ELSE a
                   ELSE IF In(s, a) THEN Moved(s, a) ELSE a

\* The lines of a kind, as their places in the map.
LinesOf(kind) == {k \in DOMAIN map : map[k].kind = kind}

\* What the map's aliases say of an address: the first line that names it.
Aliases(top) == {k \in LinesOf("alias") : (map[k].base < CodeTop) = top}
Names(line, a) == a \in line.base .. (line.base + line.size - 1)
Named(a) == {k \in Aliases(a < CodeTop) : Names(map[k], a)}
Declared(a) == LET line == map[Min(Named(a))]
               IN (a - line.base + line.remap) % Space

\* At most as many aliases as there are registers, none up to the last byte of
\* the address space, and the first one not at base 0 if there is a second.
Fits == /\ Cardinality(Aliases(TRUE)) <= 2 /\ Cardinality(Aliases(FALSE)) <= 1
        /\ \A j, k \in Aliases(TRUE) : j < k => map[j].base # 0
        /\ \A k \in LinesOf("alias") : map[k].base + map[k].size < Space

\* The map has been read.
Parsed == pc \in {"register", "enable", "run", "unregister", "free", "return"}

\* If the device came with both code aliases unused, the CPU's accesses go where
\* the map's aliases say, and all others where they went before, for every map
\* that Fits (sysmap_parse.cpp:186-210, flexsoc_cm3.sv:89-112).  The system
\* alias is right whatever an earlier start left behind, killed or not.
AliasesOfMap ==
  Parsed /\ Fits =>
    \A a \in Address :
      a >= CodeTop \/ before.code = ResetCode =>
        Bus(code, sys, a) =
          IF Named(a) # {} THEN Declared(a)
          ELSE IF a >= CodeTop /\ Aliases(FALSE) # {} THEN a
          ELSE Bus(before.code, before.sys, a)

\* The remote windows, read back as flexsoc_cm3 prints them, are those of the
\* last line for each that RemoteRemap32M does not refuse; a window no line names
\* is as the command found it (Target.cpp:393-399: four windows share a
\* register).
RemoteRemap32M(i) == remap32[i \div 4][i % 4]
RemoteRemap256M == remap256 * 16
Accepted(i) == {k \in LinesOf("remap32") : map[k].idx = i /\ map[k].remap % 2 = 0}
Accepted256 == {k \in LinesOf("remap256") : map[k].remap % 16 = 0}
RemapsOfMap ==
  pc # "gone" =>
    /\ \A i \in 0..7 :
         RemoteRemap32M(i) = IF Accepted(i) = {}
                               THEN before.remap32[i \div 4][i % 4]
                               ELSE map[Max(Accepted(i))].remap
    /\ RemoteRemap256M = IF Accepted256 = {} THEN before.remap256 * 16
                         ELSE map[Max(Accepted256)].remap

\* The device forwards transactions only to a process that can answer them: with
\* plugin_handler registered, the PluginTarget alive, every bus peripheral of
\* the map in the array in the order of its line, and every plugin loaded once
\* and counted (plugini.cpp:321-326, 331-339) -- unless the command was started
\* on a device that an earlier, killed one had left enabled.
Peripherals == {k \in LinesOf("plugin") : Library[map[k].name] = "bus"}
Uses(n) == {k \in LinesOf("plugin") : map[k].name = n}
EnabledIsServed ==
  slave_en /\ pc # "gone" /\ ~before.slave_en =>
    /\ recv_cb /\ ptarget = "alive" /\ plugin # <<>>
    /\ Len(plugin) = Cardinality(Peripherals)
    /\ \A k \in Peripherals :
         plugin[Cardinality({j \in Peripherals : j <= k})]
           = [name |-> map[k].name, base |-> map[k].base]
    /\ \A n \in DOMAIN Library :
         LET here == {k \in DOMAIN plist : plist[k].name = n}
         IN /\ Cardinality(here) = IF Uses(n) = {} THEN 0 ELSE 1
            /\ \A k \in here : plist[k].refcnt = Cardinality(Uses(n))

\* "On the host side you specify a system map file which sets up mapping", such
\* as "Remap the ROM" (README.md:9-10): while the command runs, the CPU's
\* accesses to the addresses of the map's aliases go where the map says.
MapInForce ==
  pc = "run" /\ Fits =>
    \A a \in Address : Named(a) # {} => Bus(code, sys, a) = Declared(a)
=============================================================================
