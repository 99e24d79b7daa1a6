----------------------------- MODULE PluginBus -----------------------------
(***************************************************************************)
(* plugin_handler and the plugins Memory and Redirect: transactions of the *)
(* CPU's bus that no slave in the gateware takes, one at a time.           *)
(*                                                                         *)
(* The handler turns a write into a word, its mask and a word address, and *)
(* a read into a word that is shifted; Redirect turns the mask back into   *)
(* an access of the right width.  A word is its four lanes, so a shift by  *)
(* 8 * n bits moves lanes, and a mask is a set of lanes.  Byte order on    *)
(* the link (ntohl, htons) is undone on the way in as on the way out.      *)
(***************************************************************************)
EXTENDS Integers, Sequences

CONSTANTS Space,        \* size of the address space (2^32)
          Plugins,      \* the array plugin: Seq([kind, base, size, remote])
          Bytes,        \* values of a byte
          Contents      \* what a constructor may leave in the stores

Lanes == 0..3
Words == [Lanes -> Bytes]
Kinds == {"Memory", "Redirect"}
PowersOfTwo == {2^k : k \in 2..30}

\* Size() rounds up to a power of two, so a Memory of another size would be
\* accessed beyond its store; base + Size() is computed in 32 bits, so a region
\* at the very end of the address space would match nothing.
ASSUME PluginAssumption ==
  /\ Space \in Nat
  /\ 0 \in Bytes
  /\ Plugins \in Seq([kind : Kinds, base : Nat, size : PowersOfTwo, remote : Nat])
  /\ \A i \in DOMAIN Plugins :
       /\ Plugins[i].base % 4 = 0 /\ Plugins[i].remote % 4 = 0
       /\ Plugins[i].size % 4 = 0
       /\ Plugins[i].base + Plugins[i].size < Space
  /\ \A i, j \in DOMAIN Plugins :
       Plugins[i].kind = "Redirect" /\ Plugins[j].kind = "Redirect" => i = j

Indexes == DOMAIN Plugins
Memories == {i \in Indexes : Plugins[i].kind = "Memory"}
Redirects == Indexes \ Memories

\* The bus splits an unaligned access of the CPU into aligned ones.
Requests ==
  UNION {[write : {TRUE}, width : {w}, addr : {a \in 0..(Space - 1) : a % w = 0},
          data : [0..(w - 1) -> Bytes]]
         \cup [write : {FALSE}, width : {w},
               addr : {a \in 0..(Space - 1) : a % w = 0}] : w \in {1, 2, 4}}

VARIABLES store,        \* Memory's store: a word at each index
          targ,         \* memory of the target that Redirect passes on to
          req, resp
vars == <<store, targ, req, resp>>

NoRequest == [write |-> FALSE, width |-> 0]
NoData == [k \in {} |-> 0]
Response(status, data) == [status |-> status, data |-> data]

\* A file's contents, or whatever malloc returned.
WordIndexes(i) == 0..((Plugins[i].size \div 4) - 1)
ASSUME ContentsAssumption ==
  \A s \in Contents : /\ DOMAIN s = Memories
                      /\ \A i \in Memories : s[i] \in [WordIndexes(i) -> Words]

RemoteAddrs == UNION {Plugins[i].remote..(Plugins[i].remote + Plugins[i].size - 1)
                      : i \in Redirects}

Init == /\ store \in Contents
        /\ targ \in [RemoteAddrs -> Bytes]
        /\ req = NoRequest /\ resp = Response("none", NoData)

\* The gateware forwards a transaction; no other until it is answered.
Transaction == /\ req = NoRequest /\ req' \in Requests
               /\ resp' = Response("none", NoData) /\ UNCHANGED <<store, targ>>

-----------------------------------------------------------------------------
(* Decoding.                                                               *)

Mask(r) == (r.addr % 4)..((r.addr % 4) + r.width - 1)
Data(r) == [l \in Lanes |-> IF l \in Mask(r) THEN r.data[l - (r.addr % 4)] ELSE 0]

Size(i) == CHOOSE p \in PowersOfTwo :
             /\ p >= Plugins[i].size
             /\ \A q \in PowersOfTwo : q >= Plugins[i].size => p <= q
Matches(i, a) == a >= Plugins[i].base /\ a < (Plugins[i].base + Size(i)) % Space
Matching(a) == {i \in Indexes : Matches(i, a)}
First(S) == CHOOSE i \in S : \A j \in S : i <= j

-----------------------------------------------------------------------------
(* The plugins, at byte offset off into their region.                      *)

MemoryWriteW(i, off, data, mask) ==
  /\ store' = [store EXCEPT ![i][off \div 4] =
                 [l \in Lanes |-> IF l \in mask THEN data[l] ELSE @[l]]]
  /\ UNCHANGED targ

\* PluginTarget::WriteW: the masks it decodes; any other is dropped.
Decoded == {{0}, {1}, {2}, {3}, {0, 1}, {2, 3}, Lanes}

\* The address is that of the word; the access starts at the mask's first lane.
RedirectWriteW(i, off, data, mask) ==
  LET word == Plugins[i].remote + off
      written == IF mask \in Decoded THEN {word + l : l \in mask} ELSE {}
  IN /\ targ' = [a \in RemoteAddrs |-> IF a \in written THEN data[a - word] ELSE targ[a]]
     /\ UNCHANGED store

\* The target ignores the two low bits of the address of a word.
ReadW(i, off) ==
  IF i \in Memories THEN store[i][off \div 4]
  ELSE LET a == Plugins[i].remote + off
       IN [l \in Lanes |-> targ[a - (a % 4) + l]]

\* Definitions marked "slip" are not used by the specification: each is the
\* next one with a plausible mistake.
\*
\* slip: the lanes behind the access are left in.
ShiftedOnly(i, off, width) ==
  [k \in 0..(3 - (off % 4)) |-> ReadW(i, off)[(off % 4) + k]]
\* slip: the word is not shifted.
LaneOfWord(off) == 0

\* ReadB, ReadH, ReadW: the lanes from the address on.
Lane(off) == off % 4
Shifted(i, off, width) == [k \in 0..(width - 1) |-> ReadW(i, off)[Lane(off) + k]]

-----------------------------------------------------------------------------
(* plugin_handler.                                                         *)

Answer(status, data) == resp' = Response(status, data) /\ req' = NoRequest

Unmatched == /\ req # NoRequest /\ Matching(req.addr) = {}
             /\ Answer("fail", NoData) /\ UNCHANGED <<store, targ>>

HandleWrite ==
  /\ req # NoRequest /\ req.write /\ Matching(req.addr) # {}
  /\ LET i == First(Matching(req.addr))
         off == req.addr - (req.addr % 4) - Plugins[i].base
     IN IF i \in Memories THEN MemoryWriteW(i, off, Data(req), Mask(req))
                          ELSE RedirectWriteW(i, off, Data(req), Mask(req))
  /\ Answer("success", NoData)

HandleRead ==
  /\ req # NoRequest /\ ~req.write /\ Matching(req.addr) # {}
  /\ LET i == First(Matching(req.addr))
     IN Answer("success", Shifted(i, req.addr - Plugins[i].base, req.width))
  /\ UNCHANGED <<store, targ>>

Next == Transaction \/ Unmatched \/ HandleWrite \/ HandleRead
Spec == Init /\ [][Next]_vars

-----------------------------------------------------------------------------
(* Properties.                                                             *)

\* Stores and the target's memory hold bytes, at the addresses they have.
TypeOK ==
  /\ DOMAIN store = Memories
  /\ \A i \in Memories : store[i] \in [WordIndexes(i) -> Words]
  /\ targ \in [RemoteAddrs -> Bytes]
  /\ req \in Requests \cup {NoRequest}
  /\ \E w \in {0, 1, 2, 4} : resp.data \in [0..(w - 1) -> Bytes]

\* The regions as the map declares them; the first one named has an address.
Region(i) == Plugins[i].base..(Plugins[i].base + Plugins[i].size - 1)
Mapped == UNION {Region(i) : i \in Indexes}
Owner(a) == First({i \in Indexes : a \in Region(i)})

ByteAt(a) ==
  LET i == Owner(a)
      off == a - Plugins[i].base
  IN IF i \in Memories THEN store[i][off \div 4][off % 4]
                       ELSE targ[Plugins[i].remote + off]

Bus == INSTANCE ByteMem WITH mem <- [a \in Mapped |-> ByteAt(a)]

\* Every access of the CPU, of any width and at any address, has the effect and
\* the answer it has on bytes of memory (plugini.cpp:160-300).
ImplementsByteMem == Bus!MemSpec
=============================================================================
