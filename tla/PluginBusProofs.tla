-------------------------- MODULE PluginBusProofs --------------------------
(***************************************************************************)
(* Memory and Redirect, as plugin_handler calls them, are byte memory, for *)
(* every array of plugins that PluginAssumption allows.                    *)
(***************************************************************************)
EXTENDS PluginBus, WellFoundedInduction, TLAPS

-----------------------------------------------------------------------------
(* Regions.                                                                *)

\* What PluginAssumption says of one plugin.
LEMMA PluginFacts ==
  ASSUME NEW i \in Indexes
  PROVE  /\ i \in Nat
         /\ Plugins[i].base \in Nat /\ Plugins[i].base % 4 = 0
         /\ Plugins[i].remote \in Nat /\ Plugins[i].remote % 4 = 0
         /\ Plugins[i].size \in Nat /\ Plugins[i].size % 4 = 0
         /\ Plugins[i].size \in PowersOfTwo
         /\ Plugins[i].base + Plugins[i].size < Space
         /\ i \in Memories \/ i \in Redirects
         /\ i \in Redirects => Plugins[i].kind = "Redirect"
<1>1. PowersOfTwo \subseteq Nat
  BY DEF PowersOfTwo
<1> DEFINE P == [kind : Kinds, base : Nat, size : PowersOfTwo, remote : Nat]
<1>2. Plugins \in Seq(P)
  BY PluginAssumption
<1> HIDE DEF P
<1>3. i \in 1..Len(Plugins) /\ Len(Plugins) \in Nat /\ Plugins[i] \in P
  BY <1>2 DEF Indexes
<1>4. /\ Plugins[i].base \in Nat /\ Plugins[i].remote \in Nat
      /\ Plugins[i].size \in PowersOfTwo
  BY <1>3 DEF P
<1>5. /\ Plugins[i].base % 4 = 0 /\ Plugins[i].remote % 4 = 0
      /\ Plugins[i].size % 4 = 0
      /\ Plugins[i].base + Plugins[i].size < Space
  BY PluginAssumption DEF Indexes
<1>6. i \in Nat
  BY <1>3
<1>7. /\ i \in Memories \/ i \in Redirects
      /\ i \in Redirects => Plugins[i].kind = "Redirect"
  BY <1>3 DEF P, Kinds, Redirects, Memories
<1> QED BY <1>1, <1>4, <1>5, <1>6, <1>7

\* Size() is the size, since that is a power of two.
LEMMA SizeExact ==
  ASSUME NEW i \in Indexes
  PROVE  Size(i) = Plugins[i].size
<1> DEFINE s == Plugins[i].size
           Least(p) == p >= s /\ \A q \in PowersOfTwo : q >= s => p <= q
<1>1. PowersOfTwo \subseteq Nat
  BY DEF PowersOfTwo
<1>2. s \in PowersOfTwo /\ s \in Nat
  BY PluginFacts
<1>3. Least(s)
  BY <1>1, <1>2
<1>4. \A p \in PowersOfTwo : Least(p) => p = s
  BY <1>1, <1>2
<1> HIDE DEF s
<1>5. Size(i) = CHOOSE p \in PowersOfTwo : Least(p)
  BY DEF Size, s
<1> HIDE DEF Least
<1>6. (CHOOSE p \in PowersOfTwo : Least(p)) = s
  BY <1>2, <1>3, <1>4
<1> QED BY <1>5, <1>6 DEF s

\* The handler finds the regions as they were declared.
LEMMA MatchesRegion ==
  ASSUME NEW i \in Indexes, NEW a \in Nat
  PROVE  Matches(i, a) <=> a \in Region(i)
<1>1. (Plugins[i].base + Size(i)) % Space = Plugins[i].base + Plugins[i].size
  <2> DEFINE x == Plugins[i].base + Plugins[i].size
  <2>1. x \in Nat /\ Space \in Nat /\ x < Space
    BY PluginFacts, PluginAssumption
  <2> HIDE DEF x
  <2>2. x % Space = x
    BY <2>1
  <2> QED BY <2>2, SizeExact DEF x
<1> QED BY <1>1, PluginFacts DEF Matches, Region

\* ... and takes the plugin named first.
LEMMA MatchingOwner ==
  ASSUME NEW a \in Nat
  PROVE  /\ Matching(a) = {i \in Indexes : a \in Region(i)}
         /\ Matching(a) # {} <=> a \in Mapped
         /\ First(Matching(a)) = Owner(a)
<1>1. Matching(a) = {i \in Indexes : a \in Region(i)}
  BY MatchesRegion DEF Matching
<1> QED BY <1>1 DEF Mapped, Owner

\* An address that belongs to a plugin has an owner.
LEMMA OwnerIn ==
  ASSUME NEW a \in Mapped
  PROVE  Owner(a) \in Indexes /\ a \in Region(Owner(a)) /\ a \in Nat
<1> DEFINE S == {i \in Indexes : a \in Region(i)}
<1>1. S # {} /\ S \subseteq Nat
  BY PluginFacts DEF Mapped
<1>2. PICK i \in S : \A j \in S : i <= j
  <2>1. PICK i \in S : \A j \in S : <<j, i>> \notin OpToRel(<, Nat)
    BY <1>1, NatLessThanWellFounded, WFMin
  <2>2. \A j \in S : ~(j < i)
    BY <2>1, <1>1 DEF OpToRel
  <2>3. i \in S /\ \A j \in S : i <= j
    BY <2>2, <1>1
  <2> QED BY <2>3
<1>3. Owner(a) \in S
  BY <1>2 DEF Owner, First
<1> QED BY <1>3, PluginFacts DEF Region

-----------------------------------------------------------------------------
(* Words.                                                                  *)

\* The offset of an address into a region on a word boundary.
LEMMA OffsetWord ==
  ASSUME NEW a \in Nat, NEW b \in Nat, b % 4 = 0, b <= a
  PROVE  /\ a - b \in Nat /\ (a - b) % 4 = a % 4 /\ a % 4 \in Lanes
         /\ (a - b) \div 4 \in Nat
         /\ a - b = 4 * ((a - b) \div 4) + (a % 4)
         /\ ((a - (a % 4)) - b) \div 4 = (a - b) \div 4
         /\ (a - (a % 4)) - b \in Nat
BY DEF Lanes

\* The addresses of a word belong to the same regions.
LEMMA SameRegions ==
  ASSUME NEW a \in Nat, NEW b \in Nat, a - (a % 4) = b - (b % 4), NEW i \in Indexes
  PROVE  a \in Region(i) <=> b \in Region(i)
<1> DEFINE base == Plugins[i].base
           size == Plugins[i].size
<1>1. /\ base \in Nat /\ base % 4 = 0 /\ size \in Nat /\ size % 4 = 0
  BY PluginFacts
<1>2. Region(i) = base..(base + size - 1)
  BY DEF Region
<1> HIDE DEF base, size
<1> QED BY <1>1, <1>2

\* ... and to the same plugin.
LEMMA SameOwner ==
  ASSUME NEW a \in Nat, NEW b \in Nat, a - (a % 4) = b - (b % 4)
  PROVE  Owner(a) = Owner(b)
<1>1. {i \in Indexes : a \in Region(i)} = {i \in Indexes : b \in Region(i)}
  BY SameRegions
<1> QED BY <1>1 DEF Owner

\* A request is aligned, so it stays within a word, and Redirect knows its mask.
LEMMA RequestFacts ==
  ASSUME NEW r \in Requests
  PROVE  /\ r.addr \in Nat /\ r.width \in {1, 2, 4} /\ r.write \in BOOLEAN
         /\ (r.addr % 4) + r.width <= 4
         /\ r.write => r.data \in [0..(r.width - 1) -> Bytes]
         /\ Mask(r) \in Decoded
         /\ Mask(r) = {l \in Lanes : l >= r.addr % 4 /\ l < (r.addr % 4) + r.width}
         /\ \A b \in Nat : b \in r.addr..(r.addr + r.width - 1) <=>
              b - (b % 4) = r.addr - (r.addr % 4) /\ b % 4 \in Mask(r)
<1>1. PICK w \in {1, 2, 4} :
        r \in [write : {TRUE}, width : {w}, addr : {a \in 0..(Space - 1) : a % w = 0},
               data : [0..(w - 1) -> Bytes]]
              \cup [write : {FALSE}, width : {w},
                    addr : {a \in 0..(Space - 1) : a % w = 0}]
  BY DEF Requests
<1>2. /\ r.addr \in Nat /\ r.width = w /\ r.write \in BOOLEAN /\ r.addr % w = 0
      /\ r.write => r.data \in [0..(w - 1) -> Bytes]
  <2> DEFINE A == {a \in 0..(Space - 1) : a % w = 0}
             D == [0..(w - 1) -> Bytes]
  <2>1. \A a \in A : a \in Nat /\ a % w = 0
    BY PluginAssumption
  <2> HIDE DEF A, D
  <2>2. \/ r \in [write : {TRUE}, width : {w}, addr : A, data : D]
        \/ r \in [write : {FALSE}, width : {w}, addr : A]
    BY <1>1 DEF A, D
  <2>3. CASE r \in [write : {TRUE}, width : {w}, addr : A, data : D]
    BY <2>1, <2>3 DEF D
  <2>4. CASE r \in [write : {FALSE}, width : {w}, addr : A]
    BY <2>1, <2>4
  <2> QED BY <2>2, <2>3, <2>4
<1> DEFINE l == r.addr % 4
<1>3. CASE w = 1
  <2>1. l \in {0, 1, 2, 3} /\ Mask(r) = {l}
    BY <1>2, <1>3 DEF Mask
  <2>2. \A b \in Nat : b = r.addr <=> b - (b % 4) = r.addr - l /\ b % 4 = l
    BY <1>2
  <2> HIDE DEF l
  <2>3. Mask(r) \in Decoded
    BY <2>1 DEF Decoded
  <2>4. Mask(r) = {k \in Lanes : k >= l /\ k < l + 1}
    BY <2>1 DEF Lanes
  <2>5. \A b \in Nat : b \in r.addr..(r.addr + 1 - 1) <=> b = r.addr
    BY <1>2
  <2>6. \A b \in Nat : b % 4 \in Mask(r) <=> b % 4 = l
    BY <2>1
  <2>7. l + 1 <= 4
    BY <2>1
  <2> QED BY <1>2, <1>3, <2>2, <2>3, <2>4, <2>5, <2>6, <2>7 DEF l
<1>4. CASE w = 2
  <2>1. l \in {0, 2} /\ Mask(r) = {l, l + 1}
    BY <1>2, <1>4 DEF Mask
  <2>2. \A b \in Nat : b \in {r.addr, r.addr + 1} <=>
          b - (b % 4) = r.addr - l /\ b % 4 \in {l, l + 1}
    <3> DEFINE a == r.addr
    <3>1. a \in Nat /\ (a % 4 = 0 \/ a % 4 = 2)
      BY <1>2, <2>1
    <3> HIDE DEF a
    <3>2. (a + 1) % 4 = (a % 4) + 1
      BY <3>1
    <3>3. \A b \in Nat : b - (b % 4) = a - (a % 4) /\ b % 4 \in {a % 4, (a % 4) + 1}
                         => b \in {a, a + 1}
      BY <3>1
    <3>4. \A b \in Nat : b \in {a, a + 1}
            => b - (b % 4) = a - (a % 4) /\ b % 4 \in {a % 4, (a % 4) + 1}
      BY <3>1, <3>2
    <3> QED BY <3>3, <3>4 DEF a
  <2> HIDE DEF l
  <2>3. Mask(r) \in Decoded
    BY <2>1 DEF Decoded
  <2>4. Mask(r) = {k \in Lanes : k >= l /\ k < l + 2}
    BY <2>1 DEF Lanes
  <2>5. \A b \in Nat : b \in r.addr..(r.addr + 2 - 1) <=> b \in {r.addr, r.addr + 1}
    BY <1>2
  <2>7. l + 2 <= 4
    BY <2>1
  <2> QED BY <1>2, <1>4, <2>1, <2>2, <2>3, <2>4, <2>5, <2>7 DEF l
<1>5. CASE w = 4
  <2>1. l = 0 /\ Mask(r) = Lanes
    BY <1>2, <1>5 DEF Mask, Lanes
  <2>2. \A b \in Nat : b \in r.addr..(r.addr + 3) <=> b - (b % 4) = r.addr
    BY <1>2, <1>5
  <2> HIDE DEF l
  <2>3. Mask(r) \in Decoded
    BY <2>1 DEF Decoded
  <2>4. Mask(r) = {k \in Lanes : k >= l /\ k < l + 4}
    BY <2>1 DEF Lanes
  <2>5. \A b \in Nat : b % 4 \in Mask(r)
    BY <2>1 DEF Lanes
  <2>6. r.addr + 4 - 1 = r.addr + 3 /\ r.addr - l = r.addr
    BY <1>2, <2>1
  <2>7. l + 4 <= 4
    BY <2>1
  <2> QED BY <1>2, <1>5, <2>2, <2>3, <2>4, <2>5, <2>6, <2>7 DEF l
<1> QED BY <1>3, <1>4, <1>5

\* Where a mapped address lies in the store or the target behind its plugin.
LEMMA Place ==
  ASSUME NEW a \in Mapped, NEW i, i = Owner(a), NEW off, off = a - Plugins[i].base
  PROVE  /\ off \in Nat /\ off % 4 = a % 4 /\ off \div 4 \in WordIndexes(i)
         /\ off = 4 * (off \div 4) + (off % 4)
         /\ i \in Redirects => Plugins[i].remote + off \in RemoteAddrs
<1>1. i \in Indexes /\ a \in Region(i) /\ a \in Nat
  BY OwnerIn
<1> DEFINE base == Plugins[i].base
           size == Plugins[i].size
<1>2. base \in Nat /\ base % 4 = 0 /\ size \in Nat /\ size % 4 = 0
  BY <1>1, PluginFacts
<1>3. a \in base..(base + size - 1) /\ off = a - base
  BY <1>1 DEF Region
<1> HIDE DEF base, size
<1>4. /\ off \in Nat /\ off % 4 = a % 4 /\ off < size
      /\ off \div 4 \in 0..((size \div 4) - 1)
      /\ off = 4 * (off \div 4) + (off % 4)
  BY <1>1, <1>2, <1>3
<1>5. off \div 4 \in WordIndexes(i)
  BY <1>4 DEF WordIndexes, size
<1>6. Plugins[i].remote + off \in Plugins[i].remote..(Plugins[i].remote + Plugins[i].size - 1)
  <2>1. Plugins[i].remote \in Nat /\ size = Plugins[i].size
    BY <1>1, PluginFacts DEF size
  <2> QED BY <1>2, <1>4, <2>1
<1> QED BY <1>4, <1>5, <1>6 DEF RemoteAddrs

\* A byte of the request is in the same word of the same plugin as its address.
LEMMA SpanPlace ==
  ASSUME NEW r \in Requests, r.addr \in Mapped,
         NEW b \in r.addr..(r.addr + r.width - 1),
         NEW i, i = Owner(r.addr), NEW base, base = Plugins[i].base
  PROVE  /\ b \in Mapped /\ Owner(b) = i /\ b % 4 \in Mask(r)
         /\ b - (b % 4) = r.addr - (r.addr % 4)
         /\ (b - base) \div 4 = (r.addr - base) \div 4
         /\ b - r.addr = (b % 4) - (r.addr % 4)
         /\ b - base = (r.addr - (r.addr % 4) - base) + (b % 4)
<1> DEFINE a == r.addr
<1>1. a \in Nat /\ b \in Nat
  BY RequestFacts
<1>2. b - (b % 4) = a - (a % 4) /\ b % 4 \in Mask(r)
  BY <1>1, RequestFacts
<1>3. i \in Indexes /\ a \in Region(i)
  BY OwnerIn
<1>4. b \in Region(i) /\ b \in Mapped
  BY <1>1, <1>2, <1>3, SameRegions DEF Mapped
<1>5. Owner(b) = i
  BY <1>1, <1>2, SameOwner
<1>6. base \in Nat /\ base % 4 = 0 /\ base <= a /\ base <= b
  BY <1>1, <1>3, <1>4, PluginFacts DEF Region
<1>7. /\ ((a - (a % 4)) - base) \div 4 = (a - base) \div 4
      /\ ((b - (b % 4)) - base) \div 4 = (b - base) \div 4
  BY <1>1, <1>6, OffsetWord
<1>8. a % 4 \in Nat /\ b % 4 \in Nat
  BY <1>1
<1>9. (b - base) \div 4 = (a - base) \div 4
  BY <1>2, <1>7
<1>10. b - a = (b % 4) - (a % 4) /\ b - base = (a - (a % 4) - base) + (b % 4)
  <2> DEFINE am == a % 4
             bm == b % 4
  <2>1. am \in Nat /\ bm \in Nat /\ b - bm = a - am
    BY <1>2, <1>8
  <2> HIDE DEF a, am, bm
  <2>2. b - a = bm - am /\ b - base = (a - am - base) + bm
    BY <1>1, <1>6, <2>1
  <2> QED BY <2>2 DEF am, bm
<1> QED BY <1>2, <1>4, <1>5, <1>9, <1>10 DEF a

-----------------------------------------------------------------------------
(* Types.                                                                  *)

\* The data of a write, spread over the lanes.
LEMMA DataType ==
  ASSUME NEW r \in Requests, r.write
  PROVE  /\ Data(r) \in Words /\ Mask(r) \subseteq Lanes
         /\ \A l \in Mask(r) : Data(r)[l] = r.data[l - (r.addr % 4)]
<1>1. /\ r.addr % 4 \in Nat /\ r.width \in {1, 2, 4}
      /\ r.data \in [0..(r.width - 1) -> Bytes]
      /\ Mask(r) = {l \in Lanes : l >= r.addr % 4 /\ l < (r.addr % 4) + r.width}
  BY RequestFacts
<1>2. \A l \in Mask(r) : l \in Lanes /\ l - (r.addr % 4) \in 0..(r.width - 1)
  BY <1>1 DEF Lanes
<1>3. \A l \in Mask(r) : r.data[l - (r.addr % 4)] \in Bytes
  BY <1>1, <1>2
<1> QED BY <1>2, <1>3, PluginAssumption DEF Data, Words

\* A word of a plugin at an offset that belongs to it.
LEMMA ByteType ==
  ASSUME TypeOK, NEW a \in Mapped
  PROVE  ByteAt(a) \in Bytes
<1> DEFINE i == Owner(a)
           off == a - Plugins[i].base
<1>1. /\ off \div 4 \in WordIndexes(i) /\ off % 4 = a % 4
      /\ i \in Redirects => Plugins[i].remote + off \in RemoteAddrs
  BY Place
<1>2. a % 4 \in Lanes
  BY OwnerIn DEF Lanes
<1>3. i \in Indexes
  BY OwnerIn
<1>4. ByteAt(a) = IF i \in Memories THEN store[i][off \div 4][off % 4]
                                    ELSE targ[Plugins[i].remote + off]
  BY DEF ByteAt
<1> HIDE DEF i, off
<1>5. CASE i \in Memories
  <2>1. store[i] \in [WordIndexes(i) -> Words]
    BY <1>5 DEF TypeOK
  <2>2. store[i][off \div 4] \in Words
    BY <1>1, <2>1
  <2> QED BY <1>1, <1>2, <1>4, <1>5, <2>2 DEF Words
<1>6. CASE i \notin Memories
  BY <1>1, <1>3, <1>4, <1>6 DEF TypeOK, Redirects
<1> QED BY <1>5, <1>6

\* A read returns the bytes at its addresses.
LEMMA ReadBytes ==
  ASSUME TypeOK, NEW r \in Requests, r.addr \in Mapped, NEW i, i = Owner(r.addr)
  PROVE  Shifted(i, r.addr - Plugins[i].base, r.width) =
           [k \in 0..(r.width - 1) |-> ByteAt(r.addr + k)]
<1> DEFINE base == Plugins[i].base
           off == r.addr - base
<1> SUFFICES ASSUME NEW k \in 0..(r.width - 1)
             PROVE  ReadW(i, off)[(off % 4) + k] = ByteAt(r.addr + k)
  BY DEF Shifted, Lane
<1> DEFINE b == r.addr + k
<1>1. r.addr \in Nat /\ r.width \in Nat
  BY RequestFacts
<1>2. b \in r.addr..(r.addr + r.width - 1)
  BY <1>1
<1>3. /\ b \in Mapped /\ Owner(b) = i /\ (b - base) \div 4 = off \div 4
      /\ b - r.addr = (b % 4) - (r.addr % 4) /\ b % 4 \in Mask(r)
  BY <1>2, SpanPlace
<1>4. /\ off \in Nat /\ off % 4 = r.addr % 4 /\ (b - base) % 4 = b % 4
      /\ off = 4 * (off \div 4) + (off % 4)
  BY <1>3, Place
<1>5. (off % 4) + k = b % 4 /\ b % 4 \in Lanes
  <2>1. b % 4 \in Lanes
    BY <1>3, RequestFacts
  <2>2. b - r.addr = k /\ b \in Nat
    BY <1>1
  <2>3. r.addr % 4 \in Nat /\ b % 4 \in Nat /\ k = (b % 4) - (r.addr % 4)
    BY <1>1, <1>3, <2>2
  <2> HIDE DEF b
  <2>4. (r.addr % 4) + k = b % 4
    BY <2>3
  <2> QED BY <1>4, <2>1, <2>4
<1>6. i \in Indexes /\ base \in Nat
  BY OwnerIn, PluginFacts
<1>7. CASE i \in Memories
  BY <1>3, <1>4, <1>5, <1>7 DEF ReadW, ByteAt
<1>8. CASE i \notin Memories
  <2> DEFINE rem == Plugins[i].remote
             w == rem + off
  <2>1. rem \in Nat /\ rem % 4 = 0
    BY <1>6, PluginFacts
  <2>2. w % 4 = off % 4
    BY <1>4, <2>1
  <2>3. ReadW(i, off)[b % 4] = targ[w - (w % 4) + (b % 4)]
    BY <1>5, <1>8 DEF ReadW
  <2>4. ByteAt(b) = targ[rem + (b - base)]
    BY <1>3, <1>8 DEF ByteAt
  <2>5. w - (w % 4) + (b % 4) = rem + (b - base)
    <3>1. off % 4 \in Nat /\ b % 4 \in Nat /\ k \in Nat
      BY <1>1, <1>4, <1>5 DEF Lanes
    <3>2. b - base = off + k
      BY <1>1, <1>6
    <3> HIDE DEF off, b, base, rem
    <3> QED BY <1>4, <1>5, <2>1, <2>2, <3>1, <3>2
  <2> QED BY <1>5, <2>3, <2>4, <2>5
<1> QED BY <1>7, <1>8

\* What a write by the handler does, in terms of the owner of the address.
LEMMA WriteFacts ==
  ASSUME TypeOK, HandleWrite, NEW i, i = Owner(req.addr),
         NEW word, word = req.addr - (req.addr % 4) - Plugins[i].base
  PROVE  /\ req \in Requests /\ req.write /\ req.addr \in Mapped /\ i \in Indexes
         /\ IF i \in Memories THEN MemoryWriteW(i, word, Data(req), Mask(req))
                              ELSE RedirectWriteW(i, word, Data(req), Mask(req))
         /\ Answer("success", NoData)
         /\ word \div 4 = (req.addr - Plugins[i].base) \div 4 /\ word \in Nat
         /\ word \div 4 \in WordIndexes(i)
         /\ word = 4 * (word \div 4)
<1>1. req \in Requests /\ req.write /\ Matching(req.addr) # {}
  BY DEF TypeOK, HandleWrite
<1>2. req.addr \in Nat
  BY <1>1, RequestFacts
<1>3. req.addr \in Mapped /\ First(Matching(req.addr)) = i
  BY <1>1, <1>2, MatchingOwner
<1>4. i \in Indexes /\ req.addr \in Region(i)
  BY <1>3, OwnerIn
<1>5. /\ Plugins[i].base \in Nat /\ Plugins[i].base % 4 = 0
      /\ Plugins[i].base <= req.addr
  BY <1>2, <1>4, PluginFacts DEF Region
<1>6. word \div 4 = (req.addr - Plugins[i].base) \div 4 /\ word \in Nat
  BY <1>2, <1>5, OffsetWord
<1>7. word \div 4 \in WordIndexes(i)
  BY <1>3, <1>6, Place
<1>8. word = 4 * (word \div 4)
  <2>1. req.addr - Plugins[i].base = 4 * ((req.addr - Plugins[i].base) \div 4) + (req.addr % 4)
    BY <1>2, <1>5, OffsetWord
  <2> DEFINE q == (req.addr - Plugins[i].base) \div 4
             m == req.addr % 4
  <2>2. q \in Int /\ m \in Nat
    BY <1>2, <1>5
  <2>3. req.addr - Plugins[i].base = 4 * q + m
    BY <2>1
  <2>4. word = req.addr - m - Plugins[i].base
    OBVIOUS
  <2> HIDE DEF q, m
  <2>5. word = 4 * q
    BY <1>2, <1>5, <2>2, <2>3, <2>4
  <2> QED BY <1>6, <2>5 DEF q
<1> QED BY <1>1, <1>3, <1>4, <1>6, <1>7, <1>8 DEF HandleWrite

\* The constructors leave words in the stores.
LEMMA InitType == Init => TypeOK
<1> SUFFICES ASSUME Init PROVE TypeOK
  OBVIOUS
<1>1. /\ DOMAIN store = Memories
      /\ \A i \in Memories : store[i] \in [WordIndexes(i) -> Words]
  BY ContentsAssumption DEF Init
<1>2. targ \in [RemoteAddrs -> Bytes] /\ req = NoRequest
  BY DEF Init
<1>3. \E w \in {0, 1, 2, 4} : resp.data \in [0..(w - 1) -> Bytes]
  <2>1. NoData \in [0..(0 - 1) -> Bytes]
    BY DEF NoData
  <2> QED BY <2>1 DEF Init, Response
<1> QED BY <1>1, <1>2, <1>3 DEF TypeOK

\* The handler keeps the stores, the target's memory and its answers in type.
LEMMA TypeStep == TypeOK /\ [Next]_vars => TypeOK'
<1> SUFFICES ASSUME TypeOK, [Next]_vars PROVE TypeOK'
  OBVIOUS
<1>1. NoData \in [0..(0 - 1) -> Bytes]
  BY DEF NoData
<1>2. CASE Transaction
  BY <1>1, <1>2 DEF Transaction, TypeOK, Response
<1>3. CASE Unmatched
  BY <1>1, <1>3 DEF Unmatched, TypeOK, Answer, Response
<1>4. CASE HandleWrite
  <2> DEFINE i == Owner(req.addr)
             word == req.addr - (req.addr % 4) - Plugins[i].base
             k == word \div 4
  <2>1. /\ req \in Requests /\ req.write /\ i \in Indexes
        /\ IF i \in Memories THEN MemoryWriteW(i, word, Data(req), Mask(req))
                             ELSE RedirectWriteW(i, word, Data(req), Mask(req))
        /\ Answer("success", NoData) /\ k \in WordIndexes(i) /\ word \in Nat
    BY <1>4, WriteFacts
  <2>2. Data(req) \in Words /\ Mask(req) \subseteq Lanes
    BY <2>1, DataType
  <2> HIDE DEF i, word
  <2>3. CASE i \in Memories
    <3>1. store[i] \in [WordIndexes(i) -> Words]
      BY <2>3 DEF TypeOK
    <3>2. [l \in Lanes |-> IF l \in Mask(req) THEN Data(req)[l] ELSE store[i][k][l]]
            \in Words
      BY <2>1, <2>2, <3>1 DEF Words
    <3> DEFINE W == [l \in Lanes |-> IF l \in Mask(req) THEN Data(req)[l]
                                                     ELSE store[i][k][l]]
    <3>3. store' = [store EXCEPT ![i] = [store[i] EXCEPT ![k] = W]] /\ targ' = targ
      BY <2>1, <2>3, <3>1 DEF MemoryWriteW, TypeOK
    <3> HIDE DEF W
    <3>4. [store[i] EXCEPT ![k] = W] \in [WordIndexes(i) -> Words]
      BY <3>1, <3>2 DEF W
    <3> QED BY <1>1, <2>1, <2>3, <3>3, <3>4 DEF TypeOK, Answer, Response
  <2>4. CASE i \notin Memories
    <3> DEFINE base == Plugins[i].remote + word
               written == IF Mask(req) \in Decoded THEN {base + l : l \in Mask(req)}
                                                    ELSE {}
    <3>1. store' = store /\ targ' = [a \in RemoteAddrs |->
            IF a \in written THEN Data(req)[a - base] ELSE targ[a]]
      BY <2>1, <2>4 DEF RedirectWriteW
    <3>2. \A a \in written : a - base \in Lanes
      BY <2>1, <2>2, PluginFacts DEF Lanes
    <3>3. \A a \in RemoteAddrs : targ[a] \in Bytes
      BY DEF TypeOK
    <3> HIDE DEF written, base
    <3>4. targ' \in [RemoteAddrs -> Bytes]
      BY <2>2, <3>1, <3>2, <3>3 DEF Words
    <3> QED BY <1>1, <2>1, <3>1, <3>4 DEF TypeOK, Answer, Response
  <2> QED BY <2>3, <2>4
<1>5. CASE HandleRead
  <2> DEFINE i == Owner(req.addr)
  <2>1. req \in Requests /\ Matching(req.addr) # {} /\ req.addr \in Nat
    BY <1>5, RequestFacts DEF HandleRead, TypeOK
  <2>2. req.addr \in Mapped /\ First(Matching(req.addr)) = i
    BY <2>1, MatchingOwner
  <2>3. resp'.data = [k \in 0..(req.width - 1) |-> ByteAt(req.addr + k)]
    BY <1>5, <2>1, <2>2, ReadBytes DEF HandleRead, Answer, Response
  <2>4. \A k \in 0..(req.width - 1) : ByteAt(req.addr + k) \in Bytes
    <3> TAKE k \in 0..(req.width - 1)
    <3>1. req.addr + k \in req.addr..(req.addr + req.width - 1)
      BY <2>1, RequestFacts
    <3>2. req.addr + k \in Mapped
      BY <2>1, <2>2, <3>1, SpanPlace
    <3> QED BY <3>2, ByteType
  <2>5. resp'.data \in [0..(req.width - 1) -> Bytes] /\ req.width \in {1, 2, 4}
    BY <2>1, <2>3, <2>4, RequestFacts
  <2> QED BY <1>5, <2>5 DEF HandleRead, Answer, TypeOK
<1>6. CASE UNCHANGED vars
  BY <1>6 DEF vars, TypeOK
<1> QED BY <1>2, <1>3, <1>4, <1>5, <1>6 DEF Next

-----------------------------------------------------------------------------
(* The refinement.                                                         *)

\* The address of a lane of a word.
LEMMA LaneAddress ==
  ASSUME NEW a \in Nat, NEW b \in Nat, NEW l \in Lanes, b = (a - (a % 4)) + l
  PROVE  b % 4 = l /\ b - (b % 4) = a - (a % 4)
<1> DEFINE am == a % 4
           w == a - am
<1>1. am \in 0..3 /\ w \in Nat /\ w % 4 = 0
  OBVIOUS
<1>2. l \in 0..3
  BY DEF Lanes
<1> HIDE DEF w
<1>3. b = w + l
  BY <1>1, <1>2 DEF w
<1>4. b % 4 = l
  BY <1>1, <1>2, <1>3
<1> QED BY <1>2, <1>3, <1>4, <1>1 DEF w

\* A write to Memory replaces the bytes of the request and no others.
LEMMA MemoryWrites ==
  ASSUME TypeOK, HandleWrite, Owner(req.addr) \in Memories, NEW b \in Mapped
  PROVE  ByteAt(b)' = IF b \in req.addr..(req.addr + req.width - 1)
                        THEN req.data[b - req.addr] ELSE ByteAt(b)
<1> DEFINE i == Owner(req.addr)
           base == Plugins[i].base
           word == req.addr - (req.addr % 4) - base
           k == word \div 4
           W == [l \in Lanes |-> IF l \in Mask(req) THEN Data(req)[l]
                                                 ELSE store[i][k][l]]
           j == Owner(b)
           off == b - Plugins[j].base
<1>1. /\ req \in Requests /\ req.write /\ req.addr \in Mapped /\ i \in Indexes
      /\ MemoryWriteW(i, word, Data(req), Mask(req))
      /\ k = (req.addr - base) \div 4 /\ k \in WordIndexes(i) /\ word = 4 * k
  BY WriteFacts
<1>2. /\ Mask(req) \subseteq Lanes
      /\ \A l \in Mask(req) : Data(req)[l] = req.data[l - (req.addr % 4)]
  BY <1>1, DataType
<1>3. store' = [store EXCEPT ![i] = [store[i] EXCEPT ![k] = W]] /\ targ' = targ
  BY <1>1 DEF MemoryWriteW
<1>4. DOMAIN store = Memories /\ store[i] \in [WordIndexes(i) -> Words]
  BY DEF TypeOK
<1>5. /\ off \div 4 \in WordIndexes(j) /\ off % 4 = b % 4 /\ b % 4 \in Lanes
      /\ off = 4 * (off \div 4) + (off % 4) /\ b \in Nat /\ j \in Indexes
  BY Place, OwnerIn DEF Lanes
<1>6. /\ ByteAt(b) = IF j \in Memories THEN store[j][off \div 4][b % 4]
                                       ELSE targ[Plugins[j].remote + off]
      /\ ByteAt(b)' = IF j \in Memories THEN store'[j][off \div 4][b % 4]
                                        ELSE targ'[Plugins[j].remote + off]
  BY <1>5 DEF ByteAt
<1>7. CASE b \in req.addr..(req.addr + req.width - 1)
  <2>1. /\ j = i /\ b % 4 \in Mask(req) /\ off \div 4 = k
        /\ b - req.addr = (b % 4) - (req.addr % 4)
    BY <1>1, <1>7, SpanPlace
  <2>2. Data(req)[b % 4] = req.data[b - req.addr]
    BY <1>2, <2>1
  <2> HIDE DEF i, k, j, off
  <2>3. store'[i][k] = W /\ i \in Memories
    BY <1>1, <1>3, <1>4 DEF i
  <2>4. W[b % 4] = Data(req)[b % 4]
    BY <1>5, <2>1
  <2> QED BY <1>6, <1>7, <2>1, <2>2, <2>3, <2>4
<1>8. CASE b \notin req.addr..(req.addr + req.width - 1)
  <2>1. ~(b - (b % 4) = req.addr - (req.addr % 4) /\ b % 4 \in Mask(req))
    BY <1>1, <1>5, <1>8, RequestFacts
  <2>2. CASE j = i /\ off \div 4 = k
    <3>1. base \in Nat /\ req.addr \in Nat
      BY <1>1, PluginFacts, RequestFacts
    <3>2. b - base = 4 * k + (b % 4) /\ req.addr - (req.addr % 4) - base = 4 * k
      BY <1>1, <1>5, <2>2
    <3>3. b = (req.addr - (req.addr % 4)) + (b % 4)
      <4> DEFINE am == req.addr % 4
                 bm == b % 4
      <4>1. am \in Nat /\ bm \in Nat /\ k \in Int
        BY <1>5, <3>1 DEF Lanes
      <4>2. b - base = 4 * k + bm /\ req.addr - am - base = 4 * k
        BY <3>2
      <4> HIDE DEF am, bm, base, i, k
      <4>3. b = (req.addr - am) + bm
        BY <1>5, <3>1, <4>1, <4>2
      <4> QED BY <4>3 DEF am, bm
    <3>4. b % 4 \notin Mask(req)
      BY <1>5, <2>1, <3>1, <3>3, LaneAddress
    <3>5. W[b % 4] = store[i][k][b % 4]
      BY <1>5, <3>4
    <3> HIDE DEF i, off, j, W
    <3>6. store'[i][k] = W /\ i \in Memories
      BY <1>1, <1>3, <1>4 DEF i, k
    <3> QED BY <1>6, <1>8, <2>2, <3>5, <3>6
  <2>3. CASE ~(j = i /\ off \div 4 = k)
    <3> HIDE DEF i, k, off, j, W
    <3>1. j \in Memories => store'[j][off \div 4] = store[j][off \div 4]
      BY <1>3, <1>4, <1>5, <2>3
    <3> QED BY <1>3, <1>6, <1>8, <3>1
  <2> QED BY <2>2, <2>3
<1> QED BY <1>7, <1>8

\* ... and so does a write that Redirect passes on.
LEMMA RedirectWrites ==
  ASSUME TypeOK, HandleWrite, Owner(req.addr) \notin Memories, NEW b \in Mapped
  PROVE  ByteAt(b)' = IF b \in req.addr..(req.addr + req.width - 1)
                        THEN req.data[b - req.addr] ELSE ByteAt(b)
<1> DEFINE i == Owner(req.addr)
           base == Plugins[i].base
           rem == Plugins[i].remote
           word == req.addr - (req.addr % 4) - base
           written == {rem + word + l : l \in Mask(req)}
           j == Owner(b)
           off == b - Plugins[j].base
<1>1. /\ req \in Requests /\ req.write /\ req.addr \in Mapped /\ i \in Indexes
      /\ RedirectWriteW(i, word, Data(req), Mask(req)) /\ word \in Nat
  BY WriteFacts
<1>2. /\ Mask(req) \subseteq Lanes /\ Mask(req) \in Decoded
      /\ \A l \in Mask(req) : Data(req)[l] = req.data[l - (req.addr % 4)]
  BY <1>1, DataType, RequestFacts
<1>3. /\ store' = store
      /\ targ' = [a \in RemoteAddrs |-> IF a \in written THEN Data(req)[a - (rem + word)]
                                                        ELSE targ[a]]
  BY <1>1, <1>2 DEF RedirectWriteW
<1>4. rem \in Nat /\ base \in Nat /\ req.addr \in Nat
  BY <1>1, PluginFacts, RequestFacts
<1>5. /\ b % 4 \in Lanes /\ b \in Nat /\ j \in Indexes /\ off \in Nat
      /\ j \in Redirects => Plugins[j].remote + off \in RemoteAddrs
  <2>1. b \in Nat /\ j \in Indexes
    BY OwnerIn
  <2>2. b % 4 \in Lanes
    BY <2>1 DEF Lanes
  <2> QED BY <2>1, <2>2, Place
<1>6. /\ ByteAt(b) = IF j \in Memories THEN store[j][off \div 4][off % 4]
                                       ELSE targ[Plugins[j].remote + off]
      /\ ByteAt(b)' = IF j \in Memories THEN store'[j][off \div 4][off % 4]
                                        ELSE targ'[Plugins[j].remote + off]
  BY <1>5 DEF ByteAt
<1>7. CASE b \in req.addr..(req.addr + req.width - 1)
  <2>1. /\ j = i /\ b % 4 \in Mask(req)
        /\ b - req.addr = (b % 4) - (req.addr % 4) /\ b - base = word + (b % 4)
    BY <1>1, <1>7, SpanPlace
  <2>2. Data(req)[b % 4] = req.data[b - req.addr]
    BY <1>2, <2>1
  <2>3. off = word + (b % 4)
    BY <2>1
  <2> DEFINE bm == b % 4
  <2>4. bm \in Nat
    BY <1>5 DEF Lanes
  <2> HIDE DEF rem, word, off, bm, j, i
  <2>5. rem + off = rem + word + bm /\ (rem + off) - (rem + word) = bm
    BY <1>1, <1>4, <1>5, <2>3, <2>4 DEF bm
  <2>6. rem + off \in written
    BY <2>1, <2>5 DEF bm
  <2>7. j \in Redirects /\ j \notin Memories /\ Plugins[j].remote = rem
    BY <1>5, <2>1 DEF i, rem, Redirects
  <2>8. targ'[rem + off] = Data(req)[bm]
    BY <1>3, <1>5, <2>5, <2>6, <2>7
  <2> QED BY <1>6, <1>7, <2>2, <2>7, <2>8 DEF bm
<1>8. CASE b \notin req.addr..(req.addr + req.width - 1)
  <2>1. ~(b - (b % 4) = req.addr - (req.addr % 4) /\ b % 4 \in Mask(req))
    BY <1>1, <1>5, <1>8, RequestFacts
  <2>2. CASE j \in Memories
    BY <1>3, <1>6, <1>8, <2>2
  <2>3. CASE j \notin Memories
    <3>1. j = i /\ j \in Redirects
      <4>1. i \in Redirects /\ j \in Redirects
        BY <1>1, <1>5, <2>3 DEF Redirects
      <4> HIDE DEF i, j
      <4>2. Plugins[i].kind = "Redirect" /\ Plugins[j].kind = "Redirect"
        BY <4>1, PluginFacts DEF Redirects
      <4> QED BY <4>1, <4>2, PluginAssumption DEF Redirects, Indexes
    <3>2. rem + off \notin written
      <4> SUFFICES ASSUME NEW l \in Mask(req), rem + off = rem + word + l
                   PROVE  FALSE
        OBVIOUS
      <4>1. l \in Lanes /\ off = b - base
        BY <1>2, <3>1
      <4>2. off = word + l
        <5>1. l \in Nat
          BY <4>1 DEF Lanes
        <5> HIDE DEF off, word, rem
        <5> QED BY <1>1, <1>4, <1>5, <5>1
      <4>3. b - base = (req.addr - (req.addr % 4) - base) + l
        BY <4>1, <4>2
      <4>4. b % 4 = l /\ b - (b % 4) = req.addr - (req.addr % 4)
        <5> DEFINE a == req.addr
        <5>1. a \in Nat /\ b \in Nat /\ base \in Nat /\ l \in Lanes
          BY <1>4, <1>5, <4>1
        <5>2. b = (a - (a % 4)) + l
          <6> DEFINE am == a % 4
          <6>1. am \in Nat /\ l \in Nat
            BY <5>1 DEF Lanes
          <6>2. b - base = (a - am - base) + l
            BY <4>3
          <6> HIDE DEF a, am, base, i
          <6>3. b = (a - am) + l
            BY <5>1, <6>1, <6>2
          <6> QED BY <6>3 DEF am
        <5> HIDE DEF a, base, off, word, rem, i, j, written
        <5>3. b % 4 = l /\ b - (b % 4) = a - (a % 4)
          BY <5>1, <5>2, LaneAddress
        <5> QED BY <5>3 DEF a
      <4> QED BY <2>1, <4>4
    <3> HIDE DEF i, off, written, word
    <3>3. targ'[rem + off] = targ[rem + off]
      BY <1>3, <1>5, <3>1, <3>2
    <3> QED BY <1>6, <1>8, <2>3, <3>1, <3>3
  <2> QED BY <2>2, <2>3
<1> QED BY <1>7, <1>8

\* Every step of the handler is a step of byte memory.
LEMMA NextStep == TypeOK /\ [Next]_vars => [Bus!MemNext]_(Bus!memVars)
<1> SUFFICES ASSUME TypeOK, [Next]_vars PROVE [Bus!MemNext]_(Bus!memVars)
  OBVIOUS
<1> DEFINE mem == [a \in Mapped |-> ByteAt(a)]
<1>1. store' = store /\ targ' = targ => mem' = mem
  BY DEF ByteAt
<1>2. req # NoRequest => req \in Requests /\ req.addr \in Nat
  BY RequestFacts DEF TypeOK
<1>3. CASE Transaction
  BY <1>1, <1>3 DEF Transaction, Bus!MemNext, Bus!Ask, NoRequest, Bus!NoRequest,
                    Response, Bus!Response, NoData, Bus!NoData
<1>4. CASE Unmatched
  <2>1. req.addr \notin Mapped
    BY <1>2, <1>4, MatchingOwner DEF Unmatched
  <2> QED BY <1>1, <1>4, <2>1 DEF Unmatched, Bus!MemNext, Bus!Fail, NoRequest,
            Bus!NoRequest, Answer, Response, Bus!Response, NoData, Bus!NoData
<1>5. CASE HandleWrite
  <2>1. req.addr \in Mapped /\ req.write /\ Answer("success", NoData) /\ req # NoRequest
    BY <1>5, WriteFacts DEF HandleWrite
  <2>2. \A b \in Mapped : ByteAt(b)' = IF b \in req.addr..(req.addr + req.width - 1)
                                       THEN req.data[b - req.addr] ELSE ByteAt(b)
    BY <1>5, MemoryWrites, RedirectWrites
  <2>3. mem' = [a \in Mapped |-> IF a \in Bus!Span(req) THEN req.data[a - req.addr]
                                                       ELSE mem[a]]
    BY <2>2 DEF Bus!Span
  <2> QED BY <2>1, <2>3 DEF Bus!MemNext, Bus!Write, NoRequest, Bus!NoRequest,
                Answer, Response, Bus!Response, NoData, Bus!NoData
<1>6. CASE HandleRead
  <2> DEFINE i == Owner(req.addr)
  <2>1. /\ req \in Requests /\ ~req.write /\ req # NoRequest /\ req.addr \in Mapped
        /\ First(Matching(req.addr)) = i
    BY <1>2, <1>6, MatchingOwner DEF HandleRead
  <2>2. /\ resp' = Response("success",
                           [k \in 0..(req.width - 1) |-> ByteAt(req.addr + k)])
        /\ req' = NoRequest
    BY <1>6, <2>1, ReadBytes DEF HandleRead, Answer
  <2>3. \A k \in 0..(req.width - 1) : ByteAt(req.addr + k) = mem[req.addr + k]
    <3> TAKE k \in 0..(req.width - 1)
    <3>1. req.addr + k \in req.addr..(req.addr + req.width - 1)
      BY <1>2, <2>1, RequestFacts
    <3>2. req.addr + k \in Mapped
      BY <2>1, <3>1, SpanPlace
    <3> QED BY <3>2
  <2>4. [k \in 0..(req.width - 1) |-> ByteAt(req.addr + k)]
          = [k \in 0..(req.width - 1) |-> mem[req.addr + k]]
    BY <2>3
  <2>5. mem' = mem
    BY <1>1, <1>6 DEF HandleRead
  <2> HIDE DEF mem
  <2>6. resp' = Bus!Response("success", [k \in 0..(req.width - 1) |-> mem[req.addr + k]])
    BY <2>2, <2>4 DEF Response, Bus!Response
  <2> QED BY <2>1, <2>2, <2>5, <2>6 DEF Bus!MemNext, Bus!Read, NoRequest, Bus!NoRequest, mem
<1>7. CASE UNCHANGED vars
  BY <1>1, <1>7 DEF vars, Bus!memVars
<1> QED BY <1>3, <1>4, <1>5, <1>6, <1>7 DEF Next

\* The stores and the target's memory hold bytes where they should.
THEOREM TypeCorrect == Spec => []TypeOK
<1>1. TypeOK /\ [Next]_vars => TypeOK'
  BY TypeStep
<1> QED BY <1>1, InitType, PTL DEF Spec

\* Behind plugin_handler, Memory and Redirect are byte memory: every access, of
\* any width, has the effect and the answer it has on bytes (plugini.cpp:160-300).
THEOREM Refinement == Spec => ImplementsByteMem
<1>1. Init => Bus!MemInit
  <2> SUFFICES ASSUME Init PROVE Bus!MemInit
    OBVIOUS
  <2>1. [a \in Mapped |-> ByteAt(a)] \in [Mapped -> Bytes]
    BY InitType, ByteType
  <2> QED BY <2>1 DEF Init, Bus!MemInit, NoRequest, Bus!NoRequest,
                Response, Bus!Response, NoData, Bus!NoData
<1> QED BY <1>1, NextStep, TypeCorrect, PTL DEF Spec, ImplementsByteMem, Bus!MemSpec
=============================================================================
