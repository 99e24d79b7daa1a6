---------------------------- MODULE FramingProofs ----------------------------
(***************************************************************************)
(* Packets on the link, for every set of buffers, packets and executions:  *)
(* both ends agree about where packets start, and flexsoc_listen hands     *)
(* each interface what was sent to it, in order.                           *)
(*                                                                         *)
(* What is on its way is read by a receiver whose state each byte changes: *)
(* Leads(R, q, r, s) says that the bytes of q, one after another, are what *)
(* the receiver expects and take it from state r to state s.  The          *)
(* invariants say where all the bytes on their way lead: the device to the *)
(* end of a packet, with every packet accepted so far received; the host   *)
(* to the end of all that was sent.                                        *)
(***************************************************************************)
EXTENDS Framing, SequenceTheorems, WellFoundedInduction, TLAPS

-----------------------------------------------------------------------------
(* Receivers.  R is a set of steps <<state, byte, next state>>.            *)

Leads(R, q, r, s) ==
  \E f : /\ f[0] = r /\ f[Len(q)] = s
         /\ \A k \in 1..Len(q) : <<f[k - 1], q[k], f[k]>> \in R

\* The receiver that the device is: a header has to be that of its sender's next
\* packet, any other byte the next one of the packet.
States == [cur : Byte, need : 0..16, ngot : [Interfaces -> Nat]]
Following(b) == [b EXCEPT !.pos = @ + 1, !.code = 0]
Good(r, b) ==
  IF r.need = 0 THEN b.pos = 0 /\ b.pkt = r.ngot[b.to] + 1
                ELSE b = Following(r.cur)
Left(r, b) == IF r.need = 0 THEN cmd2payload(b.code) ELSE r.need - 1
After(r, b) ==
  [cur |-> b, need |-> Left(r, b),
   ngot |-> IF Left(r, b) = 0 THEN [r.ngot EXCEPT ![b.to] = @ + 1] ELSE r.ngot]
Taken == {x \in States \X Byte \X States :
            Good(x[1], x[2]) /\ x[3] = After(x[1], x[2])}

\* The receiver that flexsoc_listen is: each byte is the next one that was sent
\* to its interface (c is all that was sent), and a packet is for one interface.
Listeners == [need : 0..16, to : Interfaces, at : [Interfaces -> Nat]]
Awaited(c, r, b) ==
  /\ r.at[b.to] < Len(c[b.to]) /\ b = c[b.to][r.at[b.to] + 1]
  /\ r.need # 0 => b.to = r.to
Past(r, b) ==
  [need |-> IF r.need = 0 THEN cmd2payload(b.code) ELSE r.need - 1,
   to |-> b.to, at |-> [r.at EXCEPT ![b.to] = @ + 1]]
Heard(c) == {x \in Listeners \X Byte \X Listeners :
               Awaited(c, x[1], x[2]) /\ x[3] = Past(x[1], x[2])}

-----------------------------------------------------------------------------
(* Where sequences lead.                                                   *)

LEMMA LeadsNowhere ==
  ASSUME NEW R, NEW r
  PROVE  Leads(R, <<>>, r, r)
<1> DEFINE f == [k \in {0} |-> r]
<1>1. f[0] = r /\ f[Len(<<>>)] = r /\ 1..Len(<<>>) = {}
  OBVIOUS
<1> HIDE DEF f
<1> QED BY <1>1 DEF Leads

LEMMA LeadsFar ==
  ASSUME NEW R, NEW r, NEW s, Leads(R, <<>>, r, s)
  PROVE  r = s
BY DEF Leads

\* One sequence after another.
LEMMA LeadsOn ==
  ASSUME NEW R, NEW B, NEW q \in Seq(B), NEW p \in Seq(B), NEW r, NEW s, NEW t,
         Leads(R, q, r, s), Leads(R, p, s, t)
  PROVE  Leads(R, q \o p, r, t)
<1>1. PICK f : /\ f[0] = r /\ f[Len(q)] = s
               /\ \A k \in 1..Len(q) : <<f[k - 1], q[k], f[k]>> \in R
  BY DEF Leads
<1>2. PICK g : /\ g[0] = s /\ g[Len(p)] = t
               /\ \A k \in 1..Len(p) : <<g[k - 1], p[k], g[k]>> \in R
  BY DEF Leads
<1>3. /\ Len(q) \in Nat /\ Len(p) \in Nat /\ Len(q \o p) = Len(q) + Len(p)
      /\ \A k \in 1..Len(q) + Len(p) :
           (q \o p)[k] = IF k <= Len(q) THEN q[k] ELSE p[k - Len(q)]
  BY ConcatProperties, LenProperties
<1> DEFINE m == Len(q)
           n == Len(p)
           h == [k \in 0..(m + n) |-> IF k <= m THEN f[k] ELSE g[k - m]]
           w == q \o p
<1>4. m \in Nat /\ n \in Nat /\ Len(w) = m + n
  BY <1>3
<1>5. \A k \in 0..(m + n) : h[k] = IF k <= m THEN f[k] ELSE g[k - m]
  OBVIOUS
<1>6. /\ \A k \in 1..m : k \in 1..(m + n) /\ w[k] = q[k]
      /\ \A k \in 1..(m + n) : ~(k <= m) => w[k] = p[k - m]
  BY <1>3
<1>7. f[m] = s /\ g[n] = t
  BY <1>1, <1>2
<1> HIDE DEF m, n, h, w
<1>8. h[0] = r
  BY <1>1, <1>4, <1>5
<1>9. h[m + n] = t
  <2>1. CASE n = 0
    BY <1>2, <1>4, <1>5, <1>7, <2>1
  <2>2. CASE n # 0
    <3>1. ~(m + n <= m) /\ (m + n) - m = n /\ m + n \in 0..(m + n)
      BY <1>4, <2>2
    <3> QED BY <1>5, <1>7, <3>1
  <2> QED BY <2>1, <2>2
<1>10. ASSUME NEW k \in 1..(m + n) PROVE <<h[k - 1], w[k], h[k]>> \in R
  <2>1. k \in 0..(m + n) /\ k - 1 \in 0..(m + n)
    BY <1>4
  <2>2. CASE k <= m
    <3>1. h[k] = f[k] /\ h[k - 1] = f[k - 1] /\ w[k] = q[k] /\ k \in 1..m
      BY <1>4, <1>5, <1>6, <2>1, <2>2
    <3> QED BY <1>1, <3>1 DEF m
  <2>3. CASE ~(k <= m)
    <3>1. k - m \in 1..n /\ (k - 1) - m = (k - m) - 1
      BY <1>4, <2>3
    <3>2. h[k] = g[k - m] /\ w[k] = p[k - m]
      BY <1>5, <1>6, <2>1, <2>3
    <3>3. h[k - 1] = g[(k - m) - 1]
      <4>1. CASE k - 1 <= m
        <5>1. k - 1 = m /\ (k - m) - 1 = 0
          BY <1>4, <2>3, <4>1
        <5> QED BY <1>2, <1>5, <1>7, <2>1, <5>1
      <4>2. CASE ~(k - 1 <= m)
        BY <1>5, <2>1, <3>1, <4>2
      <4> QED BY <4>1, <4>2
    <3>4. <<g[(k - m) - 1], p[k - m], g[k - m]>> \in R
      BY <1>2, <3>1 DEF n
    <3> QED BY <3>2, <3>3, <3>4
  <2> QED BY <2>2, <2>3
<1>11. h[Len(w)] = t /\ \A k \in 1..Len(w) : <<h[k - 1], w[k], h[k]>> \in R
  BY <1>4, <1>9, <1>10
<1>12. Leads(R, w, r, t)
  BY <1>8, <1>11 DEF Leads
<1> QED BY <1>12 DEF w

\* The first bytes, and the others.
LEMMA LeadsSplit ==
  ASSUME NEW R, NEW B, NEW q \in Seq(B), NEW r, NEW s, Leads(R, q, r, s),
         NEW n \in 0..Len(q)
  PROVE  \E u : /\ Leads(R, SubSeq(q, 1, n), r, u)
                /\ Leads(R, SubSeq(q, n + 1, Len(q)), u, s)
<1>1. PICK f : /\ f[0] = r /\ f[Len(q)] = s
               /\ \A k \in 1..Len(q) : <<f[k - 1], q[k], f[k]>> \in R
  BY DEF Leads
<1> DEFINE m == Len(q)
           p == SubSeq(q, 1, n)
           o == SubSeq(q, n + 1, m)
           g == [k \in 0..(m - n) |-> f[n + k]]
<1>2. m \in Nat /\ n \in 0..m /\ m - n \in Nat
  BY LenProperties
<1>3. /\ Len(p) = n /\ \A k \in 1..n : p[k] = q[k]
      /\ Len(o) = m - n /\ \A k \in 1..(m - n) : o[k] = q[n + k]
  BY <1>2
<1>4. \A k \in 0..(m - n) : g[k] = f[n + k]
  OBVIOUS
<1> HIDE DEF g, p, o
<1>5. Leads(R, p, r, f[n])
  <2>1. \A k \in 1..n : k \in 1..m
    BY <1>2
  <2>2. \A k \in 1..Len(p) : <<f[k - 1], p[k], f[k]>> \in R
    BY <1>1, <1>3, <2>1
  <2> QED BY <1>1, <1>3, <2>2 DEF Leads
<1>6. Leads(R, o, f[n], s)
  <2>1. g[0] = f[n] /\ g[m - n] = s
    <3>1. /\ 0 \in 0..(m - n) /\ m - n \in 0..(m - n) /\ n + 0 = n
          /\ n + (m - n) = m
      BY <1>2
    <3> QED BY <1>1, <1>4, <3>1
  <2>2. ASSUME NEW k \in 1..(m - n) PROVE <<g[k - 1], o[k], g[k]>> \in R
    <3>1. /\ k \in 0..(m - n) /\ k - 1 \in 0..(m - n) /\ n + k \in 1..m
          /\ n + (k - 1) = (n + k) - 1
      BY <1>2
    <3>2. g[k - 1] = f[(n + k) - 1] /\ g[k] = f[n + k] /\ o[k] = q[n + k]
      BY <1>3, <1>4, <3>1
    <3> QED BY <1>1, <3>1, <3>2
  <2> QED BY <1>3, <2>1, <2>2 DEF Leads
<1> QED BY <1>5, <1>6 DEF p, o

\* The first byte.
LEMMA LeadsHead ==
  ASSUME NEW R, NEW B, NEW q \in Seq(B), NEW r, NEW s,
         Leads(R, q, r, s), q # <<>>
  PROVE  \E u : <<r, Head(q), u>> \in R /\ Leads(R, Tail(q), u, s)
<1>1. /\ Len(q) \in Nat \ {0} /\ Head(q) = q[1]
      /\ Tail(q) \in Seq(B) /\ Len(Tail(q)) = Len(q) - 1
      /\ \A k \in 1..Len(Tail(q)) : Tail(q)[k] = q[k + 1]
  BY EmptySeq, HeadTailProperties
<1>2. PICK f : /\ f[0] = r /\ f[Len(q)] = s
               /\ \A k \in 1..Len(q) : <<f[k - 1], q[k], f[k]>> \in R
  BY DEF Leads
<1>3. <<r, Head(q), f[1]>> \in R
  <2>1. 1 \in 1..Len(q) /\ 1 - 1 = 0
    BY <1>1
  <2> QED BY <1>1, <1>2, <2>1
<1> DEFINE n == Len(Tail(q))
           g == [k \in 0..n |-> f[k + 1]]
<1>4. n \in Nat /\ n + 1 = Len(q)
  BY <1>1
<1>5. \A k \in 0..n : g[k] = f[k + 1]
  OBVIOUS
<1> HIDE DEF g, n
<1>6. g[0] = f[1] /\ g[n] = s
  BY <1>2, <1>4, <1>5
<1>7. ASSUME NEW k \in 1..n PROVE <<g[k - 1], Tail(q)[k], g[k]>> \in R
  <2>1. /\ k \in 0..n /\ k - 1 \in 0..n /\ (k - 1) + 1 = (k + 1) - 1
        /\ k + 1 \in 1..Len(q)
    BY <1>4
  <2>2. g[k - 1] = f[(k + 1) - 1] /\ g[k] = f[k + 1] /\ Tail(q)[k] = q[k + 1]
    BY <1>1, <1>5, <2>1 DEF n
  <2> QED BY <1>2, <2>1, <2>2
<1>8. Leads(R, Tail(q), f[1], s)
  BY <1>6, <1>7 DEF Leads, n
<1> QED BY <1>3, <1>8

\* A receiver that accepts more.
LEMMA LeadsMore ==
  ASSUME NEW R, NEW S, NEW B, NEW q \in Seq(B), NEW r, NEW s,
         Leads(R, q, r, s), R \subseteq S
  PROVE  Leads(S, q, r, s)
BY DEF Leads

-----------------------------------------------------------------------------
(* Packets.                                                                *)

\* A length has a code, and the code that length.
LEMMA Codes ==
  /\ \A len \in PayloadLengths : /\ payload2cmd(len) \in 0..7 /\ len \in 0..16
                                 /\ cmd2payload(payload2cmd(len)) = len
  /\ \A code \in 0..7 : cmd2payload(code) \in 0..16
<1>1. ASSUME NEW code \in 0..7 PROVE cmd2payload(code) \in 0..16
  BY DEF cmd2payload
<1>2. ASSUME NEW len \in PayloadLengths
      PROVE  /\ payload2cmd(len) \in 0..7 /\ len \in 0..16
             /\ cmd2payload(payload2cmd(len)) = len
  BY DEF payload2cmd, cmd2payload, PayloadLengths
<1> QED BY <1>1, <1>2

LEMMA PacketBytesAre ==
  ASSUME NEW i \in Interfaces, NEW n \in Nat, NEW len \in PayloadLengths
  PROVE  /\ PacketBytes(i, n, len) \in Seq(Byte)
         /\ Len(PacketBytes(i, n, len)) = len + 1 /\ len + 1 \in 1..17
         /\ \A k \in 1..(len + 1) :
              PacketBytes(i, n, len)[k] =
                [to |-> i, pkt |-> n, pos |-> k - 1,
                 code |-> IF k = 1 THEN payload2cmd(len) ELSE 0]
<1>1. len \in 0..16 /\ payload2cmd(len) \in 0..7
  BY Codes
<1> DEFINE b(k) == [to |-> i, pkt |-> n, pos |-> k - 1,
                    code |-> IF k = 1 THEN payload2cmd(len) ELSE 0]
<1>2. \A k \in 1..(len + 1) : b(k) \in Byte
  BY <1>1 DEF Byte
<1>3. PacketBytes(i, n, len) = [k \in 1..(len + 1) |-> b(k)]
  BY DEF PacketBytes
<1> HIDE DEF b
<1>4. len + 1 \in Nat /\ len + 1 \in 1..17
  BY <1>1
<1>5. /\ PacketBytes(i, n, len) \in Seq(Byte)
      /\ Len(PacketBytes(i, n, len)) = len + 1
      /\ \A k \in 1..(len + 1) : PacketBytes(i, n, len)[k] = b(k)
  BY <1>2, <1>3, <1>4
<1> QED BY <1>4, <1>5 DEF b

LEMMA NextByte ==
  ASSUME NEW i, NEW n, NEW p, NEW x, NEW v,
         v = [to |-> i, pkt |-> n, pos |-> p, code |-> x]
  PROVE  Following(v) = [to |-> i, pkt |-> n, pos |-> p + 1, code |-> 0]
<1> DEFINE w == [v EXCEPT !.pos = @ + 1, !.code = 0]
           y == [to |-> i, pkt |-> n, pos |-> p + 1, code |-> 0]
<1>1. DOMAIN v = {"to", "pkt", "pos", "code"} /\ v.pos = p
  OBVIOUS
<1>2. DOMAIN w = {"to", "pkt", "pos", "code"}
  BY <1>1
<1>3. w.to = i /\ w.pkt = n /\ w.pos = p + 1 /\ w.code = 0
  BY <1>1
<1>4. /\ w = [d \in {"to", "pkt", "pos", "code"} |-> w[d]]
      /\ y = [d \in {"to", "pkt", "pos", "code"} |-> y[d]]
  BY <1>1
<1>5. y.to = i /\ y.pkt = n /\ y.pos = p + 1 /\ y.code = 0
  OBVIOUS
<1> HIDE DEF w, y
<1>6. \A d \in {"to", "pkt", "pos", "code"} : w[d] = y[d]
  BY <1>3, <1>5
<1>7. w = y
  BY <1>4, <1>6
<1> QED BY <1>7 DEF w, y, Following

\* The device receives the next packet of an interface.
LEMMA PacketTaken ==
  ASSUME NEW i \in Interfaces, NEW n \in Nat, NEW len \in PayloadLengths,
         NEW r \in States, r.need = 0, n = r.ngot[i] + 1
  PROVE  \E t \in States : /\ Leads(Taken, PacketBytes(i, n, len), r, t)
                           /\ t.need = 0 /\ t.ngot = [r.ngot EXCEPT ![i] = n]
<1> DEFINE q == PacketBytes(i, n, len)
           m == len + 1
           g == [r.ngot EXCEPT ![i] = n]
           f == [k \in 0..m |-> IF k = 0 THEN r
                  ELSE [cur |-> q[k], need |-> m - k,
                        ngot |-> IF k = m THEN g ELSE r.ngot]]
<1>1. /\ q \in Seq(Byte) /\ Len(q) = m /\ m \in 1..17
      /\ \A k \in 1..m : q[k] = [to |-> i, pkt |-> n, pos |-> k - 1,
                                 code |-> IF k = 1 THEN payload2cmd(len) ELSE 0]
      /\ \A k \in 1..m : q[k] \in Byte
  BY PacketBytesAre, ElementOfSeq
<1>2. /\ r \in States /\ r.ngot \in [Interfaces -> Nat]
      /\ g \in [Interfaces -> Nat]
      /\ g = [r.ngot EXCEPT ![i] = @ + 1]
  BY DEF States
<1>3. cmd2payload(payload2cmd(len)) = m - 1 /\ m \in Nat
  <2>1. cmd2payload(payload2cmd(len)) = len /\ len \in 0..16
    BY Codes
  <2> QED BY <2>1
<1>4. /\ f[0] = r
      /\ \A k \in 1..m : f[k] = [cur |-> q[k], need |-> m - k,
                                 ngot |-> IF k = m THEN g ELSE r.ngot]
  BY <1>1
<1> HIDE DEF q, m, g, f
<1>5. ASSUME NEW k \in 1..m PROVE f[k] \in States
  <2>1. m - k \in 0..16 /\ q[k] \in Byte
    BY <1>1
  <2>2. (IF k = m THEN g ELSE r.ngot) \in [Interfaces -> Nat]
    BY <1>2
  <2>3. f[k] = [cur |-> q[k], need |-> m - k,
                ngot |-> IF k = m THEN g ELSE r.ngot]
    BY <1>4
  <2> QED BY <2>1, <2>2, <2>3 DEF States
<1>6. ASSUME NEW k \in 1..m PROVE <<f[k - 1], q[k], f[k]>> \in Taken
  <2>1. CASE k = 1
    <3>1. f[k - 1] = r /\ f[k] \in States /\ q[k] \in Byte
      BY <1>1, <1>4, <1>5, <2>1
    <3>2. /\ q[k].pos = 0 /\ q[k].pkt = n /\ q[k].to = i
          /\ q[k].code = payload2cmd(len)
      BY <1>1, <2>1
    <3>3. Good(r, q[k])
      BY <3>2 DEF Good
    <3>4. Left(r, q[k]) = m - 1 /\ (Left(r, q[k]) = 0 <=> k = m)
      BY <1>3, <2>1, <3>2 DEF Left
    <3>5. f[k] = After(r, q[k])
      BY <1>2, <1>4, <2>1, <3>2, <3>4 DEF After
    <3> QED BY <1>2, <3>1, <3>3, <3>5 DEF Taken
  <2>2. CASE k # 1
    <3> DEFINE u == f[k - 1]
    <3>1. /\ k - 1 \in 1..m /\ k - 1 # m /\ (k - 1) - 1 = k - 2
          /\ m - (k - 1) # 0 /\ (m - (k - 1)) - 1 = m - k
          /\ (m - k = 0 <=> k = m)
      BY <1>1, <2>2
    <3>2. /\ u.cur = q[k - 1] /\ u.need = m - (k - 1) /\ u.ngot = r.ngot
          /\ u \in States /\ f[k] \in States /\ q[k] \in Byte
      <4>1. u = [cur |-> q[k - 1], need |-> m - (k - 1),
                 ngot |-> IF k - 1 = m THEN g ELSE r.ngot]
        BY <1>4, <3>1
      <4>2. u \in States /\ f[k] \in States /\ q[k] \in Byte
        BY <1>1, <1>5, <3>1
      <4> QED BY <3>1, <4>1, <4>2
    <3> HIDE DEF u
    <3>3. q[k] = Following(q[k - 1]) /\ q[k].to = i
      <4>1. q[k - 1] = [to |-> i, pkt |-> n, pos |-> k - 2,
                        code |-> IF k - 1 = 1 THEN payload2cmd(len) ELSE 0]
        BY <1>1, <3>1
      <4>2. q[k] = [to |-> i, pkt |-> n, pos |-> k - 1, code |-> 0]
        BY <1>1, <2>2
      <4>3. (k - 2) + 1 = k - 1
        BY <1>1
      <4> DEFINE v == q[k - 1]
                 x == IF k - 1 = 1 THEN payload2cmd(len) ELSE 0
      <4>4. v = [to |-> i, pkt |-> n, pos |-> k - 2, code |-> x]
        BY <4>1
      <4> HIDE DEF v, x
      <4>5. Following(v) =
              [to |-> i, pkt |-> n, pos |-> (k - 2) + 1, code |-> 0]
        <5> DEFINE p == k - 2
        <5>1. v = [to |-> i, pkt |-> n, pos |-> p, code |-> x]
          BY <4>4
        <5> HIDE DEF p
        <5>2. Following(v) = [to |-> i, pkt |-> n, pos |-> p + 1, code |-> 0]
          BY <5>1, NextByte
        <5> QED BY <5>2 DEF p
      <4> QED BY <4>2, <4>3, <4>5 DEF v
    <3>4. Good(u, q[k])
      BY <3>1, <3>2, <3>3 DEF Good
    <3>5. Left(u, q[k]) = m - k
      BY <3>1, <3>2 DEF Left
    <3>6. f[k] = After(u, q[k])
      BY <1>2, <1>4, <3>1, <3>2, <3>3, <3>5 DEF After
    <3>7. <<u, q[k], f[k]>> \in Taken
      BY <3>2, <3>4, <3>6 DEF Taken
    <3> QED BY <3>7 DEF u
  <2> QED BY <2>1, <2>2
<1>7. Leads(Taken, q, r, f[m])
  BY <1>1, <1>4, <1>6 DEF Leads
<1>8. f[m] \in States /\ f[m].need = 0 /\ f[m].ngot = g
  <2>1. m \in 1..m /\ m - m = 0
    BY <1>1
  <2>2. f[m] = [cur |-> q[m], need |-> m - m, ngot |-> g]
    BY <1>4, <2>1
  <2> QED BY <1>5, <2>1, <2>2
<1> QED BY <1>7, <1>8 DEF q, g

\* flexsoc_listen reads, in q, the rest of what was sent to i.
Hears(c, q, i, r) ==
  \E t \in Listeners : /\ Leads(Heard(c), q, r, t) /\ t.need = 0
                        /\ t.at = [r.at EXCEPT ![i] = Len(c[i])]

LEMMA PacketHeard ==
  ASSUME NEW i \in Interfaces, NEW n \in Nat, NEW len \in PayloadLengths,
         NEW r \in Listeners, r.need = 0, NEW c, NEW old \in Seq(Byte),
         c[i] = old \o PacketBytes(i, n, len), r.at[i] = Len(old)
  PROVE  Hears(c, PacketBytes(i, n, len), i, r)
<1> DEFINE q == PacketBytes(i, n, len)
           m == len + 1
           a == Len(old)
           f == [k \in 0..m |-> IF k = 0 THEN r
                  ELSE [need |-> m - k, to |-> i,
                        at |-> [r.at EXCEPT ![i] = a + k]]]
<1>1. /\ q \in Seq(Byte) /\ Len(q) = m /\ m \in 1..17
      /\ \A k \in 1..m : q[k].to = i /\ q[k] \in Byte
      /\ q[1].code = payload2cmd(len)
  <2>1. /\ q \in Seq(Byte) /\ Len(q) = m /\ m \in 1..17
        /\ \A k \in 1..m : q[k] = [to |-> i, pkt |-> n, pos |-> k - 1,
                                   code |-> IF k = 1 THEN payload2cmd(len) ELSE 0]
    BY PacketBytesAre
  <2>2. 1 \in 1..m /\ \A k \in 1..m : q[k] \in Byte
    BY <2>1, ElementOfSeq, SMTT(30)
  <2> HIDE DEF q, m
  <2> QED BY <2>1, <2>2
<1> HIDE DEF q, m
<1>2. /\ a \in Nat /\ Len(c[i]) = a + m
      /\ \A k \in 1..m : c[i][a + k] = q[k]
  <2>1. /\ Len(old \o q) = Len(old) + Len(q) /\ Len(old) \in Nat
        /\ \A k \in 1..Len(old) + Len(q) :
             (old \o q)[k] = IF k <= Len(old) THEN old[k] ELSE q[k - Len(old)]
    <3>1. old \in Seq(Byte) /\ q \in Seq(Byte)
      BY <1>1
    <3> HIDE DEF q
    <3> QED BY <3>1, ConcatProperties, LenProperties
  <2>2. c[i] = old \o q
    BY DEF q
  <2>3. ASSUME NEW k \in 1..m PROVE c[i][a + k] = q[k]
    <3>1. a + k \in 1..a + m /\ ~(a + k <= a) /\ (a + k) - a = k
      BY <1>1, <2>1
    <3> QED BY <1>1, <2>1, <2>2, <3>1
  <2> QED BY <1>1, <2>1, <2>2, <2>3
<1>3. cmd2payload(payload2cmd(len)) = m - 1
  <2>1. cmd2payload(payload2cmd(len)) = len /\ len \in 0..16
    BY Codes
  <2> QED BY <2>1 DEF m
<1>4. /\ f[0] = r
      /\ \A k \in 1..m : f[k] = [need |-> m - k, to |-> i,
                                 at |-> [r.at EXCEPT ![i] = a + k]]
  BY <1>1
<1>5. r.at \in [Interfaces -> Nat] /\ r.at[i] = a
  BY DEF Listeners
<1> HIDE DEF a, f
<1>6. ASSUME NEW k \in 1..m PROVE f[k] \in Listeners
  <2>1. m - k \in 0..16 /\ a + k \in Nat
    <3>1. a \in Nat /\ m \in 1..17
      BY <1>1, <1>2
    <3> QED BY <3>1
  <2>2. [r.at EXCEPT ![i] = a + k] \in [Interfaces -> Nat]
    BY <1>5, <2>1
  <2>3. f[k] = [need |-> m - k, to |-> i, at |-> [r.at EXCEPT ![i] = a + k]]
    BY <1>4
  <2> QED BY <2>1, <2>2, <2>3 DEF Listeners
<1>7. ASSUME NEW k \in 1..m PROVE <<f[k - 1], q[k], f[k]>> \in Heard(c)
  <2> DEFINE u == f[k - 1]
  <2>1. /\ q[k].to = i /\ q[k] \in Byte /\ f[k] \in Listeners
        /\ c[i][a + k] = q[k] /\ a + k <= Len(c[i])
    <3>1. a + k <= a + m
      BY <1>1, <1>2
    <3> QED BY <1>1, <1>2, <1>6, <3>1
  <2>2. CASE k = 1
    <3>1. u = r /\ a < Len(c[i]) /\ a + 1 = a + k
      <4>1. a < a + m /\ 1 - 1 = 0
        BY <1>1, <1>2
      <4> QED BY <1>2, <1>4, <2>2, <4>1
    <3>2. Awaited(c, r, q[k])
      BY <1>5, <2>1, <3>1 DEF Awaited
    <3>3. f[k] = Past(r, q[k])
      <4>1. [r.at EXCEPT ![i] = @ + 1] = [r.at EXCEPT ![i] = a + k]
        BY <1>5, <2>2
      <4>2. q[k].code = payload2cmd(len)
        BY <1>1, <2>2
      <4>3. f[k] = [need |-> m - k, to |-> i, at |-> [r.at EXCEPT ![i] = a + k]]
        BY <1>4
      <4> QED BY <1>3, <2>1, <2>2, <4>1, <4>2, <4>3 DEF Past
    <3> QED BY <2>1, <3>1, <3>2, <3>3 DEF Heard
  <2>3. CASE k # 1
    <3>1. /\ k - 1 \in 1..m /\ m - (k - 1) # 0 /\ (m - (k - 1)) - 1 = m - k
          /\ (a + (k - 1)) + 1 = a + k /\ a + (k - 1) < Len(c[i])
          /\ a + (k - 1) \in Nat
      <4>1. a + m = Len(c[i]) /\ a + (k - 1) < a + m
        BY <1>1, <1>2
      <4> QED BY <1>1, <1>2, <2>3, <4>1
    <3>2. /\ u.need = m - (k - 1) /\ u.to = i /\ u \in Listeners
          /\ u.at = [r.at EXCEPT ![i] = a + (k - 1)]
      <4>1. u = [need |-> m - (k - 1), to |-> i,
                 at |-> [r.at EXCEPT ![i] = a + (k - 1)]]
        BY <1>4, <3>1
      <4> QED BY <1>6, <3>1, <4>1
    <3>3. u.at[i] = a + (k - 1)
      BY <1>5, <3>2
    <3> HIDE DEF u
    <3>4. Awaited(c, u, q[k])
      <4>1. /\ u.at[q[k].to] < Len(c[q[k].to])
            /\ q[k] = c[q[k].to][u.at[q[k].to] + 1]
        BY <2>1, <3>1, <3>3
      <4> QED BY <2>1, <3>2, <4>1 DEF Awaited
    <3>5. [u.at EXCEPT ![i] = @ + 1] = [r.at EXCEPT ![i] = a + k]
      BY <1>5, <3>1, <3>2, <3>3
    <3>6. f[k] = Past(u, q[k])
      BY <1>4, <2>1, <3>1, <3>2, <3>5 DEF Past
    <3>7. <<u, q[k], f[k]>> \in Heard(c)
      BY <2>1, <3>2, <3>4, <3>6 DEF Heard
    <3> QED BY <3>7 DEF u
  <2> QED BY <2>2, <2>3
<1>8. Leads(Heard(c), q, r, f[m])
  BY <1>1, <1>4, <1>7 DEF Leads
<1>9. /\ f[m] \in Listeners /\ f[m].need = 0
      /\ f[m].at = [r.at EXCEPT ![i] = Len(c[i])]
  <2>1. m \in 1..m /\ m - m = 0
    BY <1>1
  <2>2. f[m] = [need |-> m - m, to |-> i, at |-> [r.at EXCEPT ![i] = a + m]]
    BY <1>4, <2>1
  <2> QED BY <1>2, <1>6, <2>1, <2>2
<1> QED BY <1>8, <1>9 DEF q, Hears

-----------------------------------------------------------------------------
(* Buffers.                                                                *)

\* A set of numbers but {} has a least one: this stands for induction.
LEMMA Least ==
  ASSUME NEW T \in SUBSET Nat, T # {}
  PROVE  \E x \in T : \A y \in T : x <= y
<1> DEFINE R == OpToRel(<, Nat)
<1>1. IsWellFoundedOn(R, Nat)
  BY NatLessThanWellFounded
<1>2. \A x, y \in Nat : x < y => <<x, y>> \in R
  BY DEF OpToRel
<1> HIDE DEF R
<1>3. PICK x \in T : \A y \in T : ~(<<y, x>> \in R)
  BY <1>1, WFMin
<1>4. \A y \in T : ~(y < x)
  BY <1>2, <1>3
<1>5. \A y \in T : x <= y
  BY <1>4
<1> QED BY <1>5

\* What FlattenSeq computes.
LEMMA Flattens ==
  ASSUME NEW S, NEW ps \in Seq(Seq(S)), ps # <<>>
  PROVE  \E F : /\ FlattenSeq(ps) = F[Len(ps)]
                /\ \A k \in 1..Len(ps) :
                     F[k] = IF k = 1 THEN ps[1] ELSE F[k - 1] \o ps[k]
<1> DEFINE n == Len(ps)
           Fold(f, x) ==
             f = [k \in 1..x |-> IF k = 1 THEN ps[k] ELSE f[k - 1] \o ps[k]]
           T == {x \in 1..n : ~ \E f : Fold(f, x)}
<1>1. n \in Nat /\ n # 0
  BY EmptySeq
<1>2. ASSUME NEW x \in T, \A y \in T : x <= y PROVE FALSE
  <2>1. x \in 1..n /\ ~ \E f : Fold(f, x)
    OBVIOUS
  <2>2. CASE x = 1
    <3> DEFINE f == [k \in 1..x |-> ps[k]]
    <3>1. Fold(f, x)
      BY <2>2
    <3> QED BY <2>1, <3>1
  <2>3. CASE x # 1
    <3>1. x - 1 \in 1..n /\ ~(x <= x - 1)
      BY <1>1, <2>1, <2>3
    <3>2. PICK g : Fold(g, x - 1)
      BY <1>2, <3>1
    <3>3. \A k \in 1..(x - 1) : g[k] = IF k = 1 THEN ps[k] ELSE g[k - 1] \o ps[k]
      BY <3>2
    <3> DEFINE f == [k \in 1..x |-> IF k = x THEN g[x - 1] \o ps[x] ELSE g[k]]
    <3>4. \A k \in 1..x : f[k] = IF k = x THEN g[x - 1] \o ps[x] ELSE g[k]
      OBVIOUS
    <3> HIDE DEF f
    <3>5. ASSUME NEW k \in 1..x
          PROVE  f[k] = IF k = 1 THEN ps[k] ELSE f[k - 1] \o ps[k]
      <4>1. CASE k = x
        <5>1. k - 1 \in 1..x /\ k - 1 # x /\ k # 1
          BY <2>1, <2>3, <4>1
        <5> QED BY <3>4, <4>1, <5>1
      <4>2. CASE k # x /\ k = 1
        <5>1. k \in 1..(x - 1)
          BY <2>1, <4>2
        <5> QED BY <3>3, <3>4, <4>2, <5>1
      <4>3. CASE k # x /\ k # 1
        <5>1. k \in 1..(x - 1) /\ k - 1 \in 1..x /\ k - 1 # x
          BY <2>1, <4>3
        <5> QED BY <3>3, <3>4, <4>3, <5>1
      <4> QED BY <4>1, <4>2, <4>3
    <3>6. f = [k \in 1..x |-> f[k]]
      BY DEF f
    <3>7. f = [k \in 1..x |-> IF k = 1 THEN ps[k] ELSE f[k - 1] \o ps[k]]
      BY <3>5, <3>6
    <3> QED BY <2>1, <3>7
  <2> QED BY <2>2, <2>3
<1>3. T = {}
  <2>1. T \in SUBSET Nat
    <3> HIDE DEF Fold
    <3> QED BY <1>1
  <2> HIDE DEF T
  <2> QED BY <1>2, <2>1, Least
<1>4. n \in 1..n
  BY <1>1
<1>5. \E f : Fold(f, n)
  BY <1>3, <1>4
<1> DEFINE F == CHOOSE f : Fold(f, n)
<1>6. FlattenSeq(ps) = F[n]
  BY <1>1 DEF FlattenSeq
<1>7. Fold(F, n)
  BY <1>5
<1> HIDE DEF F
<1>8. \A k \in 1..n : F[k] = IF k = 1 THEN ps[1] ELSE F[k - 1] \o ps[k]
  BY <1>7
<1> QED BY <1>6, <1>8

\* The device receives, from q, the packets of i after the m-th up to the n-th.
Carries(q, i, m, n) ==
  \A r \in States : r.need = 0 /\ r.ngot[i] = m =>
    \E t \in States : /\ Leads(Taken, q, r, t) /\ t.need = 0
                      /\ t.ngot = [r.ngot EXCEPT ![i] = n]

LEMMA CarriesOn ==
  ASSUME NEW i \in Interfaces, NEW m \in Nat, NEW n \in Nat, NEW o \in Nat,
         NEW q \in Seq(Byte), NEW p \in Seq(Byte),
         Carries(q, i, m, n), Carries(p, i, n, o)
  PROVE  Carries(q \o p, i, m, o)
<1> SUFFICES ASSUME NEW r \in States, r.need = 0, r.ngot[i] = m
             PROVE  \E t \in States : /\ Leads(Taken, q \o p, r, t) /\ t.need = 0
                                      /\ t.ngot = [r.ngot EXCEPT ![i] = o]
  BY DEF Carries
<1>1. PICK s \in States : /\ Leads(Taken, q, r, s) /\ s.need = 0
                          /\ s.ngot = [r.ngot EXCEPT ![i] = n]
  BY DEF Carries
<1>2. r.ngot \in [Interfaces -> Nat]
  BY DEF States
<1>3. s.ngot[i] = n
  BY <1>1, <1>2
<1>4. PICK t \in States : /\ Leads(Taken, p, s, t) /\ t.need = 0
                          /\ t.ngot = [s.ngot EXCEPT ![i] = o]
  BY <1>1, <1>3 DEF Carries
<1>5. t.ngot = [r.ngot EXCEPT ![i] = o]
  BY <1>1, <1>2, <1>4
<1>6. Leads(Taken, q \o p, r, t)
  BY <1>1, <1>4, LeadsOn
<1> QED BY <1>4, <1>5, <1>6

\* The buffer that flexsoc_send is handed consists of whole packets.
LEMMA BufferCarries ==
  ASSUME NEW i \in Interfaces, NEW n \in Nat,
         NEW lens \in Seq(PayloadLengths), lens # <<>>
  PROVE  /\ BufferBytes(i, n, lens) \in Seq(Byte)
         /\ BufferBytes(i, n, lens) # <<>>
         /\ Carries(BufferBytes(i, n, lens), i, n, n + Len(lens))
<1> DEFINE m == Len(lens)
           P(k) == PacketBytes(i, n + k, lens[k])
           ps == [k \in 1..m |-> P(k)]
<1>1. m \in Nat /\ m # 0
  BY EmptySeq
<1>2. ASSUME NEW k \in 1..m
      PROVE  /\ P(k) \in Seq(Byte) /\ Len(P(k)) > 0
             /\ \A j \in Nat : n + k = j + 1 => Carries(P(k), i, j, n + k)
  <2> DEFINE o == n + k
             len == lens[k]
             p == PacketBytes(i, o, len)
  <2>1. o \in Nat /\ len \in PayloadLengths
    BY <1>1, ElementOfSeq
  <2> HIDE DEF o, len
  <2>2. p \in Seq(Byte) /\ Len(p) = len + 1 /\ len + 1 \in 1..17
    BY <2>1, PacketBytesAre
  <2>3. \A j \in Nat : o = j + 1 => Carries(p, i, j, o)
    BY <2>1, PacketTaken DEF Carries
  <2>4. Len(p) > 0
    BY <2>2, SMTT(30)
  <2> QED BY <2>2, <2>3, <2>4 DEF o, len
<1> HIDE DEF P
<1>3. ps \in Seq(Seq(Byte)) /\ ps # <<>> /\ Len(ps) = m
  BY <1>1, <1>2
<1>4. \A k \in 1..m : ps[k] = P(k)
  OBVIOUS
<1>5. BufferBytes(i, n, lens) = FlattenSeq(ps)
  BY DEF BufferBytes, P
<1> HIDE DEF ps
<1>6. PICK F : /\ FlattenSeq(ps) = F[m]
               /\ \A k \in 1..m :
                    F[k] = IF k = 1 THEN ps[1] ELSE F[k - 1] \o ps[k]
  <2>1. \E F : /\ FlattenSeq(ps) = F[Len(ps)]
               /\ \A k \in 1..Len(ps) :
                    F[k] = IF k = 1 THEN ps[1] ELSE F[k - 1] \o ps[k]
    BY <1>3, Flattens
  <2> QED BY <1>3, <2>1
<1> DEFINE Holds(k) == /\ F[k] \in Seq(Byte) /\ Len(F[k]) > 0
                       /\ Carries(F[k], i, n, n + k)
           T == {k \in 1..m : ~Holds(k)}
<1>7. ASSUME NEW x \in T, \A y \in T : x <= y PROVE FALSE
  <2>1. x \in 1..m /\ ~Holds(x)
    OBVIOUS
  <2>2. x \in Nat /\ n + x \in Nat
    BY <1>1, <2>1
  <2>3. CASE x = 1
    <3>1. F[x] = P(x)
      BY <1>4, <1>6, <2>1, <2>3
    <3> QED BY <1>2, <2>1, <2>2, <2>3, <3>1
  <2>4. CASE x # 1
    <3> DEFINE y == x - 1
    <3>1. y \in 1..m /\ ~(x <= y) /\ n + x = (n + y) + 1 /\ n + y \in Nat
      BY <1>1, <2>1, <2>4
    <3>2. Holds(y)
      BY <1>7, <3>1
    <3>3. F[x] = F[y] \o P(x)
      BY <1>4, <1>6, <2>1, <2>4
    <3> HIDE DEF y
    <3>4. P(x) \in Seq(Byte) /\ Carries(P(x), i, n + y, n + x)
      BY <1>2, <2>1, <3>1
    <3>5. Carries(F[y] \o P(x), i, n, n + x)
      BY <2>2, <3>1, <3>2, <3>4, CarriesOn
    <3>6. /\ F[y] \o P(x) \in Seq(Byte)
          /\ Len(F[y] \o P(x)) = Len(F[y]) + Len(P(x))
      BY <3>2, <3>4, ConcatProperties
    <3>7. Len(F[y] \o P(x)) > 0
      BY <3>2, <3>4, <3>6, LenProperties
    <3> QED BY <2>1, <3>3, <3>5, <3>6, <3>7
  <2> QED BY <2>3, <2>4
<1>8. T = {}
  <2>1. T \in SUBSET Nat
    BY <1>1
  <2> HIDE DEF T
  <2> QED BY <1>7, <2>1, Least
<1>9. Holds(m)
  <2>1. m \in 1..m
    BY <1>1
  <2> QED BY <1>8, <2>1
<1>10. F[m] # <<>>
  BY <1>9, EmptySeq
<1> QED BY <1>5, <1>6, <1>9, <1>10

-----------------------------------------------------------------------------
(* Types.                                                                  *)

\* What flexsoc_listen has of a packet: while the rest is read, pread bytes after
\* the header; while it is dispatched, all of them.
Received ==
  /\ lpc = "rest" => /\ Len(pkt) >= 1
                     /\ \/ pread \in 0..sz /\ Len(pkt) = pread + 1 /\ wr = 0
                        \/ pread < 0 /\ lost
  /\ lpc = "dispatch" => /\ Len(pkt) >= 1 /\ Len(pkt) = sz + 1 /\ wr \in 0..sz
                         /\ pkt[1].to = "slave" => wr = 0
Types == TypeOK /\ pread \in Int /\ Received

LEMMA Piece ==
  ASSUME NEW S, NEW q \in Seq(S), NEW m \in Nat, NEW n \in Nat, m + n <= Len(q)
  PROVE  /\ SubSeq(q, m + 1, m + n) \in Seq(S)
         /\ Len(SubSeq(q, m + 1, m + n)) = n
         /\ \A k \in 1..n : SubSeq(q, m + 1, m + n)[k] = q[m + k]
<1>1. /\ Len(q) \in Nat /\ m + 1 \in Int /\ m + n \in Int
      /\ (m + n) - (m + 1) + 1 = n
  BY LenProperties
<1>2. \A j \in (m + 1)..(m + n) : q[j] \in S
  BY <1>1, ElementOfSeq
<1>3. \A k \in 1..n : (m + 1) + k - 1 = m + k
  OBVIOUS
<1> DEFINE a == m + 1
           b == m + n
<1>4. /\ a \in Int /\ b \in Int /\ b - a + 1 = n /\ (a <= b \/ n = 0)
      /\ \A j \in a..b : q[j] \in S
  BY <1>1, <1>2
<1> HIDE DEF a, b
<1>5. /\ SubSeq(q, a, b) \in Seq(S)
      /\ Len(SubSeq(q, a, b)) = IF a <= b THEN b - a + 1 ELSE 0
      /\ \A k \in 1..(b - a + 1) : SubSeq(q, a, b)[k] = q[a + k - 1]
  BY <1>4, SubSeqProperties
<1>6. /\ SubSeq(q, a, b) \in Seq(S) /\ Len(SubSeq(q, a, b)) = n
      /\ \A k \in 1..n : SubSeq(q, a, b)[k] = q[a + k - 1]
  BY <1>4, <1>5
<1> QED BY <1>3, <1>6 DEF a, b

LEMMA FirstByte ==
  ASSUME Types, lpc \in {"rest", "dispatch"}
  PROVE  /\ pkt \in Seq(Byte) /\ pkt[1] \in Byte /\ Len(pkt) \in Nat
         /\ Len(pkt) >= 1
         /\ sz \in 0..16 /\ pkt[1].to \in Interfaces
<1>1. pkt \in Seq(Byte) /\ Len(pkt) \in Nat
  BY LenProperties DEF Types, TypeOK
<1>2. CASE lpc = "rest"
  <2>1. Len(pkt) >= 1
    BY <1>2 DEF Types, Received
  <2>2. pkt[1] \in Byte
    BY <1>1, <2>1, ElementOfSeq
  <2>3. pkt[1].code \in 0..7 /\ pkt[1].to \in Interfaces
    BY <2>2 DEF Byte
  <2> QED BY <1>1, <2>1, <2>2, <2>3, Codes DEF sz
<1>3. CASE lpc = "dispatch"
  <2>1. Len(pkt) >= 1
    BY <1>3 DEF Types, Received
  <2>2. pkt[1] \in Byte
    BY <1>1, <2>1, ElementOfSeq
  <2>3. pkt[1].code \in 0..7 /\ pkt[1].to \in Interfaces
    BY <2>2 DEF Byte
  <2> QED BY <1>1, <2>1, <2>2, <2>3, Codes DEF sz
<1> QED BY <1>2, <1>3

LEMMA TypesInit == Init => Types
<1> SUFFICES ASSUME Init PROVE Types
  OBVIOUS
<1>1. work \in [Parties -> Nat] /\ transport \in Transports
  BY WorkAssumption DEF Init
<1>2. cur \in Byte /\ need \in 0..16
  BY DEF Init, NoByte, Byte, Interfaces
<1>3. <<>> \in Seq(Byte)
  BY EmptySeq
<1>4. /\ sbuf \in [Interfaces -> Seq(Byte)]
      /\ sent \in [Interfaces -> Seq(Byte)]
      /\ got \in [Interfaces -> Seq(Byte)]
      /\ toDev \in Seq(Byte) /\ toHost \in Seq(Byte) /\ pkt \in Seq(Byte)
  BY <1>3 DEF Init
<1>5. /\ write_lock = "nobody" /\ lpc = "read" /\ pread = 0 /\ wr = 0
      /\ lost \in BOOLEAN
      /\ spc \in [Interfaces -> {"out", "lock", "write", "ended"}]
      /\ written \in [Interfaces -> Nat] /\ nsent \in [Interfaces -> Nat]
      /\ ngot \in [Interfaces -> Nat]
  BY DEF Init
<1> QED BY <1>1, <1>2, <1>4, <1>5 DEF Types, TypeOK, Received

LEMMA TypesSend ==
  ASSUME Types, NEW i \in Interfaces,
         SendLock(i) \/ SendWrite(i) \/ SendWriteLost(i) \/ SendReturn(i)
  PROVE  Types'
<1> USE DEF Types, TypeOK, Received, sz, vars, sendVars, devVars, listenVars
<1>1. CASE SendLock(i)
  BY <1>1 DEF SendLock
<1>2. CASE SendWrite(i)
  <2>1. PICK n \in (IF ShortWrites THEN 1..Len(sbuf[i]) ELSE {Len(sbuf[i])}) :
          /\ toDev' = toDev \o SubSeq(sbuf[i], 1, n)
          /\ written' = [written EXCEPT ![i] = @ + n]
    BY <1>2 DEF SendWrite
  <2>2. sbuf[i] \in Seq(Byte) /\ Len(sbuf[i]) \in Nat
    BY LenProperties
  <2>3. n \in Nat /\ 0 + n <= Len(sbuf[i])
    BY <2>2
  <2>4. SubSeq(sbuf[i], 0 + 1, 0 + n) \in Seq(Byte)
    BY <2>2, <2>3, Piece
  <2>5. toDev' \in Seq(Byte)
    BY <2>1, <2>3, <2>4, ConcatProperties
  <2>6. written' \in [Interfaces -> Nat]
    BY <2>1, <2>3
  <2> QED BY <1>2, <2>5, <2>6 DEF SendWrite
<1>3. CASE SendWriteLost(i)
  BY <1>3 DEF SendWriteLost
<1>4. CASE SendReturn(i)
  BY <1>4 DEF SendReturn
<1> QED BY <1>1, <1>2, <1>3, <1>4

LEMMA TypesCall ==
  ASSUME Types, NEW i \in Interfaces, SendCall(i)
  PROVE  Types'
<1> USE DEF Types, TypeOK, Received, sz, vars, sendVars, devVars, listenVars
<1>1. PICK lens \in Buffers[i] :
        /\ sbuf' = [sbuf EXCEPT ![i] = BufferBytes(i, nsent[i], lens)]
        /\ nsent' = [nsent EXCEPT ![i] = @ + Len(lens)]
  BY DEF SendCall
<1>2. lens \in Seq(PayloadLengths) /\ lens # <<>> /\ Len(lens) \in Nat
  <2>1. lens \in Seq(PayloadLengths) \ {<<>>}
    BY PacketsAssumption
  <2> QED BY <2>1, LenProperties
<1>3. nsent[i] \in Nat
  OBVIOUS
<1>4. BufferBytes(i, nsent[i], lens) \in Seq(Byte)
  BY <1>2, <1>3, BufferCarries
<1>5. sbuf' \in [Interfaces -> Seq(Byte)] /\ nsent' \in [Interfaces -> Nat]
  BY <1>1, <1>2, <1>3, <1>4
<1>6. work' \in [Parties -> Nat]
  BY DEF SendCall, Parties
<1> QED BY <1>5, <1>6 DEF SendCall

LEMMA TypesDevice ==
  ASSUME Types, DeviceTake \/ DeviceSend \/ DeviceLost
  PROVE  Types'
<1> USE DEF Types, TypeOK, Received, sz, vars, sendVars, devVars, listenVars
<1>1. CASE DeviceTake
  <2> DEFINE b == Head(toDev)
             left == IF need = 0 THEN cmd2payload(b.code) ELSE need - 1
  <2>1. b \in Byte /\ toDev' \in Seq(Byte)
    BY <1>1, HeadTailProperties DEF DeviceTake
  <2>2. b.code \in 0..7 /\ b.to \in Interfaces
    BY <2>1 DEF Byte
  <2>3. left \in 0..16
    <3>1. need # 0 => need - 1 \in 0..16
      OBVIOUS
    <3> QED BY <2>2, <3>1, Codes
  <2>4. /\ cur' = b /\ need' = left
        /\ ngot' = IF left = 0 THEN [ngot EXCEPT ![b.to] = @ + 1] ELSE ngot
    BY <1>1 DEF DeviceTake
  <2> HIDE DEF left, b
  <2>5. ngot' \in [Interfaces -> Nat]
    <3> DEFINE i == b.to
    <3>0. ngot \in [Interfaces -> Nat] /\ i \in Interfaces
      BY <2>2
    <3> HIDE DEF i
    <3>1. ngot \in [Interfaces -> Nat] /\ ngot[i] + 1 \in Nat
      BY <3>0
    <3>2. [ngot EXCEPT ![i] = @ + 1] \in [Interfaces -> Nat]
      BY <3>0, <3>1
    <3> QED BY <2>4, <3>0, <3>2 DEF i
  <2> QED BY <1>1, <2>1, <2>3, <2>4, <2>5 DEF DeviceTake
<1>2. CASE DeviceSend
  <2> DEFINE bytes(p) == PacketBytes(p.to, work["device"], p.len)
  <2>1. PICK p \in DevicePackets :
          /\ sent' = [sent EXCEPT ![p.to] = @ \o bytes(p)]
          /\ toHost' = toHost \o bytes(p)
    BY <1>2 DEF DeviceSend
  <2>2. /\ p.to \in Interfaces /\ p.len \in PayloadLengths
        /\ work["device"] \in Nat
    BY PacketsAssumption DEF Parties
  <2>3. bytes(p) \in Seq(Byte)
    BY <2>2, PacketBytesAre
  <2> HIDE DEF bytes
  <2>4. toHost' \in Seq(Byte) /\ sent[p.to] \o bytes(p) \in Seq(Byte)
    BY <2>1, <2>2, <2>3, ConcatProperties
  <2>5. sent' \in [Interfaces -> Seq(Byte)]
    BY <2>1, <2>2, <2>4
  <2>6. work' \in [Parties -> Nat]
    BY <1>2 DEF DeviceSend, Parties
  <2> QED BY <1>2, <2>4, <2>5, <2>6 DEF DeviceSend
<1>3. CASE DeviceLost
  <2>1. PICK n \in 0..Len(toHost) : toHost' = SubSeq(toHost, 1, n)
    BY <1>3 DEF DeviceLost
  <2>2. toHost \in Seq(Byte) /\ n \in Nat /\ 0 + n <= Len(toHost)
    BY LenProperties
  <2>3. SubSeq(toHost, 0 + 1, 0 + n) \in Seq(Byte)
    BY <2>2, Piece
  <2>4. toHost' \in Seq(Byte)
    BY <2>1, <2>2, <2>3
  <2> QED BY <1>3, <2>4 DEF DeviceLost
<1> QED BY <1>1, <1>2, <1>3

LEMMA TypesListen ==
  ASSUME Types, Listen
  PROVE  Types'
<1> USE DEF vars, sendVars, devVars, listenVars
<1>1. CASE ReadHeader
  <2>1. Head(toHost) \in Byte /\ Tail(toHost) \in Seq(Byte)
    BY <1>1, HeadTailProperties DEF ReadHeader, Types, TypeOK
  <2>2. pkt' = <<Head(toHost)>> /\ toHost' = Tail(toHost) /\ lpc' = "rest"
        /\ pread' = 0 /\ wr' = 0
    BY <1>1 DEF ReadHeader
  <2>3. pkt' \in Seq(Byte) /\ Len(pkt') = 1 /\ pkt'[1] = Head(toHost)
    BY <2>1, <2>2
  <2>4. sz' \in 0..16
    <3>1. pkt'[1].code \in 0..7
      BY <2>1, <2>3 DEF Byte
    <3> QED BY <3>1, Codes DEF sz
  <2>5. Received'
    BY <2>2, <2>3, <2>4 DEF Received
  <2>6. toHost' \in Seq(Byte) /\ pread' \in Int /\ pread' \in 0..sz'
    BY <2>1, <2>2, <2>4
  <2>7. TypeOK'
    BY <1>1, <2>2, <2>3, <2>6 DEF ReadHeader, Types, TypeOK
  <2> QED BY <2>5, <2>6, <2>7 DEF Types
<1>2. CASE ReadHeaderLost
  BY <1>2 DEF ReadHeaderLost, Types, TypeOK, Received, sz
<1>3. CASE ReadRest
  <2>1. PICK n \in 1..Len(toHost) :
          /\ n <= sz - pread /\ pread' = pread + n
          /\ pkt' = SubSeq(pkt, 1, 1 + pread) \o SubSeq(toHost, 1, n)
          /\ toHost' = SubSeq(toHost, n + 1, Len(toHost))
    BY <1>3 DEF ReadRest, StillWanted, Store
  <2>2. lpc = "rest" /\ pread >= 0 /\ pread \in 0..sz /\ Len(pkt) = pread + 1
        /\ wr = 0 /\ pread \in Int
    BY <1>3 DEF ReadRest, Types, Received
  <2>3. sz \in 0..16 /\ pkt \in Seq(Byte) /\ pkt[1] \in Byte
    BY <2>2, FirstByte
  <2>4. /\ toHost \in Seq(Byte) /\ Len(toHost) \in Nat /\ n \in Nat
        /\ n <= Len(toHost)
    BY LenProperties DEF Types, TypeOK
  <2> DEFINE x == sz
             p == SubSeq(pkt, 1, 1 + pread)
             q == SubSeq(toHost, 1, n)
  <2>5. /\ pread \in Nat /\ 1 + pread \in Nat /\ 0 + (1 + pread) <= Len(pkt)
        /\ 1 + pread >= 1
    BY <2>2
  <2>6. p \in Seq(Byte) /\ Len(p) = 1 + pread /\ p[1] = pkt[1]
    <3> DEFINE y == 1 + pread
    <3>1. y \in Nat /\ 0 + y <= Len(pkt) /\ 1 \in 1..y
      BY <2>5
    <3> HIDE DEF y
    <3>2. /\ SubSeq(pkt, 0 + 1, 0 + y) \in Seq(Byte)
          /\ Len(SubSeq(pkt, 0 + 1, 0 + y)) = y
          /\ \A k \in 1..y : SubSeq(pkt, 0 + 1, 0 + y)[k] = pkt[0 + k]
      BY <2>3, <3>1, Piece
    <3>3. 0 + 1 = 1 /\ 0 + y = y
      BY <3>1
    <3> QED BY <3>1, <3>2, <3>3 DEF y
  <2>7. q \in Seq(Byte) /\ Len(q) = n
    <3>1. /\ SubSeq(toHost, 0 + 1, 0 + n) \in Seq(Byte)
          /\ Len(SubSeq(toHost, 0 + 1, 0 + n)) = n
      BY <2>4, Piece
    <3> QED BY <2>4, <3>1
  <2>8. /\ pkt' \in Seq(Byte) /\ Len(pkt') = pread' + 1 /\ Len(pkt') >= 1
        /\ pkt'[1] = pkt[1]
    <3>1. /\ p \o q \in Seq(Byte) /\ Len(p \o q) = Len(p) + Len(q)
          /\ \A k \in 1..Len(p) + Len(q) :
               (p \o q)[k] = IF k <= Len(p) THEN p[k] ELSE q[k - Len(p)]
      BY <2>6, <2>7, ConcatProperties
    <3> HIDE DEF p, q
    <3>2. 1 \in 1..Len(p) + Len(q) /\ 1 <= Len(p)
      BY <2>4, <2>5, <2>6, <2>7
    <3>3. pkt' = p \o q
      BY <2>1 DEF p, q
    <3>4. (p \o q)[1] = p[1]
      BY <3>1, <3>2
    <3>5. Len(p) + Len(q) = pread' + 1 /\ Len(p) + Len(q) >= 1
      BY <2>1, <2>4, <2>5, <2>6, <2>7
    <3> QED BY <2>6, <3>1, <3>3, <3>4, <3>5
  <2>9. sz' = sz
    BY <2>8 DEF sz
  <2>10. pread' \in 0..sz'
    <3> HIDE DEF x
    <3>1. x \in Nat /\ n <= x - pread /\ pread' = pread + n
      BY <2>1, <2>3 DEF x
    <3>2. pread' \in 0..x
      BY <2>4, <2>5, <3>1
    <3> QED BY <2>9, <3>2 DEF x
  <2>11. toHost' \in Seq(Byte)
    <3> DEFINE y == Len(toHost) - n
    <3>1. y \in Nat /\ n + y = Len(toHost)
      BY <2>4
    <3> HIDE DEF y
    <3>2. SubSeq(toHost, n + 1, n + y) \in Seq(Byte)
      BY <2>4, <3>1, Piece
    <3> QED BY <2>1, <3>1, <3>2
  <2>12. lpc' = "rest" /\ wr' = 0
    BY <1>3, <2>2 DEF ReadRest
  <2>13. pread' \in Int
    BY <2>1, <2>2, <2>4
  <2>14. Received'
    BY <2>8, <2>10, <2>12 DEF Received
  <2> QED BY <1>3, <2>8, <2>10, <2>11, <2>12, <2>13, <2>14
          DEF ReadRest, Types, TypeOK
<1>4. CASE ReadRestLost
  <2>1. sz \in 0..16 /\ Len(pkt) >= 1
    BY <1>4, FirstByte DEF ReadRestLost
  <2>2. pread' < 0 /\ pread' \in Int
    <3> DEFINE x == sz
    <3>1. x \in 0..16 /\ pread \in 0..(x - 1) /\ pread' = pread + NotAvail
      BY <1>4, <2>1 DEF ReadRestLost
    <3> HIDE DEF x
    <3> QED BY <3>1 DEF NotAvail
  <2>3. sz' = sz /\ pkt' = pkt /\ lost' = lost /\ lost /\ lpc' = "rest"
    BY <1>4 DEF ReadRestLost, sz
  <2>4. Received'
    BY <2>1, <2>2, <2>3 DEF Received
  <2> QED BY <1>4, <2>1, <2>2, <2>3, <2>4 DEF ReadRestLost, Types, TypeOK
<1>5. CASE ReadAll
  <2>1. sz \in 0..16 /\ Len(pkt) >= 1
    BY <1>5, FirstByte DEF ReadAll
  <2>2. sz' = sz /\ pkt' = pkt /\ lpc' = "dispatch" /\ wr' = wr
    BY <1>5 DEF ReadAll, sz
  <2>3. Len(pkt) = sz + 1 /\ wr = 0
    <3> DEFINE x == sz
    <3>1. x \in 0..16 /\ pread >= x /\ pread \in Int
          /\ \/ pread \in 0..x /\ Len(pkt) = pread + 1 /\ wr = 0
             \/ pread < 0 /\ lost
      BY <1>5, <2>1 DEF ReadAll, Types, Received
    <3> HIDE DEF x
    <3>2. Len(pkt) = x + 1 /\ wr = 0
      BY <3>1
    <3> QED BY <3>2 DEF x
  <2>4. Received'
    BY <2>1, <2>2, <2>3 DEF Received
  <2> QED BY <1>5, <2>2, <2>4 DEF ReadAll, Types, TypeOK
<1>6. CASE DispatchMaster
  <2>1. PICK n \in 1..(sz + 1 - wr) :
          /\ got' = [got EXCEPT !["master"] = @ \o SubSeq(pkt, wr + 1, wr + n)]
          /\ wr' = wr + n
          /\ lpc' = IF wr + n = sz + 1 THEN "read" ELSE "dispatch"
    BY <1>6 DEF DispatchMaster
  <2>2. sz \in 0..16 /\ Len(pkt) >= 1 /\ pkt \in Seq(Byte)
    BY <1>6, FirstByte DEF DispatchMaster
  <2>3. sz' = sz /\ pkt' = pkt /\ pkt[1].to = "master"
    BY <1>6 DEF DispatchMaster, sz
  <2>4. Len(pkt) = sz + 1 /\ wr \in 0..sz
    BY <1>6 DEF DispatchMaster, Types, Received
  <2>5. /\ wr \in Nat /\ n \in Nat /\ wr + n <= Len(pkt) /\ wr' \in 0..17
        /\ lpc' = "dispatch" => wr' \in 0..sz
    <3> DEFINE x == sz
    <3>1. /\ x \in 0..16 /\ Len(pkt) = x + 1 /\ wr \in 0..x
          /\ n \in 1..(x + 1 - wr)
          /\ wr' = wr + n
          /\ lpc' = IF wr + n = x + 1 THEN "read" ELSE "dispatch"
      BY <2>1, <2>2, <2>4
    <3> HIDE DEF x
    <3>2. /\ wr \in Nat /\ n \in Nat /\ wr + n <= Len(pkt) /\ wr' \in 0..17
          /\ wr + n # x + 1 => wr' \in 0..x
      BY <3>1
    <3> QED BY <3>1, <3>2 DEF x
  <2>6. SubSeq(pkt, wr + 1, wr + n) \in Seq(Byte)
    BY <2>2, <2>5, Piece
  <2>7. got' \in [Interfaces -> Seq(Byte)]
    <3>1. got \in [Interfaces -> Seq(Byte)] /\ "master" \in Interfaces
      BY DEF Types, TypeOK, Interfaces
    <3>2. got["master"] \o SubSeq(pkt, wr + 1, wr + n) \in Seq(Byte)
      BY <2>6, <3>1, ConcatProperties
    <3> QED BY <2>1, <3>1, <3>2
  <2>8. lpc' \in {"read", "dispatch"}
    BY <2>1
  <2>9. Received'
    BY <2>2, <2>3, <2>4, <2>5, <2>8 DEF Received
  <2> QED BY <1>6, <2>5, <2>7, <2>8, <2>9 DEF DispatchMaster, Types, TypeOK
<1>7. CASE DispatchSlave
  <2>1. sz \in 0..16 /\ Len(pkt) = sz + 1 /\ pkt \in Seq(Byte)
    BY <1>7, FirstByte DEF DispatchSlave, Types, Received
  <2>2. SubSeq(pkt, 1, sz + 1) = pkt
    BY <2>1, SubSeqFull
  <2>3. got' \in [Interfaces -> Seq(Byte)]
    <3>1. got \in [Interfaces -> Seq(Byte)] /\ "slave" \in Interfaces
      BY DEF Types, TypeOK, Interfaces
    <3>2. got["slave"] \o pkt \in Seq(Byte)
      BY <2>1, <3>1, ConcatProperties
    <3> QED BY <1>7, <2>2, <3>1, <3>2 DEF DispatchSlave
  <2>4. lpc' = "read"
    BY <1>7 DEF DispatchSlave
  <2> QED BY <1>7, <2>3, <2>4 DEF DispatchSlave, Types, TypeOK, Received
<1> QED BY <1>1, <1>2, <1>3, <1>4, <1>5, <1>6, <1>7 DEF Listen

LEMMA TypesInvariance == Spec => []Types
<1>1. Types /\ [Next]_vars => Types'
  <2> SUFFICES ASSUME Types, [Next]_vars PROVE Types'
    OBVIOUS
  <2>1. CASE UNCHANGED vars
    BY <2>1 DEF Types, TypeOK, Received, sz, vars, sendVars, devVars, listenVars
  <2>2. ASSUME NEW i \in Interfaces, SendCall(i) \/ Send(i)
        PROVE  Types'
    BY <2>2, TypesCall, TypesSend DEF Send
  <2> QED BY <2>1, <2>2, TypesDevice, TypesListen DEF Next
<1> QED BY <1>1, TypesInit, PTL DEF Spec

\* The variables have their types; flexsoc_listen never reads into what is not
\* pkt[17] unless the device is lost in the middle of a packet
\* (flexsoc.cpp:143-172).
THEOREM TypeCorrect == Spec => []TypeOK
<1>1. Types => TypeOK
  BY DEF Types
<1> QED BY <1>1, TypesInvariance, PTL

-----------------------------------------------------------------------------
(* To the device, when the transport accepts a buffer whole.               *)

Device == [cur |-> cur, need |-> need, ngot |-> ngot]
Pending(i) == spc[i] \in {"lock", "write"} /\ written[i] = 0

\* A buffer is written whole or not yet.
Sending == \A i \in Interfaces :
  /\ spc[i] = "lock" => written[i] = 0
  /\ spc[i] \in {"lock", "write"} => /\ sbuf[i] # <<>>
                                     /\ written[i] \in {0, Len(sbuf[i])}

\* When the device has taken what is on its way it is in state s.  A sender's
\* packets are then received, but those of a buffer that is not yet written,
\* which are the next ones.
Owing(s, i) ==
  \/ spc[i] = "ended"
  \/ Pending(i) /\ Carries(sbuf[i], i, s.ngot[i], nsent[i])
  \/ ~Pending(i) /\ s.ngot[i] = nsent[i]
Framed == \E s \in States : /\ Leads(Taken, toDev, Device, s) /\ s.need = 0
                            /\ \A i \in Interfaces : Owing(s, i)
ToDevice == Types /\ Sending /\ Framed

LEMMA DeviceState == ASSUME Types PROVE Device \in States
BY DEF Types, TypeOK, Device, States

LEMMA ToDeviceInit == Init => ToDevice
<1> SUFFICES ASSUME Init PROVE ToDevice
  OBVIOUS
<1>1. Types
  BY TypesInit
<1>2. Sending
  BY DEF Init, Sending
<1>3. Device \in States
  BY <1>1, DeviceState
<1>4. Leads(Taken, toDev, Device, Device) /\ Device.need = 0
  BY LeadsNowhere DEF Init, Device
<1>5. \A i \in Interfaces : Owing(Device, i)
  BY DEF Init, Owing, Pending, Device
<1> QED BY <1>1, <1>2, <1>3, <1>4, <1>5 DEF ToDevice, Framed

\* A sender whose variables do not change owes what it owed.
LEMMA OwingKept ==
  ASSUME NEW s, NEW i \in Interfaces, Owing(s, i), spc'[i] = spc[i],
         written'[i] = written[i], sbuf'[i] = sbuf[i], nsent'[i] = nsent[i]
  PROVE  Owing(s, i)'
BY DEF Owing, Pending

LEMMA FramedSend ==
  ASSUME ~ShortWrites, ToDevice, Types', NEW i \in Interfaces, SendCall(i) \/ Send(i)
  PROVE  Sending' /\ Framed'
<1>1. PICK s \in States : /\ Leads(Taken, toDev, Device, s) /\ s.need = 0
                          /\ \A j \in Interfaces : Owing(s, j)
  BY DEF ToDevice, Framed
<1>2. /\ spc \in [Interfaces -> {"out", "lock", "write", "ended"}]
      /\ sbuf \in [Interfaces -> Seq(Byte)] /\ written \in [Interfaces -> Nat]
      /\ nsent \in [Interfaces -> Nat] /\ toDev \in Seq(Byte)
      /\ s.ngot \in [Interfaces -> Nat]
  BY DEF ToDevice, Types, TypeOK, States
<1>3. Len(sbuf[i]) \in Nat /\ sbuf[i] \in Seq(Byte)
  BY <1>2, LenProperties
<1>4. CASE SendCall(i)
  <2>1. PICK lens \in Buffers[i] :
          /\ sbuf' = [sbuf EXCEPT ![i] = BufferBytes(i, nsent[i], lens)]
          /\ nsent' = [nsent EXCEPT ![i] = @ + Len(lens)]
    BY <1>4 DEF SendCall
  <2>2. /\ spc[i] = "out" /\ written' = [written EXCEPT ![i] = 0]
        /\ spc' = [spc EXCEPT ![i] = "lock"] /\ UNCHANGED <<toDev, devVars>>
    BY <1>4 DEF SendCall
  <2>3. lens \in Seq(PayloadLengths) /\ lens # <<>>
    BY PacketsAssumption
  <2> DEFINE q == BufferBytes(i, nsent[i], lens)
             n == nsent[i] + Len(lens)
  <2>4. q # <<>> /\ Carries(q, i, nsent[i], n)
    BY <1>2, <2>3, BufferCarries
  <2>5. sbuf'[i] = q /\ nsent'[i] = n /\ spc'[i] = "lock" /\ written'[i] = 0
    BY <1>2, <2>1, <2>2
  <2> HIDE DEF q, n
  <2>6. \A j \in Interfaces \ {i} : /\ spc'[j] = spc[j] /\ written'[j] = written[j]
                                    /\ sbuf'[j] = sbuf[j]
                                    /\ nsent'[j] = nsent[j]
    BY <1>2, <2>1, <2>2
  <2>7. s.ngot[i] = nsent[i]
    BY <1>1, <2>2 DEF Owing, Pending
  <2>8. Owing(s, i)'
    BY <2>4, <2>5, <2>7 DEF Owing, Pending
  <2>9. \A j \in Interfaces \ {i} : Owing(s, j)'
    BY <1>1, <2>6, OwingKept
  <2>10. Sending'
    BY <2>4, <2>5, <2>6 DEF ToDevice, Sending
  <2>11. toDev' = toDev /\ Device' = Device
    BY <2>2 DEF Device, devVars
  <2> QED BY <1>1, <2>8, <2>9, <2>10, <2>11 DEF Framed
<1>5. CASE SendLock(i)
  <2>1. /\ spc[i] = "lock" /\ spc' = [spc EXCEPT ![i] = "write"]
        /\ UNCHANGED <<sbuf, written, nsent, toDev, devVars>>
    BY <1>5 DEF SendLock
  <2>2. spc'[i] = "write" /\ \A j \in Interfaces \ {i} : spc'[j] = spc[j]
    BY <1>2, <2>1
  <2>3. written[i] = 0 /\ sbuf[i] # <<>>
    BY <2>1 DEF ToDevice, Sending
  <2>4. \A j \in Interfaces : Owing(s, j)'
    <3>1. Owing(s, i)'
      BY <1>1, <2>1, <2>2, <2>3 DEF Owing, Pending
    <3> QED BY <1>1, <2>1, <2>2, <3>1, OwingKept
  <2>5. Sending'
    BY <2>1, <2>2, <2>3 DEF ToDevice, Sending
  <2>6. toDev' = toDev /\ Device' = Device
    BY <2>1 DEF Device, devVars
  <2> QED BY <1>1, <2>4, <2>5, <2>6 DEF Framed
<1>6. CASE SendWrite(i)
  <2>1. /\ spc[i] = "write" /\ written[i] < Len(sbuf[i])
        /\ UNCHANGED <<spc, sbuf, nsent, devVars>>
        /\ toDev' = toDev \o SubSeq(sbuf[i], 1, Len(sbuf[i]))
        /\ written' = [written EXCEPT ![i] = @ + Len(sbuf[i])]
    BY <1>6 DEF SendWrite
  <2>2. written[i] = 0
    BY <1>3, <2>1 DEF ToDevice, Sending
  <2>3. toDev' = toDev \o sbuf[i]
    BY <1>3, <2>1, SubSeqFull
  <2>4. /\ written'[i] = Len(sbuf[i]) /\ Len(sbuf[i]) > 0
        /\ \A j \in Interfaces \ {i} : written'[j] = written[j]
    BY <1>2, <1>3, <2>1, <2>2
  <2>5. Carries(sbuf[i], i, s.ngot[i], nsent[i])
    BY <1>1, <2>1, <2>2 DEF Owing, Pending
  <2>6. PICK t \in States : /\ Leads(Taken, sbuf[i], s, t) /\ t.need = 0
                            /\ t.ngot = [s.ngot EXCEPT ![i] = nsent[i]]
    BY <1>1, <2>5 DEF Carries
  <2>7. Leads(Taken, toDev', Device, t)
    BY <1>1, <1>2, <1>3, <2>3, <2>6, LeadsOn
  <2>8. /\ t.ngot[i] = nsent[i]
        /\ \A j \in Interfaces \ {i} : t.ngot[j] = s.ngot[j]
    BY <1>2, <2>6
  <2>9. Owing(t, i)'
    <3>1. written'[i] # 0
      BY <1>3, <2>4
    <3> QED BY <2>1, <2>8, <3>1 DEF Owing, Pending
  <2>10. ASSUME NEW j \in Interfaces \ {i} PROVE Owing(t, j)'
    <3>1. Owing(t, j)
      BY <1>1, <2>8 DEF Owing
    <3> QED BY <2>1, <2>4, <3>1, OwingKept
  <2>11. Sending'
    BY <2>1, <2>4 DEF ToDevice, Sending
  <2>12. Device' = Device
    BY <2>1 DEF Device, devVars
  <2> QED BY <2>6, <2>7, <2>9, <2>10, <2>11, <2>12 DEF Framed
<1>7. CASE SendWriteLost(i)
  <2>1. /\ spc' = [t \in Interfaces |-> "ended"]
        /\ UNCHANGED <<toDev, devVars>>
    BY <1>7 DEF SendWriteLost
  <2>2. Sending' /\ \A j \in Interfaces : Owing(s, j)'
    BY <2>1 DEF Sending, Owing
  <2>3. toDev' = toDev /\ Device' = Device
    BY <2>1 DEF Device, devVars
  <2> QED BY <1>1, <2>2, <2>3 DEF Framed
<1>8. CASE SendReturn(i)
  <2>1. /\ spc[i] = "write" /\ written[i] >= Len(sbuf[i])
        /\ spc' = [spc EXCEPT ![i] = "out"]
        /\ UNCHANGED <<sbuf, written, nsent, toDev, devVars>>
    BY <1>8 DEF SendReturn
  <2>2. spc'[i] = "out" /\ \A j \in Interfaces \ {i} : spc'[j] = spc[j]
    BY <1>2, <2>1
  <2>3. written[i] # 0
    <3>1. sbuf[i] # <<>>
      BY <2>1 DEF ToDevice, Sending
    <3>2. Len(sbuf[i]) \in Nat \ {0}
      BY <1>3, <3>1, EmptySeq
    <3> QED BY <2>1, <3>2
  <2>4. s.ngot[i] = nsent[i]
    BY <1>1, <2>1, <2>3 DEF Owing, Pending
  <2>5. Owing(s, i)'
    BY <2>1, <2>2, <2>4 DEF Owing, Pending
  <2>6. \A j \in Interfaces \ {i} : Owing(s, j)'
    BY <1>1, <2>1, <2>2, OwingKept
  <2>7. Sending'
    BY <2>1, <2>2 DEF ToDevice, Sending
  <2>8. toDev' = toDev /\ Device' = Device
    BY <2>1 DEF Device, devVars
  <2> QED BY <1>1, <2>5, <2>6, <2>7, <2>8 DEF Framed
<1> QED BY <1>4, <1>5, <1>6, <1>7, <1>8 DEF Send

LEMMA FramedTake ==
  ASSUME ToDevice, DeviceTake
  PROVE  Sending' /\ Framed'
<1>1. PICK s \in States : /\ Leads(Taken, toDev, Device, s) /\ s.need = 0
                          /\ \A j \in Interfaces : Owing(s, j)
  BY DEF ToDevice, Framed
<1>2. toDev \in Seq(Byte) /\ toDev # <<>> /\ toDev' = Tail(toDev)
      /\ UNCHANGED sendVars
  BY DEF ToDevice, Types, TypeOK, DeviceTake
<1>3. PICK u : /\ <<Device, Head(toDev), u>> \in Taken
               /\ Leads(Taken, Tail(toDev), u, s)
  BY <1>1, <1>2, LeadsHead
<1>4. u = After(Device, Head(toDev))
  BY <1>3 DEF Taken
<1>5. u = Device'
  BY <1>4 DEF After, Left, Device, DeviceTake
<1>6. Sending' /\ \A j \in Interfaces : Owing(s, j)'
  <2>1. UNCHANGED <<spc, sbuf, written, nsent>>
    BY <1>2 DEF sendVars
  <2>2. Sending'
    BY <2>1 DEF ToDevice, Sending
  <2> QED BY <1>1, <2>1, <2>2, OwingKept
<1> QED BY <1>1, <1>2, <1>3, <1>5, <1>6 DEF Framed

LEMMA FramedOther ==
  ASSUME ToDevice, DeviceSend \/ DeviceLost \/ Listen \/ UNCHANGED vars
  PROVE  Sending' /\ Framed'
<1>1. UNCHANGED <<sendVars, toDev, devVars>>
  BY DEF DeviceSend, DeviceLost, Listen, ReadHeader, ReadHeaderLost, ReadRest,
         ReadRestLost, ReadAll, DispatchMaster, DispatchSlave, vars
<1>2. UNCHANGED <<spc, sbuf, written, nsent, toDev, cur, need, ngot>>
  BY <1>1 DEF sendVars, devVars
<1>3. PICK s \in States : /\ Leads(Taken, toDev, Device, s) /\ s.need = 0
                          /\ \A j \in Interfaces : Owing(s, j)
  BY DEF ToDevice, Framed
<1>4. \A j \in Interfaces : Owing(s, j)'
  BY <1>2, <1>3, OwingKept
<1>5. Sending'
  BY <1>2 DEF ToDevice, Sending
<1>6. Device' = Device /\ toDev' = toDev
  BY <1>2 DEF Device
<1> QED BY <1>3, <1>4, <1>5, <1>6 DEF Framed

\* Whatever sends: where the device expects a header it finds that of its sender's
\* next packet, where it expects payload the next byte (flexsoc.cpp:208-228).
THEOREM InStep == ~ShortWrites => (Spec => []FramesIntact)
<1> SUFFICES ASSUME ~ShortWrites PROVE Spec => []FramesIntact
  OBVIOUS
<1>1. ToDevice /\ Types' /\ [Next]_vars => ToDevice'
  BY FramedSend, FramedTake, FramedOther DEF Next, ToDevice
<1>2. ToDevice => FramesIntact
  <2> SUFFICES ASSUME ToDevice, toDev # <<>>
               PROVE  Good(Device, Head(toDev))
    BY DEF FramesIntact, Good, Following, Device
  <2>1. PICK s \in States : Leads(Taken, toDev, Device, s)
    BY DEF ToDevice, Framed
  <2>2. toDev \in Seq(Byte)
    BY DEF ToDevice, Types, TypeOK
  <2>3. PICK u : <<Device, Head(toDev), u>> \in Taken
    BY <2>1, <2>2, LeadsHead
  <2> QED BY <2>3 DEF Taken
<1> QED BY <1>1, <1>2, ToDeviceInit, TypesInvariance, PTL DEF Spec

-----------------------------------------------------------------------------
(* To the host.                                                            *)

\* All that was sent before is where it was.
Extends(c, d) == \A i \in Interfaces :
  /\ Len(c[i]) <= Len(d[i])
  /\ \A k \in 1..Len(c[i]) : d[i][k] = c[i][k]

LEMMA HeardMore ==
  ASSUME NEW c \in [Interfaces -> Seq(Byte)], NEW d \in [Interfaces -> Seq(Byte)],
         Extends(c, d)
  PROVE  Heard(c) \subseteq Heard(d)
<1> SUFFICES ASSUME NEW r \in Listeners, NEW b \in Byte, Awaited(c, r, b)
             PROVE  Awaited(d, r, b)
  BY DEF Heard
<1> DEFINE i == b.to
           a == r.at[i]
<1>1. i \in Interfaces /\ a \in Nat
  BY DEF Byte, Listeners
<1>2. a < Len(c[i]) /\ b = c[i][a + 1] /\ (r.need # 0 => i = r.to)
  BY DEF Awaited
<1>3. Len(c[i]) <= Len(d[i]) /\ \A k \in 1..Len(c[i]) : d[i][k] = c[i][k]
  BY <1>1 DEF Extends
<1>4. Len(c[i]) \in Nat /\ Len(d[i]) \in Nat
  BY <1>1, LenProperties
<1> HIDE DEF a
<1>5. a + 1 \in 1..Len(c[i]) /\ a < Len(d[i])
  BY <1>1, <1>2, <1>3, <1>4
<1>6. b = d[i][a + 1]
  BY <1>2, <1>3, <1>5
<1> QED BY <1>2, <1>5, <1>6 DEF Awaited, a

\* A piece of the rest of a packet.
LEMMA PieceHeard ==
  ASSUME NEW c, NEW h \in Listeners, NEW u, NEW p \in Seq(Byte),
         Leads(Heard(c), p, h, u), Len(p) <= h.need, p # <<>>
  PROVE  /\ u \in Listeners /\ u.need = h.need - Len(p) /\ u.to = h.to
         /\ u.at = [h.at EXCEPT ![h.to] = @ + Len(p)]
         /\ \A k \in 1..Len(p) : /\ h.at[h.to] + k <= Len(c[h.to])
                                 /\ p[k] = c[h.to][h.at[h.to] + k]
<1>1. PICK f : /\ f[0] = h /\ f[Len(p)] = u
               /\ \A k \in 1..Len(p) : <<f[k - 1], p[k], f[k]>> \in Heard(c)
  BY DEF Leads
<1> DEFINE n == Len(p)
           m == h.need
           i == h.to
           a == h.at[i]
           Here(k) == f[k] = [need |-> m - k, to |-> i,
                              at |-> [h.at EXCEPT ![i] = a + k]]
           T == {k \in 1..n : ~Here(k)}
<1>2. /\ n \in Nat /\ n # 0 /\ m \in 0..16 /\ n <= m
      /\ i \in Interfaces /\ a \in Nat /\ h.at \in [Interfaces -> Nat]
  BY EmptySeq DEF Listeners
<1>3. h.need = m /\ h.to = i /\ h.at[i] = a
  OBVIOUS
<1>4. ASSUME NEW k \in 1..n
      PROVE  /\ f[k - 1] \in Listeners /\ f[k] \in Listeners /\ p[k] \in Byte
             /\ Awaited(c, f[k - 1], p[k]) /\ f[k] = Past(f[k - 1], p[k])
  BY <1>1 DEF Heard
<1> HIDE DEF n, m, i, a
\* The byte after one that was awaited there.
<1>5. ASSUME NEW k \in 1..n, NEW r, r.need = m - (k - 1), r.to = i,
             r.at = [h.at EXCEPT ![i] = a + (k - 1)], f[k - 1] = r
      PROVE  /\ Here(k) /\ a + k <= Len(c[i]) /\ p[k] = c[i][a + k]
  <2>1. r.need # 0 /\ r.need - 1 = m - k /\ (a + (k - 1)) + 1 = a + k
    BY <1>2, <1>5, SMTT(30)
  <2>2. r.at[i] = a + (k - 1)
    BY <1>2, <1>5
  <2>3. p[k].to = i /\ r.at[i] < Len(c[i]) /\ p[k] = c[i][r.at[i] + 1]
    BY <1>4, <1>5, <2>1 DEF Awaited
  <2>4. f[k] = [need |-> r.need - 1, to |-> i, at |-> [r.at EXCEPT ![i] = @ + 1]]
    BY <1>4, <1>5, <2>1, <2>3 DEF Past
  <2>5. [r.at EXCEPT ![i] = @ + 1] = [h.at EXCEPT ![i] = a + k]
    BY <1>2, <1>5, <2>1, <2>2
  <2>6. Here(k)
    BY <2>1, <2>4, <2>5
  <2>7. p[k] = c[i][a + k]
    BY <2>1, <2>2, <2>3
  <2>8. a + k <= Len(c[i])
    <3> DEFINE l == Len(c[i])
    <3>1. a + (k - 1) < l
      BY <2>2, <2>3
    <3> HIDE DEF l
    <3> QED BY <1>2, <3>1 DEF l
  <2> QED BY <2>6, <2>7, <2>8
<1>6. ASSUME NEW k \in 1..n, k = 1 \/ Here(k - 1)
      PROVE  /\ Here(k) /\ a + k <= Len(c[i]) /\ p[k] = c[i][a + k]
  <2>1. CASE k = 1
    <3>1. f[k - 1] = h /\ h.need = m - (k - 1) /\ a + (k - 1) = a
      BY <1>1, <1>2, <1>3, <2>1
    <3>2. h.at = [h.at EXCEPT ![i] = a + (k - 1)]
      BY <1>2, <1>3, <3>1
    <3> HIDE DEF Here
    <3> QED BY <1>3, <1>5, <3>1, <3>2
  <2>2. CASE k # 1 /\ Here(k - 1)
    <3> DEFINE r == f[k - 1]
    <3>1. /\ r.need = m - (k - 1) /\ r.to = i
          /\ r.at = [h.at EXCEPT ![i] = a + (k - 1)]
      BY <2>2
    <3> HIDE DEF r, Here
    <3> QED BY <1>5, <3>1 DEF r
  <2> QED BY <1>6, <2>1, <2>2
<1>7. T = {}
  <2>1. T \in SUBSET Nat
    <3> HIDE DEF Here
    <3> QED BY <1>2
  <2>2. ASSUME NEW x \in T, \A y \in T : x <= y PROVE FALSE
    <3> HIDE DEF Here
    <3>1. x \in 1..n /\ ~Here(x)
      OBVIOUS
    <3>2. x # 1 => x - 1 \in 1..n /\ ~(x <= x - 1)
      BY <1>2, <3>1
    <3>3. x = 1 \/ Here(x - 1)
      BY <2>2, <3>2
    <3> QED BY <1>6, <3>1, <3>3
  <2> HIDE DEF T
  <2> QED BY <2>1, <2>2, Least
<1>8. ASSUME NEW k \in 1..n
      PROVE  /\ Here(k) /\ a + k <= Len(c[i]) /\ p[k] = c[i][a + k]
  <2> HIDE DEF Here
  <2>1. k = 1 \/ k - 1 \in 1..n
    BY <1>2
  <2>2. k = 1 \/ Here(k - 1)
    BY <1>7, <2>1
  <2> QED BY <1>6, <2>2
<1>9. n \in 1..n
  BY <1>2
<1>10. /\ u \in Listeners /\ u.need = m - n /\ u.to = i
       /\ u.at = [h.at EXCEPT ![i] = a + n]
  <2>1. f[n] = [need |-> m - n, to |-> i, at |-> [h.at EXCEPT ![i] = a + n]]
    BY <1>8, <1>9
  <2>2. u = f[n] /\ u \in Listeners
    BY <1>1, <1>4, <1>9 DEF n
  <2> QED BY <2>1, <2>2
<1>11. [h.at EXCEPT ![i] = a + n] = [h.at EXCEPT ![i] = @ + n]
  BY <1>2, <1>3
<1> QED BY <1>8, <1>10, <1>11 DEF n, m, i, a

\* What flexsoc_listen has taken and not yet dispatched: all of pkt but the wr
\* bytes that mbuf has.
Packet == \/ lpc = "rest" /\ pread >= 0
          \/ lpc = "dispatch"
Ahead(i) == IF Packet /\ i = pkt[1].to THEN Len(pkt) - wr ELSE 0
OutOfStep == lpc = "ended" \/ (lpc = "rest" /\ pread < 0)

\* h is how far flexsoc_listen has come; what is on its way leads from there to
\* the end of all that was sent, unless the device is lost.
Place(h) ==
  /\ \A i \in Interfaces : h.at[i] = Len(got[i]) + Ahead(i)
  /\ h.need = IF lpc = "rest" THEN sz - pread ELSE 0
  /\ h.need # 0 => h.to = pkt[1].to
AllHeard(s) == /\ s \in Listeners /\ s.need = 0
               /\ \A i \in Interfaces : s.at[i] = Len(sent[i])
Listening == \E h \in Listeners : \E s :
  Leads(Heard(sent), toHost, h, s) /\ Place(h) /\ (lost \/ AllHeard(s))

\* pkt holds what follows what was dispatched.
Held(i) == \A k \in 1..(Len(pkt) - wr) :
  /\ Len(got[i]) + k <= Len(sent[i])
  /\ pkt[wr + k] = sent[i][Len(got[i]) + k]
Holding == Packet => Held(pkt[1].to)

ToHost == Types /\ Extends(got, sent) /\ Holding /\ (OutOfStep \/ Listening)

LEMMA ToHostInit == Init => ToHost
<1> SUFFICES ASSUME Init PROVE ToHost
  OBVIOUS
<1>1. Types
  BY TypesInit
<1>2. Extends(got, sent)
  BY DEF Init, Extends
<1>3. Holding
  BY DEF Init, Holding, Packet
<1> DEFINE h == [need |-> 0, to |-> "master", at |-> [i \in Interfaces |-> 0]]
<1>4. h \in Listeners /\ h.need = 0 /\ \A i \in Interfaces : h.at[i] = 0
  BY DEF Listeners, Interfaces
<1>5. Leads(Heard(sent), toHost, h, h)
  BY LeadsNowhere DEF Init
<1> HIDE DEF h
<1>6. Place(h) /\ AllHeard(h)
  BY <1>4 DEF Init, Place, AllHeard, Ahead, Packet
<1> QED BY <1>1, <1>2, <1>3, <1>4, <1>5, <1>6 DEF ToHost, Listening

\* The threads that send have no part in it.
LEMMA HostOther ==
  ASSUME ToHost, UNCHANGED <<sent, lost, toHost, listenVars>>
  PROVE  Extends(got, sent)' /\ Holding' /\ (OutOfStep \/ Listening)'
<1>1. UNCHANGED <<sent, lost, toHost, lpc, pkt, pread, wr, got>>
  BY DEF listenVars
<1>2. \A i \in Interfaces : (Ahead(i))' = Ahead(i)
  BY <1>1 DEF Ahead, Packet
<1>3. \A h : Place(h) => (Place(h))'
  BY <1>1, <1>2 DEF Place, sz
<1>4. \A s : AllHeard(s) => (AllHeard(s))'
  BY <1>1 DEF AllHeard
<1>5. Listening => Listening'
  BY <1>1, <1>3, <1>4 DEF Listening
<1>6. OutOfStep => OutOfStep'
  BY <1>1 DEF OutOfStep
<1>7. Holding'
  BY <1>1 DEF ToHost, Holding, Packet, Held
<1>8. Extends(got, sent)'
  BY <1>1 DEF ToHost
<1> QED BY <1>5, <1>6, <1>7, <1>8 DEF ToHost

\* flexsoc_listen has ended, or adds DEVICE_NOTAVAIL for ever.
LEMMA HostEnds ==
  ASSUME ToHost, Types', UNCHANGED <<sent, got>>, OutOfStep'
  PROVE  Extends(got, sent)' /\ Holding' /\ (OutOfStep \/ Listening)'
<1>1. ~Packet'
  <2>1. CASE lpc' = "ended"
    BY <2>1 DEF Packet
  <2>2. CASE lpc' = "rest" /\ pread' < 0
    <3>1. pread' \in Int
      BY DEF Types
    <3>2. ~(pread' >= 0)
      BY <2>2, <3>1
    <3> QED BY <2>2, <3>2 DEF Packet
  <2> QED BY <2>1, <2>2 DEF OutOfStep
<1> QED BY <1>1 DEF ToHost, Holding

LEMMA HostSent ==
  ASSUME ToHost, Types', DeviceSend
  PROVE  Extends(got, sent)' /\ Holding' /\ (OutOfStep \/ Listening)'
<1> DEFINE n == work["device"]
           bytes(p) == PacketBytes(p.to, n, p.len)
<1>1. PICK p \in DevicePackets :
        /\ sent' = [sent EXCEPT ![p.to] = @ \o bytes(p)]
        /\ toHost' = toHost \o bytes(p)
  BY DEF DeviceSend
<1> DEFINE i == p.to
           q == bytes(p)
<1>2. i \in Interfaces /\ p.len \in PayloadLengths /\ n \in Nat
  BY PacketsAssumption DEF ToHost, Types, TypeOK, Parties
<1>3. q \in Seq(Byte)
  BY <1>2, PacketBytesAre
<1>4. /\ sent \in [Interfaces -> Seq(Byte)]
      /\ sent' \in [Interfaces -> Seq(Byte)]
      /\ got \in [Interfaces -> Seq(Byte)] /\ toHost \in Seq(Byte)
  BY DEF ToHost, Types, TypeOK
<1>5. UNCHANGED <<lost, listenVars, lpc, pkt, pread, wr, got>> /\ ~lost
  BY DEF DeviceSend, listenVars
<1>6. sent' = [sent EXCEPT ![i] = @ \o q] /\ toHost' = toHost \o q
  BY <1>1
<1>7. q = PacketBytes(i, n, p.len)
  OBVIOUS
<1> HIDE DEF bytes, i, q, n
<1>8. sent'[i] = sent[i] \o q /\ \A j \in Interfaces \ {i} : sent'[j] = sent[j]
  BY <1>2, <1>4, <1>6
<1>9. Extends(sent, sent')
  <2>1. /\ Len(sent[i] \o q) = Len(sent[i]) + Len(q)
        /\ \A k \in 1..Len(sent[i]) + Len(q) :
             (sent[i] \o q)[k] =
               IF k <= Len(sent[i]) THEN sent[i][k] ELSE q[k - Len(sent[i])]
    BY <1>2, <1>3, <1>4, ConcatProperties
  <2>2. Len(sent[i]) \in Nat /\ Len(q) \in Nat
    BY <1>2, <1>3, <1>4, LenProperties
  <2>3. /\ Len(sent[i]) <= Len(sent'[i])
        /\ \A k \in 1..Len(sent[i]) : sent'[i][k] = sent[i][k]
    <3> DEFINE l == Len(sent[i])
    <3>1. /\ l \in Nat /\ l <= l + Len(q)
          /\ \A k \in 1..l : k \in 1..l + Len(q) /\ k <= l
      BY <2>2
    <3> HIDE DEF l
    <3>2. \A k \in 1..l : (sent[i] \o q)[k] = sent[i][k]
      BY <2>1, <3>1 DEF l
    <3>3. l <= Len(sent'[i])
      BY <1>8, <2>1, <3>1 DEF l
    <3> QED BY <1>8, <3>2, <3>3 DEF l
  <2>4. ASSUME NEW j \in Interfaces \ {i}
        PROVE  /\ Len(sent[j]) <= Len(sent'[j])
               /\ \A k \in 1..Len(sent[j]) : sent'[j][k] = sent[j][k]
    <3>1. Len(sent[j]) \in Nat /\ sent'[j] = sent[j]
      BY <1>4, <1>8, LenProperties
    <3> QED BY <3>1
  <2> QED BY <2>3, <2>4 DEF Extends
<1>10. \A j \in Interfaces : /\ Len(sent[j]) \in Nat /\ Len(sent'[j]) \in Nat
                             /\ Len(got[j]) \in Nat
  BY <1>4, LenProperties
<1>11. Extends(got, sent')
  <2> SUFFICES ASSUME NEW j \in Interfaces
               PROVE  /\ Len(got[j]) <= Len(sent'[j])
                      /\ \A k \in 1..Len(got[j]) : sent'[j][k] = got[j][k]
    BY DEF Extends
  <2>1. /\ Len(got[j]) <= Len(sent[j]) /\ Len(sent[j]) <= Len(sent'[j])
        /\ \A k \in 1..Len(got[j]) : sent[j][k] = got[j][k]
        /\ \A k \in 1..Len(sent[j]) : sent'[j][k] = sent[j][k]
    BY <1>9 DEF ToHost, Extends
  <2>2. \A k \in 1..Len(got[j]) : k \in 1..Len(sent[j])
    BY <1>10, <2>1
  <2>3. Len(got[j]) <= Len(sent'[j])
    BY <1>10, <2>1
  <2> QED BY <2>1, <2>2, <2>3
<1>12. Holding'
  <2> SUFFICES ASSUME Packet PROVE Held(pkt[1].to)'
    BY <1>5 DEF Holding, Packet
  <2> DEFINE j == pkt[1].to
             a == Len(got[j])
  <2>1. j \in Interfaces /\ Held(j)
    BY FirstByte DEF ToHost, Holding, Packet
  <2> HIDE DEF j
  <2>2. a \in Nat /\ Len(sent[j]) \in Nat /\ Len(sent'[j]) \in Nat
    BY <1>10, <2>1
  <2>3. ASSUME NEW k \in 1..(Len(pkt) - wr)
        PROVE  a + k <= Len(sent'[j]) /\ pkt[wr + k] = sent'[j][a + k]
    <3>1. a + k <= Len(sent[j]) /\ pkt[wr + k] = sent[j][a + k]
      BY <2>1 DEF Held
    <3> HIDE DEF a
    <3>2. a + k \in 1..Len(sent[j])
      BY <2>2, <3>1
    <3>3. Len(sent[j]) <= Len(sent'[j]) /\ sent'[j][a + k] = sent[j][a + k]
      BY <1>9, <2>1, <3>2 DEF Extends
    <3>4. a + k <= Len(sent'[j])
      BY <2>2, <3>1, <3>3
    <3> QED BY <3>1, <3>3, <3>4
  <2>4. Held(j)'
    BY <1>5, <2>3 DEF Held, j
  <2> QED BY <2>4, <1>5 DEF j
<1>13. OutOfStep => OutOfStep'
  BY <1>5 DEF OutOfStep
<1>14. Listening => Listening'
  <2> SUFFICES ASSUME Listening PROVE Listening'
    OBVIOUS
  <2>1. PICK h, s : /\ h \in Listeners /\ Place(h)
                    /\ Leads(Heard(sent), toHost, h, s)
                    /\ AllHeard(s)
    BY <1>5 DEF Listening
  <2>2. s \in Listeners /\ s.need = 0 /\ s.at[i] = Len(sent[i])
    BY <1>2, <2>1 DEF AllHeard
  <2>3. PICK t \in Listeners :
          /\ Leads(Heard(sent'), q, s, t) /\ t.need = 0
          /\ t.at = [s.at EXCEPT ![i] = Len(sent'[i])]
    <3> DEFINE old == sent[i]
               new == sent'
               len == p.len
    <3>1. /\ old \in Seq(Byte) /\ new[i] = old \o PacketBytes(i, n, len)
          /\ s.at[i] = Len(old) /\ len \in PayloadLengths
      BY <1>2, <1>4, <1>7, <1>8, <2>2
    <3> HIDE DEF old, new, len
    <3>2. Hears(new, PacketBytes(i, n, len), i, s)
      BY <1>2, <2>2, <3>1, PacketHeard
    <3> QED BY <1>7, <3>2 DEF Hears, new, len
  <2>4. Leads(Heard(sent'), toHost, h, s)
    BY <1>4, <1>9, <2>1, HeardMore, LeadsMore
  <2>5. Leads(Heard(sent'), toHost', h, t)
    BY <1>3, <1>4, <1>6, <2>3, <2>4, LeadsOn
  <2>6. AllHeard(t)'
    <3>1. s.at \in [Interfaces -> Nat]
      BY <2>2 DEF Listeners
    <3>2. \A j \in Interfaces : t.at[j] = Len(sent'[j])
      BY <1>2, <1>8, <2>1, <2>3, <3>1 DEF AllHeard
    <3> QED BY <2>3, <3>2 DEF AllHeard
  <2>7. Place(h)'
    BY <1>5, <2>1 DEF Place, Ahead, Packet, sz
  <2> QED BY <2>1, <2>5, <2>6, <2>7 DEF Listening
<1>15. Extends(got, sent)'
  BY <1>5, <1>11
<1> QED BY <1>12, <1>13, <1>14, <1>15 DEF ToHost

LEMMA HostLost ==
  ASSUME ToHost, DeviceLost
  PROVE  Extends(got, sent)' /\ Holding' /\ (OutOfStep \/ Listening)'
<1>1. PICK n \in 0..Len(toHost) : toHost' = SubSeq(toHost, 1, n)
  BY DEF DeviceLost
<1>2. lost' /\ UNCHANGED <<sent, lpc, pkt, pread, wr, got>>
  BY DEF DeviceLost, listenVars
<1>3. Extends(got, sent)' /\ Holding'
  BY <1>2 DEF ToHost, Holding, Packet, Held
<1>4. OutOfStep => OutOfStep'
  BY <1>2 DEF OutOfStep
<1>5. Listening => Listening'
  <2> SUFFICES ASSUME Listening PROVE Listening'
    OBVIOUS
  <2>1. PICK h, s : /\ h \in Listeners /\ Place(h)
                    /\ Leads(Heard(sent), toHost, h, s)
    BY DEF Listening
  <2>2. toHost \in Seq(Byte)
    BY DEF ToHost, Types, TypeOK
  <2>3. PICK u : Leads(Heard(sent), SubSeq(toHost, 1, n), h, u)
    BY <2>1, <2>2, LeadsSplit
  <2>4. Place(h)'
    BY <1>2, <2>1 DEF Place, Ahead, Packet, sz
  <2> QED BY <1>1, <1>2, <2>1, <2>3, <2>4 DEF Listening
<1> QED BY <1>3, <1>4, <1>5 DEF ToHost

LEMMA HostHeader ==
  ASSUME ToHost, ReadHeader
  PROVE  Extends(got, sent)' /\ Holding' /\ (OutOfStep \/ Listening)'
<1>1. /\ lpc = "read" /\ toHost # <<>> /\ pkt' = <<Head(toHost)>>
      /\ toHost' = Tail(toHost) /\ pread' = 0 /\ wr' = 0 /\ lpc' = "rest"
      /\ UNCHANGED <<sent, lost, got>>
  BY DEF ReadHeader
<1>2. /\ toHost \in Seq(Byte) /\ sent \in [Interfaces -> Seq(Byte)]
      /\ got \in [Interfaces -> Seq(Byte)]
  BY DEF ToHost, Types, TypeOK
<1>3. PICK h, s : /\ h \in Listeners /\ Place(h)
                  /\ Leads(Heard(sent), toHost, h, s)
                  /\ lost \/ AllHeard(s)
  BY <1>1 DEF ToHost, OutOfStep, Listening
<1> DEFINE b == Head(toHost)
           i == b.to
<1>4. PICK u : /\ <<h, b, u>> \in Heard(sent)
               /\ Leads(Heard(sent), Tail(toHost), u, s)
  BY <1>1, <1>2, <1>3, LeadsHead
<1>5. /\ b \in Byte /\ u \in Listeners /\ Awaited(sent, h, b) /\ u = Past(h, b)
      /\ i \in Interfaces
  BY <1>4 DEF Heard, Byte
<1>6. h.need = 0 /\ \A j \in Interfaces : h.at[j] = Len(got[j])
  <2>1. \A j \in Interfaces : Ahead(j) = 0 /\ Len(got[j]) \in Nat
    BY <1>1, <1>2, LenProperties DEF Ahead, Packet
  <2>2. \A j \in Interfaces : h.at[j] = Len(got[j]) + 0
    BY <1>3, <2>1 DEF Place
  <2> QED BY <1>1, <1>3, <2>1, <2>2 DEF Place
<1>7. /\ pkt'[1] = b /\ Len(pkt') = 1 /\ Len(pkt') - wr' = 1
      /\ sz' = cmd2payload(b.code)
  BY <1>1 DEF sz
<1>8. Packet' /\ ~OutOfStep'
  BY <1>1 DEF Packet, OutOfStep
<1>9. Holding'
  <2>1. Len(got[i]) < Len(sent[i]) /\ b = sent[i][Len(got[i]) + 1]
    BY <1>5, <1>6 DEF Awaited
  <2>2. Len(got[i]) \in Nat /\ Len(sent[i]) \in Nat
    BY <1>2, <1>5, LenProperties
  <2>3. Len(got[i]) + 1 <= Len(sent[i])
    BY <2>1, <2>2
  <2>4. pkt'[1].to = i /\ got' = got /\ sent' = sent
    BY <1>1, <1>7
  <2> HIDE DEF b, i
  <2>5. ASSUME NEW k \in 1..1
        PROVE  /\ Len(got[i]) + k <= Len(sent[i])
               /\ pkt'[wr' + k] = sent[i][Len(got[i]) + k]
    <3>1. k = 1 /\ wr' + k = 1
      BY <1>1
    <3> QED BY <1>7, <2>1, <2>3, <3>1
  <2> QED BY <1>7, <2>4, <2>5 DEF Holding, Held
<1>10. Place(u)'
  <2>1. /\ u.need = cmd2payload(b.code) /\ u.to = i
        /\ u.at = [h.at EXCEPT ![i] = @ + 1]
    BY <1>5, <1>6 DEF Past
  <2>2. h.at \in [Interfaces -> Nat]
    BY <1>3 DEF Listeners
  <2>3. \A j \in Interfaces : (Ahead(j))' = IF j = i THEN 1 ELSE 0
    BY <1>7, <1>8 DEF Ahead
  <2> HIDE DEF b, i
  <2>4. ASSUME NEW j \in Interfaces PROVE u.at[j] = Len(got'[j]) + (Ahead(j))'
    <3>1. Len(got[j]) \in Nat /\ got' = got
      BY <1>1, <1>2, LenProperties
    <3>2. CASE j = i
      BY <1>5, <1>6, <2>1, <2>2, <2>3, <3>1, <3>2
    <3>3. CASE j # i
      <4>1. u.at[j] = Len(got[j]) /\ (Ahead(j))' = 0
        BY <1>6, <2>1, <2>2, <2>3, <3>3
      <4> QED BY <3>1, <4>1
    <3> QED BY <3>2, <3>3
  <2>5. u.need = sz' - pread'
    <3>1. sz' = u.need /\ u.need \in 0..16
      BY <1>5, <1>7, <2>1 DEF Listeners
    <3> QED BY <1>1, <3>1
  <2>6. u.to = pkt'[1].to
    BY <1>7, <2>1 DEF i
  <2> QED BY <1>1, <2>4, <2>5, <2>6 DEF Place
<1>11. Listening'
  <2>1. AllHeard(s) => AllHeard(s)'
    BY <1>1 DEF AllHeard
  <2> QED BY <1>1, <1>3, <1>4, <1>5, <1>10, <2>1 DEF Listening
<1> QED BY <1>1, <1>9, <1>11 DEF ToHost

LEMMA HostRest ==
  ASSUME ToHost, Types', ReadRest
  PROVE  Extends(got, sent)' /\ Holding' /\ (OutOfStep \/ Listening)'
<1>1. /\ lpc = "rest" /\ lpc' = "rest" /\ pread >= 0
      /\ UNCHANGED <<sent, lost, got, wr>>
  BY DEF ReadRest
<1>2. PICK n \in 1..Len(toHost) :
        /\ n <= sz - pread /\ pread' = pread + n
        /\ pkt' = SubSeq(pkt, 1, 1 + pread) \o SubSeq(toHost, 1, n)
        /\ toHost' = SubSeq(toHost, n + 1, Len(toHost))
  BY DEF ReadRest, StillWanted, Store
<1>3. /\ toHost \in Seq(Byte) /\ sent \in [Interfaces -> Seq(Byte)]
      /\ got \in [Interfaces -> Seq(Byte)] /\ pread \in Int
  BY DEF ToHost, Types, TypeOK
<1>4. /\ sz \in 0..16 /\ pkt \in Seq(Byte) /\ pkt[1].to \in Interfaces
      /\ pread \in 0..sz /\ Len(pkt) = pread + 1 /\ wr = 0
  <2>1. sz \in 0..16 /\ pkt \in Seq(Byte) /\ pkt[1].to \in Interfaces
    BY <1>1, FirstByte DEF ToHost
  <2>2. ~(pread < 0)
    BY <1>1, <1>3
  <2> QED BY <1>1, <2>1, <2>2 DEF ToHost, Types, Received
<1> DEFINE i == pkt[1].to
           p == SubSeq(toHost, 1, n)
           m == sz - pread
           a == Len(got[i])
<1>5. /\ n \in Nat /\ n # 0 /\ n <= Len(toHost) /\ Len(toHost) \in Nat
      /\ m \in Nat /\ n <= m /\ a \in Nat
  <2> DEFINE x == sz
  <2>1. x \in 0..16 /\ pread \in 0..x /\ n <= x - pread
    BY <1>2, <1>4
  <2>2. Len(toHost) \in Nat /\ a \in Nat
    BY <1>3, <1>4, LenProperties
  <2> HIDE DEF x
  <2>3. x - pread \in Nat
    BY <2>1
  <2> QED BY <2>1, <2>2, <2>3 DEF x
<1>6. p \in Seq(Byte) /\ Len(p) = n /\ p # <<>>
  <2>1. SubSeq(toHost, 0 + 1, 0 + n) \in Seq(Byte)
        /\ Len(SubSeq(toHost, 0 + 1, 0 + n)) = n
    BY <1>3, <1>5, Piece
  <2>2. p \in Seq(Byte) /\ Len(p) = n
    BY <1>5, <2>1
  <2> QED BY <1>5, <2>2, EmptySeq
<1>7. /\ pkt' = pkt \o p
      /\ Len(pkt') = Len(pkt) + n
      /\ \A k \in 1..Len(pkt) + n :
           pkt'[k] = IF k <= Len(pkt) THEN pkt[k] ELSE p[k - Len(pkt)]
  <2>1. SubSeq(pkt, 1, 1 + pread) = pkt
    <3>1. 1 + pread = Len(pkt)
      BY <1>3, <1>4
    <3> QED BY <1>4, <3>1, SubSeqFull
  <2>2. pkt' = pkt \o p
    BY <1>2, <2>1
  <2> QED BY <1>4, <1>6, <2>2, ConcatProperties
<1>8. pkt'[1] = pkt[1] /\ sz' = sz /\ Len(pkt) \in Nat /\ Len(pkt) >= 1
  <2>1. Len(pkt) \in Nat /\ Len(pkt) >= 1
    BY <1>1, FirstByte DEF ToHost
  <2>2. 1 \in 1..Len(pkt) + n /\ 1 <= Len(pkt)
    BY <1>5, <2>1
  <2>3. pkt'[1] = pkt[1]
    BY <1>7, <2>2
  <2> QED BY <2>1, <2>3 DEF sz
<1>9. PICK h, s : /\ h \in Listeners /\ Place(h)
                  /\ Leads(Heard(sent), toHost, h, s)
                  /\ lost \/ AllHeard(s)
  <2>1. ~OutOfStep
    BY <1>1, <1>3 DEF OutOfStep
  <2> QED BY <2>1 DEF ToHost, Listening
<1>10. /\ h.need = m /\ h.to = i /\ h.at \in [Interfaces -> Nat]
       /\ \A j \in Interfaces : h.at[j] = Len(got[j]) + Ahead(j)
  <2>1. h.need = m
    BY <1>1, <1>9 DEF Place
  <2>2. h.need # 0
    BY <1>5, <2>1
  <2> QED BY <1>9, <2>1, <2>2 DEF Place, Listeners
<1>11. /\ Packet /\ Packet' /\ ~OutOfStep'
       /\ \A j \in Interfaces : /\ Ahead(j) = IF j = i THEN Len(pkt) ELSE 0
                                /\ (Ahead(j))' = IF j = i THEN Len(pkt) + n ELSE 0
  <2>1. pread' >= 0 /\ ~(pread' < 0)
    BY <1>1, <1>2, <1>3, <1>5
  <2>2. Packet /\ Packet' /\ ~OutOfStep'
    BY <1>1, <2>1 DEF Packet, OutOfStep
  <2>3. Len(pkt) - wr = Len(pkt) /\ Len(pkt') - wr' = Len(pkt) + n
    BY <1>1, <1>4, <1>5, <1>7, <1>8
  <2> QED BY <1>8, <2>2, <2>3 DEF Ahead
<1>12. PICK u : /\ Leads(Heard(sent), p, h, u)
                /\ Leads(Heard(sent), toHost', u, s)
  <2>1. n \in 0..Len(toHost)
    BY <1>5
  <2> QED BY <1>2, <1>3, <1>9, <2>1, LeadsSplit
<1>13. h.at[i] = a + Len(pkt)
  BY <1>4, <1>10, <1>11
<1> HIDE DEF i, p, m, a
<1>14. /\ u \in Listeners /\ u.need = m - n /\ u.to = i
       /\ u.at = [h.at EXCEPT ![i] = @ + n]
       /\ \A k \in 1..n : /\ (a + Len(pkt)) + k <= Len(sent[i])
                          /\ p[k] = sent[i][(a + Len(pkt)) + k]
  <2>1. Len(p) <= h.need
    BY <1>5, <1>6, <1>10
  <2>2. h \in Listeners /\ p \in Seq(Byte) /\ p # <<>>
        /\ Leads(Heard(sent), p, h, u)
    BY <1>6, <1>9, <1>12
  <2>3. /\ u \in Listeners /\ u.need = h.need - Len(p) /\ u.to = h.to
        /\ u.at = [h.at EXCEPT ![h.to] = @ + Len(p)]
        /\ \A k \in 1..Len(p) : /\ h.at[h.to] + k <= Len(sent[h.to])
                                /\ p[k] = sent[h.to][h.at[h.to] + k]
    BY <2>1, <2>2, PieceHeard
  <2> QED BY <1>6, <1>10, <1>13, <2>3
<1>15. Place(u)'
  <2>1. ASSUME NEW j \in Interfaces PROVE u.at[j] = Len(got'[j]) + (Ahead(j))'
    <3>1. CASE j = i
      <4>1. u.at[i] = (a + Len(pkt)) + n
        BY <1>10, <1>13, <1>14, <3>1
      <4>2. (a + Len(pkt)) + n = a + (Len(pkt) + n)
        BY <1>5, <1>8
      <4>3. (Ahead(j))' = Len(pkt) + n /\ Len(got'[j]) = a
        BY <1>1, <1>11, <3>1 DEF a
      <4> QED BY <3>1, <4>1, <4>2, <4>3
    <3>2. CASE j # i
      <4>1. u.at[j] = Len(got[j]) + Ahead(j)
        BY <1>10, <1>14, <3>2
      <4> QED BY <1>1, <1>11, <3>2, <4>1
    <3> QED BY <3>1, <3>2
  <2>2. u.need = sz' - pread'
    <3> DEFINE x == sz
    <3>1. x \in 0..16 /\ u.need = (x - pread) - n /\ pread' = pread + n
      BY <1>2, <1>4, <1>14 DEF m
    <3> HIDE DEF x
    <3>2. (x - pread) - n = x - (pread + n)
      BY <1>3, <1>5, <3>1
    <3> QED BY <1>8, <3>1, <3>2 DEF x
  <2>3. u.to = pkt'[1].to
    BY <1>8, <1>14 DEF i
  <2> QED BY <1>1, <2>1, <2>2, <2>3 DEF Place
<1>16. Holding'
  <2>1. Held(i)
    BY <1>11 DEF ToHost, Holding, i
  <2>2. ASSUME NEW k \in 1..(Len(pkt) + n)
        PROVE  a + k <= Len(sent[i]) /\ pkt'[0 + k] = sent[i][a + k]
    <3>1. CASE k <= Len(pkt)
      <4>1. k \in 1..(Len(pkt) - wr) /\ wr + k = k /\ 0 + k = k
        BY <1>4, <1>8, <3>1
      <4>2. a + k <= Len(sent[i]) /\ pkt[k] = sent[i][a + k]
        BY <2>1, <4>1 DEF Held, a
      <4>3. pkt'[k] = pkt[k]
        BY <1>7, <3>1
      <4> QED BY <4>1, <4>2, <4>3
    <3>2. CASE ~(k <= Len(pkt))
      <4> DEFINE j == k - Len(pkt)
      <4>1. j \in 1..n /\ (a + Len(pkt)) + j = a + k /\ 0 + k = k
        BY <1>5, <1>8, <3>2
      <4>2. pkt'[k] = p[j]
        BY <1>7, <3>2
      <4> HIDE DEF j
      <4>3. /\ (a + Len(pkt)) + j <= Len(sent[i])
            /\ p[j] = sent[i][(a + Len(pkt)) + j]
        BY <1>14, <4>1
      <4> QED BY <4>1, <4>2, <4>3
    <3> QED BY <3>1, <3>2
  <2>3. /\ Len(pkt') - wr' = Len(pkt) + n /\ wr' = 0 /\ got' = got
        /\ sent' = sent
        /\ pkt'[1].to = i
    BY <1>1, <1>4, <1>5, <1>7, <1>8 DEF i
  <2> QED BY <2>2, <2>3 DEF Holding, Held, a
<1>17. Listening'
  <2>1. AllHeard(s) => AllHeard(s)'
    BY <1>1 DEF AllHeard
  <2> QED BY <1>1, <1>9, <1>12, <1>14, <1>15, <2>1 DEF Listening
<1> QED BY <1>1, <1>16, <1>17 DEF ToHost

LEMMA HostReadAll ==
  ASSUME ToHost, ReadAll
  PROVE  Extends(got, sent)' /\ Holding' /\ (OutOfStep \/ Listening)'
<1>1. /\ lpc = "rest" /\ pread >= sz /\ lpc' = "dispatch"
      /\ UNCHANGED <<sent, lost, toHost, pkt, pread, wr, got>>
  BY DEF ReadAll
<1>2. /\ sz \in 0..16 /\ pread \in Int
      /\ \/ pread \in 0..sz /\ Len(pkt) = pread + 1 /\ wr = 0
         \/ pread < 0 /\ lost
  BY <1>1, FirstByte DEF ToHost, Types, Received
<1>3. pread >= 0 /\ sz - pread = 0
  <2> DEFINE x == sz
  <2>1. x \in 0..16 /\ pread >= x /\ (pread \in 0..x \/ pread < 0)
    BY <1>1, <1>2
  <2> HIDE DEF x
  <2>2. pread >= 0 /\ x - pread = 0
    BY <1>2, <2>1
  <2> QED BY <2>2 DEF x
<1>4. Packet /\ Packet' /\ ~OutOfStep
  BY <1>1, <1>2, <1>3 DEF Packet, OutOfStep
<1>5. \A j \in Interfaces : (Ahead(j))' = Ahead(j)
  BY <1>1, <1>4 DEF Ahead
<1>6. \A h : Place(h) => (Place(h))'
  BY <1>1, <1>3, <1>5 DEF Place
<1>7. \A s : AllHeard(s) => (AllHeard(s))'
  BY <1>1 DEF AllHeard
<1>8. Listening'
  BY <1>1, <1>4, <1>6, <1>7 DEF ToHost, Listening
<1>9. Holding'
  BY <1>1, <1>4 DEF ToHost, Holding, Held
<1> QED BY <1>1, <1>8, <1>9 DEF ToHost

\* n further bytes of a packet for i are dispatched.
LEMMA HostStored ==
  ASSUME ToHost, Types', lpc = "dispatch", NEW i \in Interfaces, pkt[1].to = i,
         NEW n \in 1..(Len(pkt) - wr),
         UNCHANGED <<sent, lost, toHost, pkt, pread>>,
         got' = [got EXCEPT ![i] = @ \o SubSeq(pkt, wr + 1, wr + n)],
         \/ lpc' = "read" /\ wr + n = Len(pkt)
         \/ lpc' = "dispatch" /\ wr' = wr + n
  PROVE  Extends(got, sent)' /\ Holding' /\ (OutOfStep \/ Listening)'
<1> DEFINE a == Len(got[i])
           p == SubSeq(pkt, wr + 1, wr + n)
           l == Len(pkt)
<1>1. /\ pkt \in Seq(Byte) /\ l \in Nat /\ wr \in Nat /\ n \in Nat
      /\ wr + n <= l /\ n <= l - wr
  <2>1. pkt \in Seq(Byte) /\ l \in Nat
    BY FirstByte DEF ToHost
  <2>2. wr \in Nat
    BY DEF ToHost, Types, TypeOK
  <2> HIDE DEF l
  <2>3. n \in 1..(l - wr)
    BY DEF l
  <2> QED BY <2>1, <2>2, <2>3
<1>2. p \in Seq(Byte) /\ Len(p) = n /\ \A k \in 1..n : p[k] = pkt[wr + k]
  BY <1>1, Piece
<1>3. /\ got \in [Interfaces -> Seq(Byte)] /\ sent \in [Interfaces -> Seq(Byte)]
      /\ \A j \in Interfaces : Len(got[j]) \in Nat /\ Len(sent[j]) \in Nat
  BY LenProperties DEF ToHost, Types, TypeOK
<1>4. /\ got'[i] = got[i] \o p /\ a \in Nat
      /\ \A j \in Interfaces \ {i} : got'[j] = got[j]
  BY <1>3
<1> HIDE DEF p
<1>5. /\ Len(got'[i]) = a + n
      /\ \A k \in 1..(a + n) :
           got'[i][k] = IF k <= a THEN got[i][k] ELSE p[k - a]
  <2>1. got[i] \in Seq(Byte)
    BY <1>3
  <2>2. /\ Len(got[i] \o p) = Len(got[i]) + Len(p)
        /\ \A k \in 1..Len(got[i]) + Len(p) :
             (got[i] \o p)[k] =
               IF k <= Len(got[i]) THEN got[i][k] ELSE p[k - Len(got[i])]
    BY <1>2, <2>1, ConcatProperties
  <2> QED BY <1>2, <1>4, <2>2
<1>6. Packet /\ Held(i) /\ Listening
  BY DEF ToHost, Holding, Packet, OutOfStep
<1> HIDE DEF l, a
<1>7. ASSUME NEW k \in 1..(l - wr)
      PROVE  a + k <= Len(sent[i]) /\ pkt[wr + k] = sent[i][a + k]
  BY <1>6 DEF Held, l, a
<1>8. Extends(got, sent)'
  <2>1. /\ Len(got[i]) <= Len(sent[i])
        /\ \A k \in 1..a : sent[i][k] = got[i][k]
    BY DEF ToHost, Extends, a
  <2>2. a + n <= Len(sent[i])
    <3>1. n \in 1..(l - wr)
      BY <1>1
    <3> QED BY <1>7, <3>1
  <2>3. ASSUME NEW k \in 1..(a + n) PROVE sent[i][k] = got'[i][k]
    <3>1. CASE k <= a
      <4>1. k \in 1..a
        BY <1>4, <3>1
      <4> QED BY <1>5, <2>1, <3>1, <4>1
    <3>2. CASE ~(k <= a)
      <4> DEFINE j == k - a
      <4>1. j \in 1..n /\ j \in 1..(l - wr) /\ a + j = k
        BY <1>1, <1>4, <3>2
      <4>2. got'[i][k] = p[j]
        BY <1>5, <3>2
      <4> HIDE DEF j
      <4>3. p[j] = pkt[wr + j] /\ pkt[wr + j] = sent[i][a + j]
        BY <1>2, <1>7, <4>1
      <4> QED BY <4>1, <4>2, <4>3
    <3> QED BY <3>1, <3>2
  <2>4. ASSUME NEW j \in Interfaces
        PROVE  /\ Len(got'[j]) <= Len(sent[j])
               /\ \A k \in 1..Len(got'[j]) : sent[j][k] = got'[j][k]
    <3>1. CASE j = i
      BY <1>5, <2>2, <2>3, <3>1
    <3>2. CASE j # i
      BY <1>4, <3>2 DEF ToHost, Extends
    <3> QED BY <3>1, <3>2
  <2> QED BY <2>4 DEF Extends
<1>9. PICK h, s : /\ h \in Listeners /\ Place(h)
                  /\ Leads(Heard(sent), toHost, h, s)
                  /\ lost \/ AllHeard(s)
  BY <1>6 DEF Listening
<1>10. h.need = 0 /\ \A j \in Interfaces : h.at[j] = Len(got[j]) + Ahead(j)
  BY <1>9 DEF Place
<1>11. \A j \in Interfaces : Ahead(j) = IF j = i THEN l - wr ELSE 0
  BY <1>6 DEF Ahead, l
<1>12. \A j \in Interfaces : (Ahead(j))' = IF j = i THEN (l - wr) - n ELSE 0
  <2>1. CASE lpc' = "read" /\ wr + n = l
    <3>1. (l - wr) - n = 0 /\ ~Packet'
      BY <1>1, <2>1 DEF Packet
    <3> QED BY <3>1 DEF Ahead
  <2>2. CASE lpc' = "dispatch" /\ wr' = wr + n
    <3>1. Packet' /\ l - wr' = (l - wr) - n
      BY <1>1, <2>2 DEF Packet
    <3> QED BY <3>1 DEF Ahead, l
  <2> QED BY <2>1, <2>2 DEF l
<1>13. Place(h)'
  <2>1. ASSUME NEW j \in Interfaces PROVE h.at[j] = Len(got'[j]) + (Ahead(j))'
    <3>1. CASE j = i
      <4>1. h.at[i] = a + (l - wr)
        BY <1>10, <1>11, <3>1 DEF a
      <4>2. a + (l - wr) = (a + n) + ((l - wr) - n)
        BY <1>1, <1>4
      <4>3. (Ahead(j))' = (l - wr) - n
        BY <1>12, <3>1
      <4> QED BY <1>5, <3>1, <4>1, <4>2, <4>3
    <3>2. CASE j # i
      BY <1>4, <1>10, <1>11, <1>12, <3>2
    <3> QED BY <3>1, <3>2
  <2>2. lpc' # "rest"
    OBVIOUS
  <2> QED BY <1>10, <2>1, <2>2 DEF Place
<1>14. Holding'
  <2>1. CASE lpc' = "read"
    BY <2>1 DEF Holding, Packet
  <2>2. CASE lpc' = "dispatch" /\ wr' = wr + n
    <3>1. ASSUME NEW k \in 1..(l - wr')
          PROVE  /\ (a + n) + k <= Len(sent[i])
                 /\ pkt[wr' + k] = sent[i][(a + n) + k]
      <4> DEFINE j == n + k
      <4>1. j \in 1..(l - wr) /\ a + j = (a + n) + k /\ wr' + k = wr + j
        BY <1>1, <1>4, <2>2
      <4> HIDE DEF j
      <4>2. a + j <= Len(sent[i]) /\ pkt[wr + j] = sent[i][a + j]
        BY <1>7, <4>1
      <4> QED BY <4>1, <4>2
    <3> QED BY <1>5, <3>1 DEF Holding, Held, l
  <2> QED BY <2>1, <2>2
<1>15. Listening'
  <2>1. AllHeard(s) => AllHeard(s)'
    BY DEF AllHeard
  <2> QED BY <1>9, <1>13, <2>1 DEF Listening
<1> QED BY <1>8, <1>14, <1>15

LEMMA HostDispatch ==
  ASSUME ToHost, Types', DispatchMaster \/ DispatchSlave
  PROVE  Extends(got, sent)' /\ Holding' /\ (OutOfStep \/ Listening)'
<1>1. /\ lpc = "dispatch" /\ UNCHANGED <<sent, lost, toHost, pkt, pread>>
      /\ pkt[1].to \in Interfaces
  <2>1. lpc = "dispatch" /\ UNCHANGED <<sent, lost, toHost, pkt, pread>>
    BY DEF DispatchMaster, DispatchSlave
  <2> QED BY <2>1, FirstByte DEF ToHost
<1>2. /\ Len(pkt) = sz + 1 /\ sz \in 0..16
      /\ pkt[1].to = "slave" => wr = 0
  BY <1>1, FirstByte DEF ToHost, Types, Received
<1>3. CASE DispatchMaster
  <2>1. PICK n \in 1..(sz + 1 - wr) :
          /\ got' = [got EXCEPT !["master"] = @ \o SubSeq(pkt, wr + 1, wr + n)]
          /\ wr' = wr + n
          /\ lpc' = IF wr + n = sz + 1 THEN "read" ELSE "dispatch"
    BY <1>3 DEF DispatchMaster
  <2>2. n \in 1..(Len(pkt) - wr)
    <3> DEFINE x == sz
    <3>1. x \in 0..16 /\ Len(pkt) = x + 1 /\ n \in 1..(x + 1 - wr)
      BY <1>2, <2>1
    <3>2. wr \in 0..17
      BY DEF ToHost, Types, TypeOK
    <3> HIDE DEF x
    <3>3. x + 1 - wr = (x + 1) - wr
      BY <3>1, <3>2
    <3> QED BY <3>1, <3>3
  <2>3. \/ lpc' = "read" /\ wr + n = Len(pkt)
        \/ lpc' = "dispatch" /\ wr' = wr + n
    BY <1>2, <2>1
  <2>4. pkt[1].to = "master" /\ "master" \in Interfaces
    BY <1>3 DEF DispatchMaster, Interfaces
  <2> QED BY <1>1, <2>1, <2>2, <2>3, <2>4, HostStored
<1>4. CASE DispatchSlave
  <2>1. /\ got' = [got EXCEPT !["slave"] = @ \o SubSeq(pkt, 1, sz + 1)]
        /\ lpc' = "read" /\ pkt[1].to = "slave" /\ "slave" \in Interfaces
    BY <1>4 DEF DispatchSlave, Interfaces
  <2> DEFINE n == Len(pkt)
  <2>2. n \in 1..(n - wr) /\ wr + n = n /\ wr + 1 = 1
    <3>1. n \in 1..17 /\ wr = 0
      <4> DEFINE x == sz
      <4>1. n = x + 1 /\ x \in 0..16
        BY <1>2
      <4> HIDE DEF x, n
      <4>2. n \in 1..17
        BY <4>1
      <4> QED BY <1>2, <2>1, <4>2
    <3> HIDE DEF n
    <3> QED BY <3>1
  <2>3. got' = [got EXCEPT !["slave"] = @ \o SubSeq(pkt, wr + 1, wr + n)]
    BY <1>2, <2>1, <2>2
  <2>4. lpc' = "read" /\ wr + n = Len(pkt) /\ n \in 1..(Len(pkt) - wr)
    BY <2>1, <2>2
  <2> HIDE DEF n
  <2> QED BY <1>1, <2>1, <2>3, <2>4, HostStored
<1> QED BY <1>3, <1>4

LEMMA ToHostNext ==
  ASSUME ToHost, Types', [Next]_vars
  PROVE  ToHost'
<1> SUFFICES Extends(got, sent)' /\ Holding' /\ (OutOfStep \/ Listening)'
  BY DEF ToHost
<1>1. ASSUME NEW i \in Interfaces, SendCall(i) \/ Send(i)
      PROVE  Extends(got, sent)' /\ Holding' /\ (OutOfStep \/ Listening)'
  <2>1. CASE SendWriteLost(i)
    BY <2>1, HostEnds DEF SendWriteLost, OutOfStep
  <2>2. CASE SendCall(i) \/ SendLock(i) \/ SendWrite(i) \/ SendReturn(i)
    <3>1. UNCHANGED <<sent, lost, toHost, listenVars>>
      BY <2>2 DEF SendCall, SendLock, SendWrite, SendReturn
    <3> QED BY <3>1, HostOther
  <2> QED BY <1>1, <2>1, <2>2 DEF Send
<1>2. CASE DeviceTake \/ UNCHANGED vars
  <2>1. UNCHANGED <<sent, lost, toHost, listenVars>>
    BY <1>2 DEF DeviceTake, vars
  <2> QED BY <2>1, HostOther
<1>3. CASE ReadHeaderLost
  BY <1>3, HostEnds DEF ReadHeaderLost, OutOfStep
<1>4. CASE ReadRestLost
  <2>1. /\ lpc = "rest" /\ pread \in 0..(sz - 1) /\ pread' = pread + NotAvail
        /\ UNCHANGED <<sent, got, lpc>>
    BY <1>4 DEF ReadRestLost
  <2> DEFINE x == sz
  <2>2. x \in 0..16 /\ pread \in 0..(x - 1)
    BY <2>1, FirstByte DEF ToHost
  <2> HIDE DEF x
  <2>3. pread' < 0
    BY <2>1, <2>2 DEF NotAvail
  <2> QED BY <2>1, <2>3, HostEnds DEF OutOfStep
<1>5. CASE DeviceSend \/ DeviceLost \/ ReadHeader \/ ReadRest \/ ReadAll
           \/ DispatchMaster \/ DispatchSlave
  BY <1>5, HostSent, HostLost, HostHeader, HostRest, HostReadAll, HostDispatch
<1> QED BY <1>1, <1>2, <1>3, <1>4, <1>5 DEF Next, Listen

LEMMA ToHostInvariance == Spec => []ToHost
BY ToHostInit, ToHostNext, TypesInvariance, PTL DEF Spec

-----------------------------------------------------------------------------
(* What slave_pkt has room for: every byte on its way to the host, a header *)
(* or not, would be one of a short packet if it is for the slave interface. *)

Fits(b) == b.to = "slave" => cmd2payload(b.code) + 1 <= SlavePktSize
AllFit == /\ \A k \in 1..Len(toHost) : Fits(toHost[k])
          /\ lpc \in {"rest", "dispatch"} => Fits(pkt[1])

LEMMA PacketFits ==
  ASSUME NEW p \in DevicePackets, NEW n \in Nat,
         NEW k \in 1..Len(PacketBytes(p.to, n, p.len))
  PROVE  Fits(PacketBytes(p.to, n, p.len)[k])
<1>1. p.to \in Interfaces /\ p.len \in PayloadLengths
  BY PacketsAssumption
<1> DEFINE b == PacketBytes(p.to, n, p.len)[k]
<1>2. b.to = p.to /\ b.code = IF k = 1 THEN payload2cmd(p.len) ELSE 0
  <2> DEFINE q == PacketBytes(p.to, n, p.len)
             m == p.len + 1
  <2>1. /\ Len(q) = m
        /\ \A j \in 1..m : q[j] = [to |-> p.to, pkt |-> n, pos |-> j - 1,
                                  code |-> IF j = 1 THEN payload2cmd(p.len) ELSE 0]
    BY <1>1, PacketBytesAre
  <2> HIDE DEF q, m
  <2>2. k \in 1..m
    BY <2>1 DEF q
  <2>3. q[k] = [to |-> p.to, pkt |-> n, pos |-> k - 1,
                code |-> IF k = 1 THEN payload2cmd(p.len) ELSE 0]
    BY <2>1, <2>2
  <2>4. q[k].to = p.to /\ q[k].code = IF k = 1 THEN payload2cmd(p.len) ELSE 0
    BY <2>3
  <2> QED BY <2>4 DEF q
<1> HIDE DEF b
<1>3. cmd2payload(payload2cmd(p.len)) = p.len /\ cmd2payload(0) = 0
  BY <1>1, Codes DEF cmd2payload
<1>4. p.len \in 0..16 /\ (p.to = "slave" => p.len + 1 <= SlavePktSize)
  BY <1>1, Codes, SlavePacketAssumption
<1>5. Fits(b)
  BY <1>2, <1>3, <1>4 DEF Fits, SlavePktSize
<1> QED BY <1>5 DEF b

LEMMA FirstKept ==
  ASSUME Types, ReadRest
  PROVE  pkt'[1] = pkt[1] /\ lpc = "rest" /\ lpc' = "rest"
<1>1. PICK n \in 1..Len(toHost) :
        pkt' = SubSeq(pkt, 1, 1 + pread) \o SubSeq(toHost, 1, n)
  BY DEF ReadRest, Store
<1>2. lpc = "rest" /\ lpc' = "rest" /\ pread >= 0
  BY DEF ReadRest
<1>3. /\ Len(pkt) = pread + 1 /\ pkt \in Seq(Byte) /\ Len(pkt) \in Nat
      /\ Len(pkt) >= 1
  <2>1. pread < 0 \/ Len(pkt) = pread + 1
    BY <1>2 DEF Types, Received
  <2> QED BY <1>2, <2>1, FirstByte DEF Types
<1>4. SubSeq(pkt, 1, 1 + pread) = pkt
  <2>1. 1 + pread = Len(pkt)
    BY <1>3 DEF Types
  <2> QED BY <1>3, <2>1, SubSeqFull
<1> DEFINE q == SubSeq(toHost, 1, n)
<1>5. q \in Seq(Byte)
  <2>1. toHost \in Seq(Byte) /\ n \in Nat /\ 0 + n <= Len(toHost)
    BY LenProperties DEF Types, TypeOK
  <2> QED BY <2>1, Piece
<1> HIDE DEF q
<1>6. pkt' = pkt \o q
  BY <1>1, <1>4 DEF q
<1>7. (pkt \o q)[1] = pkt[1]
  <2>1. Len(q) \in Nat
    BY <1>5, LenProperties
  <2>2. 1 \in 1..Len(pkt) + Len(q) /\ 1 <= Len(pkt)
    BY <1>3, <2>1
  <2> QED BY <1>3, <1>5, <2>2, ConcatProperties
<1> QED BY <1>2, <1>6, <1>7

LEMMA AllFitNext ==
  ASSUME Types, AllFit, [Next]_vars
  PROVE  AllFit'
<1>0. toHost \in Seq(Byte) /\ Len(toHost) \in Nat
  BY LenProperties DEF Types, TypeOK
<1>1. CASE UNCHANGED vars
  BY <1>1 DEF AllFit, Fits, vars, listenVars
<1>2. ASSUME NEW i \in Interfaces, SendCall(i) \/ Send(i)
      PROVE  AllFit'
  <2>1. toHost' = toHost /\ pkt' = pkt /\ lpc' \in {lpc, "ended"}
    BY <1>2 DEF SendCall, Send, SendLock, SendWrite, SendWriteLost, SendReturn,
                listenVars
  <2> QED BY <2>1 DEF AllFit, Fits
<1>3. CASE DeviceTake
  BY <1>3 DEF DeviceTake, AllFit, Fits, listenVars
<1>4. CASE DeviceSend
  <2> DEFINE bytes(p) == PacketBytes(p.to, work["device"], p.len)
  <2>1. PICK p \in DevicePackets : toHost' = toHost \o bytes(p)
    BY <1>4 DEF DeviceSend
  <2>2. /\ p.to \in Interfaces /\ p.len \in PayloadLengths
        /\ work["device"] \in Nat
    BY PacketsAssumption DEF Types, TypeOK, Parties
  <2>3. bytes(p) \in Seq(Byte) /\ Len(bytes(p)) \in Nat
    BY <2>2, PacketBytesAre, LenProperties
  <2>4. \A k \in 1..Len(bytes(p)) : Fits(bytes(p)[k])
    BY <2>2, PacketFits
  <2> HIDE DEF bytes
  <2>5. /\ Len(toHost') = Len(toHost) + Len(bytes(p))
        /\ \A k \in 1..Len(toHost) + Len(bytes(p)) :
             toHost'[k] = IF k <= Len(toHost) THEN toHost[k]
                          ELSE bytes(p)[k - Len(toHost)]
    BY <1>0, <2>1, <2>3, ConcatProperties
  <2>6. ASSUME NEW k \in 1..Len(toHost') PROVE Fits(toHost'[k])
    <3>1. CASE k <= Len(toHost)
      <4>1. k \in 1..Len(toHost) /\ toHost'[k] = toHost[k]
        BY <1>0, <2>3, <2>5, <3>1
      <4> QED BY <4>1 DEF AllFit
    <3>2. CASE ~(k <= Len(toHost))
      <4>1. /\ k - Len(toHost) \in 1..Len(bytes(p))
            /\ toHost'[k] = bytes(p)[k - Len(toHost)]
        BY <1>0, <2>3, <2>5, <3>2
      <4> QED BY <2>4, <4>1
    <3> QED BY <3>1, <3>2
  <2>7. pkt' = pkt /\ lpc' = lpc
    BY <1>4 DEF DeviceSend, listenVars
  <2> QED BY <2>6, <2>7 DEF AllFit, Fits
<1>5. CASE DeviceLost
  <2>1. PICK n \in 0..Len(toHost) : toHost' = SubSeq(toHost, 1, n)
    BY <1>5 DEF DeviceLost
  <2>2. /\ Len(toHost') = n /\ n <= Len(toHost) /\ n \in Nat
        /\ \A k \in 1..n : toHost'[k] = toHost[k]
    BY <1>0, <2>1
  <2>3. pkt' = pkt /\ lpc' = lpc
    BY <1>5 DEF DeviceLost, listenVars
  <2> QED BY <1>0, <2>2, <2>3 DEF AllFit, Fits
<1>6. CASE ReadHeader
  <2>1. /\ toHost # <<>> /\ pkt' = <<Head(toHost)>> /\ toHost' = Tail(toHost)
        /\ lpc' = "rest"
    BY <1>6 DEF ReadHeader
  <2>2. /\ Len(toHost) >= 1 /\ Head(toHost) = toHost[1]
        /\ Len(toHost') = Len(toHost) - 1
        /\ \A k \in 1..Len(toHost') : toHost'[k] = toHost[k + 1]
    BY <1>0, <2>1, HeadTailProperties, EmptySeq
  <2>3. pkt'[1] = toHost[1] /\ 1 \in 1..Len(toHost)
    BY <1>0, <2>1, <2>2
  <2>4. \A k \in 1..Len(toHost') : k + 1 \in 1..Len(toHost)
    BY <1>0, <2>2
  <2> QED BY <2>1, <2>2, <2>3, <2>4 DEF AllFit, Fits
<1>7. CASE ReadRest
  <2>1. PICK n \in 1..Len(toHost) : toHost' = SubSeq(toHost, n + 1, Len(toHost))
    BY <1>7 DEF ReadRest
  <2>2. \A k \in 1..Len(toHost') : /\ n + k \in 1..Len(toHost)
                                   /\ toHost'[k] = toHost[n + k]
    <3> DEFINE y == Len(toHost) - n
    <3>1. y \in Nat /\ n + y = Len(toHost) /\ n \in Nat
      BY <1>0
    <3> HIDE DEF y
    <3>2. /\ Len(SubSeq(toHost, n + 1, n + y)) = y
          /\ \A k \in 1..y : SubSeq(toHost, n + 1, n + y)[k] = toHost[n + k]
      <4>1. n + y <= Len(toHost)
        BY <1>0, <3>1
      <4> QED BY <1>0, <3>1, <4>1, Piece
    <3>3. \A k \in 1..y : n + k \in 1..Len(toHost)
      BY <1>0, <3>1
    <3> QED BY <2>1, <3>1, <3>2, <3>3
  <2> QED BY <1>7, <2>2, FirstKept DEF AllFit, Fits
<1>8. CASE ReadHeaderLost \/ ReadRestLost \/ ReadAll \/ DispatchMaster
           \/ DispatchSlave
  <2>1. /\ toHost' = toHost /\ pkt' = pkt
        /\ lpc' \in {"rest", "dispatch"} => lpc \in {"rest", "dispatch"}
    BY <1>8 DEF ReadHeaderLost, ReadRestLost, ReadAll, DispatchMaster,
                DispatchSlave
  <2> QED BY <2>1 DEF AllFit, Fits
<1> QED BY <1>1, <1>2, <1>3, <1>4, <1>5, <1>6, <1>7, <1>8 DEF Next, Listen

LEMMA AllFitInvariance == Spec => []AllFit
<1>1. Init => AllFit
  BY DEF Init, AllFit
<1> QED BY <1>1, AllFitNext, TypesInvariance, PTL DEF Spec

\* In whatever pieces it arrives and is stored, each interface is handed what the
\* device sent to it, in order, and slave_pkt whole packets that it has room for
\* (flexsoc.cpp:143-206).
THEOREM InOrder == Spec => []DeliveredInOrder
<1>1. ToHost /\ AllFit => DeliveredInOrder
  <2> SUFFICES ASSUME ToHost, AllFit PROVE DeliveredInOrder
    OBVIOUS
  <2>1. ASSUME NEW i \in Interfaces PROVE IsPrefix(got[i], sent[i])
    <3>1. /\ Len(got[i]) <= Len(sent[i])
          /\ \A k \in 1..Len(got[i]) : sent[i][k] = got[i][k]
      BY DEF ToHost, Extends
    <3>2. got[i] \in Seq(Byte) /\ sent[i] \in Seq(Byte)
      BY DEF ToHost, Types, TypeOK
    <3> QED BY <3>1, <3>2 DEF IsPrefix
  <2>2. ASSUME lpc = "dispatch", pkt[1].to = "slave"
        PROVE  Len(pkt) = sz + 1 /\ Len(pkt) <= SlavePktSize
    <3>1. Len(pkt) = sz + 1
      BY <2>2 DEF ToHost, Types, Received
    <3>2. sz + 1 <= SlavePktSize
      BY <2>2 DEF AllFit, Fits, sz
    <3> QED BY <3>1, <3>2
  <2> QED BY <2>1, <2>2 DEF DeliveredInOrder
<1> QED BY <1>1, ToHostInvariance, AllFitInvariance, PTL
=============================================================================
