------------------------------ MODULE MCSysmap ------------------------------
(* Sysmap with maps of one kind of lines each: the kinds touch different    *)
(* registers.                                                               *)
EXTENDS Sysmap

Alias(b, s, r) == [kind |-> "alias", base |-> b, size |-> s, remap |-> r]
Remap32(w, i, r) == [kind |-> "remap32", window |-> w, idx |-> i, remap |-> r]
Remap256(r) == [kind |-> "remap256", remap |-> r]
Plugin(n, b) == [kind |-> "plugin", name |-> n, base |-> b]
Invalid == [kind |-> "invalid"]

\* Overlapping code aliases, one at base 0, one beyond the code bus; a system
\* alias and one that ends at the top.
MCAliases == {Alias(8, 4, 0), Alias(10, 4, 64), Alias(0, 2, 8), Alias(30, 4, 4),
              Alias(64, 16, 32), Alias(240, 16, 96)}
\* Decimal and hexadecimal ("0x5"), two windows of one word, one of the other,
\* a window too many, addresses that are and are not multiples.
MCRemaps == {Remap32(1, 1, 64), Remap32(1, 1, 66), Remap32(2, 2, 254),
             Remap32(0, 5, 32), Remap32(2, 2, 33), Remap32(8, 7, 64),
             Remap256(64), Remap256(66), Invalid}
MCPlugins == {Plugin("Memory", 16), Plugin("Memory", 64), Plugin("UnitTest", 240),
              Plugin("uart", 80), Plugin("nosym", 16), Plugin("nofile", 16),
              Alias(8, 4, 0)}
MCLibrary == [n \in {"Memory", "UnitTest", "uart", "nosym", "nofile"} |->
                CASE n = "uart" -> "other" [] n = "nosym" -> "nosymbol"
                  [] n = "nofile" -> "missing" [] OTHER -> "bus"]

AllSets == {MCAliases, MCRemaps, MCPlugins}
AliasSets == {MCAliases}
ThreeThenTwo == <<3, 2>>
Ones == <<1, 1>>
=============================================================================
