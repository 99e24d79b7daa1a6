---------------------------- MODULE MCPluginBus ----------------------------
(* A Memory of two words, hidden in part by the Redirect named before it,   *)
(* and an address space with gaps.                                          *)
EXTENDS PluginBus

MCPlugins ==
  <<[kind |-> "Redirect", base |-> 4, size |-> 4, remote |-> 20],
    [kind |-> "Memory", base |-> 4, size |-> 8, remote |-> 0]>>

\* Stores filled with one byte; the words the CPU can reach take all values.
MCContents ==
  {[i \in Memories |-> [k \in WordIndexes(i) |-> [l \in Lanes |-> b]]] : b \in Bytes}
=============================================================================
