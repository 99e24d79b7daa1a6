--------------------------------- MODULE Irq ---------------------------------
(***************************************************************************)
(* The interrupt lines: PluginTarget::IRQ, IRQSet and IRQClr, called by    *)
(* the threads plugins run on, on registers of Width lines each.  One      *)
(* register access is one step, because api_lock covers it; IRQClr makes   *)
(* two.  Target's methods of the same names do the same.                   *)
(***************************************************************************)
EXTENDS Integers

CONSTANTS Threads,  \* threads that call the PluginTarget
          Words,    \* how many registers
          Width     \* lines per register (32)

Lines == 0..(Words * Width - 1)
WordOf(n) == n \div Width
Bit(n) == n % Width

VARIABLES level,    \* irq_level: word -> the bits that are set
          edge,     \* irq_edge, until the device resets it
          pc,       \* thread -> "out", or in IRQClr before its "write"
          line,     \* thread -> the line it clears
          cur,      \* thread -> IRQClr's `cur`
          raised    \* lines set and, since, not cleared

vars == <<level, edge, pc, line, cur, raised>>

Words0 == [w \in 0..(Words - 1) |-> {}]

Init == /\ level = Words0 /\ edge = Words0
        /\ pc = [t \in Threads |-> "out"]
        /\ line = [t \in Threads |-> 0]
        /\ cur = [t \in Threads |-> {}]
        /\ raised = {}

IRQ(t, n) == /\ pc[t] = "out"
             /\ edge' = [edge EXCEPT ![WordOf(n)] = {Bit(n)}]
             /\ UNCHANGED <<level, pc, line, cur, raised>>

\* The whole register is written.
IRQSet(t, n) == /\ pc[t] = "out"
                /\ level' = [level EXCEPT ![WordOf(n)] = {Bit(n)}]
                /\ raised' = raised \cup {n}
                /\ UNCHANGED <<edge, pc, line, cur>>

\* IRQClr reads the register ...
IRQClrRead(t, n) == /\ pc[t] = "out"
                    /\ cur' = [cur EXCEPT ![t] = level[WordOf(n)] \ {Bit(n)}]
                    /\ line' = [line EXCEPT ![t] = n]
                    /\ pc' = [pc EXCEPT ![t] = "write"]
                    /\ UNCHANGED <<level, edge, raised>>

\* ... and writes it, whatever was written in between.
IRQClrWrite(t) == /\ pc[t] = "write"
                  /\ level' = [level EXCEPT ![WordOf(line[t])] = cur[t]]
                  /\ raised' = raised \ {line[t]}
                  /\ pc' = [pc EXCEPT ![t] = "out"]
                  /\ UNCHANGED <<edge, line, cur>>

\* Level follows, edge resets: the CPU has seen the pulse.
EdgeResets == edge # Words0 /\ edge' = Words0
              /\ UNCHANGED <<level, pc, line, cur, raised>>

Next == \/ \E t \in Threads : \/ \E n \in Lines : \/ IRQ(t, n) \/ IRQSet(t, n)
                                                  \/ IRQClrRead(t, n)
                              \/ IRQClrWrite(t)
        \/ EdgeResets

Spec == Init /\ [][Next]_vars

\* What the CPU sees.
Irq(n) == Bit(n) \in level[WordOf(n)] \cup edge[WordOf(n)]

\* "Set level IRQ", Target.h:74, and "Clr level IRQ", 76: a line that was set is
\* up until it is cleared, whatever other lines are set or cleared meanwhile.
LevelStays == \A n \in raised : Irq(n)
=============================================================================
