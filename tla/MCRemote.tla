------------------------------ MODULE MCRemote ------------------------------
(* Remote with divisors 0 to 2, four AP indexes, and small polling limits.  *)
EXTENDS Remote

APList(s) == [a \in 0..(NumAP - 1) |-> IF a < Len(s) THEN s[a + 1] ELSE "none"]
Lists == {APList(s) : s \in {<<>>, <<"mem">>, <<"other">>, <<"other", "mem">>,
                             <<"mem", "other">>,
                             <<"other", "other", "mem">>,
                             <<"mem", "mem", "other", "other">>}}
Off == [en |-> FALSE, ahb |-> FALSE, apsel |-> 0, fixed |-> FALSE]
Target(link, list, fixed, halts) ==
  [link |-> link, aps |-> list, fixed |-> fixed, halts |-> halts,
   brg |-> Off, power |-> "off"]

\* What a command finds that comes after one killed while the bridge was in use
\* (en), or after two, the second one killed between two attempts to connect.
Found(t, en, power) ==
  [t EXCEPT !.brg = [en |-> en, ahb |-> TRUE, apsel |-> 2, fixed |-> TRUE],
            !.power = power]

\* Every list of APs behind a good wire; an AP with one size and a CPU that
\* does not halt; slower wires and none, some with registers left on.
MCTargets ==
  {Target(0, l, FALSE, TRUE) : l \in Lists}
  \cup {Target(0, APList(<<"other", "mem">>), TRUE, FALSE)}
  \cup {Target(k, APList(<<"mem">>), FALSE, TRUE) : k \in 1..NoLink}
  \cup {Found(Target(k, APList(<<"mem">>), FALSE, TRUE), TRUE, "acked") :
            k \in {0, NoLink}}
  \cup {Found(Target(1, APList(<<"mem">>), FALSE, TRUE), FALSE, "asked")}

\* A port without a MEM-AP.
NoMemAP == {Target(0, APList(<<"other">>), FALSE, TRUE)}
=============================================================================
