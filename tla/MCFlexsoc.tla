----------------------------- MODULE MCFlexsoc -----------------------------
(* Flexsoc with every combination of plugin and load address that works, on *)
(* a device that stays and on one that may be lost; and the combination     *)
(* that does not.                                                           *)
EXTENDS Flexsoc

AllSetups == [handler : Handlers, load : Loads, lossy : BOOLEAN]

\* A binary loaded through a plugin that needs the master interface itself.
ThroughNested == {s \in AllSetups : s.handler = "nested" /\ s.load = "plugin"}
LoadThroughNested == {s \in ThroughNested : ~s.lossy}
OtherSetups == AllSetups \ ThroughNested
=============================================================================
