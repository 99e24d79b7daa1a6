-------------------------- MODULE MCBlockTransfer --------------------------
(* BlockTransfer with buffers of six and five commands.  The lengths are one *)
(* below, at and above those at which buffers are sent and responses read.   *)
EXTENDS BlockTransfer

T(dir, width, lens) == {[dir |-> dir, width |-> width, len |-> n] : n \in lens}

MCTransfers == T("read", 4, {2, 9, 15}) \cup T("read", 1, {15})
               \cup T("write", 4, {1, 6, 18}) \cup T("write", 1, {44})
MCNested == T("read", 4, {1}) \cup T("write", 2, {1})
=============================================================================
