------------------------------ MODULE ByteMem ------------------------------
(***************************************************************************)
(* What plugins promise the CPU: the addresses Mapped behave as bytes of   *)
(* memory, whatever the width of an access; any other address fails.       *)
(***************************************************************************)
EXTENDS Naturals

CONSTANTS Mapped,       \* addresses that belong to a plugin
          Bytes,        \* values of a byte
          Requests      \* set of [write, width, addr, data]

VARIABLES mem,          \* contents of the mapped addresses
          req, resp     \* transaction under way, last response
memVars == <<mem, req, resp>>

NoRequest == [write |-> FALSE, width |-> 0]
NoData == [k \in {} |-> 0]
Response(status, data) == [status |-> status, data |-> data]

MemInit == /\ mem \in [Mapped -> Bytes]
           /\ req = NoRequest /\ resp = Response("none", NoData)

Ask == /\ req = NoRequest /\ req' \in Requests
       /\ resp' = Response("none", NoData) /\ UNCHANGED mem

Fail == /\ req # NoRequest /\ req.addr \notin Mapped
        /\ resp' = Response("fail", NoData)
        /\ req' = NoRequest /\ UNCHANGED mem

Span(r) == r.addr..(r.addr + r.width - 1)

Write == /\ req # NoRequest /\ req.addr \in Mapped /\ req.write
         /\ mem' = [a \in Mapped |-> IF a \in Span(req) THEN req.data[a - req.addr]
                                                        ELSE mem[a]]
         /\ resp' = Response("success", NoData) /\ req' = NoRequest

Read == /\ req # NoRequest /\ req.addr \in Mapped /\ ~req.write
        /\ resp' = Response("success", [k \in 0..(req.width - 1) |-> mem[req.addr + k]])
        /\ req' = NoRequest /\ UNCHANGED mem

MemNext == Ask \/ Fail \/ Write \/ Read
MemSpec == MemInit /\ [][MemNext]_memVars
=============================================================================
