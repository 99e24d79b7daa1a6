------------------------------ MODULE ByteFifo ------------------------------
(***************************************************************************)
(* What Cbuf promises its two callers: a bounded queue of bytes.  The      *)
(* bytes that the writer hands over are numbered 0, 1, 2, ... in the order *)
(* it hands them over, and a byte is represented by its number.            *)
(***************************************************************************)
EXTENDS Integers, Sequences

CONSTANT Capacity           \* how many bytes the queue holds

VARIABLES put,              \* bytes accepted so far
          taken,            \* bytes handed out so far
          last              \* the bytes handed out by the latest Get

fifoVars == <<put, taken, last>>

FifoInit == put = 0 /\ taken = 0 /\ last = <<>>

\* Accept n further bytes: never more than there is room for.
Put(n) == /\ put + n - taken <= Capacity
          /\ put' = put + n
          /\ UNCHANGED <<taken, last>>

\* Hand out the n oldest bytes: only bytes that were put, each of them once.
Get(n) == /\ n <= put - taken
          /\ last' = [k \in 1..n |-> taken + k - 1]
          /\ taken' = taken + n
          /\ UNCHANGED put

FifoNext == \E n \in 1..Capacity : Put(n) \/ Get(n)

FifoSpec == FifoInit /\ [][FifoNext]_fifoVars
=============================================================================
