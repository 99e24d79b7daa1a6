------------------------------- MODULE MCCbuf -------------------------------
(* Cbuf on an instance small enough for TLC: 4 bytes of buffer, packets and  *)
(* reads of up to 3 bytes, a stream that goes round the array.               *)
EXTENDS Cbuf
=============================================================================
