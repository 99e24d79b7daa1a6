------------------------------- MODULE MCIrq -------------------------------
(* Irq with two threads and two registers of two lines.                     *)
EXTENDS Irq
=============================================================================
