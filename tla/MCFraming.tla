----------------------------- MODULE MCFraming -----------------------------
(* Framing with the payload lengths of first and further commands, of       *)
(* replies, of responses and of transactions.                               *)
EXTENDS Framing

MCBuffers == [i \in Interfaces |-> IF i = "master"
                                     THEN {<<4, 0>>, <<6, 2>>, <<8>>}
                                     ELSE {<<0>>, <<4>>}]
MCDevicePackets == [to : {"master"}, len : {0, 4}]
                   \cup [to : {"slave"}, len : {5}]

Work(m, s, d) == [p \in Parties |-> CASE p = "master" -> m [] p = "slave" -> s
                                      [] OTHER -> d]

\* The two directions share nothing but the device: each is explored by itself.
MCWorks == {Work(2, 2, 0), Work(0, 0, 3)}
MCTransports == {"tcp", "ftdi"}
OneCommand == {Work(1, 1, 0)}
=============================================================================
