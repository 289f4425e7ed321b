---------------------------- MODULE MCTcpSession ----------------------------
(* TLC instance of TcpSession: payloads of different lengths, all longer   *)
(* than a header.                                                          *)
EXTENDS TcpSession

MCPayloadSize == [Order |-> 3, Heartbeat |-> 2, Reply |-> 2]
=============================================================================
