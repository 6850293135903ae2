---------------------------- MODULE MCTcpConnMap ----------------------------
(* Connections of TcpConnMap to one local port, or to two of them.         *)
EXTENDS TcpConnMap

OnePort == {1} \X (1..4)
TwoPorts == (1..2) \X (1..2)
=============================================================================
