----------------------------- MODULE MCTcpClient -----------------------------
(* Instances of TcpClient for TLC.                                         *)
EXTENDS TcpClient

MCISNs == {5, 9, 20}
MCRaceISNs == {3, 7}
MCWrapISNs == {13, 14, 15}
=============================================================================
