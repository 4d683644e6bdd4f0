---------------------------- MODULE MCTcpClient ----------------------------
(* TcpClient.tla for TLC: two descriptors, so that a new connection may    *)
(* meet an old one that is still held, and a back-off of 1, 2 and 3.       *)
EXTENDS TcpClient
=============================================================================
