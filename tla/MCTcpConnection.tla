-------------------------- MODULE MCTcpConnection --------------------------
(* An instance of TcpConnection.tla for TLC. *)
EXTENDS TcpConnection, TLC

CONSTANTS short, long

\* One message fits into the socket's buffer of two bytes, one does not.
MCMsgLen == short :> 1 @@ long :> 3
=============================================================================
