---------------------------- MODULE MCTcpServer ----------------------------
(* An instance of TcpServer.tla for TLC. *)
EXTENDS TcpServer, TLC

\* Connections are not told apart.
Symmetry == Permutations(Conns)
=============================================================================
