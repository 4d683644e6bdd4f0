---------------------------- MODULE MCUdpServer ----------------------------
(* An instance of UdpServer.tla for TLC. *)
EXTENDS UdpServer
=============================================================================
