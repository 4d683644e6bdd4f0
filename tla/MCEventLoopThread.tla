------------------------- MODULE MCEventLoopThread -------------------------
(* EventLoopThread.tla for TLC: the thread that starts the loop is also a  *)
(* user of it.  There is no symmetry, because the runs check liveness.     *)
EXTENDS EventLoopThread
=============================================================================
