---------------------------- MODULE MCEventLoop ----------------------------
(* EventLoop.tla for TLC: the cfg names the threads, the tasks and the     *)
(* signals.  There is no symmetry, because the run checks liveness.        *)
EXTENDS EventLoop
=============================================================================
