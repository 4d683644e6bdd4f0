---------------------------- MODULE MCTimerQueue ----------------------------
EXTENDS TimerQueue, TLC

\* Neither the threads nor the addresses are told apart.
Symmetry == Permutations(Others) \cup Permutations(Addrs)
=============================================================================
