----------------------------- MODULE MCEpoller -----------------------------
EXTENDS Epoller, TLC

\* Channels differ only in whether they are tied.
ChanSymmetry == Permutations(Tied) \cup Permutations(Chans \ Tied)
=============================================================================
