------------------------------ MODULE MCBuffer ------------------------------
(* An instance of Buffer.tla for TLC. *)
EXTENDS Buffer

\* A line end may arrive in parts, and lie in the bytes that are left over.
MCStrings == {<<>>, <<LF>>, <<1, 2, CR>>}

MCNumbers == {<<-2, 2>>}

\* What is appended as an integer is read back, for every one of 8 or 16 bits.
ASSUME IntsReadBack ==
  \A w \in {1, 2} : \A v \in -(128 * 256 ^ (w - 1)) .. 128 * 256 ^ (w - 1) - 1 :
    Decode(Encode(v, w)) = v
=============================================================================
