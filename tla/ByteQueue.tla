----------------------------- MODULE ByteQueue -----------------------------
(***************************************************************************)
(* What a Buffer promises: a queue of bytes, in which its users see what   *)
(* they put in and nothing else.  out is what the last call returned, as a *)
(* sequence: empty for void and for a null pointer.                        *)
(***************************************************************************)
EXTENDS Integers, Sequences

CONSTANTS
  Data,         \* the byte sequences that may be put in
  Widths,       \* the widths of integers, in bytes
  Decode(_),    \* the integer that some bytes encode
  CR, LF

VARIABLES content, out

Init == content = <<>> /\ out = <<>>

Put(s) == content' = content \o s /\ out' \in {<<>>, <<Len(s)>>}

First(n) == SubSeq(content, 1, n)
Drop(n) == content' = SubSeq(content, n + 1, Len(content))

Take(n) == Drop(n) /\ out' \in {<<>>, First(n)}

TakeInt(w) == Drop(w) /\ out' = <<Decode(First(w))>>

LookInt(w) == UNCHANGED content /\ out' = <<Decode(First(w))>>

\* The line ends at or after position n; positions start at 0.
LineEnds(n) ==
  {k \in n..(Len(content) - 2) : content[k + 1] = CR /\ content[k + 2] = LF}

\* The first of them, if there is one.
Find(n) ==
  /\ UNCHANGED content
  /\ \/ LineEnds(n) = {} /\ out' = <<>>
     \/ \E k \in LineEnds(n) : (\A j \in LineEnds(n) : k <= j) /\ out' = <<k>>

\* A read that fails.
Fail == UNCHANGED content /\ out' = <<-1>>

Next ==
  \/ \E s \in Data : Put(s)
  \/ \E n \in 0..Len(content) : Take(n) \/ Find(n)
  \/ \E w \in Widths : w <= Len(content) /\ (TakeInt(w) \/ LookInt(w))
  \/ Fail

Spec == Init /\ [][Next]_<<content, out>>
=============================================================================
