------------------------------- MODULE Buffer -------------------------------
(***************************************************************************)
(* Buffer (src/src/buffer.h, src/src/buffer.cc): a growing vector with the *)
(* readable bytes between read_index_ and write_index_.  One action per    *)
(* public function; the functions of the four integer widths are one       *)
(* action, with the width as a parameter.  A caller keeps to the           *)
(* assertions that speak of its arguments.                                 *)
(***************************************************************************)
EXTENDS Integers, Sequences

CONSTANTS
  kInitialSize,
  ExtraSize,    \* the size of t_extra_buf
  Strings,      \* the byte sequences that are appended or arrive
  Numbers,      \* the integers appended: <<value, width in bytes>>
  Widths,       \* 1, 2, 4 and 8 in the code
  MaxReadable   \* bound on the readable bytes

Byte == 0..255
CR == 13
LF == 10

ASSUME BufferAssumption ==
  /\ kInitialSize \in Nat /\ ExtraSize \in Nat /\ MaxReadable \in Nat
  /\ Strings \subseteq Seq(Byte)
  /\ Widths \subseteq Nat \ {0} /\ Numbers \subseteq Int \X Widths

VARIABLES
  buf,          \* the object: [buffer_, read_index_, write_index_]
  out,          \* what the last call returned
  peak          \* history: the most bytes that were readable at a time

vars == <<buf, out, peak>>

-----------------------------------------------------------------------------
(* Byte b[i] of the code is buffer_[i + 1] here. *)

ReadableBytes(b) == b.write_index_ - b.read_index_
WritableBytes(b) == Len(b.buffer_) - b.write_index_
Readable(b) == SubSeq(b.buffer_, b.read_index_ + 1, b.write_index_)

\* Fault: byte after byte from the end, which overlapping ranges do not bear.
CopyBackward_Bytewise(b) ==
  LET n == ReadableBytes(b)
      r == b.read_index_
  IN [i \in 1..Len(b.buffer_) |->
        IF i <= n THEN b.buffer_[i + r * ((n - i + r) \div r)] ELSE b.buffer_[i]]

\* std::copy_backward() of the readable bytes to the front: a memmove().
CopyBackward(b) ==
  [i \in 1..Len(b.buffer_) |->
     IF i <= ReadableBytes(b) THEN b.buffer_[b.read_index_ + i] ELSE b.buffer_[i]]

\* vector::resize() to a larger size.
Resize(s, n) == [i \in 1..n |-> IF i <= Len(s) THEN s[i] ELSE 0]

MoveToFront(b) ==
  [buffer_ |-> CopyBackward(b), read_index_ |-> 0, write_index_ |-> ReadableBytes(b)]

MustGrow(b, len) == WritableBytes(b) + b.read_index_ < len

\* Fault: the new size has no room for the bytes already read.
MakeSpace_Short(b, len) ==
  IF MustGrow(b, len)
  THEN [b EXCEPT !.buffer_ = Resize(@, ReadableBytes(b) + len)]
  ELSE MoveToFront(b)

\* Fault: the bytes already read are never given back.
MakeSpace_Grow(b, len) == [b EXCEPT !.buffer_ = Resize(@, b.write_index_ + len)]

MakeSpace(b, len) ==
  IF MustGrow(b, len)
  THEN [b EXCEPT !.buffer_ = Resize(@, b.write_index_ + len)]
  ELSE MoveToFront(b)

EnsureWritableBytes(b, len) == IF len > WritableBytes(b) THEN MakeSpace(b, len) ELSE b

\* memcpy() or readv() to BeginWrite(), and HasWritten().
Write(b, s) ==
  [buffer_ |-> [i \in 1..Len(b.buffer_) |->
                  IF i \in b.write_index_ + 1 .. b.write_index_ + Len(s)
                  THEN s[i - b.write_index_] ELSE b.buffer_[i]],
   read_index_ |-> b.read_index_, write_index_ |-> b.write_index_ + Len(s)]

Appended(b, s) == Write(EnsureWritableBytes(b, Len(s)), s)

\* Retrieve() and RetrieveAll().
Retrieved(b, len) ==
  IF len < ReadableBytes(b)
  THEN [b EXCEPT !.read_index_ = @ + len]
  ELSE [buffer_ |-> b.buffer_, read_index_ |-> 0, write_index_ |-> 0]

-----------------------------------------------------------------------------
(* Integers in network byte order: htobe16() and so on, two's complement *)

\* The w bytes of v.
Encode(v, w) == [i \in 1..w |-> (v \div 256 ^ (w - i)) % 256]

\* The signed integer with the bytes s.
Decode(s) ==
  LET val[i \in 0..Len(s)] == IF i = 0 THEN 0 ELSE 256 * val[i - 1] + s[i]
  IN IF s[1] >= 128 THEN val[Len(s)] - 256 ^ Len(s) ELSE val[Len(s)]

-----------------------------------------------------------------------------
Init ==
  /\ buf = [buffer_ |-> [i \in 1..kInitialSize |-> 0], read_index_ |-> 0, write_index_ |-> 0]
  /\ out = <<>> /\ peak = 0

Fits(n) == ReadableBytes(buf) + n <= MaxReadable

Becomes(b) ==
  /\ buf' = b
  /\ peak' = IF ReadableBytes(b) > peak THEN ReadableBytes(b) ELSE peak

\* Append(), both forms.
Append_(s) == Fits(Len(s)) /\ Becomes(Appended(buf, s)) /\ out' = <<>>

AppendInt(v, w) == Fits(w) /\ Becomes(Appended(buf, Encode(v, w))) /\ out' = <<>>

\* What readv() finds in the socket goes to the free bytes and to t_extra_buf.
ReadFd(s) ==
  LET writable == WritableBytes(buf)
  IN /\ Fits(Len(s)) /\ Len(s) <= writable + ExtraSize
     /\ out' = <<Len(s)>>
     /\ \/ Len(s) <= writable /\ Becomes(Write(buf, s))
        \/ /\ Len(s) > writable
           /\ Becomes(Appended(Write(buf, SubSeq(s, 1, writable)),
                               SubSeq(s, writable + 1, Len(s))))

ReadFdFails == out' = <<-1>> /\ UNCHANGED <<buf, peak>>

\* Retrieve(), RetrieveUntil(), RetrieveAll() and RetrieveInt...().
Retrieve(n) == Becomes(Retrieved(buf, n)) /\ out' = <<>>

\* RetrieveAsString() and RetrieveAllAsString().
RetrieveAsString(n) ==
  Becomes(Retrieved(buf, n)) /\ out' = SubSeq(buf.buffer_, buf.read_index_ + 1, buf.read_index_ + n)

\* The integer at Peek().
IntAtPeek(w) == Decode(SubSeq(buf.buffer_, buf.read_index_ + 1, buf.read_index_ + w))

PeekInt(w) ==
  w <= ReadableBytes(buf) /\ out' = <<IntAtPeek(w)>> /\ UNCHANGED <<buf, peak>>

ReadInt(w) ==
  w <= ReadableBytes(buf) /\ out' = <<IntAtPeek(w)>> /\ Becomes(Retrieved(buf, w))

\* Where "\r\n" starts in [first, BeginWrite()).
Matches(first) ==
  {p \in first..(buf.write_index_ - 2) : buf.buffer_[p + 1] = CR /\ buf.buffer_[p + 2] = LF}

\* FindCRLF() from n bytes after Peek(); the result is counted from there too.
FindCRLF(n) ==
  LET found == Matches(buf.read_index_ + n)
  IN /\ \/ found = {} /\ out' = <<>>
        \/ \E p \in found : (\A q \in found : p <= q) /\ out' = <<p - buf.read_index_>>
     /\ UNCHANGED <<buf, peak>>

Next ==
  \/ \E s \in Strings : Append_(s) \/ ReadFd(s)
  \/ \E x \in Numbers : AppendInt(x[1], x[2])
  \/ ReadFdFails
  \/ \E n \in 0..ReadableBytes(buf) : Retrieve(n) \/ RetrieveAsString(n) \/ FindCRLF(n)
  \/ \E w \in Widths : PeekInt(w) \/ ReadInt(w)

Spec == Init /\ [][Next]_vars

-----------------------------------------------------------------------------
(***************************************************************************)
(* The indexes stay in order and inside the vector, and whatever is        *)
(* appended next, the assertions of MakeSpace(), EnsureWritableBytes() and *)
(* HasWritten() hold.                                                      *)
(***************************************************************************)
AssertsHold ==
  /\ 0 <= buf.read_index_ /\ buf.read_index_ <= buf.write_index_
  /\ buf.write_index_ <= Len(buf.buffer_)
  /\ \A len \in 0..MaxReadable :
       /\ len > WritableBytes(buf) /\ MustGrow(buf, len) => buf.write_index_ + len > Len(buf.buffer_)
       /\ len <= WritableBytes(EnsureWritableBytes(buf, len))

(***************************************************************************)
(* The vector stays below twice the most bytes that were ever readable at  *)
(* a time, if it grows at all, although MakeSpace() grows it without       *)
(* moving the bytes: what was read is given back often enough.             *)
(***************************************************************************)
MemoryBounded == Len(buf.buffer_) <= kInitialSize \/ Len(buf.buffer_) < 2 * peak

Abstract == INSTANCE ByteQueue WITH
  content <- Readable(buf),
  Data <- Strings \cup {Encode(x[1], x[2]) : x \in Numbers}

(***************************************************************************)
(* A Buffer is a queue of bytes: growing, moving to the front and reading  *)
(* through t_extra_buf neither lose, repeat, reorder nor invent a byte,    *)
(* and every call returns what the bytes in the queue say.                 *)
(***************************************************************************)
ImplementsByteQueue == Abstract!Spec
=============================================================================
