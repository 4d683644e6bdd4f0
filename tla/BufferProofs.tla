---------------------------- MODULE BufferProofs ----------------------------
(***************************************************************************)
(* Proofs about Buffer.tla, for every initial size, every size of          *)
(* t_extra_buf, all byte sequences and all bounds on the readable bytes.   *)
(***************************************************************************)
EXTENDS Buffer, SequenceTheorems, TLAPS

\* What the code puts into the vector, and the values its bytes have.
Data == Strings \cup {Encode(x[1], x[2]) : x \in Numbers}
Cells == {0} \cup UNION {{s[i] : i \in DOMAIN s} : s \in Data}

\* The object is well-formed: the indexes are in order and inside the vector.
BufferOK(b) ==
  /\ b \in [buffer_ : Seq(Cells), read_index_ : Nat, write_index_ : Nat]
  /\ b.read_index_ <= b.write_index_ /\ b.write_index_ <= Len(b.buffer_)

(***************************************************************************)
(* The bytes of what is appended.                                          *)
(***************************************************************************)
LEMMA DataInCells == \A s \in Data : \A i \in DOMAIN s : s[i] \in Cells
BY DEF Cells

(***************************************************************************)
(* What is appended consists of bytes, and an integer of width w of w of   *)
(* them (AppendInt8 to AppendInt64).                                       *)
(***************************************************************************)
LEMMA DataType ==
  /\ \A s \in Strings : s \in Seq(Cells)
  /\ \A x \in Numbers : /\ Encode(x[1], x[2]) \in Seq(Cells)
                        /\ Len(Encode(x[1], x[2])) = x[2] /\ x[2] \in Widths
<1>1. ASSUME NEW s \in Strings PROVE s \in Seq(Cells)
  <2>1. s \in Seq(Byte)
    BY BufferAssumption
  <2>2. Len(s) \in Nat /\ DOMAIN s = 1..Len(s) /\ s = [i \in 1..Len(s) |-> s[i]]
    BY <2>1, LenProperties
  <2>3. \A i \in 1..Len(s) : s[i] \in Cells
    BY <2>2, DataInCells DEF Data
  <2> QED
    BY <2>2, <2>3, SeqDef
<1>2. ASSUME NEW x \in Numbers
      PROVE  /\ Encode(x[1], x[2]) \in Seq(Cells)
             /\ Len(Encode(x[1], x[2])) = x[2] /\ x[2] \in Widths
  <2> DEFINE s == Encode(x[1], x[2])
             n == x[2]
  <2>1. n \in Widths /\ n \in Nat
    BY BufferAssumption
  <2>2. s = [i \in 1..n |-> s[i]] /\ DOMAIN s = 1..n
    BY DEF Encode
  <2>3. s \in Data
    BY DEF Data
  <2> HIDE DEF s, n
  <2>4. \A i \in 1..n : s[i] \in Cells
    BY <2>2, <2>3, DataInCells
  <2>5. s \in Seq(Cells)
    BY <2>1, <2>2, <2>4, SeqDef
  <2>6. Len(s) = n
    BY <2>1, <2>2, <2>5, LenProperties
  <2> QED
    BY <2>1, <2>5, <2>6 DEF s, n
<1> QED
  BY <1>1, <1>2

(***************************************************************************)
(* The readable bytes as a sequence (Peek() and ReadableBytes()).          *)
(***************************************************************************)
LEMMA ReadableType ==
  ASSUME NEW b, BufferOK(b)
  PROVE  /\ Readable(b) \in Seq(Cells) /\ Len(Readable(b)) = ReadableBytes(b)
         /\ ReadableBytes(b) \in Nat /\ WritableBytes(b) \in Nat
         /\ \A i \in 1..ReadableBytes(b) : Readable(b)[i] = b.buffer_[b.read_index_ + i]
<1>1. /\ b.buffer_ \in Seq(Cells) /\ Len(b.buffer_) \in Nat
      /\ b.read_index_ \in Nat /\ b.write_index_ \in Nat
      /\ b.read_index_ <= b.write_index_ /\ b.write_index_ <= Len(b.buffer_)
  BY LenProperties DEF BufferOK
<1> DEFINE m == b.read_index_ + 1
           n == b.write_index_
<1>2. m \in Int /\ n \in Int /\ \A i \in m..n : b.buffer_[i] \in Cells
  BY <1>1, ElementOfSeq
<1>3. /\ SubSeq(b.buffer_, m, n) \in Seq(Cells)
      /\ Len(SubSeq(b.buffer_, m, n)) = IF m <= n THEN n - m + 1 ELSE 0
      /\ \A i \in 1..n - m + 1 : SubSeq(b.buffer_, m, n)[i] = b.buffer_[m + i - 1]
  <2> HIDE DEF m, n
  <2> QED
    BY <1>2, SubSeqProperties
<1>4. /\ ReadableBytes(b) = n - m + 1 /\ ReadableBytes(b) \in Nat
      /\ WritableBytes(b) \in Nat
  BY <1>1 DEF ReadableBytes, WritableBytes
<1>5. Readable(b) \in Seq(Cells) /\ Len(Readable(b)) = ReadableBytes(b)
  BY <1>1, <1>3, <1>4 DEF Readable
<1>6. ASSUME NEW i \in 1..ReadableBytes(b)
      PROVE  Readable(b)[i] = b.buffer_[b.read_index_ + i]
  <2>1. i \in 1..n - m + 1 /\ m + i - 1 = b.read_index_ + i
    BY <1>1, <1>4
  <2> QED
    BY <1>3, <2>1 DEF Readable
<1> QED
  BY <1>4, <1>5, <1>6

(***************************************************************************)
(* A vector that is built byte by byte (resize(), copy_backward(),         *)
(* memcpy()).                                                              *)
(***************************************************************************)
LEMMA VectorType ==
  ASSUME NEW n \in Nat, NEW v, v = [i \in 1..n |-> v[i]], \A i \in 1..n : v[i] \in Cells
  PROVE  v \in Seq(Cells) /\ Len(v) = n
<1>1. v \in Seq(Cells)
  BY SeqDef
<1>2. DOMAIN v = 1..n
  OBVIOUS
<1> QED
  BY <1>1, <1>2, LenProperties

(***************************************************************************)
(* Buffers with the same readable bytes at other places.                   *)
(***************************************************************************)
LEMMA SameReadable ==
  ASSUME NEW b, NEW c, BufferOK(b), BufferOK(c), ReadableBytes(b) = ReadableBytes(c),
         \A i \in 1..ReadableBytes(b) :
           b.buffer_[b.read_index_ + i] = c.buffer_[c.read_index_ + i]
  PROVE  Readable(b) = Readable(c)
<1>1. /\ Readable(b) \in Seq(Cells) /\ Len(Readable(b)) = ReadableBytes(b)
      /\ \A i \in 1..ReadableBytes(b) : Readable(b)[i] = b.buffer_[b.read_index_ + i]
  BY ReadableType
<1>2. /\ Readable(c) \in Seq(Cells) /\ Len(Readable(c)) = ReadableBytes(c)
      /\ \A i \in 1..ReadableBytes(c) : Readable(c)[i] = c.buffer_[c.read_index_ + i]
  BY ReadableType
<1>3. \A i \in 1..Len(Readable(b)) : Readable(b)[i] = Readable(c)[i]
  BY <1>1, <1>2
<1> QED
  BY <1>1, <1>2, <1>3, SeqEqual

(***************************************************************************)
(* MakeSpace() that grows: resize() keeps the readable bytes.              *)
(***************************************************************************)
LEMMA ResizeKeeps ==
  ASSUME NEW b, BufferOK(b), NEW n \in Nat, n >= Len(b.buffer_)
  PROVE  LET c == [b EXCEPT !.buffer_ = Resize(@, n)]
         IN /\ BufferOK(c) /\ Len(c.buffer_) = n /\ Readable(c) = Readable(b)
            /\ c.read_index_ = b.read_index_ /\ c.write_index_ = b.write_index_
<1> DEFINE c == [b EXCEPT !.buffer_ = Resize(@, n)]
           v == Resize(b.buffer_, n)
<1>1. /\ b.buffer_ \in Seq(Cells) /\ Len(b.buffer_) \in Nat
      /\ b.read_index_ \in Nat /\ b.write_index_ \in Nat
      /\ b.read_index_ <= b.write_index_ /\ b.write_index_ <= Len(b.buffer_)
  BY LenProperties DEF BufferOK
<1>2. c = [buffer_ |-> v, read_index_ |-> b.read_index_, write_index_ |-> b.write_index_]
  BY DEF BufferOK
<1>3. /\ v = [i \in 1..n |-> v[i]]
      /\ \A i \in 1..n : v[i] = IF i <= Len(b.buffer_) THEN b.buffer_[i] ELSE 0
  BY DEF Resize
<1>4. \A i \in 1..n : v[i] \in Cells
  <2> SUFFICES ASSUME NEW i \in 1..n PROVE v[i] \in Cells
    OBVIOUS
  <2>1. CASE i <= Len(b.buffer_)
    BY <1>1, <1>3, <2>1, ElementOfSeq
  <2>2. CASE ~(i <= Len(b.buffer_))
    BY <1>3, <2>2 DEF Cells
  <2> QED
    BY <2>1, <2>2
<1> HIDE DEF v, c
<1>5. v \in Seq(Cells) /\ Len(v) = n
  BY <1>3, <1>4, VectorType
<1>6. BufferOK(c) /\ Len(c.buffer_) = n
  BY <1>1, <1>2, <1>5 DEF BufferOK
<1>7. \A i \in 1..ReadableBytes(c) : c.buffer_[c.read_index_ + i] = b.buffer_[b.read_index_ + i]
  BY <1>1, <1>2, <1>3, SMTT(30) DEF ReadableBytes
<1>8. ReadableBytes(c) = ReadableBytes(b)
  BY <1>2 DEF ReadableBytes
<1>9. Readable(c) = Readable(b)
  BY <1>6, <1>7, <1>8, SameReadable
<1> QED
  BY <1>2, <1>6, <1>9 DEF c

(***************************************************************************)
(* MakeSpace() that moves: the readable bytes stay, at the front, and what *)
(* was read becomes writable.                                              *)
(***************************************************************************)
LEMMA MoveKeeps ==
  ASSUME NEW b, BufferOK(b)
  PROVE  LET c == MoveToFront(b)
         IN /\ BufferOK(c) /\ Len(c.buffer_) = Len(b.buffer_) /\ Readable(c) = Readable(b)
            /\ c.read_index_ = 0 /\ c.write_index_ = ReadableBytes(b)
<1> DEFINE c == MoveToFront(b)
           v == CopyBackward(b)
           n == Len(b.buffer_)
<1>1. /\ b.buffer_ \in Seq(Cells) /\ n \in Nat
      /\ b.read_index_ \in Nat /\ b.write_index_ \in Nat
      /\ b.read_index_ <= b.write_index_ /\ b.write_index_ <= n
      /\ ReadableBytes(b) = b.write_index_ - b.read_index_
  BY LenProperties DEF BufferOK, ReadableBytes
<1>2. c = [buffer_ |-> v, read_index_ |-> 0, write_index_ |-> ReadableBytes(b)]
  BY DEF MoveToFront
<1>3. /\ v = [i \in 1..n |-> v[i]]
      /\ \A i \in 1..n : v[i] = IF i <= ReadableBytes(b) THEN b.buffer_[b.read_index_ + i]
                                                        ELSE b.buffer_[i]
  BY DEF CopyBackward
<1> HIDE DEF v, c
<1>4. \A i \in 1..n : v[i] \in Cells
  <2> SUFFICES ASSUME NEW i \in 1..n PROVE v[i] \in Cells
    OBVIOUS
  <2>1. CASE i <= ReadableBytes(b)
    <3>1. b.read_index_ + i \in 1..n
      BY <1>1, <2>1
    <3> QED
      BY <1>1, <1>3, <2>1, <3>1, ElementOfSeq
  <2>2. CASE ~(i <= ReadableBytes(b))
    BY <1>1, <1>3, <2>2, ElementOfSeq
  <2> QED
    BY <2>1, <2>2
<1>5. v \in Seq(Cells) /\ Len(v) = n
  BY <1>1, <1>3, <1>4, VectorType
<1>6. BufferOK(c) /\ Len(c.buffer_) = n
  BY <1>1, <1>2, <1>5 DEF BufferOK
<1>7. ReadableBytes(c) = ReadableBytes(b)
  BY <1>1, <1>2 DEF ReadableBytes
<1>8. ASSUME NEW i \in 1..ReadableBytes(c)
      PROVE  c.buffer_[c.read_index_ + i] = b.buffer_[b.read_index_ + i]
  <2>1. i \in 1..n /\ i <= ReadableBytes(b) /\ c.read_index_ + i = i /\ c.buffer_ = v
    BY <1>1, <1>2, <1>7
  <2> QED
    BY <1>3, <2>1
<1>9. Readable(c) = Readable(b)
  BY <1>6, <1>7, <1>8, SameReadable
<1> QED
  BY <1>2, <1>6, <1>9 DEF c

(***************************************************************************)
(* EnsureWritableBytes(): its assertion holds, the readable bytes are kept *)
(* and the vector stays below twice what will be readable if it grows.     *)
(***************************************************************************)
LEMMA SpaceIsMade ==
  ASSUME NEW b, BufferOK(b), NEW len \in Nat
  PROVE  LET c == EnsureWritableBytes(b, len)
         IN /\ BufferOK(c) /\ Readable(c) = Readable(b) /\ len <= WritableBytes(c)
            /\ ReadableBytes(c) = ReadableBytes(b)
            /\ \/ Len(c.buffer_) = Len(b.buffer_)
               \/ Len(c.buffer_) < 2 * (ReadableBytes(b) + len)
<1> DEFINE c == EnsureWritableBytes(b, len)
<1>1. /\ Len(b.buffer_) \in Nat /\ b.read_index_ \in Nat /\ b.write_index_ \in Nat
      /\ b.read_index_ <= b.write_index_ /\ b.write_index_ <= Len(b.buffer_)
      /\ ReadableBytes(b) = b.write_index_ - b.read_index_
      /\ WritableBytes(b) = Len(b.buffer_) - b.write_index_
  BY LenProperties DEF BufferOK, ReadableBytes, WritableBytes
<1>2. CASE len <= WritableBytes(b)
  <2>1. c = b
    BY <1>1, <1>2 DEF EnsureWritableBytes
  <2> QED
    BY <1>2, <2>1
<1>3. CASE len > WritableBytes(b) /\ MustGrow(b, len)
  <2> DEFINE n == b.write_index_ + len
  <2>1. c = [b EXCEPT !.buffer_ = Resize(@, n)]
    BY <1>3 DEF EnsureWritableBytes, MakeSpace
  <2>2. n \in Nat /\ n >= Len(b.buffer_)
    BY <1>1, <1>3
  <2> HIDE DEF n, c
  <2>3. /\ BufferOK(c) /\ Len(c.buffer_) = n /\ Readable(c) = Readable(b)
        /\ c.read_index_ = b.read_index_ /\ c.write_index_ = b.write_index_
    BY <2>1, <2>2, ResizeKeeps
  <2>4. len <= WritableBytes(c) /\ ReadableBytes(c) = ReadableBytes(b)
    BY <1>1, <2>3 DEF n, WritableBytes, ReadableBytes
  <2>5. n < 2 * (ReadableBytes(b) + len)
    BY <1>1, <1>3, SMTT(30) DEF n, MustGrow
  <2> QED
    BY <2>3, <2>4, <2>5 DEF c
<1>4. CASE len > WritableBytes(b) /\ ~MustGrow(b, len)
  <2>1. c = MoveToFront(b)
    BY <1>4 DEF EnsureWritableBytes, MakeSpace
  <2> HIDE DEF c
  <2>2. /\ BufferOK(c) /\ Len(c.buffer_) = Len(b.buffer_) /\ Readable(c) = Readable(b)
        /\ c.read_index_ = 0 /\ c.write_index_ = ReadableBytes(b)
    BY <2>1, MoveKeeps
  <2>3. len <= WritableBytes(c) /\ ReadableBytes(c) = ReadableBytes(b)
    BY <1>1, <1>4, <2>2 DEF WritableBytes, ReadableBytes, MustGrow
  <2> QED
    BY <2>2, <2>3 DEF c
<1> QED
  BY <1>1, <1>2, <1>3, <1>4

(***************************************************************************)
(* memcpy() or readv() to BeginWrite() and HasWritten(), with enough room: *)
(* the bytes come behind the readable ones.                                *)
(***************************************************************************)
LEMMA WriteAppends ==
  ASSUME NEW b, BufferOK(b), NEW s \in Seq(Cells), Len(s) <= WritableBytes(b)
  PROVE  LET c == Write(b, s)
         IN /\ BufferOK(c) /\ Len(c.buffer_) = Len(b.buffer_)
            /\ Readable(c) = Readable(b) \o s
            /\ ReadableBytes(c) = ReadableBytes(b) + Len(s)
            /\ WritableBytes(c) = WritableBytes(b) - Len(s)
<1> DEFINE c == Write(b, s)
           n == Len(b.buffer_)
           w == b.write_index_
           v == [i \in 1..n |-> IF i \in w + 1 .. w + Len(s) THEN s[i - w] ELSE b.buffer_[i]]
<1>1. /\ b.buffer_ \in Seq(Cells) /\ n \in Nat /\ w \in Nat /\ Len(s) \in Nat
      /\ b.read_index_ \in Nat /\ b.read_index_ <= w /\ w <= n /\ w + Len(s) <= n
      /\ ReadableBytes(b) = w - b.read_index_ /\ WritableBytes(b) = n - w
  BY LenProperties DEF BufferOK, ReadableBytes, WritableBytes
<1>2. c = [buffer_ |-> v, read_index_ |-> b.read_index_, write_index_ |-> w + Len(s)]
  BY DEF Write
<1>3. /\ v = [i \in 1..n |-> v[i]]
      /\ \A i \in 1..n : v[i] = IF i \in w + 1 .. w + Len(s) THEN s[i - w] ELSE b.buffer_[i]
  OBVIOUS
<1> HIDE DEF v, c, n, w
<1>4. \A i \in 1..n : v[i] \in Cells
  <2> SUFFICES ASSUME NEW i \in 1..n PROVE v[i] \in Cells
    OBVIOUS
  <2>1. CASE i \in w + 1 .. w + Len(s)
    <3>1. i - w \in 1..Len(s)
      BY <1>1, <2>1
    <3> QED
      BY <1>3, <2>1, <3>1, ElementOfSeq
  <2>2. CASE i \notin w + 1 .. w + Len(s)
    BY <1>1, <1>3, <2>2, ElementOfSeq DEF n
  <2> QED
    BY <2>1, <2>2
<1>5. v \in Seq(Cells) /\ Len(v) = n
  BY <1>1, <1>3, <1>4, VectorType
<1>6. /\ BufferOK(c) /\ Len(c.buffer_) = n
      /\ ReadableBytes(c) = ReadableBytes(b) + Len(s)
      /\ WritableBytes(c) = WritableBytes(b) - Len(s)
  <2>1. c.buffer_ = v /\ c.read_index_ = b.read_index_ /\ c.write_index_ = w + Len(s)
    BY <1>2
  <2>2. BufferOK(c) /\ Len(c.buffer_) = n
    BY <1>1, <1>2, <1>5 DEF BufferOK
  <2>3. ReadableBytes(c) = ReadableBytes(b) + Len(s)
    BY <1>1, <2>1 DEF ReadableBytes, w
  <2>4. WritableBytes(c) = WritableBytes(b) - Len(s)
    BY <1>1, <2>1, <2>2 DEF WritableBytes, w, n
  <2> QED
    BY <2>2, <2>3, <2>4
<1>7. /\ Readable(b) \in Seq(Cells) /\ Len(Readable(b)) = ReadableBytes(b)
      /\ \A i \in 1..ReadableBytes(b) : Readable(b)[i] = b.buffer_[b.read_index_ + i]
  BY ReadableType
<1>8. /\ Readable(c) \in Seq(Cells) /\ Len(Readable(c)) = ReadableBytes(c)
      /\ \A i \in 1..ReadableBytes(c) : Readable(c)[i] = c.buffer_[c.read_index_ + i]
  BY <1>6, ReadableType
<1>9. /\ Readable(b) \o s \in Seq(Cells)
      /\ Len(Readable(b) \o s) = ReadableBytes(b) + Len(s)
      /\ \A i \in 1..ReadableBytes(b) + Len(s) : (Readable(b) \o s)[i] =
           IF i <= ReadableBytes(b) THEN Readable(b)[i] ELSE s[i - ReadableBytes(b)]
  <2> DEFINE r == Readable(b)
  <2>1. r \in Seq(Cells) /\ Len(r) = ReadableBytes(b)
    BY <1>7
  <2> HIDE DEF r
  <2>2. /\ r \o s \in Seq(Cells) /\ Len(r \o s) = Len(r) + Len(s)
        /\ \A i \in 1 .. Len(r) + Len(s) :
             (r \o s)[i] = IF i <= Len(r) THEN r[i] ELSE s[i - Len(r)]
    BY <2>1, ConcatProperties
  <2> QED
    BY <2>1, <2>2 DEF r
<1>10. ASSUME NEW i \in 1..ReadableBytes(c)
       PROVE  Readable(c)[i] = (Readable(b) \o s)[i]
  <2> DEFINE k == b.read_index_ + i
             r == ReadableBytes(b)
  <2>1. Readable(c)[i] = v[k] /\ k \in 1..n /\ i \in 1..r + Len(s) /\ r \in Nat
    <3>1. r \in Nat /\ i \in 1..r + Len(s)
      BY <1>1, <1>6
    <3>2. k \in 1..n
      <4>1. i \in Nat /\ 1 <= i /\ i <= r + Len(s)
        BY <1>1, <3>1
      <4>2. k \in Nat /\ 1 <= k /\ k <= n
        BY <1>1, <4>1, SMTT(30)
      <4> QED
        BY <1>1, <4>2
    <3>3. Readable(c)[i] = c.buffer_[c.read_index_ + i]
      BY <1>8
    <3>4. c.buffer_ = v /\ c.read_index_ = b.read_index_
      BY <1>2
    <3> QED
      BY <3>1, <3>2, <3>3, <3>4
  <2>2. CASE i <= r
    <3>1. k \notin w + 1 .. w + Len(s) /\ i \in 1..r
      BY <1>1, <2>1, <2>2, SMTT(30)
    <3>2. v[k] = b.buffer_[k]
      BY <1>3, <2>1, <3>1
    <3>3. (Readable(b) \o s)[i] = Readable(b)[i]
      BY <1>9, <2>1, <2>2
    <3> QED
      BY <1>7, <2>1, <3>1, <3>2, <3>3
  <2>3. CASE ~(i <= r)
    <3>1. k \in w + 1 .. w + Len(s) /\ k - w = i - r
      BY <1>1, <2>1, <2>3, SMTT(30)
    <3>2. v[k] = s[k - w]
      BY <1>3, <2>1, <3>1
    <3>3. (Readable(b) \o s)[i] = s[i - r]
      BY <1>9, <2>1, <2>3
    <3> QED
      BY <2>1, <3>1, <3>2, <3>3
  <2> QED
    BY <2>2, <2>3
<1>11. Readable(c) = Readable(b) \o s
  BY <1>6, <1>8, <1>9, <1>10, SeqEqual
<1> QED
  BY <1>6, <1>11 DEF c, n

(***************************************************************************)
(* Append(): the bytes come behind the readable ones, and memory stays     *)
(* below twice the readable bytes if the vector grows.                     *)
(***************************************************************************)
LEMMA AppendAppends ==
  ASSUME NEW b, BufferOK(b), NEW s \in Seq(Cells)
  PROVE  LET c == Appended(b, s)
         IN /\ BufferOK(c) /\ Readable(c) = Readable(b) \o s
            /\ ReadableBytes(c) = ReadableBytes(b) + Len(s)
            /\ Len(c.buffer_) = Len(b.buffer_) \/ Len(c.buffer_) < 2 * ReadableBytes(c)
<1> DEFINE e == EnsureWritableBytes(b, Len(s))
           c == Write(e, s)
<1>1. Len(s) \in Nat
  BY LenProperties
<1>2. /\ BufferOK(e) /\ Readable(e) = Readable(b) /\ Len(s) <= WritableBytes(e)
      /\ ReadableBytes(e) = ReadableBytes(b)
      /\ \/ Len(e.buffer_) = Len(b.buffer_)
         \/ Len(e.buffer_) < 2 * (ReadableBytes(b) + Len(s))
  BY <1>1, SpaceIsMade
<1> HIDE DEF e
<1>3. /\ BufferOK(c) /\ Len(c.buffer_) = Len(e.buffer_)
      /\ Readable(c) = Readable(e) \o s
      /\ ReadableBytes(c) = ReadableBytes(e) + Len(s)
  BY <1>2, WriteAppends
<1> QED
  BY <1>2, <1>3 DEF e, Appended

(***************************************************************************)
(* Concatenation of bytes is associative.                                  *)
(***************************************************************************)
LEMMA BytesConcatAssociative ==
  \A s, t, u \in Seq(Cells) : (s \o t) \o u = s \o (t \o u)
BY ConcatAssociative

(***************************************************************************)
(* ReadFd(): the free bytes and t_extra_buf together take what arrived.    *)
(***************************************************************************)
LEMMA ReadFdAppends ==
  ASSUME NEW b, BufferOK(b), NEW s \in Seq(Cells), Len(s) > WritableBytes(b)
  PROVE  LET w == WritableBytes(b)
             c == Appended(Write(b, SubSeq(s, 1, w)), SubSeq(s, w + 1, Len(s)))
         IN /\ BufferOK(c) /\ Readable(c) = Readable(b) \o s
            /\ ReadableBytes(c) = ReadableBytes(b) + Len(s)
            /\ Len(c.buffer_) = Len(b.buffer_) \/ Len(c.buffer_) < 2 * ReadableBytes(c)
<1> DEFINE w == WritableBytes(b)
           s1 == SubSeq(s, 1, w)
           s2 == SubSeq(s, w + 1, Len(s))
           d == Write(b, s1)
           c == Appended(d, s2)
<1>1. w \in Nat /\ Len(s) \in Nat /\ Len(s) > w /\ Readable(b) \in Seq(Cells)
  BY ReadableType, LenProperties
<1> HIDE DEF w
<1>2. \A i \in 1..Len(s) : s[i] \in Cells
  BY ElementOfSeq
<1>3. s1 \in Seq(Cells) /\ Len(s1) = w
  <2>1. \A i \in 1..w : s[i] \in Cells
    BY <1>1, <1>2
  <2> QED
    BY <1>1, <2>1, SubSeqProperties
<1>4. s2 \in Seq(Cells) /\ Len(s2) = Len(s) - w
  <2>1. \A i \in w + 1 .. Len(s) : s[i] \in Cells
    BY <1>1, <1>2
  <2>2. w + 1 \in Int /\ Len(s) \in Int
    BY <1>1
  <2>3. /\ s2 \in Seq(Cells)
        /\ Len(s2) = IF w + 1 <= Len(s) THEN Len(s) - (w + 1) + 1 ELSE 0
    BY <2>1, <2>2, SubSeqProperties
  <2> HIDE DEF s2
  <2> QED
    BY <1>1, <2>3
<1>5. s1 \o s2 = s
  <2>1. 1 \in 1..Len(s) + 1 /\ w \in 1 - 1 .. Len(s) /\ Len(s) \in w..Len(s)
    BY <1>1
  <2>2. s1 \o s2 = SubSeq(s, 1, Len(s))
    BY <2>1, ConcatAdjacentSubSeq
  <2> QED
    BY <2>2, SubSeqFull
<1> HIDE DEF s1, s2
<1>6. /\ BufferOK(d) /\ Len(d.buffer_) = Len(b.buffer_)
      /\ Readable(d) = Readable(b) \o s1 /\ ReadableBytes(d) = ReadableBytes(b) + w
  <2>1. Len(s1) <= WritableBytes(b)
    BY <1>1, <1>3 DEF w
  <2> QED
    BY <1>3, <2>1, WriteAppends
<1> HIDE DEF d
<1>7. /\ BufferOK(c) /\ Readable(c) = Readable(d) \o s2
      /\ ReadableBytes(c) = ReadableBytes(d) + Len(s2)
      /\ Len(c.buffer_) = Len(d.buffer_) \/ Len(c.buffer_) < 2 * ReadableBytes(c)
  BY <1>4, <1>6, AppendAppends
<1>8. Readable(c) = Readable(b) \o s
  <2>1. (Readable(b) \o s1) \o s2 = Readable(b) \o (s1 \o s2)
    BY <1>1, <1>3, <1>4, BytesConcatAssociative, ZenonT(60)
  <2> QED
    BY <1>5, <1>6, <1>7, <2>1
<1>9. ReadableBytes(c) = ReadableBytes(b) + Len(s)
  <2>1. ReadableBytes(b) \in Nat
    BY ReadableType
  <2> QED
    BY <1>1, <1>4, <1>6, <1>7, <2>1
<1> QED
  BY <1>6, <1>7, <1>8, <1>9 DEF c, d, s1, s2, w

(***************************************************************************)
(* Retrieve() and RetrieveAll() drop the bytes at the front, and what      *)
(* RetrieveAsString() and PeekInt8() to PeekInt64() look at are the bytes  *)
(* at the front.                                                           *)
(***************************************************************************)
LEMMA RetrieveDrops ==
  ASSUME NEW b, BufferOK(b), NEW n \in 0..ReadableBytes(b)
  PROVE  /\ SubSeq(b.buffer_, b.read_index_ + 1, b.read_index_ + n) = SubSeq(Readable(b), 1, n)
         /\ LET c == Retrieved(b, n)
            IN /\ BufferOK(c) /\ Len(c.buffer_) = Len(b.buffer_)
               /\ ReadableBytes(c) = ReadableBytes(b) - n
               /\ Readable(c) = SubSeq(Readable(b), n + 1, Len(Readable(b)))
<1> DEFINE c == Retrieved(b, n)
           r == b.read_index_
           v == b.buffer_
           a == Readable(b)
<1>1. /\ v \in Seq(Cells) /\ Len(v) \in Nat /\ r \in Nat /\ b.write_index_ \in Nat
      /\ r <= b.write_index_ /\ b.write_index_ <= Len(v)
      /\ ReadableBytes(b) = b.write_index_ - r /\ ReadableBytes(b) \in Nat /\ n \in Nat
      /\ n <= ReadableBytes(b)
      /\ b = [buffer_ |-> v, read_index_ |-> r, write_index_ |-> b.write_index_]
  BY LenProperties DEF BufferOK, ReadableBytes
<1>2. /\ a \in Seq(Cells) /\ Len(a) = ReadableBytes(b)
      /\ \A i \in 1..ReadableBytes(b) : a[i] = v[r + i] /\ a[i] \in Cells
  BY ReadableType, ElementOfSeq
<1> HIDE DEF r, v, a
<1>3. SubSeq(v, r + 1, r + n) = SubSeq(a, 1, n)
  <2> DEFINE x == SubSeq(v, r + 1, r + n)
             y == SubSeq(a, 1, n)
  <2>1. r + 1 \in Int /\ r + n \in Int /\ \A i \in r + 1 .. r + n : v[i] \in Cells
    BY <1>1, ElementOfSeq
  <2>2. x \in Seq(Cells) /\ Len(x) = n /\ \A i \in 1..n : x[i] = v[r + i]
    <3> DEFINE p == r + 1
               q == r + n
    <3>1. p \in Int /\ q \in Int /\ \A i \in p..q : v[i] \in Cells
      BY <2>1
    <3>2. x = SubSeq(v, p, q)
      OBVIOUS
    <3> HIDE DEF x, p, q
    <3>3. /\ x \in Seq(Cells) /\ Len(x) = IF p <= q THEN q - p + 1 ELSE 0
          /\ \A i \in 1..q - p + 1 : x[i] = v[p + i - 1]
      BY <3>1, <3>2, SubSeqProperties
    <3>4. q - p + 1 = n /\ (p <= q <=> 1 <= n) /\ \A i \in 1..n : p + i - 1 = r + i
      BY <1>1 DEF p, q
    <3>5. \A i \in 1..n : x[i] = v[r + i]
      BY <3>3, <3>4
    <3> QED
      BY <1>1, <3>3, <3>4, <3>5
  <2>3. \A i \in 1..n : a[i] \in Cells
    BY <1>1, <1>2
  <2>4. /\ y \in Seq(Cells) /\ Len(y) = IF 1 <= n THEN n - 1 + 1 ELSE 0
        /\ \A i \in 1..n - 1 + 1 : y[i] = a[1 + i - 1]
    BY <1>1, <2>3, SubSeqProperties, SMTT(30)
  <2> HIDE DEF x, y
  <2>5. Len(x) = n /\ Len(y) = n
    BY <1>1, <2>2, <2>4
  <2>6. ASSUME NEW i \in 1..n PROVE x[i] = y[i]
    <3>1. n - 1 + 1 = n /\ 1 + i - 1 = i /\ i \in 1..ReadableBytes(b)
      BY <1>1
    <3> QED
      BY <1>2, <2>2, <2>4, <3>1
  <2> QED
    BY <2>2, <2>4, <2>5, <2>6, SeqEqual DEF x, y
<1> DEFINE z == SubSeq(a, n + 1, Len(a))
<1>4. /\ z \in Seq(Cells) /\ Len(z) = ReadableBytes(b) - n
      /\ \A i \in 1..ReadableBytes(b) - n : z[i] = a[n + i]
  <2>1. \A i \in n + 1 .. Len(a) : a[i] \in Cells
    BY <1>1, <1>2
  <2>2. n + 1 \in Int /\ Len(a) \in Int
    BY <1>1, <1>2
  <2>3. /\ z \in Seq(Cells) /\ Len(z) = IF n + 1 <= Len(a) THEN Len(a) - (n + 1) + 1 ELSE 0
        /\ \A i \in 1..Len(a) - (n + 1) + 1 : z[i] = a[n + 1 + i - 1]
    BY <2>1, <2>2, SubSeqProperties
  <2> HIDE DEF z
  <2>4. Len(a) - (n + 1) + 1 = ReadableBytes(b) - n
    BY <1>1, <1>2
  <2>5. ASSUME NEW i \in 1..ReadableBytes(b) - n PROVE z[i] = a[n + i]
    <3>1. n + 1 + i - 1 = n + i
      BY <1>1
    <3> QED
      BY <2>3, <2>4, <3>1
  <2> QED
    BY <1>1, <1>2, <2>3, <2>4, <2>5
<1> HIDE DEF z
<1>5. /\ BufferOK(c) /\ Len(c.buffer_) = Len(v)
      /\ ReadableBytes(c) = ReadableBytes(b) - n /\ Readable(c) = z
  <2>1. CASE n < ReadableBytes(b)
    <3>1. c = [buffer_ |-> v, read_index_ |-> r + n, write_index_ |-> b.write_index_]
      BY <1>1, <2>1 DEF Retrieved
    <3> HIDE DEF c
    <3>2. /\ BufferOK(c) /\ Len(c.buffer_) = Len(v)
          /\ ReadableBytes(c) = ReadableBytes(b) - n
      BY <1>1, <2>1, <3>1 DEF BufferOK, ReadableBytes
    <3>3. /\ Readable(c) \in Seq(Cells) /\ Len(Readable(c)) = ReadableBytes(c)
          /\ \A i \in 1..ReadableBytes(c) : Readable(c)[i] = c.buffer_[c.read_index_ + i]
      BY <3>2, ReadableType
    <3>4. ASSUME NEW i \in 1..ReadableBytes(b) - n PROVE Readable(c)[i] = z[i]
      <4>1. n + i \in 1..ReadableBytes(b) /\ r + (n + i) = r + n + i
        BY <1>1
      <4>2. Readable(c)[i] = v[r + n + i]
        BY <3>1, <3>2, <3>3
      <4> QED
        BY <1>2, <1>4, <4>1, <4>2
    <3>5. Readable(c) = z
      BY <1>4, <3>2, <3>3, <3>4, SeqEqual
    <3> QED
      BY <3>2, <3>5
  <2>2. CASE n = ReadableBytes(b)
    <3>1. c = [buffer_ |-> v, read_index_ |-> 0, write_index_ |-> 0]
      BY <1>1, <2>2 DEF Retrieved
    <3> HIDE DEF c
    <3>2. /\ BufferOK(c) /\ Len(c.buffer_) = Len(v) /\ ReadableBytes(c) = 0
      BY <1>1, <3>1 DEF BufferOK, ReadableBytes
    <3>3. /\ Readable(c) \in Seq(Cells) /\ Len(Readable(c)) = 0
      BY <3>2, ReadableType
    <3>4. Len(z) = 0
      BY <1>1, <1>4, <2>2
    <3>5. Readable(c) = z
      BY <1>4, <3>3, <3>4, EmptySeq
    <3> QED
      BY <1>1, <2>2, <3>2, <3>5
  <2> QED
    BY <1>1, <2>1, <2>2
<1> QED
  BY <1>3, <1>5 DEF c, r, v, a, z

-----------------------------------------------------------------------------
(***************************************************************************)
(* The inductive invariant: the object is well-formed, the vector is       *)
(* small, and peak is at least what is readable now.                       *)
(***************************************************************************)
Inv ==
  /\ BufferOK(buf) /\ MemoryBounded
  /\ peak \in Nat /\ ReadableBytes(buf) <= peak

\* The object becomes c, which holds what was readable and the bytes s.
Adds(c, s) ==
  /\ BufferOK(c) /\ Readable(c) = Readable(buf) \o s
  /\ Len(c.buffer_) = Len(buf.buffer_) \/ Len(c.buffer_) < 2 * ReadableBytes(c)

\* The object becomes c, with the first n bytes dropped.
Drops(c, n) ==
  /\ BufferOK(c) /\ Len(c.buffer_) = Len(buf.buffer_)
  /\ Readable(c) = SubSeq(Readable(buf), n + 1, Len(Readable(buf)))

(***************************************************************************)
(* The constructor establishes the invariant.                              *)
(***************************************************************************)
LEMMA InitInv ==
  ASSUME Init PROVE Inv /\ Readable(buf) = <<>>
<1> DEFINE v == [i \in 1..kInitialSize |-> 0]
<1>1. buf = [buffer_ |-> v, read_index_ |-> 0, write_index_ |-> 0] /\ peak = 0
  BY DEF Init
<1>2. kInitialSize \in Nat
  BY BufferAssumption
<1>3. v \in Seq(Cells) /\ Len(v) = kInitialSize
  <2>1. v = [i \in 1..kInitialSize |-> v[i]] /\ \A i \in 1..kInitialSize : v[i] \in Cells
    BY DEF Cells
  <2> HIDE DEF v
  <2> QED
    BY <1>2, <2>1, VectorType
<1> HIDE DEF v
<1>4. BufferOK(buf) /\ Len(buf.buffer_) = kInitialSize /\ ReadableBytes(buf) = 0
  BY <1>1, <1>2, <1>3 DEF BufferOK, ReadableBytes
<1>5. Readable(buf) = <<>>
  BY <1>4, ReadableType, EmptySeq
<1> QED
  BY <1>1, <1>2, <1>4, <1>5 DEF Inv, MemoryBounded

(***************************************************************************)
(* A step that adds or drops bytes, or leaves the object alone, keeps the  *)
(* invariant.                                                              *)
(***************************************************************************)
LEMMA BecomesInv ==
  ASSUME Inv, NEW c, BufferOK(c), Becomes(c),
         Len(c.buffer_) = Len(buf.buffer_) \/ Len(c.buffer_) < 2 * ReadableBytes(c)
  PROVE  Inv'
<1>1. /\ buf' = c /\ ReadableBytes(c) \in Nat /\ Len(c.buffer_) \in Nat
      /\ Len(buf.buffer_) \in Nat /\ peak \in Nat /\ kInitialSize \in Nat
  BY ReadableType, LenProperties, BufferAssumption DEF Becomes, Inv, BufferOK
<1>2. peak' \in Nat /\ peak' >= peak /\ peak' >= ReadableBytes(c)
  BY <1>1 DEF Becomes
<1>3. BufferOK(buf)' /\ (ReadableBytes(buf) <= peak)'
  BY <1>1, <1>2 DEF BufferOK, ReadableBytes
<1>4. Len(buf'.buffer_) <= kInitialSize \/ Len(buf'.buffer_) < 2 * peak'
  BY <1>1, <1>2 DEF Inv, MemoryBounded
<1> QED
  BY <1>2, <1>3, <1>4 DEF Inv, MemoryBounded

(***************************************************************************)
(* The three calls that add bytes.                                         *)
(***************************************************************************)
LEMMA PutSteps ==
  ASSUME Inv
  PROVE  /\ \A s \in Strings :
              Append_(s) => \E c : Becomes(c) /\ Adds(c, s) /\ out' = <<>>
         /\ \A s \in Strings :
              ReadFd(s) => \E c : Becomes(c) /\ Adds(c, s) /\ out' = <<Len(s)>>
         /\ \A x \in Numbers : AppendInt(x[1], x[2]) =>
              \E c : Becomes(c) /\ Adds(c, Encode(x[1], x[2])) /\ out' = <<>>
<1>1. ASSUME NEW s \in Strings, Append_(s)
      PROVE  \E c : Becomes(c) /\ Adds(c, s) /\ out' = <<>>
  <2>1. s \in Seq(Cells)
    BY DataType
  <2>2. Adds(Appended(buf, s), s)
    BY <1>1, <2>1, AppendAppends DEF Inv, Adds
  <2> QED
    BY <1>1, <2>2 DEF Append_
<1>2. ASSUME NEW s \in Strings, ReadFd(s)
      PROVE  \E c : Becomes(c) /\ Adds(c, s) /\ out' = <<Len(s)>>
  <2> DEFINE w == WritableBytes(buf)
             d == Appended(Write(buf, SubSeq(s, 1, w)), SubSeq(s, w + 1, Len(s)))
  <2>1. s \in Seq(Cells)
    BY DataType
  <2>2. CASE Len(s) <= w /\ Becomes(Write(buf, s))
    <3>1. Adds(Write(buf, s), s)
      BY <1>2, <2>1, <2>2, WriteAppends DEF Inv, Adds
    <3> QED
      BY <1>2, <2>2, <3>1 DEF ReadFd
  <2>3. CASE Len(s) > w /\ Becomes(d)
    <3>1. Adds(d, s)
      BY <1>2, <2>1, <2>3, ReadFdAppends DEF Inv, Adds
    <3> QED
      BY <1>2, <2>3, <3>1 DEF ReadFd
  <2> QED
    BY <1>2, <2>2, <2>3 DEF ReadFd
<1>3. ASSUME NEW x \in Numbers, AppendInt(x[1], x[2])
      PROVE  \E c : Becomes(c) /\ Adds(c, Encode(x[1], x[2])) /\ out' = <<>>
  <2> DEFINE s == Encode(x[1], x[2])
  <2>1. s \in Seq(Cells) /\ Becomes(Appended(buf, s)) /\ out' = <<>>
    BY <1>3, DataType DEF AppendInt
  <2> HIDE DEF s
  <2>2. Adds(Appended(buf, s), s)
    BY <1>3, <2>1, AppendAppends DEF Inv, Adds
  <2> QED
    BY <2>1, <2>2 DEF s
<1> QED
  BY <1>1, <1>2, <1>3

(***************************************************************************)
(* The calls that drop bytes, and what the ones that look at the front     *)
(* see.                                                                    *)
(***************************************************************************)
LEMMA TakeSteps ==
  ASSUME Inv, NEW n \in 0..ReadableBytes(buf)
  PROVE  /\ Drops(Retrieved(buf, n), n)
         /\ SubSeq(buf.buffer_, buf.read_index_ + 1, buf.read_index_ + n)
              = SubSeq(Readable(buf), 1, n)
BY RetrieveDrops DEF Inv, Drops

(***************************************************************************)
(* Every step keeps the invariant.                                         *)
(***************************************************************************)
LEMMA NextInv ==
  ASSUME Inv, [Next]_vars PROVE Inv'
<1>0. ReadableBytes(buf) \in Nat
  BY ReadableType DEF Inv
<1>1. ASSUME NEW s \in Strings, Append_(s) \/ ReadFd(s) PROVE Inv'
  <2>1. PICK c : Becomes(c) /\ Adds(c, s)
    BY <1>1, PutSteps
  <2> QED
    BY <2>1, BecomesInv DEF Adds
<1>2. ASSUME NEW x \in Numbers, AppendInt(x[1], x[2]) PROVE Inv'
  <2>1. PICK c : Becomes(c) /\ Adds(c, Encode(x[1], x[2]))
    BY <1>2, PutSteps
  <2> QED
    BY <2>1, BecomesInv DEF Adds
<1>3. ASSUME NEW n \in 0..ReadableBytes(buf), Becomes(Retrieved(buf, n)) PROVE Inv'
  <2>1. Drops(Retrieved(buf, n), n)
    BY TakeSteps
  <2> QED
    BY <1>3, <2>1, BecomesInv DEF Drops
<1>4. ASSUME NEW w \in Widths, ReadInt(w) PROVE Inv'
  <2>1. w \in 0..ReadableBytes(buf)
    BY <1>0, <1>4, BufferAssumption DEF ReadInt
  <2> QED
    BY <1>3, <1>4, <2>1 DEF ReadInt
<1>5. ASSUME UNCHANGED <<buf, peak>> PROVE Inv'
  BY <1>5 DEF Inv, MemoryBounded, BufferOK, ReadableBytes
<1> QED
  BY <1>1, <1>2, <1>3, <1>4, <1>5
     DEF Next, vars, ReadFdFails, Retrieve, RetrieveAsString, FindCRLF, PeekInt

(***************************************************************************)
(* The object stays well-formed and its memory bounded.                    *)
(***************************************************************************)
LEMMA Invariance == Spec => []Inv
BY InitInv, NextInv, PTL DEF Spec

(***************************************************************************)
(* For all sizes and whatever is appended, read and retrieved, the         *)
(* assertions of MakeSpace(), EnsureWritableBytes() and HasWritten() hold. *)
(***************************************************************************)
THEOREM AssertionsHold == Spec => []AssertsHold
<1>1. ASSUME Inv PROVE AssertsHold
  <2>1. /\ Len(buf.buffer_) \in Nat /\ buf.read_index_ \in Nat /\ buf.write_index_ \in Nat
        /\ buf.read_index_ <= buf.write_index_ /\ buf.write_index_ <= Len(buf.buffer_)
    BY <1>1, LenProperties DEF Inv, BufferOK
  <2>2. ASSUME NEW len \in 0..MaxReadable, len > WritableBytes(buf), MustGrow(buf, len)
        PROVE  buf.write_index_ + len > Len(buf.buffer_)
    BY <2>1, <2>2, BufferAssumption DEF WritableBytes
  <2>3. ASSUME NEW len \in 0..MaxReadable
        PROVE  len <= WritableBytes(EnsureWritableBytes(buf, len))
    <3>1. len \in Nat
      BY BufferAssumption
    <3> QED
      BY <1>1, <3>1, SpaceIsMade DEF Inv
  <2> QED
    BY <2>1, <2>2, <2>3 DEF AssertsHold
<1> QED
  BY <1>1, Invariance, PTL

(***************************************************************************)
(* For all sizes the vector is not larger than it was at first, or smaller *)
(* than twice the most bytes that were ever readable at a time.            *)
(***************************************************************************)
THEOREM MemoryStaysBounded == Spec => []MemoryBounded
<1>1. Inv => MemoryBounded
  BY DEF Inv
<1> QED
  BY <1>1, Invariance, PTL

-----------------------------------------------------------------------------
(***************************************************************************)
(* FindCRLF() searches the readable bytes: a match at p in the vector is a *)
(* line end at p - read_index_ in the queue.                               *)
(***************************************************************************)
LEMMA MatchesAreLineEnds ==
  ASSUME Inv, NEW n \in 0..ReadableBytes(buf)
  PROVE  \A p \in Int : p \in Matches(buf.read_index_ + n)
                         <=> p - buf.read_index_ \in Abstract!LineEnds(n)
<1> DEFINE r == buf.read_index_
           w == buf.write_index_
<1>1. r \in Nat /\ w \in Nat /\ n \in Nat /\ ReadableBytes(buf) = w - r
  BY DEF Inv, BufferOK, ReadableBytes
<1>2. /\ Len(Readable(buf)) = w - r
      /\ \A i \in 1..w - r : Readable(buf)[i] = buf.buffer_[r + i]
  BY <1>1, ReadableType DEF Inv
<1> HIDE DEF r, w
<1> SUFFICES ASSUME NEW p \in Int
             PROVE  p \in Matches(r + n) <=> p - r \in Abstract!LineEnds(n)
  BY DEF r
<1>3. p \in r + n .. w - 2 <=> p - r \in n .. Len(Readable(buf)) - 2
  BY <1>1, <1>2
<1>4. ASSUME p \in r + n .. w - 2
      PROVE  /\ Readable(buf)[p - r + 1] = buf.buffer_[p + 1]
             /\ Readable(buf)[p - r + 2] = buf.buffer_[p + 2]
  <2>1. /\ p - r + 1 \in 1..w - r /\ r + (p - r + 1) = p + 1
        /\ p - r + 2 \in 1..w - r /\ r + (p - r + 2) = p + 2
    BY <1>1, <1>4
  <2> QED
    BY <1>2, <2>1
<1>5. p \in Matches(r + n) <=>
        p \in r + n .. w - 2 /\ buf.buffer_[p + 1] = CR /\ buf.buffer_[p + 2] = LF
  BY DEF Matches, w
<1>6. p - r \in Abstract!LineEnds(n) <=>
        /\ p - r \in n .. Len(Readable(buf)) - 2
        /\ Readable(buf)[p - r + 1] = CR /\ Readable(buf)[p - r + 2] = LF
  BY DEF Abstract!LineEnds
<1> QED
  BY <1>3, <1>4, <1>5, <1>6

(***************************************************************************)
(* Every call on a Buffer is a call on the queue of bytes.                 *)
(***************************************************************************)
LEMMA StepImplements ==
  ASSUME Inv, [Next]_vars
  PROVE  [Abstract!Next]_<<Readable(buf), out>>
<1>0. /\ ReadableBytes(buf) \in Nat /\ Len(Readable(buf)) = ReadableBytes(buf)
      /\ Readable(buf) \in Seq(Cells)
  BY ReadableType DEF Inv
<1>b. ASSUME NEW c, Becomes(c) PROVE Readable(buf)' = Readable(c)
  BY <1>b DEF Becomes, Readable
<1>u. ASSUME UNCHANGED <<buf, peak>> PROVE UNCHANGED Readable(buf)
  BY <1>u DEF Readable
<1>1. ASSUME NEW s \in Strings, Append_(s) \/ ReadFd(s) PROVE Abstract!Next
  <2>1. PICK c : Becomes(c) /\ Adds(c, s) /\ out' \in {<<>>, <<Len(s)>>}
    BY <1>1, PutSteps
  <2>2. Abstract!Put(s)
    BY <1>b, <2>1 DEF Abstract!Put, Adds
  <2> QED
    BY <2>2 DEF Abstract!Next
<1>2. ASSUME NEW x \in Numbers, AppendInt(x[1], x[2]) PROVE Abstract!Next
  <2> DEFINE s == Encode(x[1], x[2])
  <2>1. PICK c : Becomes(c) /\ Adds(c, s) /\ out' = <<>>
    BY <1>2, PutSteps
  <2>2. s \in Strings \cup {Encode(y[1], y[2]) : y \in Numbers}
    OBVIOUS
  <2> HIDE DEF s
  <2>3. Abstract!Put(s)
    BY <1>b, <2>1 DEF Abstract!Put, Adds
  <2> QED
    BY <2>2, <2>3 DEF Abstract!Next
<1>3. ASSUME NEW n \in 0..ReadableBytes(buf), Retrieve(n) \/ RetrieveAsString(n)
      PROVE  Abstract!Next
  <2>1. Abstract!Drop(n) /\ out' \in {<<>>, Abstract!First(n)}
    BY <1>3, <1>b, TakeSteps DEF Retrieve, RetrieveAsString, Drops, Abstract!Drop, Abstract!First
  <2>2. Abstract!Take(n) /\ n \in 0..Len(Readable(buf))
    BY <1>0, <2>1 DEF Abstract!Take
  <2> QED
    BY <2>2 DEF Abstract!Next
<1>4. ASSUME NEW w \in Widths, PeekInt(w) \/ ReadInt(w) PROVE Abstract!Next
  <2>1. w \in 0..ReadableBytes(buf)
    BY <1>0, <1>4, BufferAssumption DEF PeekInt, ReadInt
  <2>2. IntAtPeek(w) = Decode(Abstract!First(w))
    BY <2>1, TakeSteps DEF IntAtPeek, Abstract!First
  <2>3. CASE PeekInt(w)
    <3>1. Abstract!LookInt(w)
      BY <1>u, <2>2, <2>3 DEF PeekInt, Abstract!LookInt
    <3> QED
      BY <1>0, <2>1, <3>1 DEF Abstract!Next
  <2>4. CASE ReadInt(w)
    <3>1. Abstract!TakeInt(w)
      BY <1>b, <2>1, <2>2, <2>4, TakeSteps DEF ReadInt, Drops, Abstract!TakeInt, Abstract!Drop
    <3> QED
      BY <1>0, <2>1, <3>1 DEF Abstract!Next
  <2> QED
    BY <1>4, <2>3, <2>4
<1>5. ASSUME NEW n \in 0..ReadableBytes(buf), FindCRLF(n) PROVE Abstract!Next
  <2> DEFINE r == buf.read_index_
             found == Matches(r + n)
             ends == Abstract!LineEnds(n)
  <2>1. r \in Nat /\ buf.write_index_ \in Nat /\ n \in Nat
    BY DEF Inv, BufferOK, ReadableBytes
  <2>2. found \subseteq Int /\ ends \subseteq Int
    BY <1>0, <2>1 DEF Matches, Abstract!LineEnds
  <2>3. \A p \in Int : p \in found <=> p - r \in ends
    BY MatchesAreLineEnds
  <2>4. \/ found = {} /\ out' = <<>>
        \/ \E p \in found : (\A q \in found : p <= q) /\ out' = <<p - r>>
    BY <1>5 DEF FindCRLF
  <2> HIDE DEF found, ends, r
  <2>5. \A k \in ends : k + r \in found /\ k + r - r = k
    BY <2>1, <2>2, <2>3
  <2>6. \/ ends = {} /\ out' = <<>>
        \/ \E k \in ends : (\A j \in ends : k <= j) /\ out' = <<k>>
    <3>1. CASE found = {} /\ out' = <<>>
      BY <2>5, <3>1
    <3>2. ASSUME NEW p \in found, \A q \in found : p <= q, out' = <<p - r>>
          PROVE  \E k \in ends : (\A j \in ends : k <= j) /\ out' = <<k>>
      <4>1. p - r \in ends
        BY <2>2, <2>3
      <4>2. \A j \in ends : p - r <= j
        BY <2>1, <2>2, <2>5, <3>2
      <4> QED
        BY <3>2, <4>1, <4>2
    <3> QED
      BY <2>4, <3>1, <3>2
  <2>7. UNCHANGED Readable(buf)
    BY <1>5, <1>u DEF FindCRLF
  <2>8. Abstract!Find(n)
    BY <2>6, <2>7 DEF Abstract!Find, ends
  <2> QED
    BY <1>0, <2>8 DEF Abstract!Next
<1>6. ASSUME ReadFdFails PROVE Abstract!Next
  BY <1>6, <1>u DEF ReadFdFails, Abstract!Next, Abstract!Fail
<1>7. ASSUME UNCHANGED vars PROVE UNCHANGED <<Readable(buf), out>>
  BY <1>7 DEF vars, Readable
<1> QED
  BY <1>1, <1>2, <1>3, <1>4, <1>5, <1>6, <1>7 DEF Next

(***************************************************************************)
(* For all sizes and all data a Buffer implements a queue of bytes:        *)
(* MakeSpace() and ReadFd() neither lose, repeat, reorder nor invent one.  *)
(***************************************************************************)
THEOREM BufferImplementsByteQueue == Spec => ImplementsByteQueue
<1>1. Init => Abstract!Init
  BY InitInv DEF Init, Abstract!Init
<1>2. Inv /\ [Next]_vars => [Abstract!Next]_<<Readable(buf), out>>
  BY StepImplements
<1> QED
  BY <1>1, <1>2, Invariance, PTL DEF Spec, ImplementsByteQueue, Abstract!Spec
=============================================================================
