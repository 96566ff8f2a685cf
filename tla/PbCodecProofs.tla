---------------------------- MODULE PbCodecProofs ----------------------------
(***************************************************************************)
(* The two passes of the encoder agree, and what they write is read as it  *)
(* was sent, for every set of descriptors and every message in memory.     *)
(*                                                                         *)
(* First, how much is written.  Each function that writes, from a number   *)
(* up to a whole message, `Counts` n: a stream without a callback counts n *)
(* bytes, a buffer takes n bytes or fails, and n is the same whatever the  *)
(* stream.  pb_encode is a recursive function over the structures of the   *)
(* message, of which each leads to deeper ones only, so the argument goes  *)
(* from the deepest structures up.                                         *)
(*                                                                         *)
(* Then, what: each of them `Writes` certain bytes.  What the decoder does *)
(* with them is said of the steps between two of its configurations        *)
(* (`Follows`, `Leading`): the bytes of a part of a message lead from any  *)
(* memory to one that has the part once more (`Decodes`), again from the   *)
(* deepest structures up.  A decoder that has received the message is on   *)
(* such a way until it is at its end, or memory runs out (`ArrivalInv`).   *)
(***************************************************************************)
EXTENDS PbCodec, PbDecoderProofs

-----------------------------------------------------------------------------
(* A loop that writes, step by step.                                       *)
InTurn(at, s, w, N) == at[0] = s /\ \A k \in 1 .. N : at[k] = w[k][at[k - 1]]

LEMMA EachInTurn ==
  ASSUME NEW base, NEW N \in Nat, NEW w, DOMAIN w = 1 .. N
  PROVE  \E at : InTurn(at, base, w, N) /\ at[N] = WriteEach(base, w)
<1> DEFINE Is(f) == f = [s \in SUBSET (1 .. N) |-> Applied(w, base, f, s)]
           f == CHOOSE g : Is(g)
           at == [k \in 0 .. N |-> f[1 .. k]]
<1>1. WriteEach(base, w) = f[1 .. N]
  BY DEF WriteEach, FoldLeft, MapThenFoldSet, Applied
<1>2. Is(f)
  <2>1. \E g : Is(g)
    BY AppliedUpTo
  <2> HIDE DEF Is
  <2>2. QED
    BY <2>1
<1>3. \A s \in SUBSET (1 .. N) : f[s] = Applied(w, base, f, s)
  <2> HIDE DEF f
  <2>1. QED
    BY <1>2
<1> HIDE DEF f
<1>4. f[{}] = base
  BY <1>3 DEF Applied
<1>5. \A k \in 1 .. N : f[1 .. k] = w[k][f[1 .. k - 1]]
  <2> TAKE k \in 1 .. N
  <2> DEFINE s == 1 .. k
  <2>1. s \in SUBSET (1 .. N) /\ k \in s /\ s \ {k} = 1 .. k - 1
    OBVIOUS
  <2>2. Max(s) \in s /\ \A x \in s : x <= Max(s)
    BY <2>1, GreatestOf
  <2>3. Max(s) = k
    BY <2>1, <2>2
  <2> HIDE DEF s
  <2>4. f[s] = w[k][f[s \ {k}]]
    BY <1>3, <2>1, <2>3 DEF Applied
  <2>5. QED
    BY <2>1, <2>4 DEF s
<1>6. at[0] = base /\ at[N] = f[1 .. N]
  <2>1. 0 \in 0 .. N /\ N \in 0 .. N /\ 1 .. 0 = {}
    OBVIOUS
  <2>2. QED
    BY <1>4, <2>1
<1>7. \A k \in 1 .. N : at[k] = w[k][at[k - 1]]
  <2> TAKE k \in 1 .. N
  <2>1. k \in 0 .. N /\ k - 1 \in 0 .. N
    OBVIOUS
  <2>2. at[k] = f[1 .. k] /\ at[k - 1] = f[1 .. k - 1]
    BY <2>1
  <2>3. QED
    BY <1>5, <2>2
<1> HIDE DEF at
<1>8. InTurn(at, base, w, N) /\ at[N] = WriteEach(base, w)
  BY <1>1, <1>6, <1>7 DEF InTurn
<1>9. QED
  BY <1>8

-----------------------------------------------------------------------------
(* What a function that writes does to a stream, whatever the bytes: a     *)
(* stream that has failed stays as it is, one that counts counts n, and a  *)
(* buffer takes n or fails.                                                *)
Usable == {s \in Stream : s.callback => s.written <= s.max_size}

HasRoom(s, n) == s.callback => s.written + n <= s.max_size

Advances(s, n, t) ==
  /\ t \in Usable
  /\ t.callback <=> s.callback
  /\ ~s.ok => t = s
  /\ s.ok => /\ t.max_size = s.max_size /\ (t.ok <=> HasRoom(s, n))
             /\ t.ok => t.written = s.written + n

LEMMA StreamIs ==
  ASSUME NEW s \in Usable
  PROVE  /\ s \in Stream /\ s.callback \in BOOLEAN /\ s.ok \in BOOLEAN
         /\ s.max_size \in Nat /\ s.written \in Nat /\ s.out \in Seq(Byte)
         /\ (s.callback => s.written <= s.max_size)
BY DEF Usable, Stream

LEMMA CountsNothing ==
  ASSUME NEW s \in Usable
  PROVE  Advances(s, 0, s)
<1>1. s.written \in Nat /\ s.max_size \in Nat /\ (s.callback => s.written <= s.max_size)
  BY StreamIs
<1>2. s.ok => (s.ok <=> HasRoom(s, 0)) /\ s.written = s.written + 0
  BY <1>1 DEF HasRoom
<1>3. QED
  BY <1>2 DEF Advances

LEMMA CountsBoth ==
  ASSUME NEW s \in Usable, NEW m \in Nat, NEW t, Advances(s, m, t),
         NEW n \in Nat, NEW u, Advances(t, n, u)
  PROVE  Advances(s, m + n, u)
<1>1. /\ t \in Usable /\ u \in Usable /\ (t.callback <=> s.callback)
      /\ (u.callback <=> t.callback)
  BY DEF Advances
<1>2. CASE ~s.ok
  <2>1. t = s /\ u = t
    BY <1>2 DEF Advances
  <2>2. QED
    BY <1>1, <1>2, <2>1 DEF Advances
<1>3. CASE s.ok /\ ~t.ok
  <2>1. u = t /\ t.max_size = s.max_size /\ ~HasRoom(s, m)
    BY <1>3 DEF Advances
  <2>2. ~HasRoom(s, m + n)
    BY <1>1, <2>1, StreamIs DEF HasRoom
  <2>3. QED
    BY <1>1, <1>3, <2>1, <2>2 DEF Advances
<1>4. CASE s.ok /\ t.ok
  <2>1. /\ t.max_size = s.max_size /\ HasRoom(s, m) /\ t.written = s.written + m
        /\ u.max_size = t.max_size /\ (u.ok <=> HasRoom(t, n))
        /\ (u.ok => u.written = t.written + n)
    BY <1>4 DEF Advances
  <2>2. s.written \in Nat /\ s.max_size \in Nat
    BY StreamIs
  <2>3. HasRoom(t, n) <=> HasRoom(s, m + n)
    BY <1>1, <2>1, <2>2 DEF HasRoom
  <2>4. u.ok => u.written = s.written + (m + n)
    BY <2>1, <2>2
  <2>5. QED
    BY <1>1, <1>4, <2>1, <2>3, <2>4 DEF Advances
<1>5. QED
  BY <1>2, <1>3, <1>4

LEMMA CountingCounts ==
  ASSUME NEW s \in Usable, ~s.ok \/ ~s.callback, NEW n \in Nat
  PROVE  Advances(s, n, Counting(s, n))
<1> DEFINE t == [s EXCEPT !.written = @ + n]
<1>1. s \in Stream /\ s.written \in Nat /\ (s.ok \in BOOLEAN)
  BY StreamIs
<1>2. t \in Stream /\ t.callback = s.callback /\ t.ok = s.ok
      /\ t.max_size = s.max_size /\ t.written = s.written + n
  BY <1>1 DEF Stream
<1> HIDE DEF t
<1>3. CASE s.ok
  <2>1. Counting(s, n) = t
    BY <1>3 DEF Counting, t
  <2>2. t \in Usable
    BY <1>2, <1>3 DEF Usable
  <2>3. QED
    BY <1>2, <1>3, <2>1, <2>2 DEF Advances, HasRoom
<1>4. CASE ~s.ok
  BY <1>4 DEF Advances, Counting
<1>5. QED
  BY <1>3, <1>4

LEMMA FailingCounts ==
  ASSUME NEW s \in Usable, s.ok, NEW n \in Nat, ~HasRoom(s, n)
  PROVE  Advances(s, n, [s EXCEPT !.ok = FALSE])
<1> DEFINE t == [s EXCEPT !.ok = FALSE]
<1>1. s \in Stream
  BY StreamIs
<1>2. t \in Stream /\ t.callback = s.callback /\ ~t.ok
      /\ t.max_size = s.max_size /\ t.written = s.written
  BY <1>1 DEF Stream
<1> HIDE DEF t
<1>3. t \in Usable
  BY <1>2, StreamIs DEF Usable
<1>4. Advances(s, n, t)
  BY <1>2, <1>3 DEF Advances
<1>5. QED
  BY <1>4 DEF t

LEMMA BytesCount ==
  ASSUME NEW s \in Usable, NEW bytes \in Seq(Byte)
  PROVE  Advances(s, Len(bytes), pb_write(s, bytes))
<1> DEFINE n == Len(bytes)
           b == s.out \o bytes
           u == [s EXCEPT !.written = @ + n]
           t == [u EXCEPT !.out = b]
<1>1. n \in Nat
  BY LenProperties
<1>2. /\ s \in Stream /\ s.out \in Seq(Byte) /\ s.written \in Nat /\ s.max_size \in Nat
      /\ s.ok \in BOOLEAN /\ s.callback \in BOOLEAN
  BY StreamIs
<1>3. b \in Seq(Byte)
  BY <1>2, Concat
<1>4. CASE ~s.ok \/ ~s.callback
  <2>1. pb_write(s, bytes) = Counting(s, n)
    BY <1>4 DEF pb_write
  <2> HIDE DEF n
  <2>2. Advances(s, n, Counting(s, n))
    BY <1>1, <1>4, CountingCounts
  <2>3. QED
    BY <2>1, <2>2 DEF n
<1>5. CASE s.ok /\ s.callback /\ s.written + n > s.max_size
  <2>1. pb_write(s, bytes) = [s EXCEPT !.ok = FALSE]
    BY <1>5 DEF pb_write
  <2> HIDE DEF n
  <2>2. ~HasRoom(s, n)
    BY <1>1, <1>2, <1>5 DEF HasRoom
  <2>3. Advances(s, n, [s EXCEPT !.ok = FALSE])
    BY <1>1, <1>5, <2>2, FailingCounts
  <2>4. QED
    BY <2>1, <2>3 DEF n
<1>6. CASE s.ok /\ s.callback /\ ~(s.written + n > s.max_size)
  <2>1. pb_write(s, bytes) = [s EXCEPT !.written = @ + Len(bytes), !.out = @ \o bytes]
    <3> HIDE DEF t, b
    <3>1. QED
      BY Zenon, <1>6 DEF pb_write
  <2>2. pb_write(s, bytes) = t
    BY <1>2, <2>1 DEF Stream
  <2> HIDE DEF n, b
  <2>3. u \in Stream /\ u.callback = s.callback /\ u.ok = s.ok
        /\ u.max_size = s.max_size /\ u.written = s.written + n
    BY <1>1, <1>2 DEF Stream
  <2> HIDE DEF u
  <2>4. t \in Stream /\ t.callback = s.callback /\ t.ok = s.ok
        /\ t.max_size = s.max_size /\ t.written = s.written + n
    <3>1. t \in Stream /\ t.callback = u.callback /\ t.ok = u.ok
          /\ t.max_size = u.max_size /\ t.written = u.written
      BY <1>3, <2>3 DEF Stream
    <3>2. QED
      BY <2>3, <3>1
  <2> HIDE DEF t
  <2>5. t \in Usable /\ HasRoom(s, n)
    BY <1>1, <1>2, <1>6, <2>4 DEF Usable, HasRoom
  <2>6. Advances(s, n, t)
    BY <1>6, <2>4, <2>5 DEF Advances
  <2>7. QED
    BY <2>2, <2>6 DEF n
<1>7. QED
  BY <1>2, <1>4, <1>5, <1>6

LEMMA SizingIs ==
  /\ Sizing \in Usable /\ Sizing.ok /\ ~Sizing.callback /\ Sizing.written = 0
  /\ \A n \in Nat : \A t : Advances(Sizing, n, t) => t.ok /\ t.written = n
<1>1. Sizing \in Usable /\ Sizing.ok /\ ~Sizing.callback /\ Sizing.written = 0
  <2>1. <<>> \in Seq(Byte)
    OBVIOUS
  <2>2. QED
    BY <2>1 DEF Usable, Stream, Sizing
<1>2. ASSUME NEW n \in Nat, NEW t, Advances(Sizing, n, t) PROVE t.ok /\ t.written = n
  <2>1. HasRoom(Sizing, n)
    BY <1>1 DEF HasRoom
  <2>2. t.ok
    BY <1>1, <1>2, <2>1 DEF Advances
  <2>3. t.written = Sizing.written + n
    BY <1>1, <1>2, <2>2 DEF Advances
  <2>4. QED
    BY <1>1, <2>2, <2>3
<1>3. QED
  BY <1>1, <1>2

LEMMA BufferIs ==
  ASSUME NEW n \in Nat, NEW out \in Seq(Byte)
  PROVE  LET b == [Buffer(n) EXCEPT !.out = out]
         IN  /\ b \in Usable /\ \A t : Advances(b, n, t) =>
                  t.ok /\ t.written = n /\ t.callback /\ t.out \in Seq(Byte)
<1> DEFINE b == [Buffer(n) EXCEPT !.out = out]
<1> DEFINE c == [Sizing EXCEPT !.callback = TRUE]
           d == [c EXCEPT !.max_size = n]
<1>1. Buffer(n) = d
  BY DEF Buffer
<1>2. Sizing \in Stream /\ Sizing.written = 0 /\ Sizing.ok
  BY SizingIs, StreamIs
<1>3. c \in Stream /\ c.callback /\ c.written = 0 /\ c.ok
  BY <1>2 DEF Stream
<1> HIDE DEF c
<1>4. d \in Stream /\ d.callback /\ d.max_size = n /\ d.written = 0 /\ d.ok
  BY <1>3 DEF Stream
<1>5. b = [d EXCEPT !.out = out]
  BY <1>1
<1> HIDE DEF b, d
<1>6. b \in Stream /\ b.callback /\ b.max_size = n /\ b.written = 0 /\ b.ok
  BY <1>4, <1>5 DEF Stream
<1>7. b \in Usable /\ HasRoom(b, n)
  BY <1>6 DEF Usable, HasRoom
<1>8. ASSUME NEW t, Advances(b, n, t)
      PROVE  t.ok /\ t.written = n /\ t.callback /\ t.out \in Seq(Byte)
  <2>1. t \in Usable /\ t.ok /\ t.written = b.written + n /\ t.callback
    BY <1>6, <1>7, <1>8 DEF Advances
  <2>2. QED
    BY <1>6, <2>1, StreamIs
<1>9. QED
  BY <1>7, <1>8 DEF b

(* A loop counts what its functions do, together.                          *)
Counts(write, n) == \A s \in Usable : Advances(s, n, write[s])

LEMMA EachCounts ==
  ASSUME NEW N \in Nat, NEW w, DOMAIN w = 1 .. N,
         \A i \in 1 .. N : \E n \in Nat : Counts(w[i], n)
  PROVE  \E n \in Nat : \A s \in Usable : Advances(s, n, WriteEach(s, w))
<1> DEFINE UpTo(k, n) == \A s \in Usable : \A at : InTurn(at, s, w, N) => Advances(s, n, at[k])
           wrong == {k \in 0 .. N : ~\E n \in Nat : UpTo(k, n)}
<1>1. wrong = {}
  <2>1. SUFFICES ASSUME wrong # {} PROVE FALSE
    OBVIOUS
  <2>2. PICK k \in wrong : \A l \in wrong : k <= l
    <3> HIDE DEF UpTo
    <3>1. wrong \in SUBSET Nat
      OBVIOUS
    <3> HIDE DEF wrong
    <3>2. QED
      BY <2>1, <3>1, Least
  <2>3. CASE k = 0
    <3>1. UpTo(k, 0)
      BY <2>3, CountsNothing DEF InTurn
    <3> HIDE DEF UpTo
    <3>2. QED
      BY <2>2, <3>1
  <2>4. CASE k # 0
    <3> DEFINE j == k - 1
    <3>1. j \in 0 .. N /\ j \notin wrong /\ k \in 1 .. N
      <4> HIDE DEF UpTo
      <4>1. QED
        BY <2>2, <2>4
    <3>2. PICK m \in Nat : UpTo(j, m)
      <4> HIDE DEF UpTo, j
      <4>1. QED
        BY <3>1
    <3>3. PICK n \in Nat : Counts(w[k], n)
      BY <3>1
    <3>4. ASSUME NEW s \in Usable, NEW at, InTurn(at, s, w, N)
          PROVE  Advances(s, m + n, at[k])
      <4>1. at[k] = w[k][at[j]]
        BY <3>1, <3>4 DEF InTurn
      <4>2. Advances(s, m, at[j])
        BY <3>2, <3>4
      <4> HIDE DEF j
      <4>3. at[j] \in Usable
        BY <4>2 DEF Advances
      <4>4. Advances(at[j], n, at[k])
        BY <3>3, <4>1, <4>3 DEF Counts
      <4>5. QED
        BY <4>2, <4>4, CountsBoth
    <3>5. UpTo(k, m + n) /\ m + n \in Nat
      BY <3>4
    <3> HIDE DEF UpTo
    <3>6. QED
      BY <2>2, <3>5
  <2>5. QED
    BY <2>3, <2>4
<1>2. PICK n \in Nat : UpTo(N, n)
  <2> HIDE DEF UpTo
  <2>1. N \in 0 .. N
    OBVIOUS
  <2>2. QED
    BY <1>1, <2>1
<1>3. ASSUME NEW s \in Usable PROVE Advances(s, n, WriteEach(s, w))
  <2>1. PICK at : InTurn(at, s, w, N) /\ at[N] = WriteEach(s, w)
    <3> HIDE DEF UpTo
    <3>1. QED
      BY EachInTurn
  <2>2. Advances(s, n, at[N])
    BY <1>2, <2>1
  <2>3. QED
    BY <2>1, <2>2
<1> HIDE DEF UpTo
<1>4. QED
  BY <1>3

-----------------------------------------------------------------------------
(* The functions of the encoder, from the number to the field.             *)
LEMMA NumberCounts ==
  ASSUME NEW s \in Usable, NEW n \in Nat
  PROVE  /\ Advances(s, Len(pb_encode_varint[n]), EncodeNumber(s, n))
         /\ Len(pb_encode_varint[n]) \in Nat
<1> DEFINE bytes == pb_encode_varint[n]
<1>1. bytes \in Seq(Byte)
  BY EncodingIs
<1>2. EncodeNumber(s, n) = pb_write(s, bytes)
  BY DEF EncodeNumber
<1> HIDE DEF bytes
<1>3. Advances(s, Len(bytes), pb_write(s, bytes)) /\ Len(bytes) \in Nat
  BY <1>1, BytesCount, LenProperties
<1>4. QED
  BY <1>2, <1>3 DEF bytes

LEMMA WrittenIsNumber ==
  ASSUME NEW kind, NEW n \in Int
  PROVE  Written(kind, n) \in Nat
<1>1. \A m \in Nat \ {0} : n % m \in Nat
  OBVIOUS
<1>2. Unsigned(n) \in Nat
  BY <1>1, WidthType DEF Unsigned
<1>3. ZigZag(n) \in Nat
  BY DEF ZigZag
<1>4. QED
  BY <1>2, <1>3 DEF Written

(* The bytes of a tag, and of a number.                                    *)
TagSize(wireType, f) == Len(pb_encode_varint[8 * f.tag + wireType])
ScalarSize(kind, n)  == Len(pb_encode_varint[Written(kind, n)])

LEMMA TagCounts ==
  ASSUME NEW s \in Usable, NEW f \in Field, NEW wireType \in Nat
  PROVE  /\ Advances(s, TagSize(wireType, f), pb_encode_tag(s, wireType, f))
         /\ TagSize(wireType, f) \in Nat
<1> DEFINE n == 8 * f.tag + wireType
<1>1. n \in Nat
  BY DEF Field
<1>2. pb_encode_tag(s, wireType, f) = EncodeNumber(s, n)
  BY DEF pb_encode_tag
<1>3. TagSize(wireType, f) = Len(pb_encode_varint[n])
  BY DEF TagSize
<1> HIDE DEF n
<1>4. QED
  BY <1>1, <1>2, <1>3, NumberCounts

LEMMA ScalarCounts ==
  ASSUME NEW s \in Usable, NEW kind, NEW n \in Int
  PROVE  /\ Advances(s, ScalarSize(kind, n), EncodeScalar(s, kind, n))
         /\ ScalarSize(kind, n) \in Nat
<1>1. Written(kind, n) \in Nat
  BY WrittenIsNumber
<1>2. QED
  BY <1>1, NumberCounts DEF EncodeScalar, ScalarSize

LEMMA ItemsCount ==
  ASSUME NEW kind, NEW items \in Seq(Int)
  PROVE  \E n \in Nat : \A s \in Usable : Advances(s, n, EncodeItems(s, kind, items))
<1> DEFINE N == Len(items)
           w == [i \in DOMAIN items |-> [s \in Stream |-> EncodeScalar(s, kind, items[i])]]
<1>1. N \in Nat /\ DOMAIN items = 1 .. N
  BY LenProperties
<1>2. ASSUME NEW i \in 1 .. N PROVE \E n \in Nat : Counts(w[i], n)
  <2>1. items[i] \in Int
    BY <1>1, ElementOfSeq
  <2> DEFINE n == ScalarSize(kind, items[i])
  <2>2. n \in Nat
    BY <2>1, ScalarCounts, SizingIs
  <2>3. \A s \in Usable : s \in Stream /\ Advances(s, n, EncodeScalar(s, kind, items[i]))
    BY <2>1, ScalarCounts, StreamIs
  <2>4. \A s \in Usable : w[i][s] = EncodeScalar(s, kind, items[i])
    BY <1>1, <2>3
  <2> HIDE DEF n, w
  <2>5. Counts(w[i], n)
    BY <2>3, <2>4 DEF Counts
  <2>6. QED
    BY <2>2, <2>5
<1>3. DOMAIN w = 1 .. N
  BY <1>1
<1>4. \A s : EncodeItems(s, kind, items) = WriteEach(s, w)
  BY DEF EncodeItems
<1> HIDE DEF w, N
<1>5. QED
  BY <1>1, <1>2, <1>3, <1>4, EachCounts

LEMMA PackedCounts ==
  ASSUME NEW f \in Field, NEW items \in Seq(Int)
  PROVE  \E n \in Nat : \A s \in Usable : Advances(s, n, EncodePacked(s, f, items))
<1>1. PICK k \in Nat : \A s \in Usable : Advances(s, k, EncodeItems(s, f.kind, items))
  BY ItemsCount
<1> DEFINE t == TagSize(2, f)
           l == Len(pb_encode_varint[k])
           n == t + l + k
<1>2. EncodeItems(Sizing, f.kind, items).written = k
  BY <1>1, SizingIs
<1>3. t \in Nat /\ l \in Nat /\ n \in Nat
  <2>1. t \in Nat
    BY TagCounts, SizingIs
  <2>2. l \in Nat
    BY NumberCounts, SizingIs
  <2> HIDE DEF t, l
  <2>3. QED
    BY <2>1, <2>2
<1>4. ASSUME NEW s \in Usable PROVE Advances(s, n, EncodePacked(s, f, items))
  <2> DEFINE tagged  == pb_encode_tag(s, 2, f)
             started == EncodeNumber(tagged, k)
  <2>1. Advances(s, t, tagged)
    BY TagCounts
  <2>2. tagged \in Usable
    BY <2>1 DEF Advances
  <2> HIDE DEF tagged
  <2>3. Advances(tagged, l, started)
    BY <2>2, NumberCounts
  <2> HIDE DEF started, t, l
  <2>4. Advances(s, t + l, started) /\ t + l \in Nat
    BY <1>3, <2>1, <2>3, CountsBoth
  <2>5. started \in Usable /\ (started.callback <=> s.callback)
    BY <2>4 DEF Advances
  <2>6. CASE s.callback
    <3>1. EncodePacked(s, f, items) = EncodeItems(started, f.kind, items)
      BY <1>2, <2>6 DEF EncodePacked, started, tagged
    <3>2. Advances(started, k, EncodeItems(started, f.kind, items))
      BY <1>1, <2>5
    <3>3. QED
      BY <2>4, <3>1, <3>2, CountsBoth
  <2>7. CASE ~s.callback
    <3>1. EncodePacked(s, f, items) = Counting(started, k)
      BY <1>2, <2>7 DEF EncodePacked, started, tagged
    <3>2. Advances(started, k, Counting(started, k))
      BY <2>5, <2>7, CountingCounts
    <3>3. QED
      BY <2>4, <3>1, <3>2, CountsBoth
  <2>8. QED
    BY <2>6, <2>7
<1> HIDE DEF n
<1>5. QED
  BY <1>3, <1>4

LEMMA StringCounts ==
  ASSUME NEW s \in Usable, NEW bytes \in Seq(Byte)
  PROVE  /\ Advances(s, Len(pb_encode_varint[Len(bytes)]) + Len(bytes),
                    pb_encode_string(s, bytes))
         /\ Len(pb_encode_varint[Len(bytes)]) + Len(bytes) \in Nat
<1> DEFINE n == Len(bytes)
           l == Len(pb_encode_varint[n])
           started == EncodeNumber(s, n)
<1>1. n \in Nat
  BY LenProperties
<1>2. pb_encode_string(s, bytes) = pb_write(started, bytes)
  BY DEF pb_encode_string
<1> HIDE DEF n
<1>3. Advances(s, l, started) /\ l \in Nat
  BY <1>1, NumberCounts
<1> HIDE DEF l, started
<1>4. started \in Usable
  BY <1>3 DEF Advances
<1>5. Advances(started, n, pb_write(started, bytes))
  BY <1>4, BytesCount DEF n
<1>6. Advances(s, l + n, pb_write(started, bytes)) /\ l + n \in Nat
  BY <1>1, <1>3, <1>5, CountsBoth
<1>7. QED
  BY <1>2, <1>6 DEF l, n

(* The pass that counts, the length, and the pass that writes.             *)
LEMMA SubmessageCounts ==
  ASSUME NEW encode, NEW m, NEW path, NEW n \in Nat, Counts(encode[At(m, path)], n),
         NEW s \in Usable
  PROVE  /\ Advances(s, Len(pb_encode_varint[n]) + n,
                     pb_encode_submessage(encode, s, m, path))
         /\ Len(pb_encode_varint[n]) + n \in Nat
<1> DEFINE l == Len(pb_encode_varint[n])
           body == encode[At(m, path)]
           started == EncodeNumber(s, n)
           buffer == [Buffer(n) EXCEPT !.out = started.out]
           sub == body[buffer]
           r == [started EXCEPT !.written = @ + sub.written, !.out = sub.out,
                                !.ok = sub.ok /\ sub.written = n]
<1>1. Advances(s, l, started) /\ l \in Nat
  BY NumberCounts
<1>2. body[Sizing].ok /\ body[Sizing].written = n
  <2>1. Advances(Sizing, n, body[Sizing])
    BY SizingIs DEF Counts
  <2> HIDE DEF body
  <2>2. QED
    BY <2>1, SizingIs
<1>3. pb_encode_submessage(encode, s, m, path) =
        IF ~started.ok \/ ~started.callback THEN Counting(started, n)
        ELSE IF started.written + n > started.max_size
             THEN [started EXCEPT !.ok = FALSE]
             ELSE r
  BY <1>2 DEF pb_encode_submessage
<1>4. Counts(body, n)
  OBVIOUS
<1> HIDE DEF l, started, body
<1>5. started \in Usable
  BY <1>1 DEF Advances
<1> SUFFICES Advances(started, n, pb_encode_submessage(encode, s, m, path))
  BY <1>1, CountsBoth DEF l
<1>6. /\ started \in Stream /\ started.callback \in BOOLEAN /\ started.ok \in BOOLEAN
      /\ started.max_size \in Nat /\ started.written \in Nat /\ started.out \in Seq(Byte)
  BY <1>5, StreamIs
<1>7. CASE ~started.ok \/ ~started.callback
  <2>1. pb_encode_submessage(encode, s, m, path) = Counting(started, n)
    BY <1>3, <1>7
  <2>2. QED
    BY <1>5, <1>7, <2>1, CountingCounts
<1>8. CASE started.ok /\ started.callback /\ started.written + n > started.max_size
  <2>1. pb_encode_submessage(encode, s, m, path) = [started EXCEPT !.ok = FALSE]
    BY <1>3, <1>8
  <2>2. ~HasRoom(started, n)
    BY <1>6, <1>8 DEF HasRoom
  <2>3. QED
    BY <1>5, <1>8, <2>1, <2>2, FailingCounts
<1>9. CASE started.ok /\ started.callback /\ ~(started.written + n > started.max_size)
  <2>1. pb_encode_submessage(encode, s, m, path) = r
    BY <1>3, <1>9
  <2>2. sub.ok /\ sub.written = n /\ sub.out \in Seq(Byte)
    <3>1. buffer \in Usable /\ \A t : Advances(buffer, n, t) =>
                  t.ok /\ t.written = n /\ t.callback /\ t.out \in Seq(Byte)
      BY <1>6, BufferIs
    <3> HIDE DEF buffer
    <3>2. Advances(buffer, n, sub)
      BY <1>4, <3>1 DEF Counts
    <3> HIDE DEF sub
    <3>3. QED
      BY <3>1, <3>2
  <2> HIDE DEF sub, buffer
  <2> DEFINE u == [started EXCEPT !.written = @ + n]
             v == [u EXCEPT !.out = sub.out]
             x == [v EXCEPT !.ok = TRUE]
  <2>3. u \in Stream /\ u.callback = started.callback
        /\ u.max_size = started.max_size /\ u.written = started.written + n
    BY <1>6 DEF Stream
  <2>4. r = [[u EXCEPT !.out = sub.out] EXCEPT !.ok = TRUE]
    BY <1>6, <2>2 DEF Stream
  <2> HIDE DEF u, r
  <2>5. v \in Stream /\ v.callback = u.callback
        /\ v.max_size = u.max_size /\ v.written = u.written
    BY <2>2, <2>3 DEF Stream
  <2> HIDE DEF v
  <2>6. x \in Stream /\ x.callback = v.callback
        /\ x.max_size = v.max_size /\ x.written = v.written /\ x.ok
    BY <2>5 DEF Stream
  <2>7. r = x
    BY <2>4 DEF v
  <2> HIDE DEF x
  <2>8. /\ x \in Stream /\ x.callback /\ x.max_size = started.max_size
        /\ x.written = started.written + n /\ x.ok
    BY <1>9, <2>3, <2>5, <2>6
  <2>9. x \in Usable /\ HasRoom(started, n)
    BY <1>6, <1>9, <2>8 DEF Usable, HasRoom
  <2>10. Advances(started, n, x)
    BY <1>9, <2>8, <2>9 DEF Advances
  <2>11. QED
    BY <2>1, <2>7, <2>10
<1>10. QED
  BY <1>6, <1>7, <1>8, <1>9

(* A field, when the structures it leads to count.                         *)
Leads(src, f, path, i) ==
  /\ f.kind = "message" /\ i \in Nat
  /\ f.shape = "optional" => i = 0
  /\ f.shape # "optional" => i \in DOMAIN src[Slot(path, f)].items

LEMMA FieldCounts ==
  ASSUME NEW encode, NEW src, NEW path, NEW f \in Field,
         f.shape = "pointer" <=> f.kind = "bytes", Filled(f, src[Slot(path, f)]),
         \A i : Leads(src, f, path, i) =>
           \E n \in Nat : Counts(encode[At(f.of, path \o Step(f, i))], n)
  PROVE  \E n \in Nat : \A s \in Usable :
           Advances(s, n, encode_field(encode, s, src, f, path))
<1> DEFINE cell == src[Slot(path, f)]
           wireType == IF f.kind \in Numeric THEN 0 ELSE 2
           Tagged(s) == pb_encode_tag(s, wireType, f)
           Item(s, i) == pb_encode_submessage(encode, Tagged(s), f.of, path \o Step(f, i))
           t == TagSize(wireType, f)
           Result(s) == encode_field(encode, s, src, f, path)
<1>1. /\ f.kind \in Numeric \cup {"bytes", "message"}
      /\ f.shape \in {"optional", "pointer", "repeated"}
      /\ "bytes" \notin Numeric /\ "message" \notin Numeric
  BY DEF Field, Shape, Numeric
<1>2. /\ cell.set \in BOOLEAN /\ cell.items \in Seq(Int)
      /\ f.kind = "bytes" => cell.items \in Seq(Byte)
      /\ f.kind \in Numeric /\ cell.set => cell.items # <<>>
  BY DEF Filled
<1>3. t \in Nat /\ \A s \in Usable : Advances(s, t, Tagged(s)) /\ Tagged(s) \in Usable
  <2>1. wireType \in Nat
    OBVIOUS
  <2> HIDE DEF wireType
  <2>2. t \in Nat
    BY <2>1, TagCounts, SizingIs
  <2>3. \A s \in Usable : Advances(s, t, Tagged(s))
    BY <2>1, TagCounts
  <2> HIDE DEF t, Tagged
  <2>4. QED
    BY <2>2, <2>3 DEF Advances
<1>4. \A i : Leads(src, f, path, i) =>
        \E n \in Nat : \A s \in Usable : Advances(s, n, Item(s, i))
  <2> TAKE i
  <2> HAVE Leads(src, f, path, i)
  <2> DEFINE p == path \o Step(f, i)
  <2>1. PICK n \in Nat : Counts(encode[At(f.of, p)], n)
    OBVIOUS
  <2> HIDE DEF p
  <2> DEFINE k == Len(pb_encode_varint[n]) + n
             Sub(s) == pb_encode_submessage(encode, s, f.of, p)
  <2>2. k \in Nat /\ \A s \in Usable : Advances(s, k, Sub(s))
    BY <2>1, SubmessageCounts, SizingIs
  <2> HIDE DEF k, Sub, Tagged, t
  <2>3. \A s \in Usable : Advances(s, t + k, Sub(Tagged(s))) /\ t + k \in Nat
    <3> TAKE s \in Usable
    <3>1. Advances(s, t, Tagged(s)) /\ Tagged(s) \in Usable /\ t \in Nat
      BY <1>3
    <3>2. Advances(Tagged(s), k, Sub(Tagged(s))) /\ k \in Nat
      BY <2>2, <3>1
    <3>3. QED
      BY <3>1, <3>2, CountsBoth
  <2>4. \A s : Item(s, i) = Sub(Tagged(s))
    BY DEF Sub, p
  <2> HIDE DEF Item
  <2>5. t + k \in Nat
    BY <1>3, <2>2
  <2>6. \A s \in Usable : Advances(s, t + k, Item(s, i))
    BY <2>3, <2>4
  <2>7. QED
    BY <2>5, <2>6
<1>5. CASE Absent(f, cell)
  <2>1. \A s : Result(s) = s
    BY <1>5 DEF encode_field
  <2> HIDE DEF Result
  <2>2. \A s \in Usable : Advances(s, 0, Result(s))
    BY <2>1, CountsNothing
  <2>3. QED
    BY <2>2 DEF Result
<1>6. CASE ~Absent(f, cell) /\ f.kind = "bytes"
  <2>1. \A s : Result(s) = pb_encode_string(Tagged(s), cell.items)
    BY <1>1, <1>6 DEF encode_field
  <2> DEFINE n == Len(pb_encode_varint[Len(cell.items)]) + Len(cell.items)
             String(s) == pb_encode_string(s, cell.items)
  <2>2. n \in Nat /\ \A s \in Usable : Advances(s, n, String(s))
    BY <1>2, <1>6, StringCounts, SizingIs
  <2> HIDE DEF n, String, Tagged, t, Result, cell
  <2>3. ASSUME NEW s \in Usable PROVE Advances(s, t + n, Result(s))
    <3>1. Advances(s, t, Tagged(s)) /\ Tagged(s) \in Usable /\ t \in Nat
      BY <1>3
    <3>2. Advances(Tagged(s), n, String(Tagged(s))) /\ n \in Nat
      BY <2>2, <3>1
    <3>3. Advances(s, t + n, String(Tagged(s)))
      BY <3>1, <3>2, CountsBoth
    <3>4. QED
      BY <2>1, <3>3 DEF String
  <2>4. t + n \in Nat
    BY <1>3, <2>2
  <2>5. QED
    BY <2>3, <2>4 DEF Result
<1>7. CASE ~Absent(f, cell) /\ f.kind \in Numeric /\ f.shape = "optional"
  <2>1. \A s : Result(s) = EncodeScalar(Tagged(s), f.kind, cell.items[1])
    BY <1>1, <1>7 DEF encode_field
  <2>2. cell.items[1] \in Int
    <3>1. cell.items # <<>>
      BY <1>2, <1>7 DEF Absent
    <3>2. 1 \in 1 .. Len(cell.items)
      BY <1>2, <3>1, EmptySeq, LenProperties
    <3>3. QED
      BY <1>2, <3>2, ElementOfSeq
  <2> DEFINE n == ScalarSize(f.kind, cell.items[1])
             Single(s) == EncodeScalar(s, f.kind, cell.items[1])
  <2>3. n \in Nat /\ \A s \in Usable : Advances(s, n, Single(s))
    BY <2>2, ScalarCounts, SizingIs
  <2> HIDE DEF n, Single, Tagged, t, Result, cell
  <2>4. ASSUME NEW s \in Usable PROVE Advances(s, t + n, Result(s))
    <3>1. Advances(s, t, Tagged(s)) /\ Tagged(s) \in Usable /\ t \in Nat
      BY <1>3
    <3>2. Advances(Tagged(s), n, Single(Tagged(s))) /\ n \in Nat
      BY <2>3, <3>1
    <3>3. Advances(s, t + n, Single(Tagged(s)))
      BY <3>1, <3>2, CountsBoth
    <3>4. QED
      BY <2>1, <3>3 DEF Single
  <2>5. t + n \in Nat
    BY <1>3, <2>3
  <2>6. QED
    BY <2>4, <2>5 DEF Result
<1>8. CASE ~Absent(f, cell) /\ f.kind \in Numeric /\ f.shape = "repeated"
  <2>1. \A s : Result(s) = EncodePacked(s, f, cell.items)
    BY <1>1, <1>8 DEF encode_field
  <2>2. PICK n \in Nat : \A s \in Usable : Advances(s, n, EncodePacked(s, f, cell.items))
    BY <1>2, PackedCounts
  <2> HIDE DEF Result
  <2>3. \A s \in Usable : Advances(s, n, Result(s))
    BY <2>1, <2>2
  <2>4. QED
    BY <2>3 DEF Result
<1>9. CASE ~Absent(f, cell) /\ f.kind = "message" /\ f.shape = "optional"
  <2>1. \A s : Result(s) = Item(s, 0)
    BY <1>1, <1>9 DEF encode_field
  <2>2. Leads(src, f, path, 0)
    BY <1>9 DEF Leads
  <2> HIDE DEF Item, Result
  <2>3. PICK n \in Nat : \A s \in Usable : Advances(s, n, Item(s, 0))
    BY <1>4, <2>2
  <2>4. \A s \in Usable : Advances(s, n, Result(s))
    BY <2>1, <2>3
  <2>5. QED
    BY <2>4 DEF Result
<1>10. CASE ~Absent(f, cell) /\ f.kind = "message" /\ f.shape = "repeated"
  <2> DEFINE w == [i \in DOMAIN cell.items |-> [s \in Stream |-> Item(s, i)]]
             N == Len(cell.items)
  <2>1. \A s : Result(s) = WriteEach(s, w)
    BY <1>1, <1>10 DEF encode_field
  <2>2. N \in Nat /\ DOMAIN cell.items = 1 .. N
    BY <1>2, LenProperties
  <2>3. DOMAIN w = 1 .. N
    BY <2>2
  <2> HIDE DEF Item
  <2>4. ASSUME NEW i \in 1 .. N PROVE \E n \in Nat : Counts(w[i], n)
    <3>1. Leads(src, f, path, i)
      BY <1>10, <2>2 DEF Leads
    <3>2. PICK n \in Nat : \A s \in Usable : Advances(s, n, Item(s, i))
      BY <1>4, <3>1
    <3>3. \A s \in Usable : w[i][s] = Item(s, i)
      BY <2>2, StreamIs
    <3> HIDE DEF w
    <3>4. Counts(w[i], n)
      BY <3>2, <3>3 DEF Counts
    <3>5. QED
      BY <3>4
  <2> HIDE DEF w, N, Result
  <2>5. PICK n \in Nat : \A s \in Usable : Advances(s, n, WriteEach(s, w))
    BY <2>2, <2>3, <2>4, EachCounts
  <2>6. \A s \in Usable : Advances(s, n, Result(s))
    BY <2>1, <2>5
  <2>7. QED
    BY <2>6 DEF Result
<1>11. QED
  BY <1>1, <1>5, <1>6, <1>7, <1>8, <1>9, <1>10

-----------------------------------------------------------------------------
(* The structures of a message in memory, of which each leads to deeper    *)
(* ones.                                                                   *)
LEMMA StructureIs ==
  ASSUME NEW src, NEW at \in Structures(src)
  PROVE  /\ at.message \in Message /\ at.path \in Path /\ at = At(at.message, at.path)
         /\ Len(at.path) \in Nat
         /\ Structure(at.message, at.path) \subseteq DOMAIN src
<1>1. /\ at \in [message : Message, path : Path]
      /\ Structure(at.message, at.path) \subseteq DOMAIN src
  BY DEF Structures
<1>2. at.path \in Path /\ at = At(at.message, at.path)
  BY <1>1 DEF At
<1>3. Len(at.path) \in Nat
  BY <1>2, LenProperties DEF Path
<1>4. QED
  BY <1>1, <1>2, <1>3

LEMMA FieldOfMessage ==
  ASSUME NEW m \in Message, NEW f \in FieldsOf(m)
  PROVE  /\ f \in Field /\ f.of \in Message /\ (f.shape = "pointer" <=> f.kind = "bytes")
         /\ Slot(<<>>, f) \in Layout[m]
<1>1. Fields[m] \in Seq(Field)
  BY FieldsAssumption
<1>2. f \in Field
  BY <1>1, ElementOfSeq, LenProperties DEF FieldsOf
<1>3. f.of \in Message
  BY <1>2 DEF Field
<1>4. QED
  BY <1>2, <1>3, ShapesAssumption, LayoutAssumption

LEMMA SlotIsThere ==
  ASSUME NEW src, NEW at \in Structures(src), NEW f \in FieldsOf(at.message)
  PROVE  Slot(at.path, f) \in DOMAIN src
<1>1. at.message \in Message /\ at.path \in Path
      /\ Structure(at.message, at.path) \subseteq DOMAIN src
  BY StructureIs
<1> DEFINE l == Slot(<<>>, f)
<1>2. l \in Layout[at.message]
  BY <1>1, FieldOfMessage
<1>3. l.path = <<>> /\ l.field = f
  BY DEF Slot
<1>4. at.path \o <<>> = at.path
  BY <1>1 DEF Path
<1>5. Slot(at.path \o l.path, l.field) \in Structure(at.message, at.path)
  BY <1>2 DEF Structure
<1>6. QED
  BY <1>1, <1>3, <1>4, <1>5

LEMMA StepFrom ==
  ASSUME NEW path \in Path, NEW f \in Field, NEW i \in Nat
  PROVE  /\ Step(f, i) \in Path /\ path \o Step(f, i) \in Path
         /\ Len(path \o Step(f, i)) = Len(path) + 1
<1> DEFINE e == [field |-> f, item |-> i]
           E == [field : Field, item : Nat]
           one == <<e>>
<1>1. e \in E
  OBVIOUS
<1> HIDE DEF e, E
<1>2. one \in Seq(E) /\ Len(one) = 1
  BY <1>1
<1>3. Step(f, i) = one
  BY DEF Step, e
<1>4. path \in Seq(E)
  BY DEF Path, E
<1> HIDE DEF one
<1>5. path \o one \in Seq(E) /\ Len(path \o one) = Len(path) + Len(one)
  BY <1>2, <1>4, Concat
<1>6. QED
  BY <1>2, <1>3, <1>5 DEF Path, E

LEMMA LeadsDeeper ==
  ASSUME NEW src, NEW m, InMemory(src, m), NEW at \in Structures(src),
         NEW f \in FieldsOf(at.message), NEW i, Leads(src, f, at.path, i)
  PROVE  /\ At(f.of, at.path \o Step(f, i)) \in Structures(src)
         /\ Len(At(f.of, at.path \o Step(f, i)).path) = Len(at.path) + 1
<1> DEFINE p == at.path
           q == p \o Step(f, i)
<1>1. /\ at.message \in Message /\ p \in Path
      /\ Structure(at.message, p) \subseteq DOMAIN src
  BY StructureIs
<1>2. f \in Field /\ f.of \in Message /\ f.kind = "message" /\ i \in Nat
  BY <1>1, FieldOfMessage DEF Leads
<1>3. Step(f, i) \in Path /\ q \in Path /\ Len(q) = Len(p) + 1
  BY <1>1, <1>2, StepFrom
<1>4. At(f.of, q).path = q /\ At(f.of, q).message = f.of
  BY DEF At
<1> HIDE DEF q
<1>5. At(f.of, q) \in [message : Message, path : Path]
  BY <1>2, <1>3 DEF At
<1>6. CASE f.shape = "optional"
  <2>1. i = 0
    BY <1>6 DEF Leads
  <2>2. ASSUME NEW l \in Layout[f.of]
        PROVE  Slot(q \o l.path, l.field) \in DOMAIN src
    <3> DEFINE k == Slot(Step(f, 0) \o l.path, l.field)
    <3>1. k \in Layout[at.message]
      BY <1>1, <1>2, <1>6, LayoutAssumption DEF Behind
    <3>2. l.path \in Path
      BY <1>2, LayoutAssumption
    <3>3. k.path = Step(f, 0) \o l.path /\ k.field = l.field
      BY DEF Slot
    <3>4. p \o (Step(f, 0) \o l.path) = (p \o Step(f, 0)) \o l.path
      <4> DEFINE st == Step(f, 0)
                 E  == [field : Field, item : Nat]
                 r  == l.path
                 o  == at.path
      <4>1. o \in Seq(E) /\ st \in Seq(E) /\ r \in Seq(E)
        BY <1>1, <1>3, <2>1, <3>2 DEF Path
      <4> HIDE DEF st, E, o, r
      <4>2. (o \o st) \o r = o \o (st \o r)
        BY <4>1, ConcatAssociative
      <4>3. QED
        BY <4>2 DEF st, o, r
    <3>5. Slot(p \o k.path, k.field) \in Structure(at.message, p)
      BY <3>1 DEF Structure
    <3>6. QED
      BY <1>1, <2>1, <3>3, <3>4, <3>5 DEF q
  <2>3. Structure(f.of, q) \subseteq DOMAIN src
    BY <2>2 DEF Structure
  <2>4. QED
    BY <1>3, <1>4, <1>5, <2>3 DEF Structures, q
<1>7. CASE f.shape # "optional"
  <2> DEFINE s == Slot(p, f)
  <2>1. s \in DOMAIN src
    BY SlotIsThere
  <2>2. s.path = p /\ s.field = f
    BY DEF Slot
  <2>3. i \in DOMAIN src[s].items
    BY <1>7 DEF Leads
  <2> HIDE DEF s
  <2>4. At(s.field.of, s.path \o Step(s.field, i)) \in Structures(src)
    BY <1>2, <1>7, <2>1, <2>2, <2>3 DEF InMemory, Behind
  <2>5. QED
    BY <1>3, <1>4, <2>2, <2>4 DEF q
<1>8. QED
  BY <1>6, <1>7

(* Not for ever: from some depth on, structures have no fields.            *)
LEMMA NoneDeeper ==
  ASSUME NEW src, NEW m, InMemory(src, m)
  PROVE  \E N \in Nat : \A at \in Structures(src) :
           Len(at.path) >= N => Fields[at.message] = <<>>
<1>1. PICK deepest \in {<<>>} \cup {s.path : s \in DOMAIN src} :
        \A s \in DOMAIN src : Len(s.path) <= Len(deepest)
  BY DEF InMemory
<1> DEFINE N == Len(deepest) + 1
<1>2. N \in Nat /\ Len(deepest) \in Nat
  <2>1. deepest \in Path
    <3>1. \A s \in DOMAIN src : s.path \in Path
      BY DEF InMemory
    <3>2. <<>> \in Path
      BY DEF Path
    <3>3. QED
      BY <3>1, <3>2
  <2>2. Len(deepest) \in Nat
    BY <2>1, LenProperties DEF Path
  <2>3. QED
    BY <2>2
<1>3. \A at \in Structures(src) : FieldsOf(at.message) # {} => ~(Len(at.path) >= N)
  <2> TAKE at \in Structures(src)
  <2> HAVE FieldsOf(at.message) # {}
  <2>1. PICK f \in FieldsOf(at.message) : TRUE
    OBVIOUS
  <2>2. Slot(at.path, f) \in DOMAIN src /\ Slot(at.path, f).path = at.path
    BY SlotIsThere DEF Slot
  <2>3. Len(at.path) <= Len(deepest)
    BY <1>1, <2>2
  <2>4. Len(at.path) \in Nat
    BY StructureIs
  <2>5. QED
    BY <1>2, <2>3, <2>4
<1>4. \A at \in Structures(src) : FieldsOf(at.message) = {} => Fields[at.message] = <<>>
  <2> TAKE at \in Structures(src)
  <2> HAVE FieldsOf(at.message) = {}
  <2>1. Fields[at.message] \in Seq(Field)
    BY StructureIs, FieldsAssumption
  <2> DEFINE q == Fields[at.message]
  <2>2. DOMAIN q = {}
    BY DEF FieldsOf
  <2> HIDE DEF q
  <2>3. q \in Seq(Field)
    BY <2>1 DEF q
  <2>4. Len(q) \in Nat /\ DOMAIN q = 1 .. Len(q)
    BY <2>3, LenProperties
  <2>5. Len(q) = 0
    <3>1. 1 \notin 1 .. Len(q)
      BY <2>2, <2>4
    <3>2. QED
      BY <2>4, <3>1
  <2>6. q = <<>>
    BY <2>3, <2>5, EmptySeq
  <2>7. QED
    BY <2>6 DEF q
<1> HIDE DEF N
<1>5. \A at \in Structures(src) : Len(at.path) >= N => Fields[at.message] = <<>>
  BY <1>3, <1>4
<1>6. QED
  BY <1>2, <1>5

-----------------------------------------------------------------------------
(* What is done with a structure, given what is done with the deeper ones. *)
Body(e, src, at) ==
  LET fields == Fields[at.message]
  IN  [stream \in Stream |->
         WriteEach(stream, [i \in DOMAIN fields |-> [s \in Stream |->
           encode_field(e, s, src, fields[i], at.path)]])]

LEMMA FieldSame ==
  ASSUME NEW e, NEW g, NEW src, NEW path, NEW f \in Field,
         f.shape = "pointer" <=> f.kind = "bytes", Filled(f, src[Slot(path, f)]),
         \A i : Leads(src, f, path, i) =>
           e[At(f.of, path \o Step(f, i))] = g[At(f.of, path \o Step(f, i))],
         NEW s
  PROVE  encode_field(e, s, src, f, path) = encode_field(g, s, src, f, path)
<1> DEFINE cell == src[Slot(path, f)]
           wireType == IF f.kind \in Numeric THEN 0 ELSE 2
           Tagged(x) == pb_encode_tag(x, wireType, f)
           Item(h, x, i) == pb_encode_submessage(h, Tagged(x), f.of, path \o Step(f, i))
           w(h) == [i \in DOMAIN cell.items |-> [x \in Stream |-> Item(h, x, i)]]
<1>1. /\ f.kind \in Numeric \cup {"bytes", "message"}
      /\ f.shape \in {"optional", "pointer", "repeated"}
      /\ "bytes" \notin Numeric /\ "message" \notin Numeric
  BY DEF Field, Shape, Numeric
<1>2. cell.items \in Seq(Int)
  BY DEF Filled
<1>3. \A i, x : Leads(src, f, path, i) => Item(e, x, i) = Item(g, x, i)
  <2> TAKE i, x
  <2> HAVE Leads(src, f, path, i)
  <2> DEFINE a == path \o Step(f, i)
             t == Tagged(x)
  <2>1. e[At(f.of, a)] = g[At(f.of, a)]
    OBVIOUS
  <2> HIDE DEF a, t
  <2>2. pb_encode_submessage(e, t, f.of, a) = pb_encode_submessage(g, t, f.of, a)
    BY <2>1 DEF pb_encode_submessage
  <2>3. QED
    BY <2>2 DEF a, t
<1>4. CASE Absent(f, cell) \/ f.kind # "message"
  BY <1>1, <1>4 DEF encode_field
<1>5. CASE ~Absent(f, cell) /\ f.kind = "message" /\ f.shape = "optional"
  <2>1. \A h : encode_field(h, s, src, f, path) = Item(h, s, 0)
    BY <1>1, <1>5 DEF encode_field
  <2>2. Leads(src, f, path, 0)
    BY <1>5 DEF Leads
  <2> HIDE DEF Item
  <2>3. QED
    BY <1>3, <2>1, <2>2
<1>6. CASE ~Absent(f, cell) /\ f.kind = "message" /\ f.shape = "repeated"
  <2>1. \A h : encode_field(h, s, src, f, path) = WriteEach(s, w(h))
    BY <1>1, <1>6 DEF encode_field
  <2>2. \A i \in DOMAIN cell.items : Leads(src, f, path, i)
    <3>1. DOMAIN cell.items = 1 .. Len(cell.items) /\ Len(cell.items) \in Nat
      BY <1>2, LenProperties
    <3>2. QED
      BY <1>6, <3>1 DEF Leads
  <2> HIDE DEF Item, cell
  <2>3. \A i \in DOMAIN cell.items : \A x \in Stream : Item(e, x, i) = Item(g, x, i)
    BY <1>3, <2>2
  <2>4. w(e) = w(g)
    BY <2>3
  <2> HIDE DEF w
  <2>5. QED
    BY <2>1, <2>4
<1>7. QED
  BY <1>1, <1>4, <1>5, <1>6

LEMMA FieldIsFilled ==
  ASSUME NEW src, NEW m, InMemory(src, m), NEW at \in Structures(src),
         NEW i \in DOMAIN Fields[at.message]
  PROVE  LET f == Fields[at.message][i]
         IN  /\ f \in FieldsOf(at.message) /\ f \in Field
             /\ (f.shape = "pointer" <=> f.kind = "bytes")
             /\ Filled(f, src[Slot(at.path, f)])
<1> DEFINE f == Fields[at.message][i]
<1>1. f \in FieldsOf(at.message)
  BY DEF FieldsOf
<1> HIDE DEF f
<1>2. at.message \in Message
  BY StructureIs
<1>3. f \in Field /\ (f.shape = "pointer" <=> f.kind = "bytes")
  BY <1>1, <1>2, FieldOfMessage
<1> DEFINE s == Slot(at.path, f)
<1>4. s \in DOMAIN src /\ s.field = f
  BY <1>1, SlotIsThere DEF Slot
<1> HIDE DEF s
<1>5. Filled(s.field, src[s])
  BY <1>4 DEF InMemory
<1>6. Filled(f, src[s])
  BY <1>4, <1>5
<1>7. QED
  BY <1>1, <1>3, <1>6 DEF f, s

(* e and g do the same with the structures right below at.                 *)
SameBelow(e, g, src, at) ==
  \A b \in Structures(src) : Len(b.path) = Len(at.path) + 1 => e[b] = g[b]

LEMMA BodySame ==
  ASSUME NEW src, NEW m, InMemory(src, m), NEW at \in Structures(src), NEW e, NEW g,
         Fields[at.message] # <<>> => SameBelow(e, g, src, at)
  PROVE  Body(e, src, at) = Body(g, src, at)
<1> DEFINE fields == Fields[at.message]
           w(h) == [i \in DOMAIN fields |-> [s \in Stream |->
                      encode_field(h, s, src, fields[i], at.path)]]
<1>1. CASE fields = <<>>
  <2>1. DOMAIN fields = {}
    BY <1>1
  <2>2. w(e) = w(g)
    BY <2>1
  <2> HIDE DEF w
  <2>3. [s \in Stream |-> WriteEach(s, w(e))] = [s \in Stream |-> WriteEach(s, w(g))]
    BY <2>2
  <2>4. QED
    BY <2>3 DEF Body, w
<1>2. CASE fields # <<>>
  <2>1. ASSUME NEW i \in DOMAIN fields, NEW s \in Stream
        PROVE  encode_field(e, s, src, fields[i], at.path)
                 = encode_field(g, s, src, fields[i], at.path)
    <3> DEFINE f == fields[i]
    <3>1. /\ f \in FieldsOf(at.message) /\ f \in Field
          /\ (f.shape = "pointer" <=> f.kind = "bytes")
          /\ Filled(f, src[Slot(at.path, f)])
      BY FieldIsFilled
    <3> HIDE DEF f
    <3>2. ASSUME NEW j, Leads(src, f, at.path, j)
          PROVE  e[At(f.of, at.path \o Step(f, j))] = g[At(f.of, at.path \o Step(f, j))]
      <4> DEFINE b == At(f.of, at.path \o Step(f, j))
      <4>1. b \in Structures(src) /\ Len(b.path) = Len(at.path) + 1
        BY <3>1, <3>2, LeadsDeeper
      <4> HIDE DEF b
      <4>2. e[b] = g[b]
        BY <1>2, <4>1 DEF SameBelow
      <4>3. QED
        BY <4>2 DEF b
    <3>3. encode_field(e, s, src, f, at.path) = encode_field(g, s, src, f, at.path)
      BY <3>1, <3>2, FieldSame
    <3>4. QED
      BY <3>3 DEF f
  <2>2. w(e) = w(g)
    BY <2>1
  <2> HIDE DEF w
  <2>3. [s \in Stream |-> WriteEach(s, w(e))] = [s \in Stream |-> WriteEach(s, w(g))]
    BY <2>2
  <2>4. QED
    BY <2>3 DEF Body, w
<1>3. QED
  BY <1>1, <1>2

(* pb_encode is what it is written to be: the function it is defined as    *)
(* exists, put together from the deepest structures up.                    *)
From(k, src) == {b \in Structures(src) : Len(b.path) >= k}

EncodesFrom(e, k, src) == e = [at \in From(k, src) |-> Body(e, src, at)]

LEMMA EncodesDeepest ==
  ASSUME NEW src, NEW m, InMemory(src, m), NEW N \in Nat,
         \A at \in Structures(src) : Len(at.path) >= N => Fields[at.message] = <<>>
  PROVE  \E e : EncodesFrom(e, N, src)
<1> DEFINE e == [at \in From(N, src) |-> Body(src, src, at)]
<1>1. ASSUME NEW at \in From(N, src), NEW h PROVE Body(src, src, at) = Body(h, src, at)
  <2>1. at \in Structures(src) /\ Fields[at.message] = <<>>
    BY DEF From
  <2>2. QED
    BY <2>1, BodySame
<1>2. e = [at \in From(N, src) |-> Body(e, src, at)]
  <2> DEFINE d == [at \in From(N, src) |-> Body(e, src, at)]
  <2>1. \A at \in From(N, src) : Body(src, src, at) = Body(e, src, at)
    <3> HIDE DEF e
    <3>1. QED
      BY <1>1
  <2>2. e = d
    BY <2>1
  <2>3. QED
    BY <2>2
<1> HIDE DEF e
<1>3. EncodesFrom(e, N, src)
  BY <1>2 DEF EncodesFrom
<1>4. QED
  BY <1>3

LEMMA EncodesHigher ==
  ASSUME NEW src, NEW m, InMemory(src, m), NEW k \in Nat, NEW f, EncodesFrom(f, k + 1, src)
  PROVE  \E e : EncodesFrom(e, k, src)
<1> DEFINE e == [at \in From(k, src) |-> Body(f, src, at)]
<1>1. \A at \in From(k + 1, src) : at \in From(k, src) /\ f[at] = Body(f, src, at)
  <2>1. \A at \in From(k + 1, src) : at \in From(k, src)
    <3> TAKE at \in From(k + 1, src)
    <3>1. at \in Structures(src) /\ Len(at.path) >= k + 1
      BY DEF From
    <3>2. Len(at.path) \in Nat
      BY <3>1, StructureIs
    <3>3. QED
      BY <3>1, <3>2 DEF From
  <2>2. QED
    BY <2>1 DEF EncodesFrom
<1>2. \A at \in From(k + 1, src) : e[at] = f[at]
  BY <1>1
<1>3. \A at \in From(k, src) : Body(f, src, at) = Body(e, src, at)
  <2> HIDE DEF e
  <2> TAKE at \in From(k, src)
  <2>1. at \in Structures(src) /\ Len(at.path) >= k /\ Len(at.path) \in Nat
    BY StructureIs DEF From
  <2>2. ASSUME NEW b \in Structures(src), Len(b.path) = Len(at.path) + 1
        PROVE  f[b] = e[b]
    <3>1. Len(b.path) >= k + 1
      BY <2>1, <2>2
    <3>2. b \in From(k + 1, src)
      BY <3>1 DEF From
    <3>3. QED
      BY <1>2, <3>2
  <2>3. SameBelow(f, e, src, at)
    BY <2>2 DEF SameBelow
  <2>4. QED
    BY <2>1, <2>3, BodySame
<1>4. e = [at \in From(k, src) |-> Body(e, src, at)]
  <2> DEFINE d == [at \in From(k, src) |-> Body(e, src, at)]
  <2>1. e = d
    BY <1>3
  <2>2. QED
    BY <2>1
<1> HIDE DEF e
<1>5. EncodesFrom(e, k, src)
  BY <1>4 DEF EncodesFrom
<1>6. QED
  BY <1>5

LEMMA EncodesAll ==
  ASSUME NEW src, NEW m, InMemory(src, m)
  PROVE  \E e : EncodesFrom(e, 0, src)
<1>1. PICK N \in Nat : \A at \in Structures(src) :
        Len(at.path) >= N => Fields[at.message] = <<>>
  BY NoneDeeper
<1> DEFINE Some(k) == \E e : EncodesFrom(e, k, src)
           right == {k \in Nat : Some(k)}
<1>2. Some(N)
  BY <1>1, EncodesDeepest
<1>3. \A k \in Nat : Some(k + 1) => Some(k)
  BY EncodesHigher
<1> HIDE DEF Some
<1>4. right \in SUBSET Nat /\ N \in right
  BY <1>2
<1>5. PICK k \in right : \A l \in right : k <= l
  <2> HIDE DEF right
  <2>1. QED
    BY <1>4, Least
<1>6. k = 0
  <2> SUFFICES ASSUME k # 0 PROVE FALSE
    OBVIOUS
  <2>1. k - 1 \in Nat /\ (k - 1) + 1 = k /\ k \in Nat
    OBVIOUS
  <2>2. k - 1 \in right
    BY <1>3, <2>1
  <2>3. k <= k - 1
    BY <1>5, <2>2
  <2>4. QED
    BY <2>1, <2>3
<1>7. Some(0)
  BY <1>6
<1>8. QED
  BY <1>7 DEF Some

LEMMA EncodeIs ==
  ASSUME NEW src, NEW m, InMemory(src, m), NEW at \in Structures(src)
  PROVE  pb_encode(src)[at] = Body(pb_encode(src), src, at)
<1> DEFINE Is(e) == e = [b \in Structures(src) |-> Body(e, src, b)]
           enc == pb_encode(src)
<1>1. enc = CHOOSE e : Is(e)
  BY DEF pb_encode, Body
<1>2. \E e : Is(e)
  <2>1. From(0, src) = Structures(src)
    <3>1. \A b \in Structures(src) : Len(b.path) >= 0
      BY StructureIs
    <3>2. QED
      BY <3>1 DEF From
  <2>2. QED
    BY <2>1, EncodesAll DEF EncodesFrom
<1> HIDE DEF Is, enc
<1>3. Is(enc)
  BY <1>1, <1>2
<1>4. enc[at] = Body(enc, src, at)
  BY <1>3 DEF Is
<1>5. QED
  BY <1>4 DEF enc

(* So every structure of a message in memory counts.                       *)
LEMMA BodyCounts ==
  ASSUME NEW src, NEW m, InMemory(src, m), NEW e, NEW at \in Structures(src),
         Fields[at.message] # <<>> =>
           \A b \in Structures(src) : Len(b.path) = Len(at.path) + 1 =>
             \E n \in Nat : Counts(e[b], n)
  PROVE  \E n \in Nat : Counts(Body(e, src, at), n)
<1> DEFINE fields == Fields[at.message]
           w == [i \in DOMAIN fields |-> [s \in Stream |->
                   encode_field(e, s, src, fields[i], at.path)]]
           N == Len(fields)
<1>1. N \in Nat /\ DOMAIN fields = 1 .. N
  <2>1. fields \in Seq(Field)
    BY StructureIs, FieldsAssumption
  <2>2. QED
    BY <2>1, LenProperties
<1>2. ASSUME NEW i \in 1 .. N PROVE \E n \in Nat : Counts(w[i], n)
  <2> DEFINE f == fields[i]
             field(s) == encode_field(e, s, src, f, at.path)
  <2>1. /\ f \in FieldsOf(at.message) /\ f \in Field
        /\ (f.shape = "pointer" <=> f.kind = "bytes")
        /\ Filled(f, src[Slot(at.path, f)])
    BY <1>1, FieldIsFilled
  <2>2. fields # <<>>
    <3>1. i \in DOMAIN fields
      BY <1>1
    <3> HIDE DEF fields
    <3>2. QED
      BY <3>1
  <2>3. ASSUME NEW j, Leads(src, f, at.path, j)
        PROVE  \E n \in Nat : Counts(e[At(f.of, at.path \o Step(f, j))], n)
    <3> DEFINE b == At(f.of, at.path \o Step(f, j))
    <3> HIDE DEF f
    <3>1. b \in Structures(src) /\ Len(b.path) = Len(at.path) + 1
      BY <2>1, <2>3, LeadsDeeper
    <3> HIDE DEF b
    <3>2. QED
      BY <2>2, <3>1 DEF b
  <2>4. PICK n \in Nat : \A s \in Usable : Advances(s, n, field(s))
    <3> HIDE DEF f
    <3>1. QED
      BY <2>1, <2>3, FieldCounts
  <2>5. \A s \in Usable : w[i][s] = field(s)
    BY <1>1, StreamIs
  <2> HIDE DEF w, field
  <2>6. Counts(w[i], n)
    BY <2>4, <2>5 DEF Counts
  <2>7. QED
    BY <2>6
<1>3. DOMAIN w = 1 .. N
  BY <1>1
<1>4. Body(e, src, at) = [s \in Stream |-> WriteEach(s, w)]
  BY DEF Body
<1> HIDE DEF w, N, fields
<1>5. PICK n \in Nat : \A s \in Usable : Advances(s, n, WriteEach(s, w))
  BY <1>1, <1>2, <1>3, EachCounts
<1>6. \A s \in Usable : Body(e, src, at)[s] = WriteEach(s, w)
  BY <1>4, StreamIs
<1>7. Counts(Body(e, src, at), n)
  BY <1>5, <1>6 DEF Counts
<1>8. QED
  BY <1>7

LEMMA StructureCounts ==
  ASSUME NEW src, NEW m, InMemory(src, m), NEW at \in Structures(src)
  PROVE  \E n \in Nat : Counts(pb_encode(src)[at], n)
<1> DEFINE e == pb_encode(src)
           Some(b) == \E n \in Nat : Counts(e[b], n)
           All(k) == \A b \in Structures(src) : Len(b.path) >= k => Some(b)
           right == {k \in Nat : All(k)}
<1>1. PICK N \in Nat : \A b \in Structures(src) :
        Len(b.path) >= N => Fields[b.message] = <<>>
  BY NoneDeeper
<1>2. \A b \in Structures(src) : e[b] = Body(e, src, b)
  BY EncodeIs
<1> HIDE DEF e
<1>3. All(N)
  <2> SUFFICES ASSUME NEW b \in Structures(src), Len(b.path) >= N PROVE Some(b)
    OBVIOUS
  <2>1. Fields[b.message] = <<>>
    BY <1>1
  <2>2. \E n \in Nat : Counts(Body(e, src, b), n)
    BY <2>1, BodyCounts
  <2>3. QED
    BY <1>2, <2>2
<1>4. \A k \in Nat : All(k + 1) => All(k)
  <2> SUFFICES ASSUME NEW k \in Nat, All(k + 1), NEW b \in Structures(src), Len(b.path) >= k
               PROVE  Some(b)
    OBVIOUS
  <2>1. ASSUME NEW c \in Structures(src), Len(c.path) = Len(b.path) + 1
        PROVE  \E n \in Nat : Counts(e[c], n)
    <3>1. Len(b.path) \in Nat
      BY StructureIs
    <3>2. Len(c.path) >= k + 1
      BY <2>1, <3>1
    <3>3. QED
      BY <3>2
  <2>2. \E n \in Nat : Counts(Body(e, src, b), n)
    BY <2>1, BodyCounts
  <2>3. QED
    BY <1>2, <2>2
<1> HIDE DEF All
<1>5. right \in SUBSET Nat /\ N \in right
  BY <1>3
<1>6. PICK k \in right : \A l \in right : k <= l
  <2> HIDE DEF right
  <2>1. QED
    BY <1>5, Least
<1>7. k = 0
  <2> SUFFICES ASSUME k # 0 PROVE FALSE
    OBVIOUS
  <2>1. k - 1 \in Nat /\ (k - 1) + 1 = k /\ k \in Nat
    OBVIOUS
  <2>2. k - 1 \in right
    BY <1>4, <2>1
  <2>3. k <= k - 1
    BY <1>6, <2>2
  <2>4. QED
    BY <2>1, <2>3
<1>8. All(0)
  BY <1>7
<1>9. Some(at)
  <2>1. Len(at.path) >= 0
    BY StructureIs
  <2>2. QED
    BY <1>8, <2>1 DEF All
<1>10. QED
  BY <1>9 DEF e

-----------------------------------------------------------------------------
(* What the first pass counts is what the second writes.                   *)
LEMMA PassesAgree ==
  ASSUME NEW src, InMemory(src, Root)
  PROVE  \E n \in Nat :
           /\ pb_encode(src)[At(Root, <<>>)][Sizing].written = n
           /\ LET t == pb_encode(src)[At(Root, <<>>)][Buffer(n)]
              IN  t.ok /\ t.written = n
<1> DEFINE body == pb_encode(src)[At(Root, <<>>)]
<1>1. PICK n \in Nat : Counts(body, n)
  <2>1. At(Root, <<>>) \in Structures(src)
    BY DEF InMemory
  <2>2. QED
    BY <2>1, StructureCounts
<1> HIDE DEF body
<1>2. body[Sizing].written = n
  <2>1. Advances(Sizing, n, body[Sizing])
    BY <1>1, SizingIs DEF Counts
  <2>2. QED
    BY <2>1, SizingIs
<1>3. body[Buffer(n)].ok /\ body[Buffer(n)].written = n
  <2> DEFINE b == [Buffer(n) EXCEPT !.out = <<>>]
  <2>1. b = Buffer(n)
    <3> DEFINE c == [Sizing EXCEPT !.callback = TRUE]
               d == [c EXCEPT !.max_size = n]
    <3>1. Sizing \in Stream /\ Sizing.out = <<>>
      BY SizingIs, StreamIs DEF Sizing
    <3>2. c \in Stream /\ c.out = <<>>
      BY <3>1 DEF Stream
    <3> HIDE DEF c
    <3>3. d \in Stream /\ d.out = <<>>
      BY <3>2 DEF Stream
    <3>4. Buffer(n) = d
      BY DEF Buffer, c
    <3> HIDE DEF d
    <3>5. d = [d EXCEPT !.out = <<>>]
      BY <3>3 DEF Stream
    <3>6. QED
      BY <3>4, <3>5
  <2>2. b \in Usable /\ \A t : Advances(b, n, t) =>
          t.ok /\ t.written = n /\ t.callback /\ t.out \in Seq(Byte)
    <3>1. <<>> \in Seq(Byte)
      OBVIOUS
    <3>2. QED
      BY <3>1, BufferIs
  <2> HIDE DEF b
  <2>3. Advances(b, n, body[b])
    BY <1>1, <2>2 DEF Counts
  <2>4. QED
    BY <2>1, <2>2, <2>3
<1>4. QED
  BY <1>2, <1>3 DEF body

FirstPassCounted ==
  /\ source \in Samples
  /\ ostream = Sizing =>
       size = pb_encode(source)[At(Root, <<>>)][Sizing].written

SentInv == FirstPassCounted /\ SecondPassFits

(* The second pass of the application's encoder always succeeds and fills  *)
(* the buffer to the last byte: what it sends is a whole message           *)
(* (GDTCCTNanopbHelpers.m:54-72, pb_encode.c:717-765).                     *)
THEOREM SecondPassFillsBuffer == Spec => []SecondPassFits
<1>1. Init => SentInv
  <2> SUFFICES ASSUME Init PROVE SentInv
    OBVIOUS
  <2>1. source \in Samples /\ ~Unsent.callback /\ Unsent # Sizing /\ ostream = Unsent
    BY DEF Init, Unsent, Sizing
  <2>2. QED
    BY <2>1 DEF SentInv, FirstPassCounted, SecondPassFits
<1>2. SentInv /\ [Next]_vars => SentInv'
  <2> SUFFICES ASSUME SentInv, [Next]_vars PROVE SentInv'
    OBVIOUS
  <2>1. CASE FirstPass
    <3>1. ~Sizing.callback
      BY DEF Sizing
    <3>2. QED
      BY <2>1, <3>1 DEF FirstPass, SentInv, FirstPassCounted, SecondPassFits
  <2>2. CASE SecondPass
    <3>1. InMemory(source, Root)
      BY SamplesAssumption DEF SentInv, FirstPassCounted
    <3>2. size = pb_encode(source)[At(Root, <<>>)][Sizing].written
      BY <2>2 DEF SecondPass, SentInv, FirstPassCounted
    <3>3. ostream'.ok /\ ostream'.written = size
      BY <2>2, <3>1, <3>2, PassesAgree DEF SecondPass
    <3>4. QED
      BY <2>2, <3>3 DEF SecondPass, SentInv, FirstPassCounted, SecondPassFits
  <2>3. CASE UNCHANGED sender
    BY <2>3 DEF sender, SentInv, FirstPassCounted, SecondPassFits
  <2>4. QED
    BY <2>1, <2>2, <2>3 DEF Next, Arrives, vars, sender
<1>3. SentInv => SecondPassFits
  BY DEF SentInv
<1>4. QED
  BY <1>1, <1>2, <1>3, PTL DEF Spec

-----------------------------------------------------------------------------
(* What is written, and not only how much: a buffer that has room gets the *)
(* bytes behind what it has.                                               *)
Adds(s, bytes, t) ==
  Advances(s, Len(bytes), t) /\ (s.ok /\ s.callback /\ t.ok => t.out = s.out \o bytes)

Writes(write, bytes) == \A s \in Usable : Adds(s, bytes, write[s])

LEMMA Joined ==
  ASSUME NEW S, NEW o \in Seq(S), NEW a \in Seq(S), NEW b \in Seq(S),
         NEW t, t = o \o a, NEW u, u = t \o b
  PROVE  u = o \o (a \o b)
<1>1. (o \o a) \o b = o \o (a \o b)
  BY ConcatAssociative
<1>2. QED
  BY <1>1

LEMMA AddsNothing ==
  ASSUME NEW s \in Usable
  PROVE  <<>> \in Seq(Byte) /\ Adds(s, <<>>, s)
<1>1. <<>> \in Seq(Byte) /\ Len(<<>>) = 0
  OBVIOUS
<1>2. s.out \o <<>> = s.out
  BY StreamIs
<1>3. Advances(s, 0, s)
  BY CountsNothing
<1>4. QED
  BY <1>1, <1>2, <1>3 DEF Adds

LEMMA AddsBoth ==
  ASSUME NEW s \in Usable, NEW a \in Seq(Byte), NEW t, Adds(s, a, t),
         NEW b \in Seq(Byte), NEW u, Adds(t, b, u)
  PROVE  a \o b \in Seq(Byte) /\ Adds(s, a \o b, u)
<1>1. a \o b \in Seq(Byte) /\ Len(a \o b) = Len(a) + Len(b) /\ Len(a) \in Nat /\ Len(b) \in Nat
  BY Concat, LenProperties
<1>2. Advances(s, Len(a), t) /\ Advances(t, Len(b), u)
  BY DEF Adds
<1>3. Advances(s, Len(a) + Len(b), u)
  BY <1>1, <1>2, CountsBoth
<1>4. ASSUME s.ok, s.callback, u.ok PROVE u.out = s.out \o (a \o b)
  <2>1. t.ok /\ t.callback
    <3>1. ~t.ok => u = t
      BY <1>2 DEF Advances
    <3>2. t.callback <=> s.callback
      BY <1>2 DEF Advances
    <3>3. QED
      BY <1>4, <3>1, <3>2
  <2>2. t.out = s.out \o a /\ u.out = t.out \o b
    BY <1>4, <2>1 DEF Adds
  <2>3. s.out \in Seq(Byte)
    BY StreamIs
  <2> DEFINE o == s.out
             v == t.out
             w == u.out
  <2>4. o \in Seq(Byte) /\ v = o \o a /\ w = v \o b
    BY <2>2, <2>3
  <2> HIDE DEF o, v, w
  <2>5. w = o \o (a \o b)
    BY <2>4, Joined
  <2>6. QED
    BY <2>5 DEF o, w
<1>5. QED
  BY <1>1, <1>3, <1>4 DEF Adds

LEMMA BytesAdd ==
  ASSUME NEW s \in Usable, NEW bytes \in Seq(Byte)
  PROVE  Adds(s, bytes, pb_write(s, bytes))
<1> DEFINE t == pb_write(s, bytes)
<1>1. Advances(s, Len(bytes), t)
  BY BytesCount
<1>2. s \in Stream
  BY StreamIs
<1>3. ASSUME s.ok, s.callback, t.ok PROVE t.out = s.out \o bytes
  <2>1. CASE s.written + Len(bytes) > s.max_size
    <3>1. t = [s EXCEPT !.ok = FALSE]
      BY <1>3, <2>1 DEF pb_write
    <3>2. ~t.ok
      BY <1>2, <3>1 DEF Stream
    <3>3. QED
      BY <1>3, <3>2
  <2>2. CASE ~(s.written + Len(bytes) > s.max_size)
    <3>1. t = [s EXCEPT !.written = @ + Len(bytes), !.out = @ \o bytes]
      BY <1>3, <2>2 DEF pb_write
    <3> HIDE DEF t
    <3> DEFINE b == s.out \o bytes
    <3>2. t = [s EXCEPT !.written = @ + Len(bytes), !.out = b]
      BY <3>1
    <3> HIDE DEF b
    <3>3. t.out = b
      BY <1>2, <3>2 DEF Stream
    <3>4. QED
      BY <3>3 DEF b
  <2>3. QED
    BY <2>1, <2>2
<1>4. QED
  BY <1>1, <1>3 DEF Adds

LEMMA NumberAdds ==
  ASSUME NEW s \in Usable, NEW n \in Nat
  PROVE  /\ Adds(s, pb_encode_varint[n], EncodeNumber(s, n))
         /\ pb_encode_varint[n] \in Seq(Byte)
<1>1. pb_encode_varint[n] \in Seq(Byte)
  BY EncodingIs
<1>2. QED
  BY <1>1, BytesAdd DEF EncodeNumber

LEMMA TagAdds ==
  ASSUME NEW s \in Usable, NEW f \in Field, NEW wireType \in Nat
  PROVE  /\ Adds(s, pb_encode_varint[8 * f.tag + wireType], pb_encode_tag(s, wireType, f))
         /\ pb_encode_varint[8 * f.tag + wireType] \in Seq(Byte)
<1> DEFINE n == 8 * f.tag + wireType
<1>1. n \in Nat
  BY DEF Field
<1>2. pb_encode_tag(s, wireType, f) = EncodeNumber(s, n)
  BY DEF pb_encode_tag
<1> HIDE DEF n
<1>3. Adds(s, pb_encode_varint[n], pb_encode_tag(s, wireType, f))
      /\ pb_encode_varint[n] \in Seq(Byte)
  BY <1>1, <1>2, NumberAdds
<1>4. QED
  BY <1>3 DEF n

LEMMA ScalarAdds ==
  ASSUME NEW s \in Usable, NEW kind, NEW n \in Int
  PROVE  /\ Adds(s, pb_encode_varint[Written(kind, n)], EncodeScalar(s, kind, n))
         /\ pb_encode_varint[Written(kind, n)] \in Seq(Byte)
<1>1. Written(kind, n) \in Nat
  BY WrittenIsNumber
<1>2. QED
  BY <1>1, NumberAdds DEF EncodeScalar

(* A loop writes what its functions do, one after the other.  good[k] is   *)
(* what may have been written by the first k of them.                      *)
LEMMA EachWrites ==
  ASSUME NEW N \in Nat, NEW w, DOMAIN w = 1 .. N, NEW good, <<>> \in good[0],
         \A k \in 0 .. N : good[k] \subseteq Seq(Byte),
         \A k \in 1 .. N : \A b \in good[k - 1] :
           \E c \in Seq(Byte) : Writes(w[k], c) /\ b \o c \in good[k]
  PROVE  \E bytes \in good[N] : \A s \in Usable : Adds(s, bytes, WriteEach(s, w))
<1> DEFINE UpTo(k, b) == \A s \in Usable : \A at : InTurn(at, s, w, N) => Adds(s, b, at[k])
           Some(k) == \E b \in good[k] : UpTo(k, b)
           wrong == {k \in 0 .. N : ~Some(k)}
<1>1. wrong = {}
  <2>1. SUFFICES ASSUME wrong # {} PROVE FALSE
    OBVIOUS
  <2>2. PICK k \in wrong : \A l \in wrong : k <= l
    <3> HIDE DEF UpTo
    <3>1. wrong \in SUBSET Nat
      OBVIOUS
    <3> HIDE DEF wrong
    <3>2. QED
      BY <2>1, <3>1, Least
  <2>3. CASE k = 0
    <3>1. UpTo(k, <<>>)
      BY <2>3, AddsNothing DEF InTurn
    <3> HIDE DEF UpTo
    <3>2. QED
      BY <2>2, <2>3, <3>1
  <2>4. CASE k # 0
    <3> DEFINE j == k - 1
    <3>1. j \in 0 .. N /\ j \notin wrong /\ k \in 1 .. N
      <4> HIDE DEF UpTo, Some
      <4>1. k \in 0 .. N
        BY <2>2
      <4> HIDE DEF wrong
      <4>2. j \notin wrong
        BY <2>2, <2>4, <4>1
      <4>3. QED
        BY <2>4, <4>1, <4>2
    <3>2. PICK b \in good[j] : UpTo(j, b)
      <4> HIDE DEF UpTo, Some, j
      <4>1. Some(j)
        BY <3>1
      <4>2. QED
        BY <4>1 DEF Some
    <3>3. PICK c \in Seq(Byte) : Writes(w[k], c) /\ b \o c \in good[k]
      BY <3>1
    <3>4. b \in Seq(Byte)
      BY <3>1
    <3>5. ASSUME NEW s \in Usable, NEW at, InTurn(at, s, w, N)
          PROVE  Adds(s, b \o c, at[k])
      <4>1. at[k] = w[k][at[j]]
        BY <3>1, <3>5 DEF InTurn
      <4>2. Adds(s, b, at[j])
        BY <3>2, <3>5
      <4> HIDE DEF j
      <4>3. at[j] \in Usable
        BY <4>2 DEF Adds, Advances
      <4>4. Adds(at[j], c, at[k])
        BY <3>3, <4>1, <4>3 DEF Writes
      <4> DEFINE t == at[j]
                 u == at[k]
      <4>5. Adds(s, b, t) /\ Adds(t, c, u)
        BY <4>2, <4>4
      <4> HIDE DEF t, u
      <4>6. Adds(s, b \o c, u)
        BY <3>4, <4>5, AddsBoth
      <4>7. QED
        BY <4>6 DEF u
    <3>6. UpTo(k, b \o c)
      BY <3>5
    <3> HIDE DEF UpTo
    <3>7. QED
      BY <2>2, <3>3, <3>6
  <2>5. QED
    BY <2>3, <2>4
<1>2. PICK b \in good[N] : UpTo(N, b)
  <2> HIDE DEF UpTo
  <2>1. N \in 0 .. N
    OBVIOUS
  <2>2. QED
    BY <1>1, <2>1
<1>3. ASSUME NEW s \in Usable PROVE Adds(s, b, WriteEach(s, w))
  <2>1. PICK at : InTurn(at, s, w, N) /\ at[N] = WriteEach(s, w)
    <3> HIDE DEF UpTo
    <3>1. QED
      BY EachInTurn
  <2>2. Adds(s, b, at[N])
    BY <1>2, <2>1
  <2>3. QED
    BY <2>1, <2>2
<1> HIDE DEF UpTo
<1>4. QED
  BY <1>3

LEMMA StringAdds ==
  ASSUME NEW s \in Usable, NEW bytes \in Seq(Byte)
  PROVE  Adds(s, pb_encode_varint[Len(bytes)] \o bytes, pb_encode_string(s, bytes))
<1> DEFINE n == Len(bytes)
           started == EncodeNumber(s, n)
<1>1. n \in Nat
  BY LenProperties
<1>2. pb_encode_string(s, bytes) = pb_write(started, bytes)
  BY DEF pb_encode_string
<1> HIDE DEF n
<1>3. Adds(s, pb_encode_varint[n], started) /\ pb_encode_varint[n] \in Seq(Byte)
  BY <1>1, NumberAdds
<1> HIDE DEF started
<1>4. started \in Usable
  BY <1>3 DEF Adds, Advances
<1>5. Adds(started, bytes, pb_write(started, bytes))
  BY <1>4, BytesAdd
<1>6. Adds(s, pb_encode_varint[n] \o bytes, pb_write(started, bytes))
  BY <1>3, <1>5, AddsBoth
<1>7. QED
  BY <1>2, <1>6 DEF n

LEMMA PackedAdds ==
  ASSUME NEW f \in Field, NEW items, NEW body \in Seq(Byte),
         \A s \in Usable : Adds(s, body, EncodeItems(s, f.kind, items)),
         NEW s \in Usable
  PROVE  Adds(s, pb_encode_varint[8 * f.tag + 2] \o (pb_encode_varint[Len(body)] \o body),
              EncodePacked(s, f, items))
<1> DEFINE k == Len(body)
           t == pb_encode_varint[8 * f.tag + 2]
           l == pb_encode_varint[k]
           tagged  == pb_encode_tag(s, 2, f)
           started == EncodeNumber(tagged, k)
<1>1. k \in Nat
  BY LenProperties
<1>2. EncodeItems(Sizing, f.kind, items).written = k
  <2>1. Advances(Sizing, k, EncodeItems(Sizing, f.kind, items))
    BY SizingIs DEF Adds
  <2> HIDE DEF k
  <2>2. QED
    BY <1>1, <2>1, SizingIs
<1>3. Adds(s, t, tagged) /\ t \in Seq(Byte)
  BY TagAdds
<1>4. EncodePacked(s, f, items) = IF s.callback THEN EncodeItems(started, f.kind, items)
                                  ELSE Counting(started, k)
  BY <1>2 DEF EncodePacked
<1> HIDE DEF k, t, tagged
<1>5. tagged \in Usable
  BY <1>3 DEF Adds, Advances
<1>6. Adds(tagged, l, started) /\ l \in Seq(Byte)
  BY <1>1, <1>5, NumberAdds
<1> HIDE DEF l, started
<1>7. started \in Usable /\ (started.callback <=> s.callback)
  BY <1>3, <1>6 DEF Adds, Advances
<1>8. Adds(started, body, EncodePacked(s, f, items))
  <2>1. CASE s.callback
    BY <1>4, <1>7, <2>1
  <2>2. CASE ~s.callback
    <3>1. Advances(started, k, Counting(started, k))
      BY <1>1, <1>7, <2>2, CountingCounts
    <3>2. QED
      BY <1>4, <1>7, <2>2, <3>1 DEF Adds, k
  <2>3. QED
    BY <2>1, <2>2
<1>9. Adds(tagged, l \o body, EncodePacked(s, f, items)) /\ l \o body \in Seq(Byte)
  BY <1>5, <1>6, <1>8, AddsBoth
<1>10. Adds(s, t \o (l \o body), EncodePacked(s, f, items))
  BY <1>3, <1>9, AddsBoth
<1>11. QED
  BY <1>10 DEF t, l, k

LEMMA SubmessageAdds ==
  ASSUME NEW encode, NEW m, NEW path, NEW body \in Seq(Byte),
         Writes(encode[At(m, path)], body), NEW s \in Usable
  PROVE  Adds(s, pb_encode_varint[Len(body)] \o body, pb_encode_submessage(encode, s, m, path))
<1> DEFINE n == Len(body)
           l == pb_encode_varint[n]
           call == encode[At(m, path)]
           started == EncodeNumber(s, n)
           buffer == [Buffer(n) EXCEPT !.out = started.out]
           sub == call[buffer]
           t == pb_encode_submessage(encode, s, m, path)
<1>1. n \in Nat
  BY LenProperties
<1>2. Counts(call, n)
  BY DEF Writes, Adds, Counts
<1>3. Advances(s, Len(l) + n, t) /\ Len(l) + n \in Nat
  <2> HIDE DEF n
  <2>1. QED
    BY <1>1, <1>2, SubmessageCounts
<1>4. call[Sizing].ok /\ call[Sizing].written = n
  <2>1. Advances(Sizing, n, call[Sizing])
    BY <1>2, SizingIs DEF Counts
  <2> HIDE DEF n, call
  <2>2. QED
    BY <1>1, <2>1, SizingIs
<1>5. t = IF ~started.ok \/ ~started.callback THEN Counting(started, n)
          ELSE IF started.written + n > started.max_size
               THEN [started EXCEPT !.ok = FALSE]
               ELSE [started EXCEPT !.written = @ + sub.written, !.out = sub.out,
                                    !.ok = sub.ok /\ sub.written = n]
  BY <1>4 DEF pb_encode_submessage
<1>6. Writes(call, body)
  OBVIOUS
<1> HIDE DEF n, started, call, t
<1>7. Adds(s, l, started) /\ l \in Seq(Byte)
  BY <1>1, NumberAdds DEF started
<1>8. started \in Usable /\ (s.ok /\ s.callback /\ started.ok => started.out = s.out \o l)
      /\ (started.callback <=> s.callback) /\ (~s.ok => started = s)
  BY <1>7 DEF Adds, Advances
<1>9. started \in Stream /\ started.out \in Seq(Byte) /\ s.out \in Seq(Byte)
  BY <1>8, StreamIs
<1>10. Len(l \o body) = Len(l) + n
  BY <1>7, Concat DEF n
<1>11. ASSUME s.ok, s.callback, t.ok PROVE t.out = s.out \o (l \o body)
  <2>1. started.callback
    BY <1>8, <1>11
  <2>2. started.ok
    <3> SUFFICES ASSUME ~started.ok PROVE FALSE
      OBVIOUS
    <3>1. t = started
      BY <1>5 DEF Counting
    <3>2. QED
      BY <1>11, <3>1
  <2>3. ~(started.written + n > started.max_size)
    <3> SUFFICES ASSUME started.written + n > started.max_size PROVE FALSE
      OBVIOUS
    <3>1. t = [started EXCEPT !.ok = FALSE]
      BY <1>5, <2>1, <2>2
    <3>2. ~t.ok
      BY <1>9, <3>1 DEF Stream
    <3>3. QED
      BY <1>11, <3>2
  <2>4. t.out = sub.out
    <3>1. t = [started EXCEPT !.written = @ + sub.written, !.out = sub.out,
                              !.ok = sub.ok /\ sub.written = n]
      BY <1>5, <2>1, <2>2, <2>3
    <3> HIDE DEF sub
    <3>2. QED
      BY <1>9, <3>1 DEF Stream
  <2>5. sub.out = started.out \o body
    <3>1. buffer \in Usable /\ \A u : Advances(buffer, n, u) =>
            u.ok /\ u.written = n /\ u.callback /\ u.out \in Seq(Byte)
      BY <1>1, <1>9, BufferIs
    <3>2. buffer.ok /\ buffer.callback /\ buffer.out = started.out
      <4> DEFINE c == [Sizing EXCEPT !.callback = TRUE]
                 d == [c EXCEPT !.max_size = n]
      <4>1. Sizing \in Stream /\ Sizing.ok
        BY SizingIs, StreamIs
      <4>2. c \in Stream /\ c.callback /\ c.ok
        BY <4>1 DEF Stream
      <4> HIDE DEF c
      <4>3. d \in Stream /\ d.callback /\ d.ok
        BY <1>1, <4>2 DEF Stream
      <4>4. buffer = [d EXCEPT !.out = started.out]
        BY DEF Buffer, c
      <4> HIDE DEF buffer, d
      <4>5. QED
        BY <4>3, <4>4 DEF Stream
    <3> HIDE DEF buffer
    <3>3. Adds(buffer, body, sub)
      BY <1>6, <3>1 DEF Writes
    <3> HIDE DEF sub
    <3>4. Advances(buffer, n, sub)
      BY <3>3 DEF Adds, n
    <3>5. sub.ok
      BY <3>1, <3>4
    <3>6. QED
      BY <3>2, <3>3, <3>5 DEF Adds
  <2>6. started.out = s.out \o l
    BY <1>8, <1>11, <2>2
  <2> DEFINE o == s.out
             v == started.out
             w == t.out
  <2>7. o \in Seq(Byte) /\ v = o \o l /\ w = v \o body
    BY <1>9, <2>4, <2>5, <2>6
  <2> HIDE DEF o, v, w, l
  <2>8. w = o \o (l \o body)
    BY <1>7, <2>7, Joined
  <2>9. QED
    BY <2>8 DEF o, w
<1> HIDE DEF l
<1>12. Adds(s, l \o body, t)
  BY <1>3, <1>10, <1>11 DEF Adds
<1>13. QED
  BY <1>12 DEF t, l, n

-----------------------------------------------------------------------------
(* What a decoder does with bytes that the encoder wrote.  A configuration *)
(* of the decoder: the bytes that were not read, and the rest of its state *)
(* but the outcome.                                                        *)
Conf(rest, calls, k, a, c) ==
  [rest |-> rest, calls |-> calls, key |-> k, answer |-> a, cells |-> c]

Rest == SubSeq(input, pos + 1, Len(input))
Now  == Conf(Rest, frames, key, answer, cells)

Reader(m, path, init, left) ==
  [kind |-> "message", left |-> left, message |-> m, path |-> path, init |-> init]
Filler(s, left, n) ==
  [kind |-> "packed", left |-> left, allocated |-> n, slot |-> s]

(* A call that reads a message: those that it returns to, what it leaves   *)
(* unread in its stream, and the bytes of the buffer from there.           *)
Calls == [base : Seq(Frame), message : Message, path : Path, init : BOOLEAN,
          left : Nat, tail : Seq(Byte)]

ReaderOf(g, left) == Reader(g.message, g.path, g.init, left)
Before(g, b, k, c) ==
  Conf(b \o g.tail, Append(g.base, ReaderOf(g, Len(b) + g.left)), k, "none", c)
After(g, k, c) == Conf(g.tail, Append(g.base, ReaderOf(g, g.left)), k, "none", c)

(* A call within it, of n bytes, before which b is read.                   *)
Outside(g, b, n, k, c) ==
  Conf(b \o g.tail, Append(g.base, ReaderOf(g, Len(b) + (n + g.left))), k, "none", c)
Inside(g, frame, c) ==
  Conf(g.tail, Append(Append(g.base, ReaderOf(g, g.left)), frame), 0, "none", c)

Lengths == 0 .. 2 ^ Bits32 - 1

ReadsTag(x, y) ==
  \E g \in Calls, n \in Lengths \ {0} : \E c :
    x = Before(g, pb_encode_varint[n], 0, c) /\ y = After(g, n, c)

ReadsNumber(x, y) ==
  \E g \in Calls : \E f \in FieldsOf(g.message), w \in {0} : \E v \in ValuesOf(f.kind) : \E c :
    /\ f.shape = "optional" /\ f.kind \in Numeric
    /\ x = Before(g, pb_encode_varint[Written(f.kind, v)], 8 * f.tag + w, c)
    /\ y = After(g, 0, [c EXCEPT ![Slot(g.path, f)] = Holding(<<v>>, 1)])

ReadsBytes(x, y) ==
  \E g \in Calls : \E f \in FieldsOf(g.message), v \in Seq(Byte) : \E c :
    /\ f.kind = "bytes" /\ Len(v) \in Lengths
    /\ x = Before(g, pb_encode_varint[Len(v)] \o v, 8 * f.tag + 2, c)
    /\ y = After(g, 0, [c EXCEPT ![Slot(g.path, f)] = Holding(v, Len(v))])

OpensMessage(x, y) ==
  \E g \in Calls : \E f \in FieldsOf(g.message), n \in Lengths : \E c :
    /\ f.shape = "optional" /\ f.kind = "message"
    /\ x = Outside(g, pb_encode_varint[n], n, 8 * f.tag + 2, c)
    /\ y = Inside(g, Reader(f.of, g.path \o Step(f, 0), FALSE, n),
                  [c EXCEPT ![Slot(g.path, f)].set = TRUE])

Longer(c, s) ==
  [c EXCEPT ![s] = Holding(Append(c[s].items, 0), Len(c[s].items) + 1)]

OpensElement(x, y) ==
  \E g \in Calls : \E f \in FieldsOf(g.message), n \in Lengths : \E c :
    LET s == Slot(g.path, f)
        path == g.path \o Step(f, Len(c[s].items) + 1)
    IN  /\ f.shape = "repeated" /\ f.kind = "message"
        /\ x = Outside(g, pb_encode_varint[n], n, 8 * f.tag + 2, c)
        /\ y = Inside(g, Reader(f.of, path, TRUE, n),
                      pb_message_set_to_defaults(f.of, path, Longer(c, s)))

OpensPacked(x, y) ==
  \E g \in Calls : \E f \in FieldsOf(g.message), n \in Lengths : \E c :
    LET s == Slot(g.path, f)
    IN  /\ f.shape = "repeated" /\ f.kind \in Numeric
        /\ x = Outside(g, pb_encode_varint[n], n, 8 * f.tag + 2, c)
        /\ y = Inside(g, Filler(s, n, Len(c[s].items)), c)

(* An element of a packed array, and the room there is for more.           *)
Crowded(c, s, n) == Len(c[s].items) + 1 > n
NextRoom(left, n) == n + ((left - 1) \div ItemSize + 1)
PackedMore(c, s, v, left, n) ==
  [c EXCEPT ![s] = Holding(Append(c[s].items, v),
                           IF Crowded(c, s, n) THEN NextRoom(left, n) ELSE c[s].room)]

ReadsItem(x, y) ==
  \E g \in Calls, n \in Nat, more \in Nat, s \in Place : \E v \in ValuesOf(s.field.kind) : \E c :
    LET b    == pb_encode_varint[Written(s.field.kind, v)]
        left == Len(b) + more
        base == Append(g.base, ReaderOf(g, g.left))
    IN  /\ s.field.kind \in Numeric
        /\ x = Conf(b \o g.tail, Append(base, Filler(s, left, n)), 0, "none", c)
        /\ y = Conf(g.tail,
                    Append(base, Filler(s, more, IF Crowded(c, s, n) THEN NextRoom(left, n) ELSE n)),
                    0, "none", PackedMore(c, s, v, left, n))

Emptied == {f \in Frame : f.left = 0}

EndsCall(x, y) ==
  \E base \in Seq(Frame), f \in Emptied, tail \in Seq(Byte) : \E c :
    /\ x = Conf(tail, Append(base, f), 0, "none", c)
    /\ y = Conf(tail, Append(base, f), 0, "true", c)

Returns(x, y) ==
  \E base \in Seq(Frame) \ {<<>>}, f \in Emptied, tail \in Seq(Byte) : \E c :
    /\ x = Conf(tail, Append(base, f), 0, "true", c)
    /\ y = Conf(tail, base, 0, "none", c)

Follows(x, y) ==
  \/ ReadsTag(x, y) \/ ReadsNumber(x, y) \/ ReadsBytes(x, y)
  \/ OpensMessage(x, y) \/ OpensElement(x, y) \/ OpensPacked(x, y)
  \/ ReadsItem(x, y) \/ EndsCall(x, y) \/ Returns(x, y)

(* From x, such steps lead to y.                                           *)
Route(r, n, x, y) ==
  r[0] = x /\ r[n] = y /\ \A i \in 0 .. n - 1 : Follows(r[i], r[i + 1])

Leading(x, y) == \E n \in Nat : \E r : Route(r, n, x, y)

LEMMA LeadingNowhere ==
  ASSUME NEW x
  PROVE  Leading(x, x)
<1> DEFINE r == [i \in Nat |-> x]
<1>1. r[0] = x /\ 0 .. 0 - 1 = {} /\ 0 \in Nat
  OBVIOUS
<1> HIDE DEF r
<1>2. Route(r, 0, x, x)
  BY <1>1 DEF Route
<1>3. QED
  BY <1>1, <1>2 DEF Leading

LEMMA LeadingOnce ==
  ASSUME NEW x, NEW y, Follows(x, y)
  PROVE  Leading(x, y)
<1> DEFINE r == [i \in 0 .. 1 |-> IF i = 0 THEN x ELSE y]
<1>1. r[0] = x /\ r[1] = y /\ 1 \in Nat /\ \A i \in 0 .. 1 - 1 : i = 0 /\ i + 1 = 1
  OBVIOUS
<1> HIDE DEF r
<1>2. \A i \in 0 .. 1 - 1 : Follows(r[i], r[i + 1])
  BY <1>1
<1>3. Route(r, 1, x, y)
  BY <1>1, <1>2 DEF Route
<1>4. QED
  BY <1>1, <1>3 DEF Leading

LEMMA LeadingOn ==
  ASSUME NEW x, NEW y, NEW z, Leading(x, y), Leading(y, z)
  PROVE  Leading(x, z)
<1>1. PICK m \in Nat : \E r : Route(r, m, x, y)
  BY DEF Leading
<1>2. PICK r : Route(r, m, x, y)
  BY <1>1
<1>3. PICK n \in Nat : \E s : Route(s, n, y, z)
  BY DEF Leading
<1>4. PICK s : Route(s, n, y, z)
  BY <1>3
<1> DEFINE t == [i \in 0 .. m + n |-> IF i <= m THEN r[i] ELSE s[i - m]]
           N == m + n
<1>5. r[0] = x /\ r[m] = y /\ s[0] = y /\ s[n] = z
  BY <1>2, <1>4 DEF Route
<1>6. /\ \A i \in 0 .. m : t[i] = r[i]
      /\ \A j \in 0 .. n : m + j \in 0 .. m + n /\ t[m + j] = s[j]
  <2>1. \A i \in 0 .. m : t[i] = r[i]
    OBVIOUS
  <2>2. ASSUME NEW j \in 0 .. n PROVE m + j \in 0 .. m + n /\ t[m + j] = s[j]
    <3>1. CASE j = 0
      BY <1>5, <3>1
    <3>2. CASE j # 0
      <4>1. m + j \in 0 .. m + n /\ ~(m + j <= m) /\ (m + j) - m = j
        BY <3>2
      <4>2. QED
        BY <4>1
    <3>3. QED
      BY <3>1, <3>2
  <2>3. QED
    BY <2>1, <2>2
<1>7. N \in Nat /\ 0 \in 0 .. m /\ n \in 0 .. n /\ m + n = N
  OBVIOUS
<1> HIDE DEF t
<1>8. t[0] = x /\ t[N] = z
  BY <1>5, <1>6, <1>7
<1>9. ASSUME NEW i \in 0 .. N - 1 PROVE Follows(t[i], t[i + 1])
  <2>1. CASE i < m
    <3>1. i \in 0 .. m - 1 /\ i \in 0 .. m /\ i + 1 \in 0 .. m
      BY <2>1
    <3>2. t[i] = r[i] /\ t[i + 1] = r[i + 1]
      BY <1>6, <3>1
    <3>3. QED
      BY <1>2, <3>1, <3>2 DEF Route
  <2>2. CASE ~(i < m)
    <3> DEFINE j == i - m
    <3>1. j \in 0 .. n - 1 /\ j \in 0 .. n /\ j + 1 \in 0 .. n
          /\ i = m + j /\ i + 1 = m + (j + 1)
      BY <2>2
    <3> HIDE DEF j
    <3>2. t[i] = s[j] /\ t[i + 1] = s[j + 1]
      BY <1>6, <3>1
    <3>3. QED
      BY <1>4, <3>1, <3>2 DEF Route
  <2>3. QED
    BY <2>1, <2>2
<1> HIDE DEF N
<1>10. Route(t, N, x, z)
  BY <1>8, <1>9 DEF Route
<1>11. QED
  BY <1>7, <1>10 DEF Leading

LEMMA LeadingFirst ==
  ASSUME NEW x, NEW z, Leading(x, z)
  PROVE  x = z \/ \E y : Follows(x, y) /\ Leading(y, z)
<1>1. PICK n \in Nat : \E r : Route(r, n, x, z)
  BY DEF Leading
<1>2. PICK r : Route(r, n, x, z)
  BY <1>1
<1>3. CASE n = 0
  BY <1>2, <1>3 DEF Route
<1>4. CASE n # 0
  <2> DEFINE m == n - 1
             s == [i \in 0 .. m |-> r[i + 1]]
  <2>1. m \in Nat /\ 0 \in 0 .. m /\ m \in 0 .. m /\ m + 1 = n /\ 0 \in 0 .. n - 1
    BY <1>4
  <2>2. s[0] = r[1] /\ s[m] = r[n]
    BY <2>1
  <2>3. ASSUME NEW i \in 0 .. m - 1 PROVE Follows(s[i], s[i + 1])
    <3>1. i \in 0 .. m /\ i + 1 \in 0 .. m /\ i + 1 \in 0 .. n - 1
      BY <2>1
    <3>2. s[i] = r[i + 1] /\ s[i + 1] = r[(i + 1) + 1]
      BY <3>1
    <3> HIDE DEF s
    <3>3. QED
      BY <1>2, <3>1, <3>2 DEF Route
  <2>4. r[0] = x /\ r[n] = z
    BY <1>2 DEF Route
  <2>5. Follows(r[0], r[0 + 1])
    BY <1>2, <2>1 DEF Route
  <2> HIDE DEF s, m
  <2>6. Route(s, m, r[1], z)
    BY <2>2, <2>3, <2>4 DEF Route
  <2>7. Leading(r[1], z)
    BY <2>1, <2>6 DEF Leading
  <2>8. 0 + 1 = 1
    OBVIOUS
  <2>9. QED
    BY <2>4, <2>5, <2>7, <2>8
<1>5. QED
  BY <1>3, <1>4

-----------------------------------------------------------------------------
(* A part of a sequence.                                                   *)
LEMMA SliceIs ==
  ASSUME NEW S, NEW q \in Seq(S), NEW i \in Nat, NEW j \in Nat, i <= j, j <= Len(q)
  PROVE  /\ SubSeq(q, i + 1, j) \in Seq(S) /\ Len(SubSeq(q, i + 1, j)) = j - i
         /\ \A k \in 1 .. j - i : SubSeq(q, i + 1, j)[k] = q[i + k]
<1>1. \A k \in i + 1 .. j : q[k] \in S
  <2>1. \A k \in i + 1 .. j : k \in 1 .. Len(q)
    BY LenProperties
  <2>2. QED
    BY <2>1, ElementOfSeq
<1> DEFINE m == i + 1
           u == SubSeq(q, m, j)
<1>2. m \in Int /\ j \in Int /\ j - m + 1 = j - i /\ (m <= j => i < j) /\ (~(m <= j) => j - i = 0)
  OBVIOUS
<1>3. \A k \in 1 .. j - i : m + k - 1 = i + k
  OBVIOUS
<1> HIDE DEF m
<1>4. /\ u \in Seq(S) /\ Len(u) = IF m <= j THEN j - m + 1 ELSE 0
      /\ \A k \in 1 .. j - m + 1 : u[k] = q[m + k - 1]
  <2>1. \A k \in m .. j : q[k] \in S
    BY <1>1 DEF m
  <2>2. QED
    BY <1>2, <2>1, SubSeqProperties
<1> HIDE DEF u
<1>5. u \in Seq(S) /\ Len(u) = j - i
  BY <1>2, <1>4
<1>6. \A k \in 1 .. j - i : u[k] = q[i + k]
  BY <1>2, <1>3, <1>4
<1>7. QED
  BY <1>5, <1>6 DEF u, m

(* The innermost call.                                                     *)
EndsWith(q, base, e) ==
  /\ q \in Seq(Frame) /\ Len(base) \in Nat /\ Len(q) = Len(base) + 1
  /\ Len(q) \in DOMAIN q /\ q[Len(q)] = e /\ q # <<>>
  /\ SubSeq(q, 1, Len(q) - 1) = base
  /\ \A h \in Frame : [q EXCEPT ![Len(q)] = h] = Append(base, h)

LEMMA LastIs ==
  ASSUME NEW base \in Seq(Frame), NEW e \in Frame, NEW q, q = Append(base, e)
  PROVE  EndsWith(q, base, e)
<1> DEFINE S == Frame
<1>0. base \in Seq(S) /\ e \in S
  OBVIOUS
<1> HIDE DEF S
<1>1. /\ q \in Seq(S) /\ Len(base) \in Nat /\ Len(q) = Len(base) + 1
      /\ q[Len(base) + 1] = e /\ DOMAIN q = 1 .. Len(base) + 1
      /\ \A i \in DOMAIN base : q[i] = base[i]
      /\ DOMAIN base = 1 .. Len(base)
  BY <1>0, AppendType, LenProperties
<1>2. Len(q) \in DOMAIN q /\ q[Len(q)] = e
  BY <1>1
<1>3. q # <<>>
  <2>1. Len(<<>>) = 0 /\ Len(q) # 0
    BY <1>1
  <2>2. QED
    BY <2>1
<1>4. SubSeq(q, 1, Len(q) - 1) = base
  <2>1. Len(q) - 1 = Len(base) /\ Len(base) <= Len(q) /\ 0 <= Len(base) /\ 0 + 1 = 1
    BY <1>1
  <2> DEFINE n == Len(base)
             u == SubSeq(q, 0 + 1, n)
  <2>2. u \in Seq(S) /\ Len(u) = n - 0 /\ \A k \in 1 .. n - 0 : u[k] = q[0 + k]
    <3> HIDE DEF n
    <3>1. n \in Nat /\ 0 \in Nat /\ 0 <= n /\ n <= Len(q)
      BY <1>1, <2>1 DEF n
    <3>2. QED
      BY <1>1, <3>1, SliceIs
  <2> HIDE DEF u
  <2>3. Len(u) = Len(base) /\ \A k \in 1 .. Len(u) : u[k] = base[k]
    BY <1>1, <2>2
  <2>4. u = base
    BY <2>2, <2>3, SeqEqual
  <2>5. QED
    BY <2>1, <2>4 DEF u
<1>5. ASSUME NEW h \in S PROVE [q EXCEPT ![Len(q)] = h] = Append(base, h)
  <2> DEFINE a == [q EXCEPT ![Len(q)] = h]
             b == Append(base, h)
  <2>1. a \in Seq(S) /\ Len(a) = Len(q) /\ \A i \in 1 .. Len(q) : a[i] = IF i = Len(q) THEN h ELSE q[i]
    <3>1. DOMAIN q = 1 .. Len(q) /\ q \in Seq(S) /\ Len(q) \in DOMAIN q
      BY <1>1, <1>2
    <3>2. a \in Seq(S) /\ Len(a) = Len(q)
      BY <1>5, <3>1, ReplaceAtType
    <3>3. \A i \in 1 .. Len(q) : a[i] = IF i = Len(q) THEN h ELSE q[i]
      BY <3>1
    <3> HIDE DEF a
    <3>4. QED
      BY <3>2, <3>3
  <2>2. /\ b \in Seq(S) /\ Len(b) = Len(base) + 1 /\ b[Len(base) + 1] = h
        /\ \A i \in DOMAIN base : b[i] = base[i]
    BY <1>0, AppendType
  <2>3. ASSUME NEW i \in 1 .. Len(q) PROVE a[i] = b[i]
    <3>1. CASE i = Len(q)
      BY <1>1, <2>1, <2>2, <3>1
    <3>2. CASE i # Len(q)
      <4>1. i \in DOMAIN base
        BY <1>1, <3>2
      <4>2. a[i] = q[i] /\ b[i] = base[i] /\ q[i] = base[i]
        BY <1>1, <2>1, <2>2, <3>2, <4>1
      <4>3. QED
        BY <4>2
    <3>3. QED
      BY <3>1, <3>2
  <2> HIDE DEF a, b
  <2>4. a = b
    BY <1>1, <2>1, <2>2, <2>3, SeqEqual
  <2>5. QED
    BY <2>4 DEF a, b
<1>6. QED
  BY <1>1, <1>2, <1>3, <1>4, <1>5 DEF S, EndsWith

(* What is ahead starts with what the rest of the buffer starts with.      *)
Faces(buf, p, left, b, tail) ==
  /\ buf \in Seq(Byte) /\ p \in Nat /\ left \in Nat /\ p + left <= Len(buf)
  /\ b \in Seq(Byte) /\ tail \in Seq(Byte)
  /\ SubSeq(buf, p + 1, Len(buf)) = b \o tail /\ Len(b) <= left

Splits(buf, p, left, b, tail) ==
  /\ \E rest \in Seq(Byte) : SubSeq(buf, p + 1, p + left) = b \o rest
  /\ SubSeq(buf, (p + Len(b)) + 1, Len(buf)) = tail

LEMMA AheadIs ==
  ASSUME NEW buf, NEW p, NEW left, NEW b, NEW tail, Faces(buf, p, left, b, tail)
  PROVE  Splits(buf, p, left, b, tail)
<1>0. /\ buf \in Seq(Byte) /\ p \in Nat /\ left \in Nat /\ p + left <= Len(buf)
      /\ b \in Seq(Byte) /\ tail \in Seq(Byte)
      /\ SubSeq(buf, p + 1, Len(buf)) = b \o tail /\ Len(b) <= left
  BY DEF Faces
<1> DEFINE N == Len(buf)
           n == Len(b)
           all == SubSeq(buf, p + 1, N)
           ahead == SubSeq(buf, p + 1, p + left)
           later == SubSeq(buf, (p + n) + 1, N)
           rest == SubSeq(buf, (p + n) + 1, p + left)
<1>1. N \in Nat /\ n \in Nat /\ Len(tail) \in Nat /\ p \in Nat /\ left \in Nat
  BY <1>0, LenProperties
<1>2. \A i \in 1 .. N : buf[i] \in Byte
  BY <1>0, ElementOfSeq
<1>3. p + left <= N /\ n <= left
  BY <1>0
<1>4. /\ Len(all) = N - p /\ \A i \in 1 .. N - p : all[i] = buf[p + i]
  <2>1. p <= N
    BY <1>0, <1>1, <1>3
  <2>2. QED
    BY SMTT(40), <1>0, <1>1, <2>1, SliceIs
<1>5. /\ Len(b \o tail) = n + Len(tail)
      /\ \A j \in 1 .. n + Len(tail) : (b \o tail)[j] = IF j <= n THEN b[j] ELSE tail[j - n]
  BY <1>0, Concat
<1>6. /\ ahead \in Seq(Byte) /\ Len(ahead) = left /\ \A i \in 1 .. left : ahead[i] = buf[p + i]
  <2> DEFINE last == p + left
  <2>1. last \in Nat /\ p <= last /\ last <= Len(buf) /\ last - p = left
    BY <1>0
  <2> HIDE DEF last
  <2>2. SubSeq(buf, p + 1, last) \in Seq(Byte) /\ Len(SubSeq(buf, p + 1, last)) = last - p
        /\ \A i \in 1 .. last - p : SubSeq(buf, p + 1, last)[i] = buf[p + i]
    BY <1>0, <2>1, SliceIs
  <2>3. QED
    BY <2>1, <2>2 DEF last
<1>7. /\ rest \in Seq(Byte) /\ Len(rest) = left - n /\ \A i \in 1 .. left - n : rest[i] = buf[(p + n) + i]
  <2> DEFINE first == p + n
             last == p + left
  <2>1. /\ first \in Nat /\ last \in Nat /\ first <= last /\ last <= Len(buf)
        /\ last - first = left - n
    BY <1>0, <1>1, <1>3
  <2> HIDE DEF first, last
  <2>2. SubSeq(buf, first + 1, last) \in Seq(Byte)
        /\ Len(SubSeq(buf, first + 1, last)) = last - first
        /\ \A i \in 1 .. last - first : SubSeq(buf, first + 1, last)[i] = buf[first + i]
    BY <1>0, <2>1, SliceIs
  <2>3. QED
    BY <2>1, <2>2 DEF first, last
<1>8. /\ later \in Seq(Byte) /\ Len(later) = N - (p + n)
      /\ \A i \in 1 .. N - (p + n) : later[i] = buf[(p + n) + i]
  <2> DEFINE first == p + n
  <2>1. first \in Nat /\ first <= N /\ N <= Len(buf)
    BY <1>0, <1>1, <1>3
  <2> HIDE DEF first
  <2>2. SubSeq(buf, first + 1, N) \in Seq(Byte) /\ Len(SubSeq(buf, first + 1, N)) = N - first
        /\ \A i \in 1 .. N - first : SubSeq(buf, first + 1, N)[i] = buf[first + i]
    BY <1>0, <1>1, <2>1, SliceIs
  <2>3. QED
    BY <2>1, <2>2 DEF first
<1>9. all = b \o tail
  BY <1>0
<1> HIDE DEF N, n, all, ahead, later, rest
<1>10. N - p = n + Len(tail)
  BY <1>1, <1>4, <1>5, <1>9
<1>11. \A i \in 1 .. n : b[i] = buf[p + i]
  <2> TAKE i \in 1 .. n
  <2>1. i \in 1 .. N - p /\ i \in 1 .. n + Len(tail) /\ i <= n
    BY <1>1, <1>10
  <2>2. QED
    BY <1>1, <1>4, <1>5, <1>9, <2>1
<1>12. ahead = b \o rest
  <2> DEFINE c == b \o rest
  <2>1. /\ c \in Seq(Byte) /\ Len(c) = n + Len(rest)
        /\ \A j \in 1 .. n + Len(rest) : c[j] = IF j <= n THEN b[j] ELSE rest[j - n]
    BY <1>1, <1>0, <1>7, Concat DEF n
  <2> HIDE DEF c
  <2>2. Len(c) = left
    BY <1>1, <1>3, <1>7, <2>1
  <2>3. ASSUME NEW i \in 1 .. left PROVE ahead[i] = c[i]
    <3>1. CASE i <= n
      <4>1. i \in 1 .. n /\ i \in 1 .. n + Len(rest)
        BY <1>1, <1>3, <1>7, <3>1
      <4>2. QED
        BY <1>1, <1>6, <1>11, <2>1, <3>1, <4>1
    <3>2. CASE ~(i <= n)
      <4>1. i - n \in 1 .. left - n /\ i \in 1 .. n + Len(rest) /\ (p + n) + (i - n) = p + i
        BY <1>1, <1>3, <1>7, <3>2
      <4>2. QED
        BY <1>1, <1>6, <1>7, <2>1, <3>2, <4>1
    <3>3. QED
      BY <3>1, <3>2
  <2>4. ahead = c
    BY <1>1, <1>6, <2>1, <2>2, <2>3, SeqEqual
  <2>5. QED
    BY <2>4 DEF c
<1>13. later = tail
  <2>1. Len(later) = Len(tail)
    BY <1>1, <1>8, <1>10
  <2>2. ASSUME NEW i \in 1 .. Len(later) PROVE later[i] = tail[i]
    <3>1. /\ n + i \in 1 .. n + Len(tail) /\ ~(n + i <= n) /\ (n + i) - n = i
          /\ n + i \in 1 .. N - p /\ p + (n + i) = (p + n) + i /\ i \in 1 .. N - (p + n)
      BY <1>1, <1>8, <1>10, <2>1
    <3>2. (b \o tail)[n + i] = tail[i] /\ all[n + i] = buf[p + (n + i)]
      BY <1>1, <1>4, <1>5, <3>1
    <3>3. QED
      BY <1>1, <1>8, <1>9, <3>1, <3>2
  <2>3. QED
    BY <1>1, <1>8, <2>1, <2>2, <1>0, SeqEqual
<1>14. QED
  BY <1>1, <1>7, <1>12, <1>13 DEF ahead, later, N, n, Splits

-----------------------------------------------------------------------------
(* What may happen: the guards of a decoder's steps.                       *)
Expecting(f) ==
  \/ DecodeNumber(f) \/ DecodeMessage(f) \/ DecodeBytes(f)
  \/ CannotGrow(f) \/ AppendNumber(f) \/ AppendMessage(f) \/ OpenPacked(f)

LEMMA Guards ==
  /\ EndMessage => Top.kind = "message" /\ answer = "none" /\ key = 0 /\ Top.left = 0
  /\ DecodeTag => Top.kind = "message" /\ answer = "none" /\ key = 0 /\ Top.left > 0
  /\ SkipField => /\ Top.kind = "message" /\ answer = "none" /\ key # 0
                  /\ \A f \in FieldsOf(Top.message) : f.tag # key \div 8
  /\ PackedItem => Top.kind = "packed" /\ answer = "none" /\ Top.left > 0
  /\ PackedCannotGrow => Top.kind = "packed" /\ answer = "none" /\ Top.left > 0
  /\ EndPacked => Top.kind = "packed" /\ answer = "none" /\ Top.left = 0
  /\ Close => answer # "none" /\ Len(frames) > 1
  /\ Finish => answer # "none" /\ Len(frames) = 1
BY DEF EndMessage, DecodeTag, SkipField, PackedItem, PackedCannotGrow, EndPacked,
       Close, Finish, Runs

LEMMA FieldGuards ==
  ASSUME DecodeField
  PROVE  /\ Top.kind = "message" /\ answer = "none" /\ key # 0
         /\ \E f \in FieldsOf(Top.message) : f.tag = key \div 8 /\ Expecting(f)
<1>1. PICK f \in UNION {FieldsOf(m) : m \in Message} :
        Runs("message") /\ f \in FieldsOf(Top.message) /\ Expecting(f)
  BY DEF DecodeField, Expecting
<1>2. AtField(f)
  BY <1>1 DEF Expecting, DecodeNumber, DecodeMessage, DecodeBytes, CannotGrow,
              AppendNumber, AppendMessage, OpenPacked
<1>3. QED
  BY <1>1, <1>2 DEF AtField, Runs

LEMMA OnlyTag ==
  ASSUME DecoderStep, Top.kind = "message", answer = "none", key = 0, Top.left # 0
  PROVE  DecodeTag
BY Guards, FieldGuards DEF DecoderStep

LEMMA OnlyEnd ==
  ASSUME DecoderStep, Top.kind = "message", answer = "none", key = 0, Top.left = 0
  PROVE  EndMessage
BY Guards, FieldGuards DEF DecoderStep

LEMMA OnlyField ==
  ASSUME DecoderStep, Top.kind = "message", Top.message \in Message, answer = "none",
         key # 0, NEW f \in FieldsOf(Top.message), f.tag = key \div 8
  PROVE  Expecting(f)
<1>1. DecodeField
  BY Guards DEF DecoderStep
<1>2. PICK g \in FieldsOf(Top.message) : g.tag = key \div 8 /\ Expecting(g)
  BY <1>1, FieldGuards
<1>3. g = f
  <2>1. PICK i \in DOMAIN Fields[Top.message] : g = Fields[Top.message][i]
    BY DEF FieldsOf
  <2>2. PICK j \in DOMAIN Fields[Top.message] : f = Fields[Top.message][j]
    BY DEF FieldsOf
  <2>3. i = j
    BY <1>2, <2>1, <2>2, TagsAssumption
  <2>4. QED
    BY <2>1, <2>2, <2>3
<1>4. QED
  BY <1>2, <1>3

LEMMA OnlyItem ==
  ASSUME DecoderStep, Top.kind = "packed", answer = "none"
  PROVE  IF Top.left = 0 THEN EndPacked ELSE PackedItem \/ PackedCannotGrow
BY Guards, FieldGuards DEF DecoderStep

LEMMA OnlyReturn ==
  ASSUME DecoderStep, answer # "none"
  PROVE  (Len(frames) > 1 /\ Close) \/ (Len(frames) = 1 /\ Finish)
BY Guards, FieldGuards DEF DecoderStep

(* Memory has run out.                                                     *)
Broken == answer = "false" /\ errmsg = "realloc failed"

-----------------------------------------------------------------------------
(* Where the decoder is when its configuration is known.                   *)
LEMMA NowIs ==
  ASSUME NEW rest, NEW calls, NEW k, NEW a, NEW c, Now = Conf(rest, calls, k, a, c)
  PROVE  Rest = rest /\ frames = calls /\ key = k /\ answer = a /\ cells = c
<1>1. /\ Now.rest = Conf(rest, calls, k, a, c).rest
      /\ Now.calls = Conf(rest, calls, k, a, c).calls
      /\ Now.key = Conf(rest, calls, k, a, c).key
      /\ Now.answer = Conf(rest, calls, k, a, c).answer
      /\ Now.cells = Conf(rest, calls, k, a, c).cells
  OBVIOUS
<1>2. QED
  BY <1>1 DEF Now, Conf

LEMMA ReaderIs ==
  ASSUME NEW m \in Message, NEW path \in Path, NEW init \in BOOLEAN, NEW n \in Nat
  PROVE  LET r == Reader(m, path, init, n)
         IN  /\ r \in Frame /\ r.kind = "message" /\ r.left = n /\ r.message = m
             /\ r.path = path /\ r.init = init
             /\ \A k \in Nat : [r EXCEPT !.left = k] = Reader(m, path, init, k)
<1>1. Reader(m, path, init, n) \in Frame
  BY DEF Reader, Frame
<1>2. QED
  BY <1>1 DEF Reader

LEMMA FillerIs ==
  ASSUME NEW s \in Place, NEW n \in Nat, NEW k \in Nat
  PROVE  LET r == Filler(s, n, k)
         IN  /\ r \in Frame /\ r.kind = "packed" /\ r.left = n /\ r.slot = s
             /\ r.allocated = k
             /\ \A i \in Nat : \A j \in Nat :
                  [r EXCEPT !.left = i, !.allocated = j] = Filler(s, i, j)
<1> DEFINE r == Filler(s, n, k)
<1>1. r \in Frame
  BY DEF Filler, Frame, Place
<1>2. r.kind = "packed" /\ r.left = n /\ r.slot = s /\ r.allocated = k
  BY DEF Filler
<1>3. ASSUME NEW i \in Nat, NEW j \in Nat
      PROVE  [r EXCEPT !.left = i, !.allocated = j] = Filler(s, i, j)
  <2>1. [r EXCEPT !.left = i] = Filler(s, i, k)
    BY DEF Filler
  <2>2. [Filler(s, i, k) EXCEPT !.allocated = j] = Filler(s, i, j)
    BY DEF Filler
  <2> HIDE DEF r
  <2>3. QED
    BY <2>1, <2>2
<1>4. QED
  BY <1>1, <1>2, <1>3

LEMMA CallIs ==
  ASSUME NEW g \in Calls
  PROVE  /\ g.base \in Seq(Frame) /\ g.message \in Message /\ g.path \in Path
         /\ g.init \in BOOLEAN /\ g.left \in Nat /\ g.tail \in Seq(Byte)
BY DEF Calls

(* What the innermost call reads next.                                     *)
LEMMA Standing ==
  ASSUME DInv, NEW base \in Seq(Frame), NEW r \in Frame, frames = Append(base, r),
         NEW b \in Seq(Byte), NEW tail \in Seq(Byte), Rest = b \o tail, Len(b) <= r.left
  PROVE  /\ Top = r /\ frames # <<>>
         /\ \E rest \in Seq(Byte) : Ahead = b \o rest
         /\ Ahead \in Seq(Byte) /\ Len(Ahead) = r.left
         /\ SubSeq(input, (pos + Len(b)) + 1, Len(input)) = tail
         /\ \A h \in Frame : [frames EXCEPT ![Len(frames)] = h] = Append(base, h)
         /\ Len(frames) = Len(base) + 1 /\ SubSeq(frames, 1, Len(frames) - 1) = base
<1>1. /\ Len(frames) \in DOMAIN frames /\ frames[Len(frames)] = r /\ frames # <<>>
      /\ \A h \in Frame : [frames EXCEPT ![Len(frames)] = h] = Append(base, h)
      /\ Len(frames) = Len(base) + 1 /\ SubSeq(frames, 1, Len(frames) - 1) = base
  <2> DEFINE q == frames
  <2>1. q = Append(base, r)
    OBVIOUS
  <2> HIDE DEF q
  <2>2. EndsWith(q, base, r)
    BY <2>1, LastIs
  <2>3. QED
    BY <2>2 DEF q, EndsWith
<1>2. Top = r
  BY <1>1 DEF Top
<1>3. r.left \in Nat
  BY Kinds
<1>4. input \in Seq(Byte) /\ pos \in Nat
  BY DEF DInv, Streams
<1>5. pos + r.left <= Len(input)
  BY <1>1, NothingBehind DEF StaysInside
<1>6. SubSeq(input, pos + 1, Len(input)) = b \o tail
  BY DEF Rest
<1> DEFINE L == r.left
<1>7. /\ \E rest \in Seq(Byte) : SubSeq(input, pos + 1, pos + L) = b \o rest
      /\ SubSeq(input, (pos + Len(b)) + 1, Len(input)) = tail
  <2>1. L \in Nat /\ pos + L <= Len(input) /\ Len(b) <= L
    BY <1>3, <1>5
  <2>2. Faces(input, pos, L, b, tail)
    BY <1>4, <1>6, <2>1 DEF Faces
  <2> HIDE DEF L
  <2>3. Splits(input, pos, L, b, tail)
    BY <2>2, AheadIs
  <2>4. QED
    BY <2>3 DEF Splits
<1>8. Ahead = SubSeq(input, pos + 1, pos + L)
  BY <1>2 DEF Ahead
<1>9. Ahead \in Seq(Byte) /\ Len(Ahead) = r.left
  BY <1>1, <1>2, InCall
<1>10. QED
  BY <1>1, <1>2, <1>7, <1>8, <1>9

-----------------------------------------------------------------------------
(* A call that reads a message stands before b, and n bytes more.          *)
Stands(g, b, n) ==
  /\ Top = ReaderOf(g, Len(b) + n) /\ frames # <<>>
  /\ Top.kind = "message" /\ Top.message = g.message /\ Top.path = g.path
  /\ Top.left = Len(b) + n /\ Len(b) \in Nat
  /\ \E rest \in Seq(Byte) : Ahead = b \o rest
  /\ Ahead \in Seq(Byte) /\ Len(Ahead) = Len(b) + n
  /\ SubSeq(input, (pos + Len(b)) + 1, Len(input)) = g.tail
  /\ \A k \in Nat :
       [frames EXCEPT ![Len(frames)] = [frames[Len(frames)] EXCEPT !.left = k]]
         = Append(g.base, ReaderOf(g, k))

LEMMA StandsBefore ==
  ASSUME DInv, NEW g \in Calls, NEW b \in Seq(Byte), NEW n \in Nat,
         frames = Append(g.base, ReaderOf(g, Len(b) + n)), Rest = b \o g.tail
  PROVE  Stands(g, b, n)
<1> DEFINE L == Len(b) + n
           r == ReaderOf(g, L)
           base == g.base
           tail == g.tail
<1>1. /\ base \in Seq(Frame) /\ g.message \in Message /\ g.path \in Path
      /\ g.init \in BOOLEAN /\ g.left \in Nat /\ tail \in Seq(Byte)
  BY CallIs
<1>2. Len(b) \in Nat /\ L \in Nat /\ Len(b) <= L
  BY LenProperties
<1> HIDE DEF L
<1>3. /\ r \in Frame /\ r.kind = "message" /\ r.left = L /\ r.message = g.message
      /\ r.path = g.path
      /\ \A k \in Nat : [r EXCEPT !.left = k] = ReaderOf(g, k)
  <2> DEFINE m == g.message
             path == g.path
             init == g.init
  <2>1. m \in Message /\ path \in Path /\ init \in BOOLEAN
    BY <1>1
  <2>2. r = Reader(m, path, init, L) /\ \A k \in Nat : ReaderOf(g, k) = Reader(m, path, init, k)
    BY DEF ReaderOf
  <2> HIDE DEF m, path, init, r
  <2>3. /\ r \in Frame /\ r.kind = "message" /\ r.left = L /\ r.message = m
        /\ r.path = path
        /\ \A k \in Nat : [r EXCEPT !.left = k] = Reader(m, path, init, k)
    BY <1>2, <2>1, <2>2, ReaderIs
  <2>4. QED
    BY <2>2, <2>3 DEF m, path
<1>4. frames = Append(base, r) /\ Rest = b \o tail
  BY DEF L
<1>5. \A k \in Nat : ReaderOf(g, k) \in Frame
  BY <1>1, ReaderIs DEF ReaderOf
<1> HIDE DEF r, base, tail
<1>6. Len(b) <= r.left
  BY <1>2, <1>3
<1>7. /\ Top = r /\ frames # <<>>
      /\ \E rest \in Seq(Byte) : Ahead = b \o rest
      /\ Ahead \in Seq(Byte) /\ Len(Ahead) = r.left
      /\ SubSeq(input, (pos + Len(b)) + 1, Len(input)) = tail
      /\ \A h \in Frame : [frames EXCEPT ![Len(frames)] = h] = Append(base, h)
  BY <1>1, <1>3, <1>4, <1>6, Standing
<1>8. ASSUME NEW k \in Nat
      PROVE  [frames EXCEPT ![Len(frames)] = [frames[Len(frames)] EXCEPT !.left = k]]
               = Append(base, ReaderOf(g, k))
  <2>1. frames[Len(frames)] = r
    BY <1>7 DEF Top
  <2>2. [frames[Len(frames)] EXCEPT !.left = k] = ReaderOf(g, k)
    BY <1>3, <2>1
  <2> DEFINE h == ReaderOf(g, k)
  <2>3. h \in Frame
    BY <1>5
  <2> HIDE DEF h
  <2>4. [frames EXCEPT ![Len(frames)] = h] = Append(base, h)
    BY <1>7, <2>3
  <2>5. QED
    BY <2>2, <2>4 DEF h
<1>9. QED
  BY <1>2, <1>3, <1>7, <1>8 DEF Stands, r, L, base, tail

(* It has read b.                                                          *)
LEMMA HasRead ==
  ASSUME NEW g \in Calls, NEW b \in Seq(Byte), Stands(g, b, g.left),
         pos' = pos + Len(b), input' = input, answer' = "none",
         frames' = [frames EXCEPT ![Len(frames)].left = @ - Len(b)]
  PROVE  Now' = After(g, key', cells')
<1>1. /\ Top.left = Len(b) + g.left /\ Len(b) \in Nat /\ g.left \in Nat
      /\ SubSeq(input, (pos + Len(b)) + 1, Len(input)) = g.tail
      /\ \A k \in Nat :
           [frames EXCEPT ![Len(frames)] = [frames[Len(frames)] EXCEPT !.left = k]]
             = Append(g.base, ReaderOf(g, k))
  BY CallIs DEF Stands
<1>2. Rest' = g.tail
  BY <1>1 DEF Rest
<1>3. frames' = Append(g.base, ReaderOf(g, g.left))
  <2>1. frames[Len(frames)].left - Len(b) = g.left
    BY <1>1 DEF Top
  <2>2. frames' = [frames EXCEPT ![Len(frames)] = [frames[Len(frames)] EXCEPT !.left = g.left]]
    BY <2>1, Zenon
  <2>3. QED
    BY <1>1, <2>2
<1>4. QED
  BY <1>2, <1>3 DEF Now, Conf, After

LEMMA LengthRead ==
  ASSUME NEW n \in Lengths, NEW rest \in Seq(Byte), NEW all, all = pb_encode_varint[n] \o rest
  PROVE  /\ pb_decode_varint32(all) = [ok |-> TRUE, n |-> n, took |-> Len(pb_encode_varint[n])]
         /\ pb_encode_varint[n] \in Seq(Byte) /\ Len(pb_encode_varint[n]) \in Nat \ {0}
         /\ n \in Nat
<1>1. n \in 0 .. 2 ^ Bits32 - 1 /\ n \in Nat
  BY DEF Lengths
<1> DEFINE b == pb_encode_varint[n]
           r == pb_decode_varint32(all)
<1>2. b \in Seq(Byte)
  BY <1>1, EncodingIs
<1>3. r = [ok |-> TRUE, n |-> n, took |-> Len(b)]
  BY <1>1, Varint32ComesBack
<1>4. all \in Seq(Byte)
  BY <1>2, Concat
<1>5. r.took \in 1 .. Len(all)
  <2>1. r.ok
    BY <1>3
  <2>2. QED
    BY <1>4, <2>1, NumbersInside
<1>6. Len(b) \in Nat \ {0}
  <2>1. Len(b) = r.took
    BY <1>3
  <2>2. Len(b) \in Nat
    BY <1>2, LenProperties
  <2> HIDE DEF b, r
  <2>3. QED
    BY <1>5, <2>1, <2>2
<1>7. QED
  BY <1>1, <1>2, <1>3, <1>6

LEMMA TagIsRead ==
  ASSUME DInv, DecoderStep, NEW g \in Calls, NEW n \in Lengths \ {0}, NEW c,
         Now = Before(g, pb_encode_varint[n], 0, c)
  PROVE  Now' = After(g, n, c)
<1> DEFINE b == pb_encode_varint[n]
           r == pb_decode_varint32(Ahead)
<1>1. /\ Rest = b \o g.tail /\ frames = Append(g.base, ReaderOf(g, Len(b) + g.left))
      /\ key = 0 /\ answer = "none" /\ cells = c
  BY NowIs DEF Before
<1>2. b \in Seq(Byte) /\ Len(b) \in Nat \ {0} /\ g.left \in Nat
  <2>1. n \in Lengths /\ <<>> \in Seq(Byte)
    OBVIOUS
  <2>2. QED
    BY <2>1, LengthRead, CallIs
<1> HIDE DEF b
<1>3. Stands(g, b, g.left)
  BY <1>1, <1>2, StandsBefore
<1>4. PICK rest \in Seq(Byte) : Ahead = b \o rest
  BY <1>3 DEF Stands
<1>5. r = [ok |-> TRUE, n |-> n, took |-> Len(b)]
  BY <1>4, LengthRead DEF b
<1>6. DecodeTag
  <2>1. Top.kind = "message" /\ Top.left # 0
    BY <1>2, <1>3 DEF Stands
  <2>2. QED
    BY <1>1, <2>1, OnlyTag
<1>7. /\ r.ok => /\ pos' = pos + r.took /\ key' = r.n
                 /\ frames' = [frames EXCEPT ![Len(frames)].left = @ - r.took]
                 /\ answer' = IF r.n = 0 THEN "true" ELSE "none"
      /\ UNCHANGED <<cells, input>>
  BY <1>6 DEF DecodeTag, memory, reading
<1> HIDE DEF r
<1>8. /\ pos' = pos + Len(b) /\ key' = n /\ answer' = "none" /\ input' = input /\ cells' = c
      /\ frames' = [frames EXCEPT ![Len(frames)].left = @ - Len(b)]
  BY <1>1, <1>5, <1>7
<1>9. Now' = After(g, key', cells')
  BY <1>2, <1>3, <1>8, HasRead
<1>10. QED
  BY <1>8, <1>9

-----------------------------------------------------------------------------
LEMMA KeyIs ==
  ASSUME NEW t \in Nat \ {0}, NEW w \in 0 .. 2
  PROVE  8 * t + w # 0 /\ (8 * t + w) % 8 = w /\ (8 * t + w) \div 8 = t
OBVIOUS

(* The field whose tag was read is the one that is decoded.                *)
LEMMA FieldComes ==
  ASSUME DInv, DecoderStep, frames # <<>>, Top.kind = "message", answer = "none",
         NEW w \in 0 .. 2, NEW f \in FieldsOf(Top.message), key = 8 * f.tag + w
  PROVE  /\ Expecting(f) /\ AtField(f) /\ WireType = w
         /\ f \in Field /\ f.of \in Message
<1>1. Top.message \in Message
  BY InCall
<1>2. f \in Field
  <2>1. PICK i \in DOMAIN Fields[Top.message] : f = Fields[Top.message][i]
    BY DEF FieldsOf
  <2>2. Fields[Top.message] \in Seq(Field)
    BY <1>1, FieldsAssumption
  <2>3. QED
    BY <2>1, <2>2, LenProperties, ElementOfSeq
<1>3. f.tag \in Nat \ {0} /\ f.of \in Message
  BY <1>2 DEF Field
<1>4. key # 0 /\ key % 8 = w /\ key \div 8 = f.tag
  BY <1>3, KeyIs
<1>5. Expecting(f)
  BY <1>1, <1>4, OnlyField
<1>6. QED
  BY <1>2, <1>3, <1>4, <1>5 DEF AtField, Runs, WireType

LEMMA OnlyOne ==
  ASSUME NEW f, Expecting(f)
  PROVE  /\ f.shape = "optional" /\ f.kind \in Numeric => DecodeNumber(f)
         /\ f.shape = "optional" /\ f.kind = "message" => DecodeMessage(f)
         /\ f.shape = "pointer" => DecodeBytes(f)
         /\ f.shape = "repeated" /\ f.kind = "message" => AppendMessage(f) \/ CannotGrow(f)
         /\ f.shape = "repeated" /\ f.kind \in Numeric /\ WireType = 2 => OpenPacked(f)
<1>1. "message" \notin Numeric
  BY DEF Numeric
<1>2. /\ DecodeNumber(f) => f.shape = "optional" /\ f.kind \in Numeric
      /\ DecodeMessage(f) => f.shape = "optional" /\ f.kind = "message"
      /\ DecodeBytes(f) => f.shape = "pointer"
      /\ CannotGrow(f) => f.shape = "repeated" /\ ~Packs(f)
      /\ AppendNumber(f) => f.shape = "repeated" /\ f.kind \in Numeric /\ ~Packs(f)
      /\ AppendMessage(f) => f.shape = "repeated" /\ f.kind = "message"
      /\ OpenPacked(f) => f.shape = "repeated" /\ Packs(f)
  BY DEF DecodeNumber, DecodeMessage, DecodeBytes, CannotGrow, AppendNumber,
         AppendMessage, OpenPacked
<1>3. Packs(f) <=> WireType = 2 /\ f.kind \in Numeric
  BY DEF Packs
<1>4. QED
  BY <1>1, <1>2, <1>3 DEF Expecting

LEMMA NumberIsRead ==
  ASSUME DInv, DecoderStep, NEW g \in Calls, NEW f \in FieldsOf(g.message),
         f.shape = "optional", f.kind \in Numeric, NEW v \in ValuesOf(f.kind), NEW c,
         Now = Before(g, pb_encode_varint[Written(f.kind, v)], 8 * f.tag + 0, c)
  PROVE  Now' = After(g, 0, [c EXCEPT ![Slot(g.path, f)] = Holding(<<v>>, 1)])
<1> DEFINE b == pb_encode_varint[Written(f.kind, v)]
           r == Scalar(f.kind, Ahead)
<1>1. /\ Rest = b \o g.tail /\ frames = Append(g.base, ReaderOf(g, Len(b) + g.left))
      /\ key = 8 * f.tag + 0 /\ answer = "none" /\ cells = c
  BY NowIs DEF Before
<1>2. b \in Seq(Byte) /\ g.left \in Nat
  <2>1. Written(f.kind, v) \in Nat
    BY WrittenType
  <2>2. QED
    BY <2>1, EncodingIs, CallIs
<1>3. ReadsBack(f.kind, v)
  BY KindsArrive
<1>4. \A rest \in Seq(Byte) : Scalar(f.kind, b \o rest) = [ok |-> TRUE, n |-> v, took |-> Len(b)]
  BY <1>3 DEF ReadsBack
<1> HIDE DEF b
<1>5. Stands(g, b, g.left)
  BY <1>1, <1>2, StandsBefore
<1>6. PICK rest \in Seq(Byte) : Ahead = b \o rest
  BY <1>5 DEF Stands
<1>7. r = [ok |-> TRUE, n |-> v, took |-> Len(b)]
  BY <1>4, <1>6
<1>8. frames # <<>> /\ Top.kind = "message" /\ Top.message = g.message /\ Top.path = g.path
  BY <1>5 DEF Stands
<1>9. DecodeNumber(f)
  <2>1. 0 \in 0 .. 2
    OBVIOUS
  <2>2. Expecting(f)
    BY <1>1, <1>8, <2>1, FieldComes
  <2>3. QED
    BY <2>2, OnlyOne
<1>10. /\ r.ok => Take(r.took) /\ cells' = [cells EXCEPT ![Here(f)] = Holding(<<r.n>>, 1)]
       /\ UNCHANGED input
  BY <1>9 DEF DecodeNumber, reading
<1> HIDE DEF r
<1>11. Take(Len(b)) /\ cells' = [c EXCEPT ![Slot(g.path, f)] = Holding(<<v>>, 1)]
  BY <1>1, <1>7, <1>8, <1>10 DEF Here
<1>12. /\ pos' = pos + Len(b) /\ key' = 0 /\ answer' = "none"
       /\ frames' = [frames EXCEPT ![Len(frames)].left = @ - Len(b)]
  BY <1>1, <1>11 DEF Take
<1>13. Now' = After(g, key', cells')
  BY <1>2, <1>5, <1>10, <1>12, HasRead
<1>14. QED
  BY <1>11, <1>12, <1>13

LEMMA SizeIsRead ==
  ASSUME NEW n \in Lengths, NEW rest \in Seq(Byte), NEW all, all = pb_encode_varint[n] \o rest,
         n <= Len(rest)
  PROVE  Sized(all) = [ok |-> TRUE, n |-> n, took |-> Len(pb_encode_varint[n])]
<1> DEFINE b == pb_encode_varint[n]
           r == pb_decode_varint32(all)
<1>1. r = [ok |-> TRUE, n |-> n, took |-> Len(b)] /\ b \in Seq(Byte) /\ n \in Nat
  BY LengthRead
<1> HIDE DEF b, r
<1>2. Len(all) = Len(b) + Len(rest) /\ Len(b) \in Nat /\ Len(rest) \in Nat
  BY <1>1, Concat, LenProperties DEF b
<1>3. r.ok /\ r.n = n /\ r.took = Len(b)
  BY <1>1
<1>4. r.n \in 0 .. Len(all) - r.took
  BY <1>1, <1>2, <1>3
<1>5. Sized(all) = r
  BY <1>3, <1>4 DEF Sized, r
<1>6. QED
  BY <1>1, <1>5 DEF b

LEMMA PartsAre ==
  ASSUME NEW b \in Seq(Byte), NEW v \in Seq(Byte), NEW rest \in Seq(Byte), NEW all,
         all = (b \o v) \o rest
  PROVE  /\ all = b \o (v \o rest) /\ v \o rest \in Seq(Byte) /\ Len(v) <= Len(v \o rest)
         /\ SubSeq(all, Len(b) + 1, Len(b) + Len(v)) = v
<1> DEFINE m == Len(b)
           n == Len(v)
           last == m + n
           vr == v \o rest
           u == SubSeq(all, m + 1, last)
<1>1. all = b \o vr
  BY ConcatAssociative
<1>2. /\ vr \in Seq(Byte) /\ Len(vr) = n + Len(rest) /\ n \in Nat /\ m \in Nat /\ Len(rest) \in Nat
      /\ \A j \in 1 .. n + Len(rest) : vr[j] = IF j <= n THEN v[j] ELSE rest[j - n]
  BY Concat, LenProperties
<1> HIDE DEF vr, m, n
<1>3. /\ all \in Seq(Byte) /\ Len(all) = m + Len(vr)
      /\ \A j \in 1 .. m + Len(vr) : all[j] = IF j <= m THEN b[j] ELSE vr[j - m]
  <2>1. b \in Seq(Byte) /\ vr \in Seq(Byte)
    BY <1>2
  <2>2. b \o vr \in Seq(Byte) /\ Len(b \o vr) = Len(b) + Len(vr)
        /\ \A j \in 1 .. Len(b) + Len(vr) : (b \o vr)[j] = IF j <= Len(b) THEN b[j] ELSE vr[j - Len(b)]
    BY <2>1, Concat
  <2>3. QED
    BY <1>1, <2>2 DEF m
<1>4. last \in Nat /\ m <= last /\ last <= Len(all) /\ last - m = n
  BY <1>2, <1>3
<1> HIDE DEF last
<1>5. u \in Seq(Byte) /\ Len(u) = n /\ \A k \in 1 .. n : u[k] = all[m + k]
  BY <1>2, <1>3, <1>4, SliceIs
<1>6. ASSUME NEW k \in 1 .. n PROVE u[k] = v[k]
  <2>1. /\ m + k \in 1 .. m + Len(vr) /\ ~(m + k <= m) /\ (m + k) - m = k
        /\ k \in 1 .. n + Len(rest) /\ k <= n
    BY <1>2
  <2>2. all[m + k] = vr[k]
    BY <1>3, <2>1
  <2>3. vr[k] = v[k]
    BY <1>2, <2>1
  <2>4. QED
    BY <1>5, <2>2, <2>3
<1> HIDE DEF u
<1>7. u = v
  BY <1>5, <1>6, SeqEqual DEF n
<1>8. QED
  BY <1>1, <1>2, <1>7 DEF u, last, vr, m, n

LEMMA BytesAreRead ==
  ASSUME DInv, DecoderStep, NEW g \in Calls, NEW f \in FieldsOf(g.message),
         f.kind = "bytes", NEW v \in Seq(Byte), Len(v) \in Lengths, NEW c,
         Now = Before(g, pb_encode_varint[Len(v)] \o v, 8 * f.tag + 2, c)
  PROVE  \/ Now' = After(g, 0, [c EXCEPT ![Slot(g.path, f)] = Holding(v, Len(v))])
         \/ Broken'
<1> DEFINE l == pb_encode_varint[Len(v)]
           b == l \o v
           length == Sized(Ahead)
           bytes == SubSeq(Ahead, length.took + 1, length.took + length.n)
<1>1. /\ Rest = b \o g.tail /\ frames = Append(g.base, ReaderOf(g, Len(b) + g.left))
      /\ key = 8 * f.tag + 2 /\ answer = "none" /\ cells = c
  BY NowIs DEF Before
<1>2. l \in Seq(Byte) /\ Len(l) \in Nat /\ Len(v) \in Nat /\ g.left \in Nat
  <2>1. <<>> \in Seq(Byte)
    OBVIOUS
  <2>2. QED
    BY <2>1, LengthRead, CallIs
<1>3. b \in Seq(Byte) /\ Len(b) = Len(l) + Len(v)
  BY <1>2, Concat
<1> HIDE DEF b
<1>4. Stands(g, b, g.left)
  BY <1>1, <1>2, <1>3, StandsBefore
<1>5. PICK rest \in Seq(Byte) : Ahead = b \o rest
  BY <1>4 DEF Stands
<1> HIDE DEF l
<1>6. /\ Ahead = l \o (v \o rest) /\ v \o rest \in Seq(Byte) /\ Len(v) <= Len(v \o rest)
      /\ SubSeq(Ahead, Len(l) + 1, Len(l) + Len(v)) = v
  BY <1>2, <1>5, PartsAre DEF b
<1>7. length = [ok |-> TRUE, n |-> Len(v), took |-> Len(l)]
  BY <1>6, SizeIsRead DEF l
<1> HIDE DEF length
<1>8. bytes = v
  BY <1>6, <1>7
<1> HIDE DEF bytes
<1>9. frames # <<>> /\ Top.kind = "message" /\ Top.message = g.message /\ Top.path = g.path
  BY <1>4 DEF Stands
<1>10. DecodeBytes(f)
  <2>1. 2 \in 0 .. 2
    OBVIOUS
  <2>2. Expecting(f)
    BY <1>1, <1>9, <2>1, FieldComes
  <2>3. f.shape = "pointer"
    BY CallIs, ShapesAssumption
  <2>4. QED
    BY <2>2, <2>3, OnlyOne
<1>11. /\ \/ /\ cells' = [cells EXCEPT ![Here(f)] = Holding(bytes, length.n)]
             /\ Take(length.took + length.n)
          \/ Fail(IF length.ok THEN "realloc failed" ELSE "malformed")
       /\ UNCHANGED input
  BY <1>10 DEF DecodeBytes, reading, bytes, length
<1>12. CASE Fail(IF length.ok THEN "realloc failed" ELSE "malformed")
  BY <1>7, <1>12 DEF Fail, Broken
<1>13. CASE /\ cells' = [cells EXCEPT ![Here(f)] = Holding(bytes, length.n)]
            /\ Take(length.took + length.n)
  <2>1. Take(Len(b)) /\ cells' = [c EXCEPT ![Slot(g.path, f)] = Holding(v, Len(v))]
    BY <1>1, <1>3, <1>7, <1>8, <1>9, <1>13 DEF Here
  <2>2. /\ pos' = pos + Len(b) /\ key' = 0 /\ answer' = "none"
        /\ frames' = [frames EXCEPT ![Len(frames)].left = @ - Len(b)]
    BY <1>1, <2>1 DEF Take
  <2>3. Now' = After(g, key', cells')
    BY <1>3, <1>4, <1>11, <2>2, HasRead
  <2>4. QED
    BY <2>1, <2>2, <2>3
<1>14. QED
  BY <1>11, <1>12, <1>13

-----------------------------------------------------------------------------
LEMMA ReaderFrame ==
  ASSUME NEW m, NEW path, NEW init, NEW n
  PROVE  [MessageFrame(m, path, init) EXCEPT !.left = n] = Reader(m, path, init, n)
BY DEF MessageFrame, Reader

LEMMA FillerMoves ==
  ASSUME NEW s, NEW n, NEW k, NEW q, q = Filler(s, n, k)
  PROVE  /\ \A took : [q EXCEPT !.left = @ - took] = Filler(s, n - took, k)
         /\ \A a : [q EXCEPT !.allocated = a] = Filler(s, n, a)
BY DEF Filler

(* It has read a length and opened the stream behind it.                   *)
LEMMA HasOpened ==
  ASSUME NEW g \in Calls, NEW b \in Seq(Byte), NEW n \in Nat, Stands(g, b, n + g.left),
         NEW length, length = [ok |-> TRUE, n |-> n, took |-> Len(b)], NEW frame, NEW h,
         [frame EXCEPT !.left = n] = h, pb_make_string_substream(length, frame),
         answer = "none", input' = input
  PROVE  Now' = Inside(g, h, cells')
<1>1. /\ Top.left = Len(b) + (n + g.left) /\ Len(b) \in Nat /\ g.left \in Nat
      /\ SubSeq(input, (pos + Len(b)) + 1, Len(input)) = g.tail
      /\ \A k \in Nat :
           [frames EXCEPT ![Len(frames)] = [frames[Len(frames)] EXCEPT !.left = k]]
             = Append(g.base, ReaderOf(g, k))
  BY CallIs DEF Stands
<1>2. length.took = Len(b) /\ length.n = n
  OBVIOUS
<1>3. /\ pos' = pos + length.took /\ key' = 0 /\ answer' = "none"
      /\ frames' = Append([frames EXCEPT ![Len(frames)].left = @ - length.took - length.n],
                          [frame EXCEPT !.left = length.n])
  BY DEF pb_make_string_substream
<1>4. Rest' = g.tail
  BY <1>1, <1>2, <1>3 DEF Rest
<1>5. frames[Len(frames)].left - Len(b) - n = g.left
  BY <1>1 DEF Top
<1>6. [frames EXCEPT ![Len(frames)].left = @ - length.took - length.n]
        = [frames EXCEPT ![Len(frames)] = [frames[Len(frames)] EXCEPT !.left = g.left]]
  BY <1>2, <1>5
<1>7. frames' = Append(Append(g.base, ReaderOf(g, g.left)), h)
  BY <1>1, <1>2, <1>3, <1>6
<1>8. QED
  BY <1>3, <1>4, <1>7 DEF Now, Conf, Inside

(* The decoder is before the length of a field that opens a stream.        *)
LEMMA BeforeLength ==
  ASSUME DInv, DecoderStep, NEW g \in Calls, NEW f \in FieldsOf(g.message),
         NEW n \in Lengths, NEW c,
         Now = Outside(g, pb_encode_varint[n], n, 8 * f.tag + 2, c)
  PROVE  LET b == pb_encode_varint[n]
         IN  /\ b \in Seq(Byte) /\ n \in Nat /\ g.left \in Nat
             /\ Stands(g, b, n + g.left)
             /\ Sized(Ahead) = [ok |-> TRUE, n |-> n, took |-> Len(b)]
             /\ Expecting(f) /\ WireType = 2 /\ Here(f) = Slot(g.path, f)
             /\ Top.path = g.path /\ answer = "none" /\ cells = c /\ AtField(f)
             /\ f \in FieldsOf(Top.message) /\ f \in Field /\ f.of \in Message
<1> DEFINE b == pb_encode_varint[n]
<1>1. /\ Rest = b \o g.tail /\ frames = Append(g.base, ReaderOf(g, Len(b) + (n + g.left)))
      /\ key = 8 * f.tag + 2 /\ answer = "none" /\ cells = c
  BY NowIs DEF Outside
<1>2. b \in Seq(Byte) /\ n \in Nat /\ g.left \in Nat /\ n + g.left \in Nat
  <2>1. <<>> \in Seq(Byte)
    OBVIOUS
  <2>2. b \in Seq(Byte) /\ n \in Nat
    BY <2>1, LengthRead
  <2>3. QED
    BY <2>2, CallIs
<1> HIDE DEF b
<1>3. Stands(g, b, n + g.left)
  BY <1>1, <1>2, StandsBefore
<1>4. PICK rest \in Seq(Byte) : Ahead = b \o rest
  BY <1>3 DEF Stands
<1>5. n <= Len(rest)
  <2>1. Len(Ahead) = Len(b) + (n + g.left)
    BY <1>3 DEF Stands
  <2>2. Len(b \o rest) = Len(b) + Len(rest) /\ Len(b) \in Nat /\ Len(rest) \in Nat
    BY <1>2, Concat, LenProperties
  <2>3. QED
    BY <1>2, <1>4, <2>1, <2>2
<1>6. Sized(Ahead) = [ok |-> TRUE, n |-> n, took |-> Len(b)]
  BY <1>4, <1>5, SizeIsRead DEF b
<1>7. frames # <<>> /\ Top.kind = "message" /\ Top.message = g.message /\ Top.path = g.path
  BY <1>3 DEF Stands
<1>8. Expecting(f) /\ AtField(f) /\ WireType = 2 /\ f \in Field /\ f.of \in Message
  <2>1. 2 \in 0 .. 2
    OBVIOUS
  <2>2. QED
    BY <1>1, <1>7, <2>1, FieldComes
<1>9. Here(f) = Slot(g.path, f)
  BY <1>7 DEF Here
<1>10. QED
  BY <1>1, <1>2, <1>3, <1>6, <1>7, <1>8, <1>9 DEF b

LEMMA MessageIsOpened ==
  ASSUME DInv, DecoderStep, NEW g \in Calls, NEW f \in FieldsOf(g.message),
         f.shape = "optional", f.kind = "message", NEW n \in Lengths, NEW c,
         Now = Outside(g, pb_encode_varint[n], n, 8 * f.tag + 2, c)
  PROVE  Now' = Inside(g, Reader(f.of, g.path \o Step(f, 0), FALSE, n),
                       [c EXCEPT ![Slot(g.path, f)].set = TRUE])
<1> DEFINE b == pb_encode_varint[n]
           length == Sized(Ahead)
           frame == MessageFrame(f.of, g.path \o Step(f, 0), FALSE)
           h == Reader(f.of, g.path \o Step(f, 0), FALSE, n)
<1>1. /\ b \in Seq(Byte) /\ n \in Nat /\ Stands(g, b, n + g.left)
      /\ length = [ok |-> TRUE, n |-> n, took |-> Len(b)]
      /\ Expecting(f) /\ Here(f) = Slot(g.path, f) /\ Top.path = g.path
      /\ answer = "none" /\ cells = c
  BY BeforeLength
<1> HIDE DEF b
<1>2. DecodeMessage(f)
  BY <1>1, OnlyOne
<1>3. [frame EXCEPT !.left = n] = h
  BY ReaderFrame
<1>4. /\ cells' = [cells EXCEPT ![Here(f)].set = TRUE] /\ input' = input
      /\ length.ok => pb_make_string_substream(length, frame)
  BY <1>1, <1>2 DEF DecodeMessage, reading
<1> HIDE DEF length, frame, h
<1>5. pb_make_string_substream(length, frame)
  BY <1>1, <1>4
<1>6. Now' = Inside(g, h, cells')
  BY <1>1, <1>3, <1>4, <1>5, HasOpened
<1>7. cells' = [c EXCEPT ![Slot(g.path, f)].set = TRUE]
  BY <1>1, <1>4
<1>8. QED
  BY <1>6, <1>7 DEF h

LEMMA ElementIsOpened ==
  ASSUME DInv, DecoderStep, NEW g \in Calls, NEW f \in FieldsOf(g.message),
         f.shape = "repeated", f.kind = "message", NEW n \in Lengths, NEW c, NEW s,
         s = Slot(g.path, f), NEW path, path = g.path \o Step(f, Len(c[s].items) + 1),
         Now = Outside(g, pb_encode_varint[n], n, 8 * f.tag + 2, c)
  PROVE  \/ Now' = Inside(g, Reader(f.of, path, TRUE, n),
                          pb_message_set_to_defaults(f.of, path, Longer(c, s)))
         \/ Broken'
<1> DEFINE b == pb_encode_varint[n]
           length == Sized(Ahead)
           frame == MessageFrame(f.of, path, TRUE)
           h == Reader(f.of, path, TRUE, n)
<1>1. /\ b \in Seq(Byte) /\ n \in Nat /\ Stands(g, b, n + g.left)
      /\ length = [ok |-> TRUE, n |-> n, took |-> Len(b)]
      /\ Expecting(f) /\ Here(f) = s /\ Top.path = g.path
      /\ answer = "none" /\ cells = c
  BY BeforeLength
<1> HIDE DEF b
<1>2. AppendMessage(f) \/ CannotGrow(f)
  BY <1>1, OnlyOne
<1>3. CASE CannotGrow(f)
  BY <1>3 DEF CannotGrow, Fail, Broken
<1>4. CASE AppendMessage(f)
  <2>1. [frame EXCEPT !.left = n] = h
    BY ReaderFrame
  <2>2. path = Top.path \o Step(f, Len(cells[Here(f)].items) + 1)
    BY <1>1
  <2>3. Grown(f) = Longer(c, s)
    BY <1>1 DEF Grown, Longer
  <2>4. /\ cells' = pb_message_set_to_defaults(f.of, path, Grown(f)) /\ input' = input
        /\ length.ok => pb_make_string_substream(length, frame)
    BY <1>4, <2>2 DEF AppendMessage, reading
  <2> HIDE DEF length, frame, h
  <2>5. pb_make_string_substream(length, frame)
    BY <1>1, <2>4
  <2>6. Now' = Inside(g, h, cells')
    BY <1>1, <2>1, <2>4, <2>5, HasOpened
  <2>7. QED
    BY <2>3, <2>4, <2>6 DEF h
<1>5. QED
  BY <1>2, <1>3, <1>4

LEMMA PackedIsOpened ==
  ASSUME DInv, DecoderStep, NEW g \in Calls, NEW f \in FieldsOf(g.message),
         f.shape = "repeated", f.kind \in Numeric, NEW n \in Lengths, NEW c, NEW s,
         s = Slot(g.path, f),
         Now = Outside(g, pb_encode_varint[n], n, 8 * f.tag + 2, c)
  PROVE  Now' = Inside(g, Filler(s, n, Len(c[s].items)), c)
<1> DEFINE b == pb_encode_varint[n]
           length == Sized(Ahead)
           k == Len(c[s].items)
           frame == [kind |-> "packed", left |-> 0, slot |-> s, allocated |-> k]
           h == Filler(s, n, k)
<1>1. /\ b \in Seq(Byte) /\ n \in Nat /\ Stands(g, b, n + g.left)
      /\ length = [ok |-> TRUE, n |-> n, took |-> Len(b)]
      /\ Expecting(f) /\ WireType = 2 /\ Here(f) = s
      /\ answer = "none" /\ cells = c
  BY BeforeLength
<1> HIDE DEF b
<1>2. OpenPacked(f)
  BY <1>1, OnlyOne
<1>3. [frame EXCEPT !.left = n] = h
  BY DEF Filler
<1>4. /\ cells' = cells /\ input' = input
      /\ length.ok => pb_make_string_substream(length, frame)
  BY <1>1, <1>2 DEF OpenPacked, reading, memory
<1> HIDE DEF length, frame, h
<1>5. pb_make_string_substream(length, frame)
  BY <1>1, <1>4
<1>6. Now' = Inside(g, h, cells')
  BY <1>1, <1>3, <1>4, <1>5, HasOpened
<1>7. QED
  BY <1>1, <1>4, <1>6 DEF h, k

LEMMA ItemIsRead ==
  ASSUME DInv, DecoderStep, NEW g \in Calls, NEW n \in Nat, NEW more \in Nat, NEW s \in Place,
         s.field.kind \in Numeric, NEW v \in ValuesOf(s.field.kind), NEW c,
         NEW b, b = pb_encode_varint[Written(s.field.kind, v)],
         NEW left, left = Len(b) + more,
         NEW base, base = Append(g.base, ReaderOf(g, g.left)),
         Now = Conf(b \o g.tail, Append(base, Filler(s, left, n)), 0, "none", c)
  PROVE  \/ Now' = Conf(g.tail,
                        Append(base, Filler(s, more, IF Crowded(c, s, n) THEN NextRoom(left, n) ELSE n)),
                        0, "none", PackedMore(c, s, v, left, n))
         \/ Broken'
<1> DEFINE r == Scalar(Top.slot.field.kind, Ahead)
           top == Filler(s, left, n)
           room == IF Crowded(c, s, n) THEN NextRoom(left, n) ELSE n
           new == Filler(s, more, room)
<1>1. /\ Rest = b \o g.tail /\ frames = Append(base, top)
      /\ key = 0 /\ answer = "none" /\ cells = c
  BY NowIs
<1>2. /\ b \in Seq(Byte)
      /\ \A rest \in Seq(Byte) :
           Scalar(s.field.kind, b \o rest) = [ok |-> TRUE, n |-> v, took |-> Len(b)]
  <2>1. Written(s.field.kind, v) \in Nat
    BY WrittenType
  <2>2. ReadsBack(s.field.kind, v)
    BY KindsArrive
  <2>3. QED
    BY <2>1, <2>2, EncodingIs DEF ReadsBack
<1>3. Len(b) \in Nat /\ left \in Nat /\ Len(b) <= left
  BY <1>2, LenProperties
<1>4. base \in Seq(Frame) /\ g.tail \in Seq(Byte)
  <2> DEFINE h == ReaderOf(g, g.left)
  <2>1. g.base \in Seq(Frame) /\ g.tail \in Seq(Byte)
    BY CallIs
  <2>2. h \in Frame
    BY CallIs, ReaderIs DEF ReaderOf
  <2> HIDE DEF h
  <2>3. QED
    BY <2>1, <2>2, AppendType DEF h
<1>5. /\ top \in Frame /\ top.kind = "packed" /\ top.left = left /\ top.slot = s
      /\ top.allocated = n
      /\ \A i \in Nat : \A j \in Nat : Filler(s, i, j) \in Frame
  <2> HIDE DEF r, room, new, top
  <2>1. \A i \in Nat : \A j \in Nat : Filler(s, i, j) \in Frame
    BY FillerIs
  <2>2. /\ top.kind = "packed" /\ top.left = left /\ top.slot = s /\ top.allocated = n
    BY SMTT(40) DEF Filler, top
  <2>3. QED
    BY <1>3, <2>1, <2>2 DEF top
<1> HIDE DEF top
<1>6. /\ Top = top /\ frames # <<>>
      /\ \E rest \in Seq(Byte) : Ahead = b \o rest
      /\ Ahead \in Seq(Byte) /\ Len(Ahead) = left
      /\ SubSeq(input, (pos + Len(b)) + 1, Len(input)) = g.tail
      /\ \A h \in Frame : [frames EXCEPT ![Len(frames)] = h] = Append(base, h)
  <2>1. top \in Frame /\ Len(b) <= top.left /\ top.left = left
    BY <1>3, <1>5
  <2>2. Rest = b \o g.tail /\ frames = Append(base, top)
    BY <1>1
  <2> HIDE DEF r, room, new
  <2>3. QED
    BY ZenonT(60), <1>2, <1>4, <2>1, <2>2, Standing
<1>7. r = [ok |-> TRUE, n |-> v, took |-> Len(b)]
  BY <1>2, <1>5, <1>6
<1>8. left # 0
  <2>1. r.ok /\ r.took = Len(b)
    BY <1>7
  <2>2. r.took \in 1 .. Len(Ahead)
    <3>1. Top.slot.field.kind \in Numeric
      BY <1>5, <1>6
    <3>2. QED
      BY <1>6, <2>1, <3>1, ScalarInside
  <2> HIDE DEF r
  <2>3. QED
    BY <1>6, <2>2
<1>9. PackedItem \/ PackedCannotGrow
  BY <1>1, <1>5, <1>6, <1>8, OnlyItem
<1>10. CASE PackedCannotGrow
  BY <1>10 DEF PackedCannotGrow, Fail, Broken
<1>11. CASE PackedItem
  <2>1. Full <=> Crowded(c, s, n)
    BY <1>1, <1>5, <1>6 DEF Full, Array, Crowded
  <2>2. Top.allocated + Guess = NextRoom(left, n)
    BY <1>5, <1>6 DEF Guess, NextRoom
  <2>3. room \in Nat
    <3>1. Top.left > 0
      BY <1>11 DEF PackedItem
    <3>2. Guess \in Nat
      BY <1>3, <1>5, <1>6, <3>1, GuessIs
    <3>3. Top.allocated = n
      BY <1>5, <1>6
    <3> DEFINE guess == Guess
    <3>4. NextRoom(left, n) = n + guess /\ guess \in Nat
      BY <2>2, <3>2, <3>3
    <3> HIDE DEF guess
    <3>5. NextRoom(left, n) \in Nat
      BY <3>4
    <3>6. QED
      BY <3>5
  <2>4. r.ok => /\ cells' = [cells EXCEPT ![Top.slot] =
                     Holding(Append(Array.items, r.n),
                             IF Full THEN Top.allocated + Guess ELSE Array.room)]
                /\ pos' = pos + r.took /\ key' = 0
                /\ frames' = [frames EXCEPT ![Len(frames)] =
                     [Top EXCEPT !.left = @ - r.took,
                                 !.allocated = IF Full THEN (IF Full THEN Top.allocated + Guess ELSE Array.room) ELSE @]]
                /\ UNCHANGED <<answer, errmsg>>
    BY <1>11 DEF PackedItem
  <2>5. input' = input
    BY <1>11 DEF PackedItem, reading
  <2> HIDE DEF r
  <2>6. r.ok /\ r.n = v /\ r.took = Len(b)
    BY SMTT(40), <1>7
  <2>7. cells' = PackedMore(c, s, v, left, n)
    BY <1>1, <1>5, <1>6, <2>1, <2>2, <2>4, <2>6 DEF PackedMore, Array
  <2>8. Full \in BOOLEAN
    BY DEF Full
  <2> DEFINE a == IF Full THEN Top.allocated + Guess ELSE Array.room
  <2>9. frames' = Append(base, new)
    <3>1. (IF Full THEN a ELSE n) = room
      BY <1>5, <1>6, <2>1, <2>2
    <3>2. left - r.took = more
      BY <1>3, <2>6
    <3>3. frames' = [frames EXCEPT ![Len(frames)] =
                       [Top EXCEPT !.left = @ - r.took, !.allocated = IF Full THEN a ELSE @]]
      BY <2>4, <2>6
    <3> HIDE DEF a
    <3>4. [Top EXCEPT !.left = @ - r.took, !.allocated = IF Full THEN a ELSE @]
            = Filler(s, left - r.took, IF Full THEN a ELSE n)
      <4> DEFINE took == r.took
                 last == IF Full THEN a ELSE n
                 q == [Top EXCEPT !.left = @ - took]
      <4>1. Top = Filler(s, left, n) /\ Top.allocated = n
        BY <1>5, <1>6 DEF top
      <4>2. (IF Full THEN a ELSE Top.allocated) = last
        BY <4>1
      <4>3. [q EXCEPT !.allocated = IF Full THEN a ELSE Top.allocated] = [q EXCEPT !.allocated = last]
        <5> HIDE DEF q, took, last
        <5>1. QED
          BY <4>2
      <4>4. q = Filler(s, left - took, n)
        <5> HIDE DEF took
        <5>1. QED
          BY <4>1, FillerMoves
      <4>5. [q EXCEPT !.allocated = last] = Filler(s, left - took, last)
        <5> HIDE DEF q, took, last
        <5>1. QED
          BY <4>4, FillerMoves
      <4>6. QED
        BY <4>3, <4>5, Zenon DEF q, took, last
    <3>5. Filler(s, left - r.took, IF Full THEN a ELSE n) = new
      BY <3>1, <3>2
    <3>6. new \in Frame
      BY <1>5, <2>3
    <3> HIDE DEF new, room
    <3>7. frames' = [frames EXCEPT ![Len(frames)] = new]
      BY <3>3, <3>4, <3>5
    <3>8. QED
      BY <1>6, <3>6, <3>7
  <2>10. pos' = pos + Len(b) /\ key' = 0 /\ answer' = "none"
    BY <1>1, <2>4, <2>6
  <2>11. Rest' = g.tail
    BY <1>6, <2>5, <2>10 DEF Rest
  <2> HIDE DEF new, room
  <2>12. Now' = Conf(g.tail, Append(base, new), 0, "none", PackedMore(c, s, v, left, n))
    BY <2>7, <2>9, <2>10, <2>11 DEF Now, Conf
  <2>13. QED
    BY <2>12 DEF new, room
<1>12. QED
  BY <1>9, <1>10, <1>11

LEMMA CallEnds ==
  ASSUME DInv, DecoderStep, NEW base \in Seq(Frame), NEW f \in Emptied,
         NEW tail \in Seq(Byte), NEW c, Now = Conf(tail, Append(base, f), 0, "none", c)
  PROVE  Now' = Conf(tail, Append(base, f), 0, "true", c)
<1>1. /\ Rest = tail /\ frames = Append(base, f) /\ key = 0 /\ answer = "none" /\ cells = c
  BY NowIs
<1>2. f \in Frame /\ f.left = 0 /\ f.kind \in {"message", "packed"}
  BY Kinds DEF Emptied
<1>3. Top = f
  <2> DEFINE q == frames
  <2>1. q = Append(base, f)
    BY <1>1
  <2> HIDE DEF q
  <2>2. EndsWith(q, base, f)
    BY <1>2, <2>1, LastIs
  <2>3. QED
    BY <2>2 DEF EndsWith, Top, q
<1>4. EndMessage \/ EndPacked
  BY <1>1, <1>2, <1>3, OnlyEnd, OnlyItem
<1>5. answer' = "true" /\ UNCHANGED <<pos, frames, key, cells, input>>
  BY <1>4 DEF EndMessage, EndPacked, memory, reading
<1>6. QED
  BY <1>1, <1>5 DEF Now, Conf, Rest

LEMMA CallReturns ==
  ASSUME DInv, DecoderStep, NEW base \in Seq(Frame) \ {<<>>}, NEW f \in Emptied,
         NEW tail \in Seq(Byte), NEW c, Now = Conf(tail, Append(base, f), 0, "true", c)
  PROVE  Now' = Conf(tail, base, 0, "none", c)
<1>1. /\ Rest = tail /\ frames = Append(base, f) /\ key = 0 /\ answer = "true" /\ cells = c
  BY NowIs
<1>2. f \in Frame /\ f.left = 0 /\ base \in Seq(Frame)
  BY DEF Emptied
<1>3. /\ Top = f /\ Len(frames) = Len(base) + 1 /\ SubSeq(frames, 1, Len(frames) - 1) = base
  <2> DEFINE q == frames
  <2>1. q = Append(base, f)
    BY <1>1
  <2> HIDE DEF q
  <2>2. EndsWith(q, base, f)
    BY <1>2, <2>1, LastIs
  <2>3. QED
    BY <2>2 DEF EndsWith, Top, q
<1>4. Len(base) \in Nat \ {0}
  BY EmptySeq
<1>5. Close
  BY <1>1, <1>3, <1>4, OnlyReturn
<1>6. /\ pos' = pos + Top.left /\ frames' = SubSeq(frames, 1, Len(frames) - 1)
      /\ answer' = "none" /\ UNCHANGED <<key, errmsg, input>>
      /\ UNCHANGED cells
  BY <1>1, <1>5 DEF Close, Releases, reading, memory
<1>7. pos \in Nat
  BY DEF DInv, Streams
<1>8. pos' = pos
  BY <1>2, <1>3, <1>6, <1>7
<1>9. QED
  BY <1>1, <1>3, <1>6, <1>8 DEF Now, Conf, Rest

-----------------------------------------------------------------------------
(* What follows is what the decoder does, unless memory runs out.          *)
LEMMA StepFollows ==
  ASSUME DInv, DecoderStep, NEW y, Follows(Now, y)
  PROVE  Now' = y \/ Broken'
<1>1. CASE ReadsTag(Now, y)
  <2>1. PICK g \in Calls, n \in Lengths \ {0} : \E c :
          Now = Before(g, pb_encode_varint[n], 0, c) /\ y = After(g, n, c)
    BY <1>1 DEF ReadsTag
  <2>2. QED
    BY <2>1, TagIsRead
<1>2. CASE ReadsNumber(Now, y)
  <2>1. PICK g \in Calls : \E f \in FieldsOf(g.message), w \in {0} : \E v \in ValuesOf(f.kind) : \E c :
          /\ f.shape = "optional" /\ f.kind \in Numeric
          /\ Now = Before(g, pb_encode_varint[Written(f.kind, v)], 8 * f.tag + w, c)
          /\ y = After(g, 0, [c EXCEPT ![Slot(g.path, f)] = Holding(<<v>>, 1)])
    BY <1>2 DEF ReadsNumber
  <2>2. PICK f \in FieldsOf(g.message), w \in {0} : \E v \in ValuesOf(f.kind) : \E c :
          /\ f.shape = "optional" /\ f.kind \in Numeric
          /\ Now = Before(g, pb_encode_varint[Written(f.kind, v)], 8 * f.tag + w, c)
          /\ y = After(g, 0, [c EXCEPT ![Slot(g.path, f)] = Holding(<<v>>, 1)])
    BY <2>1
  <2>3. PICK v \in ValuesOf(f.kind) : \E c :
          /\ f.shape = "optional" /\ f.kind \in Numeric
          /\ Now = Before(g, pb_encode_varint[Written(f.kind, v)], 8 * f.tag + 0, c)
          /\ y = After(g, 0, [c EXCEPT ![Slot(g.path, f)] = Holding(<<v>>, 1)])
    BY <2>2
  <2>4. QED
    BY <2>3, NumberIsRead
<1>3. CASE ReadsBytes(Now, y)
  <2>1. PICK g \in Calls : \E f \in FieldsOf(g.message), v \in Seq(Byte) : \E c :
          /\ f.kind = "bytes" /\ Len(v) \in Lengths
          /\ Now = Before(g, pb_encode_varint[Len(v)] \o v, 8 * f.tag + 2, c)
          /\ y = After(g, 0, [c EXCEPT ![Slot(g.path, f)] = Holding(v, Len(v))])
    BY <1>3 DEF ReadsBytes
  <2>2. PICK f \in FieldsOf(g.message), v \in Seq(Byte) : \E c :
          /\ f.kind = "bytes" /\ Len(v) \in Lengths
          /\ Now = Before(g, pb_encode_varint[Len(v)] \o v, 8 * f.tag + 2, c)
          /\ y = After(g, 0, [c EXCEPT ![Slot(g.path, f)] = Holding(v, Len(v))])
    BY <2>1
  <2>3. QED
    BY <2>2, BytesAreRead
<1>4. CASE OpensMessage(Now, y)
  <2>1. PICK g \in Calls : \E f \in FieldsOf(g.message), n \in Lengths : \E c :
          /\ f.shape = "optional" /\ f.kind = "message"
          /\ Now = Outside(g, pb_encode_varint[n], n, 8 * f.tag + 2, c)
          /\ y = Inside(g, Reader(f.of, g.path \o Step(f, 0), FALSE, n),
                        [c EXCEPT ![Slot(g.path, f)].set = TRUE])
    BY <1>4 DEF OpensMessage
  <2>2. QED
    BY <2>1, MessageIsOpened
<1>5. CASE OpensElement(Now, y)
  <2>1. PICK g \in Calls : \E f \in FieldsOf(g.message), n \in Lengths : \E c :
          LET s == Slot(g.path, f)
              path == g.path \o Step(f, Len(c[s].items) + 1)
          IN  /\ f.shape = "repeated" /\ f.kind = "message"
              /\ Now = Outside(g, pb_encode_varint[n], n, 8 * f.tag + 2, c)
              /\ y = Inside(g, Reader(f.of, path, TRUE, n),
                            pb_message_set_to_defaults(f.of, path, Longer(c, s)))
    BY <1>5 DEF OpensElement
  <2>2. QED
    BY <2>1, ElementIsOpened
<1>6. CASE OpensPacked(Now, y)
  <2>1. PICK g \in Calls : \E f \in FieldsOf(g.message), n \in Lengths : \E c :
          LET s == Slot(g.path, f)
          IN  /\ f.shape = "repeated" /\ f.kind \in Numeric
              /\ Now = Outside(g, pb_encode_varint[n], n, 8 * f.tag + 2, c)
              /\ y = Inside(g, Filler(s, n, Len(c[s].items)), c)
    BY <1>6 DEF OpensPacked
  <2>2. QED
    BY <2>1, PackedIsOpened
<1>7. CASE ReadsItem(Now, y)
  <2>1. PICK g \in Calls, n \in Nat, more \in Nat, s \in Place :
          \E v \in ValuesOf(s.field.kind) : \E c :
          LET b    == pb_encode_varint[Written(s.field.kind, v)]
              left == Len(b) + more
              base == Append(g.base, ReaderOf(g, g.left))
          IN  /\ s.field.kind \in Numeric
              /\ Now = Conf(b \o g.tail, Append(base, Filler(s, left, n)), 0, "none", c)
              /\ y = Conf(g.tail,
                          Append(base, Filler(s, more, IF Crowded(c, s, n) THEN NextRoom(left, n) ELSE n)),
                          0, "none", PackedMore(c, s, v, left, n))
    BY <1>7 DEF ReadsItem
  <2>2. PICK v \in ValuesOf(s.field.kind) : \E c :
          LET b    == pb_encode_varint[Written(s.field.kind, v)]
              left == Len(b) + more
              base == Append(g.base, ReaderOf(g, g.left))
          IN  /\ s.field.kind \in Numeric
              /\ Now = Conf(b \o g.tail, Append(base, Filler(s, left, n)), 0, "none", c)
              /\ y = Conf(g.tail,
                          Append(base, Filler(s, more, IF Crowded(c, s, n) THEN NextRoom(left, n) ELSE n)),
                          0, "none", PackedMore(c, s, v, left, n))
    BY <2>1
  <2> DEFINE b    == pb_encode_varint[Written(s.field.kind, v)]
             left == Len(b) + more
             base == Append(g.base, ReaderOf(g, g.left))
             new(c) == Conf(g.tail,
                            Append(base, Filler(s, more, IF Crowded(c, s, n) THEN NextRoom(left, n) ELSE n)),
                            0, "none", PackedMore(c, s, v, left, n))
  <2>3. PICK c : /\ s.field.kind \in Numeric
                 /\ Now = Conf(b \o g.tail, Append(base, Filler(s, left, n)), 0, "none", c)
                 /\ y = new(c)
    BY <2>2
  <2>4. b = pb_encode_varint[Written(s.field.kind, v)] /\ left = Len(b) + more
        /\ base = Append(g.base, ReaderOf(g, g.left))
    OBVIOUS
  <2> HIDE DEF b, left, base
  <2>5. Now' = new(c) \/ Broken'
    BY ZenonT(60), <2>3, <2>4, ItemIsRead
  <2>6. QED
    BY <2>3, <2>5
<1>8. CASE EndsCall(Now, y)
  <2>1. PICK base \in Seq(Frame), f \in Emptied, tail \in Seq(Byte) : \E c :
          /\ Now = Conf(tail, Append(base, f), 0, "none", c)
          /\ y = Conf(tail, Append(base, f), 0, "true", c)
    BY <1>8 DEF EndsCall
  <2>2. QED
    BY <2>1, CallEnds
<1>9. CASE Returns(Now, y)
  <2>1. PICK base \in Seq(Frame) \ {<<>>}, f \in Emptied, tail \in Seq(Byte) : \E c :
          /\ Now = Conf(tail, Append(base, f), 0, "true", c)
          /\ y = Conf(tail, base, 0, "none", c)
    BY <1>9 DEF Returns
  <2>2. QED
    BY <2>1, CallReturns
<1>10. QED
  BY <1>1, <1>2, <1>3, <1>4, <1>5, <1>6, <1>7, <1>8, <1>9 DEF Follows

(* What was not decoded for want of memory stays so.                       *)
LEMMA BrokenStays ==
  ASSUME DecoderStep, Broken
  PROVE  Broken'
<1>1. answer # "none"
  BY DEF Broken
<1>2. Close \/ Finish
  BY <1>1, OnlyReturn
<1>3. QED
  BY <1>2 DEF Broken, Close, Finish

LEMMA LastStep ==
  ASSUME DecoderStep, NEW top, NEW d, Now = Conf(<<>>, <<top>>, 0, "true", d)
  PROVE  state' = "decoded" /\ answer' = "true" /\ cells' = d /\ UNCHANGED input
<1>1. frames = <<top>> /\ answer = "true" /\ cells = d
  BY NowIs
<1>2. Len(frames) = 1
  BY <1>1
<1>3. Finish
  BY <1>1, <1>2, OnlyReturn
<1>4. ~Releases
  BY <1>1 DEF Releases
<1>5. QED
  BY <1>1, <1>3, <1>4 DEF Finish, memory

(* Where the decoder is on its way to, it still is one step later.         *)
LEMMA StaysOnTheWay ==
  ASSUME DInv, DecoderStep, NEW z, Leading(Now, z)
  PROVE  Now = z \/ Leading(Now', z) \/ Broken'
<1>1. CASE Now = z
  BY <1>1
<1>2. CASE Now # z
  <2> DEFINE x == Now
  <2>1. Leading(x, z) /\ x # z
    BY <1>2
  <2> HIDE DEF x
  <2>2. PICK y : Follows(x, y) /\ Leading(y, z)
    BY <2>1, LeadingFirst
  <2>3. Now' = y \/ Broken'
    BY <2>2, StepFollows DEF x
  <2>4. QED
    BY <2>2, <2>3
<1>3. QED
  BY <1>1, <1>2

-----------------------------------------------------------------------------
(* What was written of a part of a structure, wherever it is read: by any  *)
(* call for the structure at path, and whatever comes behind it.           *)
Leaps(m, path, bytes, c, d) ==
  \A g \in Calls : g.message = m /\ g.path = path
                     => Leading(Before(g, bytes, 0, c), After(g, 0, d))

(* A call that has b to read before what g has; a stream that ends in b.   *)
Sooner(g, b) ==
  [base |-> g.base, message |-> g.message, path |-> g.path, init |-> g.init,
   left |-> Len(b) + g.left, tail |-> b \o g.tail]
Later(g, b) ==
  [base |-> g.base, message |-> g.message, path |-> g.path, init |-> g.init,
   left |-> g.left, tail |-> b \o g.tail]

LEMMA SoonerIs ==
  ASSUME NEW g \in Calls, NEW a \in Seq(Byte), NEW b \in Seq(Byte), NEW k, NEW c
  PROVE  /\ Sooner(g, b) \in Calls
         /\ Sooner(g, b).message = g.message /\ Sooner(g, b).path = g.path
         /\ After(Sooner(g, b), k, c) = Before(g, b, k, c)
         /\ Before(Sooner(g, b), a, k, c) = Before(g, a \o b, k, c)
<1> DEFINE h == Sooner(g, b)
<1>1. /\ g.base \in Seq(Frame) /\ g.message \in Message /\ g.path \in Path
      /\ g.init \in BOOLEAN /\ g.left \in Nat /\ g.tail \in Seq(Byte)
  BY CallIs
<1>2. /\ h.base = g.base /\ h.message = g.message /\ h.path = g.path /\ h.init = g.init
      /\ h.left = Len(b) + g.left /\ h.tail = b \o g.tail
  BY DEF Sooner
<1>3. Len(b) + g.left \in Nat /\ b \o g.tail \in Seq(Byte) /\ Len(b) \in Nat /\ Len(a) \in Nat
      /\ Len(a \o b) = Len(a) + Len(b)
  <2> DEFINE tail == g.tail
             left == g.left
  <2>1. tail \in Seq(Byte) /\ left \in Nat
    BY <1>1
  <2> HIDE DEF tail, left
  <2>2. b \o tail \in Seq(Byte)
    BY <2>1, Concat
  <2>3. Len(a \o b) = Len(a) + Len(b)
    BY Concat
  <2>4. Len(b) \in Nat /\ Len(a) \in Nat
    BY LenProperties
  <2>5. Len(b) + left \in Nat
    BY <2>1, <2>4
  <2>6. QED
    BY <2>2, <2>3, <2>4, <2>5 DEF tail, left
<1>4. h \in Calls
  BY <1>1, <1>3 DEF Sooner, Calls
<1> HIDE DEF h
<1>5. \A n : ReaderOf(h, n) = ReaderOf(g, n)
  BY <1>2 DEF ReaderOf
<1>6. After(h, k, c) = Before(g, b, k, c)
  BY <1>2, <1>5 DEF After, Before
<1>7. a \o (b \o g.tail) = (a \o b) \o g.tail
  <2> DEFINE tail == g.tail
  <2>1. tail \in Seq(Byte)
    BY <1>1
  <2> HIDE DEF tail
  <2>2. (a \o b) \o tail = a \o (b \o tail)
    BY <2>1, ConcatAssociative
  <2>3. QED
    BY <2>2 DEF tail
<1>8. Len(a) + h.left = Len(a \o b) + g.left
  BY <1>1, <1>2, <1>3
<1>9. Before(h, a, k, c) = Before(g, a \o b, k, c)
  BY <1>2, <1>5, <1>7, <1>8 DEF Before
<1>10. QED
  BY <1>2, <1>4, <1>6, <1>9 DEF h

LEMMA LaterIs ==
  ASSUME NEW g \in Calls, NEW a \in Seq(Byte), NEW b \in Seq(Byte), NEW k, NEW c
  PROVE  /\ Later(g, b) \in Calls
         /\ Later(g, b).message = g.message /\ Later(g, b).path = g.path
         /\ Outside(Later(g, b), a, Len(b), k, c) = Before(g, a \o b, k, c)
         /\ Later(g, b).base = g.base /\ Later(g, b).left = g.left
         /\ Later(g, b).tail = b \o g.tail
         /\ \A n : ReaderOf(Later(g, b), n) = ReaderOf(g, n)
<1> DEFINE h == Later(g, b)
<1>1. /\ g.base \in Seq(Frame) /\ g.message \in Message /\ g.path \in Path
      /\ g.init \in BOOLEAN /\ g.left \in Nat /\ g.tail \in Seq(Byte)
  BY CallIs
<1>2. /\ h.base = g.base /\ h.message = g.message /\ h.path = g.path /\ h.init = g.init
      /\ h.left = g.left /\ h.tail = b \o g.tail
  BY DEF Later
<1>3. b \o g.tail \in Seq(Byte) /\ Len(b) \in Nat /\ Len(a) \in Nat
      /\ Len(a \o b) = Len(a) + Len(b)
  <2> DEFINE tail == g.tail
             left == g.left
  <2>1. tail \in Seq(Byte) /\ left \in Nat
    BY <1>1
  <2> HIDE DEF tail, left
  <2>2. b \o tail \in Seq(Byte)
    BY <2>1, Concat
  <2>3. Len(a \o b) = Len(a) + Len(b)
    BY Concat
  <2>4. Len(b) \in Nat /\ Len(a) \in Nat
    BY LenProperties
  <2>5. Len(b) + left \in Nat
    BY <2>1, <2>4
  <2>6. QED
    BY <2>2, <2>3, <2>4, <2>5 DEF tail, left
<1>4. h \in Calls
  BY <1>1, <1>3 DEF Later, Calls
<1> HIDE DEF h
<1>5. \A n : ReaderOf(h, n) = ReaderOf(g, n)
  BY <1>2 DEF ReaderOf
<1>6. a \o (b \o g.tail) = (a \o b) \o g.tail
  <2> DEFINE tail == g.tail
  <2>1. tail \in Seq(Byte)
    BY <1>1
  <2> HIDE DEF tail
  <2>2. (a \o b) \o tail = a \o (b \o tail)
    BY <2>1, ConcatAssociative
  <2>3. QED
    BY <2>2 DEF tail
<1>7. Len(a) + (Len(b) + h.left) = Len(a \o b) + g.left
  BY <1>1, <1>2, <1>3
<1>8. Outside(h, a, Len(b), k, c) = Before(g, a \o b, k, c)
  BY <1>2, <1>5, <1>6, <1>7 DEF Before, Outside
<1>9. QED
  BY <1>2, <1>4, <1>5, <1>8 DEF h

LEMMA LeapsNowhere ==
  ASSUME NEW m, NEW path, NEW c
  PROVE  Leaps(m, path, <<>>, c, c)
<1> SUFFICES ASSUME NEW g \in Calls PROVE Leading(Before(g, <<>>, 0, c), After(g, 0, c))
  BY DEF Leaps
<1>1. g.left \in Nat /\ g.tail \in Seq(Byte)
  BY CallIs
<1>2. <<>> \o g.tail = g.tail /\ Len(<<>>) + g.left = g.left
  BY <1>1
<1>3. Before(g, <<>>, 0, c) = After(g, 0, c)
  BY <1>2 DEF Before, After
<1>4. QED
  BY <1>3, LeadingNowhere

LEMMA LeapsBoth ==
  ASSUME NEW m, NEW path, NEW a \in Seq(Byte), NEW b \in Seq(Byte), NEW c, NEW d, NEW e,
         Leaps(m, path, a, c, d), Leaps(m, path, b, d, e)
  PROVE  Leaps(m, path, a \o b, c, e)
<1> SUFFICES ASSUME NEW g \in Calls, g.message = m, g.path = path
             PROVE  Leading(Before(g, a \o b, 0, c), After(g, 0, e))
  BY DEF Leaps
<1> DEFINE h == Sooner(g, b)
<1>1. h \in Calls /\ h.message = m /\ h.path = path
  BY SoonerIs
<1>2. Before(h, a, 0, c) = Before(g, a \o b, 0, c) /\ After(h, 0, d) = Before(g, b, 0, d)
  BY SoonerIs
<1> HIDE DEF h
<1>3. Leading(Before(h, a, 0, c), After(h, 0, d)) /\ Leading(Before(g, b, 0, d), After(g, 0, e))
  BY <1>1 DEF Leaps
<1>4. QED
  BY <1>2, <1>3, LeadingOn

(* The tag before a field.                                                 *)
TagOf(f, w) == pb_encode_varint[8 * f.tag + w]

LEMMA TagLeads ==
  ASSUME NEW g \in Calls, NEW f \in FieldsOf(g.message), NEW w \in 0 .. 2,
         NEW b \in Seq(Byte), NEW c
  PROVE  /\ Leading(Before(g, TagOf(f, w) \o b, 0, c), Before(g, b, 8 * f.tag + w, c))
         /\ TagOf(f, w) \in Seq(Byte)
<1> DEFINE n == 8 * f.tag + w
           h == Sooner(g, b)
           t == pb_encode_varint[n]
<1>1. g.message \in Message
  BY CallIs
<1>2. n \in Lengths \ {0}
  <2>1. PICK i \in DOMAIN Fields[g.message] : f = Fields[g.message][i]
    BY DEF FieldsOf
  <2>2. 8 * f.tag + 2 < 2 ^ Bits32
    BY <1>1, <2>1, TagsAssumption
  <2>3. f.tag \in Nat \ {0}
    BY <1>1, FieldOfMessage DEF Field
  <2> DEFINE p == 2 ^ Bits32
  <2>4. p \in Nat
    BY WidthType DEF p
  <2> HIDE DEF p
  <2>5. n \in 0 .. p - 1 /\ n # 0
    BY <2>2, <2>3, <2>4 DEF p
  <2>6. QED
    BY <2>5 DEF p, Lengths
<1> HIDE DEF n
<1>3. t \in Seq(Byte)
  BY <1>2, EncodingIs DEF Lengths
<1> HIDE DEF t
<1>4. /\ h \in Calls /\ After(h, n, c) = Before(g, b, n, c)
      /\ Before(h, t, 0, c) = Before(g, t \o b, 0, c)
  BY <1>3, SoonerIs
<1> HIDE DEF h
<1>5. ReadsTag(Before(h, t, 0, c), After(h, n, c))
  BY <1>2, <1>4 DEF ReadsTag, t
<1>6. Leading(Before(h, t, 0, c), After(h, n, c))
  BY <1>5, LeadingOnce DEF Follows
<1>7. QED
  BY <1>3, <1>4, <1>6 DEF TagOf, t, n

-----------------------------------------------------------------------------
(* The calls within a call.                                                *)
Callers(g) == Append(g.base, ReaderOf(g, g.left))

LEMMA CallersAre ==
  ASSUME NEW g \in Calls
  PROVE  Callers(g) \in Seq(Frame) \ {<<>>}
<1> DEFINE base == g.base
           h == ReaderOf(g, g.left)
           q == Append(base, h)
<1>1. base \in Seq(Frame)
  BY CallIs
<1>2. h \in Frame
  BY CallIs, ReaderIs DEF ReaderOf
<1> HIDE DEF base, h, q
<1>3. EndsWith(q, base, h)
  BY <1>1, <1>2, LastIs DEF q
<1>4. q \in Seq(Frame) \ {<<>>}
  BY <1>3 DEF EndsWith
<1>5. QED
  BY <1>4 DEF q, base, h, Callers

LEMMA EndLeads ==
  ASSUME NEW base \in Seq(Frame) \ {<<>>}, NEW f \in Emptied, NEW tail \in Seq(Byte), NEW d
  PROVE  Leading(Conf(tail, Append(base, f), 0, "none", d), Conf(tail, base, 0, "none", d))
<1> DEFINE x == Conf(tail, Append(base, f), 0, "none", d)
           y == Conf(tail, Append(base, f), 0, "true", d)
           z == Conf(tail, base, 0, "none", d)
<1>1. base \in Seq(Frame)
  OBVIOUS
<1>2. EndsCall(x, y)
  BY <1>1 DEF EndsCall
<1>3. Returns(y, z)
  BY DEF Returns
<1> HIDE DEF x, y, z
<1>4. Follows(x, y) /\ Follows(y, z)
  BY <1>2, <1>3 DEF Follows
<1>5. Leading(x, y) /\ Leading(y, z)
  BY <1>4, LeadingOnce
<1>6. Leading(x, z)
  BY <1>5, LeadingOn
<1>7. QED
  BY <1>6 DEF x, z

LEMMA CallLeads ==
  ASSUME NEW g \in Calls, NEW m \in Message, NEW path \in Path, NEW init \in BOOLEAN,
         NEW body \in Seq(Byte), NEW c, NEW d, Leaps(m, path, body, c, d)
  PROVE  Leading(Inside(Later(g, body), Reader(m, path, init, Len(body)), c), After(g, 0, d))
<1> DEFINE base == Callers(g)
           tail == g.tail
           h == [base |-> base, message |-> m, path |-> path, init |-> init,
                 left |-> 0, tail |-> tail]
           f == Reader(m, path, init, 0)
<1>1. base \in Seq(Frame) \ {<<>>} /\ tail \in Seq(Byte)
  BY CallersAre, CallIs
<1>2. Inside(Later(g, body), Reader(m, path, init, Len(body)), c)
        = Conf(body \o tail, Append(base, Reader(m, path, init, Len(body))), 0, "none", c)
  BY DEF Inside, Later, Callers, ReaderOf
<1>3. After(g, 0, d) = Conf(tail, base, 0, "none", d)
  BY DEF After, Callers
<1> HIDE DEF base, tail
<1>4. h \in Calls
  BY <1>1 DEF Calls
<1>5. /\ h.base = base /\ h.message = m /\ h.path = path /\ h.init = init
      /\ h.left = 0 /\ h.tail = tail
  OBVIOUS
<1> HIDE DEF h
<1>6. \A n : ReaderOf(h, n) = Reader(m, path, init, n)
  BY <1>5 DEF ReaderOf
<1>7. Len(body) + 0 = Len(body)
  BY LenProperties
<1>8. Before(h, body, 0, c)
        = Conf(body \o tail, Append(base, Reader(m, path, init, Len(body))), 0, "none", c)
  BY <1>5, <1>6, <1>7 DEF Before
<1>9. After(h, 0, d) = Conf(tail, Append(base, f), 0, "none", d)
  BY <1>5, <1>6 DEF After
<1>10. Leading(Before(h, body, 0, c), After(h, 0, d))
  BY <1>4, <1>5 DEF Leaps
<1>11. f \in Emptied
  BY ReaderIs DEF Emptied
<1> HIDE DEF f
<1>12. Leading(After(h, 0, d), Conf(tail, base, 0, "none", d))
  BY <1>1, <1>9, <1>11, EndLeads
<1>13. QED
  BY <1>2, <1>3, <1>8, <1>10, <1>12, LeadingOn

(* A number, bytes, a message in a message.                                *)
LEMMA NumberLeaps ==
  ASSUME NEW m, NEW path, NEW f \in FieldsOf(m), f.shape = "optional", f.kind \in Numeric,
         NEW v \in ValuesOf(f.kind), NEW c, NEW d,
         d = [c EXCEPT ![Slot(path, f)] = Holding(<<v>>, 1)]
  PROVE  Leaps(m, path, TagOf(f, 0) \o pb_encode_varint[Written(f.kind, v)], c, d)
<1> DEFINE b == pb_encode_varint[Written(f.kind, v)]
<1> SUFFICES ASSUME NEW g \in Calls, g.message = m, g.path = path
             PROVE  Leading(Before(g, TagOf(f, 0) \o b, 0, c), After(g, 0, d))
  BY DEF Leaps
<1>1. b \in Seq(Byte)
  <2>1. Written(f.kind, v) \in Nat
    BY WrittenType
  <2>2. QED
    BY <2>1, EncodingIs
<1>2. ReadsNumber(Before(g, b, 8 * f.tag + 0, c), After(g, 0, d))
  <2>1. 0 \in {0} /\ f \in FieldsOf(g.message) /\ d = [c EXCEPT ![Slot(g.path, f)] = Holding(<<v>>, 1)]
    OBVIOUS
  <2>2. QED
    BY <2>1 DEF ReadsNumber
<1> HIDE DEF b
<1>3. Leading(Before(g, b, 8 * f.tag + 0, c), After(g, 0, d))
  BY <1>2, LeadingOnce DEF Follows
<1>4. Leading(Before(g, TagOf(f, 0) \o b, 0, c), Before(g, b, 8 * f.tag + 0, c))
  <2>1. 0 \in 0 .. 2
    OBVIOUS
  <2>2. QED
    BY <1>1, <2>1, TagLeads
<1>5. QED
  BY <1>3, <1>4, LeadingOn

LEMMA BytesLeap ==
  ASSUME NEW m, NEW path, NEW f \in FieldsOf(m), f.kind = "bytes",
         NEW v \in Seq(Byte), Len(v) \in Lengths, NEW c, NEW d,
         d = [c EXCEPT ![Slot(path, f)] = Holding(v, Len(v))]
  PROVE  Leaps(m, path, TagOf(f, 2) \o (pb_encode_varint[Len(v)] \o v), c, d)
<1> DEFINE b == pb_encode_varint[Len(v)] \o v
<1> SUFFICES ASSUME NEW g \in Calls, g.message = m, g.path = path
             PROVE  Leading(Before(g, TagOf(f, 2) \o b, 0, c), After(g, 0, d))
  BY DEF Leaps
<1>1. b \in Seq(Byte)
  <2>1. Len(v) \in Nat
    BY LenProperties
  <2>2. pb_encode_varint[Len(v)] \in Seq(Byte)
    BY <2>1, EncodingIs
  <2>3. QED
    BY <2>2, Concat
<1>2. ReadsBytes(Before(g, b, 8 * f.tag + 2, c), After(g, 0, d))
  <2>1. f \in FieldsOf(g.message) /\ d = [c EXCEPT ![Slot(g.path, f)] = Holding(v, Len(v))]
    OBVIOUS
  <2>2. QED
    BY <2>1 DEF ReadsBytes
<1> HIDE DEF b
<1>3. Leading(Before(g, b, 8 * f.tag + 2, c), After(g, 0, d))
  BY <1>2, LeadingOnce DEF Follows
<1>4. Leading(Before(g, TagOf(f, 2) \o b, 0, c), Before(g, b, 8 * f.tag + 2, c))
  <2>1. 2 \in 0 .. 2
    OBVIOUS
  <2>2. QED
    BY <1>1, <2>1, TagLeads
<1>5. QED
  BY <1>3, <1>4, LeadingOn

(* A field that opens a stream: its tag, the length, and what is in it.    *)
Sent(f, body) == TagOf(f, 2) \o (pb_encode_varint[Len(body)] \o body)

LEMMA SentLeads ==
  ASSUME NEW g \in Calls, NEW f \in FieldsOf(g.message), NEW body \in Seq(Byte),
         Len(body) \in Lengths, NEW c
  PROVE  Leading(Before(g, Sent(f, body), 0, c),
                 Outside(Later(g, body), pb_encode_varint[Len(body)], Len(body), 8 * f.tag + 2, c))
<1> DEFINE l == pb_encode_varint[Len(body)]
           b == l \o body
<1>1. l \in Seq(Byte)
  <2>1. Len(body) \in Nat
    BY LenProperties
  <2>2. QED
    BY <2>1, EncodingIs
<1> HIDE DEF l
<1>2. b \in Seq(Byte)
  BY <1>1, Concat
<1>3. Outside(Later(g, body), l, Len(body), 8 * f.tag + 2, c) = Before(g, b, 8 * f.tag + 2, c)
  BY <1>1, LaterIs
<1> HIDE DEF b
<1>4. Leading(Before(g, TagOf(f, 2) \o b, 0, c), Before(g, b, 8 * f.tag + 2, c))
  <2>1. 2 \in 0 .. 2
    OBVIOUS
  <2>2. QED
    BY <1>2, <2>1, TagLeads
<1>5. QED
  BY <1>3, <1>4 DEF Sent, b, l

LEMMA MessageLeaps ==
  ASSUME NEW m, NEW path \in Path, NEW f \in FieldsOf(m),
         f.shape = "optional", f.kind = "message", f.of \in Message,
         NEW inner, inner = path \o Step(f, 0), inner \in Path,
         NEW body \in Seq(Byte), Len(body) \in Lengths, NEW c, NEW d,
         Leaps(f.of, inner, body, [c EXCEPT ![Slot(path, f)].set = TRUE], d)
  PROVE  Leaps(m, path, Sent(f, body), c, d)
<1> SUFFICES ASSUME NEW g \in Calls, g.message = m, g.path = path
             PROVE  Leading(Before(g, Sent(f, body), 0, c), After(g, 0, d))
  BY DEF Leaps
<1> DEFINE h == Later(g, body)
           n == Len(body)
           o == [c EXCEPT ![Slot(path, f)].set = TRUE]
           x == Outside(h, pb_encode_varint[n], n, 8 * f.tag + 2, c)
           y == Inside(h, Reader(f.of, inner, FALSE, n), o)
<1>1. h \in Calls /\ h.message = m /\ h.path = path
  BY LaterIs
<1>2. Leading(Before(g, Sent(f, body), 0, c), x)
  BY SentLeads
<1>3. OpensMessage(x, y)
  <2> HIDE DEF h, n
  <2>1. n \in Lengths
    BY DEF n
  <2>2. QED
    BY <1>1, <2>1 DEF OpensMessage
<1>4. Leading(y, After(g, 0, d))
  <2> HIDE DEF o
  <2>1. Leaps(f.of, inner, body, o, d)
    BY DEF o
  <2>2. QED
    BY <2>1, CallLeads
<1> HIDE DEF x, y
<1>5. Leading(x, y)
  BY <1>3, LeadingOnce DEF Follows
<1>6. QED
  BY <1>2, <1>4, <1>5, LeadingOn

LEMMA ElementLeaps ==
  ASSUME NEW m, NEW path \in Path, NEW f \in FieldsOf(m),
         f.shape = "repeated", f.kind = "message", f.of \in Message, NEW c, NEW d, NEW s,
         s = Slot(path, f), NEW inner, inner = path \o Step(f, Len(c[s].items) + 1),
         inner \in Path, NEW body \in Seq(Byte), Len(body) \in Lengths,
         Leaps(f.of, inner, body, pb_message_set_to_defaults(f.of, inner, Longer(c, s)), d)
  PROVE  Leaps(m, path, Sent(f, body), c, d)
<1> SUFFICES ASSUME NEW g \in Calls, g.message = m, g.path = path
             PROVE  Leading(Before(g, Sent(f, body), 0, c), After(g, 0, d))
  BY DEF Leaps
<1> DEFINE h == Later(g, body)
           n == Len(body)
           o == pb_message_set_to_defaults(f.of, inner, Longer(c, s))
           x == Outside(h, pb_encode_varint[n], n, 8 * f.tag + 2, c)
           y == Inside(h, Reader(f.of, inner, TRUE, n), o)
<1>1. h \in Calls /\ h.message = m /\ h.path = path
  BY LaterIs
<1>2. Leading(Before(g, Sent(f, body), 0, c), x)
  BY SentLeads
<1>3. OpensElement(x, y)
  <2> HIDE DEF h, n
  <2>1. n \in Lengths
    BY DEF n
  <2>2. QED
    BY <1>1, <2>1 DEF OpensElement
<1>4. Leading(y, After(g, 0, d))
  <2> HIDE DEF o
  <2>1. Leaps(f.of, inner, body, o, d)
    BY DEF o
  <2>2. QED
    BY <2>1, CallLeads
<1> HIDE DEF x, y
<1>5. Leading(x, y)
  BY <1>3, LeadingOnce DEF Follows
<1>6. QED
  BY <1>2, <1>4, <1>5, LeadingOn

-----------------------------------------------------------------------------
(* A memory in which every array is behind the slots on the way.           *)
Tidy(c) == \E h : Sound(c, h)

LEMMA TidyIs ==
  ASSUME NEW c, Tidy(c)
  PROVE  /\ c = [s \in DOMAIN c |-> c[s]] /\ DOMAIN c \subseteq Place
         /\ \A s \in DOMAIN c : /\ IsCell(c[s]) /\ Rooted(s.path, c)
                                /\ Behind(s.field) => Len(c[s].items) <= c[s].room
BY DEF Tidy, Sound

LEMMA TidyStores ==
  ASSUME NEW c, Tidy(c), NEW s \in DOMAIN c, NEW v, IsCell(v),
         s.field.kind = "message" => Len(c[s].items) <= Len(v.items),
         Behind(s.field) => v.set /\ Len(v.items) <= v.room,
         NEW d, d = [c EXCEPT ![s] = v]
  PROVE  Tidy(d) /\ DOMAIN d = DOMAIN c /\ d[s] = v /\ \A t \in DOMAIN c : t # s => d[t] = c[t]
<1>1. PICK h : Sound(c, h)
  BY DEF Tidy
<1>2. Sound(d, IF Behind(s.field) THEN h \cup {s} ELSE h)
  BY <1>1, SoundStores
<1>3. QED
  BY <1>2, TidyIs DEF Tidy

LEMMA CellIs ==
  ASSUME NEW v, IsCell(v)
  PROVE  Len(v.items) \in Nat /\ v.set \in BOOLEAN /\ v.room \in Nat /\ v.items \o <<>> = v.items
<1>1. PICK S : v \in [set : BOOLEAN, items : Seq(S), room : Nat]
  BY DEF IsCell
<1> DEFINE q == v.items
<1>2. q \in Seq(S) /\ v.set \in BOOLEAN /\ v.room \in Nat
  BY <1>1
<1> HIDE DEF q
<1>3. q \o <<>> = q
  BY <1>2, ConcatEmptySeq
<1>4. Len(q) \in Nat
  BY <1>2, LenProperties
<1>5. QED
  BY <1>2, <1>3, <1>4 DEF q

LEMMA CellAppended ==
  ASSUME NEW v, IsCell(v), NEW n, NEW r \in Nat
  PROVE  LET w == Holding(Append(v.items, n), r)
         IN  IsCell(w) /\ Len(w.items) = Len(v.items) + 1 /\ w.set /\ w.room = r
<1>1. PICK S : v \in [set : BOOLEAN, items : Seq(S), room : Nat]
  BY DEF IsCell
<1> DEFINE q == v.items
           T == S \cup {n}
           p == Append(q, n)
           w == Holding(p, r)
<1>2. q \in Seq(S)
  BY <1>1
<1> HIDE DEF q
<1>3. q \in Seq(T)
  <2>1. S \subseteq T
    OBVIOUS
  <2> HIDE DEF T
  <2>2. QED
    BY <1>2, <2>1, SeqMonotonic
<1>4. n \in T
  OBVIOUS
<1> HIDE DEF T
<1>5. p \in Seq(T) /\ Len(p) = Len(q) + 1
  BY <1>3, <1>4, AppendProperties
<1> HIDE DEF p
<1>6. w \in [set : BOOLEAN, items : Seq(T), room : Nat] /\ w.items = p /\ w.set /\ w.room = r
  BY <1>5 DEF Holding
<1>7. IsCell(w)
  BY <1>6 DEF IsCell
<1>8. QED
  BY <1>5, <1>6, <1>7 DEF w, p, q

(* What an array had, and new elements.                                    *)
Extends(c, d, s, new) ==
  /\ DOMAIN d = DOMAIN c /\ s \in DOMAIN c
  /\ \A t \in DOMAIN c : t # s => d[t] = c[t]
  /\ d[s].items = c[s].items \o new
  /\ d[s].set <=> c[s].set \/ new # <<>>

LEMMA OneMore ==
  ASSUME NEW S, NEW q \in Seq(S), NEW T, NEW items \in Seq(T), NEW k \in 1 .. Len(items)
  PROVE  /\ Append(q \o SubSeq(items, 1, k - 1), items[k]) = q \o SubSeq(items, 1, k)
         /\ SubSeq(items, 1, k) # <<>>
<1> DEFINE U == S \cup T
           a == SubSeq(items, 1, k - 1)
           b == SubSeq(items, 1, k)
           v == items[k]
           one == <<v>>
<1>1. Len(items) \in Nat
  BY LenProperties
<1>2. a \in Seq(T) /\ v \in T /\ b = a \o <<v>> /\ b \in Seq(T) /\ Len(b) = k
  <2>1. \A i \in 1 .. Len(items) : items[i] \in T
    BY ElementOfSeq
  <2>2. /\ \A i \in 1 .. k - 1 : items[i] \in T
        /\ \A i \in 1 .. k : items[i] \in T
        /\ 1 \in 1 .. Len(items) /\ k \in 1 .. Len(items) /\ k - 1 \in Int /\ k \in Int /\ 1 <= k
    BY <1>1, <2>1
  <2>3. a \in Seq(T) /\ b \in Seq(T) /\ Len(b) = k
    BY <2>2, SubSeqProperties
  <2>4. b = a \o <<v>>
    <3>1. 1 \in 1 .. Len(items) /\ k \in 1 .. Len(items)
      BY <2>2
    <3>2. QED
      BY <3>1, SubSeqRecursiveSecond
  <2>5. QED
    BY <2>2, <2>3, <2>4
<1> HIDE DEF a, b, v
<1>3. q \in Seq(U) /\ a \in Seq(U) /\ v \in U
  <2>1. S \subseteq U /\ T \subseteq U
    OBVIOUS
  <2> HIDE DEF U
  <2>2. QED
    BY <1>2, <2>1, SeqMonotonic
<1>4. one \in Seq(U)
  BY <1>3
<1> HIDE DEF U, one
<1>5. q \o a \in Seq(U)
  BY <1>3, Concat
<1>6. (q \o a) \o one = q \o (a \o one)
  BY SMTT(40), <1>3, <1>4, ConcatAssociative
<1>7. Append(q \o a, v) = (q \o a) \o one
  BY <1>3, <1>5, AppendIsConcat DEF one
<1>8. b # <<>>
  BY <1>2
<1>9. QED
  BY <1>2, <1>6, <1>7, <1>8 DEF a, b, v, one

-----------------------------------------------------------------------------
(* A packed array that is being read has room for n elements.              *)
Held(c, s, n) ==
  /\ Tidy(c) /\ s \in DOMAIN c /\ n \in Nat /\ Len(c[s].items) <= n
  /\ Len(c[s].items) < n => c[s].set /\ n <= c[s].room

(* The bytes fill it, with `more` to come, and have room for k in the end. *)
Fills(s, b, more, c, n, d, k) ==
  \A g \in Calls :
    Leading(Conf(b \o g.tail, Append(Callers(g), Filler(s, Len(b) + more, n)), 0, "none", c),
            Conf(g.tail, Append(Callers(g), Filler(s, more, k)), 0, "none", d))

LEMMA FillsNothing ==
  ASSUME NEW s, NEW more \in Nat, NEW c, NEW n
  PROVE  Fills(s, <<>>, more, c, n, c, n)
<1> SUFFICES ASSUME NEW g \in Calls
    PROVE Leading(Conf(<<>> \o g.tail, Append(Callers(g), Filler(s, Len(<<>>) + more, n)), 0, "none", c),
            Conf(g.tail, Append(Callers(g), Filler(s, more, n)), 0, "none", c))
  BY DEF Fills
<1>1. g.tail \in Seq(Byte)
  BY CallIs
<1>2. <<>> \o g.tail = g.tail /\ Len(<<>>) + more = more
  BY <1>1
<1>3. QED
  BY <1>2, LeadingNowhere

LEMMA FillsBoth ==
  ASSUME NEW s, NEW a \in Seq(Byte), NEW b \in Seq(Byte), NEW more \in Nat,
         NEW c, NEW n, NEW d, NEW j, NEW e, NEW k,
         Fills(s, a, Len(b) + more, c, n, d, j), Fills(s, b, more, d, j, e, k)
  PROVE  Fills(s, a \o b, more, c, n, e, k)
<1> SUFFICES ASSUME NEW g \in Calls
    PROVE Leading(Conf((a \o b) \o g.tail, Append(Callers(g), Filler(s, Len(a \o b) + more, n)), 0, "none", c),
            Conf(g.tail, Append(Callers(g), Filler(s, more, k)), 0, "none", e))
  BY DEF Fills
<1> DEFINE h == Later(g, b)
           tail == g.tail
<1>1. h \in Calls /\ h.tail = b \o tail /\ Callers(h) = Callers(g)
  <2>1. /\ h \in Calls /\ h.tail = b \o tail /\ h.base = g.base /\ h.left = g.left
        /\ \A i : ReaderOf(h, i) = ReaderOf(g, i)
    <3>1. <<>> \in Seq(Byte)
      OBVIOUS
    <3>2. QED
      BY <3>1, LaterIs
  <2> HIDE DEF h
  <2>2. QED
    BY <2>1 DEF Callers
<1>2. tail \in Seq(Byte)
  BY CallIs
<1>3. Leading(Conf(b \o tail, Append(Callers(g), Filler(s, Len(b) + more, j)), 0, "none", d),
              Conf(tail, Append(Callers(g), Filler(s, more, k)), 0, "none", e))
  BY DEF Fills
<1> HIDE DEF h, tail
<1>4. Leading(Conf(a \o (b \o tail), Append(Callers(g), Filler(s, Len(a) + (Len(b) + more), n)), 0, "none", c),
              Conf(b \o tail, Append(Callers(g), Filler(s, Len(b) + more, j)), 0, "none", d))
  BY <1>1 DEF Fills
<1>5. (a \o b) \o tail = a \o (b \o tail)
  BY <1>2, ConcatAssociative
<1>6. Len(a \o b) + more = Len(a) + (Len(b) + more)
  <2>1. Len(a \o b) = Len(a) + Len(b)
    BY Concat
  <2>2. Len(a) \in Nat /\ Len(b) \in Nat
    BY LenProperties
  <2>3. QED
    BY <2>1, <2>2
<1>7. QED
  BY <1>3, <1>4, <1>5, <1>6, LeadingOn DEF tail

(* One element.                                                            *)
Accepts(s, v, b, more, c, n, d, k) ==
  /\ Held(d, s, k) /\ Fills(s, b, more, c, n, d, k)
  /\ DOMAIN d = DOMAIN c /\ d[s].items = Append(c[s].items, v) /\ d[s].set
  /\ \A t \in DOMAIN c : t # s => d[t] = c[t]

LEMMA ItemFills ==
  ASSUME NEW s \in Place, s.field.kind \in Numeric,
         NEW v \in ValuesOf(s.field.kind),
         NEW more \in Nat, NEW c, NEW n, Held(c, s, n),
         NEW b, b = pb_encode_varint[Written(s.field.kind, v)]
  PROVE  b \in Seq(Byte) /\ \E d, k : Accepts(s, v, b, more, c, n, d, k)
<1> DEFINE left == Len(b) + more
           room == NextRoom(left, n)
           k == IF Crowded(c, s, n) THEN room ELSE n
           r == IF Crowded(c, s, n) THEN room ELSE c[s].room
           w == Holding(Append(c[s].items, v), r)
           d == PackedMore(c, s, v, left, n)
           l == Len(c[s].items)
<1>1. b \in Seq(Byte) /\ Len(b) >= 1
  <2>1. Written(s.field.kind, v) \in Nat
    BY WrittenType
  <2>2. b \in Seq(Byte) /\ <<>> \in Seq(Byte) /\ b \o <<>> = b
    BY <2>1, EncodingIs, NothingAfter
  <2>3. ReadsBack(s.field.kind, v)
    BY KindsArrive
  <2>4. Scalar(s.field.kind, b) = [ok |-> TRUE, n |-> v, took |-> Len(b)]
    BY <2>2, <2>3 DEF ReadsBack
  <2>5. Scalar(s.field.kind, b).ok /\ Scalar(s.field.kind, b).took = Len(b)
    BY <2>4
  <2>6. Len(b) \in 1 .. Len(b)
    BY <2>2, <2>5, ScalarInside
  <2>7. QED
    BY <2>2, <2>6, LenProperties
<1>2. Len(b) \in Nat
  BY <1>1, LenProperties
<1>3. /\ Tidy(c) /\ s \in DOMAIN c /\ n \in Nat /\ l <= n
      /\ (l < n => c[s].set /\ n <= c[s].room)
  BY DEF Held
<1>4. IsCell(c[s])
  BY <1>3, TidyIs
<1>5. l \in Nat /\ c[s].room \in Nat
  BY <1>4, CellIs
<1>6. room \in Nat /\ room >= n + 1
  <2>1. ItemSize \in Nat \ {0}
    BY ItemAssumption
  <2> DEFINE x == left - 1
  <2>2. x \in Nat
    BY <1>1, <1>2
  <2>3. room = n + (x \div ItemSize + 1)
    BY DEF NextRoom
  <2> HIDE DEF x
  <2>4. x \div ItemSize \in Nat
    BY <2>1, <2>2
  <2>5. QED
    BY <1>3, <2>3, <2>4
<1> HIDE DEF room
<1>7. Crowded(c, s, n) <=> l = n
  BY <1>3, <1>5 DEF Crowded
<1>8. r \in Nat /\ k \in Nat /\ l + 1 <= k /\ k <= r
  BY <1>3, <1>5, <1>6, <1>7
<1>9. d = [c EXCEPT ![s] = w]
  BY DEF PackedMore, room
<1> HIDE DEF r, k, d
<1>10. IsCell(w) /\ Len(w.items) = l + 1 /\ w.set /\ w.room = r
  BY <1>4, <1>8, CellAppended
<1>11. w.items = Append(c[s].items, v)
  BY DEF Holding
<1> HIDE DEF w, l
<1>12. Tidy(d) /\ DOMAIN d = DOMAIN c /\ d[s] = w /\ \A t \in DOMAIN c : t # s => d[t] = c[t]
  <2>1. s.field.kind # "message"
    BY DEF Numeric
  <2>2. w.set /\ Len(w.items) <= w.room
    BY <1>8, <1>10, <1>5
  <2>3. QED
    BY <1>3, <1>9, <1>10, <2>1, <2>2, TidyStores
<1>13. Held(d, s, k)
  BY <1>3, <1>5, <1>8, <1>10, <1>12 DEF Held, l
<1>14. Fills(s, b, more, c, n, d, k)
  <2> SUFFICES ASSUME NEW g \in Calls
      PROVE Leading(Conf(b \o g.tail, Append(Callers(g), Filler(s, Len(b) + more, n)), 0, "none", c),
              Conf(g.tail, Append(Callers(g), Filler(s, more, k)), 0, "none", d))
    BY DEF Fills
  <2> DEFINE x == Conf(b \o g.tail, Append(Callers(g), Filler(s, Len(b) + more, n)), 0, "none", c)
             y == Conf(g.tail, Append(Callers(g), Filler(s, more, k)), 0, "none", d)
  <2>1. ReadsItem(x, y)
    BY <1>3 DEF ReadsItem, Callers, k, d, room
  <2> HIDE DEF x, y
  <2>2. Leading(x, y)
    BY <2>1, LeadingOnce DEF Follows
  <2>3. QED
    BY <2>2 DEF x, y
<1>15. Accepts(s, v, b, more, c, n, d, k)
  BY <1>10, <1>11, <1>12, <1>13, <1>14 DEF Accepts
<1>16. QED
  BY <1>1, <1>15

-----------------------------------------------------------------------------
Grows(kind, b, new) ==
  \A s \in Place, more \in Nat : \A c, n :
    s.field.kind = kind /\ Held(c, s, n)
      => \E d, j : Held(d, s, j) /\ Extends(c, d, s, new) /\ Fills(s, b, more, c, n, d, j)

LEMMA GrowsNothing ==
  ASSUME NEW kind
  PROVE  Grows(kind, <<>>, <<>>)
<1> SUFFICES ASSUME NEW s \in Place, NEW more \in Nat, NEW c, NEW n, Held(c, s, n)
             PROVE  Extends(c, c, s, <<>>) /\ Fills(s, <<>>, more, c, n, c, n)
  BY DEF Grows
<1>1. Tidy(c) /\ s \in DOMAIN c
  BY DEF Held
<1>2. IsCell(c[s])
  BY <1>1, TidyIs
<1>3. c[s].items \o <<>> = c[s].items /\ c[s].set \in BOOLEAN
  BY <1>2, CellIs
<1>4. Extends(c, c, s, <<>>)
  BY <1>1, <1>3 DEF Extends
<1>5. Fills(s, <<>>, more, c, n, c, n)
  BY FillsNothing
<1>6. QED
  BY <1>4, <1>5

LEMMA GrowsOn ==
  ASSUME NEW kind \in Numeric, NEW items \in Seq(Int), NEW k \in 1 .. Len(items),
         items[k] \in ValuesOf(kind), NEW b \in Seq(Byte), Grows(kind, b, SubSeq(items, 1, k - 1))
  PROVE  LET e == pb_encode_varint[Written(kind, items[k])]
         IN  e \in Seq(Byte) /\ Grows(kind, b \o e, SubSeq(items, 1, k))
<1> DEFINE v == items[k]
           e == pb_encode_varint[Written(kind, v)]
           old == SubSeq(items, 1, k - 1)
           new == SubSeq(items, 1, k)
<1>1. e \in Seq(Byte)
  <2>1. Written(kind, v) \in Nat
    BY WrittenType
  <2>2. QED
    BY <2>1, EncodingIs
<1>2. \A S : \A q \in Seq(S) : Append(q \o old, v) = q \o new /\ new # <<>>
  BY OneMore
<1>3. v \in ValuesOf(kind) /\ Grows(kind, b, old)
  OBVIOUS
<1> HIDE DEF v, old, new
<1>4. ASSUME NEW s \in Place, NEW more \in Nat, NEW c, NEW n, s.field.kind = kind, Held(c, s, n)
      PROVE  \E d, j : Held(d, s, j) /\ Extends(c, d, s, new) /\ Fills(s, b \o e, more, c, n, d, j)
  <2> DEFINE m == Len(e) + more
  <2>1. m \in Nat
    BY <1>1, LenProperties
  <2> HIDE DEF m
  <2>2. PICK d, j : Held(d, s, j) /\ Extends(c, d, s, old) /\ Fills(s, b, m, c, n, d, j)
    BY <1>3, <1>4, <2>1 DEF Grows
  <2>3. PICK f, l : Accepts(s, v, e, more, d, j, f, l)
    <3>1. s.field.kind \in Numeric /\ v \in ValuesOf(s.field.kind) /\ Held(d, s, j)
      BY <1>3, <1>4, <2>2
    <3>2. e = pb_encode_varint[Written(s.field.kind, v)]
      BY <1>4
    <3> HIDE DEF e
    <3>3. QED
      BY <3>1, <3>2, ItemFills
  <2> HIDE DEF e
  <2>4. Fills(s, b \o e, more, c, n, f, l)
    BY <1>1, <2>2, <2>3, FillsBoth DEF m, Accepts
  <2>5. Append(c[s].items \o old, v) = c[s].items \o new /\ new # <<>>
    <3>1. IsCell(c[s])
      BY <1>4, TidyIs DEF Held
    <3>2. PICK S : c[s] \in [set : BOOLEAN, items : Seq(S), room : Nat]
      BY <3>1 DEF IsCell
    <3>3. QED
      BY <1>2, <3>2
  <2>6. Extends(c, f, s, new)
    BY <2>2, <2>3, <2>5 DEF Extends, Accepts
  <2>7. QED
    BY <2>3, <2>4, <2>6 DEF Accepts
<1>5. Grows(kind, b \o e, new)
  <2> HIDE DEF e
  <2>1. QED
    BY <1>4 DEF Grows
<1>6. QED
  BY <1>1, <1>5 DEF e, v, new

LEMMA PackedFills ==
  ASSUME NEW kind \in Numeric, NEW items \in Seq(Int),
         \A i \in 1 .. Len(items) : items[i] \in ValuesOf(kind)
  PROVE  \E body \in Seq(Byte) :
           Grows(kind, body, items) /\ \A s \in Usable : Adds(s, body, EncodeItems(s, kind, items))
<1> DEFINE N == Len(items)
           w == [i \in DOMAIN items |-> [s \in Stream |-> EncodeScalar(s, kind, items[i])]]
           Good(k, b) == Grows(kind, b, SubSeq(items, 1, k))
           good == [k \in 0 .. N |-> {b \in Seq(Byte) : Good(k, b)}]
<1>1. N \in Nat /\ DOMAIN items = 1 .. N /\ \A i \in 1 .. N : items[i] \in Int
  BY LenProperties
<1>2. DOMAIN w = 1 .. N /\ \A i \in 1 .. N : w[i] = [s \in Stream |-> EncodeScalar(s, kind, items[i])]
  BY <1>1
<1>3. \A s : EncodeItems(s, kind, items) = WriteEach(s, w)
  BY DEF EncodeItems
<1>4. SubSeq(items, 1, 0) = <<>> /\ SubSeq(items, 1, N) = items
  BY SubSeqEmpty, SubSeqFull
<1> HIDE DEF w
<1>5. \A k \in 0 .. N : good[k] = {b \in Seq(Byte) : Good(k, b)}
  BY <1>1
<1>6. Good(0, <<>>)
  BY <1>4, GrowsNothing
<1>7. ASSUME NEW k \in 1 .. N, NEW b \in Seq(Byte), Good(k - 1, b)
      PROVE  \E c \in Seq(Byte) : Writes(w[k], c) /\ Good(k, b \o c)
  <2> DEFINE e == pb_encode_varint[Written(kind, items[k])]
  <2>1. e \in Seq(Byte) /\ Good(k, b \o e)
    BY <1>7, GrowsOn
  <2>2. ASSUME NEW s \in Usable PROVE Adds(s, e, w[k][s])
    <3>1. s \in Stream
      BY StreamIs
    <3>2. w[k][s] = EncodeScalar(s, kind, items[k])
      BY <1>2, <3>1
    <3>3. QED
      BY <1>1, <3>2, ScalarAdds
  <2> HIDE DEF e, Good
  <2>3. QED
    BY <2>1, <2>2 DEF Writes
<1> HIDE DEF Good, good, N
<1>8. <<>> \in good[0] /\ \A k \in 0 .. N : good[k] \subseteq Seq(Byte)
  <2>1. 0 \in 0 .. N /\ <<>> \in Seq(Byte)
    BY <1>1
  <2>2. QED
    BY <1>5, <1>6, <2>1
<1>9. ASSUME NEW k \in 1 .. N, NEW b \in good[k - 1]
      PROVE  \E c \in Seq(Byte) : Writes(w[k], c) /\ b \o c \in good[k]
  <2>1. k - 1 \in 0 .. N /\ k \in 0 .. N
    BY <1>1
  <2>2. b \in Seq(Byte) /\ Good(k - 1, b)
    BY <1>5, <2>1
  <2>3. PICK c \in Seq(Byte) : Writes(w[k], c) /\ Good(k, b \o c)
    BY <1>7, <2>2
  <2>4. b \o c \in Seq(Byte)
    BY <2>2, Concat
  <2>5. QED
    BY <1>5, <2>1, <2>3, <2>4
<1>10. PICK body \in good[N] : \A s \in Usable : Adds(s, body, WriteEach(s, w))
  BY <1>1, <1>2, <1>8, <1>9, EachWrites
<1>11. body \in Seq(Byte) /\ Good(N, body)
  <2>1. N \in 0 .. N
    BY <1>1
  <2>2. QED
    BY <1>5, <2>1
<1>12. QED
  BY <1>3, <1>4, <1>10, <1>11 DEF Good

(* A packed array.                                                         *)
LEMMA PackedLeaps ==
  ASSUME NEW m \in Message, NEW path \in Path, NEW f \in FieldsOf(m),
         f.shape = "repeated", f.kind \in Numeric, NEW items, NEW body \in Seq(Byte),
         Grows(f.kind, body, items), Len(body) \in Lengths,
         NEW c, Tidy(c), Slot(path, f) \in DOMAIN c
  PROVE  \E d : Tidy(d) /\ Extends(c, d, Slot(path, f), items) /\ Leaps(m, path, Sent(f, body), c, d)
<1> DEFINE s == Slot(path, f)
           n == Len(c[s].items)
<1>1. s \in Place /\ s.field = f
  <2>1. f \in Field
    BY FieldOfMessage
  <2>2. QED
    BY <2>1 DEF Slot, Place
<1>2. IsCell(c[s])
  BY TidyIs
<1>3. n \in Nat
  BY <1>2, CellIs
<1>4. Held(c, s, n)
  BY <1>3 DEF Held
<1> HIDE DEF s, n
<1>5. PICK d, j : Held(d, s, j) /\ Extends(c, d, s, items) /\ Fills(s, body, 0, c, n, d, j)
  BY <1>1, <1>4 DEF Grows
<1>6. ASSUME NEW g \in Calls, g.message = m, g.path = path
      PROVE  Leading(Before(g, Sent(f, body), 0, c), After(g, 0, d))
  <2> DEFINE h == Later(g, body)
             l == Len(body)
             x == Outside(h, pb_encode_varint[l], l, 8 * f.tag + 2, c)
             y == Inside(h, Filler(s, l, n), c)
             tail == g.tail
             base == Callers(g)
             z == Conf(tail, Append(base, Filler(s, 0, j)), 0, "none", d)
  <2>1. /\ h \in Calls /\ h.message = m /\ h.path = path /\ h.tail = body \o tail
        /\ h.base = g.base /\ h.left = g.left /\ \A i : ReaderOf(h, i) = ReaderOf(g, i)
    <3>1. <<>> \in Seq(Byte)
      OBVIOUS
    <3>2. QED
      BY <1>6, <3>1, LaterIs
  <2>2. Leading(Before(g, Sent(f, body), 0, c), x)
    BY <1>6, SentLeads
  <2>3. Follows(x, y)
    <3> HIDE DEF h, l
    <3>1. l \in Lengths
      BY DEF l
    <3>2. OpensPacked(x, y)
      BY <2>1, <3>1 DEF OpensPacked, s, n
    <3>3. QED
      BY <3>2 DEF Follows
  <2>4. y = Conf(body \o tail, Append(base, Filler(s, l + 0, n)), 0, "none", c)
    <3>1. l + 0 = l
      BY LenProperties
    <3> HIDE DEF h, l, tail
    <3>2. QED
      BY <2>1, <3>1 DEF Inside, Callers
  <2>5. Leading(y, z)
    BY <1>5, <2>4 DEF Fills
  <2>6. base \in Seq(Frame) \ {<<>>} /\ tail \in Seq(Byte)
    BY CallersAre, CallIs
  <2>7. Filler(s, 0, j) \in Emptied
    <3>1. j \in Nat
      BY <1>5 DEF Held
    <3>2. Filler(s, 0, j) \in Frame
      BY <1>1, <3>1, FillerIs
    <3>3. QED
      BY <3>2, FillerIs DEF Emptied, Filler
  <2> HIDE DEF x, y, base, tail, z
  <2>8. Leading(z, Conf(tail, base, 0, "none", d))
    BY <2>6, <2>7, EndLeads DEF z
  <2>9. After(g, 0, d) = Conf(tail, base, 0, "none", d)
    BY DEF After, Callers, tail, base
  <2>10. Leading(x, y)
    BY <2>3, LeadingOnce
  <2>11. Leading(x, z)
    BY <2>5, <2>10, LeadingOn
  <2>12. Leading(x, After(g, 0, d))
    BY <2>8, <2>9, <2>11, LeadingOn
  <2>13. QED
    BY <2>2, <2>12, LeadingOn
<1>7. Leaps(m, path, Sent(f, body), c, d)
  BY <1>6 DEF Leaps
<1>8. Tidy(d)
  BY <1>5 DEF Held
<1>9. QED
  BY <1>5, <1>7, <1>8 DEF s

-----------------------------------------------------------------------------
(* A place is where a slot is, seen from a structure: the message that is  *)
(* sent and the one that is read have the same places, an element of an    *)
(* array that is in the message twice apart.                               *)
Below(path, x) == Slot(path \o x.path, x.field)
Under(f, i, y) == Slot(Step(f, i) \o y.path, y.field)
Alone(f) == Slot(<<>>, f)
HeadOf(x) == IF x.path = <<>> THEN x.field ELSE x.path[1].field
Parts(f) == {x \in Place : HeadOf(x) = f}

LEMMA PlaceHas ==
  ASSUME NEW x \in Place
  PROVE  x = Slot(x.path, x.field) /\ x.path \in Path /\ x.path \in Seq(Hop) /\ x.field \in Field
         /\ Len(x.path) \in Nat /\ DOMAIN x.path = 1 .. Len(x.path)
<1> DEFINE p == x.path
<1>1. p \in Seq(Hop)
  BY DEF Place, Path, Hop
<1>2. x = Slot(x.path, x.field) /\ x.path \in Path /\ x.field \in Field
  BY DEF Place, Slot
<1> HIDE DEF p
<1>3. Len(p) \in Nat /\ DOMAIN p = 1 .. Len(p)
  BY <1>1, LenProperties
<1>4. QED
  BY <1>1, <1>2, <1>3 DEF p

LEMMA StepIs ==
  ASSUME NEW f \in Field, NEW i \in Nat
  PROVE  Step(f, i) \in Seq(Hop) /\ Len(Step(f, i)) = 1 /\ Step(f, i)[1] = [field |-> f, item |-> i]
BY DEF Step, Hop

LEMMA AloneIs ==
  ASSUME NEW f \in Field, NEW path \in Path
  PROVE  Alone(f) \in Parts(f) /\ Below(path, Alone(f)) = Slot(path, f)
<1>1. path \o <<>> = path
  BY ConcatEmptySeq DEF Path
<1>2. <<>> \in Path
  BY EmptySeq DEF Path
<1>3. QED
  BY <1>1, <1>2 DEF Alone, Below, Slot, Parts, Place, HeadOf

LEMMA UnderIs ==
  ASSUME NEW f \in Field, NEW i \in Nat, NEW y \in Place
  PROVE  /\ Under(f, i, y) \in Parts(f) /\ Under(f, i, y).field = y.field
         /\ InPlace(Under(f, i, y).path) <=> i = 0 /\ InPlace(y.path)
<1> DEFINE s == Step(f, i)
           p == y.path
           q == s \o p
           u == Under(f, i, y)
<1>1. s \in Seq(Hop) /\ Len(s) = 1 /\ s[1] = [field |-> f, item |-> i]
  BY StepIs
<1>2. p \in Seq(Hop) /\ Len(p) \in Nat /\ DOMAIN p = 1 .. Len(p) /\ y.field \in Field
  BY PlaceHas
<1>3. u.path = q /\ u.field = y.field /\ u = Slot(q, y.field)
  BY DEF Under, Slot
<1>4. p = y.path
  OBVIOUS
<1> HIDE DEF s, p
<1>5. q \in Seq(Hop) /\ DOMAIN q = 1 .. 1 + Len(p)
      /\ \A j \in 1 .. 1 + Len(p) : q[j] = IF j <= 1 THEN s[j] ELSE p[j - 1]
  <2>1. q \in Seq(Hop) /\ DOMAIN q = 1 .. Len(s) + Len(p)
        /\ \A j \in 1 .. Len(s) + Len(p) : q[j] = IF j <= Len(s) THEN s[j] ELSE p[j - Len(s)]
    BY <1>1, <1>2, Concat, ZenonT(60)
  <2> HIDE DEF q
  <2>2. QED
    BY <1>1, <2>1
<1> HIDE DEF q, u
<1>6. 1 \in 1 .. 1 + Len(p)
  BY <1>2
<1>7. q[1].field = f /\ q[1].item = i
  BY <1>1, <1>5, <1>6
<1>8. q # <<>>
  BY <1>5, <1>6
<1>9. u \in Parts(f)
  BY <1>2, <1>3, <1>5, <1>7, <1>8 DEF Parts, Place, Path, Hop, Slot, HeadOf
<1>10. InPlace(q) <=> i = 0 /\ InPlace(p)
  <2>1. ASSUME InPlace(q) PROVE i = 0 /\ InPlace(p)
    <3>1. ASSUME NEW j \in 1 .. Len(p) PROVE p[j].item = 0
      <4>1. j + 1 \in 1 .. 1 + Len(p) /\ ~(j + 1 <= 1) /\ (j + 1) - 1 = j
        BY <1>2
      <4>2. q[j + 1] = p[j]
        BY <1>5, <4>1
      <4>3. QED
        BY <1>5, <2>1, <4>1, <4>2 DEF InPlace
    <3>2. QED
      BY <1>2, <1>5, <1>6, <1>7, <2>1, <3>1 DEF InPlace
  <2>2. ASSUME i = 0, InPlace(p) PROVE InPlace(q)
    <3>1. ASSUME NEW j \in 1 .. 1 + Len(p) PROVE q[j].item = 0
      <4>1. CASE j = 1
        BY <1>7, <2>2, <4>1
      <4>2. CASE j # 1
        <5>1. j - 1 \in 1 .. Len(p) /\ ~(j <= 1)
          BY <1>2, <4>2
        <5>2. QED
          BY <1>2, <1>5, <2>2, <5>1 DEF InPlace
      <4>3. QED
        BY <4>1, <4>2
    <3>2. QED
      BY <1>5, <3>1 DEF InPlace
  <2>3. QED
    BY <2>1, <2>2
<1>11. QED
  BY <1>3, <1>4, <1>9, <1>10 DEF u

LEMMA BelowUnder ==
  ASSUME NEW f \in Field, NEW i \in Nat, NEW y \in Place, NEW path \in Path
  PROVE  Below(path, Under(f, i, y)) = Below(path \o Step(f, i), y)
<1> DEFINE s == Step(f, i)
           p == y.path
<1>1. s \in Seq(Hop) /\ p \in Seq(Hop) /\ path \in Seq(Hop)
  BY StepIs, PlaceHas DEF Path, Hop
<1>2. Below(path, Under(f, i, y)) = Slot(path \o (s \o p), y.field)
  BY DEF Below, Under, Slot
<1>3. Below(path \o s, y) = Slot((path \o s) \o p, y.field)
  BY DEF Below
<1> HIDE DEF s, p
<1>4. path \o (s \o p) = (path \o s) \o p
  BY SMTT(40), <1>1, ConcatAssociative
<1>5. QED
  BY <1>2, <1>3, <1>4 DEF s

LEMMA CancelLeft ==
  ASSUME NEW S, NEW a \in Seq(S), NEW b \in Seq(S), NEW c \in Seq(S), a \o b = a \o c
  PROVE  b = c
<1>1. \A T : \A s, t, v \in Seq(T) : s \o t = s \o v => t = v
  BY ConcatSimplifications
<1>2. QED
  BY <1>1

LEMMA BelowDiffers ==
  ASSUME NEW path \in Path, NEW x \in Place, NEW y \in Place, Below(path, x) = Below(path, y)
  PROVE  x = y
<1> DEFINE p == x.path
           q == y.path
<1>1. p \in Seq(Hop) /\ q \in Seq(Hop) /\ path \in Seq(Hop)
  BY PlaceHas DEF Path, Hop
<1>2. path \o p = path \o q /\ x.field = y.field
  BY DEF Below, Slot
<1> HIDE DEF p, q
<1>3. p = q
  BY <1>1, <1>2, CancelLeft
<1>4. x = Slot(x.path, x.field) /\ y = Slot(y.path, y.field)
  BY PlaceHas
<1>5. QED
  BY <1>2, <1>3, <1>4 DEF p, q

LEMMA UnderDiffers ==
  ASSUME NEW f \in Field, NEW i \in Nat, NEW y \in Place
  PROVE  /\ Under(f, i, y) # Alone(f)
         /\ \A j \in Nat, z \in Place : Under(f, i, y) = Under(f, j, z) => i = j /\ y = z
<1>1. ASSUME NEW j \in Nat, NEW z \in Place
      PROVE  Under(f, j, z).path[1] = [field |-> f, item |-> j] /\ Under(f, j, z).path # <<>>
  <2> DEFINE s == Step(f, j)
             p == z.path
             q == s \o p
  <2>1. s \in Seq(Hop) /\ Len(s) = 1 /\ s[1] = [field |-> f, item |-> j]
    BY StepIs
  <2>2. p \in Seq(Hop) /\ Len(p) \in Nat
    BY PlaceHas
  <2>3. Under(f, j, z).path = q
    BY DEF Under, Slot
  <2> HIDE DEF s, p
  <2>4. Len(q) = 1 + Len(p) /\ \A k \in 1 .. 1 + Len(p) : q[k] = IF k <= 1 THEN s[k] ELSE p[k - 1]
    <3>1. Len(q) = Len(s) + Len(p)
          /\ \A k \in 1 .. Len(s) + Len(p) : q[k] = IF k <= Len(s) THEN s[k] ELSE p[k - Len(s)]
      BY <2>1, <2>2, Concat
    <3> HIDE DEF q
    <3>2. QED
      BY <2>1, <3>1
  <2> HIDE DEF q
  <2>5. 1 \in 1 .. 1 + Len(p) /\ Len(q) # 0
    BY <2>2, <2>4
  <2>6. QED
    BY <2>1, <2>3, <2>4, <2>5
<1>2. Under(f, i, y) # Alone(f)
  <2>1. Under(f, i, y).path # <<>> /\ Alone(f).path = <<>>
    BY <1>1 DEF Alone, Slot
  <2>2. QED
    BY <2>1
<1>3. ASSUME NEW j \in Nat, NEW z \in Place, Under(f, i, y) = Under(f, j, z) PROVE i = j /\ y = z
  <2>1. i = j
    <3>1. [field |-> f, item |-> i] = [field |-> f, item |-> j]
      BY <1>1, <1>3
    <3>2. QED
      BY <3>1
  <2>2. Step(f, i) \in Path
    BY StepIs DEF Path, Hop
  <2>3. Below(Step(f, i), y) = Below(Step(f, i), z)
    BY <1>3, <2>1 DEF Under, Below
  <2>4. QED
    BY <2>1, <2>2, <2>3, BelowDiffers
<1>4. QED
  BY <1>2, <1>3

LEMMA PartIs ==
  ASSUME NEW f \in Field, NEW x \in Parts(f), x.path # <<>>
  PROVE  /\ x.path[1].item \in Nat
         /\ \E y \in Place : x = Under(f, x.path[1].item, y)
<1> DEFINE p == x.path
           h == p[1]
           i == h.item
           q == Tail(p)
           y == Slot(q, x.field)
           s == Step(f, i)
<1>1. p \in Seq(Hop) /\ x.field \in Field /\ x = Slot(p, x.field) /\ h.field = f /\ p # <<>>
  BY PlaceHas DEF Parts, HeadOf
<1> HIDE DEF p
<1>2. h \in Hop /\ q \in Seq(Hop) /\ Head(p) = h
      /\ Len(q) = Len(p) - 1 /\ \A k \in 1 .. Len(q) : q[k] = p[k + 1]
  BY <1>1, TailType, HeadTailProperties
<1>3. i \in Nat /\ h = [field |-> f, item |-> i]
  BY <1>1, <1>2 DEF Hop
<1>4. Len(p) \in Nat /\ Len(q) \in Nat /\ DOMAIN p = 1 .. Len(p)
  BY <1>1, <1>2, LenProperties
<1>5. s \in Seq(Hop) /\ Len(s) = 1 /\ s[1] = [field |-> f, item |-> i]
  BY <1>3, StepIs
<1>6. p = s \o q
  <2> HIDE DEF q, s, i, h
  <2>1. s \o q \in Seq(Hop) /\ Len(s \o q) = 1 + Len(q)
        /\ \A k \in 1 .. 1 + Len(q) : (s \o q)[k] = IF k <= 1 THEN s[k] ELSE q[k - 1]
    BY <1>2, <1>5, Concat
  <2>2. Len(s \o q) = Len(p)
    BY <1>2, <1>4, <2>1
  <2>3. ASSUME NEW k \in 1 .. Len(p) PROVE p[k] = (s \o q)[k]
    <3>1. k \in 1 .. 1 + Len(q)
      BY <1>2, <1>4
    <3>2. CASE k = 1
      BY <1>3, <1>5, <2>1, <3>1, <3>2 DEF h
    <3>3. CASE k # 1
      <4>1. k - 1 \in 1 .. Len(q) /\ (k - 1) + 1 = k /\ ~(k <= 1)
        BY <1>2, <1>4, <3>3
      <4>2. q[k - 1] = p[k]
        BY <1>2, <4>1
      <4>3. QED
        BY <2>1, <3>1, <4>1, <4>2
    <3>4. QED
      BY <3>2, <3>3
  <2> DEFINE r == s \o q
  <2>4. r \in Seq(Hop) /\ Len(p) = Len(r) /\ \A k \in 1 .. Len(p) : p[k] = r[k]
    BY <2>1, <2>2, <2>3
  <2> HIDE DEF r
  <2>5. p = r
    BY <1>1, <2>4, SeqEqual
  <2>6. QED
    BY <2>5 DEF r
<1>7. y \in Place
  BY <1>1, <1>2 DEF Slot, Place, Path, Hop
<1>8. x = Under(f, i, y)
  BY <1>1, <1>6 DEF Under, Slot
<1> HIDE DEF y, s, q
<1>9. i = x.path[1].item
  BY DEF p
<1>10. QED
  BY <1>3, <1>7, <1>8, <1>9

-----------------------------------------------------------------------------
(* A slot has not been written, or the value v has come t times.           *)
Matches(t, v, s, x, c) ==
  IF t = 0 THEN s \in DOMAIN c => c[s] = Null
  ELSE /\ s \in DOMAIN c /\ c[s].set = v.set
       /\ v.set => c[s].items = IF x.field.shape = "repeated" /\ InPlace(x.path)
                                THEN Times(v.items, t) ELSE v.items

(* So has what src has below q, at the places X of the structure at path.  *)
Stage(t, src, q, path, X, c) ==
  \A x \in X : Below(q, x) \in DOMAIN src =>
    Matches(t, src[Below(q, x)], Below(path, x), x, c)

(* Nothing but these places has changed.                                   *)
Only(path, X, c, d) ==
  /\ DOMAIN c \subseteq DOMAIN d
  /\ \A s \in DOMAIN d : (\A x \in X : s # Below(path, x)) => s \in DOMAIN c /\ d[s] = c[s]

Ready(m, path, c) == Tidy(c) /\ Structure(m, path) \subseteq DOMAIN c

LEMMA MatchesStill ==
  ASSUME NEW t, NEW v, NEW s, NEW x, NEW c, NEW d, Matches(t, v, s, x, c),
         DOMAIN c \subseteq DOMAIN d, s \in DOMAIN d => s \in DOMAIN c /\ d[s] = c[s]
  PROVE  Matches(t, v, s, x, d)
<1>1. CASE t = 0
  BY <1>1 DEF Matches
<1>2. CASE t # 0
  BY <1>2 DEF Matches
<1>3. QED
  BY <1>1, <1>2

LEMMA StageStays ==
  ASSUME NEW t, NEW src, NEW q, NEW path \in Path, NEW X \in SUBSET Place, NEW Y \in SUBSET Place,
         \A x \in X : x \notin Y, NEW c, NEW d, Only(path, X, c, d), Stage(t, src, q, path, Y, c)
  PROVE  Stage(t, src, q, path, Y, d)
<1> SUFFICES ASSUME NEW y \in Y, Below(q, y) \in DOMAIN src
             PROVE  Matches(t, src[Below(q, y)], Below(path, y), y, d)
  BY DEF Stage
<1> DEFINE s == Below(path, y)
           v == src[Below(q, y)]
<1>1. Matches(t, v, s, y, c)
  BY DEF Stage
<1>2. \A x \in X : s # Below(path, x)
  BY BelowDiffers
<1> HIDE DEF s, v
<1>3. DOMAIN c \subseteq DOMAIN d /\ (s \in DOMAIN d => s \in DOMAIN c /\ d[s] = c[s])
  BY <1>2 DEF Only
<1>4. Matches(t, v, s, y, d)
  BY <1>1, <1>3, MatchesStill
<1>5. QED
  BY <1>4 DEF s, v

LEMMA OnlyBoth ==
  ASSUME NEW path, NEW X, NEW Y, Y \subseteq X, NEW c, NEW d, NEW e,
         Only(path, X, c, d), Only(path, Y, d, e)
  PROVE  Only(path, X, c, e)
BY DEF Only

LEMMA OnlyNothing ==
  ASSUME NEW path, NEW X, NEW c
  PROVE  Only(path, X, c, c)
BY DEF Only

(* Nothing is in an element of an array that is not there yet.             *)
LEMMA NothingYetBelow ==
  ASSUME NEW c, Tidy(c), NEW path \in Path, NEW f \in Field,
         f.kind = "message", Behind(f), Slot(path, f) \in DOMAIN c,
         NEW n \in Nat, n > Len(c[Slot(path, f)].items), NEW y \in Place
  PROVE  Below(path \o Step(f, n), y) \notin DOMAIN c
<1> DEFINE q == path \o Step(f, n)
           l == y.path
           p == q \o l
           k == Len(path) + 1
<1> SUFFICES ASSUME Below(q, y) \in DOMAIN c PROVE FALSE
  OBVIOUS
<1>1. /\ q \in Seq(Hop) /\ Len(q) = k
      /\ q[k] = [field |-> f, item |-> n]
      /\ SubSeq(q, 1, k - 1) = path /\ k \in Nat /\ k - 1 \in 0 .. k /\ k \in 1 .. k
  <2>1. /\ q \in Path /\ Len(q) = k
        /\ q[k] = [field |-> f, item |-> n]
        /\ SubSeq(q, 1, k - 1) = SubSeq(path, 1, k - 1)
        /\ Len(path) \in Nat /\ SubSeq(path, 1, Len(path)) = path
    <3>1. k \in 1 .. k
      BY StepOnto
    <3>2. QED
      BY <3>1, StepOnto
  <2>2. k - 1 = Len(path) /\ k \in Nat /\ k - 1 \in 0 .. k /\ k \in 1 .. k
    BY <2>1
  <2>3. QED
    BY <2>1, <2>2 DEF Path, Hop
<1>2. l \in Seq(Hop) /\ Len(l) \in Nat
  BY PlaceHas
<1>3. Below(q, y) = Slot(p, y.field)
  BY DEF Below
<1> HIDE DEF q, k, l
<1>4. /\ k \in DOMAIN p /\ p[k] = q[k]
  <2>1. /\ DOMAIN p = 1 .. Len(q) + Len(l)
        /\ \A i \in 1 .. Len(q) + Len(l) : p[i] = IF i <= Len(q) THEN q[i] ELSE l[i - Len(q)]
    BY <1>1, <1>2, Concat
  <2>2. k \in 1 .. Len(q) + Len(l) /\ k <= Len(q)
    BY <1>1, <1>2
  <2>3. QED
    BY <2>1, <2>2
<1>5. SubSeq(p, 1, k - 1) = path
  <2>1. SubSeq(p, 1, k - 1) = SubSeq(q, 1, k - 1)
    BY <1>1, <1>2, PrefixOfConcat
  <2>2. QED
    BY <1>1, <2>1
<1> HIDE DEF p
<1>6. Rooted(p, c)
  BY <1>3, TidyIs DEF Slot
<1>7. n <= Len(c[Slot(path, f)].items)
  <2>1. p[k].field = f /\ p[k].item = n
    BY <1>1, <1>4
  <2>2. Holder(p, k) = Slot(path, f)
    BY <1>5, <2>1 DEF Holder
  <2>3. QED
    BY <1>4, <1>6, <2>1, <2>2 DEF Rooted
<1>8. Len(c[Slot(path, f)].items) \in Nat
  BY TidyIs, CellIs
<1>9. QED
  BY <1>7, <1>8

-----------------------------------------------------------------------------
(* What a message the application has made has below a structure of it.    *)
LEMMA SourceParts ==
  ASSUME NEW src, InMemory(src, Root), Made(src, Root), NEW q \in Path,
         NEW x \in Place, Below(q, x) \in DOMAIN src
  PROVE  LET f == HeadOf(x)
         IN  /\ f \in FieldsOf(TypeAt(Root, q)) /\ x \in Parts(f)
             /\ x.path = <<>> => x = Alone(f)
             /\ x.path # <<>> => \E i \in Nat : \E y \in Place : Leads(src, f, q, i) /\ x = Under(f, i, y)
<1> DEFINE f == HeadOf(x)
           s == Below(q, x)
           r == x.path
           p == q \o r
<1>1. x \in Parts(f)
  BY DEF Parts
<1>2. r \in Seq(Hop) /\ q \in Seq(Hop) /\ Len(r) \in Nat /\ Len(q) \in Nat /\ x = Slot(r, x.field)
  BY PlaceHas, LenProperties DEF Path, Hop
<1>3. s.path = p /\ s.field = x.field
  BY DEF Below, Slot
<1>4. \A t \in DOMAIN src : t \in [path : Path, field : Field]
  BY DEF InMemory
<1>5. /\ \A t \in DOMAIN src : t.field \in FieldsOf(TypeAt(Root, t.path))
      /\ \A i \in DOMAIN s.path :
           LET above == Slot(SubSeq(s.path, 1, i - 1), s.path[i].field)
           IN  /\ above \in DOMAIN src /\ above.field.kind = "message"
               /\ s.path[i].item \in
                    IF Behind(above.field) THEN DOMAIN src[above].items ELSE {0}
  BY DEF Made
<1>6. CASE r = <<>>
  <2>1. p = q
    BY <1>2, <1>6, ConcatEmptySeq
  <2>2. f = x.field
    BY <1>6 DEF HeadOf
  <2>3. f \in FieldsOf(TypeAt(Root, q))
    BY <1>3, <1>5, <2>1, <2>2
  <2>4. x = Alone(f)
    BY <1>2, <1>6, <2>2 DEF Alone
  <2>5. QED
    BY <1>1, <1>6, <2>3, <2>4
<1>7. CASE r # <<>>
  <2> DEFINE k == Len(q) + 1
             i == r[1].item
             above == Slot(q, f)
  <2>1. /\ \A j \in 1 .. Len(q) + Len(r) : p[j] = IF j <= Len(q) THEN q[j] ELSE r[j - Len(q)]
        /\ DOMAIN p = 1 .. Len(q) + Len(r)
    <3> HIDE DEF r
    <3>1. QED
      BY <1>2, Concat
  <2>2. Len(r) # 0
    BY <1>2, <1>7
  <2>3. k \in 1 .. Len(q) + Len(r) /\ ~(k <= Len(q)) /\ k - Len(q) = 1 /\ k - 1 = Len(q)
    BY <1>2, <2>2
  <2>4. k \in DOMAIN p /\ p[k] = r[1]
    BY <2>1, <2>3
  <2>5. SubSeq(p, 1, k - 1) = q
    <3> HIDE DEF r, k
    <3>1. Len(q) \in 0 .. Len(q)
      BY <1>2
    <3>2. SubSeq(p, 1, Len(q)) = SubSeq(q, 1, Len(q))
      BY <1>2, <3>1, PrefixOfConcat
    <3>3. SubSeq(q, 1, Len(q)) = q
      BY <1>2, SubSeqFull
    <3>4. QED
      BY <2>3, <3>2, <3>3
  <2>6. r[1].field = f
    BY <1>7 DEF HeadOf
  <2> HIDE DEF p, k, r, f
  <2>7. above = Slot(SubSeq(s.path, 1, k - 1), s.path[k].field) /\ s.path[k] = r[1] /\ k \in DOMAIN s.path
    BY <1>3, <2>4, <2>5, <2>6
  <2>8. /\ above \in DOMAIN src /\ above.field.kind = "message"
        /\ i \in IF Behind(above.field) THEN DOMAIN src[above].items ELSE {0}
    BY <1>5, <2>7
  <2>9. above.field = f /\ above.path = q
    BY DEF Slot
  <2>10. f \in FieldsOf(TypeAt(Root, q))
    BY <1>5, <2>8, <2>9
  <2>11. f \in Field
    BY <1>4, <2>8, <2>9
  <2>12. i \in Nat /\ \E y \in Place : x = Under(f, i, y)
    BY <1>1, <1>7, <2>11, PartIs DEF r
  <2>13. Leads(src, f, q, i)
    <3>1. f.kind = "message" /\ i \in Nat
      BY <2>8, <2>9, <2>12
    <3>2. f.shape = "optional" => i = 0
      BY <2>8, <2>9 DEF Behind
    <3>3. f.shape # "optional" => i \in DOMAIN src[Slot(q, f)].items
      BY <2>8, <2>9 DEF Behind
    <3> HIDE DEF i, above
    <3>4. QED
      BY <3>1, <3>2, <3>3 DEF Leads
  <2>14. QED
    BY <1>1, <1>7, <2>10, <2>12, <2>13 DEF f, r
<1>8. QED
  BY <1>6, <1>7

-----------------------------------------------------------------------------
(* The bytes bring what src has at these places once more.                 *)
Decoded(t, src, q, m, path, X, b, c, d) ==
  /\ Leaps(m, path, b, c, d) /\ Tidy(d) /\ Only(path, X, c, d)
  /\ Stage(t + 1, src, q, path, X, d)

Decodes(src, q, m, X, b) ==
  Len(b) \in Lengths =>
    \A t \in {0, 1}, path \in Path : \A c :
      Ready(m, path, c) /\ Stage(t, src, q, path, X, c)
        => \E d : Decoded(t, src, q, m, path, X, b, c, d)

Sends(src, at) ==
  /\ InMemory(src, Root) /\ Made(src, Root)
  /\ at \in Structures(src) /\ at.message = TypeAt(Root, at.path)

LEMMA FieldSent ==
  ASSUME NEW src, NEW at, Sends(src, at), NEW f \in FieldsOf(at.message)
  PROVE  /\ Slot(at.path, f) \in DOMAIN src /\ f \in Field /\ f.of \in Message
         /\ (f.shape = "pointer" <=> f.kind = "bytes")
         /\ Filled(f, src[Slot(at.path, f)]) /\ Valued(f, src[Slot(at.path, f)])
         /\ at.message \in Message /\ at.path \in Path
<1> DEFINE s == Slot(at.path, f)
<1>1. at \in Structures(src) /\ InMemory(src, Root) /\ Made(src, Root)
  BY DEF Sends
<1>2. at.message \in Message /\ at.path \in Path
  BY <1>1, StructureIs
<1>3. f \in Field /\ f.of \in Message /\ (f.shape = "pointer" <=> f.kind = "bytes")
  BY <1>2, FieldOfMessage
<1>4. s \in DOMAIN src
  BY <1>1, SlotIsThere
<1>5. s.field = f
  BY DEF Slot
<1> HIDE DEF s
<1>6. Filled(f, src[s]) /\ Valued(f, src[s])
  BY <1>1, <1>4, <1>5 DEF InMemory, Made
<1>7. QED
  BY <1>2, <1>3, <1>4, <1>6 DEF s

LEMMA ReadyIs ==
  ASSUME NEW m \in Message, NEW path \in Path, NEW c, Ready(m, path, c), NEW f \in FieldsOf(m)
  PROVE  Slot(path, f) \in DOMAIN c /\ IsCell(c[Slot(path, f)]) /\ Slot(path, f).field = f
         /\ Below(path, Alone(f)) = Slot(path, f) /\ Alone(f) \in Parts(f) /\ Tidy(c)
<1>1. f \in Field /\ Alone(f) \in Layout[m]
  BY FieldOfMessage DEF Alone
<1>2. Below(path, Alone(f)) = Slot(path, f) /\ Alone(f) \in Parts(f)
  BY <1>1, AloneIs
<1>3. Below(path, Alone(f)) \in Structure(m, path)
  BY <1>1 DEF Structure, Below
<1>4. Slot(path, f) \in DOMAIN c /\ Tidy(c)
  BY <1>2, <1>3 DEF Ready
<1>5. IsCell(c[Slot(path, f)])
  BY <1>4, TidyIs
<1>6. QED
  BY <1>2, <1>4, <1>5 DEF Slot

(* The value of the field itself before, and after.                        *)
Came(t, v, cell) ==
  /\ t = 0 => cell = Null /\ cell.items = <<>> /\ ~cell.set /\ Len(cell.items) = 0
  /\ t = 1 => cell.set = v.set /\ (v.set => cell.items = v.items)

LEMMA AloneBefore ==
  ASSUME NEW t \in {0, 1}, NEW src, NEW q \in Path, NEW path \in Path, NEW f \in Field, NEW c,
         NEW v, NEW s, s = Slot(path, f), s \in DOMAIN c, Slot(q, f) \in DOMAIN src,
         v = src[Slot(q, f)], Stage(t, src, q, path, Parts(f), c)
  PROVE  Came(t, v, c[s])
<1>1. /\ Alone(f) \in Parts(f) /\ Below(path, Alone(f)) = s /\ Below(q, Alone(f)) = Slot(q, f)
  BY AloneIs
<1>2. Matches(t, v, s, Alone(f), c)
  BY <1>1 DEF Stage
<1>3. t = 0 => c[s] = Null
  BY <1>2 DEF Matches
<1>4. t = 1 => c[s].set = v.set /\ (v.set => c[s].items = v.items)
  BY <1>2 DEF Matches, Times
<1>5. QED
  BY <1>3, <1>4 DEF Null, Came

Arrived(t, f, v, s, d) ==
  /\ s \in DOMAIN d /\ d[s].set = v.set
  /\ v.set => d[s].items = IF f.shape = "repeated" THEN Times(v.items, t + 1) ELSE v.items

Changes(c, s, d) ==
  s \in DOMAIN c /\ DOMAIN d = DOMAIN c /\ \A r \in DOMAIN c : r # s => d[r] = c[r]

LEMMA AloneAfter ==
  ASSUME NEW t \in {0, 1}, NEW f, NEW v, NEW s, NEW d, Arrived(t, f, v, s, d)
  PROVE  Matches(t + 1, v, s, Alone(f), d)
<1>1. Alone(f).field = f /\ InPlace(Alone(f).path) /\ t + 1 # 0
  BY DEF Alone, Slot, InPlace
<1>2. QED
  BY <1>1 DEF Matches, Arrived

(* A cell that is put where one was.                                       *)
Fitting(c, s, w) ==
  /\ s \in DOMAIN c /\ IsCell(w)
  /\ s.field.kind = "message" => Len(c[s].items) <= Len(w.items)
  /\ Behind(s.field) => w.set /\ Len(w.items) <= w.room

Put(c, s, w) == [c EXCEPT ![s] = w]

Stored(c, s, w, d) == Tidy(d) /\ Changes(c, s, d) /\ d[s] = w

LEMMA CellStored ==
  ASSUME NEW c, Tidy(c), NEW s, NEW w, Fitting(c, s, w)
  PROVE  Stored(c, s, w, Put(c, s, w))
<1>1. /\ s \in DOMAIN c /\ IsCell(w)
      /\ s.field.kind = "message" => Len(c[s].items) <= Len(w.items)
      /\ Behind(s.field) => w.set /\ Len(w.items) <= w.room
  BY DEF Fitting
<1>2. ASSUME NEW d, d = [c EXCEPT ![s] = w] PROVE Stored(c, s, w, d)
  <2>1. Tidy(d) /\ DOMAIN d = DOMAIN c /\ d[s] = w /\ \A t \in DOMAIN c : t # s => d[t] = c[t]
    BY <1>1, <1>2, TidyStores
  <2>2. QED
    BY <1>1, <2>1 DEF Changes, Stored
<1>3. QED
  BY <1>2 DEF Put

(* A field that leads to no other structure.                               *)
LEMMA AloneDecodes ==
  ASSUME NEW t \in {0, 1}, NEW src, NEW at, Sends(src, at), NEW f \in FieldsOf(at.message),
         \A i : ~Leads(src, f, at.path, i), NEW path \in Path, NEW s, s = Slot(path, f),
         NEW c, NEW d, Changes(c, s, d), Arrived(t, f, src[Slot(at.path, f)], s, d)
  PROVE  Only(path, Parts(f), c, d) /\ Stage(t + 1, src, at.path, path, Parts(f), d)
<1> DEFINE q == at.path
<1>1. q \in Path /\ f \in Field
  BY FieldSent
<1>2. Alone(f) \in Parts(f) /\ Below(path, Alone(f)) = s /\ Below(q, Alone(f)) = Slot(q, f)
  BY <1>1, AloneIs
<1>3. Only(path, Parts(f), c, d)
  BY <1>2 DEF Only, Changes
<1>4. Matches(t + 1, src[Slot(q, f)], s, Alone(f), d)
  BY AloneAfter
<1>5. ASSUME NEW x \in Parts(f), Below(q, x) \in DOMAIN src PROVE x = Alone(f)
  <2>1. x \in Place /\ HeadOf(x) = f
    BY DEF Parts
  <2>2. InMemory(src, Root) /\ Made(src, Root)
    BY DEF Sends
  <2> HIDE DEF q
  <2>3. x.path # <<>> => \E i \in Nat : Leads(src, f, q, i)
    BY <1>1, <1>5, <2>1, <2>2, SourceParts
  <2>4. x.path = <<>>
    BY <2>3 DEF q
  <2>5. QED
    BY <1>1, <1>5, <2>1, <2>2, <2>4, SourceParts
<1>6. Stage(t + 1, src, q, path, Parts(f), d)
  BY <1>2, <1>4, <1>5 DEF Stage
<1>7. QED
  BY <1>3, <1>6

-----------------------------------------------------------------------------
(* What is not there.                                                      *)
LEMMA AbsentDecodes ==
  ASSUME NEW src, NEW at, Sends(src, at), NEW f \in FieldsOf(at.message),
         ~src[Slot(at.path, f)].set
  PROVE  Decodes(src, at.path, at.message, Parts(f), <<>>)
<1> DEFINE q == at.path
           m == at.message
           v == src[Slot(q, f)]
<1>1. /\ Slot(q, f) \in DOMAIN src /\ f \in Field /\ f.of \in Message
      /\ (f.shape = "pointer" <=> f.kind = "bytes")
      /\ Filled(f, v) /\ Valued(f, v) /\ m \in Message /\ q \in Path
  BY FieldSent
<1>2. ~v.set
  OBVIOUS
<1> HIDE DEF v
<1> SUFFICES ASSUME NEW t \in {0, 1}, NEW path \in Path, NEW c, Ready(m, path, c),
                    Stage(t, src, q, path, Parts(f), c)
             PROVE  Leaps(m, path, <<>>, c, c) /\ Tidy(c) /\ Only(path, Parts(f), c, c)
                    /\ Stage(t + 1, src, q, path, Parts(f), c)
  BY DEF Decodes, Decoded
<1> DEFINE s == Slot(path, f)
<1>3. s \in DOMAIN c /\ IsCell(c[s]) /\ Tidy(c)
  BY <1>1, ReadyIs
<1>4. ~c[s].set
  <2> HIDE DEF s
  <2>1. /\ t = 0 => ~c[s].set
        /\ t = 1 => c[s].set = v.set
    BY <1>1, <1>3, AloneBefore DEF s, v, Came
  <2>2. QED
    BY <1>2, <2>1
<1>5. c[s].set = v.set
  <2>1. c[s].set \in BOOLEAN /\ v.set \in BOOLEAN
    BY <1>1, <1>3, CellIs DEF Filled
  <2>2. QED
    BY <1>2, <1>4, <2>1
<1>6. Only(path, Parts(f), c, c) /\ Leaps(m, path, <<>>, c, c)
  BY OnlyNothing, LeapsNowhere
<1>7. Stage(t + 1, src, q, path, Parts(f), c)
  <2>1. CASE \A i : ~Leads(src, f, q, i)
    <3>1. s = Slot(path, f)
      OBVIOUS
    <3> HIDE DEF s
    <3>2. Changes(c, s, c) /\ Arrived(t, f, v, s, c)
      BY <1>2, <1>3, <1>5 DEF Changes, Arrived
    <3>3. QED
      BY <2>1, <3>1, <3>2, AloneDecodes DEF v
  <2>2. CASE ~\A i : ~Leads(src, f, q, i)
    <3>1. PICK i : Leads(src, f, q, i)
      BY <2>2
    <3>2. f.kind = "message"
      BY <3>1 DEF Leads
    <3>3. f.shape = "optional"
      <4>1. f.shape # "pointer"
        BY <1>1, <3>2
      <4>2. CASE f.shape = "repeated"
        <5>1. v.items = <<>>
          BY <1>1, <1>2, <4>2 DEF Valued
        <5>2. i \in DOMAIN v.items
          BY <3>1, <4>2 DEF Leads, v
        <5>3. QED
          BY <5>1, <5>2
      <4>3. f.shape \in {"optional", "pointer", "repeated"}
        BY <1>1 DEF Field, Shape
      <4>4. QED
        BY <4>1, <4>2, <4>3
    <3> DEFINE inner == q \o Step(f, 0)
               there == path \o Step(f, 0)
    <3>4. inner \in Path /\ there \in Path
      BY <1>1, StepFrom
    <3>5. \A r \in DOMAIN src : IsPrefix(inner, r.path) => r \in Structure(f.of, inner) /\ ~src[r].set
      <4>1. Slot(q, f).field = f /\ Slot(q, f).path = q
        BY DEF Slot
      <4>2. Made(src, Root)
        BY DEF Sends
      <4>3. f.kind = "message" /\ ~Behind(f) /\ ~src[Slot(q, f)].set
        BY <1>2, <3>2, <3>3 DEF Behind, v
      <4>4. QED
        BY <1>1, <4>1, <4>2, <4>3 DEF Made
    <3> SUFFICES ASSUME NEW x \in Parts(f), Below(q, x) \in DOMAIN src
                 PROVE  Matches(t + 1, src[Below(q, x)], Below(path, x), x, c)
      BY DEF Stage
    <3>6. x \in Place /\ HeadOf(x) = f /\ InMemory(src, Root) /\ Made(src, Root)
      BY DEF Parts, Sends
    <3> HIDE DEF q
    <3>7. CASE x.path = <<>>
      <4>1. x = Alone(f)
        BY <1>1, <3>6, <3>7, SourceParts
      <4>2. Below(q, x) = Slot(q, f) /\ Below(path, x) = s
        BY <1>1, <4>1, AloneIs
      <4> HIDE DEF s
      <4>3. Matches(t + 1, v, s, Alone(f), c)
        <5>1. Arrived(t, f, v, s, c)
          BY <1>2, <1>3, <1>5 DEF Arrived
        <5>2. QED
          BY <5>1, AloneAfter
      <4>4. QED
        BY <4>1, <4>2, <4>3 DEF v
    <3>8. CASE x.path # <<>>
      <4>1. PICK j \in Nat : \E y \in Place : Leads(src, f, q, j) /\ x = Under(f, j, y)
        BY <1>1, <3>6, <3>8, SourceParts
      <4>2. PICK y \in Place : Leads(src, f, q, j) /\ x = Under(f, j, y)
        BY <4>1
      <4>3. j = 0
        BY <3>3, <4>2 DEF Leads
      <4>4. Below(q, x) = Below(inner, y) /\ Below(path, x) = Below(there, y)
        BY <1>1, <4>2, <4>3, BelowUnder
      <4>5. IsPrefix(inner, Below(inner, y).path)
        <5> DEFINE p == y.path
        <5>1. p \in Seq(Hop) /\ inner \in Seq(Hop)
          BY <3>4, PlaceHas DEF Path, Hop
        <5>2. Below(inner, y).path = inner \o p
          BY DEF Below, Slot
        <5> HIDE DEF p, inner
        <5>3. Len(inner) \in 0 .. Len(inner) /\ Len(inner) <= Len(inner \o p)
          BY <5>1, Concat, LenProperties
        <5>4. SubSeq(inner \o p, 1, Len(inner)) = SubSeq(inner, 1, Len(inner))
          BY <5>1, <5>3, PrefixOfConcat
        <5>5. SubSeq(inner, 1, Len(inner)) = inner
          BY <5>1, SubSeqFull
        <5>6. QED
          BY <5>2, <5>3, <5>4, <5>5 DEF IsPrefix
      <4>6. Below(inner, y) \in Structure(f.of, inner) /\ ~src[Below(inner, y)].set
        BY <3>5, <4>4, <4>5
      <4>7. PICK l \in Layout[f.of] : Below(inner, y) = Below(inner, l)
        BY <4>6 DEF Structure, Below
      <4>8. l = y
        <5>1. l \in Place
          BY <1>1, LayoutOf
        <5> HIDE DEF inner
        <5>2. QED
          BY <3>4, <4>7, <5>1, BelowDiffers
      <4>9. Below(path, x) \in Structure(m, path)
        <5>1. Under(f, 0, y) \in Layout[m]
          <6>1. f.kind = "message" /\ ~Behind(f)
            BY <3>2, <3>3 DEF Behind
          <6>2. QED
            BY <1>1, <4>8, <6>1, LayoutAssumption DEF Under
        <5>2. QED
          BY <4>2, <4>3, <5>1 DEF Structure, Below
      <4>10. Below(path, x) \in DOMAIN c
        BY <4>9 DEF Ready
      <4>11. Matches(t, src[Below(q, x)], Below(path, x), x, c)
        BY DEF Stage
      <4>12. ~src[Below(q, x)].set
        BY <4>4, <4>6
      <4>13. src[Below(q, x)].set \in BOOLEAN
        BY <3>6 DEF InMemory, Filled
      <4> DEFINE u == src[Below(q, x)]
                 r == Below(path, x)
      <4> HIDE DEF u, r
      <4>14. Matches(t, u, r, x, c) /\ r \in DOMAIN c /\ u.set = FALSE
        BY <4>10, <4>11, <4>12, <4>13 DEF u, r
      <4>15. c[r].set = u.set
        <5>1. CASE t = 0
          <6>1. c[r] = Null
            BY <4>14, <5>1 DEF Matches
          <6>2. Null.set = FALSE
            BY DEF Null
          <6>3. QED
            BY <4>14, <6>1, <6>2
        <5>2. CASE t = 1
          BY <4>14, <5>2 DEF Matches
        <5>3. QED
          BY <5>1, <5>2
      <4>16. Matches(t + 1, u, r, x, c)
        BY <4>14, <4>15 DEF Matches
      <4>17. QED
        BY <4>16 DEF u, r
    <3>9. QED
      BY <3>7, <3>8
  <2>3. QED
    BY <2>1, <2>2
<1>8. QED
  BY <1>3, <1>6, <1>7

-----------------------------------------------------------------------------
(* A value that is put where the old one was.                              *)
Replaces(f, v, t, w) ==
  /\ IsCell(w) /\ w.set /\ Len(w.items) <= w.room
  /\ w.items = IF f.shape = "repeated" THEN Times(v.items, t + 1) ELSE v.items

LEMMA PutDecodes ==
  ASSUME NEW src, NEW at, Sends(src, at), NEW f \in FieldsOf(at.message), f.kind # "message",
         NEW v, v = src[Slot(at.path, f)], v.set, NEW t \in {0, 1}, NEW path \in Path, NEW c,
         Ready(at.message, path, c), Stage(t, src, at.path, path, Parts(f), c),
         NEW w, Replaces(f, v, t, w),
         NEW d, d = Put(c, Slot(path, f), w)
  PROVE  Tidy(d) /\ Only(path, Parts(f), c, d) /\ Stage(t + 1, src, at.path, path, Parts(f), d)
<1> DEFINE s == Slot(path, f)
<1>1. at.message \in Message
  BY FieldSent
<1>2. s \in DOMAIN c /\ Tidy(c) /\ s.field = f /\ s = Slot(path, f) /\ d = Put(c, s, w)
  BY <1>1, ReadyIs
<1> HIDE DEF s
<1>3. Tidy(d) /\ Changes(c, s, d) /\ d[s] = w
  <2>1. Fitting(c, s, w)
    BY <1>2 DEF Fitting, Replaces
  <2>2. QED
    BY <1>2, <2>1, CellStored DEF Stored
<1>4. w.set \in BOOLEAN /\ v.set \in BOOLEAN
  BY CellIs, FieldSent DEF Filled, Replaces
<1>5. Arrived(t, f, v, s, d)
  BY <1>3, <1>4 DEF Arrived, Changes, Replaces
<1>6. \A i : ~Leads(src, f, at.path, i)
  BY DEF Leads
<1>7. Only(path, Parts(f), c, d) /\ Stage(t + 1, src, at.path, path, Parts(f), d)
  BY <1>2, <1>3, <1>5, <1>6, AloneDecodes
<1>8. QED
  BY <1>3, <1>7

LEMMA NumberDecodes ==
  ASSUME NEW src, NEW at, Sends(src, at), NEW f \in FieldsOf(at.message),
         f.shape = "optional", f.kind \in Numeric,
         NEW v, v = src[Slot(at.path, f)], v.set
  PROVE  LET b == TagOf(f, 0) \o pb_encode_varint[Written(f.kind, v.items[1])]
         IN  v.items[1] \in ValuesOf(f.kind) /\ Decodes(src, at.path, at.message, Parts(f), b)
<1> DEFINE q == at.path
           m == at.message
           n == v.items[1]
           b == TagOf(f, 0) \o pb_encode_varint[Written(f.kind, n)]
           w == Holding(<<n>>, 1)
<1>1. Filled(f, v) /\ Valued(f, v)
  BY FieldSent
<1>2. n \in ValuesOf(f.kind) /\ v.items = <<n>>
  <2>1. v.items \in Seq(Int) /\ Len(v.items) = 1
        /\ \A i \in DOMAIN v.items : v.items[i] \in ValuesOf(f.kind)
    BY <1>1 DEF Filled, Valued
  <2> DEFINE items == v.items
  <2>2. items \in Seq(Int) /\ Len(items) = 1 /\ \A i \in DOMAIN items : items[i] \in ValuesOf(f.kind)
    BY <2>1
  <2> HIDE DEF items
  <2>3. DOMAIN items = 1 .. 1
    BY <2>2, LenProperties
  <2>4. 1 \in DOMAIN items
    BY <2>3
  <2>5. items = <<items[1]>>
    BY <2>2, <2>3
  <2>6. QED
    BY <2>2, <2>4, <2>5 DEF items
<1>3. w.items = <<n>> /\ w.set /\ w.room = 1 /\ Len(w.items) <= w.room
  BY DEF Holding
<1>4. IsCell(w)
  <2>1. <<n>> \in Seq({n})
    OBVIOUS
  <2>2. w \in [set : BOOLEAN, items : Seq({n}), room : Nat]
    BY <2>1 DEF Holding
  <2> HIDE DEF w
  <2>3. QED
    BY <2>2 DEF IsCell
<1>5. f.kind # "message"
  BY DEF Numeric
<1> HIDE DEF n, w
<1>6. ASSUME NEW t \in {0, 1}, NEW path \in Path, NEW c, Ready(m, path, c),
             Stage(t, src, q, path, Parts(f), c)
      PROVE  \E d : Decoded(t, src, q, m, path, Parts(f), b, c, d)
  <2> DEFINE d == Put(c, Slot(path, f), w)
  <2>1. Replaces(f, v, t, w)
    BY <1>2, <1>3, <1>4 DEF Replaces
  <2>2. Tidy(d) /\ Only(path, Parts(f), c, d) /\ Stage(t + 1, src, q, path, Parts(f), d)
    <3> HIDE DEF d
    <3>1. d = Put(c, Slot(path, f), w)
      BY DEF d
    <3>2. QED
      BY <1>5, <1>6, <2>1, <3>1, PutDecodes
  <2>3. Leaps(m, path, b, c, d)
    <3>1. d = [c EXCEPT ![Slot(path, f)] = Holding(<<n>>, 1)]
      BY DEF w, Put
    <3> HIDE DEF d
    <3>2. QED
      BY <1>2, <3>1, NumberLeaps
  <2> HIDE DEF d, b
  <2>4. QED
    BY <2>2, <2>3 DEF Decoded
<1> HIDE DEF b
<1>7. Decodes(src, q, m, Parts(f), b)
  BY <1>6 DEF Decodes
<1>8. QED
  BY <1>2, <1>7 DEF n, b

LEMMA BytesDecode ==
  ASSUME NEW src, NEW at, Sends(src, at), NEW f \in FieldsOf(at.message), f.kind = "bytes",
         NEW v, v = src[Slot(at.path, f)], v.set
  PROVE  /\ v.items \in Seq(Byte)
         /\ Decodes(src, at.path, at.message, Parts(f),
                    TagOf(f, 2) \o (pb_encode_varint[Len(v.items)] \o v.items))
<1> DEFINE q == at.path
           m == at.message
           items == v.items
           l == pb_encode_varint[Len(items)]
           e == l \o items
           b == TagOf(f, 2) \o e
           w == Holding(items, Len(items))
<1>1. Filled(f, v) /\ f.shape = "pointer" /\ f \in Field
  BY FieldSent
<1>2. items \in Seq(Byte)
  BY <1>1 DEF Filled
<1>3. Len(items) \in Nat
  BY <1>2, LenProperties
<1>4. items = v.items
  OBVIOUS
<1> HIDE DEF items
<1>5. w.items = items /\ w.set /\ w.room = Len(items) /\ Len(w.items) <= w.room
  BY <1>3 DEF Holding
<1>6. IsCell(w)
  <2>1. w \in [set : BOOLEAN, items : Seq(Byte), room : Nat]
    BY <1>2, <1>3 DEF Holding
  <2> HIDE DEF w
  <2>2. QED
    BY <2>1 DEF IsCell
<1>7. Len(items) <= Len(b)
  <2>1. l \in Seq(Byte)
    BY <1>3, EncodingIs
  <2>2. TagOf(f, 2) \in Seq(Byte)
    <3>1. 8 * f.tag + 2 \in Nat
      BY <1>1 DEF Field
    <3>2. QED
      BY <3>1, EncodingIs DEF TagOf
  <2> HIDE DEF l
  <2>3. e \in Seq(Byte) /\ Len(e) = Len(l) + Len(items)
    BY <1>2, <2>1, Concat
  <2> HIDE DEF e
  <2>4. Len(b) = Len(TagOf(f, 2)) + Len(e)
    BY <2>2, <2>3, Concat
  <2>5. Len(l) \in Nat /\ Len(TagOf(f, 2)) \in Nat
    BY <2>1, <2>2, LenProperties
  <2> HIDE DEF b
  <2>6. QED
    BY <1>3, <2>3, <2>4, <2>5
<1> HIDE DEF w
<1>8. ASSUME Len(b) \in Lengths, NEW t \in {0, 1}, NEW path \in Path, NEW c, Ready(m, path, c),
             Stage(t, src, q, path, Parts(f), c)
      PROVE  \E d : Decoded(t, src, q, m, path, Parts(f), b, c, d)
  <2> DEFINE d == Put(c, Slot(path, f), w)
  <2>1. Replaces(f, v, t, w)
    BY <1>1, <1>4, <1>5, <1>6 DEF Replaces
  <2>2. Tidy(d) /\ Only(path, Parts(f), c, d) /\ Stage(t + 1, src, q, path, Parts(f), d)
    <3> HIDE DEF d
    <3>1. d = Put(c, Slot(path, f), w) /\ f.kind # "message"
      BY DEF d
    <3>2. QED
      BY <1>8, <2>1, <3>1, PutDecodes
  <2>3. Leaps(m, path, b, c, d)
    <3>1. d = [c EXCEPT ![Slot(path, f)] = Holding(items, Len(items))]
      BY DEF w, Put
    <3> HIDE DEF d
    <3>2. Len(items) \in Lengths
      <4> DEFINE p == 2 ^ Bits32
      <4>1. p \in Nat /\ Len(b) \in 0 .. p - 1
        BY <1>8, WidthType DEF Lengths
      <4> HIDE DEF p, b
      <4>2. Len(items) \in 0 .. p - 1
        BY <1>3, <1>7, <4>1
      <4>3. QED
        BY <4>2 DEF p, Lengths
    <3>3. QED
      BY <1>2, <3>1, <3>2, BytesLeap
  <2> HIDE DEF d, b
  <2>4. QED
    BY <2>2, <2>3 DEF Decoded
<1> HIDE DEF b
<1>9. Decodes(src, q, m, Parts(f), b)
  BY <1>8 DEF Decodes
<1>10. QED
  BY <1>2, <1>9 DEF items, b

(* What is in a stream is shorter than the stream and what is before it.   *)
LEMMA SentIs ==
  ASSUME NEW f \in Field, NEW body \in Seq(Byte)
  PROVE  /\ Sent(f, body) \in Seq(Byte)
         /\ Len(Sent(f, body)) \in Lengths => Len(body) \in Lengths
<1> DEFINE l == pb_encode_varint[Len(body)]
           e == l \o body
           g == TagOf(f, 2)
           b == g \o e
<1>1. Len(body) \in Nat
  BY LenProperties
<1>2. l \in Seq(Byte)
  BY <1>1, EncodingIs
<1>3. g \in Seq(Byte)
  <2>1. 8 * f.tag + 2 \in Nat
    BY DEF Field
  <2>2. QED
    BY <2>1, EncodingIs DEF TagOf
<1>4. Sent(f, body) = b
  BY DEF Sent
<1> HIDE DEF l, g
<1>5. e \in Seq(Byte) /\ Len(e) = Len(l) + Len(body)
  BY <1>2, Concat
<1> HIDE DEF e
<1>6. b \in Seq(Byte) /\ Len(b) = Len(g) + Len(e)
  BY <1>3, <1>5, Concat
<1>7. Len(l) \in Nat /\ Len(g) \in Nat
  BY <1>2, <1>3, LenProperties
<1> HIDE DEF b
<1>8. Len(b) \in Lengths => Len(body) \in Lengths
  <2> DEFINE p == 2 ^ Bits32
  <2>1. p \in Nat
    BY WidthType
  <2>2. Lengths = 0 .. p - 1
    BY DEF Lengths
  <2> HIDE DEF p
  <2>3. QED
    BY <1>1, <1>5, <1>6, <1>7, <2>1, <2>2
<1>9. QED
  BY <1>4, <1>6, <1>8

LEMMA PackedDecodes ==
  ASSUME NEW src, NEW at, Sends(src, at), NEW f \in FieldsOf(at.message),
         f.shape = "repeated", f.kind \in Numeric,
         NEW v, v = src[Slot(at.path, f)], v.set, NEW body \in Seq(Byte), Grows(f.kind, body, v.items)
  PROVE  Decodes(src, at.path, at.message, Parts(f), Sent(f, body))
<1> DEFINE q == at.path
           m == at.message
           items == v.items
           b == Sent(f, body)
<1>1. /\ f \in Field /\ Filled(f, v) /\ Valued(f, v) /\ m \in Message /\ q \in Path
      /\ Slot(q, f) \in DOMAIN src
  BY FieldSent
<1>2. items # <<>> /\ items \in Seq(Int)
  BY <1>1 DEF Valued, Filled
<1>3. Grows(f.kind, body, items) /\ items = v.items
  OBVIOUS
<1>4. f.kind # "message"
  BY DEF Numeric
<1> HIDE DEF items
<1>5. ASSUME Len(b) \in Lengths, NEW t \in {0, 1}, NEW path \in Path, NEW c, Ready(m, path, c),
             Stage(t, src, q, path, Parts(f), c)
      PROVE  \E d : Decoded(t, src, q, m, path, Parts(f), b, c, d)
  <2> DEFINE s == Slot(path, f)
  <2>1. s \in DOMAIN c /\ Tidy(c) /\ s = Slot(path, f)
    BY <1>1, <1>5, ReadyIs
  <2>2. Len(body) \in Lengths
    BY <1>1, <1>5, SentIs
  <2> HIDE DEF b
  <2>3. PICK d : Tidy(d) /\ Extends(c, d, s, items) /\ Leaps(m, path, b, c, d)
    BY <1>1, <1>3, <2>1, <2>2, PackedLeaps DEF b
  <2>4. /\ t = 0 => c[s].items = <<>>
        /\ t = 1 => c[s].set = v.set /\ (v.set => c[s].items = items)
    <3>1. v = src[Slot(q, f)] /\ Slot(q, f) \in DOMAIN src
      BY <1>1
    <3> HIDE DEF s, q
    <3>2. q \in Path /\ f \in Field /\ Stage(t, src, q, path, Parts(f), c)
      BY <1>1, <1>5 DEF q
    <3>3. Came(t, v, c[s])
      BY <2>1, <3>1, <3>2, AloneBefore
    <3>4. QED
      BY <1>3, <3>3 DEF Came
  <2> HIDE DEF s
  <2>5. d[s].items = IF f.shape = "repeated" THEN Times(v.items, t + 1) ELSE v.items
    <3>1. CASE t = 0
      <4>1. <<>> \o items = items
        BY <1>2, ConcatEmptySeq
      <4>2. d[s].items = c[s].items \o items
        BY <2>3 DEF Extends
      <4>3. Times(v.items, 0 + 1) = items
        BY <1>3 DEF Times
      <4>4. QED
        BY <2>4, <3>1, <4>1, <4>2, <4>3
    <3>2. CASE t = 1
      <4>1. d[s].items = c[s].items \o items
        BY <2>3 DEF Extends
      <4>2. Times(v.items, 1 + 1) = items \o items
        BY <1>3 DEF Times
      <4>3. QED
        BY <2>4, <3>2, <4>1, <4>2
    <3>3. QED
      BY <3>1, <3>2
  <2>6. d[s].set = v.set
    <3>1. d[s].set
      BY <1>2, <2>3 DEF Extends
    <3>2. IsCell(d[s])
      BY <2>3, TidyIs DEF Extends
    <3>3. d[s].set \in BOOLEAN /\ v.set \in BOOLEAN
      BY <1>1, <3>2, CellIs DEF Filled
    <3>4. QED
      BY <3>1, <3>3
  <2>7. \A i : ~Leads(src, f, q, i)
    BY <1>4 DEF Leads
  <2>8. s \in DOMAIN c /\ DOMAIN d = DOMAIN c /\ \A r \in DOMAIN c : r # s => d[r] = c[r]
    BY <2>3 DEF Extends
  <2>9. Only(path, Parts(f), c, d) /\ Stage(t + 1, src, q, path, Parts(f), d)
    <3>1. Changes(c, s, d) /\ Arrived(t, f, v, s, d)
      BY <2>5, <2>6, <2>8 DEF Changes, Arrived
    <3>2. QED
      BY <2>1, <2>7, <3>1, AloneDecodes
  <2>10. QED
    BY <2>3, <2>9 DEF Decoded
<1> HIDE DEF b
<1>6. Decodes(src, q, m, Parts(f), b)
  BY <1>5 DEF Decodes
<1>7. QED
  BY <1>6 DEF b

-----------------------------------------------------------------------------
(* A structure within a structure: the places of the one are places of the *)
(* other.                                                                  *)
LEMMA MatchesUnder ==
  ASSUME NEW f \in Field, NEW i \in Nat, NEW y \in Place, NEW v, NEW s, NEW c,
         NEW t \in {0, 1, 2}
  PROVE  /\ Matches(t, v, s, Under(f, 0, y), c) => Matches(t, v, s, y, c)
         /\ t # 0 /\ Matches(IF i = 0 THEN t ELSE 1, v, s, y, c)
              => Matches(t, v, s, Under(f, i, y), c)
<1> DEFINE x == Under(f, i, y)
           z == Under(f, 0, y)
<1>1. x.field = y.field /\ z.field = y.field
  BY UnderIs
<1>2. (InPlace(x.path) <=> i = 0 /\ InPlace(y.path)) /\ (InPlace(z.path) <=> InPlace(y.path))
  BY UnderIs
<1> HIDE DEF x, z
<1>3. Matches(t, v, s, z, c) => Matches(t, v, s, y, c)
  BY <1>1, <1>2 DEF Matches
<1>4. t # 0 /\ Matches(IF i = 0 THEN t ELSE 1, v, s, y, c) => Matches(t, v, s, x, c)
  <2>1. CASE i = 0
    BY <1>1, <1>2, <2>1 DEF Matches
  <2>2. CASE i # 0
    BY <1>1, <1>2, <2>2 DEF Matches, Times
  <2>3. QED
    BY <2>1, <2>2
<1>5. QED
  BY <1>3, <1>4 DEF x, z

LEMMA PartsArrive ==
  ASSUME NEW T \in {1, 2}, NEW src, NEW at, Sends(src, at), NEW f \in FieldsOf(at.message),
         NEW path \in Path, NEW d,
         Matches(T, src[Slot(at.path, f)], Slot(path, f), Alone(f), d),
         \A i \in Nat : Leads(src, f, at.path, i) =>
           Stage(IF i = 0 THEN T ELSE 1, src, at.path \o Step(f, i), path \o Step(f, i), Place, d)
  PROVE  Stage(T, src, at.path, path, Parts(f), d)
<1> DEFINE q == at.path
<1>1. q \in Path /\ f \in Field
  BY FieldSent
<1>2. InMemory(src, Root) /\ Made(src, Root)
  BY DEF Sends
<1> SUFFICES ASSUME NEW x \in Parts(f), Below(q, x) \in DOMAIN src
             PROVE  Matches(T, src[Below(q, x)], Below(path, x), x, d)
  BY DEF Stage
<1>3. x \in Place /\ HeadOf(x) = f
  BY DEF Parts
<1>4. q = at.path
  OBVIOUS
<1> HIDE DEF q
<1>5. CASE x.path = <<>>
  <2>1. x = Alone(f)
    BY <1>1, <1>2, <1>3, <1>5, SourceParts
  <2>2. Below(q, x) = Slot(q, f) /\ Below(path, x) = Slot(path, f)
    BY <1>1, <2>1, AloneIs
  <2>3. QED
    BY <1>4, <2>1, <2>2
<1>6. CASE x.path # <<>>
  <2>1. PICK i \in Nat : \E y \in Place : Leads(src, f, q, i) /\ x = Under(f, i, y)
    BY <1>1, <1>2, <1>3, <1>6, SourceParts
  <2>2. PICK y \in Place : Leads(src, f, q, i) /\ x = Under(f, i, y)
    BY <2>1
  <2> DEFINE inner == q \o Step(f, i)
             there == path \o Step(f, i)
             w == IF i = 0 THEN T ELSE 1
  <2>3. Stage(w, src, inner, there, Place, d)
    BY <1>4, <2>2
  <2>4. Below(q, x) = Below(inner, y) /\ Below(path, x) = Below(there, y)
    BY <1>1, <2>2, BelowUnder
  <2>5. w = IF i = 0 THEN T ELSE 1
    OBVIOUS
  <2> HIDE DEF inner, there, w
  <2>6. Matches(w, src[Below(q, x)], Below(path, x), y, d)
    BY <2>3, <2>4 DEF Stage
  <2> DEFINE u == src[Below(q, x)]
             r == Below(path, x)
  <2> HIDE DEF u, r
  <2>7. Matches(w, u, r, y, d) /\ T # 0 /\ T \in {0, 1, 2}
    BY <2>6 DEF u, r
  <2>8. Matches(T, u, r, x, d)
    BY <1>1, <2>2, <2>5, <2>7, MatchesUnder
  <2>9. QED
    BY <2>8 DEF u, r
<1>7. QED
  BY <1>5, <1>6

(* The slot of a field, and what is in the structures it leads to.         *)
LEMMA ApartBelow ==
  ASSUME NEW f \in Field, NEW path \in Path, NEW i \in Nat, NEW y \in Place
  PROVE  /\ Below(path \o Step(f, i), y) # Slot(path, f)
         /\ \E x \in Parts(f) : Below(path \o Step(f, i), y) = Below(path, x)
<1> DEFINE x == Under(f, i, y)
<1>1. x \in Parts(f) /\ Below(path, x) = Below(path \o Step(f, i), y)
  BY UnderIs, BelowUnder
<1>2. Alone(f) \in Parts(f) /\ Below(path, Alone(f)) = Slot(path, f)
  BY AloneIs
<1>3. x # Alone(f)
  BY UnderDiffers
<1>4. \A z \in Parts(f) : z \in Place
  BY DEF Parts
<1> HIDE DEF x
<1>5. Below(path, x) # Below(path, Alone(f))
  BY <1>1, <1>2, <1>3, <1>4, BelowDiffers
<1>6. QED
  BY <1>1, <1>2, <1>5

(* What changes in the slot of a field and in a structure it leads to.     *)
Alters(path, f, s, cell, c, d) ==
  Only(path, Parts(f), c, d) /\ s \in DOMAIN d /\ d[s] = cell

LEMMA OnlyInside ==
  ASSUME NEW f \in Field, NEW path \in Path, NEW i \in Nat, NEW s, s = Slot(path, f),
         NEW there, there = path \o Step(f, i), NEW c, NEW b, NEW d,
         Changes(c, s, b), Only(there, Place, b, d)
  PROVE  Alters(path, f, s, b[s], c, d)
<1>1. s \in DOMAIN c /\ DOMAIN b = DOMAIN c /\ \A r \in DOMAIN c : r # s => b[r] = c[r]
  BY DEF Changes
<1>2. DOMAIN b \subseteq DOMAIN d
      /\ \A r \in DOMAIN d : (\A y \in Place : r # Below(there, y)) => r \in DOMAIN b /\ d[r] = b[r]
  BY DEF Only
<1>3. \A y \in Place : Below(there, y) # s /\ \E x \in Parts(f) : Below(there, y) = Below(path, x)
  BY ApartBelow
<1>4. Alone(f) \in Parts(f) /\ Below(path, Alone(f)) = s
  BY AloneIs
<1>5. s \in DOMAIN d /\ d[s] = b[s]
  BY <1>1, <1>2, <1>3
<1>6. ASSUME NEW r \in DOMAIN d, \A x \in Parts(f) : r # Below(path, x)
      PROVE  r \in DOMAIN c /\ d[r] = c[r]
  <2>1. \A y \in Place : r # Below(there, y)
    BY <1>3, <1>6
  <2>2. r # s
    BY <1>4, <1>6
  <2>3. QED
    BY <1>1, <1>2, <2>1, <2>2
<1>7. Only(path, Parts(f), c, d)
  BY <1>1, <1>2, <1>6 DEF Only
<1>8. QED
  BY <1>5, <1>7 DEF Alters

LEMMA InsideIsReady ==
  ASSUME NEW m \in Message, NEW path \in Path, NEW f \in FieldsOf(m),
         f.kind = "message", f.shape = "optional", NEW c, Ready(m, path, c),
         NEW b, Tidy(b), DOMAIN b = DOMAIN c
  PROVE  Ready(f.of, path \o Step(f, 0), b)
<1> DEFINE there == path \o Step(f, 0)
<1>1. f \in Field /\ f.of \in Message /\ ~Behind(f)
  BY FieldOfMessage DEF Behind
<1>2. ASSUME NEW l \in Layout[f.of] PROVE Slot(there \o l.path, l.field) \in DOMAIN c
  <2>1. l \in Place
    BY <1>1, LayoutOf
  <2>2. Under(f, 0, l) \in Layout[m]
    BY <1>1, LayoutAssumption DEF Under
  <2>3. Below(path, Under(f, 0, l)) = Below(there, l)
    BY <1>1, <2>1, BelowUnder
  <2>4. Below(path, Under(f, 0, l)) \in Structure(m, path)
    BY <2>2 DEF Structure, Below
  <2>5. QED
    BY <2>3, <2>4 DEF Ready, Below
<1>3. QED
  BY <1>2 DEF Ready, Structure

LEMMA StageInside ==
  ASSUME NEW t \in {0, 1}, NEW src, NEW f \in Field, NEW q \in Path, NEW path \in Path,
         NEW c, Stage(t, src, q, path, Parts(f), c), NEW b, Changes(c, Slot(path, f), b)
  PROVE  Stage(t, src, q \o Step(f, 0), path \o Step(f, 0), Place, b)
<1> DEFINE inner == q \o Step(f, 0)
           there == path \o Step(f, 0)
<1> SUFFICES ASSUME NEW y \in Place, Below(inner, y) \in DOMAIN src
             PROVE  Matches(t, src[Below(inner, y)], Below(there, y), y, b)
  BY DEF Stage
<1> DEFINE x == Under(f, 0, y)
<1>1. x \in Parts(f) /\ Below(q, x) = Below(inner, y) /\ Below(path, x) = Below(there, y)
  BY UnderIs, BelowUnder
<1>2. Below(there, y) # Slot(path, f)
  BY ApartBelow
<1>3. x = Under(f, 0, y)
  OBVIOUS
<1> DEFINE u == src[Below(inner, y)]
           r == Below(there, y)
<1> HIDE DEF inner, there, x
<1>4. Matches(t, u, r, x, c)
  BY <1>1 DEF Stage
<1> HIDE DEF u, r
<1>5. Matches(t, u, r, y, c)
  BY <1>3, <1>4, MatchesUnder
<1>6. DOMAIN c \subseteq DOMAIN b /\ (r \in DOMAIN b => r \in DOMAIN c /\ b[r] = c[r])
  BY <1>2 DEF Changes, r
<1>7. Matches(t, u, r, y, b)
  BY <1>5, <1>6, MatchesStill
<1>8. QED
  BY <1>7 DEF u, r

-----------------------------------------------------------------------------
LEMMA MessageHas ==
  ASSUME NEW src, NEW at, Sends(src, at), NEW f \in FieldsOf(at.message), f.kind = "message"
  PROVE  /\ f.shape # "optional" => f.shape = "repeated"
         /\ \A i \in DOMAIN src[Slot(at.path, f)].items : src[Slot(at.path, f)].items[i] = 0
         /\ f.shape = "optional" => src[Slot(at.path, f)].items = <<>>
<1> DEFINE v == src[Slot(at.path, f)]
<1>1. f \in Field /\ f.shape # "pointer" /\ Valued(f, v)
  BY FieldSent
<1>2. f.shape \in {"optional", "pointer", "repeated"}
  BY <1>1 DEF Field, Shape
<1>3. QED
  BY <1>1, <1>2 DEF Valued

(* A structure in place.                                                   *)
LEMMA MessageDecodes ==
  ASSUME NEW src, NEW at, Sends(src, at), NEW f \in FieldsOf(at.message),
         f.kind = "message", f.shape = "optional",
         NEW v, v = src[Slot(at.path, f)], v.set, NEW body \in Seq(Byte),
         Decodes(src, at.path \o Step(f, 0), f.of, Place, body)
  PROVE  Decodes(src, at.path, at.message, Parts(f), Sent(f, body))
<1> DEFINE q == at.path
           m == at.message
           b == Sent(f, body)
           inner == q \o Step(f, 0)
<1>1. /\ f \in Field /\ f.of \in Message /\ m \in Message /\ q \in Path
      /\ Slot(q, f) \in DOMAIN src /\ Filled(f, v)
  BY FieldSent
<1>2. v.items = <<>>
  BY MessageHas
<1>3. v = src[Slot(q, f)] /\ f \in FieldsOf(m) /\ Decodes(src, inner, f.of, Place, body)
  OBVIOUS
<1>4. v.set = TRUE
  BY <1>1 DEF Filled
<1>5. ASSUME Len(b) \in Lengths, NEW t \in {0, 1}, NEW path \in Path, NEW c, Ready(m, path, c),
             Stage(t, src, q, path, Parts(f), c)
      PROVE  \E d : Decoded(t, src, q, m, path, Parts(f), b, c, d)
  <2> DEFINE s == Slot(path, f)
             there == path \o Step(f, 0)
             w == [c[s] EXCEPT !.set = TRUE]
             e == Put(c, s, w)
  <2>1. s \in DOMAIN c /\ Tidy(c) /\ IsCell(c[s]) /\ s.field = f /\ there \in Path
    BY <1>1, <1>3, <1>5, ReadyIs, StepFrom
  <2>2. Len(body) \in Lengths
    BY <1>1, <1>5, SentIs
  <2>3. w.set = TRUE /\ w.items = c[s].items /\ IsCell(w)
    <3> DEFINE g == c[s]
    <3>1. PICK S : g \in [set : BOOLEAN, items : Seq(S), room : Nat]
      BY <2>1 DEF IsCell
    <3> HIDE DEF g
    <3>2. [g EXCEPT !.set = TRUE] \in [set : BOOLEAN, items : Seq(S), room : Nat]
          /\ [g EXCEPT !.set = TRUE].set = TRUE /\ [g EXCEPT !.set = TRUE].items = g.items
      BY <3>1
    <3>3. QED
      BY <3>2 DEF IsCell, g
  <2>4. e = [c EXCEPT ![Slot(path, f)].set = TRUE]
    BY DEF Put
  <2>5. s = Slot(path, f) /\ b = Sent(f, body) /\ there = path \o Step(f, 0)
    OBVIOUS
  <2>6. v.items = c[s].items
    <3> HIDE DEF s, w, e, b, there, q
    <3>1. Came(t, v, c[s])
      BY <1>1, <1>3, <1>5, <2>1, <2>5, AloneBefore DEF q
    <3>2. QED
      BY <1>2, <1>4, <3>1 DEF Came
  <2>7. Stored(c, s, w, e)
    <3> HIDE DEF w
    <3>1. Len(c[s].items) <= Len(w.items)
      BY <2>1, <2>3, CellIs
    <3>2. ~Behind(s.field)
      BY <2>1 DEF Behind
    <3>3. Fitting(c, s, w)
      BY <2>1, <2>3, <3>1, <3>2 DEF Fitting
    <3>4. QED
      BY <2>1, <3>3, CellStored
  <2> HIDE DEF e, w, s, there, b
  <2>8. Tidy(e) /\ Changes(c, s, e) /\ e[s] = w
    BY <2>7 DEF Stored
  <2>9. Ready(f.of, there, e)
    <3>1. DOMAIN e = DOMAIN c
      BY <2>8 DEF Changes
    <3>2. QED
      BY <1>1, <1>3, <1>5, <2>5, <2>8, <3>1, InsideIsReady
  <2>10. Stage(t, src, inner, there, Place, e)
    <3>1. Stage(t, src, q \o Step(f, 0), path \o Step(f, 0), Place, e)
      BY <1>1, <1>5, <2>5, <2>8, StageInside
    <3>2. QED
      BY <2>5, <3>1
  <2>11. PICK d : Decoded(t, src, inner, f.of, there, Place, body, e, d)
    <3> HIDE DEF inner
    <3>1. QED
      BY <1>3, <2>1, <2>2, <2>9, <2>10 DEF Decodes
  <2>12. Leaps(m, path, b, c, d)
    <3>1. Leaps(f.of, there, body, [c EXCEPT ![Slot(path, f)].set = TRUE], d)
      BY <2>4, <2>11 DEF Decoded
    <3>2. QED
      BY <1>1, <1>3, <2>1, <2>2, <2>5, <3>1, MessageLeaps
  <2>13. Only(path, Parts(f), c, d) /\ s \in DOMAIN d /\ d[s] = w
    <3>1. Only(there, Place, e, d) /\ f \in Field /\ 0 \in Nat
      BY <1>1, <2>11 DEF Decoded
    <3>2. Alters(path, f, s, e[s], c, d)
      BY <2>5, <2>8, <3>1, OnlyInside
    <3>3. QED
      BY <2>8, <3>2 DEF Alters
  <2>14. Stage(t + 1, src, q, path, Parts(f), d)
    <3>1. Arrived(t, f, v, s, d)
      BY <1>4, <2>3, <2>6, <2>13 DEF Arrived
    <3>2. Matches(t + 1, v, s, Alone(f), d)
      BY <3>1, AloneAfter
    <3>3. Matches(t + 1, src[Slot(at.path, f)], Slot(path, f), Alone(f), d)
      BY <2>5, <3>2
    <3>4. Stage(t + 1, src, inner, there, Place, d)
      BY <2>11 DEF Decoded
    <3>5. \A i \in Nat : Leads(src, f, at.path, i) =>
            Stage(IF i = 0 THEN t + 1 ELSE 1, src, at.path \o Step(f, i), path \o Step(f, i), Place, d)
      <4>1. \A i \in Nat : Leads(src, f, at.path, i) => i = 0
        BY DEF Leads
      <4>2. QED
        BY <2>5, <3>4, <4>1
    <3>6. t + 1 \in {1, 2}
      OBVIOUS
    <3>7. QED
      BY <3>3, <3>5, <3>6, PartsArrive
  <2>15. Tidy(d)
    BY <2>11 DEF Decoded
  <2>16. QED
    BY <2>12, <2>13, <2>14, <2>15 DEF Decoded
<1> HIDE DEF b
<1>6. Decodes(src, q, m, Parts(f), b)
  BY <1>5 DEF Decodes
<1>7. QED
  BY <1>6 DEF b

-----------------------------------------------------------------------------
(* An array has one element more, with what src has at inner.              *)
OneGrown(src, inner, s, there, c, d) ==
  /\ Tidy(d) /\ DOMAIN c \subseteq DOMAIN d /\ s \in DOMAIN d
  /\ d[s].set /\ d[s].items = Append(c[s].items, 0)
  /\ \A r \in DOMAIN d : r # s /\ (\A y \in Place : r # Below(there, y))
                           => r \in DOMAIN c /\ d[r] = c[r]
  /\ Stage(1, src, inner, there, Place, d)

(* What an element is read into.                                           *)
Opened(m, there, s, c, e) ==
  /\ Ready(m, there, e) /\ DOMAIN c \subseteq DOMAIN e
  /\ \A r \in DOMAIN e : (\E l \in Place : r = Below(there, l)) => e[r] = Null
  /\ \A r \in DOMAIN e : (\A l \in Place : r # Below(there, l)) => r \in DOMAIN c
  /\ \A r \in DOMAIN c : r # s => e[r] = c[r]
  /\ e[s].set /\ e[s].items = Append(c[s].items, 0)

LEMMA ElementOpens ==
  ASSUME NEW path \in Path, NEW f \in Field, f.of \in Message,
         f.shape = "repeated", f.kind = "message", NEW c, Tidy(c), NEW s, s = Slot(path, f),
         s \in DOMAIN c, NEW there, there = path \o Step(f, Len(c[s].items) + 1)
  PROVE  Opened(f.of, there, s, c, pb_message_set_to_defaults(f.of, there, Longer(c, s)))
<1> DEFINE k == Len(c[s].items)
           n == k + 1
           w == Holding(Append(c[s].items, 0), n)
           b == Longer(c, s)
           new == Structure(f.of, there)
           e == pb_message_set_to_defaults(f.of, there, b)
<1>1. IsCell(c[s]) /\ k \in Nat /\ n \in Nat
  BY TidyIs, CellIs
<1>2. IsCell(w) /\ Len(w.items) = n /\ w.set /\ w.room = n /\ w.items = Append(c[s].items, 0)
  BY <1>1, CellAppended DEF Holding
<1>3. s.field = f /\ s.path = path /\ Behind(f)
  BY DEF Slot, Behind
<1>4. Stored(c, s, w, b)
  <2>1. b = Put(c, s, w)
    BY DEF Longer, Put
  <2> HIDE DEF w, b, n
  <2>2. Fitting(c, s, w)
    <3>1. k <= n /\ n <= n
      BY <1>1 DEF n
    <3> HIDE DEF k
    <3>2. Len(c[s].items) <= Len(w.items) /\ w.set /\ Len(w.items) <= w.room
      BY <1>2, <3>1 DEF k
    <3>3. QED
      BY <1>2, <3>2 DEF Fitting
  <2>3. QED
    BY <2>1, <2>2, CellStored
<1>5. there = path \o Step(f, n)
  OBVIOUS
<1>6. n > Len(c[s].items) /\ n <= Len(w.items)
  BY <1>1, <1>2
<1> HIDE DEF b, w, n, k
<1>7. Tidy(b) /\ DOMAIN b = DOMAIN c /\ b[s] = w /\ \A r \in DOMAIN c : r # s => b[r] = c[r]
  BY <1>4 DEF Stored, Changes
<1>8. Rooted(there, b)
  <2>1. Rooted(path, b)
    BY <1>3, <1>7, TidyIs
  <2>2. n <= Len(b[Slot(path, f)].items) /\ Slot(path, f) \in DOMAIN b
    BY <1>6, <1>7
  <2>3. QED
    BY <1>1, <1>5, <2>1, <2>2, RootedStep
<1>9. there \in Path
  BY <1>1, <1>5, StepFrom
<1>10. \A l \in Place : Below(there, l) \notin DOMAIN c
  BY <1>1, <1>3, <1>5, <1>6, NothingYetBelow
<1>11. \A r \in new : \E l \in Place : r = Below(there, l)
  BY LayoutOf DEF Structure, Below
<1>12. Tidy(e) /\ new \subseteq DOMAIN e
  <2>1. PICK h : Sound(b, h)
    BY <1>7 DEF Tidy
  <2>2. \A r \in DOMAIN b : r \notin new
    BY <1>7, <1>10, <1>11
  <2>3. Sound(e, h) /\ new \subseteq DOMAIN e
    BY <1>8, <1>9, <2>1, <2>2, SoundStructure
  <2>4. QED
    BY <2>3 DEF Tidy
<1>13. /\ DOMAIN e = new \cup DOMAIN b
       /\ \A r \in new : e[r] = Null
       /\ \A r \in DOMAIN b : r \notin new => e[r] = b[r]
  BY DEF pb_message_set_to_defaults
<1>14. Ready(f.of, there, e)
  BY <1>12 DEF Ready
<1> HIDE DEF e, new
<1>15. \A r \in DOMAIN c : r \notin new
  BY <1>10, <1>11
<1>16. e[s] = w
  BY <1>7, <1>13, <1>15
<1>17. \A r \in DOMAIN c : r # s => e[r] = c[r]
  BY <1>7, <1>13, <1>15
<1>18. DOMAIN c \subseteq DOMAIN e
  BY <1>7, <1>13
<1>19. /\ \A r \in DOMAIN e : (\E l \in Place : r = Below(there, l)) => e[r] = Null
       /\ \A r \in DOMAIN e : (\A l \in Place : r # Below(there, l)) => r \in DOMAIN c
  BY <1>7, <1>10, <1>11, <1>13
<1>20. e[s].set /\ e[s].items = Append(c[s].items, 0)
  BY <1>2, <1>16
<1>21. Opened(f.of, there, s, c, e)
  BY <1>14, <1>17, <1>18, <1>19, <1>20 DEF Opened
<1>22. QED
  BY <1>21 DEF e, b

LEMMA ElementDecodes ==
  ASSUME NEW m \in Message, NEW path \in Path, NEW f \in FieldsOf(m),
         f.shape = "repeated", f.kind = "message", NEW c, Tidy(c), NEW s, s = Slot(path, f),
         s \in DOMAIN c, NEW there, there = path \o Step(f, Len(c[s].items) + 1),
         NEW src, NEW inner, NEW body \in Seq(Byte), Decodes(src, inner, f.of, Place, body),
         Len(Sent(f, body)) \in Lengths
  PROVE  \E d : Leaps(m, path, Sent(f, body), c, d) /\ OneGrown(src, inner, s, there, c, d)
<1> DEFINE e == pb_message_set_to_defaults(f.of, there, Longer(c, s))
<1>1. f \in Field /\ f.of \in Message
  BY FieldOfMessage
<1>2. Len(body) \in Lengths
  BY <1>1, SentIs
<1>3. Opened(f.of, there, s, c, e)
  BY <1>1, ElementOpens
<1>4. e = pb_message_set_to_defaults(f.of, there, Longer(c, s))
  OBVIOUS
<1> HIDE DEF e
<1>5. Len(c[s].items) + 1 \in Nat
  BY TidyIs, CellIs
<1>6. there \in Path
  BY <1>1, <1>5, StepFrom
<1>7. Stage(0, src, inner, there, Place, e)
  BY <1>3 DEF Stage, Matches, Opened
<1>8. PICK d : Decoded(0, src, inner, f.of, there, Place, body, e, d)
  <2>1. Ready(f.of, there, e)
    BY <1>3 DEF Opened
  <2>2. QED
    BY <1>2, <1>6, <1>7, <2>1 DEF Decodes
<1>9. Leaps(f.of, there, body, e, d) /\ Tidy(d) /\ Only(there, Place, e, d)
      /\ Stage(1, src, inner, there, Place, d)
  BY <1>8 DEF Decoded
<1>10. Leaps(m, path, Sent(f, body), c, d)
  BY <1>1, <1>2, <1>4, <1>6, <1>9, ElementLeaps
<1>11. \A y \in Place : s # Below(there, y)
  BY <1>1, <1>5, ApartBelow
<1>12. s \in DOMAIN d /\ d[s] = e[s]
  <2>1. s \in DOMAIN e
    BY <1>3 DEF Opened
  <2>2. QED
    BY <1>9, <1>11, <2>1 DEF Only
<1>13. DOMAIN c \subseteq DOMAIN d
  BY <1>3, <1>9 DEF Opened, Only
<1>14. ASSUME NEW r \in DOMAIN d, r # s, \A y \in Place : r # Below(there, y)
       PROVE  r \in DOMAIN c /\ d[r] = c[r]
  <2>1. r \in DOMAIN e /\ d[r] = e[r]
    BY <1>9, <1>14 DEF Only
  <2>2. QED
    BY <1>3, <1>14, <2>1 DEF Opened
<1>15. OneGrown(src, inner, s, there, c, d)
  BY <1>3, <1>9, <1>12, <1>13, <1>14 DEF OneGrown, Opened
<1>16. QED
  BY <1>10, <1>15

-----------------------------------------------------------------------------
LEMMA BelowApart ==
  ASSUME NEW f \in Field, NEW path \in Path, NEW i \in Nat, NEW j \in Nat, i # j,
         NEW y \in Place, NEW z \in Place
  PROVE  Below(path \o Step(f, i), y) # Below(path \o Step(f, j), z)
<1> DEFINE x == Under(f, i, y)
           u == Under(f, j, z)
<1>1. x \in Parts(f) /\ Below(path, x) = Below(path \o Step(f, i), y)
  BY UnderIs, BelowUnder
<1>2. u \in Parts(f) /\ Below(path, u) = Below(path \o Step(f, j), z)
  BY UnderIs, BelowUnder
<1>3. x # u
  BY UnderDiffers
<1>4. x \in Place /\ u \in Place
  BY <1>1, <1>2 DEF Parts
<1> HIDE DEF x, u
<1>5. Below(path, x) # Below(path, u)
  BY <1>3, <1>4, BelowDiffers
<1>6. QED
  BY <1>1, <1>2, <1>5

(* k elements have come, behind the n there were.                          *)
Element(path, f, i) == path \o Step(f, i)

Enlarged(src, q, path, f, items, s, n, k, c, d) ==
  /\ Tidy(d) /\ DOMAIN c \subseteq DOMAIN d /\ s \in DOMAIN d
  /\ d[s].items = c[s].items \o SubSeq(items, 1, k)
  /\ k # 0 => d[s].set
  /\ \A r \in DOMAIN d :
       r # s /\ (\A i \in 1 .. k : \A y \in Place : r # Below(Element(path, f, n + i), y))
         => r \in DOMAIN c /\ d[r] = c[r]
  /\ \A i \in 1 .. k : Stage(1, src, Element(q, f, i), Element(path, f, n + i), Place, d)

LEMMA GrownNone ==
  ASSUME NEW src, NEW q, NEW path, NEW f, NEW items, NEW c, Tidy(c), NEW s \in DOMAIN c, NEW n
  PROVE  Enlarged(src, q, path, f, items, s, n, 0, c, c)
<1>1. c[s].items \o <<>> = c[s].items
  BY TidyIs, CellIs
<1>2. SubSeq(items, 1, 0) = <<>>
  BY SubSeqEmpty
<1>3. c[s].items \o SubSeq(items, 1, 0) = c[s].items
  BY <1>1, <1>2
<1>4. \A i : i \notin 1 .. 0
  OBVIOUS
<1>5. QED
  BY <1>3, <1>4 DEF Enlarged

LEMMA StageHolds ==
  ASSUME NEW src, NEW inner, NEW there, NEW d, Stage(1, src, inner, there, Place, d),
         NEW e, DOMAIN d \subseteq DOMAIN e, \A y \in Place : LET r == Below(there, y)
           IN  r \in DOMAIN e => r \in DOMAIN d /\ e[r] = d[r]
  PROVE  Stage(1, src, inner, there, Place, e)
<1> SUFFICES ASSUME NEW y \in Place, Below(inner, y) \in DOMAIN src
             PROVE  Matches(1, src[Below(inner, y)], Below(there, y), y, e)
  BY DEF Stage
<1> DEFINE u == src[Below(inner, y)]
           r == Below(there, y)
<1>1. Matches(1, u, r, y, d)
  BY DEF Stage
<1>2. r \in DOMAIN e => r \in DOMAIN d /\ e[r] = d[r]
  OBVIOUS
<1> HIDE DEF u, r
<1>3. Matches(1, u, r, y, e)
  BY <1>1, <1>2, MatchesStill
<1>4. QED
  BY <1>3 DEF u, r

LEMMA GrownMore ==
  ASSUME NEW src, NEW q, NEW path \in Path, NEW f \in Field, NEW items \in Seq(Int),
         NEW s, s = Slot(path, f), NEW c, Tidy(c), s \in DOMAIN c,
         NEW n, n = Len(c[s].items), NEW k \in 1 .. Len(items), items[k] = 0,
         NEW d, Enlarged(src, q, path, f, items, s, n, k - 1, c, d),
         NEW there, there = path \o Step(f, Len(d[s].items) + 1),
         NEW e, OneGrown(src, Element(q, f, k), s, there, d, e)
  PROVE  Enlarged(src, q, path, f, items, s, n, k, c, e)
<1>1. IsCell(c[s]) /\ n \in Nat
  BY TidyIs, CellIs
<1>2. PICK S : c[s].items \in Seq(S)
  BY <1>1 DEF IsCell
<1> DEFINE old == c[s].items
           new == SubSeq(items, 1, k - 1)
<1>3. old \in Seq(S) /\ n = Len(old) /\ d[s].items = old \o new /\ c[s].items = old
  BY <1>2 DEF Enlarged
<1>4. Len(items) \in Nat
  BY LenProperties
<1>5. new \in Seq(Int) /\ Len(new) = k - 1
  <2>1. \A i \in 1 .. k - 1 : i \in 1 .. Len(items)
    BY <1>4
  <2>2. \A i \in 1 .. k - 1 : items[i] \in Int
    BY <2>1, ElementOfSeq
  <2>3. k - 1 \in Int /\ 1 <= (k - 1) + 1
    BY <1>4
  <2>4. QED
    BY <1>4, <2>2, <2>3, SubSeqProperties
<1>6. there = Element(path, f, n + k)
  <2> HIDE DEF old, new
  <2>1. old \in Seq(S \cup Int) /\ new \in Seq(S \cup Int)
    <3>1. S \subseteq S \cup Int /\ Int \subseteq S \cup Int
      OBVIOUS
    <3> DEFINE T == S \cup Int
    <3> HIDE DEF T
    <3>2. S \subseteq T /\ Int \subseteq T
      BY <3>1 DEF T
    <3>3. old \in Seq(T) /\ new \in Seq(T)
      BY <1>3, <1>5, <3>2, SeqMonotonic
    <3>4. QED
      BY <3>3 DEF T
  <2>2. Len(old \o new) = n + (k - 1)
    <3>1. Len(old \o new) = Len(old) + Len(new)
      BY <2>1, Concat
    <3>2. QED
      BY <1>3, <1>5, <3>1
  <2>3. Len(d[s].items) + 1 = n + k
    BY <1>1, <1>3, <1>4, <2>2
  <2>4. QED
    BY <2>3 DEF Element
<1>7. e[s].items = old \o SubSeq(items, 1, k) /\ e[s].set
  <2> HIDE DEF old
  <2>1. Append(old \o new, items[k]) = old \o SubSeq(items, 1, k)
    <3>1. old \in Seq(S)
      BY <1>3
    <3>2. QED
      BY <3>1, OneMore
  <2>2. QED
    BY <1>3, <2>1 DEF OneGrown
<1> HIDE DEF old, new
<1>8. Tidy(e) /\ DOMAIN c \subseteq DOMAIN e /\ s \in DOMAIN e
  BY DEF Enlarged, OneGrown
<1>9. ASSUME NEW r \in DOMAIN e, r # s,
             \A i \in 1 .. k : \A y \in Place : r # Below(Element(path, f, n + i), y)
      PROVE  r \in DOMAIN c /\ e[r] = c[r]
  <2>1. k \in 1 .. k /\ \A i \in 1 .. k - 1 : i \in 1 .. k
    BY <1>4
  <2>2. \A y \in Place : r # Below(there, y)
    BY <1>6, <1>9, <2>1
  <2>3. r \in DOMAIN d /\ e[r] = d[r]
    BY <1>9, <2>2 DEF OneGrown
  <2>4. \A i \in 1 .. k - 1 : \A y \in Place : r # Below(Element(path, f, n + i), y)
    BY <1>9, <2>1
  <2>5. QED
    BY <1>9, <2>3, <2>4 DEF Enlarged
<1>10. ASSUME NEW i \in 1 .. k
       PROVE  Stage(1, src, Element(q, f, i), Element(path, f, n + i), Place, e)
  <2>1. CASE i = k
    BY <1>6, <2>1 DEF OneGrown
  <2>2. CASE i # k
    <3> DEFINE here == Element(path, f, n + i)
    <3>1. i \in 1 .. k - 1 /\ n + i \in Nat /\ n + k \in Nat /\ n + i # n + k
      BY <1>1, <1>4, <2>2
    <3>2. Stage(1, src, Element(q, f, i), here, Place, d)
      BY <3>1 DEF Enlarged
    <3>3. ASSUME NEW y \in Place, Below(here, y) \in DOMAIN e
          PROVE  Below(here, y) \in DOMAIN d /\ e[Below(here, y)] = d[Below(here, y)]
      <4>1. \A z \in Place : Below(here, y) # Below(there, z)
        <5> DEFINE a == n + i
                   b == n + k
        <5>1. a \in Nat /\ b \in Nat /\ a # b
          BY <3>1
        <5>2. here = path \o Step(f, a) /\ there = path \o Step(f, b)
          BY <1>6 DEF Element
        <5> HIDE DEF a, b, here
        <5>3. QED
          BY <5>1, <5>2, BelowApart
      <4>2. Below(here, y) # s
        BY <3>1, ApartBelow DEF Element
      <4> HIDE DEF here
      <4>3. QED
        BY <3>3, <4>1, <4>2 DEF OneGrown
    <3>4. DOMAIN d \subseteq DOMAIN e
      BY DEF OneGrown
    <3> HIDE DEF here
    <3>5. Stage(1, src, Element(q, f, i), here, Place, e)
      BY <3>2, <3>3, <3>4, StageHolds
    <3>6. QED
      BY <3>5 DEF here
  <2>3. QED
    BY <2>1, <2>2
<1>11. QED
  BY <1>3, <1>7, <1>8, <1>9, <1>10 DEF Enlarged

-----------------------------------------------------------------------------
LEMMA EnlargedArrives ==
  ASSUME NEW src, NEW at, Sends(src, at), NEW f \in FieldsOf(at.message),
         f.kind = "message", f.shape = "repeated", NEW v, v = src[Slot(at.path, f)], v.set,
         NEW t \in {0, 1}, NEW path \in Path, NEW c, Ready(at.message, path, c),
         Stage(t, src, at.path, path, Parts(f), c),
         NEW s, s = Slot(path, f), NEW n, n = Len(c[s].items), NEW d,
         Enlarged(src, at.path, path, f, v.items, s, n, Len(v.items), c, d)
  PROVE  Only(path, Parts(f), c, d) /\ Stage(t + 1, src, at.path, path, Parts(f), d)
<1> DEFINE q == at.path
           m == at.message
           items == v.items
           N == Len(items)
<1>1. /\ f \in Field /\ f.of \in Message /\ m \in Message /\ q \in Path
      /\ Slot(q, f) \in DOMAIN src /\ Filled(f, v) /\ Valued(f, v)
  BY FieldSent
<1>2. items \in Seq(Int) /\ items # <<>> /\ v.set = TRUE
  BY <1>1 DEF Filled, Valued
<1>3. s \in DOMAIN c /\ IsCell(c[s]) /\ Tidy(c)
  BY <1>1, ReadyIs
<1>4. items = v.items
  OBVIOUS
<1>5. Came(t, v, c[s])
  BY <1>1, <1>3, AloneBefore
<1> HIDE DEF items
<1>6. N \in Nat /\ N # 0 /\ SubSeq(items, 1, N) = items /\ DOMAIN items = 1 .. N
  BY <1>2, LenProperties, SubSeqFull, EmptySeq
<1>7. Len(v.items) = N
  BY <1>4
<1> HIDE DEF N
<1>8. /\ Tidy(d) /\ DOMAIN c \subseteq DOMAIN d /\ s \in DOMAIN d /\ d[s].set
      /\ d[s].items = c[s].items \o items
      /\ \A r \in DOMAIN d :
           r # s /\ (\A i \in 1 .. N : \A y \in Place : r # Below(Element(path, f, n + i), y))
             => r \in DOMAIN c /\ d[r] = c[r]
      /\ \A i \in 1 .. N : Stage(1, src, Element(q, f, i), Element(path, f, n + i), Place, d)
  BY <1>4, <1>6, <1>7 DEF Enlarged
<1>9. n \in Nat
  BY <1>3, CellIs
<1>10. \A i \in 1 .. N : \A y \in Place :
         /\ Below(Element(path, f, n + i), y) # s
         /\ \E x \in Parts(f) : Below(Element(path, f, n + i), y) = Below(path, x)
  <2> TAKE i \in 1 .. N
  <2> TAKE y \in Place
  <2> DEFINE j == n + i
  <2>1. j \in Nat
    BY <1>9
  <2> HIDE DEF j
  <2>2. /\ Below(Element(path, f, j), y) # s
        /\ \E x \in Parts(f) : Below(Element(path, f, j), y) = Below(path, x)
    BY <1>1, <2>1, ApartBelow DEF Element
  <2>3. QED
    BY <2>2 DEF j
<1>11. Only(path, Parts(f), c, d)
  <2>1. Alone(f) \in Parts(f) /\ Below(path, Alone(f)) = s
    BY <1>1, AloneIs
  <2>2. ASSUME NEW r \in DOMAIN d, \A x \in Parts(f) : r # Below(path, x)
        PROVE  r \in DOMAIN c /\ d[r] = c[r]
    <3>1. r # s
      BY <2>1, <2>2
    <3>2. \A i \in 1 .. N : \A y \in Place : r # Below(Element(path, f, n + i), y)
      BY <1>10, <2>2
    <3>3. QED
      BY <1>8, <3>1, <3>2
  <2>3. QED
    BY <1>8, <2>2 DEF Only
<1>12. Matches(t + 1, v, s, Alone(f), d)
  <2>1. d[s].set = v.set
    <3>1. IsCell(d[s])
      BY <1>8, TidyIs
    <3>2. d[s].set \in BOOLEAN
      BY <3>1, CellIs
    <3>3. QED
      BY <1>2, <1>8, <3>2
  <2>2. d[s].items = Times(items, t + 1)
    <3>1. CASE t = 0
      <4>1. c[s].items = <<>>
        BY <1>5, <3>1 DEF Came
      <4>2. <<>> \o items = items
        BY <1>2, ConcatEmptySeq
      <4>3. t + 1 = 1
        BY <3>1
      <4>4. QED
        BY <1>8, <4>1, <4>2, <4>3 DEF Times
    <3>2. CASE t = 1
      <4>1. c[s].items = items
        BY <1>2, <1>4, <1>5, <3>2 DEF Came
      <4>2. t + 1 # 1
        BY <3>2
      <4>3. QED
        BY <1>8, <4>1, <4>2 DEF Times
    <3>3. QED
      BY <3>1, <3>2
  <2>3. Arrived(t, f, v, s, d)
    BY <1>4, <1>8, <2>1, <2>2 DEF Arrived
  <2>4. QED
    BY <2>3, AloneAfter
<1>13. ASSUME NEW i \in 1 .. N
       PROVE  Stage(1, src, Element(q, f, i), Element(path, f, i), Place, d)
  <2>1. i \in Nat
    BY <1>6
  <2>2. CASE t = 0
    <3>1. n = 0
      BY <1>5, <2>2 DEF Came
    <3>2. n + i = i
      BY <2>1, <3>1
    <3>3. Stage(1, src, Element(q, f, i), Element(path, f, n + i), Place, d)
      BY <1>8
    <3>4. QED
      BY <3>2, <3>3
  <2>3. CASE t = 1
    <3> DEFINE inner == Element(q, f, i)
               there == Element(path, f, i)
    <3>1. Len(c[s].items) = N
      BY <1>2, <1>4, <1>5, <1>7, <2>3 DEF Came
    <3>2. n = N
      BY <3>1
    <3>3. Stage(1, src, inner, there, Place, c)
      <4> SUFFICES ASSUME NEW y \in Place, Below(inner, y) \in DOMAIN src
                   PROVE  Matches(1, src[Below(inner, y)], Below(there, y), y, c)
        BY DEF Stage
      <4> DEFINE x == Under(f, i, y)
      <4>1. x \in Parts(f) /\ x.field = y.field
            /\ Below(q, x) = Below(inner, y) /\ Below(path, x) = Below(there, y)
        BY <1>1, <2>1, UnderIs, BelowUnder DEF Element
      <4> DEFINE u == src[Below(inner, y)]
                 r == Below(there, y)
      <4> HIDE DEF inner, there, x
      <4>2. Matches(1, u, r, x, c)
        BY <2>3, <4>1 DEF Stage
      <4> HIDE DEF u, r
      <4>3. Matches(1, u, r, y, c)
        BY <4>1, <4>2 DEF Matches, Times
      <4>4. QED
        BY <4>3 DEF u, r
    <3>4. ASSUME NEW y \in Place, Below(there, y) \in DOMAIN d
          PROVE  Below(there, y) \in DOMAIN c /\ d[Below(there, y)] = c[Below(there, y)]
      <4> DEFINE r == Below(there, y)
      <4>1. r # s
        BY <1>1, <2>1, ApartBelow DEF Element
      <4>2. ASSUME NEW j \in 1 .. N, NEW z \in Place PROVE r # Below(Element(path, f, n + j), z)
        <5> DEFINE k == n + j
        <5>1. k \in Nat /\ k # i
          BY <1>6, <3>2
        <5>2. Element(path, f, n + j) = path \o Step(f, k) /\ there = path \o Step(f, i)
          BY DEF Element
        <5> HIDE DEF k, there
        <5>3. QED
          BY <1>1, <2>1, <5>1, <5>2, BelowApart, ZenonT(60)
      <4>3. r \in DOMAIN d
        BY <3>4
      <4> HIDE DEF r
      <4>4. r \in DOMAIN c /\ d[r] = c[r]
        BY <1>8, <4>1, <4>2, <4>3
      <4>5. QED
        BY <4>4 DEF r
    <3> HIDE DEF inner, there
    <3>5. Stage(1, src, inner, there, Place, d)
      BY <1>8, <3>3, <3>4, StageHolds
    <3>6. QED
      BY <3>5 DEF inner, there
  <2>4. QED
    BY <2>2, <2>3
<1>14. \A i \in Nat : Leads(src, f, at.path, i) =>
         Stage(IF i = 0 THEN t + 1 ELSE 1, src, at.path \o Step(f, i), path \o Step(f, i), Place, d)
  <2> TAKE i \in Nat
  <2> HAVE Leads(src, f, at.path, i)
  <2>1. i \in 1 .. N
    BY <1>4, <1>6 DEF Leads
  <2>2. i # 0
    BY <2>1
  <2>3. Stage(1, src, Element(q, f, i), Element(path, f, i), Place, d)
    BY <1>13, <2>1
  <2>4. QED
    BY <2>2, <2>3 DEF Element
<1>15. t + 1 \in {1, 2}
  OBVIOUS
<1>16. Stage(t + 1, src, at.path, path, Parts(f), d)
  BY <1>12, <1>14, <1>15, PartsArrive
<1>17. QED
  BY <1>11, <1>16

-----------------------------------------------------------------------------
LEMMA ItemAdds ==
  ASSUME NEW encode, NEW f \in Field, NEW p, NEW body \in Seq(Byte),
         Writes(encode[At(f.of, p)], body), NEW s \in Usable
  PROVE  Adds(s, Sent(f, body), pb_encode_submessage(encode, pb_encode_tag(s, 2, f), f.of, p))
<1> DEFINE t == pb_encode_tag(s, 2, f)
           a == TagOf(f, 2)
           b == pb_encode_varint[Len(body)] \o body
           u == pb_encode_submessage(encode, t, f.of, p)
<1>1. Adds(s, a, t) /\ a \in Seq(Byte)
  BY TagAdds DEF TagOf
<1>2. t \in Usable
  BY <1>1 DEF Adds, Advances
<1> HIDE DEF t, a
<1>3. Adds(t, b, u)
  BY <1>2, SubmessageAdds
<1>4. b \in Seq(Byte)
  <2> DEFINE l == pb_encode_varint[Len(body)]
  <2>1. Len(body) \in Nat
    BY LenProperties
  <2>2. l \in Seq(Byte)
    BY <2>1, EncodingIs
  <2> HIDE DEF l
  <2>3. l \o body \in Seq(Byte)
    BY <2>2, Concat
  <2>4. QED
    BY <2>3 DEF l
<1> HIDE DEF b, u
<1>5. Adds(s, a \o b, u)
  BY <1>1, <1>2, <1>3, <1>4, AddsBoth
<1>6. QED
  BY <1>5 DEF Sent, a, b, t, u

(* What the structures a field leads to are written as.                    *)
IsWritten(encode, src, m, p) ==
  \E body \in Seq(Byte) : Writes(encode[At(m, p)], body) /\ Decodes(src, p, m, Place, body)

PartsWritten(encode, src, f, path) ==
  \A i : Leads(src, f, path, i) => IsWritten(encode, src, f.of, path \o Step(f, i))

(* What the elements so far are read as.                                   *)
Arriving(src, q, m, f, items, k, b) ==
  Len(b) \in Lengths =>
    \A path \in Path : \A c, s, n :
      Ready(m, path, c) /\ s = Slot(path, f) /\ n = Len(c[s].items)
        => \E d : Leaps(m, path, b, c, d) /\ Enlarged(src, q, path, f, items, s, n, k, c, d)

LEMMA ArrivingOn ==
  ASSUME NEW src, NEW at, Sends(src, at), NEW f \in FieldsOf(at.message),
         f.kind = "message", f.shape = "repeated",
         NEW items, items = src[Slot(at.path, f)].items, NEW k \in 1 .. Len(items),
         NEW b \in Seq(Byte), Arriving(src, at.path, at.message, f, items, k - 1, b),
         NEW body \in Seq(Byte), Decodes(src, at.path \o Step(f, k), f.of, Place, body)
  PROVE  b \o Sent(f, body) \in Seq(Byte)
         /\ Arriving(src, at.path, at.message, f, items, k, b \o Sent(f, body))
<1> DEFINE q == at.path
           m == at.message
           x == Sent(f, body)
           y == b \o x
           inner == q \o Step(f, k)
<1>1. f \in Field /\ m \in Message /\ f \in FieldsOf(m) /\ Filled(f, src[Slot(q, f)])
  BY FieldSent
<1>2. items \in Seq(Int) /\ items[k] = 0
  <2>1. \A i \in DOMAIN items : items[i] = 0
    <3> DEFINE v == src[Slot(at.path, f)]
    <3>1. Valued(f, v) /\ items = v.items
      BY FieldSent
    <3> HIDE DEF v
    <3>2. QED
      BY <3>1 DEF Valued
  <2>2. items \in Seq(Int)
    BY <1>1 DEF Filled
  <2>3. DOMAIN items = 1 .. Len(items)
    BY <2>2, LenProperties
  <2>4. QED
    BY <2>1, <2>2, <2>3
<1>3. x \in Seq(Byte)
  BY <1>1, SentIs
<1>4. x = Sent(f, body) /\ inner = Element(q, f, k) /\ Decodes(src, inner, f.of, Place, body)
  BY DEF Element
<1>5. Arriving(src, q, m, f, items, k - 1, b)
  OBVIOUS
<1> HIDE DEF q, m, x, inner
<1>6. y \in Seq(Byte) /\ Len(y) = Len(b) + Len(x)
  BY <1>3, Concat
<1> HIDE DEF y
<1>7. Len(y) \in Lengths => Len(b) \in Lengths /\ Len(x) \in Lengths
  <2> DEFINE p == 2 ^ Bits32
  <2>1. p \in Nat /\ Lengths = 0 .. p - 1
    BY WidthType DEF Lengths
  <2>2. Len(b) \in Nat /\ Len(x) \in Nat
    BY <1>3, LenProperties
  <2> HIDE DEF p
  <2>3. QED
    BY <1>6, <2>1, <2>2
<1>8. ASSUME Len(y) \in Lengths, NEW path \in Path, NEW c, NEW s, NEW n,
             Ready(m, path, c), s = Slot(path, f), n = Len(c[s].items)
      PROVE  \E d : Leaps(m, path, y, c, d) /\ Enlarged(src, q, path, f, items, s, n, k, c, d)
  <2>1. PICK d : Leaps(m, path, b, c, d) /\ Enlarged(src, q, path, f, items, s, n, k - 1, c, d)
    BY <1>5, <1>7, <1>8 DEF Arriving
  <2>2. s \in DOMAIN c /\ Tidy(c)
    BY <1>1, <1>8, ReadyIs
  <2>3. Tidy(d) /\ s \in DOMAIN d
    BY <2>1 DEF Enlarged
  <2> DEFINE there == path \o Step(f, Len(d[s].items) + 1)
  <2>4. there = path \o Step(f, Len(d[s].items) + 1)
    OBVIOUS
  <2> HIDE DEF there
  <2>5. Len(Sent(f, body)) \in Lengths
    BY <1>4, <1>7, <1>8
  <2>6. PICK e : Leaps(m, path, x, d, e) /\ OneGrown(src, inner, s, there, d, e)
    BY <1>1, <1>4, <1>8, <2>3, <2>4, <2>5, ElementDecodes
  <2>7. Leaps(m, path, y, c, e)
    BY <1>3, <2>1, <2>6, LeapsBoth DEF y
  <2>8. OneGrown(src, Element(q, f, k), s, there, d, e)
    BY <1>4, <2>6
  <2>9. Enlarged(src, q, path, f, items, s, n, k, c, e)
    BY <1>1, <1>2, <1>8, <2>1, <2>2, <2>4, <2>8, GrownMore
  <2>10. QED
    BY <2>7, <2>9
<1>9. Arriving(src, q, m, f, items, k, y)
  BY <1>8 DEF Arriving
<1>10. QED
  BY <1>6, <1>9 DEF q, m, x, y

LEMMA ElementsDecode ==
  ASSUME NEW encode, NEW src, NEW at, Sends(src, at), NEW f \in FieldsOf(at.message),
         f.kind = "message", f.shape = "repeated", NEW v, v = src[Slot(at.path, f)], v.set,
         PartsWritten(encode, src, f, at.path)
  PROVE  \E b \in Seq(Byte) :
           /\ \A s \in Usable : Adds(s, b, WriteEach(s, [i \in DOMAIN v.items |->
                [z \in Stream |-> pb_encode_submessage(encode, pb_encode_tag(z, 2, f), f.of,
                                                       at.path \o Step(f, i))]]))
           /\ Decodes(src, at.path, at.message, Parts(f), b)
<1> DEFINE q == at.path
           m == at.message
           items == v.items
           N == Len(items)
           w == [i \in DOMAIN items |->
                  [z \in Stream |-> pb_encode_submessage(encode, pb_encode_tag(z, 2, f), f.of,
                                                         q \o Step(f, i))]]
           good == [k \in 0 .. N |-> {b \in Seq(Byte) : Arriving(src, q, m, f, items, k, b)}]
<1>1. f \in Field /\ m \in Message /\ Filled(f, v)
  BY FieldSent
<1>2. items \in Seq(Int)
  BY <1>1 DEF Filled
<1>3. N \in Nat /\ DOMAIN items = 1 .. N
  <2> HIDE DEF items
  <2>1. QED
    BY <1>2, LenProperties
<1>4. <<>> \in good[0]
  <2>1. <<>> \in Seq(Byte) /\ 0 \in 0 .. N
    BY <1>3
  <2>2. ASSUME NEW path \in Path, NEW c, NEW s, NEW n,
               Ready(m, path, c), s = Slot(path, f), n = Len(c[s].items)
        PROVE  \E d : Leaps(m, path, <<>>, c, d) /\ Enlarged(src, q, path, f, items, s, n, 0, c, d)
    <3>1. s \in DOMAIN c /\ Tidy(c)
      BY <1>1, <2>2, ReadyIs
    <3> HIDE DEF items, q, m
    <3>2. Enlarged(src, q, path, f, items, s, n, 0, c, c)
      BY <3>1, GrownNone
    <3>3. Leaps(m, path, <<>>, c, c)
      BY LeapsNowhere
    <3>4. QED
      BY <3>2, <3>3
  <2>3. Arriving(src, q, m, f, items, 0, <<>>)
    BY <2>2 DEF Arriving
  <2>4. QED
    BY <2>1, <2>3
<1>5. \A k \in 0 .. N : good[k] \subseteq Seq(Byte)
  OBVIOUS
<1>6. ASSUME NEW k \in 1 .. N, NEW b \in good[k - 1]
      PROVE  \E x \in Seq(Byte) : Writes(w[k], x) /\ b \o x \in good[k]
  <2>1. k - 1 \in 0 .. N /\ k \in 0 .. N /\ k \in DOMAIN items
    BY <1>3
  <2>2. b \in Seq(Byte) /\ Arriving(src, q, m, f, items, k - 1, b)
    BY <2>1
  <2>3. Leads(src, f, q, k)
    BY <1>3, <2>1 DEF Leads
  <2>4. PICK body \in Seq(Byte) : Writes(encode[At(f.of, q \o Step(f, k))], body)
                                  /\ Decodes(src, q \o Step(f, k), f.of, Place, body)
    BY <2>3 DEF PartsWritten, IsWritten
  <2> DEFINE x == Sent(f, body)
  <2>5. x \in Seq(Byte)
    BY <1>1, SentIs
  <2>6. Writes(w[k], x)
    <3> DEFINE p == q \o Step(f, k)
               one == [z \in Stream |-> pb_encode_submessage(encode, pb_encode_tag(z, 2, f), f.of, p)]
    <3>1. w[k] = one
      BY <2>1
    <3>2. ASSUME NEW s \in Usable PROVE Adds(s, x, one[s])
      <4>1. s \in Stream
        BY StreamIs
      <4>2. one[s] = pb_encode_submessage(encode, pb_encode_tag(s, 2, f), f.of, p)
        BY <4>1
      <4> HIDE DEF one, p
      <4>3. Writes(encode[At(f.of, p)], body)
        BY <2>4 DEF p
      <4>4. QED
        BY <1>1, <4>2, <4>3, ItemAdds
    <3> HIDE DEF one, x, w
    <3>3. QED
      BY <3>1, <3>2 DEF Writes
  <2>7. b \o x \in Seq(Byte) /\ Arriving(src, q, m, f, items, k, b \o x)
    <3>1. items = src[Slot(at.path, f)].items
      OBVIOUS
    <3> HIDE DEF items
    <3>2. QED
      BY <2>2, <2>4, <3>1, ArrivingOn
  <2> HIDE DEF x, w, items, N
  <2>8. b \o x \in good[k]
    BY <2>1, <2>7
  <2>9. QED
    BY <2>5, <2>6, <2>8
<1>7. DOMAIN w = 1 .. N
  BY <1>3
<1>8. w = [i \in DOMAIN v.items |->
                [z \in Stream |-> pb_encode_submessage(encode, pb_encode_tag(z, 2, f), f.of,
                                                       at.path \o Step(f, i))]]
  OBVIOUS
<1>9. \A b \in good[N] : b \in Seq(Byte) /\ Arriving(src, q, m, f, items, N, b)
  BY <1>3
<1> HIDE DEF w, good
<1>10. PICK b \in good[N] : \A s \in Usable : Adds(s, b, WriteEach(s, w))
  <2> HIDE DEF N
  <2>1. QED
    BY <1>3, <1>4, <1>5, <1>6, <1>7, EachWrites
<1>11. Arriving(src, q, m, f, items, N, b) /\ b \in Seq(Byte)
  BY <1>9
<1>12. Decodes(src, q, m, Parts(f), b)
  <2>1. ASSUME Len(b) \in Lengths, NEW t \in {0, 1}, NEW path \in Path, NEW c,
               Ready(m, path, c), Stage(t, src, q, path, Parts(f), c)
        PROVE  \E d : Decoded(t, src, q, m, path, Parts(f), b, c, d)
    <3> DEFINE s == Slot(path, f)
               n == Len(c[s].items)
    <3>1. s = Slot(path, f) /\ n = Len(c[s].items)
      OBVIOUS
    <3> HIDE DEF n, s
    <3>2. PICK d : Leaps(m, path, b, c, d) /\ Enlarged(src, q, path, f, items, s, n, N, c, d)
      BY <1>11, <2>1, <3>1 DEF Arriving
    <3>3. Only(path, Parts(f), c, d) /\ Stage(t + 1, src, q, path, Parts(f), d)
      BY <2>1, <3>1, <3>2, EnlargedArrives
    <3>4. Tidy(d)
      BY <3>2 DEF Enlarged
    <3>5. QED
      BY <3>2, <3>3, <3>4 DEF Decoded
  <2>2. QED
    BY <2>1 DEF Decodes
<1>13. QED
  BY <1>8, <1>10, <1>11, <1>12

-----------------------------------------------------------------------------
LEMMA NumberWrites ==
  ASSUME NEW f \in Field, NEW n \in Int, NEW s \in Usable
  PROVE  Adds(s, TagOf(f, 0) \o pb_encode_varint[Written(f.kind, n)],
              EncodeScalar(pb_encode_tag(s, 0, f), f.kind, n))
<1> DEFINE t == pb_encode_tag(s, 0, f)
           a == TagOf(f, 0)
           b == pb_encode_varint[Written(f.kind, n)]
           u == EncodeScalar(t, f.kind, n)
<1>1. Adds(s, a, t) /\ a \in Seq(Byte)
  BY TagAdds DEF TagOf
<1>2. t \in Usable
  BY <1>1 DEF Adds, Advances
<1> HIDE DEF t, a
<1>3. Adds(t, b, u) /\ b \in Seq(Byte)
  BY <1>2, ScalarAdds
<1> HIDE DEF b, u
<1>4. Adds(s, a \o b, u)
  BY <1>1, <1>2, <1>3, AddsBoth
<1>5. QED
  BY <1>4 DEF a, b, t, u

LEMMA StringWrites ==
  ASSUME NEW f \in Field, NEW items \in Seq(Byte), NEW s \in Usable
  PROVE  Adds(s, TagOf(f, 2) \o (pb_encode_varint[Len(items)] \o items),
              pb_encode_string(pb_encode_tag(s, 2, f), items))
<1> DEFINE t == pb_encode_tag(s, 2, f)
           a == TagOf(f, 2)
           l == pb_encode_varint[Len(items)]
           b == l \o items
           u == pb_encode_string(t, items)
<1>1. Adds(s, a, t) /\ a \in Seq(Byte)
  BY TagAdds DEF TagOf
<1>2. t \in Usable
  BY <1>1 DEF Adds, Advances
<1> HIDE DEF t, a
<1>3. Adds(t, b, u)
  BY <1>2, StringAdds
<1>4. b \in Seq(Byte)
  <2>1. Len(items) \in Nat
    BY LenProperties
  <2>2. l \in Seq(Byte)
    BY <2>1, EncodingIs
  <2> HIDE DEF l
  <2>3. QED
    BY <2>2, Concat
<1> HIDE DEF b, u
<1>5. Adds(s, a \o b, u)
  BY <1>1, <1>2, <1>3, <1>4, AddsBoth
<1>6. QED
  BY <1>5 DEF a, b, l, t, u

(* A field is written so that it is read.                                  *)
FieldWritten(encode, src, at, f, b) ==
  /\ \A s \in Usable : Adds(s, b, encode_field(encode, s, src, f, at.path))
  /\ Decodes(src, at.path, at.message, Parts(f), b)

LEMMA FieldIsWritten ==
  ASSUME NEW encode, NEW src, NEW at, Sends(src, at), NEW f \in FieldsOf(at.message),
         PartsWritten(encode, src, f, at.path)
  PROVE  \E b \in Seq(Byte) : FieldWritten(encode, src, at, f, b)
<1> DEFINE q == at.path
           v == src[Slot(q, f)]
           wireType == IF f.kind \in Numeric THEN 0 ELSE 2
           Tagged(s) == pb_encode_tag(s, wireType, f)
           Item(s, i) == pb_encode_submessage(encode, Tagged(s), f.of, q \o Step(f, i))
           Result(s) == encode_field(encode, s, src, f, q)
<1>1. /\ f \in Field /\ Filled(f, v) /\ Valued(f, v) /\ (f.shape = "pointer" <=> f.kind = "bytes")
  BY FieldSent
<1>2. /\ f.kind \in Numeric \cup {"bytes", "message"}
      /\ f.shape \in {"optional", "pointer", "repeated"}
      /\ "bytes" \notin Numeric /\ "message" \notin Numeric
  BY <1>1 DEF Field, Shape, Numeric
<1>3. v = src[Slot(q, f)] /\ v.set \in BOOLEAN /\ v.items \in Seq(Int)
  BY <1>1 DEF Filled
<1>4. Absent(f, v) <=> ~v.set
  BY <1>1 DEF Valued, Absent
<1>5. CASE ~v.set
  <2>1. \A s : Result(s) = s
    BY <1>4, <1>5 DEF encode_field
  <2> HIDE DEF Result
  <2>2. <<>> \in Seq(Byte) /\ \A s \in Usable : Adds(s, <<>>, Result(s))
    BY <2>1, AddsNothing
  <2>3. Decodes(src, q, at.message, Parts(f), <<>>)
    BY <1>5, AbsentDecodes
  <2>4. QED
    BY <2>2, <2>3 DEF Result, FieldWritten
<1>6. CASE v.set /\ f.kind = "bytes"
  <2> DEFINE b == TagOf(f, 2) \o (pb_encode_varint[Len(v.items)] \o v.items)
  <2>1. v.items \in Seq(Byte) /\ Decodes(src, q, at.message, Parts(f), b)
    BY <1>6, BytesDecode
  <2>2. \A s : Result(s) = pb_encode_string(pb_encode_tag(s, 2, f), v.items)
    BY <1>2, <1>4, <1>6 DEF encode_field
  <2> DEFINE items == v.items
  <2>3. b \in Seq(Byte) /\ \A s \in Usable : Adds(s, b, pb_encode_string(pb_encode_tag(s, 2, f), v.items))
    <3>1. items \in Seq(Byte) /\ v.items = items
      BY <2>1
    <3> DEFINE l == pb_encode_varint[Len(items)]
               a == TagOf(f, 2)
    <3>2. a \o (l \o items) = b
      OBVIOUS
    <3>3. l \in Seq(Byte) /\ a \in Seq(Byte)
      <4> HIDE DEF items
      <4>1. Len(items) \in Nat /\ 8 * f.tag + 2 \in Nat
        BY <1>1, <3>1, LenProperties DEF Field
      <4>2. QED
        BY <4>1, EncodingIs DEF TagOf
    <3>4. \A s \in Usable : Adds(s, b, pb_encode_string(pb_encode_tag(s, 2, f), items))
      BY <1>1, <3>1, StringWrites
    <3> HIDE DEF items, l, a, b
    <3>5. l \o items \in Seq(Byte)
      BY <3>1, <3>3, Concat
    <3> DEFINE e == l \o items
    <3>6. e \in Seq(Byte) /\ b = a \o e
      BY <3>2, <3>5
    <3> HIDE DEF e
    <3>7. b \in Seq(Byte)
      BY <3>3, <3>6, Concat
    <3>8. QED
      BY <3>1, <3>4, <3>7
  <2> HIDE DEF Result, b
  <2>4. QED
    BY <2>1, <2>2, <2>3 DEF Result, FieldWritten
<1>7. CASE v.set /\ f.kind \in Numeric /\ f.shape = "optional"
  <2> DEFINE n == v.items[1]
             b == TagOf(f, 0) \o pb_encode_varint[Written(f.kind, n)]
  <2>1. n \in ValuesOf(f.kind) /\ Decodes(src, q, at.message, Parts(f), b)
    BY <1>7, NumberDecodes
  <2>2. n \in Int
    <3>1. v.items # <<>>
      BY <1>1, <1>7 DEF Filled
    <3> DEFINE items == v.items
    <3>2. items \in Seq(Int) /\ items # <<>> /\ n = items[1]
      BY <1>3, <3>1
    <3> HIDE DEF items, n
    <3>3. 1 \in 1 .. Len(items)
      BY <3>2, EmptySeq, LenProperties
    <3>4. QED
      BY <3>2, <3>3, ElementOfSeq
  <2>3. \A s : Result(s) = EncodeScalar(pb_encode_tag(s, 0, f), f.kind, n)
    BY <1>2, <1>4, <1>7 DEF encode_field
  <2> HIDE DEF Result, n
  <2>4. \A s \in Usable : Adds(s, b, EncodeScalar(pb_encode_tag(s, 0, f), f.kind, n))
    BY <1>1, <2>2, NumberWrites
  <2>5. b \in Seq(Byte)
    <3> DEFINE l == pb_encode_varint[Written(f.kind, n)]
               a == TagOf(f, 0)
    <3>1. 8 * f.tag + 0 \in Nat /\ Written(f.kind, n) \in Nat
      BY <1>1, <2>2, WrittenIsNumber DEF Field
    <3>2. l \in Seq(Byte) /\ a \in Seq(Byte)
      BY <3>1, EncodingIs DEF TagOf
    <3> HIDE DEF l, a
    <3>3. a \o l \in Seq(Byte)
      BY <3>2, Concat
    <3>4. QED
      BY <3>3 DEF l, a
  <2> HIDE DEF b
  <2>6. QED
    BY <2>1, <2>3, <2>4, <2>5 DEF Result, FieldWritten
<1>8. CASE v.set /\ f.kind \in Numeric /\ f.shape = "repeated"
  <2>1. \A s : Result(s) = EncodePacked(s, f, v.items)
    BY <1>2, <1>4, <1>8 DEF encode_field
  <2> DEFINE items == v.items
  <2>2. items \in Seq(Int) /\ \A i \in DOMAIN items : items[i] \in ValuesOf(f.kind)
    BY <1>1, <1>3, <1>8 DEF Valued
  <2>3. items = v.items
    OBVIOUS
  <2> HIDE DEF items, Result, v
  <2>4. PICK body \in Seq(Byte) : Grows(f.kind, body, items)
                /\ \A s \in Usable : Adds(s, body, EncodeItems(s, f.kind, items))
    BY <1>8, <2>2, PackedFills
  <2> DEFINE b == Sent(f, body)
  <2>5. b \in Seq(Byte)
    BY <1>1, SentIs
  <2>6. Decodes(src, q, at.message, Parts(f), b)
    BY <1>3, <1>8, <2>3, <2>4, PackedDecodes
  <2>7. \A s \in Usable : Adds(s, b, EncodePacked(s, f, items))
    BY <1>1, <2>4, PackedAdds DEF Sent, TagOf
  <2> HIDE DEF b
  <2>8. QED
    BY <2>1, <2>3, <2>5, <2>6, <2>7 DEF Result, FieldWritten
<1>9. CASE v.set /\ f.kind = "message" /\ f.shape = "optional"
  <2>1. \A s : Result(s) = pb_encode_submessage(encode, pb_encode_tag(s, 2, f), f.of, q \o Step(f, 0))
    BY <1>2, <1>4, <1>9 DEF encode_field
  <2>2. Leads(src, f, q, 0)
    BY <1>9 DEF Leads
  <2> DEFINE p == q \o Step(f, 0)
  <2>3. PICK body \in Seq(Byte) : Writes(encode[At(f.of, p)], body)
                                  /\ Decodes(src, p, f.of, Place, body)
    BY <2>2 DEF PartsWritten, IsWritten
  <2> DEFINE b == Sent(f, body)
  <2>4. b \in Seq(Byte)
    BY <1>1, SentIs
  <2>5. Decodes(src, q, at.message, Parts(f), b)
    BY <1>9, <2>3, MessageDecodes
  <2> HIDE DEF Result, p
  <2>6. \A s \in Usable : Adds(s, b, pb_encode_submessage(encode, pb_encode_tag(s, 2, f), f.of, p))
    BY <1>1, <2>3, ItemAdds
  <2> HIDE DEF b
  <2>7. QED
    BY <2>1, <2>4, <2>5, <2>6 DEF Result, FieldWritten, p
<1>10. CASE v.set /\ f.kind = "message" /\ f.shape = "repeated"
  <2> DEFINE W(s) == WriteEach(s, [i \in DOMAIN v.items |->
                [z \in Stream |-> pb_encode_submessage(encode, pb_encode_tag(z, 2, f), f.of,
                                                       at.path \o Step(f, i))]])
  <2>1. \A s : Result(s) = W(s)
    BY <1>2, <1>4, <1>10 DEF encode_field
  <2>2. PICK b \in Seq(Byte) : (\A s \in Usable : Adds(s, b, W(s)))
                               /\ Decodes(src, q, at.message, Parts(f), b)
    BY <1>10, ElementsDecode
  <2> HIDE DEF Result, W
  <2>3. QED
    BY <2>1, <2>2 DEF Result, FieldWritten
<1>11. QED
  BY <1>1, <1>2, <1>3, <1>5, <1>6, <1>7, <1>8, <1>9, <1>10

-----------------------------------------------------------------------------
(* The places of the fields of m up to the k-th, and the bytes of these.   *)
Done(m, k) == {x \in Place : \E i \in 1 .. k : HeadOf(x) = Fields[m][i]}

ReadUpTo(t, src, q, m, path, k, b, c, d) ==
  /\ Leaps(m, path, b, c, d) /\ Ready(m, path, d) /\ Only(path, Place, c, d)
  /\ Stage(t + 1, src, q, path, Done(m, k), d)
  /\ Stage(t, src, q, path, Place \ Done(m, k), d)

ReadsUpTo(src, q, m, k, b) ==
  Len(b) \in Lengths =>
    \A t \in {0, 1}, path \in Path : \A c :
      Ready(m, path, c) /\ Stage(t, src, q, path, Place, c)
        => \E d : ReadUpTo(t, src, q, m, path, k, b, c, d)

LEMMA BothFit ==
  ASSUME NEW a \in Seq(Byte), NEW b \in Seq(Byte)
  PROVE  a \o b \in Seq(Byte)
         /\ Len(a \o b) \in Lengths => Len(a) \in Lengths /\ Len(b) \in Lengths
<1> DEFINE y == a \o b
<1>1. y \in Seq(Byte) /\ Len(y) = Len(a) + Len(b)
  BY Concat
<1> HIDE DEF y
<1> DEFINE p == 2 ^ Bits32
<1>2. p \in Nat /\ Lengths = 0 .. p - 1
  BY WidthType DEF Lengths
<1>3. Len(a) \in Nat /\ Len(b) \in Nat
  BY LenProperties
<1> HIDE DEF p
<1>4. Len(y) \in Lengths => Len(a) \in Lengths /\ Len(b) \in Lengths
  BY <1>1, <1>2, <1>3
<1>5. QED
  BY <1>1, <1>4 DEF y

LEMMA StillReady ==
  ASSUME NEW m, NEW path, NEW c, Ready(m, path, c), NEW d, Tidy(d), NEW X, Only(path, X, c, d)
  PROVE  Ready(m, path, d)
BY DEF Ready, Only

LEMMA FieldsApart ==
  ASSUME NEW m \in Message, NEW k \in DOMAIN Fields[m]
  PROVE  /\ Done(m, k) \subseteq Done(m, k - 1) \cup Parts(Fields[m][k])
         /\ Parts(Fields[m][k]) \subseteq Place \ Done(m, k - 1)
         /\ Parts(Fields[m][k]) \subseteq Done(m, k) /\ Done(m, k - 1) \subseteq Done(m, k)
<1> DEFINE fields == Fields[m]
           N == Len(fields)
<1>1. fields \in Seq(Field)
  BY FieldsAssumption
<1>2. \A i, j \in DOMAIN fields : fields[i].tag = fields[j].tag => i = j
  BY TagsAssumption
<1>3. fields = Fields[m]
  OBVIOUS
<1> HIDE DEF fields
<1>4. N \in Nat /\ DOMAIN fields = 1 .. N
  BY <1>1, LenProperties
<1> HIDE DEF N
<1>5. k \in 1 .. N
  BY <1>3, <1>4
<1>6. ASSUME NEW i \in 1 .. k - 1 PROVE fields[i] # fields[k]
  <2>1. i \in DOMAIN fields /\ k \in DOMAIN fields /\ i # k
    BY <1>4, <1>5
  <2>2. QED
    BY <1>2, <2>1
<1>7. k \in 1 .. k /\ \A i \in 1 .. k : i = k \/ i \in 1 .. k - 1
  BY <1>4, <1>5
<1>8. \A i \in 1 .. k - 1 : i \in 1 .. k
  BY <1>4, <1>5
<1>9. Done(m, k) \subseteq Done(m, k - 1) \cup Parts(Fields[m][k])
  BY <1>7 DEF Done, Parts
<1>10. Parts(Fields[m][k]) \subseteq Place \ Done(m, k - 1)
  BY <1>3, <1>6 DEF Done, Parts
<1>11. Parts(Fields[m][k]) \subseteq Done(m, k) /\ Done(m, k - 1) \subseteq Done(m, k)
  BY <1>7, <1>8 DEF Done, Parts
<1>12. QED
  BY <1>9, <1>10, <1>11

LEMMA StageOf ==
  ASSUME NEW t, NEW src, NEW q, NEW path, NEW X, NEW Y, NEW Z, NEW c, Z \subseteq X \cup Y,
         Stage(t, src, q, path, X, c), Stage(t, src, q, path, Y, c)
  PROVE  Stage(t, src, q, path, Z, c)
BY DEF Stage

LEMMA OneMoreField ==
  ASSUME NEW src, NEW at, Sends(src, at), NEW k \in DOMAIN Fields[at.message],
         NEW a \in Seq(Byte), ReadsUpTo(src, at.path, at.message, k - 1, a),
         NEW b \in Seq(Byte),
         Decodes(src, at.path, at.message, Parts(Fields[at.message][k]), b)
  PROVE  ReadsUpTo(src, at.path, at.message, k, a \o b)
<1> DEFINE q == at.path
           m == at.message
           X == Parts(Fields[m][k])
           old == Done(m, k - 1)
           new == Done(m, k)
<1>1. m \in Message /\ q \in Path
  <2>1. at \in Structures(src)
    BY DEF Sends
  <2>2. QED
    BY <2>1, StructureIs
<1>2. new \subseteq old \cup X /\ X \subseteq Place \ old /\ X \subseteq new /\ old \subseteq new
  BY <1>1, FieldsApart
<1>3. old \subseteq Place /\ X \subseteq Place /\ new \subseteq Place
  BY DEF Done, Parts
<1>4. Decodes(src, q, m, X, b) /\ ReadsUpTo(src, q, m, k - 1, a)
  OBVIOUS
<1> DEFINE y == a \o b
<1>5. Len(y) \in Lengths => Len(a) \in Lengths /\ Len(b) \in Lengths
  BY BothFit
<1>6. ASSUME Len(y) \in Lengths, NEW t \in {0, 1}, NEW path \in Path, NEW c,
             Ready(m, path, c), Stage(t, src, q, path, Place, c)
      PROVE  \E d : ReadUpTo(t, src, q, m, path, k, y, c, d)
  <2>1. PICK d : ReadUpTo(t, src, q, m, path, k - 1, a, c, d)
    BY <1>4, <1>5, <1>6 DEF ReadsUpTo
  <2>2. /\ Leaps(m, path, a, c, d) /\ Ready(m, path, d) /\ Only(path, Place, c, d)
        /\ Stage(t + 1, src, q, path, old, d) /\ Stage(t, src, q, path, Place \ old, d)
    BY <2>1 DEF ReadUpTo
  <2> HIDE DEF X, old, new, q, m, y
  <2>3. Stage(t, src, q, path, X, d)
    BY <1>2, <2>2, StageOf
  <2>4. PICK e : Decoded(t, src, q, m, path, X, b, d, e)
    BY <1>4, <1>5, <1>6, <2>2, <2>3 DEF Decodes
  <2>5. /\ Leaps(m, path, b, d, e) /\ Tidy(e) /\ Only(path, X, d, e)
        /\ Stage(t + 1, src, q, path, X, e)
    BY <2>4 DEF Decoded
  <2>6. Leaps(m, path, y, c, e)
    BY <2>2, <2>5, LeapsBoth DEF y
  <2>7. Ready(m, path, e)
    BY <2>2, <2>5, StillReady
  <2>8. Only(path, Place, c, e)
    BY <1>3, <2>2, <2>5, OnlyBoth
  <2>9. Stage(t + 1, src, q, path, new, e)
    <3>1. \A x \in X : x \notin old
      BY <1>2
    <3>2. Stage(t + 1, src, q, path, old, e)
      BY <1>3, <2>2, <2>5, <3>1, StageStays
    <3>3. QED
      BY <1>2, <2>5, <3>2, StageOf
  <2>10. Stage(t, src, q, path, Place \ new, e)
    <3> DEFINE rest == Place \ new
    <3>1. rest \subseteq Place /\ (\A x \in X : x \notin rest) /\ rest \subseteq Place \ old
      BY <1>2
    <3> HIDE DEF rest
    <3>2. Stage(t, src, q, path, rest, d)
      BY <2>2, <3>1, StageOf
    <3>3. Stage(t, src, q, path, rest, e)
      BY <1>3, <2>5, <3>1, <3>2, StageStays
    <3>4. QED
      BY <3>3 DEF rest
  <2>11. QED
    BY <2>6, <2>7, <2>8, <2>9, <2>10 DEF ReadUpTo, old, new
<1> HIDE DEF y, q, m
<1>7. ReadsUpTo(src, q, m, k, y)
  BY <1>6 DEF ReadsUpTo
<1>8. QED
  BY <1>7 DEF y, q, m

-----------------------------------------------------------------------------
LEMMA SendsDeeper ==
  ASSUME NEW src, NEW at, Sends(src, at), NEW f \in FieldsOf(at.message),
         NEW i, Leads(src, f, at.path, i)
  PROVE  LET b == At(f.of, at.path \o Step(f, i))
         IN  Sends(src, b) /\ Len(b.path) = Len(at.path) + 1
<1> DEFINE p == at.path \o Step(f, i)
           b == At(f.of, p)
<1>1. InMemory(src, Root) /\ Made(src, Root) /\ at \in Structures(src)
  BY DEF Sends
<1>2. b \in Structures(src) /\ Len(b.path) = Len(at.path) + 1
  BY <1>1, LeadsDeeper
<1>3. f \in Field /\ at.path \in Path /\ i \in Nat
  BY FieldSent DEF Leads
<1>4. /\ Len(p) = Len(at.path) + 1 /\ Len(at.path) \in Nat
      /\ p[Len(at.path) + 1] = [field |-> f, item |-> i]
  BY <1>3, StepOnto
<1>5. b.message = f.of /\ b.path = p
  BY DEF At
<1> HIDE DEF b, p
<1>6. TypeAt(Root, p) = f.of
  <2>1. Len(<<>>) = 0
    OBVIOUS
  <2>2. p # <<>>
    BY <1>4, <2>1
  <2>3. p[Len(p)].field = f
    BY <1>4
  <2>4. QED
    BY <2>2, <2>3 DEF TypeAt
<1>7. Sends(src, b)
  BY <1>1, <1>2, <1>5, <1>6 DEF Sends
<1>8. QED
  BY <1>2, <1>7 DEF b, p

(* A structure is written so that it is read, if those below it are.       *)
LEMMA BodyIsWritten ==
  ASSUME NEW src, NEW at, Sends(src, at), NEW e,
         Fields[at.message] # <<>> =>
           \A b \in Structures(src) : Len(b.path) = Len(at.path) + 1 /\ Sends(src, b)
             => IsWritten(e, src, b.message, b.path)
  PROVE  \E body \in Seq(Byte) :
           Writes(Body(e, src, at), body) /\ Decodes(src, at.path, at.message, Place, body)
<1> DEFINE fields == Fields[at.message]
           q == at.path
           m == at.message
           w == [i \in DOMAIN fields |-> [s \in Stream |->
                   encode_field(e, s, src, fields[i], at.path)]]
           N == Len(fields)
           good == [k \in 0 .. N |-> {b \in Seq(Byte) : ReadsUpTo(src, q, m, k, b)}]
<1>1. at \in Structures(src) /\ InMemory(src, Root) /\ Made(src, Root) /\ m = TypeAt(Root, q)
  BY DEF Sends
<1>2. m \in Message /\ q \in Path
  BY <1>1, StructureIs
<1>3. N \in Nat /\ DOMAIN fields = 1 .. N
  <2>1. fields \in Seq(Field)
    BY <1>2, FieldsAssumption
  <2>2. QED
    BY <2>1, LenProperties
<1>4. <<>> \in good[0]
  <2>1. Done(m, 0) = {}
    BY DEF Done
  <2>2. ASSUME NEW t \in {0, 1}, NEW path \in Path, NEW c,
               Ready(m, path, c), Stage(t, src, q, path, Place, c)
        PROVE  ReadUpTo(t, src, q, m, path, 0, <<>>, c, c)
    <3> HIDE DEF q, m
    <3>1. Leaps(m, path, <<>>, c, c) /\ Only(path, Place, c, c)
      BY LeapsNowhere, OnlyNothing
    <3>2. Stage(t + 1, src, q, path, Done(m, 0), c) /\ Stage(t, src, q, path, Place \ Done(m, 0), c)
      BY <2>1, <2>2 DEF Stage
    <3>3. QED
      BY <2>2, <3>1, <3>2 DEF ReadUpTo
  <2> HIDE DEF q, m, N
  <2>3. ReadsUpTo(src, q, m, 0, <<>>)
    BY <2>2 DEF ReadsUpTo
  <2>4. <<>> \in Seq(Byte) /\ 0 \in 0 .. N
    BY <1>3
  <2>5. QED
    BY <2>3, <2>4
<1>5. \A k \in 0 .. N : good[k] \subseteq Seq(Byte)
  OBVIOUS
<1>6. ASSUME NEW k \in 1 .. N, NEW a \in good[k - 1]
      PROVE  \E x \in Seq(Byte) : Writes(w[k], x) /\ a \o x \in good[k]
  <2> DEFINE f == fields[k]
             field(s) == encode_field(e, s, src, f, at.path)
  <2>1. k - 1 \in 0 .. N /\ k \in 0 .. N /\ k \in DOMAIN fields
    BY <1>3
  <2>2. a \in Seq(Byte) /\ ReadsUpTo(src, q, m, k - 1, a)
    BY <2>1
  <2>3. f \in FieldsOf(m)
    BY <2>1 DEF FieldsOf
  <2>4. fields # <<>>
    <3> HIDE DEF fields
    <3>1. QED
      BY <2>1
  <2>5. PartsWritten(e, src, f, q)
    <3> SUFFICES ASSUME NEW j, Leads(src, f, q, j)
                 PROVE  IsWritten(e, src, f.of, q \o Step(f, j))
      BY DEF PartsWritten
    <3> DEFINE b == At(f.of, q \o Step(f, j))
    <3>1. b.message = f.of /\ b.path = q \o Step(f, j)
      BY DEF At
    <3> HIDE DEF f
    <3>2. Sends(src, b) /\ Len(b.path) = Len(q) + 1
      BY <2>3, SendsDeeper
    <3> HIDE DEF b
    <3>3. b \in Structures(src)
      BY <3>2 DEF Sends
    <3>4. IsWritten(e, src, b.message, b.path)
      BY <2>4, <3>2, <3>3
    <3>5. QED
      BY <3>1, <3>4
  <2>6. PICK x \in Seq(Byte) : FieldWritten(e, src, at, f, x)
    <3> HIDE DEF f
    <3>1. QED
      BY <2>3, <2>5, FieldIsWritten
  <2>7. Decodes(src, q, m, Parts(f), x) /\ \A s \in Usable : Adds(s, x, field(s))
    BY <2>6 DEF FieldWritten
  <2>8. \A s \in Usable : w[k][s] = field(s)
    BY <2>1, StreamIs
  <2>9. Writes(w[k], x)
    <3> HIDE DEF w, field, f
    <3>1. QED
      BY <2>7, <2>8 DEF Writes
  <2>10. ReadsUpTo(src, q, m, k, a \o x)
    BY <2>1, <2>2, <2>7, OneMoreField
  <2>11. a \o x \in Seq(Byte)
    BY <2>2, BothFit
  <2> HIDE DEF w, N, fields
  <2>12. a \o x \in good[k]
    BY <2>1, <2>10, <2>11
  <2>13. QED
    BY <2>9, <2>12
<1>7. DOMAIN w = 1 .. N
  BY <1>3
<1>8. Body(e, src, at) = [s \in Stream |-> WriteEach(s, w)]
  BY DEF Body
<1>9. \A b \in good[N] : b \in Seq(Byte) /\ ReadsUpTo(src, q, m, N, b)
  BY <1>3
<1> HIDE DEF w, good
<1>10. PICK body \in good[N] : \A s \in Usable : Adds(s, body, WriteEach(s, w))
  <2> HIDE DEF N
  <2>1. QED
    BY <1>3, <1>4, <1>5, <1>6, <1>7, EachWrites
<1>11. body \in Seq(Byte) /\ ReadsUpTo(src, q, m, N, body)
  BY <1>9
<1>12. Writes(Body(e, src, at), body)
  <2>1. \A s \in Usable : Body(e, src, at)[s] = WriteEach(s, w)
    BY <1>8, StreamIs
  <2>2. QED
    BY <1>10, <2>1 DEF Writes
<1>13. Decodes(src, q, m, Place, body)
  <2>1. ASSUME Len(body) \in Lengths, NEW t \in {0, 1}, NEW path \in Path, NEW c,
               Ready(m, path, c), Stage(t, src, q, path, Place, c)
        PROVE  \E d : Decoded(t, src, q, m, path, Place, body, c, d)
    <3> HIDE DEF N
    <3>1. PICK d : ReadUpTo(t, src, q, m, path, N, body, c, d)
      BY <1>11, <2>1 DEF ReadsUpTo
    <3>2. /\ Leaps(m, path, body, c, d) /\ Ready(m, path, d) /\ Only(path, Place, c, d)
          /\ Stage(t + 1, src, q, path, Done(m, N), d)
      BY <3>1 DEF ReadUpTo
    <3>3. ASSUME NEW x \in Place, Below(q, x) \in DOMAIN src PROVE x \in Done(m, N)
      <4>1. HeadOf(x) \in FieldsOf(TypeAt(Root, q))
        BY <1>1, <1>2, <3>3, SourceParts
      <4>2. HeadOf(x) \in FieldsOf(m)
        BY <1>1, <4>1
      <4>3. QED
        BY <1>3, <4>2 DEF FieldsOf, Done
    <3>4. Stage(t + 1, src, q, path, Place, d)
      BY <3>2, <3>3 DEF Stage
    <3>5. QED
      BY <3>2, <3>4 DEF Decoded, Ready
  <2>2. QED
    BY <2>1 DEF Decodes
<1>14. QED
  BY <1>11, <1>12, <1>13

LEMMA StructureIsWritten ==
  ASSUME NEW src, NEW at, Sends(src, at)
  PROVE  IsWritten(pb_encode(src), src, at.message, at.path)
<1> DEFINE e == pb_encode(src)
           Some(b) == IsWritten(e, src, b.message, b.path)
           All(k) == \A b : Sends(src, b) /\ Len(b.path) >= k => Some(b)
           right == {k \in Nat : All(k)}
<1>1. InMemory(src, Root)
  BY DEF Sends
<1>2. PICK N \in Nat : \A b \in Structures(src) :
        Len(b.path) >= N => Fields[b.message] = <<>>
  BY <1>1, NoneDeeper
<1>3. \A b : Sends(src, b) => b \in Structures(src) /\ b = At(b.message, b.path) /\ Len(b.path) \in Nat
  BY StructureIs DEF Sends
<1>4. \A b \in Structures(src) : e[b] = Body(e, src, b)
  BY <1>1, EncodeIs
<1> HIDE DEF e
<1>5. ASSUME NEW b, Sends(src, b),
             Fields[b.message] # <<>> =>
               \A c \in Structures(src) : Len(c.path) = Len(b.path) + 1 /\ Sends(src, c) => Some(c)
      PROVE  Some(b)
  <2>1. PICK body \in Seq(Byte) :
          Writes(Body(e, src, b), body) /\ Decodes(src, b.path, b.message, Place, body)
    BY <1>5, BodyIsWritten
  <2>2. e[At(b.message, b.path)] = Body(e, src, b)
    BY <1>3, <1>4, <1>5
  <2>3. QED
    BY <2>1, <2>2 DEF IsWritten
<1>6. All(N)
  BY <1>2, <1>3, <1>5
<1>7. \A k \in Nat : All(k + 1) => All(k)
  <2> SUFFICES ASSUME NEW k \in Nat, All(k + 1), NEW b, Sends(src, b), Len(b.path) >= k
               PROVE  Some(b)
    OBVIOUS
  <2>1. ASSUME NEW c \in Structures(src), Len(c.path) = Len(b.path) + 1, Sends(src, c)
        PROVE  Some(c)
    <3>1. Len(b.path) \in Nat
      BY <1>3
    <3>2. Len(c.path) >= k + 1
      BY <2>1, <3>1
    <3>3. QED
      BY <2>1, <3>2
  <2> HIDE DEF Some
  <2>2. QED
    BY <1>5, <2>1
<1> HIDE DEF All
<1>8. right \in SUBSET Nat /\ N \in right
  BY <1>6
<1>9. PICK k \in right : \A l \in right : k <= l
  <2> HIDE DEF right
  <2>1. QED
    BY <1>8, Least
<1>10. k = 0
  <2> SUFFICES ASSUME k # 0 PROVE FALSE
    OBVIOUS
  <2>1. k - 1 \in Nat /\ (k - 1) + 1 = k /\ k \in Nat
    OBVIOUS
  <2>2. k - 1 \in right
    BY <1>7, <2>1
  <2>3. k <= k - 1
    BY <1>9, <2>2
  <2>4. QED
    BY <2>1, <2>3
<1>11. All(0)
  BY <1>10
<1>12. Some(at)
  <2>1. Len(at.path) >= 0
    BY <1>3
  <2> HIDE DEF Some
  <2>2. QED
    BY <1>11, <2>1 DEF All
<1>13. QED
  BY <1>12 DEF e

-----------------------------------------------------------------------------
(* The whole message.  The encoder leaves bytes in the buffer that bring   *)
(* every part of it, and the decoder starts from the defaults.             *)
Carries(src, out) ==
  out \in Seq(Byte) /\ Len(out) \in Lengths /\ Decodes(src, <<>>, Root, Place, out)

Outermost == [base |-> <<>>, message |-> Root, path |-> <<>>, init |-> TRUE,
              left |-> 0, tail |-> <<>>]

Defaults == pb_message_set_to_defaults(Root, <<>>, <<>>)
Start(bytes) == Conf(bytes, <<Reader(Root, <<>>, TRUE, Len(bytes))>>, 0, "none", Defaults)
End(d)       == Conf(<<>>, <<Reader(Root, <<>>, TRUE, 0)>>, 0, "true", d)

Bound(t, src, x) == \E d : Leading(x, End(d)) /\ Stage(t, src, <<>>, <<>>, Place, d)

LEMMA SampleSends ==
  ASSUME NEW src \in Samples
  PROVE  /\ Sends(src, At(Root, <<>>)) /\ InMemory(src, Root)
         /\ pb_encode(src)[At(Root, <<>>)][Sizing].written < 2 ^ Bits32
<1>1. InMemory(src, Root) /\ Made(src, Root)
  BY SamplesAssumption
<1>2. At(Root, <<>>) \in Structures(src)
  BY <1>1 DEF InMemory
<1>3. At(Root, <<>>).message = Root /\ At(Root, <<>>).path = <<>>
  BY DEF At
<1>4. TypeAt(Root, <<>>) = Root
  BY DEF TypeAt
<1>5. Sends(src, At(Root, <<>>))
  BY <1>1, <1>2, <1>3, <1>4 DEF Sends
<1>6. pb_encode(src)[At(Root, <<>>)][Sizing].written < 2 ^ Bits32
  BY <1>1 DEF Made
<1>7. QED
  BY <1>1, <1>5, <1>6

LEMMA BufferStarts ==
  ASSUME NEW n \in Nat
  PROVE  /\ Buffer(n) \in Usable /\ Buffer(n).ok /\ Buffer(n).callback /\ Buffer(n).out = <<>>
         /\ Buffer(n) = [Buffer(n) EXCEPT !.out = <<>>]
<1> DEFINE b == [Buffer(n) EXCEPT !.out = <<>>]
<1>1. b = Buffer(n)
  <2> DEFINE c == [Sizing EXCEPT !.callback = TRUE]
             d == [c EXCEPT !.max_size = n]
  <2>1. Sizing \in Stream /\ Sizing.out = <<>>
    BY SizingIs, StreamIs DEF Sizing
  <2>2. c \in Stream /\ c.out = <<>>
    BY <2>1 DEF Stream
  <2> HIDE DEF c
  <2>3. d \in Stream /\ d.out = <<>>
    BY <2>2 DEF Stream
  <2>4. Buffer(n) = d
    BY DEF Buffer, c
  <2> HIDE DEF d
  <2>5. d = [d EXCEPT !.out = <<>>]
    BY <2>3 DEF Stream
  <2>6. QED
    BY <2>4, <2>5
<1>2. <<>> \in Seq(Byte)
  OBVIOUS
<1>3. b \in Usable
  BY <1>2, BufferIs
<1>4. Buffer(n).ok /\ Buffer(n).callback /\ Buffer(n).out = <<>>
  BY DEF Buffer, Sizing
<1>5. QED
  BY <1>1, <1>3, <1>4

LEMMA MessageIsSent ==
  ASSUME NEW src \in Samples, NEW n, n = pb_encode(src)[At(Root, <<>>)][Sizing].written,
         NEW t, t = pb_encode(src)[At(Root, <<>>)][Buffer(n)]
  PROVE  Carries(src, t.out) /\ t.callback
<1> DEFINE w == pb_encode(src)[At(Root, <<>>)]
<1>1. At(Root, <<>>).message = Root /\ At(Root, <<>>).path = <<>>
  BY DEF At
<1>2. PICK body \in Seq(Byte) : Writes(w, body) /\ Decodes(src, <<>>, Root, Place, body)
  BY <1>1, SampleSends, StructureIsWritten DEF IsWritten
<1>3. Len(body) \in Nat
  BY LenProperties
<1>4. n < 2 ^ Bits32 /\ n = w[Sizing].written
  BY SampleSends
<1>5. InMemory(src, Root)
  BY SampleSends
<1>6. \A k \in Nat : k = w[Sizing].written => w[Buffer(k)].ok
  BY <1>5, PassesAgree
<1> HIDE DEF w
<1>7. Advances(Sizing, Len(body), w[Sizing])
  BY <1>2, SizingIs DEF Writes, Adds
<1>8. w[Sizing].written = Len(body)
  BY <1>3, <1>7, SizingIs
<1>9. Adds(Buffer(n), body, w[Buffer(n)])
  BY <1>2, <1>3, <1>4, <1>8, BufferStarts DEF Writes
<1>10. w[Buffer(n)].ok
  BY <1>3, <1>4, <1>6, <1>8
<1>11. w[Buffer(n)].out = <<>> \o body
  BY <1>3, <1>4, <1>8, <1>9, <1>10, BufferStarts DEF Adds
<1>12. w[Buffer(n)].out = body
  BY <1>11
<1>13. Len(body) \in Lengths
  <2> DEFINE p == 2 ^ Bits32
  <2>1. p \in Nat
    BY WidthType
  <2> HIDE DEF p
  <2>2. Len(body) < p => Len(body) \in 0 .. p - 1
    BY <1>3, <2>1
  <2>3. QED
    BY <1>4, <1>8, <2>2 DEF Lengths, p
<1>14. w[Buffer(n)].callback
  <2>1. Buffer(n) = [Buffer(n) EXCEPT !.out = <<>>] /\ <<>> \in Seq(Byte)
    BY <1>3, <1>4, <1>8, BufferStarts
  <2>2. Advances([Buffer(n) EXCEPT !.out = <<>>], n, w[Buffer(n)])
    BY <1>4, <1>8, <1>9, <2>1 DEF Adds
  <2>3. n \in Nat
    BY <1>3, <1>4, <1>8
  <2>4. QED
    BY <2>1, <2>2, <2>3, BufferIs
<1>15. QED
  BY <1>2, <1>12, <1>13, <1>14 DEF Carries, w

LEMMA StartIs ==
  /\ Outermost \in Calls /\ Outermost.message = Root /\ Outermost.path = <<>>
  /\ \A b \in Seq(Byte) : Before(Outermost, b, 0, Defaults) = Start(b)
  /\ \A d : After(Outermost, 0, d) = Conf(<<>>, <<Reader(Root, <<>>, TRUE, 0)>>, 0, "none", d)
  /\ <<>> \in Path /\ Root \in Message
  /\ Reader(Root, <<>>, TRUE, 0) \in Emptied
  /\ Append(<<>>, Reader(Root, <<>>, TRUE, 0)) = <<Reader(Root, <<>>, TRUE, 0)>>
<1>1. <<>> \in Path /\ Root \in Message
  BY EmptySeq, NoiseAssumption DEF Path
<1>2. <<>> \in Seq(Frame) /\ <<>> \in Seq(Byte)
  OBVIOUS
<1>3. /\ Outermost.base = <<>> /\ Outermost.message = Root /\ Outermost.path = <<>>
      /\ Outermost.init = TRUE /\ Outermost.left = 0 /\ Outermost.tail = <<>>
  BY DEF Outermost
<1>4. Outermost \in Calls
  BY <1>1, <1>2 DEF Outermost, Calls
<1>5. \A r : Append(<<>>, r) = <<r>>
  OBVIOUS
<1>6. ASSUME NEW b \in Seq(Byte)
      PROVE  Before(Outermost, b, 0, Defaults) = Start(b)
  <2>1. b \o <<>> = b
    BY ConcatEmptySeq
  <2>2. Len(b) + 0 = Len(b)
    BY LenProperties
  <2>3. QED
    BY <1>3, <1>5, <2>1, <2>2 DEF Before, Start, ReaderOf
<1>7. \A d : After(Outermost, 0, d) = Conf(<<>>, <<Reader(Root, <<>>, TRUE, 0)>>, 0, "none", d)
  BY <1>3, <1>5 DEF After, ReaderOf
<1>8. Reader(Root, <<>>, TRUE, 0) \in Emptied
  BY <1>1 DEF Emptied, Reader, Frame
<1>9. QED
  BY <1>1, <1>3, <1>4, <1>5, <1>6, <1>7, <1>8

(* The memory that the decoder starts from has nothing of the message.     *)
LEMMA DefaultsAre ==
  ASSUME NEW src
  PROVE  Ready(Root, <<>>, Defaults) /\ Stage(0, src, <<>>, <<>>, Place, Defaults)
<1>1. Root \in Message
  BY NoiseAssumption
<1>2. Sound(Defaults, {}) /\ Structure(Root, <<>>) \subseteq DOMAIN Defaults
  BY <1>1, SoundAtFirst DEF Defaults
<1>3. \A s \in DOMAIN Defaults : Defaults[s] = Null
  BY DEF Defaults, pb_message_set_to_defaults
<1>4. QED
  BY <1>2, <1>3 DEF Ready, Tidy, Stage, Matches

(* The end of the outermost call is one step more.                         *)
LEMMA ReachesEnd ==
  ASSUME NEW b \in Seq(Byte), NEW d, Leaps(Root, <<>>, b, Defaults, d)
  PROVE  Leading(Start(b), End(d))
<1> DEFINE r == Reader(Root, <<>>, TRUE, 0)
           z == Conf(<<>>, <<r>>, 0, "none", d)
<1>1. Leading(Start(b), z)
  BY StartIs DEF Leaps
<1>2. EndsCall(z, End(d))
  <2>1. <<>> \in Seq(Frame) /\ <<>> \in Seq(Byte)
    OBVIOUS
  <2>2. r \in Emptied /\ Append(<<>>, r) = <<r>>
    BY StartIs
  <2> HIDE DEF r
  <2>3. z = Conf(<<>>, Append(<<>>, r), 0, "none", d)
    BY <2>2
  <2>4. End(d) = Conf(<<>>, Append(<<>>, r), 0, "true", d)
    BY <2>2 DEF End, r
  <2>5. QED
    BY <2>1, <2>2, <2>3, <2>4 DEF EndsCall
<1> HIDE DEF z
<1>3. QED
  BY <1>1, <1>2, LeadingOnce, LeadingOn DEF Follows

(* It decodes what came, and the same again.                               *)
LEMMA MessageLeads ==
  ASSUME NEW src, NEW out, Carries(src, out), NEW t \in {1, 2}
  PROVE  Times(out, t) \in Seq(Byte) /\ Bound(t, src, Start(Times(out, t)))
<1>1. /\ out \in Seq(Byte) /\ Len(out) \in Lengths
      /\ Decodes(src, <<>>, Root, Place, out)
  BY DEF Carries
<1>2. <<>> \in Path
  BY StartIs
<1>3. ASSUME NEW k \in {0, 1}, NEW c, Ready(Root, <<>>, c), Stage(k, src, <<>>, <<>>, Place, c)
      PROVE  \E d : Decoded(k, src, <<>>, Root, <<>>, Place, out, c, d)
  BY <1>1, <1>2, <1>3 DEF Decodes
<1>4. PICK d : Decoded(0, src, <<>>, Root, <<>>, Place, out, Defaults, d)
  BY <1>3, DefaultsAre
<1>5. /\ Leaps(Root, <<>>, out, Defaults, d) /\ Stage(1, src, <<>>, <<>>, Place, d)
      /\ Ready(Root, <<>>, d)
  <2>1. /\ Leaps(Root, <<>>, out, Defaults, d) /\ Stage(0 + 1, src, <<>>, <<>>, Place, d)
        /\ Tidy(d) /\ Only(<<>>, Place, Defaults, d)
    BY <1>4 DEF Decoded
  <2>2. 0 + 1 = 1
    OBVIOUS
  <2>3. Ready(Root, <<>>, d)
    BY <2>1, DefaultsAre DEF Ready, Only
  <2>4. QED
    BY <2>1, <2>2, <2>3
<1>6. CASE t = 1
  <2>1. Times(out, t) = out
    BY <1>6 DEF Times
  <2>2. QED
    BY <1>1, <1>5, <1>6, <2>1, ReachesEnd DEF Bound
<1>7. CASE t = 2
  <2>1. Times(out, t) = out \o out /\ out \o out \in Seq(Byte)
    BY <1>1, <1>7 DEF Times
  <2>2. PICK e : Decoded(1, src, <<>>, Root, <<>>, Place, out, d, e)
    BY <1>3, <1>5
  <2>3. Leaps(Root, <<>>, out, d, e) /\ Stage(1 + 1, src, <<>>, <<>>, Place, e)
    BY <2>2 DEF Decoded
  <2>4. 1 + 1 = 2
    OBVIOUS
  <2>5. Leaps(Root, <<>>, out \o out, Defaults, e)
    BY <1>1, <1>5, <2>3, LeapsBoth
  <2>6. Leading(Start(out \o out), End(e))
    BY <2>1, <2>5, ReachesEnd
  <2>7. QED
    BY <1>7, <2>1, <2>3, <2>4, <2>6 DEF Bound
<1>8. QED
  BY <1>6, <1>7

(* What was sent has come t times.                                         *)
HasAll(t, src, c) ==
  \A s \in DOMAIN src :
    /\ s \in DOMAIN c /\ c[s].set = src[s].set
    /\ src[s].set => c[s].items =
         IF s.field.shape = "repeated" /\ InPlace(s.path)
         THEN Times(src[s].items, t) ELSE src[s].items

LEMMA StageEnds ==
  ASSUME NEW t \in {1, 2}, NEW src, InMemory(src, Root), NEW c,
         Stage(t, src, <<>>, <<>>, Place, c)
  PROVE  HasAll(t, src, c)
<1> SUFFICES ASSUME NEW s \in DOMAIN src
             PROVE  /\ s \in DOMAIN c /\ c[s].set = src[s].set
                    /\ src[s].set => c[s].items =
                         IF s.field.shape = "repeated" /\ InPlace(s.path)
                         THEN Times(src[s].items, t) ELSE src[s].items
  BY DEF HasAll
<1>1. s \in Place
  BY DEF InMemory, Place
<1>2. Below(<<>>, s) = s
  <2>1. s.path \in Seq(Hop) /\ s = Slot(s.path, s.field)
    BY <1>1, PlaceHas
  <2>2. <<>> \o s.path = s.path
    BY <2>1, ConcatEmptySeq
  <2>3. QED
    BY <2>1, <2>2 DEF Below
<1>3. Matches(t, src[s], s, s, c)
  BY <1>1, <1>2 DEF Stage
<1>4. QED
  BY <1>3 DEF Matches

(* A decoder on the way has calls that run.                                *)
LEMMA BehindSome ==
  ASSUME NEW q, \E S : q \in Seq(S), NEW e, NEW r, r = Append(q, e)
  PROVE  r # <<>> /\ \E S : r \in Seq(S)
<1>1. (\E S : r \in Seq(S)) /\ Len(r) = Len(q) + 1 /\ Len(q) \in Nat
  BY AppendAny
<1>2. Len(r) # 0
  BY <1>1
<1>3. r = <<>> => Len(r) = 0
  OBVIOUS
<1>4. QED
  BY <1>1, <1>2, <1>3

LEMMA FollowsInCall ==
  ASSUME NEW x, NEW y, Follows(x, y)
  PROVE  x.calls # <<>>
<1>1. ASSUME NEW g \in Calls, NEW b, NEW n, NEW k, NEW c,
             x = Before(g, b, k, c) \/ x = Outside(g, b, n, k, c)
      PROVE  x.calls # <<>>
  <2>1. \E S : g.base \in Seq(S)
    BY CallIs
  <2>2. \A e : Append(g.base, e) # <<>>
    BY <2>1, BehindSome
  <2>3. \/ x.calls = Append(g.base, ReaderOf(g, Len(b) + g.left))
        \/ x.calls = Append(g.base, ReaderOf(g, Len(b) + (n + g.left)))
    BY <1>1 DEF Before, Outside, Conf
  <2>4. QED
    BY <2>2, <2>3
<1>2. CASE ReadsTag(x, y)
  BY <1>1, <1>2 DEF ReadsTag
<1>3. CASE ReadsNumber(x, y)
  BY <1>1, <1>3 DEF ReadsNumber
<1>4. CASE ReadsBytes(x, y)
  BY <1>1, <1>4 DEF ReadsBytes
<1>5. CASE OpensMessage(x, y)
  BY <1>1, <1>5 DEF OpensMessage
<1>6. CASE OpensElement(x, y)
  BY <1>1, <1>6 DEF OpensElement
<1>7. CASE OpensPacked(x, y)
  BY <1>1, <1>7 DEF OpensPacked
<1>8. CASE ReadsItem(x, y)
  <2>1. PICK g \in Calls, n \in Nat, more \in Nat, s \in Place :
          \E v \in ValuesOf(s.field.kind) : \E c :
            LET b    == pb_encode_varint[Written(s.field.kind, v)]
                left == Len(b) + more
                base == Append(g.base, ReaderOf(g, g.left))
                room == IF Crowded(c, s, n) THEN NextRoom(left, n) ELSE n
            IN  /\ s.field.kind \in Numeric
                /\ x = Conf(b \o g.tail, Append(base, Filler(s, left, n)), 0, "none", c)
                /\ y = Conf(g.tail, Append(base, Filler(s, more, room)), 0, "none",
                            PackedMore(c, s, v, left, n))
    BY Zenon, <1>8 DEF ReadsItem
  <2> DEFINE q == Append(g.base, ReaderOf(g, g.left))
  <2>2. \E f : x.calls = Append(q, f)
    BY <2>1 DEF Conf
  <2>3. \E S : g.base \in Seq(S)
    BY CallIs
  <2>4. \E S : q \in Seq(S)
    BY <2>3, BehindSome
  <2> HIDE DEF q
  <2>5. QED
    BY <2>2, <2>4, BehindSome
<1>9. CASE EndsCall(x, y) \/ Returns(x, y)
  <2>1. PICK base \in Seq(Frame) : \E f, tail, a, c :
          x = Conf(tail, Append(base, f), 0, a, c)
    BY <1>9 DEF EndsCall, Returns
  <2>2. \E f : x.calls = Append(base, f)
    BY <2>1 DEF Conf
  <2>3. \E S : base \in Seq(S)
    BY <2>1
  <2>4. QED
    BY <2>2, <2>3, BehindSome
<1>10. QED
  BY <1>2, <1>3, <1>4, <1>5, <1>6, <1>7, <1>8, <1>9 DEF Follows

LEMMA LeadingInCall ==
  ASSUME NEW x, NEW d, Leading(x, End(d))
  PROVE  x.calls # <<>>
<1>1. CASE x = End(d)
  <2>1. x.calls = <<Reader(Root, <<>>, TRUE, 0)>>
    BY <1>1 DEF End, Conf
  <2>2. QED
    BY <2>1
<1>2. CASE \E y : Follows(x, y)
  BY <1>2, FollowsInCall
<1>3. QED
  BY <1>1, <1>2, LeadingFirst

-----------------------------------------------------------------------------
(* A decoder whose input is the message, t times, is on the way to its     *)
(* end, or memory has run out; then it has the message.                    *)
Nears(t) ==
  input = Times(ostream.out, t) =>
    /\ state = "decoding" => Broken \/ Bound(t, source, Now)
    /\ state = "decoded"  => errmsg = "realloc failed" \/ (answer = "true" /\ Agrees(t))

ArrivalInv ==
  /\ DInv /\ FirstPassCounted
  /\ ostream.callback => Carries(source, ostream.out)
  /\ ~ostream.callback => state = "idle"
  /\ \A t \in {1, 2} : Nears(t)

LEMMA ReceivedBytes ==
  ASSUME NEW out \in Seq(Byte), NEW bytes \in Received(out)
  PROVE  bytes \in Seq(Byte)
<1>1. CASE bytes \in {out, out \o out}
  <2>1. out \o out \in Seq(Byte)
    BY ConcatProperties
  <2>2. bytes = out \/ bytes = out \o out
    BY <1>1
  <2>3. QED
    BY <2>1, <2>2
<1>2. CASE \E n \in 0 .. Len(out) : bytes = SubSeq(out, 1, n)
  <2>1. PICK n \in 0 .. Len(out) : bytes = SubSeq(out, 1, n)
    BY <1>2
  <2>2. n \in Nat /\ n <= Len(out) /\ 0 \in Nat /\ 0 <= n /\ 0 + 1 = 1
    BY <2>1, LenProperties
  <2>3. SubSeq(out, 0 + 1, n) \in Seq(Byte)
    BY <2>2, SliceIs
  <2>4. QED
    BY <2>1, <2>2, <2>3
<1>3. CASE \E i \in DOMAIN out, b \in Noise : bytes = [out EXCEPT ![i] = b]
  <2>1. PICK i \in DOMAIN out, b \in Noise : bytes = [out EXCEPT ![i] = b]
    BY <1>3
  <2>2. b \in Byte
    BY NoiseAssumption
  <2>3. DOMAIN bytes = 1 .. Len(out) /\ Len(out) \in Nat
    BY <2>1, LenProperties
  <2>4. \A j \in 1 .. Len(out) : bytes[j] \in Byte
    BY <2>1, <2>2, ElementOfSeq
  <2>5. bytes = [j \in 1 .. Len(out) |-> bytes[j]]
    BY <2>1, <2>3
  <2>6. QED
    BY <2>3, <2>4, <2>5, IsASeq
<1>4. QED
  BY <1>1, <1>2, <1>3 DEF Received

LEMMA StepsDecode ==
  ASSUME DInv, DecoderStep
  PROVE  state = "decoding"
<1>1. frames # <<>>
  <2>1. frames = <<>> => Len(frames) = 0
    OBVIOUS
  <2>2. EndMessage \/ DecodeTag \/ SkipField => frames # <<>>
    BY DEF EndMessage, DecodeTag, SkipField, Runs
  <2>3. DecodeField => frames # <<>>
    BY DEF DecodeField, Runs
  <2>4. PackedItem \/ PackedCannotGrow \/ EndPacked => frames # <<>>
    BY DEF PackedItem, PackedCannotGrow, EndPacked, Runs
  <2>5. Close \/ Finish => frames # <<>>
    BY <2>1 DEF Close, Finish
  <2>6. QED
    BY <2>2, <2>3, <2>4, <2>5 DEF DecoderStep
<1>2. QED
  BY <1>1 DEF DInv, Outcome

LEMMA DecodingNears ==
  ASSUME DInv, DInv', InMemory(source, Root), DecoderStep, UNCHANGED sender,
         NEW t \in {1, 2}, Nears(t)
  PROVE  Nears(t)'
<1>1. source' = source /\ ostream' = ostream /\ input' = input
  BY StepsKeepInput DEF sender
<1> SUFFICES ASSUME input = Times(ostream.out, t)
             PROVE  /\ state' = "decoding" => Broken' \/ Bound(t, source, Now')
                    /\ state' = "decoded" =>
                         errmsg' = "realloc failed" \/ (answer' = "true" /\ Agrees(t)')
  BY <1>1 DEF Nears, Bound
<1>2. Broken \/ Bound(t, source, Now)
  BY StepsDecode DEF Nears
<1>3. CASE Broken'
  BY <1>3 DEF Broken
<1>4. CASE Broken
  BY <1>3, <1>4, BrokenStays
<1>5. CASE ~Broken' /\ Bound(t, source, Now)
  <2>1. PICK d : Leading(Now, End(d)) /\ Stage(t, source, <<>>, <<>>, Place, d)
    BY <1>5 DEF Bound
  <2>2. Now = End(d) \/ Leading(Now', End(d))
    BY <1>5, <2>1, StaysOnTheWay
  <2>3. CASE Now = End(d)
    <3>1. state' = "decoded" /\ answer' = "true" /\ cells' = d
      BY <2>3, LastStep DEF End
    <3>2. HasAll(t, source, d)
      BY <2>1, StageEnds
    <3>3. Agrees(t)'
      BY <1>1, <3>1, <3>2 DEF Agrees, HasAll
    <3>4. QED
      BY <3>1, <3>3
  <2>4. CASE Leading(Now', End(d))
    <3>1. Now'.calls # <<>>
      BY <2>4, LeadingInCall
    <3>2. Now'.calls = frames'
      BY DEF Now, Conf
    <3>3. state' = "decoding"
      BY <3>1, <3>2 DEF DInv, Outcome
    <3>4. Bound(t, source, Now')
      BY <2>1, <2>4 DEF Bound
    <3>5. QED
      BY <3>3, <3>4
  <2>5. QED
    BY <2>2, <2>3, <2>4
<1>6. QED
  BY <1>2, <1>3, <1>4, <1>5

LEMMA ArrivalStarts ==
  ASSUME DInv, ArrivalInv, Arrives
  PROVE  DInv' /\ \A t \in {1, 2} : Nears(t)'
<1>1. source' = source /\ ostream' = ostream /\ Carries(source, ostream.out)
  BY DEF Arrives, ArrivalInv, sender
<1>2. PICK bytes \in Received(ostream.out) : pb_decode(bytes, Root)
  BY DEF Arrives
<1>3. bytes \in Seq(Byte)
  BY <1>1, <1>2, ReceivedBytes DEF Carries
<1>4. DInv'
  BY <1>2, <1>3, NoiseAssumption, DInvStays DEF DecoderNext
<1>5. state' = "decoding" /\ input' = bytes
  BY <1>2 DEF pb_decode
<1>6. Now' = Start(bytes)
  <2>1. /\ pos' = 0 /\ key' = 0 /\ answer' = "none"
        /\ frames' = <<[MessageFrame(Root, <<>>, TRUE) EXCEPT !.left = Len(bytes)]>>
        /\ cells' = Defaults
    BY <1>2 DEF pb_decode, Defaults
  <2>2. frames' = <<Reader(Root, <<>>, TRUE, Len(bytes))>>
    BY <2>1, ReaderFrame
  <2>3. Rest' = bytes
    <3>1. Rest' = SubSeq(bytes, 1, Len(bytes))
      BY <1>5, <2>1 DEF Rest
    <3>2. QED
      BY <1>3, <3>1
  <2>4. QED
    BY <2>1, <2>2, <2>3 DEF Now, Start
<1>7. ASSUME NEW t \in {1, 2}
      PROVE  Nears(t)'
  <2>1. bytes = Times(ostream.out, t) => Bound(t, source, Start(bytes))
    BY <1>1, MessageLeads
  <2>2. bytes = Times(ostream.out, t) => Bound(t, source, Now')
    BY <1>6, <2>1
  <2>3. QED
    BY <1>1, <1>5, <2>2 DEF Nears, Bound
<1>8. QED
  BY <1>4, <1>7

(* A message that arrives as it was sent is decoded, unless memory runs    *)
(* out, and every field has its value, also in the messages and arrays     *)
(* within it; one that comes twice in a row is the message with each array *)
(* of the message itself repeated: whatever the types, their fields and    *)
(* the values that are sent (pb_encode.c:511-765, pb_decode.c:930-1614).   *)
THEOREM WhatIsSentArrives == Spec => []RoundTrip
<1>1. Init => ArrivalInv
  <2> SUFFICES ASSUME Init PROVE ArrivalInv
    OBVIOUS
  <2>1. DInv /\ state = "idle"
    BY DInvAtFirst DEF Init, DecoderInit
  <2>2. source \in Samples /\ ~Unsent.callback /\ Unsent # Sizing /\ ostream = Unsent
    BY DEF Init, Unsent, Sizing
  <2>3. \A t \in {1, 2} : Nears(t)
    BY <2>1 DEF Nears
  <2>4. QED
    BY <2>1, <2>2, <2>3 DEF ArrivalInv, FirstPassCounted
<1>2. ArrivalInv /\ [Next]_vars => ArrivalInv'
  <2> SUFFICES ASSUME ArrivalInv, [Next]_vars PROVE ArrivalInv'
    OBVIOUS
  <2>1. source \in Samples /\ InMemory(source, Root) /\ DInv
    BY SamplesAssumption DEF ArrivalInv, FirstPassCounted
  <2>2. CASE FirstPass
    <3>1. ~ostream.callback /\ ~Sizing.callback
      BY <2>2 DEF FirstPass, Unsent, Sizing
    <3>2. state = "idle"
      BY <3>1 DEF ArrivalInv
    <3>3. state' = "idle" /\ UNCHANGED decoder
      BY <2>2, <3>2 DEF FirstPass, decoder
    <3>4. DInv'
      BY <2>1, <3>3, DInvStays
    <3>5. \A t \in {1, 2} : Nears(t)'
      BY <3>3 DEF Nears
    <3>6. FirstPassCounted'
      BY <2>1, <2>2 DEF FirstPass, FirstPassCounted
    <3>7. QED
      BY <2>2, <3>1, <3>3, <3>4, <3>5, <3>6 DEF FirstPass, ArrivalInv
  <2>3. CASE SecondPass
    <3>1. ~ostream.callback
      BY <2>3 DEF SecondPass, Sizing
    <3>2. state = "idle"
      BY <3>1 DEF ArrivalInv
    <3>3. state' = "idle" /\ UNCHANGED decoder /\ source' = source /\ size' = size
      BY <2>3, <3>2 DEF SecondPass, decoder
    <3>4. DInv'
      BY <2>1, <3>3, DInvStays
    <3>5. \A t \in {1, 2} : Nears(t)'
      BY <3>3 DEF Nears
    <3>6. size = pb_encode(source)[At(Root, <<>>)][Sizing].written
      BY <2>3 DEF SecondPass, ArrivalInv, FirstPassCounted
    <3>7. ostream' = pb_encode(source)[At(Root, <<>>)][Buffer(size)]
      BY <2>3 DEF SecondPass
    <3>8. Carries(source, ostream'.out) /\ ostream'.callback
      BY <2>1, <3>6, <3>7, MessageIsSent
    <3>9. FirstPassCounted'
      BY <2>1, <3>3, <3>8 DEF FirstPassCounted, Sizing
    <3>10. QED
      BY <3>3, <3>4, <3>5, <3>8, <3>9 DEF ArrivalInv
  <2>4. CASE Arrives
    <3>1. DInv' /\ \A t \in {1, 2} : Nears(t)'
      BY <2>1, <2>4, ArrivalStarts
    <3>2. UNCHANGED sender /\ ostream.callback
      BY <2>4 DEF Arrives
    <3>3. QED
      BY <3>1, <3>2 DEF ArrivalInv, FirstPassCounted, sender
  <2>5. CASE DecoderStep /\ UNCHANGED sender
    <3>1. DInv'
      BY <2>1, <2>5, DInvStays DEF DecoderNext
    <3>2. \A t \in {1, 2} : Nears(t)'
      BY <2>1, <2>5, <3>1, DecodingNears DEF ArrivalInv
    <3>3. state # "idle"
      BY <2>1, <2>5, StepsDecode
    <3>4. ostream.callback
      BY <3>3 DEF ArrivalInv
    <3>5. QED
      BY <2>5, <3>1, <3>2, <3>4 DEF ArrivalInv, FirstPassCounted, sender
  <2>6. CASE Dispose /\ UNCHANGED sender
    <3>1. DInv'
      BY <2>1, <2>6, DInvStays DEF DecoderNext
    <3>2. state' = "idle"
      BY <2>6 DEF Dispose
    <3>3. \A t \in {1, 2} : Nears(t)'
      BY <3>2 DEF Nears
    <3>4. QED
      BY <2>6, <3>1, <3>2, <3>3 DEF ArrivalInv, FirstPassCounted, sender
  <2>7. CASE UNCHANGED vars
    <3>1. UNCHANGED decoder /\ UNCHANGED sender
      BY <2>7 DEF vars, sender
    <3>2. DInv'
      BY <2>1, <3>1, DInvStays
    <3>3. \A t \in {1, 2} : Nears(t)'
      BY <3>1 DEF ArrivalInv, Nears, Bound, Broken, Now, Rest, Agrees, decoder, sender
    <3>4. QED
      BY <3>1, <3>2, <3>3 DEF ArrivalInv, FirstPassCounted, decoder, sender
  <2>8. QED
    BY <2>2, <2>3, <2>4, <2>5, <2>6, <2>7 DEF Next
<1>3. ArrivalInv => RoundTrip
  <2>1. \A out : Times(out, 1) = out /\ Times(out, 2) = out \o out
    BY DEF Times
  <2>2. QED
    BY <2>1 DEF ArrivalInv, Nears, RoundTrip
<1>4. QED
  BY <1>1, <1>2, <1>3, PTL DEF Spec
=============================================================================
