---------------------------- MODULE PbDecoderProofs ----------------------------
(***************************************************************************)
(* What nanopb's decoder guarantees of every buffer, for all message types *)
(* and all widths of the numbers: it stays inside the buffer, its arrays   *)
(* have room, every block is freed once, and each step brings it nearer to *)
(* its answer.  And each number is read as it was written (PbWireProofs    *)
(* has what is known of numbers as such).                                  *)
(*                                                                         *)
(* DInv is what the theorems about states rest on.  Of the value of a      *)
(* number they need only its type, and how many bytes it took.             *)
(***************************************************************************)
EXTENDS PbDecoder, PbWireProofs

-----------------------------------------------------------------------------
(* Reading: what is found in a stream was in it.                           *)
LEMMA SizedInside ==
  ASSUME NEW S, NEW bytes \in Seq(S), Sized(bytes).ok
  PROVE  /\ Sized(bytes).took \in 1 .. Len(bytes)
         /\ Sized(bytes).n \in 0 .. Len(bytes) - Sized(bytes).took
<1> DEFINE r == pb_decode_varint32(bytes)
<1>1. r.ok /\ r.n \in 0 .. Len(bytes) - r.took /\ Sized(bytes) = r
  BY DEF Sized, Failed
<1>2. QED
  BY <1>1, NumbersInside

LEMMA SkipInside ==
  ASSUME NEW S, NEW bytes \in Seq(S), NEW w, pb_skip_field(w, bytes).ok
  PROVE  pb_skip_field(w, bytes).took \in 1 .. Len(bytes)
<1>0. Len(bytes) \in Nat
  BY LenProperties
<1>1. CASE w = 0
  <2>1. pb_skip_field(w, bytes) = [ok |-> Varint(bytes) # <<>>,
                                   took |-> Len(Varint(bytes))]
    BY <1>1 DEF pb_skip_field
  <2> DEFINE v == Varint(bytes)
             r == [ok |-> v # <<>>, took |-> Len(v)]
  <2>2. r.ok <=> v # <<>>
    BY Zenon
  <2>3. r.took = Len(v)
    OBVIOUS
  <2>4. pb_skip_field(w, bytes) = r
    BY <2>1
  <2> HIDE DEF r
  <2>5. Len(v) >= 1 /\ Len(v) \in 0 .. Len(bytes)
    BY <2>2, <2>4, VarintInside
  <2>6. QED
    BY <1>0, <2>3, <2>4, <2>5
<1>2. CASE w = 1
  <2>1. pb_skip_field(w, bytes) = Fixed(8, bytes)
    BY <1>2 DEF pb_skip_field
  <2>2. Fixed(8, bytes).ok <=> 8 <= Len(bytes)
    BY Zenon DEF Fixed
  <2>3. Fixed(8, bytes).took = 8
    BY DEF Fixed
  <2>4. QED
    BY <1>0, <2>1, <2>2, <2>3
<1>3. CASE w = 2
  <2>1. pb_skip_field(w, bytes) = [ok |-> Sized(bytes).ok,
                                   took |-> Sized(bytes).took + Sized(bytes).n]
    BY <1>3 DEF pb_skip_field
  <2>2. Sized(bytes).ok
    BY <2>1
  <2>3. QED
    BY <1>0, <2>1, <2>2, SizedInside
<1>4. CASE w = 5
  <2>1. pb_skip_field(w, bytes) = Fixed(4, bytes)
    BY <1>4 DEF pb_skip_field
  <2>2. Fixed(4, bytes).ok <=> 4 <= Len(bytes)
    BY Zenon DEF Fixed
  <2>3. Fixed(4, bytes).took = 4
    BY DEF Fixed
  <2>4. QED
    BY <1>0, <2>1, <2>2, <2>3
<1>5. CASE w \notin {0, 1, 2, 5}
  <2>1. pb_skip_field(w, bytes) = Failed
    BY <1>5 DEF pb_skip_field
  <2>2. QED
    BY <2>1 DEF Failed
<1>6. QED
  BY <1>1, <1>2, <1>3, <1>4, <1>5

LEMMA ScalarInside ==
  ASSUME NEW S, NEW bytes \in Seq(S), NEW kind \in Numeric, Scalar(kind, bytes).ok
  PROVE  Scalar(kind, bytes).took \in 1 .. Len(bytes)
<1> DEFINE a == pb_decode_varint32(bytes)
           b == pb_decode_varint(bytes)
<1>1. /\ a.ok => a.took \in 1 .. Len(bytes)
      /\ b.ok => b.took \in 1 .. Len(bytes)
  BY NumbersInside
<1>2. DOMAIN a = {"ok", "n", "took"} /\ DOMAIN b = {"ok", "n", "took"}
  BY DEF pb_decode_varint, pb_decode_varint32, Failed
<1> HIDE DEF a, b
<1>3. CASE kind = "bool"
  BY <1>1, <1>2, <1>3 DEF Scalar, a
<1>4. CASE kind = "int32"
  BY <1>1, <1>2, <1>4 DEF Scalar, b
<1>5. CASE kind = "int64"
  BY <1>1, <1>2, <1>5 DEF Scalar, b
<1>6. CASE kind = "sint64"
  BY <1>1, <1>2, <1>6 DEF Scalar, b
<1>7. CASE kind = "uenum"
  <2>1. Scalar(kind, bytes) = [b EXCEPT !.ok = @ /\ b.n < 2 ^ Bits32]
    BY <1>7 DEF Scalar, b
  <2>2. Scalar(kind, bytes).ok = (b.ok /\ b.n < 2 ^ Bits32)
    BY <1>2, <2>1
  <2>3. Scalar(kind, bytes).took = b.took
    BY <1>2, <2>1
  <2>4. QED
    BY <1>1, <2>2, <2>3
<1>8. QED
  BY <1>3, <1>4, <1>5, <1>6, <1>7 DEF Numeric

-----------------------------------------------------------------------------
(* What is read are numbers, whatever the bytes are.                       *)
LEMMA ScalarType ==
  ASSUME NEW bytes \in Seq(Byte), NEW kind \in Numeric
  PROVE  Scalar(kind, bytes).n \in Int
<1> DEFINE a == pb_decode_varint32(bytes)
           b == pb_decode_varint(bytes)
<1>1. a.n \in Nat /\ b.n \in Nat
  BY NumbersType
<1>2. DOMAIN a = {"ok", "n", "took"} /\ DOMAIN b = {"ok", "n", "took"}
  BY DEF pb_decode_varint, pb_decode_varint32, Failed
<1>3. 2 ^ Bits32 \in Nat \ {0} /\ 2 ^ Bits64 \in Nat \ {0}
  BY WidthType
<1> HIDE DEF a, b
<1>4. CASE kind = "bool"
  <2>1. Scalar(kind, bytes) = [a EXCEPT !.n = IF a.n = 0 THEN 0 ELSE 1]
    BY <1>4 DEF Scalar, a
  <2>2. QED
    BY <1>2, <2>1
<1>5. CASE kind = "int32"
  <2>1. Scalar(kind, bytes) = [b EXCEPT !.n = Signed(b.n, Bits32)]
    BY <1>5 DEF Scalar, b
  <2>2. QED
    BY <1>1, <1>2, <1>3, <2>1, SignedType
<1>6. CASE kind = "int64"
  <2>1. Scalar(kind, bytes) = [b EXCEPT !.n = Signed(b.n, Bits64)]
    BY <1>6 DEF Scalar, b
  <2>2. QED
    BY <1>1, <1>2, <1>3, <2>1, SignedType
<1>7. CASE kind = "sint64"
  <2>1. Scalar(kind, bytes) = [b EXCEPT !.n = UnZigZag(b.n)]
    BY <1>7 DEF Scalar, b
  <2>2. QED
    BY <1>1, <1>2, <2>1, UnZigZagType
<1>8. CASE kind = "uenum"
  <2>1. Scalar(kind, bytes) = [b EXCEPT !.ok = @ /\ b.n < 2 ^ Bits32]
    BY <1>8 DEF Scalar, b
  <2>2. Scalar(kind, bytes).n = b.n
    BY <1>2, <2>1
  <2>3. QED
    BY <1>1, <2>2
<1>9. QED
  BY <1>4, <1>5, <1>6, <1>7, <1>8 DEF Numeric

-----------------------------------------------------------------------------
(* What is written of a number is one of 64 bits.                          *)
ReadsBack(kind, n) ==
  \A rest \in Seq(Byte) :
    Scalar(kind, pb_encode_varint[Written(kind, n)] \o rest)
      = [ok |-> TRUE, n |-> n, took |-> Len(pb_encode_varint[Written(kind, n)])]

LEMMA BoolArrives ==
  ASSUME NEW n \in ValuesOf("bool")
  PROVE  ReadsBack("bool", n)
<1>1. n \in {0, 1}
  BY DEF ValuesOf
<1>2. n \in 0 .. 2 ^ Bits32 - 1 /\ Unsigned(n) = n
  <2>1. 2 ^ (Bits32 - 1) \in Nat \ {0} /\ 2 ^ Bits32 = 2 * 2 ^ (Bits32 - 1)
    BY Half
  <2>2. 2 ^ (Bits64 - 1) \in Nat \ {0} /\ 2 ^ Bits64 = 2 * 2 ^ (Bits64 - 1)
    BY Half
  <2>3. \A m \in Nat \ {0} : \A i \in 0 .. m - 1 : i % m = i
    OBVIOUS
  <2>4. n \in 0 .. 2 ^ Bits64 - 1 /\ 2 ^ Bits64 \in Nat \ {0}
    BY <1>1, <2>2
  <2>5. n % 2 ^ Bits64 = n
    BY <2>3, <2>4
  <2>6. QED
    BY <1>1, <2>1, <2>5 DEF Unsigned
<1>3. Written("bool", n) = n
  BY <1>2 DEF Written
<1>4. SUFFICES ASSUME NEW rest \in Seq(Byte)
               PROVE  Scalar("bool", pb_encode_varint[n] \o rest)
                        = [ok |-> TRUE, n |-> n, took |-> Len(pb_encode_varint[n])]
  BY <1>3 DEF ReadsBack
<1> DEFINE v == pb_encode_varint[n]
<1>5. pb_decode_varint32(v \o rest) = [ok |-> TRUE, n |-> n, took |-> Len(v)]
  BY <1>2, Varint32ComesBack
<1> HIDE DEF v
<1>6. Scalar("bool", v \o rest) = [pb_decode_varint32(v \o rest) EXCEPT !.n = IF @ = 0 THEN 0 ELSE 1]
  BY DEF Scalar
<1>7. Scalar("bool", v \o rest) = [ok |-> TRUE, n |-> IF n = 0 THEN 0 ELSE 1, took |-> Len(v)]
  BY <1>5, <1>6
<1>8. QED
  BY <1>1, <1>7 DEF v

LEMMA Int32Arrives ==
  ASSUME NEW n \in ValuesOf("int32")
  PROVE  ReadsBack("int32", n)
<1>1. n \in -2 ^ (Bits32 - 1) .. 2 ^ (Bits32 - 1) - 1
  BY DEF ValuesOf
<1>2. Signed(Unsigned(n), Bits32) = n /\ Unsigned(n) \in 0 .. 2 ^ Bits64 - 1
  <2>1. PICK q \in Nat \ {0} : 2 ^ Bits64 = 2 ^ Bits32 * q
    BY WordInWord
  <2>2. Signed(Unsigned(n), Bits32) = n /\ n \in -2 ^ (Bits64 - 1) .. 2 ^ (Bits64 - 1) - 1
    BY <1>1, <2>1, SignedIs
  <2>3. QED
    BY <2>2, UnsignedIs
<1> DEFINE u == Unsigned(n)
           v == pb_encode_varint[u]
<1>3. Written("int32", n) = u
  BY DEF Written
<1>4. SUFFICES ASSUME NEW rest \in Seq(Byte)
               PROVE  Scalar("int32", v \o rest) = [ok |-> TRUE, n |-> n, took |-> Len(v)]
  BY <1>3 DEF ReadsBack
<1>5. pb_decode_varint(v \o rest) = [ok |-> TRUE, n |-> u, took |-> Len(v)]
  BY <1>2, VarintComesBack
<1> HIDE DEF v
<1>6. Scalar("int32", v \o rest) = [pb_decode_varint(v \o rest) EXCEPT !.n = Signed(@, Bits32)]
  BY DEF Scalar
<1>7. QED
  BY <1>2, <1>5, <1>6

LEMMA Int64Arrives ==
  ASSUME NEW n \in ValuesOf("int64")
  PROVE  ReadsBack("int64", n)
<1>1. n \in -2 ^ (Bits64 - 1) .. 2 ^ (Bits64 - 1) - 1
  BY DEF ValuesOf
<1>2. Signed(Unsigned(n), Bits64) = n /\ Unsigned(n) \in 0 .. 2 ^ Bits64 - 1
  <2>1. 1 \in Nat \ {0} /\ 2 ^ Bits64 = 2 ^ Bits64 * 1
    BY WidthType
  <2>2. Signed(Unsigned(n), Bits64) = n
    BY <1>1, <2>1, SignedIs
  <2>3. QED
    BY <1>1, <2>2, UnsignedIs
<1> DEFINE u == Unsigned(n)
           v == pb_encode_varint[u]
<1>3. Written("int64", n) = u
  BY DEF Written
<1>4. SUFFICES ASSUME NEW rest \in Seq(Byte)
               PROVE  Scalar("int64", v \o rest) = [ok |-> TRUE, n |-> n, took |-> Len(v)]
  BY <1>3 DEF ReadsBack
<1>5. pb_decode_varint(v \o rest) = [ok |-> TRUE, n |-> u, took |-> Len(v)]
  BY <1>2, VarintComesBack
<1> HIDE DEF v
<1>6. Scalar("int64", v \o rest) = [pb_decode_varint(v \o rest) EXCEPT !.n = Signed(@, Bits64)]
  BY DEF Scalar
<1>7. QED
  BY <1>2, <1>5, <1>6

LEMMA SInt64Arrives ==
  ASSUME NEW n \in ValuesOf("sint64")
  PROVE  ReadsBack("sint64", n)
<1>1. n \in -2 ^ (Bits64 - 1) .. 2 ^ (Bits64 - 1) - 1
  BY DEF ValuesOf
<1>2. UnZigZag(ZigZag(n)) = n /\ ZigZag(n) \in 0 .. 2 ^ Bits64 - 1
  BY <1>1, ZigZagIs
<1> DEFINE u == ZigZag(n)
           v == pb_encode_varint[u]
<1>3. Written("sint64", n) = u
  BY DEF Written
<1>4. SUFFICES ASSUME NEW rest \in Seq(Byte)
               PROVE  Scalar("sint64", v \o rest) = [ok |-> TRUE, n |-> n, took |-> Len(v)]
  BY <1>3 DEF ReadsBack
<1>5. pb_decode_varint(v \o rest) = [ok |-> TRUE, n |-> u, took |-> Len(v)]
  BY <1>2, VarintComesBack
<1> HIDE DEF v
<1>6. Scalar("sint64", v \o rest) = [pb_decode_varint(v \o rest) EXCEPT !.n = UnZigZag(@)]
  BY DEF Scalar
<1>7. QED
  BY <1>2, <1>5, <1>6

LEMMA UEnumArrives ==
  ASSUME NEW n \in ValuesOf("uenum")
  PROVE  ReadsBack("uenum", n)
<1>1. n \in 0 .. 2 ^ Bits32 - 1
  BY DEF ValuesOf
<1>2. n < 2 ^ Bits32 /\ n \in 0 .. 2 ^ Bits64 - 1 /\ Unsigned(n) = n
  <2> DEFINE W == 2 ^ Bits32
             M == 2 ^ Bits64
  <2>1. PICK q \in Nat \ {0} : M = W * q
    BY WordInWord
  <2>2. W \in Nat \ {0} /\ n \in 0 .. W - 1 /\ M \in Nat \ {0}
    BY <1>1, WidthType
  <2>3. Unsigned(n) = n % M
    BY DEF Unsigned
  <2> HIDE DEF W, M
  <2>4. W * q >= W
    BY <2>2
  <2>5. n < W /\ n \in 0 .. M - 1
    BY <2>1, <2>2, <2>4
  <2>6. \A m \in Nat \ {0} : \A i \in 0 .. m - 1 : i % m = i
    OBVIOUS
  <2>7. QED
    BY <2>2, <2>3, <2>5, <2>6 DEF W, M
<1>3. Written("uenum", n) = n
  BY <1>2 DEF Written
<1>4. SUFFICES ASSUME NEW rest \in Seq(Byte)
               PROVE  Scalar("uenum", pb_encode_varint[n] \o rest)
                        = [ok |-> TRUE, n |-> n, took |-> Len(pb_encode_varint[n])]
  BY <1>3 DEF ReadsBack
<1> DEFINE v == pb_encode_varint[n]
           r == pb_decode_varint(v \o rest)
<1>5. r = [ok |-> TRUE, n |-> n, took |-> Len(v)]
  BY <1>2, VarintComesBack
<1>6. Scalar("uenum", v \o rest) = [r EXCEPT !.ok = @ /\ r.n < 2 ^ Bits32]
  BY DEF Scalar
<1> HIDE DEF v, r
<1> DEFINE fits == n < 2 ^ Bits32
<1>7. Scalar("uenum", v \o rest) = [ok |-> TRUE /\ fits, n |-> n, took |-> Len(v)]
  <2> HIDE DEF fits
  <2>1. r.n = n /\ r.ok = TRUE
    BY <1>5
  <2>2. Scalar("uenum", v \o rest) = [r EXCEPT !.ok = @ /\ fits]
    BY <1>6, <2>1 DEF fits
  <2>3. QED
    BY <1>5, <2>2
<1>8. (TRUE /\ fits) = TRUE
  BY <1>2
<1>9. QED
  BY <1>7, <1>8 DEF v

LEMMA KindsArrive ==
  ASSUME NEW kind \in Numeric, NEW n \in ValuesOf(kind)
  PROVE  ReadsBack(kind, n)
<1>1. kind \in {"bool", "int32", "int64", "uenum", "sint64"}
  BY DEF Numeric
<1>2. CASE kind = "bool"
  BY <1>2, BoolArrives
<1>3. CASE kind = "int32"
  BY <1>3, Int32Arrives
<1>4. CASE kind = "int64"
  BY <1>4, Int64Arrives
<1>5. CASE kind = "uenum"
  BY <1>5, UEnumArrives
<1>6. CASE kind = "sint64"
  BY <1>6, SInt64Arrives
<1>7. QED
  BY <1>1, <1>2, <1>3, <1>4, <1>5, <1>6

LEMMA NothingAfter ==
  ASSUME NEW n \in Nat
  PROVE  <<>> \in Seq(Byte) /\ pb_encode_varint[n] \o <<>> = pb_encode_varint[n]
<1> DEFINE v == pb_encode_varint[n]
<1>1. v \in Seq(Byte)
  BY EncodingIs
<1> HIDE DEF v
<1>2. <<>> \in Seq(Byte) /\ v \o <<>> = v
  BY <1>1
<1>3. QED
  BY <1>2 DEF v

LEMMA WrittenType ==
  ASSUME NEW kind \in Numeric, NEW n \in ValuesOf(kind)
  PROVE  Written(kind, n) \in Nat
<1>1. n \in Int
  <2>1. CASE kind = "bool"
    BY <2>1 DEF ValuesOf
  <2>2. CASE kind # "bool"
    <3>1. 2 ^ (Bits32 - 1) \in Nat /\ 2 ^ (Bits64 - 1) \in Nat /\ 2 ^ Bits32 \in Nat
      BY Half, WidthType
    <3>2. QED
      BY <2>2, <3>1 DEF ValuesOf
  <2>3. QED
    BY <2>1, <2>2
<1>2. Unsigned(n) \in Nat
  <2>1. \A m \in Nat \ {0} : n % m \in Nat
    BY <1>1
  <2>2. QED
    BY <2>1, WidthType DEF Unsigned
<1>3. ZigZag(n) \in Nat
  BY <1>1 DEF ZigZag
<1>4. QED
  BY <1>2, <1>3 DEF Written

-----------------------------------------------------------------------------
(* The streams of the calls q, in a buffer of `size` bytes of which p were *)
(* read.  stop[i] is where stream i ends: within the buffer, and where     *)
(* stream i + 1 ends or later; the last entry is the position.             *)
Chain(stop, q, p, size) ==
  /\ stop \in [1 .. Len(q) + 1 -> 0 .. size]
  /\ stop[Len(q) + 1] = p
  /\ \A i, j \in 1 .. Len(q) + 1 : i <= j => stop[i] >= stop[j]
  /\ \A i \in 1 .. Len(q) : q[i].left = stop[i] - stop[i + 1]

Streams ==
  /\ input \in Seq(Byte) /\ pos \in Nat /\ frames \in Seq(Frame)
  /\ \E stop : Chain(stop, frames, pos, Len(input))

LEMMA ChainEnds ==
  ASSUME NEW q \in Seq(Frame), NEW p \in Nat, NEW size \in Nat, NEW stop,
         Chain(stop, q, p, size)
  PROVE  /\ p <= size
         /\ \A i \in 1 .. Len(q) + 1 : stop[i] \in p .. size
         /\ q # <<>> => /\ Len(q) \in 1 .. Len(q) /\ Len(q) \in DOMAIN q
                        /\ q[Len(q)] \in Frame
                        /\ stop[Len(q)] = p + q[Len(q)].left
<1>1. Len(q) \in Nat /\ DOMAIN q = 1 .. Len(q) /\ (q # <<>> => Len(q) > 0)
  BY LenProperties, EmptySeq
<1>2. Len(q) + 1 \in 1 .. Len(q) + 1
  BY <1>1
<1>3. \A i \in 1 .. Len(q) + 1 : stop[i] \in 0 .. size /\ stop[i] >= stop[Len(q) + 1]
  BY <1>1, <1>2 DEF Chain
<1>4. \A i \in 1 .. Len(q) + 1 : stop[i] \in p .. size
  BY <1>3 DEF Chain
<1>5. ASSUME q # <<>>
      PROVE  /\ Len(q) \in 1 .. Len(q) /\ Len(q) \in DOMAIN q
             /\ q[Len(q)] \in Frame /\ stop[Len(q)] = p + q[Len(q)].left
  <2>1. Len(q) \in 1 .. Len(q) /\ Len(q) \in DOMAIN q
    BY <1>1, <1>5
  <2>2. q[Len(q)] \in Frame
    BY <2>1, ElementOfSeq
  <2>3. q[Len(q)].left = stop[Len(q)] - p /\ stop[Len(q)] \in 0 .. size
    BY <1>1, <1>3, <2>1 DEF Chain
  <2>4. QED
    BY <2>1, <2>2, <2>3
<1>6. QED
  BY <1>2, <1>4, <1>5

(* The end of the innermost stream of N moves, or another one begins: the  *)
(* last entry becomes e.                                                   *)
LEMMA StopMoves ==
  ASSUME NEW N \in Nat, NEW size \in Nat,
         NEW stop \in [1 .. N -> 0 .. size],
         \A i, j \in 1 .. N : i <= j => stop[i] >= stop[j],
         NEW e \in 0 .. size, \A i \in 1 .. N : stop[i] >= e
  PROVE  LET past == [i \in 1 .. N + 1 |-> IF i = N + 1 THEN e ELSE stop[i]]
         IN  /\ past \in [1 .. N + 1 -> 0 .. size]
             /\ \A i, j \in 1 .. N + 1 : i <= j => past[i] >= past[j]
             /\ \A i \in 1 .. N : past[i] = stop[i]
             /\ past[N + 1] = e
<1> DEFINE past == [i \in 1 .. N + 1 |-> IF i = N + 1 THEN e ELSE stop[i]]
<1>1. past \in [1 .. N + 1 -> 0 .. size]
  OBVIOUS
<1>2. past[N + 1] = e /\ \A i \in 1 .. N : past[i] = stop[i] /\ stop[i] \in 0 .. size
  OBVIOUS
<1> HIDE DEF past
<1>3. \A i, j \in 1 .. N + 1 : i <= j => past[i] >= past[j]
  <2> SUFFICES ASSUME NEW i \in 1 .. N + 1, NEW j \in 1 .. N + 1, i <= j
               PROVE  past[i] >= past[j]
    OBVIOUS
  <2>1. CASE i = N + 1
    BY <1>2, <2>1
  <2>2. CASE i # N + 1 /\ j = N + 1
    <3>1. i \in 1 .. N
      BY <2>2
    <3>2. QED
      BY <1>2, <2>2, <3>1
  <2>3. CASE i # N + 1 /\ j # N + 1
    <3>1. i \in 1 .. N /\ j \in 1 .. N
      BY <2>3
    <3>2. QED
      BY <1>2, <3>1
  <2>4. QED
    BY <2>1, <2>2, <2>3
<1>4. QED
  BY <1>1, <1>2, <1>3 DEF past

(* The innermost stream moves on.                                          *)
LEMMA ChainMoves ==
  ASSUME NEW q \in Seq(Frame), q # <<>>, NEW p \in Nat, NEW size \in Nat,
         \E stop : Chain(stop, q, p, size),
         NEW n \in 0 .. q[Len(q)].left,
         NEW g \in Frame, g.left = q[Len(q)].left - n
  PROVE  /\ [q EXCEPT ![Len(q)] = g] \in Seq(Frame)
         /\ \E stop : Chain(stop, [q EXCEPT ![Len(q)] = g], p + n, size)
<1>0. PICK stop : Chain(stop, q, p, size)
  OBVIOUS
<1> DEFINE N == Len(q)
           r == [q EXCEPT ![N] = g]
           old == [i \in 1 .. N |-> stop[i]]
           past == [i \in 1 .. N + 1 |-> IF i = N + 1 THEN p + n ELSE old[i]]
<1>1. /\ N \in Nat \ {0} /\ q[N].left \in Nat /\ stop[N] = p + q[N].left
      /\ \A i \in 1 .. N + 1 : stop[i] \in p .. size
  BY <1>0, ChainEnds, LenProperties, EmptySeq DEF Frame
<1>2. /\ r \in Seq(Frame) /\ Len(r) = N
      /\ \A i \in 1 .. N : r[i] = IF i = N THEN g ELSE q[i]
  BY <1>0, ChainEnds, ReplaceAtType, LenProperties
<1>3. /\ \A i, j \in 1 .. N + 1 : i <= j => stop[i] >= stop[j]
      /\ \A i \in 1 .. N : q[i].left = stop[i] - stop[i + 1]
  BY <1>0 DEF Chain
<1> HIDE DEF N, r
<1>4. \A i \in 1 .. N : stop[i] \in 0 .. size /\ stop[i] >= p + n
  <2> SUFFICES ASSUME NEW i \in 1 .. N
               PROVE  stop[i] \in 0 .. size /\ stop[i] >= p + n
    OBVIOUS
  <2>0. i \in 1 .. N + 1 /\ N \in 1 .. N + 1 /\ i <= N
    BY <1>1
  <2>1. stop[i] \in p .. size /\ stop[N] \in p .. size /\ stop[i] >= stop[N]
    BY <1>1, <1>3, <2>0
  <2>2. QED
    BY <1>1, <2>1 DEF N
<1>5. /\ old \in [1 .. N -> 0 .. size]
      /\ \A i \in 1 .. N : old[i] = stop[i] /\ old[i] >= p + n
      /\ \A i, j \in 1 .. N : i <= j => old[i] >= old[j]
  BY <1>1, <1>3, <1>4
<1> HIDE DEF old
<1>6. p + n \in 0 .. size
  BY <1>1, <1>4
<1>7. /\ past \in [1 .. N + 1 -> 0 .. size] /\ past[N + 1] = p + n
      /\ \A i, j \in 1 .. N + 1 : i <= j => past[i] >= past[j]
      /\ \A i \in 1 .. N : past[i] = stop[i]
  BY SMTT(40), <1>1, <1>5, <1>6, StopMoves
<1> HIDE DEF past
<1>8. \A i \in 1 .. N : r[i].left = past[i] - past[i + 1]
  <2> SUFFICES ASSUME NEW i \in 1 .. N PROVE r[i].left = past[i] - past[i + 1]
    OBVIOUS
  <2>1. CASE i = N
    <3>1. r[i].left = q[N].left - n
      BY <1>2, <2>1 DEF N
    <3>2. past[i] = p + q[N].left /\ past[i + 1] = p + n
      BY <1>1, <1>7, <2>1
    <3>3. QED
      BY <1>1, <3>1, <3>2 DEF N
  <2>2. CASE i # N
    <3>1. i + 1 \in 1 .. N /\ i \in 1 .. N /\ r[i] = q[i]
      BY <1>1, <1>2, <2>2
    <3>2. past[i] = stop[i] /\ past[i + 1] = stop[i + 1]
      BY <1>7, <3>1
    <3>3. QED
      BY <1>3, <3>1, <3>2
  <2>3. QED
    BY <2>1, <2>2
<1>9. Chain(past, r, p + n, size)
  BY <1>2, <1>7, <1>8 DEF Chain
<1>10. QED
  BY <1>2, <1>9 DEF r, N

(* Another stream begins where the bytes of the outer one were set aside.  *)
LEMMA ChainOpens ==
  ASSUME NEW q \in Seq(Frame), NEW p \in Nat, NEW n \in Nat, NEW size \in Nat,
         \E stop : Chain(stop, q, p + n, size),
         NEW h \in Frame, h.left = n
  PROVE  /\ Append(q, h) \in Seq(Frame)
         /\ \E stop : Chain(stop, Append(q, h), p, size)
<1>0. PICK stop : Chain(stop, q, p + n, size)
  OBVIOUS
<1> DEFINE N == Len(q)
           r == Append(q, h)
           past == [i \in 1 .. (N + 1) + 1 |-> IF i = (N + 1) + 1 THEN p ELSE stop[i]]
<1>1. N \in Nat /\ \A i \in 1 .. N + 1 : stop[i] \in p + n .. size
  BY <1>0, ChainEnds, LenProperties
<1>2. /\ r \in Seq(Frame) /\ Len(r) = N + 1 /\ r[N + 1] = h
      /\ \A i \in 1 .. N : r[i] = q[i]
  BY AppendType, LenProperties
<1>3. /\ stop \in [1 .. N + 1 -> 0 .. size]
      /\ stop[N + 1] = p + n
      /\ \A i, j \in 1 .. N + 1 : i <= j => stop[i] >= stop[j]
      /\ \A i \in 1 .. N : q[i].left = stop[i] - stop[i + 1]
  BY <1>0 DEF Chain
<1> HIDE DEF N, r
<1>4. N + 1 \in Nat /\ p \in 0 .. size /\ \A i \in 1 .. N + 1 : stop[i] >= p
  <2>1. p + n <= size
    BY <1>0, ChainEnds
  <2>2. \A i \in 1 .. N + 1 : stop[i] >= p
    BY <1>1
  <2>3. QED
    BY <1>1, <2>1, <2>2
<1>5. /\ past \in [1 .. (N + 1) + 1 -> 0 .. size] /\ past[(N + 1) + 1] = p
      /\ \A i, j \in 1 .. (N + 1) + 1 : i <= j => past[i] >= past[j]
      /\ \A i \in 1 .. N + 1 : past[i] = stop[i]
  BY SMTT(40), <1>3, <1>4, StopMoves
<1> HIDE DEF past
<1>6. \A i \in 1 .. N + 1 : r[i].left = past[i] - past[i + 1]
  <2> SUFFICES ASSUME NEW i \in 1 .. N + 1 PROVE r[i].left = past[i] - past[i + 1]
    OBVIOUS
  <2>1. CASE i = N + 1
    <3>1. past[i] = p + n /\ past[i + 1] = p
      BY <1>1, <1>3, <1>5, <2>1
    <3>2. QED
      BY <1>2, <2>1, <3>1
  <2>2. CASE i # N + 1
    <3>1. i + 1 \in 1 .. N + 1 /\ i \in 1 .. N
      BY <1>1, <2>2
    <3>2. QED
      BY <1>2, <1>3, <1>5, <3>1
  <2>3. QED
    BY <2>1, <2>2
<1>7. Chain(past, r, p, size)
  BY <1>2, <1>5, <1>6 DEF Chain
<1>8. QED
  BY <1>2, <1>7 DEF r, N

(* The innermost stream is skipped to its end.                             *)
LEMMA ChainCloses ==
  ASSUME NEW q \in Seq(Frame), Len(q) > 1, NEW p \in Nat, NEW size \in Nat,
         \E stop : Chain(stop, q, p, size)
  PROVE  LET r == SubSeq(q, 1, Len(q) - 1)
         IN  /\ r \in Seq(Frame) /\ Len(r) = Len(q) - 1
             /\ \A i \in 1 .. Len(q) - 1 : r[i] = q[i]
             /\ \E stop : Chain(stop, r, p + q[Len(q)].left, size)
<1>0. PICK stop : Chain(stop, q, p, size)
  OBVIOUS
<1> DEFINE N == Len(q)
           r == SubSeq(q, 1, N - 1)
           past == [i \in 1 .. N |-> stop[i]]
<1>1. /\ N \in Nat /\ N > 1 /\ stop[N] = p + q[N].left
      /\ stop \in [1 .. N + 1 -> 0 .. size]
      /\ \A i, j \in 1 .. N + 1 : i <= j => stop[i] >= stop[j]
      /\ \A i \in 1 .. N : q[i].left = stop[i] - stop[i + 1]
  <2>0. Len(q) \in Nat /\ Len(<<>>) = 0
    BY LenProperties
  <2>1. N \in Nat /\ N > 1
    BY <2>0
  <2>2. q # <<>>
    BY <2>0
  <2>3. stop[N] = p + q[N].left
    BY <1>0, <2>2, ChainEnds
  <2>4. QED
    BY <1>0, <2>1, <2>3 DEF Chain
<1>2. r \in Seq(Frame) /\ Len(r) = N - 1 /\ \A i \in 1 .. N - 1 : r[i] = q[i]
  BY FrontType
<1> HIDE DEF N, r
<1>3. N \in 1 .. N /\ N - 1 + 1 = N /\ \A i \in 1 .. N : i \in 1 .. N + 1
  BY <1>1
<1>4. past \in [1 .. N -> 0 .. size] /\ past[N] = stop[N]
  BY <1>1, <1>3
<1>5. \A i \in 1 .. N : past[i] = stop[i]
  OBVIOUS
<1> HIDE DEF past
<1>6. \A i, j \in 1 .. N : i <= j => past[i] >= past[j]
  BY <1>1, <1>3, <1>5
<1>7. \A i \in 1 .. N - 1 : r[i].left = past[i] - past[i + 1]
  <2> SUFFICES ASSUME NEW i \in 1 .. N - 1 PROVE r[i].left = past[i] - past[i + 1]
    OBVIOUS
  <2>1. i \in 1 .. N /\ i + 1 \in 1 .. N
    BY <1>1
  <2>2. QED
    BY <1>1, <1>2, <1>5, <2>1
<1>8. Chain(past, r, p + q[N].left, size)
  BY <1>1, <1>2, <1>3, <1>4, <1>6, <1>7 DEF Chain
<1>9. QED
  BY <1>2, <1>8 DEF r, N

LEMMA ChainEmpty ==
  ASSUME NEW size \in Nat, NEW p \in 0 .. size
  PROVE  \E stop : Chain(stop, <<>>, p, size)
<1>1. Len(<<>>) = 0
  OBVIOUS
<1>2. Chain([i \in 1 .. 1 |-> p], <<>>, p, size)
  BY <1>1 DEF Chain
<1>3. QED
  BY <1>2

(* What is ahead in the innermost stream is in the buffer.                 *)
LEMMA AheadInside ==
  ASSUME Streams, frames # <<>>
  PROVE  /\ Len(frames) \in 1 .. Len(frames) /\ Len(frames) \in DOMAIN frames
         /\ Top \in Frame /\ Top.left \in Nat
         /\ Ahead \in Seq(Byte) /\ Len(Ahead) = Top.left
<1>1. frames \in Seq(Frame) /\ pos \in Nat /\ Len(input) \in Nat /\ input \in Seq(Byte)
  BY LenProperties DEF Streams
<1>2. PICK stop : Chain(stop, frames, pos, Len(input))
  BY DEF Streams
<1>3. /\ Len(frames) \in 1 .. Len(frames) /\ Len(frames) \in DOMAIN frames
      /\ Top \in Frame /\ stop[Len(frames)] = pos + Top.left
      /\ stop[Len(frames)] \in pos .. Len(input)
  <2>1. /\ \A i \in 1 .. Len(frames) + 1 : stop[i] \in pos .. Len(input)
        /\ Len(frames) \in 1 .. Len(frames) /\ Len(frames) \in DOMAIN frames
        /\ Top \in Frame /\ stop[Len(frames)] = pos + Top.left
    BY <1>1, <1>2, ChainEnds DEF Top
  <2>2. Len(frames) \in 1 .. Len(frames) + 1
    BY <1>1, <2>1, LenProperties
  <2>3. QED
    BY <2>1, <2>2
<1>4. Top.left \in Nat
  BY <1>3 DEF Frame
<1> DEFINE last == pos + Top.left
<1>5. last \in pos .. Len(input)
  BY <1>1, <1>3, <1>4
<1>6. SubSeq(input, pos + 1, last) \in Seq(Byte)
      /\ Len(SubSeq(input, pos + 1, last)) = Top.left
  <2>1. \A i \in pos + 1 .. last : input[i] \in Byte
    <3>1. \A i \in pos + 1 .. last : i \in 1 .. Len(input)
      BY <1>1, <1>5
    <3>2. QED
      BY <1>1, <3>1, ElementOfSeq
  <2>2. QED
    BY <1>1, <1>4, <1>5, <2>1, SubSeqProperties
<1>7. QED
  BY <1>3, <1>4, <1>6 DEF Ahead

LEMMA WithLeft ==
  ASSUME NEW f \in Frame, NEW n \in Nat
  PROVE  LET g == [f EXCEPT !.left = n]
         IN  /\ g \in Frame /\ g.left = n /\ g.kind = f.kind
             /\ g.kind = "message" =>
                  g.message = f.message /\ g.path = f.path /\ g.init = f.init
             /\ g.kind = "packed" =>
                  g.slot = f.slot /\ g.allocated = f.allocated
BY DEF Frame

-----------------------------------------------------------------------------
(* The memory.  An array on the way to a slot is a slot, and as long as    *)
(* the way needs.                                                          *)
Hop    == [field : Field, item : Nat]
Place  == [path : Path, field : Field]
Holder(path, i) == Slot(SubSeq(path, 1, i - 1), path[i].field)

Rooted(path, c) ==
  \A i \in DOMAIN path :
    /\ path[i].field.kind = "message"
    /\ Behind(path[i].field) =>
         /\ Holder(path, i) \in DOMAIN c
         /\ path[i].item <= Len(c[Holder(path, i)].items)

IsCell(v) == \E S : v \in [set : BOOLEAN, items : Seq(S), room : Nat]

(* The blocks h are those that the pointers of c point to.                 *)
Sound(c, h) ==
  /\ c = [s \in DOMAIN c |-> c[s]]
  /\ DOMAIN c \subseteq Place
  /\ \A s \in DOMAIN c :
       /\ IsCell(c[s]) /\ Rooted(s.path, c)
       /\ Behind(s.field) => Len(c[s].items) <= c[s].room
  /\ h = {s \in DOMAIN c : Behind(s.field) /\ c[s].set}

LEMMA PrefixOfConcat ==
  ASSUME NEW S, NEW a \in Seq(S), NEW b \in Seq(S), NEW i \in 0 .. Len(a)
  PROVE  SubSeq(a \o b, 1, i) = SubSeq(a, 1, i)
<1>1. CASE i = 0
  BY <1>1, SubSeqEmpty
<1>2. CASE i # 0
  <2>1. Len(a) \in Nat /\ 1 \in 1 .. Len(a) /\ i \in 1 .. Len(a)
    BY <1>2, LenProperties
  <2>2. QED
    BY <2>1, SubSeqOfConcat1
<1>3. QED
  BY <1>1, <1>2

LEMMA LayoutOf ==
  ASSUME NEW m \in Message, NEW l \in Layout[m]
  PROVE  /\ l \in Place
         /\ \A i \in DOMAIN l.path :
              l.path[i].field.kind = "message" /\ ~Behind(l.path[i].field)
BY LayoutAssumption DEF Place

(* The slots of a structure that is part of the message are, too.          *)
LEMMA RootedBelow ==
  ASSUME NEW c, NEW path \in Path, Rooted(path, c),
         NEW m \in Message, NEW l \in Layout[m]
  PROVE  /\ Slot(path \o l.path, l.field) \in Place
         /\ Rooted(path \o l.path, c)
<1> DEFINE q == path \o l.path
<1>1. /\ l.path \in Seq(Hop) /\ path \in Seq(Hop) /\ l.field \in Field
      /\ \A i \in DOMAIN l.path :
           l.path[i].field.kind = "message" /\ ~Behind(l.path[i].field)
  BY LayoutOf DEF Place, Path, Hop
<1>2. /\ q \in Seq(Hop) /\ DOMAIN q = 1 .. Len(path) + Len(l.path)
      /\ \A i \in 1 .. Len(path) + Len(l.path) :
           q[i] = IF i <= Len(path) THEN path[i] ELSE l.path[i - Len(path)]
      /\ Len(path) \in Nat /\ Len(l.path) \in Nat
      /\ DOMAIN path = 1 .. Len(path) /\ DOMAIN l.path = 1 .. Len(l.path)
  BY <1>1, Concat, LenProperties
<1>3. ASSUME NEW i \in DOMAIN q, i <= Len(path)
      PROVE  i \in DOMAIN path /\ q[i] = path[i] /\ Holder(q, i) = Holder(path, i)
  <2>1. i \in DOMAIN path /\ q[i] = path[i] /\ i - 1 \in 0 .. Len(path)
    BY <1>2, <1>3
  <2>2. SubSeq(q, 1, i - 1) = SubSeq(path, 1, i - 1)
    BY <1>1, <2>1, PrefixOfConcat
  <2>3. QED
    BY <2>1, <2>2 DEF Holder
<1>4. ASSUME NEW i \in DOMAIN q, ~(i <= Len(path))
      PROVE  q[i].field.kind = "message" /\ ~Behind(q[i].field)
  <2>1. i - Len(path) \in DOMAIN l.path /\ q[i] = l.path[i - Len(path)]
    BY <1>2, <1>4
  <2>2. QED
    BY <1>1, <2>1
<1> HIDE DEF q
<1>5. Rooted(q, c)
  BY <1>3, <1>4 DEF Rooted
<1>6. Slot(q, l.field) \in Place
  BY <1>1, <1>2 DEF Slot, Place, Path, Hop
<1>7. QED
  BY <1>5, <1>6 DEF q

(* One cell changes; if it is a pointer, there is a block behind it.       *)
LEMMA SoundStores ==
  ASSUME NEW c, NEW h, Sound(c, h), NEW s \in DOMAIN c, NEW v, IsCell(v),
         s.field.kind = "message" => Len(c[s].items) <= Len(v.items),
         Behind(s.field) => v.set /\ Len(v.items) <= v.room
  PROVE  Sound([c EXCEPT ![s] = v], IF Behind(s.field) THEN h \cup {s} ELSE h)
<1> DEFINE d == [c EXCEPT ![s] = v]
<1>1. /\ DOMAIN d = DOMAIN c /\ d[s] = v
      /\ d = [t \in DOMAIN d |-> d[t]]
      /\ \A t \in DOMAIN c : t # s => d[t] = c[t]
  BY DEF Sound
<1>2. /\ DOMAIN c \subseteq Place /\ \A t \in DOMAIN c : IsCell(c[t]) /\ Rooted(t.path, c)
      /\ \A t \in DOMAIN c : Behind(t.field) => Len(c[t].items) <= c[t].room
      /\ h = {t \in DOMAIN c : Behind(t.field) /\ c[t].set}
  BY DEF Sound
<1> HIDE DEF d
<1>3. ASSUME NEW t \in DOMAIN c PROVE Len(c[t].items) \in Nat
  BY <1>2, LenProperties DEF IsCell
<1>4. Len(v.items) \in Nat
  BY LenProperties DEF IsCell
<1>5. ASSUME NEW t \in DOMAIN c PROVE Rooted(t.path, d)
  <2> SUFFICES ASSUME NEW i \in DOMAIN t.path
               PROVE  /\ t.path[i].field.kind = "message"
                      /\ Behind(t.path[i].field) =>
                           /\ Holder(t.path, i) \in DOMAIN d
                           /\ t.path[i].item <= Len(d[Holder(t.path, i)].items)
    BY DEF Rooted
  <2>1. /\ t.path[i].field.kind = "message"
        /\ Behind(t.path[i].field) =>
             /\ Holder(t.path, i) \in DOMAIN c
             /\ t.path[i].item <= Len(c[Holder(t.path, i)].items)
    BY <1>2 DEF Rooted
  <2>2. t.path[i].item \in Nat
    <3>1. t.path \in Seq(Hop)
      BY <1>2 DEF Place, Path, Hop
    <3>2. t.path[i] \in Hop
      BY <3>1, LenProperties, ElementOfSeq
    <3>3. QED
      BY <3>2 DEF Hop
  <2>3. CASE Holder(t.path, i) = s
    <3>1. s.field.kind = "message"
      BY <2>1, <2>3 DEF Holder, Slot
    <3>2. QED
      BY <1>1, <1>3, <1>4, <2>1, <2>2, <2>3, <3>1
  <2>4. CASE Holder(t.path, i) # s
    BY <1>1, <2>1, <2>4
  <2>5. QED
    BY <2>3, <2>4
<1>6. \A t \in DOMAIN d : IsCell(d[t]) /\ Rooted(t.path, d)
  BY <1>1, <1>2, <1>5
<1>7. \A t \in DOMAIN d : Behind(t.field) => Len(d[t].items) <= d[t].room
  BY <1>1, <1>2
<1>8. {t \in DOMAIN d : Behind(t.field) /\ d[t].set}
        = IF Behind(s.field) THEN h \cup {s} ELSE h
  BY <1>1, <1>2
<1>9. QED
  BY <1>1, <1>2, <1>6, <1>7, <1>8 DEF Sound, d

(* One more step on the way.                                               *)
LEMMA StepOnto ==
  ASSUME NEW path \in Path, NEW f \in Field, NEW n \in Nat
  PROVE  /\ path \o Step(f, n) \in Path
         /\ Len(path \o Step(f, n)) = Len(path) + 1
         /\ DOMAIN (path \o Step(f, n)) = 1 .. Len(path) + 1
         /\ (path \o Step(f, n))[Len(path) + 1] = [field |-> f, item |-> n]
         /\ \A i \in 1 .. Len(path) : (path \o Step(f, n))[i] = path[i]
         /\ \A i \in 1 .. Len(path) + 1 :
              SubSeq(path \o Step(f, n), 1, i - 1) = SubSeq(path, 1, i - 1)
         /\ Len(path) \in Nat /\ SubSeq(path, 1, Len(path)) = path
<1>1. path \in Seq(Hop) /\ Step(f, n) \in Seq(Hop)
      /\ Len(Step(f, n)) = 1 /\ Step(f, n)[1] = [field |-> f, item |-> n]
  BY DEF Path, Hop, Step
<1>2. Len(path) \in Nat /\ SubSeq(path, 1, Len(path)) = path
  BY <1>1, LenProperties, SubSeqFull
<1> DEFINE st == Step(f, n)
           q  == path \o st
<1> HIDE DEF st
<1>3. /\ q \in Seq(Hop) /\ Len(q) = Len(path) + 1
      /\ DOMAIN q = 1 .. Len(path) + 1
      /\ \A i \in 1 .. Len(path) + 1 :
           q[i] = IF i <= Len(path) THEN path[i] ELSE st[i - Len(path)]
  <2>1. st \in Seq(Hop) /\ Len(st) = 1
    BY <1>1 DEF st
  <2>2. /\ q \in Seq(Hop) /\ Len(q) = Len(path) + Len(st)
        /\ DOMAIN q = 1 .. Len(path) + Len(st)
        /\ \A i \in 1 .. Len(path) + Len(st) :
             q[i] = IF i <= Len(path) THEN path[i] ELSE st[i - Len(path)]
    BY <1>1, <2>1, Concat
  <2>3. QED
    BY <2>1, <2>2
<1>4. \A i \in 1 .. Len(path) + 1 : SubSeq(q, 1, i - 1) = SubSeq(path, 1, i - 1)
  <2> SUFFICES ASSUME NEW i \in 1 .. Len(path) + 1
               PROVE  SubSeq(q, 1, i - 1) = SubSeq(path, 1, i - 1)
    OBVIOUS
  <2>1. i - 1 \in 0 .. Len(path)
    BY <1>2
  <2>2. QED
    BY <1>1, <2>1, PrefixOfConcat DEF st
<1> HIDE DEF q
<1>5. q[Len(path) + 1] = [field |-> f, item |-> n]
      /\ \A i \in 1 .. Len(path) : q[i] = path[i]
  <2>1. st[1] = [field |-> f, item |-> n]
    BY <1>1 DEF st
  <2>2. QED
    BY <1>2, <1>3, <2>1
<1>6. QED
  BY <1>2, <1>3, <1>4, <1>5 DEF q, st, Path, Hop

LEMMA RootedStep ==
  ASSUME NEW c, NEW path \in Path, Rooted(path, c),
         NEW f \in Field, f.kind = "message", NEW n \in Nat,
         Slot(path, f) \in DOMAIN c, n <= Len(c[Slot(path, f)].items)
  PROVE  Rooted(path \o Step(f, n), c)
<1> DEFINE q == path \o Step(f, n)
<1>1. /\ DOMAIN q = 1 .. Len(path) + 1
      /\ q[Len(path) + 1] = [field |-> f, item |-> n]
      /\ \A i \in 1 .. Len(path) : q[i] = path[i]
      /\ \A i \in 1 .. Len(path) + 1 : SubSeq(q, 1, i - 1) = SubSeq(path, 1, i - 1)
      /\ Len(path) \in Nat /\ SubSeq(path, 1, Len(path)) = path
  BY StepOnto
<1>0. DOMAIN path = 1 .. Len(path)
  BY LenProperties DEF Path
<1> HIDE DEF q
<1>2. ASSUME NEW i \in DOMAIN q
      PROVE  /\ q[i].field.kind = "message"
             /\ Behind(q[i].field) =>
                  /\ Holder(q, i) \in DOMAIN c
                  /\ q[i].item <= Len(c[Holder(q, i)].items)
  <2>1. CASE i = Len(path) + 1
    <3>1. SubSeq(q, 1, i - 1) = path
      BY <1>1, <2>1
    <3>2. q[i].field = f /\ q[i].item = n
      BY <1>1, <2>1
    <3>3. Holder(q, i) = Slot(path, f)
      BY <3>1, <3>2 DEF Holder
    <3>4. QED
      BY <3>2, <3>3
  <2>2. CASE i # Len(path) + 1
    <3>1. i \in DOMAIN path /\ q[i] = path[i]
      BY <1>0, <1>1, <2>2
    <3>2. Holder(q, i) = Holder(path, i)
      BY <1>1, <3>1 DEF Holder
    <3>3. QED
      BY <3>1, <3>2 DEF Rooted
  <2>3. QED
    BY <2>1, <2>2
<1>3. QED
  BY <1>2 DEF Rooted, q

(* Nothing of an element behind the end of its array is in the message.    *)
LEMMA NotYetThere ==
  ASSUME NEW c, NEW h, Sound(c, h), NEW path \in Path, NEW f \in Field,
         f.kind = "message", Behind(f), Slot(path, f) \in DOMAIN c,
         NEW n \in Nat, n > Len(c[Slot(path, f)].items), NEW m \in Message
  PROVE  \A t \in DOMAIN c : t \notin Structure(m, path \o Step(f, n))
<1> DEFINE q == path \o Step(f, n)
<1> SUFFICES ASSUME NEW l \in Layout[m], Slot(q \o l.path, l.field) \in DOMAIN c
             PROVE  FALSE
  BY DEF Structure
<1> DEFINE p == q \o l.path
           k == Len(path) + 1
<1>1. /\ q \in Seq(Hop) /\ Len(q) = k /\ DOMAIN q = 1 .. k
      /\ q[k] = [field |-> f, item |-> n]
      /\ SubSeq(q, 1, k - 1) = path /\ k \in Nat /\ k - 1 \in 0 .. k /\ k \in 1 .. k
  <2>1. /\ q \in Path /\ Len(q) = k /\ DOMAIN q = 1 .. k
        /\ q[k] = [field |-> f, item |-> n]
        /\ SubSeq(q, 1, k - 1) = SubSeq(path, 1, k - 1)
        /\ Len(path) \in Nat /\ SubSeq(path, 1, Len(path)) = path
    <3>1. k \in 1 .. k
      BY StepOnto
    <3>2. QED
      BY <3>1, StepOnto
  <2>2. k - 1 = Len(path) /\ k \in Nat /\ k - 1 \in 0 .. k /\ k \in 1 .. k
    BY <2>1
  <2>3. QED
    BY <2>1, <2>2 DEF Path, Hop
<1> HIDE DEF q, k
<1>2. l.path \in Seq(Hop) /\ Len(l.path) \in Nat
  <2>1. l.path \in Seq(Hop)
    BY LayoutOf DEF Place, Path, Hop
  <2>2. QED
    BY <2>1, LenProperties
<1>3. /\ k \in DOMAIN p /\ p[k] = q[k]
  <2>1. /\ DOMAIN p = 1 .. Len(q) + Len(l.path)
        /\ \A i \in 1 .. Len(q) + Len(l.path) :
             p[i] = IF i <= Len(q) THEN q[i] ELSE l.path[i - Len(q)]
    <3>1. q \in Seq(Hop) /\ l.path \in Seq(Hop)
      BY <1>1, <1>2
    <3>2. QED
      BY <3>1, Concat
  <2>2. k \in 1 .. Len(q) + Len(l.path) /\ k <= Len(q)
    BY <1>1, <1>2
  <2>3. QED
    BY <2>1, <2>2
<1>4. SubSeq(p, 1, k - 1) = path
  <2>1. SubSeq(p, 1, k - 1) = SubSeq(q, 1, k - 1)
    BY <1>1, <1>2, PrefixOfConcat
  <2>2. QED
    BY <1>1, <2>1
<1> HIDE DEF p
<1>5. Slot(p, l.field) \in DOMAIN c
  BY DEF p, q
<1>6. Rooted(p, c)
  BY <1>5 DEF Sound, Slot
<1>7. n <= Len(c[Slot(path, f)].items)
  <2>1. p[k].field = f /\ p[k].item = n
    BY <1>1, <1>3
  <2>2. Holder(p, k) = Slot(path, f)
    BY <1>4, <2>1 DEF Holder
  <2>3. QED
    BY <1>3, <1>6, <2>1, <2>2 DEF Rooted
<1>8. Len(c[Slot(path, f)].items) \in Nat
  BY LenProperties DEF Sound, IsCell
<1>9. QED
  BY <1>7, <1>8

(* A structure that was not there starts from the defaults.                *)
LEMMA SoundStructure ==
  ASSUME NEW c, NEW h, Sound(c, h), NEW path \in Path, Rooted(path, c),
         NEW m \in Message, \A t \in DOMAIN c : t \notin Structure(m, path)
  PROVE  LET d == pb_message_set_to_defaults(m, path, c)
         IN  /\ Sound(d, h) /\ Structure(m, path) \subseteq DOMAIN d
             /\ DOMAIN c \subseteq DOMAIN d /\ \A t \in DOMAIN c : d[t] = c[t]
<1> DEFINE d == pb_message_set_to_defaults(m, path, c)
           new == Structure(m, path)
<1>1. /\ DOMAIN d = new \cup DOMAIN c /\ d = [t \in DOMAIN d |-> d[t]]
      /\ \A t \in DOMAIN c : d[t] = c[t]
      /\ \A t \in new : d[t] = Null
  BY DEF pb_message_set_to_defaults
<1> HIDE DEF d
<1>2. ASSUME NEW t \in new PROVE t \in Place /\ Rooted(t.path, c)
  <2>1. PICK l \in Layout[m] : t = Slot(path \o l.path, l.field)
    BY DEF Structure
  <2>2. t.path = path \o l.path
    BY <2>1 DEF Slot
  <2>3. QED
    BY <2>1, <2>2, RootedBelow
<1>3. IsCell(Null) /\ ~Null.set /\ Len(Null.items) <= Null.room
  BY EmptySeq DEF IsCell, Null
<1>4. /\ DOMAIN c \subseteq Place /\ \A t \in DOMAIN c : IsCell(c[t]) /\ Rooted(t.path, c)
      /\ \A t \in DOMAIN c : Behind(t.field) => Len(c[t].items) <= c[t].room
      /\ h = {t \in DOMAIN c : Behind(t.field) /\ c[t].set}
  BY DEF Sound
<1>5. ASSUME NEW p, Rooted(p, c) PROVE Rooted(p, d)
  BY <1>1, <1>5 DEF Rooted
<1>6. \A t \in DOMAIN d : t \in Place /\ IsCell(d[t]) /\ Rooted(t.path, d)
                          /\ (Behind(t.field) => Len(d[t].items) <= d[t].room)
  BY <1>1, <1>2, <1>3, <1>4, <1>5
<1>7. h = {t \in DOMAIN d : Behind(t.field) /\ d[t].set}
  BY <1>1, <1>3, <1>4
<1>8. QED
  BY <1>1, <1>6, <1>7 DEF Sound, d

LEMMA SoundEmpty ==
  Sound(<<>>, {})
<1>1. DOMAIN <<>> = {}
  OBVIOUS
<1>2. <<>> = [s \in DOMAIN <<>> |-> <<>>[s]]
  OBVIOUS
<1>3. QED
  BY <1>1, <1>2 DEF Sound

LEMMA SoundAtFirst ==
  ASSUME NEW m \in Message
  PROVE  LET d == pb_message_set_to_defaults(m, <<>>, <<>>)
         IN  Sound(d, {}) /\ Structure(m, <<>>) \subseteq DOMAIN d
<1>1. <<>> \in Path /\ DOMAIN <<>> = {} /\ Rooted(<<>>, <<>>)
  BY EmptySeq DEF Path, Rooted
<1>2. QED
  BY <1>1, SoundEmpty, SoundStructure

(* What comes before the end of a way comes before the way's end.          *)
LEMMA PrefixOfPrefix ==
  ASSUME NEW S, NEW a \in Seq(S), NEW t \in Seq(S), NEW i \in 1 .. Len(t),
         IsPrefix(a, SubSeq(t, 1, i - 1))
  PROVE  IsPrefix(a, t) /\ Len(a) < i
<1> DEFINE u == SubSeq(t, 1, i - 1)
           n == Len(a)
<1>1. n \in Nat /\ Len(t) \in Nat
  BY LenProperties
<1>2. u \in Seq(S) /\ Len(u) = i - 1 /\ \A j \in 1 .. i - 1 : u[j] = t[j]
  <2>1. \A j \in 1 .. i - 1 : t[j] \in S
    BY <1>1, ElementOfSeq
  <2>2. QED
    BY <1>1, <2>1, SubSeqProperties
<1>3. n <= Len(u) /\ SubSeq(a, 1, n) = SubSeq(u, 1, n)
  BY DEF IsPrefix
<1> HIDE DEF u, n
<1>4. n < i /\ n <= Len(t)
  BY <1>1, <1>2, <1>3
<1>5. SubSeq(u, 1, n) = SubSeq(t, 1, n)
  <2>1. \A j \in 1 .. n : u[j] \in S /\ t[j] \in S /\ u[j] = t[j]
    <3>1. \A j \in 1 .. n : j \in 1 .. Len(t) /\ j \in 1 .. i - 1
      BY <1>1, <1>4
    <3>2. QED
      BY <1>2, <3>1, ElementOfSeq
  <2>2. /\ SubSeq(u, 1, n) \in Seq(S) /\ Len(SubSeq(u, 1, n)) = n
        /\ \A j \in 1 .. n : SubSeq(u, 1, n)[j] = u[j]
    BY <1>1, <2>1, SubSeqProperties
  <2>3. /\ SubSeq(t, 1, n) \in Seq(S) /\ Len(SubSeq(t, 1, n)) = n
        /\ \A j \in 1 .. n : SubSeq(t, 1, n)[j] = t[j]
    BY <1>1, <2>1, SubSeqProperties
  <2>4. QED
    BY <2>1, <2>2, <2>3, SeqEqual
<1>6. QED
  BY <1>3, <1>4, <1>5 DEF IsPrefix, n

(* Every slot is counted, so pb_release frees all the pointers below.      *)
LEMMA OwnedIs ==
  ASSUME Sound(cells, heap), NEW path
  PROVE  Owned(path) = {s \in DOMAIN cells : /\ IsPrefix(path, s.path)
                                             /\ Behind(s.field) /\ cells[s].set}
<1>1. ASSUME NEW s \in DOMAIN cells PROVE Counted(s.path)
  <2>1. Rooted(s.path, cells)
    BY DEF Sound
  <2>2. QED
    BY <2>1 DEF Rooted, Counted, Holder
<1>2. QED
  BY <1>1 DEF Owned

LEMMA AllOwned ==
  ASSUME Sound(cells, heap)
  PROVE  Owned(<<>>) = heap
<1>1. ASSUME NEW s \in DOMAIN cells PROVE IsPrefix(<<>>, s.path)
  <2>1. s.path \in Seq(Hop)
    BY DEF Sound, Place, Path, Hop
  <2>2. Len(s.path) \in Nat /\ Len(<<>>) = 0
    BY <2>1, LenProperties
  <2>3. SubSeq(<<>>, 1, 0) = <<>> /\ SubSeq(s.path, 1, 0) = <<>>
    BY SubSeqEmpty
  <2>4. QED
    BY <2>2, <2>3 DEF IsPrefix
<1>2. QED
  BY <1>1, OwnedIs DEF Sound

LEMMA SoundReleases ==
  ASSUME Sound(cells, heap), NEW path \in Path, pb_release(path)
  PROVE  /\ Sound(cells, heap)'
         /\ \A m \in Message, p \in Path :
              Len(p) <= Len(path) /\ Structure(m, p) \subseteq DOMAIN cells
                => Structure(m, p) \subseteq DOMAIN cells'
<1> DEFINE Kept(s) == \A i \in DOMAIN s.path :
                        i > Len(path) /\ IsPrefix(path, s.path)
                          => ~Behind(s.path[i].field)
           own == Owned(path)
<1>1. /\ heap' = heap \ own
      /\ cells' = [s \in {t \in DOMAIN cells : Kept(t)} |->
                     IF s \in own THEN Null ELSE cells[s]]
  BY DEF pb_release
<1>2. own = {s \in DOMAIN cells : /\ IsPrefix(path, s.path)
                                  /\ Behind(s.field) /\ cells[s].set}
  BY OwnedIs
<1> HIDE DEF own
<1>3. /\ DOMAIN cells \subseteq Place
      /\ \A t \in DOMAIN cells : IsCell(cells[t]) /\ Rooted(t.path, cells)
      /\ \A t \in DOMAIN cells :
           Behind(t.field) => Len(cells[t].items) <= cells[t].room
      /\ heap = {t \in DOMAIN cells : Behind(t.field) /\ cells[t].set}
  BY DEF Sound
<1>4. IsCell(Null) /\ ~Null.set /\ Len(Null.items) <= Null.room
  BY EmptySeq DEF IsCell, Null
<1>5. /\ cells' = [s \in DOMAIN cells' |-> cells'[s]]
      /\ DOMAIN cells' = {t \in DOMAIN cells : Kept(t)}
      /\ \A s \in DOMAIN cells' : s \in own => cells'[s] = Null
      /\ \A s \in DOMAIN cells' : s \notin own => cells'[s] = cells[s]
  BY <1>1
<1>6. \A s \in DOMAIN cells' : s \in DOMAIN cells /\ Kept(s)
  BY <1>5
<1>7. ASSUME NEW s \in DOMAIN cells', NEW i \in DOMAIN s.path
      PROVE  /\ s.path[i].field.kind = "message"
             /\ Behind(s.path[i].field) =>
                  /\ Holder(s.path, i) \in DOMAIN cells'
                  /\ s.path[i].item <= Len(cells'[Holder(s.path, i)].items)
  <2>1. s \in DOMAIN cells /\ Kept(s) /\ s.path \in Seq(Hop)
    BY <1>3, <1>6 DEF Place, Path, Hop
  <2>2. /\ s.path[i].field.kind = "message"
        /\ Behind(s.path[i].field) =>
             /\ Holder(s.path, i) \in DOMAIN cells
             /\ s.path[i].item <= Len(cells[Holder(s.path, i)].items)
    BY <1>3, <2>1 DEF Rooted
  <2>3. CASE ~Behind(s.path[i].field)
    BY <2>2, <2>3
  <2>4. CASE Behind(s.path[i].field)
    <3> DEFINE q == Holder(s.path, i)
    <3>1. q.path = SubSeq(s.path, 1, i - 1) /\ path \in Seq(Hop) /\ i \in 1 .. Len(s.path)
      BY <2>1, LenProperties DEF Holder, Slot, Path, Hop
    <3>2. ASSUME IsPrefix(path, q.path) PROVE FALSE
      <4>1. IsPrefix(path, s.path) /\ Len(path) < i
        BY <2>1, <3>1, <3>2, PrefixOfPrefix
      <4>2. i > Len(path)
        BY <3>1, <4>1, LenProperties
      <4>3. QED
        BY <2>1, <2>4, <4>1, <4>2
    <3>3. q \in DOMAIN cells /\ Kept(q)
      BY <2>2, <2>4, <3>2
    <3>4. q \in DOMAIN cells' /\ q \notin own
      BY <1>2, <1>5, <3>2, <3>3
    <3>5. QED
      BY <1>5, <2>2, <2>4, <3>4
  <2>5. QED
    BY <2>3, <2>4
<1>8. \A s \in DOMAIN cells' : Rooted(s.path, cells')
  BY <1>7 DEF Rooted
<1>9. \A s \in DOMAIN cells' : IsCell(cells'[s])
                               /\ (Behind(s.field) => Len(cells'[s].items) <= cells'[s].room)
  BY <1>3, <1>4, <1>5, <1>6
<1>10. heap' = {s \in DOMAIN cells' : Behind(s.field) /\ cells'[s].set}
  <2>1. ASSUME NEW s \in heap' PROVE s \in DOMAIN cells' /\ Behind(s.field) /\ cells'[s].set
    <3>1. s \in DOMAIN cells /\ Behind(s.field) /\ cells[s].set /\ s \notin own
      BY <1>1, <1>3
    <3>2. ~IsPrefix(path, s.path)
      BY <1>2, <3>1
    <3>3. QED
      BY <1>5, <3>1, <3>2
  <2>2. ASSUME NEW s \in DOMAIN cells', Behind(s.field), cells'[s].set PROVE s \in heap'
    <3>1. s \notin own
      BY <1>4, <1>5, <2>2
    <3>2. QED
      BY <1>1, <1>3, <1>5, <1>6, <2>2, <3>1
  <2>3. QED
    BY <2>1, <2>2
<1>11. Sound(cells, heap)'
  <2>1. DOMAIN cells' \subseteq Place
    BY <1>3, <1>6
  <2>2. QED
    BY <1>5, <1>8, <1>9, <1>10, <2>1 DEF Sound
<1>12. ASSUME NEW m \in Message, NEW p \in Path, Len(p) <= Len(path),
              Structure(m, p) \subseteq DOMAIN cells
       PROVE  Structure(m, p) \subseteq DOMAIN cells'
  <2> SUFFICES ASSUME NEW l \in Layout[m]
               PROVE  Slot(p \o l.path, l.field) \in DOMAIN cells'
    BY DEF Structure
  <2> DEFINE t == Slot(p \o l.path, l.field)
  <2>1. t \in DOMAIN cells /\ t.path = p \o l.path
    BY <1>12 DEF Structure, Slot
  <2>2. /\ p \in Seq(Hop) /\ l.path \in Seq(Hop) /\ Len(p) \in Nat /\ Len(path) \in Nat
        /\ Len(l.path) \in Nat /\ DOMAIN l.path = 1 .. Len(l.path)
        /\ \A i \in DOMAIN l.path : ~Behind(l.path[i].field)
    BY LayoutOf, LenProperties DEF Place, Path, Hop
  <2>3. /\ DOMAIN (p \o l.path) = 1 .. Len(p) + Len(l.path)
        /\ \A i \in 1 .. Len(p) + Len(l.path) :
             (p \o l.path)[i] = IF i <= Len(p) THEN p[i] ELSE l.path[i - Len(p)]
    BY <2>2, Concat
  <2>4. ASSUME NEW i \in DOMAIN (p \o l.path), i > Len(path)
        PROVE  ~Behind((p \o l.path)[i].field)
    <3>1. i - Len(p) \in DOMAIN l.path /\ ~(i <= Len(p))
      BY <1>12, <2>2, <2>3, <2>4
    <3>2. QED
      BY <2>2, <2>3, <3>1
  <2> HIDE DEF t
  <2>5. Kept(t)
    BY <2>1, <2>4
  <2>6. QED
    BY <1>5, <2>1, <2>5 DEF t
<1>13. QED
  BY <1>11, <1>12

-----------------------------------------------------------------------------
(* The calls.  Only the innermost reads a packed array, whose block has    *)
(* the room that the call counts on once it has counted on more than what  *)
(* was there.                                                              *)
Reading(f, c) ==
  /\ f.slot \in DOMAIN c /\ Behind(f.slot.field) /\ f.slot.field.kind \in Numeric
  /\ Len(c[f.slot].items) <= f.allocated
  /\ Len(c[f.slot].items) < f.allocated =>
       c[f.slot].set /\ f.allocated <= c[f.slot].room

(* The structures that are being read are in the message, the inner ones   *)
(* as deep as the outer ones or deeper.                                    *)
Called(q, c) ==
  /\ \A i \in 1 .. Len(q) :
       /\ i < Len(q) => q[i].kind = "message"
       /\ q[i].kind = "message" => Structure(q[i].message, q[i].path) \subseteq DOMAIN c
       /\ q[i].kind = "packed" => Reading(q[i], c)
  /\ \A i, j \in 1 .. Len(q) :
       i < j /\ q[j].kind = "message" => Len(q[i].path) <= Len(q[j].path)
  /\ q # <<>> => q[1].kind = "message" /\ q[1].init

Same(f, g) ==
  /\ f.kind = "message" /\ g.kind = "message"
  /\ g.message = f.message /\ g.path = f.path /\ g.init = f.init

LEMMA Kinds ==
  ASSUME NEW f \in Frame
  PROVE  /\ f.kind \in {"message", "packed"}
         /\ f.kind = "message" => f.path \in Path /\ f.message \in Message
         /\ f.kind = "packed" => f.slot \in Place /\ f.allocated \in Nat
         /\ f.left \in Nat
BY DEF Frame, Place

(* The innermost call goes on, or stops.                                   *)
LEMMA CalledGoesOn ==
  ASSUME NEW q \in Seq(Frame), q # <<>>, NEW c, NEW d, Called(q, c),
         DOMAIN c \subseteq DOMAIN d,
         NEW r \in Seq(Frame), Len(r) = Len(q),
         \A i \in 1 .. Len(q) : i # Len(q) => r[i] = q[i],
         \/ Same(q[Len(q)], r[Len(q)])
         \/ /\ q[Len(q)].kind = "packed" /\ r[Len(q)].kind = "packed"
            /\ Reading(r[Len(q)], d)
  PROVE  Called(r, d)
<1> DEFINE N == Len(q)
<1>1. N \in Nat /\ N > 0 /\ N \in 1 .. N /\ Len(r) = N /\ 1 \in 1 .. N
  BY LenProperties, EmptySeq
<1>2. /\ \A i \in 1 .. N :
           /\ i < N => q[i].kind = "message"
           /\ q[i].kind = "message" => Structure(q[i].message, q[i].path) \subseteq DOMAIN c
           /\ q[i].kind = "packed" => Reading(q[i], c)
      /\ \A i, j \in 1 .. N :
           i < j /\ q[j].kind = "message" => Len(q[i].path) <= Len(q[j].path)
      /\ q[1].kind = "message" /\ q[1].init
  BY DEF Called
<1> HIDE DEF N
<1>3. \A i \in 1 .. N : r[i].kind = q[i].kind
  BY DEF Same, N
<1>4. \A i \in 1 .. N : q[i].kind = "message" =>
         r[i].message = q[i].message /\ r[i].path = q[i].path /\ r[i].init = q[i].init
  BY DEF Same, N
<1>5. ASSUME NEW i \in 1 .. N
      PROVE  /\ i < N => r[i].kind = "message"
             /\ r[i].kind = "message" => Structure(r[i].message, r[i].path) \subseteq DOMAIN d
             /\ r[i].kind = "packed" => Reading(r[i], d)
  <2>1. i < N => r[i].kind = "message"
    BY <1>2, <1>3
  <2>2. r[i].kind = "message" => Structure(r[i].message, r[i].path) \subseteq DOMAIN d
    <3>1. ASSUME r[i].kind = "message"
          PROVE  Structure(r[i].message, r[i].path) \subseteq DOMAIN d
      <4>1. /\ Structure(q[i].message, q[i].path) \subseteq DOMAIN c
            /\ r[i].message = q[i].message /\ r[i].path = q[i].path
        BY <1>2, <1>3, <1>4, <3>1
      <4>2. QED
        BY <4>1
    <3>2. QED
      BY <3>1
  <2>3. r[i].kind = "packed" => Reading(r[i], d)
    <3>1. ASSUME r[i].kind = "packed" PROVE Reading(r[i], d)
      <4>1. q[i].kind # "message" /\ ~(i < N)
        BY <1>2, <1>3, <3>1
      <4>2. i = N
        BY <1>1, <4>1
      <4>3. QED
        BY <4>1, <4>2 DEF Same, N
    <3>2. QED
      BY <3>1
  <2>4. QED
    BY <2>1, <2>2, <2>3
<1>6. \A i, j \in 1 .. N :
        i < j /\ r[j].kind = "message" => Len(r[i].path) <= Len(r[j].path)
  <2> SUFFICES ASSUME NEW i \in 1 .. N, NEW j \in 1 .. N, i < j, r[j].kind = "message"
               PROVE  Len(r[i].path) <= Len(r[j].path)
    OBVIOUS
  <2>1. i < N
    BY <1>1
  <2>2. q[i].kind = "message" /\ q[j].kind = "message"
    BY <1>2, <1>3, <2>1
  <2>3. QED
    BY <1>2, <1>4, <2>2
<1>7. r[1].kind = "message" /\ r[1].init
  BY <1>1, <1>2, <1>3, <1>4
<1>8. QED
  BY <1>1, <1>5, <1>6, <1>7 DEF Called

(* A call within the innermost one.                                        *)
LEMMA CalledOpens ==
  ASSUME NEW q \in Seq(Frame), q # <<>>, NEW c, Called(q, c),
         q[Len(q)].kind = "message",
         NEW h \in Frame,
         \/ /\ h.kind = "message" /\ Structure(h.message, h.path) \subseteq DOMAIN c
            /\ Len(q[Len(q)].path) <= Len(h.path)
         \/ h.kind = "packed" /\ Reading(h, c)
  PROVE  Called(Append(q, h), c)
<1> DEFINE N == Len(q)
           r == Append(q, h)
<1>1. N \in Nat /\ N > 0 /\ N \in 1 .. N /\ 1 \in 1 .. N
  BY LenProperties, EmptySeq
<1>2. /\ r \in Seq(Frame) /\ Len(r) = N + 1 /\ r[N + 1] = h
      /\ \A i \in 1 .. N : r[i] = q[i]
  BY AppendType, LenProperties
<1>3. /\ \A i \in 1 .. N :
           /\ i < N => q[i].kind = "message"
           /\ q[i].kind = "message" => Structure(q[i].message, q[i].path) \subseteq DOMAIN c
           /\ q[i].kind = "packed" => Reading(q[i], c)
      /\ \A i, j \in 1 .. N :
           i < j /\ q[j].kind = "message" => Len(q[i].path) <= Len(q[j].path)
      /\ q[1].kind = "message" /\ q[1].init
  BY DEF Called
<1>4. \A i \in 1 .. N : q[i].kind = "message" /\ Len(q[i].path) \in Nat
  <2> SUFFICES ASSUME NEW i \in 1 .. N
               PROVE  q[i].kind = "message" /\ Len(q[i].path) \in Nat
    OBVIOUS
  <2>1. q[i].kind = "message"
    BY <1>1, <1>3
  <2>2. q[i] \in Frame
    BY ElementOfSeq
  <2>3. q[i].path \in Path
    BY <2>1, <2>2, Kinds
  <2>4. QED
    BY <2>1, <2>3, LenProperties DEF Path
<1>5. h.kind = "message" => Len(h.path) \in Nat
  BY Kinds, LenProperties DEF Path
<1>6. q[N].kind = "message"
  OBVIOUS
<1> HIDE DEF N, r
<1>7. ASSUME NEW i \in 1 .. N + 1
      PROVE  /\ i < N + 1 => r[i].kind = "message"
             /\ r[i].kind = "message" => Structure(r[i].message, r[i].path) \subseteq DOMAIN c
             /\ r[i].kind = "packed" => Reading(r[i], c)
  <2>1. CASE i = N + 1
    BY <1>1, <1>2, <2>1
  <2>2. CASE i # N + 1
    <3>1. i \in 1 .. N
      BY <1>1, <2>2
    <3>2. QED
      BY <1>2, <1>3, <1>4, <3>1
  <2>3. QED
    BY <2>1, <2>2
<1>8. \A i, j \in 1 .. N + 1 :
        i < j /\ r[j].kind = "message" => Len(r[i].path) <= Len(r[j].path)
  <2> SUFFICES ASSUME NEW i \in 1 .. N + 1, NEW j \in 1 .. N + 1, i < j,
                      r[j].kind = "message"
               PROVE  Len(r[i].path) <= Len(r[j].path)
    OBVIOUS
  <2>1. i \in 1 .. N /\ r[i] = q[i]
    BY <1>1, <1>2
  <2>2. CASE j = N + 1
    <3>1. r[j] = h /\ Len(q[N].path) <= Len(h.path) /\ Len(h.path) \in Nat
      BY <1>2, <1>5, <2>2 DEF N
    <3>2. Len(q[i].path) <= Len(q[N].path)
      <4>1. CASE i = N
        BY <1>1, <1>4, <4>1
      <4>2. CASE i # N
        <5>1. i < N
          BY <1>1, <2>1, <4>2
        <5>2. QED
          BY <1>1, <1>3, <1>6, <2>1, <5>1
      <4>3. QED
        BY <4>1, <4>2
    <3>3. QED
      BY SMTT(40), <1>1, <1>4, <2>1, <3>1, <3>2
  <2>3. CASE j # N + 1
    <3>1. j \in 1 .. N
      BY <1>1, <2>3
    <3>2. QED
      BY <1>2, <1>3, <2>1, <3>1
  <2>4. QED
    BY <2>2, <2>3
<1>9. r[1].kind = "message" /\ r[1].init
  BY <1>1, <1>2, <1>3
<1>10. QED
  BY <1>2, <1>7, <1>8, <1>9 DEF Called, r

(* The innermost call returns to an outer one.                             *)
LEMMA CalledCloses ==
  ASSUME NEW q \in Seq(Frame), Len(q) > 1, NEW c, Called(q, c),
         NEW r \in Seq(Frame), Len(r) = Len(q) - 1,
         \A i \in 1 .. Len(q) - 1 : r[i] = q[i],
         NEW d, \A i \in 1 .. Len(q) - 1 :
                  Structure(q[i].message, q[i].path) \subseteq DOMAIN d
  PROVE  Called(r, d)
<1> DEFINE N == Len(q)
<1>1. N \in Nat /\ N > 1 /\ Len(r) = N - 1 /\ 1 \in 1 .. N - 1
  BY LenProperties
<1>2. /\ \A i \in 1 .. N : i < N => q[i].kind = "message"
      /\ \A i, j \in 1 .. N :
           i < j /\ q[j].kind = "message" => Len(q[i].path) <= Len(q[j].path)
      /\ q # <<>> => q[1].kind = "message" /\ q[1].init
  BY DEF Called
<1>3. q # <<>>
  <2>1. Len(<<>>) = 0
    OBVIOUS
  <2>2. QED
    BY <1>1, <2>1
<1> HIDE DEF N
<1>4. \A i \in 1 .. N - 1 : i \in 1 .. N /\ i < N /\ r[i] = q[i] /\ q[i].kind = "message"
  BY <1>1, <1>2 DEF N
<1>5. \A i \in 1 .. N - 1 : Structure(r[i].message, r[i].path) \subseteq DOMAIN d
  BY <1>4 DEF N
<1>6. \A i, j \in 1 .. N - 1 :
        i < j /\ r[j].kind = "message" => Len(r[i].path) <= Len(r[j].path)
  BY <1>2, <1>4
<1>7. r[1].kind = "message" /\ r[1].init
  BY <1>1, <1>2, <1>3, <1>4
<1>8. QED
  BY <1>1, <1>4, <1>5, <1>6, <1>7 DEF Called

-----------------------------------------------------------------------------
(* The invariant.                                                          *)
Outcome ==
  /\ answer \in {"none", "true", "false"}
  /\ state \in {"idle", "decoding", "decoded"}
  /\ state = "decoding" <=> frames # <<>>
  /\ state = "idle" => heap = {}
  /\ state = "decoded" => answer # "none" /\ (answer = "false" => heap = {})

DInv == Streams /\ Sound(cells, heap) /\ Called(frames, cells) /\ Outcome

(* What holds in the innermost call.                                       *)
LEMMA InCall ==
  ASSUME DInv, frames # <<>>
  PROVE  /\ frames \in Seq(Frame) /\ Len(frames) \in Nat \ {0}
         /\ Len(frames) \in 1 .. Len(frames) /\ Len(frames) \in DOMAIN frames
         /\ Top = frames[Len(frames)] /\ Top \in Frame /\ Top.left \in Nat
         /\ Ahead \in Seq(Byte) /\ Len(Ahead) = Top.left
         /\ Top.kind = "message" => /\ Top.path \in Path /\ Top.message \in Message
                                    /\ Structure(Top.message, Top.path) \subseteq DOMAIN cells
         /\ Top.kind = "packed" => Reading(Top, cells)
         /\ state = "decoding"
<1>1. /\ Len(frames) \in 1 .. Len(frames) /\ Len(frames) \in DOMAIN frames
      /\ Top \in Frame /\ Top.left \in Nat
      /\ Ahead \in Seq(Byte) /\ Len(Ahead) = Top.left
  BY AheadInside DEF DInv
<1>2. frames \in Seq(Frame) /\ Len(frames) \in Nat \ {0}
  BY EmptySeq DEF DInv, Streams
<1>3. /\ Top.kind = "message" => Structure(Top.message, Top.path) \subseteq DOMAIN cells
      /\ Top.kind = "packed" => Reading(Top, cells)
  BY <1>1 DEF DInv, Called, Top
<1>4. QED
  BY <1>1, <1>2, <1>3, Kinds DEF Top, DInv, Outcome

LEMMA InField ==
  ASSUME DInv, NEW f, AtField(f), f \in FieldsOf(Top.message)
  PROVE  /\ frames # <<>> /\ answer = "none" /\ Top.kind = "message"
         /\ f \in Field /\ f.of \in Message
         /\ Here(f) \in DOMAIN cells /\ Here(f) = Slot(Top.path, f)
         /\ Here(f).field = f /\ Here(f).path = Top.path
         /\ IsCell(cells[Here(f)]) /\ Rooted(Top.path, cells)
<1>1. frames # <<>> /\ answer = "none" /\ Top.kind = "message"
  BY DEF AtField, Runs
<1>2. /\ Top.path \in Path /\ Top.message \in Message
      /\ Structure(Top.message, Top.path) \subseteq DOMAIN cells
  BY <1>1, InCall
<1>3. f \in Field
  <2>1. PICK i \in DOMAIN Fields[Top.message] : f = Fields[Top.message][i]
    BY DEF FieldsOf
  <2>2. Fields[Top.message] \in Seq(Field)
    BY <1>2, FieldsAssumption
  <2>3. QED
    BY <2>1, <2>2, LenProperties, ElementOfSeq
<1>4. Here(f) \in DOMAIN cells
  <2> DEFINE l == Slot(<<>>, f)
  <2>1. l \in Layout[Top.message]
    BY <1>2, LayoutAssumption
  <2>2. l.path = <<>> /\ l.field = f
    BY DEF Slot
  <2>3. Top.path \o <<>> = Top.path
    BY <1>2, ConcatEmptySeq DEF Path
  <2> HIDE DEF l
  <2>4. Slot(Top.path \o l.path, l.field) \in Structure(Top.message, Top.path)
    BY <2>1 DEF Structure
  <2>5. Slot(Top.path \o l.path, l.field) = Here(f)
    BY <2>2, <2>3 DEF Here
  <2>6. QED
    BY <1>2, <2>4, <2>5
<1>5. Here(f).field = f /\ Here(f).path = Top.path
  BY DEF Here, Slot
<1>6. IsCell(cells[Here(f)]) /\ Rooted(Top.path, cells)
  BY <1>4, <1>5 DEF DInv, Sound
<1>7. f.of \in Message
  BY <1>3 DEF Field
<1>8. QED
  BY <1>1, <1>3, <1>4, <1>5, <1>6, <1>7 DEF Here

(* Each step of a call is one of three: it stops, ...                      *)
LEMMA Stops ==
  ASSUME DInv, frames # <<>>, frames' = frames, pos' = pos,
         UNCHANGED reading, answer' \in {"none", "true", "false"},
         Sound(cells, heap)', DOMAIN cells \subseteq DOMAIN cells',
         Top.kind = "packed" => Reading(Top, cells')
  PROVE  DInv'
<1>1. Streams'
  BY DEF DInv, Streams, reading
<1>2. Called(frames, cells)'
  <2>1. Same(Top, Top) \/ (Top.kind = "packed" /\ Reading(Top, cells'))
    BY InCall, Kinds DEF Same
  <2>2. Called(frames, cells')
    BY <2>1, InCall, CalledGoesOn DEF DInv
  <2>3. QED
    BY <2>2
<1>3. Outcome'
  BY InCall DEF DInv, Outcome, reading
<1>4. QED
  BY <1>1, <1>2, <1>3 DEF DInv

(* ... it moves on ...                                                     *)
LEMMA Moves ==
  ASSUME DInv, frames # <<>>, NEW n \in 0 .. Top.left, NEW g \in Frame,
         g.left = Top.left - n,
         frames' = [frames EXCEPT ![Len(frames)] = g], pos' = pos + n,
         UNCHANGED reading, answer' \in {"none", "true", "false"},
         Sound(cells, heap)', DOMAIN cells \subseteq DOMAIN cells',
         \/ Same(Top, g)
         \/ Top.kind = "packed" /\ g.kind = "packed" /\ Reading(g, cells')
  PROVE  DInv'
<1>1. /\ frames \in Seq(Frame) /\ pos \in Nat /\ Len(input) \in Nat
      /\ \E stop : Chain(stop, frames, pos, Len(input))
      /\ input \in Seq(Byte) /\ input' = input
  BY LenProperties DEF DInv, Streams, reading
<1>2. frames' \in Seq(Frame) /\ \E stop : Chain(stop, frames', pos', Len(input))
  BY <1>1, ChainMoves DEF Top
<1>3. pos' \in Nat
  BY <1>1, InCall
<1>4. Streams'
  BY <1>1, <1>2, <1>3 DEF Streams
<1>5. /\ Len(frames') = Len(frames) /\ frames'[Len(frames)] = g
      /\ \A i \in 1 .. Len(frames) : i # Len(frames) => frames'[i] = frames[i]
  <2>1. Len(frames) \in DOMAIN frames /\ DOMAIN frames = 1 .. Len(frames)
    BY SMTT(40), <1>1, InCall, LenProperties
  <2>2. QED
    BY <1>1, <2>1, ReplaceAtType
<1>6. Called(frames', cells')
  BY ZenonT(60), <1>2, <1>5, InCall, CalledGoesOn DEF DInv
<1>7. frames' # <<>>
  BY <1>1, <1>5, InCall
<1>8. Outcome'
  BY <1>7, InCall DEF DInv, Outcome, reading
<1>9. QED
  BY <1>4, <1>6, <1>8 DEF DInv

(* ... or it makes another call.                                           *)
LEMMA Opens ==
  ASSUME DInv, frames # <<>>, answer = "none", Top.kind = "message",
         Sized(Ahead).ok, NEW frame \in Frame,
         pb_make_string_substream(Sized(Ahead), frame),
         UNCHANGED reading,
         Sound(cells, heap)', DOMAIN cells \subseteq DOMAIN cells',
         \/ /\ frame.kind = "message"
            /\ Structure(frame.message, frame.path) \subseteq DOMAIN cells'
            /\ Len(Top.path) <= Len(frame.path)
         \/ frame.kind = "packed" /\ Reading(frame, cells')
  PROVE  DInv'
<1> DEFINE took == Sized(Ahead).took
           n == Sized(Ahead).n
           g == [Top EXCEPT !.left = Top.left - took - n]
           h == [frame EXCEPT !.left = n]
           mid == [frames EXCEPT ![Len(frames)] = g]
<1>1. /\ frames \in Seq(Frame) /\ pos \in Nat /\ Len(input) \in Nat
      /\ \E stop : Chain(stop, frames, pos, Len(input))
      /\ input \in Seq(Byte) /\ input' = input
  BY LenProperties DEF DInv, Streams, reading
<1>2. took \in Nat /\ n \in Nat /\ took + n \in 0 .. Top.left /\ Top.left - took - n \in Nat
      /\ Top.left - took - n = Top.left - (took + n)
  <2>1. took \in 1 .. Top.left /\ n \in 0 .. Top.left - took /\ Top.left \in Nat
    BY InCall, SizedInside
  <2>2. QED
    BY <2>1
<1>3. frames' = Append(mid, h) /\ pos' = pos + took /\ answer' = answer
  BY DEF pb_make_string_substream, Top
<1> HIDE DEF took, n
<1>4. /\ g \in Frame /\ g.left = Top.left - (took + n) /\ Same(Top, g)
  BY <1>2, InCall, WithLeft DEF Same
<1>5. /\ h \in Frame /\ h.left = n
      /\ \/ /\ h.kind = "message" /\ h.message = frame.message /\ h.path = frame.path
         \/ h.kind = "packed" /\ h.slot = frame.slot /\ h.allocated = frame.allocated
      /\ h.kind = frame.kind
  BY <1>2, WithLeft, Kinds
<1> HIDE DEF g, h
<1>6. /\ mid \in Seq(Frame)
      /\ \E stop : Chain(stop, mid, pos + (took + n), Len(input))
  BY <1>1, <1>2, <1>4, ChainMoves DEF Top
<1>7. /\ Len(mid) = Len(frames) /\ mid[Len(frames)] = g
      /\ \A i \in 1 .. Len(frames) : i # Len(frames) => mid[i] = frames[i]
  <2>1. Len(frames) \in DOMAIN frames /\ DOMAIN frames = 1 .. Len(frames)
    BY <1>1, InCall, LenProperties
  <2>2. QED
    BY <1>1, <1>4, <2>1, ReplaceAtType
<1> HIDE DEF mid
<1>8. /\ Append(mid, h) \in Seq(Frame)
      /\ \E stop : Chain(stop, Append(mid, h), pos + took, Len(input))
  <2>1. pos + took \in Nat /\ (pos + took) + n = pos + (took + n)
    BY <1>1, <1>2
  <2>2. QED
    BY <1>1, <1>2, <1>5, <1>6, <2>1, ChainOpens
<1>9. Streams'
  BY <1>1, <1>2, <1>3, <1>8 DEF Streams
<1>10. mid # <<>>
  <2>1. Len(<<>>) = 0 /\ Len(mid) # 0
    BY <1>7, InCall
  <2>2. QED
    BY <2>1
<1>11. Called(mid, cells')
  BY <1>4, <1>6, <1>7, InCall, CalledGoesOn DEF DInv
<1>12. Called(frames', cells')
  <2>1. mid[Len(mid)] = g /\ g.kind = "message" /\ g.path = Top.path
    BY <1>4, <1>7 DEF Same
  <2>2. \/ /\ h.kind = "message" /\ Structure(h.message, h.path) \subseteq DOMAIN cells'
           /\ Len(mid[Len(mid)].path) <= Len(h.path)
        \/ h.kind = "packed" /\ Reading(h, cells')
    BY <1>5, <2>1 DEF Reading
  <2>3. Called(Append(mid, h), cells')
    BY <1>5, <1>6, <1>10, <1>11, <2>1, <2>2, CalledOpens
  <2>4. QED
    BY <1>3, <2>3
<1>13. frames' # <<>>
  <2>1. Len(Append(mid, h)) = Len(mid) + 1 /\ Len(mid) \in Nat
    BY <1>5, <1>6, AppendType, LenProperties
  <2>2. QED
    BY <1>3, <2>1
<1>14. Outcome'
  BY <1>3, <1>13, InCall DEF DInv, Outcome, reading
<1>15. QED
  BY <1>9, <1>12, <1>14 DEF DInv

LEMMA Takes ==
  ASSUME DInv, frames # <<>>, Top.kind = "message", NEW n \in 0 .. Top.left,
         frames' = [frames EXCEPT ![Len(frames)].left = @ - n], pos' = pos + n,
         UNCHANGED reading, answer' \in {"none", "true", "false"},
         Sound(cells, heap)', DOMAIN cells \subseteq DOMAIN cells'
  PROVE  DInv'
<1> DEFINE g == [Top EXCEPT !.left = Top.left - n]
<1>1. Top \in Frame /\ Top.left - n \in Nat
  BY InCall
<1>2. g \in Frame /\ g.left = Top.left - n /\ Same(Top, g)
  BY <1>1, WithLeft DEF Same
<1>3. frames' = [frames EXCEPT ![Len(frames)] = g]
  BY DEF Top
<1> HIDE DEF g
<1>4. QED
  BY <1>2, <1>3, Moves

LEMMA MemoryStays ==
  ASSUME DInv, UNCHANGED memory
  PROVE  /\ Sound(cells, heap)' /\ DOMAIN cells \subseteq DOMAIN cells'
         /\ \A f : Reading(f, cells) => Reading(f, cells')
BY DEF DInv, memory

LEMMA EndStep ==
  ASSUME DInv, EndMessage \/ EndPacked
  PROVE  DInv'
<1>1. /\ frames # <<>> /\ frames' = frames /\ pos' = pos /\ answer' = "true"
      /\ UNCHANGED reading /\ UNCHANGED memory
  BY DEF EndMessage, EndPacked, Runs
<1>2. QED
  BY <1>1, InCall, MemoryStays, Stops

LEMMA PackedCannotGrowStep ==
  ASSUME DInv, PackedCannotGrow
  PROVE  DInv'
<1>1. /\ frames # <<>> /\ frames' = frames /\ pos' = pos /\ answer' = "false"
      /\ UNCHANGED reading /\ UNCHANGED memory
  BY DEF PackedCannotGrow, Runs, Fail
<1>2. QED
  BY <1>1, InCall, MemoryStays, Stops

LEMMA DecodeTagStep ==
  ASSUME DInv, DecodeTag
  PROVE  DInv'
<1> DEFINE r == pb_decode_varint32(Ahead)
<1>1. /\ frames # <<>> /\ Top.kind = "message" /\ answer = "none"
      /\ UNCHANGED reading /\ UNCHANGED memory
  BY DEF DecodeTag, Runs
<1>2. \/ Fail("malformed")
      \/ /\ r.ok /\ pos' = pos + r.took
         /\ frames' = [frames EXCEPT ![Len(frames)].left = @ - r.took]
         /\ answer' = IF r.n = 0 THEN "true" ELSE "none"
  BY DEF DecodeTag
<1>3. r.ok => r.took \in 0 .. Top.left
  <2>1. Ahead \in Seq(Byte) /\ Len(Ahead) = Top.left /\ Top.left \in Nat
    BY <1>1, InCall
  <2>2. r.ok => r.took \in 1 .. Top.left
    BY <2>1, NumbersInside
  <2>3. QED
    BY <2>1, <2>2
<1> HIDE DEF r
<1>4. CASE Fail("malformed")
  BY <1>1, <1>4, MemoryStays, Stops DEF Fail
<1>5. CASE ~Fail("malformed")
  <2>1. answer' \in {"none", "true", "false"}
    BY <1>2, <1>5
  <2>2. QED
    BY <1>1, <1>2, <1>3, <1>5, <2>1, MemoryStays, Takes
<1>6. QED
  BY <1>4, <1>5

LEMMA SkipFieldStep ==
  ASSUME DInv, SkipField
  PROVE  DInv'
<1> DEFINE r == pb_skip_field(WireType, Ahead)
<1>1. /\ frames # <<>> /\ Top.kind = "message" /\ answer = "none"
      /\ UNCHANGED reading /\ UNCHANGED memory
  BY DEF SkipField, Runs
<1>2. IF r.ok THEN Take(r.took) ELSE Fail("malformed")
  BY DEF SkipField
<1>3. r.ok => r.took \in 0 .. Top.left
  <2>1. Ahead \in Seq(Byte) /\ Len(Ahead) = Top.left /\ Top.left \in Nat
    BY <1>1, InCall
  <2>2. r.ok => r.took \in 1 .. Top.left
    BY <2>1, SkipInside
  <2>3. QED
    BY <2>1, <2>2
<1> HIDE DEF r
<1>4. CASE r.ok
  BY <1>1, <1>2, <1>3, <1>4, MemoryStays, Takes DEF Take
<1>5. CASE ~r.ok
  BY <1>1, <1>2, <1>5, MemoryStays, Stops DEF Fail
<1>6. QED
  BY <1>4, <1>5

(* The fields.                                                             *)
LEMMA Holds ==
  ASSUME NEW S, NEW items \in Seq(S), NEW room \in Nat
  PROVE  /\ IsCell(Holding(items, room)) /\ Holding(items, room).set
         /\ Holding(items, room).items = items /\ Holding(items, room).room = room
BY DEF IsCell, Holding

LEMMA WithSet ==
  ASSUME NEW v, IsCell(v)
  PROVE  LET w == [v EXCEPT !.set = TRUE]
         IN  IsCell(w) /\ w.set /\ w.items = v.items /\ w.room = v.room
<1>1. PICK S : v \in [set : BOOLEAN, items : Seq(S), room : Nat]
  BY DEF IsCell
<1> DEFINE w == [v EXCEPT !.set = TRUE]
<1>2. w \in [set : BOOLEAN, items : Seq(S), room : Nat]
      /\ w.set /\ w.items = v.items /\ w.room = v.room
  BY <1>1
<1> HIDE DEF w
<1>3. IsCell(w)
  BY <1>2 DEF IsCell
<1>4. QED
  BY <1>2, <1>3 DEF w

LEMMA ItemsOf ==
  ASSUME NEW v, IsCell(v)
  PROVE  /\ Len(v.items) \in Nat /\ v.room \in Nat /\ v.set \in BOOLEAN
         /\ \E S : v.items \in Seq(S)
<1>1. PICK S : v \in [set : BOOLEAN, items : Seq(S), room : Nat]
  BY DEF IsCell
<1>2. v.items \in Seq(S) /\ v.room \in Nat /\ v.set \in BOOLEAN
  BY <1>1
<1>3. QED
  BY <1>2, LenProperties

(* A value behind another one, whatever it is.                             *)
LEMMA AppendAny ==
  ASSUME NEW items, \E S : items \in Seq(S), NEW n
  PROVE  /\ \E S : Append(items, n) \in Seq(S)
         /\ Len(Append(items, n)) = Len(items) + 1 /\ Len(items) \in Nat
<1>1. PICK S : items \in Seq(S)
  OBVIOUS
<1>2. items \in Seq(S \cup {n}) /\ n \in S \cup {n}
  BY <1>1, SeqMonotonic
<1>3. /\ Append(items, n) \in Seq(S \cup {n})
      /\ Len(Append(items, n)) = Len(items) + 1 /\ Len(items) \in Nat
  BY <1>2, AppendType, LenProperties
<1>4. QED
  BY <1>3

LEMMA StepType ==
  ASSUME NEW path \in Path, NEW f \in Field, NEW n \in Nat
  PROVE  /\ path \o Step(f, n) \in Path /\ Len(path) \in Nat
         /\ Len(path \o Step(f, n)) = Len(path) + 1
BY StepOnto

LEMMA NumberStep ==
  ASSUME DInv, NEW f, DecodeNumber(f), f \in FieldsOf(Top.message)
  PROVE  DInv'
<1> DEFINE r == Scalar(f.kind, Ahead)
           s == Here(f)
<1>1. /\ AtField(f) /\ f.shape = "optional" /\ f.kind \in Numeric
      /\ UNCHANGED <<heap, reading>>
  BY DEF DecodeNumber
<1>2. /\ frames # <<>> /\ answer = "none" /\ Top.kind = "message"
      /\ s \in DOMAIN cells /\ s.field = f /\ IsCell(cells[s])
  BY <1>1, InField
<1>3. ~Behind(s.field) /\ s.field.kind # "message"
  BY <1>1, <1>2 DEF Behind, Numeric
<1>4. IF r.ok
      THEN Take(r.took) /\ cells' = [cells EXCEPT ![s] = Holding(<<r.n>>, 1)]
      ELSE Fail("malformed") /\ cells' = [cells EXCEPT ![s].set = TRUE]
  BY DEF DecodeNumber
<1>5. r.ok => r.took \in 0 .. Top.left
  <2>1. Ahead \in Seq(Byte) /\ Len(Ahead) = Top.left /\ Top.left \in Nat
    BY <1>2, InCall
  <2>2. r.ok => r.took \in 1 .. Top.left
    BY <1>1, <2>1, ScalarInside
  <2>3. QED
    BY <2>1, <2>2
<1> HIDE DEF r, s
<1>6. ASSUME NEW v, IsCell(v), cells' = [cells EXCEPT ![s] = v]
      PROVE  Sound(cells, heap)' /\ DOMAIN cells \subseteq DOMAIN cells'
  <2>1. Sound([cells EXCEPT ![s] = v], heap)
    BY <1>2, <1>3, <1>6, SoundStores DEF DInv
  <2>2. heap' = heap
    BY <1>1
  <2>3. QED
    BY <1>6, <2>1, <2>2
<1>7. CASE r.ok
  <2>1. IsCell(Holding(<<r.n>>, 1))
    <3>1. <<r.n>> \in Seq({r.n})
      OBVIOUS
    <3>2. QED
      BY <3>1, Holds
  <2>2. Sound(cells, heap)' /\ DOMAIN cells \subseteq DOMAIN cells'
    BY <1>4, <1>6, <1>7, <2>1
  <2>3. QED
    BY <1>1, <1>2, <1>4, <1>5, <1>7, <2>2, Takes DEF Take
<1>8. CASE ~r.ok
  <2>1. cells' = [cells EXCEPT ![s] = [cells[s] EXCEPT !.set = TRUE]]
    BY <1>4, <1>8
  <2>2. IsCell([cells[s] EXCEPT !.set = TRUE])
    BY <1>2, WithSet
  <2>3. Sound(cells, heap)' /\ DOMAIN cells \subseteq DOMAIN cells'
    BY <1>6, <2>1, <2>2
  <2>4. QED
    BY <1>1, <1>2, <1>4, <1>8, <2>3, Stops DEF Fail
<1>9. QED
  BY <1>7, <1>8

LEMMA MessageStep ==
  ASSUME DInv, NEW f, DecodeMessage(f), f \in FieldsOf(Top.message)
  PROVE  DInv'
<1> DEFINE size == Sized(Ahead)
           s == Here(f)
           path == Top.path \o Step(f, 0)
           frame == MessageFrame(f.of, path, FALSE)
<1>1. /\ AtField(f) /\ f.shape = "optional" /\ f.kind = "message"
      /\ UNCHANGED <<heap, reading>>
      /\ cells' = [cells EXCEPT ![s].set = TRUE]
      /\ IF size.ok THEN pb_make_string_substream(size, frame) ELSE Fail("malformed")
  BY DEF DecodeMessage
<1>2. /\ frames # <<>> /\ answer = "none" /\ Top.kind = "message"
      /\ f \in Field /\ f.of \in Message
      /\ s \in DOMAIN cells /\ s.field = f /\ IsCell(cells[s])
  BY <1>1, InField
<1>3. ~Behind(f)
  BY <1>1 DEF Behind
<1>4. /\ cells' = [cells EXCEPT ![s] = [cells[s] EXCEPT !.set = TRUE]]
      /\ IsCell([cells[s] EXCEPT !.set = TRUE])
      /\ [cells[s] EXCEPT !.set = TRUE].items = cells[s].items
  BY <1>1, <1>2, WithSet
<1>5. Len(cells[s].items) <= Len(cells[s].items)
  BY <1>2, ItemsOf
<1>6. Sound(cells, heap)' /\ DOMAIN cells \subseteq DOMAIN cells'
  <2>1. Sound(cells', heap)
    BY <1>2, <1>3, <1>4, <1>5, SoundStores DEF DInv
  <2>2. QED
    BY <1>1, <2>1
<1>7. Top.path \in Path /\ Top.message \in Message
      /\ Structure(Top.message, Top.path) \subseteq DOMAIN cells
  BY <1>2, InCall
<1>8. path \in Path /\ Len(Top.path) <= Len(path)
  <2>1. path \in Path /\ Len(path) = Len(Top.path) + 1 /\ Len(Top.path) \in Nat
    BY <1>2, <1>7, StepType
  <2>2. QED
    BY <2>1
<1>9. Structure(f.of, path) \subseteq DOMAIN cells
  <2> SUFFICES ASSUME NEW l \in Layout[f.of]
               PROVE  Slot(path \o l.path, l.field) \in DOMAIN cells
    BY DEF Structure
  <2>1. Slot(Step(f, 0) \o l.path, l.field) \in Layout[Top.message]
    BY <1>1, <1>3, <1>7, LayoutAssumption
  <2> DEFINE k == Slot(Step(f, 0) \o l.path, l.field)
  <2>2. k.path = Step(f, 0) \o l.path /\ k.field = l.field
    BY DEF Slot
  <2> HIDE DEF k
  <2>3. Slot(Top.path \o k.path, k.field) \in Structure(Top.message, Top.path)
    BY <2>1 DEF Structure, k
  <2>4. Top.path \o (Step(f, 0) \o l.path) = path \o l.path
    <3>1. Top.path \in Seq(Hop) /\ Step(f, 0) \in Seq(Hop) /\ l.path \in Seq(Hop)
      <4>1. Step(f, 0) \in Seq(Hop)
        BY <1>2 DEF Step, Hop
      <4>2. l.path \in Seq(Hop)
        BY <1>2, LayoutOf DEF Place, Path, Hop
      <4>3. QED
        BY <1>7, <4>1, <4>2 DEF Path, Hop
    <3> DEFINE a == Top.path
               b == Step(f, 0)
               c == l.path
    <3>2. a \in Seq(Hop) /\ b \in Seq(Hop) /\ c \in Seq(Hop)
      BY <3>1
    <3> HIDE DEF a, b, c
    <3>3. (a \o b) \o c = a \o (b \o c)
      BY SMTT(40), <3>2, ConcatAssociative
    <3>4. QED
      BY <3>3 DEF a, b, c
  <2>5. QED
    BY <1>7, <2>2, <2>3, <2>4
<1>10. /\ frame \in Frame /\ frame.kind = "message"
       /\ frame.message = f.of /\ frame.path = path
  BY <1>2, <1>8 DEF MessageFrame, Frame
<1> HIDE DEF size, frame, path, s
<1>11. CASE size.ok
  <2>1. Structure(frame.message, frame.path) \subseteq DOMAIN cells'
        /\ Len(Top.path) <= Len(frame.path)
    BY <1>6, <1>8, <1>9, <1>10
  <2>2. QED
    BY <1>1, <1>2, <1>6, <1>10, <1>11, <2>1, Opens DEF size
<1>12. CASE ~size.ok
  BY <1>1, <1>2, <1>6, <1>12, Stops DEF Fail
<1>13. QED
  BY <1>11, <1>12

LEMMA BytesStep ==
  ASSUME DInv, NEW f, DecodeBytes(f), f \in FieldsOf(Top.message)
  PROVE  DInv'
<1> DEFINE size == Sized(Ahead)
           s == Here(f)
           bytes == SubSeq(Ahead, size.took + 1, size.took + size.n)
<1>1. /\ AtField(f) /\ f.shape = "pointer" /\ f.kind = "bytes"
      /\ UNCHANGED reading
      /\ \/ /\ size.ok /\ allocate_field(s)
            /\ cells' = [cells EXCEPT ![s] = Holding(bytes, size.n)]
            /\ Take(size.took + size.n)
         \/ /\ \E msg : Fail(msg)
            /\ UNCHANGED memory
  BY DEF DecodeBytes
<1>2. /\ frames # <<>> /\ answer = "none" /\ Top.kind = "message"
      /\ s \in DOMAIN cells /\ s.field = f /\ IsCell(cells[s])
  BY <1>1, InField
<1>3. Behind(s.field) /\ s.field.kind # "message"
  BY <1>1, <1>2 DEF Behind
<1>4. Ahead \in Seq(Byte) /\ Len(Ahead) = Top.left /\ Top.left \in Nat
  BY <1>2, InCall
<1>5. ASSUME size.ok
      PROVE  /\ size.took + size.n \in 0 .. Top.left /\ size.n \in Nat
             /\ bytes \in Seq(Byte) /\ Len(bytes) = size.n
  <2>1. size.took \in 1 .. Top.left /\ size.n \in 0 .. Top.left - size.took
    BY <1>4, <1>5, SizedInside
  <2> HIDE DEF size
  <2>2. size.took + size.n \in 0 .. Top.left /\ size.n \in Nat /\ size.took \in Nat
    BY <1>4, <2>1
  <2>3. \A i \in size.took + 1 .. size.took + size.n : Ahead[i] \in Byte
    <3>1. \A i \in size.took + 1 .. size.took + size.n : i \in 1 .. Len(Ahead)
      BY <1>4, <2>2
    <3>2. QED
      BY <1>4, <3>1, ElementOfSeq
  <2>4. bytes \in Seq(Byte) /\ Len(bytes) = size.n
    BY <2>2, <2>3, SubSeqProperties
  <2>5. QED
    BY <2>2, <2>4
<1> HIDE DEF size, bytes, s
<1>6. CASE size.ok /\ allocate_field(s)
           /\ cells' = [cells EXCEPT ![s] = Holding(bytes, size.n)]
           /\ Take(size.took + size.n)
  <2>1. /\ IsCell(Holding(bytes, size.n)) /\ Holding(bytes, size.n).set
        /\ Len(Holding(bytes, size.n).items) <= Holding(bytes, size.n).room
    BY <1>5, <1>6, Holds
  <2>2. Sound(cells', heap \cup {s})
    BY <1>2, <1>3, <1>6, <2>1, SoundStores DEF DInv
  <2>3. Sound(cells, heap)' /\ DOMAIN cells \subseteq DOMAIN cells'
    BY <1>6, <2>2 DEF allocate_field
  <2>4. QED
    BY <1>1, <1>2, <1>5, <1>6, <2>3, Takes DEF Take
<1>7. CASE (\E msg : Fail(msg)) /\ UNCHANGED memory
  BY <1>1, <1>2, <1>7, MemoryStays, Stops DEF Fail
<1>8. QED
  BY <1>1, <1>6, <1>7

(* An array that became one longer.                                        *)
LEMMA GrownIs ==
  ASSUME DInv, NEW f, AtField(f), f \in FieldsOf(Top.message), f.shape = "repeated"
  PROVE  LET s == Here(f)
             n == Len(cells[s].items) + 1
         IN  /\ Sound(Grown(f), heap \cup {s}) /\ DOMAIN Grown(f) = DOMAIN cells
             /\ IsCell(Grown(f)[s]) /\ Len(Grown(f)[s].items) = n
             /\ Grown(f)[s].set /\ Grown(f)[s].room = n
             /\ n \in Nat \ {0} /\ Behind(f)
<1> DEFINE s == Here(f)
           n == Len(cells[s].items) + 1
           v == Holding(Append(cells[s].items, 0), n)
<1>1. s \in DOMAIN cells /\ s.field = f /\ IsCell(cells[s]) /\ Behind(f)
  BY InField DEF Behind
<1>2. Grown(f) = [cells EXCEPT ![s] = v]
  BY DEF Grown
<1>3. /\ \E S : Append(cells[s].items, 0) \in Seq(S)
      /\ Len(Append(cells[s].items, 0)) = n /\ Len(cells[s].items) \in Nat
  BY <1>1, ItemsOf, AppendAny
<1>4. n \in Nat \ {0} /\ Len(cells[s].items) <= n /\ n <= n
  BY <1>3
<1>5. IsCell(v) /\ v.set /\ v.items = Append(cells[s].items, 0) /\ v.room = n
  BY <1>3, <1>4, Holds
<1>6. Len(v.items) = n
  BY <1>3, <1>5
<1> HIDE DEF v, n, s
<1>7. Sound([cells EXCEPT ![s] = v], heap \cup {s})
  BY <1>1, <1>4, <1>5, <1>6, SoundStores DEF DInv, n
<1>8. DOMAIN Grown(f) = DOMAIN cells /\ Grown(f)[s] = v
  BY <1>1, <1>2
<1>9. QED
  BY <1>1, <1>2, <1>4, <1>5, <1>6, <1>7, <1>8 DEF s, n

LEMMA CannotGrowStep ==
  ASSUME DInv, NEW f, CannotGrow(f), f \in FieldsOf(Top.message)
  PROVE  DInv'
<1>1. /\ AtField(f) /\ Fail("realloc failed") /\ UNCHANGED memory /\ UNCHANGED reading
  BY DEF CannotGrow
<1>2. frames # <<>> /\ answer = "none" /\ Top.kind = "message"
  BY <1>1, InField
<1>3. QED
  BY <1>1, <1>2, MemoryStays, Stops DEF Fail

LEMMA AppendNumberStep ==
  ASSUME DInv, NEW f, AppendNumber(f), f \in FieldsOf(Top.message)
  PROVE  DInv'
<1> DEFINE r == Scalar(f.kind, Ahead)
           s == Here(f)
           n == Len(cells[s].items) + 1
<1>1. /\ AtField(f) /\ f.shape = "repeated" /\ f.kind \in Numeric
      /\ heap' = heap \cup {s} /\ UNCHANGED reading
      /\ IF r.ok THEN Take(r.took) /\ cells' = [Grown(f) EXCEPT ![s].items[n] = r.n]
                 ELSE Fail("malformed") /\ cells' = Grown(f)
  BY DEF AppendNumber, allocate_field
<1>2. /\ frames # <<>> /\ answer = "none" /\ Top.kind = "message"
      /\ s \in DOMAIN cells /\ s.field = f
  BY <1>1, InField
<1>3. /\ Sound(Grown(f), heap \cup {s}) /\ DOMAIN Grown(f) = DOMAIN cells
      /\ IsCell(Grown(f)[s]) /\ Len(Grown(f)[s].items) = n
      /\ Grown(f)[s].set /\ Grown(f)[s].room = n
      /\ n \in Nat \ {0} /\ Behind(f)
  BY <1>1, GrownIs
<1>4. r.ok => r.took \in 0 .. Top.left
  <2>1. Ahead \in Seq(Byte) /\ Len(Ahead) = Top.left /\ Top.left \in Nat
    BY <1>2, InCall
  <2>2. r.ok => r.took \in 1 .. Top.left
    BY <1>1, <2>1, ScalarInside
  <2>3. QED
    BY <2>1, <2>2
<1> HIDE DEF r, s, n
<1>5. CASE ~r.ok
  <2>1. Sound(cells, heap)' /\ DOMAIN cells \subseteq DOMAIN cells'
    BY <1>1, <1>3, <1>5
  <2>2. QED
    BY <1>1, <1>2, <1>5, <2>1, Stops DEF Fail
<1>6. CASE r.ok
  <2> DEFINE g == Grown(f)
             v == g[s]
             w == [v EXCEPT !.items = [v.items EXCEPT ![n] = r.n]]
  <2> HIDE DEF g
  <2>1. cells' = [g EXCEPT ![s].items[n] = r.n]
    BY <1>1, <1>6 DEF g
  <2>2. cells' = [g EXCEPT ![s] = w]
    BY <2>1
  <2>3. IsCell(v) /\ Len(v.items) = n /\ v.set /\ v.room = n
    BY <1>3 DEF g
  <2>4. IsCell(w) /\ Len(w.items) = n /\ w.set /\ w.room = n
    <3> HIDE DEF v
    <3>1. PICK S : v \in [set : BOOLEAN, items : Seq(S), room : Nat]
      BY <2>3 DEF IsCell
    <3>2. v.items \in Seq(S \cup {r.n}) /\ r.n \in S \cup {r.n}
      BY <3>1, SeqMonotonic
    <3>3. n \in DOMAIN v.items
      <4>1. DOMAIN v.items = 1 .. Len(v.items)
        BY <3>2, LenProperties
      <4>2. QED
        BY <1>3, <2>3, <4>1
    <3>4. /\ [v.items EXCEPT ![n] = r.n] \in Seq(S \cup {r.n})
          /\ Len([v.items EXCEPT ![n] = r.n]) = n
      BY <2>3, <3>2, <3>3, ReplaceAtType
    <3>5. /\ w \in [set : BOOLEAN, items : Seq(S \cup {r.n}), room : Nat]
          /\ w.items = [v.items EXCEPT ![n] = r.n] /\ w.set = v.set /\ w.room = v.room
      BY <3>1, <3>4
    <3> HIDE DEF w
    <3>6. IsCell(w)
      BY <3>5 DEF IsCell
    <3>7. QED
      BY <2>3, <3>4, <3>5, <3>6
  <2>5. n <= n
    BY <1>3
  <2>6. s \in DOMAIN g /\ Sound(g, heap \cup {s})
    BY <1>2, <1>3 DEF g
  <2> HIDE DEF w, v
  <2>7. Sound([g EXCEPT ![s] = w], (heap \cup {s}) \cup {s})
    BY <1>2, <1>3, <2>3, <2>4, <2>5, <2>6, SoundStores DEF v
  <2>8. heap' = (heap \cup {s}) \cup {s}
    BY <1>1
  <2>9. DOMAIN cells' = DOMAIN cells
    BY <1>3, <2>2 DEF g
  <2>10. Sound(cells, heap)' /\ DOMAIN cells \subseteq DOMAIN cells'
    BY <2>2, <2>7, <2>8, <2>9
  <2>11. QED
    BY <1>1, <1>2, <1>4, <1>6, <2>10, Takes DEF Take
<1>7. QED
  BY <1>5, <1>6

LEMMA AppendMessageStep ==
  ASSUME DInv, NEW f, AppendMessage(f), f \in FieldsOf(Top.message)
  PROVE  DInv'
<1> DEFINE size == Sized(Ahead)
           s == Here(f)
           n == Len(cells[s].items) + 1
           path == Top.path \o Step(f, n)
           g == Grown(f)
           frame == MessageFrame(f.of, path, TRUE)
<1>1. /\ AtField(f) /\ f.shape = "repeated" /\ f.kind = "message"
      /\ heap' = heap \cup {s} /\ UNCHANGED reading
      /\ cells' = pb_message_set_to_defaults(f.of, path, g)
      /\ IF size.ok THEN pb_make_string_substream(size, frame) ELSE Fail("malformed")
  BY DEF AppendMessage, allocate_field
<1>2. /\ frames # <<>> /\ answer = "none" /\ Top.kind = "message"
      /\ f \in Field /\ f.of \in Message
      /\ s \in DOMAIN cells /\ s = Slot(Top.path, f) /\ s.field = f /\ s.path = Top.path
  BY <1>1, InField
<1>3. /\ Sound(g, heap \cup {s}) /\ DOMAIN g = DOMAIN cells
      /\ Len(g[s].items) = n /\ n \in Nat \ {0} /\ Behind(f)
  BY <1>1, GrownIs
<1>4. Top.path \in Path
  BY <1>2, InCall
<1>5. path \in Path /\ Len(path) = Len(Top.path) + 1 /\ Len(Top.path) \in Nat
  BY <1>2, <1>3, <1>4, StepType
<1>6. Rooted(path, g)
  <2>1. Rooted(Top.path, g)
    BY <1>2, <1>3 DEF Sound
  <2>2. Slot(Top.path, f) \in DOMAIN g /\ n \in Nat /\ n <= Len(g[Slot(Top.path, f)].items)
    BY <1>2, <1>3
  <2> HIDE DEF g, n
  <2>3. QED
    BY <1>1, <1>2, <1>4, <2>1, <2>2, RootedStep
<1>7. \A t \in DOMAIN g : t \notin Structure(f.of, path)
  <2>1. n \in Nat /\ n > Len(cells[Slot(Top.path, f)].items)
        /\ Slot(Top.path, f) \in DOMAIN cells /\ Sound(cells, heap)
    BY <1>2, <1>3, InField, ItemsOf DEF DInv, Sound
  <2> HIDE DEF n
  <2>2. \A t \in DOMAIN cells : t \notin Structure(f.of, path)
    BY <1>1, <1>2, <1>3, <1>4, <2>1, NotYetThere
  <2>3. QED
    BY <1>3, <2>2
<1> HIDE DEF g, path, s, size, n
<1>8. /\ Sound(cells', heap \cup {s}) /\ Structure(f.of, path) \subseteq DOMAIN cells'
      /\ DOMAIN g \subseteq DOMAIN cells'
  BY <1>1, <1>2, <1>3, <1>5, <1>6, <1>7, SoundStructure
<1>9. Sound(cells, heap)' /\ DOMAIN cells \subseteq DOMAIN cells'
  BY <1>1, <1>3, <1>8
<1>10. /\ frame \in Frame /\ frame.kind = "message"
       /\ frame.message = f.of /\ frame.path = path
  BY <1>2, <1>5 DEF MessageFrame, Frame
<1> HIDE DEF frame
<1>11. CASE size.ok
  <2>1. Structure(frame.message, frame.path) \subseteq DOMAIN cells'
        /\ Len(Top.path) <= Len(frame.path)
    BY <1>5, <1>8, <1>10
  <2>2. QED
    BY <1>1, <1>2, <1>9, <1>10, <1>11, <2>1, Opens DEF size
<1>12. CASE ~size.ok
  BY <1>1, <1>2, <1>9, <1>12, Stops DEF Fail
<1>13. QED
  BY <1>11, <1>12

LEMMA OpenPackedStep ==
  ASSUME DInv, NEW f, OpenPacked(f), f \in FieldsOf(Top.message)
  PROVE  DInv'
<1> DEFINE size == Sized(Ahead)
           s == Here(f)
           n == Len(cells[s].items)
           frame == [kind |-> "packed", left |-> 0, slot |-> s, allocated |-> n]
<1>1. /\ AtField(f) /\ f.shape = "repeated" /\ f.kind \in Numeric
      /\ UNCHANGED memory /\ UNCHANGED reading
      /\ IF size.ok THEN pb_make_string_substream(size, frame) ELSE Fail("malformed")
  BY DEF OpenPacked, Packs
<1>2. /\ frames # <<>> /\ answer = "none" /\ Top.kind = "message"
      /\ s \in DOMAIN cells /\ s.field = f /\ IsCell(cells[s])
  BY <1>1, InField
<1>3. Behind(f) /\ n \in Nat /\ s \in Place
  BY <1>1, <1>2, ItemsOf DEF Behind, DInv, Sound
<1>4. /\ Sound(cells, heap)' /\ DOMAIN cells \subseteq DOMAIN cells'
      /\ cells' = cells
  BY <1>1, MemoryStays DEF memory
<1>5. /\ frame \in Frame /\ frame.kind = "packed" /\ frame.slot = s
      /\ frame.allocated = n
  BY <1>3 DEF Frame, Place
<1> HIDE DEF frame, size
<1>6. Reading(frame, cells')
  <2> HIDE DEF s
  <2>1. n <= n /\ ~(n < n)
    BY <1>3
  <2>2. QED
    BY <1>1, <1>2, <1>3, <1>4, <1>5, <2>1 DEF Reading
<1>7. CASE size.ok
  BY <1>1, <1>2, <1>4, <1>5, <1>6, <1>7, Opens DEF size
<1>8. CASE ~size.ok
  BY <1>1, <1>2, <1>4, <1>8, Stops DEF Fail
<1>9. QED
  BY <1>7, <1>8

(* An element of a packed array.                                           *)
LEMMA GuessIs ==
  ASSUME Top.left \in Nat, Top.left > 0
  PROVE  Guess \in Nat \ {0}
<1>1. ItemSize \in Nat \ {0} /\ Top.left - 1 \in Nat
  BY ItemAssumption
<1>2. (Top.left - 1) \div ItemSize \in Nat
  BY <1>1
<1>3. QED
  BY <1>2 DEF Guess

LEMMA PackedItemStep ==
  ASSUME DInv, PackedItem
  PROVE  DInv'
<1> DEFINE r     == Scalar(Top.slot.field.kind, Ahead)
           s     == Top.slot
           N     == Len(cells[s].items)
           room  == IF Full THEN Top.allocated + Guess ELSE cells[s].room
           items == IF r.ok THEN Append(cells[s].items, r.n) ELSE cells[s].items
           d     == [cells EXCEPT ![s] = Holding(items, room)]
           more  == IF Full THEN room ELSE Top.allocated
           g     == [Top EXCEPT !.left = Top.left - r.took, !.allocated = more]
<1>1. /\ frames # <<>> /\ answer = "none" /\ Top.kind = "packed" /\ Top.left > 0
      /\ UNCHANGED reading /\ cells' = d
      /\ heap' = IF Full THEN heap \cup {s} ELSE heap
  BY DEF PackedItem, Runs, allocate_field, Array
<1>2. IF r.ok THEN /\ pos' = pos + r.took /\ answer' = answer
                   /\ frames' = [frames EXCEPT ![Len(frames)] =
                         [Top EXCEPT !.left = @ - r.took,
                                     !.allocated = IF Full THEN room ELSE @]]
              ELSE Fail("malformed")
  BY DEF PackedItem, Array
<1>3. /\ Reading(Top, cells) /\ Top \in Frame /\ Top.left \in Nat /\ Top = frames[Len(frames)]
      /\ Ahead \in Seq(Byte) /\ Len(Ahead) = Top.left
      /\ frames \in Seq(Frame) /\ Len(frames) \in DOMAIN frames
      /\ s \in Place /\ Top.allocated \in Nat
  BY <1>1, InCall, Kinds
<1>4. /\ s \in DOMAIN cells /\ Behind(s.field) /\ s.field.kind \in Numeric
      /\ N <= Top.allocated
      /\ N < Top.allocated => cells[s].set /\ Top.allocated <= cells[s].room
  BY <1>3 DEF Reading
<1>5. /\ Sound(cells, heap) /\ IsCell(cells[s])
      /\ N \in Nat /\ cells[s].room \in Nat /\ \E S : cells[s].items \in Seq(S)
  BY <1>4, ItemsOf DEF DInv, Sound
<1>6. r.ok => r.took \in 1 .. Top.left
  BY <1>3, <1>4, ScalarInside
<1>7. Full <=> N + 1 > Top.allocated
  BY DEF Full, Array
<1>8. Guess \in Nat \ {0}
  BY <1>1, <1>3, GuessIs
<1> HIDE DEF r, s, N
<1>9. /\ \E S : items \in Seq(S)
      /\ Len(items) = (IF r.ok THEN N + 1 ELSE N)
  <2>1. /\ \E S : Append(cells[s].items, r.n) \in Seq(S)
        /\ Len(Append(cells[s].items, r.n)) = N + 1
    BY <1>5, AppendAny DEF N
  <2>2. QED
    BY <1>5, <2>1 DEF N
<1> HIDE DEF items
<1>10. /\ room \in Nat /\ more \in Nat /\ Len(items) \in Nat /\ Len(items) <= room
       /\ r.ok => Len(items) <= more /\ more <= room
       /\ ~r.ok => Len(items) <= Top.allocated /\ (Len(items) < Top.allocated => Top.allocated <= room)
  <2>1. CASE Full
    BY SMTT(40), <1>3, <1>4, <1>5, <1>7, <1>8, <1>9, <2>1
  <2>2. CASE ~Full
    BY <1>3, <1>4, <1>5, <1>7, <1>9, <2>2
  <2>3. QED
    BY <2>1, <2>2
<1>11. heap' = heap \cup {s}
  <2>1. CASE Full
    BY <1>1, <2>1
  <2>2. CASE ~Full
    <3>1. cells[s].set
      BY <1>3, <1>4, <1>5, <1>7, <2>2
    <3>2. s \in heap
      BY <1>4, <1>5, <3>1 DEF Sound
    <3>3. QED
      BY <1>1, <2>2, <3>2
  <2>3. QED
    BY <2>1, <2>2
<1> HIDE DEF room
<1>12. /\ IsCell(Holding(items, room)) /\ Holding(items, room).set
       /\ Holding(items, room).items = items /\ Holding(items, room).room = room
  BY <1>9, <1>10, Holds
<1>13. Sound(cells, heap)' /\ DOMAIN cells \subseteq DOMAIN cells'
  <2>1. s.field.kind # "message"
    BY <1>4 DEF Numeric
  <2>2. Sound([cells EXCEPT ![s] = Holding(items, room)],
              IF Behind(s.field) THEN heap \cup {s} ELSE heap)
    BY <1>4, <1>5, <1>10, <1>12, <2>1, SoundStores
  <2>3. QED
    BY <1>1, <1>4, <1>11, <2>2
<1>14. s \in DOMAIN cells' /\ cells'[s] = Holding(items, room)
  BY <1>1, <1>4
<1> HIDE DEF d
<1>15. CASE ~r.ok
  <2>1. Reading(Top, cells')
    BY <1>4, <1>10, <1>12, <1>14, <1>15 DEF Reading, s
  <2>2. QED
    BY <1>1, <1>2, <1>13, <1>15, <2>1, Stops DEF Fail
<1>16. CASE r.ok
  <2>1. Top.left - r.took \in Nat /\ r.took \in 0 .. Top.left
    BY <1>3, <1>6, <1>16
  <2>2. /\ g \in Frame /\ g.left = Top.left - r.took /\ g.kind = "packed"
        /\ g.slot = s /\ g.allocated = more
    <3> HIDE DEF more
    <3>1. Top \in [kind : {"packed"}, left : Nat, allocated : Nat,
                   slot : [path : Path, field : Field]]
      BY <1>1, <1>3 DEF Frame
    <3>2. QED
      BY <1>10, <2>1, <3>1 DEF Frame, s
  <2>3. frames' = [frames EXCEPT ![Len(frames)] = g]
    <3>1. g = [Top EXCEPT !.left = @ - r.took, !.allocated = IF Full THEN room ELSE @]
      OBVIOUS
    <3>2. QED
      BY <1>2, <1>16, <3>1
  <2> HIDE DEF g
  <2>4. Reading(g, cells')
    <3> HIDE DEF more
    <3>1. QED
      BY <1>4, <1>10, <1>12, <1>14, <1>16, <2>2 DEF Reading
  <2>5. QED
    BY <1>1, <1>2, <1>13, <1>16, <2>1, <2>2, <2>3, <2>4, Moves
<1>17. QED
  BY <1>15, <1>16

-----------------------------------------------------------------------------
(* Returning, and the calls from outside.                                   *)
LEMMA CloseStep ==
  ASSUME DInv, Close
  PROVE  DInv'
<1> DEFINE N == Len(frames)
           r == SubSeq(frames, 1, Len(frames) - 1)
<1>1. /\ Len(frames) > 1 /\ answer # "none" /\ frames' = r /\ pos' = pos + Top.left
      /\ answer' = (IF answer = "true" THEN "none" ELSE "false")
      /\ UNCHANGED reading
      /\ IF Releases THEN pb_release(Top.path) ELSE UNCHANGED memory
  BY DEF Close
<1>2. frames # <<>>
  <2>1. Len(<<>>) = 0
    OBVIOUS
  <2>2. QED
    BY <1>1, <2>1
<1>3. /\ frames \in Seq(Frame) /\ pos \in Nat /\ Len(input) \in Nat /\ input \in Seq(Byte)
      /\ \E stop : Chain(stop, frames, pos, Len(input))
      /\ N \in Nat \ {0} /\ N \in 1 .. N
      /\ Sound(cells, heap) /\ Called(frames, cells)
  BY <1>2, InCall, LenProperties DEF DInv, Streams
<1>4. /\ r \in Seq(Frame) /\ Len(r) = N - 1
      /\ \A i \in 1 .. N - 1 : r[i] = frames[i]
      /\ \E stop : Chain(stop, r, pos + Top.left, Len(input))
  BY <1>1, <1>3, ChainCloses DEF Top
<1>5. Streams'
  <2>1. pos + Top.left \in Nat
    BY <1>2, <1>3, InCall
  <2>2. input' = input
    BY <1>1 DEF reading
  <2> HIDE DEF r
  <2>3. QED
    BY <1>1, <1>3, <1>4, <2>1, <2>2 DEF Streams
<1> HIDE DEF r
<1>6. \A i \in 1 .. N - 1 :
        /\ i \in 1 .. N /\ i < N /\ frames[i] \in Frame /\ frames[i].kind = "message"
        /\ Structure(frames[i].message, frames[i].path) \subseteq DOMAIN cells
  <2> TAKE i \in 1 .. N - 1
  <2>1. i \in 1 .. N /\ i < N
    BY <1>3
  <2>2. frames[i] \in Frame
    BY <1>3, <2>1, LenProperties, ElementOfSeq
  <2>3. QED
    BY <1>3, <2>1, <2>2 DEF Called
<1>7. /\ Sound(cells, heap)'
      /\ \A i \in 1 .. N - 1 :
           Structure(frames[i].message, frames[i].path) \subseteq DOMAIN cells'
  <2>1. CASE ~Releases
    BY <1>1, <1>3, <1>6, <2>1, MemoryStays DEF memory
  <2>2. CASE Releases
    <3>1. Top.kind = "message" /\ Top.path \in Path /\ pb_release(Top.path)
      BY <1>1, <1>2, <2>2, InCall DEF Releases
    <3>2. \A i \in 1 .. N - 1 : /\ Len(frames[i].path) <= Len(Top.path)
                               /\ frames[i].message \in Message /\ frames[i].path \in Path
      BY <1>3, <1>6, <3>1, Kinds DEF Called, Top
    <3>3. QED
      BY <1>3, <1>6, <3>1, <3>2, SoundReleases
  <2>3. QED
    BY <2>1, <2>2
<1>8. Called(frames, cells)'
  <2> HIDE DEF N
  <2>1. Called(r, cells')
    BY <1>1, <1>3, <1>4, <1>7, CalledCloses DEF N
  <2>2. QED
    BY <1>1, <2>1
<1>9. Outcome'
  <2>1. frames' # <<>>
    <3>1. Len(frames') > 0
      BY <1>1, <1>3, <1>4
    <3>2. Len(<<>>) = 0
      OBVIOUS
    <3>3. QED
      BY <3>1, <3>2
  <2>2. state' = "decoding" /\ answer' \in {"none", "true", "false"}
    BY <1>1, <1>2, InCall DEF reading
  <2>3. QED
    BY <2>1, <2>2 DEF Outcome
<1>10. QED
  BY <1>5, <1>7, <1>8, <1>9 DEF DInv

LEMMA FinishStep ==
  ASSUME DInv, Finish
  PROVE  DInv'
<1>1. /\ Len(frames) = 1 /\ answer # "none" /\ frames' = <<>> /\ state' = "decoded"
      /\ input' = input /\ pos' = pos /\ answer' = answer
      /\ IF Releases THEN pb_release(<<>>) ELSE UNCHANGED memory
  BY DEF Finish
<1>2. frames # <<>>
  <2>1. Len(<<>>) = 0
    OBVIOUS
  <2>2. QED
    BY <1>1, <2>1
<1>3. Streams'
  <2>1. /\ frames \in Seq(Frame) /\ pos \in Nat /\ input \in Seq(Byte) /\ Len(input) \in Nat
        /\ \E stop : Chain(stop, frames, pos, Len(input))
    BY LenProperties DEF DInv, Streams
  <2>2. pos \in 0 .. Len(input)
    BY <2>1, ChainEnds
  <2>3. \E stop : Chain(stop, <<>>, pos, Len(input))
    BY <2>1, <2>2, ChainEmpty
  <2>4. <<>> \in Seq(Frame)
    BY EmptySeq
  <2>5. QED
    BY <1>1, <2>1, <2>3, <2>4 DEF Streams
<1>4. Sound(cells, heap)
  BY DEF DInv
<1>5. Sound(cells, heap)'
  <2>1. CASE Releases
    <3>1. <<>> \in Path
      BY EmptySeq DEF Path
    <3>2. pb_release(<<>>)
      BY <1>1, <2>1
    <3>3. QED
      BY <1>4, <3>1, <3>2, SoundReleases
  <2>2. CASE ~Releases
    BY <1>1, <2>2, MemoryStays
  <2>3. QED
    BY <2>1, <2>2
<1>6. answer = "false" => heap' = {}
  <2> HAVE answer = "false"
  <2>1. Top.kind = "message" /\ Top.init
    BY <1>1, <1>2 DEF DInv, Called, Top
  <2>2. heap' = heap \ Owned(<<>>)
    BY <1>1, <2>1 DEF Releases, pb_release
  <2>3. QED
    BY <1>4, <2>2, AllOwned
<1>7. Called(frames, cells)'
  <2>1. Called(<<>>, cells')
    BY DEF Called
  <2>2. QED
    BY <1>1, <2>1
<1>8. Outcome'
  BY <1>1, <1>6 DEF DInv, Outcome
<1>9. QED
  BY <1>3, <1>5, <1>7, <1>8 DEF DInv

LEMMA DecodeStep ==
  ASSUME DInv, NEW bytes \in Seq(Byte), NEW m \in Message, pb_decode(bytes, m)
  PROVE  DInv'
<1> DEFINE frame == [MessageFrame(m, <<>>, TRUE) EXCEPT !.left = Len(bytes)]
           d == pb_message_set_to_defaults(m, <<>>, <<>>)
<1>1. /\ state = "idle" /\ input' = bytes /\ pos' = 0 /\ state' = "decoding"
      /\ frames' = <<frame>> /\ answer' = "none" /\ cells' = d /\ heap' = heap
  BY DEF pb_decode
<1>2. heap = {}
  BY <1>1 DEF DInv, Outcome
<1>3. <<>> \in Path /\ Len(bytes) \in Nat
  BY EmptySeq, LenProperties DEF Path
<1>4. /\ frame \in Frame /\ frame.kind = "message" /\ frame.left = Len(bytes)
      /\ frame.message = m /\ frame.path = <<>> /\ frame.init
  BY <1>3 DEF MessageFrame, Frame
<1>5. Sound(d, {}) /\ Structure(m, <<>>) \subseteq DOMAIN d
  BY SoundAtFirst
<1> HIDE DEF frame, d
<1>6. Sound(cells, heap)'
  BY <1>1, <1>2, <1>5
<1>7. Len(<<frame>>) = 1 /\ <<frame>>[1] = frame /\ <<frame>> = Append(<<>>, frame)
  OBVIOUS
<1>8. Streams'
  <2>1. \E stop : Chain(stop, <<>>, 0 + Len(bytes), Len(bytes))
    BY <1>3, ChainEmpty
  <2>2. <<>> \in Seq(Frame)
    BY EmptySeq
  <2>3. /\ Append(<<>>, frame) \in Seq(Frame)
        /\ \E stop : Chain(stop, Append(<<>>, frame), 0, Len(bytes))
    BY <1>3, <1>4, <2>1, <2>2, ChainOpens
  <2>4. QED
    BY <1>1, <1>7, <2>3 DEF Streams
<1>9. Called(<<frame>>, d)
  <2>1. \A i \in 1 .. Len(<<frame>>) : i = 1 /\ ~(i < Len(<<frame>>))
    BY <1>7
  <2>2. QED
    BY <1>4, <1>5, <1>7, <2>1 DEF Called
<1>10. Called(frames, cells)'
  BY <1>1, <1>9
<1>11. <<frame>> # <<>>
  OBVIOUS
<1>12. Outcome'
  BY <1>1, <1>11 DEF Outcome
<1>13. QED
  BY <1>6, <1>8, <1>10, <1>12 DEF DInv

LEMMA DisposeStep ==
  ASSUME DInv, Dispose
  PROVE  DInv'
<1>1. /\ state = "decoded" /\ state' = "idle" /\ cells' = <<>>
      /\ heap' = (IF answer = "true" THEN heap \ Owned(<<>>) ELSE heap)
      /\ UNCHANGED <<input, pos, frames, answer>>
  BY DEF Dispose
<1>2. heap' = {}
  BY <1>1, AllOwned DEF DInv, Outcome
<1>3. Sound(cells, heap)'
  BY <1>1, <1>2, SoundEmpty
<1>4. frames' = <<>>
  BY <1>1 DEF DInv, Outcome
<1>5. Called(frames, cells)'
  <2>1. Called(<<>>, cells')
    BY DEF Called
  <2>2. QED
    BY <1>4, <2>1
<1>6. Streams'
  BY <1>1 DEF DInv, Streams
<1>7. Outcome'
  BY <1>1, <1>2, <1>4 DEF DInv, Outcome
<1>8. QED
  BY <1>3, <1>5, <1>6, <1>7 DEF DInv

-----------------------------------------------------------------------------
(* How a step changes what is left to do: a call returns or fails where it *)
(* stands, reads, calls, or is returned from.                              *)
Passes ==
  \/ /\ answer = "none" /\ answer' # "none"
     /\ pos' = pos /\ Len(frames') = Len(frames)
  \/ /\ answer = "none" /\ pos' >= pos + 1 /\ Len(frames') <= Len(frames) + 1
  \/ /\ answer # "none" /\ pos' >= pos /\ Len(frames') = Len(frames) - 1

LEMMA StoppingPasses ==
  ASSUME NEW msg, answer = "none", Fail(msg)
  PROVE  Passes
BY DEF Fail, Passes

LEMMA ReadingPasses ==
  ASSUME DInv, frames # <<>>, answer = "none", NEW n \in 1 .. Top.left,
         pos' = pos + n, NEW g, frames' = [frames EXCEPT ![Len(frames)] = g]
  PROVE  Passes
<1>1. frames \in Seq(Frame) /\ Len(frames) \in Nat /\ pos \in Nat /\ Top.left \in Nat
  BY InCall DEF DInv, Streams
<1>2. Len(frames') = Len(frames)
  BY <1>1
<1>3. pos' >= pos + 1
  BY <1>1
<1>4. QED
  BY <1>1, <1>2, <1>3 DEF Passes

LEMMA TakingPasses ==
  ASSUME DInv, frames # <<>>, answer = "none", NEW n \in 1 .. Top.left, Take(n)
  PROVE  Passes
<1>1. /\ pos' = pos + n
      /\ frames' = [frames EXCEPT ![Len(frames)] = [Top EXCEPT !.left = Top.left - n]]
  BY DEF Take, Top
<1>2. QED
  BY <1>1, ReadingPasses

LEMMA CallingPasses ==
  ASSUME DInv, frames # <<>>, answer = "none", Sized(Ahead).ok, NEW frame,
         pb_make_string_substream(Sized(Ahead), frame)
  PROVE  Passes
<1> DEFINE size == Sized(Ahead)
           mid  == [frames EXCEPT ![Len(frames)].left = @ - size.took - size.n]
           h    == [frame EXCEPT !.left = size.n]
<1>1. size.took >= 1 /\ size.took \in Nat /\ pos \in Nat
  <2>1. size.took \in 1 .. Top.left /\ Top.left \in Nat /\ pos \in Nat
    BY InCall, SizedInside DEF DInv, Streams
  <2>2. QED
    BY <2>1
<1>2. pos' = pos + size.took /\ frames' = Append(mid, h)
  BY DEF pb_make_string_substream
<1>3. /\ frames \in Seq(Frame) /\ Len(frames) \in Nat
      /\ DOMAIN frames = 1 .. Len(frames)
  BY InCall, LenProperties
<1>4. mid \in Seq({mid[i] : i \in 1 .. Len(frames)}) /\ Len(mid) = Len(frames)
  <2>1. DOMAIN mid = 1 .. Len(frames)
    BY <1>3
  <2>2. mid = [i \in 1 .. Len(frames) |-> mid[i]]
    BY <2>1
  <2> HIDE DEF mid
  <2>3. QED
    BY <1>3, <2>2
<1> HIDE DEF mid, h, size
<1>5. Len(Append(mid, h)) = Len(frames) + 1
  BY <1>4, AppendAny
<1>6. pos' >= pos + 1 /\ Len(frames') <= Len(frames) + 1
  BY <1>1, <1>2, <1>3, <1>5
<1>7. QED
  BY <1>6 DEF Passes

LEMMA Reads ==
  ASSUME DInv, frames # <<>>
  PROVE  /\ pb_decode_varint32(Ahead).ok =>
              pb_decode_varint32(Ahead).took \in 1 .. Top.left
         /\ \A w : pb_skip_field(w, Ahead).ok =>
              pb_skip_field(w, Ahead).took \in 1 .. Top.left
         /\ \A kind \in Numeric : Scalar(kind, Ahead).ok =>
              Scalar(kind, Ahead).took \in 1 .. Top.left
         /\ Sized(Ahead).ok => Sized(Ahead).took + Sized(Ahead).n \in 1 .. Top.left
<1>1. Ahead \in Seq(Byte) /\ Len(Ahead) = Top.left /\ Top.left \in Nat
  BY InCall
<1>2. Sized(Ahead).ok => Sized(Ahead).took + Sized(Ahead).n \in 1 .. Top.left
  <2> HAVE Sized(Ahead).ok
  <2>1. Sized(Ahead).took \in 1 .. Top.left
        /\ Sized(Ahead).n \in 0 .. Top.left - Sized(Ahead).took
    BY <1>1, SizedInside
  <2>2. QED
    BY <1>1, <2>1
<1>3. QED
  BY <1>1, <1>2, NumbersInside, SkipInside, ScalarInside

LEMMA TagPasses ==
  ASSUME DInv, DecodeTag
  PROVE  Passes
<1> DEFINE r == pb_decode_varint32(Ahead)
<1>1. frames # <<>> /\ answer = "none"
  BY DEF DecodeTag, Runs
<1>2. \/ Fail("malformed")
      \/ /\ r.ok /\ pos' = pos + r.took
         /\ frames' = [frames EXCEPT ![Len(frames)] = [Top EXCEPT !.left = Top.left - r.took]]
  BY DEF DecodeTag, Top
<1>3. r.ok => r.took \in 1 .. Top.left
  BY <1>1, Reads
<1> HIDE DEF r
<1>4. QED
  BY <1>1, <1>2, <1>3, StoppingPasses, ReadingPasses

LEMMA SkippingPasses ==
  ASSUME DInv, SkipField
  PROVE  Passes
<1> DEFINE r == pb_skip_field(WireType, Ahead)
<1>1. /\ frames # <<>> /\ answer = "none"
      /\ IF r.ok THEN Take(r.took) ELSE Fail("malformed")
  BY DEF SkipField, Runs
<1>2. r.ok => r.took \in 1 .. Top.left
  BY <1>1, Reads
<1> HIDE DEF r
<1>3. QED
  BY <1>1, <1>2, StoppingPasses, TakingPasses

LEMMA FieldPasses ==
  ASSUME DInv, DecodeField
  PROVE  Passes
<1>1. PICK f : \/ DecodeNumber(f) \/ DecodeMessage(f) \/ DecodeBytes(f)
               \/ CannotGrow(f) \/ AppendNumber(f) \/ AppendMessage(f)
               \/ OpenPacked(f)
  BY DEF DecodeField
<1>2. frames # <<>> /\ answer = "none"
  BY DEF DecodeField, Runs
<1> DEFINE r == Scalar(f.kind, Ahead)
           size == Sized(Ahead)
<1>3. CASE DecodeNumber(f) \/ AppendNumber(f)
  <2>1. f.kind \in Numeric /\ ((Take(r.took) /\ r.ok) \/ Fail("malformed"))
    BY <1>3 DEF DecodeNumber, AppendNumber
  <2>2. r.ok => r.took \in 1 .. Top.left
    BY <1>2, <2>1, Reads
  <2> HIDE DEF r
  <2>3. QED
    BY <1>2, <2>1, <2>2, StoppingPasses, TakingPasses
<1>4. CASE DecodeMessage(f) \/ AppendMessage(f) \/ OpenPacked(f)
  <2>1. \/ size.ok /\ \E frame : pb_make_string_substream(size, frame)
        \/ Fail("malformed")
    BY <1>4 DEF DecodeMessage, AppendMessage, OpenPacked
  <2>2. QED
    BY <1>2, <2>1, StoppingPasses, CallingPasses
<1>5. CASE DecodeBytes(f) \/ CannotGrow(f)
  <2>1. \/ size.ok /\ Take(size.took + size.n)
        \/ \E msg : Fail(msg)
    BY <1>5 DEF DecodeBytes, CannotGrow
  <2>2. size.ok => size.took + size.n \in 1 .. Top.left
    BY <1>2, Reads
  <2> HIDE DEF size
  <2>3. QED
    BY <1>2, <2>1, <2>2, StoppingPasses, TakingPasses
<1>6. QED
  BY <1>1, <1>3, <1>4, <1>5

LEMMA ItemPasses ==
  ASSUME DInv, PackedItem
  PROVE  Passes
<1> DEFINE r == Scalar(Top.slot.field.kind, Ahead)
<1>1. frames # <<>> /\ answer = "none" /\ Top.kind = "packed"
  BY DEF PackedItem, Runs
<1>2. \/ /\ r.ok /\ pos' = pos + r.took
         /\ \E g : frames' = [frames EXCEPT ![Len(frames)] = g]
      \/ Fail("malformed")
  BY DEF PackedItem
<1>3. Top.slot.field.kind \in Numeric
  BY <1>1, InCall DEF Reading
<1>4. r.ok => r.took \in 1 .. Top.left
  BY <1>1, <1>3, Reads
<1> HIDE DEF r
<1>5. QED
  BY <1>1, <1>2, <1>4, StoppingPasses, ReadingPasses

LEMMA ReturningPasses ==
  ASSUME DInv, Close \/ Finish
  PROVE  Passes
<1>1. frames # <<>>
  <2>1. Len(frames) > 1 \/ Len(frames) = 1
    BY DEF Close, Finish
  <2>2. Len(<<>>) = 0
    OBVIOUS
  <2>3. QED
    BY <2>1, <2>2
<1>2. pos \in Nat /\ frames \in Seq(Frame) /\ Len(frames) \in Nat /\ Top.left \in Nat
  BY <1>1, InCall DEF DInv, Streams
<1>3. CASE Close
  <2>1. /\ answer # "none" /\ pos' = pos + Top.left
        /\ frames' = SubSeq(frames, 1, Len(frames) - 1) /\ Len(frames) > 1
    BY <1>3 DEF Close
  <2>2. Len(frames') = Len(frames) - 1
    BY <1>2, <2>1, FrontType
  <2>3. QED
    BY <1>2, <2>1, <2>2 DEF Passes
<1>4. CASE Finish
  <2>1. answer # "none" /\ pos' = pos /\ frames' = <<>> /\ Len(frames) = 1
    BY <1>4 DEF Finish
  <2>2. Len(<<>>) = 0
    OBVIOUS
  <2>3. Len(frames') = Len(frames) - 1
    BY <2>1, <2>2
  <2>4. QED
    BY <1>2, <2>1, <2>3 DEF Passes
<1>5. QED
  BY <1>3, <1>4

LEMMA EveryStepPasses ==
  ASSUME DInv, DecoderStep
  PROVE  Passes
<1>1. CASE EndMessage \/ EndPacked
  BY <1>1 DEF EndMessage, EndPacked, Runs, Passes
<1>2. CASE PackedCannotGrow
  <2>1. answer = "none" /\ Fail("realloc failed")
    BY <1>2 DEF PackedCannotGrow, Runs
  <2>2. QED
    BY <2>1, StoppingPasses
<1>3. QED
  BY <1>1, <1>2, TagPasses, SkippingPasses, FieldPasses, ItemPasses,
     ReturningPasses DEF DecoderStep

LEMMA StepsKeepInput ==
  ASSUME DecoderStep
  PROVE  input' = input
<1>1. CASE EndMessage \/ DecodeTag \/ SkipField
  BY <1>1 DEF EndMessage, DecodeTag, SkipField, reading
<1>2. CASE DecodeField
  <2>1. PICK f : \/ DecodeNumber(f) \/ DecodeMessage(f) \/ DecodeBytes(f)
                 \/ CannotGrow(f) \/ AppendNumber(f) \/ AppendMessage(f)
                 \/ OpenPacked(f)
    BY <1>2 DEF DecodeField
  <2>2. UNCHANGED reading
    BY <2>1 DEF DecodeNumber, DecodeMessage, DecodeBytes, CannotGrow,
                AppendNumber, AppendMessage, OpenPacked
  <2>3. QED
    BY <2>2 DEF reading
<1>3. CASE PackedItem \/ PackedCannotGrow \/ EndPacked
  BY <1>3 DEF PackedItem, PackedCannotGrow, EndPacked, reading
<1>4. CASE Close \/ Finish
  BY <1>4 DEF Close, Finish, reading
<1>5. QED
  BY <1>1, <1>2, <1>3, <1>4 DEF DecoderStep

(* The measure.                                                            *)
LEMMA Nearer ==
  ASSUME NEW l \in Nat, NEW p \in Nat, NEW q \in 0 .. l,
         NEW m \in Nat, NEW n \in Nat, NEW a \in {0, 1}, NEW b \in {0, 1},
         \/ a = 1 /\ b = 0 /\ q = p /\ n = m
         \/ a = 1 /\ q >= p + 1 /\ n <= m + 1
         \/ a = 0 /\ q >= p /\ n = m - 1
  PROVE  /\ 0 <= 3 * (l - q) + 2 * n + b
         /\ 3 * (l - q) + 2 * n + b < 3 * (l - p) + 2 * m + a
OBVIOUS

-----------------------------------------------------------------------------
(* The values in the message, and what the calls share.                    *)
Typed(c) == \A s \in DOMAIN c : c[s] \in Cell

(* The provers' arithmetic fails on empty strings: this one is not expanded *)
(* where numbers are.                                                      *)
Texts == {"", "malformed", "realloc failed"}

Values == key \in Nat /\ errmsg \in Texts /\ Typed(cells)

LEMMA TextsAre ==
  "" \in Texts /\ "malformed" \in Texts /\ "realloc failed" \in Texts
BY Zenon DEF Texts

LEMMA NullType ==
  Null \in Cell
<1>1. <<>> \in Seq(Int)
  BY EmptySeq
<1>2. QED
  BY <1>1 DEF Null, Cell

LEMMA HoldingType ==
  ASSUME NEW items \in Seq(Int), NEW room \in Nat
  PROVE  Holding(items, room) \in Cell
BY DEF Holding, Cell

LEMMA StoringType ==
  ASSUME NEW c, Typed(c), NEW s, NEW v, s \in DOMAIN c => v \in Cell
  PROVE  Typed([c EXCEPT ![s] = v])
BY DEF Typed

LEMMA HeldType ==
  ASSUME NEW c, Typed(c), NEW s, NEW items \in Seq(Int), NEW room \in Nat
  PROVE  Typed([c EXCEPT ![s] = Holding(items, room)])
<1>1. Holding(items, room) \in Cell
  BY HoldingType
<1>2. QED
  BY <1>1, StoringType

LEMMA SettingType ==
  ASSUME NEW c, Typed(c), NEW s
  PROVE  Typed([c EXCEPT ![s].set = TRUE])
<1>1. s \in DOMAIN c => [c[s] EXCEPT !.set = TRUE] \in Cell
  BY DEF Typed, Cell
<1>2. QED
  BY <1>1, StoringType

LEMMA DefaultsType ==
  ASSUME NEW c, Typed(c), NEW m, NEW path
  PROVE  Typed(pb_message_set_to_defaults(m, path, c))
BY NullType DEF Typed, pb_message_set_to_defaults

LEMMA ReleaseType ==
  ASSUME Typed(cells), NEW path, pb_release(path)
  PROVE  Typed(cells')
<1>1. \E kept \in SUBSET DOMAIN cells : \E owned :
        cells' = [s \in kept |-> IF s \in owned THEN Null ELSE cells[s]]
  <2> DEFINE Kept(s) == \A i \in DOMAIN s.path :
                   i > Len(path) /\ IsPrefix(path, s.path)
                     => ~Behind(s.path[i].field)
             kept == {t \in DOMAIN cells : Kept(t)}
  <2>1. cells' = [s \in kept |-> IF s \in Owned(path) THEN Null ELSE cells[s]]
    BY DEF pb_release
  <2>2. kept \in SUBSET DOMAIN cells
    OBVIOUS
  <2> HIDE DEF kept
  <2>3. QED
    BY <2>1, <2>2
<1>2. QED
  BY <1>1, NullType DEF Typed

LEMMA FailingType ==
  ASSUME Values, NEW msg \in {"malformed", "realloc failed"}, Fail(msg), Typed(cells')
  PROVE  Values'
BY TextsAre DEF Fail, Values

LEMMA GoingOnType ==
  ASSUME Values, key' = 0, errmsg' = errmsg, Typed(cells')
  PROVE  Values'
BY DEF Values

LEMMA TakingType ==
  ASSUME Values, NEW n, Take(n), Typed(cells')
  PROVE  Values'
BY DEF Take, Values

LEMMA CallingType ==
  ASSUME Values, NEW size, NEW frame, pb_make_string_substream(size, frame), Typed(cells')
  PROVE  Values'
BY DEF pb_make_string_substream, Values

LEMMA NumberInPlaceType ==
  ASSUME DInv, Values, NEW f, DecodeNumber(f)
  PROVE  Values'
<1> DEFINE r == Scalar(f.kind, Ahead)
<1>1. frames # <<>> /\ f.kind \in Numeric
  BY DEF DecodeNumber, AtField, Runs
<1>2. r.n \in Int
  BY <1>1, InCall, ScalarType
<1>3. \/ Take(r.took) /\ cells' = [cells EXCEPT ![Here(f)] = Holding(<<r.n>>, 1)]
      \/ Fail("malformed") /\ cells' = [cells EXCEPT ![Here(f)].set = TRUE]
  BY DEF DecodeNumber
<1> HIDE DEF r
<1>4. <<r.n>> \in Seq(Int)
  BY <1>2
<1>5. Typed(cells')
  <2>1. Typed(cells) /\ 1 \in Nat
    BY DEF Values
  <2>2. Typed([cells EXCEPT ![Here(f)] = Holding(<<r.n>>, 1)])
    BY <1>4, <2>1, HeldType
  <2>3. Typed([cells EXCEPT ![Here(f)].set = TRUE])
    BY <2>1, SettingType
  <2>4. QED
    BY <1>3, <2>2, <2>3
<1>6. QED
  BY <1>3, <1>5, TakingType, FailingType

LEMMA BytesType ==
  ASSUME DInv, Values, NEW f, DecodeBytes(f)
  PROVE  Values'
<1> DEFINE size == Sized(Ahead)
           bytes == SubSeq(Ahead, size.took + 1, size.took + size.n)
<1>1. frames # <<>>
  BY DEF DecodeBytes, AtField, Runs
<1>2. \/ /\ size.ok /\ Take(size.took + size.n)
         /\ cells' = [cells EXCEPT ![Here(f)] = Holding(bytes, size.n)]
      \/ /\ \E msg \in {"malformed", "realloc failed"} : Fail(msg)
         /\ cells' = cells
  BY DEF DecodeBytes, memory
<1>3. Ahead \in Seq(Byte) /\ Len(Ahead) = Top.left /\ Top.left \in Nat
  BY <1>1, InCall
<1>4. ASSUME size.ok
      PROVE  size.n \in Nat /\ bytes \in Seq(Int)
  <2>1. size.took \in 1 .. Top.left /\ size.n \in 0 .. Top.left - size.took
    BY <1>3, <1>4, SizedInside
  <2> HIDE DEF size
  <2>2. size.n \in Nat /\ size.took \in Nat
    BY <1>3, <2>1
  <2>3. \A i \in size.took + 1 .. size.took + size.n : Ahead[i] \in Int
    <3>1. \A i \in size.took + 1 .. size.took + size.n : i \in 1 .. Len(Ahead)
      BY <1>3, <2>1, <2>2
    <3>2. \A i \in size.took + 1 .. size.took + size.n : Ahead[i] \in Byte
      BY <1>3, <3>1, ElementOfSeq
    <3>3. \A b \in Byte : b \in Int
      BY ByteType
    <3>4. QED
      BY <3>2, <3>3
  <2>4. bytes \in Seq(Int)
    BY <2>2, <2>3, SubSeqProperties
  <2>5. QED
    BY <2>2, <2>4
<1> HIDE DEF size, bytes
<1>5. Typed(cells')
  <2>1. Typed(cells)
    BY DEF Values
  <2>2. size.ok => Typed([cells EXCEPT ![Here(f)] = Holding(bytes, size.n)])
    BY <1>4, <2>1, HeldType
  <2>3. QED
    BY <1>2, <2>1, <2>2
<1>6. QED
  BY <1>2, <1>5, TakingType, FailingType

LEMMA CellType ==
  ASSUME NEW v \in Cell
  PROVE  v.items \in Seq(Int) /\ Len(v.items) \in Nat /\ v.room \in Nat
<1>1. v.items \in Seq(Int) /\ v.room \in Nat
  BY DEF Cell
<1>2. QED
  BY <1>1, LenProperties

LEMMA GrownType ==
  ASSUME DInv, Values, NEW f, AtField(f), f \in FieldsOf(Top.message)
  PROVE  /\ Typed(Grown(f)) /\ Here(f) \in DOMAIN cells
         /\ Grown(f)[Here(f)].items = Append(cells[Here(f)].items, 0)
<1> DEFINE s == Here(f)
           items == Append(cells[s].items, 0)
           room == Len(cells[s].items) + 1
           v == Holding(items, room)
<1>1. s \in DOMAIN cells
  BY InField
<1>2. cells[s].items \in Seq(Int) /\ room \in Nat
  BY <1>1, CellType DEF Values, Typed
<1>3. items \in Seq(Int)
  BY <1>2, AppendType
<1>4. v.items = items
  BY DEF Holding
<1>5. Grown(f) = [cells EXCEPT ![s] = v]
  BY DEF Grown
<1>6. Typed(Grown(f))
  <2>1. Typed(cells)
    BY DEF Values
  <2> HIDE DEF items, room, s
  <2>2. Typed([cells EXCEPT ![s] = Holding(items, room)])
    BY <1>2, <1>3, <2>1, HeldType
  <2>3. QED
    BY <1>5, <2>2
<1> HIDE DEF v, s
<1>7. Grown(f)[s] = v
  BY <1>1, <1>5
<1>8. QED
  BY <1>1, <1>4, <1>6, <1>7 DEF s

LEMMA AppendedType ==
  ASSUME DInv, Values, NEW f, AppendNumber(f), f \in FieldsOf(Top.message)
  PROVE  Values'
<1> DEFINE r == Scalar(f.kind, Ahead)
           s == Here(f)
           n == Len(cells[s].items) + 1
           g == Grown(f)
<1>1. frames # <<>> /\ f.kind \in Numeric /\ AtField(f)
  BY DEF AppendNumber, AtField, Runs
<1>2. r.n \in Int
  BY <1>1, InCall, ScalarType
<1>3. \/ Take(r.took) /\ cells' = [g EXCEPT ![s].items[n] = r.n]
      \/ Fail("malformed") /\ cells' = g
  BY DEF AppendNumber
<1>4. /\ Typed(g) /\ s \in DOMAIN cells
      /\ g[s].items = Append(cells[s].items, 0)
  BY <1>1, GrownType
<1>0. n \in DOMAIN g[s].items
  <2>1. cells[s].items \in Seq(Int)
    BY <1>4, CellType DEF Values, Typed
  <2>2. DOMAIN Append(cells[s].items, 0) = 1 .. n /\ n \in 1 .. n
    BY <2>1, AppendType, LenProperties
  <2>3. QED
    BY <1>4, <2>2
<1> HIDE DEF g, r, n, s
<1>5. Typed([g EXCEPT ![s].items[n] = r.n])
  <2> DEFINE v == g[s]
             w == [v EXCEPT !.items = [v.items EXCEPT ![n] = r.n]]
  <2>1. [g EXCEPT ![s].items[n] = r.n] = [g EXCEPT ![s] = w]
    OBVIOUS
  <2>2. s \in DOMAIN g => w \in Cell
    <3> HAVE s \in DOMAIN g
    <3>1. v \in Cell
      BY <1>4 DEF Typed
    <3> HIDE DEF v
    <3>2. v.items \in Seq(Int)
      BY <3>1, CellType
    <3>3. [v.items EXCEPT ![n] = r.n] \in Seq(Int)
      BY <1>0, <1>2, <3>2, ReplaceAtType DEF v
    <3>4. QED
      BY <3>1, <3>3 DEF Cell
  <2> HIDE DEF w
  <2>3. QED
    BY <1>4, <2>1, <2>2, StoringType
<1>6. Typed(cells')
  BY <1>3, <1>4, <1>5
<1>7. QED
  BY <1>3, <1>6, TakingType, FailingType

LEMMA FieldType ==
  ASSUME DInv, Values, DecodeField
  PROVE  Values'
<1>1. PICK f : /\ f \in FieldsOf(Top.message)
               /\ \/ DecodeNumber(f) \/ DecodeMessage(f) \/ DecodeBytes(f)
                  \/ CannotGrow(f) \/ AppendNumber(f) \/ AppendMessage(f)
                  \/ OpenPacked(f)
  BY DEF DecodeField
<1>2. Typed(cells)
  BY DEF Values
<1>3. CASE DecodeMessage(f)
  <2>1. /\ cells' = [cells EXCEPT ![Here(f)].set = TRUE]
        /\ \/ \E size, frame : pb_make_string_substream(size, frame)
           \/ Fail("malformed")
    BY <1>3 DEF DecodeMessage
  <2>2. Typed(cells')
    BY <1>2, <2>1, SettingType
  <2>3. QED
    BY <2>1, <2>2, CallingType, FailingType
<1>4. CASE AppendMessage(f)
  <2>1. /\ AtField(f) /\ \E path : cells' = pb_message_set_to_defaults(f.of, path, Grown(f))
        /\ \/ \E size, frame : pb_make_string_substream(size, frame)
           \/ Fail("malformed")
    BY <1>4 DEF AppendMessage
  <2>2. Typed(cells')
    BY <1>1, <2>1, GrownType, DefaultsType
  <2>3. QED
    BY <2>1, <2>2, CallingType, FailingType
<1>5. CASE CannotGrow(f) \/ OpenPacked(f)
  <2>1. /\ UNCHANGED memory
        /\ \/ \E size, frame : pb_make_string_substream(size, frame)
           \/ Fail("malformed") \/ Fail("realloc failed")
    BY <1>5 DEF CannotGrow, OpenPacked
  <2>2. Typed(cells')
    BY <1>2, <2>1 DEF memory
  <2>3. QED
    BY <2>1, <2>2, CallingType, FailingType
<1>6. QED
  BY <1>1, <1>3, <1>4, <1>5, NumberInPlaceType, BytesType, AppendedType

LEMMA ItemType ==
  ASSUME DInv, Values, PackedItem
  PROVE  Values'
<1> DEFINE r     == Scalar(Top.slot.field.kind, Ahead)
           s     == Top.slot
           room  == IF Full THEN Top.allocated + Guess ELSE cells[s].room
           items == IF r.ok THEN Append(cells[s].items, r.n) ELSE cells[s].items
<1>1. /\ frames # <<>> /\ Top.kind = "packed" /\ Top.left > 0
      /\ cells' = [cells EXCEPT ![s] = Holding(items, room)]
      /\ (key' = 0 /\ errmsg' = errmsg) \/ Fail("malformed")
  BY DEF PackedItem, Runs, Array
<1>2. /\ Ahead \in Seq(Byte) /\ Top.left \in Nat /\ Top.allocated \in Nat
      /\ s \in DOMAIN cells /\ Top.slot.field.kind \in Numeric
  BY <1>1, InCall, Kinds DEF Reading
<1>3. r.n \in Int
  BY <1>2, ScalarType
<1>4. Guess \in Nat
  BY <1>1, <1>2, GuessIs
<1>5. cells[s].items \in Seq(Int) /\ cells[s].room \in Nat
  BY <1>2, CellType DEF Values, Typed
<1> HIDE DEF r, s
<1>6. items \in Seq(Int)
  <2>1. Append(cells[s].items, r.n) \in Seq(Int)
    BY <1>3, <1>5, AppendType
  <2>2. QED
    BY <1>5, <2>1
<1>7. room \in Nat
  BY <1>2, <1>4, <1>5
<1> HIDE DEF items, room
<1>8. Typed(cells')
  BY <1>1, <1>6, <1>7, HeldType DEF Values
<1>9. QED
  BY <1>1, <1>8, GoingOnType, FailingType

LEMMA ValuesStay ==
  DInv /\ Values /\ [DecoderNext]_decoder => Values'
<1> SUFFICES ASSUME DInv, Values, [DecoderNext]_decoder
             PROVE  Values'
  OBVIOUS
<1>0. Typed(cells)
  BY DEF Values
<1>1. ASSUME NEW bytes, NEW m, pb_decode(bytes, m)
      PROVE  Values'
  <2>1. key' = 0 /\ errmsg' = "" /\ cells' = pb_message_set_to_defaults(m, <<>>, <<>>)
    BY <1>1 DEF pb_decode
  <2>2. Typed(<<>>)
    BY DEF Typed
  <2>3. Typed(cells')
    BY <2>1, <2>2, DefaultsType
  <2>4. key' \in Nat
    BY <2>1
  <2>5. QED
    BY <2>1, <2>3, <2>4, TextsAre, Zenon DEF Values
<1>2. CASE EndMessage \/ EndPacked \/ PackedCannotGrow
  <2>1. /\ UNCHANGED memory
        /\ (UNCHANGED <<key, errmsg>>) \/ Fail("realloc failed")
    BY <1>2 DEF EndMessage, EndPacked, PackedCannotGrow
  <2>2. Typed(cells')
    BY <1>0, <2>1 DEF memory
  <2>3. QED
    BY <2>1, <2>2, FailingType DEF Values
<1>3. CASE DecodeTag
  <2>1. frames # <<>> /\ cells' = cells
    BY <1>3 DEF DecodeTag, Runs, memory
  <2>2. pb_decode_varint32(Ahead).n \in Nat
    BY <2>1, InCall, NumbersType
  <2>3. \/ Fail("malformed")
        \/ key' = pb_decode_varint32(Ahead).n /\ errmsg' = errmsg
    BY <1>3 DEF DecodeTag
  <2>4. QED
    BY <1>0, <2>1, <2>2, <2>3, FailingType DEF Values
<1>4. CASE SkipField
  <2>1. cells' = cells /\ ((\E n : Take(n)) \/ Fail("malformed"))
    BY <1>4 DEF SkipField, memory
  <2>2. QED
    BY <1>0, <2>1, TakingType, FailingType
<1>5. CASE Close \/ Finish
  <2>1. /\ UNCHANGED <<key, errmsg>>
        /\ (\E path : pb_release(path)) \/ UNCHANGED memory
    BY <1>5 DEF Close, Finish
  <2>2. Typed(cells')
    BY <1>0, <2>1, ReleaseType DEF memory
  <2>3. QED
    BY <2>1, <2>2 DEF Values
<1>6. CASE Dispose
  <2>1. cells' = <<>> /\ UNCHANGED <<key, errmsg>>
    BY <1>6 DEF Dispose
  <2>2. Typed(<<>>)
    BY DEF Typed
  <2>3. QED
    BY <2>1, <2>2 DEF Values
<1>7. CASE UNCHANGED decoder
  BY <1>7 DEF decoder, Values, Typed
<1>8. QED
  BY <1>1, <1>2, <1>3, <1>4, <1>5, <1>6, <1>7, FieldType, ItemType
     DEF DecoderNext, DecoderStep

-----------------------------------------------------------------------------
(* What holds of the decoder.                                              *)
LEMMA DInvAtFirst ==
  DecoderInit => DInv
<1> SUFFICES ASSUME DecoderInit
             PROVE  DInv
  OBVIOUS
<1>1. /\ input = <<>> /\ pos = 0 /\ frames = <<>> /\ answer = "none"
      /\ cells = <<>> /\ heap = {} /\ state = "idle"
  BY DEF DecoderInit
<1>2. Streams
  <2>1. <<>> \in Seq(Frame) /\ <<>> \in Seq(Byte) /\ Len(<<>>) = 0
    BY EmptySeq
  <2>2. \E stop : Chain(stop, <<>>, 0, 0)
    BY ChainEmpty
  <2>3. QED
    BY <1>1, <2>1, <2>2 DEF Streams
<1>3. Sound(cells, heap)
  BY <1>1, SoundEmpty
<1>4. Called(<<>>, cells)
  BY DEF Called
<1>5. Outcome
  BY <1>1 DEF Outcome
<1>6. QED
  BY <1>1, <1>2, <1>3, <1>4, <1>5 DEF DInv

LEMMA DInvStays ==
  DInv /\ [DecoderNext]_decoder => DInv'
<1> SUFFICES ASSUME DInv, [DecoderNext]_decoder
             PROVE  DInv'
  OBVIOUS
<1>1. ASSUME NEW bytes \in Seq(Byte), NEW m \in Message, pb_decode(bytes, m)
      PROVE  DInv'
  BY <1>1, DecodeStep
<1>2. CASE DecoderStep
  <2>1. CASE EndMessage \/ EndPacked
    BY <2>1, EndStep
  <2>2. CASE DecodeTag
    BY <2>2, DecodeTagStep
  <2>3. CASE SkipField
    BY <2>3, SkipFieldStep
  <2>4. CASE DecodeField
    <3>1. PICK f : /\ f \in FieldsOf(Top.message)
                   /\ \/ DecodeNumber(f) \/ DecodeMessage(f) \/ DecodeBytes(f)
                      \/ CannotGrow(f) \/ AppendNumber(f) \/ AppendMessage(f)
                      \/ OpenPacked(f)
      BY <2>4 DEF DecodeField
    <3>2. QED
      BY <3>1, NumberStep, MessageStep, BytesStep, CannotGrowStep,
         AppendNumberStep, AppendMessageStep, OpenPackedStep
  <2>5. CASE PackedItem
    BY <2>5, PackedItemStep
  <2>6. CASE PackedCannotGrow
    BY <2>6, PackedCannotGrowStep
  <2>7. CASE Close
    BY <2>7, CloseStep
  <2>8. CASE Finish
    BY <2>8, FinishStep
  <2>9. QED
    BY <1>2, <2>1, <2>2, <2>3, <2>4, <2>5, <2>6, <2>7, <2>8 DEF DecoderStep
<1>3. CASE Dispose
  BY <1>3, DisposeStep
<1>4. CASE UNCHANGED decoder
  <2>1. UNCHANGED <<input, pos, frames, answer, cells, heap, state>>
    BY <1>4 DEF decoder
  <2>2. Streams' /\ Called(frames, cells)' /\ Outcome'
    BY <2>1 DEF DInv, Streams, Outcome
  <2>3. Sound(cells, heap)'
    BY <2>1 DEF DInv
  <2>4. QED
    BY <2>2, <2>3 DEF DInv
<1>5. QED
  BY <1>1, <1>2, <1>3, <1>4 DEF DecoderNext

LEMMA DInvAlways ==
  DecoderSpec => []DInv
<1>1. DecoderInit => DInv
  BY DInvAtFirst
<1>2. DInv /\ [DecoderNext]_decoder => DInv'
  BY DInvStays
<1>3. QED
  BY <1>1, <1>2, PTL DEF DecoderSpec

(* Every variable keeps its shape: the numbers of a message are numbers    *)
(* whatever bytes they were read from, and a call is in progress exactly   *)
(* while a message is being decoded (pb_decode.c:928-1090).                *)
THEOREM DecoderKeepsTypes ==
  DecoderSpec => []DecoderTypeOK
<1>1. DecoderInit => Values
  <2> SUFFICES ASSUME DecoderInit PROVE Values
    OBVIOUS
  <2>1. key = 0 /\ errmsg = "" /\ cells = <<>>
    BY Zenon DEF DecoderInit
  <2>2. 0 \in Nat
    OBVIOUS
  <2>3. Typed(<<>>)
    BY DEF Typed
  <2>4. QED
    BY <2>1, <2>2, <2>3, TextsAre, Zenon DEF Values
<1>2. DInv /\ Values => DecoderTypeOK
  BY Zenon DEF DInv, Streams, Outcome, Values, Typed, Texts, DecoderTypeOK
<1>3. QED
  BY <1>1, <1>2, ValuesStay, DInvAlways, PTL DEF DecoderSpec

LEMMA NothingBehind ==
  DInv => StaysInside
<1> SUFFICES ASSUME DInv, NEW i \in DOMAIN frames
             PROVE  pos + frames[i].left <= Len(input)
  BY DEF StaysInside
<1>1. /\ frames \in Seq(Frame) /\ pos \in Nat /\ Len(input) \in Nat
      /\ Len(frames) \in Nat /\ DOMAIN frames = 1 .. Len(frames)
  BY LenProperties DEF DInv, Streams
<1>2. PICK stop : Chain(stop, frames, pos, Len(input))
  BY DEF DInv, Streams
<1>3. \A j \in 1 .. Len(frames) + 1 : stop[j] \in pos .. Len(input)
  BY <1>1, <1>2, ChainEnds
<1>4. i \in 1 .. Len(frames) /\ i \in 1 .. Len(frames) + 1 /\ i + 1 \in 1 .. Len(frames) + 1
  BY <1>1
<1>5. frames[i].left = stop[i] - stop[i + 1]
  BY <1>2, <1>4 DEF Chain
<1>6. QED
  BY <1>1, <1>3, <1>4, <1>5

(* No stream that is open reaches past the end of the buffer, whatever     *)
(* lengths the message claims (pb_make_string_substream, pb_read).         *)
THEOREM StreamsStayInside ==
  DecoderSpec => []StaysInside
BY NothingBehind, DInvAlways, PTL

(* Every array has room for the elements it has, also where the room for a *)
(* packed one was guessed (pb_decode.c:597-642).                           *)
THEOREM ArraysFit ==
  DecoderSpec => []Fits
<1>1. DInv => Fits
  BY DEF DInv, Sound, Fits
<1>2. QED
  BY <1>1, DInvAlways, PTL

(* Each block is held by one pointer of the message: pb_release frees it,  *)
(* and once (pb_decode.c:499-533, 1164-1269).                              *)
THEOREM BlocksAreHeld ==
  DecoderSpec => []NothingLeaks
<1>1. DInv => NothingLeaks
  BY AllOwned DEF DInv, NothingLeaks
<1>2. QED
  BY <1>1, DInvAlways, PTL

(* A message that could not be decoded holds nothing, so it may be         *)
(* overwritten (GDTCCTNanopbHelpers.m:261-267).                            *)
THEOREM FailureIsEmpty ==
  DecoderSpec => []FailuresHoldNothing
<1>1. DInv => FailuresHoldNothing
  BY DEF DInv, Outcome, FailuresHoldNothing
<1>2. QED
  BY <1>1, DInvAlways, PTL

(* Every step of the decoder brings it nearer to its answer: the measure   *)
(* is a number, and decreases, so no buffer of n bytes takes more than     *)
(* 3n + 3 steps (pb_decode.c:945-1027, 597-642).                           *)
THEOREM DecodingShrinks ==
  DecoderSpec => Shrinks
<1>1. ASSUME DInv, DInv', [DecoderNext]_decoder
      PROVE  [state = "decoding" => 0 <= Work' /\ Work' < Work]_decoder
  <2> SUFFICES ASSUME state = "decoding", DecoderNext
               PROVE  0 <= Work' /\ Work' < Work
    BY <1>1
  <2>1. DecoderStep
    BY DEF DecoderNext, pb_decode, Dispose
  <2>2. Passes
    BY <1>1, <2>1, EveryStepPasses
  <2>3. /\ Len(input) \in Nat /\ pos \in Nat /\ Len(frames) \in Nat
        /\ pos' \in 0 .. Len(input') /\ Len(frames') \in Nat
    <3>1. /\ Len(input) \in Nat /\ pos \in Nat /\ Len(frames) \in Nat
          /\ Len(input') \in Nat /\ pos' \in Nat /\ Len(frames') \in Nat
      BY <1>1, LenProperties DEF DInv, Streams
    <3>2. pos' <= Len(input')
      BY <1>1, <3>1, ChainEnds DEF DInv, Streams
    <3>3. QED
      BY <3>1, <3>2
  <2>4. input' = input
    BY <2>1, StepsKeepInput
  <2> DEFINE a == IF answer = "none" THEN 1 ELSE 0
             b == IF answer' = "none" THEN 1 ELSE 0
  <2>5. /\ Work  = 3 * (Len(input) - pos) + 2 * Len(frames) + a
        /\ Work' = 3 * (Len(input) - pos') + 2 * Len(frames') + b
    BY <2>4 DEF Work
  <2>6. /\ a \in {0, 1} /\ b \in {0, 1}
        /\ \/ a = 1 /\ b = 0 /\ pos' = pos /\ Len(frames') = Len(frames)
           \/ a = 1 /\ pos' >= pos + 1 /\ Len(frames') <= Len(frames) + 1
           \/ a = 0 /\ pos' >= pos /\ Len(frames') = Len(frames) - 1
    BY <2>2 DEF Passes
  <2> HIDE DEF a, b
  <2>7. /\ 0 <= 3 * (Len(input) - pos') + 2 * Len(frames') + b
        /\ 3 * (Len(input) - pos') + 2 * Len(frames') + b
             < 3 * (Len(input) - pos) + 2 * Len(frames) + a
    BY SMTT(40), <2>3, <2>4, <2>6, Nearer
  <2>8. QED
    BY <2>5, <2>7
<1>2. QED
  BY <1>1, DInvAlways, PTL DEF DecoderSpec, Shrinks

(* Every number is read as the number that was written: in every kind of   *)
(* field, and by pb_decode_varint32 where a length or a tag is one         *)
(* (ReadAsWritten, which NumbersArrive says of a decoder at work).         *)
THEOREM NumbersComeBack == ReadAsWritten /\ (DecoderSpec => []NumbersArrive)
<1>1. ASSUME NEW kind \in Numeric, NEW n \in ValuesOf(kind)
      PROVE  Scalar(kind, pb_encode_varint[Written(kind, n)])
               = [ok |-> TRUE, n |-> n, took |-> Len(pb_encode_varint[Written(kind, n)])]
  <2>1. ReadsBack(kind, n)
    BY KindsArrive
  <2>2. <<>> \in Seq(Byte) /\ pb_encode_varint[Written(kind, n)] \o <<>> = pb_encode_varint[Written(kind, n)]
    BY WrittenType, NothingAfter
  <2> HIDE DEF ReadsBack
  <2>3. Scalar(kind, pb_encode_varint[Written(kind, n)] \o <<>>)
               = [ok |-> TRUE, n |-> n, took |-> Len(pb_encode_varint[Written(kind, n)])]
    BY <2>1, <2>2 DEF ReadsBack
  <2>4. QED
    BY <2>2, <2>3
<1>2. ASSUME NEW n \in 0 .. 2 ^ Bits32 - 1
      PROVE  pb_decode_varint32(pb_encode_varint[n])
               = [ok |-> TRUE, n |-> n, took |-> Len(pb_encode_varint[n])]
  <2>1. n \in Nat
    BY WidthType
  <2>2. <<>> \in Seq(Byte) /\ pb_encode_varint[n] \o <<>> = pb_encode_varint[n]
    BY <2>1, NothingAfter
  <2>3. pb_decode_varint32(pb_encode_varint[n] \o <<>>)
               = [ok |-> TRUE, n |-> n, took |-> Len(pb_encode_varint[n])]
    BY <2>2, Varint32ComesBack
  <2>4. QED
    BY <2>2, <2>3
<1>3. ReadAsWritten
  BY <1>1, <1>2 DEF ReadAsWritten
<1>4. NumbersArrive
  BY <1>3 DEF NumbersArrive
<1>5. DecoderSpec => []NumbersArrive
  BY <1>4, PTL
<1>6. QED
  BY <1>3, <1>5
=============================================================================
