----------------------------- MODULE PbWireProofs -----------------------------
(***************************************************************************)
(* What is known of the numbers on the wire, for all widths: what is found *)
(* in a stream was in it, what is read is a number, and a number that was  *)
(* written is found and read again, whatever follows it in the stream.     *)
(*                                                                         *)
(* pb_encode_varint and the fold of Number are recursive functions; what   *)
(* is said of all numbers is shown of the least that could be otherwise.   *)
(***************************************************************************)
EXTENDS PbWire, SequenceLemmas

-----------------------------------------------------------------------------
(* Powers of two, as far as the widths go.                                 *)
Bits == Bits64 + GroupBits + 1

LEMMA BitsType ==
  /\ Bits \in Nat /\ GroupBits \in 0 .. Bits /\ Bits32 \in 0 .. Bits /\ Bits64 \in 0 .. Bits
  /\ GroupBits \in Nat \ {0} /\ Bits32 \in Nat \ {0} /\ Bits64 \in Nat \ {0}
  /\ GroupBits < Bits32 /\ Bits32 < Bits64
BY WidthsAssumption DEF Bits

LEMMA Twice ==
  ASSUME NEW a \in Nat, a < Bits
  PROVE  2 ^ (a + 1) = 2 * 2 ^ a
<1>1. a \in 0 .. Bits64 + GroupBits
  BY BitsType DEF Bits
<1>2. QED
  BY <1>1, PowersAssumption

LEMMA PowerType ==
  ASSUME NEW a \in 0 .. Bits
  PROVE  2 ^ a \in Nat \ {0}
<1> DEFINE wrong == {b \in 0 .. Bits : 2 ^ b \notin Nat \ {0}}
<1>1. SUFFICES wrong = {}
  OBVIOUS
<1>2. SUFFICES ASSUME wrong # {} PROVE FALSE
  OBVIOUS
<1>3. wrong \in SUBSET Nat
  OBVIOUS
<1>4. PICK b \in wrong : \A c \in wrong : b <= c
  BY <1>2, <1>3, Least
<1>5. CASE b = 0
  BY <1>5
<1>6. CASE b # 0
  <2>1. b - 1 \in 0 .. Bits /\ b - 1 \notin wrong /\ b - 1 \in Nat /\ b - 1 < Bits /\ (b - 1) + 1 = b
    BY <1>4, <1>6, BitsType
  <2>2. 2 ^ b = 2 * 2 ^ (b - 1)
    BY <2>1, Twice
  <2>3. 2 ^ (b - 1) \in Nat \ {0}
    BY <2>1
  <2>4. QED
    BY <2>2, <2>3
<1>7. QED
  BY <1>5, <1>6

LEMMA PowerSum ==
  ASSUME NEW a \in Nat, NEW b \in Nat, a + b <= Bits
  PROVE  2 ^ (a + b) = 2 ^ a * 2 ^ b
<1> DEFINE wrong == {c \in 0 .. b : 2 ^ (a + c) # 2 ^ a * 2 ^ c}
<1>2. SUFFICES ASSUME wrong # {} PROVE FALSE
  OBVIOUS
<1>3. wrong \in SUBSET Nat
  OBVIOUS
<1>4. PICK c \in wrong : \A d \in wrong : c <= d
  BY <1>2, <1>3, Least
<1>0. 2 ^ a \in Nat
  BY PowerType, BitsType
<1>5. CASE c = 0
  <2>1. 2 ^ 0 = 1 /\ a + 0 = a
    OBVIOUS
  <2>2. QED
    BY <1>0, <1>4, <1>5, <2>1
<1>6. CASE c # 0
  <2> DEFINE d == c - 1
  <2>1. d \in 0 .. b /\ d \notin wrong /\ d \in Nat /\ d < Bits /\ d + 1 = c
        /\ a + d < Bits /\ (a + d) + 1 = a + c /\ a + d \in Nat
    BY <1>4, <1>6, BitsType
  <2> HIDE DEF d
  <2>2. 2 ^ c = 2 * 2 ^ d /\ 2 ^ (a + c) = 2 * 2 ^ (a + d)
    BY <2>1, Twice
  <2>3. 2 ^ (a + d) = 2 ^ a * 2 ^ d
    BY <2>1
  <2>4. 2 ^ d \in Nat
    BY <2>1, PowerType, BitsType
  <2> DEFINE x == 2 ^ a
             y == 2 ^ d
  <2>5. 2 ^ (a + c) = 2 * (x * y) /\ 2 ^ c = 2 * y
    BY <2>2, <2>3
  <2>6. x \in Nat /\ y \in Nat
    BY <1>0, <2>4
  <2> HIDE DEF x, y
  <2>7. 2 * (x * y) = x * (2 * y)
    BY <2>6
  <2>8. 2 ^ (a + c) = 2 ^ a * 2 ^ c
    BY <2>5, <2>7 DEF x
  <2>9. QED
    BY <1>4, <2>8
<1>7. QED
  BY <1>5, <1>6

LEMMA GroupType ==
  Group \in Nat /\ Group >= 2
<1>1. 2 ^ GroupBits = 2 * 2 ^ (GroupBits - 1)
  <2>1. GroupBits - 1 \in Nat /\ GroupBits - 1 < Bits /\ (GroupBits - 1) + 1 = GroupBits
    BY BitsType
  <2>2. QED
    BY <2>1, Twice
<1>2. 2 ^ (GroupBits - 1) \in Nat \ {0}
  BY BitsType, PowerType
<1>3. QED
  BY <1>1, <1>2 DEF Group

LEMMA ByteType ==
  Group \in Nat \ {0} /\ Byte \subseteq Nat
BY GroupType DEF Byte

LEMMA WidthType ==
  2 ^ Bits32 \in Nat \ {0} /\ 2 ^ Bits64 \in Nat \ {0}
BY BitsType, PowerType

-----------------------------------------------------------------------------
(* Reading: what is found in a stream was in it.                           *)
LEMMA VarintInside ==
  ASSUME NEW S, NEW bytes \in Seq(S)
  PROVE  /\ Len(Varint(bytes)) \in 0 .. Len(bytes)
         /\ Varint(bytes) # <<>> => Len(Varint(bytes)) >= 1
<1>1. CASE Ends(bytes) = {}
  BY <1>1 DEF Varint
<1>2. CASE Ends(bytes) # {}
  <2> DEFINE k == CHOOSE i \in Ends(bytes) : TRUE
  <2>1. k \in Ends(bytes)
    BY <1>2
  <2>2. k \in 1 .. Len(bytes)
    BY <2>1, LenProperties DEF Ends
  <2>3. Varint(bytes) = SubSeq(bytes, 1, k)
    BY <1>2 DEF Varint
  <2> HIDE DEF k
  <2>4. QED
    BY <2>2, <2>3, SubSeqProperties, LenProperties
<1>3. QED
  BY <1>1, <1>2

LEMMA NumbersInside ==
  ASSUME NEW S, NEW bytes \in Seq(S)
  PROVE  /\ pb_decode_varint(bytes).ok =>
              pb_decode_varint(bytes).took \in 1 .. Len(bytes)
         /\ pb_decode_varint32(bytes).ok =>
              pb_decode_varint32(bytes).took \in 1 .. Len(bytes)
<1>1. Len(Varint(bytes)) \in 0 .. Len(bytes)
      /\ (Varint(bytes) # <<>> => Len(Varint(bytes)) >= 1)
  BY VarintInside
<1>2. ASSUME pb_decode_varint(bytes).ok
      PROVE  pb_decode_varint(bytes).took \in 1 .. Len(bytes)
  <2>1. CASE Len(Varint(bytes)) \in 1 .. GroupsIn(Bits64)
    <3>1. pb_decode_varint(bytes).took = Len(Varint(bytes))
      BY <2>1 DEF pb_decode_varint
    <3>2. QED
      BY <1>1, <2>1, <3>1, LenProperties
  <2>2. CASE ~(Len(Varint(bytes)) \in 1 .. GroupsIn(Bits64))
    BY <1>2, <2>2 DEF pb_decode_varint, Failed
  <2>3. QED
    BY <2>1, <2>2
<1>3. ASSUME pb_decode_varint32(bytes).ok
      PROVE  pb_decode_varint32(bytes).took \in 1 .. Len(bytes)
  <2> DEFINE r(n) == [ok |-> TRUE, n |-> n, took |-> Len(Varint(bytes))]
  <2>1. \E n : pb_decode_varint32(bytes) = r(n) \/ pb_decode_varint32(bytes) = Failed
    BY DEF pb_decode_varint32
  <2>2. PICK n : pb_decode_varint32(bytes) = r(n)
    BY <1>3, <2>1 DEF Failed
  <2>3. Varint(bytes) # <<>>
    BY <1>3 DEF pb_decode_varint32, Failed
  <2>4. QED
    BY <1>1, <2>2, <2>3, LenProperties
<1>4. QED
  BY <1>2, <1>3

LEMMA VarintType ==
  ASSUME NEW bytes \in Seq(Byte)
  PROVE  Varint(bytes) \in Seq(Byte)
<1>1. CASE Ends(bytes) = {}
  BY <1>1, EmptySeq DEF Varint
<1>2. CASE Ends(bytes) # {}
  <2> DEFINE k == CHOOSE i \in Ends(bytes) : TRUE
  <2>1. k \in Ends(bytes)
    BY <1>2
  <2>2. k \in 1 .. Len(bytes)
    BY <2>1, LenProperties DEF Ends
  <2>3. Varint(bytes) = SubSeq(bytes, 1, k)
    BY <1>2 DEF Varint
  <2> HIDE DEF k
  <2>4. QED
    BY <2>2, <2>3, SubSeqProperties, LenProperties
<1>3. QED
  BY <1>1, <1>2

-----------------------------------------------------------------------------
(* Writing.                                                                *)
(* The function that pb_encode_varint is: there is one.                    *)
Encoding(f, n) ==
  IF n < Group THEN <<n>> ELSE <<Low(n) + Group>> \o f[n \div Group]

LEMMA Shorter ==
  ASSUME NEW n \in Nat, n >= Group
  PROVE  n \div Group \in 0 .. n - 1
<1>1. \A m \in Nat \ {0} : m > 1 /\ n >= m => n \div m < n /\ n \div m \in Nat
  OBVIOUS
<1>2. n \div Group < n /\ n \div Group \in Nat
  BY <1>1, GroupType
<1>3. QED
  BY <1>2

LEMMA LowType ==
  ASSUME NEW n \in Nat
  PROVE  Low(n) \in 0 .. Group - 1
<1>1. \A m \in Nat \ {0} : n % m \in 0 .. m - 1
  OBVIOUS
<1>2. QED
  BY <1>1, GroupType DEF Low

LEMMA EncodingType ==
  ASSUME NEW n \in Nat, NEW f, n >= Group => f[n \div Group] \in Seq(Byte)
  PROVE  Encoding(f, n) \in Seq(Byte)
<1>1. CASE n < Group
  <2>1. n \in Byte
    BY <1>1, GroupType DEF Byte
  <2>2. <<n>> \in Seq(Byte)
    BY <2>1
  <2>3. QED
    BY <1>1, <2>2 DEF Encoding
<1>2. CASE ~(n < Group)
  <2>1. Low(n) + Group \in Byte
    <3>1. Low(n) \in 0 .. Group - 1 /\ Group \in Nat
      BY LowType, GroupType
    <3>2. Low(n) + Group \in 0 .. 2 * Group - 1
      BY <3>1
    <3>3. QED
      BY <3>2 DEF Byte
  <2> DEFINE b == Low(n) + Group
             rest == f[n \div Group]
  <2>2. <<b>> \in Seq(Byte)
    BY <2>1
  <2>3. rest \in Seq(Byte)
    BY <1>2, GroupType
  <2> HIDE DEF b, rest
  <2>4. <<b>> \o rest \in Seq(Byte)
    BY <2>2, <2>3, Concat
  <2>5. QED
    BY <1>2, <2>4 DEF Encoding, b, rest
<1>3. QED
  BY <1>1, <1>2

Encodes(f, N) ==
  f \in [0 .. N - 1 -> Seq(Byte)] /\ \A n \in 0 .. N - 1 : f[n] = Encoding(f, n)

LEMMA SameEncoding ==
  ASSUME NEW f, NEW g, NEW n \in Nat, n >= Group => f[n \div Group] = g[n \div Group]
  PROVE  Encoding(f, n) = Encoding(g, n)
<1>1. n < Group \/ n >= Group
  BY GroupType
<1>2. QED
  BY <1>1 DEF Encoding

LEMMA EncodingsUpTo ==
  ASSUME NEW N \in Nat
  PROVE  \E f : Encodes(f, N)
<1> DEFINE wrong == {k \in 0 .. N : ~\E f : Encodes(f, k)}
<1>1. SUFFICES ASSUME wrong # {} PROVE FALSE
  OBVIOUS
<1>2. wrong \in SUBSET Nat
  OBVIOUS
<1>3. PICK k \in wrong : \A l \in wrong : k <= l
  BY <1>1, <1>2, Least
<1>4. CASE k = 0
  <2>1. Encodes([n \in 0 .. k - 1 |-> <<>>], k)
    BY <1>4 DEF Encodes
  <2>2. QED
    BY <1>3, <2>1
<1>5. CASE k # 0
  <2>1. k - 1 \in 0 .. N /\ k - 1 \notin wrong
    BY <1>3, <1>5
  <2>2. PICK f : Encodes(f, k - 1)
    BY <2>1
  <2> DEFINE h == [n \in 0 .. k - 1 |-> IF n = k - 1 THEN Encoding(f, n) ELSE f[n]]
  <2>3. \A n \in 0 .. k - 2 : f[n] \in Seq(Byte) /\ f[n] = Encoding(f, n)
    BY <1>3, <2>2 DEF Encodes
  <2>4. \A n \in 0 .. k - 1 : n >= Group => n \div Group \in 0 .. k - 2
    <3> TAKE n \in 0 .. k - 1
    <3> HAVE n >= Group
    <3>1. n \div Group \in 0 .. n - 1
      BY Shorter
    <3>2. QED
      BY <1>3, <3>1
  <2>5. \A n \in 0 .. k - 1 : h[n] = Encoding(f, n) /\ h[n] \in Seq(Byte)
    <3> TAKE n \in 0 .. k - 1
    <3>1. Encoding(f, n) \in Seq(Byte)
      BY <2>3, <2>4, EncodingType
    <3>2. n = k - 1 \/ n \in 0 .. k - 2
      BY <1>3
    <3> HIDE DEF Encoding
    <3>3. QED
      BY <2>3, <3>1, <3>2
  <2>6. h \in [0 .. k - 1 -> Seq(Byte)]
    BY <2>5
  <2>7. \A n \in 0 .. k - 2 : h[n] = f[n]
    BY <1>3
  <2> HIDE DEF h
  <2>8. \A n \in 0 .. k - 1 : h[n] = Encoding(h, n)
    <3> TAKE n \in 0 .. k - 1
    <3>1. n >= Group => h[n \div Group] = f[n \div Group]
      BY <2>4, <2>7
    <3>2. Encoding(f, n) = Encoding(h, n)
      BY <3>1, SameEncoding
    <3>3. QED
      BY <2>5, <3>2
  <2>9. QED
    BY <1>3, <2>6, <2>8 DEF Encodes
<1>6. QED
  BY <1>4, <1>5

LEMMA EncodingsAgree ==
  ASSUME NEW M \in Nat, NEW N \in Nat, NEW f, NEW g, Encodes(f, M), Encodes(g, N),
         NEW n \in Nat, n < M, n < N
  PROVE  f[n] = g[n]
<1> DEFINE wrong == {k \in 0 .. n : f[k] # g[k]}
<1>1. SUFFICES ASSUME wrong # {} PROVE FALSE
  OBVIOUS
<1>2. wrong \in SUBSET Nat
  OBVIOUS
<1>3. PICK k \in wrong : \A l \in wrong : k <= l
  BY <1>1, <1>2, Least
<1>4. k \in 0 .. M - 1 /\ k \in 0 .. N - 1
  BY <1>3
<1>5. f[k] = Encoding(f, k) /\ g[k] = Encoding(g, k)
  BY <1>4 DEF Encodes
<1>6. k >= Group => f[k \div Group] = g[k \div Group]
  <2> HAVE k >= Group
  <2>1. k \div Group \in 0 .. k - 1
    BY <1>3, Shorter
  <2>2. k \div Group \in 0 .. n /\ k \div Group \notin wrong
    BY <1>3, <2>1
  <2>3. QED
    BY <2>2
<1>7. Encoding(f, k) = Encoding(g, k)
  BY <1>3, <1>6, SameEncoding
<1>8. QED
  BY <1>3, <1>5, <1>7

LEMMA EncodingIs ==
  ASSUME NEW n \in Nat
  PROVE  /\ pb_encode_varint[n] = Encoding(pb_encode_varint, n)
         /\ pb_encode_varint[n] \in Seq(Byte)
<1> DEFINE F(N) == CHOOSE f : Encodes(f, N)
           e == [k \in Nat |-> F(k + 1)[k]]
           Is(f) == f = [k \in Nat |-> Encoding(f, k)]
<1>1. \A N \in Nat : Encodes(F(N), N)
  BY EncodingsUpTo
<1> HIDE DEF F
<1>2. \A k \in Nat : e[k] = F(k + 1)[k] /\ F(k + 1)[k] = Encoding(F(k + 1), k) /\ e[k] \in Seq(Byte)
  <2> TAKE k \in Nat
  <2>1. k \in 0 .. (k + 1) - 1
    OBVIOUS
  <2>2. QED
    BY <1>1, <2>1 DEF Encodes
<1> HIDE DEF e
<1>3. \A k \in Nat : e[k] = Encoding(e, k)
  <2> TAKE k \in Nat
  <2>1. k >= Group => e[k \div Group] = F(k + 1)[k \div Group]
    <3> HAVE k >= Group
    <3> DEFINE l == k \div Group
    <3>1. l \in 0 .. k - 1
      BY Shorter
    <3> HIDE DEF l
    <3>2. l \in Nat /\ l < l + 1 /\ l < k + 1 /\ Encodes(F(l + 1), l + 1) /\ Encodes(F(k + 1), k + 1)
      BY <1>1, <3>1
    <3>3. F(l + 1)[l] = F(k + 1)[l]
      BY <3>2, EncodingsAgree
    <3>4. e[l] = F(k + 1)[l]
      BY <1>2, <3>2, <3>3
    <3>5. QED
      BY <3>4 DEF l
  <2>2. Encoding(e, k) = Encoding(F(k + 1), k)
    BY <2>1, SameEncoding
  <2>3. QED
    BY <1>2, <2>2
<1>4. Is([k \in Nat |-> e[k]])
  <2> DEFINE d == [k \in Nat |-> e[k]]
  <2>1. \A k \in Nat : d[k] = e[k]
    OBVIOUS
  <2> HIDE DEF d
  <2>2. \A k \in Nat : k >= Group => k \div Group \in Nat
    <3> TAKE k \in Nat
    <3> HAVE k >= Group
    <3>1. QED
      BY Shorter
  <2>3. \A k \in Nat : Encoding(d, k) = Encoding(e, k)
    BY <2>1, <2>2, SameEncoding
  <2>4. [k \in Nat |-> e[k]] = [k \in Nat |-> Encoding(d, k)]
    BY <1>3, <2>3
  <2>5. QED
    BY <2>4 DEF d
<1>5. pb_encode_varint = CHOOSE f : Is(f)
  BY DEF pb_encode_varint, Encoding
<1>6. Is(pb_encode_varint)
  BY <1>4, <1>5
<1> HIDE DEF Is
<1>7. \A k \in Nat : pb_encode_varint[k] = Encoding(pb_encode_varint, k)
  BY <1>6 DEF Is
<1> DEFINE p == pb_encode_varint
           wrong == {k \in Nat : p[k] \notin Seq(Byte)}
<1>8. wrong = {}
  <2>1. SUFFICES ASSUME wrong # {} PROVE FALSE
    OBVIOUS
  <2>2. PICK k \in wrong : \A l \in wrong : k <= l
    BY <2>1, Least
  <2>3. k >= Group => p[k \div Group] \in Seq(Byte)
    <3> HAVE k >= Group
    <3>1. k \div Group \in 0 .. k - 1
      BY <2>2, Shorter
    <3>2. k \div Group \in Nat /\ k \div Group \notin wrong
      BY <2>2, <3>1
    <3>3. QED
      BY <3>2
  <2> HIDE DEF p
  <2>4. Encoding(p, k) \in Seq(Byte)
    BY <2>2, <2>3, EncodingType
  <2>5. QED
    BY <1>7, <2>2, <2>4 DEF p
<1>9. QED
  BY <1>7, <1>8

(* What is written ends where the first byte without the top bit is.       *)
Ended(v) ==
  /\ v \in Seq(Byte) /\ Len(v) \in Nat \ {0}
  /\ ~More(v[Len(v)]) /\ \A i \in 1 .. Len(v) - 1 : More(v[i])

LEMMA OneByte ==
  ASSUME NEW b \in Byte
  PROVE  <<b>> \in Seq(Byte) /\ Len(<<b>>) = 1 /\ <<b>>[1] = b
OBVIOUS

LEMMA ByteBefore ==
  ASSUME NEW b \in Byte, NEW s \in Seq(Byte)
  PROVE  /\ <<b>> \o s \in Seq(Byte) /\ Len(<<b>> \o s) = Len(s) + 1
         /\ DOMAIN (<<b>> \o s) = 1 .. Len(s) + 1 /\ Len(s) \in Nat
         /\ (<<b>> \o s)[1] = b
         /\ \A i \in 1 .. Len(s) : (<<b>> \o s)[i + 1] = s[i]
<1> DEFINE o == <<b>>
           c == o \o s
<1>1. o \in Seq(Byte) /\ Len(o) = 1 /\ o[1] = b
  BY OneByte
<1>2. Len(s) \in Nat
  BY LenProperties
<1> HIDE DEF o
<1>3. /\ c \in Seq(Byte) /\ Len(c) = 1 + Len(s)
      /\ DOMAIN c = 1 .. (1 + Len(s))
      /\ \A j \in 1 .. (1 + Len(s)) : c[j] = IF j <= 1 THEN o[j] ELSE s[j - 1]
  <2>1. /\ c \in Seq(Byte) /\ Len(c) = Len(o) + Len(s)
        /\ DOMAIN c = 1 .. (Len(o) + Len(s))
        /\ \A j \in 1 .. (Len(o) + Len(s)) : c[j] = IF j <= Len(o) THEN o[j] ELSE s[j - Len(o)]
    BY <1>1, Concat
  <2> HIDE DEF c
  <2>2. QED
    BY <1>1, <2>1
<1> HIDE DEF c
<1>4. c[1] = b
  BY <1>1, <1>2, <1>3
<1>5. \A i \in 1 .. Len(s) : c[i + 1] = s[i]
  <2> TAKE i \in 1 .. Len(s)
  <2>1. i + 1 \in 1 .. (1 + Len(s)) /\ ~(i + 1 <= 1) /\ (i + 1) - 1 = i
    BY <1>2
  <2>2. QED
    BY <1>3, <2>1
<1>6. QED
  BY <1>2, <1>3, <1>4, <1>5 DEF c, o

LEMMA EncodedEnds ==
  ASSUME NEW n \in Nat
  PROVE  Ended(pb_encode_varint[n])
<1> DEFINE e == pb_encode_varint
           wrong == {k \in Nat : ~Ended(e[k])}
<1>1. SUFFICES ASSUME wrong # {} PROVE FALSE
  OBVIOUS
<1>2. PICK k \in wrong : \A l \in wrong : k <= l
  BY <1>1, Least
<1>3. e[k] = Encoding(e, k)
  BY <1>2, EncodingIs
<1> HIDE DEF e
<1>4. CASE k < Group
  <2>1. e[k] = <<k>>
    BY <1>3, <1>4 DEF Encoding
  <2>2. k \in Byte /\ ~More(k)
    BY <1>2, <1>4, GroupType DEF Byte, More
  <2> DEFINE o == <<k>>
  <2>3. o \in Seq(Byte) /\ Len(o) = 1 /\ o[1] = k
    BY <2>2, OneByte
  <2> HIDE DEF o
  <2>4. Ended(o)
    BY <2>2, <2>3 DEF Ended
  <2>5. QED
    BY <1>2, <2>1, <2>4 DEF o
<1>5. CASE ~(k < Group)
  <2> DEFINE b == Low(k) + Group
             s == e[k \div Group]
  <2>1. e[k] = <<b>> \o s
    BY <1>3, <1>5 DEF Encoding
  <2>2. b \in Byte /\ More(b)
    <3>1. Low(k) \in 0 .. Group - 1 /\ Group \in Nat
      BY <1>2, LowType, GroupType
    <3>2. b \in 0 .. 2 * Group - 1 /\ b >= Group
      BY <3>1
    <3>3. QED
      BY <3>2 DEF Byte, More
  <2>3. Ended(s)
    <3>1. k \div Group \in 0 .. k - 1
      BY <1>2, <1>5, Shorter, GroupType
    <3>2. k \div Group \in Nat /\ k \div Group \notin wrong
      BY <1>2, <3>1
    <3>3. QED
      BY <3>2
  <2> HIDE DEF b, s
  <2> DEFINE c == <<b>> \o s
  <2>4. /\ c \in Seq(Byte) /\ Len(c) = Len(s) + 1 /\ Len(s) \in Nat \ {0}
        /\ c[1] = b /\ \A i \in 1 .. Len(s) : c[i + 1] = s[i]
    BY <2>2, <2>3, ByteBefore DEF Ended
  <2> HIDE DEF c
  <2>5. ~More(c[Len(c)])
    BY <2>3, <2>4 DEF Ended
  <2>6. \A i \in 1 .. Len(c) - 1 : More(c[i])
    <3> TAKE i \in 1 .. Len(c) - 1
    <3>1. CASE i = 1
      BY <2>2, <2>4, <3>1
    <3>2. CASE i # 1
      <4> DEFINE j == i - 1
      <4>1. j \in 1 .. Len(s) - 1 /\ j \in 1 .. Len(s) /\ j + 1 = i
        BY <2>4, <3>2
      <4> HIDE DEF j
      <4>2. More(s[j]) /\ c[j + 1] = s[j]
        BY <2>3, <2>4, <4>1 DEF Ended
      <4>3. QED
        BY <4>1, <4>2
    <3>3. QED
      BY <3>1, <3>2
  <2>7. Ended(c)
    BY <2>4, <2>5, <2>6 DEF Ended
  <2>8. QED
    BY <1>2, <2>1, <2>7 DEF c
<1>6. QED
  BY <1>4, <1>5

(* Whatever follows, it is found again.                                    *)
LEMMA VarintFound ==
  ASSUME NEW v, Ended(v), NEW rest \in Seq(Byte)
  PROVE  v \o rest \in Seq(Byte) /\ Varint(v \o rest) = v
<1> DEFINE c == v \o rest
<1>1. /\ v \in Seq(Byte) /\ Len(v) \in Nat \ {0} /\ Len(rest) \in Nat
      /\ ~More(v[Len(v)]) /\ \A i \in 1 .. Len(v) - 1 : More(v[i])
  BY LenProperties DEF Ended
<1>2. /\ c \in Seq(Byte) /\ Len(c) = Len(v) + Len(rest)
      /\ DOMAIN c = 1 .. (Len(v) + Len(rest))
      /\ \A i \in 1 .. (Len(v) + Len(rest)) : c[i] = IF i <= Len(v) THEN v[i] ELSE rest[i - Len(v)]
  BY <1>1, Concat
<1> HIDE DEF c
<1>3. \A i \in 1 .. Len(v) : c[i] = v[i] /\ i \in DOMAIN c
  BY <1>1, <1>2
<1>4. Len(v) \in Ends(c)
  <2>1. Len(v) \in 1 .. Len(v) /\ \A i \in 1 .. Len(v) - 1 : i \in 1 .. Len(v)
    BY <1>1
  <2>2. QED
    BY <1>1, <1>3, <2>1 DEF Ends
<1>5. \A k \in Ends(c) : k = Len(v)
  <2> TAKE k \in Ends(c)
  <2>1. k \in 1 .. (Len(v) + Len(rest)) /\ ~More(c[k]) /\ \A i \in 1 .. k - 1 : More(c[i])
    BY <1>2 DEF Ends
  <2>2. ~(k < Len(v))
    <3> SUFFICES ASSUME k < Len(v) PROVE FALSE
      OBVIOUS
    <3>1. k \in 1 .. Len(v) - 1 /\ k \in 1 .. Len(v)
      BY <1>1, <2>1
    <3>2. QED
      BY <1>1, <1>3, <2>1, <3>1
  <2>3. ~(k > Len(v))
    <3> SUFFICES ASSUME k > Len(v) PROVE FALSE
      OBVIOUS
    <3>1. Len(v) \in 1 .. k - 1 /\ Len(v) \in 1 .. Len(v)
      BY <1>1, <2>1
    <3>2. QED
      BY <1>1, <1>3, <2>1, <3>1
  <2>4. QED
    BY <1>1, <2>1, <2>2, <2>3
<1>6. Varint(c) = SubSeq(c, 1, Len(v))
  BY <1>4, <1>5 DEF Varint
<1>7. SubSeq(c, 1, Len(v)) = v
  <2> DEFINE w == SubSeq(c, 1, Len(v))
  <2>0. 1 \in Int /\ Len(v) \in Int /\ \A i \in 1 .. Len(v) : c[i] \in Byte
    BY <1>1, <1>3, ElementOfSeq
  <2>1. w \in Seq(Byte) /\ Len(w) = Len(v) /\ \A i \in 1 .. Len(v) : w[i] = c[i]
    BY <1>1, <2>0, SubSeqProperties
  <2> HIDE DEF w
  <2>2. \A i \in 1 .. Len(v) : w[i] = v[i]
    BY <1>3, <2>1
  <2>3. w = v
    BY <1>1, <2>1, <2>2, SeqEqual
  <2>4. QED
    BY <2>3 DEF w
<1>8. QED
  BY <1>2, <1>6, <1>7 DEF c

-----------------------------------------------------------------------------
(* value[k] is the number that the bytes from k on stand for.              *)
LEMMA NumberIs ==
  ASSUME NEW bytes \in Seq(Byte)
  PROVE  \E value \in [1 .. Len(bytes) + 1 -> Nat] :
           /\ Number(bytes) = value[1] /\ value[Len(bytes) + 1] = 0
           /\ \A k \in 1 .. Len(bytes) : value[k] = Low(bytes[k]) + Group * value[k + 1]
<1> DEFINE N == Len(bytes)
           low == [i \in 1 .. N |-> Low(bytes[i])]
           Sum(f) == f = [s \in SUBSET (1 .. N) |-> Summed(low, Group, f, s)]
           Fold(f) == f = [s \in SUBSET DOMAIN bytes |->
                       IF s = {} THEN 0
                       ELSE Low(bytes[Min(s)]) + Group * f[s \ {Min(s)}]]
           sum == CHOOSE f : Sum(f)
           value == [k \in 1 .. N + 1 |-> sum[k .. N]]
<1>1. Number(bytes) = (CHOOSE f : Fold(f))[DOMAIN bytes]
  BY DEF Number, FoldRight, MapThenFoldSet
<1>2. N \in Nat /\ DOMAIN bytes = 1 .. N
  BY LenProperties
<1>3. \A i \in 1 .. N : low[i] = Low(bytes[i]) /\ low[i] \in Nat
  <2> TAKE i \in 1 .. N
  <2>1. bytes[i] \in Byte
    BY <1>2, ElementOfSeq
  <2>2. bytes[i] \in Nat
    BY <2>1, ByteType
  <2>3. Low(bytes[i]) \in 0 .. Group - 1
    BY <2>2, LowType
  <2>4. QED
    BY <2>3
<1>4. low \in [1 .. N -> Nat]
  BY <1>3
<1> HIDE DEF low
<1>5. \A s \in SUBSET (1 .. N) : s # {} => low[Min(s)] = Low(bytes[Min(s)])
  <2> TAKE s \in SUBSET (1 .. N)
  <2> HAVE s # {}
  <2>1. s \in SUBSET Nat
    BY <1>2
  <2>2. Min(s) \in 1 .. N
    BY <2>1, LeastOf
  <2>3. QED
    BY <1>3, <2>2
<1>6. \A f : Fold(f) <=> Sum(f)
  <2> TAKE f
  <2>1. \A s \in SUBSET (1 .. N) : Summed(low, Group, f, s) =
          IF s = {} THEN 0 ELSE Low(bytes[Min(s)]) + Group * f[s \ {Min(s)}]
    BY <1>5 DEF Summed
  <2>2. [s \in SUBSET (1 .. N) |-> Summed(low, Group, f, s)]
          = [s \in SUBSET (1 .. N) |->
               IF s = {} THEN 0 ELSE Low(bytes[Min(s)]) + Group * f[s \ {Min(s)}]]
    BY <2>1
  <2>3. QED
    BY <1>2, <2>2
<1>7. /\ sum[{}] = 0
      /\ \A k \in 1 .. N : sum[k .. N] = low[k] + Group * sum[k + 1 .. N]
  <2>1. \E f : Sum(f)
    BY <1>2, <1>4, GroupType, SumChosen
  <2>2. Sum(sum)
    <3> HIDE DEF Sum
    <3>1. QED
      BY <2>1
  <2> HIDE DEF N
  <2> HIDE DEF sum
  <2>3. Sums(sum, N, low, Group)
    BY <2>2 DEF Sums
  <2>4. QED
    BY <1>2, <2>3, SumSteps
<1> HIDE DEF Sum, Fold
<1>8. (CHOOSE f : Sum(f)) = (CHOOSE f : Fold(f))
  BY <1>6
<1>9. Number(bytes) = sum[1 .. N]
  BY <1>1, <1>2, <1>8
<1> HIDE DEF sum, N
<1>10. value[1] = sum[1 .. N] /\ value[N + 1] = 0
  <2>1. N + 1 .. N = {} /\ 1 \in 1 .. N + 1 /\ N + 1 \in 1 .. N + 1
    BY <1>2
  <2>2. QED
    BY <1>7, <2>1
<1>11. \A k \in 1 .. N : value[k] = Low(bytes[k]) + Group * value[k + 1]
  <2> TAKE k \in 1 .. N
  <2>1. k \in 1 .. N + 1 /\ k + 1 \in 1 .. N + 1
    BY <1>2
  <2>2. value[k] = sum[k .. N] /\ value[k + 1] = sum[k + 1 .. N]
    BY <2>1
  <2>3. QED
    BY <1>3, <1>7, <2>2
<1>12. value = [k \in 1 .. N + 1 |-> value[k]]
  OBVIOUS
<1> HIDE DEF value
<1>13. \A k \in 1 .. N + 1 : value[k] \in Nat
  <2> DEFINE wrong == {k \in 1 .. N + 1 : value[k] \notin Nat}
  <2>1. N + 1 \notin wrong
    BY <1>10
  <2>2. \A k \in 1 .. N : k \in wrong => k + 1 \in wrong
    <3> SUFFICES ASSUME NEW k \in 1 .. N, value[k + 1] \in Nat PROVE value[k] \in Nat
      BY <1>2
    <3>1. Low(bytes[k]) \in Nat
      BY <1>3
    <3>2. Low(bytes[k]) + Group * value[k + 1] \in Nat
      BY <3>1, GroupType, PlaceType
    <3>3. QED
      BY <1>11, <3>2
  <2>3. wrong \in SUBSET (1 .. N + 1)
    OBVIOUS
  <2> HIDE DEF wrong
  <2>4. wrong = {}
    BY <1>2, <2>1, <2>2, <2>3, Downwards
  <2>5. QED
    BY <2>4 DEF wrong
<1>14. value \in [1 .. N + 1 -> Nat]
  BY <1>12, <1>13
<1>15. QED
  BY <1>9, <1>10, <1>11, <1>14 DEF N

LEMMA NumberType ==
  ASSUME NEW bytes \in Seq(Byte)
  PROVE  Number(bytes) \in Nat
<1>1. 1 \in 1 .. Len(bytes) + 1
  BY LenProperties
<1>2. QED
  BY <1>1, NumberIs

LEMMA NumbersType ==
  ASSUME NEW bytes \in Seq(Byte)
  PROVE  pb_decode_varint(bytes).n \in Nat /\ pb_decode_varint32(bytes).n \in Nat
<1> DEFINE v == Varint(bytes)
           inWord == SubSeq(v, 1, Min({Len(v), GroupsIn(Bits32)}))
<1>1. v \in Seq(Byte) /\ Len(v) \in Nat
  BY VarintType, LenProperties
<1>2. inWord \in Seq(Byte)
  <2>1. GroupsIn(Bits32) \in Nat
    BY WidthsAssumption DEF GroupsIn
  <2> DEFINE two == {Len(v), GroupsIn(Bits32)}
             m == Min(two)
  <2>2. m \in two /\ \A x \in two : m <= x
    <3>1. two \in SUBSET Nat /\ two # {}
      BY <1>1, <2>1
    <3> HIDE DEF two
    <3>2. QED
      BY <3>1, LeastOf
  <2>3. m \in Nat /\ m <= Len(v)
    BY <1>1, <2>1, <2>2
  <2> HIDE DEF m, v
  <2>4. \A i \in 1 .. m : v[i] \in Byte
    <3>1. \A i \in 1 .. m : i \in 1 .. Len(v)
      BY <1>1, <2>3
    <3>2. QED
      BY <1>1, <3>1, ElementOfSeq
  <2>5. SubSeq(v, 1, m) \in Seq(Byte)
    BY <1>1, <2>3, <2>4, SubSeqProperties
  <2>6. QED
    BY <2>5 DEF m
<1>3. Number(v) \in Nat /\ Number(inWord) \in Nat
  BY <1>1, <1>2, NumberType
<1>4. Unsigned(Number(v)) \in Nat
  BY <1>3, WidthType DEF Unsigned
<1>5. Number(inWord) % 2 ^ Bits32 \in Nat
  BY <1>3, WidthType
<1>6. pb_decode_varint(bytes).n \in {Unsigned(Number(v)), 0}
  <2> HIDE DEF v
  <2>1. QED
    BY DEF pb_decode_varint, Failed, v
<1>7. pb_decode_varint32(bytes).n \in {Number(inWord) % 2 ^ Bits32, 0}
  <2> DEFINE good == [ok |-> TRUE, n |-> Number(inWord) % 2 ^ Bits32, took |-> Len(v)]
  <2>1. pb_decode_varint32(bytes) = good \/ pb_decode_varint32(bytes) = Failed
    BY DEF pb_decode_varint32
  <2> HIDE DEF v, inWord
  <2>2. QED
    BY <2>1 DEF Failed
<1>8. QED
  BY <1>4, <1>5, <1>6, <1>7

LEMMA SignedType ==
  ASSUME NEW n \in Nat, NEW bits, 2 ^ bits \in Nat \ {0}
  PROVE  Signed(n, bits) \in Int
<1> DEFINE m == n % 2 ^ bits
<1>1. m \in Int /\ m - 2 ^ bits \in Int
  OBVIOUS
<1>2. Signed(n, bits) \in {m, m - 2 ^ bits}
  BY DEF Signed
<1>3. QED
  BY <1>1, <1>2

LEMMA UnZigZagType ==
  ASSUME NEW n \in Nat
  PROVE  UnZigZag(n) \in Int
BY DEF UnZigZag

(* A byte before the others.                                               *)
LEMMA NumberOfOne ==
  ASSUME NEW b \in Byte
  PROVE  Number(<<b>>) = Low(b)
<1> DEFINE o == <<b>>
<1>1. o \in Seq(Byte) /\ Len(o) = 1 /\ o[1] = b
  BY OneByte
<1> HIDE DEF o
<1>2. PICK value \in [1 .. Len(o) + 1 -> Nat] :
        /\ Number(o) = value[1] /\ value[Len(o) + 1] = 0
        /\ \A k \in 1 .. Len(o) : value[k] = Low(o[k]) + Group * value[k + 1]
  BY <1>1, NumberIs
<1>3. value[1] = Low(b) + Group * value[2] /\ value[2] = 0
  BY <1>1, <1>2
<1>4. Group * 0 = 0 /\ Low(b) \in Int
  <2>1. b \in Nat
    BY ByteType
  <2>2. Low(b) \in 0 .. Group - 1
    BY <2>1, LowType
  <2>3. QED
    BY <2>2, GroupType
<1>5. QED
  BY <1>2, <1>3, <1>4 DEF o

LEMMA NumberOfMore ==
  ASSUME NEW b \in Byte, NEW s \in Seq(Byte)
  PROVE  Number(<<b>> \o s) = Low(b) + Group * Number(s)
<1> DEFINE c == <<b>> \o s
           N == Len(s)
<1>1. /\ c \in Seq(Byte) /\ Len(c) = N + 1 /\ N \in Nat
      /\ c[1] = b /\ \A i \in 1 .. N : c[i + 1] = s[i]
  BY ByteBefore
<1> HIDE DEF c
<1>2. PICK whole \in [1 .. Len(c) + 1 -> Nat] :
        /\ Number(c) = whole[1] /\ whole[Len(c) + 1] = 0
        /\ \A k \in 1 .. Len(c) : whole[k] = Low(c[k]) + Group * whole[k + 1]
  BY <1>1, NumberIs
<1>3. PICK part \in [1 .. N + 1 -> Nat] :
        /\ Number(s) = part[1] /\ part[N + 1] = 0
        /\ \A k \in 1 .. N : part[k] = Low(s[k]) + Group * part[k + 1]
  BY NumberIs
<1> HIDE DEF N
<1> DEFINE wrong == {k \in 1 .. N + 1 : whole[k + 1] # part[k]}
<1>4. N + 1 \notin wrong
  BY <1>1, <1>2, <1>3
<1>5. \A k \in 1 .. N : k \in wrong => k + 1 \in wrong
  <2> SUFFICES ASSUME NEW k \in 1 .. N, whole[(k + 1) + 1] = part[k + 1]
               PROVE  whole[k + 1] = part[k]
    BY <1>1
  <2>1. k + 1 \in 1 .. Len(c)
    BY <1>1
  <2>2. whole[k + 1] = Low(c[k + 1]) + Group * whole[(k + 1) + 1]
    BY <1>2, <2>1
  <2>3. c[k + 1] = s[k]
    BY <1>1
  <2>4. part[k] = Low(s[k]) + Group * part[k + 1]
    BY <1>3
  <2>5. QED
    BY <2>2, <2>3, <2>4
<1>6. wrong \in SUBSET (1 .. N + 1)
  OBVIOUS
<1> HIDE DEF wrong
<1>7. wrong = {}
  BY <1>1, <1>4, <1>5, <1>6, Downwards
<1>8. whole[2] = part[1]
  <2>1. 1 \in 1 .. N + 1 /\ 1 + 1 = 2
    BY <1>1
  <2>2. QED
    BY <1>7, <2>1 DEF wrong
<1>9. whole[1] = Low(c[1]) + Group * whole[2]
  <2>1. 1 \in 1 .. Len(c)
    BY <1>1
  <2>2. QED
    BY <1>2, <2>1
<1>10. QED
  BY <1>1, <1>2, <1>3, <1>8, <1>9 DEF c

LEMMA NumberOfEncoded ==
  ASSUME NEW n \in Nat
  PROVE  Number(pb_encode_varint[n]) = n
<1> DEFINE e == pb_encode_varint
           wrong == {k \in Nat : Number(e[k]) # k}
<1>1. SUFFICES ASSUME wrong # {} PROVE FALSE
  OBVIOUS
<1>2. PICK k \in wrong : \A l \in wrong : k <= l
  BY <1>1, Least
<1>3. e[k] = Encoding(e, k) /\ \A l \in Nat : e[l] \in Seq(Byte)
  BY <1>2, EncodingIs
<1> HIDE DEF e
<1>4. CASE k < Group
  <2>1. k \in Byte
    BY <1>2, <1>4, GroupType DEF Byte
  <2>2. Low(k) = k
    <3>1. \A m \in Nat \ {0} : k < m => k % m = k
      BY <1>2
    <3>2. QED
      BY <1>4, <3>1, GroupType DEF Low
  <2>3. Number(<<k>>) = k
    BY <2>1, <2>2, NumberOfOne
  <2>4. QED
    BY <1>2, <1>3, <1>4, <2>3 DEF Encoding
<1>5. CASE ~(k < Group)
  <2> DEFINE b == Low(k) + Group
             l == k \div Group
  <2>1. e[k] = <<b>> \o e[l]
    BY <1>3, <1>5 DEF Encoding
  <2>2. l \in Nat /\ Number(e[l]) = l
    <3>1. l \in 0 .. k - 1
      BY <1>2, <1>5, Shorter, GroupType
    <3>2. l \in Nat /\ l \notin wrong
      BY <1>2, <3>1
    <3>3. QED
      BY <3>2
  <2>3. Low(k) \in 0 .. Group - 1 /\ Group \in Nat
    BY <1>2, LowType, GroupType
  <2>4. b \in Byte
    <3>1. b \in 0 .. 2 * Group - 1
      BY <2>3
    <3>2. QED
      BY <3>1 DEF Byte
  <2>5. Low(b) = Low(k)
    <3>1. \A m \in Nat \ {0} : \A r \in 0 .. m - 1 : (m * 1 + r) % m = r
      OBVIOUS
    <3>2. b = Group * 1 + Low(k)
      BY <2>3
    <3>3. Low(b) = b % Group
      BY DEF Low
    <3> DEFINE r == Low(k)
    <3> HIDE DEF b, r
    <3>4. QED
      BY <2>3, <3>1, <3>2, <3>3, GroupType DEF r
  <2>6. Group * l + Low(k) = k
    <3>1. \A m \in Nat \ {0} : (k \div m) * m + (k % m) = k
      BY <1>2
    <3>2. (k \div Group) * Group + (k % Group) = k
      BY <3>1, GroupType
    <3> HIDE DEF l
    <3>3. l * Group = Group * l
      BY <2>2, GroupType
    <3>4. QED
      BY <2>2, <3>2, <3>3, GroupType DEF l, Low
  <2> HIDE DEF b, l
  <2>7. Number(<<b>> \o e[l]) = Low(b) + Group * Number(e[l])
    BY <1>3, <2>2, <2>4, NumberOfMore
  <2> DEFINE x == Group * l
  <2>8. x \in Nat /\ Number(e[k]) = Low(k) + x /\ x + Low(k) = k
    BY <2>1, <2>2, <2>5, <2>6, <2>7, GroupType
  <2> HIDE DEF x
  <2>9. Number(e[k]) = k
    BY <2>3, <2>8
  <2>10. QED
    BY <1>2, <2>9
<1>6. QED
  BY <1>4, <1>5

-----------------------------------------------------------------------------
(* How many bytes a number takes, and what its last one can be.            *)
Short(v, k, c) == Len(v) <= k + 1 /\ (Len(v) = k + 1 => v[Len(v)] < c)

LEMMA PlaceIs ==
  ASSUME NEW k \in 1 .. Bits64 \div GroupBits
  PROVE  /\ 2 ^ (GroupBits * (k - 1)) \in Nat \ {0}
         /\ 2 ^ (GroupBits * k) = Group * 2 ^ (GroupBits * (k - 1))
<1> DEFINE a == GroupBits * (k - 1)
<1>1. GroupBits \in Nat \ {0} /\ Bits64 \in Nat
  BY BitsType
<1>2. GroupBits * (Bits64 \div GroupBits) <= Bits64 /\ Bits64 \div GroupBits \in Nat
  <2>1. \A m \in Nat \ {0} : (Bits64 \div m) * m + (Bits64 % m) = Bits64
                            /\ Bits64 % m \in 0 .. m - 1 /\ Bits64 \div m \in Nat
    BY <1>1
  <2>2. (Bits64 \div GroupBits) * GroupBits + (Bits64 % GroupBits) = Bits64
        /\ Bits64 % GroupBits \in 0 .. GroupBits - 1 /\ Bits64 \div GroupBits \in Nat
    BY <1>1, <2>1
  <2> DEFINE q == Bits64 \div GroupBits
             r == Bits64 % GroupBits
  <2> HIDE DEF q, r
  <2>3. q * GroupBits = GroupBits * q /\ q * GroupBits + r = Bits64 /\ r \in 0 .. GroupBits - 1 /\ q \in Nat
    BY <1>1, <2>2 DEF q, r
  <2>4. GroupBits * q <= Bits64
    BY <1>1, <2>3
  <2>5. QED
    BY <2>3, <2>4 DEF q
<1>3. a \in Nat /\ GroupBits * k = a + GroupBits /\ GroupBits * k <= Bits64
  <2> DEFINE q == Bits64 \div GroupBits
  <2>1. q \in Nat /\ GroupBits * q <= Bits64 /\ k \in 1 .. q
    BY <1>2
  <2> HIDE DEF q
  <2>2. GroupBits * k <= GroupBits * q
    BY <1>1, <2>1
  <2>3. a \in Nat /\ GroupBits * k = a + GroupBits
    BY <1>1, <2>1
  <2>4. QED
    BY <1>1, <2>1, <2>2, <2>3
<1> HIDE DEF a
<1>4. a + GroupBits <= Bits /\ a \in 0 .. Bits
  BY <1>1, <1>3 DEF Bits
<1>5. 2 ^ (a + GroupBits) = 2 ^ a * 2 ^ GroupBits
  BY <1>1, <1>3, <1>4, PowerSum
<1>6. 2 ^ a \in Nat \ {0}
  BY <1>4, PowerType
<1>7. 2 ^ a * 2 ^ GroupBits = Group * 2 ^ a
  <2> DEFINE x == 2 ^ a
  <2>1. x \in Nat /\ 2 ^ GroupBits = Group
    BY <1>6 DEF Group
  <2> HIDE DEF x
  <2>2. x * Group = Group * x
    BY <2>1, GroupType
  <2>3. QED
    BY <2>1, <2>2 DEF x
<1>8. QED
  BY <1>3, <1>5, <1>6, <1>7 DEF a

LEMMA EncodedLength ==
  ASSUME NEW n \in Nat, NEW k \in 0 .. Bits64 \div GroupBits, NEW c \in 1 .. Group,
         n < 2 ^ (GroupBits * k) * c
  PROVE  Short(pb_encode_varint[n], k, c)
<1> DEFINE e == pb_encode_varint
           K == Bits64 \div GroupBits
           wrong == {m \in Nat : \E j \in 0 .. K :
                       m < 2 ^ (GroupBits * j) * c /\ ~Short(e[m], j, c)}
<1>1. SUFFICES ASSUME wrong # {} PROVE FALSE
  OBVIOUS
<1>2. PICK m \in wrong : \A l \in wrong : m <= l
  BY <1>1, Least
<1>3. PICK j \in 0 .. K : m < 2 ^ (GroupBits * j) * c /\ ~Short(e[m], j, c)
  BY <1>2
<1>4. e[m] = Encoding(e, m) /\ \A l \in Nat : e[l] \in Seq(Byte) /\ Len(e[l]) \in Nat \ {0}
  BY <1>2, EncodingIs, EncodedEnds DEF Ended
<1>5. \A l \in Nat : l < m => l \notin wrong
  BY <1>2
<1>6. Group \in Nat \ {0} /\ m \in Nat /\ GroupBits \in Nat /\ c \in Nat
  BY <1>2, BitsType, GroupType
<1> HIDE DEF e
<1>7. j = 0 => m < c
  <2> HAVE j = 0
  <2>1. GroupBits * j = 0 /\ 2 ^ 0 = 1
    BY <1>6
  <2>2. 2 ^ (GroupBits * j) = 1
    BY <2>1
  <2>3. QED
    BY <1>3, <1>6, <2>2
<1>8. CASE m < Group
  <2>1. e[m] = <<m>>
    BY <1>4, <1>8 DEF Encoding
  <2>2. Len(<<m>>) = 1 /\ <<m>>[1] = m
    OBVIOUS
  <2>3. Short(e[m], j, c)
    BY <1>7, <2>1, <2>2 DEF Short
  <2>4. QED
    BY <1>3, <2>3
<1>9. CASE ~(m < Group)
  <2> DEFINE b == Low(m) + Group
             l == m \div Group
             P == 2 ^ (GroupBits * (j - 1))
  <2>1. e[m] = <<b>> \o e[l]
    BY <1>4, <1>9 DEF Encoding
  <2>2. l \in 0 .. m - 1
    BY <1>6, <1>9, Shorter
  <2>3. b \in Byte
    <3>1. Low(m) \in 0 .. Group - 1
      BY <1>6, LowType
    <3>2. b \in 0 .. 2 * Group - 1
      BY <1>6, <3>1
    <3>3. QED
      BY <3>2 DEF Byte
  <2>4. j \in 1 .. K
    BY <1>6, <1>7, <1>9
  <2>5. P \in Nat \ {0} /\ 2 ^ (GroupBits * j) = Group * P
    BY <2>4, PlaceIs
  <2>6. l < P * c
    <3> HIDE DEF P, l
    <3>1. m < Group * (P * c)
      <4>1. (Group * P) * c = Group * (P * c)
        BY <1>6, <2>5
      <4>2. QED
        BY <1>3, <2>5, <4>1
    <3>2. P * c \in Nat \ {0}
      BY <1>6, <2>5
    <3> DEFINE x == P * c
    <3>3. x \in Nat \ {0} /\ m < Group * x
      BY <3>1, <3>2
    <3> HIDE DEF x
    <3>4. \A g \in Nat \ {0} : \A y \in Nat \ {0} : m < g * y => m \div g < y
      BY <1>6
    <3>5. m \div Group < x
      BY <1>6, <3>3, <3>4
    <3>6. QED
      BY <3>5 DEF x, l
  <2>7. Short(e[l], j - 1, c)
    <3>1. l \in Nat /\ l < m
      <4> HIDE DEF l
      <4>1. QED
        BY <1>6, <2>2
    <3>2. l \notin wrong
      <4> HIDE DEF l, wrong
      <4>1. QED
        BY <1>5, <3>1
    <3>3. j - 1 \in 0 .. K
      <4>1. K \in Int
        <5>1. \A x \in Nat : \A y \in Nat \ {0} : x \div y \in Int
          OBVIOUS
        <5>2. QED
          BY <5>1, BitsType
      <4> HIDE DEF K
      <4>2. QED
        BY <2>4, <4>1
    <3>4. QED
      BY <2>6, <3>1, <3>2, <3>3
  <2> HIDE DEF b, l
  <2> DEFINE s == e[l]
             v == <<b>> \o s
  <2>8. l \in Nat /\ s \in Seq(Byte) /\ Len(s) \in Nat \ {0}
    BY <1>4, <1>6, <2>2
  <2>9. Short(s, j - 1, c)
    BY <2>7
  <2> HIDE DEF s
  <2>10. Len(v) = Len(s) + 1 /\ v[Len(s) + 1] = s[Len(s)]
    <3>1. Len(s) \in 1 .. Len(s)
      BY <2>8
    <3>2. QED
      BY <2>3, <2>8, <3>1, ByteBefore
  <2> HIDE DEF v
  <2>11. Short(v, j, c)
    BY <2>4, <2>8, <2>9, <2>10 DEF Short
  <2>12. QED
    BY <1>3, <2>1, <2>11 DEF s, v
<1>10. QED
  BY <1>8, <1>9

LEMMA WidthSplit ==
  ASSUME NEW bits \in {Bits32, Bits64}
  PROVE  /\ bits \div GroupBits \in 0 .. Bits64 \div GroupBits
         /\ 2 ^ (bits % GroupBits) \in 1 .. Group
         /\ 2 ^ bits = 2 ^ (GroupBits * (bits \div GroupBits)) * 2 ^ (bits % GroupBits)
<1> DEFINE k == bits \div GroupBits
           r == bits % GroupBits
<1>1. bits \in Nat /\ bits <= Bits64 /\ Bits64 \in Nat /\ GroupBits \in Nat \ {0} /\ bits <= Bits
      /\ GroupBits <= Bits /\ Bits \in Nat
  BY BitsType
<1>2. k \in 0 .. Bits64 \div GroupBits
  <2>1. \A m \in Nat \ {0} : bits \div m \in Nat /\ Bits64 \div m \in Nat /\ bits \div m <= Bits64 \div m
    BY <1>1
  <2>2. QED
    BY <1>1, <2>1
<1>3. k \in Nat /\ r \in 0 .. GroupBits - 1 /\ k * GroupBits + r = bits
  <2>1. \A m \in Nat \ {0} : (bits \div m) * m + (bits % m) = bits
                            /\ bits % m \in 0 .. m - 1 /\ bits \div m \in Nat
    BY <1>1
  <2>2. (bits \div GroupBits) * GroupBits + (bits % GroupBits) = bits
        /\ bits % GroupBits \in 0 .. GroupBits - 1 /\ bits \div GroupBits \in Nat
    BY <1>1, <2>1
  <2>3. QED
    BY <2>2
<1> HIDE DEF k, r
<1>4. GroupBits * k \in Nat /\ GroupBits * k + r = bits
  BY <1>1, <1>3
<1>5. 2 ^ bits = 2 ^ (GroupBits * k) * 2 ^ r
  <2> DEFINE a == GroupBits * k
  <2>1. a \in Nat /\ a + r = bits
    BY <1>4
  <2> HIDE DEF a
  <2>2. r \in Nat /\ a + r <= Bits
    BY <1>1, <1>3, <2>1
  <2>3. 2 ^ (a + r) = 2 ^ a * 2 ^ r
    BY <2>1, <2>2, PowerSum
  <2>4. QED
    BY <2>1, <2>3 DEF a
<1>6. 2 ^ r \in 1 .. Group
  <2> DEFINE s == GroupBits - r
  <2>1. r \in Nat /\ s \in Nat /\ r + s = GroupBits /\ r \in 0 .. Bits /\ s \in 0 .. Bits
    BY <1>1, <1>3
  <2> HIDE DEF s
  <2>2. r + s <= Bits
    BY <1>1, <2>1
  <2>3. 2 ^ (r + s) = 2 ^ r * 2 ^ s
    BY <2>1, <2>2, PowerSum
  <2> DEFINE x == 2 ^ r
             y == 2 ^ s
  <2>4. x \in Nat \ {0} /\ y \in Nat \ {0}
    BY <2>1, PowerType
  <2>5. Group = x * y
    BY <2>1, <2>3 DEF Group
  <2> HIDE DEF x, y
  <2>6. x \in 1 .. x * y
    BY <2>4
  <2>7. QED
    BY <2>5, <2>6 DEF x
<1>7. QED
  BY <1>2, <1>5, <1>6 DEF k, r

LEMMA WrittenLength ==
  ASSUME NEW bits \in {Bits32, Bits64}, NEW n \in 0 .. 2 ^ bits - 1
  PROVE  Short(pb_encode_varint[n], bits \div GroupBits, 2 ^ (bits % GroupBits))
<1> DEFINE k == bits \div GroupBits
           c == 2 ^ (bits % GroupBits)
<1>1. k \in 0 .. Bits64 \div GroupBits /\ c \in 1 .. Group
      /\ 2 ^ bits = 2 ^ (GroupBits * k) * c
  BY WidthSplit
<1>2. 2 ^ bits \in Nat
  BY WidthType
<1> HIDE DEF k, c
<1>3. n \in Nat /\ n < 2 ^ (GroupBits * k) * c
  BY <1>1, <1>2
<1>4. Short(pb_encode_varint[n], k, c)
  BY <1>1, <1>3, EncodedLength
<1>5. QED
  BY <1>4 DEF k, c

(* What a number is read as, whatever comes after it.                      *)
LEMMA VarintComesBack ==
  ASSUME NEW n \in 0 .. 2 ^ Bits64 - 1, NEW rest \in Seq(Byte)
  PROVE  pb_decode_varint(pb_encode_varint[n] \o rest)
           = [ok |-> TRUE, n |-> n, took |-> Len(pb_encode_varint[n])]
<1> DEFINE v == pb_encode_varint[n]
<1>1. n \in Nat /\ 2 ^ Bits64 \in Nat \ {0}
  BY WidthType
<1>2. Ended(v) /\ Number(v) = n
  BY <1>1, EncodedEnds, NumberOfEncoded
<1>3. Short(v, Bits64 \div GroupBits, 2 ^ (Bits64 % GroupBits))
  BY WrittenLength
<1> HIDE DEF v
<1>4. Varint(v \o rest) = v
  BY <1>2, VarintFound
<1>5. Len(v) \in 1 .. GroupsIn(Bits64)
  <2>1. Len(v) \in Nat \ {0} /\ Len(v) <= Bits64 \div GroupBits + 1
    BY <1>2, <1>3 DEF Ended, Short
  <2>2. Bits64 \div GroupBits \in Int
    <3>1. \A x \in Nat : \A y \in Nat \ {0} : x \div y \in Int
      OBVIOUS
    <3>2. QED
      BY <3>1, BitsType
  <2>3. QED
    BY <2>1, <2>2 DEF GroupsIn
<1>6. Unsigned(Number(v)) = n
  <2>1. \A m \in Nat \ {0} : n \in 0 .. m - 1 => n % m = n
    OBVIOUS
  <2>2. n % 2 ^ Bits64 = n
    BY <1>1, <2>1
  <2>3. QED
    BY <1>2, <2>2 DEF Unsigned
<1>7. QED
  BY <1>4, <1>5, <1>6 DEF pb_decode_varint, v

LEMMA Varint32ComesBack ==
  ASSUME NEW n \in 0 .. 2 ^ Bits32 - 1, NEW rest \in Seq(Byte)
  PROVE  pb_decode_varint32(pb_encode_varint[n] \o rest)
           = [ok |-> TRUE, n |-> n, took |-> Len(pb_encode_varint[n])]
<1> DEFINE v == pb_encode_varint[n]
           c == 2 ^ (Bits32 % GroupBits)
           K == GroupsIn(Bits32)
           inWord == SubSeq(v, 1, Min({Len(v), K}))
<1>1. n \in Nat /\ 2 ^ Bits32 \in Nat \ {0}
  BY WidthType
<1>2. Ended(v) /\ Number(v) = n
  BY <1>1, EncodedEnds, NumberOfEncoded
<1>3. Short(v, Bits32 \div GroupBits, c)
  BY WrittenLength
<1>4. c \in 1 .. Group
  BY WidthSplit
<1> HIDE DEF v, c
<1>5. Varint(v \o rest) = v
  BY <1>2, VarintFound
<1>6. v \in Seq(Byte) /\ Len(v) \in Nat \ {0} /\ K \in Int /\ Len(v) <= K /\ (Len(v) = K => v[Len(v)] < c)
  <2>1. Len(v) \in Nat \ {0} /\ Len(v) <= Bits32 \div GroupBits + 1
        /\ (Len(v) = Bits32 \div GroupBits + 1 => v[Len(v)] < c)
    BY <1>2, <1>3 DEF Ended, Short
  <2>2. Bits32 \div GroupBits \in Int
    <3>1. \A x \in Nat : \A y \in Nat \ {0} : x \div y \in Int
      OBVIOUS
    <3>2. QED
      BY <3>1, BitsType
  <2>3. QED
    BY <1>2, <2>1, <2>2 DEF GroupsIn, Ended
<1>7. inWord = v
  <2>1. Min({Len(v), K}) = Len(v)
    <3> HIDE DEF K
    <3>1. {Len(v), K} \in SUBSET Nat /\ Len(v) \in {Len(v), K}
      BY <1>6
    <3>2. Min({Len(v), K}) \in {Len(v), K} /\ \A x \in {Len(v), K} : Min({Len(v), K}) <= x
      BY <3>1, LeastOf
    <3>3. QED
      BY <1>6, <3>2
  <2> DEFINE w == SubSeq(v, 1, Len(v))
  <2>2. 1 \in Int /\ Len(v) \in Int /\ \A i \in 1 .. Len(v) : v[i] \in Byte
    BY <1>6, ElementOfSeq
  <2>3. w \in Seq(Byte) /\ Len(w) = Len(v) /\ \A i \in 1 .. Len(v) : w[i] = v[i]
    BY <1>6, <2>2, SubSeqProperties
  <2> HIDE DEF w
  <2>4. w = v
    BY <1>6, <2>3, SeqEqual
  <2>5. QED
    BY <2>1, <2>4 DEF w
<1>8. Number(v) % 2 ^ Bits32 = n
  <2>1. \A m \in Nat \ {0} : n \in 0 .. m - 1 => n % m = n
    OBVIOUS
  <2>2. QED
    BY <1>1, <1>2, <2>1
<1>9. Len(v) = K => Low(Last(v)) < c
  <2> HAVE Len(v) = K
  <2>1. v[Len(v)] \in Nat /\ v[Len(v)] < c
    <3>1. Len(v) \in 1 .. Len(v)
      BY <1>6
    <3>2. v[Len(v)] \in Byte
      BY <1>6, <3>1, ElementOfSeq
    <3>3. QED
      BY <1>6, <3>2, ByteType
  <2>2. \A m \in Nat \ {0} : \A x \in Nat : x < m => x % m = x
    OBVIOUS
  <2>3. v[Len(v)] % Group = v[Len(v)]
    BY <1>4, <2>1, <2>2, GroupType
  <2>4. QED
    BY <2>1, <2>3 DEF Low, Last
<1>10. K + 1 .. Len(v) = {} /\ v # <<>>
  <2>1. v # <<>>
    BY <1>6
  <2> HIDE DEF K
  <2>2. QED
    BY <1>6, <2>1
<1> HIDE DEF K
<1>11. QED
  BY <1>5, <1>7, <1>8, <1>9, <1>10 DEF pb_decode_varint32, v, c, K

-----------------------------------------------------------------------------
(* The words: half of one, and one within the other.                       *)
LEMMA Half ==
  ASSUME NEW bits \in {Bits32, Bits64}
  PROVE  2 ^ (bits - 1) \in Nat \ {0} /\ 2 ^ bits = 2 * 2 ^ (bits - 1)
<1>1. bits - 1 \in 0 .. Bits /\ bits - 1 \in Nat /\ bits - 1 < Bits /\ (bits - 1) + 1 = bits
  BY BitsType
<1>2. 2 ^ ((bits - 1) + 1) = 2 * 2 ^ (bits - 1)
  BY <1>1, Twice
<1>3. QED
  BY <1>1, <1>2, PowerType

LEMMA WordInWord ==
  \E q \in Nat \ {0} : 2 ^ Bits64 = 2 ^ Bits32 * q
<1> DEFINE b == Bits64 - Bits32
<1>1. Bits32 \in Nat /\ b \in Nat /\ b \in 0 .. Bits /\ Bits32 + b = Bits64 /\ Bits64 <= Bits
  BY BitsType
<1> HIDE DEF b
<1>2. Bits32 + b <= Bits
  BY <1>1
<1>3. 2 ^ (Bits32 + b) = 2 ^ Bits32 * 2 ^ b
  BY <1>1, <1>2, PowerSum
<1>4. 2 ^ b \in Nat \ {0}
  BY <1>1, PowerType
<1>5. QED
  BY <1>1, <1>3, <1>4

LEMMA UnsignedIs ==
  ASSUME NEW n \in -2 ^ (Bits64 - 1) .. 2 ^ (Bits64 - 1) - 1
  PROVE  /\ Unsigned(n) = IF n < 0 THEN n + 2 ^ Bits64 ELSE n
         /\ Unsigned(n) \in 0 .. 2 ^ Bits64 - 1
<1> DEFINE M == 2 ^ Bits64
           H == 2 ^ (Bits64 - 1)
<1>1. H \in Nat \ {0} /\ M = 2 * H /\ n \in -H .. H - 1
  BY Half
<1>2. Unsigned(n) = n % M
  BY DEF Unsigned
<1> HIDE DEF M, H
<1>3. M \in Nat \ {0} /\ n \in -M .. M - 1
  BY <1>1
<1>4. \A m \in Nat \ {0} : n \in -m .. -1 => n % m = n + m
  OBVIOUS
<1>5. \A m \in Nat \ {0} : n \in 0 .. m - 1 => n % m = n
  OBVIOUS
<1>6. n < 0 => n % M = n + M
  <2> HAVE n < 0
  <2>1. n \in -M .. -1
    BY <1>3
  <2>2. n % M = n + M
    BY <1>3, <1>4, <2>1
  <2>3. QED
    BY <2>2
<1>7. ~(n < 0) => n % M = n
  BY <1>3, <1>5
<1>8. QED
  BY <1>2, <1>3, <1>6, <1>7 DEF M

LEMMA SignedIs ==
  ASSUME NEW bits \in {Bits32, Bits64}, NEW q \in Nat \ {0}, 2 ^ Bits64 = 2 ^ bits * q,
         NEW n \in -2 ^ (bits - 1) .. 2 ^ (bits - 1) - 1
  PROVE  /\ Signed(Unsigned(n), bits) = n
         /\ n \in -2 ^ (Bits64 - 1) .. 2 ^ (Bits64 - 1) - 1
<1> DEFINE M == 2 ^ Bits64
           W == 2 ^ bits
           H == 2 ^ (bits - 1)
           T == 2 ^ (Bits64 - 1)
           u == Unsigned(n)
<1>1. H \in Nat \ {0} /\ W = 2 * H /\ n \in -H .. H - 1
  BY Half
<1>2. T \in Nat \ {0} /\ M = 2 * T
  BY Half
<1>3. M = W * q
  OBVIOUS
<1>4. u = n % M /\ Signed(u, bits) = IF u % W < H THEN u % W ELSE (u % W) - W
  BY DEF Unsigned, Signed
<1>5. n \in -T .. T - 1
  <2> HIDE DEF M, W, H, T
  <2>1. W * q >= W
    BY <1>1
  <2>2. T >= H
    BY <1>1, <1>2, <1>3, <2>1
  <2>3. QED
    BY <1>1, <1>2, <2>2
<1>6. u = IF n < 0 THEN n + M ELSE n
  BY <1>5, UnsignedIs
<1> HIDE DEF M, W, H, T, u
<1>7. W \in Nat \ {0} /\ n \in -W .. W - 1
  BY <1>1
<1>8. \A m \in Nat \ {0} : \A r \in 0 .. m - 1 : \A k \in Nat : (m * k + r) % m = r
  OBVIOUS
<1>9. CASE n < 0
  <2>1. n + W \in 0 .. W - 1 /\ q - 1 \in Nat
    BY <1>7, <1>9
  <2>2. u = W * (q - 1) + (n + W)
    <3>1. W * (q - 1) = W * q - W
      BY <1>7
    <3> DEFINE x == W * q
    <3>2. x \in Int /\ W * (q - 1) = x - W /\ M = x
      BY <1>3, <1>7, <3>1
    <3> HIDE DEF x
    <3>3. u = n + M
      BY <1>6, <1>9
    <3>4. QED
      BY <1>7, <3>2, <3>3
  <2>3. (W * (q - 1) + (n + W)) % W = n + W
    BY <1>7, <1>8, <2>1
  <2>4. u % W = n + W
    BY <2>2, <2>3
  <2>5. QED
    BY <1>1, <1>4, <1>5, <1>9, <2>4 DEF T, H, u
<1>10. CASE ~(n < 0)
  <2>1. u = n /\ n \in 0 .. W - 1
    BY <1>6, <1>7, <1>10
  <2>2. \A m \in Nat \ {0} : \A i \in 0 .. m - 1 : i % m = i
    OBVIOUS
  <2>3. u % W = n
    BY <1>7, <2>1, <2>2
  <2>4. QED
    BY <1>1, <1>4, <1>5, <1>10, <2>3 DEF T, H, u
<1>11. QED
  BY <1>9, <1>10

LEMMA ZigZagIs ==
  ASSUME NEW n \in -2 ^ (Bits64 - 1) .. 2 ^ (Bits64 - 1) - 1
  PROVE  UnZigZag(ZigZag(n)) = n /\ ZigZag(n) \in 0 .. 2 ^ Bits64 - 1
<1> DEFINE M == 2 ^ Bits64
           H == 2 ^ (Bits64 - 1)
<1>1. H \in Nat \ {0} /\ M = 2 * H /\ n \in -H .. H - 1
  BY Half
<1> HIDE DEF M, H
<1>2. n \in Int
  BY <1>1
<1>3. CASE n < 0
  <2>1. (-2 * n - 1) % 2 = 1 /\ (-2 * n - 1) \div 2 = -n - 1
    BY <1>2
  <2>2. ZigZag(n) = -2 * n - 1
    BY <1>3 DEF ZigZag
  <2>3. UnZigZag(-2 * n - 1) = n
    BY <1>2, <2>1 DEF UnZigZag
  <2>4. -2 * n - 1 \in 0 .. M - 1
    BY <1>1, <1>3
  <2>5. QED
    BY <2>2, <2>3, <2>4 DEF M
<1>4. CASE ~(n < 0)
  <2>1. (2 * n) % 2 = 0 /\ (2 * n) \div 2 = n
    BY <1>2
  <2>2. ZigZag(n) = 2 * n
    BY <1>4 DEF ZigZag
  <2>3. UnZigZag(2 * n) = n
    BY <1>2, <2>1 DEF UnZigZag
  <2>4. 2 * n \in 0 .. M - 1
    BY <1>1, <1>4
  <2>5. QED
    BY <2>2, <2>3, <2>4 DEF M
<1>5. QED
  BY <1>3, <1>4
=============================================================================
