-------------------------------- MODULE PbWire --------------------------------
(***************************************************************************)
(* The numbers of a Protocol Buffers message, as nanopb (pb_encode.c and   *)
(* pb_decode.c, used by GoogleDataTransport in the iOS application) writes *)
(* and reads them: groups of seven bits, the lowest first, each in a byte  *)
(* whose top bit says that another follows.  The widths are parameters so  *)
(* that every case is met with short messages.                             *)
(***************************************************************************)
EXTENDS Integers, SequencesExt

CONSTANTS
  GroupBits,  \* the bits of a number in a byte (7)
  Bits32,     \* the width of a uint32_t (32)
  Bits64      \* the width of a uint64_t (64)

ASSUME WidthsAssumption ==
  /\ {GroupBits, Bits32, Bits64} \subseteq Nat \ {0}
  /\ GroupBits < Bits32 /\ Bits32 < Bits64
  /\ Bits32 % GroupBits # 0 /\ Bits64 % GroupBits # 0

Group == 2 ^ GroupBits
Byte  == 0 .. 2 * Group - 1

Low(b)  == b % Group     \* byte & 0x7F
More(b) == b >= Group    \* byte & 0x80

(* The groups a number of some width takes, the last one in part.          *)
GroupsIn(bits) == bits \div GroupBits + 1

(* The provers know no powers.                                             *)
ASSUME PowersAssumption ==
  \A a \in 0 .. Bits64 + GroupBits : 2 ^ (a + 1) = 2 * 2 ^ a

(* Writing.  A negative number is written as the 64 bits that stand for    *)
(* it.                                                                     *)
pb_encode_varint[n \in Nat] ==
  IF n < Group THEN <<n>>
  ELSE <<Low(n) + Group>> \o pb_encode_varint[n \div Group]

Unsigned(n) == n % 2 ^ Bits64
ZigZag(n)   == IF n < 0 THEN -2 * n - 1 ELSE 2 * n

-----------------------------------------------------------------------------
(* Reading.  A result has `ok`, and when it is TRUE, the number and the    *)
(* bytes it took.                                                          *)
Failed == [ok |-> FALSE, n |-> 0, took |-> 0]

(* The bytes up to the first without the top bit, if the stream has one.   *)
Ends(bytes) ==
  {k \in DOMAIN bytes : ~More(bytes[k]) /\ \A i \in 1 .. k - 1 : More(bytes[i])}

Varint(bytes) ==
  IF Ends(bytes) = {} THEN <<>>
  ELSE SubSeq(bytes, 1, CHOOSE k \in Ends(bytes) : TRUE)

Number(bytes) == FoldRight(LAMBDA b, n : Low(b) + Group * n, bytes, 0)

(* Bits above the 64th are dropped, an eleventh byte is refused.           *)
pb_decode_varint(bytes) ==
  LET v == Varint(bytes)
  IN  IF Len(v) \in 1 .. GroupsIn(Bits64)
      THEN [ok |-> TRUE, n |-> Unsigned(Number(v)), took |-> Len(v)]
      ELSE Failed

(* Groups above the 32nd bit are padding, or extend the sign.  The group   *)
(* across the 32nd bit loses its upper bits, which are checked only if it  *)
(* is the last one.                                                        *)
pb_decode_varint32(bytes) ==
  LET v      == Varint(bytes)
      inWord == SubSeq(v, 1, Min({Len(v), GroupsIn(Bits32)}))
      n      == Number(inWord) % 2 ^ Bits32
      Sign(i) == IF (i - 1) * GroupBits < Bits64 - 1 THEN 2 * Group - 1 ELSE 1
      Pads(i) == \/ Low(v[i]) = 0
                 \/ n >= 2 ^ (Bits32 - 1) /\ v[i] = Sign(i)
  IN  IF /\ v # <<>>
         /\ \A i \in GroupsIn(Bits32) + 1 .. Len(v) : Pads(i)
         /\ Len(v) = GroupsIn(Bits32)
              => Low(Last(v)) < 2 ^ (Bits32 % GroupBits)
      THEN [ok |-> TRUE, n |-> n, took |-> Len(v)]
      ELSE Failed

(* Wrong: the smallest number becomes the largest (NumbersArrive).         *)
SignedLate(n, bits) ==
  LET m == n % 2 ^ bits IN IF m <= 2 ^ (bits - 1) THEN m ELSE m - 2 ^ bits

(* A number of `bits` bits as a signed one.                                *)
Signed(n, bits) ==
  LET m == n % 2 ^ bits IN IF m < 2 ^ (bits - 1) THEN m ELSE m - 2 ^ bits

UnZigZag(n) == IF n % 2 = 1 THEN -(n \div 2) - 1 ELSE n \div 2
=============================================================================
