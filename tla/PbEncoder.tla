------------------------------- MODULE PbEncoder -------------------------------
(***************************************************************************)
(* nanopb's encoder (pb_encode.c), with which the iOS application writes   *)
(* its logs and diagnostics.  A stream without a callback only counts; the *)
(* length of what a length stands before is found by encoding it on such a *)
(* stream first.  A stream that has failed (ok is FALSE) is left as it is: *)
(* every caller returns at once.                                           *)
(***************************************************************************)
EXTENDS PbMessage

Stream == [callback : BOOLEAN, max_size : Nat, written : Nat,
           out : Seq(Byte), ok : BOOLEAN]

Sizing == [callback |-> FALSE, max_size |-> 0, written |-> 0,
           out |-> <<>>, ok |-> TRUE]
Buffer(n) == [Sizing EXCEPT !.callback = TRUE, !.max_size = n]

(* pb_write of n bytes, or of a NULL buffer when only counting.            *)
Counting(stream, n) ==
  IF stream.ok THEN [stream EXCEPT !.written = @ + n] ELSE stream

pb_write(stream, bytes) ==
  IF ~stream.ok \/ ~stream.callback THEN Counting(stream, Len(bytes))
  ELSE IF stream.written + Len(bytes) > stream.max_size
       THEN [stream EXCEPT !.ok = FALSE]
       ELSE [stream EXCEPT !.written = @ + Len(bytes), !.out = @ \o bytes]

EncodeNumber(stream, n) == pb_write(stream, pb_encode_varint[n])

pb_encode_tag(stream, wireType, f) == EncodeNumber(stream, 8 * f.tag + wireType)

(* pb_enc_bool, pb_enc_varint, pb_enc_uvarint, pb_enc_svarint              *)
EncodeScalar(stream, kind, n) == EncodeNumber(stream, Written(kind, n))

pb_encode_string(stream, bytes) ==
  pb_write(EncodeNumber(stream, Len(bytes)), bytes)

(* A loop that writes: functions of a stream, one after the other.         *)
WriteEach(stream, writers) ==
  FoldLeft(LAMBDA s, write : write[s], stream, writers)

EncodeItems(stream, kind, items) ==
  WriteEach(stream, [i \in DOMAIN items |->
                       [s \in Stream |-> EncodeScalar(s, kind, items[i])]])

(* Wrong: the elements are counted, not their bytes (RoundTrip).           *)
EncodePackedByCount(stream, f, items) ==
  LET started == EncodeNumber(pb_encode_tag(stream, 2, f), Len(items))
  IN  IF stream.callback THEN EncodeItems(started, f.kind, items)
      ELSE Counting(started, EncodeItems(Sizing, f.kind, items).written)

(* encode_array of numbers: always packed, after a pass that counts.       *)
EncodePacked(stream, f, items) ==
  LET size    == EncodeItems(Sizing, f.kind, items).written
      started == EncodeNumber(pb_encode_tag(stream, 2, f), size)
  IN  IF stream.callback THEN EncodeItems(started, f.kind, items)
      ELSE Counting(started, size)

-----------------------------------------------------------------------------
(* In what follows encode is pb_encode of a message: encode[At(m, path)]   *)
(* is what it does to a stream with the structure at `path`.               *)

(* Wrong: the counting pass forgets the bytes of the length (SecondPassFits). *)
SubmessageUncounted(encode, stream, m, path) ==
  LET sized   == encode[At(m, path)][Sizing]
      size    == sized.written
      started == EncodeNumber(stream, size)
      sub     == encode[At(m, path)][[Buffer(size) EXCEPT !.out = started.out]]
  IN  IF ~sized.ok THEN [stream EXCEPT !.ok = FALSE]
      ELSE IF ~stream.callback THEN Counting(stream, size)
      ELSE IF ~started.ok THEN started
      ELSE IF started.written + size > started.max_size
           THEN [started EXCEPT !.ok = FALSE]
           ELSE [started EXCEPT !.written = @ + sub.written,
                                !.out = sub.out,
                                !.ok = sub.ok /\ sub.written = size]

(* A pass that counts, the length, and a pass on a stream that ends where  *)
(* the first one did.                                                      *)
pb_encode_submessage(encode, stream, m, path) ==
  LET sized   == encode[At(m, path)][Sizing]
      size    == sized.written
      started == EncodeNumber(stream, size)
      sub     == encode[At(m, path)][[Buffer(size) EXCEPT !.out = started.out]]
  IN  IF ~sized.ok THEN [stream EXCEPT !.ok = FALSE]
      ELSE IF ~started.ok \/ ~started.callback THEN Counting(started, size)
      ELSE IF started.written + size > started.max_size
           THEN [started EXCEPT !.ok = FALSE]
           ELSE [started EXCEPT !.written = @ + sub.written,
                                !.out = sub.out,
                                !.ok = sub.ok /\ sub.written = size]

(* encode_basic_field: what is not there is left out.                      *)
Absent(f, cell) == IF f.shape = "repeated" THEN cell.items = <<>> ELSE ~cell.set

encode_field(encode, stream, src, f, path) ==
  LET cell == src[Slot(path, f)]
      Tagged(s)  == pb_encode_tag(s, IF f.kind \in Numeric THEN 0 ELSE 2, f)
      Item(s, i) == pb_encode_submessage(encode, Tagged(s), f.of, path \o Step(f, i))
  IN  IF Absent(f, cell) THEN stream
      ELSE CASE f.kind = "bytes" -> pb_encode_string(Tagged(stream), cell.items)
             [] f.kind \in Numeric /\ f.shape = "optional"
                  -> EncodeScalar(Tagged(stream), f.kind, cell.items[1])
             [] f.kind \in Numeric /\ f.shape = "repeated"
                  -> EncodePacked(stream, f, cell.items)
             [] f.kind = "message" /\ f.shape = "optional" -> Item(stream, 0)
             [] f.kind = "message" /\ f.shape = "repeated"
                  -> WriteEach(stream, [i \in DOMAIN cell.items |->
                                          [s \in Stream |-> Item(s, i)]])

pb_encode(src) ==
  LET encode[at \in Structures(src)] ==
        LET fields == Fields[at.message]
        IN  [stream \in Stream |->
               WriteEach(stream, [i \in DOMAIN fields |-> [s \in Stream |->
                 encode_field(encode, s, src, fields[i], at.path)]])]
  IN  encode
=============================================================================
