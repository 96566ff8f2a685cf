------------------------------- MODULE PbDecoder -------------------------------
(***************************************************************************)
(* nanopb's decoder (pb_decode.c, built with PB_ENABLE_MALLOC and          *)
(* PB_FIELD_32BIT), which reads the answer of the logging backend in the   *)
(* iOS application (GDTCCTNanopbHelpers.m, GDTCCTUploadOperation.m).       *)
(*                                                                         *)
(* `frames` is the C stack: one frame for each pb_decode_noinit, and for   *)
(* each packed array being read, with the bytes left in its stream.  All   *)
(* streams read one buffer, and only the innermost moves, so `pos` is the  *)
(* position of all of them.  `answer` is what the innermost call returned. *)
(*                                                                         *)
(* `heap` has the blocks that were allocated and not freed, each named by  *)
(* the slot that received the pointer: were a pointer lost, or freed       *)
(* twice, heap would differ from the pointers of the message.  Any         *)
(* allocation may fail.  What a failed call left unread, and which error   *)
(* text it set, is not told apart: nobody looks.                           *)
(***************************************************************************)
EXTENDS PbMessage

CONSTANT ItemSize   \* data_size of an element of a packed array

ASSUME ItemAssumption == ItemSize \in Nat \ {0}

VARIABLES
  input,   \* the buffer
  pos,     \* the bytes of it that were read
  frames,  \* the calls, the innermost last
  key,     \* the tag and wire type read last, 0 once its field was read
  answer,  \* what the innermost call returned, "none" while it runs
  errmsg,  \* "", "malformed" or "realloc failed"
  cells,   \* the message
  heap,    \* the blocks allocated
  state    \* "idle", "decoding", "decoded"

reading == <<input, state>>
memory  == <<cells, heap>>
decoder == <<input, pos, frames, key, answer, errmsg, cells, heap, state>>

-----------------------------------------------------------------------------
(* The elements of an array that _count covers are part of the message.    *)
Counted(path) ==
  \A i \in DOMAIN path :
    Behind(path[i].field) =>
      path[i].item <= Len(cells[Slot(SubSeq(path, 1, i - 1), path[i].field)].items)

Owned(path) ==
  {s \in DOMAIN cells : /\ IsPrefix(path, s.path) /\ Counted(s.path)
                        /\ Behind(s.field) /\ cells[s].set}

(* Every pointer below the structure at `path` is freed and set to NULL.   *)
pb_release(path) ==
  LET Kept(s) == \A i \in DOMAIN s.path :
                   i > Len(path) /\ IsPrefix(path, s.path)
                     => ~Behind(s.path[i].field)
  IN  /\ heap'  = heap \ Owned(path)
      /\ cells' = [s \in {t \in DOMAIN cells : Kept(t)} |->
                     IF s \in Owned(path) THEN Null ELSE cells[s]]

(* realloc: a block behind the pointer in s, instead of one that is there. *)
allocate_field(s) ==
  heap' = heap \cup {s}

Holding(items, room) == [set |-> TRUE, items |-> items, room |-> room]

-----------------------------------------------------------------------------
(* Streams.                                                                *)
Top   == frames[Len(frames)]
Ahead == SubSeq(input, pos + 1, pos + Top.left)

Runs(kind) == frames # <<>> /\ answer = "none" /\ Top.kind = kind

Take(n) ==
  /\ pos' = pos + n /\ key' = 0
  /\ frames' = [frames EXCEPT ![Len(frames)].left = @ - n]
  /\ UNCHANGED <<answer, errmsg>>

Fail(msg) ==
  /\ answer' = "false" /\ errmsg' = msg /\ key' = 0
  /\ UNCHANGED <<pos, frames>>

(* Wrong: nothing is compared with the bytes left (StaysInside).           *)
SizedUnchecked(bytes) == pb_decode_varint32(bytes)

(* A length, and whether that many bytes follow (pb_make_string_substream, *)
(* pb_skip_string, pb_dec_bytes).                                          *)
Sized(bytes) ==
  LET size == pb_decode_varint32(bytes)
  IN  IF size.ok /\ size.n \in 0 .. Len(bytes) - size.took
      THEN size ELSE Failed

pb_make_string_substream(size, frame) ==
  /\ pos' = pos + size.took /\ key' = 0
  /\ frames' = Append([frames EXCEPT ![Len(frames)].left =
                         @ - size.took - size.n],
                      [frame EXCEPT !.left = size.n])
  /\ UNCHANGED <<answer, errmsg>>

MessageFrame(m, path, init) ==
  [kind |-> "message", left |-> 0, message |-> m, path |-> path, init |-> init]

(* Wrong: skipping does not look at the bytes left (DecoderTypeOK).        *)
FixedUnchecked(n, bytes) == [ok |-> TRUE, took |-> n]

(* Wrong: what is skipped is not taken from the stream (Shrinks).          *)
FixedUnread(n, bytes) == [ok |-> n <= Len(bytes), took |-> 0]

(* pb_skip_field: the wire types, and what a field of each takes.          *)
Fixed(n, bytes) == [ok |-> n <= Len(bytes), took |-> n]

pb_skip_field(wireType, bytes) ==
  CASE wireType = 0 -> [ok |-> Varint(bytes) # <<>>, took |-> Len(Varint(bytes))]
    [] wireType = 1 -> Fixed(8, bytes)
    [] wireType = 2 -> [ok |-> Sized(bytes).ok,
                        took |-> Sized(bytes).took + Sized(bytes).n]
    [] wireType = 5 -> Fixed(4, bytes)
    [] OTHER        -> Failed

(* pb_dec_bool, pb_dec_varint, pb_dec_uvarint, pb_dec_svarint: the wire    *)
(* type is not looked at.                                                  *)
Scalar(kind, bytes) ==
  LET r == IF kind = "bool" THEN pb_decode_varint32(bytes)
                            ELSE pb_decode_varint(bytes)
  IN  CASE kind = "bool"   -> [r EXCEPT !.n = IF @ = 0 THEN 0 ELSE 1]
        [] kind = "int32"  -> [r EXCEPT !.n = Signed(@, Bits32)]
        [] kind = "int64"  -> [r EXCEPT !.n = Signed(@, Bits64)]
        [] kind = "sint64" -> [r EXCEPT !.n = UnZigZag(@)]
        [] kind = "uenum"  -> [r EXCEPT !.ok = @ /\ r.n < 2 ^ Bits32]

-----------------------------------------------------------------------------
(* pb_decode_noinit: a tag, then the field it announces.                   *)
WireType == key % 8
Packs(f) == WireType = 2 /\ f.kind \in Numeric
AtField(f) == Runs("message") /\ key # 0 /\ f.tag = key \div 8
Here(f)    == Slot(Top.path, f)

(* No bytes are left.                                                      *)
EndMessage ==
  /\ Runs("message") /\ key = 0 /\ Top.left = 0
  /\ answer' = "true"
  /\ UNCHANGED <<pos, frames, key, errmsg, memory, reading>>

(* Wrong: what cannot be read is tried again (Decides).                    *)
DecodeTagAgain ==
  /\ Runs("message") /\ key = 0 /\ Top.left > 0
  /\ LET r == pb_decode_varint32(Ahead)
     IN  /\ r.ok /\ pos' = pos + r.took /\ key' = r.n
         /\ frames' = [frames EXCEPT ![Len(frames)].left = @ - r.took]
         /\ UNCHANGED <<answer, errmsg>>
  /\ UNCHANGED <<memory, reading>>

(* pb_decode_tag: a zero in place of a tag ends the message, too.          *)
DecodeTag ==
  /\ Runs("message") /\ key = 0 /\ Top.left > 0
  /\ LET r == pb_decode_varint32(Ahead)
     IN  \/ /\ ~r.ok /\ Fail("malformed")
         \/ /\ r.ok /\ pos' = pos + r.took /\ key' = r.n
            /\ frames' = [frames EXCEPT ![Len(frames)].left = @ - r.took]
            /\ answer' = IF r.n = 0 THEN "true" ELSE "none"
            /\ UNCHANGED errmsg
  /\ UNCHANGED <<memory, reading>>

SkipField ==
  /\ Runs("message") /\ key # 0
  /\ \A f \in FieldsOf(Top.message) : f.tag # key \div 8
  /\ LET r == pb_skip_field(WireType, Ahead)
     IN  IF r.ok THEN Take(r.took) ELSE Fail("malformed")
  /\ UNCHANGED <<memory, reading>>

(* A number in place: has_field is set before it is read.                  *)
DecodeNumber(f) ==
  /\ AtField(f) /\ f.shape = "optional" /\ f.kind \in Numeric
  /\ LET r == Scalar(f.kind, Ahead)
     IN  IF r.ok
         THEN /\ Take(r.took)
              /\ cells' = [cells EXCEPT ![Here(f)] = Holding(<<r.n>>, 1)]
         ELSE /\ Fail("malformed")
              /\ cells' = [cells EXCEPT ![Here(f)].set = TRUE]
  /\ UNCHANGED <<heap, reading>>

(* Wrong: each one starts from the defaults (NothingLeaks).                *)
DecodeMessageAnew(f) ==
  /\ AtField(f) /\ f.shape = "optional" /\ f.kind = "message"
  /\ cells' = pb_message_set_to_defaults(f.of, Top.path \o Step(f, 0),
                                         [cells EXCEPT ![Here(f)].set = TRUE])
  /\ LET size == Sized(Ahead)
     IN  IF size.ok
         THEN pb_make_string_substream(size,
                MessageFrame(f.of, Top.path \o Step(f, 0), TRUE))
         ELSE Fail("malformed")
  /\ UNCHANGED <<heap, reading>>

(* A message in place: a second one adds to the first.                     *)
DecodeMessage(f) ==
  /\ AtField(f) /\ f.shape = "optional" /\ f.kind = "message"
  /\ cells' = [cells EXCEPT ![Here(f)].set = TRUE]
  /\ LET size == Sized(Ahead)
     IN  IF size.ok
         THEN pb_make_string_substream(size,
                MessageFrame(f.of, Top.path \o Step(f, 0), FALSE))
         ELSE Fail("malformed")
  /\ UNCHANGED <<heap, reading>>

(* pb_dec_bytes: a block as long as the bytes, in place of one that a      *)
(* field of this tag has received before.                                  *)
DecodeBytes(f) ==
  /\ AtField(f) /\ f.shape = "pointer" /\ f.kind = "bytes"
  /\ LET size  == Sized(Ahead)
         bytes == SubSeq(Ahead, size.took + 1, size.took + size.n)
     IN  \/ /\ size.ok /\ allocate_field(Here(f))
            /\ cells' = [cells EXCEPT ![Here(f)] = Holding(bytes, size.n)]
            /\ Take(size.took + size.n)
         \/ /\ Fail(IF size.ok THEN "realloc failed" ELSE "malformed")
            /\ UNCHANGED memory
  /\ UNCHANGED reading

(* One element of an array, which is made one longer before the element is *)
(* read.                                                                   *)
Grown(f) == [cells EXCEPT ![Here(f)] =
               Holding(Append(@.items, 0), Len(@.items) + 1)]

CannotGrow(f) ==
  /\ AtField(f) /\ f.shape = "repeated"
  /\ ~Packs(f) /\ Fail("realloc failed") /\ UNCHANGED <<memory, reading>>

AppendNumber(f) ==
  /\ AtField(f) /\ f.shape = "repeated" /\ f.kind \in Numeric /\ ~Packs(f)
  /\ allocate_field(Here(f))
  /\ LET r == Scalar(f.kind, Ahead)
         n == Len(cells[Here(f)].items) + 1
     IN  IF r.ok
         THEN /\ Take(r.took)
              /\ cells' = [Grown(f) EXCEPT ![Here(f)].items[n] = r.n]
         ELSE Fail("malformed") /\ cells' = Grown(f)
  /\ UNCHANGED reading

AppendMessage(f) ==
  /\ AtField(f) /\ f.shape = "repeated" /\ f.kind = "message"
  /\ allocate_field(Here(f))
  /\ LET size == Sized(Ahead)
         path == Top.path \o Step(f, Len(cells[Here(f)].items) + 1)
     IN  /\ cells' = pb_message_set_to_defaults(f.of, path, Grown(f))
         /\ IF size.ok
            THEN pb_make_string_substream(size,
                                          MessageFrame(f.of, path, TRUE))
            ELSE Fail("malformed")
  /\ UNCHANGED reading

-----------------------------------------------------------------------------
(* A packed array: the elements follow each other without tags.            *)
OpenPacked(f) ==
  /\ AtField(f) /\ f.shape = "repeated" /\ Packs(f)
  /\ LET size == Sized(Ahead)
     IN  IF size.ok
         THEN pb_make_string_substream(size,
                [kind |-> "packed", left |-> 0, slot |-> Here(f),
                 allocated |-> Len(cells[Here(f)].items)])
         ELSE Fail("malformed")
  /\ UNCHANGED <<memory, reading>>

Array == cells[Top.slot]

(* Wrong: one too late (Fits).                                             *)
FullLate == Len(Array.items) > Top.allocated

Full  == Len(Array.items) + 1 > Top.allocated

(* The elements that may still come, at ItemSize bytes each.               *)
Guess == (Top.left - 1) \div ItemSize + 1

PackedItem ==
  /\ Runs("packed") /\ Top.left > 0
  /\ LET r     == Scalar(Top.slot.field.kind, Ahead)
         room  == IF Full THEN Top.allocated + Guess ELSE Array.room
         items == IF r.ok THEN Append(Array.items, r.n) ELSE Array.items
     IN  /\ IF Full THEN allocate_field(Top.slot) ELSE UNCHANGED heap
         /\ cells' = [cells EXCEPT ![Top.slot] = Holding(items, room)]
         /\ IF r.ok
            THEN /\ pos' = pos + r.took /\ key' = 0
                 /\ frames' = [frames EXCEPT ![Len(frames)] =
                      [Top EXCEPT !.left = @ - r.took,
                                  !.allocated = IF Full THEN room ELSE @]]
                 /\ UNCHANGED <<answer, errmsg>>
            ELSE Fail("malformed")
  /\ UNCHANGED reading

PackedCannotGrow ==
  /\ Runs("packed") /\ Top.left > 0 /\ Full
  /\ Fail("realloc failed") /\ UNCHANGED <<memory, reading>>

EndPacked ==
  /\ Runs("packed") /\ Top.left = 0
  /\ answer' = "true"
  /\ UNCHANGED <<pos, frames, key, errmsg, memory, reading>>

-----------------------------------------------------------------------------
(* Returning.  pb_decode, which reads the elements of arrays and the whole *)
(* message, releases what it decoded before it returns false.              *)
Releases == answer = "false" /\ Top.kind = "message" /\ Top.init

(* pb_close_string_substream: the rest of the stream is skipped.           *)
Close ==
  /\ Len(frames) > 1 /\ answer # "none"
  /\ pos' = pos + Top.left
  /\ frames' = SubSeq(frames, 1, Len(frames) - 1)
  /\ answer' = IF answer = "true" THEN "none" ELSE "false"
  /\ IF Releases THEN pb_release(Top.path) ELSE UNCHANGED memory
  /\ UNCHANGED <<key, errmsg, reading>>

(* Wrong: what was decoded is left to the caller (FailuresHoldNothing).    *)
FinishKeeping ==
  /\ Len(frames) = 1 /\ answer # "none"
  /\ frames' = <<>> /\ state' = "decoded"
  /\ UNCHANGED <<input, pos, key, answer, errmsg, memory>>

Finish ==
  /\ Len(frames) = 1 /\ answer # "none"
  /\ frames' = <<>> /\ state' = "decoded"
  /\ IF Releases THEN pb_release(<<>>) ELSE UNCHANGED memory
  /\ UNCHANGED <<input, pos, key, answer, errmsg>>

(* GDTCCTDecodeLogResponse: pb_decode of a buffer into a message of type m.*)
pb_decode(bytes, m) ==
  /\ state = "idle"
  /\ input' = bytes /\ pos' = 0 /\ state' = "decoding"
  /\ frames' = <<[MessageFrame(m, <<>>, TRUE) EXCEPT !.left = Len(bytes)]>>
  /\ key' = 0 /\ answer' = "none" /\ errmsg' = ""
  /\ cells' = pb_message_set_to_defaults(m, <<>>, <<>>)
  /\ UNCHANGED heap

(* A message that could not be decoded is overwritten by an empty one;     *)
(* then pb_release.                                                        *)
Dispose ==
  /\ state = "decoded" /\ state' = "idle"
  /\ cells' = <<>>
  /\ heap' = IF answer = "true" THEN heap \ Owned(<<>>) ELSE heap
  /\ UNCHANGED <<input, pos, frames, key, answer, errmsg>>

DecodeField ==
  \E f \in UNION {FieldsOf(m) : m \in Message} :
    /\ Runs("message") /\ f \in FieldsOf(Top.message)
    /\ \/ DecodeNumber(f) \/ DecodeMessage(f) \/ DecodeBytes(f)
       \/ CannotGrow(f) \/ AppendNumber(f) \/ AppendMessage(f) \/ OpenPacked(f)

DecoderStep ==
  \/ EndMessage \/ DecodeTag \/ SkipField \/ DecodeField
  \/ PackedItem \/ PackedCannotGrow \/ EndPacked
  \/ Close \/ Finish

DecoderInit ==
  /\ input = <<>> /\ pos = 0 /\ frames = <<>> /\ key = 0 /\ answer = "none"
  /\ errmsg = "" /\ cells = <<>> /\ heap = {} /\ state = "idle"

DecoderNext ==
  \/ \E bytes \in Seq(Byte), m \in Message : pb_decode(bytes, m)
  \/ DecoderStep \/ Dispose

DecoderSpec == DecoderInit /\ [][DecoderNext]_decoder

-----------------------------------------------------------------------------
Cell == [set : BOOLEAN, items : Seq(Int), room : Nat]
Frame ==
  [kind : {"message"}, left : Nat, message : Message, path : Path, init : BOOLEAN]
  \cup [kind : {"packed"}, left : Nat, allocated : Nat,
        slot : [path : Path, field : Field]]

(* The shape of every variable; a call is in progress exactly while a      *)
(* message is being decoded (pb_decode.c:928-1090).                        *)
DecoderTypeOK ==
  /\ input \in Seq(Byte) /\ pos \in Nat /\ key \in Nat
  /\ frames \in Seq(Frame)
  /\ answer \in {"none", "true", "false"}
  /\ errmsg \in {"", "malformed", "realloc failed"}
  /\ \A s \in DOMAIN cells : cells[s] \in Cell
  /\ state \in {"idle", "decoding", "decoded"}
  /\ state = "decoding" <=> frames # <<>>

(* Whatever lengths a message claims, no stream that is open reaches past  *)
(* the end of the buffer, so nothing behind it is read                     *)
(* (pb_make_string_substream, pb_read: pb_decode.c:372-384, 123).          *)
StaysInside ==
  \A i \in DOMAIN frames : pos + frames[i].left <= Len(input)

(* An array never has more elements than its block has room for, also      *)
(* where the room for a packed array was guessed and where numbers of one  *)
(* field come packed and not (pb_decode.c:597-642).                        *)
Fits ==
  \A s \in DOMAIN cells : Behind(s.field) => Len(cells[s].items) <= cells[s].room

(* Each block is held by one pointer of the message, wherever the decoder  *)
(* stopped and however often a field came, so pb_release frees each of     *)
(* them once (pb_decode.c:499-533, 839-903, 1164-1269).                    *)
NothingLeaks == heap = Owned(<<>>)

(* A message that could not be decoded holds nothing: its caller           *)
(* overwrites it with an empty one (GDTCCTNanopbHelpers.m:261-267), and    *)
(* only pb_decode can have freed what was there (pb_decode.c:1084-1087).   *)
FailuresHoldNothing ==
  state = "decoded" /\ answer = "false" => heap = {}

(* The values of a number in memory.                                       *)
ValuesOf(kind) ==
  CASE kind = "bool"  -> {0, 1}
    [] kind = "int32" -> -2 ^ (Bits32 - 1) .. 2 ^ (Bits32 - 1) - 1
    [] kind = "uenum" -> 0 .. 2 ^ Bits32 - 1
    [] OTHER          -> -2 ^ (Bits64 - 1) .. 2 ^ (Bits64 - 1) - 1

(* Every number is read as the number that was written, in every kind of   *)
(* field, and a length or a tag, which is read by another function than    *)
(* wrote it.                                                               *)
ReadAsWritten ==
  /\ \A kind \in Numeric : \A n \in ValuesOf(kind) :
       LET bytes == pb_encode_varint[Written(kind, n)]
       IN  Scalar(kind, bytes) = [ok |-> TRUE, n |-> n, took |-> Len(bytes)]
  /\ \A n \in 0 .. 2 ^ Bits32 - 1 :
       LET bytes == pb_encode_varint[n]
       IN  pb_decode_varint32(bytes) = [ok |-> TRUE, n |-> n, took |-> Len(bytes)]

(* Whatever number of its kind a field may hold, a decoder that comes to   *)
(* it has that number, also where the two are not of one width: a negative *)
(* one is written as 64 bits also if it has 32 (pb_decode.c:187-252,       *)
(* 1279-1371; pb_encode.c:608-639, 769-833).                               *)
NumbersArrive == state = "decoding" => ReadAsWritten

(* Every step of a decoder brings it nearer to its answer: a buffer of n   *)
(* bytes takes at most 3n + 3 of them, whatever it has in it: each field   *)
(* takes a byte at least, also an empty one, one that is skipped and one   *)
(* that opens a stream (pb_decode.c:945-1027, 597-642).                    *)
Work ==
  3 * (Len(input) - pos) + 2 * Len(frames) + (IF answer = "none" THEN 1 ELSE 0)

Shrinks == [][state = "decoding" => 0 <= Work' /\ Work' < Work]_decoder
=============================================================================
