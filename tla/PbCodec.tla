-------------------------------- MODULE PbCodec --------------------------------
(***************************************************************************)
(* A message is encoded as the application does it, into a buffer of the   *)
(* size that a first pass counted (GDTCCTEncodeBatchedLogRequest), travels *)
(* to somebody who decodes it as the application does                      *)
(* (GDTCCTDecodeLogResponse), and is disposed of.  On the way it may be    *)
(* cut, a byte of it may change, and it may come twice in a row.           *)
(***************************************************************************)
EXTENDS PbDecoder, PbEncoder

CONSTANTS
  Samples,   \* the messages that are sent, as they are in memory
  Root,      \* their type
  Noise      \* the bytes that may replace another one

ASSUME NoiseAssumption == Root \in Message /\ Noise \subseteq Byte

(* The values of a field, as the application sets them.                    *)
Valued(f, cell) ==
  /\ f.kind \in Numeric /\ cell.set =>
       /\ \A i \in DOMAIN cell.items : cell.items[i] \in ValuesOf(f.kind)
       /\ f.shape = "optional" => Len(cell.items) = 1
  /\ f.kind = "message" => \A i \in DOMAIN cell.items : cell.items[i] = 0
  /\ f.kind = "message" /\ f.shape = "optional" => cell.items = <<>>
  /\ f.shape = "repeated" => (cell.set <=> cell.items # <<>>)

(* The type of the structure at `path`, in a message of type m.            *)
TypeAt(m, path) == IF path = <<>> THEN m ELSE path[Len(path)].field.of

(* A message the application has made: each structure starts from the      *)
(* defaults (..._init_default), is reached from the outermost one, and is  *)
(* left with its defaults if it is not there.  Its length is a uint32_t.   *)
Made(src, m) ==
  /\ \A s \in DOMAIN src :
       /\ s.field \in FieldsOf(TypeAt(m, s.path)) /\ Valued(s.field, src[s])
       /\ \A i \in DOMAIN s.path :
            LET above == Slot(SubSeq(s.path, 1, i - 1), s.path[i].field)
            IN  /\ above \in DOMAIN src /\ above.field.kind = "message"
                /\ s.path[i].item \in
                     IF Behind(above.field) THEN DOMAIN src[above].items ELSE {0}
       /\ s.field.kind = "message" /\ ~Behind(s.field) /\ ~src[s].set =>
            LET path == s.path \o Step(s.field, 0)
            IN  \A t \in DOMAIN src : IsPrefix(path, t.path) =>
                  t \in Structure(s.field.of, path) /\ ~src[t].set
  /\ pb_encode(src)[At(m, <<>>)][Sizing].written < 2 ^ Bits32

ASSUME SamplesAssumption == \A src \in Samples : InMemory(src, Root) /\ Made(src, Root)

VARIABLES
  source,    \* the message that is sent
  size,      \* what the first pass counted
  ostream    \* the stream that is written, or has been

sender == <<source, size, ostream>>
vars   == <<source, size, ostream, decoder>>

-----------------------------------------------------------------------------
Unsent == [Sizing EXCEPT !.ok = FALSE]

Init ==
  /\ source \in Samples /\ size = 0 /\ ostream = Unsent
  /\ DecoderInit

FirstPass ==
  /\ ostream = Unsent /\ size = 0
  /\ size' = pb_encode(source)[At(Root, <<>>)][Sizing].written
  /\ ostream' = Sizing
  /\ UNCHANGED <<source, decoder>>

(* Whether the second pass succeeds is logged and otherwise ignored.       *)
SecondPass ==
  /\ ostream = Sizing
  /\ ostream' = pb_encode(source)[At(Root, <<>>)][Buffer(size)]
  /\ UNCHANGED <<source, size, decoder>>

(* What may arrive: external.                                              *)
Received(bytes) ==
  {bytes, bytes \o bytes}
  \cup {SubSeq(bytes, 1, n) : n \in 0 .. Len(bytes)}
  \cup {[bytes EXCEPT ![i] = b] : i \in DOMAIN bytes, b \in Noise}

Arrives ==
  /\ ostream.callback /\ answer = "none"
  /\ \E bytes \in Received(ostream.out) : pb_decode(bytes, Root)
  /\ UNCHANGED sender

Next ==
  \/ FirstPass \/ SecondPass \/ Arrives
  \/ (DecoderStep \/ Dispose) /\ UNCHANGED sender

Spec     == Init /\ [][Next]_vars
FairSpec == Spec /\ WF_vars(DecoderStep /\ UNCHANGED sender)

-----------------------------------------------------------------------------
(* The buffer has the size of the first pass, and the second fills it: the *)
(* application sends the buffer whether or not it was filled               *)
(* (GDTCCTNanopbHelpers.m:54-72, pb_encode.c:717-765).                     *)
SecondPassFits ==
  ostream.callback => ostream.ok /\ ostream.written = size

(* What was decoded agrees with what was sent, field by field; an array    *)
(* that is in the message itself has come `times` times.                   *)
Times(items, times) == IF times = 1 THEN items ELSE items \o items
InPlace(path) == \A i \in DOMAIN path : path[i].item = 0

Agrees(times) ==
  \A s \in DOMAIN source :
    /\ s \in DOMAIN cells /\ cells[s].set = source[s].set
    /\ source[s].set => cells[s].items =
         IF s.field.shape = "repeated" /\ InPlace(s.path)
         THEN Times(source[s].items, times) ELSE source[s].items

(* A message that arrives as it was sent is decoded, unless memory runs    *)
(* out, and every field has its value; one that comes twice in a row is    *)
(* the message with each array repeated, as pb_dec_submessage adds to what *)
(* is there (pb_decode.c:1530-1536; pb_encode.c:528-550).                  *)
RoundTrip ==
  state = "decoded" /\ errmsg # "realloc failed" =>
    /\ input = ostream.out => answer = "true" /\ Agrees(1)
    /\ input = ostream.out \o ostream.out => answer = "true" /\ Agrees(2)

(* Whatever arrives, pb_decode returns (pb_decode.c:945-1027, 597-642).    *)
Decides == state = "decoding" ~> state = "decoded"
=============================================================================
