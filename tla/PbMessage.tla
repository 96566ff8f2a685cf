------------------------------- MODULE PbMessage -------------------------------
(***************************************************************************)
(* Messages in memory, as the descriptors nanopb generates (pb_field_t)    *)
(* lay them out, and as pb_decode.c and pb_encode.c walk them.             *)
(*                                                                         *)
(* The memory of a message is a function of slots.  A slot is a field of a *)
(* structure, found from the outermost one through `path`: the fields      *)
(* followed, with 0 for a structure within a structure and the position    *)
(* for an element of an array.                                             *)
(*                                                                         *)
(* Modelled are the shapes the application's descriptors have: optional    *)
(* numbers and messages in place, optional bytes and repeated numbers and  *)
(* messages behind a pointer.                                              *)
(***************************************************************************)
EXTENDS PbWire

CONSTANTS
  Message,    \* the message types
  Fields      \* Fields[m]: the descriptors of the fields of m, by tag

Numeric == {"bool", "int32", "int64", "uenum", "sint64"}
Shape   == {"optional", "pointer", "repeated"}
Field   == [tag : Nat \ {0}, kind : Numeric \cup {"bytes", "message"},
            shape : Shape, of : Message]

(* The number that is written for a value of a field.                      *)
Written(kind, n) == IF kind = "sint64" THEN ZigZag(n) ELSE Unsigned(n)

ASSUME FieldsAssumption == Fields \in [Message -> Seq(Field)]

FieldsOf(m) == {Fields[m][i] : i \in DOMAIN Fields[m]}

(* The shapes that are modelled: bytes are all that is optional and behind *)
(* a pointer.                                                              *)
ASSUME ShapesAssumption ==
  \A m \in Message : \A f \in FieldsOf(m) :
    f.shape = "pointer" <=> f.kind = "bytes"

(* A tag names one field of a message, and fits where it is read with the  *)
(* wire type.                                                              *)
ASSUME TagsAssumption ==
  \A m \in Message : \A i, j \in DOMAIN Fields[m] :
    /\ Fields[m][i].tag = Fields[m][j].tag => i = j
    /\ 8 * Fields[m][i].tag + 2 < 2 ^ Bits32

Behind(f) == f.shape # "optional"        \* a pointer (PB_ATYPE_POINTER)
Step(f, i) == <<[field |-> f, item |-> i]>>
At(m, path) == [message |-> m, path |-> path]
Slot(path, f) == [path |-> path, field |-> f]

(* The slots of a structure of type m and of the structures in it.         *)
Layout[m \in Message] ==
  {Slot(<<>>, f) : f \in FieldsOf(m)} \cup
  UNION {{Slot(Step(f, 0) \o s.path, s.field) : s \in Layout[f.of]} :
           f \in {g \in FieldsOf(m) : g.kind = "message" /\ ~Behind(g)}}

(* No structure is within itself: Layout has the slots its definition      *)
(* gives, and only messages in place are on the way to them.               *)
Path == Seq([field : Field, item : Nat])

ASSUME LayoutAssumption ==
  \A m \in Message :
    /\ \A f \in FieldsOf(m) :
         /\ Slot(<<>>, f) \in Layout[m]
         /\ f.kind = "message" /\ ~Behind(f) =>
              \A s \in Layout[f.of] :
                Slot(Step(f, 0) \o s.path, s.field) \in Layout[m]
    /\ \A s \in Layout[m] :
         /\ s \in [path : Path, field : Field]
         /\ \A i \in DOMAIN s.path : /\ s.path[i].field.kind = "message"
                                    /\ ~Behind(s.path[i].field)

(* set: has_field, or the pointer is not NULL; items: the values, of which *)
(* an array has _count; room: the items the block behind has room for.     *)
(* The value of a field that is not set is not looked at.                  *)
Null == [set |-> FALSE, items |-> <<>>, room |-> 0]

Structure(m, path) == {Slot(path \o l.path, l.field) : l \in Layout[m]}

(* The structures of a message in memory.                                  *)
Structures(src) ==
  {at \in [message : Message, path : Path] :
     Structure(at.message, at.path) \subseteq DOMAIN src}

(* A message of type m is in memory: every pointer leads to structures,    *)
(* not for ever, and what has a value has one.                             *)
Filled(f, cell) ==
  /\ cell \in [set : BOOLEAN, items : Seq(Int), room : Nat]
  /\ f.kind = "bytes" => cell.items \in Seq(Byte)
  /\ f.kind \in Numeric /\ cell.set => cell.items # <<>>

InMemory(src, m) ==
  /\ At(m, <<>>) \in Structures(src)
  /\ \A s \in DOMAIN src :
       /\ s \in [path : Path, field : Field] /\ Filled(s.field, src[s])
       /\ s.field.kind = "message" /\ Behind(s.field) =>
            \A i \in DOMAIN src[s].items :
              At(s.field.of, s.path \o Step(s.field, i)) \in Structures(src)
  /\ \E deepest \in {<<>>} \cup {s.path : s \in DOMAIN src} :
       \A s \in DOMAIN src : Len(s.path) <= Len(deepest)

(* Of all the values, those of one structure are made the defaults.        *)
pb_message_set_to_defaults(m, path, values) ==
  [s \in Structure(m, path) \cup DOMAIN values |->
     IF s \in Structure(m, path) THEN Null ELSE values[s]]
=============================================================================
