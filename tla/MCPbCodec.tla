------------------------------- MODULE MCPbCodec -------------------------------
(* A small answer of the logging backend, of which each kind and shape of  *)
(* the application's descriptors has a field (cct.nanopb.c:81-97, and the  *)
(* others for numbers that are packed, signed or truth values, and bytes). *)
EXTENDS PbCodec

Number_(t, k)     == [tag |-> t, kind |-> k, shape |-> "optional", of |-> "Tier"]
next_request_wait == Number_(1, "int64")
is_last           == Number_(2, "bool")
qos_tier          == [tag |-> 3, kind |-> "message", shape |-> "optional", of |-> "Tiers"]
configuration     == [tag |-> 1, kind |-> "message", shape |-> "repeated", of |-> "Tier"]
installed         == [tag |-> 2, kind |-> "uenum", shape |-> "repeated", of |-> "Tier"]
offset            == Number_(1, "sint64")
log_source        == Number_(2, "int32")
name              == [tag |-> 3, kind |-> "bytes", shape |-> "pointer", of |-> "Tier"]

Types == {"Response", "Tiers", "Tier"}
Descriptors ==
  [m \in Types |-> CASE m = "Response" -> <<next_request_wait, is_last, qos_tier>>
                     [] m = "Tiers"    -> <<configuration, installed>>
                     [] m = "Tier"     -> <<offset, log_source, name>>]

Have(items) == [Null EXCEPT !.set = TRUE, !.items = items]
InTiers     == Step(qos_tier, 0)
TierPath(i) == InTiers \o Step(configuration, i)

(* A tier at position i.                                                   *)
TierOf(i, t) == [s \in {Slot(TierPath(i), f) : f \in DOMAIN t} |-> t[s.field]]
NoName  == offset :> Have(<<-1>>) @@ log_source :> Null @@ name :> Null
Named   == offset :> Null @@ log_source :> Have(<<-2>>) @@ name :> Have(<<10, 1>>)
Unnamed == offset :> Null @@ log_source :> Null @@ name :> Have(<<>>)

Numbers(wait, last, has) ==
  Slot(<<>>, next_request_wait) :> wait @@ Slot(<<>>, is_last) :> last
    @@ Slot(<<>>, qos_tier) :> [Null EXCEPT !.set = has]
Tiers(tiers, packed) ==
  Slot(InTiers, configuration) :> tiers @@ Slot(InTiers, installed) :> packed

Mixed ==
  {Numbers(wait, last, FALSE) @@ Tiers(Null, Null) :
     wait \in {Null, Have(<<-3>>), Have(<<33>>)}, last \in {Null, Have(<<1>>)}}
  \cup {Numbers(Null, Null, TRUE) @@ Tiers(Null, packed) :
          packed \in {Null, Have(<<1, 2, 3>>), Have(<<40, 2>>)}}
  \cup {Numbers(Have(<<5>>), Null, TRUE) @@ Tiers(Have(<<0>>), packed) @@ TierOf(1, t) :
          t \in {NoName, Named, Unnamed}, packed \in {Null, Have(<<2>>)}}
  \cup {Numbers(Null, Null, TRUE) @@ Tiers(Have(<<0, 0>>), Null)
          @@ TierOf(1, Named) @@ TierOf(2, t) : t \in {NoName, Named}}
=============================================================================
