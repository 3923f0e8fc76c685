---------------------------- MODULE PropertyCodec ----------------------------
(***************************************************************************)
(* The MQTT 5 property section (src/mqtt-proto/src/v5/property.rs), at the *)
(* level of bytes, as the CONNACK packet uses it (v5/connack.rs).          *)
(*                                                                         *)
(* Encoding: encode_properties! chains the packet's fields into a sequence *)
(* of Property values in declaration order; encode_all counts the bytes    *)
(* of that chain, writes the count as a remaining length, then writes     *)
(* each Property::encode.  One step per property, one for the length.      *)
(*                                                                         *)
(* Decoding: decode_all reads the section length and splits off the       *)
(* sub-view; the iterator then yields Property::decode of the sub-view     *)
(* until it is empty, and each one goes through the match arm that         *)
(* decode_properties! generated for it.  One step per property.            *)
(*                                                                         *)
(* A run starts either from a CONNACK (encoded, then decoded by a peer) or *)
(* from a section a peer sent: the properties it holds, encoded with the   *)
(* identifiers of the MQTT table, under a declared length that may be one  *)
(* short or one long.                                                      *)
(*                                                                         *)
(* The table and the codec of a single property are in module Property.   *)
(***************************************************************************)
EXTENDS Property

CONSTANTS
  Packets,    \* CONNACK values given to the encoder
  WireProps,  \* properties a peer may put in a section
  MaxProps    \* most properties in a section taken off the wire

VARIABLES
  phase,  \* "encode", "decode", "bind" or "done"
  pkt,    \* ghost: the CONNACK being encoded, or Absent
  chain,  \* properties of the chain not yet encoded
  body,   \* bytes of the encoded properties so far
  eres,   \* outcome of the encoder
  src,    \* bytes in front of the decoder
  sub,    \* the property sub-view not yet decoded
  bound,  \* the bindings of decode_properties!
  dres,   \* outcome of the decoder
  wire,   \* ghost: the properties a peer put in the section
  slack,  \* ghost: declared section length minus its real length
  prefix  \* ghost: how the peer wrote the section length

vars == <<phase, pkt, chain, body, eres, src, sub, bound, dres, wire, slack,
          prefix>>

-----------------------------------------------------------------------------
(* CONNACK (v5/connack.rs).                                                *)

\* The fields of encode_properties! in ConnAck::encode, in order.
ConnAckOrder ==
  <<"SessionExpiryInterval", "ReceiveMaximum", "MaximumQoS", "RetainAvailable",
    "MaximumPacketSize", "AssignedClientIdentifier", "TopicAliasMaximum",
    "ReasonString", "UserProperty", "WildcardSubscriptionAvailable",
    "SharedSubscriptionAvailable", "SubscriptionIdentifierAvailable",
    "ServerKeepAlive", "ResponseInformation", "ServerReference",
    "AuthenticationMethod", "AuthenticationData">>

\* What ConnAck::decode makes of a missing property: the unwrap_or
\* defaults, and None for the Option fields.
ConnAckDefault ==
  [SessionExpiryInterval |-> Absent, ReceiveMaximum |-> 65535,
   MaximumQoS |-> 2, RetainAvailable |-> 1, MaximumPacketSize |-> Absent,
   AssignedClientIdentifier |-> Absent, TopicAliasMaximum |-> 0,
   ReasonString |-> Absent, UserProperty |-> <<>>,
   WildcardSubscriptionAvailable |-> 1, SharedSubscriptionAvailable |-> 1,
   SubscriptionIdentifierAvailable |-> 1, ServerKeepAlive |-> Absent,
   ResponseInformation |-> Absent, ServerReference |-> Absent,
   AuthenticationMethod |-> Absent, AuthenticationData |-> Absent]

\* The chain ConnAck::encode hands to encode_all.
Chain(c) == ChainOf(ConnAckOrder, c)

\* The CONNACK ConnAck::decode builds from its bindings.
Decoded(b) ==
  [k \in DOMAIN ConnAckDefault |-> IF b[k] = Absent THEN ConnAckDefault[k] ELSE b[k]]

-----------------------------------------------------------------------------
(* The encoder: encode_all over the chain of ConnAck::encode.              *)

\* Property::encode of the next property of the chain.
EncodeProperty ==
  /\ phase = "encode" /\ chain # <<>>
  /\ LET p == Head(chain) IN
     \/ /\ EncodeCheck(p) # Ok
        /\ eres' = EncodeCheck(p)
        /\ phase' = "done"
        /\ UNCHANGED <<chain, body>>
     \/ /\ EncodeCheck(p) = Ok
        /\ body' = body \o Encoded(p)
        /\ chain' = Tail(chain)
        /\ UNCHANGED <<eres, phase>>
  /\ UNCHANGED <<pkt, src, sub, bound, dres, wire, slack, prefix>>

\* The whole chain is written: encode_all puts the count of the first
\* pass in front of the bytes of the second, and a peer decodes them.
EncodeLength ==
  /\ phase = "encode" /\ chain = <<>>
  /\ eres' = Ok
  /\ src' = VarIntBytes(Len(body)) \o body
  /\ phase' = "decode"
  /\ UNCHANGED <<pkt, chain, body, sub, bound, dres, wire, slack, prefix>>

-----------------------------------------------------------------------------
(* The decoder: decode_all, then the loop of decode_properties!.          *)

\* Faulty variant of DecodeAll: a section length cut short is read again,
\* as if more bytes could arrive, instead of failing with IncompletePacket.
DecodeAllRetryCut ==
  /\ phase = "decode"
  /\ LET d == VarIntDecode(src)
         rest == SubSeq(src, d.len + 1, Len(src))
     IN
     \/ /\ d.res = "TooHigh"
        /\ dres' = Err("RemainingLengthTooHigh") /\ phase' = "done"
        /\ UNCHANGED <<src, sub>>
     \/ /\ d.res = "None"
        /\ UNCHANGED <<dres, phase, src, sub>>
     \/ /\ d.res = "Some" /\ Len(rest) < d.val
        /\ dres' = Err("IncompletePacket") /\ phase' = "done"
        /\ UNCHANGED <<src, sub>>
     \/ /\ d.res = "Some" /\ Len(rest) >= d.val
        /\ sub' = SubSeq(rest, 1, d.val)
        /\ src' = SubSeq(rest, d.val + 1, Len(rest))
        /\ phase' = "bind"
        /\ UNCHANGED dres
  /\ UNCHANGED <<pkt, chain, body, eres, bound, wire, slack, prefix>>

DecodeAll ==
  /\ phase = "decode"
  /\ LET d == VarIntDecode(src)
         rest == SubSeq(src, d.len + 1, Len(src))
     IN
     \/ /\ d.res = "TooHigh"
        /\ dres' = Err("RemainingLengthTooHigh") /\ phase' = "done"
        /\ UNCHANGED <<src, sub>>
     \/ /\ d.res = "None"
        /\ dres' = Err("IncompletePacket") /\ phase' = "done"
        /\ UNCHANGED <<src, sub>>
     \/ /\ d.res = "Some" /\ Len(rest) < d.val
        /\ dres' = Err("IncompletePacket") /\ phase' = "done"
        /\ UNCHANGED <<src, sub>>
     \/ /\ d.res = "Some" /\ Len(rest) >= d.val
        /\ sub' = SubSeq(rest, 1, d.val)
        /\ src' = SubSeq(rest, d.val + 1, Len(rest))
        /\ phase' = "bind"
        /\ UNCHANGED dres
  /\ UNCHANGED <<pkt, chain, body, eres, bound, wire, slack, prefix>>

\* The iterator yields Property::decode of the sub-view; `property?` and
\* the generated match arm bind it, or return the error.
DecodeProperty ==
  /\ phase = "bind" /\ sub # <<>>
  /\ LET d == DecodeOne(sub)
         r == Bind(bound, d.p)
     IN
     \/ /\ d.out # Ok
        /\ dres' = d.out /\ phase' = "done"
        /\ UNCHANGED <<sub, bound>>
     \/ /\ d.out = Ok /\ r.out # Ok
        /\ dres' = r.out /\ phase' = "done"
        /\ UNCHANGED <<sub, bound>>
     \/ /\ d.out = Ok /\ r.out = Ok
        /\ bound' = r.b /\ sub' = d.rest
        /\ UNCHANGED <<dres, phase>>
  /\ UNCHANGED <<pkt, chain, body, eres, src, wire, slack, prefix>>

\* The sub-view is empty: the iterator ends and the packet is built.
EndOfProperties ==
  /\ phase = "bind" /\ sub = <<>>
  /\ dres' = Ok /\ phase' = "done"
  /\ UNCHANGED <<pkt, chain, body, eres, src, sub, bound, wire, slack, prefix>>

-----------------------------------------------------------------------------

\* A section as a peer following the MQTT table sends it.  The kind
\* "Unassigned" stands for an identifier byte the table does not assign.
SpecEncoded(p) ==
  IF p.k = "Unassigned" THEN <<p.v>> ELSE <<Identifier[p.k]>> \o ValBytes(p.k, p.v)

\* The section length as a peer may write it: in the fewest bytes, padded
\* with a zero group, with four continuation bytes first, or cut off
\* after its first byte.
PrefixForms == {"canonical", "padded", "overlong", "cut"}

PrefixBytes(n, form) ==
  LET c == VarIntBytes(n) IN
  CASE form = "canonical" -> c
    [] form = "padded"    -> Front(c) \o <<Last(c) + 128, 0>>
    [] form = "overlong"  -> <<128, 128, 128, 128>> \o c
    [] form = "cut"       -> <<Head(c) + 128>>

WireSection(ps, d, form) ==
  LET b == FlattenSeq([i \in DOMAIN ps |-> SpecEncoded(ps[i])]) IN
  IF form = "cut" THEN PrefixBytes(Len(b) + d, form)
  ELSE PrefixBytes(Len(b) + d, form) \o b

Init ==
  /\ body = <<>> /\ sub = <<>> /\ bound = EmptyBinding /\ dres = Pending
  /\ \/ /\ phase = "encode" /\ pkt \in Packets /\ chain = Chain(pkt)
        /\ eres = Pending /\ src = <<>> /\ wire = <<>> /\ slack = 0
        /\ prefix = "canonical"
     \/ /\ phase = "decode" /\ pkt = Absent /\ chain = <<>> /\ eres = Pending
        /\ wire \in BoundedSeq(WireProps, MaxProps)
        /\ slack \in IF wire = <<>> THEN {0, 1} ELSE {-1, 0, 1}
        /\ prefix \in IF slack = 0 THEN PrefixForms ELSE {"canonical"}
        /\ src = WireSection(wire, slack, prefix)

Next ==
  \/ EncodeProperty
  \/ EncodeLength
  \/ DecodeAll
  \/ DecodeProperty
  \/ EndOfProperties

Spec == Init /\ [][Next]_vars

\* Every call that has begun returns: Property::encode_all, decode_all and
\* the loop of decode_properties! are plain function calls with no await,
\* lock or blocking read in them, so a step that can be taken is taken.
FairSpec == Spec /\ WF_vars(Next)

-----------------------------------------------------------------------------
(* Reference definitions, from the MQTT 5 specification of the property   *)
(* section (2.2.2 and the table of 3.x), not from the code.               *)

\* What a receiver must reject in a single property: a byte outside the
\* table, a bool or QoS byte other than 0 or 1, and a zero Maximum Packet
\* Size, Receive Maximum or Topic Alias.
SpecRejects(p) ==
  IF p.k = "Unassigned" THEN ErrOf("UnrecognizedPropertyIdentifier", p.v)
  ELSE CASE Shape[p.k] \in {"bool", "qos"} /\ p.v > 1 -> ErrOf("UnrecognizedValue", p.k)
         [] p.k \in {"MaximumPacketSize", "ReceiveMaximum", "TopicAlias"} /\ p.v = 0
              -> ErrOf("InvalidValue", p.k)
         [] OTHER -> Ok

\* The first error of a section, reading in order: the property's own
\* value, then whether the packet takes it, then whether it is repeated
\* without being list-valued.
RECURSIVE RefOutcome(_, _)
RefOutcome(ps, seen) ==
  IF ps = <<>> THEN Ok
  ELSE LET p == Head(ps) IN
       CASE SpecRejects(p) # Ok -> SpecRejects(p)
         [] p.k \notin Expected -> Err("UnexpectedProperty")
         [] p.k \notin ListKinds /\ p.k \in seen -> ErrOf("DuplicateProperty", p.k)
         [] OTHER -> RefOutcome(Tail(ps), seen \cup {p.k})

\* A section length of more than four bytes is too high; one cut off is
\* incomplete; a padded one means what it says.  A section declared one
\* byte longer than its bytes is incomplete; one declared one byte shorter cuts its last property short, or leaves it out
\* when that property is a lone identifier byte.
RefDecode(ps, d, form) ==
  CASE form = "overlong" -> Err("RemainingLengthTooHigh")
    [] form = "cut" -> Err("IncompletePacket")
    [] d = 1  -> Err("IncompletePacket")
    [] d = -1 -> IF RefOutcome(Front(ps), {}) = Ok /\ Len(SpecEncoded(Last(ps))) > 1
                 THEN Err("IncompletePacket")
                 ELSE RefOutcome(Front(ps), {})
    [] OTHER  -> RefOutcome(ps, {})

\* The value of each property in a section: list-valued ones in order.
RefBinding(ps) ==
  FoldLeft(LAMBDA b, p :
             IF p.k \in ListKinds THEN [b EXCEPT ![p.k] = Append(@, p.v)]
             ELSE [b EXCEPT ![p.k] = p.v],
           EmptyBinding, ps)

\* What a CONNACK must look like after a round trip: an Option field at
\* the value the encoder leaves out comes back as None.
Canon(c) ==
  [k \in DOMAIN c |->
     IF ConnAckDefault[k] = Absent /\ c[k] # Absent /\ Omitted([k |-> k, v |-> c[k]])
     THEN Absent ELSE c[k]]

-----------------------------------------------------------------------------
(* Properties.                                                             *)

Names == {"Pending", "Ok", "IncompletePacket", "RemainingLengthTooHigh",
          "UnrecognizedPropertyIdentifier", "UnrecognizedValue", "InvalidValue",
          "UnexpectedProperty", "DuplicateProperty"}

TypeOK ==
  /\ phase \in {"encode", "decode", "bind", "done"}
  /\ body \in Seq(0 .. 255) /\ src \in Seq(0 .. 255) /\ sub \in Seq(0 .. 255)
  /\ DOMAIN bound = Kinds
  /\ \A k \in ListKinds : DOMAIN bound[k] = 1 .. Len(bound[k])
  /\ eres.err \in Names /\ dres.err \in Names
  /\ slack \in {-1, 0, 1} /\ prefix \in PrefixForms

\* Round trip of ConnAck::encode and ConnAck::decode: whatever CONNACK the
\* encoder accepts, a peer decoding its property section gets back every
\* field, up to the defaults encode_properties! leaves out.
RoundTrip ==
  phase = "done" /\ pkt # Absent /\ eres = Ok =>
    /\ dres = Ok
    /\ Decoded(bound) = Canon(pkt)

\* decode_all, Property::decode and the arms of decode_properties! reject a
\* section exactly as the MQTT specification says, with the error of its
\* first offending property, and otherwise bind the first value of every
\* property and all values of a list-valued one, in order.
DecodeMatchesSpec ==
  phase = "done" /\ pkt = Absent =>
    /\ dres = RefDecode(wire, slack, prefix)
    /\ dres = Ok => bound = RefBinding(IF slack = -1 THEN Front(wire) ELSE wire)

\* The loop of decode_properties! over PropertyDecodeIter ends, with Ok or
\* with the first error: every next() on a non-empty sub-view consumes at
\* least the identifier byte, or fails and ends the loop.
Terminates == <>(phase = "done")

=============================================================================
