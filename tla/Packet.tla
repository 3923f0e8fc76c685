-------------------------------- MODULE Packet --------------------------------
(***************************************************************************)
(* The packets of MQTT 3.1.1 (src/mqtt-proto/src/v3.rs) and 5.0            *)
(* (src/mqtt-proto/src/v5/) other than CONNECT: CONNACK, PUBLISH, its     *)
(* acknowledgements PUBACK, PUBREC, PUBREL and PUBCOMP, SUBSCRIBE, SUBACK, *)
(* UNSUBSCRIBE, UNSUBACK, PINGREQ, PINGRESP, DISCONNECT and AUTH (v5), with *)
(* the packet-level encode and decode of v3.rs and v5/mod.rs that frame    *)
(* them.                                                                   *)
(*                                                                         *)
(* Encoding is one step: encode picks the first-byte flags, and            *)
(* encode_inner writes the first byte, the remaining length and the body   *)
(* into a destination with room for it.  A peer then decodes the bytes.    *)
(*                                                                         *)
(* Decoding is one step per block: decode_fixed_header with the match of   *)
(* decode on type and flags; then the blocks of the packet's decode (a     *)
(* packet identifier, a v5 reason code, one decode_properties! call, one   *)
(* iteration of a topic-filter loop, a run of codes, a payload); last the  *)
(* trailing-garbage check of decode.                                       *)
(*                                                                         *)
(* Data abstraction as in module Property.  A SUBSCRIBE entry is the       *)
(* record of SubscribeTo (v3: no local, retain as published and retain    *)
(* handling at false, false, 0); an UNSUBSCRIBE entry is its topic filter. *)
(* A CONNACK's return code is its byte in reason, with session for        *)
(* session_present of Accepted (Success) and other for v3's               *)
(* Refused(Other(code)).                                                   *)
(***************************************************************************)
EXTENDS Integers, Sequences, SequencesExt

CONSTANTS
  Absent,    \* None of an Option field
  Packets,   \* packets given to encode
  Wires,     \* packets a peer sends, as the fields it lays out
  Versions   \* the decoders a packet may be handed to: 3 (v3), 5 (v5)

\* The properties each decode_properties! call binds.
PublishExpected ==
  {"PayloadIsUtf8", "MessageExpiryInterval", "TopicAlias", "ResponseTopic",
   "CorrelationData", "UserProperty", "SubscriptionIdentifier", "ContentType"}
AckExpected == {"ReasonString", "UserProperty"}
SubscribeExpected == {"SubscriptionIdentifier", "UserProperty"}
UnsubscribeExpected == {"UserProperty"}
DisconnectExpected ==
  {"SessionExpiryInterval", "ReasonString", "UserProperty", "ServerReference"}
AuthExpected ==
  {"AuthenticationMethod", "AuthenticationData", "ReasonString", "UserProperty"}
ConnAckExpected ==
  {"SessionExpiryInterval", "ReceiveMaximum", "MaximumQoS", "RetainAvailable",
   "MaximumPacketSize", "AssignedClientIdentifier", "TopicAliasMaximum",
   "ReasonString", "UserProperty", "WildcardSubscriptionAvailable",
   "SharedSubscriptionAvailable", "SubscriptionIdentifierAvailable",
   "ServerKeepAlive", "ResponseInformation", "ServerReference",
   "AuthenticationMethod", "AuthenticationData"}

\* One instance per call.  Only PUBLISH binds its subscription identifiers
\* as a Vec; SUBSCRIBE binds one.
PP == INSTANCE Property WITH Expected <- PublishExpected,
                             Lists <- {"UserProperty", "SubscriptionIdentifier"}
AP == INSTANCE Property WITH Expected <- AckExpected, Lists <- {"UserProperty"}
SP == INSTANCE Property WITH Expected <- SubscribeExpected, Lists <- {"UserProperty"}
UP == INSTANCE Property WITH Expected <- UnsubscribeExpected, Lists <- {"UserProperty"}
DP == INSTANCE Property WITH Expected <- DisconnectExpected, Lists <- {"UserProperty"}
XP == INSTANCE Property WITH Expected <- AuthExpected, Lists <- {"UserProperty"}
CP == INSTANCE Property WITH Expected <- ConnAckExpected, Lists <- {"UserProperty"}

Ok == PP!Ok
Err(e) == PP!Err(e)

VARIABLES
  pc,       \* the block of the decoder next to run, "encode" or "done"
  version,  \* the decoder the packet is handed to
  pkt,      \* ghost: the packet being encoded, or Absent
  wire,     \* ghost: the fields a peer laid out, or Absent
  eres,     \* outcome of encode
  src,      \* the bytes not yet consumed
  got,      \* what the decoder has read so far
  dres      \* outcome of decode

vars == <<pc, version, pkt, wire, eres, src, got, dres>>

-----------------------------------------------------------------------------
(* The packets.                                                            *)

\* PACKET_TYPE, the high nibble of the first byte.
PacketType == [ConnAck |-> 32, Publish |-> 48, PubAck |-> 64, PubRec |-> 80, PubRel |-> 96,
               PubComp |-> 112, Subscribe |-> 128, SubAck |-> 144,
               Unsubscribe |-> 160, UnsubAck |-> 176, PingReq |-> 192,
               PingResp |-> 208, Disconnect |-> 224, Auth |-> 240]

\* The types of a version's Packet enum (AUTH is new in MQTT 5).
Types(v) == IF v = 5 THEN DOMAIN PacketType ELSE DOMAIN PacketType \ {"Auth"}

AckTypes == {"PubAck", "PubRec", "PubRel", "PubComp"}

\* The packets whose body starts with a packet identifier.
IdTypes == AckTypes \cup {"Subscribe", "SubAck", "Unsubscribe", "UnsubAck"}

\* The v5 packets whose reason code and properties may be left out.
OptionalTypes == AckTypes \cup {"Disconnect", "Auth"}

\* The codes define_u8_code! knows for each v5 reason code.
ReasonCodes ==
  LET pub == {0, 16, 128, 131, 135, 144, 145, 151, 153} IN
  [PubAck |-> pub, PubRec |-> pub, PubRel |-> {0, 146}, PubComp |-> {0, 146},
   Disconnect |-> {0, 4, 128, 129, 130, 131, 135, 137, 139, 141, 142, 143, 144,
                   147, 148, 149, 150, 151, 152, 153, 154, 155, 156, 157, 158,
                   159, 160, 161, 162},
   Auth |-> {0, 24, 25}]

\* The v5 ConnectionRefusedReason codes (0 is Success).
ConnectReasonCodes ==
  {128, 129, 130, 131, 132, 133, 134, 135, 136, 137, 138, 140, 144, 149, 151,
   153, 154, 155, 156, 157, 159}

\* The codes of a SUBACK (v3: SubAckQos, v5: SubscribeReasonCode) and of a
\* v5 UNSUBACK (UnsubscribeReasonCode), and the error for another byte.
Codes(t, v) ==
  CASE t = "SubAck" /\ v = 3 -> {0, 1, 2, 128}
    [] t = "SubAck"          -> {0, 1, 2, 128, 131, 135, 143, 145, 151, 158, 161, 162}
    [] OTHER                 -> {0, 1, 128, 131, 135, 143, 145}
CodeError(t, v) ==
  IF t = "SubAck" /\ v = 3 THEN Err("UnrecognizedQoS") ELSE Err("UnrecognizedReasonCode")

\* The fields of encode_properties! in order, and what decode makes of a
\* missing property (unwrap_or(false), None, an empty Vec).
PublishOrder ==
  <<"PayloadIsUtf8", "MessageExpiryInterval", "TopicAlias", "ResponseTopic",
    "CorrelationData", "UserProperty", "SubscriptionIdentifier", "ContentType">>
PublishDefault ==
  [PayloadIsUtf8 |-> 0, MessageExpiryInterval |-> Absent, TopicAlias |-> Absent,
   ResponseTopic |-> Absent, CorrelationData |-> Absent, UserProperty |-> <<>>,
   SubscriptionIdentifier |-> <<>>, ContentType |-> Absent]
AckOrder == <<"ReasonString", "UserProperty">>
AckDefault == [ReasonString |-> Absent, UserProperty |-> <<>>]
SubscribeOrder == <<"SubscriptionIdentifier", "UserProperty">>
SubscribeDefault == [SubscriptionIdentifier |-> Absent, UserProperty |-> <<>>]
UnsubscribeOrder == <<"UserProperty">>
UnsubscribeDefault == [UserProperty |-> <<>>]
DisconnectOrder ==
  <<"SessionExpiryInterval", "ReasonString", "UserProperty", "ServerReference">>
DisconnectDefault ==
  [SessionExpiryInterval |-> Absent, ReasonString |-> Absent, UserProperty |-> <<>>,
   ServerReference |-> Absent]
AuthOrder ==
  <<"AuthenticationMethod", "AuthenticationData", "ReasonString", "UserProperty">>
AuthDefault ==
  [AuthenticationMethod |-> Absent, AuthenticationData |-> Absent,
   ReasonString |-> Absent, UserProperty |-> <<>>]

ConnAckOrder ==
  <<"SessionExpiryInterval", "ReceiveMaximum", "MaximumQoS", "RetainAvailable",
    "MaximumPacketSize", "AssignedClientIdentifier", "TopicAliasMaximum",
    "ReasonString", "UserProperty", "WildcardSubscriptionAvailable",
    "SharedSubscriptionAvailable", "SubscriptionIdentifierAvailable",
    "ServerKeepAlive", "ResponseInformation", "ServerReference",
    "AuthenticationMethod", "AuthenticationData">>
ConnAckDefault ==
  [SessionExpiryInterval |-> Absent, ReceiveMaximum |-> 65535,
   MaximumQoS |-> 2, RetainAvailable |-> 1, MaximumPacketSize |-> Absent,
   AssignedClientIdentifier |-> Absent, TopicAliasMaximum |-> 0,
   ReasonString |-> Absent, UserProperty |-> <<>>,
   WildcardSubscriptionAvailable |-> 1, SharedSubscriptionAvailable |-> 1,
   SubscriptionIdentifierAvailable |-> 1, ServerKeepAlive |-> Absent,
   ResponseInformation |-> Absent, ServerReference |-> Absent,
   AuthenticationMethod |-> Absent, AuthenticationData |-> Absent]

\* The properties a v5 packet with an optional variable header has when it
\* carries none.
OptionalDefault(t) ==
  CASE t = "Disconnect" -> DisconnectDefault
    [] t = "Auth"       -> AuthDefault
    [] OTHER            -> AckDefault

Filled(d, b) == [k \in DOMAIN d |-> IF b[k] = Absent THEN d[k] ELSE b[k]]

\* Bit m (a power of two) of the byte f.
Bit(f, m) == (f \div m) % 2 = 1

-----------------------------------------------------------------------------
(* encode.                                                                 *)

\* Faulty variant of PublishFlags: DUP is not written.
PublishFlagsNoDup(p) == 2 * p.qos + (IF p.retain THEN 1 ELSE 0)

\* The flags of a PUBLISH: from PacketIdentifierDupQoS (QoS in bits 1-2,
\* DUP in bit 3, never with QoS 0), and RETAIN in bit 0.
PublishFlags(p) ==
  2 * p.qos + (IF p.qos > 0 /\ p.dup THEN 8 ELSE 0) + (IF p.retain THEN 1 ELSE 0)

\* The first byte encode_inner writes: PUBLISH's flags, 2 for PUBREL,
\* SUBSCRIBE and UNSUBSCRIBE, 0 otherwise.
FirstByte(p) ==
  PacketType[p.type] + CASE p.type = "Publish"                             -> PublishFlags(p)
                         [] p.type \in {"PubRel", "Subscribe", "Unsubscribe"} -> 2
                         [] OTHER                                            -> 0

NoSection == [out |-> Ok, bytes |-> <<>>]

\* Publish::encode: topic, the packet identifier for QoS 1 and 2, the v5
\* properties, the payload.
PublishBody(p) ==
  LET ps == IF p.version = 5
            THEN PP!EncodeSection(PP!ChainOf(PublishOrder, p.props)) ELSE NoSection
  IN [out |-> ps.out,
      bytes |-> PP!Str(p.topic) \o (IF p.qos = 0 THEN <<>> ELSE PP!U16(p.pid))
                \o ps.bytes \o p.payload]

\* A v5 packet with an optional variable header writes its reason code and
\* properties unless the code is the default (Success, Normal) and there
\* are no properties.
NeedVariableHeader(p) == p.reason # 0 \/ p.props # OptionalDefault(p.type)

\* PubAck::encode (and PubRec, PubRel, PubComp): the packet identifier,
\* then in v5 the variable header when it is needed.
AckBody(p) ==
  IF p.version = 5 /\ NeedVariableHeader(p)
  THEN LET ps == AP!EncodeSection(AP!ChainOf(AckOrder, p.props)) IN
       [out |-> ps.out, bytes |-> PP!U16(p.pid) \o <<p.reason>> \o ps.bytes]
  ELSE [out |-> Ok, bytes |-> PP!U16(p.pid)]

\* Disconnect::encode and Auth::encode of v5: the variable header when it
\* is needed; v3's Disconnect::encode writes nothing.
ControlBody(p) ==
  IF p.version = 5 /\ NeedVariableHeader(p)
  THEN LET ps == IF p.type = "Disconnect"
                 THEN DP!EncodeSection(DP!ChainOf(DisconnectOrder, p.props))
                 ELSE XP!EncodeSection(XP!ChainOf(AuthOrder, p.props))
       IN [out |-> ps.out, bytes |-> <<p.reason>> \o ps.bytes]
  ELSE NoSection

\* The subscription options byte: maximum QoS in bits 0-1, no local in
\* bit 2, retain as published in bit 3, retain handling in bits 4-5 (v3
\* writes the QoS alone, and its other fields are 0).
OptionsByte(e) ==
  e.qos + (IF e.noLocal THEN 4 ELSE 0) + (IF e.rap THEN 8 ELSE 0) + 16 * e.rh

\* Subscribe::encode: the packet identifier, the v5 properties, then each
\* topic filter with its options.
SubscribeBody(p) ==
  LET ps == IF p.version = 5
            THEN SP!EncodeSection(SP!ChainOf(SubscribeOrder, p.props)) ELSE NoSection
  IN [out |-> ps.out,
      bytes |-> PP!U16(p.pid) \o ps.bytes
                \o FoldLeft(LAMBDA b, e : b \o PP!Str(e.filter) \o <<OptionsByte(e)>>,
                            <<>>, p.entries)]

\* Unsubscribe::encode: the packet identifier, the v5 properties, then
\* each topic filter.
UnsubscribeBody(p) ==
  LET ps == IF p.version = 5
            THEN UP!EncodeSection(UP!ChainOf(UnsubscribeOrder, p.props)) ELSE NoSection
  IN [out |-> ps.out,
      bytes |-> PP!U16(p.pid) \o ps.bytes
                \o FoldLeft(LAMBDA b, f : b \o PP!Str(f), <<>>, p.filters)]

\* SubAck::encode and UnsubAck::encode: the packet identifier, the v5
\* properties, then one byte per code (v3's UNSUBACK has none).
SubAckBody(p) ==
  LET ps == IF p.version = 5
            THEN AP!EncodeSection(AP!ChainOf(AckOrder, p.props)) ELSE NoSection
  IN [out |-> ps.out, bytes |-> PP!U16(p.pid) \o ps.bytes \o p.codes]

\* ConnAck::encode: the acknowledge flags (session present only with an
\* Accepted/Success code), the code byte (u8::from: Other(code) is code),
\* then in v5 the properties.
ConnAckBody(p) ==
  LET sp == IF p.reason = 0 /\ ~p.other /\ p.session THEN 1 ELSE 0
      ps == IF p.version = 5
            THEN CP!EncodeSection(CP!ChainOf(ConnAckOrder, p.props)) ELSE NoSection
  IN [out |-> ps.out, bytes |-> <<sp, p.reason>> \o ps.bytes]

\* The body a packet's encode writes; PINGREQ and PINGRESP write none.
EncodeBody(p) ==
  CASE p.type = "ConnAck"                   -> ConnAckBody(p)
    [] p.type = "Publish"                   -> PublishBody(p)
    [] p.type \in AckTypes                  -> AckBody(p)
    [] p.type = "Subscribe"                 -> SubscribeBody(p)
    [] p.type = "Unsubscribe"               -> UnsubscribeBody(p)
    [] p.type \in {"SubAck", "UnsubAck"}    -> SubAckBody(p)
    [] p.type \in {"Disconnect", "Auth"}    -> ControlBody(p)
    [] OTHER                                -> NoSection

\* encode_inner, given the outcome b of the body: the ByteCounter pass
\* fails as the body does; otherwise the first byte, the remaining length
\* it counted, and the body.
EncodeInner(p, b) ==
  IF b.out # Ok THEN [out |-> b.out, bytes |-> <<>>]
  ELSE [out |-> Ok, bytes |-> <<FirstByte(p)>> \o PP!VarIntBytes(Len(b.bytes)) \o b.bytes]

EncodePacket(p) == EncodeInner(p, EncodeBody(p))

-----------------------------------------------------------------------------
(* decode.                                                                 *)

\* An error ends the decoder.
Fail(e) == dres' = e /\ pc' = "done" /\ UNCHANGED <<src, got>>

\* The decoder goes on to block next with what it read.
Continue(next, rest, g) == pc' = next /\ src' = rest /\ got' = g /\ UNCHANGED dres

\* Faulty variant of GetPacketIdentifier: 0 is let through.
GetPacketIdentifierUnchecked(s) == PP!GetU16(s)

\* Shared::try_get_packet_identifier: a u16, and 0 is refused.
GetPacketIdentifier(s) ==
  LET n == PP!GetU16(s) IN
  IF n.out = Ok /\ n.v = 0 THEN [n EXCEPT !.out = Err("ZeroPacketIdentifier")] ELSE n

\* The type a first byte names in the Packet enum of decoder v, and the
\* flags decode accepts with it (any for PUBLISH, 2 for PUBREL, SUBSCRIBE
\* and UNSUBSCRIBE, 0 otherwise).
TypeOf(v, first) == {t \in Types(v) : PacketType[t] = first - (first % 16)}

FlagsAccepted(t, f) ==
  t = "Publish" \/ f = (IF t \in {"PubRel", "Subscribe", "Unsubscribe"} THEN 2 ELSE 0)

\* The block a packet's decode starts with: PINGREQ, PINGRESP and v3's
\* DISCONNECT read nothing.
FirstBlock(t, v) ==
  CASE t = "ConnAck"                               -> "connack"
    [] t = "Publish"                               -> "topic"
    [] t \in IdTypes                               -> "identifier"
    [] v = 5 /\ t \in {"Disconnect", "Auth"}       -> "reason"
    [] OTHER                                       -> "trailing"

\* decode_fixed_header (first byte and remaining length d, read from a
\* complete packet), then the match of decode on type and flags.
FixedHeaderRead(first, d, rest) ==
  LET body == SubSeq(rest, d.len + 1, d.len + d.val)
      ts   == TypeOf(version, first)
      t    == CHOOSE x \in ts : TRUE
  IN
  /\ d.res = "Some" /\ Len(rest) >= d.len + d.val
  /\ IF ts = {} \/ ~FlagsAccepted(t, first % 16)
     THEN Fail(Err("UnrecognizedPacket"))
     ELSE Continue(FirstBlock(t, version), body,
                   [got EXCEPT !.type = t, !.flags = first % 16])

DecodeFixedHeader ==
  /\ pc = "header"
  /\ src # <<>>
  /\ FixedHeaderRead(Head(src), PP!VarIntDecode(Tail(src)), Tail(src))
  /\ UNCHANGED <<version, pkt, wire, eres>>

\* Publish::decode up to the properties, given the topic t and the packet
\* identifier i after it: DUP with QoS 0 is refused, QoS 3 is
\* UnrecognizedQoS, QoS 1 and 2 read the packet identifier.
PublishHeaderRead(t, i) ==
  LET qos  == (got.flags \div 2) % 4
      dup  == Bit(got.flags, 8)
      next == IF version = 5 THEN "properties" ELSE "payload"
  IN
  CASE t.out # Ok       -> Fail(t.out)
    [] qos = 0 /\ dup   -> Fail(Err("PublishDupAtMostOnce"))
    [] qos = 0          -> Continue(next, t.rest, [got EXCEPT !.topic = t.v,
                                                   !.retain = Bit(got.flags, 1)])
    [] qos = 3          -> Fail(Err("UnrecognizedQoS"))
    [] i.out # Ok       -> Fail(i.out)
    [] OTHER            -> Continue(next, i.rest,
                             [got EXCEPT !.topic = t.v, !.qos = qos, !.pid = i.v,
                                         !.dup = dup, !.retain = Bit(got.flags, 1)])

DecodePublishHeader ==
  /\ pc = "topic"
  /\ LET t == PP!GetStr(src) IN PublishHeaderRead(t, GetPacketIdentifier(t.rest))
  /\ UNCHANGED <<version, pkt, wire, eres>>

\* One decode_properties! call, given the outcome r of the section, the
\* values d of the bindings it starts from, and the block after it.
PropertiesRead(r, d, next) ==
  IF r.out # Ok THEN Fail(r.out)
  ELSE Continue(next, r.rest, [got EXCEPT !.props = Filled(d, r.b)])

\* v5: the properties of a PUBLISH, then its payload.
DecodePublishProperties ==
  /\ pc = "properties"
  /\ PropertiesRead(PP!DecodeSection(src), PublishDefault, "payload")
  /\ UNCHANGED <<version, pkt, wire, eres>>

\* The payload is all the rest of the body.
DecodePayload ==
  /\ pc = "payload"
  /\ Continue("trailing", <<>>, [got EXCEPT !.payload = src])
  /\ UNCHANGED <<version, pkt, wire, eres>>

\* ConnAck::decode up to its properties, given the flags byte f and the
\* code byte c after it: flags other than 0 and 1 are refused; v3's
\* ConnectReturnCode::from takes any code (1 to 5 by name, the rest as
\* Other), v5's refuses one that is neither Success nor a
\* ConnectionRefusedReason.  Only Accepted/Success keeps session present.
ConnAckHeaderRead(f, c) ==
  CASE f.out # Ok                  -> Fail(f.out)
    [] f.v \notin {0, 1}           -> Fail(Err("UnrecognizedConnAckFlags"))
    [] c.out # Ok                  -> Fail(c.out)
    [] version = 5 /\ c.v # 0 /\ c.v \notin ConnectReasonCodes
                                   -> Fail(Err("UnrecognizedConnectReasonCode"))
    [] OTHER -> Continue(IF version = 5 THEN "connackproperties" ELSE "trailing", c.rest,
                         [got EXCEPT !.reason = c.v, !.session = (c.v = 0 /\ f.v = 1),
                                     !.other = (version = 3 /\ c.v > 5)])

DecodeConnAckHeader ==
  /\ pc = "connack"
  /\ LET f == PP!GetU8(src) IN ConnAckHeaderRead(f, PP!GetU8(f.rest))
  /\ UNCHANGED <<version, pkt, wire, eres>>

\* v5: the properties of a CONNACK, with the unwrap_or defaults.
DecodeConnAckProperties ==
  /\ pc = "connackproperties"
  /\ PropertiesRead(CP!DecodeSection(src), ConnAckDefault, "trailing")
  /\ UNCHANGED <<version, pkt, wire, eres>>

\* What follows the packet identifier: in v5 an acknowledgement's reason
\* code or a packet's properties, in v3 the topic filters of SUBSCRIBE and
\* UNSUBSCRIBE, the codes of SUBACK, and nothing else.
AfterIdentifier(t, v) ==
  CASE v = 5 /\ t \in AckTypes                    -> "reason"
    [] v = 5 /\ t = "Subscribe"                   -> "subproperties"
    [] v = 5 /\ t = "Unsubscribe"                 -> "unsubproperties"
    [] v = 5                                      -> "ackproperties"
    [] t \in {"Subscribe", "Unsubscribe"}         -> "entries"
    [] t = "SubAck"                               -> "codes"
    [] OTHER                                      -> "trailing"

\* try_get_packet_identifier, the first read of every packet with one.
DecodeIdentifier ==
  /\ pc = "identifier"
  /\ LET i == GetPacketIdentifier(src) IN
     IF i.out # Ok THEN Fail(i.out)
     ELSE Continue(AfterIdentifier(got.type, version), i.rest, [got EXCEPT !.pid = i.v])
  /\ UNCHANGED <<version, pkt, wire, eres>>

\* The decode_properties! block after a v5 reason code.
ReasonPropertiesBlock(t) ==
  CASE t = "Disconnect" -> "disconnectproperties"
    [] t = "Auth"       -> "authproperties"
    [] OTHER            -> "ackproperties"

\* v5 acknowledgements, DISCONNECT and AUTH: with no byte left
\* (try_get_u8 is IncompletePacket) the packet is Success or Normal with no
\* properties; otherwise the byte is a reason code of the packet's table
\* and the properties follow.
AckReasonRead(r) ==
  CASE r.out # Ok                         -> Continue("trailing", src,
                                               [got EXCEPT !.reason = 0,
                                                   !.props = OptionalDefault(got.type)])
    [] r.v \notin ReasonCodes[got.type]   -> Fail(Err("UnrecognizedReasonCode"))
    [] OTHER                              -> Continue(ReasonPropertiesBlock(got.type),
                                               r.rest, [got EXCEPT !.reason = r.v])

DecodeAckReason ==
  /\ pc = "reason"
  /\ AckReasonRead(PP!GetU8(src))
  /\ UNCHANGED <<version, pkt, wire, eres>>

\* The properties of PUBACK, PUBREC, PUBREL, PUBCOMP (then the end), and
\* of SUBACK and UNSUBACK (then their codes).
DecodeAckProperties ==
  /\ pc = "ackproperties"
  /\ PropertiesRead(AP!DecodeSection(src), AckDefault,
                    IF got.type \in AckTypes THEN "trailing" ELSE "codes")
  /\ UNCHANGED <<version, pkt, wire, eres>>

DecodeSubscribeProperties ==
  /\ pc = "subproperties"
  /\ PropertiesRead(SP!DecodeSection(src), SubscribeDefault, "entries")
  /\ UNCHANGED <<version, pkt, wire, eres>>

DecodeUnsubscribeProperties ==
  /\ pc = "unsubproperties"
  /\ PropertiesRead(UP!DecodeSection(src), UnsubscribeDefault, "entries")
  /\ UNCHANGED <<version, pkt, wire, eres>>

DecodeDisconnectProperties ==
  /\ pc = "disconnectproperties"
  /\ PropertiesRead(DP!DecodeSection(src), DisconnectDefault, "trailing")
  /\ UNCHANGED <<version, pkt, wire, eres>>

\* Auth::decode: the properties, then a missing authentication method is
\* MissingRequiredProperty.
AuthPropertiesRead(r) ==
  IF r.out = Ok /\ r.b.AuthenticationMethod = Absent
  THEN Fail(PP!ErrOf("MissingRequiredProperty", "AuthenticationMethod"))
  ELSE PropertiesRead(r, AuthDefault, "trailing")

DecodeAuthProperties ==
  /\ pc = "authproperties"
  /\ AuthPropertiesRead(XP!DecodeSection(src))
  /\ UNCHANGED <<version, pkt, wire, eres>>

\* Faulty variant of SubscribeToRead: reserved option bits are let through.
SubscribeToReadReservedAllowed(f, o) ==
  LET qos == o.v % 4
      rh  == (o.v \div 16) % 4
  IN
  CASE f.out # Ok                        -> Fail(f.out)
    [] o.out # Ok                        -> Fail(o.out)
    [] version = 3 /\ o.v > 2            -> Fail(Err("UnrecognizedQoS"))
    [] qos = 3                           -> Fail(Err("UnrecognizedQoS"))
    [] rh = 3                            -> Fail(Err("UnrecognizedRetainHandling"))
    [] OTHER -> Continue("entries", o.rest,
                  [got EXCEPT !.entries = Append(@,
                     [filter |-> f.v, qos |-> qos, noLocal |-> Bit(o.v, 4),
                      rap |-> Bit(o.v, 8), rh |-> rh])])

\* One iteration of Subscribe::decode's loop, given the topic filter f and
\* the options byte o after it.  v3 takes the byte as a QoS; v5 checks the
\* maximum QoS, the retain handling, then the reserved bits 6-7.
SubscribeToRead(f, o) ==
  LET qos == o.v % 4
      rh  == (o.v \div 16) % 4
  IN
  CASE f.out # Ok                        -> Fail(f.out)
    [] o.out # Ok                        -> Fail(o.out)
    [] version = 3 /\ o.v > 2            -> Fail(Err("UnrecognizedQoS"))
    [] qos = 3                           -> Fail(Err("UnrecognizedQoS"))
    [] rh = 3                            -> Fail(Err("UnrecognizedRetainHandling"))
    [] o.v >= 64                         -> Fail(Err("SubscriptionOptionsReservedSet"))
    [] OTHER -> Continue("entries", o.rest,
                  [got EXCEPT !.entries = Append(@,
                     [filter |-> f.v, qos |-> qos, noLocal |-> Bit(o.v, 4),
                      rap |-> Bit(o.v, 8), rh |-> rh])])

DecodeSubscribeTo ==
  /\ pc = "entries" /\ got.type = "Subscribe" /\ src # <<>>
  /\ LET f == PP!GetStr(src) IN SubscribeToRead(f, PP!GetU8(f.rest))
  /\ UNCHANGED <<version, pkt, wire, eres>>

\* One iteration of Unsubscribe::decode's loop.
DecodeUnsubscribeFrom ==
  /\ pc = "entries" /\ got.type = "Unsubscribe" /\ src # <<>>
  /\ LET f == PP!GetStr(src) IN
     IF f.out # Ok THEN Fail(f.out)
     ELSE Continue("entries", f.rest, [got EXCEPT !.filters = Append(@, f.v)])
  /\ UNCHANGED <<version, pkt, wire, eres>>

\* The loop ends with the body; no topic filter at all is NoTopics.
DecodeEntriesEnd ==
  /\ pc = "entries" /\ src = <<>>
  /\ IF got.entries = <<>> /\ got.filters = <<>> THEN Fail(Err("NoTopics"))
     ELSE Continue("trailing", src, got)
  /\ UNCHANGED <<version, pkt, wire, eres>>

\* SubAck::decode and UnsubAck::decode after the properties: every byte
\* left is a code (the first unknown one is an error), all are drained,
\* and none at all is NoTopics.
CodesRead(t, v) ==
  CASE \E i \in DOMAIN src : src[i] \notin Codes(t, v) -> Fail(CodeError(t, v))
    [] src = <<>>                                     -> Fail(Err("NoTopics"))
    [] OTHER -> Continue("trailing", <<>>, [got EXCEPT !.codes = src])

DecodeCodes ==
  /\ pc = "codes"
  /\ CodesRead(got.type, version)
  /\ UNCHANGED <<version, pkt, wire, eres>>

\* decode refuses a body the packet's decoder did not consume.
DecodeTrailing ==
  /\ pc = "trailing"
  /\ IF src # <<>> THEN Fail(Err("TrailingGarbage"))
     ELSE dres' = Ok /\ pc' = "done" /\ UNCHANGED <<src, got>>
  /\ UNCHANGED <<version, pkt, wire, eres>>

\* encode of the packet; the bytes then go to a peer's decoder.
Encode ==
  /\ pc = "encode"
  /\ LET e == EncodePacket(pkt) IN
     /\ eres' = e.out
     /\ src' = e.bytes
     /\ pc' = IF e.out = Ok THEN "header" ELSE "done"
  /\ UNCHANGED <<version, pkt, wire, got, dres>>

-----------------------------------------------------------------------------

\* The body a peer lays out from the fields w, as MQTT lays it out: for a
\* PUBLISH the topic, the packet identifier for QoS 1 and 2, the v5
\* properties and the payload; for another packet each field it has of
\* the acknowledge flags, the packet identifier, the reason code, the
\* property section, the
\* topic filters with their options (none when o is -1), and the codes.
\* The bytes extra follow, and the last cut bytes are left out.
WireBody(w) ==
  LET b == IF TypeOf(w.version, w.first) = {"Publish"}
           THEN PP!Str(w.topic)
                \o (IF (w.first \div 2) % 4 \in {1, 2} THEN PP!U16(w.pid) ELSE <<>>)
                \o (IF w.version = 5 THEN PP!PeerSection(w.props) ELSE <<>>)
                \o w.payload
           ELSE (IF w.flags = Absent THEN <<>> ELSE <<w.flags>>)
                \o (IF w.pid = Absent THEN <<>> ELSE PP!U16(w.pid))
                \o (IF w.reason = Absent THEN <<>> ELSE <<w.reason>>)
                \o (IF w.props = Absent THEN <<>> ELSE PP!PeerSection(w.props))
                \o FoldLeft(LAMBDA x, e : x \o PP!Str(e.f) \o (IF e.o < 0 THEN <<>> ELSE <<e.o>>),
                            <<>>, w.entries)
                \o w.codes
      body == b \o w.extra
  IN SubSeq(body, 1, Len(body) - w.cut)

\* The whole packet: the first byte, the remaining length, the body.
WirePacket(w) == <<w.first>> \o PP!VarIntBytes(Len(WireBody(w))) \o WireBody(w)

NoneRead == [type |-> Absent, flags |-> 0, qos |-> 0, dup |-> FALSE,
             retain |-> FALSE, session |-> FALSE, other |-> FALSE, pid |-> Absent,
             topic |-> <<>>, payload |-> <<>>,
             reason |-> Absent, props |-> Absent, entries |-> <<>>, filters |-> <<>>,
             codes |-> <<>>]

Init ==
  /\ dres = PP!Pending /\ got = NoneRead
  /\ \/ /\ pc = "encode" /\ pkt \in Packets /\ wire = Absent /\ eres = PP!Pending
        /\ version = pkt.version /\ version \in Versions /\ src = <<>>
     \/ /\ pc = "header" /\ pkt = Absent /\ wire \in Wires /\ eres = Ok
        /\ version = wire.version /\ version \in Versions
        /\ src = WirePacket(wire)

Next ==
  \/ Encode
  \/ DecodeFixedHeader
  \/ DecodeConnAckHeader
  \/ DecodeConnAckProperties
  \/ DecodePublishHeader
  \/ DecodePublishProperties
  \/ DecodePayload
  \/ DecodeIdentifier
  \/ DecodeAckReason
  \/ DecodeAckProperties
  \/ DecodeSubscribeProperties
  \/ DecodeUnsubscribeProperties
  \/ DecodeDisconnectProperties
  \/ DecodeAuthProperties
  \/ DecodeSubscribeTo
  \/ DecodeUnsubscribeFrom
  \/ DecodeEntriesEnd
  \/ DecodeCodes
  \/ DecodeTrailing

Spec == Init /\ [][Next]_vars

-----------------------------------------------------------------------------
(* Reference definitions, from MQTT 3.1.1 sections 2.2 and 3.3 to 3.14,    *)
(* MQTT 5.0 sections 2.2 and 3.3 to 3.15, and spec.md section 4.5, not     *)
(* from the code.  Where a packet has several faults the first field in    *)
(* wire order is reported (neither standard orders them).                 *)

\* The properties a packet of type t may repeat.
RefLists(t) ==
  IF t = "Publish" THEN {"UserProperty", "SubscriptionIdentifier"} ELSE {"UserProperty"}

\* The properties of a packet of type t.
RefExpected(t) ==
  CASE t = "ConnAck"                    -> ConnAckExpected
    [] t = "Publish"                    -> PublishExpected
    [] t = "Subscribe"                  -> SubscribeExpected
    [] t = "Unsubscribe"                -> UnsubscribeExpected
    [] t = "Disconnect"                 -> DisconnectExpected
    [] t = "Auth"                       -> AuthExpected
    [] OTHER                            -> AckExpected

\* The properties of a section bound over the defaults d: all of a list,
\* the first of another.
RefProps(d, ps, lists) ==
  [k \in DOMAIN d |->
     LET sel == SelectSeq(ps, LAMBDA p : p.k = k) IN
     CASE k \in lists -> [i \in DOMAIN sel |-> sel[i].v]
       [] sel = <<>>  -> d[k]
       [] OTHER       -> sel[1].v]

\* The first property of ps a packet of type t may not carry, may not
\* carry twice, or carries with a value MQTT 5 forbids: a Subscription
\* Identifier of 0 (sections 3.3.2.3.8 and 3.8.2.1.2), a Receive Maximum,
\* Maximum Packet Size or Topic Alias of 0 (3.2.2.3.3, 3.2.2.3.6,
\* 3.3.2.3.4).  A property's value is judged before the packet's use of it,
\* as Property::decode runs before decode_properties! matches it.
RefSectionErr(ps, t) ==
  LET zero(i) == \/ ps[i].k = "SubscriptionIdentifier" /\ ps[i].v = 0
                 \/ ps[i].k \in {"ReceiveMaximum", "MaximumPacketSize", "TopicAlias"}
                    /\ ps[i].v = 0
      bad(i) == \/ ps[i].k \notin RefExpected(t)
                \/ ps[i].k \notin RefLists(t) /\ \E j \in 1 .. i - 1 : ps[j].k = ps[i].k
                \/ zero(i)
      bads   == {i \in DOMAIN ps : bad(i)}
      i      == Min(bads)
  IN CASE bads = {}                        -> Ok
       [] zero(i)                          -> PP!ErrOf("InvalidValue", ps[i].k)
       [] ps[i].k \notin RefExpected(t)    -> Err("UnexpectedProperty")
       [] OTHER                            -> PP!ErrOf("DuplicateProperty", ps[i].k)

\* A field of the body: the bytes it takes, and the outcome once whole.
Field(n, out) == [n |-> n, out |-> out]

IdField(w) == Field(2, IF w.pid = 0 THEN Err("ZeroPacketIdentifier") ELSE Ok)

SectionField(w, t) == Field(Len(PP!PeerSection(w.props)), RefSectionErr(w.props, t))

FieldsLen(fs) == FoldLeft(LAMBDA x, f : x + f.n, 0, fs)

\* The fields of a PUBLISH before its payload; the fixed-header flags
\* are judged with the topic.
RefPublishFields(w) ==
  LET qos == (w.first \div 2) % 4 IN
  << Field(2 + Len(w.topic),
           CASE qos = 3                    -> Err("UnrecognizedQoS")
             [] qos = 0 /\ Bit(w.first, 8) -> Err("PublishDupAtMostOnce")
             [] OTHER                      -> Ok) >>
  \o (IF qos \in {1, 2} THEN <<IdField(w)>> ELSE <<>>)
  \o (IF w.version = 5 THEN <<SectionField(w, "Publish")>> ELSE <<>>)

\* The first field cut short is IncompletePacket, the first bad one gives
\* its error.
RECURSIVE RefFirst(_, _)
RefFirst(fs, left) ==
  CASE fs = <<>>               -> Ok
    [] Head(fs).n > left       -> Err("IncompletePacket")
    [] Head(fs).out # Ok       -> Head(fs).out
    [] OTHER                   -> RefFirst(Tail(fs), left - Head(fs).n)

\* The fields fs, then the rest of the body judged as after.
RefThen(fs, left, after) == IF RefFirst(fs, left) # Ok THEN RefFirst(fs, left) ELSE after

\* The v5 packets whose variable header is optional, after pre bytes of
\* packet identifier: nothing more is Success (Normal); a reason code
\* alone is the code with no properties, except in AUTH (MQTT 5 3.15.2.1
\* allows only the empty form); a property section must then be whole
\* and fit the packet, and AUTH's must name its authentication method.
RefOptional(w, t, pre, left) ==
  LET body == WireBody(w)
      sec  == IF w.props = Absent THEN <<>> ELSE PP!PeerSection(w.props)
  IN
  CASE left < pre                                   -> Err("IncompletePacket")
    [] pre = 2 /\ w.pid = 0                         -> Err("ZeroPacketIdentifier")
    [] left = pre                                   -> Ok
    [] body[pre + 1] \notin ReasonCodes[t]          -> Err("UnrecognizedReasonCode")
    [] left = pre + 1                               -> IF t = "Auth" THEN Err("IncompletePacket")
                                                       ELSE Ok
    [] left < pre + 1 + Len(sec)                    -> Err("IncompletePacket")
    [] RefSectionErr(w.props, t) # Ok              -> RefSectionErr(w.props, t)
    [] t = "Auth" /\ \A i \in DOMAIN w.props : w.props[i].k # "AuthenticationMethod"
                                                    -> PP!ErrOf("MissingRequiredProperty",
                                                                "AuthenticationMethod")
    [] left > pre + 1 + Len(sec)                    -> Err("TrailingGarbage")
    [] OTHER                                        -> Ok

\* The options of a subscription (o is -1 for an UNSUBSCRIBE filter): v3
\* allows QoS 0 to 2 and nothing else; v5 refuses QoS 3, retain handling
\* 3 and the reserved bits 6-7.
RefOptionsErr(v, o) ==
  CASE o < 0                         -> Ok
    [] v = 3 /\ o > 2                -> Err("UnrecognizedQoS")
    [] o % 4 = 3                     -> Err("UnrecognizedQoS")
    [] (o \div 16) % 4 = 3           -> Err("UnrecognizedRetainHandling")
    [] o >= 64                       -> Err("SubscriptionOptionsReservedSet")
    [] OTHER                         -> Ok

\* The payload of SUBSCRIBE and UNSUBSCRIBE, left bytes of the entries es
\* of which n came before: at least one entry, each whole and valid.
\* (The peer packets of the model append no bytes after their entries.)
EntrySize(e) == 2 + Len(e.f) + (IF e.o < 0 THEN 0 ELSE 1)

RECURSIVE RefEntries(_, _, _, _)
RefEntries(v, es, left, n) ==
  CASE left <= 0 /\ n = 0                       -> Err("NoTopics")
    [] left <= 0                                -> Ok
    [] EntrySize(Head(es)) > left               -> Err("IncompletePacket")
    [] RefOptionsErr(v, Head(es).o) # Ok        -> RefOptionsErr(v, Head(es).o)
    [] OTHER -> RefEntries(v, Tail(es), left - EntrySize(Head(es)), n + 1)

\* The entries of es whole in left bytes.
RECURSIVE RefWhole(_, _)
RefWhole(es, left) ==
  IF es = <<>> \/ EntrySize(Head(es)) > left THEN <<>>
  ELSE <<Head(es)>> \o RefWhole(Tail(es), left - EntrySize(Head(es)))

\* The payload of SUBACK and UNSUBACK: at least one code, each known.
RefCodes(t, v, cs) ==
  CASE \E i \in DOMAIN cs : cs[i] \notin Codes(t, v) -> CodeError(t, v)
    [] cs = <<>>                                    -> Err("NoTopics")
    [] OTHER                                        -> Ok

\* The fields of a CONNACK: the acknowledge flags (bits 1-7 reserved), the
\* return code (v5: one of the table), the v5 properties.
RefConnAckFields(w) ==
  << Field(1, IF w.flags \in {0, 1} THEN Ok ELSE Err("UnrecognizedConnAckFlags")),
     Field(1, IF w.version = 5 /\ w.reason # 0 /\ w.reason \notin ConnectReasonCodes
              THEN Err("UnrecognizedConnectReasonCode") ELSE Ok) >>
  \o (IF w.version = 5 THEN <<SectionField(w, "ConnAck")>> ELSE <<>>)

\* The fields of a packet with a packet identifier, up to its payload.
RefIdFields(w, t) ==
  <<IdField(w)>> \o (IF w.version = 5 THEN <<SectionField(w, t)>> ELSE <<>>)

RefDecode(w) ==
  LET ts   == TypeOf(w.version, w.first)
      t    == CHOOSE x \in ts : TRUE
      v    == w.version
      body == WireBody(w)
      left == Len(body)
      fs   == RefIdFields(w, t)
  IN
  CASE ts = {} \/ ~FlagsAccepted(t, w.first % 16) -> Err("UnrecognizedPacket")
    [] t = "Publish"         -> RefFirst(RefPublishFields(w), left)
    [] t = "ConnAck"         -> LET cs == RefConnAckFields(w) IN
                                RefThen(cs, left,
                                        IF left > FieldsLen(cs) THEN Err("TrailingGarbage") ELSE Ok)
    [] v = 5 /\ t \in OptionalTypes
                             -> RefOptional(w, t, IF t \in AckTypes THEN 2 ELSE 0, left)
    [] t \in {"Subscribe", "Unsubscribe"}
                             -> RefThen(fs, left, RefEntries(v, w.entries, left - FieldsLen(fs), 0))
    [] t = "SubAck" \/ (t = "UnsubAck" /\ v = 5)
                             -> RefThen(fs, left, RefCodes(t, v, SubSeq(body, FieldsLen(fs) + 1, left)))
    [] t \in IdTypes         -> RefThen(<<IdField(w)>>, left,
                                        IF left > 2 THEN Err("TrailingGarbage") ELSE Ok)
    [] OTHER                 -> IF left > 0 THEN Err("TrailingGarbage") ELSE Ok

\* The packet a body stands for.
RefPacket(w) ==
  LET t    == CHOOSE x \in TypeOf(w.version, w.first) : TRUE
      v    == w.version
      body == WireBody(w)
      qos  == IF t = "Publish" THEN (w.first \div 2) % 4 ELSE 0
      hdr  == IF t = "Publish" THEN FieldsLen(RefPublishFields(w)) ELSE FieldsLen(RefIdFields(w, t))
      pre  == IF t \in AckTypes THEN 2 ELSE 0
      opt  == v = 5 /\ t \in OptionalTypes
      rest == SubSeq(body, hdr + 1, Len(body))
      whole == RefWhole(w.entries, Len(rest))
  IN
  [version |-> v, type |-> t, qos |-> qos,
   dup |-> qos > 0 /\ Bit(w.first, 8), retain |-> t = "Publish" /\ Bit(w.first, 1),
   session |-> t = "ConnAck" /\ w.flags = 1 /\ w.reason = 0,
   other |-> t = "ConnAck" /\ v = 3 /\ w.reason > 5,
   pid |-> IF t \in IdTypes \/ qos > 0 THEN w.pid ELSE Absent,
   topic |-> IF t = "Publish" THEN w.topic ELSE <<>>,
   payload |-> IF t = "Publish" THEN rest ELSE <<>>,
   reason |-> CASE t = "ConnAck"         -> w.reason
                [] opt /\ Len(body) > pre -> body[pre + 1]
                [] opt                   -> 0
                [] OTHER                 -> Absent,
   props |-> CASE opt /\ Len(body) > pre + 1 -> RefProps(OptionalDefault(t), w.props, RefLists(t))
               [] opt                        -> OptionalDefault(t)
               [] v = 5 /\ t = "ConnAck"     -> RefProps(ConnAckDefault, w.props, RefLists(t))
               [] v = 5 /\ t = "Publish"     -> RefProps(PublishDefault, w.props, RefLists(t))
               [] v = 5 /\ t = "Subscribe"   -> RefProps(SubscribeDefault, w.props, RefLists(t))
               [] v = 5 /\ t = "Unsubscribe" -> RefProps(UnsubscribeDefault, w.props, RefLists(t))
               [] v = 5 /\ t \in {"SubAck", "UnsubAck"}
                                             -> RefProps(AckDefault, w.props, RefLists(t))
               [] OTHER                      -> Absent,
   entries |-> IF t = "Subscribe"
               THEN [i \in DOMAIN whole |->
                       LET o == whole[i].o IN
                       [filter |-> whole[i].f, qos |-> o % 4, noLocal |-> Bit(o, 4),
                        rap |-> Bit(o, 8), rh |-> (o \div 16) % 4]]
               ELSE <<>>,
   filters |-> IF t = "Unsubscribe" THEN [i \in DOMAIN whole |-> whole[i].f] ELSE <<>>,
   codes |-> IF t \in {"SubAck", "UnsubAck"} THEN rest ELSE <<>>]

\* The packet the decoder built.
Decoded == [version |-> version, type |-> got.type, qos |-> got.qos,
            dup |-> got.dup, retain |-> got.retain, session |-> got.session,
            other |-> got.other, pid |-> got.pid,
            topic |-> got.topic, payload |-> got.payload, reason |-> got.reason,
            props |-> got.props, entries |-> got.entries, filters |-> got.filters,
            codes |-> got.codes]

-----------------------------------------------------------------------------
(* Properties.                                                             *)

Names == {"Pending", "Ok", "IncompletePacket", "RemainingLengthTooHigh",
          "UnrecognizedPropertyIdentifier", "UnrecognizedValue", "InvalidValue",
          "UnexpectedProperty", "DuplicateProperty", "UnrecognizedPacket",
          "UnrecognizedQoS", "PublishDupAtMostOnce", "ZeroPacketIdentifier",
          "UnrecognizedReasonCode", "TrailingGarbage", "MissingRequiredProperty",
          "NoTopics", "UnrecognizedRetainHandling", "SubscriptionOptionsReservedSet",
          "UnrecognizedConnAckFlags", "UnrecognizedConnectReasonCode"}

TypeOK ==
  /\ pc \in {"encode", "header", "connack", "connackproperties", "topic", "properties", "payload", "identifier",
             "reason", "ackproperties", "subproperties", "unsubproperties",
             "disconnectproperties", "authproperties", "entries", "codes",
             "trailing", "done"}
  /\ version \in {3, 5}
  /\ eres.err \in Names /\ dres.err \in Names
  /\ src \in Seq(0 .. 255)
  /\ got.type \in {Absent} \cup DOMAIN PacketType
  /\ got.qos \in 0 .. 2 /\ got.dup \in BOOLEAN /\ got.retain \in BOOLEAN
  /\ got.session \in BOOLEAN /\ got.other \in BOOLEAN
  /\ got.pid \in {Absent} \cup 1 .. 65535
  /\ got.reason \in {Absent} \cup 0 .. 255
  /\ \A i \in DOMAIN got.entries : got.entries[i].qos \in 0 .. 2 /\ got.entries[i].rh \in 0 .. 2
  /\ got.codes \in Seq(0 .. 255)

\* Round trip of encode and decode: every packet encode accepts comes back
\* field for field from the decoder of its version, its first-byte flags
\* included.
RoundTrip ==
  pc = "done" /\ pkt # Absent /\ eres = Ok => dres = Ok /\ Decoded = pkt

\* The decoder takes a packet as MQTT lays it out: the error of the first
\* field cut short or invalid, trailing bytes refused, and otherwise the
\* packet the fields stand for.
DecodeMatchesSpec ==
  pc = "done" /\ wire # Absent =>
    /\ dres = RefDecode(wire)
    /\ dres = Ok => Decoded = RefPacket(wire)


-----------------------------------------------------------------------------
(* Refinement of PacketCodec.                                              *)

\* encode refuses a property whose value MQTT 5 forbids (sections
\* 3.2.2.3.3, 3.2.2.3.6 and 3.3.2.3.4: Receive Maximum, Maximum Packet Size
\* and Topic Alias 0) or that does not fit its two bytes.
RefRefused(p) ==
  LET bad(k, v) ==
        \/ k \in {"MaximumPacketSize", "ReceiveMaximum", "TopicAlias"} /\ v = 0
        \/ k \in {"ReceiveMaximum", "ServerKeepAlive"} /\ v \in Nat /\ v > 65535
  IN IF p.props = Absent THEN {}
     ELSE {PP!ErrOf("InvalidValue", k) : k \in {k \in DOMAIN p.props : bad(k, p.props[k])}}

\* The outcomes MQTT allows: a packet comes back whole unless encode refuses
\* it for one of its forbidden properties; a peer's packet is decoded as
\* RefDecode and RefPacket say.
RefOutcome(i) ==
  IF i[1] # Absent
  THEN IF RefRefused(i[1]) = {} THEN {[res |-> Ok, packet |-> i[1]]}
       ELSE {[res |-> e, packet |-> Absent] : e \in RefRefused(i[1])}
  ELSE {[res |-> RefDecode(i[2]),
         packet |-> IF RefDecode(i[2]) = Ok THEN RefPacket(i[2]) ELSE Absent]}

CodecPending == [res |-> PP!Pending, packet |-> Absent]

\* What the call has returned: nothing before the last block, then the
\* error of encode, or that of decode, or the packet decode built.
Result ==
  IF pc # "done" THEN CodecPending
  ELSE IF eres # Ok THEN [res |-> eres, packet |-> Absent]
  ELSE [res |-> dres, packet |-> IF dres = Ok THEN Decoded ELSE Absent]

Codec == INSTANCE PacketCodec WITH
           input <- <<pkt, wire>>, output <- Result,
           Pending <- CodecPending, Outcome <- RefOutcome

\* The codec implements the safety part of PacketCodec: a call's outcome
\* is pending until its last block, and is then one MQTT allows, for good.
\* Beyond RoundTrip and DecodeMatchesSpec this says that encode refuses
\* no packet MQTT allows, and that no block runs after decode returns.
CodecRefinement == Codec!Safety

=============================================================================
