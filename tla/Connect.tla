------------------------------- MODULE Connect -------------------------------
(***************************************************************************)
(* The CONNECT packet of MQTT 3.1.1 and 5.0 (src/mqtt-proto/src/v3.rs,     *)
(* v5/connect.rs, and decode_connect_start and Connect::decode of lib.rs). *)
(*                                                                         *)
(* Encoding is one step: Connect::encode of either version writes the      *)
(* whole body, or fails, into a destination with room for it (encode_inner *)
(* sizes it with a ByteCounter first).  A peer then decodes the bytes.      *)
(*                                                                         *)
(* Decoding is one step per block of decode_rest: the protocol header      *)
(* (decode_connect_start and the caller's level check), for v5 the header  *)
(* that decode_rest reads again, the connect flags and keep alive, the v5  *)
(* properties, the client identifier, the will, the user name and         *)
(* password, and last the trailing-garbage check of the dispatcher.        *)
(*                                                                         *)
(* Three decoders take a body: v3::decode and v5::decode route a first     *)
(* byte 0x10 to the PacketMeta::decode of their version, which accepts     *)
(* only its own level and is followed by the trailing-garbage check;       *)
(* lib.rs Connect::decode accepts either level and checks no trailing      *)
(* bytes.  They are the entries "v3", "v5" and "any".                      *)
(*                                                                         *)
(* Data abstraction as in module Property: a byte string is its content,   *)
(* a Duration its seconds, a bool flag TRUE or FALSE, and an error keeps   *)
(* its variant only.                                                       *)
(***************************************************************************)
EXTENDS Integers, Sequences, SequencesExt

CONSTANTS
  Absent,   \* None of an Option field
  Packets,  \* CONNECT values given to Connect::encode
  Wires,    \* bodies a peer sends, as the fields it lays out
  Entries   \* the decoders a body may be handed to: "v3", "v5", "any"

\* The properties the two decode_properties! calls of v5 decode_rest bind.
ConnectExpected ==
  {"SessionExpiryInterval", "ReceiveMaximum", "MaximumPacketSize",
   "TopicAliasMaximum", "RequestResponseInformation",
   "RequestProblemInformation", "UserProperty", "AuthenticationMethod",
   "AuthenticationData"}
WillExpected ==
  {"WillDelayInterval", "PayloadIsUtf8", "MessageExpiryInterval", "ContentType",
   "ResponseTopic", "CorrelationData", "UserProperty"}

CP == INSTANCE Property WITH Expected <- ConnectExpected, Lists <- {"UserProperty"}
WP == INSTANCE Property WITH Expected <- WillExpected, Lists <- {"UserProperty"}

Ok == CP!Ok
Err(e) == CP!Err(e)
Str(c) == CP!Str(c)

VARIABLES
  pc,     \* the block of the decoder next to run, "encode" or "done"
  entry,  \* the decoder the body is handed to
  pkt,    \* ghost: the CONNECT being encoded, or Absent
  wire,   \* ghost: the fields a peer laid out, or Absent
  eres,   \* outcome of Connect::encode
  src,    \* the bytes of the body not yet consumed
  got,    \* what the decoder has read so far
  dres    \* outcome of the decoder

vars == <<pc, entry, pkt, wire, eres, src, got, dres>>

Pending == CP!Pending

-----------------------------------------------------------------------------
(* The fields of a CONNECT.                                                *)

\* PROTOCOL_NAME is the byte string "MQTT"; the levels are 4 and 5.
ProtocolName == <<77, 81, 84, 84>>

\* The fields of encode_properties! in v5 Connect::encode, in order, and
\* in its will section.
ConnectOrder ==
  <<"SessionExpiryInterval", "ReceiveMaximum", "MaximumPacketSize",
    "TopicAliasMaximum", "RequestResponseInformation",
    "RequestProblemInformation", "UserProperty", "AuthenticationMethod",
    "AuthenticationData">>
WillOrder ==
  <<"WillDelayInterval", "PayloadIsUtf8", "MessageExpiryInterval", "TopicAlias",
    "ContentType", "ResponseTopic", "CorrelationData", "UserProperty">>

\* What v5 decode_rest makes of a missing property: the unwrap_or defaults,
\* None for an Option field; the will's topic_alias is always None.
ConnectDefault ==
  [SessionExpiryInterval |-> Absent, ReceiveMaximum |-> 65535,
   MaximumPacketSize |-> Absent, TopicAliasMaximum |-> 0,
   RequestResponseInformation |-> 0, RequestProblemInformation |-> 1,
   UserProperty |-> <<>>, AuthenticationMethod |-> Absent,
   AuthenticationData |-> Absent]
WillDefault ==
  [WillDelayInterval |-> 0, PayloadIsUtf8 |-> 0, MessageExpiryInterval |-> Absent,
   TopicAlias |-> Absent, ContentType |-> Absent, ResponseTopic |-> Absent,
   CorrelationData |-> Absent, UserProperty |-> <<>>]

\* The fields a decode_properties! call fills, with the defaults of d.
Filled(d, b) == [k \in DOMAIN d |-> IF b[k] = Absent THEN d[k] ELSE b[k]]

ServerGenerated == [kind |-> "ServerGenerated", id |-> <<>>]

\* Bit m (a power of two) of the byte f.
Bit(f, m) == (f \div m) % 2 = 1

\* Faulty variant of WillQoS: the bits above the QoS are not masked off.
WillQoSUnmasked(f) == f \div 8

\* The will QoS of the connect flags, bits 3 and 4.
WillQoS(f) == (f \div 8) % 4

-----------------------------------------------------------------------------
(* Connect::encode (v3.rs and v5/connect.rs).                             *)

\* Faulty variant of ConnectFlags: the user name and password bits swapped.
ConnectFlagsSwapped(p) ==
  (IF p.username # Absent THEN 64 ELSE 0)
  + (IF p.password # Absent THEN 128 ELSE 0)
  + (IF p.will = Absent THEN 0
     ELSE 4 + (IF p.will.retain THEN 32 ELSE 0) + p.will.qos * 8)
  + (IF p.client.kind = "Existing" THEN 0 ELSE 2)

\* The connect flags byte: user name, password, will with its retain and
\* QoS, and the clean-session bit for all but an existing session.
ConnectFlags(p) ==
  (IF p.username # Absent THEN 128 ELSE 0)
  + (IF p.password # Absent THEN 64 ELSE 0)
  + (IF p.will = Absent THEN 0
     ELSE 4 + (IF p.will.retain THEN 32 ELSE 0) + p.will.qos * 8)
  + (IF p.client.kind = "Existing" THEN 0 ELSE 2)

\* ServerGenerated is written as ByteStr::EMPTY, the others as their id.
ClientIdBytes(c) == IF c.kind = "ServerGenerated" THEN <<0, 0>> ELSE Str(c.id)

OptStr(x) == IF x = Absent THEN <<>> ELSE Str(x)

NoSection == [out |-> Ok, bytes |-> <<>>]

\* The outcome and the bytes of Connect::encode of p, in the order the
\* code writes: header, flags, keep alive (KeepAliveTooHigh past u16),
\* v5 properties, client id, will (v5 properties, topic, u16-prefixed
\* payload, WillTooLarge past u16), user name, password.
\* Faulty variant of KeepAliveFits: the top value of a u16 is refused.
KeepAliveFitsOffByOne(secs) == secs < 65535

\* keep_alive.as_secs().try_into() for the u16 field: otherwise the encode
\* fails with KeepAliveTooHigh.
KeepAliveFits(secs) == secs <= 65535

EncodeConnect(p) ==
  LET v5 == p.level = 5
      cs == IF v5 THEN CP!EncodeSection(CP!ChainOf(ConnectOrder, p.props))
            ELSE NoSection
      ws == IF v5 /\ p.will # Absent
            THEN WP!EncodeSection(WP!ChainOf(WillOrder, p.will.props))
            ELSE NoSection
      willBytes == IF p.will = Absent THEN <<>>
                   ELSE ws.bytes \o Str(p.will.topic) \o Str(p.will.payload)
  IN
  CASE ~KeepAliveFits(p.keep_alive) -> [out |-> Err("KeepAliveTooHigh"), bytes |-> <<>>]
    [] cs.out # Ok -> cs
    [] ws.out # Ok -> ws
    [] p.will # Absent /\ Len(p.will.payload) > 65535 ->
         [out |-> Err("WillTooLarge"), bytes |-> <<>>]
    [] OTHER ->
         [out |-> Ok,
          bytes |-> Str(ProtocolName) \o <<p.level, ConnectFlags(p)>>
                    \o CP!U16(p.keep_alive) \o cs.bytes \o ClientIdBytes(p.client)
                    \o willBytes \o OptStr(p.username) \o OptStr(p.password)]

-----------------------------------------------------------------------------
\* The levels each entry accepts after decode_connect_start.
Accepts == [v3 |-> {4}, v5 |-> {5}, any |-> {4, 5}]

\* An error ends the decoder.
Fail(e) == dres' = e /\ pc' = "done" /\ UNCHANGED <<src, got>>

\* The decoder goes on to block next with what it read.
Continue(next, rest, g) == pc' = next /\ src' = rest /\ got' = g /\ UNCHANGED dres

-----------------------------------------------------------------------------
(* The decoder.                                                            *)

\* decode_connect_start: the fixed-header flags must be 0, the protocol
\* name MQTT; then the level byte, which the entry checks.
StartOutcome ==
  LET n == CP!GetStr(src)
      l == CP!GetU8(n.rest)
  IN
  CASE got.hflags # 0            -> Err("UnrecognizedPacket")
    [] n.out # Ok                -> n.out
    [] n.v # ProtocolName        -> Err("UnrecognizedProtocolName")
    [] l.out # Ok                -> l.out
    [] l.v \notin Accepts[entry] -> Err("UnrecognizedProtocolVersion")
    [] OTHER                     -> Ok

DecodeConnectStart ==
  /\ pc = "start"
  /\ \/ StartOutcome # Ok /\ Fail(StartOutcome)
     \/ /\ StartOutcome = Ok
        /\ LET l == CP!GetU8(CP!GetStr(src).rest) IN
           Continue(IF l.v = 5 THEN "header5" ELSE "flags", l.rest,
                    [got EXCEPT !.level = l.v])
  /\ UNCHANGED <<entry, pkt, wire, eres>>

\* v5 decode_rest reads a protocol name and version of its own.
Header5Outcome ==
  LET n == CP!GetStr(src)
      l == CP!GetU8(n.rest)
  IN
  CASE n.out # Ok         -> n.out
    [] n.v # ProtocolName -> Err("UnrecognizedProtocolName")
    [] l.out # Ok         -> l.out
    [] l.v # 5            -> Err("UnrecognizedProtocolVersion")
    [] OTHER              -> Ok

DecodeHeader5 ==
  /\ pc = "header5"
  /\ \/ Header5Outcome # Ok /\ Fail(Header5Outcome)
     \/ Header5Outcome = Ok /\ Continue("flags", CP!GetU8(CP!GetStr(src).rest).rest, got)
  /\ UNCHANGED <<entry, pkt, wire, eres>>

\* Faulty variant of FlagsOutcome: the keep alive is read before the
\* reserved bit is looked at.
FlagsOutcomeKeepAliveFirst ==
  LET f == CP!GetU8(src) IN
  CASE f.out # Ok            -> f.out
    [] CP!GetU16(f.rest).out # Ok -> CP!GetU16(f.rest).out
    [] Bit(f.v, 1)           -> Err("ConnectReservedSet")
    [] OTHER                 -> Ok

\* The connect flags, whose bit 0 is reserved, then the keep alive.
FlagsOutcome ==
  LET f == CP!GetU8(src) IN
  CASE f.out # Ok            -> f.out
    [] Bit(f.v, 1)           -> Err("ConnectReservedSet")
    [] CP!GetU16(f.rest).out # Ok -> CP!GetU16(f.rest).out
    [] OTHER                 -> Ok

DecodeFlags ==
  /\ pc = "flags"
  /\ \/ FlagsOutcome # Ok /\ Fail(FlagsOutcome)
     \/ /\ FlagsOutcome = Ok
        /\ LET f == CP!GetU8(src)
               k == CP!GetU16(f.rest)
           IN Continue(IF got.level = 5 THEN "properties" ELSE "clientid", k.rest,
                       [got EXCEPT !.flags = f.v, !.keep_alive = k.v])
  /\ UNCHANGED <<entry, pkt, wire, eres>>

\* v5: decode_properties! with the properties of a CONNECT, given the
\* outcome r of the section.
PropertiesRead(r) ==
  IF r.out # Ok THEN Fail(r.out)
  ELSE Continue("clientid", r.rest, [got EXCEPT !.props = Filled(ConnectDefault, r.b)])

DecodeProperties ==
  /\ pc = "properties"
  /\ PropertiesRead(CP!DecodeSection(src))
  /\ UNCHANGED <<entry, pkt, wire, eres>>

\* The client id: empty is ServerGenerated, except that v3 refuses it
\* without the clean-session bit; otherwise the bit tells the session.
DecodeClientId ==
  /\ pc = "clientid"
  /\ LET r     == CP!GetStr(src)
         clean == Bit(got.flags, 2)
         id    == CASE r.v = <<>> -> ServerGenerated
                    [] clean      -> [kind |-> "Clean", id |-> r.v]
                    [] OTHER      -> [kind |-> "Existing", id |-> r.v]
     IN
     \/ r.out # Ok /\ Fail(r.out)
     \/ /\ r.out = Ok /\ r.v = <<>> /\ ~clean /\ got.level = 4
        /\ Fail(Err("ConnectZeroLengthIdWithExistingSession"))
     \/ /\ r.out = Ok /\ ~(r.v = <<>> /\ ~clean /\ got.level = 4)
        /\ Continue("will", r.rest, [got EXCEPT !.client = id])
  /\ UNCHANGED <<entry, pkt, wire, eres>>

\* The will, when its flag is set: v5 properties, topic, QoS from the
\* flags (3 is UnrecognizedQoS), then a u16 length and that many bytes.
\* Each operator is the rest of the block after one read (s the
\* properties, t the topic, n the payload length).
WillLengthRead(s, t, n) ==
  CASE n.out # Ok         -> Fail(n.out)
    [] Len(n.rest) < n.v  -> Fail(Err("IncompletePacket"))
    [] OTHER ->
         Continue("credentials", SubSeq(n.rest, n.v + 1, Len(n.rest)),
                  [got EXCEPT !.will =
                     [topic |-> t.v, qos |-> WillQoS(got.flags),
                      retain |-> Bit(got.flags, 32),
                      payload |-> SubSeq(n.rest, 1, n.v),
                      props |-> IF got.level = 5 THEN Filled(WillDefault, s.b)
                                ELSE Absent]])

WillTopicRead(s, t) ==
  CASE t.out # Ok             -> Fail(t.out)
    [] WillQoS(got.flags) = 3 -> Fail(Err("UnrecognizedQoS"))
    [] OTHER                  -> WillLengthRead(s, t, CP!GetU16(t.rest))

WillPropertiesRead(s) ==
  IF s.out # Ok THEN Fail(s.out) ELSE WillTopicRead(s, CP!GetStr(s.rest))

DecodeWill ==
  /\ pc = "will"
  /\ \/ /\ ~Bit(got.flags, 4)
        /\ Continue("credentials", src, [got EXCEPT !.will = Absent])
     \/ /\ Bit(got.flags, 4)
        /\ WillPropertiesRead(IF got.level = 5 THEN WP!DecodeSection(src)
                              ELSE [out |-> Ok, b |-> Absent, rest |-> src])
  /\ UNCHANGED <<entry, pkt, wire, eres>>

\* The user name, then the password, each when its flag is set.
DecodeCredentials ==
  /\ pc = "credentials"
  /\ LET hasU == Bit(got.flags, 128)
         hasP == Bit(got.flags, 64)
         u == IF hasU THEN CP!GetStr(src) ELSE [out |-> Ok, v |-> Absent, rest |-> src]
         p == IF hasP THEN CP!GetStr(u.rest) ELSE [out |-> Ok, v |-> Absent, rest |-> u.rest]
     IN
     \/ u.out # Ok /\ Fail(u.out)
     \/ u.out = Ok /\ p.out # Ok /\ Fail(p.out)
     \/ /\ u.out = Ok /\ p.out = Ok
        /\ Continue("trailing", p.rest, [got EXCEPT !.username = u.v, !.password = p.v])
  /\ UNCHANGED <<entry, pkt, wire, eres>>

\* v3::decode and v5::decode refuse a body with bytes left over;
\* Connect::decode of lib.rs returns without looking.
DecodeTrailing ==
  /\ pc = "trailing"
  /\ \/ entry # "any" /\ src # <<>> /\ Fail(Err("TrailingGarbage"))
     \/ /\ entry = "any" \/ src = <<>>
        /\ dres' = Ok /\ pc' = "done"
        /\ UNCHANGED <<src, got>>
  /\ UNCHANGED <<entry, pkt, wire, eres>>

\* Connect::encode of the packet; a peer then decodes what it wrote.
Encode ==
  /\ pc = "encode"
  /\ LET e == EncodeConnect(pkt) IN
     /\ eres' = e.out
     /\ src' = e.bytes
     /\ pc' = IF e.out = Ok THEN "start" ELSE "done"
  /\ UNCHANGED <<entry, pkt, wire, got, dres>>

-----------------------------------------------------------------------------

\* The body a peer lays out from the fields w, as MQTT 3.1.1 section 3.1
\* orders them (v5: the properties after the keep alive and before the will
\* topic), with the bytes extra after it and its last cut bytes left out.
\* A v5 peer may repeat the protocol header (header5).
WireBody(w) ==
  LET v5 == w.level = 5
      b == Str(w.name) \o <<w.level>>
           \o (IF w.header5 THEN Str(ProtocolName) \o <<5>> ELSE <<>>)
           \o <<w.flags>> \o CP!U16(w.keep_alive)
           \o (IF v5 THEN CP!PeerSection(w.props) ELSE <<>>)
           \o Str(w.id)
           \o (IF Bit(w.flags, 4)
               THEN (IF v5 THEN CP!PeerSection(w.willprops) ELSE <<>>)
                    \o Str(w.topic) \o Str(w.payload)
               ELSE <<>>)
           \o (IF Bit(w.flags, 128) THEN Str(w.username) ELSE <<>>)
           \o (IF Bit(w.flags, 64) THEN Str(w.password) ELSE <<>>)
           \o w.extra
  IN SubSeq(b, 1, Len(b) - w.cut)

NoneRead == [hflags |-> 0, level |-> 0, flags |-> 0, keep_alive |-> 0,
             props |-> Absent, client |-> Absent, will |-> Absent,
             username |-> Absent, password |-> Absent]

Init ==
  /\ dres = Pending
  /\ \/ /\ pc = "encode" /\ pkt \in Packets /\ wire = Absent /\ eres = Pending
        /\ entry \in {e \in Entries : pkt.level \in Accepts[e]}
        /\ src = <<>> /\ got = NoneRead
     \/ /\ pc = "start" /\ pkt = Absent /\ wire \in Wires /\ eres = Ok
        /\ entry \in Entries
        /\ src = WireBody(wire) /\ got = [NoneRead EXCEPT !.hflags = wire.hflags]

Next ==
  \/ Encode
  \/ DecodeConnectStart
  \/ DecodeHeader5
  \/ DecodeFlags
  \/ DecodeProperties
  \/ DecodeClientId
  \/ DecodeWill
  \/ DecodeCredentials
  \/ DecodeTrailing

Spec == Init /\ [][Next]_vars

-----------------------------------------------------------------------------
(* Reference definitions, from MQTT 3.1.1 section 3.1, MQTT 5.0 section    *)
(* 3.1 and spec.md sections 3 and 4.5, not from the code.                 *)

\* The fields of a v3 body in order: the bytes each takes, and the error
\* a receiver gives once it has the field whole.
RefFields(w, e) ==
  LET f(n, bad, err) == [n |-> n, err |-> IF bad THEN err ELSE "Ok"] IN
  << f(0, w.hflags # 0, "UnrecognizedPacket"),
     f(2 + Len(w.name), w.name # ProtocolName, "UnrecognizedProtocolName"),
     f(1, w.level \notin Accepts[e], "UnrecognizedProtocolVersion"),
     f(1, Bit(w.flags, 1), "ConnectReservedSet"),
     f(2, FALSE, ""),
     f(2 + Len(w.id), w.id = <<>> /\ ~Bit(w.flags, 2),
       "ConnectZeroLengthIdWithExistingSession") >>
  \o (IF Bit(w.flags, 4)
      THEN << f(2 + Len(w.topic), WillQoS(w.flags) = 3, "UnrecognizedQoS"),
              f(2 + Len(w.payload), FALSE, "") >>
      ELSE <<>>)
  \o (IF Bit(w.flags, 128) THEN << f(2 + Len(w.username), FALSE, "") >> ELSE <<>>)
  \o (IF Bit(w.flags, 64) THEN << f(2 + Len(w.password), FALSE, "") >> ELSE <<>>)

\* The first field cut short is IncompletePacket, the first bad one gives
\* its error; bytes left after the last field are TrailingGarbage where
\* the decoder is the packet dispatcher.
RECURSIVE RefFirst(_, _, _)
RefFirst(fs, left, e) ==
  IF fs = <<>> THEN IF left > 0 /\ e # "any" THEN Err("TrailingGarbage") ELSE Ok
  ELSE CASE Head(fs).n > left      -> Err("IncompletePacket")
         [] Head(fs).err # "Ok"    -> Err(Head(fs).err)
         [] OTHER                  -> RefFirst(Tail(fs), left - Head(fs).n, e)

RefDecode(w, e) == RefFirst(RefFields(w, e), Len(WireBody(w)), e)

\* The CONNECT a v3 body stands for: an empty id is a server-generated one.
RefPacket(w) ==
  [level |-> w.level, keep_alive |-> w.keep_alive, props |-> Absent,
   client |-> CASE w.id = <<>>        -> ServerGenerated
                [] Bit(w.flags, 2)    -> [kind |-> "Clean", id |-> w.id]
                [] OTHER              -> [kind |-> "Existing", id |-> w.id],
   will |-> IF Bit(w.flags, 4)
            THEN [topic |-> w.topic, qos |-> WillQoS(w.flags),
                  retain |-> Bit(w.flags, 32), payload |-> w.payload,
                  props |-> Absent]
            ELSE Absent,
   username |-> IF Bit(w.flags, 128) THEN w.username ELSE Absent,
   password |-> IF Bit(w.flags, 64) THEN w.password ELSE Absent]

\* An Option property at the value the encoder leaves out comes back None.
CanonProps(d, c) ==
  [k \in DOMAIN c |->
     IF d[k] = Absent /\ c[k] # Absent /\ CP!Omitted([k |-> k, v |-> c[k]])
     THEN Absent ELSE c[k]]

\* What a CONNECT is after a round trip: an empty id with a clean session,
\* and in v5 any empty id, is ServerGenerated; the will's property block
\* carries no topic alias.
Canon(p) ==
  [p EXCEPT
     !.client = IF p.client.id = <<>> /\ (p.level = 5 \/ p.client.kind # "Existing")
                THEN ServerGenerated ELSE p.client,
     !.props  = IF p.level = 5 THEN CanonProps(ConnectDefault, p.props) ELSE Absent,
     !.will   = IF p.will = Absent \/ p.level = 4 THEN p.will
                ELSE [p.will EXCEPT
                        !.props = [CanonProps(WillDefault, @) EXCEPT !.TopicAlias = Absent]]]

\* The CONNECT the decoder built.
Decoded ==
  [level |-> got.level, keep_alive |-> got.keep_alive, props |-> got.props,
   client |-> got.client, will |-> got.will, username |-> got.username,
   password |-> got.password]

-----------------------------------------------------------------------------
(* Properties.                                                             *)

Names == {"Pending", "Ok", "IncompletePacket", "RemainingLengthTooHigh",
          "UnrecognizedPropertyIdentifier", "UnrecognizedValue", "InvalidValue",
          "UnexpectedProperty", "DuplicateProperty", "UnrecognizedPacket",
          "UnrecognizedProtocolName", "UnrecognizedProtocolVersion",
          "ConnectReservedSet", "ConnectZeroLengthIdWithExistingSession",
          "UnrecognizedQoS", "TrailingGarbage", "KeepAliveTooHigh",
          "WillTooLarge"}

TypeOK ==
  /\ pc \in {"encode", "start", "header5", "flags", "properties", "clientid",
             "will", "credentials", "trailing", "done"}
  /\ entry \in {"v3", "v5", "any"}
  /\ eres.err \in Names /\ dres.err \in Names
  /\ src \in Seq(0 .. 255)
  /\ got.level \in {0, 4, 5} /\ got.flags \in 0 .. 255
  /\ got.keep_alive \in 0 .. 65535
  /\ got.will # Absent =>
       /\ got.will.qos \in 0 .. 2
       /\ got.will.payload \in Seq(0 .. 255)
  /\ dres = Ok => got.client \in [kind : {"ServerGenerated", "Clean", "Existing"},
                                  id : Seq(0 .. 255)]

\* Round trip of Connect::encode and Connect::decode: a CONNECT the encoder
\* accepts is decoded field for field by every decoder that takes its
\* level, except that a v3 peer refuses an empty id without clean session.
RoundTrip ==
  pc = "done" /\ pkt # Absent /\ eres = Ok =>
    IF pkt.level = 4 /\ pkt.client.kind = "Existing" /\ pkt.client.id = <<>>
    THEN dres = Err("ConnectZeroLengthIdWithExistingSession")
    ELSE dres = Ok /\ Decoded = Canon(pkt)

\* The v3 decoder takes a body as MQTT 3.1.1 lays it out: the error of the
\* first field cut short or invalid, trailing bytes refused by the packet
\* dispatcher, and otherwise the CONNECT the fields stand for.
DecodeMatchesSpec ==
  pc = "done" /\ wire # Absent /\ ~wire.header5
  /\ ~(wire.level = 5 /\ 5 \in Accepts[entry]) =>
    /\ dres = RefDecode(wire, entry)
    /\ dres = Ok => Decoded = RefPacket(wire)

\* MQTT 5 sections 3.1.2.11.3 and 3.1.2.11.4: a Receive Maximum or a
\* Maximum Packet Size of 0 in a CONNECT is a protocol error.
MqttForbidsValue(p) ==
  p.level = 5 /\ \E k \in {"ReceiveMaximum", "MaximumPacketSize"} : p.props[k] = 0

\* Whatever CONNECT a decoder accepts and MQTT allows, Connect::encode of
\* its version can write again: a broker that forwards or stores what it
\* decoded is never refused by encode's checks (keep alive, property
\* ranges, will size) for a value a peer may legally send.  The decoder's
\* acceptance of a forbidden value is a question of DecodeMatchesSpec.
EncodeAcceptsDecoded ==
  pc = "done" /\ dres = Ok /\ ~MqttForbidsValue(Decoded) =>
    EncodeConnect(Decoded).out = Ok

\* The property block Connect::encode writes for a v5 will is one the will's
\* decode_properties! accepts.
WillSectionDecodable ==
  pc = "done" /\ pkt # Absent /\ eres = Ok /\ pkt.level = 5 /\ pkt.will # Absent =>
    LET ws == WP!EncodeSection(WP!ChainOf(WillOrder, pkt.will.props)) IN
    WP!DecodeSection(ws.bytes).out = Ok

=============================================================================
