------------------------------- MODULE Property -------------------------------
(***************************************************************************)
(* The MQTT 5 property codec of src/mqtt-proto/src/v5/property.rs, as     *)
(* operators on bytes: the property table, Property::encode,               *)
(* Property::decode, the match arms of decode_properties!, and whole      *)
(* sections (encode_all, decode_all with the loop of decode_properties!).  *)
(* Expected is the set of properties one decode_properties! call binds,   *)
(* Lists those it binds as a Vec;                                          *)
(* a packet module instantiates this module once per call.                 *)
(*                                                                         *)
(* Data abstraction: a byte string is its content (the code keeps the      *)
(* two-byte length prefix with it); a bool is the byte 0 or 1 that carries *)
(* it; a QoS is 0, 1 or 2; a Duration is its number of seconds.  Errors    *)
(* keep their variant and drop their payload, except the kind of property  *)
(* they are about; "Unrecognized<X>" is UnrecognizedValue of X and         *)
(* "Invalid<X>" is InvalidValue of X.                                      *)
(***************************************************************************)
EXTENDS Integers, Sequences, SequencesExt

CONSTANTS
  Absent,     \* None of an Option field, or a binding not yet filled
  Expected,   \* the properties the decode_properties! call binds
  Lists       \* those of them it declares as a Vec<...>

\* Outcomes: still running, Ok, or an error about a property kind.
Pending == [err |-> "Pending", of |-> "-"]
Ok == [err |-> "Ok", of |-> "-"]
Err(e) == [err |-> e, of |-> "-"]
ErrOf(e, k) == [err |-> e, of |-> k]

-----------------------------------------------------------------------------
(* The property table: how each value is laid out, and its identifier.    *)

Shape == [PayloadIsUtf8 |-> "bool", MessageExpiryInterval |-> "u32",
          ContentType |-> "str", ResponseTopic |-> "str",
          CorrelationData |-> "bin", SubscriptionIdentifier |-> "varint",
          SessionExpiryInterval |-> "u32", AssignedClientIdentifier |-> "str",
          ServerKeepAlive |-> "u16", AuthenticationMethod |-> "str",
          AuthenticationData |-> "bin", RequestProblemInformation |-> "bool",
          WillDelayInterval |-> "u32", RequestResponseInformation |-> "bool",
          ResponseInformation |-> "str", ServerReference |-> "str",
          ReasonString |-> "str", ReceiveMaximum |-> "u16",
          TopicAliasMaximum |-> "u16", TopicAlias |-> "u16",
          MaximumQoS |-> "qos", RetainAvailable |-> "bool",
          UserProperty |-> "pair", MaximumPacketSize |-> "u32",
          WildcardSubscriptionAvailable |-> "bool",
          SubscriptionIdentifierAvailable |-> "bool",
          SharedSubscriptionAvailable |-> "bool"]

Kinds == DOMAIN Shape

\* The identifiers Property::decode matches on (those of the MQTT table).
Identifier == [PayloadIsUtf8 |-> \h01, MessageExpiryInterval |-> \h02,
               ContentType |-> \h03, ResponseTopic |-> \h08,
               CorrelationData |-> \h09, SubscriptionIdentifier |-> \h0B,
               SessionExpiryInterval |-> \h11, AssignedClientIdentifier |-> \h12,
               ServerKeepAlive |-> \h13, AuthenticationMethod |-> \h15,
               AuthenticationData |-> \h16, RequestProblemInformation |-> \h17,
               WillDelayInterval |-> \h18, RequestResponseInformation |-> \h19,
               ResponseInformation |-> \h1A, ServerReference |-> \h1C,
               ReasonString |-> \h1F, ReceiveMaximum |-> \h21,
               TopicAliasMaximum |-> \h22, TopicAlias |-> \h23,
               MaximumQoS |-> \h24, RetainAvailable |-> \h25,
               UserProperty |-> \h26, MaximumPacketSize |-> \h27,
               WildcardSubscriptionAvailable |-> \h28,
               SubscriptionIdentifierAvailable |-> \h29,
               SharedSubscriptionAvailable |-> \h2A]

\* The properties a call of decode_properties! accumulates into a Vec: the
\* macros have Vec arms for these two only, and a call declares which of
\* its bindings take them.
ListKinds == Lists \cap {"UserProperty", "SubscriptionIdentifier"}

-----------------------------------------------------------------------------
(* Bytes.                                                                  *)

\* Faulty variant of U16: the low byte is not masked.
U16Unmasked(n) == <<n \div 256, n>>

U16(n) == <<n \div 256, n % 256>>
U32(n) == <<(n \div 16777216) % 256, (n \div 65536) % 256, (n \div 256) % 256,
            n % 256>>

\* A big-endian unsigned integer.
BE(s) == FoldLeft(LAMBDA a, b : a * 256 + b, 0, s)

\* A byte string: u16 length, then the content.
Str(c) == U16(Len(c)) \o c

\* encode_remaining_length, for a value below 2^28.
RECURSIVE VarIntBytes(_)
VarIntBytes(n) ==
  IF n < 128 THEN <<n>> ELSE <<(n % 128) + 128>> \o VarIntBytes(n \div 128)

\* decode_remaining_length: at most four bytes, the first without the
\* continuation bit ends it; Ok(None) if the bytes run out first.
VarIntDecode(s) ==
  LET stops == {i \in 1 .. 4 : i <= Len(s) /\ s[i] < 128}
      t == CHOOSE i \in stops : \A j \in stops : i <= j
  IN
  IF stops # {}
  THEN [res |-> "Some", len |-> t,
        val |-> FoldRight(LAMBDA b, a : (b % 128) + 128 * a, SubSeq(s, 1, t), 0)]
  ELSE [res |-> IF Len(s) >= 4 THEN "TooHigh" ELSE "None", len |-> 0, val |-> 0]

\* The bytes of the value of a property of kind k.
ValBytes(k, v) ==
  CASE Shape[k] \in {"bool", "qos"} -> <<v>>
    [] Shape[k] = "u16"             -> U16(v)
    [] Shape[k] = "u32"             -> U32(v)
    [] Shape[k] \in {"str", "bin"}  -> Str(v)
    [] Shape[k] = "pair"            -> Str(v[1]) \o Str(v[2])
    [] Shape[k] = "varint"          -> VarIntBytes(v)

-----------------------------------------------------------------------------
(* Property::encode.                                                       *)

\* The identifiers Property::encode writes: those of the table, except
\* that MaximumPacketSize is written with 0x21.
EncodeIdentifier == [Identifier EXCEPT !["MaximumPacketSize"] = \h21]

\* Faulty variant of OmitWhen: RetainAvailable is left out when false.
OmitWhenInverted ==
  [MaximumQoS |-> 2, PayloadIsUtf8 |-> 0, ReceiveMaximum |-> 65535,
   RequestProblemInformation |-> 1, RequestResponseInformation |-> 0,
   RetainAvailable |-> 0, SessionExpiryInterval |-> 0,
   SharedSubscriptionAvailable |-> 1, SubscriptionIdentifierAvailable |-> 1,
   TopicAliasMaximum |-> 0, WildcardSubscriptionAvailable |-> 1,
   WillDelayInterval |-> 0]

\* The values Property::encode writes nothing for: the defaults a decoder
\* assumes when the property is missing.
OmitWhen ==
  [MaximumQoS |-> 2, PayloadIsUtf8 |-> 0, ReceiveMaximum |-> 65535,
   RequestProblemInformation |-> 1, RequestResponseInformation |-> 0,
   RetainAvailable |-> 1, SessionExpiryInterval |-> 0,
   SharedSubscriptionAvailable |-> 1, SubscriptionIdentifierAvailable |-> 1,
   TopicAliasMaximum |-> 0, WildcardSubscriptionAvailable |-> 1,
   WillDelayInterval |-> 0]

Omitted(p) == p.k \in DOMAIN OmitWhen /\ p.v = OmitWhen[p.k]

\* Faulty variant of EncodeCheck: ServerKeepAlive 0 is refused as
\* ReceiveMaximum 0 is.
EncodeCheckKeepAliveZero(p) ==
  CASE p.k = "MaximumPacketSize" /\ p.v = 0                    -> ErrOf("InvalidValue", p.k)
    [] p.k = "ReceiveMaximum" /\ (p.v = 0 \/ p.v > 65535)      -> ErrOf("InvalidValue", p.k)
    [] p.k = "ServerKeepAlive" /\ (p.v = 0 \/ p.v > 65535)     -> ErrOf("InvalidValue", p.k)
    [] p.k = "TopicAlias" /\ p.v = 0                           -> ErrOf("InvalidValue", p.k)
    [] OTHER                                                   -> Ok

\* The range checks of Property::encode, made before anything is written.
\* (Durations and sizes beyond u32 are out of TLC's integers.)
EncodeCheck(p) ==
  CASE p.k = "MaximumPacketSize" /\ p.v = 0                -> ErrOf("InvalidValue", p.k)
    [] p.k = "ReceiveMaximum" /\ (p.v = 0 \/ p.v > 65535)  -> ErrOf("InvalidValue", p.k)
    [] p.k = "ServerKeepAlive" /\ p.v > 65535              -> ErrOf("InvalidValue", p.k)
    [] p.k = "TopicAlias" /\ p.v = 0                       -> ErrOf("InvalidValue", p.k)
    [] OTHER                                               -> Ok

\* The bytes Property::encode writes for a property that passes its checks.
Encoded(p) ==
  IF Omitted(p) THEN <<>> ELSE <<EncodeIdentifier[p.k]>> \o ValBytes(p.k, p.v)

-----------------------------------------------------------------------------
(* Property::decode, on the bytes s of a non-empty sub-view.               *)

Need(n, r) == IF Len(r) >= n THEN n ELSE -1

\* ByteStr::decode: Ok(None), hence IncompletePacket, unless the u16
\* length and that many bytes are there.
StrWidth(r) == IF Len(r) < 2 THEN -1 ELSE Need(2 + BE(SubSeq(r, 1, 2)), r)

\* How many bytes the value takes: -1 when they are not all there, -2 when
\* a variable-length integer is longer than four bytes.
Width(shape, r) ==
  CASE shape \in {"bool", "qos"} -> Need(1, r)
    [] shape = "u16"             -> Need(2, r)
    [] shape = "u32"             -> Need(4, r)
    [] shape \in {"str", "bin"}  -> StrWidth(r)
    [] shape = "pair" ->
         LET a == StrWidth(r)
             b == StrWidth(SubSeq(r, a + 1, Len(r)))
         IN IF a < 0 \/ b < 0 THEN -1 ELSE a + b
    [] shape = "varint" ->
         LET d == VarIntDecode(r) IN
         CASE d.res = "Some" -> d.len [] d.res = "None" -> -1 [] OTHER -> -2

ValueOf(shape, b) ==
  CASE shape \in {"bool", "qos", "u16", "u32"} -> BE(b)
    [] shape \in {"str", "bin"} -> SubSeq(b, 3, Len(b))
    [] shape = "pair" ->
         LET n == 2 + BE(SubSeq(b, 1, 2)) IN
         <<SubSeq(b, 3, n), SubSeq(b, n + 3, Len(b))>>
    [] shape = "varint" -> VarIntDecode(b).val

\* The checks Property::decode makes on a value it has read.
DecodeCheck(k, v) ==
  CASE Shape[k] \in {"bool", "qos"} /\ v > 1   -> ErrOf("UnrecognizedValue", k)
    [] k = "MaximumPacketSize" /\ v = 0        -> ErrOf("InvalidValue", k)
    [] OTHER                                   -> Ok

\* Outcome, property read and bytes left of Property::decode.
DecodeOne(s) ==
  LET id == Head(s)
      r  == Tail(s)
      ks == {x \in Kinds : Identifier[x] = id}
      k  == CHOOSE x \in ks : TRUE
      w  == Width(Shape[k], r)
      v  == ValueOf(Shape[k], SubSeq(r, 1, w))
      failed(o) == [out |-> o, p |-> Absent, rest |-> <<>>]
  IN
  CASE ks = {}                 -> failed(ErrOf("UnrecognizedPropertyIdentifier", id))
    [] w = -1                  -> failed(Err("IncompletePacket"))
    [] w = -2                  -> failed(Err("RemainingLengthTooHigh"))
    [] DecodeCheck(k, v) # Ok  -> failed(DecodeCheck(k, v))
    [] OTHER -> [out |-> Ok, p |-> [k |-> k, v |-> v],
                 rest |-> SubSeq(r, w + 1, Len(r))]

-----------------------------------------------------------------------------
(* Reading the body (Shared::try_get_u8, try_get_u16_be, ByteStr::decode   *)
(* with ok_or(IncompletePacket)): the outcome, the value, the rest.         *)

Short == [out |-> Err("IncompletePacket"), v |-> 0, rest |-> <<>>]

GetU8(s) == IF s = <<>> THEN Short ELSE [out |-> Ok, v |-> Head(s), rest |-> Tail(s)]

GetU16(s) ==
  IF Len(s) < 2 THEN Short
  ELSE [out |-> Ok, v |-> BE(SubSeq(s, 1, 2)), rest |-> SubSeq(s, 3, Len(s))]

GetStr(s) ==
  LET w == StrWidth(s) IN
  IF w < 0 THEN Short
  ELSE [out |-> Ok, v |-> SubSeq(s, 3, w), rest |-> SubSeq(s, w + 1, Len(s))]

\* A property section as a peer lays it out with the MQTT table: the
\* length, then each property of ps with its identifier.
PeerSection(ps) ==
  LET b == FlattenSeq([i \in DOMAIN ps |-> <<Identifier[ps[i].k]>> \o ValBytes(ps[i].k, ps[i].v)])
  IN VarIntBytes(Len(b)) \o b

-----------------------------------------------------------------------------
(* decode_properties!: the match arm a property goes through.              *)

EmptyBinding == [k \in Kinds |-> IF k \in ListKinds THEN <<>> ELSE Absent]

\* Faulty variant of Bind: a repeated property replaces the first one.
BindReplacing(b, p) ==
  CASE p.k \notin Expected -> [out |-> Err("UnexpectedProperty"), b |-> b]
    [] p.k \in ListKinds   -> [out |-> Ok, b |-> [b EXCEPT ![p.k] = Append(@, p.v)]]
    [] OTHER               -> [out |-> Ok, b |-> [b EXCEPT ![p.k] = p.v]]

\* The arm of an expected list property pushes; that of another expected
\* property fills its binding unless already filled; no arm matches an
\* unexpected one.
Bind(b, p) ==
  CASE p.k \notin Expected -> [out |-> Err("UnexpectedProperty"), b |-> b]
    [] p.k \in ListKinds   -> [out |-> Ok, b |-> [b EXCEPT ![p.k] = Append(@, p.v)]]
    [] b[p.k] # Absent     -> [out |-> ErrOf("DuplicateProperty", p.k), b |-> b]
    [] OTHER               -> [out |-> Ok, b |-> [b EXCEPT ![p.k] = p.v]]

-----------------------------------------------------------------------------
(* Whole sections, as a packet's encode and decode_rest use them.          *)

\* The chain encode_properties! builds from the fields c, in the order
\* given: once(..) of a plain field, map of an Option field (nothing for
\* None), one property per element of a Vec field.
ChainOf(order, c) ==
  FlattenSeq([i \in 1 .. Len(order) |->
    LET k == order[i] IN
    IF k \in ListKinds THEN [j \in DOMAIN c[k] |-> [k |-> k, v |-> c[k][j]]]
    ELSE IF c[k] = Absent THEN <<>>
    ELSE <<[k |-> k, v |-> c[k]]>>])

\* encode_all over the chain ps: the first pass stops at the first range
\* check that fails; otherwise the section length, then each property.
EncodeSection(ps) ==
  LET bad == SelectSeq(ps, LAMBDA p : EncodeCheck(p) # Ok)
      b   == FlattenSeq([i \in DOMAIN ps |-> Encoded(ps[i])])
  IN
  IF bad # <<>> THEN [out |-> EncodeCheck(Head(bad)), bytes |-> <<>>]
  ELSE [out |-> Ok, bytes |-> VarIntBytes(Len(b)) \o b]

\* The for loop of decode_properties! over the sub-view s: each property
\* is decoded and goes through its match arm, until s is empty.
RECURSIVE BindAll(_, _), BindNext(_, _)
BindAll(s, b) ==
  IF s = <<>> THEN [out |-> Ok, b |-> b] ELSE BindNext(DecodeOne(s), b)

\* One iteration of that loop, on the outcome d of Property::decode.
BindNext(d, b) ==
  IF d.out # Ok THEN [out |-> d.out, b |-> b]
  ELSE LET r == Bind(b, d.p) IN
       IF r.out # Ok THEN r ELSE BindAll(d.rest, r.b)

\* decode_all, given the section length d read from the bytes s: the
\* bindings of the sub-view, and the bytes after it.
SectionAfter(d, s) ==
  LET rest == SubSeq(s, d.len + 1, Len(s)) IN
  CASE d.res = "TooHigh" ->
         [out |-> Err("RemainingLengthTooHigh"), b |-> EmptyBinding, rest |-> s]
    [] d.res = "None" \/ Len(rest) < d.val ->
         [out |-> Err("IncompletePacket"), b |-> EmptyBinding, rest |-> s]
    [] OTHER ->
         [rest |-> SubSeq(rest, d.val + 1, Len(rest))]
         @@ BindAll(SubSeq(rest, 1, d.val), EmptyBinding)

\* decode_properties! on the bytes s.
DecodeSection(s) == SectionAfter(VarIntDecode(s), s)

=============================================================================
