------------------------------ MODULE MCPacket ------------------------------
(* Packet values and peer packets of every type for Packet.                *)
EXTENDS Packet

\* A property a peer sends: its kind and its value.  (Defined first: TLC
\* orders a record's fields by when their names were first read, and the
\* peer packets, whose property values are of several types, can only be
\* compared by kind first.)
Prop(k, v) == [k |-> k, v |-> v]

a == <<97>>

\* A packet record with the fields a type does not use at their values.
Pkt(v, t) ==
  [version |-> v, type |-> t, qos |-> 0, dup |-> FALSE, retain |-> FALSE,
   session |-> FALSE, other |-> FALSE, pid |-> Absent, topic |-> <<>>, payload |-> <<>>, reason |-> Absent,
   props |-> Absent, entries |-> <<>>, filters |-> <<>>, codes |-> <<>>]

\* PUBLISHes of every QoS with and without DUP and RETAIN, packet
\* identifiers at both ends of the range, empty and non-empty payloads.
MCPublish(v, props) ==
  {[Pkt(v, "Publish") EXCEPT !.qos = q, !.dup = d, !.retain = r, !.pid = i,
                             !.topic = <<116>>, !.payload = pl, !.props = ps] :
     q \in {0}, d \in {FALSE}, r \in BOOLEAN, i \in {Absent},
     pl \in {<<>>, <<104, 105>>}, ps \in props}
  \cup
  {[Pkt(v, "Publish") EXCEPT !.qos = q, !.dup = d, !.retain = r, !.pid = i,
                             !.topic = <<116>>, !.payload = pl, !.props = ps] :
     q \in {1, 2}, d \in BOOLEAN, r \in BOOLEAN, i \in {1, 65535},
     pl \in {<<>>, <<104, 105>>}, ps \in props}

\* v5 PUBLISH properties: none, each of a few alone, a zero topic alias
\* (refused by encode).
MCPublishProps5 ==
  {PublishDefault, [PublishDefault EXCEPT !.PayloadIsUtf8 = 1],
   [PublishDefault EXCEPT !.TopicAlias = 3], [PublishDefault EXCEPT !.TopicAlias = 0],
   [PublishDefault EXCEPT !.SubscriptionIdentifier = <<1, 200>>],
   [PublishDefault EXCEPT !.UserProperty = <<<<a, a>>>>]}

\* Acknowledgements: v3 with two packet identifiers; v5 with every reason
\* code of its type, with and without properties.
MCAcks3 == {[Pkt(3, t) EXCEPT !.pid = i] : t \in AckTypes, i \in {1, 256}}

MCAckProps5 ==
  {AckDefault, [AckDefault EXCEPT !.ReasonString = a],
   [AckDefault EXCEPT !.UserProperty = <<<<a, <<>>>>>>]}

MCAcks5 ==
  UNION {{[Pkt(5, t) EXCEPT !.pid = 1, !.reason = c, !.props = ps] :
            c \in ReasonCodes[t], ps \in MCAckProps5} :
         t \in AckTypes}

\* A subscription of SUBSCRIBE.
Sub(f, q, nl, rap, rh) == [filter |-> f, qos |-> q, noLocal |-> nl, rap |-> rap, rh |-> rh]

\* SUBSCRIBE and UNSUBSCRIBE with one and two topic filters (one empty);
\* v5 with every option set and a subscription identifier.
MCSubscribe ==
  {[Pkt(3, "Subscribe") EXCEPT !.pid = 1, !.entries = es] :
     es \in {<<Sub(<<116>>, 0, FALSE, FALSE, 0)>>,
             <<Sub(<<116>>, 2, FALSE, FALSE, 0), Sub(<<>>, 1, FALSE, FALSE, 0)>>}}
  \cup
  {[Pkt(5, "Subscribe") EXCEPT !.pid = 1, !.entries = es, !.props = ps] :
     es \in {<<Sub(<<116>>, 1, TRUE, TRUE, 2)>>,
             <<Sub(<<116>>, 0, FALSE, FALSE, 0), Sub(<<>>, 2, FALSE, TRUE, 1)>>},
     ps \in {SubscribeDefault, [SubscribeDefault EXCEPT !.SubscriptionIdentifier = 5],
             [SubscribeDefault EXCEPT !.UserProperty = <<<<a, a>>>>]}}
  \cup
  {[Pkt(v, "Unsubscribe") EXCEPT !.pid = 1, !.filters = fs,
                                 !.props = IF v = 5 THEN UnsubscribeDefault ELSE Absent] :
     v \in {3, 5}, fs \in {<<<<116>>>>, <<<<116>>, <<>>>>}}

\* SUBACK and UNSUBACK with one and two codes.
MCSubAcks ==
  {[Pkt(3, "SubAck") EXCEPT !.pid = 1, !.codes = cs] : cs \in {<<0>>, <<128, 2>>}}
  \cup {[Pkt(3, "UnsubAck") EXCEPT !.pid = 9]}
  \cup
  {[Pkt(5, t) EXCEPT !.pid = 1, !.codes = cs, !.props = ps] :
     t \in {"SubAck", "UnsubAck"}, cs \in {<<0>>, <<145, 1>>},
     ps \in {AckDefault, [AckDefault EXCEPT !.ReasonString = a]}}

\* PINGREQ, PINGRESP and DISCONNECT of both versions; v5 DISCONNECT with
\* a few reason codes and properties, AUTH empty or with its method.
MCControl ==
  {Pkt(v, t) : v \in {3, 5}, t \in {"PingReq", "PingResp"}}
  \cup {Pkt(3, "Disconnect")}
  \cup
  {[Pkt(5, "Disconnect") EXCEPT !.reason = c, !.props = ps] :
     c \in {0, 4, 162},
     ps \in {DisconnectDefault, [DisconnectDefault EXCEPT !.SessionExpiryInterval = 30],
             [DisconnectDefault EXCEPT !.ServerReference = a],
             [DisconnectDefault EXCEPT !.UserProperty = <<<<a, a>>>>]}}
  \cup {[Pkt(5, "Auth") EXCEPT !.reason = 0, !.props = AuthDefault]}
  \cup
  {[Pkt(5, "Auth") EXCEPT !.reason = c, !.props = ps] :
     c \in {0, 24, 25},
     ps \in {[AuthDefault EXCEPT !.AuthenticationMethod = a],
             [AuthDefault EXCEPT !.AuthenticationMethod = a, !.AuthenticationData = <<1>>]}}

\* CONNACK: v3 Accepted with and without a session, each named refusal,
\* and Other codes; v5 Success with and without a session, refusals, and
\* properties that differ from the defaults (a server keep alive of 0
\* turns keep alive off).
MCConnAckProps5 ==
  {ConnAckDefault, [ConnAckDefault EXCEPT !.SessionExpiryInterval = 30],
   [ConnAckDefault EXCEPT !.ReceiveMaximum = 10, !.MaximumQoS = 1],
   [ConnAckDefault EXCEPT !.RetainAvailable = 0, !.AssignedClientIdentifier = a],
   [ConnAckDefault EXCEPT !.ServerKeepAlive = 0],
   [ConnAckDefault EXCEPT !.UserProperty = <<<<a, a>>>>, !.AuthenticationData = <<>>]}

MCConnAcks ==
  {[Pkt(3, "ConnAck") EXCEPT !.reason = 0, !.session = s] : s \in BOOLEAN}
  \cup {[Pkt(3, "ConnAck") EXCEPT !.reason = c, !.other = c > 5] : c \in {1, 5, 6, 255}}
  \cup
  {[Pkt(5, "ConnAck") EXCEPT !.reason = c, !.session = s, !.props = ps] :
     <<c, s>> \in {<<0, FALSE>>, <<0, TRUE>>, <<135, FALSE>>, <<159, FALSE>>},
     ps \in MCConnAckProps5}

MCValues ==
  MCConnAcks \cup MCPublish(3, {Absent}) \cup MCPublish(5, MCPublishProps5) \cup MCAcks3 \cup MCAcks5
  \cup MCSubscribe \cup MCSubAcks \cup MCControl

\* Packets encode accepts: v3 CONNACKs refused with Other(0) and Other(4),
\* v5 CONNACKs with a Maximum Packet Size, no topic filter or code at all,
\* an AUTH with a reason code and no method, a DISCONNECT that sets its
\* session expiry interval to 0.
MCValuesUndecodable ==
  {[Pkt(3, "ConnAck") EXCEPT !.reason = 0, !.other = TRUE],
   [Pkt(3, "ConnAck") EXCEPT !.reason = 4, !.other = TRUE],
   [Pkt(5, "ConnAck") EXCEPT !.reason = 0,
                             !.props = [ConnAckDefault EXCEPT !.MaximumPacketSize = 1]],
   [Pkt(5, "ConnAck") EXCEPT !.reason = 0,
                             !.props = [ConnAckDefault EXCEPT !.MaximumPacketSize = 1024,
                                                              !.ReceiveMaximum = 300]],
   [Pkt(5, "Subscribe") EXCEPT !.pid = 1, !.props = SubscribeDefault],
   [Pkt(3, "Unsubscribe") EXCEPT !.pid = 1],
   [Pkt(3, "SubAck") EXCEPT !.pid = 1],
   [Pkt(5, "Auth") EXCEPT !.reason = 24, !.props = AuthDefault],
   [Pkt(5, "Disconnect") EXCEPT !.reason = 0,
                                !.props = [DisconnectDefault EXCEPT !.SessionExpiryInterval = 0]]}

\* A peer packet record.
W(v, first, pid, reason, props) ==
  [version |-> v, first |-> first, flags |-> Absent, topic |-> <<116>>, pid |-> pid,
   reason |-> reason, props |-> props, payload |-> <<104>>, entries |-> <<>>,
   codes |-> <<>>, extra |-> <<>>, cut |-> 0]

\* Packets cut after every byte of the body, and, but for SUBSCRIBE and
\* UNSUBSCRIBE whose entries run to the end, with a byte too many.
AllCuts(ws) ==
  UNION {{[w EXCEPT !.cut = c] : c \in 0 .. Len(WireBody(w))} : w \in ws}
  \cup {[w EXCEPT !.extra = <<0>>] : w \in {x \in ws : x.first \div 16 \notin {8, 10}}}

\* PUBLISH first bytes: each QoS with and without DUP and RETAIN, QoS 3.
MCPublishFirst == {48, 49, 50, 52, 56, 58, 61, 54}

\* v5 PUBLISH properties a peer sends: none, one expected, two expected,
\* one unexpected.  (A kind always carries values of one type: TLC cannot
\* compare an integer with a sequence, and the peer packets form one set.)
MCPublishWireProps5 ==
  {<<>>, <<Prop("ContentType", a)>>,
   <<Prop("ResponseTopic", a), Prop("CorrelationData", <<>>)>>,
   <<Prop("ReasonString", a)>>}

\* Acknowledgement first bytes, right and wrong flags, and type 0.
MCAckFirst == {64, 65, 80, 96, 98, 112, 0}

\* v5 acknowledgement tails: no reason code; a known and an unknown code
\* with a property section (empty, expected, unexpected).
MCAckTails5 ==
  {[reason |-> Absent, props |-> Absent]}
  \cup [reason : {0, 16, 146, 5},
        props : {<<>>, <<Prop("ReasonString", a)>>,
                 <<Prop("ContentType", a)>>}]

\* SUBSCRIBE option bytes: valid with every flag, QoS 3, retain handling
\* 3, a reserved bit, QoS 3 with the reserved bits.
MCOptions == {0, 46, 3, 48, 64, 195}

\* SUBSCRIBE and UNSUBSCRIBE a peer sends, with right and wrong flags:
\* one filter with each option byte, two filters the second of them bad,
\* no filter; v5 with a subscription identifier, two of them, and an
\* unexpected property.
MCSubscribeWires ==
  LET e(f, o) == [f |-> f, o |-> o]
      es(first) == IF first < 160
                   THEN {<<e(<<116>>, o)>> : o \in MCOptions}
                        \cup {<<e(<<116>>, 1), e(<<>>, 3)>>, <<>>}
                   ELSE {<<e(<<116>>, -1)>>, <<e(<<116>>, -1), e(<<>>, -1)>>, <<>>}
      props(v) == IF v = 3 THEN {Absent}
                  ELSE {<<>>, <<Prop("SubscriptionIdentifier", 5)>>,
                        <<Prop("SubscriptionIdentifier", 5),
                          Prop("SubscriptionIdentifier", 6)>>,
                        <<Prop("UserProperty", <<a, a>>)>>,
                        <<Prop("ContentType", a)>>}
  IN UNION {{[W(v, fb, 7, Absent, ps) EXCEPT !.entries = x] : x \in es(fb), ps \in props(v)} :
            v \in {3, 5}, fb \in {128, 130, 160, 162}}
     \cup {[W(v, 130, 0, Absent, IF v = 3 THEN Absent ELSE <<>>)
              EXCEPT !.entries = <<e(<<116>>, 0)>>] : v \in {3, 5}}

\* SUBACK and UNSUBACK a peer sends: known, unknown and no codes.
MCSubAckWires ==
  {[W(3, 144, i, Absent, Absent) EXCEPT !.codes = cs] :
     i \in {0, 7}, cs \in {<<0, 128>>, <<0, 3>>, <<>>}}
  \cup {W(3, f, i, Absent, Absent) : f \in {176, 178}, i \in {0, 7}}
  \cup
  {[W(5, f, 7, Absent, ps) EXCEPT !.codes = cs] :
     f \in {144, 146, 176}, cs \in {<<0, 162>>, <<0, 3>>, <<2>>, <<145>>, <<>>},
     ps \in {<<>>, <<Prop("ReasonString", a)>>, <<Prop("ContentType", a)>>}}

\* v5 DISCONNECT and AUTH tails: nothing, a known and an unknown code with
\* a property section (empty, expected, repeated, unexpected).
MCControlTails5(t) ==
  {[reason |-> Absent, props |-> Absent]}
  \cup [reason : IF t = "Disconnect" THEN {0, 4, 3} ELSE {0, 24, 3},
        props : IF t = "Disconnect"
                THEN {<<>>, <<Prop("SessionExpiryInterval", 30)>>,
                      <<Prop("ServerReference", a), Prop("ServerReference", a)>>,
                      <<Prop("ContentType", a)>>}
                ELSE {<<>>, <<Prop("AuthenticationMethod", a)>>,
                      <<Prop("AuthenticationMethod", a),
                        Prop("AuthenticationData", <<>>)>>,
                      <<Prop("ContentType", a)>>}]

\* PINGREQ, PINGRESP, DISCONNECT and AUTH a peer sends, with right and
\* wrong flags.
MCControlWires ==
  {W(v, f, Absent, Absent, Absent) : v \in {3, 5}, f \in {192, 193, 208, 224, 225, 240}}
  \cup
  {W(5, 224, Absent, tl.reason, tl.props) : tl \in MCControlTails5("Disconnect")}
  \cup {W(5, 240, Absent, tl.reason, tl.props) : tl \in MCControlTails5("Auth")}

\* CONNACKs a peer sends: both session flags and a reserved one, with
\* Accepted, a named refusal and a reserved code (v3), or Success, a
\* refusal and an unknown code with a property section (v5).
MCConnAckWires ==
  {[W(3, fb, Absent, c, Absent) EXCEPT !.flags = f] :
     fb \in {32, 33}, f \in {0, 1, 2}, c \in {0, 2, 6}}
  \cup
  {[W(5, 32, Absent, c, ps) EXCEPT !.flags = f] :
     f \in {0, 1, 2}, c \in {0, 135, 139},
     ps \in {<<>>, <<Prop("ReasonString", a)>>,
            <<Prop("ServerReference", a), Prop("ServerReference", a)>>,
            <<Prop("ContentType", a)>>}}

\* A v5 packet cut to its reason code alone, with no property length: what
\* MQTT 5 sends for an acknowledgement or DISCONNECT with a non-default
\* code and no properties.
ShortAck(w) ==
  LET ts == TypeOf(w.version, w.first) IN
  /\ w.version = 5
  /\ \/ ts \cap AckTypes # {} /\ Len(WireBody(w)) = 3
     \/ ts = {"Disconnect"} /\ Len(WireBody(w)) = 1

MCWiresAll ==
  AllCuts({W(v, f, i, Absent, <<>>) : v \in {3, 5}, f \in MCPublishFirst, i \in {0, 7}}
          \cup {W(5, f, 7, Absent, ps) : f \in {48, 50}, ps \in MCPublishWireProps5}
          \cup {W(3, f, i, Absent, Absent) : f \in MCAckFirst, i \in {0, 9}}
          \cup {W(5, f, i, tl.reason, tl.props) : f \in MCAckFirst, i \in {0, 9},
                                                   tl \in MCAckTails5}
          \cup MCSubscribeWires \cup MCSubAckWires \cup MCControlWires
          \cup MCConnAckWires)

\* Every peer packet but those an MQTT 5 peer cuts to a reason code.
MCWires == {w \in MCWiresAll : ~ShortAck(w)}

\* The v5 PUBACKs and DISCONNECTs cut to their reason code.
MCWiresShortAck == {w \in MCWiresAll : ShortAck(w) /\ w.first \in {64, 224}}

\* v5 SUBSCRIBEs with a Subscription Identifier of 0, alone and after a
\* user property.
MCWiresZeroSubscriptionId ==
  {[W(5, 130, 7, Absent, ps) EXCEPT !.entries = <<[f |-> <<116>>, o |-> 0]>>] :
     ps \in {<<Prop("SubscriptionIdentifier", 0)>>,
            <<Prop("UserProperty", <<a, a>>), Prop("SubscriptionIdentifier", 0)>>}}

\* A v5 CONNACK with Receive Maximum 0 and a v5 PUBLISH with Topic Alias 0.
MCWiresZeroValue ==
  {[W(5, 32, Absent, 0, <<Prop("ReceiveMaximum", 0)>>) EXCEPT !.flags = 0],
   W(5, 48, 7, Absent, <<Prop("TopicAlias", 0)>>)}

\* Peer packets the decoder treats otherwise than MQTT 5 says.
MCWiresDivergent == MCWiresShortAck \cup MCWiresZeroSubscriptionId \cup MCWiresZeroValue

=============================================================================
