------------------------------ MODULE MCConnect ------------------------------
(* CONNECT values and peer bodies for Connect.                             *)
EXTENDS Connect

a == <<97>>

\* Client ids of every kind, empty ones included.
MCClients ==
  {ServerGenerated, [kind |-> "Clean", id |-> a], [kind |-> "Existing", id |-> a],
   [kind |-> "Clean", id |-> <<>>], [kind |-> "Existing", id |-> <<>>]}

\* v3 CONNECTs: keep alives at the edges of u16, wills of every QoS with
\* and without retain, empty and absent credentials.
MCPackets3 ==
  [level : {4}, client : MCClients, keep_alive : {0, 60, 65535, 65536},
   will : {Absent} \cup [topic : {<<116>>}, qos : 0 .. 2, retain : BOOLEAN,
                         payload : {<<>>, <<104, 105>>}, props : {Absent}],
   username : {Absent, <<>>, <<117>>}, password : {Absent, <<112>>},
   props : {Absent}]

\* v5 CONNECTs: a few properties, and a will with and without a topic alias.
MCWillProps5 ==
  {WillDefault, [WillDefault EXCEPT !.MessageExpiryInterval = 7],
   [WillDefault EXCEPT !.TopicAlias = 3]}

MCPackets5 ==
  [level : {5}, client : MCClients, keep_alive : {60},
   will : {Absent} \cup [topic : {<<116>>}, qos : {1}, retain : {FALSE},
                         payload : {<<104>>}, props : MCWillProps5],
   username : {Absent}, password : {<<112>>},
   props : {ConnectDefault, [ConnectDefault EXCEPT !.SessionExpiryInterval = 0],
            [ConnectDefault EXCEPT !.ReceiveMaximum = 10]}]

\* A v3 body with the given header, flags and client id.
Body3(hf, name, level, flags, id) ==
  [hflags |-> hf, name |-> name, level |-> level, header5 |-> FALSE,
   flags |-> flags, keep_alive |-> 60, props |-> <<>>, id |-> id,
   willprops |-> <<>>, topic |-> <<116>>, payload |-> <<104>>,
   username |-> <<117>>, password |-> <<>>, extra |-> <<>>, cut |-> 0]

\* Flags: none, clean session, the reserved bit, a will of QoS 0, 1 with
\* retain, and 3, a user name and password, a password alone.
MCFlags3 == {0, 2, 3, 6, 46, 30, 194, 66}

\* Bodies cut after every byte, and bodies with a byte too many.
AllCuts(bs) ==
  UNION {{[b EXCEPT !.cut = c] : c \in 0 .. Len(WireBody(b))} : b \in bs}
  \cup {[b EXCEPT !.extra = <<0>>] : b \in bs}

MCWires3 ==
  AllCuts({Body3(0, ProtocolName, l, f, id) : l \in {4, 5}, f \in MCFlags3,
                                              id \in {<<>>, a}})
  \cup {Body3(2, ProtocolName, 4, 2, a), Body3(0, <<77, 81, 84>>, 4, 2, a),
        Body3(0, <<77, 81, 84, 83>>, 4, 2, a), Body3(0, ProtocolName, 3, 2, a),
        [Body3(0, ProtocolName, 4, 2, a) EXCEPT !.keep_alive = 65535]}

\* v5 bodies.  The decoder reads the protocol header twice, so a body gets
\* past it only when the header is repeated; a body as MQTT 5 lays it out
\* is there too.
MCConnectProps5 ==
  {[k |-> "SessionExpiryInterval", v |-> 0], [k |-> "ReceiveMaximum", v |-> 10],
   [k |-> "ReceiveMaximum", v |-> 0],
   [k |-> "MaximumPacketSize", v |-> 0], [k |-> "MaximumPacketSize", v |-> 9],
   [k |-> "UserProperty", v |-> <<<<>>, a>>], [k |-> "TopicAlias", v |-> 3]}

MCWillProps5Wire ==
  {[k |-> "WillDelayInterval", v |-> 5], [k |-> "TopicAlias", v |-> 3],
   [k |-> "PayloadIsUtf8", v |-> 2], [k |-> "MessageExpiryInterval", v |-> 7]}

Body5(h5, flags, props, willprops, id, cut) ==
  [Body3(0, ProtocolName, 5, flags, id) EXCEPT
     !.header5 = h5, !.props = props, !.willprops = willprops, !.cut = cut]

MCWires5 ==
  {Body5(TRUE, f, ps, <<>>, id, c) :
     f \in {0, 2, 194}, ps \in BoundedSeq(MCConnectProps5, 2), id \in {<<>>, a},
     c \in {0, 1}}
  \cup {Body5(TRUE, f, <<>>, ws, a, 0) :
          f \in {6, 38, 30}, ws \in BoundedSeq(MCWillProps5Wire, 2)}
  \cup {Body5(TRUE, 3, <<>>, <<>>, a, 0), Body5(FALSE, 2, <<>>, <<>>, a, 0)}

\* The bodies of both versions, each handed to every decoder.
MCWires == MCWires3 \cup MCWires5

=============================================================================
