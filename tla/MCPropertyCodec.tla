--------------------------- MODULE MCPropertyCodec ---------------------------
(* CONNACK instances of PropertyCodec.                                     *)
EXTENDS PropertyCodec

\* The properties ConnAck::decode binds (v5/connack.rs, decode_properties!).
ConnAckExpected == ToSet(ConnAckOrder)

\* Values other than the default that the encoder is given, per field:
\* zero, the edges of u16 and values past them, empty strings and lists.
ConnAckVariants ==
  [SessionExpiryInterval |-> {0, 70000}, ReceiveMaximum |-> {0, 300, 65536},
   MaximumQoS |-> {0, 1}, RetainAvailable |-> {0},
   AssignedClientIdentifier |-> {<<97>>}, TopicAliasMaximum |-> {300},
   ReasonString |-> {<<>>},
   UserProperty |-> {<< <<<<97>>, <<>>>>, <<<<>>, <<98>>>> >>},
   SharedSubscriptionAvailable |-> {0}, ServerKeepAlive |-> {0, 65536},
   AuthenticationData |-> {<<1>>}]

\* CONNACKs that differ from the defaults in at most two fields.
AtMostTwo(var) ==
  UNION {UNION {{[ConnAckDefault EXCEPT ![f] = x, ![g] = y] :
                    x \in var[f], y \in var[g]} : g \in DOMAIN var} :
         f \in DOMAIN var}
  \cup {ConnAckDefault}

MCPackets == AtMostTwo(ConnAckVariants)

\* Properties a peer may send: valid and invalid values, a repeated plain
\* property, a list-valued one, ones CONNACK does not take, an unassigned
\* identifier, a two-byte variable-length integer.
MCWireProps ==
  {[k |-> "ReceiveMaximum", v |-> 10], [k |-> "RetainAvailable", v |-> 0],
   [k |-> "RetainAvailable", v |-> 2], [k |-> "MaximumQoS", v |-> 2],
   [k |-> "MaximumPacketSize", v |-> 0], [k |-> "MaximumPacketSize", v |-> 9],
   [k |-> "UserProperty", v |-> <<<<>>, <<97>>>>], [k |-> "ReasonString", v |-> <<>>],
   [k |-> "TopicAlias", v |-> 3], [k |-> "SubscriptionIdentifier", v |-> 200],
   [k |-> "Unassigned", v |-> 0]}

=============================================================================
