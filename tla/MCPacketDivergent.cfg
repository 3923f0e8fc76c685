\* Peer packets the decoder reads otherwise than MQTT 5 says: v5 PUBACKs
\* and DISCONNECTs that carry a reason code and no property length,
\* SUBSCRIBEs with a Subscription Identifier of 0, a CONNACK with Receive
\* Maximum 0 and a PUBLISH with Topic Alias 0.
CONSTANTS
  Absent = Absent
  Packets = {}
  Wires <- MCWiresDivergent
  Versions = {3, 5}

SPECIFICATION Spec
\* Each run ends when the codec returns.
CHECK_DEADLOCK FALSE

INVARIANT DecodeMatchesSpec
