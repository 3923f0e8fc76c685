\* CONNACK property sections: encoded then decoded, and taken off the wire.
CONSTANTS
  Absent = Absent
  Expected <- ConnAckExpected
  Lists = {"UserProperty"}
  Packets <- MCPackets
  WireProps <- MCWireProps
  MaxProps = 3

SPECIFICATION FairSpec
\* Each run ends when the codec returns.
CHECK_DEADLOCK FALSE

INVARIANT TypeOK
INVARIANT RoundTrip
INVARIANT DecodeMatchesSpec
PROPERTY Terminates
