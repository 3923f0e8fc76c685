\* Packets of every type but CONNECT encoded then decoded, and
\* packets taken off the wire.
CONSTANTS
  Absent = Absent
  Packets <- MCValues
  Wires <- MCWires
  Versions = {3, 5}

SPECIFICATION Spec
\* Each run ends when the codec returns.
CHECK_DEADLOCK FALSE

INVARIANT TypeOK
INVARIANT RoundTrip
INVARIANT DecodeMatchesSpec
PROPERTY CodecRefinement
