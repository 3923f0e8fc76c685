\* Packets encode writes that the decoder of their version refuses, or
\* reads back as another packet.
CONSTANTS
  Absent = Absent
  Packets <- MCValuesUndecodable
  Wires = {}
  Versions = {3, 5}

SPECIFICATION Spec
\* Each run ends when the codec returns.
CHECK_DEADLOCK FALSE

INVARIANT RoundTrip
