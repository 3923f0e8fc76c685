\* v5 CONNECTs encoded then decoded.
CONSTANTS
  Absent = Absent
  Packets <- MCPackets5
  Wires = {}
  Entries = {"v5", "any"}

SPECIFICATION Spec
\* Each run ends when the codec returns.
CHECK_DEADLOCK FALSE

INVARIANT RoundTrip
