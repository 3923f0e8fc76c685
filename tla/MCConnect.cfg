\* v3 CONNECTs encoded then decoded; v3 and v5 bodies taken off the wire,
\* decoded, and written again.
CONSTANTS
  Absent = Absent
  Packets <- MCPackets3
  Wires <- MCWires
  Entries = {"v3", "v5", "any"}

SPECIFICATION Spec
\* Each run ends when the codec returns.
CHECK_DEADLOCK FALSE

INVARIANT TypeOK
INVARIANT RoundTrip
INVARIANT DecodeMatchesSpec
INVARIANT EncodeAcceptsDecoded
