\* A length of 2^28 or more encoded into a view too small for four bytes.
CONSTANTS
  WireBytes = {0}
  MaxWire = 0
  FirstBytes = {48}
  BodyLens = {268435456}
  Caps = {2, 5}

SPECIFICATION Spec
CHECK_DEADLOCK FALSE

INVARIANT TooHighReported
