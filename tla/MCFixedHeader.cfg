CONSTANTS
  WireBytes <- MCWireBytes
  MaxWire = 5
  FirstBytes = {48, 192}
  BodyLens <- MCBodyLens
  Caps = {0, 1, 2, 5}

SPECIFICATION FairSpec
\* decode_fixed_header and encode_inner return: a run ends.
CHECK_DEADLOCK FALSE

INVARIANT DecodeMatchesReference
INVARIANT EncodeRoundTrip
PROPERTY Terminates
