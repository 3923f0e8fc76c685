\* A region that may hold the byte 0x80, a continuation byte that cannot
\* start a UTF-8 sequence, as a peer's string content.
CONSTANTS
  Views = {v1, v2, v3}
  Len = 3
  Bytes = {0, 1, 128}
  MaxPut = 2

SPECIFICATION Spec
SYMMETRY ViewSymmetry

INVARIANT StrIsUtf8
