CONSTANTS
  Views = {v1, v2, v3}
  Len = 4
  Bytes = {0, 1}
  MaxPut = 2

SPECIFICATION Spec
SYMMETRY ViewSymmetry

INVARIANT TypeOK
 
INVARIANT ReadsAreStable
INVARIANT PooledIffUnreferenced
INVARIANT StrLenAgrees
