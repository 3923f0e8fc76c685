\* A caller starting from the first, a middle and the last two identifiers
\* allocates with += 1 through one whole cycle and one step past it.
CONSTANTS
  None = None
  Raws = {0, 1, 300, 65534, 65535}
  Steps = {1}
  MaxIssued = 65536

SPECIFICATION Spec
\* The caller stops after MaxIssued allocations.
CHECK_DEADLOCK FALSE

INVARIANT AllocationCycle
