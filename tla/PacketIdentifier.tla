--------------------------- MODULE PacketIdentifier ---------------------------
(***************************************************************************)
(* PacketIdentifier of src/mqtt-proto/src/lib.rs: a u16 that is never 0.  *)
(* new refuses 0; + (and +=) adds with u16 wrap-around and turns a result  *)
(* of 0 into 1.                                                            *)
(*                                                                         *)
(* The state is that of a caller that allocates identifiers the way the    *)
(* type is meant for: it takes a first one from new, then advances it with *)
(* += for each packet it sends.  A ghost counts the allocations.           *)
(***************************************************************************)
EXTENDS Naturals

CONSTANTS
  None,       \* the None of Option<PacketIdentifier>
  Raws,       \* raw u16 values a caller hands to new
  Steps,      \* the amounts a caller adds with +=
  MaxIssued   \* the most allocations a behaviour makes

ASSUME Raws \subseteq 0 .. 65535 /\ Steps \subseteq 0 .. 65535 /\ MaxIssued \in Nat

VARIABLES
  id,      \* the caller's current PacketIdentifier
  start,   \* ghost: the identifier the caller started from
  issued   \* ghost: how many += the caller has made

vars == <<id, start, issued>>

U16Max == 65535

\* PacketIdentifier::new: 0 is None.
New(raw) == IF raw = 0 THEN None ELSE raw

\* Faulty variant of Add: the sum wraps modulo 65535 instead of 2^16.
AddModMax(x, n) == LET s == (x + n) % U16Max IN IF s = 0 THEN 1 ELSE s

\* <PacketIdentifier as Add<u16>>::add: wrapping_add, and 0 becomes 1.
Add(x, n) == LET s == (x + n) % (U16Max + 1) IN IF s = 0 THEN 1 ELSE s

Init ==
  /\ id \in {New(r) : r \in Raws} \ {None}
  /\ start = id
  /\ issued = 0

\* AddAssign: id += n.
AddAssign ==
  /\ issued < MaxIssued
  /\ \E n \in Steps : id' = Add(id, n)
  /\ start' = start
  /\ issued' = issued + 1

Next == AddAssign

Spec == Init /\ [][Next]_vars

-----------------------------------------------------------------------------

TypeOK == id \in 1 .. U16Max /\ start \in 1 .. U16Max /\ issued \in 0 .. MaxIssued

\* Allocating one identifier at a time with += 1 walks the 65535 valid
\* identifiers in order, wrapping from 0xFFFF to 0x0001: the k-th
\* allocation is start + k counted around 1..65535, so no identifier comes
\* back, and 0 never appears, before all others have been used.
AllocationCycle ==
  Steps = {1} => id = ((start - 1 + issued) % U16Max) + 1

=============================================================================
