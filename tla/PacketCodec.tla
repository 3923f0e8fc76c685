------------------------------ MODULE PacketCodec ------------------------------
(***************************************************************************)
(* What one call of the packet codec of src/mqtt-proto promises, with no   *)
(* bytes in it: the call is handed an input (a packet to encode and decode *)
(* again, or a packet a peer laid out), and it returns, once and for good, *)
(* one of the outcomes allowed for that input.                             *)
(*                                                                         *)
(* Module Packet implements this specification: the blocks of decode are   *)
(* steps that leave the outcome pending, and the step that ends the call   *)
(* is Return.                                                              *)
(***************************************************************************)

CONSTANTS
  Pending,      \* the outcome of a call that has not returned
  Outcome(_)    \* Outcome(i): the outcomes a call on i may return

VARIABLES
  input,   \* what the call was handed
  output   \* what it returned, or Pending

vars == <<input, output>>

\* The caller may hand the codec anything.
Init == output = Pending

\* The call returns.
Return ==
  /\ output = Pending
  /\ output' \in Outcome(input)
  /\ input' = input

\* A call that has been made returns: encode and decode are plain function
\* calls with no await and no lock in them.
Spec == Init /\ [][Return]_vars /\ WF_vars(Return)

\* The safety part of Spec: outcomes are only ever pending, then one allowed
\* outcome for good.
Safety == Init /\ [][Return]_vars

=============================================================================
