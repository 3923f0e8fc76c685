----------------------------- MODULE FixedHeader -----------------------------
(***************************************************************************)
(* The fixed header of an MQTT packet: the first byte and the variable-    *)
(* length "remaining length" (src/mqtt-proto/src/lib.rs).  The encoder is  *)
(* the head of encode_inner (v3.rs / v5/mod.rs): put the first byte, then   *)
(* encode_remaining_length(body_len) into a writable view of bounded       *)
(* capacity.  The decoder is decode_fixed_header: split off the first      *)
(* byte, then decode_remaining_length.  Each loop iteration of either      *)
(* function is one step.                                                   *)
(*                                                                         *)
(* A run starts either from bytes off the wire (any short sequence over a  *)
(* few byte values) or from a body length to encode; in the second case    *)
(* the bytes the encoder wrote are then decoded, as a peer would.          *)
(*                                                                         *)
(* OR-ing a 7-bit group into the accumulator at shift 7k, as the code      *)
(* does, is adding (b % 128) * 128^k, since the groups do not overlap.     *)
(***************************************************************************)
EXTENDS Integers, Sequences

CONSTANTS
  WireBytes,   \* byte values of the inputs taken off the wire
  MaxWire,     \* longest input taken off the wire
  FirstBytes,  \* first bytes (packet type | flags) given to the encoder
  BodyLens,    \* body lengths given to the encoder
  Caps         \* capacities of the writable view the encoder writes into

VARIABLES
  phase,    \* "encode", "decode" or "done"
  first,    \* the first byte being encoded, or decoded
  item,     \* encode_remaining_length: the value still to be written
  nwritten, \* encode_remaining_length: num_bytes_written
  out,      \* the bytes the encoder has put in the writable view
  cap,      \* capacity of that view
  eres,     \* outcome of the encoder: "none", "Ok" or an EncodeError
  src,      \* the bytes the decoder has not yet consumed
  acc,      \* decode_remaining_length: result
  nread,    \* decode_remaining_length: num_bytes_read
  dres,     \* outcome of the decoder
  input,    \* ghost: the whole input of the decoder
  body      \* ghost: the body length the encoder was given, or -1

vars == <<phase, first, item, nwritten, out, cap, eres, src, acc, nread, dres,
          input, body>>

NoFirst == 256

\* Outcomes of decode_fixed_header: still running, Ok(None), Ok(Some(..)),
\* or Err(RemainingLengthTooHigh).
Pending == [kind |-> "Pending"]
NoneYet == [kind |-> "None"]
SomeHeader(b, n) == [kind |-> "Some", first |-> b, len |-> n]
TooHigh == [kind |-> "RemainingLengthTooHigh"]

-----------------------------------------------------------------------------
(* Reference definitions, from the MQTT specification of the encoding      *)
(* (3.1.1 section 2.2.3, 5.0 section 2.1.4), not from the code.            *)

\* Value of a remaining-length field whose bytes are s, the last one
\* without the continuation bit: the 7-bit groups, least significant first.
RECURSIVE GroupsValue(_)
GroupsValue(s) ==
  IF s = <<>> THEN 0 ELSE (Head(s) % 128) + 128 * GroupsValue(Tail(s))

\* Position of the first byte without the continuation bit, 0 if none.
Terminator(s) ==
  LET ends == {i \in DOMAIN s : s[i] < 128} IN
  IF ends = {} THEN 0 ELSE CHOOSE i \in ends : \A j \in ends : i <= j

\* What reading a fixed header from bytes s must give: the remaining length
\* is at most four bytes; a fifth is an error; running out is "need more".
RefDecode(s) ==
  IF s = <<>> THEN NoneYet
  ELSE LET rl == Tail(s)
           t  == Terminator(rl)
       IN
       IF t = 0 \/ t > 4
       THEN IF Len(rl) >= 4 THEN TooHigh ELSE NoneYet
       ELSE SomeHeader(Head(s), GroupsValue(SubSeq(rl, 1, t)))

\* Number of bytes of the shortest encoding of n.
RECURSIVE MinLen(_)
MinLen(n) == IF n < 128 THEN 1 ELSE 1 + MinLen(n \div 128)

MaxRemainingLength == 268435455   \* 2^28 - 1, four 7-bit groups

-----------------------------------------------------------------------------
(* The encoder: encode_inner's first byte, then encode_remaining_length.   *)

\* dst.try_put_u8(TPacket::PACKET_TYPE | flags).
PutFirstByte ==
  /\ phase = "encode" /\ eres = "none" /\ out = <<>>
  /\ \/ /\ cap >= 1
        /\ out' = <<first>>
        /\ UNCHANGED eres
     \/ /\ cap < 1
        /\ eres' = "InsufficientBuffer"
        /\ UNCHANGED out
  /\ phase' = IF cap >= 1 THEN "encode" ELSE "done"
  /\ UNCHANGED <<first, item, nwritten, cap, src, acc, nread, dres, input, body>>

\* Faulty variant of EncodeStep: the four-byte limit is tested before the
\* loop's exit on a finished value.
EncodeStepLimitFirst ==
  /\ phase = "encode" /\ eres = "none" /\ out # <<>>
  /\ LET rest == item \div 128
         byte == (item % 128) + (IF rest > 0 THEN 128 ELSE 0)
     IN
     \/ /\ Len(out) >= cap
        /\ eres' = "InsufficientBuffer"
        /\ phase' = "done"
        /\ UNCHANGED <<first, item, nwritten, out, src, input>>
     \/ /\ Len(out) < cap
        /\ out' = Append(out, byte)
        /\ item' = rest
        /\ nwritten' = nwritten + 1
        /\ CASE nwritten + 1 = 4 ->
                  /\ eres' = "RemainingLengthTooHigh"
                  /\ phase' = "done"
                  /\ UNCHANGED <<first, src, input>>
             [] rest = 0 ->
                  /\ eres' = "Ok"
                  /\ phase' = "decode"
                  /\ first' = NoFirst
                  /\ src' = Append(out, byte)
                  /\ input' = Append(out, byte)
             [] OTHER ->
                  UNCHANGED <<eres, phase, first, src, input>>
  /\ UNCHANGED <<cap, acc, nread, dres, body>>

\* One iteration of the loop of encode_remaining_length.
EncodeStep ==
  /\ phase = "encode" /\ eres = "none" /\ out # <<>>
  /\ LET rest == item \div 128
         byte == (item % 128) + (IF rest > 0 THEN 128 ELSE 0)
     IN
     \/ /\ Len(out) >= cap
        /\ eres' = "InsufficientBuffer"
        /\ phase' = "done"
        /\ UNCHANGED <<first, item, nwritten, out, src, input>>
     \/ /\ Len(out) < cap
        /\ out' = Append(out, byte)
        /\ item' = rest
        /\ nwritten' = nwritten + 1
        /\ CASE rest = 0 ->
                  \* Ok(()): a peer now decodes what was written.
                  /\ eres' = "Ok"
                  /\ phase' = "decode"
                  /\ first' = NoFirst
                  /\ src' = Append(out, byte)
                  /\ input' = Append(out, byte)
             [] rest > 0 /\ nwritten + 1 = 4 ->
                  /\ eres' = "RemainingLengthTooHigh"
                  /\ phase' = "done"
                  /\ UNCHANGED <<first, src, input>>
             [] OTHER ->
                  UNCHANGED <<eres, phase, first, src, input>>
  /\ UNCHANGED <<cap, acc, nread, dres, body>>

-----------------------------------------------------------------------------
(* The decoder: decode_fixed_header.                                       *)

\* src.split_first(): Ok(None) on an empty input.
DecodeFirstByte ==
  /\ phase = "decode" /\ first = NoFirst /\ dres = Pending
  /\ \/ /\ src = <<>>
        /\ dres' = NoneYet
        /\ phase' = "done"
        /\ UNCHANGED <<first, src>>
     \/ /\ src # <<>>
        /\ first' = Head(src)
        /\ src' = Tail(src)
        /\ UNCHANGED <<dres, phase>>
  /\ UNCHANGED <<item, nwritten, out, cap, eres, acc, nread, input, body>>

\* Faulty variant of DecodeStep: the four-byte limit is tested before the
\* continuation bit of the byte just read.
DecodeStepLimitFirst ==
  /\ phase = "decode" /\ first # NoFirst /\ dres = Pending
  /\ \/ /\ src = <<>>
        /\ dres' = NoneYet
        /\ phase' = "done"
        /\ UNCHANGED <<src, acc, nread>>
     \/ /\ src # <<>>
        /\ LET b == Head(src)
               a == acc + (b % 128) * (2 ^ (7 * nread))
           IN
           /\ src' = Tail(src)
           /\ acc' = a
           /\ nread' = nread + 1
           /\ CASE nread + 1 = 4 ->
                     dres' = TooHigh /\ phase' = "done"
                [] b < 128 ->
                     dres' = SomeHeader(first, a) /\ phase' = "done"
                [] OTHER ->
                     UNCHANGED <<dres, phase>>
  /\ UNCHANGED <<first, item, nwritten, out, cap, eres, input, body>>

\* Faulty variant of DecodeStep: when the input runs out, the loop goes
\* round again (continue) instead of returning Ok(None).
DecodeStepRetryEmpty ==
  /\ phase = "decode" /\ first # NoFirst /\ dres = Pending
  /\ \/ /\ src = <<>>
        /\ UNCHANGED <<dres, phase, src, acc, nread>>
     \/ /\ src # <<>>
        /\ LET b == Head(src)
               a == acc + (b % 128) * (2 ^ (7 * nread))
           IN
           /\ src' = Tail(src)
           /\ acc' = a
           /\ nread' = nread + 1
           /\ CASE b < 128 ->
                     dres' = SomeHeader(first, a) /\ phase' = "done"
                [] nread + 1 = 4 ->
                     dres' = TooHigh /\ phase' = "done"
                [] OTHER ->
                     UNCHANGED <<dres, phase>>
  /\ UNCHANGED <<first, item, nwritten, out, cap, eres, input, body>>

\* One iteration of the loop of decode_remaining_length.
DecodeStep ==
  /\ phase = "decode" /\ first # NoFirst /\ dres = Pending
  /\ \/ /\ src = <<>>
        /\ dres' = NoneYet
        /\ phase' = "done"
        /\ UNCHANGED <<src, acc, nread>>
     \/ /\ src # <<>>
        /\ LET b == Head(src)
               a == acc + (b % 128) * (2 ^ (7 * nread))
           IN
           /\ src' = Tail(src)
           /\ acc' = a
           /\ nread' = nread + 1
           /\ CASE b < 128 ->
                     dres' = SomeHeader(first, a) /\ phase' = "done"
                [] nread + 1 = 4 ->
                     dres' = TooHigh /\ phase' = "done"
                [] OTHER ->
                     UNCHANGED <<dres, phase>>
  /\ UNCHANGED <<first, item, nwritten, out, cap, eres, input, body>>

-----------------------------------------------------------------------------

\* Bytes off the wire: any sequence of at most MaxWire bytes.
WireInputs == UNION {[1 .. k -> WireBytes] : k \in 0 .. MaxWire}

Init ==
  /\ nwritten = 0 /\ acc = 0 /\ nread = 0 /\ dres = Pending
  /\ \/ /\ phase = "decode" /\ first = NoFirst
        /\ input \in WireInputs /\ src = input
        /\ item = 0 /\ out = <<>> /\ cap = 0 /\ eres = "none" /\ body = -1
     \/ /\ phase = "encode"
        /\ first \in FirstBytes /\ body \in BodyLens /\ item = body
        /\ cap \in Caps /\ out = <<>> /\ eres = "none"
        /\ src = <<>> /\ input = <<>>

Next ==
  \/ PutFirstByte
  \/ EncodeStep
  \/ DecodeFirstByte
  \/ DecodeStep

Spec == Init /\ [][Next]_vars

\* decode_fixed_header and encode_inner are plain function calls: no await,
\* no lock and no blocking read, so a loop iteration that can run does run.
FairSpec == Spec /\ WF_vars(Next)

-----------------------------------------------------------------------------
(* Properties.                                                            *)

\* decode_fixed_header agrees with the MQTT definition of the encoding on
\* every input: Ok(None) exactly when the input runs out inside the
\* header, RemainingLengthTooHigh when four bytes all carry the
\* continuation bit, and otherwise the value of the groups, longer than
\* necessary encodings included.
DecodeMatchesReference ==
  phase = "done" /\ dres # Pending => dres = RefDecode(input)

\* What encode_inner writes for a body length below 2^28 into a view with
\* room for it decodes to the same first byte and length, in the fewest
\* bytes; a length of 2^28 or more is refused with RemainingLengthTooHigh.
EncodeRoundTrip ==
  phase = "done" /\ body >= 0 /\ cap >= 5 =>
    IF body <= MaxRemainingLength
    THEN /\ dres = SomeHeader(out[1], body)
         /\ Len(out) = 1 + MinLen(body)
    ELSE eres = "RemainingLengthTooHigh"

\* Every call returns: the loops of encode_remaining_length and
\* decode_remaining_length end, by their four-byte limit, a full view, a
\* last group, or the end of the input (Ok(None), for the caller to call
\* again with more bytes).
Terminates == <>(phase = "done")

\* Spec 4.2 and 8: encoding a remaining length of 2^28 or more yields
\* RemainingLengthTooHigh, whatever the writable view it is encoded into.
TooHighReported ==
  phase = "done" /\ body > MaxRemainingLength => eres = "RemainingLengthTooHigh"

=============================================================================
