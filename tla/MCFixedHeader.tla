---------------------------- MODULE MCFixedHeader ----------------------------
(* Model-checking instance of FixedHeader.  The wire bytes cover a final    *)
(* group (0x00, 0x01, 0x7F), continuation groups (0x80, 0x81, 0xFF) and    *)
(* inputs one byte longer than the longest header; the body lengths are    *)
(* the boundaries of each encoded length.                                   *)
EXTENDS FixedHeader

MCWireBytes == {0, 1, 127, 128, 129, 255}
MCBodyLens == {0, 127, 128, 16383, 16384, 2097151, 2097152, 268435455,
               268435456, 2147483647}
=============================================================================
