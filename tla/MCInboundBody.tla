--------------------------- MODULE MCInboundBody ---------------------------
(* Up to two overlapping reads for TLC. *)
EXTENDS InboundBody

CONSTANTS c1, c2

=============================================================================
