----------------------------- MODULE MCSccFifo -----------------------------
(* A ring of three slots and three byte values: every head, tail and flag  *)
(* is reached with the queue empty, partly filled, full, and wrapped.      *)
EXTENDS SccFifo

MCByte == {0, 1, 2}
MCSize == 3
=============================================================================
