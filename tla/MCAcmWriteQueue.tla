-------------------------- MODULE MCAcmWriteQueue --------------------------
(* The write side of a channel on small instances.                          *)
EXTENDS AcmWriteQueue, TLC

CONSTANTS r1, r2, r3

\* Two requests with one byte of data and one with two.
MCDataSize == (r1 :> 1) @@ (r2 :> 2) @@ (r3 :> 1)
=============================================================================
