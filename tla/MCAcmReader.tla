---------------------------- MODULE MCAcmReader ----------------------------
(* The read side of a channel on small instances.                           *)
EXTENDS AcmReader

\* Four responses, with a head of 2 bytes and 1, 0, 2 and 0 bytes of data.
MCStart == <<0, 3, 5, 9, 11>>
=============================================================================
