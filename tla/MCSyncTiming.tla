---------------------------- MODULE MCSyncTiming ----------------------------
(* An instance of SyncTiming for TLC. *)
EXTENDS SyncTiming

\* an odd and an even interval, so that ticks and halves fall apart
OddAndEven == <<3, 4>>
=============================================================================
