--------------------------- MODULE MCBatchResults ---------------------------
(* Instances of BatchResults for TLC. *)
EXTENDS BatchResults, TLC
=============================================================================
