------------------------- MODULE MCSharedConnection -------------------------
(* An instance of SharedConnection for TLC. *)
EXTENDS SharedConnection

CONSTANTS evidence, classification
=============================================================================
