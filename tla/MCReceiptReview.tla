--------------------------- MODULE MCReceiptReview ---------------------------
(* Instances of ReceiptReview for TLC. *)
EXTENDS ReceiptReview

CONSTANTS r1, r2, total, v0, v1

Blank == [f \in Fields |-> v0]
=============================================================================
