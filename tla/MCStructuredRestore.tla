------------------------- MODULE MCStructuredRestore -------------------------
(* Instances of StructuredRestore for TLC. *)
EXTENDS StructuredRestore

CONSTANTS r1, r2, h1, h2, d1, a1, a2

TwoContents == [r \in Receipts |-> IF r = r1 THEN h1 ELSE h2]
=============================================================================
