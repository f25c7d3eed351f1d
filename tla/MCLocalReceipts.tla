--------------------------- MODULE MCLocalReceipts ---------------------------
(* Instances of LocalReceipts for TLC. *)
EXTENDS LocalReceipts

CONSTANTS r1, r2, h1, h2, d1

\* One receipt from an image and one from a PDF, of different contents.
OneImage == {r1}
TwoContents == [r \in Receipts |-> IF r = r1 THEN h1 ELSE h2]

\* The same file imported twice.
SameContent == [r \in Receipts |-> h1]

\* The behaviours in which the user waits for an import to end before doing
\* anything else.
WaitsForImport == Importing => UNCHANGED pass
PatientSpec == Init /\ [][Next /\ WaitsForImport]_vars
=============================================================================
