-------------------------- MODULE DocumentPromise --------------------------
(***************************************************************************)
(* What the application promises of the documents of a receipt, whatever   *)
(* the imports, clean-up passes, crashes and retries behind it:            *)
(* docs/DATA_MODEL.md, docs/SECURITY_MODEL.md and ADR-0011.  It says       *)
(* nothing of stores, passes or screens; LocalReceipts implements it.      *)
(*                                                                         *)
(* A document appears only with its whole bytes.  They can be read until   *)
(* its receipt is deleted, and then for no purpose but removal.  It counts *)
(* as removed only when there are no bytes, never returns, and is          *)
(* forgotten only together with all others, when none is left to remove.   *)
(***************************************************************************)
CONSTANTS
  Docs,      \* pairs of a receipt and "original" or "preview"
  Content    \* Content[r]: what the original of r shows

VARIABLE life   \* of each document

States == {"unknown", "readable", "deleted", "removed"}

\* Another original with these bytes, of a deleted receipt too.
IsDuplicate(d) ==
  \E e \in Docs : /\ e # d /\ e[2] = "original" /\ Content[e[1]] = Content[d[1]]
                  /\ life[e] # "unknown"

Init == life = [d \in Docs |-> "unknown"]

Appear(d) ==
  /\ life[d] = "unknown"
  /\ IF d[2] = "original" THEN ~IsDuplicate(d)
     ELSE \E e \in Docs : e = <<d[1], "original">> /\ life[e] = "readable"
  /\ life' = [life EXCEPT ![d] = "readable"]

\* The receipts rs are deleted, with all their documents.
Delete(rs) ==
  life' = [d \in Docs |-> IF d[1] \in rs /\ life[d] = "readable" THEN "deleted" ELSE life[d]]

Remove(d) ==
  /\ life[d] = "deleted"
  /\ life' = [life EXCEPT ![d] = "removed"]

ForgetAll ==
  /\ \A d \in Docs : life[d] \in {"unknown", "removed"}
  /\ life' = [d \in Docs |-> "unknown"]

\* A receipt is deleted, or all of them are.
Next ==
  \/ \E d \in Docs : Appear(d) \/ Remove(d) \/ Delete({d[1]})
  \/ Delete({d[1] : d \in Docs})
  \/ ForgetAll

Spec == Init /\ [][Next]_life
=============================================================================
