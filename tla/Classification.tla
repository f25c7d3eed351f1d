--------------------------- MODULE Classification ---------------------------
(***************************************************************************)
(* The categories and tags of the device and the panel that assigns them   *)
(* (packages/database/src/classification-repository.ts,                    *)
(* ExpenseClassificationModal.tsx).                                        *)
(*                                                                         *)
(* The panel reads the labels and the receipt's assignment with five       *)
(* awaited queries, lets the user pick and add labels, and saves with the  *)
(* version of the receipt it has read.  It can be closed while it saves,   *)
(* and another one opened.  The repositories also rename and delete        *)
(* labels, for callers that pass the label's present version: another      *)
(* version changes nothing.                                                *)
(***************************************************************************)
EXTENDS Naturals, FiniteSets

CONSTANTS
  CategoryIds,       \* the category identifiers that are generated
  TagIds,            \* the tag identifiers that are generated
  LabelNames,        \* normalised names
  Panels,            \* classification panels opened one after another
  MaxClassified      \* bound on the version of the receipt

Uncategorized == "uncategorized"
Unnamed == "unnamed"
Labels == CategoryIds \cup TagIds

ASSUME LabelsAreDistinct ==
  CategoryIds \cap TagIds = {} /\ Uncategorized \notin Labels
ASSUME MaxClassifiedIsNatural == MaxClassified \in Nat

VARIABLES
  label,     \* categories and tags: no row, an active or a deleted one
  named,     \* their normalized_name
  filed,     \* the receipt: deleted_at IS NULL, version, category_id
  link,      \* its receipt_tags rows: none, or deleted_at NULL / set
  panel      \* each panel

classVars == <<label, named, filed, link, panel>>

Assignment == [category : CategoryIds \cup {Uncategorized}, tags : SUBSET TagIds]
Unassigned == [category |-> Uncategorized, tags |-> {}]

Reading == {"categories", "tags", "receipt", "category", "links"}

Panel ==
  [at : {"closed", "loading", "failed", "shown"}, visible : BOOLEAN, saving : BOOLEAN,
   awaits : SUBSET Reading, offered : SUBSET Labels, version : Nat,
   loaded : Assignment, picked : Assignment, asked : Assignment,
   adding : SUBSET {"category", "tag"}]

ClosedPanel ==
  [at |-> "closed", visible |-> FALSE, saving |-> FALSE, awaits |-> {}, offered |-> {},
   version |-> 0, loaded |-> Unassigned, picked |-> Unassigned, asked |-> Unassigned,
   adding |-> {}]

\* A panel on screen is alone there; a save is awaited only by a panel that has
\* loaded the receipt, whether or not it is still on screen.
ClassTypeOK ==
  /\ label \in [Labels -> {"none", "active", "deleted"}]
  /\ named \in [Labels -> LabelNames \cup {Unnamed}]
  /\ filed \in [alive : BOOLEAN, version : Nat, category : CategoryIds \cup {Uncategorized}]
  /\ link \in [TagIds -> {"none", "live", "removed"}]
  /\ panel \in [Panels -> Panel]
  /\ \A p, q \in Panels : panel[p].visible /\ panel[q].visible => p = q
  /\ \A p \in Panels : panel[p].saving => panel[p].version # 0

ClassInit ==
  /\ label = [l \in Labels |-> "none"]
  /\ named = [l \in Labels |-> Unnamed]
  /\ filed = [alive |-> TRUE, version |-> 1, category |-> Uncategorized]
  /\ link = [t \in TagIds |-> "none"]
  /\ panel = [p \in Panels |-> ClosedPanel]

-----------------------------------------------------------------------------
(* SqliteNamedClassificationRepository. *)

TableOf(l) == IF l \in CategoryIds THEN CategoryIds ELSE TagIds

\* #assertNameAvailable also finds the rows that are deleted.
NameIsAvailable(l, n) ==
  \A k \in TableOf(l) \ {l} : label[k] = "none" \/ named[k] # n

CreateLabel(l, n) ==
  /\ label[l] = "none"
  /\ NameIsAvailable(l, n)
  /\ label' = [label EXCEPT ![l] = "active"]
  /\ named' = [named EXCEPT ![l] = n]

RenameLabel(l, n) ==
  /\ label[l] = "active"
  /\ NameIsAvailable(l, n)
  /\ named' = [named EXCEPT ![l] = n]
  /\ UNCHANGED <<label, filed, link, panel>>

\* #assertNotInUse asks the receipts that are not deleted.
IsInUse(l) ==
  /\ filed.alive
  /\ \/ filed.category = l
     \/ l \in TagIds /\ link[l] = "live"

\* Mutant: the receipts are not asked.
RemoveAnyLabel(l) ==
  /\ label[l] = "active"
  /\ label' = [label EXCEPT ![l] = "deleted"]
  /\ UNCHANGED <<named, filed, link, panel>>

RemoveLabel(l) ==
  /\ label[l] = "active"
  /\ ~IsInUse(l)
  /\ label' = [label EXCEPT ![l] = "deleted"]
  /\ UNCHANGED <<named, filed, link, panel>>

-----------------------------------------------------------------------------
(* The panel loads: two lists, and getByReceiptId with its three queries.   *)

ActiveLabels == {l \in Labels : label[l] = "active"}
LiveTags == {t \in TagIds : link[t] = "live"}
Stored == [category |-> filed.category, tags |-> LiveTags]

\* The detail screen shows one panel at a time.
OpenPanel(p) ==
  /\ filed.alive
  /\ panel[p] = ClosedPanel
  /\ \A q \in Panels : ~panel[q].visible
  /\ panel' = [panel EXCEPT ![p] =
       [ClosedPanel EXCEPT !.at = "loading", !.visible = TRUE, !.awaits = Reading]]
  /\ UNCHANGED <<label, named, filed, link>>

Receives(p, read, next) ==
  /\ panel[p].at = "loading"
  /\ read \in panel[p].awaits
  /\ panel' = [panel EXCEPT ![p] = [next EXCEPT !.awaits = @ \ {read}]]
  /\ UNCHANGED <<label, named, filed, link>>

ReadList(p, table, read) ==
  Receives(p, read, [panel[p] EXCEPT !.offered = @ \cup (ActiveLabels \cap table)])

ReadReceipt(p) ==
  /\ filed.alive
  /\ Receives(p, "receipt",
       [panel[p] EXCEPT !.version = filed.version, !.loaded.category = filed.category])

\* The category is looked up after the receipt, and may be deleted by then.
ReadCategory(p) ==
  /\ "receipt" \notin panel[p].awaits
  /\ panel[p].loaded.category \in ActiveLabels \cup {Uncategorized}
  /\ Receives(p, "category", panel[p])

\* Mutant: the tags are read with the lists, without waiting for the receipt.
ReadLinksAnytime(p) ==
  Receives(p, "links", [panel[p] EXCEPT !.loaded.tags = LiveTags \cap ActiveLabels])

\* The tags come last, joined with those that are not deleted.
ReadLinks(p) ==
  /\ panel[p].awaits \cap {"receipt", "category"} = {}
  /\ Receives(p, "links", [panel[p] EXCEPT !.loaded.tags = LiveTags \cap ActiveLabels])

\* A read fails, or finds no receipt or no category: the panel can only close.
LoadingFails(p) ==
  /\ panel[p].at = "loading"
  /\ panel[p].awaits # {}
  /\ panel' = [panel EXCEPT ![p] = [ClosedPanel EXCEPT !.at = "failed", !.visible = TRUE]]
  /\ UNCHANGED <<label, named, filed, link>>

ShowPanel(p) ==
  /\ panel[p].at = "loading"
  /\ panel[p].awaits = {}
  /\ panel' = [panel EXCEPT ![p].at = "shown", ![p].picked = panel[p].loaded]
  /\ UNCHANGED <<label, named, filed, link>>

-----------------------------------------------------------------------------
(* The panel picks, adds and saves.                                         *)

\* What is left of a panel off screen: the calls it awaits.
Hidden(p) ==
  IF panel[p].saving
  THEN [ClosedPanel EXCEPT !.saving = TRUE, !.version = panel[p].version,
          !.loaded = panel[p].loaded, !.asked = panel[p].asked, !.adding = panel[p].adding]
  ELSE [ClosedPanel EXCEPT !.adding = panel[p].adding]

ClosePanel(p) ==
  /\ panel[p].visible
  /\ panel' = [panel EXCEPT ![p] = Hidden(p)]
  /\ UNCHANGED <<label, named, filed, link>>

PickCategory(p, c) ==
  /\ panel[p].at = "shown"
  /\ c \in (panel[p].offered \cap CategoryIds) \cup {Uncategorized}
  /\ panel' = [panel EXCEPT ![p].picked.category = c]
  /\ UNCHANGED <<label, named, filed, link>>

ToggleTag(p, t) ==
  /\ panel[p].at = "shown"
  /\ t \in panel[p].offered
  /\ panel' = [panel EXCEPT ![p].picked.tags =
       IF t \in @ THEN @ \ {t} ELSE @ \cup {t}]
  /\ UNCHANGED <<label, named, filed, link>>

StartAdding(p, kind) ==
  /\ panel[p].at = "shown"
  /\ kind \notin panel[p].adding
  /\ panel' = [panel EXCEPT ![p].adding = @ \cup {kind}]
  /\ UNCHANGED <<label, named, filed, link>>

EndsAdding(p, kind) ==
  /\ kind \in panel[p].adding
  /\ UNCHANGED <<filed, link>>

\* A label that was added is picked, if its panel is still there.
AddCategory(p, c, n) ==
  /\ CreateLabel(c, n)
  /\ EndsAdding(p, "category")
  /\ panel' = [panel EXCEPT ![p].adding = @ \ {"category"},
       ![p].offered = IF panel[p].visible THEN @ \cup {c} ELSE @,
       ![p].picked.category = IF panel[p].visible THEN c ELSE @]

AddTag(p, t, n) ==
  /\ CreateLabel(t, n)
  /\ EndsAdding(p, "tag")
  /\ panel' = [panel EXCEPT ![p].adding = @ \ {"tag"},
       ![p].offered = IF panel[p].visible THEN @ \cup {t} ELSE @,
       ![p].picked.tags = IF panel[p].visible THEN @ \cup {t} ELSE @]

\* The name is taken or not a name, or the transaction fails.
AddingFails(p, kind) ==
  /\ EndsAdding(p, kind)
  /\ panel' = [panel EXCEPT ![p].adding = @ \ {kind}]
  /\ UNCHANGED <<label, named>>

SavePanel(p) ==
  /\ panel[p].at = "shown"
  /\ ~panel[p].saving
  /\ panel[p].adding = {}
  /\ panel' = [panel EXCEPT ![p].saving = TRUE, ![p].asked = panel[p].picked]
  /\ UNCHANGED <<label, named, filed, link>>

\* #replaceTags: rows that are no longer wanted are marked, others inserted or
\* brought back.
ReplaceTags(tags) ==
  link' = [t \in TagIds |->
    IF t \in tags THEN "live" ELSE IF link[t] = "live" THEN "removed" ELSE link[t]]

\* SqliteReceiptClassificationRepository.update and onSaved, which closes the
\* panel of its detail screen, whichever that is, unless the screen has been
\* left and another one is there.
CommitClassification(p) ==
  LET asked == panel[p].asked IN
  /\ panel[p].saving
  /\ filed.alive
  /\ filed.version = panel[p].version
  /\ filed.version < MaxClassified
  /\ asked.category \in ActiveLabels \cup {Uncategorized}
  /\ asked.tags \subseteq ActiveLabels
  /\ filed' = [filed EXCEPT !.category = asked.category, !.version = @ + 1]
  /\ ReplaceTags(asked.tags)
  /\ \E isLeft \in BOOLEAN :
       panel' = [q \in Panels |->
         IF q = p THEN [ClosedPanel EXCEPT !.adding = panel[p].adding]
         ELSE IF isLeft THEN panel[q] ELSE Hidden(q)]
  /\ UNCHANGED <<label, named>>

\* The receipt or a label changed meanwhile, or the transaction fails; the
\* panel keeps the version it has loaded.
ClassificationFails(p) ==
  /\ panel[p].saving
  /\ panel' = [panel EXCEPT ![p] =
       IF panel[p].visible THEN [panel[p] EXCEPT !.saving = FALSE, !.asked = Unassigned]
       ELSE [ClosedPanel EXCEPT !.adding = panel[p].adding]]
  /\ UNCHANGED <<label, named, filed, link>>

-----------------------------------------------------------------------------
(* The receipt's other columns change, or it is deleted.                    *)

ChangeReceipt ==
  /\ filed.alive
  /\ filed.version < MaxClassified
  /\ \E alive \in BOOLEAN :
       filed' = [filed EXCEPT !.version = @ + 1, !.alive = alive]
  /\ UNCHANGED <<label, named, link, panel>>

PanelNext(p) ==
  \/ OpenPanel(p) \/ ClosePanel(p) \/ ShowPanel(p)
  \/ ReadList(p, CategoryIds, "categories") \/ ReadList(p, TagIds, "tags")
  \/ ReadReceipt(p) \/ ReadCategory(p) \/ ReadLinks(p) \/ LoadingFails(p)
  \/ \E c \in CategoryIds \cup {Uncategorized} : PickCategory(p, c)
  \/ \E t \in TagIds : ToggleTag(p, t)
  \/ \E kind \in {"category", "tag"} : StartAdding(p, kind) \/ AddingFails(p, kind)
  \/ \E c \in CategoryIds, n \in LabelNames : AddCategory(p, c, n)
  \/ \E t \in TagIds, n \in LabelNames : AddTag(p, t, n)
  \/ SavePanel(p) \/ CommitClassification(p) \/ ClassificationFails(p)

ClassNext ==
  \/ \E p \in Panels : PanelNext(p)
  \/ \E l \in Labels, n \in LabelNames : RenameLabel(l, n)
  \/ \E l \in Labels : RemoveLabel(l)
  \/ ChangeReceipt

ClassSpec == ClassInit /\ [][ClassNext]_classVars

-----------------------------------------------------------------------------
(* Properties. *)

\* The label an active receipt carries is never a deleted one: a deletion asks
\* the receipts, an assignment asks the labels, each in its transaction
\* (#assertNotInUse, #loadCategory, #loadTags).
ActiveIsClassified ==
  filed.alive =>
    /\ filed.category \in ActiveLabels \cup {Uncategorized}
    /\ LiveTags \subseteq ActiveLabels

\* An assignment is replaced only by that of a panel that showed exactly what
\* it replaces, although the panel reads it with three queries
\* (getByReceiptId) and saves it much later, perhaps off screen.
SaveReplacesWhatWasShown ==
  [][Stored' # Stored =>
       \E p \in Panels :
         panel[p].saving /\ panel[p].loaded = Stored /\ panel[p].asked = Stored']_classVars
=============================================================================
