--------------------------- MODULE Expense_proofs ---------------------------
(***************************************************************************)
(* Theorems of the expenses on the device, for any labels, panels, papers, *)
(* expenses and filters:                                                   *)
(*                                                                         *)
(*   Classification   ClassSpec => []ClassTypeOK, []ActiveIsClassified and *)
(*                    ClassSpec => SaveReplacesWhatWasShown.  The version  *)
(*                    of the receipt is what it turns on: a panel that has *)
(*                    read the present version has read the present        *)
(*                    assignment, although it reads it with several        *)
(*                    queries.                                             *)
(*   ExpenseForm      FormSpec => []FormTypeOK, RefusalIsExplained and     *)
(*                    UntouchedIsOnPaper.  A form of the present version   *)
(*                    has seen the present row; an amount that is written  *)
(*                    is read as what it was.                              *)
(*   ExpenseViews     ViewSpec => []ViewTypeOK,                            *)
(*                    []ExpensesAreShownAsStored and []ReportAddsUp.  The  *)
(*                    last question is the one that the screen stands for. *)
(***************************************************************************)
EXTENDS Classification, ExpenseForm, ExpenseViews, FiniteSetTheorems, TLAPS

-----------------------------------------------------------------------------
(* Labels and their panels. *)

\* What is known of a panel r while the tables are what they are.
IsFaithful(r) ==
  /\ r.version <= filed.version
  /\ r.at # "loading" \/ r.saving => r.awaits = {}
  /\ "receipt" \in r.awaits => "links" \in r.awaits
  /\ filed.alive /\ r.version = filed.version =>
       /\ r.loaded.category = filed.category
       /\ "links" \notin r.awaits => r.loaded.tags = LiveTags

TablesAre ==
  /\ label \in [Labels -> {"none", "active", "deleted"}]
  /\ filed \in [alive : BOOLEAN, version : Nat \ {0}, category : CategoryIds \cup {Uncategorized}]
  /\ link \in [TagIds -> {"none", "live", "removed"}]

ClassInv ==
  /\ TablesAre
  /\ panel \in [Panels -> Panel]
  /\ \A p \in Panels : IsFaithful(panel[p])
  /\ ActiveIsClassified

\* The panel that is closed has read nothing.
LEMMA ClosedIs == ClosedPanel \in Panel /\ (TablesAre => IsFaithful(ClosedPanel))
<1>1. ClosedPanel \in Panel
  BY DEF ClosedPanel, Panel, Assignment, Unassigned, Reading, Labels
<1>2. TablesAre => IsFaithful(ClosedPanel)
  BY DEF ClosedPanel, IsFaithful, TablesAre
<1> QED
  BY <1>1, <1>2

\* There are no labels and no panels yet.
LEMMA ClassInitInv == ClassInit => ClassInv
<1> SUFFICES ASSUME ClassInit PROVE ClassInv
  OBVIOUS
<1>1. TablesAre /\ ActiveIsClassified
  BY DEF ClassInit, TablesAre, ActiveIsClassified, LiveTags
<1> QED
  BY <1>1, ClosedIs DEF ClassInit, ClassInv

\* One panel becomes r; the receipt and its tags stay.
LEMMA ReplacePanel ==
  ASSUME ClassInv, NEW p \in Panels, NEW r \in Panel, IsFaithful(r),
         panel' = [panel EXCEPT ![p] = r],
         UNCHANGED <<filed, link>>, TablesAre', ActiveIsClassified'
  PROVE  ClassInv'
<1>1. panel' \in [Panels -> Panel]
  BY DEF ClassInv
<1>2. ASSUME NEW q \in Panels PROVE IsFaithful(panel[q])'
  <2>1. IsFaithful(panel'[q])
    BY DEF ClassInv
  <2> QED
    BY <2>1 DEF IsFaithful, LiveTags
<1> QED
  BY <1>1, <1>2 DEF ClassInv

\* The same when no label changes either.
LEMMA ReplaceOnly ==
  ASSUME ClassInv, NEW p \in Panels, NEW r \in Panel, IsFaithful(r),
         panel' = [panel EXCEPT ![p] = r], UNCHANGED <<label, named, filed, link>>
  PROVE  ClassInv'
<1>1. TablesAre' /\ ActiveIsClassified'
  BY DEF ClassInv, TablesAre, ActiveIsClassified, ActiveLabels, LiveTags
<1> QED
  BY <1>1, ReplacePanel

\* What is left of a panel off screen is as faithful as it was.
LEMMA HiddenIs ==
  ASSUME ClassInv, NEW p \in Panels
  PROVE  /\ Hidden(p) \in Panel /\ IsFaithful(Hidden(p))
         /\ Hidden(p).saving = panel[p].saving
<1>1. panel[p] \in Panel /\ IsFaithful(panel[p])
  BY DEF ClassInv
<1>2. CASE panel[p].saving
  <2> DEFINE h == [ClosedPanel EXCEPT !.saving = TRUE, !.version = panel[p].version,
                     !.loaded = panel[p].loaded, !.asked = panel[p].asked, !.adding = panel[p].adding]
  <2>1. /\ h.version = panel[p].version /\ h.loaded = panel[p].loaded
        /\ h.at = "closed" /\ h.awaits = {} /\ h.saving = TRUE
    BY DEF ClosedPanel
  <2>2. h \in Panel
    BY <1>1, ClosedIs DEF Panel
  <2>3. IsFaithful(h)
    BY <1>1, <1>2, <2>1 DEF IsFaithful, Panel
  <2>4. Hidden(p) = h
    BY <1>2 DEF Hidden
  <2>5. panel[p].saving = TRUE
    BY <1>1, <1>2 DEF Panel
  <2> QED
    BY <2>1, <2>2, <2>3, <2>4, <2>5
<1>3. CASE ~panel[p].saving
  <2> DEFINE h == [ClosedPanel EXCEPT !.adding = panel[p].adding]
  <2>1. h.version = 0 /\ h.at = "closed" /\ h.awaits = {} /\ h.saving = FALSE
    BY DEF ClosedPanel
  <2>2. h \in Panel
    BY <1>1, ClosedIs DEF Panel
  <2>3. IsFaithful(h)
    BY <2>1 DEF IsFaithful, ClassInv, TablesAre
  <2>4. Hidden(p) = h
    BY <1>3 DEF Hidden
  <2>5. panel[p].saving = FALSE
    BY <1>1, <1>3 DEF Panel
  <2> QED
    BY <2>1, <2>2, <2>3, <2>4, <2>5
<1> QED
  BY <1>2, <1>3

\* A closed panel that has its labels still to add.
LEMMA AddingClosed ==
  ASSUME ClassInv, NEW p \in Panels
  PROVE  LET h == [ClosedPanel EXCEPT !.adding = panel[p].adding]
         IN h \in Panel /\ IsFaithful(h)
<1> DEFINE h == [ClosedPanel EXCEPT !.adding = panel[p].adding]
<1>1. h.version = 0 /\ h.at = "closed" /\ h.awaits = {} /\ h.saving = FALSE
  BY DEF ClosedPanel
<1>2. h \in Panel
  BY ClosedIs DEF Panel, ClassInv
<1> QED
  BY <1>1, <1>2 DEF IsFaithful, ClassInv, TablesAre

-----------------------------------------------------------------------------
(* A panel loads. *)

\* Whatever is received, the other fields of the panel stay.
LEMMA ReceivesKeeps ==
  ASSUME ClassInv, NEW p \in Panels, NEW read \in Reading, NEW next \in Panel,
         Receives(p, read, next), next.awaits = panel[p].awaits, next.at = "loading", ~next.saving,
         IsFaithful([next EXCEPT !.awaits = panel[p].awaits \ {read}])
  PROVE  ClassInv'
<1> DEFINE r == [next EXCEPT !.awaits = panel[p].awaits \ {read}]
<1>1. r \in Panel
  BY DEF Panel, ClassInv
<1>2. panel' = [panel EXCEPT ![p] = r] /\ UNCHANGED <<label, named, filed, link>>
  BY DEF Receives
<1> QED
  BY <1>1, <1>2, ReplaceOnly

\* The two lists, in any order.
LEMMA ReadListStep ==
  ASSUME ClassInv, NEW p \in Panels, NEW table \in {CategoryIds, TagIds},
         NEW read \in {"categories", "tags"}, ReadList(p, table, read)
  PROVE  ClassInv'
<1> DEFINE next == [panel[p] EXCEPT !.offered = @ \cup (ActiveLabels \cap table)]
           r == [next EXCEPT !.awaits = panel[p].awaits \ {read}]
<1>1. panel[p] \in Panel /\ IsFaithful(panel[p])
  BY DEF ClassInv
<1>2. Receives(p, read, next) /\ panel[p].at = "loading" /\ read \in panel[p].awaits
  BY DEF ReadList, Receives
<1>3. ~panel[p].saving
  BY <1>1, <1>2 DEF IsFaithful
<1>4. next \in Panel /\ next.at = "loading" /\ ~next.saving /\ next.awaits = panel[p].awaits
  BY <1>1, <1>2, <1>3 DEF Panel, ActiveLabels
<1>5. /\ r.version = panel[p].version /\ r.loaded = panel[p].loaded
      /\ r.at = "loading" /\ ~r.saving /\ r.awaits = panel[p].awaits \ {read}
  BY <1>1, <1>2, <1>3 DEF Panel
<1>6. IsFaithful(r)
  BY <1>1, <1>5 DEF IsFaithful
<1> QED
  BY <1>2, <1>4, <1>6, ReceivesKeeps DEF Reading

\* The receipt: its version and its category, of one row.  The tags are still
\* awaited.
LEMMA ReadReceiptStep ==
  ASSUME ClassInv, NEW p \in Panels, ReadReceipt(p)
  PROVE  ClassInv'
<1> DEFINE next == [panel[p] EXCEPT !.version = filed.version, !.loaded.category = filed.category]
           r == [next EXCEPT !.awaits = panel[p].awaits \ {"receipt"}]
<1>1. panel[p] \in Panel /\ IsFaithful(panel[p])
  BY DEF ClassInv
<1>2. Receives(p, "receipt", next) /\ panel[p].at = "loading" /\ "receipt" \in panel[p].awaits
  BY DEF ReadReceipt, Receives
<1>3. ~panel[p].saving /\ "links" \in panel[p].awaits
  BY <1>1, <1>2 DEF IsFaithful
<1>4. next \in Panel /\ next.at = "loading" /\ ~next.saving /\ next.awaits = panel[p].awaits
  BY <1>1, <1>2, <1>3 DEF Panel, Assignment, ClassInv, TablesAre
<1>5. /\ r.version = filed.version /\ r.loaded.category = filed.category
      /\ r.at = "loading" /\ ~r.saving /\ r.awaits = panel[p].awaits \ {"receipt"}
  BY <1>1, <1>2, <1>3 DEF Panel, Assignment
<1>6. IsFaithful(r)
  BY <1>3, <1>5 DEF IsFaithful, ClassInv, TablesAre
<1> QED
  BY <1>2, <1>4, <1>6, ReceivesKeeps DEF Reading

\* The category is looked up, which reads nothing new.
LEMMA ReadCategoryStep ==
  ASSUME ClassInv, NEW p \in Panels, ReadCategory(p)
  PROVE  ClassInv'
<1> DEFINE r == [panel[p] EXCEPT !.awaits = panel[p].awaits \ {"category"}]
<1>1. panel[p] \in Panel /\ IsFaithful(panel[p])
  BY DEF ClassInv
<1>2. Receives(p, "category", panel[p]) /\ panel[p].at = "loading" /\ "category" \in panel[p].awaits
  BY DEF ReadCategory, Receives
<1>3. ~panel[p].saving
  BY <1>1, <1>2 DEF IsFaithful
<1>4. /\ r.version = panel[p].version /\ r.loaded = panel[p].loaded
      /\ r.at = "loading" /\ ~r.saving /\ r.awaits = panel[p].awaits \ {"category"}
  BY <1>1, <1>2, <1>3 DEF Panel
<1>5. IsFaithful(r)
  BY <1>1, <1>4 DEF IsFaithful
<1> QED
  BY <1>1, <1>2, <1>3, <1>5, ReceivesKeeps DEF Reading

\* The tags, after the receipt: if its version is still the present one, so is
\* the assignment that was read.
LEMMA ReadLinksStep ==
  ASSUME ClassInv, NEW p \in Panels, ReadLinks(p)
  PROVE  ClassInv'
<1> DEFINE next == [panel[p] EXCEPT !.loaded.tags = LiveTags \cap ActiveLabels]
           r == [next EXCEPT !.awaits = panel[p].awaits \ {"links"}]
<1>1. panel[p] \in Panel /\ IsFaithful(panel[p])
  BY DEF ClassInv
<1>2. Receives(p, "links", next) /\ panel[p].at = "loading" /\ "links" \in panel[p].awaits
      /\ "receipt" \notin panel[p].awaits
  BY DEF ReadLinks, Receives
<1>3. ~panel[p].saving
  BY <1>1, <1>2 DEF IsFaithful
<1>4. next \in Panel /\ next.at = "loading" /\ ~next.saving /\ next.awaits = panel[p].awaits
  BY <1>1, <1>2, <1>3 DEF Panel, Assignment, LiveTags
<1>5. /\ r.version = panel[p].version /\ r.loaded.category = panel[p].loaded.category
      /\ r.loaded.tags = LiveTags \cap ActiveLabels
      /\ r.at = "loading" /\ ~r.saving /\ r.awaits = panel[p].awaits \ {"links"}
  BY <1>1, <1>2, <1>3 DEF Panel, Assignment
<1>6. filed.alive => LiveTags \cap ActiveLabels = LiveTags
  BY DEF ClassInv, ActiveIsClassified
<1>7. IsFaithful(r)
  BY <1>1, <1>2, <1>5, <1>6 DEF IsFaithful
<1> QED
  BY <1>2, <1>4, <1>7, ReceivesKeeps DEF Reading

\* A panel opens, fails to load, is shown or goes off screen.
LEMMA ScreenStep ==
  ASSUME ClassInv, NEW p \in Panels,
         OpenPanel(p) \/ LoadingFails(p) \/ ShowPanel(p) \/ ClosePanel(p)
  PROVE  ClassInv'
<1>1. panel[p] \in Panel /\ IsFaithful(panel[p])
  BY DEF ClassInv
<1>2. UNCHANGED <<label, named, filed, link>>
  BY DEF OpenPanel, LoadingFails, ShowPanel, ClosePanel
<1>3. CASE OpenPanel(p)
  <2> DEFINE r == [ClosedPanel EXCEPT !.at = "loading", !.visible = TRUE, !.awaits = Reading]
  <2>1. r \in Panel
    BY ClosedIs DEF Panel
  <2>2. r.version = 0 /\ r.at = "loading" /\ ~r.saving /\ r.awaits = Reading
    BY DEF ClosedPanel
  <2>3. IsFaithful(r)
    BY <2>2 DEF IsFaithful, ClassInv, TablesAre, Reading
  <2> QED
    BY <1>2, <1>3, <2>1, <2>3, ReplaceOnly DEF OpenPanel
<1>4. CASE LoadingFails(p)
  <2> DEFINE r == [ClosedPanel EXCEPT !.at = "failed", !.visible = TRUE]
  <2>1. r \in Panel
    BY ClosedIs DEF Panel
  <2>2. r.version = 0 /\ r.at = "failed" /\ ~r.saving /\ r.awaits = {}
    BY DEF ClosedPanel
  <2>3. IsFaithful(r)
    BY <2>2 DEF IsFaithful, ClassInv, TablesAre
  <2> QED
    BY <1>2, <1>4, <2>1, <2>3, ReplaceOnly DEF LoadingFails
<1>5. CASE ShowPanel(p)
  <2> DEFINE r == [panel[p] EXCEPT !.at = "shown", !.picked = panel[p].loaded]
  <2>1. r \in Panel
    BY <1>1 DEF Panel
  <2>2. r.version = panel[p].version /\ r.loaded = panel[p].loaded /\ r.awaits = {}
    BY <1>1, <1>5 DEF Panel, ShowPanel
  <2>3. panel' = [panel EXCEPT ![p] = r]
    BY <1>1, <1>5 DEF ShowPanel, ClassInv
  <2>4. panel[p].awaits = {}
    BY <1>5 DEF ShowPanel
  <2>5. IsFaithful(r)
    BY <1>1, <2>2, <2>4 DEF IsFaithful
  <2> QED
    BY <1>2, <2>1, <2>3, <2>5, ReplaceOnly
<1>6. CASE ClosePanel(p)
  BY <1>2, <1>6, HiddenIs, ReplaceOnly DEF ClosePanel
<1> QED
  BY <1>3, <1>4, <1>5, <1>6

-----------------------------------------------------------------------------
(* A panel picks, adds and saves. *)

\* What is picked, asked or being added says nothing about what was read.
LEMMA PickStep ==
  ASSUME ClassInv, NEW p \in Panels,
         \/ \E c \in CategoryIds \cup {Uncategorized} : PickCategory(p, c)
         \/ \E t \in TagIds : ToggleTag(p, t)
         \/ \E kind \in {"category", "tag"} : StartAdding(p, kind)
         \/ SavePanel(p)
  PROVE  ClassInv'
<1>1. panel[p] \in Panel /\ IsFaithful(panel[p])
  BY DEF ClassInv
<1>2. /\ UNCHANGED <<label, named, filed, link>> /\ panel[p].at = "shown"
  BY DEF PickCategory, ToggleTag, StartAdding, SavePanel
<1>3. PICK r \in Panel :
        /\ panel' = [panel EXCEPT ![p] = r]
        /\ r.version = panel[p].version /\ r.loaded = panel[p].loaded /\ r.awaits = panel[p].awaits
  <2>1. ASSUME NEW c \in CategoryIds \cup {Uncategorized}, PickCategory(p, c)
        PROVE  panel' = [panel EXCEPT ![p] = [panel[p] EXCEPT !.picked.category = c]]
               /\ [panel[p] EXCEPT !.picked.category = c] \in Panel
    BY <1>1, <2>1 DEF PickCategory, Panel, Assignment, ClassInv
  <2>2. ASSUME NEW t \in TagIds, ToggleTag(p, t)
        PROVE  \E tags \in SUBSET TagIds :
                 panel' = [panel EXCEPT ![p] = [panel[p] EXCEPT !.picked.tags = tags]]
                 /\ [panel[p] EXCEPT !.picked.tags = tags] \in Panel
    <3> DEFINE tags == IF t \in panel[p].picked.tags THEN panel[p].picked.tags \ {t}
                       ELSE panel[p].picked.tags \cup {t}
    <3>1. tags \in SUBSET TagIds
      BY <1>1 DEF Panel, Assignment
    <3>2. panel' = [panel EXCEPT ![p] = [panel[p] EXCEPT !.picked.tags = tags]]
      BY <1>1, <2>2 DEF ToggleTag, Panel, Assignment, ClassInv
    <3> HIDE DEF tags
    <3>3. [panel[p] EXCEPT !.picked.tags = tags] \in Panel
      BY <1>1, <3>1 DEF Panel, Assignment
    <3> QED
      BY <3>1, <3>2, <3>3
  <2>3. ASSUME NEW kind \in {"category", "tag"}, StartAdding(p, kind)
        PROVE  panel' = [panel EXCEPT ![p] = [panel[p] EXCEPT !.adding = panel[p].adding \cup {kind}]]
               /\ [panel[p] EXCEPT !.adding = panel[p].adding \cup {kind}] \in Panel
    BY <1>1, <2>3 DEF StartAdding, Panel, ClassInv
  <2>4. ASSUME SavePanel(p)
        PROVE  panel' = [panel EXCEPT ![p] = [panel[p] EXCEPT !.saving = TRUE, !.asked = panel[p].picked]]
               /\ [panel[p] EXCEPT !.saving = TRUE, !.asked = panel[p].picked] \in Panel
    BY <1>1, <2>4 DEF SavePanel, Panel, ClassInv
  <2> QED
    BY <1>1, <2>1, <2>2, <2>3, <2>4 DEF Panel
<1>4. panel[p].awaits = {}
  BY <1>1, <1>2 DEF IsFaithful
<1>5. IsFaithful(r)
  BY <1>1, <1>3, <1>4 DEF IsFaithful
<1> QED
  BY <1>2, <1>3, <1>5, ReplaceOnly

\* A label that is created is of no receipt yet; what the panel gets of it
\* says nothing about what was read.
LEMMA AddStep ==
  ASSUME ClassInv, NEW p \in Panels,
         \/ \E c \in CategoryIds, n \in LabelNames : AddCategory(p, c, n)
         \/ \E t \in TagIds, n \in LabelNames : AddTag(p, t, n)
         \/ \E kind \in {"category", "tag"} : AddingFails(p, kind)
  PROVE  ClassInv'
<1>1. panel[p] \in Panel /\ IsFaithful(panel[p])
  BY DEF ClassInv
<1>2. UNCHANGED <<filed, link>>
  BY DEF AddCategory, AddTag, AddingFails, EndsAdding
<1>3. label' = label \/ \E l \in Labels : label' = [label EXCEPT ![l] = "active"]
  BY DEF AddCategory, AddTag, AddingFails, CreateLabel, Labels
<1>4. TablesAre' /\ ActiveLabels \subseteq ActiveLabels'
  BY <1>2, <1>3 DEF ClassInv, TablesAre, ActiveLabels
<1>5. ActiveIsClassified'
  BY <1>2, <1>4 DEF ClassInv, ActiveIsClassified, LiveTags
<1>6. PICK r \in Panel :
        /\ panel' = [panel EXCEPT ![p] = r]
        /\ r.version = panel[p].version /\ r.loaded = panel[p].loaded /\ r.awaits = panel[p].awaits
        /\ r.at = panel[p].at /\ r.saving = panel[p].saving
  <2>1. ASSUME NEW c \in CategoryIds, NEW n \in LabelNames, AddCategory(p, c, n)
        PROVE  \E offered \in SUBSET Labels, category \in CategoryIds \cup {Uncategorized} :
                 panel' = [panel EXCEPT ![p] =
                   [panel[p] EXCEPT !.adding = panel[p].adding \ {"category"}, !.offered = offered,
                      !.picked.category = category]]
    <3> DEFINE offered == IF panel[p].visible THEN panel[p].offered \cup {c} ELSE panel[p].offered
               category == IF panel[p].visible THEN c ELSE panel[p].picked.category
    <3>1. offered \in SUBSET Labels /\ category \in CategoryIds \cup {Uncategorized}
      BY <1>1 DEF Panel, Assignment, Labels
    <3>2. panel' = [panel EXCEPT ![p] =
                   [panel[p] EXCEPT !.adding = panel[p].adding \ {"category"}, !.offered = offered,
                      !.picked.category = category]]
      BY <1>1, <2>1 DEF AddCategory, Panel, Assignment, ClassInv
    <3> QED
      BY <3>1, <3>2
  <2>2. ASSUME NEW t \in TagIds, NEW n \in LabelNames, AddTag(p, t, n)
        PROVE  \E offered \in SUBSET Labels, tags \in SUBSET TagIds :
                 panel' = [panel EXCEPT ![p] =
                   [panel[p] EXCEPT !.adding = panel[p].adding \ {"tag"}, !.offered = offered,
                      !.picked.tags = tags]]
    <3> DEFINE offered == IF panel[p].visible THEN panel[p].offered \cup {t} ELSE panel[p].offered
               tags == IF panel[p].visible THEN panel[p].picked.tags \cup {t} ELSE panel[p].picked.tags
    <3>1. offered \in SUBSET Labels /\ tags \in SUBSET TagIds
      BY <1>1 DEF Panel, Assignment, Labels
    <3>2. panel' = [panel EXCEPT ![p] =
                   [panel[p] EXCEPT !.adding = panel[p].adding \ {"tag"}, !.offered = offered,
                      !.picked.tags = tags]]
      BY <1>1, <2>2 DEF AddTag, Panel, Assignment, ClassInv
    <3> QED
      BY <3>1, <3>2
  <2>3. ASSUME NEW kind \in {"category", "tag"}, AddingFails(p, kind)
        PROVE  panel' = [panel EXCEPT ![p] = [panel[p] EXCEPT !.adding = panel[p].adding \ {kind}]]
    BY <1>1, <2>3 DEF AddingFails, Panel, ClassInv
  <2>4. ASSUME NEW offered \in SUBSET Labels, NEW category \in CategoryIds \cup {Uncategorized},
               NEW adding \in SUBSET {"category", "tag"}
        PROVE  [panel[p] EXCEPT !.adding = adding, !.offered = offered, !.picked.category = category] \in Panel
    BY <1>1 DEF Panel, Assignment
  <2>5. ASSUME NEW offered \in SUBSET Labels, NEW tags \in SUBSET TagIds,
               NEW adding \in SUBSET {"category", "tag"}
        PROVE  [panel[p] EXCEPT !.adding = adding, !.offered = offered, !.picked.tags = tags] \in Panel
    BY <1>1 DEF Panel, Assignment
  <2>6. ASSUME NEW adding \in SUBSET {"category", "tag"}
        PROVE  [panel[p] EXCEPT !.adding = adding] \in Panel
    BY <1>1 DEF Panel
  <2>7. \A kind \in {"category", "tag"} : panel[p].adding \ {kind} \in SUBSET {"category", "tag"}
    BY <1>1 DEF Panel
  <2>8. CASE \E c \in CategoryIds, n \in LabelNames : AddCategory(p, c, n)
    <3>1. PICK offered \in SUBSET Labels, category \in CategoryIds \cup {Uncategorized} :
            panel' = [panel EXCEPT ![p] =
              [panel[p] EXCEPT !.adding = panel[p].adding \ {"category"}, !.offered = offered,
                 !.picked.category = category]]
      BY <2>1, <2>8
    <3> DEFINE x == [panel[p] EXCEPT !.adding = panel[p].adding \ {"category"}, !.offered = offered,
                       !.picked.category = category]
    <3>2. x \in Panel
      BY <2>4, <2>7
    <3>3. /\ x.version = panel[p].version /\ x.loaded = panel[p].loaded /\ x.awaits = panel[p].awaits
          /\ x.at = panel[p].at /\ x.saving = panel[p].saving
      BY <1>1 DEF Panel
    <3> HIDE DEF x
    <3>4. panel' = [panel EXCEPT ![p] = x]
      BY <3>1 DEF x
    <3> QED
      BY <3>2, <3>3, <3>4
  <2>9. CASE \E t \in TagIds, n \in LabelNames : AddTag(p, t, n)
    <3>1. PICK offered \in SUBSET Labels, tags \in SUBSET TagIds :
            panel' = [panel EXCEPT ![p] =
              [panel[p] EXCEPT !.adding = panel[p].adding \ {"tag"}, !.offered = offered,
                 !.picked.tags = tags]]
      BY <2>2, <2>9
    <3> DEFINE x == [panel[p] EXCEPT !.adding = panel[p].adding \ {"tag"}, !.offered = offered,
                       !.picked.tags = tags]
    <3>2. x \in Panel
      BY <2>5, <2>7
    <3>3. /\ x.version = panel[p].version /\ x.loaded = panel[p].loaded /\ x.awaits = panel[p].awaits
          /\ x.at = panel[p].at /\ x.saving = panel[p].saving
      BY <1>1 DEF Panel
    <3> HIDE DEF x
    <3>4. panel' = [panel EXCEPT ![p] = x]
      BY <3>1 DEF x
    <3> QED
      BY <3>2, <3>3, <3>4
  <2>10. CASE \E kind \in {"category", "tag"} : AddingFails(p, kind)
    BY <1>1, <2>3, <2>6, <2>7, <2>10 DEF Panel
  <2> QED
    BY <2>8, <2>9, <2>10
<1>7. IsFaithful(r)
  BY <1>1, <1>6 DEF IsFaithful
<1> QED
  BY <1>2, <1>4, <1>5, <1>6, <1>7, ReplacePanel

\* A save that fails leaves the panel as it was, or closed.
LEMMA FailStep ==
  ASSUME ClassInv, NEW p \in Panels, ClassificationFails(p)
  PROVE  ClassInv'
<1>1. panel[p] \in Panel /\ IsFaithful(panel[p])
  BY DEF ClassInv
<1>2. UNCHANGED <<label, named, filed, link>>
  BY DEF ClassificationFails
<1>3. CASE panel[p].visible
  <2> DEFINE r == [panel[p] EXCEPT !.saving = FALSE, !.asked = Unassigned]
  <2>1. r \in Panel
    BY <1>1 DEF Panel, Assignment, Unassigned
  <2>2. /\ r.version = panel[p].version /\ r.loaded = panel[p].loaded /\ r.awaits = panel[p].awaits
        /\ r.at = panel[p].at /\ r.saving = FALSE
    BY <1>1 DEF Panel
  <2>3. IsFaithful(r)
    BY <1>1, <2>2 DEF IsFaithful
  <2>4. panel' = [panel EXCEPT ![p] = r]
    BY <1>3 DEF ClassificationFails
  <2> QED
    BY <1>2, <2>1, <2>3, <2>4, ReplaceOnly
<1>4. CASE ~panel[p].visible
  BY <1>2, <1>4, AddingClosed, ReplaceOnly DEF ClassificationFails
<1> QED
  BY <1>3, <1>4

-----------------------------------------------------------------------------
(* The receipt changes. *)

\* What was read of an older version is not what is there, and need not be.
LEMMA LaterVersion ==
  ASSUME ClassInv, panel' \in [Panels -> Panel], \A q \in Panels : IsFaithful(panel'[q]),
         filed'.version = filed.version + 1, TablesAre', ActiveIsClassified'
  PROVE  ClassInv'
<1>1. ASSUME NEW q \in Panels PROVE IsFaithful(panel[q])'
  <2>1. panel'[q] \in Panel /\ IsFaithful(panel'[q])
    OBVIOUS
  <2>2. panel'[q].version \in Nat /\ panel'[q].version <= filed.version /\ filed.version \in Nat
    BY <2>1 DEF IsFaithful, Panel, ClassInv, TablesAre
  <2>3. panel'[q].version <= filed'.version /\ panel'[q].version # filed'.version
    BY <2>2
  <2> QED
    BY <2>1, <2>3 DEF IsFaithful
<1> QED
  BY <1>1 DEF ClassInv

\* The assignment is replaced, by labels that are there.
LEMMA CommitStep ==
  ASSUME ClassInv, NEW p \in Panels, CommitClassification(p)
  PROVE  ClassInv'
<1> DEFINE chosen == panel[p].asked
<1>1. panel[p] \in Panel /\ chosen \in Assignment
  BY DEF ClassInv, Panel
<1>2. /\ filed' = [filed EXCEPT !.category = chosen.category, !.version = filed.version + 1]
      /\ link' = [t \in TagIds |->
           IF t \in chosen.tags THEN "live" ELSE IF link[t] = "live" THEN "removed" ELSE link[t]]
      /\ chosen.category \in ActiveLabels \cup {Uncategorized} /\ chosen.tags \subseteq ActiveLabels
      /\ label' = label
  BY DEF CommitClassification, ReplaceTags
<1>3. chosen.category \in CategoryIds \cup {Uncategorized} /\ chosen.tags \subseteq TagIds
  BY <1>1 DEF Assignment
<1> HIDE DEF chosen
<1>4. TablesAre' /\ filed'.version = filed.version + 1 /\ filed'.category = chosen.category
  <2> DEFINE v == filed.version + 1
  <2>1. v \in Nat \ {0}
    BY DEF ClassInv, TablesAre
  <2>2. filed' = [filed EXCEPT !.category = chosen.category, !.version = v]
    BY <1>2
  <2> HIDE DEF v
  <2>3. /\ filed' \in [alive : BOOLEAN, version : Nat \ {0}, category : CategoryIds \cup {Uncategorized}]
        /\ filed'.version = v /\ filed'.category = chosen.category
    BY <1>3, <2>1, <2>2 DEF ClassInv, TablesAre
  <2>4. link' \in [TagIds -> {"none", "live", "removed"}]
    BY <1>2 DEF ClassInv, TablesAre
  <2> QED
    BY <1>2, <2>3, <2>4 DEF ClassInv, TablesAre, v
<1>5. LiveTags' = chosen.tags
  BY <1>2, <1>3 DEF LiveTags
<1>6. ActiveIsClassified'
  BY <1>2, <1>4, <1>5 DEF ActiveIsClassified, ActiveLabels
<1>7. PICK isLeft \in BOOLEAN :
        panel' = [q \in Panels |->
          IF q = p THEN [ClosedPanel EXCEPT !.adding = panel[p].adding]
          ELSE IF isLeft THEN panel[q] ELSE Hidden(q)]
  BY DEF CommitClassification
<1>8. ASSUME NEW q \in Panels PROVE panel'[q] \in Panel /\ IsFaithful(panel'[q])
  <2>1. CASE q = p
    BY <1>7, <2>1, AddingClosed
  <2>2. CASE q # p
    BY <1>7, <2>2, HiddenIs DEF ClassInv
  <2> QED
    BY <2>1, <2>2
<1> QED
  BY <1>4, <1>6, <1>7, <1>8, LaterVersion

\* A label is renamed, or deleted when no active receipt carries it; another
\* column of the receipt changes, or the receipt is deleted.
LEMMA TablesStep ==
  ASSUME ClassInv,
         \/ \E l \in Labels, n \in LabelNames : RenameLabel(l, n)
         \/ \E l \in Labels : RemoveLabel(l)
         \/ ChangeReceipt
  PROVE  ClassInv'
<1>1. CASE \E l \in Labels, n \in LabelNames : RenameLabel(l, n)
  BY <1>1 DEF RenameLabel, ClassInv, TablesAre, IsFaithful, ActiveIsClassified, ActiveLabels, LiveTags
<1>2. CASE \E l \in Labels : RemoveLabel(l)
  <2>1. PICK l \in Labels : RemoveLabel(l)
    BY <1>2
  <2>2. /\ label' = [label EXCEPT ![l] = "deleted"] /\ UNCHANGED <<filed, link, panel>>
        /\ ~IsInUse(l)
    BY <2>1 DEF RemoveLabel
  <2>3. TablesAre' /\ ActiveLabels' = ActiveLabels \ {l} /\ LiveTags' = LiveTags
    BY <2>2 DEF ClassInv, TablesAre, ActiveLabels, LiveTags
  <2>4. filed.alive => filed.category # l /\ l \notin LiveTags
    BY <2>2 DEF IsInUse, LiveTags
  <2>5. ActiveIsClassified'
    BY <2>2, <2>3, <2>4 DEF ClassInv, ActiveIsClassified
  <2> QED
    BY <2>2, <2>3, <2>5 DEF ClassInv, IsFaithful
<1>3. CASE ChangeReceipt
  <2>1. PICK alive \in BOOLEAN : filed' = [filed EXCEPT !.version = filed.version + 1, !.alive = alive]
    BY <1>3 DEF ChangeReceipt
  <2>2. UNCHANGED <<label, link, panel>> /\ filed.alive
    BY <1>3 DEF ChangeReceipt
  <2>3. TablesAre' /\ filed'.version = filed.version + 1 /\ filed'.category = filed.category
    <3> DEFINE v == filed.version + 1
    <3>1. v \in Nat \ {0}
      BY DEF ClassInv, TablesAre
    <3>2. filed' = [filed EXCEPT !.version = v, !.alive = alive]
      BY <2>1
    <3> HIDE DEF v
    <3>3. /\ filed' \in [alive : BOOLEAN, version : Nat \ {0}, category : CategoryIds \cup {Uncategorized}]
          /\ filed'.version = v /\ filed'.category = filed.category
      BY <3>1, <3>2 DEF ClassInv, TablesAre
    <3> QED
      BY <2>2, <3>3 DEF ClassInv, TablesAre, v
  <2>4. ActiveIsClassified'
    BY <2>2, <2>3 DEF ClassInv, ActiveIsClassified, ActiveLabels, LiveTags
  <2> QED
    BY <2>2, <2>3, <2>4, LaterVersion DEF ClassInv
<1> QED
  BY <1>1, <1>2, <1>3

\* Every step keeps the invariant.
LEMMA ClassStep == ClassInv /\ [ClassNext]_classVars => ClassInv'
<1> SUFFICES ASSUME ClassInv, [ClassNext]_classVars PROVE ClassInv'
  OBVIOUS
<1>1. CASE UNCHANGED classVars
  BY <1>1 DEF classVars, ClassInv, TablesAre, IsFaithful, ActiveIsClassified, ActiveLabels, LiveTags
<1>2. ASSUME NEW p \in Panels, PanelNext(p) PROVE ClassInv'
  BY <1>2, ScreenStep, ReadListStep, ReadReceiptStep, ReadCategoryStep, ReadLinksStep, PickStep, AddStep,
     CommitStep, FailStep DEF PanelNext
<1> QED
  BY <1>1, <1>2, TablesStep DEF ClassNext

\* A step that changes the assignment is the commit of a panel, which has the
\* version that is replaced and so has read what is replaced.
LEMMA StepReplaces ==
  ASSUME ClassInv, [ClassNext]_classVars, Stored' # Stored
  PROVE  \E p \in Panels : panel[p].saving /\ panel[p].loaded = Stored /\ panel[p].asked = Stored'
<1>1. PICK p \in Panels : CommitClassification(p)
  <2>1. UNCHANGED <<filed, link>> => Stored' = Stored
    BY DEF Stored, LiveTags
  <2>2. ChangeReceipt => Stored' = Stored
    BY DEF ChangeReceipt, Stored, LiveTags, ClassInv, TablesAre
  <2>3. ASSUME NEW p \in Panels, PanelNext(p)
        PROVE  CommitClassification(p) \/ UNCHANGED <<filed, link>>
    BY <2>3 DEF PanelNext, OpenPanel, ClosePanel, ShowPanel, ReadList, Receives, ReadReceipt, ReadCategory,
       ReadLinks, LoadingFails, PickCategory, ToggleTag, StartAdding, AddingFails, EndsAdding, AddCategory,
       AddTag, SavePanel, ClassificationFails
  <2>4. UNCHANGED classVars => UNCHANGED <<filed, link>>
    BY DEF classVars
  <2> QED
    BY <2>1, <2>2, <2>3, <2>4 DEF ClassNext, RenameLabel, RemoveLabel
<1>2. /\ panel[p] \in Panel /\ IsFaithful(panel[p]) /\ panel[p].saving
      /\ filed.alive /\ filed.version = panel[p].version
  BY <1>1 DEF ClassInv, CommitClassification
<1>3. panel[p].loaded \in Assignment /\ panel[p].asked \in Assignment
  BY <1>2 DEF Panel
<1>4. panel[p].loaded.category = filed.category /\ panel[p].loaded.tags = LiveTags
  BY <1>2 DEF IsFaithful
<1>5. panel[p].loaded = Stored
  BY <1>3, <1>4 DEF Stored, Assignment
<1>6. filed'.category = panel[p].asked.category /\ LiveTags' = panel[p].asked.tags
  <2>1. /\ filed' = [filed EXCEPT !.category = panel[p].asked.category, !.version = filed.version + 1]
        /\ link' = [t \in TagIds |->
             IF t \in panel[p].asked.tags THEN "live" ELSE IF link[t] = "live" THEN "removed" ELSE link[t]]
    BY <1>1 DEF CommitClassification, ReplaceTags
  <2>2. filed'.category = panel[p].asked.category
    BY <2>1 DEF ClassInv, TablesAre
  <2>3. panel[p].asked.tags \subseteq TagIds
    BY <1>3 DEF Assignment
  <2> QED
    BY <2>1, <2>2, <2>3 DEF LiveTags
<1>7. panel[p].asked = Stored'
  BY <1>3, <1>6 DEF Stored, Assignment
<1> QED
  BY <1>2, <1>5, <1>7

-----------------------------------------------------------------------------
(* The theorems. *)

\* A panel that can save has read the receipt, and what is not closed is seen.
HasRead(r) ==
  /\ r.at # "closed" => r.visible
  /\ r.at = "loading" => "receipt" \in r.awaits \/ r.version # 0
  /\ r.at = "shown" \/ r.saving => r.version # 0

PanelsInv ==
  /\ named \in [Labels -> LabelNames \cup {Unnamed}]
  /\ \A p, q \in Panels : panel[p].visible /\ panel[q].visible => p = q
  /\ \A p \in Panels : HasRead(panel[p])

\* What a panel that has read may become: what it awaits is less, unless it
\* opens, and it comes on screen only then.
BecomesRead(p) ==
  /\ HasRead(panel'[p])
  /\ panel'[p].visible => panel[p].visible \/ \A q \in Panels : ~panel[q].visible

\* One panel changes, and the others stay.
LEMMA OnePanelChanges ==
  ASSUME PanelsInv, NEW p \in Panels, BecomesRead(p),
         \A q \in Panels \ {p} : panel'[q] = panel[q],
         named' \in [Labels -> LabelNames \cup {Unnamed}]
  PROVE  PanelsInv'
BY DEF PanelsInv, BecomesRead

\* A read brings what it reads, and only that of the receipt a version.
LEMMA ReadsKeepRead ==
  ASSUME ClassInv, PanelsInv, NEW p \in Panels,
         \/ ReadList(p, CategoryIds, "categories") \/ ReadList(p, TagIds, "tags")
         \/ ReadReceipt(p) \/ ReadCategory(p) \/ ReadLinks(p)
  PROVE  PanelsInv'
<1> USE DEF Panel, HasRead, BecomesRead
<1>1. panel \in [Panels -> Panel] /\ HasRead(panel[p]) /\ filed.version # 0
  BY DEF ClassInv, PanelsInv, TablesAre
<1>2. ASSUME NEW read \in Reading \ {"receipt"}, NEW next,
             Receives(p, read, next), next.at = panel[p].at, next.awaits = panel[p].awaits,
             next.saving = panel[p].saving, next.visible = panel[p].visible,
             next.version = panel[p].version, next \in Panel
      PROVE  PanelsInv'
  <2>1. /\ panel' = [panel EXCEPT ![p] = [next EXCEPT !.awaits = @ \ {read}]] /\ UNCHANGED named
        /\ panel[p].at = "loading"
    BY <1>2 DEF Receives
  <2>2. BecomesRead(p)
    BY <1>1, <1>2, <2>1
  <2>3. \A q \in Panels \ {p} : panel'[q] = panel[q]
    BY <1>1, <2>1
  <2> QED
    BY <2>1, <2>2, <2>3, OnePanelChanges DEF PanelsInv
<1>3. ASSUME NEW table \in SUBSET Labels, NEW read \in {"categories", "tags"}, ReadList(p, table, read)
      PROVE  PanelsInv'
  <2> DEFINE next == [panel[p] EXCEPT !.offered = @ \cup (ActiveLabels \cap table)]
  <2>1. /\ next \in Panel /\ next.at = panel[p].at /\ next.awaits = panel[p].awaits
        /\ next.saving = panel[p].saving /\ next.visible = panel[p].visible
        /\ next.version = panel[p].version
    BY <1>1 DEF ActiveLabels
  <2>2. Receives(p, read, next) /\ read \in Reading \ {"receipt"}
    BY <1>3 DEF ReadList, Reading
  <2> HIDE DEF next
  <2> QED
    BY <1>2, <2>1, <2>2
<1>4. ASSUME ReadCategory(p) PROVE PanelsInv'
  BY <1>1, <1>2, <1>4 DEF ReadCategory, Reading
<1>5. ASSUME ReadLinks(p) PROVE PanelsInv'
  <2> DEFINE next == [panel[p] EXCEPT !.loaded.tags = LiveTags \cap ActiveLabels]
  <2>1. /\ next \in Panel /\ next.at = panel[p].at /\ next.awaits = panel[p].awaits
        /\ next.saving = panel[p].saving /\ next.visible = panel[p].visible
        /\ next.version = panel[p].version
    BY <1>1 DEF LiveTags, Assignment
  <2>2. Receives(p, "links", next) /\ "links" \in Reading \ {"receipt"}
    BY <1>5 DEF ReadLinks, Reading
  <2> HIDE DEF next
  <2> QED
    BY <1>2, <2>1, <2>2
<1>6. ASSUME ReadReceipt(p) PROVE PanelsInv'
  <2>1. /\ panel'[p].version = filed.version /\ panel'[p].visible = panel[p].visible
        /\ panel'[p].at = panel[p].at
    BY <1>1, <1>6 DEF ReadReceipt, Receives
  <2>2. (\A q \in Panels \ {p} : panel'[q] = panel[q]) /\ UNCHANGED named
    BY <1>1, <1>6 DEF ReadReceipt, Receives
  <2> QED
    BY <1>1, <2>1, <2>2, OnePanelChanges DEF PanelsInv
<1>7. CategoryIds \in SUBSET Labels /\ TagIds \in SUBSET Labels
  BY DEF Labels
<1> QED
  BY <1>3, <1>4, <1>5, <1>6, <1>7

\* A step of a panel leaves at most one on screen.
LEMMA PanelsStep ==
  ASSUME ClassInv, PanelsInv, NEW p \in Panels, PanelNext(p)
  PROVE  PanelsInv'
<1> USE DEF Panel
<1>1. panel \in [Panels -> Panel] /\ HasRead(panel[p])
  BY DEF ClassInv, PanelsInv
<1>2. ASSUME \A q \in Panels \ {p} : panel'[q] = panel[q], BecomesRead(p),
             named' \in [Labels -> LabelNames \cup {Unnamed}]
      PROVE  PanelsInv'
  BY <1>2, OnePanelChanges
<1>3. ASSUME panel' = [panel EXCEPT ![p] = panel'[p]], UNCHANGED named,
             panel'[p].visible = panel[p].visible, panel'[p].version = panel[p].version,
             panel'[p].at = panel[p].at, panel'[p].awaits = panel[p].awaits,
             panel'[p].saving => panel[p].saving \/ panel[p].at = "shown"
      PROVE  PanelsInv'
  <2>1. BecomesRead(p)
    BY <1>1, <1>3 DEF HasRead, BecomesRead
  <2> QED
    BY <1>1, <1>2, <1>3, <2>1 DEF PanelsInv
<1>4. CASE OpenPanel(p) \/ LoadingFails(p)
  <2>1. /\ panel'[p].at # "shown" /\ ~panel'[p].saving /\ panel'[p].visible
        /\ panel'[p].at = "loading" => "receipt" \in panel'[p].awaits
        /\ panel[p].visible \/ \A q \in Panels : ~panel[q].visible
    <3>1. ASSUME OpenPanel(p)
          PROVE  /\ panel'[p].at = "loading" /\ ~panel'[p].saving /\ panel'[p].visible
                 /\ "receipt" \in panel'[p].awaits /\ \A q \in Panels : ~panel[q].visible
      BY <1>1, <3>1 DEF OpenPanel, ClosedPanel, Reading
    <3>2. ASSUME LoadingFails(p)
          PROVE  /\ panel'[p].at = "failed" /\ ~panel'[p].saving /\ panel'[p].visible
                 /\ panel[p].visible
      BY <1>1, <3>2 DEF LoadingFails, ClosedPanel, HasRead
    <3> QED
      BY <1>4, <3>1, <3>2
  <2>2. (\A q \in Panels \ {p} : panel'[q] = panel[q]) /\ UNCHANGED named
    BY <1>1, <1>4 DEF OpenPanel, LoadingFails
  <2>3. BecomesRead(p)
    BY <2>1 DEF BecomesRead, HasRead
  <2> QED
    BY <1>2, <2>2, <2>3 DEF PanelsInv
<1>5. CASE ShowPanel(p)
  <2>1. /\ panel[p].at = "loading" /\ panel[p].awaits = {} /\ UNCHANGED named
        /\ panel'[p] = [panel[p] EXCEPT !.at = "shown", !.picked = panel[p].loaded]
        /\ \A q \in Panels \ {p} : panel'[q] = panel[q]
    BY <1>1, <1>5 DEF ShowPanel
  <2>2. BecomesRead(p)
    BY <1>1, <2>1 DEF BecomesRead, HasRead
  <2> QED
    BY <1>2, <2>1, <2>2 DEF PanelsInv
<1>6. ASSUME NEW q \in Panels
      PROVE  HasRead(Hidden(q)) /\ ~Hidden(q).visible
  BY DEF PanelsInv, HasRead, Hidden, ClosedPanel
<1>7. CASE ClosePanel(p)
  <2>1. panel'[p] = Hidden(p) /\ (\A q \in Panels \ {p} : panel'[q] = panel[q]) /\ UNCHANGED named
    BY <1>1, <1>7 DEF ClosePanel
  <2>2. BecomesRead(p)
    BY <1>6, <2>1 DEF BecomesRead, HasRead
  <2> QED
    BY <1>2, <2>1, <2>2 DEF PanelsInv
<1>8. CASE ClassificationFails(p)
  <2>1. /\ panel'[p] = IF panel[p].visible
                       THEN [panel[p] EXCEPT !.saving = FALSE, !.asked = Unassigned]
                       ELSE [ClosedPanel EXCEPT !.adding = panel[p].adding]
        /\ (\A q \in Panels \ {p} : panel'[q] = panel[q]) /\ UNCHANGED named
    BY <1>1, <1>8 DEF ClassificationFails
  <2>2. BecomesRead(p)
    BY <1>1, <2>1 DEF BecomesRead, HasRead, ClosedPanel
  <2> QED
    BY <1>2, <2>1, <2>2 DEF PanelsInv
<1>9. CASE CommitClassification(p)
  <2>1. PICK isLeft \in BOOLEAN :
          panel' = [q \in Panels |->
            IF q = p THEN [ClosedPanel EXCEPT !.adding = panel[p].adding]
            ELSE IF isLeft THEN panel[q] ELSE Hidden(q)]
    BY <1>9 DEF CommitClassification
  <2>2. \A q \in Panels : HasRead(panel'[q]) /\ (panel'[q].visible => panel[q].visible)
    BY <1>6, <2>1 DEF PanelsInv, HasRead, ClosedPanel
  <2>3. UNCHANGED named
    BY <1>9 DEF CommitClassification
  <2> QED
    BY <2>2, <2>3 DEF PanelsInv
<1>10. ASSUME NEW c \in CategoryIds \cup {Uncategorized}, PickCategory(p, c) PROVE PanelsInv'
  BY <1>1, <1>3, <1>10 DEF PickCategory
<1>11. ASSUME NEW t \in TagIds, ToggleTag(p, t) PROVE PanelsInv'
  BY <1>1, <1>3, <1>11 DEF ToggleTag
<1>12. ASSUME NEW kind, StartAdding(p, kind) \/ AddingFails(p, kind) PROVE PanelsInv'
  BY <1>1, <1>3, <1>12 DEF StartAdding, AddingFails
<1>13. CASE SavePanel(p)
  BY <1>1, <1>3, <1>13 DEF SavePanel
<1>14. ASSUME NEW c \in Labels, NEW n \in LabelNames, AddCategory(p, c, n) \/ AddTag(p, c, n)
       PROVE  PanelsInv'
  <2>1. /\ panel'[p].visible = panel[p].visible /\ panel'[p].version = panel[p].version
        /\ panel'[p].at = panel[p].at /\ panel'[p].awaits = panel[p].awaits
        /\ panel'[p].saving = panel[p].saving
        /\ \A q \in Panels \ {p} : panel'[q] = panel[q]
    BY <1>1, <1>14 DEF AddCategory, AddTag
  <2>2. named' \in [Labels -> LabelNames \cup {Unnamed}]
    BY <1>14 DEF AddCategory, AddTag, CreateLabel, PanelsInv
  <2>3. BecomesRead(p)
    BY <1>1, <2>1 DEF BecomesRead, HasRead
  <2> QED
    BY <1>2, <2>1, <2>2, <2>3
<1> QED
  BY <1>4, <1>5, <1>7, <1>8, <1>9, <1>10, <1>11, <1>12, <1>13, <1>14, ReadsKeepRead
  DEF PanelNext, Labels

\* Types beside those of ClassInv are kept by every step.
LEMMA ClassTypesStep == ClassInv /\ PanelsInv /\ [ClassNext]_classVars => PanelsInv'
<1> SUFFICES ASSUME ClassInv, PanelsInv, [ClassNext]_classVars PROVE PanelsInv'
  OBVIOUS
<1>1. ASSUME UNCHANGED <<named, panel>> PROVE PanelsInv'
  BY <1>1 DEF PanelsInv
<1>2. ASSUME NEW l \in Labels, NEW n \in LabelNames, RenameLabel(l, n) PROVE PanelsInv'
  BY <1>2 DEF RenameLabel, PanelsInv
<1> QED
  BY <1>1, <1>2, PanelsStep DEF ClassNext, RemoveLabel, ChangeReceipt, classVars

\* Every variable of the labels and panels keeps to its domain, one panel at a
\* time is on screen, and a save is awaited only by a panel that has read the
\* receipt (ExpenseClassificationModal.tsx).
THEOREM ClassTypeCorrect == ClassSpec => []ClassTypeOK
<1>1. ClassInit => PanelsInv
  BY DEF ClassInit, PanelsInv, HasRead, ClosedPanel
<1>2. ClassInv /\ PanelsInv => ClassTypeOK
  BY DEF ClassInv, PanelsInv, HasRead, ClassTypeOK, TablesAre
<1> QED
  BY <1>1, <1>2, ClassInitInv, ClassStep, ClassTypesStep, PTL DEF ClassSpec

\* The invariant holds always.
LEMMA ClassAlways == ClassSpec => []ClassInv
BY ClassInitInv, ClassStep, PTL DEF ClassSpec

\* No active receipt carries a deleted label, however assignments, additions
\* and deletions are interleaved (classification-repository.ts).
THEOREM LabelsStayActive == ClassSpec => []ActiveIsClassified
BY ClassAlways, PTL DEF ClassInv

\* An assignment is replaced only by that of a panel that showed exactly what
\* it replaces (ExpenseClassificationModal.tsx, getByReceiptId).
THEOREM SavesAreInformed == ClassSpec => SaveReplacesWhatWasShown
<1>1. ClassInv /\ [ClassNext]_classVars =>
        [Stored' # Stored =>
           \E p \in Panels :
             panel[p].saving /\ panel[p].loaded = Stored /\ panel[p].asked = Stored']_classVars
  BY StepReplaces
<1> QED
  BY <1>1, ClassAlways, PTL DEF ClassSpec, SaveReplacesWhatWasShown

-----------------------------------------------------------------------------
(* The form. *)

\* What a form that is open has of the row: of the present version it has seen
\* all but the merchant's name, which is not of the row's version.
FormHasSeen ==
  /\ form = [open |-> TRUE, version |-> form.version, base |-> form.base,
             suggested |-> form.suggested, currency |-> form.currency, date |-> form.date,
             merchant |-> form.merchant, text |-> form.text, touched |-> form.touched]
  /\ form.version \in Nat /\ form.version <= expense.version
  /\ form.version = expense.version =>
       \A f \in EvidenceFields \ {"merchant"} : form.base[f] = expense.value[f]

FormInv ==
  /\ expense = [version |-> expense.version, value |-> expense.value]
  /\ expense.version \in Nat
  /\ DOMAIN expense.value = EvidenceFields
  /\ form = NoForm \/ FormHasSeen

\* No form is open.
LEMMA FormInitInv == FormInit => FormInv
BY DEF FormInit, FormInv, Pending

\* A form takes the row as it is, with the name of its merchant.
LEMMA OpenSees == ASSUME FormInv, OpenForm PROVE FormInv'
<1>1. /\ form' = FilledForm(Joined(expense), suggestions)
      /\ UNCHANGED <<expense, display>>
  BY DEF OpenForm
<1>2. /\ form'.version = expense.version
      /\ form'.base = Joined(expense)
      /\ form' = [open |-> TRUE, version |-> form'.version, base |-> form'.base,
                  suggested |-> form'.suggested, currency |-> form'.currency,
                  date |-> form'.date, merchant |-> form'.merchant, text |-> form'.text,
                  touched |-> form'.touched]
  BY <1>1 DEF FilledForm
<1>3. \A f \in EvidenceFields \ {"merchant"} : Joined(expense)[f] = expense.value[f]
  BY DEF Joined, FormInv
<1> QED
  BY <1>1, <1>2, <1>3 DEF FormInv, FormHasSeen

\* What the user types leaves what the form has seen.
LEMMA TypingSeesNothing ==
  ASSUME FormInv, form.open,
         \/ \E f \in Amounts, decimal \in Typed : TypeAmount(f, decimal)
         \/ \E n \in MerchantNames : TypeMerchant(n)
         \/ \E c \in Selected : SelectCurrency(c)
  PROVE  FormInv'
<1>1. UNCHANGED expense
  BY DEF TypeAmount, TypeMerchant, SelectCurrency, Touches
<1>2. FormHasSeen
  BY DEF FormInv, NoForm
<1> DEFINE SeesTheSame ==
             /\ form'.version = form.version /\ form'.base = form.base
             /\ form' = [open |-> TRUE, version |-> form'.version, base |-> form'.base,
                         suggested |-> form'.suggested, currency |-> form'.currency,
                         date |-> form'.date, merchant |-> form'.merchant, text |-> form'.text,
                         touched |-> form'.touched]
<1>3. SeesTheSame
  <2>1. ASSUME NEW f \in Amounts, NEW decimal \in Typed, TypeAmount(f, decimal) PROVE SeesTheSame
    BY <1>2, <2>1 DEF FormHasSeen, TypeAmount
  <2>2. ASSUME NEW n \in MerchantNames, TypeMerchant(n) PROVE SeesTheSame
    BY <1>2, <2>2 DEF FormHasSeen, TypeMerchant
  <2>3. ASSUME NEW c \in Selected, SelectCurrency(c) PROVE SeesTheSame
    BY <1>2, <2>3 DEF FormHasSeen, SelectCurrency
  <2> QED
    BY <2>1, <2>2, <2>3
<1> QED
  BY <1>1, <1>2, <1>3 DEF FormInv, FormHasSeen

\* Every step keeps the invariant.
LEMMA FormStep == FormInv /\ [FormNext]_formVars => FormInv'
<1> SUFFICES ASSUME FormInv, [FormNext]_formVars PROVE FormInv'
  OBVIOUS
<1>1. ASSUME UNCHANGED <<expense, form>> PROVE FormInv'
  BY <1>1 DEF FormInv, FormHasSeen
<1>2. CASE \/ UNCHANGED formVars \/ RecognizeText \/ FormIsStale \/ FormIsRefused
           \/ \E n \in MerchantNames : SaveAnother(n)
  BY <1>1, <1>2 DEF formVars, RecognizeText, FormIsStale, FormIsRefused, SaveAnother
<1>3. CASE LeaveForm
  BY <1>3 DEF LeaveForm, FormInv
<1>4. CASE SaveForm
  <2>1. /\ form' = NoForm
        /\ expense' = [version |-> expense.version + 1,
                       value |-> [Update EXCEPT !["merchant"] = Normal(@)]]
    BY <1>4 DEF SaveForm
  <2>2. DOMAIN expense'.value = EvidenceFields
    BY <2>1 DEF Update
  <2> QED
    BY <2>1, <2>2 DEF FormInv
<1>5. CASE ClassifyExpense
  <2>1. expense' = [expense EXCEPT !.version = @ + 1] /\ UNCHANGED form
    BY <1>5 DEF ClassifyExpense
  <2>2. expense'.version = expense.version + 1 /\ expense'.value = expense.value
        /\ expense' = [version |-> expense'.version, value |-> expense'.value]
    BY <2>1 DEF FormInv
  <2> QED
    BY <2>1, <2>2 DEF FormInv, FormHasSeen
<1>6. CASE \/ \E f \in Amounts, decimal \in Typed : TypeAmount(f, decimal)
           \/ \E n \in MerchantNames : TypeMerchant(n)
           \/ \E c \in Selected : SelectCurrency(c)
  <2>1. form.open
    BY <1>6 DEF TypeAmount, TypeMerchant, SelectCurrency, Touches
  <2> QED
    BY <1>6, <2>1, TypingSeesNothing
<1> QED
  BY <1>2, <1>3, <1>4, <1>5, <1>6, OpenSees DEF FormNext

\* What a form of the present version sends covers what it changes, unless the
\* merchant is no longer called what the form has seen.
LEMMA SeenIsCovered ==
  ASSUME FormInv, form.open, form.version = expense.version,
         Joined(expense)["merchant"] = form.base["merchant"]
  PROVE  IsReviewed /\ IsCovered
<1>1. \A f \in EvidenceFields : Joined(expense)[f] = form.base[f]
  <2>1. \A f \in EvidenceFields \ {"merchant"} : Joined(expense)[f] = expense.value[f]
    BY DEF Joined, FormInv
  <2>2. \A f \in EvidenceFields \ {"merchant"} : form.base[f] = expense.value[f]
    BY DEF FormInv, FormHasSeen, NoForm
  <2> QED
    BY <2>1, <2>2
<1>2. IsReviewed
  BY DEF IsReviewed, Corrections
<1>3. IsCovered
  BY <1>1 DEF IsCovered, Corrections, CorrectedFields, AcceptedFields
<1> QED
  BY <1>2, <1>3

\* The invariant holds always.
LEMMA FormAlways == FormSpec => []FormInv
BY FormInitInv, FormStep, PTL DEF FormSpec

\* A form of the present version is refused only because another expense has
\* written the merchant's name anew: nothing else that a form sends does not
\* cover what it changes (buildReceiptReviewInput, validateCorrectionCoverage).
THEOREM RefusalsAreExplained == FormSpec => RefusalIsExplained
<1>1. FormInv /\ [FormNext]_formVars =>
        [answer = "none" /\ answer' = "refused" =>
           Joined(expense)["merchant"] # form.base["merchant"]]_formVars
  <2> SUFFICES ASSUME FormInv, FormNext, answer = "none", answer' = "refused"
               PROVE  Joined(expense)["merchant"] # form.base["merchant"]
    OBVIOUS
  <2>1. FormIsRefused
    BY DEF FormNext, RecognizeText, OpenForm, LeaveForm, TypeAmount, TypeMerchant, Touches,
       SaveAnother, SelectCurrency, SaveForm, FormIsStale, FormIsRefused, ClassifyExpense
  <2>2. form.open /\ form.version = expense.version /\ ~(IsReviewed /\ IsCovered)
    BY <2>1 DEF FormIsRefused, Submits
  <2> QED
    BY <2>2, SeenIsCovered
<1> QED
  BY <1>1, FormAlways, PTL DEF FormSpec, RefusalIsExplained

-----------------------------------------------------------------------------
(* The views. *)

DecimalNumber == [whole : Nat, fraction : Nat, places : Nat]

\* The powers of ten that scale money.
LEMMA Powers == 10 ^ 0 = 1 /\ 10 ^ 1 = 10 /\ 10 ^ 2 = 100
OBVIOUS

\* An amount that is accepted is the hundredths that were entered, in yen a
\* hundredth of them.
LEMMA EnteredAmount ==
  ASSUME NEW decimal \in DecimalNumber, NEW c \in Currencies, ToMinorUnits(decimal, c) # NotAnAmount
  PROVE  /\ ToMinorUnits(decimal, c) \in 0..MaxSafeInteger
         /\ Hundredths(decimal) = IF c = "JPY" THEN 100 * ToMinorUnits(decimal, c)
                                  ELSE ToMinorUnits(decimal, c)
<1> DEFINE w == decimal.whole
           f == decimal.fraction
           k == decimal.places
<1>1. w \in Nat /\ f \in Nat /\ k \in Nat /\ MaxSafeInteger \in Nat
  BY MaxSafeIntegerIsNatural DEF DecimalNumber
<1>2. FractionDigits(c) \in Nat /\ ~(FractionDigits(c) - k < 0)
  BY DEF ToMinorUnits, FractionDigits
<1> HIDE DEF w, f, k
<1>3. CASE c = "JPY"
  <2>1. FractionDigits(c) = 0 /\ k = 0
    BY <1>1, <1>2, <1>3 DEF FractionDigits
  <2>2. ToMinorUnits(decimal, c) = w * 1 + f * 1 /\ w * 1 + f * 1 <= MaxSafeInteger
    BY <1>1, <2>1, Powers DEF ToMinorUnits, w, f, k
  <2>3. Hundredths(decimal) = w * 100 + f * 100
    BY <1>1, <2>1, Powers DEF Hundredths, w, f, k
  <2> QED
    BY <1>1, <1>3, <2>2, <2>3
<1>4. CASE c # "JPY"
  <2>1. FractionDigits(c) = 2 /\ k \in {0, 1, 2}
    BY <1>1, <1>2, <1>4 DEF FractionDigits
  <2>2. 10 ^ (2 - k) \in Nat
    <3>1. 2 - k = 0 \/ 2 - k = 1 \/ 2 - k = 2
      BY <2>1
    <3> DEFINE e == 2 - k
    <3>2. 10 ^ e \in Nat
      <4>1. e = 0 \/ e = 1 \/ e = 2
        BY <3>1
      <4> HIDE DEF e
      <4>2. CASE e = 0
        BY <4>2, Powers
      <4>3. CASE e = 1
        BY <4>3, Powers
      <4>4. CASE e = 2
        BY <4>4, Powers
      <4> QED
        BY <4>1, <4>2, <4>3, <4>4
    <3> QED
      BY <3>2
  <2>3. ToMinorUnits(decimal, c) = w * 100 + f * 10 ^ (2 - k)
        /\ w * 100 + f * 10 ^ (2 - k) <= MaxSafeInteger
    BY <1>1, <2>1, <2>2, Powers DEF ToMinorUnits, w, f, k
  <2>4. Hundredths(decimal) = w * 100 + f * 10 ^ (2 - k)
    BY DEF Hundredths, w, f, k
  <2>5. f * 10 ^ (2 - k) \in Nat
    BY <1>1, <2>2
  <2> QED
    BY <1>1, <1>4, <2>3, <2>4, <2>5
<1> QED
  BY <1>3, <1>4

\* An amount that is written out is read back as it was.
LEMMA AmountRoundTrip ==
  ASSUME NEW n \in 0..MaxSafeInteger, NEW c \in Currencies
  PROVE  /\ ToMinorUnits(ToDecimal(n, c), c) = n
         /\ Hundredths(ToDecimal(n, c)) = IF c = "JPY" THEN 100 * n ELSE n
<1>1. n \in Nat /\ n <= MaxSafeInteger /\ MaxSafeInteger \in Nat
  BY MaxSafeIntegerIsNatural
<1>2. CASE c = "JPY"
  <2>1. ToDecimal(n, c) = [whole |-> n, fraction |-> 0, places |-> 0] /\ FractionDigits(c) = 0
    BY <1>1, <1>2, Powers DEF ToDecimal, FractionDigits
  <2>2. ToMinorUnits(ToDecimal(n, c), c) = n
    BY <1>1, <2>1, Powers DEF ToMinorUnits
  <2>3. Hundredths(ToDecimal(n, c)) = 100 * n
    BY <1>1, <2>1, Powers DEF Hundredths
  <2> QED
    BY <1>2, <2>2, <2>3
<1>3. CASE c # "JPY"
  <2>1. ToDecimal(n, c) = [whole |-> n \div 100, fraction |-> n % 100, places |-> 2]
        /\ FractionDigits(c) = 2
    BY <1>3, Powers DEF ToDecimal, FractionDigits
  <2>2. n \div 100 \in Nat /\ n % 100 \in Nat /\ (n \div 100) * 100 + (n % 100) = n
    BY <1>1
  <2>3. ToMinorUnits(ToDecimal(n, c), c) = n
    BY <1>1, <2>1, <2>2, Powers DEF ToMinorUnits
  <2>4. Hundredths(ToDecimal(n, c)) = n
    BY <1>1, <2>1, <2>2, Powers DEF Hundredths
  <2> QED
    BY <1>3, <2>3, <2>4
<1> QED
  BY <1>2, <1>3

\* What the user can have entered.
Drawn == Drafts \cup {EmptyDraft}

\* The filters of the query are the filters that were entered: whole and
\* fraction were scaled with the fraction digits of the currency they filter.
LEMMA WantedIsSatisfied ==
  ASSUME NEW row \in Columns, filter.values \in Drawn, IsParsed(filter.values),
         filter.options = OptionsOf(filter.values)
  PROVE  Wanted(row) <=> Satisfies(row, filter.options, filter.search)
<1> DEFINE d == filter.values
           o == filter.options
           total == row.total
<1>1. /\ d = [currency |-> d.currency, minimum |-> d.minimum, maximum |-> d.maximum,
              from |-> d.from, to |-> d.to, category |-> d.category, tag |-> d.tag]
      /\ d.currency \in Currencies \cup {All}
      /\ d.minimum = All \/ d.minimum \in DecimalNumber
      /\ d.maximum = All \/ d.maximum \in DecimalNumber
  BY DraftsHaveDecimals DEF Drawn, EmptyDraft, DecimalNumber
<1>2. /\ o.currency = d.currency /\ o.from = d.from /\ o.to = d.to
      /\ o.category = d.category /\ o.tag = d.tag
      /\ o.minimum = InMinorUnits(d.minimum, d.currency)
      /\ o.maximum = InMinorUnits(d.maximum, d.currency)
  BY <1>1 DEF OptionsOf
<1>3. row.currency \in Currencies /\ total \in 0..MaxSafeInteger /\ MaxSafeInteger \in Nat
  BY RowsHaveAmounts, MaxSafeIntegerIsNatural
<1>4. Hundredths(ToDecimal(total, row.currency)) =
        IF row.currency = "JPY" THEN 100 * total ELSE total
  BY <1>3, AmountRoundTrip
<1>5. /\ ~IsBad(d.minimum, d.currency) /\ ~IsBad(d.maximum, d.currency)
  BY DEF IsParsed
<1> HIDE DEF d, o, total
<1>6. ASSUME NEW amount \in DecimalNumber, ~IsBad(amount, d.currency), amount # All,
             row.currency = d.currency
      PROVE  LET minor == InMinorUnits(amount, d.currency)
                 shown == Hundredths(ToDecimal(total, row.currency)) IN
             /\ minor # All
             /\ (minor <= total) <=> (Hundredths(amount) <= shown)
             /\ (total <= minor) <=> (Hundredths(amount) >= shown)
  <2> DEFINE minor == ToMinorUnits(amount, d.currency)
  <2>1. minor # NotAnAmount
    BY <1>6 DEF IsBad
  <2>2. /\ minor \in 0..MaxSafeInteger
        /\ Hundredths(amount) = IF row.currency = "JPY" THEN 100 * minor ELSE minor
    BY <1>3, <1>6, <2>1, EnteredAmount
  <2>3. InMinorUnits(amount, d.currency) = minor
    BY <1>6 DEF InMinorUnits
  <2> HIDE DEF minor
  <2>4. minor \in Nat /\ total \in Nat
    BY <1>3, <2>2
  <2>5. minor # All
    BY <2>4, DraftsHaveDecimals
  <2>6. (100 * minor <= 100 * total <=> minor <= total)
        /\ (100 * total <= 100 * minor <=> total <= minor)
    BY <2>4
  <2> QED
    BY <1>4, <2>2, <2>3, <2>5, <2>6
<1>7. ASSUME row.currency = d.currency
      PROVE  (o.minimum = All \/ o.minimum <= total) <=>
             (d.minimum # All =>
                Hundredths(d.minimum) <= Hundredths(ToDecimal(total, row.currency)))
  BY <1>1, <1>2, <1>5, <1>6, <1>7 DEF InMinorUnits
<1>8. ASSUME row.currency = d.currency
      PROVE  (o.maximum = All \/ total <= o.maximum) <=>
             (d.maximum # All =>
                Hundredths(d.maximum) >= Hundredths(ToDecimal(total, row.currency)))
  BY <1>1, <1>2, <1>5, <1>6, <1>8 DEF InMinorUnits
<1>9. CASE d.currency = All
  <2>1. d.minimum = All /\ d.maximum = All /\ o.minimum = All /\ o.maximum = All
    BY <1>2, <1>5, <1>9 DEF IsBad, InMinorUnits
  <2> QED
    BY <1>2, <1>9, <2>1 DEF Wanted, Satisfies, d, o
<1>10. CASE d.currency # All /\ row.currency = d.currency
  BY <1>2, <1>7, <1>8, <1>10 DEF Wanted, Satisfies, d, o, total
<1>11. CASE d.currency # All /\ row.currency # d.currency
  BY <1>2, <1>11 DEF Wanted, Satisfies, d, o
<1> QED
  BY <1>9, <1>10, <1>11

\* What the rows of an answer are, of expenses not written since it was asked
\* for.
ShowsRows(rows, options, search) ==
  \A e \in Expenses \ changed :
    IF Active(e) /\ Satisfies(stored[e], options, search)
    THEN [id |-> e, row |-> stored[e]] \in rows
    ELSE \A line \in rows : line.id # e

OnList == page \in {"list", "filters"}

\* The filters are those that were entered, every question has its number, and
\* as long as the list is on the screen the active effect's question is the one
\* it stands for.
ViewInv ==
  /\ stored \in [Expenses -> Columns \cup {NoRow}]
  /\ filter = [values |-> filter.values, options |-> filter.options, search |-> filter.search]
  /\ filter.values \in Drawn /\ IsParsed(filter.values)
  /\ filter.options = OptionsOf(filter.values)
  /\ numbered \in Nat
  /\ \A q \in asked :
       /\ q = [number |-> q.number, of |-> q.of, answer |-> q.answer]
       /\ q.answer = [status |-> q.answer.status, shows |-> q.answer.shows]
       /\ q.number \in Nat /\ q.number <= numbered
  /\ view = [status |-> view.status, shows |-> view.shows]
  /\ OnList =>
       /\ \A q \in asked : q.number = latest =>
            /\ q.of = ListQuestion(filter)
            /\ q.answer.status = "ready" =>
                 ShowsRows(q.answer.shows.list, filter.options, filter.search)
       /\ IsSettled => ShowsRows(view.shows.list, filter.options, filter.search)

\* Nothing is shown and nothing was asked.
LEMMA ViewInitInv == ViewInit => ViewInv
<1> SUFFICES ASSUME ViewInit PROVE ViewInv
  OBVIOUS
<1>1. EmptyDraft \in Drawn /\ IsParsed(EmptyDraft) /\ OptionsOf(EmptyDraft) = EmptyDraft
  BY DEF Drawn, EmptyDraft, IsParsed, IsBad, OptionsOf, InMinorUnits
<1> QED
  BY <1>1 DEF ViewInit, ViewInv, NoFilter, Loading, OnList

\* A filter as it was entered.
IsEntered(f) ==
  /\ f = [values |-> f.values, options |-> f.options, search |-> f.search]
  /\ f.values \in Drawn /\ IsParsed(f.values)
  /\ f.options = OptionsOf(f.values)

\* A question is asked: nothing is settled until it is answered.
LEMMA QuestionStep ==
  ASSUME ViewInv, NEW question, AsksFor(question), UNCHANGED stored, IsEntered(filter'),
         view' = [status |-> view'.status, shows |-> view'.shows],
         OnList' => question = ListQuestion(filter')
  PROVE  ViewInv'
<1> DEFINE n == numbered + 1
           q == [number |-> n, of |-> question, answer |-> Awaited]
<1>1. /\ numbered' = n /\ latest' = n /\ asked' = asked \cup {q}
      /\ n \in Nat /\ n > numbered
  BY DEF AsksFor, ViewInv
<1>2. /\ q.number = n /\ q.of = question /\ q.answer.status = "awaited"
      /\ q = [number |-> q.number, of |-> q.of, answer |-> q.answer]
      /\ q.answer = [status |-> q.answer.status, shows |-> q.answer.shows]
  BY DEF Awaited
<1> HIDE DEF n, q
<1>3. \A p \in asked : /\ p = [number |-> p.number, of |-> p.of, answer |-> p.answer]
                       /\ p.answer = [status |-> p.answer.status, shows |-> p.answer.shows]
                       /\ p.number \in Nat /\ p.number <= numbered
  BY DEF ViewInv
<1>4. numbered \in Nat
  BY DEF ViewInv
<1>5. \A p \in asked' : /\ p = [number |-> p.number, of |-> p.of, answer |-> p.answer]
                        /\ p.answer = [status |-> p.answer.status, shows |-> p.answer.shows]
                        /\ p.number \in Nat /\ p.number <= numbered'
                        /\ p.number = latest' => p = q
  <2> SUFFICES ASSUME NEW p \in asked'
               PROVE  /\ p = [number |-> p.number, of |-> p.of, answer |-> p.answer]
                      /\ p.answer = [status |-> p.answer.status, shows |-> p.answer.shows]
                      /\ p.number \in Nat /\ p.number <= numbered'
                      /\ p.number = latest' => p = q
    OBVIOUS
  <2>1. CASE p \in asked
    <3>1. p.number \in Nat /\ p.number <= numbered
      BY <1>3, <2>1
    <3>2. p.number <= n /\ p.number # n
      BY <1>1, <1>4, <3>1
    <3> QED
      BY <1>1, <1>3, <2>1, <3>1, <3>2
  <2>2. CASE p = q
    BY <1>1, <1>2, <2>2
  <2> QED
    BY <1>1, <2>1, <2>2
<1>6. ~IsSettled'
  BY <1>1, <1>2 DEF IsSettled
<1>7. OnList' => \A p \in asked' : p.number = latest' =>
        p.of = ListQuestion(filter') /\ p.answer.status # "ready"
  BY <1>2, <1>5
<1>8. /\ filter' = [values |-> filter'.values, options |-> filter'.options,
                    search |-> filter'.search]
      /\ filter'.values \in Drawn /\ IsParsed(filter'.values)
      /\ filter'.options = OptionsOf(filter'.values)
  BY DEF IsEntered
<1>9. stored' \in [Expenses -> Columns \cup {NoRow}] /\ numbered' \in Nat
  BY <1>1 DEF ViewInv
<1>10. OnList' =>
         /\ \A p \in asked' : p.number = latest' =>
              /\ p.of = ListQuestion(filter')
              /\ p.answer.status = "ready" =>
                   ShowsRows(p.answer.shows.list, filter.options, filter.search)'
         /\ IsSettled' => ShowsRows(view.shows.list, filter.options, filter.search)'
  BY <1>6, <1>7
<1> QED
  BY <1>5, <1>8, <1>9, <1>10 DEF ViewInv

\* The statements of a question are run, or fail.
LEMMA AnswerStep ==
  ASSUME ViewInv, NEW q \in asked, Answer(q)
  PROVE  ViewInv'
<1> DEFINE found == Answered([Empty EXCEPT !.list = ListOf(q.of.options, q.of.search)])
<1>1. PICK reply : /\ asked' = (asked \ {q}) \cup {[q EXCEPT !.answer = reply]}
                   /\ reply.status = "ready" /\ q.of.kind = "list" => reply = found
                   /\ reply = [status |-> reply.status, shows |-> reply.shows]
                   /\ UNCHANGED <<stored, page, filter, latest, numbered, view, changed>>
                   /\ q.answer.status = "awaited"
  <2>1. TotalsOf = [status |-> TotalsOf.status, shows |-> TotalsOf.shows]
    BY DEF TotalsOf, Failed, Answered
  <2> QED
    BY <2>1 DEF Answer, Failed, Answered
<1>2. found.shows.list = ListOf(q.of.options, q.of.search)
  BY DEF Answered, Empty
<1> HIDE DEF found
<1>3. q = [number |-> q.number, of |-> q.of, answer |-> q.answer]
  BY DEF ViewInv
<1> DEFINE a == [q EXCEPT !.answer = reply]
<1>4. /\ a.number = q.number /\ a.of = q.of /\ a.answer = reply
      /\ a = [number |-> a.number, of |-> a.of, answer |-> a.answer]
  BY <1>3
<1> HIDE DEF a
<1>5. asked' = (asked \ {q}) \cup {a}
  BY <1>1 DEF a
<1>6. ASSUME OnList, q.number = latest, reply.status = "ready"
      PROVE  ShowsRows(reply.shows.list, filter.options, filter.search)
  <2>1. q.of = ListQuestion(filter)
    BY <1>6 DEF ViewInv
  <2>2. reply.shows.list = ListOf(filter.options, filter.search)
    BY <1>1, <1>2, <1>6, <2>1 DEF ListQuestion
  <2>3. ASSUME NEW e \in Expenses
        PROVE  IF Active(e) /\ Satisfies(stored[e], filter.options, filter.search)
               THEN [id |-> e, row |-> stored[e]] \in reply.shows.list
               ELSE \A line \in reply.shows.list : line.id # e
    BY <2>2 DEF ListOf
  <2> QED
    BY <2>3 DEF ShowsRows
<1>7. \A p \in asked' : \/ p \in asked
                        \/ p = a
  BY <1>5
<1>8. IsSettled' <=> IsSettled
  BY <1>1, <1>4, <1>5 DEF IsSettled
<1>9. \A rows, options, search :
        ShowsRows(rows, options, search)' <=> ShowsRows(rows, options, search)
  BY <1>1 DEF ShowsRows, Active, Satisfies
<1> QED
  BY <1>1, <1>4, <1>6, <1>7, <1>8, <1>9 DEF ViewInv, OnList, ListQuestion

\* An answer is shown, if it is the active effect's.
LEMMA DeliverStepOfViews ==
  ASSUME ViewInv, NEW q \in asked, Deliver(q)
  PROVE  ViewInv'
<1>1. /\ asked' = asked \ {q}
      /\ view' = IF q.number = latest THEN Shown(q) ELSE view
      /\ q.answer.status # "awaited"
      /\ UNCHANGED <<stored, written, page, filter, latest, numbered, changed>>
  BY DEF Deliver
<1>2. \A rows, options, search :
        ShowsRows(rows, options, search)' <=> ShowsRows(rows, options, search)
  BY <1>1 DEF ShowsRows, Active, Satisfies
<1>3. CASE q.number # latest
  <2>1. IsSettled' => IsSettled
    BY <1>1, <1>3 DEF IsSettled
  <2> QED
    BY <1>1, <1>2, <1>3, <2>1 DEF ViewInv, OnList, ListQuestion
<1>4. CASE q.number = latest /\ q.answer.status = "error"
  <2>1. view' = [view EXCEPT !.status = "error"]
    BY <1>1, <1>4 DEF Shown
  <2>2. view'.status = "error" /\ view' = [status |-> view'.status, shows |-> view'.shows]
    BY <2>1 DEF ViewInv
  <2>3. ~IsSettled'
    BY <2>2 DEF IsSettled
  <2> QED
    BY <1>1, <1>2, <2>2, <2>3 DEF ViewInv, OnList, ListQuestion
<1>5. CASE q.number = latest /\ q.answer.status # "error"
  <2>1. view' = q.answer
    BY <1>1, <1>5 DEF Shown
  <2>2. view' = [status |-> view'.status, shows |-> view'.shows]
    BY <2>1 DEF ViewInv
  <2>3. OnList' /\ IsSettled' => ShowsRows(view.shows.list, filter.options, filter.search)'
    <3> SUFFICES ASSUME OnList, view'.status = "ready"
                 PROVE  ShowsRows(view'.shows.list, filter.options, filter.search)
      BY <1>1, <1>2 DEF OnList, IsSettled
    <3> QED
      BY <1>5, <2>1 DEF ViewInv
  <2> QED
    BY <1>1, <1>2, <2>2, <2>3 DEF ViewInv, OnList, ListQuestion
<1> QED
  BY <1>3, <1>4, <1>5

\* Every step keeps the invariant.
LEMMA ViewStep == ViewInv /\ [ViewNext]_viewVars => ViewInv'
<1> SUFFICES ASSUME ViewInv, [ViewNext]_viewVars PROVE ViewInv'
  OBVIOUS
<1>1. IsEntered(filter) /\ IsEntered(NoFilter)
  <2>1. EmptyDraft \in Drawn /\ IsParsed(EmptyDraft) /\ OptionsOf(EmptyDraft) = EmptyDraft
    BY DEF Drawn, EmptyDraft, IsParsed, IsBad, OptionsOf, InMinorUnits
  <2> QED
    BY <2>1 DEF ViewInv, IsEntered, NoFilter
<1>2. view = [status |-> view.status, shows |-> view.shows]
      /\ Loading = [status |-> Loading.status, shows |-> Loading.shows]
  BY DEF ViewInv, Loading
<1>3. CASE OpenList
  BY <1>1, <1>2, <1>3, QuestionStep DEF OpenList, IsEntered
<1>4. CASE OpenReport
  BY <1>1, <1>2, <1>4, QuestionStep DEF OpenReport, IsEntered, OnList
<1>5. CASE TryAgain
  BY <1>1, <1>2, <1>5, QuestionStep DEF TryAgain, IsEntered, OnList
<1>6. CASE Refresh(filter) \/ Refresh(NoFilter)
  BY <1>1, <1>2, <1>6, QuestionStep DEF Refresh, IsEntered
<1>7. ASSUME NEW s \in Searches, Search(s) PROVE ViewInv'
  <2>1. /\ filter' = [filter EXCEPT !.search = s] /\ AsksFor(ListQuestion(filter'))
        /\ UNCHANGED <<stored, view>>
    BY <1>7 DEF Search
  <2>2. IsEntered(filter')
    BY <1>1, <2>1 DEF IsEntered
  <2> QED
    BY <1>2, <2>1, <2>2, QuestionStep
<1>8. ASSUME NEW draft \in Drafts, ApplyFilters(draft) PROVE ViewInv'
  <2>1. /\ filter' = [filter EXCEPT !.values = draft, !.options = OptionsOf(draft)]
        /\ IsParsed(draft) /\ AsksFor(ListQuestion(filter')) /\ UNCHANGED <<stored, view>>
    BY <1>8 DEF ApplyFilters
  <2>2. IsEntered(filter')
    BY <1>1, <2>1 DEF IsEntered, Drawn
  <2> QED
    BY <1>2, <2>1, <2>2, QuestionStep
<1>9. CASE LeaveViews
  BY <1>9 DEF LeaveViews, ViewInv, Loading, OnList
<1>10. CASE OpenFilters \/ CloseFilters \/ UNCHANGED viewVars
  <2>1. (OnList' <=> OnList)
        /\ UNCHANGED <<stored, filter, asked, latest, numbered, view, changed>>
    BY <1>10 DEF OpenFilters, CloseFilters, OnList, viewVars
  <2> QED
    BY <2>1 DEF ViewInv, IsSettled, ShowsRows, Active, Satisfies, ListQuestion
<1>11. ASSUME NEW e \in Expenses, Write(e) PROVE ViewInv'
  <2>1. PICK row \in Columns \cup {NoRow} : stored' = [stored EXCEPT ![e] = row]
    BY <1>11 DEF Write
  <2>2. changed' = changed \cup {e} /\ UNCHANGED <<page, filter, asked, latest, numbered, view>>
    BY <1>11 DEF Write
  <2>3. stored' \in [Expenses -> Columns \cup {NoRow}]
        /\ \A x \in Expenses \ {e} : stored'[x] = stored[x]
    BY <2>1 DEF ViewInv
  <2>4. ASSUME NEW rows, ShowsRows(rows, filter.options, filter.search)
        PROVE  ShowsRows(rows, filter.options, filter.search)'
    BY <2>2, <2>3, <2>4 DEF ShowsRows, Active, Satisfies
  <2> QED
    BY <2>2, <2>3, <2>4 DEF ViewInv, OnList, IsSettled, ListQuestion
<1> QED
  BY <1>3, <1>4, <1>5, <1>6, <1>7, <1>8, <1>9, <1>10, <1>11, AnswerStep, DeliverStepOfViews
  DEF ViewNext

\* The invariant holds always.
LEMMA ViewAlways == ViewSpec => []ViewInv
BY ViewInitInv, ViewStep, PTL DEF ViewSpec

\* A list that awaits nothing is what was asked for of what is stored, in
\* whatever order its answers came, and a CSV file says the amounts of the
\* expenses (ExpenseListScreen.tsx, expense-filter.ts, expense-csv.ts).
THEOREM ExpensesAreShown == ViewSpec => []ExpensesAreShownAsStored
<1>1. ViewInv => ExpensesAreShownAsStored
  <2> SUFFICES ASSUME ViewInv PROVE ExpensesAreShownAsStored
    OBVIOUS
  <2>1. ASSUME page = "list", IsSettled, NEW e \in Expenses \ changed
        PROVE  IF Active(e) /\ Wanted(stored[e])
               THEN [id |-> e, row |-> stored[e]] \in view.shows.list
               ELSE \A line \in view.shows.list : line.id # e
    <3>1. ShowsRows(view.shows.list, filter.options, filter.search)
      BY <2>1 DEF ViewInv, OnList
    <3>2. Active(e) => (Wanted(stored[e]) <=> Satisfies(stored[e], filter.options, filter.search))
      BY WantedIsSatisfied DEF ViewInv, Active
    <3> QED
      BY <3>1, <3>2 DEF ShowsRows
  <2>2. ASSUME NEW line \in CsvLines
        PROVE  ToMinorUnits(line.total, line.currency) = stored[line.id].total
    <3>1. PICK e \in Expenses :
            /\ Active(e)
            /\ line = [id |-> e, currency |-> stored[e].currency,
                       total |-> ToDecimal(stored[e].total, stored[e].currency)]
      BY DEF CsvLines
    <3>2. stored[e].currency \in Currencies /\ stored[e].total \in 0..MaxSafeInteger
      BY <3>1, RowsHaveAmounts DEF ViewInv, Active
    <3> QED
      BY <3>1, <3>2, AmountRoundTrip
  <2> QED
    BY <2>1, <2>2 DEF ExpensesAreShownAsStored
<1> QED
  BY <1>1, ViewAlways, PTL

\* The numbers of the questions, and what answers are.
QuestionsAreNumbered ==
  /\ numbered \in 0..MaxAsked
  /\ latest \in {0, numbered}
  /\ \A q \in asked :
       /\ q.number \in 1..numbered
       /\ q.answer.status \in {"awaited", "ready", "error"}

ViewKinds ==
  /\ written \in 0..MaxWritten
  /\ page \in {"list", "filters", "report", "other"}
  /\ filter.search \in Searches \cup {""}
  /\ QuestionsAreNumbered
  /\ view.status \in {"loading", "ready", "error"}
  /\ changed \subseteq Expenses

\* The question that is asked has the next number.
LEMMA NextNumber ==
  ASSUME QuestionsAreNumbered, NEW question, AsksFor(question)
  PROVE  QuestionsAreNumbered'
<1>1. numbered \in 0..MaxAsked /\ numbered + 1 \in 1..MaxAsked
  BY ViewBounds DEF QuestionsAreNumbered, AsksFor
<1>2. \A q \in asked' : q.number \in 1..(numbered + 1)
                      /\ q.answer.status \in {"awaited", "ready", "error"}
  BY <1>1 DEF QuestionsAreNumbered, AsksFor, Awaited
<1> QED
  BY <1>1, <1>2 DEF QuestionsAreNumbered, AsksFor

\* An answer is rows, totals or an error, and is shown as it is.
LEMMA AnswersHaveStatus ==
  ASSUME ViewInv, ViewKinds, NEW q \in asked, Answer(q) \/ Deliver(q)
  PROVE  ViewKinds'
<1>1. CASE Answer(q)
  <2>1. TotalsOf.status \in {"ready", "error"}
    <3> DEFINE monthly == Grouped([e \in ActiveOnes |->
                  <<stored[e].date.year, stored[e].date.month, stored[e].currency>>])
               byCategory == Grouped([e \in ActiveOnes |->
                  <<stored[e].category, stored[e].currency>>])
               isTooBig == \E g \in monthly \cup byCategory : g.total > MaxSafeInteger
               totals == Answered([Empty EXCEPT !.monthly = monthly, !.byCategory = byCategory])
    <3>1. TotalsOf = IF isTooBig THEN Failed ELSE totals
      BY DEF TotalsOf
    <3>2. Failed.status = "error" /\ totals.status = "ready"
      BY DEF Failed, Answered
    <3> HIDE DEF isTooBig, totals
    <3> QED
      BY <3>1, <3>2
  <2>2. \A with : Answered(with).status = "ready" /\ Failed.status = "error"
    BY DEF Answered, Failed
  <2>3. PICK given : /\ given.status \in {"ready", "error"}
                     /\ asked' = (asked \ {q}) \cup {[q EXCEPT !.answer = given]}
    BY <1>1, <2>1, <2>2 DEF Answer
  <2>4. q = [number |-> q.number, of |-> q.of, answer |-> q.answer]
    BY DEF ViewInv
  <2>5. \A x \in asked' : x \in asked \/ (x.number = q.number /\ x.answer = given)
    <3> DEFINE r == [q EXCEPT !.answer = given]
    <3>1. r.number = q.number /\ r.answer = given
      BY <2>4
    <3>2. asked' = (asked \ {q}) \cup {r}
      BY <2>3
    <3> HIDE DEF r
    <3> QED
      BY <3>1, <3>2
  <2>6. UNCHANGED <<written, page, filter, latest, numbered, view, changed>>
    BY <1>1 DEF Answer
  <2>7. QuestionsAreNumbered'
    <3>1. ASSUME NEW x \in asked'
          PROVE  x.number \in 1..numbered /\ x.answer.status \in {"awaited", "ready", "error"}
      BY <2>3, <2>5, <3>1 DEF ViewKinds, QuestionsAreNumbered
    <3> QED
      BY <2>6, <3>1 DEF ViewKinds, QuestionsAreNumbered
  <2> QED
    BY <2>6, <2>7 DEF ViewKinds
<1>2. CASE Deliver(q)
  <2>1. Shown(q).status \in {"loading", "ready", "error"}
    <3>1. view = [status |-> view.status, shows |-> view.shows]
      BY DEF ViewInv
    <3>2. [view EXCEPT !.status = "error"].status = "error"
      BY <3>1
    <3> QED
      BY <1>2, <3>2 DEF Shown, Deliver, ViewKinds, QuestionsAreNumbered
  <2> QED
    BY <1>2, <2>1 DEF Deliver, ViewKinds, QuestionsAreNumbered
<1> QED
  BY <1>1, <1>2

\* Every step keeps the numbers and kinds.
LEMMA KindsStep == ViewInv /\ ViewKinds /\ [ViewNext]_viewVars => ViewKinds'
<1> SUFFICES ASSUME ViewInv, ViewKinds, [ViewNext]_viewVars PROVE ViewKinds'
  OBVIOUS
<1>1. /\ QuestionsAreNumbered /\ written \in 0..MaxWritten
      /\ filter.search \in Searches \cup {""} /\ view.status \in {"loading", "ready", "error"}
      /\ page \in {"list", "filters", "report", "other"}
  BY DEF ViewKinds
<1>2. ASSUME NEW question, AsksFor(question), UNCHANGED written,
             page' \in {"list", "filters", "report", "other"},
             filter'.search \in Searches \cup {""},
             view'.status \in {"loading", "ready", "error"}
      PROVE  ViewKinds'
  BY <1>1, <1>2, NextNumber DEF ViewKinds, AsksFor
<1>3. CASE OpenList
  BY <1>1, <1>2, <1>3 DEF OpenList, NoFilter, Loading
<1>4. CASE OpenReport
  BY <1>1, <1>2, <1>4 DEF OpenReport, Loading
<1>5. CASE TryAgain
  BY <1>1, <1>2, <1>5 DEF TryAgain, Loading
<1>6. CASE Refresh(filter) \/ Refresh(NoFilter)
  <2>1. ASSUME NEW f, f.search \in Searches \cup {""}, Refresh(f) PROVE ViewKinds'
    BY <1>1, <1>2, <2>1 DEF Refresh
  <2>2. NoFilter.search = ""
    BY DEF NoFilter
  <2> QED
    BY <1>1, <1>6, <2>1, <2>2
<1>7. ASSUME NEW s \in Searches, Search(s) PROVE ViewKinds'
  <2>1. filter'.search = s
    BY <1>7 DEF Search, ViewInv
  <2> QED
    BY <1>1, <1>2, <1>7, <2>1 DEF Search
<1>8. ASSUME NEW draft \in Drafts, ApplyFilters(draft) PROVE ViewKinds'
  <2>1. filter'.search = filter.search
    BY <1>8 DEF ApplyFilters, ViewInv
  <2> QED
    BY <1>1, <1>2, <1>8, <2>1 DEF ApplyFilters
<1>9. CASE LeaveViews
  BY <1>9 DEF LeaveViews, ViewKinds, QuestionsAreNumbered, Loading
<1>10. CASE OpenFilters \/ CloseFilters \/ UNCHANGED viewVars
  BY <1>10 DEF OpenFilters, CloseFilters, viewVars, ViewKinds, QuestionsAreNumbered
<1>11. ASSUME NEW e \in Expenses, Write(e) PROVE ViewKinds'
  <2>1. written' \in 0..MaxWritten
    <3>1. written < MaxWritten /\ written' = written + 1
      BY <1>11 DEF Write
    <3>2. written \in 0..MaxWritten /\ MaxWritten \in Nat
      BY ViewBounds DEF ViewKinds
    <3> QED
      BY <3>1, <3>2
  <2>2. /\ changed' = changed \cup {e}
        /\ UNCHANGED <<page, filter, asked, latest, numbered, view>>
    BY <1>11 DEF Write
  <2> QED
    BY <2>1, <2>2 DEF ViewKinds, QuestionsAreNumbered
<1> QED
  BY <1>3, <1>4, <1>5, <1>6, <1>7, <1>8, <1>9, <1>10, <1>11, AnswersHaveStatus
  DEF ViewNext

\* Every variable of the views keeps to its domain, questions are numbered, and
\* only the last one can be the active effect's (ExpenseListScreen.tsx).
THEOREM ViewTypeCorrect == ViewSpec => []ViewTypeOK
<1>1. ViewInit => ViewKinds
  <2> SUFFICES ASSUME ViewInit PROVE ViewKinds
    OBVIOUS
  <2>1. written = 0 /\ numbered = 0 /\ latest = 0 /\ asked = {} /\ changed = {} /\ page = "other"
    BY DEF ViewInit
  <2>2. filter.search = "" /\ view.status = "loading"
    BY DEF ViewInit, NoFilter, Loading
  <2>3. 0 \in 0..MaxWritten /\ 0 \in 0..MaxAsked
    BY ViewBounds
  <2> QED
    BY <2>1, <2>2, <2>3 DEF ViewKinds, QuestionsAreNumbered
<1>2. ViewInv /\ ViewKinds => ViewTypeOK
  <2> SUFFICES ASSUME ViewInv, ViewKinds PROVE ViewTypeOK
    OBVIOUS
  <2>1. {q.number : q \in asked} \subseteq 1..numbered
    BY DEF ViewKinds, QuestionsAreNumbered
  <2>2. stored \in [Expenses -> Columns \cup {NoRow}] /\ filter.values \in Drafts \cup {EmptyDraft}
    BY DEF ViewInv, Drawn
  <2> QED
    BY <2>1, <2>2 DEF ViewKinds, QuestionsAreNumbered, ViewTypeOK
<1> QED
  BY <1>1, <1>2, ViewInitInv, ViewStep, KindsStep, PTL DEF ViewSpec

-----------------------------------------------------------------------------
(* Sums over finite sets. *)

\* Induction over the subsets of a finite set, with the good ones as a set.
LEMMA SubsetInduction ==
  ASSUME NEW S, IsFiniteSet(S), NEW Good,
         \A T \in SUBSET S : (\A U \in SUBSET T : U # T => U \in Good) => T \in Good
  PROVE  S \in Good
<1> DEFINE Bad == (SUBSET S) \ Good
<1>1. IsWellFoundedOn(StrictSubsetOrdering(S), SUBSET S)
  BY FS_StrictSubsetOrderingWellFounded, FS_FiniteSubsetsOfFinite
<1> SUFFICES ASSUME S \notin Good PROVE FALSE
  OBVIOUS
<1>2. Bad # {} /\ Bad \subseteq SUBSET S
  OBVIOUS
<1> HIDE DEF Bad
<1>3. PICK T \in Bad : \A U \in Bad : <<U, T>> \notin StrictSubsetOrdering(S)
  BY <1>1, <1>2, WFMin
<1> USE DEF Bad
<1>4. ASSUME NEW U \in SUBSET T, U # T PROVE U \in Good
  <2>1. <<U, T>> \in StrictSubsetOrdering(S)
    BY <1>4 DEF StrictSubsetOrdering
  <2> QED
    BY <1>3, <2>1
<1> QED
  BY <1>4

\* The element that a fold takes first.
Element(s) == CHOOSE x \in s : TRUE

\* A table of sums over the subsets of S, by what the fold does.
IsSum(sum, f, S) ==
  sum = [s \in SUBSET S |-> IF s = {} THEN 0 ELSE f[Element(s)] + sum[s \ {Element(s)}]]

LEMMA SumIs ==
  ASSUME NEW f, NEW S
  PROVE  SumFunctionOnSet(f, S) = (CHOOSE sum : IsSum(sum, f, S))[S]
BY DEF SumFunctionOnSet, FoldFunctionOnSet, MapThenFoldSet, IsSum, Element

LEMMA SumEntry ==
  ASSUME NEW f, NEW S, NEW sum, IsSum(sum, f, S), NEW s \in SUBSET S
  PROVE  sum[s] = IF s = {} THEN 0 ELSE f[Element(s)] + sum[s \ {Element(s)}]
BY DEF IsSum

LEMMA ElementIsIn == ASSUME NEW s, s # {} PROVE Element(s) \in s
BY DEF Element

LEMMA SumUnique ==
  ASSUME NEW f, NEW S, NEW T, NEW a, NEW b, IsSum(a, f, S), IsSum(b, f, T),
         NEW W, W \subseteq S, W \subseteq T, IsFiniteSet(W)
  PROVE  a[W] = b[W]
<1> DEFINE Good == {U \in SUBSET W : a[U] = b[U]}
<1>1. ASSUME NEW U \in SUBSET W, \A V \in SUBSET U : V # U => V \in Good PROVE U \in Good
  <2>1. CASE U = {}
    BY <2>1, SumEntry
  <2>2. CASE U # {}
    <3> DEFINE V == U \ {Element(U)}
    <3>1. V \in SUBSET U /\ V # U
      BY <2>2, ElementIsIn
    <3>2. a[V] = b[V]
      BY <1>1, <3>1
    <3>3. U \in SUBSET S /\ U \in SUBSET T
      OBVIOUS
    <3>4. a[U] = f[Element(U)] + a[V]
      BY ONLY <2>2, <3>3, SumEntry, IsSum(a, f, S)
    <3>5. b[U] = f[Element(U)] + b[V]
      BY ONLY <2>2, <3>3, SumEntry, IsSum(b, f, T)
    <3> QED
      BY <3>2, <3>4, <3>5
  <2> QED
    BY <2>1, <2>2
<1> HIDE DEF Good
<1>2. W \in Good
  BY <1>1, SubsetInduction
<1> QED
  BY <1>2 DEF Good

LEMMA SumExists ==
  ASSUME NEW f, NEW S, IsFiniteSet(S)
  PROVE  IsSum(CHOOSE sum : IsSum(sum, f, S), f, S)
<1> DEFINE Good == {T \in SUBSET S : \E sum : IsSum(sum, f, T)}
<1>1. ASSUME NEW T \in SUBSET S, \A U \in SUBSET T : U # T => U \in Good PROVE T \in Good
  <2> DEFINE Of(U) == CHOOSE sum : IsSum(sum, f, U)
             rest(s) == s \ {Element(s)}
             g == [s \in SUBSET T |->
                     IF s = {} THEN 0 ELSE f[Element(s)] + Of(rest(s))[rest(s)]]
  <2>1. ASSUME NEW U \in SUBSET T, U # T PROVE IsSum(Of(U), f, U)
    BY <1>1, <2>1
  <2>2. ASSUME NEW s \in SUBSET T, s # {} PROVE rest(s) \in SUBSET T /\ rest(s) # T
    BY <2>2, ElementIsIn
  <2>3. ASSUME NEW U \in SUBSET T, U # T PROVE g[U] = Of(U)[U]
    <3>1. IsFiniteSet(U)
      BY FS_Subset
    <3>2. CASE U = {}
      BY <2>1, <2>3, <3>2, SumEntry
    <3>3. CASE U # {}
      <4> DEFINE V == rest(U)
      <4>1. IsSum(Of(U), f, U) /\ IsSum(Of(V), f, V)
        BY <2>1, <2>2, <2>3, <3>3
      <4>2. V \in SUBSET U /\ IsFiniteSet(V)
        BY <3>1, FS_Subset
      <4>3. Of(U)[U] = f[Element(U)] + Of(U)[V]
        BY <3>3, <4>1, SumEntry
      <4>4. Of(U)[V] = Of(V)[V]
        <5> HIDE DEF Of, V
        <5> QED
          BY <4>1, <4>2, SumUnique
      <4>5. g[U] = f[Element(U)] + Of(V)[V]
        BY <3>3
      <4> QED
        BY <4>3, <4>4, <4>5
    <3> QED
      BY <3>2, <3>3
  <2>4. IsSum(g, f, T)
    <3>1. ASSUME NEW s \in SUBSET T, s # {} PROVE g[rest(s)] = Of(rest(s))[rest(s)]
      BY <2>2, <2>3, <3>1
    <3>2. g = [s \in SUBSET T |-> IF s = {} THEN 0 ELSE f[Element(s)] + g[rest(s)]]
      <4> DEFINE h == [s \in SUBSET T |-> IF s = {} THEN 0 ELSE f[Element(s)] + g[rest(s)]]
      <4>1. ASSUME NEW s \in SUBSET T PROVE g[s] = h[s]
        <5>1. CASE s = {}
          BY <5>1
        <5>2. CASE s # {}
          <6>1. g[s] = f[Element(s)] + Of(rest(s))[rest(s)] /\ h[s] = f[Element(s)] + g[rest(s)]
            BY <5>2
          <6> HIDE DEF g, h, rest
          <6> QED
            BY <3>1, <5>2, <6>1
        <5> QED
          BY <5>1, <5>2
      <4>2. g = [s \in SUBSET T |-> g[s]] /\ h = [s \in SUBSET T |-> h[s]]
        OBVIOUS
      <4> HIDE DEF g, h
      <4>3. g = h
        BY <4>1, <4>2
      <4> QED
        BY <4>3 DEF h
    <3> QED
      BY <3>2 DEF IsSum
  <2> QED
    BY <2>4
<1> HIDE DEF Good
<1>2. S \in Good
  BY <1>1, SubsetInduction
<1> QED
  BY <1>2 DEF Good

LEMMA SumStep ==
  ASSUME NEW f, NEW S, IsFiniteSet(S)
  PROVE  /\ SumFunctionOnSet(f, {}) = 0
         /\ S # {} => SumFunctionOnSet(f, S) =
                        f[Element(S)] + SumFunctionOnSet(f, S \ {Element(S)})
<1> DEFINE Of(U) == CHOOSE sum : IsSum(sum, f, U)
<1>1. ASSUME NEW U, IsFiniteSet(U) PROVE IsSum(Of(U), f, U) /\ SumFunctionOnSet(f, U) = Of(U)[U]
  BY <1>1, SumExists, SumIs
<1> HIDE DEF Of
<1>2. SumFunctionOnSet(f, {}) = 0
  BY <1>1, SumEntry, FS_EmptySet
<1>3. ASSUME S # {} PROVE SumFunctionOnSet(f, S) =
                        f[Element(S)] + SumFunctionOnSet(f, S \ {Element(S)})
  <2> DEFINE V == S \ {Element(S)}
  <2>1. IsFiniteSet(V)
    BY FS_Subset
  <2>2. Of(S)[S] = f[Element(S)] + Of(S)[V]
    BY <1>1, <1>3, SumEntry
  <2>3. Of(S)[V] = Of(V)[V]
    BY <1>1, <2>1, SumUnique
  <2> QED
    BY <1>1, <2>1, <2>2, <2>3
<1> QED
  BY <1>2, <1>3

\* A sum of integers is one, and does not depend on the order.
LEMMA SumWithout ==
  ASSUME NEW f, NEW S, IsFiniteSet(S), \A x \in S : f[x] \in Int
  PROVE  /\ SumFunctionOnSet(f, S) \in Int
         /\ \A x \in S : SumFunctionOnSet(f, S) = f[x] + SumFunctionOnSet(f, S \ {x})
<1> DEFINE Sum(T) == SumFunctionOnSet(f, T)
           IsOrdered(T) == Sum(T) \in Int /\ \A x \in T : Sum(T) = f[x] + Sum(T \ {x})
           Good == {T \in SUBSET S : IsOrdered(T)}
<1>1. ASSUME NEW T \in SUBSET S, IsFiniteSet(T)
      PROVE  Sum({}) = 0 /\ (T # {} => Sum(T) = f[Element(T)] + Sum(T \ {Element(T)}))
  BY <1>1, SumStep
<1>2. \A T \in SUBSET S : IsFiniteSet(T)
  BY FS_Subset
<1> HIDE DEF Sum
<1>3. ASSUME NEW T \in SUBSET S, \A U \in SUBSET T : U # T => U \in Good PROVE T \in Good
  <2>1. CASE T = {}
    <3>1. Sum(T) = 0
      BY <1>1, <1>2, <2>1
    <3> QED
      BY <2>1, <3>1
  <2>2. CASE T # {}
    <3> DEFINE c == Element(T)
    <3>1. c \in T /\ Sum(T) = f[c] + Sum(T \ {c})
      BY <1>1, <1>2, <2>2, ElementIsIn
    <3> HIDE DEF c
    <3>2. T \ {c} \in Good
      BY <1>3, <3>1
    <3>3. Sum(T) \in Int
      BY <3>1, <3>2
    <3>4. ASSUME NEW x \in T, x # c PROVE Sum(T) = f[x] + Sum(T \ {x})
      <4>1. T \ {x} \in Good
        BY <1>3
      <4>2. x \in T \ {c} /\ c \in T \ {x}
        BY <3>1, <3>4
      <4>3. Sum(T \ {c}) = f[x] + Sum((T \ {c}) \ {x}) /\ Sum(T \ {x}) = f[c] + Sum((T \ {x}) \ {c})
        BY <3>2, <4>1, <4>2
      <4>4. (T \ {c}) \ {x} = (T \ {x}) \ {c}
        OBVIOUS
      <4>5. Sum((T \ {x}) \ {c}) \in Int
        <5>1. (T \ {x}) \ {c} \in SUBSET T /\ (T \ {x}) \ {c} # T
          BY <3>1
        <5> QED
          BY <1>3, <5>1
      <4> QED
        <5>1. f[x] \in Int /\ f[c] \in Int
          BY <3>1
        <5>2. ASSUME NEW all \in Int, NEW a \in Int, NEW b \in Int PROVE a + (b + all) = b + (a + all)
          OBVIOUS
        <5> DEFINE rest == Sum((T \ {x}) \ {c})
        <5>3. Sum((T \ {c}) \ {x}) = rest
          BY <4>4
        <5>4. Sum(T) = f[c] + (f[x] + rest) /\ Sum(T \ {x}) = f[c] + rest
          BY <3>1, <4>3, <5>3
        <5>5. f[c] + (f[x] + rest) = f[x] + (f[c] + rest)
          <6> HIDE DEF rest
          <6> QED
            BY <4>5, <5>1, <5>2 DEF rest
        <5> HIDE DEF rest
        <5> QED
          BY <5>4, <5>5
    <3> QED
      BY <3>1, <3>3, <3>4
  <2> QED
    BY <2>1, <2>2
<1>4. S \in Good
  <2> HIDE DEF Good
  <2> QED
    BY <1>3, SubsetInduction
<1> QED
  BY <1>4 DEF Sum
\* Equal terms have equal sums.
LEMMA SumAgree ==
  ASSUME NEW f, NEW g, NEW S, IsFiniteSet(S), \A x \in S : f[x] = g[x]
  PROVE  SumFunctionOnSet(f, S) = SumFunctionOnSet(g, S)
<1> DEFINE Good == {T \in SUBSET S : SumFunctionOnSet(f, T) = SumFunctionOnSet(g, T)}
<1>1. ASSUME NEW T \in SUBSET S, \A U \in SUBSET T : U # T => U \in Good PROVE T \in Good
  <2>1. IsFiniteSet(T)
    BY FS_Subset
  <2>2. CASE T = {}
    BY <2>1, <2>2, SumStep
  <2>3. CASE T # {}
    <3> DEFINE U == T \ {Element(T)}
    <3>1. Element(T) \in T /\ U \in SUBSET T /\ U # T
      BY <2>3, ElementIsIn
    <3>2. SumFunctionOnSet(f, U) = SumFunctionOnSet(g, U)
      BY <1>1, <3>1
    <3>3. SumFunctionOnSet(f, T) = f[Element(T)] + SumFunctionOnSet(f, U)
          /\ SumFunctionOnSet(g, T) = g[Element(T)] + SumFunctionOnSet(g, U)
      BY <2>1, <2>3, SumStep
    <3> HIDE DEF U
    <3> QED
      BY <3>1, <3>2, <3>3
  <2> QED
    BY <2>2, <2>3
<1> HIDE DEF Good
<1>2. S \in Good
  BY <1>1, SubsetInduction
<1> QED
  BY <1>2 DEF Good

\* The sum over two sets that have nothing in common.
LEMMA SumOfTwo ==
  ASSUME NEW f, NEW S, IsFiniteSet(S), \A x \in S : f[x] \in Int,
         NEW A \in SUBSET S, NEW B \in SUBSET S, A \cap B = {}
  PROVE  SumFunctionOnSet(f, A \cup B) = SumFunctionOnSet(f, A) + SumFunctionOnSet(f, B)
<1> DEFINE Sum(T) == SumFunctionOnSet(f, T)
           Good == {T \in SUBSET B : Sum(A \cup T) = Sum(A) + Sum(T)}
<1>1. \A T \in SUBSET S : Sum(T) \in Int /\ \A x \in T : Sum(T) = f[x] + Sum(T \ {x})
  <2> TAKE T \in SUBSET S
  <2>1. IsFiniteSet(T) /\ \A x \in T : f[x] \in Int
    BY FS_Subset
  <2> QED
    BY <2>1, SumWithout
<1>2. Sum({}) = 0
  BY SumStep
<1>3. IsFiniteSet(B)
  BY FS_Subset
<1> HIDE DEF Sum
<1>4. ASSUME NEW T \in SUBSET B, \A U \in SUBSET T : U # T => U \in Good PROVE T \in Good
  <2>1. CASE T = {}
    <3>1. A \cup T = A /\ Sum(A) \in Int
      BY <1>1, <2>1
    <3> QED
      BY <1>2, <2>1, <3>1
  <2>2. CASE T # {}
    <3>1. PICK x \in T : TRUE
      BY <2>2
    <3> DEFINE U == T \ {x}
    <3>2. U \in SUBSET T /\ U # T /\ (A \cup T) \ {x} = A \cup U
      OBVIOUS
    <3>3. Sum(A \cup U) = Sum(A) + Sum(U)
      BY <1>4, <3>2
    <3>4. Sum(A \cup T) = f[x] + Sum(A \cup U)
      <4>1. A \cup T \in SUBSET S /\ x \in A \cup T
        OBVIOUS
      <4> QED
        BY <1>1, <3>2, <4>1
    <3>5. Sum(T) = f[x] + Sum(U)
      BY <1>1
    <3>6. Sum(A) \in Int /\ Sum(U) \in Int /\ f[x] \in Int
      BY <1>1
    <3> HIDE DEF U
    <3>7. Sum(A \cup T) = Sum(A) + Sum(T)
      BY <3>3, <3>4, <3>5, <3>6
    <3> QED
      BY <3>7
  <2> QED
    BY <2>1, <2>2
<1>5. B \in Good
  <2> HIDE DEF Good
  <2> QED
    BY <1>3, <1>4, SubsetInduction
<1> QED
  BY <1>5 DEF Sum

\* The rows R partition S by group, each with the sum of f over its members.
IsGrouping(f, S, groupOf, R, totals) ==
  /\ IsFiniteSet(S) /\ \A x \in S : f[x] \in Int
  /\ IsFiniteSet(R) /\ \A g, h \in R : g.group = h.group => g = h
  /\ \A x \in S : \E g \in R : groupOf[x] = g.group
  /\ \A g \in R : \A T \in SUBSET S :
       (\A x \in S : x \in T <=> groupOf[x] = g.group) => totals[g] = SumFunctionOnSet(f, T)

\* The sum over groups is the sum over their members.
LEMMA SumOfGroups ==
  ASSUME NEW f, NEW S, NEW groupOf, NEW R, NEW totals, IsGrouping(f, S, groupOf, R, totals)
  PROVE  SumFunctionOnSet(totals, R) = SumFunctionOnSet(f, S)
<1> USE DEF IsGrouping
<1> DEFINE Sum(T) == SumFunctionOnSet(f, T)
           Of(g) == {x \in S : groupOf[x] = g.group}
           In(T) == {x \in S : \E g \in T : groupOf[x] = g.group}
           Good == {T \in SUBSET R : SumFunctionOnSet(totals, T) = Sum(In(T))}
<1>1. ASSUME NEW A \in SUBSET S, NEW B \in SUBSET S, A \cap B = {}
      PROVE  Sum(A \cup B) = Sum(A) + Sum(B)
  BY <1>1, SumOfTwo
<1>2. \A g \in R : totals[g] = Sum(Of(g))
  <2> TAKE g \in R
  <2>1. Of(g) \in SUBSET S /\ \A x \in S : x \in Of(g) <=> groupOf[x] = g.group
    OBVIOUS
  <2> HIDE DEF Of
  <2> QED
    BY <2>1
<1>3. Sum({}) = 0
  BY SumStep
<1>4. In(R) = S
  OBVIOUS
<1> HIDE DEF Sum
<1>5. ASSUME NEW T \in SUBSET R, \A U \in SUBSET T : U # T => U \in Good PROVE T \in Good
  <2>1. IsFiniteSet(T)
    BY FS_Subset
  <2>2. CASE T = {}
    <3>1. In(T) = {} /\ SumFunctionOnSet(totals, T) = 0
      BY <2>1, <2>2, SumStep
    <3> QED
      BY <1>3, <3>1
  <2>3. CASE T # {}
    <3> DEFINE g == Element(T)
               U == T \ {g}
    <3>1. g \in T
      BY <2>3, ElementIsIn
    <3>2. SumFunctionOnSet(totals, T) = totals[g] + SumFunctionOnSet(totals, U)
      BY <2>1, <2>3, SumStep
    <3> HIDE DEF g
    <3>3. SumFunctionOnSet(totals, U) = Sum(In(U))
      BY <1>5, <3>1
    <3>4. In(T) = Of(g) \cup In(U) /\ Of(g) \cap In(U) = {}
      BY <3>1
    <3>5. Sum(In(T)) = Sum(Of(g)) + Sum(In(U))
      <4> HIDE DEF U
      <4>1. Of(g) \in SUBSET S /\ In(U) \in SUBSET S
        OBVIOUS
      <4> HIDE DEF Of, In
      <4> QED
        BY <1>1, <3>4, <4>1
    <3>6. totals[g] = Sum(Of(g))
      BY <1>2, <3>1
    <3>7. SumFunctionOnSet(totals, T) = Sum(In(T))
      <4> HIDE DEF Of, In, U
      <4> QED
        BY <3>2, <3>3, <3>5, <3>6
    <3> QED
      BY <3>7
  <2> QED
    BY <2>2, <2>3
<1>6. R \in Good
  <2> HIDE DEF Good
  <2> QED
    BY <1>5, SubsetInduction
<1> QED
  BY <1>4, <1>6 DEF Sum

-----------------------------------------------------------------------------
(* The totals of a report. *)

\* Expenses with a row have an amount, and are finitely many.
LEMMA ActiveAmounts ==
  ASSUME stored \in [Expenses -> Columns \cup {NoRow}]
  PROVE  /\ IsFiniteSet(ActiveOnes)
         /\ \A e \in ActiveOnes : stored[e].total \in Nat
<1>1. ActiveOnes \in SUBSET Expenses
  BY DEF ActiveOnes
<1>2. \A e \in ActiveOnes : stored[e].total \in 0..MaxSafeInteger
  BY RowsHaveAmounts DEF ActiveOnes, Active
<1> QED
  BY <1>1, <1>2, FS_Subset, ExpensesAreFinite

\* However the expenses are grouped, as long as a group has one currency, the
\* groups of a currency add up to its expenses.
LEMMA GroupsAddUp ==
  ASSUME stored \in [Expenses -> Columns \cup {NoRow}], NEW c, NEW groupOf,
         \A e \in ActiveOnes : Last(groupOf[e]) = stored[e].currency
  PROVE  SumOver(Grouped(groupOf), c) =
           Total({e \in Expenses : Active(e) /\ stored[e].currency = c})
<1> DEFINE S == {e \in Expenses : Active(e) /\ stored[e].currency = c}
           f == [e \in ActiveOnes |-> stored[e].total]
           members(g) == {e \in ActiveOnes : groupOf[e] = g}
           Row(g) == [group |-> g, count |-> Cardinality(members(g)), total |-> Total(members(g))]
           groups == {groupOf[e] : e \in ActiveOnes}
           R == {r \in Grouped(groupOf) : Last(r.group) = c}
           totals == [r \in R |-> r.total]
<1>1. Grouped(groupOf) = {Row(g) : g \in groups}
  BY DEF Grouped
<1>2. IsFiniteSet(ActiveOnes) /\ \A e \in ActiveOnes : f[e] \in Int
  BY ActiveAmounts
<1>3. S \in SUBSET ActiveOnes
  BY DEF ActiveOnes
<1>4. ASSUME NEW T \in SUBSET ActiveOnes PROVE Total(T) = SumFunctionOnSet(f, T)
  <2> DEFINE t == [e \in T |-> stored[e].total]
  <2>1. IsFiniteSet(T) /\ \A e \in T : t[e] = f[e]
    BY <1>2, FS_Subset
  <2>2. Total(T) = SumFunctionOnSet(t, T)
    BY DEF Total
  <2> HIDE DEF t, f
  <2> QED
    BY <2>1, <2>2, SumAgree
<1>5. \A g : Row(g).group = g /\ Row(g).total = Total(members(g))
  OBVIOUS
<1> HIDE DEF Row, f
<1>6. IsFiniteSet(R)
  <2> DEFINE h == [e \in ActiveOnes |-> Row(groupOf[e])]
  <2>1. h \in Surjection(ActiveOnes, Grouped(groupOf))
    BY <1>1 DEF Surjection
  <2>2. IsFiniteSet(Grouped(groupOf))
    BY <1>2, <2>1, FS_Surjection
  <2> QED
    BY <2>2, FS_Subset
<1>7. \A r \in R : \E g \in groups : r = Row(g)
  BY <1>1
<1>8. \A r, q \in R : r.group = q.group => r = q
  BY <1>5, <1>7
<1>9. ASSUME NEW r \in R, NEW T \in SUBSET S, \A e \in S : e \in T <=> groupOf[e] = r.group
      PROVE  totals[r] = SumFunctionOnSet(f, T)
  <2>1. PICK g \in groups : r = Row(g)
    BY <1>7
  <2>2. r.group = g /\ totals[r] = Total(members(g)) /\ Last(g) = c
    BY <1>5, <2>1
  <2>3. members(g) = T
    BY <1>9, <2>2 DEF ActiveOnes
  <2>4. members(g) \in SUBSET ActiveOnes
    OBVIOUS
  <2> HIDE DEF members
  <2> QED
    BY <1>4, <2>2, <2>3, <2>4
<1>10. ASSUME NEW e \in S PROVE \E r \in R : groupOf[e] = r.group
  <2>1. e \in ActiveOnes /\ Last(groupOf[e]) = c
    BY <1>3
  <2>2. Row(groupOf[e]) \in R
    BY <1>1, <1>5, <2>1
  <2> QED
    BY <1>5, <2>2
<1>11. SumFunctionOnSet(totals, R) = SumFunctionOnSet(f, S)
  <2>1. IsFiniteSet(S) /\ \A e \in S : f[e] \in Int
    BY <1>2, <1>3, FS_Subset
  <2> HIDE DEF S, R, totals
  <2>2. IsGrouping(f, S, groupOf, R, totals)
    BY <1>6, <1>8, <1>9, <1>10, <2>1 DEF IsGrouping
  <2> QED
    BY <2>2, SumOfGroups
<1>12. SumOver(Grouped(groupOf), c) = SumFunctionOnSet(totals, R)
  BY DEF SumOver
<1> QED
  BY <1>3, <1>4, <1>11, <1>12

\* What a report says is the sum of the expenses, per currency.
AddsUp(shows) ==
  \A c \in Currencies :
    LET total == Total({e \in Expenses : Active(e) /\ stored[e].currency = c}) IN
    /\ SumOver(shows.monthly, c) = total
    /\ SumOver(shows.byCategory, c) = total

\* The totals add up when they are read.
LEMMA TotalsAddUp ==
  ASSUME stored \in [Expenses -> Columns \cup {NoRow}], TotalsOf.status = "ready"
  PROVE  AddsUp(TotalsOf.shows)
<1> DEFINE monthOf == [e \in ActiveOnes |->
                         <<stored[e].date.year, stored[e].date.month, stored[e].currency>>]
           categoryOf == [e \in ActiveOnes |-> <<stored[e].category, stored[e].currency>>]
           monthly == Grouped(monthOf)
           byCategory == Grouped(categoryOf)
           isTooBig == \E g \in monthly \cup byCategory : g.total > MaxSafeInteger
           totals == Answered([Empty EXCEPT !.monthly = monthly, !.byCategory = byCategory])
<1>1. \A e \in ActiveOnes : /\ Last(monthOf[e]) = stored[e].currency
                            /\ Last(categoryOf[e]) = stored[e].currency
  BY DEF Last
<1>2. TotalsOf = IF isTooBig THEN Failed ELSE totals
  BY DEF TotalsOf
<1>3. totals.shows.monthly = monthly /\ totals.shows.byCategory = byCategory
  BY DEF Answered, Empty
<1> HIDE DEF monthOf, categoryOf, isTooBig
<1>4. \A c : /\ SumOver(monthly, c) = Total({e \in Expenses : Active(e) /\ stored[e].currency = c})
             /\ SumOver(byCategory, c) = Total({e \in Expenses : Active(e) /\ stored[e].currency = c})
  BY <1>1, GroupsAddUp
<1>5. TotalsOf = totals
  <2>1. Failed.status = "error"
    BY DEF Failed
  <2> HIDE DEF totals
  <2> QED
    BY <1>2, <2>1
<1> HIDE DEF totals, monthly, byCategory
<1> QED
  BY <1>3, <1>4, <1>5 DEF AddsUp

\* As long as a report is on the screen, the active effect's question is the
\* report's, and its answer, like what is shown, adds up if nothing was
\* written since.
ReportInv ==
  page = "report" =>
    /\ \A q \in asked : q.number = latest =>
         /\ q.of = ReportQuestion
         /\ q.answer.status = "ready" /\ changed = {} => AddsUp(q.answer.shows)
    /\ IsSettled /\ changed = {} => AddsUp(view.shows)

\* A question of a report is asked: nothing is settled until it is answered.
LEMMA ReportAsked ==
  ASSUME ViewInv, NEW question, AsksFor(question), page' = "report" => question = ReportQuestion
  PROVE  ReportInv'
<1> DEFINE q == [number |-> numbered + 1, of |-> question, answer |-> Awaited]
<1>1. /\ numbered \in Nat /\ latest' = numbered + 1 /\ asked' = asked \cup {q}
      /\ \A p \in asked : p.number \in Nat /\ p.number <= numbered
  BY DEF AsksFor, ViewInv
<1>2. q.number = numbered + 1 /\ q.of = question /\ q.answer.status = "awaited"
  BY DEF Awaited
<1> HIDE DEF q
<1>3. \A p \in asked' : p.number = latest' => p = q
  BY <1>1
<1>4. ~IsSettled'
  BY <1>1, <1>2 DEF IsSettled
<1> QED
  BY <1>2, <1>3, <1>4 DEF ReportInv

\* Every step keeps what is known of reports.
LEMMA ReportStep == ViewInv /\ ReportInv /\ [ViewNext]_viewVars => ReportInv'
<1> SUFFICES ASSUME ViewInv, ReportInv, [ViewNext]_viewVars PROVE ReportInv'
  OBVIOUS
<1>1. ASSUME UNCHANGED stored, NEW shows PROVE AddsUp(shows)' <=> AddsUp(shows)
  BY <1>1 DEF AddsUp, Total, Active
<1>2. CASE OpenList
  BY <1>2, ReportAsked DEF OpenList
<1>3. CASE OpenReport
  BY <1>3, ReportAsked DEF OpenReport
<1>4. CASE TryAgain
  BY <1>4, ReportAsked DEF TryAgain
<1>5. CASE Refresh(filter) \/ Refresh(NoFilter)
  BY <1>5, ReportAsked DEF Refresh
<1>6. ASSUME NEW s \in Searches, Search(s) PROVE ReportInv'
  BY <1>6, ReportAsked DEF Search
<1>7. ASSUME NEW draft \in Drafts, ApplyFilters(draft) PROVE ReportInv'
  BY <1>7, ReportAsked DEF ApplyFilters
<1>8. CASE LeaveViews \/ OpenFilters \/ CloseFilters
  BY <1>8 DEF LeaveViews, OpenFilters, CloseFilters, ReportInv
<1>9. CASE UNCHANGED viewVars
  <2>1. UNCHANGED <<stored, page, asked, latest, view, changed>>
    BY <1>9 DEF viewVars
  <2> QED
    BY <1>1, <2>1 DEF ReportInv, IsSettled
<1>10. ASSUME NEW e \in Expenses, Write(e) PROVE ReportInv'
  <2>1. changed' # {} /\ UNCHANGED <<page, asked, latest, view>>
    BY <1>10 DEF Write
  <2> QED
    BY <2>1 DEF ReportInv
<1>11. ASSUME NEW q \in asked, Answer(q) PROVE ReportInv'
  <2>1. PICK reply : /\ asked' = (asked \ {q}) \cup {[q EXCEPT !.answer = reply]}
                     /\ reply.status = "ready" /\ q.of.kind # "list" => reply = TotalsOf
    BY <1>11 DEF Answer, Failed
  <2>2. q.answer.status = "awaited" /\ UNCHANGED <<stored, page, latest, view, changed>>
    BY <1>11 DEF Answer
  <2> DEFINE a == [q EXCEPT !.answer = reply]
  <2>3. a.number = q.number /\ a.of = q.of /\ a.answer = reply
    BY DEF ViewInv
  <2>4. asked' = (asked \ {q}) \cup {a}
    BY <2>1
  <2> HIDE DEF a
  <2>5. IsSettled' <=> IsSettled
    BY <2>2, <2>3, <2>4 DEF IsSettled
  <2>6. ASSUME page = "report", q.number = latest, reply.status = "ready"
        PROVE  AddsUp(reply.shows)
    <3>1. q.of.kind # "list"
      BY <2>6 DEF ReportInv, ReportQuestion
    <3> QED
      BY <2>1, <2>6, <3>1, TotalsAddUp DEF ViewInv
  <2>7. \A shows : AddsUp(shows)' <=> AddsUp(shows)
    BY <1>1, <2>2
  <2> QED
    BY <2>2, <2>3, <2>4, <2>5, <2>6, <2>7 DEF ReportInv, ReportQuestion
<1>12. ASSUME NEW q \in asked, Deliver(q) PROVE ReportInv'
  <2>1. /\ asked' = asked \ {q} /\ q.answer.status # "awaited"
        /\ view' = IF q.number = latest THEN Shown(q) ELSE view
        /\ UNCHANGED <<stored, page, latest, changed>>
    BY <1>12 DEF Deliver
  <2>2. \A shows : AddsUp(shows)' <=> AddsUp(shows)
    BY <1>1, <2>1
  <2>3. ASSUME page = "report", IsSettled', changed = {} PROVE AddsUp(view'.shows)
    <3>1. CASE q.number = latest
      <4>1. [view EXCEPT !.status = "error"].status = "error"
        BY DEF ViewInv
      <4>2. view' = q.answer /\ q.answer.status = "ready"
        BY <2>1, <2>3, <3>1, <4>1 DEF Shown, IsSettled
      <4> QED
        BY <2>3, <3>1, <4>2 DEF ReportInv
    <3>2. CASE q.number # latest
      <4>1. IsSettled /\ view' = view
        BY <2>1, <2>3, <3>2 DEF IsSettled
      <4> QED
        BY <2>3, <4>1 DEF ReportInv
    <3> QED
      BY <3>1, <3>2
  <2> QED
    BY <2>1, <2>2, <2>3 DEF ReportInv, ReportQuestion
<1> QED
  BY <1>2, <1>3, <1>4, <1>5, <1>6, <1>7, <1>8, <1>9, <1>10, <1>11, <1>12 DEF ViewNext

\* The months and the categories of a report that awaits nothing add up to the
\* expenses, per currency, whatever was answered in between, if none was
\* written since it was asked for (reporting-repository.ts, getTotals).
THEOREM ReportsAddUp == ViewSpec => []ReportAddsUp
<1>1. ViewInit => ReportInv
  BY DEF ViewInit, ReportInv
<1>2. ReportInv => ReportAddsUp
  BY DEF ReportInv, ReportAddsUp, AddsUp
<1> QED
  BY <1>1, <1>2, ViewInitInv, ViewStep, ReportStep, PTL DEF ViewSpec

-----------------------------------------------------------------------------
(* The text of a receipt. *)

\* A table of the numbers that subsets of the groups spell.
IsReading(number, groups) ==
  number = [s \in SUBSET (DOMAIN groups) |->
              IF s = {} THEN 0
              ELSE number[s \ {Max(s)}] * 10 ^ groups[Max(s)].length + groups[Max(s)].value]

LEMMA NumberIs ==
  ASSUME NEW groups
  PROVE  NumberOf(groups) = (CHOOSE number : IsReading(number, groups))[DOMAIN groups]
BY DEF NumberOf, FoldLeft, MapThenFoldSet, IsReading

LEMMA Maxima == Max({1}) = 1 /\ Max({2}) = 2 /\ Max({1, 2}) = 2
BY DEF Max

LEMMA NumberOfOne == ASSUME NEW g, g.value \in Nat, g.length \in Nat PROVE NumberOf(<<g>>) = g.value
<1> DEFINE n == [s \in SUBSET {1} |-> IF s = {} THEN 0 ELSE g.value]
           N == CHOOSE number : IsReading(number, <<g>>)
<1>1. DOMAIN <<g>> = {1} /\ <<g>>[1] = g
  OBVIOUS
<1>2. \A s \in SUBSET {1} : s = {} \/ s = {1}
  OBVIOUS
<1>3. 0 * 10 ^ g.length + g.value = g.value
  OBVIOUS
<1>4. IsReading(n, <<g>>)
  <2> DEFINE m == [s \in SUBSET {1} |-> IF s = {} THEN 0
              ELSE n[s \ {Max(s)}] * 10 ^ <<g>>[Max(s)].length + <<g>>[Max(s)].value]
  <2>1. ASSUME NEW s \in SUBSET {1} PROVE n[s] = m[s]
    <3>1. CASE s = {}
      BY <3>1
    <3>2. CASE s = {1}
      <4>1. s \ {Max(s)} = {} /\ <<g>>[Max(s)] = g
        BY <1>1, <3>2, Maxima
      <4>2. n[{}] = 0 /\ n[s] = g.value
        BY <3>2
      <4>3. m[s] = n[s \ {Max(s)}] * 10 ^ <<g>>[Max(s)].length + <<g>>[Max(s)].value
        BY <3>2
      <4> HIDE DEF n, m
      <4> QED
        BY <1>3, <4>1, <4>2, <4>3
    <3> QED
      BY <1>2, <3>1, <3>2
  <2>2. n = m
    BY <2>1
  <2> HIDE DEF n
  <2> QED
    BY <1>1, <2>2 DEF IsReading
<1> HIDE DEF n
<1>5. IsReading(N, <<g>>)
  BY <1>4
<1> HIDE DEF N
<1>6. N[{}] = 0
  BY <1>1, <1>5 DEF IsReading
<1>7. N[{1}] = N[{1} \ {Max({1})}] * 10 ^ <<g>>[Max({1})].length + <<g>>[Max({1})].value
  BY <1>1, <1>5 DEF IsReading
<1>8. {1} \ {Max({1})} = {} /\ <<g>>[Max({1})] = g
  BY <1>1, Maxima
<1>9. N[{1}] = g.value
  BY <1>3, <1>6, <1>7, <1>8
<1> QED
  BY <1>1, <1>9, NumberIs DEF N

LEMMA NumberOfTwo ==
  ASSUME NEW a, a.value \in Nat, a.length \in Nat, NEW b, b.value \in Nat, b.length \in Nat
  PROVE  NumberOf(<<a, b>>) = a.value * 10 ^ b.length + b.value
<1> DEFINE both == a.value * 10 ^ b.length + b.value
           groups == <<a, b>>
           n == [s \in SUBSET {1, 2} |-> IF s = {} THEN 0 ELSE IF s = {1} THEN a.value
                                         ELSE IF s = {2} THEN b.value ELSE both]
           N == CHOOSE number : IsReading(number, groups)
<1>1. DOMAIN groups = {1, 2} /\ groups[1] = a /\ groups[2] = b
  OBVIOUS
<1>2. \A s \in SUBSET {1, 2} : s = {} \/ s = {1} \/ s = {2} \/ s = {1, 2}
  OBVIOUS
<1>3. 0 * 10 ^ a.length + a.value = a.value /\ 0 * 10 ^ b.length + b.value = b.value
  OBVIOUS
<1>4. IsReading(n, groups)
  <2> DEFINE m == [s \in SUBSET {1, 2} |-> IF s = {} THEN 0
              ELSE n[s \ {Max(s)}] * 10 ^ groups[Max(s)].length + groups[Max(s)].value]
  <2>1. n[{}] = 0 /\ n[{1}] = a.value /\ n[{2}] = b.value /\ n[{1, 2}] = both
    <3>1. {1} # {} /\ {2} # {} /\ {1, 2} # {} /\ {2} # {1} /\ {1, 2} # {1} /\ {1, 2} # {2}
      OBVIOUS
    <3>2. {} \in SUBSET {1, 2} /\ {1} \in SUBSET {1, 2} /\ {2} \in SUBSET {1, 2} /\ {1, 2} \in SUBSET {1, 2}
      OBVIOUS
    <3> HIDE DEF both
    <3> QED
      BY <3>1, <3>2
  <2> HIDE DEF groups
  <2>2. ASSUME NEW s \in SUBSET {1, 2} PROVE n[s] = m[s]
    <3>1. s # {} => m[s] = n[s \ {Max(s)}] * 10 ^ groups[Max(s)].length + groups[Max(s)].value
      OBVIOUS
    <3>2. m[{}] = 0
      OBVIOUS
    <3> HIDE DEF n, m
    <3>3. CASE s = {}
      BY <2>1, <3>2, <3>3
    <3>4. CASE s = {1}
      <4>1. s \ {Max(s)} = {} /\ groups[Max(s)] = a
        BY <1>1, <3>4, Maxima
      <4> QED
        BY <1>3, <2>1, <3>1, <3>4, <4>1
    <3>5. CASE s = {2}
      <4>1. s \ {Max(s)} = {} /\ groups[Max(s)] = b
        BY <1>1, <3>5, Maxima
      <4> QED
        BY <1>3, <2>1, <3>1, <3>5, <4>1
    <3>6. CASE s = {1, 2}
      <4>1. s \ {Max(s)} = {1} /\ groups[Max(s)] = b
        BY <1>1, <3>6, Maxima
      <4> QED
        BY <2>1, <3>1, <3>6, <4>1
    <3> QED
      BY <1>2, <3>3, <3>4, <3>5, <3>6
  <2>3. n = m
    BY <2>2
  <2> HIDE DEF n
  <2> QED
    BY <1>1, <2>3 DEF IsReading
<1> HIDE DEF n, groups
<1>5. IsReading(N, groups)
  BY <1>4
<1> HIDE DEF N
<1>6. N[{}] = 0
  BY <1>1, <1>5 DEF IsReading
<1>7. ASSUME NEW s \in SUBSET {1, 2}, s # {}
      PROVE  N[s] = N[s \ {Max(s)}] * 10 ^ groups[Max(s)].length + groups[Max(s)].value
  BY <1>1, <1>5, <1>7 DEF IsReading
<1>8. N[{1}] = a.value
  <2>1. {1} \ {Max({1})} = {} /\ groups[Max({1})] = a
    BY <1>1, Maxima
  <2> QED
    BY <1>3, <1>6, <1>7, <2>1
<1>9. N[{1, 2}] = both
  <2>1. {1, 2} \ {Max({1, 2})} = {1} /\ groups[Max({1, 2})] = b
    BY <1>1, Maxima
  <2> QED
    BY <1>7, <1>8, <2>1
<1>10. NumberOf(groups) = N[{1, 2}]
  BY <1>1, NumberIs DEF N
<1> QED
  BY <1>9, <1>10 DEF groups

\* A number has its digits; one below a thousand has at most three.
LEMMA DigitsAre == ASSUME NEW n \in Nat PROVE DigitsOf(n) \in Nat /\ (n < 1000 => DigitsOf(n) <= 3)
<1> DEFINE D == {k \in 0..9 : 10 ^ k <= n \/ k = 0}
<1>1. IsFiniteSet(0..9) /\ IsFiniteSet(0..2) /\ Cardinality(0..2) = 3
  <2>1. 0 \in Int /\ 2 \in Int /\ 9 \in Int
    OBVIOUS
  <2>2. IsFiniteSet(0..9)
    BY <2>1, FS_Interval
  <2>3. IsFiniteSet(0..2)
    BY <2>1, FS_Interval
  <2>4. Cardinality(0..2) = IF 0 > 2 THEN 0 ELSE 2 - 0 + 1
    BY <2>1, FS_Interval
  <2> QED
    BY <2>2, <2>3, <2>4
<1>2. IsFiniteSet(D)
  BY <1>1, FS_Subset
<1>3. Cardinality(D) \in Nat
  BY <1>2, FS_CardinalityType
<1>4. ASSUME n < 1000 PROVE Cardinality(D) <= 3
  <2>1. /\ 10 ^ 3 = 1000 /\ 10 ^ 4 = 10000 /\ 10 ^ 5 = 100000 /\ 10 ^ 6 = 1000000
        /\ 10 ^ 7 = 10000000 /\ 10 ^ 8 = 100000000 /\ 10 ^ 9 = 1000000000
    OBVIOUS
  <2>2. 3 \notin D /\ 4 \notin D /\ 5 \notin D /\ 6 \notin D /\ 7 \notin D /\ 8 \notin D /\ 9 \notin D
    BY <1>4, <2>1
  <2>3. ASSUME NEW k \in D PROVE k \in 0..2
    <3>1. k \in 0..9 /\ k # 3 /\ k # 4 /\ k # 5 /\ k # 6 /\ k # 7 /\ k # 8 /\ k # 9
      BY <2>2
    <3> QED
      BY <3>1
  <2> HIDE DEF D
  <2> QED
    BY <1>1, <2>3, FS_Subset
<1> QED
  BY <1>3, <1>4 DEF DigitsOf

\* The group of digits at the front, and the one that is before the point of a
\* number of more than three digits.
LEMMA GroupsAre ==
  ASSUME NEW whole \in Nat, NEW separator
  PROVE  LET one == Group("none", whole, DigitsOf(whole))
             first == Group("none", whole \div 1000, DigitsOf(whole \div 1000))
             rest == Group(separator, whole % 1000, 3)
         IN /\ NumberOf(<<one>>) = whole
            /\ NumberOf(<<first, rest>>) = whole
            /\ rest.length = 3 /\ rest.separator = separator
            /\ whole < 1000000 => first.length <= 3
<1> DEFINE one == Group("none", whole, DigitsOf(whole))
           first == Group("none", whole \div 1000, DigitsOf(whole \div 1000))
           rest == Group(separator, whole % 1000, 3)
<1>1. /\ whole \div 1000 \in Nat /\ whole % 1000 \in Nat
      /\ (whole \div 1000) * 1000 + (whole % 1000) = whole
      /\ whole < 1000000 => whole \div 1000 < 1000
  OBVIOUS
<1>2. /\ DigitsOf(whole) \in Nat /\ DigitsOf(whole \div 1000) \in Nat
      /\ whole < 1000000 => DigitsOf(whole \div 1000) <= 3
  BY <1>1, DigitsAre
<1>3. /\ one.value = whole /\ one.length = DigitsOf(whole)
      /\ first.value = whole \div 1000 /\ first.length = DigitsOf(whole \div 1000)
      /\ rest.value = whole % 1000 /\ rest.length = 3 /\ rest.separator = separator
  BY DEF Group
<1> HIDE DEF one, first, rest
<1>4. NumberOf(<<one>>) = whole
  BY <1>2, <1>3, NumberOfOne
<1>5. NumberOf(<<first, rest>>) = first.value * 10 ^ rest.length + rest.value
  <2>1. first.value \in Nat /\ first.length \in Nat /\ rest.value \in Nat /\ rest.length \in Nat
    BY <1>1, <1>2, <1>3
  <2> QED
    BY <2>1, NumberOfTwo
<1>6. 10 ^ 3 = 1000
  OBVIOUS
<1>7. NumberOf(<<first, rest>>) = whole
  BY <1>1, <1>3, <1>5, <1>6
<1> QED
  BY <1>2, <1>3, <1>4, <1>7 DEF one, first, rest

NothingReadable(c) == [whole |-> 0, fraction |-> 0, places |-> FractionDigits(c) + 1]

\* An amount that is printed, in whatever style, is read as the amount it is; an
\* amount of yen may be no amount of another currency.
LEMMA ReadsWhatIsWritten ==
  ASSUME NEW minor \in 0..MaxSafeInteger, NEW c \in Currencies, NEW style,
         style = "plain" \/ minor < 1000000 * 10 ^ FractionDigits(c), NEW read \in Currencies
  PROVE  /\ FractionDigits(read) = FractionDigits(c) =>
              NormalizeAmount(Written(minor, c, style), read) = ToDecimal(minor, c)
         /\ c = "JPY" => NormalizeAmount(Written(minor, c, style), read)
                           \in {ToDecimal(minor, c), NothingReadable(read)}
<1> DEFINE whole == minor \div 10 ^ FractionDigits(c)
           one == Group("none", whole, DigitsOf(whole))
           first == Group("none", whole \div 1000, DigitsOf(whole \div 1000))
           mark == IF style = "de" THEN "point" ELSE "comma"
           rest == Group(mark, whole % 1000, 3)
           point == IF style = "de" THEN "comma" ELSE "point"
           cents == Group(point, minor % 100, 2)
           isShort == style = "plain" \/ whole < 1000
           front == IF isShort THEN <<one>> ELSE <<first, rest>>
           groups == Written(minor, c, style)
<1>1. minor \in Nat /\ minor <= MaxSafeInteger
  BY MaxSafeIntegerIsNatural
<1>2. whole \in Nat /\ (style = "plain" \/ whole < 1000000)
  <2>1. CASE c = "JPY"
    BY <1>1, <2>1, Powers DEF FractionDigits
  <2>2. CASE c # "JPY"
    <3>1. whole = minor \div 100 /\ (style = "plain" \/ minor < 1000000 * 100)
      BY <2>2, Powers DEF FractionDigits
    <3> QED
      BY <1>1, <3>1
  <2> QED
    BY <2>1, <2>2
<1>3. groups = IF FractionDigits(c) = 0 THEN front ELSE Append(front, cents)
  BY DEF Written
<1> HIDE DEF whole
<1>4. /\ NumberOf(<<one>>) = whole /\ NumberOf(<<first, rest>>) = whole
      /\ rest.length = 3 /\ rest.separator = mark
      /\ ~isShort => first.length <= 3
  BY <1>2, GroupsAre
<1>5. cents.value = minor % 100 /\ cents.length = 2 /\ cents.separator = point
  BY DEF Group
<1>6. point # mark
  OBVIOUS
<1>7. FractionDigits(read) \in {0, 2} /\ (FractionDigits(read) = 0 <=> read = "JPY")
  BY DEF FractionDigits
<1> HIDE DEF one, first, rest, mark, point, cents, isShort, groups
<1>8. CASE c = "JPY"
  <2>1. FractionDigits(c) = 0 /\ whole = minor /\ ToDecimal(minor, c) = Integer(minor)
    BY <1>1, <1>8, Powers DEF FractionDigits, whole, ToDecimal, Integer
  <2>2. CASE isShort
    <3>1. groups = <<one>> /\ Len(groups) = 1
      BY <1>3, <2>1, <2>2
    <3>2. NormalizeAmount(groups, read) = Integer(minor)
      BY <1>4, <2>1, <3>1 DEF NormalizeAmount
    <3> QED
      BY <2>1, <3>2 DEF groups
  <2>3. CASE ~isShort
    <3>1. groups = <<first, rest>> /\ Len(groups) = 2 /\ groups[1] = first /\ groups[2] = rest
          /\ Last(groups) = rest
      BY <1>3, <2>1, <2>3 DEF Last
    <3>2. IsGrouped(groups)
      BY <1>4, <2>3, <3>1 DEF IsGrouped
    <3>3. Last(groups).length # FractionDigits(read)
      BY <1>4, <1>7, <3>1
    <3>4. \/ NormalizeAmount(groups, read) = Integer(minor)
          \/ FractionDigits(read) # 0 /\ NormalizeAmount(groups, read) = NothingReadable(read)
      BY <1>4, <2>1, <3>1, <3>2, <3>3 DEF NormalizeAmount, NothingReadable
    <3> QED
      BY <2>1, <3>4 DEF groups
  <2> QED
    BY <2>2, <2>3
<1>9. CASE c # "JPY"
  <2>1. /\ FractionDigits(c) = 2 /\ whole = minor \div 100
        /\ ToDecimal(minor, c) = [whole |-> whole, fraction |-> minor % 100, places |-> 2]
    BY <1>9, Powers DEF FractionDigits, whole, ToDecimal
  <2> SUFFICES ASSUME FractionDigits(read) = 2
               PROVE  NormalizeAmount(groups, read) = ToDecimal(minor, c)
    BY <1>9, <2>1 DEF groups
  <2>2. ASSUME NEW integer, integer \in {<<one>>, <<first, rest>>}, groups = Append(integer, cents),
               \A i \in 2..Len(integer) : integer[i].separator = mark
        PROVE  NormalizeAmount(groups, read) = ToDecimal(minor, c)
    <3> DEFINE n == Len(integer) + 1
    <3>1. integer \in Seq({one, first, rest})
      BY <2>2
    <3>2. Len(integer) \in {1, 2} /\ n \in {2, 3} /\ 2..Len(integer) = (2..n) \ {n}
      BY <2>2
    <3>3. Front(groups) = integer
      BY <2>2, <3>1, <3>2 DEF Front
    <3>4. /\ Len(groups) = n /\ groups[n] = cents
          /\ \A i \in 1..Len(integer) : groups[i] = integer[i]
      BY <2>2, <3>1, <3>2
    <3>5. Last(groups) = cents
      BY <3>4 DEF Last
    <3> DEFINE ends == {i \in 2..Len(groups) : groups[i].separator = Last(groups).separator}
    <3>6. ends = {n}
      <4>1. \A i \in 2..Len(integer) : groups[i].separator # cents.separator
        BY <1>5, <1>6, <2>2, <3>2, <3>4
      <4>2. n \in 2..n /\ Len(groups) = n /\ groups[n] = cents /\ Last(groups) = cents
        BY <3>2, <3>4, <3>5
      <4>3. \A i \in (2..n) \ {n} : groups[i].separator # cents.separator
        BY <3>2, <4>1
      <4> HIDE DEF n
      <4> QED
        BY ONLY <4>2, <4>3
    <3>7. EndsWithFraction(groups)
      <4> HIDE DEF ends, n
      <4>1. Cardinality({n}) = 1
        BY ONLY FS_Singleton
      <4>2. Cardinality(ends) = 1
        BY <3>6, <4>1
      <4> QED
        BY <4>2 DEF EndsWithFraction, ends
    <3>8. NormalizeAmount(groups, read) =
            [whole |-> NumberOf(Front(groups)), fraction |-> cents.value, places |-> cents.length]
      <4>1. Len(groups) # 1 /\ Last(groups) = cents
        BY <3>2, <3>4, <3>5
      <4>2. FractionDigits(read) = 2 /\ cents.length = 2
        BY <1>5
      <4> QED
        BY ONLY <3>7, <4>1, <4>2 DEF NormalizeAmount
    <3>9. NumberOf(integer) = whole
      BY <1>4, <2>2
    <3> QED
      BY <1>5, <2>1, <3>3, <3>8, <3>9
  <2>3. front \in {<<one>>, <<first, rest>>} /\ \A i \in 2..Len(front) : front[i].separator = mark
    BY <1>4
  <2> HIDE DEF front
  <2>4. groups = Append(front, cents)
    BY <1>3, <2>1
  <2> QED
    BY <2>2, <2>3, <2>4
<1> QED
  BY <1>8, <1>9

LEMMA WrittenIsSomething == ASSUME NEW minor, NEW c, NEW style PROVE Written(minor, c, style) # <<>>
BY DEF Written

\* What is read of a line that prints an amount: an amount or nothing, in a
\* currency that was not printed only if none was; and, when the sign of the
\* currency is not another one's, what was meant.
LEMMA AmountIsRead ==
  ASSUME NEW p, p.kind = "amount", IsPrinted(p)
  PROVE  LET r == ReadAmount(LineOf(p).amount, "USD") IN
         /\ r = NoReading \/ (r.currency \in Currencies /\ r.minor \in 0..MaxSafeInteger)
         /\ p.named = "none" => r.token = FALSE
         /\ /\ p.named = "symbol" => p.currency \notin {"CAD", "AUD"}
            /\ p.named = "none" => p.currency = "USD"
            => /\ r = [currency |-> p.currency, token |-> p.named # "none", minor |-> p.minor]
               /\ r # NoReading
<1> DEFINE c == p.currency
           groups == Written(p.minor, c, p.style)
           amount == LineOf(p).amount
           tokens == {amount.prefix, amount.suffix, CodeOfSymbol(amount.symbol, "USD")} \ {"none"}
           read == IF p.named = "none" \/ (p.named = "symbol" /\ c \in {"CAD", "AUD"})
                   THEN "USD" ELSE c
           decimal == NormalizeAmount(groups, read)
           minor == ToMinorUnits(decimal, read)
           r == ReadAmount(amount, "USD")
<1>1. /\ c \in Currencies /\ p.minor \in 0..MaxSafeInteger
      /\ p.named \in {"none", "prefix", "symbol", "suffix"}
      /\ p.style = "plain" \/ p.minor < 1000000 * 10 ^ FractionDigits(c)
  BY DEF IsPrinted
<1>2. amount = [prefix |-> IF p.named = "prefix" THEN c ELSE "none",
                symbol |-> IF p.named = "symbol" THEN SymbolOf(c) ELSE "none",
                groups |-> groups,
                suffix |-> IF p.named = "suffix" THEN c ELSE "none"]
  BY DEF LineOf, BlankLine
<1>3. amount # NoAmount
  BY <1>2, WrittenIsSomething DEF NoAmount
<1>4. tokens = IF p.named = "none" THEN {} ELSE {read}
  <2>1. CodeOfSymbol("none", "USD") = "none"
    BY DEF CodeOfSymbol
  <2>2. ASSUME p.named = "symbol" PROVE CodeOfSymbol(SymbolOf(c), "USD") = read /\ read # "none"
    BY <1>1, <2>2 DEF CodeOfSymbol, SymbolOf, Currencies
  <2>3. c # "none"
    BY <1>1 DEF Currencies
  <2> HIDE DEF amount, groups
  <2> QED
    BY <1>1, <1>2, <2>1, <2>2, <2>3
<1>5. read \in Currencies
  BY <1>1 DEF Currencies
<1> HIDE DEF c, groups, amount, read
<1>6. amount.groups = groups
  BY <1>2
<1>7. Cardinality(tokens) <= 1
  <2> HIDE DEF tokens
  <2>1. Cardinality({}) = 0 /\ Cardinality({read}) = 1
    BY ONLY FS_EmptySet, FS_Singleton
  <2> QED
    BY <1>4, <2>1
<1>8. r = IF minor = NotAnAmount THEN NoReading
          ELSE [currency |-> read, token |-> p.named # "none", minor |-> minor]
  <2> DEFINE currency == IF tokens = {} THEN "USD" ELSE CHOOSE x \in tokens : TRUE
             asRead == ToMinorUnits(NormalizeAmount(amount.groups, currency), currency)
  <2>1. currency = read /\ (tokens # {} <=> p.named # "none")
    <3>1. CASE p.named = "none"
      <4>1. read = "USD"
        BY <3>1 DEF read
      <4> HIDE DEF tokens
      <4> QED
        BY <1>4, <3>1, <4>1
    <3>2. CASE p.named # "none"
      <4>1. tokens = {read}
        BY <1>4, <3>2
      <4> HIDE DEF tokens
      <4> QED
        BY <3>2, <4>1
    <3> QED
      BY <3>1, <3>2
  <2>2. r = IF amount = NoAmount \/ Cardinality(tokens) > 1 THEN NoReading
            ELSE IF asRead = NotAnAmount THEN NoReading
            ELSE [currency |-> currency, token |-> tokens # {}, minor |-> asRead]
    BY DEF ReadAmount
  <2>3. ~(Cardinality(tokens) > 1)
    <3> HIDE DEF tokens
    <3>1. Cardinality(tokens) \in {0, 1}
      <4>1. Cardinality({}) = 0 /\ Cardinality({read}) = 1
        BY ONLY FS_EmptySet, FS_Singleton
      <4> QED
        BY <1>4, <4>1
    <3> QED
      BY <3>1
  <2> HIDE DEF tokens, currency, r
  <2>4. asRead = minor
    BY <1>6, <2>1
  <2> HIDE DEF asRead, minor
  <2> QED
    BY <1>3, <2>1, <2>2, <2>3, <2>4
<1>9. /\ FractionDigits(read) = FractionDigits(c) => decimal = ToDecimal(p.minor, c)
      /\ c = "JPY" => decimal \in {ToDecimal(p.minor, c), NothingReadable(read)}
  BY <1>1, <1>5, ReadsWhatIsWritten DEF groups
<1> HIDE DEF decimal
<1>10. ASSUME FractionDigits(read) = FractionDigits(c) PROVE minor = p.minor
  <2>1. minor = ToMinorUnits(ToDecimal(p.minor, c), c)
    BY <1>9, <1>10 DEF ToMinorUnits
  <2> QED
    BY <1>1, <2>1, AmountRoundTrip
<1>11. p.minor # NotAnAmount
  BY <1>1, MaxSafeIntegerIsNatural DEF NotAnAmount
<1>12. minor = NotAnAmount \/ minor \in 0..MaxSafeInteger
  <2>1. CASE FractionDigits(read) = FractionDigits(c)
    BY <1>1, <1>10, <2>1
  <2>2. CASE FractionDigits(read) # FractionDigits(c)
    <3>1. c = "JPY"
      BY <1>5, <2>2 DEF FractionDigits, read
    <3>2. p.minor \in Nat /\ FractionDigits(read) \in Nat
      BY <1>1, MaxSafeIntegerIsNatural DEF FractionDigits
    <3>3. ToDecimal(p.minor, c) = [whole |-> p.minor, fraction |-> 0, places |-> 0]
      BY <3>1, <3>2, Powers DEF ToDecimal, FractionDigits
    <3>4. decimal \in DecimalNumber
      BY <1>9, <3>1, <3>2, <3>3 DEF NothingReadable, DecimalNumber
    <3> QED
      BY <1>5, <3>4, EnteredAmount
  <2> QED
    BY <2>1, <2>2
<1>13. r = NoReading \/ (r.currency \in Currencies /\ r.minor \in 0..MaxSafeInteger)
  <2> HIDE DEF minor, r
  <2> QED
    BY <1>5, <1>8, <1>12
<1>14. p.named = "none" => r.token = FALSE
  <2> HIDE DEF minor, r
  <2> QED
    BY <1>8 DEF NoReading
<1>15. ASSUME p.named = "symbol" => c \notin {"CAD", "AUD"}, p.named = "none" => c = "USD"
       PROVE  /\ r = [currency |-> c, token |-> p.named # "none", minor |-> p.minor]
              /\ r # NoReading
  <2>1. read = c
    BY <1>15 DEF read
  <2>2. minor = p.minor
    BY <1>10, <2>1
  <2>3. c # "none"
    BY <1>1 DEF Currencies
  <2> HIDE DEF minor, r
  <2>4. r = [currency |-> c, token |-> p.named # "none", minor |-> p.minor]
    BY <1>8, <1>11, <2>1, <2>2
  <2>5. r.currency = c
    BY <2>4
  <2> QED
    BY <2>3, <2>4, <2>5 DEF NoReading
<1> QED
  BY <1>13, <1>14, <1>15 DEF c, amount, r

\* One of some lines is the last one.
LEMMA SomeLineIsLast ==
  ASSUME NEW n \in Nat, NEW S \in SUBSET (1..n), S # {}
  PROVE  Latest(S) # {}
<1> DEFINE Good == {T \in SUBSET (1..n) : T = {} \/ \E i \in T : \A j \in T : j <= i}
<1>1. IsFiniteSet(1..n)
  BY FS_Interval
<1>2. IsFiniteSet(S)
  BY <1>1, FS_Subset
<1>3. ASSUME NEW T \in SUBSET S, \A U \in SUBSET T : U # T => U \in Good PROVE T \in Good
  <2>1. ASSUME T # {} PROVE \E i \in T : \A j \in T : j <= i
    <3>1. PICK x \in T : TRUE
      BY <2>1
    <3> DEFINE U == T \ {x}
    <3>2. U \in Good
      BY <1>3
    <3>3. CASE U = {}
      <4>1. T = {x}
        BY <3>3
      <4>2. x \in Int
        OBVIOUS
      <4>3. x <= x
        BY <4>2
      <4> QED
        BY <4>1, <4>3
    <3>4. CASE U # {}
      <4>1. PICK m \in U : \A j \in U : j <= m
        BY <3>2, <3>4
      <4>2. x \in Int /\ m \in Int /\ T \subseteq Int
        OBVIOUS
      <4>3. CASE x <= m
        BY <4>1, <4>3
      <4>4. CASE m <= x
        <5>1. \A j \in T : j <= x
          BY <4>1, <4>2, <4>4
        <5> QED
          BY <5>1
      <4> QED
        BY <4>2, <4>3, <4>4
    <3> QED
      BY <3>3, <3>4
  <2> QED
    BY <2>1
<1>4. S \in Good
  <2> HIDE DEF Good
  <2> QED
    BY <1>2, <1>3, SubsetInduction
<1> QED
  BY <1>4 DEF Latest

\* The text of a receipt of one page is its lines.
LinesOf(b) == [i \in DOMAIN b.prints |-> LineOf(b.prints[i])]

LEMMA LinesAre == ASSUME NEW b PROVE SourceLines(Pages(b.prints)) = LinesOf(b)
<1> DEFINE only == [number |-> 1, lines |-> LinesOf(b)]
           pages == <<only>>
           place(i) == Cardinality({j \in DOMAIN pages :
             \/ pages[j].number < pages[i].number
             \/ pages[j].number = pages[i].number /\ j <= i})
           texts == [n \in DOMAIN pages |-> Sorted(pages)[n].lines]
<1>1. Pages(b.prints) = pages
  BY DEF Pages, LinesOf
<1>2. DOMAIN pages = {1} /\ pages[1] = only
  OBVIOUS
<1>3. place(1) = 1
  <2> DEFINE before == {j \in DOMAIN pages :
               \/ pages[j].number < pages[1].number
               \/ pages[j].number = pages[1].number /\ j <= 1}
  <2>1. before = {1}
    BY <1>2
  <2>2. Cardinality({1}) = 1
    BY ONLY FS_Singleton
  <2> HIDE DEF before
  <2>3. Cardinality(before) = 1
    BY <2>1, <2>2
  <2> QED
    BY <2>3 DEF before
<1> HIDE DEF pages
<1>4. Sorted(pages) = [n \in DOMAIN pages |-> pages[CHOOSE i \in DOMAIN pages : place(i) = n]]
  BY DEF Sorted
<1> HIDE DEF place
<1>5. Sorted(pages)[1] = only
  <2>1. (CHOOSE i \in {1} : place(i) = 1) = 1
    BY <1>3
  <2>2. Sorted(pages)[1] = pages[CHOOSE i \in {1} : place(i) = 1]
    BY <1>2, <1>4
  <2> QED
    BY ONLY <1>2, <2>1, <2>2
<1>6. texts = <<LinesOf(b)>>
  <2>1. texts = [n \in {1} |-> LinesOf(b)]
    BY <1>2, <1>5
  <2> HIDE DEF texts
  <2> QED
    BY <2>1
<1>7. SourceLines(pages) = FlattenSeq(texts)
  BY DEF SourceLines
<1>8. FlattenSeq(<<LinesOf(b)>>) = LinesOf(b)
  BY DEF FlattenSeq
<1> HIDE DEF texts
<1> QED
  BY <1>1, <1>6, <1>7, <1>8

\* What is found has its candidates.
LEMMA CandidatesAre ==
  ASSUME NEW pages, NEW order, NEW default
  PROVE  LET found == Candidates(pages, order, default)
             lines == SourceLines(pages)
         IN /\ DOMAIN found \subseteq EvidenceFields \ {"discount"}
            /\ \A f \in AmountFields :
                 /\ f \in DOMAIN found <=> AmountCandidates(lines, f, default) # {}
                 /\ f \in DOMAIN found => found[f] \in AmountCandidates(lines, f, default)
            /\ "currency" \in DOMAIN found <=> CurrencyCandidates(lines, default) # {}
            /\ "currency" \in DOMAIN found =>
                 found["currency"] \in CurrencyCandidates(lines, default)
<1> DEFINE lines == SourceLines(pages)
           of(f) == CASE f \in AmountFields -> AmountCandidates(lines, f, default)
                      [] f = "currency" -> CurrencyCandidates(lines, default)
                      [] f = "date" -> DateCandidates(lines, order)
                      [] f = "merchant" -> MerchantCandidates(FirstPage(pages))
                      [] OTHER -> {}
           found == Candidates(pages, order, default)
<1>1. found = [f \in {g \in EvidenceFields : of(g) # {}} |-> CHOOSE v \in of(f) : TRUE]
  BY DEF Candidates
<1>2. ASSUME NEW f \in AmountFields PROVE of(f) = AmountCandidates(lines, f, default)
  <2> HIDE DEF lines
  <2> QED
    BY DEF AmountFields
<1>3. of("currency") = CurrencyCandidates(lines, default) /\ of("discount") = {}
  BY DEF AmountFields
<1>4. AmountFields \subseteq EvidenceFields /\ "currency" \in EvidenceFields
  BY DEF EvidenceFields
<1> HIDE DEF of, found, lines
<1>5. DOMAIN found = {g \in EvidenceFields : of(g) # {}}
  BY <1>1
<1>6. \A f \in DOMAIN found : found[f] \in of(f)
  BY <1>1
<1> QED
  BY <1>2, <1>3, <1>4, <1>5, <1>6 DEF found, lines
\* What is found in a receipt, and what is read of one of its lines.
Found(b) == Candidates(Pages(b.prints), b.order, "USD")
ReadAt(b, i) == ReadAmount(LineOf(b.prints[i]).amount, "USD")

\* Only of an amount that is printed is an amount read, and its line says what
\* it is.
LEMMA LinesAreRead ==
  ASSUME NEW b \in Papers, NEW i \in DOMAIN b.prints
  PROVE  /\ b.prints[i].kind = "amount" =>
              /\ IsPrinted(b.prints[i])
              /\ ClassifyAmountField(LineOf(b.prints[i])) = b.prints[i].field
         /\ ReadAt(b, i) # NoReading =>
              /\ b.prints[i].kind = "amount"
              /\ ReadAt(b, i).currency \in Currencies
              /\ ReadAt(b, i).minor \in 0..MaxSafeInteger
<1> DEFINE p == b.prints[i]
           r == ReadAt(b, i)
<1>1. p.kind = "amount" => IsPrinted(p)
  BY PapersArePrinted
<1>2. r = ReadAmount(LineOf(p).amount, "USD")
  BY DEF ReadAt
<1> HIDE DEF p, r
<1>3. ASSUME p.kind = "amount" PROVE ClassifyAmountField(LineOf(p)) = p.field
  <2> DEFINE line == [BlankLine EXCEPT !.words = p.words]
  <2>1. LineOf(p).words = p.words /\ line.words = p.words
    BY <1>3 DEF LineOf, BlankLine
  <2>2. p.field = ClassifyAmountField(line)
    BY <1>1, <1>3 DEF IsPrinted
  <2> HIDE DEF line
  <2> QED
    BY <2>1, <2>2 DEF ClassifyAmountField
<1>4. ASSUME p.kind # "amount" PROVE r = NoReading
  <2>1. LineOf(p).amount = NoAmount
    BY <1>4 DEF LineOf, BlankLine
  <2> QED
    BY <1>2, <2>1 DEF ReadAmount
<1>5. ASSUME p.kind = "amount", r # NoReading
      PROVE  r.currency \in Currencies /\ r.minor \in 0..MaxSafeInteger
  BY <1>1, <1>2, <1>5, AmountIsRead
<1> QED
  BY <1>1, <1>3, <1>4, <1>5 DEF p, r

\* The lines of a receipt that are read as one of some fields.
LEMMA ReadingsAre ==
  ASSUME NEW b \in Papers, NEW fields
  PROVE  /\ DOMAIN LinesOf(b) = DOMAIN b.prints
         /\ \A i \in DOMAIN b.prints : ReadAmount(LinesOf(b)[i].amount, "USD") = ReadAt(b, i)
         /\ ReadingsOf(LinesOf(b), fields, "USD") =
              {i \in DOMAIN b.prints : /\ b.prints[i].kind = "amount"
                                       /\ b.prints[i].field \in fields
                                       /\ ReadAt(b, i) # NoReading}
<1>1. DOMAIN LinesOf(b) = DOMAIN b.prints
      /\ \A i \in DOMAIN b.prints : LinesOf(b)[i] = LineOf(b.prints[i])
  BY DEF LinesOf
<1>2. \A i \in DOMAIN b.prints : ReadAmount(LinesOf(b)[i].amount, "USD") = ReadAt(b, i)
  BY <1>1 DEF ReadAt
<1>3. ReadingsOf(LinesOf(b), fields, "USD") =
        {i \in DOMAIN b.prints : /\ ClassifyAmountField(LineOf(b.prints[i])) \in fields
                                 /\ ReadAt(b, i) # NoReading}
  BY <1>1, <1>2 DEF ReadingsOf
<1>4. \A i \in DOMAIN b.prints :
        (/\ ClassifyAmountField(LineOf(b.prints[i])) \in fields /\ ReadAt(b, i) # NoReading)
        <=> (/\ b.prints[i].kind = "amount" /\ b.prints[i].field \in fields
             /\ ReadAt(b, i) # NoReading)
  BY LinesAreRead
<1> QED
  BY <1>1, <1>2, <1>3, <1>4

\* What is found are amounts and a currency.
IsFound(found) ==
  /\ DOMAIN found \subseteq EvidenceFields
  /\ \A f \in Amounts \cap DOMAIN found : found[f] \in 0..MaxSafeInteger
  /\ "currency" \in DOMAIN found => found["currency"] \in Currencies

LEMMA FoundType == ASSUME NEW b \in Papers PROVE IsFound(Found(b))
<1> DEFINE found == Found(b)
           lines == LinesOf(b)
           pages == Pages(b.prints)
<1>1. SourceLines(pages) = lines
  BY LinesAre
<1>2. /\ DOMAIN found \subseteq EvidenceFields \ {"discount"}
      /\ \A f \in AmountFields \cap DOMAIN found : found[f] \in AmountCandidates(lines, f, "USD")
      /\ "currency" \in DOMAIN found => found["currency"] \in CurrencyCandidates(lines, "USD")
  BY <1>1, CandidatesAre DEF Found
<1> HIDE DEF found, lines, pages
<1>3. ASSUME NEW f, NEW v \in AmountCandidates(lines, f, "USD") PROVE v \in 0..MaxSafeInteger
  <2> DEFINE readings == ReadingsOf(lines, {f}, "USD")
  <2>1. PICK i \in Latest(readings) : v = ReadAmount(lines[i].amount, "USD").minor
    BY DEF AmountCandidates
  <2>2. i \in readings
    BY <2>1 DEF Latest
  <2>3. i \in DOMAIN b.prints /\ ReadAt(b, i) # NoReading
        /\ ReadAmount(lines[i].amount, "USD") = ReadAt(b, i)
    BY <2>2, ReadingsAre DEF lines
  <2> QED
    BY <2>1, <2>3, LinesAreRead
<1>4. ASSUME NEW v \in CurrencyCandidates(lines, "USD") PROVE v \in Currencies
  <2>1. PICK i \in DOMAIN lines : /\ ReadAmount(lines[i].amount, "USD").token
                                  /\ v = ReadAmount(lines[i].amount, "USD").currency
    BY DEF CurrencyCandidates, Latest, Earliest, ReadingsOf
  <2>2. i \in DOMAIN b.prints /\ ReadAmount(lines[i].amount, "USD") = ReadAt(b, i)
    BY <2>1, ReadingsAre DEF lines
  <2>3. ReadAt(b, i) # NoReading
    BY <2>1, <2>2 DEF NoReading
  <2> QED
    BY <2>1, <2>2, <2>3, LinesAreRead
<1>5. \A f \in Amounts \cap DOMAIN found : f \in AmountFields \cap DOMAIN found
  BY <1>2 DEF Amounts
<1> QED
  BY <1>2, <1>3, <1>4, <1>5 DEF IsFound, found
\* The last line of a field, if it can be read, is found.
LEMMA LastIsFound ==
  ASSUME NEW b \in Papers, NEW i \in DOMAIN b.prints,
         b.prints[i].kind = "amount", b.prints[i].field \in AmountFields,
         \A j \in DOMAIN b.prints :
           b.prints[j].kind = "amount" /\ b.prints[j].field = b.prints[i].field => j <= i,
         ReadAt(b, i) # NoReading
  PROVE  /\ b.prints[i].field \in DOMAIN Found(b)
         /\ Found(b)[b.prints[i].field] = ReadAt(b, i).minor
<1> DEFINE f == b.prints[i].field
           lines == LinesOf(b)
           readings == ReadingsOf(lines, {f}, "USD")
           candidates == AmountCandidates(lines, f, "USD")
<1>1. readings = {j \in DOMAIN b.prints : /\ b.prints[j].kind = "amount"
                                          /\ b.prints[j].field \in {f}
                                          /\ ReadAt(b, j) # NoReading}
  BY ReadingsAre
<1>2. DOMAIN b.prints \subseteq Int
  BY PapersArePrinted
<1>3. i \in readings /\ \A j \in readings : j <= i
  BY <1>1
<1>4. readings \subseteq Int
  BY <1>1, <1>2
<1> HIDE DEF readings
<1>5. Latest(readings) = {i}
  <2>1. i \in Latest(readings)
    BY <1>3 DEF Latest
  <2>2. ASSUME NEW k \in Latest(readings) PROVE k = i
    BY <1>3, <1>4 DEF Latest
  <2> QED
    BY <2>1, <2>2
<1>6. candidates = {ReadAt(b, i).minor}
  <2>1. candidates = {ReadAmount(lines[k].amount, "USD").minor : k \in {i}}
    BY <1>5 DEF AmountCandidates, readings
  <2>2. ReadAmount(lines[i].amount, "USD") = ReadAt(b, i)
    BY ReadingsAre
  <2> HIDE DEF candidates, lines
  <2> QED
    BY <2>1, <2>2
<1>7. SourceLines(Pages(b.prints)) = lines
  BY LinesAre
<1>8. /\ f \in DOMAIN Found(b) <=> candidates # {}
      /\ f \in DOMAIN Found(b) => Found(b)[f] \in candidates
  <2> HIDE DEF lines
  <2> QED
    BY <1>7, CandidatesAre DEF Found
<1> HIDE DEF candidates, lines
<1> QED
  BY <1>6, <1>8

\* A currency that all lines name is found.
LEMMA CurrencyIsFound ==
  ASSUME NEW b \in Papers, NEW c, NEW i \in DOMAIN b.prints,
         b.prints[i].kind = "amount", b.prints[i].field \in AmountFields,
         \A j \in DOMAIN b.prints :
           b.prints[j].kind = "amount" /\ b.prints[j].field \in AmountFields
           => ReadAt(b, j).token /\ ReadAt(b, j).currency = c /\ ReadAt(b, j) # NoReading
  PROVE  "currency" \in DOMAIN Found(b) /\ Found(b)["currency"] = c
<1> DEFINE lines == LinesOf(b)
           reading(j) == ReadAmount(lines[j].amount, "USD")
           naming(fields) == {j \in ReadingsOf(lines, fields, "USD") : reading(j).token}
           fallback == {j \in DOMAIN lines : reading(j) = NoReading \/ reading(j).token}
           lastTotal == Latest(naming({"total"}))
           lastAmount == Latest(naming(AmountFields))
           candidates == CurrencyCandidates(lines, "USD")
<1>1. DOMAIN b.prints = 1..Len(b.prints) /\ Len(b.prints) \in Nat
  BY PapersArePrinted
<1>2. \A j \in DOMAIN b.prints : reading(j) = ReadAt(b, j)
  BY ReadingsAre
<1>3. ASSUME NEW fields \in SUBSET AmountFields
      PROVE  /\ naming(fields) \subseteq DOMAIN b.prints
             /\ \A j \in naming(fields) : reading(j).currency = c
             /\ b.prints[i].field \in fields => i \in naming(fields)
  <2>1. ReadingsOf(lines, fields, "USD") =
              {j \in DOMAIN b.prints : /\ b.prints[j].kind = "amount"
                                       /\ b.prints[j].field \in fields
                                       /\ ReadAt(b, j) # NoReading}
    BY ReadingsAre
  <2> HIDE DEF lines
  <2> QED
    BY <1>2, <2>1
<1>4. AmountFields \in SUBSET AmountFields /\ {"total"} \in SUBSET AmountFields
  BY DEF AmountFields
<1>5. candidates =
        {reading(j).currency :
           j \in IF naming({"total"}) # {} THEN lastTotal
                 ELSE IF naming(AmountFields) # {} THEN lastAmount
                 ELSE {k \in Earliest(fallback) : reading(k).token}}
  BY DEF CurrencyCandidates
<1>6. i \in naming(AmountFields)
  BY <1>3, <1>4
<1> HIDE DEF lines, reading, naming, fallback, candidates
<1>7. \E last : /\ last \in {lastTotal, lastAmount} /\ last # {}
                /\ candidates = {reading(j).currency : j \in last}
                /\ \A j \in last : reading(j).currency = c
  <2>1. CASE naming({"total"}) # {}
    <3>1. lastTotal # {}
      BY <1>1, <1>3, <1>4, <2>1, SomeLineIsLast
    <3>2. lastTotal \subseteq naming({"total"})
      BY DEF Latest
    <3> QED
      BY <1>3, <1>4, <1>5, <2>1, <3>1, <3>2
  <2>2. CASE naming({"total"}) = {}
    <3>1. lastAmount # {}
      BY <1>1, <1>3, <1>4, <1>6, SomeLineIsLast
    <3>2. lastAmount \subseteq naming(AmountFields)
      BY DEF Latest
    <3> QED
      BY <1>3, <1>4, <1>5, <1>6, <2>2, <3>1, <3>2
  <2> QED
    BY <2>1, <2>2
<1>8. candidates = {c}
  BY <1>7
<1>9. SourceLines(Pages(b.prints)) = lines
  BY LinesAre DEF lines
<1>10. /\ "currency" \in DOMAIN Found(b) <=> candidates # {}
       /\ "currency" \in DOMAIN Found(b) => Found(b)["currency"] \in candidates
  BY <1>9, CandidatesAre DEF Found, candidates
<1> QED
  BY <1>8, <1>10

\* A currency that no line names is not found.
LEMMA NoCurrencyIsFound ==
  ASSUME NEW b \in Papers,
         \A j \in DOMAIN b.prints : b.prints[j].kind = "amount" => b.prints[j].named = "none"
  PROVE  "currency" \notin DOMAIN Found(b)
<1> DEFINE lines == LinesOf(b)
<1>1. ASSUME NEW j \in DOMAIN lines PROVE ReadAmount(lines[j].amount, "USD").token = FALSE
  <2>1. j \in DOMAIN b.prints /\ ReadAmount(lines[j].amount, "USD") = ReadAt(b, j)
    BY ReadingsAre
  <2>2. CASE ReadAt(b, j) = NoReading
    BY <2>1, <2>2 DEF NoReading
  <2>3. CASE ReadAt(b, j) # NoReading
    <3>1. b.prints[j].kind = "amount" /\ IsPrinted(b.prints[j]) /\ b.prints[j].named = "none"
      BY <2>1, <2>3, LinesAreRead
    <3>2. ReadAt(b, j).token = FALSE
      BY <3>1, AmountIsRead DEF ReadAt
    <3> QED
      BY <2>1, <3>2
  <2> QED
    BY <2>2, <2>3
<1> HIDE DEF lines
<1>2. CurrencyCandidates(lines, "USD") = {}
  BY <1>1 DEF CurrencyCandidates, Latest, Earliest, ReadingsOf
<1>3. SourceLines(Pages(b.prints)) = lines
  BY LinesAre DEF lines
<1> QED
  BY <1>2, <1>3, CandidatesAre DEF Found
-----------------------------------------------------------------------------
(* The form between the text and the row. *)

IsRow(value) ==
  (\A f \in Amounts : value[f] \in 0..MaxSafeInteger) /\ value["currency"] \in Currencies

\* What the form is filled with.
Proposed(f) == IF f \in DOMAIN form.suggested THEN form.suggested[f] ELSE form.base[f]

\* A form that is open: what was found in the paper, or nothing, over a row, and
\* in what the user has not touched still what was found.
IsFilled ==
  /\ IsRow(form.base)
  /\ form.suggested \in {<<>>, Found(paper)}
  /\ form.currency \in Currencies
  /\ form.text \in [Amounts -> DecimalNumber]
  /\ "currency" \notin form.touched => form.currency = Proposed("currency")
  /\ \A f \in Amounts \cap DOMAIN form.suggested :
       f \notin form.touched => form.text[f] = ToDecimal(form.suggested[f], Proposed("currency"))

TextInv ==
  /\ paper \in Papers
  /\ isRead \in BOOLEAN
  /\ answer \in {"none", "saved", "stale", "refused"}
  /\ suggestions \in {<<>>, Found(paper)}
  /\ IsRow(expense.value) /\ IsRealDate(expense.value["date"])
  /\ form.open => IsFilled

\* The suggestions are what is found.
LEMMA SuggestionsAreFound ==
  ASSUME NEW b \in Papers, NEW found \in {<<>>, Found(b)} PROVE IsFound(found)
<1>1. IsFound(<<>>)
  BY DEF IsFound
<1> QED
  BY <1>1, FoundType

\* A decimal that is written out is one.
LEMMA DecimalIs ==
  ASSUME NEW n \in 0..MaxSafeInteger, NEW c \in Currencies PROVE ToDecimal(n, c) \in DecimalNumber
<1>1. n \in Nat
  BY MaxSafeIntegerIsNatural
<1>2. CASE c = "JPY"
  BY <1>1, <1>2, Powers DEF ToDecimal, FractionDigits, DecimalNumber
<1>3. CASE c # "JPY"
  BY <1>1, <1>3, Powers DEF ToDecimal, FractionDigits, DecimalNumber
<1> QED
  BY <1>2, <1>3

LEMMA TextInitInv == FormInit => TextInv
<1> SUFFICES ASSUME FormInit PROVE TextInv
  OBVIOUS
<1>1. ASSUME NEW f \in Amounts PROVE Pending[f] = 0
  <2>1. f \in EvidenceFields /\ f # "currency" /\ f # "date"
    BY DEF EvidenceFields, Amounts, AmountFields
  <2> QED
    BY <2>1 DEF Pending
<1>2. Pending["currency"] = "USD" /\ Pending["date"] = [year |-> 2025, month |-> 7, day |-> 1]
  BY DEF Pending, EvidenceFields, Amounts, AmountFields
<1>3. IsRow(Pending)
  BY <1>1, <1>2, MaxSafeIntegerIsNatural DEF IsRow, Currencies
<1>4. IsRealDate(Pending["date"])
  BY <1>2 DEF IsRealDate, DaysIn
<1> QED
  BY <1>3, <1>4 DEF FormInit, TextInv, NoForm

\* The form that is opened is filled.
LEMMA OpensFilled == ASSUME FormInv, TextInv, OpenForm PROVE TextInv'
<1> DEFINE base == Joined(expense)
           value(f) == IF f \in DOMAIN suggestions THEN suggestions[f] ELSE base[f]
           text == [f \in Amounts |->
                      ToDecimal(value(f), IF f \in DOMAIN suggestions THEN value("currency")
                                          ELSE base["currency"])]
<1>1. /\ form' = FilledForm(base, suggestions) /\ answer' = "none"
      /\ UNCHANGED <<paper, expense, display, suggestions, isRead>>
  BY DEF OpenForm
<1>2. /\ form'.base = base /\ form'.suggested = suggestions /\ form'.text = text
      /\ form'.currency = value("currency") /\ form'.touched = {}
  BY <1>1 DEF FilledForm
<1>3. IsRow(base)
  <2>1. \A f \in EvidenceFields \ {"merchant"} : base[f] = expense.value[f]
    BY DEF Joined, FormInv
  <2>2. Amounts \subseteq EvidenceFields \ {"merchant"} /\ "currency" \in EvidenceFields \ {"merchant"}
    BY DEF Amounts, EvidenceFields, AmountFields
  <2> HIDE DEF base
  <2> QED
    BY <2>1, <2>2 DEF TextInv, IsRow
<1>4. IsFound(suggestions)
  BY SuggestionsAreFound DEF TextInv
<1> HIDE DEF base
<1>5. value("currency") \in Currencies /\ base["currency"] \in Currencies
  BY <1>3, <1>4 DEF IsRow, IsFound
<1>6. \A f \in Amounts : value(f) \in 0..MaxSafeInteger
  BY <1>3, <1>4 DEF IsRow, IsFound
<1>7. text \in [Amounts -> DecimalNumber]
  <2> HIDE DEF value
  <2> QED
    BY <1>5, <1>6, DecimalIs
<1>8. \A f \in Amounts \cap DOMAIN suggestions : text[f] = ToDecimal(suggestions[f], value("currency"))
  OBVIOUS
<1>9. Proposed("currency")' = value("currency")
  BY <1>2 DEF Proposed
<1> HIDE DEF text, value
<1> QED
  BY <1>1, <1>2, <1>3, <1>5, <1>7, <1>8, <1>9 DEF TextInv, IsFilled

\* What the user types is touched, and nothing else changes.
Retypes(f, text, currency) ==
  /\ UNCHANGED <<paper, expense, suggestions, isRead>>
  /\ answer' = "none" /\ form.open
  /\ form'.base = form.base /\ form'.suggested = form.suggested
  /\ form'.currency = currency /\ form'.text = text
  /\ form'.touched = form.touched \cup {f}

LEMMA AmountRetyped ==
  ASSUME FormHasSeen, NEW f, NEW decimal, TypeAmount(f, decimal)
  PROVE  Retypes(f, [form.text EXCEPT ![f] = decimal], form.currency)
BY DEF TypeAmount, Touches, FormHasSeen, Retypes

LEMMA MerchantRetyped ==
  ASSUME FormHasSeen, NEW n, TypeMerchant(n) PROVE Retypes("merchant", form.text, form.currency)
BY DEF TypeMerchant, Touches, FormHasSeen, Retypes

LEMMA CurrencySelected ==
  ASSUME FormHasSeen, NEW c, SelectCurrency(c) PROVE Retypes("currency", form.text, c)
BY DEF SelectCurrency, Touches, FormHasSeen, Retypes

LEMMA RetypedIsFilled ==
  ASSUME TextInv, NEW f, NEW text \in [Amounts -> DecimalNumber], NEW currency \in Currencies,
         Retypes(f, text, currency),
         f = "currency" \/ currency = form.currency,
         \A g \in Amounts \ {f} : text[g] = form.text[g]
  PROVE  TextInv'
<1>1. IsFilled
  BY DEF TextInv, Retypes
<1>2. Proposed("currency")' = Proposed("currency")
  BY DEF Retypes, Proposed
<1>3. form'.currency = currency /\ form'.text = text /\ form'.touched = form.touched \cup {f}
      /\ form'.base = form.base /\ form'.suggested = form.suggested /\ paper' = paper
  BY DEF Retypes
<1>4. "currency" \notin form'.touched => form'.currency = Proposed("currency")
  BY <1>1, <1>3 DEF IsFilled
<1>5. ASSUME NEW g \in Amounts \cap DOMAIN form.suggested, g \notin form'.touched
      PROVE  form'.text[g] = ToDecimal(form.suggested[g], Proposed("currency"))
  BY <1>1, <1>3, <1>5 DEF IsFilled
<1>6. IsFilled'
  BY <1>1, <1>2, <1>3, <1>4, <1>5 DEF IsFilled
<1> QED
  BY <1>6 DEF TextInv, Retypes

LEMMA TypingTouches ==
  ASSUME FormInv, TextInv, form.open,
         \/ \E f \in Amounts, decimal \in Typed : TypeAmount(f, decimal)
         \/ \E n \in MerchantNames : TypeMerchant(n)
         \/ \E c \in Selected : SelectCurrency(c)
  PROVE  TextInv'
<1>1. FormHasSeen /\ IsFilled
  BY DEF FormInv, NoForm, TextInv
<1>2. form.text \in [Amounts -> DecimalNumber] /\ form.currency \in Currencies
  BY <1>1 DEF IsFilled
<1>3. ASSUME NEW f \in Amounts, NEW decimal \in Typed, TypeAmount(f, decimal) PROVE TextInv'
  <2>1. Retypes(f, [form.text EXCEPT ![f] = decimal], form.currency)
    BY <1>1, <1>3, AmountRetyped
  <2>2. decimal \in DecimalNumber
    BY TypedAreDecimals DEF DecimalNumber
  <2>3. /\ [form.text EXCEPT ![f] = decimal] \in [Amounts -> DecimalNumber]
        /\ \A g \in Amounts \ {f} : [form.text EXCEPT ![f] = decimal][g] = form.text[g]
    BY <1>2, <2>2
  <2> QED
    BY <1>2, <2>1, <2>3, RetypedIsFilled
<1>4. ASSUME NEW n \in MerchantNames, TypeMerchant(n) PROVE TextInv'
  BY <1>1, <1>2, <1>4, MerchantRetyped, RetypedIsFilled
<1>5. ASSUME NEW c \in Selected, SelectCurrency(c) PROVE TextInv'
  BY <1>1, <1>2, <1>5, CurrencySelected, RetypedIsFilled, SelectedAreSupported
<1> QED
  BY <1>3, <1>4, <1>5

\* What is saved is a row: a form is only submitted if its texts are amounts.
LEMMA SavesARow ==
  ASSUME FormInv, TextInv, SaveForm
  PROVE  /\ IsRow(expense'.value) /\ IsRealDate(expense'.value["date"])
         /\ expense'.value["currency"] = form.currency
         /\ \A f \in Amounts : expense'.value[f] = ToMinorUnits(form.text[f], form.currency)
<1>1. /\ expense'.value = [Update EXCEPT !["merchant"] = Normal(@)]
      /\ form.open /\ IsValid
  BY DEF SaveForm, Submits
<1>2. IsFilled
  BY <1>1 DEF TextInv
<1>3. Amounts \subseteq EvidenceFields \ {"merchant"}
      /\ {"currency", "date"} \subseteq EvidenceFields \ ({"merchant"} \cup Amounts)
  BY DEF Amounts, EvidenceFields, AmountFields
<1>4. \A f \in EvidenceFields \ {"merchant"} : expense'.value[f] = Update[f]
  BY <1>1 DEF Update
<1>5. \A f \in Amounts : Update[f] = MinorUnits(f)
  BY <1>3 DEF Update
<1>6. Update["currency"] = form.currency /\ Update["date"] = form.date
  BY <1>3 DEF Update
<1>7. ASSUME NEW f \in Amounts
      PROVE  /\ expense'.value[f] = ToMinorUnits(form.text[f], form.currency)
             /\ expense'.value[f] \in 0..MaxSafeInteger
  <2>1. expense'.value[f] = ToMinorUnits(form.text[f], form.currency)
    BY <1>3, <1>4, <1>5 DEF MinorUnits
  <2>2. ToMinorUnits(form.text[f], form.currency) # NotAnAmount
    BY <1>1 DEF IsValid, MinorUnits
  <2>3. form.text[f] \in DecimalNumber /\ form.currency \in Currencies
    BY <1>2 DEF IsFilled
  <2> QED
    BY <2>1, <2>2, <2>3, EnteredAmount
<1>8. expense'.value["currency"] = form.currency /\ expense'.value["date"] = form.date
  BY <1>3, <1>4, <1>6
<1> QED
  BY <1>1, <1>2, <1>7, <1>8 DEF IsRow, IsFilled, IsValid

\* Every step keeps it.
LEMMA TextStep == FormInv /\ TextInv /\ [FormNext]_formVars => TextInv'
<1> SUFFICES ASSUME FormInv, TextInv, [FormNext]_formVars PROVE TextInv'
  OBVIOUS
<1>1. ASSUME UNCHANGED <<paper, form>> PROVE (form.open => IsFilled) => (form.open => IsFilled)'
  BY <1>1 DEF IsFilled, Proposed
<1>2. CASE UNCHANGED formVars
  BY <1>1, <1>2 DEF formVars, TextInv
<1>3. CASE RecognizeText
  <2>1. Pending["currency"] = "USD"
    BY DEF Pending, EvidenceFields, Amounts, AmountFields
  <2>2. suggestions' = Found(paper) /\ isRead' = TRUE /\ UNCHANGED <<paper, expense, form, answer>>
    BY <1>3, <2>1 DEF RecognizeText, Found
  <2> QED
    BY <1>1, <2>2 DEF TextInv
<1>4. CASE LeaveForm
  BY <1>4 DEF LeaveForm, TextInv, NoForm
<1>5. CASE SaveForm
  <2>1. /\ form' = NoForm /\ answer' = "saved" /\ suggestions' \in {<<>>, suggestions}
        /\ UNCHANGED <<paper, isRead>>
    BY <1>5 DEF SaveForm, Submits
  <2> QED
    BY <1>5, <2>1, SavesARow DEF TextInv, NoForm
<1>6. CASE FormIsStale \/ FormIsRefused
  <2>1. answer' \in {"stale", "refused"} /\ UNCHANGED <<paper, expense, suggestions, isRead, form>>
    BY <1>6 DEF FormIsStale, FormIsRefused, Submits
  <2> QED
    BY <1>1, <2>1 DEF TextInv
<1>7. CASE \E n \in MerchantNames : SaveAnother(n)
  BY <1>1, <1>7 DEF SaveAnother, TextInv
<1>8. CASE ClassifyExpense
  <2>1. expense'.value = expense.value /\ UNCHANGED <<paper, suggestions, isRead, form, answer>>
    BY <1>8 DEF ClassifyExpense, FormInv
  <2> QED
    BY <1>1, <2>1 DEF TextInv
<1>9. CASE \/ \E f \in Amounts, decimal \in Typed : TypeAmount(f, decimal)
           \/ \E n \in MerchantNames : TypeMerchant(n)
           \/ \E c \in Selected : SelectCurrency(c)
  <2>1. form.open
    <3>1. \A f \in Amounts, decimal \in Typed : TypeAmount(f, decimal) => form.open
      BY ONLY DEF TypeAmount, Touches
    <3>2. \A n \in MerchantNames : TypeMerchant(n) => form.open
      BY ONLY DEF TypeMerchant, Touches
    <3>3. \A c \in Selected : SelectCurrency(c) => form.open
      BY ONLY DEF SelectCurrency, Touches
    <3> QED
      BY <1>9, <3>1, <3>2, <3>3
  <2> QED
    BY <1>9, <2>1, TypingTouches
<1> QED
  BY <1>2, <1>3, <1>4, <1>5, <1>6, <1>7, <1>8, <1>9, OpensFilled DEF FormNext

LEMMA TextAlways == FormSpec => [](FormInv /\ TextInv)
BY FormInitInv, FormStep, TextInitInv, TextStep, PTL DEF FormSpec

\* A form sends amounts, a currency and a date that there are, however the text
\* of the receipt was read and whatever the user typed, and the row keeps them.
THEOREM FormTypeCorrect == FormSpec => []FormTypeOK
<1>1. FormInv /\ TextInv => FormTypeOK
  <2> SUFFICES ASSUME FormInv, TextInv PROVE FormTypeOK
    OBVIOUS
  <2>1. DOMAIN suggestions \subseteq EvidenceFields
    BY SuggestionsAreFound DEF TextInv, IsFound
  <2>2. form.open \in BOOLEAN
    <3>1. CASE form = NoForm
      BY <3>1 DEF NoForm
    <3>2. CASE FormHasSeen
      <4>1. form.open = TRUE
        BY <3>2 DEF FormHasSeen
      <4> QED
        BY <4>1
    <3> QED
      BY <3>1, <3>2 DEF FormInv
  <2> QED
    BY <2>1, <2>2 DEF FormTypeOK, FormInv, TextInv, IsRow
<1> QED
  BY <1>1, TextAlways, PTL
\* Of a receipt that means one currency throughout, the form proposes the last
\* amount of each field, and the currency, as they were meant.
LEMMA ProposesWhatIsMeant ==
  ASSUME TextInv, form.open, form.suggested # <<>>, NamesOneCurrency,
         NEW i \in PrintsOf("amount"), paper.prints[i].field \in AmountFields,
         \A j \in PrintsOf("amount") : paper.prints[j].field = paper.prints[i].field => j <= i
  PROVE  /\ paper.prints[i].field \in DOMAIN form.suggested
         /\ form.suggested[paper.prints[i].field] = paper.prints[i].minor
         /\ Proposed("currency") = paper.prints[i].currency
         /\ paper.prints[i].minor \in 0..MaxSafeInteger
         /\ paper.prints[i].currency \in Currencies
<1> DEFINE IsAmount(j) == /\ j \in DOMAIN paper.prints /\ paper.prints[j].kind = "amount"
                          /\ paper.prints[j].field \in AmountFields
<1>1. paper \in Papers /\ form.suggested = Found(paper) /\ IsFilled
  BY DEF TextInv, IsFilled
<1>2. IsAmount(i) /\ i \in DOMAIN paper.prints
      /\ \A j \in DOMAIN paper.prints :
           paper.prints[j].kind = "amount" /\ paper.prints[j].field = paper.prints[i].field => j <= i
  BY DEF PrintsOf
<1>3. PICK c \in Currencies :
        /\ \A j : IsAmount(j) =>
             /\ paper.prints[j].currency = c
             /\ paper.prints[j].named = "symbol" => c \notin {"CAD", "AUD"}
        /\ \/ \A j : IsAmount(j) => paper.prints[j].named # "none"
           \/ /\ c = "USD" /\ form.base["currency"] = c
              /\ \A j : IsAmount(j) => paper.prints[j].named = "none"
  <2> DEFINE amounts == {paper.prints[j] : j \in {k \in PrintsOf("amount") :
               paper.prints[k].field \in AmountFields}}
  <2>1. Pending["currency"] = "USD"
    BY DEF Pending, EvidenceFields, Amounts, AmountFields
  <2>2. \A j : IsAmount(j) => paper.prints[j] \in amounts
    BY DEF PrintsOf
  <2>3. PICK c \in Currencies :
          /\ \A p \in amounts : p.currency = c /\ (p.named = "symbol" => c \notin {"CAD", "AUD"})
          /\ \/ \A p \in amounts : p.named # "none"
             \/ /\ c = Pending["currency"] /\ form.base["currency"] = c
                /\ \A p \in amounts : p.named = "none"
    BY DEF NamesOneCurrency
  <2> HIDE DEF amounts, IsAmount
  <2> QED
    BY <2>1, <2>2, <2>3
<1>4. ASSUME NEW j, IsAmount(j)
      PROVE  /\ ReadAt(paper, j) = [currency |-> c, token |-> paper.prints[j].named # "none",
                                    minor |-> paper.prints[j].minor]
             /\ ReadAt(paper, j) # NoReading
             /\ IsPrinted(paper.prints[j])
  <2>1. IsPrinted(paper.prints[j]) /\ paper.prints[j].kind = "amount"
    BY <1>1, <1>4, LinesAreRead
  <2>2. /\ paper.prints[j].currency = c
        /\ paper.prints[j].named = "symbol" => c \notin {"CAD", "AUD"}
        /\ paper.prints[j].named = "none" => c = "USD"
    BY <1>3, <1>4
  <2> QED
    BY <2>1, <2>2, AmountIsRead DEF ReadAt
<1>5. paper.prints[i].field \in DOMAIN form.suggested
      /\ form.suggested[paper.prints[i].field] = paper.prints[i].minor
  <2>1. ReadAt(paper, i) # NoReading /\ ReadAt(paper, i).minor = paper.prints[i].minor
    BY <1>2, <1>4
  <2> QED
    BY <1>1, <1>2, <2>1, LastIsFound
<1>6. Proposed("currency") = c
  <2>1. CASE \A j : IsAmount(j) => paper.prints[j].named # "none"
    <3>1. ASSUME NEW j \in DOMAIN paper.prints, paper.prints[j].kind = "amount",
                 paper.prints[j].field \in AmountFields
          PROVE  ReadAt(paper, j).token /\ ReadAt(paper, j).currency = c
                 /\ ReadAt(paper, j) # NoReading
      <4>1. IsAmount(j)
        BY <3>1
      <4>2. paper.prints[j].named # "none"
        BY <2>1, <4>1
      <4> HIDE DEF IsAmount
      <4>3. ReadAt(paper, j).token = (paper.prints[j].named # "none")
            /\ ReadAt(paper, j).currency = c /\ ReadAt(paper, j) # NoReading
        BY <1>4, <4>1
      <4> QED
        BY <4>2, <4>3
    <3>2. "currency" \in DOMAIN Found(paper) /\ Found(paper)["currency"] = c
      BY <1>1, <1>2, <3>1, CurrencyIsFound
    <3> QED
      BY <1>1, <3>2 DEF Proposed
  <2>2. CASE /\ c = "USD" /\ form.base["currency"] = c
             /\ \A j : IsAmount(j) => paper.prints[j].named = "none"
    <3>1. ASSUME NEW j \in DOMAIN paper.prints, paper.prints[j].kind = "amount"
          PROVE  paper.prints[j].named = "none"
      <4>1. IsPrinted(paper.prints[j])
        BY <1>1, <3>1, LinesAreRead
      <4>2. paper.prints[j].field \in AmountFields \cup {"none"}
        BY <4>1 DEF IsPrinted, ClassifyAmountField, AmountFields
      <4> QED
        BY <2>2, <3>1, <4>1, <4>2 DEF IsPrinted
    <3>2. "currency" \notin DOMAIN Found(paper)
      BY <1>1, <3>1, NoCurrencyIsFound
    <3> QED
      BY <1>1, <2>2, <3>2 DEF Proposed
  <2> QED
    BY <1>3, <2>1, <2>2
<1>7. paper.prints[i].minor \in 0..MaxSafeInteger /\ paper.prints[i].currency = c
  <2>1. IsPrinted(paper.prints[i]) /\ paper.prints[i].currency = c
    BY <1>2, <1>3, <1>4
  <2> QED
    BY <2>1 DEF IsPrinted
<1> QED
  BY <1>5, <1>6, <1>7

\* What the user leaves alone is saved as the merchant meant it: reading what is
\* printed, filling the form and reading its text are inverse to each other
\* (normalizeAmount, minorUnitsToDecimal, parseDecimalToMinorUnits), for the last
\* amount of its field and in the currency that the whole receipt is in.
THEOREM UntouchedIsSavedAsPrinted == FormSpec => UntouchedIsOnPaper
<1> DEFINE Printed(i) ==
             /\ paper.prints[i].field \in DOMAIN form.suggested
             /\ {paper.prints[i].field, "currency"} \cap form.touched = {} =>
                  /\ expense'.value[paper.prints[i].field] = paper.prints[i].minor
                  /\ expense'.value["currency"] = paper.prints[i].currency
           Saves == /\ form.open /\ ~form'.open /\ answer' = "saved"
                    /\ form.suggested # <<>> /\ NamesOneCurrency
<1>1. ASSUME FormInv, TextInv, FormNext, Saves,
             NEW i \in PrintsOf("amount"), paper.prints[i].field \in AmountFields,
             \A j \in PrintsOf("amount") :
               paper.prints[j].field = paper.prints[i].field => j <= i
      PROVE  Printed(i)
  <2> DEFINE f == paper.prints[i].field
             c == Proposed("currency")
  <2>1. SaveForm
    BY <1>1 DEF FormNext, RecognizeText, OpenForm, LeaveForm, TypeAmount, TypeMerchant, Touches,
       SaveAnother, SelectCurrency, SaveForm, FormIsStale, FormIsRefused, ClassifyExpense, FilledForm
  <2>2. /\ f \in DOMAIN form.suggested /\ form.suggested[f] = paper.prints[i].minor
        /\ c = paper.prints[i].currency
        /\ paper.prints[i].minor \in 0..MaxSafeInteger /\ c \in Currencies
    BY <1>1, ProposesWhatIsMeant
  <2>3. f \in Amounts
    BY <1>1 DEF Amounts
  <2>4. expense'.value["currency"] = form.currency
        /\ expense'.value[f] = ToMinorUnits(form.text[f], form.currency)
    BY <1>1, <2>1, <2>3, SavesARow
  <2>5. ASSUME f \notin form.touched, "currency" \notin form.touched
        PROVE  form.currency = c /\ form.text[f] = ToDecimal(paper.prints[i].minor, c)
    BY <1>1, <2>2, <2>3, <2>5 DEF TextInv, IsFilled
  <2> HIDE DEF f, c
  <2>6. ASSUME f \notin form.touched, "currency" \notin form.touched
        PROVE  expense'.value["currency"] = c /\ expense'.value[f] = paper.prints[i].minor
    BY <2>2, <2>4, <2>5, <2>6, AmountRoundTrip
  <2> QED
    BY <2>2, <2>6 DEF f, c
<1>2. FormInv /\ TextInv /\ [FormNext]_formVars =>
        [Saves => \A i \in PrintsOf("amount") :
           LET p == paper.prints[i] IN
           /\ p.field \in AmountFields
           /\ \A j \in PrintsOf("amount") : paper.prints[j].field = p.field => j <= i
           => /\ p.field \in DOMAIN form.suggested
              /\ {p.field, "currency"} \cap form.touched = {}
                 => /\ expense'.value[p.field] = p.minor
                    /\ expense'.value["currency"] = p.currency]_formVars
  BY <1>1
<1> QED
  BY <1>2, TextAlways, PTL DEF FormSpec, UntouchedIsOnPaper
==============================================================================
