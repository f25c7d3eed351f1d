------------------------ MODULE ReceiptReview_proofs ------------------------
(* Theorems about ReceiptReview, for any receipts, fields, values and       *)
(* bounds.                                                                  *)
EXTENDS ReceiptReview, TLAPS

-----------------------------------------------------------------------------
(* Types. *)

\* What a screen starts from, and the suggestions of a receipt.
LEMMA NothingIsTyped ==
  /\ NoReceipt \in Receipt
  /\ NothingSeen \in Suggestions
  BY PlaceholderIsHeld DEF NoReceipt, Receipt, NothingSeen, Suggestions, Perhaps

\* Showing a receipt that exists leaves the screen well typed.
LEMMA ShowDetailType ==
  ASSUME ReviewTypeOK, NEW shows \in Receipt, shows.id \in Receipts, ShowDetail(shows)
  PROVE  /\ screen' \in {"list", "detail", "edit"}
         /\ shown' \in Receipt
         /\ screen' # "list" => shown'.id # None
         /\ seen' \in Suggestions
         /\ pending' \in SUBSET Receipts
         /\ loading' \in SUBSET Reads
         /\ loading' # {} => screen' = "detail"
         /\ saving' = {}
  BY NothingIsTyped, NoneIsNoValue DEF ReviewTypeOK, ShowDetail

LEMMA ShowListType ==
  ASSUME ReviewTypeOK, ShowList
  PROVE  /\ screen' \in {"list", "detail", "edit"}
         /\ shown' \in Receipt
         /\ screen' # "list" => shown'.id # None
         /\ seen' \in Suggestions
         /\ pending' \in SUBSET Receipts
         /\ loading' \in SUBSET Reads
         /\ loading' # {} => screen' = "detail"
         /\ saving' = {}
  BY NothingIsTyped DEF ShowList

\* A row of the receipts table is a receipt to show.
LEMMA RowType == ASSUME ReviewTypeOK, NEW r \in Receipts PROVE Row(r) \in Receipt
  BY DEF ReviewTypeOK, Row, Receipt

LEMMA UndecidedType ==
  ASSUME ReviewTypeOK, NEW r \in Receipts PROVE Undecided(r) \in Perhaps
<1>1. ASSUME NEW f \in Fields PROVE candidate[r][f] \in Values \cup {None}
  BY DEF ReviewTypeOK, Perhaps
<1>2. QED
  BY <1>1 DEF Undecided, Perhaps

\* What the screens do with the application and the tables.
ScreensStep ==
  \/ \E r \in Receipts : ShowImported(r) \/ Open(r)
  \/ LoadEvidence \/ LoadHistory \/ LoadFails \/ Edit \/ Back \/ Classify \/ Delete
  \/ Crash

ProcessingStep ==
  \E r \in Receipts :
    \/ CreateOcrHistory(r) \/ CompleteOcr(r) \/ CreateParserHistory(r)
    \/ FailParser(r) \/ StoreCandidates(r) \/ CompleteParser(r) \/ AbandonProcessing(r)

LEMMA ProcessingType == ReviewTypeOK /\ ProcessingStep => ReviewTypeOK'
<1> SUFFICES ASSUME ReviewTypeOK, NEW r \in Receipts,
               \/ CreateOcrHistory(r) \/ CompleteOcr(r) \/ CreateParserHistory(r)
               \/ FailParser(r) \/ StoreCandidates(r) \/ CompleteParser(r)
               \/ AbandonProcessing(r)
             PROVE ReviewTypeOK'
  BY DEF ProcessingStep
<1> USE DEF ReviewTypeOK, Goes, Steps, Statuses, receipts, evidence, history, ui
<1>1. CASE CreateOcrHistory(r)
  BY <1>1 DEF CreateOcrHistory
<1>2. CASE CompleteOcr(r)
  <2>1. ocr' \in [Receipts -> Statuses]
    BY <1>2 DEF CompleteOcr
  <2>2. step' \in [Receipts -> Steps]
    BY <1>2 DEF CompleteOcr
  <2>3. QED
    BY <1>2, <2>1, <2>2 DEF CompleteOcr
<1>3. CASE CreateParserHistory(r)
  BY <1>3 DEF CreateParserHistory
<1>4. CASE FailParser(r)
  BY <1>4 DEF FailParser
<1>5. CASE StoreCandidates(r)
  BY <1>5 DEF StoreCandidates
<1>6. CASE CompleteParser(r)
  BY <1>6 DEF CompleteParser
<1>7. CASE AbandonProcessing(r)
  BY <1>7 DEF AbandonProcessing, tables
<1>8. QED
  BY <1>1, <1>2, <1>3, <1>4, <1>5, <1>6, <1>7

LEMMA ScreensType == ReviewTypeOK /\ ScreensStep => ReviewTypeOK'
<1> SUFFICES ASSUME ReviewTypeOK, ScreensStep PROVE ReviewTypeOK'
  OBVIOUS
<1> USE DEF tables, receipts, evidence, history
<1>1. ASSUME NEW r \in Receipts, ShowImported(r) PROVE ReviewTypeOK'
  <2>1. [id |-> r, version |-> 1, value |-> Placeholder] \in Receipt
    BY PlaceholderIsHeld DEF Receipt
  <2>2. QED
    BY <1>1, <2>1, ShowDetailType DEF ShowImported, ReviewTypeOK, Goes, Steps
<1>2. ASSUME NEW r \in Receipts, Open(r) PROVE ReviewTypeOK'
  <2>1. Row(r).id = r
    BY DEF Row
  <2>2. QED
    BY <1>2, <2>1, RowType, ShowDetailType DEF Open, ReviewTypeOK
<1>3. ASSUME LoadEvidence PROVE ReviewTypeOK'
  <2>1. shown.id \in Receipts
    BY <1>3 DEF LoadEvidence, ReviewTypeOK, Receipt
  <2>2. seen' \in Suggestions
    BY <1>3, <2>1, UndecidedType DEF LoadEvidence, Suggestions
  <2>3. QED
    BY <1>3, <2>2 DEF LoadEvidence, ReviewTypeOK
<1>4. ASSUME LoadHistory PROVE ReviewTypeOK'
  BY <1>4 DEF LoadHistory, ReviewTypeOK, Receipt
<1>5. ASSUME LoadFails PROVE ReviewTypeOK'
  BY <1>5 DEF LoadFails, ReviewTypeOK
<1>6. ASSUME Edit PROVE ReviewTypeOK'
  BY <1>6 DEF Edit, ReviewTypeOK
<1>7. ASSUME Back PROVE ReviewTypeOK'
  <2>1. shown \in Receipt /\ shown.id \in Receipts
    BY <1>7 DEF Back, ReviewTypeOK, Receipt
  <2>2. QED
    BY <1>7, <2>1, ShowDetailType, ShowListType DEF Back, ReviewTypeOK
<1>8. ASSUME Classify PROVE ReviewTypeOK'
  BY <1>8 DEF Classify, ReviewTypeOK, Receipt
<1>9. ASSUME Delete PROVE ReviewTypeOK'
  <2>1. shown.id \in Receipts /\ version[shown.id] + 1 \in Nat
    BY <1>9 DEF Delete, ReviewTypeOK, Receipt
  <2>2. QED
    BY <1>9, <2>1, ShowListType DEF Delete, ReviewTypeOK
<1>10. ASSUME Crash PROVE ReviewTypeOK'
  BY <1>10, ShowListType DEF Crash, ReviewTypeOK, Steps
<1>11. QED
  BY <1>1, <1>2, <1>3, <1>4, <1>5, <1>6, <1>7, <1>8, <1>9, <1>10 DEF ScreensStep

\* The review a form sends is made of what its screen holds.
LEMMA SavedReview ==
  ASSUME NEW values \in Held, Save(values)
  PROVE  \E s : /\ submitted' = submitted \cup {s}
               /\ s.id = shown.id /\ s.version = shown.version /\ s.base = shown.value
               /\ s.of = seen.of /\ s.suggested = seen.value
<1> DEFINE s == [id |-> shown.id, version |-> shown.version, base |-> shown.value,
                 value |-> values, of |-> seen.of, suggested |-> seen.value,
                 ids |-> IF seen.value = NothingSeen.value THEN {} ELSE pending]
<1>1. submitted' = submitted \cup {s}
  BY DEF Save
<1>2. /\ s.id = shown.id /\ s.version = shown.version /\ s.base = shown.value
      /\ s.of = seen.of /\ s.suggested = seen.value
  OBVIOUS
<1> HIDE DEF s
<1>3. QED
  BY <1>1, <1>2

LEMMA SaveType ==
  ASSUME ReviewTypeOK, NEW values \in Held, Save(values) PROVE ReviewTypeOK'
<1> DEFINE s == [id |-> shown.id, version |-> shown.version, base |-> shown.value,
                 value |-> values, of |-> seen.of, suggested |-> seen.value,
                 ids |-> IF seen.value = NothingSeen.value THEN {} ELSE pending]
<1>1. shown.id \in Receipts
  BY DEF Save, ReviewTypeOK, Receipt
<1>2. s \in Submission
  BY <1>1 DEF ReviewTypeOK, Submission, Receipt, Suggestions
<1>3. submitted' = submitted \cup {s} /\ saving' = {s}
  BY DEF Save
<1>4. QED
  BY <1>2, <1>3 DEF Save, ReviewTypeOK, tables

\* What a review shows when it ends is the row it has written.
LEMMA ReviewedIsReceipt ==
  ASSUME ReviewTypeOK, NEW s \in submitted
  PROVE  /\ s \in Submission /\ s.id \in Receipts
         /\ version[s.id] + 1 \in Nat
         /\ [id |-> s.id, version |-> version[s.id] + 1, value |-> s.value] \in Receipt
  BY DEF ReviewTypeOK, Submission, Receipt

LEMMA DecisionsType ==
  ASSUME ReviewTypeOK, NEW s \in submitted, RecordDecisions(s)
  PROVE  /\ verdict' \in [Receipts -> [Fields -> {"undecided", "accepted", "corrected"}]]
         /\ correction' \in [Receipts -> Perhaps]
<1>1. s \in Submission /\ s.id \in Receipts
  BY ReviewedIsReceipt
<1>2. ASSUME NEW r \in Receipts, NEW f \in Fields
      PROVE  (IF r # s.of \/ f \notin Suggested(s) THEN verdict[r][f] ELSE
              IF f \in Accepted(s) THEN "accepted" ELSE "corrected")
             \in {"undecided", "accepted", "corrected"}
  BY DEF ReviewTypeOK
<1>3. verdict' \in [Receipts -> [Fields -> {"undecided", "accepted", "corrected"}]]
  BY <1>2 DEF RecordDecisions, MarkCandidates
<1>4. [f \in Fields |-> IF f \in Corrected(s) THEN s.value[f] ELSE correction[s.id][f]]
        \in Perhaps
  BY <1>1 DEF ReviewTypeOK, Submission, Held, Perhaps
<1>5. correction' \in [Receipts -> Perhaps]
  BY <1>1, <1>4 DEF RecordDecisions, ReviewTypeOK
<1>6. QED
  BY <1>3, <1>5

LEMMA CommitType == ASSUME ReviewTypeOK, NEW s \in submitted, Commit(s) PROVE ReviewTypeOK'
<1>1. /\ s \in Submission /\ s.id \in Receipts
      /\ version[s.id] + 1 \in Nat
  BY ReviewedIsReceipt
<1>2. /\ value' \in [Receipts -> Held]
      /\ version' \in [Receipts -> Nat]
  BY <1>1 DEF Commit, ReviewTypeOK, Submission
<1>3. /\ verdict' \in [Receipts -> [Fields -> {"undecided", "accepted", "corrected"}]]
      /\ correction' \in [Receipts -> Perhaps]
  BY DecisionsType DEF Commit
<1>4. outcome' \in [Receipts -> {"not_applicable", "pending", "accepted", "corrected"}]
  BY DEF Commit, CloseHistory, ReviewTypeOK
<1>5. submitted' \in SUBSET Submission
  BY DEF Commit, ReviewTypeOK
<1>6. /\ screen' \in {"list", "detail", "edit"}
      /\ shown' \in Receipt
      /\ screen' # "list" => shown'.id # None
      /\ seen' \in Suggestions
      /\ pending' \in SUBSET Receipts
      /\ loading' \in SUBSET Reads
      /\ loading' # {} => screen' = "detail"
      /\ saving' = {}
  <2> DEFINE shows == [id |-> s.id, version |-> version[s.id] + 1, value |-> s.value]
  <2>1. shows \in Receipt /\ shows.id \in Receipts
    BY ReviewedIsReceipt
  <2>2. ShowDetail(shows)
    BY DEF Commit
  <2> HIDE DEF shows
  <2>3. QED
    BY <2>1, <2>2, ShowDetailType
<1>7. QED
  BY <1>2, <1>3, <1>4, <1>5, <1>6 DEF Commit, ReviewTypeOK

LEMMA RollBackType ==
  ASSUME ReviewTypeOK, NEW s \in submitted, RollBack(s) PROVE ReviewTypeOK'
  BY DEF RollBack, ReviewTypeOK, tables, receipts, evidence, history

LEMMA NextCases ==
  ASSUME [ReviewNext]_vars
  PROVE  \/ ProcessingStep
         \/ ScreensStep
         \/ \E values \in Held : Save(values)
         \/ \E s \in submitted : Commit(s) \/ RollBack(s)
         \/ UNCHANGED vars
  BY DEF ReviewNext, ProcessingStep, ScreensStep

LEMMA StepReviewType == ReviewTypeOK /\ [ReviewNext]_vars => ReviewTypeOK'
<1> SUFFICES ASSUME ReviewTypeOK, [ReviewNext]_vars PROVE ReviewTypeOK'
  OBVIOUS
<1>1. CASE UNCHANGED vars
  BY <1>1 DEF vars, tables, receipts, evidence, history, ui, ReviewTypeOK
<1>2. QED
  BY <1>1, NextCases, ProcessingType, ScreensType, SaveType, CommitType, RollBackType

\* Type correctness: every variable keeps its type, a screen shows a receipt
\* that exists, and a form waits only for a review that is on its way.
THEOREM ReviewTypeCorrect == ReviewSpec => []ReviewTypeOK
<1>1. ReviewInit => ReviewTypeOK
  <2> SUFFICES ASSUME ReviewInit PROVE ReviewTypeOK
    OBVIOUS
  <2>1. NothingSeen.value \in Perhaps
    BY NothingIsTyped DEF Suggestions
  <2>2. /\ candidate \in [Receipts -> Perhaps]
        /\ correction \in [Receipts -> Perhaps]
    BY <2>1 DEF ReviewInit
  <2>3. /\ value \in [Receipts -> Held]
        /\ step \in [Receipts -> Steps]
        /\ verdict \in [Receipts -> [Fields -> {"undecided", "accepted", "corrected"}]]
    BY PlaceholderIsHeld DEF ReviewInit, Steps
  <2>4. QED
    BY <2>2, <2>3, NothingIsTyped DEF ReviewInit, ReviewTypeOK, Statuses
<1>2. QED
  BY <1>1, StepReviewType, PTL DEF ReviewSpec

-----------------------------------------------------------------------------
(* What is held across awaits, compared with the tables.                    *)

\* A version a receipt has or had; the values are those of the version.
IsPast(r, n, held) == n <= version[r] /\ (n = version[r] => held = value[r])

\* The inductive invariant behind optimistic versions: whatever a screen or a
\* review holds, and what an import will show when it ends, is a past version
\* of its receipt, and the current one only with the current values.
Snapshots ==
  /\ \A r \in Receipts : version[r] >= 1 /\ IsPast(r, 1, Placeholder)
  /\ shown.id # None => IsPast(shown.id, shown.version, shown.value)
  /\ \A s \in submitted : IsPast(s.id, s.version, s.base)

\* Suggestions that are held are candidates of the receipt they are said to be of,
\* and recognition has left no evidence before it stores its candidates.
Early == {"begin", "recognising", "recognised", "parsing"}

IsReading(of, suggested) ==
  \A f \in Fields : suggested[f] # None =>
    of \in Receipts /\ candidate[of][f] = suggested[f]

Readings ==
  /\ IsReading(seen.of, seen.value)
  /\ \A s \in submitted : IsReading(s.of, s.suggested)
  /\ \A r \in Receipts : step[r] \in Early =>
       \A f \in Fields : candidate[r][f] = None /\ verdict[r][f] = "undecided"

LEMMA ShownIsReceipt ==
  ASSUME ReviewTypeOK
  PROVE  /\ shown.id \in Receipts \cup {None}
         /\ shown.version \in Nat
         /\ screen # "list" => shown.id \in Receipts
  BY DEF ReviewTypeOK, Receipt

\* Showing a version that is past keeps the snapshots, when the tables stay.
LEMMA ShowDetailSnapshots ==
  ASSUME NEW shows, ShowDetail(shows) PROVE shown' = shows
  BY DEF ShowDetail

LEMMA ShowListSnapshots == ASSUME ShowList PROVE shown'.id = None
  BY DEF ShowList, NoReceipt

\* A step that writes neither version nor value keeps what is past.
LEMMA SameRows ==
  ASSUME Snapshots, UNCHANGED <<version, value>>,
         submitted' \subseteq submitted,
         \/ UNCHANGED shown
         \/ shown'.id = None
         \/ shown'.id \in Receipts /\ IsPast(shown'.id, shown'.version, shown'.value)
  PROVE  Snapshots'
  BY DEF Snapshots, IsPast

LEMMA ScreensSnapshots ==
  ReviewTypeOK /\ Snapshots /\ ScreensStep => Snapshots'
<1> SUFFICES ASSUME ReviewTypeOK, Snapshots, ScreensStep PROVE Snapshots'
  OBVIOUS
<1> USE DEF tables, receipts
<1>1. ASSUME NEW r \in Receipts, ShowImported(r) PROVE Snapshots'
  <2>1. shown' = [id |-> r, version |-> 1, value |-> Placeholder]
    BY <1>1, ShowDetailSnapshots DEF ShowImported
  <2>2. IsPast(r, 1, Placeholder)
    BY DEF Snapshots
  <2>3. QED
    BY <1>1, <2>1, <2>2, SameRows DEF ShowImported
<1>2. ASSUME NEW r \in Receipts, Open(r) PROVE Snapshots'
  <2>1. shown' = Row(r)
    BY <1>2, ShowDetailSnapshots DEF Open
  <2>2. IsPast(r, version[r], value[r])
    BY DEF IsPast, ReviewTypeOK
  <2>3. QED
    BY <1>2, <2>1, <2>2, SameRows DEF Open, Row
<1>3. ASSUME LoadEvidence \/ LoadHistory \/ LoadFails \/ Edit PROVE Snapshots'
  BY <1>3, SameRows DEF LoadEvidence, LoadHistory, LoadFails, Edit
<1>4. ASSUME Back PROVE Snapshots'
  <2>1. shown' = shown \/ shown'.id = None
    BY <1>4, ShowDetailSnapshots, ShowListSnapshots DEF Back
  <2>2. QED
    BY <1>4, <2>1, SameRows DEF Back
<1>5. ASSUME Classify PROVE Snapshots'
  <2>1. shown.id \in Receipts /\ shown.version \in Nat
    BY <1>5, ShownIsReceipt DEF Classify
  <2>2. version' = [version EXCEPT ![shown.id] = @ + 1] /\ value' = value
    BY <1>5 DEF Classify
  <2>3. /\ shown'.id = shown.id /\ shown'.value = shown.value
        /\ shown'.version = version'[shown.id]
    BY <1>5, <2>1 DEF Classify, ReviewTypeOK, Receipt
  <2>4. shown.value = value[shown.id]
    BY <1>5, <2>1, NoneIsNoValue DEF Classify, Snapshots, IsPast
  <2>5. \A s \in submitted : s.id \in Receipts /\ s.version \in Nat
    BY DEF ReviewTypeOK, Submission
  <2>6. submitted' = submitted
    BY <1>5 DEF Classify
  <2>7. QED
    BY <2>1, <2>2, <2>3, <2>4, <2>5, <2>6 DEF Snapshots, IsPast, ReviewTypeOK
<1>6. ASSUME Delete PROVE Snapshots'
  <2>1. shown.id \in Receipts
    BY <1>6, ShownIsReceipt DEF Delete
  <2>2. /\ version' = [version EXCEPT ![shown.id] = @ + 1] /\ value' = value
        /\ shown'.id = None /\ submitted' = submitted
    BY <1>6, ShowListSnapshots DEF Delete
  <2>3. \A s \in submitted : s.id \in Receipts /\ s.version \in Nat
    BY DEF ReviewTypeOK, Submission
  <2>4. QED
    BY <2>1, <2>2, <2>3 DEF Snapshots, IsPast, ReviewTypeOK
<1>7. ASSUME Crash PROVE Snapshots'
  BY <1>7, ShowListSnapshots, SameRows DEF Crash
<1>8. QED
  BY <1>1, <1>2, <1>3, <1>4, <1>5, <1>6, <1>7 DEF ScreensStep

LEMMA CommitSnapshots ==
  ASSUME ReviewTypeOK, Snapshots, NEW s \in submitted, Commit(s) PROVE Snapshots'
<1>1. s.id \in Receipts /\ s.value \in Held
  BY DEF ReviewTypeOK, Submission
<1>2. /\ version' = [version EXCEPT ![s.id] = @ + 1]
      /\ value' = [value EXCEPT ![s.id] = s.value]
      /\ submitted' = submitted \ {s}
  BY DEF Commit
<1>3. shown' = [id |-> s.id, version |-> version[s.id] + 1, value |-> s.value]
  BY ShowDetailSnapshots DEF Commit
<1>4. \A t \in submitted : t.id \in Receipts /\ t.version \in Nat
  BY DEF ReviewTypeOK, Submission
<1>5. QED
  BY <1>1, <1>2, <1>3, <1>4 DEF Snapshots, IsPast, ReviewTypeOK

LEMMA StepSnapshots ==
  ReviewTypeOK /\ Snapshots /\ [ReviewNext]_vars => Snapshots'
<1> SUFFICES ASSUME ReviewTypeOK, Snapshots, [ReviewNext]_vars PROVE Snapshots'
  OBVIOUS
<1>1. CASE ProcessingStep
  BY <1>1, SameRows DEF ProcessingStep, CreateOcrHistory, CompleteOcr, CreateParserHistory,
    FailParser, StoreCandidates, CompleteParser, AbandonProcessing, tables, receipts, ui
<1>2. ASSUME NEW values \in Held, Save(values) PROVE Snapshots'
  <2>1. screen # "list" /\ shown.id \in Receipts
    BY <1>2, ShownIsReceipt DEF Save
  <2>2. IsPast(shown.id, shown.version, shown.value)
    BY <2>1, NoneIsNoValue DEF Snapshots
  <2>3. \E s : /\ submitted' = submitted \cup {s}
               /\ s.id = shown.id /\ s.version = shown.version /\ s.base = shown.value
               /\ s.of = seen.of /\ s.suggested = seen.value
    BY <1>2, SavedReview
  <2>4. UNCHANGED <<version, value, shown>>
    BY <1>2 DEF Save, tables
  <2>5. QED
    BY <2>2, <2>3, <2>4 DEF Snapshots, IsPast
<1>3. ASSUME NEW s \in submitted, RollBack(s) PROVE Snapshots'
  BY <1>3, SameRows DEF RollBack, tables
<1>4. CASE UNCHANGED vars
  BY <1>4, SameRows DEF vars, tables, receipts, ui
<1>5. QED
  BY <1>1, <1>2, <1>3, <1>4, NextCases, ScreensSnapshots, CommitSnapshots

\* Optimistic versions hold for every receipt and every number of reviews in
\* flight.
THEOREM SnapshotsArePast == ReviewSpec => []Snapshots
<1>1. ReviewInit => Snapshots
  BY PlaceholderIsHeld DEF ReviewInit, Snapshots, IsPast, NoReceipt
<1>2. QED
  BY <1>1, StepSnapshots, ReviewTypeCorrect, PTL DEF ReviewSpec

\* No lost update: a review that is written finds the values its form was
\* opened on.
THEOREM UpdatesAreNotLost == ReviewSpec => NoLostUpdate
<1> DEFINE Kept == \A s \in submitted \ submitted' :
                     version'[s.id] # version[s.id] => value[s.id] = s.base
<1>1. ReviewTypeOK /\ Snapshots /\ [ReviewNext]_vars => [Kept]_vars
  <2> SUFFICES ASSUME ReviewTypeOK, Snapshots, [ReviewNext]_vars,
                      NEW s \in submitted \ submitted', version'[s.id] # version[s.id]
               PROVE  value[s.id] = s.base
    OBVIOUS
  <2>1. CASE ProcessingStep
    BY <2>1 DEF ProcessingStep, CreateOcrHistory, CompleteOcr, CreateParserHistory,
      FailParser, StoreCandidates, CompleteParser, AbandonProcessing, tables, receipts, ui
  <2>2. CASE ScreensStep
    BY <2>2 DEF ScreensStep, ShowImported, Open, LoadEvidence, LoadHistory, LoadFails, Edit,
      Back, Classify, Delete, Crash, tables, receipts
  <2>3. ASSUME NEW values \in Held, Save(values) PROVE FALSE
    BY <2>3 DEF Save
  <2>4. ASSUME NEW t \in submitted, RollBack(t) PROVE FALSE
    BY <2>4 DEF RollBack, tables, receipts
  <2>5. ASSUME NEW t \in submitted, Commit(t) PROVE value[s.id] = s.base
    <3>1. s = t
      BY <2>5 DEF Commit
    <3>2. QED
      BY <2>5, <3>1 DEF Commit, ReceiptIsAsShown, Snapshots, IsPast
  <2>6. CASE UNCHANGED vars
    BY <2>6 DEF vars, tables, receipts
  <2>7. QED
    BY <2>1, <2>2, <2>3, <2>4, <2>5, <2>6, NextCases
<1>2. QED
  BY <1>1, ReviewTypeCorrect, SnapshotsArePast, PTL DEF ReviewSpec, NoLostUpdate

-----------------------------------------------------------------------------
(* Evidence.                                                                *)

\* What is held of the candidates stays true while no candidate is stored,
\* and while nothing new is held.
LEMMA SameCandidates ==
  ASSUME Readings, UNCHANGED <<candidate, verdict>>,
         \A r \in Receipts : step'[r] \in Early => step[r] \in Early,
         submitted' \subseteq submitted,
         UNCHANGED seen \/ seen' = NothingSeen
  PROVE  Readings'
<1>1. IsReading(seen.of, seen.value)'
  BY DEF Readings, IsReading, NothingSeen
<1>2. \A s \in submitted' : IsReading(s.of, s.suggested)'
  BY DEF Readings, IsReading
<1>3. QED
  BY <1>1, <1>2 DEF Readings

LEMMA ShowSeen ==
  /\ \A shows : ShowDetail(shows) => UNCHANGED seen \/ seen' = NothingSeen
  /\ ShowList => seen' = NothingSeen
  BY DEF ShowDetail, ShowList

LEMMA ProcessingReadings ==
  ReviewTypeOK /\ Readings /\ ProcessingStep => Readings'
<1> SUFFICES ASSUME ReviewTypeOK, Readings, NEW r \in Receipts,
               \/ CreateOcrHistory(r) \/ CompleteOcr(r) \/ CreateParserHistory(r)
               \/ FailParser(r) \/ StoreCandidates(r) \/ CompleteParser(r)
               \/ AbandonProcessing(r)
             PROVE Readings'
  BY DEF ProcessingStep
<1>1. CASE StoreCandidates(r)
  <2>1. /\ step[r] = "parsing" /\ step' = [step EXCEPT ![r] = "stored"]
        /\ \E found \in Perhaps : candidate' = [candidate EXCEPT ![r] = found]
        /\ UNCHANGED <<verdict, seen, submitted>>
    BY <1>1 DEF StoreCandidates, Goes, ui
  <2>2. \A f \in Fields : candidate[r][f] = None
    BY <2>1 DEF Readings, Early
  <2>3. ASSUME NEW of, NEW suggested, IsReading(of, suggested)
        PROVE  IsReading(of, suggested)'
    BY <2>1, <2>2, <2>3 DEF IsReading, ReviewTypeOK
  <2>4. \A t \in Receipts : step'[t] \in Early => t # r /\ step[t] \in Early
    BY <2>1 DEF Early, ReviewTypeOK
  <2>5. QED
    BY <2>1, <2>3, <2>4 DEF Readings, ReviewTypeOK
<1>2. CASE CreateOcrHistory(r) \/ CompleteOcr(r) \/ CreateParserHistory(r)
  <2>1. \A t \in Receipts : step'[t] \in Early => step[t] \in Early
    BY <1>2 DEF CreateOcrHistory, CompleteOcr, CreateParserHistory, Goes, Early, ReviewTypeOK
  <2>2. QED
    BY <1>2, <2>1, SameCandidates
    DEF CreateOcrHistory, CompleteOcr, CreateParserHistory, evidence, ui
<1>3. CASE FailParser(r) \/ CompleteParser(r) \/ AbandonProcessing(r)
  <2>1. \A t \in Receipts : step'[t] \in Early => step[t] \in Early
    BY <1>3 DEF FailParser, CompleteParser, AbandonProcessing, Goes, Early, ReviewTypeOK
  <2>2. QED
    BY <1>3, <2>1, SameCandidates
    DEF FailParser, CompleteParser, AbandonProcessing, tables, evidence, ui
<1>4. QED
  BY <1>1, <1>2, <1>3

LEMMA ScreensReadings ==
  ReviewTypeOK /\ Readings /\ ScreensStep => Readings'
<1> SUFFICES ASSUME ReviewTypeOK, Readings, ScreensStep PROVE Readings'
  OBVIOUS
<1> USE DEF tables, evidence
<1>1. ASSUME NEW r \in Receipts, ShowImported(r) PROVE Readings'
  <2>1. \A t \in Receipts : step'[t] \in Early => step[t] \in Early
    BY <1>1 DEF ShowImported, Goes, Early, ReviewTypeOK
  <2>2. QED
    BY <1>1, <2>1, SameCandidates, ShowSeen DEF ShowImported
<1>2. ASSUME NEW r \in Receipts, Open(r) PROVE Readings'
  BY <1>2, SameCandidates, ShowSeen DEF Open
<1>3. ASSUME LoadEvidence PROVE Readings'
  <2>1. /\ shown.id \in Receipts
        /\ seen' = [of |-> shown.id, value |-> Undecided(shown.id)]
        /\ UNCHANGED <<candidate, verdict, step, submitted>>
    BY <1>3, ShownIsReceipt DEF LoadEvidence, ReviewTypeOK
  <2>2. IsReading(shown.id, Undecided(shown.id))
    BY <2>1 DEF IsReading, Undecided
  <2>3. IsReading(seen.of, seen.value)'
    BY <2>1, <2>2 DEF IsReading
  <2>4. \A s \in submitted' : IsReading(s.of, s.suggested)'
    BY <2>1 DEF Readings, IsReading
  <2>5. QED
    BY <2>1, <2>3, <2>4 DEF Readings
<1>4. ASSUME LoadHistory \/ LoadFails \/ Edit PROVE Readings'
  BY <1>4, SameCandidates DEF LoadHistory, LoadFails, Edit
<1>5. ASSUME Back PROVE Readings'
  BY <1>5, SameCandidates, ShowSeen DEF Back
<1>6. ASSUME Classify PROVE Readings'
  BY <1>6, SameCandidates DEF Classify
<1>7. ASSUME Delete PROVE Readings'
  BY <1>7, SameCandidates, ShowSeen DEF Delete
<1>8. ASSUME Crash PROVE Readings'
  BY <1>8, SameCandidates, ShowSeen DEF Crash, Early
<1>9. QED
  BY <1>1, <1>2, <1>3, <1>4, <1>5, <1>6, <1>7, <1>8 DEF ScreensStep

\* What a review that is written decides about: undecided candidates of its
\* own receipt, which recognition has stored.
LEMMA CommitDecides ==
  ASSUME ReviewTypeOK, Readings, NEW s \in submitted, Commit(s),
         NEW r \in Receipts, NEW f \in Fields
  PROVE  \/ verdict'[r][f] = verdict[r][f] /\ (r # s.id \/ f \notin Suggested(s))
         \/ /\ r = s.id /\ s.of = s.id /\ f \in Suggested(s)
            /\ verdict[r][f] = "undecided"
            /\ candidate[r][f] = s.suggested[f] /\ candidate[r][f] # None
            /\ verdict'[r][f] = IF f \in Accepted(s) THEN "accepted" ELSE "corrected"
<1>1. verdict'[r][f] = IF r # s.of \/ f \notin Suggested(s) THEN verdict[r][f] ELSE
                       IF f \in Accepted(s) THEN "accepted" ELSE "corrected"
  BY DEF Commit, RecordDecisions, MarkCandidates
<1>2. f \in Suggested(s) => /\ s.of = s.id /\ verdict[s.id][f] = "undecided"
                            /\ candidate[s.id][f] = s.suggested[f] /\ s.suggested[f] # None
  BY DEF Commit, EvidenceIsOpen, Suggested, Readings, IsReading
<1>3. QED
  BY <1>1, <1>2

LEMMA CommitReadings ==
  ASSUME ReviewTypeOK, Readings, NEW s \in submitted, Commit(s) PROVE Readings'
<1>1. UNCHANGED <<candidate, step>> /\ submitted' \subseteq submitted
  BY DEF Commit
<1>2. seen' = seen \/ seen' = NothingSeen
  BY ShowSeen DEF Commit
<1>3. IsReading(seen.of, seen.value)' /\ \A t \in submitted' : IsReading(t.of, t.suggested)'
  BY <1>1, <1>2 DEF Readings, IsReading, NothingSeen
<1>4. ASSUME NEW r \in Receipts, step'[r] \in Early, NEW f \in Fields
      PROVE  candidate'[r][f] = None /\ verdict'[r][f] = "undecided"
  BY <1>1, <1>4, CommitDecides DEF Readings
<1>5. QED
  BY <1>3, <1>4 DEF Readings

LEMMA StepReadings == ReviewTypeOK /\ Readings /\ [ReviewNext]_vars => Readings'
<1> SUFFICES ASSUME ReviewTypeOK, Readings, [ReviewNext]_vars PROVE Readings'
  OBVIOUS
<1>1. ASSUME NEW values \in Held, Save(values) PROVE Readings'
  <2>1. \E s : /\ submitted' = submitted \cup {s}
               /\ s.of = seen.of /\ s.suggested = seen.value
    BY <1>1, SavedReview
  <2>2. UNCHANGED <<candidate, verdict, step, seen>>
    BY <1>1 DEF Save, tables, evidence
  <2>3. QED
    BY <2>1, <2>2 DEF Readings, IsReading
<1>2. ASSUME NEW s \in submitted, RollBack(s) PROVE Readings'
  BY <1>2, SameCandidates DEF RollBack, tables, evidence
<1>3. CASE UNCHANGED vars
  BY <1>3, SameCandidates DEF vars, tables, evidence, ui
<1>4. QED
  BY <1>1, <1>2, <1>3, NextCases, ProcessingReadings, ScreensReadings, CommitReadings

LEMMA InitReadings == ReviewInit => Readings
  BY DEF ReviewInit, Readings, IsReading, NothingSeen

LEMMA ReadingsHold == ReviewSpec => []Readings
  BY InitReadings, StepReadings, ReviewTypeCorrect, PTL DEF ReviewSpec

\* Only a review writes values, verdicts and corrections.
LEMMA OthersDecideNothing ==
  ASSUME ReviewTypeOK, [ReviewNext]_vars, \A s \in submitted : ~Commit(s)
  PROVE  UNCHANGED <<value, verdict, correction>>
<1>1. CASE ProcessingStep
  BY <1>1 DEF ProcessingStep, CreateOcrHistory, CompleteOcr, CreateParserHistory, FailParser,
    StoreCandidates, CompleteParser, AbandonProcessing, tables, receipts, evidence
<1>2. CASE ScreensStep
  BY <1>2 DEF ScreensStep, ShowImported, Open, LoadEvidence, LoadHistory, LoadFails, Edit,
    Back, Classify, Delete, Crash, tables, receipts, evidence
<1>3. ASSUME NEW values \in Held, Save(values) PROVE UNCHANGED <<value, verdict, correction>>
  BY <1>3 DEF Save, tables, receipts, evidence
<1>4. ASSUME NEW s \in submitted, RollBack(s) PROVE UNCHANGED <<value, verdict, correction>>
  BY <1>4 DEF RollBack, tables, receipts, evidence
<1>5. CASE UNCHANGED vars
  BY <1>5 DEF vars, tables, receipts, evidence
<1>6. QED
  BY <1>1, <1>2, <1>3, <1>4, <1>5, NextCases

\* A candidate that is decided is not replaced.
LEMMA DecidedStays ==
  ASSUME ReviewTypeOK, Readings, [ReviewNext]_vars, NEW r \in Receipts, NEW f \in Fields,
         verdict[r][f] # "undecided"
  PROVE  candidate'[r][f] = candidate[r][f]
<1>1. CASE ProcessingStep
  <2>1. ASSUME NEW t \in Receipts, StoreCandidates(t)
        PROVE  candidate'[r][f] = candidate[r][f]
    <3>1. r # t
      BY <2>1 DEF StoreCandidates, Goes, Readings, Early
    <3>2. QED
      BY <2>1, <3>1 DEF StoreCandidates, ReviewTypeOK
  <2>2. QED
    BY <1>1, <2>1 DEF ProcessingStep, CreateOcrHistory, CompleteOcr, CreateParserHistory,
      FailParser, CompleteParser, AbandonProcessing, tables, evidence
<1>2. CASE ScreensStep
  BY <1>2 DEF ScreensStep, ShowImported, Open, LoadEvidence, LoadHistory, LoadFails, Edit,
    Back, Classify, Delete, Crash, tables, evidence
<1>3. CASE \E values \in Held : Save(values)
  BY <1>3 DEF Save, tables, evidence
<1>4. CASE \E s \in submitted : Commit(s) \/ RollBack(s)
  BY <1>4 DEF Commit, RollBack, tables, evidence
<1>5. CASE UNCHANGED vars
  BY <1>5 DEF vars, tables, evidence
<1>6. QED
  BY <1>1, <1>2, <1>3, <1>4, <1>5, NextCases

-----------------------------------------------------------------------------
(* The promises of a review.                                                *)

LEMMA CommitExplains ==
  ASSUME ReviewTypeOK, Readings, ValueIsExplained, NEW s \in submitted, Commit(s)
  PROVE  ValueIsExplained'
<1> SUFFICES ASSUME NEW r \in Receipts, NEW f \in Fields
             PROVE  \/ /\ value'[r][f] = Placeholder[f]
                       /\ verdict'[r][f] = "undecided" /\ correction'[r][f] = None
                    \/ value'[r][f] = correction'[r][f]
                    \/ verdict'[r][f] = "accepted" /\ value'[r][f] = candidate'[r][f]
  BY DEF ValueIsExplained
<1>1. s.id \in Receipts /\ s.value \in Held
  BY DEF ReviewTypeOK, Submission
<1>2. candidate' = candidate
  BY DEF Commit
<1>3. CASE r # s.id
  <2>1. verdict'[r][f] = verdict[r][f]
    BY <1>3, CommitDecides
  <2>2. value'[r] = value[r] /\ correction'[r] = correction[r]
    BY <1>1, <1>3 DEF Commit, RecordDecisions, ReviewTypeOK
  <2>3. QED
    BY <1>2, <2>1, <2>2 DEF ValueIsExplained
<1>4. CASE r = s.id
  <2>1. value'[r] = s.value
    BY <1>1, <1>4 DEF Commit, ReviewTypeOK
  <2>2. correction'[r][f] = IF f \in Corrected(s) THEN s.value[f] ELSE correction[r][f]
    BY <1>1, <1>4 DEF Commit, RecordDecisions, ReviewTypeOK
  <2>3. CASE f \in Corrected(s)
    BY <2>1, <2>2, <2>3
  <2>4. CASE f \in Accepted(s)
    <3>1. verdict'[r][f] = "accepted" /\ candidate[r][f] = s.suggested[f]
      BY <1>4, <2>4, CommitDecides DEF Accepted
    <3>2. QED
      BY <1>2, <2>1, <2>4, <3>1 DEF Accepted
  <2>5. CASE f \notin Corrected(s) /\ f \notin Accepted(s)
    <3>1. f \notin Suggested(s)
      BY <2>5 DEF Corrected, Rejected
    <3>2. verdict'[r][f] = verdict[r][f]
      BY <3>1, CommitDecides
    <3>3. s.value[f] = value[r][f]
      BY <1>4, <2>5 DEF Commit, ChangesAreCovered
    <3>4. QED
      BY <1>2, <2>1, <2>2, <2>5, <3>2, <3>3 DEF ValueIsExplained
  <2>6. QED
    BY <2>3, <2>4, <2>5
<1>5. QED
  BY <1>3, <1>4

LEMMA StepExplains ==
  ReviewTypeOK /\ Readings /\ ValueIsExplained /\ [ReviewNext]_vars => ValueIsExplained'
<1> SUFFICES ASSUME ReviewTypeOK, Readings, ValueIsExplained, [ReviewNext]_vars
             PROVE  ValueIsExplained'
  OBVIOUS
<1>1. CASE \A s \in submitted : ~Commit(s)
  <2>1. UNCHANGED <<value, verdict, correction>>
    BY <1>1, OthersDecideNothing
  <2>2. \A r \in Receipts, f \in Fields :
          verdict[r][f] = "accepted" => candidate'[r][f] = candidate[r][f]
    BY DecidedStays
  <2>3. QED
    BY <2>1, <2>2 DEF ValueIsExplained
<1>2. QED
  BY <1>1, CommitExplains

\* Every saved value is a placeholder nobody has touched, the user's last
\* correction, or the candidate the user accepted.
THEOREM ValuesAreExplained == ReviewSpec => []ValueIsExplained
<1>1. ReviewInit => ValueIsExplained
  BY DEF ReviewInit, ValueIsExplained, NothingSeen
<1>2. QED
  BY <1>1, StepExplains, ReadingsHold, ReviewTypeCorrect, PTL DEF ReviewSpec

\* A suggestion is decided at most once, whatever the screens still hold of it.
THEOREM DecisionsAreFinal == ReviewSpec => DecidedOnce
<1> DEFINE Final == \A r \in Receipts, f \in Fields :
                      verdict[r][f] # "undecided" => verdict'[r][f] = verdict[r][f]
<1>1. ReviewTypeOK /\ Readings /\ [ReviewNext]_vars => [Final]_vars
  <2> SUFFICES ASSUME ReviewTypeOK, Readings, [ReviewNext]_vars,
                      NEW r \in Receipts, NEW f \in Fields, verdict[r][f] # "undecided"
               PROVE  verdict'[r][f] = verdict[r][f]
    OBVIOUS
  <2>1. CASE \A s \in submitted : ~Commit(s)
    BY <2>1, OthersDecideNothing
  <2>2. ASSUME NEW s \in submitted, Commit(s) PROVE verdict'[r][f] = verdict[r][f]
    BY <2>2, CommitDecides
  <2>3. QED
    BY <2>1, <2>2
<1>2. QED
  BY <1>1, ReadingsHold, ReviewTypeCorrect, PTL DEF ReviewSpec, DecidedOnce

\* Nothing is learnt or decided about a deleted receipt.
THEOREM TombstonesAreFrozen == ReviewSpec => TombstoneIsFrozen
<1> DEFINE Frozen == \A r \in Receipts : receipt[r] = "tombstone" =>
                       /\ receipt'[r] = "tombstone"
                       /\ candidate'[r] = candidate[r]
                       /\ verdict'[r] = verdict[r]
                       /\ correction'[r] = correction[r]
                       /\ value'[r] = value[r]
<1>1. ReviewTypeOK /\ Readings /\ [ReviewNext]_vars => [Frozen]_vars
  <2> SUFFICES ASSUME ReviewTypeOK, Readings, [ReviewNext]_vars,
                      NEW r \in Receipts, receipt[r] = "tombstone"
               PROVE  /\ receipt'[r] = "tombstone"
                      /\ candidate'[r] = candidate[r]
                      /\ verdict'[r] = verdict[r]
                      /\ correction'[r] = correction[r]
                      /\ value'[r] = value[r]
    OBVIOUS
  <2>1. receipt'[r] = "tombstone"
    <3>1. receipt' = receipt \/ Delete
      BY NextCases DEF ProcessingStep, CreateOcrHistory, CompleteOcr, CreateParserHistory,
        FailParser, StoreCandidates, CompleteParser, AbandonProcessing, ScreensStep,
        ShowImported, Open, LoadEvidence, LoadHistory, LoadFails, Edit, Back, Classify, Crash,
        Save, Commit, RollBack, vars, tables, receipts
    <3>2. QED
      BY <3>1 DEF Delete, ReviewTypeOK
  <2>2. candidate'[r] = candidate[r]
    <3>1. candidate' = candidate \/ \E t \in Receipts : StoreCandidates(t)
      BY NextCases DEF ProcessingStep, CreateOcrHistory, CompleteOcr, CreateParserHistory,
        FailParser, CompleteParser, AbandonProcessing, ScreensStep, ShowImported, Open,
        LoadEvidence, LoadHistory, LoadFails, Edit, Back, Classify, Delete, Crash,
        Save, Commit, RollBack, vars, tables, evidence
    <3>2. ASSUME NEW t \in Receipts, StoreCandidates(t) PROVE candidate'[r] = candidate[r]
      <4>1. CASE t # r
        BY <3>2, <4>1 DEF StoreCandidates, ReviewTypeOK
      <4>2. CASE t = r
        <5>1. candidate'[r] = NothingSeen.value
          BY <3>2, <4>2 DEF StoreCandidates, ReviewTypeOK
        <5>2. \A f \in Fields : candidate[r][f] = None
          BY <3>2, <4>2 DEF StoreCandidates, Goes, Readings, Early
        <5>3. candidate[r] \in Perhaps
          BY DEF ReviewTypeOK
        <5>4. QED
          BY <5>1, <5>2, <5>3 DEF NothingSeen, Perhaps
      <4>3. QED
        BY <4>1, <4>2
    <3>3. QED
      BY <3>1, <3>2
  <2>3. CASE \A s \in submitted : ~Commit(s)
    BY <2>1, <2>2, <2>3, OthersDecideNothing
  <2>4. ASSUME NEW s \in submitted, Commit(s)
        PROVE  verdict'[r] = verdict[r] /\ correction'[r] = correction[r] /\ value'[r] = value[r]
    <3>1. r # s.id
      BY <2>4 DEF Commit, ReceiptIsAsShown
    <3>2. correction'[r] = correction[r] /\ value'[r] = value[r]
      BY <2>4, <3>1 DEF Commit, RecordDecisions, ReviewTypeOK
    <3>3. \A f \in Fields : verdict'[r][f] = verdict[r][f]
      BY <2>4, <3>1, CommitDecides
    <3>4. verdict' \in [Receipts -> [Fields -> {"undecided", "accepted", "corrected"}]]
      BY <2>4, DecisionsType DEF Commit
    <3>5. QED
      BY <3>2, <3>3, <3>4 DEF ReviewTypeOK
  <2>5. QED
    BY <2>1, <2>2, <2>3, <2>4
<1>2. QED
  BY <1>1, ReadingsHold, ReviewTypeCorrect, PTL DEF ReviewSpec, TombstoneIsFrozen

\* The parser's history asks for no review before it is completed.
Unreviewed ==
  \A r \in Receipts : step[r] \notin {"leaving", "over"} => outcome[r] = "not_applicable"

LEMMA StepUnreviewed == ReviewTypeOK /\ Unreviewed /\ [ReviewNext]_vars => Unreviewed'
<1> SUFFICES ASSUME ReviewTypeOK, Unreviewed, [ReviewNext]_vars,
                    NEW r \in Receipts, step'[r] \notin {"leaving", "over"}
             PROVE  outcome'[r] = "not_applicable"
  BY DEF Unreviewed
<1>1. CASE ProcessingStep
  BY <1>1 DEF Unreviewed, ProcessingStep, CreateOcrHistory, CompleteOcr, CreateParserHistory,
    FailParser, StoreCandidates, CompleteParser, AbandonProcessing, Goes, tables, history,
    ReviewTypeOK
<1>2. CASE ScreensStep
  BY <1>2 DEF Unreviewed, ScreensStep, ShowImported, Open, LoadEvidence, LoadHistory, LoadFails,
    Edit, Back, Classify, Delete, Crash, Goes, tables, history, ReviewTypeOK
<1>3. CASE \E values \in Held : Save(values)
  BY <1>3 DEF Unreviewed, Save, tables, history
<1>4. ASSUME NEW s \in submitted, Commit(s) \/ RollBack(s) PROVE outcome'[r] = "not_applicable"
  BY <1>4 DEF Unreviewed, Commit, CloseHistory, HistoryIsPending, RollBack, tables, history
<1>5. CASE UNCHANGED vars
  BY <1>5 DEF Unreviewed, vars, tables, history
<1>6. QED
  BY <1>1, <1>2, <1>3, <1>4, <1>5, NextCases

LEMMA UnreviewedHolds == ReviewSpec => []Unreviewed
<1>1. ReviewInit => Unreviewed
  BY DEF ReviewInit, Unreviewed
<1>2. QED
  BY <1>1, StepUnreviewed, ReviewTypeCorrect, PTL DEF ReviewSpec

\* A verdict or the end of a pending history comes with the update of the
\* same receipt, in one transaction.
THEOREM DecisionsAreAtomic == ReviewSpec => DecisionsComeWithTheUpdate
<1> DEFINE Atomic == \A r \in Receipts :
                       \/ verdict'[r] # verdict[r]
                       \/ outcome[r] = "pending" /\ outcome'[r] # "pending"
                       => \E s \in submitted \ submitted' :
                            s.id = r /\ value'[r] = s.value /\ version'[r] = s.version + 1
<1>1. ReviewTypeOK /\ Readings /\ Unreviewed /\ [ReviewNext]_vars => [Atomic]_vars
  <2> SUFFICES ASSUME ReviewTypeOK, Readings, Unreviewed, [ReviewNext]_vars, NEW r \in Receipts,
                      \/ verdict'[r] # verdict[r]
                      \/ outcome[r] = "pending" /\ outcome'[r] # "pending"
               PROVE  \E s \in submitted \ submitted' :
                        s.id = r /\ value'[r] = s.value /\ version'[r] = s.version + 1
    OBVIOUS
  <2>1. CASE \A s \in submitted : ~Commit(s)
    <3>1. outcome' = outcome \/ \E t \in Receipts : CompleteParser(t)
      BY <2>1, NextCases DEF ProcessingStep, CreateOcrHistory, CompleteOcr,
        CreateParserHistory, FailParser, StoreCandidates, AbandonProcessing, ScreensStep,
        ShowImported, Open, LoadEvidence, LoadHistory, LoadFails, Edit, Back, Classify,
        Delete, Crash, Save, RollBack, vars, tables, history
    <3>2. ASSUME NEW t \in Receipts, CompleteParser(t), outcome[r] = "pending"
          PROVE  outcome'[r] = "pending"
      BY <3>2 DEF CompleteParser, Goes, Unreviewed, ReviewTypeOK
    <3>3. verdict' = verdict
      BY <2>1, OthersDecideNothing
    <3>4. QED
      BY <3>1, <3>2, <3>3
  <2>2. ASSUME NEW s \in submitted, Commit(s)
        PROVE  s.id = r /\ value'[r] = s.value /\ version'[r] = s.version + 1
    <3>1. ASSUME verdict'[r] # verdict[r] PROVE r = s.id
      <4>1. verdict' \in [Receipts -> [Fields -> {"undecided", "accepted", "corrected"}]]
        BY <2>2, DecisionsType DEF Commit
      <4>2. PICK f \in Fields : verdict'[r][f] # verdict[r][f]
        BY <3>1, <4>1 DEF ReviewTypeOK
      <4>3. QED
        BY <2>2, <4>2, CommitDecides
    <3>2. ASSUME outcome[r] = "pending", outcome'[r] # "pending" PROVE r = s.id
      BY <2>2, <3>2 DEF Commit, CloseHistory, HistoryIsPending
    <3>3. r = s.id
      BY <3>1, <3>2
    <3>4. QED
      BY <2>2, <3>3 DEF Commit, ReceiptIsAsShown, ReviewTypeOK
  <2>3. QED
    BY <2>1, <2>2 DEF Commit
<1>2. QED
  BY <1>1, ReadingsHold, UnreviewedHolds, ReviewTypeCorrect, PTL
  DEF ReviewSpec, DecisionsComeWithTheUpdate
=============================================================================
