---------------------------- MODULE ReceiptReview ----------------------------
(***************************************************************************)
(* Text recognition of an imported receipt, and the review of what it      *)
(* found.                                                                  *)
(*                                                                         *)
(* ReceiptOcrCoordinator.process runs in the background of the import and  *)
(* writes processing history and candidate evidence, one transaction at a  *)
(* time.  Meanwhile the user opens the receipt, edits it, or reviews the   *)
(* candidates from what the detail screen has read of the tables, possibly *)
(* long before.  SqliteReceiptReviewRepository.review decides whether what *)
(* was read still holds.                                                   *)
(*                                                                         *)
(* An import recognises its receipt once, so a receipt has one history row *)
(* of each processor and a field at most one candidate.  Of the user's     *)
(* corrections of a field only the last can be the preferred evidence      *)
(* (canSupersedeFieldEvidence, the clock never going back), and only that  *)
(* one is kept.                                                            *)
(***************************************************************************)
EXTENDS Naturals, FiniteSets

CONSTANTS
  Receipts,         \* the receipts of the device
  Imported,         \* those of an import that is about to recognise them
  Fields,           \* evidenceFieldNames
  Values,           \* what a field can hold
  Placeholder,      \* Placeholder[f]: what a receipt is created with
  MaxVersion,       \* bound on receipts.version
  MaxSubmissions    \* bound on the reviews awaited at a time

None == "none"
Held == [Fields -> Values]
Perhaps == [Fields -> Values \cup {None}]

ASSUME NoneIsNoValue == None \notin Values /\ None \notin Receipts
ASSUME ImportedAreReceipts == Imported \subseteq Receipts
ASSUME PlaceholderIsHeld == Placeholder \in Held
ASSUME ReviewBounds == MaxVersion \in Nat /\ MaxSubmissions \in Nat

VARIABLES
  \* SQLite
  receipt,      \* receipts: active or a tombstone
  version,      \* receipts.version
  value,        \* the reviewed columns of receipts
  candidate,    \* field_evidence of the parser, if it found the field
  verdict,      \* its accepted_at and corrected_at
  correction,   \* field_evidence of the user: the last correction
  ocr,          \* processing_history of the recogniser: status
  parser,       \* processing_history of the parser: status
  outcome,      \* its review_status
  \* the application
  step,         \* the await of process() for a receipt
  screen,       \* route.name
  shown,        \* route.receipt
  seen,         \* the suggestions of the screen, and whose they are
  pending,      \* the history rows the screen takes for pending
  loading,      \* the reads of the detail screen that are not back
  submitted,    \* the reviews that are awaited
  saving        \* the one the form on screen awaits

tables == <<receipt, version, value, candidate, verdict, correction, ocr, parser, outcome>>
receipts == <<receipt, version, value>>
evidence == <<candidate, verdict, correction>>
history == <<ocr, parser, outcome>>
ui == <<screen, shown, seen, pending, loading, submitted, saving>>
vars == <<tables, step, ui>>

Reads == {"evidence", "history"}
Statuses == {"none", "running", "succeeded", "failed", "cancelled"}
Steps == {"begin", "recognising", "recognised", "parsing", "stored", "leaving", "over"}

Receipt == [id : Receipts \cup {None}, version : Nat, value : Held]
Suggestions == [of : Receipts \cup {None}, value : Perhaps]
Submission ==
  [id : Receipts, version : Nat, base : Held, value : Held,
   of : Receipts \cup {None}, suggested : Perhaps, ids : SUBSET Receipts]

NoReceipt == [id |-> None, version |-> 0, value |-> Placeholder]
NothingSeen == [of |-> None, value |-> [f \in Fields |-> None]]

\* A screen that shows a receipt shows one that exists, only a detail screen
\* awaits reads, and a form waits for a review that is on its way.
ReviewTypeOK ==
  /\ receipt \in [Receipts -> {"active", "tombstone"}]
  /\ version \in [Receipts -> Nat]
  /\ value \in [Receipts -> Held]
  /\ candidate \in [Receipts -> Perhaps]
  /\ verdict \in [Receipts -> [Fields -> {"undecided", "accepted", "corrected"}]]
  /\ correction \in [Receipts -> Perhaps]
  /\ ocr \in [Receipts -> Statuses]
  /\ parser \in [Receipts -> Statuses]
  /\ outcome \in [Receipts -> {"not_applicable", "pending", "accepted", "corrected"}]
  /\ step \in [Receipts -> Steps]
  /\ screen \in {"list", "detail", "edit"}
  /\ shown \in Receipt
  /\ screen # "list" => shown.id # None
  /\ seen \in Suggestions
  /\ pending \in SUBSET Receipts
  /\ loading \in SUBSET Reads
  /\ loading # {} => screen = "detail"
  /\ submitted \in SUBSET Submission
  /\ saving \in SUBSET submitted

ReviewInit ==
  /\ receipt = [r \in Receipts |-> "active"]
  /\ version = [r \in Receipts |-> 1]
  /\ value = [r \in Receipts |-> Placeholder]
  /\ candidate = [r \in Receipts |-> NothingSeen.value]
  /\ verdict = [r \in Receipts |-> [f \in Fields |-> "undecided"]]
  /\ correction = [r \in Receipts |-> NothingSeen.value]
  /\ ocr = [r \in Receipts |-> "none"]
  /\ parser = [r \in Receipts |-> "none"]
  /\ outcome = [r \in Receipts |-> "not_applicable"]
  /\ step = [r \in Receipts |-> IF r \in Imported THEN "begin" ELSE "over"]
  /\ screen = "list"
  /\ shown = NoReceipt
  /\ seen = NothingSeen
  /\ pending = {}
  /\ loading = {}
  /\ submitted = {}
  /\ saving = {}

-----------------------------------------------------------------------------
(* ReceiptOcrCoordinator.process. *)

Goes(r, from, to) == step[r] = from /\ step' = [step EXCEPT ![r] = to]

CreateOcrHistory(r) ==
  /\ Goes(r, "begin", "recognising")
  /\ receipt[r] = "active"
  /\ ocr' = [ocr EXCEPT ![r] = "running"]
  /\ UNCHANGED <<receipts, evidence, parser, outcome, ui>>

\* The provider is unavailable, fails or is cancelled, or has a text.
CompleteOcr(r) ==
  /\ step[r] = "recognising"
  /\ \/ /\ ocr' = [ocr EXCEPT ![r] = "succeeded"]
        /\ Goes(r, "recognising", "recognised")
     \/ /\ \E status \in {"failed", "cancelled"} : ocr' = [ocr EXCEPT ![r] = status]
        /\ Goes(r, "recognising", "leaving")
  /\ UNCHANGED <<receipts, evidence, parser, outcome, ui>>

CreateParserHistory(r) ==
  /\ Goes(r, "recognised", "parsing")
  /\ receipt[r] = "active"
  /\ parser' = [parser EXCEPT ![r] = "running"]
  /\ UNCHANGED <<receipts, evidence, ocr, outcome, ui>>

\* The text cannot be parsed, or the candidates cannot be stored.
FailParser(r) ==
  /\ Goes(r, "parsing", "leaving")
  /\ parser' = [parser EXCEPT ![r] = "failed"]
  /\ UNCHANGED <<receipts, evidence, ocr, outcome, ui>>

\* Mutant: createMany without assertActiveReceipt.
StoreCandidatesOfAny(r) ==
  /\ Goes(r, "parsing", "stored")
  /\ \E found \in Perhaps : candidate' = [candidate EXCEPT ![r] = found]
  /\ UNCHANGED <<receipts, verdict, correction, history, ui>>

\* createMany: all candidates in one transaction, of an active receipt.  When
\* there are none, nothing is asked.
StoreCandidates(r) ==
  /\ Goes(r, "parsing", "stored")
  /\ \E found \in Perhaps :
       /\ receipt[r] = "active" \/ found = NothingSeen.value
       /\ candidate' = [candidate EXCEPT ![r] = found]
  /\ UNCHANGED <<receipts, verdict, correction, history, ui>>

CompleteParser(r) ==
  /\ Goes(r, "stored", "leaving")
  /\ parser' = [parser EXCEPT ![r] = "succeeded"]
  /\ outcome' = [outcome EXCEPT ![r] =
       IF candidate[r] = NothingSeen.value THEN "not_applicable" ELSE "pending"]
  /\ UNCHANGED <<receipts, evidence, ocr, ui>>

\* A PDF is not recognised; and each transaction, and the question for the
\* provider, can throw with nothing completed.
AbandonProcessing(r) ==
  /\ step[r] \in {"begin", "recognising", "recognised", "parsing", "stored"}
  /\ step' = [step EXCEPT ![r] = "leaving"]
  /\ UNCHANGED <<tables, ui>>

-----------------------------------------------------------------------------
(* The screens. *)

\* setRoute({name: 'detail', receipt}).  A detail screen that is mounted stays
\* mounted: it reads again only for another receipt, and shows what it has
\* until then.
ShowDetail(shows) ==
  /\ screen' = "detail"
  /\ shown' = shows
  /\ saving' = {}
  /\ IF screen = "detail"
     THEN /\ loading' = IF shows.id = shown.id THEN loading ELSE Reads
          /\ UNCHANGED <<seen, pending>>
     ELSE /\ loading' = Reads
          /\ seen' = NothingSeen
          /\ pending' = {}

ShowList ==
  /\ screen' = "list"
  /\ shown' = NoReceipt
  /\ seen' = NothingSeen
  /\ pending' = {}
  /\ loading' = {}
  /\ saving' = {}

Row(r) == [id |-> r, version |-> version[r], value |-> value[r]]

\* The end of importReceipt shows the receipt as the import created it.
ShowImported(r) ==
  /\ Goes(r, "leaving", "over")
  /\ ShowDetail([id |-> r, version |-> 1, value |-> Placeholder])
  /\ UNCHANGED <<tables, submitted>>

Open(r) ==
  /\ screen = "list"
  /\ receipt[r] = "active"
  /\ ShowDetail(Row(r))
  /\ UNCHANGED <<tables, step, submitted>>

\* getPreferredSuggestions: a candidate nobody has decided, unless the user's
\* correction outranks it.
Undecided(r) ==
  [f \in Fields |-> IF verdict[r][f] = "undecided" /\ correction[r][f] = None
                    THEN candidate[r][f] ELSE None]

LoadEvidence ==
  /\ "evidence" \in loading
  /\ loading' = loading \ {"evidence"}
  /\ seen' = [of |-> shown.id, value |-> Undecided(shown.id)]
  /\ UNCHANGED <<tables, step, screen, shown, pending, submitted, saving>>

LoadHistory ==
  /\ "history" \in loading
  /\ loading' = loading \ {"history"}
  /\ pending' = {r \in {shown.id} : parser[r] = "succeeded" /\ outcome[r] = "pending"}
  /\ UNCHANGED <<tables, step, screen, shown, seen, submitted, saving>>

\* What was shown stays.
LoadFails ==
  /\ \E read \in loading : loading' = loading \ {read}
  /\ UNCHANGED <<tables, step, screen, shown, seen, pending, submitted, saving>>

\* onEdit takes along what the detail screen holds.
Edit ==
  /\ screen = "detail"
  /\ screen' = "edit"
  /\ loading' = {}
  /\ UNCHANGED <<tables, step, shown, seen, pending, submitted, saving>>

\* The back button works while a review is awaited.
Back ==
  /\ screen # "list"
  /\ IF screen = "edit" THEN ShowDetail(shown) ELSE ShowList
  /\ UNCHANGED <<tables, step, submitted>>

Classify ==
  /\ screen = "detail"
  /\ receipt[shown.id] = "active"
  /\ version[shown.id] = shown.version
  /\ shown.version < MaxVersion
  /\ version' = [version EXCEPT ![shown.id] = @ + 1]
  /\ shown' = [shown EXCEPT !.version = @ + 1]
  /\ UNCHANGED <<receipt, value, evidence, history, step, screen, seen, pending, loading,
                 submitted, saving>>

Delete ==
  /\ screen = "detail"
  /\ receipt[shown.id] = "active"
  /\ version[shown.id] = shown.version
  /\ receipt' = [receipt EXCEPT ![shown.id] = "tombstone"]
  /\ version' = [version EXCEPT ![shown.id] = @ + 1]
  /\ ShowList
  /\ UNCHANGED <<value, evidence, history, step, submitted>>

-----------------------------------------------------------------------------
(* A review, from the form to the transaction. *)

Suggested(s) == {f \in Fields : s.suggested[f] # None}
Accepted(s) == {f \in Suggested(s) : s.suggested[f] = s.value[f]}
Rejected(s) == Suggested(s) \ Accepted(s)
Corrected(s) ==
  Rejected(s) \cup {f \in Fields \ Suggested(s) : s.value[f] # s.base[f]}

\* buildReceiptReviewInput.  The form is prefilled with the suggestions, but
\* the user may change every field.  Base is what the form was opened on.
Save(values) ==
  /\ screen = "edit"
  /\ saving = {}
  /\ shown.version < MaxVersion
  /\ Cardinality(submitted) < MaxSubmissions
  /\ LET s == [id |-> shown.id, version |-> shown.version, base |-> shown.value,
               value |-> values, of |-> seen.of, suggested |-> seen.value,
               ids |-> IF seen.value = NothingSeen.value THEN {} ELSE pending]
     IN  /\ s \notin submitted
         /\ submitted' = submitted \cup {s}
         /\ saving' = {s}
  /\ UNCHANGED <<tables, step, screen, shown, seen, pending, loading>>

\* Mutant: evidence is found by its identifier alone.
EvidenceIsUndecided(s) ==
  \A f \in Suggested(s) : verdict[s.of][f] = "undecided"

\* Mutant: evidence that was decided can be decided again.
EvidenceIsOfReceipt(s) == Suggested(s) # {} => s.of = s.id

\* #validateReviewedEvidence, and the WHERE clause of the update.
EvidenceIsOpen(s) ==
  \A f \in Suggested(s) : s.of = s.id /\ verdict[s.of][f] = "undecided"

\* Mutant: the review is not versioned.
ReceiptIsActive(s) == receipt[s.id] = "active"

\* requireActiveReceipt, assertExpectedVersion.
ReceiptIsAsShown(s) == receipt[s.id] = "active" /\ version[s.id] = s.version

\* validateCorrectionCoverage, with the values in the table.
ChangesAreCovered(s) ==
  \A f \in Fields :
    /\ value[s.id][f] # s.value[f] => f \in Accepted(s) \cup Corrected(s)
    /\ f \in Corrected(s) => value[s.id][f] # s.value[f] \/ f \in Rejected(s)

\* #validateProcessingHistory.
HistoryIsPending(s) ==
  \A h \in s.ids : h = s.id /\ parser[h] = "succeeded" /\ outcome[h] = "pending"

\* accepted_at or corrected_at of the candidates that were reviewed.
MarkCandidates(s) ==
  verdict' = [r \in Receipts |-> [f \in Fields |->
    IF r # s.of \/ f \notin Suggested(s) THEN verdict[r][f] ELSE
    IF f \in Accepted(s) THEN "accepted" ELSE "corrected"]]

\* Mutant: a rejected candidate is marked, and the user's value not recorded.
RecordWithoutCorrections(s) ==
  /\ MarkCandidates(s)
  /\ correction' = [correction EXCEPT ![s.id] = [f \in Fields |->
       IF f \in Corrected(s) \ Rejected(s) THEN s.value[f] ELSE correction[s.id][f]]]

\* The candidates of the review are marked, the corrections inserted.
RecordDecisions(s) ==
  /\ MarkCandidates(s)
  /\ correction' = [correction EXCEPT ![s.id] = [f \in Fields |->
       IF f \in Corrected(s) THEN s.value[f] ELSE correction[s.id][f]]]

CloseHistory(s) ==
  outcome' = [h \in Receipts |->
    IF h \notin s.ids THEN outcome[h] ELSE
    IF Rejected(s) = {} THEN "accepted" ELSE "corrected"]

\* SqliteReceiptReviewRepository.review, and the end of submit.
Commit(s) ==
  /\ s \in submitted
  /\ EvidenceIsOpen(s)
  /\ ReceiptIsAsShown(s)
  /\ ChangesAreCovered(s)
  /\ HistoryIsPending(s)
  /\ value' = [value EXCEPT ![s.id] = s.value]
  /\ version' = [version EXCEPT ![s.id] = @ + 1]
  /\ RecordDecisions(s)
  /\ CloseHistory(s)
  /\ submitted' = submitted \ {s}
  /\ ShowDetail([id |-> s.id, version |-> version[s.id] + 1, value |-> s.value])
  /\ UNCHANGED <<receipt, candidate, ocr, parser, step>>

\* Mutant: the form goes on saving when the review is refused.
RollBackSilently(s) ==
  /\ s \in submitted
  /\ submitted' = submitted \ {s}
  /\ UNCHANGED <<tables, step, screen, shown, seen, pending, loading, saving>>

\* A check refuses the review or the transaction fails: nothing is written,
\* and the form, if it is still there, can be saved again.
RollBack(s) ==
  /\ s \in submitted
  /\ submitted' = submitted \ {s}
  /\ saving' = saving \ {s}
  /\ UNCHANGED <<tables, step, screen, shown, seen, pending, loading>>

-----------------------------------------------------------------------------

\* The tables survive, nothing that was going on does.
Crash ==
  /\ step' = [r \in Receipts |-> "over"]
  /\ submitted' = {}
  /\ ShowList
  /\ UNCHANGED tables

ReviewNext ==
  \/ \E r \in Receipts :
       \/ CreateOcrHistory(r) \/ CompleteOcr(r) \/ CreateParserHistory(r)
       \/ FailParser(r) \/ StoreCandidates(r) \/ CompleteParser(r)
       \/ AbandonProcessing(r) \/ ShowImported(r) \/ Open(r)
  \/ LoadEvidence \/ LoadHistory \/ LoadFails
  \/ Edit \/ Back \/ Classify \/ Delete
  \/ \E values \in Held : Save(values)
  \/ \E s \in submitted : Commit(s) \/ RollBack(s)
  \/ Crash

ReviewSpec == ReviewInit /\ [][ReviewNext]_vars

-----------------------------------------------------------------------------
(* Properties. *)

\* Every saved value has its provenance: it is what the receipt was created
\* with and nobody has decided anything, or the user's last correction, or a
\* candidate the user accepted (ADR-0004).
ValueIsExplained ==
  \A r \in Receipts, f \in Fields :
    \/ /\ value[r][f] = Placeholder[f]
       /\ verdict[r][f] = "undecided" /\ correction[r][f] = None
    \/ value[r][f] = correction[r][f]
    \/ verdict[r][f] = "accepted" /\ value[r][f] = candidate[r][f]

\* A suggestion is accepted or corrected once, although a form can hold it
\* as undecided when another review has decided it: the back button leaves a
\* review awaited, and its end does not make the detail screen read again.
DecidedOnce ==
  [][\A r \in Receipts, f \in Fields :
       verdict[r][f] # "undecided" => verdict'[r][f] = verdict[r][f]]_vars

\* A saved form overwrites only the values it was opened on, whatever was
\* saved between (optimistic versions).
NoLostUpdate ==
  [][\A s \in submitted \ submitted' :
       version'[s.id] # version[s.id] => value[s.id] = s.base]_vars

\* A decision about a candidate, or the end of a pending history, comes in
\* the transaction that updates the same receipt, although the screen can
\* hold another receipt's evidence and history beside the one it shows.
DecisionsComeWithTheUpdate ==
  [][\A r \in Receipts :
       \/ verdict'[r] # verdict[r]
       \/ outcome[r] = "pending" /\ outcome'[r] # "pending"
       => \E s \in submitted \ submitted' :
            s.id = r /\ value'[r] = s.value /\ version'[r] = s.version + 1]_vars

\* Nothing is learnt or decided about a deleted receipt, although its
\* recognition and its reviews may be on their way.
TombstoneIsFrozen ==
  [][\A r \in Receipts : receipt[r] = "tombstone" =>
       /\ receipt'[r] = "tombstone"
       /\ candidate'[r] = candidate[r]
       /\ verdict'[r] = verdict[r]
       /\ correction'[r] = correction[r]
       /\ value'[r] = value[r]]_vars

\* README:26, "Accepted suggestions, user corrections, receipt updates, and
\* parser review status are committed atomically": a parser run whose
\* candidate was decided is not left pending.
ReviewClosesHistory ==
  [][\A r \in Receipts :
       verdict'[r] # verdict[r] => outcome'[r] \in {"accepted", "corrected"}]_vars
=============================================================================
