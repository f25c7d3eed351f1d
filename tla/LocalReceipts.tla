---------------------------- MODULE LocalReceipts ----------------------------
(***************************************************************************)
(* How receipts and their files come and go on the device: the import of a *)
(* receipt file, the deletion of one receipt, the cleanup of files that    *)
(* are still pending, the deletion of all data, and the application that   *)
(* runs them, is closed or crashes, and starts again.                      *)
(*                                                                         *)
(* JavaScript runs one callback at a time, so a step is what the code does *)
(* between two awaits: one transaction or one file operation with the      *)
(* assignments around it.  Everything that awaits interleaves: imports,    *)
(* cleanup passes started by several screens, and delete-all.              *)
(***************************************************************************)
EXTENDS ReceiptStore

CONSTANTS
  Deletions,     \* receipt deletions a user can have in flight
  MaxVersion,    \* bound: the user edits a receipt up to this version
  MaxCrashes     \* bound: how often the application dies

ASSUME SomeReceipt == Receipts # {}
ASSUME BoundsAreNaturals == MaxVersion \in Nat /\ MaxCrashes \in Nat
ASSUME NamesDiffer ==
  Deletions \cap {"retry", "all", "closed", "opening", "ready", "modal", "panel"} = {}

VARIABLES
  screen,    \* what the user sees, see Screens
  issue,     \* App.cleanupIssue: the expense list shows the retry button
  retrying,  \* App.retryingCleanup
  import,    \* where the import of each receipt stands
  part,      \* which document of the receipt the import is storing
  pass,      \* where each cleanup pass stands
  refresh,   \* deletions now in their onRefreshCleanup pass
  ask,       \* what the detail screen knew when its deletion was confirmed
  todo,      \* listed documents the pass has not reached
  cur,       \* the document whose file is erased and not yet marked
  failed,    \* the documents the pass could not clean up
  leaked,    \* history: files left by a failed removal or a crash
  unopened,  \* history: files created on the web and never opened for writing
  crashes    \* history: how often the application died

app == <<screen, issue, retrying>>
imports == <<import, part>>
queue == <<todo, cur, failed>>
passes == <<pass, refresh, ask, queue>>
ghosts == <<leaked, unopened, crashes>>
vars == <<store, app, imports, passes, ghosts>>

\* A cleanup pass belongs to a receipt deletion, to the retry button (and the
\* startup, which runs the same code before any button is there), or to
\* delete-all.
Passes == Deletions \cup {"retry", "all"}

\* "ready" stands for every screen of normal use, a deletion for the detail
\* screen it was confirmed on, "modal" for the delete-all dialog over the
\* list, "panel" for the screen that offers only to retry delete-all.
Screens == {"closed", "opening", "ready", "modal", "panel"} \cup Deletions

ImportStages == {"unused", "picking", "creating", "checking", "writing", "filling",
                 "inserting", "undoing", "failing", "reading", "done"}
PassStages == {"idle", "tombstone", "list", "erase", "mark", "shown",
               "secrets", "finalize"}
Asks == [receipt : Receipts, version : Nat, retrying : BOOLEAN]
NoAsk == [receipt |-> CHOOSE r \in Receipts : TRUE, version |-> 0,
          retrying |-> FALSE]

TypeOK ==
  /\ StoreTypeOK
  /\ screen \in Screens
  /\ issue \in BOOLEAN
  /\ retrying \in BOOLEAN
  /\ import \in [Receipts -> ImportStages]
  /\ part \in [Receipts -> Kinds]
  /\ pass \in [Passes -> PassStages]
  /\ refresh \in SUBSET Deletions
  /\ ask \in [Deletions -> Asks]
  /\ todo \in [Passes -> SUBSET Docs]
  /\ cur \in [Passes -> SUBSET Docs]
  /\ failed \in [Passes -> SUBSET Docs]
  /\ leaked \in SUBSET Docs
  /\ unopened \in SUBSET Docs
  /\ crashes \in Nat

NoPasses ==
  /\ pass' = [p \in Passes |-> "idle"]
  /\ refresh' = {}
  /\ ask' = [s \in Deletions |-> NoAsk]
  /\ todo' = [p \in Passes |-> {}]
  /\ cur' = [p \in Passes |-> {}]
  /\ failed' = [p \in Passes |-> {}]

Init ==
  /\ StoreInit
  /\ screen = "closed"
  /\ issue = FALSE
  /\ retrying = FALSE
  /\ import = [r \in Receipts |-> "unused"]
  /\ part = [r \in Receipts |-> "original"]
  /\ pass = [p \in Passes |-> "idle"]
  /\ refresh = {}
  /\ ask = [s \in Deletions |-> NoAsk]
  /\ todo = [p \in Passes |-> {}]
  /\ cur = [p \in Passes |-> {}]
  /\ failed = [p \in Passes |-> {}]
  /\ leaked = {}
  /\ unopened = {}
  /\ crashes = 0

-----------------------------------------------------------------------------
(* Importing a receipt file: App.importReceipt, ReceiptCaptureCoordinator,  *)
(* AttachmentIngestor and AttachmentPreviewWriter.                          *)

\* App.importing, which disables the buttons; it is set when the picker has
\* returned, so several pickers may have been opened before.
Importing == \E r \in Receipts : import[r] \notin {"unused", "picking", "done"}

\* The document an import is storing.
Storing(r) == <<r, part[r]>>

Goto(r, stage) == import' = [import EXCEPT ![r] = stage]

PickFile(r) ==
  /\ screen = "ready"
  /\ import[r] = "unused"
  /\ ~Importing
  /\ Goto(r, "picking")
  /\ UNCHANGED <<store, app, part, passes, ghosts>>

\* The picker returns a file, or null when the user cancels.
PickerReturns(r) ==
  /\ import[r] = "picking"
  /\ \E stage \in {"creating", "unused"} : Goto(r, stage)
  /\ UNCHANGED <<store, app, part, passes, ghosts>>

CreatePending(r) ==
  /\ import[r] = "creating"
  /\ CreateReceipt(r)
  /\ Goto(r, "checking")
  /\ UNCHANGED <<app, part, passes, ghosts>>

\* The file cannot be read, or the receipt cannot be inserted.
CreatePendingFails(r) ==
  /\ import[r] = "creating"
  /\ Goto(r, "done")
  /\ UNCHANGED <<store, app, part, passes, ghosts>>

AcceptFile(r) ==
  /\ import[r] = "checking"
  /\ OriginalWithContentOf(r) = {}
  /\ Goto(r, "writing")
  /\ UNCHANGED <<store, app, part, passes, ghosts>>

\* The file breaks a limit, is not what it claims to be, or is a duplicate.
RejectFile(r) ==
  /\ import[r] = "checking"
  /\ Goto(r, "failing")
  /\ UNCHANGED <<store, app, part, passes, ghosts>>

StartWrite(r) ==
  /\ import[r] = "writing"
  /\ CreateFile(Storing(r))
  /\ Goto(r, "filling")
  /\ UNCHANGED <<app, part, passes, ghosts>>

FinishWrite(r) ==
  /\ import[r] = "filling"
  /\ FillFile(Storing(r))
  /\ Goto(r, "inserting")
  /\ UNCHANGED <<app, part, passes, ghosts>>

\* An original that could not be stored fails the import, a preview does not:
\* text recognition goes on with what there is.
StoringFails(r) ==
  /\ Goto(r, IF part[r] = "original" THEN "failing" ELSE "reading")
  /\ UNCHANGED <<app, part, passes, crashes>>

\* The preview cannot be generated, or writeOnce fails and removes what it
\* created.
FailWrite(r) ==
  /\ import[r] \in {"writing", "filling"}
  /\ EraseFile(Storing(r))
  /\ StoringFails(r)
  /\ UNCHANGED <<leaked, unopened>>

\* createWritable throws on the web, before the try whose catch removes the
\* file: the file stays, empty, and nothing tries to remove it.
OpenWriteFails(r) ==
  /\ import[r] = "filling"
  /\ StoringFails(r)
  /\ unopened' = unopened \cup {Storing(r)}
  /\ UNCHANGED <<store, leaked>>

\* writeOnce fails and so does its own removal of the file.
FailWriteAndRemoval(r) ==
  /\ import[r] = "filling"
  /\ StoringFails(r)
  /\ leaked' = leaked \cup {Storing(r)}
  /\ UNCHANGED <<store, unopened>>

\* documents.create succeeds: an original image is followed by its preview.
InsertStored(r) ==
  /\ import[r] = "inserting"
  /\ InsertDocument(Storing(r))
  /\ IF part[r] = "original" /\ r \in Images
     THEN part' = [part EXCEPT ![r] = "preview"] /\ Goto(r, "writing")
     ELSE Goto(r, "reading") /\ UNCHANGED part
  /\ UNCHANGED <<app, passes, ghosts>>

\* documents.create throws: a check fails, or the transaction does.
InsertFails(r) ==
  /\ import[r] = "inserting"
  /\ Goto(r, "undoing")
  /\ UNCHANGED <<store, app, part, passes, ghosts>>

\* Mutant: the error of documents.create is thrown on without compensation.
UndoNothing(r) ==
  /\ import[r] = "undoing"
  /\ StoringFails(r)
  /\ UNCHANGED <<store, leaked, unopened>>

UndoWrite(r) ==
  /\ import[r] = "undoing"
  /\ EraseFile(Storing(r))
  /\ StoringFails(r)
  /\ UNCHANGED <<leaked, unopened>>

\* The AggregateError of a compensation that fails.
UndoFails(r) ==
  /\ import[r] = "undoing"
  /\ StoringFails(r)
  /\ leaked' = leaked \cup {Storing(r)}
  /\ UNCHANGED <<store, unopened>>

\* Text recognition ends, whatever its result, and importReceipt navigates to
\* the imported expense, which unmounts the screen the user is on.
ShowImported(r) ==
  /\ import[r] = "reading"
  /\ Goto(r, "done")
  /\ screen' = IF screen = "modal" \/ screen \in Deletions THEN "ready" ELSE screen
  /\ UNCHANGED <<store, issue, retrying, part, passes, ghosts>>

\* The pending receipt of a failed import is deleted at the version it was
\* created with.
DropFailedImport(r) ==
  /\ import[r] = "failing"
  /\ TombstoneReceipt(r, 1)
  /\ Goto(r, "done")
  /\ UNCHANGED <<app, part, passes, ghosts>>

\* It was edited or deleted meanwhile, or the transaction fails.
KeepFailedImport(r) ==
  /\ import[r] = "failing"
  /\ Goto(r, "done")
  /\ UNCHANGED <<store, app, part, passes, ghosts>>

\* A manual expense is a receipt without documents.
CreateManual(r) ==
  /\ screen = "ready"
  /\ import[r] = "unused"
  /\ ~Importing
  /\ CreateReceipt(r)
  /\ Goto(r, "done")
  /\ UNCHANGED <<app, part, passes, ghosts>>

EditReceipt(r) ==
  /\ screen = "ready"
  /\ version[r] < MaxVersion
  /\ UpdateReceipt(r, version[r])
  /\ UNCHANGED <<app, imports, passes, ghosts>>

-----------------------------------------------------------------------------
(* Cleanup passes: ReceiptDeletionCoordinator and the screens that use it.  *)

\* Passes over everything that is pending, not over one receipt or delete-all.
CleansPending(p) == p = "retry" \/ p \in refresh

At(p, stage) == pass' = [pass EXCEPT ![p] = stage]

\* The detail screen confirms a deletion: listByReceiptId.  The screen passes
\* the version it shows, and the retryingCleanup of its last render.
ConfirmDeletion(s, r) ==
  /\ screen = "ready"
  /\ pass[s] = "idle"
  /\ receipt[r] = "active"
  /\ screen' = s
  /\ ask' = [ask EXCEPT ![s] = [receipt |-> r, version |-> version[r],
                                retrying |-> retrying]]
  /\ todo' = [todo EXCEPT ![s] = DocumentsOf(r)]
  /\ At(s, "tombstone")
  /\ UNCHANGED <<store, issue, retrying, imports, refresh, cur, failed, ghosts>>

DeleteReceipt(s) ==
  /\ pass[s] = "tombstone"
  /\ TombstoneReceipt(ask[s].receipt, ask[s].version)
  /\ ask' = [ask EXCEPT ![s] = [NoAsk EXCEPT !.retrying = ask[s].retrying]]
  /\ At(s, "erase")
  /\ UNCHANGED <<app, imports, refresh, queue, ghosts>>

\* The version is stale, the receipt is gone, or the transaction fails.
RefuseDeletion(s) ==
  /\ pass[s] = "tombstone"
  /\ At(s, "idle")
  /\ todo' = [todo EXCEPT ![s] = {}]
  /\ ask' = [ask EXCEPT ![s] = NoAsk]
  /\ UNCHANGED <<store, app, imports, refresh, cur, failed, ghosts>>

\* The user leaves the detail screen; what it awaits goes on.
GoBack ==
  /\ screen \in Deletions
  /\ screen' = "ready"
  /\ UNCHANGED <<store, issue, retrying, imports, passes, ghosts>>

\* Every pass but that of a receipt deletion lists what is pending.
ListPending(p) ==
  /\ pass[p] = "list"
  /\ todo' = [todo EXCEPT ![p] = PendingStorageDeletion]
  /\ failed' = [failed EXCEPT ![p] = {}]
  /\ At(p, "erase")
  /\ UNCHANGED <<store, app, imports, refresh, ask, cur, ghosts>>

EraseNext(p, d) ==
  /\ pass[p] = "erase"
  /\ d \in todo[p]
  /\ EraseFile(d)
  /\ todo' = [todo EXCEPT ![p] = @ \ {d}]
  /\ cur' = [cur EXCEPT ![p] = {d}]
  /\ At(p, "mark")
  /\ UNCHANGED <<app, imports, refresh, ask, failed, ghosts>>

\* Mutant: an error of storage.delete is swallowed.
EraseFailsUnnoticed(p, d) ==
  /\ pass[p] = "erase"
  /\ d \in todo[p]
  /\ todo' = [todo EXCEPT ![p] = @ \ {d}]
  /\ cur' = [cur EXCEPT ![p] = {d}]
  /\ At(p, "mark")
  /\ UNCHANGED <<store, app, imports, refresh, ask, failed, ghosts>>

EraseFails(p, d) ==
  /\ pass[p] = "erase"
  /\ d \in todo[p]
  /\ todo' = [todo EXCEPT ![p] = @ \ {d}]
  /\ failed' = [failed EXCEPT ![p] = @ \cup {d}]
  /\ UNCHANGED <<store, app, imports, pass, refresh, ask, cur, ghosts>>

MarkErased(p, d) ==
  /\ pass[p] = "mark"
  /\ d \in cur[p]
  /\ MarkStorageDeleted(d)
  /\ cur' = [cur EXCEPT ![p] = {}]
  /\ At(p, "erase")
  /\ UNCHANGED <<app, imports, refresh, ask, todo, failed, ghosts>>

\* The row is gone, or the transaction fails.
MarkFails(p) ==
  /\ pass[p] = "mark"
  /\ failed' = [failed EXCEPT ![p] = @ \cup cur[p]]
  /\ cur' = [cur EXCEPT ![p] = {}]
  /\ At(p, "erase")
  /\ UNCHANGED <<store, app, imports, refresh, ask, todo, ghosts>>

Listed(p) == pass[p] = "erase" /\ todo[p] = {}

\* A deletion that cleaned up everything lets the application look for more
\* (onRefreshCleanup), unless a retry was running when it was confirmed, and
\* then leaves for the list; one that did not shows the retry button.
EndDeletion(s) ==
  /\ s \in Deletions \ refresh
  /\ Listed(s)
  /\ IF failed[s] = {}
     THEN IF ask[s].retrying
          THEN /\ At(s, "idle")
               /\ screen' = IF screen \in Deletions THEN "ready" ELSE screen
               /\ UNCHANGED <<issue, retrying, refresh>>
          ELSE /\ At(s, "list")
               /\ refresh' = refresh \cup {s}
               /\ retrying' = TRUE
               /\ UNCHANGED <<screen, issue>>
     ELSE /\ issue' = TRUE
          /\ At(s, IF screen = s THEN "shown" ELSE "idle")
          /\ UNCHANGED <<screen, retrying, refresh>>
  /\ failed' = [failed EXCEPT ![s] = IF screen = s THEN @ ELSE {}]
  /\ ask' = [ask EXCEPT ![s] = NoAsk]
  /\ UNCHANGED <<store, imports, todo, cur, ghosts>>

\* The detail screen retries the documents that failed, not the deletion.
RetryShown(s) ==
  /\ pass[s] = "shown"
  /\ screen = s
  /\ todo' = [todo EXCEPT ![s] = failed[s]]
  /\ failed' = [failed EXCEPT ![s] = {}]
  /\ At(s, "erase")
  /\ UNCHANGED <<store, app, imports, refresh, ask, cur, ghosts>>

\* The failures shown by a screen are forgotten with the screen.
Unmount(s) ==
  /\ pass[s] = "shown"
  /\ screen # s
  /\ failed' = [failed EXCEPT ![s] = {}]
  /\ At(s, "idle")
  /\ UNCHANGED <<store, app, imports, refresh, ask, todo, cur, ghosts>>

\* Mutant: the button counts its pass among those of the deletions.
RetryCleanupAsRefresh ==
  /\ screen = "ready"
  /\ issue
  /\ ~retrying
  /\ retrying' = TRUE
  /\ refresh' = refresh \cup {"retry"}
  /\ At("retry", "list")
  /\ UNCHANGED <<store, screen, issue, imports, ask, queue, ghosts>>

\* The button of the expense list.
RetryCleanup ==
  /\ screen = "ready"
  /\ issue
  /\ ~retrying
  /\ pass["retry"] = "idle"
  /\ retrying' = TRUE
  /\ At("retry", "list")
  /\ UNCHANGED <<store, screen, issue, imports, refresh, ask, queue, ghosts>>

\* cleanupPending has returned, or its list has thrown: the button shows
\* whether something is left.  The startup gets here before its first screen,
\* a deletion goes on to the list.
ReportCleanup(p, left) ==
  /\ issue' = left
  /\ retrying' = FALSE
  /\ refresh' = refresh \ {p}
  /\ screen' = IF screen = "opening" \/ (p \in Deletions /\ screen \in Deletions)
               THEN "ready" ELSE screen
  /\ failed' = [failed EXCEPT ![p] = {}]
  /\ At(p, "idle")
  /\ UNCHANGED <<store, imports, ask, todo, cur, ghosts>>

EndCleanup(p) ==
  /\ CleansPending(p)
  /\ Listed(p)
  /\ ReportCleanup(p, failed[p] # {})

ListFails(p) ==
  /\ CleansPending(p)
  /\ pass[p] = "list"
  /\ ReportCleanup(p, TRUE)

-----------------------------------------------------------------------------
(* Delete-all: LocalDataDeletionCoordinator, the dialog and the panel.      *)

\* The dialog is confirmed: begin commits the intent and the tombstones.
ConfirmDeleteAll ==
  /\ screen = "ready"
  /\ pass["all"] = "idle"
  /\ BeginDeletion
  /\ screen' = "modal"
  /\ At("all", "list")
  /\ UNCHANGED <<file, issue, retrying, imports, refresh, ask, queue, ghosts>>

EndErasing ==
  /\ Listed("all")
  /\ failed["all"] = {}
  /\ At("all", "secrets")
  /\ UNCHANGED <<store, app, imports, refresh, ask, queue, ghosts>>

\* secrets.delete: the backup key is outside these two stores.
DeleteSecrets ==
  /\ pass["all"] = "secrets"
  /\ At("all", "finalize")
  /\ UNCHANGED <<store, app, imports, refresh, ask, queue, ghosts>>

CompleteDeleteAll ==
  /\ pass["all"] = "finalize"
  /\ FinalizeDeletion
  /\ issue' = FALSE
  /\ screen' = IF screen \in {"opening", "modal", "panel"} THEN "ready" ELSE screen
  /\ At("all", "idle")
  /\ UNCHANGED <<retrying, imports, refresh, ask, queue, ghosts>>

\* Documents failed, or the list, the secrets or finalize threw: the result
\* is cleanup_pending, and the panel replaces every other screen.
InterruptDeleteAll ==
  /\ \/ pass["all"] \in {"list", "secrets", "finalize"}
     \/ Listed("all") /\ failed["all"] # {}
  /\ screen' = "panel"
  /\ issue' = (screen = "panel" /\ issue)
  /\ failed' = [failed EXCEPT !["all"] = {}]
  /\ At("all", "idle")
  /\ UNCHANGED <<store, retrying, imports, refresh, ask, todo, cur, ghosts>>

\* resumePending finds the intent, or finds that nothing is left to do.
RetryDeleteAll ==
  /\ screen = "panel"
  /\ pass["all"] = "idle"
  /\ IF intent
     THEN At("all", "list") /\ UNCHANGED <<screen, issue>>
     ELSE screen' = "ready" /\ issue' = FALSE /\ UNCHANGED pass
  /\ UNCHANGED <<store, retrying, imports, refresh, ask, queue, ghosts>>

-----------------------------------------------------------------------------
(* The application starts, and dies.                                        *)

\* Mutant: the startup shows the list without looking for anything pending.
OpenWithoutCleanup ==
  /\ screen = "closed"
  /\ screen' = "ready"
  /\ UNCHANGED <<store, issue, retrying, imports, passes, ghosts>>

\* Mutant: the startup does not resume an interrupted delete-all.
OpenWithoutResuming ==
  /\ screen = "closed"
  /\ screen' = "opening"
  /\ At("retry", "list")
  /\ UNCHANGED <<store, issue, retrying, imports, refresh, ask, queue, ghosts>>

Open ==
  /\ screen = "closed"
  /\ screen' = "opening"
  /\ At(IF intent THEN "all" ELSE "retry", "list")
  /\ UNCHANGED <<store, issue, retrying, imports, refresh, ask, queue, ghosts>>

\* Everything that is not in one of the two stores is gone.
Crash ==
  /\ screen # "closed"
  /\ crashes < MaxCrashes
  /\ screen' = "closed"
  /\ issue' = FALSE
  /\ retrying' = FALSE
  /\ import' = [r \in Receipts |->
       IF import[r] \in {"unused", "picking"} THEN "unused" ELSE "done"]
  /\ NoPasses
  /\ leaked' = leaked \cup {d \in Docs : file[d] # "none" /\ row[d] # "stored"}
  /\ crashes' = crashes + 1
  /\ UNCHANGED <<store, part, unopened>>

-----------------------------------------------------------------------------
(* The specification. *)

ImportNext(r) ==
  \/ PickFile(r) \/ PickerReturns(r) \/ CreatePending(r) \/ CreatePendingFails(r)
  \/ AcceptFile(r) \/ RejectFile(r)
  \/ StartWrite(r) \/ FinishWrite(r) \/ FailWrite(r)
  \/ OpenWriteFails(r) \/ FailWriteAndRemoval(r)
  \/ InsertStored(r) \/ InsertFails(r) \/ UndoWrite(r) \/ UndoFails(r)
  \/ ShowImported(r)
  \/ DropFailedImport(r) \/ KeepFailedImport(r)
  \/ CreateManual(r) \/ EditReceipt(r)

CleanupNext(p) ==
  \/ ListPending(p) \/ ListFails(p)
  \/ \E d \in Docs : EraseNext(p, d) \/ EraseFails(p, d) \/ MarkErased(p, d)
  \/ MarkFails(p) \/ EndCleanup(p)

DeletionNext(s) ==
  \/ \E r \in Receipts : ConfirmDeletion(s, r)
  \/ DeleteReceipt(s) \/ RefuseDeletion(s) \/ EndDeletion(s)
  \/ RetryShown(s) \/ Unmount(s)

DeleteAllNext ==
  \/ ConfirmDeleteAll \/ EndErasing \/ DeleteSecrets \/ CompleteDeleteAll
  \/ InterruptDeleteAll \/ RetryDeleteAll

Next ==
  \/ \E r \in Receipts : ImportNext(r)
  \/ \E p \in Passes : CleanupNext(p)
  \/ \E s \in Deletions : DeletionNext(s)
  \/ DeleteAllNext
  \/ RetryCleanup \/ GoBack \/ Open \/ Crash

Spec == Init /\ [][Next]_vars

\* What runs without the user goes on as long as the application does.  A
\* file operation, a transaction or the key store may fail any number of
\* times, but not for ever.
ProgramRuns ==
  /\ \A s \in Deletions : WF_vars(CleanupNext(s) \/ EndDeletion(s))
  /\ WF_vars(CleanupNext("retry"))
  /\ WF_vars(CleanupNext("all") \/ EndErasing \/ InterruptDeleteAll)
  /\ SF_vars(\E p \in Passes : ListPending(p))
  /\ SF_vars(\E p \in Passes, d \in Docs : EraseNext(p, d))
  /\ SF_vars(\E p \in Passes, d \in Docs : MarkErased(p, d))
  /\ SF_vars(DeleteSecrets)
  /\ SF_vars(CompleteDeleteAll)

\* The user opens the application again, leaves a detail screen some time, and
\* presses the one button of the panel, or the retry button while it is shown.
UserReturns ==
  /\ WF_vars(Open) /\ WF_vars(GoBack) /\ WF_vars(RetryDeleteAll)
  /\ SF_vars(RetryCleanup)

FairSpec == Spec /\ ProgramRuns /\ UserReturns

-----------------------------------------------------------------------------
(* Properties. *)

\* An active receipt never loses the bytes of a recorded document, whichever
\* cleanup passes run on stale lists meanwhile (cleanupDocuments, delete-all).
ActiveKeepsFile ==
  \A d \in Docs :
    row[d] = "stored" /\ receipt[Owner(d)] = "active" => file[d] = "whole"

\* storage_deleted_at is set only for bytes that are really gone and whose
\* receipt is a tombstone (markStorageDeleted after storage.delete).
MarkedIsGone ==
  \A d \in Docs :
    row[d] = "removed" => file[d] = "none" /\ receipt[Owner(d)] = "tombstone"

\* A file that is not recorded and that no import in flight owns was left by
\* a removal that failed as well, or by a crash before the document was
\* recorded, or else it is empty: on the web a file that was created and
\* could not be opened stays without an attempt to remove it.  No order of
\* awaits loses the bytes of a receipt silently.
NoBytesLostSilently ==
  \A d \in Docs :
    file[d] # "none" =>
      \/ row[d] = "stored"
      \/ d \in leaked
      \/ d \in unopened /\ file[d] = "partial"
      \/ /\ import[Owner(d)] \in {"filling", "inserting", "undoing"}
         /\ d = Storing(Owner(d))

\* Two imports that both find no duplicate never both record the same file:
\* documents.create looks again inside its transaction.
OriginalsAreDistinct ==
  \A r, q \in Receipts :
    /\ r # q
    /\ row[Original(r)] # "none"
    /\ row[Original(q)] # "none"
    => Content[r] # Content[q]

\* While a delete-all intent exists no receipt is active and the user has no
\* screen of normal use, unless the delete-all that recorded it still runs.
IntentBlocksNormalUse ==
  intent =>
    /\ Actives = {}
    /\ screen = "ready" \/ screen \in Deletions \cup {"modal"} => pass["all"] # "idle"

\* finalize purges the rows only when the files of all of them are gone.
PurgeForgetsNoFile ==
  [][intent /\ ~intent' =>
       \A d \in Docs : row[d] # "none" => file[d] = "none"]_vars

\* What the tables and the directory say of a document.  A row whose bytes are
\* not as it says is in no state of DocumentPromise.
Life ==
  [d \in Docs |->
     CASE row[d] = "none" -> "unknown"
       [] row[d] = "stored" /\ receipt[Owner(d)] # "active" -> "deleted"
       [] row[d] = "stored" /\ receipt[Owner(d)] = "active" ->
            IF file[d] = "whole" THEN "readable" ELSE "lost"
       [] row[d] = "removed" -> IF file[d] = "none" THEN "removed" ELSE "lost"]

Promise == INSTANCE DocumentPromise WITH life <- Life

\* Imports, passes on stale lists, crashes and delete-all together keep the
\* promise: a document goes only from readable to deleted to removed, all of a
\* receipt at once, and is forgotten only when nothing is left to remove.
KeepsPromise == Promise!Spec

\* A tombstone's bytes pending when the application dies are removed after it
\* is opened again: durable markers and the startup cleanup.
PendingFilesAreRemoved ==
  \A d \in Docs :
    screen = "closed" /\ d \in PendingStorageDeletion
      ~> d \notin PendingStorageDeletion

\* A delete-all that was begun is completed.
DeleteAllCompletes == intent ~> ~intent

\* ADR-0011:34, "a completed operation leaves no Reimbursd user records or
\* receipt files": once delete-all has emptied the tables and no import is in
\* flight, the attachment directory is empty.
CompletedLeavesNoFile ==
  /\ \A r \in Receipts : receipt[r] = "none"
  /\ ~intent
  /\ ~Importing
  => \A d \in Docs : file[d] = "none"

\* SECURITY_MODEL:23, "visible retry prevents interrupted cleanup from being
\* forgotten": the retry button disappears only when every file still pending
\* is in the hands of a pass or of a screen that can retry it.
RetryStaysVisible ==
  [][issue /\ ~issue' /\ ~intent' /\ screen' # "closed" =>
       \A d \in Docs :
         row'[d] = "stored" /\ receipt'[Owner(d)] = "tombstone" =>
           \E p \in Passes : d \in todo'[p] \cup cur'[p] \cup failed'[p]]_vars
=============================================================================
