-------------------------- MODULE StructuredRestore --------------------------
(***************************************************************************)
(* Exporting a complete archive and restoring it, beside everything        *)
(* LocalReceipts does.  A restore writes the original files first, then    *)
(* inserts all rows in one transaction that requires an empty database,    *)
(* and removes the files it created when anything fails.                   *)
(*                                                                         *)
(* Unlike an import, a restore writes the references and the identifiers   *)
(* the archive names, which this device may have used before.              *)
(***************************************************************************)
EXTENDS LocalReceipts

CONSTANT Restores     \* restores a user can have in flight

ASSUME RestoreNamesDiffer == "none" \notin Restores

VARIABLES
  archived,   \* archive: the version of each receipt in it, 0 for the others
  bundled,    \* archive: the documents whose bytes it holds
  dialog,     \* the restore whose modal dialog covers the list
  restore,    \* where each restore stands
  left,       \* the originals the restore has still to write
  filling,    \* the original whose file is created and not yet filled
  made,       \* createdReferences: the originals the restore has written
  refused     \* history: a restore refused a file that was there before it

archive == <<archived, bundled>>
restoring == <<restore, left, filling, made>>
rvars == <<vars, archive, dialog, restoring, refused>>

\* The dialog lies over the list, and a restore fills what it has to write.
RestoreTypeOK ==
  /\ TypeOK
  /\ archived \in [Receipts -> Nat]
  /\ bundled \in SUBSET Docs
  /\ dialog \in Restores \cup {"none"}
  /\ dialog # "none" => screen = "ready"
  /\ restore \in [Restores -> {"idle", "writing", "undoing"}]
  /\ left \in [Restores -> SUBSET Docs]
  /\ filling \in [Restores -> SUBSET Docs]
  /\ \A a \in Restores : filling[a] \subseteq left[a]
  /\ made \in [Restores -> SUBSET Docs]
  /\ refused \in BOOLEAN

RestoreInit ==
  /\ Init
  /\ archived = [r \in Receipts |-> 0]
  /\ bundled = {}
  /\ dialog = "none"
  /\ restore = [a \in Restores |-> "idle"]
  /\ left = [a \in Restores |-> {}]
  /\ filling = [a \in Restores |-> {}]
  /\ made = [a \in Restores |-> {}]
  /\ refused = FALSE

-----------------------------------------------------------------------------
(* The archive. *)

\* getActiveSnapshot: only the originals still in storage are exported.
ExportedDocuments ==
  {d \in Docs : d = Original(Owner(d)) /\ row[d] = "stored" /\ Owner(d) \in Actives}

\* The snapshot is one transaction.  A file that cannot be read fails the
\* export and leaves no archive, so a complete one holds what was recorded.
\* Bound: one archive at a time, which restores in flight have in common.
ExportArchive ==
  /\ screen = "ready"
  /\ dialog = "none"
  /\ \A a \in Restores : restore[a] = "idle"
  /\ \A d \in ExportedDocuments : file[d] = "whole"
  /\ archived' = [r \in Receipts |-> IF r \in Actives THEN version[r] ELSE 0]
  /\ bundled' = ExportedDocuments
  /\ UNCHANGED <<vars, dialog, restoring, refused>>

InArchive(r) == archived[r] # 0

-----------------------------------------------------------------------------
(* restoreStructuredData. *)

To(a, stage) == restore' = [restore EXCEPT ![a] = stage]

\* The archive was chosen and is valid.
StartRestore(a) ==
  /\ screen = "ready"
  /\ dialog = "none"
  /\ restore[a] = "idle"
  /\ \E r \in Receipts : InArchive(r)
  /\ dialog' = a
  /\ left' = [left EXCEPT ![a] = bundled]
  /\ To(a, "writing")
  /\ UNCHANGED <<vars, archive, filling, made, refused>>

CreateOriginal(a, d) ==
  /\ restore[a] = "writing"
  /\ filling[a] = {}
  /\ d \in left[a]
  /\ CreateFile(d)
  /\ filling' = [filling EXCEPT ![a] = {d}]
  /\ UNCHANGED <<app, imports, passes, ghosts, archive, dialog, restore, left, made,
                 refused>>

FillOriginal(a, d) ==
  /\ d \in filling[a]
  /\ FillFile(d)
  /\ filling' = [filling EXCEPT ![a] = {}]
  /\ left' = [left EXCEPT ![a] = @ \ {d}]
  /\ made' = [made EXCEPT ![a] = @ \cup {d}]
  /\ UNCHANGED <<app, imports, passes, ghosts, archive, dialog, restore, refused>>

\* Mutant: a file that exists is taken for the archive's without a look.
ReuseUnread(a, d) ==
  /\ restore[a] = "writing"
  /\ filling[a] = {}
  /\ d \in left[a]
  /\ file[d] # "none"
  /\ left' = [left EXCEPT ![a] = @ \ {d}]
  /\ UNCHANGED <<vars, archive, dialog, restore, filling, made, refused>>

\* writeOnce refuses the reference, and the bytes there are the same.
ReuseOriginal(a, d) ==
  /\ restore[a] = "writing"
  /\ filling[a] = {}
  /\ d \in left[a]
  /\ file[d] = "whole"
  /\ left' = [left EXCEPT ![a] = @ \ {d}]
  /\ UNCHANGED <<vars, archive, dialog, restore, filling, made, refused>>

\* StructuredRestoreStorageConflictError: they are not.
RefuseOriginal(a, d) ==
  /\ restore[a] = "writing"
  /\ filling[a] = {}
  /\ d \in left[a]
  /\ file[d] = "partial"
  /\ To(a, "undoing")
  /\ refused' = TRUE
  /\ UNCHANGED <<vars, archive, dialog, left, filling, made>>

\* restoreClean: every table is empty, and all rows are inserted at once.
InsertArchive(a) ==
  /\ restore[a] = "writing"
  /\ left[a] = {}
  /\ ~intent
  /\ \A r \in Receipts : receipt[r] = "none"
  /\ \A d \in Docs : row[d] = "none"
  /\ receipt' = [r \in Receipts |-> IF InArchive(r) THEN "active" ELSE "none"]
  /\ version' = archived
  /\ row' = [d \in Docs |-> IF d \in bundled THEN "stored" ELSE "none"]
  /\ To(a, "idle")
  /\ made' = [made EXCEPT ![a] = {}]
  /\ dialog' = IF dialog = a THEN "none" ELSE dialog
  /\ UNCHANGED <<file, intent, app, imports, passes, ghosts, archive, left, filling,
                 refused>>

\* A file cannot be written, and what was created of it is removed; or the
\* database is not empty, or the transaction fails.
RestoreFails(a) ==
  /\ restore[a] = "writing"
  /\ file' = [d \in Docs |-> IF d \in filling[a] THEN "none" ELSE file[d]]
  /\ filling' = [filling EXCEPT ![a] = {}]
  /\ To(a, "undoing")
  /\ UNCHANGED <<receipt, version, row, intent, app, imports, passes, ghosts, archive,
                 dialog, left, made, refused>>

\* writeOnce cannot remove what it created, and what is there now is no whole
\* file: one more conflict, of a reference that is not in createdReferences.
RestoreFailsAndLeaves(a) ==
  /\ filling[a] # {}
  /\ leaked' = leaked \cup filling[a]
  /\ filling' = [filling EXCEPT ![a] = {}]
  /\ To(a, "undoing")
  /\ UNCHANGED <<store, app, imports, passes, unopened, crashes, archive, dialog, left, made,
                 refused>>

\* createWritable throws on the web: the empty file the restore then reads is a
\* conflict too, and nothing tries to remove it.
RestoreOpensNothing(a) ==
  /\ filling[a] # {}
  /\ unopened' = unopened \cup filling[a]
  /\ filling' = [filling EXCEPT ![a] = {}]
  /\ To(a, "undoing")
  /\ UNCHANGED <<store, app, imports, passes, leaked, crashes, archive, dialog, left, made,
                 refused>>

UndoOriginal(a, d) ==
  /\ restore[a] = "undoing"
  /\ d \in made[a]
  /\ EraseFile(d)
  /\ made' = [made EXCEPT ![a] = @ \ {d}]
  /\ UNCHANGED <<app, imports, passes, ghosts, archive, dialog, restore, left, filling,
                 refused>>

UndoOriginalFails(a, d) ==
  /\ restore[a] = "undoing"
  /\ d \in made[a]
  /\ leaked' = leaked \cup {d}
  /\ made' = [made EXCEPT ![a] = @ \ {d}]
  /\ UNCHANGED <<store, app, imports, passes, unopened, crashes, archive, dialog, restore,
                 left, filling, refused>>

\* Mutant: the error is thrown on without the compensation.
EndWithoutUndo(a) ==
  /\ restore[a] = "undoing"
  /\ left' = [left EXCEPT ![a] = {}]
  /\ made' = [made EXCEPT ![a] = {}]
  /\ dialog' = IF dialog = a THEN "none" ELSE dialog
  /\ To(a, "idle")
  /\ UNCHANGED <<vars, archive, filling, refused>>

\* The error is shown, and the user closes the dialog.
EndFailedRestore(a) ==
  /\ restore[a] = "undoing"
  /\ made[a] = {}
  /\ left' = [left EXCEPT ![a] = {}]
  /\ dialog' = IF dialog = a THEN "none" ELSE dialog
  /\ To(a, "idle")
  /\ UNCHANGED <<vars, archive, filling, made, refused>>

-----------------------------------------------------------------------------
(* The rest of the application. *)

\* What the user does on the list, which the dialog covers.
UserActs ==
  \/ \E r \in Receipts : PickFile(r) \/ CreateManual(r) \/ EditReceipt(r)
  \/ \E s \in Deletions, r \in Receipts : ConfirmDeletion(s, r)
  \/ RetryCleanup \/ ConfirmDeleteAll

\* The end of an import navigates, and so does what replaces the list: the
\* dialog goes, its restore goes on.
ListUnmounts ==
  \/ screen' # "ready"
  \/ \E r \in Receipts : import[r] = "reading" /\ import'[r] = "done"

ForgetRestores ==
  /\ restore' = [a \in Restores |-> "idle"]
  /\ left' = [a \in Restores |-> {}]
  /\ filling' = [a \in Restores |-> {}]
  /\ made' = [a \in Restores |-> {}]

\* Mutant: the dialog outlives the list it belongs to.
BesidesUnderDialog ==
  /\ Next
  /\ dialog # "none" => ~UserActs
  /\ UNCHANGED dialog
  /\ IF screen' = "closed" THEN ForgetRestores ELSE UNCHANGED restoring
  /\ UNCHANGED <<archive, refused>>

\* A step of LocalReceipts; a crash ends the restores as well.
Besides ==
  /\ Next
  /\ dialog # "none" => ~UserActs
  /\ dialog' = IF ListUnmounts THEN "none" ELSE dialog
  /\ IF screen' = "closed" THEN ForgetRestores ELSE UNCHANGED restoring
  /\ UNCHANGED <<archive, refused>>

RestoreStep(a) ==
  \/ StartRestore(a)
  \/ \E d \in Docs :
       \/ CreateOriginal(a, d) \/ FillOriginal(a, d)
       \/ ReuseOriginal(a, d) \/ RefuseOriginal(a, d)
       \/ UndoOriginal(a, d) \/ UndoOriginalFails(a, d)
  \/ InsertArchive(a)
  \/ RestoreFails(a) \/ RestoreFailsAndLeaves(a) \/ RestoreOpensNothing(a)
  \/ EndFailedRestore(a)

RestoreNext ==
  \/ Besides
  \/ ExportArchive
  \/ \E a \in Restores : RestoreStep(a)

RestoreSpec == RestoreInit /\ [][RestoreNext]_rvars

\* Nothing else awaits anything.
Quiet ==
  /\ \A r \in Receipts : import[r] \in {"unused", "done"}
  /\ \A p \in Passes : pass[p] = "idle"

\* The behaviours in which the user lets everything end before a restore; the
\* dialog does the rest.
PatientRestoreNext == RestoreNext /\ (dialog' \notin {"none", dialog} => Quiet)

PatientRestoreSpec == RestoreInit /\ [][PatientRestoreNext]_rvars

-----------------------------------------------------------------------------
(* Properties. *)

\* A file that is not recorded nor in the hands of an import or a restore in
\* flight was left by a failed removal or by a crash, or else it is empty,
\* having been created on the web and never opened: no failed restore leaves
\* the bytes of a receipt behind that nothing accounts for, whatever goes on
\* beside it (createdReferences).
RestoreLosesNoBytes ==
  \A d \in Docs :
    file[d] # "none" =>
      \/ row[d] = "stored"
      \/ d \in leaked
      \/ d \in unopened /\ file[d] = "partial"
      \/ /\ import[Owner(d)] \in {"filling", "inserting", "undoing"}
         /\ d = Storing(Owner(d))
      \/ \E a \in Restores : d \in filling[a] \cup made[a]

\* ARCHITECTURE:128, "restoring metadata without bytes would create invalid
\* references": the transaction that ends a restore finds every file whole.
RestoredHaveBytes ==
  [][\A d \in Docs :
       row[d] = "none" /\ row'[d] = "stored" => file'[d] = "whole"]_rvars

\* structured-restore.ts:55, "use a clean installation or retry the same
\* interrupted restore": on an empty database the only files at the archive's
\* references are those an interrupted restore has left, and the retry is not
\* refused because of them.
RetryIsNotRefused ==
  [][~refused /\ refused' => \E r \in Receipts : receipt[r] # "none"]_rvars
=============================================================================
