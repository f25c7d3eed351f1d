---------------------------- MODULE Device_proofs ----------------------------
(***************************************************************************)
(* The restore, and the parts of the device together.                      *)
(*                                                                         *)
(* PatientRestoreSpec => []RestoreTypeOK, []RestoreLosesNoBytes,            *)
(* []ActiveKeepsFile and RestoredHaveBytes, for any number of receipts,    *)
(* documents, deletions, restores and crashes.                             *)
(*                                                                         *)
(* A restore writes references that clean-up passes may have in their      *)
(* lists.  The argument is that a patient user starts one only when no     *)
(* list holds anything, and that its dialog keeps everything away from it  *)
(* but a crash.  MarkedIsGone is not part of it, and does not hold: a      *)
(* restore writes the file of a document that is marked as removed.        *)
(*                                                                         *)
(* DeviceSpec => []DeviceTypeOK: a step of the device is one of a single   *)
(* part, so that each is a behaviour of its own specification.             *)
(***************************************************************************)
EXTENDS MCDevice, LocalReceipts_proofs, DeviceData_proofs, Expense_proofs

\* A pass holds documents only while it works on them, and a closed
\* application has no pass.
RestingHoldsNothing ==
  \A p \in Passes :
    /\ screen = "closed" => pass[p] = "idle"
    /\ todo[p] # {} => pass[p] \in {"tombstone", "erase", "mark"}
    /\ cur[p] # {} => pass[p] = "mark"
    /\ failed[p] # {} => pass[p] \in {"erase", "mark", "shown"}

\* No import will write what is in the archive.
BundledIsSettled == \A d \in bundled : Settled(d)

\* Only the restore under the dialog has anything in its hands, and it took
\* that from the archive.
OneRestores ==
  /\ dialog # "none" => Quiet
  /\ \A a \in Restores :
       /\ dialog # a => restore[a] = "idle" /\ left[a] = {} /\ made[a] = {}
       /\ filling[a] # {} => restore[a] = "writing"
       /\ \A d, e \in filling[a] : d = e
       /\ left[a] \cup made[a] \subseteq bundled

\* What is not left to write is there, what is being written is not whole, and
\* neither was needed by an active receipt before.
WritingIsSafe ==
  \A a \in Restores :
    /\ restore[a] = "writing" => \A d \in bundled \ left[a] : file[d] = "whole"
    /\ \A d \in filling[a] : file[d] = "partial"
    /\ \A d \in filling[a] \cup made[a] : row[d] = "stored" => receipt[Owner(d)] # "active"

RestoreInv ==
  /\ RestoreTypeOK
  /\ ListsInv
  /\ RestoreLosesNoBytes
  /\ RestingHoldsNothing
  /\ BundledIsSettled
  /\ OneRestores
  /\ WritingIsSafe

\* Nothing runs and nothing is archived at the start.
LEMMA RestoreInitInv == RestoreInit => RestoreInv
<1> SUFFICES ASSUME RestoreInit PROVE RestoreInv
  OBVIOUS
<1>1. TypeOK /\ ListsInv /\ NoBytesLostSilently
  BY InitType, InitFiles DEF RestoreInit, FilesInv
<1>2. RestoreTypeOK /\ RestoreLosesNoBytes
  BY <1>1 DEF RestoreInit, RestoreTypeOK, RestoreLosesNoBytes, NoBytesLostSilently
<1>3. RestingHoldsNothing
  BY DEF RestoreInit, Init, RestingHoldsNothing
<1>4. BundledIsSettled /\ OneRestores /\ WritingIsSafe
  BY DEF RestoreInit, BundledIsSettled, OneRestores, WritingIsSafe
<1> QED
  BY <1>1, <1>2, <1>3, <1>4 DEF RestoreInv

-----------------------------------------------------------------------------
(* The rest of the application. *)

\* A pass that ends, or goes on to something else, has emptied its lists.
LEMMA StepResting ==
  TypeOK /\ RestingHoldsNothing /\ [Next]_vars => RestingHoldsNothing'
<1> SUFFICES ASSUME TypeOK, RestingHoldsNothing, [Next]_vars PROVE RestingHoldsNothing'
  OBVIOUS
  <1> USE NamesDiffer DEF TypeOK, Passes, RestingHoldsNothing, At, queue, passes, app
<1>a. (UNCHANGED passes) /\ (screen' = "closed" => screen = "closed") => RestingHoldsNothing'
  OBVIOUS
<1>1. ASSUME NEW r \in Receipts, ImportNext(r) PROVE RestingHoldsNothing'
  <2>1. (UNCHANGED passes) /\ (screen' = "closed" => screen = "closed")
    BY <1>1 DEF ImportNext, PickFile, PickerReturns, CreatePending, CreatePendingFails, AcceptFile,
       RejectFile, StartWrite, FinishWrite, FailWrite, FailWriteAndRemoval, OpenWriteFails, StoringFails,
       InsertStored, InsertFails, UndoWrite, UndoFails, ShowImported, DropFailedImport,
       KeepFailedImport, CreateManual, EditReceipt
  <2>2. QED
    BY <2>1, <1>a
<1>2. ASSUME NEW p \in Passes, CleanupNext(p) PROVE RestingHoldsNothing'
  <2>1. CASE ListPending(p)
    BY <2>1 DEF ListPending
  <2>2. CASE ListFails(p)
    BY <2>2 DEF ListFails, ReportCleanup
  <2>3. ASSUME NEW d \in Docs, EraseNext(p, d) PROVE RestingHoldsNothing'
    BY <2>3 DEF EraseNext
  <2>4. ASSUME NEW d \in Docs, EraseFails(p, d) PROVE RestingHoldsNothing'
    BY <2>4 DEF EraseFails
  <2>5. ASSUME NEW d \in Docs, MarkErased(p, d) PROVE RestingHoldsNothing'
    BY <2>5 DEF MarkErased
  <2>6. CASE MarkFails(p)
    BY <2>6 DEF MarkFails
  <2>7. CASE EndCleanup(p)
    BY <2>7 DEF EndCleanup, ReportCleanup, Listed
  <2>8. QED
    BY <1>2, <2>1, <2>2, <2>3, <2>4, <2>5, <2>6, <2>7 DEF CleanupNext
<1>3. ASSUME NEW s \in Deletions, DeletionNext(s) PROVE RestingHoldsNothing'
  <2>1. ASSUME NEW r \in Receipts, ConfirmDeletion(s, r) PROVE RestingHoldsNothing'
    BY <2>1 DEF ConfirmDeletion
  <2>2. CASE DeleteReceipt(s) \/ RefuseDeletion(s)
    BY <2>2 DEF DeleteReceipt, RefuseDeletion
  <2>3. CASE EndDeletion(s)
    BY <2>3 DEF EndDeletion, Listed
  <2>4. CASE RetryShown(s) \/ Unmount(s)
    BY <2>4 DEF RetryShown, Unmount
  <2>5. QED
    BY <1>3, <2>1, <2>2, <2>3, <2>4 DEF DeletionNext
<1>4. ASSUME DeleteAllNext PROVE RestingHoldsNothing'
  BY <1>4 DEF DeleteAllNext, ConfirmDeleteAll, EndErasing, DeleteSecrets, CompleteDeleteAll,
     InterruptDeleteAll, RetryDeleteAll, Listed
<1>5. CASE Crash
  BY <1>5 DEF Crash, NoPasses
<1>6. CASE RetryCleanup \/ Open
  BY <1>6 DEF RetryCleanup, Open
<1>7. CASE GoBack \/ UNCHANGED vars
  BY <1>7, <1>a DEF GoBack, vars
<1>8. QED
  BY <1>1, <1>2, <1>3, <1>4, <1>5, <1>6, <1>7 DEF Next

\* An import that has done with a document does not come back to it.
LEMMA SettledStays ==
  ASSUME TypeOK, ListsInv, [Next]_vars, NEW d \in Docs, Settled(d)
  PROVE  Settled(d)'
<1> USE DEF TypeOK, ListsInv, EarlyImports, Settled, Docs, Kinds, Owner, Original, Goto
<1>a. (UNCHANGED <<import, part>>) => Settled(d)'
  OBVIOUS
<1>1. ASSUME NEW r \in Receipts, ImportNext(r) PROVE Settled(d)'
  <2>1. CASE PickFile(r) \/ PickerReturns(r) \/ CreatePending(r) \/ CreatePendingFails(r)
    BY <2>1 DEF PickFile, PickerReturns, CreatePending, CreatePendingFails
  <2>2. CASE AcceptFile(r) \/ RejectFile(r) \/ StartWrite(r) \/ FinishWrite(r)
    BY <2>2 DEF AcceptFile, RejectFile, StartWrite, FinishWrite
  <2>3. CASE FailWrite(r) \/ FailWriteAndRemoval(r) \/ OpenWriteFails(r) \/ UndoWrite(r) \/ UndoFails(r)
    BY <2>3 DEF FailWrite, FailWriteAndRemoval, OpenWriteFails, UndoWrite, UndoFails, StoringFails
  <2>4. CASE InsertStored(r) \/ InsertFails(r)
    BY <2>4 DEF InsertStored, InsertFails
  <2>5. CASE \/ ShowImported(r) \/ DropFailedImport(r) \/ KeepFailedImport(r)
             \/ CreateManual(r) \/ EditReceipt(r)
    BY <2>5 DEF ShowImported, DropFailedImport, KeepFailedImport, CreateManual, EditReceipt, imports
  <2>6. QED
    BY <1>1, <2>1, <2>2, <2>3, <2>4, <2>5 DEF ImportNext
<1>2. ASSUME NEW p \in Passes, CleanupNext(p) PROVE Settled(d)'
  BY <1>2, <1>a DEF CleanupNext, imports, ListPending, ListFails, EndCleanup, ReportCleanup,
     EraseNext, EraseFails, MarkErased, MarkFails
<1>3. ASSUME NEW s \in Deletions, DeletionNext(s) PROVE Settled(d)'
  BY <1>3, <1>a DEF DeletionNext, imports, ConfirmDeletion, DeleteReceipt, RefuseDeletion,
     EndDeletion, RetryShown, Unmount
<1>4. ASSUME DeleteAllNext PROVE Settled(d)'
  BY <1>4, <1>a DEF DeleteAllNext, imports, ConfirmDeleteAll, EndErasing, DeleteSecrets,
     CompleteDeleteAll, InterruptDeleteAll, RetryDeleteAll
<1>5. CASE Crash
  BY <1>5 DEF Crash
<1>6. CASE RetryCleanup \/ GoBack \/ Open \/ UNCHANGED vars
  BY <1>6, <1>a DEF RetryCleanup, GoBack, Open, vars, imports
<1>7. QED
  BY <1>1, <1>2, <1>3, <1>4, <1>5, <1>6 DEF Next

\* Nothing runs, and the dialog covers what the user could start.
LEMMA OnlyCrashUnderDialog ==
  ASSUME TypeOK, Quiet, screen = "ready", Next, ~UserActs
  PROVE  Crash
<1> USE NamesDiffer DEF Quiet, TypeOK, Passes
<1>1. ASSUME NEW r \in Receipts, ImportNext(r) PROVE UserActs
  BY <1>1 DEF ImportNext, UserActs, PickerReturns, CreatePending, CreatePendingFails, AcceptFile,
     RejectFile, StartWrite, FinishWrite, FailWrite, FailWriteAndRemoval, OpenWriteFails, InsertStored, InsertFails,
     UndoWrite, UndoFails, ShowImported, DropFailedImport, KeepFailedImport
<1>2. ASSUME NEW p \in Passes, CleanupNext(p) PROVE FALSE
  BY <1>2 DEF CleanupNext, ListPending, ListFails, EraseNext, EraseFails, MarkErased, MarkFails,
     EndCleanup, Listed
<1>3. ASSUME NEW s \in Deletions, DeletionNext(s) PROVE UserActs
  BY <1>3 DEF DeletionNext, UserActs, DeleteReceipt, RefuseDeletion, EndDeletion, Listed,
     RetryShown, Unmount
<1>4. ASSUME DeleteAllNext PROVE UserActs
  BY <1>4 DEF DeleteAllNext, UserActs, EndErasing, DeleteSecrets, CompleteDeleteAll,
     InterruptDeleteAll, RetryDeleteAll, Listed
<1>5. GoBack \/ Open => FALSE
  BY DEF GoBack, Open
<1>6. QED
  BY <1>1, <1>2, <1>3, <1>4, <1>5 DEF Next, UserActs

\* Without a dialog nothing is restored, and a step of LocalReceipts is one;
\* under it the step is a crash, which forgets the restore and gives up what
\* it had written.
LEMMA BesidesKeeps ==
  ASSUME RestoreInv, Besides, dialog' \notin {"none", dialog} => Quiet
  PROVE  RestoreInv'
<1>1. TypeOK' /\ ListsInv'
  BY StepType, StepLists DEF RestoreInv, RestoreTypeOK, Besides
<1>2. RestingHoldsNothing' /\ BundledIsSettled'
  <2>1. RestingHoldsNothing'
    BY StepResting DEF RestoreInv, RestoreTypeOK, Besides
  <2>2. bundled' = bundled
    BY DEF Besides, archive
  <2>3. ASSUME NEW d \in bundled PROVE Settled(d)'
    BY SettledStays DEF RestoreInv, RestoreTypeOK, BundledIsSettled, Besides
  <2>4. QED
    BY <2>1, <2>2, <2>3 DEF BundledIsSettled
<1>3. dialog' = "none"
  <2>1. CASE dialog = "none"
    BY <2>1 DEF Besides
  <2>2. CASE dialog # "none"
    <3>1. Crash
      BY <2>2, OnlyCrashUnderDialog DEF RestoreInv, RestoreTypeOK, OneRestores, Besides
    <3>2. QED
      BY <3>1 DEF Besides, Crash, ListUnmounts
  <2>3. QED
    BY <2>1, <2>2
<1>4. \A a \in Restores : restore'[a] = "idle" /\ left'[a] = {} /\ filling'[a] = {} /\ made'[a] = {}
  <2>1. CASE screen' = "closed"
    BY <2>1 DEF Besides, ForgetRestores
  <2>2. CASE screen' # "closed"
    <3>1. dialog = "none"
      BY <2>2, OnlyCrashUnderDialog DEF RestoreInv, RestoreTypeOK, OneRestores, Besides, Crash
    <3>2. UNCHANGED restoring
      BY <2>2 DEF Besides
    <3>3. QED
      BY <3>1, <3>2, RestoreNamesDiffer DEF restoring, RestoreInv, RestoreTypeOK, OneRestores
  <2>3. QED
    BY <2>1, <2>2
<1>5. RestoreLosesNoBytes'
  <2>1. CASE dialog = "none"
    <3>1. NoBytesLostSilently
      BY <2>1, RestoreNamesDiffer
         DEF RestoreInv, RestoreTypeOK, OneRestores, RestoreLosesNoBytes, NoBytesLostSilently
    <3>2. NoBytesLostSilently'
      BY <3>1, StepAccounted DEF RestoreInv, RestoreTypeOK, Besides
    <3>3. QED
      BY <3>2 DEF NoBytesLostSilently, RestoreLosesNoBytes
  <2>2. CASE dialog # "none"
    <3>1. Crash
      BY <2>2, OnlyCrashUnderDialog DEF RestoreInv, RestoreTypeOK, OneRestores, Besides
    <3>2. QED
      BY <3>1 DEF Crash, store, RestoreLosesNoBytes, RestoreInv, RestoreTypeOK, TypeOK
  <2>3. QED
    BY <2>1, <2>2
<1>6. RestoreTypeOK'
  <2>1. /\ restore' \in [Restores -> {"idle", "writing", "undoing"}]
        /\ left' \in [Restores -> SUBSET Docs]
        /\ filling' \in [Restores -> SUBSET Docs]
        /\ made' \in [Restores -> SUBSET Docs]
    BY DEF Besides, ForgetRestores, restoring, RestoreInv, RestoreTypeOK
  <2>2. UNCHANGED <<archived, bundled, refused>>
    BY DEF Besides, archive
  <2>3. QED
    BY <1>1, <1>3, <1>4, <2>1, <2>2 DEF RestoreInv, RestoreTypeOK
<1>7. OneRestores' /\ WritingIsSafe'
  BY <1>3, <1>4 DEF OneRestores, WritingIsSafe
<1> QED
  BY <1>1, <1>2, <1>5, <1>6, <1>7 DEF RestoreInv

-----------------------------------------------------------------------------
(* The export and the restore. *)

\* Nothing is exported whose row is not there.
LEMMA ExportKeeps == RestoreInv /\ ExportArchive => RestoreInv'
<1> SUFFICES ASSUME RestoreInv, ExportArchive PROVE RestoreInv'
  OBVIOUS
<1>1. UNCHANGED <<vars, dialog, restoring, refused>>
  BY DEF ExportArchive
<1>2. TypeOK' /\ ListsInv' /\ RestingHoldsNothing' /\ RestoreLosesNoBytes'
  <2>1. TypeOK' /\ ListsInv'
    BY <1>1, StepType, StepLists DEF RestoreInv, RestoreTypeOK
  <2>2. RestingHoldsNothing'
    BY <1>1, StepResting DEF RestoreInv, RestoreTypeOK
  <2>3. RestoreLosesNoBytes'
    BY <1>1 DEF RestoreInv, RestoreLosesNoBytes, vars, store, imports, ghosts, restoring, Storing
  <2>4. QED
    BY <2>1, <2>2, <2>3
<1>3. bundled' \in SUBSET Docs /\ archived' \in [Receipts -> Nat]
  BY DEF ExportArchive, ExportedDocuments, RestoreInv, RestoreTypeOK, TypeOK, StoreTypeOK
<1>4. BundledIsSettled'
  BY <1>1 DEF ExportArchive, ExportedDocuments, BundledIsSettled, RestoreInv, ListsInv,
     RecordedIsSettled, Settled, vars, imports, Docs
<1>5. RestoreTypeOK'
  BY <1>1, <1>2, <1>3 DEF RestoreInv, RestoreTypeOK, restoring, vars, app
<1>6. OneRestores' /\ WritingIsSafe'
  BY <1>1, RestoreNamesDiffer
     DEF ExportArchive, RestoreInv, OneRestores, WritingIsSafe, Quiet, restoring, vars, imports,
         passes, store
<1> QED
  BY <1>2, <1>4, <1>5, <1>6 DEF RestoreInv

\* A restore that has begun is the one of the dialog, and nothing else runs.
LEMMA RestoringAlone ==
  ASSUME RestoreInv, NEW a \in Restores, restore[a] # "idle"
  PROVE  dialog = a /\ Quiet
  BY RestoreNamesDiffer DEF RestoreInv, OneRestores

\* While nothing else runs, lists and imports ask for no more than that rows
\* and files agree.
LEMMA QuietKeeps ==
  ASSUME RestoreInv, Quiet, UNCHANGED <<app, imports, passes, bundled>>,
         RecordedIsSettled', ActiveKeepsFile'
  PROVE  ListsInv' /\ RestingHoldsNothing' /\ BundledIsSettled' /\ Quiet'
<1>1. Quiet' /\ RestingHoldsNothing'
  BY DEF RestoreInv, Quiet, RestingHoldsNothing, app, imports, passes, queue
<1>2. \A p \in Passes : todo[p] = {} /\ cur[p] = {} /\ failed[p] = {}
  BY DEF RestoreInv, Quiet, RestingHoldsNothing
<1>3. TodoIsDoomed' /\ HeldIsDoomed' /\ ErasedIsGone'
  BY <1>2 DEF TodoIsDoomed, HeldIsDoomed, ErasedIsGone, passes, queue
<1>4. EarlyImports' /\ StoringFits'
  BY DEF RestoreInv, ListsInv, Quiet, EarlyImports, StoringFits, imports
<1>5. BundledIsSettled'
  BY DEF RestoreInv, BundledIsSettled, Settled, imports
<1> QED
  BY <1>1, <1>3, <1>4, <1>5 DEF ListsInv

\* The archive was chosen when nothing else ran.
LEMMA StartKeeps ==
  ASSUME RestoreInv, NEW a \in Restores, StartRestore(a), Quiet
  PROVE  RestoreInv'
<1> USE DEF StartRestore, To, RestoreInv, vars, store, app, imports, passes, ghosts, archive
<1>1. ListsInv' /\ RestingHoldsNothing' /\ BundledIsSettled' /\ Quiet'
  <2>1. RecordedIsSettled' /\ ActiveKeepsFile'
    BY DEF ListsInv, RecordedIsSettled, Settled, ActiveKeepsFile
  <2>2. QED
    BY <2>1, QuietKeeps
<1>2. RestoreLosesNoBytes'
  BY DEF RestoreLosesNoBytes, Storing
<1>3. \A b \in Restores : restore[b] = "idle" /\ left[b] = {} /\ filling[b] = {} /\ made[b] = {}
  BY RestoreNamesDiffer DEF OneRestores
<1>4. RestoreTypeOK'
  <2>1. TypeOK'
    BY StepType DEF RestoreTypeOK
  <2>2. /\ restore' \in [Restores -> {"idle", "writing", "undoing"}]
        /\ left' \in [Restores -> SUBSET Docs]
    BY DEF RestoreTypeOK
  <2>3. \A b \in Restores : filling[b] = {}
    BY <1>3
  <2>4. dialog' = a /\ screen' = "ready"
    OBVIOUS
  <2>5. UNCHANGED <<archived, bundled, filling, made, refused>>
    OBVIOUS
  <2>6. QED
    BY <2>1, <2>2, <2>3, <2>4, <2>5 DEF RestoreTypeOK
<1>5. OneRestores'
  BY <1>1, <1>3 DEF OneRestores, RestoreTypeOK
<1>6. WritingIsSafe'
  BY <1>3 DEF WritingIsSafe, RestoreTypeOK
<1> QED
  BY <1>1, <1>2, <1>4, <1>5, <1>6

\* A step that writes or removes the file of one document, or only its own
\* lists, keeps the tables.
LEMMA FilesOnly ==
  ASSUME RestoreInv, NEW a \in Restores, restore[a] # "idle",
         UNCHANGED <<receipt, row, app, imports, passes, bundled>>, ActiveKeepsFile'
  PROVE  ListsInv' /\ RestingHoldsNothing' /\ BundledIsSettled' /\ Quiet'
<1>1. RecordedIsSettled'
  BY DEF RestoreInv, ListsInv, RecordedIsSettled, Settled, imports
<1> QED
  BY <1>1, RestoringAlone, QuietKeeps

\* What is created was not there, so no active receipt relied on it.
LEMMA CreateKeeps ==
  ASSUME RestoreInv, NEW a \in Restores, NEW d \in Docs, CreateOriginal(a, d)
  PROVE  RestoreInv'
<1> USE DEF RestoreInv, RestoreTypeOK, TypeOK, StoreTypeOK
<1>1. /\ restore[a] = "writing" /\ d \in left[a] /\ filling[a] = {} /\ file[d] = "none"
      /\ file' = [file EXCEPT ![d] = "partial"]
      /\ filling' = [filling EXCEPT ![a] = {d}]
      /\ UNCHANGED <<receipt, version, row, intent, app, imports, passes, ghosts, archived,
                     bundled, dialog, restore, left, made, refused>>
  BY DEF CreateOriginal, CreateFile, archive
<1>2. dialog = a
  BY <1>1, RestoringAlone
<1>3. ~(row[d] = "stored" /\ receipt[Owner(d)] = "active")
  BY <1>1 DEF ListsInv, ActiveKeepsFile
<1>4. ActiveKeepsFile'
  BY <1>1, <1>3 DEF ListsInv, ActiveKeepsFile
<1>5. ListsInv' /\ RestingHoldsNothing' /\ BundledIsSettled' /\ Quiet'
  BY <1>1, <1>4, FilesOnly
<1>6. RestoreTypeOK'
  BY <1>1 DEF app, imports, passes, queue, ghosts
<1>7. RestoreLosesNoBytes'
  BY <1>1 DEF RestoreLosesNoBytes, Storing, imports, ghosts
<1>8. OneRestores'
  BY <1>1, <1>2, <1>5 DEF OneRestores
<1>9. WritingIsSafe'
  BY <1>1, <1>3 DEF WritingIsSafe
<1> QED
  BY <1>5, <1>6, <1>7, <1>8, <1>9

\* The file that was created is filled, and is now one the restore has written.
LEMMA FillKeeps ==
  ASSUME RestoreInv, NEW a \in Restores, NEW d \in Docs, FillOriginal(a, d)
  PROVE  RestoreInv'
<1> USE DEF RestoreInv, RestoreTypeOK, TypeOK, StoreTypeOK
<1>1. /\ d \in filling[a] /\ file[d] = "partial"
      /\ file' = [file EXCEPT ![d] = "whole"]
      /\ filling' = [filling EXCEPT ![a] = {}]
      /\ left' = [left EXCEPT ![a] = @ \ {d}]
      /\ made' = [made EXCEPT ![a] = @ \cup {d}]
      /\ UNCHANGED <<receipt, version, row, intent, app, imports, passes, ghosts, archived,
                     bundled, dialog, restore, refused>>
  BY DEF FillOriginal, FillFile, archive
<1>2. restore[a] = "writing" /\ dialog = a
  BY <1>1, RestoringAlone DEF OneRestores
<1>3. ActiveKeepsFile'
  BY <1>1 DEF ListsInv, ActiveKeepsFile
<1>4. ListsInv' /\ RestingHoldsNothing' /\ BundledIsSettled' /\ Quiet'
  BY <1>1, <1>2, <1>3, FilesOnly
<1>5. RestoreTypeOK'
  BY <1>1 DEF app, imports, passes, queue, ghosts
<1>6. RestoreLosesNoBytes'
  <2>1. \A e \in filling[a] : e = d
    BY <1>1 DEF OneRestores
  <2>2. \A b \in Restores : filling[b] \cup made[b] \subseteq filling'[b] \cup made'[b]
    BY <2>1, <1>1
  <2>3. QED
    BY <2>2, <1>1 DEF RestoreLosesNoBytes, Storing, imports, ghosts
<1>7. OneRestores'
  BY <1>1, <1>2, <1>4 DEF OneRestores
<1>8. WritingIsSafe'
  <2>1. \A b \in Restores : b # a => filling'[b] = {} /\ made'[b] = made[b]
    BY <1>1, <1>2 DEF OneRestores
  <2>2. /\ filling'[a] = {}
        /\ \A e \in filling'[a] \cup made'[a] : row[e] = "stored" => receipt[Owner(e)] # "active"
    BY <1>1 DEF WritingIsSafe
  <2>3. ASSUME NEW b \in Restores, restore[b] = "writing" PROVE \A e \in bundled \ left'[b] : file'[e] = "whole"
    BY <1>1, <2>3 DEF WritingIsSafe
  <2>4. QED
    BY <1>1, <2>1, <2>2, <2>3 DEF WritingIsSafe
<1> QED
  BY <1>4, <1>5, <1>6, <1>7, <1>8

\* A file that is taken as it is, is whole.
LEMMA ReuseKeeps ==
  ASSUME RestoreInv, NEW a \in Restores, NEW d \in Docs, ReuseOriginal(a, d) \/ RefuseOriginal(a, d)
  PROVE  RestoreInv'
<1> USE DEF RestoreInv, RestoreTypeOK, TypeOK, StoreTypeOK
<1>1. /\ restore[a] = "writing" /\ filling[a] = {}
      /\ UNCHANGED <<vars, archived, bundled, dialog, filling, made>>
  BY DEF ReuseOriginal, RefuseOriginal, archive
<1>2. \/ /\ file[d] = "whole"
         /\ left' = [left EXCEPT ![a] = @ \ {d}]
         /\ UNCHANGED <<restore, refused>>
      \/ restore' = [restore EXCEPT ![a] = "undoing"] /\ refused' = TRUE /\ UNCHANGED left
  BY DEF ReuseOriginal, RefuseOriginal, To
<1>3. dialog = a
  BY <1>1, RestoringAlone
<1>4. ActiveKeepsFile'
  BY <1>1 DEF ListsInv, ActiveKeepsFile, vars, store
<1>5. ListsInv' /\ RestingHoldsNothing' /\ BundledIsSettled' /\ Quiet'
  BY <1>1, <1>4, FilesOnly DEF vars, store
<1>6. RestoreTypeOK'
  <2>1. TypeOK'
    BY <1>1, StepType
  <2>2. /\ restore' \in [Restores -> {"idle", "writing", "undoing"}]
        /\ left' \in [Restores -> SUBSET Docs]
        /\ \A b \in Restores : filling[b] \subseteq left'[b]
        /\ refused' \in BOOLEAN
    <3>1. CASE UNCHANGED left
      BY <1>1, <1>2, <3>1
    <3>2. CASE left' = [left EXCEPT ![a] = @ \ {d}] /\ UNCHANGED <<restore, refused>>
      BY <1>1, <3>2
    <3>3. QED
      BY <1>2, <3>1, <3>2
  <2>3. QED
    BY <1>1, <2>1, <2>2 DEF vars, app
<1>7. RestoreLosesNoBytes'
  BY <1>1 DEF RestoreLosesNoBytes, Storing, vars, store, imports, ghosts
<1>8. OneRestores'
  BY <1>1, <1>2, <1>3, <1>5 DEF OneRestores
<1>9. WritingIsSafe'
  BY <1>1, <1>2 DEF WritingIsSafe, vars, store
<1> QED
  BY <1>5, <1>6, <1>7, <1>8, <1>9

\* The transaction finds no rows, every file whole, and nothing that holds a
\* document.
LEMMA InsertArchiveKeeps ==
  ASSUME RestoreInv, NEW a \in Restores, InsertArchive(a)
  PROVE  RestoreInv'
<1> USE DEF RestoreInv, RestoreTypeOK, TypeOK, StoreTypeOK
<1>1. /\ restore[a] = "writing" /\ left[a] = {}
      /\ \A d \in Docs : row[d] = "none"
      /\ receipt' = [r \in Receipts |-> IF InArchive(r) THEN "active" ELSE "none"]
      /\ version' = archived
      /\ row' = [d \in Docs |-> IF d \in bundled THEN "stored" ELSE "none"]
      /\ restore' = [restore EXCEPT ![a] = "idle"]
      /\ made' = [made EXCEPT ![a] = {}]
      /\ UNCHANGED <<file, intent, app, imports, passes, ghosts, archived, bundled, left,
                     filling, refused>>
  BY DEF InsertArchive, To, archive
<1>2. dialog = a /\ Quiet
  BY <1>1, RestoringAlone
<1>3. dialog' = "none"
  BY <1>2 DEF InsertArchive
<1>4. RecordedIsSettled' /\ ActiveKeepsFile'
  <2>1. ActiveKeepsFile'
    BY <1>1 DEF WritingIsSafe, ActiveKeepsFile
  <2>2. RecordedIsSettled'
    BY <1>1 DEF BundledIsSettled, RecordedIsSettled, Settled, imports
  <2>3. QED
    BY <2>1, <2>2
<1>5. ListsInv' /\ RestingHoldsNothing' /\ BundledIsSettled' /\ Quiet'
  BY <1>1, <1>2, <1>4, QuietKeeps
<1>6. RestoreTypeOK'
  BY <1>1, <1>3 DEF app, imports, passes, queue, ghosts
<1>7. \A b \in Restores : b # a => filling[b] = {} /\ made[b] = {}
  BY <1>2 DEF OneRestores
<1>8. RestoreLosesNoBytes'
  <2>1. SUFFICES ASSUME NEW d \in Docs, file'[d] # "none",
                        ~(d \in unopened' /\ file'[d] = "partial")
                 PROVE  row'[d] = "stored" \/ d \in leaked'
    BY DEF RestoreLosesNoBytes
  <2>2. CASE d \in leaked
    BY <2>2, <1>1 DEF ghosts
  <2>3. CASE \E b \in Restores : d \in filling[b] \cup made[b]
    BY <2>3, <1>1, <1>7 DEF OneRestores
  <2>4. d \notin leaked => \E b \in Restores : d \in filling[b] \cup made[b]
    <3>1. Owner(d) \in Receipts
      BY DEF Docs, Owner
    <3>2. import[Owner(d)] \in {"unused", "done"}
      BY <3>1, <1>2 DEF Quiet
    <3>3. QED
      BY <3>2, <2>1, <1>1 DEF RestoreLosesNoBytes, ghosts
  <2>5. QED
    BY <2>2, <2>3, <2>4
<1>9. OneRestores'
  BY <1>1, <1>2, <1>3, RestoreNamesDiffer DEF OneRestores
<1>10. WritingIsSafe'
  BY <1>1, <1>7 DEF WritingIsSafe
<1> QED
  BY <1>5, <1>6, <1>8, <1>9, <1>10

\* A write that fails removes what it created, which nothing else needs, or
\* leaves it as given up or as an empty file.
LEMMA FailureKeeps ==
  ASSUME RestoreInv, NEW a \in Restores,
         RestoreFails(a) \/ RestoreFailsAndLeaves(a) \/ RestoreOpensNothing(a)
  PROVE  RestoreInv'
<1> USE DEF RestoreInv, RestoreTypeOK, TypeOK, StoreTypeOK
<1>1. /\ restore[a] = "writing"
      /\ restore' = [restore EXCEPT ![a] = "undoing"]
      /\ filling' = [filling EXCEPT ![a] = {}]
      /\ UNCHANGED <<receipt, version, row, intent, app, imports, passes, crashes, archived,
                     bundled, dialog, left, made, refused>>
  BY DEF RestoreFails, RestoreFailsAndLeaves, RestoreOpensNothing, To, archive, ghosts, store,
     OneRestores
<1>2. \/ /\ file' = [d \in Docs |-> IF d \in filling[a] THEN "none" ELSE file[d]]
         /\ UNCHANGED <<leaked, unopened>>
      \/ leaked' = leaked \cup filling[a] /\ UNCHANGED <<file, unopened>>
      \/ unopened' = unopened \cup filling[a] /\ UNCHANGED <<file, leaked>>
  BY DEF RestoreFails, RestoreFailsAndLeaves, RestoreOpensNothing, ghosts, store
<1>3. dialog = a
  BY <1>1, RestoringAlone
<1>4. ActiveKeepsFile'
  BY <1>1, <1>2 DEF ListsInv, ActiveKeepsFile, WritingIsSafe
<1>5. ListsInv' /\ RestingHoldsNothing' /\ BundledIsSettled' /\ Quiet'
  BY <1>1, <1>4, FilesOnly
<1>6. filling[a] \subseteq Docs
  OBVIOUS
<1>7. RestoreTypeOK'
  <2>1. file' \in [Docs -> {"none", "partial", "whole"}] /\ leaked' \in SUBSET Docs /\ unopened' \in SUBSET Docs
    BY <1>2, <1>6
  <2>2. QED
    BY <1>1, <2>1 DEF app, imports, passes, queue
<1>8. RestoreLosesNoBytes'
  <2>1. SUFFICES ASSUME NEW d \in Docs, file'[d] # "none", d \notin leaked', row[d] # "stored",
                        ~(d \in unopened' /\ file'[d] = "partial"),
                        ~ /\ import[Owner(d)] \in {"filling", "inserting", "undoing"}
                          /\ d = Storing(Owner(d))
                 PROVE  \E b \in Restores : d \in filling'[b] \cup made'[b]
    BY <1>1 DEF RestoreLosesNoBytes, Storing, imports
  <2>2. /\ d \notin filling[a] /\ file[d] # "none" /\ d \notin leaked
        /\ ~(d \in unopened /\ file[d] = "partial")
    BY <2>1, <1>2 DEF WritingIsSafe
  <2>3. PICK b \in Restores : d \in filling[b] \cup made[b]
    BY <2>1, <2>2 DEF RestoreLosesNoBytes
  <2>4. d \in filling'[b] \cup made'[b]
    BY <2>2, <2>3, <1>1
  <2>5. QED
    BY <2>4
<1>9. OneRestores'
  BY <1>1, <1>3, <1>5 DEF OneRestores
<1>10. WritingIsSafe'
  <2>1. \A b \in Restores :
          /\ restore'[b] # "writing"
          /\ filling'[b] \cup made'[b] \subseteq filling[b] \cup made[b]
          /\ filling'[b] = {}
    BY <1>1, <1>3 DEF OneRestores
  <2>2. QED
    BY <2>1, <1>1 DEF WritingIsSafe
<1> QED
  BY <1>5, <1>7, <1>8, <1>9, <1>10

\* What is undone was written by this restore, and no active receipt needs it.
LEMMA UndoKeeps ==
  ASSUME RestoreInv, NEW a \in Restores, NEW d \in Docs,
         UndoOriginal(a, d) \/ UndoOriginalFails(a, d)
  PROVE  RestoreInv'
<1> USE DEF RestoreInv, RestoreTypeOK, TypeOK, StoreTypeOK
<1>1. /\ restore[a] = "undoing" /\ d \in made[a]
      /\ made' = [made EXCEPT ![a] = @ \ {d}]
      /\ UNCHANGED <<receipt, version, row, intent, app, imports, passes, unopened, crashes,
                     archived, bundled, dialog, restore, left, filling, refused>>
  BY DEF UndoOriginal, UndoOriginalFails, EraseFile, archive, ghosts, store
<1>2. \/ file' = [file EXCEPT ![d] = "none"] /\ UNCHANGED leaked
      \/ leaked' = leaked \cup {d} /\ UNCHANGED file
  BY DEF UndoOriginal, UndoOriginalFails, EraseFile, ghosts, store
<1>3. dialog = a
  BY <1>1, RestoringAlone
<1>4. ActiveKeepsFile'
  BY <1>1, <1>2 DEF ListsInv, ActiveKeepsFile, WritingIsSafe
<1>5. ListsInv' /\ RestingHoldsNothing' /\ BundledIsSettled' /\ Quiet'
  BY <1>1, <1>4, FilesOnly
<1>6. RestoreTypeOK'
  BY <1>1, <1>2 DEF app, imports, passes, queue
<1>7. RestoreLosesNoBytes'
  <2>1. SUFFICES ASSUME NEW e \in Docs, file'[e] # "none", e \notin leaked', row[e] # "stored",
                        ~(e \in unopened /\ file'[e] = "partial"),
                        ~ /\ import[Owner(e)] \in {"filling", "inserting", "undoing"}
                          /\ e = Storing(Owner(e))
                 PROVE  \E b \in Restores : e \in filling'[b] \cup made'[b]
    BY <1>1 DEF RestoreLosesNoBytes, Storing, imports
  <2>2. /\ e # d /\ file[e] # "none" /\ e \notin leaked
        /\ ~(e \in unopened /\ file[e] = "partial")
    BY <2>1, <1>2
  <2>3. PICK b \in Restores : e \in filling[b] \cup made[b]
    BY <2>1, <2>2 DEF RestoreLosesNoBytes
  <2>4. e \in filling'[b] \cup made'[b]
    BY <2>2, <2>3, <1>1
  <2>5. QED
    BY <2>4
<1>8. OneRestores'
  BY <1>1, <1>3, <1>5 DEF OneRestores
<1>9. WritingIsSafe'
  <2>1. \A b \in Restores :
          /\ restore'[b] # "writing"
          /\ filling'[b] \cup made'[b] \subseteq filling[b] \cup made[b]
          /\ filling'[b] = {}
    BY <1>1, <1>3 DEF OneRestores
  <2>2. QED
    BY <2>1, <1>1 DEF WritingIsSafe
<1> QED
  BY <1>5, <1>6, <1>7, <1>8, <1>9

\* Everything the restore had written is gone or given up.
LEMMA EndKeeps ==
  ASSUME RestoreInv, NEW a \in Restores, EndFailedRestore(a)
  PROVE  RestoreInv'
<1> USE DEF RestoreInv, RestoreTypeOK, TypeOK, StoreTypeOK
<1>1. /\ restore[a] = "undoing" /\ made[a] = {}
      /\ restore' = [restore EXCEPT ![a] = "idle"]
      /\ left' = [left EXCEPT ![a] = {}]
      /\ UNCHANGED <<vars, archived, bundled, filling, made, refused>>
  BY DEF EndFailedRestore, To, archive
<1>2. dialog = a /\ dialog' = "none" /\ filling[a] = {}
  BY <1>1, RestoringAlone DEF EndFailedRestore, OneRestores
<1>3. ActiveKeepsFile'
  BY <1>1 DEF ListsInv, ActiveKeepsFile, vars, store
<1>4. ListsInv' /\ RestingHoldsNothing' /\ BundledIsSettled' /\ Quiet'
  BY <1>1, <1>3, FilesOnly DEF vars, store
<1>5. RestoreTypeOK'
  BY <1>1, <1>2 DEF vars, store, app, imports, passes, queue, ghosts
<1>6. RestoreLosesNoBytes'
  BY <1>1 DEF RestoreLosesNoBytes, Storing, vars, store, imports, ghosts
<1>7. OneRestores'
  BY <1>1, <1>2, RestoreNamesDiffer DEF OneRestores
<1>8. WritingIsSafe'
  BY <1>1, <1>2 DEF WritingIsSafe, vars, store
<1> QED
  BY <1>4, <1>5, <1>6, <1>7, <1>8

-----------------------------------------------------------------------------
(* What the transactions record. *)

\* An import records a document only once it has written its file.
LEMMA RecordedIsWhole ==
  ASSUME TypeOK, ListsInv, [Next]_vars, NEW d \in Docs, row[d] = "none", row'[d] = "stored"
  PROVE  file'[d] = "whole"
<1> USE DEF TypeOK, StoreTypeOK
<1>1. ASSUME NEW r \in Receipts, ImportNext(r), ~InsertStored(r) PROVE row'[d] # "stored"
  BY <1>1 DEF ImportNext, PickFile, PickerReturns, CreatePending, CreatePendingFails, AcceptFile,
     RejectFile, StartWrite, FinishWrite, FailWrite, FailWriteAndRemoval, OpenWriteFails, StoringFails, InsertFails,
     UndoWrite, UndoFails, ShowImported, DropFailedImport, KeepFailedImport, CreateManual,
     EditReceipt, CreateReceipt, UpdateReceipt, TombstoneReceipt, CreateFile, FillFile, EraseFile,
     store
<1>2. ASSUME NEW r \in Receipts, InsertStored(r) PROVE file'[d] = "whole"
  BY <1>2 DEF InsertStored, InsertDocument, ListsInv, StoringFits
<1>3. ASSUME NEW p \in Passes, CleanupNext(p) PROVE row'[d] # "stored"
  BY <1>3 DEF CleanupNext, ListPending, ListFails, EraseNext, EraseFails, MarkErased, MarkFails,
     EndCleanup, ReportCleanup, MarkStorageDeleted, EraseFile, store
<1>4. ASSUME NEW s \in Deletions, DeletionNext(s) PROVE row'[d] # "stored"
  BY <1>4 DEF DeletionNext, ConfirmDeletion, DeleteReceipt, RefuseDeletion, EndDeletion, RetryShown,
     Unmount, TombstoneReceipt, store
<1>5. ASSUME DeleteAllNext PROVE row'[d] # "stored"
  BY <1>5 DEF DeleteAllNext, ConfirmDeleteAll, EndErasing, DeleteSecrets, CompleteDeleteAll,
     InterruptDeleteAll, RetryDeleteAll, BeginDeletion, FinalizeDeletion, store
<1>6. CASE RetryCleanup \/ GoBack \/ Open \/ Crash \/ UNCHANGED vars
  BY <1>6 DEF RetryCleanup, GoBack, Open, Crash, vars, store
<1> QED
  BY <1>1, <1>2, <1>3, <1>4, <1>5, <1>6 DEF Next

\* Of the steps of a restore only its transaction records anything, and that
\* comes when nothing is left to write.
LEMMA RestoredIsWhole ==
  ASSUME RestoreInv, NEW a \in Restores, RestoreStep(a),
         NEW d \in Docs, row[d] = "none", row'[d] = "stored"
  PROVE  file'[d] = "whole"
<1> USE DEF RestoreInv, RestoreTypeOK, TypeOK, StoreTypeOK
<1>1. ASSUME ~InsertArchive(a) PROVE row'[d] # "stored"
  BY <1>1 DEF RestoreStep, StartRestore, CreateOriginal, FillOriginal, ReuseOriginal,
     RefuseOriginal, UndoOriginal, UndoOriginalFails, RestoreFails, RestoreFailsAndLeaves,
     RestoreOpensNothing,
     EndFailedRestore, CreateFile, FillFile, EraseFile, vars, store
<1>2. CASE InsertArchive(a)
  <2>1. restore[a] = "writing" /\ left[a] = {} /\ d \in bundled /\ file' = file
    BY <1>2 DEF InsertArchive
  <2>2. QED
    BY <2>1 DEF WritingIsSafe
<1> QED
  BY <1>1, <1>2

-----------------------------------------------------------------------------
(* The theorems. *)

\* RestoreInv is inductive for a patient user.
LEMMA StepRestore == RestoreInv /\ [PatientRestoreNext]_rvars => RestoreInv'
<1> SUFFICES ASSUME RestoreInv, [PatientRestoreNext]_rvars PROVE RestoreInv'
  OBVIOUS
<1>1. CASE UNCHANGED rvars
  <2>1. TypeOK' /\ ListsInv' /\ RestingHoldsNothing'
    BY <1>1, StepType, StepLists, StepResting DEF RestoreInv, RestoreTypeOK, rvars
  <2>2. UNCHANGED <<vars, archived, bundled, dialog, restore, left, filling, made, refused>>
    BY <1>1 DEF rvars, archive, restoring
  <2>3. RestoreTypeOK'
    BY <2>1, <2>2 DEF RestoreInv, RestoreTypeOK, vars, app
  <2>4. RestoreLosesNoBytes' /\ BundledIsSettled'
    BY <2>2 DEF RestoreInv, RestoreLosesNoBytes, BundledIsSettled, Settled, Storing, vars, store,
       imports, ghosts
  <2>5. OneRestores' /\ WritingIsSafe'
    BY <2>2 DEF RestoreInv, OneRestores, Quiet, WritingIsSafe, vars, store, imports, passes
  <2>6. QED
    BY <2>1, <2>3, <2>4, <2>5 DEF RestoreInv
<1>2. CASE PatientRestoreNext
  <2>1. CASE Besides
    BY <1>2, <2>1, BesidesKeeps DEF PatientRestoreNext
  <2>2. CASE ExportArchive
    BY <2>2, ExportKeeps
  <2>3. ASSUME NEW a \in Restores, RestoreStep(a) PROVE RestoreInv'
    <3>1. CASE StartRestore(a)
      <4>1. dialog' = a /\ dialog = "none" /\ a # "none"
        BY <3>1, RestoreNamesDiffer DEF StartRestore
      <4>2. Quiet
        BY <1>2, <4>1 DEF PatientRestoreNext
      <4>3. QED
        BY <3>1, <4>2, StartKeeps
    <3>2. ASSUME NEW d \in Docs,
                 \/ CreateOriginal(a, d) \/ FillOriginal(a, d)
                 \/ ReuseOriginal(a, d) \/ RefuseOriginal(a, d)
                 \/ UndoOriginal(a, d) \/ UndoOriginalFails(a, d)
          PROVE  RestoreInv'
      BY <3>2, CreateKeeps, FillKeeps, ReuseKeeps, UndoKeeps
    <3>3. CASE InsertArchive(a)
      BY <3>3, InsertArchiveKeeps
    <3>4. CASE RestoreFails(a) \/ RestoreFailsAndLeaves(a) \/ RestoreOpensNothing(a)
      BY <3>4, FailureKeeps
    <3>5. CASE EndFailedRestore(a)
      BY <3>5, EndKeeps
    <3>6. QED
      BY <2>3, <3>1, <3>2, <3>3, <3>4, <3>5 DEF RestoreStep
  <2>4. QED
    BY <1>2, <2>1, <2>2, <2>3 DEF PatientRestoreNext, RestoreNext
<1> QED
  BY <1>1, <1>2

\* The strengthening holds in every behaviour of a patient user.
THEOREM RestoreInvHolds == PatientRestoreSpec => []RestoreInv
<1> QED
  BY RestoreInitInv, StepRestore, PTL DEF PatientRestoreSpec

\* Restores, imports, deletions and crashes keep every variable in its domain,
\* and the dialog over a list that is shown.
THEOREM RestoreTypeCorrect == PatientRestoreSpec => []RestoreTypeOK
<1>1. RestoreInv => RestoreTypeOK
  BY DEF RestoreInv
<1> QED
  BY <1>1, RestoreInvHolds, PTL

\* createdReferences: whatever a restore writes is recorded in the end, or
\* removed, or left by a failed removal or a crash; the one file it leaves
\* without trying to remove it is empty (createWritable on the web).
THEOREM RestoresLoseNoBytes == PatientRestoreSpec => []RestoreLosesNoBytes
<1>1. RestoreInv => RestoreLosesNoBytes
  BY DEF RestoreInv
<1> QED
  BY <1>1, RestoreInvHolds, PTL

\* The original of an active receipt is whole, the restored ones included,
\* whatever the clean-up passes had listed before.
THEOREM RestoredKeepTheirFiles == PatientRestoreSpec => []ActiveKeepsFile
<1>1. RestoreInv => ActiveKeepsFile
  BY DEF RestoreInv, ListsInv
<1> QED
  BY <1>1, RestoreInvHolds, PTL

\* ARCHITECTURE.md:128: the transaction that ends a restore finds the bytes of
\* every document it records, if the user starts restores only when all is
\* quiet.  The run restore_purge shows what happens otherwise.
THEOREM RestoredComeWhole == PatientRestoreSpec => RestoredHaveBytes
<1>1. ASSUME RestoreInv, [PatientRestoreNext]_rvars, NEW d \in Docs,
             row[d] = "none", row'[d] = "stored"
      PROVE  file'[d] = "whole"
  <2>1. CASE Besides \/ UNCHANGED vars
    BY <1>1, <2>1, RecordedIsWhole DEF RestoreInv, RestoreTypeOK, Besides
  <2>2. ASSUME ExportArchive \/ UNCHANGED rvars PROVE UNCHANGED vars
    BY <2>2 DEF ExportArchive, rvars
  <2>3. CASE \E a \in Restores : RestoreStep(a)
    BY <1>1, <2>3, RestoredIsWhole
  <2>4. QED
    BY <1>1, <2>1, <2>2, <2>3 DEF PatientRestoreNext, RestoreNext
<1>2. RestoreInv /\ [PatientRestoreNext]_rvars =>
        [\A d \in Docs : row[d] = "none" /\ row'[d] = "stored" => file'[d] = "whole"]_rvars
  BY <1>1
<1> QED
  BY <1>2, RestoreInvHolds, PTL DEF PatientRestoreSpec, RestoredHaveBytes
-----------------------------------------------------------------------------
(* The parts of the device together. *)

\* The device does what its parts do: a step is one of a single part, and the
\* others stand still beside it, so that each keeps what its own theorems say.
THEOREM DeviceIsItsParts ==
  DeviceSpec => /\ PatientRestoreSpec /\ ClassSpec /\ FormSpec /\ BackupSpec /\ ArchiveSpec
                /\ ViewSpec /\ LaunchSpec
<1>1. DeviceInit => /\ RestoreInit /\ ClassInit /\ FormInit /\ BackupInit /\ ArchiveInit
                    /\ ViewInit /\ LaunchInit
  BY DEF DeviceInit
<1>2. [DeviceNext]_deviceVars =>
        /\ [PatientRestoreNext]_rvars /\ [ClassNext]_classVars /\ [FormNext]_formVars
        /\ [BackupNext]_backupVars /\ [ArchiveNext]_archiveVars /\ [ViewNext]_viewVars
        /\ [LaunchNext]_launchVars
  BY DEF DeviceNext, deviceVars
<1> QED
  BY <1>1, <1>2, PTL DEF DeviceSpec, PatientRestoreSpec, ClassSpec, FormSpec, BackupSpec,
     ArchiveSpec, ViewSpec, LaunchSpec

\* Every screen, call and transaction of the device stands where its code can
\* stand, and rows refer to rows that are there.
THEOREM DeviceTypeCorrect == DeviceSpec => []DeviceTypeOK
<1>1. /\ RestoreTypeOK /\ ClassTypeOK /\ FormTypeOK /\ BackupTypeOK /\ ArchiveTypeOK
      /\ ViewTypeOK /\ LaunchTypeOK
      => DeviceTypeOK
  BY DEF DeviceTypeOK
<1> QED
  BY <1>1, DeviceIsItsParts, RestoreTypeCorrect, ClassTypeCorrect, FormTypeCorrect,
     BackupTypeCorrect, ArchiveTypeCorrect, ViewTypeCorrect, LaunchTypeCorrect, PTL
=============================================================================
