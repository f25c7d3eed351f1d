# Formal model of Reimbursd

Reimbursd keeps expenses and receipt files. The local-first mobile application stores rows in
SQLite and file bytes in an attachment directory; nothing makes the two atomic. The hosted API does
the same with PostgreSQL and an object store. Most of what can go wrong lives in between: a file
without a row, a row without its file, a clean-up working from an old list, an answer that comes
late, an operation that dies half way and is continued later. These modules model that, check it on
small instances, and prove the central promises for every instance.

## Inventory

| Component (source) | State | Operations | Hard behaviour | Correct when |
|---|---|---|---|---|
| Receipt and document tables (`packages/database`) | `receipts`, `receipt_documents`, versions, tombstones | create, update, delete, create document, find by hash, list pending, mark deleted | optimistic versions; checks made again inside the transaction | no duplicate original, no lost update |
| Attachment directory (`apps/mobile/src/storage/local-attachments.ts`) | files by reference | writeOnce, read, delete | partial files, failed removals | bytes of an active receipt are never lost |
| Import (`packages/attachments`, `features/receipts`) | the stage of each import | pick, create pending receipt, check, write, record, preview, compensate | every await interleaves with deletion, delete-all and another import | no file without an owner |
| Deletion and clean-up (`receipt-deletion.ts`, detail and list screens) | lists of documents held across awaits, failures shown | delete, retry, clean up pending | stale lists, several passes at once, screens that unmount | only tombstones lose bytes; pending files are removed at last |
| Delete-all (`local-data-deletion*.ts`) | durable intent | begin, erase, secrets, finalize, resume | crash at any point | ends by forgetting no file; blocks normal use while pending |
| Application shell (`apps/mobile/src/App.tsx`) | route, cleanup issue, guards read from renders | start, navigate, retry | closures over old state | the retry stays visible while needed |
| Launch and migrations (`expo-sqlite.ts`, `sqlite.ts`, `App.tsx`) | schema, migration records, the shared promise | open, migrate, resume, try again | a crash between a migration and its record; an older release on a newer file | screens only over the release's schema |
| Shared SQLite connection (`expo-sqlite.ts`) | one connection, one open transaction | begin, write, commit, roll back | two transactions interleave | a transaction is atomic |
| Structured restore (`structured-restore.ts`, `structured-import-repository.ts`) | created references | write originals, insert all rows, compensate | crash between files and rows | all or nothing, retry possible |
| Structured export and import (`packages/export`) | none | snapshot, archive, checks of an archive | one read transaction; lists that must agree | what is read is what was exported, or nothing |
| Backup and key (`packages/crypto`, `encrypted-backup.ts`, list screen) | key record, pending promise, key bytes shared by screen and call | get or create, save recovered, delete, encrypt, decrypt | delete beside create; bytes zeroed while a call reads them; sizes at the limit | a backup opens with the key its user was shown |
| Text recognition, history, review (`receipt-ocr.ts`, `processing-repository.ts`, `receipt-repository.ts`) | evidence, history | process, complete, review | crash between steps; stale suggestions | each suggestion is decided at most once |
| Parser and forms (`packages/extraction`, `packages/domain`, `expense-form.ts`, `expense-review.ts`) | the form | parse, propose, type over, submit | fraction digits of currencies, separators, ambiguous dates | what nobody touched is saved as it was printed |
| Categories and tags (`classification-repository.ts`, `ExpenseClassificationModal.tsx`) | labels, assignments, panel | create, rename, delete, load, toggle, save | delete beside assign; a panel read with several queries | no active assignment of a deleted label |
| List, reports, CSV (`ExpenseListScreen`, `expense-filter.ts`, `reporting-repository.ts`, `expense-csv.ts`) | filters, awaited questions, what is shown | search, filter, refresh, report | answers late and out of order | a settled screen shows what is stored |
| Hosted API (`apps/api`) | rows, objects, schema history | create and list receipts, upload, download, compensate, migrate | concurrent uploads, lost answers, processes that die, releases side by side | a row implies its object; owners are apart |
| Worker (`apps/worker`) | queue jobs | start, probe, handle, stop | jobs of dead processes, expiry | ready only by its own job |
| Web client (`apps/web`) | token, list, dialog, awaited calls | sign in and out, list, create, retry | answers after another sign-in, answers lost | shows one's own receipts; records a draft once |
| Content inspector (`packages/attachments`), screen components, Vision module | none | pure or native | | see Not modelled |

`PROJECT.json` lists the same parts with their status, and each hazard at its line.

**How the parts interact.** JavaScript is single-threaded, so concurrency on the device is what
happens between two awaits. `App.importReceipt` calls the capture coordinator, which creates a
pending receipt, has the ingestor store the original, then the preview writer, then text recognition.
The detail screen calls the deletion coordinator, and on success the shell's `retryPendingCleanup`,
the code the retry button and the startup also run. The delete-all coordinator uses the same clean-up
pass and two repository operations. All of them share the two stores and nothing else; the guards
between them (`importing`, `retryingCleanup`) are React state, read at the last render. The other
parts of the device meet these in the tables: panels, forms and lists read rows and write them with
the version they read. The hosted API is several processes over one database and one bucket; its
clients meet it through calls whose answers may come late or never, the worker through a queue.

## Modules

### Files, receipts and deletion

`DocumentPromise` - the abstract specification: what the application promises of a document, and
nothing of how. A document is `unknown`, `readable`, `deleted` or `removed`; it appears whole and
once, all documents of a receipt are deleted in one step, one is removed only after that, and all are
forgotten together when none is left to remove.

`ReceiptStore` - the two stores and each repository or file operation as a transition. One variable
per table column the properties need: `receipt` (no row, active, tombstone), `version`, `row`
(`storage_deleted_at` NULL or set), `intent`, and `file` for the directory. A document and its file
are one identity because a storage reference contains the document's fresh UUID. Each SQL operation
is a single step; its guard is the operation's `WHERE` clause, checks and triggers.

`LocalReceipts` - EXTENDS the stores with everything that awaits:

- `import[r]`, `part[r]`: where the import of receipt `r` stands and which document it stores. One
  action per await of `importReceipt`, `ReceiptCaptureCoordinator.import`, `ingestOriginal` and
  `AttachmentPreviewWriter.write`, with the failure of each and its compensation. After the preview
  comes text recognition (`reading`), which touches neither store, and the navigation to the
  imported expense, which unmounts the dialog or detail screen the user is on.
- `pass[p]`, `todo`, `cur`, `failed`: clean-up passes. A pass belongs to a receipt deletion, to the
  retry button (and startup), or to delete-all; all run `cleanupDocuments`. `todo` is the stale
  list, `cur` the document erased and not yet marked, `failed` what is reported.
- `ask`, `refresh`: what a deletion captured when it was confirmed, and whether it now runs the
  shell's clean-up.
- `screen`, `issue`, `retrying`: the shell. `ready` is every screen of normal use.
- `Crash` keeps the two stores and drops all the rest. `leaked` (files whose removal failed, or that a
  crash left), `unopened` (files of `OpenWriteFails`, a write the web could not open, which leaves the
  file it created and tries no removal) and `crashes` are history.
- `Life` is the refinement mapping: what the tables and the directory say of a document, with a value
  (`lost`) for a row whose bytes are not as it says, which is in no state of the promise.
  `Promise == INSTANCE DocumentPromise WITH life <- Life`, and `KeepsPromise` is `Promise!Spec`.

`StructuredRestore` - EXTENDS `LocalReceipts` with the export of a complete archive and its restore.
`archived` and `bundled` are what the archive holds (rows with their versions, documents with their
bytes); `restore[a]`, `left[a]`, `filling[a]` and `made[a]` (`createdReferences`) are where the await
of `restoreStructuredData` stands; `dialog` is the modal that starts it and covers the list.
`InsertArchive` is `restoreClean`. `Besides` is any step of `LocalReceipts`, without what the
dialog keeps the user from; it takes the dialog away when the list unmounts, which leaves the restore
running. A restore breaks the rule the core rests on, that an identity is used only once.

`DataArchive` - what `StructuredRestore` leaves out: the content of an archive. `table` are the rows
an export reads, `exported` the records and originals `Snapshot` and `AreValid` make of them, `zip` a
content for each path (records, manifest, checksums, originals), `parsed` what `ParseExport` makes of
it after each check of `structured-import.ts`. `LoseFile`, `MixUpFile`, `SpoilFile` and `ForgetFile`
damage the archive in between. `RestoreClean` inserts the rows of any archive (`ArchivedTables`) with
the times of the device that made it. `clock` is the device's: `setBack` says that it was set back,
`behind` that a restored merchant was created later than it shows.

`SharedConnection` - what every other module of the device takes as given. `calls[t]` is where a call
of `transaction` stands, `begun` and `pending` the one transaction SQLite has, `durable` what is
committed. A second `BEGIN` throws, and its `ROLLBACK` is executed on the transaction of the first.

### Reviews, forms and views

`ReceiptReview` - a second view of the same rows, for what text recognition finds and the user decides:

- `receipt`, `version`, `value`: the receipts; `value` holds the reviewed columns.
- `candidate`, `verdict`, `correction`: `field_evidence`, the parser's row of a field, its
  `accepted_at`/`corrected_at`, and the user's last correction.
- `ocr`, `parser`, `outcome`: `processing_history`, the status of each processor's row and the
  `review_status` of the parser's.
- `step[r]`: the await of `ReceiptOcrCoordinator.process`, up to the navigation that ends the import.
- `screen`, `shown`: `route.name`, `route.receipt`; `seen`, `pending`: the suggestions and history
  rows the detail screen holds; `loading`: its two reads that are not back.
- `submitted`: the reviews that are awaited, each with what its form was opened on; `saving`: the
  one the form on screen waits for. The back button leaves a review awaited without its form.

`Save` is `buildReceiptReviewInput`. `Commit` is the transaction of
`SqliteReceiptReviewRepository.review`, one conjunct per check (`EvidenceIsOpen`, `ReceiptIsAsShown`,
`ChangesAreCovered`, `HistoryIsPending`) and per table written, with the navigation that follows;
`RollBack` is any refusal or failure of it. `ShowDetail` keeps what a mounted detail screen has read,
because React keeps its state until the effects of the new receipt answer.

`ReceiptText` - pure operators: `DeterministicReceiptParser` on lines (the words of `Words` a line
contains, the amount it ends with, its date), the scaling and normalising of money, what makes a date
ambiguous. A line is what the patterns find in it, never its characters.

`ExpenseForm` - EXTENDS `ReceiptText`: a paper whose prints say what the merchant meant, its
recognition, the form filled with the suggestions (`FilledForm`), fields that are typed over, the
update and the review that are sent (`Update`, `Corrections`), and what `validateReview` and
`validateCorrectionCoverage` find in them (`IsCovered`, `IsReviewed`). `SaveAnother` is the expense
of the same merchant that writes its display name anew.

`ExpenseViews` - EXTENDS `ReceiptText`: `asked` are the questions the list and the report await, with
the answers the tables gave (`Answer`), which arrive in any order (`Deliver`); `latest` is the
question of the effect that is active, the `cancelled` flag of the others. `OptionsOf` is
`expense-filter.ts`, `TotalsOf` the sums of `reporting-repository.ts`, `CsvLines` those of
`expense-csv.ts`.

`Classification` - `label`, `named`, `filed`, `link` are the tables; `panel[p]` is a panel of
`ExpenseClassificationModal`: which of its five reads are awaited, what it has loaded, what is picked
and whether its save is on its way, perhaps with the panel closed.

### Backup and launch

`EncryptedBackup` - `kept` is the record of the secure store, `flight` the `#pending` promise of
`BackupKeyManager` with who awaits it, `sheet[l]` the dialogs of a list screen with the call it
awaits, `backups` the files delivered. Key bytes are shared: `Zeros` is what a key becomes when a
sheet is closed under a call. `EnvelopeSize` and `FitsLimits` are the sizes of the envelope.

`LocalLaunch` - `database` (versions whose tables are made, versions recorded), `transaction` (what is
not committed), `missing`, `at` and `promise` (the repositories' shared promise). `Relaunch` is a
crash, an upgrade or a downgrade, at any step.

### Hosted system

`HostedReceipts` - the tables of merchants and receipts, with identifiers that clients choose.
`HostedAttachments` EXTENDS it with `document`, `object` and the `request`s that upload or download:
`InspectUpload`, `FindNoDuplicate`, `PutObject`, `InsertDocument`, `RejectDocument`, `DeleteObject`
are the awaits of `HostedAttachmentService`, `...Unanswered` the calls that have their effect and no
answer, `ApiCrash` the end of the process. The S3 client sends an unanswered call again: a PUT then
meets its own condition, a DELETE (`repeating`) has none and deletes what was written since
(`DeleteObjectAgain`, `taken`). A call that is sent again has taken its effect by then or never does.
`acked`, `served`, `leaked` and `taken` are history.

`WebClient` EXTENDS `HostedReceipts`: one tab. `calls` are the fetches; the server answers a call in
one step (`ServeList`, `ServeCreate`, `Refuse`) and the answer arrives in another (`SessionArrives`,
`ListArrives`, `CreateArrives`), whoever is signed in by then.

`Worker` - processes over an external queue: `phase`, `job` (one probe per process), `hand` (the job
its handler has), `resolved` (the readiness promise), `mislaid` (history: the jobs the queue has lost,
by a claim that was committed and not answered, `FetchUnanswered`, or by its retention, `Lapse`, at any
time). A completion can fail as well (`HandleUncompleted`). `HostedSchema` - API processes that migrate one
database: `history` as committed, `applied` in a transaction, `lock` the advisory lock.

### Instances and proofs

`MCLocalReceipts`, `MCStructuredRestore`, `MCReceiptReview`, `MCSharedConnection` instantiate one
module each. `MCHosted` and `MCDevice` put several parts in one run: a variable `cast`, chosen in the
first state, says which part takes steps in a behaviour. The parts of a cast interleave with each
other (requests, a tab and the server, processes, panels); parts of different casts meet in tables
only, and what a part may find there is in its own `Init` and in actions that stand for the other
writers (`SaveAnother`, `ChangeReceipt`, `Write`, `CreateReceipt`). The run explores the union of the
parts and not their product.

The theorems are in `LocalReceipts_proofs`, `Device_proofs` (restores, and the device together),
`ReceiptReview_proofs`, `Expense_proofs` (labels, the form, the views), `DeviceData_proofs` (launch,
backups, archives, the shared connection), `HostedAttachments_proofs`, `WebClient_proofs`, and
`Hosts_proofs` (schema, worker, and the hosted parts together, which builds on the two before).

**Abstractions**, all of data. A pass reads its list as a set, so documents are erased in any order
(the code's order is one of them); limits, MIME inspection and hashing are one choice between
accepted and rejected, apart from the duplicate check, which is kept; a hash is injective; a
document's bytes are absent, partial or whole; a user's cancel and an error before anything is stored
end the same way. The models start with empty stores, except `EncryptedBackup` (native or web),
`ExpenseForm` (a paper) and `ExpenseViews` (rows). In `StructuredRestore` the export is one step,
because stored bytes never change and its rows come from one transaction, and "every application
table is empty" is said of receipts and documents. In `ReceiptReview` a receipt is recognised once, by
the import that created it (the only caller of `process`), the clock never goes back, so the last
correction is the one that `canSupersedeFieldEvidence` prefers, and the files, delete-all and
clean-up are left to the core. The core in turn lets the end of an import close a detail screen and
clear `importing` for that import only, where the shell keeps a mounted screen with a changed receipt
(which `ReceiptReview` models) and has one flag for all; no property of the core depends on either.
`ExpenseForm` speaks of single submissions: a field is not touched again after a refusal.

**Taken as given**: a repository operation is atomic. `SharedConnection` shows where the device does
not guarantee it (two transactions on one connection); every other result is relative to it. There
is at most one delete-all pass at a time.

## Runs

| Run | Question | Instance | Why it is enough |
|---|---|---|---|
| `safe` | types; an active receipt keeps its files; a mark is true; no bytes are lost silently; a pending delete-all blocks use; the purge forgets no file; the promise is kept (refinement) | one image (original and preview), one deletion, versions to 2, one crash | the three kinds of pass can hold stale lists at once, against an import, an edit and a crash at any await; the theorems lift it to any number |
| `twin` | two overlapping imports of one file | two receipts, same content | the duplicate rule relates two receipts; a tombstone may hold the hash as well |
| `live` | pending files are removed after a restart; delete-all completes | one receipt, one deletion, one crash | failures are unbounded in number but not for ever; a crash can hit each stage |
| `orphan` (violation) | ADR-0011: "A completed operation leaves no Reimbursd user records or receipt files" | one receipt, one crash | see Findings |
| `lost_retry` (violation) | SECURITY_MODEL: "visible retry prevent interrupted cleanup from being forgotten" | one receipt, no crash, a user who waits for imports | see Findings |
| `restore_purge` (violation) | ARCHITECTURE: "restoring metadata without bytes would create invalid references" | one receipt, no crash, delete-all beside the restore | see Findings |
| `restore_refused` (violation) | `structured-restore.ts`: "retry the same interrupted restore" | one receipt, one crash | see Findings |
| `review` | values have their provenance; a suggestion is decided once, with the update it belongs to; no lost update; tombstones are frozen | an imported receipt beside another, one suggested field of two values, versions to 3, one awaited review | a stale screen needs a second receipt and a second version; an accepted, a corrected and an untouched field are three histories of one; two awaited reviews at once are covered by the theorems |
| `review_history` (violation) | README: receipt updates and parser review status "are committed atomically" | one imported receipt | see Findings |
| `hosted` | uploads: what was acknowledged stays, an object has an owner, a download serves what was recorded, owners are apart. Tab: one's own receipts, one receipt per draft. Workers: ready by one's own probe, and the probe is not lost. Releases: starts do not collide and serve only their schema | 2 owners, 2 receipts, 2 merchants, 1 document, 2 files, 2 requests; 2 calls awaited; 3 processes; 3 releases with the histories a, a b and a c | two requests race for every identifier; a third process can meet the jobs of two; a release before, after and beside another. The theorems lift each to any number |
| `device` | one part each: a restore, its failures, crashes and retry; labels and panels; the amounts of a form; backups; archives; views; launches | restore: one receipt, one original, one crash. Labels: one category, one tag, one name, two panels, versions to 3. Form: six bills of a cafe, two spellings, two fields typed over. Backup: two keys, two list screens, sizes 0, 1, 1 GiB and one more byte. Archive: two receipts, one damage, two schemas. Views: two expenses, two questions, one later row. Launch: two releases, three launches | two panels or two screens are what a stale one needs; the bills differ in fraction digits, separators and in how the currency is named; a limit is met at it and one beyond; one damage at each path is what each check must notice; an upgrade, a crash in it and a downgrade need three launches |
| `shared_connection` (violation) | DATA_MODEL: a constraint failure "cannot leave partial extraction evidence" | two transactions of two rows | see Findings |

Bounds, each named in its module: `MaxVersion`, `MaxRevision`, `MaxClassified` limit edits,
`MaxEdits` the fields typed over, `MaxSubmissions` the reviews and `MaxCalls` the calls awaited at a
time, `MaxCrashes` and `MaxLaunches` crashes and launches, `MaxBackups` files delivered, `MaxTime`
the clock, `MaxDamage` changes to an archive, `MaxAsked` and `MaxWritten` questions and later rows.
`Deletions`, `Restores`, `Panels`, `Lists`, `Requests`, `Workers`, `Servers` are the actors. There is
one archive at a time, so two different archives are not mixed. In `LocalReceipts` receipts are
identities that are used once. `MaxSafeInteger` is 10^8 in `device`, TLC's integers being of 32 bits;
the limit is met by sums in the same way.

`hosted` has a constraint, `FewFailures`: at most one reference is given up and at most one is hit by
a DELETE that was sent again, as failures beyond the first only add to what the properties exempt.

Symmetry is used for safety only, over owners, receipts, files, panels, screens and keys, which no
expression tells apart. Deadlock is checked in the runs of the core and of the reviews. It is not in
`hosted`, `device` and `shared_connection`, where the system really may stop: every process has
ended, every transaction is over, the bound on launches or questions is reached.

**Fairness** (`FairSpec`, only for `live`). `ProgramRuns`: an await that was started settles, so the
steps of passes are weakly fair. A file operation, transaction or key-store call may fail any number
of times but not for ever: strong fairness of the succeeding steps, which the repository's retry
design assumes. `UserReturns`: the user opens the application again, leaves a detail screen some
time, and presses the only button of the panel and the retry button while it is shown. Nothing is
assumed about imports, edits or new deletions. The number of crashes is bounded, as an
application that dies for ever deletes nothing. The worker has no liveness property: a probe that
expires, or that was fetched by a process which was then killed, is never sent again, and nothing in
the code resolves the readiness then but the caller's timeout. What does hold is stated as
`ProbeIsOnItsWay`.

## Findings

`orphan`. `ingestOriginal` writes the file, then its row. Delete-all started in between lists rows, finds
none, and `finalize` counts rows, finds none, and purges. If the application dies before the
import's own compensation, the file stays and no table names it. `NoBytesLostSilently` shows this is the only
way bytes are left besides a removal that fails: every other order of awaits ends in the import's
compensation.

`lost_retry`. The retry button starts a pass, whose list is empty or soon done. While it awaits, a
deletion is confirmed, its file cannot be removed, and the deletion shows the button
(`onCleanupNeeded`). The first pass ends without failures and clears the issue. The file
stays pending and the button is gone until the application restarts. (`live` shows the restart does recover it.)

`restore_purge`. The end of an import navigates away from the list while the delete-all dialog is
open; delete-all goes on. The user returns to the list and starts a restore, which finds the
originals of the archive still in place with the right bytes and writes none of them. Delete-all
erases them and purges the rows; `restoreClean` then finds the empty database it requires and inserts
active receipts whose files are gone.

`restore_refused`. A restore that dies between creating a file and filling it leaves a partial file at the
reference each retry has to write. Its bytes differ, so the retry ends in a storage conflict, on a
database that is empty and with the same archive.

`review_history`. The detail screen reads evidence and history in two effects, each once.
Candidates are stored before the parser run is completed, so a screen opened in between, or one whose
history read fails or is slower than the user, holds suggestions and no history row. The review it
leads to is accepted: `review` checks the history rows it is given and does not ask for the one it
should have been given. The candidates are decided, the parser row stays `pending`, and as no
suggestion is left no later review names it.

`shared_connection`. Two repository calls that open a transaction on the device's one connection are
not kept apart. The `BEGIN` of the second throws, and the `ROLLBACK` of its error path undoes what the
first has written; the first goes on outside any transaction, its next rows commit one by one, and
when a constraint refuses a later one the earlier stay.

Behaviour met while modelling that no run refutes a document with:

- On the web `writeWebFileOnce` creates the file and opens it for writing before the `try` whose `catch`
  removes it. If `createWritable()` throws, the empty file stays, no removal is tried, and the error does
  not say that a file stayed, although THREAT_MODEL.md counts on "compensating failed writes". A later write to the reference,
  as in the retry of a restore, then meets the file.
- The S3 client of `server.ts` sends a DELETE again whose answer was lost. If another request with the
  same identifiers has put its object and was answered 201 in between, the second DELETE takes that
  object ("immutable private objects", ADR-0015). `AckedIsStored` says that nothing else does.
- A claim of a readiness job that is committed and not answered leaves the job active in no hand; with
  `retryLimit` 0 it fails after 30 seconds, and a process that runs alone never becomes ready.
- A process serves on when a newer release has migrated the schema beyond its own.
- The patient user is needed: without him `RestoreLosesNoBytes` and `ActiveKeepsFile` fail in
  `StructuredRestore`, as a pass that listed a document before delete-all forgot it erases the file the
  restore has brought back. The hazard is listed with its note.
- A review of a bill in JPY, which has no fraction digits, is refused while the form still shows an
  amount that was not found, written with two of them, until it is typed again.
- An amount without a currency beside it is scaled with the fraction digits of the default currency;
  `1 234,56 EUR` is read as 234,56. `NamesOneCurrency`, the condition of `UntouchedIsOnPaper`, says
  which bills are read as the merchant meant them.
- `upsertMerchant` renames the merchant for all its receipts, so that a form opened before is refused
  as if its user had changed the name (`RefusalIsExplained`).
- A classification save whose panel was closed moves the user to the detail screen when it ends.
- A report whose sum is beyond `Number.MAX_SAFE_INTEGER` fails for every filter that contains it.
- After the device's clock was set back an update gives a merchant an `updated_at` before its
  `created_at`; no write refuses that, and each later export does. The same follows without any clock
  set back when merchants were restored from a device whose clock was ahead, because `restoreClean` keeps
  their times. `ExportsUnlessTimesDisagree` says that these are the only ways. A review
  dated before its processing is refused in the same way.
- The key manager may save a key after delete-all has deleted the record, if a backup was being
  prepared.
- In the web client a late answer to a retry or a creation of an earlier sign-in is shown to the next
  one (`view.late`; `ShownIsOwn` says that nothing else is).

## What is proved

Every theorem holds for every value of the constants that its assumptions allow, and rests on the
stated assumptions of its module only.

**The core** (`LocalReceipts_proofs`). For every `Receipts`, `Images`, `Content`, `Deletions` and
bound, from the assumptions `ImagesAreReceipts`, `SomeReceipt`, `BoundsAreNaturals` and `NamesDiffer`,
TLAPS checks

- `TypeCorrect`: `TypeOK`;
- `FilesCorrect`, and from it `ActiveFilesAreKept`, `MarksAreTrue`, `FilesAreAccountedFor`,
  `PurgeIsComplete`;
- `DuplicatesAreRefused`: `OriginalsAreDistinct`;
- `PendingDeletionBlocksUse`: `IntentBlocksNormalUse`;
- `PromiseIsKept`: `KeepsPromise`, that `LocalReceipts` implements `DocumentPromise`.

The argument for files. `ActiveKeepsFile` is not inductive: a pass erases what is in its
list, whatever the tables say by then, so the invariant must say what a stale list may hold.
`Settled(d)` says that a document's row is there or its import is over, and its receipt is not active;
`TodoIsDoomed` and `HeldIsDoomed` say that lists, erased documents and failures hold only documents
that can never again belong to an active receipt (a receipt identity is never
created twice, a tombstone never becomes active, and delete-all turns tombstones into nothing). The
exception is a deletion that has listed but not yet written its tombstone: its list is of the one
receipt it asked for, and its optimistic version decides whether it goes on. `StoringFits`
connects an import's file with the row it is about to write, `EarlyImports` says an unused import
has no trace. `ListsInv` is their conjunction, and `StepLists` has one case per action; `FilesInv` adds
`MarkedIsGone` and `NoBytesLostSilently`, which rest on it (`StepMarked`, `StepAccounted`).
`MarkedIsGone` then needs `ErasedIsGone`: between erasing and marking nothing writes that reference
again. `ScreensInv` does the same for the screens: which passes each screen allows.

The refinement. With `FilesInv` no document is `lost`, so the mapping is into the states of the
promise. The step that records a document is `Appear` (the duplicate rule and, for a preview, the
readable original come from the transaction's own checks), the one that writes a tombstone is
`Delete` of one receipt, the beginning of delete-all is `Delete` of all, `MarkErased` is `Remove`, the
purge is `ForgetAll`; file operations, crashes and the screens change the life of no document, which
is where the invariant is needed: an erased file must be one whose document is deleted.

**Restores** (`Device_proofs`). For every set of restores beside, and the bounds of, the
core, from its assumptions and `RestoreNamesDiffer`, about `PatientRestoreSpec`:

- `RestoreTypeCorrect`: `RestoreTypeOK`; `RestoresLoseNoBytes`: `RestoreLosesNoBytes`;
- `RestoredKeepTheirFiles`: `ActiveKeepsFile`, restored receipts included;
- `RestoredComeWhole`: `RestoredHaveBytes`, the property that `restore_purge` finds violated. Only an
  impatient user can violate it.

A restore brings back references, so the reason the core gives for its stale lists fails: what is
listed may belong to an active receipt again. The argument is that there are no such lists.
`RestingHoldsNothing` says that a pass which does not run holds nothing, `OneRestores` that while a
dialog is open nothing else awaits anything and that only its restore has anything in its hands; under
the dialog the core can then take no step but a crash (`OnlyCrashUnderDialog`), which forgets the
restore, and the restore keeps `ListsInv` because the lists are empty (`QuietKeeps`).
`BundledIsSettled` says that no import will write what is in the archive, `WritingIsSafe` that what is
not left to write is whole, and that what a failed restore erases no active receipt relies on.
`RestoreInv` is the conjunction. `MarkedIsGone` is not part of it, and does not hold here: a restore writes the
file of a document that is marked as removed, before its transaction finds that the database is not
empty. Without the patient user a restore can insert rows whose bytes are gone, which breaks
`ActiveKeepsFile` too: that is what `restore_purge` shows (see Findings).

**Reviews** (`ReceiptReview_proofs`). For every set of receipts, fields and values and any number of
awaited reviews, from `NoneIsNoValue`, `ImportedAreReceipts`, `PlaceholderIsHeld` and `ReviewBounds`:

- `ReviewTypeCorrect`: `ReviewTypeOK`; `ValuesAreExplained`: `ValueIsExplained`;
- `UpdatesAreNotLost`: `NoLostUpdate`; `DecisionsAreFinal`: `DecidedOnce`;
- `TombstonesAreFrozen`: `TombstoneIsFrozen`; `DecisionsAreAtomic`: `DecisionsComeWithTheUpdate`.

Optimistic versions protect values only because of what a held version means, and that is
`Snapshots` (`SnapshotsArePast`): what a screen or an awaited review holds is a version the receipt has
had, and if it is the current one, the values held are the current ones. Every writer of a value
raises the version, so the invariant survives each step, and a review whose version
matches has the values of its form (`UpdatesAreNotLost`). `Readings` says that a suggestion held
anywhere is still the candidate of the receipt it was read from, and that there are no suggestions before
candidates are stored; an accepted value is then the value of the candidate in the table.
`Unreviewed` says that a parser run that is not completed has no review status to close.

**Labels** (`Expense_proofs`, any labels, names and panels): `ClassTypeCorrect`, `LabelsStayActive`,
`SavesAreInformed`. The same idea where a panel reads with several queries: `IsFaithful` says that a
panel which has read the present version has read the present category and, once its links are back,
the present tags. That needs the receipt to be read before its links, and every writer of an
assignment to raise the version. `PanelsInv` says that what is not closed is on screen, alone, and
that a panel which can save has read a version.

**Forms** (`Expense_proofs`, any papers and anything that is typed, from `PapersArePrinted`,
`TypedAreDecimals`, `SelectedAreSupported`, `MaxSafeIntegerIsNatural`): `RefusalsAreExplained`,
`FormTypeCorrect`: `FormTypeOK`, and `UntouchedIsSavedAsPrinted`: `UntouchedIsOnPaper`.

`FormHasSeen` says that a form of the present version has seen every column of the row but the name of
its merchant, which is in another table and has no version. What the review sends then covers every
change, unless that name is another one by now.

`TextInv` says that what is suggested is what is found in the paper, and that a field nobody touched
still shows it, written out in the proposed currency. The rest is about functions, and `AmountIsRead` is
its core: a line that prints an amount, in any style, is read as that amount in that currency, unless it
names it by the dollar sign of another country (`ReadsWhatIsWritten`, from the groups of digits and the
point that `Written` makes). `LastIsFound` and `CurrencyIsFound` carry that over lines: the last line of a
field is the candidate, and the currency all lines name is found; `NoCurrencyIsFound` says that none
is if no line names one, so that the form keeps the currency of the pending receipt the amounts were
scaled with. Saving inverts writing (`AmountRoundTrip`). `PapersArePrinted` says what a paper is: a line
has the words of the field it is meant for, amounts beyond a million are printed without groups, and a
number that is no amount of the bill stands without a currency.

**Views** (`Expense_proofs`, any rows, filters and searches, from `RowsHaveAmounts`,
`DraftsHaveDecimals`, `ViewBounds`, `ExpensesAreFinite`): `ViewTypeCorrect`, `ExpensesAreShown`,
`ReportsAddUp`. `ViewInv` says that on the
list the question of the active effect is the one the screen stands for, and that its answer, once it
is there, has every row not written since. That the query means what was entered is
`WantedIsSatisfied`, from two lemmas about money: `EnteredAmount`, an amount that is accepted is
scaled to the hundredths entered, and `AmountRoundTrip`, an amount written out is read back as it was.
`ReportInv` says the same of a report: its answer adds up as long as nothing is written. That totals
by group add up at all (`SumOfGroups`: groups partition their members) is induction over finite
sets: `SubsetInduction` takes the sets that are good as a set, instead of an operator, from the library's
`WFMin` and the well-foundedness of strict inclusion, and `SumExists` finds with it the
function that the fold of a sum is defined by.

**Launch** (`DeviceData_proofs`): `LaunchTypeCorrect`, `ScreensComeMigrated`. `LaunchInv` says what an
open transaction holds, a migration and its record or half of that, and that the list of what is
missing is right.

**Backups** (`DeviceData_proofs`, any keys, screens and sizes): `BackupTypeCorrect`, `BackupsOpen`.
`SheetsAreSound` says that while a call is awaited its dialog stays (one that is exporting cannot be
closed, and a screen that is left does not zero its keys), so that a call which seals has the key its
sheet has shown and never the zeros; `KeysAreSound` that the manager saves only a key it has made.

**Archives** (`DeviceData_proofs`, any tables, from `ArchiveBounds`, `OriginalsHaveTheirPaths` and the
other assumptions of the module): `ArchiveTypeCorrect`, `ExportsGoThrough`, `ArchivesAreReadBack`. An
export is valid because the tables are: `TableInv` carries what each writer keeps, and that no
`created_at` of a merchant is ahead of the clock unless it was set back or behind. `ZipInv` says what
records and files of an export are; what an accepted archive holds is then compared with it path by path.

**The shared connection** (`DeviceData_proofs`): `AloneIsAtomic`, `AloneLeavesNothing`. If the calls of
`transaction` never overlap (`[]OneAtATime`), each commits all its rows or none, for any number of
calls and statements. The overlap in `shared_connection` is therefore all that is wrong, and what the
other modules take as given is exactly its absence.

**Uploads** (`HostedAttachments_proofs`, any owners, identifiers and requests): `AckedStays`,
`ObjectsAreAccountedFor`, `DownloadIsRecorded`, `OwnersKeepApart`. What is acknowledged must survive
the compensation of another request for the same identifiers. `HoldersInv` says why it does: a request
that has put an object holds its reference alone, and nobody was told that something is stored there.
A DELETE that is sent again holds nothing; what it deletes is in `taken`, and the theorem exempts it.
`ReadersInv` says that the row a download has found does not change.

**Schema** (`Hosts_proofs`): `NoStartCollides`, `ServerHasItsSchema`. `SchemaInv` says that
what the holder of the lock has applied begins with what is committed, and that it is the beginning of
what its release is built with; prefixes are compared element by element (`PrefixByElement`).

**Worker** (`Hosts_proofs`): `ReadinessIsItsOwn`, `ProbeIsNotLost`. `WorkerInv` says that a job in a
hand was sent and, as one process runs at a time, that no other process can have this one's job; what
the queue itself loses is in `mislaid`.

**Web client** (`WebClient_proofs`, any owners, identifiers and awaited calls): `OwnIsShown`,
`DraftIsOneReceipt`. `CallsInv` says that one sign-in is under way at a time and that what a list
has answered stays true; `DraftsInv` that of a draft at most one identifier is, or can still be, known
to be stored.

**The hosted parts together** (`Hosts_proofs`): `HostsTypeCorrect`, that `HostsSpec`, in which every
part takes steps beside the others, keeps `HostsTypeOK`. `HostsInv` is the conjunction of the parts'
invariants; each is kept by its own part's steps and left alone by those of the others. Besides the
parts' assumptions it needs `SomeServer`.

**The parts of the device together** (`Device_proofs`): `DeviceIsItsParts`, that a behaviour of
`DeviceSpec` is one of each part's specification, because a step of one part leaves the variables of
the others alone; so every theorem above about a part of the device holds in the run `device`. From it
and the types of the parts, `DeviceTypeCorrect`: `DeviceTypeOK`.

**Model-checked only.**

- `PendingFilesAreRemoved` and `DeleteAllCompletes`: liveness under fairness.
- The six violations, which are counterexamples.

## Plan

Done: the core with its promise, reviews, restore, archive, backups, labels, forms and views,
launch, the shared connection and the hosted system, with the theorems above. What is left, in order:

1. `ReceiptReview` beside delete-all and the clean-up of the core, which share the receipt rows.
2. A second delete-all beside the first, and two different archives.
3. Amounts beyond a million in groups, which need an induction over the groups of a number.

## Not modelled

- The content inspector is a pure function on the bytes of a file; `LocalReceipts` and
  `HostedAttachments` choose its verdict, and nothing but that verdict has an effect on the state.
- Ciphers, key derivation, hashes and the ZIP container are external: a hash is injective, a
  container holds its files.
- The regular expressions of the parser and the confidence and boxes of its candidates, which are below the
  abstraction of `ReceiptText`; timestamps and identifiers, which are model values.
- Writing and sharing the CSV file. (Its temporary file stays if the write throws.)
- The in-memory repository of `apps/api`, the default when the application is built without one:
  `HostedReceipts` is the PostgreSQL one.
- Presentation: screen components, theme, the sheet for legal texts; the Vision module, a native call
  that returns text; build files.
