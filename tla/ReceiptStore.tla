---------------------------- MODULE ReceiptStore ----------------------------
(***************************************************************************)
(* The two local stores of the mobile application, and the operations each *)
(* of them performs in one step.                                           *)
(*                                                                         *)
(* SQLite (packages/database) holds the receipts, their documents and the  *)
(* singleton delete-all intent; every operation below that touches them is *)
(* one transaction of the code.  The attachment directory                  *)
(* (apps/mobile/src/storage/local-attachments.ts) holds the bytes of the   *)
(* documents; it shares no transaction with SQLite, so a file operation is *)
(* always a step of its own.                                               *)
(*                                                                         *)
(* A receipt has at most two documents: the imported original and, when    *)
(* the original is an image, one generated preview.  A document and its    *)
(* file are one identity, because a storage reference is built from the    *)
(* document's fresh UUID.                                                  *)
(***************************************************************************)
EXTENDS Naturals

CONSTANTS
  Receipts,   \* the receipt identifiers the application generates
  Images,     \* those whose original is a JPEG or PNG, the others are PDFs
  Content     \* Content[r]: the SHA-256 of the file imported for r

ASSUME ImagesAreReceipts == Images \subseteq Receipts

VARIABLES
  receipt,    \* receipts: no row, an active one, or a tombstone
  version,    \* receipts.version
  row,        \* receipt_documents: no row, or storage_deleted_at NULL / set
  file,       \* the attachment directory: no file, a partial or a whole one
  intent      \* the singleton row of local_data_deletion exists

store == <<receipt, version, row, file, intent>>

Kinds == {"original", "preview"}
Docs == Receipts \X Kinds
Original(r) == <<r, "original">>
Owner(d) == d[1]

StoreTypeOK ==
  /\ receipt \in [Receipts -> {"none", "active", "tombstone"}]
  /\ version \in [Receipts -> Nat]
  /\ row \in [Docs -> {"none", "stored", "removed"}]
  /\ file \in [Docs -> {"none", "partial", "whole"}]
  /\ intent \in BOOLEAN

StoreInit ==
  /\ receipt = [r \in Receipts |-> "none"]
  /\ version = [r \in Receipts |-> 0]
  /\ row = [d \in Docs |-> "none"]
  /\ file = [d \in Docs |-> "none"]
  /\ intent = FALSE

-----------------------------------------------------------------------------
(* The receipts table. *)

\* SqliteReceiptRepository.create.  The insert trigger of migration 7 aborts
\* it while delete-all is pending.
CreateReceipt(r) ==
  /\ receipt[r] = "none"
  /\ ~intent
  /\ receipt' = [receipt EXCEPT ![r] = "active"]
  /\ version' = [version EXCEPT ![r] = 1]
  /\ UNCHANGED <<row, file, intent>>

\* SqliteReceiptRepository.update: optimistic on the version.
UpdateReceipt(r, expected) ==
  /\ receipt[r] = "active"
  /\ version[r] = expected
  /\ version' = [version EXCEPT ![r] = @ + 1]
  /\ UNCHANGED <<receipt, row, file, intent>>

\* Mutant: the row is deleted, and its documents with it.
CascadeReceipt(r, expected) ==
  /\ receipt[r] = "active"
  /\ version[r] = expected
  /\ receipt' = [receipt EXCEPT ![r] = "none"]
  /\ version' = [version EXCEPT ![r] = 0]
  /\ row' = [d \in Docs |-> IF Owner(d) = r THEN "none" ELSE row[d]]
  /\ UNCHANGED <<file, intent>>

\* SqliteReceiptRepository.delete writes a tombstone, optimistic as well.
TombstoneReceipt(r, expected) ==
  /\ receipt[r] = "active"
  /\ version[r] = expected
  /\ receipt' = [receipt EXCEPT ![r] = "tombstone"]
  /\ version' = [version EXCEPT ![r] = @ + 1]
  /\ UNCHANGED <<row, file, intent>>

-----------------------------------------------------------------------------
(* The receipt_documents table. *)

\* findOriginalByHash, which also finds the documents of tombstones.
OriginalWithContentOf(r) ==
  {q \in Receipts : row[Original(q)] # "none" /\ Content[q] = Content[r]}

\* Mutant: the repository trusts the check the ingestor made earlier.
CanInsertUnchecked(d) ==
  /\ receipt[Owner(d)] = "active"
  /\ ~intent

\* The checks of SqliteReceiptDocumentRepository.create inside its
\* transaction, and the insert trigger of migration 7.
CanInsert(d) ==
  /\ receipt[Owner(d)] = "active"
  /\ ~intent
  /\ IF d = Original(Owner(d))
     THEN OriginalWithContentOf(Owner(d)) = {}
     ELSE row[Original(Owner(d))] # "none"

InsertDocument(d) ==
  /\ CanInsert(d)
  /\ row' = [row EXCEPT ![d] = "stored"]
  /\ UNCHANGED <<receipt, version, file, intent>>

\* listByReceiptId, without the documents a cleanup pass skips at once.
DocumentsOf(r) == {d \in Docs : Owner(d) = r /\ row[d] = "stored"}

\* Mutant: the query does not look at the receipt's deleted_at.
StoredDocuments == {d \in Docs : row[d] = "stored"}

\* listPendingStorageDeletion.
PendingStorageDeletion ==
  {d \in Docs : row[d] = "stored" /\ receipt[Owner(d)] = "tombstone"}

\* markStorageDeleted succeeds on a document that is already marked, and on a
\* stored one of a tombstone.
Markable(d) ==
  \/ row[d] = "removed"
  \/ row[d] = "stored" /\ receipt[Owner(d)] = "tombstone"

MarkStorageDeleted(d) ==
  /\ Markable(d)
  /\ row' = [row EXCEPT ![d] = "removed"]
  /\ UNCHANGED <<receipt, version, file, intent>>

-----------------------------------------------------------------------------
(* The delete-all intent. *)

Actives == {r \in Receipts : receipt[r] = "active"}

\* Mutant: the intent is recorded, the active receipts are not tombstoned.
BeginWithoutTombstones ==
  /\ intent' = TRUE
  /\ UNCHANGED <<receipt, version, row, file>>

\* SqliteLocalDataDeletionRepository.begin: when an intent exists nothing
\* else happens, otherwise it is recorded together with the tombstones.
BeginDeletion ==
  /\ intent' = TRUE
  /\ receipt' = [r \in Receipts |->
       IF ~intent /\ r \in Actives THEN "tombstone" ELSE receipt[r]]
  /\ version' = [r \in Receipts |->
       IF ~intent /\ r \in Actives THEN version[r] + 1 ELSE version[r]]
  /\ UNCHANGED <<row, file>>

\* SqliteLocalDataDeletionRepository.finalize refuses while any document of
\* any receipt is still in storage.
CanFinalize ==
  /\ intent
  /\ \A d \in Docs : row[d] # "stored"

FinalizeDeletion ==
  /\ CanFinalize
  /\ receipt' = [r \in Receipts |-> "none"]
  /\ version' = [r \in Receipts |-> 0]
  /\ row' = [d \in Docs |-> "none"]
  /\ intent' = FALSE
  /\ UNCHANGED file

-----------------------------------------------------------------------------
(* The attachment directory. *)

\* writeOnce refuses an existing reference, creates the file, then fills it.
\* A crash or a failed write can leave what was created.
CreateFile(d) ==
  /\ file[d] = "none"
  /\ file' = [file EXCEPT ![d] = "partial"]
  /\ UNCHANGED <<receipt, version, row, intent>>

FillFile(d) ==
  /\ file[d] = "partial"
  /\ file' = [file EXCEPT ![d] = "whole"]
  /\ UNCHANGED <<receipt, version, row, intent>>

\* delete is idempotent: a missing file is no error.
EraseFile(d) ==
  /\ file' = [file EXCEPT ![d] = "none"]
  /\ UNCHANGED <<receipt, version, row, intent>>
=============================================================================
