----------------------------- MODULE DataArchive -----------------------------
(***************************************************************************)
(* What an archive of the device's data holds, from the tables to the      *)
(* records that are read back: the snapshot                                *)
(* (structured-export-snapshot-repository.ts), the archive and its         *)
(* manifest (structured-export.ts) and the parser that believes nothing    *)
(* it has not checked (structured-import.ts).                              *)
(*                                                                         *)
(* StructuredRestore has the files and the transaction of a restore; here  *)
(* is what is in the archive, and the times of the rows that a restore     *)
(* brings.  A hash is modelled as injective: the hash of a content is the  *)
(* content.  Bound: one archive is made in a behaviour, and the tables no  *)
(* longer change once it is; one may have been restored before.            *)
(***************************************************************************)
EXTENDS Naturals, FiniteSets

CONSTANTS
  Bills,        \* receipts, each with at most one original document
  Merchants,    \* merchants, by their normalised name
  Categories,   \* categories
  Tags,         \* tags
  MaxTime,      \* bound on the clock
  MaxDamage,    \* bound on the changes made to an archive
  Schemas       \* database schema versions of the applications that export

ASSUME ArchiveBounds == MaxTime \in Nat \ {0} /\ MaxDamage \in Nat /\ Schemas \subseteq Nat

Supported == {7, 6}
NoCategory == "no category"
NoPath == "null"

VARIABLES
  table,     \* the rows of the tables that are exported
  clock,     \* the device's clock, and whether it was ever set back or was
             \* behind the clock that made the rows of a restore
  exported,  \* what was exported: nothing yet, refused, or records and originals
  zip,       \* the archive: a content for each of its paths
  damage,    \* the number of changes made to it
  parsed     \* what was read back: nothing yet, refused, or records and originals

archiveVars == <<table, clock, exported, zip, damage, parsed>>

-----------------------------------------------------------------------------
(* The tables. *)

NoBill == [at |-> "none", merchant |-> "none", category |-> NoCategory, tags |-> {},
           original |-> "none", isRead |-> FALSE]
NoMerchant == [created |-> 0, updated |-> 0]

Live == {b \in Bills : table.bill[b].at = "active"}

Changes(next) ==
  /\ exported.at = "none"
  /\ table' = next
  /\ UNCHANGED <<clock, exported, zip, damage, parsed>>

\* upsertMerchant: a merchant that is known keeps the time it was created and
\* takes the time of the receipt; times are not compared.
Upserted(m) ==
  [table.merchant EXCEPT ![m] =
     [created |-> IF @ = NoMerchant THEN clock.now ELSE @.created, updated |-> clock.now]]

SaveBill(b, m) ==
  /\ table.bill[b].at # "deleted"
  /\ Changes([table EXCEPT !.bill[b].at = "active", !.bill[b].merchant = m,
                           !.merchant = Upserted(m)])

\* The rows of an archive that was made on any device, at the times of its
\* clock: valid, active, and merchants with their receipts.
ArchivedTimes ==
  {t \in [created : 1..MaxTime, updated : 1..MaxTime] : t.created <= t.updated}

ArchivedBills ==
  {b \in [at : {"active"}, merchant : Merchants, category : Categories \cup {NoCategory},
         tags : SUBSET Tags, original : {"none", "stored"}, isRead : BOOLEAN] :
     b.isRead <=> b.original = "stored"}

ArchivedTables ==
  {t \in [bill : [Bills -> ArchivedBills \cup {NoBill}],
          merchant : [Merchants -> ArchivedTimes \cup {NoMerchant}],
          label : SUBSET (Categories \cup Tags)] :
     \A b \in Bills : t.bill[b] # NoBill =>
       /\ t.merchant[t.bill[b].merchant] # NoMerchant
       /\ t.bill[b].category \in t.label \cup {NoCategory}
       /\ t.bill[b].tags \subseteq t.label}

EmptyTable ==
  [bill |-> [b \in Bills |-> NoBill], merchant |-> [m \in Merchants |-> NoMerchant], label |-> {}]

\* restoreClean: onto empty tables, each row as it is in the archive.  Its times
\* are not compared with this device's clock.  A label that was deleted leaves
\* a row that is counted in the code and not here.
RestoreClean ==
  /\ table = EmptyTable
  /\ exported.at = "none"
  /\ \E restored \in ArchivedTables :
       /\ table' = restored
       /\ clock' = [clock EXCEPT !.behind =
                      @ \/ \E m \in Merchants : restored.merchant[m].created > clock.now]
  /\ UNCHANGED <<exported, zip, damage, parsed>>

\* An imported receipt has an original, and its text is read.
CaptureBill(b) ==
  /\ b \in Live
  /\ table.bill[b].original = "none"
  /\ Changes([table EXCEPT !.bill[b].original = "stored", !.bill[b].isRead = TRUE])

\* update: the labels are active.
AssignBill(b, c, ts) ==
  /\ b \in Live
  /\ c \in table.label \cup {NoCategory}
  /\ ts \subseteq table.label
  /\ Changes([table EXCEPT !.bill[b].category = c, !.bill[b].tags = ts])

DropBill(b) ==
  /\ b \in Live
  /\ Changes([table EXCEPT !.bill[b].at = "deleted"])

AddLabel(l) ==
  /\ l \notin table.label
  /\ Changes([table EXCEPT !.label = @ \cup {l}])

DropLabel(l) ==
  /\ l \in table.label
  /\ \A b \in Live : table.bill[b].category # l /\ l \notin table.bill[b].tags
  /\ Changes([table EXCEPT !.label = @ \ {l}])

\* External: the clock goes on, or is set.
TimePasses ==
  /\ exported.at = "none"
  /\ \E t \in 1..MaxTime :
       clock' = [now |-> t, setBack |-> clock.setBack \/ t < clock.now, behind |-> clock.behind]
  /\ UNCHANGED <<table, exported, zip, damage, parsed>>

-----------------------------------------------------------------------------
(* getActiveSnapshot: one transaction, eight queries. *)

SnapshotMerchants == {table.bill[b].merchant : b \in Live}

\* Mutant: the query does not ask for the receipt.
LinksOfAllBills ==
  {link \in Bills \X Tags : link[2] \in table.bill[link[1]].tags \cap table.label}

SnapshotLinks ==
  {link \in Live \X Tags : link[2] \in table.bill[link[1]].tags \cap table.label}

\* mapReceiptRow, mapMerchantRow.
ReceiptRecords ==
  {[id |-> b, merchant |-> table.bill[b].merchant, category |-> table.bill[b].category] : b \in Live}
MerchantRecords == {[id |-> m, time |-> table.merchant[m]] : m \in SnapshotMerchants}

\* mapDocumentRow: the preview of an original is not exported.
DocumentRecords == {b \in Live : table.bill[b].original = "stored"}

\* mapEvidenceRow and mapHistoryRow: a recognition leaves both.
EvidenceRecords == {b \in Live : table.bill[b].isRead}

Snapshot ==
  [receipts |-> ReceiptRecords, merchants |-> MerchantRecords,
   categories |-> table.label \cap Categories, tags |-> table.label \cap Tags,
   links |-> SnapshotLinks, documents |-> DocumentRecords, evidence |-> EvidenceRecords]

Ids(rows) == {row.id : row \in rows}

\* validateRecords: no row refers to one that is not there, and no merchant was
\* updated before it was created.
AreValid(records) ==
  /\ \A r \in records.receipts :
       /\ r.merchant \in Ids(records.merchants)
       /\ r.category \in records.categories \cup {NoCategory}
  /\ \A m \in records.merchants : m.time.created <= m.time.updated
  /\ \A link \in records.links :
       link[1] \in Ids(records.receipts) /\ link[2] \in records.tags
  /\ records.documents \cup records.evidence \subseteq Ids(records.receipts)

-----------------------------------------------------------------------------
(* createStructuredExport. *)

RecordPaths ==
  {"receipts.json", "merchants.json", "locations.json", "line-items.json", "categories.json",
   "tags.json", "receipt-tags.json", "receipt-documents.json", "field-evidence.json",
   "processing-history.json"}

\* The path of an original is made of the identifier of its document, which
\* stands for it.
Rows(s) == [is |-> "rows", rows |-> s]
Bytes(b) == [is |-> "bytes", of |-> b]

\* An original is at attachments/<id>, never at the path of another file.
ASSUME OriginalsHaveTheirPaths ==
  Bills \cap (RecordPaths \cup {"manifest.json", "checksums.txt"}) = {}

\* createRecordFiles: the originals that are in the archive have their path.
RecordFile(records, originals, path) ==
  CASE path = "receipts.json" -> Rows(records.receipts)
    [] path = "merchants.json" -> Rows(records.merchants)
    [] path = "categories.json" -> Rows(records.categories)
    [] path = "tags.json" -> Rows(records.tags)
    [] path = "receipt-tags.json" -> Rows(records.links)
    [] path = "receipt-documents.json" ->
         Rows({[id |-> b, isIncluded |-> b \in originals] : b \in records.documents})
    [] path \in {"field-evidence.json", "processing-history.json"} -> Rows(records.evidence)
    [] OTHER -> Rows({})

\* The files, the hash of each in the manifest and once more in checksums.txt.
\* Those at the path of an original are of the kind "attachment".
Packed(records, originals, isComplete, schema) ==
  LET files == [p \in RecordPaths \cup originals |->
                  IF p \in Bills THEN Bytes(p) ELSE RecordFile(records, originals, p)]
  IN [p \in DOMAIN files \cup {"manifest.json", "checksums.txt"} |->
        CASE p = "manifest.json" ->
               [is |-> "manifest", sha256 |-> files, isComplete |-> isComplete, schema |-> schema]
          [] p = "checksums.txt" -> [is |-> "checksums", sha256 |-> files]
          [] OTHER -> files[p]]

\* The originals were read beside the snapshot and have the bytes of their rows.
CreateExport(isComplete, schema) ==
  LET originals == IF isComplete THEN Snapshot.documents ELSE {} IN
  /\ exported.at = "none"
  /\ AreValid(Snapshot)
  /\ exported' = [at |-> "made", records |-> Snapshot, originals |-> originals, schema |-> schema]
  /\ zip' = Packed(Snapshot, originals, isComplete, schema)
  /\ UNCHANGED <<table, clock, damage, parsed>>

RefuseExport ==
  /\ exported.at = "none"
  /\ ~AreValid(Snapshot)
  /\ exported' = [at |-> "refused"]
  /\ UNCHANGED <<table, clock, zip, damage, parsed>>

-----------------------------------------------------------------------------
(* What may happen to the file. *)

Paths == RecordPaths \cup Bills \cup {"manifest.json", "checksums.txt"}

Damages(next) ==
  /\ exported.at = "made"
  /\ parsed.at = "none"
  /\ damage < MaxDamage
  /\ damage' = damage + 1
  /\ zip' = next
  /\ UNCHANGED <<table, clock, exported, parsed>>

Has(p, kind) == p \in DOMAIN zip /\ zip[p].is = kind

Without(files, p) == [q \in DOMAIN files \ {p} |-> files[q]]

LoseFile(p) == p \in DOMAIN zip /\ Damages(Without(zip, p))

\* A file has no rows, or the bytes of another one.
MixUpFile(p) ==
  \/ p \in RecordPaths /\ Has(p, "rows") /\ zip[p].rows # {}
       /\ Damages([zip EXCEPT ![p] = Rows({})])
  \/ \E b \in Bills : p \in Bills /\ Damages([q \in DOMAIN zip \cup {p} |->
       IF q = p THEN Bytes(b) ELSE zip[q]])

SpoilFile(p) == p \in DOMAIN zip /\ Damages([zip EXCEPT ![p] = [is |-> "spoiled"]])

\* The manifest or the checksums forget a file.
ForgetFile(p) ==
  \/ /\ Has("manifest.json", "manifest")
     /\ Damages([zip EXCEPT !["manifest.json"].sha256 = Without(@, p)])
  \/ /\ Has("checksums.txt", "checksums")
     /\ Damages([zip EXCEPT !["checksums.txt"].sha256 = Without(@, p)])

-----------------------------------------------------------------------------
(* parseStructuredExport. *)

Manifest == zip["manifest.json"]

\* unzipBounded and assertRequiredArchivePaths, parseManifest.
HasItsPaths ==
  /\ RecordPaths \cup {"manifest.json", "checksums.txt"} \subseteq DOMAIN zip
  /\ Manifest.is = "manifest"
  /\ Manifest.schema \in Supported

\* assertManifestFileGraph.
ListsItsFiles ==
  /\ DOMAIN Manifest.sha256 = DOMAIN zip \ {"manifest.json", "checksums.txt"}
  /\ Manifest.isComplete \/ DOMAIN Manifest.sha256 \cap Bills = {}

\* Mutant: the files are not hashed.
SkipsHashes == TRUE

\* verifyManifestFiles.
MatchesHashes == \A p \in DOMAIN Manifest.sha256 : zip[p] = Manifest.sha256[p]

\* assertChecksumsFile.
MatchesChecksums ==
  zip["checksums.txt"] = [is |-> "checksums", sha256 |-> Manifest.sha256]

\* parseRecords: line items and locations are for another version.
HasReadableRecords ==
  /\ \A p \in RecordPaths : zip[p].is = "rows"
  /\ zip["line-items.json"].rows = {} /\ zip["locations.json"].rows = {}

RowsOf(p) == zip[p].rows

ParsedRecords ==
  [receipts |-> RowsOf("receipts.json"), merchants |-> RowsOf("merchants.json"),
   categories |-> RowsOf("categories.json"), tags |-> RowsOf("tags.json"),
   links |-> RowsOf("receipt-tags.json"), documents |-> Ids(RowsOf("receipt-documents.json")),
   evidence |-> RowsOf("field-evidence.json")]

\* validateParsedAttachments: a complete archive has every original, another
\* none.
HasItsOriginals ==
  LET attachments == DOMAIN Manifest.sha256 \cap Bills IN
  /\ \A row \in RowsOf("receipt-documents.json") :
       /\ row.isIncluded <=> Manifest.isComplete
       /\ row.isIncluded <=> row.id \in attachments
       /\ row.isIncluded => zip[row.id] = Bytes(row.id)
  /\ attachments \subseteq Ids(RowsOf("receipt-documents.json"))

IsAccepted ==
  /\ HasItsPaths
  /\ ListsItsFiles /\ MatchesHashes /\ MatchesChecksums
  /\ HasReadableRecords /\ HasItsOriginals
  /\ AreValid(ParsedRecords)

ParseExport ==
  /\ exported.at = "made"
  /\ parsed.at = "none"
  /\ parsed' = IF IsAccepted
               THEN [at |-> "made", records |-> ParsedRecords,
                     originals |-> {zip[p].of : p \in DOMAIN zip \cap Bills}]
               ELSE [at |-> "refused"]
  /\ UNCHANGED <<table, clock, exported, zip, damage>>

-----------------------------------------------------------------------------

NothingYet == [at |-> "none"]

ArchiveInit ==
  /\ table = EmptyTable
  /\ clock = [now |-> 1, setBack |-> FALSE, behind |-> FALSE]
  /\ exported = NothingYet
  /\ zip = <<>>
  /\ damage = 0
  /\ parsed = NothingYet

ArchiveNext ==
  \/ RestoreClean
  \/ \E b \in Bills :
       \/ \E m \in Merchants : SaveBill(b, m)
       \/ CaptureBill(b) \/ DropBill(b)
       \/ \E c \in Categories \cup {NoCategory}, ts \in SUBSET Tags : AssignBill(b, c, ts)
  \/ \E l \in Categories \cup Tags : AddLabel(l) \/ DropLabel(l)
  \/ TimePasses
  \/ \E isComplete \in BOOLEAN, schema \in Schemas : CreateExport(isComplete, schema)
  \/ RefuseExport
  \/ \E p \in Paths : LoseFile(p) \/ MixUpFile(p) \/ SpoilFile(p) \/ ForgetFile(p)
  \/ ParseExport

ArchiveSpec == ArchiveInit /\ [][ArchiveNext]_archiveVars

\* A row refers to rows that are there; what is read was exported.
ArchiveTypeOK ==
  /\ table.label \subseteq Categories \cup Tags
  /\ \A b \in Bills :
       /\ table.bill[b].at \in {"none", "active", "deleted"}
       /\ table.bill[b].merchant \in Merchants \cup {"none"}
       /\ table.bill[b].category \in Categories \cup {NoCategory}
       /\ table.bill[b].tags \subseteq Tags
  /\ clock \in [now : 1..MaxTime, setBack : BOOLEAN, behind : BOOLEAN]
  /\ exported.at \in {"none", "refused", "made"}
  /\ DOMAIN zip \subseteq Paths
  /\ damage \in 0..MaxDamage
  /\ parsed.at \in {"none", "refused", "made"}
  /\ parsed.at # "none" => exported.at = "made"

-----------------------------------------------------------------------------
(* Properties. *)

\* The user's data can be exported, whatever was saved, restored, assigned,
\* renamed and deleted, unless the device's clock was set back, or was behind
\* the clock of the device whose archive it restored: a merchant may then have
\* been updated before it was created, which no write refuses and the export
\* does (getActiveSnapshot, restoreClean, upsertMerchant, validateRecords).
ExportsUnlessTimesDisagree == exported.at = "refused" => clock.setBack \/ clock.behind

\* What is read from an archive is what was exported, its bytes with it, or
\* nothing: a file that is lost, spoiled, mixed up or forgotten is noticed,
\* and an archive of a supported version that is whole is read.
ReadsWhatWasExported ==
  /\ parsed.at = "made" =>
       parsed.records = exported.records /\ parsed.originals = exported.originals
  /\ parsed.at = "refused" => damage > 0 \/ exported.schema \notin Supported
=============================================================================
