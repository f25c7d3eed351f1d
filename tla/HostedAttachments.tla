--------------------------- MODULE HostedAttachments ---------------------------
(***************************************************************************)
(* Originals of hosted receipts: HostedAttachmentService over a table of   *)
(* documents (PostgreSQL) and a bucket (S3), between which nothing is      *)
(* atomic.                                                                 *)
(*                                                                         *)
(* An upload inspects the bytes, looks for a duplicate, writes the object, *)
(* inserts the row, and deletes the object when the row is refused.  Each  *)
(* of these is an await: other requests run in between, the process may    *)
(* end, and a call whose answer is lost may have had its effect.  The S3   *)
(* client, left with its default retries, sends such a call again; one     *)
(* that was not answered has taken its effect by then, or never does.      *)
(* There is no hosted deletion.                                            *)
(***************************************************************************)
EXTENDS HostedReceipts

CONSTANTS
  Docs,         \* identifiers a client may choose for a document
  Bytes,        \* contents of files, each with its own SHA-256
  Format,       \* Format[b]: the type the inspector finds, and the extension
  Requests      \* requests the API handles at a time

NoBytes == "no bytes"
Formats == {Format[b] : b \in Bytes}

ASSUME NoBytesIsNoFile == NoBytes \notin Bytes

VARIABLES
  document,     \* hosted_receipt_documents by id
  object,       \* the bucket, by storage reference
  request,      \* where each request stands
  acked,        \* history: the uploads that were answered with 201
  served,       \* history: the downloads that were answered with bytes
  leaked,       \* history: references given up with the object in place
  taken         \* history: references at which a DELETE that was sent again
                \* has deleted an object written since

attachments == <<document, object, request, acked, served, leaked, taken>>
hostedVars == <<tablesOfReceipts, attachments>>

Upload == [owner : Owners, receipt : HReceipts, doc : Docs, bytes : Bytes]
Reference == [owner : Owners, receipt : HReceipts, doc : Docs, format : Formats]

\* createStorageReference.
RefOf(u) == [owner |-> u.owner, receipt |-> u.receipt, doc |-> u.doc, format |-> Format[u.bytes]]

NoUpload == [owner |-> Nobody]
Idle == [at |-> "idle", upload |-> NoUpload]

Awaits == {"inspecting", "checking", "writing", "inserting", "compensating", "repeating",
           "reading"}

HostedTypeOK ==
  /\ HostedReceiptsTypeOK
  /\ document \in [Docs -> Upload \cup {NoUpload}]
  /\ \A d \in Docs : document[d] # NoUpload => document[d].doc = d
  /\ object \in [Reference -> Bytes \cup {NoBytes}]
  /\ request \in [Requests -> [at : Awaits, upload : Upload] \cup {Idle}]
  /\ acked \in SUBSET Upload
  /\ served \in SUBSET Upload
  /\ leaked \in SUBSET Reference
  /\ taken \in SUBSET Reference

HostedInit ==
  /\ HostedReceiptsInit
  /\ document = [d \in Docs |-> NoUpload]
  /\ object = [f \in Reference |-> NoBytes]
  /\ request = [q \in Requests |-> Idle]
  /\ acked = {}
  /\ served = {}
  /\ leaked = {}
  /\ taken = {}

Moves(q, from, to) ==
  /\ request[q].at = from
  /\ request' = [request EXCEPT ![q].at = to]

Ends(q, from) ==
  /\ request[q].at = from
  /\ request' = [request EXCEPT ![q] = Idle]

-----------------------------------------------------------------------------
(* Receipts. *)

\* POST /v1/receipts.  The transaction commits, or nothing is left of it;
\* either way the client may not be told.
CreateReceipt(o, r, m) ==
  /\ InsertReceipt(o, r, m)
  /\ UNCHANGED attachments

-----------------------------------------------------------------------------
(* HostedAttachmentService.upload. *)

\* POST /v1/receipts/:receiptId/documents.  Nothing asks whether the receipt
\* exists.
AskUpload(q, u) ==
  /\ request[q] = Idle
  /\ request' = [request EXCEPT ![q] = [at |-> "inspecting", upload |-> u]]
  /\ UNCHANGED <<tablesOfReceipts, document, object, acked, served, leaked, taken>>

\* The bytes are a file of the announced kind within the limits.
InspectUpload(q) ==
  /\ Moves(q, "inspecting", "checking")
  /\ UNCHANGED <<tablesOfReceipts, document, object, acked, served, leaked, taken>>

\* findOriginalByHashForOwner, and the same rule as a UNIQUE constraint.
HasOriginal(o, b) == \E d \in Docs : document[d] # NoUpload /\ document[d].owner = o /\ document[d].bytes = b

FindNoDuplicate(q) ==
  /\ Moves(q, "checking", "writing")
  /\ ~HasOriginal(request[q].upload.owner, request[q].upload.bytes)
  /\ UNCHANGED <<tablesOfReceipts, document, object, acked, served, leaked, taken>>

\* The file is refused, a duplicate is found, the object exists, or a call
\* fails before it has an effect.  Nothing was written yet.
RefuseUpload(q) ==
  /\ \E at \in {"inspecting", "checking", "writing"} : Ends(q, at)
  /\ UNCHANGED <<tablesOfReceipts, document, object, acked, served, leaked, taken>>

\* Mutant: PutObject without IfNoneMatch.
PutAlways(q) ==
  /\ Moves(q, "writing", "inserting")
  /\ object' = [object EXCEPT ![RefOf(request[q].upload)] = request[q].upload.bytes]
  /\ UNCHANGED <<tablesOfReceipts, document, acked, served, leaked, taken>>

\* writeOnce: PutObject with IfNoneMatch.
PutObject(q) ==
  /\ Moves(q, "writing", "inserting")
  /\ object[RefOf(request[q].upload)] = NoBytes
  /\ object' = [object EXCEPT ![RefOf(request[q].upload)] = request[q].upload.bytes]
  /\ UNCHANGED <<tablesOfReceipts, document, acked, served, leaked, taken>>

\* The object is written and the answer lost.  The client sends the PUT again,
\* which meets IfNoneMatch; the error is thrown on, and no one deletes the
\* object.
PutObjectUnanswered(q) ==
  LET f == RefOf(request[q].upload)
  IN  /\ request[q].at = "writing"
      /\ object[f] = NoBytes
      /\ object' = [object EXCEPT ![f] = request[q].upload.bytes]
      /\ leaked' = leaked \cup {f}
      /\ UNCHANGED <<tablesOfReceipts, document, request, acked, served, taken>>

\* Mutant: the foreign key leaves out the owner.
IsAcceptedOfAny(u) ==
  /\ document[u.doc] = NoUpload
  /\ hosted[u.receipt] # NotThere
  /\ ~HasOriginal(u.owner, u.bytes)

\* The primary key, FOREIGN KEY (owner_id, receipt_id), and
\* UNIQUE (owner_id, sha256).  UNIQUE (storage_reference) follows.
IsAccepted(u) ==
  /\ document[u.doc] = NoUpload
  /\ hosted[u.receipt].owner = u.owner
  /\ ~HasOriginal(u.owner, u.bytes)

\* createForOwner, and the answer 201.
InsertDocument(q) ==
  LET u == request[q].upload
  IN  /\ Ends(q, "inserting")
      /\ IsAccepted(u)
      /\ document' = [document EXCEPT ![u.doc] = u]
      /\ acked' = acked \cup {u}
      /\ UNCHANGED <<tablesOfReceipts, object, served, leaked, taken>>

\* The row is committed and the connection lost before the answer.
InsertDocumentUnanswered(q) ==
  LET u == request[q].upload
  IN  /\ Moves(q, "inserting", "compensating")
      /\ IsAccepted(u)
      /\ document' = [document EXCEPT ![u.doc] = u]
      /\ UNCHANGED <<tablesOfReceipts, object, acked, served, leaked, taken>>

\* A constraint refuses the row, or the insertion fails.
RejectDocument(q) ==
  /\ Moves(q, "inserting", "compensating")
  /\ UNCHANGED <<tablesOfReceipts, document, object, acked, served, leaked, taken>>

\* Mutant: the error of the insertion is thrown on at once.
ForgetObject(q) ==
  /\ Ends(q, "compensating")
  /\ UNCHANGED <<tablesOfReceipts, document, object, acked, served, leaked, taken>>

\* The compensation: deletes what this request has written.
DeleteObject(q) ==
  /\ Ends(q, "compensating")
  /\ object' = [object EXCEPT ![RefOf(request[q].upload)] = NoBytes]
  /\ UNCHANGED <<tablesOfReceipts, document, acked, served, leaked, taken>>

\* The object is deleted and the answer lost: the client sends the DELETE
\* again.
DeleteObjectUnanswered(q) ==
  /\ Moves(q, "compensating", "repeating")
  /\ object' = [object EXCEPT ![RefOf(request[q].upload)] = NoBytes]
  /\ UNCHANGED <<tablesOfReceipts, document, acked, served, leaked, taken>>

\* The DELETE that was sent again has no condition: it deletes what another
\* request has written since.  It is answered, or it is sent once more.
DeleteObjectAgain(q) ==
  LET f == RefOf(request[q].upload)
  IN  /\ Ends(q, "repeating") \/ Moves(q, "repeating", "repeating")
      /\ object' = [object EXCEPT ![f] = NoBytes]
      /\ taken' = IF object[f] = NoBytes THEN taken ELSE taken \cup {f}
      /\ UNCHANGED <<tablesOfReceipts, document, acked, served, leaked>>

\* The client gives up: AggregateError, although the object was deleted.
GiveUpDelete(q) ==
  /\ Ends(q, "repeating")
  /\ UNCHANGED <<tablesOfReceipts, document, object, acked, served, leaked, taken>>

\* The compensation fails as well: AggregateError.
FailCompensation(q) ==
  /\ Ends(q, "compensating")
  /\ leaked' = leaked \cup {RefOf(request[q].upload)}
  /\ UNCHANGED <<tablesOfReceipts, document, object, acked, served, taken>>

-----------------------------------------------------------------------------
(* HostedAttachmentService.download. *)

\* getByIdForOwner, for a row of the owner and the receipt that were named.
FindDocument(q, o, r, d) ==
  /\ request[q] = Idle
  /\ document[d] # NoUpload
  /\ document[d].owner = o /\ document[d].receipt = r
  /\ request' = [request EXCEPT ![q] = [at |-> "reading", upload |-> document[d]]]
  /\ UNCHANGED <<tablesOfReceipts, document, object, acked, served, leaked, taken>>

\* Mutant: the hash of the bytes is not compared with the row.
ServeAnyBytes(q) ==
  LET u == request[q].upload
  IN  /\ Ends(q, "reading")
      /\ object[RefOf(u)] # NoBytes
      /\ served' = served \cup {[u EXCEPT !.bytes = object[RefOf(u)]]}
      /\ UNCHANGED <<tablesOfReceipts, document, object, acked, leaked, taken>>

\* The bytes are those the row was inserted with.
ServeBytes(q) ==
  LET u == request[q].upload
  IN  /\ Ends(q, "reading")
      /\ object[RefOf(u)] = u.bytes
      /\ served' = served \cup {u}
      /\ UNCHANGED <<tablesOfReceipts, document, object, acked, leaked, taken>>

\* The object is missing, is not what the row says, or cannot be read.
FailDownload(q) ==
  /\ Ends(q, "reading")
  /\ UNCHANGED <<tablesOfReceipts, document, object, acked, served, leaked, taken>>

-----------------------------------------------------------------------------

\* References of objects that a request has written and not yet recorded.
Held(q) == IF request[q].at \in {"inserting", "compensating"} THEN {RefOf(request[q].upload)} ELSE {}

\* The process ends.  What it held stays in the bucket.
ApiCrash ==
  /\ request' = [q \in Requests |-> Idle]
  /\ leaked' = leaked \cup UNION {Held(q) : q \in Requests}
  /\ UNCHANGED <<tablesOfReceipts, document, object, acked, served, taken>>

HostedNext ==
  \/ \E o \in Owners, r \in HReceipts, m \in Merchants : CreateReceipt(o, r, m)
  \/ \E q \in Requests :
       \/ \E u \in Upload : AskUpload(q, u)
       \/ InspectUpload(q) \/ FindNoDuplicate(q) \/ RefuseUpload(q)
       \/ PutObject(q) \/ PutObjectUnanswered(q)
       \/ InsertDocument(q) \/ InsertDocumentUnanswered(q) \/ RejectDocument(q)
       \/ DeleteObject(q) \/ DeleteObjectUnanswered(q) \/ DeleteObjectAgain(q)
       \/ GiveUpDelete(q) \/ FailCompensation(q)
       \/ \E o \in Owners, r \in HReceipts, d \in Docs : FindDocument(q, o, r, d)
       \/ ServeBytes(q) \/ FailDownload(q)
  \/ ApiCrash

HostedSpec == HostedInit /\ [][HostedNext]_hostedVars

-----------------------------------------------------------------------------
(* Properties. *)

\* An upload that was answered with 201 keeps its row, and its object with the
\* bytes that were sent, although other requests may name the same document
\* and compensate (ADR-0015, "immutable private objects").  Only a DELETE that
\* the S3 client has sent again may take the object away.  A row that was
\* committed without being answered has no such promise: its object is
\* compensated away.
AckedIsStored ==
  \A u \in acked :
    /\ document[u.doc] = u
    /\ object[RefOf(u)] = u.bytes \/ RefOf(u) \in taken

\* An object without a row is held by a request that will record or delete
\* it; otherwise an answer was lost, a compensation failed or the process
\* ended, which is the operational condition of ADR-0015.
ObjectIsAccountedFor ==
  \A f \in Reference : object[f] # NoBytes =>
    \/ f \in leaked
    \/ \E q \in Requests : f \in Held(q)
    \/ document[f.doc] # NoUpload /\ RefOf(document[f.doc]) = f

\* What is served for a document is what its row was inserted with, although
\* another upload can put other bytes at its reference for a while.
ServedIsRecorded == \A u \in served : document[u.doc] = u

\* Documents hang on receipts of their owner, and receipts on merchants of
\* theirs, whatever identifiers two owners share.
OwnersAgree ==
  /\ ReceiptOwnersAgree
  /\ \A d \in Docs : document[d] # NoUpload => hosted[document[d].receipt].owner = document[d].owner
=============================================================================
