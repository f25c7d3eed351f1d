----------------------- MODULE HostedAttachments_proofs -----------------------
(***************************************************************************)
(* The properties of HostedSpec, for any owners, identifiers, files and    *)
(* number of requests handled at a time.                                   *)
(*                                                                         *)
(* What makes them inductive is the ownership of a reference: a request    *)
(* that has written an object and is still to record or delete it holds    *)
(* the reference alone, the object is its own, and nobody was told that it *)
(* is stored, unless a DELETE that was sent again has struck there.        *)
(***************************************************************************)
EXTENDS HostedAttachments, TLAPS

Of(q) == request[q].upload
IsHolding(q) == request[q].at \in {"inserting", "compensating"}
IsReading(q) == request[q].at = "reading"
RequestsAre == request \in [Requests -> [at : Awaits, upload : Upload] \cup {Idle}]

\* The requests that hold a reference at which no DELETE has struck again.
Holds(q) == IsHolding(q) /\ RefOf(Of(q)) \notin taken

HoldersInv ==
  /\ \A q \in Requests : Holds(q) => object[RefOf(Of(q))] = Of(q).bytes
  /\ \A p, q \in Requests : Holds(p) /\ Holds(q) /\ RefOf(Of(p)) = RefOf(Of(q)) => p = q
  /\ \A q \in Requests, u \in acked : Holds(q) => RefOf(u) # RefOf(Of(q))

ReadersInv == \A q \in Requests : IsReading(q) => document[Of(q).doc] = Of(q)

HostedInv ==
  /\ HostedTypeOK
  /\ HoldersInv
  /\ ReadersInv
  /\ AckedIsStored
  /\ ObjectIsAccountedFor
  /\ ServedIsRecorded
  /\ OwnersAgree

-----------------------------------------------------------------------------
(* What the operators yield. *)

\* createStorageReference yields a reference of the bucket.
LEMMA RefOfIs == \A u \in Upload : RefOf(u) \in Reference
BY DEF Upload, Reference, RefOf, Formats

\* No upload is taken for a row that is not there.
LEMMA UploadIsThere == NoUpload \notin Upload
BY NobodyOwns DEF NoUpload, Upload

\* A request that is not idle has an upload.
LEMMA BusyHasUpload ==
  ASSUME RequestsAre, NEW q \in Requests, request[q].at \in Awaits
  PROVE  request[q] \in [at : Awaits, upload : Upload] /\ Of(q) \in Upload
BY DEF RequestsAre, Idle, Awaits, Of

\* A request that moves keeps its upload, and the others do not move.
LEMMA MovesIs ==
  ASSUME RequestsAre, NEW q \in Requests, NEW from \in Awaits, NEW to \in Awaits, Moves(q, from, to)
  PROVE  /\ RequestsAre' /\ Of(q) \in Upload
         /\ request[q].at = from /\ request'[q].at = to /\ Of(q)' = Of(q)
         /\ \A p \in Requests \ {q} : request'[p] = request[p]
BY BusyHasUpload DEF RequestsAre, Moves, Of

\* A request that ends is idle, and the others do not move.
LEMMA EndsIs ==
  ASSUME RequestsAre, NEW q \in Requests, NEW from \in Awaits, Ends(q, from)
  PROVE  /\ RequestsAre' /\ Of(q) \in Upload
         /\ request[q].at = from /\ request'[q].at = "idle"
         /\ \A p \in Requests \ {q} : request'[p] = request[p]
BY BusyHasUpload DEF RequestsAre, Ends, Of, Idle

\* What the invariant is about is not there at the start.
LEMMA HostedInitInv == HostedInit => HostedInv
<1> SUFFICES ASSUME HostedInit PROVE HostedInv
  OBVIOUS
<1>1. HostedTypeOK
  BY DEF HostedInit, HostedReceiptsInit, HostedTypeOK, HostedReceiptsTypeOK
<1>2. \A q \in Requests : request[q].at = "idle"
  BY DEF HostedInit, Idle
<1> QED
  BY <1>1, <1>2 DEF HostedInit, HostedReceiptsInit, HostedInv, HoldersInv, ReadersInv, Holds, IsHolding, IsReading,
     AckedIsStored, ObjectIsAccountedFor, ServedIsRecorded, OwnersAgree, ReceiptOwnersAgree

-----------------------------------------------------------------------------
(* The steps. *)

\* A step of the requests alone: an object that is held no longer was given
\* up as leaked, and a request that begins to read has found its row.
LEMMA RequestStep ==
  ASSUME HostedInv, RequestsAre',
         UNCHANGED <<tablesOfReceipts, document, object, acked, served, taken>>,
         leaked \subseteq leaked', leaked' \subseteq Reference,
         \A q \in Requests : IsHolding(q)' => IsHolding(q) /\ Of(q)' = Of(q),
         \A q \in Requests : IsHolding(q) => IsHolding(q)' \/ RefOf(Of(q)) \in leaked',
         ReadersInv'
  PROVE  HostedInv'
<1>1. HostedTypeOK'
  BY DEF HostedInv, HostedTypeOK, HostedReceiptsTypeOK, RequestsAre, tablesOfReceipts
<1>2. HoldersInv'
  BY DEF HostedInv, HoldersInv, Holds, RefOf
<1>3. AckedIsStored' /\ ServedIsRecorded' /\ OwnersAgree'
  BY DEF HostedInv, AckedIsStored, ServedIsRecorded, OwnersAgree, ReceiptOwnersAgree, RefOf, tablesOfReceipts
<1>4. ObjectIsAccountedFor'
  <2> SUFFICES ASSUME NEW f \in Reference, object[f] # NoBytes,
                      f \notin leaked', ~\E q \in Requests : f \in Held(q)'
               PROVE  document[f.doc] # NoUpload /\ RefOf(document[f.doc]) = f
    BY DEF ObjectIsAccountedFor, RefOf
  <2>1. ASSUME NEW q \in Requests, f \in Held(q) PROVE FALSE
    <3>1. IsHolding(q) /\ f = RefOf(Of(q))
      BY <2>1 DEF Held, IsHolding, Of
    <3>2. IsHolding(q)' /\ Of(q)' = Of(q)
      BY <3>1
    <3>3. f \in Held(q)'
      BY <3>1, <3>2 DEF Held, IsHolding, Of, RefOf
    <3> QED
      BY <3>3
  <2> QED
    BY <2>1 DEF HostedInv, ObjectIsAccountedFor
<1> QED
  BY <1>1, <1>2, <1>3, <1>4 DEF HostedInv

\* The moves of a request that write nothing.
LEMMA QuietMoves ==
  ASSUME HostedInv, NEW q \in Requests, InspectUpload(q) \/ FindNoDuplicate(q) \/ RejectDocument(q)
  PROVE  HostedInv'
<1>1. RequestsAre
  BY DEF HostedInv, HostedTypeOK, RequestsAre
<1>2. UNCHANGED <<tablesOfReceipts, document, object, acked, served, leaked, taken>>
  BY DEF InspectUpload, FindNoDuplicate, RejectDocument
<1>3. CASE Moves(q, "inspecting", "checking") \/ Moves(q, "checking", "writing")
  <2>1. /\ RequestsAre' /\ ~IsHolding(q) /\ ~IsHolding(q)' /\ ~IsReading(q)'
        /\ \A p \in Requests \ {q} : request'[p] = request[p]
    BY <1>1, <1>3, MovesIs DEF Awaits, IsHolding, IsReading
  <2> QED
    BY <1>2, <2>1, RequestStep DEF HostedInv, HostedTypeOK, ReadersInv, IsHolding, IsReading, Of
<1>4. CASE Moves(q, "inserting", "compensating")
  <2>1. /\ RequestsAre' /\ IsHolding(q) /\ IsHolding(q)' /\ ~IsReading(q)' /\ Of(q)' = Of(q)
        /\ \A p \in Requests \ {q} : request'[p] = request[p]
    BY <1>1, <1>4, MovesIs DEF Awaits, IsHolding, IsReading
  <2> QED
    BY <1>2, <2>1, RequestStep DEF HostedInv, HostedTypeOK, ReadersInv, IsHolding, IsReading, Of
<1> QED
  BY <1>3, <1>4 DEF InspectUpload, FindNoDuplicate, RejectDocument

\* The ends of a request that write nothing: what it held is leaked.
LEMMA QuietEnds ==
  ASSUME HostedInv, NEW q \in Requests,
         RefuseUpload(q) \/ FailCompensation(q) \/ GiveUpDelete(q) \/ FailDownload(q)
  PROVE  HostedInv'
<1>1. RequestsAre
  BY DEF HostedInv, HostedTypeOK, RequestsAre
<1>2. UNCHANGED <<tablesOfReceipts, document, object, acked, served, taken>>
  BY DEF RefuseUpload, FailCompensation, GiveUpDelete, FailDownload
<1>3. PICK from \in Awaits :
        /\ Ends(q, from)
        /\ \/ from \notin {"inserting", "compensating"} /\ leaked' = leaked
           \/ from = "compensating" /\ leaked' = leaked \cup {RefOf(Of(q))}
  BY DEF RefuseUpload, FailCompensation, GiveUpDelete, FailDownload, Awaits, Of
<1>4. /\ RequestsAre' /\ Of(q) \in Upload
      /\ request[q].at = from /\ ~IsHolding(q)' /\ ~IsReading(q)'
      /\ \A p \in Requests \ {q} : request'[p] = request[p]
  BY <1>1, <1>3, EndsIs DEF IsHolding, IsReading
<1>5. leaked \subseteq leaked' /\ leaked' \subseteq Reference
  BY <1>3, <1>4, RefOfIs DEF HostedInv, HostedTypeOK
<1>6. IsHolding(q) => RefOf(Of(q)) \in leaked'
  BY <1>3, <1>4 DEF IsHolding
<1> QED
  BY <1>2, <1>4, <1>5, <1>6, RequestStep DEF HostedInv, ReadersInv, IsHolding, IsReading, Of

\* A request begins, or finds the row it is to read.
LEMMA BeginStep ==
  ASSUME HostedInv, NEW q \in Requests,
         \/ \E u \in Upload : AskUpload(q, u)
         \/ \E o \in Owners, r \in HReceipts, d \in Docs : FindDocument(q, o, r, d)
  PROVE  HostedInv'
<1>1. RequestsAre /\ request[q] = Idle
  BY DEF HostedInv, HostedTypeOK, RequestsAre, AskUpload, FindDocument
<1>2. UNCHANGED <<tablesOfReceipts, document, object, acked, served, leaked, taken>>
  BY DEF AskUpload, FindDocument
<1>3. PICK u \in Upload, at \in {"inspecting", "reading"} :
        /\ request' = [request EXCEPT ![q] = [at |-> at, upload |-> u]]
        /\ at = "reading" => document[u.doc] = u
  BY DEF AskUpload, FindDocument, HostedInv, HostedTypeOK
<1>4. /\ RequestsAre' /\ request'[q] = [at |-> at, upload |-> u]
      /\ \A p \in Requests \ {q} : request'[p] = request[p]
  BY <1>1, <1>3 DEF RequestsAre, Awaits
<1>5. ~IsHolding(q) /\ ~IsHolding(q)'
  BY <1>1, <1>4 DEF IsHolding, Idle
<1>6. ReadersInv'
  BY <1>2, <1>3, <1>4 DEF HostedInv, ReadersInv, IsReading, Of
<1> QED
  BY <1>2, <1>4, <1>5, <1>6, RequestStep DEF HostedInv, HostedTypeOK, IsHolding, Of

\* The process ends: everything that was held is leaked.
LEMMA CrashStep == HostedInv /\ ApiCrash => HostedInv'
<1> SUFFICES ASSUME HostedInv, ApiCrash PROVE HostedInv'
  OBVIOUS
<1>1. RequestsAre' /\ \A q \in Requests : request'[q].at = "idle"
  BY DEF ApiCrash, RequestsAre, Idle
<1>2. UNCHANGED <<tablesOfReceipts, document, object, acked, served, taken>>
  BY DEF ApiCrash
<1>3. ASSUME NEW q \in Requests, IsHolding(q) PROVE RefOf(Of(q)) \in leaked' /\ Held(q) \subseteq Reference
  <2>1. Held(q) = {RefOf(Of(q))} /\ Of(q) \in Upload
    BY <1>3, BusyHasUpload DEF Held, IsHolding, Of, HostedInv, HostedTypeOK, RequestsAre, Awaits
  <2> QED
    BY <2>1, RefOfIs DEF ApiCrash
<1>4. leaked \subseteq leaked' /\ leaked' \subseteq Reference
  BY <1>3 DEF ApiCrash, HostedInv, HostedTypeOK, Held, IsHolding
<1> QED
  BY <1>1, <1>2, <1>3, <1>4, RequestStep DEF IsHolding, IsReading, ReadersInv

\* A receipt and its merchant, of one owner; rows that are there stay.
LEMMA CreateStep ==
  ASSUME HostedInv, NEW o \in Owners, NEW r \in HReceipts, NEW m \in Merchants, CreateReceipt(o, r, m)
  PROVE  HostedInv'
<1>1. /\ hosted[r] = NotThere /\ merchant[m] \in {o, Nobody}
      /\ merchant' = [merchant EXCEPT ![m] = o]
      /\ hosted' = [hosted EXCEPT ![r] = [owner |-> o, merchant |-> m]]
      /\ UNCHANGED attachments
  BY DEF CreateReceipt, InsertReceipt, MayCreate, UpsertsMerchant
<1>2. HostedReceiptsTypeOK'
  BY <1>1 DEF HostedInv, HostedTypeOK, HostedReceiptsTypeOK
<1>3. ReceiptOwnersAgree'
  <2> SUFFICES ASSUME NEW x \in HReceipts, hosted'[x] # NotThere
               PROVE  merchant'[hosted'[x].merchant] = hosted'[x].owner
    BY DEF ReceiptOwnersAgree
  <2>1. CASE x = r
    BY <1>1, <2>1 DEF HostedInv, HostedTypeOK, HostedReceiptsTypeOK
  <2>2. CASE x # r
    <3>1. hosted'[x] = hosted[x] /\ hosted[x] \in [owner : Owners, merchant : Merchants]
      BY <1>1, <2>2 DEF HostedInv, HostedTypeOK, HostedReceiptsTypeOK
    <3>2. merchant[hosted[x].merchant] = hosted[x].owner /\ hosted[x].owner \in Owners
      BY <3>1, <2>2 DEF HostedInv, OwnersAgree, ReceiptOwnersAgree
    <3>3. hosted[x].merchant = m => hosted[x].owner = o
      BY <1>1, <3>2, NobodyOwns
    <3> QED
      BY <1>1, <3>1, <3>2, <3>3 DEF HostedInv, HostedTypeOK, HostedReceiptsTypeOK
  <2> QED
    BY <2>1, <2>2
<1>4. \A d \in Docs : document[d] # NoUpload => hosted'[document[d].receipt].owner = document[d].owner
  <2> SUFFICES ASSUME NEW d \in Docs, document[d] # NoUpload
               PROVE  hosted'[document[d].receipt].owner = document[d].owner
    OBVIOUS
  <2>1. document[d] \in Upload
    BY DEF HostedInv, HostedTypeOK
  <2>2. hosted[document[d].receipt].owner = document[d].owner /\ document[d].owner # Nobody
    BY <2>1, NobodyOwns DEF HostedInv, OwnersAgree, Upload
  <2>3. document[d].receipt \in HReceipts /\ document[d].receipt # r
    BY <1>1, <2>1, <2>2 DEF Upload, NotThere
  <2> QED
    BY <1>1, <2>2, <2>3 DEF HostedInv, HostedTypeOK, HostedReceiptsTypeOK
<1>5. HostedTypeOK'
  BY <1>1, <1>2 DEF HostedInv, HostedTypeOK, attachments
<1>6. /\ HoldersInv' /\ ReadersInv'
      /\ AckedIsStored' /\ ServedIsRecorded'
  BY <1>1 DEF attachments, HostedInv, HoldersInv, ReadersInv, Holds, IsHolding, IsReading, Of, RefOf,
     AckedIsStored, ServedIsRecorded
<1>7. ObjectIsAccountedFor'
  BY <1>1 DEF attachments, HostedInv, ObjectIsAccountedFor, Held, RefOf
<1> QED
  BY <1>1, <1>3, <1>4, <1>5, <1>6, <1>7 DEF HostedInv, OwnersAgree, attachments

\* An object is written at a reference that has none, by a request that holds
\* it from there on, or leaves it behind as leaked.
LEMMA PutStep ==
  ASSUME HostedInv, NEW q \in Requests, PutObject(q) \/ PutObjectUnanswered(q)
  PROVE  HostedInv'
<1> DEFINE f == RefOf(Of(q))
<1>1. RequestsAre
  BY DEF HostedInv, HostedTypeOK, RequestsAre
<1>2. /\ UNCHANGED <<tablesOfReceipts, document, acked, served, taken>>
      /\ object[f] = NoBytes
      /\ object' = [object EXCEPT ![f] = Of(q).bytes]
  BY DEF PutObject, PutObjectUnanswered, Of
<1>3. /\ RequestsAre' /\ Of(q) \in Upload
      /\ request[q].at = "writing" /\ ~IsReading(q)'
      /\ leaked \subseteq leaked' /\ leaked' \subseteq leaked \cup {f}
      /\ \/ IsHolding(q)' /\ Of(q)' = Of(q) /\ f \in Held(q)'
         \/ ~IsHolding(q)' /\ f \in leaked'
      /\ \A p \in Requests \ {q} : request'[p] = request[p]
  <2>1. CASE PutObject(q)
    <3>1. Moves(q, "writing", "inserting") /\ leaked' = leaked
      BY <2>1 DEF PutObject
    <3>2. /\ RequestsAre' /\ Of(q) \in Upload /\ Of(q)' = Of(q)
          /\ request[q].at = "writing" /\ request'[q].at = "inserting"
          /\ \A p \in Requests \ {q} : request'[p] = request[p]
      BY <1>1, <3>1, MovesIs DEF Awaits
    <3>3. f \in Held(q)'
      BY <3>2 DEF Held, Of, RefOf
    <3> QED
      BY <3>1, <3>2, <3>3 DEF IsHolding, IsReading
  <2>2. CASE PutObjectUnanswered(q)
    <3>1. request' = request /\ request[q].at = "writing" /\ leaked' = leaked \cup {f}
      BY <2>2 DEF PutObjectUnanswered, Of
    <3>2. Of(q) \in Upload
      BY <1>1, <3>1, BusyHasUpload DEF Awaits
    <3> QED
      BY <1>1, <3>1, <3>2 DEF RequestsAre, IsHolding, IsReading
  <2> QED
    BY <2>1, <2>2
<1>4. f \in Reference /\ Of(q).bytes \in Bytes
  BY <1>3, RefOfIs DEF Upload
<1>5. object' \in [Reference -> Bytes \cup {NoBytes}] /\ object'[f] = Of(q).bytes
      /\ \A g \in Reference \ {f} : object'[g] = object[g]
  BY <1>2, <1>4 DEF HostedInv, HostedTypeOK
<1> HIDE DEF f
<1>6. HostedTypeOK'
  BY <1>2, <1>3, <1>4, <1>5 DEF HostedInv, HostedTypeOK, HostedReceiptsTypeOK, RequestsAre, tablesOfReceipts
<1>7. \A u \in acked : RefOf(u) \in Reference /\ (RefOf(u) # f \/ f \in taken)
  BY <1>2, RefOfIs, NoBytesIsNoFile DEF HostedInv, HostedTypeOK, AckedIsStored, Upload
<1>8. \A p \in Requests : Holds(p) => RefOf(Of(p)) \in Reference \ {f}
  <2> SUFFICES ASSUME NEW p \in Requests, Holds(p) PROVE RefOf(Of(p)) \in Reference \ {f}
    OBVIOUS
  <2>1. Of(p) \in Upload
    BY <1>1, BusyHasUpload DEF Holds, IsHolding, Awaits
  <2>2. object[RefOf(Of(p))] # NoBytes
    BY <2>1, NoBytesIsNoFile DEF HostedInv, HoldersInv, Upload
  <2> QED
    BY <1>2, <2>1, <2>2, RefOfIs
<1>9. \A p \in Requests : Holds(p)' /\ p # q => Holds(p) /\ Of(p)' = Of(p)
  BY <1>2, <1>3 DEF Holds, IsHolding, Of, RefOf
<1>10. HoldersInv'
  <2>1. \A p \in Requests : Holds(p)' => object'[RefOf(Of(p)')] = Of(p)'.bytes
    BY <1>3, <1>5, <1>8, <1>9 DEF HostedInv, HoldersInv, Holds, f
  <2>2. \A p, w \in Requests : Holds(p)' /\ Holds(w)' /\ RefOf(Of(p)') = RefOf(Of(w)') => p = w
    BY <1>3, <1>8, <1>9 DEF HostedInv, HoldersInv, Holds, f
  <2>3. \A p \in Requests, u \in acked : Holds(p)' => RefOf(u) # RefOf(Of(p)')
    <3> SUFFICES ASSUME NEW p \in Requests, NEW u \in acked, Holds(p)' PROVE RefOf(u) # RefOf(Of(p)')
      OBVIOUS
    <3>1. CASE p = q
      BY <1>2, <1>3, <1>7, <3>1 DEF Holds, RefOf, f
    <3>2. CASE p # q
      BY <1>9, <3>2 DEF HostedInv, HoldersInv
    <3> QED
      BY <3>1, <3>2
  <2> QED
    BY <1>2, <2>1, <2>2, <2>3 DEF HoldersInv, RefOf
<1>11. ReadersInv'
  BY <1>2, <1>3 DEF HostedInv, ReadersInv, IsReading, Of
<1>12. AckedIsStored'
  BY <1>2, <1>5, <1>7 DEF HostedInv, AckedIsStored, RefOf
<1>13. ServedIsRecorded' /\ OwnersAgree'
  BY <1>2 DEF HostedInv, ServedIsRecorded, OwnersAgree, ReceiptOwnersAgree, tablesOfReceipts
<1>14. ObjectIsAccountedFor'
  <2>1. \A p \in Requests \ {q} : Held(p)' = Held(p)
    BY <1>3 DEF Held, RefOf
  <2>2. Held(q) = {}
    BY <1>3 DEF Held
  <2>3. \E p \in Requests : f \in Held(p)' \/ f \in leaked'
    BY <1>3
  <2> QED
    BY <1>2, <1>3, <1>5, <2>1, <2>2, <2>3 DEF HostedInv, ObjectIsAccountedFor, RefOf
<1> QED
  BY <1>6, <1>10, <1>11, <1>12, <1>13, <1>14 DEF HostedInv

\* The row is committed for an identifier that has none, with its object in
\* place; then the request either ends with 201, or compensates.
LEMMA InsertStep ==
  ASSUME HostedInv, NEW q \in Requests, InsertDocument(q) \/ InsertDocumentUnanswered(q)
  PROVE  HostedInv'
<1> DEFINE u == Of(q)
<1>1. RequestsAre
  BY DEF HostedInv, HostedTypeOK, RequestsAre
<1>2. /\ UNCHANGED <<tablesOfReceipts, object, served, leaked, taken>>
      /\ document[u.doc] = NoUpload /\ hosted[u.receipt].owner = u.owner
      /\ document' = [document EXCEPT ![u.doc] = u]
  BY DEF InsertDocument, InsertDocumentUnanswered, IsAccepted, Of
<1>3. /\ RequestsAre' /\ u \in Upload /\ IsHolding(q) /\ ~IsReading(q)'
      /\ \/ acked' = acked \cup {u} /\ ~IsHolding(q)'
         \/ acked' = acked /\ IsHolding(q)' /\ Of(q)' = u
      /\ \A p \in Requests \ {q} : request'[p] = request[p]
  <2>1. CASE InsertDocument(q)
    <3>1. Ends(q, "inserting") /\ acked' = acked \cup {u}
      BY <2>1 DEF InsertDocument, Of
    <3> QED
      BY <1>1, <3>1, EndsIs DEF Awaits, IsHolding, IsReading
  <2>2. CASE InsertDocumentUnanswered(q)
    <3>1. Moves(q, "inserting", "compensating") /\ acked' = acked
      BY <2>2 DEF InsertDocumentUnanswered
    <3> QED
      BY <1>1, <3>1, MovesIs DEF Awaits, IsHolding, IsReading
  <2> QED
    BY <2>1, <2>2
<1>4. u.doc \in Docs /\ RefOf(u) \in Reference /\ RefOf(u).doc = u.doc /\ u # NoUpload
  BY <1>3, RefOfIs, UploadIsThere DEF Upload, RefOf
<1>5. object[RefOf(u)] = u.bytes \/ RefOf(u) \in taken
  BY <1>3 DEF HostedInv, HoldersInv, Holds
<1> HIDE DEF u
<1>6. /\ document'[u.doc] = u
      /\ \A d \in Docs \ {u.doc} : document'[d] = document[d]
      /\ document' \in [Docs -> Upload \cup {NoUpload}]
  BY <1>2, <1>3, <1>4 DEF HostedInv, HostedTypeOK
<1>7. HostedTypeOK'
  BY <1>2, <1>3, <1>4, <1>6 DEF HostedInv, HostedTypeOK, HostedReceiptsTypeOK, RequestsAre, tablesOfReceipts
<1>8. \A v \in Upload : document[v.doc] = v => v.doc # u.doc
  BY <1>2, UploadIsThere
<1>9. HoldersInv'
  <2>1. \A p \in Requests : Holds(p)' => Holds(p) /\ Of(p)' = Of(p)
    BY <1>2, <1>3 DEF Holds, IsHolding, Of, RefOf, u
  <2>2. \A p \in Requests : Holds(p)' /\ acked' # acked => RefOf(u) # RefOf(Of(p))
    <3> SUFFICES ASSUME NEW p \in Requests, Holds(p)', acked' # acked, RefOf(u) = RefOf(Of(p)) PROVE FALSE
      OBVIOUS
    <3>1. Holds(p) /\ p # q
      BY <1>3, <2>1 DEF Holds
    <3>2. Holds(q)
      BY <1>3, <3>1 DEF Holds, u
    <3> QED
      BY <3>1, <3>2 DEF HostedInv, HoldersInv, u
  <2> QED
    BY <1>2, <1>3, <2>1, <2>2 DEF HostedInv, HoldersInv, RefOf
<1>10. ReadersInv'
  <2> SUFFICES ASSUME NEW p \in Requests, IsReading(p)'
               PROVE  document'[Of(p)'.doc] = Of(p)'
    BY DEF ReadersInv
  <2>1. p # q /\ IsReading(p) /\ Of(p)' = Of(p) /\ Of(p) \in Upload /\ document[Of(p).doc] = Of(p)
    BY <1>1, <1>3, BusyHasUpload DEF HostedInv, ReadersInv, IsReading, Of, Awaits
  <2> QED
    BY <1>6, <1>8, <2>1 DEF Upload
<1>11. AckedIsStored'
  BY <1>2, <1>3, <1>5, <1>6, <1>8 DEF HostedInv, HostedTypeOK, AckedIsStored, RefOf, Upload
<1>12. ServedIsRecorded'
  BY <1>2, <1>6, <1>8 DEF HostedInv, HostedTypeOK, ServedIsRecorded, Upload
<1>13. OwnersAgree'
  BY <1>2, <1>6 DEF HostedInv, OwnersAgree, ReceiptOwnersAgree, tablesOfReceipts
<1>14. ObjectIsAccountedFor'
  <2> SUFFICES ASSUME NEW f \in Reference, object[f] # NoBytes, f \notin leaked,
                      ~\E p \in Requests : f \in Held(p)'
               PROVE  document'[f.doc] # NoUpload /\ RefOf(document'[f.doc]) = f
    BY <1>2 DEF ObjectIsAccountedFor, RefOf
  <2>1. CASE f = RefOf(u)
    BY <1>4, <1>6, <2>1
  <2>2. CASE f # RefOf(u)
    <3>1. \A p \in Requests : f \notin Held(p)
      BY <1>3, <2>2 DEF Held, RefOf, Of, u
    <3>2. document[f.doc] # NoUpload /\ RefOf(document[f.doc]) = f
      BY <3>1 DEF HostedInv, ObjectIsAccountedFor
    <3>3. f.doc \in Docs \ {u.doc}
      BY <1>2, <3>2 DEF Reference
    <3> QED
      BY <1>6, <3>2, <3>3
  <2> QED
    BY <2>1, <2>2
<1> QED
  BY <1>7, <1>9, <1>10, <1>11, <1>12, <1>13, <1>14 DEF HostedInv

\* An object is deleted at a reference that, unless a DELETE has struck there
\* again, nobody holds from there on and nobody was told to be stored.
LEMMA ObjectGoes ==
  ASSUME HostedInv, RequestsAre', NEW f \in Reference,
         UNCHANGED <<tablesOfReceipts, document, acked, served, leaked>>,
         object' = [object EXCEPT ![f] = NoBytes],
         taken \subseteq taken', taken' \subseteq taken \cup {f},
         \A p \in Requests : Holds(p)' => Holds(p) /\ Of(p)' = Of(p) /\ RefOf(Of(p)) # f,
         \A u \in acked : RefOf(u) = f => object[f] = NoBytes \/ f \in taken',
         \A p \in Requests : IsHolding(p) /\ RefOf(Of(p)) # f => IsHolding(p)' /\ Of(p)' = Of(p),
         ReadersInv'
  PROVE  HostedInv'
<1>1. /\ object' \in [Reference -> Bytes \cup {NoBytes}] /\ object'[f] = NoBytes
      /\ \A g \in Reference \ {f} : object'[g] = object[g]
  BY DEF HostedInv, HostedTypeOK
<1>2. HostedTypeOK'
  BY <1>1 DEF HostedInv, HostedTypeOK, HostedReceiptsTypeOK, RequestsAre, tablesOfReceipts
<1>3. \A p \in Requests : Holds(p)' => RefOf(Of(p)) \in Reference \ {f}
  <2> SUFFICES ASSUME NEW p \in Requests, Holds(p)' PROVE RefOf(Of(p)) \in Reference \ {f}
    OBVIOUS
  <2>1. Of(p) \in Upload
    BY BusyHasUpload DEF HostedInv, HostedTypeOK, RequestsAre, Holds, IsHolding, Awaits
  <2> QED
    BY <2>1, RefOfIs
<1>4. HoldersInv'
  <2>1. \A p \in Requests : Holds(p)' => object'[RefOf(Of(p)')] = Of(p)'.bytes
    BY <1>1, <1>3 DEF HostedInv, HoldersInv
  <2>2. \A p, w \in Requests : Holds(p)' /\ Holds(w)' /\ RefOf(Of(p)') = RefOf(Of(w)') => p = w
    BY DEF HostedInv, HoldersInv
  <2>3. \A p \in Requests, u \in acked : Holds(p)' => RefOf(u) # RefOf(Of(p)')
    BY DEF HostedInv, HoldersInv
  <2> QED
    BY <2>1, <2>2, <2>3 DEF HoldersInv, RefOf
<1>5. AckedIsStored'
  <2> SUFFICES ASSUME NEW u \in acked
               PROVE  document[u.doc] = u /\ (object'[RefOf(u)] = u.bytes \/ RefOf(u) \in taken')
    BY DEF AckedIsStored, RefOf
  <2>1. u \in Upload /\ RefOf(u) \in Reference /\ u.bytes # NoBytes
    BY RefOfIs, NoBytesIsNoFile DEF HostedInv, HostedTypeOK, Upload
  <2>2. document[u.doc] = u /\ (object[RefOf(u)] = u.bytes \/ RefOf(u) \in taken)
    BY DEF HostedInv, AckedIsStored
  <2>3. CASE RefOf(u) = f
    BY <2>1, <2>2, <2>3
  <2>4. CASE RefOf(u) # f
    BY <1>1, <2>1, <2>2, <2>4
  <2> QED
    BY <2>3, <2>4
<1>6. ServedIsRecorded' /\ OwnersAgree'
  BY DEF HostedInv, ServedIsRecorded, OwnersAgree, ReceiptOwnersAgree, tablesOfReceipts
<1>7. ObjectIsAccountedFor'
  <2> SUFFICES ASSUME NEW g \in Reference \ {f}, object[g] # NoBytes, g \notin leaked,
                      ~\E p \in Requests : g \in Held(p)'
               PROVE  document[g.doc] # NoUpload /\ RefOf(document[g.doc]) = g
    BY <1>1 DEF ObjectIsAccountedFor, RefOf
  <2>1. ASSUME NEW p \in Requests, g \in Held(p) PROVE FALSE
    <3>1. IsHolding(p) /\ g = RefOf(Of(p))
      BY <2>1 DEF Held, IsHolding, Of
    <3>2. IsHolding(p)' /\ Of(p)' = Of(p)
      BY <3>1
    <3>3. g \in Held(p)'
      BY <3>1, <3>2 DEF Held, IsHolding, Of, RefOf
    <3> QED
      BY <3>3
  <2> QED
    BY <2>1 DEF HostedInv, ObjectIsAccountedFor
<1> QED
  BY <1>2, <1>4, <1>5, <1>6, <1>7 DEF HostedInv

\* What is deleted first is what this request has written: no other request
\* holds it, and nobody was told that it is stored.
LEMMA DeleteStep ==
  ASSUME HostedInv, NEW q \in Requests, DeleteObject(q) \/ DeleteObjectUnanswered(q)
  PROVE  HostedInv'
<1> DEFINE f == RefOf(Of(q))
<1>1. RequestsAre
  BY DEF HostedInv, HostedTypeOK, RequestsAre
<1>2. /\ UNCHANGED <<tablesOfReceipts, document, acked, served, leaked, taken>>
      /\ object' = [object EXCEPT ![f] = NoBytes]
      /\ Ends(q, "compensating") \/ Moves(q, "compensating", "repeating")
  BY DEF DeleteObject, DeleteObjectUnanswered, Of
<1>3. /\ RequestsAre' /\ Of(q) \in Upload /\ IsHolding(q) /\ ~IsHolding(q)' /\ ~IsReading(q)'
      /\ \A p \in Requests \ {q} : request'[p] = request[p]
  <2>1. CASE Ends(q, "compensating")
    BY <1>1, <2>1, EndsIs DEF Awaits, IsHolding, IsReading
  <2>2. CASE Moves(q, "compensating", "repeating")
    BY <1>1, <2>2, MovesIs DEF Awaits, IsHolding, IsReading
  <2> QED
    BY <1>2, <2>1, <2>2
<1>4. f \in Reference
  BY <1>3, RefOfIs
<1>5. \A p \in Requests : Holds(p)' => Holds(p) /\ Of(p)' = Of(p) /\ RefOf(Of(p)) # f
  <2> SUFFICES ASSUME NEW p \in Requests, Holds(p)'
               PROVE  Holds(p) /\ Of(p)' = Of(p) /\ RefOf(Of(p)) # f
    OBVIOUS
  <2>1. p # q /\ Holds(p) /\ Of(p)' = Of(p)
    BY <1>2, <1>3 DEF Holds, IsHolding, Of, RefOf
  <2>2. RefOf(Of(p)) = f => Holds(q)
    BY <1>3, <2>1 DEF Holds
  <2> QED
    BY <2>1, <2>2 DEF HostedInv, HoldersInv
<1>6. \A u \in acked : RefOf(u) = f => f \in taken
  BY <1>3 DEF HostedInv, HoldersInv, Holds
<1>7. \A p \in Requests : IsHolding(p) /\ RefOf(Of(p)) # f => IsHolding(p)' /\ Of(p)' = Of(p)
  BY <1>3 DEF IsHolding, Of
<1>8. ReadersInv'
  BY <1>2, <1>3 DEF HostedInv, ReadersInv, IsReading, Of
<1> HIDE DEF f
<1> QED
  BY <1>2, <1>3, <1>4, <1>5, <1>6, <1>7, <1>8, ObjectGoes

\* A DELETE that is sent again meets no object, or it is remembered that it
\* has struck.
LEMMA DeleteAgainStep ==
  ASSUME HostedInv, NEW q \in Requests, DeleteObjectAgain(q)
  PROVE  HostedInv'
<1> DEFINE f == RefOf(Of(q))
<1>1. RequestsAre
  BY DEF HostedInv, HostedTypeOK, RequestsAre
<1>2. /\ UNCHANGED <<tablesOfReceipts, document, acked, served, leaked>>
      /\ object' = [object EXCEPT ![f] = NoBytes]
      /\ taken \subseteq taken' /\ taken' \subseteq taken \cup {f}
      /\ object[f] = NoBytes \/ f \in taken'
      /\ Ends(q, "repeating") \/ Moves(q, "repeating", "repeating")
  BY DEF DeleteObjectAgain, Of
<1>3. /\ RequestsAre' /\ Of(q) \in Upload /\ ~IsHolding(q) /\ ~IsHolding(q)' /\ ~IsReading(q)'
      /\ \A p \in Requests \ {q} : request'[p] = request[p]
  <2>1. CASE Ends(q, "repeating")
    BY <1>1, <2>1, EndsIs DEF Awaits, IsHolding, IsReading
  <2>2. CASE Moves(q, "repeating", "repeating")
    BY <1>1, <2>2, MovesIs DEF Awaits, IsHolding, IsReading
  <2> QED
    BY <1>2, <2>1, <2>2
<1>4. f \in Reference
  BY <1>3, RefOfIs
<1>5. \A p \in Requests : Holds(p)' => Holds(p) /\ Of(p)' = Of(p) /\ RefOf(Of(p)) # f
  <2> SUFFICES ASSUME NEW p \in Requests, Holds(p)'
               PROVE  Holds(p) /\ Of(p)' = Of(p) /\ RefOf(Of(p)) # f
    OBVIOUS
  <2>1. p # q /\ Holds(p) /\ Of(p)' = Of(p) /\ RefOf(Of(p)) \notin taken'
    BY <1>2, <1>3 DEF Holds, IsHolding, Of, RefOf
  <2>2. object[RefOf(Of(p))] # NoBytes
    BY <1>1, <2>1, BusyHasUpload, NoBytesIsNoFile
       DEF HostedInv, HoldersInv, Holds, IsHolding, Awaits, Upload
  <2> QED
    BY <1>2, <2>1, <2>2
<1>7. \A p \in Requests : IsHolding(p) /\ RefOf(Of(p)) # f => IsHolding(p)' /\ Of(p)' = Of(p)
  BY <1>3 DEF IsHolding, Of
<1>8. ReadersInv'
  BY <1>2, <1>3 DEF HostedInv, ReadersInv, IsReading, Of
<1> HIDE DEF f
<1> QED
  BY <1>2, <1>3, <1>4, <1>5, <1>7, <1>8, ObjectGoes

\* What is served is what the row, which was found before, still says.
LEMMA ServeStep ==
  ASSUME HostedInv, NEW q \in Requests, ServeBytes(q)
  PROVE  HostedInv'
<1>1. RequestsAre
  BY DEF HostedInv, HostedTypeOK, RequestsAre
<1>2. /\ UNCHANGED <<tablesOfReceipts, document, object, acked, leaked, taken>>
      /\ Ends(q, "reading") /\ served' = served \cup {Of(q)}
  BY DEF ServeBytes, Of
<1>3. /\ RequestsAre' /\ Of(q) \in Upload /\ IsReading(q) /\ ~IsHolding(q) /\ ~IsHolding(q)' /\ ~IsReading(q)'
      /\ \A p \in Requests \ {q} : request'[p] = request[p]
  BY <1>1, <1>2, EndsIs DEF Awaits, IsHolding, IsReading
<1>4. HostedTypeOK'
  BY <1>2, <1>3 DEF HostedInv, HostedTypeOK, HostedReceiptsTypeOK, RequestsAre, tablesOfReceipts
<1>5. ServedIsRecorded'
  BY <1>2, <1>3 DEF HostedInv, ServedIsRecorded, ReadersInv
<1>6. HoldersInv' /\ ReadersInv'
  <2>1. \A p \in Requests : Holds(p)' => Holds(p) /\ Of(p)' = Of(p)
    BY <1>2, <1>3 DEF Holds, IsHolding, Of, RefOf
  <2>2. HoldersInv'
    BY <1>2, <2>1 DEF HostedInv, HoldersInv, RefOf
  <2>3. ReadersInv'
    BY <1>2, <1>3 DEF HostedInv, ReadersInv, IsReading, Of
  <2> QED
    BY <2>2, <2>3
<1>7. AckedIsStored' /\ OwnersAgree'
  BY <1>2 DEF HostedInv, AckedIsStored, OwnersAgree, ReceiptOwnersAgree, RefOf, tablesOfReceipts
<1>8. ObjectIsAccountedFor'
  <2>1. \A p \in Requests : Held(p) = Held(p)'
    BY <1>3 DEF Held, RefOf, IsHolding
  <2> QED
    BY <1>2, <2>1 DEF HostedInv, ObjectIsAccountedFor, RefOf
<1> QED
  BY <1>4, <1>5, <1>6, <1>7, <1>8 DEF HostedInv

\* Every step keeps the invariant.
LEMMA HostedStep == HostedInv /\ [HostedNext]_hostedVars => HostedInv'
<1> SUFFICES ASSUME HostedInv, [HostedNext]_hostedVars PROVE HostedInv'
  OBVIOUS
<1>1. CASE UNCHANGED hostedVars
  BY <1>1, RequestStep DEF hostedVars, attachments, HostedInv, HostedTypeOK, RequestsAre, ReadersInv,
     IsHolding, IsReading, Of
<1>2. CASE HostedNext
  BY <1>2, CreateStep, BeginStep, QuietMoves, QuietEnds, PutStep, InsertStep, DeleteStep,
     DeleteAgainStep, ServeStep, CrashStep DEF HostedNext
<1> QED
  BY <1>1, <1>2

\* The invariant holds always.
LEMMA HostedAlways == HostedSpec => []HostedInv
BY HostedInitInv, HostedStep, PTL DEF HostedSpec

-----------------------------------------------------------------------------
(* The theorems. *)

\* A file whose upload was answered with 201 keeps its row, and its object
\* until a DELETE that was sent again takes it, however many requests use the
\* same identifiers and compensate (HostedAttachmentService.upload).
THEOREM AckedStays == HostedSpec => []AckedIsStored
BY HostedAlways, PTL DEF HostedInv

\* No object is in the bucket without a row, a request that will see to it,
\* or a failure that has given it up (HostedAttachmentService, ADR-0015).
THEOREM ObjectsAreAccountedFor == HostedSpec => []ObjectIsAccountedFor
BY HostedAlways, PTL DEF HostedInv

\* A download never serves other bytes than those of the row
\* (HostedAttachmentService.download).
THEOREM DownloadIsRecorded == HostedSpec => []ServedIsRecorded
BY HostedAlways, PTL DEF HostedInv

\* What a row refers to is of the owner of the row, whatever identifiers two
\* owners choose (PostgresHostedReceiptRepository, hosted-migrations.ts).
THEOREM OwnersKeepApart == HostedSpec => []OwnersAgree
BY HostedAlways, PTL DEF HostedInv
===============================================================================
