------------------------ MODULE LocalReceipts_proofs ------------------------
(* Theorems about LocalReceipts, for every number of receipts, documents,   *)
(* deletions in flight, edits and crashes.                                  *)
EXTENDS LocalReceipts, TLAPS

-----------------------------------------------------------------------------
(* Types. *)

\* The record a deletion starts from is a request like any other.
LEMMA NoAskIsAsk == NoAsk \in Asks
  BY SomeReceipt DEF NoAsk, Asks

LEMMA InitType == Init => TypeOK
<1> SUFFICES ASSUME Init PROVE TypeOK
  OBVIOUS
<1>1. StoreTypeOK
  BY DEF Init, StoreInit, StoreTypeOK
<1>2. screen \in Screens /\ import \in [Receipts -> ImportStages]
  BY DEF Init, Screens, ImportStages
<1>3. part \in [Receipts -> Kinds] /\ pass \in [Passes -> PassStages]
  BY DEF Init, Kinds, PassStages
<1>4. ask \in [Deletions -> Asks]
  BY NoAskIsAsk DEF Init
<1>5. QED
  BY <1>1, <1>2, <1>3, <1>4 DEF Init, TypeOK

\* No step of the program leaves the types.
LEMMA StepType == TypeOK /\ [Next]_vars => TypeOK'
<1> SUFFICES ASSUME TypeOK, [Next]_vars PROVE TypeOK'
  OBVIOUS
  <1> USE NoAskIsAsk DEF TypeOK, StoreTypeOK, vars, store, app, imports, queue,
     passes,
    ghosts, Screens, ImportStages, PassStages, Passes, Docs, Kinds, Asks
<1>1. ASSUME NEW r \in Receipts, PickFile(r) PROVE TypeOK'
  BY <1>1 DEF PickFile, Goto
<1>2. ASSUME NEW r \in Receipts, PickerReturns(r) PROVE TypeOK'
  BY <1>2 DEF PickerReturns, Goto
<1>3. ASSUME NEW r \in Receipts, CreatePending(r) PROVE TypeOK'
  BY <1>3 DEF CreatePending, Goto, CreateReceipt
<1>4. ASSUME NEW r \in Receipts, CreatePendingFails(r) PROVE TypeOK'
  BY <1>4 DEF CreatePendingFails, Goto
<1>5. ASSUME NEW r \in Receipts, AcceptFile(r) PROVE TypeOK'
  BY <1>5 DEF AcceptFile, Goto
<1>6. ASSUME NEW r \in Receipts, RejectFile(r) PROVE TypeOK'
  BY <1>6 DEF RejectFile, Goto
<1>7. ASSUME NEW r \in Receipts, StartWrite(r) PROVE TypeOK'
  BY <1>7 DEF StartWrite, Goto, CreateFile, Storing
<1>8. ASSUME NEW r \in Receipts, FinishWrite(r) PROVE TypeOK'
  BY <1>8 DEF FinishWrite, Goto, FillFile, Storing
<1>9. ASSUME NEW r \in Receipts, FailWrite(r) PROVE TypeOK'
  BY <1>9 DEF FailWrite, Goto, StoringFails, EraseFile, Storing
<1>10. ASSUME NEW r \in Receipts, FailWriteAndRemoval(r) \/ OpenWriteFails(r) PROVE TypeOK'
  BY <1>10 DEF FailWriteAndRemoval, OpenWriteFails, Goto, StoringFails, Storing
<1>11. ASSUME NEW r \in Receipts, InsertStored(r) PROVE TypeOK'
  <2>1. row' \in [Docs -> {"none", "stored", "removed"}]
    BY <1>11 DEF InsertStored, InsertDocument, Storing
  <2>2. import' \in [Receipts -> ImportStages]
    <3>1. \E stage \in {"writing", "reading"} : import' = [import EXCEPT ![r] = stage]
      BY <1>11 DEF InsertStored, Goto
    <3>2. QED
      BY <3>1
  <2>3. part' \in [Receipts -> Kinds]
    BY <1>11 DEF InsertStored
  <2>4. QED
    BY <1>11, <2>1, <2>2, <2>3 DEF InsertStored, InsertDocument
<1>12. ASSUME NEW r \in Receipts, InsertFails(r) PROVE TypeOK'
  BY <1>12 DEF InsertFails, Goto
<1>13. ASSUME NEW r \in Receipts, UndoWrite(r) PROVE TypeOK'
  BY <1>13 DEF UndoWrite, Goto, StoringFails, EraseFile, Storing
<1>14. ASSUME NEW r \in Receipts, UndoFails(r) PROVE TypeOK'
  BY <1>14 DEF UndoFails, Goto, StoringFails, Storing
<1>15. ASSUME NEW r \in Receipts, ShowImported(r) PROVE TypeOK'
  BY <1>15 DEF ShowImported, Goto
<1>16. ASSUME NEW r \in Receipts, DropFailedImport(r) PROVE TypeOK'
  BY <1>16 DEF DropFailedImport, Goto, TombstoneReceipt
<1>17. ASSUME NEW r \in Receipts, KeepFailedImport(r) PROVE TypeOK'
  BY <1>17 DEF KeepFailedImport, Goto
<1>18. ASSUME NEW r \in Receipts, CreateManual(r) PROVE TypeOK'
  BY <1>18 DEF CreateManual, Goto, CreateReceipt
<1>19. ASSUME NEW r \in Receipts, EditReceipt(r) PROVE TypeOK'
  BY <1>19 DEF EditReceipt, UpdateReceipt
<1>20. ASSUME NEW p \in Passes, ListPending(p) PROVE TypeOK'
  BY <1>20 DEF ListPending, PendingStorageDeletion, At
<1>21. ASSUME NEW p \in Passes, ListFails(p) PROVE TypeOK'
  BY <1>21 DEF ListFails, ReportCleanup, At
<1>22. ASSUME NEW p \in Passes, NEW d \in Docs, EraseNext(p, d) PROVE TypeOK'
  BY <1>22 DEF EraseNext, EraseFile, At
<1>23. ASSUME NEW p \in Passes, NEW d \in Docs, EraseFails(p, d) PROVE TypeOK'
  BY <1>23 DEF EraseFails
<1>24. ASSUME NEW p \in Passes, NEW d \in Docs, MarkErased(p, d) PROVE TypeOK'
  BY <1>24 DEF MarkErased, MarkStorageDeleted, At
<1>25. ASSUME NEW p \in Passes, MarkFails(p) PROVE TypeOK'
  BY <1>25 DEF MarkFails, At
<1>26. ASSUME NEW p \in Passes, EndCleanup(p) PROVE TypeOK'
  BY <1>26 DEF EndCleanup, ReportCleanup, At, Listed
<1>27. ASSUME NEW s \in Deletions, NEW r \in Receipts, ConfirmDeletion(s, r)
       PROVE TypeOK'
  BY <1>27 DEF ConfirmDeletion, DocumentsOf, At
<1>28. ASSUME NEW s \in Deletions, DeleteReceipt(s) PROVE TypeOK'
  BY <1>28 DEF DeleteReceipt, TombstoneReceipt, At
<1>29. ASSUME NEW s \in Deletions, RefuseDeletion(s) PROVE TypeOK'
  BY <1>29 DEF RefuseDeletion, At
<1>30. ASSUME NEW s \in Deletions, EndDeletion(s) PROVE TypeOK'
  <2>1. pass' \in [Passes -> PassStages] /\ failed' \in [Passes -> SUBSET Docs]
    BY <1>30 DEF EndDeletion, At
  <2>2. screen' \in Screens /\ issue' \in BOOLEAN /\ retrying' \in BOOLEAN
    BY <1>30 DEF EndDeletion
  <2>3. refresh' \in SUBSET Deletions /\ ask' \in [Deletions -> Asks]
    BY <1>30 DEF EndDeletion
  <2>4. QED
    BY <1>30, <2>1, <2>2, <2>3 DEF EndDeletion
<1>31. ASSUME NEW s \in Deletions, RetryShown(s) PROVE TypeOK'
  BY <1>31 DEF RetryShown, At
<1>32. ASSUME NEW s \in Deletions, Unmount(s) PROVE TypeOK'
  BY <1>32 DEF Unmount, At
<1>33. ASSUME ConfirmDeleteAll PROVE TypeOK'
  BY <1>33 DEF ConfirmDeleteAll, BeginDeletion, At
<1>34. ASSUME EndErasing PROVE TypeOK'
  BY <1>34 DEF EndErasing, At
<1>35. ASSUME DeleteSecrets PROVE TypeOK'
  BY <1>35 DEF DeleteSecrets, At
<1>36. ASSUME CompleteDeleteAll PROVE TypeOK'
  BY <1>36 DEF CompleteDeleteAll, FinalizeDeletion, At
<1>37. ASSUME InterruptDeleteAll PROVE TypeOK'
  BY <1>37 DEF InterruptDeleteAll, At
<1>38. ASSUME RetryDeleteAll PROVE TypeOK'
  <2>1. CASE intent
    BY <1>38, <2>1 DEF RetryDeleteAll, At
  <2>2. CASE ~intent
    BY <1>38, <2>2 DEF RetryDeleteAll
  <2>3. QED
    BY <2>1, <2>2
<1>39. ASSUME RetryCleanup PROVE TypeOK'
  BY <1>39 DEF RetryCleanup, At
<1>40. ASSUME GoBack PROVE TypeOK'
  BY <1>40 DEF GoBack
<1>41. ASSUME Open PROVE TypeOK'
  BY <1>41 DEF Open, At
<1>42. ASSUME Crash PROVE TypeOK'
  <2>1. import' \in [Receipts -> ImportStages] /\ leaked' \in SUBSET Docs /\ unopened' \in SUBSET Docs
    BY <1>42 DEF Crash
  <2>2. /\ pass' \in [Passes -> PassStages] /\ ask' \in [Deletions -> Asks]
        /\ todo' \in [Passes -> SUBSET Docs]
        /\ cur' \in [Passes -> SUBSET Docs]
        /\ failed' \in [Passes -> SUBSET Docs]
    BY <1>42 DEF Crash, NoPasses
  <2>3. screen' \in Screens /\ crashes' \in Nat /\ refresh' \in SUBSET Deletions
    BY <1>42 DEF Crash, NoPasses
  <2>4. StoreTypeOK' /\ part' \in [Receipts -> Kinds]
    BY <1>42 DEF Crash
  <2>5. issue' \in BOOLEAN /\ retrying' \in BOOLEAN
    BY <1>42 DEF Crash
  <2>6. QED
    BY <2>1, <2>2, <2>3, <2>4, <2>5
<1>43. CASE UNCHANGED vars
  BY <1>43
<1> HIDE DEF TypeOK, StoreTypeOK, vars
<1>44. QED
  BY <1>1, <1>2, <1>3, <1>4, <1>5, <1>6, <1>7, <1>8, <1>9, <1>10, <1>11, <1>12,
     <1>13, <1>14, <1>15, <1>16, <1>17, <1>18, <1>19, <1>20, <1>21, <1>22, <1>23,
     <1>24,
     <1>25, <1>26, <1>27, <1>28, <1>29, <1>30, <1>31, <1>32, <1>33, <1>34, <1>35,
     <1>36, <1>37, <1>38, <1>39, <1>40, <1>41, <1>42, <1>43
     DEF Next, ImportNext, CleanupNext, DeletionNext, DeleteAllNext

\* Every variable keeps its type in every behaviour.
THEOREM TypeCorrect == Spec => []TypeOK
  BY InitType, StepType, PTL DEF Spec

-----------------------------------------------------------------------------
(***************************************************************************)
(* The inductive invariant.  Its heart is that a cleanup pass, however     *)
(* stale its list, holds only documents no import will write again, of     *)
(* receipts that will never be active again.                               *)
(***************************************************************************)

\* The import that stored d has nothing more to do with its file.
Settled(d) ==
  \/ import[Owner(d)] \in {"failing", "reading", "done"}
  \/ part[Owner(d)] = "preview" /\ d = Original(Owner(d))

EarlyImports ==
  \A r \in Receipts :
    import[r] \in {"unused", "picking", "creating", "checking"} =>
      part[r] = "original"

RecordedIsSettled == \A d \in Docs : row[d] # "none" => Settled(d)

StoringFits ==
  \A r \in Receipts :
    /\ import[r] = "filling" => file[Storing(r)] = "partial"
    /\ import[r] = "inserting" => file[Storing(r)] = "whole"

\* What a pass may hold: until its tombstone is written, a deletion holds the
\* documents of the receipt it is about to delete.
Doomed(p, d) ==
  IF p \in Deletions /\ pass[p] = "tombstone"
  THEN Owner(d) = ask[p].receipt
  ELSE receipt[Owner(d)] # "active"

TodoIsDoomed ==
  \A p \in Passes : \A d \in todo[p] : Settled(d) /\ Doomed(p, d)

HeldIsDoomed ==
  \A p \in Passes : \A d \in cur[p] \cup failed[p] :
    Settled(d) /\ receipt[Owner(d)] # "active"

ErasedIsGone == \A p \in Passes : \A d \in cur[p] : file[d] = "none"

\* What holds of lists and imports whatever else writes files.
ListsInv ==
  /\ EarlyImports
  /\ RecordedIsSettled
  /\ StoringFits
  /\ TodoIsDoomed
  /\ HeldIsDoomed
  /\ ErasedIsGone
  /\ ActiveKeepsFile

FilesInv == ListsInv /\ MarkedIsGone /\ NoBytesLostSilently

\* A delete-all that is neither running nor done has the panel on the screen,
\* or the application is closed.
ScreensInv ==
  intent =>
    /\ \A r \in Receipts : receipt[r] # "active"
    /\ pass["all"] = "idle" => screen \in {"closed", "panel"}

LEMMA InitFiles == Init => FilesInv
  BY DEF Init, StoreInit, FilesInv, ListsInv, EarlyImports, RecordedIsSettled,
         StoringFits, TodoIsDoomed, HeldIsDoomed, ErasedIsGone,
         ActiveKeepsFile, MarkedIsGone, NoBytesLostSilently, Storing

\* No step gives a pass what it must not hold, or takes it what it relies on.
LEMMA StepLists == TypeOK /\ TypeOK' /\ ListsInv /\ [Next]_vars => ListsInv'
<1> SUFFICES ASSUME TypeOK, TypeOK', ListsInv, [Next]_vars PROVE ListsInv'
  OBVIOUS
  <1> USE NamesDiffer DEF TypeOK, StoreTypeOK, vars, store, app, imports, queue,
     passes,
    ghosts, Passes, Docs, Kinds, Original, Owner, Storing, ListsInv, Settled,
    EarlyImports, RecordedIsSettled, StoringFits, Doomed, TodoIsDoomed,
    HeldIsDoomed, ErasedIsGone, ActiveKeepsFile
<1>1. ASSUME NEW r \in Receipts, PickFile(r) PROVE ListsInv'
  BY <1>1 DEF PickFile, Goto
<1>2. ASSUME NEW r \in Receipts, PickerReturns(r) PROVE ListsInv'
  BY <1>2 DEF PickerReturns, Goto
<1>3. ASSUME NEW r \in Receipts, CreatePending(r) PROVE ListsInv'
  <2>1. StoringFits'
    BY <1>3 DEF CreatePending, Goto, CreateReceipt
  <2>2. EarlyImports' /\ RecordedIsSettled' /\ TodoIsDoomed' /\ HeldIsDoomed' /\ ErasedIsGone'
    BY <1>3 DEF CreatePending, Goto, CreateReceipt
  <2>3. ActiveKeepsFile'
    BY <1>3 DEF CreatePending, Goto, CreateReceipt
  <2>4. QED
    BY <2>1, <2>2, <2>3
<1>4. ASSUME NEW r \in Receipts, CreatePendingFails(r) PROVE ListsInv'
  BY <1>4 DEF CreatePendingFails, Goto
<1>5. ASSUME NEW r \in Receipts, AcceptFile(r) PROVE ListsInv'
  BY <1>5 DEF AcceptFile, Goto
<1>6. ASSUME NEW r \in Receipts, RejectFile(r) PROVE ListsInv'
  BY <1>6 DEF RejectFile, Goto
<1>7. ASSUME NEW r \in Receipts, StartWrite(r) PROVE ListsInv'
  <2>1. StoringFits'
    <3>1. ASSUME NEW q \in Receipts, q # r
          PROVE  import'[q] = import[q] /\ file'[<<q, part'[q]>>] = file[<<q, part[q]>>]
      BY <1>7, <3>1 DEF StartWrite, Goto, CreateFile
    <3>2. import'[r] = "filling" /\ file'[<<r, part'[r]>>] = "partial"
      BY <1>7 DEF StartWrite, Goto, CreateFile
    <3>3. StoringFits
      OBVIOUS
    <3>4. QED
      BY ONLY <3>1, <3>2, <3>3 DEF StoringFits, Storing
  <2>2. EarlyImports' /\ RecordedIsSettled' /\ TodoIsDoomed' /\ HeldIsDoomed' /\ ErasedIsGone'
    BY <1>7 DEF StartWrite, Goto, CreateFile
  <2>3. ActiveKeepsFile'
    BY <1>7 DEF StartWrite, Goto, CreateFile
  <2>4. QED
    BY <2>1, <2>2, <2>3
<1>8. ASSUME NEW r \in Receipts, FinishWrite(r) PROVE ListsInv'
  <2>1. Storing(r) \in Docs /\ row[Storing(r)] = "none" /\ file[Storing(r)] =
     "partial"
    BY <1>8 DEF FinishWrite, FillFile
  <2>2. ErasedIsGone'
    <3>1. ~Settled(Storing(r))
      BY <1>8 DEF FinishWrite
    <3>2. \A p \in Passes : \A d \in cur[p] : d # Storing(r)
      BY <3>1
    <3>3. \A d \in Docs : d # Storing(r) => file'[d] = file[d]
      BY <1>8 DEF FinishWrite, FillFile
    <3>4. cur' = cur
      BY <1>8 DEF FinishWrite
    <3>5. ASSUME NEW p \in Passes, NEW d \in cur'[p] PROVE file'[d] = "none"
      <4>1. d \in Docs /\ d \in cur[p] /\ file[d] = "none"
        BY <3>4, <3>5
      <4>2. d # Storing(r)
        BY <3>2, <4>1
      <4>3. QED
        BY <3>3, <4>1, <4>2
    <3>6. QED
      BY <3>5
  <2>3. StoringFits'
    BY <1>8, <2>1 DEF FinishWrite, FillFile, Goto
  <2>4. ActiveKeepsFile'
    BY <1>8, <2>1 DEF FinishWrite, FillFile
  <2>5. EarlyImports' /\ RecordedIsSettled' /\ TodoIsDoomed' /\ HeldIsDoomed'
    BY <1>8 DEF FinishWrite, FillFile, Goto
  <2>6. QED
    BY <2>2, <2>3, <2>4, <2>5
<1>9. ASSUME NEW r \in Receipts, FailWrite(r) PROVE ListsInv'
  BY <1>9 DEF FailWrite, Goto, StoringFails, EraseFile
<1>10. ASSUME NEW r \in Receipts, FailWriteAndRemoval(r) \/ OpenWriteFails(r) PROVE ListsInv'
  BY <1>10 DEF FailWriteAndRemoval, OpenWriteFails, Goto, StoringFails
<1>11. ASSUME NEW r \in Receipts, InsertStored(r) PROVE ListsInv'
  <2>1. Storing(r) \in Docs /\ row[Storing(r)] = "none" /\ file[Storing(r)] =
     "whole"
    BY <1>11 DEF InsertStored
  <2>2. EarlyImports' /\ StoringFits'
    <3>1. import'[r] \in {"writing", "reading"} /\ file' = file
      BY <1>11 DEF InsertStored, InsertDocument, Goto
    <3>2. \A q \in Receipts : q # r => import'[q] = import[q] /\ part'[q] = part[q]
      BY <1>11 DEF InsertStored, Goto
    <3>3. EarlyImports'
      BY <3>1, <3>2
    <3>4. ASSUME NEW q \in Receipts, import'[q] \in {"filling", "inserting"}
          PROVE  file'[<<q, part'[q]>>] = IF import'[q] = "filling" THEN "partial" ELSE "whole"
      <4>1. q # r
        BY <3>1, <3>4
      <4>2. import[q] = import'[q] /\ part'[q] = part[q]
        BY <3>2, <3>4, <4>1
      <4>3. file[<<q, part[q]>>] = IF import[q] = "filling" THEN "partial" ELSE "whole"
        BY <3>4, <4>2
      <4>4. QED
        BY <3>1, <4>2, <4>3
    <3>5. StoringFits'
      BY <3>4
    <3>6. QED
      BY <3>3, <3>5
  <2>3. \A d \in Docs : Settled(d) \/ d = Storing(r) => Settled(d)'
    BY <1>11 DEF InsertStored, Goto
  <2>4. RecordedIsSettled'
    BY <1>11, <2>3 DEF InsertStored, InsertDocument
  <2>5. TodoIsDoomed' /\ HeldIsDoomed' /\ ErasedIsGone'
    BY <1>11, <2>3 DEF InsertStored, InsertDocument
  <2>6. ActiveKeepsFile'
    BY <1>11, <2>1 DEF InsertStored, InsertDocument
  <2>7. QED
    BY <2>2, <2>4, <2>5, <2>6
<1>12. ASSUME NEW r \in Receipts, InsertFails(r) PROVE ListsInv'
  BY <1>12 DEF InsertFails, Goto
<1>13. ASSUME NEW r \in Receipts, UndoWrite(r) PROVE ListsInv'
  BY <1>13 DEF UndoWrite, Goto, StoringFails, EraseFile
<1>14. ASSUME NEW r \in Receipts, UndoFails(r) PROVE ListsInv'
  BY <1>14 DEF UndoFails, Goto, StoringFails
<1>15. ASSUME NEW r \in Receipts, ShowImported(r) PROVE ListsInv'
  BY <1>15 DEF ShowImported, Goto
<1>16. ASSUME NEW r \in Receipts, DropFailedImport(r) PROVE ListsInv'
  BY <1>16 DEF DropFailedImport, Goto, TombstoneReceipt
<1>17. ASSUME NEW r \in Receipts, KeepFailedImport(r) PROVE ListsInv'
  BY <1>17 DEF KeepFailedImport, Goto
<1>18. ASSUME NEW r \in Receipts, CreateManual(r) PROVE ListsInv'
  BY <1>18 DEF CreateManual, Goto, CreateReceipt
<1>19. ASSUME NEW r \in Receipts, EditReceipt(r) PROVE ListsInv'
  BY <1>19 DEF EditReceipt, UpdateReceipt
<1>20. ASSUME NEW p \in Passes, ListPending(p) PROVE ListsInv'
  BY <1>20 DEF ListPending, PendingStorageDeletion, At
<1>21. ASSUME NEW p \in Passes, ListFails(p) PROVE ListsInv'
  BY <1>21 DEF ListFails, ReportCleanup, At
<1>22. ASSUME NEW p \in Passes, NEW d \in Docs, EraseNext(p, d) PROVE ListsInv'
  <2>1. Settled(d) /\ receipt[Owner(d)] # "active"
    BY <1>22 DEF EraseNext
  <2>2. StoringFits'
    BY <1>22, <2>1 DEF EraseNext, EraseFile
  <2>3. ActiveKeepsFile'
    BY <1>22, <2>1 DEF EraseNext, EraseFile
  <2>4. TodoIsDoomed' /\ HeldIsDoomed' /\ ErasedIsGone'
    BY <1>22, <2>1 DEF EraseNext, EraseFile, At
  <2>5. QED
    BY <1>22, <2>2, <2>3, <2>4 DEF EraseNext, EraseFile
<1>23. ASSUME NEW p \in Passes, NEW d \in Docs, EraseFails(p, d) PROVE ListsInv'
  BY <1>23 DEF EraseFails
<1>24. ASSUME NEW p \in Passes, NEW d \in Docs, MarkErased(p, d) PROVE ListsInv'
  BY <1>24 DEF MarkErased, MarkStorageDeleted, Markable, At
<1>25. ASSUME NEW p \in Passes, MarkFails(p) PROVE ListsInv'
  BY <1>25 DEF MarkFails, At
<1>26. ASSUME NEW p \in Passes, EndCleanup(p) PROVE ListsInv'
  <2>1. UNCHANGED <<store, imports, ask, todo, cur, ghosts>>
    BY <1>26 DEF EndCleanup, ReportCleanup
  <2>2. /\ pass[p] = "erase"
        /\ pass' = [pass EXCEPT ![p] = "idle"]
        /\ failed' = [failed EXCEPT ![p] = {}]
    BY <1>26 DEF EndCleanup, ReportCleanup, At, Listed
  <2>3. TodoIsDoomed' /\ HeldIsDoomed'
    BY <2>1, <2>2
  <2>4. QED
    BY <2>1, <2>3
<1>27. ASSUME NEW s \in Deletions, NEW r \in Receipts, ConfirmDeletion(s, r)
       PROVE ListsInv'
  BY <1>27 DEF ConfirmDeletion, DocumentsOf, At
<1>28. ASSUME NEW s \in Deletions, DeleteReceipt(s) PROVE ListsInv'
  BY <1>28 DEF DeleteReceipt, TombstoneReceipt, At
<1>29. ASSUME NEW s \in Deletions, RefuseDeletion(s) PROVE ListsInv'
  BY <1>29 DEF RefuseDeletion, At
<1>30. ASSUME NEW s \in Deletions, EndDeletion(s) PROVE ListsInv'
  BY <1>30 DEF EndDeletion, Listed, At
<1>31. ASSUME NEW s \in Deletions, RetryShown(s) PROVE ListsInv'
  BY <1>31 DEF RetryShown, At
<1>32. ASSUME NEW s \in Deletions, Unmount(s) PROVE ListsInv'
  BY <1>32 DEF Unmount, At
<1>33. ASSUME ConfirmDeleteAll PROVE ListsInv'
  BY <1>33 DEF ConfirmDeleteAll, BeginDeletion, Actives, At
<1>34. ASSUME EndErasing PROVE ListsInv'
  BY <1>34 DEF EndErasing, At
<1>35. ASSUME DeleteSecrets PROVE ListsInv'
  BY <1>35 DEF DeleteSecrets, At
<1>36. ASSUME CompleteDeleteAll PROVE ListsInv'
  BY <1>36 DEF CompleteDeleteAll, FinalizeDeletion, CanFinalize, At
<1>37. ASSUME InterruptDeleteAll PROVE ListsInv'
  BY <1>37 DEF InterruptDeleteAll, At
<1>38. ASSUME RetryDeleteAll PROVE ListsInv'
  BY <1>38 DEF RetryDeleteAll, At
<1>39. ASSUME RetryCleanup PROVE ListsInv'
  BY <1>39 DEF RetryCleanup, At
<1>40. ASSUME GoBack PROVE ListsInv'
  BY <1>40 DEF GoBack
<1>41. ASSUME Open PROVE ListsInv'
  BY <1>41 DEF Open, At
<1>42. ASSUME Crash PROVE ListsInv'
  <2>1. UNCHANGED <<store, part>>
    BY <1>42 DEF Crash
  <2>2. \A r \in Receipts :
          import'[r] = IF import[r] \in {"unused", "picking"} THEN "unused" ELSE "done"
    BY <1>42 DEF Crash
  <2>3. \A p \in Passes : todo'[p] = {} /\ cur'[p] = {} /\ failed'[p] = {}
    BY <1>42 DEF Crash, NoPasses
  <2>4. EarlyImports' /\ RecordedIsSettled'
    BY <2>1, <2>2
  <2>7. StoringFits'
    BY <2>2
  <2>5. TodoIsDoomed' /\ HeldIsDoomed' /\ ErasedIsGone'
    BY <2>3
  <2>6. QED
    BY <2>1, <2>4, <2>5, <2>7
<1>43. CASE UNCHANGED vars
  BY <1>43
<1> HIDE DEF TypeOK, StoreTypeOK, ListsInv, vars
<1>44. QED
  BY <1>1, <1>2, <1>3, <1>4, <1>5, <1>6, <1>7, <1>8, <1>9, <1>10, <1>11,
     <1>12, <1>13, <1>14, <1>15, <1>16, <1>17, <1>18, <1>19, <1>20, <1>21, <1>22,
     <1>23, <1>24, <1>25, <1>26, <1>27, <1>28, <1>29, <1>30, <1>31, <1>32,
     <1>33, <1>34, <1>35, <1>36, <1>37, <1>38, <1>39, <1>40, <1>41, <1>42,
     <1>43
     DEF Next, ImportNext, CleanupNext, DeletionNext, DeleteAllNext

\* A file is created and recorded by its import, erased when its import has
\* settled, and given up by a failure or a crash.
LEMMA StepAccounted ==
  TypeOK /\ ListsInv /\ NoBytesLostSilently /\ [Next]_vars => NoBytesLostSilently'
<1> SUFFICES ASSUME TypeOK, ListsInv, NoBytesLostSilently, [Next]_vars
             PROVE  NoBytesLostSilently'
  OBVIOUS
  <1> USE DEF TypeOK, StoreTypeOK, NoBytesLostSilently, Storing, Docs, Kinds, Owner
<1>a. (UNCHANGED <<row, file, import, part, leaked, unopened>>) => NoBytesLostSilently'
  OBVIOUS
<1>1. ASSUME NEW r \in Receipts, ImportNext(r) PROVE NoBytesLostSilently'
  <2>1. CASE StartWrite(r)
    BY <2>1 DEF StartWrite, CreateFile, Goto, ghosts
  <2>2. CASE FinishWrite(r)
    BY <2>2 DEF FinishWrite, FillFile, Goto, ghosts
  <2>3. CASE FailWrite(r)
    BY <2>3 DEF FailWrite, EraseFile, StoringFails, Goto
  <2>4. CASE FailWriteAndRemoval(r)
    BY <2>4 DEF FailWriteAndRemoval, StoringFails, Goto, store
  <2>11. CASE OpenWriteFails(r)
    <3>1. file[Storing(r)] = "partial"
      BY <2>11 DEF OpenWriteFails, ListsInv, StoringFits
    <3>2. QED
      BY <2>11, <3>1 DEF OpenWriteFails, StoringFails, Goto, store
  <2>5. CASE InsertStored(r)
    BY <2>5 DEF InsertStored, InsertDocument, Goto, ghosts
  <2>6. CASE InsertFails(r)
    BY <2>6 DEF InsertFails, Goto, store, ghosts
  <2>7. CASE UndoWrite(r)
    BY <2>7 DEF UndoWrite, EraseFile, StoringFails, Goto
  <2>8. CASE UndoFails(r)
    BY <2>8 DEF UndoFails, StoringFails, Goto, store
  <2>9. CASE \/ PickFile(r) \/ PickerReturns(r) \/ CreatePending(r) \/ CreatePendingFails(r)
             \/ AcceptFile(r) \/ RejectFile(r) \/ ShowImported(r) \/ DropFailedImport(r)
             \/ KeepFailedImport(r) \/ CreateManual(r) \/ EditReceipt(r)
    <3>1. UNCHANGED <<row, file, part, leaked, unopened>>
      BY <2>9 DEF PickFile, PickerReturns, CreatePending, CreatePendingFails, AcceptFile,
         RejectFile, ShowImported, DropFailedImport, KeepFailedImport, CreateManual, EditReceipt,
         CreateReceipt, TombstoneReceipt, UpdateReceipt, store, imports, ghosts
    <3>2. \A q \in Receipts : import[q] \in {"filling", "inserting", "undoing"} => import'[q] = import[q]
      BY <2>9 DEF PickFile, PickerReturns, CreatePending, CreatePendingFails, AcceptFile,
         RejectFile, ShowImported, DropFailedImport, KeepFailedImport, CreateManual, EditReceipt,
         Goto, imports
    <3>3. QED
      BY <3>1, <3>2
  <2>10. QED
    BY <1>1, <2>1, <2>2, <2>3, <2>4, <2>5, <2>6, <2>7, <2>8, <2>9, <2>11 DEF ImportNext
<1>2. ASSUME NEW p \in Passes, CleanupNext(p) PROVE NoBytesLostSilently'
  <2>1. ASSUME NEW d \in Docs, EraseNext(p, d) PROVE NoBytesLostSilently'
    BY <2>1 DEF EraseNext, EraseFile, imports, ghosts
  <2>2. ASSUME NEW d \in Docs, MarkErased(p, d) PROVE NoBytesLostSilently'
    BY <2>2 DEF MarkErased, MarkStorageDeleted, imports, ghosts, ListsInv, ErasedIsGone
  <2>3. CASE \A d \in Docs : ~EraseNext(p, d) /\ ~MarkErased(p, d)
    BY <2>3, <1>2, <1>a
       DEF CleanupNext, store, imports, ghosts, ListPending, ListFails, EndCleanup, ReportCleanup,
           EraseFails, MarkFails
  <2>4. QED
    BY <2>1, <2>2, <2>3
<1>3. ASSUME NEW s \in Deletions, DeletionNext(s) PROVE NoBytesLostSilently'
  BY <1>3, <1>a
     DEF DeletionNext, store, imports, ghosts, ConfirmDeletion, DeleteReceipt, TombstoneReceipt,
         RefuseDeletion, EndDeletion, RetryShown, Unmount
<1>4. ASSUME DeleteAllNext PROVE NoBytesLostSilently'
  <2>1. CASE CompleteDeleteAll
    BY <2>1 DEF CompleteDeleteAll, FinalizeDeletion, CanFinalize, imports, ghosts
  <2>2. CASE ~CompleteDeleteAll
    BY <2>2, <1>4, <1>a
       DEF DeleteAllNext, store, imports, ghosts, ConfirmDeleteAll, BeginDeletion, EndErasing,
           DeleteSecrets, InterruptDeleteAll, RetryDeleteAll
  <2>3. QED
    BY <2>1, <2>2
<1>5. CASE Crash
  BY <1>5 DEF Crash, store
<1>6. CASE RetryCleanup \/ GoBack \/ Open \/ UNCHANGED vars
  BY <1>6, <1>a DEF RetryCleanup, GoBack, Open, vars, store, imports, ghosts
<1>7. QED
  BY <1>1, <1>2, <1>3, <1>4, <1>5, <1>6 DEF Next

\* A document is marked once it is erased, and no import writes it again.
LEMMA StepMarked ==
  TypeOK /\ ListsInv /\ MarkedIsGone /\ [Next]_vars => MarkedIsGone'
<1> SUFFICES ASSUME TypeOK, ListsInv, MarkedIsGone, [Next]_vars PROVE MarkedIsGone'
  OBVIOUS
  <1> USE DEF TypeOK, StoreTypeOK, MarkedIsGone, Docs, Kinds, Owner
<1>a. (UNCHANGED <<receipt, row, file>>) => MarkedIsGone'
  OBVIOUS
<1>b. ASSUME NEW r \in Receipts, import[r] \in {"writing", "filling", "inserting"}
      PROVE  row[Storing(r)] = "none"
  BY <1>b DEF Storing, ListsInv, RecordedIsSettled, Settled, Original
<1>1. ASSUME NEW r \in Receipts, ImportNext(r) PROVE MarkedIsGone'
  <2>1. CASE StartWrite(r) \/ FinishWrite(r)
    BY <2>1, <1>b DEF StartWrite, FinishWrite, CreateFile, FillFile, Storing
  <2>2. CASE InsertStored(r)
    BY <2>2 DEF InsertStored, InsertDocument
  <2>3. CASE FailWrite(r) \/ UndoWrite(r)
    BY <2>3 DEF FailWrite, UndoWrite, EraseFile, Storing
  <2>4. CASE CreatePending(r) \/ CreateManual(r) \/ DropFailedImport(r)
    BY <2>4 DEF CreatePending, CreateManual, DropFailedImport, CreateReceipt, TombstoneReceipt
  <2>5. CASE \/ PickFile(r) \/ PickerReturns(r) \/ CreatePendingFails(r) \/ AcceptFile(r)
             \/ RejectFile(r) \/ FailWriteAndRemoval(r) \/ OpenWriteFails(r) \/ InsertFails(r) \/ UndoFails(r)
             \/ ShowImported(r) \/ KeepFailedImport(r) \/ EditReceipt(r)
    BY <2>5, <1>a
       DEF PickFile, PickerReturns, CreatePendingFails, AcceptFile, RejectFile, FailWriteAndRemoval, OpenWriteFails,
           InsertFails, UndoFails, ShowImported, KeepFailedImport, EditReceipt, UpdateReceipt, store
  <2>6. QED
    BY <1>1, <2>1, <2>2, <2>3, <2>4, <2>5 DEF ImportNext
<1>2. ASSUME NEW p \in Passes, CleanupNext(p) PROVE MarkedIsGone'
  <2>1. ASSUME NEW d \in Docs, EraseNext(p, d) PROVE MarkedIsGone'
    BY <2>1 DEF EraseNext, EraseFile
  <2>2. ASSUME NEW d \in Docs, MarkErased(p, d) PROVE MarkedIsGone'
    BY <2>2 DEF MarkErased, MarkStorageDeleted, Markable, ListsInv, ErasedIsGone
  <2>3. CASE \A d \in Docs : ~EraseNext(p, d) /\ ~MarkErased(p, d)
    BY <2>3, <1>2, <1>a
       DEF CleanupNext, store, ListPending, ListFails, EndCleanup, ReportCleanup, EraseFails, MarkFails
  <2>4. QED
    BY <2>1, <2>2, <2>3
<1>3. ASSUME NEW s \in Deletions, DeletionNext(s) PROVE MarkedIsGone'
  <2>1. CASE DeleteReceipt(s)
    BY <2>1 DEF DeleteReceipt, TombstoneReceipt
  <2>2. CASE ~DeleteReceipt(s)
    BY <2>2, <1>3, <1>a
       DEF DeletionNext, store, ConfirmDeletion, RefuseDeletion, EndDeletion, RetryShown, Unmount
  <2>3. QED
    BY <2>1, <2>2
<1>4. ASSUME DeleteAllNext PROVE MarkedIsGone'
  <2>1. CASE ConfirmDeleteAll
    BY <2>1 DEF ConfirmDeleteAll, BeginDeletion, Actives
  <2>2. CASE CompleteDeleteAll
    BY <2>2 DEF CompleteDeleteAll, FinalizeDeletion
  <2>3. CASE ~ConfirmDeleteAll /\ ~CompleteDeleteAll
    BY <2>3, <1>4, <1>a
       DEF DeleteAllNext, store, EndErasing, DeleteSecrets, InterruptDeleteAll, RetryDeleteAll
  <2>4. QED
    BY <2>1, <2>2, <2>3
<1>5. CASE RetryCleanup \/ GoBack \/ Open \/ Crash \/ UNCHANGED vars
  BY <1>5, <1>a DEF RetryCleanup, GoBack, Open, Crash, vars, store
<1>6. QED
  BY <1>1, <1>2, <1>3, <1>4, <1>5 DEF Next

\* No step breaks the invariant of the files.
LEMMA StepFiles == TypeOK /\ TypeOK' /\ FilesInv /\ [Next]_vars => FilesInv'
  BY StepLists, StepAccounted, StepMarked DEF FilesInv

\* The invariant of the files holds in every behaviour.
LEMMA FilesCorrect == Spec => []FilesInv
  BY InitFiles, StepFiles, TypeCorrect, PTL DEF Spec

\* ActiveKeepsFile: cleanup and delete-all never take the bytes of a recorded
\* document of an active receipt, for any number of passes and imports.
THEOREM ActiveFilesAreKept == Spec => []ActiveKeepsFile
  BY FilesCorrect, PTL DEF FilesInv, ListsInv

\* MarkedIsGone: storage_deleted_at never lies about the bytes.
THEOREM MarksAreTrue == Spec => []MarkedIsGone
  BY FilesCorrect, PTL DEF FilesInv

\* NoBytesLostSilently: every file is recorded, in the hands of the import that
\* writes it, or was given up by a crash or a failed removal.
THEOREM FilesAreAccountedFor == Spec => []NoBytesLostSilently
  BY FilesCorrect, PTL DEF FilesInv

\* PurgeForgetsNoFile: only finalize ends the intent, it counts the documents
\* that are still stored, and a marked one has no file.
THEOREM PurgeIsComplete == Spec => PurgeForgetsNoFile
<1>1. /\ TypeOK /\ MarkedIsGone /\ [Next]_vars
      => [intent /\ ~intent' =>
            \A d \in Docs : row[d] # "none" => file[d] = "none"]_vars
  <2> SUFFICES ASSUME TypeOK, MarkedIsGone, [Next]_vars, intent, ~intent',
                      NEW d \in Docs, row[d] # "none"
               PROVE  file[d] = "none"
    OBVIOUS
  <2>1. CompleteDeleteAll
    BY DEF Next, ImportNext, CleanupNext, DeletionNext, DeleteAllNext, vars, store,
           app, imports, queue, passes, ghosts, PickFile, PickerReturns,
           CreatePending, CreatePendingFails, AcceptFile, RejectFile, StartWrite,
           FinishWrite, FailWrite, FailWriteAndRemoval, OpenWriteFails, InsertStored, InsertFails,
           UndoWrite, UndoFails, DropFailedImport, KeepFailedImport, CreateManual,
           EditReceipt, CreateReceipt, UpdateReceipt, TombstoneReceipt,
           InsertDocument, CreateFile, FillFile, EraseFile, ListPending, ListFails,
           EndCleanup, ReportCleanup, EraseNext, EraseFails, MarkErased, MarkFails,
           MarkStorageDeleted, ConfirmDeletion, DeleteReceipt, RefuseDeletion,
           EndDeletion, RetryShown, Unmount, ConfirmDeleteAll, BeginDeletion,
           EndErasing, DeleteSecrets, InterruptDeleteAll, RetryDeleteAll,
           RetryCleanup, GoBack, Open, Crash, ShowImported
  <2>2. row[d] # "stored"
    BY <2>1 DEF CompleteDeleteAll, FinalizeDeletion, CanFinalize
  <2>3. row[d] = "removed"
    BY <2>2 DEF TypeOK, StoreTypeOK
  <2>4. QED
    BY <2>3 DEF MarkedIsGone
<1>2. QED
  BY <1>1, TypeCorrect, MarksAreTrue, PTL DEF Spec, PurgeForgetsNoFile

-----------------------------------------------------------------------------
(* Duplicates. *)

\* A document is recorded only after no other one with its bytes was found in
\* the same transaction, and nothing else records one.
LEMMA StepDistinct ==
  TypeOK /\ FilesInv /\ OriginalsAreDistinct /\ [Next]_vars => OriginalsAreDistinct'
<1> SUFFICES ASSUME TypeOK, FilesInv, OriginalsAreDistinct, [Next]_vars
             PROVE  OriginalsAreDistinct'
  OBVIOUS
  <1> USE DEF TypeOK, StoreTypeOK, vars, store, app, imports, queue, passes,
     ghosts, Docs,
    Kinds, Original, Owner, Storing, OriginalsAreDistinct
<1>1. ASSUME NEW r \in Receipts, PickFile(r) PROVE OriginalsAreDistinct'
  BY <1>1 DEF PickFile, Goto
<1>2. ASSUME NEW r \in Receipts, PickerReturns(r) PROVE OriginalsAreDistinct'
  BY <1>2 DEF PickerReturns, Goto
<1>3. ASSUME NEW r \in Receipts, CreatePending(r) PROVE OriginalsAreDistinct'
  BY <1>3 DEF CreatePending, Goto, CreateReceipt
<1>4. ASSUME NEW r \in Receipts, CreatePendingFails(r) PROVE OriginalsAreDistinct'
  BY <1>4 DEF CreatePendingFails, Goto
<1>5. ASSUME NEW r \in Receipts, AcceptFile(r) PROVE OriginalsAreDistinct'
  BY <1>5 DEF AcceptFile, Goto
<1>6. ASSUME NEW r \in Receipts, RejectFile(r) PROVE OriginalsAreDistinct'
  BY <1>6 DEF RejectFile, Goto
<1>7. ASSUME NEW r \in Receipts, StartWrite(r) PROVE OriginalsAreDistinct'
  BY <1>7 DEF StartWrite, Goto, CreateFile
<1>8. ASSUME NEW r \in Receipts, FinishWrite(r) PROVE OriginalsAreDistinct'
  BY <1>8 DEF FinishWrite, Goto, FillFile
<1>9. ASSUME NEW r \in Receipts, FailWrite(r) PROVE OriginalsAreDistinct'
  BY <1>9 DEF FailWrite, Goto, StoringFails, EraseFile
<1>10. ASSUME NEW r \in Receipts, FailWriteAndRemoval(r) \/ OpenWriteFails(r) PROVE OriginalsAreDistinct'
  BY <1>10 DEF FailWriteAndRemoval, OpenWriteFails, Goto, StoringFails
<1>11. ASSUME NEW r \in Receipts, InsertStored(r) PROVE OriginalsAreDistinct'
  BY <1>11 DEF InsertStored, Goto, InsertDocument, CanInsert,
     OriginalWithContentOf
<1>12. ASSUME NEW r \in Receipts, InsertFails(r) PROVE OriginalsAreDistinct'
  BY <1>12 DEF InsertFails, Goto
<1>13. ASSUME NEW r \in Receipts, UndoWrite(r) PROVE OriginalsAreDistinct'
  BY <1>13 DEF UndoWrite, Goto, StoringFails, EraseFile
<1>14. ASSUME NEW r \in Receipts, UndoFails(r) PROVE OriginalsAreDistinct'
  BY <1>14 DEF UndoFails, Goto, StoringFails
<1>15. ASSUME NEW r \in Receipts, ShowImported(r) PROVE OriginalsAreDistinct'
  BY <1>15 DEF ShowImported, Goto
<1>16. ASSUME NEW r \in Receipts, DropFailedImport(r) PROVE OriginalsAreDistinct'
  BY <1>16 DEF DropFailedImport, Goto, TombstoneReceipt
<1>17. ASSUME NEW r \in Receipts, KeepFailedImport(r) PROVE OriginalsAreDistinct'
  BY <1>17 DEF KeepFailedImport, Goto
<1>18. ASSUME NEW r \in Receipts, CreateManual(r) PROVE OriginalsAreDistinct'
  BY <1>18 DEF CreateManual, Goto, CreateReceipt
<1>19. ASSUME NEW r \in Receipts, EditReceipt(r) PROVE OriginalsAreDistinct'
  BY <1>19 DEF EditReceipt, UpdateReceipt
<1>20. ASSUME NEW p \in Passes, ListPending(p) PROVE OriginalsAreDistinct'
  BY <1>20 DEF ListPending, PendingStorageDeletion, At
<1>21. ASSUME NEW p \in Passes, ListFails(p) PROVE OriginalsAreDistinct'
  BY <1>21 DEF ListFails, ReportCleanup, At
<1>22. ASSUME NEW p \in Passes, NEW d \in Docs, EraseNext(p, d)
       PROVE OriginalsAreDistinct'
  BY <1>22 DEF EraseNext, EraseFile, At
<1>23. ASSUME NEW p \in Passes, NEW d \in Docs, EraseFails(p, d)
       PROVE OriginalsAreDistinct'
  BY <1>23 DEF EraseFails
<1>24. ASSUME NEW p \in Passes, NEW d \in Docs, MarkErased(p, d)
       PROVE OriginalsAreDistinct'
  BY <1>24 DEF MarkErased, MarkStorageDeleted, Markable, At
<1>25. ASSUME NEW p \in Passes, MarkFails(p) PROVE OriginalsAreDistinct'
  BY <1>25 DEF MarkFails, At
<1>26. ASSUME NEW p \in Passes, EndCleanup(p) PROVE OriginalsAreDistinct'
  BY <1>26 DEF EndCleanup, ReportCleanup, At
<1>27. ASSUME NEW s \in Deletions, NEW r \in Receipts, ConfirmDeletion(s, r)
       PROVE OriginalsAreDistinct'
  BY <1>27 DEF ConfirmDeletion, DocumentsOf, At
<1>28. ASSUME NEW s \in Deletions, DeleteReceipt(s) PROVE OriginalsAreDistinct'
  BY <1>28 DEF DeleteReceipt, TombstoneReceipt, At
<1>29. ASSUME NEW s \in Deletions, RefuseDeletion(s) PROVE OriginalsAreDistinct'
  BY <1>29 DEF RefuseDeletion, At
<1>30. ASSUME NEW s \in Deletions, EndDeletion(s) PROVE OriginalsAreDistinct'
  BY <1>30 DEF EndDeletion, Listed, At
<1>31. ASSUME NEW s \in Deletions, RetryShown(s) PROVE OriginalsAreDistinct'
  BY <1>31 DEF RetryShown, At
<1>32. ASSUME NEW s \in Deletions, Unmount(s) PROVE OriginalsAreDistinct'
  BY <1>32 DEF Unmount, At
<1>33. ASSUME ConfirmDeleteAll PROVE OriginalsAreDistinct'
  BY <1>33 DEF ConfirmDeleteAll, BeginDeletion, Actives, At
<1>34. ASSUME EndErasing PROVE OriginalsAreDistinct'
  BY <1>34 DEF EndErasing, At
<1>35. ASSUME DeleteSecrets PROVE OriginalsAreDistinct'
  BY <1>35 DEF DeleteSecrets, At
<1>36. ASSUME CompleteDeleteAll PROVE OriginalsAreDistinct'
  BY <1>36 DEF CompleteDeleteAll, FinalizeDeletion, CanFinalize, At
<1>37. ASSUME InterruptDeleteAll PROVE OriginalsAreDistinct'
  BY <1>37 DEF InterruptDeleteAll, At
<1>38. ASSUME RetryDeleteAll PROVE OriginalsAreDistinct'
  BY <1>38 DEF RetryDeleteAll, At
<1>39. ASSUME RetryCleanup PROVE OriginalsAreDistinct'
  BY <1>39 DEF RetryCleanup, At
<1>40. ASSUME GoBack PROVE OriginalsAreDistinct'
  BY <1>40 DEF GoBack
<1>41. ASSUME Open PROVE OriginalsAreDistinct'
  BY <1>41 DEF Open, At
<1>42. ASSUME Crash PROVE OriginalsAreDistinct'
  BY <1>42 DEF Crash, NoPasses
<1>43. CASE UNCHANGED vars
  BY <1>43
<1> HIDE DEF TypeOK, StoreTypeOK, OriginalsAreDistinct, vars
<1>44. QED
  BY <1>1, <1>2, <1>3, <1>4, <1>5, <1>6, <1>7, <1>8, <1>9, <1>10, <1>11,
     <1>12, <1>13, <1>14, <1>15, <1>16, <1>17, <1>18, <1>19, <1>20, <1>21, <1>22,
     <1>23, <1>24, <1>25, <1>26, <1>27, <1>28, <1>29, <1>30, <1>31, <1>32,
     <1>33, <1>34, <1>35, <1>36, <1>37, <1>38, <1>39, <1>40, <1>41, <1>42,
     <1>43
     DEF Next, ImportNext, CleanupNext, DeletionNext, DeleteAllNext

\* OriginalsAreDistinct: no two imports that race record the same file.
THEOREM DuplicatesAreRefused == Spec => []OriginalsAreDistinct
<1>1. Init => OriginalsAreDistinct
  BY DEF Init, StoreInit, OriginalsAreDistinct, Original, Docs, Kinds
<1>2. QED
  BY <1>1, StepDistinct, TypeCorrect, FilesCorrect, PTL DEF Spec

-----------------------------------------------------------------------------
(* The screens of a pending delete-all. *)

LEMMA StepScreens == TypeOK /\ ScreensInv /\ [Next]_vars => ScreensInv'
<1> SUFFICES ASSUME TypeOK, ScreensInv, [Next]_vars PROVE ScreensInv'
  OBVIOUS
  <1> USE NamesDiffer DEF TypeOK, StoreTypeOK, vars, store, app, imports, queue,
     passes,
    ghosts, Passes, Screens, ScreensInv
<1>1. ASSUME NEW r \in Receipts, PickFile(r) PROVE ScreensInv'
  BY <1>1 DEF PickFile, Goto
<1>2. ASSUME NEW r \in Receipts, PickerReturns(r) PROVE ScreensInv'
  BY <1>2 DEF PickerReturns, Goto
<1>3. ASSUME NEW r \in Receipts, CreatePending(r) PROVE ScreensInv'
  BY <1>3 DEF CreatePending, Goto, CreateReceipt
<1>4. ASSUME NEW r \in Receipts, CreatePendingFails(r) PROVE ScreensInv'
  BY <1>4 DEF CreatePendingFails, Goto
<1>5. ASSUME NEW r \in Receipts, AcceptFile(r) PROVE ScreensInv'
  BY <1>5 DEF AcceptFile, Goto
<1>6. ASSUME NEW r \in Receipts, RejectFile(r) PROVE ScreensInv'
  BY <1>6 DEF RejectFile, Goto
<1>7. ASSUME NEW r \in Receipts, StartWrite(r) PROVE ScreensInv'
  BY <1>7 DEF StartWrite, Goto, CreateFile
<1>8. ASSUME NEW r \in Receipts, FinishWrite(r) PROVE ScreensInv'
  BY <1>8 DEF FinishWrite, Goto, FillFile
<1>9. ASSUME NEW r \in Receipts, FailWrite(r) PROVE ScreensInv'
  BY <1>9 DEF FailWrite, Goto, StoringFails, EraseFile
<1>10. ASSUME NEW r \in Receipts, FailWriteAndRemoval(r) \/ OpenWriteFails(r) PROVE ScreensInv'
  BY <1>10 DEF FailWriteAndRemoval, OpenWriteFails, Goto, StoringFails
<1>11. ASSUME NEW r \in Receipts, InsertStored(r) PROVE ScreensInv'
  BY <1>11 DEF InsertStored, Goto, InsertDocument
<1>12. ASSUME NEW r \in Receipts, InsertFails(r) PROVE ScreensInv'
  BY <1>12 DEF InsertFails, Goto
<1>13. ASSUME NEW r \in Receipts, UndoWrite(r) PROVE ScreensInv'
  BY <1>13 DEF UndoWrite, Goto, StoringFails, EraseFile
<1>14. ASSUME NEW r \in Receipts, UndoFails(r) PROVE ScreensInv'
  BY <1>14 DEF UndoFails, Goto, StoringFails
<1>15. ASSUME NEW r \in Receipts, ShowImported(r) PROVE ScreensInv'
  BY <1>15 DEF ShowImported, Goto
<1>16. ASSUME NEW r \in Receipts, DropFailedImport(r) PROVE ScreensInv'
  BY <1>16 DEF DropFailedImport, Goto, TombstoneReceipt
<1>17. ASSUME NEW r \in Receipts, KeepFailedImport(r) PROVE ScreensInv'
  BY <1>17 DEF KeepFailedImport, Goto
<1>18. ASSUME NEW r \in Receipts, CreateManual(r) PROVE ScreensInv'
  BY <1>18 DEF CreateManual, Goto, CreateReceipt
<1>19. ASSUME NEW r \in Receipts, EditReceipt(r) PROVE ScreensInv'
  BY <1>19 DEF EditReceipt, UpdateReceipt
<1>20. ASSUME NEW p \in Passes, ListPending(p) PROVE ScreensInv'
  BY <1>20 DEF ListPending, PendingStorageDeletion, At
<1>21. ASSUME NEW p \in Passes, ListFails(p) PROVE ScreensInv'
  BY <1>21 DEF ListFails, ReportCleanup, At, CleansPending
<1>22. ASSUME NEW p \in Passes, NEW d \in Docs, EraseNext(p, d) PROVE ScreensInv'
  BY <1>22 DEF EraseNext, EraseFile, At
<1>23. ASSUME NEW p \in Passes, NEW d \in Docs, EraseFails(p, d) PROVE ScreensInv'
  BY <1>23 DEF EraseFails
<1>24. ASSUME NEW p \in Passes, NEW d \in Docs, MarkErased(p, d) PROVE ScreensInv'
  BY <1>24 DEF MarkErased, MarkStorageDeleted, Markable, At
<1>25. ASSUME NEW p \in Passes, MarkFails(p) PROVE ScreensInv'
  BY <1>25 DEF MarkFails, At
<1>26. ASSUME NEW p \in Passes, EndCleanup(p) PROVE ScreensInv'
  BY <1>26 DEF EndCleanup, ReportCleanup, At, CleansPending
<1>27. ASSUME NEW s \in Deletions, NEW r \in Receipts, ConfirmDeletion(s, r)
       PROVE ScreensInv'
  BY <1>27 DEF ConfirmDeletion, DocumentsOf, At
<1>28. ASSUME NEW s \in Deletions, DeleteReceipt(s) PROVE ScreensInv'
  BY <1>28 DEF DeleteReceipt, TombstoneReceipt, At
<1>29. ASSUME NEW s \in Deletions, RefuseDeletion(s) PROVE ScreensInv'
  BY <1>29 DEF RefuseDeletion, At
<1>30. ASSUME NEW s \in Deletions, EndDeletion(s) PROVE ScreensInv'
  BY <1>30 DEF EndDeletion, Listed, At
<1>31. ASSUME NEW s \in Deletions, RetryShown(s) PROVE ScreensInv'
  BY <1>31 DEF RetryShown, At
<1>32. ASSUME NEW s \in Deletions, Unmount(s) PROVE ScreensInv'
  BY <1>32 DEF Unmount, At
<1>33. ASSUME ConfirmDeleteAll PROVE ScreensInv'
  BY <1>33 DEF ConfirmDeleteAll, BeginDeletion, Actives, At
<1>34. ASSUME EndErasing PROVE ScreensInv'
  BY <1>34 DEF EndErasing, At
<1>35. ASSUME DeleteSecrets PROVE ScreensInv'
  BY <1>35 DEF DeleteSecrets, At
<1>36. ASSUME CompleteDeleteAll PROVE ScreensInv'
  BY <1>36 DEF CompleteDeleteAll, FinalizeDeletion, CanFinalize, At
<1>37. ASSUME InterruptDeleteAll PROVE ScreensInv'
  BY <1>37 DEF InterruptDeleteAll, At
<1>38. ASSUME RetryDeleteAll PROVE ScreensInv'
  BY <1>38 DEF RetryDeleteAll, At
<1>39. ASSUME RetryCleanup PROVE ScreensInv'
  BY <1>39 DEF RetryCleanup, At
<1>40. ASSUME GoBack PROVE ScreensInv'
  BY <1>40 DEF GoBack
<1>41. ASSUME Open PROVE ScreensInv'
  BY <1>41 DEF Open, At
<1>42. ASSUME Crash PROVE ScreensInv'
  BY <1>42 DEF Crash, NoPasses
<1>43. CASE UNCHANGED vars
  BY <1>43
<1> HIDE DEF TypeOK, StoreTypeOK, ScreensInv, vars
<1>44. QED
  BY <1>1, <1>2, <1>3, <1>4, <1>5, <1>6, <1>7, <1>8, <1>9, <1>10, <1>11,
     <1>12, <1>13, <1>14, <1>15, <1>16, <1>17, <1>18, <1>19, <1>20, <1>21, <1>22,
     <1>23, <1>24, <1>25, <1>26, <1>27, <1>28, <1>29, <1>30, <1>31, <1>32,
     <1>33, <1>34, <1>35, <1>36, <1>37, <1>38, <1>39, <1>40, <1>41, <1>42,
     <1>43
     DEF Next, ImportNext, CleanupNext, DeletionNext, DeleteAllNext

\* IntentBlocksNormalUse: while delete-all is pending nothing is active, and the
\* user has only the dialog that runs it or the panel that retries it.
THEOREM PendingDeletionBlocksUse == Spec => []IntentBlocksNormalUse
<1>1. Init => ScreensInv
  BY DEF Init, StoreInit, ScreensInv
<1>2. TypeOK /\ ScreensInv => IntentBlocksNormalUse
  BY NamesDiffer DEF ScreensInv, IntentBlocksNormalUse, Actives
<1>3. QED
  BY <1>1, <1>2, StepScreens, TypeCorrect, PTL DEF Spec

-----------------------------------------------------------------------------
(***************************************************************************)
(* LocalReceipts implements DocumentPromise.  Where recorded bytes are as  *)
(* their rows say, the life of a document depends on two rows only, and    *)
(* seven operations of the stores write them.                              *)
(***************************************************************************)

Stage(d) ==
  IF row[d] = "none" THEN "unknown"
  ELSE IF row[d] = "removed" THEN "removed"
  ELSE IF receipt[Owner(d)] = "active" THEN "readable" ELSE "deleted"

LEMMA LifeIsStage ==
  StoreTypeOK /\ ActiveKeepsFile /\ MarkedIsGone => Life = [d \in Docs |-> Stage(d)]
<1> SUFFICES ASSUME StoreTypeOK, ActiveKeepsFile, MarkedIsGone, NEW d \in Docs
             PROVE  Life[d] = Stage(d)
  BY DEF Life
<1> USE DEF StoreTypeOK, ActiveKeepsFile, MarkedIsGone, Life, Stage
<1>1. CASE row[d] = "none"
  BY <1>1
<1>2. CASE row[d] = "removed"
  BY <1>2
<1>3. CASE row[d] = "stored"
  BY <1>3
<1>4. QED
  BY <1>1, <1>2, <1>3

\* An original and its receipt.
LEMMA DocsOfReceipts ==
  /\ \A d \in Docs : Owner(d) = d[1] /\ d[1] \in Receipts /\ d = <<d[1], d[2]>>
  /\ \A r \in Receipts : Original(r) \in Docs /\ Original(r)[1] = r /\ Original(r)[2] = "original"
  BY DEF Docs, Kinds, Owner, Original

\* What one operation of the tables does to the documents.
LEMMA TombstoneKeeps ==
  ASSUME StoreTypeOK, Life = [d \in Docs |-> Stage(d)], Life' = [d \in Docs |-> Stage(d)'],
         NEW r \in Receipts, NEW v, TombstoneReceipt(r, v)
  PROVE  Promise!Delete({r}) /\ \E d \in Docs : r = d[1]
<1> USE DocsOfReceipts
<1>1. ASSUME NEW d \in Docs
      PROVE  Stage(d)' = IF d[1] \in {r} /\ Life[d] = "readable" THEN "deleted" ELSE Life[d]
  BY DEF TombstoneReceipt, Stage, StoreTypeOK
<1>2. Promise!Delete({r})
  BY <1>1 DEF Promise!Delete
<1>3. QED
  BY <1>2

LEMMA InsertKeeps ==
  ASSUME StoreTypeOK, Life = [d \in Docs |-> Stage(d)], Life' = [d \in Docs |-> Stage(d)'],
         MarkedIsGone, NEW d \in Docs, row[d] = "none", InsertDocument(d)
  PROVE  Promise!Appear(d)
<1> USE DocsOfReceipts
<1>1. Life[d] = "unknown"
  BY DEF Stage
<1>2. ASSUME d[2] = "original" PROVE ~Promise!IsDuplicate(d)
  <2> SUFFICES ASSUME NEW e \in Docs, e # d, e[2] = "original",
                      Content[e[1]] = Content[d[1]], Life[e] # "unknown"
               PROVE  FALSE
    BY DEF Promise!IsDuplicate
  <2>1. d = Original(d[1]) /\ e = Original(e[1])
    BY <1>2 DEF Original
  <2>2. OriginalWithContentOf(d[1]) = {}
    BY <2>1 DEF InsertDocument, CanInsert
  <2>3. row[e] = "none"
    BY <2>1, <2>2 DEF OriginalWithContentOf
  <2>4. QED
    BY <2>3 DEF Stage
<1>3. ASSUME d[2] # "original"
      PROVE  \E e \in Docs : e = <<d[1], "original">> /\ Life[e] = "readable"
  <2>1. row[Original(d[1])] # "none" /\ receipt[d[1]] = "active"
    BY <1>3 DEF InsertDocument, CanInsert
  <2>2. row[Original(d[1])] # "removed"
    BY <2>1 DEF MarkedIsGone, Original, Owner
  <2>3. Life[Original(d[1])] = "readable"
    BY <2>1, <2>2 DEF Stage
  <2>4. QED
    BY <2>3 DEF Original
<1>4. Life' = [Life EXCEPT ![d] = "readable"]
  <2>1. ASSUME NEW e \in Docs, e # d PROVE Stage(e)' = Life[e]
    BY <2>1 DEF InsertDocument, Stage, StoreTypeOK
  <2>2. Stage(d)' = "readable"
    BY DEF InsertDocument, CanInsert, Stage, StoreTypeOK
  <2>3. QED
    BY <2>1, <2>2
<1>5. QED
  BY <1>1, <1>2, <1>3, <1>4 DEF Promise!Appear

LEMMA MarkKeeps ==
  ASSUME StoreTypeOK, Life = [d \in Docs |-> Stage(d)], Life' = [d \in Docs |-> Stage(d)'],
         NEW d \in Docs, MarkStorageDeleted(d)
  PROVE  Promise!Remove(d) \/ UNCHANGED Life
<1> USE DocsOfReceipts
<1>1. ASSUME NEW e \in Docs, e # d PROVE Stage(e)' = Life[e]
  BY <1>1 DEF MarkStorageDeleted, Stage, StoreTypeOK
<1>2. Stage(d)' = "removed"
  BY DEF MarkStorageDeleted, Stage, StoreTypeOK
<1>3. Life[d] \in {"removed", "deleted"}
  BY DEF MarkStorageDeleted, Markable, Stage
<1>4. Life' = [Life EXCEPT ![d] = "removed"]
  BY <1>1, <1>2
<1>5. CASE Life[d] = "removed"
  BY <1>5, <1>4, <1>1, <1>2
<1>6. CASE Life[d] = "deleted"
  BY <1>6, <1>4 DEF Promise!Remove
<1>7. QED
  BY <1>3, <1>5, <1>6

LEMMA BeginKeeps ==
  ASSUME StoreTypeOK, Life = [d \in Docs |-> Stage(d)], Life' = [d \in Docs |-> Stage(d)'],
         BeginDeletion
  PROVE  Promise!Delete({d[1] : d \in Docs}) \/ UNCHANGED Life
<1> USE DocsOfReceipts
<1>1. CASE intent
  BY <1>1 DEF BeginDeletion, Stage, StoreTypeOK
<1>2. CASE ~intent
  <2>1. ASSUME NEW d \in Docs
        PROVE  Stage(d)' = IF Life[d] = "readable" THEN "deleted" ELSE Life[d]
    BY <1>2 DEF BeginDeletion, Actives, Stage, StoreTypeOK
  <2>2. QED
    BY <2>1 DEF Promise!Delete
<1>3. QED
  BY <1>1, <1>2

LEMMA FinalizeKeeps ==
  ASSUME StoreTypeOK, Life = [d \in Docs |-> Stage(d)], Life' = [d \in Docs |-> Stage(d)'],
         FinalizeDeletion
  PROVE  Promise!ForgetAll
<1>1. \A d \in Docs : Life[d] \in {"unknown", "removed"}
  BY DEF FinalizeDeletion, CanFinalize, Stage, StoreTypeOK
<1>2. \A d \in Docs : Stage(d)' = "unknown"
  BY DEF FinalizeDeletion, Stage
<1>3. QED
  BY <1>1, <1>2 DEF Promise!ForgetAll

LEMMA InitKeeps == Init => Promise!Init
<1> SUFFICES ASSUME Init PROVE \A d \in Docs : Life[d] = "unknown"
  BY DEF Life, Promise!Init
<1>1. \A d \in Docs : row[d] = "none"
  BY DEF Init, StoreInit
<1>2. Life = [d \in Docs |-> Stage(d)]
  BY LifeIsStage, InitType, InitFiles DEF TypeOK, FilesInv, ListsInv
<1>3. QED
  BY <1>1, <1>2 DEF Stage

\* Every step of the program is one of the promise, or changes no life.
LEMMA StepKeeps ==
  TypeOK /\ TypeOK' /\ FilesInv /\ FilesInv' /\ [Next]_vars => [Promise!Next]_Life
<1> SUFFICES ASSUME TypeOK, TypeOK', FilesInv, FilesInv', [Next]_vars
             PROVE  Promise!Next \/ UNCHANGED Life
  OBVIOUS
<1>a. /\ StoreTypeOK /\ MarkedIsGone
      /\ Life = [d \in Docs |-> Stage(d)] /\ Life' = [d \in Docs |-> Stage(d)']
  <2>1. Life = [d \in Docs |-> Stage(d)]
    BY LifeIsStage DEF TypeOK, FilesInv, ListsInv
  <2>2. (Life = [d \in Docs |-> Stage(d)])'
    BY LifeIsStage, PTL DEF TypeOK, FilesInv, ListsInv
  <2>3. QED
    BY <2>1, <2>2 DEF TypeOK, FilesInv, ListsInv
<1>b. (UNCHANGED <<receipt, row>>) => UNCHANGED Life
  BY <1>a DEF Stage
<1>c. ASSUME NEW r \in Receipts, CreateReceipt(r), import[r] \in {"unused", "creating"}
      PROVE  UNCHANGED Life
  <2>1. \A d \in Docs : Owner(d) = r => row[d] = "none"
    BY <1>c DEF FilesInv, ListsInv, RecordedIsSettled, Settled, EarlyImports
  <2>2. ASSUME NEW d \in Docs PROVE Stage(d)' = Stage(d)
    BY <1>c, <2>1, <1>a, DocsOfReceipts DEF CreateReceipt, Stage, StoreTypeOK
  <2>3. QED
    BY <2>2, <1>a
<1>d. ASSUME NEW r \in Receipts, NEW v, TombstoneReceipt(r, v) PROVE Promise!Next
  BY <1>a, <1>d, TombstoneKeeps DEF Promise!Next
<1>1. ASSUME NEW r \in Receipts, ImportNext(r) PROVE Promise!Next \/ UNCHANGED Life
  <2>1. CASE CreatePending(r) \/ CreateManual(r)
    BY <2>1, <1>c DEF CreatePending, CreateManual
  <2>2. CASE DropFailedImport(r)
    BY <2>2, <1>d DEF DropFailedImport
  <2>3. CASE InsertStored(r)
    <3>1. Storing(r) \in Docs /\ InsertDocument(Storing(r)) /\ import[r] = "inserting"
      BY <2>3 DEF InsertStored, Storing, TypeOK, Docs
    <3>2. row[Storing(r)] = "none"
      BY <3>1 DEF FilesInv, ListsInv, RecordedIsSettled, Settled, Storing, Owner, Original
    <3>3. Promise!Appear(Storing(r))
      BY <3>1, <3>2, <1>a, InsertKeeps
    <3>4. QED
      BY <3>1, <3>3 DEF Promise!Next
  <2>4. CASE ~CreatePending(r) /\ ~CreateManual(r) /\ ~DropFailedImport(r) /\ ~InsertStored(r)
    BY <2>4, <1>1, <1>b
       DEF ImportNext, store, PickFile, PickerReturns, CreatePendingFails, AcceptFile,
           RejectFile, StartWrite, FinishWrite, FailWrite, FailWriteAndRemoval, OpenWriteFails, InsertFails,
           UndoWrite, UndoFails, ShowImported, KeepFailedImport, EditReceipt, UpdateReceipt,
           CreateFile, FillFile, EraseFile
  <2>5. QED
    BY <2>1, <2>2, <2>3, <2>4
<1>2. ASSUME NEW p \in Passes, CleanupNext(p) PROVE Promise!Next \/ UNCHANGED Life
  <2>1. ASSUME NEW d \in Docs, MarkErased(p, d) PROVE Promise!Next \/ UNCHANGED Life
    BY <2>1, <1>a, MarkKeeps DEF MarkErased, Promise!Next
  <2>2. CASE \A d \in Docs : ~MarkErased(p, d)
    BY <2>2, <1>2, <1>b
       DEF CleanupNext, store, ListPending, ListFails, EndCleanup, ReportCleanup, EraseNext,
           EraseFails, MarkFails, EraseFile
  <2>3. QED
    BY <2>1, <2>2
<1>3. ASSUME NEW s \in Deletions, DeletionNext(s) PROVE Promise!Next \/ UNCHANGED Life
  <2>1. CASE DeleteReceipt(s)
    BY <2>1, <1>d DEF DeleteReceipt, TypeOK, Asks
  <2>2. CASE ~DeleteReceipt(s)
    BY <2>2, <1>3, <1>b
       DEF DeletionNext, store, ConfirmDeletion, RefuseDeletion, EndDeletion, RetryShown, Unmount
  <2>3. QED
    BY <2>1, <2>2
<1>4. ASSUME DeleteAllNext PROVE Promise!Next \/ UNCHANGED Life
  <2>1. CASE ConfirmDeleteAll
    BY <2>1, <1>a, BeginKeeps DEF ConfirmDeleteAll, Promise!Next
  <2>2. CASE CompleteDeleteAll
    BY <2>2, <1>a, FinalizeKeeps DEF CompleteDeleteAll, Promise!Next
  <2>3. CASE ~ConfirmDeleteAll /\ ~CompleteDeleteAll
    BY <2>3, <1>4, <1>b
       DEF DeleteAllNext, store, EndErasing, DeleteSecrets, InterruptDeleteAll, RetryDeleteAll
  <2>4. QED
    BY <2>1, <2>2, <2>3
<1>5. ASSUME RetryCleanup \/ GoBack \/ Open \/ Crash \/ UNCHANGED vars PROVE UNCHANGED Life
  BY <1>5, <1>b DEF RetryCleanup, GoBack, Open, Crash, vars, store
<1>6. QED
  BY <1>1, <1>2, <1>3, <1>4, <1>5 DEF Next

\* KeepsPromise: the program implements DocumentPromise, for every number of
\* receipts, imports, deletions, edits and crashes.
THEOREM PromiseIsKept == Spec => KeepsPromise
  BY InitKeeps, StepKeeps, TypeCorrect, FilesCorrect, PTL DEF Spec, KeepsPromise, Promise!Spec

=============================================================================
