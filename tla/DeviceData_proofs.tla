--------------------------- MODULE DeviceData_proofs ---------------------------
(***************************************************************************)
(* Theorems of what the device keeps when the application ends:            *)
(*                                                                         *)
(*   LocalLaunch      LaunchSpec => []LaunchTypeOK and []ReadyIsMigrated.  *)
(*                    A commit brings a migration and its record together, *)
(*                    and an empty list of missing migrations means that   *)
(*                    all are recorded.                                    *)
(*   EncryptedBackup  BackupSpec => []BackupTypeOK and                     *)
(*                    []BackupOpensWithShownKey.  The invariant says where *)
(*                    the key of a backup is while the calls of a screen   *)
(*                    are awaited.                                         *)
(*   DataArchive      ArchiveSpec => []ArchiveTypeOK,                      *)
(*                    []ExportsUnlessTimesDisagree and                   *)
(*                    []ReadsWhatWasExported.  A damage that one list      *)
(*                    misses another one notices.                          *)
(*   SharedConnection ConnectionSpec and calls that never overlap imply    *)
(*                    []AllOrNothing and []ThrownLeavesNothing: what the   *)
(*                    run shared_connection shows needs an overlap.        *)
(*                                                                         *)
(* All hold for any releases, keys, screens, rows, damages and bounds.     *)
(***************************************************************************)
EXTENDS LocalLaunch, EncryptedBackup, DataArchive, SharedConnection, TLAPS

-----------------------------------------------------------------------------
(* The launch. *)

InMigration == {"migrating", "recording", "committing"}

\* What BEGIN, the statements and the record of version v have added.
TransactionIsOf(v) ==
  /\ at = "recording" => transaction = [made |-> {v}, recorded |-> {}]
  /\ at = "committing" => transaction = [made |-> {v}, recorded |-> {v}]

LaunchInv ==
  /\ release \in Nat
  /\ database \in [made : SUBSET Nat, recorded : SUBSET Nat]
  /\ missing \subseteq Nat
  /\ database.made = database.recorded
  /\ at \notin {"recording", "committing"} => transaction = Nothing
  /\ at \in {"recording", "committing"} => \E v \in FirstOf(missing) : TransactionIsOf(v)
  /\ at \in InMigration => missing = Versions \ database.recorded /\ database.recorded \subseteq Versions
  /\ at \in InMigration \cup {"opening"} => promise # "kept"
  /\ at \in {"resuming", "ready"} \/ promise = "kept" => database.recorded = Versions

\* A migration is the only first one of those that are missing.
LEMMA FirstIsOne ==
  ASSUME NEW S \in SUBSET Nat, NEW v \in FirstOf(S), NEW w \in FirstOf(S)
  PROVE  v = w
BY DEF FirstOf

\* The file is as a release has left it, or empty.
LEMMA LaunchInitInv == LaunchInit => LaunchInv
BY LaunchBounds DEF LaunchInit, LaunchInv, InMigration, Nothing

\* Only the commit changes the file, and it brings both halves of a migration.
LEMMA CommitKeeps == LaunchInv /\ CommitMigration => LaunchInv'
<1> SUFFICES ASSUME LaunchInv, CommitMigration PROVE LaunchInv'
  OBVIOUS
<1>1. PICK v \in FirstOf(missing) : transaction = [made |-> {v}, recorded |-> {v}]
  BY DEF LaunchInv, CommitMigration, TransactionIsOf
<1>2. v \in Nat /\ v \in Versions
  BY DEF FirstOf, LaunchInv, CommitMigration, InMigration
<1>3. database' = [made |-> database.made \cup {v}, recorded |-> database.recorded \cup {v}]
  BY <1>1 DEF CommitMigration
<1>4. missing' = missing \ {v}
  BY <1>1 DEF CommitMigration
<1>5. at' = "migrating" /\ transaction' = Nothing /\ promise' = promise /\ release' = release /\ Versions' = Versions
  BY DEF CommitMigration, Versions
<1>6. missing' = Versions' \ database'.recorded /\ database'.recorded \subseteq Versions'
  BY <1>2, <1>3, <1>4, <1>5 DEF LaunchInv, CommitMigration, InMigration
<1>7. promise # "kept"
  BY DEF LaunchInv, CommitMigration, InMigration
<1> QED
  BY <1>2, <1>3, <1>4, <1>5, <1>6, <1>7 DEF LaunchInv, InMigration

\* The migration that is executed is the one that is recorded.
LEMMA MigrateKeeps ==
  ASSUME LaunchInv, NEW v \in Versions, ExecuteMigration(v) \/ RecordMigration(v)
  PROVE  LaunchInv'
<1>1. CASE ExecuteMigration(v)
  <2>1. v \in FirstOf(missing)' /\ TransactionIsOf(v)'
    BY <1>1 DEF ExecuteMigration, LaunchInv, TransactionIsOf, Nothing, FirstOf
  <2> QED
    BY <1>1, <2>1 DEF ExecuteMigration, LaunchInv, InMigration, Versions, FirstOf
<1>2. CASE RecordMigration(v)
  <2>1. PICK w \in FirstOf(missing) : transaction = [made |-> {w}, recorded |-> {}]
    BY <1>2 DEF RecordMigration, LaunchInv, TransactionIsOf
  <2>2. w = v
    BY <1>2, <2>1, FirstIsOne DEF RecordMigration, LaunchInv
  <2>3. v \in FirstOf(missing)' /\ TransactionIsOf(v)'
    BY <1>2, <2>1, <2>2 DEF RecordMigration, TransactionIsOf, FirstOf
  <2> QED
    BY <1>2, <2>3 DEF RecordMigration, LaunchInv, InMigration, Versions, FirstOf
<1> QED
  BY <1>1, <1>2

\* Every step keeps the invariant.
LEMMA LaunchStep == LaunchInv /\ [LaunchNext]_launchVars => LaunchInv'
<1> SUFFICES ASSUME LaunchInv, [LaunchNext]_launchVars PROVE LaunchInv'
  OBVIOUS
<1>1. CASE GetLocalRepositories
  BY <1>1 DEF GetLocalRepositories, LaunchInv, InMigration, Versions
<1>2. CASE OpenDatabase
  BY <1>2 DEF OpenDatabase, LaunchInv, InMigration, Versions
<1>3. CASE RefuseDatabase
  BY <1>3 DEF RefuseDatabase, Rejects, LaunchInv, InMigration, Versions
<1>4. CASE \E v \in Versions : ExecuteMigration(v) \/ RecordMigration(v)
  BY <1>4, MigrateKeeps
<1>5. CASE CommitMigration
  BY <1>5, CommitKeeps
<1>6. CASE MigrationFails
  BY <1>6 DEF MigrationFails, Rejects, LaunchInv, InMigration, Versions
<1>7. CASE FinishMigrations
  BY <1>7 DEF FinishMigrations, LaunchInv, InMigration, Versions
<1>8. CASE ShowScreens \/ ResumeFails
  BY <1>8 DEF ShowScreens, ResumeFails, LaunchInv, InMigration, Versions
<1>9. CASE \E r \in Releases : Relaunch(r)
  BY <1>9, LaunchBounds DEF Relaunch, LaunchInv, InMigration
<1>10. CASE UNCHANGED launchVars
  BY <1>10 DEF launchVars, LaunchInv, InMigration, Versions, TransactionIsOf, FirstOf, Nothing
<1> QED
  BY <1>1, <1>2, <1>3, <1>4, <1>5, <1>6, <1>7, <1>8, <1>9, <1>10 DEF LaunchNext

\* Whatever release was installed before, wherever the process ended and
\* whatever failed, screens are shown over a database of exactly the version
\* of the release that runs, and what is made is what is recorded (App.tsx,
\* expo-sqlite.ts, sqlite.ts).
THEOREM ScreensComeMigrated == LaunchSpec => []ReadyIsMigrated
<1>1. LaunchInv => ReadyIsMigrated
  BY DEF LaunchInv, ReadyIsMigrated
<1> QED
  BY <1>1, LaunchInitInv, LaunchStep, PTL DEF LaunchSpec

\* There is a transaction only while a migration is made, and whatever a
\* launch finds missing is of its own release.
THEOREM LaunchTypeCorrect == LaunchSpec => []LaunchTypeOK
<1>1. LaunchInit => LaunchTypeOK
  <2> SUFFICES ASSUME LaunchInit PROVE LaunchTypeOK
    OBVIOUS
  <2>1. PICK v \in Releases \cup {0} : database = [made |-> 1..v, recorded |-> 1..v]
    BY DEF LaunchInit
  <2>2. 1..v \subseteq UNION {1..r : r \in Releases}
    BY LaunchBounds
  <2> QED
    BY <2>1, <2>2, LaunchBounds DEF LaunchInit, LaunchTypeOK
<1>2. LaunchInv /\ LaunchTypeOK /\ [LaunchNext]_launchVars => LaunchTypeOK'
  <2> SUFFICES ASSUME LaunchInv, LaunchTypeOK, [LaunchNext]_launchVars PROVE LaunchTypeOK'
    OBVIOUS
  <2> USE DEF LaunchTypeOK, Versions
  <2>1. CASE GetLocalRepositories \/ OpenDatabase \/ RefuseDatabase \/ FinishMigrations
    BY <2>1 DEF GetLocalRepositories, OpenDatabase, RefuseDatabase, Rejects, FinishMigrations
  <2>2. CASE \E v \in Versions : ExecuteMigration(v) \/ RecordMigration(v)
    BY <2>2 DEF ExecuteMigration, RecordMigration
  <2>3. CASE CommitMigration
    <3>1. PICK v \in FirstOf(missing) : transaction = [made |-> {v}, recorded |-> {v}]
      BY <2>3 DEF LaunchInv, CommitMigration, TransactionIsOf
    <3>2. v \in UNION {1..r : r \in Releases}
      BY DEF FirstOf
    <3> QED
      BY <2>3, <3>1, <3>2 DEF CommitMigration
  <2>4. CASE MigrationFails \/ ShowScreens \/ ResumeFails
    BY <2>4 DEF MigrationFails, Rejects, ShowScreens, ResumeFails
  <2>5. ASSUME NEW r \in Releases, Relaunch(r) PROVE LaunchTypeOK'
    BY <2>5, LaunchBounds DEF Relaunch
  <2>6. CASE UNCHANGED launchVars
    BY <2>6 DEF launchVars
  <2> QED
    BY <2>1, <2>2, <2>3, <2>4, <2>5, <2>6 DEF LaunchNext
<1> QED
  BY <1>1, <1>2, LaunchInitInv, LaunchStep, PTL DEF LaunchSpec

-----------------------------------------------------------------------------
(* The encrypted backup. *)

\* The dialog a call belongs to.
DialogOf(call) ==
  CASE call = "prepare" -> "export"
    [] call \in {"archive", "encrypt"} -> "backup"
    [] call \in {"restore", "retain"} -> "restore"
    [] OTHER -> "delete"

\* While a call is awaited its dialog stays, with the key it was given, unless
\* the screen has left; a prepared key is shown as it is.
IsSound(s) ==
  /\ s \in Dialog
  /\ s.mounted /\ s.call # "none" => s.open = DialogOf(s.call)
  /\ s.mounted /\ s.call \notin {"none", "delete"} => s.status = "exporting"
  /\ ~s.mounted => s.open = "none"
  /\ s.call \in {"archive", "encrypt"} \/ s.open = "backup" => s.key = s.shown /\ s.shown \in Keys
  /\ s.call \in {"restore", "retain"} => s.opened \in Keys
  /\ ~hasStore => s.call \notin {"prepare", "retain"}

\* The manager has a key in its hand while it saves it, and its store has one
\* only if there is a store.
KeysAreSound ==
  /\ hasStore \in BOOLEAN
  /\ kept \in Keys \cup {NoKey}
  /\ generated \subseteq Keys
  /\ flight \in [at : {"none", "get", "generate", "save"}, key : Keys \cup {NoKey},
                 awaits : SUBSET Lists]
  /\ flight.at = "none" => flight = Idle
  /\ flight.at = "save" => flight.key \in Keys
  /\ ~hasStore => kept = NoKey /\ flight = Idle

SheetsAreSound ==
  /\ sheet \in [Lists -> Dialog]
  /\ \A l \in Lists : IsSound(sheet[l])
  /\ \A l, m \in Lists : sheet[l].mounted /\ sheet[m].mounted => l = m
  /\ \A l \in flight.awaits : sheet[l].call = "prepare"

\* What was delivered was sealed with the key that was shown.
SealedWithShown ==
  \A b \in backups :
    /\ b.shown \in Keys
    /\ \E n \in PlainSizes :
         CanSeal(n, HeaderSize) /\ b.envelope = Sealed(n, HeaderSize, b.shown)

BackupInv == KeysAreSound /\ SheetsAreSound /\ SealedWithShown

\* There is no screen, no key and no backup.
LEMMA BackupInitInv == BackupInit => BackupInv
<1> SUFFICES ASSUME BackupInit PROVE BackupInv
  OBVIOUS
<1>1. Unmounted \in Dialog /\ IsSound(Unmounted)
  BY DEF Unmounted, Dialog, IsSound
<1> QED
  BY <1>1 DEF BackupInit, BackupInv, KeysAreSound, SheetsAreSound, SealedWithShown, Idle, Unmounted

\* A step of one screen is sound if what it shows next is: no other screen
\* has what it has in its hand.
LEMMA SheetStep ==
  ASSUME BackupInv, NEW l \in Lists, NEW next, Shows(l, next), KeysAreSound', IsSound(next),
         next.mounted => sheet[l].mounted \/ \A m \in Lists : ~sheet[m].mounted,
         \A m \in flight'.awaits : m \in flight.awaits \/ m = l,
         l \in flight'.awaits => next.call = "prepare"
  PROVE  BackupInv'
<1>1. UNCHANGED <<hasStore, backups>> /\ sheet' = [sheet EXCEPT ![l] = next]
  BY DEF Shows
<1>2. next \in Dialog
  BY DEF IsSound
<1>3. sheet' \in [Lists -> Dialog] /\ \A m \in Lists : sheet'[m] = IF m = l THEN next ELSE sheet[m]
  BY <1>1, <1>2 DEF BackupInv, SheetsAreSound
<1>4. \A m \in Lists : IsSound(sheet[m])' <=> IF m = l THEN IsSound(next) ELSE IsSound(sheet[m])
  BY <1>1, <1>3 DEF IsSound
<1>5. SheetsAreSound'
  BY <1>3, <1>4 DEF BackupInv, SheetsAreSound, KeysAreSound
<1>6. SealedWithShown'
  BY <1>1 DEF BackupInv, SealedWithShown
<1> QED
  BY <1>5, <1>6 DEF BackupInv

\* The end of a call on a screen that is gone leaves nothing of it.
LEMMA AfterIsSound ==
  ASSUME NEW l \in Lists, NEW next,
         sheet[l].mounted => IsSound([next EXCEPT !.call = "none"]) /\ next.mounted
  PROVE  /\ IsSound(After(l, next))
         /\ After(l, next).mounted => sheet[l].mounted
         /\ After(l, next).call = "none"
<1>1. IsSound(Unmounted) /\ Unmounted.call = "none" /\ ~Unmounted.mounted
  BY DEF Unmounted, Dialog, IsSound
<1>2. sheet[l].mounted => [next EXCEPT !.call = "none"].call = "none"
  BY DEF IsSound, Dialog
<1> QED
  BY <1>1, <1>2 DEF After

\* What the user does with the dialogs leaves the keys and their manager alone.
LEMMA DialogStep ==
  ASSUME BackupInv, NEW l \in Lists,
         \/ MountList(l) \/ LeaveList(l) \/ OpenExport(l) \/ CloseDialog(l)
         \/ \E d \in {"restore", "delete"} : OpenAnother(l, d)
         \/ StartCreate(l) \/ BuildArchive(l) \/ StartDelete(l)
  PROVE  BackupInv'
<1> DEFINE s == sheet[l]
<1>1. IsSound(s) /\ s \in Dialog /\ (l \in flight.awaits => s.call = "prepare")
  BY DEF BackupInv, SheetsAreSound
<1> HIDE DEF s
<1>2. KeepsKeys /\ hasStore' = hasStore => KeysAreSound' /\ flight' = flight
  BY DEF KeepsKeys, BackupInv, KeysAreSound
<1>3. ASSUME NEW next, Shows(l, next), KeepsKeys, IsSound(next),
             next.mounted => s.mounted \/ \A m \in Lists : ~sheet[m].mounted,
             s.call = "prepare" => next.call = "prepare"
      PROVE  BackupInv'
  <2>1. hasStore' = hasStore
    BY <1>3 DEF Shows
  <2>2. KeysAreSound' /\ flight' = flight
    BY <1>2, <1>3, <2>1
  <2> QED
    BY <1>1, <1>3, <2>2, SheetStep DEF s
<1>4. CASE MountList(l)
  <2>1. IsSound([Unmounted EXCEPT !.mounted = TRUE])
    BY DEF Unmounted, Dialog, IsSound
  <2>2. s.call # "prepare"
    BY <1>4 DEF MountList, Unmounted, s
  <2> QED
    BY <1>3, <1>4, <2>1, <2>2 DEF MountList
<1>5. CASE LeaveList(l)
  <2> DEFINE next == IF s.call = "none" THEN Unmounted
                     ELSE [s EXCEPT !.mounted = FALSE, !.open = "none"]
  <2>1. IsSound(next) /\ ~next.mounted /\ (s.call = "prepare" => next.call = "prepare")
    BY <1>1 DEF Unmounted, Dialog, IsSound
  <2>2. Shows(l, next) /\ KeepsKeys
    BY <1>5 DEF LeaveList, s
  <2> HIDE DEF next
  <2> QED
    BY <1>3, <2>1, <2>2
<1>6. CASE OpenExport(l)
  <2> DEFINE next == [s EXCEPT !.open = "export", !.status = "idle"]
  <2>1. s.mounted /\ s.open = "none"
    BY <1>6 DEF OpenExport, s
  <2>2. s.call = "none"
    BY <1>1, <2>1 DEF IsSound, DialogOf
  <2>3. IsSound(next) /\ next.call = "none"
    BY <1>1, <2>1, <2>2 DEF Dialog, IsSound
  <2>4. Shows(l, next) /\ KeepsKeys
    BY <1>6 DEF OpenExport, s
  <2> HIDE DEF next
  <2> QED
    BY <1>3, <2>1, <2>2, <2>3, <2>4
<1>7. CASE CloseDialog(l)
  <2> DEFINE next == [s EXCEPT !.open = "none", !.status = "idle",
                        !.key = IF s.open = "backup" THEN NoKey ELSE @, !.shown = NoKey]
  <2>1. s.call = "none" /\ s.open # "none"
    BY <1>7 DEF CloseDialog, s
  <2>2. IsSound(next) /\ next.mounted = s.mounted
    BY <1>1, <2>1 DEF Dialog, IsSound
  <2>3. Shows(l, next) /\ KeepsKeys
    BY <1>7 DEF CloseDialog, s
  <2> HIDE DEF next
  <2> QED
    BY <1>3, <2>1, <2>2, <2>3
<1>8. ASSUME NEW d \in {"restore", "delete"}, OpenAnother(l, d) PROVE BackupInv'
  <2> DEFINE next == [s EXCEPT !.open = d, !.status = "idle"]
  <2>1. s.open = "export" /\ s.status # "exporting"
    BY <1>8 DEF OpenAnother, s
  <2>2. s.mounted /\ s.call = "none"
    BY <1>1, <2>1 DEF IsSound, DialogOf, Dialog
  <2>3. IsSound(next) /\ next.call = "none"
    BY <1>1, <2>2 DEF Dialog, IsSound
  <2>4. Shows(l, next) /\ KeepsKeys
    BY <1>8 DEF OpenAnother, s
  <2> HIDE DEF next
  <2> QED
    BY <1>3, <2>2, <2>3, <2>4
<1>9. CASE StartCreate(l)
  <2> DEFINE next == [s EXCEPT !.status = "exporting", !.call = "archive"]
  <2>1. s.open = "backup" /\ s.call = "none"
    BY <1>9 DEF StartCreate, Starts, s
  <2>2. IsSound(next) /\ s.mounted
    BY <1>1, <2>1 DEF Dialog, IsSound, DialogOf
  <2>3. Shows(l, next) /\ KeepsKeys
    BY <1>9 DEF StartCreate, Starts, s
  <2> HIDE DEF next
  <2> QED
    BY <1>3, <2>1, <2>2, <2>3
<1>10. CASE BuildArchive(l)
  <2> DEFINE next == [s EXCEPT !.call = "encrypt"]
  <2>1. s.call = "archive"
    BY <1>10 DEF BuildArchive, s
  <2>2. IsSound(next) /\ next.mounted = s.mounted
    BY <1>1, <2>1 DEF Dialog, IsSound, DialogOf
  <2>3. Shows(l, next) /\ KeepsKeys
    BY <1>10 DEF BuildArchive, s
  <2> HIDE DEF next
  <2> QED
    BY <1>3, <2>1, <2>2, <2>3
<1>11. CASE StartDelete(l)
  <2> DEFINE next == [s EXCEPT !.call = "delete"]
  <2>1. s.open = "delete" /\ s.call = "none"
    BY <1>11 DEF StartDelete, s
  <2>2. IsSound(next) /\ s.mounted
    BY <1>1, <2>1 DEF Dialog, IsSound, DialogOf
  <2>3. Shows(l, next) /\ KeepsKeys
    BY <1>11 DEF StartDelete, s
  <2> HIDE DEF next
  <2> QED
    BY <1>3, <2>1, <2>2, <2>3
<1> QED
  BY <1>4, <1>5, <1>6, <1>7, <1>8, <1>9, <1>10, <1>11

\* The calls of a restore, and the end of a call that fails.
LEMMA CallStep ==
  ASSUME BackupInv, NEW l \in Lists,
         \/ CallFails(l) \/ RestoreData(l)
         \/ \E e, k : k \in Keys /\ (StartRestoreBackup(l, e, k) \/ RefuseRestore(l, e, k))
  PROVE  BackupInv'
<1> DEFINE s == sheet[l]
<1>1. IsSound(s) /\ s \in Dialog /\ (l \in flight.awaits => s.call = "prepare")
  BY DEF BackupInv, SheetsAreSound
<1> HIDE DEF s
<1>2. ASSUME NEW next, Shows(l, next), KeepsKeys, IsSound(next), next.mounted => s.mounted,
             s.call # "prepare"
      PROVE  BackupInv'
  <2>1. KeysAreSound' /\ flight' = flight
    BY <1>2 DEF Shows, KeepsKeys, BackupInv, KeysAreSound
  <2> QED
    BY <1>1, <1>2, <2>1, SheetStep DEF s
<1>3. CASE CallFails(l)
  <2> DEFINE next == [s EXCEPT !.status = "error", !.opened = NoKey]
  <2>1. s.call \in {"archive", "encrypt", "restore", "delete"}
    BY <1>3 DEF CallFails, s
  <2>2. IsSound([next EXCEPT !.call = "none"]) /\ (s.mounted => next.mounted)
    BY <1>1, <2>1 DEF Dialog, IsSound
  <2>3. Shows(l, After(l, next)) /\ KeepsKeys
    BY <1>3 DEF CallFails, s
  <2> HIDE DEF next
  <2>4. IsSound(After(l, next)) /\ (After(l, next).mounted => s.mounted)
    BY <1>1, <2>2, AfterIsSound DEF s
  <2> QED
    BY <1>2, <2>1, <2>3, <2>4
<1>4. CASE RestoreData(l)
  <2> DEFINE next == [s EXCEPT !.open = "none", !.status = "success", !.opened = NoKey]
  <2>1. s.call = "restore" /\ KeepsKeys
    BY <1>4 DEF RestoreData, s
  <2>2. CASE hasStore
    <3>1. IsSound([s EXCEPT !.call = "retain"]) /\ [s EXCEPT !.call = "retain"].mounted = s.mounted
      BY <1>1, <2>1, <2>2 DEF Dialog, IsSound, DialogOf
    <3>2. Shows(l, [s EXCEPT !.call = "retain"])
      BY <1>4, <2>2 DEF RestoreData, s
    <3> QED
      BY <1>2, <2>1, <3>1, <3>2
  <2>3. CASE ~hasStore
    <3>1. IsSound([next EXCEPT !.call = "none"]) /\ (s.mounted => next.mounted)
      BY <1>1, <2>1 DEF Dialog, IsSound
    <3>2. Shows(l, After(l, next))
      BY <1>4, <2>3 DEF RestoreData, s
    <3> HIDE DEF next
    <3>3. IsSound(After(l, next)) /\ (After(l, next).mounted => s.mounted)
      BY <1>1, <3>1, AfterIsSound DEF s
    <3> QED
      BY <1>2, <2>1, <3>2, <3>3
  <2> QED
    BY <2>2, <2>3
<1>5. ASSUME NEW e, NEW k \in Keys, StartRestoreBackup(l, e, k) PROVE BackupInv'
  <2> DEFINE next == [s EXCEPT !.status = "exporting", !.call = "restore", !.opened = k]
  <2>1. s.open = "restore" /\ s.status # "exporting"
    BY <1>5 DEF StartRestoreBackup, s
  <2>2. s.mounted /\ s.call = "none"
    BY <1>1, <2>1 DEF IsSound, DialogOf, Dialog
  <2>3. IsSound(next)
    BY <1>1, <2>1, <2>2 DEF Dialog, IsSound, DialogOf
  <2>4. Shows(l, next) /\ KeepsKeys
    BY <1>5 DEF StartRestoreBackup, s
  <2> HIDE DEF next
  <2> QED
    BY <1>2, <2>2, <2>3, <2>4
<1>6. ASSUME NEW e, NEW k \in Keys, RefuseRestore(l, e, k) PROVE BackupInv'
  <2> DEFINE next == [s EXCEPT !.status = "error"]
  <2>1. s.open = "restore" /\ s.status # "exporting"
    BY <1>6 DEF RefuseRestore, s
  <2>2. s.mounted /\ s.call = "none"
    BY <1>1, <2>1 DEF IsSound, DialogOf, Dialog
  <2>3. IsSound(next)
    BY <1>1, <2>1, <2>2 DEF Dialog, IsSound
  <2>4. Shows(l, next) /\ KeepsKeys
    BY <1>6 DEF RefuseRestore, s
  <2> HIDE DEF next
  <2> QED
    BY <1>2, <2>2, <2>3, <2>4
<1> QED
  BY <1>3, <1>4, <1>5, <1>6

\* A screen asks for a key, or gets one of its own where there is no store.
LEMMA AskStep ==
  ASSUME BackupInv, NEW l \in Lists, StartPrepare(l) \/ \E k \in Keys : PrepareOnWeb(l, k)
  PROVE  BackupInv'
<1> DEFINE s == sheet[l]
<1>1. IsSound(s) /\ s \in Dialog /\ (l \in flight.awaits => s.call = "prepare")
  BY DEF BackupInv, SheetsAreSound
<1> HIDE DEF s
<1>2. CASE StartPrepare(l)
  <2> DEFINE next == [s EXCEPT !.status = "exporting", !.call = "prepare"]
  <2>1. s.open = "export" /\ s.call = "none" /\ hasStore
    BY <1>2 DEF StartPrepare, Starts, s
  <2>2. s.mounted /\ IsSound(next) /\ next.call = "prepare"
    BY <1>1, <2>1 DEF Dialog, IsSound, DialogOf
  <2>3. Shows(l, next)
    BY <1>2 DEF StartPrepare, Starts, s
  <2>4. KeysAreSound' /\ \A m \in flight'.awaits : m \in flight.awaits \/ m = l
    BY <1>2, <2>1 DEF StartPrepare, Starts, Shows, BackupInv, KeysAreSound, Idle
  <2> HIDE DEF next
  <2> QED
    BY <2>2, <2>3, <2>4, SheetStep DEF s
<1>3. ASSUME NEW k \in Keys, PrepareOnWeb(l, k) PROVE BackupInv'
  <2> DEFINE next == [s EXCEPT !.status = "idle", !.open = "backup", !.key = k, !.shown = k]
  <2>1. s.open = "export" /\ s.status # "exporting" /\ ~hasStore
    BY <1>3 DEF PrepareOnWeb, s
  <2>2. s.mounted /\ s.call = "none"
    BY <1>1, <2>1 DEF IsSound, DialogOf, Dialog
  <2>3. IsSound(next)
    BY <1>1, <2>2 DEF Dialog, IsSound
  <2>4. Shows(l, next) /\ flight' = flight /\ KeysAreSound'
    BY <1>3 DEF PrepareOnWeb, Shows, BackupInv, KeysAreSound, s
  <2> HIDE DEF next
  <2> QED
    BY <1>1, <2>2, <2>3, <2>4, SheetStep DEF s
<1> QED
  BY <1>2, <1>3

\* The store is given a recovered key, or loses its own.
LEMMA StoreStep ==
  ASSUME BackupInv, NEW l \in Lists, RetainKey(l) \/ DeleteKey(l)
  PROVE  BackupInv'
<1> DEFINE s == sheet[l]
<1>1. IsSound(s) /\ s \in Dialog /\ (l \in flight.awaits => s.call = "prepare")
  BY DEF BackupInv, SheetsAreSound
<1> HIDE DEF s
<1>2. ASSUME NEW next, Shows(l, After(l, next)), IsSound([next EXCEPT !.call = "none"]),
             s.mounted => next.mounted, s.call # "prepare", kept' \in Keys \cup {NoKey},
             ~hasStore => kept' = NoKey, UNCHANGED <<generated, flight>>
      PROVE  BackupInv'
  <2>1. IsSound(After(l, next)) /\ (After(l, next).mounted => s.mounted)
    BY <1>1, <1>2, AfterIsSound DEF s
  <2>2. KeysAreSound'
    BY <1>2 DEF Shows, BackupInv, KeysAreSound
  <2> QED
    BY <1>1, <1>2, <2>1, <2>2, SheetStep DEF s
<1>3. CASE RetainKey(l)
  <2> DEFINE next == [s EXCEPT !.open = "none", !.status = "success", !.opened = NoKey]
  <2>1. s.call = "retain" /\ s.opened \in Keys /\ hasStore
    BY <1>1, <1>3 DEF RetainKey, IsSound, s
  <2>2. IsSound([next EXCEPT !.call = "none"]) /\ (s.mounted => next.mounted)
    BY <1>1, <2>1 DEF Dialog, IsSound
  <2>3. Shows(l, After(l, next)) /\ kept' \in {kept, s.opened} /\ UNCHANGED <<generated, flight>>
    BY <1>3 DEF RetainKey, s
  <2>4. kept' \in Keys \cup {NoKey}
    BY <2>1, <2>3 DEF BackupInv, KeysAreSound
  <2> HIDE DEF next
  <2> QED
    BY <1>2, <2>1, <2>2, <2>3, <2>4
<1>4. CASE DeleteKey(l)
  <2> DEFINE next == [s EXCEPT !.open = "none", !.status = "success"]
  <2>1. s.call = "delete"
    BY <1>4 DEF DeleteKey, s
  <2>2. IsSound([next EXCEPT !.call = "none"]) /\ (s.mounted => next.mounted)
    BY <1>1, <2>1 DEF Dialog, IsSound
  <2>3. Shows(l, After(l, next)) /\ kept' = NoKey /\ UNCHANGED <<generated, flight>>
    BY <1>4 DEF DeleteKey, s
  <2> HIDE DEF next
  <2> QED
    BY <1>2, <2>1, <2>2, <2>3
<1> QED
  BY <1>3, <1>4

\* The key is sealed with what the screen has shown since it was prepared.
LEMMA DeliverStep ==
  ASSUME BackupInv, NEW l \in Lists, NEW n \in PlainSizes, DeliverBackup(l, n)
  PROVE  BackupInv'
<1> DEFINE s == sheet[l]
           next == [s EXCEPT !.open = "none", !.status = "success", !.key = NoKey, !.shown = NoKey]
<1>1. IsSound(s) /\ s \in Dialog /\ (l \in flight.awaits => s.call = "prepare")
  BY DEF BackupInv, SheetsAreSound
<1>2. s.call = "encrypt" /\ CanSeal(n, HeaderSize)
  BY DEF DeliverBackup
<1>3. IsSound([next EXCEPT !.call = "none"]) /\ (s.mounted => next.mounted)
  BY <1>1, <1>2 DEF Dialog, IsSound
<1>4. sheet' = [sheet EXCEPT ![l] = After(l, next)] /\ UNCHANGED <<hasStore, kept, generated, flight>>
  BY DEF DeliverBackup, BackupInv, SheetsAreSound
<1>5. backups' = backups \cup {[envelope |-> Sealed(n, HeaderSize, s.key), shown |-> s.shown]}
  BY DEF DeliverBackup
<1>6. s.key = s.shown /\ s.shown \in Keys
  BY <1>1, <1>2 DEF IsSound
<1> HIDE DEF s, next
<1>7. SealedWithShown'
  BY <1>2, <1>5, <1>6 DEF BackupInv, SealedWithShown
<1> DEFINE after == After(l, next)
<1>8. IsSound(after) /\ (after.mounted => s.mounted) /\ after.call = "none"
  BY <1>1, <1>3, AfterIsSound DEF s
<1>9. after \in Dialog
  BY <1>8 DEF IsSound
<1> HIDE DEF after
<1>10. sheet' \in [Lists -> Dialog] /\ \A m \in Lists : sheet'[m] = IF m = l THEN after ELSE sheet[m]
  BY <1>4, <1>9 DEF BackupInv, SheetsAreSound, after
<1>11. \A m \in Lists : IsSound(sheet[m])'
  BY <1>4, <1>8, <1>10 DEF BackupInv, SheetsAreSound, IsSound
<1>12. SheetsAreSound'
  BY <1>1, <1>2, <1>4, <1>8, <1>10, <1>11 DEF BackupInv, SheetsAreSound, KeysAreSound, s
<1>13. KeysAreSound'
  BY <1>4 DEF BackupInv, KeysAreSound
<1> QED
  BY <1>7, <1>12, <1>13 DEF BackupInv

\* All who await the manager are told at once.
LEMMA FlightEnds ==
  ASSUME BackupInv, KeysAreSound', flight' = Idle, UNCHANGED <<hasStore, backups>>,
         NEW told, \A l \in flight.awaits : sheet[l].mounted =>
                     IsSound([told[l] EXCEPT !.call = "none"]) /\ told[l].mounted,
         sheet' = [l \in Lists |-> IF l \in flight.awaits THEN After(l, told[l]) ELSE sheet[l]]
  PROVE  BackupInv'
<1>1. ASSUME NEW l \in Lists
      PROVE  IsSound(sheet'[l]) /\ (sheet'[l].mounted => sheet[l].mounted)
  <2>1. IsSound(sheet[l]) /\ sheet[l] \in Dialog /\ (l \in flight.awaits => sheet[l].call = "prepare")
    BY DEF BackupInv, SheetsAreSound
  <2>2. CASE l \in flight.awaits
    <3> DEFINE next == told[l]
    <3>1. sheet[l].mounted => IsSound([next EXCEPT !.call = "none"]) /\ next.mounted
      BY <2>2
    <3>2. sheet'[l] = After(l, next)
      BY <2>2
    <3> HIDE DEF next
    <3> QED
      BY <2>1, <3>1, <3>2, AfterIsSound
  <2>3. CASE l \notin flight.awaits
    BY <2>1, <2>3
  <2> QED
    BY <2>2, <2>3
<1>2. \A l \in Lists : IsSound(sheet[l])' /\ sheet'[l] \in Dialog
  BY <1>1 DEF IsSound
<1>3. SheetsAreSound'
  BY <1>1, <1>2 DEF BackupInv, SheetsAreSound, Idle
<1>4. SealedWithShown'
  BY DEF BackupInv, SealedWithShown
<1> QED
  BY <1>3, <1>4 DEF BackupInv

\* The manager finds, makes or saves a key, or fails.
LEMMA ManagerStep ==
  ASSUME BackupInv, FindKey \/ SaveKey \/ PrepareFails \/ \E k \in Keys : GenerateKey(k)
  PROVE  BackupInv'
<1> DEFINE prepared(key) == [l \in Lists |->
             [sheet[l] EXCEPT !.status = "idle", !.open = "backup", !.key = key, !.shown = key]]
           failed == [l \in Lists |-> [sheet[l] EXCEPT !.status = "error"]]
<1>a. \A l \in flight.awaits : l \in Lists /\ IsSound(sheet[l]) /\ sheet[l] \in Dialog
  BY DEF BackupInv, KeysAreSound, SheetsAreSound
<1>1. ASSUME NEW key \in Keys, Prepares(key), flight' = Idle, KeysAreSound', UNCHANGED <<hasStore, backups>>
      PROVE  BackupInv'
  <2>1. ASSUME NEW l \in flight.awaits, sheet[l].mounted
        PROVE  IsSound([prepared(key)[l] EXCEPT !.call = "none"]) /\ prepared(key)[l].mounted
    BY <1>a, <1>1, <2>1 DEF Dialog, IsSound
  <2>2. sheet' = [l \in Lists |->
          IF l \in flight.awaits THEN After(l, prepared(key)[l]) ELSE sheet[l]]
    BY <1>1 DEF Prepares
  <2> HIDE DEF prepared
  <2> QED
    BY <1>1, <2>1, <2>2, FlightEnds
<1>2. CASE FindKey
  <2>1. CASE kept = NoKey
    <3>1. UNCHANGED <<hasStore, kept, generated, backups, sheet>>
          /\ flight' = [flight EXCEPT !.at = "generate"]
      BY <1>2, <2>1 DEF FindKey
    <3>2. KeysAreSound' /\ flight'.awaits = flight.awaits
      BY <1>2, <3>1 DEF FindKey, BackupInv, KeysAreSound, Idle
    <3> QED
      BY <3>1, <3>2 DEF BackupInv, SheetsAreSound, IsSound, SealedWithShown
  <2>2. CASE kept # NoKey
    <3>1. kept \in Keys /\ Prepares(kept) /\ flight' = Idle /\ UNCHANGED <<hasStore, kept, generated, backups>>
      BY <1>2, <2>2 DEF FindKey, BackupInv, KeysAreSound
    <3>2. KeysAreSound'
      BY <3>1 DEF BackupInv, KeysAreSound, Idle
    <3> QED
      BY <1>1, <3>1, <3>2
  <2> QED
    BY <2>1, <2>2
<1>3. CASE SaveKey
  <2>1. /\ flight.key \in Keys /\ kept' = flight.key /\ Prepares(flight.key) /\ flight' = Idle
        /\ hasStore
        /\ UNCHANGED <<hasStore, generated, backups>>
    BY <1>3 DEF SaveKey, BackupInv, KeysAreSound, Idle
  <2>2. KeysAreSound'
    BY <2>1 DEF BackupInv, KeysAreSound, Idle
  <2> QED
    BY <1>1, <2>1, <2>2
<1>4. CASE PrepareFails
  <2>1. KeysAreSound' /\ flight' = Idle /\ UNCHANGED <<hasStore, backups>>
    BY <1>4 DEF PrepareFails, BackupInv, KeysAreSound, Idle
  <2>2. ASSUME NEW l \in flight.awaits, sheet[l].mounted
        PROVE  IsSound([failed[l] EXCEPT !.call = "none"]) /\ failed[l].mounted
    BY <1>a, <2>2 DEF Dialog, IsSound
  <2>3. sheet' = [l \in Lists |-> IF l \in flight.awaits THEN After(l, failed[l]) ELSE sheet[l]]
    BY <1>4 DEF PrepareFails
  <2> HIDE DEF failed
  <2> QED
    BY <2>1, <2>2, <2>3, FlightEnds
<1>5. ASSUME NEW k \in Keys, GenerateKey(k) PROVE BackupInv'
  <2>1. /\ UNCHANGED <<hasStore, kept, sheet, backups>> /\ generated' = generated \cup {k}
        /\ flight' = [flight EXCEPT !.at = "save", !.key = k] /\ flight.at = "generate"
    BY <1>5 DEF GenerateKey
  <2>2. hasStore
    BY <2>1 DEF BackupInv, KeysAreSound, Idle
  <2>3. flight'.at = "save" /\ flight'.key = k /\ flight'.awaits = flight.awaits
    BY <2>1 DEF BackupInv, KeysAreSound
  <2>4. KeysAreSound'
    BY <2>1, <2>2, <2>3 DEF BackupInv, KeysAreSound
  <2> QED
    BY <2>1, <2>3, <2>4 DEF BackupInv, SheetsAreSound, IsSound, SealedWithShown
<1> QED
  BY <1>2, <1>3, <1>4, <1>5

\* Every step keeps the invariant.
LEMMA BackupStep == BackupInv /\ [BackupNext]_backupVars => BackupInv'
<1> SUFFICES ASSUME BackupInv, [BackupNext]_backupVars PROVE BackupInv'
  OBVIOUS
<1>1. CASE UNCHANGED backupVars
  BY <1>1 DEF backupVars, BackupInv, KeysAreSound, SheetsAreSound, IsSound, SealedWithShown
<1>2. ASSUME NEW l \in Lists, ListNext(l) PROVE BackupInv'
  <2>1. CASE \E n \in PlainSizes : DeliverBackup(l, n)
    BY <2>1, DeliverStep
  <2>2. CASE \E b \in backups : \E e \in {b.envelope} \cup Damaged(b.envelope), k \in Keys :
               StartRestoreBackup(l, e, k) \/ RefuseRestore(l, e, k)
    BY <2>2, CallStep
  <2> QED
    BY <1>2, <2>1, <2>2, DialogStep, CallStep, AskStep, StoreStep DEF ListNext
<1> QED
  BY <1>1, <1>2, ManagerStep DEF BackupNext

\* Whatever the limits allow to seal can be opened, with that key; a change of
\* its sizes does not pass for another envelope.
LEMMA SealedOpens ==
  ASSUME NEW n \in PlainSizes, CanSeal(n, HeaderSize), NEW s \in Keys, NEW k \in Keys
  PROVE  /\ CanOpen(Sealed(n, HeaderSize, s), k) <=> k = s
         /\ \A e \in Damaged(Sealed(n, HeaderSize, s)) : ~CanOpen(e, k)
<1> DEFINE sealed == Sealed(n, HeaderSize, s)
<1>1. n \in Nat /\ HeaderSize \in Nat
  BY SizesAreNatural
<1>2. CanOpen(sealed, k) <=> k = s
  BY <1>1 DEF CanSeal, Sealed, CanOpen, IsEnvelope, EnvelopeSize, FitsLimits, Framing,
     Nonce, Tag, MaxPlaintext, MaxHeader, MaxEnvelope
<1>3. ASSUME NEW e \in Damaged(sealed) PROVE ~CanOpen(e, k)
  <2>1. /\ sealed.size = Framing + HeaderSize + Nonce + n + Tag
        /\ sealed.header = HeaderSize /\ sealed.plain = n
    BY DEF Sealed
  <2>2. \/ e.size = sealed.size - 1 /\ e.header = HeaderSize /\ e.plain = n
        \/ e.size = sealed.size /\ e.header = HeaderSize /\ e.plain = n + 1
        \/ ~e.isWhole
    BY <1>3, <2>1 DEF Damaged, Sealed
  <2> HIDE DEF sealed
  <2> QED
    BY <1>1, <2>1, <2>2 DEF CanOpen, IsEnvelope, EnvelopeSize, Framing, Nonce, Tag
<1> QED
  BY <1>2, <1>3

\* Every screen, call and key stands where its code can stand, however many
\* screens came and went while calls were awaited.
THEOREM BackupTypeCorrect == BackupSpec => []BackupTypeOK
<1>1. BackupInv => BackupTypeOK
  BY DEF BackupInv, KeysAreSound, SheetsAreSound, BackupTypeOK
<1> QED
  BY <1>1, BackupInitInv, BackupStep, PTL DEF BackupSpec

\* A backup that was delivered opens with the recovery key its user was shown
\* and with no other, and damaged with none (createEncryptedBackup, the
\* modal's onClose, openEncryptedBackup).
THEOREM BackupsOpen == BackupSpec => []BackupOpensWithShownKey
<1>1. BackupInv => BackupOpensWithShownKey
  BY SealedOpens DEF BackupInv, SealedWithShown, BackupOpensWithShownKey
<1> QED
  BY <1>1, BackupInitInv, BackupStep, PTL DEF BackupSpec

-----------------------------------------------------------------------------
(* The archive. *)

Bill ==
  [at : {"none", "active", "deleted"}, merchant : Merchants \cup {"none"},
   category : Categories \cup {NoCategory}, tags : SUBSET Tags,
   original : {"none", "stored"}, isRead : BOOLEAN]

\* An active receipt refers to rows that are there, one that was never saved to
\* none, and while the times agree no merchant is newer than the clock.
TableInv ==
  /\ table \in [bill : [Bills -> Bill], merchant : [Merchants -> [created : Nat, updated : Nat]],
                label : SUBSET (Categories \cup Tags)]
  /\ \A b \in Bills : table.bill[b].at = "none" =>
       table.bill[b].category = NoCategory /\ table.bill[b].tags = {}
  /\ \A b \in Live :
       /\ table.bill[b].merchant \in Merchants
       /\ table.bill[b].category \in table.label \cup {NoCategory}
       /\ table.bill[b].tags \subseteq table.label
  /\ clock \in [now : 1..MaxTime, setBack : BOOLEAN, behind : BOOLEAN]
  /\ ~(clock.setBack \/ clock.behind) => \A m \in Merchants :
       /\ table.merchant[m].created <= table.merchant[m].updated
       /\ table.merchant[m].created <= clock.now

\* The files of an archive as it was made.
FilesOf(records, originals) ==
  [p \in RecordPaths \cup originals |->
     IF p \in Bills THEN Bytes(p) ELSE RecordFile(records, originals, p)]

IsSnapshot(records) ==
  /\ records = [receipts |-> records.receipts, merchants |-> records.merchants,
                categories |-> records.categories, tags |-> records.tags,
                links |-> records.links, documents |-> records.documents,
                evidence |-> records.evidence]
  /\ records.documents \subseteq Bills
  /\ AreValid(records)

\* Whatever happens to the file, a manifest that is one tells the truth about
\* the files it still lists.
ManifestIsTrue(records, originals, isComplete) ==
  Has("manifest.json", "manifest") =>
    /\ Manifest = [is |-> "manifest", sha256 |-> Manifest.sha256, isComplete |-> isComplete,
                   schema |-> exported.schema]
    /\ DOMAIN Manifest.sha256 \subseteq RecordPaths \cup originals
    /\ \A p \in DOMAIN Manifest.sha256 : Manifest.sha256[p] = FilesOf(records, originals)[p]

IsFaithfulExport(isComplete) ==
  /\ IsSnapshot(exported.records)
  /\ exported.originals = IF isComplete THEN exported.records.documents ELSE {}
  /\ damage = 0 => zip = Packed(exported.records, exported.originals, isComplete, exported.schema)
  /\ ManifestIsTrue(exported.records, exported.originals, isComplete)

ZipInv ==
  /\ exported.at \in {"none", "refused", "made"}
  /\ DOMAIN zip \subseteq Paths
  /\ damage \in 0..MaxDamage
  /\ exported.at # "made" => parsed = NothingYet /\ damage = 0
  /\ exported.at = "made" => \E isComplete \in BOOLEAN : IsFaithfulExport(isComplete)
  /\ parsed.at \in {"none", "refused", "made"}
  /\ ExportsUnlessTimesDisagree
  /\ ReadsWhatWasExported

ArchiveInv == TableInv /\ ZipInv

\* The tables are empty and nothing was exported.
LEMMA ArchiveInitInv == ArchiveInit => ArchiveInv
<1> SUFFICES ASSUME ArchiveInit PROVE ArchiveInv
  OBVIOUS
<1>1. TableInv
  BY ArchiveBounds DEF ArchiveInit, EmptyTable, TableInv, Bill, NoBill, NoMerchant, Live
<1>2. ZipInv
  BY ArchiveBounds DEF ArchiveInit, ZipInv, NothingYet, ExportsUnlessTimesDisagree,
     ReadsWhatWasExported
<1> QED
  BY <1>1, <1>2 DEF ArchiveInv

\* The row of one receipt is written, the labels stay.
LEMMA BillStep ==
  ASSUME TableInv, NEW b \in Bills, NEW row \in Bill, NEW merchants,
         table' = [table EXCEPT !.bill[b] = row, !.merchant = merchants], UNCHANGED clock,
         row.at = "none" => row.category = NoCategory /\ row.tags = {},
         row.at = "active" => /\ row.merchant \in Merchants
                              /\ row.category \in table.label \cup {NoCategory}
                              /\ row.tags \subseteq table.label,
         merchants \in [Merchants -> [created : Nat, updated : Nat]],
         ~(clock.setBack \/ clock.behind) => \A m \in Merchants :
           merchants[m].created <= merchants[m].updated /\ merchants[m].created <= clock.now
  PROVE  TableInv'
<1>1. /\ table'.bill = [table.bill EXCEPT ![b] = row]
      /\ table'.merchant = merchants /\ table'.label = table.label
      /\ table' = [bill |-> table'.bill, merchant |-> table'.merchant, label |-> table'.label]
  BY DEF TableInv
<1>2. table'.bill \in [Bills -> Bill] /\ \A c \in Bills : table'.bill[c] = IF c = b THEN row ELSE table.bill[c]
  BY <1>1 DEF TableInv
<1>3. table' \in [bill : [Bills -> Bill], merchant : [Merchants -> [created : Nat, updated : Nat]],
                  label : SUBSET (Categories \cup Tags)]
  BY <1>1, <1>2 DEF TableInv
<1> QED
  BY <1>1, <1>2, <1>3 DEF TableInv, Live

\* A restore brings rows that refer to each other; if one of them is newer than
\* the clock, the clock is known to be behind.
LEMMA CleanRestoreStep ==
  ASSUME TableInv, RestoreClean
  PROVE  TableInv'
<1>0. PICK next \in ArchivedTables :
        /\ table' = next
        /\ clock' = [clock EXCEPT !.behind =
                       @ \/ \E m \in Merchants : next.merchant[m].created > clock.now]
  BY DEF RestoreClean
<1>1. /\ next \in [bill : [Bills -> ArchivedBills \cup {NoBill}],
                   merchant : [Merchants -> ArchivedTimes \cup {NoMerchant}],
                   label : SUBSET (Categories \cup Tags)]
      /\ \A b \in Bills : next.bill[b] # NoBill =>
           /\ next.bill[b].category \in next.label \cup {NoCategory}
           /\ next.bill[b].tags \subseteq next.label
  BY DEF ArchivedTables
<1>2. \A row \in ArchivedBills : row \in Bill /\ row.at = "active" /\ row.merchant \in Merchants
  BY DEF ArchivedBills, Bill
<1>3. NoBill \in Bill /\ NoBill.at = "none" /\ NoBill.category = NoCategory /\ NoBill.tags = {}
  BY DEF NoBill, Bill
<1>4. \A t \in ArchivedTimes \cup {NoMerchant} :
        t \in [created : Nat, updated : Nat] /\ t.created <= t.updated
  BY ArchiveBounds DEF ArchivedTimes, NoMerchant
<1>5. /\ table' = next
      /\ clock' \in [now : 1..MaxTime, setBack : BOOLEAN, behind : BOOLEAN]
      /\ ~clock'.setBack /\ ~clock'.behind => \A m \in Merchants : ~(next.merchant[m].created > clock'.now)
  BY <1>0 DEF TableInv
<1>6. next \in [bill : [Bills -> Bill], merchant : [Merchants -> [created : Nat, updated : Nat]],
                label : SUBSET (Categories \cup Tags)]
  BY <1>1, <1>2, <1>3, <1>4
<1>7. \A b \in Bills : next.bill[b] \in ArchivedBills \/ next.bill[b] = NoBill
  BY <1>1
<1>8. \A b \in Live' : /\ b \in Bills /\ next.bill[b] # NoBill
                       /\ next.bill[b].merchant \in Merchants
  BY <1>2, <1>3, <1>5, <1>7 DEF Live
<1>9. ~clock'.setBack /\ ~clock'.behind => \A m \in Merchants :
        next.merchant[m].created <= next.merchant[m].updated /\ next.merchant[m].created <= clock'.now
  <2>1. clock'.now \in Nat
    BY <1>5, ArchiveBounds
  <2>2. \A m \in Merchants : next.merchant[m].created \in Nat
                             /\ next.merchant[m].created <= next.merchant[m].updated
    BY <1>1, <1>4
  <2> QED
    BY <1>5, <2>1, <2>2
<1> QED
  BY <1>1, <1>2, <1>3, <1>5, <1>6, <1>7, <1>8, <1>9 DEF TableInv

\* Every step keeps the tables as they should be.
LEMMA TableStep == TableInv /\ [ArchiveNext]_archiveVars => TableInv'
<1> SUFFICES ASSUME TableInv, [ArchiveNext]_archiveVars PROVE TableInv'
  OBVIOUS
<1>0. CASE RestoreClean
  BY <1>0, CleanRestoreStep
<1>1. \A b \in Bills : table.bill[b] \in Bill
  BY DEF TableInv
<1>2. ASSUME NEW b \in Bills, NEW m \in Merchants, SaveBill(b, m) PROVE TableInv'
  <2> DEFINE row == [table.bill[b] EXCEPT !.at = "active", !.merchant = m]
  <2>1. row \in Bill /\ row.at = "active" /\ row.merchant = m
        /\ row.category = table.bill[b].category /\ row.tags = table.bill[b].tags
    BY <1>1 DEF Bill
  <2>2. table' = [table EXCEPT !.bill[b] = row, !.merchant = Upserted(m)] /\ UNCHANGED clock
    BY <1>2 DEF SaveBill, Changes, TableInv
  <2>3. table.bill[b].at \in {"none", "active"}
    BY <1>1, <1>2 DEF SaveBill, Bill
  <2>4. row.category \in table.label \cup {NoCategory} /\ row.tags \subseteq table.label
    BY <2>1, <2>3 DEF TableInv, Live
  <2>5. Upserted(m) \in [Merchants -> [created : Nat, updated : Nat]]
    BY DEF Upserted, TableInv
  <2>6. ~(clock.setBack \/ clock.behind) => \A n \in Merchants :
          Upserted(m)[n].created <= Upserted(m)[n].updated /\ Upserted(m)[n].created <= clock.now
    BY DEF Upserted, TableInv
  <2> HIDE DEF row
  <2> QED
    BY <2>1, <2>2, <2>4, <2>5, <2>6, BillStep
<1>3. ASSUME NEW b \in Live, NEW row \in Bill, row.at \in {"active", "deleted"},
             table' = [table EXCEPT !.bill[b] = row], UNCHANGED clock,
             row.merchant = table.bill[b].merchant,
             row.category \in table.label \cup {NoCategory}, row.tags \subseteq table.label
      PROVE  TableInv'
  <2>1. table' = [table EXCEPT !.bill[b] = row, !.merchant = table.merchant]
    BY <1>3 DEF TableInv
  <2>2. b \in Bills /\ row.merchant \in Merchants
    BY <1>3 DEF TableInv, Live
  <2>3. /\ table.merchant \in [Merchants -> [created : Nat, updated : Nat]]
        /\ ~(clock.setBack \/ clock.behind) => \A m \in Merchants :
             /\ table.merchant[m].created <= table.merchant[m].updated
             /\ table.merchant[m].created <= clock.now
    BY DEF TableInv
  <2>4. row.at # "none"
    BY <1>3
  <2>5. UNCHANGED clock /\ row.category \in table.label \cup {NoCategory}
        /\ row.tags \subseteq table.label
    BY <1>3
  <2> QED
    BY <2>1, <2>2, <2>3, <2>4, <2>5, BillStep
<1>4. \A b \in Live : /\ b \in Bills
                      /\ table.bill[b].category \in table.label \cup {NoCategory}
                      /\ table.bill[b].tags \subseteq table.label
  BY DEF TableInv, Live
<1>5. ASSUME NEW b \in Bills, CaptureBill(b) PROVE TableInv'
  <2> DEFINE row == [table.bill[b] EXCEPT !.original = "stored", !.isRead = TRUE]
  <2>1. b \in Live /\ table' = [table EXCEPT !.bill[b] = row] /\ UNCHANGED clock
    BY <1>5 DEF CaptureBill, Changes, TableInv
  <2>2. row \in Bill /\ row.at = "active" /\ row.merchant = table.bill[b].merchant
        /\ row.category = table.bill[b].category /\ row.tags = table.bill[b].tags
    BY <1>1, <2>1 DEF Bill, Live
  <2> HIDE DEF row
  <2> QED
    BY <1>3, <1>4, <2>1, <2>2
<1>6. ASSUME NEW b \in Bills, DropBill(b) PROVE TableInv'
  <2> DEFINE row == [table.bill[b] EXCEPT !.at = "deleted"]
  <2>1. b \in Live /\ table' = [table EXCEPT !.bill[b] = row] /\ UNCHANGED clock
    BY <1>6 DEF DropBill, Changes, TableInv
  <2>2. row \in Bill /\ row.at = "deleted" /\ row.merchant = table.bill[b].merchant
        /\ row.category = table.bill[b].category /\ row.tags = table.bill[b].tags
    BY <1>1, <2>1 DEF Bill, Live
  <2> HIDE DEF row
  <2> QED
    BY <1>3, <1>4, <2>1, <2>2
<1>7. ASSUME NEW b \in Bills, NEW c \in Categories \cup {NoCategory}, NEW ts \in SUBSET Tags,
             AssignBill(b, c, ts)
      PROVE  TableInv'
  <2> DEFINE row == [table.bill[b] EXCEPT !.category = c, !.tags = ts]
  <2>1. b \in Live /\ table' = [table EXCEPT !.bill[b] = row] /\ UNCHANGED clock
        /\ c \in table.label \cup {NoCategory} /\ ts \subseteq table.label
    BY <1>7 DEF AssignBill, Changes, TableInv
  <2>2. row \in Bill /\ row.at = "active" /\ row.merchant = table.bill[b].merchant
        /\ row.category = c /\ row.tags = ts
    BY <1>1, <2>1 DEF Bill, Live
  <2> HIDE DEF row
  <2> QED
    BY <1>3, <2>1, <2>2
<1>8. ASSUME NEW l \in Categories \cup Tags, AddLabel(l) PROVE TableInv'
  <2>1. UNCHANGED clock /\ table'.bill = table.bill /\ table'.merchant = table.merchant
        /\ table'.label = table.label \cup {l} /\ table' \in
             [bill : [Bills -> Bill], merchant : [Merchants -> [created : Nat, updated : Nat]],
              label : SUBSET (Categories \cup Tags)]
    BY <1>8 DEF AddLabel, Changes, TableInv
  <2> QED
    BY <2>1 DEF TableInv, Live
<1>9. ASSUME NEW l \in Categories \cup Tags, DropLabel(l) PROVE TableInv'
  <2>1. UNCHANGED clock /\ table'.bill = table.bill /\ table'.merchant = table.merchant
        /\ table'.label = table.label \ {l} /\ table' \in
             [bill : [Bills -> Bill], merchant : [Merchants -> [created : Nat, updated : Nat]],
              label : SUBSET (Categories \cup Tags)]
    BY <1>9 DEF DropLabel, Changes, TableInv
  <2>2. \A b \in Live : table.bill[b].category # l /\ l \notin table.bill[b].tags
    BY <1>9 DEF DropLabel
  <2> QED
    BY <2>1, <2>2 DEF TableInv, Live
<1>10. CASE TimePasses
  <2>1. PICK t \in 1..MaxTime :
          clock' = [now |-> t, setBack |-> clock.setBack \/ t < clock.now, behind |-> clock.behind]
    BY <1>10 DEF TimePasses
  <2>2. t \in Nat /\ clock.now \in Nat /\ MaxTime \in Nat
    BY ArchiveBounds DEF TableInv
  <2>3. /\ clock'.now = t /\ clock'.setBack = (clock.setBack \/ t < clock.now)
        /\ clock'.behind = clock.behind
    BY <2>1 DEF TableInv
  <2>4. clock' \in [now : 1..MaxTime, setBack : BOOLEAN, behind : BOOLEAN]
    BY <2>1 DEF TableInv
  <2>5. UNCHANGED table
    BY <1>10 DEF TimePasses
  <2>6. ASSUME ~clock'.setBack /\ ~clock'.behind, NEW m \in Merchants
        PROVE  /\ table.merchant[m].created <= table.merchant[m].updated
               /\ table.merchant[m].created <= clock'.now
    <3>1. ~clock.setBack /\ ~clock.behind /\ ~(t < clock.now)
      BY <2>3, <2>6
    <3>2. clock.now <= t
      BY <2>2, <3>1
    <3>3. /\ table.merchant[m].created <= table.merchant[m].updated
          /\ table.merchant[m].created <= clock.now
          /\ table.merchant[m].created \in Nat
      BY <3>1 DEF TableInv
    <3> QED
      BY <2>2, <2>3, <3>2, <3>3
  <2> QED
    BY <2>4, <2>5, <2>6 DEF TableInv, Live
<1>11. (UNCHANGED <<table, clock>>) => TableInv'
  BY DEF TableInv, Live
<1>12. CASE \/ UNCHANGED archiveVars \/ RefuseExport \/ ParseExport
            \/ \E isComplete \in BOOLEAN, schema \in Schemas : CreateExport(isComplete, schema)
            \/ \E p \in Paths : LoseFile(p) \/ MixUpFile(p) \/ SpoilFile(p) \/ ForgetFile(p)
  BY <1>11, <1>12 DEF archiveVars, RefuseExport, ParseExport, CreateExport, LoseFile, MixUpFile,
     SpoilFile, ForgetFile, Damages
<1> QED
  BY <1>0, <1>2, <1>5, <1>6, <1>7, <1>8, <1>9, <1>10, <1>12 DEF ArchiveNext

\* While the clock goes on, no row refuses an export; and a snapshot is the
\* record that an archive is made of.
LEMMA SnapshotIsValid ==
  ASSUME TableInv
  PROVE  /\ ~(clock.setBack \/ clock.behind) => AreValid(Snapshot)
         /\ AreValid(Snapshot) => IsSnapshot(Snapshot)
<1>1. /\ Snapshot.receipts = ReceiptRecords /\ Snapshot.merchants = MerchantRecords
      /\ Snapshot.categories = table.label \cap Categories /\ Snapshot.tags = table.label \cap Tags
      /\ Snapshot.links = SnapshotLinks /\ Snapshot.documents = DocumentRecords
      /\ Snapshot.evidence = EvidenceRecords
      /\ Snapshot = [receipts |-> Snapshot.receipts, merchants |-> Snapshot.merchants,
                     categories |-> Snapshot.categories, tags |-> Snapshot.tags,
                     links |-> Snapshot.links, documents |-> Snapshot.documents,
                     evidence |-> Snapshot.evidence]
  BY DEF Snapshot
<1>2. \A b \in Live : /\ b \in Bills
                      /\ table.bill[b].merchant \in Merchants
                      /\ table.bill[b].category \in table.label \cup {NoCategory}
                      /\ table.bill[b].category \in Categories \cup {NoCategory}
                      /\ table.bill[b].tags \subseteq table.label
                      /\ table.bill[b].tags \subseteq Tags
  BY DEF TableInv, Live, Bill
<1>3. Ids(ReceiptRecords) = Live
  <2> DEFINE record(b) == [id |-> b, merchant |-> table.bill[b].merchant,
                           category |-> table.bill[b].category]
  <2>1. \A b \in Live : record(b) \in ReceiptRecords /\ record(b).id = b
    BY DEF ReceiptRecords
  <2>2. \A r \in ReceiptRecords : r.id \in Live
    BY DEF ReceiptRecords
  <2> HIDE DEF record
  <2> QED
    BY <2>1, <2>2 DEF Ids
<1>4. Ids(MerchantRecords) = SnapshotMerchants
  <2> DEFINE record(m) == [id |-> m, time |-> table.merchant[m]]
  <2>1. \A m \in SnapshotMerchants : record(m) \in MerchantRecords /\ record(m).id = m
    BY DEF MerchantRecords
  <2>2. \A r \in MerchantRecords : r.id \in SnapshotMerchants
    BY DEF MerchantRecords
  <2> HIDE DEF record
  <2> QED
    BY <2>1, <2>2 DEF Ids
<1>5. \A r \in ReceiptRecords : /\ r.merchant \in SnapshotMerchants
                                /\ r.category \in (table.label \cap Categories) \cup {NoCategory}
  BY <1>2 DEF ReceiptRecords, SnapshotMerchants
<1>6. ~(clock.setBack \/ clock.behind) => \A m \in MerchantRecords : m.time.created <= m.time.updated
  BY <1>2 DEF TableInv, MerchantRecords, SnapshotMerchants
<1>7. \A link \in SnapshotLinks : link[1] \in Live /\ link[2] \in table.label \cap Tags
  BY DEF SnapshotLinks
<1>8. DocumentRecords \subseteq Live /\ EvidenceRecords \subseteq Live /\ DocumentRecords \subseteq Bills
  BY <1>2 DEF DocumentRecords, EvidenceRecords
<1>9. ~(clock.setBack \/ clock.behind) => AreValid(Snapshot)
  BY <1>1, <1>3, <1>4, <1>5, <1>6, <1>7, <1>8 DEF AreValid
<1> QED
  BY <1>1, <1>8, <1>9 DEF IsSnapshot

\* An archive has its record files, its originals and the two lists of them.
IsPacked(packed, records, originals, isComplete, schema) ==
  /\ DOMAIN packed = RecordPaths \cup originals \cup {"manifest.json", "checksums.txt"}
  /\ \A p \in RecordPaths \cup originals : packed[p] = FilesOf(records, originals)[p]
  /\ packed["manifest.json"] =
       [is |-> "manifest", sha256 |-> FilesOf(records, originals),
        isComplete |-> isComplete, schema |-> schema]
  /\ packed["checksums.txt"] = [is |-> "checksums", sha256 |-> FilesOf(records, originals)]

\* An archive as it is made.
LEMMA PackedHas ==
  ASSUME NEW records, NEW originals, originals \subseteq Bills, NEW isComplete, NEW schema
  PROVE  IsPacked(Packed(records, originals, isComplete, schema),
                  records, originals, isComplete, schema)
<1> DEFINE packed == Packed(records, originals, isComplete, schema)
<1> DEFINE files == FilesOf(records, originals)
           manifest == [is |-> "manifest", sha256 |-> files, isComplete |-> isComplete,
                        schema |-> schema]
           checksums == [is |-> "checksums", sha256 |-> files]
<1>1. packed = [p \in DOMAIN files \cup {"manifest.json", "checksums.txt"} |->
                  CASE p = "manifest.json" -> manifest
                    [] p = "checksums.txt" -> checksums
                    [] OTHER -> files[p]]
  BY DEF Packed, FilesOf
<1>2. DOMAIN files = RecordPaths \cup originals
  BY DEF FilesOf
<1>3. "manifest.json" \notin RecordPaths \cup originals
      /\ "checksums.txt" \notin RecordPaths \cup originals
  BY OriginalsHaveTheirPaths DEF RecordPaths
<1> HIDE DEF files, manifest, checksums, packed
<1>4. /\ DOMAIN packed = DOMAIN files \cup {"manifest.json", "checksums.txt"}
      /\ \A p \in DOMAIN files : packed[p] = files[p]
      /\ packed["manifest.json"] = manifest
      /\ packed["checksums.txt"] = checksums
  BY <1>1, <1>2, <1>3
<1> QED
  BY <1>2, <1>4 DEF IsPacked, files, manifest, checksums, packed

\* No file list of a manifest comes to lie by being shortened, or by what
\* happens to other files.
LEMMA ManifestStaysTrue ==
  ASSUME NEW records, NEW originals, NEW isComplete, ManifestIsTrue(records, originals, isComplete),
         UNCHANGED exported,
         Has("manifest.json", "manifest")' =>
           /\ Has("manifest.json", "manifest")
           /\ \/ Manifest' = Manifest
              \/ \E p \in Paths : Manifest' = [Manifest EXCEPT !.sha256 = Without(@, p)]
  PROVE  ManifestIsTrue(records, originals, isComplete)'
<1> SUFFICES ASSUME Has("manifest.json", "manifest")'
             PROVE  /\ Manifest' = [is |-> "manifest", sha256 |-> Manifest'.sha256,
                                    isComplete |-> isComplete, schema |-> exported.schema]
                    /\ DOMAIN Manifest'.sha256 \subseteq RecordPaths \cup originals
                    /\ \A p \in DOMAIN Manifest'.sha256 :
                         Manifest'.sha256[p] = FilesOf(records, originals)[p]
  BY DEF ManifestIsTrue
<1> DEFINE old == Manifest
           new == Manifest'
<1>1. /\ old = [is |-> "manifest", sha256 |-> old.sha256, isComplete |-> isComplete,
                schema |-> exported.schema]
      /\ DOMAIN old.sha256 \subseteq RecordPaths \cup originals
      /\ \A p \in DOMAIN old.sha256 : old.sha256[p] = FilesOf(records, originals)[p]
  BY DEF ManifestIsTrue
<1>2. new = old \/ \E p \in Paths : new = [old EXCEPT !.sha256 = Without(@, p)]
  OBVIOUS
<1> HIDE DEF old, new
<1>3. ASSUME NEW p \in Paths, new = [old EXCEPT !.sha256 = Without(@, p)]
      PROVE  new = [is |-> "manifest", sha256 |-> Without(old.sha256, p),
                    isComplete |-> isComplete, schema |-> exported.schema]
  BY <1>1, <1>3
<1> DEFINE IsTrue ==
             /\ new = [is |-> "manifest", sha256 |-> new.sha256, isComplete |-> isComplete,
                       schema |-> exported.schema]
             /\ DOMAIN new.sha256 \subseteq RecordPaths \cup originals
             /\ \A p \in DOMAIN new.sha256 : new.sha256[p] = FilesOf(records, originals)[p]
<1>4. IsTrue
  <2>1. CASE new = old
    BY <1>1, <2>1
  <2>2. ASSUME NEW p \in Paths, new = [old EXCEPT !.sha256 = Without(@, p)]
        PROVE  IsTrue
    <3>1. new.sha256 = [q \in DOMAIN old.sha256 \ {p} |-> old.sha256[q]]
      BY <1>3, <2>2 DEF Without
    <3> QED
      BY <1>1, <1>3, <2>2, <3>1
  <2> QED
    BY <1>2, <2>1, <2>2
<1> QED
  BY <1>4 DEF new

\* Something happens to the file.
LEMMA DamageStep ==
  ASSUME ZipInv, NEW p \in Paths, LoseFile(p) \/ MixUpFile(p) \/ SpoilFile(p) \/ ForgetFile(p)
  PROVE  ZipInv'
<1>1. /\ exported.at = "made" /\ damage < MaxDamage /\ damage' = damage + 1
      /\ UNCHANGED <<table, clock, exported, parsed>> /\ parsed.at = "none"
  BY DEF LoseFile, MixUpFile, SpoilFile, ForgetFile, Damages
<1> DEFINE m == "manifest.json"
           Stays == Has(m, "manifest")' =>
             /\ Has(m, "manifest")
             /\ \/ Manifest' = Manifest
                \/ \E q \in Paths : Manifest' = [Manifest EXCEPT !.sha256 = Without(@, q)]
<1>2. DOMAIN zip \subseteq Paths /\ m \in Paths /\ m \notin RecordPaths \cup Bills
      /\ "checksums.txt" # m
  BY OriginalsHaveTheirPaths DEF ZipInv, Paths, RecordPaths
<1>3. ASSUME NEW q \in Paths, NEW file, zip' = [zip EXCEPT ![q] = file], q = m => file.is # "manifest"
      PROVE  DOMAIN zip' \subseteq Paths /\ Stays
  BY <1>2, <1>3 DEF Has, Manifest
<1>4. ASSUME LoseFile(p) PROVE DOMAIN zip' \subseteq Paths /\ Stays
  <2>1. zip' = Without(zip, p)
    BY <1>4 DEF LoseFile, Damages
  <2>2. DOMAIN zip' = DOMAIN zip \ {p} /\ \A q \in DOMAIN zip' : zip'[q] = zip[q]
    BY <2>1 DEF Without
  <2> QED
    BY <1>2, <2>2 DEF Has, Manifest
<1>5. ASSUME SpoilFile(p) PROVE DOMAIN zip' \subseteq Paths /\ Stays
  <2>1. zip' = [zip EXCEPT ![p] = [is |-> "spoiled"]]
    BY <1>5 DEF SpoilFile, Damages
  <2> QED
    BY <1>3, <2>1
<1>6. ASSUME MixUpFile(p) PROVE DOMAIN zip' \subseteq Paths /\ Stays
  <2>1. CASE p \in RecordPaths /\ zip' = [zip EXCEPT ![p] = Rows({})]
    BY <1>2, <1>3, <2>1
  <2>2. ASSUME p \in Bills, NEW b \in Bills,
               zip' = [q \in DOMAIN zip \cup {p} |-> IF q = p THEN Bytes(b) ELSE zip[q]]
        PROVE  DOMAIN zip' \subseteq Paths /\ Stays
    BY <1>2, <2>2 DEF Has, Manifest
  <2> QED
    BY <1>6, <2>1, <2>2 DEF MixUpFile, Damages
<1>7. ASSUME ForgetFile(p) PROVE DOMAIN zip' \subseteq Paths /\ Stays
  <2>1. CASE Has(m, "manifest") /\ zip' = [zip EXCEPT ![m].sha256 = Without(@, p)]
    BY <1>2, <2>1 DEF Has, Manifest
  <2>2. CASE zip' = [zip EXCEPT !["checksums.txt"].sha256 = Without(@, p)]
    BY <1>2, <2>2 DEF Has, Manifest
  <2> QED
    BY <1>7, <2>1, <2>2 DEF ForgetFile, Damages
<1>8. DOMAIN zip' \subseteq Paths /\ Stays
  BY <1>4, <1>5, <1>6, <1>7
<1>9. PICK isComplete \in BOOLEAN : IsFaithfulExport(isComplete)
  BY <1>1 DEF ZipInv
<1>10. ManifestIsTrue(exported.records, exported.originals, isComplete)'
  BY <1>1, <1>8, <1>9, ManifestStaysTrue DEF IsFaithfulExport
<1>11. damage' \in 0..MaxDamage /\ damage' # 0
  BY <1>1, ArchiveBounds DEF ZipInv
<1>12. IsFaithfulExport(isComplete)'
  BY <1>1, <1>9, <1>10, <1>11 DEF IsFaithfulExport
<1>13. ExportsUnlessTimesDisagree' /\ ReadsWhatWasExported'
  BY <1>1 DEF ExportsUnlessTimesDisagree, ReadsWhatWasExported
<1> QED
  BY <1>1, <1>8, <1>11, <1>12, <1>13 DEF ZipInv

\* An export is made, or refused.
LEMMA ExportStep ==
  ASSUME TableInv, ZipInv,
         RefuseExport \/ \E isComplete \in BOOLEAN, schema \in Schemas : CreateExport(isComplete, schema)
  PROVE  ZipInv'
<1>1. exported.at = "none" /\ parsed = NothingYet /\ damage = 0
      /\ UNCHANGED <<clock, damage, parsed>> /\ parsed.at = "none"
  BY DEF ZipInv, RefuseExport, CreateExport, NothingYet
<1>2. ReadsWhatWasExported'
  BY <1>1 DEF ReadsWhatWasExported
<1>3. CASE RefuseExport
  <2>1. exported'.at = "refused" /\ UNCHANGED zip /\ (clock.setBack \/ clock.behind)
    BY <1>3, SnapshotIsValid DEF RefuseExport
  <2> QED
    BY <1>1, <1>2, <2>1 DEF ZipInv, ExportsUnlessTimesDisagree
<1>4. ASSUME NEW isComplete \in BOOLEAN, NEW schema \in Schemas, CreateExport(isComplete, schema)
      PROVE  ZipInv'
  <2>1. PICK records, originals, packed :
          /\ records = Snapshot
          /\ originals = IF isComplete THEN records.documents ELSE {}
          /\ packed = Packed(records, originals, isComplete, schema)
    OBVIOUS
  <2>2. /\ exported' = [at |-> "made", records |-> records, originals |-> originals,
                        schema |-> schema]
        /\ zip' = packed /\ AreValid(records)
    BY <1>4, <2>1 DEF CreateExport
  <2>3. IsSnapshot(records) /\ originals \subseteq Bills
    BY <2>1, <2>2, SnapshotIsValid DEF IsSnapshot
  <2>4. IsPacked(packed, records, originals, isComplete, schema)
    BY <2>1, <2>3, PackedHas
  <2>5. /\ exported'.at = "made" /\ exported'.records = records
        /\ exported'.originals = originals /\ exported'.schema = schema
    BY <2>2
  <2>6. DOMAIN FilesOf(records, originals) = RecordPaths \cup originals
    BY DEF FilesOf
  <2>7. ManifestIsTrue(records, originals, isComplete)'
    BY <2>2, <2>4, <2>5, <2>6 DEF ManifestIsTrue, Has, Manifest, IsPacked
  <2>8. IsFaithfulExport(isComplete)'
    BY <2>1, <2>2, <2>3, <2>5, <2>7 DEF IsFaithfulExport
  <2>9. DOMAIN zip' \subseteq Paths
    BY <2>2, <2>3, <2>4 DEF Paths, IsPacked
  <2> QED
    BY <1>1, <1>2, <2>5, <2>8, <2>9 DEF ZipInv, ExportsUnlessTimesDisagree
<1> QED
  BY <1>3, <1>4

\* The records are read from the files they were written to.
LEMMA RecordsAreRead ==
  ASSUME NEW originals, IsSnapshot(exported.records),
         \A p \in RecordPaths : zip[p] = RecordFile(exported.records, originals, p)
  PROVE  /\ ParsedRecords = exported.records
         /\ RowsOf("receipt-documents.json") =
              {[id |-> b, isIncluded |-> b \in originals] : b \in exported.records.documents}
         /\ Ids(RowsOf("receipt-documents.json")) = exported.records.documents
<1> DEFINE records == exported.records
<1>1. /\ RowsOf("receipts.json") = records.receipts
      /\ RowsOf("merchants.json") = records.merchants
      /\ RowsOf("categories.json") = records.categories
      /\ RowsOf("tags.json") = records.tags
      /\ RowsOf("receipt-tags.json") = records.links
      /\ RowsOf("receipt-documents.json") =
           {[id |-> b, isIncluded |-> b \in originals] : b \in records.documents}
      /\ RowsOf("field-evidence.json") = records.evidence
  BY DEF RowsOf, RecordFile, Rows, RecordPaths
<1>2. Ids(RowsOf("receipt-documents.json")) = records.documents
  <2> DEFINE row(b) == [id |-> b, isIncluded |-> b \in originals]
  <2>1. \A b \in records.documents : row(b) \in RowsOf("receipt-documents.json") /\ row(b).id = b
    BY <1>1
  <2>2. \A r \in RowsOf("receipt-documents.json") : r.id \in records.documents
    BY <1>1
  <2> HIDE DEF row
  <2> QED
    BY <2>1, <2>2 DEF Ids
<1>3. ParsedRecords = records
  BY <1>1, <1>2 DEF ParsedRecords, IsSnapshot
<1> QED
  BY <1>1, <1>2, <1>3

\* No path of an original is that of another file.
LEMMA PathsAreApart ==
  /\ "manifest.json" \notin RecordPaths \cup Bills
  /\ "checksums.txt" \notin RecordPaths \cup Bills
  /\ RecordPaths \cap Bills = {}
BY OriginalsHaveTheirPaths DEF RecordPaths

\* An archive that is accepted has the records and originals that were
\* exported.
LEMMA AcceptedIsExported ==
  ASSUME NEW isComplete \in BOOLEAN, IsFaithfulExport(isComplete), IsAccepted
  PROVE  /\ ParsedRecords = exported.records
         /\ {zip[p].of : p \in DOMAIN zip \cap Bills} = exported.originals
<1> DEFINE records == exported.records
           originals == exported.originals
<1>1. /\ IsSnapshot(records)
      /\ originals = IF isComplete THEN records.documents ELSE {}
      /\ ManifestIsTrue(records, originals, isComplete)
  BY DEF IsFaithfulExport
<1>2. HasItsPaths /\ ListsItsFiles /\ MatchesHashes /\ HasItsOriginals
  BY DEF IsAccepted
<1>3. Has("manifest.json", "manifest")
  BY <1>2 DEF HasItsPaths, Has, Manifest
<1>4. /\ DOMAIN Manifest.sha256 = DOMAIN zip \ {"manifest.json", "checksums.txt"}
      /\ RecordPaths \subseteq DOMAIN zip
      /\ \A p \in DOMAIN Manifest.sha256 : zip[p] = FilesOf(records, originals)[p]
      /\ DOMAIN Manifest.sha256 \subseteq RecordPaths \cup originals
      /\ Manifest.isComplete = isComplete
  BY <1>1, <1>2, <1>3 DEF HasItsPaths, ListsItsFiles, MatchesHashes, ManifestIsTrue
<1> HIDE DEF records, originals
<1>5. /\ "manifest.json" \notin RecordPaths \cup Bills
      /\ "checksums.txt" \notin RecordPaths \cup Bills
      /\ RecordPaths \cap Bills = {}
  BY PathsAreApart
<1>6. \A p \in RecordPaths : zip[p] = RecordFile(records, originals, p)
  BY <1>4, <1>5 DEF FilesOf
<1>7. /\ ParsedRecords = records
      /\ RowsOf("receipt-documents.json") =
           {[id |-> b, isIncluded |-> b \in originals] : b \in records.documents}
  BY <1>1, <1>6, RecordsAreRead DEF records
<1>10. DOMAIN zip \cap Bills = DOMAIN Manifest.sha256 \cap Bills
  BY <1>4, <1>5
<1>11. \A b \in originals : b \in DOMAIN Manifest.sha256 /\ b \in Bills
  <2> SUFFICES ASSUME NEW b \in originals PROVE b \in DOMAIN Manifest.sha256 /\ b \in Bills
    OBVIOUS
  <2>1. b \in records.documents /\ isComplete
    BY <1>1 DEF records, originals
  <2> DEFINE row == [id |-> b, isIncluded |-> b \in originals]
  <2>2. row \in RowsOf("receipt-documents.json") /\ row.isIncluded = TRUE /\ row.id = b
    BY <1>7, <2>1
  <2> HIDE DEF row
  <2> QED
    BY <1>2, <2>2 DEF HasItsOriginals
<1>12. DOMAIN zip \cap Bills = originals
  BY <1>4, <1>5, <1>10, <1>11
<1>13. \A b \in originals : zip[b].of = b
  <2> SUFFICES ASSUME NEW b \in originals PROVE zip[b].of = b
    OBVIOUS
  <2>1. zip[b] = FilesOf(records, originals)[b] /\ b \in Bills
    BY <1>4, <1>11
  <2>2. FilesOf(records, originals)[b] = Bytes(b)
    BY <2>1 DEF FilesOf
  <2> QED
    BY <2>1, <2>2 DEF Bytes
<1>14. {zip[p].of : p \in DOMAIN zip \cap Bills} = originals
  BY <1>12, <1>13
<1> QED
  BY <1>7, <1>14 DEF records, originals

\* An archive of a supported version is accepted as it was made.
LEMMA WholeIsAccepted ==
  ASSUME NEW isComplete \in BOOLEAN, IsFaithfulExport(isComplete), damage = 0, exported.schema \in Supported
  PROVE  IsAccepted
<1> DEFINE records == exported.records
           originals == exported.originals
           files == FilesOf(records, originals)
<1>1. /\ IsSnapshot(records)
      /\ originals = IF isComplete THEN records.documents ELSE {}
      /\ zip = Packed(records, originals, isComplete, exported.schema)
  BY DEF IsFaithfulExport
<1>2. originals \subseteq Bills
  BY <1>1 DEF IsSnapshot
<1>3. IsPacked(zip, records, originals, isComplete, exported.schema)
  BY <1>1, <1>2, PackedHas
<1> HIDE DEF records, originals
<1>4. /\ DOMAIN zip = RecordPaths \cup originals \cup {"manifest.json", "checksums.txt"}
      /\ \A p \in RecordPaths \cup originals : zip[p] = files[p]
      /\ Manifest.is = "manifest" /\ Manifest.sha256 = files
      /\ Manifest.isComplete = isComplete /\ Manifest.schema = exported.schema
      /\ zip["checksums.txt"] = [is |-> "checksums", sha256 |-> files]
      /\ DOMAIN files = RecordPaths \cup originals
  BY <1>3 DEF IsPacked, Manifest, FilesOf
<1>5. HasItsPaths
  BY <1>4 DEF HasItsPaths
<1>6. ListsItsFiles
  BY <1>1, <1>2, <1>4, PathsAreApart DEF ListsItsFiles
<1>7. MatchesHashes /\ MatchesChecksums
  BY <1>4 DEF MatchesHashes, MatchesChecksums
<1>8. \A p \in RecordPaths : zip[p] = RecordFile(records, originals, p)
  BY <1>4, PathsAreApart DEF FilesOf
<1>9. HasReadableRecords
  <2>1. \A p \in RecordPaths : RecordFile(records, originals, p).is = "rows"
    BY DEF RecordPaths, RecordFile, Rows
  <2>2. /\ RecordFile(records, originals, "line-items.json").rows = {}
        /\ RecordFile(records, originals, "locations.json").rows = {}
    BY DEF RecordFile, Rows
  <2>3. "line-items.json" \in RecordPaths /\ "locations.json" \in RecordPaths
    BY DEF RecordPaths
  <2> QED
    BY <1>8, <2>1, <2>2, <2>3 DEF HasReadableRecords
<1>10. /\ ParsedRecords = records
       /\ RowsOf("receipt-documents.json") =
            {[id |-> b, isIncluded |-> b \in originals] : b \in records.documents}
       /\ Ids(RowsOf("receipt-documents.json")) = records.documents
  BY <1>1, <1>8, RecordsAreRead DEF records
<1>11. AreValid(ParsedRecords)
  BY <1>1, <1>10 DEF IsSnapshot
<1>12. HasItsOriginals
  <2>1. DOMAIN Manifest.sha256 \cap Bills = originals
    BY <1>2, <1>4, PathsAreApart
  <2>2. \A b \in originals : zip[b] = Bytes(b)
    BY <1>2, <1>4 DEF FilesOf
  <2>3. originals \subseteq records.documents
    BY <1>1
  <2>4. ASSUME NEW row \in RowsOf("receipt-documents.json")
        PROVE  /\ row.isIncluded <=> Manifest.isComplete
               /\ row.isIncluded <=> row.id \in originals
               /\ row.isIncluded => zip[row.id] = Bytes(row.id)
    <3>1. PICK b \in records.documents : row = [id |-> b, isIncluded |-> b \in originals]
      BY <1>10
    <3>2. row.id = b /\ row.isIncluded = (b \in originals)
      BY <3>1
    <3>3. b \in originals <=> isComplete
      BY <1>1
    <3> QED
      BY <1>4, <2>2, <3>2, <3>3
  <2> QED
    BY <1>10, <2>1, <2>3, <2>4 DEF HasItsOriginals
<1> QED
  BY <1>5, <1>6, <1>7, <1>9, <1>11, <1>12 DEF IsAccepted

\* An archive is read, or refused.
LEMMA ParseStep == ASSUME ZipInv, ParseExport PROVE ZipInv'
<1>1. /\ exported.at = "made"
      /\ UNCHANGED <<table, clock, exported, zip, damage>>
      /\ IF IsAccepted
         THEN /\ parsed'.at = "made" /\ parsed'.records = ParsedRecords
              /\ parsed'.originals = {zip[p].of : p \in DOMAIN zip \cap Bills}
         ELSE parsed'.at = "refused"
  BY DEF ParseExport
<1>2. PICK isComplete \in BOOLEAN : IsFaithfulExport(isComplete)
  BY <1>1 DEF ZipInv
<1>3. IsFaithfulExport(isComplete)'
  BY <1>1, <1>2 DEF IsFaithfulExport, ManifestIsTrue, Has, Manifest
<1>4. ReadsWhatWasExported'
  <2>1. CASE IsAccepted
    BY <1>1, <1>2, <2>1, AcceptedIsExported DEF ReadsWhatWasExported
  <2>2. CASE ~IsAccepted
    <3>1. damage # 0 \/ exported.schema \notin Supported
      BY <1>2, <2>2, WholeIsAccepted
    <3>2. damage \in Nat
      BY ArchiveBounds DEF ZipInv
    <3> QED
      BY <1>1, <2>2, <3>1, <3>2 DEF ReadsWhatWasExported
  <2> QED
    BY <2>1, <2>2
<1> QED
  BY <1>1, <1>3, <1>4 DEF ZipInv, ExportsUnlessTimesDisagree

\* Every step keeps the invariant.
LEMMA ArchiveStep == ArchiveInv /\ [ArchiveNext]_archiveVars => ArchiveInv'
<1> SUFFICES ASSUME TableInv, ZipInv, [ArchiveNext]_archiveVars PROVE ArchiveInv'
  BY DEF ArchiveInv
<1>1. ASSUME UNCHANGED <<exported, zip, damage, parsed>>,
             exported.at = "none" \/ UNCHANGED clock
      PROVE  ZipInv'
  <2>1. ExportsUnlessTimesDisagree'
    BY <1>1 DEF ZipInv, ExportsUnlessTimesDisagree
  <2> QED
    BY <1>1, <2>1 DEF ZipInv, IsFaithfulExport, ManifestIsTrue, Has, Manifest, ReadsWhatWasExported
<1>2. ASSUME UNCHANGED archiveVars \/ TimePasses PROVE ZipInv'
  BY <1>1, <1>2 DEF archiveVars, TimePasses
<1>3. ASSUME NEW b \in Bills,
             \/ \E m \in Merchants : SaveBill(b, m)
             \/ CaptureBill(b) \/ DropBill(b)
             \/ \E c \in Categories \cup {NoCategory}, ts \in SUBSET Tags : AssignBill(b, c, ts)
      PROVE  ZipInv'
  BY <1>1, <1>3 DEF SaveBill, CaptureBill, DropBill, AssignBill, Changes
<1>4. ASSUME \/ \E l \in Categories \cup Tags : AddLabel(l) \/ DropLabel(l)
             \/ RestoreClean
      PROVE  ZipInv'
  BY <1>1, <1>4 DEF AddLabel, DropLabel, RestoreClean, Changes
<1>5. ZipInv'
  BY <1>2, <1>3, <1>4, ExportStep, DamageStep, ParseStep DEF ArchiveNext
<1> QED
  BY <1>5, TableStep DEF ArchiveInv

\* The tables and the archive are what their code can leave.
THEOREM ArchiveTypeCorrect == ArchiveSpec => []ArchiveTypeOK
<1>1. ArchiveInv => ArchiveTypeOK
  <2> SUFFICES ASSUME TableInv, ZipInv PROVE ArchiveTypeOK
    BY DEF ArchiveInv
  <2>1. \A b \in Bills : table.bill[b] \in Bill
    BY DEF TableInv
  <2>2. parsed.at # "none" => exported.at = "made"
    BY DEF ZipInv, NothingYet
  <2> QED
    BY <2>1, <2>2 DEF ArchiveTypeOK, TableInv, ZipInv, Bill
<1> QED
  BY <1>1, ArchiveInitInv, ArchiveStep, PTL DEF ArchiveSpec

\* As long as the clock is never set back, nor behind the one that made the rows
\* of a restore, whatever was saved, restored, assigned and deleted can be
\* exported (getActiveSnapshot, restoreClean, validateRecords).
THEOREM ExportsGoThrough == ArchiveSpec => []ExportsUnlessTimesDisagree
<1>1. ArchiveInv => ExportsUnlessTimesDisagree
  BY DEF ArchiveInv, ZipInv
<1> QED
  BY <1>1, ArchiveInitInv, ArchiveStep, PTL DEF ArchiveSpec

\* What is read from an archive is what was exported, whatever happened to the
\* file, and a whole one of a supported version is read (parseStructuredExport).
THEOREM ArchivesAreReadBack == ArchiveSpec => []ReadsWhatWasExported
<1>1. ArchiveInv => ReadsWhatWasExported
  BY DEF ArchiveInv, ZipInv
<1> QED
  BY <1>1, ArchiveInitInv, ArchiveStep, PTL DEF ArchiveSpec

-----------------------------------------------------------------------------
(* The shared connection. *)

\* A call is in its transaction, or in what it takes for its own.
UnderWay(t) == calls[t].at \in {"writing", "commit", "rollback"}

\* What a lock around transaction would give, and nothing in the code does.
OneAtATime == \A s, t \in Transactions : UnderWay(s) /\ UnderWay(t) => s = t

RowsOfCall(t) == {<<t, n>> : n \in 1..Statements}

\* A call that is done has committed its rows, any other none of them.
AllOrNothing ==
  \A t \in Transactions :
    /\ calls[t] = Point("done") => RowsOfCall(t) \subseteq durable
    /\ calls[t] # Point("done") => RowsOfCall(t) \cap durable = {}

Places == {Point(p) : p \in {"begin", "commit", "rollback", "done", "thrown"}} \cup {Row(n) : n \in Nat}

\* The rows of a call are where its place says, and the transaction is its own.
CallIsAtomic(t) ==
  /\ calls[t].at = "writing" => \A n \in 1..(calls[t].row - 1) : <<t, n>> \in pending
  /\ calls[t].at = "commit" => \A n \in 1..Statements : <<t, n>> \in pending
  /\ calls[t].at = "done" => \A n \in 1..Statements : <<t, n>> \in durable
  /\ calls[t].at # "done" => \A n \in 1..Statements : <<t, n>> \notin durable
  /\ calls[t].at \in {"writing", "commit"} => begun
  /\ \A n \in 1..Statements : <<t, n>> \in pending => UnderWay(t)

ConnectionInv ==
  /\ calls \in [Transactions -> Places]
  /\ begun \in BOOLEAN
  /\ begun => \E t \in Transactions : UnderWay(t)
  /\ \A t \in Transactions : CallIsAtomic(t)

\* No call has begun, and nothing is written.
LEMMA ConnectionInitInv == ConnectionInit => ConnectionInv
<1> SUFFICES ASSUME ConnectionInit PROVE ConnectionInv
  OBVIOUS
<1>1. Point("begin") \in Places /\ Point("begin").at = "begin"
  BY DEF Places, Point
<1>2. calls \in [Transactions -> Places] /\ \A t \in Transactions : calls[t].at = "begin"
  BY <1>1 DEF ConnectionInit
<1> QED
  BY <1>2 DEF ConnectionInit, ConnectionInv, CallIsAtomic

\* A step of one call disturbs no other: only one is under way.
LEMMA ConnectionStep ==
  ASSUME Statements \in Nat \ {0}, ConnectionInv, OneAtATime, OneAtATime',
         [ConnectionNext]_connectionVars
  PROVE  ConnectionInv'
<1> USE DEF ConnectionInv, CallIsAtomic, UnderWay, OneAtATime, Places, Point, Row, Goes
<1>1. ASSUME NEW t \in Transactions, Begin(t) PROVE ConnectionInv'
  <2>1. ~begun
    BY <1>1 DEF Begin
  <2>2. QED
    BY <1>1, <2>1 DEF Begin
<1>2. ASSUME NEW t \in Transactions, NEW n \in 1..Statements, WriteRow(t, n) PROVE ConnectionInv'
  <2>1. /\ begun /\ begun' = begun /\ durable' = durable
        /\ pending' = pending \cup {<<t, n>>}
        /\ calls[t] = Row(n)
        /\ calls' = [calls EXCEPT ![t] = IF n = Statements THEN Point("commit") ELSE Row(n + 1)]
    BY <1>2 DEF WriteRow
  <2>2. ASSUME NEW s \in Transactions, s # t PROVE CallIsAtomic(s)'
    BY <2>1, <2>2
  <2>3. CallIsAtomic(t)'
    BY <2>1
  <2>4. QED
    BY <2>1, <2>2, <2>3
<1>3. ASSUME NEW t \in Transactions, NEW n \in 1..Statements, RefuseRow(t, n) PROVE ConnectionInv'
  BY <1>3 DEF RefuseRow
<1>4. ASSUME NEW t \in Transactions, EndTransaction(t) PROVE ConnectionInv'
  <2>1. /\ calls[t] = Point("commit") /\ begun' = FALSE /\ pending' = {}
        /\ durable' = durable \cup pending
        /\ calls' = [calls EXCEPT ![t] = Point("done")]
    BY <1>4 DEF EndTransaction
  <2>2. ASSUME NEW s \in Transactions, s # t PROVE CallIsAtomic(s)'
    <3>1. calls'[s] = calls[s] /\ ~UnderWay(s)
      BY <2>1, <2>2
    <3>2. \A n \in 1..Statements : <<s, n>> \notin pending
      BY <3>1
    <3>3. QED
      BY <2>1, <3>1, <3>2
  <2>3. CallIsAtomic(t)' /\ calls' \in [Transactions -> Places]
    BY <2>1
  <2>4. QED
    BY <2>1, <2>2, <2>3
<1>5. ASSUME NEW t \in Transactions, UndoTransaction(t) PROVE ConnectionInv'
  <2>1. /\ calls[t] = Point("rollback") /\ begun' = FALSE /\ pending' = {} /\ durable' = durable
        /\ calls' = [calls EXCEPT ![t] = Point("thrown")]
    BY <1>5 DEF UndoTransaction
  <2>2. ASSUME NEW s \in Transactions, s # t PROVE CallIsAtomic(s)'
    <3>1. calls'[s] = calls[s] /\ ~UnderWay(s)
      BY <2>1, <2>2
    <3>2. QED
      BY <2>1, <3>1
  <2>3. CallIsAtomic(t)' /\ calls' \in [Transactions -> Places]
    BY <2>1
  <2>4. QED
    BY <2>1, <2>2, <2>3
<1>6. CASE UNCHANGED connectionVars
  BY <1>6 DEF connectionVars
<1> QED
  BY <1>1, <1>2, <1>3, <1>4, <1>5, <1>6 DEF ConnectionNext

\* Calls that do not overlap are transactions, whatever they write: what the
\* repositories rely on is true of each that is alone.
THEOREM AloneIsAtomic ==
  ASSUME Statements \in Nat \ {0}
  PROVE  ConnectionSpec /\ []OneAtATime => []AllOrNothing
<1>1. ConnectionInv => AllOrNothing
  BY DEF ConnectionInv, CallIsAtomic, AllOrNothing, RowsOfCall, Places, Point, Row
<1>2. ConnectionInv /\ OneAtATime /\ OneAtATime' /\ [ConnectionNext]_connectionVars => ConnectionInv'
  BY ConnectionStep
<1> QED
  BY <1>1, <1>2, ConnectionInitInv, PTL DEF ConnectionSpec

\* docs/DATA_MODEL.md:74: of a call that threw nothing is committed, if no
\* other was under way.  The run shared_connection shows two that overlap.
THEOREM AloneLeavesNothing ==
  ASSUME Statements \in Nat \ {0}
  PROVE  ConnectionSpec /\ []OneAtATime => []ThrownLeavesNothing
<1>1. AllOrNothing => ThrownLeavesNothing
  BY DEF AllOrNothing, ThrownLeavesNothing, RowsOfCall, Point
<1> QED
  BY <1>1, AloneIsAtomic, PTL
==============================================================================
