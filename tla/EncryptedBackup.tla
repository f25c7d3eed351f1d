--------------------------- MODULE EncryptedBackup ---------------------------
(***************************************************************************)
(* The encrypted backup and its key: the dialogs of the list screen        *)
(* (ExpenseListScreen.tsx), the coordinator (encrypted-backup.ts of the    *)
(* app), the key manager (packages/crypto/src/backup-key.ts) over the      *)
(* secure store, and the envelope (packages/crypto/src/encrypted-backup).  *)
(*                                                                         *)
(* A screen that leaves, because an import ends and shows its receipt,     *)
(* loses its dialogs and not the call it awaits; the next screen makes     *)
(* calls of its own, on the same manager and store.  The bytes of a key    *)
(* that was prepared are shared by the screen and the call, and are zeroed *)
(* when the sheet closes and when the backup is delivered.                *)
(***************************************************************************)
EXTENDS Naturals, FiniteSets

CONSTANTS
  Keys,          \* keys that are generated
  Lists,         \* list screens mounted one after another
  PlainSizes,    \* sizes of the archive, in bytes
  HeaderSize,    \* size of the header, about three hundred bytes
  MaxBackups     \* bound on the backups delivered

NoKey == "no key"
Zeros == "zeros"

ASSUME KeysAreKeys == {NoKey, Zeros} \cap Keys = {}
ASSUME SizesAreNatural == PlainSizes \subseteq Nat /\ HeaderSize \in Nat /\ MaxBackups \in Nat

VARIABLES
  hasStore,  \* a native platform, whose key is kept in its secure store
  kept,      \* the record of the secure store
  generated, \* keys that were generated
  flight,    \* BackupKeyManager.#pending: its step, its key, who awaits it
  sheet,    \* each list screen
  backups    \* the files delivered: an envelope, and the recovery key shown for it

backupVars == <<hasStore, kept, generated, flight, sheet, backups>>

-----------------------------------------------------------------------------
(* The envelope. *)

MaxPlaintext == 1024 * 1024 * 1024
MaxHeader == 4096
MaxEnvelope == 1024 * 1024 * 1024 + 8192
Framing == 17 + 4
Nonce == 12
Tag == 16

EnvelopeSize(plain, header) == Framing + header + Nonce + plain + Tag

\* assertExpectedEnvelopeSize.
FitsLimits(plain, header) ==
  /\ plain <= MaxPlaintext
  /\ EnvelopeSize(plain, header) <= MaxEnvelope

\* createEncryptedBackup before it encrypts.
CanSeal(plain, header) == plain >= 1 /\ header \in 1..MaxHeader /\ FitsLimits(plain, header)

\* frameBackup puts its five sections one after another.
Sealed(plain, header, key) ==
  [header |-> header, size |-> Framing + header + Nonce + plain + Tag,
   plain |-> plain, key |-> key, isWhole |-> TRUE]

\* parseEnvelope.
IsEnvelope(e) ==
  /\ e.size >= Framing + Nonce + Tag + 1
  /\ e.size <= MaxEnvelope
  /\ e.header \in 1..MaxHeader
  /\ Framing + e.header <= e.size
  /\ e.plain >= 1
  /\ FitsLimits(e.plain, e.header)
  /\ e.size = EnvelopeSize(e.plain, e.header)

\* openEncryptedBackup: a header, text or tag that was changed, and another
\* key, fail the authentication.
CanOpen(e, key) == IsEnvelope(e) /\ e.isWhole /\ e.key = key

-----------------------------------------------------------------------------

Idle == [at |-> "none", key |-> NoKey, awaits |-> {}]

Dialog ==
  [mounted : BOOLEAN,
   open : {"none", "export", "backup", "restore", "delete"},
   status : {"idle", "exporting", "success", "error"},
   call : {"none", "prepare", "archive", "encrypt", "restore", "retain", "delete"},
   key : Keys \cup {NoKey, Zeros},      \* preparedEncryptedBackup.keyRecord.key
   shown : Keys \cup {NoKey},           \* preparedEncryptedBackup.recoveryKey
   opened : Keys \cup {NoKey}]          \* the key of the backup being restored

Unmounted ==
  [mounted |-> FALSE, open |-> "none", status |-> "idle", call |-> "none",
   key |-> NoKey, shown |-> NoKey, opened |-> NoKey]

\* One screen is mounted at a time; who awaits the manager is preparing.
BackupTypeOK ==
  /\ hasStore \in BOOLEAN
  /\ kept \in Keys \cup {NoKey}
  /\ generated \subseteq Keys
  /\ flight \in [at : {"none", "get", "generate", "save"}, key : Keys \cup {NoKey},
                 awaits : SUBSET Lists]
  /\ sheet \in [Lists -> Dialog]
  /\ \A l, m \in Lists : sheet[l].mounted /\ sheet[m].mounted => l = m
  /\ \A l \in flight.awaits : sheet[l].call = "prepare"
  /\ ~hasStore => kept = NoKey /\ flight = Idle

BackupInit ==
  /\ hasStore \in BOOLEAN
  /\ kept = NoKey
  /\ generated = {}
  /\ flight = Idle
  /\ sheet = [l \in Lists |-> Unmounted]
  /\ backups = {}

Shows(l, next) ==
  /\ sheet' = [sheet EXCEPT ![l] = next]
  /\ UNCHANGED <<hasStore, backups>>

KeepsKeys == UNCHANGED <<kept, generated, flight>>

\* The end of a call: what a screen that is gone would show is lost.
After(l, next) ==
  IF sheet[l].mounted THEN [next EXCEPT !.call = "none"] ELSE Unmounted

-----------------------------------------------------------------------------
(* The screen. *)

MountList(l) ==
  /\ sheet[l] = Unmounted
  /\ \A m \in Lists : ~sheet[m].mounted
  /\ Shows(l, [Unmounted EXCEPT !.mounted = TRUE])
  /\ KeepsKeys

LeaveList(l) ==
  /\ sheet[l].mounted
  /\ Shows(l, IF sheet[l].call = "none" THEN Unmounted
              ELSE [sheet[l] EXCEPT !.mounted = FALSE, !.open = "none"])
  /\ KeepsKeys

OpenExport(l) ==
  /\ sheet[l].mounted
  /\ sheet[l].open = "none"
  /\ Shows(l, [sheet[l] EXCEPT !.open = "export", !.status = "idle"])
  /\ KeepsKeys

OpenAnother(l, d) ==
  /\ sheet[l].open = "export"
  /\ sheet[l].status # "exporting"
  /\ Shows(l, [sheet[l] EXCEPT !.open = d, !.status = "idle"])
  /\ KeepsKeys

\* Mutant: the sheet does not mind the backup that is being created.
CloseAnyDialog(l) ==
  /\ sheet[l].open # "none"
  /\ Shows(l, [sheet[l] EXCEPT !.open = "none", !.status = "idle",
       !.key = IF sheet[l].open = "backup" THEN Zeros ELSE @])
  /\ KeepsKeys

\* Closing is disabled while a call is awaited; the key prepared is zeroed.
CloseDialog(l) ==
  /\ sheet[l].open # "none"
  /\ sheet[l].call = "none"
  /\ Shows(l, [sheet[l] EXCEPT !.open = "none", !.status = "idle",
       !.key = IF sheet[l].open = "backup" THEN NoKey ELSE @, !.shown = NoKey])
  /\ KeepsKeys

Starts(l, d, call) ==
  /\ sheet[l].open = d
  /\ sheet[l].status # "exporting"
  /\ sheet[l].call = "none"
  /\ Shows(l, [sheet[l] EXCEPT !.status = "exporting", !.call = call])

\* The call fails; the sheet shows an error and can be used again.
CallFails(l) ==
  /\ sheet[l].call \in {"archive", "encrypt", "restore", "delete"}
  /\ Shows(l, After(l, [sheet[l] EXCEPT !.status = "error", !.opened = NoKey]))
  /\ KeepsKeys

-----------------------------------------------------------------------------
(* prepare: BackupKeyManager.getOrCreate, once for all who ask meanwhile.   *)

Prepares(key) ==
  sheet' = [l \in Lists |->
    IF l \in flight.awaits
    THEN After(l, [sheet[l] EXCEPT !.status = "idle", !.open = "backup",
                     !.key = key, !.shown = key])
    ELSE sheet[l]]

StartPrepare(l) ==
  /\ hasStore
  /\ Starts(l, "export", "prepare")
  /\ flight' = IF flight.at = "none" THEN [Idle EXCEPT !.at = "get", !.awaits = {l}]
               ELSE [flight EXCEPT !.awaits = @ \cup {l}]
  /\ UNCHANGED <<kept, generated>>

\* Without a store, each preparation has a key of its own.
PrepareOnWeb(l, k) ==
  /\ ~hasStore
  /\ sheet[l].open = "export"
  /\ sheet[l].status # "exporting"
  /\ k \in Keys \ generated
  /\ generated' = generated \cup {k}
  /\ Shows(l, [sheet[l] EXCEPT !.status = "idle", !.open = "backup", !.key = k, !.shown = k])
  /\ UNCHANGED <<kept, flight>>

FindKey ==
  /\ flight.at = "get"
  /\ IF kept = NoKey THEN flight' = [flight EXCEPT !.at = "generate"] /\ UNCHANGED sheet
     ELSE flight' = Idle /\ Prepares(kept)
  /\ UNCHANGED <<hasStore, kept, generated, backups>>

GenerateKey(k) ==
  /\ flight.at = "generate"
  /\ k \in Keys \ generated
  /\ generated' = generated \cup {k}
  /\ flight' = [flight EXCEPT !.at = "save", !.key = k]
  /\ UNCHANGED <<hasStore, kept, sheet, backups>>

SaveKey ==
  /\ flight.at = "save"
  /\ kept' = flight.key
  /\ flight' = Idle
  /\ Prepares(flight.key)
  /\ UNCHANGED <<hasStore, generated, backups>>

\* The store or the generator fails; a write that fails may have been made.
PrepareFails ==
  /\ flight.at # "none"
  /\ kept' \in {kept} \cup (IF flight.at = "save" THEN {flight.key} ELSE {})
  /\ flight' = Idle
  /\ sheet' = [l \in Lists |->
       IF l \in flight.awaits THEN After(l, [sheet[l] EXCEPT !.status = "error"])
       ELSE sheet[l]]
  /\ UNCHANGED <<hasStore, generated, backups>>

-----------------------------------------------------------------------------
(* create: the archive, the envelope, the file. *)

\* The recovery key must be that of the record, which it is.
StartCreate(l) ==
  /\ sheet[l].key = sheet[l].shown
  /\ Starts(l, "backup", "archive")
  /\ KeepsKeys

BuildArchive(l) ==
  /\ sheet[l].call = "archive"
  /\ Shows(l, [sheet[l] EXCEPT !.call = "encrypt"])
  /\ KeepsKeys

\* The key is read after the archive was built, and the share sheet awaited;
\* then the key is zeroed and the sheet closed.
DeliverBackup(l, plain) ==
  /\ sheet[l].call = "encrypt"
  /\ CanSeal(plain, HeaderSize)
  /\ Cardinality(backups) < MaxBackups
  /\ backups' = backups \cup
       {[envelope |-> Sealed(plain, HeaderSize, sheet[l].key), shown |-> sheet[l].shown]}
  /\ sheet' = [sheet EXCEPT ![l] = After(l, [@ EXCEPT !.open = "none",
       !.status = "success", !.key = NoKey, !.shown = NoKey])]
  /\ UNCHANGED <<hasStore, kept, generated, flight>>

-----------------------------------------------------------------------------
(* restore: a file of the user's, perhaps damaged, and a key the user types. *)

Damaged(e) ==
  {[e EXCEPT !.size = @ - 1], [e EXCEPT !.plain = @ + 1], [e EXCEPT !.isWhole = FALSE]}

StartRestoreBackup(l, e, k) ==
  /\ CanOpen(e, k)
  /\ sheet[l].open = "restore"
  /\ sheet[l].status # "exporting"
  /\ Shows(l, [sheet[l] EXCEPT !.status = "exporting", !.call = "restore", !.opened = k])
  /\ KeepsKeys

RefuseRestore(l, e, k) ==
  /\ ~CanOpen(e, k)
  /\ sheet[l].open = "restore"
  /\ sheet[l].status # "exporting"
  /\ Shows(l, [sheet[l] EXCEPT !.status = "error"])
  /\ KeepsKeys

\* The records and files of the archive are restored (StructuredRestore).
RestoreData(l) ==
  /\ sheet[l].call = "restore"
  /\ Shows(l, IF hasStore THEN [sheet[l] EXCEPT !.call = "retain"]
              ELSE After(l, [sheet[l] EXCEPT !.open = "none", !.status = "success",
                               !.opened = NoKey]))
  /\ KeepsKeys

\* saveRecovered; if it fails, the user is told to keep the key.
RetainKey(l) ==
  /\ sheet[l].call = "retain"
  /\ kept' \in {kept, sheet[l].opened}
  /\ Shows(l, After(l, [sheet[l] EXCEPT !.open = "none", !.status = "success",
                          !.opened = NoKey]))
  /\ UNCHANGED <<generated, flight>>

-----------------------------------------------------------------------------
(* Deletion of all data deletes the key through a store of its own.         *)

StartDelete(l) ==
  /\ sheet[l].open = "delete"
  /\ sheet[l].call = "none"
  /\ Shows(l, [sheet[l] EXCEPT !.call = "delete"])
  /\ KeepsKeys

DeleteKey(l) ==
  /\ sheet[l].call = "delete"
  /\ kept' = NoKey
  /\ Shows(l, After(l, [sheet[l] EXCEPT !.open = "none", !.status = "success"]))
  /\ UNCHANGED <<generated, flight>>

ListNext(l) ==
  \/ MountList(l) \/ LeaveList(l) \/ OpenExport(l) \/ CloseDialog(l) \/ CallFails(l)
  \/ \E d \in {"restore", "delete"} : OpenAnother(l, d)
  \/ StartPrepare(l) \/ \E k \in Keys : PrepareOnWeb(l, k)
  \/ StartCreate(l) \/ BuildArchive(l) \/ \E n \in PlainSizes : DeliverBackup(l, n)
  \/ \E b \in backups : \E e \in {b.envelope} \cup Damaged(b.envelope), k \in Keys :
       StartRestoreBackup(l, e, k) \/ RefuseRestore(l, e, k)
  \/ RestoreData(l) \/ RetainKey(l) \/ StartDelete(l) \/ DeleteKey(l)

BackupNext ==
  \/ \E l \in Lists : ListNext(l)
  \/ FindKey \/ \E k \in Keys : GenerateKey(k)
  \/ SaveKey \/ PrepareFails

BackupSpec == BackupInit /\ [][BackupNext]_backupVars

-----------------------------------------------------------------------------
(* Properties. *)

\* A backup that was delivered, of any size the limits allow, opens with the
\* recovery key its user was shown and with no other, and damaged with none:
\* no sheet that closed meanwhile has zeroed the bytes it was sealed with,
\* and none was sealed with the key of another screen (createEncryptedBackup,
\* the modal's onClose, openEncryptedBackup).
BackupOpensWithShownKey ==
  \A b \in backups :
    /\ \A k \in Keys : CanOpen(b.envelope, k) <=> k = b.shown
    /\ \A e \in Damaged(b.envelope), k \in Keys : ~CanOpen(e, k)
=============================================================================
