----------------------------- MODULE LocalLaunch -----------------------------
(***************************************************************************)
(* The start of the device application, from the database file to the      *)
(* screens: getLocalRepositories (expo-sqlite.ts), migrateDatabase         *)
(* (sqlite.ts) and the effect of AppContent that waits for them (App.tsx). *)
(*                                                                         *)
(* What is done about a pending deletion before the screens come is in     *)
(* LocalReceipts; here it is a step that may fail.  The user tries again   *)
(* only when a run of the effect has failed, so there is one at a time.    *)
(***************************************************************************)
EXTENDS Naturals, FiniteSets

CONSTANTS
  Releases,    \* the last version of migrations, in each release
  MaxLaunches  \* bound on the launches

ASSUME LaunchBounds == Releases \subseteq Nat /\ MaxLaunches \in Nat \ {0}

Nothing == [made |-> {}, recorded |-> {}]

VARIABLES
  release,      \* the release that is installed
  database,     \* the file: versions whose tables and triggers are made, and
                \* those in schema_migrations
  transaction,  \* what the open transaction adds to it
  at,           \* where the effect stands
  missing,      \* the versions the launch found missing
  promise,      \* repositoryPromise
  launches      \* the number of launches

launchVars == <<release, database, transaction, at, missing, promise, launches>>

Versions == 1..release

-----------------------------------------------------------------------------

\* The effect, when it is mounted or the user tries again: one promise for
\* all, made anew once it was rejected.
GetLocalRepositories ==
  /\ at \in {"mounted", "error"}
  /\ IF promise = "kept"
     THEN at' = "resuming" /\ UNCHANGED promise
     ELSE at' = "opening" /\ promise' = "awaited"
  /\ UNCHANGED <<release, database, transaction, missing, launches>>

Rejects ==
  /\ at' = "error"
  /\ promise' = "unset"

\* A database of a newer release is refused, or one that cannot be opened, before anything is written to it.
OpenDatabase ==
  /\ at = "opening"
  /\ database.recorded \subseteq Versions
  /\ at' = "migrating"
  /\ missing' = Versions \ database.recorded
  /\ UNCHANGED <<release, database, transaction, promise, launches>>

RefuseDatabase ==
  /\ at = "opening"
  /\ Rejects
  /\ UNCHANGED <<release, database, transaction, missing, launches>>

FirstOf(versions) == {v \in versions : \A w \in versions : v <= w}

\* Mutant: a migration is executed outside a transaction.
ExecuteAtOnce(v) ==
  /\ at = "migrating"
  /\ v \in FirstOf(missing)
  /\ v \notin database.made
  /\ at' = "recording"
  /\ database' = [database EXCEPT !.made = @ \cup {v}]
  /\ UNCHANGED <<release, transaction, missing, promise, launches>>

\* BEGIN, and the statements: a table that is there cannot be created.
ExecuteMigration(v) ==
  /\ at = "migrating"
  /\ v \in FirstOf(missing)
  /\ v \notin database.made
  /\ at' = "recording"
  /\ transaction' = [transaction EXCEPT !.made = @ \cup {v}]
  /\ UNCHANGED <<release, database, missing, promise, launches>>

RecordMigration(v) ==
  /\ at = "recording"
  /\ v \in FirstOf(missing)
  /\ at' = "committing"
  /\ transaction' = [transaction EXCEPT !.recorded = @ \cup {v}]
  /\ UNCHANGED <<release, database, missing, promise, launches>>

CommitMigration ==
  /\ at = "committing"
  /\ at' = "migrating"
  /\ database' = [made |-> database.made \cup transaction.made,
                  recorded |-> database.recorded \cup transaction.recorded]
  /\ missing' = missing \ transaction.recorded
  /\ transaction' = Nothing
  /\ UNCHANGED <<release, promise, launches>>

\* A statement fails: ROLLBACK.
MigrationFails ==
  /\ at \in {"migrating", "recording", "committing"}
  /\ missing # {}
  /\ transaction' = Nothing
  /\ Rejects
  /\ UNCHANGED <<release, database, missing, launches>>

FinishMigrations ==
  /\ at = "migrating"
  /\ missing = {}
  /\ at' = "resuming"
  /\ promise' = "kept"
  /\ UNCHANGED <<release, database, transaction, missing, launches>>

\* resumePending and cleanupPending, then the screens.
ShowScreens ==
  /\ at = "resuming"
  /\ at' = "ready"
  /\ UNCHANGED <<release, database, transaction, missing, promise, launches>>

ResumeFails ==
  /\ at = "resuming"
  /\ at' = "error"
  /\ UNCHANGED <<release, database, transaction, missing, promise, launches>>

\* The process ends, and another release may be installed before the next.
Relaunch(r) ==
  /\ launches < MaxLaunches
  /\ launches' = launches + 1
  /\ release' = r
  /\ transaction' = Nothing
  /\ at' = "mounted"
  /\ missing' = {}
  /\ promise' = "unset"
  /\ UNCHANGED database

LaunchInit ==
  /\ release \in Releases
  /\ database \in {[made |-> 1..v, recorded |-> 1..v] : v \in Releases \cup {0}}
  /\ transaction = Nothing
  /\ at = "mounted"
  /\ missing = {}
  /\ promise = "unset"
  /\ launches = 1

LaunchNext ==
  \/ GetLocalRepositories \/ OpenDatabase \/ RefuseDatabase
  \/ \E v \in Versions : ExecuteMigration(v) \/ RecordMigration(v)
  \/ CommitMigration \/ MigrationFails \/ FinishMigrations
  \/ ShowScreens \/ ResumeFails
  \/ \E r \in Releases : Relaunch(r)

LaunchSpec == LaunchInit /\ [][LaunchNext]_launchVars

\* There is a transaction while a migration is made, and repositories once
\* there are screens.
LaunchTypeOK ==
  /\ release \in Releases
  /\ database.made \cup database.recorded \subseteq UNION {1..r : r \in Releases}
  /\ (transaction # Nothing) => at \in {"recording", "committing"}
  /\ at \in {"mounted", "opening", "migrating", "recording", "committing", "resuming", "ready",
             "error"}
  /\ missing \subseteq Versions
  /\ promise \in {"unset", "awaited", "kept"}
  /\ at \in {"resuming", "ready"} => promise = "kept"
  /\ launches \in 1..MaxLaunches

-----------------------------------------------------------------------------
(* Properties. *)

\* Screens are shown over a database of exactly the version of the release
\* that is running, whatever release was installed before and wherever the
\* process ended; and the next launch can always go on where this one ends: a
\* migration whose tables are there is recorded, for it could not be made
\* again.
ReadyIsMigrated ==
  /\ at = "ready" => database.recorded = Versions
  /\ database.made = database.recorded
=============================================================================
