------------------------------ MODULE HostedSchema ------------------------------
(***************************************************************************)
(* The start of an API process, with migrateHostedDatabase: one            *)
(* transaction under an advisory lock brings the schema to what the        *)
(* release of the process supports.                                        *)
(*                                                                         *)
(* Processes of different releases start, serve and end side by side, as   *)
(* they do when an upgrade is rolled out or taken back.                    *)
(***************************************************************************)
EXTENDS Naturals, Sequences, SequencesExt

CONSTANTS
  Servers,      \* API processes
  Names,        \* names of migrations
  Migrations,   \* Migrations[s]: the migrations s is built with, by version
  Free          \* the lock is held by nobody

\* assertOrderedMigrations: versions are consecutive.
ASSUME MigrationsAreOrdered == Migrations \in [Servers -> Seq(Names)]
ASSUME FreeIsNoServer == Free \notin Servers
ASSUME SomeServer == Servers # {}

VARIABLES
  history,      \* hosted_schema_migrations, as it was committed last
  server,       \* where the start of each process stands
  applied,      \* the history in the transaction of each process
  lock          \* pg_advisory_xact_lock

schemaVars == <<history, server, applied, lock>>

InTransaction == {"waiting", "locked", "migrating"}
Servings == {"off", "migrated", "serving", "refused", "collided"} \cup InTransaction

Histories == UNION {{SubSeq(Migrations[s], 1, n) : n \in 0..Len(Migrations[s])} : s \in Servers}

SchemaTypeOK ==
  /\ history \in Histories
  /\ server \in [Servers -> Servings]
  /\ applied \in [Servers -> Histories]
  /\ lock \in Servers \cup {Free}
  /\ \A s \in Servers : lock = s <=> server[s] \in {"locked", "migrating"}

SchemaInit ==
  /\ history = <<>>
  /\ server = [s \in Servers |-> "off"]
  /\ applied = [s \in Servers |-> <<>>]
  /\ lock = Free

Reaches(s, from, to) == server[s] \in from /\ server' = [server EXCEPT ![s] = to]

\* Mutant: a lock of the session, which the end of a transaction leaves.
EndsWithLock(s) ==
  /\ UNCHANGED lock
  /\ applied' = [applied EXCEPT ![s] = <<>>]

\* A transaction ends, and with it its lock and what it has not committed.
EndsTransaction(s) ==
  /\ lock' = IF lock = s THEN Free ELSE lock
  /\ applied' = [applied EXCEPT ![s] = <<>>]

\* BEGIN, and the request for the lock.
BeginMigration(s) ==
  /\ Reaches(s, {"off", "refused"}, "waiting")
  /\ UNCHANGED <<history, applied, lock>>

\* Mutant: the transaction does not ask for the lock.
AcquireNothing(s) ==
  /\ Reaches(s, {"waiting"}, "locked")
  /\ UNCHANGED <<history, applied, lock>>

AcquireLock(s) ==
  /\ lock = Free
  /\ Reaches(s, {"waiting"}, "locked")
  /\ lock' = s
  /\ UNCHANGED <<history, applied>>

\* Mutant: versions are compared, and names are not.
IsNotNewer(s) == Len(history) <= Len(Migrations[s])

\* Neither a future version nor a name of another history.
Recognizes(s) == IsPrefix(history, Migrations[s])

ReadHistory(s) ==
  /\ Recognizes(s)
  /\ Reaches(s, {"locked"}, "migrating")
  /\ applied' = [applied EXCEPT ![s] = history]
  /\ UNCHANGED <<history, lock>>

RefuseHistory(s) ==
  /\ ~Recognizes(s)
  /\ Reaches(s, {"locked"}, "refused")
  /\ EndsTransaction(s)
  /\ UNCHANGED history

\* A missing migration runs and is recorded.  It fails when the tables, and
\* the primary key, were committed by another process since the read.
Migrate(s) ==
  /\ Len(applied[s]) < Len(Migrations[s])
  /\ IF Len(history) > Len(applied[s])
     THEN /\ Reaches(s, {"migrating"}, "collided")
          /\ EndsTransaction(s)
     ELSE /\ server[s] = "migrating"
          /\ applied' = [applied EXCEPT ![s] = Append(@, Migrations[s][Len(@) + 1])]
          /\ UNCHANGED <<server, lock>>
  /\ UNCHANGED history

\* COMMIT; the process fails to start if it does not hear of it.
CommitMigration(s) ==
  /\ Len(applied[s]) = Len(Migrations[s])
  /\ \/ Reaches(s, {"migrating"}, "migrated")
     \/ Reaches(s, {"migrating"}, "off")
  /\ history' = applied[s]
  /\ EndsTransaction(s)

\* A query fails, the connection is lost, or the process ends.
AbandonMigration(s) ==
  /\ Reaches(s, InTransaction, "off")
  /\ EndsTransaction(s)
  /\ UNCHANGED history

\* The bucket is ready and the port is open.
Listen(s) ==
  /\ Reaches(s, {"migrated"}, "serving")
  /\ UNCHANGED <<history, applied, lock>>

\* A later step of the start fails, or a signal or a crash ends the process.
ShutDown(s) ==
  /\ Reaches(s, {"migrated", "serving"}, "off")
  /\ UNCHANGED <<history, applied, lock>>

SchemaNext ==
  \E s \in Servers :
    \/ BeginMigration(s) \/ AcquireLock(s) \/ ReadHistory(s) \/ RefuseHistory(s)
    \/ Migrate(s) \/ CommitMigration(s) \/ AbandonMigration(s) \/ Listen(s) \/ ShutDown(s)

SchemaSpec == SchemaInit /\ [][SchemaNext]_schemaVars

-----------------------------------------------------------------------------
(* Properties. *)

\* No start fails because another process has migrated in the meantime.
StartsDoNotCollide == \A s \in Servers : server[s] # "collided"

\* A process only serves from a schema that has all of its migrations, and no
\* other process takes them away; the schema may be ahead of it, as a newer
\* release does not wait for it to end.
ServesItsSchema ==
  \A s \in Servers : server[s] \in {"migrated", "serving"} => IsPrefix(Migrations[s], history)
=============================================================================
