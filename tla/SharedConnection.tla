-------------------------- MODULE SharedConnection --------------------------
(***************************************************************************)
(* The one connection that all repositories of the device share            *)
(* (ExpoSqliteConnection in expo-sqlite.ts).  A transaction of a           *)
(* repository is a BEGIN, its statements and a COMMIT on that connection,  *)
(* each awaited, and a ROLLBACK when one of them throws; statements of     *)
(* another transaction may come between, for nothing keeps two of them     *)
(* apart: an import writes its evidence in the background while the user   *)
(* classifies, reviews or deletes another receipt.                         *)
(***************************************************************************)
EXTENDS Naturals, FiniteSets

CONSTANTS
  Transactions,  \* calls of transaction
  Statements     \* the number of rows each of them writes

VARIABLES
  calls,    \* where each call stands
  begun,    \* the connection is in a transaction
  pending,  \* the rows written in it
  durable   \* the rows that are committed

connectionVars == <<calls, begun, pending, durable>>

Point(place) == [at |-> place, row |-> 0]
Row(n) == [at |-> "writing", row |-> n]

Goes(t, to) == calls' = [calls EXCEPT ![t] = to]

\* External: SQLite has no transaction in a transaction.
Begin(t) ==
  /\ calls[t] = Point("begin")
  /\ IF begun THEN Goes(t, Point("rollback")) /\ UNCHANGED begun
              ELSE Goes(t, Row(1)) /\ begun' = TRUE
  /\ UNCHANGED <<pending, durable>>

\* External: a row is written in the transaction of the connection, whoever
\* began it, or commits on its own.
WriteRow(t, n) ==
  /\ calls[t] = Row(n)
  /\ Goes(t, IF n = Statements THEN Point("commit") ELSE Row(n + 1))
  /\ IF begun THEN pending' = pending \cup {<<t, n>>} /\ UNCHANGED durable
              ELSE durable' = durable \cup {<<t, n>>} /\ UNCHANGED pending
  /\ UNCHANGED begun

\* A constraint refuses the row.
RefuseRow(t, n) ==
  /\ calls[t] = Row(n)
  /\ Goes(t, Point("rollback"))
  /\ UNCHANGED <<begun, pending, durable>>

\* External: there must be a transaction.
EndTransaction(t) ==
  /\ calls[t] = Point("commit")
  /\ IF begun
     THEN /\ durable' = durable \cup pending
          /\ Goes(t, Point("done"))
     ELSE /\ Goes(t, Point("rollback"))
          /\ UNCHANGED durable
  /\ begun' = FALSE
  /\ pending' = {}

\* External: ROLLBACK, which throws as well when there is nothing to undo.
UndoTransaction(t) ==
  /\ calls[t] = Point("rollback")
  /\ Goes(t, Point("thrown"))
  /\ begun' = FALSE
  /\ pending' = {}
  /\ UNCHANGED durable

ConnectionInit ==
  /\ calls = [t \in Transactions |-> Point("begin")]
  /\ begun = FALSE
  /\ pending = {}
  /\ durable = {}

ConnectionNext ==
  \E t \in Transactions :
    \/ Begin(t) \/ EndTransaction(t) \/ UndoTransaction(t)
    \/ \E n \in 1..Statements : WriteRow(t, n) \/ RefuseRow(t, n)

ConnectionSpec == ConnectionInit /\ [][ConnectionNext]_connectionVars

\* docs/DATA_MODEL.md:74, "Candidate sets from one parser run are inserted in a
\* single transaction so a constraint failure cannot leave partial extraction
\* evidence": of a call that threw nothing is committed.
ThrownLeavesNothing ==
  \A t \in Transactions : calls[t] = Point("thrown") => \A n \in 1..Statements : <<t, n>> \notin durable
=============================================================================
