----------------------------- MODULE Hosts_proofs -----------------------------
(***************************************************************************)
(* The two kinds of hosted process, for any number of each, and the hosted *)
(* parts together.                                                         *)
(*                                                                         *)
(* WorkerSpec => []ReadyByOwnJob needs that a job in a hand was sent, and  *)
(* WorkerSpec => []ProbeIsOnItsWay to speak of the time before the process *)
(* runs, and that no other process can have the job: one at a time.        *)
(*                                                                         *)
(* SchemaSpec => []StartsDoNotCollide and SchemaSpec => []ServesItsSchema  *)
(* rest on what the lock is for: only its holder has read the history, so  *)
(* that what it has applied begins with what is committed.                 *)
(*                                                                         *)
(* HostsSpec => []HostsTypeOK puts the invariants of the parts together:   *)
(* each part keeps its own while another one takes steps.                  *)
(***************************************************************************)
EXTENDS MCHosted, HostedAttachments_proofs, WebClient_proofs, SequenceTheorems, TLAPS

-----------------------------------------------------------------------------
(* The worker. *)

States == {"none", "created", "active", "completed", "failed"}

IsLive(w) == phase[w] \notin {"new", "ended"}

\* The probe is in the queue, in the process's own hand, or lost by the queue.
IsOnItsWay(w) == job[w] = "created" \/ hand[w] = w \/ w \in mislaid

WorkerInv ==
  /\ phase \in [Workers -> Phases]
  /\ job \in [Workers -> States]
  /\ hand \in [Workers -> Workers \cup {Empty}]
  /\ resolved \in [Workers -> BOOLEAN]
  /\ mislaid \in SUBSET Workers
  /\ \A w \in Workers : hand[w] # Empty =>
       phase[w] \in {"working", "running", "stopping"} /\ job[hand[w]] \notin {"none", "created"}
  /\ \A v, w \in Workers : IsLive(v) /\ IsLive(w) => v = w
  /\ \A w \in Workers : phase[w] \in {"new", "starting", "started", "queue"} => job[w] = "none"
  /\ \A w \in Workers : phase[w] = "running" => job[w] # "none"
  /\ \A w \in Workers :
       phase[w] \in {"working", "running"} /\ job[w] # "none" /\ ~resolved[w] => IsOnItsWay(w)
  /\ ReadyByOwnJob

\* No process has been started and the queue is empty.
LEMMA WorkerInitInv == WorkerInit => WorkerInv
BY HandsAreEmpty DEF WorkerInit, WorkerInv, Phases, States, IsLive, ReadyByOwnJob

\* A process that only goes on with its start, or ends, leaves the queue alone.
LEMMA PhaseStep ==
  ASSUME WorkerInv, NEW w \in Workers,
         \/ StartWorker(w) \/ BossStarts(w) \/ CreateQueue(w) \/ Work(w) \/ ReturnRuntime(w)
         \/ FailStart(w) \/ Stop(w) \/ Close(w)
  PROVE  WorkerInv'
<1> USE HandsAreEmpty DEF WorkerInv, Goes, Phases, IsLive, IsOnItsWay, ReadyByOwnJob
<1>1. CASE StartWorker(w)
  BY <1>1 DEF StartWorker, Alone
<1>2. CASE BossStarts(w)
  BY <1>2 DEF BossStarts
<1>3. CASE CreateQueue(w)
  BY <1>3 DEF CreateQueue
<1>4. CASE Work(w)
  BY <1>4 DEF Work
<1>5. CASE ReturnRuntime(w)
  BY <1>5 DEF ReturnRuntime
<1>6. CASE FailStart(w)
  <2>1. UNCHANGED <<job, hand, resolved, mislaid>>
    BY <1>6 DEF FailStart
  <2>2. CASE phase[w] = "starting" /\ phase' = [phase EXCEPT ![w] = "ended"]
    BY <2>1, <2>2
  <2>3. CASE phase[w] \in {"started", "queue", "working"} /\ phase' = [phase EXCEPT ![w] = "stopping"]
    BY <2>1, <2>3
  <2> QED
    BY <1>6, <2>2, <2>3 DEF FailStart
<1>7. CASE Stop(w)
  BY <1>7 DEF Stop
<1>8. CASE Close(w)
  BY <1>8 DEF Close
<1> QED
  BY <1>1, <1>2, <1>3, <1>4, <1>5, <1>6, <1>7, <1>8

\* The hand of a process that is killed is empty; its job stays as it is.
LEMMA KillStep ==
  ASSUME WorkerInv, NEW w \in Workers, Kill(w)
  PROVE  WorkerInv'
BY HandsAreEmpty DEF WorkerInv, Kill, Phases, IsLive, IsOnItsWay, ReadyByOwnJob

\* What is done to a job: it is sent, expires when it is active, or lapses.
LEMMA JobStep ==
  ASSUME WorkerInv, NEW w \in Workers, Send(w) \/ Expire(w) \/ Lapse(w)
  PROVE  WorkerInv'
BY HandsAreEmpty DEF WorkerInv, Send, Expire, Lapse, Fetches, States, IsLive, IsOnItsWay, ReadyByOwnJob

\* Whoever fetches a probe whose process is alive is that process.
LEMMA FetchStep ==
  ASSUME WorkerInv, NEW w \in Workers, NEW p \in Workers, Fetch(w, p) \/ FetchUnanswered(w, p)
  PROVE  WorkerInv'
BY HandsAreEmpty DEF WorkerInv, Fetch, FetchUnanswered, Fetches, States, IsLive, IsOnItsWay, ReadyByOwnJob

\* A job that is handled was sent, and no other hand has the probe of a
\* process that is alive; whether the completion succeeds makes no difference.
LEMMA HandleStep ==
  ASSUME WorkerInv, NEW w \in Workers, Handle(w) \/ HandleUncompleted(w)
  PROVE  WorkerInv'
<1> DEFINE p == hand[w]
<1>1. p \in Workers /\ job[p] \notin {"none", "created"} /\ IsLive(w)
  BY DEF WorkerInv, Handle, HandleUncompleted, IsLive
<1>2. /\ job' \in [Workers -> States]
      /\ \A q \in Workers :
           job'[q] = job[q] \/ (q = p /\ job[q] = "active" /\ job'[q] = "completed")
  BY <1>1 DEF WorkerInv, Handle, HandleUncompleted, States
<1>3. /\ hand' \in [Workers -> Workers \cup {Empty}]
      /\ \A v \in Workers : hand'[v] = IF v = w THEN Empty ELSE hand[v]
  BY DEF WorkerInv, Handle, HandleUncompleted
<1>4. /\ resolved' \in [Workers -> BOOLEAN]
      /\ \A v \in Workers : resolved'[v] <=> resolved[v] \/ (v = w /\ p = w)
  BY DEF WorkerInv, Handle, HandleUncompleted
<1>5. phase' = phase /\ mislaid' = mislaid
  BY DEF Handle, HandleUncompleted
<1> HIDE DEF p
<1>6. \A v \in Workers : job[v] = "none" <=> job'[v] = "none"
  BY <1>1, <1>2
<1>7. \A v \in Workers : hand'[v] # Empty =>
       phase'[v] \in {"working", "running", "stopping"} /\ job'[hand'[v]] \notin {"none", "created"}
  BY <1>2, <1>3, <1>5 DEF WorkerInv, IsLive
<1>8. ASSUME NEW v \in Workers, phase'[v] \in {"working", "running"}, job'[v] # "none", ~resolved'[v]
      PROVE  IsOnItsWay(v)'
  <2>1. IsOnItsWay(v)
    BY <1>4, <1>5, <1>6, <1>8 DEF WorkerInv
  <2>2. ~(v = w /\ p = w)
    BY <1>4, <1>8
  <2>3. hand[v] = v => hand'[v] = v
    BY <1>3, <2>2 DEF p
  <2>4. job[v] = "created" => job'[v] = "created"
    BY <1>1, <1>2
  <2> QED
    BY <1>5, <2>1, <2>3, <2>4 DEF IsOnItsWay
<1>9. ReadyByOwnJob'
  BY <1>1, <1>2, <1>4 DEF WorkerInv, ReadyByOwnJob
<1> QED
  BY <1>2, <1>3, <1>4, <1>5, <1>6, <1>7, <1>8, <1>9 DEF WorkerInv, IsLive

\* Every step keeps the invariant.
LEMMA WorkerStep == WorkerInv /\ [WorkerNext]_workerVars => WorkerInv'
<1> SUFFICES ASSUME WorkerInv, [WorkerNext]_workerVars PROVE WorkerInv'
  OBVIOUS
<1>1. CASE UNCHANGED workerVars
  BY <1>1 DEF workerVars, WorkerInv, IsLive, IsOnItsWay, ReadyByOwnJob
<1>2. CASE WorkerNext
  BY <1>2, PhaseStep, KillStep, JobStep, FetchStep, HandleStep DEF WorkerNext
<1> QED
  BY <1>1, <1>2

\* However many processes came and died before, a process is ready only after
\* the queue has delivered its own job to it (worker.ts, handleReadinessJobs).
THEOREM ReadinessIsItsOwn == WorkerSpec => []ReadyByOwnJob
<1>1. WorkerInv => ReadyByOwnJob
  BY DEF WorkerInv
<1> QED
  BY <1>1, WorkerInitInv, WorkerStep, PTL DEF WorkerSpec

\* A process that runs and is not ready has its probe in the queue or in its
\* own hand, whatever was left there by others, unless the queue itself has
\* lost it (worker.ts, startWorker).
THEOREM ProbeIsNotLost == WorkerSpec => []ProbeIsOnItsWay
<1>1. WorkerInv => ProbeIsOnItsWay
  BY DEF WorkerInv, ProbeIsOnItsWay, IsOnItsWay
<1> QED
  BY <1>1, WorkerInitInv, WorkerStep, PTL DEF WorkerSpec

-----------------------------------------------------------------------------
(* The start of an API process. *)

\* IsPrefix, element by element.
BeginsWith(t, s) == Len(s) <= Len(t) /\ \A i \in 1..Len(s) : s[i] = t[i]

SchemaInv ==
  /\ history \in Seq(Names)
  /\ server \in [Servers -> Servings]
  /\ applied \in [Servers -> Seq(Names)]
  /\ \A s \in Servers : server[s] \in {"locked", "migrating"} => lock = s
  /\ \A s \in Servers : server[s] = "migrating" =>
       BeginsWith(applied[s], history) /\ BeginsWith(Migrations[s], applied[s])
  /\ \A s \in Servers : server[s] \in {"migrated", "serving"} => BeginsWith(history, Migrations[s])
  /\ StartsDoNotCollide

\* What IsPrefix (SequencesExt) says of the elements.
LEMMA PrefixByElement ==
  ASSUME NEW s \in Seq(Names), NEW t \in Seq(Names)
  PROVE  IsPrefix(s, t) <=> BeginsWith(t, s)
BY DEF IsPrefix, BeginsWith

\* What begins with the longer one begins with the shorter one.
LEMMA PrefixOfPrefix ==
  ASSUME NEW r \in Seq(Names), NEW s \in Seq(Names), NEW t \in Seq(Names),
         BeginsWith(s, r), BeginsWith(t, s)
  PROVE  BeginsWith(t, r)
BY DEF BeginsWith

\* One more migration of the list still leads to the list.
LEMMA AppendNext ==
  ASSUME NEW h \in Seq(Names), NEW a \in Seq(Names), NEW m \in Seq(Names),
         BeginsWith(a, h), BeginsWith(m, a), Len(a) < Len(m)
  PROVE  LET b == Append(a, m[Len(a) + 1])
         IN b \in Seq(Names) /\ BeginsWith(b, h) /\ BeginsWith(m, b)
<1> DEFINE b == Append(a, m[Len(a) + 1])
<1>1. Len(a) \in Nat /\ Len(h) \in Nat /\ Len(m) \in Nat /\ m[Len(a) + 1] \in Names
  OBVIOUS
<1>2. b \in Seq(Names) /\ Len(b) = Len(a) + 1 /\ b[Len(a) + 1] = m[Len(a) + 1]
  BY <1>1
<1>3. \A i \in 1..Len(a) : b[i] = a[i]
  BY <1>1
<1> HIDE DEF b
<1>4. BeginsWith(b, h)
  BY <1>1, <1>2, <1>3 DEF BeginsWith
<1>5. BeginsWith(m, b)
  BY <1>1, <1>2, <1>3 DEF BeginsWith
<1> QED
  BY <1>2, <1>4, <1>5 DEF b

\* The database is empty and no process has started.
LEMMA SchemaInitInv == SchemaInit => SchemaInv
BY DEF SchemaInit, SchemaInv, Servings, InTransaction, StartsDoNotCollide

\* A process that starts, waits, listens or gives up commits nothing.
LEMMA ServerStep ==
  ASSUME SchemaInv, NEW s \in Servers,
         \/ BeginMigration(s) \/ AcquireLock(s) \/ RefuseHistory(s)
         \/ AbandonMigration(s) \/ Listen(s) \/ ShutDown(s)
  PROVE  SchemaInv'
<1> USE DEF SchemaInv, Reaches, Servings, InTransaction, StartsDoNotCollide
<1>1. CASE BeginMigration(s)
  BY <1>1 DEF BeginMigration
<1>2. CASE AcquireLock(s)
  BY <1>2, FreeIsNoServer DEF AcquireLock
<1>3. CASE RefuseHistory(s)
  BY <1>3 DEF RefuseHistory, EndsTransaction
<1>4. CASE AbandonMigration(s)
  BY <1>4 DEF AbandonMigration, EndsTransaction
<1>5. CASE Listen(s)
  BY <1>5 DEF Listen
<1>6. CASE ShutDown(s)
  BY <1>6 DEF ShutDown
<1> QED
  BY <1>1, <1>2, <1>3, <1>4, <1>5, <1>6

\* The history that is read is the beginning of the migrations.
LEMMA ReadStep ==
  ASSUME SchemaInv, NEW s \in Servers, ReadHistory(s)
  PROVE  SchemaInv'
<1>1. Migrations[s] \in Seq(Names)
  BY MigrationsAreOrdered
<1>2. BeginsWith(Migrations[s], history) /\ BeginsWith(history, history)
  BY <1>1, PrefixByElement DEF ReadHistory, Recognizes, SchemaInv, BeginsWith
<1>3. /\ server[s] = "locked" /\ server' = [server EXCEPT ![s] = "migrating"]
      /\ applied' = [applied EXCEPT ![s] = history]
      /\ UNCHANGED <<history, lock>>
  BY DEF ReadHistory, Reaches
<1>4. server' \in [Servers -> Servings] /\ applied' \in [Servers -> Seq(Names)] /\ history' \in Seq(Names)
  BY <1>3 DEF SchemaInv, Servings, InTransaction
<1>5. ASSUME NEW t \in Servers, server'[t] = "migrating"
      PROVE  BeginsWith(applied'[t], history') /\ BeginsWith(Migrations[t], applied'[t])
  BY <1>2, <1>3, <1>5 DEF SchemaInv
<1> QED
  BY <1>3, <1>4, <1>5 DEF SchemaInv, StartsDoNotCollide

\* Nothing was committed since the read, and the others do not migrate.
LEMMA MigrateStep ==
  ASSUME SchemaInv, NEW s \in Servers, Migrate(s)
  PROVE  SchemaInv'
<1> DEFINE next == Append(applied[s], Migrations[s][Len(applied[s]) + 1])
<1>1. /\ Migrations[s] \in Seq(Names) /\ history \in Seq(Names) /\ applied[s] \in Seq(Names)
      /\ server[s] = "migrating"
  BY MigrationsAreOrdered DEF SchemaInv, Migrate, Reaches
<1>2. BeginsWith(applied[s], history) /\ BeginsWith(Migrations[s], applied[s])
  BY <1>1 DEF SchemaInv
<1>3. Len(history) <= Len(applied[s])
  BY <1>2 DEF BeginsWith
<1>4. applied' = [applied EXCEPT ![s] = next] /\ UNCHANGED <<history, server, lock>>
  BY <1>1, <1>3 DEF Migrate
<1>5. next \in Seq(Names) /\ BeginsWith(next, history) /\ BeginsWith(Migrations[s], next)
  BY <1>1, <1>2, AppendNext DEF Migrate
<1> HIDE DEF next
<1> QED
  BY <1>4, <1>5 DEF SchemaInv, StartsDoNotCollide

\* The new history begins with the old one, and is all of the migrations.
LEMMA CommitStep ==
  ASSUME SchemaInv, NEW s \in Servers, CommitMigration(s)
  PROVE  SchemaInv'
<1>1. /\ server[s] = "migrating" /\ lock = s
      /\ history \in Seq(Names) /\ applied[s] \in Seq(Names)
      /\ Migrations \in [Servers -> Seq(Names)]
  BY MigrationsAreOrdered DEF SchemaInv, CommitMigration, Reaches
<1>2. history' = applied[s] /\ applied' = [applied EXCEPT ![s] = <<>>]
  BY DEF CommitMigration, EndsTransaction
<1>3. \E end \in {"migrated", "off"} : server' = [server EXCEPT ![s] = end]
  BY DEF CommitMigration, Reaches
<1>4. BeginsWith(applied[s], history) /\ BeginsWith(applied[s], Migrations[s])
  BY <1>1 DEF SchemaInv, CommitMigration, BeginsWith
<1>5. ASSUME NEW t \in Servers, server'[t] \in {"migrated", "serving"}
      PROVE  BeginsWith(history', Migrations[t])
  <2>1. CASE t = s
    BY <1>2, <1>4, <2>1
  <2>2. CASE t # s
    <3>1. BeginsWith(history, Migrations[t])
      BY <1>3, <1>5, <2>2 DEF SchemaInv
    <3> QED
      BY <1>1, <1>2, <1>4, <3>1, PrefixOfPrefix
  <2> QED
    BY <2>1, <2>2
<1>6. \A t \in Servers : server'[t] \notin {"locked", "migrating", "collided"}
  BY <1>1, <1>3 DEF SchemaInv, StartsDoNotCollide
<1>7. server' \in [Servers -> Servings] /\ applied' \in [Servers -> Seq(Names)] /\ history' \in Seq(Names)
  BY <1>1, <1>2, <1>3 DEF SchemaInv, Servings
<1> QED
  BY <1>5, <1>6, <1>7 DEF SchemaInv, StartsDoNotCollide

\* Every step keeps the invariant.
LEMMA SchemaStep == SchemaInv /\ [SchemaNext]_schemaVars => SchemaInv'
<1> SUFFICES ASSUME SchemaInv, [SchemaNext]_schemaVars PROVE SchemaInv'
  OBVIOUS
<1>1. CASE UNCHANGED schemaVars
  BY <1>1 DEF schemaVars, SchemaInv, StartsDoNotCollide
<1>2. CASE SchemaNext
  BY <1>2, ServerStep, ReadStep, MigrateStep, CommitStep DEF SchemaNext
<1> QED
  BY <1>1, <1>2

\* However many processes start at a time, none fails because another has
\* migrated meanwhile (migrateHostedDatabase, pg_advisory_xact_lock).
THEOREM NoStartCollides == SchemaSpec => []StartsDoNotCollide
<1>1. SchemaInv => StartsDoNotCollide
  BY DEF SchemaInv
<1> QED
  BY <1>1, SchemaInitInv, SchemaStep, PTL DEF SchemaSpec

\* A process serves only from a schema that has all its migrations, whatever
\* other releases start, refuse, abandon or commit beside it (server.ts,
\* migrateHostedDatabase).
THEOREM ServerHasItsSchema == SchemaSpec => []ServesItsSchema
<1>1. SchemaInv => ServesItsSchema
  BY MigrationsAreOrdered, PrefixByElement DEF SchemaInv, ServesItsSchema
<1> QED
  BY <1>1, SchemaInitInv, SchemaStep, PTL DEF SchemaSpec

-----------------------------------------------------------------------------
(* The types of all parts, and the parts together. *)

\* A process holds a job only while it works.
LEMMA WorkerTypes == WorkerInv => WorkerTypeOK
BY DEF WorkerInv, WorkerTypeOK, States

\* What the migrations of a process begin with is one of the histories.
LEMMA BeginningIsHistory ==
  ASSUME NEW s \in Servers, NEW h \in Seq(Names), BeginsWith(Migrations[s], h)
  PROVE  h \in Histories
<1> DEFINE m == Migrations[s]
<1>1. m \in Seq(Names) /\ Len(m) \in Nat /\ Len(h) \in Nat
  BY MigrationsAreOrdered
<1>2. Len(h) <= Len(m) /\ \A i \in 1..Len(h) : h[i] = m[i]
  BY DEF BeginsWith
<1>3. \A i \in 1..Len(h) : m[i] \in Names
  BY <1>1, <1>2
<1>4. /\ SubSeq(m, 1, Len(h)) \in Seq(Names)
      /\ Len(SubSeq(m, 1, Len(h))) = Len(h)
      /\ \A i \in 1..Len(h) : SubSeq(m, 1, Len(h))[i] = m[i]
  BY <1>1, <1>3, SubSeqProperties
<1>5. h = SubSeq(m, 1, Len(h))
  BY <1>2, <1>4, SeqEqual
<1>6. Len(h) \in 0..Len(m)
  BY <1>1, <1>2
<1> DEFINE begins == [t \in Servers |-> {SubSeq(Migrations[t], 1, n) : n \in 0..Len(Migrations[t])}]
<1>7. h \in begins[s]
  BY <1>5, <1>6
<1>8. Histories = UNION {begins[t] : t \in Servers}
  BY DEF Histories
<1> HIDE DEF begins
<1> QED
  BY <1>7, <1>8

\* The empty history is the beginning of every other.
LEMMA EmptyIsHistory == <<>> \in Histories
<1>1. PICK s \in Servers : TRUE
  BY SomeServer
<1>2. Migrations[s] \in Seq(Names) /\ <<>> \in Seq(Names)
  BY MigrationsAreOrdered
<1>3. BeginsWith(Migrations[s], <<>>)
  BY <1>2 DEF BeginsWith
<1> QED
  BY <1>2, <1>3, BeginningIsHistory

\* The lock is held by exactly the process that is in its transaction, and
\* every transaction has the beginning of a release in it.
LEMMA SchemaTypes ==
  ASSUME SchemaInv, SchemaTypeOK, [SchemaNext]_schemaVars
  PROVE  SchemaTypeOK'
<1> USE EmptyIsHistory, FreeIsNoServer DEF SchemaTypeOK, Reaches, Servings, InTransaction
<1>1. CASE UNCHANGED schemaVars
  BY <1>1 DEF schemaVars
<1>2. ASSUME NEW s \in Servers, BeginMigration(s) \/ AcquireLock(s) \/ Listen(s) \/ ShutDown(s)
      PROVE  SchemaTypeOK'
  BY <1>2 DEF BeginMigration, AcquireLock, Listen, ShutDown
<1>3. ASSUME NEW s \in Servers, ReadHistory(s) PROVE SchemaTypeOK'
  BY <1>3 DEF ReadHistory
<1>4. ASSUME NEW s \in Servers, RefuseHistory(s) \/ AbandonMigration(s) PROVE SchemaTypeOK'
  BY <1>4 DEF RefuseHistory, AbandonMigration, EndsTransaction
<1>5. ASSUME NEW s \in Servers, CommitMigration(s) PROVE SchemaTypeOK'
  BY <1>5 DEF CommitMigration, EndsTransaction
<1>6. ASSUME NEW s \in Servers, Migrate(s) PROVE SchemaTypeOK'
  <2> DEFINE next == Append(applied[s], Migrations[s][Len(applied[s]) + 1])
  <2>1. CASE Len(history) > Len(applied[s])
    BY <1>6, <2>1 DEF Migrate, EndsTransaction
  <2>2. CASE ~(Len(history) > Len(applied[s]))
    <3>1. /\ server[s] = "migrating" /\ Len(applied[s]) < Len(Migrations[s])
          /\ applied' = [applied EXCEPT ![s] = next]
          /\ UNCHANGED <<history, server, lock>>
      BY <1>6, <2>2 DEF Migrate
    <3>2. next \in Seq(Names) /\ BeginsWith(Migrations[s], next)
      BY <3>1, AppendNext, MigrationsAreOrdered DEF SchemaInv
    <3>3. next \in Histories
      BY <3>2, BeginningIsHistory
    <3> HIDE DEF next
    <3> QED
      BY <3>1, <3>3
  <2> QED
    BY <2>1, <2>2
<1> QED
  BY <1>1, <1>2, <1>3, <1>4, <1>5, <1>6 DEF SchemaNext

\* A draft is there only as long as its dialog.
LEMMA WebTypes ==
  ASSUME WebInv, WebTypeOK, [WebNext]_webVars
  PROVE  WebTypeOK'
<1>1. TabIs'
  BY WebStep DEF WebInv
<1>2. /\ merchant' \in [Merchants -> Owners \cup {Nobody}]
      /\ signing' \in BOOLEAN /\ unheard' \in SUBSET HReceipts
      /\ dialog' = NoDialog => draft' = {}
  <2> USE DEF WebTypeOK, HostedReceiptsTypeOK, tablesOfReceipts
  <2>1. ASSUME NEW c \in calls, ServeSession(c) \/ ServeList(c) \/ Refuse(c)
        PROVE  UNCHANGED <<merchant, signing, unheard, dialog, draft>>
    BY <2>1 DEF ServeSession, ServeList, Refuse
  <2>2. ASSUME NEW c \in calls, ServeCreate(c)
        PROVE  /\ merchant' \in [Merchants -> Owners \cup {Nobody}]
               /\ unheard' \in SUBSET HReceipts /\ UNCHANGED <<signing, dialog, draft>>
    <3>1. c \in Call /\ c.kind = "create"
      BY <2>2 DEF ServeCreate
    <3>2. c.owner \in Owners /\ unheard' \in SUBSET HReceipts
      BY <2>2, <3>1 DEF ServeCreate, Call, WebInv, CallsInv, CallIsRight, TabIs
    <3> QED
      BY <2>2, <3>2 DEF ServeCreate, InsertReceipt
  <2>3. ASSUME NEW c \in calls, SessionArrives(c) \/ ListArrives(c) \/ CreateArrives(c)
        PROVE  /\ UNCHANGED <<merchant, unheard>> /\ signing' \in BOOLEAN
               /\ dialog' = NoDialog => draft' = {}
    <3>1. CASE SessionArrives(c)
      BY <3>1 DEF SessionArrives
    <3>2. CASE ListArrives(c)
      BY <3>2 DEF ListArrives, SignsOut, CloseDialog
    <3>3. CASE CreateArrives(c)
      BY <3>3 DEF CreateArrives, SignsOut, CloseDialog, Editing, NoDialog, Call
    <3> QED
      BY <2>3, <3>1, <3>2, <3>3
  <2>4. CASE \/ \E o \in Owners : SignIn(o)
             \/ SignOut \/ Retry \/ OpenDialog \/ Cancel \/ UNCHANGED webVars
    BY <2>4 DEF SignIn, SignOut, Retry, OpenDialog, Cancel, SignsOut, CloseDialog, Editing, NoDialog,
       webVars, tab
  <2>5. ASSUME NEW id \in HReceipts, Submit(id)
        PROVE  dialog' # NoDialog /\ UNCHANGED <<merchant, signing, unheard>>
    BY <2>5, DialogIsNoReceipt DEF Submit
  <2> QED
    BY <2>1, <2>2, <2>3, <2>4, <2>5 DEF WebNext
<1> QED
  BY <1>1, <1>2 DEF WebTypeOK, HostedReceiptsTypeOK, TabIs

\* The parts of a behaviour's cast keep what they are proved to keep, and the
\* others stand still beside them.
HostsInv ==
  /\ cast = "uploads" => HostedInv
  /\ cast = "tab" => WebInv
  /\ WorkerInv /\ SchemaInv
  /\ HostedTypeOK /\ WebTypeOK /\ SchemaTypeOK

\* All parts start in an empty database, empty queue and new tab.
LEMMA HostsInitInv == HostsInit => HostsInv
<1> SUFFICES ASSUME HostsInit PROVE HostsInv
  OBVIOUS
<1>1. HostedInv /\ WebInv /\ WorkerInv /\ SchemaInv
  BY HostedInitInv, WebInitInv, WorkerInitInv, SchemaInitInv DEF HostsInit
<1>2. HostedTypeOK
  BY <1>1 DEF HostedInv
<1>3. WebTypeOK
  BY <1>1, <1>2 DEF WebInv, TabIs, HostedTypeOK, WebTypeOK, HostsInit, WebInit
<1>4. SchemaTypeOK
  BY EmptyIsHistory, FreeIsNoServer
     DEF HostsInit, SchemaInit, SchemaTypeOK, Servings, InTransaction
<1> QED
  BY <1>1, <1>2, <1>3, <1>4 DEF HostsInv

\* A step is one of the cast, or of a part that meets no other.
LEMMA HostsStep == HostsInv /\ [HostsNext]_hosts => HostsInv'
<1> SUFFICES ASSUME HostsInv, [HostsNext]_hosts PROVE HostsInv'
  OBVIOUS
<1>1. /\ UNCHANGED cast
      /\ [WorkerNext]_workerVars /\ [SchemaNext]_schemaVars
      /\ \/ cast = "uploads" /\ HostedNext /\ UNCHANGED tab
         \/ cast = "tab" /\ WebNext /\ UNCHANGED attachments
         \/ UNCHANGED <<hostedVars, tab>>
  BY DEF HostsNext, hosts
<1>2. WorkerInv' /\ SchemaInv' /\ SchemaTypeOK'
  BY <1>1, WorkerStep, SchemaStep, SchemaTypes DEF HostsInv
<1>3. CASE cast = "uploads" /\ HostedNext /\ UNCHANGED tab
  <2>1. HostedInv'
    BY <1>3, HostedStep DEF HostsInv
  <2>2. HostedTypeOK'
    BY <2>1 DEF HostedInv
  <2>3. WebTypeOK'
    BY <1>3, <2>2 DEF HostsInv, HostedTypeOK, WebTypeOK, tab
  <2> QED
    BY <1>1, <1>2, <1>3, <2>1, <2>2, <2>3 DEF HostsInv
<1>4. CASE cast = "tab" /\ WebNext /\ UNCHANGED attachments
  <2>1. WebInv' /\ WebTypeOK'
    BY <1>4, WebStep, WebTypes DEF HostsInv
  <2>2. HostedTypeOK'
    BY <1>4, <2>1 DEF HostsInv, HostedTypeOK, WebTypeOK, attachments
  <2> QED
    BY <1>1, <1>2, <1>4, <2>1, <2>2 DEF HostsInv
<1>5. CASE UNCHANGED <<hostedVars, tab>>
  <2>1. cast = "uploads" => HostedInv'
    BY <1>5, HostedStep DEF HostsInv
  <2>2. cast = "tab" => WebInv'
    BY <1>5, WebStep DEF HostsInv, webVars, hostedVars
  <2>3. WebTypeOK' /\ HostedTypeOK'
    BY <1>5 DEF HostsInv, WebTypeOK, HostedTypeOK, HostedReceiptsTypeOK, hostedVars, tablesOfReceipts,
       attachments, tab
  <2> QED
    BY <1>1, <1>2, <2>1, <2>2, <2>3 DEF HostsInv
<1> QED
  BY <1>1, <1>3, <1>4, <1>5

\* Every request, call and process stands where its code can stand, and the
\* advisory lock is held by exactly the start that is in its transaction.
THEOREM HostsTypeCorrect == HostsSpec => []HostsTypeOK
<1>1. HostsInv => HostsTypeOK
  BY WorkerTypes DEF HostsInv, HostsTypeOK
<1> QED
  BY <1>1, HostsInitInv, HostsStep, PTL DEF HostsSpec
===============================================================================
