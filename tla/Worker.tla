-------------------------------- MODULE Worker --------------------------------
(***************************************************************************)
(* The worker process of the hosted system: startWorker and its runtime    *)
(* over a pg-boss queue in PostgreSQL, which is external.                  *)
(*                                                                         *)
(* A process sends one job with a probe of its own and is ready when its   *)
(* own handler receives that job.  The queue does not know whose probe a   *)
(* job is: any process that works on it may fetch it.  Jobs outlive the    *)
(* processes.                                                              *)
(***************************************************************************)
EXTENDS Naturals, FiniteSets

CONSTANT Workers    \* processes, each started at most once, and their probes

VARIABLES
  phase,        \* where startWorker or its runtime stands
  job,          \* state of the job with a process's probe
  hand,         \* the job a handler has been given, and not yet finished
  resolved,     \* the readiness promise is resolved
  mislaid       \* history: probes that no process was given: claimed without
                \* an answer, or past their retention

workerVars == <<phase, job, hand, resolved, mislaid>>

Empty == "empty hand"

ASSUME HandsAreEmpty == Empty \notin Workers

Phases ==
  {"new", "starting", "started", "queue", "working", "running", "stopping", "ended"}

WorkerTypeOK ==
  /\ phase \in [Workers -> Phases]
  /\ job \in [Workers -> {"none", "created", "active", "completed", "failed"}]
  /\ hand \in [Workers -> Workers \cup {Empty}]
  /\ resolved \in [Workers -> BOOLEAN]
  /\ mislaid \in SUBSET Workers
  /\ \A w \in Workers : hand[w] # Empty => phase[w] \in {"working", "running", "stopping"}

WorkerInit ==
  /\ phase = [w \in Workers |-> "new"]
  /\ job = [w \in Workers |-> "none"]
  /\ hand = [w \in Workers |-> Empty]
  /\ resolved = [w \in Workers |-> FALSE]
  /\ mislaid = {}

Goes(w, from, to) == phase[w] = from /\ phase' = [phase EXCEPT ![w] = to]

\* Only one process is deployed at a time.
Alone(w) == \A v \in Workers \ {w} : phase[v] \in {"new", "ended"}

StartWorker(w) ==
  /\ Alone(w)
  /\ Goes(w, "new", "starting")
  /\ UNCHANGED <<job, hand, resolved, mislaid>>

BossStarts(w) ==
  /\ Goes(w, "starting", "started")
  /\ UNCHANGED <<job, hand, resolved, mislaid>>

CreateQueue(w) ==
  /\ Goes(w, "started", "queue")
  /\ UNCHANGED <<job, hand, resolved, mislaid>>

\* boss.work: from here on the process fetches.
Work(w) ==
  /\ Goes(w, "queue", "working")
  /\ UNCHANGED <<job, hand, resolved, mislaid>>

\* boss.send.  The job may be fetched before the answer is there.
Send(w) ==
  /\ phase[w] = "working"
  /\ job[w] = "none"
  /\ job' = [job EXCEPT ![w] = "created"]
  /\ UNCHANGED <<phase, hand, resolved, mislaid>>

ReturnRuntime(w) ==
  /\ job[w] # "none"
  /\ Goes(w, "working", "running")
  /\ UNCHANGED <<job, hand, resolved, mislaid>>

\* A call of startWorker fails, the send gives no identifier: the boss is
\* stopped if it was started.
FailStart(w) ==
  /\ \/ Goes(w, "starting", "ended")
     \/ \E from \in {"started", "queue", "working"} : Goes(w, from, "stopping")
  /\ UNCHANGED <<job, hand, resolved, mislaid>>

Fetches(w) == phase[w] \in {"working", "running"}

\* One job at a time, of any process.
Fetch(w, p) ==
  /\ Fetches(w)
  /\ hand[w] = Empty
  /\ job[p] = "created"
  /\ job' = [job EXCEPT ![p] = "active"]
  /\ hand' = [hand EXCEPT ![w] = p]
  /\ UNCHANGED <<phase, resolved, mislaid>>

\* The claim is committed and its answer lost: the job is active and in no
\* hand, and the process goes on to fetch.
FetchUnanswered(w, p) ==
  /\ Fetches(w)
  /\ hand[w] = Empty
  /\ job[p] = "created"
  /\ job' = [job EXCEPT ![p] = "active"]
  /\ mislaid' = mislaid \cup {p}
  /\ UNCHANGED <<phase, hand, resolved>>

\* Mutant: any valid job makes the process ready.
HandleAny(w) ==
  /\ hand[w] # Empty
  /\ resolved' = [resolved EXCEPT ![w] = TRUE]
  /\ hand' = [hand EXCEPT ![w] = Empty]
  /\ job' = [job EXCEPT ![hand[w]] = IF @ = "active" THEN "completed" ELSE @]
  /\ UNCHANGED <<phase, mislaid>>

\* Mutant: a probe that comes before the send is answered is not looked for.
HandleLate(w) ==
  /\ hand[w] # Empty
  /\ resolved' = [resolved EXCEPT ![w] = @ \/ (hand[w] = w /\ phase[w] = "running")]
  /\ hand' = [hand EXCEPT ![w] = Empty]
  /\ job' = [job EXCEPT ![hand[w]] = IF @ = "active" THEN "completed" ELSE @]
  /\ UNCHANGED <<phase, mislaid>>

\* handleReadinessJobs, and the completion that follows it, which has no
\* effect on a job that has expired meanwhile.
Handle(w) ==
  /\ hand[w] # Empty
  /\ resolved' = [resolved EXCEPT ![w] = @ \/ hand[w] = w]
  /\ hand' = [hand EXCEPT ![w] = Empty]
  /\ job' = [job EXCEPT ![hand[w]] = IF @ = "active" THEN "completed" ELSE @]
  /\ UNCHANGED <<phase, mislaid>>

\* The completion fails: the job stays active until it expires.
HandleUncompleted(w) ==
  /\ hand[w] # Empty
  /\ resolved' = [resolved EXCEPT ![w] = @ \/ hand[w] = w]
  /\ hand' = [hand EXCEPT ![w] = Empty]
  /\ UNCHANGED <<phase, job, mislaid>>

\* expireInSeconds with retryLimit 0.
Expire(p) ==
  /\ job[p] = "active"
  /\ job' = [job EXCEPT ![p] = "failed"]
  /\ UNCHANGED <<phase, hand, resolved, mislaid>>

\* retentionSeconds: nobody fetched for that long, or could.
Lapse(p) ==
  /\ job[p] = "created"
  /\ job' = [job EXCEPT ![p] = "failed"]
  /\ mislaid' = mislaid \cup {p}
  /\ UNCHANGED <<phase, hand, resolved>>

\* stop, after a signal; a second call does nothing.
Stop(w) ==
  /\ Goes(w, "running", "stopping")
  /\ UNCHANGED <<job, hand, resolved, mislaid>>

\* boss.stop is graceful: it waits for the handler.
Close(w) ==
  /\ hand[w] = Empty
  /\ Goes(w, "stopping", "ended")
  /\ UNCHANGED <<job, hand, resolved, mislaid>>

\* The process is killed, or the graceful stop times out.
Kill(w) ==
  /\ phase[w] \notin {"new", "ended"}
  /\ phase' = [phase EXCEPT ![w] = "ended"]
  /\ hand' = [hand EXCEPT ![w] = Empty]
  /\ UNCHANGED <<job, resolved, mislaid>>

WorkerNext ==
  \E w \in Workers :
    \/ StartWorker(w) \/ BossStarts(w) \/ CreateQueue(w) \/ Work(w) \/ Send(w)
    \/ ReturnRuntime(w) \/ FailStart(w)
    \/ \E p \in Workers : Fetch(w, p) \/ FetchUnanswered(w, p)
    \/ Handle(w) \/ HandleUncompleted(w)
    \/ Expire(w) \/ Lapse(w) \/ Stop(w) \/ Close(w) \/ Kill(w)

WorkerSpec == WorkerInit /\ [][WorkerNext]_workerVars

-----------------------------------------------------------------------------
(* Properties. *)

\* A process is ready only after the queue has delivered its own job to it,
\* although jobs of processes that died are delivered to it as well
\* (ARCHITECTURE, "reaches readiness only when the handler receives that job").
ReadyByOwnJob == \A w \in Workers : resolved[w] => job[w] \notin {"none", "created"}

\* The probe of a process that runs and is not ready is still to be fetched
\* or in its hand, whatever was left in the queue: no other process has had
\* it, and no handler has let it pass.  Only the queue may have lost it, by a
\* claim that was not answered or by its retention.  A process that runs
\* beside another has no such promise.
ProbeIsOnItsWay ==
  \A w \in Workers : phase[w] = "running" /\ ~resolved[w] =>
    job[w] = "created" \/ hand[w] = w \/ w \in mislaid
=============================================================================
