------------------------------- MODULE MCHosted -------------------------------
(***************************************************************************)
(* The hosted parts on small instances, in one run.  The cast of a         *)
(* behaviour, chosen in its first state, is the part that takes steps in   *)
(* it: the parts meet in the tables only, so what one of them may find     *)
(* there is what Init and the other members of its cast can leave.         *)
(***************************************************************************)
EXTENDS HostedAttachments, WebClient, Worker, HostedSchema, TLC

VARIABLE cast

Casts == {"uploads", "tab", "worker", "schema"}

hosts == <<hostedVars, tab, workerVars, schemaVars, cast>>

HostsInit ==
  /\ cast \in Casts
  /\ HostedInit /\ WebInit /\ WorkerInit /\ SchemaInit

HostsNext ==
  /\ UNCHANGED cast
  /\ \/ /\ cast = "uploads" /\ HostedNext
        /\ UNCHANGED <<tab, workerVars, schemaVars>>
     \/ /\ cast = "tab" /\ WebNext
        /\ UNCHANGED <<attachments, workerVars, schemaVars>>
     \/ /\ cast = "worker" /\ WorkerNext
        /\ UNCHANGED <<hostedVars, tab, schemaVars>>
     \/ /\ cast = "schema" /\ SchemaNext
        /\ UNCHANGED <<hostedVars, tab, workerVars>>

HostsSpec == HostsInit /\ [][HostsNext]_hosts

\* Every part keeps its types: a request, a call or a process stands where its
\* code can stand, and the lock is held by exactly the start that migrates.
HostsTypeOK == HostedTypeOK /\ WebTypeOK /\ WorkerTypeOK /\ SchemaTypeOK

CONSTANTS o1, o2, r1, r2, m1, m2, d1, b1, b2, q1, q2, w1, w2, w3, s1, s2, s3

\* Two files of the kind of a PDF.
OneFormat == [b \in Bytes |-> "pdf"]

\* A release, the next one, and one that went another way.
ThreeReleases == s1 :> <<"a">> @@ s2 :> <<"a", "b">> @@ s3 :> <<"a", "c">>

\* At most one reference is given up, and at most one object is taken by a
\* DELETE that was sent again; a behaviour is followed to its second.
FewFailures == Cardinality(leaked) <= 1 /\ Cardinality(taken) <= 1

Symmetric == Permutations(Owners) \cup Permutations(HReceipts) \cup Permutations(Bytes)
=============================================================================
