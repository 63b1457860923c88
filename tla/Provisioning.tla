------------------------------ MODULE Provisioning ------------------------------
(***************************************************************************)
(* provisioningservice, the bridge to DigitalOcean and RunPod: the tables  *)
(* provisioning_jobs and external_resources, the requests that create and  *)
(* delete resources, idempotent by request id, and the TTL worker that     *)
(* deletes the resources whose expires_at has passed.  A request is a      *)
(* handful of statements and one provider call with no transaction around  *)
(* them; two copies of a request, other requests and the worker interleave *)
(* freely.                                                                 *)
(***************************************************************************)
EXTENDS Naturals, FiniteSets

CONSTANTS
  Last,          \* bound: request ids are 1..Last
  Deletions,     \* the ids that DELETE requests carry; the others create
  VMRequests,    \* the creations that ask for a VM; the others ask for a pod
  Workers,       \* request handlers running at the same time
  Sweepers,      \* TTL workers, one per replica of the service
  MaxResources,  \* bound: resources the providers ever create
  BatchLimit,    \* rows one TTL pass takes (100 in the code)
  UniqueIndex,   \* is (external_id, provider, resource_type) a unique index?
  Faults         \* the failures that may happen, see FaultKinds

FaultKinds ==
  { "storage",   \* a statement fails, its context is cancelled, a restart
    "refuse",    \* a provider call fails and changed nothing
    "lost",      \* a provider call is reported as failed but took effect
    "graphql" }  \* RunPod refuses a deletion inside a 200 answer

(***************************************************************************)
(* The ids of creations are numbered in the order of their expires_at, so  *)
(* that the number of leases that have ended is all the clock there is.    *)
(***************************************************************************)
RequestIds == 1..Last
Creations == RequestIds \ Deletions
Resources == 1..MaxResources

ASSUME ProvisioningAssumption ==
  /\ Last \in Nat /\ MaxResources \in Nat /\ BatchLimit \in Nat
  /\ Deletions \subseteq RequestIds /\ VMRequests \subseteq Creations
  /\ UniqueIndex \in BOOLEAN
  /\ Faults \subseteq FaultKinds

VARIABLES
  job,      \* provisioning_jobs by request id
  row,      \* external_resources by external id: "none", "active", "deleted"
  cloud,    \* the providers' side: "none", "live" or "deleted"
  origin,   \* the request a resource was created for, 0 before
  elapsed,  \* how many expires_at lie in the past
  req,      \* the request each handler is serving
  ttl,      \* the pass each TTL worker is making
  answers   \* history: what was answered with a 2xx status

vars == <<job, row, cloud, origin, elapsed, req, ttl, answers>>

Job == [status : {"none", "running", "succeeded", "failed"}, ext : Resources \cup {0}]
Labels == {"idle", "insert", "call", "finish", "record", "fail"}
Request == [at : Labels, id : RequestIds \cup {0}, ext : Resources \cup {0}]
Pass == [at : {"idle", "pass"}, todo : SUBSET Resources, mark : Resources \cup {0}]
Answer == [id : RequestIds, ext : Resources \cup {0}]

TypeOK ==
  /\ job \in [RequestIds -> Job]
  /\ row \in [Resources -> {"none", "active", "deleted"}]
  /\ cloud \in [Resources -> {"none", "live", "deleted"}]
  /\ origin \in [Resources -> RequestIds \cup {0}]
  /\ elapsed \in 0..Last
  /\ req \in [Workers -> Request]
  /\ ttl \in [Sweepers -> Pass]
  /\ answers \subseteq Answer

Resting == [at |-> "idle", id |-> 0, ext |-> 0]
Waiting == [at |-> "idle", todo |-> {}, mark |-> 0]

Init ==
  /\ job = [q \in RequestIds |-> [status |-> "none", ext |-> 0]]
  /\ row = [r \in Resources |-> "none"]
  /\ cloud = [r \in Resources |-> "none"]
  /\ origin = [r \in Resources |-> 0]
  /\ elapsed = 0
  /\ req = [w \in Workers |-> Resting]
  /\ ttl = [s \in Sweepers |-> Waiting]
  /\ answers = {}

-----------------------------------------------------------------------------
(* Helpers *)

Over(q) == q <= elapsed                 \* expires_at <= now
IsVM(r) == origin[r] \in VMRequests
Creating(w) == req[w].id \in Creations

Goto(w, label) == req' = [req EXCEPT ![w].at = label]
Reply(w) == req' = [req EXCEPT ![w] = Resting]
Answered(q, r) == answers' = answers \cup {[id |-> q, ext |-> r]}
SetJob(q, status, r) == job' = [job EXCEPT ![q] = [status |-> status, ext |-> r]]

\* A creation takes effect at the provider: a new resource for request q.
BringUp(r, q) ==
  /\ cloud[r] = "none"
  /\ \A s \in Resources : s < r => cloud[s] # "none"
  /\ cloud' = [cloud EXCEPT ![r] = "live"]
  /\ origin' = [origin EXCEPT ![r] = q]

(***************************************************************************)
(* deleteExternal.  Deleting a droplet that is gone is an error (404); the *)
(* RunPod client takes every 200 for a success and does not look at the    *)
(* errors inside.                                                          *)
(***************************************************************************)
DeleteSucceeds(r) ==
  \/ /\ cloud[r] = "live"
     /\ cloud' = [cloud EXCEPT ![r] = "deleted"]
  \/ /\ ~IsVM(r)
     /\ cloud[r] = "deleted" \/ "graphql" \in Faults
     /\ UNCHANGED cloud

DeleteFails(r) ==
  \/ /\ "refuse" \in Faults \/ (IsVM(r) /\ cloud[r] # "live")
     /\ UNCHANGED cloud
  \/ /\ "lost" \in Faults
     /\ cloud[r] = "live"
     /\ cloud' = [cloud EXCEPT ![r] = "deleted"]

-----------------------------------------------------------------------------
(* Requests: CreateVM, CreatePod and DeleteResource *)

\* A request id that has a job is answered from it, whatever its status, with
\* a 2xx.  A creation is looked at only while its expires_at is in the future.
Repeat(q) ==
  /\ job[q].status # "none"
  /\ q \in Creations => ~Over(q)
  /\ Answered(q, job[q].ext)
  /\ UNCHANGED <<job, row, cloud, origin, elapsed, req, ttl>>

\* A read that fails is taken for a request id without a job.
Misses(q) == job[q].status = "none" \/ "storage" \in Faults

BeginCreate(w) ==
  \E q \in Creations :
    /\ req[w].at = "idle"
    /\ ~Over(q) /\ Misses(q)
    /\ req' = [req EXCEPT ![w] = [at |-> "insert", id |-> q, ext |-> 0]]
    /\ UNCHANGED <<job, row, cloud, origin, elapsed, ttl, answers>>

\* The caller names a resource that an earlier answer told it about.
BeginDelete(w) ==
  \E q \in Deletions, a \in answers :
    /\ req[w].at = "idle"
    /\ a.id \in Creations /\ a.ext # 0
    /\ Misses(q)
    /\ req' = [req EXCEPT ![w] = [at |-> "insert", id |-> q, ext |-> a.ext]]
    /\ UNCHANGED <<job, row, cloud, origin, elapsed, ttl, answers>>

\* Mutant of CreateJob: the column request_id is not unique.
CreateJobAgain(w) ==
  /\ req[w].at = "insert"
  /\ SetJob(req[w].id, "running", req[w].ext)
  /\ Goto(w, "call")
  /\ UNCHANGED <<row, cloud, origin, elapsed, ttl, answers>>

\* The column request_id is UNIQUE: the insertion of a second job fails.
CreateJob(w) ==
  /\ req[w].at = "insert"
  /\ IF job[req[w].id].status = "none"
     THEN SetJob(req[w].id, "running", req[w].ext) /\ Goto(w, "call")
     ELSE Reply(w) /\ UNCHANGED job
  /\ UNCHANGED <<row, cloud, origin, elapsed, ttl, answers>>

\* Mutant of ProviderCreates: the resource is recorded, the job left as it is.
ProviderCreatesUnfinished(w) ==
  /\ req[w].at = "call" /\ Creating(w)
  /\ \E r \in Resources :
       /\ BringUp(r, req[w].id)
       /\ req' = [req EXCEPT ![w].at = "record", ![w].ext = r]
  /\ UNCHANGED <<job, row, elapsed, ttl, answers>>

ProviderCreates(w) ==
  /\ req[w].at = "call" /\ Creating(w)
  /\ \E r \in Resources :
       /\ BringUp(r, req[w].id)
       /\ req' = [req EXCEPT ![w].at = "finish", ![w].ext = r]
  /\ UNCHANGED <<job, row, elapsed, ttl, answers>>

ProviderCreateFails(w) ==
  /\ req[w].at = "call" /\ Creating(w)
  /\ \/ "refuse" \in Faults /\ UNCHANGED <<cloud, origin>>
     \/ "lost" \in Faults /\ \E r \in Resources : BringUp(r, req[w].id)
  /\ Goto(w, "fail")
  /\ UNCHANGED <<job, row, elapsed, ttl, answers>>

ProviderDeletes(w) ==
  /\ req[w].at = "call" /\ ~Creating(w)
  /\ \/ DeleteSucceeds(req[w].ext) /\ Goto(w, "finish")
     \/ DeleteFails(req[w].ext) /\ Goto(w, "fail")
  /\ UNCHANGED <<job, row, origin, elapsed, ttl, answers>>

\* Only a creation goes on to write the resource.
MarkJobSucceeded(w) ==
  /\ req[w].at = "finish"
  /\ SetJob(req[w].id, "succeeded", req[w].ext)
  /\ IF Creating(w)
     THEN Goto(w, "record") /\ UNCHANGED answers
     ELSE Reply(w) /\ Answered(req[w].id, req[w].ext)
  /\ UNCHANGED <<row, cloud, origin, elapsed, ttl>>

\* Mutant of UpsertExternalResource: the job's status goes into the resource.
UpsertJobStatus(w) ==
  /\ req[w].at = "record"
  /\ row' = [row EXCEPT ![req[w].ext] = job[req[w].id].status]
  /\ Answered(req[w].id, req[w].ext)
  /\ Reply(w)
  /\ UNCHANGED <<job, cloud, origin, elapsed, ttl>>

\* ON CONFLICT needs a unique index to refer to: without one the statement
\* fails, and the handler answers with its error.
UpsertExternalResource(w) ==
  /\ req[w].at = "record"
  /\ IF UniqueIndex
     THEN /\ row' = [row EXCEPT ![req[w].ext] = "active"]
          /\ Answered(req[w].id, req[w].ext)
     ELSE UNCHANGED <<row, answers>>
  /\ Reply(w)
  /\ UNCHANGED <<job, cloud, origin, elapsed, ttl>>

\* The error of MarkJobFailed is dropped; next_retry_at is read by nobody.
MarkJobFailed(w) ==
  /\ req[w].at = "fail"
  /\ \/ SetJob(req[w].id, "failed", job[req[w].id].ext)
     \/ "storage" \in Faults /\ UNCHANGED job
  /\ Reply(w)
  /\ UNCHANGED <<row, cloud, origin, elapsed, ttl, answers>>

\* A failing statement, a caller that hung up or a restart ends a handler
\* where it stands.
Abandon(w) ==
  /\ "storage" \in Faults
  /\ req[w].at # "idle"
  /\ Reply(w)
  /\ UNCHANGED <<job, row, cloud, origin, elapsed, ttl, answers>>

-----------------------------------------------------------------------------
(***************************************************************************)
(* RunTTLPass.  The row locks of LockExpiredResources are gone when its    *)
(* statement is over, so that the passes of two replicas may overlap.      *)
(***************************************************************************)

\* Mutant of Expired: expires_at is not compared.
ExpiredAnyTime == {r \in Resources : row[r] = "active"}

Expired == {r \in Resources : row[r] = "active" /\ Over(origin[r])}

\* ORDER BY expires_at ASC LIMIT BatchLimit
Batch == {r \in Expired : Cardinality({s \in Expired : origin[s] < origin[r]}) < BatchLimit}

LockExpiredResources(s) ==
  /\ ttl[s].at = "idle"
  /\ ttl' = [ttl EXCEPT ![s].at = "pass", ![s].todo = Batch]
  /\ UNCHANGED <<job, row, cloud, origin, elapsed, req, answers>>

\* The join gives the batch in no particular order.
TTLDeletes(s) ==
  \E r \in ttl[s].todo :
    /\ ttl[s].mark = 0
    /\ DeleteSucceeds(r)
    /\ ttl' = [ttl EXCEPT ![s].todo = @ \ {r}, ![s].mark = r]
    /\ UNCHANGED <<job, row, origin, elapsed, req, answers>>

\* Mutant of TTLDeleteFails: the row of a failed deletion is retired as well.
TTLDeleteFailsMarked(s) ==
  \E r \in ttl[s].todo :
    /\ ttl[s].mark = 0
    /\ DeleteFails(r)
    /\ ttl' = [ttl EXCEPT ![s].todo = @ \ {r}, ![s].mark = r]
    /\ UNCHANGED <<job, row, origin, elapsed, req, answers>>

\* MarkExternalResourceDeleteError only writes last_error: the row stays due.
TTLDeleteFails(s) ==
  \E r \in ttl[s].todo :
    /\ ttl[s].mark = 0
    /\ DeleteFails(r)
    /\ ttl' = [ttl EXCEPT ![s].todo = @ \ {r}]
    /\ UNCHANGED <<job, row, origin, elapsed, req, answers>>

MarkExternalResourceDeleted(s) ==
  /\ ttl[s].mark # 0
  /\ row' = [row EXCEPT ![ttl[s].mark] = "deleted"]
  /\ ttl' = [ttl EXCEPT ![s].mark = 0]
  /\ UNCHANGED <<job, cloud, origin, elapsed, req, answers>>

EndPass(s) ==
  /\ ttl[s].at = "pass" /\ ttl[s].todo = {} /\ ttl[s].mark = 0
  /\ ttl' = [ttl EXCEPT ![s] = Waiting]
  /\ UNCHANGED <<job, row, cloud, origin, elapsed, req, answers>>

\* A failing statement or a restart ends the pass.
AbandonPass(s) ==
  /\ "storage" \in Faults
  /\ ttl[s].at # "idle"
  /\ ttl' = [ttl EXCEPT ![s] = Waiting]
  /\ UNCHANGED <<job, row, cloud, origin, elapsed, req, answers>>

LeaseEnds ==
  /\ elapsed < Last
  /\ elapsed' = elapsed + 1
  /\ UNCHANGED <<job, row, cloud, origin, req, ttl, answers>>

-----------------------------------------------------------------------------

Serve(w) ==
  \/ CreateJob(w)
  \/ ProviderCreates(w) \/ ProviderCreateFails(w) \/ ProviderDeletes(w)
  \/ MarkJobSucceeded(w) \/ UpsertExternalResource(w) \/ MarkJobFailed(w)

RunTTLPass(s) ==
  \/ LockExpiredResources(s) \/ TTLDeletes(s) \/ TTLDeleteFails(s)
  \/ MarkExternalResourceDeleted(s) \/ EndPass(s)

Next ==
  \/ \E q \in RequestIds : Repeat(q)
  \/ \E w \in Workers : BeginCreate(w) \/ BeginDelete(w) \/ Serve(w) \/ Abandon(w)
  \/ \E s \in Sweepers : RunTTLPass(s) \/ AbandonPass(s)
  \/ LeaseEnds

Spec == Init /\ [][Next]_vars

(***************************************************************************)
(* Time passes, a handler that was started runs on, and the ticker of the  *)
(* TTL worker keeps firing.  Nobody has to send or repeat a request.       *)
(***************************************************************************)
FairSpec ==
  /\ Spec
  /\ WF_vars(LeaseEnds)
  /\ \A w \in Workers : WF_vars(Serve(w))
  /\ \A s \in Sweepers : WF_vars(RunTTLPass(s))

-----------------------------------------------------------------------------
(* Safety *)

\* Idempotent jobs: however often and however concurrently a request is sent,
\* and whatever fails, it creates at most one resource (the lookup in CreateVM
\* is not enough, the UNIQUE request_id is).
OneResourcePerRequest ==
  \A r, s \in Resources : origin[r] # 0 /\ origin[r] = origin[s] => r = s

\* What the TTL worker works from was really created and acknowledged by its
\* job: a recorded resource is the one its own request's job names.
RecordedIsAcknowledged ==
  \A r \in Resources :
    row[r] # "none" => /\ origin[r] # 0
                       /\ job[origin[r]] = [status |-> "succeeded", ext |-> r]

\* Nothing is deleted before its lease ends unless a request asked for it.
DeletedOnlyWhenDue ==
  \A r \in Resources :
    cloud[r] = "deleted" =>
      Over(origin[r]) \/ \E q \in Deletions : job[q].status # "none" /\ job[q].ext = r

\* A row the TTL worker has retired belongs to a droplet that is gone
\* (RunTTLPass marks a row only after DeleteVM succeeded).
RetiredIsGone ==
  \A r \in Resources : row[r] = "deleted" /\ IsVM(r) => cloud[r] = "deleted"

(***************************************************************************)
(* The inductive invariant behind the first two.                           *)
(***************************************************************************)
Owning == {"call", "finish", "record", "fail"}

\* A handler that has inserted its job finds it as it left it.
OwnersConsistent ==
  \A w \in Workers :
    LET q == req[w].id  r == req[w].ext IN
    /\ req[w].at # "idle" => q \in RequestIds
    /\ req[w].at \in {"call", "finish", "fail"} => job[q].status = "running"
    /\ req[w].at = "call" => \A s \in Resources : origin[s] # q
    /\ req[w].at \in {"finish", "record"} /\ q \in Creations
         => r \in Resources /\ origin[r] = q
    /\ req[w].at = "record" =>
         q \in Creations /\ job[q] = [status |-> "succeeded", ext |-> r]

\* Only one handler ever works on the job of a request.
OneOwner ==
  \A v, w \in Workers :
    /\ req[v].at \in Owning /\ req[w].at \in Owning
    /\ req[v].id = req[w].id
    => v = w

\* A resource was created for a request that has a job.
OriginsConsistent ==
  \A r \in Resources :
    /\ cloud[r] = "none" => origin[r] = 0
    /\ origin[r] # 0 => job[origin[r]].status # "none"

\* A batch may be stale, but a row that was there still is.
BatchesConsistent ==
  \A s \in Sweepers :
    /\ \A r \in ttl[s].todo : row[r] # "none"
    /\ ttl[s].mark # 0 => row[ttl[s].mark] # "none"

ProvisioningInv ==
  /\ TypeOK
  /\ OwnersConsistent
  /\ OneOwner
  /\ OriginsConsistent
  /\ BatchesConsistent
  /\ OneResourcePerRequest
  /\ RecordedIsAcknowledged

\* Liveness, under FairSpec.  TTL cleanup: a resource whose lease has ended
\* does not stay up for ever (RunTTLPass sees only what is in the table
\* external_resources, and UpsertExternalResource has to get it there).
EphemeralReaped ==
  \A r \in Resources :
    (cloud[r] = "live" /\ Over(origin[r])) ~> (cloud[r] # "live")
================================================================================
