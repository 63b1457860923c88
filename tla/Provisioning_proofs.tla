-------------------------- MODULE Provisioning_proofs --------------------------
(***************************************************************************)
(* Proofs about Provisioning, for every number of requests, resources,     *)
(* handlers and TTL workers, with or without the unique index, and for     *)
(* every set of faults.                                                    *)
(***************************************************************************)
EXTENDS Provisioning, TLAPS

(***************************************************************************)
(* Facts about the helpers                                                 *)
(***************************************************************************)

\* Request ids are positive, and so are resources: 0 stands for none.
LEMMA Ids ==
  /\ Creations \subseteq RequestIds /\ Deletions \subseteq RequestIds
  /\ 0 \notin RequestIds /\ 0 \notin Resources
  BY ProvisioningAssumption DEF Creations, RequestIds, Resources

\* The ways a handler's request changes keep it a request.
LEMMA ReplyTyped ==
  ASSUME TypeOK, NEW w \in Workers, Reply(w)
  PROVE  /\ req' \in [Workers -> Request]
         /\ req'[w] = Resting /\ \A v \in Workers : v # w => req'[v] = req[v]
  BY DEF TypeOK, Reply, Resting, Request, Labels

LEMMA GotoTyped ==
  ASSUME TypeOK, NEW w \in Workers, NEW label \in Labels, Goto(w, label)
  PROVE  /\ req' \in [Workers -> Request]
         /\ req'[w].at = label /\ req'[w].id = req[w].id /\ req'[w].ext = req[w].ext
         /\ \A v \in Workers : v # w => req'[v] = req[v]
  BY DEF TypeOK, Goto, Request

LEMMA NewRequestTyped ==
  ASSUME TypeOK, NEW w \in Workers, NEW label \in Labels, NEW q \in RequestIds,
         NEW r \in Resources \cup {0},
         req' = [req EXCEPT ![w] = [at |-> label, id |-> q, ext |-> r]]
  PROVE  /\ req' \in [Workers -> Request]
         /\ req'[w] = [at |-> label, id |-> q, ext |-> r]
         /\ \A v \in Workers : v # w => req'[v] = req[v]
<1>1. [at |-> label, id |-> q, ext |-> r] \in Request  BY DEF Request
<1> QED  BY <1>1 DEF TypeOK

\* Writing a job changes that job and no other.
LEMMA SetJobTyped ==
  ASSUME TypeOK, NEW q \in RequestIds, NEW r \in Resources \cup {0},
         NEW st \in {"running", "succeeded", "failed"}, SetJob(q, st, r)
  PROVE  /\ job' \in [RequestIds -> Job]
         /\ job'[q] = [status |-> st, ext |-> r] /\ job'[q].status = st
         /\ \A p \in RequestIds : p # q => job'[p] = job[p]
<1>1. [status |-> st, ext |-> r] \in Job  BY DEF Job
<1> QED  BY <1>1 DEF TypeOK, SetJob

\* A creation gives one resource without an origin its origin.
LEMMA BringUpFacts ==
  ASSUME TypeOK, NEW r \in Resources, NEW q \in RequestIds, BringUp(r, q)
  PROVE  /\ cloud[r] = "none"
         /\ cloud' \in [Resources -> {"none", "live", "deleted"}] /\ cloud'[r] # "none"
         /\ origin' \in [Resources -> RequestIds \cup {0}] /\ origin'[r] = q
         /\ \A s \in Resources : s # r => cloud'[s] = cloud[s] /\ origin'[s] = origin[s]
  BY DEF TypeOK, BringUp

\* No outcome of a deletion makes a resource look as if it had never been.
LEMMA DeleteFacts ==
  ASSUME TypeOK, NEW r, DeleteSucceeds(r) \/ DeleteFails(r)
  PROVE  /\ cloud' \in [Resources -> {"none", "live", "deleted"}]
         /\ \A s \in Resources : cloud'[s] = "none" => cloud[s] = "none"
  BY DEF TypeOK, DeleteSucceeds, DeleteFails

-----------------------------------------------------------------------------
(* Type correctness *)

LEMMA TypeInit == Init => TypeOK
  BY ProvisioningAssumption
  DEF Init, TypeOK, Job, Request, Labels, Pass, Resting, Waiting, RequestIds

LEMMA TypeRequest ==
  ASSUME TypeOK, OwnersConsistent, NEW w \in Workers,
         BeginCreate(w) \/ BeginDelete(w) \/ Serve(w) \/ Abandon(w)
  PROVE  TypeOK'
<1>0. /\ req[w].at # "idle" => req[w].id \in RequestIds
      /\ req[w].ext \in Resources \cup {0}
      /\ \A q \in RequestIds : job[q].ext \in Resources \cup {0}
  BY DEF OwnersConsistent, TypeOK, Request, Job
<1>1. CASE BeginCreate(w)
  BY <1>1, Ids, NewRequestTyped DEF BeginCreate, TypeOK, Labels
<1>2. CASE BeginDelete(w)
  <2>1. PICK q \in Deletions, a \in answers :
          req' = [req EXCEPT ![w] = [at |-> "insert", id |-> q, ext |-> a.ext]]
    BY <1>2 DEF BeginDelete
  <2>2. a.ext \in Resources \cup {0}  BY DEF TypeOK, Answer
  <2>3. req' \in [Workers -> Request]
    BY <2>1, <2>2, Ids, NewRequestTyped DEF Labels
  <2> QED  BY <1>2, <2>3 DEF BeginDelete, TypeOK
<1>3. CASE CreateJob(w)
  <2>1. req' \in [Workers -> Request]
    BY <1>3, ReplyTyped, GotoTyped DEF CreateJob, Labels
  <2>2. job' \in [RequestIds -> Job]
    BY <1>0, <1>3, SetJobTyped DEF CreateJob, TypeOK
  <2> QED  BY <1>3, <2>1, <2>2 DEF CreateJob, TypeOK
<1>4. CASE ProviderCreates(w)
  <2>1. PICK r \in Resources : /\ BringUp(r, req[w].id)
                               /\ req' = [req EXCEPT ![w].at = "finish", ![w].ext = r]
    BY <1>4 DEF ProviderCreates
  <2>2. req' \in [Workers -> Request]  BY <2>1 DEF TypeOK, Request, Labels
  <2> QED  BY <1>0, <1>4, <2>1, <2>2, BringUpFacts DEF ProviderCreates, TypeOK
<1>5. CASE ProviderCreateFails(w)
  <2>1. /\ cloud' \in [Resources -> {"none", "live", "deleted"}]
        /\ origin' \in [Resources -> RequestIds \cup {0}]
    BY <1>0, <1>5, BringUpFacts DEF ProviderCreateFails, TypeOK
  <2> QED  BY <1>5, <2>1, GotoTyped DEF ProviderCreateFails, TypeOK, Labels
<1>6. CASE ProviderDeletes(w)
  <2>1. cloud' \in [Resources -> {"none", "live", "deleted"}]
    BY <1>6, DeleteFacts DEF ProviderDeletes
  <2>2. req' \in [Workers -> Request]
    BY <1>6, GotoTyped DEF ProviderDeletes, Labels
  <2> QED  BY <1>6, <2>1, <2>2 DEF ProviderDeletes, TypeOK
<1>7. CASE MarkJobSucceeded(w)
  <2>1. job' \in [RequestIds -> Job]
    BY <1>0, <1>7, SetJobTyped DEF MarkJobSucceeded
  <2>2. req' \in [Workers -> Request]
    BY <1>7, ReplyTyped, GotoTyped DEF MarkJobSucceeded, Labels
  <2>3. answers' \subseteq Answer
    BY <1>0, <1>7 DEF MarkJobSucceeded, Answered, TypeOK, Answer
  <2> QED  BY <1>7, <2>1, <2>2, <2>3 DEF MarkJobSucceeded, TypeOK
<1>8. CASE UpsertExternalResource(w)
  <2>1. answers' \subseteq Answer
    BY <1>0, <1>8 DEF UpsertExternalResource, Answered, TypeOK, Answer
  <2>2. row' \in [Resources -> {"none", "active", "deleted"}]
    BY <1>8 DEF UpsertExternalResource, TypeOK
  <2> QED  BY <1>8, <2>1, <2>2, ReplyTyped DEF UpsertExternalResource, TypeOK
<1>9. CASE MarkJobFailed(w)
  <2>1. job' \in [RequestIds -> Job]
    BY <1>0, <1>9, SetJobTyped DEF MarkJobFailed, TypeOK
  <2> QED  BY <1>9, <2>1, ReplyTyped DEF MarkJobFailed, TypeOK
<1>10. CASE Abandon(w)
  BY <1>10, ReplyTyped DEF Abandon, TypeOK
<1> QED
  BY <1>1, <1>2, <1>3, <1>4, <1>5, <1>6, <1>7, <1>8, <1>9, <1>10 DEF Serve

\* What a TTL worker, the clock or a repeated request does: no job, no origin
\* and no handler changes, and no resource or row appears.
Beside ==
  \/ \E q \in RequestIds : Repeat(q)
  \/ \E s \in Sweepers : RunTTLPass(s) \/ AbandonPass(s)
  \/ LeaseEnds

LEMMA BesideFacts ==
  ASSUME TypeOK, Beside
  PROVE  /\ TypeOK'
         /\ UNCHANGED <<job, origin, req>>
         /\ \A r \in Resources : cloud'[r] = "none" => cloud[r] = "none"
<1>1. ASSUME NEW q \in RequestIds, Repeat(q)
      PROVE  TypeOK' /\ UNCHANGED <<job, cloud, origin, req>>
  <2>1. job[q].ext \in Resources \cup {0}  BY DEF TypeOK, Job
  <2> QED  BY <1>1, <2>1 DEF Repeat, Answered, TypeOK, Answer
<1>2. CASE LeaseEnds
  BY <1>2, ProvisioningAssumption DEF LeaseEnds, TypeOK
<1>3. ASSUME NEW s \in Sweepers, RunTTLPass(s) \/ AbandonPass(s)
      PROVE  /\ TypeOK'
             /\ UNCHANGED <<job, origin, req>>
             /\ \A r \in Resources : cloud'[r] = "none" => cloud[r] = "none"
  <2>0. ttl[s] \in Pass  BY DEF TypeOK
  <2>1. CASE LockExpiredResources(s)
    <3>1. Batch \in SUBSET Resources  BY DEF Batch, Expired
    <3> QED  BY <2>0, <2>1, <3>1 DEF LockExpiredResources, TypeOK, Pass
  <2>2. CASE TTLDeletes(s)
    <3>1. PICK r \in ttl[s].todo :
            /\ DeleteSucceeds(r)
            /\ ttl' = [ttl EXCEPT ![s].todo = @ \ {r}, ![s].mark = r]
      BY <2>2 DEF TTLDeletes
    <3>2. ttl' \in [Sweepers -> Pass]  BY <2>0, <3>1 DEF TypeOK, Pass
    <3> QED  BY <2>2, <3>1, <3>2, DeleteFacts DEF TTLDeletes, TypeOK
  <2>3. CASE TTLDeleteFails(s)
    <3>1. PICK r \in ttl[s].todo :
            DeleteFails(r) /\ ttl' = [ttl EXCEPT ![s].todo = @ \ {r}]
      BY <2>3 DEF TTLDeleteFails
    <3>2. ttl' \in [Sweepers -> Pass]  BY <2>0, <3>1 DEF TypeOK, Pass
    <3> QED  BY <2>3, <3>1, <3>2, DeleteFacts DEF TTLDeleteFails, TypeOK
  <2>4. CASE MarkExternalResourceDeleted(s)
    BY <2>0, <2>4 DEF MarkExternalResourceDeleted, TypeOK, Pass
  <2>5. CASE EndPass(s) \/ AbandonPass(s)
    BY <2>5 DEF EndPass, AbandonPass, Waiting, TypeOK, Pass
  <2> QED  BY <1>3, <2>1, <2>2, <2>3, <2>4, <2>5 DEF RunTTLPass
<1> QED  BY <1>1, <1>2, <1>3 DEF Beside

-----------------------------------------------------------------------------
(***************************************************************************)
(* The inductive invariant.  The UNIQUE request_id lets exactly one        *)
(* handler past the insertion of a job; that handler alone may create the  *)
(* job's resource, once, and it alone writes the job and the row.          *)
(***************************************************************************)

LEMMA InvInit == Init => ProvisioningInv
<1> SUFFICES ASSUME Init PROVE ProvisioningInv  OBVIOUS
<1>1. TypeOK  BY TypeInit
<1>2. /\ OwnersConsistent /\ OneOwner /\ OriginsConsistent /\ BatchesConsistent
      /\ OneResourcePerRequest /\ RecordedIsAcknowledged
  BY DEF Init, OwnersConsistent, OneOwner, Owning, OriginsConsistent, BatchesConsistent,
         OneResourcePerRequest, RecordedIsAcknowledged, Resting, Waiting
<1> QED  BY <1>1, <1>2 DEF ProvisioningInv

\* Nothing that runs beside the handlers makes or loses a row.
LEMMA BesideRows ==
  ASSUME TypeOK, BatchesConsistent, Beside
  PROVE  /\ \A r \in Resources : row'[r] = "none" <=> row[r] = "none"
         /\ BatchesConsistent'
<1>1. CASE UNCHANGED <<row, ttl>>
  BY <1>1 DEF BatchesConsistent
<1>2. ASSUME NEW s \in Sweepers, RunTTLPass(s) \/ AbandonPass(s)
      PROVE  /\ \A r \in Resources : row'[r] = "none" <=> row[r] = "none"
             /\ BatchesConsistent'
  <2>0. \A t \in Sweepers : ttl[t] \in Pass  BY DEF TypeOK
  <2>1. CASE LockExpiredResources(s)
    <3>1. \A r \in Batch : row[r] # "none"  BY DEF Batch, Expired
    <3> QED  BY <2>0, <2>1, <3>1 DEF LockExpiredResources, BatchesConsistent, TypeOK, Pass
  <2>2. CASE TTLDeletes(s)
    <3>1. PICK r \in ttl[s].todo : ttl' = [ttl EXCEPT ![s].todo = @ \ {r}, ![s].mark = r]
      BY <2>2 DEF TTLDeletes
    <3>2. /\ ttl'[s].todo \subseteq ttl[s].todo /\ ttl'[s].mark = r
          /\ \A t \in Sweepers : t # s => ttl'[t] = ttl[t]
      BY <2>0, <3>1 DEF TypeOK, Pass
    <3> QED  BY <2>2, <3>2 DEF TTLDeletes, BatchesConsistent
  <2>3. CASE TTLDeleteFails(s)
    <3>1. PICK r \in ttl[s].todo : ttl' = [ttl EXCEPT ![s].todo = @ \ {r}]
      BY <2>3 DEF TTLDeleteFails
    <3>2. /\ ttl'[s].todo \subseteq ttl[s].todo /\ ttl'[s].mark = ttl[s].mark
          /\ \A t \in Sweepers : t # s => ttl'[t] = ttl[t]
      BY <2>0, <3>1 DEF TypeOK, Pass
    <3> QED  BY <2>3, <3>2 DEF TTLDeleteFails, BatchesConsistent
  <2>4. CASE MarkExternalResourceDeleted(s)
    <3>1. ttl[s].mark \in Resources /\ row[ttl[s].mark] # "none"
      BY <2>0, <2>4 DEF MarkExternalResourceDeleted, BatchesConsistent, Pass
    <3>2. /\ ttl'[s].todo = ttl[s].todo /\ ttl'[s].mark = 0
          /\ \A t \in Sweepers : t # s => ttl'[t] = ttl[t]
      BY <2>0, <2>4 DEF MarkExternalResourceDeleted, TypeOK, Pass
    <3>3. \A r \in Resources : row'[r] = "none" <=> row[r] = "none"
      BY <2>4, <3>1 DEF MarkExternalResourceDeleted, TypeOK
    <3>4. \A t \in Sweepers : /\ ttl[t].todo \subseteq Resources
                              /\ ttl[t].mark \in Resources \cup {0}
      BY <2>0 DEF Pass
    <3> QED  BY <3>2, <3>3, <3>4 DEF BatchesConsistent
  <2>5. CASE EndPass(s) \/ AbandonPass(s)
    <3>1. /\ ttl'[s] = Waiting /\ UNCHANGED row
          /\ \A t \in Sweepers : t # s => ttl'[t] = ttl[t]
      BY <2>5 DEF EndPass, AbandonPass, TypeOK
    <3> QED  BY <3>1 DEF BatchesConsistent, Waiting
  <2> QED  BY <1>2, <2>1, <2>2, <2>3, <2>4, <2>5 DEF RunTTLPass
<1> QED  BY <1>1, <1>2 DEF Beside, Repeat, LeaseEnds

LEMMA InvBeside ==
  ASSUME ProvisioningInv, Beside  PROVE  ProvisioningInv'
<1> USE DEF ProvisioningInv
<1>1. /\ TypeOK' /\ UNCHANGED <<job, origin, req>>
      /\ \A r \in Resources : cloud'[r] = "none" => cloud[r] = "none"
  BY BesideFacts
<1>2. /\ \A r \in Resources : row'[r] = "none" <=> row[r] = "none"
      /\ BatchesConsistent'
  BY BesideRows
<1>3. OwnersConsistent' /\ OneOwner'  BY <1>1 DEF OwnersConsistent, OneOwner
<1>4. OriginsConsistent' /\ OneResourcePerRequest'
  BY <1>1 DEF OriginsConsistent, OneResourcePerRequest
<1>5. RecordedIsAcknowledged'  BY <1>1, <1>2 DEF RecordedIsAcknowledged
<1> QED  BY <1>1, <1>2, <1>3, <1>4, <1>5

\* Rows and origins never disappear, and a batch never grows.
LEMMA RequestBatches ==
  ASSUME TypeOK, BatchesConsistent, NEW w \in Workers,
         BeginCreate(w) \/ BeginDelete(w) \/ Serve(w) \/ Abandon(w)
  PROVE  BatchesConsistent'
<1>1. UNCHANGED ttl
  BY DEF BeginCreate, BeginDelete, Serve, CreateJob, ProviderCreates, ProviderCreateFails,
     ProviderDeletes, MarkJobSucceeded, UpsertExternalResource, MarkJobFailed, Abandon
<1>2. \A r \in Resources : row[r] # "none" => row'[r] # "none"
  BY DEF BeginCreate, BeginDelete, Serve, CreateJob, ProviderCreates, ProviderCreateFails,
     ProviderDeletes, MarkJobSucceeded, UpsertExternalResource, MarkJobFailed, Abandon,
     TypeOK
<1>3. \A s \in Sweepers : /\ ttl[s].todo \subseteq Resources
                          /\ ttl[s].mark \in Resources \cup {0}
  BY DEF TypeOK, Pass
<1> QED  BY <1>1, <1>2, <1>3 DEF BatchesConsistent

(***************************************************************************)
(* The rest of the invariant, one lemma for each kind of step a handler    *)
(* takes.  Rest is what a handler's step has to preserve beyond types and  *)
(* batches.                                                                *)
(***************************************************************************)
Rest ==
  /\ OwnersConsistent /\ OneOwner /\ OriginsConsistent
  /\ OneResourcePerRequest /\ RecordedIsAcknowledged

OthersKeep(w) == \A v \in Workers : v # w => req'[v] = req[v]
SameId(w) == req'[w].id = req[w].id

\* A step that writes no job, no row and no origin, and after which the
\* handler is not further than before.
LEMMA PassiveStep ==
  ASSUME TypeOK, Rest, NEW w \in Workers, OthersKeep(w),
         UNCHANGED <<job, row, origin>>,
         \A r \in Resources : cloud'[r] = "none" => cloud[r] = "none",
         req'[w].at # "idle" => req'[w].id \in RequestIds,
         \/ req'[w].at \in {"idle", "insert"}
         \/ req[w].at = "call" /\ req'[w].at = "fail" /\ SameId(w)
         \/ req[w].at = "call" /\ req'[w].at = "finish" /\ SameId(w) /\ ~Creating(w)
  PROVE  Rest'
<1> USE DEF Rest, OthersKeep, SameId, Creating
<1>1. OwnersConsistent'
  <2>. SUFFICES ASSUME NEW v \in Workers
                PROVE  LET q == req'[v].id  r == req'[v].ext IN
                       /\ req'[v].at # "idle" => q \in RequestIds
                       /\ req'[v].at \in {"call", "finish", "fail"} => job[q].status = "running"
                       /\ req'[v].at = "call" => \A s \in Resources : origin[s] # q
                       /\ req'[v].at \in {"finish", "record"} /\ q \in Creations
                            => r \in Resources /\ origin[r] = q
                       /\ req'[v].at = "record" =>
                            q \in Creations /\ job[q] = [status |-> "succeeded", ext |-> r]
    BY DEF OwnersConsistent
  <2>1. CASE v # w
    <3>1. req'[v] = req[v]
      BY <2>1
    <3> QED  BY <3>1 DEF OwnersConsistent
  <2>2. CASE v = w
    <3>1. CASE req'[w].at \in {"idle", "insert"}
      BY <2>2, <3>1
    <3>2. CASE req[w].at = "call" /\ req'[w].at = "fail" /\ SameId(w)
      BY <2>2, <3>2 DEF OwnersConsistent
    <3>3. CASE req[w].at = "call" /\ req'[w].at = "finish" /\ SameId(w) /\ ~Creating(w)
      BY <2>2, <3>3 DEF OwnersConsistent
    <3> QED  BY <3>1, <3>2, <3>3
  <2> QED  BY <2>1, <2>2
<1>2. OneOwner'  BY DEF OneOwner, Owning
<1>3. OriginsConsistent' /\ OneResourcePerRequest' /\ RecordedIsAcknowledged'
  BY DEF OriginsConsistent, OneResourcePerRequest, RecordedIsAcknowledged
<1> QED  BY <1>1, <1>2, <1>3

\* The insertion of the job of a request that has none.
LEMMA InsertStep ==
  ASSUME TypeOK, Rest, NEW w \in Workers, OthersKeep(w), NEW q \in RequestIds,
         q = req[w].id, job[q].status = "none", req[w].at = "insert",
         req'[w].at = "call", SameId(w),
         job'[q].status = "running",
         \A p \in RequestIds : p # q => job'[p] = job[p],
         UNCHANGED <<row, cloud, origin>>
  PROVE  Rest'
<1> USE DEF Rest, OthersKeep, SameId
<1>1. ASSUME NEW v \in Workers, req[v].at \in Owning
      PROVE  req[v].id \in RequestIds /\ req[v].id # q
  <2>1. CASE req[v].at = "record"
    <3>1. job[req[v].id] = [status |-> "succeeded", ext |-> req[v].ext]
      BY <2>1 DEF OwnersConsistent
    <3>2. job[req[v].id].status = "succeeded"  BY <3>1
    <3> QED  BY <2>1, <3>2 DEF OwnersConsistent
  <2>2. CASE req[v].at # "record"
    BY <1>1, <2>2 DEF OwnersConsistent, Owning
  <2> QED  BY <2>1, <2>2
<1>2. \A r \in Resources : origin[r] \in RequestIds \cup {0} /\ origin[r] # q
  BY Ids DEF OriginsConsistent, TypeOK
<1>3. OwnersConsistent'  BY <1>1, <1>2 DEF OwnersConsistent, Owning
<1>4. OneOwner'  BY <1>1 DEF OneOwner, Owning
<1>5. OriginsConsistent' /\ OneResourcePerRequest'
  BY <1>2 DEF OriginsConsistent, OneResourcePerRequest
<1>6. RecordedIsAcknowledged'  BY <1>2 DEF RecordedIsAcknowledged
<1> QED  BY <1>3, <1>4, <1>5, <1>6

\* A resource comes up for the request of the one handler that may create it.
LEMMA BringUpStep ==
  ASSUME TypeOK, Rest, NEW w \in Workers, OthersKeep(w), NEW r \in Resources,
         req[w].at = "call", BringUp(r, req[w].id), SameId(w),
         \/ req'[w].at = "finish" /\ req'[w].ext = r
         \/ req'[w].at = "fail",
         UNCHANGED <<job, row>>
  PROVE  Rest'
<1> USE DEF Rest, OthersKeep, SameId
<1> DEFINE q == req[w].id
<1>1. q \in RequestIds /\ q # 0 /\ job[q].status = "running"
  BY Ids DEF OwnersConsistent
<1>2. /\ cloud'[r] # "none" /\ origin[r] = 0 /\ origin'[r] = q
      /\ \A s \in Resources : s # r => cloud'[s] = cloud[s] /\ origin'[s] = origin[s]
  BY <1>1, BringUpFacts DEF OriginsConsistent
<1>3. \A s \in Resources : origin[s] # q  BY DEF OwnersConsistent
<1>4. \A v \in Workers : v # w /\ req[v].at \in Owning =>
        req[v].id \in RequestIds /\ req[v].id # q /\ req[v].id # 0
  BY Ids DEF OwnersConsistent, OneOwner, Owning
<1>5. OwnersConsistent'
  BY <1>1, <1>2, <1>4 DEF OwnersConsistent, Owning
<1>6. OneOwner'  BY DEF OneOwner, Owning
<1>7. OriginsConsistent'  BY <1>1, <1>2 DEF OriginsConsistent
<1>8. OneResourcePerRequest'  BY <1>2, <1>3 DEF OneResourcePerRequest
<1>9. RecordedIsAcknowledged'  BY <1>2 DEF RecordedIsAcknowledged
<1> QED  BY <1>5, <1>6, <1>7, <1>8, <1>9

\* The owner of a running job writes its outcome; a creation that succeeded
\* goes on to the row.
LEMMA OutcomeStep ==
  ASSUME TypeOK, Rest, NEW w \in Workers, OthersKeep(w), NEW q \in RequestIds,
         q = req[w].id, req[w].at \in {"finish", "fail"},
         job'[q].status # "none",
         \A p \in RequestIds : p # q => job'[p] = job[p],
         UNCHANGED <<row, cloud, origin>>,
         \/ req'[w].at = "idle"
         \/ /\ req[w].at = "finish" /\ req'[w].at = "record" /\ SameId(w)
            /\ req'[w].ext = req[w].ext /\ q \in Creations
            /\ job'[q] = [status |-> "succeeded", ext |-> req[w].ext]
  PROVE  Rest'
<1> USE DEF Rest, OthersKeep, SameId
<1>1. job[q].status = "running"  BY DEF OwnersConsistent
<1>2. \A v \in Workers : v # w /\ req[v].at \in Owning =>
        req[v].id \in RequestIds /\ req[v].id # q
  BY DEF OwnersConsistent, OneOwner, Owning
<1>3. \A r \in Resources : origin[r] \in RequestIds \cup {0}  BY DEF TypeOK
<1>4. OwnersConsistent'  BY <1>2 DEF OwnersConsistent, Owning
<1>5. OneOwner'  BY DEF OneOwner, Owning
<1>6. OriginsConsistent' /\ OneResourcePerRequest'
  BY <1>3 DEF OriginsConsistent, OneResourcePerRequest
<1>7. RecordedIsAcknowledged'  BY <1>1, <1>3 DEF RecordedIsAcknowledged
<1> QED  BY <1>4, <1>5, <1>6, <1>7

\* The row of an acknowledged creation.
LEMMA RecordStep ==
  ASSUME TypeOK, Rest, NEW w \in Workers, OthersKeep(w),
         req[w].at = "record", req'[w].at = "idle",
         \A r \in Resources : r # req[w].ext => row'[r] = row[r],
         UNCHANGED <<job, cloud, origin>>
  PROVE  Rest'
<1> USE DEF Rest, OthersKeep
<1>1. /\ req[w].id \in RequestIds /\ req[w].id # 0
      /\ origin[req[w].ext] = req[w].id
      /\ job[req[w].id] = [status |-> "succeeded", ext |-> req[w].ext]
  BY Ids DEF OwnersConsistent
<1>2. RecordedIsAcknowledged'  BY <1>1 DEF RecordedIsAcknowledged
<1>3. OwnersConsistent' /\ OneOwner' /\ OriginsConsistent' /\ OneResourcePerRequest'
  BY DEF OwnersConsistent, OneOwner, Owning, OriginsConsistent, OneResourcePerRequest
<1> QED  BY <1>2, <1>3

LEMMA RestRequest ==
  ASSUME TypeOK, Rest, NEW w \in Workers,
         BeginCreate(w) \/ BeginDelete(w) \/ Serve(w) \/ Abandon(w)
  PROVE  Rest'
<1>0. /\ req[w].at # "idle" => req[w].id \in RequestIds
      /\ req[w].ext \in Resources \cup {0}
      /\ \A q \in RequestIds : job[q].ext \in Resources \cup {0}
  BY DEF Rest, OwnersConsistent, TypeOK, Request, Job
<1>1. CASE BeginCreate(w)
  <2>1. PICK q \in Creations : req' = [req EXCEPT ![w] = [at |-> "insert", id |-> q, ext |-> 0]]
    BY <1>1 DEF BeginCreate
  <2>2. OthersKeep(w) /\ req'[w].at = "insert" /\ req'[w].id \in RequestIds
    BY <2>1, Ids, NewRequestTyped DEF OthersKeep, Labels
  <2> QED  BY <1>1, <2>2, PassiveStep DEF BeginCreate
<1>2. CASE BeginDelete(w)
  <2>1. PICK q \in Deletions, a \in answers :
          req' = [req EXCEPT ![w] = [at |-> "insert", id |-> q, ext |-> a.ext]]
    BY <1>2 DEF BeginDelete
  <2>2. a.ext \in Resources \cup {0}  BY DEF TypeOK, Answer
  <2>3. OthersKeep(w) /\ req'[w].at = "insert" /\ req'[w].id \in RequestIds
    BY <2>1, <2>2, Ids, NewRequestTyped DEF OthersKeep, Labels
  <2> QED  BY <1>2, <2>3, PassiveStep DEF BeginDelete
<1>3. CASE CreateJob(w)
  <2>1. CASE job[req[w].id].status = "none"
    <3>1. /\ OthersKeep(w) /\ req'[w].at = "call" /\ SameId(w)
      BY <1>3, <2>1, GotoTyped DEF CreateJob, OthersKeep, SameId, Labels
    <3>2. /\ job'[req[w].id].status = "running"
          /\ \A p \in RequestIds : p # req[w].id => job'[p] = job[p]
      BY <1>0, <1>3, <2>1, SetJobTyped DEF CreateJob
    <3> QED  BY <1>0, <1>3, <2>1, <3>1, <3>2, InsertStep DEF CreateJob
  <2>2. CASE job[req[w].id].status # "none"
    <3>1. OthersKeep(w) /\ req'[w].at = "idle"
      BY <1>3, <2>2, ReplyTyped DEF CreateJob, OthersKeep, Resting
    <3> QED  BY <1>3, <2>2, <3>1, PassiveStep DEF CreateJob
  <2> QED  BY <2>1, <2>2
<1>4. CASE ProviderCreates(w)
  <2>1. PICK r \in Resources : /\ BringUp(r, req[w].id)
                               /\ req' = [req EXCEPT ![w].at = "finish", ![w].ext = r]
    BY <1>4 DEF ProviderCreates
  <2>2. OthersKeep(w) /\ SameId(w) /\ req'[w].at = "finish" /\ req'[w].ext = r
    BY <2>1 DEF OthersKeep, SameId, TypeOK, Request
  <2> QED  BY <1>4, <2>1, <2>2, BringUpStep DEF ProviderCreates
<1>5. CASE ProviderCreateFails(w)
  <2>1. OthersKeep(w) /\ SameId(w) /\ req'[w].at = "fail"
    BY <1>5, GotoTyped DEF ProviderCreateFails, OthersKeep, SameId, Labels
  <2>2. CASE UNCHANGED <<cloud, origin>>
    BY <1>0, <1>5, <2>1, <2>2, PassiveStep DEF ProviderCreateFails, SameId
  <2>3. CASE \E r \in Resources : BringUp(r, req[w].id)
    BY <1>5, <2>1, <2>3, BringUpStep DEF ProviderCreateFails
  <2> QED  BY <1>5, <2>2, <2>3 DEF ProviderCreateFails
<1>6. CASE ProviderDeletes(w)
  <2>1. OthersKeep(w) /\ SameId(w) /\ req'[w].at \in {"finish", "fail"}
    BY <1>6, GotoTyped DEF ProviderDeletes, OthersKeep, SameId, Labels
  <2>2. \A r \in Resources : cloud'[r] = "none" => cloud[r] = "none"
    BY <1>6, DeleteFacts DEF ProviderDeletes
  <2> QED  BY <1>0, <1>6, <2>1, <2>2, PassiveStep DEF ProviderDeletes, SameId
<1>7. CASE MarkJobSucceeded(w)
  <2>1. /\ job'[req[w].id] = [status |-> "succeeded", ext |-> req[w].ext]
        /\ \A p \in RequestIds : p # req[w].id => job'[p] = job[p]
    BY <1>0, <1>7, SetJobTyped DEF MarkJobSucceeded
  <2>2. CASE Creating(w)
    <3>1. /\ OthersKeep(w) /\ SameId(w) /\ req'[w].at = "record"
          /\ req'[w].ext = req[w].ext
      BY <1>7, <2>2, GotoTyped DEF MarkJobSucceeded, OthersKeep, SameId, Labels
    <3> QED  BY <1>0, <1>7, <2>1, <2>2, <3>1, OutcomeStep DEF MarkJobSucceeded, Creating
  <2>3. CASE ~Creating(w)
    <3>1. OthersKeep(w) /\ req'[w].at = "idle"
      BY <1>7, <2>3, ReplyTyped DEF MarkJobSucceeded, OthersKeep, Resting
    <3> QED  BY <1>0, <1>7, <2>1, <3>1, OutcomeStep DEF MarkJobSucceeded
  <2> QED  BY <2>2, <2>3
<1>8. CASE UpsertExternalResource(w)
  <2>1. OthersKeep(w) /\ req'[w].at = "idle"
    BY <1>8, ReplyTyped DEF UpsertExternalResource, OthersKeep, Resting
  <2>2. \A r \in Resources : r # req[w].ext => row'[r] = row[r]
    BY <1>8 DEF UpsertExternalResource, TypeOK
  <2> QED  BY <1>8, <2>1, <2>2, RecordStep DEF UpsertExternalResource
<1>9. CASE MarkJobFailed(w)
  <2>1. OthersKeep(w) /\ req'[w].at = "idle"
    BY <1>9, ReplyTyped DEF MarkJobFailed, OthersKeep, Resting
  <2>2. CASE UNCHANGED job
    BY <1>9, <2>1, <2>2, PassiveStep DEF MarkJobFailed
  <2>3. CASE SetJob(req[w].id, "failed", job[req[w].id].ext)
    <3>1. /\ job'[req[w].id].status # "none"
          /\ \A p \in RequestIds : p # req[w].id => job'[p] = job[p]
      BY <1>0, <1>9, <2>3, SetJobTyped DEF MarkJobFailed
    <3> QED  BY <1>0, <1>9, <2>1, <3>1, OutcomeStep DEF MarkJobFailed
  <2> QED  BY <1>9, <2>2, <2>3 DEF MarkJobFailed
<1>10. CASE Abandon(w)
  <2>1. OthersKeep(w) /\ req'[w].at = "idle"
    BY <1>10, ReplyTyped DEF Abandon, OthersKeep, Resting
  <2> QED  BY <1>10, <2>1, PassiveStep DEF Abandon
<1> QED
  BY <1>1, <1>2, <1>3, <1>4, <1>5, <1>6, <1>7, <1>8, <1>9, <1>10 DEF Serve

LEMMA InvNext == ProvisioningInv /\ [Next]_vars => ProvisioningInv'
<1> SUFFICES ASSUME ProvisioningInv, [Next]_vars PROVE ProvisioningInv'  OBVIOUS
<1> USE DEF ProvisioningInv
<1>1. ASSUME NEW w \in Workers, BeginCreate(w) \/ BeginDelete(w) \/ Serve(w) \/ Abandon(w)
      PROVE  ProvisioningInv'
  <2>1. TypeOK'  BY <1>1, TypeRequest
  <2>2. BatchesConsistent'  BY <1>1, RequestBatches
  <2>3. Rest'  BY <1>1, RestRequest DEF Rest
  <2> QED  BY <2>1, <2>2, <2>3 DEF Rest
<1>2. CASE Beside  BY <1>2, InvBeside
<1>3. CASE UNCHANGED vars
  BY <1>3 DEF vars, TypeOK, OwnersConsistent, OneOwner, OriginsConsistent,
     BatchesConsistent, OneResourcePerRequest, RecordedIsAcknowledged
<1> QED  BY <1>1, <1>2, <1>3 DEF Next, Beside

(***************************************************************************)
(* The theorems                                                            *)
(***************************************************************************)

\* The inductive invariant of the bridge holds in every reachable state.
THEOREM ProvisioningInvariant == Spec => []ProvisioningInv
  BY InvInit, InvNext, PTL DEF Spec

\* Type correctness of jobs, rows, handlers and passes.
THEOREM ProvisioningTypeCorrect == Spec => []TypeOK
<1>1. ProvisioningInv => TypeOK  BY DEF ProvisioningInv
<1> QED  BY <1>1, ProvisioningInvariant, PTL

\* A request creates at most one resource, however often it is sent and
\* whatever fails.
THEOREM CreationIsIdempotent == Spec => []OneResourcePerRequest
<1>1. ProvisioningInv => OneResourcePerRequest  BY DEF ProvisioningInv
<1> QED  BY <1>1, ProvisioningInvariant, PTL

\* A row the TTL worker works from names the resource its request's job names.
THEOREM RecordsAreAcknowledged == Spec => []RecordedIsAcknowledged
<1>1. ProvisioningInv => RecordedIsAcknowledged  BY DEF ProvisioningInv
<1> QED  BY <1>1, ProvisioningInvariant, PTL

-----------------------------------------------------------------------------
(***************************************************************************)
(* What is deleted, and what is retired.  A batch may be old when the TTL  *)
(* worker comes to a row of it, but a lease that has ended stays ended;    *)
(* and the job of a deletion names its resource from the insertion on.     *)
(***************************************************************************)

\* Every row of a batch was due when it was read, and is due for ever.
BatchesDue == \A s \in Sweepers : \A r \in ttl[s].todo : Over(origin[r])

\* The job of a deletion names the resource its handler is deleting.
DeletersNamed ==
  \A w \in Workers :
    req[w].id \in Deletions /\ req[w].at \in {"call", "finish", "fail"}
      => job[req[w].id].ext = req[w].ext

\* A droplet the worker is about to retire is gone already.
MarkedIsGone ==
  \A s \in Sweepers : ttl[s].mark # 0 /\ IsVM(ttl[s].mark) => cloud[ttl[s].mark] = "deleted"

DueInv ==
  /\ ProvisioningInv
  /\ BatchesDue /\ DeletersNamed /\ MarkedIsGone
  /\ DeletedOnlyWhenDue /\ RetiredIsGone

\* A deletion's resource, if it changes, was up and is gone.
LEMMA DeleteOutcome ==
  ASSUME TypeOK, NEW r \in Resources \cup {0}, DeleteSucceeds(r) \/ DeleteFails(r)
  PROVE  /\ \A x \in Resources : x # r => cloud'[x] = cloud[x]
         /\ \A x \in Resources : cloud'[x] # cloud[x] => cloud[x] = "live" /\ cloud'[x] = "deleted"
         /\ DeleteSucceeds(r) /\ r # 0 /\ IsVM(r) => cloud'[r] = "deleted"
  BY Ids DEF TypeOK, DeleteSucceeds, DeleteFails

\* A row stands for a resource that came up.
LEMMA RowsWereUp ==
  ASSUME ProvisioningInv, NEW r \in Resources, row[r] # "none"
  PROVE  cloud[r] # "none" /\ origin[r] \in RequestIds
  BY Ids DEF ProvisioningInv, RecordedIsAcknowledged, OriginsConsistent, TypeOK

\* What came up keeps its origin, and what is gone stays gone; time does not run back.
LEMMA OriginsStay ==
  ASSUME ProvisioningInv, [Next]_vars
  PROVE  /\ \A r \in Resources : cloud[r] # "none" => origin'[r] = origin[r]
         /\ \A r \in Resources : cloud[r] = "deleted" => cloud'[r] = "deleted"
         /\ \A q \in RequestIds \cup {0} : q <= elapsed => q <= elapsed'
<1>. TypeOK /\ OwnersConsistent
  BY DEF ProvisioningInv
<1>0. elapsed \in Nat /\ RequestIds \cup {0} \subseteq Nat
  BY ProvisioningAssumption DEF TypeOK, RequestIds
<1>1. ASSUME NEW w \in Workers, ProviderCreates(w) \/ ProviderCreateFails(w)
      PROVE  /\ \A r \in Resources : cloud[r] # "none" => origin'[r] = origin[r] /\ cloud'[r] = cloud[r]
             /\ elapsed' = elapsed
  <2>1. UNCHANGED <<cloud, origin>> \/ \E r \in Resources : BringUp(r, req[w].id)
    BY <1>1 DEF ProviderCreates, ProviderCreateFails
  <2>2. req[w].id \in RequestIds
    BY <1>1 DEF ProviderCreates, ProviderCreateFails, OwnersConsistent
  <2>3. elapsed' = elapsed
    BY <1>1 DEF ProviderCreates, ProviderCreateFails
  <2>. QED BY <2>1, <2>2, <2>3, BringUpFacts
<1>2. ASSUME NEW r \in Resources \cup {0}, DeleteSucceeds(r) \/ DeleteFails(r), UNCHANGED <<origin, elapsed>>
      PROVE  (\A x \in Resources : cloud[x] = "deleted" => cloud'[x] = "deleted") /\ UNCHANGED <<origin, elapsed>>
  BY <1>2, DeleteOutcome
<1>3. ASSUME NEW w \in Workers, ProviderDeletes(w)
      PROVE  (\A x \in Resources : cloud[x] = "deleted" => cloud'[x] = "deleted") /\ UNCHANGED <<origin, elapsed>>
  <2>1. req[w].ext \in Resources \cup {0}
    BY DEF TypeOK, Request
  <2>. QED BY <1>2, <1>3, <2>1 DEF ProviderDeletes
<1>4. ASSUME NEW s \in Sweepers, TTLDeletes(s) \/ TTLDeleteFails(s)
      PROVE  (\A x \in Resources : cloud[x] = "deleted" => cloud'[x] = "deleted") /\ UNCHANGED <<origin, elapsed>>
  <2>1. ttl[s].todo \subseteq Resources
    BY DEF TypeOK, Pass
  <2>. QED BY <1>2, <1>4, <2>1 DEF TTLDeletes, TTLDeleteFails
<1>5. \/ \E w \in Workers : ProviderCreates(w) \/ ProviderCreateFails(w) \/ ProviderDeletes(w)
      \/ \E s \in Sweepers : TTLDeletes(s) \/ TTLDeleteFails(s)
      \/ UNCHANGED <<cloud, origin>> /\ (elapsed' = elapsed \/ elapsed' = elapsed + 1)
  BY DEF Next, Repeat, BeginCreate, BeginDelete, Serve, CreateJob, MarkJobSucceeded, UpsertExternalResource,
     MarkJobFailed, Abandon, RunTTLPass, LockExpiredResources, MarkExternalResourceDeleted, EndPass, AbandonPass,
     LeaseEnds, vars
<1>6. ASSUME elapsed' = elapsed \/ elapsed' = elapsed + 1
      PROVE  \A q \in RequestIds \cup {0} : q <= elapsed => q <= elapsed'
  BY <1>0, <1>6
<1>. QED BY <1>1, <1>3, <1>4, <1>5, <1>6

LEMMA DueInit == Init => DueInv
<1>. SUFFICES ASSUME Init PROVE DueInv
  OBVIOUS
<1>1. ProvisioningInv
  BY InvInit
<1>. QED BY <1>1 DEF Init, DueInv, BatchesDue, DeletersNamed, MarkedIsGone, DeletedOnlyWhenDue, RetiredIsGone,
            Resting, Waiting

\* What a handler's step does to the jobs of deletions.
LEMMA DeletionsStay ==
  ASSUME DueInv, [Next]_vars
  PROVE  /\ \A q \in Deletions : job[q].status # "none" => job'[q].status # "none" /\ job'[q].ext = job[q].ext
         /\ DeletersNamed'
<1>. ProvisioningInv /\ TypeOK /\ OwnersConsistent /\ OneOwner /\ DeletersNamed
  BY DEF DueInv, ProvisioningInv
<1>. DEFINE Stay == /\ \A q \in Deletions : job[q].status # "none" => job'[q].status # "none" /\ job'[q].ext = job[q].ext
                    /\ DeletersNamed'
<1>0. Deletions \subseteq RequestIds /\ \A w \in Workers : req[w].ext \in Resources \cup {0}
  BY Ids DEF TypeOK, Request
<1>1. ASSUME UNCHANGED job, NEW w \in Workers, \A v \in Workers : v # w => req'[v] = req[v],
             \/ req'[w].at \in {"idle", "insert", "record"}
             \/ req'[w].id \notin Deletions
             \/ req'[w].id = req[w].id /\ req'[w].ext = req[w].ext /\ req[w].at = "call"
      PROVE  Stay
  BY <1>1 DEF DeletersNamed
<1>2. ASSUME UNCHANGED <<job, req>> PROVE Stay
  BY <1>2 DEF DeletersNamed
<1>3. ASSUME NEW w \in Workers, CreateJob(w), job[req[w].id].status = "none" PROVE Stay
  <2>1. req[w].id \in RequestIds /\ req[w].at = "insert"
    BY <1>3 DEF CreateJob, OwnersConsistent
  <2>2. /\ job'[req[w].id] = [status |-> "running", ext |-> req[w].ext]
        /\ \A p \in RequestIds : p # req[w].id => job'[p] = job[p]
    BY <1>0, <1>3, <2>1, SetJobTyped DEF CreateJob
  <2>3. /\ req'[w].id = req[w].id /\ req'[w].ext = req[w].ext
        /\ \A v \in Workers : v # w => req'[v] = req[v]
    BY <1>3, GotoTyped DEF CreateJob, Labels
  <2>4. \A v \in Workers : req[v].at \in {"call", "finish", "fail"} => req[v].id # req[w].id
    BY <1>3 DEF OwnersConsistent
  <2>. QED BY <1>0, <1>3, <2>1, <2>2, <2>3, <2>4 DEF DeletersNamed
<1>4. ASSUME NEW w \in Workers, req[w].at \in {"finish", "fail"}, NEW st \in {"succeeded", "failed"}, NEW r \in Resources \cup {0},
             SetJob(req[w].id, st, r), r = req[w].ext \/ r = job[req[w].id].ext,
             req'[w].at \in {"idle", "record"}, \A v \in Workers : v # w => req'[v] = req[v]
      PROVE  Stay
  <2>1. req[w].id \in RequestIds
    BY <1>4 DEF OwnersConsistent
  <2>2. /\ job'[req[w].id] = [status |-> st, ext |-> r]
        /\ \A p \in RequestIds : p # req[w].id => job'[p] = job[p]
    BY <1>4, <2>1, SetJobTyped
  <2>3. req[w].id \in Deletions => r = job[req[w].id].ext
    BY <1>4 DEF DeletersNamed
  <2>4. \A v \in Workers : v # w /\ req[v].at \in {"call", "finish", "fail"} => req[v].id # req[w].id
    BY <1>4 DEF OneOwner, Owning
  <2>. QED BY <1>0, <1>4, <2>1, <2>2, <2>3, <2>4 DEF DeletersNamed
<1>5. ASSUME NEW w \in Workers, BeginCreate(w) \/ BeginDelete(w) PROVE Stay
  <2>1. req'[w].at = "insert" /\ (\A v \in Workers : v # w => req'[v] = req[v]) /\ UNCHANGED job
    BY <1>5 DEF BeginCreate, BeginDelete, TypeOK
  <2>. QED BY <1>1, <2>1
<1>6. ASSUME NEW w \in Workers, CreateJob(w), job[req[w].id].status # "none" PROVE Stay
  <2>1. req'[w].at = "idle" /\ (\A v \in Workers : v # w => req'[v] = req[v]) /\ UNCHANGED job
    BY <1>6, ReplyTyped DEF CreateJob, Resting
  <2>. QED BY <1>1, <2>1
<1>7. ASSUME NEW w \in Workers, ProviderCreates(w) \/ ProviderCreateFails(w) PROVE Stay
  <2>1. /\ req'[w].id = req[w].id /\ req[w].id \in Creations /\ UNCHANGED job
        /\ \A v \in Workers : v # w => req'[v] = req[v]
    BY <1>7 DEF ProviderCreates, ProviderCreateFails, Goto, Creating, TypeOK, Request
  <2>2. req'[w].id \notin Deletions
    BY <2>1 DEF Creations
  <2>. QED BY <1>1, <2>1, <2>2
<1>8. ASSUME NEW w \in Workers, ProviderDeletes(w) PROVE Stay
  <2>1. /\ req'[w].id = req[w].id /\ req'[w].ext = req[w].ext /\ req[w].at = "call" /\ UNCHANGED job
        /\ \A v \in Workers : v # w => req'[v] = req[v]
    BY <1>8, GotoTyped DEF ProviderDeletes, Labels
  <2>. QED BY <1>1, <2>1
<1>9. ASSUME NEW w \in Workers, MarkJobSucceeded(w) PROVE Stay
  <2>1. req'[w].at \in {"idle", "record"} /\ \A v \in Workers : v # w => req'[v] = req[v]
    BY <1>9, ReplyTyped, GotoTyped DEF MarkJobSucceeded, Labels, Resting
  <2>. QED BY <1>0, <1>4, <1>9, <2>1 DEF MarkJobSucceeded
<1>10. ASSUME NEW w \in Workers, MarkJobFailed(w) PROVE Stay
  <2>1. req'[w].at = "idle" /\ \A v \in Workers : v # w => req'[v] = req[v]
    BY <1>10, ReplyTyped DEF MarkJobFailed, Resting
  <2>2. CASE UNCHANGED job
    BY <1>1, <2>1, <2>2
  <2>3. CASE SetJob(req[w].id, "failed", job[req[w].id].ext)
    <3>1. req[w].id \in RequestIds /\ req[w].at = "fail"
      BY <1>10 DEF MarkJobFailed, OwnersConsistent
    <3>2. job[req[w].id].ext \in Resources \cup {0}
      BY <3>1 DEF TypeOK, Job
    <3>. QED BY <1>4, <2>1, <2>3, <3>1, <3>2
  <2>. QED BY <1>10, <2>2, <2>3 DEF MarkJobFailed
<1>11. ASSUME NEW w \in Workers, UpsertExternalResource(w) \/ Abandon(w) PROVE Stay
  <2>1. req'[w].at = "idle" /\ (\A v \in Workers : v # w => req'[v] = req[v]) /\ UNCHANGED job
    BY <1>11, ReplyTyped DEF UpsertExternalResource, Abandon, Resting
  <2>. QED BY <1>1, <2>1
<1>12. CASE Beside
  BY <1>2, <1>12, BesideFacts
<1>13. CASE UNCHANGED vars
  BY <1>2, <1>13 DEF vars
<1>. HIDE DEF Stay
<1>14. \/ \E w \in Workers : BeginCreate(w) \/ BeginDelete(w) \/ Serve(w) \/ Abandon(w)
       \/ Beside \/ UNCHANGED vars
  BY DEF Next, Beside
<1>15. ASSUME NEW w \in Workers, Serve(w) PROVE Stay
  <2>1. CASE CreateJob(w)
    BY <1>3, <1>6, <2>1
  <2>. QED BY <1>7, <1>8, <1>9, <1>10, <1>11, <1>15, <2>1 DEF Serve
<1>16. ASSUME NEW w \in Workers, BeginCreate(w) \/ BeginDelete(w) \/ Serve(w) \/ Abandon(w) PROVE Stay
  <2>1. CASE BeginCreate(w) \/ BeginDelete(w)
    BY <1>5, <2>1
  <2>2. CASE Abandon(w)
    BY <1>11, <2>2
  <2>. QED BY <1>15, <1>16, <2>1, <2>2
<1>17. CASE \E w \in Workers : BeginCreate(w) \/ BeginDelete(w) \/ Serve(w) \/ Abandon(w)
  BY <1>16, <1>17 DEF Stay
<1>. QED BY <1>12, <1>13, <1>14, <1>17

\* Nothing is deleted but what is due or what somebody asks to delete.
LEMMA DeletedStep ==
  ASSUME DueInv, [Next]_vars
  PROVE  DeletedOnlyWhenDue'
<1>. ProvisioningInv /\ TypeOK /\ OwnersConsistent /\ OriginsConsistent
  BY DEF DueInv, ProvisioningInv
<1>1. ASSUME NEW r \in Resources, cloud'[r] = "deleted", cloud[r] # "deleted"
      PROVE  \/ cloud[r] # "none" /\ Over(origin[r])
             \/ \E q \in Deletions : job[q].status # "none" /\ job[q].ext = r
  <2>1. ASSUME NEW s \in Sweepers, TTLDeletes(s) \/ TTLDeleteFails(s)
        PROVE  cloud[r] # "none" /\ Over(origin[r])
    <3>1. PICK x \in ttl[s].todo : DeleteSucceeds(x) \/ DeleteFails(x)
      BY <2>1 DEF TTLDeletes, TTLDeleteFails
    <3>2. x \in Resources
      BY DEF TypeOK, Pass
    <3>3. r = x /\ cloud[r] = "live"
      BY <1>1, <3>1, <3>2, DeleteOutcome
    <3>. QED BY <3>3 DEF DueInv, BatchesDue
  <2>2. ASSUME NEW w \in Workers, ProviderDeletes(w)
        PROVE  \E q \in Deletions : job[q].status # "none" /\ job[q].ext = r
    <3>1. req[w].at = "call" /\ req[w].id \in Deletions /\ req[w].ext \in Resources \cup {0}
      BY <2>2 DEF ProviderDeletes, OwnersConsistent, Creating, Creations, TypeOK, Request
    <3>2. r = req[w].ext
      BY <1>1, <2>2, <3>1, DeleteOutcome DEF ProviderDeletes
    <3>3. job[req[w].id].status = "running" /\ job[req[w].id].ext = req[w].ext
      BY <3>1 DEF OwnersConsistent, DueInv, DeletersNamed
    <3>. QED BY <3>1, <3>2, <3>3
  <2>3. ASSUME NEW w \in Workers, ProviderCreates(w) \/ ProviderCreateFails(w) PROVE FALSE
    <3>1. PICK x \in Resources : BringUp(x, req[w].id)
      BY <1>1, <2>3 DEF ProviderCreates, ProviderCreateFails
    <3>. QED BY <1>1, <3>1 DEF BringUp, TypeOK
  <2>4. \/ \E w \in Workers : ProviderCreates(w) \/ ProviderCreateFails(w) \/ ProviderDeletes(w)
        \/ \E s \in Sweepers : TTLDeletes(s) \/ TTLDeleteFails(s)
        \/ UNCHANGED cloud
    BY DEF Next, Repeat, BeginCreate, BeginDelete, Serve, CreateJob, MarkJobSucceeded, UpsertExternalResource,
       MarkJobFailed, Abandon, RunTTLPass, LockExpiredResources, MarkExternalResourceDeleted, EndPass, AbandonPass,
       LeaseEnds, vars
  <2>. QED BY <1>1, <2>1, <2>2, <2>3, <2>4
<1>2. ASSUME NEW r \in Resources, cloud'[r] = "deleted"
      PROVE  (Over(origin[r]))' \/ \E q \in Deletions : job'[q].status # "none" /\ job'[q].ext = r
  <2>1. \/ cloud[r] # "none" /\ Over(origin[r])
        \/ \E q \in Deletions : job[q].status # "none" /\ job[q].ext = r
    BY <1>1, <1>2 DEF DueInv, DeletedOnlyWhenDue
  <2>2. CASE cloud[r] # "none" /\ Over(origin[r])
    <3>1. origin'[r] = origin[r] /\ origin[r] \in RequestIds \cup {0}
      BY <2>2, OriginsStay DEF TypeOK
    <3>2. origin[r] <= elapsed'
      BY <2>2, <3>1, OriginsStay DEF Over
    <3>. QED BY <3>1, <3>2 DEF Over
  <2>3. CASE \E q \in Deletions : job[q].status # "none" /\ job[q].ext = r
    BY <2>3, DeletionsStay
  <2>. QED BY <2>1, <2>2, <2>3
<1>. QED BY <1>2 DEF DeletedOnlyWhenDue

\* A batch stays due, and a droplet is retired after it is gone.
LEMMA RetiredStep ==
  ASSUME DueInv, [Next]_vars
  PROVE  BatchesDue' /\ MarkedIsGone' /\ RetiredIsGone'
<1>. ProvisioningInv /\ TypeOK /\ OwnersConsistent /\ BatchesConsistent /\ BatchesDue /\ MarkedIsGone /\ RetiredIsGone
  BY DEF DueInv, ProvisioningInv
<1>0. \A s \in Sweepers : ttl[s].todo \subseteq Resources /\ ttl[s].mark \in Resources \cup {0}
  BY DEF TypeOK, Pass
<1>1. ASSUME NEW r \in Resources, row[r] # "none"
      PROVE  /\ origin'[r] = origin[r] /\ (IsVM(r))' = IsVM(r)
             /\ Over(origin[r]) => (Over(origin[r]))'
             /\ cloud[r] = "deleted" => cloud'[r] = "deleted"
  <2>1. cloud[r] # "none" /\ origin[r] \in RequestIds
    BY <1>1, RowsWereUp
  <2>2. origin'[r] = origin[r] /\ (origin[r] <= elapsed => origin[r] <= elapsed')
        /\ (cloud[r] = "deleted" => cloud'[r] = "deleted")
    BY <2>1, OriginsStay
  <2>. QED BY <2>2 DEF IsVM, Over
<1>2. ASSUME NEW s \in Sweepers, NEW r \in ttl[s].todo
      PROVE  r \in Resources /\ row[r] # "none" /\ (Over(origin[r]))'
  BY <1>0, <1>1 DEF BatchesConsistent, BatchesDue
<1>3. ASSUME NEW s \in Sweepers, ttl[s].mark # 0
      PROVE  ttl[s].mark \in Resources /\ row[ttl[s].mark] # "none"
  BY <1>0, <1>3 DEF BatchesConsistent
<1>4. ASSUME NEW s \in Sweepers,
             \A t \in Sweepers : t # s => ttl'[t] = ttl[t],
             \A r \in ttl'[s].todo : r \in Resources /\ (Over(origin[r]))',
             ttl'[s].mark \in {0, ttl[s].mark}
      PROVE  BatchesDue' /\ MarkedIsGone'
  <2>1. BatchesDue'
    BY <1>2, <1>4 DEF BatchesDue
  <2>2. \A t \in Sweepers : ttl'[t].mark # 0 => ttl'[t].mark = ttl[t].mark
    BY <1>4
  <2>3. ASSUME NEW t \in Sweepers, ttl'[t].mark # 0, (IsVM(ttl[t].mark))' PROVE cloud'[ttl'[t].mark] = "deleted"
    <3>. PICK m : m = ttl[t].mark
      OBVIOUS
    <3>1. ttl'[t].mark = m /\ m # 0
      BY <2>2, <2>3
    <3>2. m \in Resources /\ row[m] # "none" /\ origin'[m] = origin[m] /\ (cloud[m] = "deleted" => cloud'[m] = "deleted")
      BY <1>1, <1>3, <3>1
    <3>3. IsVM(m)
      BY <2>3, <3>1, <3>2 DEF IsVM
    <3>. QED BY <3>1, <3>2, <3>3 DEF MarkedIsGone
  <2>. QED BY <2>1, <2>3 DEF MarkedIsGone, IsVM
<1>5. ASSUME \A r \in Resources : row'[r] = "deleted" => row[r] = "deleted" PROVE RetiredIsGone'
  BY <1>1, <1>5 DEF RetiredIsGone
<1>6. ASSUME NEW s \in Sweepers, LockExpiredResources(s) PROVE BatchesDue' /\ MarkedIsGone' /\ RetiredIsGone'
  <2>1. ttl'[s].todo = Batch /\ ttl'[s].mark = ttl[s].mark /\ \A t \in Sweepers : t # s => ttl'[t] = ttl[t]
    BY <1>6 DEF LockExpiredResources, TypeOK, Pass
  <2>2. \A r \in Batch : r \in Resources /\ row[r] # "none" /\ Over(origin[r])
    BY DEF Batch, Expired
  <2>3. \A r \in ttl'[s].todo : r \in Resources /\ (Over(origin[r]))'
    BY <1>1, <2>1, <2>2
  <2>4. UNCHANGED row
    BY <1>6 DEF LockExpiredResources
  <2>. QED BY <1>4, <1>5, <2>1, <2>3, <2>4
<1>7. ASSUME NEW s \in Sweepers, TTLDeletes(s) PROVE BatchesDue' /\ MarkedIsGone' /\ RetiredIsGone'
  <2>1. PICK r \in ttl[s].todo :
          DeleteSucceeds(r) /\ ttl[s].mark = 0 /\ ttl' = [ttl EXCEPT ![s].todo = @ \ {r}, ![s].mark = r]
    BY <1>7 DEF TTLDeletes
  <2>2. /\ ttl'[s].todo \subseteq ttl[s].todo /\ ttl'[s].mark = r
        /\ \A t \in Sweepers : t # s => ttl'[t] = ttl[t]
    BY <2>1 DEF TypeOK, Pass
  <2>3. UNCHANGED row
    BY <1>7 DEF TTLDeletes
  <2>4. BatchesDue'
    BY <1>2, <2>2 DEF BatchesDue
  <2>5. r \in Resources /\ r # 0 /\ row[r] # "none"
    BY <1>0, Ids DEF BatchesConsistent
  <2>6. (IsVM(r))' => cloud'[r] = "deleted"
    <3>1. (IsVM(r))' = IsVM(r)
      BY <1>1, <2>5
    <3>. QED BY <2>1, <2>5, <3>1, DeleteOutcome
  <2>7. \A t \in Sweepers : t # s /\ ttl[t].mark # 0 /\ (IsVM(ttl[t].mark))' => cloud'[ttl[t].mark] = "deleted"
    <3>1. ASSUME NEW t \in Sweepers, t # s, ttl[t].mark # 0 PROVE ttl'[t].mark = ttl[t].mark
      BY <2>2, <3>1
    <3>2. ASSUME NEW t \in Sweepers, t # s, ttl[t].mark # 0, (IsVM(ttl[t].mark))'
          PROVE cloud'[ttl[t].mark] = "deleted"
      <4>. PICK m : m = ttl[t].mark
        OBVIOUS
      <4>1. m \in Resources /\ row[m] # "none" /\ origin'[m] = origin[m] /\ (cloud[m] = "deleted" => cloud'[m] = "deleted")
        BY <1>1, <1>3, <3>2
      <4>2. IsVM(m)
        BY <3>1, <3>2, <4>1 DEF IsVM
      <4>. QED BY <3>1, <3>2, <4>1, <4>2 DEF MarkedIsGone
    <3>. QED BY <3>2
  <2>. QED BY <1>5, <2>2, <2>3, <2>4, <2>6, <2>7 DEF MarkedIsGone, IsVM
<1>8. ASSUME NEW s \in Sweepers, TTLDeleteFails(s) PROVE BatchesDue' /\ MarkedIsGone' /\ RetiredIsGone'
  <2>1. PICK r \in ttl[s].todo : ttl' = [ttl EXCEPT ![s].todo = @ \ {r}]
    BY <1>8 DEF TTLDeleteFails
  <2>2. /\ ttl'[s].todo \subseteq ttl[s].todo /\ ttl'[s].mark = ttl[s].mark
        /\ \A t \in Sweepers : t # s => ttl'[t] = ttl[t]
    BY <2>1 DEF TypeOK, Pass
  <2>3. UNCHANGED row
    BY <1>8 DEF TTLDeleteFails
  <2>. QED BY <1>2, <1>4, <1>5, <2>2, <2>3
<1>9. ASSUME NEW s \in Sweepers, MarkExternalResourceDeleted(s) PROVE BatchesDue' /\ MarkedIsGone' /\ RetiredIsGone'
  <2>1. /\ ttl'[s].todo = ttl[s].todo /\ ttl'[s].mark = 0
        /\ \A t \in Sweepers : t # s => ttl'[t] = ttl[t]
    BY <1>9 DEF MarkExternalResourceDeleted, TypeOK, Pass
  <2>2. BatchesDue' /\ MarkedIsGone'
    BY <1>2, <1>4, <2>1
  <2>. PICK m : m = ttl[s].mark
    OBVIOUS
  <2>3. m \in Resources /\ row[m] # "none" /\ (IsVM(m) => cloud[m] = "deleted")
    BY <1>3, <1>9 DEF MarkExternalResourceDeleted, MarkedIsGone
  <2>4. row' = [row EXCEPT ![m] = "deleted"]
    BY <1>9 DEF MarkExternalResourceDeleted
  <2>5. ASSUME NEW r \in Resources, row'[r] = "deleted", (IsVM(r))' PROVE cloud'[r] = "deleted"
    <3>1. CASE r = m
      BY <1>1, <2>3, <2>5, <3>1
    <3>2. CASE r # m
      <4>1. row[r] = "deleted"
        BY <2>4, <2>5, <3>2 DEF TypeOK
      <4>. QED BY <1>1, <2>5, <4>1 DEF RetiredIsGone
    <3>. QED BY <3>1, <3>2
  <2>. QED BY <2>2, <2>5 DEF RetiredIsGone, IsVM
<1>10. ASSUME NEW s \in Sweepers, EndPass(s) \/ AbandonPass(s) PROVE BatchesDue' /\ MarkedIsGone' /\ RetiredIsGone'
  <2>1. /\ ttl'[s].todo = {} /\ ttl'[s].mark = 0 /\ UNCHANGED row
        /\ \A t \in Sweepers : t # s => ttl'[t] = ttl[t]
    BY <1>10 DEF EndPass, AbandonPass, Waiting, TypeOK
  <2>. QED BY <1>4, <1>5, <2>1
<1>11. ASSUME UNCHANGED ttl, \A r \in Resources : row'[r] = "deleted" => row[r] = "deleted"
       PROVE  BatchesDue' /\ MarkedIsGone' /\ RetiredIsGone'
  <2>1. BatchesDue'
    BY <1>2, <1>11 DEF BatchesDue
  <2>2. ASSUME NEW s \in Sweepers, ttl[s].mark # 0, (IsVM(ttl[s].mark))' PROVE cloud'[ttl[s].mark] = "deleted"
    <3>. PICK m : m = ttl[s].mark
      OBVIOUS
    <3>1. m \in Resources /\ row[m] # "none" /\ origin'[m] = origin[m] /\ (cloud[m] = "deleted" => cloud'[m] = "deleted")
      BY <1>1, <1>3, <2>2
    <3>2. IsVM(m)
      BY <1>11, <2>2, <3>1 DEF IsVM
    <3>. QED BY <1>11, <2>2, <3>1, <3>2 DEF MarkedIsGone
  <2>. QED BY <1>5, <1>11, <2>1, <2>2 DEF MarkedIsGone, IsVM
<1>12. \/ \E s \in Sweepers : RunTTLPass(s) \/ AbandonPass(s)
       \/ UNCHANGED ttl /\ \A r \in Resources : row'[r] = "deleted" => row[r] = "deleted"
  <2>1. ASSUME NEW w \in Workers, UpsertExternalResource(w)
        PROVE  UNCHANGED ttl /\ \A r \in Resources : row'[r] = "deleted" => row[r] = "deleted"
    BY <2>1 DEF UpsertExternalResource, TypeOK
  <2>2. \/ \E s \in Sweepers : RunTTLPass(s) \/ AbandonPass(s)
        \/ \E w \in Workers : UpsertExternalResource(w)
        \/ UNCHANGED <<ttl, row>>
    BY DEF Next, Repeat, BeginCreate, BeginDelete, Serve, CreateJob, ProviderCreates, ProviderCreateFails,
       ProviderDeletes, MarkJobSucceeded, MarkJobFailed, Abandon, LeaseEnds, vars
  <2>. QED BY <2>1, <2>2
<1>. QED BY <1>6, <1>7, <1>8, <1>9, <1>10, <1>11, <1>12 DEF RunTTLPass

\* The invariant of deletions: a batch is due, a deletion's job names its
\* resource, a marked droplet is gone.
THEOREM DueInvariant == Spec => []DueInv
<1>1. DueInv /\ [Next]_vars => DueInv'
  <2>. SUFFICES ASSUME DueInv, [Next]_vars PROVE DueInv'
    OBVIOUS
  <2>1. ProvisioningInv'
    BY InvNext DEF DueInv
  <2>. QED BY <2>1, DeletionsStay, DeletedStep, RetiredStep DEF DueInv
<1>. QED BY <1>1, DueInit, PTL DEF Spec

\* Nothing is deleted at a provider before its lease ends unless a request
\* asked for it (RunTTLPass and DeleteResource).
THEOREM DeletionsAreDue == Spec => []DeletedOnlyWhenDue
<1>1. DueInv => DeletedOnlyWhenDue  BY DEF DueInv
<1>. QED  BY <1>1, DueInvariant, PTL

\* A droplet whose row the TTL worker retired is gone (RunTTLPass).
THEOREM RetiredAfterDeletion == Spec => []RetiredIsGone
<1>1. DueInv => RetiredIsGone  BY DEF DueInv
<1>. QED  BY <1>1, DueInvariant, PTL
================================================================================
