--------------------------- MODULE ComputeLifecycle ---------------------------
(***************************************************************************)
(* The lifecycle of rented compute instances in resourceservice: the rows  *)
(* of the tables vms and pod_instances, the HTTP handlers that create,     *)
(* start, stop, reboot and terminate them, the expiry pass that runs       *)
(* beside the handlers, and the cloud resources behind the rows, which are *)
(* reached through the provisioning bridge (module Provisioning has the    *)
(* inside of it).                                                          *)
(*                                                                         *)
(* A handler is several statements and calls with no transaction and no    *)
(* row lock around them, so every read, every UPDATE and every bridge call *)
(* is a step of its own, and other handlers and the expiry pass run in     *)
(* between.                                                                *)
(***************************************************************************)
EXTENDS Naturals, FiniteSets

CONSTANTS
  Last,          \* bound: the number of instances ever created
  VMs,           \* the instances that are VMs; the others are pods
  Workers,       \* request handlers running at the same time
  Sweepers,      \* expiry workers, one per replica of the service
  PassLimit,     \* rows one expiry listing returns (100 in the code)
  BridgeRecords, \* can the bridge record the resources it creates?
  Reaping,       \* does the bridge's own TTL worker delete resources too?
  Faults         \* the failures that may happen, see FaultKinds

FaultKinds ==
  { "storage",   \* a statement fails, its context is cancelled, a restart
    "refuse",    \* a bridge call fails and changed nothing
    "lost",      \* a bridge call is reported as failed but took effect
    "graphql" }  \* RunPod refuses a deletion inside a 200 answer

ASSUME LifecycleAssumption ==
  /\ Last \in Nat /\ PassLimit \in Nat
  /\ VMs \subseteq 1..Last
  /\ BridgeRecords \in BOOLEAN /\ Reaping \in BOOLEAN
  /\ Faults \subseteq FaultKinds

(***************************************************************************)
(* An instance is named by the position of its row in the order of         *)
(* insertion.  All leases have the same length (s.vmTTL) and expires_at is *)
(* computed just before the row is inserted, so, up to that instant, this  *)
(* is also the order in which leases end, and the number of leases that    *)
(* have ended is all the clock there is.                                   *)
(***************************************************************************)
Instances == 1..Last
Pods == Instances \ VMs

VARIABLES
  status,   \* column status; "absent": the row is not inserted yet
  ref,      \* is column external_id filled in?
  elapsed,  \* how many leases (column expires_at) lie in the past
  cloud,    \* the provider's side: "none", "live" or "deleted"
  req,      \* the request each worker is serving
  sweep,    \* the expiry pass each sweeper is making
  asked,    \* history: instances whose termination somebody requested
  acked,    \* history: instances whose creation was carried out to its end
  inTime,   \* history: those of them for which that was while the lease ran
            \* and before anybody asked for the termination
  freed     \* history: as acked, for a termination that found an external_id

vars == <<status, ref, elapsed, cloud, req, sweep, asked, acked, inTime, freed>>

Status == {"absent", "provisioning", "running", "stopped", "terminated", "expired"}

Labels ==
  {"idle", "provision", "fail", "link", "activate",   \* CreateVM, CreatePod
   "start", "stop", "reboot", "restart",              \* StartVM, StopVM, RebootVM
   "delete", "retire"}                                \* TerminateVM, TerminatePod

Request == [at : Labels, inst : Instances \cup {0}, saw : BOOLEAN]

Listed == [inst : Instances, saw : BOOLEAN]   \* a row as a listing returned it
Pass == [at : {"idle", "vms", "pods"}, todo : SUBSET Listed, mark : Instances \cup {0}]

TypeOK ==
  /\ status \in [Instances -> Status]
  /\ ref \in [Instances -> BOOLEAN]
  /\ elapsed \in 0..Last
  /\ cloud \in [Instances -> {"none", "live", "deleted"}]
  /\ req \in [Workers -> Request]
  /\ sweep \in [Sweepers -> Pass]
  /\ asked \subseteq Instances
  /\ acked \subseteq Instances
  /\ inTime \subseteq Instances
  /\ freed \subseteq Instances

Resting == [at |-> "idle", inst |-> 0, saw |-> FALSE]
Waiting == [at |-> "idle", todo |-> {}, mark |-> 0]

Init ==
  /\ status = [i \in Instances |-> "absent"]
  /\ ref = [i \in Instances |-> FALSE]
  /\ elapsed = 0
  /\ cloud = [i \in Instances |-> "none"]
  /\ req = [w \in Workers |-> Resting]
  /\ sweep = [s \in Sweepers |-> Waiting]
  /\ asked = {} /\ acked = {} /\ inTime = {} /\ freed = {}

-----------------------------------------------------------------------------
(* Helpers *)

Due(i) == i <= elapsed                       \* expires_at <= now
SetStatus(i, s) == status' = [status EXCEPT ![i] = s]
Goto(w, label) == req' = [req EXCEPT ![w].at = label]
Reply(w) == req' = [req EXCEPT ![w] = Resting]
History == <<asked, acked, inTime, freed>>

(***************************************************************************)
(* A request for instance i arrives at an idle worker, which reads the row *)
(* and carries on at label.                                                *)
(***************************************************************************)
Accept(w, i, label) ==
  /\ req[w].at = "idle"
  /\ req' = [req EXCEPT ![w] = [at |-> label, inst |-> i, saw |-> ref[i]]]

(***************************************************************************)
(* The two answers of a deletion through the bridge.  The DigitalOcean     *)
(* client turns every status >= 400 into an error, so deleting a droplet   *)
(* that is already gone (404) fails; the RunPod client does not look at    *)
(* the errors of a GraphQL answer, so every deletion that got a 200        *)
(* counts as done.                                                         *)
(***************************************************************************)
BridgeDeletes(i) ==
  \/ /\ cloud[i] = "live"
     /\ cloud' = [cloud EXCEPT ![i] = "deleted"]
  \/ /\ i \in Pods
     /\ cloud[i] = "deleted" \/ "graphql" \in Faults
     /\ UNCHANGED cloud

BridgeDeleteFails(i) ==
  \/ /\ "refuse" \in Faults \/ (i \in VMs /\ cloud[i] # "live")
     /\ UNCHANGED cloud
  \/ /\ "lost" \in Faults
     /\ cloud[i] = "live"
     /\ cloud' = [cloud EXCEPT ![i] = "deleted"]

-----------------------------------------------------------------------------
(* CreateVM, CreatePod.  A request the rate limiter or the validation turns *)
(* away leaves no trace here (module CreateRateLimit has the limiter).      *)

BeginCreate(w) ==
  \E i \in Instances :
    /\ status[i] = "absent"
    /\ \A j \in Instances : j < i => status[j] # "absent"
    /\ Accept(w, i, "provision")
    /\ SetStatus(i, "provisioning")
    /\ UNCHANGED <<ref, elapsed, cloud, sweep, History>>

\* Mutant of ProvisionSucceeds: the status is set and external_id never stored.
ProvisionSucceedsUnlinked(w) ==
  /\ req[w].at = "provision"
  /\ BridgeRecords
  /\ cloud' = [cloud EXCEPT ![req[w].inst] = "live"]
  /\ Goto(w, "activate")
  /\ UNCHANGED <<status, ref, elapsed, sweep, History>>

\* The bridge looks at expires_at when the request arrives and creates the
\* resource later: once the lease is over, either answer is still possible.
ProvisionSucceeds(w) ==
  /\ req[w].at = "provision"
  /\ BridgeRecords
  /\ cloud' = [cloud EXCEPT ![req[w].inst] = "live"]
  /\ Goto(w, "link")
  /\ UNCHANGED <<status, ref, elapsed, sweep, History>>

\* A bridge that cannot record what it created reports an error afterwards.
ProvisionFails(w) ==
  LET i == req[w].inst IN
  /\ req[w].at = "provision"
  /\ \/ /\ Due(i) \/ "refuse" \in Faults
        /\ UNCHANGED cloud
     \/ /\ ~BridgeRecords \/ "lost" \in Faults
        /\ cloud' = [cloud EXCEPT ![i] = "live"]
  /\ Goto(w, "fail")
  /\ UNCHANGED <<status, ref, elapsed, sweep, History>>

MarkCreateFailed(w) ==
  /\ req[w].at = "fail"
  /\ SetStatus(req[w].inst, "terminated")
  /\ Reply(w)
  /\ UNCHANGED <<ref, elapsed, cloud, sweep, History>>

UpdateExternalRef(w) ==
  /\ req[w].at = "link"
  /\ ref' = [ref EXCEPT ![req[w].inst] = TRUE]
  /\ Goto(w, "activate")
  /\ UNCHANGED <<status, elapsed, cloud, sweep, History>>

\* Mutant of Activate: the row takes over the bridge's word for a pod in use.
ActivateAsBridge(w) ==
  /\ req[w].at = "activate"
  /\ SetStatus(req[w].inst, "active")
  /\ Reply(w)
  /\ acked' = acked \cup {req[w].inst}
  /\ UNCHANGED <<ref, elapsed, cloud, sweep, asked, inTime, freed>>

\* The read of the row that follows decides nothing but the answer, so acked
\* counts the creations for which it fails, too.
Activate(w) ==
  /\ req[w].at = "activate"
  /\ SetStatus(req[w].inst, "running")
  /\ Reply(w)
  /\ acked' = acked \cup {req[w].inst}
  /\ inTime' = inTime \cup ({req[w].inst} \ (asked \cup 1..elapsed))
  /\ UNCHANGED <<ref, elapsed, cloud, sweep, asked, freed>>

-----------------------------------------------------------------------------
(* StartVM, StopVM, RebootVM: read, refuse only a terminated VM, write.    *)

BeginPower(w) ==
  \E i \in VMs, label \in {"start", "stop", "reboot"} :
    /\ status[i] \notin {"absent", "terminated"}
    /\ Accept(w, i, label)
    /\ UNCHANGED <<status, ref, elapsed, cloud, sweep, History>>

WriteRunning(w) ==
  /\ req[w].at = "start"
  /\ SetStatus(req[w].inst, "running")
  /\ Reply(w)
  /\ UNCHANGED <<ref, elapsed, cloud, sweep, History>>

WriteStopped(w) ==
  /\ req[w].at \in {"stop", "reboot"}
  /\ SetStatus(req[w].inst, "stopped")
  /\ IF req[w].at = "stop" THEN Reply(w) ELSE Goto(w, "restart")
  /\ UNCHANGED <<ref, elapsed, cloud, sweep, History>>

\* RebootVM calls StartVM, which reads the row again.
RebootReads(w) ==
  /\ req[w].at = "restart"
  /\ IF status[req[w].inst] = "terminated" THEN Reply(w) ELSE Goto(w, "start")
  /\ UNCHANGED <<status, ref, elapsed, cloud, sweep, History>>

-----------------------------------------------------------------------------
(* TerminateVM, TerminatePod                                               *)

BeginTerminate(w) ==
  \E i \in Instances :
    /\ status[i] # "absent"
    /\ Accept(w, i, IF ref[i] THEN "delete" ELSE "retire")
    /\ asked' = asked \cup {i}
    /\ UNCHANGED <<status, ref, elapsed, cloud, sweep, acked, inTime, freed>>

TerminateDeletes(w) ==
  /\ req[w].at = "delete"
  /\ BridgeDeletes(req[w].inst)
  /\ Goto(w, "retire")
  /\ UNCHANGED <<status, ref, elapsed, sweep, History>>

\* Mutant of TerminateRefused: the bridge's error is ignored.
TerminateRefusedIgnored(w) ==
  /\ req[w].at = "delete"
  /\ BridgeDeleteFails(req[w].inst)
  /\ Goto(w, "retire")
  /\ UNCHANGED <<status, ref, elapsed, sweep, History>>

TerminateRefused(w) ==
  /\ req[w].at = "delete"
  /\ BridgeDeleteFails(req[w].inst)
  /\ Reply(w)
  /\ UNCHANGED <<status, ref, elapsed, sweep, History>>

Retire(w) ==
  /\ req[w].at = "retire"
  /\ SetStatus(req[w].inst, "terminated")
  /\ Reply(w)
  /\ freed' = IF req[w].saw THEN freed \cup {req[w].inst} ELSE freed
  /\ UNCHANGED <<ref, elapsed, cloud, sweep, asked, acked, inTime>>

\* A failing statement, a cancelled request context or a restart of the
\* service ends a handler where it stands.
Abandon(w) ==
  /\ "storage" \in Faults
  /\ req[w].at # "idle"
  /\ Reply(w)
  /\ UNCHANGED <<status, ref, elapsed, cloud, sweep, History>>

-----------------------------------------------------------------------------
(* ExpireResources: list the expired VMs and work through the list, then   *)
(* the same for the pods.  The list is a snapshot.                         *)

\* Mutants of Expirable: expires_at is not compared; is compared with an
\* off-by-one; stopped rows are left out.
ExpirableAnyTime(kind) == {i \in kind : status[i] \in {"running", "stopped"}}
ExpirableEarly(kind) ==
  {i \in kind : status[i] \in {"running", "stopped"} /\ i <= elapsed + 1}
ExpirableRunning(kind) == {i \in kind : status[i] = "running" /\ Due(i)}

Expirable(kind) == {i \in kind : status[i] \in {"running", "stopped"} /\ Due(i)}

\* ORDER BY expires_at ASC LIMIT PassLimit
Page(rows) == {i \in rows : Cardinality({j \in rows : j < i}) < PassLimit}

ListExpired(kind) == {[inst |-> i, saw |-> ref[i]] : i \in Page(Expirable(kind))}

BeginPass(s) ==
  /\ sweep[s].at = "idle"
  /\ sweep' = [sweep EXCEPT ![s].at = "vms", ![s].todo = ListExpired(VMs)]
  /\ UNCHANGED <<status, ref, elapsed, cloud, req, History>>

ListPods(s) ==
  /\ sweep[s].at = "vms" /\ sweep[s].todo = {} /\ sweep[s].mark = 0
  /\ sweep' = [sweep EXCEPT ![s].at = "pods", ![s].todo = ListExpired(Pods)]
  /\ UNCHANGED <<status, ref, elapsed, cloud, req, History>>

EndPass(s) ==
  /\ sweep[s].at = "pods" /\ sweep[s].todo = {} /\ sweep[s].mark = 0
  /\ sweep' = [sweep EXCEPT ![s] = Waiting]
  /\ UNCHANGED <<status, ref, elapsed, cloud, req, History>>

\* The next row of the list: the one whose lease ended first.
Current(s, e) ==
  /\ sweep[s].mark = 0
  /\ e \in sweep[s].todo
  /\ \A f \in sweep[s].todo : e.inst <= f.inst

\* Mutant of SweepDeletes: a row is marked without waiting for the bridge.
SweepDeletesNothing(s) ==
  \E e \in sweep[s].todo :
    /\ Current(s, e)
    /\ sweep' = [sweep EXCEPT ![s].todo = @ \ {e}, ![s].mark = e.inst]
    /\ UNCHANGED <<status, ref, elapsed, cloud, req, History>>

SweepDeletes(s) ==
  \E e \in sweep[s].todo :
    /\ Current(s, e)
    /\ IF e.saw THEN BridgeDeletes(e.inst) ELSE UNCHANGED cloud
    /\ sweep' = [sweep EXCEPT ![s].todo = @ \ {e}, ![s].mark = e.inst]
    /\ UNCHANGED <<status, ref, elapsed, req, History>>

SweepSkips(s) ==
  \E e \in sweep[s].todo :
    /\ Current(s, e)
    /\ e.saw /\ BridgeDeleteFails(e.inst)
    /\ sweep' = [sweep EXCEPT ![s].todo = @ \ {e}]
    /\ UNCHANGED <<status, ref, elapsed, req, History>>

\* Mutant of MarkExpired: the loop over the pods calls MarkVMExpired as well.
MarkExpiredAsVM(s) ==
  /\ sweep[s].mark # 0
  /\ IF sweep[s].mark \in VMs THEN SetStatus(sweep[s].mark, "expired") ELSE UNCHANGED status
  /\ sweep' = [sweep EXCEPT ![s].mark = 0]
  /\ UNCHANGED <<ref, elapsed, cloud, req, History>>

\* The error of MarkVMExpired and MarkPodExpired is dropped.
MarkExpired(s) ==
  /\ sweep[s].mark # 0
  /\ \/ SetStatus(sweep[s].mark, "expired")
     \/ "storage" \in Faults /\ UNCHANGED status
  /\ sweep' = [sweep EXCEPT ![s].mark = 0]
  /\ UNCHANGED <<ref, elapsed, cloud, req, History>>

\* A failing listing or a restart ends the pass; the next one starts afresh.
AbandonPass(s) ==
  /\ "storage" \in Faults
  /\ sweep[s].at # "idle"
  /\ sweep' = [sweep EXCEPT ![s] = Waiting]
  /\ UNCHANGED <<status, ref, elapsed, cloud, req, History>>

-----------------------------------------------------------------------------
(* Time, and the TTL worker of the provisioning service                    *)

LeaseEnds ==
  /\ elapsed < Last
  /\ status[elapsed + 1] # "absent"
  /\ elapsed' = elapsed + 1
  /\ UNCHANGED <<status, ref, cloud, req, sweep, History>>

BridgeReaps(i) ==
  /\ Reaping /\ BridgeRecords
  /\ Due(i) /\ cloud[i] = "live"
  /\ cloud' = [cloud EXCEPT ![i] = "deleted"]
  /\ UNCHANGED <<status, ref, elapsed, req, sweep, History>>

-----------------------------------------------------------------------------

Arrive(w) == BeginCreate(w) \/ BeginPower(w) \/ BeginTerminate(w)

Serve(w) ==
  \/ ProvisionSucceeds(w) \/ ProvisionFails(w) \/ MarkCreateFailed(w)
  \/ UpdateExternalRef(w) \/ Activate(w)
  \/ WriteRunning(w) \/ WriteStopped(w) \/ RebootReads(w)
  \/ TerminateDeletes(w) \/ TerminateRefused(w) \/ Retire(w)

Sweep(s) ==
  \/ BeginPass(s) \/ ListPods(s) \/ EndPass(s)
  \/ SweepDeletes(s) \/ SweepSkips(s) \/ MarkExpired(s)

Next ==
  \/ \E w \in Workers : Arrive(w) \/ Serve(w) \/ Abandon(w)
  \/ \E s \in Sweepers : Sweep(s) \/ AbandonPass(s)
  \/ LeaseEnds
  \/ \E i \in Instances : BridgeReaps(i)

Spec == Init /\ [][Next]_vars

(***************************************************************************)
(* Time passes, a handler that was started runs on, and the ticker of the  *)
(* expiry worker keeps firing.  Nobody has to send a request, and the      *)
(* bridge's own worker need not delete anything.                           *)
(***************************************************************************)
FairSpec ==
  /\ Spec
  /\ WF_vars(LeaseEnds)
  /\ \A w \in Workers : WF_vars(Serve(w))
  /\ \A s \in Sweepers : WF_vars(Sweep(s))

-----------------------------------------------------------------------------
(* Safety *)

\* A lease is honoured: a resource is deleted, and a row marked expired,
\* only after the lease ended, or, for the resource, after a request for its
\* termination (ListExpiredVMs and TerminateVM are the two ways to a delete).
LeaseHonoured ==
  \A i \in Instances :
    /\ cloud[i] = "deleted" => Due(i) \/ i \in asked
    /\ status[i] = "expired" => Due(i)

\* Whatever races with it, a creation answered with success has left a row
\* that names the resource, so that some later call can delete it (CreateVM
\* stores external_id before it reports the VM as running).
AcknowledgedCreateIsTracked ==
  \A i \in acked : ref[i] /\ cloud[i] # "none"

\* A termination of a VM that found an external_id and was answered with
\* success means the droplet is gone (TerminateVM returns the bridge's error
\* before it writes the status).
AcknowledgedTerminateReleased == \A i \in freed \cap VMs : cloud[i] = "deleted"

\* Can a deletion that was accepted be relied on?
Deletable(i) == i \in VMs \/ "graphql" \notin Faults

\* An instance that went into use while its lease ran stays within reach of
\* the expiry pass for as long as its resource is live: whatever handlers,
\* passes and failures do to its row, ListExpiredVMs and ListExpiredPods will
\* list it and find its external_id.  A pod whose deletion RunPod refuses
\* inside a 200 answer does not.
UsedInTimeIsReclaimable ==
  \A i \in inTime :
    cloud[i] = "live" /\ Deletable(i) => ref[i] /\ status[i] \in {"running", "stopped"}

(***************************************************************************)
(* The inductive invariants behind these properties.                       *)
(***************************************************************************)
Creating == {"provision", "fail", "link", "activate"}

\* external_id always names a resource that was really created, and a row
\* that does not exist yet has none.
RowsConsistent ==
  \A i \in Instances :
    /\ ref[i] => cloud[i] # "none"
    /\ status[i] = "absent" => cloud[i] = "none"

\* What a handler may rely on at each of its steps, whatever ran since its
\* last one.
HandlersConsistent ==
  \A w \in Workers :
    LET i == req[w].inst IN
    /\ req[w].at # "idle" => i \in Instances /\ status[i] # "absent"
    /\ req[w].at = "provision" => cloud[i] = "none"
    /\ req[w].at \in {"link", "activate"} => cloud[i] # "none"
    /\ req[w].at = "activate" => ref[i]
    /\ req[w].at \in {"delete", "retire"} => i \in asked
    /\ req[w].at = "delete" => ref[i]
    /\ req[w].at = "retire" /\ req[w].saw /\ i \in VMs => cloud[i] = "deleted"

\* A row is created by one handler only.
OneCreator ==
  \A v, w \in Workers :
    /\ req[v].at \in Creating /\ req[w].at \in Creating
    /\ req[v].inst = req[w].inst
    => v = w

\* A listing may be stale, but a lease that had ended is still over, and a
\* reference that was there still is.
ListingsConsistent ==
  \A s \in Sweepers :
    /\ \A e \in sweep[s].todo : Due(e.inst) /\ (e.saw => ref[e.inst])
    /\ sweep[s].mark # 0 => Due(sweep[s].mark)

LifecycleInv ==
  /\ TypeOK
  /\ RowsConsistent
  /\ HandlersConsistent
  /\ OneCreator
  /\ ListingsConsistent
  /\ LeaseHonoured
  /\ AcknowledgedCreateIsTracked
  /\ AcknowledgedTerminateReleased

\* Why an instance in use stays within reach: its creator is done with it, a
\* pass that lists it sees its reference, and whoever is about to end its row,
\* a pass or a terminating handler, has seen its resource go.
CreatorsDone ==
  \A i \in inTime : ref[i] /\ \A w \in Workers : req[w].at \in Creating => req[w].inst # i

PassesKnow ==
  \A s \in Sweepers :
    /\ \A e \in sweep[s].todo : e.inst \in inTime => e.saw
    /\ sweep[s].mark \in inTime /\ Deletable(sweep[s].mark) => cloud[sweep[s].mark] = "deleted"

RetirersKnow ==
  \A w \in Workers :
    req[w].at = "retire" /\ req[w].inst \in inTime /\ Deletable(req[w].inst)
      => cloud[req[w].inst] = "deleted"

ReclaimInv == CreatorsDone /\ PassesKnow /\ RetirersKnow /\ UsedInTimeIsReclaimable

\* StartVM does not write over a termination that was carried out after it
\* read the row: a VM whose TerminateVM was answered with success stays
\* terminated ("terminated VM cannot be started").
TerminatedNotStarted ==
  [][\A w \in Workers : WriteRunning(w)
       => ~(req[w].inst \in freed /\ status[req[w].inst] = "terminated")]_vars

\* The rented resources behave as the abstract lease says.
LeaseRefined == INSTANCE Lease WITH Last <- Last, cloud <- cloud, elapsed <- elapsed, asked <- asked
LeaseSpec == LeaseRefined!LSpec

-----------------------------------------------------------------------------
(* Liveness, under FairSpec *)

\* The page of the expiry listing is full of rows that come before row i and
\* that no pass can end: no external_id names their resource, or it is gone
\* already, and no deletion of a droplet that is gone is accepted.
Crowded(i) ==
  \E kind \in {VMs, Pods} :
    /\ i \in kind
    /\ Cardinality({j \in Expirable(kind) : j < i /\ ~(ref[j] /\ cloud[j] = "live")}) >= PassLimit

\* Auto-cleanup: an instance that went into use while its lease ran is taken
\* down when the lease is over, whatever requests and deletions race with the
\* passes, unless its row has no place on the page.
UsedInTimeIsReleased ==
  \A i \in Instances : (i \in inTime /\ Due(i)) ~> (cloud[i] = "deleted" \/ Crowded(i))

RowFollows(i) == (cloud[i] = "deleted") ~> (status[i] \notin {"running", "stopped"})

\* The row of a pod that is gone does not say running or stopped for ever: a
\* repeated deletion of a pod succeeds, so the expiry pass finishes its row even
\* when the bridge's worker deleted first.  (The row of a VM does not follow.)
PodStatusFollowsDeletion == \A i \in Pods : RowFollows(i)
===============================================================================
