------------------------ MODULE ComputeLifecycle_proofs ------------------------
(***************************************************************************)
(* Proofs about ComputeLifecycle, for every number of instances, handlers  *)
(* and sweepers and for every set of faults.                               *)
(***************************************************************************)
EXTENDS ComputeLifecycle, TLAPS

(***************************************************************************)
(* Facts about the helpers                                                 *)
(***************************************************************************)

\* The kinds of instances are sets of instances.
LEMMA Kinds == VMs \in SUBSET Instances /\ Pods \in SUBSET Instances
  BY LifecycleAssumption DEF Instances, Pods

\* A listing returns rows of the kind asked for whose lease has ended, each
\* with the reference it had at that moment.
LEMMA ListingFacts ==
  ASSUME TypeOK, NEW kind \in SUBSET Instances
  PROVE  /\ ListExpired(kind) \in SUBSET Listed
         /\ \A e \in ListExpired(kind) : Due(e.inst) /\ (e.saw => ref[e.inst])
<1> SUFFICES ASSUME NEW e \in ListExpired(kind)
             PROVE  e \in Listed /\ Due(e.inst) /\ (e.saw => ref[e.inst])
  OBVIOUS
<1>1. PICK i \in kind : Due(i) /\ e = [inst |-> i, saw |-> ref[i]]
  BY DEF ListExpired, Page, Expirable
<1>2. i \in Instances /\ ref[i] \in BOOLEAN
  BY DEF TypeOK
<1>3. e.inst = i /\ e.saw = ref[i]
  BY <1>1
<1>4. e \in Listed
  BY <1>1, <1>2 DEF Listed
<1> QED  BY <1>1, <1>3, <1>4

\* Both outcomes of a deletion leave the cloud well-typed, delete nothing but
\* the one resource asked for, and never bring one up.
LEMMA DeletionFacts ==
  ASSUME TypeOK, NEW i \in Instances, BridgeDeletes(i) \/ BridgeDeleteFails(i)
  PROVE  /\ cloud' \in [Instances -> {"none", "live", "deleted"}]
         /\ \A j \in Instances : cloud'[j] # cloud[j] =>
              j = i /\ cloud[j] = "live" /\ cloud'[j] = "deleted"
  BY DEF BridgeDeletes, BridgeDeleteFails, TypeOK

\* The three ways a worker's request changes keep it a request.
LEMMA ReplyTyped ==
  ASSUME TypeOK, NEW w \in Workers, Reply(w)  PROVE  req' \in [Workers -> Request]
  BY DEF TypeOK, Reply, Resting, Request, Labels

LEMMA GotoTyped ==
  ASSUME TypeOK, NEW w \in Workers, NEW label \in Labels, Goto(w, label)
  PROVE  req' \in [Workers -> Request]
  BY DEF TypeOK, Goto, Request

LEMMA AcceptTyped ==
  ASSUME TypeOK, NEW w \in Workers, NEW label \in Labels, NEW i \in Instances,
         Accept(w, i, label)
  PROVE  req' \in [Workers -> Request]
<1>1. [at |-> label, inst |-> i, saw |-> ref[i]] \in Request
  BY DEF TypeOK, Request
<1> QED  BY <1>1 DEF TypeOK, Accept

\* Writing a status into a row keeps the column typed.
LEMMA StatusTyped ==
  ASSUME TypeOK, NEW i, NEW s \in Status, SetStatus(i, s)
  PROVE  status' \in [Instances -> Status]
  BY DEF TypeOK, SetStatus

-----------------------------------------------------------------------------
(* Type correctness *)

LEMMA TypeInit == Init => TypeOK
  BY LifecycleAssumption
  DEF Init, TypeOK, Status, Labels, Request, Pass, Resting, Waiting, Instances

LEMMA TypeServe ==
  ASSUME TypeOK, NEW w \in Workers, req[w].at # "idle" => req[w].inst \in Instances,
         Arrive(w) \/ Serve(w) \/ Abandon(w)
  PROVE  TypeOK'
<1> USE DEF History
<1>1. CASE BeginCreate(w)
  BY <1>1, AcceptTyped, StatusTyped DEF BeginCreate, TypeOK, Status, Labels
<1>2. CASE BeginPower(w)
  BY <1>2, Kinds, AcceptTyped DEF BeginPower, TypeOK, Labels
<1>3. CASE BeginTerminate(w)
  BY <1>3, AcceptTyped DEF BeginTerminate, TypeOK, Labels
<1>4. CASE ProvisionSucceeds(w)
  BY <1>4, GotoTyped DEF ProvisionSucceeds, TypeOK, Labels
<1>5. CASE ProvisionFails(w)
  <2>1. cloud' \in [Instances -> {"none", "live", "deleted"}]
    BY <1>5 DEF ProvisionFails, TypeOK
  <2> QED  BY <1>5, <2>1, GotoTyped DEF ProvisionFails, TypeOK, Labels
<1>6. CASE MarkCreateFailed(w)
  BY <1>6, ReplyTyped, StatusTyped DEF MarkCreateFailed, TypeOK, Status
<1>7. CASE UpdateExternalRef(w)
  BY <1>7, GotoTyped DEF UpdateExternalRef, TypeOK, Labels
<1>8. CASE Activate(w)
  BY <1>8, ReplyTyped, StatusTyped DEF Activate, TypeOK, Status
<1>9. CASE WriteRunning(w)
  BY <1>9, ReplyTyped, StatusTyped DEF WriteRunning, TypeOK, Status
<1>10. CASE WriteStopped(w)
  <2>1. Reply(w) \/ Goto(w, "restart")  BY <1>10 DEF WriteStopped
  <2>2. req' \in [Workers -> Request]  BY <2>1, ReplyTyped, GotoTyped DEF Labels
  <2> QED  BY <1>10, <2>2, StatusTyped DEF WriteStopped, TypeOK, Status
<1>11. CASE RebootReads(w)
  <2>1. Reply(w) \/ Goto(w, "start")  BY <1>11 DEF RebootReads
  <2>2. req' \in [Workers -> Request]  BY <2>1, ReplyTyped, GotoTyped DEF Labels
  <2> QED  BY <1>11, <2>2 DEF RebootReads, TypeOK
<1>12. CASE TerminateDeletes(w)
  BY <1>12, DeletionFacts, GotoTyped DEF TerminateDeletes, TypeOK, Labels
<1>13. CASE TerminateRefused(w)
  BY <1>13, DeletionFacts, ReplyTyped DEF TerminateRefused, TypeOK
<1>14. CASE Retire(w)
  <2>1. freed' \subseteq Instances  BY <1>14 DEF Retire, TypeOK
  <2> QED  BY <1>14, <2>1, ReplyTyped, StatusTyped DEF Retire, TypeOK, Status
<1>15. CASE Abandon(w)
  BY <1>15, ReplyTyped DEF Abandon, TypeOK
<1> QED  BY <1>1, <1>2, <1>3, <1>4, <1>5, <1>6, <1>7, <1>8, <1>9, <1>10, <1>11, <1>12,
            <1>13, <1>14, <1>15 DEF Arrive, Serve

\* One step of a pass on a row keeps the pass well-typed.
LEMMA SweepTyped ==
  ASSUME TypeOK, NEW s \in Sweepers,
         \/ BeginPass(s) \/ ListPods(s) \/ EndPass(s)
         \/ SweepDeletes(s) \/ SweepSkips(s) \/ MarkExpired(s) \/ AbandonPass(s)
  PROVE  sweep' \in [Sweepers -> Pass]
<1> USE DEF TypeOK
<1>1. sweep[s] \in Pass  OBVIOUS
<1>2. CASE BeginPass(s)
  <2>1. ListExpired(VMs) \in SUBSET Listed  BY ListingFacts, Kinds
  <2> QED  BY <1>1, <1>2, <2>1 DEF BeginPass, Pass
<1>3. CASE ListPods(s)
  <2>1. ListExpired(Pods) \in SUBSET Listed  BY ListingFacts, Kinds
  <2> QED  BY <1>1, <1>3, <2>1 DEF ListPods, Pass
<1>4. CASE SweepDeletes(s)
  <2>1. PICK e \in sweep[s].todo :
          sweep' = [sweep EXCEPT ![s].todo = @ \ {e}, ![s].mark = e.inst]
    BY <1>4 DEF SweepDeletes
  <2>2. e.inst \in Instances  BY <1>1 DEF Pass, Listed
  <2> QED  BY <1>1, <2>1, <2>2 DEF Pass
<1>5. CASE SweepSkips(s)
  <2>1. PICK e \in sweep[s].todo : sweep' = [sweep EXCEPT ![s].todo = @ \ {e}]
    BY <1>5 DEF SweepSkips
  <2> QED  BY <1>1, <2>1 DEF Pass
<1>6. CASE MarkExpired(s)  BY <1>1, <1>6 DEF MarkExpired, Pass
<1>7. CASE EndPass(s) \/ AbandonPass(s)
  BY <1>7 DEF EndPass, AbandonPass, Waiting, Pass
<1> QED  BY <1>2, <1>3, <1>4, <1>5, <1>6, <1>7

LEMMA TypeSweep ==
  ASSUME TypeOK, NEW s \in Sweepers, Sweep(s) \/ AbandonPass(s)
  PROVE  TypeOK'
<1> USE DEF History
<1>0. sweep' \in [Sweepers -> Pass]  BY SweepTyped DEF Sweep
<1>1. CASE BeginPass(s)  BY <1>0, <1>1 DEF BeginPass, TypeOK
<1>2. CASE ListPods(s)  BY <1>0, <1>2 DEF ListPods, TypeOK
<1>3. CASE EndPass(s)  BY <1>0, <1>3 DEF EndPass, TypeOK
<1>4. CASE SweepDeletes(s) \/ SweepSkips(s)
  <2>1. PICK e \in sweep[s].todo :
          BridgeDeletes(e.inst) \/ BridgeDeleteFails(e.inst) \/ UNCHANGED cloud
    BY <1>4 DEF SweepDeletes, SweepSkips
  <2>2. e.inst \in Instances  BY DEF TypeOK, Pass, Listed
  <2>3. cloud' \in [Instances -> {"none", "live", "deleted"}]
    BY <2>1, <2>2, DeletionFacts DEF TypeOK
  <2> QED  BY <1>0, <1>4, <2>3 DEF SweepDeletes, SweepSkips, TypeOK
<1>5. CASE MarkExpired(s)
  <2>1. status' \in [Instances -> Status]
    BY <1>5, StatusTyped DEF MarkExpired, TypeOK, Status
  <2> QED  BY <1>0, <1>5, <2>1 DEF MarkExpired, TypeOK
<1>6. CASE AbandonPass(s)  BY <1>0, <1>6 DEF AbandonPass, TypeOK
<1> QED  BY <1>1, <1>2, <1>3, <1>4, <1>5, <1>6 DEF Sweep

LEMMA TypeEnvironment ==
  ASSUME TypeOK, LeaseEnds \/ \E i \in Instances : BridgeReaps(i)
  PROVE  TypeOK'
<1>1. CASE LeaseEnds
  BY <1>1, LifecycleAssumption DEF LeaseEnds, TypeOK, History, Instances
<1>2. CASE \E i \in Instances : BridgeReaps(i)
  BY <1>2 DEF BridgeReaps, TypeOK, History
<1> QED  BY <1>1, <1>2

-----------------------------------------------------------------------------
(***************************************************************************)
(* The inductive invariant.  Nothing that a step relies on can be undone   *)
(* behind its back: references stay, leases that ended stay over, deleted  *)
(* resources stay deleted.  A resource is brought up only by the one       *)
(* handler that creates its row.                                           *)
(***************************************************************************)
OthersKeep(w) == \A v \in Workers : v # w => req'[v] = req[v]

CloudMoves(i) == cloud[i] = "live" /\ cloud'[i] = "deleted"

Monotone ==
  /\ \A i \in Instances : ref[i] => ref'[i]
  /\ \A i \in Instances : Due(i) => Due(i)'
  /\ \A i \in Instances : status[i] # "absent" => status'[i] # "absent"
  /\ asked \subseteq asked'

\* Moving on to the next label keeps the rest of the request.
LEMMA GotoFacts ==
  ASSUME TypeOK, NEW w \in Workers, NEW label \in Labels, Goto(w, label)
  PROVE  /\ req'[w].at = label
         /\ req'[w].inst = req[w].inst
         /\ req'[w].saw = req[w].saw
  BY DEF TypeOK, Goto, Request

\* What a step of worker w leaves alone.
LEMMA ServeFrame ==
  ASSUME TypeOK, NEW w \in Workers, req[w].at # "idle" => req[w].inst \in Instances,
         Arrive(w) \/ Serve(w) \/ Abandon(w)
  PROVE  OthersKeep(w) /\ Monotone /\ UNCHANGED <<sweep, elapsed>>
<1> USE DEF TypeOK, History, Monotone, OthersKeep, Due, Goto, Reply, SetStatus, Accept
<1>1. CASE BeginCreate(w)  BY <1>1 DEF BeginCreate
<1>2. CASE BeginPower(w)  BY <1>2 DEF BeginPower
<1>3. CASE BeginTerminate(w)  BY <1>3 DEF BeginTerminate
<1>4. CASE ProvisionSucceeds(w)  BY <1>4 DEF ProvisionSucceeds
<1>5. CASE ProvisionFails(w)  BY <1>5 DEF ProvisionFails
<1>6. CASE MarkCreateFailed(w)  BY <1>6 DEF MarkCreateFailed
<1>7. CASE UpdateExternalRef(w)  BY <1>7 DEF UpdateExternalRef
<1>8. CASE Activate(w)  BY <1>8 DEF Activate
<1>9. CASE WriteRunning(w)  BY <1>9 DEF WriteRunning
<1>10. CASE WriteStopped(w)  BY <1>10 DEF WriteStopped
<1>11. CASE RebootReads(w)  BY <1>11 DEF RebootReads
<1>12. CASE TerminateDeletes(w)  BY <1>12 DEF TerminateDeletes
<1>13. CASE TerminateRefused(w)  BY <1>13 DEF TerminateRefused
<1>14. CASE Retire(w)  BY <1>14 DEF Retire
<1>15. CASE Abandon(w)  BY <1>15 DEF Abandon
<1> QED  BY <1>1, <1>2, <1>3, <1>4, <1>5, <1>6, <1>7, <1>8, <1>9, <1>10, <1>11, <1>12,
            <1>13, <1>14, <1>15 DEF Arrive, Serve

\* What a step of worker w does to the cloud: its creation brings a resource
\* up, its deletion takes one down, everything else leaves the cloud alone.
LEMMA ServeCloud ==
  ASSUME TypeOK, HandlersConsistent, NEW w \in Workers,
         Arrive(w) \/ Serve(w) \/ Abandon(w),
         NEW i \in Instances, cloud'[i] # cloud[i]
  PROVE  /\ i = req[w].inst
         /\ \/ req[w].at = "provision" /\ cloud[i] = "none" /\ cloud'[i] = "live"
            \/ req[w].at = "delete" /\ CloudMoves(i)
<1> USE DEF History, CloudMoves
<1>1. CASE ProvisionSucceeds(w)
  BY <1>1 DEF ProvisionSucceeds, HandlersConsistent, TypeOK
<1>2. CASE ProvisionFails(w)
  BY <1>2 DEF ProvisionFails, HandlersConsistent, TypeOK
<1>3. CASE TerminateDeletes(w)
  <2>1. req[w].inst \in Instances  BY <1>3 DEF TerminateDeletes, HandlersConsistent
  <2> QED  BY <1>3, <2>1, DeletionFacts DEF TerminateDeletes
<1>4. CASE TerminateRefused(w)
  <2>1. req[w].inst \in Instances  BY <1>4 DEF TerminateRefused, HandlersConsistent
  <2> QED  BY <1>4, <2>1, DeletionFacts DEF TerminateRefused
<1> QED
  BY <1>1, <1>2, <1>3, <1>4
  DEF Arrive, Serve, BeginCreate, BeginPower, BeginTerminate, MarkCreateFailed,
      UpdateExternalRef, Activate, WriteRunning, WriteStopped, RebootReads, Retire, Abandon

\* What a step of a sweeper, of the clock or of the bridge's TTL worker leaves
\* alone, and what it does to the cloud.
SweepOrTime ==
  \/ \E s \in Sweepers : Sweep(s) \/ AbandonPass(s)
  \/ LeaseEnds
  \/ \E i \in Instances : BridgeReaps(i)

LEMMA SweepFrame ==
  ASSUME TypeOK, ListingsConsistent, SweepOrTime
  PROVE  /\ Monotone
         /\ UNCHANGED <<req, ref, asked, acked, inTime, freed>>
         /\ \A i \in Instances : cloud'[i] # cloud[i] => CloudMoves(i) /\ Due(i)
<1> USE DEF History, CloudMoves
<1>1. CASE LeaseEnds
  BY <1>1, LifecycleAssumption DEF LeaseEnds, Monotone, Due, TypeOK, Instances
<1>2. CASE \E i \in Instances : BridgeReaps(i)
  BY <1>2 DEF BridgeReaps, Monotone, Due, TypeOK
<1>3. ASSUME NEW s \in Sweepers, SweepDeletes(s) \/ SweepSkips(s)
      PROVE  /\ Monotone
             /\ UNCHANGED <<req, ref, asked, acked, inTime, freed>>
             /\ \A i \in Instances : cloud'[i] # cloud[i] => CloudMoves(i) /\ Due(i)
  <2>1. PICK e \in sweep[s].todo :
          BridgeDeletes(e.inst) \/ BridgeDeleteFails(e.inst) \/ UNCHANGED cloud
    BY <1>3 DEF SweepDeletes, SweepSkips
  <2>2. e.inst \in Instances /\ Due(e.inst)
    BY DEF TypeOK, Pass, Listed, ListingsConsistent
  <2>3. \A i \in Instances : cloud'[i] # cloud[i] => CloudMoves(i) /\ Due(i)
    BY <2>1, <2>2, DeletionFacts
  <2> QED  BY <1>3, <2>3 DEF SweepDeletes, SweepSkips, Monotone, Due
<1>4. ASSUME NEW s \in Sweepers, MarkExpired(s)
      PROVE  Monotone /\ UNCHANGED <<req, ref, cloud, asked, acked, inTime, freed>>
  BY <1>4 DEF MarkExpired, SetStatus, Monotone, Due, TypeOK
<1>5. ASSUME NEW s \in Sweepers, BeginPass(s) \/ ListPods(s) \/ EndPass(s) \/ AbandonPass(s)
      PROVE  Monotone /\ UNCHANGED <<req, ref, cloud, asked, acked, inTime, freed>>
  BY <1>5 DEF BeginPass, ListPods, EndPass, AbandonPass, Monotone, Due
<1> QED  BY <1>1, <1>2, <1>3, <1>4, <1>5 DEF SweepOrTime, Sweep

LEMMA InvInit == Init => LifecycleInv
<1> SUFFICES ASSUME Init PROVE LifecycleInv  OBVIOUS
<1>1. TypeOK  BY TypeInit
<1>2. /\ RowsConsistent /\ HandlersConsistent /\ OneCreator /\ ListingsConsistent
      /\ LeaseHonoured /\ AcknowledgedCreateIsTracked /\ AcknowledgedTerminateReleased
  BY DEF Init, RowsConsistent, HandlersConsistent, OneCreator, ListingsConsistent,
         LeaseHonoured, AcknowledgedCreateIsTracked, AcknowledgedTerminateReleased,
         Resting, Waiting, Creating
<1> QED  BY <1>1, <1>2 DEF LifecycleInv

LEMMA RowsServe ==
  ASSUME TypeOK, RowsConsistent, HandlersConsistent, NEW w \in Workers,
         Arrive(w) \/ Serve(w) \/ Abandon(w)
  PROVE  RowsConsistent'
<1> SUFFICES ASSUME NEW i \in Instances
             PROVE  /\ ref'[i] => cloud'[i] # "none"
                    /\ status'[i] = "absent" => cloud'[i] = "none"
  BY DEF RowsConsistent
<1>1. Monotone  BY ServeFrame DEF HandlersConsistent
<1>2. cloud[i] # "none" => cloud'[i] # "none"  BY ServeCloud DEF CloudMoves
<1>3. cloud'[i] # cloud[i] => status[i] # "absent"
  BY ServeCloud DEF HandlersConsistent
<1>4. CASE ref'[i] = ref[i]
  BY <1>1, <1>2, <1>3, <1>4 DEF RowsConsistent, Monotone
<1>5. CASE ref'[i] # ref[i]
  <2>1. UpdateExternalRef(w) /\ i = req[w].inst
    BY <1>5 DEF Arrive, Serve, BeginCreate, BeginPower, BeginTerminate, ProvisionSucceeds,
       ProvisionFails, MarkCreateFailed, UpdateExternalRef, Activate, WriteRunning,
       WriteStopped, RebootReads, TerminateDeletes, TerminateRefused, Retire, Abandon, TypeOK
  <2>2. cloud[i] # "none"  BY <2>1 DEF UpdateExternalRef, HandlersConsistent
  <2> QED  BY <1>1, <1>2, <1>3, <2>2 DEF RowsConsistent, Monotone
<1> QED  BY <1>4, <1>5

\* The handler that moves: each label it can reach brings what it promises.
LEMMA HandlerMoves ==
  ASSUME TypeOK, RowsConsistent, HandlersConsistent, NEW w \in Workers,
         Arrive(w) \/ Serve(w) \/ Abandon(w)
  PROVE  LET i == req'[w].inst IN
         /\ req'[w].at # "idle" => i \in Instances /\ status'[i] # "absent"
         /\ req'[w].at = "provision" => cloud'[i] = "none"
         /\ req'[w].at \in {"link", "activate"} => cloud'[i] # "none"
         /\ req'[w].at = "activate" => ref'[i]
         /\ req'[w].at \in {"delete", "retire"} => i \in asked'
         /\ req'[w].at = "delete" => ref'[i]
         /\ req'[w].at = "retire" /\ req'[w].saw /\ i \in VMs => cloud'[i] = "deleted"
<1> DEFINE i == req'[w].inst
<1> USE DEF TypeOK, History, Goto, Reply, SetStatus, Accept, Resting
<1>1. CASE BeginCreate(w)  BY <1>1 DEF BeginCreate, RowsConsistent
<1>2. CASE BeginPower(w)  BY <1>2, Kinds DEF BeginPower
<1>3. CASE BeginTerminate(w)  BY <1>3 DEF BeginTerminate
<1>4. CASE ProvisionSucceeds(w)  BY <1>4 DEF ProvisionSucceeds, HandlersConsistent
<1>5. CASE ProvisionFails(w)  BY <1>5 DEF ProvisionFails, HandlersConsistent
<1>6. CASE \/ MarkCreateFailed(w) \/ Activate(w) \/ WriteRunning(w) \/ TerminateRefused(w)
           \/ Retire(w) \/ Abandon(w)
  BY <1>6 DEF MarkCreateFailed, Activate, WriteRunning, TerminateRefused, Retire, Abandon
<1>7. CASE UpdateExternalRef(w)  BY <1>7 DEF UpdateExternalRef, HandlersConsistent
<1>8. CASE WriteStopped(w)
  <2>1. \/ req'[w].at = "idle"
        \/ req'[w].at = "restart" /\ req'[w].inst = req[w].inst
    <3>1. Reply(w) \/ Goto(w, "restart")  BY <1>8 DEF WriteStopped
    <3>2. CASE Reply(w)  BY <3>2
    <3>3. CASE Goto(w, "restart")  BY <3>3, GotoFacts DEF Labels
    <3> QED  BY <3>1, <3>2, <3>3
  <2>2. req[w].inst \in Instances /\ status'[req[w].inst] = "stopped"
    BY <1>8 DEF WriteStopped, HandlersConsistent
  <2> QED  BY <2>1, <2>2
<1>9. CASE RebootReads(w)
  <2>1. \/ req'[w].at = "idle"
        \/ req'[w].at = "start" /\ req'[w].inst = req[w].inst
    <3>1. Reply(w) \/ Goto(w, "start")  BY <1>9 DEF RebootReads
    <3>2. CASE Reply(w)  BY <3>2
    <3>3. CASE Goto(w, "start")  BY <3>3, GotoFacts DEF Labels
    <3> QED  BY <3>1, <3>2, <3>3
  <2>2. req[w].inst \in Instances /\ status'[req[w].inst] # "absent"
    BY <1>9 DEF RebootReads, HandlersConsistent
  <2> QED  BY <2>1, <2>2
<1>10. CASE TerminateDeletes(w)
  <2>1. /\ req[w].inst \in Instances /\ status[req[w].inst] # "absent"
        /\ req[w].inst \in asked
    BY <1>10 DEF TerminateDeletes, HandlersConsistent
  <2>2. req[w].inst \in VMs => cloud'[req[w].inst] = "deleted"
    BY <1>10, <2>1 DEF TerminateDeletes, BridgeDeletes, Pods
  <2> QED  BY <1>10, <2>1, <2>2 DEF TerminateDeletes
<1> QED  BY <1>1, <1>2, <1>3, <1>4, <1>5, <1>6, <1>7, <1>8, <1>9, <1>10 DEF Arrive, Serve

LEMMA HandlersServe ==
  ASSUME TypeOK, RowsConsistent, HandlersConsistent, OneCreator, NEW w \in Workers,
         Arrive(w) \/ Serve(w) \/ Abandon(w)
  PROVE  HandlersConsistent'
<1>1. ASSUME NEW v \in Workers, v # w
      PROVE  LET i == req'[v].inst IN
             /\ req'[v].at # "idle" => i \in Instances /\ status'[i] # "absent"
             /\ req'[v].at = "provision" => cloud'[i] = "none"
             /\ req'[v].at \in {"link", "activate"} => cloud'[i] # "none"
             /\ req'[v].at = "activate" => ref'[i]
             /\ req'[v].at \in {"delete", "retire"} => i \in asked'
             /\ req'[v].at = "delete" => ref'[i]
             /\ req'[v].at = "retire" /\ req'[v].saw /\ i \in VMs => cloud'[i] = "deleted"
  <2>1. req'[v] = req[v] /\ Monotone
    BY <1>1, ServeFrame DEF OthersKeep, HandlersConsistent
  <2>2. ASSUME req[v].at # "idle"
        PROVE  LET i == req[v].inst IN
               /\ i \in Instances
               /\ cloud[i] # "none" => cloud'[i] # "none"
               /\ cloud[i] = "deleted" => cloud'[i] = "deleted"
               /\ req[v].at = "provision" /\ cloud[i] = "none" => cloud'[i] = "none"
    <3>1. req[v].inst \in Instances  BY <2>2 DEF HandlersConsistent
    <3>2. req[v].at = "provision" /\ req[w].at = "provision" => req[v].inst # req[w].inst
      BY <1>1 DEF OneCreator, Creating
    <3> QED  BY <3>1, <3>2, ServeCloud DEF CloudMoves
  <2> QED  BY <2>1, <2>2 DEF HandlersConsistent, Monotone
<1> QED  BY <1>1, HandlerMoves DEF HandlersConsistent

LEMMA CreatorServe ==
  ASSUME TypeOK, HandlersConsistent, OneCreator, NEW w \in Workers,
         Arrive(w) \/ Serve(w) \/ Abandon(w)
  PROVE  OneCreator'
<1>1. OthersKeep(w)  BY ServeFrame DEF HandlersConsistent
<1>2. ASSUME req'[w].at \in Creating
      PROVE  \/ req[w].at \in Creating /\ req'[w].inst = req[w].inst
             \/ status[req'[w].inst] = "absent"
  <2>1. CASE BeginCreate(w)  BY <2>1 DEF BeginCreate, Accept, TypeOK
  <2>2. CASE ProvisionSucceeds(w) \/ ProvisionFails(w) \/ UpdateExternalRef(w)
    BY <2>2, GotoFacts
    DEF ProvisionSucceeds, ProvisionFails, UpdateExternalRef, Creating, Labels
  <2>3. CASE BeginPower(w) \/ BeginTerminate(w)
    BY <1>2, <2>3 DEF BeginPower, BeginTerminate, Accept, Creating, TypeOK
  <2>4. CASE Reply(w)  BY <1>2, <2>4 DEF Reply, Resting, Creating, TypeOK
  <2>5. CASE \E label \in {"restart", "start", "retire"} : Goto(w, label)
    BY <1>2, <2>5, GotoFacts DEF Creating, Labels
  <2> QED
    BY <2>1, <2>2, <2>3, <2>4, <2>5
    DEF Arrive, Serve, MarkCreateFailed, Activate, WriteRunning, WriteStopped,
        RebootReads, TerminateDeletes, TerminateRefused, Retire, Abandon
<1>3. \A v \in Workers : req[v].at \in Creating => status[req[v].inst] # "absent"
  BY DEF HandlersConsistent, Creating
<1> QED  BY <1>1, <1>2, <1>3 DEF OneCreator, OthersKeep

LEMMA ListingsServe ==
  ASSUME TypeOK, HandlersConsistent, ListingsConsistent, NEW w \in Workers,
         Arrive(w) \/ Serve(w) \/ Abandon(w)
  PROVE  ListingsConsistent'
<1>1. Monotone /\ UNCHANGED <<sweep, elapsed>>
  BY ServeFrame DEF HandlersConsistent
<1>2. \A s \in Sweepers : \A e \in sweep[s].todo : e.inst \in Instances
  BY DEF TypeOK, Pass, Listed
<1> QED  BY <1>1, <1>2 DEF ListingsConsistent, Monotone, Due

LEMMA ListingsSweep ==
  ASSUME TypeOK, ListingsConsistent, SweepOrTime
  PROVE  ListingsConsistent'
<1>1. Monotone  BY SweepFrame
<1>2. \A s \in Sweepers : /\ sweep[s] \in Pass
                          /\ \A e \in sweep[s].todo : e.inst \in Instances
  BY DEF TypeOK, Pass, Listed
<1>3. CASE UNCHANGED sweep
  <2>1. \A s \in Sweepers : sweep[s].mark # 0 => sweep[s].mark \in Instances
    BY <1>2 DEF Pass
  <2> QED  BY <1>1, <1>2, <1>3, <2>1 DEF ListingsConsistent, Monotone
<1>4. ASSUME NEW s \in Sweepers, Sweep(s) \/ AbandonPass(s)
      PROVE  ListingsConsistent'
  <2> SUFFICES ASSUME NEW r \in Sweepers
               PROVE  /\ \A e \in sweep'[r].todo :
                            e.inst <= elapsed' /\ (e.saw => ref'[e.inst])
                      /\ sweep'[r].mark # 0 => sweep'[r].mark <= elapsed'
    BY DEF ListingsConsistent, Due
  <2>1. UNCHANGED <<ref, elapsed>>
    BY <1>4 DEF Sweep, BeginPass, ListPods, EndPass, SweepDeletes, SweepSkips,
                MarkExpired, AbandonPass
  <2>2. CASE sweep'[r] = sweep[r]
    BY <2>1, <2>2 DEF ListingsConsistent, Due
  <2>3. CASE sweep'[r] # sweep[r]
    <3>1. r = s /\ sweep'[s] # sweep[s]
      BY <1>4, <2>3 DEF TypeOK, Sweep, BeginPass, ListPods, EndPass, SweepDeletes, SweepSkips,
                        MarkExpired, AbandonPass
    <3>2. ASSUME NEW kind \in SUBSET Instances, sweep'[s].todo = ListExpired(kind)
          PROVE  \A e \in sweep'[s].todo : Due(e.inst) /\ (e.saw => ref[e.inst])
      BY <3>2, ListingFacts
    <3>3. CASE BeginPass(s)
      <4>1. sweep'[s].todo = ListExpired(VMs) /\ sweep'[s].mark = sweep[s].mark
        BY <1>2, <3>3 DEF BeginPass, Pass, TypeOK
      <4> QED  BY <2>1, <3>1, <3>2, <4>1, Kinds DEF ListingsConsistent, Due
    <3>4. CASE ListPods(s)
      <4>1. sweep'[s].todo = ListExpired(Pods) /\ sweep'[s].mark = sweep[s].mark
        BY <1>2, <3>4 DEF ListPods, Pass, TypeOK
      <4> QED  BY <2>1, <3>1, <3>2, <4>1, Kinds DEF ListingsConsistent, Due
    <3>5. CASE EndPass(s) \/ AbandonPass(s)
      BY <3>1, <3>5 DEF EndPass, AbandonPass, Waiting, TypeOK
    <3>6. CASE SweepDeletes(s)
      <4>1. PICK e \in sweep[s].todo :
              sweep' = [sweep EXCEPT ![s].todo = @ \ {e}, ![s].mark = e.inst]
        BY <3>6 DEF SweepDeletes
      <4>2. sweep'[s].todo \subseteq sweep[s].todo /\ sweep'[s].mark = e.inst
        BY <1>2, <4>1 DEF Pass, TypeOK
      <4> QED  BY <2>1, <3>1, <4>2 DEF ListingsConsistent, Due
    <3>7. CASE SweepSkips(s)
      <4>1. PICK e \in sweep[s].todo : sweep' = [sweep EXCEPT ![s].todo = @ \ {e}]
        BY <3>7 DEF SweepSkips
      <4>2. sweep'[s].todo \subseteq sweep[s].todo /\ sweep'[s].mark = sweep[s].mark
        BY <1>2, <4>1 DEF Pass, TypeOK
      <4> QED  BY <2>1, <3>1, <4>2 DEF ListingsConsistent, Due
    <3>8. CASE MarkExpired(s)
      <4>1. sweep'[s].todo = sweep[s].todo /\ sweep'[s].mark = 0
        BY <1>2, <3>8 DEF MarkExpired, Pass, TypeOK
      <4> QED  BY <2>1, <3>1, <4>1 DEF ListingsConsistent, Due
    <3> QED  BY <1>4, <3>3, <3>4, <3>5, <3>6, <3>7, <3>8 DEF Sweep
  <2> QED  BY <2>2, <2>3
<1>5. LeaseEnds \/ (\E i \in Instances : BridgeReaps(i)) => UNCHANGED sweep
  BY DEF LeaseEnds, BridgeReaps
<1> QED  BY <1>3, <1>4, <1>5 DEF SweepOrTime

LEMMA HonouredServe ==
  ASSUME TypeOK, HandlersConsistent, LeaseHonoured, NEW w \in Workers,
         Arrive(w) \/ Serve(w) \/ Abandon(w)
  PROVE  LeaseHonoured'
<1> SUFFICES ASSUME NEW i \in Instances
             PROVE  /\ cloud'[i] = "deleted" => Due(i)' \/ i \in asked'
                    /\ status'[i] = "expired" => Due(i)'
  BY DEF LeaseHonoured
<1>1. Monotone  BY ServeFrame DEF HandlersConsistent
<1>2. cloud'[i] = "deleted" => Due(i)' \/ i \in asked'
  BY <1>1, ServeCloud DEF Monotone, LeaseHonoured, HandlersConsistent
<1>3. status'[i] = "expired" => status[i] = "expired"
  BY DEF Arrive, Serve, BeginCreate, BeginPower, BeginTerminate, ProvisionSucceeds,
         ProvisionFails, MarkCreateFailed, UpdateExternalRef, Activate, WriteRunning,
         WriteStopped, RebootReads, TerminateDeletes, TerminateRefused, Retire, Abandon,
         SetStatus, TypeOK
<1> QED  BY <1>1, <1>2, <1>3 DEF Monotone, LeaseHonoured

LEMMA HonouredSweep ==
  ASSUME TypeOK, ListingsConsistent, LeaseHonoured, SweepOrTime
  PROVE  LeaseHonoured'
<1> SUFFICES ASSUME NEW i \in Instances
             PROVE  /\ cloud'[i] = "deleted" => Due(i)' \/ i \in asked'
                    /\ status'[i] = "expired" => Due(i)'
  BY DEF LeaseHonoured
<1>1. Monotone  BY SweepFrame
<1>2. cloud'[i] = "deleted" => Due(i)' \/ i \in asked'
  BY <1>1, SweepFrame DEF Monotone, LeaseHonoured
<1>3. status'[i] # status[i] => Due(i)
  <2> SUFFICES ASSUME status'[i] # status[i] PROVE Due(i)
    OBVIOUS
  <2>1. PICK s \in Sweepers : MarkExpired(s)
    BY DEF SweepOrTime, Sweep, BeginPass, ListPods, EndPass, SweepDeletes, SweepSkips,
           AbandonPass, LeaseEnds, BridgeReaps
  <2>2. i = sweep[s].mark /\ sweep[s].mark # 0
    BY <2>1 DEF MarkExpired, SetStatus, TypeOK
  <2> QED  BY <2>2 DEF ListingsConsistent
<1> QED  BY <1>1, <1>2, <1>3 DEF Monotone, LeaseHonoured

LEMMA AcknowledgementsServe ==
  ASSUME TypeOK, HandlersConsistent, RowsConsistent', AcknowledgedCreateIsTracked,
         AcknowledgedTerminateReleased, NEW w \in Workers,
         Arrive(w) \/ Serve(w) \/ Abandon(w)
  PROVE  AcknowledgedCreateIsTracked' /\ AcknowledgedTerminateReleased'
<1>1. Monotone  BY ServeFrame DEF HandlersConsistent
<1>2. ASSUME NEW i \in acked'  PROVE ref'[i]
  <2>1. i \in acked \/ (Activate(w) /\ i = req[w].inst)
    BY DEF Arrive, Serve, BeginCreate, BeginPower, BeginTerminate, ProvisionSucceeds,
       ProvisionFails, MarkCreateFailed, UpdateExternalRef, Activate, WriteRunning, History,
       WriteStopped, RebootReads, TerminateDeletes, TerminateRefused, Retire, Abandon
  <2>2. i \in Instances /\ ref[i]
    BY <2>1 DEF Activate, HandlersConsistent, AcknowledgedCreateIsTracked, TypeOK
  <2> QED  BY <1>1, <2>2 DEF Monotone
<1>3. \A i \in acked' : i \in Instances
  BY TypeServe DEF HandlersConsistent, TypeOK
<1>4. ASSUME NEW i \in freed' \cap VMs  PROVE cloud'[i] = "deleted"
  <2>1. i \in freed \/ (Retire(w) /\ req[w].saw /\ i = req[w].inst)
    BY DEF Arrive, Serve, BeginCreate, BeginPower, BeginTerminate, ProvisionSucceeds,
       ProvisionFails, MarkCreateFailed, UpdateExternalRef, Activate, WriteRunning, History,
       WriteStopped, RebootReads, TerminateDeletes, TerminateRefused, Retire, Abandon
  <2>2. i \in Instances /\ cloud[i] = "deleted"
    BY <2>1, Kinds DEF Retire, HandlersConsistent, AcknowledgedTerminateReleased, TypeOK
  <2> QED  BY <2>2, ServeCloud DEF CloudMoves
<1> QED
  BY <1>2, <1>3, <1>4 DEF AcknowledgedCreateIsTracked, AcknowledgedTerminateReleased,
                         RowsConsistent

LEMMA InvNext == LifecycleInv /\ [Next]_vars => LifecycleInv'
<1> SUFFICES ASSUME LifecycleInv, [Next]_vars PROVE LifecycleInv'  OBVIOUS
<1> USE DEF LifecycleInv
<1>1. ASSUME NEW w \in Workers, Arrive(w) \/ Serve(w) \/ Abandon(w)
      PROVE  LifecycleInv'
  <2>1. TypeOK'  BY <1>1, TypeServe DEF HandlersConsistent
  <2>2. RowsConsistent'  BY <1>1, RowsServe
  <2>3. HandlersConsistent'  BY <1>1, HandlersServe
  <2>4. OneCreator'  BY <1>1, CreatorServe
  <2>5. ListingsConsistent'  BY <1>1, ListingsServe
  <2>6. LeaseHonoured'  BY <1>1, HonouredServe
  <2>7. AcknowledgedCreateIsTracked' /\ AcknowledgedTerminateReleased'
    BY <1>1, <2>2, AcknowledgementsServe
  <2> QED  BY <2>1, <2>2, <2>3, <2>4, <2>5, <2>6, <2>7
<1>2. CASE SweepOrTime
  <2>1. TypeOK'  BY <1>2, TypeSweep, TypeEnvironment DEF SweepOrTime
  <2>2. LeaseHonoured' /\ ListingsConsistent'  BY <1>2, HonouredSweep, ListingsSweep
  <2>3. /\ Monotone /\ UNCHANGED <<req, ref, asked, acked, inTime, freed>>
        /\ \A i \in Instances : cloud'[i] # cloud[i] => CloudMoves(i)
    BY <1>2, SweepFrame
  <2>4. RowsConsistent'
    <3>1. \A i \in Instances : (status'[i] = "absent") => (status[i] = "absent")
      BY <2>3 DEF Monotone
    <3> QED  BY <2>3, <3>1 DEF RowsConsistent, CloudMoves
  <2>5. HandlersConsistent'
    BY <2>3 DEF HandlersConsistent, Monotone, CloudMoves
  <2>6. OneCreator'  BY <2>3 DEF OneCreator
  <2>7. AcknowledgedCreateIsTracked' /\ AcknowledgedTerminateReleased'
    BY <2>3, Kinds DEF AcknowledgedCreateIsTracked, AcknowledgedTerminateReleased,
                CloudMoves, TypeOK
  <2> QED  BY <2>1, <2>2, <2>4, <2>5, <2>6, <2>7
<1>3. CASE UNCHANGED vars
  BY <1>3 DEF vars, TypeOK, RowsConsistent, HandlersConsistent, OneCreator,
     ListingsConsistent, LeaseHonoured, AcknowledgedCreateIsTracked,
     AcknowledgedTerminateReleased, Due
<1> QED  BY <1>1, <1>2, <1>3 DEF Next, SweepOrTime

(***************************************************************************)
(* The theorems                                                            *)
(***************************************************************************)

\* The inductive invariant of the lifecycle holds in every reachable state.
THEOREM LifecycleInvariant == Spec => []LifecycleInv
  BY InvInit, InvNext, PTL DEF Spec

\* Type correctness of the rows, requests and passes.
THEOREM LifecycleTypeCorrect == Spec => []TypeOK
<1>1. LifecycleInv => TypeOK  BY DEF LifecycleInv
<1> QED  BY <1>1, LifecycleInvariant, PTL

\* No resource is deleted and no row marked expired before its lease ends,
\* unless somebody asked for the termination.
THEOREM LeaseIsHonoured == Spec => []LeaseHonoured
<1>1. LifecycleInv => LeaseHonoured  BY DEF LifecycleInv
<1> QED  BY <1>1, LifecycleInvariant, PTL

\* An acknowledged creation is tracked by its row.
THEOREM CreateIsTracked == Spec => []AcknowledgedCreateIsTracked
<1>1. LifecycleInv => AcknowledgedCreateIsTracked  BY DEF LifecycleInv
<1> QED  BY <1>1, LifecycleInvariant, PTL

\* An acknowledged termination of a VM with an external_id released it.
THEOREM TerminateReleases == Spec => []AcknowledgedTerminateReleased
<1>1. LifecycleInv => AcknowledgedTerminateReleased  BY DEF LifecycleInv
<1> QED  BY <1>1, LifecycleInvariant, PTL

-----------------------------------------------------------------------------
(***************************************************************************)
(* The lifecycle implements the lease.  Only the creating handler brings a *)
(* resource up, and a step that takes one down knows that its lease ended  *)
(* (a sweeper, the bridge) or that somebody asked (a terminating handler). *)
(***************************************************************************)

LEMMA ServeImplements ==
  ASSUME LifecycleInv, LifecycleInv', NEW w \in Workers,
         Arrive(w) \/ Serve(w) \/ Abandon(w)
  PROVE  [LeaseRefined!LNext]_<<cloud, elapsed, asked>>
<1> USE DEF LifecycleInv
<1>1. elapsed' = elapsed  BY ServeFrame DEF HandlersConsistent
<1>2. CASE BeginTerminate(w)
  BY <1>1, <1>2 DEF BeginTerminate, LeaseRefined!LNext, LeaseRefined!AskEnd,
     LeaseRefined!Leases, Instances
<1>3. CASE ~BeginTerminate(w)
  <2>1. asked' = asked
    BY <1>3 DEF Arrive, Serve, BeginCreate, BeginPower, ProvisionSucceeds, ProvisionFails,
       MarkCreateFailed, UpdateExternalRef, Activate, WriteRunning, WriteStopped,
       RebootReads, TerminateDeletes, TerminateRefused, Retire, Abandon, History
  <2>2. CASE \A i \in Instances : cloud'[i] = cloud[i]
    BY <1>1, <2>1, <2>2 DEF TypeOK
  <2>3. ASSUME NEW i \in Instances, cloud'[i] # cloud[i]
        PROVE  LeaseRefined!BringUp(i) \/ LeaseRefined!TakeDown(i)
    <3>1. /\ i = req[w].inst
          /\ \/ req[w].at = "provision" /\ cloud[i] = "none" /\ cloud'[i] = "live"
             \/ req[w].at = "delete" /\ CloudMoves(i)
      BY <2>3, ServeCloud
    <3>2. \A j \in Instances : j # i => cloud'[j] = cloud[j]
      BY <3>1, ServeCloud
    <3>3. cloud' = [cloud EXCEPT ![i] = cloud'[i]]
      BY <3>2 DEF TypeOK
    <3>4. req[w].at = "delete" => i \in asked
      BY <3>1 DEF HandlersConsistent
    <3> QED
      BY <1>1, <2>1, <3>1, <3>3, <3>4
      DEF CloudMoves, LeaseRefined!BringUp, LeaseRefined!TakeDown
  <2> QED  BY <2>2, <2>3 DEF LeaseRefined!LNext, LeaseRefined!Leases, Instances
<1> QED  BY <1>2, <1>3

LEMMA SweepImplements ==
  ASSUME LifecycleInv, LifecycleInv', SweepOrTime
  PROVE  [LeaseRefined!LNext]_<<cloud, elapsed, asked>>
<1> USE DEF LifecycleInv
<1>1. CASE LeaseEnds
  BY <1>1 DEF LeaseEnds, History, LeaseRefined!LNext, LeaseRefined!End
<1>2. CASE ~LeaseEnds
  <2>1. elapsed' = elapsed
    BY <1>2 DEF SweepOrTime, Sweep, BeginPass, ListPods, EndPass, SweepDeletes, SweepSkips,
       MarkExpired, AbandonPass, BridgeReaps
  <2>2. asked' = asked  BY SweepFrame
  <2>3. CASE \A i \in Instances : cloud'[i] = cloud[i]
    BY <2>1, <2>2, <2>3 DEF TypeOK
  <2>4. ASSUME NEW i \in Instances, cloud'[i] # cloud[i]
        PROVE  LeaseRefined!TakeDown(i)
    <3>1. CloudMoves(i) /\ Due(i)  BY <2>4, SweepFrame
    <3>2. \A j \in Instances : j # i => cloud'[j] = cloud[j]
      <4>1. CASE \E k \in Instances : BridgeReaps(k)
        BY <2>4, <4>1 DEF BridgeReaps, TypeOK
      <4>2. ASSUME NEW s \in Sweepers, SweepDeletes(s) \/ SweepSkips(s)
            PROVE  \A j \in Instances : j # i => cloud'[j] = cloud[j]
        <5>1. PICK e \in sweep[s].todo :
                BridgeDeletes(e.inst) \/ BridgeDeleteFails(e.inst) \/ UNCHANGED cloud
          BY <4>2 DEF SweepDeletes, SweepSkips
        <5>2. e.inst \in Instances  BY DEF TypeOK, Pass, Listed
        <5> QED  BY <2>4, <5>1, <5>2, DeletionFacts
      <4> QED
        BY <1>2, <2>4, <4>1, <4>2
        DEF SweepOrTime, Sweep, BeginPass, ListPods, EndPass, MarkExpired, AbandonPass
    <3>3. cloud' = [cloud EXCEPT ![i] = cloud'[i]]
      BY <3>2 DEF TypeOK
    <3> QED
      BY <2>1, <2>2, <3>1, <3>3 DEF CloudMoves, Due, LeaseRefined!TakeDown
  <2> QED  BY <2>3, <2>4 DEF LeaseRefined!LNext, LeaseRefined!Leases, Instances
<1> QED  BY <1>1, <1>2

\* Every behaviour of the handlers, the expiry passes and the bridge is one of
\* the abstract lease: a resource comes up once and goes away for good, only
\* when its lease ended or somebody asked.
THEOREM LifecycleImplementsLease == Spec => LeaseSpec
<1>1. Init => LeaseRefined!LInit
  BY DEF Init, LeaseRefined!LInit, LeaseRefined!Leases, Instances
<1>2. LifecycleInv /\ LifecycleInv' /\ [Next]_vars => [LeaseRefined!LNext]_(LeaseRefined!lvars)
  <2> SUFFICES ASSUME LifecycleInv, LifecycleInv', [Next]_vars
               PROVE  [LeaseRefined!LNext]_<<cloud, elapsed, asked>>
    BY DEF LeaseRefined!lvars
  <2>1. CASE UNCHANGED vars  BY <2>1 DEF vars
  <2>2. CASE Next
    BY <2>2, ServeImplements, SweepImplements DEF Next, SweepOrTime
  <2> QED  BY <2>1, <2>2
<1> QED
  BY <1>1, <1>2, LifecycleInvariant, PTL DEF Spec, LeaseSpec, LeaseRefined!LSpec

-----------------------------------------------------------------------------
(***************************************************************************)
(* An instance in use stays within reach of the expiry pass.  That its row *)
(* is marked or retired by somebody who has seen its resource go is kept   *)
(* up by the order of things: its creator was the last to need it without  *)
(* a reference, and a pass that listed it before that would have found its *)
(* lease at its end, a handler that terminates it would have asked.        *)
(***************************************************************************)

\* An accepted deletion of an instance whose kind can be relied on is real.
LEMMA AcceptedIsReal ==
  ASSUME TypeOK, NEW i \in Instances, BridgeDeletes(i), Deletable(i)
  PROVE  cloud'[i] = "deleted"
  BY DEF BridgeDeletes, Deletable, TypeOK, Pods

\* An instance enters inTime by the step that ends its creation, and never
\* when its lease is over or its termination was asked for.
LEMMA InTimeMoves ==
  ASSUME TypeOK, HandlersConsistent, NEW w \in Workers,
         Arrive(w) \/ Serve(w) \/ Abandon(w), NEW i \in inTime', i \notin inTime
  PROVE  /\ Activate(w) /\ i = req[w].inst
         /\ ~Due(i) /\ i \notin asked
<1>1. Activate(w)
  BY DEF Arrive, Serve, BeginCreate, BeginPower, BeginTerminate, ProvisionSucceeds,
     ProvisionFails, MarkCreateFailed, UpdateExternalRef, WriteRunning, WriteStopped,
     RebootReads, TerminateDeletes, TerminateRefused, Retire, Abandon, History
<1>2. i = req[w].inst /\ i \notin asked /\ i \notin 1..elapsed
  BY <1>1 DEF Activate
<1>3. i \in Instances
  BY <1>1, <1>2 DEF Activate, HandlersConsistent
<1>4. ~Due(i)
  BY <1>2, <1>3, LifecycleAssumption DEF Due, Instances, TypeOK
<1> QED  BY <1>1, <1>2, <1>4

\* A request is in one of the creating steps only if it was before, or has
\* just inserted its row.
LEMMA CreatingMoves ==
  ASSUME TypeOK, HandlersConsistent, NEW w \in Workers,
         Arrive(w) \/ Serve(w) \/ Abandon(w), req'[w].at \in Creating
  PROVE  \/ req[w].at \in Creating /\ req'[w].inst = req[w].inst
         \/ status[req'[w].inst] = "absent"
<1>1. CASE BeginCreate(w)  BY <1>1 DEF BeginCreate, Accept, TypeOK
<1>2. CASE ProvisionSucceeds(w) \/ ProvisionFails(w) \/ UpdateExternalRef(w)
  BY <1>2, GotoFacts
  DEF ProvisionSucceeds, ProvisionFails, UpdateExternalRef, Creating, Labels
<1>3. CASE BeginPower(w) \/ BeginTerminate(w)
  BY <1>3 DEF BeginPower, BeginTerminate, Accept, Creating, TypeOK
<1>4. CASE Reply(w)  BY <1>4 DEF Reply, Resting, Creating, TypeOK
<1>5. CASE \E label \in {"restart", "start", "retire"} : Goto(w, label)
  BY <1>5, GotoFacts DEF Creating, Labels
<1> QED
  BY <1>1, <1>2, <1>3, <1>4, <1>5
  DEF Arrive, Serve, MarkCreateFailed, Activate, WriteRunning, WriteStopped,
      RebootReads, TerminateDeletes, TerminateRefused, Retire, Abandon

LEMMA DoneServe ==
  ASSUME LifecycleInv, CreatorsDone, NEW w \in Workers,
         Arrive(w) \/ Serve(w) \/ Abandon(w)
  PROVE  CreatorsDone'
<1> USE DEF LifecycleInv
<1>1. OthersKeep(w) /\ Monotone  BY ServeFrame DEF HandlersConsistent
<1> SUFFICES ASSUME NEW i \in inTime'
             PROVE  ref'[i] /\ \A v \in Workers : req'[v].at \in Creating => req'[v].inst # i
  BY DEF CreatorsDone
<1>2. CASE i \in inTime
  <2>1. i \in Instances /\ ref[i] /\ status[i] # "absent"
    BY <1>2 DEF CreatorsDone, TypeOK, RowsConsistent
  <2>2. ASSUME NEW v \in Workers, req'[v].at \in Creating  PROVE req'[v].inst # i
    BY <1>1, <1>2, <2>1, <2>2, CreatingMoves DEF CreatorsDone, OthersKeep
  <2> QED  BY <1>1, <2>1, <2>2 DEF Monotone
<1>3. CASE i \notin inTime
  <2>1. Activate(w) /\ i = req[w].inst
    BY <1>3, InTimeMoves
  <2>2. req[w].at = "activate" /\ i \in Instances /\ ref[i]
    BY <2>1 DEF Activate, HandlersConsistent
  <2>3. req'[w].at = "idle"
    BY <2>1 DEF Activate, Reply, Resting, TypeOK
  <2>4. \A v \in Workers : v # w /\ req[v].at \in Creating => req[v].inst # i
    BY <2>1, <2>2 DEF OneCreator, Creating
  <2> QED  BY <1>1, <2>2, <2>3, <2>4 DEF OthersKeep, Monotone, Creating
<1> QED  BY <1>2, <1>3

LEMMA PassesServe ==
  ASSUME LifecycleInv, PassesKnow, NEW w \in Workers,
         Arrive(w) \/ Serve(w) \/ Abandon(w)
  PROVE  PassesKnow'
<1> USE DEF LifecycleInv
<1>1. UNCHANGED sweep  BY ServeFrame DEF HandlersConsistent
<1>2. \A i \in Instances : cloud[i] = "deleted" => cloud'[i] = "deleted"
  BY ServeCloud DEF CloudMoves
<1>3. ASSUME NEW i \in inTime', Due(i)  PROVE i \in inTime
  BY <1>3, InTimeMoves
<1> SUFFICES ASSUME NEW s \in Sweepers
             PROVE  /\ \A e \in sweep[s].todo : e.inst \in inTime' => e.saw
                    /\ sweep[s].mark \in inTime' /\ Deletable(sweep[s].mark)
                         => cloud'[sweep[s].mark] = "deleted"
  BY <1>1 DEF PassesKnow, Deletable
<1>4. \A e \in sweep[s].todo : e.inst \in inTime' => e.saw
  BY <1>3 DEF PassesKnow, ListingsConsistent
<1>5. sweep[s].mark # 0 => sweep[s].mark \in Instances /\ Due(sweep[s].mark)
  BY DEF TypeOK, Pass, ListingsConsistent
<1>6. 0 \notin inTime'
  BY TypeServe, LifecycleAssumption DEF HandlersConsistent, TypeOK, Instances
<1> QED  BY <1>2, <1>3, <1>4, <1>5, <1>6 DEF PassesKnow

LEMMA RetirersServe ==
  ASSUME LifecycleInv, CreatorsDone, RetirersKnow, NEW w \in Workers,
         Arrive(w) \/ Serve(w) \/ Abandon(w)
  PROVE  RetirersKnow'
<1> USE DEF LifecycleInv
<1>1. OthersKeep(w)  BY ServeFrame DEF HandlersConsistent
<1>2. \A i \in Instances : cloud[i] = "deleted" => cloud'[i] = "deleted"
  BY ServeCloud DEF CloudMoves
<1>3. ASSUME NEW i \in inTime', i \in asked  PROVE i \in inTime
  BY <1>3, InTimeMoves
<1> SUFFICES ASSUME NEW v \in Workers, req'[v].at = "retire",
                    req'[v].inst \in inTime', Deletable(req'[v].inst)
             PROVE  cloud'[req'[v].inst] = "deleted"
  BY DEF RetirersKnow, Deletable
<1>4. CASE req'[v] = req[v]
  <2>1. req[v].inst \in Instances /\ req[v].inst \in asked
    BY <1>4 DEF HandlersConsistent
  <2> QED  BY <1>2, <1>3, <1>4, <2>1 DEF RetirersKnow
<1>5. CASE req'[v] # req[v]
  <2>1. v = w  BY <1>1, <1>5 DEF OthersKeep
  <2>2. CASE BeginTerminate(w)
    <3>1. req'[w].inst \in Instances /\ ~ref[req'[w].inst]
      BY <2>1, <2>2 DEF BeginTerminate, Accept, TypeOK
    <3>2. inTime' = inTime
      BY <2>2 DEF BeginTerminate
    <3> QED  BY <2>1, <3>1, <3>2 DEF CreatorsDone
  <2>3. CASE TerminateDeletes(w)
    <3>1. req'[w].inst = req[w].inst /\ req[w].inst \in Instances
      BY <2>3, GotoFacts DEF TerminateDeletes, HandlersConsistent, Labels
    <3>2. BridgeDeletes(req[w].inst) /\ Deletable(req[w].inst)
      BY <2>1, <2>3, <3>1 DEF TerminateDeletes
    <3> QED  BY <2>1, <3>1, <3>2, AcceptedIsReal
  <2>4. CASE BeginCreate(w) \/ BeginPower(w)
    BY <2>1, <2>4 DEF BeginCreate, BeginPower, Accept, TypeOK
  <2>5. CASE Reply(w)  BY <2>1, <2>5 DEF Reply, Resting, TypeOK
  <2>6. CASE \E label \in {"link", "fail", "activate", "restart", "start"} : Goto(w, label)
    BY <2>1, <2>6, GotoFacts DEF Labels
  <2> QED
    BY <2>2, <2>3, <2>4, <2>5, <2>6
    DEF Arrive, Serve, ProvisionSucceeds, ProvisionFails, MarkCreateFailed, UpdateExternalRef,
        Activate, WriteRunning, WriteStopped, RebootReads, TerminateRefused, Retire, Abandon
<1> QED  BY <1>4, <1>5

LEMMA ReclaimableServe ==
  ASSUME LifecycleInv, ReclaimInv, CreatorsDone', NEW w \in Workers,
         Arrive(w) \/ Serve(w) \/ Abandon(w)
  PROVE  UsedInTimeIsReclaimable'
<1> USE DEF LifecycleInv, ReclaimInv
<1> SUFFICES ASSUME NEW i \in inTime', cloud'[i] = "live", Deletable(i)
             PROVE  status'[i] \in {"running", "stopped"}
  BY DEF UsedInTimeIsReclaimable, CreatorsDone, Deletable
<1>1. i \in Instances
  BY TypeServe DEF HandlersConsistent, TypeOK
<1>2. CASE i \notin inTime
  <2>1. Activate(w) /\ i = req[w].inst
    BY <1>2, InTimeMoves
  <2> QED  BY <1>1, <2>1 DEF Activate, SetStatus, TypeOK
<1>3. CASE i \in inTime
  <2>1. cloud[i] = "live"
    <3>1. cloud'[i] # cloud[i] => req[w].at = "provision" /\ i = req[w].inst
      BY <1>1, ServeCloud DEF CloudMoves
    <3> QED  BY <1>3, <3>1 DEF CreatorsDone, Creating
  <2>2. status[i] \in {"running", "stopped"}
    BY <1>3, <2>1 DEF UsedInTimeIsReclaimable
  <2>3. CASE status'[i] # status[i]
    <3>1. ~BeginCreate(w)
      <4>1. SUFFICES ASSUME BeginCreate(w) PROVE FALSE  OBVIOUS
      <4>2. PICK j \in Instances : status[j] = "absent" /\ SetStatus(j, "provisioning")
        BY <4>1 DEF BeginCreate
      <4>3. i # j  BY <2>2, <4>2
      <4> QED  BY <1>1, <2>3, <4>2, <4>3 DEF SetStatus, TypeOK
    <3>2. ~MarkCreateFailed(w)
      BY <1>3, <2>3 DEF MarkCreateFailed, SetStatus, TypeOK, CreatorsDone, Creating
    <3>3. ~Retire(w)
      <4>1. SUFFICES ASSUME Retire(w) PROVE FALSE  OBVIOUS
      <4>2. i = req[w].inst /\ req[w].at = "retire"
        BY <2>3, <4>1 DEF Retire, SetStatus, TypeOK
      <4> QED  BY <1>3, <2>1, <4>2 DEF RetirersKnow
    <3>4. \E word \in {"running", "stopped"} : SetStatus(req[w].inst, word)
      BY <2>3, <3>1, <3>2, <3>3
      DEF Arrive, Serve, BeginPower, BeginTerminate, ProvisionSucceeds, ProvisionFails,
          UpdateExternalRef, Activate, WriteRunning, WriteStopped, RebootReads,
          TerminateDeletes, TerminateRefused, Abandon
    <3> QED  BY <1>1, <2>3, <3>4 DEF SetStatus, TypeOK
  <2> QED  BY <2>2, <2>3
<1> QED  BY <1>2, <1>3

\* What a sweeper knows of the row it has listed is still true at its next step.
LEMMA PassesSweep ==
  ASSUME LifecycleInv, CreatorsDone, PassesKnow, SweepOrTime
  PROVE  PassesKnow'
<1> USE DEF LifecycleInv
<1>1. /\ UNCHANGED inTime
      /\ \A i \in Instances : cloud[i] = "deleted" => cloud'[i] = "deleted"
  BY SweepFrame DEF CloudMoves
<1> SUFFICES ASSUME NEW s \in Sweepers
             PROVE  /\ \A e \in sweep'[s].todo : e.inst \in inTime => e.saw
                    /\ sweep'[s].mark \in inTime /\ Deletable(sweep'[s].mark)
                         => cloud'[sweep'[s].mark] = "deleted"
  BY <1>1 DEF PassesKnow, Deletable
<1>2. sweep[s] \in Pass /\ inTime \subseteq Instances /\ 0 \notin inTime
  BY LifecycleAssumption DEF TypeOK, Instances
<1>3. /\ \A e \in sweep[s].todo : e.inst \in inTime => e.saw
      /\ sweep[s].mark \in inTime /\ Deletable(sweep[s].mark)
           => cloud'[sweep[s].mark] = "deleted"
  BY <1>1, <1>2 DEF PassesKnow
<1>4. CASE sweep'[s] = sweep[s]
  BY <1>3, <1>4
<1>5. CASE sweep'[s] # sweep[s]
  <2>1. PICK r \in Sweepers : Sweep(r) \/ AbandonPass(r)
    BY <1>5 DEF SweepOrTime, LeaseEnds, BridgeReaps
  <2>2. r = s
    BY <1>5, <2>1
    DEF TypeOK, Sweep, BeginPass, ListPods, EndPass, SweepDeletes, SweepSkips, MarkExpired,
        AbandonPass
  <2>3. ASSUME NEW kind \in SUBSET Instances
        PROVE  \A e \in ListExpired(kind) : e.inst \in inTime => e.saw
    BY DEF ListExpired, CreatorsDone
  <2>4. CASE BeginPass(s)
    <3>1. sweep'[s].todo = ListExpired(VMs) /\ sweep'[s].mark = sweep[s].mark
      BY <1>2, <2>4 DEF BeginPass, Pass, TypeOK
    <3> QED  BY <1>3, <2>3, <3>1, Kinds
  <2>5. CASE ListPods(s)
    <3>1. sweep'[s].todo = ListExpired(Pods) /\ sweep'[s].mark = sweep[s].mark
      BY <1>2, <2>5 DEF ListPods, Pass, TypeOK
    <3> QED  BY <1>3, <2>3, <3>1, Kinds
  <2>6. CASE EndPass(s) \/ AbandonPass(s)
    BY <1>2, <2>6 DEF EndPass, AbandonPass, Waiting, TypeOK
  <2>7. CASE SweepDeletes(s)
    <3>1. PICK e \in sweep[s].todo :
            /\ e.saw => BridgeDeletes(e.inst)
            /\ sweep' = [sweep EXCEPT ![s].todo = @ \ {e}, ![s].mark = e.inst]
      BY <2>7 DEF SweepDeletes
    <3>2. sweep'[s].todo \subseteq sweep[s].todo /\ sweep'[s].mark = e.inst
      BY <1>2, <3>1 DEF Pass, TypeOK
    <3>3. e.inst \in inTime /\ Deletable(e.inst) => cloud'[e.inst] = "deleted"
      BY <1>2, <1>3, <3>1, AcceptedIsReal
    <3> QED  BY <1>3, <3>2, <3>3
  <2>8. CASE SweepSkips(s)
    <3>1. PICK e \in sweep[s].todo : sweep' = [sweep EXCEPT ![s].todo = @ \ {e}]
      BY <2>8 DEF SweepSkips
    <3>2. sweep'[s].todo \subseteq sweep[s].todo /\ sweep'[s].mark = sweep[s].mark
      BY <1>2, <3>1 DEF Pass, TypeOK
    <3> QED  BY <1>3, <3>2
  <2>9. CASE MarkExpired(s)
    <3>1. sweep'[s].todo = sweep[s].todo /\ sweep'[s].mark = 0
      BY <1>2, <2>9 DEF MarkExpired, Pass, TypeOK
    <3> QED  BY <1>2, <1>3, <3>1
  <2> QED  BY <2>1, <2>2, <2>4, <2>5, <2>6, <2>7, <2>8, <2>9 DEF Sweep
<1> QED  BY <1>4, <1>5

\* A pass marks expired only what it has seen go.
LEMMA ReclaimSweep ==
  ASSUME LifecycleInv, ReclaimInv, SweepOrTime
  PROVE  ReclaimInv'
<1> USE DEF LifecycleInv, ReclaimInv
<1>1. /\ UNCHANGED <<req, ref, inTime>>
      /\ \A i \in Instances : cloud'[i] # cloud[i] => CloudMoves(i)
  BY SweepFrame
<1>2. CreatorsDone'
  BY <1>1 DEF CreatorsDone
<1>3. RetirersKnow'
  BY <1>1 DEF RetirersKnow, Deletable, TypeOK, CloudMoves
<1>4. UsedInTimeIsReclaimable'
  <2> SUFFICES ASSUME NEW i \in inTime, cloud'[i] = "live", Deletable(i)
               PROVE  ref[i] /\ status'[i] \in {"running", "stopped"}
    BY <1>1 DEF UsedInTimeIsReclaimable, Deletable
  <2>1. i \in Instances /\ cloud[i] = "live"
    BY <1>1 DEF CloudMoves, TypeOK
  <2>2. ref[i] /\ status[i] \in {"running", "stopped"}
    BY <2>1 DEF UsedInTimeIsReclaimable
  <2>3. CASE status'[i] # status[i]
    <3>1. PICK s \in Sweepers : MarkExpired(s)
      BY <2>3 DEF SweepOrTime, Sweep, BeginPass, ListPods, EndPass, SweepDeletes, SweepSkips,
         AbandonPass, LeaseEnds, BridgeReaps
    <3>2. i = sweep[s].mark
      BY <2>3, <3>1 DEF MarkExpired, SetStatus, TypeOK
    <3> QED  BY <2>1, <3>2 DEF PassesKnow
  <2> QED  BY <2>2, <2>3
<1> QED  BY <1>2, <1>3, <1>4, PassesSweep

LEMMA ReclaimInit == Init => ReclaimInv
  BY DEF Init, ReclaimInv, CreatorsDone, PassesKnow, RetirersKnow, UsedInTimeIsReclaimable,
         Resting, Waiting

\* An instance that went into use while its lease ran and whose resource is
\* live is one that the expiry pass will list and can delete, whatever
\* handlers, passes, the bridge's worker and any of the faults do.
THEOREM InUseStaysReclaimable == Spec => []UsedInTimeIsReclaimable
<1>1. LifecycleInv /\ ReclaimInv /\ [Next]_vars => ReclaimInv'
  <2> SUFFICES ASSUME LifecycleInv, ReclaimInv, [Next]_vars PROVE ReclaimInv'
    OBVIOUS
  <2>1. CASE UNCHANGED vars
    BY <2>1 DEF vars, ReclaimInv, CreatorsDone, PassesKnow, RetirersKnow,
       UsedInTimeIsReclaimable, Deletable
  <2>2. ASSUME NEW w \in Workers, Arrive(w) \/ Serve(w) \/ Abandon(w)
        PROVE  ReclaimInv'
    BY <2>2, DoneServe, PassesServe, RetirersServe, ReclaimableServe DEF ReclaimInv
  <2> QED  BY <2>1, <2>2, ReclaimSweep DEF Next, SweepOrTime
<1>2. ReclaimInv => UsedInTimeIsReclaimable  BY DEF ReclaimInv
<1> QED  BY <1>1, <1>2, ReclaimInit, LifecycleInvariant, PTL DEF Spec
================================================================================
