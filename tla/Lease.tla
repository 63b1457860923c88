--------------------------------- MODULE Lease ---------------------------------
(***************************************************************************)
(* What renting a compute instance promises about the cloud resource       *)
(* behind it, with rows, handlers and passes left out: the resource is     *)
(* brought up at most once, and it goes away for good, and only after its  *)
(* lease has ended or somebody asked for its termination.                  *)
(***************************************************************************)
EXTENDS Naturals

CONSTANT Last        \* bound: the number of leases

VARIABLES
  cloud,             \* "none", "live" or "deleted", for each lease
  elapsed,           \* leases end in the order of their numbers
  asked              \* leases whose owner asked for an early end

lvars == <<cloud, elapsed, asked>>
Leases == 1..Last

LInit ==
  /\ cloud = [i \in Leases |-> "none"]
  /\ elapsed = 0
  /\ asked = {}

BringUp(i) ==
  /\ cloud[i] = "none"
  /\ cloud' = [cloud EXCEPT ![i] = "live"]
  /\ UNCHANGED <<elapsed, asked>>

TakeDown(i) ==
  /\ cloud[i] = "live" /\ (i <= elapsed \/ i \in asked)
  /\ cloud' = [cloud EXCEPT ![i] = "deleted"]
  /\ UNCHANGED <<elapsed, asked>>

AskEnd(i) ==
  /\ asked' = asked \cup {i}
  /\ UNCHANGED <<cloud, elapsed>>

End ==
  /\ elapsed < Last
  /\ elapsed' = elapsed + 1
  /\ UNCHANGED <<cloud, asked>>

LNext == End \/ \E i \in Leases : BringUp(i) \/ TakeDown(i) \/ AskEnd(i)

LSpec == LInit /\ [][LNext]_lvars
================================================================================
