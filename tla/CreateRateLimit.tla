---------------------------- MODULE CreateRateLimit ----------------------------
(***************************************************************************)
(* The limit on create requests per user: ConsumeCreateRateLimit counts    *)
(* the user's rows of create_rate_limit_events in the last minute and, if  *)
(* they are few enough, inserts one more.  The two statements are not one  *)
(* transaction, and the replicas of the service share nothing but the      *)
(* table.                                                                  *)
(***************************************************************************)
EXTENDS Integers, Sequences, FiniteSets

CONSTANTS
  Users,
  Workers,   \* create requests being handled at the same time, on all replicas
  Limit,     \* createRateLimitRPM, 5 unless configured
  Window,    \* the length of the window, one minute
  Horizon,   \* bound: the last instant of the clock
  MaxRows    \* bound: rows ever inserted

ASSUME RateLimitAssumption ==
  /\ IsFiniteSet(Workers)
  /\ Limit \in Nat \ {0} /\ Window \in Nat /\ Horizon \in Nat /\ MaxRows \in Nat

Times == 0..Horizon

VARIABLES
  now,       \* the clock, the same for the service and the database
  created,   \* the rows of the table, in the order of their insertion
  req        \* the create request each worker is at

vars == <<now, created, req>>

Row == [user : Users, at : Times]   \* user_id and created_at

Labels == {"idle", "count", "insert"}

TypeOK ==
  /\ now \in Times
  /\ created \in Seq(Row) /\ Len(created) <= MaxRows
  /\ req \in [Workers -> [at : Labels, user : Users \cup {0}, end : Times]]
  /\ \A w \in Workers : req[w].at # "idle" => req[w].user \in Users

Resting == [at |-> "idle", user |-> 0, end |-> 0]

Init ==
  /\ now = 0
  /\ created = <<>>
  /\ req = [w \in Workers |-> Resting]

\* SELECT COUNT(*): the rows of user u from one instant to another, both included.
Used(u, from, to) ==
  Cardinality({i \in DOMAIN created :
                 created[i].user = u /\ from <= created[i].at /\ created[i].at <= to})

Tick ==
  /\ now < Horizon
  /\ now' = now + 1
  /\ UNCHANGED <<created, req>>

\* CreateVM and CreatePod take the time before they ask.
Begin(w) ==
  \E u \in Users :
    /\ req[w].at = "idle"
    /\ req' = [req EXCEPT ![w] = [at |-> "count", user |-> u, end |-> now]]
    /\ UNCHANGED <<now, created>>

\* Mutant of Count: a request is refused only when used > limit.
CountOneMore(w) ==
  /\ req[w].at = "count"
  /\ IF Used(req[w].user, req[w].end - Window, req[w].end) > Limit
     THEN req' = [req EXCEPT ![w] = Resting]
     ELSE req' = [req EXCEPT ![w].at = "insert"]
  /\ UNCHANGED <<now, created>>

Count(w) ==
  /\ req[w].at = "count"
  /\ IF Used(req[w].user, req[w].end - Window, req[w].end) >= Limit
     THEN req' = [req EXCEPT ![w] = Resting]
     ELSE req' = [req EXCEPT ![w].at = "insert"]
  /\ UNCHANGED <<now, created>>

\* created_at is the database's NOW().
Insert(w) ==
  /\ req[w].at = "insert"
  /\ Len(created) < MaxRows
  /\ created' = Append(created, [user |-> req[w].user, at |-> now])
  /\ req' = [req EXCEPT ![w] = Resting]
  /\ UNCHANGED now

\* Either statement may fail, and the request with it.
Fail(w) ==
  /\ req[w].at # "idle"
  /\ req' = [req EXCEPT ![w] = Resting]
  /\ UNCHANGED <<now, created>>

Next ==
  \/ Tick
  \/ \E w \in Workers : Begin(w) \/ Count(w) \/ Insert(w) \/ Fail(w)

Spec == Init /\ [][Next]_vars

-----------------------------------------------------------------------------

InAnyWindow(n) == \A u \in Users, t \in Times : Used(u, t - Window, t) <= n

\* "max 5 create requests per minute", up to the race of the check with the
\* insertions of the other handlers, and only with theirs: whatever the order,
\* and however slow a handler is between its clock, its count and its insertion,
\* at most one request more is let in for every handler beside the first.
OvershootBounded == InAnyWindow(Limit + Cardinality(Workers) - 1)
================================================================================
