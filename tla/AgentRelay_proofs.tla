---------------------------- MODULE AgentRelay_proofs ----------------------------
(***************************************************************************)
(* For any number of sessions, handlers and expiry passes: what reaches a  *)
(* shell is in the transcript, each entry at most once; one agent executes *)
(* the commands in their order, whatever is lost; and if no statement and  *)
(* no call fails, no shell is forgotten on the host.                       *)
(***************************************************************************)
EXTENDS AgentRelay, SequenceTheorems, TLAPS

(* Commands and requests that concern a session name one. *)
Addressed ==
  /\ \A i \in DOMAIN cmds : cmds[i].kind # "control" => cmds[i].sess \in Sessions
  /\ \A w \in Workers :
       req[w].at \notin {"idle", "insert", "control"} => req[w].sess \in Sessions

RelayTypes == TypeOK /\ Addressed

----------------------------------------------------------------------------
(* What a step does to the queue. *)

(* The commands stay what they are, and none is queued again. *)
Kept ==
  /\ cmds' \in Seq(Command) /\ DOMAIN cmds \subseteq DOMAIN cmds'
  /\ \A i \in DOMAIN cmds :
       /\ cmds'[i].kind = cmds[i].kind /\ cmds'[i].sess = cmds[i].sess
       /\ cmds'[i].seq = cmds[i].seq
       /\ cmds'[i].status = "queued" => cmds[i].status = "queued"

LEMMA Enqueued ==
  ASSUME cmds \in Seq(Command), NEW kind \in Kinds, NEW s \in Sessions \cup {NoSession},
         NEW n \in Nat, Enqueue(kind, s, n)
  PROVE  /\ Kept /\ DOMAIN cmds' = DOMAIN cmds \cup {Len(cmds) + 1}
         /\ \A i \in DOMAIN cmds : cmds'[i] = cmds[i] /\ i < Len(cmds) + 1
         /\ cmds'[Len(cmds) + 1] = [kind |-> kind, sess |-> s, seq |-> n, status |-> "queued"]
<1>. DEFINE c == [kind |-> kind, sess |-> s, seq |-> n, status |-> "queued"]
<1>1. c \in Command
  BY DEF Command
<1>2. cmds' = Append(cmds, c)
  BY DEF Enqueue
<1>. HIDE DEF c
<1>3. /\ cmds' \in Seq(Command) /\ Len(cmds') = Len(cmds) + 1
      /\ \A i \in 1 .. Len(cmds) : cmds'[i] = cmds[i]
      /\ cmds'[Len(cmds) + 1] = c
  BY <1>1, <1>2, AppendProperties
<1>4. DOMAIN cmds = 1 .. Len(cmds) /\ DOMAIN cmds' = 1 .. Len(cmds') /\ Len(cmds) \in Nat
  BY <1>3, LenProperties
<1>. QED BY <1>3, <1>4 DEF Kept, c

LEMMA Marked ==
  ASSUME cmds \in Seq(Command), NEW i \in DOMAIN cmds,
         NEW status \in {"running", "succeeded", "failed"}, SetStatus(i, status)
  PROVE  /\ Kept /\ DOMAIN cmds' = DOMAIN cmds
         /\ \A j \in DOMAIN cmds \ {i} : cmds'[j] = cmds[j]
         /\ cmds'[i] = [cmds[i] EXCEPT !.status = status]
<1>1. cmds[i] \in Command /\ i \in 1 .. Len(cmds)
  BY ElementOfSeq, LenProperties
<1>. DEFINE c == [cmds[i] EXCEPT !.status = status]
<1>2. c \in Command /\ c.kind = cmds[i].kind /\ c.sess = cmds[i].sess /\ c.seq = cmds[i].seq
      /\ c.status # "queued"
  BY <1>1 DEF Command
<1>3. cmds' = [cmds EXCEPT ![i] = c]
  BY DEF SetStatus
<1>. HIDE DEF c
<1>4. cmds' \in Seq(Command) /\ DOMAIN cmds' = DOMAIN cmds
      /\ cmds'[i] = c /\ \A j \in DOMAIN cmds \ {i} : cmds'[j] = cmds[j]
  BY <1>1, <1>2, <1>3, ExceptSeq, LenProperties
<1>. QED BY <1>2, <1>4 DEF Kept, c

LEMMA Untouched ==
  ASSUME cmds \in Seq(Command), UNCHANGED cmds
  PROVE  Kept
BY DEF Kept

----------------------------------------------------------------------------
(* Types. *)

RanTypes == ran \in Seq([cmd : DOMAIN cmds, ok : BOOLEAN])
TurnTypes == \A a \in Agents : agent[a].at # "idle" => agent[a].cmd \in DOMAIN cmds

LEMMA StillTyped ==
  ASSUME RelayTypes, Kept
  PROVE  /\ UNCHANGED ran => RanTypes'
         /\ UNCHANGED agent => TurnTypes'
<1>1. ASSUME UNCHANGED ran
      PROVE  RanTypes'
  <2>1. [cmd : DOMAIN cmds, ok : BOOLEAN] \subseteq [cmd : DOMAIN cmds', ok : BOOLEAN]
    BY DEF Kept
  <2>2. ran \in Seq([cmd : DOMAIN cmds', ok : BOOLEAN])
    BY <2>1, SeqMonotonic DEF RelayTypes, TypeOK
  <2>. QED BY <1>1, <2>2 DEF RanTypes
<1>2. ASSUME UNCHANGED agent
      PROVE  TurnTypes'
  BY <1>2 DEF RelayTypes, TypeOK, Kept, TurnTypes
<1>. QED BY <1>1, <1>2

LEMMA NowIsTyped ==
  ASSUME RelayTypes, NEW a \in Agents, agent[a].at # "idle"
  PROVE  /\ agent[a].cmd \in DOMAIN cmds /\ agent[a] \in Turn /\ Now(a) \in Command
         /\ Now(a).kind # "control" => Now(a).sess \in Sessions
         /\ DOMAIN cmds = 1 .. Len(cmds) /\ Len(cmds) \in Nat
<1>1. agent[a].cmd \in DOMAIN cmds /\ DOMAIN cmds = 1 .. Len(cmds) /\ Len(cmds) \in Nat
  BY LenProperties DEF RelayTypes, TypeOK
<1>. QED BY <1>1, ElementOfSeq DEF RelayTypes, TypeOK, Addressed, Now

(* The commands keep their session, and a new one names one too. *)
LEMMA StillAddressed ==
  ASSUME RelayTypes, Kept,
         \A i \in DOMAIN cmds' \ DOMAIN cmds : cmds'[i].kind # "control" => cmds'[i].sess \in Sessions
  PROVE  \A i \in DOMAIN cmds' : cmds'[i].kind # "control" => cmds'[i].sess \in Sessions
BY DEF RelayTypes, Addressed, Kept

LEMMA EnqueuedOne ==
  ASSUME RelayTypes, NEW kind \in Kinds, NEW s \in Sessions \cup {NoSession}, NEW n \in Nat,
         Enqueue(kind, s, n)
  PROVE  Kept /\ \A i \in DOMAIN cmds' \ DOMAIN cmds :
                   cmds'[i].kind = kind /\ cmds'[i].sess = s /\ cmds'[i].seq = n
<1>1. cmds \in Seq(Command)
  BY DEF RelayTypes, TypeOK
<1>2. /\ Kept /\ DOMAIN cmds' = DOMAIN cmds \cup {Len(cmds) + 1}
      /\ cmds'[Len(cmds) + 1] = [kind |-> kind, sess |-> s, seq |-> n, status |-> "queued"]
  BY <1>1, Enqueued
<1>. QED BY <1>2

(* A handler moves on. *)
LEMMA RequestTypes ==
  ASSUME RelayTypes, NEW w \in Workers, NEW r \in Request, req' = [req EXCEPT ![w] = r],
         r.at \notin {"idle", "insert", "control"} => r.sess \in Sessions
  PROVE  /\ req' \in [Workers -> Request]
         /\ \A v \in Workers : req'[v].at \notin {"idle", "insert", "control"} => req'[v].sess \in Sessions
BY DEF RelayTypes, TypeOK, Addressed

LEMMA AcceptTypes ==
  ASSUME RelayTypes, NEW w \in Workers, NEW label, NEW s, Accept(w, label, s),
         \/ label \in {"append", "resize", "close"} /\ s \in Sessions
         \/ label \in {"insert", "control"} /\ s = NoSession
  PROVE  /\ requests' \in 0 .. MaxRequests
         /\ req' \in [Workers -> Request]
         /\ \A v \in Workers : req'[v].at \notin {"idle", "insert", "control"} => req'[v].sess \in Sessions
<1>1. requests' \in 0 .. MaxRequests
  BY RelayAssumption DEF Accept, RelayTypes, TypeOK
<1>2. [at |-> label, sess |-> s, seq |-> 0] \in Request
  BY DEF Request, Kinds
<1>. QED BY <1>1, <1>2, RequestTypes DEF Accept

(* An agent moves on. *)
LEMMA TurnMoves ==
  ASSUME RelayTypes, NEW a \in Agents, NEW t \in Turn, agent' = [agent EXCEPT ![a] = t],
         t.at # "idle" => t.cmd \in DOMAIN cmds
  PROVE  /\ agent' \in [Agents -> Turn]
         /\ \A b \in Agents : agent'[b].at # "idle" => agent'[b].cmd \in DOMAIN cmds
BY DEF RelayTypes, TypeOK

(* What is executed succeeds or fails. *)
LEMMA Executes ==
  ASSUME NEW a \in Agents, Open(a) \/ Deliver(a) \/ Close(a)
  PROVE  \E ok \in BOOLEAN : Executed(a, ok)
<1>1. (Now(a).sess \in shells[a]) \in BOOLEAN
  OBVIOUS
<1>2. Deliver(a) => \E ok \in BOOLEAN : Executed(a, ok)
  BY <1>1, Zenon DEF Deliver
<1>3. Open(a) \/ Close(a) => \E ok \in BOOLEAN : Executed(a, ok)
  BY Zenon DEF Open, Close
<1>. QED BY <1>2, <1>3

LEMMA ArriveTypes ==
  ASSUME RelayTypes, NEW w \in Workers, Arrive(w)
  PROVE  RelayTypes' /\ Kept
<1>. USE DEF RelayTypes, TypeOK, Addressed, Request, Accept, Kinds, Agency, Over
<1>1. UNCHANGED <<typed, cmds, known, sweep, agent, shells, ran>> /\ Kept
  BY Untouched DEF Arrive, BeginCreate, BeginInput, QueueAgentCommand, ResizeTerminalSession, CloseTerminalSession
<1>2. \/ Accept(w, "insert", NoSession) \/ Accept(w, "control", NoSession)
      \/ \E s \in Sessions : Accept(w, "append", s) \/ Accept(w, "resize", s) \/ Accept(w, "close", s)
  <2>. HIDE DEF Accept
  <2>. QED BY DEF Arrive, BeginCreate, BeginInput, QueueAgentCommand, ResizeTerminalSession,
                  CloseTerminalSession
<1>3. /\ requests' \in 0 .. MaxRequests /\ req' \in [Workers -> Request]
      /\ \A v \in Workers : req'[v].at \notin {"idle", "insert", "control"} => req'[v].sess \in Sessions
  <2>. HIDE DEF Accept, RelayTypes
  <2>. QED BY <1>2, AcceptTypes
<1>4. sess' \in [Sessions -> {"none", "queued", "open"} \cup Over] /\ idle' \subseteq Sessions
  BY DEF Arrive, BeginCreate, BeginInput, QueueAgentCommand, ResizeTerminalSession, CloseTerminalSession,
         SetSession
<1>5. (ran \in Seq([cmd : DOMAIN cmds, ok : BOOLEAN]))' /\ TurnTypes'
  BY <1>1, StillTyped DEF RanTypes
<1>. QED BY <1>1, <1>3, <1>4, <1>5 DEF TurnTypes

LEMMA ServeTypes ==
  ASSUME RelayTypes, NEW w \in Workers, Serve(w) \/ Abandon(w)
  PROVE  RelayTypes' /\ Kept
<1>. USE DEF RelayTypes, TypeOK, Addressed, Request, Resting, Agency
<1>1. CASE InsertSession(w)
  <2>1. UNCHANGED <<idle, typed, cmds, known, requests, sweep, agent, shells, ran>> /\ Kept
    BY <1>1, Untouched DEF InsertSession
  <2>2. (ran \in Seq([cmd : DOMAIN cmds, ok : BOOLEAN]))' /\ TurnTypes'
    BY <2>1, StillTyped DEF RanTypes
  <2>3. PICK s \in Sessions : /\ sess' = [sess EXCEPT ![s] = "queued"]
                              /\ req' = [req EXCEPT ![w].at = "open", ![w].sess = s]
    BY <1>1 DEF InsertSession
  <2>4. PICK r \in Request : r = [req[w] EXCEPT !.at = "open", !.sess = s]
    BY DEF Kinds
  <2>5. req' = [req EXCEPT ![w] = r] /\ r.sess \in Sessions
    BY <2>3, <2>4
  <2>6. req' \in [Workers -> Request]
        /\ \A v \in Workers : req'[v].at \notin {"idle", "insert", "control"} => req'[v].sess \in Sessions
    BY <2>5, RequestTypes
  <2>. QED BY <2>1, <2>2, <2>3, <2>6 DEF TurnTypes
<1>2. CASE AppendTerminalChunk(w)
  <2>1. UNCHANGED <<sess, cmds, known, requests, sweep, agent, shells, ran>> /\ Kept
    BY <1>2, Untouched DEF AppendTerminalChunk
  <2>2. (ran \in Seq([cmd : DOMAIN cmds, ok : BOOLEAN]))' /\ TurnTypes'
    BY <2>1, StillTyped DEF RanTypes
  <2>3. req[w].sess \in Sessions
    BY <1>2 DEF AppendTerminalChunk
  <2>4. typed' \in [Sessions -> Nat] /\ idle' \subseteq Sessions /\ typed[req[w].sess] + 1 \in Nat
    BY <1>2, <2>3 DEF AppendTerminalChunk
  <2>5. PICK r \in Request : r = [req[w] EXCEPT !.at = "data", !.seq = typed[req[w].sess] + 1]
    <3>1. PICK n \in Nat : n = typed[req[w].sess] + 1
      BY <2>4
    <3>2. [req[w] EXCEPT !.at = "data", !.seq = n] \in Request
      BY DEF Kinds
    <3>. QED BY <3>1, <3>2
  <2>6. req' = [req EXCEPT ![w] = r] /\ r.sess \in Sessions
    BY <1>2, <2>3, <2>5 DEF AppendTerminalChunk
  <2>7. req' \in [Workers -> Request]
        /\ \A v \in Workers : req'[v].at \notin {"idle", "insert", "control"} => req'[v].sess \in Sessions
    BY <2>6, RequestTypes
  <2>. QED BY <2>1, <2>2, <2>4, <2>7 DEF TurnTypes
<1>3. CASE QueueCommand(w)
  <2>1. UNCHANGED <<sess, idle, typed, requests, sweep, agent, shells, ran>>
    BY <1>3 DEF QueueCommand
  <2>2. /\ req[w].at \in Kinds /\ req[w].sess \in Sessions \cup {NoSession} /\ req[w].seq \in Nat
        /\ req[w].at # "control" => req[w].sess \in Sessions
        /\ Enqueue(req[w].at, req[w].sess, req[w].seq)
    BY <1>3 DEF QueueCommand, Kinds
  <2>3. Kept /\ \A i \in DOMAIN cmds' \ DOMAIN cmds :
                   cmds'[i].kind = req[w].at /\ cmds'[i].sess = req[w].sess
    <3>1. PICK kind, s, n : kind = req[w].at /\ s = req[w].sess /\ n = req[w].seq
      OBVIOUS
    <3>2. kind \in Kinds /\ s \in Sessions \cup {NoSession} /\ n \in Nat /\ Enqueue(kind, s, n)
      BY <2>2, <3>1
    <3>. HIDE DEF RelayTypes
    <3>. QED BY <3>1, <3>2, EnqueuedOne
  <2>4. (ran \in Seq([cmd : DOMAIN cmds, ok : BOOLEAN]))' /\ TurnTypes'
    BY <2>1, <2>3, StillTyped DEF RanTypes
  <2>5. \A i \in DOMAIN cmds' : cmds'[i].kind # "control" => cmds'[i].sess \in Sessions
    BY <2>2, <2>3, StillAddressed
  <2>6. req' \in [Workers -> Request] /\ known' \subseteq Sessions
        /\ \A v \in Workers : req'[v].at \notin {"idle", "insert", "control"} => req'[v].sess \in Sessions
    BY <1>3, <2>2 DEF QueueCommand
  <2>. QED BY <2>1, <2>3, <2>4, <2>5, <2>6 DEF TurnTypes, Kept
<1>4. CASE Abandon(w)
  <2>1. UNCHANGED <<sess, idle, typed, cmds, known, requests, sweep, agent, shells, ran>> /\ Kept
    BY <1>4, Untouched DEF Abandon
  <2>2. (ran \in Seq([cmd : DOMAIN cmds, ok : BOOLEAN]))' /\ TurnTypes'
    BY <2>1, StillTyped DEF RanTypes
  <2>3. req' \in [Workers -> Request]
        /\ \A v \in Workers : req'[v].at \notin {"idle", "insert", "control"} => req'[v].sess \in Sessions
    BY <1>4 DEF Abandon
  <2>. QED BY <2>1, <2>2, <2>3 DEF TurnTypes
<1>. QED BY <1>1, <1>2, <1>3, <1>4 DEF Serve

LEMMA ExpireTypes ==
  ASSUME RelayTypes, NEW x \in Sweepers, Expire(x)
  PROVE  RelayTypes' /\ Kept
<1>. USE DEF RelayTypes, TypeOK, Addressed
<1>1. CASE ExpireIdleTerminalSessions(x)
  <2>1. UNCHANGED <<idle, typed, cmds, req, agent, shells, known, requests, ran>> /\ Kept
    BY <1>1, Untouched DEF ExpireIdleTerminalSessions
  <2>2. (ran \in Seq([cmd : DOMAIN cmds, ok : BOOLEAN]))' /\ TurnTypes'
    BY <2>1, StillTyped DEF RanTypes
  <2>3. sess' \in [Sessions -> {"none", "queued", "open"} \cup Over] /\ sweep' \in [Sweepers -> SUBSET Sessions]
    BY <1>1 DEF ExpireIdleTerminalSessions, Active, Over
  <2>. QED BY <2>1, <2>2, <2>3 DEF TurnTypes
<1>2. CASE QueueExpiryClose(x)
  <2>1. UNCHANGED <<sess, idle, typed, req, agent, shells, known, requests, ran>>
    BY <1>2 DEF QueueExpiryClose
  <2>2. PICK s \in sweep[x] : /\ Enqueue("close", s, 0) \/ UNCHANGED cmds
                              /\ sweep' = [sweep EXCEPT ![x] = @ \ {s}]
    BY <1>2 DEF QueueExpiryClose
  <2>3. s \in Sessions /\ "close" \in Kinds /\ 0 \in Nat /\ s \in Sessions \cup {NoSession}
    BY DEF Kinds
  <2>4. Kept /\ \A i \in DOMAIN cmds' \ DOMAIN cmds : cmds'[i].sess = s
    <3>1. CASE Enqueue("close", s, 0)
      <4>. HIDE DEF RelayTypes
      <4>. QED BY <2>3, <3>1, EnqueuedOne
    <3>2. CASE UNCHANGED cmds
      BY <3>2, Untouched
    <3>. QED BY <2>2, <3>1, <3>2
  <2>5. (ran \in Seq([cmd : DOMAIN cmds, ok : BOOLEAN]))' /\ TurnTypes'
    BY <2>1, <2>4, StillTyped DEF RanTypes
  <2>6. \A i \in DOMAIN cmds' : cmds'[i].kind # "control" => cmds'[i].sess \in Sessions
    BY <2>3, <2>4, StillAddressed
  <2>7. sweep' \in [Sweepers -> SUBSET Sessions]
    BY <2>2
  <2>. QED BY <2>1, <2>4, <2>5, <2>6, <2>7 DEF TurnTypes, Kept
<1>. QED BY <1>1, <1>2 DEF Expire

LEMMA AgentTypes ==
  ASSUME RelayTypes, NEW a \in Agents,
         Turns(a) \/ CallLost(a) \/ Crash(a) \/ RecordTerminalOutput(a)
  PROVE  RelayTypes' /\ Kept
<1>. USE DEF RelayTypes, TypeOK, Addressed, Turn, Polling, Relay
<1>0. UNCHANGED <<typed, req, sweep, known, requests>>
  BY DEF Turns, PollAgentCommand, ClaimNextAgentCommand, Open, Deliver, Close,
         CompleteAgentCommand, UpdateSession, CallLost, Crash, RecordTerminalOutput
<1>1. CASE PollAgentCommand(a) \/ Crash(a) \/ RecordTerminalOutput(a)
  <2>1. UNCHANGED <<sess, cmds, ran>> /\ Kept
    BY <1>1, Untouched DEF PollAgentCommand, Crash, RecordTerminalOutput
  <2>2. (ran \in Seq([cmd : DOMAIN cmds, ok : BOOLEAN]))'
    BY <2>1, StillTyped DEF RanTypes
  <2>3. DOMAIN cmds \subseteq Nat
    BY LenProperties
  <2>4. \/ UNCHANGED agent
        \/ agent' = [agent EXCEPT ![a] = Polling]
        \/ \E i \in DOMAIN cmds : agent' = [agent EXCEPT ![a] = [at |-> "claim", cmd |-> i, ok |-> FALSE]]
    BY <1>1 DEF PollAgentCommand, Crash, RecordTerminalOutput, Queued
  <2>5. /\ agent' \in [Agents -> Turn]
        /\ \A b \in Agents : agent'[b].at # "idle" => agent'[b].cmd \in DOMAIN cmds
    BY <2>3, <2>4, TurnMoves
  <2>6. shells' \in [Agents -> SUBSET Sessions] /\ idle' \subseteq Sessions
    BY <1>1 DEF PollAgentCommand, Crash, RecordTerminalOutput
  <2>. QED BY <1>0, <2>1, <2>2, <2>5, <2>6
<1>2. CASE ClaimNextAgentCommand(a) \/ CompleteAgentCommand(a) \/ CallLost(a)
  <2>1. UNCHANGED <<sess, idle, shells, ran>> /\ agent[a].at # "idle"
    BY <1>2 DEF ClaimNextAgentCommand, CompleteAgentCommand, CallLost
  <2>2. agent[a].cmd \in DOMAIN cmds
    BY <2>1
  <2>3. \/ UNCHANGED cmds
        \/ \E status \in {"running", "succeeded", "failed"} : SetStatus(agent[a].cmd, status)
    BY <1>2 DEF ClaimNextAgentCommand, CompleteAgentCommand, CallLost
  <2>4. Kept /\ DOMAIN cmds' = DOMAIN cmds
    BY <2>2, <2>3, Marked, Untouched
  <2>5. (ran \in Seq([cmd : DOMAIN cmds, ok : BOOLEAN]))'
    BY <2>1, <2>4, StillTyped DEF RanTypes
  <2>6. /\ agent' \in [Agents -> Turn]
        /\ \A b \in Agents : agent'[b].at # "idle" => agent'[b].cmd \in DOMAIN cmds
    <3>1. \/ agent' = [agent EXCEPT ![a] = Polling]
          \/ \E at \in {"run", "session"} : agent' = [agent EXCEPT ![a] = [agent[a] EXCEPT !.at = at]]
      BY <1>2 DEF ClaimNextAgentCommand, CompleteAgentCommand, CallLost
    <3>2. Polling \in Turn /\ \A at \in {"run", "session"} : [agent[a] EXCEPT !.at = at] \in Turn
      OBVIOUS
    <3>3. \A at \in {"run", "session"} : [agent[a] EXCEPT !.at = at].cmd = agent[a].cmd
      OBVIOUS
    <3>. HIDE DEF RelayTypes, Turn, Polling
    <3>4. Polling.at = "idle"
      BY DEF Polling
    <3>. QED BY <2>2, <3>1, <3>2, <3>3, <3>4, TurnMoves
  <2>7. \A i \in DOMAIN cmds' : cmds'[i].kind # "control" => cmds'[i].sess \in Sessions
    BY <2>4, StillAddressed
  <2>. QED BY <1>0, <2>1, <2>4, <2>5, <2>6, <2>7 DEF Kept
<1>3. CASE Open(a) \/ Deliver(a) \/ Close(a)
  <2>1. UNCHANGED <<sess, idle, cmds>> /\ Kept /\ agent[a].at # "idle"
    BY <1>3, Untouched DEF Open, Deliver, Close
  <2>2. agent[a].cmd \in DOMAIN cmds /\ (Now(a).kind # "control" => Now(a).sess \in Sessions)
    BY <2>1 DEF Now
  <2>3. PICK ok \in BOOLEAN : Executed(a, ok)
    BY <1>3, Executes
  <2>4. ran' \in Seq([cmd : DOMAIN cmds, ok : BOOLEAN])
    BY <2>2, <2>3, AppendProperties DEF Executed
  <2>5. /\ agent' \in [Agents -> Turn]
        /\ \A b \in Agents : agent'[b].at # "idle" => agent'[b].cmd \in DOMAIN cmds
    <3>1. PICK t \in Turn : t = [agent[a] EXCEPT !.at = "report", !.ok = ok]
      OBVIOUS
    <3>2. agent' = [agent EXCEPT ![a] = t] /\ t.cmd = agent[a].cmd
      BY <2>3, <3>1 DEF Executed
    <3>. HIDE DEF RelayTypes
    <3>. QED BY <2>2, <3>2, TurnMoves
  <2>6. shells' \in [Agents -> SUBSET Sessions]
    <3>1. \/ UNCHANGED shells
          \/ \E s \in Sessions : shells' = [shells EXCEPT ![a] = @ \cup {s}]
          \/ \E s \in Sessions : shells' = [shells EXCEPT ![a] = @ \ {s}]
      BY <1>3, <2>2, Zenon DEF Open, Deliver, Close
    <3>2. shells \in [Agents -> SUBSET Sessions]
      OBVIOUS
    <3>. HIDE DEF RelayTypes
    <3>. QED BY <3>1, <3>2
  <2>. QED BY <1>0, <2>1, <2>4, <2>5, <2>6
<1>4. CASE UpdateSession(a)
  <2>1. UNCHANGED <<cmds, shells, ran>> /\ Kept
    BY <1>4, Untouched DEF UpdateSession
  <2>2. (ran \in Seq([cmd : DOMAIN cmds, ok : BOOLEAN]))'
    BY <2>1, StillTyped DEF RanTypes
  <2>3. sess' \in [Sessions -> {"none", "queued", "open"} \cup Over] /\ idle' \subseteq Sessions
    BY <1>4 DEF UpdateSession, SetSession, Over
  <2>4. /\ agent' \in [Agents -> Turn]
        /\ \A b \in Agents : agent'[b].at # "idle" => agent'[b].cmd \in DOMAIN cmds
    BY <1>4 DEF UpdateSession
  <2>. QED BY <1>0, <2>1, <2>2, <2>3, <2>4
<1>. QED BY <1>1, <1>2, <1>3, <1>4 DEF Turns

LEMMA StepTypes ==
  ASSUME RelayTypes, [Next]_vars
  PROVE  RelayTypes' /\ Kept
<1>1. CASE Next
  <2>1. ASSUME NEW s \in Sessions, GoesIdle(s)
        PROVE  RelayTypes' /\ Kept
    <3>1. UNCHANGED <<sess, typed, cmds, req, known, requests, sweep, agent, shells, ran>> /\ Kept
      BY <2>1, Untouched DEF GoesIdle, Agency, RelayTypes, TypeOK
    <3>2. RanTypes' /\ TurnTypes' /\ idle' \subseteq Sessions
      BY <2>1, <3>1, StillTyped DEF GoesIdle, RelayTypes, TypeOK
    <3>. QED BY <3>1, <3>2 DEF RelayTypes, TypeOK, Addressed, RanTypes, TurnTypes
  <2>. QED BY <1>1, <2>1, ArriveTypes, ServeTypes, ExpireTypes, AgentTypes DEF Next
<1>2. CASE UNCHANGED vars
  <2>1. Kept /\ RanTypes' /\ TurnTypes'
    BY <1>2, Untouched, StillTyped DEF vars, RelayTypes, TypeOK
  <2>. QED BY <1>2, <2>1 DEF vars, RelayTypes, TypeOK, Addressed, RanTypes, TurnTypes
<1>. QED BY <1>1, <1>2

LEMMA InitTypes ==
  ASSUME Init
  PROVE  RelayTypes
<1>1. cmds \in Seq(Command) /\ ran \in Seq([cmd : DOMAIN cmds, ok : BOOLEAN]) /\ DOMAIN cmds = {}
  BY EmptySeq DEF Init
<1>2. requests \in 0 .. MaxRequests
  BY RelayAssumption DEF Init
<1>. QED BY <1>1, <1>2 DEF Init, RelayTypes, TypeOK, Addressed, Resting, Request, Polling, Turn

LEMMA TypesHold == Spec => []RelayTypes
BY InitTypes, StepTypes, PTL DEF Spec

(* Sessions, queue, handlers and agents keep their types, and every command
   an agent works on is in the queue: for any numbers of them, under any
   faults. *)
THEOREM TypeCorrect == Spec => []TypeOK
<1>1. RelayTypes => TypeOK
  BY DEF RelayTypes
<1>. QED BY <1>1, TypesHold, PTL

----------------------------------------------------------------------------
(* The audit of what is typed. *)

(* The queue's positions count up, so a new command comes after all others. *)
LEMMA NewAreLast ==
  ASSUME RelayTypes, Kept
  PROVE  /\ DOMAIN cmds \subseteq Nat /\ DOMAIN cmds' \subseteq Nat
         /\ \A i \in DOMAIN cmds : \A j \in DOMAIN cmds' \ DOMAIN cmds : i < j
<1>1. DOMAIN cmds = 1 .. Len(cmds) /\ Len(cmds) \in Nat
  BY LenProperties DEF RelayTypes, TypeOK
<1>2. DOMAIN cmds' = 1 .. Len(cmds') /\ Len(cmds') \in Nat
  BY LenProperties DEF Kept
<1>. QED BY <1>1, <1>2 DEF Kept

(* What QueueCommand adds to the queue. *)
LEMMA RequestQueued ==
  ASSUME RelayTypes, NEW w \in Workers, QueueCommand(w)
  PROVE  \E n \in Nat :
           /\ n \notin DOMAIN cmds /\ DOMAIN cmds' = DOMAIN cmds \cup {n}
           /\ \A i \in DOMAIN cmds : cmds'[i] = cmds[i] /\ i < n
           /\ cmds'[n].kind = req[w].at /\ cmds'[n].sess = req[w].sess
           /\ cmds'[n].seq = req[w].seq /\ cmds'[n].status = "queued"
<1>1. PICK kind, s, n : kind = req[w].at /\ s = req[w].sess /\ n = req[w].seq
  OBVIOUS
<1>2. kind \in Kinds /\ s \in Sessions \cup {NoSession} /\ n \in Nat /\ Enqueue(kind, s, n)
  BY <1>1 DEF QueueCommand, RelayTypes, TypeOK, Request
<1>3. cmds \in Seq(Command) /\ Len(cmds) \in Nat /\ DOMAIN cmds = 1 .. Len(cmds)
  BY LenProperties DEF RelayTypes, TypeOK
<1>4. /\ DOMAIN cmds' = DOMAIN cmds \cup {Len(cmds) + 1}
      /\ \A i \in DOMAIN cmds : cmds'[i] = cmds[i] /\ i < Len(cmds) + 1
      /\ cmds'[Len(cmds) + 1] = [kind |-> kind, sess |-> s, seq |-> n, status |-> "queued"]
  BY <1>2, <1>3, Enqueued
<1>5. Len(cmds) + 1 \in Nat /\ Len(cmds) + 1 \notin DOMAIN cmds
  BY <1>3
<1>. QED BY <1>1, <1>4, <1>5

(* Every input under way is an entry of the transcript, and nothing else under
   way is the same one. *)
Inputs == {i \in DOMAIN cmds : cmds[i].kind = "data"}
Senders == {w \in Workers : req[w].at = "data"}

SendersAudited ==
  /\ \A w \in Senders : req[w].seq \in 1 .. typed[req[w].sess]
  /\ \A w \in Senders, i \in Inputs :
       cmds[i].sess = req[w].sess => cmds[i].seq # req[w].seq
  /\ \A v, w \in Senders :
       req[v].sess = req[w].sess /\ req[v].seq = req[w].seq => v = w

AuditInv == InputIsAudited /\ SendersAudited

(* No input is typed, sent or queued. *)
NoInput ==
  /\ UNCHANGED typed
  /\ \A i \in DOMAIN cmds' \ DOMAIN cmds : cmds'[i].kind # "data"
  /\ \A w \in Workers : req'[w].at = "data" => req'[w] = req[w]

LEMMA InputSteps ==
  ASSUME RelayTypes, [Next]_vars
  PROVE  NoInput \/ \E w \in Workers : AppendTerminalChunk(w) \/ QueueCommand(w)
<1>1. ASSUME NEW w \in Workers, Arrive(w) \/ InsertSession(w) \/ Abandon(w)
      PROVE  NoInput
  <2>1. UNCHANGED <<typed, cmds>>
    BY <1>1 DEF Arrive, InsertSession, Abandon, BeginCreate, BeginInput, QueueAgentCommand,
                ResizeTerminalSession, CloseTerminalSession
  <2>2. \E r : r.at # "data" /\ req' = [req EXCEPT ![w] = r]
    <3>1. ASSUME NEW label \in {"insert", "append", "resize", "close", "control"}, NEW s, Accept(w, label, s)
          PROVE  \E r : r.at # "data" /\ req' = [req EXCEPT ![w] = r]
      BY <3>1 DEF Accept
    <3>2. CASE Arrive(w)
      BY <3>1, <3>2 DEF Arrive, BeginCreate, BeginInput, QueueAgentCommand, ResizeTerminalSession,
                        CloseTerminalSession
    <3>3. CASE InsertSession(w)
      <4>1. PICK s \in Sessions : req' = [req EXCEPT ![w].at = "open", ![w].sess = s]
        BY <3>3 DEF InsertSession
      <4>2. PICK r : r = [req[w] EXCEPT !.at = "open", !.sess = s]
        OBVIOUS
      <4>3. r.at = "open"
        BY <4>2 DEF RelayTypes, TypeOK, Request
      <4>4. req' = [req EXCEPT ![w] = r]
        BY <4>1, <4>2
      <4>. QED BY <4>3, <4>4
    <3>4. CASE Abandon(w)
      BY <3>4 DEF Abandon, Resting
    <3>. QED BY <1>1, <3>2, <3>3, <3>4
  <2>. QED BY <2>1, <2>2 DEF NoInput, RelayTypes, TypeOK
<1>2. ASSUME NEW x \in Sweepers, Expire(x)
      PROVE  NoInput
  <2>1. UNCHANGED <<typed, req>>
    BY <1>2 DEF Expire, ExpireIdleTerminalSessions, QueueExpiryClose
  <2>2. \A i \in DOMAIN cmds' \ DOMAIN cmds : cmds'[i].kind # "data"
    <3>1. CASE UNCHANGED cmds
      BY <3>1
    <3>2. ASSUME NEW s \in Sessions, Enqueue("close", s, 0)
          PROVE  \A i \in DOMAIN cmds' \ DOMAIN cmds : cmds'[i].kind = "close"
      <4>1. "close" \in Kinds /\ s \in Sessions \cup {NoSession} /\ 0 \in Nat
        BY DEF Kinds
      <4>. QED BY <3>2, <4>1, EnqueuedOne
    <3>. QED BY <1>2, <3>1, <3>2 DEF Expire, ExpireIdleTerminalSessions, QueueExpiryClose, RelayTypes, TypeOK
  <2>. QED BY <2>1, <2>2 DEF NoInput
<1>3. ASSUME NEW a \in Agents, Turns(a) \/ CallLost(a) \/ Crash(a) \/ RecordTerminalOutput(a)
      PROVE  NoInput
  <2>1. UNCHANGED <<typed, req>>
    BY <1>3 DEF Turns, PollAgentCommand, ClaimNextAgentCommand, Open, Deliver, Close, Relay,
                CompleteAgentCommand, UpdateSession, CallLost, Crash, RecordTerminalOutput
  <2>2. UNCHANGED cmds \/ \E i, status : SetStatus(i, status)
    BY <1>3 DEF Turns, PollAgentCommand, ClaimNextAgentCommand, Open, Deliver, Close,
                CompleteAgentCommand, UpdateSession, CallLost, Crash, RecordTerminalOutput
  <2>3. DOMAIN cmds' = DOMAIN cmds
    BY <2>2 DEF SetStatus
  <2>. QED BY <2>1, <2>3 DEF NoInput
<1>4. CASE UNCHANGED vars
  BY <1>4 DEF vars, NoInput
<1>5. ASSUME NEW s \in Sessions, GoesIdle(s)
      PROVE  NoInput
  BY <1>5 DEF GoesIdle, NoInput
<1>6. CASE Next
  BY <1>1, <1>2, <1>3, <1>5, <1>6 DEF Next, Serve
<1>. QED BY <1>4, <1>6

LEMMA AuditStep ==
  ASSUME RelayTypes, RelayTypes', Kept, AuditInv, [Next]_vars
  PROVE  AuditInv'
<1>1. CASE NoInput
  <2>1. Inputs' = Inputs /\ \A i \in Inputs : cmds'[i].sess = cmds[i].sess /\ cmds'[i].seq = cmds[i].seq
    BY <1>1 DEF NoInput, Kept, Inputs
  <2>2. Senders' \subseteq Senders /\ \A w \in Senders' : req'[w] = req[w]
    BY <1>1 DEF NoInput, Senders
  <2>3. InputIsAudited'
    BY <1>1, <2>1 DEF NoInput, AuditInv, InputIsAudited, Inputs
  <2>4. SendersAudited'
    BY <1>1, <2>1, <2>2 DEF NoInput, AuditInv, SendersAudited
  <2>. QED BY <2>3, <2>4 DEF AuditInv
<1>2. ASSUME NEW w \in Workers, AppendTerminalChunk(w)
      PROVE  AuditInv'
  <2>. DEFINE s == req[w].sess
  <2>1. s \in Sessions /\ typed \in [Sessions -> Nat]
    BY <1>2 DEF AppendTerminalChunk, RelayTypes, TypeOK, Addressed
  <2>2. typed'[s] = typed[s] + 1 /\ \A t \in Sessions : typed'[t] \in Nat /\ typed[t] \in Nat /\ typed'[t] >= typed[t]
    BY <1>2, <2>1 DEF AppendTerminalChunk
  <2>3. req'[w].at = "data" /\ req'[w].sess = s /\ req'[w].seq = typed[s] + 1
    BY <1>2 DEF AppendTerminalChunk, RelayTypes, TypeOK, Request
  <2>4. \A v \in Workers \ {w} : req'[v] = req[v]
    BY <1>2 DEF AppendTerminalChunk, RelayTypes, TypeOK
  <2>5. UNCHANGED cmds /\ Inputs' = Inputs
    BY <1>2 DEF AppendTerminalChunk, Inputs
  <2>6. Senders' = Senders \cup {w}
    BY <2>3, <2>4 DEF Senders
  <2>7. \A i \in Inputs : cmds[i].sess \in Sessions /\ cmds[i].seq \in 1 .. typed[cmds[i].sess]
    BY DEF Inputs, AuditInv, InputIsAudited, RelayTypes, Addressed
  <2>8. \A v \in Senders : req[v].sess \in Sessions /\ req[v].seq \in 1 .. typed[req[v].sess]
    BY DEF Senders, AuditInv, SendersAudited, RelayTypes, Addressed
  <2>9. w \notin Senders
    BY <1>2 DEF Senders, AppendTerminalChunk
  <2>. HIDE DEF s
  <2>10. InputIsAudited'
    BY <2>2, <2>5, <2>7 DEF Inputs, AuditInv, InputIsAudited
  <2>11. SendersAudited'
    <3>1. \A v \in Senders' : req'[v].seq \in 1 .. typed'[req'[v].sess]
      <4>1. req'[w].seq \in 1 .. typed'[req'[w].sess]
        BY <2>1, <2>2, <2>3
      <4>2. \A v \in Senders : req'[v] = req[v] /\ typed'[req[v].sess] >= typed[req[v].sess]
                              /\ typed'[req[v].sess] \in Nat /\ typed[req[v].sess] \in Nat
        BY <2>2, <2>4, <2>8, <2>9 DEF Senders
      <4>3. \A v \in Senders : req'[v].seq \in 1 .. typed'[req'[v].sess]
        BY <2>8, <4>2
      <4>. QED BY <2>6, <4>1, <4>3
    <3>2. \A v \in Senders', i \in Inputs' : cmds'[i].sess = req'[v].sess => cmds'[i].seq # req'[v].seq
      BY <2>1, <2>2, <2>3, <2>4, <2>5, <2>6, <2>7, <2>9 DEF AuditInv, SendersAudited, Senders
    <3>3. \A u, v \in Senders' : req'[u].sess = req'[v].sess /\ req'[u].seq = req'[v].seq => u = v
      BY <2>1, <2>2, <2>3, <2>4, <2>6, <2>8, <2>9 DEF AuditInv, SendersAudited, Senders
    <3>. QED BY <3>1, <3>2, <3>3 DEF SendersAudited
  <2>. QED BY <2>10, <2>11 DEF AuditInv
<1>3. ASSUME NEW w \in Workers, QueueCommand(w)
      PROVE  AuditInv'
  <2>1. PICK n \in Nat :
           /\ n \notin DOMAIN cmds /\ DOMAIN cmds' = DOMAIN cmds \cup {n}
           /\ \A i \in DOMAIN cmds : cmds'[i] = cmds[i] /\ i < n
           /\ cmds'[n].kind = req[w].at /\ cmds'[n].sess = req[w].sess
           /\ cmds'[n].seq = req[w].seq /\ cmds'[n].status = "queued"
    BY <1>3, RequestQueued
  <2>2. UNCHANGED typed /\ req' = [req EXCEPT ![w] = Resting]
    BY <1>3 DEF QueueCommand
  <2>3. Senders' = Senders \ {w} /\ \A v \in Senders' : req'[v] = req[v]
    BY <2>2 DEF Senders, Resting, RelayTypes, TypeOK
  <2>4. Inputs' = Inputs \cup (IF w \in Senders THEN {n} ELSE {}) /\ \A i \in Inputs : cmds'[i] = cmds[i]
    BY <2>1 DEF Inputs, Senders
  <2>5. InputIsAudited'
    <3>1. \A i \in Inputs' : cmds'[i].seq \in 1 .. typed'[cmds'[i].sess]
      BY <2>1, <2>2, <2>4 DEF AuditInv, InputIsAudited, SendersAudited, Inputs
    <3>2. \A i, j \in Inputs' : cmds'[i].sess = cmds'[j].sess /\ cmds'[i].seq = cmds'[j].seq => i = j
      BY <2>1, <2>4 DEF AuditInv, InputIsAudited, SendersAudited, Inputs
    <3>. QED BY <3>1, <3>2 DEF InputIsAudited, Inputs
  <2>6. SendersAudited'
    BY <2>1, <2>2, <2>3, <2>4 DEF AuditInv, SendersAudited
  <2>. QED BY <2>5, <2>6 DEF AuditInv
<1>. QED BY <1>1, <1>2, <1>3, InputSteps

(* Whatever handlers fail, overlap or are repeated, an input that is sent to a
   shell is in the transcript of its session, and each entry is sent once. *)
THEOREM InputAudited == Spec => []InputIsAudited
<1>1. Init => AuditInv
  <2>1. ASSUME Init
        PROVE  DOMAIN cmds = {} /\ Senders = {}
    BY <2>1 DEF Init, Senders, Resting
  <2>. QED BY <2>1 DEF AuditInv, InputIsAudited, SendersAudited, Inputs
<1>2. RelayTypes /\ RelayTypes' /\ AuditInv /\ [Next]_vars => AuditInv'
  BY AuditStep, StepTypes
<1>3. AuditInv => InputIsAudited
  BY DEF AuditInv
<1>. QED BY <1>1, <1>2, <1>3, TypesHold, PTL DEF Spec

----------------------------------------------------------------------------
(* The order of execution.  Two agents that poll with the same id can be   *)
(* given the same command, so this is for one.                             *)

OneAgent == \A a, b \in Agents : a = b

(* The command an agent works on precedes those that are queued, and those it
   has executed precede both. *)
InTurn ==
  /\ \A a \in Agents : agent[a].at # "idle" =>
       \A j \in Queued : agent[a].cmd <= j /\ (agent[a].at # "claim" => agent[a].cmd # j)
  /\ \A k \in DOMAIN ran : \A j \in Queued : ran[k].cmd < j
  /\ \A k \in DOMAIN ran, a \in Agents :
       agent[a].at \in {"claim", "run"} => ran[k].cmd < agent[a].cmd

OrderInv == InTurn /\ ExecutedOnceInOrder

LEMMA AgentSteps ==
  ASSUME RelayTypes, [Next]_vars
  PROVE  \/ UNCHANGED <<agent, ran>>
         \/ \E a \in Agents :
              \/ PollAgentCommand(a) \/ ClaimNextAgentCommand(a)
              \/ (Open(a) \/ Deliver(a) \/ Close(a))
                   /\ agent[a].at = "run" /\ UNCHANGED cmds /\ \E ok \in BOOLEAN : Executed(a, ok)
              \/ CompleteAgentCommand(a) /\ agent[a].at = "report" /\ UNCHANGED ran
                   /\ agent' = [agent EXCEPT ![a].at = "session"]
              \/ agent' = [agent EXCEPT ![a] = Polling] /\ UNCHANGED ran
<1>1. ASSUME NEW w \in Workers, Arrive(w) \/ Serve(w) \/ Abandon(w)
      PROVE  UNCHANGED <<agent, ran>>
  BY <1>1 DEF Arrive, Serve, Abandon, BeginCreate, BeginInput, QueueAgentCommand, Agency, InsertSession,
              ResizeTerminalSession, CloseTerminalSession, AppendTerminalChunk, QueueCommand
<1>2. ASSUME NEW x \in Sweepers, Expire(x)
      PROVE  UNCHANGED <<agent, ran>>
  BY <1>2 DEF Expire, ExpireIdleTerminalSessions, QueueExpiryClose
<1>3. ASSUME NEW s \in Sessions, GoesIdle(s)
      PROVE  UNCHANGED <<agent, ran>>
  BY <1>3 DEF GoesIdle, Agency
<1>4. ASSUME NEW a \in Agents, Open(a) \/ Deliver(a) \/ Close(a)
      PROVE  agent[a].at = "run" /\ UNCHANGED cmds /\ \E ok \in BOOLEAN : Executed(a, ok)
  <2>1. agent[a].at = "run" /\ UNCHANGED cmds
    BY <1>4 DEF Open, Deliver, Close
  <2>. QED BY <1>4, <2>1, Executes
<1>5. ASSUME NEW a \in Agents, CompleteAgentCommand(a)
      PROVE  /\ UNCHANGED ran
             /\ \/ agent[a].at = "report" /\ agent' = [agent EXCEPT ![a].at = "session"]
                \/ agent' = [agent EXCEPT ![a] = Polling]
  BY <1>5 DEF CompleteAgentCommand
<1>6. ASSUME NEW a \in Agents, UpdateSession(a) \/ CallLost(a) \/ Crash(a)
      PROVE  agent' = [agent EXCEPT ![a] = Polling] /\ UNCHANGED ran
  BY <1>6 DEF UpdateSession, CallLost, Crash
<1>7. ASSUME NEW a \in Agents, RecordTerminalOutput(a)
      PROVE  UNCHANGED <<agent, ran>>
  BY <1>7 DEF RecordTerminalOutput
<1>8. CASE Next
  BY <1>1, <1>2, <1>3, <1>4, <1>5, <1>6, <1>7, <1>8 DEF Next, Turns
<1>. QED BY <1>8 DEF vars

LEMMA RanIsTyped ==
  ASSUME RelayTypes
  PROVE  \A k \in DOMAIN ran : ran[k].cmd \in DOMAIN cmds /\ ran[k].ok \in BOOLEAN
<1>1. /\ ran \in Seq([cmd : DOMAIN cmds, ok : BOOLEAN])
      /\ DOMAIN ran = 1 .. Len(ran)
  BY LenProperties DEF RelayTypes, TypeOK
<1>2. \A k \in DOMAIN ran : ran[k] \in [cmd : DOMAIN cmds, ok : BOOLEAN]
  BY <1>1, ElementOfSeq
<1>. QED BY <1>2

LEMMA OrderStep ==
  ASSUME OneAgent, RelayTypes, Kept, OrderInv, [Next]_vars
  PROVE  OrderInv'
<1>1. /\ DOMAIN cmds \subseteq Nat /\ DOMAIN cmds \subseteq DOMAIN cmds' /\ DOMAIN cmds' \subseteq Nat
      /\ \A i \in DOMAIN cmds : \A j \in Queued' : j \notin Queued => i < j
      /\ Queued' \subseteq Nat
  BY NewAreLast DEF Kept, Queued
<1>2. \A k \in DOMAIN ran : ran[k].cmd \in DOMAIN cmds
  BY RanIsTyped
<1>3. \A a \in Agents : agent[a].at # "idle" => agent[a].cmd \in DOMAIN cmds
  BY DEF RelayTypes, TypeOK
<1>4. \A k \in DOMAIN ran : \A j \in Queued' : ran[k].cmd < j
  BY <1>1, <1>2 DEF OrderInv, InTurn
<1>5. \A a \in Agents : agent[a].at # "idle" =>
        \A j \in Queued' : agent[a].cmd <= j /\ (agent[a].at # "claim" => agent[a].cmd # j)
  BY <1>1, <1>3 DEF OrderInv, InTurn
<1>6. CASE UNCHANGED <<agent, ran>>
  BY <1>4, <1>5, <1>6 DEF OrderInv, InTurn, ExecutedOnceInOrder
<1>7. ASSUME NEW a \in Agents, PollAgentCommand(a)
      PROVE  OrderInv'
  <2>1. PICK i \in Queued :
          /\ \A j \in Queued : i <= j
          /\ agent' = [agent EXCEPT ![a] = [at |-> "claim", cmd |-> i, ok |-> FALSE]]
          /\ UNCHANGED <<cmds, ran>>
    BY <1>7 DEF PollAgentCommand
  <2>2. \A b \in Agents : agent'[b].at = "claim" /\ agent'[b].cmd = i
    BY <2>1 DEF OneAgent, RelayTypes, TypeOK
  <2>3. Queued' = Queued
    BY <2>1 DEF Queued
  <2>. QED BY <2>1, <2>2, <2>3 DEF OrderInv, InTurn, ExecutedOnceInOrder
<1>8. ASSUME NEW a \in Agents, ClaimNextAgentCommand(a)
      PROVE  OrderInv'
  <2>1. agent[a].at = "claim" /\ SetStatus(agent[a].cmd, "running") /\ UNCHANGED ran
        /\ agent' = [agent EXCEPT ![a].at = "run"]
    BY <1>8 DEF ClaimNextAgentCommand
  <2>2. \A b \in Agents : agent'[b].at = "run" /\ agent'[b].cmd = agent[a].cmd
    BY <2>1 DEF OneAgent, RelayTypes, TypeOK, Turn
  <2>3. agent[a].cmd \notin Queued' /\ Queued' \subseteq Queued
    BY <1>3, <2>1 DEF Queued, SetStatus, RelayTypes, TypeOK
  <2>. QED BY <2>1, <2>2, <2>3 DEF OrderInv, InTurn, ExecutedOnceInOrder
<1>9. ASSUME NEW a \in Agents, agent[a].at = "run", UNCHANGED cmds, NEW ok \in BOOLEAN, Executed(a, ok)
      PROVE  OrderInv'
  <2>1. PICK e : e = [cmd |-> agent[a].cmd, ok |-> ok]
    OBVIOUS
  <2>2. ran' = Append(ran, e) /\ e.cmd = agent[a].cmd /\ e \in [cmd : DOMAIN cmds, ok : BOOLEAN]
    BY <1>3, <1>9, <2>1 DEF Executed
  <2>3. /\ ran \in Seq([cmd : DOMAIN cmds, ok : BOOLEAN])
        /\ DOMAIN ran = 1 .. Len(ran) /\ Len(ran) \in Nat
    BY LenProperties DEF RelayTypes, TypeOK
  <2>4. /\ DOMAIN ran' = 1 .. (Len(ran) + 1)
        /\ \A k \in DOMAIN ran : ran'[k] = ran[k]
        /\ ran'[Len(ran) + 1] = e
    BY <2>2, <2>3, AppendProperties, LenProperties
  <2>5. \A b \in Agents : agent'[b].at = "report" /\ agent'[b].cmd = agent[a].cmd
    BY <1>9 DEF Executed, OneAgent, RelayTypes, TypeOK, Turn
  <2>6. Queued' = Queued
    BY <1>9 DEF Queued
  <2>7. DOMAIN ran' = DOMAIN ran \cup {Len(ran) + 1} /\ \A k \in DOMAIN ran : k < Len(ran) + 1
    BY <2>3, <2>4
  <2>8. \A j \in Queued : agent[a].cmd < j
    <3>. SUFFICES ASSUME NEW j \in Queued
                  PROVE  agent[a].cmd < j
         OBVIOUS
    <3>1. j \in Nat /\ agent[a].cmd \in Nat
      BY <1>1, <1>3, <1>9 DEF Queued
    <3>2. agent[a].cmd <= j /\ agent[a].cmd # j
      BY <1>9 DEF OrderInv, InTurn
    <3>. QED BY <3>1, <3>2
  <2>9. InTurn'
    <3>1. \A k \in DOMAIN ran', j \in Queued' : ran'[k].cmd < j
      BY <1>4, <2>2, <2>4, <2>6, <2>7, <2>8
    <3>2. \A j \in Queued' : agent[a].cmd <= j /\ agent[a].cmd # j
      BY <1>5, <1>9
    <3>. QED BY <2>5, <3>1, <3>2 DEF InTurn
  <2>10. \A k \in DOMAIN ran : ran[k].cmd < agent[a].cmd
    BY <1>9 DEF OrderInv, InTurn
  <2>11. ExecutedOnceInOrder'
    <3>. SUFFICES ASSUME NEW i \in DOMAIN ran', NEW j \in DOMAIN ran', i < j
                  PROVE  ran'[i].cmd < ran'[j].cmd
         BY DEF ExecutedOnceInOrder
    <3>1. i \in DOMAIN ran
      BY <2>3, <2>4
    <3>. QED BY <2>2, <2>4, <2>7, <2>10, <3>1 DEF OrderInv, ExecutedOnceInOrder
  <2>. QED BY <2>9, <2>11 DEF OrderInv
<1>10. ASSUME NEW a \in Agents, agent[a].at = "report", agent' = [agent EXCEPT ![a].at = "session"], UNCHANGED ran
       PROVE  OrderInv'
  <2>1. \A b \in Agents : agent'[b].at = "session" /\ agent'[b].cmd = agent[a].cmd
    BY <1>10 DEF OneAgent, RelayTypes, TypeOK, Turn
  <2>2. \A j \in Queued' : agent[a].cmd <= j /\ agent[a].cmd # j
    BY <1>5, <1>10
  <2>. QED BY <1>4, <1>10, <2>1, <2>2 DEF OrderInv, InTurn, ExecutedOnceInOrder
<1>11. ASSUME NEW a \in Agents, agent' = [agent EXCEPT ![a] = Polling], UNCHANGED ran
       PROVE  OrderInv'
  <2>1. \A b \in Agents : agent'[b].at = "idle"
    BY <1>11 DEF OneAgent, RelayTypes, TypeOK, Polling
  <2>. QED BY <1>4, <1>11, <2>1 DEF OrderInv, InTurn, ExecutedOnceInOrder
<1>. QED BY <1>6, <1>7, <1>8, <1>9, <1>10, <1>11, AgentSteps

LEMMA InitOrder ==
  ASSUME Init
  PROVE  OrderInv
<1>1. DOMAIN cmds = {} /\ DOMAIN ran = {}
  BY DEF Init
<1>. QED BY <1>1 DEF OrderInv, InTurn, ExecutedOnceInOrder, Queued

(* One agent executes the commands in the order in which they were queued, and
   none twice, whatever answers are lost, statements fail and agents restart. *)
THEOREM ExecutedInOrder ==
  ASSUME OneAgent
  PROVE  Spec => []ExecutedOnceInOrder
<1>1. Init => OrderInv
  BY InitOrder
<1>2. RelayTypes /\ OrderInv /\ [Next]_vars => OrderInv'
  BY OrderStep, StepTypes
<1>3. OrderInv => ExecutedOnceInOrder
  BY DEF OrderInv
<1>. QED BY <1>1, <1>2, <1>3, TypesHold, PTL DEF Spec

----------------------------------------------------------------------------
(* The order of the input, for a renter who waits for an answer before the
   next request. *)

OneHandler == \A v, w \in Workers : v = w

SentInOrder ==
  /\ \A i, j \in Inputs : i < j /\ cmds[i].sess = cmds[j].sess => cmds[i].seq < cmds[j].seq
  /\ \A w \in Senders, i \in Inputs : cmds[i].sess = req[w].sess => cmds[i].seq < req[w].seq

LEMMA SentInOrderStep ==
  ASSUME OneHandler, RelayTypes, Kept, AuditInv, SentInOrder, [Next]_vars
  PROVE  SentInOrder'
<1>0. DOMAIN cmds \subseteq Nat
  BY NewAreLast
<1>1. CASE NoInput
  <2>1. Inputs' = Inputs /\ \A i \in Inputs : cmds'[i].sess = cmds[i].sess /\ cmds'[i].seq = cmds[i].seq
    BY <1>1 DEF NoInput, Kept, Inputs
  <2>2. Senders' \subseteq Senders /\ \A w \in Senders' : req'[w] = req[w]
    BY <1>1 DEF NoInput, Senders
  <2>. QED BY <2>1, <2>2 DEF SentInOrder
<1>2. ASSUME NEW w \in Workers, AppendTerminalChunk(w)
      PROVE  SentInOrder'
  <2>1. Inputs' = Inputs /\ UNCHANGED cmds
    BY <1>2 DEF AppendTerminalChunk, Inputs
  <2>2. Senders' \subseteq {w} /\ req'[w].sess = req[w].sess /\ req'[w].seq = typed[req[w].sess] + 1
    BY <1>2 DEF AppendTerminalChunk, OneHandler, Senders, RelayTypes, TypeOK, Request
  <2>3. req[w].sess \in Sessions /\ typed[req[w].sess] \in Nat
    BY <1>2 DEF AppendTerminalChunk, RelayTypes, TypeOK, Addressed
  <2>4. \A i \in Inputs : cmds[i].seq \in 1 .. typed[cmds[i].sess]
    BY DEF Inputs, AuditInv, InputIsAudited
  <2>. QED BY <2>1, <2>2, <2>3, <2>4 DEF SentInOrder
<1>3. ASSUME NEW w \in Workers, QueueCommand(w)
      PROVE  SentInOrder'
  <2>1. PICK n \in Nat :
           /\ n \notin DOMAIN cmds /\ DOMAIN cmds' = DOMAIN cmds \cup {n}
           /\ \A i \in DOMAIN cmds : cmds'[i] = cmds[i] /\ i < n
           /\ cmds'[n].kind = req[w].at /\ cmds'[n].sess = req[w].sess
           /\ cmds'[n].seq = req[w].seq /\ cmds'[n].status = "queued"
    BY <1>3, RequestQueued
  <2>2. Senders' = {}
    BY <1>3 DEF QueueCommand, OneHandler, Senders, Resting, RelayTypes, TypeOK
  <2>3. Inputs' = Inputs \cup (IF w \in Senders THEN {n} ELSE {}) /\ \A i \in Inputs : cmds'[i] = cmds[i]
    BY <2>1 DEF Inputs, Senders
  <2>4. \A i \in Inputs : i < n /\ i \in Nat
    BY <1>0, <2>1 DEF Inputs
  <2>. QED BY <2>1, <2>2, <2>3, <2>4 DEF SentInOrder
<1>. QED BY <1>1, <1>2, <1>3, InputSteps

LEMMA SentInOrderHolds ==
  ASSUME OneHandler
  PROVE  Spec => [](AuditInv /\ SentInOrder)
<1>1. Init => AuditInv /\ SentInOrder
  <2>1. ASSUME Init
        PROVE  DOMAIN cmds = {} /\ Senders = {}
    BY <2>1 DEF Init, Senders, Resting
  <2>. QED BY <2>1 DEF AuditInv, InputIsAudited, SendersAudited, Inputs, SentInOrder
<1>2. RelayTypes /\ RelayTypes' /\ AuditInv /\ SentInOrder /\ [Next]_vars => (AuditInv /\ SentInOrder)'
  BY AuditStep, SentInOrderStep, StepTypes
<1>. QED BY <1>1, <1>2, TypesHold, PTL DEF Spec

(* A shell gets the input of such a renter in the order of the transcript, even
   if statements fail, answers are lost and the agent restarts: some of it may
   be missing then, none overtakes. *)
THEOREM InputReachesShellInOrder ==
  ASSUME OneAgent, OneHandler
  PROVE  Spec => []InputInOrder
<1>1. RelayTypes /\ SentInOrder /\ ExecutedOnceInOrder => InputInOrder
  <2>. SUFFICES ASSUME RelayTypes, SentInOrder, ExecutedOnceInOrder,
                       NEW i \in DOMAIN ran, NEW j \in DOMAIN ran, i < j,
                       cmds[ran[i].cmd].kind = "data", cmds[ran[j].cmd].kind = "data",
                       cmds[ran[i].cmd].sess = cmds[ran[j].cmd].sess
                PROVE  cmds[ran[i].cmd].seq < cmds[ran[j].cmd].seq
       BY DEF InputInOrder
  <2>1. ran[i].cmd \in Inputs /\ ran[j].cmd \in Inputs
    BY RanIsTyped DEF Inputs
  <2>2. ran[i].cmd < ran[j].cmd
    BY DEF ExecutedOnceInOrder
  <2>. QED BY <2>1, <2>2 DEF SentInOrder
<1>. QED BY <1>1, TypesHold, SentInOrderHolds, ExecutedInOrder, PTL

----------------------------------------------------------------------------
(* The first order for a session is to open it. *)

Serving(w, s) == req[w].at \notin {"idle", "insert", "control"} /\ req[w].sess = s

(* Nobody but the handler that creates it has heard of a session. *)
Silent(s) ==
  /\ s \notin idle /\ s \notin known
  /\ \A x \in Sweepers : s \notin sweep[x]
  /\ \A a \in Agents : s \notin shells[a]
  /\ \A i \in DOMAIN cmds : cmds[i].kind # "control" => cmds[i].sess # s

OpensFirst ==
  \A i, j \in DOMAIN cmds :
    /\ cmds[i].kind = "open" /\ cmds[j].kind \in {"open", "close"}
    /\ cmds[i].sess = cmds[j].sess
    => i <= j

Births ==
  /\ \A s \in Sessions : sess[s] = "none" => Silent(s) /\ \A w \in Workers : ~Serving(w, s)
  /\ \A w \in Workers, s \in Sessions : req[w].at = "open" /\ req[w].sess = s =>
       /\ sess[s] # "none" /\ Silent(s)
       /\ \A v \in Workers : Serving(v, s) => v = w
  /\ OpensFirst

LEMMA Positions ==
  ASSUME RelayTypes
  PROVE  DOMAIN cmds \subseteq Nat
BY LenProperties DEF RelayTypes, TypeOK

(* A handler takes up a request about a session somebody knows of, or none. *)
LEMMA BirthsAccept ==
  ASSUME RelayTypes, Births, NEW w \in Workers, NEW r, req' = [req EXCEPT ![w] = r],
         UNCHANGED <<cmds, known, sweep, shells>>, idle' \subseteq idle,
         \A s \in Sessions : sess'[s] = "none" <=> sess[s] = "none",
         r.at # "open",
         \/ r.at \in {"idle", "insert", "control"}
         \/ r.sess \in known
         \/ Serving(w, r.sess) /\ req[w].at # "open"
  PROVE  Births'
<1>1. OpensFirst'
  BY DEF Births, OpensFirst
<1>2. \A s \in Sessions : Silent(s) => Silent(s)'
  BY DEF Silent
<1>3. /\ \A v \in Workers \ {w} : req'[v] = req[v]
      /\ req'[w] = r
  BY DEF RelayTypes, TypeOK
<1>4. ASSUME NEW s \in Sessions, NEW v \in Workers, Serving(v, s)'
      PROVE  Serving(v, s) \/ (v = w /\ (s \in known \/ (Serving(w, s) /\ req[w].at # "open")))
  <2>1. CASE v # w
    BY <1>3, <1>4, <2>1 DEF Serving
  <2>2. CASE v = w
    <3>1. r.at \notin {"idle", "insert", "control"} /\ r.sess = s
      BY <1>3, <1>4, <2>2 DEF Serving
    <3>2. s \in known \/ (Serving(w, r.sess) /\ req[w].at # "open")
      BY <3>1
    <3>3. Serving(w, r.sess) => Serving(w, s)
      BY <3>1 DEF Serving
    <3>. QED BY <2>2, <3>2, <3>3
  <2>. QED BY <2>1, <2>2
<1>5. \A s \in Sessions : sess'[s] = "none" => Silent(s)' /\ \A v \in Workers : ~Serving(v, s)'
  BY <1>2, <1>4 DEF Births, Silent
<1>6. ASSUME NEW v \in Workers, NEW s \in Sessions, req'[v].at = "open", req'[v].sess = s
      PROVE  sess'[s] # "none" /\ Silent(s)' /\ \A u \in Workers : Serving(u, s)' => u = v
  <2>1. v # w /\ req[v].at = "open" /\ req[v].sess = s
    BY <1>3, <1>6
  <2>2. sess[s] # "none" /\ Silent(s) /\ \A u \in Workers : Serving(u, s) => u = v
    BY <2>1 DEF Births
  <2>. QED BY <1>2, <1>4, <2>1, <2>2 DEF Silent
<1>. QED BY <1>1, <1>5, <1>6 DEF Births

LEMMA BirthsInsert ==
  ASSUME RelayTypes, Births, NEW w \in Workers, InsertSession(w)
  PROVE  Births'
<1>1. PICK s \in Sessions :
        /\ req[w].at = "insert" /\ sess[s] = "none" /\ sess' = [sess EXCEPT ![s] = "queued"]
        /\ req' = [req EXCEPT ![w].at = "open", ![w].sess = s]
        /\ UNCHANGED <<idle, cmds, known, sweep, shells>>
  BY DEF InsertSession, Agency
<1>2. req'[w].at = "open" /\ req'[w].sess = s /\ \A v \in Workers \ {w} : req'[v] = req[v]
  BY <1>1 DEF RelayTypes, TypeOK, Request
<1>3. sess'[s] = "queued" /\ \A t \in Sessions \ {s} : sess'[t] = sess[t]
  BY <1>1 DEF RelayTypes, TypeOK
<1>4. OpensFirst' /\ \A t \in Sessions : Silent(t)' <=> Silent(t)
  BY <1>1 DEF Births, OpensFirst, Silent
<1>5. Silent(s) /\ \A v \in Workers : ~Serving(v, s)
  BY <1>1 DEF Births
<1>6. \A t \in Sessions, v \in Workers : Serving(v, t)' <=> IF v = w THEN t = s ELSE Serving(v, t)
  BY <1>2 DEF Serving
<1>7. ~\E t \in Sessions : Serving(w, t)
  BY <1>1 DEF Serving
<1>8. \A v \in Workers \ {w} : ~(req[v].at = "open" /\ req[v].sess = s)
  BY <1>5 DEF Serving
<1>. QED BY <1>2, <1>3, <1>4, <1>5, <1>6, <1>7, <1>8 DEF Births

LEMMA BirthsQueue ==
  ASSUME RelayTypes, Births, NEW w \in Workers, QueueCommand(w)
  PROVE  Births'
<1>1. PICK n \in Nat :
         /\ n \notin DOMAIN cmds /\ DOMAIN cmds' = DOMAIN cmds \cup {n}
         /\ \A i \in DOMAIN cmds : cmds'[i] = cmds[i] /\ i < n
         /\ cmds'[n].kind = req[w].at /\ cmds'[n].sess = req[w].sess
         /\ cmds'[n].seq = req[w].seq /\ cmds'[n].status = "queued"
  BY RequestQueued
<1>2. /\ UNCHANGED <<sess, idle, sweep, shells>> /\ req[w].at \in Kinds
      /\ req' = [req EXCEPT ![w] = Resting]
      /\ known' \subseteq known \cup (IF req[w].at = "open" THEN {req[w].sess} ELSE {})
  BY DEF QueueCommand, Agency
<1>3. req'[w].at = "idle" /\ \A v \in Workers \ {w} : req'[v] = req[v]
  BY <1>2 DEF RelayTypes, TypeOK, Resting
<1>4. \A s \in Sessions, v \in Workers : Serving(v, s)' => v # w /\ Serving(v, s)
  BY <1>3 DEF Serving
<1>5. \A s \in Sessions : Silent(s) /\ ~Serving(w, s) => Silent(s)'
  BY <1>1, <1>2 DEF Silent, Serving, Kinds
<1>6. OpensFirst'
  <2>1. req[w].at = "open" => \A i \in DOMAIN cmds : cmds[i].kind # "control" => cmds[i].sess # req[w].sess
    BY DEF Births, Silent, RelayTypes, Addressed
  <2>2. \A i \in DOMAIN cmds : i <= n
    BY <1>1, Positions
  <2>. QED BY <1>1, <2>1, <2>2 DEF Births, OpensFirst
<1>7. \A s \in Sessions : sess'[s] = "none" => Silent(s)' /\ \A v \in Workers : ~Serving(v, s)'
  BY <1>2, <1>4, <1>5 DEF Births
<1>8. ASSUME NEW v \in Workers, NEW s \in Sessions, req'[v].at = "open", req'[v].sess = s
      PROVE  sess'[s] # "none" /\ Silent(s)' /\ \A u \in Workers : Serving(u, s)' => u = v
  <2>1. v # w /\ req[v].at = "open" /\ req[v].sess = s
    BY <1>3, <1>8
  <2>2. sess[s] # "none" /\ Silent(s) /\ \A u \in Workers : Serving(u, s) => u = v
    BY <2>1 DEF Births
  <2>. QED BY <1>2, <1>4, <1>5, <2>1, <2>2
<1>. QED BY <1>6, <1>7, <1>8 DEF Births

(* A step that changes no request and lets only sessions be heard of that
   somebody knew, or that no handler serves. *)
LEMMA BirthsQuiet ==
  ASSUME RelayTypes, Births, Kept, UNCHANGED req,
         \A s \in Sessions : sess'[s] = "none" <=> sess[s] = "none",
         \A s \in Sessions : Silent(s) =>
           Silent(s)' \/ (sess[s] # "none" /\ \A w \in Workers : req[w].at = "open" => req[w].sess # s),
         \A j \in DOMAIN cmds' \ DOMAIN cmds : cmds'[j].kind # "open"
  PROVE  Births'
<1>1. OpensFirst'
  <2>. SUFFICES ASSUME NEW i \in DOMAIN cmds', NEW j \in DOMAIN cmds',
                       cmds'[i].kind = "open", cmds'[j].kind \in {"open", "close"},
                       cmds'[i].sess = cmds'[j].sess
                PROVE  i <= j
       BY DEF OpensFirst
  <2>1. i \in DOMAIN cmds
    OBVIOUS
  <2>2. CASE j \in DOMAIN cmds
    BY <2>1, <2>2 DEF Births, OpensFirst, Kept
  <2>3. CASE j \notin DOMAIN cmds
    <3>1. i < j /\ i \in Nat /\ j \in Nat
      BY <2>1, <2>3, NewAreLast
    <3>. QED BY <3>1
  <2>. QED BY <2>2, <2>3
<1>2. \A s \in Sessions, w \in Workers : Serving(w, s)' <=> Serving(w, s)
  BY DEF Serving
<1>. QED BY <1>1, <1>2 DEF Births

LEMMA BirthsStep ==
  ASSUME RelayTypes, Births, [Next]_vars
  PROVE  Births'
<1>0. Kept
  BY StepTypes
<1>1. ASSUME NEW w \in Workers, Arrive(w)
      PROVE  Births'
  <2>1. /\ UNCHANGED <<cmds, known, sweep, shells>> /\ idle' \subseteq idle
        /\ \A s \in Sessions : sess'[s] = "none" <=> sess[s] = "none"
    <3>1. ASSUME NEW s \in known, SetSession(s, "closed")
          PROVE  idle' \subseteq idle /\ \A t \in Sessions : sess'[t] = "none" <=> sess[t] = "none"
      BY <3>1 DEF SetSession, Births, Silent, RelayTypes, TypeOK
    <3>2. CASE CloseTerminalSession(w)
      BY <3>1, <3>2 DEF CloseTerminalSession, Agency
    <3>. QED BY <1>1, <3>2 DEF Arrive, Agency, BeginCreate, BeginInput, QueueAgentCommand,
                              ResizeTerminalSession
  <2>2. PICK label, s : /\ Accept(w, label, s)
                        /\ \/ label \in {"insert", "control"}
                           \/ label \in {"append", "resize", "close"} /\ s \in known
    BY <1>1 DEF Arrive, BeginCreate, BeginInput, QueueAgentCommand, ResizeTerminalSession,
                CloseTerminalSession
  <2>3. PICK r : r = [at |-> label, sess |-> s, seq |-> 0]
    OBVIOUS
  <2>4. req' = [req EXCEPT ![w] = r] /\ r.at = label /\ r.sess = s
    BY <2>2, <2>3 DEF Accept
  <2>. QED BY <2>1, <2>2, <2>4, BirthsAccept
<1>2. ASSUME NEW w \in Workers, AppendTerminalChunk(w)
      PROVE  Births'
  <2>1. PICK r : r = [req[w] EXCEPT !.at = "data", !.seq = typed[req[w].sess] + 1]
    OBVIOUS
  <2>2. r.at = "data" /\ r.sess = req[w].sess /\ req' = [req EXCEPT ![w] = r]
    BY <1>2, <2>1 DEF AppendTerminalChunk, RelayTypes, TypeOK, Request
  <2>3. Serving(w, r.sess) /\ req[w].at # "open"
    BY <1>2, <2>2 DEF AppendTerminalChunk, Serving
  <2>4. UNCHANGED <<sess, cmds, known, sweep, shells>> /\ idle' \subseteq idle
    BY <1>2 DEF AppendTerminalChunk, Agency
  <2>. QED BY <2>2, <2>3, <2>4, BirthsAccept
<1>3. ASSUME NEW w \in Workers, Abandon(w)
      PROVE  Births'
  <2>1. /\ req' = [req EXCEPT ![w] = Resting] /\ Resting.at = "idle"
        /\ UNCHANGED <<sess, idle, cmds, known, sweep, shells>>
    BY <1>3 DEF Abandon, Agency, Resting
  <2>. QED BY <2>1, BirthsAccept
<1>4. ASSUME NEW s \in Sessions, GoesIdle(s)
      PROVE  Births'
  <2>1. /\ sess[s] # "none" /\ ~Busy(s) /\ idle' = idle \cup {s}
        /\ UNCHANGED <<sess, cmds, req, known, sweep, shells>>
    BY <1>4 DEF GoesIdle, Agency
  <2>2. \A t \in Sessions : Silent(t) =>
           Silent(t)' \/ (sess[t] # "none" /\ \A w \in Workers : req[w].at = "open" => req[w].sess # t)
    BY <2>1 DEF Silent, Busy
  <2>. QED BY <1>0, <2>1, <2>2, BirthsQuiet
<1>5. ASSUME NEW x \in Sweepers, ExpireIdleTerminalSessions(x)
      PROVE  Births'
  <2>1. /\ sess' = [s \in Sessions |-> IF s \in Active \cap idle THEN "expired" ELSE sess[s]]
        /\ sweep' = [sweep EXCEPT ![x] = Active \cap idle]
        /\ UNCHANGED <<idle, cmds, req, known, shells>>
    BY <1>5 DEF ExpireIdleTerminalSessions
  <2>2. \A s \in Sessions : sess'[s] = "none" <=> sess[s] = "none"
    BY <2>1 DEF Active
  <2>3. \A s \in Sessions : Silent(s) => Silent(s)'
    BY <2>1 DEF Silent, RelayTypes, TypeOK
  <2>. QED BY <1>0, <2>1, <2>2, <2>3, BirthsQuiet
<1>6. ASSUME NEW x \in Sweepers, QueueExpiryClose(x)
      PROVE  Births'
  <2>1. PICK s \in sweep[x] : /\ Enqueue("close", s, 0) \/ UNCHANGED cmds
                              /\ sweep' = [sweep EXCEPT ![x] = @ \ {s}]
                              /\ UNCHANGED <<sess, idle, req, known, shells>>
    BY <1>6 DEF QueueExpiryClose
  <2>2. s \in Sessions /\ s \in Sessions \cup {NoSession} /\ "close" \in Kinds /\ 0 \in Nat
    BY DEF Kinds, RelayTypes, TypeOK
  <2>3. \A j \in DOMAIN cmds' \ DOMAIN cmds : cmds'[j].kind = "close" /\ cmds'[j].sess = s
    BY <2>1, <2>2, EnqueuedOne
  <2>4. \A t \in Sessions : Silent(t) => Silent(t)'
    <3>1. \A t \in Sessions : Silent(t) => t # s
      BY <2>1 DEF Silent
    <3>2. \A y \in Sweepers : sweep'[y] \subseteq sweep[y]
      BY <2>1 DEF RelayTypes, TypeOK
    <3>. QED BY <1>0, <2>1, <2>3, <3>1, <3>2 DEF Silent, Kept
  <2>. QED BY <1>0, <2>1, <2>3, <2>4, BirthsQuiet
<1>7. ASSUME NEW a \in Agents, Turns(a) \/ CallLost(a) \/ Crash(a) \/ RecordTerminalOutput(a)
      PROVE  Births'
  <2>1. UNCHANGED <<req, known, sweep>> /\ idle' \subseteq idle
    BY <1>7 DEF Turns, PollAgentCommand, ClaimNextAgentCommand, Open, Deliver, Close, Relay, SetSession,
                CompleteAgentCommand, UpdateSession, CallLost, Crash, RecordTerminalOutput
  <2>2. DOMAIN cmds' = DOMAIN cmds
    <3>1. UNCHANGED cmds \/ \E i, status : SetStatus(i, status)
      BY <1>7 DEF Turns, PollAgentCommand, ClaimNextAgentCommand, Open, Deliver, Close,
                  CompleteAgentCommand, UpdateSession, CallLost, Crash, RecordTerminalOutput
    <3>. QED BY <3>1 DEF SetStatus
  <2>3. \A s \in Sessions : sess'[s] = "none" <=> sess[s] = "none"
    <3>1. CASE UNCHANGED sess
      BY <3>1
    <3>2. CASE UpdateSession(a) /\ ~UNCHANGED sess
      <4>1. PICK status \in {"open", "closed"} : SetSession(Now(a).sess, status)
        BY <3>2 DEF UpdateSession
      <4>2. agent[a].at # "idle" /\ Now(a).kind # "control"
        BY <3>2 DEF UpdateSession
      <4>3. agent[a].cmd \in DOMAIN cmds /\ Now(a).sess \in Sessions
        BY <4>2, NowIsTyped
      <4>4. sess[Now(a).sess] # "none"
        BY <4>2, <4>3 DEF Births, Silent, Now
      <4>. QED BY <4>1, <4>3, <4>4 DEF SetSession, RelayTypes, TypeOK
    <3>. QED BY <1>7, <3>1, <3>2 DEF Turns, PollAgentCommand, ClaimNextAgentCommand, Open, Deliver, Close,
                CompleteAgentCommand, CallLost, Crash, RecordTerminalOutput
  <2>4. \A s \in Sessions : Silent(s) => \A b \in Agents : s \notin shells'[b]
    <3>1. CASE Open(a)
      <4>1. agent[a].at # "idle" /\ Now(a).kind # "control"
            /\ (UNCHANGED shells \/ shells' = [shells EXCEPT ![a] = @ \cup {Now(a).sess}])
        BY <3>1 DEF Open
      <4>2. agent[a].cmd \in DOMAIN cmds
        BY <4>1, NowIsTyped
      <4>3. \A s \in Sessions : Silent(s) => Now(a).sess # s
        BY <4>1, <4>2 DEF Silent, Now
      <4>4. shells \in [Agents -> SUBSET Sessions]
        BY DEF RelayTypes, TypeOK
      <4>5. \A b \in Agents : shells'[b] \subseteq shells[b] \cup {Now(a).sess}
        BY <4>1, <4>4
      <4>. QED BY <4>3, <4>5 DEF Silent
    <3>2. CASE \/ UNCHANGED shells
               \/ shells' = [shells EXCEPT ![a] = {}]
               \/ \E s : shells' = [shells EXCEPT ![a] = @ \ {s}]
      BY <3>2 DEF Silent, RelayTypes, TypeOK
    <3>. QED BY <1>7, <3>1, <3>2 DEF Turns, PollAgentCommand, ClaimNextAgentCommand, Deliver, Close,
                CompleteAgentCommand, UpdateSession, CallLost, Crash, RecordTerminalOutput
  <2>5. \A s \in Sessions : Silent(s) => Silent(s)'
    BY <1>0, <2>1, <2>2, <2>4 DEF Silent, Kept
  <2>. QED BY <1>0, <2>1, <2>2, <2>3, <2>5, BirthsQuiet
<1>8. CASE UNCHANGED vars
  <2>1. \A s \in Sessions : Silent(s) => Silent(s)'
    BY <1>8 DEF vars, Silent
  <2>. QED BY <1>0, <1>8, <2>1, BirthsQuiet DEF vars
<1>9. CASE Next
  BY <1>1, <1>2, <1>3, <1>4, <1>5, <1>6, <1>7, <1>9, BirthsInsert, BirthsQueue DEF Next, Serve, Expire
<1>. QED BY <1>8, <1>9

LEMMA InitBirths ==
  ASSUME Init
  PROVE  Births
<1>1. DOMAIN cmds = {}
  BY DEF Init
<1>. QED BY <1>1 DEF Init, Births, Silent, Serving, OpensFirst, Resting

----------------------------------------------------------------------------
(* No shell is forgotten, unless a statement or a call fails: the order to *)
(* close it would be lost then.  Shells may fail, and agents restart.      *)

NothingLost == Faults \cap {"storage", "lost"} = {}

(* A command that has yet to be executed. *)
Underway(i) ==
  \/ cmds[i].status = "queued"
  \/ \E a \in Agents : agent[a].at \in {"claim", "run"} /\ agent[a].cmd = i

Ordered(kind, s) == \E i \in DOMAIN cmds : cmds[i].kind = kind /\ cmds[i].sess = s /\ Underway(i)

ToOpen(s) == Ordered("open", s) \/ \E w \in Workers : req[w].at = "open" /\ req[w].sess = s

ToClose(s) ==
  \/ Ordered("close", s)
  \/ \E w \in Workers : req[w].at = "close" /\ req[w].sess = s
  \/ \E x \in Sweepers : s \in sweep[x]

(* A session that is over will be closed on the host, or never opened again. *)
OverIsClosed ==
  \A s \in Sessions : sess[s] \in Over =>
    ToClose(s) \/ (~ToOpen(s) /\ \A a \in Agents : s \notin shells[a])

(* ... which is reported after its shell has gone. *)
ClosedIsGone ==
  \A a \in Agents : agent[a].at \in {"report", "session"} /\ Now(a).kind = "close" =>
    \A b \in Agents : Now(a).sess \notin shells[b]

ShellInv == OverIsClosed /\ ClosedIsGone

(* Whatever an agent closes has been opened before. *)
LEMMA OpenedBefore ==
  ASSUME OneAgent, RelayTypes, InTurn, Births,
         NEW a \in Agents, agent[a].at # "idle", Now(a).kind = "close"
  PROVE  ~ToOpen(Now(a).sess)
<1>. DEFINE s == Now(a).sess
<1>1. agent[a].cmd \in DOMAIN cmds /\ s \in Sessions
  BY NowIsTyped
<1>2. cmds[agent[a].cmd].kind = "close" /\ cmds[agent[a].cmd].sess = s
  BY DEF Now
<1>. HIDE DEF s
<1>3. \A w \in Workers : ~(req[w].at = "open" /\ req[w].sess = s)
  BY <1>1, <1>2 DEF Births, Silent
<1>4. ASSUME NEW i \in DOMAIN cmds, cmds[i].kind = "open", cmds[i].sess = s
      PROVE  ~Underway(i)
  <2>1. i <= agent[a].cmd /\ i # agent[a].cmd
    BY <1>1, <1>2, <1>4 DEF Births, OpensFirst
  <2>2. i \in Nat /\ agent[a].cmd \in Nat
    BY <1>1, Positions
  <2>3. i \in Queued => agent[a].cmd <= i
    BY DEF InTurn
  <2>4. cmds[i].status # "queued"
    BY <2>1, <2>2, <2>3 DEF Queued
  <2>5. \A b \in Agents : agent[b].cmd # i
    BY <2>1 DEF OneAgent
  <2>. QED BY <2>4, <2>5 DEF Underway
<1>5. ~ToOpen(s)
  BY <1>3, <1>4 DEF ToOpen, Ordered
<1>. QED BY <1>5 DEF s

(* A step that ends no session, keeps the orders to close, adds none to open
   and opens no shell. *)
LEMMA ShellQuiet ==
  ASSUME RelayTypes, Kept, ShellInv,
         \A s \in Sessions : sess'[s] \in Over =>
           /\ sess[s] \in Over
           /\ ToClose(s) => ToClose(s)'
           /\ ToOpen(s)' => ToOpen(s),
         \A b \in Agents : shells'[b] \subseteq shells[b],
         \A b \in Agents : agent'[b].at \in {"report", "session"} =>
           \/ agent[b].at \in {"report", "session"} /\ agent'[b].cmd = agent[b].cmd
           \/ Now(b)'.kind # "close"
  PROVE  ShellInv'
<1>1. OverIsClosed'
  BY DEF ShellInv, OverIsClosed
<1>2. ClosedIsGone'
  <2>. SUFFICES ASSUME NEW b \in Agents, agent'[b].at \in {"report", "session"}, Now(b)'.kind = "close",
                       NEW c \in Agents
                PROVE  Now(b)'.sess \notin shells'[c]
       BY DEF ClosedIsGone
  <2>1. agent[b].at \in {"report", "session"} /\ agent'[b].cmd = agent[b].cmd
    OBVIOUS
  <2>2. agent[b].cmd \in DOMAIN cmds
    BY <2>1 DEF RelayTypes, TypeOK
  <2>3. Now(b)'.kind = Now(b).kind /\ Now(b)'.sess = Now(b).sess
    BY <2>1, <2>2 DEF Kept, Now
  <2>. QED BY <2>1, <2>3 DEF ShellInv, ClosedIsGone
<1>. QED BY <1>1, <1>2 DEF ShellInv

(* Requests come and go beside the agents. *)
LEMMA ShellRequests ==
  ASSUME RelayTypes, Kept, ShellInv, UNCHANGED <<agent, shells>>,
         \A i \in DOMAIN cmds : cmds'[i] = cmds[i],
         \A s \in Sessions : sess'[s] \in Over =>
           /\ sess[s] \in Over
           /\ \A w \in Workers : req[w].at = "close" /\ req[w].sess = s => ToClose(s)'
           /\ \A x \in Sweepers : s \in sweep[x] => ToClose(s)'
           /\ \A w \in Workers : req'[w].at = "open" /\ req'[w].sess = s => req[w] = req'[w]
           /\ \A i \in DOMAIN cmds' \ DOMAIN cmds : cmds'[i].kind = "open" /\ cmds'[i].sess = s => ToOpen(s)
  PROVE  ShellInv'
<1>1. DOMAIN cmds \subseteq DOMAIN cmds'
  BY DEF Kept
<1>2. \A i \in DOMAIN cmds : Underway(i)' <=> Underway(i)
  BY DEF Underway
<1>3. \A s \in Sessions : Ordered("close", s) => ToClose(s)'
  BY <1>1, <1>2 DEF Ordered, ToClose
<1>4. \A s \in Sessions : sess'[s] \in Over => (ToClose(s) => ToClose(s)')
  BY <1>3 DEF ToClose
<1>5. \A s \in Sessions : sess'[s] \in Over => (ToOpen(s)' => ToOpen(s))
  BY <1>2 DEF Ordered, ToOpen
<1>. QED BY <1>4, <1>5, ShellQuiet

LEMMA ShellArrive ==
  ASSUME RelayTypes, Kept, ShellInv, NEW w \in Workers, Arrive(w)
  PROVE  ShellInv'
<1>1. UNCHANGED <<cmds, sweep, agent, shells>>
  BY DEF Arrive, Agency, BeginCreate, BeginInput, QueueAgentCommand, ResizeTerminalSession,
         CloseTerminalSession
<1>2. PICK label, s : /\ Accept(w, label, s)
                      /\ label \in {"insert", "control", "append", "resize", "close"}
                      /\ \/ UNCHANGED sess
                         \/ label = "close" /\ s \in Sessions /\ sess' = [sess EXCEPT ![s] = "closed"]
  BY DEF Arrive, BeginCreate, BeginInput, QueueAgentCommand, ResizeTerminalSession,
         CloseTerminalSession, SetSession, RelayTypes, TypeOK
<1>3. /\ req[w].at = "idle" /\ req'[w] = [at |-> label, sess |-> s, seq |-> 0]
      /\ \A v \in Workers \ {w} : req'[v] = req[v]
  BY <1>2 DEF Accept, RelayTypes, TypeOK
<1>4. \A i \in DOMAIN cmds : Underway(i)' <=> Underway(i)
  BY <1>1 DEF Underway
<1>5. \A t \in Sessions : ToClose(t) => ToClose(t)'
  BY <1>1, <1>3, <1>4 DEF ToClose, Ordered
<1>6. \A t \in Sessions : ToOpen(t)' => ToOpen(t)
  BY <1>1, <1>2, <1>3, <1>4 DEF ToOpen, Ordered
<1>7. CASE UNCHANGED sess
  BY <1>1, <1>5, <1>6, <1>7, ShellQuiet
<1>8. CASE label = "close" /\ s \in Sessions /\ sess' = [sess EXCEPT ![s] = "closed"]
  <2>1. ToClose(s)'
    BY <1>3, <1>8 DEF ToClose
  <2>2. \A t \in Sessions : sess'[t] \in Over => t = s \/ sess[t] \in Over
    BY <1>8 DEF RelayTypes, TypeOK
  <2>3. OverIsClosed'
    BY <1>1, <1>5, <1>6, <2>1, <2>2 DEF ShellInv, OverIsClosed
  <2>4. ClosedIsGone'
    BY <1>1 DEF ShellInv, ClosedIsGone, Now
  <2>. QED BY <2>3, <2>4 DEF ShellInv
<1>. QED BY <1>2, <1>7, <1>8

LEMMA ShellServe ==
  ASSUME RelayTypes, Kept, ShellInv, NEW w \in Workers, Serve(w)
  PROVE  ShellInv'
<1>1. CASE InsertSession(w)
  <2>1. PICK s \in Sessions :
          /\ req[w].at = "insert" /\ sess' = [sess EXCEPT ![s] = "queued"]
          /\ req' = [req EXCEPT ![w].at = "open", ![w].sess = s]
          /\ UNCHANGED <<cmds, sweep, agent, shells>>
    BY <1>1 DEF InsertSession, Agency
  <2>2. req'[w].at = "open" /\ req'[w].sess = s /\ \A v \in Workers \ {w} : req'[v] = req[v]
    BY <2>1 DEF RelayTypes, TypeOK, Request
  <2>3. \A t \in Sessions : sess'[t] \in Over => t # s /\ sess[t] \in Over
    BY <2>1 DEF RelayTypes, TypeOK, Over
  <2>4. \A t \in Sessions : (\E x \in Sweepers : t \in sweep[x]) => ToClose(t)'
    BY <2>1 DEF ToClose
  <2>5. \A t \in Sessions, v \in Workers : req[v].at = "close" /\ req[v].sess = t => ToClose(t)'
    BY <2>1, <2>2 DEF ToClose
  <2>. QED BY <2>1, <2>2, <2>3, <2>4, <2>5, ShellRequests
<1>2. CASE AppendTerminalChunk(w)
  <2>1. req[w].at = "append" /\ UNCHANGED <<sess, cmds, sweep, agent, shells>>
    BY <1>2 DEF AppendTerminalChunk, Agency
  <2>2. req'[w].at = "data" /\ \A v \in Workers \ {w} : req'[v] = req[v]
    BY <1>2 DEF AppendTerminalChunk, RelayTypes, TypeOK, Request
  <2>3. \A t \in Sessions : (\E x \in Sweepers : t \in sweep[x]) => ToClose(t)'
    BY <2>1 DEF ToClose
  <2>4. \A t \in Sessions, v \in Workers : req[v].at = "close" /\ req[v].sess = t => ToClose(t)'
    BY <2>1, <2>2 DEF ToClose
  <2>. QED BY <2>1, <2>2, <2>3, <2>4, ShellRequests
<1>3. CASE QueueCommand(w)
  <2>1. PICK n \in Nat :
           /\ n \notin DOMAIN cmds /\ DOMAIN cmds' = DOMAIN cmds \cup {n}
           /\ \A i \in DOMAIN cmds : cmds'[i] = cmds[i] /\ i < n
           /\ cmds'[n].kind = req[w].at /\ cmds'[n].sess = req[w].sess
           /\ cmds'[n].seq = req[w].seq /\ cmds'[n].status = "queued"
    BY <1>3, RequestQueued
  <2>2. UNCHANGED <<sess, sweep, agent, shells>> /\ req' = [req EXCEPT ![w] = Resting]
    BY <1>3 DEF QueueCommand, Agency
  <2>3. req'[w].at = "idle" /\ \A v \in Workers \ {w} : req'[v] = req[v]
    BY <2>2 DEF RelayTypes, TypeOK, Resting
  <2>4. \A t \in Sessions : (\E x \in Sweepers : t \in sweep[x]) => ToClose(t)'
    BY <2>2 DEF ToClose
  <2>5. Underway(n)'
    BY <2>1 DEF Underway
  <2>6. \A t \in Sessions, v \in Workers : req[v].at = "close" /\ req[v].sess = t => ToClose(t)'
    BY <2>1, <2>3, <2>5 DEF ToClose, Ordered
  <2>7. \A t \in Sessions : cmds'[n].kind = "open" /\ cmds'[n].sess = t => ToOpen(t)
    BY <2>1 DEF ToOpen
  <2>. QED BY <2>1, <2>2, <2>3, <2>4, <2>6, <2>7, ShellRequests
<1>. QED BY <1>1, <1>2, <1>3 DEF Serve

LEMMA ShellExpire ==
  ASSUME NothingLost, RelayTypes, Kept, ShellInv, NEW x \in Sweepers, Expire(x)
  PROVE  ShellInv'
<1>1. CASE ExpireIdleTerminalSessions(x)
  <2>1. /\ sweep[x] = {} /\ sweep' = [sweep EXCEPT ![x] = Active \cap idle]
        /\ sess' = [s \in Sessions |-> IF s \in Active \cap idle THEN "expired" ELSE sess[s]]
        /\ UNCHANGED <<cmds, req, agent, shells>>
    BY <1>1 DEF ExpireIdleTerminalSessions
  <2>2. sweep'[x] = Active \cap idle /\ \A y \in Sweepers \ {x} : sweep'[y] = sweep[y]
    BY <2>1 DEF RelayTypes, TypeOK
  <2>3. \A i \in DOMAIN cmds : Underway(i)' <=> Underway(i)
    BY <2>1 DEF Underway
  <2>4. \A t \in Sessions : ToClose(t) => ToClose(t)'
    BY <2>1, <2>2, <2>3 DEF ToClose, Ordered
  <2>5. \A t \in Sessions : ToOpen(t)' => ToOpen(t)
    BY <2>1, <2>3 DEF ToOpen, Ordered
  <2>6. \A t \in Sessions : sess'[t] \in Over => sess[t] \in Over \/ ToClose(t)'
    BY <2>1, <2>2 DEF ToClose
  <2>7. OverIsClosed'
    BY <2>1, <2>4, <2>5, <2>6 DEF ShellInv, OverIsClosed
  <2>8. ClosedIsGone'
    BY <2>1 DEF ShellInv, ClosedIsGone, Now
  <2>. QED BY <2>7, <2>8 DEF ShellInv
<1>2. CASE QueueExpiryClose(x)
  <2>1. PICK s \in sweep[x] : /\ Enqueue("close", s, 0)
                              /\ sweep' = [sweep EXCEPT ![x] = @ \ {s}]
                              /\ UNCHANGED <<sess, req, agent, shells>>
    BY <1>2 DEF QueueExpiryClose, NothingLost
  <2>2. s \in Sessions /\ s \in Sessions \cup {NoSession} /\ "close" \in Kinds /\ 0 \in Nat
    BY DEF Kinds, RelayTypes, TypeOK
  <2>3. cmds \in Seq(Command) /\ Len(cmds) \in Nat /\ DOMAIN cmds = 1 .. Len(cmds)
    BY LenProperties DEF RelayTypes, TypeOK
  <2>. DEFINE n == Len(cmds) + 1
  <2>4. /\ DOMAIN cmds' = DOMAIN cmds \cup {n} /\ \A i \in DOMAIN cmds : cmds'[i] = cmds[i]
        /\ cmds'[n] = [kind |-> "close", sess |-> s, seq |-> 0, status |-> "queued"]
    BY <2>1, <2>2, <2>3, Enqueued
  <2>5. ToClose(s)'
    <3>1. cmds'[n].kind = "close" /\ cmds'[n].sess = s /\ cmds'[n].status = "queued" /\ n \in DOMAIN cmds'
      BY <2>4
    <3>. HIDE DEF n
    <3>. QED BY <3>1 DEF ToClose, Ordered, Underway
  <2>6. cmds'[n].kind = "close"
    BY <2>4
  <2>. HIDE DEF n
  <2>7. \A t \in Sessions : (\E y \in Sweepers : t \in sweep[y]) => ToClose(t)'
    <3>1. \A t \in Sessions : t # s => \A y \in Sweepers : t \in sweep[y] => t \in sweep'[y]
      BY <2>1 DEF RelayTypes, TypeOK
    <3>. QED BY <2>5, <3>1 DEF ToClose
  <2>8. \A t \in Sessions, v \in Workers : req[v].at = "close" /\ req[v].sess = t => ToClose(t)'
    BY <2>1 DEF ToClose
  <2>. QED BY <2>1, <2>4, <2>6, <2>7, <2>8, ShellRequests
<1>. QED BY <1>1, <1>2 DEF Expire

(* An agent takes a command, or reports one, that has been executed or not. *)
LEMMA ShellPoll ==
  ASSUME OneAgent, RelayTypes, Kept, InTurn, ShellInv, NEW a \in Agents,
         PollAgentCommand(a) \/ ClaimNextAgentCommand(a) \/ CompleteAgentCommand(a)
  PROVE  ShellInv'
<1>1. UNCHANGED <<sess, req, sweep, shells>>
  BY DEF PollAgentCommand, ClaimNextAgentCommand, CompleteAgentCommand, Relay
<1>2. DOMAIN cmds' = DOMAIN cmds /\ \A i \in DOMAIN cmds : Underway(i)' <=> Underway(i)
  <2>1. CASE PollAgentCommand(a)
    <3>1. PICK i \in Queued : /\ agent[a].at = "idle" /\ UNCHANGED cmds
                              /\ agent' = [agent EXCEPT ![a] = [at |-> "claim", cmd |-> i, ok |-> FALSE]]
      BY <2>1 DEF PollAgentCommand
    <3>2. \A b \in Agents : b = a /\ agent[b].at = "idle" /\ agent'[b].at = "claim" /\ agent'[b].cmd = i
      BY <3>1 DEF OneAgent, RelayTypes, TypeOK
    <3>. QED BY <3>1, <3>2 DEF Underway, Queued
  <2>2. CASE ClaimNextAgentCommand(a)
    <3>1. agent[a].at = "claim" /\ SetStatus(agent[a].cmd, "running")
          /\ agent' = [agent EXCEPT ![a].at = "run"]
      BY <2>2 DEF ClaimNextAgentCommand
    <3>2. \A b \in Agents : b = a /\ agent'[b].at = "run" /\ agent'[b].cmd = agent[a].cmd
      BY <3>1 DEF OneAgent, RelayTypes, TypeOK, Turn
    <3>3. cmds \in Seq(Command) /\ agent[a].cmd \in DOMAIN cmds
      BY <3>1 DEF RelayTypes, TypeOK
    <3>4. DOMAIN cmds' = DOMAIN cmds /\ \A j \in DOMAIN cmds \ {agent[a].cmd} : cmds'[j] = cmds[j]
      BY <3>1, <3>3, Marked
    <3>. QED BY <3>1, <3>2, <3>3, <3>4 DEF Underway, OneAgent
  <2>3. CASE CompleteAgentCommand(a)
    <3>1. /\ agent[a].at = "report"
          /\ UNCHANGED cmds \/ \E status \in {"succeeded", "failed"} : SetStatus(agent[a].cmd, status)
          /\ agent' = [agent EXCEPT ![a].at = "session"] \/ agent' = [agent EXCEPT ![a] = Polling]
      BY <2>3 DEF CompleteAgentCommand
    <3>2. \A b \in Agents : b = a /\ agent'[b].at \in {"session", "idle"}
      BY <3>1 DEF OneAgent, RelayTypes, TypeOK, Turn, Polling
    <3>3. cmds \in Seq(Command) /\ agent[a].cmd \in DOMAIN cmds
      BY <3>1 DEF RelayTypes, TypeOK
    <3>4. cmds[agent[a].cmd].status # "queued"
      BY <3>1, <3>3 DEF InTurn, Queued
    <3>5. /\ DOMAIN cmds' = DOMAIN cmds /\ \A j \in DOMAIN cmds \ {agent[a].cmd} : cmds'[j] = cmds[j]
          /\ cmds'[agent[a].cmd].status # "queued"
      BY <3>1, <3>3, <3>4, Marked DEF Kept
    <3>. QED BY <3>1, <3>2, <3>3, <3>4, <3>5 DEF Underway, OneAgent
  <2>. QED BY <2>1, <2>2, <2>3
<1>3. \A kind \in {"open", "close"}, s \in Sessions : Ordered(kind, s)' <=> Ordered(kind, s)
  BY <1>2 DEF Ordered, Kept
<1>4. \A s \in Sessions : (ToClose(s)' <=> ToClose(s)) /\ (ToOpen(s)' <=> ToOpen(s))
  BY <1>1, <1>3 DEF ToClose, ToOpen
<1>5. \A b \in Agents : agent'[b].at \in {"report", "session"} =>
         agent[b].at \in {"report", "session"} /\ agent'[b].cmd = agent[b].cmd
  <2>1. \/ agent'[a].at \notin {"report", "session"}
        \/ agent[a].at = "report" /\ agent'[a].cmd = agent[a].cmd
    BY DEF PollAgentCommand, ClaimNextAgentCommand, CompleteAgentCommand, Polling, RelayTypes, TypeOK, Turn
  <2>. QED BY <2>1 DEF OneAgent
<1>. QED BY <1>1, <1>4, <1>5, ShellQuiet

LEMMA ShellRun ==
  ASSUME OneAgent, RelayTypes, Kept, InTurn, Births, ShellInv, NEW a \in Agents,
         Open(a) \/ Deliver(a) \/ Close(a)
  PROVE  ShellInv'
<1>1. UNCHANGED <<sess, cmds, req, sweep>> /\ agent[a].at = "run"
  BY DEF Open, Deliver, Close, Relay
<1>2. PICK ok \in BOOLEAN : Executed(a, ok)
  BY Executes
<1>3. \A b \in Agents : b = a /\ agent'[b].at = "report" /\ agent'[b].cmd = agent[a].cmd
  BY <1>2 DEF Executed, OneAgent, RelayTypes, TypeOK, Turn
<1>4. Now(a)' = Now(a)
  BY <1>1, <1>3 DEF Now
<1>5. \A i \in DOMAIN cmds : (Underway(i)' => Underway(i)) /\ (i # agent[a].cmd => (Underway(i) => Underway(i)'))
  BY <1>1, <1>3 DEF Underway
<1>6. \A s \in Sessions : ToOpen(s)' => ToOpen(s)
  BY <1>1, <1>5 DEF ToOpen, Ordered
<1>7. \A s \in Sessions : ~(Now(a).kind = "close" /\ Now(a).sess = s) => (ToClose(s) => ToClose(s)')
  BY <1>1, <1>5 DEF ToClose, Ordered, Now
<1>8. CASE Deliver(a)
  <2>1. UNCHANGED shells /\ Now(a).kind # "close"
    BY <1>8 DEF Deliver
  <2>. QED BY <1>1, <1>3, <1>4, <1>6, <1>7, <2>1, ShellQuiet
<1>9. CASE Open(a)
  <2>1. /\ Now(a).kind = "open"
        /\ UNCHANGED shells \/ shells' = [shells EXCEPT ![a] = @ \cup {Now(a).sess}]
    BY <1>9 DEF Open
  <2>2. agent[a].cmd \in DOMAIN cmds
    BY <1>1, NowIsTyped
  <2>3. ToOpen(Now(a).sess)
    BY <1>1, <2>1, <2>2 DEF ToOpen, Ordered, Underway, Now
  <2>4. shells \in [Agents -> SUBSET Sessions]
    BY DEF RelayTypes, TypeOK
  <2>5. \A b \in Agents : shells'[b] \subseteq shells[b] \cup {Now(a).sess}
    BY <2>1, <2>4
  <2>6. OverIsClosed'
    <3>. SUFFICES ASSUME NEW s \in Sessions, sess'[s] \in Over, ~ToClose(s)'
                  PROVE  ~ToOpen(s)' /\ \A b \in Agents : s \notin shells'[b]
         BY DEF OverIsClosed
    <3>1. ~ToClose(s)
      BY <1>7, <2>1
    <3>2. ~ToOpen(s) /\ \A b \in Agents : s \notin shells[b]
      BY <1>1, <3>1 DEF ShellInv, OverIsClosed
    <3>3. s # Now(a).sess
      BY <2>3, <3>2
    <3>. QED BY <1>6, <2>5, <3>2, <3>3
  <2>7. ClosedIsGone'
    BY <1>3, <1>4, <2>1 DEF ClosedIsGone
  <2>. QED BY <2>6, <2>7 DEF ShellInv
<1>10. CASE Close(a)
  <2>1. Now(a).kind = "close" /\ shells' = [shells EXCEPT ![a] = @ \ {Now(a).sess}]
    BY <1>10 DEF Close
  <2>2. shells \in [Agents -> SUBSET Sessions]
    BY DEF RelayTypes, TypeOK
  <2>3. \A b \in Agents : shells'[b] \subseteq shells[b] /\ Now(a).sess \notin shells'[b]
    BY <1>3, <2>1, <2>2
  <2>4. ~ToOpen(Now(a).sess)
    BY <1>1, <2>1, OpenedBefore
  <2>5. OverIsClosed'
    <3>. SUFFICES ASSUME NEW s \in Sessions, sess'[s] \in Over, ~ToClose(s)'
                  PROVE  ~ToOpen(s)' /\ \A b \in Agents : s \notin shells'[b]
         BY DEF OverIsClosed
    <3>1. CASE s = Now(a).sess
      BY <1>6, <2>3, <2>4, <3>1
    <3>2. CASE s # Now(a).sess
      BY <1>1, <1>6, <1>7, <2>3, <3>2 DEF ShellInv, OverIsClosed
    <3>. QED BY <3>1, <3>2
  <2>6. ClosedIsGone'
    BY <1>3, <1>4, <2>3 DEF ClosedIsGone
  <2>. QED BY <2>5, <2>6 DEF ShellInv
<1>. QED BY <1>8, <1>9, <1>10

LEMMA ShellUpdate ==
  ASSUME OneAgent, RelayTypes, Kept, InTurn, Births, ShellInv, NEW a \in Agents, UpdateSession(a)
  PROVE  ShellInv'
<1>1. /\ agent[a].at = "session" /\ agent' = [agent EXCEPT ![a] = Polling]
      /\ UNCHANGED <<cmds, req, sweep, shells>>
  BY DEF UpdateSession, Relay
<1>2. \A b \in Agents : b = a /\ agent'[b].at = "idle"
  BY <1>1 DEF OneAgent, RelayTypes, TypeOK, Polling
<1>3. \A i \in DOMAIN cmds : Underway(i)' <=> Underway(i)
  BY <1>1, <1>2 DEF Underway
<1>4. \A s \in Sessions : (ToClose(s)' <=> ToClose(s)) /\ (ToOpen(s)' <=> ToOpen(s))
  BY <1>1, <1>3 DEF ToClose, ToOpen, Ordered
<1>5. \A s \in Sessions : sess'[s] \in Over =>
         sess[s] \in Over \/ (Now(a).kind = "close" /\ Now(a).sess = s)
  BY DEF UpdateSession, SetSession, RelayTypes, TypeOK, Over
<1>6. Now(a).kind = "close" => ~ToOpen(Now(a).sess) /\ \A b \in Agents : Now(a).sess \notin shells[b]
  BY <1>1, OpenedBefore DEF ShellInv, ClosedIsGone
<1>7. OverIsClosed'
  BY <1>1, <1>4, <1>5, <1>6 DEF ShellInv, OverIsClosed
<1>8. ClosedIsGone'
  BY <1>2 DEF ClosedIsGone
<1>. QED BY <1>7, <1>8 DEF ShellInv

(* A restart ends all shells, and an order to close one that it interrupts. *)
LEMMA ShellCrash ==
  ASSUME OneAgent, RelayTypes, Kept, InTurn, Births, ShellInv, NEW a \in Agents, Crash(a)
  PROVE  ShellInv'
<1>1. /\ agent' = [agent EXCEPT ![a] = Polling] /\ shells' = [shells EXCEPT ![a] = {}]
      /\ UNCHANGED <<sess, cmds, req, sweep>>
  BY DEF Crash, Relay
<1>2. \A b \in Agents : b = a /\ agent'[b].at = "idle" /\ shells'[b] = {}
  BY <1>1 DEF OneAgent, RelayTypes, TypeOK, Polling
<1>3. \A i \in DOMAIN cmds : (Underway(i)' => Underway(i))
         /\ (Underway(i) /\ ~Underway(i)' => agent[a].at # "idle" /\ agent[a].cmd = i)
  BY <1>1, <1>2 DEF Underway
<1>4. \A s \in Sessions : ToOpen(s)' => ToOpen(s)
  BY <1>1, <1>3 DEF ToOpen, Ordered
<1>5. \A s \in Sessions : ToClose(s) /\ ~ToClose(s)' =>
         agent[a].at # "idle" /\ Now(a).kind = "close" /\ Now(a).sess = s
  BY <1>1, <1>3 DEF ToClose, Ordered, Now
<1>6. \A s \in Sessions : ToClose(s) /\ ~ToClose(s)' => ~ToOpen(s)
  BY <1>5, OpenedBefore
<1>7. OverIsClosed'
  BY <1>1, <1>2, <1>4, <1>6 DEF ShellInv, OverIsClosed
<1>8. ClosedIsGone'
  BY <1>2 DEF ClosedIsGone
<1>. QED BY <1>7, <1>8 DEF ShellInv

LEMMA ShellStep ==
  ASSUME OneAgent, NothingLost, RelayTypes, InTurn, Births, ShellInv, [Next]_vars
  PROVE  ShellInv'
<1>0. Kept
  BY StepTypes
<1>1. CASE UNCHANGED <<sess, cmds, req, sweep, agent, shells>>
  <2>1. \A i \in DOMAIN cmds : Underway(i)' <=> Underway(i)
    BY <1>1 DEF Underway
  <2>2. \A s \in Sessions : (ToClose(s)' <=> ToClose(s)) /\ (ToOpen(s)' <=> ToOpen(s))
    BY <1>1, <2>1 DEF ToClose, ToOpen, Ordered
  <2>. QED BY <1>0, <1>1, <2>2, ShellQuiet
<1>2. ASSUME NEW s \in Sessions, GoesIdle(s)
      PROVE  UNCHANGED <<sess, cmds, req, sweep, agent, shells>>
  BY <1>2 DEF GoesIdle, Agency
<1>3. ASSUME NEW a \in Agents, RecordTerminalOutput(a)
      PROVE  UNCHANGED <<sess, cmds, req, sweep, agent, shells>>
  BY <1>3 DEF RecordTerminalOutput, Relay
<1>4. \A w \in Workers : ~Abandon(w)
  BY DEF Abandon, NothingLost
<1>5. \A a \in Agents : ~CallLost(a)
  BY DEF CallLost, NothingLost
<1>6. CASE Next
  BY <1>0, <1>1, <1>2, <1>3, <1>4, <1>5, <1>6, ShellArrive, ShellServe, ShellExpire, ShellPoll, ShellRun,
     ShellUpdate, ShellCrash DEF Next, Turns
<1>. QED BY <1>1, <1>6 DEF vars

(* For one agent, whose shells may fail and who may restart, any number of
   sessions, overlapping requests and expiry passes, and whatever the driver
   makes of NULL: a shell belongs to an active session or the order to close it
   is on its way. *)
THEOREM NoShellIsForgotten ==
  ASSUME OneAgent, NothingLost
  PROVE  Spec => []NoOrphanShell
<1>1. Init => OrderInv /\ Births /\ ShellInv
  BY InitOrder, InitBirths DEF Init, ShellInv, OverIsClosed, ClosedIsGone, Over, Polling
<1>2. RelayTypes /\ OrderInv /\ Births /\ ShellInv /\ [Next]_vars => (OrderInv /\ Births /\ ShellInv)'
  <2>1. OrderInv => InTurn
    BY DEF OrderInv
  <2>. QED BY <2>1, StepTypes, OrderStep, BirthsStep, ShellStep
<1>3. RelayTypes /\ Births /\ ShellInv => NoOrphanShell
  <2>. SUFFICES ASSUME RelayTypes, Births, ShellInv, NEW a \in Agents, NEW s \in shells[a], s \notin Active
                PROVE  \/ Busy(s) \/ \E x \in Sweepers : s \in sweep[x]
                       \/ \E i \in DOMAIN cmds :
                            /\ cmds[i].kind \in {"open", "close"} /\ cmds[i].sess = s
                            /\ cmds[i].status = "queued" \/ \E b \in Agents : agent[b].cmd = i
       BY DEF NoOrphanShell
  <2>1. s \in Sessions /\ sess[s] \in {"none", "queued", "open"} \cup Over
    BY DEF RelayTypes, TypeOK
  <2>2. sess[s] # "none"
    BY <2>1 DEF Births, Silent
  <2>3. sess[s] \in Over
    BY <2>1, <2>2 DEF Active
  <2>4. ToClose(s)
    BY <2>1, <2>3 DEF ShellInv, OverIsClosed
  <2>. QED BY <2>4 DEF ToClose, Ordered, Underway, Busy
<1>. QED BY <1>1, <1>2, <1>3, TypesHold, PTL DEF Spec
================================================================================
