------------------------------- MODULE AgentRelay -------------------------------
(***************************************************************************)
(* Interactive terminals over a queue: the handlers of resourceservice     *)
(* that create, type into, resize and close the terminal sessions of a     *)
(* renter, the expiry of idle ones, the table agent_commands that carries  *)
(* their orders to the host, and the host agent that polls it, runs the    *)
(* shells and reports back.  The queue is that of one provider and the     *)
(* sessions are those of one renter; others share nothing with them.       *)
(*                                                                         *)
(* A handler is several statements, an agent's turn is two HTTP calls with *)
(* the execution between them, and nothing ties the status of a session to *)
(* the shell behind it but the commands that are still under way.          *)
(***************************************************************************)
EXTENDS Integers, Sequences, FiniteSets

CONSTANTS
  Sessions,     \* the sessions that may ever be created
  Workers,      \* request handlers running at the same time
  Sweepers,     \* expiry workers, one per replica
  Agents,       \* host agents that poll with this provider's id
  MaxSessions,  \* terminalMaxSessions (2 in the code)
  MaxRequests,  \* bound: requests of renter and administrator
  Recent,       \* the commands a completion is looked up in (200 in the code)
  NullScans,    \* the driver reads a NULL acknowledged_at into a time.Time
  Faults        \* the failures that may happen, see FaultKinds

FaultKinds ==
  { "storage",  \* a statement fails, its context is cancelled, a restart
    "lost",     \* an agent's HTTP call fails, before or after its effect
    "pty",      \* the host cannot start, reach or kill a shell
    "crash" }   \* the agent dies, its shells with it, and comes back

ASSUME RelayAssumption ==
  /\ MaxSessions \in Nat /\ MaxRequests \in Nat /\ Recent \in Nat
  /\ NullScans \in BOOLEAN
  /\ Faults \subseteq FaultKinds

VARIABLES
  sess,      \* column status of terminal_sessions; "none": no row
  idle,      \* sessions whose last_active_at is past the idle timeout
  typed,     \* column last_input_seq: the input chunks of the transcript
  cmds,      \* agent_commands in the order of created_at
  req,       \* the request each handler is serving
  sweep,     \* the sessions an expiry pass has expired and not yet told the agent
  agent,     \* what each agent is doing
  shells,    \* the shells each agent holds (TerminalManager.sessions)
  known,     \* the sessions whose creation was answered
  requests,  \* requests so far
  ran        \* history: commands in the order in which agents executed them

vars == <<sess, idle, typed, cmds, req, sweep, agent, shells, known, requests, ran>>

Kinds == {"open", "data", "resize", "close", "control"}
Over == {"closed", "expired"}
NoSession == "no session"

Command == [kind : Kinds, sess : Sessions \cup {NoSession}, seq : Nat,
            status : {"queued", "running", "succeeded", "failed"}]
Request == [at : {"idle", "insert", "append"} \cup Kinds,
            sess : Sessions \cup {NoSession}, seq : Nat]
Turn == [at : {"idle", "claim", "run", "report", "session"}, cmd : Nat, ok : BOOLEAN]

TypeOK ==
  /\ sess \in [Sessions -> {"none", "queued", "open"} \cup Over]
  /\ idle \subseteq Sessions
  /\ typed \in [Sessions -> Nat]
  /\ cmds \in Seq(Command)
  /\ req \in [Workers -> Request]
  /\ sweep \in [Sweepers -> SUBSET Sessions]
  /\ agent \in [Agents -> Turn]
  /\ \A a \in Agents : agent[a].at # "idle" => agent[a].cmd \in DOMAIN cmds
  /\ shells \in [Agents -> SUBSET Sessions]
  /\ known \subseteq Sessions
  /\ requests \in 0..MaxRequests
  /\ ran \in Seq([cmd : DOMAIN cmds, ok : BOOLEAN])

Resting == [at |-> "idle", sess |-> NoSession, seq |-> 0]
Polling == [at |-> "idle", cmd |-> 0, ok |-> FALSE]

Init ==
  /\ sess = [s \in Sessions |-> "none"]
  /\ idle = {}
  /\ typed = [s \in Sessions |-> 0]
  /\ cmds = <<>>
  /\ req = [w \in Workers |-> Resting]
  /\ sweep = [x \in Sweepers |-> {}]
  /\ agent = [a \in Agents |-> Polling]
  /\ shells = [a \in Agents |-> {}]
  /\ known = {}
  /\ requests = 0
  /\ ran = <<>>

-----------------------------------------------------------------------------
(* Helpers *)

Active == {s \in Sessions : sess[s] \in {"queued", "open"}}
Busy(s) == \E w \in Workers : req[w].sess = s

Accept(w, label, s) ==
  /\ req[w].at = "idle"
  /\ requests < MaxRequests
  /\ requests' = requests + 1
  /\ req' = [req EXCEPT ![w] = [at |-> label, sess |-> s, seq |-> 0]]

\* CreateAgentCommand
Enqueue(kind, s, seq) ==
  cmds' = Append(cmds, [kind |-> kind, sess |-> s, seq |-> seq, status |-> "queued"])

SetStatus(i, status) == cmds' = [cmds EXCEPT ![i].status = status]

\* UpdateTerminalSessionStatus: whatever the status was, and last_active_at too.
SetSession(s, status) ==
  /\ sess' = [sess EXCEPT ![s] = status]
  /\ idle' = idle \ {s}

Agency == <<sweep, agent, shells, ran>>

-----------------------------------------------------------------------------
(* The renter's requests, and the administrator's *)

\* Bound: the members of Sessions that no session has yet, nor will soon.
Spare == Cardinality({s \in Sessions : sess[s] = "none"})
           - Cardinality({w \in Workers : req[w].at = "insert"})

\* CreateTerminalSession counts the active sessions first.
BeginCreate(w) ==
  /\ Spare > 0
  /\ Cardinality(Active) < MaxSessions
  /\ Accept(w, "insert", NoSession)
  /\ UNCHANGED <<sess, idle, typed, cmds, known, Agency>>

InsertSession(w) ==
  \E s \in Sessions :
    /\ req[w].at = "insert"
    /\ sess[s] = "none"
    /\ sess' = [sess EXCEPT ![s] = "queued"]
    /\ req' = [req EXCEPT ![w].at = "open", ![w].sess = s]
    /\ UNCHANGED <<idle, typed, cmds, known, requests, Agency>>

\* WriteTerminalInput looks at the status and only then appends.
BeginInput(w) ==
  \E s \in known :
    /\ sess[s] \notin Over
    /\ Accept(w, "append", s)
    /\ UNCHANGED <<sess, idle, typed, cmds, known, Agency>>

\* Mutant of AppendTerminalChunk: an error of the transcript is ignored.
AppendTerminalChunkMaybe(w) ==
  LET s == req[w].sess IN
  /\ req[w].at = "append"
  /\ typed' = [typed EXCEPT ![s] = @ + 1] \/ ("storage" \in Faults /\ UNCHANGED typed)
  /\ idle' = idle \ {s}
  /\ req' = [req EXCEPT ![w].at = "data", ![w].seq = typed[s] + 1]
  /\ UNCHANGED <<sess, cmds, known, requests, Agency>>

\* One transaction: the sequence number and the chunk.
AppendTerminalChunk(w) ==
  LET s == req[w].sess IN
  /\ req[w].at = "append"
  /\ typed' = [typed EXCEPT ![s] = @ + 1]
  /\ idle' = idle \ {s}
  /\ req' = [req EXCEPT ![w].at = "data", ![w].seq = typed[s] + 1]
  /\ UNCHANGED <<sess, cmds, known, requests, Agency>>

\* ResizeTerminalSession and CloseTerminalSession do not look at the status.
ResizeTerminalSession(w) ==
  \E s \in known :
    /\ Accept(w, "resize", s)
    /\ idle' = idle \ {s}
    /\ UNCHANGED <<sess, typed, cmds, known, Agency>>

CloseTerminalSession(w) ==
  \E s \in known :
    /\ Accept(w, "close", s)
    /\ SetSession(s, "closed")
    /\ UNCHANGED <<typed, cmds, known, Agency>>

\* QueueAgentCommand: status, start, stop and restart of the collector.
QueueAgentCommand(w) ==
  /\ Accept(w, "control", NoSession)
  /\ UNCHANGED <<sess, idle, typed, cmds, known, Agency>>

\* Every request ends with its command in the queue, and is then answered: with
\* an error if the row, whose acknowledged_at is NULL, cannot be read back.
QueueCommand(w) ==
  LET r == req[w] IN
  /\ r.at \in Kinds
  /\ Enqueue(r.at, r.sess, r.seq)
  /\ \/ NullScans /\ known' = IF r.at = "open" THEN known \cup {r.sess} ELSE known
     \/ ~NullScans /\ UNCHANGED known
     \/ "storage" \in Faults /\ UNCHANGED known
  /\ req' = [req EXCEPT ![w] = Resting]
  /\ UNCHANGED <<sess, idle, typed, requests, Agency>>

\* A failing statement, a caller that hung up or a restart.
Abandon(w) ==
  /\ "storage" \in Faults
  /\ req[w].at # "idle"
  /\ req' = [req EXCEPT ![w] = Resting]
  /\ UNCHANGED <<sess, idle, typed, cmds, known, requests, Agency>>

-----------------------------------------------------------------------------
(* ExpireTerminalSessions *)

\* Time passes without activity; a request is served within the idle timeout.
GoesIdle(s) ==
  /\ sess[s] # "none" /\ ~Busy(s)
  /\ s \notin idle
  /\ idle' = idle \cup {s}
  /\ UNCHANGED <<sess, typed, cmds, req, known, requests, Agency>>

\* One statement; its LIMIT only splits the work over several passes.
ExpireIdleTerminalSessions(x) ==
  /\ sweep[x] = {}
  /\ Active \cap idle # {}
  /\ sess' = [s \in Sessions |-> IF s \in Active \cap idle THEN "expired" ELSE sess[s]]
  /\ sweep' = [sweep EXCEPT ![x] = Active \cap idle]
  /\ UNCHANGED <<idle, typed, cmds, req, agent, shells, known, requests, ran>>

\* Mutant of QueueExpiryClose: the agent is not told.
QueueExpiryCloseNot(x) ==
  \E s \in sweep[x] :
    /\ sweep' = [sweep EXCEPT ![x] = @ \ {s}]
    /\ UNCHANGED <<sess, idle, typed, cmds, req, agent, shells, known, requests, ran>>

\* The error of CreateAgentCommand is dropped.
QueueExpiryClose(x) ==
  \E s \in sweep[x] :
    /\ Enqueue("close", s, 0) \/ ("storage" \in Faults /\ UNCHANGED cmds)
    /\ sweep' = [sweep EXCEPT ![x] = @ \ {s}]
    /\ UNCHANGED <<sess, idle, typed, req, agent, shells, known, requests, ran>>

-----------------------------------------------------------------------------
(* The host agent: poll, execute, report *)

Queued == {i \in DOMAIN cmds : cmds[i].status = "queued"}
Now(a) == cmds[agent[a].cmd]
Relay == <<typed, req, sweep, known, requests>>

\* Mutant of PollAgentCommand: the newest command first.
PollAgentCommandNewest(a) ==
  \E i \in Queued :
    /\ agent[a].at = "idle"
    /\ \A j \in Queued : j <= i
    /\ agent' = [agent EXCEPT ![a] = [at |-> "claim", cmd |-> i, ok |-> FALSE]]
    /\ UNCHANGED <<sess, idle, cmds, shells, ran, Relay>>

\* ClaimNextAgentCommand chooses the oldest queued row without locking it ...
PollAgentCommand(a) ==
  \E i \in Queued :
    /\ agent[a].at = "idle"
    /\ \A j \in Queued : i <= j
    /\ agent' = [agent EXCEPT ![a] = [at |-> "claim", cmd |-> i, ok |-> FALSE]]
    /\ UNCHANGED <<sess, idle, cmds, shells, ran, Relay>>

\* Mutant of ClaimNextAgentCommand: the row is handed out and stays queued.
ClaimNextAgentCommandNot(a) ==
  /\ agent[a].at = "claim"
  /\ agent' = [agent EXCEPT ![a].at = "run"]
  /\ UNCHANGED <<sess, idle, cmds, shells, ran, Relay>>

\* ... and updates it without looking at its status again.
ClaimNextAgentCommand(a) ==
  /\ agent[a].at = "claim"
  /\ SetStatus(agent[a].cmd, "running")
  /\ agent' = [agent EXCEPT ![a].at = "run"]
  /\ UNCHANGED <<sess, idle, shells, ran, Relay>>

Executed(a, ok) ==
  /\ ran' = Append(ran, [cmd |-> agent[a].cmd, ok |-> ok])
  /\ agent' = [agent EXCEPT ![a].at = "report", ![a].ok = ok]

\* TerminalManager.Open; opening an open session changes nothing.
Open(a) ==
  /\ agent[a].at = "run" /\ Now(a).kind = "open"
  /\ \/ /\ shells' = [shells EXCEPT ![a] = @ \cup {Now(a).sess}]
        /\ Executed(a, TRUE)
     \/ /\ "pty" \in Faults /\ Now(a).sess \notin shells[a]
        /\ Executed(a, FALSE)
        /\ UNCHANGED shells
  /\ UNCHANGED <<sess, idle, cmds, Relay>>

\* TerminalManager.Write, Resize; control commands always succeed.
Deliver(a) ==
  /\ agent[a].at = "run" /\ Now(a).kind \in {"data", "resize", "control"}
  /\ \/ Now(a).kind = "control" /\ Executed(a, TRUE)
     \/ Now(a).kind # "control" /\ Executed(a, Now(a).sess \in shells[a])
     \/ Now(a).kind # "control" /\ "pty" \in Faults /\ Executed(a, FALSE)
  /\ UNCHANGED <<sess, idle, cmds, shells, Relay>>

\* TerminalManager.Close; the session is forgotten even if the kill fails.
Close(a) ==
  /\ agent[a].at = "run" /\ Now(a).kind = "close"
  /\ shells' = [shells EXCEPT ![a] = @ \ {Now(a).sess}]
  /\ \/ Executed(a, TRUE)
     \/ "pty" \in Faults /\ Now(a).sess \in shells[a] /\ Executed(a, FALSE)
  /\ UNCHANGED <<sess, idle, cmds, Relay>>

\* CompleteAgentCommand looks the command up among the newest of its provider.
\* Those that are still queued have no acknowledged_at.
Listed(i) ==
  LET newest == {j \in DOMAIN cmds : j + Recent > Len(cmds)} IN
  i \in newest /\ (NullScans \/ newest \cap Queued = {})

CompleteAgentCommand(a) ==
  /\ agent[a].at = "report"
  /\ IF Listed(agent[a].cmd)
     THEN /\ SetStatus(agent[a].cmd, IF agent[a].ok THEN "succeeded" ELSE "failed")
          /\ agent' = [agent EXCEPT ![a].at = "session"]
     ELSE /\ agent' = [agent EXCEPT ![a] = Polling]
          /\ UNCHANGED cmds
  /\ UNCHANGED <<sess, idle, shells, ran, Relay>>

\* Mutants of UpdateSession: only an opening is noted; the session takes over
\* the command's status.
UpdateSessionOpenOnly(a) ==
  /\ agent[a].at = "session"
  /\ IF Now(a).kind = "open" /\ agent[a].ok THEN SetSession(Now(a).sess, "open")
     ELSE UNCHANGED <<sess, idle>>
  /\ agent' = [agent EXCEPT ![a] = Polling]
  /\ UNCHANGED <<cmds, shells, ran, Relay>>

UpdateSessionAsCommand(a) ==
  /\ agent[a].at = "session"
  /\ IF Now(a).kind \in {"open", "close"} THEN SetSession(Now(a).sess, Now(a).status)
     ELSE UNCHANGED <<sess, idle>>
  /\ agent' = [agent EXCEPT ![a] = Polling]
  /\ UNCHANGED <<cmds, shells, ran, Relay>>

\* ... and then writes the session's status, whatever it has become since.
UpdateSession(a) ==
  /\ agent[a].at = "session"
  /\ IF Now(a).kind = "open" /\ agent[a].ok THEN SetSession(Now(a).sess, "open")
     ELSE IF Now(a).kind = "close" THEN SetSession(Now(a).sess, "closed")
     ELSE UNCHANGED <<sess, idle>>
  /\ agent' = [agent EXCEPT ![a] = Polling]
  /\ UNCHANGED <<cmds, shells, ran, Relay>>

\* A call that fails is not repeated.  Its statement may have been executed.
CallLost(a) ==
  /\ "lost" \in Faults
  /\ \/ agent[a].at = "claim" /\ (UNCHANGED cmds \/ SetStatus(agent[a].cmd, "running"))
     \/ agent[a].at \in {"report", "session"} /\ UNCHANGED cmds
  /\ agent' = [agent EXCEPT ![a] = Polling]
  /\ UNCHANGED <<sess, idle, shells, ran, Relay>>

Crash(a) ==
  /\ "crash" \in Faults
  /\ agent[a] # Polling \/ shells[a] # {}
  /\ agent' = [agent EXCEPT ![a] = Polling]
  /\ shells' = [shells EXCEPT ![a] = {}]
  /\ UNCHANGED <<sess, idle, cmds, ran, Relay>>

\* pumpOutput, RecordTerminalOutput: output counts as activity, whatever the
\* status of the session.
RecordTerminalOutput(a) ==
  \E s \in shells[a] \cap idle :
    /\ idle' = idle \ {s}
    /\ UNCHANGED <<sess, cmds, agent, shells, ran, Relay>>

-----------------------------------------------------------------------------

Arrive(w) ==
  \/ BeginCreate(w) \/ BeginInput(w) \/ QueueAgentCommand(w)
  \/ ResizeTerminalSession(w) \/ CloseTerminalSession(w)

Serve(w) == InsertSession(w) \/ AppendTerminalChunk(w) \/ QueueCommand(w)

Expire(x) == ExpireIdleTerminalSessions(x) \/ QueueExpiryClose(x)

Turns(a) ==
  \/ PollAgentCommand(a) \/ ClaimNextAgentCommand(a)
  \/ Open(a) \/ Deliver(a) \/ Close(a)
  \/ CompleteAgentCommand(a) \/ UpdateSession(a)

Next ==
  \/ \E w \in Workers : Arrive(w) \/ Serve(w) \/ Abandon(w)
  \/ \E s \in Sessions : GoesIdle(s)
  \/ \E x \in Sweepers : Expire(x)
  \/ \E a \in Agents : Turns(a) \/ CallLost(a) \/ Crash(a) \/ RecordTerminalOutput(a)

Spec == Init /\ [][Next]_vars

(***************************************************************************)
(* Handlers run on, the expiry worker's ticker fires, and the agent keeps  *)
(* polling.  Nobody has to send a request, and no shell has to be idle.    *)
(***************************************************************************)
FairSpec ==
  /\ Spec
  /\ \A w \in Workers : WF_vars(Serve(w))
  /\ \A x \in Sweepers : WF_vars(Expire(x))
  /\ \A a \in Agents : WF_vars(Turns(a))

-----------------------------------------------------------------------------
(* Safety *)

\* The agent executes commands in the order in which they were queued, and
\* none twice, even if answers are lost and the agent restarts
\* (ClaimNextAgentCommand; for one agent).
ExecutedOnceInOrder ==
  \A i, j \in DOMAIN ran : i < j => ran[i].cmd < ran[j].cmd

\* Session audit: whatever is sent to a shell is in the transcript, and no two
\* inputs are the same entry of it (WriteTerminalInput appends the chunk before
\* it queues the command).
InputIsAudited ==
  \A i, j \in DOMAIN cmds :
    cmds[i].kind = "data" =>
      /\ cmds[i].seq \in 1..typed[cmds[i].sess]
      /\ cmds[j].kind = "data" /\ cmds[i].sess = cmds[j].sess
           /\ cmds[i].seq = cmds[j].seq => i = j

\* A shell gets a renter's input in the order of the transcript, if the renter
\* waits for one answer before the next request.
InputInOrder ==
  \A i, j \in DOMAIN ran :
    LET c == cmds[ran[i].cmd]  d == cmds[ran[j].cmd] IN
    i < j /\ c.kind = "data" /\ d.kind = "data" /\ c.sess = d.sess => c.seq < d.seq

\* No shell is forgotten: it belongs to an active session, or the order to
\* close it is on its way, or its opening is just being reported.
NoOrphanShell ==
  \A a \in Agents : \A s \in shells[a] :
    \/ s \in Active
    \/ Busy(s) \/ \E x \in Sweepers : s \in sweep[x]
    \/ \E i \in DOMAIN cmds :
         /\ cmds[i].kind \in {"open", "close"} /\ cmds[i].sess = s
         /\ cmds[i].status = "queued" \/ \E b \in Agents : agent[b].cmd = i

-----------------------------------------------------------------------------
(* Liveness, under FairSpec *)

\* A session that was closed, or expired, is over for good in the end, and its
\* shell is gone, however its opening was delayed.
CloseTakesEffect ==
  \A s \in Sessions :
    (sess[s] \in Over) ~> [](sess[s] \in Over /\ \A a \in Agents : s \notin shells[a])
================================================================================
