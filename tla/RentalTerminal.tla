----------------------------- MODULE RentalTerminal -----------------------------
(***************************************************************************)
(* The remote terminal of the web client's panel "My Instances"            *)
(* (ServerRentalPanel): one screen and one input line that serve the       *)
(* sessions a renter opens one after the other, an effect that asks for    *)
(* the output of the session on the screen every second, and handlers that *)
(* go on after their call was answered.                                    *)
(*                                                                         *)
(* A value that a handler sets after an await is rendered in a later task: *)
(* until Render the buttons and the polling effect still belong to the     *)
(* session that was on the screen before, and other answers may arrive.    *)
(***************************************************************************)
EXTENDS Integers, Sequences, FiniteSets

CONSTANTS
  Sessions,   \* the session ids the service may hand out
  NoSession,  \* the empty session id
  Cap,        \* MAX_TERMINAL_OUTPUT_CHARS, in chunks
  PageLimit,  \* the chunks one answer holds at most (300 in the code)
  MaxChunks,  \* bound: chunks a session writes
  MaxClicks   \* bound: buttons pressed

ASSUME TerminalAssumption ==
  /\ Cap \in Nat \ {0} /\ PageLimit \in Nat \ {0}
  /\ MaxChunks \in Nat /\ MaxClicks \in Nat
  /\ NoSession \notin Sessions

VARIABLES
  written,    \* the chunks of each session the service has stored
  issued,     \* the session ids handed out
  active,     \* activeTerminalSessionID as last set
  shown,      \* activeTerminalSessionID as last rendered
  opening,    \* terminalBusy as last rendered
  seq,        \* terminalSeqRef
  screen,     \* terminalOutput
  draft,      \* terminalInput: the session it was typed under
  poll,       \* what the effect of each session is waiting for
  calls,      \* the calls of handlers that wait for an answer
  clicks,     \* buttons pressed so far
  delivered,  \* history: input that reached a session
  slipped     \* history: an event fell between a handler and its Render

served == <<written, issued>>
view == <<active, shown, opening, seq, screen, draft>>
vars == <<served, view, poll, calls, clicks, delivered, slipped>>

Call == [id : 1 .. MaxClicks, kind : {"open", "write", "close"},
         sess : Sessions \cup {NoSession}, typed : Sessions \cup {NoSession}]
Quiet == [at |-> "idle", after |-> 0, stored |-> 0]

TypeOK ==
  /\ written \in [Sessions -> 0 .. MaxChunks]
  /\ issued \subseteq Sessions
  /\ {active, shown, draft} \subseteq Sessions \cup {NoSession}
  /\ opening \in BOOLEAN /\ seq \in 0 .. MaxChunks
  /\ screen \in Seq([sess : Sessions, seq : 1 .. MaxChunks]) /\ Len(screen) <= Cap
  /\ poll \in [Sessions -> [at : {"idle", "asked"}, after : 0 .. MaxChunks, stored : 0 .. MaxChunks]]
  /\ calls \subseteq Call
  /\ clicks \in 0 .. MaxClicks
  /\ delivered \subseteq Sessions \X Sessions
  /\ slipped \in BOOLEAN

Init ==
  /\ written = [s \in Sessions |-> 0] /\ issued = {}
  /\ active = NoSession /\ shown = NoSession /\ opening = FALSE
  /\ seq = 0 /\ screen = <<>> /\ draft = NoSession
  /\ poll = [s \in Sessions |-> Quiet]
  /\ calls = {} /\ clicks = 0 /\ delivered = {} /\ slipped = FALSE

Click(kind, s, typed) ==
  /\ clicks < MaxClicks /\ clicks' = clicks + 1
  /\ calls' = calls \cup {[id |-> clicks + 1, kind |-> kind, sess |-> s, typed |-> typed]}

Page(s, first, last) == [i \in 1 .. (last - first + 1) |-> [sess |-> s, seq |-> first + i - 1]]

\* Mutant of AppendTerminalChunk: nothing is forgotten.
AppendTerminalChunkUncut(out, more) == out \o more

(* appendTerminalChunk: only the newest output is kept. *)
AppendTerminalChunk(out, more) ==
  LET all == out \o more
  IN IF Len(all) <= Cap THEN all ELSE SubSeq(all, Len(all) - Cap + 1, Len(all))

----------------------------------------------------------------------------
(* The service: a shell writes. *)

Write(s) ==
  /\ s \in issued /\ written[s] < MaxChunks
  /\ written' = [written EXCEPT ![s] = @ + 1]
  /\ UNCHANGED <<issued, view, poll, calls, clicks, delivered, slipped>>

----------------------------------------------------------------------------
(* The polling effect. *)

\* Mutant of Asking: the sequence number is the first one asked for.
AskingNext(s, after) == [at |-> "asked", after |-> after + 1, stored |-> written[s]]

\* Mutant of Asking: after_seq is not sent.
AskingAll(s, after) == [at |-> "asked", after |-> 0, stored |-> written[s]]

(* listTerminalOutput(s, after): the answer may be computed at any time from now on. *)
Asking(s, after) == [at |-> "asked", after |-> after, stored |-> written[s]]

(* The timer of the effect, one request at a time. *)
PollTick(s) ==
  /\ shown = s /\ poll[s].at = "idle"
  /\ poll' = [poll EXCEPT ![s] = Asking(s, seq)]
  /\ UNCHANGED <<served, view, calls, clicks, delivered, slipped>>

(* The service answers with what it had stored at some time since.  An
   effect that was cleaned up forgot its request (Render, Leave). *)
PollAnswered(s) ==
  /\ poll[s].at = "asked"
  /\ poll' = [poll EXCEPT ![s] = Quiet]
  /\ \E stored \in poll[s].stored .. written[s] :
       LET from == poll[s].after + 1
           last == IF stored - poll[s].after > PageLimit THEN poll[s].after + PageLimit ELSE stored
       IN IF last < from
            THEN UNCHANGED <<seq, screen, slipped>>
            ELSE /\ seq' = last
                 /\ screen' = AppendTerminalChunk(screen, Page(s, from, last))
                 /\ slipped' = (slipped \/ active # s)
  /\ UNCHANGED <<served, active, shown, opening, draft, calls, clicks, delivered>>

PollFailed(s) ==
  /\ poll[s].at = "asked"
  /\ poll' = [poll EXCEPT ![s] = Quiet]
  /\ UNCHANGED <<served, view, calls, clicks, delivered, slipped>>

(* Only the effect of s runs, and it polls at once. *)
EffectOf(s) == [t \in Sessions |-> IF t = s THEN Asking(t, seq) ELSE Quiet]

(* What was set is rendered; the effect of the session that left the screen
   is cleaned up and that of the new one polls at once. *)
Render ==
  /\ shown # active \/ (opening /\ ~\E c \in calls : c.kind = "open")
  /\ shown' = active
  /\ opening' = \E c \in calls : c.kind = "open"
  /\ poll' = IF shown = active THEN poll ELSE EffectOf(active)
  /\ UNCHANGED <<served, active, seq, screen, draft, calls, clicks, delivered, slipped>>

----------------------------------------------------------------------------
(* The handlers, from the click to the answer. *)

(* The button of a row: setTerminalBusy(true) is rendered before the next event. *)
OpenTerminal ==
  /\ ~opening /\ opening' = TRUE
  /\ Click("open", NoSession, NoSession)
  /\ UNCHANGED <<served, active, shown, seq, screen, draft, poll, delivered, slipped>>

\* Mutant of Blank: the sequence number goes on.
BlankButSeq == screen' = <<>> /\ draft' = NoSession /\ UNCHANGED seq

\* Mutant of Blank: the input line is kept.
BlankButDraft == screen' = <<>> /\ seq' = 0 /\ UNCHANGED draft

Blank == screen' = <<>> /\ seq' = 0 /\ draft' = NoSession

(* The screen, the input and the sequence number are the new session's from
   here on; the session before is not closed. *)
TerminalOpened(c) ==
  /\ c.kind = "open" /\ calls' = calls \ {c}
  /\ \E s \in Sessions \ issued : issued' = issued \cup {s} /\ active' = s
  /\ Blank
  /\ UNCHANGED <<written, shown, opening, poll, clicks, delivered, slipped>>

(* Any call may fail, with or without its effect at the service. *)
OpenFailed(c) ==
  /\ c.kind = "open" /\ calls' = calls \ {c}
  /\ issued' = issued \/ \E s \in Sessions \ issued : issued' = issued \cup {s}
  /\ UNCHANGED <<written, view, poll, clicks, delivered, slipped>>

(* Typing fills the one input line, under the session that is rendered. *)
Type ==
  /\ draft # shown /\ draft' = shown
  /\ slipped' = (slipped \/ active # shown)
  /\ UNCHANGED <<served, active, shown, opening, seq, screen, poll, calls, clicks, delivered>>

(* Nothing keeps a second click from sending again before the answer. *)
SendTerminalInput ==
  /\ shown # NoSession /\ draft # NoSession
  /\ Click("write", shown, draft)
  /\ UNCHANGED <<served, view, poll, delivered, slipped>>

InputSent(c) ==
  /\ c.kind = "write" /\ calls' = calls \ {c}
  /\ delivered' = delivered \cup {<<c.sess, c.typed>>}
  /\ draft' = NoSession
  /\ UNCHANGED <<served, active, shown, opening, seq, screen, poll, clicks, slipped>>

InputFailed(c) ==
  /\ c.kind = "write" /\ calls' = calls \ {c}
  /\ delivered' \in {delivered, delivered \cup {<<c.sess, c.typed>>}}
  /\ UNCHANGED <<served, view, poll, clicks, slipped>>

CloseActiveTerminal ==
  /\ shown # NoSession
  /\ Click("close", shown, NoSession)
  /\ UNCHANGED <<served, view, poll, delivered, slipped>>

(* A refused close counts as closed, and whatever session is on the screen
   by now leaves it. *)
TerminalClosed(c) ==
  /\ c.kind = "close" /\ calls' = calls \ {c}
  /\ active' = NoSession /\ Blank
  /\ UNCHANGED <<served, shown, opening, poll, clicks, delivered, slipped>>

(* Another panel is opened and this one mounted again: its state is fresh,
   the calls of the old one can still take effect at the service. *)
Leave ==
  /\ clicks < MaxClicks /\ clicks' = clicks + 1
  /\ active' = NoSession /\ shown' = NoSession /\ opening' = FALSE
  /\ Blank
  /\ poll' = [s \in Sessions |-> Quiet] /\ calls' = {}
  /\ \E late \in SUBSET {c \in calls : c.kind = "write"} :
       delivered' = delivered \cup {<<c.sess, c.typed>> : c \in late}
  /\ UNCHANGED <<served, slipped>>

(* The card of the terminal offers its controls for the rendered session. *)
TerminalCard ==
  /\ shown # NoSession
  /\ \/ CloseActiveTerminal
     \/ Type
     \/ draft # NoSession /\ SendTerminalInput

Answered ==
  \E c \in calls :
    \/ TerminalOpened(c) \/ OpenFailed(c)
    \/ InputSent(c) \/ InputFailed(c)
    \/ TerminalClosed(c)

Next ==
  \/ \E s \in Sessions : Write(s) \/ PollTick(s) \/ PollAnswered(s) \/ PollFailed(s)
  \/ Render \/ Answered
  \/ OpenTerminal \/ TerminalCard \/ Leave

(* The browser runs its timers and renders; a service that is asked again and
   again sometimes answers. *)
Fairness ==
  /\ WF_vars(Render)
  /\ \A s \in Sessions : WF_vars(PollTick(s)) /\ SF_vars(PollAnswered(s))

Spec == Init /\ [][Next]_vars /\ Fairness

----------------------------------------------------------------------------
(* The panel implements the screen of TerminalScreen: whatever answers come
   late, a session's output is shown in order, without repetition, and is
   only ever cleared as a whole or cut at its oldest end. *)
Screen == INSTANCE TerminalScreen
            WITH Sessions <- Sessions, Cap <- Cap, written <- written, screen <- screen

ScreenSpec == Screen!Spec

(***************************************************************************)
(* Unless an answer or a keystroke slipped in before a Render, the screen  *)
(* ends with the last chunk that was asked for and holds every chunk of    *)
(* the session before it, as far as it reaches: no output is skipped.      *)
(***************************************************************************)
NothingSkipped ==
  ~slipped /\ active # NoSession =>
    screen = Page(active, IF seq > Cap THEN seq - Cap + 1 ELSE 1, seq)

(***************************************************************************)
(* Unless it was typed before a Render, input only reaches the session it  *)
(* was typed under, although one input line serves all of them.            *)
(***************************************************************************)
InputReachesItsSession == slipped \/ \A d \in delivered : d[1] = d[2]

(***************************************************************************)
(* While a session stays on the screen its output comes to be shown,       *)
(* although any answer may be lost.                                        *)
(***************************************************************************)
FollowsOutput ==
  (<>[](active # NoSession /\ shown = active))
    => <>[](slipped \/ (active # NoSession => seq = written[active]))
================================================================================
