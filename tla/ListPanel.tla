------------------------------- MODULE ListPanel -------------------------------
(***************************************************************************)
(* A panel of the web client: it shows a list that the service holds,      *)
(* disables its buttons by busy flags, and runs handlers that wait for     *)
(* calls, change something and load the list again.  Which buttons,        *)
(* dialogs and handlers a panel has, which flags disable them and which    *)
(* they set, is the table of the panel (PanelTable has the client's); how  *)
(* handlers, timers and answers interleave is the same for all of them.    *)
(*                                                                         *)
(* A flag set is drawn before the next click.  The list at the service is  *)
(* a version number that every stored change increases.                    *)
(***************************************************************************)
EXTENDS Integers, FiniteSets

CONSTANTS
  Table,       \* the panels
  Providers,   \* the providers one can select
  NoProvider,  \* no provider selected, and what a list not loaded is of
  MaxVersion,  \* bound: changes stored at the service
  MaxClicks,   \* bound: buttons pressed and providers selected
  MaxLeaves    \* bound: how often the panel is left and opened again

(* by: what starts the handler; in: where its button is; off: the flags that
   disable the button; wants: what it returns early without; sets: the flags
   set until it ends; calls: its changes, one after the other; lists: it ends
   with the panel's refresh; shuts: when it closes its dialog. *)
Handler == [by : {"click", "timer", "mount"}, in : STRING, off : SUBSET STRING,
            wants : SUBSET {"row", "provider"}, sets : SUBSET STRING, calls : 0 .. 2,
            lists : BOOLEAN, shuts : {"never", "click", "answered", "done"}]

(* off: the flags that disable the control that opens the dialog; holds: the
   flags that keep it open; wants: it is opened for a row. *)
Dialog == [off : SUBSET STRING, holds : SUBSET STRING, wants : SUBSET {"row"}]

TableAssumption(T) ==
  \A p \in DOMAIN T :
    /\ T[p].flag \subseteq STRING /\ T[p].parts \in 1 .. 3 /\ T[p].soft \subseteq 1 .. 3
    /\ T[p].guarded \in BOOLEAN /\ T[p].scoped \in BOOLEAN
    /\ \A n \in DOMAIN T[p].does :
         /\ n \in STRING /\ T[p].does[n] \in Handler
         /\ T[p].does[n].by = "mount" => T[p].does[n].calls = 0 /\ T[p].does[n].sets = {}
         /\ T[p].does[n].calls = 0 => T[p].does[n].lists
    /\ \A m, n \in DOMAIN T[p].does :
         T[p].does[m].by = "mount" /\ T[p].does[n].by = "mount" => m = n
    /\ \A d \in DOMAIN T[p].dialogs : d \in STRING /\ T[p].dialogs[d] \in Dialog
    /\ "page" \notin DOMAIN T[p].dialogs

ASSUME PanelAssumption ==
  /\ TableAssumption(Table)
  /\ NoProvider \notin Providers
  /\ MaxVersion \in Nat \ {0} /\ MaxClicks \in Nat /\ MaxLeaves \in Nat

VARIABLES
  panel,    \* the panel that is open
  version,  \* what the service holds
  rows,     \* what each part of the panel shows
  busy,     \* the flags that are set
  dialog,   \* the dialog that is open, or the page
  sel,      \* the provider selected
  tasks,    \* the handlers that wait for an answer
  clicks, leaves,
  told      \* history: the newest change reported as done, with its list loaded

vars == <<panel, version, rows, busy, dialog, sel, tasks, clicks, leaves, told>>

Does == Table[panel].does
Names == DOMAIN Does
Flag == Table[panel].flag

(* The flags handler n sets at some time. *)
Flags(n) == Does[n].sets \cup (IF Does[n].lists THEN Flag ELSE {})

(* The flags the handler of task t has set by now. *)
Held(t) == Does[t.name].sets \cup (IF t.at = "list" THEN Flag ELSE {})

Blank == [of |-> NoProvider, ver |-> 0]

Task == [id : 0 .. (MaxClicks + 1), name : STRING, of : Providers \cup {NoProvider},
         at : {"call", "list"}, step : 1 .. 3, stored : 0 .. MaxVersion,
         since : 0 .. MaxVersion, here : BOOLEAN]

TypeOK ==
  /\ panel \in DOMAIN Table
  /\ version \in 1 .. MaxVersion
  /\ rows \in [1 .. 3 -> [of : Providers \cup {NoProvider}, ver : 0 .. MaxVersion]]
  /\ busy \subseteq STRING
  /\ dialog \in DOMAIN Table[panel].dialogs \cup {"page"}
  /\ sel \in Providers \cup {NoProvider}
  /\ tasks \subseteq Task /\ \A t \in tasks : t.name \in Names
  /\ clicks \in 0 .. MaxClicks /\ leaves \in 0 .. MaxLeaves
  /\ told \in 0 .. version

----------------------------------------------------------------------------
(* Starting a handler. *)

Here == {t \in tasks : t.here}

(* refreshRunningRef: a guarded refresh returns at once while one runs. *)
MayList == Table[panel].guarded => ~\E t \in Here : t.at = "list"

Ready(n) ==
  /\ "row" \in Does[n].wants => rows[1].ver > 0
  /\ "provider" \in Does[n].wants => sel # NoProvider

NewTask(n, id) ==
  [id |-> id, name |-> n, of |-> sel, at |-> IF Does[n].calls = 0 THEN "list" ELSE "call",
   step |-> 1, stored |-> 0, since |-> version, here |-> TRUE]

Start(n, id) ==
  /\ Ready(n)
  /\ Does[n].calls = 0 => MayList
  /\ tasks' = tasks \cup {NewTask(n, id)}
  /\ busy' = busy \cup Held(NewTask(n, id))

(* What the refresh of an effect has set when the panel is first drawn. *)
Mounted(p) ==
  LET n == {m \in DOMAIN Table[p].does : Table[p].does[m].by = "mount"}
  IN {[id |-> 0, name |-> m, of |-> NoProvider, at |-> "list", step |-> 1,
       stored |-> 0, since |-> version, here |-> TRUE] : m \in n}

MountFlags(p) == IF \E m \in DOMAIN Table[p].does : Table[p].does[m].by = "mount" THEN Table[p].flag ELSE {}

Init ==
  /\ panel \in DOMAIN Table
  /\ version = 1 /\ rows = [k \in 1 .. 3 |-> Blank]
  /\ tasks = Mounted(panel) /\ busy = MountFlags(panel)
  /\ dialog = "page" /\ sel = NoProvider
  /\ clicks = 0 /\ leaves = 0 /\ told = 0

\* Mutant of Click: the button is never disabled.
ClickAlways(n) ==
  /\ Does[n].by = "click" /\ dialog = Does[n].in
  /\ clicks < MaxClicks /\ clicks' = clicks + 1
  /\ Start(n, clicks + 1)
  /\ dialog' = IF Does[n].shuts = "click" THEN "page" ELSE dialog
  /\ UNCHANGED <<panel, version, rows, sel, leaves, told>>

(* A button of the page, or of the dialog that is open over it. *)
Click(n) ==
  /\ Does[n].by = "click" /\ dialog = Does[n].in
  /\ Does[n].off \cap busy = {}
  /\ clicks < MaxClicks /\ clicks' = clicks + 1
  /\ Start(n, clicks + 1)
  /\ dialog' = IF Does[n].shuts = "click" THEN "page" ELSE dialog
  /\ UNCHANGED <<panel, version, rows, sel, leaves, told>>

\* Mutant of Tick: a list that was loaded is not refreshed.
TickWhenBlank(n) ==
  /\ Does[n].by = "timer" /\ rows[1] = Blank
  /\ ~\E t \in Here : t.name = n
  /\ Start(n, MaxClicks + 1)
  /\ UNCHANGED <<panel, version, rows, dialog, sel, clicks, leaves, told>>

(* useAutoRefresh: one refresh of the timer at a time. *)
Tick(n) ==
  /\ Does[n].by = "timer"
  /\ ~\E t \in Here : t.name = n
  /\ Start(n, MaxClicks + 1)
  /\ UNCHANGED <<panel, version, rows, dialog, sel, clicks, leaves, told>>

OpenDialog(d) ==
  /\ dialog = "page" /\ Table[panel].dialogs[d].off \cap busy = {}
  /\ "row" \in Table[panel].dialogs[d].wants => rows[1].ver > 0
  /\ dialog' = d
  /\ UNCHANGED <<panel, version, rows, busy, sel, tasks, clicks, leaves, told>>

CloseDialog ==
  /\ dialog # "page" /\ Table[panel].dialogs[dialog].holds \cap busy = {}
  /\ dialog' = "page"
  /\ UNCHANGED <<panel, version, rows, busy, sel, tasks, clicks, leaves, told>>

(* useProviderOptions: the first provider found is selected. *)
ProvidersLoaded ==
  /\ \E n \in Names : "provider" \in Does[n].wants
  /\ sel = NoProvider /\ sel' \in Providers
  /\ UNCHANGED <<panel, version, rows, busy, dialog, tasks, clicks, leaves, told>>

(* Another selection matters to the panels that list what the provider has. *)
SelectProvider ==
  /\ Table[panel].scoped /\ dialog = "page"
  /\ sel # NoProvider /\ sel' \in Providers \ {sel}
  /\ clicks < MaxClicks /\ clicks' = clicks + 1
  /\ UNCHANGED <<panel, version, rows, busy, dialog, tasks, leaves, told>>

----------------------------------------------------------------------------
(* The service, and the answers. *)

(* Somebody else changes what the service holds. *)
OthersChange ==
  /\ version < MaxVersion /\ version' = version + 1
  /\ UNCHANGED <<panel, rows, busy, dialog, sel, tasks, clicks, leaves, told>>

(* The call takes effect; only those that list afterwards change what is listed. *)
Stores(t) ==
  /\ t.at = "call" /\ t.stored = 0
  /\ IF Does[t.name].lists THEN version < MaxVersion /\ version' = version + 1
                           ELSE UNCHANGED version
  /\ tasks' = (tasks \ {t}) \cup {[t EXCEPT !.stored = version']}
  /\ UNCHANGED <<panel, rows, busy, dialog, sel, clicks, leaves, told>>

(* The finally block; a handler of a panel that was left sets nothing. *)
End(t) ==
  /\ tasks' = tasks \ {t}
  /\ busy' = IF t.here THEN busy \ Held(t) ELSE busy

(* It closes the dialog it was started in, whatever row that is open for now. *)
Shut(t, when) ==
  dialog' = IF t.here /\ Does[t.name].shuts \in when /\ dialog = Does[t.name].in THEN "page" ELSE dialog

(* The next of the handler's calls. *)
CallsAgain(t) ==
  /\ t.at = "call" /\ t.stored # 0 /\ t.step < Does[t.name].calls
  /\ tasks' = (tasks \ {t}) \cup {[t EXCEPT !.step = @ + 1, !.stored = 0]}
  /\ UNCHANGED <<panel, version, rows, busy, dialog, sel, clicks, leaves, told>>

(* await refresh() after the last call. *)
ListsAgain(t) ==
  /\ t.at = "call" /\ t.stored # 0 /\ t.step = Does[t.name].calls
  /\ Does[t.name].lists /\ t.here /\ MayList
  /\ tasks' = (tasks \ {t}) \cup {[t EXCEPT !.at = "list", !.step = 1, !.since = version]}
  /\ busy' = busy \cup Flag
  /\ Shut(t, {"answered"})
  /\ UNCHANGED <<panel, version, rows, sel, clicks, leaves, told>>

(* The last call was answered and no list is loaded. *)
EndsAnswered(t) ==
  /\ t.at = "call" /\ t.stored # 0 /\ t.step = Does[t.name].calls
  /\ ~(Does[t.name].lists /\ t.here /\ MayList)
  /\ End(t) /\ Shut(t, {"answered", "done"})
  /\ UNCHANGED <<panel, version, rows, sel, clicks, leaves, told>>

\* Mutant of CallFails: the flag is only cleared after a success.
CallFailsLocked(t) ==
  /\ t.at = "call" /\ tasks' = tasks \ {t}
  /\ UNCHANGED <<panel, version, rows, busy, dialog, sel, clicks, leaves, told>>

(* A call is refused, or its answer is lost after it took effect. *)
CallFails(t) ==
  /\ t.at = "call" /\ End(t)
  /\ UNCHANGED <<panel, version, rows, dialog, sel, clicks, leaves, told>>

\* Mutant of Shows: the parts are counted from 0.
ShowsOneMore(t, row) ==
  /\ rows' = [rows EXCEPT ![t.step] = row]
  /\ IF t.step <= Table[panel].parts
       THEN /\ tasks' = (tasks \ {t}) \cup {[t EXCEPT !.step = @ + 1, !.since = version]}
            /\ UNCHANGED <<busy, dialog, told>>
       ELSE End(t) /\ Shut(t, {"done"}) /\ UNCHANGED told

(* A part of the list, as it was at some time since it was asked for. *)
Shows(t, row) ==
  /\ rows' = [rows EXCEPT ![t.step] = row]
  /\ IF t.step < Table[panel].parts
       THEN /\ tasks' = (tasks \ {t}) \cup {[t EXCEPT !.step = @ + 1, !.since = version]}
            /\ UNCHANGED <<busy, dialog, told>>
       ELSE /\ End(t) /\ Shut(t, {"done"})
            /\ told' = IF t.stored > told THEN t.stored ELSE told

ListAnswered(t) ==
  /\ t.at = "list"
  /\ \E v \in t.since .. version :
       Shows(t, [of |-> IF Table[panel].scoped THEN t.of ELSE NoProvider, ver |-> v])
  /\ UNCHANGED <<panel, version, sel, clicks, leaves>>

(* The error of a list is shown, and the handler goes on as if it had loaded;
   a soft part is blanked instead. *)
ListFails(t) ==
  /\ t.at = "list"
  /\ IF t.step \in Table[panel].soft
       THEN Shows(t, Blank)
       ELSE End(t) /\ Shut(t, {"done"}) /\ UNCHANGED <<rows, told>>
  /\ UNCHANGED <<panel, version, sel, clicks, leaves>>

(* The panel is left and opened again: fresh state, and the handlers of the
   old one go on without effect on it. *)
Leave ==
  /\ leaves < MaxLeaves /\ leaves' = leaves + 1
  /\ rows' = [k \in 1 .. 3 |-> Blank]
  /\ tasks' = Mounted(panel) \cup {[t EXCEPT !.here = FALSE] : t \in {u \in tasks : u.at = "call"}}
  /\ busy' = MountFlags(panel)
  /\ dialog' = "page" /\ sel' = NoProvider /\ told' = 0
  /\ UNCHANGED <<panel, version, clicks>>

Settles(t) ==
  \/ Stores(t) \/ CallsAgain(t) \/ ListsAgain(t) \/ EndsAnswered(t) \/ CallFails(t)
  \/ ListAnswered(t) \/ ListFails(t)

Next ==
  \/ \E n \in Names : Click(n) \/ Tick(n)
  \/ \E d \in DOMAIN Table[panel].dialogs : OpenDialog(d)
  \/ CloseDialog \/ ProvidersLoaded \/ SelectProvider
  \/ OthersChange \/ Leave
  \/ \E t \in tasks : Settles(t)

(* Every call is answered or fails; a panel left alone is refreshed by its
   timer; a list that is asked for again and again is sometimes answered. *)
Fairness ==
  /\ WF_vars(\E n \in Names : Tick(n))
  /\ \A i \in 0 .. (MaxClicks + 1) : WF_vars(\E t \in tasks : t.id = i /\ Settles(t))
  /\ \A k \in 1 .. 3 :
       SF_vars(\E t \in Here : t.id = MaxClicks + 1 /\ t.step = k /\ ListAnswered(t))

Spec == Init /\ [][Next]_vars /\ Fairness

----------------------------------------------------------------------------
(* A flag is a lock if whatever sets it holds it from its start to its end, is
   not started by a timer, and is started by a button that it disables, or in a
   dialog that it keeps from being opened and that closes at once. *)
Bars(f, n) == Does[n].in # "page" /\ f \in Table[panel].dialogs[Does[n].in].off

Locks(f) ==
  \A n \in Names : f \in Flags(n) =>
    /\ Does[n].by # "timer"
    /\ Does[n].calls > 0 => f \in Does[n].sets
    /\ Does[n].by = "click" => f \in Does[n].off \/ Bars(f, n)
    /\ Does[n].by = "click" /\ Bars(f, n) => Does[n].shuts = "click"

AllFlags == UNION {Flags(n) : n \in Names}

(***************************************************************************)
(* No form is submitted twice and no two handlers under one lock overlap:  *)
(* at most one handler of the panel holds a flag that is a lock.           *)
(***************************************************************************)
SingleFlight ==
  \A f \in AllFlags : Locks(f) =>
    \A t, u \in Here : f \in Flags(t.name) /\ f \in Flags(u.name) => t = u

(* Its lock is set as long as the handler runs, and no dialog whose opening it
   disables is open then. *)
LocksHold ==
  \A f \in AllFlags : Locks(f) =>
    /\ \A t \in Here : f \in Flags(t.name) => f \in busy
    /\ dialog # "page" /\ f \in Table[panel].dialogs[dialog].off => f \notin busy

(***************************************************************************)
(* No button is disabled for good: a flag is set only while a handler of   *)
(* the panel is under way that will clear it.                              *)
(***************************************************************************)
NeverLockedUp == \A f \in busy : \E t \in Here : f \in Held(t)

(***************************************************************************)
(* A panel that refreshes itself comes to show what the service holds, of  *)
(* the provider selected, whatever answers were lost or came late.         *)
(***************************************************************************)
Fresh ==
  \A k \in (1 .. Table[panel].parts) \ Table[panel].soft :
    rows[k].ver = version /\ (Table[panel].scoped => rows[k].of = sel)

SelfRefreshing == \E n \in Names : Does[n].by = "timer"

ComesFresh == <>[](SelfRefreshing /\ (Table[panel].scoped => sel # NoProvider) => Fresh)
================================================================================
