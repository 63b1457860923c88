---------------------------- MODULE ListPanel_proofs ----------------------------
(***************************************************************************)
(* What holds of every panel that ListPanel can be given, proved: it stays *)
(* in its types, no button is disabled for good, a flag that is a lock     *)
(* keeps handlers apart, and a panel that loads one list at a time shows   *)
(* it in order.                                                            *)
(***************************************************************************)
EXTENDS ListPanel, TLAPS

(* A handler that waits for a list is one that lists, and no handler knows of
   a change that was not stored. *)
TasksOK ==
  \A t \in tasks : /\ t.at = "list" => Does[t.name].lists
                   /\ t.stored <= version

FlagsOK == NeverLockedUp /\ SingleFlight /\ LocksHold

IInv == TypeOK /\ TasksOK /\ FlagsOK

----------------------------------------------------------------------------
(* The fields of the table that the proofs use. *)
LEMMA PanelFields ==
  ASSUME panel \in DOMAIN Table
  PROVE  /\ Flag \subseteq STRING
         /\ Table[panel].parts \in 1 .. 3
         /\ "page" \notin DOMAIN Table[panel].dialogs
         /\ \A m, n \in Names : Does[m].by = "mount" /\ Does[n].by = "mount" => m = n
BY PanelAssumption DEF TableAssumption, Flag, Names, Does

LEMMA HandlerFields ==
  ASSUME panel \in DOMAIN Table, NEW n \in Names
  PROVE  /\ n \in STRING
         /\ Does[n].sets \subseteq STRING
         /\ Does[n].calls \in 0 .. 2
         /\ Does[n].lists \in BOOLEAN
         /\ Does[n].calls = 0 => Does[n].lists
         /\ Does[n].by = "mount" => Does[n].calls = 0 /\ Does[n].sets = {}
BY PanelAssumption DEF TableAssumption, Names, Does, Handler

(* A handler holds only flags that it sets. *)
LEMMA HeldAreFlags ==
  ASSUME NEW t \in Task, t.at = "list" => Does[t.name].lists
  PROVE  Held(t) \subseteq Flags(t.name)
BY DEF Held, Flags

(* The table does not change while the panel stays. *)
LEMMA TableStays ==
  ASSUME UNCHANGED panel
  PROVE  /\ AllFlags' = AllFlags
         /\ \A f : Locks(f)' <=> Locks(f)
         /\ \A n : Flags(n)' = Flags(n)
         /\ \A d : Table[panel'].dialogs[d].off = Table[panel].dialogs[d].off
BY DEF AllFlags, Locks, Bars, Flags, Does, Flag, Names

----------------------------------------------------------------------------
(* The three ways in which a step disturbs the flags.                      *)

(* When a panel is drawn for the first time, only the refresh of its effect
   is under way, and it has set the panel's flag. *)
JustMounted ==
  /\ panel \in DOMAIN Table /\ Here = Mounted(panel)
  /\ busy = MountFlags(panel) /\ dialog = "page"

LEMMA FlagsOfMount == JustMounted => FlagsOK
<1>. SUFFICES ASSUME panel \in DOMAIN Table, Here = Mounted(panel),
                     busy = MountFlags(panel), dialog = "page"
              PROVE  FlagsOK
     BY DEF JustMounted
<1>1. \A t \in Here : /\ t.name \in Names /\ Does[t.name].by = "mount" /\ t.at = "list"
                      /\ Held(t) = Flag /\ Flags(t.name) = Flag
  <2>. SUFFICES ASSUME NEW t \in Here
                PROVE  /\ t.name \in Names /\ Does[t.name].by = "mount" /\ t.at = "list"
                       /\ Held(t) = Flag /\ Flags(t.name) = Flag
       OBVIOUS
  <2>1. t.name \in Names /\ Does[t.name].by = "mount" /\ t.at = "list"
    BY DEF Mounted, Names, Does
  <2>2. Does[t.name].sets = {} /\ Does[t.name].lists
    BY <2>1, HandlerFields
  <2>. QED BY <2>1, <2>2 DEF Held, Flags
<1>2. \A t, u \in Here : t = u
  <2>. SUFFICES ASSUME NEW t \in Here, NEW u \in Here PROVE t = u
       OBVIOUS
  <2>1. t.name = u.name
    BY <1>1, PanelFields
  <2>2. PICK m : t = [id |-> 0, name |-> m, of |-> NoProvider, at |-> "list", step |-> 1,
                      stored |-> 0, since |-> version, here |-> TRUE]
    BY DEF Mounted
  <2>3. PICK m2 : u = [id |-> 0, name |-> m2, of |-> NoProvider, at |-> "list", step |-> 1,
                       stored |-> 0, since |-> version, here |-> TRUE]
    BY DEF Mounted
  <2>. QED BY <2>1, <2>2, <2>3
<1>3. NeverLockedUp
  <2>. SUFFICES ASSUME NEW f \in busy PROVE \E t \in Here : f \in Held(t)
       BY DEF NeverLockedUp
  <2>1. PICK n \in Names : Does[n].by = "mount"
    BY DEF MountFlags, Names, Does
  <2>2. f \in Flag
    BY <2>1 DEF MountFlags, Flag, Names, Does
  <2>3. \E t \in Here : TRUE
    BY <2>1 DEF Mounted, Names, Does
  <2>. QED BY <2>2, <2>3, <1>1
<1>4. SingleFlight
  BY <1>2 DEF SingleFlight
<1>5. \A t \in Here : busy = Flag
  BY <1>1 DEF MountFlags, Flag, Names, Does
<1>6. LocksHold
  BY <1>1, <1>5 DEF LocksHold
<1>. QED BY <1>3, <1>4, <1>6 DEF FlagsOK

(* A handler starts: those that set a lock were kept from it before. *)
LEMMA FlagsOfStart ==
  ASSUME IInv, UNCHANGED panel, NEW n \in Names, NEW id \in 0 .. (MaxClicks + 1),
         Start(n, id), NewTask(n, id) \in Task,
         \/ Does[n].by = "timer" /\ dialog' = dialog
         \/ /\ Does[n].by = "click" /\ dialog = Does[n].in /\ Does[n].off \cap busy = {}
            /\ dialog' = IF Does[n].shuts = "click" THEN "page" ELSE dialog
  PROVE  FlagsOK'
<1>. DEFINE k == NewTask(n, id)
<1>1. k.name = n /\ k.here = TRUE /\ (k.at = "list" <=> Does[n].calls = 0)
  BY DEF NewTask
<1>2. Held(k) \subseteq Flags(n)
  BY <1>1, HandlerFields DEF Held, Flags, IInv, TypeOK
<1>3. Here' = Here \cup {k} /\ busy' = busy \cup Held(k)
  BY <1>1 DEF Start, Here
<1>4. ASSUME NEW f \in Flags(n), Locks(f)
      PROVE  f \notin busy /\ f \in Held(k) /\ Does[n].by = "click"
  <2>1. Does[n].by = "click" /\ dialog = Does[n].in /\ Does[n].off \cap busy = {}
    BY <1>4 DEF Locks
  <2>2. f \in Held(k)
    BY <1>1, <1>4, HandlerFields DEF Locks, Held, Flags, IInv, TypeOK
  <2>3. f \in AllFlags
    BY <1>4 DEF AllFlags
  <2>4. f \notin busy
    BY <1>4, <2>1, <2>3 DEF Locks, Bars, IInv, FlagsOK, LocksHold
  <2>. QED BY <2>1, <2>2, <2>4
<1>5. NeverLockedUp'
  BY <1>3 DEF NeverLockedUp, IInv, FlagsOK, Held, Does, Flag
<1>6. SingleFlight'
  <2>. SUFFICES ASSUME NEW f \in AllFlags, Locks(f), NEW t \in Here', NEW u \in Here',
                       f \in Flags(t.name), f \in Flags(u.name)
                PROVE  t = u
       BY TableStays DEF SingleFlight
  <2>1. f \in Flags(n) => \A v \in Here : f \notin Flags(v.name)
    BY <1>4 DEF IInv, FlagsOK, LocksHold
  <2>. QED BY <1>1, <1>3, <2>1 DEF IInv, FlagsOK, SingleFlight
<1>7. LocksHold'
  <2>. SUFFICES ASSUME NEW f \in AllFlags, Locks(f)
                PROVE  /\ \A t \in Here' : f \in Flags(t.name) => f \in busy'
                       /\ dialog' # "page" /\ f \in Table[panel].dialogs[dialog'].off => f \notin busy'
       BY TableStays DEF LocksHold
  <2>1. \A t \in Here' : f \in Flags(t.name) => f \in busy'
    BY <1>1, <1>3, <1>4 DEF IInv, FlagsOK, LocksHold
  <2>2. ASSUME dialog' # "page", f \in Table[panel].dialogs[dialog'].off
        PROVE  f \notin busy'
    <3>1. dialog' = dialog /\ f \notin busy
      BY <2>2 DEF IInv, FlagsOK, LocksHold
    <3>2. f \notin Flags(n)
      BY <1>4, <2>2, <3>1 DEF Locks, Bars
    <3>. QED BY <1>2, <1>3, <3>1, <3>2
  <2>. QED BY <2>1, <2>2
<1>. QED BY <1>5, <1>6, <1>7 DEF FlagsOK

(* A handler goes on: it holds what it held, and of the locks it will hold it
   has every one already. *)
LEMMA FlagsOfGoing ==
  ASSUME IInv, UNCHANGED panel, NEW t \in tasks, NEW u \in Task,
         u.name = t.name, u.here = t.here, tasks' = (tasks \ {t}) \cup {u},
         Held(t) \subseteq Held(u),
         busy \subseteq busy', busy' = busy \/ (t.here /\ busy' \subseteq busy \cup Held(u)),
         \A f \in Held(u) : f \in Flags(t.name),
         dialog' = dialog \/ dialog' = "page"
  PROVE  FlagsOK'
<1>1. /\ Here' = IF t.here THEN (Here \ {t}) \cup {u} ELSE Here \ {t}
      /\ t \in Here <=> t.here
  BY DEF Here, IInv, TypeOK, Task
<1>2. NeverLockedUp'
  BY <1>1 DEF NeverLockedUp, IInv, FlagsOK, Held, Does, Flag, Here
<1>3. SingleFlight'
  <2>. SUFFICES ASSUME NEW f \in AllFlags, Locks(f), NEW v \in Here', NEW w \in Here',
                       f \in Flags(v.name), f \in Flags(w.name)
                PROVE  v = w
       BY TableStays DEF SingleFlight
  <2>. QED BY <1>1 DEF IInv, FlagsOK, SingleFlight
<1>4. LocksHold'
  <2>. SUFFICES ASSUME NEW f \in AllFlags, Locks(f)
                PROVE  /\ \A v \in Here' : f \in Flags(v.name) => f \in busy'
                       /\ dialog' # "page" /\ f \in Table[panel].dialogs[dialog'].off => f \notin busy'
       BY TableStays DEF LocksHold
  <2>1. \A v \in Here' : f \in Flags(v.name) => f \in busy'
    BY <1>1 DEF IInv, FlagsOK, LocksHold
  <2>2. f \in busy' => f \in busy
    BY <1>1 DEF IInv, FlagsOK, LocksHold
  <2>3. dialog' # "page" /\ f \in Table[panel].dialogs[dialog'].off => f \notin busy
    BY DEF IInv, FlagsOK, LocksHold
  <2>. QED BY <2>1, <2>2, <2>3
<1>. QED BY <1>2, <1>3, <1>4 DEF FlagsOK

(* A handler ends: no other one holds a lock of it. *)
LEMMA FlagsOfEnd ==
  ASSUME IInv, UNCHANGED panel, NEW t \in tasks, End(t), dialog' = dialog \/ dialog' = "page"
  PROVE  FlagsOK'
<1>1. Held(t) \subseteq Flags(t.name)
  BY HeldAreFlags DEF IInv, TypeOK, TasksOK
<1>2. /\ Here' = Here \ {t} /\ (t \in Here <=> t.here)
      /\ busy' = IF t.here THEN busy \ Held(t) ELSE busy
  BY DEF Here, End, IInv, TypeOK, Task
<1>3. NeverLockedUp'
  BY <1>2 DEF NeverLockedUp, IInv, FlagsOK, Held, Does, Flag
<1>4. SingleFlight'
  BY <1>2, TableStays DEF SingleFlight, IInv, FlagsOK
<1>5. LocksHold'
  <2>. SUFFICES ASSUME NEW f \in AllFlags, Locks(f)
                PROVE  /\ \A v \in Here' : f \in Flags(v.name) => f \in busy'
                       /\ dialog' # "page" /\ f \in Table[panel].dialogs[dialog'].off => f \notin busy'
       BY TableStays DEF LocksHold
  <2>1. \A v \in Here' : f \in Flags(v.name) => f \in busy'
    BY <1>1, <1>2 DEF IInv, FlagsOK, LocksHold, SingleFlight
  <2>2. dialog' # "page" /\ f \in Table[panel].dialogs[dialog'].off => f \notin busy'
    BY <1>2 DEF IInv, FlagsOK, LocksHold
  <2>. QED BY <2>1, <2>2
<1>. QED BY <1>3, <1>4, <1>5 DEF FlagsOK

----------------------------------------------------------------------------
(* The steps. *)

LEMMA InitInv == Init => IInv
<1>. SUFFICES ASSUME Init PROVE IInv
     OBVIOUS
<1>1. \A t \in tasks : /\ t \in Task /\ t.name \in Names /\ t.here
                       /\ Does[t.name].lists /\ t.stored <= version
  <2>. SUFFICES ASSUME NEW t \in tasks
                PROVE  /\ t \in Task /\ t.name \in Names /\ t.here
                       /\ Does[t.name].lists /\ t.stored <= version
       OBVIOUS
  <2>1. PICK m \in DOMAIN Table[panel].does :
           /\ Table[panel].does[m].by = "mount"
           /\ t = [id |-> 0, name |-> m, of |-> NoProvider, at |-> "list", step |-> 1,
                   stored |-> 0, since |-> version, here |-> TRUE]
    BY DEF Init, Mounted
  <2>2. m \in Names /\ m \in STRING /\ Does[m].lists
    BY <2>1, HandlerFields DEF Names, Does, Init
  <2>. QED BY <2>1, <2>2, PanelAssumption DEF Init, Task
<1>2. TypeOK
  BY <1>1, PanelFields, PanelAssumption DEF TypeOK, Init, MountFlags, Blank, Flag
<1>3. TasksOK
  BY <1>1 DEF TasksOK
<1>4. FlagsOK
  <2>1. Here = Mounted(panel)
    BY <1>1 DEF Here, Init
  <2>. QED BY <2>1, FlagsOfMount DEF Init, JustMounted
<1>. QED BY <1>2, <1>3, <1>4 DEF IInv

LEMMA StartInv ==
  ASSUME IInv, NEW n \in Names, Click(n) \/ Tick(n)
  PROVE  IInv'
<1>. DEFINE id == IF Does[n].by = "click" THEN clicks + 1 ELSE MaxClicks + 1
<1>1. /\ Start(n, id) /\ id \in 0 .. (MaxClicks + 1)
      /\ UNCHANGED <<panel, version, rows, sel, leaves, told>>
      /\ clicks' \in 0 .. MaxClicks
      /\ \/ Does[n].by = "timer" /\ dialog' = dialog
         \/ /\ Does[n].by = "click" /\ dialog = Does[n].in /\ Does[n].off \cap busy = {}
            /\ dialog' = IF Does[n].shuts = "click" THEN "page" ELSE dialog
  BY PanelAssumption DEF Click, Tick, IInv, TypeOK
<1>2. NewTask(n, id) \in Task
  BY <1>1, HandlerFields, PanelAssumption DEF NewTask, Task, IInv, TypeOK
<1>3. /\ NewTask(n, id).name = n /\ NewTask(n, id).stored = 0
      /\ NewTask(n, id).at = "list" => Does[n].lists
  BY HandlerFields DEF NewTask, IInv, TypeOK
<1>4. TypeOK'
  <2>1. Held(NewTask(n, id)) \subseteq STRING
    BY HandlerFields, PanelFields DEF Held, NewTask, IInv, TypeOK
  <2>2. busy' \subseteq STRING
    BY <1>1, <2>1 DEF Start, IInv, TypeOK
  <2>3. tasks' \subseteq Task /\ \A t \in tasks' : t.name \in Names
    BY <1>1, <1>2, <1>3 DEF Start, IInv, TypeOK
  <2>. QED BY <1>1, <2>2, <2>3 DEF IInv, TypeOK, Names, Does
<1>5. TasksOK'
  BY <1>1, <1>3 DEF TasksOK, Start, IInv, TypeOK, Does
<1>6. FlagsOK'
  BY <1>1, <1>2, FlagsOfStart
<1>. QED BY <1>4, <1>5, <1>6 DEF IInv

LEMMA OpenDialogInv ==
  ASSUME IInv, NEW d \in DOMAIN Table[panel].dialogs, OpenDialog(d)
  PROVE  IInv'
<1>1. TypeOK'
  BY DEF OpenDialog, IInv, TypeOK, Names, Does
<1>2. TasksOK'
  BY DEF OpenDialog, IInv, TasksOK, Does
<1>3. FlagsOK'
  <2>1. NeverLockedUp'
    BY DEF OpenDialog, IInv, FlagsOK, NeverLockedUp, Held, Here, Flag, Does
  <2>2. SingleFlight'
    BY TableStays DEF OpenDialog, IInv, FlagsOK, SingleFlight, Here
  <2>3. LocksHold'
    BY TableStays DEF OpenDialog, IInv, FlagsOK, LocksHold, Here
  <2>. QED BY <2>1, <2>2, <2>3 DEF FlagsOK
<1>. QED BY <1>1, <1>2, <1>3 DEF IInv

(* Steps that leave the handlers and the flags alone. *)
LEMMA QuietInv ==
  ASSUME IInv, CloseDialog \/ ProvidersLoaded \/ SelectProvider \/ OthersChange
  PROVE  IInv'
<1>1. UNCHANGED <<panel, busy, tasks, rows, leaves, told>>
  BY DEF CloseDialog, ProvidersLoaded, SelectProvider, OthersChange
<1>2. /\ version' \in 1 .. MaxVersion /\ version' >= version
      /\ dialog' = dialog \/ dialog' = "page"
      /\ sel' \in Providers \cup {NoProvider} /\ clicks' \in 0 .. MaxClicks
  BY PanelAssumption
     DEF CloseDialog, ProvidersLoaded, SelectProvider, OthersChange, IInv, TypeOK
<1>3. TypeOK'
  BY <1>1, <1>2, PanelAssumption DEF IInv, TypeOK, Names, Does
<1>4. TasksOK'
  BY <1>1, <1>2, PanelAssumption, SMTT(30) DEF IInv, TasksOK, TypeOK, Does, Task
<1>5. FlagsOK'
  <2>1. NeverLockedUp'
    BY <1>1 DEF IInv, FlagsOK, NeverLockedUp, Held, Here, Flag, Does
  <2>2. SingleFlight'
    BY <1>1, TableStays DEF IInv, FlagsOK, SingleFlight, Here
  <2>3. LocksHold'
    BY <1>1, <1>2, TableStays DEF IInv, FlagsOK, LocksHold, Here
  <2>. QED BY <2>1, <2>2, <2>3 DEF FlagsOK
<1>. QED BY <1>3, <1>4, <1>5 DEF IInv

LEMMA LeaveInv ==
  ASSUME IInv, Leave
  PROVE  IInv'
<1>. DEFINE Late == {[t EXCEPT !.here = FALSE] : t \in {u \in tasks : u.at = "call"}}
<1>1. UNCHANGED <<panel, version>> /\ tasks' = Mounted(panel) \cup Late
  BY DEF Leave
<1>2. \A t \in Mounted(panel) : /\ t \in Task /\ t.name \in Names /\ t.here
                                /\ Does[t.name].lists /\ t.stored <= version
  <2>. SUFFICES ASSUME NEW t \in Mounted(panel)
                PROVE  /\ t \in Task /\ t.name \in Names /\ t.here
                       /\ Does[t.name].lists /\ t.stored <= version
       OBVIOUS
  <2>1. PICK m \in DOMAIN Table[panel].does :
           /\ Table[panel].does[m].by = "mount"
           /\ t = [id |-> 0, name |-> m, of |-> NoProvider, at |-> "list", step |-> 1,
                   stored |-> 0, since |-> version, here |-> TRUE]
    BY DEF Mounted
  <2>2. m \in Names /\ m \in STRING /\ Does[m].lists
    BY <2>1, HandlerFields DEF Names, Does, IInv, TypeOK
  <2>. QED BY <2>1, <2>2, PanelAssumption DEF Task, IInv, TypeOK
<1>3. \A t \in Late : /\ t \in Task /\ t.name \in Names /\ ~t.here
                      /\ t.at = "call" /\ t.stored <= version
  <2>. SUFFICES ASSUME NEW w \in tasks, w.at = "call"
                PROVE  LET t == [w EXCEPT !.here = FALSE]
                       IN /\ t \in Task /\ t.name \in Names /\ ~t.here
                          /\ t.at = "call" /\ t.stored <= version
       OBVIOUS
  <2>1. w \in Task /\ w.name \in Names /\ w.stored <= version
    BY DEF IInv, TypeOK, TasksOK
  <2>. QED BY <2>1 DEF Task
<1>4. TypeOK'
  <2>1. tasks' \subseteq Task /\ \A t \in tasks' : t.name \in Names
    BY <1>1, <1>2, <1>3
  <2>2. busy' \subseteq STRING
    BY PanelFields DEF Leave, MountFlags, Flag, IInv, TypeOK
  <2>. QED BY <2>1, <2>2, PanelAssumption DEF Leave, IInv, TypeOK, Names, Does, Blank
<1>5. TasksOK'
  BY <1>1, <1>2, <1>3 DEF TasksOK, Does
<1>6. FlagsOK'
  <2>1. Here' = Mounted(panel) /\ Mounted(panel)' = Mounted(panel)
    BY <1>1, <1>2, <1>3 DEF Here, Mounted
  <2>2. JustMounted'
    <3>1. busy' = MountFlags(panel) /\ dialog' = "page" /\ panel \in DOMAIN Table
      BY DEF Leave, IInv, TypeOK
    <3>. QED BY <1>1, <2>1, <3>1 DEF JustMounted, MountFlags
  <2>3. JustMounted' => FlagsOK'
    BY FlagsOfMount, PTL
  <2>. QED BY <2>2, <2>3
<1>. QED BY <1>4, <1>5, <1>6 DEF IInv

----------------------------------------------------------------------------
(* The steps of a handler. *)

(* One of the handlers is replaced by what it has become. *)
LEMMA GoingInv ==
  ASSUME IInv, UNCHANGED <<panel, sel, clicks, leaves>>, NEW t \in tasks, NEW u \in Task,
         u.name = t.name, u.here = t.here, tasks' = (tasks \ {t}) \cup {u},
         Held(t) \subseteq Held(u),
         u.at = "list" => Does[t.name].lists, u.stored <= version',
         busy \subseteq busy', busy' = busy \/ (t.here /\ busy' \subseteq busy \cup Held(u)),
         dialog' = dialog \/ dialog' = "page",
         version' \in 1 .. MaxVersion, version' >= version, told' = told,
         rows' \in [1 .. 3 -> [of : Providers \cup {NoProvider}, ver : 0 .. MaxVersion]]
  PROVE  IInv'
<1>1. t \in Task /\ t.name \in Names
  BY DEF IInv, TypeOK
<1>2. Held(u) \subseteq Flags(t.name)
  BY HeldAreFlags
<1>3. Held(u) \subseteq STRING
  BY <1>1, HandlerFields, PanelFields DEF Held, IInv, TypeOK
<1>4. TypeOK'
  BY <1>1, <1>3, PanelAssumption DEF IInv, TypeOK, Names, Does
<1>5. TasksOK'
  BY PanelAssumption DEF IInv, TypeOK, TasksOK, Does, Task
<1>6. FlagsOK'
  BY <1>1, <1>2, FlagsOfGoing
<1>. QED BY <1>4, <1>5, <1>6 DEF IInv

(* One of the handlers ends. *)
LEMMA EndInv ==
  ASSUME IInv, UNCHANGED <<panel, version, sel, clicks, leaves>>, NEW t \in tasks, End(t),
         dialog' = dialog \/ dialog' = "page", told' \in 0 .. version,
         rows' \in [1 .. 3 -> [of : Providers \cup {NoProvider}, ver : 0 .. MaxVersion]]
  PROVE  IInv'
<1>1. TypeOK'
  BY DEF IInv, TypeOK, End, Names, Does
<1>2. TasksOK'
  BY DEF IInv, TasksOK, End, Does
<1>3. FlagsOK'
  BY FlagsOfEnd
<1>. QED BY <1>1, <1>2, <1>3 DEF IInv

(* A part of the list is shown. *)
LEMMA ShowsInv ==
  ASSUME IInv, UNCHANGED <<panel, version, sel, clicks, leaves>>, NEW t \in tasks, t.at = "list",
         NEW row \in [of : Providers \cup {NoProvider}, ver : 0 .. MaxVersion], Shows(t, row)
  PROVE  IInv'
<1>1. rows' \in [1 .. 3 -> [of : Providers \cup {NoProvider}, ver : 0 .. MaxVersion]]
  BY DEF Shows, IInv, TypeOK
<1>2. CASE t.step < Table[panel].parts
  <2>. DEFINE u == [t EXCEPT !.step = @ + 1, !.since = version]
  <2>1. /\ u \in Task /\ u.name = t.name /\ u.here = t.here /\ u.at = t.at /\ u.stored = t.stored
    <3>1. t \in Task /\ t.step + 1 \in 1 .. 3 /\ version \in 0 .. MaxVersion
      BY <1>2, PanelFields, PanelAssumption DEF IInv, TypeOK, Task
    <3>. QED BY <3>1 DEF Task
  <2>2. Held(t) \subseteq Held(u)
    BY <2>1 DEF Held
  <2>3. tasks' = (tasks \ {t}) \cup {u} /\ UNCHANGED <<busy, dialog, told>>
    BY <1>2 DEF Shows
  <2>4. u.stored <= version' /\ (u.at = "list" => Does[t.name].lists)
    BY <2>1 DEF IInv, TasksOK
  <2>5. version' \in 1 .. MaxVersion /\ version' >= version
    BY PanelAssumption DEF IInv, TypeOK
  <2>. QED BY <1>1, <2>1, <2>2, <2>3, <2>4, <2>5, GoingInv
<1>3. CASE ~(t.step < Table[panel].parts)
  <2>1. End(t) /\ (dialog' = dialog \/ dialog' = "page")
    BY <1>3 DEF Shows, Shut
  <2>2. told' \in 0 .. version
    BY <1>3 DEF Shows, IInv, TypeOK, TasksOK, Task
  <2>. QED BY <1>1, <2>1, <2>2, EndInv
<1>. QED BY <1>2, <1>3

LEMMA StoresInv ==
  ASSUME IInv, NEW t \in tasks, Stores(t)
  PROVE  IInv'
<1>. DEFINE u == [t EXCEPT !.stored = version']
<1>1. version' \in 1 .. MaxVersion /\ version' >= version
  BY PanelAssumption DEF Stores, IInv, TypeOK
<1>2. /\ u \in Task /\ u.name = t.name /\ u.here = t.here /\ u.at = t.at /\ u.stored = version'
  BY <1>1, PanelAssumption DEF IInv, TypeOK, Task
<1>3. Held(t) \subseteq Held(u)
  BY <1>2 DEF Held
<1>4. u.at # "list" /\ u.stored <= version'
  BY <1>1, <1>2 DEF Stores
<1>5. /\ tasks' = (tasks \ {t}) \cup {u}
      /\ UNCHANGED <<panel, sel, clicks, leaves, busy, dialog, told, rows>>
  BY DEF Stores
<1>. QED BY <1>1, <1>2, <1>3, <1>4, <1>5, GoingInv DEF IInv, TypeOK

LEMMA CallsAgainInv ==
  ASSUME IInv, NEW t \in tasks, CallsAgain(t)
  PROVE  IInv'
<1>. DEFINE u == [t EXCEPT !.step = @ + 1, !.stored = 0]
<1>1. Does[t.name].calls \in 0 .. 2
  BY HandlerFields DEF IInv, TypeOK
<1>2. /\ u \in Task /\ u.name = t.name /\ u.here = t.here /\ u.at = t.at /\ u.stored = 0
  <2>1. t \in Task /\ t.step + 1 \in 1 .. 3 /\ 0 \in 0 .. MaxVersion
    BY <1>1, PanelAssumption DEF CallsAgain, IInv, TypeOK, Task
  <2>. QED BY <2>1 DEF Task
<1>3. Held(t) \subseteq Held(u)
  BY <1>2 DEF Held
<1>4. u.at # "list" /\ u.stored <= version' /\ version' \in 1 .. MaxVersion /\ version' >= version
  BY <1>2, PanelAssumption DEF CallsAgain, IInv, TypeOK
<1>5. /\ tasks' = (tasks \ {t}) \cup {u}
      /\ UNCHANGED <<panel, sel, clicks, leaves, busy, dialog, told, rows>>
  BY DEF CallsAgain
<1>. QED BY <1>2, <1>3, <1>4, <1>5, GoingInv DEF IInv, TypeOK

LEMMA ListsAgainInv ==
  ASSUME IInv, NEW t \in tasks, ListsAgain(t)
  PROVE  IInv'
<1>. DEFINE u == [t EXCEPT !.at = "list", !.step = 1, !.since = version]
<1>1. /\ u \in Task /\ u.name = t.name /\ u.here = t.here /\ u.at = "list"
      /\ u.stored = t.stored
  <2>1. t \in Task /\ version \in 0 .. MaxVersion /\ 1 \in 1 .. 3 /\ "list" \in {"call", "list"}
    BY PanelAssumption DEF IInv, TypeOK
  <2>. QED BY <2>1 DEF Task
<1>2. Held(t) = Does[t.name].sets /\ Held(u) = Held(t) \cup Flag
  BY <1>1 DEF Held, ListsAgain
<1>3. /\ tasks' = (tasks \ {t}) \cup {u} /\ t.here /\ Does[t.name].lists
      /\ busy' = busy \cup Flag /\ (dialog' = dialog \/ dialog' = "page")
      /\ UNCHANGED <<panel, version, rows, sel, clicks, leaves, told>>
  BY DEF ListsAgain, Shut
<1>4. u.stored <= version' /\ version' \in 1 .. MaxVersion /\ version' >= version
  BY <1>1, <1>3, PanelAssumption DEF IInv, TypeOK, TasksOK
<1>5. busy \subseteq busy' /\ busy' \subseteq busy \cup Held(u)
  BY <1>2, <1>3
<1>. QED BY <1>1, <1>2, <1>3, <1>4, <1>5, GoingInv DEF IInv, TypeOK

LEMMA SettlesInv ==
  ASSUME IInv, NEW t \in tasks, Settles(t)
  PROVE  IInv'
<1>1. CASE Stores(t)
  BY <1>1, StoresInv
<1>2. CASE CallsAgain(t)
  BY <1>2, CallsAgainInv
<1>3. CASE ListsAgain(t)
  BY <1>3, ListsAgainInv
<1>4. CASE EndsAnswered(t)
  <2>1. dialog' = dialog \/ dialog' = "page"
    BY <1>4 DEF EndsAnswered, Shut
  <2>. QED BY <1>4, <2>1, EndInv DEF EndsAnswered, IInv, TypeOK
<1>5. CASE CallFails(t)
  BY <1>5, EndInv DEF CallFails, IInv, TypeOK
<1>6. CASE ListAnswered(t)
  <2>1. PICK v \in t.since .. version :
           Shows(t, [of |-> IF Table[panel].scoped THEN t.of ELSE NoProvider, ver |-> v])
    BY <1>6 DEF ListAnswered
  <2>2. [of |-> IF Table[panel].scoped THEN t.of ELSE NoProvider, ver |-> v]
           \in [of : Providers \cup {NoProvider}, ver : 0 .. MaxVersion]
    BY PanelAssumption DEF IInv, TypeOK, Task
  <2>. QED BY <1>6, <2>1, <2>2, ShowsInv DEF ListAnswered
<1>7. CASE ListFails(t)
  <2>1. CASE t.step \in Table[panel].soft
    <3>1. Blank \in [of : Providers \cup {NoProvider}, ver : 0 .. MaxVersion]
      BY PanelAssumption DEF Blank
    <3>. QED BY <1>7, <2>1, <3>1, ShowsInv DEF ListFails
  <2>2. CASE t.step \notin Table[panel].soft
    <3>1. dialog' = dialog \/ dialog' = "page"
      BY <1>7, <2>2, SMTT(30) DEF ListFails, Shut
    <3>. QED BY <1>7, <2>2, <3>1, EndInv DEF ListFails, IInv, TypeOK
  <2>. QED BY <2>1, <2>2
<1>. QED BY <1>1, <1>2, <1>3, <1>4, <1>5, <1>6, <1>7 DEF Settles

LEMMA StutterInv ==
  ASSUME IInv, UNCHANGED vars
  PROVE  IInv'
BY DEF vars, IInv, TypeOK, TasksOK, FlagsOK, NeverLockedUp, SingleFlight, LocksHold, AllFlags,
       Locks, Bars, Flags, Held, Here, Flag, Does, Names

LEMMA Inductive == IInv /\ [Next]_vars => IInv'
<1>. SUFFICES ASSUME IInv, [Next]_vars PROVE IInv'
     OBVIOUS
<1>1. ASSUME NEW n \in Names, Click(n) \/ Tick(n) PROVE IInv'
  BY <1>1, StartInv
<1>2. ASSUME NEW d \in DOMAIN Table[panel].dialogs, OpenDialog(d) PROVE IInv'
  BY <1>2, OpenDialogInv
<1>3. CASE CloseDialog \/ ProvidersLoaded \/ SelectProvider \/ OthersChange
  BY <1>3, QuietInv
<1>4. CASE Leave
  BY <1>4, LeaveInv
<1>5. ASSUME NEW t \in tasks, Settles(t) PROVE IInv'
  BY <1>5, SettlesInv
<1>6. CASE UNCHANGED vars
  BY <1>6, StutterInv
<1>. QED BY <1>1, <1>2, <1>3, <1>4, <1>5, <1>6 DEF Next

----------------------------------------------------------------------------
(* The theorems. *)

(* Every panel, whatever its table, stays in its types. *)
THEOREM TypeCorrect == Spec => []TypeOK
<1>1. IInv => TypeOK
  BY DEF IInv
<1>. QED BY InitInv, Inductive, <1>1, PTL DEF Spec

(* No flag stays set without a handler that will clear it: whatever calls
   fail or come late and whenever the panel is left, no button is disabled
   for good. *)
THEOREM ButtonsComeBack == Spec => []NeverLockedUp
<1>1. IInv => NeverLockedUp
  BY DEF IInv, FlagsOK
<1>. QED BY InitInv, Inductive, <1>1, PTL DEF Spec

(* A flag that disables what sets it, that is held from a handler's start to
   its end, and that no timer sets, lets one handler through at a time. *)
THEOREM LocksExclude == Spec => []SingleFlight
<1>1. IInv => SingleFlight
  BY DEF IInv, FlagsOK
<1>. QED BY InitInv, Inductive, <1>1, PTL DEF Spec

----------------------------------------------------------------------------
(* Panels that load one list at a time.                                    *)

(* Its list has one part, no failure blanks it, and a lock or the guard of the
   refresh keeps a second list from being asked for before the first has come. *)
LoadsOneList ==
  /\ Table[panel].parts = 1 /\ Table[panel].soft = {}
  /\ Table[panel].guarded \/ \E f \in Flag : Locks(f)

(* The handlers that wait for the list. *)
Listing == {t \in tasks : t.at = "list"}

ListsAreHere == \A t \in Listing : t.here /\ t.step <= Table[panel].parts

OneGuarded == Table[panel].guarded => \A t, u \in Listing : t = u

(* A list under way was asked for after the one on the screen was made, and
   after the change was stored that will be reported with it. *)
AsksLater ==
  LoadsOneList => \A t \in Listing : rows[1].ver <= t.since /\ t.stored <= t.since

SaidIsShown == LoadsOneList => told <= rows[1].ver

ListInv == ListsAreHere /\ OneGuarded /\ AsksLater /\ SaidIsShown /\ rows[1].ver <= version

OnlyForward == LoadsOneList /\ leaves' = leaves => rows'[1].ver >= rows[1].ver

LEMMA OneStays ==
  ASSUME UNCHANGED panel
  PROVE  LoadsOneList' <=> LoadsOneList
<1>1. \A f : Locks(f)' <=> Locks(f)
  BY TableStays
<1>. QED BY <1>1 DEF LoadsOneList, Flag

(* At most one list is under way. *)
LEMMA OneListing ==
  ASSUME IInv, ListsAreHere, OneGuarded, LoadsOneList, NEW t \in Listing, NEW u \in Listing
  PROVE  t = u
<1>1. CASE Table[panel].guarded
  BY <1>1 DEF OneGuarded
<1>2. ASSUME NEW f \in Flag, Locks(f) PROVE t = u
  <2>1. t \in Here /\ u \in Here
    BY DEF ListsAreHere, Listing, Here
  <2>2. f \in Flags(t.name) /\ f \in Flags(u.name) /\ t.name \in Names
    BY DEF IInv, TypeOK, TasksOK, Flags, Listing
  <2>3. f \in AllFlags
    BY <2>2 DEF AllFlags
  <2>. QED BY <1>2, <2>1, <2>2, <2>3 DEF IInv, FlagsOK, SingleFlight
<1>. QED BY <1>1, <1>2 DEF LoadsOneList

LEMMA VersionsAreNumbers ==
  ASSUME IInv
  PROVE  /\ rows[1].ver \in Nat /\ version \in Nat /\ told \in Nat
         /\ \A t \in tasks : t.since \in Nat /\ t.stored \in Nat /\ t.step \in Nat
<1>1. version \in Nat /\ told \in Nat
  BY PanelAssumption DEF IInv, TypeOK
<1>2. rows[1].ver \in Nat
  <2>1. rows[1] \in [of : Providers \cup {NoProvider}, ver : 0 .. MaxVersion]
    BY DEF IInv, TypeOK
  <2>. QED BY <2>1, PanelAssumption
<1>3. ASSUME NEW t \in tasks PROVE t.since \in Nat /\ t.stored \in Nat /\ t.step \in Nat
  <2>1. t \in Task
    BY DEF IInv, TypeOK
  <2>. QED BY <2>1, PanelAssumption DEF Task
<1>. QED BY <1>1, <1>2, <1>3

(* Steps that ask for no list and show none. *)
LEMMA QuietList ==
  ASSUME IInv, ListInv, UNCHANGED <<panel, rows, told>>, Listing' \subseteq Listing,
         version' \in Nat, version' >= version
  PROVE  ListInv' /\ OnlyForward
<1>1. LoadsOneList' <=> LoadsOneList
  BY OneStays
<1>2. ListsAreHere' /\ OneGuarded'
  BY DEF ListInv, ListsAreHere, OneGuarded
<1>3. AsksLater' /\ SaidIsShown'
  BY <1>1 DEF ListInv, AsksLater, SaidIsShown
<1>4. rows[1].ver <= version'
  BY VersionsAreNumbers DEF ListInv
<1>5. rows[1].ver >= rows[1].ver
  BY VersionsAreNumbers
<1>. QED BY <1>2, <1>3, <1>4, <1>5 DEF ListInv, OnlyForward

(* A list is asked for: by a refresh, or after the calls of a handler. *)
LEMMA NewList ==
  ASSUME IInv, ListInv, UNCHANGED <<panel, rows, told, version>>, MayList,
         NEW k, Listing' \subseteq Listing \cup {k}, k.here, k.step = 1, k.since = version,
         k.stored \in Nat, k.stored <= version
  PROVE  ListInv' /\ OnlyForward
<1>1. LoadsOneList' <=> LoadsOneList
  BY OneStays
<1>2. ListsAreHere'
  <2>1. Table[panel].parts \in 1 .. 3
    BY PanelFields DEF IInv, TypeOK
  <2>. QED BY <2>1 DEF ListInv, ListsAreHere
<1>3. OneGuarded'
  <2>. SUFFICES ASSUME Table[panel].guarded PROVE Listing = {}
       BY DEF OneGuarded
  <2>. QED BY DEF MayList, ListInv, ListsAreHere, Listing, Here
<1>4. AsksLater'
  BY <1>1 DEF ListInv, AsksLater
<1>5. SaidIsShown'
  BY <1>1 DEF ListInv, SaidIsShown
<1>6. rows[1].ver >= rows[1].ver
  BY VersionsAreNumbers
<1>. QED BY <1>2, <1>3, <1>4, <1>5, <1>6 DEF ListInv, OnlyForward

(* A part of the list is shown. *)
LEMMA ShownList ==
  ASSUME IInv, ListInv, UNCHANGED <<panel, version>>, NEW t \in Listing, NEW row,
         Shows(t, row), row.ver \in 0 .. version, LoadsOneList => t.since <= row.ver
  PROVE  ListInv' /\ OnlyForward
<1>1. LoadsOneList' <=> LoadsOneList
  BY OneStays
<1>2. t \in tasks /\ t \in Task /\ t.here /\ t.step <= Table[panel].parts /\ t.at = "list"
  BY DEF Listing, ListInv, ListsAreHere, IInv, TypeOK
<1>3. /\ rows'[1] = row \/ rows'[1] = rows[1]
      /\ t.step = 1 => rows'[1] = row
  BY DEF Shows, IInv, TypeOK
<1>4. rows'[1].ver <= version'
  BY <1>3, VersionsAreNumbers DEF ListInv
<1>5. CASE t.step < Table[panel].parts
  <2>0. PICK u : u = [t EXCEPT !.step = @ + 1, !.since = version]
    OBVIOUS
  <2>1. u.here = t.here /\ u.step = t.step + 1
    BY <1>2, <2>0 DEF Task
  <2>2. Listing' \subseteq (Listing \ {t}) \cup {u}
    BY <1>5, <2>0 DEF Shows, Listing
  <2>3. Table[panel].parts \in 1 .. 3 /\ t.step \in 1 .. 3
    BY <1>2, PanelFields DEF IInv, TypeOK, Task
  <2>4. ListsAreHere'
    <3>1. u.here /\ u.step <= Table[panel].parts
      BY <1>2, <1>5, <2>1, <2>3
    <3>2. \A w \in Listing : w.here /\ w.step <= Table[panel].parts
      BY DEF ListInv, ListsAreHere
    <3>. QED BY <2>2, <3>1, <3>2 DEF ListsAreHere
  <2>5. OneGuarded'
    BY <2>2 DEF ListInv, OneGuarded
  <2>6. ~LoadsOneList
    BY <1>5, <2>3 DEF LoadsOneList
  <2>. QED BY <1>1, <1>4, <2>4, <2>5, <2>6 DEF ListInv, AsksLater, SaidIsShown, OnlyForward
<1>6. CASE ~(t.step < Table[panel].parts)
  <2>1. tasks' = tasks \ {t} /\ told' = IF t.stored > told THEN t.stored ELSE told
    BY <1>6 DEF Shows, End
  <2>2. Listing' = Listing \ {t}
    BY <2>1 DEF Listing
  <2>3. ListsAreHere' /\ OneGuarded'
    BY <2>2 DEF ListInv, ListsAreHere, OneGuarded
  <2>4. ASSUME LoadsOneList
        PROVE  Listing' = {} /\ told' <= rows'[1].ver /\ rows'[1].ver >= rows[1].ver
    <3>1. Listing' = {}
      BY <2>2, <2>4, OneListing DEF ListInv
    <3>2. rows'[1] = row
      <4>1. t.step = 1
        BY <1>2, <2>4 DEF LoadsOneList, Task
      <4>. QED BY <1>3, <4>1
    <3>3. /\ told <= rows[1].ver /\ rows[1].ver <= t.since /\ t.stored <= t.since
          /\ t.since <= row.ver
      BY <2>4 DEF ListInv, SaidIsShown, AsksLater
    <3>4. told \in Nat /\ rows[1].ver \in Nat /\ t.since \in Nat /\ t.stored \in Nat /\ row.ver \in Nat
      BY <1>2, VersionsAreNumbers
    <3>. QED BY <2>1, <3>1, <3>2, <3>3, <3>4
  <2>. QED BY <1>1, <1>4, <2>3, <2>4 DEF ListInv, AsksLater, SaidIsShown, OnlyForward
<1>. QED BY <1>5, <1>6

(* When a panel is drawn for the first time. *)
LEMMA MountedList ==
  ASSUME panel \in DOMAIN Table, NEW t \in Mounted(panel), NEW u \in Mounted(panel)
  PROVE  t = u /\ t.here /\ t.step = 1 /\ t.stored = 0 /\ t.since = version
<1>1. PICK m \in Names : /\ Does[m].by = "mount"
                         /\ t = [id |-> 0, name |-> m, of |-> NoProvider, at |-> "list", step |-> 1,
                                 stored |-> 0, since |-> version, here |-> TRUE]
  BY DEF Mounted, Names, Does
<1>2. PICK n \in Names : /\ Does[n].by = "mount"
                         /\ u = [id |-> 0, name |-> n, of |-> NoProvider, at |-> "list", step |-> 1,
                                 stored |-> 0, since |-> version, here |-> TRUE]
  BY DEF Mounted, Names, Does
<1>3. m = n
  BY <1>1, <1>2, PanelFields
<1>. QED BY <1>1, <1>2, <1>3

LEMMA ListInit == Init => ListInv
<1>. SUFFICES ASSUME Init PROVE ListInv
     OBVIOUS
<1>1. Listing \subseteq Mounted(panel) /\ rows[1].ver = 0 /\ version = 1 /\ told = 0
  BY DEF Init, Listing, Blank
<1>2. panel \in DOMAIN Table /\ Table[panel].parts \in 1 .. 3
  BY PanelFields DEF Init
<1>3. \A t, u \in Listing : t = u /\ t.here /\ t.step = 1 /\ t.stored = 0 /\ t.since = version
  BY <1>1, <1>2, MountedList
<1>. QED BY <1>1, <1>2, <1>3 DEF ListInv, ListsAreHere, OneGuarded, AsksLater, SaidIsShown

LEMMA ListLeave ==
  ASSUME IInv, ListInv, Leave
  PROVE  ListInv' /\ OnlyForward
<1>1. UNCHANGED <<panel, version>> /\ rows'[1].ver = 0 /\ told' = 0
  BY DEF Leave, Blank
<1>2. leaves' # leaves
  BY PanelAssumption DEF Leave, IInv, TypeOK
<1>3. Listing' \subseteq Mounted(panel)
  <2>. SUFFICES ASSUME NEW w \in tasks, w.at = "call" PROVE [w EXCEPT !.here = FALSE].at # "list"
       BY DEF Leave, Listing
  <2>1. w \in Task
    BY DEF IInv, TypeOK
  <2>. QED BY <2>1 DEF Task
<1>4. panel \in DOMAIN Table /\ Table[panel].parts \in 1 .. 3 /\ version \in Nat
  BY PanelFields, VersionsAreNumbers DEF IInv, TypeOK
<1>5. \A t, u \in Listing' : t = u /\ t.here /\ t.step = 1 /\ t.stored = 0 /\ t.since = version
  BY <1>3, <1>4, MountedList
<1>. QED BY <1>1, <1>2, <1>4, <1>5
         DEF ListInv, ListsAreHere, OneGuarded, AsksLater, SaidIsShown, OnlyForward

LEMMA ListStart ==
  ASSUME IInv, ListInv, NEW n \in Names, Click(n) \/ Tick(n)
  PROVE  ListInv' /\ OnlyForward
<1>1. PICK id : Start(n, id) /\ UNCHANGED <<panel, rows, told, version>>
  BY DEF Click, Tick
<1>. DEFINE k == NewTask(n, id)
<1>2. /\ k.here /\ k.step = 1 /\ k.since = version /\ k.stored = 0
      /\ k.at = "list" <=> Does[n].calls = 0
  BY DEF NewTask
<1>3. tasks' = tasks \cup {k}
  BY <1>1 DEF Start
<1>4. version \in Nat
  BY VersionsAreNumbers
<1>5. CASE Does[n].calls = 0
  <2>1. MayList /\ Listing' \subseteq Listing \cup {k}
    BY <1>1, <1>3, <1>5 DEF Start, Listing
  <2>. QED BY <1>1, <1>2, <1>4, <2>1, NewList
<1>6. CASE Does[n].calls # 0
  <2>1. Listing' \subseteq Listing
    BY <1>2, <1>3, <1>6 DEF Listing
  <2>. QED BY <1>1, <1>4, <2>1, QuietList
<1>. QED BY <1>5, <1>6

LEMMA ListSettles ==
  ASSUME IInv, ListInv, NEW t \in tasks, Settles(t)
  PROVE  ListInv' /\ OnlyForward
<1>1. t \in Task /\ version \in Nat /\ t.stored \in Nat /\ t.since \in Nat /\ t.stored <= version
  BY VersionsAreNumbers DEF IInv, TypeOK, TasksOK
<1>2. CASE Stores(t)
  <2>1. UNCHANGED <<panel, rows, told>> /\ version' \in Nat /\ version' >= version
    BY <1>1, <1>2 DEF Stores
  <2>2. [t EXCEPT !.stored = version'].at # "list"
    BY <1>1, <1>2 DEF Stores, Task
  <2>3. Listing' \subseteq Listing
    BY <1>2, <2>2 DEF Stores, Listing
  <2>. QED BY <2>1, <2>3, QuietList
<1>3. CASE CallsAgain(t)
  <2>1. UNCHANGED <<panel, rows, told, version>>
    BY <1>3 DEF CallsAgain
  <2>2. [t EXCEPT !.step = @ + 1, !.stored = 0].at # "list"
    BY <1>1, <1>3 DEF CallsAgain, Task
  <2>3. Listing' \subseteq Listing
    BY <1>3, <2>2 DEF CallsAgain, Listing
  <2>. QED BY <1>1, <2>1, <2>3, QuietList
<1>4. CASE ListsAgain(t)
  <2>1. PICK k : k = [t EXCEPT !.at = "list", !.step = 1, !.since = version]
    OBVIOUS
  <2>2. k.here = t.here /\ k.step = 1 /\ k.since = version /\ k.stored = t.stored
    BY <1>1, <2>1 DEF Task
  <2>3. /\ UNCHANGED <<panel, rows, told, version>> /\ MayList /\ t.here
        /\ tasks' = (tasks \ {t}) \cup {k}
    BY <1>4, <2>1 DEF ListsAgain
  <2>4. Listing' \subseteq Listing \cup {k}
    BY <2>3 DEF Listing
  <2>. QED BY <1>1, <2>2, <2>3, <2>4, NewList
<1>5. CASE EndsAnswered(t) \/ CallFails(t)
  <2>1. UNCHANGED <<panel, rows, told, version>> /\ tasks' = tasks \ {t}
    BY <1>5 DEF EndsAnswered, CallFails, End
  <2>2. Listing' \subseteq Listing
    BY <2>1 DEF Listing
  <2>. QED BY <1>1, <2>1, <2>2, QuietList
<1>6. CASE ListAnswered(t)
  <2>1. PICK v \in t.since .. version :
           Shows(t, [of |-> IF Table[panel].scoped THEN t.of ELSE NoProvider, ver |-> v])
    BY <1>6 DEF ListAnswered
  <2>2. PICK row : row = [of |-> IF Table[panel].scoped THEN t.of ELSE NoProvider, ver |-> v]
    OBVIOUS
  <2>3. row.ver = v /\ v \in 0 .. version /\ t.since <= v
    BY <1>1, <2>1, <2>2
  <2>4. t \in Listing /\ Shows(t, row) /\ UNCHANGED <<panel, version>>
    BY <1>6, <2>1, <2>2 DEF ListAnswered, Listing
  <2>. QED BY <2>3, <2>4, ShownList
<1>7. CASE ListFails(t)
  <2>1. t \in Listing /\ UNCHANGED <<panel, version>>
    BY <1>7 DEF ListFails, Listing
  <2>2. CASE t.step \in Table[panel].soft
    <3>1. Shows(t, Blank) /\ Blank.ver = 0 /\ ~LoadsOneList
      BY <1>7, <2>2 DEF ListFails, Blank, LoadsOneList
    <3>. QED BY <1>1, <2>1, <3>1, ShownList
  <2>3. CASE t.step \notin Table[panel].soft
    <3>1. UNCHANGED <<rows, told>> /\ tasks' = tasks \ {t}
      BY <1>7, <2>3 DEF ListFails, End
    <3>2. Listing' \subseteq Listing
      BY <3>1 DEF Listing
    <3>. QED BY <1>1, <2>1, <3>1, <3>2, QuietList
  <2>. QED BY <2>2, <2>3
<1>. QED BY <1>2, <1>3, <1>4, <1>5, <1>6, <1>7 DEF Settles

LEMMA ListInductive == IInv /\ ListInv /\ [Next]_vars => ListInv' /\ OnlyForward
<1>. SUFFICES ASSUME IInv, ListInv, [Next]_vars PROVE ListInv' /\ OnlyForward
     OBVIOUS
<1>1. ASSUME NEW n \in Names, Click(n) \/ Tick(n) PROVE ListInv' /\ OnlyForward
  BY <1>1, ListStart
<1>2. CASE \/ \E d \in DOMAIN Table[panel].dialogs : OpenDialog(d)
           \/ CloseDialog \/ ProvidersLoaded \/ SelectProvider \/ OthersChange
           \/ UNCHANGED vars
  <2>1. UNCHANGED <<panel, rows, told, tasks>>
    BY <1>2 DEF OpenDialog, CloseDialog, ProvidersLoaded, SelectProvider, OthersChange, vars
  <2>2. version' = version \/ version' = version + 1
    BY <1>2 DEF OpenDialog, CloseDialog, ProvidersLoaded, SelectProvider, OthersChange, vars
  <2>3. version' \in Nat /\ version' >= version /\ Listing' = Listing
    BY <2>1, <2>2, VersionsAreNumbers DEF Listing
  <2>. QED BY <2>1, <2>3, QuietList
<1>3. CASE Leave
  BY <1>3, ListLeave
<1>4. ASSUME NEW t \in tasks, Settles(t) PROVE ListInv' /\ OnlyForward
  BY <1>4, ListSettles
<1>. QED BY <1>1, <1>2, <1>3, <1>4 DEF Next

(* A panel that loads one list at a time keeps showing the changes it has
   reported as done, whatever others change and whichever answers come late. *)
THEOREM OneListKeeps == Spec => []SaidIsShown
<1>1. IInv /\ ListInv /\ [Next]_vars => (IInv /\ ListInv)'
  BY Inductive, ListInductive
<1>2. IInv /\ ListInv => SaidIsShown
  BY DEF ListInv
<1>. QED BY InitInv, ListInit, <1>1, <1>2, PTL DEF Spec

(* And its list never goes back to an older state while the panel is open. *)
THEOREM OneListMovesOn == Spec => [][OnlyForward]_vars
<1>1. IInv /\ ListInv /\ [Next]_vars => (IInv /\ ListInv)' /\ [OnlyForward]_vars
  BY Inductive, ListInductive
<1>. QED BY InitInv, ListInit, <1>1, PTL DEF Spec

================================================================================
