--------------------------- MODULE ClientPanels_proofs ---------------------------
(***************************************************************************)
(* The forms of the client that are disabled until their handler has       *)
(* ended: the flag of each is a lock in its panel's table, so that what is *)
(* proved of locks in ListPanel_proofs keeps two submissions apart; and    *)
(* the panels that load one list at a time.                                *)
(***************************************************************************)
EXTENDS ClientPanels, ListPanel_proofs

(* What the operators of the table make of a handler. *)
IsHandler(h) ==
  h \in [by : {h.by}, in : {h.in}, off : {h.off}, wants : {h.wants}, sets : {h.sets},
         calls : {h.calls}, lists : {h.lists}, shuts : {h.shuts}]

LEMMA ButtonFields ==
  ASSUME NEW off, NEW sets, NEW calls
  PROVE  /\ IsHandler(Button(off, sets, calls))
         /\ Button(off, sets, calls).by = "click" /\ Button(off, sets, calls).in = "page"
         /\ Button(off, sets, calls).off = off /\ Button(off, sets, calls).sets = sets
         /\ Button(off, sets, calls).calls = calls
BY DEF Button, IsHandler

LEMMA AsksFields ==
  ASSUME NEW off, NEW sets
  PROVE  /\ IsHandler(Asks(off, sets))
         /\ Asks(off, sets).by = "click" /\ Asks(off, sets).in = "page"
         /\ Asks(off, sets).off = off /\ Asks(off, sets).sets = sets
<1>1. /\ IsHandler(Button(off, sets, 1))
      /\ Button(off, sets, 1).by = "click" /\ Button(off, sets, 1).in = "page"
      /\ Button(off, sets, 1).off = off /\ Button(off, sets, 1).sets = sets
  BY ButtonFields
<1>2. PICK b : b = Button(off, sets, 1)
  OBVIOUS
<1>3. Asks(off, sets) = [b EXCEPT !.lists = FALSE]
  BY <1>2 DEF Asks
<1>. QED BY <1>1, <1>2, <1>3 DEF IsHandler

LEMMA WantsFields ==
  ASSUME NEW h, IsHandler(h)
  PROVE  \A k \in {OfRow(h), OfProvider(h)} :
           /\ IsHandler(k) /\ k.by = h.by /\ k.in = h.in /\ k.off = h.off /\ k.sets = h.sets
           /\ k.calls = h.calls
BY DEF OfRow, OfProvider, IsHandler

LEMMA DialogFields ==
  ASSUME NEW h, IsHandler(h), NEW d, NEW when
  PROVE  LET k == InDialog(h, d, when)
         IN k.by = h.by /\ k.in = d /\ k.off = h.off /\ k.sets = h.sets /\ k.shuts = when
BY DEF InDialog, IsHandler

LEMMA ReloadFields ==
  ASSUME NEW off
  PROVE  /\ IsHandler(Reload(off))
         /\ Reload(off).by = "click" /\ Reload(off).in = "page"
         /\ Reload(off).off = off /\ Reload(off).sets = {} /\ Reload(off).calls = 0
BY ButtonFields DEF Reload

LEMMA OnMountFields == OnMount.by = "mount" /\ OnMount.sets = {} /\ OnMount.calls = 0
BY ReloadFields DEF OnMount, IsHandler

LEMMA OfVM ==
  ASSUME panel = "vm", NEW n \in {"create", "mutate", "terminate"}
  PROVE  n \in Names /\ "loading" \in Flags(n) /\ Locks("loading")
<1>1. Does = [mount |-> OnMount, refresh |-> Reload(Loading), create |-> VMCreate,
              mutate |-> VMMutate, terminate |-> VMTerminate]
  BY ClientAssumption DEF Does, ClientTable, VMPanel, Panel
<1>2. Flag = {"loading"} /\ Table[panel].dialogs["terminate"].off = {"loading"}
  BY ClientAssumption DEF Flag, ClientTable, VMPanel, Panel, Loading, Modal
<1>3. \A m \in {"create", "mutate"} :
         Does[m].by = "click" /\ Does[m].in = "page" /\ Does[m].off = Loading /\ Does[m].sets = Loading
  <2>1. /\ IsHandler(Button(Loading, Loading, 1)) /\ Button(Loading, Loading, 1).by = "click"
        /\ Button(Loading, Loading, 1).in = "page" /\ Button(Loading, Loading, 1).off = Loading
        /\ Button(Loading, Loading, 1).sets = Loading
    BY ButtonFields
  <2>2. Does["create"] = VMCreate /\ Does["mutate"] = VMMutate
    BY <1>1
  <2>. QED BY <2>1, <2>2, WantsFields DEF VMCreate, VMMutate
<1>4. LET h == Does["terminate"]
      IN h.by = "click" /\ h.in = "terminate" /\ h.sets = Loading /\ h.shuts = "click"
  <2>. DEFINE b == Button({}, Loading, 1)
  <2>1. IsHandler(b) /\ b.by = "click" /\ b.sets = Loading
    BY ButtonFields
  <2>2. IsHandler(OfRow(b)) /\ OfRow(b).by = "click" /\ OfRow(b).sets = Loading
    BY <2>1, WantsFields
  <2>3. Does["terminate"] = InDialog(OfRow(b), "terminate", "click")
    BY <1>1 DEF VMTerminate
  <2>. QED BY <2>2, <2>3, DialogFields
<1>5. LET h == Does["refresh"]
      IN h.by = "click" /\ h.in = "page" /\ h.off = Loading /\ h.calls = 0
  BY <1>1, ReloadFields
<1>6. Does["mount"].by = "mount" /\ Does["mount"].calls = 0
  BY <1>1, OnMountFields
<1>7. Names = {"mount", "refresh", "create", "mutate", "terminate"}
  BY <1>1 DEF Names
<1>8. n \in Names /\ "loading" \in Flags(n)
  BY <1>3, <1>4, <1>7 DEF Flags, Loading
<1>9. Locks("loading")
  <2>1. \A m \in {"create", "mutate", "refresh"} :
           Does[m].by = "click" /\ ~Bars("loading", m) /\ "loading" \in Does[m].off
    BY <1>3, <1>5 DEF Bars, Loading
  <2>2. Bars("loading", "terminate")
    BY <1>2, <1>4 DEF Bars
  <2>. QED BY <2>1, <2>2, <1>3, <1>4, <1>5, <1>6, <1>7 DEF Locks, Loading
<1>. QED BY <1>8, <1>9

LEMMA OfTemplates ==
  ASSUME panel = "templates"
  PROVE  "save" \in Names /\ "loading" \in Flags("save") /\ Locks("loading")
<1>1. Does = [mount |-> OnMount, refresh |-> Reload(Loading), save |-> SaveTemplate]
  BY ClientAssumption DEF Does, ClientTable, MyTemplatesPanel, Panel
<1>2. "save" \in Names /\ "loading" \in Flags("save")
  BY <1>1 DEF Names, Flags, SaveTemplate, Button, Loading
<1>3. Locks("loading")
  BY <1>1 DEF Locks, Bars, Names, Flags, OnMount, Reload, SaveTemplate, Button, Loading
<1>. QED BY <1>2, <1>3

LEMMA OfSharedVM ==
  ASSUME panel = "sharedVM"
  PROVE  "share" \in Names /\ "creating" \in Flags("share") /\ Locks("creating")
<1>1. Does = [mount |-> OnMount, tick |-> AutoRefresh, refresh |-> Reload(Loading),
              share |-> ShareVM]
  BY ClientAssumption DEF Does, ClientTable, SharedVMPanel, Panel
<1>2. Flag = {"loading"}
  BY ClientAssumption DEF Flag, ClientTable, SharedVMPanel, Panel, Loading
<1>3. "share" \in Names /\ "creating" \in Flags("share")
  BY <1>1 DEF Names, Flags, ShareVM, Button
<1>4. Locks("creating")
  BY <1>1, <1>2 DEF Locks, Bars, Names, Flags, OnMount, AutoRefresh, Reload, ShareVM, Button
<1>. QED BY <1>3, <1>4

LEMMA OfAdminServers ==
  ASSUME panel = "adminServers"
  PROVE  "create" \in Names /\ "creating" \in Flags("create") /\ Locks("creating")
<1>1. Does = [mount |-> OnMount, refresh |-> Reload(Loading), create |-> CreateServer]
  BY ClientAssumption DEF Does, ClientTable, AdminServersPanel, Panel
<1>2. Flag = {"loading"} /\ Table[panel].dialogs["create"].off = {}
  BY ClientAssumption DEF Flag, ClientTable, AdminServersPanel, Panel, Loading, Modal
<1>3. "create" \in Names /\ "creating" \in Flags("create")
  BY <1>1 DEF Names, Flags, CreateServer, InDialog, Button
<1>4. LET h == Does["create"]
      IN h.by = "click" /\ h.in = "create" /\ h.off = {"creating"} /\ h.sets = {"creating"}
  <2>1. IsHandler(Button({"creating"}, {"creating"}, 1))
    BY ButtonFields
  <2>2. Does["create"] = CreateServer
    BY <1>1
  <2>. QED BY <2>1, <2>2, ButtonFields, DialogFields DEF CreateServer
<1>5. \A m \in {"mount", "refresh"} : "creating" \notin Flags(m)
  <2>1. Does["mount"] = OnMount /\ Does["refresh"] = Reload(Loading)
    BY <1>1
  <2>2. Does["mount"].sets = {} /\ Does["refresh"].sets = {}
    BY <2>1, OnMountFields, ReloadFields
  <2>. QED BY <1>2, <2>2 DEF Flags
<1>6. Names = {"mount", "refresh", "create"}
  BY <1>1 DEF Names
<1>7. ~Bars("creating", "create")
  BY <1>2, <1>4 DEF Bars
<1>8. Locks("creating")
  BY <1>4, <1>5, <1>6, <1>7 DEF Locks
<1>. QED BY <1>3, <1>8

LEMMA OfAdminConsole ==
  ASSUME panel = "adminConsole"
  PROVE  "install" \in Names /\ "commandLoading" \in Flags("install") /\ Locks("commandLoading")
<1>1. Does = [refresh |-> Reload(Loading), install |-> RefreshInstallCommand]
  BY ClientAssumption DEF Does, ClientTable, AdminConsolePanel, Panel
<1>2. Flag = {"loading"}
  BY ClientAssumption DEF Flag, ClientTable, AdminConsolePanel, Panel, Loading
<1>3. "install" \in Names /\ "commandLoading" \in Flags("install")
  BY <1>1 DEF Names, Flags, RefreshInstallCommand, Asks, Button
<1>4. Locks("commandLoading")
  BY <1>1, <1>2 DEF Locks, Bars, Names, Flags, Reload, RefreshInstallCommand, Asks, Button
<1>. QED BY <1>3, <1>4

LEMMA OfBilling ==
  ASSUME panel = "billing"
  PROVE  "preview" \in Names /\ "loading" \in Flags("preview") /\ Locks("loading")
<1>1. Does = [preview |-> PreviewUsage, load |-> LoadAccrualRows]
  BY ClientAssumption DEF Does, ClientTable, BillingPanel, Panel
<1>2. "preview" \in Names /\ "loading" \in Flags("preview")
  BY <1>1 DEF Names, Flags, PreviewUsage, OfProvider, Asks, Button, Loading
<1>3. LET h == Does["preview"]
      IN h.by = "click" /\ h.in = "page" /\ h.off = Loading /\ h.sets = Loading
  <2>1. IsHandler(Asks(Loading, Loading))
    BY AsksFields
  <2>2. Does["preview"] = PreviewUsage
    BY <1>1
  <2>. QED BY <2>1, <2>2, AsksFields, WantsFields DEF PreviewUsage
<1>4. LET h == Does["load"]
      IN h.by = "click" /\ h.in = "page" /\ h.off = Loading /\ h.calls = 0
  <2>1. IsHandler(Reload(Loading))
    BY ReloadFields
  <2>2. Does["load"] = LoadAccrualRows
    BY <1>1
  <2>. QED BY <2>1, <2>2, ReloadFields, WantsFields DEF LoadAccrualRows
<1>5. Names = {"preview", "load"}
  BY <1>1 DEF Names
<1>6. Locks("loading")
  BY <1>3, <1>4, <1>5 DEF Locks, Bars, Loading
<1>. QED BY <1>2, <1>6

(* A guarded form sets a lock of its panel. *)
LEMMA GuardedByLock ==
  ASSUME NEW g \in GuardedForms, panel = g[1]
  PROVE  \E f \in AllFlags : Locks(f) /\ f \in Flags(g[2])
<1>1. SUFFICES g[2] \in Names /\ \E f \in Flags(g[2]) : Locks(f)
  BY DEF AllFlags
<1>2. CASE g \in {<<"vm", "create">>, <<"vm", "mutate">>, <<"vm", "terminate">>}
  <2>1. panel = "vm" /\ g[2] \in {"create", "mutate", "terminate"}
    BY <1>2
  <2>. QED BY <2>1, OfVM
<1>3. CASE g = <<"templates", "save">>
  BY <1>3, OfTemplates
<1>4. CASE g = <<"sharedVM", "share">>
  BY <1>4, OfSharedVM
<1>5. CASE g = <<"adminServers", "create">>
  BY <1>5, OfAdminServers
<1>6. CASE g = <<"adminConsole", "install">>
  BY <1>6, OfAdminConsole
<1>7. CASE g = <<"billing", "preview">>
  BY <1>7, OfBilling
<1>. QED BY <1>2, <1>3, <1>4, <1>5, <1>6, <1>7 DEF GuardedForms

(* No guarded form of the client is submitted again while its submission
   lasts: of any number of clicks, with any number of changes and refreshes in
   between. *)
THEOREM GuardedFormsHold == Spec => []SubmittedOnce
<1>1. SingleFlight => SubmittedOnce
  <2>. SUFFICES ASSUME SingleFlight, NEW g \in GuardedForms, panel = g[1],
                       NEW t \in Here, NEW u \in Here, t.name = g[2], u.name = g[2]
                PROVE  t = u
       BY DEF SubmittedOnce
  <2>1. PICK f \in AllFlags : Locks(f) /\ f \in Flags(g[2])
    BY GuardedByLock
  <2>. QED BY <2>1 DEF SingleFlight
<1>. QED BY <1>1, LocksExclude, PTL

----------------------------------------------------------------------------
(* The panels that load one list at a time: by a lock that every list of theirs
   is loaded under, or by the guard of the refresh. *)

(* A lock of a panel whose only listing handlers load the list and nothing else. *)
LEMMA OnlyReloads ==
  ASSUME NEW f \in Flag,
         \A n \in Names :
           \/ Does[n] = OnMount
           \/ Does[n] = Reload({f})
           \/ f \notin Does[n].sets /\ ~Does[n].lists
  PROVE  Locks(f)
<1>. SUFFICES ASSUME NEW n \in Names, f \in Flags(n)
              PROVE  /\ Does[n].by # "timer"
                     /\ Does[n].calls > 0 => f \in Does[n].sets
                     /\ Does[n].by = "click" => f \in Does[n].off \/ Bars(f, n)
                     /\ Does[n].by = "click" /\ Bars(f, n) => Does[n].shuts = "click"
     BY DEF Locks
<1>1. CASE Does[n] = OnMount
  BY <1>1, OnMountFields
<1>2. CASE Does[n] = Reload({f})
  BY <1>2, ReloadFields DEF Bars
<1>. QED BY <1>1, <1>2 DEF Flags

LEMMA OneListPanelsDo ==
  ASSUME panel \in OneListPanels
  PROVE  LoadsOneList
<1>1. Table[panel].parts = 1 /\ Table[panel].soft = {}
  <2>1. CASE panel \in {"vm", "templates", "marketplace"}
    BY <2>1, ClientAssumption DEF ClientTable, Panel, VMPanel, MyTemplatesPanel, MarketplacePanel
  <2>2. CASE panel \in {"adminConsole", "adminDashboard", "sharingAdmin"}
    BY <2>2, ClientAssumption
       DEF ClientTable, Panel, AdminConsolePanel, AdminDashboardPanel, SharingAdminPanel
  <2>3. CASE panel = "sharedVM"
    BY <2>3, ClientAssumption DEF ClientTable, Panel, SharedVMPanel
  <2>4. CASE panel = "billing"
    BY <2>4, ClientAssumption DEF ClientTable, Panel, BillingPanel
  <2>. QED BY <2>1, <2>2, <2>3, <2>4 DEF OneListPanels
<1>2. CASE panel = "sharedVM"
  <2>1. Table[panel].guarded
    BY <1>2, ClientAssumption DEF ClientTable, SharedVMPanel, Panel
  <2>. QED BY <1>1, <2>1 DEF LoadsOneList
<1>3. CASE panel \in {"vm", "templates", "billing"}
  <2>1. "loading" \in Flag
    BY <1>3, ClientAssumption
       DEF Flag, ClientTable, VMPanel, MyTemplatesPanel, BillingPanel, Panel, Loading
  <2>2. Locks("loading")
    BY <1>3, OfVM, OfTemplates, OfBilling
  <2>. QED BY <1>1, <2>1, <2>2 DEF LoadsOneList
<1>4. CASE panel = "marketplace"
  <2>1. Does = [mount |-> OnMount, deploy |-> SubmitDeployRequest] /\ Flag = {"catalogLoading"}
    BY <1>4, ClientAssumption DEF Does, Flag, ClientTable, MarketplacePanel, Panel, LoadCatalog
  <2>2. SubmitDeployRequest.sets = {} /\ ~SubmitDeployRequest.lists
    BY DEF SubmitDeployRequest, OfProvider, OfRow, Asks, Button
  <2>3. Locks("catalogLoading")
    BY <2>1, <2>2, OnlyReloads DEF Names
  <2>. QED BY <1>1, <2>1, <2>3 DEF LoadsOneList
<1>5. CASE panel = "adminConsole"
  <2>1. Does = [refresh |-> Reload(Loading), install |-> RefreshInstallCommand] /\ Flag = {"loading"}
    BY <1>5, ClientAssumption DEF Does, Flag, ClientTable, AdminConsolePanel, Panel, Loading
  <2>2. RefreshInstallCommand.sets = {"commandLoading"} /\ ~RefreshInstallCommand.lists
    BY DEF RefreshInstallCommand, Asks, Button
  <2>3. Locks("loading")
    BY <2>1, <2>2, OnlyReloads DEF Names, Loading
  <2>. QED BY <1>1, <2>1, <2>3 DEF LoadsOneList
<1>6. CASE panel \in {"adminDashboard", "sharingAdmin"}
  <2>1. Flag = {"loading"} /\ \A n \in Names : Does[n] = OnMount \/ Does[n] = Reload({"loading"})
    BY <1>6, ClientAssumption
       DEF Flag, Names, Does, ClientTable, AdminDashboardPanel, SharingAdminPanel, Panel, Loading
  <2>2. Locks("loading")
    BY <2>1, OnlyReloads
  <2>. QED BY <1>1, <2>1, <2>2 DEF LoadsOneList
<1>. QED BY <1>2, <1>3, <1>4, <1>5, <1>6 DEF OneListPanels

(* In the panels that load one list at a time, a change that was reported as
   done stays in the list that is shown, whatever others change at the service
   and however late answers come. *)
THEOREM WhatWasSaidStays == Spec => []KeepsWhatItSaid
<1>1. SaidIsShown => KeepsWhatItSaid
  BY OneListPanelsDo DEF SaidIsShown, KeepsWhatItSaid
<1>. QED BY <1>1, OneListKeeps, PTL

(* There, no answer puts an older list over a newer one while the panel is
   open. *)
THEOREM ListsMoveOn == Spec => ListsInOrder
<1>1. [OnlyForward]_vars
        => [(panel \in OneListPanels /\ leaves' = leaves) => rows'[1].ver >= rows[1].ver]_vars
  BY OneListPanelsDo DEF OnlyForward
<1>. QED BY <1>1, OneListMovesOn, PTL DEF ListsInOrder
================================================================================
