------------------------------- MODULE PanelTable -------------------------------
(***************************************************************************)
(* The panels of the web client that show a list of the service: their     *)
(* handlers, the flags their buttons are disabled by, and their dialogs,   *)
(* as ListPanel reads them.                                                *)
(***************************************************************************)
EXTENDS Integers

(* Buttons of the page that change something and load the list again. *)
Button(off, sets, calls) ==
  [by |-> "click", in |-> "page", off |-> off, wants |-> {}, sets |-> sets,
   calls |-> calls, lists |-> TRUE, shuts |-> "never"]

(* A call whose answer is shown by itself. *)
Asks(off, sets) == [Button(off, sets, 1) EXCEPT !.lists = FALSE]

OfRow(h) == [h EXCEPT !.wants = @ \cup {"row"}]
OfProvider(h) == [h EXCEPT !.wants = @ \cup {"provider"}]
InDialog(h, d, shuts) == [h EXCEPT !.in = d, !.shuts = shuts]

(* refresh(): by a button, in the effect of the mount, by useAutoRefresh. *)
Reload(off) == Button(off, {}, 0)
OnMount == [Reload({}) EXCEPT !.by = "mount"]
AutoRefresh == [Reload({}) EXCEPT !.by = "timer"]

Modal(off, wants) == [off |-> off, holds |-> {}, wants |-> wants]
NoDialogs == [d \in {} |-> Modal({}, {})]

Panel(flag, does, dialogs) ==
  [flag |-> flag, parts |-> 1, soft |-> {}, guarded |-> FALSE, scoped |-> FALSE,
   does |-> does, dialogs |-> dialogs]

Loading == {"loading"}

----------------------------------------------------------------------------
(* Virtual machines. *)

\* Mutant of VMCreate: it does not set loading.
VMCreateUnlocked == OfProvider(Button(Loading, {}, 1))

VMCreate == OfProvider(Button(Loading, Loading, 1))

\* Mutant of VMMutate: the dropdown is not disabled.
VMMutateAnyTime == OfRow(Button({}, Loading, 1))

VMMutate == OfRow(Button(Loading, Loading, 1))

VMTerminate == InDialog(OfRow(Button({}, Loading, 1)), "terminate", "click")

VMPanel ==
  Panel(Loading,
        [mount |-> OnMount, refresh |-> Reload(Loading), create |-> VMCreate,
         mutate |-> VMMutate, terminate |-> VMTerminate],
        [terminate |-> Modal(Loading, {"row"})])

----------------------------------------------------------------------------
(* VM templates of the user. *)

SaveTemplate == Button(Loading, Loading, 1)

MyTemplatesPanel ==
  Panel(Loading, [mount |-> OnMount, refresh |-> Reload(Loading), save |-> SaveTemplate], NoDialogs)

----------------------------------------------------------------------------
(* Shares of VMs and pods: a share, then the offer of its capacity. *)

ShareVM == Button({"creating"}, {"creating"}, 2)

\* Mutant of SharedVMPanel: refreshRunningRef is not looked at.
SharedVMPanelUnguarded ==
  Panel(Loading,
        [mount |-> OnMount, tick |-> AutoRefresh, refresh |-> Reload(Loading), share |-> ShareVM],
        NoDialogs)

(* refreshRunningRef guards its refresh. *)
SharedVMPanel ==
  [Panel(Loading,
         [mount |-> OnMount, tick |-> AutoRefresh, refresh |-> Reload(Loading), share |-> ShareVM],
         NoDialogs) EXCEPT !.guarded = TRUE]

SharePod == OfProvider(Button(Loading, Loading, 2))

SharedPodsPanel ==
  Panel(Loading,
        [mount |-> OnMount, tick |-> AutoRefresh, refresh |-> Reload(Loading), share |-> SharePod],
        NoDialogs)

----------------------------------------------------------------------------
(* Kubernetes clusters: the dialog stays open while a cluster is deleted,
   and its button is not disabled. *)

CreateCluster == OfProvider(Button(Loading, Loading, 1))

SyncCluster == OfRow(Button({"loading", "deleting"}, Loading, 1))

RemoveCluster == InDialog(OfRow(Button({}, {"deleting"}, 1)), "delete", "done")

DeleteClusterDialog == [Modal({"loading", "deleting"}, {"row"}) EXCEPT !.holds = {"deleting"}]

K8sClustersPanel ==
  Panel(Loading,
        [mount |-> OnMount, refresh |-> Reload(Loading), create |-> CreateCluster,
         sync |-> SyncCluster, remove |-> RemoveCluster],
        [delete |-> DeleteClusterDialog])

----------------------------------------------------------------------------
(* Allocations of a provider. *)

LoadAllocations == OfProvider(Reload(Loading))

CreateAllocation == InDialog(OfProvider(Button(Loading, Loading, 1)), "create", "answered")

ReleaseAllocation == InDialog(OfRow(Button({}, Loading, 1)), "release", "answered")

Heartbeat == OfProvider(Asks(Loading, Loading))

HostPanel ==
  [Panel(Loading,
         [tick |-> OfProvider(AutoRefresh), load |-> LoadAllocations, create |-> CreateAllocation,
          release |-> ReleaseAllocation, heartbeat |-> Heartbeat],
         [create |-> Modal({}, {}), release |-> Modal({}, {"row"})]) EXCEPT !.scoped = TRUE]

----------------------------------------------------------------------------
(* The provider's dashboard: its allocations, then its logs and offers, then
   its commands, which are blanked when they cannot be loaded.  Of the five
   waits of a refresh two are left out: the one for all VMs' health checks and
   metrics and the one for the runtime inventory, which nothing here changes;
   the answers before and after them come at any time, so theirs only delay. *)

PublishCapacity == OfProvider(Button({}, {}, 1))

SendAgentCommand == OfProvider(Button({}, {}, 1))

ProviderDashboardPanel ==
  [Panel(Loading,
         [tick |-> OfProvider(AutoRefresh), load |-> OfProvider(Reload(Loading)),
          publish |-> PublishCapacity, command |-> SendAgentCommand],
         NoDialogs) EXCEPT !.scoped = TRUE, !.parts = 3, !.soft = {3}]

----------------------------------------------------------------------------
(* My Instances, without its terminal: nothing is disabled by an action. *)

RunAction == OfRow(Button({}, {}, 1))

TerminateInstance == InDialog(RunAction, "terminate", "click")

OpenLogs == OfRow(Asks({}, {}))

ReserveOffer == OfRow(Button(Loading, {}, 1))

ServerRentalPanel ==
  Panel(Loading,
        [mount |-> OnMount, tick |-> AutoRefresh, refresh |-> Reload(Loading),
         act |-> RunAction, terminate |-> TerminateInstance, logs |-> OpenLogs,
         reserve |-> ReserveOffer],
        [terminate |-> Modal({}, {"row"})])

----------------------------------------------------------------------------
(* The catalogue and the deployment of a pod from it. *)

LoadCatalog == OnMount

SubmitDeployRequest == OfProvider(OfRow(Asks({}, {})))

MarketplacePanel ==
  Panel({"catalogLoading"}, [mount |-> LoadCatalog, deploy |-> SubmitDeployRequest], NoDialogs)

----------------------------------------------------------------------------
(* Administration. *)

CreatePodTemplate == Button({}, {}, 1)

CreateCatalogPod == Button({}, {}, 1)

RemovePod == InDialog(OfRow(Button({}, {}, 1)), "delete", "click")

ShowProxy == OfRow(Asks({}, {}))

AdminPodsPanel ==
  Panel(Loading,
        [mount |-> OnMount, template |-> CreatePodTemplate, create |-> CreateCatalogPod,
         remove |-> RemovePod, proxy |-> ShowProxy],
        [delete |-> Modal(Loading, {"row"})])

CreateServer == InDialog(Button({"creating"}, {"creating"}, 1), "create", "answered")

AdminServersPanel ==
  Panel(Loading, [mount |-> OnMount, refresh |-> Reload(Loading), create |-> CreateServer],
        [create |-> Modal({}, {})])

RefreshInstallCommand == Asks({"commandLoading"}, {"commandLoading"})

AdminConsolePanel ==
  Panel(Loading, [refresh |-> Reload(Loading), install |-> RefreshInstallCommand], NoDialogs)

AdminDashboardPanel == Panel(Loading, [mount |-> OnMount, refresh |-> Reload(Loading)], NoDialogs)

SharingAdminPanel == Panel(Loading, [refresh |-> Reload(Loading)], NoDialogs)

----------------------------------------------------------------------------
(* Billing of a provider, and the user's settings. *)

PreviewUsage == OfProvider(Asks(Loading, Loading))

LoadAccrualRows == OfProvider(Reload(Loading))

BillingPanel ==
  [Panel(Loading, [preview |-> PreviewUsage, load |-> LoadAccrualRows], NoDialogs)
   EXCEPT !.scoped = TRUE]

SaveSettings == Asks(Loading, Loading)

AddSSHKey == Asks(Loading, Loading)

RemoveSSHKey == InDialog(OfRow(Asks({}, Loading)), "delete", "click")

(* Its list is loaded once, without a flag. *)
SettingsPanel ==
  Panel({}, [mount |-> OnMount, save |-> SaveSettings, add |-> AddSSHKey, remove |-> RemoveSSHKey],
        [delete |-> Modal({}, {"row"})])

----------------------------------------------------------------------------
ClientTable ==
  [vm |-> VMPanel, templates |-> MyTemplatesPanel, sharedVM |-> SharedVMPanel,
   sharedPods |-> SharedPodsPanel, k8sClusters |-> K8sClustersPanel, host |-> HostPanel,
   providerDashboard |-> ProviderDashboardPanel, rental |-> ServerRentalPanel,
   marketplace |-> MarketplacePanel, adminPods |-> AdminPodsPanel,
   adminServers |-> AdminServersPanel, adminConsole |-> AdminConsolePanel,
   adminDashboard |-> AdminDashboardPanel, sharingAdmin |-> SharingAdminPanel,
   billing |-> BillingPanel, settings |-> SettingsPanel]
================================================================================
