------------------------------ MODULE ClientPanels ------------------------------
(***************************************************************************)
(* ListPanel for the panels of the client, and what some of them promise   *)
(* beyond what every panel does.                                           *)
(***************************************************************************)
EXTENDS ListPanel, PanelTable

ASSUME ClientAssumption == Table = ClientTable

(* The forms that are disabled until their handler has ended. *)
GuardedForms ==
  {<<"vm", "create">>, <<"vm", "mutate">>, <<"vm", "terminate">>, <<"templates", "save">>,
   <<"sharedVM", "share">>, <<"adminServers", "create">>, <<"adminConsole", "install">>,
   <<"billing", "preview">>}

(***************************************************************************)
(* A guarded form is not submitted again before its first submission has   *)
(* ended, whatever refreshes, timers and dialogs come in between.  (The    *)
(* other forms are: see the README.)                                       *)
(***************************************************************************)
SubmittedOnce ==
  \A g \in GuardedForms : panel = g[1] =>
    \A t, u \in Here : t.name = g[2] /\ u.name = g[2] => t = u

(* The panels that load one list at a time. *)
OneListPanels ==
  {"vm", "templates", "sharedVM", "marketplace", "adminConsole", "adminDashboard",
   "sharingAdmin", "billing"}

(***************************************************************************)
(* There, a change that was reported as done stays in the list that is     *)
(* shown.                                                                  *)
(***************************************************************************)
KeepsWhatItSaid == panel \in OneListPanels => told <= rows[1].ver

(***************************************************************************)
(* There, the list never goes back to an older state while the panel is    *)
(* open.                                                                   *)
(***************************************************************************)
ListsInOrder ==
  [][ (panel \in OneListPanels /\ leaves' = leaves) => rows'[1].ver >= rows[1].ver ]_vars
================================================================================
