------------------------------- MODULE WebSession -------------------------------
(***************************************************************************)
(* Who is signed in to the web client.  The token and the user are kept in *)
(* the localStorage that all tabs of a browser share; every tab keeps its  *)
(* own copy of what follows from it (useSessionState) and brings it up to  *)
(* date when it changes the session itself or when the browser tells it    *)
(* that another tab did.  Calls carry the token stored when they were sent *)
(* and are answered whenever; no timer watches the token's expiry.         *)
(*                                                                         *)
(* setSession and clearSession write token and user in one task, modelled  *)
(* as one step, and so are the effects React runs after an event.          *)
(***************************************************************************)
EXTENDS Integers, FiniteSets

CONSTANTS
  Tabs,       \* open tabs of one browser
  AdminPath,  \* the tabs whose path is /admin
  Tokens,     \* the tokens authservice may hand out, one per sign-in
  Admins,     \* the tokens of administrators
  NoToken,    \* nothing stored
  MaxCalls    \* bound: calls of a tab's panels waiting for their answer

ASSUME SessionAssumption ==
  /\ AdminPath \subseteq Tabs /\ Admins \subseteq Tokens
  /\ NoToken \notin Tokens /\ MaxCalls \in Nat \ {0}

(* The parts of the menu a session can tell apart: of the sections with a
   panel that polls, myCompute stands for all. *)
Sections == {"marketplace", "myCompute", "admin"}

(* mapLegacySection, one name per section it maps to. *)
LegacySection == [vm |-> "myCompute", vip |-> "admin"]

Urls == Sections \cup DOMAIN LegacySection \cup {"junk"}

VARIABLES
  stored,   \* host_token and host_user of localStorage
  issued,   \* the tokens handed out
  expired,  \* the tokens whose exp has passed
  tab,      \* the state of each tab
  hash,     \* the sign-in a tab's URL carries after a return from Google
  inbox,    \* the tabs with a storage event under way
  calls,    \* calls waiting for their answer
  past      \* history: the sessions that ended

vars == <<stored, issued, expired, tab, hash, inbox, calls, past>>

Forms == {"login", "register", "direct"}
(* The sub-tabs of MyComputePanel: "vm" and "templates" are one. *)
Panes == {"instances", "other"}

State == [isAuthenticated : BOOLEAN, role : {"guest", "user", "admin"},
          section : Sections, pane : Panes, visible : BOOLEAN]
Call == [tab : Tabs, kind : Forms \cup {"api"}, token : Tokens \cup {NoToken}]

TypeOK ==
  /\ stored \in Tokens \cup {NoToken} /\ issued \subseteq Tokens /\ expired \subseteq issued
  /\ tab \in [Tabs -> State]
  /\ hash \in [Tabs -> Tokens \cup {NoToken}]
  /\ inbox \subseteq Tabs
  /\ calls \subseteq Call
  /\ past \subseteq issued

----------------------------------------------------------------------------
(* lib/auth, read from what is stored. *)

GetRole(token) ==
  IF token = NoToken THEN "guest" ELSE IF token \in Admins THEN "admin" ELSE "user"

IsTokenValid(token) == token # NoToken /\ token \notin expired

(* The sub-tab of MyComputePanel is the panel's own state: it is lost with the
   panel, which App shows only in its section and only to a signed-in tab. *)
Rendered(state) ==
  [state EXCEPT !.pane = IF state.isAuthenticated /\ state.section = "myCompute" THEN @ ELSE "instances"]

(* Both states of useSessionState, for what will be stored. *)
SyncSession(state, token) ==
  Rendered([state EXCEPT !.isAuthenticated = IsTokenValid(token), !.role = GetRole(token)])

(* The write of one tab: it syncs at once, the others get a storage event. *)
Store(t, token, state) ==
  /\ stored' = token
  /\ past' = IF stored \in {NoToken, token} THEN past ELSE past \cup {stored}
  /\ tab' = [tab EXCEPT ![t] = SyncSession(state, token)]
  /\ inbox' = IF token = stored THEN inbox ELSE inbox \cup (Tabs \ {t})

\* Mutant of StorageEvent: the tab only follows a sign-in.
StorageEventSignIn(t) ==
  /\ t \in inbox /\ inbox' = inbox \ {t}
  /\ tab' = IF stored = NoToken THEN tab ELSE [tab EXCEPT ![t] = SyncSession(@, stored)]
  /\ UNCHANGED <<stored, issued, expired, hash, calls, past>>

StorageEvent(t) ==
  /\ t \in inbox /\ inbox' = inbox \ {t}
  /\ tab' = [tab EXCEPT ![t] = SyncSession(@, stored)]
  /\ UNCHANGED <<stored, issued, expired, hash, calls, past>>

TokenExpires(token) ==
  /\ token \in issued \ expired /\ expired' = expired \cup {token}
  /\ UNCHANGED <<stored, issued, tab, hash, inbox, calls, past>>

----------------------------------------------------------------------------
(* Sections and the URL. *)

(* navigateToTab, and the effect that leads a tab at /admin back. *)
NavigateToTab(t, state, section) ==
  Rendered([state EXCEPT !.section = IF t \in AdminPath THEN "admin" ELSE section])

(* Menu, shortcut or a panel's link; the shortcuts work signed out as well. *)
Navigate(t, section) ==
  /\ tab' = [tab EXCEPT ![t] = NavigateToTab(t, @, section)]
  /\ UNCHANGED <<stored, issued, expired, hash, inbox, calls, past>>

\* Mutant of OnPopState: a legacy name is taken as it is.
OnPopStateAsIs(section, url) ==
  IF url \in Sections \cup DOMAIN LegacySection THEN url ELSE section

(* The section a URL names; any other URL changes nothing. *)
OnPopState(section, url) ==
  CASE url \in Sections -> url
    [] url \in DOMAIN LegacySection -> LegacySection[url]
    [] OTHER -> section

(* Back, forward, or the link "Create first instance". *)
PopState(t) ==
  /\ \E section \in {OnPopState(tab[t].section, url) : url \in Urls} :
       tab' = [tab EXCEPT ![t] = NavigateToTab(t, @, section)]
  /\ UNCHANGED <<stored, issued, expired, hash, inbox, calls, past>>

(* The sub-tabs of the section myCompute. *)
MyComputePanel(t, pane) ==
  /\ tab[t].isAuthenticated /\ tab[t].section = "myCompute"
  /\ tab' = [tab EXCEPT ![t].pane = pane]
  /\ UNCHANGED <<stored, issued, expired, hash, inbox, calls, past>>

(* The browser's tab is hidden or shown again.  Where nothing polls it is all
   one, so it is hidden in myCompute only. *)
VisibilityChange(t) ==
  /\ tab[t].section = "myCompute" \/ ~tab[t].visible
  /\ \E visible \in BOOLEAN \ {tab[t].visible} : tab' = [tab EXCEPT ![t].visible = visible]
  /\ UNCHANGED <<stored, issued, expired, hash, inbox, calls, past>>

----------------------------------------------------------------------------
(* Calls. *)

Outstanding(t) == {c \in calls : c.tab = t}

(* fetchJSON reads the token when it sends. *)
Request(t, kind, token) == [tab |-> t, kind |-> kind, token |-> token]

(* What a panel asks for: when it appears, by a click, or by a timer. *)
CallApi(t) ==
  /\ tab[t].isAuthenticated
  /\ Cardinality({c \in Outstanding(t) : c.kind = "api"}) < MaxCalls
  /\ calls' = calls \cup {Request(t, "api", stored)}
  /\ UNCHANGED <<stored, issued, expired, tab, hash, inbox, past>>

(* Of the three panels of myCompute only the list of instances has a timer,
   which does nothing while the tab is hidden. *)
Polls(t) ==
  /\ tab[t].isAuthenticated /\ tab[t].visible
  /\ tab[t].section = "myCompute" /\ tab[t].pane = "instances"

AutoRefresh(t) == Polls(t) /\ CallApi(t)

(* The call's own result, any failure but 401 (403 is one), or no answer: only
   the panel that asked hears of it. *)
Settles(c) ==
  /\ c.kind = "api" /\ calls' = calls \ {c}
  /\ UNCHANGED <<stored, issued, expired, tab, hash, inbox, past>>

\* Mutant of ClearsSession: nothing but a missing token does.
ClearsSessionNoToken(c) == c.kind = "api" /\ c.token = NoToken

(* 401, which the calls of the sign-in forms keep to themselves. *)
ClearsSession(c) == c.kind = "api" /\ ~IsTokenValid(c.token)

(* Whoever is signed in by now is signed out. *)
Unauthorized(c) ==
  /\ ClearsSession(c) /\ calls' = calls \ {c}
  /\ Store(c.tab, NoToken, tab[c.tab])
  /\ UNCHANGED <<issued, expired, hash>>

----------------------------------------------------------------------------
(* Signing in and out. *)

(* App shows the form of /admin or the general one to a tab that is signed
   out, and the admin section shows the former to a user who is no admin. *)
AdminForm(t) ==
  IF tab[t].isAuthenticated THEN tab[t].section = "admin" /\ tab[t].role # "admin" ELSE t \in AdminPath

AuthForm(t) == ~tab[t].isAuthenticated /\ t \notin AdminPath

(* A service that signs in does not look at the token.  The loading state of
   the buttons is left out: a button waits at most for the answer to its own
   call, and a call that is made twice is one element of calls. *)
SubmitForm(t, form) ==
  /\ calls' = calls \cup {Request(t, form, NoToken)}
  /\ UNCHANGED <<stored, issued, expired, tab, hash, inbox, past>>

(* The submit button waits for its own path only, the quick sign-in beside
   it for "login": a sign-in and a registration can be under way at once. *)
Submit(t, path) == AuthForm(t) /\ SubmitForm(t, path)

QuickLogin(t) == AuthForm(t) /\ SubmitForm(t, "login")

SubmitCredentials(t) == AdminForm(t) /\ SubmitForm(t, "direct")

(* The answer of a form signs in whoever it was for, whatever was stored and
   whether or not the form is still there. *)
SignedIn(c) ==
  /\ c.kind \in Forms /\ calls' = calls \ {c}
  /\ \E token \in Tokens \ issued :
       /\ c.kind = "direct" <=> token \in Admins
       /\ issued' = issued \cup {token}
       /\ Store(c.tab, token, tab[c.tab])
  /\ UNCHANGED <<expired, hash>>

SignInRefused(c) ==
  /\ c.kind \in Forms /\ calls' = calls \ {c}
  /\ UNCHANGED <<stored, issued, expired, tab, hash, inbox, past>>

HandleLogout(t) ==
  /\ tab[t].isAuthenticated
  /\ Store(t, NoToken, NavigateToTab(t, tab[t], "marketplace"))
  /\ UNCHANGED <<issued, expired, hash, calls>>

(* A page starts from what is stored; the calls of the page before are gone. *)
Start(t, section, token) ==
  /\ tab' = [tab EXCEPT ![t] =
       NavigateToTab(t, SyncSession([@ EXCEPT !.pane = "instances"], stored), section)]
  /\ hash' = [hash EXCEPT ![t] = token]
  /\ inbox' = inbox \ {t}

(* SettingsProvider asks for the settings at once, signed in or not. *)
LoadSettings(t, token) == Request(t, "api", token)

Reload(t) ==
  /\ hash[t] = NoToken
  /\ \E section \in {OnPopState("marketplace", url) : url \in Urls} : Start(t, section, NoToken)
  /\ calls' = (calls \ Outstanding(t)) \cup {LoadSettings(t, stored)}
  /\ UNCHANGED <<stored, issued, expired, past>>

(* "Continue with Google" leaves the page and comes back with a token. *)
ReturnFromGoogle(t) ==
  /\ AuthForm(t)
  /\ \E token \in Tokens \ (issued \cup Admins) :
       /\ issued' = issued \cup {token}
       /\ Start(t, "myCompute", token)
  /\ calls' = calls \ Outstanding(t)
  /\ UNCHANGED <<stored, expired, past>>

\* Mutant of CleanURL: the fragment stays in the URL.
CleanURLKept(t) == UNCHANGED hash

CleanURL(t) == hash' = [hash EXCEPT ![t] = NoToken]

(* The effect that runs after every render: the settings are asked for after
   the first. *)
ConsumeOAuthCallback(t) ==
  /\ hash[t] # NoToken /\ CleanURL(t)
  /\ Store(t, hash[t], tab[t])
  /\ calls' = calls \cup {LoadSettings(t, hash[t])}
  /\ UNCHANGED <<issued, expired>>

----------------------------------------------------------------------------
Init ==
  /\ stored = NoToken /\ issued = {} /\ expired = {} /\ past = {}
  /\ tab = [t \in Tabs |->
       [isAuthenticated |-> FALSE, role |-> "guest",
        section |-> IF t \in AdminPath THEN "admin" ELSE "marketplace",
        pane |-> "instances", visible |-> TRUE]]
  /\ hash = [t \in Tabs |-> NoToken] /\ inbox = {}
  /\ calls = {LoadSettings(t, NoToken) : t \in Tabs}

(* What the user does, in a tab that is seen. *)
Session(t) ==
  /\ tab[t].visible
  /\ \/ HandleLogout(t)
     \/ Submit(t, "login") \/ Submit(t, "register") \/ QuickLogin(t) \/ SubmitCredentials(t)
     \/ ReturnFromGoogle(t) \/ PopState(t)
     \/ \E section \in Sections : Navigate(t, section)
     \/ \E pane \in Panes : MyComputePanel(t, pane)

Next ==
  \/ \E t \in Tabs :
       \/ Session(t) \/ VisibilityChange(t)
       \/ StorageEvent(t) \/ ConsumeOAuthCallback(t) \/ Reload(t) \/ CallApi(t)
  \/ \E c \in calls :
       Settles(c) \/ Unauthorized(c) \/ SignedIn(c) \/ SignInRefused(c)
  \/ \E token \in Tokens : TokenExpires(token)

(* Timers and storage events run, every call comes to an end, and of those a
   tab sends with an expired token some are answered.  No panel that a tab at
   /admin shows polls. *)
Fairness ==
  /\ \A t \in Tabs : WF_vars(StorageEvent(t))
  /\ \A t \in Tabs \ AdminPath :
       /\ WF_vars(AutoRefresh(t))
       /\ WF_vars(\E c \in Outstanding(t) : Settles(c) \/ Unauthorized(c))
       /\ SF_vars(\E c \in Outstanding(t) : c.token \in expired /\ Unauthorized(c))

Spec == Init /\ [][Next]_vars /\ Fairness

----------------------------------------------------------------------------
(***************************************************************************)
(* A tab that has heard of every change shows the role of the session that *)
(* is stored, is signed in if that session is valid, and is never signed   *)
(* in without one: the admin console is open to administrators only.       *)
(***************************************************************************)
TabsFollowStorage ==
  \A t \in Tabs \ inbox :
    /\ tab[t].role = GetRole(stored)
    /\ IsTokenValid(stored) => tab[t].isAuthenticated
    /\ tab[t].isAuthenticated => stored # NoToken

(***************************************************************************)
(* A session that ended never comes back, by no reload, no late answer and *)
(* no fragment that is still in a URL.                                     *)
(***************************************************************************)
EndedStaysEnded == stored \notin past

(***************************************************************************)
(* A tab that goes on showing a list with a timer, in a window that is not *)
(* hidden, does not stay signed in with an expired token.  (Under another  *)
(* sub-tab or a hidden one it may, for as long as nothing is clicked.)     *)
(***************************************************************************)
ExpiredSignsOut == \A t \in Tabs \ AdminPath : ~ <>[](Polls(t) /\ stored \in expired)

(***************************************************************************)
(* When nobody is signed in any more, every tab comes to show it.          *)
(***************************************************************************)
SignedOutEverywhere ==
  stored = NoToken ~> ((\A t \in Tabs : ~tab[t].isAuthenticated) \/ stored # NoToken)
================================================================================
