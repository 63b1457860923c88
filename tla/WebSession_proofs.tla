--------------------------- MODULE WebSession_proofs ---------------------------
(***************************************************************************)
(* For any number of tabs, sign-ins and calls: every tab that has heard of *)
(* every change shows the session that is stored, and no session that      *)
(* ended comes back.                                                       *)
(***************************************************************************)
EXTENDS WebSession, TLAPS

(* A sign-in that a URL still carries was handed out, was never stored, and
   is in no other URL. *)
HashIsFresh ==
  \A t \in Tabs : hash[t] # NoToken =>
    /\ hash[t] \in issued /\ hash[t] \notin past /\ hash[t] # stored
    /\ \A u \in Tabs \ {t} : hash[u] # hash[t]

StoredWasIssued == stored \in issued \cup {NoToken}

SessionInv ==
  /\ TypeOK /\ TabsFollowStorage
  /\ EndedStaysEnded /\ StoredWasIssued /\ HashIsFresh

----------------------------------------------------------------------------
(* What becomes of one tab. *)

LEMMA RenderedTypes ==
  ASSUME NEW state \in State
  PROVE  /\ Rendered(state) \in State
         /\ Rendered(state).role = state.role
         /\ Rendered(state).isAuthenticated = state.isAuthenticated
BY DEF Rendered, State, Panes

LEMMA SyncTypes ==
  ASSUME NEW state \in State, NEW token \in Tokens \cup {NoToken}
  PROVE  /\ SyncSession(state, token) \in State
         /\ SyncSession(state, token).role = GetRole(token)
         /\ SyncSession(state, token).isAuthenticated = IsTokenValid(token)
<1>. DEFINE synced == [state EXCEPT !.isAuthenticated = IsTokenValid(token), !.role = GetRole(token)]
<1>1. synced \in State /\ synced.role = GetRole(token) /\ synced.isAuthenticated = IsTokenValid(token)
  BY DEF State, IsTokenValid, GetRole
<1>2. SyncSession(state, token) = Rendered(synced)
  BY DEF SyncSession
<1>. HIDE DEF synced
<1>. QED BY <1>1, <1>2, RenderedTypes

LEMMA NavigateTypes ==
  ASSUME NEW t \in Tabs, NEW state \in State, NEW section \in Sections
  PROVE  /\ NavigateToTab(t, state, section) \in State
         /\ NavigateToTab(t, state, section).role = state.role
         /\ NavigateToTab(t, state, section).isAuthenticated = state.isAuthenticated
<1>. DEFINE moved == [state EXCEPT !.section = IF t \in AdminPath THEN "admin" ELSE section]
<1>1. moved \in State /\ moved.role = state.role /\ moved.isAuthenticated = state.isAuthenticated
  BY DEF State, Sections
<1>2. NavigateToTab(t, state, section) = Rendered(moved)
  BY DEF NavigateToTab
<1>. HIDE DEF moved
<1>. QED BY <1>1, <1>2, RenderedTypes

LEMMA UrlTypes ==
  ASSUME NEW section \in Sections, NEW url \in Urls
  PROVE  OnPopState(section, url) \in Sections
<1>1. DOMAIN LegacySection = {"vm", "vip"} /\ LegacySection["vm"] = "myCompute" /\ LegacySection["vip"] = "admin"
  BY DEF LegacySection
<1>. QED BY <1>1 DEF OnPopState, Sections

(* The tab follows what is stored. *)
Follows(state, token) ==
  /\ state.role = GetRole(token)
  /\ IsTokenValid(token) => state.isAuthenticated
  /\ state.isAuthenticated => token # NoToken

LEMMA SyncFollows ==
  ASSUME NEW state \in State, NEW token \in Tokens \cup {NoToken}
  PROVE  Follows(SyncSession(state, token), token)
BY SyncTypes DEF Follows, IsTokenValid

(* A tab that writes follows at once, the others have not heard of it yet. *)
LEMMA StoreKeeps ==
  ASSUME SessionInv, NEW t \in Tabs, NEW token \in Tokens \cup {NoToken}, NEW state \in State,
         Store(t, token, state), expired' = expired
  PROVE  /\ tab' \in [Tabs -> State] /\ inbox' \subseteq Tabs
         /\ past' \subseteq past \cup ({stored} \ {token, NoToken})
         /\ TabsFollowStorage'
<1>. TypeOK /\ TabsFollowStorage
  BY DEF SessionInv
<1>1. tab' \in [Tabs -> State]
  BY SyncTypes DEF TypeOK, Store
<1>2. inbox' \subseteq Tabs /\ past' \subseteq past \cup ({stored} \ {token, NoToken})
  BY DEF TypeOK, Store
<1>3. ASSUME NEW u \in Tabs \ inbox' PROVE Follows(tab'[u], token)
  <2>1. CASE u = t
    <3>1. tab'[u] = SyncSession(state, token)
      BY <2>1 DEF TypeOK, Store
    <3>. QED BY <3>1, SyncFollows
  <2>2. CASE u # t
    <3>1. u \notin inbox /\ token = stored /\ tab'[u] = tab[u]
      BY <1>3, <2>2 DEF TypeOK, Store
    <3>. QED BY <3>1 DEF TabsFollowStorage, Follows
  <2>. QED BY <2>1, <2>2
<1>4. stored' = token /\ (IsTokenValid(stored))' = IsTokenValid(token)
  BY DEF Store, IsTokenValid
<1>. QED BY <1>1, <1>2, <1>3, <1>4 DEF TabsFollowStorage, Follows, GetRole

----------------------------------------------------------------------------
LEMMA SessionInit == Init => SessionInv
<1>. SUFFICES ASSUME Init PROVE SessionInv
  OBVIOUS
<1>1. tab \in [Tabs -> State]
  BY DEF Init, State, Sections, Panes
<1>2. calls \subseteq Call
  BY DEF Init, LoadSettings, Request, Call
<1>3. TabsFollowStorage
  BY DEF Init, TabsFollowStorage, GetRole, IsTokenValid
<1>. QED BY <1>1, <1>2, <1>3 DEF Init, SessionInv, TypeOK, EndedStaysEnded, StoredWasIssued, HashIsFresh

LEMMA SessionStep ==
  ASSUME SessionInv, [Next]_vars
  PROVE  SessionInv'
<1>. TypeOK /\ TabsFollowStorage /\ EndedStaysEnded /\ StoredWasIssued /\ HashIsFresh
  BY DEF SessionInv
<1>. NoToken \notin Tokens
  BY SessionAssumption
<1>1. ASSUME NEW t \in Tabs, StorageEvent(t) PROVE SessionInv'
  <2>1. tab' \in [Tabs -> State] /\ tab'[t] = SyncSession(tab[t], stored) /\ \A u \in Tabs \ {t} : tab'[u] = tab[u]
    BY <1>1, SyncTypes DEF StorageEvent, TypeOK
  <2>2. inbox' = inbox \ {t} /\ UNCHANGED <<stored, issued, expired, hash, calls, past>>
    BY <1>1 DEF StorageEvent
  <2>3. Follows(tab'[t], stored)
    BY <2>1, SyncFollows DEF TypeOK
  <2>4. TabsFollowStorage'
    BY <2>1, <2>2, <2>3 DEF TabsFollowStorage, Follows, IsTokenValid
  <2>. QED BY <2>1, <2>2, <2>4 DEF SessionInv, TypeOK, EndedStaysEnded, StoredWasIssued, HashIsFresh
<1>2. ASSUME NEW t \in Tabs, HandleLogout(t) PROVE SessionInv'
  <2>1. NavigateToTab(t, tab[t], "marketplace") \in State
    BY NavigateTypes DEF TypeOK, Sections
  <2>2. Store(t, NoToken, NavigateToTab(t, tab[t], "marketplace")) /\ UNCHANGED <<issued, expired, hash, calls>>
    BY <1>2 DEF HandleLogout
  <2>3. /\ tab' \in [Tabs -> State] /\ inbox' \subseteq Tabs
        /\ past' \subseteq past \cup ({stored} \ {NoToken})
        /\ TabsFollowStorage'
    BY <2>1, <2>2, StoreKeeps
  <2>4. stored' = NoToken
    BY <2>2 DEF Store
  <2>. QED BY <2>2, <2>3, <2>4 DEF SessionInv, TypeOK, EndedStaysEnded, StoredWasIssued, HashIsFresh
<1>3. ASSUME NEW t \in Tabs, NEW form \in Forms, SubmitForm(t, form) PROVE SessionInv'
  <2>1. calls' \subseteq Call
    BY <1>3 DEF SubmitForm, Request, Call, TypeOK
  <2>2. UNCHANGED <<stored, issued, expired, tab, hash, inbox, past>>
    BY <1>3 DEF SubmitForm
  <2>. QED BY <2>1, <2>2 DEF SessionInv, TypeOK, TabsFollowStorage, EndedStaysEnded, StoredWasIssued, HashIsFresh,
              IsTokenValid
<1>4. ASSUME NEW t \in Tabs, NEW section \in Sections, NEW token \in Tokens \cup {NoToken}, Start(t, section, token), expired' = expired,
             stored' = stored
      PROVE  /\ tab' \in [Tabs -> State] /\ inbox' \subseteq Tabs /\ TabsFollowStorage'
             /\ hash' \in [Tabs -> Tokens \cup {NoToken}]
             /\ hash'[t] = token /\ \A u \in Tabs \ {t} : hash'[u] = hash[u]
  <2>. DEFINE fresh == [tab[t] EXCEPT !.pane = "instances"]
              synced == SyncSession(fresh, stored)
  <2>f. fresh \in State
    <3>1. PICK old \in State : old = tab[t]
      BY DEF TypeOK
    <3>2. [old EXCEPT !.pane = "instances"] \in State
      BY DEF State, Panes
    <3>. QED BY <3>1, <3>2
  <2>. HIDE DEF fresh
  <2>1. synced \in State /\ Follows(synced, stored)
    BY <2>f, SyncTypes, SyncFollows DEF TypeOK
  <2>. HIDE DEF synced
  <2>2. NavigateToTab(t, synced, section) \in State /\ Follows(NavigateToTab(t, synced, section), stored)
    BY <2>1, NavigateTypes DEF Follows
  <2>3. tab' = [tab EXCEPT ![t] = NavigateToTab(t, synced, section)]
    BY <1>4 DEF Start, synced, fresh
  <2>4. tab' \in [Tabs -> State] /\ Follows(tab'[t], stored) /\ \A u \in Tabs \ {t} : tab'[u] = tab[u]
    BY <2>2, <2>3 DEF TypeOK
  <2>5. TabsFollowStorage'
    BY <1>4, <2>4 DEF Start, TabsFollowStorage, Follows, IsTokenValid
  <2>. QED BY <1>4, <2>4, <2>5 DEF Start, TypeOK
<1>5. ASSUME NEW t \in Tabs, Reload(t) PROVE SessionInv'
  <2>1. PICK url \in Urls : Start(t, OnPopState("marketplace", url), NoToken)
    BY <1>5 DEF Reload
  <2>s. OnPopState("marketplace", url) \in Sections
    BY UrlTypes DEF Sections
  <2>2. UNCHANGED <<stored, issued, expired, past>>
    BY <1>5 DEF Reload
  <2>3. calls' \subseteq Call
    BY <1>5 DEF Reload, LoadSettings, Request, Call, TypeOK
  <2>4. /\ tab' \in [Tabs -> State] /\ inbox' \subseteq Tabs /\ TabsFollowStorage'
        /\ hash' \in [Tabs -> Tokens \cup {NoToken}]
        /\ hash'[t] = NoToken /\ \A u \in Tabs \ {t} : hash'[u] = hash[u]
    BY <1>4, <2>1, <2>2, <2>s
  <2>5. HashIsFresh'
    BY <2>2, <2>4 DEF HashIsFresh
  <2>. QED BY <2>2, <2>3, <2>4, <2>5 DEF SessionInv, TypeOK, EndedStaysEnded, StoredWasIssued
<1>6. ASSUME NEW t \in Tabs, ReturnFromGoogle(t) PROVE SessionInv'
  <2>1. PICK token \in Tokens \ issued : issued' = issued \cup {token} /\ Start(t, "myCompute", token)
    BY <1>6 DEF ReturnFromGoogle
  <2>2. UNCHANGED <<stored, expired, past>> /\ calls' \subseteq Call
    BY <1>6 DEF ReturnFromGoogle, TypeOK
  <2>3. "myCompute" \in Sections
    BY DEF Sections
  <2>4. /\ tab' \in [Tabs -> State] /\ inbox' \subseteq Tabs /\ TabsFollowStorage'
        /\ hash' \in [Tabs -> Tokens \cup {NoToken}]
        /\ hash'[t] = token /\ \A u \in Tabs \ {t} : hash'[u] = hash[u]
    BY <1>4, <2>1, <2>2, <2>3
  <2>5. token \notin past /\ token # stored /\ \A u \in Tabs : hash[u] # token
    BY <2>1 DEF TypeOK, StoredWasIssued, HashIsFresh
  <2>6. HashIsFresh'
    BY <2>1, <2>2, <2>4, <2>5 DEF HashIsFresh
  <2>. QED BY <2>1, <2>2, <2>4, <2>6 DEF SessionInv, TypeOK, EndedStaysEnded, StoredWasIssued
<1>7. ASSUME NEW t \in Tabs, ConsumeOAuthCallback(t) PROVE SessionInv'
  <2>1. hash[t] \in Tokens /\ tab[t] \in State /\ UNCHANGED <<issued, expired>> /\ Store(t, hash[t], tab[t])
    BY <1>7 DEF ConsumeOAuthCallback, TypeOK
  <2>2. calls' \subseteq Call
    BY <1>7, <2>1 DEF ConsumeOAuthCallback, LoadSettings, Request, Call, TypeOK
  <2>3. /\ tab' \in [Tabs -> State] /\ inbox' \subseteq Tabs
        /\ past' \subseteq past \cup ({stored} \ {hash[t], NoToken})
        /\ TabsFollowStorage'
    BY <2>1, StoreKeeps
  <2>4. stored' = hash[t] /\ hash[t] \in issued /\ hash[t] \notin past
    BY <2>1, <1>7 DEF Store, HashIsFresh, ConsumeOAuthCallback
  <2>5. hash' \in [Tabs -> Tokens \cup {NoToken}] /\ hash'[t] = NoToken /\ \A u \in Tabs \ {t} : hash'[u] = hash[u]
    BY <1>7 DEF ConsumeOAuthCallback, CleanURL, TypeOK
  <2>6. HashIsFresh'
    BY <1>7, <2>1, <2>3, <2>4, <2>5 DEF HashIsFresh, ConsumeOAuthCallback
  <2>. QED BY <2>1, <2>2, <2>3, <2>4, <2>5, <2>6 DEF SessionInv, TypeOK, EndedStaysEnded, StoredWasIssued
<1>8. ASSUME NEW t \in Tabs, CallApi(t) PROVE SessionInv'
  <2>1. calls' \subseteq Call
    BY <1>8 DEF CallApi, Request, Call, TypeOK
  <2>2. UNCHANGED <<stored, issued, expired, tab, hash, inbox, past>>
    BY <1>8 DEF CallApi
  <2>. QED BY <2>1, <2>2 DEF SessionInv, TypeOK, TabsFollowStorage, EndedStaysEnded, StoredWasIssued, HashIsFresh,
              IsTokenValid
<1>9. ASSUME NEW t \in Tabs, NEW section \in Sections,
             tab' = [tab EXCEPT ![t] = NavigateToTab(t, @, section)],
             UNCHANGED <<stored, issued, expired, hash, inbox, calls, past>>
      PROVE  SessionInv'
  <2>1. /\ tab' \in [Tabs -> State]
        /\ \A u \in Tabs : tab'[u].role = tab[u].role /\ tab'[u].isAuthenticated = tab[u].isAuthenticated
    BY <1>9, NavigateTypes DEF TypeOK
  <2>. QED BY <1>9, <2>1 DEF SessionInv, TypeOK, TabsFollowStorage, EndedStaysEnded, StoredWasIssued, HashIsFresh,
              IsTokenValid
<1>10. ASSUME NEW c \in calls, Settles(c) \/ SignInRefused(c) PROVE SessionInv'
  <2>1. calls' \subseteq calls /\ UNCHANGED <<stored, issued, expired, tab, hash, inbox, past>>
    BY <1>10 DEF Settles, SignInRefused
  <2>. QED BY <2>1 DEF SessionInv, TypeOK, TabsFollowStorage, EndedStaysEnded, StoredWasIssued, HashIsFresh,
              IsTokenValid
<1>11. ASSUME NEW c \in calls, Unauthorized(c) PROVE SessionInv'
  <2>1. c.tab \in Tabs /\ tab[c.tab] \in State /\ UNCHANGED <<issued, expired, hash>> /\ calls' \subseteq calls
        /\ Store(c.tab, NoToken, tab[c.tab])
    BY <1>11 DEF Unauthorized, TypeOK, Call
  <2>2. /\ tab' \in [Tabs -> State] /\ inbox' \subseteq Tabs
        /\ past' \subseteq past \cup ({stored} \ {NoToken})
        /\ TabsFollowStorage'
    BY <2>1, StoreKeeps
  <2>3. stored' = NoToken
    BY <2>1 DEF Store
  <2>. QED BY <2>1, <2>2, <2>3 DEF SessionInv, TypeOK, EndedStaysEnded, StoredWasIssued, HashIsFresh
<1>12. ASSUME NEW c \in calls, SignedIn(c) PROVE SessionInv'
  <2>1. c.tab \in Tabs /\ tab[c.tab] \in State /\ UNCHANGED <<expired, hash>> /\ calls' \subseteq calls
    BY <1>12 DEF SignedIn, TypeOK, Call
  <2>2. PICK token \in Tokens \ issued : issued' = issued \cup {token} /\ Store(c.tab, token, tab[c.tab])
    BY <1>12 DEF SignedIn
  <2>3. /\ tab' \in [Tabs -> State] /\ inbox' \subseteq Tabs
        /\ past' \subseteq past \cup ({stored} \ {token, NoToken})
        /\ TabsFollowStorage'
    BY <2>1, <2>2, StoreKeeps
  <2>4. stored' = token /\ token \notin past /\ \A u \in Tabs : hash[u] # token
    BY <2>2 DEF Store, TypeOK, HashIsFresh
  <2>5. HashIsFresh'
    BY <2>1, <2>2, <2>3, <2>4 DEF HashIsFresh
  <2>. QED BY <2>1, <2>2, <2>3, <2>4, <2>5 DEF SessionInv, TypeOK, EndedStaysEnded, StoredWasIssued
<1>13. ASSUME NEW token \in Tokens, TokenExpires(token) PROVE SessionInv'
  <2>1. expired' = expired \cup {token} /\ token \in issued /\ UNCHANGED <<stored, issued, tab, hash, inbox, calls, past>>
    BY <1>13 DEF TokenExpires
  <2>. QED BY <2>1 DEF SessionInv, TypeOK, TabsFollowStorage, EndedStaysEnded, StoredWasIssued, HashIsFresh,
              IsTokenValid
<1>14. CASE UNCHANGED vars
  BY <1>14 DEF vars, SessionInv, TypeOK, TabsFollowStorage, EndedStaysEnded, StoredWasIssued, HashIsFresh, IsTokenValid
<1>16. ASSUME NEW t \in Tabs, PopState(t) PROVE SessionInv'
  <2>1. ASSUME NEW url \in Urls PROVE OnPopState(tab[t].section, url) \in Sections
    <3>1. tab[t].section \in Sections
      BY DEF TypeOK, State
    <3>. QED BY <3>1, UrlTypes
  <2>. QED BY <1>9, <1>16, <2>1 DEF PopState
<1>17. ASSUME NEW t \in Tabs, NEW section \in Sections, Navigate(t, section) PROVE SessionInv'
  BY <1>9, <1>17 DEF Navigate
<1>18. ASSUME NEW t \in Tabs, NEW state \in State, tab' = [tab EXCEPT ![t] = state],
              state.role = tab[t].role, state.isAuthenticated = tab[t].isAuthenticated,
              UNCHANGED <<stored, issued, expired, hash, inbox, calls, past>>
       PROVE  SessionInv'
  <2>1. /\ tab' \in [Tabs -> State]
        /\ \A u \in Tabs : tab'[u].role = tab[u].role /\ tab'[u].isAuthenticated = tab[u].isAuthenticated
    BY <1>18 DEF TypeOK
  <2>. QED BY <1>18, <2>1 DEF SessionInv, TypeOK, TabsFollowStorage, EndedStaysEnded, StoredWasIssued, HashIsFresh,
              IsTokenValid
<1>19. ASSUME NEW t \in Tabs, NEW pane \in Panes, MyComputePanel(t, pane) PROVE SessionInv'
  <2>1. PICK old \in State : old = tab[t]
    BY DEF TypeOK
  <2>2. [old EXCEPT !.pane = pane] \in State
        /\ [old EXCEPT !.pane = pane].role = old.role
        /\ [old EXCEPT !.pane = pane].isAuthenticated = old.isAuthenticated
    BY DEF State
  <2>3. tab' = [tab EXCEPT ![t] = [old EXCEPT !.pane = pane]]
    BY <1>19, <2>1 DEF MyComputePanel, TypeOK
  <2>. QED BY <1>18, <1>19, <2>1, <2>2, <2>3 DEF MyComputePanel
<1>20. ASSUME NEW t \in Tabs, VisibilityChange(t) PROVE SessionInv'
  <2>1. PICK old \in State : old = tab[t]
    BY DEF TypeOK
  <2>2. PICK visible \in BOOLEAN : tab' = [tab EXCEPT ![t].visible = visible]
    BY <1>20 DEF VisibilityChange
  <2>3. [old EXCEPT !.visible = visible] \in State
        /\ [old EXCEPT !.visible = visible].role = old.role
        /\ [old EXCEPT !.visible = visible].isAuthenticated = old.isAuthenticated
    BY DEF State
  <2>4. tab' = [tab EXCEPT ![t] = [old EXCEPT !.visible = visible]]
    BY <2>1, <2>2 DEF TypeOK
  <2>. QED BY <1>18, <1>20, <2>1, <2>3, <2>4 DEF VisibilityChange
<1>21. ASSUME NEW t \in Tabs, Session(t) PROVE SessionInv'
  <2>1. {"login", "register", "direct"} \subseteq Forms
    BY DEF Forms
  <2>. QED BY <1>2, <1>3, <1>6, <1>21, <1>16, <1>17, <1>19, <2>1
           DEF Session, Submit, QuickLogin, SubmitCredentials
<1>. QED
  BY <1>1, <1>5, <1>7, <1>8, <1>10, <1>11, <1>12, <1>13, <1>14, <1>21, <1>20 DEF Next

----------------------------------------------------------------------------
(* The invariant of the session: what a URL still carries is fresh. *)
THEOREM SessionInvariant == Spec => []SessionInv
<1>1. Init => SessionInv
  BY SessionInit
<1>2. SessionInv /\ [Next]_vars => SessionInv'
  BY SessionStep
<1>. QED BY <1>1, <1>2, PTL DEF Spec

(* Every tab, call and URL stays within its types (useSessionState, fetchJSON). *)
THEOREM TypeCorrect == Spec => []TypeOK
<1>1. SessionInv => TypeOK
  BY DEF SessionInv
<1>. QED BY <1>1, SessionInvariant, PTL

(* A tab that has heard of every change shows the stored session's role and
   is signed in with it (useSessionState and the storage listener of App). *)
THEOREM EveryTabFollows == Spec => []TabsFollowStorage
<1>1. SessionInv => TabsFollowStorage
  BY DEF SessionInv
<1>. QED BY <1>1, SessionInvariant, PTL

(* Neither a reload, nor a late answer, nor a return from Google brings back a
   session that ended (lib/auth, consumeOAuthCallback). *)
THEOREM NoSessionReturns == Spec => []EndedStaysEnded
<1>1. SessionInv => EndedStaysEnded
  BY DEF SessionInv
<1>. QED BY <1>1, SessionInvariant, PTL

================================================================================
