--------------------------- MODULE BrowserSession ---------------------------
(***************************************************************************)
(* The web client's side of a session: the tabs of one browser, which share *)
(* the refresh cookie, and the API of module Sessions that answers them.    *)
(*                                                                          *)
(* A tab keeps in memory the access token, the refresh in flight, the       *)
(* account it shows, and whether a sign-in or sign-out has decided it.  The *)
(* browser attaches the cookie when a request leaves and stores the one an  *)
(* answer brings when it arrives, in whatever order the answers come.       *)
(***************************************************************************)
EXTENDS Sessions, Naturals

CONSTANTS
    Calls,       \* API calls a tab may have open at once, besides the restore's (bound)
    MaxReloads   \* bound: how often pages are loaded anew

ASSUME BrowserAssumption == Calls \cap {"me", "device"} = {} /\ MaxReloads \in Nat

VARIABLES
    jar,      \* the refresh cookie
    tabs,     \* the state of client.ts and auth-context.tsx in each tab
    reloads

vars == <<tokens, requests, jar, tabs, reloads>>

Tabs == Clients

\* The calls of a page, the restore's question who it is, and the end of the push messages.
CallNames == Calls \cup {"me", "device"}

\* adopts: the account that a save, once answered, puts in the place of the one shown: the
\* answer's, or the one that was shown when the button was pressed, with a new name in it.
NoCall == [phase |-> "idle", as |-> None, adopts |-> "nothing", before |-> None]

\* leaving: how far a sign-out is that has not reached its request.
FreshTab == [status |-> "loading", account |-> None, accessToken |-> None,
             decided |-> FALSE, restore |-> "start", refreshInFlight |-> FALSE,
             acting |-> FALSE, leaving |-> "no", calls |-> [c \in CallNames |-> NoCall]]

\* apiFetch and its retry: the token goes with the call when it is sent.
Sent(b, adopts) == [phase |-> "sent", as |-> tabs[b].accessToken, adopts |-> adopts,
                    before |-> IF adopts = "shown" THEN tabs[b].account ELSE None]

Set(b, tab) == tabs' = [tabs EXCEPT ![b] = tab]

Of(r, b, kind) == requests[r].client = b /\ requests[r].kind = kind

\* A fetch settles with an answer, or rejects.  (Mutant: the catch is missing.)
OnAnswer(r) == requests[r].step \in {"ok", "refused"}
Settled(r) == Answered(r)

StoreCookie(r, t) == jar' = IF requests[r].step = "ok" THEN t ELSE jar

-----------------------------------------------------------------------------
(* The refresh, shared by all that wait for it. *)

\* refreshSession: joins the refresh in flight.  (Mutant: starts its own.)
StartRefresh(b, r) == Refresh(r, b, jar)
RefreshSession(b, r) ==
    IF tabs[b].refreshInFlight THEN UNCHANGED <<tokens, requests>> ELSE Refresh(r, b, jar)

\* The session restore no longer counts once the user has decided.
\* (Mutant: it counts whenever it comes.)
NeverStale(tab) == FALSE
Stale(tab) == tab.decided

\* The end of the restore: the account fetched, or None.
Restored(tab, account) ==
    LET ended == [tab EXCEPT !.restore = "done"] IN
    IF Stale(tab) THEN ended
    ELSE IF account = None THEN [ended EXCEPT !.status = "anonymous"]
    ELSE [ended EXCEPT !.status = "authenticated", !.account = account]

\* AuthProvider mounts.
Restore(b, r) ==
    /\ tabs[b].restore = "start"
    /\ RefreshSession(b, r)
    /\ Set(b, [tabs[b] EXCEPT !.restore = "refresh", !.refreshInFlight = TRUE])
    /\ UNCHANGED <<jar, reloads>>

\* What waits for the refresh: each call is sent once more with the new token or
\* fails, and the restore asks who it is or gives up.
Resume(tab, user) ==
    LET next == [tab EXCEPT
            !.accessToken = user, !.refreshInFlight = FALSE,
            !.calls = [c \in DOMAIN tab.calls |->
                IF tab.calls[c].phase # "waiting" THEN tab.calls[c]
                ELSE IF user = None THEN NoCall
                ELSE [tab.calls[c] EXCEPT !.phase = "resent", !.as = user]]]
    IN  IF tab.restore = "refresh" /\ user # None
        THEN [next EXCEPT !.restore = "me",
                          !.calls["me"] = [NoCall EXCEPT !.phase = "sent", !.as = user]]
        ELSE IF user = None /\ (tab.restore = "refresh" \/ tab.calls["me"].phase = "waiting")
        THEN Restored(next, None)
        ELSE next

RefreshAnswered(b, r) ==
    /\ Of(r, b, "refresh") /\ Settled(r)
    /\ StoreCookie(r, requests[r].issued)
    /\ Set(b, Resume(tabs[b], IF requests[r].step = "ok" THEN tokens[requests[r].issued].user
                              ELSE None))
    /\ Reply(r)
    /\ UNCHANGED reloads

-----------------------------------------------------------------------------
(* API calls of a page. *)

\* The account page's saves are among them.
PageCall(b, c, adopts) ==
    /\ tabs[b].status = "authenticated"
    /\ tabs[b].calls[c] = NoCall
    /\ Set(b, [tabs[b] EXCEPT !.calls[c] = Sent(b, adopts)])
    /\ UNCHANGED <<tokens, requests, jar, reloads>>

Open(b, c) == tabs[b].calls[c].phase \in {"sent", "resent"}

\* setAccount: whoever is signed in by now, or nobody.
Adopted(call) == IF call.adopts = "answer" THEN call.as ELSE call.before

\* Answered with data, or for good with an error.
CallEnds(b, c) ==
    /\ Open(b, c)
    /\ LET call == tabs[b].calls[c]
           tab == [tabs[b] EXCEPT !.calls[c] = NoCall] IN
       IF c = "me"
       THEN \E account \in {None, call.as} : Set(b, Restored(tab, account))
       ELSE \/ Set(b, tab)
            \/ /\ call.adopts # "nothing" /\ call.as # None
               /\ Set(b, [tab EXCEPT !.account = Adopted(call)])
    /\ UNCHANGED <<tokens, requests, jar, reloads>>

\* 401 TOKEN_EXPIRED: once, the call waits for a refresh.
CallExpired(b, c, r) ==
    /\ tabs[b].calls[c].phase = "sent" /\ tabs[b].calls[c].as # None
    /\ RefreshSession(b, r)
    /\ Set(b, [tabs[b] EXCEPT !.calls[c].phase = "waiting", !.refreshInFlight = TRUE])
    /\ UNCHANGED <<jar, reloads>>

-----------------------------------------------------------------------------
(* What the user does: one submit at a time in a tab. *)

SignIn(b, r, u) ==
    /\ ~tabs[b].acting /\ tabs[b].restore # "start"
    /\ Login(r, b, u)
    /\ Set(b, [tabs[b] EXCEPT !.acting = TRUE])
    /\ UNCHANGED <<jar, reloads>>

SignInAnswered(b, r) ==
    /\ Of(r, b, "login") /\ Answered(r)
    /\ StoreCookie(r, requests[r].issued)
    /\ Set(b, IF requests[r].step = "ok"
              THEN [tabs[b] EXCEPT !.acting = FALSE, !.decided = TRUE, !.status = "authenticated",
                                   !.accessToken = requests[r].user, !.account = requests[r].user]
              ELSE [tabs[b] EXCEPT !.acting = FALSE])
    /\ Reply(r)
    /\ UNCHANGED reloads

\* The user has decided, before anything is sent.
SignOut(b) ==
    /\ ~tabs[b].acting /\ tabs[b].status = "authenticated"
    /\ Set(b, [tabs[b] EXCEPT !.acting = TRUE, !.decided = TRUE, !.leaving = "asked"])
    /\ UNCHANGED <<tokens, requests, jar, reloads>>

\* disablePush: a call like any other, if this browser has a device to drop.
DisablePush(b) ==
    /\ tabs[b].leaving = "asked" /\ tabs[b].calls["device"] = NoCall
    /\ Set(b, [tabs[b] EXCEPT !.leaving = "disabling", !.calls["device"] = Sent(b, "nothing")])
    /\ UNCHANGED <<tokens, requests, jar, reloads>>

\* And then the request, with the cookie of that moment.
PushDisabled(b, r) ==
    /\ tabs[b].leaving # "no" /\ tabs[b].calls["device"] = NoCall
    /\ Logout(r, b, jar)
    /\ Set(b, [tabs[b] EXCEPT !.leaving = "no"])
    /\ UNCHANGED <<jar, reloads>>

\* Whatever came of the request, the tab forgets.
SignOutAnswered(b, r) ==
    /\ Of(r, b, "logout") /\ Answered(r)
    /\ StoreCookie(r, None)
    /\ Set(b, [tabs[b] EXCEPT !.acting = FALSE, !.accessToken = None, !.account = None,
                              !.status = "anonymous"])
    /\ Reply(r)
    /\ UNCHANGED reloads

SubmitPassword(b, r) ==
    /\ ~tabs[b].acting /\ tabs[b].status = "authenticated" /\ tabs[b].accessToken # None
    /\ ChangePassword(r, b, tabs[b].accessToken)
    /\ Set(b, [tabs[b] EXCEPT !.acting = TRUE])
    /\ UNCHANGED <<jar, reloads>>

\* Once changed, the answer clears the cookie, and the page signs out.
PasswordAnswered(b, r) ==
    /\ Of(r, b, "password") /\ Answered(r)
    /\ StoreCookie(r, None)
    /\ IF requests[r].step = "ok"
       THEN Set(b, [tabs[b] EXCEPT !.decided = TRUE, !.leaving = "asked"])
       ELSE Set(b, [tabs[b] EXCEPT !.acting = FALSE])
    /\ Reply(r)
    /\ UNCHANGED reloads

\* The page is loaded anew: its memory is gone, and the answers to what it sent
\* reach nobody.
Reload(b) ==
    /\ reloads < MaxReloads
    /\ reloads' = reloads + 1
    /\ Set(b, FreshTab)
    /\ requests' = [r \in Requests |-> IF requests[r].client = b
                                       THEN [requests[r] EXCEPT !.client = None] ELSE requests[r]]
    /\ UNCHANGED <<tokens, jar>>

Unclaimed(r) ==
    /\ requests[r].client = None
    /\ Reply(r)
    /\ UNCHANGED <<jar, tabs, reloads>>

-----------------------------------------------------------------------------
ApiStep(r) ==
    /\ ServerStep(r) \/ Lose(r)
    /\ UNCHANGED <<jar, tabs, reloads>>

AnswerArrives(b, r) ==
    \/ RefreshAnswered(b, r)
    \/ SignInAnswered(b, r)
    \/ SignOutAnswered(b, r)
    \/ PasswordAnswered(b, r)

CallAnswered(b, c) ==
    \/ CallEnds(b, c)
    \/ \E r \in Requests : CallExpired(b, c, r)

BrowserInit ==
    /\ Init
    /\ jar = None
    /\ tabs = [b \in Tabs |-> FreshTab]
    /\ reloads = 0

BrowserNext ==
    \/ \E r \in Requests : ApiStep(r) \/ Unclaimed(r)
    \/ \E b \in Tabs :
          \/ \E r \in Requests :
                \/ Restore(b, r)
                \/ AnswerArrives(b, r)
                \/ \E u \in Users : SignIn(b, r, u)
                \/ PushDisabled(b, r)
                \/ SubmitPassword(b, r)
          \/ SignOut(b)
          \/ DisablePush(b)
          \/ \E c \in Calls, adopts \in {"nothing", "answer", "shown"} : PageCall(b, c, adopts)
          \/ \E c \in CallNames : CallAnswered(b, c)
          \/ Reload(b)

BrowserSpec == BrowserInit /\ [][BrowserNext]_vars

\* A request is worked on until it is answered or fails, its answer arrives, and a
\* script that can run does.  (Strong fairness of Restore: it waits only for a slot of
\* the bound, which others may take in between.)
FairBrowserSpec ==
    /\ BrowserSpec
    /\ \A r \in Requests :
          /\ WF_vars(ApiStep(r))
          /\ WF_vars(Unclaimed(r))
          /\ \A b \in Tabs : WF_vars(AnswerArrives(b, r))
    /\ \A b \in Tabs :
          /\ SF_vars(\E r \in Requests : Restore(b, r))
          /\ \A c \in CallNames : WF_vars(CallAnswered(b, c))

-----------------------------------------------------------------------------
(* Properties. *)

\* A tab has one refresh on its way at most, and exactly when somebody waits for it:
\* parallel calls that find the token expired do not use the cookie twice.
SingleFlight ==
    \A b \in Tabs :
        LET flying == {r \in Requests : Of(r, b, "refresh")} IN
        /\ Cardinality(flying) = IF tabs[b].refreshInFlight THEN 1 ELSE 0
        /\ (\E c \in DOMAIN tabs[b].calls : tabs[b].calls[c].phase = "waiting")
              => tabs[b].refreshInFlight

\* Once the user has signed in or out, only the user's next decision changes whether a tab
\* is signed in, and only that or the answer to a save of the user's the account it shows; the
\* restore, which may end after it, and a refresh that fails change neither.
Shown(tab) == <<tab.status, tab.account>>
Decides(b) ==
    \E r \in Requests : /\ requests[r].client = b /\ requests[r].kind \in {"login", "logout"}
                        /\ requests'[r] = Idle
Saves(b) ==
    /\ tabs'[b].status = tabs[b].status
    /\ \E c \in CallNames : /\ Open(b, c) /\ tabs[b].calls[c].adopts # "nothing"
                           /\ tabs'[b].calls[c] = NoCall
AccountIsDecided ==
    [][ \A b \in Tabs :
          (tabs[b].decided /\ tabs'[b].decided /\ Shown(tabs'[b]) # Shown(tabs[b]))
              => Decides(b) \/ Saves(b) ]_vars

\* A tab that is signed out shows nobody's account.  Violated: a save that is answered after
\* the sign-out puts the account back.
SignedOutShowsNobody ==
    \A b \in Tabs : tabs[b].status = "anonymous" => tabs[b].account = None

\* "Claim the identity before any state is written, so a session restore still in flight
\* cannot land afterwards and overwrite it": a tab acts for the account it shows.
ActsForAccountShown ==
    \A b \in Tabs :
        (tabs[b].account # None /\ tabs[b].accessToken # None)
            => tabs[b].accessToken = tabs[b].account

\* However the answers fare, a tab does not restore its session for ever.
RestoreEnds == \A b \in Tabs : tabs[b].status = "loading" ~> tabs[b].status # "loading"
=============================================================================
