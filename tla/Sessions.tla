------------------------------ MODULE Sessions ------------------------------
(***************************************************************************)
(* The refresh tokens of the API: families, rotation, reuse, logout and     *)
(* change of password, under concurrent requests of any clients.            *)
(*                                                                          *)
(* A handler reads first and writes later, and the other requests go on in  *)
(* between.  The transaction of a rotation holds the row of the presented   *)
(* token from its conditional update to its commit.  A revocation of many   *)
(* rows picks the rows it sees when it starts, waits for the ones that are  *)
(* locked and looks at each again: a row committed meanwhile is not seen.   *)
(* Nothing in the program changes the status of a user or a membership, so  *)
(* the branches for suspended accounts are never taken.                     *)
(***************************************************************************)
EXTENDS FiniteSets

CONSTANTS
    Requests,   \* slots for the requests in flight (bound)
    Users,
    Tokens,     \* the rows of refresh_tokens (bound)
    Clients,    \* who sends a request
    None        \* no token, no user, no client

ASSUME SessionsAssumption == None \notin Users \cup Tokens \cup Clients

VARIABLES
    tokens,     \* the committed rows: owner, family, and FREE, LIVE or REVOKED
    requests    \* per request, the step it is about to take and what it holds

\* A family is named by the token of the login it descends from.
FreeToken == [user |-> None, family |-> None, state |-> "FREE"]

Idle == [step |-> "idle", kind |-> "none", client |-> None, user |-> None,
         presented |-> None, targets |-> {}, issued |-> None]

Live(t) == tokens[t].state = "LIVE"
Family(t) == {u \in Tokens : tokens[u].state # "FREE" /\ tokens[u].family = t}
LiveOf(u) == {t \in Tokens : Live(t) /\ tokens[t].user = u}

\* A client presents a token it was given, or none.
Known(t) == t # None => tokens[t] # FreeToken

Begin(r, request) == requests[r] = Idle /\ requests' = [requests EXCEPT ![r] = request]
Goto(r, step) == requests' = [requests EXCEPT ![r].step = step]
Answer(r, outcome, t) == requests' = [requests EXCEPT ![r].step = outcome, ![r].issued = t,
                         ![r].presented = None, ![r].targets = {}]
Answered(r) == requests[r].step \in {"ok", "refused", "lost"}

Issue(t, user, family) == [tokens EXCEPT ![t] =
    [user |-> user, family |-> family, state |-> "LIVE"]]
Revoke(S) == [t \in Tokens |->
    IF t \in S /\ Live(t) THEN [tokens[t] EXCEPT !.state = "REVOKED"] ELSE tokens[t]]

\* A row that a rotation has updated and not committed.
Locked(t) == \E r \in Requests : requests[r].step = "rotating" /\ requests[r].presented = t

-----------------------------------------------------------------------------
(* Login: the password is verified, the token is created in a later statement. *)

Login(r, c, u) ==
    /\ Begin(r, [Idle EXCEPT !.step = "login", !.kind = "login", !.client = c, !.user = u])
    /\ UNCHANGED tokens

LoginIssues(r, t) ==
    /\ requests[r].step = "login"
    /\ tokens[t] = FreeToken
    /\ tokens' = Issue(t, requests[r].user, t)
    /\ Answer(r, "ok", t)

\* The wrong password, an unknown email.
LoginRefused(r) ==
    /\ requests[r].step = "login"
    /\ Answer(r, "refused", None)
    /\ UNCHANGED tokens

-----------------------------------------------------------------------------
(* Refresh. *)

Refresh(r, c, t) ==
    /\ Known(t)
    /\ Begin(r, [Idle EXCEPT !.step = "refresh", !.kind = "refresh", !.client = c,
                             !.presented = t])
    /\ UNCHANGED tokens

\* findByHash: nothing presented or expired is refused, a revoked token is reuse.
RefreshReads(r) ==
    LET t == requests[r].presented IN
    /\ requests[r].step = "refresh"
    /\ \/ t = None /\ Answer(r, "refused", None)
       \/ t # None /\ Live(t) /\ Answer(r, "refused", None)
       \/ t # None /\ Live(t) /\ Goto(r, "rotate")
       \/ t # None /\ ~Live(t) /\ Goto(r, "reuse")
    /\ UNCHANGED tokens

\* WHERE revokedAt IS NULL.  (Mutant: the token read is taken for good.)
StillAsRead(r) == TRUE
NotYetRevoked(r) == Live(requests[r].presented)

\* The conditional revocation opens the rotation ...
RotateRevokes(r) ==
    /\ requests[r].step = "rotate"
    /\ ~Locked(requests[r].presented)
    /\ IF NotYetRevoked(r) THEN Goto(r, "rotating") ELSE Answer(r, "refused", None)
    /\ UNCHANGED tokens

\* ... and the new token of the same family closes it, both committed at once.
\* (Mutant: the token presented stays as it was.)
RotatedWithoutRevoking(r, t) ==
    Issue(t, tokens[requests[r].presented].user, tokens[requests[r].presented].family)
Rotated(r, t) ==
    LET p == requests[r].presented IN
    [Issue(t, tokens[p].user, tokens[p].family) EXCEPT ![p].state = "REVOKED"]

RotateCommits(r, t) ==
    /\ requests[r].step = "rotating"
    /\ tokens[t] = FreeToken
    /\ tokens' = Rotated(r, t)
    /\ Answer(r, "ok", t)

\* Reuse: revokeFamily picks the family's live tokens.
ReuseFound(r) ==
    /\ requests[r].step = "reuse"
    /\ requests' = [requests EXCEPT
          ![r].step = "revoking",
          ![r].targets = {t \in Family(tokens[requests[r].presented].family) : Live(t)}]
    /\ UNCHANGED tokens

-----------------------------------------------------------------------------
(* Logout and change of password. *)

Logout(r, c, t) ==
    /\ Known(t)
    /\ Begin(r, [Idle EXCEPT !.step = "logout", !.kind = "logout", !.client = c,
                             !.presented = t])
    /\ UNCHANGED tokens

\* revokeByHash: only the token presented; always succeeds.
LogoutRevokes(r) ==
    /\ requests[r].step = "logout"
    /\ ~Locked(requests[r].presented)
    /\ tokens' = Revoke({requests[r].presented})
    /\ Answer(r, "ok", None)

\* The current password is verified ...
ChangePassword(r, c, u) ==
    /\ Begin(r, [Idle EXCEPT !.step = "change", !.kind = "password", !.client = c, !.user = u])
    /\ UNCHANGED tokens

\* ... and in one transaction replaced, and revokeAllForUser picks the user's tokens.
ChangePicks(r) ==
    /\ requests[r].step = "change"
    /\ \/ Answer(r, "refused", None)
       \/ requests' = [requests EXCEPT ![r].step = "revoking",
                                       ![r].targets = LiveOf(requests[r].user)]
    /\ UNCHANGED tokens

\* A revocation of many rows comes to its end.
RevokeTargets(r) ==
    /\ requests[r].step = "revoking"
    /\ \A t \in requests[r].targets : ~Locked(t)
    /\ tokens' = Revoke(requests[r].targets)
    /\ Answer(r, IF requests[r].kind = "password" THEN "ok" ELSE "refused", None)

-----------------------------------------------------------------------------
\* The process dies or the connection breaks: an open transaction is rolled back, a
\* committed one stays, and its answer never arrives.
Lose(r) ==
    /\ requests[r].step \notin {"idle", "lost"}
    /\ Answer(r, "lost", None)
    /\ UNCHANGED tokens

Reply(r) ==
    /\ Answered(r)
    /\ requests' = [requests EXCEPT ![r] = Idle]
    /\ UNCHANGED tokens

\* The steps the API takes on its own.
ServerStep(r) ==
    \/ LoginRefused(r)
    \/ RefreshReads(r)
    \/ RotateRevokes(r)
    \/ ReuseFound(r)
    \/ LogoutRevokes(r)
    \/ ChangePicks(r)
    \/ RevokeTargets(r)
    \/ \E t \in Tokens : LoginIssues(r, t) \/ RotateCommits(r, t)

Init ==
    /\ tokens = [t \in Tokens |-> FreeToken]
    /\ requests = [r \in Requests |-> Idle]

Next ==
    \E r \in Requests :
        \/ ServerStep(r)
        \/ Lose(r)
        \/ Reply(r)
        \/ \E c \in Clients :
              \/ \E u \in Users : Login(r, c, u) \/ ChangePassword(r, c, u)
              \/ \E t \in Tokens \cup {None} : Refresh(r, c, t) \/ Logout(r, c, t)

Spec == Init /\ [][Next]_<<tokens, requests>>

-----------------------------------------------------------------------------
(* Properties. *)

TypeOK ==
    /\ tokens \in [Tokens -> [user : Users \cup {None}, family : Tokens \cup {None},
                              state : {"FREE", "LIVE", "REVOKED"}]]
    /\ requests \in [Requests ->
          [step : {"idle", "login", "refresh", "rotate", "rotating", "reuse", "logout",
                   "change", "revoking", "ok", "refused", "lost"},
           kind : {"none", "login", "refresh", "logout", "password"},
           client : Clients \cup {None}, user : Users \cup {None},
           presented : Tokens \cup {None}, targets : SUBSET Tokens,
           issued : Tokens \cup {None}]]

\* However many requests present the same token at once, one of them rotates it: a
\* login has at most one refresh token that works.
OneLiveTokenPerFamily ==
    \A t, u \in Tokens : Live(t) /\ Live(u) /\ tokens[t].family = tokens[u].family => t = u

\* A session that has ended, by logout, reuse or a change of password, is not brought
\* back by a request that read its token before.
EndedFamiliesStayEnded ==
    [][ \A f \in Tokens :
          (Family(f) # {} /\ \A t \in Family(f) : ~Live(t))
              => \A t \in Tokens : tokens'[t].family = f => tokens'[t].state = "REVOKED"
      ]_<<tokens, requests>>

\* "Revokes every refresh token for this user, so all other devices are signed out."
PasswordChangeSignsOut ==
    [][ \A r \in Requests :
          (requests[r].kind = "password" /\ requests[r].step = "revoking"
           /\ requests'[r].step = "ok")
              => \A t \in Tokens : tokens'[t].user = requests[r].user
                                       => tokens'[t].state = "REVOKED" ]_<<tokens, requests>>
=============================================================================
