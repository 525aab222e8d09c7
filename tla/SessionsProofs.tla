--------------------------- MODULE SessionsProofs ---------------------------
(***************************************************************************)
(* Refresh tokens, for any number of requests, users, clients and rows.     *)
(***************************************************************************)
EXTENDS BrowserSession, FiniteSetTheorems, TLAPS

Row == [user : Users \cup {None}, family : Tokens \cup {None},
        state : {"FREE", "LIVE", "REVOKED"}]
Steps == {"idle", "login", "refresh", "rotate", "rotating", "reuse", "logout", "change",
          "revoking", "ok", "refused", "lost"}
RequestType == [step : Steps, kind : {"none", "login", "refresh", "logout", "password"},
                client : Clients \cup {None}, user : Users \cup {None},
                presented : Tokens \cup {None}, targets : SUBSET Tokens,
                issued : Tokens \cup {None}]

\* A new row, and a revocation of any set of rows, are rows.
LEMMA RowsTyped ==
    ASSUME TypeOK
    PROVE  /\ \A S : Revoke(S) \in [Tokens -> Row]
           /\ \A t \in Tokens, u \in Users \cup {None}, f \in Tokens \cup {None} :
                 Issue(t, u, f) \in [Tokens -> Row]
  <1>1. tokens \in [Tokens -> Row]
    BY DEF TypeOK, Row
  <1>2. \A S : Revoke(S) \in [Tokens -> Row]
    BY <1>1 DEF Revoke, Row
  <1>3. ASSUME NEW t \in Tokens, NEW u \in Users \cup {None}, NEW f \in Tokens \cup {None}
        PROVE  Issue(t, u, f) \in [Tokens -> Row]
    BY <1>1, <1>3 DEF Issue, Row
  <1> QED
    BY <1>2, <1>3

\* What a step may do to the request it belongs to.
LEMMA RequestsTyped ==
    ASSUME TypeOK, NEW r \in Requests
    PROVE  /\ requests[r] \in RequestType
           /\ \A q \in RequestType : Begin(r, q) => requests' \in [Requests -> RequestType]
           /\ \A step \in Steps : Goto(r, step) => requests' \in [Requests -> RequestType]
           /\ \A step \in Steps, t \in Tokens \cup {None} :
                 Answer(r, step, t) => requests' \in [Requests -> RequestType]
  <1>1. requests \in [Requests -> RequestType]
    BY DEF TypeOK, RequestType, Steps
  <1>2. ASSUME NEW q \in RequestType, Begin(r, q) PROVE requests' \in [Requests -> RequestType]
    BY <1>1, <1>2 DEF Begin
  <1>3. ASSUME NEW step \in Steps, Goto(r, step) PROVE requests' \in [Requests -> RequestType]
    BY <1>1, <1>3 DEF Goto, RequestType
  <1>4. ASSUME NEW step \in Steps, NEW t \in Tokens \cup {None}, Answer(r, step, t)
        PROVE  requests' \in [Requests -> RequestType]
    <2>1. [requests[r] EXCEPT !.step = step, !.issued = t, !.presented = None, !.targets = {}]
            \in RequestType
      BY <1>1 DEF RequestType
    <2>2. requests' = [requests EXCEPT ![r] =
            [requests[r] EXCEPT !.step = step, !.issued = t, !.presented = None, !.targets = {}]]
      BY <1>1, <1>4 DEF Answer, RequestType
    <2> QED
      BY <1>1, <2>1, <2>2
  <1> QED
    BY <1>1, <1>2, <1>3, <1>4

\* Whoever rotates, or reports reuse, does so for a token it was presented.
Presents == \A r \in Requests :
    requests[r].step \in {"rotate", "rotating", "reuse"} => requests[r].presented \in Tokens

LEMMA TypesInductive == TypeOK /\ Presents /\ [Next]_<<tokens, requests>> => TypeOK'
  <1> SUFFICES ASSUME TypeOK, Presents, [Next]_<<tokens, requests>> PROVE TypeOK'
    OBVIOUS
  <1>t. /\ tokens \in [Tokens -> Row]
        /\ tokens' \in [Tokens -> Row] /\ requests' \in [Requests -> RequestType] => TypeOK'
    BY DEF TypeOK, Row, RequestType, Steps
  <1>i. Idle \in RequestType
    BY DEF Idle, RequestType, Steps
  <1>s. Steps = {"idle", "login", "refresh", "rotate", "rotating", "reuse", "logout", "change",
                 "revoking", "ok", "refused", "lost"}
    BY DEF Steps
  <1>1. ASSUME NEW r \in Requests, ServerStep(r) PROVE TypeOK'
    <2>1. ASSUME NEW t \in Tokens, LoginIssues(r, t) PROVE TypeOK'
      <3>1. requests[r].user \in Users \cup {None}
        BY RequestsTyped DEF RequestType
      <3> QED
        BY <1>t, <1>s, <2>1, <3>1, RowsTyped, RequestsTyped DEF LoginIssues
    <2>2. CASE LoginRefused(r)
      BY <1>t, <1>s, <2>2, RequestsTyped DEF LoginRefused
    <2>3. CASE RefreshReads(r)
      BY <1>t, <1>s, <2>3, RequestsTyped DEF RefreshReads
    <2>4. CASE RotateRevokes(r)
      BY <1>t, <1>s, <2>4, RequestsTyped DEF RotateRevokes
    <2>5. ASSUME NEW t \in Tokens, RotateCommits(r, t) PROVE TypeOK'
      <3> DEFINE p == requests[r].presented
      <3>0. p \in Tokens
        BY <2>5 DEF RotateCommits, Presents
      <3>1. Rotated(r, t) \in [Tokens -> Row]
        <4>1. Issue(t, tokens[p].user, tokens[p].family) \in [Tokens -> Row]
          BY <1>t, <3>0, RowsTyped DEF Row
        <4> QED
          BY <3>0, <4>1 DEF Rotated, Row
      <3> QED
        BY <1>t, <1>s, <2>5, <3>1, RequestsTyped DEF RotateCommits
    <2>6. CASE ReuseFound(r)
      <3>1. requests[r] \in RequestType /\ requests \in [Requests -> RequestType]
        BY RequestsTyped DEF TypeOK, RequestType, Steps
      <3> DEFINE q == [requests[r] EXCEPT !.step = "revoking",
              !.targets = {t \in Family(tokens[requests[r].presented].family) : Live(t)}]
      <3>2. {t \in Family(tokens[requests[r].presented].family) : Live(t)} \in SUBSET Tokens
        BY DEF Family
      <3>3. q \in RequestType
        BY <1>s, <3>1, <3>2 DEF RequestType
      <3>4. requests' = [requests EXCEPT ![r] = q]
        BY <2>6 DEF ReuseFound
      <3> QED
        BY <1>t, <2>6, <3>1, <3>3, <3>4 DEF ReuseFound
    <2>7. CASE LogoutRevokes(r)
      BY <1>t, <1>s, <2>7, RowsTyped, RequestsTyped DEF LogoutRevokes
    <2>8. CASE ChangePicks(r)
      <3>1. requests[r] \in RequestType /\ requests \in [Requests -> RequestType]
        BY RequestsTyped DEF TypeOK, RequestType, Steps
      <3> DEFINE q == [requests[r] EXCEPT !.step = "revoking",
                                          !.targets = LiveOf(requests[r].user)]
      <3>2. LiveOf(requests[r].user) \in SUBSET Tokens
        BY DEF LiveOf
      <3>3. q \in RequestType
        BY <1>s, <3>1, <3>2 DEF RequestType
      <3>4. requests' = [requests EXCEPT ![r] = q] \/ Answer(r, "refused", None)
        BY <2>8 DEF ChangePicks
      <3> QED
        BY <1>t, <1>s, <2>8, <3>1, <3>3, <3>4, RequestsTyped DEF ChangePicks
    <2>9. CASE RevokeTargets(r)
      BY <1>t, <1>s, <2>9, RowsTyped, RequestsTyped DEF RevokeTargets
    <2> QED
      BY <1>1, <2>1, <2>2, <2>3, <2>4, <2>5, <2>6, <2>7, <2>8, <2>9 DEF ServerStep
  <1>2. ASSUME NEW r \in Requests, Lose(r) \/ Reply(r) PROVE TypeOK'
    <2>1. CASE Lose(r)
      BY <1>t, <1>s, <2>1, RequestsTyped DEF Lose
    <2>2. CASE Reply(r)
      BY <1>t, <1>i, <2>2 DEF Reply, TypeOK, RequestType, Steps
    <2> QED
      BY <1>2, <2>1, <2>2
  <1>3. ASSUME NEW r \in Requests, NEW c \in Clients, NEW u \in Users,
               Login(r, c, u) \/ ChangePassword(r, c, u)
        PROVE  TypeOK'
    <2>1. /\ [Idle EXCEPT !.step = "login", !.kind = "login", !.client = c, !.user = u]
                \in RequestType
          /\ [Idle EXCEPT !.step = "change", !.kind = "password", !.client = c, !.user = u]
                \in RequestType
      BY <1>s DEF Idle, RequestType
    <2>2. CASE Login(r, c, u)
      BY <1>t, <2>1, <2>2, RequestsTyped DEF Login
    <2>3. CASE ChangePassword(r, c, u)
      BY <1>t, <2>1, <2>3, RequestsTyped DEF ChangePassword
    <2> QED
      BY <1>3, <2>2, <2>3
  <1>4. ASSUME NEW r \in Requests, NEW c \in Clients, NEW t \in Tokens \cup {None},
               Refresh(r, c, t) \/ Logout(r, c, t)
        PROVE  TypeOK'
    <2>1. /\ [Idle EXCEPT !.step = "refresh", !.kind = "refresh", !.client = c, !.presented = t]
                \in RequestType
          /\ [Idle EXCEPT !.step = "logout", !.kind = "logout", !.client = c, !.presented = t]
                \in RequestType
      BY <1>s DEF Idle, RequestType
    <2>2. CASE Refresh(r, c, t)
      BY <1>t, <2>1, <2>2, RequestsTyped DEF Refresh
    <2>3. CASE Logout(r, c, t)
      BY <1>t, <2>1, <2>3, RequestsTyped DEF Logout
    <2> QED
      BY <1>4, <2>2, <2>3
  <1>5. CASE UNCHANGED <<tokens, requests>>
    BY <1>5 DEF TypeOK
  <1> QED
    BY <1>1, <1>2, <1>3, <1>4, <1>5 DEF Next

\* What a request sends, or does at its next step.
Act(r) ==
    \/ ServerStep(r) \/ Lose(r) \/ Reply(r)
    \/ \E c \in Clients :
          \/ \E u \in Users : Login(r, c, u) \/ ChangePassword(r, c, u)
          \/ \E t \in Tokens \cup {None} : Refresh(r, c, t) \/ Logout(r, c, t)

\* A step leaves the other requests as they are.
LEMMA OthersUntouched ==
    ASSUME TypeOK, NEW r \in Requests, Act(r), NEW s \in Requests, s # r
    PROVE  requests'[s] = requests[s]
  <1> USE DEF TypeOK
  <1>1. ASSUME NEW q, requests' = [requests EXCEPT ![r] = q] PROVE requests'[s] = requests[s]
    BY <1>1
  <1>2. ASSUME NEW q, Begin(r, q) PROVE requests'[s] = requests[s]
    BY <1>2 DEF Begin
  <1>3. ASSUME NEW step, Goto(r, step) PROVE requests'[s] = requests[s]
    BY <1>3 DEF Goto
  <1>4. ASSUME NEW o, NEW t, Answer(r, o, t) PROVE requests'[s] = requests[s]
    BY <1>4 DEF Answer
  <1>5. CASE ServerStep(r)
    <2>1. ASSUME NEW t \in Tokens, LoginIssues(r, t) \/ RotateCommits(r, t)
          PROVE  requests'[s] = requests[s]
      BY <1>4, <2>1 DEF LoginIssues, RotateCommits
    <2>2. CASE LoginRefused(r) \/ LogoutRevokes(r) \/ RevokeTargets(r)
      BY <1>4, <2>2 DEF LoginRefused, LogoutRevokes, RevokeTargets
    <2>3. CASE RefreshReads(r) \/ RotateRevokes(r)
      BY <1>3, <1>4, <2>3 DEF RefreshReads, RotateRevokes
    <2>4. CASE ReuseFound(r)
      BY <2>4 DEF ReuseFound
    <2>5. CASE ChangePicks(r)
      BY <1>4, <2>5 DEF ChangePicks
    <2> QED
      BY <1>5, <2>1, <2>2, <2>3, <2>4, <2>5 DEF ServerStep
  <1>6. CASE Lose(r) \/ Reply(r)
    BY <1>1, <1>4, <1>6 DEF Lose, Reply
  <1>7. ASSUME NEW c, NEW u, Login(r, c, u) \/ ChangePassword(r, c, u)
        PROVE  requests'[s] = requests[s]
    BY <1>2, <1>7 DEF Login, ChangePassword
  <1>8. ASSUME NEW c, NEW t, Refresh(r, c, t) \/ Logout(r, c, t)
        PROVE  requests'[s] = requests[s]
    BY <1>2, <1>8 DEF Refresh, Logout
  <1> QED
    BY <1>5, <1>6, <1>7, <1>8 DEF Act

\* What the four ways to change a request leave in it.
LEMMA RequestFields ==
    ASSUME TypeOK, NEW r \in Requests
    PROVE  /\ \A q : Begin(r, q) => requests'[r] = q
           /\ \A step : Goto(r, step) =>
                 requests'[r].step = step /\ requests'[r].presented = requests[r].presented
           /\ \A o, t : Answer(r, o, t) => requests'[r].step = o
  <1> USE DEF TypeOK
  <1>1. ASSUME NEW q, Begin(r, q) PROVE requests'[r] = q
    BY <1>1 DEF Begin
  <1>2. ASSUME NEW step, Goto(r, step)
        PROVE  requests'[r].step = step /\ requests'[r].presented = requests[r].presented
    BY <1>2 DEF Goto
  <1>3. ASSUME NEW o, NEW t, Answer(r, o, t) PROVE requests'[r].step = o
    BY <1>3 DEF Answer
  <1> QED
    BY <1>1, <1>2, <1>3

\* The step after which a request rotates or reports reuse.
LEMMA StepsToRotation ==
    ASSUME TypeOK, NEW r \in Requests, Act(r),
           requests'[r].step \in {"rotate", "rotating", "reuse"}
    PROVE  \/ RefreshReads(r) /\ requests'[r].step \in {"rotate", "reuse"}
           \/ RotateRevokes(r) /\ requests'[r].step = "rotating"
  <1> USE DEF TypeOK
  <1>1. ASSUME NEW step, Goto(r, step) PROVE requests'[r].step = step
    BY <1>1, RequestFields
  <1>2. ASSUME NEW o, NEW t, Answer(r, o, t) PROVE requests'[r].step = o
    BY <1>2, RequestFields
  <1>3. CASE ServerStep(r)
    <2>1. ASSUME NEW t \in Tokens PROVE ~LoginIssues(r, t) /\ ~RotateCommits(r, t)
      BY <1>2 DEF LoginIssues, RotateCommits
    <2>2. ~LoginRefused(r) /\ ~LogoutRevokes(r) /\ ~RevokeTargets(r)
      BY <1>2 DEF LoginRefused, LogoutRevokes, RevokeTargets
    <2>3. RefreshReads(r) => requests'[r].step \in {"rotate", "reuse"}
      BY <1>1, <1>2 DEF RefreshReads
    <2>4. RotateRevokes(r) => requests'[r].step = "rotating"
      BY <1>1, <1>2 DEF RotateRevokes
    <2>5. ~ReuseFound(r)
      BY DEF ReuseFound
    <2>6. ~ChangePicks(r)
      BY <1>2 DEF ChangePicks
    <2> QED
      BY <1>3, <2>1, <2>2, <2>3, <2>4, <2>5, <2>6 DEF ServerStep
  <1>4. ~Lose(r)
    BY <1>2 DEF Lose
  <1>5. ~Reply(r)
    BY DEF Reply, Idle
  <1>6. ASSUME NEW c, NEW u PROVE ~Login(r, c, u) /\ ~ChangePassword(r, c, u)
    <2>1. /\ [Idle EXCEPT !.step = "login", !.kind = "login", !.client = c, !.user = u].step
                = "login"
          /\ [Idle EXCEPT !.step = "change", !.kind = "password", !.client = c, !.user = u].step
                = "change"
      BY DEF Idle
    <2> QED
      BY <2>1, RequestFields DEF Login, ChangePassword
  <1>7. ASSUME NEW c, NEW t PROVE ~Refresh(r, c, t) /\ ~Logout(r, c, t)
    <2>1. /\ [Idle EXCEPT !.step = "refresh", !.kind = "refresh", !.client = c,
                           !.presented = t].step = "refresh"
          /\ [Idle EXCEPT !.step = "logout", !.kind = "logout", !.client = c,
                           !.presented = t].step = "logout"
      BY DEF Idle
    <2> QED
      BY <2>1, RequestFields DEF Refresh, Logout
  <1> QED
    BY <1>3, <1>4, <1>5, <1>6, <1>7 DEF Act

LEMMA PresentsInductive == TypeOK /\ Presents /\ [Next]_<<tokens, requests>> => Presents'
  <1> SUFFICES ASSUME TypeOK, Presents, [Next]_<<tokens, requests>>,
                      NEW r \in Requests,
                      requests'[r].step \in {"rotate", "rotating", "reuse"}
               PROVE  requests'[r].presented \in Tokens
    BY DEF Presents
  <1>1. CASE requests'[r] = requests[r]
    BY <1>1 DEF Presents
  <1>2. CASE Act(r)
    <2>1. CASE RefreshReads(r) /\ requests'[r].step \in {"rotate", "reuse"}
      <3>1. requests[r].presented # None /\ requests[r].presented \in Tokens \cup {None}
        BY <2>1, RequestFields DEF RefreshReads, TypeOK
      <3>2. requests'[r].presented = requests[r].presented
        BY <2>1, RequestFields DEF RefreshReads
      <3> QED
        BY <3>1, <3>2
    <2>2. CASE RotateRevokes(r) /\ requests'[r].step = "rotating"
      <3>1. requests[r].presented \in Tokens
        BY <2>2 DEF RotateRevokes, Presents
      <3>2. requests'[r].presented = requests[r].presented
        BY <2>2, RequestFields DEF RotateRevokes
      <3> QED
        BY <3>1, <3>2
    <2> QED
      BY <1>2, <2>1, <2>2, StepsToRotation
  <1>3. ASSUME NEW s \in Requests, Act(s) PROVE s = r \/ requests'[r] = requests[r]
    BY <1>3, OthersUntouched
  <1> QED
    BY <1>1, <1>2, <1>3 DEF Next, Act

\* Rows and requests keep their types.
THEOREM TypeCorrect == Spec => []TypeOK
  <1>1. Init => TypeOK /\ Presents
    BY DEF Init, TypeOK, Presents, FreeToken, Idle
  <1> QED
    BY <1>1, TypesInductive, PresentsInductive, PTL DEF Spec

-----------------------------------------------------------------------------
(* Rotation: who holds the lock of a token has found it live, is alone with   *)
(* it, and gives the family the one live token it loses.                      *)

Families == \A t \in Tokens :
    /\ tokens[t].state = "FREE" => tokens[t].family = None
    /\ tokens[t].state # "FREE" =>
          tokens[t].family \in Tokens /\ tokens[tokens[t].family].state # "FREE"

Rotations == \A r \in Requests : requests[r].step = "rotating" =>
    /\ Live(requests[r].presented)
    /\ \A s \in Requests :
          (requests[s].step = "rotating" /\ requests[s].presented = requests[r].presented)
              => r = s

IInv == TypeOK /\ Presents /\ Families /\ Rotations /\ OneLiveTokenPerFamily

\* The rows change in three ways: a login, a rotation, and a revocation that takes no
\* locked row.
LEMMA RowsChange ==
    ASSUME IInv, NEW r \in Requests, Act(r)
    PROVE  \/ UNCHANGED tokens
           \/ \E t \in Tokens : LoginIssues(r, t)
           \/ \E t \in Tokens : RotateCommits(r, t)
           \/ \E S : tokens' = Revoke(S) /\ \A t \in S : ~Locked(t)
  <1>1. LogoutRevokes(r) => /\ tokens' = Revoke({requests[r].presented})
                            /\ \A t \in {requests[r].presented} : ~Locked(t)
    BY DEF LogoutRevokes
  <1>2. RevokeTargets(r) => /\ tokens' = Revoke(requests[r].targets)
                            /\ \A t \in requests[r].targets : ~Locked(t)
    BY DEF RevokeTargets
  <1>3. LogoutRevokes(r) \/ RevokeTargets(r)
            => \E S : tokens' = Revoke(S) /\ \A t \in S : ~Locked(t)
    BY <1>1, <1>2
  <1> QED
    BY <1>3 DEF Act, ServerStep, LoginRefused, RefreshReads, RotateRevokes, ReuseFound,
       ChangePicks, Lose, Reply, Login, ChangePassword, Refresh, Logout

\* What a revocation leaves of a row.
LEMMA RevokeRows ==
    ASSUME TypeOK, NEW S, tokens' = Revoke(S), NEW t \in Tokens
    PROVE  /\ tokens'[t].family = tokens[t].family /\ tokens'[t].user = tokens[t].user
           /\ tokens'[t].state = "FREE" <=> tokens[t].state = "FREE"
           /\ tokens'[t].state = "LIVE" => tokens[t].state = "LIVE"
           /\ t \notin S => tokens'[t] = tokens[t]
  BY DEF Revoke, Live, TypeOK

\* A new row, for a login or a rotation.
LEMMA IssueRows ==
    ASSUME TypeOK, NEW t \in Tokens, NEW u, NEW f, tokens' = Issue(t, u, f)
    PROVE  /\ tokens'[t].family = f /\ tokens'[t].state = "LIVE"
           /\ \A v \in Tokens : v # t => tokens'[v] = tokens[v]
  BY DEF Issue, TypeOK

\* A rotation: the new row, and the one presented.
LEMMA RotationRows ==
    ASSUME IInv, NEW r \in Requests, NEW t \in Tokens, RotateCommits(r, t),
           NEW p, p = requests[r].presented
    PROVE  /\ p \in Tokens /\ Live(p) /\ p # t
           /\ tokens'[t].family = tokens[p].family /\ tokens'[t].state = "LIVE"
           /\ tokens'[p].family = tokens[p].family /\ tokens'[p].state = "REVOKED"
           /\ \A v \in Tokens : (v # t /\ v # p) => tokens'[v] = tokens[v]
  <1>1. p \in Tokens /\ Live(p)
    BY DEF RotateCommits, IInv, Presents, Rotations
  <1>2. p # t
    BY <1>1 DEF RotateCommits, FreeToken, Live
  <1> QED
    BY <1>1, <1>2 DEF RotateCommits, Rotated, Issue, IInv, TypeOK

LEMMA FamiliesInductive ==
    ASSUME IInv, NEW r \in Requests, Act(r) PROVE Families'
  <1> USE DEF IInv
  <1>1. CASE UNCHANGED tokens
    BY <1>1 DEF Families
  <1>2. ASSUME NEW t \in Tokens, LoginIssues(r, t) PROVE Families'
    <2>1. /\ tokens'[t].family = t /\ tokens'[t].state = "LIVE"
          /\ \A v \in Tokens : v # t => tokens'[v] = tokens[v]
      BY <1>2, IssueRows DEF LoginIssues
    <2> QED
      BY <2>1 DEF Families
  <1>3. ASSUME NEW t \in Tokens, RotateCommits(r, t) PROVE Families'
    <2> DEFINE p == requests[r].presented
    <2>1. /\ p \in Tokens /\ tokens[p].state = "LIVE" /\ p # t
          /\ tokens'[t].family = tokens[p].family /\ tokens'[t].state = "LIVE"
          /\ tokens'[p].family = tokens[p].family /\ tokens'[p].state = "REVOKED"
          /\ \A v \in Tokens : (v # t /\ v # p) => tokens'[v] = tokens[v]
      BY <1>3, RotationRows DEF Live
    <2>2. \A v \in Tokens : tokens[v].state # "FREE" => tokens'[v].state # "FREE"
      BY <2>1
    <2> QED
      BY <2>1, <2>2 DEF Families
  <1>4. ASSUME NEW S, tokens' = Revoke(S) PROVE Families'
    BY <1>4, RevokeRows DEF Families
  <1> QED
    BY <1>1, <1>2, <1>3, <1>4, RowsChange

LEMMA RotationsInductive ==
    ASSUME IInv, NEW r \in Requests, Act(r) PROVE Rotations'
  <1> USE DEF IInv
  <1> SUFFICES ASSUME NEW s \in Requests, requests'[s].step = "rotating"
               PROVE  /\ Live(requests[s].presented)'
                      /\ \A q \in Requests :
                            (requests'[q].step = "rotating"
                             /\ requests'[q].presented = requests'[s].presented) => s = q
    BY DEF Rotations
  <1>1. CASE RotateRevokes(r) /\ requests'[r].step = "rotating"
    <2> DEFINE p == requests[r].presented
    <2>1. /\ p \in Tokens /\ Live(p) /\ ~Locked(p)
          /\ UNCHANGED tokens /\ requests'[r].presented = p
      BY <1>1, RequestFields DEF RotateRevokes, NotYetRevoked, Presents
    <2>2. \A q \in Requests : q # r => requests'[q] = requests[q]
      BY OthersUntouched
    <2> QED
      BY <2>1, <2>2 DEF Rotations, Locked, Live
  <1>2. CASE requests'[r].step # "rotating"
    <2>1. \A q \in Requests : q # r => requests'[q] = requests[q]
      BY OthersUntouched
    <2>2. s # r /\ requests'[s] = requests[s] /\ requests[s].step = "rotating"
      BY <1>2, <2>1
    <2>p. PICK p : p = requests[s].presented
      OBVIOUS
    <2>3. p \in Tokens /\ tokens[p].state = "LIVE" /\ Locked(p)
      BY <2>2, <2>p DEF Rotations, Presents, Locked, Live
    <2>4. tokens'[p].state = "LIVE"
      <3>1. ASSUME NEW t \in Tokens, LoginIssues(r, t) PROVE tokens'[p].state = "LIVE"
        <4>1. tokens'[p] = tokens[p]
          BY <2>3, <3>1, IssueRows DEF LoginIssues, FreeToken
        <4> QED
          BY <2>3, <4>1
      <3>2. ASSUME NEW t \in Tokens, RotateCommits(r, t) PROVE tokens'[p].state = "LIVE"
        <4>1. requests[r].presented # p
          BY <2>2, <2>p, <3>2 DEF RotateCommits, Rotations
        <4>2. p # t
          BY <2>3, <3>2 DEF RotateCommits, FreeToken
        <4>3. tokens'[p] = tokens[p]
          BY <2>3, <3>2, <4>1, <4>2, RotationRows
        <4> QED
          BY <2>3, <4>3
      <3>3. ASSUME NEW S, tokens' = Revoke(S), \A t \in S : ~Locked(t)
            PROVE  tokens'[p].state = "LIVE"
        <4>1. p \notin S
          BY <2>3, <3>3
        <4> QED
          BY <2>3, <3>3, <4>1, RevokeRows
      <3>4. UNCHANGED tokens => tokens'[p].state = "LIVE"
        BY <2>3
      <3> QED
        BY <3>1, <3>2, <3>3, <3>4, RowsChange
    <2>5. ASSUME NEW q \in Requests, requests'[q].step = "rotating",
                 requests'[q].presented = requests'[s].presented
          PROVE  s = q
      BY <1>2, <2>1, <2>2, <2>5 DEF Rotations
    <2> QED
      BY <2>2, <2>p, <2>4, <2>5 DEF Live
  <1> QED
    BY <1>1, <1>2, StepsToRotation

LEMMA OneLiveInductive ==
    ASSUME IInv, NEW r \in Requests, Act(r) PROVE OneLiveTokenPerFamily'
  <1> USE DEF IInv
  <1>1. CASE UNCHANGED tokens
    BY <1>1 DEF OneLiveTokenPerFamily, Live
  <1>2. ASSUME NEW t \in Tokens, LoginIssues(r, t) PROVE OneLiveTokenPerFamily'
    <2>1. /\ tokens'[t].family = t /\ tokens'[t].state = "LIVE" /\ tokens[t].state = "FREE"
          /\ \A v \in Tokens : v # t => tokens'[v] = tokens[v]
      BY <1>2, IssueRows DEF LoginIssues, FreeToken
    <2>2. \A v \in Tokens : (v # t /\ tokens[v].state = "LIVE") => tokens[v].family # t
      BY <2>1 DEF Families
    <2> QED
      BY <2>1, <2>2 DEF OneLiveTokenPerFamily, Live
  <1>3. ASSUME NEW t \in Tokens, RotateCommits(r, t) PROVE OneLiveTokenPerFamily'
    <2> DEFINE p == requests[r].presented
    <2>1. /\ p \in Tokens /\ Live(p) /\ p # t
          /\ tokens'[t].family = tokens[p].family /\ tokens'[t].state = "LIVE"
          /\ tokens'[p].state = "REVOKED"
          /\ \A v \in Tokens : (v # t /\ v # p) => tokens'[v] = tokens[v]
      BY <1>3, RotationRows
    <2>2. \A v \in Tokens : (v # t /\ tokens'[v].state = "LIVE")
                              => v # p /\ tokens'[v] = tokens[v]
      BY <2>1
    <2>3. \A v \in Tokens : (v # t /\ tokens'[v].state = "LIVE")
                              => tokens'[v].family # tokens[p].family
      BY <2>1, <2>2 DEF OneLiveTokenPerFamily, Live
    <2> QED
      BY <2>1, <2>2, <2>3 DEF OneLiveTokenPerFamily, Live
  <1>4. ASSUME NEW S, tokens' = Revoke(S) PROVE OneLiveTokenPerFamily'
    BY <1>4, RevokeRows DEF OneLiveTokenPerFamily, Live
  <1> QED
    BY <1>1, <1>2, <1>3, <1>4, RowsChange

\* No step of the API breaks it.
LEMMA ApiPreserves == IInv /\ [Next]_<<tokens, requests>> => IInv'
  <1>1. ASSUME IInv, NEW r \in Requests, Act(r)
        PROVE  Families' /\ Rotations' /\ OneLiveTokenPerFamily'
    BY <1>1, FamiliesInductive, RotationsInductive, OneLiveInductive
  <1>2. ASSUME IInv, UNCHANGED <<tokens, requests>>
        PROVE  Families' /\ Rotations' /\ OneLiveTokenPerFamily'
    BY <1>2 DEF IInv, Families, Rotations, OneLiveTokenPerFamily, Live
  <1>3. Next => \E r \in Requests : Act(r)
    BY DEF Next, Act
  <1> QED
    BY <1>1, <1>2, <1>3, TypesInductive, PresentsInductive DEF IInv

LEMMA ApiStarts == Init => IInv
  BY DEF Init, IInv, TypeOK, Presents, Families, Rotations, OneLiveTokenPerFamily, Live,
         FreeToken, Idle

\* The inductive invariant of rotation, whoever the clients are.
THEOREM Invariance == Spec => []IInv
  BY ApiStarts, ApiPreserves, PTL DEF Spec

\* However many requests present one token, a login has at most one that works.
THEOREM OneLive == Spec => []OneLiveTokenPerFamily
  <1>1. IInv => OneLiveTokenPerFamily
    BY DEF IInv
  <1> QED
    BY <1>1, Invariance, PTL

\* A step after which the families that had ended still have.
Ended == \A f \in Tokens :
    (Family(f) # {} /\ \A t \in Family(f) : ~Live(t))
        => \A t \in Tokens : tokens'[t].family = f => tokens'[t].state = "REVOKED"

\* No step that leaves the rows alone, and none of the API, revives a family.
LEMMA NobodyRevives ==
    ASSUME IInv, UNCHANGED tokens \/ \E r \in Requests : Act(r)
    PROVE  Ended
  <1> SUFFICES ASSUME NEW f \in Tokens, Family(f) # {}, \A t \in Family(f) : ~Live(t),
                      NEW v \in Tokens, tokens'[v].family = f
               PROVE  tokens'[v].state = "REVOKED"
    BY DEF Ended
  <1> USE DEF IInv
  <1>1. tokens[f].state # "FREE"
    BY DEF Family, Families
  <1>2. ASSUME tokens'[v] = tokens[v] PROVE tokens'[v].state = "REVOKED"
    <2>1. tokens[v].state # "FREE"
      BY <1>2, SessionsAssumption DEF Families
    <2> QED
      BY <1>2, <2>1 DEF Family, Live, TypeOK
  <1>3. ASSUME NEW r \in Requests, NEW t \in Tokens, LoginIssues(r, t)
        PROVE  tokens'[v].state = "REVOKED"
    <2>1. /\ tokens'[t].family = t /\ tokens[t].state = "FREE"
          /\ v # t => tokens'[v] = tokens[v]
      BY <1>3, IssueRows DEF LoginIssues, FreeToken
    <2> QED
      BY <1>1, <1>2, <2>1
  <1>4. ASSUME NEW r \in Requests, NEW t \in Tokens, RotateCommits(r, t)
        PROVE  tokens'[v].state = "REVOKED"
    <2> DEFINE p == requests[r].presented
    <2>1. /\ p \in Tokens /\ Live(p)
          /\ tokens'[t].family = tokens[p].family /\ tokens'[p].family = tokens[p].family
          /\ (v # t /\ v # p) => tokens'[v] = tokens[v]
      BY <1>4, RotationRows
    <2>2. tokens[p].family # f
      BY <2>1 DEF Family, Live
    <2> QED
      BY <1>2, <2>1, <2>2
  <1>5. ASSUME NEW S, tokens' = Revoke(S) PROVE tokens'[v].state = "REVOKED"
    <2>1. tokens[v].family = f /\ tokens[v].state # "FREE"
      BY <1>5, RevokeRows, SessionsAssumption DEF Families
    <2>2. v \in Family(f) /\ ~Live(v)
      BY <2>1 DEF Family
    <2> QED
      BY <1>2, <1>5, <2>2 DEF Revoke, Live
  <1>6. CASE UNCHANGED tokens
    BY <1>2, <1>6
  <1>7. ASSUME NEW r \in Requests, Act(r) PROVE tokens'[v].state = "REVOKED"
    BY <1>3, <1>4, <1>5, <1>6, <1>7, RowsChange
  <1> QED
    BY <1>6, <1>7

\* No request, whenever it read its token, gives a live token to a family that has none.
THEOREM EndedStayEnded == Spec => EndedFamiliesStayEnded
  <1>1. IInv /\ [Next]_<<tokens, requests>> => [Ended]_<<tokens, requests>>
    BY NobodyRevives DEF Next, Act
  <1> QED
    BY <1>1, Invariance, PTL DEF Spec, EndedFamiliesStayEnded, Ended

-----------------------------------------------------------------------------
(* The browser, for any number of tabs: who waits for a refresh, and whose     *)
(* account a tab shows.                                                       *)

CallType == [phase : {"idle", "sent", "waiting", "resent"}, as : Users \cup {None},
             adopts : {"nothing", "answer", "shown"}, before : Users \cup {None}]
TabType == [status : {"loading", "anonymous", "authenticated"}, account : Users \cup {None},
            accessToken : Users \cup {None}, decided : BOOLEAN,
            restore : {"start", "refresh", "me", "done"}, refreshInFlight : BOOLEAN,
            acting : BOOLEAN, leaving : {"no", "asked", "disabling"},
            calls : [CallNames -> CallType]]

\* A refresh that succeeded has brought a token, and only a logout revokes what it presents.
Marked(q) ==
    /\ q.step = "logout" => q.kind = "logout"
    /\ (q.kind = "refresh" /\ q.step = "ok") => q.issued \in Tokens

BrowserTypes ==
    /\ jar \in Tokens \cup {None}
    /\ tabs \in [Tabs -> TabType]
    /\ \A r \in Requests : Marked(requests[r])

\* A tab knows of the one refresh it has on its way, and whoever waits, waits for it.
Flying(b) == {r \in Requests : Of(r, b, "refresh")}
Waiting(tab, c) == tab.calls[c].phase = "waiting"

Flights == \A b \in Tabs :
    /\ tabs[b].refreshInFlight => \E r \in Requests : Flying(b) = {r}
    /\ ~tabs[b].refreshInFlight => Flying(b) = {}
    /\ \A c \in CallNames : Waiting(tabs[b], c) => tabs[b].refreshInFlight

BrowserInv == IInv /\ BrowserTypes /\ Flights

\* What the API does on its own with a request does not change whose it is, or what for.
LEMMA KeepsOwner ==
    ASSUME TypeOK, NEW r \in Requests, ServerStep(r) \/ Lose(r), Marked(requests[r])
    PROVE  /\ requests'[r].client = requests[r].client /\ requests'[r].kind = requests[r].kind
           /\ Marked(requests'[r])
  <1> DEFINE Kept == /\ requests'[r].client = requests[r].client
                     /\ requests'[r].kind = requests[r].kind
  <1>0. requests \in [Requests -> RequestType] /\ requests[r] \in RequestType
    BY RequestsTyped DEF TypeOK, RequestType, Steps
  <1>1. ASSUME NEW step, Goto(r, step), step \notin {"ok", "logout"}
        PROVE  Kept /\ Marked(requests'[r])
    <2>1. Kept /\ requests'[r].step = step
      BY <1>0, <1>1 DEF Goto, RequestType
    <2> QED
      BY <1>1, <2>1 DEF Marked
  <1>2. ASSUME NEW o, NEW t, Answer(r, o, t), o # "logout",
               (o = "ok" /\ requests[r].kind = "refresh") => t \in Tokens
        PROVE  Kept /\ Marked(requests'[r])
    <2>1. Kept /\ requests'[r].step = o /\ requests'[r].issued = t
      BY <1>0, <1>2 DEF Answer, RequestType
    <2> QED
      BY <1>2, <2>1 DEF Marked
  <1>3. ASSUME NEW S, requests' = [requests EXCEPT ![r].step = "revoking", ![r].targets = S]
        PROVE  Kept /\ Marked(requests'[r])
    <2>1. Kept /\ requests'[r].step = "revoking"
      BY <1>0, <1>3 DEF RequestType
    <2> QED
      BY <2>1 DEF Marked
  <1>4. ASSUME NEW t \in Tokens, LoginIssues(r, t) \/ RotateCommits(r, t)
        PROVE  Kept /\ Marked(requests'[r])
    BY <1>2, <1>4 DEF LoginIssues, RotateCommits
  <1>5. CASE LoginRefused(r) \/ Lose(r)
    BY <1>2, <1>5 DEF LoginRefused, Lose
  <1>6. CASE RefreshReads(r) \/ RotateRevokes(r)
    BY <1>1, <1>2, <1>6 DEF RefreshReads, RotateRevokes
  <1>7. CASE ReuseFound(r) \/ ChangePicks(r)
    BY <1>2, <1>3, <1>7 DEF ReuseFound, ChangePicks
  <1>8. CASE LogoutRevokes(r)
    BY <1>2, <1>8 DEF LogoutRevokes, Marked
  <1>9. CASE RevokeTargets(r)
    BY <1>2, <1>9 DEF RevokeTargets
  <1> QED
    BY <1>4, <1>5, <1>6, <1>7, <1>8, <1>9 DEF ServerStep

\* Which refreshes of a tab are on their way after one request has been replaced.
LEMMA Replaced ==
    ASSUME TypeOK, NEW r \in Requests, NEW q, requests' = [requests EXCEPT ![r] = q],
           NEW b \in Tabs
    PROVE  Flying(b)' = IF q.client = b /\ q.kind = "refresh" THEN Flying(b) \cup {r}
                        ELSE Flying(b) \ {r}
  BY DEF TypeOK, Flying, Of

\* A request that nobody has sent is no tab's.
LEMMA IdleIsNobodys ==
    /\ Idle.client = None /\ Idle.kind = "none" /\ Idle.step = "idle" /\ Marked(Idle)
    /\ None \notin Tabs
  BY SessionsAssumption DEF Idle, Tabs, Marked

\* Nothing that rotates is touched: the API's invariant holds.
LEMMA LeavesRotations ==
    ASSUME IInv, UNCHANGED tokens, requests' \in [Requests -> RequestType],
           \A s \in Requests : requests'[s].step \in {"rotate", "rotating", "reuse"} =>
              /\ requests'[s].step = requests[s].step
              /\ requests'[s].presented = requests[s].presented
    PROVE  IInv'
  <1>1. TypeOK'
    BY DEF IInv, TypeOK, RequestType, Steps
  <1>2. Presents' /\ Families' /\ OneLiveTokenPerFamily'
    BY DEF IInv, Presents, Families, OneLiveTokenPerFamily, Live
  <1>3. Rotations'
    BY DEF IInv, Rotations, Live
  <1> QED
    BY <1>1, <1>2, <1>3 DEF IInv

LEMMA TabSet ==
    ASSUME BrowserTypes, NEW b \in Tabs, NEW tab \in TabType, Set(b, tab)
    PROVE  /\ tabs' \in [Tabs -> TabType] /\ tabs'[b] = tab
           /\ \A c \in Tabs \ {b} : tabs'[c] = tabs[c]
  BY DEF BrowserTypes, Set

-----------------------------------------------------------------------------
\* A call of the page, as it is sent.
LEMMA SentCall ==
    ASSUME BrowserTypes, NEW b \in Tabs, NEW adopts \in {"nothing", "answer", "shown"}
    PROVE  Sent(b, adopts) \in CallType /\ Sent(b, adopts).phase = "sent"
  <1>1. tabs[b].accessToken \in Users \cup {None} /\ tabs[b].account \in Users \cup {None}
    BY DEF BrowserTypes, TabType
  <1> QED
    BY <1>1 DEF Sent, CallType

LEMMA NoCallTyped == NoCall \in CallType /\ NoCall.phase = "idle"
  BY DEF NoCall, CallType

LEMMA Names == Calls \subseteq CallNames /\ "me" \in CallNames /\ "device" \in CallNames
  BY DEF CallNames

\* The end of the restore changes what is shown in a tab nobody has decided, and no call.
LEMMA RestoredTab ==
    ASSUME NEW tab \in TabType, NEW account \in Users \cup {None}
    PROVE  /\ Restored(tab, account) \in TabType
           /\ Restored(tab, account).refreshInFlight = tab.refreshInFlight
           /\ Restored(tab, account).calls = tab.calls
           /\ Restored(tab, account).decided = tab.decided
           /\ tab.decided => Shown(Restored(tab, account)) = Shown(tab)
  BY DEF Restored, Stale, TabType, Shown

\* What a call of the tab has come to.
LEMMA CalledTab ==
    ASSUME NEW tab \in TabType, NEW c \in CallNames, NEW call \in CallType
    PROVE  /\ [tab EXCEPT !.calls[c] = call] \in TabType
           /\ [tab EXCEPT !.calls[c] = call].decided = tab.decided
           /\ [tab EXCEPT !.calls[c] = call].refreshInFlight = tab.refreshInFlight
           /\ \A d \in CallNames :
                 [tab EXCEPT !.calls[c] = call].calls[d] = IF d = c THEN call ELSE tab.calls[d]
           /\ Shown([tab EXCEPT !.calls[c] = call]) = Shown(tab)
  <1> DEFINE calls == [tab.calls EXCEPT ![c] = call]
  <1>1. calls \in [CallNames -> CallType]
    BY DEF TabType
  <1>2. [tab EXCEPT !.calls[c] = call] = [tab EXCEPT !.calls = calls]
    BY DEF TabType
  <1> HIDE DEF calls
  <1> QED
    <2>1. \A d \in CallNames : calls[d] = IF d = c THEN call ELSE tab.calls[d]
      BY DEF TabType, calls
    <2> QED
      BY <1>1, <1>2, <2>1 DEF TabType, Shown

\* Who asks for a new token waits for it.
LEMMA AskingTab ==
    ASSUME NEW tab \in TabType
    PROVE  /\ [tab EXCEPT !.refreshInFlight = TRUE] \in TabType
           /\ [tab EXCEPT !.refreshInFlight = TRUE].refreshInFlight
           /\ [tab EXCEPT !.restore = "refresh", !.refreshInFlight = TRUE] \in TabType
           /\ [tab EXCEPT !.restore = "refresh", !.refreshInFlight = TRUE].refreshInFlight
  BY DEF TabType

\* Who signs in or out shows it, and leaves the calls alone.
LEMMA SignedTab ==
    ASSUME NEW tab \in TabType, NEW user \in Users \cup {None}
    PROVE  /\ LET in == [tab EXCEPT !.acting = FALSE, !.decided = TRUE,
                           !.status = "authenticated", !.accessToken = user, !.account = user]
              IN /\ in \in TabType /\ in.calls = tab.calls
                 /\ in.refreshInFlight = tab.refreshInFlight
           /\ LET out == [tab EXCEPT !.acting = FALSE, !.accessToken = None, !.account = None,
                                     !.status = "anonymous"]
              IN /\ out \in TabType /\ out.calls = tab.calls
                 /\ out.refreshInFlight = tab.refreshInFlight
           /\ \A acts \in BOOLEAN :
                 LET waits == [tab EXCEPT !.acting = acts]
                 IN  /\ waits \in TabType /\ waits.calls = tab.calls
                     /\ waits.refreshInFlight = tab.refreshInFlight
           /\ \A acts \in BOOLEAN :
                 LET decides == [tab EXCEPT !.acting = acts, !.decided = TRUE, !.leaving = "asked"]
                 IN  /\ decides \in TabType /\ decides.calls = tab.calls
                     /\ decides.refreshInFlight = tab.refreshInFlight
           /\ LET told == [tab EXCEPT !.decided = TRUE, !.leaving = "asked"]
              IN /\ told \in TabType /\ told.calls = tab.calls
                 /\ told.refreshInFlight = tab.refreshInFlight
           /\ \A step \in {"no", "disabling"} :
                 LET goes == [tab EXCEPT !.leaving = step]
                 IN  /\ goes \in TabType /\ goes.calls = tab.calls
                     /\ goes.refreshInFlight = tab.refreshInFlight
  BY DEF TabType

\* Whatever the refresh brings, nobody waits after it.
LEMMA ResumedTab ==
    ASSUME NEW tab \in TabType, NEW user \in Users \cup {None}
    PROVE  /\ Resume(tab, user) \in TabType
           /\ ~Resume(tab, user).refreshInFlight
           /\ \A c \in CallNames : ~Waiting(Resume(tab, user), c)
           /\ Resume(tab, user).decided = tab.decided
           /\ tab.decided => Shown(Resume(tab, user)) = Shown(tab)
  <1> DEFINE calls == [c \in DOMAIN tab.calls |->
                IF tab.calls[c].phase # "waiting" THEN tab.calls[c]
                ELSE IF user = None THEN NoCall
                ELSE [tab.calls[c] EXCEPT !.phase = "resent", !.as = user]]
             next == [tab EXCEPT !.accessToken = user, !.refreshInFlight = FALSE,
                                 !.calls = calls]
             me == [NoCall EXCEPT !.phase = "sent", !.as = user]
             asks == [next EXCEPT !.restore = "me", !.calls["me"] = me]
  <1>1. /\ tab.calls \in [CallNames -> CallType] /\ NoCall \in CallType
        /\ \A call \in CallType : /\ [call EXCEPT !.phase = "resent", !.as = user] \in CallType
                                  /\ [call EXCEPT !.phase = "resent", !.as = user].phase = "resent"
        /\ me \in CallType /\ me.phase = "sent"
        /\ NoCall.phase = "idle"
    BY DEF TabType, CallType, NoCall
  <1>2. /\ calls \in [CallNames -> CallType]
        /\ \A c \in CallNames : calls[c].phase # "waiting"
    BY <1>1
  <1>u. user = None \/ user \in Users
    OBVIOUS
  <1>3. Resume(tab, user) = next \/ Resume(tab, user) = asks
          \/ Resume(tab, user) = Restored(next, None)
    BY DEF Resume
  <1> HIDE DEF calls, me
  <1>4. /\ next \in TabType /\ ~next.refreshInFlight /\ next.calls = calls
        /\ next.decided = tab.decided /\ Shown(next) = Shown(tab)
    BY <1>2 DEF TabType, Shown
  <1>5. /\ asks \in TabType /\ ~asks.refreshInFlight
        /\ asks.calls = [calls EXCEPT !["me"] = me]
        /\ asks.decided = tab.decided /\ Shown(asks) = Shown(tab)
    <2>1. [calls EXCEPT !["me"] = me] \in [CallNames -> CallType]
      BY <1>1, <1>2
    <2> QED
      BY <1>4, <2>1 DEF TabType, Shown
  <1> HIDE DEF next, asks
  <1>6. /\ Restored(next, None) \in TabType /\ ~Restored(next, None).refreshInFlight
        /\ Restored(next, None).calls = calls /\ Restored(next, None).decided = tab.decided
        /\ tab.decided => Shown(Restored(next, None)) = Shown(tab)
    BY <1>4, RestoredTab
  <1>7. \A c \in CallNames :
           [calls EXCEPT !["me"] = me][c].phase # "waiting"
    BY <1>1, <1>2
  <1>8. /\ \A c \in CallNames : ~Waiting(next, c) /\ ~Waiting(Restored(next, None), c)
        /\ \A c \in CallNames : ~Waiting(asks, c)
    BY <1>2, <1>4, <1>5, <1>6, <1>7 DEF Waiting
  <1> QED
    BY <1>3, <1>4, <1>5, <1>6, <1>8

-----------------------------------------------------------------------------
\* A step that starts and ends no refresh, and lets nobody wait.
LEMMA FlightsKept ==
    ASSUME Flights, \A b \in Tabs : Flying(b)' = Flying(b),
           \A b \in Tabs :
              /\ tabs'[b].refreshInFlight = tabs[b].refreshInFlight
              /\ \A c \in CallNames : Waiting(tabs'[b], c) => Waiting(tabs[b], c)
    PROVE  Flights'
  BY DEF Flights, Waiting

\* Joining the refresh in flight, or starting one: there is one, and it is known.
LEMMA FlightStarts ==
    ASSUME BrowserInv, NEW b \in Tabs, NEW r \in Requests, RefreshSession(b, r),
           NEW tab \in TabType, tab.refreshInFlight, Set(b, tab), UNCHANGED jar
    PROVE  BrowserInv'
  <1>0. IInv /\ TypeOK /\ BrowserTypes /\ Flights /\ tabs \in [Tabs -> TabType]
    BY DEF BrowserInv, IInv, BrowserTypes
  <1>1. /\ tabs' \in [Tabs -> TabType] /\ tabs'[b] = tab
        /\ \A c \in Tabs \ {b} : tabs'[c] = tabs[c]
    BY <1>0, TabSet
  <1>2. CASE tabs[b].refreshInFlight
    <2>1. UNCHANGED <<tokens, requests>>
      BY <1>2 DEF RefreshSession
    <2>2. IInv' /\ \A c \in Tabs : Flying(c)' = Flying(c)
      BY <1>0, <2>1, ApiPreserves DEF Flying, Of
    <2>3. BrowserTypes'
      BY <1>0, <1>1, <2>1 DEF BrowserTypes
    <2>4. Flights'
      BY <1>0, <1>1, <1>2, <2>2 DEF Flights
    <2> QED
      BY <2>2, <2>3, <2>4 DEF BrowserInv
  <1>3. CASE ~tabs[b].refreshInFlight
    <2> DEFINE q == [Idle EXCEPT !.step = "refresh", !.kind = "refresh", !.client = b,
                                 !.presented = jar]
    <2>1. q.client = b /\ q.kind = "refresh" /\ q.step = "refresh"
      BY DEF Idle
    <2>2. Refresh(r, b, jar)
      BY <1>3 DEF RefreshSession
    <2>3. requests' = [requests EXCEPT ![r] = q] /\ requests[r] = Idle
      BY <2>2 DEF Refresh, Begin
    <2> HIDE DEF q
    <2>4. IInv'
      <3>1. jar \in Tokens \cup {None} /\ b \in Clients
        BY <1>0 DEF BrowserTypes, Tabs
      <3> QED
        BY <1>0, <2>2, <3>1, ApiPreserves DEF Next
    <2>5. \A c \in Tabs : Flying(c)' = IF c = b THEN Flying(c) \cup {r} ELSE Flying(c) \ {r}
      BY <1>0, <2>1, <2>3, Replaced
    <2>6. \A c \in Tabs : r \notin Flying(c)
      BY <2>3, IdleIsNobodys DEF Flying, Of
    <2>7. Flying(b) = {}
      BY <1>0, <1>3 DEF Flights
    <2>8. Flights'
      BY <1>0, <1>1, <2>5, <2>6, <2>7 DEF Flights
    <2>9. BrowserTypes'
      BY <1>0, <1>1, <2>1, <2>3 DEF BrowserTypes, Marked, TypeOK
    <2> QED
      BY <2>4, <2>8, <2>9 DEF BrowserInv
  <1>4. tabs[b].refreshInFlight \in BOOLEAN
    BY <1>0 DEF TabType
  <1> QED
    BY <1>2, <1>3, <1>4

\* A request that nobody waits for is sent, or answered, and its tab goes on: no refresh
\* is concerned.
LEMMA NoFlight ==
    ASSUME BrowserInv, IInv', NEW b \in Tabs, NEW r \in Requests, NEW q,
           requests' = [requests EXCEPT ![r] = q], Marked(q), q.kind # "refresh",
           requests[r] = Idle \/ (requests[r].client = b /\ requests[r].kind # "refresh"),
           NEW tab \in TabType, Set(b, tab),
           tab.refreshInFlight = tabs[b].refreshInFlight, tab.calls = tabs[b].calls,
           jar' \in Tokens \cup {None}
    PROVE  BrowserInv'
  <1>0. TypeOK /\ BrowserTypes /\ Flights
    BY DEF BrowserInv, IInv
  <1>1. /\ tabs' \in [Tabs -> TabType] /\ tabs'[b] = tab
        /\ \A c \in Tabs \ {b} : tabs'[c] = tabs[c]
    BY <1>0, TabSet
  <1>2. \A c \in Tabs : Flying(c)' = Flying(c) \ {r}
    BY <1>0, Replaced
  <1>3. \A c \in Tabs : r \notin Flying(c)
    BY IdleIsNobodys DEF Flying, Of
  <1>4. Flights'
    BY <1>0, <1>1, <1>2, <1>3, FlightsKept DEF Waiting
  <1>5. BrowserTypes'
    BY <1>0, <1>1 DEF BrowserTypes, TypeOK
  <1> QED
    BY <1>4, <1>5 DEF BrowserInv

\* A tab goes on alone.
LEMMA TabOnly ==
    ASSUME BrowserInv, UNCHANGED <<tokens, requests, jar>>, NEW b \in Tabs, NEW tab \in TabType,
           Set(b, tab), tab.refreshInFlight = tabs[b].refreshInFlight,
           \A c \in CallNames : Waiting(tab, c) => Waiting(tabs[b], c)
    PROVE  BrowserInv'
  <1>0. IInv /\ TypeOK /\ BrowserTypes /\ Flights
    BY DEF BrowserInv, IInv
  <1>1. /\ tabs' \in [Tabs -> TabType] /\ tabs'[b] = tab
        /\ \A c \in Tabs \ {b} : tabs'[c] = tabs[c]
    BY <1>0, TabSet
  <1>2. IInv' /\ \A c \in Tabs : Flying(c)' = Flying(c)
    BY <1>0, ApiPreserves DEF Flying, Of
  <1>3. Flights'
    BY <1>0, <1>1, <1>2, FlightsKept
  <1>4. BrowserTypes'
    BY <1>0, <1>1 DEF BrowserTypes
  <1> QED
    BY <1>2, <1>3, <1>4 DEF BrowserInv

\* What a request of a tab may be, and what its answer leaves.
LEMMA Sends ==
    ASSUME NEW b, NEW u, NEW t
    PROVE  LET login == [Idle EXCEPT !.step = "login", !.kind = "login", !.client = b, !.user = u]
               logout == [Idle EXCEPT !.step = "logout", !.kind = "logout", !.client = b,
                                      !.presented = t]
               change == [Idle EXCEPT !.step = "change", !.kind = "password", !.client = b,
                                      !.user = u]
           IN  \A q \in {login, logout, change} : Marked(q) /\ q.kind # "refresh"
  BY DEF Idle, Marked

\* The answer to a refresh: nobody has one on the way, or waits for it, any more.
LEMMA FlightEnds ==
    ASSUME BrowserInv, NEW b \in Tabs, NEW r \in Requests, RefreshAnswered(b, r)
    PROVE  BrowserInv'
  <1> DEFINE user == IF requests[r].step = "ok" THEN tokens[requests[r].issued].user ELSE None
             tab == Resume(tabs[b], user)
  <1>0. /\ IInv /\ TypeOK /\ BrowserTypes /\ Flights /\ tabs[b] \in TabType
        /\ Marked(requests[r]) /\ requests[r].kind = "refresh" /\ requests[r].client = b
    BY DEF BrowserInv, IInv, BrowserTypes, RefreshAnswered, Of
  <1>1. user \in Users \cup {None}
    BY <1>0 DEF Marked, TypeOK
  <1> HIDE DEF user
  <1>2. /\ tab \in TabType /\ ~tab.refreshInFlight
        /\ \A c \in CallNames : ~Waiting(tab, c)
    BY <1>0, <1>1, ResumedTab
  <1>3. Set(b, tab) /\ Reply(r) /\ StoreCookie(r, requests[r].issued)
    BY DEF RefreshAnswered, user
  <1> HIDE DEF tab
  <1>4. /\ tabs' \in [Tabs -> TabType] /\ tabs'[b] = tab
        /\ \A c \in Tabs \ {b} : tabs'[c] = tabs[c]
    BY <1>0, <1>2, <1>3, TabSet
  <1>5. IInv'
    BY <1>0, <1>3, ApiPreserves DEF Next
  <1>6. \A c \in Tabs : Flying(c)' = Flying(c) \ {r}
    <2>1. requests' = [requests EXCEPT ![r] = Idle]
      BY <1>3 DEF Reply
    <2> QED
      BY <1>0, <2>1, Replaced, IdleIsNobodys
  <1>7. r \in Flying(b) /\ \A c \in Tabs \ {b} : r \notin Flying(c)
    BY <1>0 DEF Flying, Of
  <1>8. Flying(b)' = {}
    BY <1>0, <1>6, <1>7 DEF Flights
  <1>9. Flights'
    BY <1>0, <1>2, <1>4, <1>6, <1>7, <1>8 DEF Flights
  <1>10. jar' \in Tokens \cup {None}
    BY <1>0, <1>3 DEF StoreCookie, BrowserTypes, TypeOK
  <1>11. BrowserTypes'
    BY <1>0, <1>3, <1>4, <1>10, IdleIsNobodys DEF BrowserTypes, Reply, TypeOK
  <1> QED
    BY <1>5, <1>9, <1>11 DEF BrowserInv

\* Each step of the browser and of the API keeps the invariant.
LEMMA BrowserPreserves == BrowserInv /\ [BrowserNext]_vars => BrowserInv'
  <1> SUFFICES ASSUME BrowserInv, [BrowserNext]_vars PROVE BrowserInv'
    OBVIOUS
  <1>0. /\ IInv /\ TypeOK /\ BrowserTypes /\ Flights
        /\ tabs \in [Tabs -> TabType] /\ jar \in Tokens \cup {None}
        /\ requests \in [Requests -> RequestType]
        /\ Tabs = Clients /\ \A b \in Tabs : b # None
    BY IdleIsNobodys DEF BrowserInv, IInv, BrowserTypes, TypeOK, RequestType, Steps, Tabs
  <1>i. Idle \in RequestType /\ \A r \in Requests : requests[r].issued \in Tokens \cup {None}
    BY <1>0 DEF Idle, RequestType, Steps
  <1>c. \A r \in Requests, t \in Tokens \cup {None} :
           StoreCookie(r, t) => jar' \in Tokens \cup {None}
    BY <1>0 DEF StoreCookie
  <1>1. ASSUME NEW r \in Requests, ApiStep(r) PROVE BrowserInv'
    <2>1. ServerStep(r) \/ Lose(r)
      BY <1>1 DEF ApiStep
    <2>2. IInv'
      BY <1>0, <2>1, ApiPreserves DEF Next
    <2>3. /\ requests'[r].client = requests[r].client /\ requests'[r].kind = requests[r].kind
          /\ Marked(requests'[r])
      BY <1>0, <2>1, KeepsOwner DEF BrowserTypes
    <2>4. \A s \in Requests : s # r => requests'[s] = requests[s]
      BY <1>0, <2>1, OthersUntouched DEF Act
    <2>5. \A c \in Tabs : Flying(c)' = Flying(c)
      BY <2>3, <2>4 DEF Flying, Of
    <2>6. UNCHANGED <<jar, tabs>>
      BY <1>1 DEF ApiStep
    <2>7. Flights'
      BY <1>0, <2>5, <2>6, FlightsKept
    <2>8. BrowserTypes'
      BY <1>0, <2>3, <2>4, <2>6 DEF BrowserTypes
    <2> QED
      BY <2>2, <2>7, <2>8 DEF BrowserInv
  <1>2. ASSUME NEW r \in Requests, Unclaimed(r) PROVE BrowserInv'
    <2>1. IInv'
      BY <1>0, <1>2, ApiPreserves DEF Unclaimed, Next
    <2>2. requests' = [requests EXCEPT ![r] = Idle] /\ UNCHANGED <<jar, tabs>>
      BY <1>2 DEF Unclaimed, Reply
    <2>3. \A c \in Tabs : Flying(c)' = Flying(c) \ {r}
      BY <1>0, <2>2, Replaced, IdleIsNobodys
    <2>4. \A c \in Tabs : r \notin Flying(c)
      BY <1>0, <1>2 DEF Unclaimed, Flying, Of
    <2>5. Flights'
      BY <1>0, <2>2, <2>3, <2>4, FlightsKept
    <2>6. BrowserTypes'
      BY <1>0, <2>2, IdleIsNobodys DEF BrowserTypes
    <2> QED
      BY <2>1, <2>5, <2>6 DEF BrowserInv
  <1>3. ASSUME NEW b \in Tabs, NEW r \in Requests, Restore(b, r) PROVE BrowserInv'
    <2> DEFINE tab == [tabs[b] EXCEPT !.restore = "refresh", !.refreshInFlight = TRUE]
    <2>1. tab \in TabType /\ tab.refreshInFlight
      BY <1>0, AskingTab
    <2>2. RefreshSession(b, r) /\ Set(b, tab) /\ UNCHANGED jar
      BY <1>3 DEF Restore
    <2> HIDE DEF tab
    <2> QED
      BY <2>1, <2>2, FlightStarts
  <1>4. ASSUME NEW b \in Tabs, NEW r \in Requests, NEW c \in CallNames,
               CallExpired(b, c, r)
        PROVE  BrowserInv'
    <2> DEFINE tab == [tabs[b] EXCEPT !.calls[c].phase = "waiting", !.refreshInFlight = TRUE]
    <2>1. tab \in TabType /\ tab.refreshInFlight
      <3> DEFINE call == [tabs[b].calls[c] EXCEPT !.phase = "waiting"]
                 called == [tabs[b] EXCEPT !.calls[c] = call]
      <3>0. tabs[b].calls[c] \in CallType
        BY <1>0 DEF TabType
      <3>1. call \in CallType
        BY <3>0 DEF CallType
      <3>2. called \in TabType
        <4> HIDE DEF call
        <4> QED
          BY <1>0, <3>1, CalledTab
      <3>3. tab = [called EXCEPT !.refreshInFlight = TRUE]
        BY <1>0 DEF TabType
      <3> HIDE DEF called, tab
      <3> QED
        BY <3>2, <3>3, AskingTab
    <2>2. RefreshSession(b, r) /\ Set(b, tab) /\ UNCHANGED jar
      BY <1>4 DEF CallExpired
    <2> HIDE DEF tab
    <2> QED
      BY <2>1, <2>2, FlightStarts
  <1>5. ASSUME NEW b \in Tabs, NEW r \in Requests, NEW u \in Users, SignIn(b, r, u)
        PROVE  BrowserInv'
    <2> DEFINE q == [Idle EXCEPT !.step = "login", !.kind = "login", !.client = b, !.user = u]
               tab == [tabs[b] EXCEPT !.acting = TRUE]
    <2>1. requests[r] = Idle /\ requests' = [requests EXCEPT ![r] = q]
      BY <1>5 DEF SignIn, Login, Begin
    <2>2. /\ tab \in TabType /\ tab.calls = tabs[b].calls
          /\ tab.refreshInFlight = tabs[b].refreshInFlight
      <3>1. tabs[b] \in TabType
        BY <1>0
      <3> QED
        BY <3>1, SignedTab
    <2>3. Set(b, tab) /\ UNCHANGED jar
      BY <1>5 DEF SignIn
    <2>4. IInv'
      BY <1>0, <1>5, ApiPreserves DEF SignIn, Next
    <2>5. Marked(q) /\ q.kind # "refresh"
      BY Sends
    <2> HIDE DEF q, tab
    <2> QED
      BY <1>0, <2>1, <2>2, <2>3, <2>4, <2>5, NoFlight
  <1>6. ASSUME NEW b \in Tabs, NEW r \in Requests, PushDisabled(b, r) PROVE BrowserInv'
    <2> DEFINE q == [Idle EXCEPT !.step = "logout", !.kind = "logout", !.client = b,
                                 !.presented = jar]
               tab == [tabs[b] EXCEPT !.leaving = "no"]
    <2>1. requests[r] = Idle /\ requests' = [requests EXCEPT ![r] = q]
      BY <1>6 DEF PushDisabled, Logout, Begin
    <2>2. /\ tab \in TabType /\ tab.calls = tabs[b].calls
          /\ tab.refreshInFlight = tabs[b].refreshInFlight
      <3>1. tabs[b] \in TabType
        BY <1>0
      <3> QED
        BY <3>1, SignedTab
    <2>3. Set(b, tab) /\ UNCHANGED jar
      BY <1>6 DEF PushDisabled
    <2>4. IInv'
      BY <1>0, <1>6, ApiPreserves DEF PushDisabled, Next
    <2>5. Marked(q) /\ q.kind # "refresh"
      BY Sends
    <2> HIDE DEF q, tab
    <2> QED
      BY <1>0, <2>1, <2>2, <2>3, <2>4, <2>5, NoFlight
  <1>7. ASSUME NEW b \in Tabs, NEW r \in Requests, SubmitPassword(b, r) PROVE BrowserInv'
    <2> DEFINE u == tabs[b].accessToken
               q == [Idle EXCEPT !.step = "change", !.kind = "password", !.client = b, !.user = u]
               tab == [tabs[b] EXCEPT !.acting = TRUE]
    <2>0. u \in Users
      BY <1>0, <1>7 DEF SubmitPassword, TabType
    <2>1. requests[r] = Idle /\ requests' = [requests EXCEPT ![r] = q]
      BY <1>7 DEF SubmitPassword, ChangePassword, Begin
    <2>2. /\ tab \in TabType /\ tab.calls = tabs[b].calls
          /\ tab.refreshInFlight = tabs[b].refreshInFlight
      BY <1>0 DEF TabType
    <2>3. Set(b, tab) /\ UNCHANGED jar
      BY <1>7 DEF SubmitPassword
    <2>4. IInv'
      BY <1>0, <1>7, <2>0, ApiPreserves DEF SubmitPassword, Next
    <2>5. Marked(q) /\ q.kind # "refresh"
      BY Sends
    <2> HIDE DEF q, tab, u
    <2> QED
      BY <1>0, <2>1, <2>2, <2>3, <2>4, <2>5, NoFlight
  <1>8. ASSUME NEW b \in Tabs, NEW r \in Requests, SignInAnswered(b, r) PROVE BrowserInv'
    <2>1. requests' = [requests EXCEPT ![r] = Idle] /\ Reply(r)
      BY <1>8 DEF SignInAnswered, Reply
    <2>2. requests[r].client = b /\ requests[r].kind # "refresh"
      BY <1>8 DEF SignInAnswered, Of
    <2>3. jar' \in Tokens \cup {None}
      BY <1>c, <1>i, <1>8 DEF SignInAnswered
    <2>4. PICK tab \in TabType : /\ Set(b, tab) /\ tab.calls = tabs[b].calls
                                 /\ tab.refreshInFlight = tabs[b].refreshInFlight
      <3> DEFINE in == [tabs[b] EXCEPT !.acting = FALSE, !.decided = TRUE,
                           !.status = "authenticated", !.accessToken = requests[r].user,
                           !.account = requests[r].user]
                 failed == [tabs[b] EXCEPT !.acting = FALSE]
      <3>1. requests[r].user \in Users \cup {None}
        BY <1>0 DEF RequestType
      <3>2. /\ in \in TabType /\ in.calls = tabs[b].calls
            /\ in.refreshInFlight = tabs[b].refreshInFlight
        BY <1>0, <3>1, SignedTab
      <3>4. /\ failed \in TabType /\ failed.calls = tabs[b].calls
            /\ failed.refreshInFlight = tabs[b].refreshInFlight
        BY <1>0, <3>1, SignedTab
      <3>3. Set(b, in) \/ Set(b, failed)
        BY <1>8 DEF SignInAnswered
      <3> HIDE DEF in, failed
      <3> QED
        BY <3>2, <3>3, <3>4
    <2>5. IInv'
      BY <1>0, <2>1, ApiPreserves DEF Next
    <2> QED
      BY <2>1, <2>2, <2>3, <2>4, <2>5, NoFlight, IdleIsNobodys
  <1>9. ASSUME NEW b \in Tabs, NEW r \in Requests, SignOutAnswered(b, r) PROVE BrowserInv'
    <2>1. requests' = [requests EXCEPT ![r] = Idle] /\ Reply(r)
      BY <1>9 DEF SignOutAnswered, Reply
    <2>2. requests[r].client = b /\ requests[r].kind # "refresh"
      BY <1>9 DEF SignOutAnswered, Of
    <2>3. jar' \in Tokens \cup {None}
      BY <1>c, <1>9 DEF SignOutAnswered
    <2> DEFINE tab == [tabs[b] EXCEPT !.acting = FALSE, !.accessToken = None, !.account = None,
                                      !.status = "anonymous"]
    <2>o. /\ tab \in TabType /\ tab.calls = tabs[b].calls
          /\ tab.refreshInFlight = tabs[b].refreshInFlight
      <3>1. tabs[b] \in TabType
        BY <1>0
      <3> QED
        BY <3>1, SignedTab
    <2>4. /\ Set(b, tab) /\ tab \in TabType /\ tab.calls = tabs[b].calls
          /\ tab.refreshInFlight = tabs[b].refreshInFlight
      BY <2>o, <1>9 DEF SignOutAnswered
    <2> HIDE DEF tab
    <2>5. IInv'
      BY <1>0, <2>1, ApiPreserves DEF Next
    <2> QED
      BY <2>1, <2>2, <2>3, <2>4, <2>5, NoFlight, IdleIsNobodys
  <1>10. ASSUME NEW b \in Tabs, NEW r \in Requests, PasswordAnswered(b, r) PROVE BrowserInv'
    <2> DEFINE out == [tabs[b] EXCEPT !.decided = TRUE, !.leaving = "asked"]
               failed == [tabs[b] EXCEPT !.acting = FALSE]
    <2>t. tabs[b] \in TabType
      BY <1>0
    <2>o. /\ out \in TabType /\ out.calls = tabs[b].calls
          /\ out.refreshInFlight = tabs[b].refreshInFlight
      BY <2>t, SignedTab
    <2>f. /\ failed \in TabType /\ failed.calls = tabs[b].calls
          /\ failed.refreshInFlight = tabs[b].refreshInFlight
      BY <2>t, SignedTab
    <2>1. requests' = [requests EXCEPT ![r] = Idle] /\ Reply(r)
      BY <1>10 DEF PasswordAnswered, Reply
    <2>2. PICK tab \in {out, failed} : Set(b, tab)
      BY <1>10 DEF PasswordAnswered
    <2> HIDE DEF out, failed
    <2>3. /\ tab \in TabType /\ tab.calls = tabs[b].calls
          /\ tab.refreshInFlight = tabs[b].refreshInFlight
      BY <2>o, <2>f, <2>2
    <2>4. requests[r].client = b /\ requests[r].kind # "refresh"
      BY <1>10 DEF PasswordAnswered, Of
    <2>5. jar' \in Tokens \cup {None}
      BY <1>c, <1>10 DEF PasswordAnswered
    <2>6. IInv'
      BY <1>0, <2>1, ApiPreserves DEF Next
    <2> QED
      BY <2>1, <2>2, <2>3, <2>4, <2>5, <2>6, NoFlight, IdleIsNobodys
  <1>11. ASSUME NEW b \in Tabs, NEW r \in Requests, AnswerArrives(b, r) PROVE BrowserInv'
    BY <1>8, <1>9, <1>10, <1>11, FlightEnds DEF AnswerArrives
  <1>12. ASSUME NEW b \in Tabs, NEW c \in CallNames, NEW call \in CallType,
                call.phase # "waiting", NEW tab \in TabType, Set(b, tab),
                tab.refreshInFlight = tabs[b].refreshInFlight,
                tab.calls = [tabs[b].calls EXCEPT ![c] = call],
                UNCHANGED <<tokens, requests, jar>>
         PROVE  BrowserInv'
    <2>1. \A d \in CallNames : Waiting(tab, d) => Waiting(tabs[b], d)
      BY <1>0, <1>12 DEF TabType, Waiting
    <2> QED
      BY <1>12, <2>1, TabOnly
  <1>13. ASSUME NEW b \in Tabs, NEW c \in Calls, NEW adopts \in {"nothing", "answer", "shown"},
                PageCall(b, c, adopts)
         PROVE  BrowserInv'
    <2> DEFINE tab == [tabs[b] EXCEPT !.calls[c] = Sent(b, adopts)]
    <2>1. c \in CallNames /\ tabs[b] \in TabType
      BY <1>0, Names
    <2>2. Sent(b, adopts) \in CallType /\ Sent(b, adopts).phase = "sent"
      BY <1>0, SentCall
    <2>3. tab \in TabType /\ tab.refreshInFlight = tabs[b].refreshInFlight
      BY <2>1, <2>2, CalledTab
    <2>4. tab.calls = [tabs[b].calls EXCEPT ![c] = Sent(b, adopts)]
      BY <2>1 DEF TabType
    <2>5. Set(b, tab) /\ UNCHANGED <<tokens, requests, jar>>
      BY <1>13 DEF PageCall
    <2> HIDE DEF tab
    <2> QED
      BY <1>12, <2>1, <2>2, <2>3, <2>4, <2>5
  <1>s. ASSUME NEW b \in Tabs, SignOut(b) \/ DisablePush(b) PROVE BrowserInv'
    <2> DEFINE out == [tabs[b] EXCEPT !.acting = TRUE, !.decided = TRUE, !.leaving = "asked"]
               goes == [tabs[b] EXCEPT !.leaving = "disabling"]
               call == Sent(b, "nothing")
               tab == [goes EXCEPT !.calls["device"] = call]
    <2>1. tabs[b] \in TabType /\ "device" \in CallNames
      BY <1>0, Names
    <2>2. call \in CallType /\ call.phase = "sent"
      BY <1>0, SentCall
    <2>3. /\ out \in TabType /\ out.calls = tabs[b].calls
          /\ out.refreshInFlight = tabs[b].refreshInFlight
          /\ goes \in TabType /\ goes.calls = tabs[b].calls
          /\ goes.refreshInFlight = tabs[b].refreshInFlight
      BY <2>1, SignedTab
    <2>4. Set(b, out) \/ Set(b, [tabs[b] EXCEPT !.leaving = "disabling", !.calls["device"] = call])
      BY <1>s DEF SignOut, DisablePush
    <2>5. UNCHANGED <<tokens, requests, jar>>
      BY <1>s DEF SignOut, DisablePush
    <2> HIDE DEF call
    <2>6. [tabs[b] EXCEPT !.leaving = "disabling", !.calls["device"] = call] = tab
      BY <2>1 DEF TabType
    <2>7. tab.calls = [goes.calls EXCEPT !["device"] = call]
      BY <2>3 DEF TabType
    <2> HIDE DEF out, goes
    <2>8. tab \in TabType /\ tab.refreshInFlight = goes.refreshInFlight
      BY <2>1, <2>2, <2>3, CalledTab
    <2> HIDE DEF tab
    <2>9. CASE Set(b, out)
      BY <2>3, <2>5, <2>9, TabOnly DEF Waiting
    <2>10. CASE Set(b, tab)
      BY <1>12, <2>1, <2>2, <2>3, <2>5, <2>7, <2>8, <2>10
    <2> QED
      BY <2>4, <2>6, <2>9, <2>10
  <1>e. ASSUME NEW b \in Tabs, NEW c \in CallNames, CallEnds(b, c) PROVE BrowserInv'
    <2> DEFINE call == tabs[b].calls[c]
               tab == [tabs[b] EXCEPT !.calls[c] = NoCall]
    <2>1. tabs[b] \in TabType /\ call \in CallType
      BY <1>0 DEF TabType
    <2>2. tab \in TabType /\ tab.refreshInFlight = tabs[b].refreshInFlight
      BY <2>1, NoCallTyped, CalledTab
    <2>3. tab.calls = [tabs[b].calls EXCEPT ![c] = NoCall]
      BY <2>1 DEF TabType
    <2>4. UNCHANGED <<tokens, requests, jar>>
      BY <1>e DEF CallEnds
    <2>5. \/ Set(b, tab)
          \/ \E account \in {None, call.as} : Set(b, Restored(tab, account))
          \/ Set(b, [tab EXCEPT !.account = Adopted(call)])
      BY <1>e DEF CallEnds
    <2>6. call.as \in Users \cup {None} /\ Adopted(call) \in Users \cup {None}
      BY <2>1 DEF CallType, Adopted
    <2> HIDE DEF tab, call
    <2>7. CASE Set(b, tab)
      BY <1>12, <2>2, <2>3, <2>4, <2>7, NoCallTyped
    <2>8. ASSUME NEW account \in Users \cup {None}, Set(b, Restored(tab, account))
          PROVE  BrowserInv'
      <3>1. PICK end \in TabType : end = Restored(tab, account)
        BY <2>2, RestoredTab
      <3>2. end.refreshInFlight = tabs[b].refreshInFlight /\ end.calls = tab.calls
        BY <2>2, <3>1, RestoredTab
      <3>3. Set(b, end)
        BY <2>8, <3>1
      <3> QED
        BY <1>12, <2>3, <2>4, <3>2, <3>3, NoCallTyped
    <2>9. ASSUME NEW account \in Users \cup {None}, Set(b, [tab EXCEPT !.account = account])
          PROVE  BrowserInv'
      <3> DEFINE end == [tab EXCEPT !.account = account]
      <3>1. end \in TabType /\ end.refreshInFlight = tab.refreshInFlight /\ end.calls = tab.calls
        BY <2>2 DEF TabType
      <3>2. Set(b, end)
        BY <2>9
      <3> HIDE DEF end
      <3> QED
        BY <1>12, <2>2, <2>3, <2>4, <3>1, <3>2, NoCallTyped
    <2> QED
      BY <2>5, <2>6, <2>7, <2>8, <2>9
  <1>14. ASSUME NEW b \in Tabs, Reload(b) PROVE BrowserInv'
    <2>1. /\ requests' = [r \in Requests |-> IF requests[r].client = b
                            THEN [requests[r] EXCEPT !.client = None] ELSE requests[r]]
          /\ Set(b, FreshTab) /\ UNCHANGED <<tokens, jar>>
      BY <1>14 DEF Reload
    <2>2. /\ FreshTab \in TabType /\ ~FreshTab.refreshInFlight
          /\ \A c \in CallNames : ~Waiting(FreshTab, c)
      BY DEF FreshTab, TabType, NoCall, CallType, Waiting
    <2>3. /\ tabs' \in [Tabs -> TabType] /\ tabs'[b] = FreshTab
          /\ \A c \in Tabs \ {b} : tabs'[c] = tabs[c]
      BY <1>0, <2>1, <2>2, TabSet
    <2>4. ASSUME NEW r \in Requests
          PROVE  /\ requests'[r] \in RequestType
                 /\ requests'[r].client = IF requests[r].client = b THEN None
                                          ELSE requests[r].client
                 /\ requests'[r].kind = requests[r].kind
                 /\ requests'[r].step = requests[r].step
                 /\ requests'[r].presented = requests[r].presented
                 /\ requests'[r].issued = requests[r].issued
      <3>1. requests'[r] = IF requests[r].client = b
                           THEN [requests[r] EXCEPT !.client = None] ELSE requests[r]
        BY <2>1
      <3>2. requests[r] \in RequestType
        BY <1>0
      <3> QED
        BY <3>1, <3>2 DEF RequestType
    <2>5. requests' \in [Requests -> RequestType]
      BY <2>1, <2>4
    <2>6. IInv'
      BY <1>0, <2>1, <2>4, <2>5, LeavesRotations
    <2>7. \A c \in Tabs : Flying(c)' = IF c = b THEN {} ELSE Flying(c)
      BY <1>0, <2>4 DEF Flying, Of
    <2>8. Flights'
      BY <1>0, <2>2, <2>3, <2>7 DEF Flights
    <2>9. BrowserTypes'
      BY <1>0, <2>1, <2>3, <2>4 DEF BrowserTypes, Marked
    <2> QED
      BY <2>6, <2>8, <2>9 DEF BrowserInv
  <1>15. CASE UNCHANGED vars
    <2>1. UNCHANGED <<tokens, requests, jar, tabs>>
      BY <1>15 DEF vars
    <2>2. IInv'
      BY <1>0, <2>1, ApiPreserves
    <2>3. BrowserTypes' /\ Flights'
      BY <1>0, <2>1 DEF BrowserTypes, Flights, Flying, Of, Waiting
    <2> QED
      BY <2>2, <2>3 DEF BrowserInv
  <1> QED
    BY <1>1, <1>2, <1>3, <1>4, <1>5, <1>6, <1>7, <1>11, <1>13, <1>s, <1>e, <1>14, <1>15
    DEF BrowserNext, CallAnswered

LEMMA BrowserStarts == BrowserInit => BrowserInv
  <1> SUFFICES ASSUME BrowserInit PROVE BrowserInv
    OBVIOUS
  <1>1. Init /\ jar = None /\ tabs = [b \in Tabs |-> FreshTab]
    BY DEF BrowserInit
  <1>2. /\ FreshTab \in TabType /\ ~FreshTab.refreshInFlight
        /\ \A c \in CallNames : ~Waiting(FreshTab, c)
    BY DEF FreshTab, TabType, NoCall, CallType, Waiting
  <1>3. \A r \in Requests : requests[r] = Idle
    BY <1>1 DEF Init
  <1>4. BrowserTypes
    BY <1>1, <1>2, <1>3, IdleIsNobodys DEF BrowserTypes
  <1>5. \A b \in Tabs : Flying(b) = {}
    BY <1>3, IdleIsNobodys DEF Flying, Of
  <1> QED
    BY <1>1, <1>2, <1>4, <1>5, ApiStarts DEF BrowserInv, Flights

\* The inductive invariant of the browser: what it knows of the API's requests.
THEOREM BrowserInvariance == BrowserSpec => []BrowserInv
  BY BrowserStarts, BrowserPreserves, PTL DEF BrowserSpec

\* refreshSession is shared: for any number of tabs and calls, a tab has one refresh on its
\* way at most, and one as long as any call waits for it.
THEOREM OneFlight == BrowserSpec => []SingleFlight
  <1>1. BrowserInv => SingleFlight
    <2> SUFFICES ASSUME BrowserInv, NEW b \in Tabs
                 PROVE  /\ Cardinality(Flying(b)) = IF tabs[b].refreshInFlight THEN 1 ELSE 0
                        /\ (\E c \in DOMAIN tabs[b].calls : Waiting(tabs[b], c))
                              => tabs[b].refreshInFlight
      BY DEF SingleFlight, Flying, Waiting
    <2>1. tabs[b] \in TabType /\ DOMAIN tabs[b].calls = CallNames
      BY DEF BrowserInv, BrowserTypes, TabType
    <2> QED
      BY <2>1, FS_EmptySet, FS_Singleton DEF BrowserInv, Flights
  <1> QED
    BY <1>1, BrowserInvariance, PTL

\* Behind the browser too, a login has at most one refresh token that works: what the pages
\* send, and a page that is gone before its answer, add nothing the API has not allowed for.
THEOREM OneLiveBehindBrowser == BrowserSpec => []OneLiveTokenPerFamily
  <1>1. BrowserInv => OneLiveTokenPerFamily
    BY DEF BrowserInv, IInv
  <1> QED
    BY <1>1, BrowserInvariance, PTL

\* The rows change by a step of the API only.
LEMMA BrowserChangesRows ==
    ASSUME BrowserInv, [BrowserNext]_vars
    PROVE  UNCHANGED tokens \/ \E r \in Requests : Act(r)
  <1>1. \A r \in Requests : ApiStep(r) => Act(r)
    BY DEF ApiStep, Act
  <1>2. \A r \in Requests : Unclaimed(r) => UNCHANGED tokens
    BY DEF Unclaimed, Reply
  <1>3. \A b \in Tabs, r \in Requests :
           /\ RefreshSession(b, r) => UNCHANGED tokens
           /\ PushDisabled(b, r) => UNCHANGED tokens
           /\ SubmitPassword(b, r) => UNCHANGED tokens
           /\ AnswerArrives(b, r) => UNCHANGED tokens
           /\ \A u \in Users : SignIn(b, r, u) => UNCHANGED tokens
    <2> TAKE b \in Tabs, r \in Requests
    <2>1. RefreshSession(b, r) => UNCHANGED tokens
      BY DEF RefreshSession, Refresh
    <2>2. PushDisabled(b, r) => UNCHANGED tokens
      BY DEF PushDisabled, Logout
    <2>3. SubmitPassword(b, r) => UNCHANGED tokens
      BY DEF SubmitPassword, ChangePassword
    <2>4. AnswerArrives(b, r) => UNCHANGED tokens
      BY DEF AnswerArrives, RefreshAnswered, SignInAnswered, SignOutAnswered, PasswordAnswered,
             Reply
    <2>5. \A u \in Users : SignIn(b, r, u) => UNCHANGED tokens
      BY DEF SignIn, Login
    <2> QED
      BY <2>1, <2>2, <2>3, <2>4, <2>5
  <1>4. \A b \in Tabs : /\ \A c \in Calls, adopts \in {"nothing", "answer", "shown"} :
                              PageCall(b, c, adopts) => UNCHANGED tokens
                        /\ SignOut(b) \/ DisablePush(b) => UNCHANGED tokens
                        /\ \A c \in CallNames : CallEnds(b, c) => UNCHANGED tokens
                        /\ Reload(b) => UNCHANGED tokens
    BY DEF PageCall, SignOut, DisablePush, CallEnds, Reload
  <1> QED
    BY <1>1, <1>2, <1>3, <1>4 DEF BrowserNext, CallAnswered, CallExpired, Restore, vars

\* Nor does the browser bring back a session that has ended.
THEOREM EndedStayEndedBehindBrowser == BrowserSpec => EndedFamiliesStayEnded
  <1>1. BrowserInv /\ [BrowserNext]_vars => [Ended]_<<tokens, requests>>
    BY BrowserChangesRows, NobodyRevives DEF BrowserInv
  <1> QED
    BY <1>1, BrowserInvariance, PTL DEF BrowserSpec, EndedFamiliesStayEnded, Ended

\* Once somebody has signed in or out in a tab, what it shows changes with the answer to the
\* next sign-in or sign-out, and the account in it also with the answer to a save of the
\* user's: not with the end of the restore, whenever that comes, nor with the failure of a
\* refresh.
THEOREM DecidedByTheUser == BrowserSpec => AccountIsDecided
  <1> DEFINE Decided == \A b \in Tabs :
          (tabs[b].decided /\ tabs'[b].decided /\ Shown(tabs'[b]) # Shown(tabs[b]))
              => Decides(b) \/ Saves(b)
  <1>1. BrowserInv /\ [BrowserNext]_vars => Decided
    <2> SUFFICES ASSUME BrowserInv, [BrowserNext]_vars, NEW a \in Tabs,
                        tabs[a].decided, tabs'[a].decided, Shown(tabs'[a]) # Shown(tabs[a])
                 PROVE  Decides(a) \/ Saves(a)
      OBVIOUS
    <2>0. /\ tabs \in [Tabs -> TabType] /\ requests \in [Requests -> RequestType]
          /\ \A r \in Requests : Marked(requests[r])
      BY DEF BrowserInv, IInv, TypeOK, BrowserTypes, RequestType, Steps
    <2>1. ~(UNCHANGED tabs)
      OBVIOUS
    <2>2. \A b \in Tabs : \A tab : Set(b, tab) => b = a
      BY <2>0 DEF Set
    <2>3. \A tab : Set(a, tab) => tabs'[a] = tab
      BY <2>0 DEF Set
    <2>4. ASSUME NEW tab, Set(a, tab), Shown(tab) = Shown(tabs[a]) PROVE FALSE
      BY <2>3, <2>4
    <2>5. ASSUME NEW b \in Tabs, NEW r \in Requests, RefreshAnswered(b, r) PROVE FALSE
      <3> DEFINE user == IF requests[r].step = "ok" THEN tokens[requests[r].issued].user ELSE None
      <3>1. user \in Users \cup {None}
        BY <2>0, <2>5 DEF RefreshAnswered, Of, Marked, BrowserInv, IInv, TypeOK
      <3>2. Set(b, Resume(tabs[b], user))
        BY <2>5 DEF RefreshAnswered
      <3> HIDE DEF user
      <3> QED
        BY <2>0, <2>2, <2>4, <3>1, <3>2, ResumedTab
    <2>6. ASSUME NEW b \in Tabs, NEW c \in CallNames, CallEnds(b, c) PROVE Saves(a)
      <3> DEFINE call == tabs[b].calls[c]
                 tab == [tabs[b] EXCEPT !.calls[c] = NoCall]
                 saved == [tab EXCEPT !.account = Adopted(call)]
      <3>1. tabs[b] \in TabType /\ call \in CallType /\ call.as \in Users \cup {None}
        BY <2>0 DEF CallType, TabType
      <3>2. /\ tab \in TabType /\ tab.decided = tabs[b].decided
            /\ Shown(tab) = Shown(tabs[b])
        BY <3>1, NoCallTyped, CalledTab
      <3>3. /\ tab.status = tabs[b].status /\ tab.calls[c] = NoCall
            /\ saved.status = tab.status /\ saved.calls = tab.calls
        BY <3>1 DEF TabType
      <3>4. \/ Set(b, tab)
            \/ \E account \in {None, call.as} : Set(b, Restored(tab, account))
            \/ c # "me" /\ Open(b, c) /\ call.adopts # "nothing" /\ Set(b, saved)
        BY <2>6 DEF CallEnds
      <3> HIDE DEF tab, saved
      <3>5. CASE Set(b, tab)
        BY <2>2, <2>4, <3>2, <3>5
      <3>6. ASSUME NEW account \in Users \cup {None}, Set(b, Restored(tab, account))
            PROVE  FALSE
        BY <2>2, <2>4, <3>2, <3>6, RestoredTab
      <3>7. CASE c # "me" /\ Open(b, c) /\ call.adopts # "nothing" /\ Set(b, saved)
        <4>1. b = a /\ tabs'[a] = saved
          BY <2>2, <2>3, <3>7
        <4> QED
          BY <3>3, <3>7, <4>1 DEF Saves
      <3> QED
        BY <3>1, <3>4, <3>5, <3>6, <3>7
    <2>7. ASSUME NEW b \in Tabs, NEW r \in Requests, SignInAnswered(b, r) \/ SignOutAnswered(b, r)
          PROVE  Decides(a)
      <3>1. b = a
        BY <2>2, <2>7 DEF SignInAnswered, SignOutAnswered
      <3>2. requests'[r] = Idle
        BY <2>0, <2>7 DEF SignInAnswered, SignOutAnswered, Reply
      <3> QED
        BY <2>7, <3>1, <3>2 DEF SignInAnswered, SignOutAnswered, Of, Decides
    <2>8. ASSUME NEW b \in Tabs, NEW r \in Requests,
                 Restore(b, r) \/ PushDisabled(b, r) \/ SubmitPassword(b, r)
                   \/ PasswordAnswered(b, r)
          PROVE  FALSE
      <3> DEFINE acts == [tabs[a] EXCEPT !.acting = TRUE]
                 decides == [tabs[a] EXCEPT !.decided = TRUE, !.leaving = "asked"]
                 sends == [tabs[a] EXCEPT !.leaving = "no"]
                 fails == [tabs[a] EXCEPT !.acting = FALSE]
                 asks == [tabs[a] EXCEPT !.restore = "refresh", !.refreshInFlight = TRUE]
      <3>1. tabs[a] \in TabType
        BY <2>0
      <3>2. \A tab \in {acts, decides, sends, fails, asks} : Shown(tab) = Shown(tabs[a])
        BY <3>1 DEF TabType, Shown
      <3>3. \E tab \in {acts, decides, sends, fails, asks} : Set(a, tab)
        BY <2>0, <2>2, <2>8 DEF Restore, PushDisabled, SubmitPassword, PasswordAnswered
      <3> HIDE DEF acts, decides, sends, fails, asks
      <3> QED
        BY <2>4, <3>2, <3>3
    <2>9. ASSUME NEW b \in Tabs, NEW r \in Requests, NEW u \in Users, SignIn(b, r, u)
          PROVE  FALSE
      BY <2>0, <2>2, <2>4, <2>9 DEF SignIn, TabType, Shown
    <2>s. ASSUME NEW b \in Tabs, SignOut(b) PROVE FALSE
      <3> DEFINE tab == [tabs[a] EXCEPT !.acting = TRUE, !.decided = TRUE, !.leaving = "asked"]
      <3>1. Shown(tab) = Shown(tabs[a])
        BY <2>0 DEF TabType, Shown
      <3>2. Set(a, tab)
        BY <2>2, <2>s DEF SignOut
      <3> QED
        BY <2>4, <3>1, <3>2
    <2>10. ASSUME NEW b \in Tabs, NEW c \in CallNames,
                  \/ \E adopts \in {"nothing", "answer", "shown"} : PageCall(b, c, adopts)
                  \/ DisablePush(b)
                  \/ \E r \in Requests : CallExpired(b, c, r)
           PROVE  FALSE
      BY <2>0, <2>2, <2>4, <2>10 DEF PageCall, DisablePush, CallExpired, TabType, Shown
    <2>11. ASSUME NEW b \in Tabs, Reload(b) PROVE FALSE
      <3>1. b = a /\ tabs'[a] = FreshTab
        BY <2>2, <2>3, <2>11 DEF Reload
      <3> QED
        BY <3>1 DEF FreshTab
    <2>12. \A r \in Requests : ~ApiStep(r) /\ ~Unclaimed(r)
      BY <2>1 DEF ApiStep, Unclaimed
    <2> QED
      BY <2>1, <2>5, <2>6, <2>7, <2>8, <2>9, <2>10, <2>s, <2>11, <2>12, Names
      DEF BrowserNext, AnswerArrives, CallAnswered, vars
  <1>2. BrowserInv /\ [BrowserNext]_vars => [Decided]_vars
    BY <1>1
  <1> QED
    BY <1>2, BrowserInvariance, PTL DEF BrowserSpec, AccountIsDecided
=============================================================================
