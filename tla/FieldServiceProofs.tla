------------------------- MODULE FieldServiceProofs -------------------------
(***************************************************************************)
(* Tickets and the drone, for any number of tickets, engineers, documents    *)
(* and requests.                                                            *)
(***************************************************************************)
EXTENDS FieldServiceOverlaps, TLAPS

\* What a request keeps of the ticket it is about.  Only one in progress is closed.
Pending(q) ==
    /\ q.step = "move" =>
          /\ q.ticket \in Tickets /\ q.engineer \in Engineers
          /\ q.to \in {"ASSIGNED", "IN_PROGRESS"} /\ CanTransition(q.from, q.to)
    /\ q.step = "record" => q.ticket \in Tickets /\ q.to \in TicketStatus
    /\ q.step \in {"close", "commit"} => q.ticket \in Tickets /\ q.from = "IN_PROGRESS"

\* The drone's owner raises and updates, the staff do the rest.
OfItsSide(r, q) == (q.step \in {"raise", "update"} => r \in ProviderRequests)

Pendings == \A r \in Requests : Pending(requests[r]) /\ OfItsSide(r, requests[r])

\* A ticket that has been closed and not committed is locked: it is in progress still, and
\* nobody else is closing it.
Commits ==
    \A r \in Requests : requests[r].step = "commit" =>
        /\ tickets[requests[r].ticket].status = "IN_PROGRESS"
        /\ \A s \in Requests :
              (requests[s].step = "commit" /\ requests[s].ticket = requests[r].ticket) => s = r

IInv == TypeOK /\ Pendings /\ Commits

-----------------------------------------------------------------------------
\* The declared machine, by successor.
LEMMA Machine ==
    ASSUME NEW from \in TicketStatus \cup {"FREE"}
    PROVE  /\ CanTransition(from, "ASSIGNED") <=> from \in {"OPEN", "IN_PROGRESS"}
           /\ CanTransition(from, "IN_PROGRESS") <=> from = "ASSIGNED"
           /\ CanTransition(from, "CLOSED") <=> from = "IN_PROGRESS"
  BY DEF CanTransition, Transitions, TicketStatus

LEMMA IdleTyped ==
    Idle \in RequestRecord /\ Idle.step = "idle" /\ Pending(Idle)
      /\ \A r : OfItsSide(r, Idle)
  <1>1. Idle \in RequestRecord /\ Idle.step = "idle"
    BY DEF Idle, RequestRecord, TicketStatus, Serviceability
  <1> QED
    BY <1>1 DEF Pending, OfItsSide

\* A request that goes on, or ends, without holding a lock leaves those of the others.
LEMMA GoesOn ==
    ASSUME IInv, NEW r \in Requests, NEW q \in RequestRecord,
           requests' = [requests EXCEPT ![r] = q],
           Pending(q), OfItsSide(r, q), q.step # "commit",
           \A s \in Requests \ {r} : requests[s].step = "commit" =>
              tickets'[requests[s].ticket].status = tickets[requests[s].ticket].status
    PROVE  requests' \in [Requests -> RequestRecord] /\ Pendings' /\ Commits'
  <1>1. /\ requests' \in [Requests -> RequestRecord]
        /\ \A s \in Requests : requests'[s] = IF s = r THEN q ELSE requests[s]
    BY DEF IInv, TypeOK
  <1>2. Pendings'
    BY <1>1 DEF IInv, Pendings, Pending, OfItsSide
  <1>3. Commits'
    BY <1>1 DEF IInv, Commits
  <1> QED
    BY <1>1, <1>2, <1>3

\* So does one that ends while no ticket changes.
LEMMA JustEnds ==
    ASSUME IInv, NEW r \in Requests, End(r), UNCHANGED tickets
    PROVE  requests' \in [Requests -> RequestRecord] /\ Pendings' /\ Commits'
  BY GoesOn, IdleTyped DEF End

-----------------------------------------------------------------------------
\* The inductive invariant: types, what the requests hold, and the lock of a closing.
THEOREM Invariance == Spec => []IInv
  <1>1. Init => IInv
    <2> SUFFICES ASSUME Init PROVE IInv
      OBVIOUS
    <2>1. \A r \in Requests : requests[r] = Idle
      BY DEF Init
    <2>2. Pendings /\ Commits
      BY <2>1, IdleTyped DEF Pendings, Commits
    <2>3. events \in [Tickets -> Seq(TicketStatus)]
      BY DEF Init
    <2>4. TypeOK
      BY <2>3, IdleTyped DEF Init, TypeOK, Serviceability, TicketStatus
    <2> QED
      BY <2>2, <2>4 DEF IInv
  <1>2. IInv /\ [Next]_vars => IInv'
    <2> SUFFICES ASSUME IInv, [Next]_vars PROVE IInv'
      OBVIOUS
    <2>0. /\ TypeOK /\ Pendings /\ Commits
          /\ \A r \in ProviderRequests : r \in Requests
          /\ \A r \in StaffRequests : r \in Requests
      BY DEF IInv, Requests
    <2>1. ASSUME NEW r \in ProviderRequests, Raise(r) PROVE IInv'
      <3> DEFINE q == [Idle EXCEPT !.step = "raise"]
      <3>1. q \in RequestRecord /\ q.step = "raise" /\ Pending(q) /\ OfItsSide(r, q)
        BY IdleTyped DEF RequestRecord, Pending, OfItsSide
      <3>2. requests' = [requests EXCEPT ![r] = q] /\ UNCHANGED <<drone, tickets, events, documents>>
        BY <2>1 DEF Raise, Begin
      <3> HIDE DEF q
      <3> QED
        BY <2>0, <3>1, <3>2, GoesOn DEF IInv, TypeOK
    <2>2. ASSUME NEW r \in ProviderRequests, RaiseCommits(r) PROVE IInv'
      <3>1. PICK t \in Tickets : /\ tickets[t].status = "FREE"
                                 /\ tickets' = [tickets EXCEPT ![t].status = "OPEN"]
                                 /\ events' = [events EXCEPT ![t] = <<"OPEN">>]
        BY <2>2 DEF RaiseCommits
      <3>2. \A u \in Tickets : u # t => tickets'[u] = tickets[u]
        BY <2>0, <3>1 DEF TypeOK
      <3>3. \A s \in Requests : requests[s].step = "commit" => requests[s].ticket \in Tickets \ {t}
        BY <2>0, <3>1 DEF Commits, Pendings, Pending
      <3>4. requests' \in [Requests -> RequestRecord] /\ Pendings' /\ Commits'
        BY <2>0, <2>2, <3>2, <3>3, GoesOn, IdleTyped DEF RaiseCommits, End
      <3>5. events' \in [Tickets -> Seq(TicketStatus)]
        BY <2>0, <3>1 DEF TypeOK, TicketStatus
      <3>6. TypeOK'
        <4> DEFINE opened == [tickets[t] EXCEPT !.status = "OPEN"]
        <4>1. tickets[t] \in [status : TicketStatus \cup {"FREE"}, engineer : Engineers \cup {None},
                              document : Documents \cup {None}]
          BY <2>0 DEF TypeOK
        <4>2. /\ opened \in [status : TicketStatus \cup {"FREE"}, engineer : Engineers \cup {None},
                              document : Documents \cup {None}]
              /\ opened.status = "OPEN" /\ opened.engineer = tickets[t].engineer
          BY <4>1 DEF TicketStatus
        <4>3. tickets' = [tickets EXCEPT ![t] = opened]
          BY <2>0, <3>1 DEF TypeOK
        <4>4. tickets[t].engineer = None
          BY <2>0, <3>1 DEF TypeOK
        <4>5. drone' \in Serviceability /\ UNCHANGED documents
          BY <2>2 DEF RaiseCommits, Serviceability
        <4> HIDE DEF opened
        <4> QED
          BY <2>0, <3>4, <3>5, <4>2, <4>3, <4>4, <4>5 DEF TypeOK
      <3> QED
        BY <3>4, <3>6 DEF IInv
    <2>3. ASSUME NEW r \in ProviderRequests, NEW value \in Serviceability, UpdateDrone(r, value)
          PROVE  IInv'
      <3> DEFINE q == [Idle EXCEPT !.step = "update", !.value = value]
      <3>1. q \in RequestRecord /\ q.step = "update" /\ Pending(q) /\ OfItsSide(r, q)
        BY IdleTyped DEF RequestRecord, Pending, OfItsSide
      <3>2. requests' = [requests EXCEPT ![r] = q] /\ UNCHANGED <<drone, tickets, events, documents>>
        BY <2>3 DEF UpdateDrone, Begin
      <3> HIDE DEF q
      <3> QED
        BY <2>0, <3>1, <3>2, GoesOn DEF IInv, TypeOK
    <2>4. ASSUME NEW r \in ProviderRequests, UpdateDroneWrites(r) PROVE IInv'
      <3>1. requests[r].value \in Serviceability
        BY <2>0 DEF TypeOK, RequestRecord
      <3>2. requests' \in [Requests -> RequestRecord] /\ Pendings' /\ Commits'
        BY <2>0, <2>4, JustEnds DEF UpdateDroneWrites
      <3> QED
        BY <2>0, <2>4, <3>1, <3>2 DEF IInv, TypeOK, UpdateDroneWrites
    <2>5. ASSUME NEW r \in StaffRequests, NEW t \in Tickets, NEW e \in Engineers,
                 NEW to \in {"ASSIGNED", "IN_PROGRESS"}, CanTransition(tickets[t].status, to),
                 Begin(r, [Idle EXCEPT !.step = "move", !.ticket = t, !.from = tickets[t].status,
                                       !.to = to, !.engineer = e]),
                 UNCHANGED <<drone, tickets, events, documents>>
          PROVE  IInv'
      <3> DEFINE q == [Idle EXCEPT !.step = "move", !.ticket = t, !.from = tickets[t].status,
                                   !.to = to, !.engineer = e]
      <3>1. tickets[t].status \in TicketStatus \cup {"FREE"} /\ to \in TicketStatus
        BY <2>0 DEF TypeOK, TicketStatus
      <3>2. /\ q \in RequestRecord /\ q.step = "move" /\ q.ticket = t /\ q.to = to
            /\ q.from = tickets[t].status /\ q.engineer = e
        BY <3>1, IdleTyped DEF RequestRecord
      <3>3. requests' = [requests EXCEPT ![r] = q]
        BY <2>5 DEF Begin
      <3> HIDE DEF q
      <3>4. Pending(q) /\ OfItsSide(r, q)
        BY <2>5, <3>2 DEF Pending, OfItsSide
      <3> QED
        BY <2>0, <2>5, <3>2, <3>3, <3>4, GoesOn DEF IInv, TypeOK
    <2>6. ASSUME NEW r \in StaffRequests, TransitionTicket(r) PROVE IInv'
      <3> DEFINE t == requests[r].ticket
                 to == requests[r].to
                 q == [Idle EXCEPT !.step = "record", !.ticket = t, !.to = to]
      <3>1. /\ t \in Tickets /\ requests[r].engineer \in Engineers
            /\ to \in {"ASSIGNED", "IN_PROGRESS"} /\ to \in TicketStatus
            /\ CanTransition(requests[r].from, to)
            /\ tickets[t].status = requests[r].from
        BY <2>0, <2>6 DEF Pendings, Pending, TransitionTicket, StatusMatches, TicketStatus
      <3>2. /\ q \in RequestRecord /\ q.step = "record" /\ q.ticket = t /\ q.to = to
        BY <3>1, IdleTyped DEF RequestRecord
      <3>3. Pending(q) /\ OfItsSide(r, q)
        BY <3>1, <3>2 DEF Pending, OfItsSide
      <3>4. requests' = [requests EXCEPT ![r] = q] /\ UNCHANGED <<drone, events, documents>>
        BY <2>6 DEF TransitionTicket
      <3> HIDE DEF q
      <3>5. /\ tickets' = [tickets EXCEPT ![t] = Moved(r)]
            /\ \A u \in Tickets : u # t => tickets'[u] = tickets[u]
            /\ tickets'[t] = Moved(r)
        BY <2>0, <2>6, <3>1 DEF TransitionTicket, TypeOK
      <3>6. \A s \in Requests : requests[s].step = "commit" => requests[s].ticket \in Tickets \ {t}
        BY <2>0, <2>6 DEF TransitionTicket, Locked, Pendings, Pending
      <3>7. requests' \in [Requests -> RequestRecord] /\ Pendings' /\ Commits'
        BY <2>0, <3>2, <3>3, <3>4, <3>5, <3>6, GoesOn
      <3>8. tickets[t] \in [status : TicketStatus \cup {"FREE"}, engineer : Engineers \cup {None},
                            document : Documents \cup {None}]
        BY <2>0, <3>1 DEF TypeOK
      <3>9. /\ Moved(r) \in [status : TicketStatus \cup {"FREE"}, engineer : Engineers \cup {None},
                             document : Documents \cup {None}]
            /\ Moved(r).status = to
            /\ Moved(r).engineer = IF to = "ASSIGNED" THEN requests[r].engineer
                                   ELSE tickets[t].engineer
        BY <3>1, <3>8 DEF Moved
      <3>10. Moved(r).engineer # None
        <4>1. CASE to = "ASSIGNED"
          BY <3>1, <3>9, <4>1, FieldServiceAssumption
        <4>2. CASE to = "IN_PROGRESS"
          <5>1. tickets[t].status = "ASSIGNED"
            BY <3>1, <3>8, <4>2, Machine
          <5> QED
            BY <2>0, <3>1, <3>9, <4>2, <5>1 DEF TypeOK
        <4> QED
          BY <3>1, <4>1, <4>2
      <3>11. TypeOK'
        BY <2>0, <3>1, <3>4, <3>5, <3>7, <3>9, <3>10 DEF TypeOK
      <3> QED
        BY <3>7, <3>11 DEF IInv
    <2>7. ASSUME NEW r \in StaffRequests, RecordEvent(r) PROVE IInv'
      <3>1. requests[r].ticket \in Tickets /\ requests[r].to \in TicketStatus
        BY <2>0, <2>7 DEF Pendings, Pending, RecordEvent
      <3>2. events' \in [Tickets -> Seq(TicketStatus)]
        BY <2>0, <2>7, <3>1 DEF TypeOK, RecordEvent
      <3>3. requests' \in [Requests -> RequestRecord] /\ Pendings' /\ Commits'
        BY <2>0, <2>7, JustEnds DEF RecordEvent
      <3> QED
        BY <2>0, <2>7, <3>2, <3>3 DEF IInv, TypeOK, RecordEvent
    <2>8. ASSUME NEW r \in StaffRequests, NEW t \in Tickets, NEW e \in Engineers,
                 NEW d \in Documents, Close(r, t, e, d)
          PROVE  IInv'
      <3> DEFINE q == [Idle EXCEPT !.step = "close", !.ticket = t, !.from = tickets[t].status,
                                   !.to = "CLOSED", !.engineer = e, !.document = d]
      <3>1. tickets[t].status \in TicketStatus \cup {"FREE"} /\ tickets[t].status = "IN_PROGRESS"
        BY <2>0, <2>8, Machine DEF TypeOK, Close
      <3>2. q \in RequestRecord /\ q.step = "close" /\ q.ticket = t /\ q.from = "IN_PROGRESS"
        BY <3>1, IdleTyped DEF RequestRecord, TicketStatus
      <3>3. Pending(q) /\ OfItsSide(r, q)
        BY <3>2 DEF Pending, OfItsSide
      <3>4. requests' = [requests EXCEPT ![r] = q] /\ UNCHANGED <<drone, tickets, events, documents>>
        BY <2>8 DEF Close, Begin
      <3> HIDE DEF q
      <3> QED
        BY <2>0, <3>2, <3>3, <3>4, GoesOn DEF IInv, TypeOK
    <2>9. ASSUME NEW r \in StaffRequests, CloseUpdates(r) PROVE IInv'
      <3> DEFINE q == requests'[r]
      <3>1. requests[r] \in RequestRecord /\ requests \in [Requests -> RequestRecord]
        BY <2>0 DEF TypeOK
      <3>2. PICK v \in Serviceability : requests' = [requests EXCEPT
                 ![r].step = "commit", ![r].value = v]
        BY <2>9 DEF CloseUpdates, Serviceability
      <3>3. /\ requests'[r] = [requests[r] EXCEPT !.step = "commit", !.value = v]
            /\ \A s \in Requests : s # r => requests'[s] = requests[s]
        BY <2>0, <3>1, <3>2
      <3>4. /\ q \in RequestRecord /\ q.step = "commit" /\ q.ticket = requests[r].ticket
            /\ q.from = requests[r].from
        BY <3>1, <3>3 DEF RequestRecord
      <3>5. requests' \in [Requests -> RequestRecord]
        BY <2>0, <3>1, <3>2, <3>3, <3>4
      <3>6. requests[r].ticket \in Tickets /\ requests[r].from = "IN_PROGRESS"
        BY <2>0, <2>9 DEF Pendings, Pending, CloseUpdates
      <3>7. Pending(q) /\ OfItsSide(r, q)
        BY <3>4, <3>6 DEF Pending, OfItsSide
      <3>8. Pendings'
        BY <2>0, <3>3, <3>7 DEF Pendings, Pending, OfItsSide
      <3>9. Commits'
        <4>1. \A s \in Requests : requests[s].step = "commit" =>
                 requests[s].ticket # requests[r].ticket
          BY <2>9 DEF CloseUpdates, Locked
        <4>2. tickets[requests[r].ticket].status = "IN_PROGRESS" /\ UNCHANGED tickets
          BY <2>9, <3>6 DEF CloseUpdates, StatusMatches
        <4> HIDE DEF q
        <4>3. \A s \in Requests : requests'[s].step = "commit" =>
                 \/ s = r
                 \/ requests[s].step = "commit" /\ requests'[s] = requests[s]
          BY <3>3
        <4>4. requests'[r].ticket = requests[r].ticket
          BY <3>1, <3>3 DEF RequestRecord
        <4> QED
          BY <2>0, <4>1, <4>2, <4>3, <4>4 DEF Commits
      <3> QED
        BY <2>0, <2>9, <3>5, <3>8, <3>9 DEF IInv, TypeOK, CloseUpdates
    <2>10. ASSUME NEW r \in StaffRequests, CloseCommits(r) PROVE IInv'
      <3> DEFINE t == requests[r].ticket
      <3>1. t \in Tickets /\ requests[r].document \in Documents \cup {None}
        BY <2>0, <2>10 DEF Pendings, Pending, CloseCommits, TypeOK, RequestRecord
      <3>2. tickets[t].status = "IN_PROGRESS"
        BY <2>0, <2>10 DEF Commits, CloseCommits
      <3>3. tickets[t] \in [status : TicketStatus \cup {"FREE"}, engineer : Engineers \cup {None},
                            document : Documents \cup {None}]
        BY <2>0, <3>1 DEF TypeOK
      <3> DEFINE closed == [tickets[t] EXCEPT !.status = "CLOSED", !.document = requests[r].document]
      <3>4. /\ closed \in [status : TicketStatus \cup {"FREE"}, engineer : Engineers \cup {None},
                           document : Documents \cup {None}]
            /\ closed.status = "CLOSED" /\ closed.engineer = tickets[t].engineer
        BY <3>1, <3>3 DEF TicketStatus
      <3>5. tickets' = [tickets EXCEPT ![t] = closed]
        BY <2>0, <2>10, <3>1 DEF CloseCommits, TypeOK
      <3> HIDE DEF closed
      <3>6. tickets'[t] = closed /\ \A u \in Tickets : u # t => tickets'[u] = tickets[u]
        BY <2>0, <3>1, <3>5 DEF TypeOK
      <3>7. \A s \in Requests \ {r} : requests[s].step = "commit" =>
               requests[s].ticket \in Tickets \ {t}
        BY <2>0, <2>10 DEF CloseCommits, Commits, Pendings, Pending
      <3>8. requests' \in [Requests -> RequestRecord] /\ Pendings' /\ Commits'
        BY <2>0, <2>10, <3>6, <3>7, GoesOn, IdleTyped DEF CloseCommits, End
      <3>9. events' \in [Tickets -> Seq(TicketStatus)]
        BY <2>0, <2>10, <3>1 DEF TypeOK, CloseCommits, LogClosed, TicketStatus
      <3>10. drone' \in Serviceability /\ UNCHANGED documents
        BY <2>0, <2>10 DEF TypeOK, CloseCommits, Serviceability
      <3>11. TypeOK'
        BY <2>0, <3>1, <3>2, <3>4, <3>5, <3>6, <3>8, <3>9, <3>10 DEF TypeOK
      <3> QED
        BY <3>8, <3>11 DEF IInv
    <2>11. ASSUME NEW r \in Requests, End(r), UNCHANGED <<drone, tickets, events, documents>>
           PROVE  IInv'
      BY <2>0, <2>11, JustEnds DEF IInv, TypeOK
    <2>12. ASSUME NEW t \in Tickets, NEW e \in Engineers, NEW d \in Documents,
                  RequestReport(t, e, d) \/ ConfirmReport(t, e, d)
           PROVE  IInv'
      <3>1. documents' \in [Documents -> [status : {"FREE", "PENDING", "READY"},
                                          owner : Tickets \cup {None}]]
        <4>1. documents[d] \in [status : {"FREE", "PENDING", "READY"}, owner : Tickets \cup {None}]
          BY <2>0 DEF TypeOK
        <4>2. CASE RequestReport(t, e, d)
          BY <2>0, <4>2 DEF TypeOK, RequestReport
        <4>3. CASE ConfirmReport(t, e, d)
          <5>1. [documents[d] EXCEPT !.status = "READY"] \in
                  [status : {"FREE", "PENDING", "READY"}, owner : Tickets \cup {None}]
            BY <4>1
          <5>2. documents' = [documents EXCEPT ![d] = [documents[d] EXCEPT !.status = "READY"]]
            BY <2>0, <4>3 DEF TypeOK, ConfirmReport
          <5> QED
            BY <2>0, <5>1, <5>2 DEF TypeOK
        <4> QED
          BY <2>12, <4>2, <4>3
      <3>2. UNCHANGED <<drone, tickets, events, requests>>
        BY <2>12 DEF RequestReport, ConfirmReport
      <3> QED
        BY <2>0, <3>1, <3>2 DEF IInv, TypeOK, Pendings, Pending, OfItsSide, Commits
    <2>13. CASE UNCHANGED vars
      BY <2>0, <2>13 DEF vars, IInv, TypeOK, Pendings, Pending, OfItsSide, Commits
    <2>14. ASSUME NEW r \in StaffRequests, NEW t \in Tickets, NEW e \in Engineers,
                  Assign(r, t, e) \/ Start(r, t, e)
           PROVE  IInv'
      BY <2>5, <2>14 DEF Assign, Start
    <2>15. ASSUME NEW r \in Requests, LosesRace(r) \/ Crash(r) PROVE IInv'
      BY <2>11, <2>15 DEF LosesRace, Crash
    <2> QED
      BY <2>0, <2>1, <2>2, <2>3, <2>4, <2>6, <2>7, <2>8, <2>9, <2>10, <2>12, <2>13, <2>14, <2>15
      DEF Next
  <1> QED
    BY <1>1, <1>2, PTL DEF Spec

-----------------------------------------------------------------------------
\* The columns keep their types, and a ticket past OPEN names its engineer.
THEOREM TypeCorrect == Spec => []TypeOK
  <1>1. IInv => TypeOK
    BY DEF IInv
  <1> QED
    BY <1>1, Invariance, PTL

-----------------------------------------------------------------------------
(* The tickets. *)

\* What each transaction makes of the open tickets.
LEMMA MoveKeepsOpen ==
    ASSUME IInv, NEW r \in StaffRequests, TransitionTicket(r)
    PROVE  /\ OpenTickets' = OpenTickets
           /\ \A u \in Tickets : \/ tickets'[u].status = tickets[u].status
                                 \/ CanTransition(tickets[u].status, tickets'[u].status)
  <1> DEFINE t == requests[r].ticket
             to == requests[r].to
  <1>1. /\ TypeOK /\ t \in Tickets /\ to \in {"ASSIGNED", "IN_PROGRESS"}
        /\ CanTransition(tickets[t].status, to)
    BY DEF IInv, Requests, Pendings, Pending, TransitionTicket, StatusMatches
  <1>2. tickets[t].status \in TicketStatus \cup {"FREE"}
    BY <1>1 DEF TypeOK
  <1>3. tickets[t].status \in OpenStatuses /\ to \in OpenStatuses
    BY <1>1, <1>2, Machine DEF OpenStatuses
  <1>4. tickets'[t].status = to /\ \A u \in Tickets : u # t => tickets'[u] = tickets[u]
    BY <1>1 DEF TransitionTicket, Moved, TypeOK
  <1> HIDE DEF t, to
  <1>5. \A u \in Tickets : tickets'[u].status \in OpenStatuses <=> tickets[u].status \in OpenStatuses
    BY <1>3, <1>4
  <1> QED
    BY <1>1, <1>4, <1>5 DEF OpenTickets

LEMMA CloseRemoves ==
    ASSUME IInv, NEW r \in StaffRequests, CloseCommits(r)
    PROVE  LET t == requests[r].ticket IN
           /\ t \in OpenTickets /\ OpenTickets' = OpenTickets \ {t}
           /\ tickets[t].status = "IN_PROGRESS" /\ tickets'[t].status = "CLOSED"
           /\ \A u \in Tickets \ {t} : tickets'[u] = tickets[u]
  <1> DEFINE t == requests[r].ticket
  <1>1. TypeOK /\ t \in Tickets /\ tickets[t].status = "IN_PROGRESS"
    BY DEF IInv, Requests, Pendings, Pending, Commits, CloseCommits
  <1>2. tickets'[t].status = "CLOSED" /\ \A u \in Tickets \ {t} : tickets'[u] = tickets[u]
    BY <1>1 DEF CloseCommits, TypeOK
  <1> QED
    BY <1>1, <1>2 DEF OpenTickets, OpenStatuses

LEMMA RaiseAdds ==
    ASSUME IInv, NEW r \in ProviderRequests, RaiseCommits(r)
    PROVE  \E t \in Tickets :
              /\ OpenTickets' = OpenTickets \cup {t}
              /\ tickets[t].status = "FREE" /\ tickets'[t].status = "OPEN"
              /\ \A u \in Tickets \ {t} : tickets'[u] = tickets[u]
  <1>1. PICK t \in Tickets : /\ tickets[t].status = "FREE"
                             /\ tickets' = [tickets EXCEPT ![t].status = "OPEN"]
    BY DEF RaiseCommits
  <1>2. tickets'[t].status = "OPEN" /\ \A u \in Tickets \ {t} : tickets'[u] = tickets[u]
    BY <1>1 DEF IInv, TypeOK
  <1>3. OpenTickets' = OpenTickets \cup {t}
    BY <1>1, <1>2 DEF OpenTickets, OpenStatuses
  <1> QED
    BY <1>1, <1>2, <1>3

\* No other step touches a ticket.
LEMMA OthersKeepTickets ==
    ASSUME [Next]_vars,
           \A r \in ProviderRequests : ~RaiseCommits(r),
           \A r \in StaffRequests : ~TransitionTicket(r) /\ ~CloseCommits(r)
    PROVE  UNCHANGED tickets
  BY DEF Next, vars, Raise, UpdateDrone, UpdateDroneWrites, Assign, Start, RecordEvent, Close,
         CloseUpdates, LosesRace, RequestReport, ConfirmReport, Crash

\* However stale what the requests decided on, tickets follow the declared machine.
THEOREM FollowsMachine == Spec => TicketFollowsMachine
  <1> DEFINE Legal == \A t \in Tickets :
                         \/ tickets'[t].status = tickets[t].status
                         \/ tickets[t].status = "FREE" /\ tickets'[t].status = "OPEN"
                         \/ CanTransition(tickets[t].status, tickets'[t].status)
  <1>1. IInv /\ [Next]_vars => Legal
    <2> SUFFICES ASSUME IInv, [Next]_vars PROVE Legal
      OBVIOUS
    <2>1. CASE \E r \in ProviderRequests : RaiseCommits(r)
      BY <2>1, RaiseAdds
    <2>2. CASE \E r \in StaffRequests : TransitionTicket(r)
      BY <2>2, MoveKeepsOpen
    <2>3. CASE \E r \in StaffRequests : CloseCommits(r)
      <3>1. PICK r \in StaffRequests : CloseCommits(r)
        BY <2>3
      <3>2. CanTransition("IN_PROGRESS", "CLOSED")
        BY DEF CanTransition, Transitions
      <3> QED
        BY <3>1, <3>2, CloseRemoves
    <2>4. CASE UNCHANGED tickets
      BY <2>4
    <2> QED
      BY <2>1, <2>2, <2>3, <2>4, OthersKeepTickets
  <1>2. IInv /\ [Next]_vars => [Legal]_vars
    BY <1>1
  <1> QED
    BY <1>2, Invariance, PTL DEF Spec, TicketFollowsMachine

-----------------------------------------------------------------------------
(* The drone, whatever of its owner's requests and of the closes overlap. *)

historyAndVars == <<vars, historyVars>>
HistoryNext == Next /\ Meet /\ RaiseAlone /\ Pass

\* The memory of the overlaps only watches.
LEMMA HistoryOnlyWatches == HistorySpec => Spec
  <1>1. HistoryInit => Init
    BY DEF HistoryInit
  <1>2. [Next /\ Meet /\ RaiseAlone /\ Pass]_<<vars, historyVars>> => [Next]_vars
    OBVIOUS
  <1> QED
    BY <1>1, <1>2, PTL DEF HistorySpec, Spec

\* What a raise that has met no other request of the owner's relies on.
RaisedAlone ==
    \A t \in alone \cap OpenTickets :
        /\ OpenTickets = {t} /\ drone = "UNDER_MAINTENANCE"
        /\ \A r \in ProviderRequests : requests[r].step \notin {"raise", "update"}

\* What a close has counted that no other close has passed.
Counted ==
    \A r \in StaffRequests \ passed :
        requests[r].step = "commit" /\ requests[r].value # "SERVICEABLE"
            => OpenTickets # {requests[r].ticket}

HInv ==
    /\ alone \subseteq Tickets /\ \A t \in alone : tickets[t].status # "FREE"
    /\ \A r, s \in InFlight : r # s => r \in met
    /\ \A r \in InFlight \ met : requests[r].step = "raise" => OpenTickets = {}
    /\ RaisedAlone
    /\ Counted

-----------------------------------------------------------------------------
\* Tickets are raised by the commit of a raise and closed by the commit of a close.
LEMMA NothingRaised ==
    ASSUME RaiseAlone,
           \A t \in Tickets : tickets[t].status = "FREE" => tickets'[t].status # "OPEN"
    PROVE  alone' = alone
  BY DEF RaiseAlone

\* A step that neither opens nor closes a ticket, nor gives the owner a raise or an update,
\* nor a close its count, nor changes the drone.
LEMMA QuietStep ==
    ASSUME HInv, Meet, RaiseAlone, Pass, UNCHANGED drone, OpenTickets' = OpenTickets,
           \A t \in Tickets : tickets[t].status = "FREE" <=> tickets'[t].status = "FREE",
           \A t \in Tickets : tickets[t].status = "FREE" => tickets'[t].status # "OPEN",
           \A r \in ProviderRequests : requests'[r].step \in {"raise", "update"} =>
              requests'[r] = requests[r],
           \A r \in StaffRequests : requests'[r].step = "commit" => requests'[r] = requests[r]
    PROVE  HInv'
  <1>1. alone' = alone
    BY NothingRaised
  <1>2. alone' \subseteq Tickets /\ \A t \in alone' : tickets'[t].status # "FREE"
    BY <1>1 DEF HInv
  <1>3. \A r, s \in InFlight' : r # s => r \in met'
    BY DEF Meet
  <1>4. \A r \in InFlight' \ met' : requests'[r].step = "raise" => OpenTickets' = {}
    BY DEF Meet, HInv, InFlight
  <1>5. RaisedAlone'
    BY <1>1 DEF HInv, RaisedAlone
  <1>6. Counted'
    BY DEF HInv, Counted, Pass
  <1> QED
    BY <1>2, <1>3, <1>4, <1>5, <1>6 DEF HInv

\* The memory of the overlaps agrees with what the requests hold.
THEOREM Overlaps == HistorySpec => []HInv
  <1>1. HistoryInit => HInv
    <2> SUFFICES ASSUME HistoryInit PROVE HInv
      OBVIOUS
    <2>1. OpenTickets = {} /\ InFlight = {} /\ alone = {}
      BY DEF HistoryInit, Init, OpenTickets, OpenStatuses, InFlight, Requests
    <2>2. \A r \in StaffRequests : requests[r].step = "idle"
      BY IdleTyped DEF HistoryInit, Init, Requests
    <2> QED
      BY <2>1, <2>2 DEF HInv, RaisedAlone, Counted
  <1>2. IInv /\ HInv /\ [HistoryNext]_historyAndVars => HInv'
    <2> SUFFICES ASSUME IInv, HInv, [HistoryNext]_historyAndVars PROVE HInv'
      OBVIOUS
    <2>0. TypeOK /\ ProviderRequests \cap StaffRequests = {}
      BY FieldServiceAssumption DEF IInv
    <2>1. \A r \in Requests : End(r) =>
             /\ requests'[r] = Idle /\ requests'[r].step = "idle"
             /\ \A s \in Requests : s # r => requests'[s] = requests[s]
      BY <2>0, IdleTyped DEF End, TypeOK
    <2>2. \A r \in Requests : \A q : Begin(r, q) =>
             requests'[r] = q /\ \A s \in Requests : s # r => requests'[s] = requests[s]
      BY <2>0 DEF Begin, TypeOK
    <2>3. UNCHANGED tickets => OpenTickets' = OpenTickets
      BY DEF OpenTickets
    <2>4. ASSUME Meet, RaiseAlone, Pass, NEW r \in ProviderRequests, Raise(r) PROVE HInv'
      <3>1. OpenTickets = {} /\ OpenTickets' = {} /\ UNCHANGED <<drone, tickets>>
        BY <2>3, <2>4 DEF Raise, NoOpenTicket
      <3>2. \A s \in StaffRequests : requests'[s] = requests[s]
        BY <2>0, <2>2, <2>4 DEF Raise, Requests
      <3>3. alone' = alone
        BY <2>4, <3>1, NothingRaised
      <3>4. \A q, s \in InFlight' : q # s => q \in met'
        BY <2>4 DEF Meet
      <3>5. Counted'
        BY <2>4, <3>1, <3>2 DEF HInv, Counted, Pass
      <3> QED
        BY <3>1, <3>3, <3>4, <3>5 DEF HInv, RaisedAlone
    <2>5. ASSUME Meet, RaiseAlone, Pass, NEW r \in ProviderRequests, RaiseCommits(r) PROVE HInv'
      <3>1. PICK t \in Tickets :
                /\ OpenTickets' = OpenTickets \cup {t}
                /\ tickets[t].status = "FREE" /\ tickets'[t].status = "OPEN"
                /\ \A u \in Tickets \ {t} : tickets'[u] = tickets[u]
        BY <2>5, RaiseAdds
      <3>2. /\ requests'[r] = Idle /\ requests'[r].step = "idle"
            /\ \A s \in Requests : s # r => requests'[s] = requests[s]
        BY <2>1, <2>5 DEF RaiseCommits, Requests
      <3>3. r \in InFlight /\ requests[r].step = "raise" /\ drone' = "UNDER_MAINTENANCE"
        BY <2>5, IdleTyped DEF RaiseCommits, InFlight
      <3>4. alone \cap OpenTickets = {}
        BY <3>3 DEF HInv, RaisedAlone
      <3>5. /\ alone' \subseteq alone \cup {t}
            /\ t \in alone' => \E s \in InFlight \ met : requests'[s] = Idle
        <4>1. t \notin alone
          BY <3>1 DEF HInv
        <4> QED
          BY <2>5, <3>1, <4>1 DEF RaiseAlone
      <3>6. t \in alone' => r \notin met
        BY <3>2, <3>5 DEF InFlight, Requests
      <3>7. /\ alone' \subseteq Tickets /\ \A u \in alone' : tickets'[u].status # "FREE"
        BY <3>1, <3>5 DEF HInv
      <3>8. \A q, s \in InFlight' : q # s => q \in met'
        BY <2>5 DEF Meet
      <3>9. InFlight' \ met' = {}
        <4> SUFFICES ASSUME NEW s \in InFlight', s \notin met' PROVE FALSE
          OBVIOUS
        <4>1. s # r /\ s \in InFlight /\ s \notin met
          BY <2>5, <3>2 DEF Meet, InFlight, Requests
        <4> QED
          BY <3>3, <4>1 DEF HInv
      <3>10. RaisedAlone'
        <4> SUFFICES ASSUME NEW u \in alone', u \in OpenTickets'
                     PROVE  /\ OpenTickets' = {u} /\ drone' = "UNDER_MAINTENANCE"
                            /\ \A s \in ProviderRequests : requests'[s].step \notin {"raise", "update"}
          BY DEF RaisedAlone
        <4>1. u = t /\ r \notin met
          BY <3>1, <3>4, <3>5, <3>6
        <4>2. OpenTickets = {} /\ \A s \in InFlight : s = r
          BY <3>3, <4>1 DEF HInv
        <4>3. \A s \in ProviderRequests : requests'[s].step = "idle"
          BY <3>2, <4>2, IdleTyped DEF InFlight, Requests
        <4> QED
          BY <3>1, <3>3, <4>1, <4>2, <4>3
      <3>11. Counted'
        <4> SUFFICES ASSUME NEW s \in StaffRequests \ passed', requests'[s].step = "commit",
                            requests'[s].value # "SERVICEABLE"
                     PROVE  OpenTickets' # {requests'[s].ticket}
          BY DEF Counted
        <4>1. requests'[s] = requests[s] /\ s \notin passed
          BY <2>0, <2>5, <3>2 DEF Pass, Requests
        <4>2. OpenTickets # {requests[s].ticket}
          BY <4>1 DEF HInv, Counted
        <4>3. requests[s].ticket \in OpenTickets
          BY <4>1 DEF IInv, Pendings, Pending, Commits, Requests, OpenTickets, OpenStatuses
        <4> QED
          BY <3>1, <4>1, <4>2, <4>3
      <3> QED
        BY <3>7, <3>8, <3>9, <3>10, <3>11 DEF HInv
    <2>6. ASSUME Meet, RaiseAlone, Pass, NEW r \in ProviderRequests,
                 NEW value \in Serviceability, UpdateDrone(r, value)
          PROVE  HInv'
      <3> DEFINE q == [Idle EXCEPT !.step = "update", !.value = value]
      <3>1. q.step = "update"
        BY IdleTyped DEF RequestRecord
      <3>2. Begin(r, q) /\ drone # "UNDER_MAINTENANCE" /\ UNCHANGED <<drone, tickets>>
        BY <2>6 DEF UpdateDrone, NotGrounded
      <3> HIDE DEF q
      <3>3. requests'[r].step = "update" /\ \A s \in Requests : s # r => requests'[s] = requests[s]
        BY <2>2, <3>1, <3>2 DEF Requests
      <3>4. alone' = alone /\ OpenTickets' = OpenTickets
        BY <2>3, <2>6, <3>2, NothingRaised
      <3>5. RaisedAlone'
        BY <3>2, <3>4 DEF HInv, RaisedAlone
      <3>6. \A s, u \in InFlight' : s # u => s \in met'
        BY <2>6 DEF Meet
      <3>7. \A s \in InFlight' \ met' : requests'[s].step = "raise" => OpenTickets' = {}
        BY <2>6, <3>3, <3>4 DEF Meet, InFlight, HInv, Requests
      <3>8. Counted'
        BY <2>0, <2>6, <3>3, <3>4 DEF HInv, Counted, Pass, Requests
      <3> QED
        BY <3>2, <3>4, <3>5, <3>6, <3>7, <3>8 DEF HInv
    <2>7. ASSUME Meet, RaiseAlone, Pass, NEW r \in ProviderRequests, UpdateDroneWrites(r)
          PROVE  HInv'
      <3>1. /\ requests'[r].step = "idle"
            /\ \A s \in Requests : s # r => requests'[s] = requests[s]
            /\ requests[r].step = "update" /\ UNCHANGED tickets
        BY <2>1, <2>7 DEF UpdateDroneWrites, Requests
      <3>2. alone' = alone /\ OpenTickets' = OpenTickets /\ alone \cap OpenTickets = {}
        BY <2>3, <2>7, <3>1, NothingRaised DEF HInv, RaisedAlone
      <3>3. \A s, u \in InFlight' : s # u => s \in met'
        BY <2>7 DEF Meet
      <3>4. \A s \in InFlight' \ met' : requests'[s].step = "raise" => OpenTickets' = {}
        BY <2>7, <3>1, <3>2 DEF Meet, InFlight, HInv, Requests
      <3>5. Counted'
        BY <2>0, <2>7, <3>1, <3>2 DEF HInv, Counted, Pass, Requests
      <3> QED
        BY <3>1, <3>2, <3>3, <3>4, <3>5 DEF HInv, RaisedAlone
    <2>8. ASSUME Meet, RaiseAlone, Pass, NEW r \in StaffRequests, TransitionTicket(r) PROVE HInv'
      <3>0. UNCHANGED drone
        BY <2>8 DEF TransitionTicket
      <3>1. /\ OpenTickets' = OpenTickets
            /\ \A u \in Tickets : \/ tickets'[u].status = tickets[u].status
                                  \/ CanTransition(tickets[u].status, tickets'[u].status)
        BY <2>8, MoveKeepsOpen
      <3>2. \A u \in Tickets : tickets'[u].status = "FREE" => tickets[u].status = "FREE"
        <4>1. \A u \in Tickets : tickets[u].status \in TicketStatus \cup {"FREE"}
          BY <2>0 DEF TypeOK
        <4> QED
          BY <3>1, <4>1 DEF CanTransition, Transitions, TicketStatus
      <3>3. requests'[r].step = "record" /\ \A s \in Requests : s # r => requests'[s] = requests[s]
        BY <2>0, <2>8, IdleTyped DEF TransitionTicket, TypeOK, Requests, RequestRecord
      <3> QED
        BY <2>0, <2>8, <3>0, <3>1, <3>2, <3>3, QuietStep DEF CanTransition, Requests
    <2>9. ASSUME Meet, RaiseAlone, Pass, NEW r \in StaffRequests, CloseUpdates(r) PROVE HInv'
      <3>1. OpenTickets' = OpenTickets /\ UNCHANGED <<drone, tickets>>
        BY <2>3, <2>9 DEF CloseUpdates
      <3>2. requests[r].ticket \in OpenTickets
        BY <2>9 DEF IInv, Requests, Pendings, Pending, CloseUpdates, StatusMatches, OpenTickets,
                    OpenStatuses
      <3> DEFINE value == IF StillOpen(requests[r].ticket) = {} THEN "SERVICEABLE"
                          ELSE "UNDER_MAINTENANCE"
      <3>3. requests' = [requests EXCEPT ![r].step = "commit", ![r].value = value]
        BY <2>9 DEF CloseUpdates
      <3> HIDE DEF value
      <3>4. /\ requests'[r].value = value /\ requests'[r].ticket = requests[r].ticket
            /\ \A s \in Requests : s # r => requests'[s] = requests[s]
        BY <2>0, <3>3 DEF TypeOK, Requests, RequestRecord
      <3>5. value # "SERVICEABLE" => OpenTickets # {requests[r].ticket}
        BY DEF value, StillOpen
      <3>6. alone' = alone
        BY <2>9, <3>1, NothingRaised
      <3>7. \A s \in ProviderRequests : requests'[s] = requests[s]
        BY <2>0, <3>4 DEF Requests
      <3>8. Counted'
        BY <2>0, <2>9, <3>1, <3>4, <3>5 DEF HInv, Counted, Pass, Requests
      <3>9. \A s, u \in InFlight' : s # u => s \in met'
        BY <2>9 DEF Meet
      <3>10. \A s \in InFlight' \ met' : requests'[s].step = "raise" => OpenTickets' = {}
        BY <2>9, <3>1, <3>7 DEF Meet, InFlight, HInv
      <3> QED
        BY <3>1, <3>6, <3>7, <3>8, <3>9, <3>10 DEF HInv, RaisedAlone
    <2>10. ASSUME Meet, RaiseAlone, Pass, NEW r \in StaffRequests, CloseCommits(r) PROVE HInv'
      <3> DEFINE t == requests[r].ticket
      <3>1. /\ t \in OpenTickets /\ OpenTickets' = OpenTickets \ {t}
            /\ tickets[t].status = "IN_PROGRESS" /\ tickets'[t].status = "CLOSED"
            /\ \A u \in Tickets \ {t} : tickets'[u] = tickets[u]
        BY <2>10, CloseRemoves
      <3>2. requests'[r].step = "idle" /\ \A s \in Requests : s # r => requests'[s] = requests[s]
        BY <2>1, <2>10 DEF CloseCommits, Requests
      <3> HIDE DEF t
      <3>3. alone' = alone
        BY <2>10, <3>1, NothingRaised
      <3>4. t \in Closed
        BY <3>1 DEF Closed, OpenTickets
      <3>5. alone \cap OpenTickets' = {}
        BY <3>1 DEF HInv, RaisedAlone
      <3>6. \A u \in alone : tickets'[u].status # "FREE"
        BY <3>1 DEF HInv
      <3>7. Counted'
        BY <2>0, <2>10, <3>2, <3>4 DEF Counted, Pass, Requests
      <3>8. \A s, u \in InFlight' : s # u => s \in met'
        BY <2>10 DEF Meet
      <3>9. \A s \in InFlight' \ met' : requests'[s].step = "raise" => OpenTickets' = {}
        <4>1. \A s \in ProviderRequests : requests'[s] = requests[s]
          BY <2>0, <3>2 DEF Requests
        <4> QED
          BY <2>10, <3>1, <4>1 DEF Meet, InFlight, HInv
      <3> QED
        BY <3>3, <3>5, <3>6, <3>7, <3>8, <3>9 DEF HInv, RaisedAlone
    <2>11. ASSUME Meet, RaiseAlone, Pass, NEW r \in Requests, End(r), UNCHANGED <<drone, tickets>>
           PROVE  HInv'
      BY <2>0, <2>1, <2>3, <2>11, QuietStep DEF Requests
    <2>12. ASSUME Meet, RaiseAlone, Pass, NEW r \in StaffRequests, NEW q, q.step # "commit",
                  Begin(r, q), UNCHANGED <<drone, tickets>>
           PROVE  HInv'
      BY <2>0, <2>2, <2>3, <2>12, QuietStep DEF Requests
    <2>13. ASSUME Meet, RaiseAlone, Pass, UNCHANGED <<drone, tickets, requests>> PROVE HInv'
      BY <2>3, <2>13, QuietStep
    <2>14. ASSUME Meet, RaiseAlone, Pass, NEW r \in StaffRequests, NEW t \in Tickets,
                  NEW e \in Engineers, Assign(r, t, e) \/ Start(r, t, e)
           PROVE  HInv'
      BY <2>12, <2>14, IdleTyped DEF Assign, Start, RequestRecord
    <2>15. ASSUME Meet, RaiseAlone, Pass, NEW r \in StaffRequests, NEW t \in Tickets,
                  NEW e \in Engineers, NEW d \in Documents, Close(r, t, e, d)
           PROVE  HInv'
      BY <2>12, <2>15, IdleTyped DEF Close, RequestRecord
    <2>16. ASSUME Meet, RaiseAlone, Pass, NEW r \in StaffRequests, RecordEvent(r) \/ LosesRace(r)
           PROVE  HInv'
      BY <2>11, <2>16 DEF RecordEvent, LosesRace, Requests
    <2>17. ASSUME Meet, RaiseAlone, Pass, NEW r \in Requests, Crash(r) PROVE HInv'
      BY <2>11, <2>17 DEF Crash
    <2>18. ASSUME Meet, RaiseAlone, Pass, NEW t \in Tickets, NEW e \in Engineers,
                  NEW d \in Documents, RequestReport(t, e, d) \/ ConfirmReport(t, e, d)
           PROVE  HInv'
      BY <2>13, <2>18 DEF RequestReport, ConfirmReport
    <2>19. CASE UNCHANGED historyAndVars
      BY <2>3, <2>19 DEF historyAndVars, historyVars, vars, HInv, InFlight, RaisedAlone, Counted
    <2> QED
      BY <2>4, <2>5, <2>6, <2>7, <2>8, <2>9, <2>10, <2>14, <2>15, <2>16, <2>17, <2>18, <2>19
      DEF Next, HistoryNext
  <1> QED
    BY <1>1, <1>2, Invariance, HistoryOnlyWatches, PTL DEF HistorySpec, HistoryNext, historyAndVars

\* A second open ticket takes two overlapping raises: nothing else gets past the look for
\* an open one that raise takes before its transaction, although no index refuses one.
THEOREM SecondTicket == HistorySpec => []SecondTicketNeedsOverlap
  <1>1. HInv => SecondTicketNeedsOverlap
    BY DEF HInv, RaisedAlone, SecondTicketNeedsOverlap
  <1> QED
    BY <1>1, Overlaps, PTL

\* The ticket of a raise that met no other request keeps the drone on the ground, although
\* the owner's update of the drone writes what it decided on an earlier reading.
THEOREM DroneFollowsTickets == HistorySpec => []GroundedWhileOpenAlone
  <1>1. HInv => GroundedWhileOpenAlone
    BY DEF HInv, RaisedAlone, GroundedWhileOpenAlone
  <1> QED
    BY <1>1, Overlaps, PTL

\* Whoever closes the last open ticket returns the drone in the same step, unless the close
\* of another ticket has come between the count and the commit.
THEOREM ClosingReturnsDrone == HistorySpec => LastCloseReturnsDroneUnlessPassed
  <1> DEFINE Returned ==
               \A r \in StaffRequests \ passed :
                  /\ requests[r].step = "commit"
                  /\ Closed # {} /\ requests'[r] = Idle
                  /\ OpenTickets' = {}
                  => drone' = "SERVICEABLE"
  <1>1. IInv /\ HInv /\ [Next]_vars => Returned
    <2> SUFFICES ASSUME IInv, HInv, [Next]_vars, NEW r \in StaffRequests \ passed,
                        requests[r].step = "commit", Closed # {}, requests'[r] = Idle,
                        OpenTickets' = {}
                 PROVE  drone' = "SERVICEABLE"
      OBVIOUS
    <2>0. r \in Requests /\ TypeOK /\ requests[r] # Idle
      BY IdleTyped DEF IInv, Requests
    <2>1. ~UNCHANGED tickets
      BY DEF Closed
    <2>2. \A s \in StaffRequests : ~TransitionTicket(s)
      <3> SUFFICES ASSUME NEW s \in StaffRequests, TransitionTicket(s) PROVE FALSE
        OBVIOUS
      <3>1. OpenTickets' = OpenTickets
        BY MoveKeepsOpen
      <3>2. requests[r].ticket \in OpenTickets
        BY <2>0 DEF IInv, Pendings, Pending, Commits, OpenTickets, OpenStatuses
      <3> QED
        BY <3>1, <3>2
    <2>3. \A s \in ProviderRequests : ~RaiseCommits(s)
      BY RaiseAdds
    <2>4. PICK s \in StaffRequests : CloseCommits(s)
      BY <2>1, <2>2, <2>3, OthersKeepTickets
    <2>5. s = r
      BY <2>0, <2>4 DEF CloseCommits, End, TypeOK, Requests
    <2>6. requests[r].ticket \in OpenTickets /\ OpenTickets' = OpenTickets \ {requests[r].ticket}
      BY <2>4, <2>5, CloseRemoves
    <2>7. requests[r].value = "SERVICEABLE"
      BY <2>6 DEF HInv, Counted
    <2> QED
      BY <2>4, <2>5, <2>7 DEF CloseCommits
  <1>2. IInv /\ HInv /\ [Next]_vars => [Returned]_<<vars, historyVars>>
    BY <1>1
  <1>3. HistorySpec => [][Next]_vars
    BY HistoryOnlyWatches, PTL DEF Spec
  <1> QED
    BY <1>2, <1>3, Invariance, HistoryOnlyWatches, Overlaps, PTL DEF LastCloseReturnsDroneUnlessPassed
=============================================================================
