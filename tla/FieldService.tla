---------------------------- MODULE FieldService ----------------------------
(***************************************************************************)
(* The maintenance tickets of one drone, their service reports, and the     *)
(* drone's serviceability, under concurrent HTTP requests.                  *)
(*                                                                          *)
(* raise and close each run one transaction, which is invisible until it    *)
(* commits; assign and start issue their two statements, the conditional    *)
(* update and the event, without a transaction around them; update of a     *)
(* drone reads it and writes it back unconditionally.  Between the read of  *)
(* a handler and its writes the other requests go on.                       *)
(***************************************************************************)
EXTENDS Naturals, Sequences

CONSTANTS
    ProviderRequests,  \* slots for the drone owner's requests in flight
    StaffRequests,     \* slots for requests of the platform admin and the engineers
    Engineers,         \* the platform's service engineers
    Tickets,           \* the rows of maintenance_tickets (bound)
    Documents,         \* the rows of documents (bound)
    None,              \* SQL NULL
    MaxEvents          \* bound: a ticket with this many events is not assigned again

ASSUME FieldServiceAssumption ==
    /\ ProviderRequests \cap StaffRequests = {}
    /\ None \notin Engineers \cup Tickets \cup Documents
    /\ MaxEvents \in Nat

VARIABLES
    drone,       \* drones.serviceability
    tickets,     \* the committed rows of maintenance_tickets
    events,      \* ticket_events: per ticket the statuses reached, oldest first
    documents,   \* the service reports: their ticket, and PENDING or READY
    requests     \* per request, the step it is about to take and what it read

vars == <<drone, tickets, events, documents, requests>>

Requests == ProviderRequests \cup StaffRequests

TicketStatus == {"OPEN", "ASSIGNED", "IN_PROGRESS", "CLOSED", "CANCELLED"}
Serviceability == {"SERVICEABLE", "UNDER_MAINTENANCE", "RETIRED"}

Transitions ==
    [OPEN        |-> {"ASSIGNED", "CANCELLED"},
     ASSIGNED    |-> {"IN_PROGRESS", "OPEN", "CANCELLED"},
     IN_PROGRESS |-> {"CLOSED", "ASSIGNED"},
     CLOSED      |-> {},
     CANCELLED   |-> {}]

CanTransition(from, to) == from # "FREE" /\ to \in Transitions[from]

\* countOpenTickets: the committed tickets that keep the drone on the ground.
OpenStatuses == {"OPEN", "ASSIGNED", "IN_PROGRESS"}
OpenTickets == {t \in Tickets : tickets[t].status \in OpenStatuses}

Idle == [step |-> "idle", ticket |-> None, from |-> "FREE", to |-> "FREE",
         engineer |-> None, document |-> None, value |-> "SERVICEABLE"]

Begin(r, request) == requests[r] = Idle /\ requests' = [requests EXCEPT ![r] = request]
End(r) == requests' = [requests EXCEPT ![r] = Idle]

\* A ticket whose row a transaction has written and not committed.
Locked(t) == \E r \in Requests : requests[r].step = "commit" /\ requests[r].ticket = t

-----------------------------------------------------------------------------
(* Guards, with the mutants that drop them. *)

\* raise: the check for an open ticket, made before the transaction.
AlwaysFree == TRUE
NoOpenTicket == OpenTickets = {}

\* update: a grounded drone's serviceability is not for its owner to set.
AnyTime == TRUE
NotGrounded == drone # "UNDER_MAINTENANCE"

\* close: the report's upload has been confirmed.
ReportReady(d) == documents[d].status = "READY"

\* WHERE id AND status of the ticket update.
Unconditional(r) == TRUE
StatusMatches(r) == tickets[requests[r].ticket].status = requests[r].from

\* countOpenTickets in close, after its own update of t.  (Mutant: before it.)
CountBefore(t) == OpenTickets
StillOpen(t) == OpenTickets \ {t}

-----------------------------------------------------------------------------
(* The drone's owner. *)

\* raise, up to its transaction.
Raise(r) ==
    /\ NoOpenTicket
    /\ Begin(r, [Idle EXCEPT !.step = "raise"])
    /\ UNCHANGED <<drone, tickets, events, documents>>

\* The transaction of raise: the ticket, its first event, and the grounding.
RaiseCommits(r) ==
    /\ requests[r].step = "raise"
    /\ \E t \in Tickets :
          /\ tickets[t].status = "FREE"
          /\ tickets' = [tickets EXCEPT ![t].status = "OPEN"]
          /\ events' = [events EXCEPT ![t] = <<"OPEN">>]
    /\ drone' = "UNDER_MAINTENANCE"
    /\ End(r)
    /\ UNCHANGED documents

\* DroneService.update decides on the serviceability it read ...
UpdateDrone(r, value) ==
    /\ NotGrounded
    /\ Begin(r, [Idle EXCEPT !.step = "update", !.value = value])
    /\ UNCHANGED <<drone, tickets, events, documents>>

\* ... and writes whatever it was asked to.
UpdateDroneWrites(r) ==
    /\ requests[r].step = "update"
    /\ drone' = requests[r].value
    /\ End(r)
    /\ UNCHANGED <<tickets, events, documents>>

-----------------------------------------------------------------------------
(* The admin and the engineers. *)

\* assign: also takes a ticket in progress away from its engineer.
Assign(r, t, e) ==
    /\ CanTransition(tickets[t].status, "ASSIGNED")
    /\ Len(events[t]) < MaxEvents
    /\ Begin(r, [Idle EXCEPT !.step = "move", !.ticket = t, !.from = tickets[t].status,
                             !.to = "ASSIGNED", !.engineer = e])
    /\ UNCHANGED <<drone, tickets, events, documents>>

Start(r, t, e) ==
    /\ tickets[t].engineer = e
    /\ CanTransition(tickets[t].status, "IN_PROGRESS")
    /\ Begin(r, [Idle EXCEPT !.step = "move", !.ticket = t, !.from = tickets[t].status,
                             !.to = "IN_PROGRESS", !.engineer = e])
    /\ UNCHANGED <<drone, tickets, events, documents>>

\* What assign and start write into the ticket.
Moved(r) ==
    [tickets[requests[r].ticket] EXCEPT
        !.status = requests[r].to,
        !.engineer = IF requests[r].to = "ASSIGNED" THEN requests[r].engineer ELSE @]

\* transition without a transaction: the conditional update commits ...
TransitionTicket(r) ==
    /\ requests[r].step = "move"
    /\ ~Locked(requests[r].ticket)
    /\ StatusMatches(r)
    /\ tickets' = [tickets EXCEPT ![requests[r].ticket] = Moved(r)]
    /\ requests' = [requests EXCEPT ![r] =
          [Idle EXCEPT !.step = "record", !.ticket = requests[r].ticket, !.to = requests[r].to]]
    /\ UNCHANGED <<drone, events, documents>>

\* ... and the event is inserted after it.
RecordEvent(r) ==
    /\ requests[r].step = "record"
    /\ events' = [events EXCEPT ![requests[r].ticket] = Append(@, requests[r].to)]
    /\ End(r)
    /\ UNCHANGED <<drone, tickets, documents>>

\* requestReportUpload and confirmReportUpload, by the assigned engineer.
RequestReport(t, e, d) ==
    /\ tickets[t].engineer = e
    /\ documents[d].status = "FREE"
    /\ documents' = [documents EXCEPT ![d] = [status |-> "PENDING", owner |-> t]]
    /\ UNCHANGED <<drone, tickets, events, requests>>

ConfirmReport(t, e, d) ==
    /\ tickets[t].engineer = e
    /\ documents[d].status # "FREE" /\ documents[d].owner = t
    /\ documents' = [documents EXCEPT ![d].status = "READY"]
    /\ UNCHANGED <<drone, tickets, events, requests>>

\* close, up to its transaction.  The report may be any document there is.
Close(r, t, e, d) ==
    /\ tickets[t].engineer = e
    /\ ReportReady(d)
    /\ CanTransition(tickets[t].status, "CLOSED")
    /\ Begin(r, [Idle EXCEPT !.step = "close", !.ticket = t, !.from = tickets[t].status,
                             !.to = "CLOSED", !.engineer = e, !.document = d])
    /\ UNCHANGED <<drone, tickets, events, documents>>

\* Inside it: the conditional update takes the ticket's lock, and the other open
\* tickets are counted as they are committed at this moment.
CloseUpdates(r) ==
    /\ requests[r].step = "close"
    /\ ~Locked(requests[r].ticket)
    /\ StatusMatches(r)
    /\ requests' = [requests EXCEPT
          ![r].step = "commit",
          ![r].value = IF StillOpen(requests[r].ticket) = {} THEN "SERVICEABLE"
                       ELSE "UNDER_MAINTENANCE"]
    /\ UNCHANGED <<drone, tickets, events, documents>>

\* A drone with no other open ticket goes back to service; else it is not written.
LogClosed(t) == [events EXCEPT ![t] = Append(@, "CLOSED")]

CloseCommits(r) ==
    /\ requests[r].step = "commit"
    /\ tickets' = [tickets EXCEPT ![requests[r].ticket].status = "CLOSED",
                                  ![requests[r].ticket].document = requests[r].document]
    /\ events' = LogClosed(requests[r].ticket)
    /\ drone' = IF requests[r].value = "SERVICEABLE" THEN "SERVICEABLE" ELSE drone
    /\ End(r)
    /\ UNCHANGED documents

-----------------------------------------------------------------------------
\* assertWon: the ticket has moved since it was read, the caller gets a 409.
LosesRace(r) ==
    /\ requests[r].step \in {"move", "close"}
    /\ ~Locked(requests[r].ticket)
    /\ ~StatusMatches(r)
    /\ End(r)
    /\ UNCHANGED <<drone, tickets, events, documents>>

\* The process dies, or the connection is lost: transactions roll back, and an
\* event that was to follow its update never comes.
Crash(r) ==
    /\ requests[r] # Idle
    /\ End(r)
    /\ UNCHANGED <<drone, tickets, events, documents>>

Init ==
    /\ drone = "SERVICEABLE"
    /\ tickets = [t \in Tickets |-> [status |-> "FREE", engineer |-> None, document |-> None]]
    /\ events = [t \in Tickets |-> <<>>]
    /\ documents = [d \in Documents |-> [status |-> "FREE", owner |-> None]]
    /\ requests = [r \in Requests |-> Idle]

Next ==
    \/ \E r \in ProviderRequests :
          \/ Raise(r)
          \/ RaiseCommits(r)
          \/ \E value \in Serviceability : UpdateDrone(r, value)
          \/ UpdateDroneWrites(r)
    \/ \E r \in StaffRequests :
          \/ \E t \in Tickets, e \in Engineers : Assign(r, t, e) \/ Start(r, t, e)
          \/ TransitionTicket(r)
          \/ RecordEvent(r)
          \/ \E t \in Tickets, e \in Engineers, d \in Documents : Close(r, t, e, d)
          \/ CloseUpdates(r)
          \/ CloseCommits(r)
          \/ LosesRace(r)
    \/ \E t \in Tickets, e \in Engineers, d \in Documents :
          RequestReport(t, e, d) \/ ConfirmReport(t, e, d)
    \/ \E r \in Requests : Crash(r)

Spec == Init /\ [][Next]_vars

-----------------------------------------------------------------------------
(* Properties. *)

RequestRecord ==
    [step : {"idle", "raise", "update", "move", "record", "close", "commit"},
     ticket : Tickets \cup {None}, from : TicketStatus \cup {"FREE"},
     to : TicketStatus \cup {"FREE"}, engineer : Engineers \cup {None},
     document : Documents \cup {None}, value : Serviceability]

\* The columns have their types, and a ticket past OPEN names its engineer.
TypeOK ==
    /\ drone \in Serviceability
    /\ tickets \in [Tickets -> [status : TicketStatus \cup {"FREE"},
                                engineer : Engineers \cup {None},
                                document : Documents \cup {None}]]
    /\ \A t \in Tickets :
          tickets[t].engineer = None <=> tickets[t].status \in {"FREE", "OPEN"}
    /\ events \in [Tickets -> Seq(TicketStatus)]
    /\ documents \in [Documents -> [status : {"FREE", "PENDING", "READY"},
                                    owner : Tickets \cup {None}]]
    /\ requests \in [Requests -> RequestRecord]

\* A drone with an open ticket is on the ground.  (Not so when the owner's requests
\* overlap: FieldServiceOverlaps says what is left.)
GroundedWhileOpen == OpenTickets # {} => drone = "UNDER_MAINTENANCE"

\* A drone has at most one open ticket.  (Nor this.)
OneOpenTicket == \A t, u \in OpenTickets : t = u

\* However stale the status a request decided on, a ticket only ever moves along
\* the declared machine, and a closed one never again.
TicketFollowsMachine ==
    [][ \A t \in Tickets :
          \/ tickets'[t].status = tickets[t].status
          \/ tickets[t].status = "FREE" /\ tickets'[t].status = "OPEN"
          \/ CanTransition(tickets[t].status, tickets'[t].status) ]_vars

\* The closing of the last open ticket puts the drone back into service.  (Nor this.)
LastCloseReturnsDrone ==
    [][OpenTickets # {} /\ OpenTickets' = {} => drone' = "SERVICEABLE"]_vars

\* "Only the assigned engineer may close": whoever closes a ticket is the engineer
\* it is assigned to.
OnlyAssignedEngineerCloses ==
    [][ \A r \in StaffRequests :
          (requests[r].step = "commit" /\ tickets' # tickets /\ requests'[r] = Idle)
              => tickets[requests[r].ticket].engineer = requests[r].engineer ]_vars
=============================================================================
