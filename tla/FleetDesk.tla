------------------------------ MODULE FleetDesk ------------------------------
(***************************************************************************)
(* One drone between its owner's page, the maintenance console, the staff   *)
(* list and the engineers' tickets: what the handlers answer and which       *)
(* buttons the pages offer.                                                 *)
(*                                                                          *)
(* A fleet is what the database holds: the drone, the number of its latest   *)
(* ticket, that ticket's status and engineer, the engineers hired and how    *)
(* many tickets each has closed.  An answer is the set of fleets a handler   *)
(* may leave: none, when it refuses.                                         *)
(***************************************************************************)
EXTENDS Naturals

CONSTANTS
    Engineers,   \* who may be hired
    Nobody,
    PageSize,    \* tickets in a list: its one page, less older tickets of other drones
    MaxTickets   \* bound: tickets of one drone

ASSUME FleetAssumption ==
    /\ Engineers # {} /\ Nobody \notin Engineers /\ PageSize \in Nat
    /\ Engineers \cap {"drones", "dispatch", "staff", "services"} = {}   \* pages have other names

NewFleet == [drone |-> "NONE", ticket |-> 0, status |-> "CLOSED", engineer |-> Nobody,
             hired |-> {}, closed |-> [e \in Engineers |-> 0]]

FleetPages == {"drones", "dispatch", "staff"} \cup Engineers

Granted(guard, next) == IF guard THEN {next} ELSE {}

Open(f) == f.status # "CLOSED"

-----------------------------------------------------------------------------
(* Handlers.  A ticket is named by its number. *)

\* A registration number is taken only once.
Register(f) == Granted(f.drone = "NONE", [f EXCEPT !.drone = "SERVICEABLE"])

SetServiceability(f, value) ==
    Granted(f.drone \notin {"NONE", "UNDER_MAINTENANCE"}, [f EXCEPT !.drone = value])

Raise(f) ==
    Granted(f.drone # "NONE" /\ ~Open(f) /\ f.ticket < MaxTickets,
            [f EXCEPT !.drone = "UNDER_MAINTENANCE", !.ticket = @ + 1, !.status = "OPEN",
                      !.engineer = Nobody])

\* So is an address.
Hire(f, e) == Granted(e \notin f.hired, [f EXCEPT !.hired = @ \cup {e}])

AssignTicket(f, no, e) ==
    Granted(no = f.ticket /\ f.status \in {"OPEN", "IN_PROGRESS"},
            [f EXCEPT !.status = "ASSIGNED", !.engineer = e])

StartTicket(f, no, e) ==
    Granted(no = f.ticket /\ f.engineer = e /\ f.status = "ASSIGNED",
            [f EXCEPT !.status = "IN_PROGRESS"])

\* The two requests around the upload.
ReportTicket(f, no, e) == Granted(no < f.ticket \/ f.engineer = e, f)

CloseTicket(f, no, e) ==
    Granted(no = f.ticket /\ f.engineer = e /\ f.status = "IN_PROGRESS",
            [f EXCEPT !.status = "CLOSED", !.drone = "SERVICEABLE", !.closed[e] = @ + 1])

FleetAnswer(page, step, arg, view, f) ==
    CASE step = "register" -> Register(f)
      [] step = "retire"   -> SetServiceability(f, "RETIRED")
      [] step = "restore"  -> SetServiceability(f, "SERVICEABLE")
      [] step = "raise"    -> Raise(f)
      [] step = "hire"     -> Hire(f, arg)
      [] step = "assign"   -> AssignTicket(f, view.ticket, arg)
      [] step = "start"    -> StartTicket(f, view.ticket, page)
      [] step = "report"   -> ReportTicket(f, view.ticket, page)
      [] step = "close"    -> CloseTicket(f, view.ticket, page)

-----------------------------------------------------------------------------
(* Pages. *)

\* The owner's list holds the tickets of the owner's drones, an engineer's those assigned to
\* that engineer: closed ones too, the oldest first, and no page asks for more than the first.
LatestListed(page, f) ==
    IF page = "drones" THEN f.ticket <= PageSize
                       ELSE f.engineer = page /\ f.closed[page] < PageSize

\* The console asks for what is open, and everybody is shown the drones and the engineers.
FleetSees(page, f) ==
    IF page \in {"dispatch", "staff"} \/ LatestListed(page, f) THEN f
    ELSE IF page = "drones" THEN [f EXCEPT !.status = "CLOSED"]
    ELSE NewFleet

\* The form is always there; here it is filled in once.
AddDroneOffers(act, view) == act = "register" /\ view.drone = "NONE"

\* openTicketFor: a drone with an open ticket in the list has no buttons.
DroneOffers(act, view) ==
    \/ act \in {"retire", "raise"} /\ ~Open(view) /\ view.drone \notin {"NONE", "RETIRED"}
    \/ act = "restore" /\ ~Open(view) /\ view.drone = "RETIRED"

DispatchPageOffers(act, view) == act = "assign" /\ view.status = "OPEN" /\ view.hired # {}

TicketsPageOffers(act, view) ==
    \/ act = "start"  /\ view.status = "ASSIGNED"
    \/ act = "finish" /\ Open(view) /\ view.status # "ASSIGNED"

FleetOffers(page, act, view) ==
    CASE page = "drones"   -> AddDroneOffers(act, view) \/ DroneOffers(act, view)
      [] page = "dispatch" -> DispatchPageOffers(act, view)
      [] page = "staff"    -> act = "hire"
      [] OTHER             -> TicketsPageOffers(act, view)

FleetActs == {"register", "retire", "restore", "raise", "hire", "assign", "start", "finish"}

FleetArgs(act, view) ==
    CASE act = "hire"   -> Engineers \ view.hired
      [] act = "assign" -> view.hired
      [] OTHER          -> {Nobody}

\* uploadReport sends two requests of its own before the ticket is closed.
FleetSteps(act) == IF act = "finish" THEN <<"report", "report", "close">> ELSE <<act>>

\* A machine that is grounded waits for somebody to take the next step.
Grounded(f) == f.drone = "UNDER_MAINTENANCE"

\* Its ticket is older than the list of its owner, or of its engineer, goes.
Overlooked(f) == Open(f) /\ ~LatestListed("drones", f)
OffTheList(f) == f.status \in {"ASSIGNED", "IN_PROGRESS"} /\ ~LatestListed(f.engineer, f)
=============================================================================
