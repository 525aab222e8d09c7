-------------------------------- MODULE Desks --------------------------------
(***************************************************************************)
(* The pages of the desks at work.  Each loads what it shows, offers buttons *)
(* by that and nothing newer, sends the requests of one button at a time and *)
(* loads again when all of them have succeeded.  Somebody else's page may    *)
(* have changed everything meanwhile, and any answer may be lost.            *)
(***************************************************************************)
EXTENDS AssortmentDesk, Sequences, FiniteSets

CONSTANT MaxDesks   \* bound: pages open at a time

VARIABLES
    desk,     \* which of the desks is at work; they share nothing
    record,   \* what the database holds of it
    seats     \* per page: what it shows, what it waits for, the rest of its requests

deskVars == <<desk, record, seats>>

DeskNames == {"fleet", "application", "assortment"}

DeskPages(d) == CASE d = "fleet"       -> FleetPages
                  [] d = "application" -> ApplicationPages
                  [] d = "assortment"  -> AssortmentPages

DeskActs == CASE desk = "fleet"       -> FleetActs
              [] desk = "application" -> ApplicationActs
              [] desk = "assortment"  -> AssortmentActs

New(d) == CASE d = "fleet"       -> NewFleet
            [] d = "application" -> NewApplication
            [] d = "assortment"  -> NewAssortment

\* What a page shows before its first answer, and what an answer shows it.
Blank == IF desk = "application" THEN NoApplication ELSE New(desk)
Sees(page) == IF desk = "fleet" THEN FleetSees(page, record) ELSE record

Offers(page, act, view) ==
    CASE desk = "fleet"       -> FleetOffers(page, act, view)
      [] desk = "application" -> ApplicationOffers(page, act, view)
      [] desk = "assortment"  -> AssortmentOffers(page, act, view)

Args(act, view) == CASE desk = "fleet"       -> FleetArgs(act, view)
                     [] desk = "application" -> ApplicationArgs(act)
                     [] desk = "assortment"  -> AssortmentArgs(act, view)

Steps(act) == CASE desk = "fleet"       -> FleetSteps(act)
                [] desk = "application" -> ApplicationSteps(act)
                [] desk = "assortment"  -> <<act>>

AnswerTo(page, step, arg, view, r) ==
    CASE desk = "fleet"       -> FleetAnswer(page, step, arg, view, r)
      [] desk = "application" -> ApplicationAnswer(step, arg, r)
      [] desk = "assortment"  -> AssortmentAnswer(step, arg, r)

-----------------------------------------------------------------------------
NoErrand == [rest |-> <<>>, arg |-> Nobody]
Vacant == [phase |-> "closed", view |-> Blank, errand |-> NoErrand]

Seat(page, seat) == seats' = [seats EXCEPT ![page] = seat]
Taken == {page \in DeskPages(desk) : seats[page].phase # "closed"}
Waiting(page) == seats[page].phase = "acting"

Resumed(seat, phase) == [seat EXCEPT !.errand = NoErrand, !.phase = phase]

OpenPage(page) ==
    /\ seats[page].phase = "closed"
    /\ Cardinality(Taken \cup {page}) <= MaxDesks
    /\ Seat(page, [Vacant EXCEPT !.phase = "opening"])
    /\ UNCHANGED <<desk, record>>

\* The dispatcher's page asks for the engineers once, that of the services for the catalogue.
Reloaded(page, shown) ==
    CASE page = "dispatch" -> [Sees(page) EXCEPT !.hired = shown.hired]
      [] page = "services" -> [Sees(page) EXCEPT !.type = shown.type,
                                                 !.districts = shown.districts]
      [] OTHER             -> Sees(page)

Loaded(page) ==
    /\ seats[page].phase \in {"opening", "loading"}
    /\ Seat(page, [seats[page] EXCEPT !.phase = "ready",
           !.view = IF seats[page].phase = "opening" THEN Sees(page)
                    ELSE Reloaded(page, seats[page].view)])
    /\ UNCHANGED <<desk, record>>

\* What was shown stays.
NotLoaded(page) ==
    /\ seats[page].phase \in {"opening", "loading"}
    /\ Seat(page, [seats[page] EXCEPT !.phase = "ready"])
    /\ UNCHANGED <<desk, record>>

\* Another filter, another row.
Reload(page) ==
    /\ page \in {"dispatch", "queue"} /\ seats[page].phase = "ready"
    /\ Seat(page, [seats[page] EXCEPT !.phase = "loading"])
    /\ UNCHANGED <<desk, record>>

Offered(page) == {act \in DeskActs : Offers(page, act, seats[page].view)}

PressButton(page, act, arg) ==
    /\ Seat(page, [seats[page] EXCEPT !.phase = "acting",
                      !.errand = [rest |-> Steps(act), arg |-> arg]])
    /\ UNCHANGED <<desk, record>>

\* A request is granted: the next one follows, or the page loads again.
StepGranted(page) ==
    LET errand == seats[page].errand IN
    /\ Waiting(page)
    /\ record' \in AnswerTo(page, Head(errand.rest), errand.arg, seats[page].view, record)
    /\ Seat(page, IF Len(errand.rest) = 1 THEN Resumed(seats[page], "loading")
                  ELSE [seats[page] EXCEPT !.errand.rest = Tail(@)])
    /\ UNCHANGED desk

\* Granted, and the answer is lost.
AnswerLost(page) ==
    LET errand == seats[page].errand IN
    /\ Waiting(page)
    /\ record' \in AnswerTo(page, Head(errand.rest), errand.arg, seats[page].view, record)
    /\ Seat(page, Resumed(seats[page], "ready"))
    /\ UNCHANGED desk

\* Refused, or lost on its way: the page shows what it did.
StepFails(page) ==
    /\ Waiting(page)
    /\ Seat(page, Resumed(seats[page], "ready"))
    /\ UNCHANGED <<desk, record>>

\* One that is left with a request on its way counts as open until that has arrived.
ClosePage(page) ==
    /\ seats[page].phase \in {"opening", "loading", "ready"}
    /\ Seat(page, Vacant)
    /\ UNCHANGED <<desk, record>>

DesksInit ==
    /\ desk \in DeskNames
    /\ record = New(desk)
    /\ seats = [page \in DeskPages(desk) |-> Vacant]

DesksNext ==
    \E page \in DOMAIN seats :
        \/ OpenPage(page) \/ Loaded(page) \/ NotLoaded(page) \/ Reload(page)
        \/ /\ seats[page].phase = "ready"
           /\ \E act \in Offered(page) : \E arg \in Args(act, seats[page].view) :
                 PressButton(page, act, arg)
        \/ StepGranted(page) \/ AnswerLost(page) \/ StepFails(page) \/ ClosePage(page)

DesksSpec == DesksInit /\ [][DesksNext]_deskVars

-----------------------------------------------------------------------------
(* Properties. *)

\* What one request after another makes of the record when nobody interferes.
Asked(page, step, arg, records) ==
    UNION {AnswerTo(page, step, arg, Sees(page), r) : r \in records}

\* Where a button of a page that shows the record leads: no button sends more than three.
Leads(page, act, arg) ==
    LET steps == Steps(act)
        one == Asked(page, steps[1], arg, {record})
        two == Asked(page, steps[2], arg, one)
    IN CASE Len(steps) = 1 -> one
         [] Len(steps) = 2 -> two
         [] Len(steps) = 3 -> Asked(page, steps[3], arg, two)

\* The bounds of the model refuse some requests that the handlers would take.
WithinBounds(act) ==
    CASE act = "raise"   -> record.ticket < MaxTickets
      [] act = "reprice" -> record.version < MaxVersions
      [] OTHER           -> TRUE

\* Buttons that an up-to-date page offers although the service refuses them: a save that is
\* written first, a radius whose base was cleared, a ticket the owner's list does not go to.
KnownToBeRefused(page, act, arg) ==
    \/ act = "profile" /\ SavesInVain(record)
    \/ act = "coverage" /\ LacksBase(record, arg)
    \/ act \in {"raise", "retire"} /\ page = "drones" /\ Overlooked(record)

\* Pages and handlers agree: all the requests behind a button of an up-to-date page are
\* granted, one after the other, but for the three exceptions above.
ButtonsAreGranted ==
    \A page \in DOMAIN seats, act \in DeskActs :
        (Offers(page, act, Sees(page)) /\ WithinBounds(act)) =>
            \A arg \in Args(act, Sees(page)) :
                KnownToBeRefused(page, act, arg) \/ Leads(page, act, arg) # {}

\* Not so, by each of the three.
EveryButtonIsGranted ==
    \A page \in DOMAIN seats, act \in DeskActs :
        (Offers(page, act, Sees(page)) /\ WithinBounds(act)) =>
            \A arg \in Args(act, Sees(page)) : Leads(page, act, arg) # {}

\* Some page offers a step that takes the record further.
StepOnOffer ==
    \E page \in DOMAIN seats, act \in DeskActs :
        /\ Offers(page, act, Sees(page))
        /\ \E arg \in Args(act, Sees(page)) : \E r \in Leads(page, act, arg) :
              IF desk = "fleet" THEN r.status # record.status \/ r.hired # record.hired
              ELSE r.stage # record.stage

\* Nobody is left waiting: while an application is undecided or a drone is grounded, by a
\* ticket that its engineer's list has room for, some page offers a step that takes it further.
SomebodyMovesOn ==
    \/ desk = "assortment"
    \/ desk = "fleet" /\ (~Grounded(record) \/ OffTheList(record))
    \/ desk = "application" /\ ~Undecided(record)
    \/ StepOnOffer

\* Not so: an engineer who has closed as many tickets as a list holds never sees the next one.
GroundedMovesOn == (desk = "fleet" /\ Grounded(record)) => StepOnOffer

\* Not so: work in progress is not taken from an engineer by a console that shows it open.
AssignedAsShown ==
    [][ (desk = "fleet" /\ record.status = "IN_PROGRESS") => record'.status # "ASSIGNED"
      ]_deskVars
==============================================================================
