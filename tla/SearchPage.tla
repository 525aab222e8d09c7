----------------------------- MODULE SearchPage -----------------------------
(***************************************************************************)
(* The page that finds a provider: the map's pin, the form, the search and  *)
(* the booking, for a new job or for a booking that lost its provider.      *)
(*                                                                          *)
(* Everything the page asks for is answered later, in any order, or fails;  *)
(* the answers write into the same form the customer goes on using.         *)
(***************************************************************************)
EXTENDS Naturals, Sequences, SequencesExt

CONSTANTS
    Pins,            \* the spots a customer may pick
    States,
    Districts,
    StateOf,         \* of each district
    DistrictAt,      \* of each pin, or None outside the catalogue
    Saved,           \* the customer's saved field: a pin
    Services,
    FirstService,    \* the catalogue's first
    BookingService,  \* that of the booking to reassign
    None,
    MaxMoves         \* bound: what the customer does

ASSUME SearchAssumption ==
    /\ StateOf \in [Districts -> States]
    /\ DistrictAt \in [Pins -> Districts \cup {None}]
    /\ Saved \in Pins /\ DistrictAt[Saved] # None
    /\ {FirstService, BookingService} \subseteq Services
    /\ None \notin Pins \cup States \cup Districts \cup Services
    /\ MaxMoves \in Nat

VARIABLES
    reassign,     \* whether the page was opened for an existing booking
    form,         \* what the customer sees and edits
    loaded,       \* which of "catalogue" and "booking" have been answered
    flights,      \* the requests on their way, oldest first
    picks,        \* pickSeq, pickFilled, and whether the map shows a picked pin
    results,      \* what the rows on the screen were searched for, or None
    busy,
    autoSearched,
    page,         \* "open", or "left" for the booking's own page
    latest,       \* history: the pin that landed last, None once cleared or a state is chosen
    moves

vars == <<reassign, form, loaded, flights, picks, results, busy, autoSearched, page, latest,
          moves>>

Flight(kind) == [kind |-> kind, pin |-> None, state |-> None, district |-> None, seq |-> 0,
                 service |-> None]

Request(f) == flights' = Append(flights, f)
Land(i) == flights' = RemoveAt(flights, i)
LandAndRequest(i, f) == flights' = Append(RemoveAt(flights, i), f)

Arrives(i, kind) == page = "open" /\ i \in DOMAIN flights /\ flights[i].kind = kind

Move == page = "open" /\ moves < MaxMoves /\ moves' = moves + 1

SearchFor(f) == [Flight("search") EXCEPT !.service = f.service, !.pin = f.point]

\* The effect that follows a render of a booking, a service and a pin: one search, once.
Settle(before, f, known) ==
    IF "booking" \in known /\ ~autoSearched /\ f.service # None /\ f.point # None
    THEN /\ autoSearched' = TRUE
         /\ flights' = Append(before, SearchFor(f))
         /\ busy' = "search" /\ results' = None
    ELSE /\ flights' = before
         /\ UNCHANGED <<autoSearched, busy, results>>

-----------------------------------------------------------------------------
(* Answers. *)

\* "The booking's own service type wins".  (Mutant: the catalogue's first always does.)
TakesFirstService == TRUE
MayTakeFirstService == ~reassign

CatalogueAnswered(i) ==
    /\ Arrives(i, "catalogue") /\ Land(i)
    /\ loaded' = loaded \cup {"catalogue"}
    /\ form' = IF MayTakeFirstService THEN [form EXCEPT !.service = FirstService] ELSE form
    /\ UNCHANGED <<reassign, picks, results, busy, autoSearched, page, latest, moves>>

\* Its district and, if it has one, its pin come with it.
BookingAnswered(i, d, pin) ==
    LET f == [form EXCEPT !.service = BookingService, !.district = d,
                          !.point = IF pin = None THEN @ ELSE pin] IN
    /\ Arrives(i, "booking")
    /\ loaded' = loaded \cup {"booking"}
    /\ form' = f
    /\ Settle(RemoveAt(flights, i), f, loaded')
    /\ UNCHANGED <<reassign, picks, page, latest, moves>>

\* The saved field, whatever the customer has done meanwhile; then its districts.
ProfileAnswered(i) ==
    LET state == StateOf[DistrictAt[Saved]] IN
    /\ Arrives(i, "profile")
    /\ form' = [form EXCEPT !.point = Saved, !.state = state, !.district = None]
    /\ LandAndRequest(i, [Flight("districts") EXCEPT !.state = state,
                                                     !.district = DistrictAt[Saved]])
    /\ UNCHANGED <<reassign, loaded, picks, results, busy, autoSearched, page, latest, moves>>

\* loadDistricts, and the saved district after it.
DistrictsAnswered(i) ==
    /\ Arrives(i, "districts") /\ Land(i)
    /\ form' = [form EXCEPT !.districts = flights[i].state,
                            !.district = IF flights[i].district = None THEN @
                                         ELSE flights[i].district]
    /\ UNCHANGED <<reassign, loaded, picks, results, busy, autoSearched, page, latest, moves>>

\* The map's pick: it waits for the geocoder, and takes the place without a name if that
\* fails.  Then the page looks up the district, if it knows the states by now.
Picked(i, named) ==
    LET pin == flights[i].pin
        f == [form EXCEPT !.point = pin]
        rest == RemoveAt(flights, i)
        resolves == named /\ "catalogue" \in loaded /\ DistrictAt[pin] # None
    IN
    /\ Arrives(i, "geocode")
    /\ form' = f
    /\ picks' = [picks EXCEPT !.seq = @ + 1, !.shown = TRUE]
    /\ latest' = pin
    /\ Settle(IF resolves
              THEN Append(rest, [Flight("resolve") EXCEPT !.pin = pin, !.seq = picks.seq + 1])
              ELSE rest, f, loaded)
    /\ UNCHANGED <<reassign, loaded, page, moves>>

\* seq !== pickSeq.current: superseded.  (Mutant: it is not asked.)
Anyway(i) == TRUE
StillWanted(i) == flights[i].seq = picks.seq

PinResolved(i) ==
    LET d == DistrictAt[flights[i].pin] IN
    /\ Arrives(i, "resolve") /\ Land(i)
    /\ IF StillWanted(i)
       THEN /\ form' = [form EXCEPT !.state = StateOf[d], !.districts = StateOf[d], !.district = d]
            /\ picks' = [picks EXCEPT !.state = StateOf[d], !.district = d]
       ELSE UNCHANGED <<form, picks>>
    /\ UNCHANGED <<reassign, loaded, results, busy, autoSearched, page, latest, moves>>

\* finally.  (Mutant: only an answer with rows ends the search.)
UnlessFailed(found) == IF found THEN None ELSE busy
Idle(found) == None

SearchAnswered(i, found) ==
    /\ Arrives(i, "search") /\ Land(i)
    /\ results' = IF found THEN [service |-> flights[i].service, pin |-> flights[i].pin]
                  ELSE results
    /\ busy' = Idle(found)
    /\ UNCHANGED <<reassign, form, loaded, picks, autoSearched, page, latest, moves>>

\* The booking is there: the page is left, and what is still on its way reaches nobody.
Booked(i) ==
    /\ Arrives(i, "book")
    /\ page' = "left" /\ flights' = <<>>
    /\ UNCHANGED <<reassign, form, loaded, picks, results, busy, autoSearched, latest, moves>>

BookFailed(i) ==
    /\ Arrives(i, "book") /\ Land(i)
    /\ busy' = None
    /\ UNCHANGED <<reassign, form, loaded, picks, results, autoSearched, page, latest, moves>>

\* The others fail, or bring nothing, and change nothing.
NothingComes(i) ==
    /\ \E kind \in {"catalogue", "booking", "profile", "districts", "resolve"} : Arrives(i, kind)
    /\ Land(i)
    /\ UNCHANGED <<reassign, form, loaded, picks, results, busy, autoSearched, page, latest, moves>>

-----------------------------------------------------------------------------
(* The customer. *)

\* A click on the map, a suggestion, "Use my location".
ChoosePlace(pin) ==
    /\ Move
    /\ Request([Flight("geocode") EXCEPT !.pin = pin])
    /\ UNCHANGED <<reassign, form, loaded, picks, results, busy, autoSearched, page, latest>>

\* "Clear location" undoes what the pin filled in, and the results go with it.
ClearPin ==
    /\ Move
    /\ picks.shown
    /\ picks' = [seq |-> picks.seq + 1, state |-> None, district |-> None, shown |-> FALSE]
    /\ LET sameState == picks.state # None /\ form.state = picks.state
           sameDistrict == picks.district # None /\ form.district = picks.district
       IN form' = [form EXCEPT !.point = None,
                      !.state = IF sameState THEN None ELSE @,
                      !.districts = IF sameState THEN None ELSE @,
                      !.district = IF sameDistrict THEN None ELSE @]
    /\ results' = None
    /\ latest' = None
    /\ UNCHANGED <<reassign, loaded, flights, busy, autoSearched, page>>

SelectState(s) ==
    /\ Move
    /\ "catalogue" \in loaded
    /\ picks' = [picks EXCEPT !.seq = @ + 1]
    /\ latest' = None
    /\ IF s = None
       THEN form' = [form EXCEPT !.state = None, !.district = None, !.districts = None]
            /\ UNCHANGED flights
       ELSE form' = [form EXCEPT !.state = s, !.district = None]
            /\ Request([Flight("districts") EXCEPT !.state = s])
    /\ UNCHANGED <<reassign, loaded, results, busy, autoSearched, page>>

SelectDistrict(d) ==
    /\ Move
    /\ form.districts = StateOf[d] /\ form.district # d
    /\ form' = [form EXCEPT !.district = d]
    /\ UNCHANGED <<reassign, loaded, flights, picks, results, busy, autoSearched, page, latest>>

SelectService(v) ==
    LET f == [form EXCEPT !.service = v] IN
    /\ Move
    /\ "catalogue" \in loaded /\ form.service # v
    /\ form' = f
    /\ Settle(flights, f, loaded)
    /\ UNCHANGED <<reassign, loaded, picks, page, latest>>

\* Only a search in flight disables the button.
Submit ==
    /\ Move
    /\ form.service # None /\ form.point # None /\ busy # "search"
    /\ Request(SearchFor(form))
    /\ busy' = "search" /\ results' = None
    /\ UNCHANGED <<reassign, form, loaded, picks, autoSearched, page, latest>>

\* The old rows stay until the new ones come; without a pin nothing is asked.
Resort ==
    /\ Move
    /\ results # None /\ busy = None /\ form.point # None
    /\ Request(SearchFor(form))
    /\ busy' = "search"
    /\ UNCHANGED <<reassign, form, loaded, picks, results, autoSearched, page, latest>>

Book ==
    /\ Move
    /\ results # None /\ busy = None /\ form.district # None
    /\ Request([Flight("book") EXCEPT !.service = form.service, !.pin = form.point,
                                      !.district = form.district])
    /\ busy' = "book"
    /\ UNCHANGED <<reassign, form, loaded, picks, results, autoSearched, page, latest>>

-----------------------------------------------------------------------------
Init ==
    /\ reassign \in BOOLEAN
    /\ form = [service |-> None, state |-> None, district |-> None, districts |-> None,
               point |-> None]
    /\ loaded = {}
    /\ flights = <<Flight("catalogue"), Flight(IF reassign THEN "booking" ELSE "profile")>>
    /\ picks = [seq |-> 0, state |-> None, district |-> None, shown |-> FALSE]
    /\ results = None
    /\ busy = None
    /\ autoSearched = FALSE
    /\ page = "open"
    /\ latest = None
    /\ moves = 0

Answer(i) ==
    \/ CatalogueAnswered(i)
    \/ \E d \in Districts, pin \in Pins \cup {None} : BookingAnswered(i, d, pin)
    \/ ProfileAnswered(i)
    \/ DistrictsAnswered(i)
    \/ \E named \in BOOLEAN : Picked(i, named)
    \/ PinResolved(i)
    \/ \E found \in BOOLEAN : SearchAnswered(i, found)
    \/ Booked(i)
    \/ BookFailed(i)
    \/ NothingComes(i)

Next ==
    \/ \E i \in DOMAIN flights : Answer(i)
    \/ \E pin \in Pins : ChoosePlace(pin)
    \/ ClearPin
    \/ \E s \in States \cup {None} : SelectState(s)
    \/ \E d \in Districts : SelectDistrict(d)
    \/ \E v \in Services : SelectService(v)
    \/ Submit \/ Resort \/ Book

\* A request is answered or fails.
Spec == Init /\ [][Next]_vars
FairSpec == Spec /\ WF_vars(\E i \in DOMAIN flights : Answer(i))

-----------------------------------------------------------------------------
(* Properties. *)

\* Whatever order the geocoder and the catalogue answer in, the state and the district are
\* filled in for the pin that landed last: not for one since moved or cleared, nor over a
\* state chosen by hand after it.
FillsForTheLatestMove ==
    [][ \A i \in DOMAIN flights :
          (flights[i].kind = "resolve" /\ flights' = RemoveAt(flights, i) /\ form' # form)
              => flights[i].pin = latest ]_vars

\* Whether the catalogue or the booking answers first, a page that reassigns a booking keeps
\* the booking's service until the customer chooses another.
KeepsTheBookingsService ==
    [][ ("booking" \in loaded /\ form'.service # form.service) => moves' # moves ]_vars

\* However searches and bookings overlap and fail, the page does not stay busy.
BusyEnds == busy # None ~> (busy = None \/ page = "left")

\* The district belongs to the state beside it ("a hand-chosen state must win over an
\* in-flight pin fill, so a still-loading district response cannot clobber it").
DistrictOfState ==
    (form.state # None /\ form.district # None) => StateOf[form.district] = form.state

\* "Results framed around a pin that no longer exists is a confusing screen, so they go
\* with it."
ResultsHaveAPin == results # None => form.point # None

\* What is booked is what the rows on the screen were searched for.
BookedAsShown ==
    [][ \A f \in {flights'[i] : i \in DOMAIN flights'} :
          (f.kind = "book" /\ busy # "book" /\ busy' = "book")
              => f.service = results.service /\ f.pin = results.pin ]_vars

\* One booking for one job.
OneBookingInFlight ==
    \A i, j \in DOMAIN flights : (flights[i].kind = "book" /\ flights[j].kind = "book") => i = j
=============================================================================
