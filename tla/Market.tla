------------------------------- MODULE Market -------------------------------
(***************************************************************************)
(* What a customer can find and book while its provider is onboarded and    *)
(* edits its offerings.  One customer, one job.                             *)
(*                                                                          *)
(* Creating a booking with an offering checks the offering, inserts the     *)
(* booking, checks the offering again and assigns it in a transaction that   *)
(* looks at neither the offering nor its provider.                          *)
(***************************************************************************)
EXTENDS Onboarding, Offerings

CONSTANTS
    Quantity,     \* of the job
    JobArea,      \* its district
    Reached,      \* whether the field is within the radius of the provider's base
    MaxInFlight   \* bound: requests of all kinds in flight at once

ASSUME MarketAssumption ==
    Quantity \in Nat /\ JobArea \in Areas /\ Reached \in BOOLEAN /\ MaxInFlight \in Nat

VARIABLES
    booking,      \* status, and the offering and version it is quoted on
    order         \* the customer's request: its next step and the offering it names

vars == <<stage, coverage, documents, recorded, calls, offerings, edits, booking, order>>
market == <<stage, coverage, documents, recorded, calls, offerings, edits>>

NoBooking == [status |-> "NONE", offering |-> None, version |-> 0]
NoOrder == [step |-> "none", offering |-> None, version |-> 0]

InFlight == {r \in Calls : calls[r] # NoCall} \cup {r \in Editors : edits[r] # NoEdit}
            \cup {o \in {"order"} : order # NoOrder}
Room == Cardinality(InFlight) < MaxInFlight

-----------------------------------------------------------------------------
(* Discovery. *)

\* findCandidates, and the exact cut on the distance.
Matched(o) ==
    /\ offerings[o].status = "ACTIVE"
    /\ stage = Bookable
    /\ coverage = {"base", "radius"}
    /\ \E n \in OpenVersions(o) : offerings[o].versions[n].minimum <= Quantity
    /\ Reached

-----------------------------------------------------------------------------
(* Booking. *)

\* requireBookableOffering.
BookableOffering(o) == offerings[o].status = "ACTIVE" /\ stage = Bookable

\* assertOfferingMatches.
OfferingMatches(o) ==
    /\ JobArea \in offerings[o].areas
    /\ offerings[o].versions[Current(o)].minimum <= Quantity

\* create: the checks, and the transaction that inserts the booking.
CreateBooking(o) ==
    /\ booking = NoBooking /\ order = NoOrder
    /\ BookableOffering(o) /\ OfferingMatches(o)
    /\ order' = [NoOrder EXCEPT !.step = "insert", !.offering = o]
    /\ UNCHANGED <<market, booking>>

BookingInserted ==
    /\ order.step = "insert"
    /\ booking' = [NoBooking EXCEPT !.status = "UNASSIGNED"]
    /\ order' = [order EXCEPT !.step = "read"]
    /\ UNCHANGED market

\* assign, on its own: the booking has lost its provider, or never got one.
Assign(o) ==
    /\ booking.status = "UNASSIGNED" /\ order = NoOrder
    /\ order' = [NoOrder EXCEPT !.step = "read", !.offering = o]
    /\ UNCHANGED <<market, booking>>

\* What create has checked is checked again.  (Mutant: it is not.)
CheckedByCreate(o) == TRUE
StillFits(o) == BookableOffering(o) /\ OfferingMatches(o)

\* Its reads, and the checks on them; refused, the booking stays without a provider.
AssignReads ==
    LET o == order.offering IN
    /\ order.step = "read"
    /\ order' = IF StillFits(o)
                THEN [order EXCEPT !.step = "commit", !.version = Current(o)]
                ELSE NoOrder
    /\ UNCHANGED <<market, booking>>

\* The transaction.  Assigning by one customer, it always finds the booking as it read it.
AssignCommits ==
    /\ order.step = "commit"
    /\ booking' = [status |-> "ASSIGNED", offering |-> order.offering, version |-> order.version]
    /\ order' = NoOrder
    /\ UNCHANGED market

\* The provider declines.
Decline ==
    /\ booking.status = "ASSIGNED" /\ order = NoOrder
    /\ booking' = [NoBooking EXCEPT !.status = "UNASSIGNED"]
    /\ UNCHANGED <<market, order>>

OrderLost ==
    /\ order # NoOrder
    /\ order' = NoOrder
    /\ UNCHANGED <<market, booking>>

-----------------------------------------------------------------------------
MarketInit ==
    /\ OnboardingInit
    /\ OfferingsInit
    /\ booking = NoBooking
    /\ order = NoOrder

\* A request starts where the bound leaves room; what is under way may always go on.
StartOnboarding ==
    \/ \E r \in Applicants :
          \/ \E part \in SUBSET {"base", "radius"} :
                UpdateOwnProfile(r, part) \/ UpdateOwnCoverage(r, part)
          \/ \E d \in Documents : RequestDocumentUpload(r, d) \/ ConfirmDocumentUpload(r, d)
          \/ SubmitForReview(r)
    \/ \E r \in Reviewers : Activate(r) \/ Reject(r)

StartEditing ==
    \E o \in Rows :
       \/ \E m \in Minimums, areas \in SUBSET Areas : CreateOffering(o, m, areas)
       \/ Withdraw(o)
       \/ \E r \in Editors :
             \/ \E m \in Minimums : PublishVersion(r, o, m)
             \/ \E areas \in SUBSET Areas : SetAreas(r, o, areas)

GoOnOnboarding == \E r \in Calls : Write(r) \/ Crash(r)
GoOnEditing == \E r \in Editors :
    CloseCurrentVersion(r) \/ NextVersion(r) \/ AreasInserted(r) \/ EditLost(r)

StartOrder == \E o \in {p \in Rows : Exists(p)} : CreateBooking(o) \/ Assign(o)
GoOnOrder == BookingInserted \/ AssignReads \/ AssignCommits \/ OrderLost

MarketNext ==
    \/ Room /\ StartOnboarding /\ UNCHANGED <<offerings, edits, booking, order>>
    \/ GoOnOnboarding /\ UNCHANGED <<offerings, edits, booking, order>>
    \/ Room /\ StartEditing /\ UNCHANGED <<onboarding, booking, order>>
    \/ GoOnEditing /\ UNCHANGED <<onboarding, booking, order>>
    \/ Room /\ StartOrder
    \/ GoOnOrder
    \/ Decline

MarketSpec == MarketInit /\ [][MarketNext]_vars

-----------------------------------------------------------------------------
(* Properties. *)

\* BR1, across the two reads and the write of an assignment: a job is given to a provider
\* that is activated.  (Not so when a second decision overwrites the activation before the
\* assignment commits: MarketOverlaps says what is left.)
BookedIsActivated == booking.offering # None => stage = Bookable

\* "BR13: A provider must serve the area: Query + service": what the search query finds
\* for a job, the service accepts for it.
MatchedIsBookable ==
    \A o \in Rows : Matched(o) => BookableOffering(o) /\ OfferingMatches(o)
=============================================================================
