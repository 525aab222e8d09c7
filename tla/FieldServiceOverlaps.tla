------------------------ MODULE FieldServiceOverlaps ------------------------
(***************************************************************************)
(* FieldService with a memory of which requests overlapped.  What raise,     *)
(* update and close read before they write is stale only if another of them  *)
(* was on its way meanwhile: the history variables below say which were, so   *)
(* that the properties hold with the overlaps in, and say where they matter. *)
(***************************************************************************)
EXTENDS FieldService

VARIABLES
    met,     \* the owner's requests in flight that have met another of the owner's
    alone,   \* the tickets whose raise met none
    passed   \* the closing transactions during which another ticket's close committed

historyVars == <<met, alone, passed>>

InFlight == {r \in ProviderRequests : requests[r] # Idle}

\* A request meets those in flight when it begins, and those that begin before it ends.
Meet == met' = {r \in InFlight' : r \in met \/ InFlight' # {r}}

\* The ticket a step of the owner's raises, if that request has met no other.
RaiseAlone ==
    alone' = alone \cup {t \in Tickets :
        /\ tickets[t].status = "FREE" /\ tickets'[t].status = "OPEN"
        /\ \E r \in InFlight \ met : requests'[r] = Idle}

\* A close that commits passes those which have counted and are not through yet.
Closed == {t \in Tickets : tickets[t].status # "CLOSED" /\ tickets'[t].status = "CLOSED"}

Pass ==
    passed' = {r \in StaffRequests :
        /\ requests'[r].step = "commit"
        /\ \/ r \in passed
           \/ requests[r].step = "commit" /\ Closed # {}}

HistoryInit == Init /\ met = {} /\ alone = {} /\ passed = {}

HistorySpec ==
    HistoryInit /\ [][Next /\ Meet /\ RaiseAlone /\ Pass]_<<vars, historyVars>>

-----------------------------------------------------------------------------
(* Properties. *)

\* A drone has a second open ticket only if their raises overlapped, and so both
\* looked for an open one before either was there: a ticket whose raise met no other
\* request of the owner is the drone's only open one for as long as it is open.
SecondTicketNeedsOverlap == \A t \in alone \cap OpenTickets : OpenTickets = {t}

\* Such a ticket keeps the drone on the ground, whatever the owner asks for while it is
\* open and whatever the platform's requests overlap with.
GroundedWhileOpenAlone ==
    alone \cap OpenTickets # {} => drone = "UNDER_MAINTENANCE"

\* Of two tickets, raised by overlapping requests, the one closed last returns the drone,
\* unless the close of the other committed between its count and its commit.
LastCloseReturnsDroneUnlessPassed ==
    [][ \A r \in StaffRequests \ passed :
          /\ requests[r].step = "commit"
          /\ Closed # {} /\ requests'[r] = Idle
          /\ OpenTickets' = {}
          => drone' = "SERVICEABLE" ]_<<vars, historyVars>>
=============================================================================
