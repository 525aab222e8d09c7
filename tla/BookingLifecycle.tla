-------------------------- MODULE BookingLifecycle --------------------------
(***************************************************************************)
(* What the bookings module promises about the life of one booking: every   *)
(* status change is one indivisible step along the declared state machine,  *)
(* and the assignment, the quote and the recorded trail move with it.       *)
(*                                                                          *)
(* This is the abstract specification.  Booking (handlers run one at a      *)
(* time) and BookingTransactions (SQL statements of concurrent requests)    *)
(* are both shown to implement it.                                          *)
(***************************************************************************)
EXTENDS Naturals, Sequences

CONSTANTS
    Providers,    \* the provider organisations that can be assigned
    NoProvider,   \* "no provider is assigned"
    MaxTrail      \* bound: no new assignment once the trail is this long

VARIABLES
    status,       \* bookings.status
    provider,     \* the provider of the PENDING or ACCEPTED assignment
    answer,       \* the status of that assignment, "NONE" when there is none
    quotedBy,     \* the provider whose price the booking carries
    trail         \* booking_status_history: the statuses, oldest first

vars == <<status, provider, answer, quotedBy, trail>>

Status == {"UNASSIGNED", "ASSIGNED", "SCHEDULED",
           "AWAITING_CONFIRMATION", "COMPLETED", "CANCELLED"}

\* The declared state machine.
Transitions ==
    [UNASSIGNED            |-> {"ASSIGNED", "CANCELLED"},
     ASSIGNED              |-> {"SCHEDULED", "UNASSIGNED", "CANCELLED"},
     SCHEDULED             |-> {"AWAITING_CONFIRMATION", "CANCELLED"},
     AWAITING_CONFIRMATION |-> {"COMPLETED", "SCHEDULED"},
     COMPLETED             |-> {},
     CANCELLED             |-> {}]

Terminal == {"COMPLETED", "CANCELLED"}

CanTransition(from, to) == to \in Transitions[from]

\* A transition and its history row are written together.
Move(to) ==
    /\ CanTransition(status, to)
    /\ status' = to
    /\ trail' = Append(trail, to)

-----------------------------------------------------------------------------
\* The booking has been created.
Init ==
    /\ status = "UNASSIGNED"
    /\ provider = NoProvider
    /\ answer = "NONE"
    /\ quotedBy = NoProvider
    /\ trail = <<"UNASSIGNED">>

\* A provider is chosen; the quote is taken from that provider.
Assign(p) ==
    /\ Len(trail) < MaxTrail
    /\ Move("ASSIGNED")
    /\ provider' = p
    /\ answer' = "PENDING"
    /\ quotedBy' = p

\* The assigned provider takes the job, or the customer takes the terms the
\* provider proposed.
Agree ==
    /\ answer = "PENDING"
    /\ Move("SCHEDULED")
    /\ answer' = "ACCEPTED"
    /\ UNCHANGED <<provider, quotedBy>>

\* The assigned provider declines; the quote goes with it.
Reject ==
    /\ answer = "PENDING"
    /\ Move("UNASSIGNED")
    /\ provider' = NoProvider
    /\ answer' = "NONE"
    /\ quotedBy' = NoProvider

\* Either party or the platform cancels; the quote stays on record.
Cancel ==
    /\ Move("CANCELLED")
    /\ provider' = NoProvider
    /\ answer' = "NONE"
    /\ UNCHANGED quotedBy

MarkComplete ==
    /\ answer = "ACCEPTED"
    /\ Move("AWAITING_CONFIRMATION")
    /\ UNCHANGED <<provider, answer, quotedBy>>

ConfirmCompletion ==
    /\ Move("COMPLETED")
    /\ UNCHANGED <<provider, answer, quotedBy>>

Next ==
    \/ \E p \in Providers : Assign(p)
    \/ Agree
    \/ Reject
    \/ Cancel
    \/ MarkComplete
    \/ ConfirmCompletion

Spec == Init /\ [][Next]_vars

-----------------------------------------------------------------------------
TypeOK ==
    /\ status \in Status
    /\ provider \in Providers \cup {NoProvider}
    /\ answer \in {"NONE", "PENDING", "ACCEPTED"}
    /\ quotedBy \in Providers \cup {NoProvider}
    /\ trail \in Seq(Status) \ {<<>>}

\* "Booking status is consistent with its active assignment": a booking has an
\* unanswered provider exactly while ASSIGNED, an agreed one from SCHEDULED to
\* COMPLETED, and none otherwise.
StatusMatchesAssignment ==
    /\ (answer = "NONE") <=> (provider = NoProvider)
    /\ (answer = "PENDING") <=> (status = "ASSIGNED")
    /\ (answer = "ACCEPTED") <=>
           (status \in {"SCHEDULED", "AWAITING_CONFIRMATION", "COMPLETED"})

\* The price on the booking is the one of the provider who does the work, and
\* a booking back on the market carries no price.
QuoteFollowsProvider ==
    /\ provider # NoProvider => quotedBy = provider
    /\ status = "UNASSIGNED" => quotedBy = NoProvider

\* BR16: the history alone reconstructs the life of the booking.  It starts
\* with the creation, every entry is a legal successor of the one before it,
\* and the last one is the current status.
TrailIsAPath ==
    /\ trail[1] = "UNASSIGNED"
    /\ trail[Len(trail)] = status
    /\ \A i \in 1 .. Len(trail) - 1 : CanTransition(trail[i], trail[i + 1])

\* A closed booking never moves again, and its history is only ever extended.
TerminalIsFinal ==
    [][ /\ status \notin Terminal
        /\ trail = SubSeq(trail', 1, Len(trail)) ]_vars

=============================================================================
