------------------------------ MODULE Booking ------------------------------
(***************************************************************************)
(* The life of one booking when its handlers run one at a time: whole       *)
(* handlers as actions, with the money, the dates, the payment record and   *)
(* the review that BookingTransactions leaves out.                          *)
(*                                                                          *)
(* Run one at a time, a handler always finds the version it read, so the    *)
(* version column is left to BookingTransactions.  The partial unique       *)
(* indexes are left out on purpose: OneOpenRow, proved in BookingProofs,     *)
(* says that handlers that run alone never come near them.                  *)
(***************************************************************************)
EXTENDS Naturals, Sequences

CONSTANTS
    Customer,      \* the organisation the work is for
    Staff,         \* the platform's own organisation
    Providers,     \* the provider organisations
    None,          \* SQL NULL
    Assignments,   \* the rows of booking_assignments (bound)
    Schedules,     \* the rows of booking_schedules (bound)
    Dates,         \* the dates that can be asked for
    Quantities,    \* the quantities that can be booked or delivered
    Prices,        \* the unit prices of the published offering versions
    MaxInt,        \* the largest value of an Int column
    MaxTrail       \* bound: no new assignment once the history is this long

ASSUME BookingAssumption ==
    /\ Customer # Staff
    /\ Customer \notin Providers /\ Staff \notin Providers
    /\ None \notin Providers \cup Dates \cup {Customer, Staff}
    /\ Quantities \subseteq Nat \ {0}
    /\ Prices \subseteq Nat \ {0}
    /\ MaxInt \in Nat
    /\ MaxTrail \in Nat

VARIABLES
    status,        \* bookings.status
    history,       \* booking_status_history: the statuses, oldest first
    assignments,   \* booking_assignments
    schedules,     \* booking_schedules
    preferred,     \* bookings.preferred_date
    date,          \* bookings.confirmed_date
    quantity,      \* bookings.quantity
    quote,         \* the offering version's provider, its unit price, the estimate
    final,         \* final_quantity and final_amount_minor
    payment,       \* the payment recorded against the booking
    review         \* the provider the review of the booking is about

vars == <<status, history, assignments, schedules, preferred, date, quantity,
          quote, final, payment, review>>

\* What a closed booking keeps for good.
closing == <<status, history, assignments, schedules, date, quote, final>>

Live == {"PENDING", "ACCEPTED"}
Open == {"PENDING", "CONFIRMED"}

NoQuote == [by |-> None, price |-> 0, total |-> 0]
NoFinal == [quantity |-> 0, amount |-> 0]
NoPayment == [by |-> None, amount |-> 0]

LiveRows == {x \in Assignments : assignments[x].status \in Live}

\* The lifecycle as the tables show it: who is assigned, and with what answer.
ActiveRow == CHOOSE x \in LiveRows : TRUE
AssignedProvider == IF LiveRows = {} THEN None ELSE assignments[ActiveRow].provider
ProviderAnswer == IF LiveRows = {} THEN "NONE" ELSE assignments[ActiveRow].status

Lifecycle == INSTANCE BookingLifecycle WITH
    NoProvider <- None,
    provider <- AssignedProvider,
    answer <- ProviderAnswer,
    quotedBy <- quote.by,
    trail <- history

-----------------------------------------------------------------------------
(* Who may do what. *)

\* The PENDING assignment of p, as requireAssignedToMe looks it up.
AssignedTo(p, x) == assignments[x].status = "PENDING" /\ assignments[x].provider = p

\* requireParty: the customer, or the provider with a live assignment.
IsParty(a) ==
    \/ a = Customer
    \/ a \in Providers /\ \E x \in LiveRows : assignments[x].provider = a

\* assertMayView: also the platform, and any provider that was ever asked.
MayView(a) ==
    \/ a \in {Customer, Staff}
    \/ a \in Providers /\ \E x \in Assignments : assignments[x].provider = a

Role(a) == IF a \in Providers THEN "PROVIDER" ELSE "CUSTOMER"

-----------------------------------------------------------------------------
(* The repository calls a handler is made of. *)

TransitionStatus(to) ==
    /\ Lifecycle!CanTransition(status, to)
    /\ status' = to
    /\ history' = Append(history, to)

SetAssignment(x, answer) == [assignments EXCEPT ![x].status = answer]

\* Every open row closed; the confirmed date on the booking goes with them.
Close(live) ==
    [s \in Schedules |->
        IF schedules[s].status \in live THEN [schedules[s] EXCEPT !.status = "SUPERSEDED"]
        ELSE schedules[s]]
Superseded == Close(Open)
ClearedDate == None

\* supersedeOpenSchedules and createSchedule, in that order.
ReplaceProposal(role, d) ==
    /\ \E s \in Schedules :
          /\ schedules[s].status = "FREE"
          /\ schedules' = [Superseded EXCEPT ![s] = [status |-> "PENDING", by |-> role, date |-> d]]
    /\ date' = ClearedDate

\* closeSchedule to CONFIRMED, and the copy of its date.
ConfirmWithoutCopy(s) ==
    /\ schedules' = [schedules EXCEPT ![s].status = "CONFIRMED"]
    /\ UNCHANGED date
ConfirmProposal(s) ==
    /\ schedules' = [schedules EXCEPT ![s].status = "CONFIRMED"]
    /\ date' = schedules[s].date

\* The amounts, in minor units.  (Mutants: the booked quantity billed, the quote of a
\* provider who declined.)
Estimate(price) == price * quantity
BillBooked(delivered) == quote.price * quantity
Bill(delivered) == quote.price * delivered
FitsColumn(amount) == amount <= MaxInt
KeptQuote == quote
ClearedQuote == NoQuote

\* Guards on the status.  (Mutant: none at all.)
NoGuard == TRUE
NotTerminal == status \notin Lifecycle!Terminal
WorkCompleted == status = "COMPLETED"

PendingRows == {s \in Schedules : schedules[s].status = "PENDING"}

-----------------------------------------------------------------------------
(* The handlers. *)

\* create, without an offering: with one, the handler goes on to assign in a
\* transaction of its own.
Init ==
    /\ status = "UNASSIGNED"
    /\ history = <<"UNASSIGNED">>
    /\ assignments = [x \in Assignments |-> [status |-> "FREE", provider |-> None, price |-> 0]]
    /\ schedules = [s \in Schedules |-> [status |-> "FREE", by |-> "NOBODY", date |-> None]]
    /\ preferred \in Dates
    /\ date = None
    /\ quantity \in Quantities
    /\ quote = NoQuote
    /\ final = NoFinal
    /\ payment = NoPayment
    /\ review = None

\* The customer, or staff stepping in, chooses an offering of p whose active
\* version has this price.  An estimate that does not fit the column fails.
Assign(p, price) ==
    /\ Len(history) < MaxTrail
    /\ FitsColumn(Estimate(price))
    /\ TransitionStatus("ASSIGNED")
    /\ \E x \in Assignments :
          /\ assignments[x].status = "FREE"
          /\ assignments' = [assignments EXCEPT ![x] =
                                [status |-> "PENDING", provider |-> p, price |-> price]]
    /\ ReplaceProposal("CUSTOMER", preferred)
    /\ quote' = [by |-> p, price |-> price, total |-> Estimate(price)]
    /\ UNCHANGED <<preferred, quantity, final, payment, review>>

\* requireCancellable: a party, or staff.
Cancel(a) ==
    /\ IsParty(a) \/ a = Staff
    /\ TransitionStatus("CANCELLED")
    /\ \/ LiveRows = {} /\ UNCHANGED assignments
       \/ \E x \in LiveRows : assignments' = SetAssignment(x, "CANCELLED")
    /\ UNCHANGED <<schedules, preferred, date, quantity, quote, final, payment, review>>

\* Taking the job takes the date the customer asked for with it.
Accept(p) ==
    /\ \E x \in Assignments : AssignedTo(p, x) /\ assignments' = SetAssignment(x, "ACCEPTED")
    /\ \/ PendingRows = {} /\ UNCHANGED <<schedules, date>>
       \/ \E s \in PendingRows : schedules[s].by # "PROVIDER" /\ ConfirmProposal(s)
    /\ TransitionStatus("SCHEDULED")
    /\ UNCHANGED <<preferred, quantity, quote, final, payment, review>>

Reject(p) ==
    /\ \E x \in Assignments : AssignedTo(p, x) /\ assignments' = SetAssignment(x, "REJECTED")
    /\ TransitionStatus("UNASSIGNED")
    /\ quote' = ClearedQuote
    /\ UNCHANGED <<schedules, preferred, date, quantity, final, payment, review>>

ProposeSchedule(a, d) ==
    /\ IsParty(a)
    /\ NotTerminal
    /\ status # "UNASSIGNED"
    /\ ReplaceProposal(Role(a), d)
    /\ UNCHANGED <<status, history, assignments, preferred, quantity, quote, final,
                   payment, review>>

\* The other side takes the date.  While the job is unanswered that takes the
\* job too: the provider proposed terms and the customer agreed.
ConfirmSchedule(a) ==
    /\ IsParty(a)
    /\ NotTerminal
    /\ \E s \in PendingRows : schedules[s].by # Role(a) /\ ConfirmProposal(s)
    /\ \/ /\ status = "ASSIGNED"
          /\ TransitionStatus("SCHEDULED")
          /\ \/ LiveRows = {} /\ UNCHANGED assignments
             \/ \E x \in LiveRows :
                   assignments' = IF assignments[x].status = "PENDING"
                                    THEN SetAssignment(x, "ACCEPTED") ELSE assignments
       \/ /\ status # "ASSIGNED"
          /\ UNCHANGED <<status, history, assignments>>
    /\ UNCHANGED <<preferred, quantity, quote, final, payment, review>>

\* BR14: what was delivered is billed, at the agreed price.
MarkComplete(p, delivered) ==
    /\ \E x \in Assignments : assignments[x].status = "ACCEPTED" /\ assignments[x].provider = p
    /\ FitsColumn(Bill(delivered))
    /\ TransitionStatus("AWAITING_CONFIRMATION")
    /\ final' = [quantity |-> delivered, amount |-> Bill(delivered)]
    /\ UNCHANGED <<assignments, schedules, preferred, date, quantity, quote, payment, review>>

ConfirmCompletion ==
    /\ TransitionStatus("COMPLETED")
    /\ UNCHANGED <<assignments, schedules, preferred, date, quantity, quote, final,
                   payment, review>>

\* Settlement: the final amount, unless the recorder names another one.
RecordPayment(a, amount) ==
    /\ MayView(a)
    /\ WorkCompleted
    /\ amount # 0
    /\ payment = NoPayment
    /\ payment' = [by |-> a, amount |-> amount]
    /\ UNCHANGED <<status, history, assignments, schedules, preferred, date, quantity,
                   quote, final, review>>

\* Reputation: the review is about the provider found ACCEPTED on the booking.
Review ==
    /\ WorkCompleted
    /\ review = None
    /\ \E x \in Assignments :
          assignments[x].status = "ACCEPTED" /\ review' = assignments[x].provider
    /\ UNCHANGED <<status, history, assignments, schedules, preferred, date, quantity,
                   quote, final, payment>>

Next ==
    \/ \E p \in Providers, price \in Prices : Assign(p, price)
    \/ \E a \in Providers \cup {Customer, Staff} : Cancel(a)
    \/ \E p \in Providers : Accept(p) \/ Reject(p)
    \/ \E a \in Providers \cup {Customer}, d \in Dates : ProposeSchedule(a, d)
    \/ \E a \in Providers \cup {Customer} : ConfirmSchedule(a)
    \/ \E p \in Providers, delivered \in Quantities : MarkComplete(p, delivered)
    \/ ConfirmCompletion
    \/ \E a \in Providers \cup {Customer, Staff}, amount \in Prices \cup {final.amount} :
          RecordPayment(a, amount)
    \/ Review

Spec == Init /\ [][Next]_vars

-----------------------------------------------------------------------------
(* Properties. *)

AssignmentRecord == [status : {"FREE", "PENDING", "ACCEPTED", "REJECTED", "CANCELLED"},
                     provider : Providers \cup {None}, price : Prices \cup {0}]
ScheduleRecord == [status : {"FREE", "PENDING", "CONFIRMED", "SUPERSEDED"},
                   by : {"NOBODY", "CUSTOMER", "PROVIDER"}, date : Dates \cup {None}]

\* Every column has its type, and every amount fits its Int column.
TypeOK ==
    /\ status \in Lifecycle!Status
    /\ history \in Seq(Lifecycle!Status) \ {<<>>}
    /\ assignments \in [Assignments -> AssignmentRecord]
    /\ schedules \in [Schedules -> ScheduleRecord]
    /\ preferred \in Dates
    /\ date \in Dates \cup {None}
    /\ quantity \in Quantities
    /\ quote \in [by : Providers \cup {None}, price : Nat, total : 0 .. MaxInt]
    /\ final \in [quantity : Nat, amount : 0 .. MaxInt]
    /\ payment \in [by : Providers \cup {None, Customer, Staff}, amount : Nat]
    /\ review \in Providers \cup {None}

\* BR2 and the two schedule indexes, without their help: at most one live
\* assignment, and at most one schedule row that is PENDING or CONFIRMED.
OneLiveAssignment == \A x, y \in LiveRows : x = y

OneOpenSchedule ==
    \A s, t \in Schedules :
        schedules[s].status \in Open /\ schedules[t].status \in Open => s = t

OneOpenRow == OneLiveAssignment /\ OneOpenSchedule

\* The status says whether there is a live assignment and whether it is answered.
StatusMatchesAssignment ==
    /\ status = "ASSIGNED" <=> \E x \in Assignments : assignments[x].status = "PENDING"
    /\ status \in {"SCHEDULED", "AWAITING_CONFIRMATION", "COMPLETED"} <=>
           \E x \in Assignments : assignments[x].status = "ACCEPTED"

\* bookings.confirmed_date is a copy of the CONFIRMED schedule, and of nothing else.
DateMirrorsConfirmedSchedule ==
    /\ date # None => \E s \in Schedules :
                          schedules[s].status = "CONFIRMED" /\ schedules[s].date = date
    /\ \A s \in Schedules : schedules[s].status = "CONFIRMED" => date = schedules[s].date

\* F3: the price on the booking is the one of the offering version its live
\* assignment was made on, whatever has been published or rejected since.
QuoteIsTheProvidersOwn ==
    \A x \in LiveRows :
        /\ quote.by = assignments[x].provider
        /\ quote.price = assignments[x].price
        /\ quote.total = assignments[x].price * quantity

\* BR14: once the work is done, the bill is the delivered quantity at the price
\* of the provider who accepted the job, and nothing is billed before.
BilledAsDelivered ==
    /\ status \in {"AWAITING_CONFIRMATION", "COMPLETED"} =>
          /\ final.quantity \in Quantities
          /\ \E x \in Assignments :
                /\ assignments[x].status = "ACCEPTED"
                /\ final.amount = assignments[x].price * final.quantity
    /\ status \notin {"AWAITING_CONFIRMATION", "COMPLETED"} => final = NoFinal

\* BR6, BR7: payments and reviews are about completed work that was billed, and
\* the review is about the provider who did it.
SettledAfterCompletion ==
    /\ payment # NoPayment \/ review # None => status = "COMPLETED" /\ final.amount > 0
    /\ review # None =>
          \E x \in Assignments :
              assignments[x].status = "ACCEPTED" /\ assignments[x].provider = review

\* While the job is unanswered a date is on the table.
ProposalWhileAssigned == status = "ASSIGNED" => PendingRows # {}

\* Used rows are complete, and a booking on the market has no quote.
ProposalsDated == \A s \in Schedules : schedules[s].status # "FREE" => schedules[s].date \in Dates
RowsFilled ==
    \A x \in Assignments :
        assignments[x].status # "FREE" =>
            assignments[x].provider \in Providers /\ assignments[x].price \in Prices
UnassignedUnquoted == status = "UNASSIGNED" => quote = NoQuote

\* The inductive invariant of the handlers.
IInv ==
    /\ TypeOK
    /\ OneLiveAssignment
    /\ OneOpenSchedule
    /\ StatusMatchesAssignment
    /\ DateMirrorsConfirmedSchedule
    /\ ProposalWhileAssigned
    /\ ProposalsDated
    /\ RowsFilled
    /\ QuoteIsTheProvidersOwn
    /\ UnassignedUnquoted
    /\ BilledAsDelivered
    /\ SettledAfterCompletion

\* A job is scheduled together with an agreed date: no acceptance leaves the
\* date open, and no confirmation schedules a job without one.
ScheduledWithADate ==
    [][status = "ASSIGNED" /\ status' = "SCHEDULED" => date' # None]_vars

\* BR9: nothing of a cancelled or completed booking changes any more.
ClosedIsFrozen ==
    [][(status \in Lifecycle!Terminal) => UNCHANGED closing]_vars

\* The handlers, run one at a time, follow the abstract lifecycle.
ImplementsLifecycle == Lifecycle!Spec

\* "Either party may record payment": the customer, or the provider who has done the work.
RecordedByAParty ==
    payment.by \in {None, Customer}
        \cup {assignments[x].provider : x \in {y \in Assignments : assignments[y].status = "ACCEPTED"}}

\* "Choose a provider before agreeing a date": no date is agreed for a booking
\* that has no provider.
NoDateWithoutProvider == status = "UNASSIGNED" => date = None
=============================================================================
