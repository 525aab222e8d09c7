---------------------------- MODULE BookingProofs ----------------------------
(***************************************************************************)
(* The handlers of the bookings module, run one at a time, keep their       *)
(* invariant and implement the abstract lifecycle, for any providers, rows, *)
(* dates, prices and quantities; the pages of the parties keep both, settle *)
(* what they show and offer what the handlers do.                           *)
(***************************************************************************)
EXTENDS BookingPages, TLAPS

USE DEF Live, Open, Estimate, Bill, FitsColumn, ClearedQuote, ClearedDate, NotTerminal,
        WorkCompleted

\* A transition starts and ends in a declared status and extends the history.
LEMMA TransitionTyped ==
    ASSUME TypeOK, NEW to, TransitionStatus(to)
    PROVE  to \in Lifecycle!Status /\ history' \in Seq(Lifecycle!Status) \ {<<>>}
  <1>1. to \in Lifecycle!Status
    BY DEF TypeOK, TransitionStatus, Lifecycle!CanTransition, Lifecycle!Transitions,
           Lifecycle!Status
  <1> QED
    BY <1>1 DEF TypeOK, TransitionStatus

\* The product of a price and a quantity is a positive number.
LEMMA AmountTyped ==
    ASSUME NEW x \in Nat, NEW y \in Nat
    PROVE  /\ x * y \in Nat
           /\ x # 0 /\ y # 0 => x * y # 0
  OBVIOUS

\* Confirming a proposal takes its date.
LEMMA ConfirmedTyped ==
    ASSUME TypeOK, NEW s \in Schedules, ConfirmProposal(s)
    PROVE  schedules' \in [Schedules -> ScheduleRecord] /\ date' \in Dates \cup {None}
  <1>1. /\ schedules \in [Schedules -> ScheduleRecord]
        /\ schedules' = [schedules EXCEPT ![s].status = "CONFIRMED"] /\ date' = schedules[s].date
    BY DEF TypeOK, ConfirmProposal
  <1>2. [schedules[s] EXCEPT !.status = "CONFIRMED"] \in ScheduleRecord
    BY <1>1 DEF ScheduleRecord
  <1>3. schedules[s].date \in Dates \cup {None}
    BY <1>1 DEF ScheduleRecord
  <1> QED
    BY <1>1, <1>2, <1>3

\* Closing rows keeps the type of the table.
LEMMA SupersededTyped ==
    ASSUME TypeOK
    PROVE  Superseded \in [Schedules -> ScheduleRecord]
  BY DEF TypeOK, Superseded, Close, ScheduleRecord

\* So does an answer to an assignment.
LEMMA SetAssignmentTyped ==
    ASSUME TypeOK, NEW x \in Assignments,
           NEW answer \in {"ACCEPTED", "REJECTED", "CANCELLED"}
    PROVE  SetAssignment(x, answer) \in [Assignments -> AssignmentRecord]
  <1>1. [assignments[x] EXCEPT !.status = answer] \in AssignmentRecord
    BY DEF TypeOK, AssignmentRecord
  <1> QED
    BY <1>1 DEF TypeOK, SetAssignment

-----------------------------------------------------------------------------
\* Every handler keeps the types of the columns.
LEMMA TypesInductive ==
    ASSUME TypeOK, [Next]_vars
    PROVE  TypeOK'
  <1> USE BookingAssumption
  <1>1. ASSUME NEW p \in Providers, NEW price \in Prices, Assign(p, price)
        PROVE  TypeOK'
    <2>1. price * quantity \in 0 .. MaxInt /\ price \in Nat
      BY <1>1, AmountTyped DEF Assign, TypeOK
    <2>2. schedules' \in [Schedules -> ScheduleRecord] /\ date' \in Dates \cup {None}
      BY <1>1, SupersededTyped DEF Assign, ReplaceProposal, TypeOK, ScheduleRecord
    <2>3. assignments' \in [Assignments -> AssignmentRecord]
      BY <1>1 DEF Assign, TypeOK, AssignmentRecord
    <2> QED
      BY <1>1, <2>1, <2>2, <2>3, TransitionTyped DEF Assign, TransitionStatus, TypeOK
  <1>2. ASSUME NEW a, Cancel(a) PROVE TypeOK'
    <2>1. assignments' \in [Assignments -> AssignmentRecord]
      BY <1>2, SetAssignmentTyped DEF Cancel, LiveRows, TypeOK
    <2> QED
      BY <1>2, <2>1, TransitionTyped DEF Cancel, TransitionStatus, TypeOK
  <1>3. ASSUME NEW p \in Providers, Accept(p) PROVE TypeOK'
    <2>1. assignments' \in [Assignments -> AssignmentRecord]
      BY <1>3, SetAssignmentTyped DEF Accept
    <2>2. schedules' \in [Schedules -> ScheduleRecord] /\ date' \in Dates \cup {None}
      BY <1>3, ConfirmedTyped DEF Accept, PendingRows, TypeOK
    <2> QED
      BY <1>3, <2>1, <2>2, TransitionTyped DEF Accept, TransitionStatus, TypeOK
  <1>4. ASSUME NEW p \in Providers, Reject(p) PROVE TypeOK'
    <2>1. assignments' \in [Assignments -> AssignmentRecord]
      BY <1>4, SetAssignmentTyped DEF Reject
    <2> QED
      BY <1>4, <2>1, TransitionTyped DEF Reject, TransitionStatus, TypeOK, NoQuote
  <1>5. ASSUME NEW a, NEW d \in Dates, ProposeSchedule(a, d) PROVE TypeOK'
    <2>1. schedules' \in [Schedules -> ScheduleRecord] /\ date' \in Dates \cup {None}
      BY <1>5, SupersededTyped
      DEF ProposeSchedule, ReplaceProposal, Role, TypeOK, ScheduleRecord
    <2> QED
      BY <1>5, <2>1 DEF ProposeSchedule, TypeOK
  <1>6. ASSUME NEW a, ConfirmSchedule(a) PROVE TypeOK'
    <2>1. assignments' \in [Assignments -> AssignmentRecord]
      BY <1>6, SetAssignmentTyped DEF ConfirmSchedule, LiveRows, TypeOK
    <2>2. schedules' \in [Schedules -> ScheduleRecord] /\ date' \in Dates \cup {None}
      BY <1>6, ConfirmedTyped DEF ConfirmSchedule, PendingRows
    <2>3. status' \in Lifecycle!Status /\ history' \in Seq(Lifecycle!Status) \ {<<>>}
      BY <1>6, TransitionTyped DEF ConfirmSchedule, TransitionStatus, TypeOK
    <2> QED
      BY <1>6, <2>1, <2>2, <2>3 DEF ConfirmSchedule, TypeOK
  <1>7. ASSUME NEW p \in Providers, NEW delivered \in Quantities, MarkComplete(p, delivered)
        PROVE  TypeOK'
    <2>1. quote.price \in Nat /\ delivered \in Nat /\ quote.price * delivered <= MaxInt
      BY <1>7 DEF MarkComplete, TypeOK
    <2>2. quote.price * delivered \in 0 .. MaxInt
      BY <2>1, AmountTyped
    <2> QED
      BY <1>7, <2>1, <2>2, TransitionTyped DEF MarkComplete, TransitionStatus, TypeOK
  <1>8. CASE ConfirmCompletion
    BY <1>8, TransitionTyped DEF ConfirmCompletion, TransitionStatus, TypeOK
  <1>9. ASSUME NEW a \in Providers \cup {Customer, Staff},
               NEW amount \in Prices \cup {final.amount}, RecordPayment(a, amount)
        PROVE  TypeOK'
    BY <1>9 DEF RecordPayment, TypeOK
  <1>10. CASE Review
    BY <1>10 DEF Review, TypeOK, AssignmentRecord
  <1>11. CASE UNCHANGED vars
    BY <1>11 DEF vars, TypeOK, LiveRows
  <1> QED
    BY <1>1, <1>2, <1>3, <1>4, <1>5, <1>6, <1>7, <1>8, <1>9, <1>10, <1>11 DEF Next

\* The columns keep their types and every amount fits its column.
THEOREM TypeCorrect == Spec => []TypeOK
  <1>1. Init => TypeOK
    BY BookingAssumption
    DEF Init, TypeOK, Lifecycle!Status, AssignmentRecord, ScheduleRecord, NoQuote,
        NoFinal, NoPayment
  <1> QED
    BY <1>1, TypesInductive, PTL DEF Spec

-----------------------------------------------------------------------------
\* Where a transition can come from.
LEMMA TransitionSources ==
    ASSUME TypeOK
    PROVE  /\ TransitionStatus("ASSIGNED") => status = "UNASSIGNED"
           /\ TransitionStatus("UNASSIGNED") => status = "ASSIGNED"
           /\ TransitionStatus("SCHEDULED") =>
                  status \in {"ASSIGNED", "AWAITING_CONFIRMATION"}
           /\ TransitionStatus("CANCELLED") =>
                  status \in {"UNASSIGNED", "ASSIGNED", "SCHEDULED"}
           /\ TransitionStatus("AWAITING_CONFIRMATION") => status = "SCHEDULED"
           /\ TransitionStatus("COMPLETED") => status = "AWAITING_CONFIRMATION"
  <1>1. status \in {"UNASSIGNED", "ASSIGNED", "SCHEDULED", "AWAITING_CONFIRMATION",
                    "COMPLETED", "CANCELLED"}
    BY DEF TypeOK, Lifecycle!Status
  <1>2. \A to : TransitionStatus(to) => to \in Lifecycle!Transitions[status]
    BY DEF TransitionStatus, Lifecycle!CanTransition
  <1> QED
    BY <1>1, <1>2 DEF Lifecycle!Transitions

\* The status decides which answers the live assignment can have.
LEMMA LiveByStatus ==
    ASSUME StatusMatchesAssignment, NEW x \in LiveRows
    PROVE  /\ x \in Assignments
           /\ assignments[x].status = "PENDING" => status = "ASSIGNED"
           /\ assignments[x].status = "ACCEPTED" =>
                  status \in {"SCHEDULED", "AWAITING_CONFIRMATION", "COMPLETED"}
           /\ assignments[x].status \in {"PENDING", "ACCEPTED"}
  BY DEF StatusMatchesAssignment, LiveRows

\* What an answer to assignment x leaves in the table.
LEMMA SetAssignmentRows ==
    ASSUME TypeOK, NEW x \in Assignments, NEW answer,
           assignments' = SetAssignment(x, answer), NEW y \in Assignments
    PROVE  /\ assignments'[y].status = IF y = x THEN answer ELSE assignments[y].status
           /\ assignments'[y].provider = assignments[y].provider
           /\ assignments'[y].price = assignments[y].price
  <1>1. assignments[x] \in AssignmentRecord
    BY DEF TypeOK
  <1>2. assignments'[y] = IF y = x THEN [assignments[x] EXCEPT !.status = answer]
                          ELSE assignments[y]
    BY DEF TypeOK, SetAssignment
  <1> QED
    BY <1>1, <1>2 DEF AssignmentRecord

\* Every handler keeps the single live assignment in step with the status.
LEMMA AssignmentsInductive ==
    ASSUME TypeOK, OneLiveAssignment, StatusMatchesAssignment, [Next]_vars
    PROVE  OneLiveAssignment' /\ StatusMatchesAssignment'
  <1> DEFINE Goal == OneLiveAssignment' /\ StatusMatchesAssignment'
  <1> USE DEF OneLiveAssignment, StatusMatchesAssignment, LiveRows
  <1>1. ASSUME NEW p \in Providers, NEW price \in Prices, Assign(p, price) PROVE Goal
    <2>1. PICK x \in Assignments :
             assignments' = [assignments EXCEPT ![x] =
                                [status |-> "PENDING", provider |-> p, price |-> price]]
      BY <1>1 DEF Assign
    <2>2. \A y \in Assignments : assignments[y].status \notin {"PENDING", "ACCEPTED"}
      BY <1>1, TransitionSources DEF Assign
    <2>3. \A y \in Assignments :
             assignments'[y].status = IF y = x THEN "PENDING" ELSE assignments[y].status
      BY <2>1 DEF TypeOK
    <2>4. status' = "ASSIGNED"
      BY <1>1 DEF Assign, TransitionStatus
    <2> QED
      BY <2>2, <2>3, <2>4
  <1>2. ASSUME NEW a, Cancel(a) PROVE Goal
    <2>1. status' = "CANCELLED" /\ status \in {"UNASSIGNED", "ASSIGNED", "SCHEDULED"}
      BY <1>2, TransitionSources DEF Cancel, TransitionStatus
    <2>2. CASE LiveRows = {} /\ UNCHANGED assignments
      BY <2>1, <2>2
    <2>3. ASSUME NEW x \in LiveRows, assignments' = SetAssignment(x, "CANCELLED") PROVE Goal
      <3>1. \A y \in Assignments :
               assignments'[y].status = IF y = x THEN "CANCELLED" ELSE assignments[y].status
        BY <2>3, SetAssignmentRows
      <3> QED
        BY <2>1, <3>1
    <2> QED
      BY <1>2, <2>2, <2>3 DEF Cancel
  <1>3. ASSUME NEW p \in Providers, Accept(p) PROVE Goal
    <2>1. PICK x \in Assignments : AssignedTo(p, x) /\ assignments' = SetAssignment(x, "ACCEPTED")
      BY <1>3 DEF Accept
    <2>2. \A y \in Assignments :
             assignments'[y].status = IF y = x THEN "ACCEPTED" ELSE assignments[y].status
      BY <2>1, SetAssignmentRows
    <2>3. status' = "SCHEDULED" /\ status = "ASSIGNED" /\ assignments[x].status = "PENDING"
      BY <1>3, <2>1 DEF Accept, TransitionStatus, AssignedTo
    <2> QED
      BY <2>2, <2>3
  <1>4. ASSUME NEW p \in Providers, Reject(p) PROVE Goal
    <2>1. PICK x \in Assignments : AssignedTo(p, x) /\ assignments' = SetAssignment(x, "REJECTED")
      BY <1>4 DEF Reject
    <2>2. \A y \in Assignments :
             assignments'[y].status = IF y = x THEN "REJECTED" ELSE assignments[y].status
      BY <2>1, SetAssignmentRows
    <2>3. status' = "UNASSIGNED" /\ status = "ASSIGNED" /\ assignments[x].status = "PENDING"
      BY <1>4, <2>1 DEF Reject, TransitionStatus, AssignedTo
    <2> QED
      BY <2>2, <2>3
  <1>5. ASSUME NEW a, NEW d, ProposeSchedule(a, d) PROVE Goal
    BY <1>5 DEF ProposeSchedule
  <1>6. ASSUME NEW a, ConfirmSchedule(a) PROVE Goal
    <2>1. CASE status # "ASSIGNED" /\ UNCHANGED <<status, history, assignments>>
      BY <2>1
    <2>2. CASE status = "ASSIGNED" /\ TransitionStatus("SCHEDULED")
      <3>1. PICK x \in LiveRows : assignments[x].status = "PENDING"
        BY <2>2
      <3>2. assignments' = SetAssignment(x, "ACCEPTED")
        BY <1>6, <2>2, <3>1 DEF ConfirmSchedule
      <3>3. \A y \in Assignments :
               assignments'[y].status = IF y = x THEN "ACCEPTED" ELSE assignments[y].status
        BY <3>2, SetAssignmentRows
      <3> QED
        BY <2>2, <3>1, <3>3 DEF TransitionStatus
    <2> QED
      BY <1>6, <2>1, <2>2 DEF ConfirmSchedule
  <1>7. ASSUME NEW p, NEW delivered, MarkComplete(p, delivered) PROVE Goal
    BY <1>7, TransitionSources DEF MarkComplete, TransitionStatus
  <1>8. CASE ConfirmCompletion
    BY <1>8, TransitionSources DEF ConfirmCompletion, TransitionStatus
  <1>9. ASSUME NEW a, NEW amount, RecordPayment(a, amount) PROVE Goal
    BY <1>9 DEF RecordPayment
  <1>10. CASE Review
    BY <1>10 DEF Review
  <1>11. CASE UNCHANGED vars
    BY <1>11 DEF vars
  <1> QED
    BY <1>1, <1>2, <1>3, <1>4, <1>5, <1>6, <1>7, <1>8, <1>9, <1>10, <1>11 DEF Next

-----------------------------------------------------------------------------
\* What is to be shown of the appointment.
Appointment ==
    OneOpenSchedule /\ DateMirrorsConfirmedSchedule /\ ProposalWhileAssigned /\ ProposalsDated

\* A new proposal is the only open row it leaves.
LEMMA ReplaceProposalRows ==
    ASSUME TypeOK, NEW role, NEW d, ReplaceProposal(role, d)
    PROVE  /\ date' = None
           /\ \E s \in Schedules :
                 /\ schedules'[s] = [status |-> "PENDING", by |-> role, date |-> d]
                 /\ \A t \in Schedules \ {s} :
                       /\ schedules'[t].status \in {"FREE", "SUPERSEDED"}
                       /\ schedules'[t].date = schedules[t].date
                       /\ schedules'[t].status = "FREE" <=> schedules[t].status = "FREE"
  <1>1. PICK s \in Schedules :
           schedules' = [Superseded EXCEPT ![s] =
                            [status |-> "PENDING", by |-> role, date |-> d]]
    BY DEF ReplaceProposal
  <1>2. \A t \in Schedules :
           /\ Superseded[t].status \in {"FREE", "SUPERSEDED"}
           /\ Superseded[t].date = schedules[t].date
           /\ Superseded[t].status = "FREE" <=> schedules[t].status = "FREE"
    <2> TAKE t \in Schedules
    <2>1. schedules[t] \in ScheduleRecord
      BY DEF TypeOK
    <2> QED
      BY <2>1 DEF Superseded, Close, ScheduleRecord
  <1>3. Superseded \in [Schedules -> ScheduleRecord]
    BY SupersededTyped
  <1> QED
    BY <1>1, <1>2, <1>3 DEF ReplaceProposal

\* A confirmed proposal is the only open row it leaves, and the date is its.
LEMMA ConfirmProposalRows ==
    ASSUME TypeOK, OneOpenSchedule, NEW s \in PendingRows, ConfirmProposal(s)
    PROVE  /\ date' = schedules[s].date
           /\ schedules'[s].status = "CONFIRMED" /\ schedules'[s].date = schedules[s].date
           /\ \A t \in Schedules \ {s} :
                 schedules'[t] = schedules[t] /\ schedules[t].status \notin {"PENDING", "CONFIRMED"}
  <1>1. s \in Schedules /\ schedules[s] \in ScheduleRecord /\ schedules[s].status = "PENDING"
    BY DEF PendingRows, TypeOK
  <1>2. /\ schedules'[s] = [schedules[s] EXCEPT !.status = "CONFIRMED"]
        /\ \A t \in Schedules \ {s} : schedules'[t] = schedules[t]
    BY <1>1 DEF ConfirmProposal, TypeOK
  <1> QED
    BY <1>1, <1>2 DEF ConfirmProposal, OneOpenSchedule, ScheduleRecord

\* Both repository calls keep the appointment consistent.
LEMMA ReplaceKeepsAppointment ==
    ASSUME TypeOK, ProposalsDated, NEW role, NEW d \in Dates, ReplaceProposal(role, d)
    PROVE  Appointment'
  <1>1. PICK s \in Schedules :
           /\ schedules'[s] = [status |-> "PENDING", by |-> role, date |-> d]
           /\ \A t \in Schedules \ {s} :
                 /\ schedules'[t].status \in {"FREE", "SUPERSEDED"}
                 /\ schedules'[t].date = schedules[t].date
                 /\ schedules'[t].status = "FREE" <=> schedules[t].status = "FREE"
    BY ReplaceProposalRows
  <1>2. date' = None
    BY ReplaceProposalRows
  <1>3. schedules'[s].status = "PENDING" /\ schedules'[s].date = d
    BY <1>1
  <1>4. OneOpenSchedule'
    BY <1>1, <1>3 DEF OneOpenSchedule
  <1>5. DateMirrorsConfirmedSchedule'
    BY <1>1, <1>2, <1>3 DEF DateMirrorsConfirmedSchedule
  <1>6. ProposalWhileAssigned'
    BY <1>3 DEF ProposalWhileAssigned, PendingRows
  <1>7. ProposalsDated'
    BY <1>1, <1>3 DEF ProposalsDated
  <1> QED
    BY <1>4, <1>5, <1>6, <1>7 DEF Appointment

LEMMA ConfirmKeepsAppointment ==
    ASSUME TypeOK, Appointment, NEW s \in PendingRows, ConfirmProposal(s),
           status' # "ASSIGNED"
    PROVE  Appointment' /\ date' \in Dates
  <1>1. /\ date' = schedules[s].date
        /\ schedules'[s].status = "CONFIRMED" /\ schedules'[s].date = schedules[s].date
        /\ \A t \in Schedules \ {s} :
              schedules'[t] = schedules[t] /\ schedules[t].status \notin {"PENDING", "CONFIRMED"}
    BY ConfirmProposalRows DEF Appointment
  <1>2. s \in Schedules /\ schedules[s].date \in Dates
    BY DEF PendingRows, Appointment, ProposalsDated
  <1>3. OneOpenSchedule'
    BY <1>1 DEF OneOpenSchedule
  <1>4. DateMirrorsConfirmedSchedule'
    BY <1>1, <1>2 DEF DateMirrorsConfirmedSchedule
  <1>5. ProposalWhileAssigned'
    BY DEF ProposalWhileAssigned
  <1>6. ProposalsDated'
    BY <1>1, <1>2 DEF ProposalsDated, Appointment
  <1> QED
    BY <1>1, <1>2, <1>3, <1>4, <1>5, <1>6 DEF Appointment

\* Every handler keeps the appointment consistent, and one that schedules the
\* job leaves it with a date.
LEMMA AppointmentInductive ==
    ASSUME TypeOK, StatusMatchesAssignment, Appointment, [Next]_vars
    PROVE  Appointment' /\ (status = "ASSIGNED" /\ status' = "SCHEDULED" => date' # None)
  <1> DEFINE Goal ==
          Appointment' /\ (status = "ASSIGNED" /\ status' = "SCHEDULED" => date' # None)
  <1>0. ASSUME UNCHANGED <<schedules, date>>, status' = "ASSIGNED" => status = "ASSIGNED"
        PROVE  Appointment'
    BY <1>0 DEF Appointment, OneOpenSchedule, DateMirrorsConfirmedSchedule,
                ProposalWhileAssigned, PendingRows, ProposalsDated
  <1>1. ASSUME NEW p \in Providers, NEW price \in Prices, Assign(p, price) PROVE Goal
    <2>1. status' = "ASSIGNED" /\ preferred \in Dates
      BY <1>1 DEF Assign, TransitionStatus, TypeOK
    <2> QED
      BY <1>1, <2>1, ReplaceKeepsAppointment DEF Assign, Appointment
  <1>2. ASSUME NEW a, Cancel(a) PROVE Goal
    BY <1>0, <1>2 DEF Cancel, TransitionStatus
  <1>3. ASSUME NEW p \in Providers, Accept(p) PROVE Goal
    <2>1. status = "ASSIGNED" /\ status' = "SCHEDULED"
      BY <1>3 DEF Accept, AssignedTo, StatusMatchesAssignment, TransitionStatus
    <2>2. PICK s \in PendingRows : ConfirmProposal(s)
      BY <1>3, <2>1 DEF Accept, Appointment, ProposalWhileAssigned
    <2> QED
      BY <2>1, <2>2, ConfirmKeepsAppointment, BookingAssumption
  <1>4. ASSUME NEW p \in Providers, Reject(p) PROVE Goal
    BY <1>0, <1>4 DEF Reject, TransitionStatus
  <1>5. ASSUME NEW a, NEW d \in Dates, ProposeSchedule(a, d) PROVE Goal
    BY <1>5, ReplaceKeepsAppointment DEF ProposeSchedule, Appointment
  <1>6. ASSUME NEW a, ConfirmSchedule(a) PROVE Goal
    <2>1. PICK s \in PendingRows : ConfirmProposal(s)
      BY <1>6 DEF ConfirmSchedule
    <2>2. status' # "ASSIGNED"
      BY <1>6 DEF ConfirmSchedule, TransitionStatus
    <2> QED
      BY <2>1, <2>2, ConfirmKeepsAppointment, BookingAssumption
  <1>7. ASSUME NEW p, NEW delivered, MarkComplete(p, delivered) PROVE Goal
    BY <1>0, <1>7 DEF MarkComplete, TransitionStatus
  <1>8. CASE ConfirmCompletion
    BY <1>0, <1>8 DEF ConfirmCompletion, TransitionStatus
  <1>9. ASSUME NEW a, NEW amount, RecordPayment(a, amount) PROVE Goal
    BY <1>0, <1>9 DEF RecordPayment
  <1>10. CASE Review
    BY <1>0, <1>10 DEF Review
  <1>11. CASE UNCHANGED vars
    BY <1>0, <1>11 DEF vars
  <1> QED
    BY <1>1, <1>2, <1>3, <1>4, <1>5, <1>6, <1>7, <1>8, <1>9, <1>10, <1>11 DEF Next

-----------------------------------------------------------------------------
\* No transition leaves a closed status, and the handlers without one refuse it.
LEMMA ClosedFrozen ==
    ASSUME TypeOK, [Next]_vars, status \in Lifecycle!Terminal
    PROVE  UNCHANGED closing
  <1>1. status \in {"COMPLETED", "CANCELLED"}
    BY DEF Lifecycle!Terminal
  <1>2. \A to \in {"ASSIGNED", "UNASSIGNED", "SCHEDULED", "CANCELLED",
                   "AWAITING_CONFIRMATION", "COMPLETED"} : ~TransitionStatus(to)
    BY <1>1, TransitionSources
  <1>3. ASSUME NEW p, NEW price, Assign(p, price) PROVE FALSE
    BY <1>2, <1>3 DEF Assign
  <1>4. ASSUME NEW a, Cancel(a) \/ Accept(a) \/ Reject(a) PROVE FALSE
    BY <1>2, <1>4 DEF Cancel, Accept, Reject
  <1>5. ASSUME NEW a, NEW d, ProposeSchedule(a, d) PROVE FALSE
    BY <1>5 DEF ProposeSchedule
  <1>6. ASSUME NEW a, ConfirmSchedule(a) PROVE FALSE
    BY <1>6 DEF ConfirmSchedule
  <1>7. ASSUME NEW p, NEW delivered, MarkComplete(p, delivered) PROVE FALSE
    BY <1>2, <1>7 DEF MarkComplete
  <1>8. CASE ConfirmCompletion
    BY <1>2, <1>8 DEF ConfirmCompletion
  <1>9. ASSUME NEW a, NEW amount, RecordPayment(a, amount) PROVE UNCHANGED closing
    BY <1>9 DEF RecordPayment, closing
  <1>10. CASE Review
    BY <1>10 DEF Review, closing
  <1>11. CASE UNCHANGED vars
    BY <1>11 DEF vars, closing
  <1> QED
    BY <1>3, <1>4, <1>5, <1>6, <1>7, <1>8, <1>9, <1>10, <1>11 DEF Next

\* What is to be shown of the money.
Money == RowsFilled /\ QuoteIsTheProvidersOwn /\ UnassignedUnquoted /\ BilledAsDelivered

\* An answer to the live assignment leaves its price, and the quote, alone.
LEMMA AnswerKeepsMoney ==
    ASSUME TypeOK, Money, NEW x \in LiveRows, NEW answer,
           assignments' = SetAssignment(x, answer),
           UNCHANGED <<quantity, quote, final>>,
           status \notin {"UNASSIGNED", "AWAITING_CONFIRMATION", "COMPLETED"},
           status' \notin {"UNASSIGNED", "AWAITING_CONFIRMATION", "COMPLETED"}
    PROVE  Money'
  <1>1. x \in Assignments /\ assignments[x].status \in {"PENDING", "ACCEPTED"}
    BY DEF LiveRows
  <1>2. \A y \in Assignments :
           /\ assignments'[y].status = IF y = x THEN answer ELSE assignments[y].status
           /\ assignments'[y].provider = assignments[y].provider
           /\ assignments'[y].price = assignments[y].price
    BY <1>1, SetAssignmentRows
  <1>3. RowsFilled'
    BY <1>1, <1>2 DEF Money, RowsFilled
  <1>4. QuoteIsTheProvidersOwn'
    BY <1>1, <1>2 DEF Money, QuoteIsTheProvidersOwn, LiveRows
  <1>5. UnassignedUnquoted'
    BY DEF UnassignedUnquoted
  <1>6. BilledAsDelivered'
    BY DEF Money, BilledAsDelivered
  <1> QED
    BY <1>3, <1>4, <1>5, <1>6 DEF Money

\* Every handler keeps the quote and the bill.
LEMMA MoneyInductive ==
    ASSUME TypeOK, OneLiveAssignment, StatusMatchesAssignment, Money, [Next]_vars
    PROVE  Money'
  <1> DEFINE M == <<assignments, quantity, quote, final>>
  <1>0. ASSUME UNCHANGED M,
               \/ status' = status
               \/ {status, status'} \cap {"UNASSIGNED", "AWAITING_CONFIRMATION", "COMPLETED"} = {}
        PROVE  Money'
    BY <1>0 DEF Money, RowsFilled, QuoteIsTheProvidersOwn, LiveRows, UnassignedUnquoted,
                BilledAsDelivered
  <1>1. ASSUME NEW p \in Providers, NEW price \in Prices, Assign(p, price) PROVE Money'
    <2>1. PICK x \in Assignments :
             assignments' = [assignments EXCEPT ![x] =
                                [status |-> "PENDING", provider |-> p, price |-> price]]
      BY <1>1 DEF Assign
    <2>2. status = "UNASSIGNED" /\ status' = "ASSIGNED"
      BY <1>1, TransitionSources DEF Assign, TransitionStatus
    <2>3. \A y \in Assignments : assignments[y].status \notin {"PENDING", "ACCEPTED"}
      BY <2>2 DEF StatusMatchesAssignment
    <2>4. /\ assignments'[x] = [status |-> "PENDING", provider |-> p, price |-> price]
          /\ \A y \in Assignments \ {x} : assignments'[y] = assignments[y]
      BY <2>1 DEF TypeOK
    <2>5. RowsFilled'
      BY <2>4 DEF Money, RowsFilled
    <2>6. QuoteIsTheProvidersOwn'
      BY <1>1, <2>3, <2>4 DEF QuoteIsTheProvidersOwn, LiveRows, Assign
    <2>7. UnassignedUnquoted' /\ BilledAsDelivered'
      BY <1>1, <2>2 DEF Money, UnassignedUnquoted, BilledAsDelivered, Assign
    <2> QED
      BY <2>5, <2>6, <2>7 DEF Money
  <1>2. ASSUME NEW a, Cancel(a) PROVE Money'
    <2>1. status' = "CANCELLED" /\ status \in {"UNASSIGNED", "ASSIGNED", "SCHEDULED"}
      BY <1>2, TransitionSources DEF Cancel, TransitionStatus
    <2>2. CASE LiveRows = {} /\ UNCHANGED assignments
      BY <1>2, <2>1, <2>2 DEF Cancel, Money, RowsFilled, QuoteIsTheProvidersOwn, LiveRows,
                              UnassignedUnquoted, BilledAsDelivered
    <2>3. ASSUME NEW x \in LiveRows, assignments' = SetAssignment(x, "CANCELLED") PROVE Money'
      <3>1. status # "UNASSIGNED"
        BY LiveByStatus
      <3> QED
        BY <1>2, <2>1, <2>3, <3>1, AnswerKeepsMoney DEF Cancel
    <2> QED
      BY <1>2, <2>2, <2>3 DEF Cancel
  <1>3. ASSUME NEW p \in Providers, Accept(p) PROVE Money'
    <2>1. PICK x \in Assignments : AssignedTo(p, x) /\ assignments' = SetAssignment(x, "ACCEPTED")
      BY <1>3 DEF Accept
    <2>2. x \in LiveRows /\ status = "ASSIGNED" /\ status' = "SCHEDULED"
      BY <1>3, <2>1 DEF Accept, TransitionStatus, AssignedTo, StatusMatchesAssignment, LiveRows
    <2> QED
      BY <1>3, <2>1, <2>2, AnswerKeepsMoney DEF Accept
  <1>4. ASSUME NEW p \in Providers, Reject(p) PROVE Money'
    <2>1. PICK x \in Assignments : AssignedTo(p, x) /\ assignments' = SetAssignment(x, "REJECTED")
      BY <1>4 DEF Reject
    <2>2. x \in LiveRows /\ status = "ASSIGNED" /\ status' = "UNASSIGNED"
      BY <1>4, <2>1 DEF Reject, TransitionStatus, AssignedTo, StatusMatchesAssignment, LiveRows
    <2>3. \A y \in Assignments :
             /\ assignments'[y].status = IF y = x THEN "REJECTED" ELSE assignments[y].status
             /\ assignments'[y].provider = assignments[y].provider
             /\ assignments'[y].price = assignments[y].price
      BY <2>1, SetAssignmentRows
    <2>4. RowsFilled'
      BY <2>2, <2>3 DEF Money, RowsFilled, LiveRows
    <2>5. QuoteIsTheProvidersOwn'
      BY <2>2, <2>3 DEF QuoteIsTheProvidersOwn, OneLiveAssignment, LiveRows
    <2>6. UnassignedUnquoted' /\ BilledAsDelivered'
      BY <1>4, <2>2 DEF Reject, Money, UnassignedUnquoted, BilledAsDelivered
    <2> QED
      BY <2>4, <2>5, <2>6 DEF Money
  <1>5. ASSUME NEW a, NEW d, ProposeSchedule(a, d) PROVE Money'
    BY <1>0, <1>5 DEF ProposeSchedule
  <1>6. ASSUME NEW a, ConfirmSchedule(a) PROVE Money'
    <2>1. CASE status # "ASSIGNED" /\ UNCHANGED <<status, history, assignments>>
      BY <1>0, <1>6, <2>1 DEF ConfirmSchedule
    <2>2. CASE status = "ASSIGNED" /\ TransitionStatus("SCHEDULED")
      <3>1. PICK x \in LiveRows : assignments[x].status = "PENDING"
        BY <2>2 DEF StatusMatchesAssignment, LiveRows
      <3>2. assignments' = SetAssignment(x, "ACCEPTED")
        BY <1>6, <2>2, <3>1 DEF ConfirmSchedule, OneLiveAssignment
      <3> QED
        BY <1>6, <2>2, <3>1, <3>2, AnswerKeepsMoney DEF ConfirmSchedule, TransitionStatus
    <2> QED
      BY <1>6, <2>1, <2>2 DEF ConfirmSchedule
  <1>7. ASSUME NEW p \in Providers, NEW delivered \in Quantities, MarkComplete(p, delivered)
        PROVE  Money'
    <2>1. status = "SCHEDULED" /\ status' = "AWAITING_CONFIRMATION"
      BY <1>7, TransitionSources DEF MarkComplete, TransitionStatus
    <2>2. PICK x \in LiveRows : assignments[x].status = "ACCEPTED"
      BY <1>7 DEF MarkComplete, LiveRows
    <2>3. x \in Assignments /\ quote.price = assignments[x].price
      BY DEF Money, QuoteIsTheProvidersOwn, LiveRows
    <2>4. BilledAsDelivered'
      BY <1>7, <2>1, <2>2, <2>3 DEF MarkComplete, BilledAsDelivered
    <2>5. RowsFilled' /\ QuoteIsTheProvidersOwn' /\ UnassignedUnquoted'
      BY <1>7, <2>1 DEF MarkComplete, Money, RowsFilled, QuoteIsTheProvidersOwn, LiveRows,
                        UnassignedUnquoted
    <2> QED
      BY <2>4, <2>5 DEF Money
  <1>8. CASE ConfirmCompletion
    <2>1. status = "AWAITING_CONFIRMATION" /\ status' = "COMPLETED"
      BY <1>8, TransitionSources DEF ConfirmCompletion, TransitionStatus
    <2> QED
      BY <1>8, <2>1 DEF ConfirmCompletion, Money, RowsFilled, QuoteIsTheProvidersOwn, LiveRows,
                        UnassignedUnquoted, BilledAsDelivered
  <1>9. ASSUME NEW a, NEW amount, RecordPayment(a, amount) PROVE Money'
    BY <1>0, <1>9 DEF RecordPayment
  <1>10. CASE Review
    BY <1>0, <1>10 DEF Review
  <1>11. CASE UNCHANGED vars
    BY <1>0, <1>11 DEF vars
  <1> QED
    BY <1>1, <1>2, <1>3, <1>4, <1>5, <1>6, <1>7, <1>8, <1>9, <1>10, <1>11 DEF Next

-----------------------------------------------------------------------------
\* A completed booking was billed a positive amount.
LEMMA CompletedIsBilled ==
    ASSUME TypeOK, Money, status = "COMPLETED"
    PROVE  final.amount > 0
  <1>1. PICK x \in Assignments : /\ assignments[x].status = "ACCEPTED"
                                 /\ final.amount = assignments[x].price * final.quantity
    BY DEF Money, BilledAsDelivered
  <1>2. assignments[x].price \in Nat \ {0} /\ final.quantity \in Nat \ {0}
    BY <1>1, BookingAssumption DEF Money, RowsFilled, BilledAsDelivered
  <1>3. final.amount \in Nat /\ final.amount # 0
    BY <1>1, <1>2, AmountTyped
  <1> QED
    BY <1>3

\* Payments and reviews stay with completed work.
LEMMA SettlementInductive ==
    ASSUME TypeOK, Money, SettledAfterCompletion, [Next]_vars
    PROVE  SettledAfterCompletion'
  <1>1. CASE status = "COMPLETED"
    <2>1. UNCHANGED <<status, assignments, final>>
      BY <1>1, ClosedFrozen DEF Lifecycle!Terminal, closing
    <2>2. review' = review \/ \E x \in Assignments :
                                 assignments[x].status = "ACCEPTED"
                                   /\ review' = assignments[x].provider
      BY DEF Next, vars, Assign, Cancel, Accept, Reject, ProposeSchedule, ConfirmSchedule,
             MarkComplete, ConfirmCompletion, RecordPayment, Review
    <2> QED
      BY <1>1, <2>1, <2>2, CompletedIsBilled DEF SettledAfterCompletion
  <1>2. CASE status # "COMPLETED"
    <2>1. UNCHANGED <<payment, review>>
      BY <1>2 DEF Next, vars, Assign, Cancel, Accept, Reject, ProposeSchedule,
                  ConfirmSchedule, MarkComplete, ConfirmCompletion, RecordPayment, Review
    <2> QED
      BY <1>2, <2>1 DEF SettledAfterCompletion
  <1> QED
    BY <1>1, <1>2

-----------------------------------------------------------------------------
\* A new booking satisfies the inductive invariant,
LEMMA InitInv == Init => IInv
  <1> SUFFICES ASSUME Init PROVE IInv
    OBVIOUS
  <1> USE DEF IInv
  <1>1. TypeOK
    BY BookingAssumption
    DEF Init, TypeOK, Lifecycle!Status, AssignmentRecord, ScheduleRecord, NoQuote,
        NoFinal, NoPayment
  <1>2. /\ \A x \in Assignments : assignments[x].status = "FREE"
        /\ \A s \in Schedules : schedules[s].status = "FREE"
    BY DEF Init
  <1>3. OneLiveAssignment /\ StatusMatchesAssignment /\ RowsFilled /\ QuoteIsTheProvidersOwn
    BY <1>2 DEF Init, OneLiveAssignment, StatusMatchesAssignment, RowsFilled,
                QuoteIsTheProvidersOwn, LiveRows
  <1>4. /\ OneOpenSchedule /\ DateMirrorsConfirmedSchedule
        /\ ProposalWhileAssigned /\ ProposalsDated
    BY <1>2 DEF Init, OneOpenSchedule, DateMirrorsConfirmedSchedule, ProposalWhileAssigned,
                ProposalsDated
  <1>5. UnassignedUnquoted /\ BilledAsDelivered /\ SettledAfterCompletion
    BY DEF Init, UnassignedUnquoted, BilledAsDelivered, SettledAfterCompletion
  <1> QED
    BY <1>1, <1>3, <1>4, <1>5

\* and every handler keeps it.
LEMMA IInvInductive ==
    ASSUME IInv, [Next]_vars
    PROVE  IInv'
  BY TypesInductive, AssignmentsInductive, AppointmentInductive, MoneyInductive,
     SettlementInductive DEF IInv, Appointment, Money

\* The inductive invariant.
THEOREM Invariance == Spec => []IInv
  BY InitInv, IInvInductive, PTL DEF Spec

\* BR2 and the schedule indexes: handlers run one at a time never open a second
\* live assignment or a second open schedule.
THEOREM NoSecondOpenRow == Spec => []OneOpenRow
  BY Invariance, PTL DEF IInv, OneOpenRow

\* The status says whether a provider is assigned and has agreed.
THEOREM StatusConsistent == Spec => []StatusMatchesAssignment
  BY Invariance, PTL DEF IInv

\* bookings.confirmed_date is a copy of the CONFIRMED schedule, always.
THEOREM DateIsAMirror == Spec => []DateMirrorsConfirmedSchedule
  BY Invariance, PTL DEF IInv

\* F3 and BR14: the quote is the provider's own, and the bill what was delivered.
THEOREM MoneyIsRight == Spec => [](QuoteIsTheProvidersOwn /\ BilledAsDelivered)
  BY Invariance, PTL DEF IInv

\* BR6 and BR7: payments and reviews are about completed, billed work.
THEOREM SettlementIsRight == Spec => []SettledAfterCompletion
  BY Invariance, PTL DEF IInv

\* BR9: a closed booking is frozen.
THEOREM ClosedBookingIsFrozen == Spec => ClosedIsFrozen
  <1>1. TypeOK /\ [Next]_vars => [(status \in Lifecycle!Terminal) => UNCHANGED closing]_vars
    BY ClosedFrozen
  <1> QED
    BY <1>1, TypeCorrect, PTL DEF Spec, ClosedIsFrozen

\* No job is scheduled without an agreed date.
THEOREM SchedulingNeedsADate == Spec => ScheduledWithADate
  <1>1. IInv /\ [Next]_vars =>
            [status = "ASSIGNED" /\ status' = "SCHEDULED" => date' # None]_vars
    BY AppointmentInductive DEF IInv, Appointment
  <1> QED
    BY <1>1, Invariance, PTL DEF Spec, ScheduledWithADate


-----------------------------------------------------------------------------
(* Every handler is one step of the lifecycle or none. *)

\* The choice from a set of one.
LEMMA ChoiceIsUnique ==
    ASSUME NEW S, NEW x \in S, \A y \in S : y = x
    PROVE  S # {} /\ (CHOOSE y \in S : TRUE) = x
  OBVIOUS

\* The lifecycle's provider and answer are those of the live assignment ...
LEMMA ActiveRowIs ==
    ASSUME OneLiveAssignment, NEW x \in LiveRows
    PROVE  /\ AssignedProvider = assignments[x].provider
           /\ ProviderAnswer = assignments[x].status
  <1>1. LiveRows # {} /\ ActiveRow = x
    BY ChoiceIsUnique DEF OneLiveAssignment, ActiveRow
  <1> QED
    BY <1>1 DEF AssignedProvider, ProviderAnswer

\* ... also after a step.
LEMMA NextActiveRowIs ==
    ASSUME OneLiveAssignment', NEW x, x \in LiveRows'
    PROVE  /\ AssignedProvider' = assignments'[x].provider
           /\ ProviderAnswer' = assignments'[x].status
  <1>1. LiveRows' # {} /\ ActiveRow' = x
    BY ChoiceIsUnique DEF OneLiveAssignment, ActiveRow
  <1> QED
    BY <1>1 DEF AssignedProvider, ProviderAnswer

\* An answer that keeps the assignment live keeps its provider.
LEMMA AnswerStep ==
    ASSUME IInv, IInv', NEW x \in LiveRows, assignments' = SetAssignment(x, "ACCEPTED")
    PROVE  /\ AssignedProvider' = AssignedProvider
           /\ ProviderAnswer = assignments[x].status
           /\ ProviderAnswer' = "ACCEPTED"
  <1>1. x \in Assignments
    BY DEF LiveRows
  <1>2. /\ assignments'[x].status = "ACCEPTED"
        /\ assignments'[x].provider = assignments[x].provider
    BY <1>1, SetAssignmentRows DEF IInv
  <1>3. x \in LiveRows'
    BY <1>1, <1>2 DEF LiveRows
  <1> QED
    BY <1>2, <1>3, ActiveRowIs, NextActiveRowIs DEF IInv

\* Without a live assignment there is no provider and no answer.
LEMMA NoActiveRow ==
    /\ LiveRows = {} => AssignedProvider = None /\ ProviderAnswer = "NONE"
    /\ LiveRows' = {} => AssignedProvider' = None /\ ProviderAnswer' = "NONE"
  BY DEF AssignedProvider, ProviderAnswer

\* Which statuses go without a live assignment.
LEMMA DeadStatus ==
    /\ StatusMatchesAssignment /\ status \in {"UNASSIGNED", "CANCELLED"} => LiveRows = {}
    /\ StatusMatchesAssignment' /\ status' \in {"UNASSIGNED", "CANCELLED"} => LiveRows' = {}
  BY DEF StatusMatchesAssignment, LiveRows

\* A step that leaves the assignments alone leaves their reading alone.
LEMMA SameRows ==
    ASSUME UNCHANGED assignments
    PROVE  UNCHANGED <<AssignedProvider, ProviderAnswer>>
  BY DEF AssignedProvider, ProviderAnswer, ActiveRow, LiveRows

-----------------------------------------------------------------------------
LEMMA InitRefines == Init => Lifecycle!Init
  <1> SUFFICES ASSUME Init PROVE Lifecycle!Init
    OBVIOUS
  <1>1. LiveRows = {}
    BY DEF Init, LiveRows
  <1> QED
    BY <1>1, NoActiveRow DEF Init, Lifecycle!Init, NoQuote

LEMMA StepRefines ==
    ASSUME IInv, IInv', [Next]_vars
    PROVE  [Lifecycle!Next]_(Lifecycle!vars)
  <1> DEFINE Goal == [Lifecycle!Next]_(Lifecycle!vars)
  <1> USE DEF TransitionStatus, Lifecycle!Move
  <1>0. ASSUME UNCHANGED <<status, history, assignments, quote>> PROVE Goal
    BY <1>0, SameRows DEF Lifecycle!vars
  <1>1. ASSUME NEW p \in Providers, NEW price \in Prices, Assign(p, price) PROVE Goal
    <2>1. PICK x \in Assignments :
             assignments' = [assignments EXCEPT ![x] =
                                [status |-> "PENDING", provider |-> p, price |-> price]]
      BY <1>1 DEF Assign
    <2>2. assignments'[x] = [status |-> "PENDING", provider |-> p, price |-> price]
      BY <2>1 DEF IInv, TypeOK
    <2>3. AssignedProvider' = p /\ ProviderAnswer' = "PENDING"
      BY <2>2, NextActiveRowIs DEF IInv, LiveRows
    <2>4. Lifecycle!Assign(p)
      BY <1>1, <2>3 DEF Assign, Lifecycle!Assign
    <2> QED
      BY <2>4 DEF Lifecycle!Next
  <1>2. ASSUME NEW a, Cancel(a) PROVE Goal
    <2>1. AssignedProvider' = None /\ ProviderAnswer' = "NONE"
      BY <1>2, DeadStatus, NoActiveRow DEF Cancel, IInv
    <2>2. Lifecycle!Cancel
      BY <1>2, <2>1 DEF Cancel, Lifecycle!Cancel
    <2> QED
      BY <2>2 DEF Lifecycle!Next
  <1>3. ASSUME NEW p \in Providers, Accept(p) PROVE Goal
    <2>1. PICK x \in Assignments : AssignedTo(p, x) /\ assignments' = SetAssignment(x, "ACCEPTED")
      BY <1>3 DEF Accept
    <2>2. x \in LiveRows /\ assignments[x].status = "PENDING"
      BY <2>1 DEF AssignedTo, LiveRows
    <2>3. Lifecycle!Agree
      BY <1>3, <2>1, <2>2, AnswerStep DEF Accept, Lifecycle!Agree
    <2> QED
      BY <2>3 DEF Lifecycle!Next
  <1>4. ASSUME NEW p \in Providers, Reject(p) PROVE Goal
    <2>1. PICK x \in Assignments : AssignedTo(p, x)
      BY <1>4 DEF Reject
    <2>2. ProviderAnswer = "PENDING"
      BY <2>1, ActiveRowIs DEF AssignedTo, LiveRows, IInv
    <2>3. AssignedProvider' = None /\ ProviderAnswer' = "NONE"
      BY <1>4, DeadStatus, NoActiveRow DEF Reject, IInv
    <2>4. Lifecycle!Reject
      BY <1>4, <2>2, <2>3 DEF Reject, Lifecycle!Reject, NoQuote
    <2> QED
      BY <2>4 DEF Lifecycle!Next
  <1>5. ASSUME NEW a, NEW d, ProposeSchedule(a, d) PROVE Goal
    BY <1>0, <1>5 DEF ProposeSchedule
  <1>6. ASSUME NEW a, ConfirmSchedule(a) PROVE Goal
    <2>1. CASE status # "ASSIGNED" /\ UNCHANGED <<status, history, assignments>>
      BY <1>0, <1>6, <2>1 DEF ConfirmSchedule
    <2>2. CASE status = "ASSIGNED" /\ TransitionStatus("SCHEDULED")
      <3>1. PICK x \in LiveRows : assignments[x].status = "PENDING"
        BY <2>2 DEF IInv, StatusMatchesAssignment, LiveRows
      <3>2. assignments' = SetAssignment(x, "ACCEPTED")
        BY <1>6, <2>2, <3>1 DEF ConfirmSchedule, IInv, OneLiveAssignment
      <3>3. Lifecycle!Agree
        BY <1>6, <2>2, <3>1, <3>2, AnswerStep DEF ConfirmSchedule, Lifecycle!Agree
      <3> QED
        BY <3>3 DEF Lifecycle!Next
    <2> QED
      BY <1>6, <2>1, <2>2 DEF ConfirmSchedule
  <1>7. ASSUME NEW p \in Providers, NEW delivered, MarkComplete(p, delivered) PROVE Goal
    <2>1. PICK x \in LiveRows : assignments[x].status = "ACCEPTED"
      BY <1>7 DEF MarkComplete, LiveRows
    <2>2. ProviderAnswer = "ACCEPTED"
      BY <2>1, ActiveRowIs DEF IInv
    <2>3. Lifecycle!MarkComplete
      BY <1>7, <2>2, SameRows DEF MarkComplete, Lifecycle!MarkComplete
    <2> QED
      BY <2>3 DEF Lifecycle!Next
  <1>8. CASE ConfirmCompletion
    <2>1. Lifecycle!ConfirmCompletion
      BY <1>8, SameRows DEF ConfirmCompletion, Lifecycle!ConfirmCompletion
    <2> QED
      BY <2>1 DEF Lifecycle!Next
  <1>9. ASSUME NEW a, NEW amount, RecordPayment(a, amount) PROVE Goal
    BY <1>0, <1>9 DEF RecordPayment
  <1>10. CASE Review
    BY <1>0, <1>10 DEF Review
  <1>11. CASE UNCHANGED vars
    BY <1>0, <1>11 DEF vars
  <1> QED
    BY <1>1, <1>2, <1>3, <1>4, <1>5, <1>6, <1>7, <1>8, <1>9, <1>10, <1>11 DEF Next

\* Handlers run one at a time implement the abstract lifecycle.
THEOREM HandlersImplementLifecycle == Spec => ImplementsLifecycle
  <1>1. IInv /\ IInv' /\ [Next]_vars => [Lifecycle!Next]_(Lifecycle!vars)
    BY StepRefines
  <1> QED
    BY <1>1, InitRefines, Invariance, PTL DEF Spec, ImplementsLifecycle, Lifecycle!Spec

-----------------------------------------------------------------------------
(* The parties' pages.  They act through the handlers alone, so what holds of *)
(* the handlers holds behind the pages; and a page of the customer's that     *)
(* shows the work done or settled shows the bill and the provider for good.   *)

View == [status : Lifecycle!Status \cup {"NONE"}, provider : Providers \cup {None},
         proposal : [by : {"NOBODY", "CUSTOMER", "PROVIDER"}, date : Dates \cup {None}],
         amount : 0 .. MaxInt, paid : BOOLEAN, reviewed : BOOLEAN]

Tab == [page : {"none", "booking", "console", "requests", "jobs"}, view : View,
        phase : {"closed", "loading", "ready", "acting"}]

Input == (Dates \cup Providers \cup {None}) \X (Quantities \cup Prices \cup {0})
Sending == [act : Acts \cup {"none"}, input : Input, view : View, live : BOOLEAN]

\* Once the work is said to be done, the bill and the provider stay.
Billed == {"AWAITING_CONFIRMATION", "COMPLETED"}
ShowsTheBill(view) ==
    view.status \in Billed =>
        status \in Billed /\ view.amount = final.amount /\ view.provider = AssignedProvider

\* A page is one of its party's own, also behind a request that waits for it; a request
\* carries what its form or its list gave, and only the customer's settle the booking.
Fits(v, tab, req) ==
    /\ tab \in Tab /\ req \in Sending
    /\ (tab.phase # "closed" \/ req.live) => tab.page \in PagesOf(v)
    /\ req.act \in Acts => req.input \in Inputs(req.act)
    /\ req.act = "done" => v = Customer /\ req.view.status = "AWAITING_CONFIRMATION"
    /\ req.act \in {"pay", "review"} => v = Customer /\ req.view.status = "COMPLETED"
    /\ v = Customer => ShowsTheBill(tab.view) /\ ShowsTheBill(req.view)

PagesInv ==
    /\ IInv
    /\ tabs \in [Parties -> Tab] /\ sent \in [Parties -> Sending]
    /\ \A v \in Parties : Fits(v, tabs[v], sent[v])

\* Without an answer to a request from the market there is nothing on a page.
LEMMA NothingTyped == Nothing \in View /\ NoTab \in Tab /\ NoRequest \in Sending
  <1>1. Nothing \in View
    BY BookingAssumption DEF Nothing, View
  <1> QED
    BY <1>1 DEF NoTab, NoRequest, Tab, Sending, Input

\* No request is pressed of itself.
LEMMA NoneIsNoAct == NoRequest.act \notin Acts
  BY DEF NoRequest, Acts

\* What a page is loaded with.
LEMMA DetailTyped ==
    ASSUME IInv, NEW v, NEW paid \in BOOLEAN, NEW reviewed \in BOOLEAN
    PROVE  Detail(v, paid, reviewed) \in View
  <1>1. AssignedProvider \in Providers \cup {None}
    BY DEF IInv, TypeOK, AssignedProvider, ActiveRow, LiveRows, AssignmentRecord
  <1>2. Proposal \in [by : {"NOBODY", "CUSTOMER", "PROVIDER"}, date : Dates \cup {None}]
    BY DEF IInv, TypeOK, Proposal, PendingRows, ScheduleRecord
  <1>3. status \in Lifecycle!Status /\ final.amount \in 0 .. MaxInt
    BY DEF IInv, TypeOK
  <1>4. CustomerSees(paid, reviewed) \in View
    BY <1>1, <1>2, <1>3 DEF CustomerSees, View
  <1>5. ProviderSees \in View /\ StaffSees \in View
    BY <1>2, <1>3, NothingTyped DEF ProviderSees, StaffSees, View
  <1> QED
    BY <1>4, <1>5 DEF Detail

\* The pages call the handlers with what the forms can give.
LEMMA HandlerIsStep ==
    ASSUME IInv, NEW v \in Parties, NEW r, Handler(v, r),
           r.act \in Acts => r.input \in Inputs(r.act)
    PROVE  Next
  <1> USE BookingAssumption
  <1>1. \A x \in Assignments : assignments[x].provider = v => v \in Providers
    BY DEF IInv, TypeOK, AssignmentRecord, Parties
  <1>2. IsParty(v) => v \in Providers \cup {Customer}
    BY DEF IsParty
  <1>3. CASE r.act = "confirm" /\ ConfirmSchedule(v)
    BY <1>2, <1>3 DEF Next, ConfirmSchedule
  <1>4. CASE r.act = "propose" /\ ProposeSchedule(v, r.input[1])
    <2>1. r.input[1] \in Dates
      BY <1>4 DEF Acts, Inputs
    <2> QED
      BY <1>2, <1>4, <2>1 DEF Next, ProposeSchedule
  <1>5. CASE Accept(v) \/ Reject(v)
    <2>1. v \in Providers
      BY <1>1, <1>5 DEF Accept, Reject, AssignedTo
    <2> QED
      BY <1>5, <2>1 DEF Next
  <1>6. CASE r.act = "complete" /\ MarkComplete(v, r.input[2])
    <2>1. v \in Providers
      BY <1>1, <1>6 DEF MarkComplete
    <2>2. r.input[2] \in Quantities
      BY <1>6 DEF Acts, Inputs
    <2> QED
      BY <1>6, <2>1, <2>2 DEF Next
  <1>7. CASE Cancel(v) \/ RecordPayment(v, final.amount)
    BY <1>7 DEF Next, Parties
  <1>8. CASE ConfirmCompletion \/ Review
    BY <1>8 DEF Next
  <1>9. CASE r.act = "place" /\ Assign(r.input[1], r.input[2])
    <2>1. r.input[1] \in Providers /\ r.input[2] \in Prices
      BY <1>9 DEF Acts, Inputs, OnOffer
    <2> QED
      BY <1>9, <2>1 DEF Next
  <1> QED
    BY <1>3, <1>4, <1>5, <1>6, <1>7, <1>8, <1>9 DEF Handler

\* So a step of the pages is a step of a handler, or none of the booking's.
LEMMA PagesStep ==
    ASSUME PagesInv, [PagesNext]_pageVars
    PROVE  [Next]_vars
  <1>1. ASSUME NEW v \in Parties, Handled(v) PROVE Next
    <2>1. Fits(v, tabs[v], sent[v])
      BY DEF PagesInv
    <2> QED
      BY <1>1, <2>1, HandlerIsStep DEF Handled, Fits, PagesInv
  <1>2. ASSUME NEW v \in Parties, \/ \E act \in Acts : \E input \in Inputs(act) : Press(v, act, input)
                              \/ NotHandled(v) \/ Load(v) \/ LoadFails(v)
                              \/ Leave(v) \/ \E page \in PagesOf(v) : Visit(v, page)
        PROVE  UNCHANGED vars
    BY <1>2 DEF Press, NotHandled, Load, LoadFails, Leave, Visit
  <1>5. CASE LookAgain \/ Seek \/ Sought \/ CloseList
    BY <1>5 DEF LookAgain, Seek, Sought, CloseList
  <1>3. ASSUME NEW p \in Providers, NEW price \in Prices, Find(p, price) PROVE Next
    BY <1>3 DEF Find, Next
  <1>4. CASE UNCHANGED pageVars
    BY <1>4 DEF pageVars
  <1> QED
    BY <1>1, <1>2, <1>3, <1>4, <1>5 DEF PagesNext

\* Work that is said to be done stays done, by the same provider for the same amount.
LEMMA BilledStays ==
    ASSUME IInv, [Next]_vars, NEW view, ShowsTheBill(view)
    PROVE  ShowsTheBill(view)'
  <1> SUFFICES ASSUME status \in Billed
               PROVE  status' \in Billed /\ UNCHANGED <<final, assignments>>
    <2>1. UNCHANGED assignments => AssignedProvider' = AssignedProvider
      BY SameRows
    <2> QED
      BY <2>1 DEF ShowsTheBill
  <1>0. \A x \in Assignments : assignments[x].status # "PENDING"
    BY DEF IInv, StatusMatchesAssignment, Billed
  <1>1. /\ ~TransitionStatus("ASSIGNED") /\ ~TransitionStatus("UNASSIGNED")
        /\ ~TransitionStatus("CANCELLED") /\ ~TransitionStatus("AWAITING_CONFIRMATION")
    BY TransitionSources DEF IInv, Billed
  <1>2. ASSUME NEW p, NEW price, Assign(p, price) PROVE FALSE
    BY <1>1, <1>2 DEF Assign
  <1>3. ASSUME NEW a, Cancel(a) \/ Accept(a) \/ Reject(a) PROVE FALSE
    BY <1>0, <1>1, <1>3 DEF Cancel, Accept, Reject, AssignedTo
  <1>4. ASSUME NEW p, NEW delivered, MarkComplete(p, delivered) PROVE FALSE
    BY <1>1, <1>4 DEF MarkComplete
  <1>5. ASSUME NEW a, NEW d, ProposeSchedule(a, d)
        PROVE  UNCHANGED <<status, final, assignments>>
    BY <1>5 DEF ProposeSchedule
  <1>6. ASSUME NEW a, ConfirmSchedule(a) PROVE UNCHANGED <<status, final, assignments>>
    BY <1>6 DEF ConfirmSchedule, Billed
  <1>7. CASE ConfirmCompletion
    BY <1>7 DEF ConfirmCompletion, TransitionStatus, Billed
  <1>8. ASSUME NEW a, NEW amount, RecordPayment(a, amount)
        PROVE  UNCHANGED <<status, final, assignments>>
    BY <1>8 DEF RecordPayment
  <1>9. CASE Review \/ UNCHANGED vars
    BY <1>9 DEF Review, vars
  <1> QED
    BY <1>2, <1>3, <1>4, <1>5, <1>6, <1>7, <1>8, <1>9 DEF Next

\* What one party's page does is fitting ...
Moves(v) ==
    \E tab \in Tab, req \in Sending :
        /\ tabs' = [tabs EXCEPT ![v] = tab] /\ sent' = [sent EXCEPT ![v] = req]
        /\ Fits(v, tab, req)

\* ... when a button is pressed,
LEMMA PressMoves ==
    ASSUME PagesInv, NEW v \in Parties, NEW act \in Acts, NEW input \in Inputs(act),
           Press(v, act, input)
    PROVE  Moves(v)
  <1> DEFINE tab == [tabs[v] EXCEPT !.phase = "acting"]
             req == [act |-> act, input |-> input, view |-> Shown(v), live |-> TRUE]
  <1>1. tabs[v] \in Tab /\ Fits(v, tabs[v], sent[v]) /\ tabs[v].phase = "ready"
        /\ OfferedHere(v, act, input)
    BY DEF PagesInv, Press
  <1>2. tab \in Tab /\ tab.page = tabs[v].page /\ tab.view = tabs[v].view
    BY <1>1 DEF Tab
  <1>3. input \in Input
    BY DEF Inputs, Input, OnOffer
  <1>v. Shown(v) \in View /\ (v = Customer => Shown(v) = tabs[v].view)
    BY <1>1, NothingTyped, BookingAssumption DEF Shown, Tab
  <1>4. req \in Sending
    BY <1>3, <1>v DEF Sending
  <1>5. tab.page \in PagesOf(v)
    BY <1>1, <1>2 DEF Fits
  <1>6. v = Customer => ShowsTheBill(tabs[v].view)
    BY <1>1 DEF Fits
  <1>7. /\ act = "done" => v = Customer /\ tabs[v].view.status = "AWAITING_CONFIRMATION"
        /\ act \in {"pay", "review"} => v = Customer /\ tabs[v].view.status = "COMPLETED"
    <2> SUFFICES ASSUME act \in {"done", "pay", "review"} PROVE
            /\ v = Customer /\ tabs[v].page = "booking"
            /\ BookingPageOffers(act, tabs[v].view)
      BY DEF BookingPageOffers, OffersToSettle, OffersDates, SaidDone
    <2>1. /\ ~RequestsPageOffers(act, tabs[v].view) /\ ~JobsPageOffers(act, tabs[v].view)
          /\ ~ConsoleOffers(act, tabs[v].view)
      BY DEF RequestsPageOffers, JobsPageOffers, OffersToAgree, ConsoleOffers
    <2>4. Offers(tabs[v].page, act, tabs[v].view)
      BY <1>1 DEF OfferedHere
    <2>2. \/ tabs[v].page = "booking" /\ v = Customer
          \/ tabs[v].page \in {"console", "requests", "jobs"}
      BY <1>2, <1>5 DEF PagesOf
    <2>3. tabs[v].page = "booking" /\ v = Customer
      BY <2>4, <2>1, <2>2 DEF Offers
    <2> QED
      BY <2>4, <2>3 DEF Offers
  <1>8. Fits(v, tab, req)
    <2>1. req.act = act /\ req.input = input /\ req.view = Shown(v)
      OBVIOUS
    <2> HIDE DEF tab, req
    <2> QED
      BY <1>2, <1>4, <1>5, <1>6, <1>7, <1>v, <2>1 DEF Fits
  <1>9. tabs' = [tabs EXCEPT ![v] = tab] /\ sent' = [sent EXCEPT ![v] = req]
    BY DEF Press, Set
  <1> HIDE DEF tab, req
  <1> QED
    BY <1>2, <1>4, <1>8, <1>9 DEF Moves

\* when a request has ended,
LEMMA ResumeMoves ==
    ASSUME PagesInv, NEW v \in Parties, NEW phase \in {"loading", "ready"}, Resume(v, phase)
    PROVE  Moves(v)
  <1> DEFINE tab == IF sent[v].live THEN [tabs[v] EXCEPT !.phase = phase] ELSE tabs[v]
  <1>1. tabs[v] \in Tab /\ Fits(v, tabs[v], sent[v])
    BY DEF PagesInv
  <1>2. tab \in Tab /\ tab.page = tabs[v].page /\ tab.view = tabs[v].view
    BY <1>1 DEF Tab
  <1>3. tab.phase # "closed" => tab.page \in PagesOf(v)
    BY <1>1, <1>2 DEF Fits, Tab
  <1>4. v = Customer => ShowsTheBill(tab.view)
    BY <1>1, <1>2 DEF Fits
  <1>5. tabs' = [tabs EXCEPT ![v] = tab] /\ sent' = [sent EXCEPT ![v] = NoRequest]
    BY DEF Resume, Set, PagesInv
  <1> HIDE DEF tab
  <1>6. Fits(v, tab, NoRequest)
    BY <1>2, <1>3, <1>4, NothingTyped, NoneIsNoAct
    DEF Fits, NoRequest, Nothing, ShowsTheBill, Billed
  <1> QED
    BY <1>2, <1>5, <1>6, NothingTyped DEF Moves

\* when the page is loaded or fails to load, is opened, its rows are replaced,
LEMMA LookMoves ==
    ASSUME PagesInv, NEW v \in Parties,
           \/ Load(v) \/ LoadFails(v) \/ (v = Staff /\ LookAgain)
           \/ \E page \in PagesOf(v) : Visit(v, page)
    PROVE  Moves(v)
  <1> USE BookingAssumption
  <1>1. tabs[v] \in Tab /\ sent[v] \in Sending /\ Fits(v, tabs[v], sent[v])
    BY DEF PagesInv
  <1>2. sent' = [sent EXCEPT ![v] = sent[v]]
    BY DEF Load, LoadFails, LookAgain, Visit, PagesInv
  <1>3. ASSUME NEW tab \in Tab, tab.page \in PagesOf(v), tabs' = [tabs EXCEPT ![v] = tab],
               v = Customer => ShowsTheBill(tab.view)
        PROVE  Moves(v)
    <2>1. Fits(v, tab, sent[v])
      BY <1>1, <1>3 DEF Fits
    <2> QED
      BY <1>1, <1>2, <1>3, <2>1 DEF Moves
  <1>4. ASSUME Load(v) PROVE Moves(v)
    <2>1. PICK paid \in BOOLEAN, reviewed \in BOOLEAN :
              tabs' = [tabs EXCEPT ![v] = [tabs[v] EXCEPT !.phase = "ready",
                          !.view = IF ~Lists(v, tabs[v].page) THEN Nothing
                                   ELSE Detail(v, paid, reviewed)]]
      BY <1>4 DEF Load, Set
    <2> DEFINE view == IF ~Lists(v, tabs[v].page) THEN Nothing ELSE Detail(v, paid, reviewed)
               tab == [tabs[v] EXCEPT !.phase = "ready", !.view = view]
    <2>2. view \in View
      BY DetailTyped, NothingTyped DEF PagesInv
    <2>3. v = Customer => ShowsTheBill(view)
      BY DEF ShowsTheBill, Detail, CustomerSees, Nothing, Billed
    <2>4. tabs[v].page \in PagesOf(v)
      BY <1>1, <1>4 DEF Fits, Load
    <2> HIDE DEF view
    <2>5. tab \in Tab /\ tab.page = tabs[v].page /\ tab.view = view
      BY <1>1, <2>2 DEF Tab
    <2>6. tabs' = [tabs EXCEPT ![v] = tab]
      BY <2>1 DEF view
    <2> HIDE DEF tab
    <2> QED
      BY <1>3, <2>3, <2>4, <2>5, <2>6
  <1>5. ASSUME NEW phase \in {"ready", "loading"}, tabs[v].phase # "closed",
               Set(v, [tabs[v] EXCEPT !.phase = phase])
        PROVE  Moves(v)
    <2> DEFINE tab == [tabs[v] EXCEPT !.phase = phase]
    <2>1. tab \in Tab /\ tab.page = tabs[v].page /\ tab.view = tabs[v].view
      BY <1>1 DEF Tab
    <2>2. tabs[v].page \in PagesOf(v) /\ (v = Customer => ShowsTheBill(tabs[v].view))
      BY <1>1, <1>5 DEF Fits
    <2>3. tabs' = [tabs EXCEPT ![v] = tab]
      BY <1>5 DEF Set
    <2> HIDE DEF tab
    <2> QED
      BY <1>3, <2>1, <2>2, <2>3
  <1>6. ASSUME LoadFails(v) PROVE Moves(v)
    BY <1>5, <1>6 DEF LoadFails
  <1>8. ASSUME v = Staff, LookAgain PROVE Moves(v)
    <2> DEFINE tab == [tabs[v] EXCEPT !.view = StaffSees]
    <2>1. StaffSees \in View
      <3>1. StaffSees = Detail(Staff, FALSE, FALSE)
        BY DEF Detail
      <3> QED
        BY <3>1, DetailTyped DEF PagesInv
    <2>2. tab \in Tab /\ tab.page = tabs[v].page
      BY <1>1, <2>1 DEF Tab
    <2>3. tabs[v].page \in PagesOf(v) /\ v # Customer
      BY <1>8 DEF LookAgain, AtTheConsole, PagesOf
    <2>4. tabs' = [tabs EXCEPT ![v] = tab]
      BY <1>8 DEF LookAgain, Set
    <2> HIDE DEF tab
    <2> QED
      BY <1>3, <2>2, <2>3, <2>4
  <1>7. ASSUME NEW page \in PagesOf(v), Visit(v, page) PROVE Moves(v)
    <2> DEFINE tab == [NoTab EXCEPT !.page = page, !.phase = "loading"]
    <2>1. page \in {"booking", "console", "requests", "jobs"}
      BY <1>7 DEF PagesOf
    <2>2. tab \in Tab /\ tab.page = page /\ tab.view = Nothing
      BY <2>1, NothingTyped DEF Tab, NoTab
    <2>3. ShowsTheBill(Nothing)
      BY DEF ShowsTheBill, Nothing, Billed
    <2>4. tabs' = [tabs EXCEPT ![v] = tab]
      BY <1>7 DEF Visit, Set
    <2> HIDE DEF tab
    <2> QED
      BY <1>3, <1>7, <2>2, <2>3, <2>4
  <1> QED
    BY <1>4, <1>6, <1>7, <1>8

\* and when it is left.
LEMMA LeaveMoves ==
    ASSUME PagesInv, NEW v \in Parties, Leave(v)
    PROVE  Moves(v)
  <1> DEFINE req == IF sent[v] = NoRequest THEN NoRequest ELSE [sent[v] EXCEPT !.live = FALSE]
  <1>1. sent[v] \in Sending /\ Fits(v, tabs[v], sent[v])
    BY DEF PagesInv
  <1>2. /\ req \in Sending /\ req.act = sent[v].act /\ req.input = sent[v].input
        /\ req.view = sent[v].view /\ req.live = FALSE
    BY <1>1, NothingTyped DEF Sending, NoRequest
  <1>3. tabs' = [tabs EXCEPT ![v] = NoTab] /\ sent' = [sent EXCEPT ![v] = req]
    BY DEF Leave, Set, PagesInv
  <1> HIDE DEF req
  <1>4. Fits(v, NoTab, req)
    BY <1>1, <1>2, NothingTyped DEF Fits, NoTab, Nothing, ShowsTheBill, Billed
  <1> QED
    BY <1>2, <1>3, <1>4, NothingTyped DEF Moves

\* The invariant of the pages.
LEMMA PagesInductive ==
    ASSUME PagesInv, [PagesNext]_pageVars
    PROVE  PagesInv'
  <1>1. [Next]_vars
    BY PagesStep
  <1>2. IInv'
    BY <1>1, IInvInductive DEF PagesInv
  <1>3. ASSUME NEW v, NEW tab, NEW req, Fits(v, tab, req) PROVE Fits(v, tab, req)'
    BY <1>1, <1>3, BilledStays DEF Fits, PagesInv
  <1>4. ASSUME NEW v \in Parties, Moves(v) PROVE PagesInv'
    BY <1>2, <1>3, <1>4 DEF Moves, PagesInv
  <1>5. CASE UNCHANGED <<tabs, sent>>
    BY <1>2, <1>3, <1>5 DEF PagesInv
  <1>6. ASSUME NEW v \in Parties, Handled(v) \/ NotHandled(v) PROVE Moves(v)
    BY <1>6, ResumeMoves DEF Handled, NotHandled
  <1>7. CASE Seek \/ Sought \/ CloseList
    BY <1>5, <1>7 DEF Seek, Sought, CloseList
  <1>8. CASE LookAgain
    <2>1. Staff \in Parties
      BY DEF Parties
    <2> QED
      BY <1>4, <1>8, <2>1, LookMoves
  <1> QED
    BY <1>4, <1>5, <1>6, <1>7, <1>8, PressMoves, LookMoves, LeaveMoves
    DEF PagesNext, pageVars, Find

\* Behind the pages the booking goes on as behind its handlers: everything proved of them
\* holds whatever the parties see and press.
THEOREM PagesInvariance == PagesSpec => []PagesInv
  <1>1. PagesInit => PagesInv
    <2> SUFFICES ASSUME PagesInit PROVE PagesInv
      OBVIOUS
    <2>1. IInv
      BY InitInv DEF PagesInit
    <2>2. \A v \in Parties : Fits(v, NoTab, NoRequest)
      BY NothingTyped, NoneIsNoAct DEF Fits, NoTab, NoRequest, Nothing, ShowsTheBill, Billed
    <2> QED
      BY <2>1, <2>2, NothingTyped DEF PagesInit, PagesInv
  <1> QED
    BY <1>1, PagesInductive, PTL DEF PagesSpec

THEOREM PagesActByHandlers == PagesSpec => Spec
  <1>1. PagesInit => Init
    BY DEF PagesInit
  <1>2. PagesInv /\ [PagesNext]_pageVars => [Next]_vars
    BY PagesStep
  <1> QED
    BY <1>1, <1>2, PagesInvariance, PTL DEF PagesSpec, Spec

\* However old the page is, the customer settles for the amount and the provider it shows.
THEOREM SettledForWhatIsShown == PagesSpec => SettledAsShown
  <1> DEFINE Settles ==
        /\ (status # "COMPLETED" /\ status' = "COMPLETED") =>
              sent[Customer].act = "done" /\ sent[Customer].view.amount = final'.amount
        /\ payment' # payment =>
              sent[Customer].act = "pay" /\ sent[Customer].view.amount = payment'.amount
        /\ review' # review =>
              sent[Customer].act = "review" /\ sent[Customer].view.provider = review'
  <1>1. ASSUME PagesInv, [PagesNext]_pageVars PROVE [Settles]_pageVars
    <2>1. TypeOK
      BY <1>1 DEF PagesInv, IInv
    <2>2. ASSUME NEW v \in Parties, Handled(v) PROVE Settles
      <3>1. Fits(v, tabs[v], sent[v]) /\ Handler(v, sent[v])
        BY <1>1, <2>2 DEF PagesInv, Handled
      <3>2. CASE sent[v].act = "done" /\ ConfirmCompletion
        BY <3>1, <3>2 DEF Fits, ShowsTheBill, Billed, ConfirmCompletion
      <3>3. CASE sent[v].act = "pay" /\ RecordPayment(v, final.amount)
        BY <3>1, <3>3 DEF Fits, ShowsTheBill, Billed, RecordPayment
      <3>4. CASE sent[v].act = "review" /\ Review
        <4>1. PICK x \in Assignments : assignments[x].status = "ACCEPTED"
                                         /\ review' = assignments[x].provider
          BY <3>4 DEF Review
        <4>2. AssignedProvider = review'
          BY <1>1, <4>1, ActiveRowIs DEF LiveRows, PagesInv, IInv
        <4>3. UNCHANGED <<status, payment>>
          BY <3>4 DEF Review
        <4> QED
          BY <3>1, <3>4, <4>2, <4>3 DEF Fits, ShowsTheBill, Billed
      <3>5. ASSUME \/ ConfirmSchedule(v) \/ ProposeSchedule(v, sent[v].input[1]) \/ Cancel(v)
                   \/ Accept(v) \/ Reject(v) \/ MarkComplete(v, sent[v].input[2])
                   \/ Assign(sent[v].input[1], sent[v].input[2])
            PROVE  Settles
        <4>1. UNCHANGED <<payment, review>>
          BY <3>5 DEF ConfirmSchedule, ProposeSchedule, Cancel, Accept, Reject, MarkComplete,
                      Assign
        <4>2. status' = "COMPLETED" => status = "COMPLETED"
          BY <3>5 DEF ConfirmSchedule, ProposeSchedule, Cancel, Accept, Reject, MarkComplete,
                      Assign, TransitionStatus
        <4> QED
          BY <4>1, <4>2
      <3> QED
        BY <3>1, <3>2, <3>3, <3>4, <3>5 DEF Handler
    <2>3. ASSUME NEW v \in Parties, \/ \E act \in Acts : \E input \in Inputs(act) : Press(v, act, input)
                                \/ NotHandled(v) \/ Load(v) \/ LoadFails(v)
                                \/ Leave(v) \/ \E page \in PagesOf(v) : Visit(v, page)
          PROVE  UNCHANGED vars
      BY <2>3 DEF Press, NotHandled, Load, LoadFails, Leave, Visit
    <2>4. UNCHANGED vars => Settles
      BY DEF vars
    <2>6. CASE LookAgain \/ Seek \/ Sought \/ CloseList
      BY <2>4, <2>6 DEF LookAgain, Seek, Sought, CloseList
    <2>5. ASSUME NEW p, NEW price, Find(p, price) PROVE Settles
      BY <2>5 DEF Find, Assign, TransitionStatus
    <2> QED
      BY <1>1, <2>2, <2>3, <2>4, <2>5, <2>6 DEF PagesNext
  <1>2. PagesInv /\ [PagesNext]_pageVars => [Settles]_pageVars
    BY <1>1
  <1> QED
    BY <1>2, PagesInvariance, PTL DEF PagesSpec, SettledAsShown

-----------------------------------------------------------------------------
(* What the pages offer, the service does.  ENABLED is not for this prover, so it is *)
(* taken apart: the guards of the handler behind a button (Granted), a next state     *)
(* for each (After), and that the step to it is the handler's (GrantedIsDone).        *)

OthersProposal(v) == {s \in PendingRows : schedules[s].by # Role(v)}
Mine(v, answer) == {x \in Assignments : assignments[x].status = answer /\ assignments[x].provider = v}
FreeSchedules == {s \in Schedules : schedules[s].status = "FREE"}
FreeAssignments == {x \in Assignments : assignments[x].status = "FREE"}
MayMove(to) == Lifecycle!CanTransition(status, to)

\* The guards of the handlers.
Granted(v, act, input) ==
    CASE act = "confirm"  -> IsParty(v) /\ NotTerminal /\ OthersProposal(v) # {}
      [] act = "propose"  -> IsParty(v) /\ NotTerminal /\ status # "UNASSIGNED" /\ FreeSchedules # {}
      [] act = "done"     -> MayMove("COMPLETED")
      [] act = "pay"      -> MayView(v) /\ status = "COMPLETED" /\ final.amount # 0
                               /\ payment = NoPayment
      [] act = "review"   -> /\ status = "COMPLETED" /\ review = None
                             /\ \E x \in Assignments : assignments[x].status = "ACCEPTED"
      [] act = "cancel"   -> (IsParty(v) \/ v = Staff) /\ MayMove("CANCELLED")
      [] act = "accept"   -> /\ Mine(v, "PENDING") # {} /\ MayMove("SCHEDULED")
                             /\ \A s \in PendingRows : schedules[s].by # "PROVIDER"
      [] act = "decline"  -> Mine(v, "PENDING") # {} /\ MayMove("UNASSIGNED")
      [] act = "complete" -> /\ Mine(v, "ACCEPTED") # {} /\ FitsColumn(Bill(input[2]))
                             /\ MayMove("AWAITING_CONFIRMATION")
      [] act = "place"    -> /\ Len(history) < MaxTrail /\ MayMove("ASSIGNED")
                             /\ FitsColumn(Estimate(input[2]))
                             /\ FreeAssignments # {} /\ FreeSchedules # {}

\* One of the states a handler may leave.
Moved(to) == <<to, Append(history, to)>>
Stayed == <<status, history>>
Placed(role, d) ==
    [Superseded EXCEPT ![CHOOSE s \in FreeSchedules : TRUE] =
        [status |-> "PENDING", by |-> role, date |-> d]]
Agreed(s) == <<[schedules EXCEPT ![s].status = "CONFIRMED"], schedules[s].date>>
Taken(x) == IF assignments[x].status = "PENDING" THEN SetAssignment(x, "ACCEPTED") ELSE assignments

\* The columns in the order of vars: of a move, of what it does to the rows and the date,
\* and of what is quoted, billed, paid and reviewed.
State(move, asg, sch, dat, quo, fin, pay, rev) ==
    <<move[1], move[2], asg, sch, preferred, dat, quantity, quo, fin, pay, rev>>
Unbilled(move, asg, sch, dat) == State(move, asg, sch, dat, quote, final, payment, review)

After(v, act, input) ==
    LET mine(answer) == CHOOSE x \in Mine(v, answer) : TRUE
        live == CHOOSE x \in LiveRows : TRUE
        s == CHOOSE s \in OthersProposal(v) : TRUE
        open == CHOOSE t \in PendingRows : TRUE
    IN CASE act = "confirm" ->
              Unbilled(IF status = "ASSIGNED" THEN Moved("SCHEDULED") ELSE Stayed,
                       IF status = "ASSIGNED" /\ LiveRows # {} THEN Taken(live) ELSE assignments,
                       Agreed(s)[1], Agreed(s)[2])
         [] act = "propose" -> Unbilled(Stayed, assignments, Placed(Role(v), input[1]), None)
         [] act = "done" -> Unbilled(Moved("COMPLETED"), assignments, schedules, date)
         [] act = "pay" -> State(Stayed, assignments, schedules, date, quote, final,
                                 [by |-> v, amount |-> final.amount], review)
         [] act = "review" ->
              State(Stayed, assignments, schedules, date, quote, final, payment,
                    assignments[CHOOSE x \in Assignments :
                                    assignments[x].status = "ACCEPTED"].provider)
         [] act = "cancel" ->
              Unbilled(Moved("CANCELLED"),
                       IF LiveRows = {} THEN assignments ELSE SetAssignment(live, "CANCELLED"),
                       schedules, date)
         [] act = "accept" ->
              IF PendingRows = {}
              THEN Unbilled(Moved("SCHEDULED"), SetAssignment(mine("PENDING"), "ACCEPTED"),
                            schedules, date)
              ELSE Unbilled(Moved("SCHEDULED"), SetAssignment(mine("PENDING"), "ACCEPTED"),
                            Agreed(open)[1], Agreed(open)[2])
         [] act = "decline" ->
              State(Moved("UNASSIGNED"), SetAssignment(mine("PENDING"), "REJECTED"), schedules,
                    date, NoQuote, final, payment, review)
         [] act = "complete" ->
              State(Moved("AWAITING_CONFIRMATION"), assignments, schedules, date, quote,
                    [quantity |-> input[2], amount |-> Bill(input[2])], payment, review)
         [] act = "place" ->
              State(Moved("ASSIGNED"),
                    [assignments EXCEPT ![CHOOSE x \in FreeAssignments : TRUE] =
                        [status |-> "PENDING", provider |-> input[1], price |-> input[2]]],
                    Placed("CUSTOMER", preferred), None,
                    [by |-> input[1], price |-> input[2], total |-> Estimate(input[2])],
                    final, payment, review)

\* Whenever the guards hold, the step to After is a step of the handler: a button that is
\* granted is answered.
THEOREM GrantedIsDone ==
    ASSUME NEW v \in Parties, NEW act \in Acts, NEW input \in Inputs(act),
           Granted(v, act, input), vars' = After(v, act, input)
    PROVE  Handler(v, RequestOf(act, input))
  <1> DEFINE r == RequestOf(act, input)
  <1>0. r.act = act /\ r.input = input
    BY DEF RequestOf, NoRequest
  <1>p. ASSUME NEW role, NEW d, FreeSchedules # {}, schedules' = Placed(role, d), date' = None
        PROVE  ReplaceProposal(role, d)
    BY <1>p DEF ReplaceProposal, Placed, FreeSchedules
  <1>1. CASE act = "confirm"
    <2> DEFINE s == CHOOSE s \in OthersProposal(v) : TRUE
               x == CHOOSE x \in LiveRows : TRUE
    <2>1. /\ IsParty(v) /\ NotTerminal /\ s \in PendingRows /\ schedules[s].by # Role(v)
      BY <1>1 DEF Granted, OthersProposal
    <2>2. vars' = Unbilled(IF status = "ASSIGNED" THEN Moved("SCHEDULED") ELSE Stayed,
                       IF status = "ASSIGNED" /\ LiveRows # {} THEN Taken(x) ELSE assignments,
                       Agreed(s)[1], Agreed(s)[2])
      BY <1>1 DEF After
    <2>3. LiveRows # {} => x \in LiveRows
      OBVIOUS
    <2> HIDE DEF s, x
    <2>4. /\ schedules' = [schedules EXCEPT ![s].status = "CONFIRMED"]
          /\ date' = schedules[s].date
          /\ status = "ASSIGNED" => status' = "SCHEDULED" /\ history' = Append(history, "SCHEDULED")
          /\ status # "ASSIGNED" => UNCHANGED <<status, history>>
          /\ assignments' = IF status = "ASSIGNED" /\ LiveRows # {} THEN Taken(x) ELSE assignments
          /\ UNCHANGED <<preferred, quantity, quote, final, payment, review>>
      BY <2>2 DEF vars, State, Unbilled, Moved, Stayed, Agreed
    <2>5. ConfirmProposal(s)
      BY <2>4 DEF ConfirmProposal
    <2>6. CASE status = "ASSIGNED"
      <3>1. TransitionStatus("SCHEDULED")
        BY <2>4, <2>6 DEF TransitionStatus, Lifecycle!CanTransition, Lifecycle!Transitions
      <3> QED
        BY <1>0, <1>1, <2>1, <2>3, <2>4, <2>5, <2>6, <3>1
           DEF ConfirmSchedule, Handler, PendingRows, Taken
    <2>7. CASE status # "ASSIGNED"
      BY <1>0, <1>1, <2>1, <2>4, <2>5, <2>7 DEF ConfirmSchedule, Handler, PendingRows
    <2> QED
      BY <2>6, <2>7
  <1>2. CASE act = "propose"
    <2>1. vars' = Unbilled(Stayed, assignments, Placed(Role(v), input[1]), None)
      BY <1>2 DEF After
    <2>2. /\ schedules' = Placed(Role(v), input[1]) /\ date' = None
          /\ UNCHANGED <<status, history, assignments, preferred, quantity, quote, final,
                         payment, review>>
      BY <2>1 DEF vars, State, Unbilled, Stayed
    <2>3. IsParty(v) /\ NotTerminal /\ status # "UNASSIGNED" /\ FreeSchedules # {}
      BY <1>2 DEF Granted
    <2>4. ReplaceProposal(Role(v), input[1])
      BY <1>p, <2>2, <2>3
    <2> QED
      BY <1>0, <1>2, <2>2, <2>3, <2>4 DEF ProposeSchedule, Handler
  <1>3. CASE act = "done"
    <2>1. vars' = Unbilled(Moved("COMPLETED"), assignments, schedules, date)
      BY <1>3 DEF After
    <2> QED
      BY <1>0, <1>3, <2>1 DEF vars, State, Unbilled, Moved, Granted, MayMove, TransitionStatus,
                         ConfirmCompletion, Handler
  <1>4. CASE act = "pay"
    <2>1. vars' = State(Stayed, assignments, schedules, date, quote, final,
                        [by |-> v, amount |-> final.amount], review)
      BY <1>4 DEF After
    <2> QED
      BY <1>0, <1>4, <2>1 DEF vars, State, Stayed, Granted, RecordPayment, Handler
  <1>5. CASE act = "review"
    <2> DEFINE x == CHOOSE x \in Assignments : assignments[x].status = "ACCEPTED"
    <2>1. vars' = State(Stayed, assignments, schedules, date, quote, final, payment,
                        assignments[x].provider)
      BY <1>5 DEF After
    <2>2. /\ status = "COMPLETED" /\ review = None
          /\ x \in Assignments /\ assignments[x].status = "ACCEPTED"
      BY <1>5 DEF Granted
    <2> HIDE DEF x
    <2>3. /\ review' = assignments[x].provider
          /\ UNCHANGED <<status, history, assignments, schedules, preferred, date, quantity,
                         quote, final, payment>>
      BY <2>1 DEF vars, State, Stayed
    <2> QED
      BY <1>0, <1>5, <2>2, <2>3 DEF Review, Handler
  <1>6. CASE act = "cancel"
    <2> DEFINE x == CHOOSE x \in LiveRows : TRUE
    <2>1. vars' = Unbilled(Moved("CANCELLED"),
                       IF LiveRows = {} THEN assignments ELSE SetAssignment(x, "CANCELLED"),
                       schedules, date)
      BY <1>6 DEF After
    <2>2. LiveRows # {} => x \in LiveRows
      OBVIOUS
    <2> HIDE DEF x
    <2>3. /\ status' = "CANCELLED" /\ history' = Append(history, "CANCELLED")
          /\ assignments' = IF LiveRows = {} THEN assignments ELSE SetAssignment(x, "CANCELLED")
          /\ UNCHANGED <<schedules, preferred, date, quantity, quote, final, payment, review>>
      BY <2>1 DEF vars, State, Unbilled, Moved
    <2> QED
      BY <1>0, <1>6, <2>2, <2>3 DEF Granted, MayMove, TransitionStatus, Cancel, Handler
  <1>7. CASE act = "accept"
    <2> DEFINE x == CHOOSE x \in Mine(v, "PENDING") : TRUE
               s == CHOOSE t \in PendingRows : TRUE
    <2>1. /\ x \in Assignments /\ AssignedTo(v, x) /\ MayMove("SCHEDULED")
          /\ \A t \in PendingRows : schedules[t].by # "PROVIDER"
          /\ PendingRows # {} => s \in PendingRows
      BY <1>7 DEF Granted, Mine, AssignedTo
    <2>2. vars' = IF PendingRows = {}
                  THEN Unbilled(Moved("SCHEDULED"), SetAssignment(x, "ACCEPTED"), schedules, date)
                  ELSE Unbilled(Moved("SCHEDULED"), SetAssignment(x, "ACCEPTED"),
                                Agreed(s)[1], Agreed(s)[2])
      BY <1>7 DEF After
    <2> HIDE DEF x, s
    <2>3. /\ status' = "SCHEDULED" /\ history' = Append(history, "SCHEDULED")
          /\ assignments' = SetAssignment(x, "ACCEPTED")
          /\ PendingRows = {} => UNCHANGED <<schedules, date>>
          /\ PendingRows # {} => /\ schedules' = [schedules EXCEPT ![s].status = "CONFIRMED"]
                                 /\ date' = schedules[s].date
          /\ UNCHANGED <<preferred, quantity, quote, final, payment, review>>
      BY <2>2 DEF vars, State, Unbilled, Moved, Agreed
    <2>4. TransitionStatus("SCHEDULED")
      BY <2>1, <2>3 DEF MayMove, TransitionStatus
    <2>5. Accept(v)
      BY <2>1, <2>3, <2>4 DEF Accept, ConfirmProposal
    <2> QED
      BY <1>0, <1>7, <2>5 DEF Handler
  <1>8. CASE act = "decline"
    <2> DEFINE x == CHOOSE x \in Mine(v, "PENDING") : TRUE
    <2>1. x \in Assignments /\ AssignedTo(v, x) /\ MayMove("UNASSIGNED")
      BY <1>8 DEF Granted, Mine, AssignedTo
    <2>2. vars' = State(Moved("UNASSIGNED"), SetAssignment(x, "REJECTED"), schedules,
                        date, NoQuote, final, payment, review)
      BY <1>8 DEF After
    <2> HIDE DEF x
    <2>3. /\ status' = "UNASSIGNED" /\ history' = Append(history, "UNASSIGNED")
          /\ assignments' = SetAssignment(x, "REJECTED") /\ quote' = NoQuote
          /\ UNCHANGED <<schedules, preferred, date, quantity, final, payment, review>>
      BY <2>2 DEF vars, State, Moved
    <2>4. Reject(v)
      BY <2>1, <2>3 DEF Reject, MayMove, TransitionStatus
    <2> QED
      BY <1>0, <1>8, <2>4 DEF Handler
  <1>9. CASE act = "complete"
    <2>1. /\ \E x \in Assignments : assignments[x].status = "ACCEPTED" /\ assignments[x].provider = v
          /\ FitsColumn(Bill(input[2])) /\ MayMove("AWAITING_CONFIRMATION")
      BY <1>9 DEF Granted, Mine
    <2>2. vars' = State(Moved("AWAITING_CONFIRMATION"), assignments, schedules, date, quote,
                        [quantity |-> input[2], amount |-> Bill(input[2])], payment, review)
      BY <1>9 DEF After
    <2>3. /\ status' = "AWAITING_CONFIRMATION" /\ history' = Append(history, "AWAITING_CONFIRMATION")
          /\ final' = [quantity |-> input[2], amount |-> Bill(input[2])]
          /\ UNCHANGED <<assignments, schedules, preferred, date, quantity, quote, payment, review>>
      BY <2>2 DEF vars, State, Moved
    <2>4. MarkComplete(v, input[2])
      BY <2>1, <2>3 DEF MarkComplete, MayMove, TransitionStatus
    <2> QED
      BY <1>0, <1>9, <2>4 DEF Handler
  <1>10. CASE act = "place"
    <2> DEFINE p == input[1]
               price == input[2]
               x == CHOOSE x \in FreeAssignments : TRUE
    <2>1. /\ Len(history) < MaxTrail /\ MayMove("ASSIGNED") /\ FitsColumn(Estimate(price))
          /\ x \in Assignments /\ assignments[x].status = "FREE" /\ FreeSchedules # {}
      BY <1>10 DEF Granted, FreeAssignments
    <2>2. vars' = State(Moved("ASSIGNED"),
                    [assignments EXCEPT ![x] =
                        [status |-> "PENDING", provider |-> p, price |-> price]],
                    Placed("CUSTOMER", preferred), None,
                    [by |-> p, price |-> price, total |-> Estimate(price)],
                    final, payment, review)
      BY <1>10 DEF After
    <2>6. p = r.input[1] /\ price = r.input[2]
      BY <1>0
    <2> HIDE DEF p, price, x
    <2>3. /\ status' = "ASSIGNED" /\ history' = Append(history, "ASSIGNED")
          /\ assignments' = [assignments EXCEPT ![x] =
                                [status |-> "PENDING", provider |-> p, price |-> price]]
          /\ schedules' = Placed("CUSTOMER", preferred) /\ date' = None
          /\ quote' = [by |-> p, price |-> price, total |-> Estimate(price)]
          /\ UNCHANGED <<preferred, quantity, final, payment, review>>
      BY <2>2 DEF vars, State, Moved
    <2>4. ReplaceProposal("CUSTOMER", preferred)
      BY <1>p, <2>1, <2>3
    <2>5. Assign(p, price)
      BY <2>1, <2>3, <2>4 DEF Assign, MayMove, TransitionStatus
    <2> QED
      BY <1>0, <1>10, <2>5, <2>6 DEF Handler
  <1> QED
    BY <1>1, <1>2, <1>3, <1>4, <1>5, <1>6, <1>7, <1>8, <1>9, <1>10 DEF Acts

\* The proposal a page shows is the one pending row.
LEMMA ProposalIs ==
    ASSUME OneOpenSchedule
    PROVE  /\ PendingRows = {} => Proposal.by = "NOBODY"
           /\ \A s \in PendingRows : Proposal.by = schedules[s].by
  <1>1. ASSUME NEW s \in PendingRows PROVE Proposal.by = schedules[s].by
    <2>1. \A t \in PendingRows : t = s
      BY DEF OneOpenSchedule, PendingRows
    <2>2. PendingRows # {} /\ (CHOOSE t \in PendingRows : TRUE) = s
      BY <2>1, ChoiceIsUnique
    <2> QED
      BY <2>2 DEF Proposal
  <1> QED
    BY <1>1 DEF Proposal

\* Whoever is shown the other side's proposal can confirm it.
LEMMA ShownIsTheirs ==
    ASSUME IInv, NEW v \in Parties, Proposal.by \notin {Role(v), "NOBODY"}
    PROVE  OthersProposal(v) # {}
  <1>1. PICK s \in PendingRows : Proposal.by = schedules[s].by
    BY ProposalIs DEF IInv
  <1> QED
    BY <1>1 DEF OthersProposal

\* A provider who holds the job is a party to it.
LEMMA HolderIsParty ==
    ASSUME NEW v \in Parties, v \notin {Customer, Staff}, Requested(v) \/ TakenBy(v)
    PROVE  v \in Providers /\ IsParty(v) /\ Role(v) = "PROVIDER"
  BY DEF Parties, Requested, TakenBy, AssignedTo, IsParty, LiveRows, Role

\* What the status alone decides.
LEMMA MovesByStatus ==
    /\ status = "UNASSIGNED" => MayMove("ASSIGNED") /\ MayMove("CANCELLED")
    /\ status = "ASSIGNED" => MayMove("SCHEDULED") /\ MayMove("UNASSIGNED") /\ MayMove("CANCELLED")
    /\ status = "SCHEDULED" => MayMove("AWAITING_CONFIRMATION") /\ MayMove("CANCELLED")
    /\ status = "AWAITING_CONFIRMATION" => MayMove("COMPLETED")
  BY DEF MayMove, Lifecycle!CanTransition, Lifecycle!Transitions

\* The customer's page.
LEMMA BookingPageIsGranted ==
    ASSUME IInv, NEW act \in Acts, NEW input \in Inputs(act), RowsFor(act),
           BookingPageOffers(act, UpToDate(Customer, "booking")),
           ~OfferedInVain(act, UpToDate(Customer, "booking"))
    PROVE  Granted(Customer, act, input)
  <1> DEFINE view == UpToDate(Customer, "booking")
  <1>1. view = CustomerSees(payment # NoPayment, review # None)
    <2>1. Lists(Customer, "booking")
      BY DEF Lists
    <2>2. ASSUME NEW paid, NEW reviewed
          PROVE  Detail(Customer, paid, reviewed) = CustomerSees(paid, reviewed)
      BY BookingAssumption DEF Detail
    <2>3. UpToDate(Customer, "booking") = Detail(Customer, payment # NoPayment, review # None)
      BY <2>1, Zenon DEF UpToDate
    <2> QED
      BY <2>2, <2>3, Zenon
  <1>2. /\ view.status = status /\ view.proposal = Proposal
        /\ view.paid = (payment # NoPayment) /\ view.reviewed = (review # None)
    BY <1>1 DEF CustomerSees
  <1> HIDE DEF view
  <1>3. Customer \in Parties /\ IsParty(Customer) /\ MayView(Customer) /\ Role(Customer) = "CUSTOMER"
    BY BookingAssumption DEF Parties, IsParty, MayView, Role
  <1>4. TypeOK /\ Money /\ status \in Lifecycle!Status
    BY DEF IInv, Money, TypeOK
  <1>5. BookingPageOffers(act, view) /\ ~OfferedInVain(act, view)
    BY DEF view
  <1>6. CASE act = "confirm"
    <2>1. Proposal.by = "PROVIDER" /\ status \notin {"COMPLETED", "CANCELLED"}
      BY <1>2, <1>5, <1>6 DEF BookingPageOffers, OffersDates, OffersToSettle, OfferedInVain,
                              Unsettled
    <2> QED
      BY <1>3, <1>6, <2>1, ShownIsTheirs DEF Granted, Lifecycle!Terminal
  <1>7. CASE act = "propose"
    BY <1>2, <1>3, <1>5, <1>7 DEF BookingPageOffers, OffersDates, OffersToSettle, Unsettled,
                                  Granted, RowsFor, FreeSchedules, Lifecycle!Terminal
  <1>8. CASE act = "done"
    BY <1>2, <1>5, <1>8, MovesByStatus DEF BookingPageOffers, OffersDates, OffersToSettle,
                                           SaidDone, Granted
  <1>9. CASE act = "pay"
    <2>1. status = "COMPLETED" /\ payment = NoPayment
      BY <1>2, <1>5, <1>9 DEF BookingPageOffers, OffersDates, OffersToSettle
    <2>2. final.amount # 0
      BY <1>4, <2>1, CompletedIsBilled
    <2> QED
      BY <1>3, <1>9, <2>1, <2>2 DEF Granted
  <1>10. CASE act = "review"
    <2>1. status = "COMPLETED" /\ review = None
      BY <1>2, <1>5, <1>10 DEF BookingPageOffers, OffersDates, OffersToSettle
    <2> QED
      BY <1>10, <2>1 DEF Granted, IInv, StatusMatchesAssignment
  <1>11. CASE act = "cancel"
    <2>1. status \in {"UNASSIGNED", "ASSIGNED", "SCHEDULED"}
      BY <1>2, <1>4, <1>5, <1>11 DEF BookingPageOffers, OffersDates, OffersToSettle, Unsettled,
                                     OfferedInVain, Lifecycle!Status
    <2> QED
      BY <1>3, <1>11, <2>1, MovesByStatus DEF Granted
  <1> QED
    BY <1>5, <1>6, <1>7, <1>8, <1>9, <1>10, <1>11 DEF BookingPageOffers, OffersDates, OffersToSettle

\* The requests page of a provider.
LEMMA RequestsPageIsGranted ==
    ASSUME IInv, NEW v \in Parties, v \notin {Customer, Staff}, NEW act \in Acts,
           NEW input \in Inputs(act), RowsFor(act),
           RequestsPageOffers(act, UpToDate(v, "requests"))
    PROVE  Granted(v, act, input)
  <1> DEFINE view == UpToDate(v, "requests")
  <1>1. act \in {"accept", "propose", "decline"} /\ view # Nothing /\ MayAnswer(view)
    BY DEF RequestsPageOffers
  <1>2. Requested(v) /\ view = ProviderSees
    BY <1>1 DEF UpToDate, Lists, Detail
  <1>3. view.proposal = Proposal
    BY <1>2 DEF ProviderSees, Nothing
  <1> HIDE DEF view
  <1>4. IsParty(v) /\ Mine(v, "PENDING") # {}
    BY <1>2, HolderIsParty DEF Requested, AssignedTo, Mine
  <1>5. status = "ASSIGNED"
    BY <1>2 DEF IInv, StatusMatchesAssignment, Requested, AssignedTo
  <1>6. \A s \in PendingRows : schedules[s].by # "PROVIDER"
    BY <1>1, <1>3, ProposalIs DEF MayAnswer, IInv
  <1> QED
    BY <1>1, <1>4, <1>5, <1>6, MovesByStatus DEF Granted, RowsFor, FreeSchedules, Lifecycle!Terminal

\* The jobs page of a provider.
LEMMA JobsPageIsGranted ==
    ASSUME IInv, NEW v \in Parties, v \notin {Customer, Staff}, NEW act \in Acts, RowsFor(act),
           JobsPageOffers(act, UpToDate(v, "jobs"))
    PROVE  \E input \in Inputs(act) : Granted(v, act, input)
  <1> DEFINE view == UpToDate(v, "jobs")
  <1>1. /\ view.status = "SCHEDULED"
        /\ act \in {"propose", "complete", "cancel"} \/ OffersToAgree(act, view)
    BY DEF JobsPageOffers
  <1>2. TakenBy(v) /\ view = ProviderSees
    BY <1>1 DEF UpToDate, Lists, Detail, Nothing
  <1>3. view.proposal = Proposal /\ status = "SCHEDULED"
    BY <1>1, <1>2 DEF ProviderSees, Nothing
  <1> HIDE DEF view
  <1>4. IsParty(v) /\ Role(v) = "PROVIDER" /\ Mine(v, "ACCEPTED") # {}
    BY <1>2, HolderIsParty DEF TakenBy, Mine
  <1>5. CASE act = "propose"
    <2>1. PICK d \in Dates : TRUE
      BY DEF IInv, TypeOK
    <2>2. <<d, 0>> \in Inputs(act)
      BY <1>5 DEF Inputs
    <2> QED
      BY <1>3, <1>4, <1>5, <2>2 DEF Granted, RowsFor, FreeSchedules, Lifecycle!Terminal
  <1>6. CASE act = "complete"
    <2>1. PICK x \in Assignments : assignments[x].status = "ACCEPTED"
      BY <1>4 DEF Mine
    <2>2. quote.total = assignments[x].price * quantity /\ quote.price = assignments[x].price
      BY <2>1 DEF IInv, QuoteIsTheProvidersOwn, LiveRows
    <2>3. FitsColumn(Bill(quantity)) /\ quantity \in Quantities
      BY <2>2, BookingAssumption DEF IInv, TypeOK
    <2>4. <<None, quantity>> \in Inputs(act) /\ <<None, quantity>>[2] = quantity
      BY <1>6, <2>3 DEF Inputs
    <2>5. Granted(v, act, <<None, quantity>>)
      BY <1>3, <1>4, <1>6, <2>3, <2>4, MovesByStatus DEF Granted
    <2> QED
      BY <2>4, <2>5
  <1>7. CASE act = "cancel"
    BY <1>3, <1>4, <1>7, MovesByStatus DEF Granted, Inputs
  <1>8. CASE OffersToAgree(act, view)
    <2>1. act = "confirm" /\ Proposal.by = "CUSTOMER"
      BY <1>3, <1>8 DEF OffersToAgree
    <2>2. OthersProposal(v) # {}
      BY <1>4, <2>1, ShownIsTheirs
    <2> QED
      BY <1>3, <1>4, <2>1, <2>2 DEF Granted, Inputs, Lifecycle!Terminal
  <1> QED
    BY <1>1, <1>5, <1>6, <1>7, <1>8

\* The console of the staff.
LEMMA ConsoleIsGranted ==
    ASSUME IInv, NEW act \in Acts, NEW input \in Inputs(act),
           ConsoleOffers(act, UpToDate(Staff, "console")),
           ~OfferedInVain(act, UpToDate(Staff, "console"))
    PROVE  Granted(Staff, act, input)
  <1> DEFINE view == UpToDate(Staff, "console")
  <1>1. view = StaffSees
    BY BookingAssumption DEF UpToDate, Lists, Detail
  <1>2. view.status = status
    BY <1>1 DEF StaffSees, Nothing
  <1> HIDE DEF view
  <1>3. ConsoleOffers(act, view) /\ ~OfferedInVain(act, view) /\ status \in Lifecycle!Status
    BY DEF view, IInv, TypeOK
  <1>4. act = "cancel" /\ status \in {"UNASSIGNED", "ASSIGNED", "SCHEDULED"}
    BY <1>2, <1>3 DEF ConsoleOffers, Unsettled, OfferedInVain, Lifecycle!Status
  <1> QED
    BY <1>4, MovesByStatus DEF Granted

\* Whoever places the booking while nobody has it: with any offering there is room for.
LEMMA PlacingIsGranted ==
    ASSUME NEW v, NEW offering \in OnOffer, status = "UNASSIGNED", RoomFor(offering)
    PROVE  Granted(v, "place", offering)
  BY MovesByStatus DEF RoomFor, RowsFor, Granted, FreeSchedules, FreeAssignments

\* The handler behind a button has a step: there is an input and a state it leads to.
Answered(v, act) ==
    \E input \in Inputs(act) : Granted(v, act, input)

\* No button of a page that is up to date is refused.
LEMMA PagesAreGranted ==
    ASSUME IInv, NEW v \in Parties, NEW page \in PagesOf(v), NEW act \in Acts,
           Offers(page, act, UpToDate(v, page)), ~OfferedInVain(act, UpToDate(v, page)), RowsFor(act)
    PROVE  Answered(v, act)
  <1>1. act # "place" => \E input \in Inputs(act) : TRUE
    <2>1. preferred \in Dates /\ quantity \in Quantities
      BY DEF IInv, TypeOK
    <2>2. /\ <<preferred, 0>> \in Dates \X {0} /\ <<None, quantity>> \in {None} \X Quantities
          /\ <<None, 0>> \in {<<None, 0>>}
      BY <2>1
    <2>3. act # "place" => \/ Inputs(act) = Dates \X {0} \/ Inputs(act) = {None} \X Quantities
                           \/ Inputs(act) = {<<None, 0>>}
      BY DEF Inputs
    <2> QED
      BY <2>2, <2>3
  <1>6. act # "place"
    BY DEF Offers, PagesOf, BookingPageOffers, OffersDates, OffersToSettle, RequestsPageOffers,
           JobsPageOffers, OffersToAgree, ConsoleOffers
  <1>2. CASE v = Customer
    <2>1. page = "booking"
      BY <1>2, BookingAssumption DEF PagesOf
    <2> QED
      BY <1>1, <1>6, <1>2, <2>1, BookingPageIsGranted DEF Offers, Answered
  <1>3. CASE v = Staff
    <2>1. page = "console"
      BY <1>3, BookingAssumption DEF PagesOf
    <2> QED
      BY <1>1, <1>6, <1>3, <2>1, ConsoleIsGranted DEF Offers, Answered
  <1>4. CASE v \notin {Customer, Staff}
    <2>1. page \in {"requests", "jobs"}
      BY <1>4 DEF PagesOf
    <2>2. CASE page = "requests"
      BY <1>1, <1>6, <1>4, <2>2, RequestsPageIsGranted DEF Offers, Answered
    <2>3. CASE page = "jobs"
      BY <1>4, <2>3, JobsPageIsGranted DEF Offers, Answered
    <2> QED
      BY <2>1, <2>2, <2>3
  <1> QED
    BY <1>2, <1>3, <1>4

\* From the placing to the end, somebody's page offers a step that takes the booking further.
LEMMA SomebodyIsOffered ==
    ASSUME IInv, NotTerminal, status # "UNASSIGNED"
    PROVE  \E v \in Parties : \E page \in PagesOf(v),
              act \in {"accept", "confirm", "complete", "done"} :
              /\ Offers(page, act, UpToDate(v, page))
              /\ ~OfferedInVain(act, UpToDate(v, page))
  <1>1. status \in {"ASSIGNED", "SCHEDULED", "AWAITING_CONFIRMATION"}
    BY DEF IInv, TypeOK, Lifecycle!Status, Lifecycle!Terminal
  <1>2. /\ Customer \in Parties /\ PagesOf(Customer) = {"booking"}
        /\ Staff \in Parties /\ PagesOf(Staff) = {"console"}
    BY BookingAssumption DEF Parties, PagesOf
  <1>3. /\ UpToDate(Customer, "booking").status = status
        /\ UpToDate(Customer, "booking").proposal = Proposal
        /\ UpToDate(Staff, "console").status = status
    BY BookingAssumption DEF UpToDate, Lists, Detail, CustomerSees, StaffSees, Nothing
  <1>4. ASSUME NEW x \in Assignments, assignments[x].status # "FREE"
        PROVE  LET v == assignments[x].provider
               IN  v \in Parties /\ v \notin {Customer, Staff} /\ PagesOf(v) = {"requests", "jobs"}
    BY <1>4, BookingAssumption DEF IInv, RowsFilled, Parties, PagesOf
  <1>5. ASSUME NEW v, v \notin {Customer, Staff}, Requested(v)
        PROVE  UpToDate(v, "requests") = ProviderSees
    BY <1>5 DEF UpToDate, Lists, Detail
  <1>6. ASSUME NEW v, v \notin {Customer, Staff}, TakenBy(v)
        PROVE  UpToDate(v, "jobs") = ProviderSees
    BY <1>6 DEF UpToDate, Lists, Detail
  <1>7. ProviderSees.status = status /\ ProviderSees.proposal = Proposal
        /\ (status \in Lifecycle!Status => ProviderSees # Nothing)
    BY DEF ProviderSees, Nothing, Lifecycle!Status
  <1>9. CASE status = "ASSIGNED" /\ Proposal.by = "PROVIDER"
    <2>1. /\ Offers("booking", "confirm", UpToDate(Customer, "booking"))
          /\ ~OfferedInVain("confirm", UpToDate(Customer, "booking"))
      BY <1>3, <1>9 DEF Offers, BookingPageOffers, OffersDates, OfferedInVain, Unsettled
    <2> QED
      BY <1>2, <1>9, <2>1
  <1>10. CASE status = "ASSIGNED" /\ Proposal.by # "PROVIDER"
    <2>1. PICK x \in Assignments : assignments[x].status = "PENDING"
      BY <1>10 DEF IInv, StatusMatchesAssignment
    <2> DEFINE v == assignments[x].provider
    <2>2. v \in Parties /\ v \notin {Customer, Staff} /\ "requests" \in PagesOf(v) /\ Requested(v)
      BY <1>4, <2>1 DEF Requested, AssignedTo
    <2> HIDE DEF v
    <2>3. /\ Offers("requests", "accept", UpToDate(v, "requests"))
          /\ ~OfferedInVain("accept", UpToDate(v, "requests"))
      BY <1>1, <1>5, <1>7, <1>10, <2>2
         DEF Offers, RequestsPageOffers, MayAnswer, OfferedInVain, Lifecycle!Status
    <2> QED
      BY <1>10, <2>2, <2>3
  <1>11. CASE status = "SCHEDULED"
    <2>1. PICK x \in Assignments : assignments[x].status = "ACCEPTED"
      BY <1>11 DEF IInv, StatusMatchesAssignment
    <2> DEFINE v == assignments[x].provider
    <2>2. v \in Parties /\ v \notin {Customer, Staff} /\ "jobs" \in PagesOf(v) /\ TakenBy(v)
      BY <1>4, <2>1 DEF TakenBy
    <2> HIDE DEF v
    <2>3. /\ Offers("jobs", "complete", UpToDate(v, "jobs"))
          /\ ~OfferedInVain("complete", UpToDate(v, "jobs"))
      BY <1>6, <1>7, <1>11, <2>2 DEF Offers, JobsPageOffers, OfferedInVain
    <2> QED
      BY <1>11, <2>2, <2>3
  <1>12. CASE status = "AWAITING_CONFIRMATION"
    <2>1. /\ Offers("booking", "done", UpToDate(Customer, "booking"))
          /\ ~OfferedInVain("done", UpToDate(Customer, "booking"))
      BY <1>3, <1>12 DEF Offers, BookingPageOffers, OffersToSettle, SaidDone, OfferedInVain
    <2> QED
      BY <1>2, <1>12, <2>1
  <1> QED
    BY <1>1, <1>9, <1>10, <1>11, <1>12

\* What OfferedIsAccepted and SomebodyCanGoOn say, with the guards in the place of ENABLED.
OfferedIsAnswered ==
    /\ \A v \in Parties : \A page \in PagesOf(v), act \in Acts :
          LET view == UpToDate(v, page) IN
          (Offers(page, act, view) /\ ~OfferedInVain(act, view) /\ RowsFor(act))
              => Answered(v, act)
    /\ \A offering \in OnOffer :
          (ListOffers(offering) /\ ~OfferedInVain("place", StaffSees) /\ RoomFor(offering))
              => Granted(Staff, "place", offering)
SomebodyIsAnswered ==
    /\ (NotTerminal /\ status # "UNASSIGNED") =>
          \E v \in Parties : \E page \in PagesOf(v), act \in {"accept", "confirm", "complete",
                                                              "done"} :
              Offers(page, act, UpToDate(v, page)) /\ Answered(v, act)
    /\ status = "UNASSIGNED" =>
          \A offering \in OnOffer, v \in {Customer, Staff} :
              RoomFor(offering) => Granted(v, "place", offering)

\* For any providers, rows, dates and prices, no button of a page that is up to date is
\* refused, nor any of the staff's list while nobody has the job, but for the three that are
\* offered in vain: the guards of the handler behind it hold.
THEOREM OfferedIsGranted == PagesSpec => []OfferedIsAnswered
  <1>1. PagesInv => OfferedIsAnswered
    <2> SUFFICES ASSUME PagesInv PROVE OfferedIsAnswered
      OBVIOUS
    <2>1. ASSUME NEW offering \in OnOffer, ~OfferedInVain("place", StaffSees), RoomFor(offering)
          PROVE  Granted(Staff, "place", offering)
      <3>1. status = "UNASSIGNED"
        BY <2>1 DEF OfferedInVain, StaffSees, Nothing
      <3> QED
        BY <2>1, <3>1, PlacingIsGranted
    <2> QED
      BY <2>1, PagesAreGranted DEF PagesInv, OfferedIsAnswered
  <1> QED
    BY <1>1, PagesInvariance, PTL

\* And no booking is stranded: once a provider has it and until it is closed, somebody's page
\* offers a step that takes it further, whose guards hold; while nobody has it, it can be
\* placed with any offering there is room for.
THEOREM SomebodyIsGranted == PagesSpec => []SomebodyIsAnswered
  <1>1. ASSUME PagesInv, NotTerminal, status # "UNASSIGNED"
        PROVE  \E v \in Parties : \E page \in PagesOf(v),
                  act \in {"accept", "confirm", "complete", "done"} :
                  Offers(page, act, UpToDate(v, page)) /\ Answered(v, act)
    <2>1. IInv
      BY <1>1 DEF PagesInv
    <2>2. PICK v \in Parties : \E page \in PagesOf(v),
              act \in {"accept", "confirm", "complete", "done"} :
              /\ Offers(page, act, UpToDate(v, page))
              /\ ~OfferedInVain(act, UpToDate(v, page))
      BY <1>1, <2>1, SomebodyIsOffered
    <2>3. PICK page \in PagesOf(v), act \in {"accept", "confirm", "complete", "done"} :
              /\ Offers(page, act, UpToDate(v, page))
              /\ ~OfferedInVain(act, UpToDate(v, page))
      BY <2>2
    <2>4. act \in Acts /\ RowsFor(act)
      BY <2>3 DEF Acts, RowsFor
    <2>5. Answered(v, act)
      BY <2>1, <2>3, <2>4, PagesAreGranted
    <2> QED
      BY <2>3, <2>5
  <1>2. PagesInv => SomebodyIsAnswered
    BY <1>1, PlacingIsGranted DEF SomebodyIsAnswered
  <1> QED
    BY <1>2, PagesInvariance, PTL
=============================================================================
