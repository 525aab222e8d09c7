------------------------- MODULE BookingTransactions -------------------------
(***************************************************************************)
(* One booking and the concurrent HTTP requests on it, at the level of the  *)
(* SQL statements the booking service issues.                               *)
(*                                                                          *)
(* A handler first reads the booking outside any transaction and decides;   *)
(* it then runs a transaction made of repository calls, each one SQL        *)
(* statement.  Postgres runs it at READ COMMITTED: a statement sees what is *)
(* committed plus the transaction's own writes, a written row stays locked  *)
(* until the transaction ends, a conditional update that waited re-checks   *)
(* its condition, and the partial unique indexes make an insert wait for,   *)
(* and then lose to, another open row.                                      *)
(*                                                                          *)
(* The customer stands for the platform staff too: the service lets both    *)
(* assign and cancel, and the statements are the same.                      *)
(***************************************************************************)
EXTENDS Naturals, Sequences, FiniteSets

CONSTANTS
    Requests,      \* slots for requests in flight at the same time
    Customer,      \* the organisation that owns the booking
    Providers,     \* the provider organisations
    BookingRow,    \* the row of the booking
    Assignments,   \* the rows of booking_assignments (bound)
    Schedules,     \* the rows of booking_schedules (bound)
    None           \* SQL NULL, or "not read yet"

ASSUME TransactionsAssumption ==
    /\ Customer \notin Providers
    /\ None \notin Providers \cup {Customer} \cup Assignments \cup Schedules
    /\ BookingRow \notin Assignments \cup Schedules \cup {None}
    /\ Assignments \cap Schedules = {}
    /\ IsFiniteSet(Assignments) /\ IsFiniteSet(Schedules)

VARIABLES
    db,       \* the committed rows
    writes,   \* per request, the rows it wrote and holds locked
    proc      \* per request, what it does, what it read, and its statements left

vars == <<db, writes, proc>>

Rows == {BookingRow} \cup Assignments \cup Schedules
Parties == Providers \cup {Customer}
Open == {"PENDING", "CONFIRMED"}
Active == {"PENDING", "ACCEPTED"}

\* The state machine is the declared one.
Machine == INSTANCE BookingLifecycle WITH
    NoProvider <- None, MaxTrail <- 0, status <- db[BookingRow].status,
    provider <- None, answer <- "NONE", quotedBy <- None, trail <- <<>>

-----------------------------------------------------------------------------
(* Transactions. *)

Idle == [op |-> "none", actor |-> None, seen |-> None, chosen |-> None,
         asg |-> None, asgSeen |-> "NONE", sch |-> None, targets |-> {},
         todo |-> <<>>]

NoWrites == [x \in {} |-> None]

View(r, x) == IF x \in DOMAIN writes[r] THEN writes[r][x] ELSE db[x]

LockedByOther(r, x) == \E q \in Requests \ {r} : x \in DOMAIN writes[q]

Put(r, W) ==
    writes' = [writes EXCEPT ![r] =
                  [x \in DOMAIN writes[r] \cup DOMAIN W |->
                      IF x \in DOMAIN W THEN W[x] ELSE writes[r][x]]]

At(r, stmt) == proc[r].todo # <<>> /\ Head(proc[r].todo) = stmt

\* The rest of the statements, with a branch put in front of them.
Continue(r, changes, branch) ==
    proc' = [proc EXCEPT ![r] =
        [x \in DOMAIN Idle |->
            CASE x = "todo" -> branch \o Tail(proc[r].todo)
              [] x \in DOMAIN changes -> changes[x]
              [] OTHER -> proc[r][x]]]

Advance(r) == proc' = [proc EXCEPT ![r].todo = Tail(@)]

\* The handler throws inside the transaction callback, or the connection is
\* lost: Postgres rolls back.
Rollback(r) ==
    /\ proc' = [proc EXCEPT ![r] = Idle]
    /\ writes' = [writes EXCEPT ![r] = NoWrites]
    /\ UNCHANGED db

\* Rows of a table that a partial unique index on live statuses looks at:
\* live when committed, or in the uncommitted version of some transaction.
Live(table, live) ==
    {x \in table : \/ db[x].status \in live
                   \/ \E q \in Requests : x \in DOMAIN writes[q] /\ writes[q][x].status \in live}

\* The unique index refuses a second live row, once nobody else holds one.
Duplicate(r, table, live) ==
    \E x \in table : x # proc[r].sch /\ View(r, x).status \in live

\* Unused rows: an insert takes any of them.
Fresh(table) ==
    {x \in table : db[x].status = "FREE" /\ \A q \in Requests : x \notin DOMAIN writes[q]}
Insert(r, table, row) == \E new \in Fresh(table) : Put(r, [x \in {new} |-> row])

-----------------------------------------------------------------------------
(* The read phase of each handler: the guards it evaluates on the committed *)
(* booking before it opens a transaction.  A request refused here changes   *)
(* nothing and is left out.                                                 *)

booking == db[BookingRow]

OwnPending(p) == {a \in Assignments : db[a].status = "PENDING" /\ db[a].provider = p}

OwnActive(p) == {a \in Assignments : db[a].status \in Active /\ db[a].provider = p}

\* requireParty and requireCancellable: the customer, or the assigned provider.
IsParty(a) == a = Customer \/ OwnActive(a) # {}

Begin(r, op, a, fields, program) ==
    /\ proc[r] = Idle
    /\ proc' = [proc EXCEPT ![r] =
           [x \in DOMAIN Idle |->
               CASE x = "op" -> op
                 [] x = "actor" -> a
                 [] x = "seen" -> [status |-> booking.status, version |-> booking.version]
                 [] x = "todo" -> program
                 [] x \in DOMAIN fields -> fields[x]
                 [] OTHER -> Idle[x]]]
    /\ UNCHANGED <<db, writes>>

\* Bound: a request that will insert a row starts only while one is left for it.
Inserting(stmt) ==
    {q \in Requests : \E i \in DOMAIN proc[q].todo : proc[q].todo[i] = stmt}
RoomFor(table, stmt) == Cardinality(Fresh(table)) > Cardinality(Inserting(stmt))

BeginAssign(r, p) ==
    /\ Machine!CanTransition(booking.status, "ASSIGNED")
    /\ RoomFor(Assignments, "createAssignment")
    /\ RoomFor(Schedules, "createSchedule")
    /\ Begin(r, "assign", Customer, [chosen |-> p],
             <<"transition", "createAssignment", "supersede", "clearDate",
               "createSchedule", "applyQuote">>)

BeginCancel(r, a) ==
    /\ IsParty(a)
    /\ Machine!CanTransition(booking.status, "CANCELLED")
    /\ Begin(r, "cancel", a, [sch |-> None], <<"findActive", "withdraw", "transition">>)

BeginAccept(r, p) ==
    /\ Machine!CanTransition(booking.status, "SCHEDULED")
    /\ \E a \in OwnPending(p) :
          Begin(r, "accept", p, [asg |-> a], <<"answer", "findPending", "transition">>)

BeginReject(r, p) ==
    /\ Machine!CanTransition(booking.status, "UNASSIGNED")
    /\ \E a \in OwnPending(p) :
          Begin(r, "reject", p, [asg |-> a], <<"answer", "transition">>)

BeginPropose(r, a) ==
    /\ IsParty(a)
    /\ booking.status \notin Machine!Terminal \cup {"UNASSIGNED"}
    /\ RoomFor(Schedules, "createSchedule")
    /\ Begin(r, "propose", a, [sch |-> None], <<"supersede", "clearDate", "createSchedule">>)

BeginConfirm(r, a) ==
    /\ IsParty(a)
    /\ booking.status \notin Machine!Terminal
    /\ Begin(r, "confirm", a, [sch |-> None], <<"readPending">>)

BeginMarkComplete(r, p) ==
    /\ \E a \in OwnActive(p) : db[a].status = "ACCEPTED"
    /\ Machine!CanTransition(booking.status, "AWAITING_CONFIRMATION")
    /\ Begin(r, "complete", p, [sch |-> None], <<"transition">>)

BeginConfirmCompletion(r) ==
    /\ Machine!CanTransition(booking.status, "COMPLETED")
    /\ Begin(r, "close", Customer, [sch |-> None], <<"transition">>)

-----------------------------------------------------------------------------
(* The rows a statement must lock, and who stands in its way. *)

ToStatus == [assign |-> "ASSIGNED", cancel |-> "CANCELLED", accept |-> "SCHEDULED",
             reject |-> "UNASSIGNED", confirm |-> "SCHEDULED",
             complete |-> "AWAITING_CONFIRMATION", close |-> "COMPLETED"]

ToAnswer == [accept |-> "ACCEPTED", confirm |-> "ACCEPTED", reject |-> "REJECTED",
             cancel |-> "CANCELLED"]

\* WHERE id AND version AND status of the conditional status update.  (Mutants:
\* the version forgotten, the update unconditional.)
StatusMatches(r) == View(r, BookingRow).status = proc[r].seen.status
Unconditional(r) == TRUE
VersionMatches(r) ==
    /\ View(r, BookingRow).version = proc[r].seen.version
    /\ View(r, BookingRow).status = proc[r].seen.status

\* WHERE id AND status of the conditional assignment and schedule updates.
AnswerMatches(r) == View(r, proc[r].asg).status = "PENDING"
WithdrawMatches(r) == proc[r].asg # None /\ View(r, proc[r].asg).status = proc[r].asgSeen
ConfirmMatches(r) == View(r, proc[r].sch).status = "PENDING"

RowsNeeded(r) ==
    CASE At(r, "transition")       -> IF VersionMatches(r) THEN {BookingRow} ELSE {}
      [] At(r, "answer")           -> IF AnswerMatches(r) THEN {proc[r].asg} ELSE {}
      [] At(r, "withdraw")         -> IF WithdrawMatches(r) THEN {proc[r].asg} ELSE {}
      [] At(r, "confirm")          -> IF ConfirmMatches(r) THEN {proc[r].sch} ELSE {}
      [] At(r, "supersedeRows")    -> proc[r].targets
      [] At(r, "clearDate")        -> {BookingRow}
      [] At(r, "copyDate")         -> {BookingRow}
      [] At(r, "applyQuote")       -> {BookingRow}
      [] At(r, "createAssignment") -> Live(Assignments, Active)
      [] At(r, "createSchedule")   -> Live(Schedules, {"PENDING"})
      [] At(r, "indexConfirmed")   -> Live(Schedules, {"CONFIRMED"})
      [] OTHER                     -> {}

Blockers(r) == {q \in Requests \ {r} : RowsNeeded(r) \cap DOMAIN writes[q] # {}}

Ready(r, stmt) == At(r, stmt) /\ Blockers(r) = {}

-----------------------------------------------------------------------------
(* The statements, one action per repository call. *)

\* The conditional status update and its history row.
TransitionStatus(r) ==
    /\ Ready(r, "transition")
    /\ VersionMatches(r)
    /\ LET to == ToStatus[proc[r].op]
           old == View(r, BookingRow)
           new == [old EXCEPT !.status = to, !.version = @ + 1, !.trail = Append(@, to),
                              !.quotedBy = IF proc[r].op = "reject" THEN None ELSE @]
       IN Put(r, [x \in {BookingRow} |-> new])
    /\ Advance(r)
    /\ UNCHANGED db

CreateAssignment(r) ==
    /\ Ready(r, "createAssignment")
    /\ ~Duplicate(r, Assignments, Active)
    /\ Insert(r, Assignments, [status |-> "PENDING", provider |-> proc[r].chosen])
    /\ Advance(r)
    /\ UNCHANGED db

\* The rows findActiveAssignment selects.
LiveAssignments(r) == {a \in Assignments : View(r, a).status \in Active}

\* cancel withdraws what it finds; confirmSchedule answers it if it is PENDING.
FindActiveAssignment(r) ==
    /\ Ready(r, "findActive")
    /\ LET active == LiveAssignments(r)
       IN \/ /\ active = {}
             /\ Continue(r, [asg |-> None], <<>>)
          \/ \E a \in active :
                Continue(r, [asg |-> a, asgSeen |-> View(r, a).status],
                         IF proc[r].op = "confirm" /\ View(r, a).status = "PENDING"
                           THEN <<"answer">> ELSE <<>>)
    /\ UNCHANGED <<db, writes>>

\* closeAssignment of accept, reject and confirmSchedule, followed by assertWon.
CloseAssignment(r) ==
    /\ Ready(r, "answer")
    /\ AnswerMatches(r)
    /\ Put(r, [x \in {proc[r].asg} |->
                  [View(r, proc[r].asg) EXCEPT !.status = ToAnswer[proc[r].op]]])
    /\ Advance(r)
    /\ UNCHANGED db

\* closeAssignment of cancel, whose result nobody looks at.
WithdrawAssignment(r) ==
    /\ Ready(r, "withdraw")
    /\ IF WithdrawMatches(r)
         THEN Put(r, [x \in {proc[r].asg} |->
                         [View(r, proc[r].asg) EXCEPT !.status = ToAnswer[proc[r].op]]])
         ELSE UNCHANGED writes
    /\ Advance(r)
    /\ UNCHANGED db

\* The update of supersedeOpenSchedules picks its rows from its snapshot ...
\* (Mutant: open proposals only.)
SupersedeProposals(r) ==
    /\ Ready(r, "supersede")
    /\ Continue(r, [targets |-> {s \in Schedules : View(r, s).status = "PENDING"}],
                <<"supersedeRows">>)
    /\ UNCHANGED <<db, writes>>

SupersedeSnapshot(r) ==
    /\ Ready(r, "supersede")
    /\ Continue(r, [targets |-> {s \in Schedules : View(r, s).status \in Open}],
                <<"supersedeRows">>)
    /\ UNCHANGED <<db, writes>>

\* ... and, once it has their locks, changes those that are still open.
SupersedeRows(r) ==
    /\ Ready(r, "supersedeRows")
    /\ LET open == {s \in proc[r].targets : View(r, s).status \in Open}
       IN Put(r, [s \in open |-> [View(r, s) EXCEPT !.status = "SUPERSEDED"]])
    /\ Continue(r, [targets |-> {}], <<>>)
    /\ UNCHANGED db

\* Unconditional updates of the booking row.
UpdateBooking(r, stmt, field, value) ==
    /\ Ready(r, stmt)
    /\ Put(r, [x \in {BookingRow} |-> [View(r, x) EXCEPT ![field] = value]])
    /\ Advance(r)
    /\ UNCHANGED db

KeepConfirmedDate(r) == UpdateBooking(r, "clearDate", "date", View(r, BookingRow).date)
ClearConfirmedDate(r) == UpdateBooking(r, "clearDate", "date", None)
ForgetConfirmedDate(r) == UpdateBooking(r, "copyDate", "date", View(r, BookingRow).date)
CopyConfirmedDate(r) == UpdateBooking(r, "copyDate", "date", proc[r].sch)
ApplyQuote(r) == UpdateBooking(r, "applyQuote", "quotedBy", proc[r].chosen)

CreateSchedule(r) ==
    /\ Ready(r, "createSchedule")
    /\ ~Duplicate(r, Schedules, {"PENDING"})
    /\ Insert(r, Schedules,
              [status |-> "PENDING", by |-> proc[r].actor, confirmedBy |-> None])
    /\ Advance(r)
    /\ UNCHANGED db

NoSideCheck(a, b) == FALSE
SameSide(a, b) == (a = Customer) <=> (b = Customer)

\* accept looks for the open proposal inside its transaction.  A proposal of
\* the provider's side makes it throw.
FindPendingSchedule(r) ==
    /\ Ready(r, "findPending")
    /\ LET pending == {s \in Schedules : View(r, s).status = "PENDING"}
       IN \/ pending = {} /\ Advance(r) /\ UNCHANGED <<db, writes>>
          \/ \E s \in pending :
                IF View(r, s).by # Customer
                  THEN Rollback(r)
                  ELSE /\ Continue(r, [sch |-> s], <<"confirm", "indexConfirmed", "copyDate">>)
                       /\ UNCHANGED <<db, writes>>

\* confirmSchedule looks for it before it opens its transaction, and branches
\* on the status it read even earlier.
ReadPendingSchedule(r) ==
    /\ Ready(r, "readPending")
    /\ LET pending == {s \in Schedules : db[s].status = "PENDING"}
       IN \/ pending = {} /\ Rollback(r)
          \/ \E s \in pending :
                IF SameSide(db[s].by, proc[r].actor)
                  THEN Rollback(r)
                  ELSE /\ Continue(r, [sch |-> s],
                              IF proc[r].seen.status = "ASSIGNED"
                                THEN <<"confirm", "indexConfirmed", "copyDate",
                                       "findActive", "transition">>
                                ELSE <<"confirm", "indexConfirmed", "copyDate">>)
                       /\ UNCHANGED <<db, writes>>

\* The conditional update of closeSchedule ...
CloseSchedule(r) ==
    /\ Ready(r, "confirm")
    /\ ConfirmMatches(r)
    /\ Put(r, [x \in {proc[r].sch} |->
                  [View(r, x) EXCEPT !.status = "CONFIRMED", !.confirmedBy = proc[r].actor]])
    /\ Advance(r)
    /\ UNCHANGED db

\* ... holds its row while the index of CONFIRMED rows is checked.
CheckConfirmedIndex(r) ==
    /\ Ready(r, "indexConfirmed")
    /\ ~Duplicate(r, Schedules, {"CONFIRMED"})
    /\ Advance(r)
    /\ UNCHANGED <<db, writes>>

Commit(r) ==
    /\ proc[r] # Idle
    /\ proc[r].todo = <<>>
    /\ db' = [x \in Rows |-> View(r, x)]
    /\ writes' = [writes EXCEPT ![r] = NoWrites]
    /\ proc' = [proc EXCEPT ![r] = Idle]

-----------------------------------------------------------------------------
(* Failures. *)

\* assertWon: a conditional update changed no row, the caller gets a 409.
LosesRace(r) ==
    /\ \/ At(r, "transition") /\ ~VersionMatches(r)
       \/ At(r, "answer") /\ ~AnswerMatches(r)
       \/ At(r, "confirm") /\ ~ConfirmMatches(r)
    /\ Rollback(r)

\* The index refused the insert; assign and proposeSchedule turn P2002 into a 409.
LosesToIndex(r) ==
    /\ \/ Ready(r, "createAssignment") /\ Duplicate(r, Assignments, Active)
       \/ Ready(r, "createSchedule") /\ Duplicate(r, Schedules, {"PENDING"})
    /\ Rollback(r)

\* accept and confirmSchedule have no handler for P2002.
UniqueViolationEscapes(r) ==
    /\ Ready(r, "indexConfirmed")
    /\ Duplicate(r, Schedules, {"CONFIRMED"})
    /\ Rollback(r)

\* Requests that wait for one another, and the rings of them r is part of.
Stuck(D) == D # {} /\ \A d \in D : Blockers(d) \cap D # {}
DeadlockedWith(r) == {D \in SUBSET Requests : Stuck(D) /\ ~Stuck(D \ {r})}

\* Postgres' deadlock detector aborts one of them; nothing catches the error.
NoDetector(r) == FALSE
DeadlockAborts(r) ==
    /\ Blockers(r) # {}
    /\ DeadlockedWith(r) # {}
    /\ Rollback(r)

\* The five-second limit of an interactive transaction, a lost connection, or
\* a crash of the API process.
TransactionLost(r) ==
    /\ proc[r] # Idle
    /\ Rollback(r)

-----------------------------------------------------------------------------
Start(r) ==
    \/ \E p \in Providers : BeginAssign(r, p)
    \/ \E a \in Parties : BeginCancel(r, a)
    \/ \E p \in Providers : BeginAccept(r, p)
    \/ \E p \in Providers : BeginReject(r, p)
    \/ \E a \in Parties : BeginPropose(r, a)
    \/ \E a \in Parties : BeginConfirm(r, a)
    \/ \E p \in Providers : BeginMarkComplete(r, p)
    \/ BeginConfirmCompletion(r)

Statement(r) ==
    \/ TransitionStatus(r)
    \/ CreateAssignment(r)
    \/ FindActiveAssignment(r)
    \/ CloseAssignment(r)
    \/ WithdrawAssignment(r)
    \/ SupersedeSnapshot(r)
    \/ SupersedeRows(r)
    \/ ClearConfirmedDate(r)
    \/ CopyConfirmedDate(r)
    \/ ApplyQuote(r)
    \/ CreateSchedule(r)
    \/ FindPendingSchedule(r)
    \/ ReadPendingSchedule(r)
    \/ CloseSchedule(r)
    \/ CheckConfirmedIndex(r)
    \/ Commit(r)
    \/ LosesRace(r)
    \/ LosesToIndex(r)
    \/ UniqueViolationEscapes(r)

\* The booking exists and its creation is on record.
Init ==
    /\ db = [x \in Rows |->
               CASE x = BookingRow -> [status |-> "UNASSIGNED", version |-> 0, quotedBy |-> None,
                                       date |-> None, trail |-> <<"UNASSIGNED">>]
                 [] x \in Assignments -> [status |-> "FREE", provider |-> None]
                 [] x \in Schedules -> [status |-> "FREE", by |-> None, confirmedBy |-> None]]
    /\ writes = [r \in Requests |-> NoWrites]
    /\ proc = [r \in Requests |-> Idle]

Next ==
    \E r \in Requests : Start(r) \/ Statement(r) \/ DeadlockAborts(r) \/ TransactionLost(r)

Spec == Init /\ [][Next]_vars

\* A started request goes on: Postgres queues the waiters of a row lock, so a
\* statement that can run again and again does run, and its deadlock detector
\* runs as long as a ring of waiters stands.
Fairness ==
    \A r \in Requests : SF_vars(Statement(r)) /\ WF_vars(DeadlockAborts(r))


-----------------------------------------------------------------------------
(* Properties. *)

BookingRecord == [status : Machine!Status, version : Nat, quotedBy : Providers \cup {None},
                  date : Schedules \cup {None}, trail : Seq(Machine!Status)]
AssignmentStatus == {"FREE", "PENDING", "ACCEPTED", "REJECTED", "CANCELLED"}
AssignmentRecord == [status : AssignmentStatus, provider : Providers \cup {None}]
ScheduleRecord == [status : {"FREE", "PENDING", "CONFIRMED", "SUPERSEDED"},
                   by : Parties \cup {None}, confirmedBy : Parties \cup {None}]

RowOK(x, row) ==
    /\ x = BookingRow => row \in BookingRecord
    /\ x \in Assignments => row \in AssignmentRecord
    /\ x \in Schedules => row \in ScheduleRecord

\* Committed and uncommitted rows have their columns' types, and no row is
\* written by two transactions at once.
TypeOK ==
    /\ DOMAIN db = Rows /\ \A x \in Rows : RowOK(x, db[x])
    /\ DOMAIN writes = Requests
    /\ \A r \in Requests :
          /\ DOMAIN writes[r] \subseteq Rows
          /\ \A x \in DOMAIN writes[r] : RowOK(x, writes[r][x]) /\ ~LockedByOther(r, x)
    /\ DOMAIN proc = Requests
    /\ \A r \in Requests :
          /\ DOMAIN proc[r] = DOMAIN Idle
          /\ proc[r].actor \in Parties \cup {None}
          /\ proc[r].asg \in Assignments \cup {None}
          /\ proc[r].sch \in Schedules \cup {None}
          /\ proc[r].targets \subseteq Schedules

ActiveAssignments == {a \in Assignments : db[a].status \in Active}

\* The lifecycle as the committed rows show it.
Lifecycle == INSTANCE BookingLifecycle WITH
    NoProvider <- None,
    MaxTrail <- 2 * Cardinality(Assignments),
    status <- booking.status,
    provider <- IF ActiveAssignments = {} THEN None
                ELSE db[CHOOSE a \in ActiveAssignments : TRUE].provider,
    answer <- IF ActiveAssignments = {} THEN "NONE"
              ELSE db[CHOOSE a \in ActiveAssignments : TRUE].status,
    quotedBy <- booking.quotedBy,
    trail <- booking.trail

\* However the statements of concurrent requests interleave, what commits is one
\* legal lifecycle step at a time: status, assignment, quote and history never
\* show half of a handler or the mix of two.
ImplementsLifecycle == Lifecycle!Spec

\* Whoever confirmed a date is on the other side from whoever proposed it (BR15),
\* although the two are compared long before the row is written.
ConfirmedByTheOtherSide ==
    \A s \in Schedules :
        db[s].confirmedBy # None =>
            (db[s].by = Customer) # (db[s].confirmedBy = Customer)

\* bookings.confirmed_date never points at a schedule row that is not CONFIRMED.
DateNamesConfirmedSchedule ==
    booking.date # None => db[booking.date].status = "CONFIRMED"

\* "At most ONE outstanding proposal per booking", and "a booking cannot be agreed for two
\* dates": whatever overlaps, no two schedules are PENDING and no two CONFIRMED.
OneScheduleEach ==
    \A s, t \in Schedules : db[s].status \in Open /\ db[s].status = db[t].status => s = t

\* assign and proposeSchedule replace what is open.
Proposes(p) == p.op \in {"assign", "propose"}
OneProposer == \A q, r \in Requests : Proposes(proc[q]) /\ Proposes(proc[r]) => q = r

\* No index keeps a proposal from standing next to an agreed date.  supersedeOpenSchedules
\* does ("nothing is CONFIRMED any more"), as long as no two of them overlap.
OneOpenSchedule ==
    \A s, t \in Schedules : db[s].status \in Open /\ db[t].status \in Open => s = t
InTurnSpec == Init /\ [][Next /\ OneProposer']_vars
FairInTurnSpec == InTurnSpec /\ Fairness

\* A status change commits only on top of the very version its handler decided
\* on: of two handlers that read the same version, one loses.
DecisionsAreFresh ==
    [][ \A r \in Requests :
          (proc[r].op # "none" /\ proc'[r] = Idle /\ booking'.status # booking.status
               /\ BookingRow \in DOMAIN writes[r] /\ booking' = writes[r][BookingRow])
            => proc[r].seen = [status |-> booking.status, version |-> booking.version] ]_vars

\* "Nothing may change after these": a closed booking and its schedules stay.
NothingChangesAfterTerminal ==
    [][booking.status \in Machine!Terminal => UNCHANGED db]_vars

\* What is left of it: of a closed booking nothing moves but its dates.  Its status, its
\* quote, its history and its assignments stay, however long ago a request that comes to
\* its statements now has read it.
OnlyDatesChangeAfterTerminal ==
    [][booking.status \in Machine!Terminal =>
          /\ \A column \in {"status", "version", "quotedBy", "trail"} :
                booking'[column] = booking[column]
          /\ \A a \in Assignments : db'[a] = db[a]]_vars

\* "A copy is only worth having while it cannot drift from its source."
DateMirrorsConfirmedSchedule ==
    \A s \in Schedules : db[s].status = "CONFIRMED" => booking.date = s

\* "Only the assigned provider may answer": an assignment turns ACCEPTED only with
\* the consent of its own provider, who accepts it or proposed the date.
ProviderConsents ==
    [][ \A a \in Assignments :
          (db[a].status = "PENDING" /\ db'[a].status = "ACCEPTED") =>
              \E r \in Requests :
                  /\ a \in DOMAIN writes[r]
                  /\ \/ proc[r].actor = db[a].provider
                     \/ proc[r].sch # None /\ db[proc[r].sch].by = db[a].provider ]_vars

\* "A lost race is a 409": no request dies of an error the service does not handle.
LostRaceIsConflict ==
    [][\A r \in Requests : ~UniqueViolationEscapes(r) /\ ~DeadlockAborts(r)]_vars

\* Whatever a request waits for, it is answered: it commits or fails.
EveryRequestEnds == \A r \in Requests : (proc[r] # Idle) ~> (proc[r] = Idle)

=============================================================================
