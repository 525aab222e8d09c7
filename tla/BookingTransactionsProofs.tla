---------------------- MODULE BookingTransactionsProofs ----------------------
(***************************************************************************)
(* What the row locks and the conditional updates achieve, for any number    *)
(* of requests, providers and rows.  In order: what a transaction may        *)
(* commit (IInv), the date on the booking (DInv), the plans of the requests  *)
(* and the refinement of the lifecycle (LInv), the types of the rows, the    *)
(* schedules under the partial unique indexes (SInv) and in turn (OInv), and *)
(* what is recorded of a booking when it is closed (StInv).                  *)
(***************************************************************************)
EXTENDS Settlement, FiniteSetTheorems, SequenceTheorems, TLAPS

Fields == {"op", "actor", "seen", "chosen", "asg", "asgSeen", "sch", "targets", "todo"}

\* The statements of the programs.
Steps == {"transition", "createAssignment", "supersede", "supersedeRows", "clearDate",
          "createSchedule", "applyQuote", "findActive", "withdraw", "answer", "findPending",
          "readPending", "confirm", "indexConfirmed", "copyDate"}

\* What a request holds.
Shape(p) ==
    /\ DOMAIN p = Fields /\ p = [x \in Fields |-> p[x]]
    /\ p.actor \in Parties \cup {None}
    /\ p.asg \in Assignments \cup {None}
    /\ p.sch \in Schedules \cup {None}
    /\ p.targets \subseteq Schedules
    /\ p.todo \in Seq(Steps)
    /\ p.todo # <<>> => p.op # "none" /\ p.seen = [status |-> p.seen.status,
                                                 version |-> p.seen.version]

\* What its program has been started for.
Legal(p) ==
    \A i \in DOMAIN p.todo :
        /\ p.todo[i] = "transition" => Machine!CanTransition(p.seen.status, ToStatus[p.op])
        /\ p.todo[i] = "readPending" => p.op = "confirm"
        /\ p.todo[i] = "findPending" => p.actor \in Providers

Processes ==
    /\ proc = [r \in Requests |-> proc[r]]
    /\ \A r \in Requests : Shape(proc[r]) /\ Legal(proc[r])

-----------------------------------------------------------------------------
(* The programs. *)

\* A request that is not running.
LEMMA IdleShape == Shape(Idle) /\ Legal(Idle) /\ DOMAIN Idle = Fields
  <1>1. DOMAIN Idle = Fields
    BY DEF Idle, Fields
  <1>2. Idle = [x \in Fields |-> Idle[x]]
    BY DEF Idle, Fields
  <1>3. Idle.todo = <<>> /\ DOMAIN Idle.todo = {} /\ Idle.todo \in Seq(Steps)
    BY DEF Idle
  <1>4. /\ Idle.actor = None /\ Idle.asg = None /\ Idle.sch = None /\ Idle.targets = {}
    BY DEF Idle
  <1> QED
    BY <1>1, <1>2, <1>3, <1>4 DEF Shape, Legal

\* The statements that are left, with and without a branch in front of them.
LEMMA Rest ==
    ASSUME NEW s \in Seq(Steps), s # <<>>, NEW b \in Seq(Steps)
    PROVE  /\ Tail(s) \in Seq(Steps) /\ b \o Tail(s) \in Seq(Steps)
           /\ \A i \in DOMAIN Tail(s) : i + 1 \in DOMAIN s /\ Tail(s)[i] = s[i + 1]
           /\ \A i \in DOMAIN (b \o Tail(s)) :
                 \/ i \in DOMAIN b /\ (b \o Tail(s))[i] = b[i]
                 \/ \E j \in DOMAIN s : (b \o Tail(s))[i] = s[j]
  <1>1. /\ Tail(s) \in Seq(Steps) /\ Len(Tail(s)) = Len(s) - 1
        /\ \A i \in 1 .. Len(Tail(s)) : Tail(s)[i] = s[i + 1]
    BY HeadTailProperties
  <1>2. /\ b \o Tail(s) \in Seq(Steps) /\ Len(b \o Tail(s)) = Len(b) + Len(Tail(s))
        /\ \A i \in 1 .. Len(b) + Len(Tail(s)) :
              (b \o Tail(s))[i] = IF i <= Len(b) THEN b[i] ELSE Tail(s)[i - Len(b)]
    BY <1>1, ConcatProperties
  <1>3. /\ Len(s) \in Nat /\ Len(b) \in Nat /\ DOMAIN s = 1 .. Len(s) /\ DOMAIN b = 1 .. Len(b)
        /\ DOMAIN Tail(s) = 1 .. Len(Tail(s))
        /\ DOMAIN (b \o Tail(s)) = 1 .. Len(b \o Tail(s))
    BY <1>1, <1>2
  <1>4. \A i \in DOMAIN Tail(s) : i + 1 \in DOMAIN s /\ Tail(s)[i] = s[i + 1]
    BY <1>1, <1>3
  <1>5. ASSUME NEW i \in DOMAIN (b \o Tail(s))
        PROVE  \/ i \in DOMAIN b /\ (b \o Tail(s))[i] = b[i]
               \/ \E j \in DOMAIN s : (b \o Tail(s))[i] = s[j]
    <2>1. CASE i <= Len(b)
      BY <1>2, <1>3, <2>1
    <2>2. CASE ~(i <= Len(b))
      <3>1. i - Len(b) \in DOMAIN Tail(s) /\ (b \o Tail(s))[i] = Tail(s)[i - Len(b)]
        BY <1>1, <1>2, <1>3, <2>2
      <3> QED
        BY <1>4, <3>1
    <2> QED
      BY <2>1, <2>2
  <1> QED
    BY <1>1, <1>2, <1>4, <1>5

Confirms(p) == \E i \in DOMAIN p.todo : p.todo[i] = "confirm"

\* A request starts, goes on, or ends.
Starts(r) ==
    /\ proc' = [proc EXCEPT ![r] = proc'[r]]
    /\ proc[r] = Idle
    /\ proc'[r].seen = [status |-> booking.status, version |-> booking.version]
    /\ ~Confirms(proc'[r])
    /\ UNCHANGED <<db, writes>>

GoesOn(r) ==
    /\ proc' = [proc EXCEPT ![r] = proc'[r]]
    /\ proc[r].todo # <<>>
    /\ proc'[r].seen = proc[r].seen /\ proc'[r].op = proc[r].op
    /\ proc'[r].actor = proc[r].actor

\* ... without a new proposal to confirm.
KeepsProposal(r) ==
    proc'[r].sch = proc[r].sch /\ (Confirms(proc'[r]) => Confirms(proc[r]))

\* A statement without a branch.
LEMMA Advances ==
    ASSUME Processes, NEW r \in Requests, proc[r].todo # <<>>, Advance(r)
    PROVE  Processes' /\ GoesOn(r) /\ KeepsProposal(r)
  <1>1. /\ proc' = [proc EXCEPT ![r] = [proc[r] EXCEPT !.todo = Tail(proc[r].todo)]]
        /\ Shape(proc[r]) /\ Legal(proc[r])
    BY DEF Advance, Processes
  <1>2. /\ Tail(proc[r].todo) \in Seq(Steps)
        /\ \A i \in DOMAIN Tail(proc[r].todo) :
              \E j \in DOMAIN proc[r].todo : Tail(proc[r].todo)[i] = proc[r].todo[j]
    <2>1. proc[r].todo \in Seq(Steps)
      BY <1>1 DEF Shape
    <2> QED
      BY <2>1, Rest
  <1>3. proc'[r] = [proc[r] EXCEPT !.todo = Tail(proc[r].todo)]
    BY <1>1 DEF Processes
  <1>4. /\ \A x \in Fields \ {"todo"} : proc'[r][x] = proc[r][x]
        /\ proc'[r].todo = Tail(proc[r].todo)
        /\ DOMAIN proc'[r] = Fields /\ proc'[r] = [x \in Fields |-> proc'[r][x]]
    BY <1>1, <1>3 DEF Shape, Fields
  <1>5. Shape(proc'[r])
    BY <1>1, <1>2, <1>4 DEF Shape, Fields
  <1>6. Legal(proc'[r])
    BY <1>1, <1>2, <1>4 DEF Legal, Fields
  <1>7. \A q \in Requests \ {r} : proc'[q] = proc[q]
    BY <1>1
  <1>8. Processes'
    BY <1>1, <1>5, <1>6, <1>7 DEF Processes
  <1>9. GoesOn(r)
    BY <1>1, <1>3, <1>4 DEF GoesOn, Fields
  <1>10. KeepsProposal(r)
    <2>1. proc'[r].sch = proc[r].sch /\ proc'[r].todo = Tail(proc[r].todo)
      BY <1>4 DEF Fields
    <2> QED
      BY <1>2, <2>1 DEF KeepsProposal, Confirms
  <1> QED
    BY <1>8, <1>9, <1>10

\* A branch whose statements are about what the request already knows.
LEMMA Continues ==
    ASSUME Processes, NEW r \in Requests, proc[r].todo # <<>>,
           NEW changes, NEW branch \in Seq(Steps), Continue(r, changes, branch),
           DOMAIN changes \subseteq {"asg", "asgSeen", "sch", "targets"},
           "asg" \in DOMAIN changes => changes["asg"] \in Assignments \cup {None},
           "sch" \in DOMAIN changes => changes["sch"] \in Schedules \cup {None},
           "targets" \in DOMAIN changes => changes["targets"] \subseteq Schedules,
           \A i \in DOMAIN branch :
              /\ branch[i] = "transition" =>
                    Machine!CanTransition(proc[r].seen.status, ToStatus[proc[r].op])
              /\ branch[i] \notin {"readPending", "findPending"}
    PROVE  /\ Processes' /\ GoesOn(r)
           /\ \A x \in {"asg", "sch", "targets"} :
                 proc'[r][x] = IF x \in DOMAIN changes THEN changes[x] ELSE proc[r][x]
           /\ (\A i \in DOMAIN branch : branch[i] # "confirm") =>
                 (Confirms(proc'[r]) => Confirms(proc[r]))
  <1> DEFINE rest == branch \o Tail(proc[r].todo)
  <1>1. Shape(proc[r]) /\ Legal(proc[r]) /\ DOMAIN Idle = Fields
    BY IdleShape DEF Processes
  <1>2. /\ rest \in Seq(Steps)
        /\ \A i \in DOMAIN rest : \/ i \in DOMAIN branch /\ rest[i] = branch[i]
                                  \/ \E j \in DOMAIN proc[r].todo : rest[i] = proc[r].todo[j]
    <2>1. proc[r].todo \in Seq(Steps)
      BY <1>1 DEF Shape
    <2> QED
      BY <2>1, Rest DEF rest
  <1> HIDE DEF rest
  <1>3. proc' = [proc EXCEPT ![r] = [x \in Fields |->
            CASE x = "todo" -> rest
              [] x \in DOMAIN changes -> changes[x]
              [] OTHER -> proc[r][x]]]
    BY <1>1 DEF Continue, rest
  <1>4. /\ proc'[r] = [x \in Fields |->
            CASE x = "todo" -> rest
              [] x \in DOMAIN changes -> changes[x]
              [] OTHER -> proc[r][x]]
        /\ \A q \in Requests \ {r} : proc'[q] = proc[q]
        /\ proc' = [q \in Requests |-> proc'[q]]
        /\ proc' = [proc EXCEPT ![r] = proc'[r]]
    BY <1>3 DEF Processes
  <1>5. /\ DOMAIN proc'[r] = Fields /\ proc'[r] = [x \in Fields |-> proc'[r][x]]
        /\ proc'[r].todo = rest
        /\ \A x \in {"op", "actor", "seen", "chosen"} : proc'[r][x] = proc[r][x]
        /\ \A x \in {"asg", "sch", "targets"} :
              proc'[r][x] = IF x \in DOMAIN changes THEN changes[x] ELSE proc[r][x]
    BY <1>4 DEF Fields
  <1>6. proc'[r].op = proc[r].op /\ proc'[r].actor = proc[r].actor /\ proc'[r].seen = proc[r].seen
    BY <1>5
  <1>7. Shape(proc'[r])
    BY <1>1, <1>2, <1>5, <1>6 DEF Shape
  <1>8. Legal(proc'[r])
    BY <1>1, <1>2, <1>5, <1>6 DEF Legal
  <1>9. Processes'
    BY <1>4, <1>7, <1>8 DEF Processes
  <1> QED
    <2>1. GoesOn(r)
      BY <1>4, <1>6 DEF GoesOn
    <2>2. (\A i \in DOMAIN branch : branch[i] # "confirm") =>
             (Confirms(proc'[r]) => Confirms(proc[r]))
      BY <1>2, <1>5 DEF Confirms
    <2> QED
      BY <1>5, <1>9, <2>1, <2>2

\* A program that reads nothing before its transaction but the booking.
LEMMA Begins ==
    ASSUME Processes, NEW r \in Requests, NEW op, op # "none", NEW a \in Parties,
           NEW fields, NEW program \in Seq(Steps), Begin(r, op, a, fields, program),
           DOMAIN fields \subseteq {"chosen", "asg", "sch"},
           "asg" \in DOMAIN fields => fields["asg"] \in Assignments,
           "sch" \in DOMAIN fields => fields["sch"] = None,
           \A i \in DOMAIN program :
              /\ program[i] = "transition" => Machine!CanTransition(booking.status, ToStatus[op])
              /\ program[i] = "readPending" => op = "confirm"
              /\ program[i] = "findPending" => a \in Providers
              /\ program[i] # "confirm"
    PROVE  Processes' /\ Starts(r)
  <1>1. DOMAIN Idle = Fields /\ Idle.asg = None /\ Idle.sch = None /\ Idle.targets = {}
    BY IdleShape DEF Idle
  <1>2. /\ proc[r] = Idle /\ UNCHANGED <<db, writes>>
        /\ proc' = [proc EXCEPT ![r] = [x \in Fields |->
               CASE x = "op" -> op
                 [] x = "actor" -> a
                 [] x = "seen" -> [status |-> booking.status, version |-> booking.version]
                 [] x = "todo" -> program
                 [] x \in DOMAIN fields -> fields[x]
                 [] OTHER -> Idle[x]]]
    BY <1>1 DEF Begin
  <1>3. /\ proc'[r] = [x \in Fields |->
               CASE x = "op" -> op
                 [] x = "actor" -> a
                 [] x = "seen" -> [status |-> booking.status, version |-> booking.version]
                 [] x = "todo" -> program
                 [] x \in DOMAIN fields -> fields[x]
                 [] OTHER -> Idle[x]]
        /\ \A q \in Requests \ {r} : proc'[q] = proc[q]
        /\ proc' = [q \in Requests |-> proc'[q]]
        /\ proc' = [proc EXCEPT ![r] = proc'[r]]
    BY <1>2 DEF Processes
  <1>4. /\ DOMAIN proc'[r] = Fields /\ proc'[r] = [x \in Fields |-> proc'[r][x]]
        /\ proc'[r].op = op /\ proc'[r].actor = a /\ proc'[r].todo = program
        /\ proc'[r].seen = [status |-> booking.status, version |-> booking.version]
        /\ proc'[r].asg \in Assignments \cup {None}
        /\ proc'[r].sch \in Schedules \cup {None}
        /\ proc'[r].targets = {}
    BY <1>1, <1>3 DEF Fields
  <1>5. Shape(proc'[r])
    BY <1>4 DEF Shape
  <1>6. Legal(proc'[r])
    BY <1>4 DEF Legal
  <1>7. Processes'
    BY <1>3, <1>5, <1>6 DEF Processes
  <1> QED
    BY <1>2, <1>3, <1>4, <1>7 DEF Starts, Confirms

\* A request ends.
LEMMA Ends ==
    ASSUME Processes, NEW r \in Requests, proc' = [proc EXCEPT ![r] = Idle]
    PROVE  Processes' /\ proc'[r] = Idle /\ \A q \in Requests \ {r} : proc'[q] = proc[q]
  BY IdleShape DEF Processes

-----------------------------------------------------------------------------
(* The rows. *)

IsBooking(row) ==
    row = [status |-> row.status, version |-> row.version, quotedBy |-> row.quotedBy,
           date |-> row.date, trail |-> row.trail]

OtherSides(a, b) == (a = Customer) # (b = Customer)
TwoSides(row) == row.confirmedBy # None => OtherSides(row.by, row.confirmedBy)

\* What is committed, and what is not: a schedule keeps who proposed it.
Committed ==
    /\ IsBooking(booking)
    /\ \A s \in Schedules : db[s] \in ScheduleRecord /\ TwoSides(db[s])

Pending ==
    /\ writes = [r \in Requests |-> writes[r]]
    /\ \A r \in Requests :
          /\ proc[r] = Idle => DOMAIN writes[r] = {}
          /\ BookingRow \in DOMAIN writes[r] => IsBooking(writes[r][BookingRow])
          /\ \A s \in Schedules \cap DOMAIN writes[r] :
                /\ writes[r][s] \in ScheduleRecord /\ writes[r][s].status # "FREE"
                /\ TwoSides(writes[r][s])
                /\ db[s].status # "FREE" => writes[r][s].by = db[s].by

\* No row is written by two transactions at once.
RowsAreLocked ==
    \A r, q \in Requests : r # q => DOMAIN writes[r] \cap DOMAIN writes[q] = {}

\* An uncommitted change of status was decided on the booking that is committed still.
Decided ==
    \A r \in Requests : BookingRow \in DOMAIN writes[r] =>
        \/ /\ writes[r][BookingRow].status = booking.status
           /\ writes[r][BookingRow].version = booking.version
        \/ /\ proc[r].seen = [status |-> booking.status, version |-> booking.version]
           /\ Machine!CanTransition(booking.status, writes[r][BookingRow].status)

\* The proposal a request is about to confirm is the other side's.
AnswersTo(p, held, rows) ==
    Confirms(p) =>
        LET row == IF p.sch \in DOMAIN held THEN held[p.sch] ELSE rows[p.sch]
        IN p.sch \in Schedules /\ row.status # "FREE" /\ OtherSides(row.by, p.actor)

Answers(r) == AnswersTo(proc[r], writes[r], db)

Answering == \A r \in Requests : Answers(r)

IInv == Processes /\ Committed /\ Pending /\ RowsAreLocked /\ Decided /\ Answering

-----------------------------------------------------------------------------
(* The kinds of steps. *)

\* A handler has read the booking.
LEMMA Started ==
    ASSUME IInv, NEW r \in Requests, Starts(r), Processes'
    PROVE  IInv'
  <1>1. /\ \A q \in Requests \ {r} : proc'[q] = proc[q]
        /\ DOMAIN writes[r] = {}
    BY DEF IInv, Processes, Pending, Starts
  <1>2. Committed' /\ RowsAreLocked'
    BY DEF IInv, Starts, Committed, RowsAreLocked, booking
  <1>3. Pending'
    BY <1>1 DEF IInv, Starts, Pending
  <1>4. Decided'
    BY <1>1 DEF IInv, Starts, Decided, booking
  <1>5. Answering'
    <2> SUFFICES ASSUME NEW q \in Requests PROVE Answers(q)'
      BY DEF Answering
    <2>1. CASE q = r
      BY <2>1 DEF Starts, Answers, AnswersTo
    <2>2. CASE q # r
      BY <1>1, <2>2 DEF IInv, Starts, Answering, Answers
    <2> QED
      BY <2>1, <2>2
  <1> QED
    BY <1>2, <1>3, <1>4, <1>5 DEF IInv

\* A statement that only reads.
LEMMA ReadOnly ==
    ASSUME IInv, NEW r \in Requests, GoesOn(r), Processes', UNCHANGED <<db, writes>>,
           Answers(r)'
    PROVE  IInv'
  <1>1. /\ \A q \in Requests \ {r} : proc'[q] = proc[q]
        /\ proc[r] # Idle
    BY DEF IInv, Processes, GoesOn, Idle
  <1>2. Committed' /\ RowsAreLocked'
    BY DEF IInv, Committed, RowsAreLocked, booking
  <1>3. proc'[r] # Idle
    <2>1. proc'[r].op # "none"
      BY DEF IInv, GoesOn, Processes, Shape
    <2> QED
      BY <2>1 DEF Idle
  <1>4. Pending'
    BY <1>1, <1>3 DEF IInv, Pending
  <1>5. Decided'
    BY <1>1 DEF IInv, GoesOn, Decided, booking
  <1>6. Answering'
    <2> SUFFICES ASSUME NEW q \in Requests, q # r PROVE Answers(q)'
      BY DEF Answering
    <2> QED
      BY <1>1 DEF IInv, Answering, Answers
  <1> QED
    BY <1>2, <1>4, <1>5, <1>6 DEF IInv

\* A transaction that ends without its writes.
LEMMA RolledBack ==
    ASSUME IInv, NEW r \in Requests, Rollback(r)
    PROVE  IInv'
  <1>1. Processes' /\ proc'[r] = Idle /\ \A q \in Requests \ {r} : proc'[q] = proc[q]
    BY Ends DEF IInv, Rollback
  <1>2. /\ writes' = [q \in Requests |-> writes'[q]] /\ DOMAIN writes'[r] = {}
        /\ \A q \in Requests \ {r} : writes'[q] = writes[q]
        /\ db' = db
    BY DEF IInv, Pending, Rollback, NoWrites
  <1>3. Committed' /\ RowsAreLocked'
    BY <1>2 DEF IInv, Committed, RowsAreLocked, booking
  <1>4. Pending'
    BY <1>1, <1>2 DEF IInv, Pending
  <1>5. Decided'
    BY <1>1, <1>2 DEF IInv, Decided, booking
  <1>6. ~Confirms(proc'[r])
    BY <1>1 DEF Confirms, Idle
  <1>7. Answering'
    <2> SUFFICES ASSUME NEW q \in Requests PROVE Answers(q)'
      BY DEF Answering
    <2>1. CASE q = r
      BY <1>6, <2>1 DEF Answers, AnswersTo
    <2>2. CASE q # r
      BY <1>1, <1>2, <2>2 DEF IInv, Answering, Answers
    <2> QED
      BY <2>1, <2>2
  <1> QED
    BY <1>1, <1>3, <1>4, <1>5, <1>7 DEF IInv

\* A statement that writes rows it has locked, or that are new.
LEMMA Written ==
    ASSUME IInv, NEW r \in Requests, GoesOn(r), KeepsProposal(r), Processes', NEW W, Put(r, W),
           UNCHANGED db,
           \A q \in Requests \ {r} : DOMAIN W \cap DOMAIN writes[q] = {},
           BookingRow \in DOMAIN W =>
              /\ IsBooking(W[BookingRow])
              /\ \/ /\ W[BookingRow].status = View(r, BookingRow).status
                    /\ W[BookingRow].version = View(r, BookingRow).version
                 \/ /\ proc[r].seen = [status |-> booking.status, version |-> booking.version]
                    /\ Machine!CanTransition(booking.status, W[BookingRow].status),
           \A s \in Schedules \cap DOMAIN W :
              /\ W[s] \in ScheduleRecord /\ W[s].status # "FREE" /\ TwoSides(W[s])
              /\ View(r, s).status # "FREE" => W[s].by = View(r, s).by
    PROVE  IInv'
  <1>1. /\ \A q \in Requests \ {r} : proc'[q] = proc[q]
        /\ proc[r] # Idle
    BY DEF IInv, Processes, GoesOn, Idle
  <1>2. proc'[r] # Idle
    <2>1. proc'[r].op # "none"
      BY DEF IInv, GoesOn, Processes, Shape
    <2> QED
      BY <2>1 DEF Idle
  <1>3. /\ writes' = [q \in Requests |-> writes'[q]]
        /\ \A q \in Requests \ {r} : writes'[q] = writes[q]
        /\ DOMAIN writes'[r] = DOMAIN writes[r] \cup DOMAIN W
        /\ \A x \in DOMAIN writes'[r] :
              writes'[r][x] = IF x \in DOMAIN W THEN W[x] ELSE writes[r][x]
    BY DEF IInv, Pending, Put
  <1>4. Committed'
    BY DEF IInv, Committed, booking
  <1>5. RowsAreLocked'
    BY <1>3 DEF IInv, RowsAreLocked
  <1>6. Pending'
    <2>1. \A s \in Schedules \cap DOMAIN W : db[s].status # "FREE" => W[s].by = db[s].by
      BY DEF IInv, Pending, View
    <2>2. BookingRow \in DOMAIN writes'[r] => IsBooking(writes'[r][BookingRow])
      BY <1>3 DEF IInv, Pending
    <2>3. ASSUME NEW s \in Schedules \cap DOMAIN writes'[r]
          PROVE  /\ writes'[r][s] \in ScheduleRecord /\ writes'[r][s].status # "FREE"
                 /\ TwoSides(writes'[r][s])
                 /\ db[s].status # "FREE" => writes'[r][s].by = db[s].by
      <3>1. CASE s \in DOMAIN W
        BY <1>3, <2>1, <3>1
      <3>2. CASE s \notin DOMAIN W
        BY <1>3, <3>2 DEF IInv, Pending
      <3> QED
        BY <3>1, <3>2
    <2> QED
      BY <1>1, <1>2, <1>3, <2>2, <2>3 DEF IInv, Pending
  <1>7. Decided'
    <2> SUFFICES ASSUME NEW q \in Requests, BookingRow \in DOMAIN writes'[q]
                 PROVE  \/ /\ writes'[q][BookingRow].status = booking.status
                           /\ writes'[q][BookingRow].version = booking.version
                        \/ /\ proc'[q].seen = [status |-> booking.status,
                                               version |-> booking.version]
                           /\ Machine!CanTransition(booking.status, writes'[q][BookingRow].status)
      BY DEF Decided, booking
    <2>1. CASE q # r
      BY <1>1, <1>3, <2>1 DEF IInv, Decided
    <2>2. CASE q = r /\ BookingRow \notin DOMAIN W
      BY <1>3, <2>2 DEF IInv, Decided, GoesOn
    <2>3. CASE q = r /\ BookingRow \in DOMAIN W
      <3>1. writes'[r][BookingRow] = W[BookingRow] /\ proc'[r].seen = proc[r].seen
        BY <1>3, <2>3 DEF GoesOn
      <3>2. CASE /\ W[BookingRow].status = View(r, BookingRow).status
                 /\ W[BookingRow].version = View(r, BookingRow).version
        BY <2>3, <3>1, <3>2 DEF IInv, Decided, View, booking
      <3> QED
        BY <2>3, <3>1, <3>2
    <2> QED
      BY <2>1, <2>2, <2>3
  <1>8. Answering'
    <2> SUFFICES ASSUME NEW q \in Requests PROVE Answers(q)'
      BY DEF Answering
    <2>1. CASE q # r
      BY <1>1, <1>3, <2>1 DEF IInv, Answering, Answers
    <2>2. CASE q = r
      <3> DEFINE s == proc[r].sch
      <3> SUFFICES ASSUME Confirms(proc'[r])
                   PROVE  /\ s \in Schedules
                          /\ LET row == IF s \in DOMAIN writes'[r] THEN writes'[r][s] ELSE db[s]
                             IN row.status # "FREE" /\ OtherSides(row.by, proc[r].actor)
        BY <2>2 DEF Answers, AnswersTo, KeepsProposal, GoesOn
      <3>1. s \in Schedules /\ View(r, s).status # "FREE" /\ OtherSides(View(r, s).by, proc[r].actor)
        BY DEF IInv, Answering, Answers, AnswersTo, KeepsProposal, View
      <3> HIDE DEF s
      <3>2. CASE s \in DOMAIN W
        <4>1. s \in DOMAIN writes'[r] /\ writes'[r][s] = W[s]
          BY <1>3, <3>2
        <4>2. W[s].status # "FREE" /\ W[s].by = View(r, s).by
          BY <3>1, <3>2
        <4> QED
          BY <3>1, <4>1, <4>2
      <3>3. CASE s \notin DOMAIN W
        <4>1. (IF s \in DOMAIN writes'[r] THEN writes'[r][s] ELSE db[s]) = View(r, s)
          BY <1>3, <3>3 DEF View
        <4> QED
          BY <3>1, <4>1
      <3> QED
        BY <3>2, <3>3
    <2> QED
      BY <2>1, <2>2
  <1> QED
    BY <1>4, <1>5, <1>6, <1>7, <1>8 DEF IInv

\* A transaction ends with its writes.
LEMMA Commits ==
    ASSUME IInv, NEW r \in Requests, Commit(r)
    PROVE  /\ IInv' /\ proc'[r] = Idle /\ \A q \in Requests \ {r} : proc'[q] = proc[q]
           /\ booking' = View(r, BookingRow)
  <1>1. Processes' /\ proc'[r] = Idle /\ \A q \in Requests \ {r} : proc'[q] = proc[q]
    BY Ends DEF IInv, Commit
  <1>2. /\ writes' = [q \in Requests |-> writes'[q]] /\ DOMAIN writes'[r] = {}
        /\ \A q \in Requests \ {r} : writes'[q] = writes[q]
        /\ \A x \in Rows : db'[x] = View(r, x)
    BY DEF IInv, Pending, Commit, NoWrites
  <1>3. /\ booking' = View(r, BookingRow)
        /\ \A s \in Schedules : db'[s] = View(r, s)
    BY <1>2 DEF booking, Rows
  <1>4. Committed'
    <2>1. IsBooking(booking')
      BY <1>3 DEF IInv, Committed, Pending, View, booking
    <2>2. \A s \in Schedules : db'[s] \in ScheduleRecord /\ TwoSides(db'[s])
      BY <1>3 DEF IInv, Committed, Pending, View
    <2> QED
      BY <2>1, <2>2 DEF Committed
  <1>5. RowsAreLocked'
    BY <1>2 DEF IInv, RowsAreLocked
  <1>6. \A q \in Requests \ {r} : \A x \in Rows \cap DOMAIN writes[q] : db'[x] = db[x]
    BY <1>2 DEF IInv, RowsAreLocked, View
  <1>7. Pending'
    BY <1>1, <1>2, <1>6 DEF IInv, Pending, Rows
  <1>8. Decided'
    <2>1. \A q \in Requests \ {r} : BookingRow \in DOMAIN writes[q] => booking' = booking
      BY <1>6 DEF booking, Rows
    <2> QED
      BY <1>1, <1>2, <2>1 DEF IInv, Decided
  <1>9. Answering'
    <2> SUFFICES ASSUME NEW q \in Requests PROVE Answers(q)'
      BY DEF Answering
    <2>1. CASE q = r
      BY <1>1, <2>1 DEF Answers, AnswersTo, Confirms, Idle
    <2>2. CASE q # r
      <3> DEFINE s == proc[q].sch
      <3> SUFFICES ASSUME Confirms(proc[q])
                   PROVE  /\ s \in Schedules
                          /\ LET row == IF s \in DOMAIN writes[q] THEN writes[q][s] ELSE db'[s]
                             IN row.status # "FREE" /\ OtherSides(row.by, proc[q].actor)
        BY <1>1, <1>2, <2>2 DEF Answers, AnswersTo
      <3>1. s \in Schedules /\ View(q, s).status # "FREE" /\ OtherSides(View(q, s).by, proc[q].actor)
        BY DEF IInv, Answering, Answers, AnswersTo, View
      <3> HIDE DEF s
      <3>2. CASE s \in DOMAIN writes[q]
        BY <3>1, <3>2 DEF View
      <3>3. CASE s \notin DOMAIN writes[q]
        <4>1. View(q, s) = db[s] /\ db'[s] = View(r, s)
          BY <1>3, <3>1, <3>3 DEF View
        <4>2. View(r, s).status # "FREE" /\ View(r, s).by = db[s].by
          BY <3>1, <4>1 DEF IInv, Pending, View
        <4> QED
          BY <3>1, <3>3, <4>1, <4>2
      <3> QED
        BY <3>2, <3>3
    <2> QED
      BY <2>1, <2>2
  <1> QED
    BY <1>1, <1>3, <1>4, <1>5, <1>7, <1>8, <1>9 DEF IInv

-----------------------------------------------------------------------------
(* The statements. *)

\* What a request sees has the columns of its table.
LEMMA Seen ==
    ASSUME IInv, NEW r \in Requests
    PROVE  /\ IsBooking(View(r, BookingRow))
           /\ \A s \in Schedules : View(r, s) \in ScheduleRecord /\ TwoSides(View(r, s))
  BY DEF IInv, Committed, Pending, View, booking

\* transitionStatus: the locked booking row is the one the handler read.
LEMMA TransitionStep ==
    ASSUME IInv, NEW r \in Requests, TransitionStatus(r)
    PROVE  IInv'
  <1>1. /\ proc[r].todo # <<>> /\ Head(proc[r].todo) = "transition" /\ VersionMatches(r)
        /\ Advance(r) /\ UNCHANGED db
    BY DEF TransitionStatus, Ready, At
  <1>2. Processes' /\ GoesOn(r) /\ KeepsProposal(r)
    BY <1>1, Advances DEF IInv
  <1>3. RowsNeeded(r) = {BookingRow}
    BY <1>1 DEF RowsNeeded, At
  <1>4. \A q \in Requests \ {r} : BookingRow \notin DOMAIN writes[q]
    BY <1>3 DEF TransitionStatus, Ready, Blockers
  <1>5. Machine!CanTransition(proc[r].seen.status, ToStatus[proc[r].op])
    <2>1. Legal(proc[r]) /\ proc[r].todo \in Seq(Steps)
      BY DEF IInv, Processes, Shape
    <2>2. 1 \in DOMAIN proc[r].todo /\ proc[r].todo[1] = "transition"
      BY <1>1, <2>1, HeadTailProperties
    <2> QED
      BY <2>1, <2>2 DEF Legal
  <1>6. proc[r].seen = [status |-> booking.status, version |-> booking.version]
    <2>1. CASE BookingRow \in DOMAIN writes[r]
      BY <1>1, <2>1 DEF IInv, Decided, VersionMatches, View, Processes, Shape
    <2>2. CASE BookingRow \notin DOMAIN writes[r]
      BY <1>1, <2>2 DEF IInv, VersionMatches, View, booking, Processes, Shape
    <2> QED
      BY <2>1, <2>2
  <1> DEFINE to == ToStatus[proc[r].op]
             old == View(r, BookingRow)
             new == [old EXCEPT !.status = to, !.version = @ + 1, !.trail = Append(@, to),
                                !.quotedBy = IF proc[r].op = "reject" THEN None ELSE @]
             W == [x \in {BookingRow} |-> new]
  <1>7. Put(r, W)
    BY DEF TransitionStatus
  <1>8. IsBooking(new) /\ new.status = to
    <2>1. IsBooking(old)
      BY Seen
    <2> HIDE DEF old, to
    <2>2. DOMAIN old = {"status", "version", "quotedBy", "date", "trail"}
      BY <2>1 DEF IsBooking
    <2>3. DOMAIN new = DOMAIN old /\ new = [x \in DOMAIN old |-> new[x]] /\ new.status = to
      BY <2>2
    <2> HIDE DEF new
    <2> QED
      BY <2>2, <2>3 DEF IsBooking
  <1>9. Machine!CanTransition(booking.status, to)
    BY <1>5, <1>6
  <1>10. DOMAIN W = {BookingRow} /\ W[BookingRow] = new /\ BookingRow \notin Schedules
    BY TransactionsAssumption
  <1> HIDE DEF W, new, to
  <1> QED
    BY <1>1, <1>2, <1>4, <1>6, <1>7, <1>8, <1>9, <1>10, Written

\* createAssignment takes a row that nobody uses.
LEMMA CreateAssignmentStep ==
    ASSUME IInv, NEW r \in Requests, CreateAssignment(r)
    PROVE  IInv'
  <1>1. /\ proc[r].todo # <<>> /\ Advance(r) /\ UNCHANGED db
    BY DEF CreateAssignment, Ready, At
  <1>2. Processes' /\ GoesOn(r) /\ KeepsProposal(r)
    BY <1>1, Advances DEF IInv
  <1>3. PICK new \in Fresh(Assignments) :
           Put(r, [x \in {new} |-> [status |-> "PENDING", provider |-> proc[r].chosen]])
    BY DEF CreateAssignment, Insert
  <1>4. /\ new \notin Schedules /\ new # BookingRow
        /\ \A q \in Requests : new \notin DOMAIN writes[q]
    BY TransactionsAssumption DEF Fresh
  <1> DEFINE W == [x \in {new} |-> [status |-> "PENDING", provider |-> proc[r].chosen]]
  <1>5. Put(r, W) /\ DOMAIN W = {new}
    BY <1>3
  <1> HIDE DEF W
  <1> QED
    BY <1>1, <1>2, <1>4, <1>5, Written

\* closeAssignment, with its row locked.
LEMMA AnswerStep ==
    ASSUME IInv, NEW r \in Requests, CloseAssignment(r) \/ WithdrawAssignment(r)
    PROVE  IInv'
  <1>1. proc[r].todo # <<>> /\ Advance(r) /\ UNCHANGED db
    BY DEF CloseAssignment, WithdrawAssignment, Ready, At
  <1>2. Processes' /\ GoesOn(r) /\ KeepsProposal(r)
    BY <1>1, Advances DEF IInv
  <1>3. CASE UNCHANGED writes
    BY <1>1, <1>2, <1>3, ReadOnly
       DEF IInv, Answering, Answers, AnswersTo, KeepsProposal, GoesOn
  <1>4. CASE ~UNCHANGED writes
    <2> DEFINE a == proc[r].asg
               W == [x \in {a} |-> [View(r, a) EXCEPT !.status = ToAnswer[proc[r].op]]]
    <2>1. Put(r, W) /\ DOMAIN W = {a}
      BY <1>4 DEF CloseAssignment, WithdrawAssignment
    <2>2. RowsNeeded(r) = {a}
      <3>1. CASE CloseAssignment(r)
        BY <3>1 DEF CloseAssignment, Ready, RowsNeeded, At
      <3>2. CASE WithdrawAssignment(r)
        BY <1>4, <3>2 DEF WithdrawAssignment, Ready, RowsNeeded, At
      <3> QED
        BY <3>1, <3>2
    <2>3. \A q \in Requests \ {r} : a \notin DOMAIN writes[q]
      BY <2>2 DEF CloseAssignment, WithdrawAssignment, Ready, Blockers
    <2>4. a \notin Schedules /\ a # BookingRow
      BY TransactionsAssumption DEF IInv, Processes, Shape
    <2> HIDE DEF W, a
    <2> QED
      BY <1>1, <1>2, <2>1, <2>3, <2>4, Written
  <1> QED
    BY <1>3, <1>4

\* supersedeOpenSchedules leaves who proposed a schedule alone.
LEMMA SupersedeStep ==
    ASSUME IInv, NEW r \in Requests, SupersedeRows(r)
    PROVE  IInv'
  <1> DEFINE open == {s \in proc[r].targets : View(r, s).status \in Open}
             W == [s \in open |-> [View(r, s) EXCEPT !.status = "SUPERSEDED"]]
  <1>1. /\ proc[r].todo # <<>> /\ Head(proc[r].todo) = "supersedeRows" /\ Blockers(r) = {}
        /\ Put(r, W) /\ UNCHANGED db
    BY DEF SupersedeRows, Ready, At
  <1>2. Continue(r, [targets |-> {}], <<>>)
    BY DEF SupersedeRows
  <1>3. Processes' /\ GoesOn(r) /\ KeepsProposal(r)
    <2> DEFINE changes == [targets |-> {}]
    <2>1. /\ DOMAIN changes = {"targets"} /\ changes["targets"] = {}
          /\ <<>> \in Seq(Steps) /\ DOMAIN <<>> = {}
      OBVIOUS
    <2>2. Continue(r, changes, <<>>)
      BY <1>2
    <2> HIDE DEF changes
    <2>3. /\ Processes' /\ GoesOn(r) /\ proc'[r]["sch"] = proc[r]["sch"]
          /\ Confirms(proc'[r]) => Confirms(proc[r])
      BY <1>1, <2>1, <2>2, Continues DEF IInv
    <2> QED
      BY <2>3 DEF KeepsProposal
  <1>4. RowsNeeded(r) = proc[r].targets
    BY <1>1 DEF RowsNeeded, At
  <1>5. proc[r].targets \subseteq Schedules
    BY DEF IInv, Processes, Shape
  <1>6. \A q \in Requests \ {r} : open \cap DOMAIN writes[q] = {}
    BY <1>1, <1>4 DEF Blockers
  <1>7. /\ DOMAIN W = open /\ BookingRow \notin open
        /\ \A s \in open : W[s] = [View(r, s) EXCEPT !.status = "SUPERSEDED"]
    BY <1>5, TransactionsAssumption
  <1>8. ASSUME NEW s \in open
        PROVE  /\ W[s] \in ScheduleRecord /\ W[s].status # "FREE" /\ TwoSides(W[s])
               /\ W[s].by = View(r, s).by
    BY <1>5, <1>7, Seen DEF ScheduleRecord, TwoSides
  <1> HIDE DEF W, open
  <1> QED
    BY <1>1, <1>3, <1>6, <1>7, <1>8, Written

\* The unconditional updates leave the status of the booking alone.
LEMMA UpdateStep ==
    ASSUME IInv, NEW r \in Requests,
           ClearConfirmedDate(r) \/ CopyConfirmedDate(r) \/ ApplyQuote(r)
    PROVE  IInv'
  <1>1. proc[r].todo # <<>> /\ Advance(r) /\ UNCHANGED db /\ Blockers(r) = {}
    BY DEF ClearConfirmedDate, CopyConfirmedDate, ApplyQuote, UpdateBooking, Ready, At
  <1>2. Processes' /\ GoesOn(r) /\ KeepsProposal(r)
    BY <1>1, Advances DEF IInv
  <1>3. RowsNeeded(r) = {BookingRow}
    BY DEF ClearConfirmedDate, CopyConfirmedDate, ApplyQuote, UpdateBooking, Ready, RowsNeeded, At
  <1>4. \A q \in Requests \ {r} : BookingRow \notin DOMAIN writes[q]
    BY <1>1, <1>3 DEF Blockers
  <1>5. PICK W : /\ Put(r, W) /\ DOMAIN W = {BookingRow}
                 /\ \/ W[BookingRow] = [View(r, BookingRow) EXCEPT !.date = None]
                    \/ W[BookingRow] = [View(r, BookingRow) EXCEPT !.date = proc[r].sch]
                    \/ W[BookingRow] = [View(r, BookingRow) EXCEPT !.quotedBy = proc[r].chosen]
    <2>1. \E row : /\ Put(r, [x \in {BookingRow} |-> row])
                   /\ \/ row = [View(r, BookingRow) EXCEPT !.date = None]
                      \/ row = [View(r, BookingRow) EXCEPT !.date = proc[r].sch]
                      \/ row = [View(r, BookingRow) EXCEPT !.quotedBy = proc[r].chosen]
      <3> DEFINE With(field, value) == [View(r, BookingRow) EXCEPT ![field] = value]
      <3>1. ASSUME NEW stmt, NEW field, NEW value, UpdateBooking(r, stmt, field, value)
            PROVE  Put(r, [x \in {BookingRow} |-> With(field, value)])
        <4>1. Put(r, [x \in {BookingRow} |-> [View(r, x) EXCEPT ![field] = value]])
          BY <3>1 DEF UpdateBooking
        <4>2. [x \in {BookingRow} |-> [View(r, x) EXCEPT ![field] = value]]
              = [x \in {BookingRow} |-> With(field, value)]
          OBVIOUS
        <4> HIDE DEF With
        <4> QED
          BY <4>1, <4>2
      <3>2. \/ Put(r, [x \in {BookingRow} |-> With("date", None)])
            \/ Put(r, [x \in {BookingRow} |-> With("date", proc[r].sch)])
            \/ Put(r, [x \in {BookingRow} |-> With("quotedBy", proc[r].chosen)])
        <4> HIDE DEF With
        <4> QED
          BY <3>1 DEF ClearConfirmedDate, CopyConfirmedDate, ApplyQuote
      <3> QED
        BY <3>2, Zenon
    <2>2. PICK row : /\ Put(r, [x \in {BookingRow} |-> row])
                     /\ \/ row = [View(r, BookingRow) EXCEPT !.date = None]
                        \/ row = [View(r, BookingRow) EXCEPT !.date = proc[r].sch]
                        \/ row = [View(r, BookingRow) EXCEPT !.quotedBy = proc[r].chosen]
      BY <2>1
    <2>3. WITNESS [x \in {BookingRow} |-> row]
    <2> QED
      BY <2>2
  <1>6. /\ IsBooking(W[BookingRow])
        /\ W[BookingRow].status = View(r, BookingRow).status
        /\ W[BookingRow].version = View(r, BookingRow).version
    BY <1>5, Seen DEF IsBooking
  <1> QED
    BY <1>1, <1>2, <1>4, <1>5, <1>6, Written, TransactionsAssumption

\* createSchedule: a new proposal has not been confirmed.
LEMMA CreateScheduleStep ==
    ASSUME IInv, NEW r \in Requests, CreateSchedule(r)
    PROVE  IInv'
  <1>1. proc[r].todo # <<>> /\ Advance(r) /\ UNCHANGED db
    BY DEF CreateSchedule, Ready, At
  <1>2. Processes' /\ GoesOn(r) /\ KeepsProposal(r)
    BY <1>1, Advances DEF IInv
  <1> DEFINE row == [status |-> "PENDING", by |-> proc[r].actor, confirmedBy |-> None]
  <1>3. PICK new \in Fresh(Schedules) : Put(r, [x \in {new} |-> row])
    BY DEF CreateSchedule, Insert
  <1>4. /\ new \in Schedules /\ new # BookingRow /\ View(r, new).status = "FREE"
        /\ \A q \in Requests : new \notin DOMAIN writes[q]
    BY TransactionsAssumption DEF Fresh, View
  <1>5. row \in ScheduleRecord /\ row.status # "FREE" /\ TwoSides(row)
    BY DEF IInv, Processes, Shape, ScheduleRecord, TwoSides
  <1> DEFINE W == [x \in {new} |-> row]
  <1>6. Put(r, W) /\ DOMAIN W = {new} /\ W[new] = row
    BY <1>3
  <1> HIDE DEF W, row
  <1> QED
    BY <1>1, <1>2, <1>4, <1>5, <1>6, Written

\* closeSchedule: the proposal is the one the request looked up, and the other side's.
LEMMA ConfirmStep ==
    ASSUME IInv, NEW r \in Requests, CloseSchedule(r)
    PROVE  IInv'
  <1> DEFINE s == proc[r].sch
             row == [View(r, s) EXCEPT !.status = "CONFIRMED", !.confirmedBy = proc[r].actor]
             W == [x \in {s} |-> row]
  <1>1. /\ proc[r].todo # <<>> /\ Head(proc[r].todo) = "confirm" /\ ConfirmMatches(r)
        /\ Blockers(r) = {} /\ Advance(r) /\ UNCHANGED db
    BY DEF CloseSchedule, Ready, At
  <1>2. Put(r, W)
    BY DEF CloseSchedule
  <1>3. Processes' /\ GoesOn(r) /\ KeepsProposal(r)
    BY <1>1, Advances DEF IInv
  <1>4. RowsNeeded(r) = {s}
    BY <1>1 DEF RowsNeeded, At
  <1>5. \A q \in Requests \ {r} : s \notin DOMAIN writes[q]
    BY <1>1, <1>4 DEF Blockers
  <1>6. Confirms(proc[r])
    <2>1. proc[r].todo \in Seq(Steps)
      BY DEF IInv, Processes, Shape
    <2>2. 1 \in DOMAIN proc[r].todo /\ proc[r].todo[1] = "confirm"
      BY <1>1, <2>1, HeadTailProperties
    <2> QED
      BY <2>2 DEF Confirms
  <1>7. s \in Schedules /\ View(r, s).status # "FREE" /\ OtherSides(View(r, s).by, proc[r].actor)
    BY <1>6 DEF IInv, Answering, Answers, AnswersTo, View
  <1>8. View(r, s) \in ScheduleRecord /\ proc[r].actor \in Parties \cup {None}
    BY <1>7, Seen DEF IInv, Processes, Shape
  <1>9. /\ row \in ScheduleRecord /\ row.status # "FREE" /\ TwoSides(row)
        /\ row.by = View(r, s).by
    BY <1>7, <1>8 DEF ScheduleRecord, TwoSides
  <1>10. DOMAIN W = {s} /\ W[s] = row /\ s # BookingRow
    BY <1>7, TransactionsAssumption
  <1> HIDE DEF W, row, s
  <1> QED
    BY <1>1, <1>2, <1>3, <1>5, <1>9, <1>10, Written

-----------------------------------------------------------------------------
(* The handlers start. *)

\* Programs of the handlers, and what they need to be started.
LEMMA Programs ==
    ASSUME IInv, NEW r \in Requests, NEW op, op # "none", NEW a \in Parties,
           NEW fields, NEW program \in Seq(Steps), Begin(r, op, a, fields, program),
           \/ \E x : fields = [chosen |-> x]
           \/ fields = [sch |-> None]
           \/ \E x \in Assignments : fields = [asg |-> x],
           \A i \in DOMAIN program :
              /\ program[i] = "transition" => Machine!CanTransition(booking.status, ToStatus[op])
              /\ program[i] = "readPending" => op = "confirm"
              /\ program[i] = "findPending" => a \in Providers
              /\ program[i] # "confirm"
    PROVE  IInv'
  <1>1. /\ DOMAIN fields \subseteq {"chosen", "asg", "sch"}
        /\ "asg" \in DOMAIN fields => fields["asg"] \in Assignments
        /\ "sch" \in DOMAIN fields => fields["sch"] = None
    OBVIOUS
  <1>2. Processes' /\ Starts(r)
    BY <1>1, Begins DEF IInv
  <1> QED
    BY <1>2, Started

\* Each handler's read phase.
LEMMA StartStep ==
    ASSUME IInv, NEW r \in Requests, Start(r)
    PROVE  IInv'
  <1>1. ASSUME NEW p \in Providers, BeginAssign(r, p) PROVE IInv'
    <2>1. Begin(r, "assign", Customer, [chosen |-> p],
                 <<"transition", "createAssignment", "supersede", "clearDate", "createSchedule", "applyQuote">>)
      BY <1>1 DEF BeginAssign
    <2>2. Machine!CanTransition(booking.status, ToStatus["assign"])
      BY <1>1 DEF BeginAssign, ToStatus
    <2> DEFINE program == <<"transition", "createAssignment", "supersede", "clearDate", "createSchedule", "applyQuote">>
    <2>3. /\ program \in Seq(Steps)
          /\ \A i \in DOMAIN program : program[i] \in {"transition", "createAssignment", "supersede", "clearDate", "createSchedule", "applyQuote"}
      BY DEF Steps
    <2> HIDE DEF program
    <2>4. Begin(r, "assign", Customer, [chosen |-> p], program)
      BY <2>1 DEF program
    <2> QED
      BY <2>4, <2>2, <2>3, Programs DEF Parties
  <1>2. ASSUME NEW a \in Parties, BeginCancel(r, a) PROVE IInv'
    <2>1. Begin(r, "cancel", a, [sch |-> None],
                 <<"findActive", "withdraw", "transition">>)
      BY <1>2 DEF BeginCancel
    <2>2. Machine!CanTransition(booking.status, ToStatus["cancel"])
      BY <1>2 DEF BeginCancel, ToStatus
    <2> DEFINE program == <<"findActive", "withdraw", "transition">>
    <2>3. /\ program \in Seq(Steps)
          /\ \A i \in DOMAIN program : program[i] \in {"findActive", "withdraw", "transition"}
      BY DEF Steps
    <2> HIDE DEF program
    <2>4. Begin(r, "cancel", a, [sch |-> None], program)
      BY <2>1 DEF program
    <2> QED
      BY <2>4, <2>2, <2>3, Programs DEF Parties
  <1>3. ASSUME NEW p \in Providers, BeginAccept(r, p) PROVE IInv'
    <2>1. PICK x \in Assignments : Begin(r, "accept", p, [asg |-> x],
                 <<"answer", "findPending", "transition">>)
      BY <1>3 DEF BeginAccept, OwnPending
    <2>2. Machine!CanTransition(booking.status, ToStatus["accept"])
      BY <1>3 DEF BeginAccept, ToStatus
    <2> DEFINE program == <<"answer", "findPending", "transition">>
    <2>3. /\ program \in Seq(Steps)
          /\ \A i \in DOMAIN program : program[i] \in {"answer", "findPending", "transition"}
      BY DEF Steps
    <2> HIDE DEF program
    <2>4. Begin(r, "accept", p, [asg |-> x], program)
      BY <2>1 DEF program
    <2> QED
      BY <2>4, <2>2, <2>3, Programs DEF Parties
  <1>4. ASSUME NEW p \in Providers, BeginReject(r, p) PROVE IInv'
    <2>1. PICK x \in Assignments : Begin(r, "reject", p, [asg |-> x],
                 <<"answer", "transition">>)
      BY <1>4 DEF BeginReject, OwnPending
    <2>2. Machine!CanTransition(booking.status, ToStatus["reject"])
      BY <1>4 DEF BeginReject, ToStatus
    <2> DEFINE program == <<"answer", "transition">>
    <2>3. /\ program \in Seq(Steps)
          /\ \A i \in DOMAIN program : program[i] \in {"answer", "transition"}
      BY DEF Steps
    <2> HIDE DEF program
    <2>4. Begin(r, "reject", p, [asg |-> x], program)
      BY <2>1 DEF program
    <2> QED
      BY <2>4, <2>2, <2>3, Programs DEF Parties
  <1>5. ASSUME NEW a \in Parties, BeginPropose(r, a) PROVE IInv'
    <2>1. Begin(r, "propose", a, [sch |-> None],
                 <<"supersede", "clearDate", "createSchedule">>)
      BY <1>5 DEF BeginPropose
    <2> DEFINE program == <<"supersede", "clearDate", "createSchedule">>
    <2>3. /\ program \in Seq(Steps)
          /\ \A i \in DOMAIN program : program[i] \in {"supersede", "clearDate", "createSchedule"}
      BY DEF Steps
    <2> HIDE DEF program
    <2>4. Begin(r, "propose", a, [sch |-> None], program)
      BY <2>1 DEF program
    <2> QED
      BY <2>4, <2>3, Programs DEF Parties
  <1>6. ASSUME NEW a \in Parties, BeginConfirm(r, a) PROVE IInv'
    <2>1. Begin(r, "confirm", a, [sch |-> None],
                 <<"readPending">>)
      BY <1>6 DEF BeginConfirm
    <2> DEFINE program == <<"readPending">>
    <2>3. /\ program \in Seq(Steps)
          /\ \A i \in DOMAIN program : program[i] \in {"readPending"}
      BY DEF Steps
    <2> HIDE DEF program
    <2>4. Begin(r, "confirm", a, [sch |-> None], program)
      BY <2>1 DEF program
    <2> QED
      BY <2>4, <2>3, Programs DEF Parties
  <1>7. ASSUME NEW p \in Providers, BeginMarkComplete(r, p) PROVE IInv'
    <2>1. Begin(r, "complete", p, [sch |-> None],
                 <<"transition">>)
      BY <1>7 DEF BeginMarkComplete
    <2>2. Machine!CanTransition(booking.status, ToStatus["complete"])
      BY <1>7 DEF BeginMarkComplete, ToStatus
    <2> DEFINE program == <<"transition">>
    <2>3. /\ program \in Seq(Steps)
          /\ \A i \in DOMAIN program : program[i] \in {"transition"}
      BY DEF Steps
    <2> HIDE DEF program
    <2>4. Begin(r, "complete", p, [sch |-> None], program)
      BY <2>1 DEF program
    <2> QED
      BY <2>4, <2>2, <2>3, Programs DEF Parties
  <1>8. ASSUME BeginConfirmCompletion(r) PROVE IInv'
    <2>1. Begin(r, "close", Customer, [sch |-> None],
                 <<"transition">>)
      BY <1>8 DEF BeginConfirmCompletion
    <2>2. Machine!CanTransition(booking.status, ToStatus["close"])
      BY <1>8 DEF BeginConfirmCompletion, ToStatus
    <2> DEFINE program == <<"transition">>
    <2>3. /\ program \in Seq(Steps)
          /\ \A i \in DOMAIN program : program[i] \in {"transition"}
      BY DEF Steps
    <2> HIDE DEF program
    <2>4. Begin(r, "close", Customer, [sch |-> None], program)
      BY <2>1 DEF program
    <2> QED
      BY <2>4, <2>2, <2>3, Programs DEF Parties
  <1> QED
    BY <1>1, <1>2, <1>3, <1>4, <1>5, <1>6, <1>7, <1>8 DEF Start

-----------------------------------------------------------------------------
(* The statements that read. *)

\* Nothing to confirm that was not there before.
LEMMA SameAnswer ==
    ASSUME IInv, NEW r \in Requests, UNCHANGED <<db, writes>>, GoesOn(r), KeepsProposal(r)
    PROVE  Answers(r)'
  BY DEF IInv, Answering, Answers, AnswersTo, KeepsProposal, GoesOn

\* findActiveAssignment, in cancel and confirmSchedule.
LEMMA FindActiveStep ==
    ASSUME IInv, NEW r \in Requests, FindActiveAssignment(r)
    PROVE  IInv'
  <1>1. proc[r].todo # <<>> /\ UNCHANGED <<db, writes>>
    BY DEF FindActiveAssignment, Ready, At
  <1>2. ASSUME NEW changes, NEW branch \in {<<>>, <<"answer">>}, Continue(r, changes, branch),
               DOMAIN changes \subseteq {"asg", "asgSeen"},
               "asg" \in DOMAIN changes => changes["asg"] \in Assignments \cup {None}
        PROVE  IInv'
    <2>1. branch \in Seq(Steps) /\ \A i \in DOMAIN branch : branch[i] = "answer"
      <3>1. CASE branch = <<>>
        BY <3>1
      <3>2. CASE branch = <<"answer">>
        BY <3>2 DEF Steps
      <3> QED
        BY <1>2, <3>1, <3>2
    <2>2. Processes' /\ GoesOn(r) /\ proc'[r]["sch"] = proc[r]["sch"]
          /\ (Confirms(proc'[r]) => Confirms(proc[r]))
      BY <1>1, <1>2, <2>1, Continues DEF IInv
    <2>3. KeepsProposal(r)
      BY <2>2 DEF KeepsProposal
    <2> QED
      BY <1>1, <2>2, <2>3, SameAnswer, ReadOnly
  <1>3. CASE Continue(r, [asg |-> None], <<>>)
    <2> DEFINE changes == [asg |-> None]
    <2>1. DOMAIN changes = {"asg"} /\ changes["asg"] = None /\ Continue(r, changes, <<>>)
      BY <1>3
    <2> HIDE DEF changes
    <2> QED
      BY <1>2, <2>1
  <1>4. ASSUME NEW a \in Assignments, NEW branch \in {<<>>, <<"answer">>},
               Continue(r, [asg |-> a, asgSeen |-> View(r, a).status], branch)
        PROVE  IInv'
    <2> DEFINE changes == [asg |-> a, asgSeen |-> View(r, a).status]
    <2>1. /\ DOMAIN changes = {"asg", "asgSeen"} /\ changes["asg"] = a
          /\ Continue(r, changes, branch)
      BY <1>4
    <2> HIDE DEF changes
    <2> QED
      BY <1>2, <2>1
  <1>5. \/ Continue(r, [asg |-> None], <<>>)
        \/ \E a \in Assignments, branch \in {<<>>, <<"answer">>} :
              Continue(r, [asg |-> a, asgSeen |-> View(r, a).status], branch)
    BY DEF FindActiveAssignment, LiveAssignments
  <1> QED
    BY <1>3, <1>4, <1>5

\* The snapshot of supersedeOpenSchedules.
LEMMA SnapshotStep ==
    ASSUME IInv, NEW r \in Requests, SupersedeSnapshot(r)
    PROVE  IInv'
  <1> DEFINE changes == [targets |-> {s \in Schedules : View(r, s).status \in Open}]
             branch == <<"supersedeRows">>
  <1>1. /\ proc[r].todo # <<>> /\ UNCHANGED <<db, writes>>
        /\ Continue(r, changes, branch)
    BY DEF SupersedeSnapshot, Ready, At
  <1>2. /\ DOMAIN changes = {"targets"} /\ changes["targets"] \subseteq Schedules
        /\ branch \in Seq(Steps) /\ \A i \in DOMAIN branch : branch[i] = "supersedeRows"
    BY DEF Steps
  <1> HIDE DEF changes, branch
  <1>3. Processes' /\ GoesOn(r) /\ proc'[r]["sch"] = proc[r]["sch"]
        /\ (Confirms(proc'[r]) => Confirms(proc[r]))
    BY <1>1, <1>2, Continues DEF IInv
  <1>4. KeepsProposal(r)
    BY <1>3 DEF KeepsProposal
  <1> QED
    BY <1>1, <1>3, <1>4, SameAnswer, ReadOnly

\* A request that found the other side's proposal.
LEMMA FoundStep ==
    ASSUME IInv, NEW r \in Requests, proc[r].todo # <<>>, UNCHANGED <<db, writes>>,
           NEW s \in Schedules, View(r, s).status # "FREE", OtherSides(View(r, s).by, proc[r].actor),
           NEW branch \in Seq(Steps), Continue(r, [sch |-> s], branch),
           \A i \in DOMAIN branch :
              /\ branch[i] = "transition" =>
                    Machine!CanTransition(proc[r].seen.status, ToStatus[proc[r].op])
              /\ branch[i] \notin {"readPending", "findPending"}
    PROVE  IInv'
  <1> DEFINE changes == [sch |-> s]
  <1>1. DOMAIN changes = {"sch"} /\ changes["sch"] = s /\ Continue(r, changes, branch)
    OBVIOUS
  <1> HIDE DEF changes
  <1>2. Processes' /\ GoesOn(r) /\ proc'[r]["sch"] = s
    BY <1>1, Continues DEF IInv
  <1>3. Answers(r)'
    BY <1>2 DEF Answers, AnswersTo, View, GoesOn
  <1> QED
    BY <1>2, <1>3, ReadOnly

\* accept: a proposal of its own side makes it throw.
LEMMA FindPendingStep ==
    ASSUME IInv, NEW r \in Requests, FindPendingSchedule(r)
    PROVE  IInv'
  <1>1. /\ proc[r].todo # <<>> /\ Head(proc[r].todo) = "findPending"
    BY DEF FindPendingSchedule, Ready, At
  <1>2. CASE Rollback(r)
    BY <1>2, RolledBack
  <1>3. CASE Advance(r) /\ UNCHANGED <<db, writes>>
    BY <1>1, <1>3, Advances, SameAnswer, ReadOnly DEF IInv
  <1>4. ASSUME NEW s \in Schedules, View(r, s).status = "PENDING", View(r, s).by = Customer,
               Continue(r, [sch |-> s], <<"confirm", "indexConfirmed", "copyDate">>),
               UNCHANGED <<db, writes>>
        PROVE  IInv'
    <2>1. Legal(proc[r]) /\ proc[r].todo \in Seq(Steps)
      BY DEF IInv, Processes, Shape
    <2>2. 1 \in DOMAIN proc[r].todo /\ proc[r].todo[1] = "findPending"
      BY <1>1, <2>1, HeadTailProperties
    <2>3. OtherSides(View(r, s).by, proc[r].actor)
      BY <1>4, <2>1, <2>2, TransactionsAssumption DEF Legal, OtherSides
    <2> DEFINE branch == <<"confirm", "indexConfirmed", "copyDate">>
    <2>4. /\ branch \in Seq(Steps)
          /\ \A i \in DOMAIN branch : branch[i] \in {"confirm", "indexConfirmed", "copyDate"}
      BY DEF Steps
    <2>5. Continue(r, [sch |-> s], branch)
      BY <1>4
    <2> HIDE DEF branch
    <2> QED
      BY <1>1, <1>4, <2>3, <2>4, <2>5, FoundStep
  <1> QED
    BY <1>2, <1>3, <1>4 DEF FindPendingSchedule

\* confirmSchedule: a proposal of its own side makes it throw.
LEMMA ReadPendingStep ==
    ASSUME IInv, NEW r \in Requests, ReadPendingSchedule(r)
    PROVE  IInv'
  <1>1. /\ proc[r].todo # <<>> /\ Head(proc[r].todo) = "readPending"
    BY DEF ReadPendingSchedule, Ready, At
  <1>2. CASE Rollback(r)
    BY <1>2, RolledBack
  <1>3. ASSUME NEW s \in Schedules, db[s].status = "PENDING", ~SameSide(db[s].by, proc[r].actor),
               UNCHANGED <<db, writes>>,
               NEW branch, Continue(r, [sch |-> s], branch),
               \/ branch = <<"confirm", "indexConfirmed", "copyDate">>
               \/ /\ proc[r].seen.status = "ASSIGNED"
                  /\ branch = <<"confirm", "indexConfirmed", "copyDate", "findActive", "transition">>
        PROVE  IInv'
    <2>1. Legal(proc[r]) /\ proc[r].todo \in Seq(Steps)
      BY DEF IInv, Processes, Shape
    <2>2. 1 \in DOMAIN proc[r].todo /\ proc[r].todo[1] = "readPending"
      BY <1>1, <2>1, HeadTailProperties
    <2>3. proc[r].op = "confirm"
      BY <2>1, <2>2 DEF Legal
    <2>4. View(r, s).status # "FREE" /\ View(r, s).by = db[s].by
      BY <1>3 DEF IInv, Pending, View
    <2>5. OtherSides(View(r, s).by, proc[r].actor)
      BY <1>3, <2>4 DEF SameSide, OtherSides
    <2>6. CASE branch = <<"confirm", "indexConfirmed", "copyDate">>
      <3>1. /\ branch \in Seq(Steps)
            /\ \A i \in DOMAIN branch : branch[i] \in {"confirm", "indexConfirmed", "copyDate"}
        BY <2>6 DEF Steps
      <3> QED
        BY <1>1, <1>3, <2>4, <2>5, <3>1, FoundStep
    <2>7. CASE /\ proc[r].seen.status = "ASSIGNED"
               /\ branch = <<"confirm", "indexConfirmed", "copyDate", "findActive", "transition">>
      <3>1. /\ branch \in Seq(Steps)
            /\ \A i \in DOMAIN branch : branch[i] \in
                  {"confirm", "indexConfirmed", "copyDate", "findActive", "transition"}
        BY <2>7 DEF Steps
      <3>2. Machine!CanTransition(proc[r].seen.status, ToStatus[proc[r].op])
        BY <2>3, <2>7 DEF ToStatus, Machine!CanTransition, Machine!Transitions
      <3> QED
        BY <1>1, <1>3, <2>4, <2>5, <3>1, <3>2, FoundStep
    <2> QED
      BY <1>3, <2>6, <2>7
  <1>4. \/ Rollback(r)
        \/ \E s \in Schedules, branch \in
               {<<"confirm", "indexConfirmed", "copyDate", "findActive", "transition">>,
                <<"confirm", "indexConfirmed", "copyDate">>} :
              /\ db[s].status = "PENDING" /\ ~SameSide(db[s].by, proc[r].actor)
              /\ UNCHANGED <<db, writes>> /\ Continue(r, [sch |-> s], branch)
              /\ \/ branch = <<"confirm", "indexConfirmed", "copyDate">>
                 \/ /\ proc[r].seen.status = "ASSIGNED"
                    /\ branch = <<"confirm", "indexConfirmed", "copyDate", "findActive", "transition">>
    BY DEF ReadPendingSchedule
  <1> QED
    BY <1>2, <1>3, <1>4

-----------------------------------------------------------------------------
(* All steps. *)

\* Nothing but a commit changes a committed row.
LEMMA StepLemma ==
    ASSUME IInv, [Next]_vars
    PROVE  /\ IInv'
           /\ \/ UNCHANGED db
              \/ \E r \in Requests : Commit(r)
  <1>1. CASE UNCHANGED vars
    BY <1>1 DEF vars, IInv, Processes, Committed, Pending, RowsAreLocked, Decided, Answering,
                Answers, booking
  <1>2. ASSUME NEW r \in Requests, Start(r) PROVE IInv' /\ UNCHANGED db
    <2>1. UNCHANGED db
      BY <1>2 DEF Start, BeginAssign, BeginCancel, BeginAccept, BeginReject, BeginPropose,
                  BeginConfirm, BeginMarkComplete, BeginConfirmCompletion, Begin
    <2> QED
      BY <1>2, <2>1, StartStep
  <1>3. ASSUME NEW r \in Requests,
               \/ TransitionStatus(r) \/ CreateAssignment(r) \/ FindActiveAssignment(r)
               \/ CloseAssignment(r) \/ WithdrawAssignment(r) \/ SupersedeSnapshot(r)
               \/ SupersedeRows(r) \/ ClearConfirmedDate(r) \/ CopyConfirmedDate(r)
               \/ ApplyQuote(r) \/ CreateSchedule(r) \/ CloseSchedule(r)
        PROVE  IInv' /\ UNCHANGED db
    <2>1. UNCHANGED db
      BY <1>3 DEF TransitionStatus, CreateAssignment, FindActiveAssignment, CloseAssignment,
                  WithdrawAssignment, SupersedeSnapshot, SupersedeRows, ClearConfirmedDate,
                  CopyConfirmedDate, ApplyQuote, UpdateBooking, CreateSchedule, CloseSchedule
    <2> QED
      BY <1>3, <2>1, TransitionStep, CreateAssignmentStep, FindActiveStep, AnswerStep,
         SnapshotStep, SupersedeStep, UpdateStep, CreateScheduleStep, ConfirmStep
  <1>4. ASSUME NEW r \in Requests, FindPendingSchedule(r) \/ ReadPendingSchedule(r)
        PROVE  IInv' /\ UNCHANGED db
    <2>1. UNCHANGED db
      BY <1>4 DEF FindPendingSchedule, ReadPendingSchedule, Rollback
    <2> QED
      BY <1>4, <2>1, FindPendingStep, ReadPendingStep
  <1>5. ASSUME NEW r \in Requests, CheckConfirmedIndex(r) PROVE IInv' /\ UNCHANGED db
    <2>1. proc[r].todo # <<>> /\ Advance(r) /\ UNCHANGED <<db, writes>>
      BY <1>5 DEF CheckConfirmedIndex, Ready, At
    <2> QED
      BY <2>1, Advances, SameAnswer, ReadOnly DEF IInv
  <1>6. ASSUME NEW r \in Requests,
               \/ LosesRace(r) \/ LosesToIndex(r) \/ UniqueViolationEscapes(r)
               \/ DeadlockAborts(r) \/ TransactionLost(r)
        PROVE  IInv' /\ UNCHANGED db
    <2>1. Rollback(r)
      BY <1>6 DEF LosesRace, LosesToIndex, UniqueViolationEscapes, DeadlockAborts, TransactionLost
    <2> QED
      BY <2>1, RolledBack DEF Rollback
  <1>7. ASSUME NEW r \in Requests, Commit(r) PROVE IInv'
    BY <1>7, Commits
  <1> QED
    BY <1>1, <1>2, <1>3, <1>4, <1>5, <1>6, <1>7 DEF Next, Statement, vars

\* The booking has just been created.
LEMMA Initial == Init => IInv
  <1> SUFFICES ASSUME Init PROVE IInv
    OBVIOUS
  <1>1. Processes
    BY IdleShape DEF Init, Processes
  <1>2. /\ booking = [status |-> "UNASSIGNED", version |-> 0, quotedBy |-> None, date |-> None,
                       trail |-> <<"UNASSIGNED">>]
        /\ \A s \in Schedules : db[s] = [status |-> "FREE", by |-> None, confirmedBy |-> None]
    BY TransactionsAssumption DEF Init, booking, Rows
  <1>3. Committed
    <2>1. IsBooking(booking)
      BY <1>2 DEF IsBooking
    <2> QED
      BY <1>2, <2>1 DEF Committed, ScheduleRecord, TwoSides
  <1>4. \A r \in Requests : DOMAIN writes[r] = {} /\ proc[r] = Idle
    BY DEF Init, NoWrites
  <1>5. writes = [r \in Requests |-> writes[r]]
    BY DEF Init
  <1>6. \A r \in Requests : ~Confirms(proc[r])
    BY <1>4 DEF Confirms, Idle
  <1> QED
    BY <1>1, <1>3, <1>4, <1>5, <1>6
       DEF IInv, Pending, RowsAreLocked, Decided, Answering, Answers, AnswersTo

-----------------------------------------------------------------------------
(* The theorems. *)

\* The inductive invariant: what a request holds, what it decided on, and the
\* proposal it is about to confirm (BookingService, BookingRepository).
THEOREM Invariance == Spec => []IInv
  <1>1. Init => IInv
    BY Initial
  <1>2. IInv /\ [Next]_vars => IInv'
    BY StepLemma
  <1> QED
    BY <1>1, <1>2, PTL DEF Spec

\* No row is written by two transactions at the same time, whatever the
\* statements of assign, accept, cancel and the others wait for.
THEOREM Locked == Spec => []RowsAreLocked
  <1>1. IInv => RowsAreLocked
    BY DEF IInv
  <1> QED
    BY <1>1, Invariance, PTL

\* A status change commits only on top of the version its handler read: the
\* conditional update of transitionStatus lets one of two racing handlers win.
THEOREM FreshDecisions == Spec => DecisionsAreFresh
  <1> DEFINE Act ==
        \A r \in Requests :
          (proc[r].op # "none" /\ proc'[r] = Idle /\ booking'.status # booking.status
               /\ BookingRow \in DOMAIN writes[r] /\ booking' = writes[r][BookingRow])
            => proc[r].seen = [status |-> booking.status, version |-> booking.version]
  <1>1. IInv => Act
    BY DEF IInv, Decided
  <1>2. IInv /\ [Next]_vars => [Act]_vars
    BY <1>1
  <1> HIDE DEF Act
  <1>3. Spec => [][Act]_vars
    BY <1>2, Invariance, PTL DEF Spec
  <1> QED
    BY <1>3 DEF Act, DecisionsAreFresh

\* The status that is committed moves along the declared state machine only
\* (booking.state-machine.ts), although each handler checks the machine on a
\* booking it read before its transaction.
THEOREM FollowsMachine ==
    Spec => [][booking'.status # booking.status =>
                  Machine!CanTransition(booking.status, booking'.status)]_vars
  <1> DEFINE Act == booking'.status # booking.status =>
                       Machine!CanTransition(booking.status, booking'.status)
  <1>1. IInv /\ [Next]_vars => Act
    <2> SUFFICES ASSUME IInv, [Next]_vars PROVE Act
      OBVIOUS
    <2>1. CASE UNCHANGED db
      BY <2>1 DEF booking
    <2>2. ASSUME NEW r \in Requests, Commit(r) PROVE Act
      <3>1. booking' = View(r, BookingRow)
        BY <2>2, Commits
      <3> QED
        BY <3>1 DEF IInv, Decided, View, booking
    <2> QED
      BY <2>1, <2>2, StepLemma
  <1>2. IInv /\ [Next]_vars => [Act]_vars
    BY <1>1
  <1> HIDE DEF Act
  <1>3. Spec => [][Act]_vars
    BY <1>2, Invariance, PTL DEF Spec
  <1> QED
    BY <1>3 DEF Act

\* Whoever confirmed a date is on the other side from whoever proposed it, although
\* accept and confirmSchedule compare the two sides statements before the update.
THEOREM OtherSideConfirms == Spec => []ConfirmedByTheOtherSide
  <1>1. IInv => ConfirmedByTheOtherSide
    BY DEF IInv, Committed, TwoSides, OtherSides, ConfirmedByTheOtherSide
  <1> QED
    BY <1>1, Invariance, PTL

-----------------------------------------------------------------------------
(* The confirmed date. *)

Has(p, stmt) == \E i \in DOMAIN p.todo : p.todo[i] = stmt
Among(branch, stmt) == \E i \in DOMAIN branch : branch[i] = stmt
Supersedes(p) == Has(p, "supersede") \/ Has(p, "supersedeRows")
Looks(p) == Has(p, "findPending") \/ Has(p, "readPending")

\* The date a request that has written these rows sees on the booking.
DateSeen(held, rows) ==
    IF BookingRow \in DOMAIN held THEN held[BookingRow].date ELSE rows[BookingRow].date

ConfirmedBy(held, s) == s \in Schedules \cap DOMAIN held /\ held[s].status = "CONFIRMED"

\* An uncommitted date is the committed one, none, or that of a schedule the request has
\* confirmed itself.
DateWritten(p, held, rows) ==
    LET d == DateSeen(held, rows) IN
    d = rows[BookingRow].date \/ d = None \/ (~Supersedes(p) /\ ConfirmedBy(held, d))

\* Whoever has superseded the schedule of the date has the date still to clear.
DateCleared(p, held, rows) ==
    \/ Has(p, "clearDate")
    \/ DateSeen(held, rows) \in Schedules \cap DOMAIN held
          => ConfirmedBy(held, DateSeen(held, rows))

\* Whoever has the date still to copy has confirmed its schedule, or will before that.
Preceded(p) ==
    \A i \in DOMAIN p.todo : p.todo[i] = "copyDate" =>
        \E j \in DOMAIN p.todo : j < i /\ p.todo[j] = "confirm"
DateCopied(p, held) == Preceded(p) \/ ConfirmedBy(held, p.sch)

\* Whoever supersedes clears the date after that, and no program supersedes and confirms.
Ordered(p) ==
    \A i \in DOMAIN p.todo : p.todo[i] \in {"supersede", "supersedeRows"} =>
        \E j \in DOMAIN p.todo : i < j /\ p.todo[j] = "clearDate"
OneTask(p) == Ordered(p) /\ (Supersedes(p) => ~Has(p, "copyDate") /\ ~Looks(p))

DatesOf(p, held, rows) ==
    /\ DateWritten(p, held, rows)
    /\ DateCleared(p, held, rows)
    /\ DateCopied(p, held)
    /\ OneTask(p)

DateCommitted ==
    booking.date # None => booking.date \in Schedules /\ db[booking.date].status = "CONFIRMED"

DInv == DateCommitted /\ \A r \in Requests : DatesOf(proc[r], writes[r], db)

\* What another request's writes leave alone.
LEMMA OthersDates ==
    ASSUME IInv, DInv, NEW r \in Requests, UNCHANGED db,
           \A q \in Requests \ {r} : proc'[q] = proc[q] /\ writes'[q] = writes[q],
           DatesOf(proc'[r], writes'[r], db)
    PROVE  DInv'
  <1>1. DateCommitted'
    BY DEF DInv, DateCommitted, booking
  <1>2. ASSUME NEW q \in Requests PROVE DatesOf(proc'[q], writes'[q], db')
    BY DEF DInv
  <1> QED
    BY <1>1, <1>2 DEF DInv

\* The rows after a write.
LEMMA PutRows ==
    ASSUME Pending, NEW r \in Requests, NEW W, Put(r, W)
    PROVE  /\ \A q \in Requests \ {r} : writes'[q] = writes[q]
           /\ DOMAIN writes'[r] = DOMAIN writes[r] \cup DOMAIN W
           /\ \A x \in DOMAIN writes'[r] :
                 writes'[r][x] = IF x \in DOMAIN W THEN W[x] ELSE writes[r][x]
  BY DEF Pending, Put

\* The statements that are left after one without a branch ...
LEMMA Left ==
    ASSUME Processes, NEW r \in Requests, proc[r].todo # <<>>, Advance(r)
    PROVE  /\ \A q \in Requests \ {r} : proc'[q] = proc[q]
           /\ proc'[r].sch = proc[r].sch
           /\ \A stmt : Has(proc'[r], stmt) => Has(proc[r], stmt)
           /\ \A stmt : Has(proc[r], stmt) /\ Head(proc[r].todo) # stmt => Has(proc'[r], stmt)
           /\ Ordered(proc[r]) => Ordered(proc'[r])
           /\ Preceded(proc[r]) /\ Head(proc[r].todo) # "confirm" => Preceded(proc'[r])
  <1>1. proc' = [proc EXCEPT ![r].todo = Tail(proc[r].todo)] /\ Shape(proc[r])
    BY DEF Advance, Processes
  <1>2. /\ \A q \in Requests \ {r} : proc'[q] = proc[q]
        /\ proc'[r].sch = proc[r].sch /\ proc'[r].todo = Tail(proc[r].todo)
    BY <1>1 DEF Processes, Shape, Fields
  <1> DEFINE todo == proc[r].todo
  <1>3. /\ todo \in Seq(Steps) /\ todo # <<>> /\ Len(Tail(todo)) = Len(todo) - 1
        /\ \A i \in 1 .. Len(Tail(todo)) : Tail(todo)[i] = todo[i + 1]
        /\ Head(todo) = todo[1]
    BY <1>1, HeadTailProperties DEF Shape
  <1>4. \A stmt : Has(proc'[r], stmt) => Has(proc[r], stmt)
    BY <1>2, <1>3, Rest DEF Has
  <1>5. ASSUME NEW i \in DOMAIN todo, i # 1
        PROVE  i - 1 \in DOMAIN Tail(todo) /\ Tail(todo)[i - 1] = todo[i]
    <2>1. DOMAIN todo = 1 .. Len(todo) /\ DOMAIN Tail(todo) = 1 .. Len(Tail(todo)) /\ Len(todo) \in Nat
      BY <1>3, HeadTailProperties
    <2>2. i \in Nat /\ i - 1 \in 1 .. Len(Tail(todo)) /\ (i - 1) + 1 = i
      <3> HIDE DEF todo
      <3> QED
        BY <1>3, <1>5, <2>1
    <2>3. Tail(todo)[i - 1] = todo[(i - 1) + 1]
      BY <1>3, <2>2
    <2> QED
      BY <2>1, <2>2, <2>3
  <1> HIDE DEF todo
  <1>6. ASSUME NEW stmt, Has(proc[r], stmt), Head(todo) # stmt PROVE Has(proc'[r], stmt)
    <2>1. PICK i \in DOMAIN todo : todo[i] = stmt
      BY <1>6 DEF Has, todo
    <2>2. i # 1
      BY <1>3, <1>6, <2>1
    <2> QED
      BY <1>2, <1>5, <2>1, <2>2 DEF Has, todo
  <1>7. ASSUME NEW i \in DOMAIN Tail(todo)
        PROVE  i + 1 \in DOMAIN todo /\ Tail(todo)[i] = todo[i + 1] /\ i \in Nat
    <2>1. DOMAIN todo = 1 .. Len(todo) /\ DOMAIN Tail(todo) = 1 .. Len(Tail(todo)) /\ Len(todo) \in Nat
      BY <1>3, HeadTailProperties
    <2> QED
      BY <1>3, <2>1
  <1>8. \A i \in DOMAIN todo : i \in Nat \ {0}
    BY <1>3
  <1>9. ASSUME Ordered(proc[r]) PROVE Ordered(proc'[r])
    <2> SUFFICES ASSUME NEW i \in DOMAIN Tail(todo),
                        Tail(todo)[i] \in {"supersede", "supersedeRows"}
                 PROVE  \E j \in DOMAIN Tail(todo) : i < j /\ Tail(todo)[j] = "clearDate"
      BY <1>2 DEF Ordered, todo
    <2>1. PICK j \in DOMAIN todo : i + 1 < j /\ todo[j] = "clearDate"
      BY <1>7, <1>9 DEF Ordered, todo
    <2>2. j - 1 \in DOMAIN Tail(todo) /\ Tail(todo)[j - 1] = todo[j] /\ i < j - 1
      BY <1>5, <1>7, <1>8, <2>1
    <2> QED
      BY <2>1, <2>2
  <1>10. ASSUME Preceded(proc[r]), Head(todo) # "confirm" PROVE Preceded(proc'[r])
    <2> SUFFICES ASSUME NEW i \in DOMAIN Tail(todo), Tail(todo)[i] = "copyDate"
                 PROVE  \E j \in DOMAIN Tail(todo) : j < i /\ Tail(todo)[j] = "confirm"
      BY <1>2 DEF Preceded, todo
    <2>1. PICK j \in DOMAIN todo : j < i + 1 /\ todo[j] = "confirm"
      BY <1>7, <1>10 DEF Preceded, todo
    <2>2. j # 1
      BY <1>3, <1>10, <2>1
    <2>3. j - 1 \in DOMAIN Tail(todo) /\ Tail(todo)[j - 1] = todo[j] /\ j - 1 < i
      BY <1>5, <1>7, <1>8, <2>1, <2>2
    <2> QED
      BY <2>1, <2>3
  <1> QED
    BY <1>2, <1>4, <1>6, <1>9, <1>10 DEF todo

\* An index past the branch.
LEMMA Shift ==
    ASSUME NEW n \in Nat, NEW m \in Nat, NEW i \in 1 .. n, i # 1
    PROVE  /\ m + i - 1 \in 1 .. m + (n - 1) /\ ~(m + i - 1 <= m) /\ (m + i - 1) - m = i - 1
           /\ i - 1 \in 1 .. n - 1 /\ (i - 1) + 1 = i
  OBVIOUS

\* ... and with one.
LEMMA LeftWithBranch ==
    ASSUME Processes, NEW r \in Requests, proc[r].todo # <<>>,
           NEW changes, NEW branch \in Seq(Steps), Continue(r, changes, branch),
           DOMAIN changes \subseteq {"asg", "asgSeen", "sch", "targets"}
    PROVE  /\ \A q \in Requests \ {r} : proc'[q] = proc[q]
           /\ proc'[r].sch = IF "sch" \in DOMAIN changes THEN changes["sch"] ELSE proc[r].sch
           /\ \A stmt : Has(proc'[r], stmt) => Has(proc[r], stmt) \/ Among(branch, stmt)
           /\ \A stmt : Has(proc[r], stmt) /\ Head(proc[r].todo) # stmt => Has(proc'[r], stmt)
           /\ \A i \in DOMAIN branch : Has(proc'[r], branch[i])
           /\ (/\ Ordered(proc[r])
               /\ \A i \in DOMAIN branch :
                    /\ branch[i] # "supersede"
                    /\ branch[i] = "supersedeRows" =>
                          Has(proc[r], "clearDate") /\ Head(proc[r].todo) # "clearDate")
                 => Ordered(proc'[r])
           /\ (/\ Preceded(proc[r]) /\ Head(proc[r].todo) # "confirm"
               /\ \A i \in DOMAIN branch : branch[i] # "copyDate")
                 => Preceded(proc'[r])
           /\ branch # <<>> /\ branch[1] = "confirm" => Preceded(proc'[r])
  <1> DEFINE todo == proc[r].todo
             rest == branch \o Tail(todo)
  <1>1. Shape(proc[r]) /\ DOMAIN Idle = Fields /\ todo \in Seq(Steps)
    BY IdleShape DEF Processes, Shape
  <1>2. /\ \A q \in Requests \ {r} : proc'[q] = proc[q]
        /\ proc'[r] = [x \in Fields |->
            CASE x = "todo" -> rest
              [] x \in DOMAIN changes -> changes[x]
              [] OTHER -> proc[r][x]]
    BY <1>1 DEF Continue, Processes
  <1> HIDE DEF rest
  <1>3. /\ proc'[r].todo = rest
        /\ proc'[r].sch = IF "sch" \in DOMAIN changes THEN changes["sch"] ELSE proc[r].sch
    BY <1>2 DEF Fields
  <1>4. /\ Len(Tail(todo)) = Len(todo) - 1 /\ Tail(todo) \in Seq(Steps)
        /\ \A i \in 1 .. Len(Tail(todo)) : Tail(todo)[i] = todo[i + 1]
        /\ Head(todo) = todo[1] /\ DOMAIN todo = 1 .. Len(todo) /\ Len(todo) \in Nat
    BY <1>1, HeadTailProperties
  <1>5. /\ Len(rest) = Len(branch) + Len(Tail(todo)) /\ rest \in Seq(Steps)
        /\ \A i \in 1 .. Len(branch) + Len(Tail(todo)) :
              rest[i] = IF i <= Len(branch) THEN branch[i] ELSE Tail(todo)[i - Len(branch)]
    BY <1>4, ConcatProperties DEF rest
  <1>6. DOMAIN rest = 1 .. Len(rest) /\ DOMAIN branch = 1 .. Len(branch) /\ Len(branch) \in Nat
    BY <1>5
  <1>7. \A i \in DOMAIN rest : \/ i \in DOMAIN branch /\ rest[i] = branch[i]
                               \/ \E j \in DOMAIN todo : rest[i] = todo[j]
    BY <1>1, Rest DEF rest
  <1>8. \A i \in DOMAIN branch : i \in DOMAIN rest /\ rest[i] = branch[i]
    BY <1>4, <1>5, <1>6
  <1>9. ASSUME NEW i \in DOMAIN todo, i # 1
        PROVE  Len(branch) + i - 1 \in DOMAIN rest /\ rest[Len(branch) + i - 1] = todo[i]
    <2> DEFINE j == Len(branch) + i - 1
    <2> DEFINE n == Len(todo)
               m == Len(branch)
    <2>a. /\ i \in 1 .. n /\ i # 1 /\ n \in Nat /\ m \in Nat
          /\ Len(Tail(todo)) = n - 1
      BY <1>4, <1>6, <1>9
    <2>b. /\ j \in 1 .. m + (n - 1) /\ ~(j <= m) /\ j - m = i - 1
          /\ i - 1 \in 1 .. n - 1 /\ (i - 1) + 1 = i
      BY <2>a, Shift
    <2>1. /\ j \in 1 .. Len(branch) + Len(Tail(todo))
          /\ ~(j <= Len(branch)) /\ j - Len(branch) = i - 1
          /\ i - 1 \in 1 .. Len(Tail(todo)) /\ (i - 1) + 1 = i
      BY <2>a, <2>b
    <2>2. Tail(todo)[i - 1] = todo[i]
      BY <1>4, <2>1
    <2> HIDE DEF j
    <2>3. rest[j] = Tail(todo)[j - Len(branch)] /\ j \in DOMAIN rest
      BY <1>5, <1>6, <2>1
    <2>4. rest[j] = todo[i]
      BY <2>1, <2>2, <2>3
    <2> QED
      BY <2>3, <2>4 DEF j
  <1> HIDE DEF todo
  <1>10. ASSUME NEW stmt, Has(proc[r], stmt), Head(todo) # stmt PROVE Has(proc'[r], stmt)
    <2>1. PICK i \in DOMAIN todo : todo[i] = stmt
      BY <1>10 DEF Has, todo
    <2>2. i # 1
      BY <1>4, <1>10, <2>1
    <2> QED
      BY <1>3, <1>9, <2>1, <2>2 DEF Has
  <1>11. \A stmt : Has(proc'[r], stmt) => Has(proc[r], stmt) \/ Among(branch, stmt)
    BY <1>3, <1>7 DEF Has, Among, todo
  <1>12. \A i \in DOMAIN branch : Has(proc'[r], branch[i])
    BY <1>3, <1>8 DEF Has
  <1>13. /\ \A i \in DOMAIN rest : i \in Nat \ {0} /\ (i <= Len(branch) => i \in DOMAIN branch)
         /\ \A i \in DOMAIN branch : i \in Nat \ {0} /\ i <= Len(branch)
         /\ \A i \in DOMAIN todo : i \in Nat \ {0}
         /\ Len(branch) \in Nat
    BY <1>4, <1>5, <1>6
  <1>14. ASSUME NEW i \in DOMAIN rest, ~(i <= Len(branch))
         PROVE  i - Len(branch) + 1 \in DOMAIN todo /\ rest[i] = todo[i - Len(branch) + 1]
    <2> DEFINE j == i - Len(branch)
    <2>1. i \in 1 .. Len(branch) + Len(Tail(todo)) /\ j \in 1 .. Len(Tail(todo)) /\ j + 1 \in 1 .. Len(todo)
      BY <1>4, <1>5, <1>6, <1>14
    <2>2. rest[i] = Tail(todo)[j]
      BY <1>5, <1>14, <2>1
    <2> HIDE DEF j
    <2>3. Tail(todo)[j] = todo[j + 1]
      BY <1>4, <2>1
    <2> QED
      BY <1>4, <2>1, <2>2, <2>3 DEF j
  <1>15. ASSUME Ordered(proc[r]),
                \A i \in DOMAIN branch :
                   /\ branch[i] # "supersede"
                   /\ branch[i] = "supersedeRows" =>
                         Has(proc[r], "clearDate") /\ Head(todo) # "clearDate"
         PROVE  Ordered(proc'[r])
    <2> SUFFICES ASSUME NEW i \in DOMAIN rest, rest[i] \in {"supersede", "supersedeRows"}
                 PROVE  \E j \in DOMAIN rest : i < j /\ rest[j] = "clearDate"
      BY <1>3 DEF Ordered
    <2>1. CASE i <= Len(branch)
      <3>1. Has(proc[r], "clearDate") /\ Head(todo) # "clearDate"
        BY <1>8, <1>13, <1>15, <2>1
      <3>2. PICK j \in DOMAIN todo : todo[j] = "clearDate"
        BY <3>1 DEF Has, todo
      <3>3. j # 1
        BY <1>4, <3>1, <3>2
      <3>4. i < Len(branch) + j - 1
        BY <1>13, <2>1, <3>3
      <3> QED
        BY <1>9, <3>2, <3>3, <3>4
    <2>2. CASE ~(i <= Len(branch))
      <3> DEFINE k == i - Len(branch) + 1
      <3>1. k \in DOMAIN todo /\ rest[i] = todo[k]
        BY <1>14, <2>2
      <3>2. PICK j \in DOMAIN todo : k < j /\ todo[j] = "clearDate"
        BY <1>15, <3>1 DEF Ordered, todo
      <3>3. j # 1 /\ i < Len(branch) + j - 1
        BY <1>13, <2>2, <3>1, <3>2
      <3> QED
        BY <1>9, <3>2, <3>3
    <2> QED
      BY <2>1, <2>2
  <1>16. ASSUME Preceded(proc[r]), Head(todo) # "confirm",
                \A i \in DOMAIN branch : branch[i] # "copyDate"
         PROVE  Preceded(proc'[r])
    <2> SUFFICES ASSUME NEW i \in DOMAIN rest, rest[i] = "copyDate"
                 PROVE  \E j \in DOMAIN rest : j < i /\ rest[j] = "confirm"
      BY <1>3 DEF Preceded
    <2>1. ~(i <= Len(branch))
      BY <1>8, <1>13, <1>16
    <2> DEFINE k == i - Len(branch) + 1
    <2>2. k \in DOMAIN todo /\ rest[i] = todo[k]
      BY <1>14, <2>1
    <2>3. PICK j \in DOMAIN todo : j < k /\ todo[j] = "confirm"
      BY <1>16, <2>2 DEF Preceded, todo
    <2>4. j # 1
      BY <1>4, <1>16, <2>3
    <2>5. Len(branch) + j - 1 < i
      BY <1>13, <2>1, <2>2, <2>3
    <2> QED
      BY <1>9, <2>3, <2>4, <2>5
  <1>17. ASSUME branch # <<>>, branch[1] = "confirm" PROVE Preceded(proc'[r])
    <2>1. 1 \in DOMAIN branch
      BY <1>6, <1>17
    <2>2. 1 \in DOMAIN rest /\ rest[1] = "confirm"
      BY <1>8, <1>17, <2>1
    <2>3. \A i \in DOMAIN rest : rest[i] = "copyDate" => 1 < i
      BY <1>13, <2>2
    <2> QED
      BY <1>3, <2>2, <2>3 DEF Preceded
  <1> QED
    BY <1>2, <1>3, <1>10, <1>11, <1>12, <1>15, <1>16, <1>17 DEF todo

\* What a step of r leaves of r's program and of its rows, as far as dates go.
KeepsProgram(r) ==
    /\ \A q \in Requests \ {r} : proc'[q] = proc[q] /\ writes'[q] = writes[q]
    /\ Has(proc[r], "clearDate") => Has(proc'[r], "clearDate")
    /\ OneTask(proc[r]) => OneTask(proc'[r])
    /\ Supersedes(proc'[r]) => Supersedes(proc[r])
    /\ UNCHANGED db

KeepsRows(r) ==
    /\ DateSeen(writes'[r], db) = DateSeen(writes[r], db)
    /\ \A s \in Schedules \cap DOMAIN writes[r] :
          s \in DOMAIN writes'[r] /\ writes'[r][s] = writes[r][s]
    /\ \A s \in Schedules \cap DOMAIN writes'[r] :
          s \in DOMAIN writes[r] \/ s # DateSeen(writes[r], db)

\* A statement that leaves the date and the schedules of its transaction alone.
LEMMA SameDates ==
    ASSUME IInv, DInv, NEW r \in Requests, KeepsProgram(r), KeepsRows(r),
           Preceded(proc'[r]) \/ (proc'[r].sch = proc[r].sch /\ ~Preceded(proc[r]))
    PROVE  DInv'
  <1>1. DatesOf(proc[r], writes[r], db)
    BY DEF DInv
  <1>2. \A s : ConfirmedBy(writes[r], s) => ConfirmedBy(writes'[r], s)
    BY DEF KeepsRows, ConfirmedBy
  <1>3. DateWritten(proc'[r], writes'[r], db)
    BY <1>1, <1>2 DEF DatesOf, DateWritten, KeepsProgram, KeepsRows
  <1>4. DateCleared(proc'[r], writes'[r], db)
    BY <1>1, <1>2 DEF DatesOf, DateCleared, KeepsProgram, KeepsRows
  <1>5. DateCopied(proc'[r], writes'[r])
    BY <1>1, <1>2 DEF DatesOf, DateCopied
  <1>6. OneTask(proc'[r])
    BY <1>1 DEF DatesOf, KeepsProgram
  <1> QED
    BY <1>3, <1>4, <1>5, <1>6, OthersDates DEF DatesOf, KeepsProgram

\* A statement without a branch: what is left of the program.
LEMMA AdvanceKeeps ==
    ASSUME IInv, NEW r \in Requests, proc[r].todo # <<>>, Advance(r), UNCHANGED db,
           \A q \in Requests \ {r} : writes'[q] = writes[q],
           Head(proc[r].todo) # "clearDate"
    PROVE  /\ KeepsProgram(r) /\ proc'[r].sch = proc[r].sch
           /\ Head(proc[r].todo) # "confirm" /\ Preceded(proc[r]) => Preceded(proc'[r])
  BY Left DEF IInv, KeepsProgram, OneTask, Supersedes, Looks

\* A statement without a branch that leaves the date and the schedules alone.
LEMMA AdvanceDates ==
    ASSUME IInv, DInv, NEW r \in Requests, proc[r].todo # <<>>, Advance(r), UNCHANGED db,
           \A q \in Requests \ {r} : writes'[q] = writes[q],
           Head(proc[r].todo) \notin {"clearDate", "confirm"}, KeepsRows(r)
    PROVE  DInv'
  BY AdvanceKeeps, SameDates

\* transitionStatus and applyQuote write the booking row, but not its date.
LEMMA DatelessPut ==
    ASSUME IInv, NEW r \in Requests, TransitionStatus(r) \/ ApplyQuote(r)
    PROVE  \E W : Put(r, W) /\ DOMAIN W = {BookingRow}
                 /\ W[BookingRow].date = View(r, BookingRow).date
  <1>1. IsBooking(View(r, BookingRow))
    BY Seen
  <1>2. CASE TransitionStatus(r)
    <2> DEFINE to == ToStatus[proc[r].op]
               old == View(r, BookingRow)
               new == [old EXCEPT !.status = to, !.version = @ + 1, !.trail = Append(@, to),
                                  !.quotedBy = IF proc[r].op = "reject" THEN None ELSE @]
               W == [x \in {BookingRow} |-> new]
    <2>1. Put(r, W)
      BY <1>2 DEF TransitionStatus
    <2>2. new.date = old.date
      <3> HIDE DEF old, to
      <3> QED
        BY <1>1 DEF IsBooking, old
    <2> HIDE DEF new
    <2>3. DOMAIN W = {BookingRow} /\ W[BookingRow] = new
      OBVIOUS
    <2> QED
      BY <2>1, <2>2, <2>3
  <1>3. CASE ApplyQuote(r)
    <2> DEFINE new == [View(r, BookingRow) EXCEPT !.quotedBy = proc[r].chosen]
               W == [x \in {BookingRow} |-> new]
    <2>1. Put(r, [x \in {BookingRow} |-> [View(r, x) EXCEPT !.quotedBy = proc[r].chosen]])
      BY <1>3 DEF ApplyQuote, UpdateBooking
    <2>2. W = [x \in {BookingRow} |-> [View(r, x) EXCEPT !.quotedBy = proc[r].chosen]]
      OBVIOUS
    <2>3. new.date = View(r, BookingRow).date
      BY <1>1 DEF IsBooking
    <2> HIDE DEF new
    <2>4. DOMAIN W = {BookingRow} /\ W[BookingRow] = new
      OBVIOUS
    <2> QED
      BY <2>1, <2>2, <2>3, <2>4
  <1> QED
    BY <1>2, <1>3

\* So the date stays.
LEMMA StatusDates ==
    ASSUME IInv, DInv, NEW r \in Requests, TransitionStatus(r) \/ ApplyQuote(r)
    PROVE  DInv'
  <1>1. /\ proc[r].todo # <<>> /\ Advance(r) /\ UNCHANGED db
        /\ Head(proc[r].todo) \notin {"clearDate", "confirm"}
    BY DEF TransitionStatus, ApplyQuote, UpdateBooking, Ready, At
  <1>2. PICK W : Put(r, W) /\ DOMAIN W = {BookingRow}
                 /\ W[BookingRow].date = View(r, BookingRow).date
    BY DatelessPut
  <1>3. /\ \A q \in Requests \ {r} : writes'[q] = writes[q]
        /\ DOMAIN writes'[r] = DOMAIN writes[r] \cup {BookingRow}
        /\ writes'[r][BookingRow] = W[BookingRow]
        /\ \A x \in DOMAIN writes[r] : x # BookingRow => writes'[r][x] = writes[r][x]
    BY <1>2, PutRows DEF IInv
  <1>4. KeepsRows(r)
    BY <1>2, <1>3, TransactionsAssumption DEF KeepsRows, DateSeen, View
  <1> QED
    BY <1>1, <1>3, <1>4, AdvanceDates

\* Statements about assignments write one row of theirs at most.
LEMMA AssignmentWrites ==
    ASSUME IInv, NEW r \in Requests,
           CreateAssignment(r) \/ CloseAssignment(r) \/ WithdrawAssignment(r)
    PROVE  \/ UNCHANGED writes
           \/ \E W, a : Put(r, W) /\ DOMAIN W = {a} /\ a \in Assignments \cup {None}
  <1>1. CASE CreateAssignment(r)
    <2>1. PICK a \in Assignments :
             Put(r, [x \in {a} |-> [status |-> "PENDING", provider |-> proc[r].chosen]])
      BY <1>1 DEF CreateAssignment, Insert, Fresh
    <2>2. DOMAIN [x \in {a} |-> [status |-> "PENDING", provider |-> proc[r].chosen]] = {a}
      OBVIOUS
    <2> QED
      BY <2>1, <2>2
  <1>2. CASE CloseAssignment(r) \/ WithdrawAssignment(r)
    <2> DEFINE a == proc[r].asg
               W == [x \in {a} |-> [View(r, a) EXCEPT !.status = ToAnswer[proc[r].op]]]
    <2>1. UNCHANGED writes \/ Put(r, W)
      BY <1>2 DEF CloseAssignment, WithdrawAssignment
    <2>2. DOMAIN W = {a} /\ a \in Assignments \cup {None}
      BY DEF IInv, Processes, Shape
    <2> HIDE DEF W, a
    <2> QED
      BY <2>1, <2>2
  <1> QED
    BY <1>1, <1>2

\* Statements about assignments, and the check of the index of CONFIRMED rows.
LEMMA AssignmentDates ==
    ASSUME IInv, DInv, NEW r \in Requests,
           \/ CreateAssignment(r) \/ CloseAssignment(r) \/ WithdrawAssignment(r)
           \/ CheckConfirmedIndex(r)
    PROVE  DInv'
  <1>1. /\ proc[r].todo # <<>> /\ Advance(r) /\ UNCHANGED db
        /\ Head(proc[r].todo) \notin {"clearDate", "confirm"}
    BY DEF CreateAssignment, CloseAssignment, WithdrawAssignment, CheckConfirmedIndex, Ready, At
  <1>2. \/ UNCHANGED writes
        \/ \E W, a : Put(r, W) /\ DOMAIN W = {a} /\ a \in Assignments \cup {None}
    BY AssignmentWrites DEF CheckConfirmedIndex
  <1>3. CASE UNCHANGED writes
    <2>1. KeepsRows(r)
      BY <1>3 DEF KeepsRows
    <2> QED
      BY <1>1, <1>3, <2>1, AdvanceDates
  <1>4. ASSUME NEW W, NEW a \in Assignments \cup {None}, Put(r, W), DOMAIN W = {a} PROVE DInv'
    <2>1. a \notin Schedules /\ a # BookingRow
      BY TransactionsAssumption
    <2>2. /\ \A q \in Requests \ {r} : writes'[q] = writes[q]
          /\ DOMAIN writes'[r] = DOMAIN writes[r] \cup {a}
          /\ \A x \in DOMAIN writes[r] : x # a => writes'[r][x] = writes[r][x]
      BY <1>4, PutRows DEF IInv
    <2>3. KeepsRows(r)
      BY <2>1, <2>2 DEF KeepsRows, DateSeen
    <2> QED
      BY <1>1, <2>2, <2>3, AdvanceDates
  <1> QED
    BY <1>2, <1>3, <1>4

\* A new proposal takes a row that no date names.
LEMMA ScheduleDates ==
    ASSUME IInv, DInv, NEW r \in Requests, CreateSchedule(r)
    PROVE  DInv'
  <1>1. /\ proc[r].todo # <<>> /\ Advance(r) /\ UNCHANGED db
        /\ Head(proc[r].todo) \notin {"clearDate", "confirm"}
    BY DEF CreateSchedule, Ready, At
  <1> DEFINE row == [status |-> "PENDING", by |-> proc[r].actor, confirmedBy |-> None]
  <1>2. PICK new \in Fresh(Schedules) : Put(r, [x \in {new} |-> row])
    BY DEF CreateSchedule, Insert
  <1> DEFINE W == [x \in {new} |-> row]
  <1>3. Put(r, W) /\ DOMAIN W = {new}
    BY <1>2
  <1> HIDE DEF W, row
  <1>4. /\ \A q \in Requests \ {r} : writes'[q] = writes[q]
        /\ DOMAIN writes'[r] = DOMAIN writes[r] \cup {new}
        /\ \A x \in DOMAIN writes[r] : x # new => writes'[r][x] = writes[r][x]
    BY <1>3, PutRows DEF IInv
  <1>5. /\ new \in Schedules /\ new # BookingRow /\ db[new].status = "FREE" /\ new # None
        /\ new \notin DOMAIN writes[r]
    BY TransactionsAssumption DEF Fresh
  <1>6. new # DateSeen(writes[r], db)
    BY <1>5 DEF DInv, DatesOf, DateWritten, ConfirmedBy, DateCommitted, booking
  <1>7. KeepsRows(r)
    BY <1>4, <1>5, <1>6 DEF KeepsRows, DateSeen
  <1> QED
    BY <1>1, <1>4, <1>7, AdvanceDates

\* closeSchedule: the row the request is about to copy is CONFIRMED from now on.
LEMMA ConfirmDates ==
    ASSUME IInv, DInv, NEW r \in Requests, CloseSchedule(r)
    PROVE  DInv'
  <1> DEFINE s == proc[r].sch
             row == [View(r, s) EXCEPT !.status = "CONFIRMED", !.confirmedBy = proc[r].actor]
             W == [x \in {s} |-> row]
  <1>1. /\ proc[r].todo # <<>> /\ Head(proc[r].todo) = "confirm" /\ Advance(r) /\ UNCHANGED db
    BY DEF CloseSchedule, Ready, At
  <1>2. Put(r, W)
    BY DEF CloseSchedule
  <1>3. Confirms(proc[r])
    <2>1. proc[r].todo \in Seq(Steps)
      BY DEF IInv, Processes, Shape
    <2>2. 1 \in DOMAIN proc[r].todo /\ proc[r].todo[1] = "confirm"
      BY <1>1, <2>1, HeadTailProperties
    <2> QED
      BY <2>2 DEF Confirms
  <1>4. s \in Schedules
    BY <1>3 DEF IInv, Answering, Answers, AnswersTo
  <1>5. s # BookingRow /\ row.status = "CONFIRMED"
    <2>1. View(r, s) \in ScheduleRecord
      BY <1>4, Seen
    <2> QED
      BY <1>4, <2>1, TransactionsAssumption DEF ScheduleRecord
  <1>6. DOMAIN W = {s} /\ W[s] = row
    OBVIOUS
  <1> HIDE DEF W, row
  <1>7. /\ \A q \in Requests \ {r} : writes'[q] = writes[q]
        /\ DOMAIN writes'[r] = DOMAIN writes[r] \cup {s}
        /\ writes'[r][s].status = "CONFIRMED"
        /\ \A x \in DOMAIN writes[r] : x # s => writes'[r][x] = writes[r][x]
    BY <1>2, <1>5, <1>6, PutRows DEF IInv
  <1>8. KeepsProgram(r) /\ proc'[r].sch = s
    BY <1>1, <1>7, AdvanceKeeps
  <1>9. DateSeen(writes'[r], db) = DateSeen(writes[r], db)
    BY <1>5, <1>7 DEF DateSeen
  <1>10. ConfirmedBy(writes'[r], s) /\ \A x : ConfirmedBy(writes[r], x) => ConfirmedBy(writes'[r], x)
    BY <1>4, <1>7 DEF ConfirmedBy
  <1>11. DatesOf(proc[r], writes[r], db)
    BY DEF DInv
  <1>12. DateWritten(proc'[r], writes'[r], db)
    BY <1>8, <1>9, <1>10, <1>11 DEF DatesOf, DateWritten, KeepsProgram
  <1>13. DateCleared(proc'[r], writes'[r], db)
    BY <1>7, <1>8, <1>9, <1>10, <1>11 DEF DatesOf, DateCleared, KeepsProgram
  <1>14. DateCopied(proc'[r], writes'[r])
    BY <1>8, <1>10 DEF DateCopied
  <1>15. OneTask(proc'[r])
    BY <1>8, <1>11 DEF DatesOf, KeepsProgram
  <1> QED
    BY <1>8, <1>12, <1>13, <1>14, <1>15, OthersDates DEF DatesOf, KeepsProgram

\* supersedeOpenSchedules: the date is cleared after that.
LEMMA SupersedeDates ==
    ASSUME IInv, DInv, NEW r \in Requests, SupersedeRows(r)
    PROVE  DInv'
  <1> DEFINE open == {s \in proc[r].targets : View(r, s).status \in Open}
             W == [s \in open |-> [View(r, s) EXCEPT !.status = "SUPERSEDED"]]
             changes == [targets |-> {}]
  <1>1. /\ proc[r].todo # <<>> /\ Head(proc[r].todo) = "supersedeRows" /\ UNCHANGED db
        /\ Put(r, W) /\ Continue(r, changes, <<>>)
    BY DEF SupersedeRows, Ready, At
  <1>2. DOMAIN W = open /\ open \subseteq Schedules /\ BookingRow \notin open
    BY TransactionsAssumption DEF IInv, Processes, Shape
  <1>3. /\ DOMAIN changes = {"targets"} /\ <<>> \in Seq(Steps) /\ DOMAIN <<>> = {}
    OBVIOUS
  <1> HIDE DEF W, changes, open
  <1>4. /\ \A q \in Requests \ {r} : proc'[q] = proc[q]
        /\ proc'[r].sch = proc[r].sch
        /\ \A stmt : Has(proc'[r], stmt) => Has(proc[r], stmt)
        /\ \A stmt : Has(proc[r], stmt) /\ Head(proc[r].todo) # stmt => Has(proc'[r], stmt)
        /\ Ordered(proc[r]) => Ordered(proc'[r])
        /\ Preceded(proc[r]) => Preceded(proc'[r])
    BY <1>1, <1>3, LeftWithBranch DEF IInv, Among
  <1>5. /\ \A q \in Requests \ {r} : writes'[q] = writes[q]
        /\ BookingRow \in DOMAIN writes'[r] <=> BookingRow \in DOMAIN writes[r]
        /\ BookingRow \in DOMAIN writes[r] => writes'[r][BookingRow] = writes[r][BookingRow]
    BY <1>1, <1>2, PutRows DEF IInv
  <1>6. Supersedes(proc[r]) /\ OneTask(proc[r])
    <2>1. proc[r].todo \in Seq(Steps)
      BY DEF IInv, Processes, Shape
    <2>2. 1 \in DOMAIN proc[r].todo /\ proc[r].todo[1] = "supersedeRows"
      BY <1>1, <2>1, HeadTailProperties
    <2> QED
      BY <2>2 DEF Supersedes, Has, DInv, DatesOf
  <1>7. Has(proc[r], "clearDate")
    BY <1>6 DEF OneTask, Ordered, Supersedes, Has
  <1>8. DateSeen(writes'[r], db) = DateSeen(writes[r], db)
    BY <1>5 DEF DateSeen
  <1>9. DateWritten(proc'[r], writes'[r], db)
    BY <1>6, <1>8 DEF DInv, DatesOf, DateWritten
  <1>10. DateCleared(proc'[r], writes'[r], db)
    BY <1>1, <1>4, <1>7 DEF DateCleared
  <1>11. DateCopied(proc'[r], writes'[r])
    <2>1. ~Has(proc'[r], "copyDate")
      BY <1>4, <1>6 DEF OneTask
    <2> QED
      BY <2>1 DEF DateCopied, Preceded, Has
  <1>12. OneTask(proc'[r])
    BY <1>4, <1>6 DEF OneTask, Supersedes, Looks
  <1> QED
    BY <1>1, <1>4, <1>5, <1>9, <1>10, <1>11, <1>12, OthersDates DEF DatesOf

\* A write to the booking row that gives the date a value.
LEMMA DatePut ==
    ASSUME IInv, NEW r \in Requests, NEW stmt, NEW value,
           UpdateBooking(r, stmt, "date", value)
    PROVE  /\ proc[r].todo # <<>> /\ Head(proc[r].todo) = stmt /\ Advance(r) /\ UNCHANGED db
           /\ \A q \in Requests \ {r} : writes'[q] = writes[q]
           /\ DateSeen(writes'[r], db) = value /\ BookingRow \in DOMAIN writes'[r]
           /\ Schedules \cap DOMAIN writes'[r] = Schedules \cap DOMAIN writes[r]
           /\ \A s \in Schedules \cap DOMAIN writes[r] : writes'[r][s] = writes[r][s]
  <1>1. proc[r].todo # <<>> /\ Head(proc[r].todo) = stmt /\ Advance(r) /\ UNCHANGED db
    BY DEF UpdateBooking, Ready, At
  <1> DEFINE new == [View(r, BookingRow) EXCEPT !.date = value]
             W == [x \in {BookingRow} |-> new]
  <1>2. Put(r, W)
    <2>1. Put(r, [x \in {BookingRow} |-> [View(r, x) EXCEPT !.date = value]])
      BY DEF UpdateBooking
    <2>2. W = [x \in {BookingRow} |-> [View(r, x) EXCEPT !.date = value]]
      OBVIOUS
    <2> HIDE DEF W
    <2> QED
      BY <2>1, <2>2
  <1>3. new.date = value
    <2>1. IsBooking(View(r, BookingRow))
      BY Seen
    <2> QED
      BY <2>1 DEF IsBooking
  <1>4. DOMAIN W = {BookingRow} /\ W[BookingRow] = new
    OBVIOUS
  <1> HIDE DEF W, new
  <1>5. /\ \A q \in Requests \ {r} : writes'[q] = writes[q]
        /\ DOMAIN writes'[r] = DOMAIN writes[r] \cup {BookingRow}
        /\ writes'[r][BookingRow].date = value
        /\ \A x \in DOMAIN writes[r] : x # BookingRow => writes'[r][x] = writes[r][x]
    BY <1>2, <1>3, <1>4, PutRows DEF IInv
  <1> QED
    BY <1>1, <1>5, TransactionsAssumption DEF DateSeen

\* clearConfirmedDate: the date is none.
LEMMA ClearDates ==
    ASSUME IInv, DInv, NEW r \in Requests, ClearConfirmedDate(r)
    PROVE  DInv'
  <1>1. UpdateBooking(r, "clearDate", "date", None)
    BY DEF ClearConfirmedDate
  <1>2. /\ proc[r].todo # <<>> /\ Head(proc[r].todo) = "clearDate" /\ Advance(r) /\ UNCHANGED db
        /\ \A q \in Requests \ {r} : writes'[q] = writes[q]
        /\ DateSeen(writes'[r], db) = None
        /\ Schedules \cap DOMAIN writes'[r] = Schedules \cap DOMAIN writes[r]
        /\ \A s \in Schedules \cap DOMAIN writes[r] : writes'[r][s] = writes[r][s]
    BY <1>1, DatePut
  <1>3. /\ \A q \in Requests \ {r} : proc'[q] = proc[q]
        /\ proc'[r].sch = proc[r].sch
        /\ \A stmt : Has(proc'[r], stmt) => Has(proc[r], stmt)
        /\ Ordered(proc[r]) => Ordered(proc'[r])
        /\ Preceded(proc[r]) => Preceded(proc'[r])
    BY <1>2, Left DEF IInv
  <1>4. DatesOf(proc[r], writes[r], db)
    BY DEF DInv
  <1>5. DateWritten(proc'[r], writes'[r], db) /\ DateCleared(proc'[r], writes'[r], db)
    BY <1>2, TransactionsAssumption DEF DateWritten, DateCleared
  <1>6. DateCopied(proc'[r], writes'[r])
    BY <1>2, <1>3, <1>4 DEF DatesOf, DateCopied, ConfirmedBy
  <1>7. OneTask(proc'[r])
    BY <1>3, <1>4 DEF DatesOf, OneTask, Supersedes, Looks
  <1> QED
    BY <1>2, <1>3, <1>5, <1>6, <1>7, OthersDates DEF DatesOf

\* copyConfirmedDate: the date is that of the row the request has confirmed.
LEMMA CopyDates ==
    ASSUME IInv, DInv, NEW r \in Requests, CopyConfirmedDate(r)
    PROVE  DInv'
  <1>1. UpdateBooking(r, "copyDate", "date", proc[r].sch)
    BY DEF CopyConfirmedDate
  <1>2. /\ proc[r].todo # <<>> /\ Head(proc[r].todo) = "copyDate" /\ Advance(r) /\ UNCHANGED db
        /\ \A q \in Requests \ {r} : writes'[q] = writes[q]
        /\ DateSeen(writes'[r], db) = proc[r].sch
        /\ Schedules \cap DOMAIN writes'[r] = Schedules \cap DOMAIN writes[r]
        /\ \A s \in Schedules \cap DOMAIN writes[r] : writes'[r][s] = writes[r][s]
    BY <1>1, DatePut
  <1>3. KeepsProgram(r) /\ proc'[r].sch = proc[r].sch
        /\ (Preceded(proc[r]) => Preceded(proc'[r]))
    BY <1>2, AdvanceKeeps
  <1>4. DatesOf(proc[r], writes[r], db)
    BY DEF DInv
  <1>5. 1 \in DOMAIN proc[r].todo /\ proc[r].todo[1] = "copyDate"
        /\ \A i \in DOMAIN proc[r].todo : ~(i < 1)
    <2>1. proc[r].todo \in Seq(Steps)
      BY DEF IInv, Processes, Shape
    <2> QED
      BY <1>2, <2>1, HeadTailProperties
  <1>6. ConfirmedBy(writes[r], proc[r].sch) /\ ~Supersedes(proc[r])
    <2>1. ~Preceded(proc[r])
      BY <1>5 DEF Preceded
    <2>2. Has(proc[r], "copyDate")
      BY <1>5 DEF Has
    <2> QED
      BY <1>4, <2>1, <2>2 DEF DatesOf, DateCopied, OneTask
  <1>7. ConfirmedBy(writes'[r], proc[r].sch) /\ ~Supersedes(proc'[r])
    BY <1>2, <1>3, <1>6 DEF ConfirmedBy, KeepsProgram
  <1>8. DateWritten(proc'[r], writes'[r], db) /\ DateCleared(proc'[r], writes'[r], db)
    BY <1>2, <1>7 DEF DateWritten, DateCleared
  <1>9. DateCopied(proc'[r], writes'[r])
    BY <1>3, <1>7 DEF DateCopied
  <1>10. OneTask(proc'[r])
    BY <1>3, <1>4 DEF DatesOf, KeepsProgram
  <1> QED
    BY <1>3, <1>8, <1>9, <1>10, OthersDates DEF DatesOf, KeepsProgram

\* A statement that only reads, and puts a branch in front of the rest.
LEMMA BranchDates ==
    ASSUME IInv, DInv, NEW r \in Requests, proc[r].todo # <<>>, UNCHANGED <<db, writes>>,
           NEW changes, NEW branch \in Seq(Steps), Continue(r, changes, branch),
           DOMAIN changes \subseteq {"asg", "asgSeen", "sch", "targets"},
           Head(proc[r].todo) \notin {"clearDate", "confirm"},
           \A i \in DOMAIN branch :
              /\ branch[i] \notin {"supersede", "findPending", "readPending"}
              /\ branch[i] = "supersedeRows" => Supersedes(proc[r]),
           \/ branch # <<>> /\ branch[1] = "confirm" /\ ~Supersedes(proc[r])
           \/ "sch" \notin DOMAIN changes /\ \A i \in DOMAIN branch : branch[i] # "copyDate"
    PROVE  DInv'
  <1>1. OneTask(proc[r])
    BY DEF DInv, DatesOf
  <1>2. Supersedes(proc[r]) => Has(proc[r], "clearDate")
    BY <1>1 DEF OneTask, Ordered, Supersedes, Has
  <1>3. /\ \A q \in Requests \ {r} : proc'[q] = proc[q]
        /\ "sch" \notin DOMAIN changes => proc'[r].sch = proc[r].sch
        /\ \A stmt : Has(proc'[r], stmt) => Has(proc[r], stmt) \/ Among(branch, stmt)
        /\ Has(proc[r], "clearDate") => Has(proc'[r], "clearDate")
        /\ (/\ Ordered(proc[r])
            /\ \A i \in DOMAIN branch :
                 /\ branch[i] # "supersede"
                 /\ branch[i] = "supersedeRows" =>
                       Has(proc[r], "clearDate") /\ Head(proc[r].todo) # "clearDate")
              => Ordered(proc'[r])
        /\ (/\ Preceded(proc[r]) /\ Head(proc[r].todo) # "confirm"
            /\ \A i \in DOMAIN branch : branch[i] # "copyDate")
              => Preceded(proc'[r])
        /\ branch # <<>> /\ branch[1] = "confirm" => Preceded(proc'[r])
    <2>1. Processes /\ Head(proc[r].todo) # "clearDate"
      BY DEF IInv
    <2>2. /\ \A q \in Requests \ {r} : proc'[q] = proc[q]
          /\ proc'[r].sch = IF "sch" \in DOMAIN changes THEN changes["sch"] ELSE proc[r].sch
      BY <2>1, LeftWithBranch
    <2>5. \A stmt : Has(proc'[r], stmt) => Has(proc[r], stmt) \/ Among(branch, stmt)
      BY <2>1, LeftWithBranch
    <2>6. \A stmt : Has(proc[r], stmt) /\ Head(proc[r].todo) # stmt => Has(proc'[r], stmt)
      BY <2>1, LeftWithBranch
    <2>3. (/\ Ordered(proc[r])
           /\ \A i \in DOMAIN branch :
                /\ branch[i] # "supersede"
                /\ branch[i] = "supersedeRows" =>
                      Has(proc[r], "clearDate") /\ Head(proc[r].todo) # "clearDate")
             => Ordered(proc'[r])
      BY <2>1, LeftWithBranch
    <2>4. /\ (/\ Preceded(proc[r]) /\ Head(proc[r].todo) # "confirm"
              /\ \A i \in DOMAIN branch : branch[i] # "copyDate")
                => Preceded(proc'[r])
          /\ branch # <<>> /\ branch[1] = "confirm" => Preceded(proc'[r])
      BY <2>1, LeftWithBranch
    <2> QED
      BY <2>1, <2>2, <2>3, <2>4, <2>5, <2>6
  <1>4. Ordered(proc'[r])
    BY <1>1, <1>2, <1>3 DEF OneTask
  <1>5. Supersedes(proc'[r]) => Supersedes(proc[r])
    BY <1>3 DEF Supersedes, Among
  <1>6. Supersedes(proc'[r]) => ~Has(proc'[r], "copyDate") /\ ~Looks(proc'[r])
    BY <1>1, <1>3, <1>5 DEF OneTask, Looks, Among
  <1>7. KeepsProgram(r)
    BY <1>3, <1>4, <1>5, <1>6 DEF KeepsProgram, OneTask
  <1>8. KeepsRows(r)
    BY DEF KeepsRows
  <1>9. Preceded(proc'[r]) \/ (proc'[r].sch = proc[r].sch /\ ~Preceded(proc[r]))
    BY <1>3
  <1> QED
    BY <1>7, <1>8, <1>9, SameDates

\* findActiveAssignment, in cancel and confirmSchedule.
LEMMA FindActiveDates ==
    ASSUME IInv, DInv, NEW r \in Requests, FindActiveAssignment(r)
    PROVE  DInv'
  <1>1. /\ proc[r].todo # <<>> /\ UNCHANGED <<db, writes>>
        /\ Head(proc[r].todo) \notin {"clearDate", "confirm"}
    BY DEF FindActiveAssignment, Ready, At
  <1>2. ASSUME NEW changes, NEW branch \in {<<>>, <<"answer">>}, Continue(r, changes, branch),
               DOMAIN changes \subseteq {"asg", "asgSeen"}
        PROVE  DInv'
    <2>1. branch \in Seq(Steps) /\ \A i \in DOMAIN branch : branch[i] = "answer"
      <3>1. CASE branch = <<>>
        BY <3>1
      <3>2. CASE branch = <<"answer">>
        BY <3>2 DEF Steps
      <3> QED
        BY <1>2, <3>1, <3>2
    <2> QED
      BY <1>1, <1>2, <2>1, BranchDates
  <1>3. CASE Continue(r, [asg |-> None], <<>>)
    <2> DEFINE changes == [asg |-> None]
    <2>1. DOMAIN changes = {"asg"} /\ Continue(r, changes, <<>>)
      BY <1>3
    <2> HIDE DEF changes
    <2> QED
      BY <1>2, <2>1
  <1>4. ASSUME NEW a \in Assignments, NEW branch \in {<<>>, <<"answer">>},
               Continue(r, [asg |-> a, asgSeen |-> View(r, a).status], branch)
        PROVE  DInv'
    <2> DEFINE changes == [asg |-> a, asgSeen |-> View(r, a).status]
    <2>1. DOMAIN changes = {"asg", "asgSeen"} /\ Continue(r, changes, branch)
      BY <1>4
    <2> HIDE DEF changes
    <2> QED
      BY <1>2, <2>1
  <1>5. \/ Continue(r, [asg |-> None], <<>>)
        \/ \E a \in Assignments, branch \in {<<>>, <<"answer">>} :
              Continue(r, [asg |-> a, asgSeen |-> View(r, a).status], branch)
    BY DEF FindActiveAssignment, LiveAssignments
  <1> QED
    BY <1>3, <1>4, <1>5

\* The statement a request is at is one of those it has left.
LEMMA Heads ==
    ASSUME IInv, NEW r \in Requests, proc[r].todo # <<>>
    PROVE  Has(proc[r], Head(proc[r].todo))
  <1>1. proc[r].todo \in Seq(Steps)
    BY DEF IInv, Processes, Shape
  <1>2. 1 \in DOMAIN proc[r].todo /\ proc[r].todo[1] = Head(proc[r].todo)
    BY <1>1, HeadTailProperties
  <1> QED
    BY <1>2 DEF Has

\* The snapshot of supersedeOpenSchedules.
LEMMA SnapshotDates ==
    ASSUME IInv, DInv, NEW r \in Requests, SupersedeSnapshot(r)
    PROVE  DInv'
  <1> DEFINE changes == [targets |-> {s \in Schedules : View(r, s).status \in Open}]
             branch == <<"supersedeRows">>
  <1>1. /\ proc[r].todo # <<>> /\ UNCHANGED <<db, writes>>
        /\ Continue(r, changes, branch) /\ Head(proc[r].todo) = "supersede"
    BY DEF SupersedeSnapshot, Ready, At
  <1>2. /\ DOMAIN changes = {"targets"}
        /\ branch \in Seq(Steps) /\ \A i \in DOMAIN branch : branch[i] = "supersedeRows"
    BY DEF Steps
  <1> HIDE DEF changes, branch
  <1>3. Supersedes(proc[r])
    BY <1>1, Heads DEF Supersedes
  <1> QED
    BY <1>1, <1>2, <1>3, BranchDates

\* A request that found a proposal confirms it before it copies the date.
LEMMA FoundDates ==
    ASSUME IInv, DInv, NEW r \in Requests, proc[r].todo # <<>>, UNCHANGED <<db, writes>>,
           Head(proc[r].todo) \in {"findPending", "readPending"},
           NEW s \in Schedules, NEW branch, Continue(r, [sch |-> s], branch),
           \/ branch = <<"confirm", "indexConfirmed", "copyDate">>
           \/ branch = <<"confirm", "indexConfirmed", "copyDate", "findActive", "transition">>
    PROVE  DInv'
  <1> DEFINE changes == [sch |-> s]
  <1>1. DOMAIN changes = {"sch"} /\ Continue(r, changes, branch)
    OBVIOUS
  <1> HIDE DEF changes
  <1>2. ~Supersedes(proc[r])
    BY Heads DEF DInv, DatesOf, OneTask, Looks
  <1>3. /\ branch \in Seq(Steps) /\ branch # <<>> /\ branch[1] = "confirm"
        /\ \A i \in DOMAIN branch : branch[i] \in
              {"confirm", "indexConfirmed", "copyDate", "findActive", "transition"}
    <2>1. CASE branch = <<"confirm", "indexConfirmed", "copyDate">>
      BY <2>1 DEF Steps
    <2>2. CASE branch = <<"confirm", "indexConfirmed", "copyDate", "findActive", "transition">>
      BY <2>2 DEF Steps
    <2> QED
      BY <2>1, <2>2
  <1> QED
    BY <1>1, <1>2, <1>3, BranchDates

\* A request that holds no row and has nothing left but what does not need one.
LEMMA NothingHeld ==
    ASSUME NEW p, NEW held, NEW rows, DOMAIN held = {}, Preceded(p), OneTask(p)
    PROVE  DatesOf(p, held, rows)
  BY DEF DatesOf, DateWritten, DateCleared, DateCopied, DateSeen

\* A request that is not running has nothing left.
LEMMA NothingLeft == Preceded(Idle) /\ OneTask(Idle)
  BY DEF Idle, Preceded, OneTask, Ordered, Supersedes, Has

\* The handler throws, or the connection is lost.
LEMMA RolledBackDates ==
    ASSUME IInv, DInv, NEW r \in Requests, Rollback(r)
    PROVE  DInv'
  <1>1. proc'[r] = Idle /\ \A q \in Requests \ {r} : proc'[q] = proc[q]
    BY Ends DEF IInv, Rollback
  <1>2. /\ DOMAIN writes'[r] = {} /\ UNCHANGED db
        /\ \A q \in Requests \ {r} : writes'[q] = writes[q]
    BY DEF IInv, Pending, Rollback, NoWrites
  <1>3. DatesOf(proc'[r], writes'[r], db)
    BY <1>1, <1>2, NothingHeld, NothingLeft
  <1> QED
    BY <1>1, <1>2, <1>3, OthersDates

\* accept and confirmSchedule look for the proposal.
LEMMA LookDates ==
    ASSUME IInv, DInv, NEW r \in Requests, FindPendingSchedule(r) \/ ReadPendingSchedule(r)
    PROVE  DInv'
  <1>1. /\ proc[r].todo # <<>> /\ Head(proc[r].todo) \in {"findPending", "readPending"}
    BY DEF FindPendingSchedule, ReadPendingSchedule, Ready, At
  <1>2. CASE Rollback(r)
    BY <1>2, RolledBackDates
  <1>3. CASE Advance(r) /\ UNCHANGED <<db, writes>>
    <2>1. KeepsRows(r)
      BY <1>3 DEF KeepsRows
    <2> QED
      BY <1>1, <1>3, <2>1, AdvanceDates
  <1>4. ASSUME NEW s \in Schedules, UNCHANGED <<db, writes>>,
               NEW branch \in {<<"confirm", "indexConfirmed", "copyDate">>,
                   <<"confirm", "indexConfirmed", "copyDate", "findActive", "transition">>},
               Continue(r, [sch |-> s], branch)
        PROVE  DInv'
    BY <1>1, <1>4, FoundDates
  <1>5. \/ Rollback(r) \/ (Advance(r) /\ UNCHANGED <<db, writes>>)
        \/ \E s \in Schedules,
              branch \in {<<"confirm", "indexConfirmed", "copyDate">>,
                   <<"confirm", "indexConfirmed", "copyDate", "findActive", "transition">>} :
              UNCHANGED <<db, writes>> /\ Continue(r, [sch |-> s], branch)
    <2>1. CASE FindPendingSchedule(r)
      BY <2>1 DEF FindPendingSchedule
    <2>2. CASE ReadPendingSchedule(r)
      BY <2>2 DEF ReadPendingSchedule
    <2> QED
      BY <2>1, <2>2
  <1> QED
    BY <1>2, <1>3, <1>4, <1>5

\* The programs the handlers start with.
LEMMA BegunDates ==
    ASSUME IInv, DInv, NEW r \in Requests, NEW op, NEW a, NEW fields, NEW program,
           Begin(r, op, a, fields, program), "todo" \notin DOMAIN fields,
           Preceded([todo |-> program]), OneTask([todo |-> program])
    PROVE  DInv'
  <1>1. DOMAIN Idle = Fields
    BY IdleShape
  <1> DEFINE seen == [status |-> booking.status, version |-> booking.version]
             begun == [x \in Fields |->
               CASE x = "op" -> op
                 [] x = "actor" -> a
                 [] x = "seen" -> seen
                 [] x = "todo" -> program
                 [] x \in DOMAIN fields -> fields[x]
                 [] OTHER -> Idle[x]]
  <1>2. /\ \A q \in Requests \ {r} : proc'[q] = proc[q]
        /\ proc'[r].todo = program /\ proc[r] = Idle /\ UNCHANGED <<db, writes>>
    <2>1. proc' = [proc EXCEPT ![r] = begun] /\ proc[r] = Idle /\ UNCHANGED <<db, writes>>
      BY <1>1 DEF Begin
    <2> HIDE DEF seen
    <2> HIDE DEF begun
    <2>2. proc'[r] = begun /\ \A q \in Requests \ {r} : proc'[q] = proc[q]
      BY <2>1 DEF IInv, Processes
    <2>3. proc'[r].todo = program
      BY <2>2 DEF begun, Fields
    <2> QED
      BY <2>1, <2>2, <2>3
  <1>3. DOMAIN writes'[r] = {}
    BY <1>2 DEF IInv, Pending
  <1>4. Preceded(proc'[r]) /\ OneTask(proc'[r])
    BY <1>2 DEF Preceded, OneTask, Ordered, Supersedes, Looks, Has
  <1>5. DatesOf(proc'[r], writes'[r], db)
    BY <1>3, <1>4, NothingHeld
  <1> QED
    BY <1>2, <1>5, OthersDates

\* Programs that supersede nothing.
LEMMA Harmless ==
    ASSUME NEW program,
           \A i \in DOMAIN program : program[i] \notin {"supersede", "supersedeRows", "copyDate"}
    PROVE  Preceded([todo |-> program]) /\ OneTask([todo |-> program])
  BY DEF Preceded, OneTask, Ordered, Supersedes, Has

\* Each handler's read phase.
LEMMA StartDates ==
    ASSUME IInv, DInv, NEW r \in Requests, Start(r)
    PROVE  DInv'
  <1>1. ASSUME NEW p \in Providers, BeginAssign(r, p) PROVE DInv'
    <2> DEFINE program == <<"transition", "createAssignment", "supersede", "clearDate",
                            "createSchedule", "applyQuote">>
    <2>1. Begin(r, "assign", Customer, [chosen |-> p], program)
      BY <1>1 DEF BeginAssign
    <2>2. /\ DOMAIN program = 1 .. 6 /\ program[1] = "transition"
          /\ program[2] = "createAssignment" /\ program[3] = "supersede"
          /\ program[4] = "clearDate" /\ program[5] = "createSchedule"
          /\ program[6] = "applyQuote"
      OBVIOUS
    <2> HIDE DEF program
    <2>3. Preceded([todo |-> program]) /\ OneTask([todo |-> program])
      BY <2>2 DEF Preceded, OneTask, Ordered, Supersedes, Looks, Has
    <2>4. "todo" \notin DOMAIN [chosen |-> p]
      OBVIOUS
    <2> QED
      BY <2>1, <2>3, <2>4, BegunDates
  <1>2. ASSUME NEW a \in Parties, BeginPropose(r, a) PROVE DInv'
    <2> DEFINE program == <<"supersede", "clearDate", "createSchedule">>
    <2>1. Begin(r, "propose", a, [sch |-> None], program)
      BY <1>2 DEF BeginPropose
    <2>2. /\ DOMAIN program = 1 .. 3 /\ program[1] = "supersede"
          /\ program[2] = "clearDate" /\ program[3] = "createSchedule"
      OBVIOUS
    <2> HIDE DEF program
    <2>3. Preceded([todo |-> program]) /\ OneTask([todo |-> program])
      BY <2>2 DEF Preceded, OneTask, Ordered, Supersedes, Looks, Has
    <2>4. "todo" \notin DOMAIN [sch |-> None]
      OBVIOUS
    <2> QED
      BY <2>1, <2>3, <2>4, BegunDates
  <1>3. ASSUME NEW op, NEW a, NEW fields, "todo" \notin DOMAIN fields,
               NEW program \in {<<"findActive", "withdraw", "transition">>,
                                <<"answer", "findPending", "transition">>,
                                <<"answer", "transition">>, <<"readPending">>, <<"transition">>},
               Begin(r, op, a, fields, program)
        PROVE  DInv'
    <2>1. \A i \in DOMAIN program : program[i] \notin {"supersede", "supersedeRows", "copyDate"}
      BY <1>3
    <2> QED
      BY <1>3, <2>1, Harmless, BegunDates
  <1>0. "todo" \notin DOMAIN [sch |-> None] /\ \A x : "todo" \notin DOMAIN [asg |-> x]
    OBVIOUS
  <1>4. ASSUME NEW a \in Parties, BeginCancel(r, a) PROVE DInv'
    BY <1>0, <1>3, <1>4 DEF BeginCancel
  <1>5. ASSUME NEW p \in Providers, BeginAccept(r, p) PROVE DInv'
    BY <1>0, <1>3, <1>5 DEF BeginAccept
  <1>6. ASSUME NEW p \in Providers, BeginReject(r, p) PROVE DInv'
    BY <1>0, <1>3, <1>6 DEF BeginReject
  <1>7. ASSUME NEW a \in Parties, BeginConfirm(r, a) PROVE DInv'
    BY <1>0, <1>3, <1>7 DEF BeginConfirm
  <1>8. ASSUME NEW p \in Providers, BeginMarkComplete(r, p) PROVE DInv'
    BY <1>0, <1>3, <1>8 DEF BeginMarkComplete
  <1>9. CASE BeginConfirmCompletion(r)
    BY <1>0, <1>3, <1>9 DEF BeginConfirmCompletion
  <1> QED
    BY <1>1, <1>2, <1>4, <1>5, <1>6, <1>7, <1>8, <1>9 DEF Start

\* A commit makes the date a request sees the committed one; nobody else holds the
\* rows it is about.
LEMMA CommitDates ==
    ASSUME IInv, DInv, NEW r \in Requests, Commit(r)
    PROVE  DInv'
  <1>1. /\ proc'[r] = Idle /\ \A q \in Requests \ {r} : proc'[q] = proc[q]
        /\ booking' = View(r, BookingRow)
    BY Commits
  <1>2. /\ DOMAIN writes'[r] = {} /\ \A q \in Requests \ {r} : writes'[q] = writes[q]
        /\ \A x \in Rows : db'[x] = View(r, x)
        /\ proc[r].todo = <<>>
    BY DEF IInv, Pending, Commit, NoWrites
  <1> DEFINE d == DateSeen(writes[r], db)
  <1>3. booking'.date = d
    BY <1>1 DEF View, DateSeen
  <1>4. DatesOf(proc[r], writes[r], db) /\ ~Has(proc[r], "clearDate")
    BY <1>2 DEF DInv, Has
  <1>5. d # None => d \in Schedules /\ db'[d].status = "CONFIRMED"
    <2>1. ASSUME d # None PROVE d \in Schedules /\ db'[d].status = "CONFIRMED"
      <3>1. CASE ConfirmedBy(writes[r], d)
        BY <1>2, <3>1 DEF ConfirmedBy, View, Rows
      <3>2. CASE d = db[BookingRow].date /\ ~ConfirmedBy(writes[r], d)
        <4>1. d \in Schedules /\ db[d].status = "CONFIRMED"
          BY <2>1, <3>2 DEF DInv, DateCommitted, booking
        <4>2. d \notin DOMAIN writes[r]
          BY <1>4, <3>2, <4>1 DEF DatesOf, DateCleared
        <4> QED
          BY <1>2, <4>1, <4>2 DEF View, Rows
      <3> QED
        BY <1>4, <2>1, <3>1, <3>2 DEF DatesOf, DateWritten
    <2> QED
      BY <2>1
  <1>6. DateCommitted'
    BY <1>3, <1>5 DEF DateCommitted
  <1> HIDE DEF d
  <1>7. ASSUME NEW q \in Requests PROVE DatesOf(proc'[q], writes'[q], db')
    <2>1. CASE q = r
      BY <1>1, <1>2, <2>1, NothingHeld, NothingLeft
    <2>2. CASE q # r
      <3>1. proc'[q] = proc[q] /\ writes'[q] = writes[q] /\ DatesOf(proc[q], writes[q], db)
        BY <1>1, <1>2, <2>2 DEF DInv
      <3>2. CASE BookingRow \in DOMAIN writes[q]
        <4>1. BookingRow \notin DOMAIN writes[r]
          BY <2>2, <3>2 DEF IInv, RowsAreLocked
        <4>2. db'[BookingRow] = db[BookingRow]
          BY <1>1, <4>1 DEF View, booking
        <4> QED
          BY <3>1, <3>2, <4>2 DEF DatesOf, DateWritten, DateCleared, DateSeen
      <3>3. CASE BookingRow \notin DOMAIN writes[q]
        <4>1. DateSeen(writes'[q], db') = db'[BookingRow].date /\ db'[BookingRow].date = d
          BY <1>3, <3>1, <3>3 DEF DateSeen, booking
        <4>2. DateWritten(proc'[q], writes'[q], db')
          BY <4>1 DEF DateWritten
        <4>3. DateCleared(proc'[q], writes'[q], db')
          <5>1. CASE d = db[BookingRow].date
            BY <3>1, <3>3, <4>1, <5>1 DEF DatesOf, DateCleared, DateSeen
          <5>2. CASE d = None
            BY <4>1, <5>2, TransactionsAssumption DEF DateCleared
          <5>3. CASE ConfirmedBy(writes[r], d)
            <6>1. d \notin DOMAIN writes[q]
              BY <2>2, <5>3 DEF ConfirmedBy, IInv, RowsAreLocked
            <6> QED
              BY <3>1, <4>1, <6>1 DEF DateCleared
          <5> QED
            BY <1>4, <5>1, <5>2, <5>3 DEF DatesOf, DateWritten, d
        <4> QED
          BY <3>1, <4>2, <4>3 DEF DatesOf
      <3> QED
        BY <3>2, <3>3
    <2> QED
      BY <2>1, <2>2
  <1> QED
    BY <1>6, <1>7 DEF DInv

\* Every step keeps what the date says.
LEMMA DatesStep ==
    ASSUME IInv, DInv, [Next]_vars
    PROVE  DInv'
  <1>1. CASE UNCHANGED vars
    BY <1>1 DEF vars, DInv, DateCommitted, booking
  <1>2. ASSUME NEW r \in Requests, Start(r) PROVE DInv'
    BY <1>2, StartDates
  <1>3. ASSUME NEW r \in Requests,
               \/ TransitionStatus(r) \/ CreateAssignment(r) \/ FindActiveAssignment(r)
               \/ CloseAssignment(r) \/ WithdrawAssignment(r) \/ SupersedeSnapshot(r)
               \/ SupersedeRows(r) \/ ClearConfirmedDate(r) \/ CopyConfirmedDate(r)
               \/ ApplyQuote(r) \/ CreateSchedule(r) \/ CloseSchedule(r)
               \/ FindPendingSchedule(r) \/ ReadPendingSchedule(r) \/ CheckConfirmedIndex(r)
        PROVE  DInv'
    BY <1>3, StatusDates, AssignmentDates, FindActiveDates, SnapshotDates, SupersedeDates,
       ClearDates, CopyDates, ScheduleDates, ConfirmDates, LookDates
  <1>4. ASSUME NEW r \in Requests,
               \/ LosesRace(r) \/ LosesToIndex(r) \/ UniqueViolationEscapes(r)
               \/ DeadlockAborts(r) \/ TransactionLost(r)
        PROVE  DInv'
    <2>1. Rollback(r)
      BY <1>4 DEF LosesRace, LosesToIndex, UniqueViolationEscapes, DeadlockAborts, TransactionLost
    <2> QED
      BY <2>1, RolledBackDates
  <1>5. ASSUME NEW r \in Requests, Commit(r) PROVE DInv'
    BY <1>5, CommitDates
  <1> QED
    BY <1>1, <1>2, <1>3, <1>4, <1>5 DEF Next, Statement, vars

\* What the confirmed date names, in the committed booking and in every transaction
\* that is about to change it (proposeSchedule, assign, accept, confirmSchedule).
THEOREM DatesInvariance == Spec => []DInv
  <1>1. Init => DInv
    <2> SUFFICES ASSUME Init PROVE DInv
      OBVIOUS
    <2>1. booking.date = None
      BY TransactionsAssumption DEF Init, booking, Rows
    <2>2. \A r \in Requests : DOMAIN writes[r] = {} /\ proc[r] = Idle
      BY DEF Init, NoWrites
    <2>3. \A r \in Requests : DatesOf(proc[r], writes[r], db)
      BY <2>2, NothingHeld, NothingLeft
    <2> QED
      BY <2>1, <2>3 DEF DInv, DateCommitted
  <1>2. IInv /\ DInv /\ [Next]_vars => DInv'
    BY DatesStep
  <1> QED
    BY <1>1, <1>2, Invariance, PTL DEF Spec

\* bookings.confirmed_date never names a schedule that is not CONFIRMED, whatever the
\* proposals, the confirmations and the reassignments that run at the same time.
THEOREM ConfirmedDates == Spec => []DateNamesConfirmedSchedule
  <1>1. DInv => DateNamesConfirmedSchedule
    BY DEF DInv, DateCommitted, DateNamesConfirmedSchedule
  <1> QED
    BY <1>1, DatesInvariance, PTL

-----------------------------------------------------------------------------
(* The plan of a request: what it has read, what it has written of the booking and of *)
(* its assignments, and what is left of its program.                               *)

Ops == {"assign", "cancel", "accept", "reject", "propose", "confirm", "complete", "close"}

\* What may be left of the program of a request.
AssignLeft ==
    {<<"transition", "createAssignment", "supersede", "clearDate", "createSchedule", "applyQuote">>,
     <<"createAssignment", "supersede", "clearDate", "createSchedule", "applyQuote">>,
     <<"supersede", "clearDate", "createSchedule", "applyQuote">>,
     <<"supersedeRows", "clearDate", "createSchedule", "applyQuote">>,
     <<"clearDate", "createSchedule", "applyQuote">>,
     <<"createSchedule", "applyQuote">>,
     <<"applyQuote">>, <<>>}
CancelLeft ==
    {<<"findActive", "withdraw", "transition">>, <<"withdraw", "transition">>,
     <<"transition">>, <<>>}
AcceptLeft ==
    {<<"answer", "findPending", "transition">>, <<"findPending", "transition">>,
     <<"confirm", "indexConfirmed", "copyDate", "transition">>,
     <<"indexConfirmed", "copyDate", "transition">>, <<"copyDate", "transition">>,
     <<"transition">>, <<>>}
RejectLeft == {<<"answer", "transition">>, <<"transition">>, <<>>}
ProposeLeft ==
    {<<"supersede", "clearDate", "createSchedule">>,
     <<"supersedeRows", "clearDate", "createSchedule">>,
     <<"clearDate", "createSchedule">>, <<"createSchedule">>, <<>>}
ConfirmLeft ==
    {<<"readPending">>, <<"confirm", "indexConfirmed", "copyDate">>,
     <<"indexConfirmed", "copyDate">>, <<"copyDate">>, <<>>}
AgreeLeft ==
    {<<"readPending">>,
     <<"confirm", "indexConfirmed", "copyDate", "findActive", "transition">>,
     <<"indexConfirmed", "copyDate", "findActive", "transition">>,
     <<"copyDate", "findActive", "transition">>, <<"findActive", "transition">>,
     <<"answer", "transition">>, <<"transition">>, <<>>}
MoveLeft == {<<"transition">>, <<>>}

\* confirmSchedule agrees to the job only if it read an ASSIGNED booking.
Agrees(p) == p.op = "confirm" /\ p.seen.status = "ASSIGNED"

Programmed(p) ==
    \/ p.op = "none" /\ p.todo = <<>>
    \/ p.op = "assign" /\ p.todo \in AssignLeft
    \/ p.op = "cancel" /\ p.todo \in CancelLeft
    \/ p.op = "accept" /\ p.todo \in AcceptLeft
    \/ p.op = "reject" /\ p.todo \in RejectLeft
    \/ p.op = "propose" /\ p.todo \in ProposeLeft
    \/ Agrees(p) /\ p.todo \in AgreeLeft
    \/ p.op = "confirm" /\ ~Agrees(p) /\ p.todo \in ConfirmLeft
    \/ p.op \in {"complete", "close"} /\ p.todo \in MoveLeft

Moves(p) ==
    p.op \in {"assign", "cancel", "accept", "reject", "complete", "close"} \/ Agrees(p)
Moved(p) == Moves(p) /\ ~Has(p, "transition") /\ ~Has(p, "readPending")

\* The version a request read: as long as it is the committed one, so is the status.
Current(p, rows) == p.seen.version = rows[BookingRow].version
Snapshot(p, rows) ==
    p.op # "none" =>
        /\ p.seen.version \in Nat /\ p.seen.version <= rows[BookingRow].version
        /\ Current(p, rows) => p.seen.status = rows[BookingRow].status

\* What a request has written of the booking.
BookingHeld(p, held, rows) ==
    LET old == rows[BookingRow]
        new == held[BookingRow]
    IN IF Moved(p)
       THEN /\ BookingRow \in DOMAIN held
            /\ Current(p, rows)
            /\ Machine!CanTransition(old.status, ToStatus[p.op])
            /\ new.status = ToStatus[p.op]
            /\ new.version = old.version + 1
            /\ new.trail = Append(old.trail, ToStatus[p.op])
            /\ new.quotedBy = IF p.op = "reject" THEN None
                              ELSE IF p.op = "assign" /\ ~Has(p, "applyQuote") THEN p.chosen
                              ELSE old.quotedBy
       ELSE BookingRow \in DOMAIN held =>
            /\ new.status = old.status /\ new.version = old.version
            /\ new.trail = old.trail /\ new.quotedBy = old.quotedBy

\* The assignments it has written.
Touched(held) == Assignments \cap DOMAIN held
Inserted(p, held, rows, a) ==
    /\ p.op = "assign" /\ rows[a].status = "FREE"
    /\ held[a] = [status |-> "PENDING", provider |-> p.chosen]
Answered(p, held, rows, a) ==
    /\ p.op \in {"accept", "reject", "confirm", "cancel"} /\ a = p.asg
    /\ rows[a].status \in (IF p.op = "cancel" THEN Active ELSE {"PENDING"})
    /\ held[a] = [status |-> ToAnswer[p.op], provider |-> rows[a].provider]
AssignmentsHeld(p, held, rows) ==
    \A a \in Touched(held) : Inserted(p, held, rows, a) \/ Answered(p, held, rows, a)

NoneActive(rows) == \A a \in Assignments : rows[a].status \notin Active

AssignHeld(p, held) ==
    p.op = "assign" =>
        /\ p.chosen \in Providers
        /\ IF Has(p, "createAssignment") THEN Touched(held) = {}
           ELSE \E a \in Assignments : Touched(held) = {a}
AnswerHeld(p, held) ==
    p.op \in {"accept", "reject"} =>
        /\ p.asg \in Assignments
        /\ Has(p, "answer") <=> p.asg \notin DOMAIN held
AgreeHeld(p, held, rows) ==
    Agrees(p) =>
        /\ Has(p, "readPending") \/ Has(p, "findActive") \/ Has(p, "answer") => Touched(held) = {}
        /\ Has(p, "answer") => p.asg \in Assignments
        /\ ~Has(p, "readPending") /\ ~Has(p, "findActive") /\ Current(p, rows) =>
              p.asg \in Assignments /\ (Has(p, "answer") \/ p.asg \in DOMAIN held)
CancelHeld(p, held, rows) ==
    p.op = "cancel" =>
        /\ Has(p, "withdraw") => Touched(held) = {}
        /\ ~Has(p, "findActive") /\ p.asg # None => p.asg \in Assignments /\ p.asgSeen \in Active
        /\ ~Has(p, "findActive") /\ Current(p, rows) =>
              IF p.asg = None THEN NoneActive(rows)
              ELSE /\ rows[p.asg].status = p.asgSeen
                   /\ Has(p, "withdraw") \/ p.asg \in DOMAIN held
OthersHeld(p, held) ==
    (p.op \in {"none", "propose", "complete", "close"} \/ (p.op = "confirm" /\ ~Agrees(p))) =>
        Touched(held) = {}

Plan(p, held, rows) ==
    /\ Programmed(p)
    /\ Snapshot(p, rows)
    /\ BookingHeld(p, held, rows)
    /\ AssignmentsHeld(p, held, rows)
    /\ AssignHeld(p, held) /\ AnswerHeld(p, held) /\ AgreeHeld(p, held, rows)
    /\ CancelHeld(p, held, rows) /\ OthersHeld(p, held)

\* What is committed: the assignments that exist, how they fit the status, and how
\* long the trail can be, every answer and every reassignment using up a row.
Used(rows) == {a \in Assignments : rows[a].status # "FREE"}
Status(a) == db[a].status
Assigned ==
    /\ \A a \in Assignments : db[a] \in AssignmentRecord
    /\ \A a \in Assignments : db[a].status \in Active => db[a].provider \in Providers
    /\ \A a, b \in Assignments : Status(a) \in Active /\ Status(b) \in Active => a = b
    /\ (\E a \in Assignments : Status(a) = "PENDING") <=> booking.status = "ASSIGNED"
    /\ (\E a \in Assignments : Status(a) = "ACCEPTED") <=>
          booking.status \in {"SCHEDULED", "AWAITING_CONFIRMATION", "COMPLETED"}
Bounded ==
    /\ booking.status \in Machine!Status /\ booking.version \in Nat
    /\ booking.trail \in Seq(Machine!Status)
    /\ booking.status = "UNASSIGNED" => Len(booking.trail) <= 2 * Cardinality(Used(db)) + 1
    /\ booking.status = "ASSIGNED" => Len(booking.trail) <= 2 * Cardinality(Used(db))
LInv == Assigned /\ Bounded /\ \A r \in Requests : Plan(proc[r], writes[r], db)

-----------------------------------------------------------------------------
(* What is left of a program. *)

\* The statements a request still has, read off its program.
LEMMA Holding ==
    ASSUME NEW p
    PROVE  /\ p.todo = <<>> => \A x : ~Has(p, x)
           /\ \A a : p.todo = <<a>> =>
                 /\ p.todo # <<>> /\ Head(p.todo) = a /\ Tail(p.todo) = <<>>
                 /\ \A x : Has(p, x) <=> x \in {a}
           /\ \A a, b : p.todo = <<a, b>> =>
                 /\ p.todo # <<>> /\ Head(p.todo) = a /\ Tail(p.todo) = <<b>>
                 /\ \A x : Has(p, x) <=> x \in {a, b}
           /\ \A a, b, c : p.todo = <<a, b, c>> =>
                 /\ p.todo # <<>> /\ Head(p.todo) = a /\ Tail(p.todo) = <<b, c>>
                 /\ \A x : Has(p, x) <=> x \in {a, b, c}
           /\ \A a, b, c, d : p.todo = <<a, b, c, d>> =>
                 /\ p.todo # <<>> /\ Head(p.todo) = a /\ Tail(p.todo) = <<b, c, d>>
                 /\ \A x : Has(p, x) <=> x \in {a, b, c, d}
           /\ \A a, b, c, d, e : p.todo = <<a, b, c, d, e>> =>
                 /\ p.todo # <<>> /\ Head(p.todo) = a /\ Tail(p.todo) = <<b, c, d, e>>
                 /\ \A x : Has(p, x) <=> x \in {a, b, c, d, e}
           /\ \A a, b, c, d, e, f : p.todo = <<a, b, c, d, e, f>> =>
                 /\ p.todo # <<>> /\ Head(p.todo) = a /\ Tail(p.todo) = <<b, c, d, e, f>>
                 /\ \A x : Has(p, x) <=> x \in {a, b, c, d, e, f}
  <1>0. p.todo = <<>> => \A x : ~Has(p, x)
    BY DEF Has
  <1>1. ASSUME NEW a, p.todo = <<a>>
        PROVE  /\ p.todo # <<>> /\ Head(p.todo) = a /\ Tail(p.todo) = <<>>
               /\ \A x : Has(p, x) <=> x \in {a}
    BY <1>1 DEF Has
  <1>2. ASSUME NEW a, NEW b, p.todo = <<a, b>>
        PROVE  /\ p.todo # <<>> /\ Head(p.todo) = a /\ Tail(p.todo) = <<b>>
               /\ \A x : Has(p, x) <=> x \in {a, b}
    BY <1>2 DEF Has
  <1>3. ASSUME NEW a, NEW b, NEW c, p.todo = <<a, b, c>>
        PROVE  /\ p.todo # <<>> /\ Head(p.todo) = a /\ Tail(p.todo) = <<b, c>>
               /\ \A x : Has(p, x) <=> x \in {a, b, c}
    BY <1>3 DEF Has
  <1>4. ASSUME NEW a, NEW b, NEW c, NEW d, p.todo = <<a, b, c, d>>
        PROVE  /\ p.todo # <<>> /\ Head(p.todo) = a /\ Tail(p.todo) = <<b, c, d>>
               /\ \A x : Has(p, x) <=> x \in {a, b, c, d}
    BY <1>4 DEF Has
  <1>5. ASSUME NEW a, NEW b, NEW c, NEW d, NEW e, p.todo = <<a, b, c, d, e>>
        PROVE  /\ p.todo # <<>> /\ Head(p.todo) = a /\ Tail(p.todo) = <<b, c, d, e>>
               /\ \A x : Has(p, x) <=> x \in {a, b, c, d, e}
    BY <1>5 DEF Has
  <1>6. ASSUME NEW a, NEW b, NEW c, NEW d, NEW e, NEW f, p.todo = <<a, b, c, d, e, f>>
        PROVE  /\ p.todo # <<>> /\ Head(p.todo) = a /\ Tail(p.todo) = <<b, c, d, e, f>>
               /\ \A x : Has(p, x) <=> x \in {a, b, c, d, e, f}
    BY <1>6 DEF Has
  <1> QED
    BY <1>0, <1>1, <1>2, <1>3, <1>4, <1>5, <1>6

\* Each statement is in the programs of some handlers only, once, and in its place.
Placed(p) ==
    /\ Has(p, "transition") => Moves(p) /\ (p.op = "assign" => Has(p, "applyQuote"))
    /\ Has(p, "createAssignment") \/ Has(p, "applyQuote") => p.op = "assign"
    /\ Has(p, "findActive") => (p.op = "cancel" /\ Has(p, "withdraw")) \/ Agrees(p)
    /\ Has(p, "withdraw") => p.op = "cancel"
    /\ Has(p, "answer") =>
          \/ p.op \in {"accept", "reject"}
          \/ Agrees(p) /\ ~Has(p, "readPending") /\ ~Has(p, "findActive")
    /\ Has(p, "readPending") => p.op = "confirm" /\ p.todo = <<"readPending">>

PlacedFirst(p) ==
    p.todo # <<>> =>
        /\ Has(p, Head(p.todo))
        /\ Head(p.todo) = "applyQuote" => ~Has(p, "transition")
        /\ Head(p.todo) = "withdraw" => ~Has(p, "findActive")
        /\ Head(p.todo) = "findActive" => ~Has(p, "answer") /\ ~Has(p, "readPending")

\* Each statement is where the handlers put it.
LEMMA Places ==
    ASSUME NEW p, Programmed(p)
    PROVE  Placed(p) /\ PlacedFirst(p)
  <1>1. CASE p.op = "assign" /\ p.todo \in AssignLeft
    <2>1. CASE p.todo = <<"transition", "createAssignment", "supersede", "clearDate", "createSchedule", "applyQuote">>
      BY <1>1, <2>1, Holding DEF Placed, PlacedFirst, Moves, Agrees
    <2>2. CASE p.todo = <<"createAssignment", "supersede", "clearDate", "createSchedule", "applyQuote">>
      BY <1>1, <2>2, Holding DEF Placed, PlacedFirst, Moves, Agrees
    <2>3. CASE p.todo = <<"supersede", "clearDate", "createSchedule", "applyQuote">>
      BY <1>1, <2>3, Holding DEF Placed, PlacedFirst, Moves, Agrees
    <2>4. CASE p.todo = <<"supersedeRows", "clearDate", "createSchedule", "applyQuote">>
      BY <1>1, <2>4, Holding DEF Placed, PlacedFirst, Moves, Agrees
    <2>5. CASE p.todo = <<"clearDate", "createSchedule", "applyQuote">>
      BY <1>1, <2>5, Holding DEF Placed, PlacedFirst, Moves, Agrees
    <2>6. CASE p.todo = <<"createSchedule", "applyQuote">>
      BY <1>1, <2>6, Holding DEF Placed, PlacedFirst, Moves, Agrees
    <2>7. CASE p.todo = <<"applyQuote">>
      BY <1>1, <2>7, Holding DEF Placed, PlacedFirst, Moves, Agrees
    <2>8. CASE p.todo = <<>>
      BY <1>1, <2>8, Holding DEF Placed, PlacedFirst, Moves, Agrees
    <2> QED
      BY <1>1, <2>1, <2>2, <2>3, <2>4, <2>5, <2>6, <2>7, <2>8 DEF AssignLeft
  <1>2. CASE p.op = "cancel" /\ p.todo \in CancelLeft
    <2>1. CASE p.todo = <<"findActive", "withdraw", "transition">>
      BY <1>2, <2>1, Holding DEF Placed, PlacedFirst, Moves, Agrees
    <2>2. CASE p.todo = <<"withdraw", "transition">>
      BY <1>2, <2>2, Holding DEF Placed, PlacedFirst, Moves, Agrees
    <2>3. CASE p.todo = <<"transition">>
      BY <1>2, <2>3, Holding DEF Placed, PlacedFirst, Moves, Agrees
    <2>4. CASE p.todo = <<>>
      BY <1>2, <2>4, Holding DEF Placed, PlacedFirst, Moves, Agrees
    <2> QED
      BY <1>2, <2>1, <2>2, <2>3, <2>4 DEF CancelLeft
  <1>3. CASE p.op = "accept" /\ p.todo \in AcceptLeft
    <2>1. CASE p.todo = <<"answer", "findPending", "transition">>
      BY <1>3, <2>1, Holding DEF Placed, PlacedFirst, Moves, Agrees
    <2>2. CASE p.todo = <<"findPending", "transition">>
      BY <1>3, <2>2, Holding DEF Placed, PlacedFirst, Moves, Agrees
    <2>3. CASE p.todo = <<"confirm", "indexConfirmed", "copyDate", "transition">>
      BY <1>3, <2>3, Holding DEF Placed, PlacedFirst, Moves, Agrees
    <2>4. CASE p.todo = <<"indexConfirmed", "copyDate", "transition">>
      BY <1>3, <2>4, Holding DEF Placed, PlacedFirst, Moves, Agrees
    <2>5. CASE p.todo = <<"copyDate", "transition">>
      BY <1>3, <2>5, Holding DEF Placed, PlacedFirst, Moves, Agrees
    <2>6. CASE p.todo = <<"transition">>
      BY <1>3, <2>6, Holding DEF Placed, PlacedFirst, Moves, Agrees
    <2>7. CASE p.todo = <<>>
      BY <1>3, <2>7, Holding DEF Placed, PlacedFirst, Moves, Agrees
    <2> QED
      BY <1>3, <2>1, <2>2, <2>3, <2>4, <2>5, <2>6, <2>7 DEF AcceptLeft
  <1>4. CASE p.op = "reject" /\ p.todo \in RejectLeft
    <2>1. CASE p.todo = <<"answer", "transition">>
      BY <1>4, <2>1, Holding DEF Placed, PlacedFirst, Moves, Agrees
    <2>2. CASE p.todo = <<"transition">>
      BY <1>4, <2>2, Holding DEF Placed, PlacedFirst, Moves, Agrees
    <2>3. CASE p.todo = <<>>
      BY <1>4, <2>3, Holding DEF Placed, PlacedFirst, Moves, Agrees
    <2> QED
      BY <1>4, <2>1, <2>2, <2>3 DEF RejectLeft
  <1>5. CASE p.op = "propose" /\ p.todo \in ProposeLeft
    <2>1. CASE p.todo = <<"supersede", "clearDate", "createSchedule">>
      BY <1>5, <2>1, Holding DEF Placed, PlacedFirst, Moves, Agrees
    <2>2. CASE p.todo = <<"supersedeRows", "clearDate", "createSchedule">>
      BY <1>5, <2>2, Holding DEF Placed, PlacedFirst, Moves, Agrees
    <2>3. CASE p.todo = <<"clearDate", "createSchedule">>
      BY <1>5, <2>3, Holding DEF Placed, PlacedFirst, Moves, Agrees
    <2>4. CASE p.todo = <<"createSchedule">>
      BY <1>5, <2>4, Holding DEF Placed, PlacedFirst, Moves, Agrees
    <2>5. CASE p.todo = <<>>
      BY <1>5, <2>5, Holding DEF Placed, PlacedFirst, Moves, Agrees
    <2> QED
      BY <1>5, <2>1, <2>2, <2>3, <2>4, <2>5 DEF ProposeLeft
  <1>6. CASE p.op = "confirm" /\ ~Agrees(p) /\ p.todo \in ConfirmLeft
    <2>1. CASE p.todo = <<"readPending">>
      BY <1>6, <2>1, Holding DEF Placed, PlacedFirst, Moves, Agrees
    <2>2. CASE p.todo = <<"confirm", "indexConfirmed", "copyDate">>
      BY <1>6, <2>2, Holding DEF Placed, PlacedFirst, Moves, Agrees
    <2>3. CASE p.todo = <<"indexConfirmed", "copyDate">>
      BY <1>6, <2>3, Holding DEF Placed, PlacedFirst, Moves, Agrees
    <2>4. CASE p.todo = <<"copyDate">>
      BY <1>6, <2>4, Holding DEF Placed, PlacedFirst, Moves, Agrees
    <2>5. CASE p.todo = <<>>
      BY <1>6, <2>5, Holding DEF Placed, PlacedFirst, Moves, Agrees
    <2> QED
      BY <1>6, <2>1, <2>2, <2>3, <2>4, <2>5 DEF ConfirmLeft
  <1>7. CASE Agrees(p) /\ p.todo \in AgreeLeft
    <2>1. CASE p.todo = <<"readPending">>
      BY <1>7, <2>1, Holding DEF Placed, PlacedFirst, Moves, Agrees
    <2>2. CASE p.todo = <<"confirm", "indexConfirmed", "copyDate", "findActive", "transition">>
      BY <1>7, <2>2, Holding DEF Placed, PlacedFirst, Moves, Agrees
    <2>3. CASE p.todo = <<"indexConfirmed", "copyDate", "findActive", "transition">>
      BY <1>7, <2>3, Holding DEF Placed, PlacedFirst, Moves, Agrees
    <2>4. CASE p.todo = <<"copyDate", "findActive", "transition">>
      BY <1>7, <2>4, Holding DEF Placed, PlacedFirst, Moves, Agrees
    <2>5. CASE p.todo = <<"findActive", "transition">>
      BY <1>7, <2>5, Holding DEF Placed, PlacedFirst, Moves, Agrees
    <2>6. CASE p.todo = <<"answer", "transition">>
      BY <1>7, <2>6, Holding DEF Placed, PlacedFirst, Moves, Agrees
    <2>7. CASE p.todo = <<"transition">>
      BY <1>7, <2>7, Holding DEF Placed, PlacedFirst, Moves, Agrees
    <2>8. CASE p.todo = <<>>
      BY <1>7, <2>8, Holding DEF Placed, PlacedFirst, Moves, Agrees
    <2> QED
      BY <1>7, <2>1, <2>2, <2>3, <2>4, <2>5, <2>6, <2>7, <2>8 DEF AgreeLeft
  <1>8. CASE p.op \in {"complete", "close"} /\ p.todo \in MoveLeft
    <2>1. CASE p.todo = <<"transition">>
      BY <1>8, <2>1, Holding DEF Placed, PlacedFirst, Moves, Agrees
    <2>2. CASE p.todo = <<>>
      BY <1>8, <2>2, Holding DEF Placed, PlacedFirst, Moves, Agrees
    <2> QED
      BY <1>8, <2>1, <2>2 DEF MoveLeft
  <1>9. CASE p.op = "none" /\ p.todo = <<>>
    BY <1>9, Holding DEF Placed, PlacedFirst
  <1> QED
    BY <1>1, <1>2, <1>3, <1>4, <1>5, <1>6, <1>7, <1>8, <1>9 DEF Programmed

\* A request that has run its statement has a program of the same handler left.
LEMMA Goes ==
    ASSUME NEW p, Programmed(p), p.todo # <<>>,
           NEW q, q.op = p.op, q.seen = p.seen, q.todo = Tail(p.todo)
    PROVE  Programmed(q) /\ ~Has(q, Head(p.todo))
  <1>a. Agrees(q) <=> Agrees(p)
    BY DEF Agrees
  <1>1. CASE p.op = "assign" /\ p.todo \in AssignLeft
    <2>1. CASE p.todo = <<"transition", "createAssignment", "supersede", "clearDate", "createSchedule", "applyQuote">>
      <3>1. q.todo = <<"createAssignment", "supersede", "clearDate", "createSchedule", "applyQuote">> /\ Head(p.todo) = "transition"
        BY <2>1, Holding
      <3>2. ~Has(q, Head(p.todo))
        BY <3>1, Holding
      <3> QED
        BY <1>a, <1>1, <3>1, <3>2 DEF Programmed, AssignLeft
    <2>2. CASE p.todo = <<"createAssignment", "supersede", "clearDate", "createSchedule", "applyQuote">>
      <3>1. q.todo = <<"supersede", "clearDate", "createSchedule", "applyQuote">> /\ Head(p.todo) = "createAssignment"
        BY <2>2, Holding
      <3>2. ~Has(q, Head(p.todo))
        BY <3>1, Holding
      <3> QED
        BY <1>a, <1>1, <3>1, <3>2 DEF Programmed, AssignLeft
    <2>3. CASE p.todo = <<"supersede", "clearDate", "createSchedule", "applyQuote">>
      <3>1. q.todo = <<"clearDate", "createSchedule", "applyQuote">> /\ Head(p.todo) = "supersede"
        BY <2>3, Holding
      <3>2. ~Has(q, Head(p.todo))
        BY <3>1, Holding
      <3> QED
        BY <1>a, <1>1, <3>1, <3>2 DEF Programmed, AssignLeft
    <2>4. CASE p.todo = <<"supersedeRows", "clearDate", "createSchedule", "applyQuote">>
      <3>1. q.todo = <<"clearDate", "createSchedule", "applyQuote">> /\ Head(p.todo) = "supersedeRows"
        BY <2>4, Holding
      <3>2. ~Has(q, Head(p.todo))
        BY <3>1, Holding
      <3> QED
        BY <1>a, <1>1, <3>1, <3>2 DEF Programmed, AssignLeft
    <2>5. CASE p.todo = <<"clearDate", "createSchedule", "applyQuote">>
      <3>1. q.todo = <<"createSchedule", "applyQuote">> /\ Head(p.todo) = "clearDate"
        BY <2>5, Holding
      <3>2. ~Has(q, Head(p.todo))
        BY <3>1, Holding
      <3> QED
        BY <1>a, <1>1, <3>1, <3>2 DEF Programmed, AssignLeft
    <2>6. CASE p.todo = <<"createSchedule", "applyQuote">>
      <3>1. q.todo = <<"applyQuote">> /\ Head(p.todo) = "createSchedule"
        BY <2>6, Holding
      <3>2. ~Has(q, Head(p.todo))
        BY <3>1, Holding
      <3> QED
        BY <1>a, <1>1, <3>1, <3>2 DEF Programmed, AssignLeft
    <2>7. CASE p.todo = <<"applyQuote">>
      <3>1. q.todo = <<>> /\ Head(p.todo) = "applyQuote"
        BY <2>7, Holding
      <3>2. ~Has(q, Head(p.todo))
        BY <3>1, Holding
      <3> QED
        BY <1>a, <1>1, <3>1, <3>2 DEF Programmed, AssignLeft
    <2> QED
      BY <1>1, <2>1, <2>2, <2>3, <2>4, <2>5, <2>6, <2>7 DEF AssignLeft
  <1>2. CASE p.op = "cancel" /\ p.todo \in CancelLeft
    <2>1. CASE p.todo = <<"findActive", "withdraw", "transition">>
      <3>1. q.todo = <<"withdraw", "transition">> /\ Head(p.todo) = "findActive"
        BY <2>1, Holding
      <3>2. ~Has(q, Head(p.todo))
        BY <3>1, Holding
      <3> QED
        BY <1>a, <1>2, <3>1, <3>2 DEF Programmed, CancelLeft
    <2>2. CASE p.todo = <<"withdraw", "transition">>
      <3>1. q.todo = <<"transition">> /\ Head(p.todo) = "withdraw"
        BY <2>2, Holding
      <3>2. ~Has(q, Head(p.todo))
        BY <3>1, Holding
      <3> QED
        BY <1>a, <1>2, <3>1, <3>2 DEF Programmed, CancelLeft
    <2>3. CASE p.todo = <<"transition">>
      <3>1. q.todo = <<>> /\ Head(p.todo) = "transition"
        BY <2>3, Holding
      <3>2. ~Has(q, Head(p.todo))
        BY <3>1, Holding
      <3> QED
        BY <1>a, <1>2, <3>1, <3>2 DEF Programmed, CancelLeft
    <2> QED
      BY <1>2, <2>1, <2>2, <2>3 DEF CancelLeft
  <1>3. CASE p.op = "accept" /\ p.todo \in AcceptLeft
    <2>1. CASE p.todo = <<"answer", "findPending", "transition">>
      <3>1. q.todo = <<"findPending", "transition">> /\ Head(p.todo) = "answer"
        BY <2>1, Holding
      <3>2. ~Has(q, Head(p.todo))
        BY <3>1, Holding
      <3> QED
        BY <1>a, <1>3, <3>1, <3>2 DEF Programmed, AcceptLeft
    <2>2. CASE p.todo = <<"findPending", "transition">>
      <3>1. q.todo = <<"transition">> /\ Head(p.todo) = "findPending"
        BY <2>2, Holding
      <3>2. ~Has(q, Head(p.todo))
        BY <3>1, Holding
      <3> QED
        BY <1>a, <1>3, <3>1, <3>2 DEF Programmed, AcceptLeft
    <2>3. CASE p.todo = <<"confirm", "indexConfirmed", "copyDate", "transition">>
      <3>1. q.todo = <<"indexConfirmed", "copyDate", "transition">> /\ Head(p.todo) = "confirm"
        BY <2>3, Holding
      <3>2. ~Has(q, Head(p.todo))
        BY <3>1, Holding
      <3> QED
        BY <1>a, <1>3, <3>1, <3>2 DEF Programmed, AcceptLeft
    <2>4. CASE p.todo = <<"indexConfirmed", "copyDate", "transition">>
      <3>1. q.todo = <<"copyDate", "transition">> /\ Head(p.todo) = "indexConfirmed"
        BY <2>4, Holding
      <3>2. ~Has(q, Head(p.todo))
        BY <3>1, Holding
      <3> QED
        BY <1>a, <1>3, <3>1, <3>2 DEF Programmed, AcceptLeft
    <2>5. CASE p.todo = <<"copyDate", "transition">>
      <3>1. q.todo = <<"transition">> /\ Head(p.todo) = "copyDate"
        BY <2>5, Holding
      <3>2. ~Has(q, Head(p.todo))
        BY <3>1, Holding
      <3> QED
        BY <1>a, <1>3, <3>1, <3>2 DEF Programmed, AcceptLeft
    <2>6. CASE p.todo = <<"transition">>
      <3>1. q.todo = <<>> /\ Head(p.todo) = "transition"
        BY <2>6, Holding
      <3>2. ~Has(q, Head(p.todo))
        BY <3>1, Holding
      <3> QED
        BY <1>a, <1>3, <3>1, <3>2 DEF Programmed, AcceptLeft
    <2> QED
      BY <1>3, <2>1, <2>2, <2>3, <2>4, <2>5, <2>6 DEF AcceptLeft
  <1>4. CASE p.op = "reject" /\ p.todo \in RejectLeft
    <2>1. CASE p.todo = <<"answer", "transition">>
      <3>1. q.todo = <<"transition">> /\ Head(p.todo) = "answer"
        BY <2>1, Holding
      <3>2. ~Has(q, Head(p.todo))
        BY <3>1, Holding
      <3> QED
        BY <1>a, <1>4, <3>1, <3>2 DEF Programmed, RejectLeft
    <2>2. CASE p.todo = <<"transition">>
      <3>1. q.todo = <<>> /\ Head(p.todo) = "transition"
        BY <2>2, Holding
      <3>2. ~Has(q, Head(p.todo))
        BY <3>1, Holding
      <3> QED
        BY <1>a, <1>4, <3>1, <3>2 DEF Programmed, RejectLeft
    <2> QED
      BY <1>4, <2>1, <2>2 DEF RejectLeft
  <1>5. CASE p.op = "propose" /\ p.todo \in ProposeLeft
    <2>1. CASE p.todo = <<"supersede", "clearDate", "createSchedule">>
      <3>1. q.todo = <<"clearDate", "createSchedule">> /\ Head(p.todo) = "supersede"
        BY <2>1, Holding
      <3>2. ~Has(q, Head(p.todo))
        BY <3>1, Holding
      <3> QED
        BY <1>a, <1>5, <3>1, <3>2 DEF Programmed, ProposeLeft
    <2>2. CASE p.todo = <<"supersedeRows", "clearDate", "createSchedule">>
      <3>1. q.todo = <<"clearDate", "createSchedule">> /\ Head(p.todo) = "supersedeRows"
        BY <2>2, Holding
      <3>2. ~Has(q, Head(p.todo))
        BY <3>1, Holding
      <3> QED
        BY <1>a, <1>5, <3>1, <3>2 DEF Programmed, ProposeLeft
    <2>3. CASE p.todo = <<"clearDate", "createSchedule">>
      <3>1. q.todo = <<"createSchedule">> /\ Head(p.todo) = "clearDate"
        BY <2>3, Holding
      <3>2. ~Has(q, Head(p.todo))
        BY <3>1, Holding
      <3> QED
        BY <1>a, <1>5, <3>1, <3>2 DEF Programmed, ProposeLeft
    <2>4. CASE p.todo = <<"createSchedule">>
      <3>1. q.todo = <<>> /\ Head(p.todo) = "createSchedule"
        BY <2>4, Holding
      <3>2. ~Has(q, Head(p.todo))
        BY <3>1, Holding
      <3> QED
        BY <1>a, <1>5, <3>1, <3>2 DEF Programmed, ProposeLeft
    <2> QED
      BY <1>5, <2>1, <2>2, <2>3, <2>4 DEF ProposeLeft
  <1>6. CASE p.op = "confirm" /\ ~Agrees(p) /\ p.todo \in ConfirmLeft
    <2>1. CASE p.todo = <<"readPending">>
      <3>1. q.todo = <<>> /\ Head(p.todo) = "readPending"
        BY <2>1, Holding
      <3>2. ~Has(q, Head(p.todo))
        BY <3>1, Holding
      <3> QED
        BY <1>a, <1>6, <3>1, <3>2 DEF Programmed, ConfirmLeft
    <2>2. CASE p.todo = <<"confirm", "indexConfirmed", "copyDate">>
      <3>1. q.todo = <<"indexConfirmed", "copyDate">> /\ Head(p.todo) = "confirm"
        BY <2>2, Holding
      <3>2. ~Has(q, Head(p.todo))
        BY <3>1, Holding
      <3> QED
        BY <1>a, <1>6, <3>1, <3>2 DEF Programmed, ConfirmLeft
    <2>3. CASE p.todo = <<"indexConfirmed", "copyDate">>
      <3>1. q.todo = <<"copyDate">> /\ Head(p.todo) = "indexConfirmed"
        BY <2>3, Holding
      <3>2. ~Has(q, Head(p.todo))
        BY <3>1, Holding
      <3> QED
        BY <1>a, <1>6, <3>1, <3>2 DEF Programmed, ConfirmLeft
    <2>4. CASE p.todo = <<"copyDate">>
      <3>1. q.todo = <<>> /\ Head(p.todo) = "copyDate"
        BY <2>4, Holding
      <3>2. ~Has(q, Head(p.todo))
        BY <3>1, Holding
      <3> QED
        BY <1>a, <1>6, <3>1, <3>2 DEF Programmed, ConfirmLeft
    <2> QED
      BY <1>6, <2>1, <2>2, <2>3, <2>4 DEF ConfirmLeft
  <1>7. CASE Agrees(p) /\ p.todo \in AgreeLeft
    <2>1. CASE p.todo = <<"readPending">>
      <3>1. q.todo = <<>> /\ Head(p.todo) = "readPending"
        BY <2>1, Holding
      <3>2. ~Has(q, Head(p.todo))
        BY <3>1, Holding
      <3> QED
        BY <1>a, <1>7, <3>1, <3>2 DEF Programmed, AgreeLeft
    <2>2. CASE p.todo = <<"confirm", "indexConfirmed", "copyDate", "findActive", "transition">>
      <3>1. q.todo = <<"indexConfirmed", "copyDate", "findActive", "transition">> /\ Head(p.todo) = "confirm"
        BY <2>2, Holding
      <3>2. ~Has(q, Head(p.todo))
        BY <3>1, Holding
      <3> QED
        BY <1>a, <1>7, <3>1, <3>2 DEF Programmed, AgreeLeft
    <2>3. CASE p.todo = <<"indexConfirmed", "copyDate", "findActive", "transition">>
      <3>1. q.todo = <<"copyDate", "findActive", "transition">> /\ Head(p.todo) = "indexConfirmed"
        BY <2>3, Holding
      <3>2. ~Has(q, Head(p.todo))
        BY <3>1, Holding
      <3> QED
        BY <1>a, <1>7, <3>1, <3>2 DEF Programmed, AgreeLeft
    <2>4. CASE p.todo = <<"copyDate", "findActive", "transition">>
      <3>1. q.todo = <<"findActive", "transition">> /\ Head(p.todo) = "copyDate"
        BY <2>4, Holding
      <3>2. ~Has(q, Head(p.todo))
        BY <3>1, Holding
      <3> QED
        BY <1>a, <1>7, <3>1, <3>2 DEF Programmed, AgreeLeft
    <2>5. CASE p.todo = <<"findActive", "transition">>
      <3>1. q.todo = <<"transition">> /\ Head(p.todo) = "findActive"
        BY <2>5, Holding
      <3>2. ~Has(q, Head(p.todo))
        BY <3>1, Holding
      <3> QED
        BY <1>a, <1>7, <3>1, <3>2 DEF Programmed, AgreeLeft
    <2>6. CASE p.todo = <<"answer", "transition">>
      <3>1. q.todo = <<"transition">> /\ Head(p.todo) = "answer"
        BY <2>6, Holding
      <3>2. ~Has(q, Head(p.todo))
        BY <3>1, Holding
      <3> QED
        BY <1>a, <1>7, <3>1, <3>2 DEF Programmed, AgreeLeft
    <2>7. CASE p.todo = <<"transition">>
      <3>1. q.todo = <<>> /\ Head(p.todo) = "transition"
        BY <2>7, Holding
      <3>2. ~Has(q, Head(p.todo))
        BY <3>1, Holding
      <3> QED
        BY <1>a, <1>7, <3>1, <3>2 DEF Programmed, AgreeLeft
    <2> QED
      BY <1>7, <2>1, <2>2, <2>3, <2>4, <2>5, <2>6, <2>7 DEF AgreeLeft
  <1>8. CASE p.op \in {"complete", "close"} /\ p.todo \in MoveLeft
    <2>1. CASE p.todo = <<"transition">>
      <3>1. q.todo = <<>> /\ Head(p.todo) = "transition"
        BY <2>1, Holding
      <3>2. ~Has(q, Head(p.todo))
        BY <3>1, Holding
      <3> QED
        BY <1>a, <1>8, <3>1, <3>2 DEF Programmed, MoveLeft
    <2> QED
      BY <1>8, <2>1 DEF MoveLeft
  <1> QED
    BY <1>1, <1>2, <1>3, <1>4, <1>5, <1>6, <1>7, <1>8 DEF Programmed

\* A branch in front of the rest of a program, element by element.
LEMMA Joins ==
    ASSUME NEW S, NEW s \in Seq(S), NEW t \in Seq(S), NEW u \in Seq(S), Len(u) = Len(s) + Len(t),
           \A i \in 1 .. Len(s) : u[i] = s[i],
           \A i \in 1 .. Len(t) : u[Len(s) + i] = t[i]
    PROVE  s \o t = u
  <1>1. /\ s \o t \in Seq(S) /\ Len(s \o t) = Len(s) + Len(t)
        /\ \A i \in 1 .. Len(s) + Len(t) : (s \o t)[i] = IF i <= Len(s) THEN s[i] ELSE t[i - Len(s)]
    BY ConcatProperties
  <1>2. ASSUME NEW i \in 1 .. Len(s) + Len(t) PROVE (s \o t)[i] = u[i]
    <2>0. Len(s) \in Nat /\ Len(t) \in Nat
      OBVIOUS
    <2>1. CASE i <= Len(s)
      BY <1>1, <2>0, <2>1
    <2>2. CASE ~(i <= Len(s))
      <3>1. i - Len(s) \in 1 .. Len(t) /\ Len(s) + (i - Len(s)) = i
        BY <2>0, <2>2
      <3>2. u[i] = t[i - Len(s)]
        BY <3>1
      <3> QED
        BY <1>1, <2>2, <3>2
    <2> QED
      BY <2>1, <2>2
  <1> QED
    BY <1>1, <1>2, SeqEqual

\* One statement in front of one ...
LEMMA OneBeforeOne ==
    ASSUME NEW a, NEW b
    PROVE  <<a>> \o <<b>> = <<a, b>>
  <1> DEFINE S == {a, b}
             s == <<a>>
             t == <<b>>
             u == <<a, b>>
  <1>1. s \in Seq(S) /\ t \in Seq(S) /\ u \in Seq(S) /\ Len(s) = 1 /\ Len(t) = 1 /\ Len(u) = 2
    OBVIOUS
  <1>2. (\A i \in 1 .. 1 : u[i] = s[i]) /\ (\A i \in 1 .. 1 : u[1 + i] = t[i])
    OBVIOUS
  <1> HIDE DEF s, t, u, S
  <1>3. Len(u) = Len(s) + Len(t)
    BY <1>1
  <1>4. \A i \in 1 .. Len(s) : u[i] = s[i]
    BY <1>1, <1>2
  <1>5. \A i \in 1 .. Len(t) : u[Len(s) + i] = t[i]
    BY <1>1, <1>2
  <1>6. s \o t = u
    BY <1>1, <1>3, <1>4, <1>5, Joins
  <1> QED
    BY <1>6 DEF s, t, u

\* ... of two ...
LEMMA OneBeforeTwo ==
    ASSUME NEW a, NEW b, NEW c
    PROVE  <<a>> \o <<b, c>> = <<a, b, c>>
  <1> DEFINE S == {a, b, c}
             s == <<a>>
             t == <<b, c>>
             u == <<a, b, c>>
  <1>1. s \in Seq(S) /\ t \in Seq(S) /\ u \in Seq(S) /\ Len(s) = 1 /\ Len(t) = 2 /\ Len(u) = 3
    OBVIOUS
  <1>2. (\A i \in 1 .. 1 : u[i] = s[i]) /\ (\A i \in 1 .. 2 : u[1 + i] = t[i])
    OBVIOUS
  <1> HIDE DEF s, t, u, S
  <1>3. Len(u) = Len(s) + Len(t)
    BY <1>1
  <1>4. \A i \in 1 .. Len(s) : u[i] = s[i]
    BY <1>1, <1>2
  <1>5. \A i \in 1 .. Len(t) : u[Len(s) + i] = t[i]
    BY <1>1, <1>2
  <1>6. s \o t = u
    BY <1>1, <1>3, <1>4, <1>5, Joins
  <1> QED
    BY <1>6 DEF s, t, u

\* ... and of three.
LEMMA OneBeforeThree ==
    ASSUME NEW a, NEW b, NEW c, NEW d
    PROVE  <<a>> \o <<b, c, d>> = <<a, b, c, d>>
  <1> DEFINE S == {a, b, c, d}
             s == <<a>>
             t == <<b, c, d>>
             u == <<a, b, c, d>>
  <1>1. s \in Seq(S) /\ t \in Seq(S) /\ u \in Seq(S) /\ Len(s) = 1 /\ Len(t) = 3 /\ Len(u) = 4
    OBVIOUS
  <1>2. (\A i \in 1 .. 1 : u[i] = s[i]) /\ (\A i \in 1 .. 3 : u[1 + i] = t[i])
    OBVIOUS
  <1> HIDE DEF s, t, u, S
  <1>3. Len(u) = Len(s) + Len(t)
    BY <1>1
  <1>4. \A i \in 1 .. Len(s) : u[i] = s[i]
    BY <1>1, <1>2
  <1>5. \A i \in 1 .. Len(t) : u[Len(s) + i] = t[i]
    BY <1>1, <1>2
  <1>6. s \o t = u
    BY <1>1, <1>3, <1>4, <1>5, Joins
  <1> QED
    BY <1>6 DEF s, t, u

\* Three statements in front of one.
LEMMA ThreeBeforeOne ==
    ASSUME NEW a, NEW b, NEW c, NEW d
    PROVE  <<a, b, c>> \o <<d>> = <<a, b, c, d>>
  <1> DEFINE S == {a, b, c, d}
             s == <<a, b, c>>
             t == <<d>>
             u == <<a, b, c, d>>
  <1>1. s \in Seq(S) /\ t \in Seq(S) /\ u \in Seq(S) /\ Len(s) = 3 /\ Len(t) = 1 /\ Len(u) = 4
    OBVIOUS
  <1>2. (\A i \in 1 .. 3 : u[i] = s[i]) /\ (\A i \in 1 .. 1 : u[3 + i] = t[i])
    OBVIOUS
  <1> HIDE DEF s, t, u, S
  <1>3. Len(u) = Len(s) + Len(t)
    BY <1>1
  <1>4. \A i \in 1 .. Len(s) : u[i] = s[i]
    BY <1>1, <1>2
  <1>5. \A i \in 1 .. Len(t) : u[Len(s) + i] = t[i]
    BY <1>1, <1>2
  <1>6. s \o t = u
    BY <1>1, <1>3, <1>4, <1>5, Joins
  <1> QED
    BY <1>6 DEF s, t, u


-----------------------------------------------------------------------------
(* One statement of one request. *)

\* A statement with a branch in front of the rest.
LEMMA Branches ==
    ASSUME NEW p, Programmed(p), p.todo \in Seq(Steps), p.todo # <<>>, NEW branch,
           NEW q, q.op = p.op, q.seen = p.seen, q.todo = branch \o Tail(p.todo),
           \/ Head(p.todo) = "supersede" /\ branch = <<"supersedeRows">>
           \/ /\ Head(p.todo) = "findPending"
              /\ branch = <<"confirm", "indexConfirmed", "copyDate">>
           \/ /\ Head(p.todo) = "readPending"
              /\ branch = IF p.seen.status = "ASSIGNED"
                          THEN <<"confirm", "indexConfirmed", "copyDate", "findActive", "transition">>
                          ELSE <<"confirm", "indexConfirmed", "copyDate">>
           \/ /\ Head(p.todo) = "findActive" /\ p.op = "confirm"
              /\ branch = <<"answer">>
    PROVE  /\ Programmed(q)
           /\ \A x : Has(q, x) <=> (Has(p, x) /\ x # Head(p.todo)) \/ Among(branch, x)
  <1>a. Agrees(q) <=> Agrees(p)
    BY DEF Agrees
  <1>1. CASE Head(p.todo) = "supersede" /\ branch = <<"supersedeRows">>
    <2>0. \A x : Among(branch, x) <=> x = "supersedeRows"
      BY <1>1 DEF Among
    <2>1. CASE p.op = "assign" /\ p.todo = <<"supersede", "clearDate", "createSchedule", "applyQuote">>
      <3>1. Tail(p.todo) = <<"clearDate", "createSchedule", "applyQuote">>
        BY <2>1, Holding
      <3>2. q.todo = <<"supersedeRows", "clearDate", "createSchedule", "applyQuote">>
        BY <1>1, <3>1, OneBeforeThree
      <3>3. /\ \A x : Has(q, x) <=> x \in {"supersedeRows", "clearDate", "createSchedule", "applyQuote"}
            /\ \A x : Has(p, x) <=> x \in {"supersede", "clearDate", "createSchedule", "applyQuote"}
        BY <2>1, <3>2, Holding
      <3>4. Programmed(q)
        BY <2>1, <3>2 DEF Programmed, AssignLeft
      <3> QED
        BY <1>1, <2>0, <3>3, <3>4
    <2>2. CASE p.op = "propose" /\ p.todo = <<"supersede", "clearDate", "createSchedule">>
      <3>1. Tail(p.todo) = <<"clearDate", "createSchedule">>
        BY <2>2, Holding
      <3>2. q.todo = <<"supersedeRows", "clearDate", "createSchedule">>
        BY <1>1, <3>1, OneBeforeTwo
      <3>3. /\ \A x : Has(q, x) <=> x \in {"supersedeRows", "clearDate", "createSchedule"}
            /\ \A x : Has(p, x) <=> x \in {"supersede", "clearDate", "createSchedule"}
        BY <2>2, <3>2, Holding
      <3>4. Programmed(q)
        BY <2>2, <3>2 DEF Programmed, ProposeLeft
      <3> QED
        BY <1>1, <2>0, <3>3, <3>4
    <2>3. Has(p, "supersede") /\ Head(p.todo) = "supersede"
      BY <1>1, Places DEF PlacedFirst
    <2>4. \/ p.op = "assign" /\ p.todo = <<"supersede", "clearDate", "createSchedule", "applyQuote">>
          \/ p.op = "propose" /\ p.todo = <<"supersede", "clearDate", "createSchedule">>
      BY <2>3, Holding DEF Programmed, AssignLeft, CancelLeft, AcceptLeft, RejectLeft, ProposeLeft,
                           ConfirmLeft, AgreeLeft, MoveLeft
    <2> QED
      BY <2>1, <2>2, <2>4
  <1>2. CASE /\ Head(p.todo) = "findPending"
             /\ branch = <<"confirm", "indexConfirmed", "copyDate">>
    <2>0. \A x : Among(branch, x) <=> x \in {"confirm", "indexConfirmed", "copyDate"}
      BY <1>2 DEF Among
    <2>1. Has(p, "findPending")
      BY <1>2, Places DEF PlacedFirst
    <2>2. p.op = "accept" /\ p.todo = <<"findPending", "transition">>
      BY <1>2, <2>1, Holding DEF Programmed, AssignLeft, CancelLeft, AcceptLeft, RejectLeft, ProposeLeft,
                           ConfirmLeft, AgreeLeft, MoveLeft
    <2>3. Tail(p.todo) = <<"transition">>
      BY <2>2, Holding
    <2>4. q.todo = <<"confirm", "indexConfirmed", "copyDate", "transition">>
      BY <1>2, <2>3, ThreeBeforeOne
    <2>5. /\ \A x : Has(q, x) <=> x \in {"confirm", "indexConfirmed", "copyDate", "transition"}
          /\ \A x : Has(p, x) <=> x \in {"findPending", "transition"}
      BY <2>2, <2>4, Holding
    <2>6. Programmed(q)
      BY <2>2, <2>4 DEF Programmed, AcceptLeft
    <2> QED
      BY <1>2, <2>0, <2>5, <2>6
  <1>3. CASE /\ Head(p.todo) = "readPending"
             /\ branch = IF p.seen.status = "ASSIGNED"
                          THEN <<"confirm", "indexConfirmed", "copyDate", "findActive", "transition">>
                          ELSE <<"confirm", "indexConfirmed", "copyDate">>
    <2>1. Has(p, "readPending")
      BY <1>3, Places DEF PlacedFirst
    <2>2. p.op = "confirm" /\ p.todo = <<"readPending">>
      BY <2>1, Places DEF Placed
    <2>3. Tail(p.todo) = <<>>
      BY <2>2, Holding
    <2>4. branch \in Seq(Steps)
      <3>1. /\ <<"confirm", "indexConfirmed", "copyDate", "findActive", "transition">> \in Seq(Steps)
            /\ <<"confirm", "indexConfirmed", "copyDate">> \in Seq(Steps)
        BY DEF Steps
      <3> QED
        BY <1>3, <3>1
    <2>5. q.todo = branch
      BY <2>3, <2>4, ConcatEmptySeq
    <2>6. \A x : Has(p, x) <=> x = "readPending"
      BY <2>2, Holding
    <2>7. \A x : Has(q, x) <=> Among(branch, x)
      BY <2>5 DEF Has, Among
    <2>8. Programmed(q)
      BY <1>3, <2>2, <2>5 DEF Programmed, Agrees, AgreeLeft, ConfirmLeft
    <2> QED
      BY <1>3, <2>6, <2>7, <2>8
  <1>4. CASE Head(p.todo) = "findActive" /\ p.op = "confirm" /\ branch = <<"answer">>
    <2>0. \A x : Among(branch, x) <=> x = "answer"
      BY <1>4 DEF Among
    <2>1. Has(p, "findActive")
      BY <1>4, Places DEF PlacedFirst
    <2>2. Agrees(p)
      BY <1>4, <2>1, Places DEF Placed
    <2>3. p.todo = <<"findActive", "transition">>
      BY <1>4, <2>1, <2>2, Holding DEF Programmed, AgreeLeft, Agrees
    <2>4. Tail(p.todo) = <<"transition">>
      BY <2>3, Holding
    <2>5. q.todo = <<"answer", "transition">>
      BY <1>4, <2>4, OneBeforeOne
    <2>6. /\ \A x : Has(q, x) <=> x \in {"answer", "transition"}
          /\ \A x : Has(p, x) <=> x \in {"findActive", "transition"}
      BY <2>3, <2>5, Holding
    <2>7. Programmed(q)
      BY <1>a, <2>2, <2>5 DEF Programmed, AgreeLeft
    <2> QED
      BY <1>4, <2>0, <2>6, <2>7
  <1> QED
    BY <1>1, <1>2, <1>3, <1>4

\* What a plan says of the request itself ...
Same(p, q) ==
    q.op = p.op /\ q.seen = p.seen /\ q.chosen = p.chosen /\ q.asg = p.asg /\ q.asgSeen = p.asgSeen

\* ... of the statements it has left ...
Marks == {"transition", "readPending", "createAssignment", "applyQuote", "answer", "withdraw",
          "findActive"}

\* ... and of the rows it has written.
SameBooking(row, other) ==
    /\ row.status = other.status /\ row.version = other.version
    /\ row.trail = other.trail /\ row.quotedBy = other.quotedBy
SameHeld(held, new, rows) ==
    /\ Touched(new) = Touched(held)
    /\ \A a \in Touched(held) : new[a] = held[a]
    /\ IF BookingRow \in DOMAIN held
       THEN BookingRow \in DOMAIN new /\ SameBooking(new[BookingRow], held[BookingRow])
       ELSE BookingRow \in DOMAIN new => SameBooking(new[BookingRow], rows[BookingRow])

\* A plan depends on the marks of the request and on what it holds, on nothing else.
LEMMA PlanKept ==
    ASSUME NEW p, NEW q, NEW held, NEW new, NEW rows,
           Plan(p, held, rows), Programmed(q), Same(p, q),
           \A x \in Marks : Has(q, x) <=> Has(p, x),
           SameHeld(held, new, rows)
    PROVE  Plan(q, new, rows)
  <1>1. /\ Has(q, "transition") <=> Has(p, "transition")
        /\ Has(q, "readPending") <=> Has(p, "readPending")
        /\ Has(q, "createAssignment") <=> Has(p, "createAssignment")
        /\ Has(q, "applyQuote") <=> Has(p, "applyQuote")
        /\ Has(q, "answer") <=> Has(p, "answer")
        /\ Has(q, "withdraw") <=> Has(p, "withdraw")
        /\ Has(q, "findActive") <=> Has(p, "findActive")
    BY DEF Marks
  <1>2. /\ Agrees(q) <=> Agrees(p)
        /\ Moves(q) <=> Moves(p)
        /\ Moved(q) <=> Moved(p)
        /\ Current(q, rows) <=> Current(p, rows)
    BY <1>1 DEF Same, Agrees, Moves, Moved, Current
  <1>3. Snapshot(q, rows)
    BY <1>2 DEF Plan, Snapshot, Same
  <1>4. BookingHeld(q, new, rows)
    BY <1>1, <1>2 DEF Plan, BookingHeld, Same, SameHeld, SameBooking
  <1>5. AssignmentsHeld(q, new, rows)
    BY DEF Plan, AssignmentsHeld, Same, SameHeld, Inserted, Answered
  <1>6. \A a \in Assignments : a \in DOMAIN new <=> a \in DOMAIN held
    BY DEF SameHeld, Touched
  <1>7. AssignHeld(q, new)
    BY <1>1 DEF Plan, AssignHeld, Same, SameHeld
  <1>8. AnswerHeld(q, new)
    BY <1>1, <1>6 DEF Plan, AnswerHeld, Same
  <1>9. AgreeHeld(q, new, rows)
    BY <1>1, <1>2, <1>6 DEF Plan, AgreeHeld, Same, SameHeld
  <1>10. CancelHeld(q, new, rows)
    BY <1>1, <1>2, <1>6 DEF Plan, CancelHeld, Same, SameHeld
  <1>11. OthersHeld(q, new)
    BY <1>2 DEF Plan, OthersHeld, Same, SameHeld
  <1> QED
    BY <1>3, <1>4, <1>5, <1>7, <1>8, <1>9, <1>10, <1>11 DEF Plan

\* A request goes on to its next statement ...
LEMMA OnPlan ==
    ASSUME Processes, NEW r \in Requests, Programmed(proc[r]), proc[r].todo # <<>>, Advance(r)
    PROVE  /\ \A q \in Requests \ {r} : proc'[q] = proc[q]
           /\ Same(proc[r], proc'[r]) /\ Programmed(proc'[r])
           /\ Has(proc[r], Head(proc[r].todo))
           /\ \A x : Has(proc'[r], x) <=> Has(proc[r], x) /\ x # Head(proc[r].todo)
  <1>1. proc' = [proc EXCEPT ![r].todo = Tail(proc[r].todo)] /\ Shape(proc[r])
    BY DEF Advance, Processes
  <1>2. \A q \in Requests \ {r} : proc'[q] = proc[q]
    BY <1>1 DEF Processes
  <1>3. Same(proc[r], proc'[r]) /\ proc'[r].todo = Tail(proc[r].todo)
    BY <1>1 DEF Processes, Shape, Fields, Same
  <1>4. Programmed(proc'[r]) /\ ~Has(proc'[r], Head(proc[r].todo))
    BY <1>3, Goes DEF Same
  <1> QED
    BY <1>2, <1>3, <1>4, Left, Places DEF PlacedFirst

\* ... with a branch put in front of the rest.
LEMMA OnBranch ==
    ASSUME Processes, NEW r \in Requests, proc[r].todo # <<>>,
           NEW changes, NEW branch \in Seq(Steps), Continue(r, changes, branch),
           DOMAIN changes \subseteq {"asg", "asgSeen", "sch", "targets"}
    PROVE  /\ \A q \in Requests \ {r} : proc'[q] = proc[q]
           /\ proc'[r].op = proc[r].op /\ proc'[r].seen = proc[r].seen
           /\ proc'[r].chosen = proc[r].chosen
           /\ proc'[r].asg = IF "asg" \in DOMAIN changes THEN changes["asg"] ELSE proc[r].asg
           /\ proc'[r].asgSeen =
                 IF "asgSeen" \in DOMAIN changes THEN changes["asgSeen"] ELSE proc[r].asgSeen
           /\ proc'[r].todo = branch \o Tail(proc[r].todo)
           /\ branch = <<>> => proc'[r].todo = Tail(proc[r].todo)
  <1>1. Shape(proc[r]) /\ DOMAIN Idle = Fields
    BY IdleShape DEF Processes
  <1>2. /\ proc'[r] = [x \in Fields |->
            CASE x = "todo" -> branch \o Tail(proc[r].todo)
              [] x \in DOMAIN changes -> changes[x]
              [] OTHER -> proc[r][x]]
        /\ \A q \in Requests \ {r} : proc'[q] = proc[q]
    BY <1>1 DEF Continue, Processes
  <1>3. \A x \in Fields : proc'[r][x] =
            CASE x = "todo" -> branch \o Tail(proc[r].todo)
              [] x \in DOMAIN changes -> changes[x]
              [] OTHER -> proc[r][x]
    BY <1>2
  <1>4. proc'[r].todo = branch \o Tail(proc[r].todo)
    BY <1>3 DEF Fields
  <1>5. /\ proc'[r].op = proc[r].op /\ proc'[r].seen = proc[r].seen
        /\ proc'[r].chosen = proc[r].chosen
    BY <1>3 DEF Fields
  <1>6. /\ proc'[r].asg = IF "asg" \in DOMAIN changes THEN changes["asg"] ELSE proc[r].asg
        /\ proc'[r].asgSeen =
              IF "asgSeen" \in DOMAIN changes THEN changes["asgSeen"] ELSE proc[r].asgSeen
    BY <1>3 DEF Fields
  <1>7. Tail(proc[r].todo) \in Seq(Steps)
    BY <1>1, HeadTailProperties DEF Shape
  <1> QED
    BY <1>2, <1>4, <1>5, <1>6, <1>7, ConcatEmptySeq

\* ... and with nothing in front of it.
LEMMA OnWithout ==
    ASSUME Processes, NEW r \in Requests, Programmed(proc[r]), proc[r].todo # <<>>,
           NEW changes, Continue(r, changes, <<>>),
           DOMAIN changes \subseteq {"asg", "asgSeen", "sch", "targets"}
    PROVE  /\ Programmed(proc'[r])
           /\ \A x : Has(proc'[r], x) <=> Has(proc[r], x) /\ x # Head(proc[r].todo)
  <1>1. <<>> \in Seq(Steps) /\ \A x : ~Among(<<>>, x)
    BY DEF Among
  <1>2. /\ proc'[r].op = proc[r].op /\ proc'[r].seen = proc[r].seen
        /\ proc'[r].todo = Tail(proc[r].todo)
    BY <1>1, OnBranch
  <1>3. Programmed(proc'[r]) /\ ~Has(proc'[r], Head(proc[r].todo))
    BY <1>2, Goes
  <1>4. /\ \A x : Has(proc'[r], x) => Has(proc[r], x) \/ Among(<<>>, x)
        /\ \A x : Has(proc[r], x) /\ Head(proc[r].todo) # x => Has(proc'[r], x)
    BY <1>1, LeftWithBranch
  <1> QED
    BY <1>1, <1>3, <1>4

\* A statement of r leaves what the other requests hold.
LEMMA OthersPlans ==
    ASSUME LInv, NEW r \in Requests, UNCHANGED db,
           \A q \in Requests \ {r} : proc'[q] = proc[q] /\ writes'[q] = writes[q],
           Plan(proc'[r], writes'[r], db)
    PROVE  LInv'
  <1>1. Assigned' /\ Bounded'
    BY DEF LInv, Assigned, Bounded, Status, Used, booking
  <1>2. ASSUME NEW q \in Requests PROVE Plan(proc'[q], writes'[q], db')
    BY DEF LInv
  <1> QED
    BY <1>1, <1>2 DEF LInv

\* A statement on the schedules, or on the confirmed date.
LEMMA SchedulePut ==
    ASSUME IInv, NEW r \in Requests, NEW W, Put(r, W), DOMAIN W \subseteq Schedules
    PROVE  SameHeld(writes[r], writes'[r], db)
  <1>1. /\ DOMAIN writes'[r] = DOMAIN writes[r] \cup DOMAIN W
        /\ \A x \in DOMAIN writes'[r] :
              writes'[r][x] = IF x \in DOMAIN W THEN W[x] ELSE writes[r][x]
    BY PutRows DEF IInv
  <1>2. BookingRow \notin DOMAIN W /\ \A a \in Assignments : a \notin DOMAIN W
    BY TransactionsAssumption
  <1> QED
    BY <1>1, <1>2 DEF SameHeld, Touched, SameBooking

\* The confirmed date is no part of what the plan says of the booking.
LEMMA DatePutRows ==
    ASSUME IInv, NEW r \in Requests, NEW stmt, NEW value,
           UpdateBooking(r, stmt, "date", value)
    PROVE  SameHeld(writes[r], writes'[r], db)
  <1> DEFINE old == View(r, BookingRow)
             new == [old EXCEPT !.date = value]
             W == [x \in {BookingRow} |-> new]
  <1>1. Put(r, W)
    <2>1. Put(r, [x \in {BookingRow} |-> [View(r, x) EXCEPT !["date"] = value]])
      BY DEF UpdateBooking
    <2>2. [x \in {BookingRow} |-> [View(r, x) EXCEPT !["date"] = value]] = W
      OBVIOUS
    <2> QED
      BY <2>1, <2>2
  <1>2. IsBooking(old)
    BY Seen
  <1>3. SameBooking(new, old)
    BY <1>2 DEF IsBooking, SameBooking
  <1>4. DOMAIN W = {BookingRow} /\ W[BookingRow] = new
    OBVIOUS
  <1> HIDE DEF W, new
  <1>5. /\ DOMAIN writes'[r] = DOMAIN writes[r] \cup {BookingRow}
        /\ writes'[r][BookingRow] = new
        /\ \A x \in DOMAIN writes'[r] : x # BookingRow => writes'[r][x] = writes[r][x]
    BY <1>1, <1>4, PutRows DEF IInv
  <1>6. old = IF BookingRow \in DOMAIN writes[r] THEN writes[r][BookingRow] ELSE db[BookingRow]
    BY DEF View
  <1>7. \A a \in Assignments : a # BookingRow
    BY TransactionsAssumption
  <1> QED
    BY <1>3, <1>5, <1>6, <1>7 DEF SameHeld, Touched

Plain == {"supersede", "supersedeRows", "clearDate", "createSchedule", "findPending", "confirm",
          "indexConfirmed", "copyDate"}

\* A statement that is not one of the marks and leaves the booking's part alone.
LEMMA PlainAdvance ==
    ASSUME IInv, LInv, NEW r \in Requests, proc[r].todo # <<>>, Advance(r), UNCHANGED db,
           \A q \in Requests \ {r} : writes'[q] = writes[q],
           Head(proc[r].todo) \in Plain, SameHeld(writes[r], writes'[r], db)
    PROVE  LInv'
  <1>1. Processes /\ Programmed(proc[r]) /\ Plan(proc[r], writes[r], db)
    BY DEF IInv, LInv, Plan
  <1>2. /\ \A q \in Requests \ {r} : proc'[q] = proc[q]
        /\ Same(proc[r], proc'[r]) /\ Programmed(proc'[r])
        /\ \A x : Has(proc'[r], x) <=> Has(proc[r], x) /\ x # Head(proc[r].todo)
    BY <1>1, OnPlan
  <1>3. \A x \in Marks : x # Head(proc[r].todo)
    BY DEF Marks, Plain
  <1>4. Plan(proc'[r], writes'[r], db)
    BY <1>1, <1>2, <1>3, PlanKept
  <1> QED
    BY <1>2, <1>4, OthersPlans

\* Nothing is written.
LEMMA Untouched ==
    ASSUME NEW held, NEW rows
    PROVE  SameHeld(held, held, rows)
  BY DEF SameHeld, SameBooking

\* The statements on the schedules and on the date keep every plan.
LEMMA PlainPlans ==
    ASSUME IInv, LInv, NEW r \in Requests,
           \/ ClearConfirmedDate(r) \/ CopyConfirmedDate(r) \/ CreateSchedule(r)
           \/ CloseSchedule(r) \/ CheckConfirmedIndex(r)
    PROVE  LInv'
  <1>1. /\ proc[r].todo # <<>> /\ Advance(r) /\ UNCHANGED db /\ Head(proc[r].todo) \in Plain
    BY DEF ClearConfirmedDate, CopyConfirmedDate, CreateSchedule, CloseSchedule,
           CheckConfirmedIndex, UpdateBooking, Ready, At, Plain
  <1>2. ASSUME NEW W, Put(r, W)
        PROVE  \A q \in Requests \ {r} : writes'[q] = writes[q]
    BY <1>2, PutRows DEF IInv
  <1>3. CASE ClearConfirmedDate(r) \/ CopyConfirmedDate(r)
    <2>1. PICK stmt, value : UpdateBooking(r, stmt, "date", value)
      BY <1>3 DEF ClearConfirmedDate, CopyConfirmedDate
    <2>2. SameHeld(writes[r], writes'[r], db)
      BY <2>1, DatePutRows
    <2>3. \A q \in Requests \ {r} : writes'[q] = writes[q]
      BY <2>1, <1>2 DEF UpdateBooking
    <2> QED
      BY <1>1, <2>2, <2>3, PlainAdvance
  <1>4. CASE CreateSchedule(r)
    <2> DEFINE row == [status |-> "PENDING", by |-> proc[r].actor, confirmedBy |-> None]
    <2>1. PICK new \in Fresh(Schedules) : Put(r, [x \in {new} |-> row])
      BY <1>4 DEF CreateSchedule, Insert
    <2>2. DOMAIN [x \in {new} |-> row] \subseteq Schedules
      BY DEF Fresh
    <2> HIDE DEF row
    <2>3. SameHeld(writes[r], writes'[r], db)
      BY <2>1, <2>2, SchedulePut
    <2> QED
      BY <1>1, <1>2, <2>1, <2>3, PlainAdvance
  <1>5. CASE CloseSchedule(r)
    <2> DEFINE W == [x \in {proc[r].sch} |->
                  [View(r, x) EXCEPT !.status = "CONFIRMED", !.confirmedBy = proc[r].actor]]
    <2>1. Put(r, W)
      BY <1>5 DEF CloseSchedule
    <2>2. DOMAIN W \subseteq Schedules
      <3>1. Confirms(proc[r])
        BY <1>5, Heads DEF CloseSchedule, Ready, At, Has, Confirms
      <3> QED
        BY <3>1 DEF IInv, Answering, Answers, AnswersTo
    <2> HIDE DEF W
    <2>3. SameHeld(writes[r], writes'[r], db)
      BY <2>1, <2>2, SchedulePut
    <2> QED
      BY <1>1, <1>2, <2>1, <2>3, PlainAdvance
  <1>6. CASE CheckConfirmedIndex(r)
    BY <1>1, <1>6, Untouched, PlainAdvance DEF CheckConfirmedIndex
  <1> QED
    BY <1>3, <1>4, <1>5, <1>6

\* A branch that changes neither the marks nor the assignment.
LEMMA PlainBranch ==
    ASSUME IInv, LInv, NEW r \in Requests, proc[r].todo # <<>>, UNCHANGED db,
           \A q \in Requests \ {r} : writes'[q] = writes[q],
           SameHeld(writes[r], writes'[r], db),
           NEW changes, NEW branch \in Seq(Steps), Continue(r, changes, branch),
           DOMAIN changes \subseteq {"sch", "targets"},
           Programmed(proc'[r]),
           \A x \in Marks : Has(proc'[r], x) <=> Has(proc[r], x)
    PROVE  LInv'
  <1>1. /\ \A q \in Requests \ {r} : proc'[q] = proc[q]
        /\ Same(proc[r], proc'[r])
    BY OnBranch DEF IInv, Same
  <1>2. Plan(proc[r], writes[r], db)
    BY DEF LInv
  <1>3. Plan(proc'[r], writes'[r], db)
    BY <1>1, <1>2, PlanKept
  <1> QED
    BY <1>1, <1>3, OthersPlans

\* So does the snapshot that finds the open proposals.
LEMMA SupersedePlans ==
    ASSUME IInv, LInv, NEW r \in Requests, SupersedeSnapshot(r) \/ SupersedeRows(r)
    PROVE  LInv'
  <1>0. /\ Programmed(proc[r]) /\ proc[r].todo \in Seq(Steps) /\ Processes
        /\ proc[r].todo # <<>> /\ UNCHANGED db
    BY DEF LInv, Plan, IInv, Processes, Shape, SupersedeSnapshot, SupersedeRows, Ready, At
  <1>1. CASE SupersedeSnapshot(r)
    <2> DEFINE changes == [targets |-> {s \in Schedules : View(r, s).status \in Open}]
               branch == <<"supersedeRows">>
    <2>1. /\ UNCHANGED writes /\ Continue(r, changes, branch) /\ Head(proc[r].todo) = "supersede"
      BY <1>1 DEF SupersedeSnapshot, Ready, At
    <2>2. /\ DOMAIN changes = {"targets"} /\ branch \in Seq(Steps)
          /\ \A x : Among(branch, x) <=> x = "supersedeRows"
      BY DEF Steps, Among
    <2>3. branch = <<"supersedeRows">>
      OBVIOUS
    <2> HIDE DEF changes, branch
    <2>4. /\ proc'[r].op = proc[r].op /\ proc'[r].seen = proc[r].seen
          /\ proc'[r].todo = branch \o Tail(proc[r].todo)
      BY <1>0, <2>1, <2>2, OnBranch
    <2>5. /\ Programmed(proc'[r])
          /\ \A x : Has(proc'[r], x) <=>
                (Has(proc[r], x) /\ x # Head(proc[r].todo)) \/ Among(branch, x)
      BY <1>0, <2>1, <2>3, <2>4, Branches
    <2>6. \A x \in Marks : Has(proc'[r], x) <=> Has(proc[r], x)
      BY <2>1, <2>2, <2>5 DEF Marks
    <2>7. SameHeld(writes[r], writes'[r], db)
      BY <2>1, Untouched
    <2> QED
      BY <1>0, <2>1, <2>2, <2>5, <2>6, <2>7, PlainBranch
  <1>2. CASE SupersedeRows(r)
    <2> DEFINE changes == [targets |-> {}]
               open == {s \in proc[r].targets : View(r, s).status \in Open}
               W == [s \in open |-> [View(r, s) EXCEPT !.status = "SUPERSEDED"]]
    <2>1. /\ Put(r, W) /\ Continue(r, changes, <<>>) /\ Head(proc[r].todo) = "supersedeRows"
      BY <1>2 DEF SupersedeRows, Ready, At
    <2>2. DOMAIN changes = {"targets"} /\ DOMAIN W \subseteq Schedules /\ <<>> \in Seq(Steps)
      <3>1. proc[r].targets \subseteq Schedules
        BY DEF IInv, Processes, Shape
      <3>2. DOMAIN W = open
        OBVIOUS
      <3> QED
        BY <3>1, <3>2
    <2> HIDE DEF changes, W
    <2>3. /\ Programmed(proc'[r])
          /\ \A x : Has(proc'[r], x) <=> Has(proc[r], x) /\ x # Head(proc[r].todo)
      BY <1>0, <2>1, <2>2, OnWithout
    <2>4. \A x \in Marks : Has(proc'[r], x) <=> Has(proc[r], x)
      BY <2>1, <2>3 DEF Marks
    <2>5. \A q \in Requests \ {r} : writes'[q] = writes[q]
      BY <2>1, PutRows DEF IInv
    <2>6. SameHeld(writes[r], writes'[r], db)
      BY <2>1, <2>2, SchedulePut
    <2> QED
      BY <1>0, <2>1, <2>2, <2>3, <2>4, <2>5, <2>6, PlainBranch
  <1> QED
    BY <1>1, <1>2

\* A request that is not running plans nothing.
LEMMA IdlePlan ==
    ASSUME NEW held, NEW rows, DOMAIN held = {}
    PROVE  Plan(Idle, held, rows)
  <1>1. Idle.op = "none" /\ Idle.todo = <<>>
    BY DEF Idle
  <1>2. ~Agrees(Idle) /\ ~Moved(Idle) /\ Touched(held) = {}
    BY <1>1 DEF Agrees, Moved, Moves, Touched
  <1> QED
    BY <1>1, <1>2 DEF Plan, Programmed, Snapshot, BookingHeld, AssignmentsHeld, AssignHeld,
                      AnswerHeld, AgreeHeld, CancelHeld, OthersHeld

\* A transaction that is rolled back leaves nothing behind.
LEMMA RolledBackPlans ==
    ASSUME IInv, LInv, NEW r \in Requests, Rollback(r)
    PROVE  LInv'
  <1>1. proc'[r] = Idle /\ \A q \in Requests \ {r} : proc'[q] = proc[q]
    BY Ends DEF IInv, Rollback
  <1>2. /\ DOMAIN writes'[r] = {} /\ UNCHANGED db
        /\ \A q \in Requests \ {r} : writes'[q] = writes[q]
    BY DEF IInv, Pending, Rollback, NoWrites
  <1>3. Plan(proc'[r], writes'[r], db)
    BY <1>1, <1>2, IdlePlan
  <1> QED
    BY <1>1, <1>2, <1>3, OthersPlans

\* The open proposal, read inside the transaction or before it.
LEMMA LookPlans ==
    ASSUME IInv, LInv, NEW r \in Requests, FindPendingSchedule(r)
    PROVE  LInv'
  <1>0. /\ Programmed(proc[r]) /\ proc[r].todo \in Seq(Steps) /\ Processes
        /\ proc[r].todo # <<>> /\ Head(proc[r].todo) = "findPending"
    BY DEF LInv, Plan, IInv, Processes, Shape, FindPendingSchedule, Ready, At
  <1>1. CASE Rollback(r)
    BY <1>1, RolledBackPlans
  <1>2. CASE Advance(r) /\ UNCHANGED <<db, writes>>
    BY <1>0, <1>2, Untouched, PlainAdvance DEF Plain
  <1>3. ASSUME NEW s \in Schedules, UNCHANGED <<db, writes>>,
               Continue(r, [sch |-> s], <<"confirm", "indexConfirmed", "copyDate">>)
        PROVE  LInv'
    <2> DEFINE changes == [sch |-> s]
               branch == <<"confirm", "indexConfirmed", "copyDate">>
    <2>1. /\ DOMAIN changes = {"sch"} /\ branch \in Seq(Steps) /\ Continue(r, changes, branch)
          /\ \A x : Among(branch, x) <=> x \in {"confirm", "indexConfirmed", "copyDate"}
      BY <1>3 DEF Steps, Among
    <2>2. branch = <<"confirm", "indexConfirmed", "copyDate">>
      OBVIOUS
    <2> HIDE DEF changes, branch
    <2>3. /\ proc'[r].op = proc[r].op /\ proc'[r].seen = proc[r].seen
          /\ proc'[r].todo = branch \o Tail(proc[r].todo)
      BY <1>0, <2>1, OnBranch
    <2>4. /\ Programmed(proc'[r])
          /\ \A x : Has(proc'[r], x) <=>
                (Has(proc[r], x) /\ x # Head(proc[r].todo)) \/ Among(branch, x)
      BY <1>0, <2>2, <2>3, Branches
    <2>5. \A x \in Marks : Has(proc'[r], x) <=> Has(proc[r], x)
      BY <1>0, <2>1, <2>4 DEF Marks
    <2> QED
      BY <1>0, <1>3, <2>1, <2>4, <2>5, Untouched, PlainBranch
  <1> QED
    BY <1>1, <1>2, <1>3 DEF FindPendingSchedule

\* confirmSchedule reads the proposal before it opens its transaction.
LEMMA ReadPendingPlans ==
    ASSUME IInv, LInv, NEW r \in Requests, ReadPendingSchedule(r)
    PROVE  LInv'
  <1>0. /\ Programmed(proc[r]) /\ proc[r].todo \in Seq(Steps) /\ Processes
        /\ proc[r].todo # <<>> /\ Head(proc[r].todo) = "readPending"
    BY DEF LInv, Plan, IInv, Processes, Shape, ReadPendingSchedule, Ready, At
  <1>1. CASE Rollback(r)
    BY <1>1, RolledBackPlans
  <1>2. ASSUME NEW s \in Schedules, UNCHANGED <<db, writes>>, NEW branch,
               branch = IF proc[r].seen.status = "ASSIGNED"
                        THEN <<"confirm", "indexConfirmed", "copyDate", "findActive", "transition">>
                        ELSE <<"confirm", "indexConfirmed", "copyDate">>,
               Continue(r, [sch |-> s], branch)
        PROVE  LInv'
    <2> DEFINE changes == [sch |-> s]
               long == <<"confirm", "indexConfirmed", "copyDate", "findActive", "transition">>
               short == <<"confirm", "indexConfirmed", "copyDate">>
               p == proc[r]
               q == proc'[r]
    <2>0. /\ long \in Seq(Steps) /\ short \in Seq(Steps)
          /\ \A x : Among(long, x) <=>
                x \in {"confirm", "indexConfirmed", "copyDate", "findActive", "transition"}
          /\ \A x : Among(short, x) <=> x \in {"confirm", "indexConfirmed", "copyDate"}
      BY DEF Steps, Among
    <2>1. /\ DOMAIN changes = {"sch"} /\ Continue(r, changes, branch)
          /\ branch = IF proc[r].seen.status = "ASSIGNED" THEN long ELSE short
      BY <1>2
    <2> HIDE DEF changes, long, short
    <2>2. branch \in Seq(Steps)
      BY <2>0, <2>1
    <2>3. /\ \A x \in Requests \ {r} : proc'[x] = proc[x]
          /\ Same(p, q) /\ q.todo = branch \o Tail(p.todo)
      BY <1>0, <2>1, <2>2, OnBranch DEF Same
    <2>4. /\ Programmed(q)
          /\ \A x : Has(q, x) <=> (Has(p, x) /\ x # Head(p.todo)) \/ Among(branch, x)
      <3>1. q.op = p.op /\ q.seen = p.seen /\ q.todo = branch \o Tail(p.todo)
        BY <2>3 DEF Same
      <3>2. /\ Head(p.todo) = "readPending"
            /\ branch = IF p.seen.status = "ASSIGNED"
                        THEN <<"confirm", "indexConfirmed", "copyDate", "findActive", "transition">>
                        ELSE <<"confirm", "indexConfirmed", "copyDate">>
        BY <1>0, <1>2
      <3>3. Programmed(p) /\ p.todo \in Seq(Steps) /\ p.todo # <<>>
        BY <1>0
      <3> HIDE DEF p, q
      <3> QED
        BY <3>1, <3>2, <3>3, Branches
    <2>5. p.op = "confirm" /\ p.todo = <<"readPending">>
      BY <1>0, Places DEF Placed, PlacedFirst
    <2>6. \A x : Has(p, x) <=> x = "readPending"
      BY <2>5, Holding
    <2>7. \A x : Has(q, x) <=> Among(branch, x)
      BY <1>0, <2>4, <2>6
    <2>8. Plan(p, writes[r], db)
      BY DEF LInv
    <2>9. CASE Agrees(p)
      <3>1. \A x : Has(q, x) <=>
                x \in {"confirm", "indexConfirmed", "copyDate", "findActive", "transition"}
        BY <2>0, <2>1, <2>7, <2>9 DEF Agrees
      <3>2. Agrees(q) /\ q.op = "confirm"
        BY <2>3, <2>5, <2>9 DEF Agrees, Same
      <3>3. ~Moved(p) /\ ~Moved(q)
        BY <2>6, <3>1 DEF Moved
      <3>4. Touched(writes[r]) = {}
        BY <2>6, <2>8, <2>9 DEF Plan, AgreeHeld
      <3>5. Snapshot(q, db) /\ BookingHeld(q, writes[r], db)
        BY <2>3, <2>8, <3>3 DEF Plan, Snapshot, BookingHeld, Same, Current
      <3>6. AgreeHeld(q, writes[r], db)
        BY <3>1, <3>4 DEF AgreeHeld
      <3>7. AssignmentsHeld(q, writes[r], db)
        BY <3>4 DEF AssignmentsHeld
      <3>8. Plan(q, writes[r], db)
        BY <2>4, <3>2, <3>4, <3>5, <3>6, <3>7
           DEF Plan, AssignHeld, AnswerHeld, CancelHeld, OthersHeld
      <3> QED
        BY <1>2, <2>3, <3>8, OthersPlans
    <2>10. CASE ~Agrees(p)
      <3>1. \A x : Has(q, x) <=> x \in {"confirm", "indexConfirmed", "copyDate"}
        BY <2>0, <2>1, <2>5, <2>7, <2>10 DEF Agrees
      <3>2. ~Agrees(q) /\ q.op = "confirm"
        BY <2>3, <2>5, <2>10 DEF Agrees, Same
      <3>3. ~Moved(p) /\ ~Moved(q)
        BY <2>5, <2>10, <3>2 DEF Moved, Moves
      <3>4. Touched(writes[r]) = {}
        BY <2>5, <2>8, <2>10 DEF Plan, OthersHeld
      <3>5. Snapshot(q, db) /\ BookingHeld(q, writes[r], db)
        BY <2>3, <2>8, <3>3 DEF Plan, Snapshot, BookingHeld, Same, Current
      <3>6. AssignmentsHeld(q, writes[r], db)
        BY <3>4 DEF AssignmentsHeld
      <3>7. Plan(q, writes[r], db)
        BY <2>4, <3>2, <3>4, <3>5, <3>6
           DEF Plan, AssignHeld, AnswerHeld, AgreeHeld, CancelHeld, OthersHeld
      <3> QED
        BY <1>2, <2>3, <3>7, OthersPlans
    <2> QED
      BY <2>9, <2>10
  <1> QED
    BY <1>1, <1>2 DEF ReadPendingSchedule

\* What a handler starts with.
LEMMA BegunPlans ==
    ASSUME IInv, LInv, NEW r \in Requests, NEW op, NEW a, NEW fields, NEW program,
           Begin(r, op, a, fields, program), DOMAIN fields \subseteq {"chosen", "asg", "sch"},
           NEW p, p.op = op, p.seen = [status |-> booking.status, version |-> booking.version],
           p.todo = program,
           p.chosen = IF "chosen" \in DOMAIN fields THEN fields["chosen"] ELSE None,
           p.asg = IF "asg" \in DOMAIN fields THEN fields["asg"] ELSE None,
           p.asgSeen = "NONE",
           Plan(p, NoWrites, db)
    PROVE  LInv'
  <1>1. DOMAIN Idle = Fields /\ Idle.asg = None /\ Idle.chosen = None /\ Idle.asgSeen = "NONE"
    BY IdleShape DEF Idle
  <1>2. /\ proc[r] = Idle /\ UNCHANGED <<db, writes>>
        /\ proc'[r] = [x \in Fields |->
               CASE x = "op" -> op
                 [] x = "actor" -> a
                 [] x = "seen" -> [status |-> booking.status, version |-> booking.version]
                 [] x = "todo" -> program
                 [] x \in DOMAIN fields -> fields[x]
                 [] OTHER -> Idle[x]]
        /\ \A q \in Requests \ {r} : proc'[q] = proc[q]
    BY <1>1 DEF Begin, IInv, Processes
  <1>3. \A x \in Fields : proc'[r][x] =
               CASE x = "op" -> op
                 [] x = "actor" -> a
                 [] x = "seen" -> [status |-> booking.status, version |-> booking.version]
                 [] x = "todo" -> program
                 [] x \in DOMAIN fields -> fields[x]
                 [] OTHER -> Idle[x]
    BY <1>2
  <1>4. proc'[r].op = op /\ proc'[r].todo = program
    BY <1>3 DEF Fields
  <1>5. proc'[r].seen = [status |-> booking.status, version |-> booking.version]
    BY <1>3 DEF Fields
  <1>6. /\ proc'[r].chosen = p.chosen /\ proc'[r].asg = p.asg /\ proc'[r].asgSeen = p.asgSeen
    BY <1>1, <1>3 DEF Fields
  <1>7. Same(p, proc'[r]) /\ proc'[r].todo = p.todo
    BY <1>4, <1>5, <1>6 DEF Same
  <1>8. Programmed(proc'[r]) /\ \A x \in Marks : Has(proc'[r], x) <=> Has(p, x)
    BY <1>7 DEF Same, Programmed, Plan, Has, Agrees
  <1>9. DOMAIN writes[r] = {} /\ DOMAIN NoWrites = {}
    BY <1>2 DEF IInv, Pending, NoWrites
  <1>10. SameHeld(NoWrites, writes[r], db)
    BY <1>9 DEF SameHeld, Touched
  <1>11. Plan(proc'[r], writes'[r], db)
    BY <1>2, <1>7, <1>8, <1>10, PlanKept
  <1> QED
    BY <1>2, <1>11, OthersPlans

\* The plan of a request that has only read the booking.
LEMMA FirstPlan ==
    ASSUME LInv, NEW p, Programmed(p), ~Moved(p),
           p.seen = [status |-> booking.status, version |-> booking.version],
           p.op = "assign" => p.chosen \in Providers /\ Has(p, "createAssignment"),
           p.op \in {"accept", "reject"} => p.asg \in Assignments /\ Has(p, "answer"),
           p.op = "confirm" => Has(p, "readPending") /\ ~Has(p, "answer"),
           p.op = "cancel" => Has(p, "withdraw") /\ Has(p, "findActive")
    PROVE  Plan(p, NoWrites, db)
  <1>1. DOMAIN NoWrites = {} /\ Touched(NoWrites) = {}
    BY DEF NoWrites, Touched
  <1>2. Snapshot(p, db)
    <2>1. p.seen.status = booking.status /\ p.seen.version = booking.version
      OBVIOUS
    <2> QED
      BY <2>1 DEF LInv, Bounded, Snapshot, booking
  <1>3. BookingHeld(p, NoWrites, db) /\ AssignmentsHeld(p, NoWrites, db)
    BY <1>1 DEF BookingHeld, AssignmentsHeld
  <1>4. AssignHeld(p, NoWrites) /\ AnswerHeld(p, NoWrites) /\ OthersHeld(p, NoWrites)
    BY <1>1 DEF AssignHeld, AnswerHeld, OthersHeld
  <1>5. AgreeHeld(p, NoWrites, db)
    BY <1>1 DEF AgreeHeld, Agrees
  <1>6. CancelHeld(p, NoWrites, db)
    BY <1>1 DEF CancelHeld
  <1> QED
    BY <1>2, <1>3, <1>4, <1>5, <1>6 DEF Plan

\* Every handler starts with a plan.
LEMMA StartPlans ==
    ASSUME IInv, LInv, NEW r \in Requests, Start(r)
    PROVE  LInv'
  <1> DEFINE seen == [status |-> booking.status, version |-> booking.version]
             P(op, chosen, asg, program) ==
                [op |-> op, seen |-> seen, chosen |-> chosen, asg |-> asg, asgSeen |-> "NONE",
                 todo |-> program]
  <1>1. ASSUME NEW p \in Providers, BeginAssign(r, p) PROVE LInv'
    <2> DEFINE program == <<"transition", "createAssignment", "supersede", "clearDate",
                            "createSchedule", "applyQuote">>
               fields == [chosen |-> p]
               begun == P("assign", p, None, program)
    <2>1. Begin(r, "assign", Customer, fields, program)
      BY <1>1 DEF BeginAssign
    <2>2. DOMAIN fields = {"chosen"} /\ fields["chosen"] = p
      OBVIOUS
    <2>3. /\ begun.op = "assign" /\ begun.seen = seen /\ begun.todo = program
          /\ begun.chosen = p /\ begun.asg = None /\ begun.asgSeen = "NONE"
      OBVIOUS
    <2>4. program = <<"transition", "createAssignment", "supersede", "clearDate",
                            "createSchedule", "applyQuote">>
      OBVIOUS
    <2> HIDE DEF begun, fields, program
    <2>5. Has(begun, "transition") /\ Has(begun, "createAssignment")
      BY <2>3, <2>4, Holding
    <2>6. Programmed(begun)
      BY <2>3, <2>4 DEF Programmed, AssignLeft
    <2>7. Plan(begun, NoWrites, db)
      BY <2>3, <2>5, <2>6, FirstPlan DEF Moved
    <2> QED
      BY <2>1, <2>2, <2>3, <2>7, BegunPlans
  <1> DEFINE none == [sch |-> None]
  <1>2. /\ DOMAIN none = {"sch"}
        /\ \A a : DOMAIN [asg |-> a] = {"asg"} /\ [asg |-> a]["asg"] = a
    OBVIOUS
  <1>3. ASSUME NEW op, NEW a, NEW program, Begin(r, op, a, [sch |-> None], program),
               Programmed(P(op, None, None, program)), ~Moved(P(op, None, None, program)),
               op \notin {"assign", "accept", "reject"},
               op = "confirm" => /\ Has(P(op, None, None, program), "readPending")
                                 /\ ~Has(P(op, None, None, program), "answer"),
               op = "cancel" => /\ Has(P(op, None, None, program), "withdraw")
                                /\ Has(P(op, None, None, program), "findActive")
        PROVE  LInv'
    <2> DEFINE begun == P(op, None, None, program)
    <2>1. /\ begun.op = op /\ begun.seen = seen /\ begun.todo = program
          /\ begun.chosen = None /\ begun.asg = None /\ begun.asgSeen = "NONE"
      OBVIOUS
    <2>2. Begin(r, op, a, none, program)
      BY <1>3
    <2>3. /\ Programmed(begun) /\ ~Moved(begun)
          /\ op = "confirm" => Has(begun, "readPending") /\ ~Has(begun, "answer")
          /\ op = "cancel" => Has(begun, "withdraw") /\ Has(begun, "findActive")
      BY <1>3
    <2> HIDE DEF begun, none
    <2>4. Plan(begun, NoWrites, db)
      BY <1>3, <2>1, <2>3, FirstPlan
    <2> QED
      BY <1>2, <2>1, <2>2, <2>4, BegunPlans
  <1>4. ASSUME NEW op \in {"accept", "reject"}, NEW p, NEW a \in Assignments, NEW program,
               Begin(r, op, p, [asg |-> a], program),
               Programmed(P(op, None, a, program)),
               Has(P(op, None, a, program), "answer"), Has(P(op, None, a, program), "transition")
        PROVE  LInv'
    <2> DEFINE begun == P(op, None, a, program)
               fields == [asg |-> a]
    <2>1. /\ begun.op = op /\ begun.seen = seen /\ begun.todo = program
          /\ begun.chosen = None /\ begun.asg = a /\ begun.asgSeen = "NONE"
      OBVIOUS
    <2>2. Begin(r, op, p, fields, program) /\ DOMAIN fields = {"asg"} /\ fields["asg"] = a
      BY <1>4
    <2>3. Programmed(begun) /\ Has(begun, "answer") /\ ~Moved(begun)
      BY <1>4 DEF Moved
    <2> HIDE DEF begun, fields
    <2>4. Plan(begun, NoWrites, db)
      BY <1>4, <2>1, <2>3, FirstPlan
    <2> QED
      BY <2>1, <2>2, <2>4, BegunPlans
  <1>5. ASSUME NEW op, NEW chosen, NEW asg, NEW program
        PROVE  /\ P(op, chosen, asg, program).op = op /\ P(op, chosen, asg, program).seen = seen
               /\ P(op, chosen, asg, program).todo = program
    OBVIOUS
  <1> HIDE DEF P
  <1>6. ASSUME NEW a \in Parties, BeginCancel(r, a) PROVE LInv'
    <2> DEFINE begun == P("cancel", None, None, <<"findActive", "withdraw", "transition">>)
    <2>1. begun.op = "cancel" /\ begun.todo = <<"findActive", "withdraw", "transition">>
      BY <1>5
    <2>2. Has(begun, "findActive") /\ Has(begun, "withdraw") /\ Has(begun, "transition")
      BY <2>1, Holding
    <2>3. Programmed(begun) /\ ~Moved(begun)
      BY <2>1, <2>2 DEF Programmed, CancelLeft, Moved
    <2> QED
      BY <1>3, <1>6, <2>2, <2>3 DEF BeginCancel
  <1>7. ASSUME NEW p \in Providers, BeginAccept(r, p) PROVE LInv'
    <2>1. PICK a \in OwnPending(p) :
             Begin(r, "accept", p, [asg |-> a], <<"answer", "findPending", "transition">>)
      BY <1>7 DEF BeginAccept
    <2> DEFINE begun == P("accept", None, a, <<"answer", "findPending", "transition">>)
    <2>2. begun.op = "accept" /\ begun.todo = <<"answer", "findPending", "transition">>
      BY <1>5
    <2>3. Has(begun, "answer") /\ Has(begun, "transition")
      BY <2>2, Holding
    <2>4. Programmed(begun)
      BY <2>2 DEF Programmed, AcceptLeft
    <2> QED
      BY <1>4, <2>1, <2>3, <2>4 DEF OwnPending
  <1>8. ASSUME NEW p \in Providers, BeginReject(r, p) PROVE LInv'
    <2>1. PICK a \in OwnPending(p) :
             Begin(r, "reject", p, [asg |-> a], <<"answer", "transition">>)
      BY <1>8 DEF BeginReject
    <2> DEFINE begun == P("reject", None, a, <<"answer", "transition">>)
    <2>2. begun.op = "reject" /\ begun.todo = <<"answer", "transition">>
      BY <1>5
    <2>3. Has(begun, "answer") /\ Has(begun, "transition")
      BY <2>2, Holding
    <2>4. Programmed(begun)
      BY <2>2 DEF Programmed, RejectLeft
    <2> QED
      BY <1>4, <2>1, <2>3, <2>4 DEF OwnPending
  <1>9. ASSUME NEW a \in Parties, BeginPropose(r, a) PROVE LInv'
    <2> DEFINE begun == P("propose", None, None, <<"supersede", "clearDate", "createSchedule">>)
    <2>1. begun.op = "propose" /\ begun.todo = <<"supersede", "clearDate", "createSchedule">>
      BY <1>5
    <2>2. Programmed(begun) /\ ~Moved(begun)
      BY <2>1 DEF Programmed, ProposeLeft, Moved, Moves, Agrees
    <2> QED
      BY <1>3, <1>9, <2>2 DEF BeginPropose
  <1>10. ASSUME NEW a \in Parties, BeginConfirm(r, a) PROVE LInv'
    <2> DEFINE begun == P("confirm", None, None, <<"readPending">>)
    <2>1. begun.op = "confirm" /\ begun.todo = <<"readPending">>
      BY <1>5
    <2>2. Has(begun, "readPending") /\ ~Has(begun, "answer")
      BY <2>1, Holding
    <2>3. Programmed(begun) /\ ~Moved(begun)
      BY <2>1, <2>2 DEF Programmed, AgreeLeft, ConfirmLeft, Agrees, Moved
    <2> QED
      BY <1>3, <1>10, <2>2, <2>3 DEF BeginConfirm
  <1>11. ASSUME NEW op \in {"complete", "close"}, NEW p, Begin(r, op, p, [sch |-> None], <<"transition">>)
         PROVE  LInv'
    <2> DEFINE begun == P(op, None, None, <<"transition">>)
    <2>1. begun.op = op /\ begun.todo = <<"transition">>
      BY <1>5
    <2>2. Has(begun, "transition")
      BY <2>1, Holding
    <2>3. Programmed(begun) /\ ~Moved(begun)
      BY <2>1, <2>2 DEF Programmed, MoveLeft, Moved
    <2> QED
      BY <1>3, <1>11, <2>3
  <1>12. ASSUME NEW p \in Providers, BeginMarkComplete(r, p) PROVE LInv'
    BY <1>11, <1>12 DEF BeginMarkComplete
  <1>13. CASE BeginConfirmCompletion(r)
    BY <1>11, <1>13 DEF BeginConfirmCompletion
  <1> QED
    BY <1>1, <1>6, <1>7, <1>8, <1>9, <1>10, <1>12, <1>13 DEF Start

\* What the statement of r leaves, when it is one of the marks.
LEMMA MarkAdvance ==
    ASSUME IInv, LInv, NEW r \in Requests, proc[r].todo # <<>>, Advance(r)
    PROVE  /\ \A q \in Requests \ {r} : proc'[q] = proc[q]
           /\ Same(proc[r], proc'[r]) /\ Programmed(proc'[r])
           /\ Placed(proc[r]) /\ PlacedFirst(proc[r])
           /\ Plan(proc[r], writes[r], db)
           /\ Agrees(proc'[r]) <=> Agrees(proc[r])
           /\ Moves(proc'[r]) <=> Moves(proc[r])
           /\ Current(proc'[r], db) <=> Current(proc[r], db)
           /\ Snapshot(proc'[r], db)
           /\ Has(proc[r], Head(proc[r].todo)) /\ ~Has(proc'[r], Head(proc[r].todo))
           /\ \A x : x # Head(proc[r].todo) => (Has(proc'[r], x) <=> Has(proc[r], x))
  <1>1. Processes /\ Programmed(proc[r]) /\ Plan(proc[r], writes[r], db)
    BY DEF IInv, LInv, Plan
  <1>2. /\ \A q \in Requests \ {r} : proc'[q] = proc[q]
        /\ Same(proc[r], proc'[r]) /\ Programmed(proc'[r])
        /\ Has(proc[r], Head(proc[r].todo))
        /\ \A x : Has(proc'[r], x) <=> Has(proc[r], x) /\ x # Head(proc[r].todo)
    BY <1>1, OnPlan
  <1>3. Placed(proc[r]) /\ PlacedFirst(proc[r])
    BY <1>1, Places
  <1>4. /\ Agrees(proc'[r]) <=> Agrees(proc[r])
        /\ Moves(proc'[r]) <=> Moves(proc[r])
        /\ Current(proc'[r], db) <=> Current(proc[r], db)
    BY <1>2 DEF Same, Agrees, Moves, Current
  <1>5. Snapshot(proc'[r], db)
    BY <1>1, <1>2, <1>4 DEF Plan, Snapshot, Same
  <1> QED
    BY <1>1, <1>2, <1>3, <1>4, <1>5

\* A write of the booking row: the status, or the quote.
LEMMA BookingPut ==
    ASSUME IInv, NEW r \in Requests, NEW row, Put(r, [x \in {BookingRow} |-> row])
    PROVE  /\ \A q \in Requests \ {r} : writes'[q] = writes[q]
           /\ BookingRow \in DOMAIN writes'[r] /\ writes'[r][BookingRow] = row
           /\ Touched(writes'[r]) = Touched(writes[r])
           /\ \A a \in Touched(writes[r]) : writes'[r][a] = writes[r][a]
           /\ \A a \in Assignments : a \in DOMAIN writes'[r] <=> a \in DOMAIN writes[r]
  <1> DEFINE W == [x \in {BookingRow} |-> row]
  <1>1. DOMAIN W = {BookingRow} /\ W[BookingRow] = row /\ Put(r, W)
    OBVIOUS
  <1> HIDE DEF W
  <1>2. /\ \A q \in Requests \ {r} : writes'[q] = writes[q]
        /\ DOMAIN writes'[r] = DOMAIN writes[r] \cup {BookingRow}
        /\ \A x \in DOMAIN writes'[r] :
              writes'[r][x] = IF x = BookingRow THEN W[x] ELSE writes[r][x]
    BY <1>1, PutRows DEF IInv
  <1>3. \A a \in Assignments : a # BookingRow
    BY TransactionsAssumption
  <1> QED
    BY <1>1, <1>2, <1>3 DEF Touched

\* The parts of a plan that a write of the booking row leaves alone.
LEMMA BookingPlan ==
    ASSUME NEW p, NEW q, NEW held, NEW new, NEW rows, Plan(p, held, rows), Same(p, q),
           Programmed(q),
           \A x : x \notin {"transition", "applyQuote"} => (Has(q, x) <=> Has(p, x)),
           Touched(new) = Touched(held), \A a \in Touched(held) : new[a] = held[a],
           \A a \in Assignments : a \in DOMAIN new <=> a \in DOMAIN held,
           BookingHeld(q, new, rows)
    PROVE  Plan(q, new, rows)
  <1>1. /\ Has(q, "readPending") <=> Has(p, "readPending")
        /\ Has(q, "createAssignment") <=> Has(p, "createAssignment")
        /\ Has(q, "answer") <=> Has(p, "answer")
        /\ Has(q, "withdraw") <=> Has(p, "withdraw")
        /\ Has(q, "findActive") <=> Has(p, "findActive")
    OBVIOUS
  <1>2. /\ Agrees(q) <=> Agrees(p)
        /\ Current(q, rows) <=> Current(p, rows)
    BY DEF Same, Agrees, Current
  <1>3. Snapshot(q, rows)
    BY <1>2 DEF Plan, Snapshot, Same
  <1>5. AssignmentsHeld(q, new, rows)
    BY DEF Plan, AssignmentsHeld, Same, Inserted, Answered
  <1>7. AssignHeld(q, new)
    BY <1>1 DEF Plan, AssignHeld, Same
  <1>8. AnswerHeld(q, new)
    BY <1>1 DEF Plan, AnswerHeld, Same
  <1>9. AgreeHeld(q, new, rows)
    BY <1>1, <1>2 DEF Plan, AgreeHeld, Same
  <1>10. CancelHeld(q, new, rows)
    BY <1>1, <1>2 DEF Plan, CancelHeld, Same
  <1>11. OthersHeld(q, new)
    BY <1>2 DEF Plan, OthersHeld, Same
  <1> QED
    BY <1>3, <1>5, <1>7, <1>8, <1>9, <1>10, <1>11 DEF Plan

\* transitionStatus passes only on the version the request read.
LEMMA TransitionPlans ==
    ASSUME IInv, LInv, NEW r \in Requests, TransitionStatus(r)
    PROVE  LInv'
  <1> DEFINE p == proc[r]
             q == proc'[r]
             to == ToStatus[p.op]
             old == View(r, BookingRow)
             new == [old EXCEPT !.status = to, !.version = @ + 1, !.trail = Append(@, to),
                                !.quotedBy = IF p.op = "reject" THEN None ELSE @]
  <1>1. /\ p.todo # <<>> /\ Head(p.todo) = "transition" /\ Advance(r) /\ UNCHANGED db
        /\ VersionMatches(r) /\ Put(r, [x \in {BookingRow} |-> new])
    BY DEF TransitionStatus, Ready, At
  <1>2. IsBooking(old)
    BY Seen
  <1>3. /\ new.status = to /\ new.version = old.version + 1 /\ new.trail = Append(old.trail, to)
        /\ new.quotedBy = IF p.op = "reject" THEN None ELSE old.quotedBy
    BY <1>2 DEF IsBooking
  <1> HIDE DEF new
  <1>4. /\ \A x \in Requests \ {r} : writes'[x] = writes[x]
        /\ BookingRow \in DOMAIN writes'[r] /\ writes'[r][BookingRow] = new
        /\ Touched(writes'[r]) = Touched(writes[r])
        /\ \A a \in Touched(writes[r]) : writes'[r][a] = writes[r][a]
        /\ \A a \in Assignments : a \in DOMAIN writes'[r] <=> a \in DOMAIN writes[r]
    BY <1>1, BookingPut
  <1>5. /\ \A x \in Requests \ {r} : proc'[x] = proc[x]
        /\ Same(p, q) /\ Programmed(q) /\ Placed(p) /\ Plan(p, writes[r], db)
        /\ Agrees(q) <=> Agrees(p)
        /\ Moves(q) <=> Moves(p)
        /\ Current(q, db) <=> Current(p, db)
        /\ Has(p, "transition") /\ ~Has(q, "transition")
        /\ \A x : x # "transition" => (Has(q, x) <=> Has(p, x))
    BY <1>1, MarkAdvance
  <1>6. /\ old.status = booking.status /\ old.version = booking.version
        /\ old.trail = booking.trail /\ old.quotedBy = booking.quotedBy
    BY <1>5 DEF Plan, BookingHeld, Moved, View, booking
  <1>7. old.version = p.seen.version /\ old.status = p.seen.status
    BY <1>1 DEF VersionMatches
  <1>8. Machine!CanTransition(p.seen.status, to)
    BY <1>1, <1>5 DEF IInv, Processes, Legal, Has
  <1>9. Moves(p) /\ (p.op = "assign" => Has(p, "applyQuote")) /\ ~Has(p, "readPending")
    <2>1. Moves(p) /\ (p.op = "assign" => Has(p, "applyQuote"))
      BY <1>5 DEF Placed
    <2>2. ~Has(p, "readPending")
      <3> SUFFICES ASSUME Has(p, "readPending") PROVE FALSE
        OBVIOUS
      <3>1. p.todo = <<"readPending">>
        BY <1>5 DEF Placed
      <3> QED
        BY <1>5, <3>1, Holding
    <2> QED
      BY <2>1, <2>2
  <1>10. BookingHeld(q, writes'[r], db)
    <2>1. Moved(q)
      BY <1>5, <1>9 DEF Moved
    <2>2. Current(q, db)
      BY <1>5, <1>6, <1>7 DEF Current, booking
    <2>3. q.op = p.op /\ (q.op = "assign" => Has(q, "applyQuote"))
      BY <1>5, <1>9 DEF Same
    <2>4. Machine!CanTransition(db[BookingRow].status, ToStatus[q.op])
      BY <1>6, <1>7, <1>8, <2>3 DEF booking
    <2>5. /\ new.status = ToStatus[q.op] /\ new.version = db[BookingRow].version + 1
          /\ new.trail = Append(db[BookingRow].trail, ToStatus[q.op])
          /\ new.quotedBy = IF q.op = "reject" THEN None ELSE db[BookingRow].quotedBy
      BY <1>3, <1>6, <2>3 DEF booking
    <2> HIDE DEF p, q, old, to
    <2> QED
      BY <1>4, <2>1, <2>2, <2>3, <2>4, <2>5 DEF BookingHeld
  <1>11. Plan(q, writes'[r], db)
    BY <1>4, <1>5, <1>10, BookingPlan
  <1> QED
    BY <1>1, <1>4, <1>5, <1>11, OthersPlans

\* applyQuote writes the provider's price on the booking it has just assigned.
LEMMA QuotePlans ==
    ASSUME IInv, LInv, NEW r \in Requests, ApplyQuote(r)
    PROVE  LInv'
  <1> DEFINE p == proc[r]
             q == proc'[r]
             old == View(r, BookingRow)
             new == [old EXCEPT !.quotedBy = p.chosen]
  <1>1. /\ p.todo # <<>> /\ Head(p.todo) = "applyQuote" /\ Advance(r) /\ UNCHANGED db
        /\ Put(r, [x \in {BookingRow} |-> new])
    <2>1. Put(r, [x \in {BookingRow} |-> [View(r, x) EXCEPT !["quotedBy"] = p.chosen]])
      BY DEF ApplyQuote, UpdateBooking
    <2>2. [x \in {BookingRow} |-> [View(r, x) EXCEPT !["quotedBy"] = p.chosen]]
            = [x \in {BookingRow} |-> new]
      OBVIOUS
    <2>3. p.todo # <<>> /\ Head(p.todo) = "applyQuote" /\ Advance(r) /\ UNCHANGED db
      BY DEF ApplyQuote, UpdateBooking, Ready, At
    <2> QED
      BY <2>1, <2>2, <2>3
  <1>2. IsBooking(old)
    BY Seen
  <1>3. /\ new.status = old.status /\ new.version = old.version /\ new.trail = old.trail
        /\ new.quotedBy = p.chosen
    BY <1>2 DEF IsBooking
  <1> HIDE DEF new
  <1>4. /\ \A x \in Requests \ {r} : writes'[x] = writes[x]
        /\ BookingRow \in DOMAIN writes'[r] /\ writes'[r][BookingRow] = new
        /\ Touched(writes'[r]) = Touched(writes[r])
        /\ \A a \in Touched(writes[r]) : writes'[r][a] = writes[r][a]
        /\ \A a \in Assignments : a \in DOMAIN writes'[r] <=> a \in DOMAIN writes[r]
    BY <1>1, BookingPut
  <1>5. /\ \A x \in Requests \ {r} : proc'[x] = proc[x]
        /\ Same(p, q) /\ Programmed(q) /\ Placed(p) /\ PlacedFirst(p) /\ Plan(p, writes[r], db)
        /\ Agrees(q) <=> Agrees(p)
        /\ Moves(q) <=> Moves(p)
        /\ Current(q, db) <=> Current(p, db)
        /\ Has(p, "applyQuote") /\ ~Has(q, "applyQuote")
        /\ \A x : x # "applyQuote" => (Has(q, x) <=> Has(p, x))
    BY <1>1, MarkAdvance
  <1>6. p.op = "assign" /\ ~Has(p, "transition") /\ ~Has(p, "readPending")
    BY <1>1, <1>5 DEF Placed, PlacedFirst
  <1>7. Moved(p) /\ Moved(q) /\ q.op = p.op /\ q.chosen = p.chosen
    BY <1>5, <1>6 DEF Moved, Moves, Same
  <1>8. BookingHeld(q, writes'[r], db)
    <2>1. BookingRow \in DOMAIN writes[r] => old = writes[r][BookingRow]
      BY DEF View
    <2>2. BookingHeld(p, writes[r], db)
      BY <1>5 DEF Plan
    <2> HIDE DEF p, q, old
    <2> QED
      BY <1>3, <1>4, <1>5, <1>6, <1>7, <2>1, <2>2 DEF BookingHeld
  <1>9. Plan(q, writes'[r], db)
    BY <1>4, <1>5, <1>8, BookingPlan
  <1> QED
    BY <1>1, <1>4, <1>5, <1>9, OthersPlans

\* A write of one assignment.
LEMMA AssignmentPut ==
    ASSUME IInv, NEW r \in Requests, NEW a \in Assignments, NEW W,
           Put(r, W), DOMAIN W = {a}
    PROVE  /\ \A q \in Requests \ {r} : writes'[q] = writes[q]
           /\ a \in DOMAIN writes'[r] /\ writes'[r][a] = W[a]
           /\ Touched(writes'[r]) = Touched(writes[r]) \cup {a}
           /\ \A x \in Assignments : x # a => (x \in DOMAIN writes'[r] <=> x \in DOMAIN writes[r])
           /\ \A x \in Touched(writes[r]) : x # a => writes'[r][x] = writes[r][x]
           /\ BookingRow \in DOMAIN writes'[r] <=> BookingRow \in DOMAIN writes[r]
           /\ BookingRow \in DOMAIN writes[r] => writes'[r][BookingRow] = writes[r][BookingRow]
  <1>2. /\ \A q \in Requests \ {r} : writes'[q] = writes[q]
        /\ DOMAIN writes'[r] = DOMAIN writes[r] \cup {a}
        /\ \A x \in DOMAIN writes'[r] : writes'[r][x] = IF x = a THEN W[x] ELSE writes[r][x]
    BY PutRows DEF IInv
  <1>3. a # BookingRow
    BY TransactionsAssumption
  <1> QED
    BY <1>2, <1>3 DEF Touched

\* What the booking's part of the plan needs.
LEMMA BookingStays ==
    ASSUME NEW p, NEW q, NEW held, NEW new, NEW rows, BookingHeld(p, held, rows), Same(p, q),
           Has(q, "transition") <=> Has(p, "transition"),
           Has(q, "readPending") <=> Has(p, "readPending"),
           Has(q, "applyQuote") <=> Has(p, "applyQuote"),
           BookingRow \in DOMAIN new <=> BookingRow \in DOMAIN held,
           BookingRow \in DOMAIN held => new[BookingRow] = held[BookingRow]
    PROVE  BookingHeld(q, new, rows)
  <1>1. Moved(q) <=> Moved(p)
    BY DEF Moved, Moves, Agrees, Same
  <1>2. Current(q, rows) <=> Current(p, rows)
    BY DEF Current, Same
  <1> QED
    BY <1>1, <1>2 DEF BookingHeld, Same

\* create inserts one assignment.
LEMMA InsertPlans ==
    ASSUME IInv, LInv, NEW r \in Requests, CreateAssignment(r)
    PROVE  LInv'
  <1> DEFINE p == proc[r]
             q == proc'[r]
             row == [status |-> "PENDING", provider |-> p.chosen]
  <1>1. p.todo # <<>> /\ Head(p.todo) = "createAssignment" /\ Advance(r) /\ UNCHANGED db
    BY DEF CreateAssignment, Ready, At
  <1>2. PICK a \in Fresh(Assignments) : Put(r, [x \in {a} |-> row])
    BY DEF CreateAssignment, Insert
  <1>3. a \in Assignments /\ db[a].status = "FREE"
    BY DEF Fresh
  <1> DEFINE W == [x \in {a} |-> row]
  <1>w. Put(r, W) /\ DOMAIN W = {a} /\ W[a] = row
    BY <1>2
  <1> HIDE DEF W
  <1>4. /\ \A x \in Requests \ {r} : writes'[x] = writes[x]
        /\ a \in DOMAIN writes'[r] /\ writes'[r][a] = row
        /\ Touched(writes'[r]) = Touched(writes[r]) \cup {a}
        /\ BookingRow \in DOMAIN writes'[r] <=> BookingRow \in DOMAIN writes[r]
        /\ BookingRow \in DOMAIN writes[r] => writes'[r][BookingRow] = writes[r][BookingRow]
    BY <1>3, <1>w, AssignmentPut
  <1>5. /\ \A x \in Requests \ {r} : proc'[x] = proc[x]
        /\ Same(p, q) /\ Programmed(q) /\ Placed(p) /\ Plan(p, writes[r], db)
        /\ Snapshot(q, db)
        /\ Has(p, "createAssignment") /\ ~Has(q, "createAssignment")
        /\ \A x : x # "createAssignment" => (Has(q, x) <=> Has(p, x))
    BY <1>1, MarkAdvance
  <1>6. p.op = "assign" /\ q.op = "assign" /\ q.chosen = p.chosen
    BY <1>5 DEF Placed, Same
  <1>7. Touched(writes[r]) = {} /\ p.chosen \in Providers
    BY <1>5, <1>6 DEF Plan, AssignHeld
  <1>8. BookingHeld(q, writes'[r], db)
    BY <1>4, <1>5, BookingStays DEF Plan
  <1>9. Touched(writes'[r]) = {a}
    BY <1>4, <1>7
  <1>10. AssignmentsHeld(q, writes'[r], db)
    BY <1>3, <1>4, <1>6, <1>9 DEF AssignmentsHeld, Inserted
  <1>11. AssignHeld(q, writes'[r])
    BY <1>3, <1>5, <1>6, <1>7, <1>9 DEF AssignHeld
  <1>12. Plan(q, writes'[r], db)
    BY <1>5, <1>6, <1>8, <1>10, <1>11
       DEF Plan, AnswerHeld, AgreeHeld, CancelHeld, OthersHeld, Agrees
  <1> QED
    BY <1>1, <1>4, <1>5, <1>12, OthersPlans

\* accept and reject answer the assignment only while it is PENDING.
LEMMA AnswerPlans ==
    ASSUME IInv, LInv, NEW r \in Requests, CloseAssignment(r)
    PROVE  LInv'
  <1> DEFINE p == proc[r]
             q == proc'[r]
             a == p.asg
             row == [View(r, a) EXCEPT !.status = ToAnswer[p.op]]
  <1>1. /\ p.todo # <<>> /\ Head(p.todo) = "answer" /\ Advance(r) /\ UNCHANGED db
        /\ View(r, a).status = "PENDING" /\ Put(r, [x \in {a} |-> row])
    BY DEF CloseAssignment, Ready, At, AnswerMatches
  <1>2. /\ \A x \in Requests \ {r} : proc'[x] = proc[x]
        /\ Same(p, q) /\ Programmed(q) /\ Placed(p) /\ Plan(p, writes[r], db)
        /\ Snapshot(q, db)
        /\ Agrees(q) <=> Agrees(p)
        /\ Has(p, "answer") /\ ~Has(q, "answer")
        /\ \A x : x # "answer" => (Has(q, x) <=> Has(p, x))
    BY <1>1, MarkAdvance
  <1>3. p.op \in {"accept", "reject"} \/ Agrees(p)
    BY <1>2 DEF Placed
  <1>4. p.op \in {"accept", "reject", "confirm"} /\ q.op = p.op /\ q.asg = a
    BY <1>2, <1>3 DEF Agrees, Same
  <1>5. a \in Assignments /\ a \notin DOMAIN writes[r]
    <2>1. CASE p.op \in {"accept", "reject"}
      BY <1>2, <2>1 DEF Plan, AnswerHeld
    <2>2. CASE Agrees(p)
      BY <1>2, <2>2 DEF Plan, AgreeHeld, Touched
    <2> QED
      BY <1>3, <2>1, <2>2
  <1>6. View(r, a) = db[a] /\ db[a].status = "PENDING"
    BY <1>1, <1>5 DEF View
  <1>7. row = [status |-> ToAnswer[p.op], provider |-> db[a].provider]
    <2>1. db[a] \in AssignmentRecord
      BY <1>5 DEF LInv, Assigned
    <2> QED
      BY <1>6, <2>1 DEF AssignmentRecord
  <1> DEFINE W == [x \in {a} |-> row]
  <1>w. Put(r, W) /\ DOMAIN W = {a} /\ W[a] = row
    BY <1>1
  <1> HIDE DEF row, W
  <1>8. /\ \A x \in Requests \ {r} : writes'[x] = writes[x]
        /\ a \in DOMAIN writes'[r] /\ writes'[r][a] = row
        /\ Touched(writes'[r]) = Touched(writes[r]) \cup {a}
        /\ \A x \in Touched(writes[r]) : x # a => writes'[r][x] = writes[r][x]
        /\ BookingRow \in DOMAIN writes'[r] <=> BookingRow \in DOMAIN writes[r]
        /\ BookingRow \in DOMAIN writes[r] => writes'[r][BookingRow] = writes[r][BookingRow]
    <2> HIDE DEF a
    <2> QED
      BY <1>5, <1>w, AssignmentPut
  <1>9. BookingHeld(q, writes'[r], db)
    BY <1>2, <1>8, BookingStays DEF Plan
  <1>10. AssignmentsHeld(q, writes'[r], db)
    <2> SUFFICES ASSUME NEW x \in Touched(writes'[r])
                 PROVE  Inserted(q, writes'[r], db, x) \/ Answered(q, writes'[r], db, x)
      BY DEF AssignmentsHeld
    <2>1. CASE x = a
      BY <1>4, <1>6, <1>7, <1>8, <2>1 DEF Answered
    <2>2. CASE x # a
      <3>1. x \in Touched(writes[r]) /\ writes'[r][x] = writes[r][x]
        BY <1>8, <2>2
      <3> QED
        BY <1>2, <3>1 DEF Plan, AssignmentsHeld, Inserted, Answered, Same
    <2> QED
      BY <2>1, <2>2
  <1>11. AnswerHeld(q, writes'[r])
    BY <1>2, <1>4, <1>5, <1>8 DEF AnswerHeld
  <1>12. AgreeHeld(q, writes'[r], db)
    <2> SUFFICES ASSUME Agrees(q) PROVE AgreeHeld(q, writes'[r], db)
      BY DEF AgreeHeld
    <2>1. ~Has(q, "readPending") /\ ~Has(q, "findActive")
      BY <1>2, <1>4 DEF Placed, Agrees
    <2> QED
      BY <1>2, <1>4, <1>5, <1>8, <2>1 DEF AgreeHeld
  <1>13. Plan(q, writes'[r], db)
    <2>1. OthersHeld(q, writes'[r])
      BY <1>2, <1>3, <1>4 DEF OthersHeld
    <2> QED
      BY <1>2, <1>4, <1>9, <1>10, <1>11, <1>12, <2>1 DEF Plan, AssignHeld, CancelHeld
  <1> QED
    BY <1>1, <1>2, <1>8, <1>13, OthersPlans

\* cancel closes the assignment it found only while that is as it was found.
LEMMA WithdrawPlans ==
    ASSUME IInv, LInv, NEW r \in Requests, WithdrawAssignment(r)
    PROVE  LInv'
  <1> DEFINE p == proc[r]
             q == proc'[r]
             a == p.asg
             row == [View(r, a) EXCEPT !.status = ToAnswer[p.op]]
  <1>1. /\ p.todo # <<>> /\ Head(p.todo) = "withdraw" /\ Advance(r) /\ UNCHANGED db
        /\ IF WithdrawMatches(r) THEN Put(r, [x \in {a} |-> row]) ELSE UNCHANGED writes
    BY DEF WithdrawAssignment, Ready, At
  <1>2. /\ \A x \in Requests \ {r} : proc'[x] = proc[x]
        /\ Same(p, q) /\ Programmed(q) /\ Placed(p) /\ PlacedFirst(p) /\ Plan(p, writes[r], db)
        /\ Snapshot(q, db)
        /\ Current(q, db) <=> Current(p, db)
        /\ Has(p, "withdraw") /\ ~Has(q, "withdraw")
        /\ \A x : x # "withdraw" => (Has(q, x) <=> Has(p, x))
    BY <1>1, MarkAdvance
  <1>3. p.op = "cancel" /\ q.op = "cancel" /\ q.asg = a /\ q.asgSeen = p.asgSeen
        /\ ~Has(p, "findActive") /\ ~Has(q, "findActive")
    BY <1>1, <1>2 DEF Placed, PlacedFirst, Same
  <1>4. Touched(writes[r]) = {}
    BY <1>2, <1>3 DEF Plan, CancelHeld
  <1>5. a # None => a \in Assignments /\ p.asgSeen \in Active /\ View(r, a) = db[a]
    BY <1>2, <1>3, <1>4 DEF Plan, CancelHeld, View, Touched
  <1>6. Current(p, db) => IF a = None THEN NoneActive(db) ELSE db[a].status = p.asgSeen
    BY <1>2, <1>3 DEF Plan, CancelHeld
  <1>7. CASE WithdrawMatches(r)
    <2>1. a # None /\ db[a].status = p.asgSeen
      BY <1>5, <1>7 DEF WithdrawMatches
    <2>2. row = [status |-> ToAnswer[p.op], provider |-> db[a].provider]
      <3>1. db[a] \in AssignmentRecord
        BY <1>5, <2>1 DEF LInv, Assigned
      <3> QED
        BY <1>5, <2>1, <3>1 DEF AssignmentRecord
    <2> DEFINE W == [x \in {a} |-> row]
    <2>w. Put(r, W) /\ DOMAIN W = {a} /\ W[a] = row
      BY <1>1, <1>7
    <2> HIDE DEF row, W
    <2>3. /\ \A x \in Requests \ {r} : writes'[x] = writes[x]
          /\ a \in DOMAIN writes'[r] /\ writes'[r][a] = row
          /\ Touched(writes'[r]) = Touched(writes[r]) \cup {a}
          /\ BookingRow \in DOMAIN writes'[r] <=> BookingRow \in DOMAIN writes[r]
          /\ BookingRow \in DOMAIN writes[r] => writes'[r][BookingRow] = writes[r][BookingRow]
      <3>1. a \in Assignments
        BY <1>5, <2>1
      <3> HIDE DEF a
      <3> QED
        BY <2>w, <3>1, AssignmentPut
    <2>4. BookingHeld(q, writes'[r], db)
      BY <1>2, <2>3, BookingStays DEF Plan
    <2>5. AssignmentsHeld(q, writes'[r], db)
      BY <1>3, <1>4, <1>5, <2>1, <2>2, <2>3 DEF AssignmentsHeld, Answered
    <2>6. CancelHeld(q, writes'[r], db)
      BY <1>2, <1>3, <1>5, <2>1, <2>3 DEF CancelHeld
    <2>7. Plan(q, writes'[r], db)
      BY <1>2, <1>3, <2>4, <2>5, <2>6
         DEF Plan, AssignHeld, AnswerHeld, AgreeHeld, OthersHeld, Agrees
    <2> QED
      BY <1>1, <1>2, <2>3, <2>7, OthersPlans
  <1>8. CASE ~WithdrawMatches(r)
    <2>1. UNCHANGED writes
      BY <1>1, <1>8
    <2>2. Current(p, db) => a = None /\ NoneActive(db)
      BY <1>5, <1>6, <1>8 DEF WithdrawMatches
    <2>3. BookingHeld(q, writes[r], db)
      BY <1>2, BookingStays DEF Plan
    <2>4. AssignmentsHeld(q, writes[r], db)
      BY <1>4 DEF AssignmentsHeld
    <2>5. CancelHeld(q, writes[r], db)
      BY <1>2, <1>3, <1>4, <1>5, <2>2 DEF CancelHeld
    <2>6. Plan(q, writes[r], db)
      BY <1>2, <1>3, <2>3, <2>4, <2>5
         DEF Plan, AssignHeld, AnswerHeld, AgreeHeld, OthersHeld, Agrees
    <2> QED
      BY <1>1, <1>2, <2>1, <2>6, OthersPlans
  <1> QED
    BY <1>7, <1>8

\* What findActiveByBooking finds, while the booking is as the request read it.
LEMMA FindActivePlans ==
    ASSUME IInv, LInv, NEW r \in Requests, FindActiveAssignment(r)
    PROVE  LInv'
  <1> DEFINE p == proc[r]
             q == proc'[r]
  <1>1. p.todo # <<>> /\ Head(p.todo) = "findActive" /\ UNCHANGED <<db, writes>>
    BY DEF FindActiveAssignment, Ready, At
  <1>2. /\ Programmed(p) /\ p.todo \in Seq(Steps) /\ Processes /\ Plan(p, writes[r], db)
    BY DEF LInv, Plan, IInv, Processes, Shape
  <1>3. /\ (p.op = "cancel" /\ Has(p, "withdraw")) \/ Agrees(p)
        /\ Has(p, "findActive") /\ ~Has(p, "answer") /\ ~Has(p, "readPending")
        /\ Has(p, "applyQuote") => FALSE
    BY <1>1, <1>2, Places DEF Placed, PlacedFirst, Agrees
  <1>4. Touched(writes[r]) = {}
    BY <1>2, <1>3 DEF Plan, CancelHeld, AgreeHeld
  <1>5. \A a \in Assignments : View(r, a) = db[a]
    BY <1>4 DEF View, Touched
  <1>6. ASSUME NEW changes, NEW branch, Continue(r, changes, branch),
               \/ branch = <<>>
               \/ branch = <<"answer">> /\ Agrees(p),
               DOMAIN changes \subseteq {"asg", "asgSeen"},
               Agrees(p) /\ Current(p, db) => branch = <<"answer">>,
               branch = <<"answer">> => "asg" \in DOMAIN changes /\ changes["asg"] \in Assignments,
               \/ /\ "asg" \in DOMAIN changes /\ changes["asg"] = None
                  /\ NoneActive(db)
               \/ /\ "asg" \in DOMAIN changes /\ changes["asg"] \in Assignments
                  /\ db[changes["asg"]].status \in Active
                  /\ "asgSeen" \in DOMAIN changes
                  /\ changes["asgSeen"] = db[changes["asg"]].status
        PROVE  LInv'
    <2>1. branch \in Seq(Steps) /\ \A x : Among(branch, x) <=> branch # <<>> /\ x = "answer"
      <3>1. CASE branch = <<>>
        BY <3>1 DEF Among
      <3>2. CASE branch = <<"answer">>
        BY <3>2 DEF Among, Steps
      <3> QED
        BY <1>6, <3>1, <3>2
    <2>2. /\ \A x \in Requests \ {r} : proc'[x] = proc[x]
          /\ q.op = p.op /\ q.seen = p.seen /\ q.chosen = p.chosen
          /\ q.asg = changes["asg"]
          /\ "asgSeen" \in DOMAIN changes => q.asgSeen = changes["asgSeen"]
          /\ q.todo = branch \o Tail(p.todo)
      BY <1>1, <1>2, <1>6, <2>1, OnBranch
    <2>3. /\ Programmed(q)
          /\ \A x : Has(q, x) <=> (Has(p, x) /\ x # "findActive") \/ Among(branch, x)
      <3>1. CASE branch = <<>>
        <4>1. Continue(r, changes, <<>>)
          BY <1>6, <3>1
        <4> QED
          BY <1>1, <1>2, <1>6, <2>1, <3>1, <4>1, OnWithout
      <3>2. CASE branch = <<"answer">> /\ Agrees(p)
        <4>1. p.op = "confirm"
          BY <3>2 DEF Agrees
        <4>2. /\ Head(p.todo) = "findActive" /\ p.op = "confirm" /\ branch = <<"answer">>
              /\ q.op = p.op /\ q.seen = p.seen /\ q.todo = branch \o Tail(p.todo)
              /\ Programmed(p) /\ p.todo \in Seq(Steps) /\ p.todo # <<>>
          BY <1>1, <1>2, <2>2, <3>2, <4>1
        <4> HIDE DEF p, q
        <4> QED
          BY <4>2, Branches
      <3> QED
        BY <1>6, <3>1, <3>2
    <2>4. /\ Agrees(q) <=> Agrees(p)
          /\ Moves(q) <=> Moves(p)
          /\ Current(q, db) <=> Current(p, db)
      BY <2>2 DEF Agrees, Moves, Current
    <2>5. /\ Has(q, "transition") <=> Has(p, "transition")
          /\ Has(q, "withdraw") <=> Has(p, "withdraw")
          /\ ~Has(q, "readPending") /\ ~Has(q, "findActive")
          /\ Has(q, "answer") <=> branch # <<>>
      BY <1>3, <2>1, <2>3
    <2>6. Moved(q) <=> Moved(p)
      BY <1>3, <2>4, <2>5 DEF Moved
    <2>7. p.op \in {"cancel", "confirm"}
      BY <1>3 DEF Agrees
    <2>8. Snapshot(q, db) /\ BookingHeld(q, writes[r], db)
      BY <1>2, <2>2, <2>4, <2>6, <2>7 DEF Plan, Snapshot, BookingHeld
    <2>9. AssignmentsHeld(q, writes[r], db)
      BY <1>4 DEF AssignmentsHeld
    <2>10. CancelHeld(q, writes[r], db)
      <3> SUFFICES ASSUME q.op = "cancel" PROVE CancelHeld(q, writes[r], db)
        BY DEF CancelHeld
      <3>1. Has(q, "withdraw")
        BY <1>3, <2>2, <2>5 DEF Agrees
      <3>2. None \notin Assignments
        BY TransactionsAssumption
      <3> QED
        BY <1>4, <1>6, <2>2, <2>5, <3>1, <3>2 DEF CancelHeld
    <2>11. AgreeHeld(q, writes[r], db)
      BY <1>4, <1>6, <2>2, <2>4, <2>5 DEF AgreeHeld
    <2>12. Plan(q, writes[r], db)
      BY <1>4, <2>2, <2>3, <2>7, <2>8, <2>9, <2>10, <2>11
         DEF Plan, AssignHeld, AnswerHeld, OthersHeld
    <2> QED
      BY <1>1, <2>2, <2>12, OthersPlans
  \* A request that agrees finds the answer pending, or is late.
  <1>7. ASSUME Agrees(p), Current(p, db)
        PROVE  /\ ~NoneActive(db)
               /\ \A a \in Assignments : db[a].status \in Active => db[a].status = "PENDING"
    <2>1. booking.status = "ASSIGNED"
      BY <1>2, <1>7 DEF Plan, Snapshot, Agrees, booking
    <2>2. PICK a \in Assignments : db[a].status = "PENDING"
      BY <2>1 DEF LInv, Assigned, Status
    <2> QED
      BY <2>2 DEF LInv, Assigned, Status, Active, NoneActive
  <1>8. CASE LiveAssignments(r) = {} /\ Continue(r, [asg |-> None], <<>>)
    <2> DEFINE changes == [asg |-> None]
    <2>1. DOMAIN changes = {"asg"} /\ changes["asg"] = None /\ Continue(r, changes, <<>>)
      BY <1>8
    <2> HIDE DEF changes
    <2>2. NoneActive(db)
      BY <1>5, <1>8 DEF LiveAssignments, NoneActive
    <2>3. ~(Agrees(p) /\ Current(p, db))
      BY <1>7, <2>2
    <2>4. <<>> # <<"answer">>
      OBVIOUS
    <2> QED
      BY <1>6, <2>1, <2>2, <2>3, <2>4
  <1>9. ASSUME NEW a \in LiveAssignments(r),
               Continue(r, [asg |-> a, asgSeen |-> View(r, a).status],
                        IF p.op = "confirm" /\ View(r, a).status = "PENDING"
                        THEN <<"answer">> ELSE <<>>)
        PROVE  LInv'
    <2> DEFINE changes == [asg |-> a, asgSeen |-> View(r, a).status]
               branch == IF p.op = "confirm" /\ View(r, a).status = "PENDING"
                         THEN <<"answer">> ELSE <<>>
    <2>1. a \in Assignments /\ db[a].status \in Active /\ View(r, a) = db[a]
      BY <1>5 DEF LiveAssignments
    <2>2. /\ DOMAIN changes = {"asg", "asgSeen"} /\ changes["asg"] = a
          /\ changes["asgSeen"] = db[a].status /\ Continue(r, changes, branch)
      BY <1>9, <2>1
    <2>3. IF p.op = "confirm" /\ db[a].status = "PENDING" THEN branch = <<"answer">> ELSE branch = <<>>
      BY <2>1
    <2>4. <<>> # <<"answer">>
      OBVIOUS
    <2>5. p.op = "confirm" => Agrees(p)
      BY <1>3
    <2>6. Agrees(p) /\ Current(p, db) => branch = <<"answer">>
      BY <1>7, <2>1, <2>3 DEF Agrees
    <2> HIDE DEF changes, branch
    <2> QED
      BY <1>6, <2>1, <2>2, <2>3, <2>4, <2>5, <2>6
  <1> QED
    BY <1>8, <1>9 DEF FindActiveAssignment

-----------------------------------------------------------------------------
(* What a commit does to the committed rows. *)

\* The request changed no status, and no assignment.
Stays(rows, new) ==
    /\ SameBooking(new[BookingRow], rows[BookingRow])
    /\ \A a \in Assignments : new[a] = rows[a]

\* It changed one assignment at most.
OnlyOne(rows, new, a, row) ==
    /\ a \in Assignments /\ new[a] = row
    /\ \A x \in Assignments : x # a => new[x] = rows[x]

AssignmentMoves(p, rows, new) ==
    CASE p.op = "assign" ->
            /\ p.chosen \in Providers
            /\ \E a \in Assignments :
                  /\ rows[a].status = "FREE"
                  /\ OnlyOne(rows, new, a, [status |-> "PENDING", provider |-> p.chosen])
      [] p.op \in {"accept", "reject", "confirm"} ->
            /\ p.asg \in Assignments /\ rows[p.asg].status = "PENDING"
            /\ OnlyOne(rows, new, p.asg, [status |-> ToAnswer[p.op], provider |-> rows[p.asg].provider])
      [] p.op = "cancel" ->
            \/ NoneActive(rows) /\ \A a \in Assignments : new[a] = rows[a]
            \/ /\ p.asg \in Assignments /\ rows[p.asg].status \in Active
               /\ OnlyOne(rows, new, p.asg,
                          [status |-> "CANCELLED", provider |-> rows[p.asg].provider])
      [] p.op \in {"complete", "close"} -> \A a \in Assignments : new[a] = rows[a]

MovesOn(p, rows, new) ==
    LET old == rows[BookingRow]
        booked == new[BookingRow]
    IN /\ Moves(p)
       /\ Machine!CanTransition(old.status, ToStatus[p.op])
       /\ booked.status = ToStatus[p.op]
       /\ booked.version = old.version + 1
       /\ booked.trail = Append(old.trail, ToStatus[p.op])
       /\ booked.quotedBy = IF p.op = "reject" THEN None
                            ELSE IF p.op = "assign" THEN p.chosen ELSE old.quotedBy
       /\ AssignmentMoves(p, rows, new)

\* Nothing is left of the program.
LEMMA Finished ==
    ASSUME NEW p, NEW held, NEW rows, Plan(p, held, rows), p.todo = <<>>,
           NEW new,
           \A x \in Assignments \cup {BookingRow} :
              new[x] = IF x \in DOMAIN held THEN held[x] ELSE rows[x]
    PROVE  \/ Stays(rows, new)
           \/ BookingRow \in DOMAIN held /\ MovesOn(p, rows, new)
  <1>1. \A x : ~Has(p, x)
    BY Holding
  <1>2. \A a \in Assignments : a \notin Touched(held) => new[a] = rows[a]
    BY DEF Touched
  <1>3. \A a \in Touched(held) : a \in Assignments /\ new[a] = held[a]
    BY DEF Touched
  <1>4. new[BookingRow] = IF BookingRow \in DOMAIN held THEN held[BookingRow] ELSE rows[BookingRow]
    OBVIOUS
  <1>5. CASE ~Moves(p)
    <2>1. p.op \in {"none", "propose"} \/ (p.op = "confirm" /\ ~Agrees(p))
      BY <1>5 DEF Plan, Programmed, Moves
    <2>2. Touched(held) = {}
      BY <2>1 DEF Plan, OthersHeld
    <2>3. SameBooking(new[BookingRow], rows[BookingRow])
      BY <1>4, <1>5 DEF Plan, BookingHeld, Moved, SameBooking
    <2> QED
      BY <1>2, <2>2, <2>3 DEF Stays
  <1>6. CASE Moves(p)
    <2>1. Moved(p)
      BY <1>1, <1>6 DEF Moved
    <2>2. /\ BookingRow \in DOMAIN held /\ Current(p, rows)
          /\ Machine!CanTransition(rows[BookingRow].status, ToStatus[p.op])
          /\ new[BookingRow].status = ToStatus[p.op]
          /\ new[BookingRow].version = rows[BookingRow].version + 1
          /\ new[BookingRow].trail = Append(rows[BookingRow].trail, ToStatus[p.op])
          /\ new[BookingRow].quotedBy = IF p.op = "reject" THEN None
                                ELSE IF p.op = "assign" THEN p.chosen ELSE rows[BookingRow].quotedBy
      BY <1>1, <1>4, <2>1 DEF Plan, BookingHeld
    <2>3. \A a \in Touched(held) : Inserted(p, held, rows, a) \/ Answered(p, held, rows, a)
      BY DEF Plan, AssignmentsHeld
    <2>4. CASE p.op = "assign"
      <3>1. p.chosen \in Providers /\ \E a \in Assignments : Touched(held) = {a}
        BY <1>1, <2>4 DEF Plan, AssignHeld
      <3>2. PICK a \in Assignments : Touched(held) = {a}
        BY <3>1
      <3>3. rows[a].status = "FREE" /\ held[a] = [status |-> "PENDING", provider |-> p.chosen]
        BY <2>3, <2>4, <3>2 DEF Inserted, Answered
      <3>4. OnlyOne(rows, new, a, [status |-> "PENDING", provider |-> p.chosen])
        BY <1>2, <1>3, <3>2, <3>3 DEF OnlyOne
      <3> QED
        BY <1>6, <2>2, <2>4, <3>1, <3>3, <3>4 DEF MovesOn, AssignmentMoves
    <2>5. CASE p.op \in {"accept", "reject", "confirm"}
      <3>1. p.asg \in Assignments /\ p.asg \in Touched(held)
        <4>1. CASE p.op \in {"accept", "reject"}
          BY <1>1, <4>1 DEF Plan, AnswerHeld, Touched
        <4>2. CASE p.op = "confirm"
          <5>1. Agrees(p)
            BY <1>6, <4>2 DEF Moves
          <5> QED
            BY <1>1, <2>2, <5>1 DEF Plan, AgreeHeld, Touched
        <4> QED
          BY <2>5, <4>1, <4>2
      <3>2. \A a \in Touched(held) : Answered(p, held, rows, a)
        BY <2>3, <2>5 DEF Inserted
      <3>3. /\ Touched(held) = {p.asg} /\ rows[p.asg].status = "PENDING"
            /\ held[p.asg] = [status |-> ToAnswer[p.op], provider |-> rows[p.asg].provider]
        BY <2>5, <3>1, <3>2 DEF Answered
      <3>4. OnlyOne(rows, new, p.asg, [status |-> ToAnswer[p.op], provider |-> rows[p.asg].provider])
        BY <1>2, <1>3, <3>1, <3>3 DEF OnlyOne
      <3>5. AssignmentMoves(p, rows, new)
        BY <2>5, <3>1, <3>3, <3>4 DEF AssignmentMoves
      <3> QED
        BY <1>6, <2>2, <3>5 DEF MovesOn
    <2>6. CASE p.op = "cancel"
      <3>0. \A a \in Touched(held) : Answered(p, held, rows, a)
        BY <2>3, <2>6 DEF Inserted
      <3>1. CASE p.asg = None
        <4>1. NoneActive(rows)
          BY <1>1, <2>2, <2>6, <3>1 DEF Plan, CancelHeld
        <4>2. Touched(held) = {}
          BY <3>0, <3>1, TransactionsAssumption DEF Answered, Touched
        <4>3. AssignmentMoves(p, rows, new)
          BY <1>2, <2>6, <4>1, <4>2 DEF AssignmentMoves
        <4> QED
          BY <1>6, <2>2, <4>3 DEF MovesOn
      <3>2. CASE p.asg # None
        <4>1. p.asg \in Assignments /\ p.asg \in Touched(held)
          BY <1>1, <2>2, <2>6, <3>2 DEF Plan, CancelHeld, Touched
        <4>2. /\ Touched(held) = {p.asg} /\ rows[p.asg].status \in Active
              /\ held[p.asg] = [status |-> "CANCELLED", provider |-> rows[p.asg].provider]
          <5>1. ToAnswer[p.op] = "CANCELLED"
            BY <2>6 DEF ToAnswer
          <5> QED
            BY <2>6, <3>0, <4>1, <5>1 DEF Answered
        <4>3. OnlyOne(rows, new, p.asg, [status |-> "CANCELLED", provider |-> rows[p.asg].provider])
          BY <1>2, <1>3, <4>1, <4>2 DEF OnlyOne
        <4>4. AssignmentMoves(p, rows, new)
          BY <2>6, <4>1, <4>2, <4>3 DEF AssignmentMoves
        <4> QED
          BY <1>6, <2>2, <4>4 DEF MovesOn
      <3> QED
        BY <3>1, <3>2
    <2>7. CASE p.op \in {"complete", "close"}
      <3>1. Touched(held) = {}
        BY <2>7 DEF Plan, OthersHeld
      <3>2. AssignmentMoves(p, rows, new)
        BY <1>2, <2>7, <3>1 DEF AssignmentMoves
      <3> QED
        BY <1>6, <2>2, <3>2 DEF MovesOn
    <2> QED
      BY <1>6, <2>4, <2>5, <2>6, <2>7 DEF Moves, Agrees
  <1> QED
    BY <1>5, <1>6

\* The plans of the requests that go on.
LEMMA StaysPlan ==
    ASSUME NEW p, NEW held, NEW rows, NEW new, Plan(p, held, rows), Stays(rows, new)
    PROVE  Plan(p, held, new)
  <1>1. /\ new[BookingRow].status = rows[BookingRow].status
        /\ new[BookingRow].version = rows[BookingRow].version
        /\ new[BookingRow].trail = rows[BookingRow].trail
        /\ new[BookingRow].quotedBy = rows[BookingRow].quotedBy
    BY DEF Stays, SameBooking
  <1>2. \A a \in Assignments : new[a] = rows[a]
    BY DEF Stays
  <1>3. Current(p, new) <=> Current(p, rows)
    BY <1>1 DEF Current
  <1>4. Snapshot(p, new)
    BY <1>1, <1>3 DEF Plan, Snapshot
  <1>5. BookingHeld(p, held, new)
    BY <1>1, <1>3 DEF Plan, BookingHeld
  <1>6. AssignmentsHeld(p, held, new)
    BY <1>2 DEF Plan, AssignmentsHeld, Inserted, Answered, Touched
  <1>7. AgreeHeld(p, held, new)
    BY <1>3 DEF Plan, AgreeHeld
  <1>8. CancelHeld(p, held, new)
    BY <1>2, <1>3 DEF Plan, CancelHeld, NoneActive
  <1> QED
    BY <1>4, <1>5, <1>6, <1>7, <1>8 DEF Plan

\* ... and one that moves the booking makes their reads stale: the version has grown.
LEMMA LatePlan ==
    ASSUME NEW p, NEW held, NEW rows, NEW new, Plan(p, held, rows),
           rows[BookingRow].version \in Nat,
           new[BookingRow].version = rows[BookingRow].version + 1,
           BookingRow \notin DOMAIN held,
           \A a \in Touched(held) : new[a] = rows[a]
    PROVE  Plan(p, held, new)
  <1>1. ~Moved(p)
    BY DEF Plan, BookingHeld
  <1>2. p.op # "none" => ~Current(p, new) /\ p.seen.version <= new[BookingRow].version
    BY DEF Plan, Snapshot, Current
  <1>3. Snapshot(p, new)
    BY <1>2 DEF Plan, Snapshot
  <1>4. BookingHeld(p, held, new)
    BY <1>1 DEF BookingHeld
  <1>5. AssignmentsHeld(p, held, new)
    BY DEF Plan, AssignmentsHeld, Inserted, Answered
  <1>6. AgreeHeld(p, held, new)
    BY <1>2 DEF Plan, AgreeHeld, Agrees
  <1>7. CancelHeld(p, held, new)
    BY <1>2 DEF Plan, CancelHeld
  <1> QED
    BY <1>3, <1>4, <1>5, <1>6, <1>7 DEF Plan

\* The lifecycle's view of the assignments.
ActiveOf(rows) == {a \in Assignments : rows[a].status \in Active}
ProviderOf(rows) == IF ActiveOf(rows) = {} THEN None
                    ELSE rows[CHOOSE a \in ActiveOf(rows) : TRUE].provider
AnswerOf(rows) == IF ActiveOf(rows) = {} THEN "NONE"
                  ELSE rows[CHOOSE a \in ActiveOf(rows) : TRUE].status

\* Without an active assignment the lifecycle sees no provider.
LEMMA NobodyAssigned ==
    ASSUME NEW rows, NoneActive(rows)
    PROVE  ProviderOf(rows) = None /\ AnswerOf(rows) = "NONE"
  BY DEF NoneActive, ProviderOf, AnswerOf, ActiveOf

\* With one it sees its provider and its answer.
LEMMA TheAssigned ==
    ASSUME NEW rows, NEW a \in Assignments, rows[a].status \in Active,
           \A x \in Assignments : rows[x].status \in Active => x = a
    PROVE  ProviderOf(rows) = rows[a].provider /\ AnswerOf(rows) = rows[a].status
  <1>1. ActiveOf(rows) = {a}
    BY DEF ActiveOf
  <1>2. (CHOOSE x \in ActiveOf(rows) : TRUE) = a
    BY <1>1
  <1> QED
    BY <1>1, <1>2 DEF ProviderOf, AnswerOf

\* It looks at the assignments only.
LEMMA SameAssigned ==
    ASSUME NEW rows, NEW new, \A a \in Assignments : new[a] = rows[a]
    PROVE  ProviderOf(new) = ProviderOf(rows) /\ AnswerOf(new) = AnswerOf(rows)
  <1>1. ActiveOf(new) = ActiveOf(rows)
    BY DEF ActiveOf
  <1>2. CASE ActiveOf(rows) = {}
    BY <1>1, <1>2 DEF ProviderOf, AnswerOf
  <1>3. CASE ActiveOf(rows) # {}
    <2>1. (CHOOSE a \in ActiveOf(rows) : TRUE) \in Assignments
      BY <1>3 DEF ActiveOf
    <2> QED
      BY <1>1, <1>3, <2>1 DEF ProviderOf, AnswerOf
  <1> QED
    BY <1>2, <1>3

\* Where a booking comes from.
LEMMA ComesFrom ==
    ASSUME NEW from \in Machine!Status, NEW to, Machine!CanTransition(from, to)
    PROVE  /\ to = "ASSIGNED" => from = "UNASSIGNED"
           /\ to = "UNASSIGNED" => from = "ASSIGNED"
           /\ to = "SCHEDULED" => from \in {"ASSIGNED", "AWAITING_CONFIRMATION"}
           /\ to = "AWAITING_CONFIRMATION" => from = "SCHEDULED"
           /\ to = "COMPLETED" => from = "AWAITING_CONFIRMATION"
           /\ to = "CANCELLED" => from \in {"UNASSIGNED", "ASSIGNED", "SCHEDULED"}
  BY DEF Machine!Status, Machine!CanTransition, Machine!Transitions

\* The six statuses.
LEMMA Closed ==
    Machine!Status = {"UNASSIGNED", "ASSIGNED", "SCHEDULED", "AWAITING_CONFIRMATION",
                      "COMPLETED", "CANCELLED"}
  BY DEF Machine!Status

\* The rows that are in use.
LEMMA UsedFinite ==
    ASSUME NEW rows
    PROVE  /\ IsFiniteSet(Used(rows)) /\ Cardinality(Used(rows)) \in Nat
           /\ Cardinality(Assignments) \in Nat
           /\ Cardinality(Used(rows)) <= Cardinality(Assignments)
  <1>1. Used(rows) \subseteq Assignments
    BY DEF Used
  <1> QED
    BY <1>1, TransactionsAssumption, FS_Subset, FS_CardinalityType

\* A row that is inserted is one more row in use.
LEMMA UsedGrows ==
    ASSUME NEW rows, NEW new, NEW a \in Assignments, rows[a].status = "FREE",
           new[a].status # "FREE", \A x \in Assignments : x # a => new[x] = rows[x]
    PROVE  /\ Cardinality(Used(new)) = Cardinality(Used(rows)) + 1
           /\ Cardinality(Used(rows)) + 1 <= Cardinality(Assignments)
  <1>1. Used(new) = Used(rows) \cup {a} /\ a \notin Used(rows)
    BY DEF Used
  <1>2. IsFiniteSet(Used(rows)) /\ Cardinality(Used(new)) <= Cardinality(Assignments)
    BY UsedFinite
  <1>3. Cardinality(Used(rows) \cup {a}) = Cardinality(Used(rows)) + 1
    BY <1>1, <1>2, FS_AddElement
  <1> QED
    BY <1>1, <1>2, <1>3

\* The trail, one status longer.
LEMMA Longer ==
    ASSUME NEW t \in Seq(Machine!Status), NEW to \in Machine!Status
    PROVE  Append(t, to) \in Seq(Machine!Status) /\ Len(Append(t, to)) = Len(t) + 1
           /\ Len(t) \in Nat
  OBVIOUS

\* What a step of the lifecycle looks like.
Step(op, p) ==
    /\ op # "propose"
    /\ Machine!CanTransition(booking.status, ToStatus[op])
    /\ booking'.status = ToStatus[op]
    /\ booking'.trail = Append(booking.trail, ToStatus[op])
    /\ CASE op = "assign" ->
              /\ p \in Providers /\ Len(booking.trail) < 2 * Cardinality(Assignments)
              /\ ProviderOf(db') = p /\ AnswerOf(db') = "PENDING" /\ booking'.quotedBy = p
         [] op \in {"accept", "confirm"} ->
              /\ AnswerOf(db) = "PENDING" /\ AnswerOf(db') = "ACCEPTED"
              /\ ProviderOf(db') = ProviderOf(db) /\ booking'.quotedBy = booking.quotedBy
         [] op = "reject" ->
              /\ AnswerOf(db) = "PENDING" /\ AnswerOf(db') = "NONE"
              /\ ProviderOf(db') = None /\ booking'.quotedBy = None
         [] op = "cancel" ->
              /\ AnswerOf(db') = "NONE" /\ ProviderOf(db') = None
              /\ booking'.quotedBy = booking.quotedBy
         [] op = "complete" ->
              /\ AnswerOf(db) = "ACCEPTED" /\ AnswerOf(db') = AnswerOf(db)
              /\ ProviderOf(db') = ProviderOf(db) /\ booking'.quotedBy = booking.quotedBy
         [] op = "close" ->
              /\ AnswerOf(db') = AnswerOf(db)
              /\ ProviderOf(db') = ProviderOf(db) /\ booking'.quotedBy = booking.quotedBy

\* A commit of assign is a step of the lifecycle.
LEMMA AfterAssign ==
    ASSUME LInv, NEW p, p.op = "assign", MovesOn(p, db, db')
    PROVE  Assigned' /\ Bounded' /\ Step("assign", p.chosen)
  <1>1. /\ Machine!CanTransition(booking.status, "ASSIGNED") /\ booking'.status = "ASSIGNED"
        /\ booking'.version = booking.version + 1
        /\ booking'.trail = Append(booking.trail, "ASSIGNED") /\ booking'.quotedBy = p.chosen
        /\ AssignmentMoves(p, db, db')
    BY DEF MovesOn, ToStatus, booking
  <1>2. booking.status = "UNASSIGNED"
    BY <1>1, ComesFrom DEF LInv, Bounded
  <1>3. p.chosen \in Providers
    BY <1>1 DEF AssignmentMoves
  <1>4. PICK a \in Assignments : /\ db[a].status = "FREE"
               /\ OnlyOne(db, db', a, [status |-> "PENDING", provider |-> p.chosen])
    BY <1>1 DEF AssignmentMoves
  <1>5. /\ db'[a] = [status |-> "PENDING", provider |-> p.chosen]
        /\ db'[a].status = "PENDING" /\ db'[a].provider = p.chosen
        /\ \A x \in Assignments : x # a => db'[x] = db[x]
    BY <1>4 DEF OnlyOne
  <1>6. \A x \in Assignments : db[x].status \notin Active
    BY <1>2 DEF LInv, Assigned, Status, Active
  <1>7. Assigned'
    <2>1. \A x \in Assignments : db'[x] \in AssignmentRecord
      BY <1>3, <1>5 DEF LInv, Assigned, AssignmentRecord, AssignmentStatus
    <2> QED
      BY <1>1, <1>3, <1>5, <1>6, <2>1 DEF Assigned, Status, Active
  <1>8. /\ Cardinality(Used(db')) = Cardinality(Used(db)) + 1
        /\ Cardinality(Used(db)) + 1 <= Cardinality(Assignments)
    BY <1>4, <1>5, UsedGrows
  <1>9. /\ booking.trail \in Seq(Machine!Status) /\ booking.version \in Nat
        /\ Len(booking.trail) <= 2 * Cardinality(Used(db)) + 1
    BY <1>2 DEF LInv, Bounded
  <1>10. /\ booking'.trail \in Seq(Machine!Status) /\ Len(booking'.trail) = Len(booking.trail) + 1
         /\ Len(booking.trail) \in Nat /\ "ASSIGNED" \in Machine!Status
    BY <1>1, <1>9, Closed, Longer
  <1>11. Cardinality(Used(db)) \in Nat /\ Cardinality(Assignments) \in Nat
    BY UsedFinite
  <1>12. /\ Len(booking'.trail) <= 2 * Cardinality(Used(db'))
         /\ Len(booking.trail) < 2 * Cardinality(Assignments)
    BY <1>8, <1>9, <1>10, <1>11
  <1>13. Bounded'
    BY <1>1, <1>9, <1>10, <1>12 DEF Bounded
  <1>14. ProviderOf(db') = p.chosen /\ AnswerOf(db') = "PENDING"
    <2>1. db'[a].status \in Active /\ \A x \in Assignments : db'[x].status \in Active => x = a
      BY <1>5, <1>6 DEF Active
    <2> QED
      BY <1>5, <2>1, TheAssigned
  <1> QED
    BY <1>1, <1>3, <1>7, <1>12, <1>13, <1>14 DEF Step, ToStatus

\* Neither an answer that closes the job nor its completion uses up the bound.
LEMMA OthersBounded ==
    ASSUME LInv, NEW to \in Machine!Status,
           booking'.status = to, booking'.version = booking.version + 1,
           booking'.trail = Append(booking.trail, to), to \notin {"ASSIGNED", "UNASSIGNED"}
    PROVE  Bounded'
  <1>1. booking'.trail \in Seq(Machine!Status)
    BY Longer DEF LInv, Bounded
  <1> QED
    BY <1>1 DEF LInv, Bounded

\* The booking's assignment is answered, or its provider steps down.
LEMMA AfterAnswer ==
    ASSUME LInv, NEW p, p.op \in {"accept", "reject", "confirm"}, MovesOn(p, db, db')
    PROVE  Assigned' /\ Bounded' /\ Step(p.op, None)
  <1> DEFINE a == p.asg
             to == ToStatus[p.op]
  <1>1. /\ Machine!CanTransition(booking.status, to) /\ booking'.status = to
        /\ booking'.version = booking.version + 1
        /\ booking'.trail = Append(booking.trail, to)
        /\ booking'.quotedBy = IF p.op = "reject" THEN None ELSE booking.quotedBy
        /\ AssignmentMoves(p, db, db')
    BY DEF MovesOn, booking
  <1>2. /\ a \in Assignments /\ db[a].status = "PENDING"
        /\ db'[a] = [status |-> ToAnswer[p.op], provider |-> db[a].provider]
        /\ \A x \in Assignments : x # a => db'[x] = db[x]
    BY <1>1 DEF AssignmentMoves, OnlyOne
  <1>3. /\ booking.status = "ASSIGNED"
        /\ \A x \in Assignments : db[x].status \in Active => x = a
        /\ db[a].provider \in Providers
    BY <1>2 DEF LInv, Assigned, Status, Active
  <1>4. /\ db'[a].status = ToAnswer[p.op] /\ db'[a].provider = db[a].provider
        /\ ToAnswer[p.op] = IF p.op = "reject" THEN "REJECTED" ELSE "ACCEPTED"
        /\ to = IF p.op = "reject" THEN "UNASSIGNED" ELSE "SCHEDULED"
    BY <1>2 DEF ToAnswer, ToStatus
  <1>5. \A x \in Assignments : x # a => db'[x].status \notin Active
    BY <1>2, <1>3
  <1>6. Assigned'
    <2>1. \A x \in Assignments : db'[x] \in AssignmentRecord
      <3>1. ToAnswer[p.op] \in AssignmentStatus
        BY <1>4 DEF AssignmentStatus
      <3> QED
        BY <1>2, <1>3, <3>1 DEF LInv, Assigned, AssignmentRecord
    <2>2. CASE p.op = "reject"
      <3>1. NoneActive(db') /\ booking'.status = "UNASSIGNED"
        BY <1>1, <1>4, <1>5, <2>2 DEF NoneActive, Active
      <3> QED
        BY <2>1, <3>1 DEF Assigned, Status, NoneActive, Active
    <2>3. CASE p.op # "reject"
      <3>1. db'[a].status = "ACCEPTED" /\ booking'.status = "SCHEDULED"
        BY <1>1, <1>4, <2>3
      <3> QED
        BY <1>2, <1>3, <1>4, <1>5, <2>1, <3>1 DEF Assigned, Status, Active
    <2> QED
      BY <2>2, <2>3
  <1>7. Used(db') = Used(db)
    BY <1>2, <1>4 DEF Used
  <1>8. Bounded'
    <2>1. to \in Machine!Status
      BY <1>4, Closed
    <2>2. CASE p.op = "reject"
      <3>1. /\ booking.trail \in Seq(Machine!Status) /\ booking.version \in Nat
            /\ Len(booking.trail) <= 2 * Cardinality(Used(db))
        BY <1>3 DEF LInv, Bounded
      <3>2. /\ booking'.trail \in Seq(Machine!Status) /\ Len(booking.trail) \in Nat
            /\ Len(booking'.trail) = Len(booking.trail) + 1
        BY <1>1, <2>1, <3>1, Longer
      <3>3. Cardinality(Used(db)) \in Nat
        BY UsedFinite
      <3>4. Len(booking'.trail) <= 2 * Cardinality(Used(db')) + 1
        BY <1>7, <3>1, <3>2, <3>3
      <3> QED
        BY <1>1, <1>4, <2>1, <2>2, <3>1, <3>2, <3>4 DEF Bounded
    <2>3. CASE p.op # "reject"
      BY <1>1, <1>4, <2>1, <2>3, OthersBounded
    <2> QED
      BY <2>2, <2>3
  <1>9. ProviderOf(db) = db[a].provider /\ AnswerOf(db) = "PENDING"
    BY <1>2, <1>3, TheAssigned DEF Active
  <1>10. CASE p.op = "reject"
    <2>1. NoneActive(db')
      BY <1>4, <1>5, <1>10 DEF NoneActive, Active
    <2>2. ProviderOf(db') = None /\ AnswerOf(db') = "NONE"
      BY <2>1, NobodyAssigned
    <2> QED
      BY <1>1, <1>6, <1>8, <1>9, <1>10, <2>2 DEF Step
  <1>11. CASE p.op \in {"accept", "confirm"}
    <2>1. db'[a].status \in Active /\ \A x \in Assignments : db'[x].status \in Active => x = a
      BY <1>4, <1>5, <1>11 DEF Active
    <2>2. ProviderOf(db') = ProviderOf(db) /\ AnswerOf(db') = "ACCEPTED"
      BY <1>2, <1>4, <1>9, <1>11, <2>1, TheAssigned
    <2> QED
      BY <1>1, <1>6, <1>8, <1>9, <1>11, <2>2 DEF Step
  <1> QED
    BY <1>10, <1>11

\* A commit of cancel is one ...
LEMMA AfterCancel ==
    ASSUME LInv, NEW p, p.op = "cancel", MovesOn(p, db, db')
    PROVE  Assigned' /\ Bounded' /\ Step("cancel", None)
  <1>1. /\ Machine!CanTransition(booking.status, "CANCELLED") /\ booking'.status = "CANCELLED"
        /\ booking'.version = booking.version + 1
        /\ booking'.trail = Append(booking.trail, "CANCELLED")
        /\ booking'.quotedBy = booking.quotedBy
        /\ AssignmentMoves(p, db, db')
    BY DEF MovesOn, booking, ToStatus
  <1>2. \/ NoneActive(db) /\ \A a \in Assignments : db'[a] = db[a]
        \/ /\ p.asg \in Assignments /\ db[p.asg].status \in Active
           /\ db'[p.asg] = [status |-> "CANCELLED", provider |-> db[p.asg].provider]
           /\ \A x \in Assignments : x # p.asg => db'[x] = db[x]
    BY <1>1 DEF AssignmentMoves, OnlyOne
  <1>3. NoneActive(db')
    BY <1>2 DEF NoneActive, LInv, Assigned, Status, Active
  <1>4. \A x \in Assignments : db'[x] \in AssignmentRecord
    BY <1>2 DEF LInv, Assigned, AssignmentRecord, AssignmentStatus
  <1>5. Assigned'
    BY <1>1, <1>3, <1>4 DEF Assigned, Status, NoneActive, Active
  <1>6. Bounded'
    <2>1. "CANCELLED" \in Machine!Status
      BY Closed
    <2> QED
      BY <1>1, <2>1, OthersBounded
  <1>7. ProviderOf(db') = None /\ AnswerOf(db') = "NONE"
    BY <1>3, NobodyAssigned
  <1> QED
    BY <1>1, <1>5, <1>6, <1>7 DEF Step, ToStatus

\* ... and so is one of markComplete or confirmCompletion.
LEMMA AfterWork ==
    ASSUME LInv, NEW p, p.op \in {"complete", "close"}, MovesOn(p, db, db')
    PROVE  Assigned' /\ Bounded' /\ Step(p.op, None)
  <1> DEFINE to == ToStatus[p.op]
  <1>1. /\ Machine!CanTransition(booking.status, to) /\ booking'.status = to
        /\ booking'.version = booking.version + 1
        /\ booking'.trail = Append(booking.trail, to)
        /\ booking'.quotedBy = booking.quotedBy
        /\ \A a \in Assignments : db'[a] = db[a]
    BY DEF MovesOn, AssignmentMoves, booking
  <1>2. to = IF p.op = "close" THEN "COMPLETED" ELSE "AWAITING_CONFIRMATION"
    BY DEF ToStatus
  <1>3. booking.status = IF p.op = "close" THEN "AWAITING_CONFIRMATION" ELSE "SCHEDULED"
    BY <1>1, <1>2, ComesFrom DEF LInv, Bounded
  <1>4. PICK a \in Assignments : db[a].status = "ACCEPTED"
    BY <1>3 DEF LInv, Assigned, Status
  <1>5. AnswerOf(db) = "ACCEPTED"
    BY <1>4, TheAssigned DEF LInv, Assigned, Status, Active
  <1>6. ProviderOf(db') = ProviderOf(db) /\ AnswerOf(db') = AnswerOf(db)
    BY <1>1, SameAssigned
  <1>7. Assigned'
    BY <1>1, <1>2, <1>3 DEF LInv, Assigned, Status
  <1>8. Bounded'
    <2>1. to \in Machine!Status
      BY <1>2, Closed
    <2> QED
      BY <1>1, <1>2, <2>1, OthersBounded
  <1> QED
    BY <1>1, <1>5, <1>6, <1>7, <1>8 DEF Step

\* A transaction ends with its writes.
LEMMA CommitPlans ==
    ASSUME IInv, LInv, NEW r \in Requests, Commit(r)
    PROVE  /\ LInv'
           /\ Stays(db, db') \/ \E op \in Ops : \E p : Step(op, p)
  <1>1. /\ proc'[r] = Idle /\ \A q \in Requests \ {r} : proc'[q] = proc[q]
        /\ booking' = View(r, BookingRow)
    BY Commits
  <1>2. /\ DOMAIN writes'[r] = {} /\ \A q \in Requests \ {r} : writes'[q] = writes[q]
        /\ \A x \in Rows : db'[x] = View(r, x)
        /\ proc[r].todo = <<>>
    BY DEF IInv, Pending, Commit, NoWrites
  <1>3. \A x \in Assignments \cup {BookingRow} :
           db'[x] = IF x \in DOMAIN writes[r] THEN writes[r][x] ELSE db[x]
    BY <1>2 DEF Rows, View
  <1>4. Plan(proc[r], writes[r], db)
    BY DEF LInv
  <1>5. \/ Stays(db, db')
        \/ BookingRow \in DOMAIN writes[r] /\ MovesOn(proc[r], db, db')
    BY <1>2, <1>3, <1>4, Finished
  <1>6. Plan(proc'[r], writes'[r], db')
    BY <1>1, <1>2, IdlePlan
  <1>7. CASE Stays(db, db')
    <2>1. ASSUME NEW q \in Requests PROVE Plan(proc'[q], writes'[q], db')
      <3>1. CASE q = r
        BY <1>6, <3>1
      <3>2. CASE q # r
        <4>1. Plan(proc[q], writes[q], db)
          BY DEF LInv
        <4>2. Plan(proc[q], writes[q], db')
          BY <1>7, <4>1, StaysPlan
        <4> QED
          BY <1>1, <1>2, <3>2, <4>2
      <3> QED
        BY <3>1, <3>2
    <2>2. \A a \in Assignments : db'[a] = db[a]
      BY <1>7 DEF Stays
    <2>3. /\ booking'.status = booking.status /\ booking'.version = booking.version
          /\ booking'.trail = booking.trail
      BY <1>7 DEF Stays, SameBooking, booking
    <2>4. Used(db') = Used(db)
      BY <2>2 DEF Used
    <2>5. Assigned'
      BY <2>2, <2>3 DEF LInv, Assigned, Status
    <2>6. Bounded'
      BY <2>3, <2>4 DEF LInv, Bounded
    <2> QED
      BY <1>7, <2>1, <2>5, <2>6 DEF LInv
  <1>8. CASE BookingRow \in DOMAIN writes[r] /\ MovesOn(proc[r], db, db')
    <2>1. ASSUME NEW q \in Requests PROVE Plan(proc'[q], writes'[q], db')
      <3>1. CASE q = r
        BY <1>6, <3>1
      <3>2. CASE q # r
        <4>1. Plan(proc[q], writes[q], db)
          BY DEF LInv
        <4>2. \A x \in DOMAIN writes[q] : x \notin DOMAIN writes[r]
          BY <3>2 DEF IInv, RowsAreLocked
        <4>3. BookingRow \notin DOMAIN writes[q] /\ \A a \in Touched(writes[q]) : db'[a] = db[a]
          BY <1>3, <1>8, <4>2 DEF Touched
        <4>4. db[BookingRow].version \in Nat /\ db'[BookingRow].version = db[BookingRow].version + 1
          BY <1>8 DEF MovesOn, LInv, Bounded, booking
        <4>5. Plan(proc[q], writes[q], db')
          BY <4>1, <4>3, <4>4, LatePlan
        <4> QED
          BY <1>1, <1>2, <3>2, <4>5
      <3> QED
        BY <3>1, <3>2
    <2>2. proc[r].op \in Ops \ {"propose"}
      BY <1>8 DEF MovesOn, Moves, Agrees, Ops
    <2>3. Assigned' /\ Bounded' /\ \E op \in Ops : \E p : Step(op, p)
      <3>1. CASE proc[r].op = "assign"
        BY <1>8, <2>2, <3>1, AfterAssign
      <3>2. CASE proc[r].op \in {"accept", "reject", "confirm"}
        BY <1>8, <2>2, <3>2, AfterAnswer
      <3>3. CASE proc[r].op = "cancel"
        BY <1>8, <2>2, <3>3, AfterCancel
      <3>4. CASE proc[r].op \in {"complete", "close"}
        BY <1>8, <2>2, <3>4, AfterWork
      <3> QED
        BY <2>2, <3>1, <3>2, <3>3, <3>4 DEF Ops
    <2> QED
      BY <2>1, <2>3 DEF LInv
  <1> QED
    BY <1>5, <1>7, <1>8

\* Every step keeps the plans, and shows the lifecycle nothing or one step.
LEMMA PlansStep ==
    ASSUME IInv, LInv, [Next]_vars
    PROVE  /\ LInv'
           /\ \/ UNCHANGED db \/ Stays(db, db')
              \/ \E op \in Ops : \E p : Step(op, p)
  <1>1. CASE UNCHANGED vars
    <2>1. db' = db /\ writes' = writes /\ proc' = proc
      BY <1>1 DEF vars
    <2>2. Assigned' /\ Bounded'
      BY <2>1 DEF LInv, Assigned, Bounded, Status, Used, booking
    <2> QED
      BY <2>1, <2>2 DEF LInv
  <1>2. ASSUME NEW r \in Requests, Start(r) PROVE LInv' /\ UNCHANGED db
    <2>1. UNCHANGED db
      BY <1>2 DEF Start, BeginAssign, BeginCancel, BeginAccept, BeginReject, BeginPropose,
                  BeginConfirm, BeginMarkComplete, BeginConfirmCompletion, Begin
    <2> QED
      BY <1>2, <2>1, StartPlans
  <1>3. ASSUME NEW r \in Requests, Rollback(r) PROVE LInv' /\ UNCHANGED db
    BY <1>3, RolledBackPlans DEF Rollback
  <1>4. ASSUME NEW r \in Requests,
               \/ TransitionStatus(r) \/ CreateAssignment(r) \/ FindActiveAssignment(r)
               \/ CloseAssignment(r) \/ WithdrawAssignment(r) \/ ApplyQuote(r)
        PROVE  LInv' /\ UNCHANGED db
    <2>1. UNCHANGED db
      BY <1>4 DEF TransitionStatus, CreateAssignment, FindActiveAssignment, CloseAssignment,
                  WithdrawAssignment, ApplyQuote, UpdateBooking
    <2> QED
      BY <1>4, <2>1, TransitionPlans, InsertPlans, FindActivePlans, AnswerPlans, WithdrawPlans,
         QuotePlans
  <1>5. ASSUME NEW r \in Requests,
               \/ SupersedeSnapshot(r) \/ SupersedeRows(r) \/ ClearConfirmedDate(r)
               \/ CopyConfirmedDate(r) \/ CreateSchedule(r) \/ CloseSchedule(r)
               \/ CheckConfirmedIndex(r)
        PROVE  LInv' /\ UNCHANGED db
    <2>1. UNCHANGED db
      BY <1>5 DEF SupersedeSnapshot, SupersedeRows, ClearConfirmedDate, CopyConfirmedDate,
                  CreateSchedule, CloseSchedule, CheckConfirmedIndex, UpdateBooking
    <2> QED
      BY <1>5, <2>1, SupersedePlans, PlainPlans
  <1>6. ASSUME NEW r \in Requests, FindPendingSchedule(r) \/ ReadPendingSchedule(r)
        PROVE  LInv' /\ UNCHANGED db
    <2>1. UNCHANGED db
      BY <1>6 DEF FindPendingSchedule, ReadPendingSchedule, Rollback
    <2> QED
      BY <1>6, <2>1, LookPlans, ReadPendingPlans
  <1> QED
    BY <1>1, <1>2, <1>3, <1>4, <1>5, <1>6, CommitPlans
       DEF Next, Statement, LosesRace, LosesToIndex, UniqueViolationEscapes, DeadlockAborts,
           TransactionLost

\* Nobody is assigned at first.
LEMMA FirstLife == Init => LInv
  <1> SUFFICES ASSUME Init PROVE LInv
    OBVIOUS
  <1>1. /\ booking = [status |-> "UNASSIGNED", version |-> 0, quotedBy |-> None, date |-> None,
                       trail |-> <<"UNASSIGNED">>]
        /\ \A a \in Assignments : db[a] = [status |-> "FREE", provider |-> None]
    BY TransactionsAssumption DEF Init, booking, Rows
  <1>2. \A a \in Assignments : db[a].status = "FREE" /\ db[a] \in AssignmentRecord
    BY <1>1 DEF AssignmentRecord, AssignmentStatus
  <1>3. Assigned
    BY <1>1, <1>2 DEF Assigned, Status, Active
  <1>4. Bounded
    <2>1. /\ booking.status = "UNASSIGNED" /\ booking.version = 0
          /\ booking.trail = <<"UNASSIGNED">>
      BY <1>1
    <2>2. /\ <<"UNASSIGNED">> \in Seq(Machine!Status) /\ Len(<<"UNASSIGNED">>) = 1
          /\ "UNASSIGNED" \in Machine!Status
      BY Closed
    <2>3. 1 <= 2 * Cardinality(Used(db)) + 1
      BY UsedFinite
    <2> QED
      BY <2>1, <2>2, <2>3 DEF Bounded
  <1>5. ASSUME NEW r \in Requests PROVE Plan(proc[r], writes[r], db)
    <2>1. proc[r] = Idle /\ DOMAIN writes[r] = {}
      BY DEF Init, NoWrites
    <2> QED
      BY <2>1, IdlePlan
  <1> QED
    BY <1>3, <1>4, <1>5 DEF LInv

\* What every request has read, written and still to do, and what is committed of
\* the booking and of its assignments.
THEOREM PlansInvariance == Spec => []LInv
  <1>1. Init => LInv
    BY FirstLife
  <1>2. IInv /\ LInv /\ [Next]_vars => LInv'
    BY PlansStep
  <1> QED
    BY <1>1, <1>2, Invariance, PTL DEF Spec

\* A booking never has two providers at work, and its status says whether it has one:
\* somebody is asked exactly while it is ASSIGNED, somebody has agreed exactly while
\* it is SCHEDULED or further, whatever requests overlapped to get there.
THEOREM AssignedAsShown == Spec => []Assigned
  <1>1. LInv => Assigned
    BY DEF LInv
  <1> QED
    BY <1>1, PlansInvariance, PTL

-----------------------------------------------------------------------------
(* The refinement. *)

\* The initial state is one of the lifecycle.
LEMMA LifeBegins == Init => Lifecycle!Init
  <1> SUFFICES ASSUME Init PROVE Lifecycle!Init
    OBVIOUS
  <1>1. /\ booking.status = "UNASSIGNED" /\ booking.quotedBy = None
        /\ booking.trail = <<"UNASSIGNED">>
        /\ \A a \in Assignments : db[a].status = "FREE"
    BY TransactionsAssumption DEF Init, booking, Rows
  <1>2. ActiveAssignments = {}
    BY <1>1 DEF ActiveAssignments, Active
  <1> QED
    BY <1>1, <1>2 DEF Lifecycle!Init

\* What moves nothing is a stutter of the lifecycle.
LEMMA LifeStutters ==
    ASSUME \/ UNCHANGED db
           \/ Stays(db, db')
    PROVE  UNCHANGED Lifecycle!vars
  <1>1. /\ \A a \in Assignments : db'[a] = db[a]
        /\ booking'.status = booking.status /\ booking'.quotedBy = booking.quotedBy
        /\ booking'.trail = booking.trail
    BY DEF Stays, SameBooking, booking
  <1>2. ProviderOf(db') = ProviderOf(db) /\ AnswerOf(db') = AnswerOf(db)
    BY <1>1, SameAssigned
  <1> QED
    BY <1>1, <1>2 DEF Lifecycle!vars, ProviderOf, AnswerOf, ActiveOf, ActiveAssignments

\* What moves the booking is the action of the same name.
LEMMA LifeSteps ==
    ASSUME NEW op \in Ops, NEW p, Step(op, p)
    PROVE  Lifecycle!Next
  <1> DEFINE to == ToStatus[op]
  <1>1. /\ Lifecycle!CanTransition(booking.status, to)
        /\ booking'.status = to /\ booking'.trail = Append(booking.trail, to)
    BY DEF Step, Machine!CanTransition, Machine!Transitions, Lifecycle!CanTransition,
           Lifecycle!Transitions
  <1>2. Lifecycle!Move(to)
    BY <1>1 DEF Lifecycle!Move
  <1>3. op # "propose" => to \in {"ASSIGNED", "CANCELLED", "SCHEDULED", "UNASSIGNED",
                                  "AWAITING_CONFIRMATION", "COMPLETED"}
    BY DEF Ops, ToStatus
  <1>4. CASE op = "assign"
    <2>1. /\ to = "ASSIGNED" /\ p \in Providers
          /\ Len(booking.trail) < 2 * Cardinality(Assignments)
          /\ ProviderOf(db') = p /\ AnswerOf(db') = "PENDING" /\ booking'.quotedBy = p
      BY <1>4 DEF Step, ToStatus
    <2>2. Lifecycle!Assign(p)
      BY <1>2, <2>1 DEF Lifecycle!Assign, ProviderOf, AnswerOf, ActiveOf, ActiveAssignments
    <2> QED
      BY <2>1, <2>2 DEF Lifecycle!Next
  <1>5. CASE op \in {"accept", "confirm"}
    <2>1. /\ to = "SCHEDULED" /\ AnswerOf(db) = "PENDING" /\ AnswerOf(db') = "ACCEPTED"
          /\ ProviderOf(db') = ProviderOf(db) /\ booking'.quotedBy = booking.quotedBy
      <3>1. to = "SCHEDULED"
        BY <1>5 DEF ToStatus
      <3> QED
        BY <1>5, <3>1 DEF Step
    <2>2. Lifecycle!Agree
      BY <1>2, <2>1 DEF Lifecycle!Agree, ProviderOf, AnswerOf, ActiveOf, ActiveAssignments
    <2> QED
      BY <2>2 DEF Lifecycle!Next
  <1>6. CASE op = "reject"
    <2>1. /\ to = "UNASSIGNED" /\ AnswerOf(db) = "PENDING" /\ AnswerOf(db') = "NONE"
          /\ ProviderOf(db') = None /\ booking'.quotedBy = None
      BY <1>6 DEF Step, ToStatus
    <2>2. Lifecycle!Reject
      BY <1>2, <2>1 DEF Lifecycle!Reject, ProviderOf, AnswerOf, ActiveOf, ActiveAssignments
    <2> QED
      BY <2>2 DEF Lifecycle!Next
  <1>7. CASE op = "cancel"
    <2>1. /\ to = "CANCELLED" /\ AnswerOf(db') = "NONE" /\ ProviderOf(db') = None
          /\ booking'.quotedBy = booking.quotedBy
      BY <1>7 DEF Step, ToStatus
    <2>2. Lifecycle!Cancel
      BY <1>2, <2>1 DEF Lifecycle!Cancel, ProviderOf, AnswerOf, ActiveOf, ActiveAssignments
    <2> QED
      BY <2>2 DEF Lifecycle!Next
  <1>8. CASE op = "complete"
    <2>1. /\ to = "AWAITING_CONFIRMATION" /\ AnswerOf(db) = "ACCEPTED"
          /\ AnswerOf(db') = AnswerOf(db) /\ ProviderOf(db') = ProviderOf(db)
          /\ booking'.quotedBy = booking.quotedBy
      BY <1>8 DEF Step, ToStatus
    <2>2. Lifecycle!MarkComplete
      BY <1>2, <2>1 DEF Lifecycle!MarkComplete, ProviderOf, AnswerOf, ActiveOf, ActiveAssignments
    <2> QED
      BY <2>2 DEF Lifecycle!Next
  <1>9. CASE op = "close"
    <2>1. /\ to = "COMPLETED" /\ AnswerOf(db') = AnswerOf(db) /\ ProviderOf(db') = ProviderOf(db)
          /\ booking'.quotedBy = booking.quotedBy
      BY <1>9 DEF Step, ToStatus
    <2>2. Lifecycle!ConfirmCompletion
      BY <1>2, <2>1 DEF Lifecycle!ConfirmCompletion, ProviderOf, AnswerOf, ActiveOf,
                       ActiveAssignments
    <2> QED
      BY <2>2 DEF Lifecycle!Next
  <1> QED
    BY <1>4, <1>5, <1>6, <1>7, <1>8, <1>9 DEF Ops, Step

\* Every behaviour of the interleaved transactions is one of the lifecycle: the
\* booking, its quote, its assignment and its trail move as if the handlers ran one
\* at a time.
THEOREM Refines == Spec => ImplementsLifecycle
  <1>1. Init => Lifecycle!Init
    BY LifeBegins
  <1>2. IInv /\ LInv /\ [Next]_vars => [Lifecycle!Next]_(Lifecycle!vars)
    BY PlansStep, LifeStutters, LifeSteps
  <1> QED
    BY <1>1, <1>2, Invariance, PlansInvariance, PTL
       DEF Spec, ImplementsLifecycle, Lifecycle!Spec

-----------------------------------------------------------------------------
(* The columns. *)

\* Committed and uncommitted rows have their columns' types.
RowTypes ==
    /\ DOMAIN db = Rows /\ \A x \in Rows : RowOK(x, db[x])
    /\ \A r \in Requests :
          DOMAIN writes[r] \subseteq Rows /\ \A x \in DOMAIN writes[r] : RowOK(x, writes[r][x])

\* What a request sees of a row.
LEMMA ViewTypes ==
    ASSUME RowTypes, NEW r \in Requests, NEW x \in Rows
    PROVE  RowOK(x, View(r, x))
  BY DEF RowTypes, View

\* A write keeps the types if the rows written have theirs.
LEMMA PutTypes ==
    ASSUME RowTypes, IInv, NEW r \in Requests, NEW W, Put(r, W), UNCHANGED db,
           DOMAIN W \subseteq Rows, \A x \in DOMAIN W : RowOK(x, W[x])
    PROVE  RowTypes'
  <1>1. /\ \A q \in Requests \ {r} : writes'[q] = writes[q]
        /\ DOMAIN writes'[r] = DOMAIN writes[r] \cup DOMAIN W
        /\ \A x \in DOMAIN writes'[r] :
              writes'[r][x] = IF x \in DOMAIN W THEN W[x] ELSE writes[r][x]
    BY DEF IInv, Pending, Put
  <1>2. ASSUME NEW q \in Requests
        PROVE  DOMAIN writes'[q] \subseteq Rows /\ \A x \in DOMAIN writes'[q] : RowOK(x, writes'[q][x])
    <2>1. CASE q = r
      BY <1>1, <2>1 DEF RowTypes
    <2>2. CASE q # r
      BY <1>1, <2>2 DEF RowTypes
    <2> QED
      BY <2>1, <2>2
  <1> QED
    BY <1>2 DEF RowTypes

\* The booking row ...
LEMMA BookingTypes ==
    ASSUME NEW row, RowOK(BookingRow, row)
    PROVE  row \in BookingRecord /\ \A new \in BookingRecord : RowOK(BookingRow, new)
  BY TransactionsAssumption DEF RowOK

\* ... the rows of assignments ...
LEMMA AssignmentTypes ==
    ASSUME NEW a \in Assignments
    PROVE  \A row : RowOK(a, row) <=> row \in AssignmentRecord
  BY TransactionsAssumption DEF RowOK

\* ... and those of schedules.
LEMMA ScheduleTypes ==
    ASSUME NEW s \in Schedules
    PROVE  \A row : RowOK(s, row) <=> row \in ScheduleRecord
  BY TransactionsAssumption DEF RowOK

\* transitionStatus writes a declared status, the next version and a longer trail.
LEMMA TransitionTypes ==
    ASSUME RowTypes, IInv, LInv, NEW r \in Requests, TransitionStatus(r)
    PROVE  RowTypes'
  <1> DEFINE to == ToStatus[proc[r].op]
             old == View(r, BookingRow)
             new == [old EXCEPT !.status = to, !.version = @ + 1, !.trail = Append(@, to),
                                !.quotedBy = IF proc[r].op = "reject" THEN None ELSE @]
             W == [x \in {BookingRow} |-> new]
  <1>1. Put(r, W) /\ UNCHANGED db
    BY DEF TransitionStatus
  <1>2. proc[r].todo # <<>> /\ Head(proc[r].todo) = "transition"
    BY DEF TransitionStatus, Ready, At
  <1>3. to \in Machine!Status
    <2>1. Moves(proc[r])
      BY <1>2, Places DEF LInv, Plan, Placed, PlacedFirst
    <2> QED
      BY <2>1, Closed DEF Moves, Agrees, ToStatus
  <1>4. old \in BookingRecord
    BY ViewTypes, BookingTypes DEF Rows
  <1>5. new \in BookingRecord
    <2> HIDE DEF old, to
    <2>1. Append(old.trail, to) \in Seq(Machine!Status)
      BY <1>3, <1>4, Longer DEF BookingRecord
    <2>2. /\ DOMAIN new = DOMAIN old /\ new = [x \in DOMAIN new |-> new[x]]
          /\ DOMAIN old = {"status", "version", "quotedBy", "date", "trail"}
          /\ old.version \in Nat /\ old.quotedBy \in Providers \cup {None}
          /\ old.date \in Schedules \cup {None}
      BY <1>4 DEF BookingRecord
    <2>3. /\ new.status = to /\ new.version = old.version + 1
          /\ new.trail = Append(old.trail, to) /\ new.date = old.date
          /\ new.quotedBy \in {None, old.quotedBy}
      BY <2>2
    <2> HIDE DEF new
    <2>4. /\ new = [status |-> new.status, version |-> new.version, quotedBy |-> new.quotedBy,
                   date |-> new.date, trail |-> new.trail]
      BY <2>2
    <2>5. /\ new.status \in Machine!Status /\ new.version \in Nat
          /\ new.quotedBy \in Providers \cup {None} /\ new.date \in Schedules \cup {None}
          /\ new.trail \in Seq(Machine!Status)
      BY <1>3, <2>1, <2>2, <2>3
    <2> QED
      BY <2>4, <2>5, Zenon DEF BookingRecord
  <1>6. DOMAIN W = {BookingRow} /\ W[BookingRow] = new /\ BookingRow \in Rows
    BY DEF Rows
  <1>7. RowOK(BookingRow, new)
    BY <1>5, ViewTypes, BookingTypes DEF Rows
  <1> HIDE DEF W, new
  <1> QED
    BY <1>1, <1>6, <1>7, PutTypes

\* create inserts the provider that was chosen.
LEMMA InsertTypes ==
    ASSUME RowTypes, IInv, LInv, NEW r \in Requests, CreateAssignment(r)
    PROVE  RowTypes'
  <1> DEFINE row == [status |-> "PENDING", provider |-> proc[r].chosen]
  <1>1. UNCHANGED db /\ proc[r].todo # <<>> /\ Head(proc[r].todo) = "createAssignment"
    BY DEF CreateAssignment, Ready, At
  <1>2. PICK a \in Fresh(Assignments) : Put(r, [x \in {a} |-> row])
    BY DEF CreateAssignment, Insert
  <1>3. a \in Assignments /\ a \in Rows
    BY DEF Fresh, Rows
  <1>4. proc[r].chosen \in Providers
    BY <1>1, Places DEF LInv, Plan, Placed, PlacedFirst, AssignHeld
  <1>5. row \in AssignmentRecord
    BY <1>4 DEF AssignmentRecord, AssignmentStatus
  <1> DEFINE W == [x \in {a} |-> row]
  <1>6. DOMAIN W = {a} /\ W[a] = row /\ Put(r, W)
    BY <1>2
  <1>7. RowOK(a, row)
    BY <1>3, <1>5, AssignmentTypes
  <1> HIDE DEF W, row
  <1> QED
    BY <1>1, <1>3, <1>6, <1>7, PutTypes

\* An answer is one of the declared ones, to an assignment that exists.
LEMMA AnswerTypes ==
    ASSUME RowTypes, IInv, LInv, NEW r \in Requests,
           CloseAssignment(r) \/ WithdrawAssignment(r)
    PROVE  RowTypes'
  <1> DEFINE a == proc[r].asg
             row == [View(r, a) EXCEPT !.status = ToAnswer[proc[r].op]]
             W == [x \in {a} |-> row]
  <1>1. UNCHANGED db
    BY DEF CloseAssignment, WithdrawAssignment
  <1>2. CASE UNCHANGED writes
    BY <1>1, <1>2 DEF RowTypes
  <1>3. CASE ~UNCHANGED writes
    <2>1. Put(r, W)
      BY <1>3 DEF CloseAssignment, WithdrawAssignment
    <2>2. /\ proc[r].todo # <<>> /\ Head(proc[r].todo) \in {"answer", "withdraw"}
      BY DEF CloseAssignment, WithdrawAssignment, Ready, At
    <2>3. Placed(proc[r]) /\ PlacedFirst(proc[r])
      BY Places DEF LInv, Plan
    <2>4. ToAnswer[proc[r].op] \in AssignmentStatus
      BY <2>2, <2>3 DEF Placed, PlacedFirst, Agrees, ToAnswer, AssignmentStatus
    <2>5. a \in Assignments
      <3>1. CASE CloseAssignment(r)
        <4>1. Head(proc[r].todo) = "answer"
          BY <3>1 DEF CloseAssignment, Ready, At
        <4> QED
          BY <2>2, <2>3, <4>1 DEF Placed, PlacedFirst, LInv, Plan, AnswerHeld, AgreeHeld
      <3>2. CASE WithdrawAssignment(r)
        <4>1. a # None
          BY <1>3, <3>2 DEF WithdrawAssignment, WithdrawMatches
        <4> QED
          BY <4>1 DEF IInv, Processes, Shape
      <3> QED
        BY <3>1, <3>2
    <2>6. View(r, a) \in AssignmentRecord
      BY <2>5, ViewTypes, AssignmentTypes DEF Rows
    <2>7. row \in AssignmentRecord
      BY <2>4, <2>6 DEF AssignmentRecord
    <2>8. RowOK(a, row) /\ a \in Rows
      BY <2>5, <2>7, AssignmentTypes DEF Rows
    <2>9. DOMAIN W = {a} /\ W[a] = row
      OBVIOUS
    <2> HIDE DEF W, row, a
    <2> QED
      BY <1>1, <2>1, <2>8, <2>9, PutTypes
  <1> QED
    BY <1>2, <1>3

\* supersedeOpenSchedules changes schedules only.
LEMMA SupersedeTypes ==
    ASSUME RowTypes, IInv, NEW r \in Requests, SupersedeRows(r)
    PROVE  RowTypes'
  <1> DEFINE open == {s \in proc[r].targets : View(r, s).status \in Open}
             W == [s \in open |-> [View(r, s) EXCEPT !.status = "SUPERSEDED"]]
  <1>1. Put(r, W) /\ UNCHANGED db
    BY DEF SupersedeRows
  <1>2. open \subseteq Schedules /\ DOMAIN W = open
    BY DEF IInv, Processes, Shape
  <1>3. ASSUME NEW s \in open PROVE RowOK(s, W[s])
    <2>1. View(r, s) \in ScheduleRecord
      BY <1>2, ViewTypes, ScheduleTypes DEF Rows
    <2>2. W[s] = [View(r, s) EXCEPT !.status = "SUPERSEDED"]
      OBVIOUS
    <2>3. W[s] \in ScheduleRecord
      <3> HIDE DEF W
      <3> QED
        BY <2>1, <2>2 DEF ScheduleRecord
    <2> HIDE DEF W
    <2> QED
      BY <1>2, <2>3, ScheduleTypes
  <1>4. open \subseteq Rows
    BY <1>2 DEF Rows
  <1> HIDE DEF W, open
  <1> QED
    BY <1>1, <1>2, <1>3, <1>4, PutTypes

\* The unconditional updates write a date or a provider.
LEMMA UpdateTypes ==
    ASSUME RowTypes, IInv, NEW r \in Requests, NEW stmt,
           \/ UpdateBooking(r, stmt, "date", None)
           \/ UpdateBooking(r, stmt, "date", proc[r].sch)
           \/ UpdateBooking(r, stmt, "quotedBy", proc[r].chosen) /\ proc[r].chosen \in Providers
    PROVE  RowTypes'
  <1> DEFINE With(field, value) == [View(r, BookingRow) EXCEPT ![field] = value]
  <1>1. ASSUME NEW field, NEW value, UpdateBooking(r, stmt, field, value),
               With(field, value) \in BookingRecord
        PROVE  RowTypes'
    <2> DEFINE row == With(field, value)
               W == [x \in {BookingRow} |-> row]
    <2>1. Put(r, [x \in {BookingRow} |-> [View(r, x) EXCEPT ![field] = value]])
          /\ UNCHANGED db
      BY <1>1 DEF UpdateBooking
    <2>2. [x \in {BookingRow} |-> [View(r, x) EXCEPT ![field] = value]] = W
      OBVIOUS
    <2>3. RowOK(BookingRow, row)
      BY <1>1, ViewTypes, BookingTypes DEF Rows
    <2> HIDE DEF row
    <2>4. Put(r, W) /\ DOMAIN W = {BookingRow} /\ W[BookingRow] = row /\ BookingRow \in Rows
      BY <2>1, <2>2 DEF Rows
    <2> HIDE DEF W
    <2> QED
      BY <2>1, <2>3, <2>4, PutTypes
  <1>2. View(r, BookingRow) \in BookingRecord
    BY ViewTypes, BookingTypes DEF Rows
  <1>3. proc[r].sch \in Schedules \cup {None}
    BY DEF IInv, Processes, Shape
  <1>4. /\ With("date", None) \in BookingRecord /\ With("date", proc[r].sch) \in BookingRecord
        /\ proc[r].chosen \in Providers => With("quotedBy", proc[r].chosen) \in BookingRecord
    BY <1>2, <1>3 DEF BookingRecord
  <1> HIDE DEF With
  <1> QED
    BY <1>1, <1>4

\* A schedule is proposed and confirmed by a party.
LEMMA ScheduleRowTypes ==
    ASSUME RowTypes, IInv, NEW r \in Requests, CreateSchedule(r) \/ CloseSchedule(r)
    PROVE  RowTypes'
  <1>1. UNCHANGED db
    BY DEF CreateSchedule, CloseSchedule
  <1>2. proc[r].actor \in Parties \cup {None}
    BY DEF IInv, Processes, Shape
  <1>3. ASSUME NEW s \in Schedules, NEW row \in ScheduleRecord, Put(r, [x \in {s} |-> row])
        PROVE  RowTypes'
    <2> DEFINE W == [x \in {s} |-> row]
    <2>1. Put(r, W) /\ DOMAIN W = {s} /\ W[s] = row /\ s \in Rows
      BY <1>3 DEF Rows
    <2>2. RowOK(s, row)
      BY <1>3, ScheduleTypes
    <2> HIDE DEF W
    <2> QED
      BY <1>1, <2>1, <2>2, PutTypes
  <1>4. CASE CreateSchedule(r)
    <2> DEFINE row == [status |-> "PENDING", by |-> proc[r].actor, confirmedBy |-> None]
    <2>1. row \in ScheduleRecord
      BY <1>2 DEF ScheduleRecord
    <2>2. PICK s \in Fresh(Schedules) : Put(r, [x \in {s} |-> row])
      BY <1>4 DEF CreateSchedule, Insert
    <2>3. s \in Schedules
      BY DEF Fresh
    <2> HIDE DEF row
    <2> QED
      BY <1>3, <2>1, <2>2, <2>3
  <1>5. CASE CloseSchedule(r)
    <2> DEFINE s == proc[r].sch
               row == [View(r, s) EXCEPT !.status = "CONFIRMED", !.confirmedBy = proc[r].actor]
    <2>1. Put(r, [x \in {s} |-> row])
      BY <1>5 DEF CloseSchedule
    <2>2. s \in Schedules
      <3>1. proc[r].todo # <<>> /\ Head(proc[r].todo) = "confirm" /\ proc[r].todo \in Seq(Steps)
        BY <1>5 DEF CloseSchedule, Ready, At, IInv, Processes, Shape
      <3>2. 1 \in DOMAIN proc[r].todo /\ proc[r].todo[1] = "confirm"
        BY <3>1, HeadTailProperties
      <3> QED
        BY <3>2 DEF Confirms, IInv, Answering, Answers, AnswersTo
    <2>3. View(r, s) \in ScheduleRecord
      BY <2>2, Seen
    <2>4. row \in ScheduleRecord
      BY <1>2, <2>3 DEF ScheduleRecord
    <2> HIDE DEF s, row
    <2> QED
      BY <1>3, <2>1, <2>2, <2>4
  <1> QED
    BY <1>4, <1>5

\* A transaction ends with its writes or without them.
LEMMA EndTypes ==
    ASSUME RowTypes, IInv, NEW r \in Requests, Commit(r) \/ Rollback(r)
    PROVE  RowTypes'
  <1>1. \A q \in Requests : DOMAIN writes'[q] = {} \/ writes'[q] = writes[q]
    BY DEF IInv, Pending, Commit, Rollback, NoWrites
  <1>2. DOMAIN db' = Rows /\ \A x \in Rows : RowOK(x, db'[x])
    <2>1. CASE Commit(r)
      <3>1. DOMAIN db' = Rows /\ \A x \in Rows : db'[x] = View(r, x)
        BY <2>1 DEF Commit
      <3> QED
        BY <3>1, ViewTypes
    <2>2. CASE Rollback(r)
      BY <2>2 DEF Rollback, RowTypes
    <2> QED
      BY <2>1, <2>2
  <1>3. ASSUME NEW q \in Requests
        PROVE  DOMAIN writes'[q] \subseteq Rows /\ \A x \in DOMAIN writes'[q] : RowOK(x, writes'[q][x])
    BY <1>1 DEF RowTypes
  <1> QED
    BY <1>2, <1>3 DEF RowTypes

\* Every step keeps the types.
LEMMA TypesStep ==
    ASSUME IInv, LInv, RowTypes, [Next]_vars
    PROVE  RowTypes'
  <1>1. CASE UNCHANGED <<db, writes>>
    BY <1>1 DEF RowTypes
  <1>2. ASSUME NEW r \in Requests, Start(r) PROVE UNCHANGED <<db, writes>>
    BY <1>2 DEF Start, BeginAssign, BeginCancel, BeginAccept, BeginReject, BeginPropose,
                BeginConfirm, BeginMarkComplete, BeginConfirmCompletion, Begin
  <1>3. ASSUME NEW r \in Requests,
               \/ TransitionStatus(r) \/ CreateAssignment(r) \/ CloseAssignment(r)
               \/ WithdrawAssignment(r) \/ SupersedeRows(r) \/ CreateSchedule(r)
               \/ CloseSchedule(r)
        PROVE  RowTypes'
    BY <1>3, TransitionTypes, InsertTypes, AnswerTypes, SupersedeTypes, ScheduleRowTypes
  <1>4. ASSUME NEW r \in Requests, ClearConfirmedDate(r) \/ CopyConfirmedDate(r) \/ ApplyQuote(r)
        PROVE  RowTypes'
    <2>1. CASE ClearConfirmedDate(r) \/ CopyConfirmedDate(r)
      BY <2>1, UpdateTypes DEF ClearConfirmedDate, CopyConfirmedDate
    <2>2. CASE ApplyQuote(r)
      <3>1. proc[r].todo # <<>> /\ Head(proc[r].todo) = "applyQuote"
        BY <2>2 DEF ApplyQuote, UpdateBooking, Ready, At
      <3>2. proc[r].chosen \in Providers
        BY <3>1, Places DEF LInv, Plan, Placed, PlacedFirst, AssignHeld
      <3> QED
        BY <2>2, <3>2, UpdateTypes DEF ApplyQuote
    <2> QED
      BY <1>4, <2>1, <2>2
  <1>5. ASSUME NEW r \in Requests,
               \/ FindActiveAssignment(r) \/ SupersedeSnapshot(r) \/ CheckConfirmedIndex(r)
        PROVE  UNCHANGED <<db, writes>>
    BY <1>5 DEF FindActiveAssignment, SupersedeSnapshot, CheckConfirmedIndex
  <1>6. ASSUME NEW r \in Requests, FindPendingSchedule(r) \/ ReadPendingSchedule(r)
        PROVE  UNCHANGED <<db, writes>> \/ Rollback(r)
    BY <1>6 DEF FindPendingSchedule, ReadPendingSchedule
  <1> QED
    BY <1>1, <1>2, <1>3, <1>4, <1>5, <1>6, EndTypes
       DEF Next, Statement, LosesRace, LosesToIndex, UniqueViolationEscapes, DeadlockAborts,
           TransactionLost, vars

\* So they are at first.
LEMMA FirstTypes == Init => RowTypes
  <1> SUFFICES ASSUME Init PROVE RowTypes
    OBVIOUS
  <1>1. DOMAIN db = Rows
    BY DEF Init
  <1>2. db[BookingRow] \in BookingRecord
    <2>1. db[BookingRow] = [status |-> "UNASSIGNED", version |-> 0, quotedBy |-> None,
                            date |-> None, trail |-> <<"UNASSIGNED">>]
      BY TransactionsAssumption DEF Init, Rows
    <2>2. "UNASSIGNED" \in Machine!Status /\ <<"UNASSIGNED">> \in Seq(Machine!Status)
      BY Closed
    <2> QED
      BY <2>1, <2>2 DEF BookingRecord
  <1>3. \A a \in Assignments : db[a] \in AssignmentRecord
    BY TransactionsAssumption DEF Init, Rows, AssignmentRecord, AssignmentStatus
  <1>4. \A s \in Schedules : db[s] \in ScheduleRecord
    BY TransactionsAssumption DEF Init, Rows, ScheduleRecord
  <1>5. \A x \in Rows : RowOK(x, db[x])
    BY <1>2, <1>3, <1>4, TransactionsAssumption DEF Rows, RowOK
  <1>6. \A r \in Requests : DOMAIN writes[r] = {}
    BY DEF Init, NoWrites
  <1> QED
    BY <1>1, <1>5, <1>6 DEF RowTypes

\* Committed and uncommitted rows keep their columns' types, no row is written by two
\* transactions at once, and what a request holds is what its program needs.
THEOREM TypeCorrect == Spec => []TypeOK
  <1>1. Init => RowTypes
    BY FirstTypes
  <1>2. IInv /\ LInv /\ RowTypes /\ [Next]_vars => RowTypes'
    BY TypesStep
  <1>3. IInv /\ RowTypes => TypeOK
    <2> SUFFICES ASSUME IInv, RowTypes PROVE TypeOK
      OBVIOUS
    <2>1. DOMAIN writes = Requests /\ DOMAIN proc = Requests
      BY DEF IInv, Pending, Processes
    <2>2. \A r \in Requests : \A x \in DOMAIN writes[r] : ~LockedByOther(r, x)
      BY DEF IInv, RowsAreLocked, LockedByOther
    <2>3. \A r \in Requests : Shape(proc[r]) /\ DOMAIN proc[r] = DOMAIN Idle
      BY IdleShape DEF IInv, Processes, Shape
    <2> QED
      BY <2>1, <2>2, <2>3 DEF TypeOK, RowTypes, Shape
  <1> QED
    BY <1>1, <1>2, <1>3, Invariance, PlansInvariance, PTL DEF Spec

-----------------------------------------------------------------------------
(* The schedules. *)

Takes(p) == p.op \in {"accept", "confirm"}

\* The statements about schedules and the date are in the programs of those who propose
\* and of those who take a date, in the order the handlers put them in.
Course(p) ==
    /\ Supersedes(p) \/ Has(p, "clearDate") \/ Has(p, "createSchedule") => Proposes(p)
    /\ Looks(p) \/ Has(p, "confirm") \/ Has(p, "indexConfirmed") \/ Has(p, "copyDate") => Takes(p)
    /\ Has(p, "confirm") => Has(p, "indexConfirmed") /\ Has(p, "copyDate")
    /\ Has(p, "indexConfirmed") => Has(p, "copyDate")
    /\ Looks(p) => ~Has(p, "confirm") /\ ~Has(p, "indexConfirmed") /\ ~Has(p, "copyDate")
    /\ Has(p, "findPending") => ~Has(p, "readPending")
    /\ p.todo # <<>> /\ Head(p.todo) \in {"clearDate", "createSchedule"} => ~Supersedes(p)
    /\ p.todo # <<>> /\ Head(p.todo) = "supersedeRows" => ~Has(p, "supersede")

LEMMA Courses ==
    ASSUME NEW p, Programmed(p)
    PROVE  Course(p)
  <1>1. CASE p.op = "assign" /\ p.todo \in AssignLeft
    <2>1. CASE p.todo = <<"transition", "createAssignment", "supersede", "clearDate", "createSchedule", "applyQuote">>
      BY <1>1, <2>1, Holding DEF Course, Proposes, Takes, Supersedes, Looks
    <2>2. CASE p.todo = <<"createAssignment", "supersede", "clearDate", "createSchedule", "applyQuote">>
      BY <1>1, <2>2, Holding DEF Course, Proposes, Takes, Supersedes, Looks
    <2>3. CASE p.todo = <<"supersede", "clearDate", "createSchedule", "applyQuote">>
      BY <1>1, <2>3, Holding DEF Course, Proposes, Takes, Supersedes, Looks
    <2>4. CASE p.todo = <<"supersedeRows", "clearDate", "createSchedule", "applyQuote">>
      BY <1>1, <2>4, Holding DEF Course, Proposes, Takes, Supersedes, Looks
    <2>5. CASE p.todo = <<"clearDate", "createSchedule", "applyQuote">>
      BY <1>1, <2>5, Holding DEF Course, Proposes, Takes, Supersedes, Looks
    <2>6. CASE p.todo = <<"createSchedule", "applyQuote">>
      BY <1>1, <2>6, Holding DEF Course, Proposes, Takes, Supersedes, Looks
    <2>7. CASE p.todo = <<"applyQuote">>
      BY <1>1, <2>7, Holding DEF Course, Proposes, Takes, Supersedes, Looks
    <2>8. CASE p.todo = <<>>
      BY <1>1, <2>8, Holding DEF Course, Proposes, Takes, Supersedes, Looks
    <2> QED
      BY <1>1, <2>1, <2>2, <2>3, <2>4, <2>5, <2>6, <2>7, <2>8 DEF AssignLeft
  <1>2. CASE p.op = "cancel" /\ p.todo \in CancelLeft
    <2>1. CASE p.todo = <<"findActive", "withdraw", "transition">>
      BY <1>2, <2>1, Holding DEF Course, Proposes, Takes, Supersedes, Looks
    <2>2. CASE p.todo = <<"withdraw", "transition">>
      BY <1>2, <2>2, Holding DEF Course, Proposes, Takes, Supersedes, Looks
    <2>3. CASE p.todo = <<"transition">>
      BY <1>2, <2>3, Holding DEF Course, Proposes, Takes, Supersedes, Looks
    <2>4. CASE p.todo = <<>>
      BY <1>2, <2>4, Holding DEF Course, Proposes, Takes, Supersedes, Looks
    <2> QED
      BY <1>2, <2>1, <2>2, <2>3, <2>4 DEF CancelLeft
  <1>3. CASE p.op = "accept" /\ p.todo \in AcceptLeft
    <2>1. CASE p.todo = <<"answer", "findPending", "transition">>
      BY <1>3, <2>1, Holding DEF Course, Proposes, Takes, Supersedes, Looks
    <2>2. CASE p.todo = <<"findPending", "transition">>
      BY <1>3, <2>2, Holding DEF Course, Proposes, Takes, Supersedes, Looks
    <2>3. CASE p.todo = <<"confirm", "indexConfirmed", "copyDate", "transition">>
      BY <1>3, <2>3, Holding DEF Course, Proposes, Takes, Supersedes, Looks
    <2>4. CASE p.todo = <<"indexConfirmed", "copyDate", "transition">>
      BY <1>3, <2>4, Holding DEF Course, Proposes, Takes, Supersedes, Looks
    <2>5. CASE p.todo = <<"copyDate", "transition">>
      BY <1>3, <2>5, Holding DEF Course, Proposes, Takes, Supersedes, Looks
    <2>6. CASE p.todo = <<"transition">>
      BY <1>3, <2>6, Holding DEF Course, Proposes, Takes, Supersedes, Looks
    <2>7. CASE p.todo = <<>>
      BY <1>3, <2>7, Holding DEF Course, Proposes, Takes, Supersedes, Looks
    <2> QED
      BY <1>3, <2>1, <2>2, <2>3, <2>4, <2>5, <2>6, <2>7 DEF AcceptLeft
  <1>4. CASE p.op = "reject" /\ p.todo \in RejectLeft
    <2>1. CASE p.todo = <<"answer", "transition">>
      BY <1>4, <2>1, Holding DEF Course, Proposes, Takes, Supersedes, Looks
    <2>2. CASE p.todo = <<"transition">>
      BY <1>4, <2>2, Holding DEF Course, Proposes, Takes, Supersedes, Looks
    <2>3. CASE p.todo = <<>>
      BY <1>4, <2>3, Holding DEF Course, Proposes, Takes, Supersedes, Looks
    <2> QED
      BY <1>4, <2>1, <2>2, <2>3 DEF RejectLeft
  <1>5. CASE p.op = "propose" /\ p.todo \in ProposeLeft
    <2>1. CASE p.todo = <<"supersede", "clearDate", "createSchedule">>
      BY <1>5, <2>1, Holding DEF Course, Proposes, Takes, Supersedes, Looks
    <2>2. CASE p.todo = <<"supersedeRows", "clearDate", "createSchedule">>
      BY <1>5, <2>2, Holding DEF Course, Proposes, Takes, Supersedes, Looks
    <2>3. CASE p.todo = <<"clearDate", "createSchedule">>
      BY <1>5, <2>3, Holding DEF Course, Proposes, Takes, Supersedes, Looks
    <2>4. CASE p.todo = <<"createSchedule">>
      BY <1>5, <2>4, Holding DEF Course, Proposes, Takes, Supersedes, Looks
    <2>5. CASE p.todo = <<>>
      BY <1>5, <2>5, Holding DEF Course, Proposes, Takes, Supersedes, Looks
    <2> QED
      BY <1>5, <2>1, <2>2, <2>3, <2>4, <2>5 DEF ProposeLeft
  <1>6. CASE Agrees(p) /\ p.todo \in AgreeLeft
    <2>1. CASE p.todo = <<"readPending">>
      BY <1>6, <2>1, Holding DEF Course, Proposes, Takes, Supersedes, Looks, Agrees
    <2>2. CASE p.todo = <<"confirm", "indexConfirmed", "copyDate", "findActive", "transition">>
      BY <1>6, <2>2, Holding DEF Course, Proposes, Takes, Supersedes, Looks, Agrees
    <2>3. CASE p.todo = <<"indexConfirmed", "copyDate", "findActive", "transition">>
      BY <1>6, <2>3, Holding DEF Course, Proposes, Takes, Supersedes, Looks, Agrees
    <2>4. CASE p.todo = <<"copyDate", "findActive", "transition">>
      BY <1>6, <2>4, Holding DEF Course, Proposes, Takes, Supersedes, Looks, Agrees
    <2>5. CASE p.todo = <<"findActive", "transition">>
      BY <1>6, <2>5, Holding DEF Course, Proposes, Takes, Supersedes, Looks, Agrees
    <2>6. CASE p.todo = <<"answer", "transition">>
      BY <1>6, <2>6, Holding DEF Course, Proposes, Takes, Supersedes, Looks, Agrees
    <2>7. CASE p.todo = <<"transition">>
      BY <1>6, <2>7, Holding DEF Course, Proposes, Takes, Supersedes, Looks, Agrees
    <2>8. CASE p.todo = <<>>
      BY <1>6, <2>8, Holding DEF Course, Proposes, Takes, Supersedes, Looks, Agrees
    <2> QED
      BY <1>6, <2>1, <2>2, <2>3, <2>4, <2>5, <2>6, <2>7, <2>8 DEF AgreeLeft
  <1>7. CASE p.op = "confirm" /\ ~Agrees(p) /\ p.todo \in ConfirmLeft
    <2>1. CASE p.todo = <<"readPending">>
      BY <1>7, <2>1, Holding DEF Course, Proposes, Takes, Supersedes, Looks, Agrees
    <2>2. CASE p.todo = <<"confirm", "indexConfirmed", "copyDate">>
      BY <1>7, <2>2, Holding DEF Course, Proposes, Takes, Supersedes, Looks, Agrees
    <2>3. CASE p.todo = <<"indexConfirmed", "copyDate">>
      BY <1>7, <2>3, Holding DEF Course, Proposes, Takes, Supersedes, Looks, Agrees
    <2>4. CASE p.todo = <<"copyDate">>
      BY <1>7, <2>4, Holding DEF Course, Proposes, Takes, Supersedes, Looks, Agrees
    <2>5. CASE p.todo = <<>>
      BY <1>7, <2>5, Holding DEF Course, Proposes, Takes, Supersedes, Looks, Agrees
    <2> QED
      BY <1>7, <2>1, <2>2, <2>3, <2>4, <2>5 DEF ConfirmLeft
  <1>8. CASE p.op \in {"complete", "close"} /\ p.todo \in MoveLeft
    <2>1. CASE p.todo = <<"transition">>
      BY <1>8, <2>1, Holding DEF Course, Proposes, Takes, Supersedes, Looks
    <2>2. CASE p.todo = <<>>
      BY <1>8, <2>2, Holding DEF Course, Proposes, Takes, Supersedes, Looks
    <2> QED
      BY <1>8, <2>1, <2>2 DEF MoveLeft
  <1>9. CASE p.op = "none" /\ p.todo = <<>>
    BY <1>9, Holding DEF Course, Proposes, Takes, Supersedes, Looks
  <1> QED
    BY <1>1, <1>2, <1>3, <1>4, <1>5, <1>6, <1>7, <1>8, <1>9 DEF Programmed

\* The schedules a request has written: a new proposal, what it replaces, the date it takes.
Scheduled(held) == Schedules \cap DOMAIN held
Added(p, held, rows, s) ==
    Proposes(p) /\ rows[s].status = "FREE" /\ held[s].status = "PENDING"
Replaced(p, held, rows, s) ==
    Proposes(p) /\ rows[s].status \in Open /\ held[s].status = "SUPERSEDED"
Agreed(p, held, rows, s) ==
    Takes(p) /\ s = p.sch /\ rows[s].status = "PENDING" /\ held[s].status = "CONFIRMED"
SchedulesHeld(p, held, rows) ==
    \A s \in Scheduled(held) :
        Added(p, held, rows, s) \/ Replaced(p, held, rows, s) \/ Agreed(p, held, rows, s)

\* Which schedule it is about.
Untied(p, held) ==
    /\ Proposes(p) \/ Looks(p) => p.sch = None
    /\ Has(p, "copyDate") => p.sch \in Schedules
    /\ Supersedes(p) => Scheduled(held) = {}
AgreedHeld(p, held) ==
    Takes(p) /\ p.sch # None /\ ~Has(p, "confirm") => ConfirmedBy(held, p.sch)

\* What the two partial unique indexes have let it do.
Proposing(held) == \E s \in Scheduled(held) : held[s].status = "PENDING"
Agreeing(p, held) ==
    ~Has(p, "indexConfirmed") /\ \E s \in Scheduled(held) : held[s].status = "CONFIRMED"
OnlyProposed(held, rows) ==
    \A s \in Scheduled(held) : held[s].status = "PENDING" =>
        \A t \in Schedules \ {s} : IF t \in DOMAIN held THEN held[t].status # "PENDING"
                                   ELSE rows[t].status # "PENDING"
OnlyAgreed(p, held, rows) ==
    Agreeing(p, held) => \A t \in Schedules \ {p.sch} : rows[t].status # "CONFIRMED"

\* The date on the booking, as the request leaves it.
Dated(p) ==
    \/ Proposes(p) /\ ~Has(p, "clearDate")
    \/ Takes(p) /\ p.sch # None /\ ~Has(p, "copyDate")
DateHeld(p, held, rows) ==
    /\ Dated(p) => BookingRow \in DOMAIN held
    /\ BookingRow \in DOMAIN held =>
          held[BookingRow].date = IF ~Dated(p) THEN rows[BookingRow].date
                                  ELSE IF Proposes(p) THEN None ELSE p.sch

Part(p, held, rows) ==
    /\ SchedulesHeld(p, held, rows) /\ Untied(p, held) /\ AgreedHeld(p, held)
    /\ OnlyProposed(held, rows) /\ OnlyAgreed(p, held, rows)
    /\ DateHeld(p, held, rows)

Apart(q, r) ==
    /\ ~(Proposing(writes[q]) /\ Proposing(writes[r]))
    /\ ~(Agreeing(proc[q], writes[q]) /\ Agreeing(proc[r], writes[r]))

SInv ==
    /\ OneScheduleEach
    /\ \A r \in Requests : Part(proc[r], writes[r], db)
    /\ \A q, r \in Requests : q # r => Apart(q, r)

\* While one request at a time proposes, it has seen all that is open, and replaces it.
OpenHeld(p, held, rows) ==
    Proposes(p) =>
        \A s \in Schedules : rows[s].status \in Open =>
            /\ Has(p, "supersedeRows") => s \in p.targets
            /\ ~Supersedes(p) => s \in DOMAIN held

OInv ==
    /\ OneOpenSchedule /\ DateMirrorsConfirmedSchedule
    /\ \A r \in Requests : OpenHeld(proc[r], writes[r], db)

\* What a statement of r has to show.
LEMMA OthersParts ==
    ASSUME SInv, NEW r \in Requests, UNCHANGED db,
           \A q \in Requests \ {r} : proc'[q] = proc[q] /\ writes'[q] = writes[q],
           Part(proc'[r], writes'[r], db),
           \/ Proposing(writes'[r]) => Proposing(writes[r])
           \/ \A q \in Requests \ {r} : ~Proposing(writes[q]),
           \/ Agreeing(proc'[r], writes'[r]) => Agreeing(proc[r], writes[r])
           \/ \A q \in Requests \ {r} : ~Agreeing(proc[q], writes[q])
    PROVE  SInv'
  <1>1. OneScheduleEach'
    BY DEF SInv, OneScheduleEach
  <1>2. ASSUME NEW q \in Requests PROVE Part(proc'[q], writes'[q], db')
    BY DEF SInv
  <1>3. ASSUME NEW q \in Requests, NEW t \in Requests, q # t PROVE Apart(q, t)'
    <2>1. CASE q # r /\ t # r
      BY <1>3, <2>1 DEF SInv, Apart
    <2>2. CASE q = r
      BY <1>3, <2>2 DEF SInv, Apart
    <2>3. CASE t = r
      BY <1>3, <2>3 DEF SInv, Apart
    <2> QED
      BY <2>1, <2>2, <2>3
  <1> QED
    BY <1>1, <1>2, <1>3 DEF SInv

LEMMA OthersOpen ==
    ASSUME OInv, NEW r \in Requests, UNCHANGED db,
           \A q \in Requests \ {r} : proc'[q] = proc[q] /\ writes'[q] = writes[q],
           OpenHeld(proc'[r], writes'[r], db)
    PROVE  OInv'
  <1>1. OneOpenSchedule' /\ DateMirrorsConfirmedSchedule'
    BY DEF OInv, OneOpenSchedule, DateMirrorsConfirmedSchedule, booking
  <1>2. ASSUME NEW q \in Requests PROVE OpenHeld(proc'[q], writes'[q], db')
    BY DEF OInv
  <1> QED
    BY <1>1, <1>2 DEF OInv

\* The statements that have to do with schedules and the date.
Turns == {"supersede", "supersedeRows", "clearDate", "createSchedule", "findPending", "readPending",
          "confirm", "indexConfirmed", "copyDate"}

\* What is kept by a statement that has not.
SameDate(held, new, rows) ==
    IF BookingRow \in DOMAIN held
    THEN BookingRow \in DOMAIN new /\ new[BookingRow].date = held[BookingRow].date
    ELSE BookingRow \in DOMAIN new => new[BookingRow].date = rows[BookingRow].date
SameSchedules(held, new) ==
    Scheduled(new) = Scheduled(held) /\ \A s \in Scheduled(held) : new[s] = held[s]

LEMMA PartKept ==
    ASSUME NEW p, NEW q, NEW held, NEW new, NEW rows, Part(p, held, rows),
           q.op = p.op, q.sch = p.sch,
           \A x \in Turns : Has(q, x) <=> Has(p, x),
           SameSchedules(held, new), SameDate(held, new, rows)
    PROVE  /\ Part(q, new, rows)
           /\ Proposing(new) => Proposing(held)
           /\ Agreeing(q, new) => Agreeing(p, held)
  <1>1. /\ Proposes(q) <=> Proposes(p)
        /\ Takes(q) <=> Takes(p)
        /\ Supersedes(q) <=> Supersedes(p)
        /\ Looks(q) <=> Looks(p)
        /\ Has(q, "clearDate") <=> Has(p, "clearDate")
        /\ Has(q, "confirm") <=> Has(p, "confirm")
        /\ Has(q, "indexConfirmed") <=> Has(p, "indexConfirmed")
        /\ Has(q, "copyDate") <=> Has(p, "copyDate")
    BY DEF Turns, Proposes, Takes, Supersedes, Looks
  <1>2. Dated(q) <=> Dated(p)
    BY <1>1 DEF Dated
  <1>3. \A s \in Schedules : s \in DOMAIN new <=> s \in DOMAIN held
    BY DEF SameSchedules, Scheduled
  <1>4. /\ Proposing(new) <=> Proposing(held)
        /\ Agreeing(q, new) <=> Agreeing(p, held)
    BY <1>1 DEF SameSchedules, Proposing, Agreeing
  <1>5. SchedulesHeld(q, new, rows)
    BY <1>1 DEF Part, SchedulesHeld, SameSchedules, Added, Replaced, Agreed
  <1>6. Untied(q, new)
    BY <1>1 DEF Part, Untied, SameSchedules
  <1>7. AgreedHeld(q, new)
    BY <1>1, <1>3 DEF Part, AgreedHeld, ConfirmedBy, SameSchedules, Scheduled
  <1>8. OnlyProposed(new, rows)
    BY <1>3 DEF Part, OnlyProposed, SameSchedules, Scheduled
  <1>9. OnlyAgreed(q, new, rows)
    BY <1>4 DEF Part, OnlyAgreed
  <1>10. DateHeld(q, new, rows)
    BY <1>1, <1>2 DEF Part, DateHeld, SameDate
  <1> QED
    BY <1>4, <1>5, <1>6, <1>7, <1>8, <1>9, <1>10 DEF Part

\* A request goes on, and keeps what it knows ...
LEMMA OnCourse ==
    ASSUME IInv, LInv, NEW r \in Requests, proc[r].todo # <<>>, Advance(r)
    PROVE  /\ \A q \in Requests \ {r} : proc'[q] = proc[q]
           /\ proc'[r].op = proc[r].op /\ proc'[r].sch = proc[r].sch
           /\ proc'[r].targets = proc[r].targets
           /\ \A x : Has(proc'[r], x) <=> Has(proc[r], x) /\ x # Head(proc[r].todo)
           /\ Has(proc[r], Head(proc[r].todo))
           /\ Course(proc[r]) /\ Course(proc'[r])
  <1>1. Processes /\ Programmed(proc[r]) /\ Shape(proc[r])
    BY DEF IInv, LInv, Plan, Processes
  <1>2. /\ \A q \in Requests \ {r} : proc'[q] = proc[q]
        /\ Same(proc[r], proc'[r]) /\ Programmed(proc'[r])
        /\ Has(proc[r], Head(proc[r].todo))
        /\ \A x : Has(proc'[r], x) <=> Has(proc[r], x) /\ x # Head(proc[r].todo)
    BY <1>1, OnPlan
  <1>3. proc'[r].sch = proc[r].sch /\ proc'[r].targets = proc[r].targets
    BY <1>1 DEF Advance, Processes, Shape, Fields
  <1> QED
    BY <1>1, <1>2, <1>3, Courses DEF Same

\* ... or learns something.
LEMMA OnCourseBranch ==
    ASSUME IInv, LInv, NEW r \in Requests, proc[r].todo # <<>>,
           NEW changes, NEW branch \in Seq(Steps), Continue(r, changes, branch),
           DOMAIN changes \subseteq {"asg", "asgSeen", "sch", "targets"}
    PROVE  /\ \A q \in Requests \ {r} : proc'[q] = proc[q]
           /\ proc'[r].op = proc[r].op
           /\ proc'[r].sch = IF "sch" \in DOMAIN changes THEN changes["sch"] ELSE proc[r].sch
           /\ proc'[r].targets =
                 IF "targets" \in DOMAIN changes THEN changes["targets"] ELSE proc[r].targets
           /\ Has(proc[r], Head(proc[r].todo))
           /\ Course(proc[r])
  <1>1. Processes /\ Programmed(proc[r]) /\ Shape(proc[r]) /\ DOMAIN Idle = Fields
    BY IdleShape DEF IInv, LInv, Plan, Processes
  <1>2. \A x \in Fields : proc'[r][x] =
            CASE x = "todo" -> branch \o Tail(proc[r].todo)
              [] x \in DOMAIN changes -> changes[x]
              [] OTHER -> proc[r][x]
    BY <1>1 DEF Continue, Processes
  <1>3. /\ proc'[r].sch = IF "sch" \in DOMAIN changes THEN changes["sch"] ELSE proc[r].sch
        /\ proc'[r].targets =
                 IF "targets" \in DOMAIN changes THEN changes["targets"] ELSE proc[r].targets
    BY <1>2 DEF Fields
  <1>4. /\ \A q \in Requests \ {r} : proc'[q] = proc[q]
        /\ proc'[r].op = proc[r].op
    BY <1>1, OnBranch
  <1> QED
    BY <1>1, <1>3, <1>4, Heads, Courses

\* A statement that neither reads nor writes schedules or the date.
LEMMA QuietParts ==
    ASSUME SInv, NEW r \in Requests, UNCHANGED db,
           \A q \in Requests \ {r} : proc'[q] = proc[q] /\ writes'[q] = writes[q],
           proc'[r].op = proc[r].op, proc'[r].sch = proc[r].sch,
           proc'[r].targets = proc[r].targets,
           \A x \in Turns : Has(proc'[r], x) <=> Has(proc[r], x),
           SameSchedules(writes[r], writes'[r]), SameDate(writes[r], writes'[r], db)
    PROVE  SInv' /\ (OInv => OInv')
  <1>1. Part(proc[r], writes[r], db)
    BY DEF SInv
  <1>2. /\ Part(proc'[r], writes'[r], db)
        /\ Proposing(writes'[r]) => Proposing(writes[r])
        /\ Agreeing(proc'[r], writes'[r]) => Agreeing(proc[r], writes[r])
    BY <1>1, PartKept
  <1>3. SInv'
    BY <1>2, OthersParts
  <1>4. ASSUME OInv PROVE OInv'
    <2>1. OpenHeld(proc[r], writes[r], db)
      BY <1>4 DEF OInv
    <2>2. OpenHeld(proc'[r], writes'[r], db)
      BY <2>1 DEF OpenHeld, Supersedes, Turns, Proposes, SameSchedules, Scheduled
    <2> QED
      BY <1>4, <2>2, OthersOpen
  <1> QED
    BY <1>3, <1>4

LEMMA QuietAdvance ==
    ASSUME IInv, LInv, SInv, NEW r \in Requests, proc[r].todo # <<>>, Advance(r), UNCHANGED db,
           \A q \in Requests \ {r} : writes'[q] = writes[q], Head(proc[r].todo) \notin Turns,
           SameSchedules(writes[r], writes'[r]), SameDate(writes[r], writes'[r], db)
    PROVE  SInv' /\ (OInv => OInv')
  BY OnCourse, QuietParts

\* transitionStatus and applyQuote write the booking, but not its date.
LEMMA StatusParts ==
    ASSUME IInv, LInv, SInv, NEW r \in Requests, TransitionStatus(r) \/ ApplyQuote(r)
    PROVE  SInv' /\ (OInv => OInv')
  <1>1. /\ proc[r].todo # <<>> /\ Advance(r) /\ UNCHANGED db
        /\ Head(proc[r].todo) \notin Turns
    BY DEF TransitionStatus, ApplyQuote, UpdateBooking, Ready, At, Turns
  <1>2. PICK W : Put(r, W) /\ DOMAIN W = {BookingRow}
                 /\ W[BookingRow].date = View(r, BookingRow).date
    BY DatelessPut
  <1>3. /\ \A q \in Requests \ {r} : writes'[q] = writes[q]
        /\ DOMAIN writes'[r] = DOMAIN writes[r] \cup {BookingRow}
        /\ writes'[r][BookingRow] = W[BookingRow]
        /\ \A x \in DOMAIN writes[r] : x # BookingRow => writes'[r][x] = writes[r][x]
    BY <1>2, PutRows DEF IInv
  <1>4. SameSchedules(writes[r], writes'[r]) /\ SameDate(writes[r], writes'[r], db)
    BY <1>2, <1>3, TransactionsAssumption DEF SameSchedules, Scheduled, SameDate, View
  <1> QED
    BY <1>1, <1>3, <1>4, QuietAdvance

\* Statements about assignments.
LEMMA AssignmentParts ==
    ASSUME IInv, LInv, SInv, NEW r \in Requests,
           CreateAssignment(r) \/ CloseAssignment(r) \/ WithdrawAssignment(r)
    PROVE  SInv' /\ (OInv => OInv')
  <1>1. /\ proc[r].todo # <<>> /\ Advance(r) /\ UNCHANGED db
        /\ Head(proc[r].todo) \notin Turns
    BY DEF CreateAssignment, CloseAssignment, WithdrawAssignment, Ready, At, Turns
  <1>2. \/ UNCHANGED writes
        \/ \E W, a : Put(r, W) /\ DOMAIN W = {a} /\ a \in Assignments \cup {None}
    BY AssignmentWrites
  <1>3. CASE UNCHANGED writes
    BY <1>1, <1>3, QuietAdvance DEF SameSchedules, SameDate
  <1>4. ASSUME NEW W, NEW a \in Assignments \cup {None}, Put(r, W), DOMAIN W = {a}
        PROVE  SInv' /\ (OInv => OInv')
    <2>1. a \notin Schedules /\ a # BookingRow
      BY TransactionsAssumption
    <2>2. /\ \A q \in Requests \ {r} : writes'[q] = writes[q]
          /\ DOMAIN writes'[r] = DOMAIN writes[r] \cup {a}
          /\ \A x \in DOMAIN writes[r] : x # a => writes'[r][x] = writes[r][x]
      BY <1>4, PutRows DEF IInv
    <2>3. SameSchedules(writes[r], writes'[r]) /\ SameDate(writes[r], writes'[r], db)
      BY <2>1, <2>2 DEF SameSchedules, Scheduled, SameDate
    <2> QED
      BY <1>1, <2>2, <2>3, QuietAdvance
  <1> QED
    BY <1>2, <1>3, <1>4

\* findActiveAssignment reads an assignment.
LEMMA FindActiveParts ==
    ASSUME IInv, LInv, SInv, NEW r \in Requests, FindActiveAssignment(r)
    PROVE  SInv' /\ (OInv => OInv')
  <1>1. /\ proc[r].todo # <<>> /\ UNCHANGED <<db, writes>>
        /\ Head(proc[r].todo) \notin Turns
    BY DEF FindActiveAssignment, Ready, At, Turns
  <1>2. ASSUME NEW changes, NEW branch \in {<<>>, <<"answer">>}, Continue(r, changes, branch),
               DOMAIN changes \subseteq {"asg", "asgSeen"}
        PROVE  SInv' /\ (OInv => OInv')
    <2>1. branch \in Seq(Steps) /\ \A x \in Turns : ~Among(branch, x)
      <3>1. CASE branch = <<>>
        BY <3>1 DEF Among
      <3>2. CASE branch = <<"answer">>
        BY <3>2 DEF Steps, Among, Turns
      <3> QED
        BY <1>2, <3>1, <3>2
    <2>2. /\ \A x : Has(proc'[r], x) => Has(proc[r], x) \/ Among(branch, x)
          /\ \A x : Has(proc[r], x) /\ Head(proc[r].todo) # x => Has(proc'[r], x)
      BY <1>1, <1>2, <2>1, LeftWithBranch DEF IInv
    <2>3. /\ \A q \in Requests \ {r} : proc'[q] = proc[q]
          /\ proc'[r].op = proc[r].op /\ proc'[r].sch = proc[r].sch
          /\ proc'[r].targets = proc[r].targets
      BY <1>1, <1>2, <2>1, OnCourseBranch
    <2>4. \A x \in Turns : Has(proc'[r], x) <=> Has(proc[r], x)
      BY <1>1, <2>1, <2>2
    <2>5. SameSchedules(writes[r], writes'[r]) /\ SameDate(writes[r], writes'[r], db)
      BY <1>1 DEF SameSchedules, SameDate
    <2> QED
      BY <1>1, <2>3, <2>4, <2>5, QuietParts
  <1>3. CASE Continue(r, [asg |-> None], <<>>)
    <2> DEFINE changes == [asg |-> None]
    <2>1. DOMAIN changes = {"asg"} /\ Continue(r, changes, <<>>)
      BY <1>3
    <2> HIDE DEF changes
    <2> QED
      BY <1>2, <2>1
  <1>4. ASSUME NEW a \in Assignments, NEW branch \in {<<>>, <<"answer">>},
               Continue(r, [asg |-> a, asgSeen |-> View(r, a).status], branch)
        PROVE  SInv' /\ (OInv => OInv')
    <2> DEFINE changes == [asg |-> a, asgSeen |-> View(r, a).status]
    <2>1. DOMAIN changes = {"asg", "asgSeen"} /\ Continue(r, changes, branch)
      BY <1>4
    <2> HIDE DEF changes
    <2> QED
      BY <1>2, <2>1
  <1>5. \/ Continue(r, [asg |-> None], <<>>)
        \/ \E a \in Assignments, branch \in {<<>>, <<"answer">>} :
              Continue(r, [asg |-> a, asgSeen |-> View(r, a).status], branch)
    BY DEF FindActiveAssignment, LiveAssignments
  <1> QED
    BY <1>3, <1>4, <1>5

\* clearConfirmedDate and copyConfirmedDate give the booking the date they are for.
LEMMA DateParts ==
    ASSUME IInv, LInv, SInv, NEW r \in Requests, ClearConfirmedDate(r) \/ CopyConfirmedDate(r)
    PROVE  SInv' /\ (OInv => OInv')
  <1> DEFINE p == proc[r]
             q == proc'[r]
             held == writes[r]
             new == writes'[r]
  <1>0. Part(p, held, db)
    BY DEF SInv
  <1>1. \E stmt \in {"clearDate", "copyDate"} :
           UpdateBooking(r, stmt, "date", IF stmt = "clearDate" THEN None ELSE p.sch)
    BY DEF ClearConfirmedDate, CopyConfirmedDate
  <1>2. PICK stmt \in {"clearDate", "copyDate"} :
           UpdateBooking(r, stmt, "date", IF stmt = "clearDate" THEN None ELSE p.sch)
    BY <1>1
  <1>3. /\ p.todo # <<>> /\ Head(p.todo) = stmt /\ Advance(r) /\ UNCHANGED db
        /\ \A x \in Requests \ {r} : writes'[x] = writes[x]
        /\ BookingRow \in DOMAIN new
        /\ new[BookingRow].date = IF stmt = "clearDate" THEN None ELSE p.sch
        /\ Scheduled(new) = Scheduled(held)
        /\ \A s \in Scheduled(held) : new[s] = held[s]
    BY <1>2, DatePut DEF DateSeen, Scheduled
  <1>4. /\ \A x \in Requests \ {r} : proc'[x] = proc[x]
        /\ q.op = p.op /\ q.sch = p.sch /\ q.targets = p.targets
        /\ \A x : Has(q, x) <=> Has(p, x) /\ x # stmt
        /\ Has(p, stmt) /\ Course(p)
    BY <1>3, OnCourse
  <1> HIDE DEF p, q, held, new
  <1>5. /\ Proposes(q) <=> Proposes(p)
        /\ Takes(q) <=> Takes(p)
        /\ Supersedes(q) <=> Supersedes(p)
        /\ Looks(q) <=> Looks(p)
        /\ Has(q, "confirm") <=> Has(p, "confirm")
        /\ Has(q, "indexConfirmed") <=> Has(p, "indexConfirmed")
        /\ Has(q, "copyDate") => Has(p, "copyDate")
    BY <1>4 DEF Proposes, Takes, Supersedes, Looks
  <1>6. /\ Dated(q)
        /\ new[BookingRow].date = IF Proposes(q) THEN None ELSE q.sch
    <2>1. CASE stmt = "clearDate"
      BY <1>3, <1>4, <1>5, <2>1 DEF Course, Dated
    <2>2. CASE stmt = "copyDate"
      <3>1. Takes(p) /\ ~Proposes(p)
        BY <1>4, <2>2 DEF Course, Takes, Proposes
      <3>2. p.sch # None
        BY <1>0, <1>4, <2>2, TransactionsAssumption DEF Part, Untied
      <3> QED
        BY <1>3, <1>4, <1>5, <2>2, <3>1, <3>2 DEF Dated
    <2> QED
      BY <2>1, <2>2
  <1>7. /\ Proposing(new) <=> Proposing(held)
        /\ Agreeing(q, new) <=> Agreeing(p, held)
    BY <1>3, <1>5 DEF Proposing, Agreeing
  <1>8. \A s \in Schedules : s \in DOMAIN new <=> s \in DOMAIN held
    BY <1>3 DEF Scheduled
  <1>9. Part(q, new, db)
    <2>1. SchedulesHeld(q, new, db)
      BY <1>0, <1>3, <1>4, <1>5 DEF Part, SchedulesHeld, Added, Replaced, Agreed
    <2>2. Untied(q, new)
      BY <1>0, <1>3, <1>4, <1>5 DEF Part, Untied
    <2>3. AgreedHeld(q, new)
      BY <1>0, <1>3, <1>4, <1>5, <1>8 DEF Part, AgreedHeld, ConfirmedBy, Scheduled
    <2>4. OnlyProposed(new, db)
      BY <1>0, <1>3, <1>8 DEF Part, OnlyProposed, Scheduled
    <2>5. OnlyAgreed(q, new, db)
      BY <1>0, <1>4, <1>7 DEF Part, OnlyAgreed
    <2>6. DateHeld(q, new, db)
      BY <1>3, <1>6 DEF DateHeld
    <2> QED
      BY <2>1, <2>2, <2>3, <2>4, <2>5, <2>6 DEF Part
  <1>10. SInv'
    BY <1>3, <1>4, <1>7, <1>9, OthersParts DEF p, q, held, new
  <1>11. ASSUME OInv PROVE OInv'
    <2>1. OpenHeld(p, held, db)
      BY <1>11 DEF OInv, p, held
    <2>2. OpenHeld(q, new, db)
      BY <1>2, <1>4, <1>5, <1>8, <2>1 DEF OpenHeld
    <2> QED
      BY <1>3, <1>4, <1>11, <2>2, OthersOpen DEF q, new
  <1> QED
    BY <1>10, <1>11

\* Whoever holds a row a partial index looks at stands in the way of the index.
LEMMA IndexWaits ==
    ASSUME NEW r \in Requests, NEW live, NEW q \in Requests \ {r}, NEW s \in Schedules,
           s \in DOMAIN writes[q], writes[q][s].status \in live,
           RowsNeeded(r) = Live(Schedules, live)
    PROVE  Blockers(r) # {}
  BY DEF Blockers, Live

\* createSchedule: the index has seen no other proposal, committed or not.
LEMMA CreateParts ==
    ASSUME IInv, LInv, SInv, NEW r \in Requests, CreateSchedule(r)
    PROVE  SInv' /\ (OInv => OInv')
  <1> DEFINE p == proc[r]
             q == proc'[r]
             held == writes[r]
             new == writes'[r]
             row == [status |-> "PENDING", by |-> proc[r].actor, confirmedBy |-> None]
  <1>0. Part(p, held, db)
    BY DEF SInv
  <1>1. /\ p.todo # <<>> /\ Head(p.todo) = "createSchedule" /\ Advance(r) /\ UNCHANGED db
        /\ Blockers(r) = {} /\ At(r, "createSchedule")
        /\ ~Duplicate(r, Schedules, {"PENDING"})
    BY DEF CreateSchedule, Ready, At
  <1>2. PICK s \in Fresh(Schedules) : Put(r, [x \in {s} |-> row])
    BY DEF CreateSchedule, Insert
  <1> DEFINE W == [x \in {s} |-> row]
  <1>3. Put(r, W) /\ DOMAIN W = {s} /\ W[s] = row /\ row.status = "PENDING"
    BY <1>2
  <1> HIDE DEF W, row
  <1>4. /\ \A x \in Requests \ {r} : writes'[x] = writes[x]
        /\ DOMAIN new = DOMAIN held \cup {s}
        /\ new[s].status = "PENDING"
        /\ \A x \in DOMAIN held : x # s => new[x] = held[x]
    BY <1>3, PutRows DEF IInv
  <1>5. s \in Schedules /\ s # BookingRow /\ db[s].status = "FREE" /\ s \notin DOMAIN held
    BY TransactionsAssumption DEF Fresh
  <1>6. /\ \A x \in Requests \ {r} : proc'[x] = proc[x]
        /\ q.op = p.op /\ q.sch = p.sch /\ q.targets = p.targets
        /\ \A x : Has(q, x) <=> Has(p, x) /\ x # "createSchedule"
        /\ Has(p, "createSchedule") /\ Course(p)
    BY <1>1, OnCourse
  <1>7. RowsNeeded(r) = Live(Schedules, {"PENDING"})
    BY <1>1 DEF RowsNeeded, At
  <1>8. \A t \in Schedules : t # p.sch => View(r, t).status # "PENDING"
    BY <1>1 DEF Duplicate
  <1>9. ASSUME NEW x \in Requests \ {r} PROVE ~Proposing(writes[x])
    BY <1>1, <1>7, IndexWaits DEF Proposing, Scheduled
  <1> HIDE DEF p, q, held, new
  <1>10. /\ Proposes(p) /\ Proposes(q) /\ ~Takes(q) /\ ~Supersedes(p) /\ ~Supersedes(q)
         /\ ~Looks(q) /\ ~Has(q, "copyDate")
         /\ Dated(q) <=> Dated(p)
    BY <1>1, <1>6 DEF Course, Proposes, Takes, Supersedes, Looks, Dated
  <1>11. p.sch = None /\ None \notin Schedules
    BY <1>0, <1>10, TransactionsAssumption DEF Part, Untied
  <1>12. \A t \in Schedules : IF t \in DOMAIN held THEN held[t].status # "PENDING"
                              ELSE db[t].status # "PENDING"
    BY <1>8, <1>11 DEF View, held
  <1>13. SchedulesHeld(q, new, db)
    <2> SUFFICES ASSUME NEW t \in Scheduled(new)
                 PROVE  Added(q, new, db, t) \/ Replaced(q, new, db, t) \/ Agreed(q, new, db, t)
      BY DEF SchedulesHeld
    <2>1. CASE t = s
      BY <1>4, <1>5, <1>10, <2>1 DEF Added
    <2>2. CASE t # s
      BY <1>0, <1>4, <1>6, <1>10, <2>2
         DEF Part, SchedulesHeld, Scheduled, Added, Replaced, Agreed, Takes
    <2> QED
      BY <2>1, <2>2
  <1>14. Untied(q, new) /\ AgreedHeld(q, new)
    BY <1>6, <1>10, <1>11 DEF Untied, AgreedHeld
  <1>15. ~Agreeing(q, new)
    BY <1>10, <1>13 DEF Agreeing, SchedulesHeld, Added, Replaced, Agreed
  <1>16. OnlyProposed(new, db)
    <2> SUFFICES ASSUME NEW t \in Scheduled(new), new[t].status = "PENDING",
                        NEW u \in Schedules \ {t}
                 PROVE  IF u \in DOMAIN new THEN new[u].status # "PENDING"
                        ELSE db[u].status # "PENDING"
      BY DEF OnlyProposed
    <2>1. t = s
      BY <1>4, <1>12 DEF Scheduled
    <2> QED
      BY <1>4, <1>12, <2>1
  <1>17. DateHeld(q, new, db)
    BY <1>0, <1>4, <1>5, <1>6, <1>10 DEF Part, DateHeld, Proposes
  <1>18. Part(q, new, db)
    BY <1>13, <1>14, <1>15, <1>16, <1>17 DEF Part, OnlyAgreed
  <1>19. SInv'
    BY <1>1, <1>4, <1>6, <1>9, <1>15, <1>18, OthersParts DEF p, q, new
  <1>20. ASSUME OInv PROVE OInv'
    <2>1. OpenHeld(p, held, db)
      BY <1>20 DEF OInv, p, held
    <2>2. OpenHeld(q, new, db)
      BY <1>4, <1>10, <2>1 DEF OpenHeld, Supersedes
    <2> QED
      BY <1>1, <1>4, <1>6, <1>20, <2>2, OthersOpen DEF q, new
  <1> QED
    BY <1>19, <1>20

\* supersedeOpenSchedules: nothing is written when it picks its rows ...
LEMMA SnapshotParts ==
    ASSUME IInv, LInv, SInv, NEW r \in Requests, SupersedeSnapshot(r)
    PROVE  SInv' /\ (OInv => OInv')
  <1> DEFINE p == proc[r]
             q == proc'[r]
             held == writes[r]
             changes == [targets |-> {s \in Schedules : View(r, s).status \in Open}]
             branch == <<"supersedeRows">>
  <1>0. Part(p, held, db) /\ Processes /\ Programmed(p) /\ p.todo \in Seq(Steps)
    BY DEF SInv, IInv, LInv, Plan, Processes, Shape
  <1>1. /\ p.todo # <<>> /\ Head(p.todo) = "supersede" /\ UNCHANGED <<db, writes>>
        /\ Continue(r, changes, branch)
    BY DEF SupersedeSnapshot, Ready, At
  <1>2. /\ DOMAIN changes = {"targets"} /\ branch \in Seq(Steps)
        /\ \A x : Among(branch, x) <=> x = "supersedeRows"
        /\ changes["targets"] = {s \in Schedules : View(r, s).status \in Open}
    BY DEF Steps, Among
  <1>3. branch = <<"supersedeRows">>
    OBVIOUS
  <1> HIDE DEF changes, branch
  <1>4. /\ \A x \in Requests \ {r} : proc'[x] = proc[x]
        /\ q.op = p.op /\ q.sch = p.sch
        /\ q.targets = {s \in Schedules : View(r, s).status \in Open}
        /\ Has(p, "supersede") /\ Course(p)
    BY <1>1, <1>2, OnCourseBranch
  <1>5. q.seen = p.seen /\ q.todo = branch \o Tail(p.todo)
    BY <1>0, <1>1, <1>2, OnBranch
  <1>6. \A x : Has(q, x) <=> (Has(p, x) /\ x # "supersede") \/ x = "supersedeRows"
    <2>1. \A x : Has(q, x) <=> (Has(p, x) /\ x # Head(p.todo)) \/ Among(branch, x)
      BY <1>0, <1>1, <1>3, <1>4, <1>5, Branches
    <2> QED
      BY <1>1, <1>2, <2>1
  <1>7. \A s \in Schedules : s \notin DOMAIN held => View(r, s) = db[s]
    BY DEF View
  <1> HIDE DEF p, q, held
  <1>8. /\ Proposes(p) /\ Proposes(q) /\ ~Takes(q) /\ Supersedes(p) /\ Supersedes(q)
        /\ ~Looks(q) /\ ~Has(q, "copyDate")
        /\ Dated(q) <=> Dated(p)
    BY <1>4, <1>6 DEF Course, Proposes, Takes, Supersedes, Looks, Dated
  <1>9. p.sch = None /\ Scheduled(held) = {}
    BY <1>0, <1>8 DEF Part, Untied
  <1>10. SchedulesHeld(q, held, db) /\ Untied(q, held) /\ AgreedHeld(q, held)
    BY <1>4, <1>8, <1>9 DEF SchedulesHeld, Untied, AgreedHeld
  <1>11. /\ OnlyProposed(held, db) /\ OnlyAgreed(q, held, db)
         /\ ~Proposing(held) /\ ~Agreeing(q, held)
    BY <1>9 DEF OnlyProposed, OnlyAgreed, Proposing, Agreeing
  <1>12. DateHeld(q, held, db)
    BY <1>0, <1>4, <1>8 DEF Part, DateHeld, Proposes
  <1>13. Part(q, held, db)
    BY <1>10, <1>11, <1>12 DEF Part
  <1>14. SInv'
    BY <1>1, <1>4, <1>11, <1>13, OthersParts DEF p, q, held
  <1>15. ASSUME OInv PROVE OInv'
    <2>1. OpenHeld(q, held, db)
      BY <1>4, <1>7, <1>8, <1>9 DEF OpenHeld, Scheduled
    <2> QED
      BY <1>1, <1>4, <1>15, <2>1, OthersOpen DEF q, held
  <1> QED
    BY <1>14, <1>15

\* ... and when it has their locks, those that are open are the committed ones still.
LEMMA SupersedeParts ==
    ASSUME IInv, LInv, SInv, NEW r \in Requests, SupersedeRows(r)
    PROVE  SInv' /\ (OInv => OInv')
  <1> DEFINE p == proc[r]
             q == proc'[r]
             held == writes[r]
             new == writes'[r]
             open == {s \in p.targets : View(r, s).status \in Open}
             W == [s \in open |-> [View(r, s) EXCEPT !.status = "SUPERSEDED"]]
             changes == [targets |-> {}]
  <1>0. /\ Part(p, held, db) /\ Processes /\ Programmed(p) /\ p.todo \in Seq(Steps)
        /\ p.targets \subseteq Schedules
    BY DEF SInv, IInv, LInv, Plan, Processes, Shape
  <1>1. /\ p.todo # <<>> /\ Head(p.todo) = "supersedeRows" /\ UNCHANGED db
        /\ Put(r, W) /\ Continue(r, changes, <<>>)
    BY DEF SupersedeRows, Ready, At
  <1>2. DOMAIN changes = {"targets"} /\ <<>> \in Seq(Steps)
    OBVIOUS
  <1>3. /\ DOMAIN W = open /\ open \subseteq Schedules
        /\ \A s \in open : W[s].status = "SUPERSEDED"
    <2>1. open \subseteq Schedules
      BY <1>0
    <2>2. ASSUME NEW s \in open PROVE W[s].status = "SUPERSEDED"
      <3>1. View(r, s) \in ScheduleRecord
        BY <2>1, Seen
      <3> QED
        BY <3>1 DEF ScheduleRecord
    <2> QED
      BY <2>1, <2>2
  <1>4. \A s \in p.targets : View(r, s).status \in Open => s \in open
    OBVIOUS
  <1>5. \A s \in open : View(r, s).status \in Open
    OBVIOUS
  <1> HIDE DEF changes, W, open
  <1>6. /\ \A x \in Requests \ {r} : proc'[x] = proc[x]
        /\ q.op = p.op /\ q.sch = p.sch
        /\ Has(p, "supersedeRows") /\ Course(p)
    BY <1>1, <1>2, OnCourseBranch
  <1>7. \A x : Has(q, x) <=> Has(p, x) /\ x # "supersedeRows"
    BY <1>0, <1>1, <1>2, OnWithout
  <1>8. /\ \A x \in Requests \ {r} : writes'[x] = writes[x]
        /\ DOMAIN new = DOMAIN held \cup open
        /\ \A s \in open : new[s].status = "SUPERSEDED"
        /\ \A x \in DOMAIN held : x \notin open => new[x] = held[x]
    BY <1>1, <1>3, PutRows DEF IInv
  <1>9. \A s \in Schedules : s \notin DOMAIN held => View(r, s) = db[s]
    BY DEF View
  <1> HIDE DEF p, q, held, new
  <1>10. /\ Proposes(p) /\ Proposes(q) /\ ~Takes(q) /\ Supersedes(p) /\ ~Supersedes(q)
         /\ ~Looks(q) /\ ~Has(q, "copyDate")
         /\ Dated(q) <=> Dated(p)
    BY <1>1, <1>6, <1>7 DEF Course, Proposes, Takes, Supersedes, Looks, Dated
  <1>11. p.sch = None /\ Scheduled(held) = {}
    BY <1>0, <1>10 DEF Part, Untied
  <1>12. Scheduled(new) = open /\ BookingRow \notin open
    BY <1>3, <1>8, <1>11, TransactionsAssumption DEF Scheduled
  <1>13. \A s \in open : db[s].status \in Open
    BY <1>3, <1>5, <1>9, <1>11 DEF Scheduled
  <1>14. SchedulesHeld(q, new, db)
    BY <1>8, <1>10, <1>12, <1>13 DEF SchedulesHeld, Replaced
  <1>15. Untied(q, new) /\ AgreedHeld(q, new)
    BY <1>6, <1>10, <1>11 DEF Untied, AgreedHeld
  <1>16. /\ OnlyProposed(new, db) /\ OnlyAgreed(q, new, db)
         /\ ~Proposing(new) /\ ~Agreeing(q, new)
    BY <1>8, <1>12 DEF OnlyProposed, OnlyAgreed, Proposing, Agreeing
  <1>17. DateHeld(q, new, db)
    BY <1>0, <1>6, <1>8, <1>10, <1>12 DEF Part, DateHeld, Proposes
  <1>18. Part(q, new, db)
    BY <1>14, <1>15, <1>16, <1>17 DEF Part
  <1>19. SInv'
    BY <1>1, <1>6, <1>8, <1>16, <1>18, OthersParts DEF p, q, new
  <1>20. ASSUME OInv PROVE OInv'
    <2>1. OpenHeld(p, held, db)
      BY <1>20 DEF OInv, p, held
    <2>2. \A s \in Schedules : db[s].status \in Open => s \in open
      BY <1>4, <1>6, <1>9, <1>10, <1>11, <2>1 DEF OpenHeld, Scheduled
    <2>3. OpenHeld(q, new, db)
      BY <1>8, <1>10, <2>2 DEF OpenHeld, Supersedes
    <2> QED
      BY <1>1, <1>6, <1>8, <1>20, <2>3, OthersOpen DEF q, new
  <1> QED
    BY <1>19, <1>20

\* A request that holds no schedule and is not about one.
LEMMA Unwritten ==
    ASSUME NEW p, NEW held, NEW rows, Scheduled(held) = {}, p.sch = None \/ Has(p, "confirm"),
           Has(p, "copyDate") => p.sch \in Schedules,
           Proposes(p) \/ Looks(p) => p.sch = None,
           ~Dated(p), BookingRow \in DOMAIN held => held[BookingRow].date = rows[BookingRow].date
    PROVE  /\ Part(p, held, rows) /\ ~Proposing(held) /\ ~Agreeing(p, held)
  <1>1. SchedulesHeld(p, held, rows) /\ Untied(p, held) /\ AgreedHeld(p, held)
    BY DEF SchedulesHeld, Untied, AgreedHeld
  <1>2. OnlyProposed(held, rows) /\ OnlyAgreed(p, held, rows) /\ ~Proposing(held) /\ ~Agreeing(p, held)
    BY DEF OnlyProposed, OnlyAgreed, Proposing, Agreeing
  <1>3. DateHeld(p, held, rows)
    BY DEF DateHeld
  <1> QED
    BY <1>1, <1>2, <1>3 DEF Part

\* A transaction that is rolled back leaves nothing behind.
LEMMA RolledBackParts ==
    ASSUME IInv, SInv, NEW r \in Requests, Rollback(r)
    PROVE  SInv' /\ (OInv => OInv')
  <1>1. proc'[r] = Idle /\ \A q \in Requests \ {r} : proc'[q] = proc[q]
    BY Ends DEF IInv, Rollback
  <1>2. /\ DOMAIN writes'[r] = {} /\ UNCHANGED db
        /\ \A q \in Requests \ {r} : writes'[q] = writes[q]
    BY DEF IInv, Pending, Rollback, NoWrites
  <1>3. /\ Idle.sch = None /\ Idle.todo = <<>> /\ ~Proposes(Idle) /\ ~Takes(Idle)
        /\ ~Has(Idle, "copyDate") /\ ~Looks(Idle) /\ ~Dated(Idle)
    BY DEF Idle, Proposes, Takes, Looks, Has, Dated
  <1>4. /\ Part(proc'[r], writes'[r], db)
        /\ ~Proposing(writes'[r]) /\ ~Agreeing(proc'[r], writes'[r])
    BY <1>1, <1>2, <1>3, Unwritten DEF Scheduled
  <1>5. SInv'
    BY <1>1, <1>2, <1>4, OthersParts
  <1>6. OpenHeld(proc'[r], writes'[r], db)
    BY <1>1, <1>3 DEF OpenHeld
  <1> QED
    BY <1>1, <1>2, <1>5, <1>6, OthersOpen

\* A request that looks for the proposal holds no schedule, whether it finds one or not.
LEMMA LookParts ==
    ASSUME IInv, LInv, SInv, NEW r \in Requests,
           FindPendingSchedule(r) \/ ReadPendingSchedule(r)
    PROVE  SInv' /\ (OInv => OInv')
  <1> DEFINE p == proc[r]
             q == proc'[r]
             held == writes[r]
             short == <<"confirm", "indexConfirmed", "copyDate">>
             long == <<"confirm", "indexConfirmed", "copyDate", "findActive", "transition">>
  <1>0. /\ Part(p, held, db) /\ Processes /\ Programmed(p) /\ p.todo \in Seq(Steps)
        /\ p.todo # <<>> /\ Head(p.todo) \in {"findPending", "readPending"}
        /\ Has(p, Head(p.todo)) /\ Course(p)
    BY Heads, Courses DEF SInv, IInv, LInv, Plan, Processes, Shape, FindPendingSchedule,
                          ReadPendingSchedule, Ready, At
  <1>1. /\ Takes(p) /\ ~Proposes(p) /\ ~Supersedes(p) /\ Looks(p)
        /\ ~Has(p, "confirm") /\ ~Has(p, "indexConfirmed") /\ ~Has(p, "copyDate")
    BY <1>0 DEF Course, Looks, Takes, Proposes
  <1>2. p.sch = None /\ Scheduled(held) = {}
    <2>1. p.sch = None
      BY <1>0, <1>1 DEF Part, Untied
    <2>2. \A s \in Scheduled(held) : Agreed(p, held, db, s)
      BY <1>0, <1>1 DEF Part, SchedulesHeld, Added, Replaced
    <2> QED
      BY <2>1, <2>2, TransactionsAssumption DEF Agreed, Scheduled
  <1>3. BookingRow \in DOMAIN held => held[BookingRow].date = db[BookingRow].date
    BY <1>0, <1>1, <1>2 DEF Part, DateHeld, Dated
  <1>4. CASE Rollback(r)
    BY <1>4, RolledBackParts
  <1>5. ASSUME UNCHANGED <<db, writes>>, \A x \in Requests \ {r} : proc'[x] = proc[x],
               q.op = p.op, Part(q, held, db), ~Agreeing(q, held)
        PROVE  SInv' /\ (OInv => OInv')
    <2>1. SInv'
      BY <1>5, OthersParts
    <2>2. OpenHeld(q, held, db)
      BY <1>1, <1>5 DEF OpenHeld, Proposes
    <2> QED
      BY <1>5, <2>1, <2>2, OthersOpen
  <1>6. CASE Advance(r) /\ UNCHANGED <<db, writes>>
    <2>1. /\ \A x \in Requests \ {r} : proc'[x] = proc[x]
          /\ q.op = p.op /\ q.sch = None /\ ~Has(q, "copyDate")
      BY <1>0, <1>1, <1>2, <1>6, OnCourse
    <2>2. ~Dated(q)
      BY <1>1, <2>1 DEF Dated, Proposes
    <2>3. Part(q, held, db) /\ ~Agreeing(q, held)
      BY <1>2, <1>3, <2>1, <2>2, Unwritten
    <2> QED
      BY <1>5, <1>6, <2>1, <2>3
  <1>7. ASSUME NEW s \in Schedules, NEW branch, Continue(r, [sch |-> s], branch),
               UNCHANGED <<db, writes>>,
               \/ Head(p.todo) = "findPending" /\ branch = short
               \/ /\ Head(p.todo) = "readPending"
                  /\ branch = IF p.seen.status = "ASSIGNED" THEN long ELSE short
        PROVE  SInv' /\ (OInv => OInv')
    <2> DEFINE changes == [sch |-> s]
    <2>1. DOMAIN changes = {"sch"} /\ changes["sch"] = s /\ Continue(r, changes, branch)
      BY <1>7
    <2>2. /\ short \in Seq(Steps) /\ long \in Seq(Steps)
          /\ \A x \in {"confirm", "indexConfirmed", "copyDate"} : Among(short, x) /\ Among(long, x)
          /\ ~Among(short, "findPending") /\ ~Among(short, "readPending")
          /\ ~Among(long, "findPending") /\ ~Among(long, "readPending")
      <3>1. short \in Seq(Steps) /\ long \in Seq(Steps)
        BY DEF Steps
      <3>2. /\ \A i \in 1 .. 3 : short[i] \in {"confirm", "indexConfirmed", "copyDate"}
            /\ short[1] = "confirm" /\ short[2] = "indexConfirmed" /\ short[3] = "copyDate"
            /\ DOMAIN short = 1 .. 3
        OBVIOUS
      <3>3. /\ \A i \in 1 .. 5 : long[i] \in
                  {"confirm", "indexConfirmed", "copyDate", "findActive", "transition"}
            /\ long[1] = "confirm" /\ long[2] = "indexConfirmed" /\ long[3] = "copyDate"
            /\ DOMAIN long = 1 .. 5
        OBVIOUS
      <3> HIDE DEF short, long
      <3> QED
        BY <3>1, <3>2, <3>3 DEF Among
    <2> HIDE DEF changes
    <2>3. branch \in Seq(Steps)
      BY <1>7, <2>2
    <2>4. /\ \A x \in Requests \ {r} : proc'[x] = proc[x]
          /\ q.op = p.op /\ q.seen = p.seen /\ q.sch = s
          /\ q.todo = branch \o Tail(p.todo)
      BY <1>0, <2>1, <2>3, OnBranch, OnCourseBranch
    <2>5. \A x : Has(q, x) <=> (Has(p, x) /\ x # Head(p.todo)) \/ Among(branch, x)
      <3>1. /\ q.op = p.op /\ q.seen = p.seen /\ q.todo = branch \o Tail(p.todo)
            /\ Programmed(p) /\ p.todo \in Seq(Steps) /\ p.todo # <<>>
        BY <1>0, <2>4
      <3>2. \/ /\ Head(p.todo) = "findPending"
               /\ branch = <<"confirm", "indexConfirmed", "copyDate">>
            \/ /\ Head(p.todo) = "readPending"
               /\ branch = IF p.seen.status = "ASSIGNED"
                    THEN <<"confirm", "indexConfirmed", "copyDate", "findActive", "transition">>
                    ELSE <<"confirm", "indexConfirmed", "copyDate">>
        BY <1>7
      <3> HIDE DEF p, q
      <3> QED
        BY <3>1, <3>2, Branches
    <2> HIDE DEF p, q, held, short, long
    <2>6. /\ Has(q, "confirm") /\ Has(q, "indexConfirmed") /\ Has(q, "copyDate")
      BY <1>7, <2>2, <2>5
    <2>7. ~Has(q, "findPending") /\ ~Has(q, "readPending")
      BY <1>0, <1>7, <2>2, <2>5 DEF Course
    <2>8. ~Proposes(q) /\ ~Dated(q) /\ ~Looks(q)
      BY <1>1, <2>4, <2>6, <2>7 DEF Proposes, Dated, Looks
    <2>9. Part(q, held, db) /\ ~Agreeing(q, held)
      BY <1>2, <1>3, <2>4, <2>6, <2>8, Unwritten
    <2> QED
      BY <1>5, <1>7, <2>4, <2>9 DEF p, q, held
  <1>8. CASE FindPendingSchedule(r)
    BY <1>4, <1>6, <1>7, <1>8 DEF FindPendingSchedule, Ready, At
  <1>9. CASE ReadPendingSchedule(r)
    BY <1>4, <1>7, <1>9 DEF ReadPendingSchedule, Ready, At
  <1> QED
    BY <1>8, <1>9

\* closeSchedule: the proposal is still the one that was read, and nobody has answered it.
LEMMA CloseParts ==
    ASSUME IInv, LInv, SInv, NEW r \in Requests, CloseSchedule(r)
    PROVE  SInv' /\ (OInv => OInv')
  <1> DEFINE p == proc[r]
             q == proc'[r]
             held == writes[r]
             new == writes'[r]
             s == proc[r].sch
             row == [View(r, s) EXCEPT !.status = "CONFIRMED", !.confirmedBy = proc[r].actor]
             W == [x \in {s} |-> row]
  <1>0. Part(p, held, db)
    BY DEF SInv
  <1>1. /\ p.todo # <<>> /\ Head(p.todo) = "confirm" /\ Advance(r) /\ UNCHANGED db
        /\ Put(r, W) /\ View(r, s).status = "PENDING"
    BY DEF CloseSchedule, Ready, At, ConfirmMatches
  <1>2. /\ \A x \in Requests \ {r} : proc'[x] = proc[x]
        /\ q.op = p.op /\ q.sch = p.sch
        /\ \A x : Has(q, x) <=> Has(p, x) /\ x # "confirm"
        /\ Has(p, "confirm") /\ Course(p)
    BY <1>1, OnCourse
  <1>3. /\ Takes(p) /\ Takes(q) /\ ~Proposes(p) /\ ~Proposes(q) /\ ~Supersedes(q)
        /\ Has(q, "indexConfirmed") /\ Has(p, "copyDate") /\ Has(q, "copyDate")
        /\ ~Looks(q)
    BY <1>2 DEF Course, Proposes, Takes, Supersedes, Looks
  <1>4. s \in Schedules /\ s # BookingRow
    BY <1>0, <1>3, TransactionsAssumption DEF Part, Untied
  <1>5. row.status = "CONFIRMED"
    <2>1. View(r, s) \in ScheduleRecord
      BY <1>4, Seen
    <2> QED
      BY <2>1 DEF ScheduleRecord
  <1>6. DOMAIN W = {s} /\ W[s] = row
    OBVIOUS
  <1> HIDE DEF W, row
  <1>7. /\ \A x \in Requests \ {r} : writes'[x] = writes[x]
        /\ DOMAIN new = DOMAIN held \cup {s}
        /\ new[s].status = "CONFIRMED"
        /\ \A x \in DOMAIN held : x # s => new[x] = held[x]
    BY <1>1, <1>5, <1>6, PutRows DEF IInv
  <1>8. View(r, s) = IF s \in DOMAIN held THEN held[s] ELSE db[s]
    BY DEF View
  <1>9. p.sch = s
    OBVIOUS
  <1> HIDE DEF p, q, held, new, s
  <1>10. Scheduled(held) = {} /\ db[s].status = "PENDING"
    <2>1. \A t \in Scheduled(held) : t = s /\ held[t].status = "CONFIRMED"
      BY <1>0, <1>3, <1>9 DEF Part, SchedulesHeld, Added, Replaced, Agreed
    <2> QED
      BY <1>1, <1>4, <1>8, <2>1 DEF Scheduled
  <1>11. Scheduled(new) = {s}
    BY <1>4, <1>7, <1>10 DEF Scheduled
  <1>12. SchedulesHeld(q, new, db)
    BY <1>2, <1>3, <1>7, <1>9, <1>10, <1>11 DEF SchedulesHeld, Agreed
  <1>13. Untied(q, new) /\ AgreedHeld(q, new)
    BY <1>2, <1>3, <1>4, <1>7, <1>9, <1>11 DEF Untied, AgreedHeld, ConfirmedBy, Scheduled
  <1>14. /\ OnlyProposed(new, db) /\ OnlyAgreed(q, new, db)
         /\ ~Proposing(new) /\ ~Agreeing(q, new)
    BY <1>3, <1>7, <1>11 DEF OnlyProposed, OnlyAgreed, Proposing, Agreeing
  <1>15. DateHeld(q, new, db)
    BY <1>0, <1>3, <1>4, <1>7 DEF Part, DateHeld, Dated
  <1>16. Part(q, new, db)
    BY <1>12, <1>13, <1>14, <1>15 DEF Part
  <1>17. SInv'
    BY <1>1, <1>2, <1>7, <1>14, <1>16, OthersParts DEF p, q, new
  <1>18. OpenHeld(q, new, db)
    BY <1>3 DEF OpenHeld
  <1> QED
    BY <1>1, <1>2, <1>7, <1>17, <1>18, OthersOpen DEF q, new

\* The index of CONFIRMED rows has seen no other agreed date, committed or not.
LEMMA IndexParts ==
    ASSUME IInv, LInv, SInv, NEW r \in Requests, CheckConfirmedIndex(r)
    PROVE  SInv' /\ (OInv => OInv')
  <1> DEFINE p == proc[r]
             q == proc'[r]
             held == writes[r]
  <1>0. Part(p, held, db)
    BY DEF SInv
  <1>1. /\ p.todo # <<>> /\ Head(p.todo) = "indexConfirmed" /\ Advance(r)
        /\ UNCHANGED <<db, writes>> /\ Blockers(r) = {} /\ At(r, "indexConfirmed")
        /\ ~Duplicate(r, Schedules, {"CONFIRMED"})
    BY DEF CheckConfirmedIndex, Ready, At
  <1>2. /\ \A x \in Requests \ {r} : proc'[x] = proc[x]
        /\ q.op = p.op /\ q.sch = p.sch
        /\ \A x : Has(q, x) <=> Has(p, x) /\ x # "indexConfirmed"
        /\ Has(p, "indexConfirmed") /\ Course(p)
    BY <1>1, OnCourse
  <1>3. RowsNeeded(r) = Live(Schedules, {"CONFIRMED"})
    BY <1>1 DEF RowsNeeded, At
  <1>4. \A t \in Schedules : t # p.sch =>
            (IF t \in DOMAIN held THEN held[t] ELSE db[t]).status # "CONFIRMED"
    BY <1>1 DEF Duplicate, View
  <1>5. ASSUME NEW x \in Requests \ {r} PROVE ~Agreeing(proc[x], writes[x])
    BY <1>1, <1>3, IndexWaits DEF Agreeing, Scheduled
  <1> HIDE DEF p, q, held
  <1>6. /\ Takes(p) /\ Takes(q) /\ ~Proposes(p) /\ ~Proposes(q) /\ ~Supersedes(q)
        /\ Has(p, "copyDate") /\ Has(q, "copyDate") /\ ~Looks(q)
        /\ Has(q, "confirm") <=> Has(p, "confirm")
    BY <1>2 DEF Course, Proposes, Takes, Supersedes, Looks
  <1>7. /\ \A t \in Scheduled(held) : t = p.sch /\ held[t].status = "CONFIRMED"
        /\ SchedulesHeld(q, held, db)
    BY <1>0, <1>2, <1>6 DEF Part, SchedulesHeld, Added, Replaced, Agreed
  <1>8. Untied(q, held) /\ AgreedHeld(q, held)
    BY <1>0, <1>2, <1>6 DEF Part, Untied, AgreedHeld
  <1>9. OnlyProposed(held, db) /\ OnlyAgreed(q, held, db) /\ ~Proposing(held)
    BY <1>2, <1>4, <1>7 DEF OnlyProposed, OnlyAgreed, Proposing, Scheduled
  <1>10. DateHeld(q, held, db)
    BY <1>0, <1>6 DEF Part, DateHeld, Dated
  <1>11. Part(q, held, db)
    BY <1>7, <1>8, <1>9, <1>10 DEF Part
  <1>12. SInv'
    BY <1>1, <1>2, <1>5, <1>9, <1>11, OthersParts DEF p, q, held
  <1>13. OpenHeld(q, held, db)
    BY <1>6 DEF OpenHeld
  <1> QED
    BY <1>1, <1>2, <1>12, <1>13, OthersOpen DEF q, held

\* What a handler starts with.
LEMMA BegunParts ==
    ASSUME IInv, SInv, NEW r \in Requests, NEW op, NEW a, NEW fields, NEW program,
           Begin(r, op, a, fields, program), DOMAIN fields \subseteq {"chosen", "asg", "sch"},
           "sch" \in DOMAIN fields => fields["sch"] = None,
           NEW p, p.op = op, p.todo = program, ~Has(p, "copyDate"),
           Proposes(p) => Has(p, "clearDate") /\ Has(p, "supersede") /\ ~Has(p, "supersedeRows")
    PROVE  SInv' /\ (OInv => OInv')
  <1> DEFINE q == proc'[r]
  <1>1. DOMAIN Idle = Fields /\ Idle.sch = None
    BY IdleShape DEF Idle
  <1>2. /\ proc[r] = Idle /\ UNCHANGED <<db, writes>>
        /\ q = [x \in Fields |->
               CASE x = "op" -> op
                 [] x = "actor" -> a
                 [] x = "seen" -> [status |-> booking.status, version |-> booking.version]
                 [] x = "todo" -> program
                 [] x \in DOMAIN fields -> fields[x]
                 [] OTHER -> Idle[x]]
        /\ \A x \in Requests \ {r} : proc'[x] = proc[x]
    BY <1>1 DEF Begin, IInv, Processes
  <1>3. \A x \in Fields : q[x] =
               CASE x = "op" -> op
                 [] x = "actor" -> a
                 [] x = "seen" -> [status |-> booking.status, version |-> booking.version]
                 [] x = "todo" -> program
                 [] x \in DOMAIN fields -> fields[x]
                 [] OTHER -> Idle[x]
    BY <1>2
  <1>4. q.op = op /\ q.todo = program
    BY <1>3 DEF Fields
  <1>5. q.sch = None
    BY <1>1, <1>3 DEF Fields
  <1> HIDE DEF q
  <1>6. /\ ~Has(q, "copyDate")
        /\ Proposes(q) => Has(q, "clearDate") /\ Has(q, "supersede") /\ ~Has(q, "supersedeRows")
    BY <1>4 DEF Has, Proposes
  <1>7. ~Dated(q)
    BY <1>5, <1>6 DEF Dated
  <1>8. DOMAIN writes[r] = {} /\ Scheduled(writes[r]) = {}
    BY <1>2 DEF IInv, Pending, Scheduled
  <1>9. Part(q, writes[r], db) /\ ~Agreeing(q, writes[r])
    BY <1>5, <1>6, <1>7, <1>8, Unwritten
  <1>10. SInv'
    BY <1>2, <1>9, OthersParts DEF q
  <1>11. OpenHeld(q, writes[r], db)
    BY <1>6 DEF OpenHeld, Supersedes
  <1> QED
    BY <1>2, <1>10, <1>11, OthersOpen DEF q

\* Every handler starts with nothing written.
LEMMA StartParts ==
    ASSUME IInv, SInv, NEW r \in Requests, Start(r)
    PROVE  SInv' /\ (OInv => OInv')
  <1> DEFINE P(op, program) == [op |-> op, todo |-> program]
             none == [sch |-> None]
  <1>1. ASSUME NEW op, NEW program PROVE P(op, program).op = op /\ P(op, program).todo = program
    OBVIOUS
  <1>2. DOMAIN none = {"sch"} /\ none["sch"] = None
    OBVIOUS
  <1> HIDE DEF P
  <1>3. ASSUME NEW op, NEW a, NEW fields, DOMAIN fields \in {{"sch"}, {"asg"}},
               "sch" \in DOMAIN fields => fields["sch"] = None, op \notin {"assign", "propose"},
               NEW program \in {<<"findActive", "withdraw", "transition">>,
                                <<"answer", "findPending", "transition">>,
                                <<"answer", "transition">>, <<"readPending">>, <<"transition">>},
               Begin(r, op, a, fields, program)
        PROVE  SInv' /\ (OInv => OInv')
    <2>1. /\ P(op, program).op = op /\ P(op, program).todo = program
          /\ ~Has(P(op, program), "copyDate") /\ ~Proposes(P(op, program))
      BY <1>1, <1>3, Holding DEF Proposes
    <2> QED
      BY <1>3, <2>1, BegunParts
  <1>4. ASSUME NEW p \in Providers, BeginAssign(r, p) PROVE SInv' /\ (OInv => OInv')
    <2> DEFINE program == <<"transition", "createAssignment", "supersede", "clearDate",
                            "createSchedule", "applyQuote">>
               fields == [chosen |-> p]
               begun == P("assign", program)
    <2>1. Begin(r, "assign", Customer, fields, program) /\ DOMAIN fields = {"chosen"}
      BY <1>4 DEF BeginAssign
    <2>2. begun.op = "assign" /\ begun.todo = program
      BY <1>1
    <2>3. /\ ~Has(begun, "copyDate") /\ Has(begun, "clearDate")
          /\ Has(begun, "supersede") /\ ~Has(begun, "supersedeRows")
      BY <2>2, Holding
    <2> HIDE DEF begun, fields, program
    <2> QED
      BY <2>1, <2>2, <2>3, BegunParts
  <1>5. ASSUME NEW a \in Parties, BeginPropose(r, a) PROVE SInv' /\ (OInv => OInv')
    <2> DEFINE program == <<"supersede", "clearDate", "createSchedule">>
               begun == P("propose", program)
    <2>1. Begin(r, "propose", a, none, program)
      BY <1>5 DEF BeginPropose
    <2>2. begun.op = "propose" /\ begun.todo = program
      BY <1>1
    <2>3. /\ ~Has(begun, "copyDate") /\ Has(begun, "clearDate")
          /\ Has(begun, "supersede") /\ ~Has(begun, "supersedeRows")
      BY <2>2, Holding
    <2> HIDE DEF begun, none, program
    <2> QED
      BY <1>2, <2>1, <2>2, <2>3, BegunParts
  <1>6. \A x : DOMAIN [asg |-> x] = {"asg"}
    OBVIOUS
  <1>7. ASSUME NEW a \in Parties, BeginCancel(r, a) PROVE SInv' /\ (OInv => OInv')
    BY <1>2, <1>3, <1>7 DEF BeginCancel
  <1>8. ASSUME NEW p \in Providers, BeginAccept(r, p) PROVE SInv' /\ (OInv => OInv')
    BY <1>3, <1>6, <1>8 DEF BeginAccept
  <1>9. ASSUME NEW p \in Providers, BeginReject(r, p) PROVE SInv' /\ (OInv => OInv')
    BY <1>3, <1>6, <1>9 DEF BeginReject
  <1>10. ASSUME NEW a \in Parties, BeginConfirm(r, a) PROVE SInv' /\ (OInv => OInv')
    BY <1>2, <1>3, <1>10 DEF BeginConfirm
  <1>11. ASSUME NEW p \in Providers, BeginMarkComplete(r, p) PROVE SInv' /\ (OInv => OInv')
    BY <1>2, <1>3, <1>11 DEF BeginMarkComplete
  <1>12. CASE BeginConfirmCompletion(r)
    BY <1>2, <1>3, <1>12 DEF BeginConfirmCompletion
  <1> QED
    BY <1>4, <1>5, <1>7, <1>8, <1>9, <1>10, <1>11, <1>12 DEF Start

\* What a commit leaves.
LEMMA CommitRows ==
    ASSUME IInv, NEW r \in Requests, Commit(r)
    PROVE  /\ proc'[r] = Idle /\ \A q \in Requests \ {r} : proc'[q] = proc[q]
           /\ DOMAIN writes'[r] = {} /\ \A q \in Requests \ {r} : writes'[q] = writes[q]
           /\ \A x \in Schedules \cup {BookingRow} :
                 db'[x] = IF x \in DOMAIN writes[r] THEN writes[r][x] ELSE db[x]
           /\ \A stmt : ~Has(proc[r], stmt)
           /\ \A q \in Requests \ {r} : \A x \in DOMAIN writes[q] : x \notin DOMAIN writes[r]
  <1>1. proc'[r] = Idle /\ \A q \in Requests \ {r} : proc'[q] = proc[q]
    BY Commits
  <1>2. /\ DOMAIN writes'[r] = {} /\ \A q \in Requests \ {r} : writes'[q] = writes[q]
        /\ \A x \in Rows : db'[x] = View(r, x)
        /\ proc[r].todo = <<>>
    BY DEF IInv, Pending, Commit, NoWrites
  <1>3. \A x \in Schedules \cup {BookingRow} :
           db'[x] = IF x \in DOMAIN writes[r] THEN writes[r][x] ELSE db[x]
    BY <1>2 DEF Rows, View
  <1>4. \A stmt : ~Has(proc[r], stmt)
    BY <1>2 DEF Has
  <1>5. \A q \in Requests \ {r} : \A x \in DOMAIN writes[q] : x \notin DOMAIN writes[r]
    BY DEF IInv, RowsAreLocked
  <1> QED
    BY <1>1, <1>2, <1>3, <1>4, <1>5

\* The rows of a commit join the committed ones; what others hold stays apart from both.
LEMMA CommitParts ==
    ASSUME IInv, SInv, NEW r \in Requests, Commit(r)
    PROVE  SInv'
  <1> DEFINE p == proc[r]
             held == writes[r]
  <1>0. Part(p, held, db) /\ \A stmt : ~Has(p, stmt)
    BY CommitRows DEF SInv
  <1>1. \A s \in Schedules : db'[s] = IF s \in DOMAIN held THEN held[s] ELSE db[s]
    BY CommitRows
  <1>2. /\ Proposing(held) <=> \E s \in Scheduled(held) : held[s].status = "PENDING"
        /\ Agreeing(p, held) <=> \E s \in Scheduled(held) : held[s].status = "CONFIRMED"
    BY <1>0 DEF Proposing, Agreeing
  <1>3. \A s \in Scheduled(held) : held[s].status = "CONFIRMED" => s = p.sch
    BY <1>0 DEF Part, SchedulesHeld, Added, Replaced, Agreed
  <1>4. ASSUME NEW s \in Schedules, NEW t \in Schedules, db'[s].status \in Open,
               db'[s].status = db'[t].status
        PROVE  s = t
    <2> SUFFICES ASSUME s # t PROVE FALSE
      OBVIOUS
    <2>1. CASE s \notin DOMAIN held /\ t \notin DOMAIN held
      BY <1>1, <1>4, <2>1 DEF SInv, OneScheduleEach
    <2>2. CASE db'[s].status = "PENDING"
      BY <1>0, <1>1, <1>4, <2>1, <2>2 DEF Part, OnlyProposed, Scheduled
    <2>3. CASE db'[s].status = "CONFIRMED"
      BY <1>0, <1>1, <1>2, <1>3, <1>4, <2>1, <2>3 DEF Part, OnlyAgreed, Scheduled
    <2> QED
      BY <1>4, <2>2, <2>3 DEF Open
  <1>5. OneScheduleEach'
    BY <1>4 DEF OneScheduleEach
  <1>6. ASSUME NEW q \in Requests PROVE Part(proc'[q], writes'[q], db')
    <2>1. CASE q = r
      <3>1. /\ Idle.sch = None /\ ~Proposes(Idle) /\ ~Looks(Idle) /\ ~Dated(Idle)
            /\ ~Has(Idle, "copyDate")
        BY DEF Idle, Proposes, Takes, Looks, Has, Dated
      <3>2. proc'[q] = Idle /\ DOMAIN writes'[q] = {}
        BY <2>1, CommitRows
      <3> QED
        BY <3>1, <3>2, Unwritten DEF Scheduled
    <2>2. CASE q # r
      <3> DEFINE u == proc[q]
                 own == writes[q]
      <3>1. /\ proc'[q] = u /\ writes'[q] = own /\ Part(u, own, db)
            /\ \A x \in DOMAIN own : x \notin DOMAIN held
        BY <2>2, CommitRows DEF SInv
      <3>2. Apart(q, r)
        BY <2>2 DEF SInv
      <3>3. \A s \in Scheduled(own) : db'[s] = db[s]
        BY <1>1, <3>1 DEF Scheduled
      <3>4. BookingRow \in DOMAIN own => db'[BookingRow] = db[BookingRow]
        BY <3>1, CommitRows
      <3>5. SchedulesHeld(u, own, db')
        BY <3>1, <3>3 DEF Part, SchedulesHeld, Added, Replaced, Agreed
      <3>6. OnlyProposed(own, db')
        BY <1>1, <1>2, <3>1, <3>2 DEF Part, OnlyProposed, Apart, Proposing, Scheduled
      <3>7. OnlyAgreed(u, own, db')
        BY <1>1, <1>2, <3>1, <3>2 DEF Part, OnlyAgreed, Apart, Scheduled
      <3>8. DateHeld(u, own, db')
        BY <3>1, <3>4 DEF Part, DateHeld
      <3> QED
        BY <3>1, <3>5, <3>6, <3>7, <3>8 DEF Part
    <2> QED
      BY <2>1, <2>2
  <1>7. ASSUME NEW q \in Requests, NEW t \in Requests, q # t PROVE Apart(q, t)'
    <2>1. /\ ~Proposing(writes'[r]) /\ ~Agreeing(proc'[r], writes'[r])
          /\ \A x \in Requests \ {r} : proc'[x] = proc[x] /\ writes'[x] = writes[x]
      BY CommitRows DEF Proposing, Agreeing, Scheduled
    <2>2. Apart(q, t)
      BY <1>7 DEF SInv
    <2> QED
      BY <2>1, <2>2 DEF Apart
  <1> QED
    BY <1>5, <1>6, <1>7 DEF SInv

\* A request that proposed commits the only open schedule; one that took a date commits
\* the date with it; the others open none.
LEMMA CommitOpen ==
    ASSUME IInv, SInv, SInv', OInv, OneProposer, NEW r \in Requests, Commit(r)
    PROVE  OInv'
  <1> DEFINE p == proc[r]
             held == writes[r]
  <1>0. Part(p, held, db) /\ OpenHeld(p, held, db) /\ \A stmt : ~Has(p, stmt)
    BY CommitRows DEF SInv, OInv
  <1>1. /\ \A s \in Schedules : db'[s] = IF s \in DOMAIN held THEN held[s] ELSE db[s]
        /\ db'[BookingRow] = IF BookingRow \in DOMAIN held THEN held[BookingRow] ELSE db[BookingRow]
    BY CommitRows
  <1>2. ~Supersedes(p)
    BY <1>0 DEF Supersedes
  <1>3. ASSUME \/ \A q \in Requests \ {r} : ~Proposes(proc[q])
               \/ \A s \in Schedules : db'[s].status \in Open => db[s].status \in Open
        PROVE  \A q \in Requests : OpenHeld(proc'[q], writes'[q], db')
    <2> SUFFICES ASSUME NEW q \in Requests PROVE OpenHeld(proc'[q], writes'[q], db')
      OBVIOUS
    <2>1. CASE q = r
      <3>1. proc'[q] = Idle /\ ~Proposes(Idle)
        BY <2>1, CommitRows DEF Idle, Proposes
      <3> QED
        BY <3>1 DEF OpenHeld
    <2>2. CASE q # r
      <3>1. proc'[q] = proc[q] /\ writes'[q] = writes[q] /\ OpenHeld(proc[q], writes[q], db)
        BY <2>2, CommitRows DEF OInv
      <3> QED
        BY <1>3, <2>2, <3>1 DEF OpenHeld
    <2> QED
      BY <2>1, <2>2
  <1>4. CASE Proposes(p)
    <2>1. \A q \in Requests \ {r} : ~Proposes(proc[q])
      BY <1>4 DEF OneProposer
    <2>2. ASSUME NEW s \in Schedules, db'[s].status \in Open PROVE db'[s].status = "PENDING"
      <3>1. s \in DOMAIN held
        BY <1>0, <1>1, <1>2, <1>4, <2>2 DEF OpenHeld
      <3>2. Added(p, held, db, s) \/ Replaced(p, held, db, s) \/ Agreed(p, held, db, s)
        BY <1>0, <3>1 DEF Part, SchedulesHeld, Scheduled
      <3>3. ~Takes(p)
        BY <1>4 DEF Proposes, Takes
      <3> QED
        BY <1>1, <2>2, <3>1, <3>2, <3>3 DEF Added, Replaced, Agreed, Open
    <2>3. OneOpenSchedule'
      BY <2>2 DEF SInv, OneScheduleEach, OneOpenSchedule
    <2>4. DateMirrorsConfirmedSchedule'
      BY <2>2 DEF DateMirrorsConfirmedSchedule, Open
    <2> QED
      BY <1>3, <2>1, <2>3, <2>4 DEF OInv
  <1>5. CASE ~Proposes(p)
    <2>1. \A s \in Scheduled(held) : Agreed(p, held, db, s)
      BY <1>0, <1>5 DEF Part, SchedulesHeld, Added, Replaced
    <2>2. \A s \in Schedules : db'[s].status \in Open => db[s].status \in Open
      BY <1>1, <2>1 DEF Scheduled, Agreed, Open
    <2>3. OneOpenSchedule'
      BY <2>2 DEF OInv, OneOpenSchedule
    <2>4. ASSUME NEW s \in Schedules, db'[s].status = "CONFIRMED" PROVE db'[BookingRow].date = s
      <3>1. CASE s \in DOMAIN held
        <4>1. Takes(p) /\ s = p.sch
          BY <2>1, <3>1 DEF Scheduled, Agreed
        <4>2. Dated(p)
          BY <1>0, <4>1, TransactionsAssumption DEF Dated
        <4> QED
          BY <1>0, <1>1, <1>5, <4>1, <4>2 DEF Part, DateHeld
      <3>2. CASE s \notin DOMAIN held
        <4>1. db[s].status = "CONFIRMED" /\ db[BookingRow].date = s
          BY <1>1, <2>4, <3>2 DEF OInv, DateMirrorsConfirmedSchedule, booking
        <4>2. ~Dated(p)
          <5> SUFFICES ASSUME Dated(p) PROVE FALSE
            OBVIOUS
          <5>1. Takes(p) /\ p.sch \in Schedules \cap DOMAIN held
            BY <1>0, <1>5 DEF Dated, Part, AgreedHeld, ConfirmedBy
          <5>2. db[p.sch].status = "PENDING"
            BY <2>1, <5>1 DEF Scheduled, Agreed
          <5>3. p.sch = s
            BY <4>1, <5>1, <5>2 DEF OInv, OneOpenSchedule, Open
          <5> QED
            BY <3>2, <5>1, <5>3
        <4> QED
          BY <1>0, <1>1, <4>1, <4>2 DEF Part, DateHeld
      <3> QED
        BY <3>1, <3>2
    <2>5. DateMirrorsConfirmedSchedule'
      BY <2>4 DEF DateMirrorsConfirmedSchedule, booking
    <2> QED
      BY <1>3, <2>2, <2>3, <2>5 DEF OInv
  <1> QED
    BY <1>4, <1>5

\* Every step keeps the schedules apart, and those that are open in turn.
LEMMA SchedulesStep ==
    ASSUME IInv, LInv, SInv, [Next]_vars
    PROVE  SInv' /\ (OInv /\ OneProposer => OInv')
  <1>1. CASE UNCHANGED vars
    BY <1>1 DEF vars, SInv, OInv, OneScheduleEach, Apart, OneOpenSchedule,
                DateMirrorsConfirmedSchedule, booking
  <1>2. ASSUME NEW r \in Requests, Start(r) PROVE SInv' /\ (OInv => OInv')
    BY <1>2, StartParts
  <1>3. ASSUME NEW r \in Requests,
               \/ TransitionStatus(r) \/ CreateAssignment(r) \/ FindActiveAssignment(r)
               \/ CloseAssignment(r) \/ WithdrawAssignment(r) \/ SupersedeSnapshot(r)
               \/ SupersedeRows(r) \/ ClearConfirmedDate(r) \/ CopyConfirmedDate(r)
               \/ ApplyQuote(r) \/ CreateSchedule(r) \/ CloseSchedule(r)
               \/ FindPendingSchedule(r) \/ ReadPendingSchedule(r) \/ CheckConfirmedIndex(r)
        PROVE  SInv' /\ (OInv => OInv')
    BY <1>3, StatusParts, AssignmentParts, FindActiveParts, SnapshotParts, SupersedeParts,
       DateParts, CreateParts, CloseParts, LookParts, IndexParts
  <1>4. ASSUME NEW r \in Requests,
               \/ LosesRace(r) \/ LosesToIndex(r) \/ UniqueViolationEscapes(r)
               \/ DeadlockAborts(r) \/ TransactionLost(r)
        PROVE  SInv' /\ (OInv => OInv')
    <2>1. Rollback(r)
      BY <1>4 DEF LosesRace, LosesToIndex, UniqueViolationEscapes, DeadlockAborts, TransactionLost
    <2> QED
      BY <2>1, RolledBackParts
  <1>5. ASSUME NEW r \in Requests, Commit(r) PROVE SInv' /\ (OInv /\ OneProposer => OInv')
    BY <1>5, CommitParts, CommitOpen
  <1> QED
    BY <1>1, <1>2, <1>3, <1>4, <1>5 DEF Next, Statement

\* No schedule is open at first.
LEMMA FirstSchedules == Init => SInv /\ OInv /\ OneProposer
  <1> SUFFICES ASSUME Init PROVE SInv /\ OInv /\ OneProposer
    OBVIOUS
  <1>1. \A s \in Schedules : db[s].status = "FREE"
    BY TransactionsAssumption DEF Init, Rows
  <1>2. OneScheduleEach /\ OneOpenSchedule /\ DateMirrorsConfirmedSchedule
    BY <1>1 DEF OneScheduleEach, OneOpenSchedule, DateMirrorsConfirmedSchedule, Open
  <1>3. /\ Idle.sch = None /\ ~Proposes(Idle) /\ ~Looks(Idle) /\ ~Dated(Idle)
        /\ ~Has(Idle, "copyDate")
    BY DEF Idle, Proposes, Takes, Looks, Has, Dated
  <1>4. \A r \in Requests : proc[r] = Idle /\ DOMAIN writes[r] = {}
    BY DEF Init, NoWrites
  <1>5. ASSUME NEW r \in Requests
        PROVE  /\ Part(proc[r], writes[r], db)
               /\ ~Proposing(writes[r]) /\ ~Agreeing(proc[r], writes[r])
               /\ OpenHeld(proc[r], writes[r], db)
    <2>1. Part(proc[r], writes[r], db) /\ ~Proposing(writes[r]) /\ ~Agreeing(proc[r], writes[r])
      BY <1>3, <1>4, Unwritten DEF Scheduled
    <2>2. OpenHeld(proc[r], writes[r], db)
      BY <1>3, <1>4 DEF OpenHeld
    <2> QED
      BY <2>1, <2>2
  <1>6. SInv /\ OInv
    BY <1>2, <1>5 DEF SInv, OInv, Apart
  <1>7. OneProposer
    BY <1>3, <1>4 DEF OneProposer
  <1> QED
    BY <1>6, <1>7

\* What every request has written of the schedules and of the date, whom the partial
\* indexes have let through, and what is committed of them.
THEOREM SchedulesInvariance == Spec => []SInv
  <1>1. Init => SInv
    BY FirstSchedules
  <1>2. IInv /\ LInv /\ SInv /\ [Next]_vars => SInv'
    BY SchedulesStep
  <1> QED
    BY <1>1, <1>2, Invariance, PlansInvariance, PTL DEF Spec

\* "At most ONE outstanding proposal per booking", and never two agreed dates, whatever
\* proposals, confirmations and reassignments overlap (the two partial unique indexes).
THEOREM OneOfEach == Spec => []OneScheduleEach
  <1>1. SInv => OneScheduleEach
    BY DEF SInv
  <1> QED
    BY <1>1, SchedulesInvariance, PTL

\* While proposals come one at a time, whatever else overlaps them.  Nothing in the code sees to
\* that: the two lemmas after this one say where the drift of OneOpenSchedule comes from, from
\* proposals that overlap and nowhere else.
LEMMA InTurn == InTurnSpec => [](IInv /\ LInv /\ SInv /\ OInv /\ OneProposer)
  <1>1. Init => IInv /\ LInv /\ SInv /\ OInv /\ OneProposer
    BY Initial, FirstLife, FirstSchedules
  <1>2. ASSUME IInv /\ LInv /\ SInv /\ OInv /\ OneProposer, [Next /\ OneProposer']_vars
        PROVE  (IInv /\ LInv /\ SInv /\ OInv /\ OneProposer)'
    <2>1. [Next]_vars
      BY <1>2
    <2>2. OneProposer'
      BY <1>2 DEF vars, OneProposer
    <2> QED
      BY <1>2, <2>1, <2>2, StepLemma, PlansStep, SchedulesStep
  <1> QED
    BY <1>1, <1>2, PTL DEF InTurnSpec

\* supersedeOpenSchedules leaves a booking with one open schedule, a proposal or an agreed
\* date, whatever confirmations, cancellations and answers overlap the one who proposes.
LEMMA OneOpenInTurn == InTurnSpec => []OneOpenSchedule
  <1>1. OInv => OneOpenSchedule
    BY DEF OInv
  <1> QED
    BY <1>1, InTurn, PTL

\* And then bookings.confirmed_date cannot drift from the schedule that is CONFIRMED.
LEMMA DateMirroredInTurn == InTurnSpec => []DateMirrorsConfirmedSchedule
  <1>1. OInv => DateMirrorsConfirmedSchedule
    BY DEF OInv
  <1> QED
    BY <1>1, InTurn, PTL

-----------------------------------------------------------------------------
(* What is closed, and what is recorded of it. *)

\* No step moves a closed booking, whatever the request that takes it once read.
LEMMA ClosedStep ==
    ASSUME IInv, LInv, [Next]_vars, booking.status \in Machine!Terminal
    PROVE  Stays(db, db')
  <1>1. ASSUME NEW op \in Ops, NEW p, Step(op, p) PROVE FALSE
    <2>1. Machine!CanTransition(booking.status, ToStatus[op])
      BY <1>1 DEF Step
    <2> QED
      BY <2>1 DEF Machine!CanTransition, Machine!Transitions, Machine!Terminal
  <1>2. CASE UNCHANGED db
    BY <1>2 DEF Stays, SameBooking
  <1> QED
    BY <1>1, <1>2, PlansStep

\* Of a closed booking nothing moves but its dates: the part of "nothing may change after
\* these" that the version of the status update keeps for the assignments, too.
THEOREM ClosedButForDates == Spec => OnlyDatesChangeAfterTerminal
  <1> DEFINE Keeps == booking.status \in Machine!Terminal =>
                          /\ \A column \in {"status", "version", "quotedBy", "trail"} :
                                booking'[column] = booking[column]
                          /\ \A a \in Assignments : db'[a] = db[a]
  <1>1. ASSUME IInv, LInv, [Next]_vars PROVE Keeps
    <2> SUFFICES ASSUME booking.status \in Machine!Terminal PROVE Keeps
      OBVIOUS
    <2>1. Stays(db, db')
      BY <1>1, ClosedStep
    <2> QED
      BY <2>1 DEF Stays, SameBooking, booking
  <1>2. IInv /\ LInv /\ [Next]_vars => [Keeps]_vars
    BY <1>1
  <1> QED
    BY <1>2, Invariance, PlansInvariance, PTL DEF Spec, OnlyDatesChangeAfterTerminal

\* Completed work stays completed, and with whoever did it.
LEMMA WorkStays ==
    ASSUME IInv, LInv, [Next]_vars, WorkCompleted
    PROVE  WorkCompleted' /\ Workers' = Workers
  <1>1. Stays(db, db')
    BY ClosedStep DEF WorkCompleted, Machine!Terminal
  <1>2. booking'.status = booking.status /\ \A a \in Assignments : db'[a] = db[a]
    BY <1>1 DEF Stays, SameBooking, booking
  <1> QED
    BY <1>2 DEF WorkCompleted, Workers

\* Behind the requests that record something the booking behaves as it does on its own,
\* so that everything proved of it holds there.
THEOREM BookingBehindSettlement == SettlementSpec => Spec
  <1>1. SettlementInit => Init
    BY DEF SettlementInit
  <1>2. [SettlementNext]_settlementVars => [Next]_vars
    BY DEF SettlementNext, settlementVars, vars, Settle, RecordPayment, CreateReview, Decides,
           InsertPayment, InsertReview, AlreadyRecorded, RecordingLost, Leaves
  <1> QED
    BY <1>1, <1>2, PTL DEF SettlementSpec, Spec

\* Whoever is about to record something has found completed work, and it still is; whoever
\* is about to review it names the provider who still has the job.
Recording ==
    \A c \in Recorders :
        /\ recording[c] # NotRecording => WorkCompleted
        /\ recording[c].into = "reviews" => recording[c].who \in Workers
StInv == SettlementTypeOK /\ Recording /\ SettlesCompletedWork

LEMMA WorkersProvide == LInv => Workers \subseteq Providers
  BY DEF LInv, Assigned, Workers, Active

\* A step of the booking leaves what is recorded true.
LEMMA BookingMoves ==
    ASSUME IInv, LInv, StInv, [Next]_vars, UNCHANGED settlement
    PROVE  StInv'
  <1>1. WorkCompleted => WorkCompleted' /\ Workers' = Workers
    BY WorkStays
  <1>2. payments' = payments /\ reviews' = reviews /\ recording' = recording
    BY DEF settlement
  <1>3. SettlementTypeOK'
    BY <1>2 DEF StInv, SettlementTypeOK
  <1>4. Recording'
    BY <1>1, <1>2 DEF StInv, Recording, NotRecording
  <1>5. SettlesCompletedWork'
    <2>1. reviews = <<>> => DOMAIN reviews = {}
      OBVIOUS
    <2> QED
      BY <1>1, <1>2, <2>1 DEF StInv, SettlesCompletedWork
  <1> QED
    BY <1>3, <1>4, <1>5 DEF StInv

\* What a request has decided is true when it decides it ...
LEMMA RecordingBegins ==
    ASSUME StInv, LInv, NEW c \in Recorders, NEW table \in {"payments", "reviews"}, NEW who,
           Decides(c, table, who),
           table = "payments" => who = None,
           table = "reviews" => who \in Workers
    PROVE  StInv'
  <1> DEFINE new == [into |-> table, who |-> who]
  <1>1. /\ WorkCompleted /\ db' = db /\ payments' = payments /\ reviews' = reviews
        /\ recording' = [recording EXCEPT ![c] = new]
    BY DEF Decides, vars
  <1>2. WorkCompleted' = WorkCompleted /\ Workers' = Workers
    BY <1>1 DEF WorkCompleted, Workers, booking
  <1>3. SettlesCompletedWork'
    BY <1>1, <1>2 DEF StInv, SettlesCompletedWork
  <1>4. \/ new = [into |-> "payments", who |-> None]
        \/ new \in [into : {"reviews"}, who : Providers]
    BY WorkersProvide
  <1>5. \A d \in Recorders : recording'[d] = IF d = c THEN new ELSE recording[d]
    BY <1>1 DEF StInv, SettlementTypeOK
  <1>6. SettlementTypeOK'
    BY <1>1, <1>4, <1>5 DEF StInv, SettlementTypeOK
  <1>7. new.into = "reviews" => new.who \in Workers
    OBVIOUS
  <1>8. Recording'
    <2> HIDE DEF new
    <2> QED
      BY <1>1, <1>2, <1>5, <1>7 DEF StInv, Recording
  <1> QED
    BY <1>3, <1>6, <1>8 DEF StInv

\* ... and when its row is inserted, before which the index lets nobody else in.
LEMMA RecordingEnds ==
    ASSUME StInv, NEW c \in Recorders, Leaves(c), recording[c] # NotRecording,
           \/ payments' = payments /\ reviews' = reviews
           \/ InsertPayment(c)
           \/ InsertReview(c)
    PROVE  StInv'
  <1>1. db' = db /\ recording' = [recording EXCEPT ![c] = NotRecording]
    BY DEF Leaves, vars
  <1>2. WorkCompleted' = WorkCompleted /\ Workers' = Workers
    BY <1>1 DEF WorkCompleted, Workers, booking
  <1>3. /\ WorkCompleted
        /\ recording[c].into = "reviews" => recording[c].who \in Workers \cap Providers
    BY DEF StInv, Recording, SettlementTypeOK, NotRecording
  <1>4. \A d \in Recorders : recording'[d] = IF d = c THEN NotRecording ELSE recording[d]
    BY <1>1 DEF StInv, SettlementTypeOK
  <1>5. Recording'
    BY <1>1, <1>2, <1>4 DEF StInv, Recording, NotRecording
  <1>6. DOMAIN recording' = Recorders
    BY <1>1 DEF StInv, SettlementTypeOK
  <1>7. CASE payments' = payments /\ reviews' = reviews
    BY <1>2, <1>4, <1>5, <1>6, <1>7
       DEF StInv, SettlementTypeOK, SettlesCompletedWork
  <1>8. CASE InsertPayment(c)
    <2>1. payments = 0 /\ payments' = 1 /\ reviews' = reviews
      BY <1>8 DEF InsertPayment, Taken, StInv, SettlementTypeOK
    <2>2. SettlementTypeOK'
      BY <1>4, <1>6, <2>1 DEF StInv, SettlementTypeOK
    <2>3. SettlesCompletedWork'
      BY <1>2, <1>3, <2>1 DEF StInv, SettlesCompletedWork
    <2> QED
      BY <1>5, <2>2, <2>3 DEF StInv
  <1>9. CASE InsertReview(c)
    <2>1. /\ reviews = <<>> /\ reviews' = Append(reviews, recording[c].who)
          /\ payments' = payments /\ recording[c].into = "reviews"
      BY <1>9 DEF InsertReview, Taken, StInv, SettlementTypeOK
    <2>2. /\ reviews' \in Seq(Providers) /\ Len(reviews') = 1
          /\ \A i \in DOMAIN reviews' : reviews'[i] \in Workers
      BY <1>3, <2>1 DEF StInv, SettlementTypeOK
    <2>3. SettlementTypeOK'
      BY <1>4, <1>6, <2>1, <2>2 DEF StInv, SettlementTypeOK
    <2>4. SettlesCompletedWork'
      BY <1>2, <1>3, <2>1, <2>2 DEF StInv, SettlesCompletedWork
    <2> QED
      BY <1>5, <2>3, <2>4 DEF StInv
  <1> QED
    BY <1>7, <1>8, <1>9

\* However many requests record something at once, and however many booking requests are
\* under way, what they have decided and what they have inserted stays true.
THEOREM SettlementInvariance == SettlementSpec => []StInv
  <1>1. SettlementInit => StInv
    <2> SUFFICES ASSUME SettlementInit PROVE StInv
      OBVIOUS
    <2>1. payments = 0 /\ reviews = <<>> /\ recording = [c \in Recorders |-> NotRecording]
      BY DEF SettlementInit
    <2>2. SettlementTypeOK /\ SettlesCompletedWork
      BY <2>1 DEF SettlementTypeOK, SettlesCompletedWork
    <2>3. Recording
      BY <2>1 DEF Recording, NotRecording
    <2> QED
      BY <2>2, <2>3 DEF StInv
  <1>2. ASSUME IInv, LInv, StInv, [SettlementNext]_settlementVars PROVE StInv'
    <2>1. CASE Next /\ UNCHANGED settlement
      BY <1>2, <2>1, BookingMoves
    <2>2. CASE UNCHANGED settlementVars
      BY <1>2, <2>2, BookingMoves DEF settlementVars, settlement, vars
    <2>3. ASSUME NEW c \in Recorders, Settle(c) PROVE StInv'
      <3>1. CASE RecordPayment(c)
        BY <1>2, <3>1, RecordingBegins DEF RecordPayment
      <3>2. CASE CreateReview(c)
        <4>1. PICK x \in Accepted : Decides(c, "reviews", db[x].provider)
          BY <3>2 DEF CreateReview
        <4>2. db[x].provider \in Workers
          BY DEF Accepted, Workers
        <4> QED
          BY <1>2, <4>1, <4>2, RecordingBegins
      <3>3. CASE InsertPayment(c) \/ InsertReview(c)
        BY <1>2, <3>3, RecordingEnds DEF InsertPayment, InsertReview, NotRecording
      <3>4. CASE AlreadyRecorded(c) \/ RecordingLost(c)
        BY <1>2, <3>4, RecordingEnds DEF AlreadyRecorded, RecordingLost, NotRecording
      <3> QED
        BY <2>3, <3>1, <3>2, <3>3, <3>4 DEF Settle
    <2> QED
      BY <1>2, <2>1, <2>2, <2>3 DEF SettlementNext
  <1> QED
    BY <1>1, <1>2, Invariance, PlansInvariance, BookingBehindSettlement, PTL
       DEF SettlementSpec

\* BR6 and BR7 hold of a booking that was read statements before the row was inserted, and
\* "unique indexes refuse a second payment or review", for any number of requests.
THEOREM SettledForCompletedWork == SettlementSpec => []SettlesCompletedWork
  <1>1. StInv => SettlesCompletedWork
    BY DEF StInv
  <1> QED
    BY <1>1, SettlementInvariance, PTL

=============================================================================
