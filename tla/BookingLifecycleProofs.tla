----------------------- MODULE BookingLifecycleProofs -----------------------
(***************************************************************************)
(* The safety properties of the abstract lifecycle, for any set of          *)
(* providers and any bound on the trail.                                    *)
(***************************************************************************)
EXTENDS BookingLifecycle, TLAPS

\* Every successor in the declared state machine is a status.
LEMMA TransitionsTyped ==
    ASSUME NEW s \in Status, NEW t, CanTransition(s, t)
    PROVE  t \in Status
  BY DEF CanTransition, Transitions, Status

\* A transition keeps the history a sequence of statuses with one entry more.
LEMMA MoveExtends ==
    ASSUME TypeOK, NEW to, Move(to)
    PROVE  /\ to \in Status
           /\ trail' \in Seq(Status) \ {<<>>}
           /\ Len(trail') = Len(trail) + 1
           /\ trail'[Len(trail')] = to
           /\ \A i \in 1 .. Len(trail) : trail'[i] = trail[i]
  <1>1. to \in Status
    BY TransitionsTyped DEF TypeOK, Move
  <1>2. trail \in Seq(Status) /\ trail' = Append(trail, to)
    BY DEF TypeOK, Move
  <1> QED
    BY <1>1, <1>2

-----------------------------------------------------------------------------
\* The variables of the lifecycle keep their types.
THEOREM TypeCorrect == Spec => []TypeOK
  <1>1. Init => TypeOK
    BY DEF Init, TypeOK, Status
  <1>2. TypeOK /\ [Next]_vars => TypeOK'
    <2> SUFFICES ASSUME TypeOK, [Next]_vars PROVE TypeOK'
      OBVIOUS
    <2>1. ASSUME NEW p \in Providers, Assign(p) PROVE TypeOK'
      BY <2>1, MoveExtends DEF Assign, Move, TypeOK
    <2>2. CASE Agree
      BY <2>2, MoveExtends DEF Agree, Move, TypeOK
    <2>3. CASE Reject
      BY <2>3, MoveExtends DEF Reject, Move, TypeOK
    <2>4. CASE Cancel
      BY <2>4, MoveExtends DEF Cancel, Move, TypeOK
    <2>5. CASE MarkComplete
      BY <2>5, MoveExtends DEF MarkComplete, Move, TypeOK
    <2>6. CASE ConfirmCompletion
      BY <2>6, MoveExtends DEF ConfirmCompletion, Move, TypeOK
    <2>7. CASE UNCHANGED vars
      BY <2>7 DEF vars, TypeOK
    <2> QED
      BY <2>1, <2>2, <2>3, <2>4, <2>5, <2>6, <2>7 DEF Next
  <1> QED
    BY <1>1, <1>2, PTL DEF Spec

-----------------------------------------------------------------------------
\* A booking has an unanswered provider exactly while ASSIGNED, an agreed one
\* from SCHEDULED to COMPLETED, and none otherwise.
THEOREM AssignmentConsistent ==
    ASSUME NoProvider \notin Providers
    PROVE  Spec => []StatusMatchesAssignment
  <1>1. Init => StatusMatchesAssignment
    BY DEF Init, StatusMatchesAssignment
  <1>2. TypeOK /\ StatusMatchesAssignment /\ [Next]_vars => StatusMatchesAssignment'
    <2> SUFFICES ASSUME TypeOK, StatusMatchesAssignment, [Next]_vars
                 PROVE  StatusMatchesAssignment'
      OBVIOUS
    <2> USE DEF StatusMatchesAssignment, Move
    <2>1. ASSUME NEW p \in Providers, Assign(p) PROVE StatusMatchesAssignment'
      BY <2>1 DEF Assign
    <2>2. CASE Agree
      BY <2>2 DEF Agree
    <2>3. CASE Reject
      BY <2>3 DEF Reject
    <2>4. CASE Cancel
      BY <2>4 DEF Cancel
    <2>5. CASE MarkComplete
      BY <2>5 DEF MarkComplete
    <2>6. CASE ConfirmCompletion
      <3>1. status = "AWAITING_CONFIRMATION"
        BY <2>6 DEF ConfirmCompletion, CanTransition, Transitions, TypeOK, Status
      <3> QED
        BY <2>6, <3>1 DEF ConfirmCompletion
    <2>7. CASE UNCHANGED vars
      BY <2>7 DEF vars
    <2> QED
      BY <2>1, <2>2, <2>3, <2>4, <2>5, <2>6, <2>7 DEF Next
  <1> QED
    BY <1>1, <1>2, TypeCorrect, PTL DEF Spec

-----------------------------------------------------------------------------
\* The price on the booking is the assigned provider's, and a booking back on
\* the market has none.
THEOREM QuoteConsistent == Spec => []QuoteFollowsProvider
  <1>1. Init => QuoteFollowsProvider
    BY DEF Init, QuoteFollowsProvider
  <1>2. QuoteFollowsProvider /\ [Next]_vars => QuoteFollowsProvider'
    BY DEF QuoteFollowsProvider, Next, Move, Assign, Agree, Reject, Cancel,
           MarkComplete, ConfirmCompletion, vars
  <1> QED
    BY <1>1, <1>2, PTL DEF Spec

-----------------------------------------------------------------------------
\* One transition extends a path to a path.
LEMMA MoveKeepsPath ==
    ASSUME TypeOK, TrailIsAPath, NEW to, Move(to)
    PROVE  TrailIsAPath'
  <1>1. /\ Len(trail) \in Nat \ {0}
        /\ Len(trail') = Len(trail) + 1
        /\ trail'[Len(trail) + 1] = to
        /\ \A i \in 1 .. Len(trail) : trail'[i] = trail[i]
        /\ status' = to /\ CanTransition(status, to)
    BY MoveExtends DEF TypeOK, Move
  <1>2. trail'[1] = "UNASSIGNED" /\ trail'[Len(trail')] = status'
    BY <1>1 DEF TrailIsAPath
  <1>3. ASSUME NEW i \in 1 .. Len(trail') - 1
        PROVE  CanTransition(trail'[i], trail'[i + 1])
    <2>1. CASE i < Len(trail)
      BY <1>1, <2>1 DEF TrailIsAPath
    <2>2. CASE i = Len(trail)
      BY <1>1, <2>2 DEF TrailIsAPath
    <2> QED
      BY <1>1, <2>1, <2>2
  <1> QED
    BY <1>2, <1>3 DEF TrailIsAPath, CanTransition

\* BR16: at every moment the history is a path of the state machine from the
\* creation of the booking to its current status.
THEOREM HistoryIsAPath == Spec => []TrailIsAPath
  <1>1. Init => TrailIsAPath
    BY DEF Init, TrailIsAPath
  <1>2. TypeOK /\ TrailIsAPath /\ [Next]_vars => TrailIsAPath'
    <2> SUFFICES ASSUME TypeOK, TrailIsAPath, [Next]_vars PROVE TrailIsAPath'
      OBVIOUS
    <2>1. CASE \E to : Move(to)
      BY <2>1, MoveKeepsPath
    <2>2. CASE UNCHANGED vars
      BY <2>2 DEF vars, TrailIsAPath
    <2> QED
      BY <2>1, <2>2 DEF Next, Assign, Agree, Reject, Cancel, MarkComplete, ConfirmCompletion
  <1> QED
    BY <1>1, <1>2, TypeCorrect, PTL DEF Spec

-----------------------------------------------------------------------------
\* BR9: a step starts from a status that is not closed, and only adds to the
\* history.
THEOREM ClosedStaysClosed == Spec => TerminalIsFinal
  <1> DEFINE Final == /\ status \notin Terminal
                      /\ trail = SubSeq(trail', 1, Len(trail))
  <1>1. TypeOK /\ [Next]_vars => [Final]_vars
    <2> SUFFICES ASSUME TypeOK, NEW to, Move(to) PROVE Final
      BY DEF Next, Assign, Agree, Reject, Cancel, MarkComplete, ConfirmCompletion
    <2>1. status \notin Terminal
      BY DEF Move, CanTransition, Transitions, Terminal, TypeOK, Status
    <2>2. trail = SubSeq(trail', 1, Len(trail))
      BY MoveExtends DEF TypeOK
    <2> QED
      BY <2>1, <2>2
  <1> QED
    BY <1>1, TypeCorrect, PTL DEF Spec, TerminalIsFinal
=============================================================================
