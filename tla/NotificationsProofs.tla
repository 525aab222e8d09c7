------------------------- MODULE NotificationsProofs -------------------------
(***************************************************************************)
(* Whoever holds a booking, or held it when the customer cancelled, is told *)
(* of it once every event has been dealt with; and nobody is told of what   *)
(* was done after it had declined or been left.  For any number of handlers, *)
(* providers and tokens.                                                    *)
(***************************************************************************)
EXTENDS Notifications, TLAPS

USE DEF MayPush

ActRecord ==
    [kind : {"assign", "reject", "negotiate", "complete", "cancel"},
     by : {"CUSTOMER", "PROVIDER"}, provider : Providers \cup {None},
     told : Organisations \cup {None},
     step : {"committed", "emitted", "written", "sending", "pruning", "done", "lost"},
     targets : SUBSET Tokens]

TypeOK ==
    /\ assigned \in Providers \cup {None}
    /\ acts \in Seq(ActRecord)

\* What act a has to say reaches p: it is still to be said, said to p, in p's row, or lost.
Heading(a, p) ==
    \/ acts[a].step = "committed"
    \/ acts[a].step = "emitted" /\ acts[a].told = p
    \/ acts[a].step = "lost"
    \/ <<a, p>> \in rows

\* Whose assignment it was: the act that gave it to them is heading for them, since the
\* booking that its event loads again is still theirs.
HolderIsToBeTold ==
    assigned # None =>
        \E a \in Acts : acts[a].kind = "assign" /\ acts[a].by = "CUSTOMER" /\ Heading(a, assigned)

\* A cancellation speaks of the booking as it was.
CancelledIsToBeTold ==
    \A a \in Acts :
        (acts[a].kind = "cancel" /\ acts[a].by = "CUSTOMER" /\ acts[a].provider # None)
            => Heading(a, acts[a].provider)

\* Whoever holds the booking held it at each act, or was given it after.
HeldSince == assigned # None => \A a \in Acts : Held(a, assigned)

\* Whom an event names, and whom a row is addressed to, held it then or later.
TellsHolders ==
    \A a \in Acts : \A p \in Providers :
        (acts[a].step = "emitted" /\ acts[a].told = p) \/ <<a, p>> \in rows => Held(a, p)

RowsOfActs == \A a, p : <<a, p>> \in rows => a \in Acts

IInv ==
    /\ TypeOK
    /\ HolderIsToBeTold /\ CancelledIsToBeTold
    /\ HeldSince /\ TellsHolders /\ RowsOfActs

-----------------------------------------------------------------------------
\* A commit adds an act at the end and leaves the others alone.
LEMMA CommitAdds ==
    ASSUME TypeOK, NEW kind \in {"assign", "reject", "negotiate", "complete", "cancel"},
           NEW by \in {"CUSTOMER", "PROVIDER"}, NEW provider \in Providers \cup {None},
           Commit(kind, by, provider)
    PROVE  /\ acts' \in Seq(ActRecord) /\ UNCHANGED <<rows, devices>>
           /\ Acts' = Acts \cup {Len(acts) + 1}
           /\ Len(acts) + 1 \notin Acts
           /\ \A a \in Acts : acts'[a] = acts[a]
           /\ acts'[Len(acts) + 1].kind = kind /\ acts'[Len(acts) + 1].by = by
           /\ acts'[Len(acts) + 1].provider = provider
           /\ acts'[Len(acts) + 1].step = "committed"
  <1>1. Act(kind, by, provider) \in ActRecord
    BY DEF Act, ActRecord
  <1>2. /\ Act(kind, by, provider).kind = kind /\ Act(kind, by, provider).by = by
        /\ Act(kind, by, provider).provider = provider
        /\ Act(kind, by, provider).step = "committed"
    BY DEF Act
  <1>3. acts' = Append(acts, Act(kind, by, provider)) /\ UNCHANGED <<rows, devices>>
    BY DEF Commit
  <1> QED
    BY <1>1, <1>2, <1>3 DEF TypeOK, Acts

\* So what was heading for somebody is, and the new act is the only other.
LEMMA CommitKeeps ==
    ASSUME IInv, NEW kind \in {"assign", "reject", "negotiate", "complete", "cancel"},
           NEW by \in {"CUSTOMER", "PROVIDER"}, NEW provider \in Providers \cup {None},
           Commit(kind, by, provider),
           \/ assigned' = None
           \/ assigned' = assigned /\ provider = assigned
           \/ assigned' \in Providers /\ kind = "assign" /\ by = "CUSTOMER" /\ provider = assigned'
    PROVE  IInv'
  <1>1. /\ acts' \in Seq(ActRecord) /\ UNCHANGED <<rows, devices>>
        /\ Acts' = Acts \cup {Len(acts) + 1}
        /\ Len(acts) + 1 \notin Acts
        /\ \A a \in Acts : acts'[a] = acts[a]
        /\ acts'[Len(acts) + 1].kind = kind /\ acts'[Len(acts) + 1].by = by
        /\ acts'[Len(acts) + 1].provider = provider
        /\ acts'[Len(acts) + 1].step = "committed"
    BY CommitAdds DEF IInv
  <1>2. TypeOK'
    BY <1>1 DEF IInv, TypeOK
  <1>3. HolderIsToBeTold'
    <2>1. CASE kind = "assign" /\ by = "CUSTOMER" /\ provider = assigned'
      <3>1. PICK n : n = Len(acts) + 1
        OBVIOUS
      <3>2. n \in Acts' /\ Heading(n, assigned)'
        BY <1>1, <3>1 DEF Heading
      <3> QED
        BY <1>1, <2>1, <3>1, <3>2 DEF HolderIsToBeTold
    <2>2. CASE assigned' \in {None, assigned}
      <3> SUFFICES ASSUME assigned # None, assigned' = assigned PROVE HolderIsToBeTold'
        BY <2>2 DEF HolderIsToBeTold
      <3>1. PICK a \in Acts : /\ acts[a].kind = "assign" /\ acts[a].by = "CUSTOMER"
                              /\ Heading(a, assigned)
        BY DEF IInv, HolderIsToBeTold
      <3>2. a \in Acts' /\ acts'[a] = acts[a] /\ Heading(a, assigned)'
        BY <1>1, <3>1 DEF Heading
      <3> QED
        BY <3>1, <3>2 DEF HolderIsToBeTold
    <2> QED
      BY <2>1, <2>2
  <1>4. CancelledIsToBeTold'
    BY <1>1 DEF IInv, CancelledIsToBeTold, Heading
  <1>5. RowsOfActs'
    BY <1>1 DEF IInv, RowsOfActs
  <1>6. \A a \in Acts : \A p : Held(a, p) => Held(a, p)'
    BY <1>1 DEF Held
  <1>7. HeldSince'
    <2> SUFFICES ASSUME assigned' # None, NEW a \in Acts' PROVE Held(a, assigned)'
      BY DEF HeldSince
    <2>1. CASE a = Len(acts) + 1 \/ assigned' = assigned
      BY <1>1, <1>6, <2>1 DEF IInv, HeldSince, Held
    <2>2. CASE a # Len(acts) + 1 /\ assigned' # assigned
      BY <1>1, <2>2 DEF Held, Acts, IInv, TypeOK
    <2> QED
      BY <2>1, <2>2
  <1>8. TellsHolders'
    BY <1>1, <1>6 DEF IInv, TellsHolders, RowsOfActs
  <1> QED
    BY <1>2, <1>3, <1>4, <1>5, <1>7, <1>8 DEF IInv

\* One act goes on: its step, whom it tells and its tokens change, and nothing else.
Goes(a, step, told, targets) ==
    acts' = [acts EXCEPT ![a].step = step, ![a].told = told, ![a].targets = targets]

LEMMA GoesTyped ==
    ASSUME TypeOK, NEW a \in Acts,
           NEW step \in {"committed", "emitted", "written", "sending", "pruning", "done", "lost"},
           NEW told \in Organisations \cup {None}, NEW targets \in SUBSET Tokens,
           Goes(a, step, told, targets)
    PROVE  /\ acts' \in Seq(ActRecord) /\ Acts' = Acts
           /\ \A b \in Acts : b # a => acts'[b] = acts[b]
           /\ \A b \in Acts : /\ acts'[b].kind = acts[b].kind /\ acts'[b].by = acts[b].by
                              /\ acts'[b].provider = acts[b].provider
           /\ acts'[a].step = step /\ acts'[a].told = told /\ acts'[a].targets = targets
  <1> DEFINE new == [acts[a] EXCEPT !.step = step, !.told = told, !.targets = targets]
  <1>1. acts[a] \in ActRecord
    BY DEF TypeOK, Acts
  <1>2. /\ new \in ActRecord /\ new.kind = acts[a].kind /\ new.by = acts[a].by
        /\ new.provider = acts[a].provider
        /\ new.step = step /\ new.told = told /\ new.targets = targets
    BY <1>1 DEF ActRecord
  <1>3. acts' = [acts EXCEPT ![a] = new]
    BY <1>1 DEF Goes, TypeOK, Acts, ActRecord
  <1> HIDE DEF new
  <1> QED
    BY <1>2, <1>3 DEF TypeOK, Acts

\* Whom an act of the customer's is about.
Concerns(a, p) ==
    /\ acts[a].by = "CUSTOMER"
    /\ \/ acts[a].kind = "assign" /\ p = assigned
       \/ acts[a].kind = "cancel" /\ p = acts[a].provider

\* Of that nobody loses what is heading for them, if it is not taken from the act itself.
LEMMA GoesKeeps ==
    ASSUME IInv, NEW a \in Acts,
           NEW step \in {"committed", "emitted", "written", "sending", "pruning", "done", "lost"},
           NEW told \in Organisations \cup {None}, NEW targets \in SUBSET Tokens,
           Goes(a, step, told, targets), UNCHANGED assigned,
           rows' \in {rows, rows \cup {<<a, acts[a].told>>}},
           rows' # rows => acts[a].step = "emitted",
           step = "emitted" => told \in {Customer, acts[a].provider, assigned},
           \A p \in Providers : Concerns(a, p) /\ Heading(a, p) =>
               \/ step = "emitted" /\ told = p
               \/ step = "lost"
               \/ <<a, p>> \in rows'
    PROVE  IInv'
  <1>1. TypeOK /\ TypeOK'
    BY GoesTyped DEF IInv, TypeOK
  <1>2. /\ Acts' = Acts
        /\ \A b \in Acts : b # a => acts'[b] = acts[b]
        /\ \A b \in Acts : /\ acts'[b].kind = acts[b].kind /\ acts'[b].by = acts[b].by
                           /\ acts'[b].provider = acts[b].provider
        /\ acts'[a].step = step /\ acts'[a].told = told /\ acts'[a].targets = targets
    BY <1>1, GoesTyped
  <1>3. HolderIsToBeTold'
    <2> SUFFICES ASSUME assigned # None
                 PROVE  HolderIsToBeTold'
      BY DEF HolderIsToBeTold
    <2>1. PICK b \in Acts : acts[b].kind = "assign" /\ acts[b].by = "CUSTOMER" /\ Heading(b, assigned)
      BY DEF IInv, HolderIsToBeTold
    <2>2. assigned \in Providers
      BY <1>1 DEF TypeOK
    <2>3. \/ acts'[b].step = "committed"
          \/ acts'[b].step = "emitted" /\ acts'[b].told = assigned
          \/ acts'[b].step = "lost"
          \/ <<b, assigned>> \in rows'
      BY <1>2, <2>1, <2>2 DEF Heading, Concerns
    <2> QED
      BY <1>2, <2>1, <2>3 DEF HolderIsToBeTold, Heading
  <1>4. CancelledIsToBeTold'
    <2> SUFFICES ASSUME NEW b \in Acts, acts[b].kind = "cancel", acts[b].by = "CUSTOMER",
                        acts[b].provider # None
                 PROVE  \/ acts'[b].step = "committed"
                        \/ acts'[b].step = "emitted" /\ acts'[b].told = acts[b].provider
                        \/ acts'[b].step = "lost"
                        \/ <<b, acts[b].provider>> \in rows'
      BY <1>2 DEF CancelledIsToBeTold, Heading
    <2>1. acts[b] \in ActRecord
      BY <1>1 DEF TypeOK, Acts
    <2>2. acts[b].provider \in Providers
      BY <2>1 DEF ActRecord
    <2>3. Heading(b, acts[b].provider)
      BY DEF IInv, CancelledIsToBeTold
    <2> QED
      BY <1>2, <2>2, <2>3 DEF Heading, Concerns
  <1>5. RowsOfActs'
    BY <1>2 DEF IInv, RowsOfActs
  <1>6. \A b \in Acts : \A p : Held(b, p)' <=> Held(b, p)
    BY <1>2 DEF Held
  <1>7. HeldSince'
    BY <1>2, <1>6 DEF IInv, HeldSince
  <1>8. TellsHolders'
    <2> SUFFICES ASSUME NEW b \in Acts, NEW p \in Providers,
                        \/ acts'[b].step = "emitted" /\ acts'[b].told = p
                        \/ <<b, p>> \in rows'
                 PROVE  Held(b, p)
      BY <1>2, <1>6 DEF TellsHolders
    <2>1. CASE \/ <<b, p>> \in rows
               \/ acts[b].step = "emitted" /\ acts[b].told = p
      BY <2>1 DEF IInv, TellsHolders
    <2>2. CASE b = a /\ step = "emitted" /\ told = p /\ p \in {acts[a].provider, assigned}
      BY <2>2, NotificationsAssumption DEF Held, IInv, HeldSince
    <2>3. CASE <<b, p>> \in rows' \ rows
      <3>1. b = a /\ acts[a].told = p /\ acts[a].step = "emitted"
        BY <2>3
      <3> QED
        BY <2>1, <3>1
    <2>4. CASE b # a /\ acts'[b].step = "emitted" /\ acts'[b].told = p
      BY <1>2, <2>1, <2>4
    <2>5. CASE b = a /\ acts'[b].step = "emitted" /\ acts'[b].told = p
      BY <1>2, <2>2, <2>5, NotificationsAssumption
    <2> QED
      BY <2>1, <2>3, <2>4, <2>5
  <1> QED
    BY <1>1, <1>3, <1>4, <1>5, <1>7, <1>8 DEF IInv

-----------------------------------------------------------------------------
\* The event, the row, the push and its answer, the pruning, and what a crash leaves.
LEMMA ProcessKeeps ==
    ASSUME IInv, NEW a \in Acts,
           Process(a) \/ (\E dead \in SUBSET Tokens : PushAnswered(a, dead)) \/ Lose(a)
    PROVE  IInv'
  <1> USE NotificationsAssumption
  <1>0. acts[a] \in ActRecord
    BY DEF IInv, TypeOK, Acts
  <1>1. /\ acts[a].told \in Organisations \cup {None} /\ acts[a].targets \in SUBSET Tokens
        /\ acts[a].provider \in Providers \cup {None}
        /\ assigned \in Providers \cup {None}
    BY <1>0 DEF ActRecord, IInv, TypeOK
  <1>2. ASSUME NEW step, NEW targets, acts' = [acts EXCEPT ![a].step = step, ![a].targets = targets]
        PROVE  Goes(a, step, acts[a].told, targets)
    BY <1>0, <1>2 DEF Goes, ActRecord, IInv, TypeOK, Acts
  <1>3. CASE Emit(a)
    <2>1. Recipient(a) \in Organisations \cup {None}
      BY <1>1 DEF Recipient, EventProvider, Organisations
    <2>2. Goes(a, "emitted", Recipient(a), acts[a].targets)
      BY <1>0, <1>3 DEF Emit, Goes, ActRecord, IInv, TypeOK, Acts
    <2>3. \A p \in Providers : Concerns(a, p) => Recipient(a) = p
      BY DEF Recipient, EventProvider, Concerns
    <2>4. Recipient(a) \in {Customer, acts[a].provider, assigned}
      BY DEF Recipient, EventProvider
    <2>5. UNCHANGED <<assigned, rows>> /\ acts[a].step = "committed"
      BY <1>3 DEF Emit, booking
    <2> QED
      BY <1>1, <2>1, <2>2, <2>3, <2>4, <2>5, GoesKeeps
  <1>4. CASE WriteRow(a)
    <2>1. UNCHANGED assigned /\ acts[a].step = "emitted"
      BY <1>4 DEF WriteRow, booking
    <2>2. CASE acts[a].told = None
      <3>1. Goes(a, "done", None, {}) /\ UNCHANGED rows
        BY <1>2, <1>4, <2>2 DEF WriteRow, Finish
      <3>2. \A p \in Providers : Heading(a, p) => <<a, p>> \in rows'
        BY <2>1, <2>2, <3>1 DEF Heading
      <3> QED
        BY <2>1, <3>1, <3>2, GoesKeeps
    <2>3. CASE acts[a].told # None
      <3>1. /\ Goes(a, "written", acts[a].told, acts[a].targets)
            /\ rows' = rows \cup {<<a, acts[a].told>>}
        BY <1>0, <1>4, <2>3 DEF WriteRow, Go, Goes, ActRecord, IInv, TypeOK, Acts
      <3>2. \A p \in Providers : Heading(a, p) => <<a, p>> \in rows'
        BY <2>1, <3>1 DEF Heading
      <3> QED
        BY <1>1, <2>1, <3>1, <3>2, GoesKeeps
    <2> QED
      BY <2>2, <2>3
  <1>5. CASE PushToOrganisation(a)
    <2> DEFINE targets == {t \in Tokens : devices[t] = acts[a].told}
               step == IF targets = {} THEN "done" ELSE "sending"
    <2>1. Goes(a, step, acts[a].told, targets)
      BY <1>2, <1>5 DEF PushToOrganisation
    <2>2. UNCHANGED <<assigned, rows>> /\ acts[a].step = "written"
      BY <1>5 DEF PushToOrganisation, booking
    <2>3. targets \in SUBSET Tokens /\ step \in {"done", "sending"}
      OBVIOUS
    <2>4. \A p \in Providers : Heading(a, p) => <<a, p>> \in rows'
      BY <2>2 DEF Heading
    <2> HIDE DEF targets, step
    <2> QED
      BY <1>1, <2>1, <2>2, <2>3, <2>4, GoesKeeps
  <1>6. ASSUME NEW dead \in SUBSET Tokens, PushAnswered(a, dead) PROVE IInv'
    <2> DEFINE step == IF dead = {} THEN "done" ELSE "pruning"
    <2>1. Goes(a, step, acts[a].told, dead) /\ step \in {"done", "pruning"}
      BY <1>2, <1>6 DEF PushAnswered
    <2>2. UNCHANGED <<assigned, rows>> /\ acts[a].step = "sending"
      BY <1>6 DEF PushAnswered, booking
    <2>3. \A p \in Providers : Heading(a, p) => <<a, p>> \in rows'
      BY <2>2 DEF Heading
    <2> HIDE DEF step
    <2> QED
      BY <1>1, <2>1, <2>2, <2>3, GoesKeeps
  <1>7. CASE PruneDeadTokens(a)
    <2>1. Goes(a, "done", acts[a].told, {})
      BY <1>2, <1>7 DEF PruneDeadTokens, Finish
    <2>2. UNCHANGED <<assigned, rows>> /\ acts[a].step = "pruning"
      BY <1>7 DEF PruneDeadTokens, booking
    <2>3. \A p \in Providers : Heading(a, p) => <<a, p>> \in rows'
      BY <2>2 DEF Heading
    <2> QED
      BY <1>1, <2>1, <2>2, <2>3, GoesKeeps
  <1>8. CASE Lose(a)
    <2>1. UNCHANGED <<assigned, rows>>
      BY <1>8 DEF Lose, booking
    <2>2. CASE acts[a].step \in {"committed", "emitted"}
      <3>1. Goes(a, "lost", acts[a].told, {})
        BY <1>2, <1>8, <2>2 DEF Lose, Finish
      <3> QED
        BY <1>1, <2>1, <3>1, GoesKeeps
    <2>3. CASE acts[a].step \notin {"committed", "emitted"}
      <3>1. Goes(a, "done", acts[a].told, {}) /\ acts[a].step # "lost"
        BY <1>2, <1>8, <2>3 DEF Lose, Finish, Ended
      <3>2. \A p \in Providers : Heading(a, p) => <<a, p>> \in rows'
        BY <2>1, <2>3, <3>1 DEF Heading
      <3> QED
        BY <1>1, <2>1, <3>1, <3>2, GoesKeeps
    <2> QED
      BY <2>2, <2>3
  <1> QED
    BY <1>3, <1>4, <1>5, <1>6, <1>7, <1>8 DEF Process

\* A handler takes the booking to somebody with an act that says so, or from somebody.
LEMMA HandlerKeeps ==
    ASSUME IInv, Handler
    PROVE  IInv'
  <1>1. assigned \in Providers \cup {None} /\ None \in Providers \cup {None}
    BY DEF IInv, TypeOK
  <1>2. ASSUME NEW p \in Providers, Assign(p) PROVE IInv'
    BY <1>2, CommitKeeps DEF Assign
  <1>3. CASE Reject
    BY <1>1, <1>3, CommitKeeps DEF Reject
  <1>4. ASSUME NEW by \in {"CUSTOMER", "PROVIDER"}, Negotiate(by) PROVE IInv'
    BY <1>1, <1>4, CommitKeeps DEF Negotiate, booking
  <1>5. CASE ConfirmCompletion
    BY <1>1, <1>5, CommitKeeps DEF ConfirmCompletion
  <1>6. ASSUME NEW by \in {"CUSTOMER", "PROVIDER"}, Cancel(by) PROVE IInv'
    BY <1>1, <1>6, CommitKeeps DEF Cancel
  <1> QED
    BY <1>2, <1>3, <1>4, <1>5, <1>6 DEF Handler

\* The inductive invariant.
THEOREM Invariance == Spec => []IInv
  <1>1. Init => IInv
    BY NotificationsAssumption
    DEF Init, IInv, TypeOK, HolderIsToBeTold, CancelledIsToBeTold, HeldSince, TellsHolders,
        RowsOfActs, Acts
  <1>2. IInv /\ [Next]_vars => IInv'
    <2> SUFFICES ASSUME IInv, [Next]_vars PROVE IInv'
      OBVIOUS
    <2>1. CASE UNCHANGED <<assigned, acts, rows>>
      <3>1. TypeOK' /\ RowsOfActs'
        BY <2>1 DEF IInv, TypeOK, RowsOfActs, Acts
      <3>2. HolderIsToBeTold' /\ CancelledIsToBeTold'
        BY <2>1 DEF IInv, HolderIsToBeTold, CancelledIsToBeTold, Heading, Acts
      <3>3. \A a, q : Held(a, q)' <=> Held(a, q)
        BY <2>1 DEF Held, Acts
      <3>4. HeldSince' /\ TellsHolders'
        BY <2>1, <3>3 DEF IInv, HeldSince, TellsHolders, Acts
      <3> QED
        BY <3>1, <3>2, <3>4 DEF IInv
    <2>2. ASSUME NEW t \in Tokens, \/ \E o \in Organisations : RegisterDevice(t, o)
                                   \/ UnregisterDevice(t)
          PROVE  IInv'
      BY <2>1, <2>2 DEF RegisterDevice, UnregisterDevice, booking
    <2>3. CASE UNCHANGED vars
      BY <2>1, <2>3 DEF vars
    <2> QED
      BY <2>2, <2>3, HandlerKeeps, ProcessKeeps DEF Next
  <1> QED
    BY <1>1, <1>2, PTL DEF Spec

\* Once every event has been dealt with, whoever holds the booking, or held it when the
\* customer cancelled, has been told.
THEOREM HoldersHear == Spec => []HoldersAreTold
  <1>1. IInv => HoldersAreTold
    <2> SUFFICES ASSUME IInv, \A a \in Acts : acts[a].step = "done"
                 PROVE  HoldersAreTold
      BY DEF HoldersAreTold
    <2>1. \A a \in Acts : \A p : Heading(a, p) => <<a, p>> \in rows
      BY DEF Heading
    <2> QED
      BY <2>1 DEF IInv, HolderIsToBeTold, CancelledIsToBeTold, HoldersAreTold, Told
  <1> QED
    BY <1>1, Invariance, PTL

\* Nobody hears of what is done after it has declined or been left.
THEOREM OnlyHoldersHear == Spec => []OnlyHoldersAreTold
  <1>1. IInv => OnlyHoldersAreTold
    BY DEF IInv, TellsHolders, OnlyHoldersAreTold
  <1> QED
    BY <1>1, Invariance, PTL
=============================================================================
