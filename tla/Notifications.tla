---------------------------- MODULE Notifications ----------------------------
(***************************************************************************)
(* What becomes of a booking's events: who is told, in a row and by push.   *)
(*                                                                          *)
(* A handler commits, loads the booking again, emits the event in process,   *)
(* and is done; the listener then writes the row and calls the push service. *)
(* Nothing of this is retried, and other handlers commit in between.        *)
(***************************************************************************)
EXTENDS Naturals, Sequences

CONSTANTS
    MaxActs,     \* how many handlers commit a change (bound)
    Providers,
    Customer,    \* the customer's organisation
    Tokens,      \* push tokens the browsers obtain (bound)
    None

ASSUME NotificationsAssumption ==
    /\ MaxActs \in Nat
    /\ None \notin Providers \cup {Customer} \cup Tokens
    /\ Customer \notin Providers

VARIABLES
    assigned,    \* the organisation of the active assignment
    closed,      \* completed or cancelled
    acts,        \* the handlers in the order of their commits: what each did, and how far
                 \* its event has come
    rows,        \* the notifications: of which act, to whom
    devices      \* device_tokens: whose each token is

booking == <<assigned, closed>>
vars == <<assigned, closed, acts, rows, devices>>

Organisations == Providers \cup {Customer}

\* provider: the one the transaction found or chose; told: whom the event names.
Act(kind, by, provider) ==
    [kind |-> kind, by |-> by, provider |-> provider, told |-> None,
     step |-> "committed", targets |-> {}]

Acts == DOMAIN acts

Ended == {"done", "lost"}

Go(a, step) == acts' = [acts EXCEPT ![a].step = step]

Finish(a, step) == acts' = [acts EXCEPT ![a].step = step, ![a].targets = {}]

Commit(kind, by, provider) ==
    /\ Len(acts) < MaxActs
    /\ ~closed
    /\ acts' = Append(acts, Act(kind, by, provider))
    /\ UNCHANGED <<rows, devices>>

-----------------------------------------------------------------------------
(* The handlers that emit an event, at their commit. *)

Assign(p) ==
    /\ assigned = None
    /\ Commit("assign", "CUSTOMER", p)
    /\ assigned' = p /\ UNCHANGED closed

Reject ==
    /\ assigned # None
    /\ Commit("reject", "PROVIDER", assigned)
    /\ assigned' = None /\ UNCHANGED closed

\* accept, proposeSchedule, confirmSchedule and markComplete, all of which leave the
\* assignment as it is; a customer can confirm a date without one.
Negotiate(by) ==
    /\ by = "PROVIDER" => assigned # None
    /\ Commit("negotiate", by, assigned)
    /\ UNCHANGED booking

ConfirmCompletion ==
    /\ assigned # None
    /\ Commit("complete", "CUSTOMER", assigned)
    /\ closed' = TRUE /\ UNCHANGED assigned

\* Staff cancel as the customer does.
Cancel(by) ==
    /\ by = "PROVIDER" => assigned # None
    /\ Commit("cancel", by, assigned)
    /\ assigned' = None /\ closed' = TRUE

-----------------------------------------------------------------------------
(* The event. *)

\* Rejections and cancellations speak of the booking as it was before, the others of
\* the booking loaded again.  (Mutants: all load it again; all speak of the newest
\* assignment, whatever has become of it.)
Reloaded(a) == assigned
Newest(a) ==
    LET given == {b \in Acts : acts[b].kind = "assign"} IN
    IF given = {} THEN None ELSE acts[CHOOSE b \in given : \A c \in given : c <= b].provider
EventProvider(a) == IF acts[a].kind \in {"reject", "cancel"} THEN acts[a].provider ELSE assigned

\* The side that did not act.
Recipient(a) ==
    IF acts[a].by = "CUSTOMER" THEN EventProvider(a) ELSE Customer

Emit(a) ==
    /\ acts[a].step = "committed"
    /\ acts' = [acts EXCEPT ![a].step = "emitted", ![a].told = Recipient(a)]
    /\ UNCHANGED <<booking, rows, devices>>

\* deliver: the row; without a recipient there is none, or its insert fails.
WriteRow(a) ==
    /\ acts[a].step = "emitted"
    /\ IF acts[a].told = None
       THEN Finish(a, "done") /\ UNCHANGED rows
       ELSE Go(a, "written") /\ rows' = rows \cup {<<a, acts[a].told>>}
    /\ UNCHANGED <<booking, devices>>

\* ... and then the push.  (Mutant: the push comes first, and the row after its answer.)
PushFirst(a) == acts[a].step = "emitted"
MayPush(a) == acts[a].step = "written"

PushToOrganisation(a) ==
    LET targets == {t \in Tokens : devices[t] = acts[a].told} IN
    /\ MayPush(a)
    /\ acts' = [acts EXCEPT ![a].step = IF targets = {} THEN "done" ELSE "sending",
                            ![a].targets = targets]
    /\ UNCHANGED <<booking, rows, devices>>

\* Its answer, whenever it comes: any of the tokens may come back with a code that counts as
\* dead, "invalid argument" among them, so that a token which works is no exception.
PushAnswered(a, dead) ==
    /\ acts[a].step = "sending"
    /\ dead \subseteq acts[a].targets
    /\ acts' = [acts EXCEPT ![a].step = IF dead = {} THEN "done" ELSE "pruning",
                            ![a].targets = dead]
    /\ UNCHANGED <<booking, rows, devices>>

\* By token alone, whoever has registered it since.
PruneDeadTokens(a) ==
    /\ acts[a].step = "pruning"
    /\ devices' = [t \in Tokens |-> IF t \in acts[a].targets THEN None ELSE devices[t]]
    /\ Finish(a, "done")
    /\ UNCHANGED <<booking, rows>>

\* The process dies, or a statement fails: the event is gone, and if it was not yet in a
\* row nobody will ever hear of it.
Lose(a) ==
    /\ acts[a].step \notin Ended
    /\ Finish(a, IF acts[a].step \in {"committed", "emitted"} THEN "lost" ELSE "done")
    /\ UNCHANGED <<booking, rows, devices>>

-----------------------------------------------------------------------------
(* Browsers. *)

\* Upsert by token: a shared browser goes over to whoever registers it.
RegisterDevice(t, o) ==
    /\ devices' = [devices EXCEPT ![t] = o]
    /\ UNCHANGED <<booking, acts, rows>>

UnregisterDevice(t) ==
    /\ devices' = [devices EXCEPT ![t] = None]
    /\ UNCHANGED <<booking, acts, rows>>

-----------------------------------------------------------------------------
Init ==
    /\ assigned = None
    /\ closed = FALSE
    /\ acts = <<>>
    /\ rows = {}
    /\ devices = [t \in Tokens |-> None]

Handler ==
    \/ \E p \in Providers : Assign(p)
    \/ Reject
    \/ ConfirmCompletion
    \/ \E by \in {"CUSTOMER", "PROVIDER"} : Negotiate(by) \/ Cancel(by)

\* What the API's process does by itself.
Process(a) == Emit(a) \/ WriteRow(a) \/ PushToOrganisation(a) \/ PruneDeadTokens(a)

Next ==
    \/ Handler
    \/ \E a \in Acts :
          \/ Process(a)
          \/ \E dead \in SUBSET Tokens : PushAnswered(a, dead)
          \/ Lose(a)
    \/ \E t \in Tokens :
          \/ \E o \in Organisations : RegisterDevice(t, o)
          \/ UnregisterDevice(t)

Spec == Init /\ [][Next]_vars

\* The process goes on with what it can; the push service may never answer.
FairSpec == Spec /\ \A a \in 1 .. MaxActs : WF_vars(a \in Acts /\ Process(a))

-----------------------------------------------------------------------------
(* Properties. *)

\* Once every event has been dealt with and none was lost, whoever holds the booking has
\* been told of it, although its own assignment's event may have named somebody else; and
\* whoever held it when the customer cancelled has been told of that.
Told(kind, p) == \E a \in Acts : acts[a].kind = kind /\ <<a, p>> \in rows
HoldersAreTold ==
    (\A a \in Acts : acts[a].step = "done") =>
        /\ assigned # None => Told("assign", assigned)
        /\ \A a \in Acts :
              (acts[a].kind = "cancel" /\ acts[a].by = "CUSTOMER" /\ acts[a].provider # None)
                  => <<a, acts[a].provider>> \in rows

\* A provider is told only of what was done while it held the booking, or before it was given
\* the booking, in whatever order the events are dealt with: one that has declined or been
\* left hears no more of what others do.
Held(a, p) ==
    \/ acts[a].provider = p
    \/ \E b \in Acts : b > a /\ acts[b].kind = "assign" /\ acts[b].provider = p
OnlyHoldersAreTold ==
    \A a \in Acts : \A p \in Providers : <<a, p>> \in rows => Held(a, p)

\* A pruning leaves alone the tokens that another organisation has registered since the push
\* was sent.  Violated: the deletion after the answer looks at the token only.
PruningSparesOthers ==
    [][ \A a \in Acts : (acts[a].step = "pruning" /\ acts'[a].step = "done")
            => \A t \in Tokens : devices'[t] # devices[t] => devices[t] = acts[a].told ]_vars

\* "ORDER MATTERS: the row is the notification, the push is a courtesy": an event is
\* recorded even if the push service never answers.
Heard(a) == (\E o \in Organisations : <<a, o>> \in rows) \/ acts[a].step \in Ended
RecordedWithoutPush == \A a \in 1 .. MaxActs : a \in Acts ~> (a \in Acts /\ Heard(a))
=============================================================================
