----------------------------- MODULE AccountPage -----------------------------
(***************************************************************************)
(* The account page: the person, the organisation, the password, the saved   *)
(* field and the push messages of this browser, each with a button and a     *)
(* request of its own; and what the sidebar shows of the account.  The page    *)
(* may be left and opened again: its memory is gone, its requests go on.      *)
(***************************************************************************)
EXTENDS Naturals

CONSTANTS
    Names,        \* of a person or of an organisation
    FirstName,    \* the one both begin with
    FieldPins,    \* where the field may be
    AreaOf,       \* the district of each, or Unset outside the catalogue
    Unset,
    MaxEdits      \* bound: what the user does

ASSUME AccountAssumption ==
    FirstName \in Names /\ Unset \notin FieldPins /\ DOMAIN AreaOf = FieldPins

VARIABLES
    account,     \* what the database holds: the two names
    profile,     \* and the saved field
    shown,       \* the account as the browser knows it
    field,       \* the field in the form
    loads,       \* what has not been answered since the page was opened
    resolves,    \* pins whose district is being looked up
    working,     \* the button that waits: of this visit to the page
    errands,     \* the requests on their way
    push,        \* the browser's permission, what the page says of it, and the registration
    signedOut,   \* the password was changed
    lost,        \* history: an answer was lost
    crossed,     \* history: a name was saved while one saved before the page was left was
                 \* still on its way
    edits

accountVars == <<account, profile, shown, field, loads, resolves, working, errands, push,
                 signedOut, lost, crossed, edits>>

NoField == [pin |-> Unset, area |-> Unset]

Edit == ~signedOut /\ edits < MaxEdits /\ edits' = edits + 1
NoEdit == ~signedOut /\ UNCHANGED edits

-----------------------------------------------------------------------------
(* Opening the page, and leaving it. *)

Everything == {"profile", "areas", "push"}

\* The page is left and opened again: busy is forgotten, and what was sent goes on, also
\* the registration that follows the look at push.
Reopen ==
    /\ Edit
    /\ field' = NoField /\ loads' = Everything /\ resolves' = {} /\ working' = "none"
    /\ errands' = {[errand EXCEPT !.here = FALSE] : errand \in errands}
    /\ \E late \in BOOLEAN :
          push' = [push EXCEPT
              !.says = "loading", !.read = push.permission,
              !.registered = @ \/ (late /\ "push" \in loads /\ push.read = "granted")]
    /\ UNCHANGED <<account, profile, shown, signedOut, lost, crossed>>

\* The saved field, whatever has been picked meanwhile.
ProfileComes ==
    /\ NoEdit /\ "profile" \in loads /\ loads' = loads \ {"profile"}
    /\ field' = [pin |-> IF profile.pin = Unset THEN field.pin ELSE profile.pin,
                 area |-> profile.area]
    /\ UNCHANGED <<account, profile, shown, resolves, working, errands, push, signedOut, lost,
                   crossed>>

\* The states; or either answer fails.
LoadEnds ==
    /\ NoEdit /\ \E load \in loads \ {"push"} : loads' = loads \ {load}
    /\ UNCHANGED <<account, profile, shown, field, resolves, working, errands, push,
                   signedOut, lost, crossed>>

\* A permission given before is followed by a registration, whose failure nobody is told of.
PushChecked(available, registers) ==
    /\ NoEdit /\ "push" \in loads /\ loads' = loads \ {"push"}
    /\ push' = [push EXCEPT
           !.says = IF push.read # "denied" /\ ~available THEN "unavailable" ELSE push.read,
           !.registered = @ \/ (push.read = "granted" /\ available /\ registers)]
    /\ UNCHANGED <<account, profile, shown, field, resolves, working, errands, signedOut, lost,
                   crossed>>

-----------------------------------------------------------------------------
(* The field. *)

\* The district is looked up among the states known by now.
PickField(pin) ==
    /\ Edit
    /\ field' = [field EXCEPT !.pin = pin]
    /\ resolves' = resolves \cup {IF "areas" \in loads THEN Unset ELSE AreaOf[pin]}
    /\ UNCHANGED <<account, profile, shown, loads, working, errands, push, signedOut, lost,
                   crossed>>

ClearFieldPin ==
    /\ Edit /\ field.pin # Unset
    /\ field' = NoField
    /\ UNCHANGED <<account, profile, shown, loads, resolves, working, errands, push,
                   signedOut, lost, crossed>>

\* Nobody asks whether the pin is still there.
FieldResolved(area) ==
    /\ NoEdit /\ area \in resolves /\ resolves' = resolves \ {area}
    /\ field' \in {[field EXCEPT !.area = area], field}
    /\ UNCHANGED <<account, profile, shown, loads, working, errands, push, signedOut, lost,
                   crossed>>

-----------------------------------------------------------------------------
(* The buttons. *)

\* busy disables all of them.  (Mutant: only the one that was pressed.)
UnlessItself(kind) == working # kind
MayPressButton(kind) == working = "none"

\* step: "sent" until the API has written, then "written"; a profile is then read anew.
Errand(kind) == [nr |-> edits, kind |-> kind, name |-> Unset, field |-> NoField,
                 before |-> shown, here |-> TRUE, step |-> "sent"]

\* Those whose answers are shown in the sidebar.
NamesErrand(errand) == errand.kind \in {"profile", "organisation"}

Send(errand) ==
    /\ Edit /\ MayPressButton(errand.kind)
    /\ working' = errand.kind /\ errands' = errands \cup {errand}
    /\ crossed' = (crossed \/ (NamesErrand(errand) /\ \E other \in errands :
                                    NamesErrand(other) /\ ~other.here))
    /\ UNCHANGED <<account, profile, shown, field, loads, resolves, push, signedOut, lost>>

SaveName(name) == Send([Errand("profile") EXCEPT !.name = name])
RenameOrganisation(name) ==
    name # shown.organisation /\ Send([Errand("organisation") EXCEPT !.name = name])
SaveField == Send([Errand("field") EXCEPT !.field = field])
ClearSavedField == field # NoField /\ Send(Errand("clear"))
TurnOnPush == push.says = "default" /\ Send(Errand("push"))
ChangePassword == Send(Errand("password"))

-----------------------------------------------------------------------------
(* Their answers. *)

\* finally: of a page that has been left, it stops nothing.
Ends(errand) ==
    /\ NoEdit /\ errands' = errands \ {errand}
    /\ working' = IF errand.here THEN "none" ELSE working

\* At the API.
Goes(errand, later) == NoEdit /\ errands' = (errands \ {errand}) \cup {later}

ErrandWrites(errand) ==
    /\ errand.kind \in {"profile", "organisation", "field", "clear"} /\ errand.step = "sent"
    /\ Goes(errand, [errand EXCEPT !.step = "written"])
    /\ account' = CASE errand.kind = "profile"      -> [account EXCEPT !.person = errand.name]
                    [] errand.kind = "organisation" -> [account EXCEPT !.organisation = errand.name]
                    [] OTHER                        -> account
    /\ profile' = IF errand.kind \in {"field", "clear"} THEN errand.field ELSE profile
    /\ UNCHANGED <<shown, field, loads, resolves, working, push, signedOut, lost, crossed>>

\* me: what a saved profile is answered with; its other name may be somebody else's work.
AccountRead(errand) ==
    /\ errand.kind = "profile" /\ errand.step = "written"
    /\ Goes(errand, [errand EXCEPT !.step = "read", !.before = account])
    /\ UNCHANGED <<account, profile, shown, field, loads, resolves, working, push, signedOut,
                   lost, crossed>>

\* The profile is answered with the account; a new name of the organisation is put into the
\* account as it was when the button was pressed.
ErrandDone(errand) ==
    /\ errand.step = IF errand.kind = "profile" THEN "read" ELSE "written"
    /\ Ends(errand)
    /\ shown' = CASE errand.kind = "profile"      -> errand.before
                  [] errand.kind = "organisation" -> [errand.before EXCEPT !.organisation = errand.name]
                  [] OTHER                        -> shown
    /\ field' = IF errand.kind = "clear" /\ errand.here THEN NoField ELSE field
    /\ UNCHANGED <<account, profile, loads, resolves, push, signedOut, lost, crossed>>

AnswerGoesMissing(errand) ==
    /\ errand.step # "sent"
    /\ Ends(errand)
    /\ lost' = TRUE
    /\ UNCHANGED <<account, profile, shown, field, loads, resolves, push, signedOut, crossed>>

ErrandFails(errand) ==
    /\ errand.kind # "push" /\ errand.step = "sent"
    /\ Ends(errand)
    /\ UNCHANGED <<account, profile, shown, field, loads, resolves, push, signedOut, lost, crossed>>

\* enablePush: the user's answer, which is asked for once, and then the registration.  A question that is waved away
\* reads as unavailable.
PushAnswered(errand, permission, registers) ==
    /\ errand.kind = "push" /\ push.permission \in {"default", permission}
    /\ Ends(errand)
    /\ push' = [push EXCEPT
           !.permission = permission,
           !.says = IF ~errand.here THEN @
                    ELSE IF permission = "default" \/ (permission = "granted" /\ ~registers)
                         THEN "unavailable" ELSE permission,
           !.registered = @ \/ (permission = "granted" /\ registers)]
    /\ UNCHANGED <<account, profile, shown, field, loads, resolves, signedOut, lost, crossed>>

\* signOut: this browser is not rung any more, if that can be arranged.
PasswordChanged(errand) ==
    /\ errand.kind = "password"
    /\ Ends(errand)
    /\ push' \in {[push EXCEPT !.registered = FALSE], push}
    /\ signedOut' = TRUE
    /\ UNCHANGED <<account, profile, shown, field, loads, resolves, lost, crossed>>

-----------------------------------------------------------------------------
AccountInit ==
    /\ account = [person |-> FirstName, organisation |-> FirstName] /\ shown = account
    /\ profile \in {NoField} \cup {[pin |-> p, area |-> AreaOf[p]] : p \in FieldPins}
    /\ field = NoField
    /\ loads = Everything /\ resolves = {}
    /\ working = "none" /\ errands = {}
    /\ \E permission \in {"default", "granted", "denied"} :
          push = [permission |-> permission, read |-> permission, says |-> "loading",
                  registered |-> FALSE]
    /\ signedOut = FALSE /\ lost = FALSE /\ crossed = FALSE /\ edits = 0

AccountNext ==
    \/ Reopen
    \/ ProfileComes \/ LoadEnds
    \/ \E available, registers \in BOOLEAN : PushChecked(available, registers)
    \/ \E pin \in FieldPins : PickField(pin)
    \/ ClearFieldPin
    \/ \E area \in resolves : FieldResolved(area)
    \/ \E name \in Names : SaveName(name) \/ RenameOrganisation(name)
    \/ SaveField \/ ClearSavedField \/ TurnOnPush \/ ChangePassword
    \/ \E errand \in errands :
          \/ ErrandWrites(errand) \/ AccountRead(errand) \/ ErrandDone(errand)
          \/ AnswerGoesMissing(errand) \/ ErrandFails(errand)
          \/ \E permission \in {"default", "granted", "denied"}, registers \in BOOLEAN :
                PushAnswered(errand, permission, registers)
          \/ PasswordChanged(errand)

AccountSpec == AccountInit /\ [][AccountNext]_accountVars

-----------------------------------------------------------------------------
(* Properties. *)

\* In whatever order its parts are saved, and whenever the page is left, the sidebar shows the
\* account that the database holds once everything is answered, unless an answer was lost, or
\* a name was saved while one saved before the page was left was still on its way.
ShownIsSavedUnlessCrossed == (errands = {} /\ ~lost /\ ~crossed) => shown = account

\* Not so without the exception: an organisation is renamed, the page left and opened again,
\* the profile saved; the old page then shows the account as it was, with the new name in it.
ShownIsSaved == (errands = {} /\ ~lost) => shown = account

\* Not so: the district that is saved is that of the pin saved with it.
AreaOfSavedPin == profile.area # Unset => profile.pin # Unset /\ AreaOf[profile.pin] = profile.area

\* Not so: "On for this browser" is said of a registered browser.
OnIsRegistered == push.says = "granted" => push.registered
==============================================================================
