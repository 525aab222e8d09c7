------------------------------ MODULE Offerings ------------------------------
(***************************************************************************)
(* The offerings of one provider for one service: price versions, areas,    *)
(* withdrawal, under concurrent requests.                                   *)
(*                                                                          *)
(* A new price closes the open version and inserts the next one in one      *)
(* transaction, which holds the closed row until it commits.  The areas are  *)
(* replaced outside any transaction.                                        *)
(***************************************************************************)
EXTENDS Naturals, Sequences

CONSTANTS
    Editors,      \* slots for the requests in flight (bound)
    Rows,         \* the rows of offerings (bound)
    Areas,
    Minimums,     \* the least quantities a version may ask for
    MaxVersions   \* bound: versions of an offering

ASSUME OfferingsAssumption == Minimums \subseteq Nat /\ MaxVersions \in Nat

VARIABLES
    offerings,    \* per row: status, areas, and the versions in the order of their numbers
    edits         \* per request, the next statement and what it holds

FreeRow == [status |-> "FREE", areas |-> {}, versions |-> <<>>]
NoEdit == [step |-> "none", row |-> CHOOSE o \in Rows : TRUE, version |-> 0,
           minimum |-> 0, areas |-> {}]

Opened(m) == [minimum |-> m, open |-> TRUE]
Exists(o) == offerings[o].status # "FREE"
OpenVersions(o) == {n \in DOMAIN offerings[o].versions : offerings[o].versions[n].open}

\* The price every read of the offering brings.
Current(o) == CHOOSE n \in OpenVersions(o) : TRUE

\* A transaction has closed a version of this offering and not committed.
Repricing(o) == \E r \in Editors : edits[r].step = "next" /\ edits[r].row = o

StartEdit(r, edit) == edits[r] = NoEdit /\ edits' = [edits EXCEPT ![r] = edit]
EndEdit(r) == edits' = [edits EXCEPT ![r] = NoEdit]

-----------------------------------------------------------------------------
\* One transaction: the offering, its first version, its areas.  The unique index on
\* active offerings of a service refuses a second one.
CreateOffering(o, m, areas) ==
    /\ ~Exists(o)
    /\ \A p \in Rows : offerings[p].status # "ACTIVE"
    /\ offerings' = [offerings EXCEPT ![o] =
          [status |-> "ACTIVE", areas |-> areas, versions |-> <<Opened(m)>>]]
    /\ UNCHANGED edits

Withdraw(o) ==
    /\ Exists(o)
    /\ offerings' = [offerings EXCEPT ![o].status = "WITHDRAWN"]
    /\ UNCHANGED edits

\* The update of the open version picks the row it will wait for.
PublishVersion(r, o, m) ==
    /\ Exists(o)
    /\ Len(offerings[o].versions) < MaxVersions
    /\ StartEdit(r, [NoEdit EXCEPT !.step = "close", !.row = o, !.version = Current(o),
                                   !.minimum = m])
    /\ UNCHANGED offerings

\* count === 0: repriced by someone else.  (Mutant: the count is not looked at.)
Regardless(r) == TRUE
StillCurrent(r) == offerings[edits[r].row].versions[edits[r].version].open

CloseCurrentVersion(r) ==
    /\ edits[r].step = "close"
    /\ ~Repricing(edits[r].row)
    /\ IF StillCurrent(r) THEN edits' = [edits EXCEPT ![r].step = "next"] ELSE EndEdit(r)
    /\ UNCHANGED offerings

\* The highest number plus one, inserted; commit.
Repriced(r) ==
    LET e == edits[r] IN
    [offerings EXCEPT ![e.row].versions =
        Append([@ EXCEPT ![e.version].open = FALSE], Opened(e.minimum))]

NextVersion(r) ==
    /\ edits[r].step = "next"
    /\ offerings' = Repriced(r)
    /\ EndEdit(r)

\* replaceAreas: everything is deleted in one statement ...
SetAreas(r, o, areas) ==
    /\ Exists(o)
    /\ StartEdit(r, [NoEdit EXCEPT !.step = "areas", !.row = o, !.areas = areas])
    /\ offerings' = [offerings EXCEPT ![o].areas = {}]

\* ... and inserted in another, which fails as a whole on a row that is there already.
AreasInserted(r) ==
    LET e == edits[r] IN
    /\ e.step = "areas"
    /\ offerings' = [offerings EXCEPT ![e.row].areas =
                        IF e.areas \cap @ = {} THEN @ \cup e.areas ELSE @]
    /\ EndEdit(r)

\* The process dies or loses the database: an open transaction is rolled back.
EditLost(r) ==
    /\ edits[r] # NoEdit
    /\ EndEdit(r)
    /\ UNCHANGED offerings

-----------------------------------------------------------------------------
OfferingsInit ==
    /\ offerings = [o \in Rows |-> FreeRow]
    /\ edits = [r \in Editors |-> NoEdit]

OfferingsNext ==
    \/ \E o \in Rows :
          \/ \E m \in Minimums, areas \in SUBSET Areas : CreateOffering(o, m, areas)
          \/ Withdraw(o)
          \/ \E r \in Editors :
                \/ \E m \in Minimums : PublishVersion(r, o, m)
                \/ \E areas \in SUBSET Areas : SetAreas(r, o, areas)
    \/ \E r \in Editors :
          CloseCurrentVersion(r) \/ NextVersion(r) \/ AreasInserted(r) \/ EditLost(r)

OfferingsSpec == OfferingsInit /\ [][OfferingsNext]_<<offerings, edits>>

-----------------------------------------------------------------------------
(* Properties. *)

\* "NULL means this is the current version.  Exactly one per offering": however
\* publications overlap, the open version is the last one, and numbers have no gap.
OneCurrentVersion ==
    \A o \in Rows : Exists(o) => OpenVersions(o) = {Len(offerings[o].versions)}

=============================================================================
