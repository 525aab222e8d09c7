--------------------------- MODULE AssortmentDesk ---------------------------
(***************************************************************************)
(* What a provider sells, on its services page, and the catalogue of the     *)
(* platform it chooses from: handlers as in module Offerings, each as a      *)
(* whole, and the buttons of the two pages.                                  *)
(***************************************************************************)
EXTENDS ApplicationDesk

CONSTANTS
    Minimums,      \* the smallest job, which stands for the terms
    MaxVersions    \* bound: versions of an offering

NewAssortment == [type |-> "NONE", districts |-> 0, offering |-> "NONE", version |-> 0,
                  minimum |-> 0]

AssortmentPages == {"services", "catalogue"}

-----------------------------------------------------------------------------
(* Handlers. *)

CreateServiceType(s) == Granted(s.type = "NONE", [s EXCEPT !.type = "ACTIVE"])
UpdateServiceType(s, status) == Granted(s.type # "NONE", [s EXCEPT !.type = status])

\* One district is enough to tell an empty state from another.
CreateArea(s) == Granted(TRUE, [s EXCEPT !.districts = 1])

\* The unique index: one ACTIVE offering of a service.  A withdrawn one stays as it is
\* and is not followed further.
CreateOffering(s, minimum) ==
    Granted(s.type = "ACTIVE" /\ s.districts > 0 /\ s.offering # "ACTIVE",
            [s EXCEPT !.offering = "ACTIVE", !.version = 1, !.minimum = minimum])

\* A version replaces all the terms; neither it nor the areas ask for an ACTIVE offering.
PublishVersion(s, minimum) ==
    Granted(s.offering # "NONE" /\ s.version < MaxVersions,
            [s EXCEPT !.version = @ + 1, !.minimum = minimum])
SetAreas(s) == Granted(s.offering # "NONE", s)
Withdraw(s) == Granted(s.offering # "NONE", [s EXCEPT !.offering = "WITHDRAWN"])

AssortmentAnswer(step, arg, s) ==
    CASE step = "type"     -> CreateServiceType(s)
      [] step = "retired"  -> UpdateServiceType(s, "RETIRED")
      [] step = "restored" -> UpdateServiceType(s, "ACTIVE")
      [] step = "area"     -> CreateArea(s)
      [] step = "create"   -> CreateOffering(s, arg)
      [] step = "reprice"  -> PublishVersion(s, arg)
      [] step = "areas"    -> SetAreas(s)
      [] step = "withdraw" -> Withdraw(s)

-----------------------------------------------------------------------------
(* Pages. *)

\* available: the public catalogue has ACTIVE services only, and those on offer are left
\* out.
Available(view) == view.type = "ACTIVE" /\ view.offering # "ACTIVE"

\* AreaPicker: a state opens to its districts, which are what can be selected.
DistrictToSelect(view) == view.districts > 0

\* Publish is disabled until one is.
AddFormOffers(act, view) == act = "create" /\ Available(view) /\ DistrictToSelect(view)

RowOffers(act, view) == act \in {"reprice", "areas", "withdraw"} /\ view.offering = "ACTIVE"

ServiceTypesOffer(act, view) ==
    \/ act = "type"     /\ view.type = "NONE"
    \/ act = "retired"  /\ view.type = "ACTIVE"
    \/ act = "restored" /\ view.type = "RETIRED"

AreasOffer(act) == act = "area"

AssortmentOffers(page, act, view) ==
    IF page = "services" THEN AddFormOffers(act, view) \/ RowOffers(act, view)
    ELSE ServiceTypesOffer(act, view) \/ AreasOffer(act)

AssortmentActs == {"type", "retired", "restored", "area", "create", "reprice", "areas",
                   "withdraw"}

\* openReprice: the form starts from the version that is shown.
AssortmentArgs(act, view) ==
    CASE act = "create"  -> Minimums
      [] act = "reprice" -> Minimums \cup {view.minimum}
      [] OTHER           -> {0}
=============================================================================
