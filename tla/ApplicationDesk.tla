--------------------------- MODULE ApplicationDesk ---------------------------
(***************************************************************************)
(* The application of a provider between its own page and the review queue:  *)
(* what the handlers answer (each as a whole; module Onboarding has their     *)
(* writes one by one) and which buttons the two pages offer.                 *)
(***************************************************************************)
EXTENDS FleetDesk

NewApplication == [stage |-> "REGISTERED", base |-> FALSE]

\* Before the first answer the page shows nothing to press.
NoApplication == [NewApplication EXCEPT !.stage = "UNKNOWN"]

\* The application twice: a press of one of its buttons leaves the others enabled, as if
\* they were on a page of their own.
ApplicationPages == {"application", "again", "queue"}

\* EDITABLE and COVERAGE_EDITABLE of the page; the service has the same lists.
ProfileStages == {"REGISTERED", "PROFILE_COMPLETE", "DOCUMENTS_SUBMITTED", "REJECTED"}
CoverageStages == ProfileStages \cup {"ACTIVATED"}

-----------------------------------------------------------------------------
(* Handlers. *)

\* The details, which are not followed here, are written before the transition is tried.
\* DOCUMENTS_SUBMITTED does not allow it: the caller gets an error for what has been saved.
SavesInVain(a) == a.stage = "DOCUMENTS_SUBMITTED"
SaveProfile(a) ==
    Granted(a.stage \in ProfileStages /\ ~SavesInVain(a),
            [a EXCEPT !.stage = "PROFILE_COMPLETE"])

\* Only the base is kept: the radius decides nothing here.
LacksBase(a, part) == "radius" \in part /\ "base" \notin part /\ ~a.base
SaveCoverage(a, part) ==
    Granted(a.stage \in CoverageStages /\ ~LacksBase(a, part),
            [a EXCEPT !.base = @ \/ "base" \in part])

\* The documents themselves are followed in module Onboarding.
RequestUpload(a) == Granted(a.stage \in ProfileStages, a)

ConfirmUpload(a) ==
    {[a EXCEPT !.stage = IF @ = "PROFILE_COMPLETE" THEN "DOCUMENTS_SUBMITTED" ELSE @]}

SubmitApplication(a) ==
    Granted(a.stage = "DOCUMENTS_SUBMITTED", [a EXCEPT !.stage = "UNDER_REVIEW"])

DecideApplication(a, stage) ==
    Granted(a.stage = "UNDER_REVIEW", [a EXCEPT !.stage = stage])

ApplicationAnswer(step, arg, a) ==
    CASE step = "profile"  -> SaveProfile(a)
      [] step = "coverage" -> SaveCoverage(a, arg)
      [] step = "request"  -> RequestUpload(a)
      [] step = "confirm"  -> ConfirmUpload(a)
      [] step = "submit"   -> SubmitApplication(a)
      [] step = "activate" -> DecideApplication(a, "ACTIVATED")
      [] step = "reject"   -> DecideApplication(a, "REJECTED")

-----------------------------------------------------------------------------
(* Pages. *)

\* (Mutants: the details stay open under review; they are locked once documents are in,
\* or a rejection.)
OpenForLonger(view) == view.stage # "ACTIVATED"
LockedForGood(view) == view.stage \in ProfileStages \ {"REJECTED"}
EditableStage(view) == view.stage \in ProfileStages

ApplicationPageOffers(act, view) ==
    \/ act \in {"profile", "upload"} /\ EditableStage(view)
    \/ act = "coverage" /\ view.stage \in CoverageStages
    \/ act = "submit" /\ view.stage = "DOCUMENTS_SUBMITTED"

QueuePageOffers(act, view) == act \in {"activate", "reject"} /\ view.stage = "UNDER_REVIEW"

ApplicationOffers(page, act, view) ==
    IF page = "queue" THEN QueuePageOffers(act, view) ELSE ApplicationPageOffers(act, view)

ApplicationActs == {"profile", "coverage", "upload", "submit", "activate", "reject"}

\* hasBase: the radius can be set once there is a base, saved or picked.  It keeps its value
\* when the pick is cleared, and the form can be sent without one.
ApplicationArgs(act) == IF act = "coverage" THEN SUBSET {"base", "radius"} ELSE {{}}

\* uploadDocument: a request before the upload, and one after it.
ApplicationSteps(act) == IF act = "upload" THEN <<"request", "confirm">> ELSE <<act>>

Undecided(a) == a.stage \notin {"ACTIVATED", "SUSPENDED"}
=============================================================================
