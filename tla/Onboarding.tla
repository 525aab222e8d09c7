----------------------------- MODULE Onboarding -----------------------------
(***************************************************************************)
(* The onboarding of one provider: profile, coverage, documents, review.    *)
(*                                                                          *)
(* A handler reads the provider and decides on the stage it read; its        *)
(* writes follow one by one, outside any transaction, and none of them looks *)
(* at the stage again.  Other handlers run in between, and a crash may come  *)
(* between any two.                                                          *)
(***************************************************************************)
EXTENDS FiniteSets

CONSTANTS
    Applicants,   \* slots for the requests the provider has in flight (bound)
    Reviewers,    \* slots for those of the platform's staff (bound)
    Documents,    \* the rows of documents (bound)
    None

ASSUME OnboardingAssumption == None \notin Documents

VARIABLES
    stage,
    coverage,     \* which of the base and the radius are declared
    documents,    \* FREE, PENDING or READY
    recorded,     \* the latest transition in provider_stage_events
    calls         \* per request, the next write, the stage it read and its arguments

onboarding == <<stage, coverage, documents, recorded, calls>>

Stages == {"REGISTERED", "PROFILE_COMPLETE", "DOCUMENTS_SUBMITTED", "UNDER_REVIEW",
           "ACTIVATED", "REJECTED", "SUSPENDED"}

Transitions == [s \in Stages |->
    CASE s = "REGISTERED"          -> {"PROFILE_COMPLETE"}
      [] s = "PROFILE_COMPLETE"    -> {"DOCUMENTS_SUBMITTED"}
      [] s = "DOCUMENTS_SUBMITTED" -> {"UNDER_REVIEW"}
      [] s = "UNDER_REVIEW"        -> {"ACTIVATED", "REJECTED"}
      [] s = "REJECTED"            -> {"PROFILE_COMPLETE"}
      [] s = "ACTIVATED"           -> {"SUSPENDED"}
      [] s = "SUSPENDED"           -> {"ACTIVATED"}]

Editable == {"REGISTERED", "PROFILE_COMPLETE", "DOCUMENTS_SUBMITTED", "REJECTED"}
CoverageEditable == Editable \cup {"ACTIVATED"}
Bookable == "ACTIVATED"

Calls == Applicants \cup Reviewers
NoCall == [step |-> "none", from |-> "REGISTERED", to |-> "REGISTERED", doc |-> None,
           part |-> {}]

Begin(r, call) == calls[r] = NoCall /\ calls' = [calls EXCEPT ![r] = call]
End(r) == calls' = [calls EXCEPT ![r] = NoCall]

\* The service's transition: refused unless the stage read allows it.
\* (Mutant: a save reopens the application from wherever it is.)
TransitAnyway(r, to) == calls' = [calls EXCEPT ![r].step = "stage", ![r].to = to]
Transit(r, to) ==
    IF to \in Transitions[calls[r].from]
    THEN calls' = [calls EXCEPT ![r].step = "stage", ![r].to = to]
    ELSE End(r)

Declare(part) == coverage' = coverage \cup part

\* "A radius is a distance FROM somewhere": the base is saved or arrives with it.
HasBase(part) == "radius" \in part => "base" \in coverage \cup part

-----------------------------------------------------------------------------
(* The provider's handlers. *)

UpdateOwnProfile(r, part) ==
    /\ stage \in Editable
    /\ HasBase(part)
    /\ Begin(r, [NoCall EXCEPT !.step = "profile", !.from = stage, !.part = part])
    /\ UNCHANGED <<stage, coverage, documents, recorded>>

\* The profile is written before the transition is tried: from DOCUMENTS_SUBMITTED the
\* caller gets an error and the new details stay.
ProfileWritten(r) ==
    /\ calls[r].step = "profile"
    /\ Declare(calls[r].part)
    /\ IF calls[r].from = "PROFILE_COMPLETE" THEN End(r) ELSE Transit(r, "PROFILE_COMPLETE")
    /\ UNCHANGED <<stage, documents, recorded>>

UpdateOwnCoverage(r, part) ==
    /\ stage \in CoverageEditable
    /\ HasBase(part)
    /\ Begin(r, [NoCall EXCEPT !.step = "coverage", !.from = stage, !.part = part])
    /\ UNCHANGED <<stage, coverage, documents, recorded>>

CoverageWritten(r) ==
    /\ calls[r].step = "coverage"
    /\ Declare(calls[r].part)
    /\ End(r)
    /\ UNCHANGED <<stage, documents, recorded>>

RequestDocumentUpload(r, d) ==
    /\ stage \in Editable
    /\ documents[d] = "FREE"
    /\ \A s \in Calls : calls[s].doc # d
    /\ Begin(r, [NoCall EXCEPT !.step = "upload", !.from = stage, !.doc = d])
    /\ UNCHANGED <<stage, coverage, documents, recorded>>

DocumentCreated(r) ==
    /\ calls[r].step = "upload"
    /\ documents' = [documents EXCEPT ![calls[r].doc] = "PENDING"]
    /\ End(r)
    /\ UNCHANGED <<stage, coverage, recorded>>

ConfirmDocumentUpload(r, d) ==
    /\ documents[d] # "FREE"
    /\ Begin(r, [NoCall EXCEPT !.step = "confirm", !.from = stage, !.doc = d])
    /\ UNCHANGED <<stage, coverage, documents, recorded>>

\* The first one also submits the documents.  (Mutant: its row is left as it was.)
LeftPending(d) == documents
Confirmed(d) == [documents EXCEPT ![d] = "READY"]
DocumentReady(r) ==
    /\ calls[r].step = "confirm"
    /\ documents' = Confirmed(calls[r].doc)
    /\ IF calls[r].from = "PROFILE_COMPLETE" THEN Transit(r, "DOCUMENTS_SUBMITTED") ELSE End(r)
    /\ UNCHANGED <<stage, coverage, recorded>>

-----------------------------------------------------------------------------
(* Decisions: the stage is checked as it was read. *)

Decide(r, to) ==
    /\ to \in Transitions[stage]
    /\ Begin(r, [NoCall EXCEPT !.step = "stage", !.from = stage, !.to = to])
    /\ UNCHANGED <<stage, coverage, documents, recorded>>

SubmitForReview(r) == Decide(r, "UNDER_REVIEW")
Activate(r) == Decide(r, "ACTIVATED")
Reject(r) == Decide(r, "REJECTED")

-----------------------------------------------------------------------------
(* ProviderRepository.transition. *)

\* where: { id }, whatever the stage is by now.
StageWritten(r) ==
    /\ calls[r].step = "stage"
    /\ stage' = calls[r].to
    /\ calls' = [calls EXCEPT ![r].step = "event"]
    /\ UNCHANGED <<coverage, documents, recorded>>

EventWritten(r) ==
    /\ calls[r].step = "event"
    /\ recorded' = <<calls[r].from, calls[r].to>>
    /\ End(r)
    /\ UNCHANGED <<stage, coverage, documents>>

\* The process dies, or loses the database, before the next write.
Crash(r) ==
    /\ calls[r] # NoCall
    /\ End(r)
    /\ UNCHANGED <<stage, coverage, documents, recorded>>

-----------------------------------------------------------------------------
OnboardingInit ==
    /\ stage = "REGISTERED"
    /\ coverage = {}
    /\ documents = [d \in Documents |-> "FREE"]
    /\ recorded = <<"REGISTERED", "REGISTERED">>
    /\ calls = [r \in Calls |-> NoCall]

Write(r) ==
    \/ ProfileWritten(r)
    \/ CoverageWritten(r)
    \/ DocumentCreated(r)
    \/ DocumentReady(r)
    \/ StageWritten(r)
    \/ EventWritten(r)

OnboardingNext ==
    \/ \E r \in Applicants :
          \/ \E part \in SUBSET {"base", "radius"} :
                UpdateOwnProfile(r, part) \/ UpdateOwnCoverage(r, part)
          \/ \E d \in Documents : RequestDocumentUpload(r, d) \/ ConfirmDocumentUpload(r, d)
          \/ SubmitForReview(r)
    \/ \E r \in Reviewers : Activate(r) \/ Reject(r)
    \/ \E r \in Calls : Write(r) \/ Crash(r)

OnboardingSpec == OnboardingInit /\ [][OnboardingNext]_onboarding

-----------------------------------------------------------------------------
(* Properties. *)

OnboardingTypeOK ==
    /\ stage \in Stages
    /\ coverage \subseteq {"base", "radius"}
    /\ documents \in [Documents -> {"FREE", "PENDING", "READY"}]
    /\ recorded \in Stages \X Stages
    /\ calls \in [Calls ->
          [step : {"none", "profile", "coverage", "upload", "confirm", "stage", "event"},
           from : Stages, to : Stages, doc : Documents \cup {None},
           part : SUBSET {"base", "radius"}]]

\* However the provider's requests and the reviewers' decisions overlap, nobody is under
\* review, activated or rejected without an uploaded document.
Reviewable == {"DOCUMENTS_SUBMITTED", "UNDER_REVIEW", "ACTIVATED", "REJECTED"}
ReviewedOnDocuments ==
    stage \in Reviewable => \E d \in Documents : documents[d] = "READY"

\* The stage only moves along the declared machine: "the onboarding pipeline, declared in one
\* place".  (Not so when two requests that write it overlap: MarketOverlaps says what is left.)
StageFollowsMachine == [][stage' # stage => stage' \in Transitions[stage]]_onboarding

\* "BR16: Every transition records actor, time, reason: Repository (same transaction)":
\* when no request is under way, the latest recorded transition led to the stage.
TransitionsAreRecorded == (\A r \in Calls : calls[r] = NoCall) => recorded[2] = stage
=============================================================================
