---------------------------- MODULE MarketProofs ----------------------------
(***************************************************************************)
(* Onboarding, the price versions of offerings, and the booking of them, for *)
(* any number of requests, reviewers, documents, offerings and versions.    *)
(***************************************************************************)
EXTENDS MarketOverlaps, TLAPS

-----------------------------------------------------------------------------
(* Onboarding. *)


Steps == {"none", "profile", "coverage", "upload", "confirm", "stage", "event"}
Call == [step : Steps, from : Stages, to : Stages, doc : Documents \cup {None},
         part : SUBSET {"base", "radius"}]

\* Every successor in the declared machine is a stage.
LEMMA TransitionsTyped == \A s \in Stages : Transitions[s] \subseteq Stages
  BY DEF Transitions, Stages

\* A request begins with typed arguments, and leaves its slot as it found it.
LEMMA CallsTyped ==
    ASSUME OnboardingTypeOK, NEW r \in Calls
    PROVE  /\ NoCall \in Call
           /\ \A c \in Call : Begin(r, c) => calls' \in [Calls -> Call]
           /\ End(r) => calls' \in [Calls -> Call]
           /\ \A to \in Stages : Transit(r, to) => calls' \in [Calls -> Call]
  <1>1. NoCall \in Call
    BY DEF NoCall, Call, Steps, Stages
  <1>2. calls \in [Calls -> Call]
    BY DEF OnboardingTypeOK, Call, Steps
  <1>3. ASSUME NEW c \in Call, Begin(r, c) PROVE calls' \in [Calls -> Call]
    BY <1>2, <1>3 DEF Begin
  <1>4. End(r) => calls' \in [Calls -> Call]
    BY <1>1, <1>2 DEF End
  <1>5. ASSUME NEW to \in Stages, Transit(r, to) PROVE calls' \in [Calls -> Call]
    <2>1. [calls[r] EXCEPT !.step = "stage", !.to = to] \in Call
      BY <1>2 DEF Call, Steps
    <2>2. calls' = [calls EXCEPT ![r] = [calls[r] EXCEPT !.step = "stage", !.to = to]]
            \/ End(r)
      BY <1>2, <1>5 DEF Transit, Call
    <2> QED
      BY <1>2, <1>4, <2>1, <2>2
  <1> QED
    BY <1>1, <1>3, <1>4, <1>5

-----------------------------------------------------------------------------
\* The state of onboarding keeps its types, for any requests and documents.
THEOREM OnboardingTypes == OnboardingSpec => []OnboardingTypeOK
  <1> USE DEF Call, Steps
  <1>1. OnboardingInit => OnboardingTypeOK
    BY DEF OnboardingInit, OnboardingTypeOK, NoCall, Stages
  <1>2. OnboardingTypeOK /\ [OnboardingNext]_onboarding => OnboardingTypeOK'
    <2> SUFFICES ASSUME OnboardingTypeOK, [OnboardingNext]_onboarding PROVE OnboardingTypeOK'
      OBVIOUS
    <2> USE DEF OnboardingTypeOK
    <2>0. \A r \in Applicants \cup Reviewers : r \in Calls
      BY DEF Calls
    <2>1. ASSUME NEW r \in Applicants, NEW part \in SUBSET {"base", "radius"},
                 UpdateOwnProfile(r, part)
          PROVE  OnboardingTypeOK'
      <3>1. [NoCall EXCEPT !.step = "profile", !.from = stage, !.part = part] \in Call
        BY DEF NoCall, Stages
      <3> QED
        BY <2>0, <2>1, <3>1, CallsTyped DEF UpdateOwnProfile
    <2>2. ASSUME NEW r \in Applicants, NEW part \in SUBSET {"base", "radius"},
                 UpdateOwnCoverage(r, part)
          PROVE  OnboardingTypeOK'
      <3>1. [NoCall EXCEPT !.step = "coverage", !.from = stage, !.part = part] \in Call
        BY DEF NoCall, Stages
      <3> QED
        BY <2>0, <2>2, <3>1, CallsTyped DEF UpdateOwnCoverage
    <2>3. ASSUME NEW r \in Applicants, NEW d \in Documents, RequestDocumentUpload(r, d)
          PROVE  OnboardingTypeOK'
      <3>1. [NoCall EXCEPT !.step = "upload", !.from = stage, !.doc = d] \in Call
        BY DEF NoCall, Stages
      <3> QED
        BY <2>0, <2>3, <3>1, CallsTyped DEF RequestDocumentUpload
    <2>4. ASSUME NEW r \in Applicants, NEW d \in Documents, ConfirmDocumentUpload(r, d)
          PROVE  OnboardingTypeOK'
      <3>1. [NoCall EXCEPT !.step = "confirm", !.from = stage, !.doc = d] \in Call
        BY DEF NoCall, Stages
      <3> QED
        BY <2>0, <2>4, <3>1, CallsTyped DEF ConfirmDocumentUpload
    <2>5. ASSUME NEW r \in Calls, NEW to \in Stages, Decide(r, to)
          PROVE  OnboardingTypeOK'
      <3>1. [NoCall EXCEPT !.step = "stage", !.from = stage, !.to = to] \in Call
        BY DEF NoCall, Stages
      <3> QED
        BY <2>5, <3>1, CallsTyped DEF Decide
    <2>6. ASSUME NEW r \in Calls, Write(r) PROVE OnboardingTypeOK'
      <3>1. CASE ProfileWritten(r)
        <4>1. "PROFILE_COMPLETE" \in Stages
          BY DEF Stages
        <4> QED
          BY <3>1, <4>1, CallsTyped DEF ProfileWritten, Declare
      <3>2. CASE CoverageWritten(r)
        BY <3>2, CallsTyped DEF CoverageWritten, Declare
      <3>3. CASE DocumentCreated(r)
        BY <3>3, CallsTyped DEF DocumentCreated
      <3>4. CASE DocumentReady(r)
        <4>1. "DOCUMENTS_SUBMITTED" \in Stages
          BY DEF Stages
        <4> QED
          BY <3>4, <4>1, CallsTyped DEF DocumentReady, Confirmed
      <3>5. CASE StageWritten(r)
        BY <3>5 DEF StageWritten
      <3>6. CASE EventWritten(r)
        BY <3>6, CallsTyped DEF EventWritten
      <3> QED
        BY <2>6, <3>1, <3>2, <3>3, <3>4, <3>5, <3>6 DEF Write
    <2>7. ASSUME NEW r \in Calls, Crash(r) PROVE OnboardingTypeOK'
      BY <2>7, CallsTyped DEF Crash
    <2>8. CASE UNCHANGED onboarding
      BY <2>8 DEF onboarding
    <2>9. {"UNDER_REVIEW", "ACTIVATED", "REJECTED"} \subseteq Stages
      BY DEF Stages
    <2> QED
      BY <2>0, <2>1, <2>2, <2>3, <2>4, <2>5, <2>6, <2>7, <2>8, <2>9
         DEF OnboardingNext, SubmitForReview, Activate, Reject
  <1> QED
    BY <1>1, <1>2, PTL DEF OnboardingSpec

-----------------------------------------------------------------------------
(* Why nobody is decided upon without a document: a request that will write a *)
(* later stage was begun on a later stage or readies a document itself, and   *)
(* no document is lost, because an upload writes a row that is its own.       *)

Late == Stages \ {"REGISTERED", "PROFILE_COMPLETE"}
SomeReady == \E d \in Documents : documents[d] = "READY"

OwnRow ==
    \A r \in Calls :
        /\ calls[r].step \in {"upload", "confirm"} => calls[r].doc \in Documents
        /\ calls[r].step = "upload" => documents[calls[r].doc] = "FREE"
        /\ calls[r].step = "confirm" => documents[calls[r].doc] # "FREE"
        /\ \A s \in Calls :
              (calls[r].step = "upload" /\ calls[s].step = "upload"
               /\ calls[r].doc = calls[s].doc) => r = s

LateOnDocuments ==
    /\ stage \in Late => SomeReady
    /\ \A r \in Calls : (calls[r].step = "stage" /\ calls[r].to \in Late) => SomeReady

\* An upload's row stays its own.
LEMMA OwnRowInductive == OnboardingTypeOK /\ OwnRow /\ [OnboardingNext]_onboarding => OwnRow'
  <1> SUFFICES ASSUME OnboardingTypeOK, OwnRow, [OnboardingNext]_onboarding PROVE OwnRow'
    OBVIOUS
  <1> USE DEF OnboardingTypeOK
  <1>0. \A r \in Applicants \cup Reviewers : r \in Calls
    BY DEF Calls
  <1>1. ASSUME NEW r \in Calls, NEW c, c.step \notin {"upload", "confirm"},
               calls' = [calls EXCEPT ![r] = c], UNCHANGED documents
        PROVE  OwnRow'
    BY <1>1 DEF OwnRow
  <1>2. NoCall.step = "none"
    BY DEF NoCall
  <1>3. ASSUME NEW r \in Calls, End(r), UNCHANGED documents PROVE OwnRow'
    BY <1>1, <1>2, <1>3 DEF End
  <1>4. ASSUME NEW r \in Applicants, NEW part,
               UpdateOwnProfile(r, part) \/ UpdateOwnCoverage(r, part)
        PROVE  OwnRow'
    BY <1>0, <1>1, <1>4 DEF UpdateOwnProfile, UpdateOwnCoverage, Begin, NoCall
  <1>5. ASSUME NEW r \in Applicants, NEW d \in Documents, RequestDocumentUpload(r, d)
        PROVE  OwnRow'
    BY <1>0, <1>5 DEF RequestDocumentUpload, Begin, NoCall, OwnRow
  <1>6. ASSUME NEW r \in Applicants, NEW d \in Documents, ConfirmDocumentUpload(r, d)
        PROVE  OwnRow'
    BY <1>0, <1>6 DEF ConfirmDocumentUpload, Begin, NoCall, OwnRow
  <1>7. ASSUME NEW r \in Calls, NEW to, Decide(r, to) PROVE OwnRow'
    BY <1>1, <1>7 DEF Decide, Begin, NoCall
  <1>8. ASSUME NEW r \in Calls, Write(r) PROVE OwnRow'
    <2>1. CASE ProfileWritten(r)
      BY <1>1, <1>3, <2>1 DEF ProfileWritten, Transit
    <2>2. CASE CoverageWritten(r)
      BY <1>3, <2>2 DEF CoverageWritten
    <2>3. CASE DocumentCreated(r)
      BY <2>3 DEF DocumentCreated, End, NoCall, OwnRow
    <2>4. CASE DocumentReady(r)
      BY <2>4 DEF DocumentReady, Confirmed, Transit, End, NoCall, OwnRow
    <2>5. CASE StageWritten(r)
      BY <1>1, <2>5 DEF StageWritten
    <2>6. CASE EventWritten(r)
      BY <1>3, <2>6 DEF EventWritten
    <2> QED
      BY <1>8, <2>1, <2>2, <2>3, <2>4, <2>5, <2>6 DEF Write
  <1>9. ASSUME NEW r \in Calls, Crash(r) PROVE OwnRow'
    BY <1>3, <1>9 DEF Crash
  <1>10. CASE UNCHANGED onboarding
    BY <1>10 DEF onboarding, OwnRow
  <1> QED
    BY <1>0, <1>4, <1>5, <1>6, <1>7, <1>8, <1>9, <1>10
       DEF OnboardingNext, SubmitForReview, Activate, Reject

\* No step loses the last uploaded document.
LEMMA ReadyIsKept ==
    ASSUME OnboardingTypeOK, OwnRow, [OnboardingNext]_onboarding, SomeReady
    PROVE  SomeReady'
  <1>1. ASSUME NEW r \in Calls, DocumentCreated(r) PROVE SomeReady'
    BY <1>1 DEF DocumentCreated, SomeReady, OwnRow, OnboardingTypeOK
  <1>2. ASSUME NEW r \in Calls, DocumentReady(r) PROVE SomeReady'
    BY <1>2 DEF DocumentReady, Confirmed, SomeReady, OwnRow, OnboardingTypeOK
  <1>3. UNCHANGED documents => SomeReady'
    BY DEF SomeReady
  <1> QED
    BY <1>1, <1>2, <1>3 DEF OnboardingNext, Write, UpdateOwnProfile, UpdateOwnCoverage,
       RequestDocumentUpload, ConfirmDocumentUpload, SubmitForReview, Activate, Reject, Decide,
       ProfileWritten, CoverageWritten, StageWritten, EventWritten, Crash, onboarding

LEMMA LateInductive ==
    OnboardingTypeOK /\ OwnRow /\ LateOnDocuments /\ [OnboardingNext]_onboarding
        => LateOnDocuments'
  <1> SUFFICES ASSUME OnboardingTypeOK, OwnRow, LateOnDocuments, [OnboardingNext]_onboarding
               PROVE  LateOnDocuments'
    OBVIOUS
  <1> USE DEF OnboardingTypeOK
  <1>0. \A r \in Applicants \cup Reviewers : r \in Calls
    BY DEF Calls
  <1>1. SomeReady => SomeReady'
    BY ReadyIsKept
  <1>2. ASSUME NEW r \in Calls, NEW c, (c.step = "stage" /\ c.to \in Late) => SomeReady',
               calls' = [calls EXCEPT ![r] = c], UNCHANGED stage
        PROVE  LateOnDocuments'
    BY <1>1, <1>2 DEF LateOnDocuments
  <1>3. ASSUME NEW r \in Calls, End(r), UNCHANGED stage PROVE LateOnDocuments'
    BY <1>2, <1>3 DEF End, NoCall
  <1>4. ASSUME NEW r \in Applicants, NEW part,
               UpdateOwnProfile(r, part) \/ UpdateOwnCoverage(r, part)
        PROVE  LateOnDocuments'
    BY <1>0, <1>2, <1>4 DEF UpdateOwnProfile, UpdateOwnCoverage, Begin, NoCall
  <1>5. ASSUME NEW r \in Applicants, NEW d \in Documents,
               RequestDocumentUpload(r, d) \/ ConfirmDocumentUpload(r, d)
        PROVE  LateOnDocuments'
    <2>1. CASE RequestDocumentUpload(r, d)
      BY <1>0, <1>2, <2>1 DEF RequestDocumentUpload, Begin, NoCall
    <2>2. CASE ConfirmDocumentUpload(r, d)
      BY <1>0, <1>2, <2>2 DEF ConfirmDocumentUpload, Begin, NoCall
    <2> QED
      BY <1>5, <2>1, <2>2
  <1>6. ASSUME NEW r \in Calls, NEW to \in {"UNDER_REVIEW", "ACTIVATED", "REJECTED"},
               Decide(r, to)
        PROVE  LateOnDocuments'
    <2>1. stage \in Late
      BY <1>6 DEF Decide, Transitions, Late, Stages
    <2>2. SomeReady'
      BY <1>1, <2>1 DEF LateOnDocuments
    <2> QED
      BY <1>2, <1>6, <2>2 DEF Decide, Begin
  <1>7. ASSUME NEW r \in Calls, Write(r) PROVE LateOnDocuments'
    <2>1. CASE ProfileWritten(r)
      BY <1>2, <1>3, <2>1 DEF ProfileWritten, Transit, Late
    <2>2. CASE CoverageWritten(r)
      BY <1>3, <2>2 DEF CoverageWritten
    <2>3. CASE DocumentCreated(r)
      BY <1>3, <2>3 DEF DocumentCreated
    <2>4. CASE DocumentReady(r)
      <3>1. SomeReady'
        BY <2>4 DEF DocumentReady, Confirmed, SomeReady, OwnRow
      <3> QED
        BY <1>2, <1>3, <2>4, <3>1 DEF DocumentReady, Transit
    <2>5. CASE StageWritten(r)
      BY <1>1, <2>5 DEF StageWritten, LateOnDocuments
    <2>6. CASE EventWritten(r)
      BY <1>3, <2>6 DEF EventWritten
    <2> QED
      BY <1>7, <2>1, <2>2, <2>3, <2>4, <2>5, <2>6 DEF Write
  <1>8. ASSUME NEW r \in Calls, Crash(r) PROVE LateOnDocuments'
    BY <1>3, <1>8 DEF Crash
  <1>9. CASE UNCHANGED onboarding
    BY <1>1, <1>9 DEF onboarding, LateOnDocuments
  <1> QED
    BY <1>0, <1>4, <1>5, <1>6, <1>7, <1>8, <1>9
       DEF OnboardingNext, SubmitForReview, Activate, Reject

\* For any overlap of the provider's requests and the reviewers' decisions, and any number
\* of documents, nobody is under review, activated or rejected without an uploaded one.
THEOREM DecidedOnDocuments == OnboardingSpec => []ReviewedOnDocuments
  <1>1. OnboardingInit => OwnRow /\ LateOnDocuments
    BY DEF OnboardingInit, OwnRow, LateOnDocuments, NoCall, Late
  <1>2. LateOnDocuments => ReviewedOnDocuments
    BY DEF LateOnDocuments, ReviewedOnDocuments, Reviewable, Late, SomeReady, Stages
  <1> QED
    BY <1>1, <1>2, OnboardingTypes, OwnRowInductive, LateInductive, PTL DEF OnboardingSpec

-----------------------------------------------------------------------------
(* Offerings. *)


Version == [minimum : Minimums, open : BOOLEAN]
Offering == [status : {"FREE", "ACTIVE", "WITHDRAWN"}, areas : SUBSET Areas,
             versions : Seq(Version)]
Edit == [step : {"none", "close", "next", "areas"}, row : Rows \cup {NoEdit.row},
         version : Nat, minimum : Minimums \cup {0}, areas : SUBSET Areas]

OfferingsTypeOK == offerings \in [Rows -> Offering] /\ edits \in [Editors -> Edit]

\* A publication names one of the versions of an offering that exists, and a minimum.
Publications ==
    \A r \in Editors : edits[r].step \in {"close", "next"} =>
        /\ edits[r].row \in Rows /\ Exists(edits[r].row)
        /\ edits[r].version \in 1 .. Len(offerings[edits[r].row].versions)
        /\ edits[r].minimum \in Minimums

\* One that has closed a version and not committed holds the current one, and is alone.
Repricings ==
    \A r \in Editors : edits[r].step = "next" =>
        /\ edits[r].version = Len(offerings[edits[r].row].versions)
        /\ \A s \in Editors : (edits[s].step = "next" /\ edits[s].row = edits[r].row) => s = r

Replacements == \A r \in Editors : edits[r].step = "areas" => edits[r].row \in Rows

PublicationInv == OfferingsTypeOK /\ OneCurrentVersion /\ Publications /\ Repricings /\ Replacements

-----------------------------------------------------------------------------
\* Closing the last version and appending the next leaves exactly the new one open.
LEMMA Succession ==
    ASSUME NEW s \in Seq(Version), s # <<>>, NEW m \in Minimums,
           {n \in DOMAIN s : s[n].open} = {Len(s)}
    PROVE  LET t == Append([s EXCEPT ![Len(s)].open = FALSE], Opened(m)) IN
           /\ t \in Seq(Version) /\ Len(t) = Len(s) + 1
           /\ {n \in DOMAIN t : t[n].open} = {Len(t)}
  <1> DEFINE last == [s[Len(s)] EXCEPT !.open = FALSE]
             u == [s EXCEPT ![Len(s)].open = FALSE]
             t == Append(u, Opened(m))
  <1>1. Len(s) \in Nat \ {0} /\ DOMAIN s = 1 .. Len(s) /\ s \in [1 .. Len(s) -> Version]
    OBVIOUS
  <1>2. s[Len(s)] \in Version
    BY <1>1
  <1>3. last \in Version /\ ~last.open
    BY <1>2 DEF Version
  <1>4. u = [s EXCEPT ![Len(s)] = last]
    BY <1>1
  <1>5. u \in Seq(Version) /\ Len(u) = Len(s)
    BY <1>1, <1>3, <1>4
  <1>6. Opened(m) \in Version /\ Opened(m).open
    BY DEF Opened, Version
  <1>7. \A n \in 1 .. Len(s) : u[n] = IF n = Len(s) THEN last ELSE s[n]
    BY <1>1, <1>4
  <1> HIDE DEF u, last
  <1>8. /\ t \in Seq(Version) /\ Len(t) = Len(s) + 1 /\ t[Len(s) + 1] = Opened(m)
        /\ \A n \in 1 .. Len(s) : t[n] = u[n]
    BY <1>5, <1>6
  <1>9. DOMAIN t = 1 .. Len(s) + 1
    BY <1>1, <1>8
  <1> HIDE DEF t
  <1>10. \A n \in 1 .. Len(s) : n # Len(s) => ~s[n].open
    BY <1>1
  <1>11. \A n \in DOMAIN t : t[n].open <=> n = Len(t)
    <2>1. \A n \in 1 .. Len(s) : ~t[n].open
      BY <1>1, <1>3, <1>7, <1>8, <1>10
    <2>2. t[Len(t)].open
      BY <1>6, <1>8
    <2>3. \A n \in DOMAIN t : n \in 1 .. Len(s) \/ n = Len(t)
      BY <1>1, <1>8, <1>9
    <2>4. Len(t) \notin 1 .. Len(s)
      BY <1>1, <1>8
    <2> QED
      BY <2>1, <2>2, <2>3, <2>4, Zenon
  <1>12. Len(t) \in DOMAIN t
    BY <1>1, <1>8, <1>9
  <1>13. {n \in DOMAIN t : t[n].open} = {Len(t)}
    BY <1>11, <1>12
  <1> QED
    BY <1>8, <1>13 DEF t, u

\* What a price is published over is the last version.
LEMMA CurrentIsLast ==
    ASSUME OneCurrentVersion, NEW o \in Rows, Exists(o)
    PROVE  Current(o) = Len(offerings[o].versions)
  BY DEF OneCurrentVersion, Current

-----------------------------------------------------------------------------
\* The inductive invariant: whoever is about to insert a version has the last one to itself.
THEOREM Publication == OfferingsSpec => []PublicationInv
  <1>1. OfferingsInit => PublicationInv
    BY DEF OfferingsInit, PublicationInv, OfferingsTypeOK, OneCurrentVersion, Publications, Repricings,
           Replacements, Exists, FreeRow, NoEdit, Offering, Edit
  <1>2. PublicationInv /\ [OfferingsNext]_<<offerings, edits>> => PublicationInv'
    <2> SUFFICES ASSUME PublicationInv, [OfferingsNext]_<<offerings, edits>> PROVE PublicationInv'
      OBVIOUS
    <2>0. NoEdit \in Edit /\ NoEdit.step = "none"
      BY DEF NoEdit, Edit
    <2>1. ASSUME NEW o \in Rows, NEW m \in Minimums, NEW areas \in SUBSET Areas,
                 CreateOffering(o, m, areas)
          PROVE  PublicationInv'
      <3>1. <<Opened(m)>> \in Seq(Version) /\ Len(<<Opened(m)>>) = 1 /\ Opened(m).open
        BY DEF Opened, Version
      <3>2. offerings' \in [Rows -> Offering]
        BY <2>1, <3>1 DEF PublicationInv, OfferingsTypeOK, CreateOffering, Offering
      <3>3. offerings'[o].versions = <<Opened(m)>>
        BY <2>1 DEF PublicationInv, OfferingsTypeOK, CreateOffering
      <3>4. OpenVersions(o)' = {1}
        BY <3>1, <3>3 DEF OpenVersions
      <3>5. \A p \in Rows \ {o} : offerings'[p] = offerings[p]
        BY <2>1 DEF PublicationInv, OfferingsTypeOK, CreateOffering
      <3>6. OneCurrentVersion'
        BY <3>1, <3>3, <3>4, <3>5 DEF PublicationInv, OneCurrentVersion, OpenVersions, Exists
      <3>7. \A r \in Editors : edits[r].step \in {"close", "next"} => edits[r].row # o
        BY <2>1 DEF PublicationInv, Publications, CreateOffering
      <3> QED
        BY <2>1, <3>2, <3>5, <3>6, <3>7
        DEF PublicationInv, OfferingsTypeOK, Publications, Repricings, Replacements, Exists, CreateOffering
    <2>2. ASSUME NEW o \in Rows, Withdraw(o) PROVE PublicationInv'
      <3>1. offerings' \in [Rows -> Offering]
        BY <2>2 DEF PublicationInv, OfferingsTypeOK, Withdraw, Offering
      <3>2. \A p \in Rows : offerings'[p].versions = offerings[p].versions
        BY <2>2 DEF PublicationInv, OfferingsTypeOK, Withdraw, Offering
      <3>3. \A p \in Rows : Exists(p)' <=> Exists(p)
        BY <2>2 DEF PublicationInv, OfferingsTypeOK, Withdraw, Exists, Offering
      <3> QED
        BY <2>2, <3>1, <3>2, <3>3
        DEF PublicationInv, OfferingsTypeOK, OneCurrentVersion, OpenVersions, Publications, Repricings,
            Replacements, Withdraw
    <2>3. ASSUME NEW o \in Rows, NEW r \in Editors, NEW m \in Minimums, PublishVersion(r, o, m)
          PROVE  PublicationInv'
      <3> DEFINE e == [NoEdit EXCEPT !.step = "close", !.row = o, !.version = Current(o),
                                     !.minimum = m]
      <3>1. Current(o) = Len(offerings[o].versions)
        BY <2>3, CurrentIsLast DEF PublicationInv, PublishVersion
      <3>2. Len(offerings[o].versions) \in 1 .. Len(offerings[o].versions)
        BY <2>3 DEF PublicationInv, OneCurrentVersion, OpenVersions, PublishVersion, OfferingsTypeOK, Offering
      <3>a. Current(o) \in Nat /\ m \in Minimums \cup {0} /\ o \in Rows \cup {NoEdit.row}
        BY <3>1, <3>2
      <3>3. e \in Edit /\ e.step = "close" /\ e.row = o /\ e.version = Current(o) /\ e.minimum = m
        BY <2>0, <3>a DEF Edit
      <3>4. edits' = [edits EXCEPT ![r] = e] /\ UNCHANGED offerings /\ Exists(o)
        BY <2>3 DEF PublishVersion, StartEdit
      <3>5. \A q \in Editors : edits'[q] = IF q = r THEN e ELSE edits[q]
        BY <3>4 DEF PublicationInv, OfferingsTypeOK
      <3>6. edits' \in [Editors -> Edit]
        BY <3>3, <3>4 DEF PublicationInv, OfferingsTypeOK
      <3>7. Publications' /\ Repricings' /\ Replacements'
        BY <3>1, <3>2, <3>3, <3>4, <3>5 DEF PublicationInv, Publications, Repricings, Replacements, Exists
      <3> QED
        BY <3>4, <3>6, <3>7 DEF PublicationInv, OfferingsTypeOK, OneCurrentVersion, OpenVersions, Exists
    <2>4. ASSUME NEW r \in Editors, EndEdit(r), UNCHANGED offerings PROVE PublicationInv'
      <3>1. \A q \in Editors : edits'[q] = IF q = r THEN NoEdit ELSE edits[q]
        BY <2>4 DEF EndEdit, PublicationInv, OfferingsTypeOK
      <3>2. edits' \in [Editors -> Edit]
        BY <2>0, <2>4 DEF EndEdit, PublicationInv, OfferingsTypeOK
      <3> QED
        BY <2>0, <2>4, <3>1, <3>2 DEF PublicationInv, OfferingsTypeOK, OneCurrentVersion, OpenVersions, Exists,
                            Publications, Repricings, Replacements
    <2>5. ASSUME NEW r \in Editors, CloseCurrentVersion(r) PROVE PublicationInv'
      <3>1. CASE ~StillCurrent(r)
        BY <2>4, <2>5, <3>1 DEF CloseCurrentVersion
      <3>2. CASE StillCurrent(r)
        <4>1. edits' = [edits EXCEPT ![r] = [edits[r] EXCEPT !.step = "next"]] /\ UNCHANGED offerings
          BY <2>5, <3>2 DEF CloseCurrentVersion
        <4>2. \A q \in Editors : edits'[q] = IF q = r THEN [edits[r] EXCEPT !.step = "next"]
                                             ELSE edits[q]
          BY <4>1 DEF PublicationInv, OfferingsTypeOK
        <4>3. edits' \in [Editors -> Edit]
          BY <4>1 DEF PublicationInv, OfferingsTypeOK, Edit
        <4>4. /\ edits[r].row \in Rows /\ Exists(edits[r].row)
              /\ edits[r].version \in DOMAIN offerings[edits[r].row].versions
          BY <2>5 DEF PublicationInv, Publications, CloseCurrentVersion, OfferingsTypeOK, Offering
        <4>5. edits[r].version = Len(offerings[edits[r].row].versions)
          BY <3>2, <4>4 DEF PublicationInv, OneCurrentVersion, OpenVersions, StillCurrent
        <4>6. \A s \in Editors : edits[s].step = "next" => edits[s].row # edits[r].row
          BY <2>5 DEF CloseCurrentVersion, Repricing
        <4>7. \A q \in Editors : /\ edits'[q].row = edits[q].row
                                 /\ edits'[q].version = edits[q].version
                                 /\ edits'[q].minimum = edits[q].minimum
                                 /\ edits'[q].step = IF q = r THEN "next" ELSE edits[q].step
          BY <4>2 DEF PublicationInv, OfferingsTypeOK, Edit
        <4>8. Publications' /\ Replacements'
          BY <2>5, <4>1, <4>7 DEF PublicationInv, Publications, Replacements, Exists, CloseCurrentVersion
        <4>9. Repricings'
          BY <4>1, <4>5, <4>6, <4>7 DEF PublicationInv, Repricings
        <4> QED
          BY <4>1, <4>3, <4>8, <4>9 DEF PublicationInv, OfferingsTypeOK, OneCurrentVersion, OpenVersions, Exists
      <3> QED
        BY <3>1, <3>2
    <2>6. ASSUME NEW r \in Editors, NextVersion(r) PROVE PublicationInv'
      <3> DEFINE o == edits[r].row
                 s == offerings[o].versions
                 m == edits[r].minimum
                 t == Append([s EXCEPT ![Len(s)].open = FALSE], Opened(m))
      <3>1. /\ o \in Rows /\ Exists(o) /\ m \in Minimums /\ edits[r].version = Len(s)
            /\ s \in Seq(Version) /\ s # <<>>
        BY <2>6 DEF PublicationInv, Publications, Repricings, NextVersion, OfferingsTypeOK, Offering
      <3>2. {n \in DOMAIN s : s[n].open} = {Len(s)}
        BY <3>1 DEF PublicationInv, OneCurrentVersion, OpenVersions
      <3>3. t \in Seq(Version) /\ Len(t) = Len(s) + 1 /\ {n \in DOMAIN t : t[n].open} = {Len(t)}
        BY <3>1, <3>2, Succession
      <3>4. offerings' = [offerings EXCEPT ![o].versions = t]
        BY <2>6, <3>1 DEF NextVersion, Repriced
      <3> HIDE DEF t
      <3>5. /\ offerings' \in [Rows -> Offering]
            /\ \A p \in Rows : /\ offerings'[p].status = offerings[p].status
                               /\ offerings'[p].versions = IF p = o THEN t
                                                           ELSE offerings[p].versions
        <4> DEFINE kept == [offerings[o] EXCEPT !.versions = t]
        <4>1. offerings[o] \in Offering /\ offerings \in [Rows -> Offering]
          BY <3>1 DEF PublicationInv, OfferingsTypeOK
        <4>2. kept \in Offering /\ kept.status = offerings[o].status /\ kept.versions = t
          BY <3>3, <4>1 DEF Offering
        <4>3. offerings' = [offerings EXCEPT ![o] = kept]
          BY <3>4
        <4> QED
          BY <3>1, <4>1, <4>2, <4>3
      <3>6. OneCurrentVersion'
        BY <3>3, <3>5 DEF PublicationInv, OneCurrentVersion, OpenVersions, Exists
      <3>7. /\ edits' \in [Editors -> Edit]
            /\ \A q \in Editors : edits'[q] = IF q = r THEN NoEdit ELSE edits[q]
        BY <2>0, <2>6 DEF NextVersion, EndEdit, PublicationInv, OfferingsTypeOK
      <3>8. Publications' /\ Replacements'
        <4>1. Len(s) \in Nat
          BY <3>1
        <4>2. \A n \in Nat : n \in 1 .. Len(s) => n \in 1 .. Len(t)
          BY <3>3, <4>1
        <4>3. Replacements'
          BY <2>0, <3>7 DEF PublicationInv, Replacements
        <4>4. ASSUME NEW q \in Editors, edits'[q].step \in {"close", "next"}
              PROVE  /\ edits'[q].row \in Rows /\ Exists(edits[q].row)'
                     /\ edits'[q].version \in 1 .. Len(offerings'[edits'[q].row].versions)
                     /\ edits'[q].minimum \in Minimums
          <5>1. edits'[q] = edits[q] /\ q # r
            BY <2>0, <3>7, <4>4
          <5>2. /\ edits[q].row \in Rows /\ Exists(edits[q].row)
                /\ edits[q].version \in 1 .. Len(offerings[edits[q].row].versions)
                /\ edits[q].minimum \in Minimums
            BY <4>4, <5>1 DEF PublicationInv, Publications
          <5>3. edits[q].version \in Nat
            BY DEF PublicationInv, OfferingsTypeOK, Edit
          <5> QED
            BY <3>5, <4>2, <5>1, <5>2, <5>3 DEF Exists
        <4> QED
          BY <4>3, <4>4 DEF Publications
      <3>9. Repricings'
        <4>1. \A q \in Editors : q # r /\ edits[q].step = "next" => edits[q].row # o
          BY <2>6 DEF PublicationInv, Repricings, NextVersion
        <4> QED
          BY <2>0, <3>5, <3>7, <4>1 DEF PublicationInv, Repricings, Publications
      <3> QED
        BY <3>5, <3>6, <3>7, <3>8, <3>9 DEF PublicationInv, OfferingsTypeOK
    <2>7. ASSUME NEW r \in Editors, NEW o \in Rows, NEW areas \in SUBSET Areas, SetAreas(r, o, areas)
          PROVE  PublicationInv'
      <3>1. /\ offerings' \in [Rows -> Offering]
            /\ \A p \in Rows : /\ offerings'[p].status = offerings[p].status
                               /\ offerings'[p].versions = offerings[p].versions
        BY <2>7 DEF PublicationInv, OfferingsTypeOK, SetAreas, Offering
      <3> DEFINE e == [NoEdit EXCEPT !.step = "areas", !.row = o, !.areas = areas]
      <3>2. e \in Edit /\ e.step = "areas" /\ e.row = o
        BY <2>0 DEF Edit, NoEdit
      <3>3. /\ edits' \in [Editors -> Edit]
            /\ \A q \in Editors : edits'[q] = IF q = r THEN e ELSE edits[q]
        BY <2>7, <3>2 DEF SetAreas, StartEdit, PublicationInv, OfferingsTypeOK
      <3> HIDE DEF e
      <3> QED
        BY <3>1, <3>2, <3>3 DEF PublicationInv, OfferingsTypeOK, OneCurrentVersion, OpenVersions, Exists,
                                Publications, Repricings, Replacements
    <2>8. ASSUME NEW r \in Editors, AreasInserted(r) PROVE PublicationInv'
      <3>1. edits[r].row \in Rows /\ edits[r].areas \in SUBSET Areas
        BY <2>8 DEF PublicationInv, Replacements, AreasInserted, OfferingsTypeOK, Edit
      <3>2. /\ offerings' \in [Rows -> Offering]
            /\ \A p \in Rows : /\ offerings'[p].status = offerings[p].status
                               /\ offerings'[p].versions = offerings[p].versions
        BY <2>8, <3>1 DEF PublicationInv, OfferingsTypeOK, AreasInserted, Offering
      <3>3. /\ edits' \in [Editors -> Edit]
            /\ \A q \in Editors : edits'[q] = IF q = r THEN NoEdit ELSE edits[q]
        BY <2>0, <2>8 DEF AreasInserted, EndEdit, PublicationInv, OfferingsTypeOK
      <3> QED
        BY <2>0, <3>2, <3>3 DEF PublicationInv, OfferingsTypeOK, OneCurrentVersion, OpenVersions, Exists,
                                Publications, Repricings, Replacements
    <2>9. ASSUME NEW r \in Editors, EditLost(r) PROVE PublicationInv'
      BY <2>4, <2>9 DEF EditLost
    <2>10. CASE UNCHANGED <<offerings, edits>>
      BY <2>10 DEF PublicationInv, OfferingsTypeOK, OneCurrentVersion, OpenVersions, Exists, Publications,
                   Repricings, Replacements
    <2> QED
      BY <2>1, <2>2, <2>3, <2>5, <2>6, <2>7, <2>8, <2>9, <2>10 DEF OfferingsNext
  <1> QED
    BY <1>1, <1>2, PTL DEF OfferingsSpec

\* "Exactly one per offering": however many publications overlap, an offering has one open
\* version, its last.
THEOREM OneOpenVersion == OfferingsSpec => []OneCurrentVersion
  <1>1. PublicationInv => OneCurrentVersion
    BY DEF PublicationInv
  <1> QED
    BY <1>1, Publication, PTL

-----------------------------------------------------------------------------
(* The market is onboarding and offerings side by side: what holds of each on  *)
(* its own holds of it.                                                       *)

LEMMA MarketStepsOnboarding == [MarketNext]_vars => [OnboardingNext]_onboarding
  BY DEF MarketNext, StartOnboarding, GoOnOnboarding, OnboardingNext, StartOrder, GoOnOrder,
         CreateBooking, Assign, BookingInserted, AssignReads, AssignCommits, OrderLost, Decline,
         market, onboarding, vars

LEMMA MarketStepsOfferings == [MarketNext]_vars => [OfferingsNext]_<<offerings, edits>>
  BY DEF MarketNext, StartEditing, GoOnEditing, OfferingsNext, StartOrder, GoOnOrder,
         CreateBooking, Assign, BookingInserted, AssignReads, AssignCommits, OrderLost, Decline,
         market, vars

\* Whatever is booked meanwhile, providers are onboarded and offerings edited as they are
\* where nobody books.
THEOREM MarketImplements == MarketSpec => OnboardingSpec /\ OfferingsSpec
  <1>1. MarketInit => OnboardingInit /\ OfferingsInit
    BY DEF MarketInit
  <1> QED
    BY <1>1, MarketStepsOnboarding, MarketStepsOfferings, PTL
    DEF MarketSpec, OnboardingSpec, OfferingsSpec

\* Nobody is under review, activated or rejected without an uploaded document, in the
\* market too.
THEOREM MarketDecidesOnDocuments == MarketSpec => []ReviewedOnDocuments
  BY MarketImplements, DecidedOnDocuments, PTL

\* Nor does an offering that is booked while it is repriced have two open versions.
THEOREM MarketOneOpenVersion == MarketSpec => []OneCurrentVersion
  BY MarketImplements, OneOpenVersion, PTL

-----------------------------------------------------------------------------
(* What is true while a request is on its way, whatever overlaps it.          *)

historyAndVars == <<vars, historyVars>>
HistoryNext == MarketNext /\ See /\ Compare

\* The memory of the overlaps only watches.
LEMMA HistoryOnlyWatches == HistorySpec => MarketSpec
  <1>1. HistoryInit => MarketInit
    BY DEF HistoryInit
  <1>2. [MarketNext /\ See /\ Compare]_<<vars, historyVars>> => [MarketNext]_vars
    OBVIOUS
  <1> QED
    BY <1>1, <1>2, PTL DEF HistorySpec, MarketSpec

\* A call goes by a stage that it has seen, and writes a successor of that one.
Recalls ==
    \A r \in Calls : calls[r] # NoCall =>
        /\ calls[r].from \in seen[r]
        /\ calls[r].step = "stage" => calls[r].to \in Transitions[calls[r].from]

\* A call that begins has just read the stage, one that goes on keeps what it read.
LEMMA CallKeepsItsStage ==
    ASSUME OnboardingTypeOK, Recalls, See, NEW r \in Calls, NEW c,
           calls' = [calls EXCEPT ![r] = c],
           c # NoCall => \/ calls[r] = NoCall /\ c.from = stage'
                         \/ calls[r] # NoCall /\ c.from = calls[r].from,
           c.step = "stage" => c.to \in Transitions[c.from]
    PROVE  Recalls'
  <1>1. \A s \in Calls : calls'[s] = IF s = r THEN c ELSE calls[s]
    BY DEF OnboardingTypeOK
  <1>2. \A s \in Calls : calls'[s] # NoCall =>
           stage' \in seen'[s] /\ (calls[s] # NoCall => seen[s] \subseteq seen'[s])
    BY DEF See
  <1> QED
    BY <1>1, <1>2 DEF Recalls

LEMMA CallEnds ==
    ASSUME OnboardingTypeOK, Recalls, See, NEW r \in Calls, End(r)
    PROVE  Recalls'
  <1>1. NoCall.step = "none"
    BY DEF NoCall
  <1> QED
    BY <1>1, CallKeepsItsStage DEF End

LEMMA CallTransits ==
    ASSUME OnboardingTypeOK, Recalls, See, NEW r \in Calls, NEW to, calls[r] # NoCall,
           Transit(r, to)
    PROVE  Recalls'
  <1>1. CASE to \in Transitions[calls[r].from]
    <2> DEFINE c == [calls[r] EXCEPT !.step = "stage", !.to = to]
    <2>0. calls \in [Calls -> Call]
      BY DEF OnboardingTypeOK, Call, Steps
    <2>1. calls' = [calls EXCEPT ![r] = c]
      BY <1>1, <2>0 DEF Transit
    <2>2. c.from = calls[r].from /\ c.to = to
      BY <2>0 DEF Call
    <2> HIDE DEF c
    <2> QED
      BY <1>1, <2>1, <2>2, CallKeepsItsStage
  <1>2. CASE to \notin Transitions[calls[r].from]
    BY <1>2, CallEnds DEF Transit
  <1> QED
    BY <1>1, <1>2

LEMMA CallBegins ==
    ASSUME OnboardingTypeOK, Recalls, See, UNCHANGED stage, NEW r \in Calls, NEW c,
           Begin(r, c), c.from = stage, c.step = "stage" => c.to \in Transitions[c.from]
    PROVE  Recalls'
  BY CallKeepsItsStage DEF Begin

LEMMA RecallsInductive ==
    OnboardingTypeOK /\ Recalls /\ See /\ [OnboardingNext]_onboarding => Recalls'
  <1> SUFFICES ASSUME OnboardingTypeOK, Recalls, See, [OnboardingNext]_onboarding
               PROVE  Recalls'
    OBVIOUS
  <1>0. \A r \in Applicants \cup Reviewers : r \in Calls
    BY DEF Calls
  <1>1. ASSUME NEW r \in Applicants, NEW part \in SUBSET {"base", "radius"},
               UpdateOwnProfile(r, part) \/ UpdateOwnCoverage(r, part)
        PROVE  Recalls'
    <2>1. ASSUME NEW step \in {"profile", "coverage"},
                 Begin(r, [NoCall EXCEPT !.step = step, !.from = stage, !.part = part]),
                 UNCHANGED stage
          PROVE  Recalls'
      <3> DEFINE c == [NoCall EXCEPT !.step = step, !.from = stage, !.part = part]
      <3>1. c.step = step /\ c.from = stage
        BY DEF NoCall
      <3> HIDE DEF c
      <3>2. Begin(r, c)
        BY <2>1 DEF c
      <3> QED
        BY <1>0, <2>1, <3>1, <3>2, CallBegins
    <2>2. CASE UpdateOwnProfile(r, part)
      BY <2>1, <2>2 DEF UpdateOwnProfile
    <2>3. CASE UpdateOwnCoverage(r, part)
      BY <2>1, <2>3 DEF UpdateOwnCoverage
    <2> QED
      BY <1>1, <2>2, <2>3
  <1>2. ASSUME NEW r \in Applicants, NEW d \in Documents,
               RequestDocumentUpload(r, d) \/ ConfirmDocumentUpload(r, d)
        PROVE  Recalls'
    <2>1. ASSUME NEW step \in {"upload", "confirm"},
                 Begin(r, [NoCall EXCEPT !.step = step, !.from = stage, !.doc = d]),
                 UNCHANGED stage
          PROVE  Recalls'
      <3> DEFINE c == [NoCall EXCEPT !.step = step, !.from = stage, !.doc = d]
      <3>1. c.step = step /\ c.from = stage
        BY DEF NoCall
      <3> HIDE DEF c
      <3>2. Begin(r, c)
        BY <2>1 DEF c
      <3> QED
        BY <1>0, <2>1, <3>1, <3>2, CallBegins
    <2>2. CASE RequestDocumentUpload(r, d)
      BY <2>1, <2>2 DEF RequestDocumentUpload
    <2>3. CASE ConfirmDocumentUpload(r, d)
      BY <2>1, <2>3 DEF ConfirmDocumentUpload
    <2> QED
      BY <1>2, <2>2, <2>3
  <1>3. ASSUME NEW r \in Calls, NEW to, Decide(r, to) PROVE Recalls'
    <2> DEFINE c == [NoCall EXCEPT !.step = "stage", !.from = stage, !.to = to]
    <2>1. c.from = stage /\ c.to = to
      BY DEF NoCall
    <2> HIDE DEF c
    <2>2. Begin(r, c) /\ to \in Transitions[stage] /\ UNCHANGED stage
      BY <1>3 DEF Decide, c
    <2> QED
      BY <2>1, <2>2, CallBegins
  <1>4. ASSUME NEW r \in Calls, Write(r) PROVE Recalls'
    <2>0. calls[r] # NoCall
      BY <1>4 DEF Write, ProfileWritten, CoverageWritten, DocumentCreated, DocumentReady,
                  StageWritten, EventWritten, NoCall
    <2>1. CASE ProfileWritten(r)
      BY <2>0, <2>1, CallEnds, CallTransits DEF ProfileWritten
    <2>2. CASE CoverageWritten(r) \/ DocumentCreated(r) \/ EventWritten(r)
      BY <2>2, CallEnds DEF CoverageWritten, DocumentCreated, EventWritten
    <2>3. CASE DocumentReady(r)
      BY <2>0, <2>3, CallEnds, CallTransits DEF DocumentReady
    <2>4. CASE StageWritten(r)
      <3> DEFINE c == [calls[r] EXCEPT !.step = "event"]
      <3>1. calls' = [calls EXCEPT ![r] = c] /\ c.from = calls[r].from /\ c.step = "event"
        BY <2>4 DEF StageWritten, OnboardingTypeOK
      <3> HIDE DEF c
      <3> QED
        BY <2>0, <3>1, CallKeepsItsStage
    <2> QED
      BY <1>4, <2>1, <2>2, <2>3, <2>4 DEF Write
  <1>5. ASSUME NEW r \in Calls, Crash(r) PROVE Recalls'
    BY <1>5, CallEnds DEF Crash
  <1>6. CASE UNCHANGED onboarding
    BY <1>6 DEF onboarding, Recalls, See
  <1> QED
    BY <1>0, <1>1, <1>2, <1>3, <1>4, <1>5, <1>6 DEF OnboardingNext, SubmitForReview, Activate, Reject

\* Every call remembers, of all stages it has seen, the one it goes by.
LEMMA CallsRecall == HistorySpec => []Recalls
  <1>1. HistoryInit => Recalls
    BY DEF HistoryInit, MarketInit, OnboardingInit, Recalls
  <1>2. OnboardingTypeOK /\ Recalls /\ [HistoryNext]_historyAndVars => Recalls'
    <2>1. ASSUME Recalls, UNCHANGED historyAndVars PROVE Recalls'
      BY <2>1 DEF historyAndVars, historyVars, vars, Recalls
    <2> QED
      BY <2>1, RecallsInductive, MarketStepsOnboarding DEF HistoryNext
  <1> QED
    BY <1>1, <1>2, HistoryOnlyWatches, MarketImplements, OnboardingTypes, PTL
    DEF HistorySpec, HistoryNext, historyAndVars

\* Writing a stage takes the application to a successor of a stage it has had since the
\* request began, although the write looks at nothing: for any number of requests and
\* decisions that overlap, and whatever crashes between two writes.
THEOREM StageFollows == HistorySpec => StageFollowsWhatWasSeen
  <1> DEFINE Follows == \A r \in Calls :
                           (calls[r].step = "stage" /\ calls'[r].step = "event")
                               => \E s \in seen[r] : stage' \in Transitions[s]
  <1>1. OnboardingTypeOK /\ Recalls /\ [OnboardingNext]_onboarding => Follows
    <2> SUFFICES ASSUME OnboardingTypeOK, Recalls, [OnboardingNext]_onboarding, NEW r \in Calls,
                        calls[r].step = "stage", calls'[r].step = "event"
                 PROVE  \E s \in seen[r] : stage' \in Transitions[s]
      OBVIOUS
    <2>1. calls[r] # NoCall /\ NoCall.step = "none"
      BY DEF NoCall
    <2>2. ASSUME NEW q \in Calls, NEW c, Begin(q, c) PROVE calls'[r] = calls[r]
      BY <2>1, <2>2 DEF Begin, OnboardingTypeOK
    <2>3. ASSUME NEW q \in Calls, End(q) PROVE calls'[r] = calls[r] \/ calls'[r].step = "none"
      BY <2>1, <2>3 DEF End, OnboardingTypeOK
    <2>4. ASSUME NEW q \in Calls, NEW to, Transit(q, to)
          PROVE  calls'[r] = calls[r] \/ calls'[r].step \in {"none", "stage"}
      BY <2>3, <2>4 DEF Transit, OnboardingTypeOK
    <2>5. \A q \in Applicants : \A part :
             ~UpdateOwnProfile(q, part) /\ ~UpdateOwnCoverage(q, part)
      BY <2>2 DEF UpdateOwnProfile, UpdateOwnCoverage, Calls
    <2>6. \A q \in Applicants : \A d :
             ~RequestDocumentUpload(q, d) /\ ~ConfirmDocumentUpload(q, d)
      BY <2>2 DEF RequestDocumentUpload, ConfirmDocumentUpload, Calls
    <2>7. \A q \in Calls : ~SubmitForReview(q) /\ ~Activate(q) /\ ~Reject(q)
      BY <2>2 DEF SubmitForReview, Activate, Reject, Decide
    <2>8. \A q \in Calls : ~Crash(q)
      BY <2>3 DEF Crash
    <2>9. \A q \in Calls : ~ProfileWritten(q) /\ ~DocumentReady(q)
      BY <2>3, <2>4 DEF ProfileWritten, DocumentReady
    <2>10. \A q \in Calls : ~CoverageWritten(q) /\ ~DocumentCreated(q) /\ ~EventWritten(q)
      BY <2>3 DEF CoverageWritten, DocumentCreated, EventWritten
    <2>11. PICK q \in Calls : StageWritten(q)
      BY <2>5, <2>6, <2>7, <2>8, <2>9, <2>10 DEF OnboardingNext, onboarding, Write, Calls
    <2>12. q = r /\ stage' = calls[r].to
      BY <2>11 DEF StageWritten, OnboardingTypeOK
    <2> QED
      BY <2>1, <2>12 DEF Recalls
  <1>2. OnboardingTypeOK /\ Recalls /\ [MarketNext]_vars => [Follows]_<<vars, historyVars>>
    BY <1>1, MarketStepsOnboarding
  <1> QED
    BY <1>2, CallsRecall, HistoryOnlyWatches, MarketImplements, OnboardingTypes, PTL
    DEF MarketSpec, StageFollowsWhatWasSeen

-----------------------------------------------------------------------------
(* What is booked. *)

\* An order under way names an offering, and one that is about to be written names terms that have
\* fitted the job since it began.
Ordered ==
    /\ DOMAIN order = DOMAIN NoOrder
    /\ order.step # "none" => order.offering \in Rows
    /\ order.step = "commit" => <<order.offering, order.version>> \in terms

\* What the reads of assign let through is on offer at that moment.
LEMMA ReadIsOnOffer ==
    ASSUME PublicationInv, NEW o \in Rows, StillFits(o)
    PROVE  <<o, Current(o)>> \in OnOffer
  <1>1. Exists(o)
    BY DEF StillFits, BookableOffering, Exists
  <1>2. Current(o) \in OpenVersions(o)
    BY <1>1 DEF PublicationInv, OneCurrentVersion, Current
  <1>3. FitsTheJob(o, Current(o))
    BY DEF StillFits, BookableOffering, OfferingMatches, FitsTheJob, Bookable
  <1> QED
    BY <1>2, <1>3 DEF OnOffer

LEMMA OrderedInductive ==
    PublicationInv /\ Ordered /\ [HistoryNext]_historyAndVars => Ordered'
  <1> SUFFICES ASSUME PublicationInv, Ordered, [HistoryNext]_historyAndVars PROVE Ordered'
    OBVIOUS
  <1>0. NoOrder.step = "none"
    BY DEF NoOrder
  <1>1. CASE UNCHANGED historyAndVars
    BY <1>1 DEF historyAndVars, historyVars, vars, Ordered
  <1>2. ASSUME Compare, UNCHANGED order PROVE Ordered'
    BY <1>0, <1>2 DEF Compare, Ordered
  <1>3. ASSUME order' = NoOrder PROVE Ordered'
    BY <1>0, <1>3 DEF Ordered
  <1>4. ASSUME NEW o \in Rows, CreateBooking(o) \/ Assign(o) PROVE Ordered'
    <2>1. order'.offering = o /\ order'.step # "commit"
      BY <1>4 DEF CreateBooking, Assign, NoOrder
    <2>2. DOMAIN order' = DOMAIN NoOrder
      BY <1>4 DEF CreateBooking, Assign
    <2> QED
      BY <2>1, <2>2 DEF Ordered
  <1>5. CASE BookingInserted
    <2>1. order.step = "insert"
      BY <1>5 DEF BookingInserted
    <2>2. order'.offering = order.offering /\ DOMAIN order' = DOMAIN order
      BY <1>5 DEF BookingInserted
    <2>3. order'.step # "commit"
      BY <1>5 DEF BookingInserted, Ordered, NoOrder
    <2> QED
      BY <2>1, <2>2, <2>3 DEF Ordered
  <1>6. ASSUME AssignReads, Compare PROVE Ordered'
    <2> DEFINE o == order.offering
    <2>1. order.step = "read" /\ o \in Rows /\ UNCHANGED market
      BY <1>6 DEF AssignReads, Ordered
    <2>2. CASE ~StillFits(o)
      BY <1>3, <1>6, <2>2 DEF AssignReads
    <2>3. CASE StillFits(o)
      <3>1. order' = [order EXCEPT !.step = "commit", !.version = Current(o)]
        BY <1>6, <2>3 DEF AssignReads
      <3>2. <<o, Current(o)>> \in OnOffer
        BY <2>1, <2>3, ReadIsOnOffer
      <3>3. OnOffer' = OnOffer
        <4>1. UNCHANGED <<stage, offerings>>
          BY <2>1 DEF market
        <4> QED
          BY <4>1 DEF OnOffer, OpenVersions, FitsTheJob
      <3>4. order'.step = "commit" /\ order'.offering = o /\ order'.version = Current(o)
        BY <3>1 DEF Ordered, NoOrder
      <3>5. DOMAIN order' = DOMAIN NoOrder
        BY <3>1 DEF Ordered
      <3>6. <<o, Current(o)>> \in terms'
        BY <1>0, <1>6, <3>2, <3>3, <3>4 DEF Compare
      <3> QED
        BY <2>1, <3>4, <3>5, <3>6 DEF Ordered
    <2> QED
      BY <2>2, <2>3
  <1> QED
    BY <1>1, <1>2, <1>3, <1>4, <1>5, <1>6
    DEF HistoryNext, MarketNext, StartOrder, GoOnOrder, AssignCommits, OrderLost, Decline

\* A job is given to an offering, and quoted on a version, that fitted it at one moment while
\* the request was on its way, although the transaction that writes them looks at neither the
\* offering nor its provider: for any number of offerings, editors, decisions and versions.
THEOREM BookedOnTerms == HistorySpec => BookedOnTermsOfOneMoment
  <1> DEFINE Fits == (booking' # booking /\ booking'.offering # None)
                         => <<booking'.offering, booking'.version>> \in terms
  <1>1. HistoryInit => Ordered
    BY DEF HistoryInit, MarketInit, NoOrder, Ordered
  <1>2. Ordered /\ [MarketNext]_vars => Fits
    <2> SUFFICES ASSUME Ordered, [MarketNext]_vars, booking' # booking,
                        booking'.offering # None
                 PROVE  <<booking'.offering, booking'.version>> \in terms
      OBVIOUS
    <2>1. ~BookingInserted /\ ~Decline
      BY DEF BookingInserted, Decline, NoBooking
    <2>2. AssignCommits
      BY <2>1 DEF MarketNext, StartOrder, GoOnOrder, CreateBooking, Assign, AssignReads,
                  OrderLost, vars
    <2> QED
      BY <2>2 DEF AssignCommits, Ordered
  <1>3. Ordered /\ [MarketNext]_vars => [Fits]_<<vars, historyVars>>
    BY <1>2
  <1> QED
    BY <1>1, <1>3, OrderedInductive, HistoryOnlyWatches, MarketImplements, Publication, PTL
    DEF HistorySpec, HistoryNext, historyAndVars, MarketSpec, BookedOnTermsOfOneMoment
=============================================================================
