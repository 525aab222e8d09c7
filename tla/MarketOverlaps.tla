--------------------------- MODULE MarketOverlaps ---------------------------
(***************************************************************************)
(* Market with a memory of what was true while a request was on its way.     *)
(* No write of the stage and no assignment looks again at what its handler   *)
(* has checked: the history variables below say what it can have checked, so *)
(* that the properties hold with any number of requests overlapping.        *)
(***************************************************************************)
EXTENDS Market

VARIABLES
    seen,    \* per call in flight, the stages the provider has had since it began
    terms    \* the offerings the order could be placed on, and their versions, since it began

historyVars == <<seen, terms>>

See ==
    seen' = [r \in Calls |-> IF calls'[r] = NoCall THEN {}
                             ELSE {stage'} \cup IF calls[r] = NoCall THEN {} ELSE seen[r]]

\* All that has to be true, at one moment, of an offering and its current version.
FitsTheJob(o, n) ==
    /\ stage = "ACTIVATED"
    /\ offerings[o].status = "ACTIVE" /\ JobArea \in offerings[o].areas
    /\ offerings[o].versions[n].minimum <= Quantity

OnOffer ==
    UNION {{<<o, n>> : n \in {m \in OpenVersions(o) : FitsTheJob(o, m)}} : o \in Rows}

Compare ==
    terms' = IF order' = NoOrder THEN {}
             ELSE OnOffer' \cup IF order = NoOrder THEN {} ELSE terms

HistoryInit == MarketInit /\ seen = [r \in Calls |-> {}] /\ terms = {}

HistorySpec == HistoryInit /\ [][MarketNext /\ See /\ Compare]_<<vars, historyVars>>

-----------------------------------------------------------------------------
(* Properties. *)

\* Writing a stage takes the application to a successor of a stage it has had since the
\* request that writes it began: along the declared machine, if nobody else has written the
\* stage meanwhile, and never past a stage, however many decisions overlap.
StageFollowsWhatWasSeen ==
    [][ \A r \in Calls :
          (calls[r].step = "stage" /\ calls'[r].step = "event")
              => \E s \in seen[r] : stage' \in Transitions[s] ]_<<vars, historyVars>>

\* A job is given to an offering, and quoted on a version, that fitted it at one moment
\* while the request was on its way: the provider activated, the offering active and in the
\* job's district, and the version the current one and within the job's size.  Each of these
\* may have changed by the time the assignment commits, and between create's checks and
\* assign's.
BookedOnTermsOfOneMoment ==
    [][ (booking' # booking /\ booking'.offering # None)
           => <<booking'.offering, booking'.version>> \in terms ]_<<vars, historyVars>>
=============================================================================
