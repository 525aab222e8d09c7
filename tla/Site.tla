--------------------------------- MODULE Site ---------------------------------
(***************************************************************************)
(* The pages of the web client beside those of module BookingPages.  They    *)
(* share nothing in the browser, so a behaviour follows one of them: the      *)
(* search, the map picker, the desks with their common database, the account. *)
(***************************************************************************)
EXTENDS SearchPage, MapPicker, Desks, AccountPage

VARIABLE shows   \* which of them

siteVars == <<shows, vars, mapVars, deskVars, accountVars>>

\* Only the page that is followed takes steps.
Follows(name, step) == shows = name /\ step /\ UNCHANGED shows
SearchSteps(step) == Follows("search", step) /\ UNCHANGED <<mapVars, deskVars, accountVars>>
MapSteps == Follows("map", MapNext) /\ UNCHANGED <<vars, deskVars, accountVars>>
DesksStep == Follows("desks", DesksNext) /\ UNCHANGED <<vars, mapVars, accountVars>>
AccountSteps == Follows("account", AccountNext) /\ UNCHANGED <<vars, mapVars, deskVars>>

\* The others stay as they begin.
SiteInit ==
    /\ shows \in {"search", "map", "desks", "account"}
    /\ Init /\ MapInit /\ DesksInit /\ AccountInit
    /\ shows = "search" \/ ~reassign
    /\ shows = "desks" \/ desk = "fleet"
    /\ shows = "account" \/ (profile = NoField /\ push.permission = "default")

SiteNext == SearchSteps(Next) \/ MapSteps \/ DesksStep \/ AccountSteps

\* A request of the search page is answered or fails.
SiteSpec ==
    /\ SiteInit /\ [][SiteNext]_siteVars
    /\ WF_siteVars(SearchSteps(\E i \in DOMAIN flights : Answer(i)))
===============================================================================
