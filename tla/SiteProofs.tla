----------------------------- MODULE SiteProofs -----------------------------
(***************************************************************************)
(* The pages of the web client, each by an invariant of its own: the account *)
(* page, the map picker, the search page and the desks, for any names,       *)
(* spots, texts, pins, services and engineers and any number of requests on   *)
(* their way; and the site, which has the properties of its pages.           *)
(***************************************************************************)
EXTENDS Site, SequenceTheorems, WellFoundedInduction, TLAPS

-----------------------------------------------------------------------------
(* The account page. *)

IsErrand(e) ==
    e \in [nr : {e.nr}, kind : {e.kind}, name : {e.name}, field : {e.field},
           before : {e.before}, here : {e.here}, step : {e.step}]

\* What is known of the only save of a name on its way: nothing is shown that is not saved
\* until the API writes, and its answer brings what the API has written.
Honest(e) ==
    /\ e.step = "sent" => shown = account
    /\ (e.kind = "organisation" /\ e.step = "sent") => e.before = shown
    /\ (e.kind = "organisation" /\ e.step = "written")
          => account = [e.before EXCEPT !.organisation = e.name]
    /\ e.step = "read" => e.before = account

Tidy ==
    /\ \A e, f \in errands : (NamesErrand(e) /\ NamesErrand(f)) => e = f
    /\ \A e \in errands : NamesErrand(e) => Honest(e)
    /\ (\A e \in errands : ~NamesErrand(e)) => shown = account

\* A visit to the page has one request on its way; and with no answer lost and no saves that
\* cross, there is one save of a name at a time.
AccountInv ==
    /\ \A e \in errands : /\ IsErrand(e) /\ e.step \in {"sent", "written", "read"}
                          /\ e.step = "read" => e.kind = "profile"
                          /\ e.here => working # "none"
    /\ \A e, f \in errands : (e.here /\ f.here) => e = f
    /\ (~lost /\ ~crossed) => Tidy

\* A request of a page that is left, one that the API goes on with, and one it has read the
\* account for.
LEMMA ErrandLeft ==
    ASSUME NEW e, IsErrand(e), NEW h, NEW f, f = [e EXCEPT !.here = h]
    PROVE  /\ IsErrand(f) /\ f.kind = e.kind /\ f.name = e.name
           /\ f.here = h /\ f.step = e.step /\ f.before = e.before
  <1>1. f \in [nr : {e.nr}, kind : {e.kind}, name : {e.name}, field : {e.field},
               before : {e.before}, here : {h}, step : {e.step}]
    BY DEF IsErrand
  <1> QED
    BY <1>1 DEF IsErrand

LEMMA ErrandWritten ==
    ASSUME NEW e, IsErrand(e), NEW s, NEW f, f = [e EXCEPT !.step = s]
    PROVE  /\ IsErrand(f) /\ f.kind = e.kind /\ f.name = e.name
           /\ f.here = e.here /\ f.step = s /\ f.before = e.before
  <1>1. f \in [nr : {e.nr}, kind : {e.kind}, name : {e.name}, field : {e.field},
               before : {e.before}, here : {e.here}, step : {s}]
    BY DEF IsErrand
  <1> QED
    BY <1>1 DEF IsErrand

LEMMA ErrandRead ==
    ASSUME NEW e, IsErrand(e), NEW b, NEW f, f = [e EXCEPT !.before = b]
    PROVE  /\ IsErrand(f) /\ f.kind = e.kind /\ f.name = e.name
           /\ f.here = e.here /\ f.step = e.step /\ f.before = b
  <1>1. f \in [nr : {e.nr}, kind : {e.kind}, name : {e.name}, field : {e.field},
               before : {b}, here : {e.here}, step : {e.step}]
    BY DEF IsErrand
  <1> QED
    BY <1>1 DEF IsErrand

\* A button is pressed.
LEMMA ErrandSent ==
    ASSUME AccountInv, NEW errand, Send(errand), IsErrand(errand), errand.before = shown,
           errand.here, errand.step = "sent", errand.kind # "none"
    PROVE  AccountInv'
  <1>1. /\ errands' = errands \cup {errand} /\ working' = errand.kind
        /\ working = "none" /\ UNCHANGED <<account, shown, lost>>
        /\ crossed' = (crossed \/ (NamesErrand(errand) /\ \E other \in errands :
                                       NamesErrand(other) /\ ~other.here))
    BY DEF Send, MayPressButton
  <1>2. \A e \in errands : ~e.here
    BY <1>1 DEF AccountInv
  <1>3. \A e \in errands' : /\ IsErrand(e) /\ e.step \in {"sent", "written", "read"}
                            /\ e.step = "read" => e.kind = "profile"
                            /\ e.here => working' # "none"
    BY <1>1, <1>2 DEF AccountInv
  <1>4. \A e, f \in errands' : (e.here /\ f.here) => e = f
    BY <1>1, <1>2
  <1>5. ASSUME ~lost', ~crossed' PROVE Tidy'
    <2>1. Tidy /\ (NamesErrand(errand) => \A e \in errands : ~NamesErrand(e))
      BY <1>1, <1>2, <1>5 DEF AccountInv
    <2>2. CASE NamesErrand(errand)
      <3>1. shown = account
        BY <2>1, <2>2 DEF Tidy
      <3> QED
        BY <1>1, <2>1, <2>2, <3>1 DEF Tidy, Honest, NamesErrand
    <2>3. CASE ~NamesErrand(errand)
      BY <1>1, <2>1, <2>3 DEF Tidy, Honest, NamesErrand
    <2> QED
      BY <2>2, <2>3
  <1> QED
    BY <1>3, <1>4, <1>5 DEF AccountInv

\* A request has its answer, or never will.
LEMMA ErrandEnded ==
    ASSUME AccountInv, NEW errand \in errands, Ends(errand), UNCHANGED <<account, crossed>>,
           lost => lost',
           ~NamesErrand(errand) => shown' = shown,
           (~lost' /\ ~crossed /\ NamesErrand(errand)) => shown' = account
    PROVE  AccountInv'
  <1>1. /\ errands' = errands \ {errand}
        /\ working' = IF errand.here THEN "none" ELSE working
    BY DEF Ends
  <1>2. \A e \in errands' : /\ IsErrand(e) /\ e.step \in {"sent", "written", "read"}
                            /\ e.step = "read" => e.kind = "profile"
                            /\ e.here => working' # "none"
    BY <1>1 DEF AccountInv
  <1>3. \A e, f \in errands' : (e.here /\ f.here) => e = f
    BY <1>1 DEF AccountInv
  <1>4. ASSUME ~lost', ~crossed' PROVE Tidy'
    <2>1. Tidy
      BY <1>4 DEF AccountInv
    <2>2. CASE NamesErrand(errand)
      <3>1. \A e \in errands' : ~NamesErrand(e)
        BY <1>1, <2>1, <2>2 DEF Tidy
      <3>2. shown' = account'
        BY <1>4, <2>2
      <3> QED
        BY <3>1, <3>2 DEF Tidy, NamesErrand
    <2>3. CASE ~NamesErrand(errand)
      BY <1>1, <2>1, <2>3 DEF Tidy, Honest, NamesErrand
    <2> QED
      BY <2>2, <2>3
  <1> QED
    BY <1>2, <1>3, <1>4 DEF AccountInv

\* The API goes on with a request.
LEMMA ErrandGoes ==
    ASSUME AccountInv, NEW errand \in errands, NEW later, Goes(errand, later), IsErrand(later),
           later.kind = errand.kind, later.here = errand.here,
           later.step \in {"written", "read"}, later.step = "read" => later.kind = "profile",
           UNCHANGED <<shown, working, lost, crossed>>,
           ~NamesErrand(errand) => UNCHANGED account,
           (~lost /\ ~crossed /\ NamesErrand(errand)) => Honest(later)'
    PROVE  AccountInv'
  <1>1. errands' = (errands \ {errand}) \cup {later}
    BY DEF Goes
  <1>2. \A e \in errands' : /\ IsErrand(e) /\ e.step \in {"sent", "written", "read"}
                            /\ e.step = "read" => e.kind = "profile"
                            /\ e.here => working' # "none"
    BY <1>1 DEF AccountInv
  <1>3. \A e, f \in errands' : (e.here /\ f.here) => e = f
    BY <1>1 DEF AccountInv
  <1>4. ASSUME ~lost', ~crossed' PROVE Tidy'
    <2>1. Tidy
      BY <1>4 DEF AccountInv
    <2>2. CASE NamesErrand(errand)
      <3>1. \A e \in errands' : NamesErrand(e) => e = later
        BY <1>1, <2>1, <2>2 DEF Tidy
      <3>2. NamesErrand(later) /\ later \in errands' /\ Honest(later)'
        BY <1>1, <1>4, <2>2 DEF NamesErrand
      <3>3. \A e \in errands' : NamesErrand(e)' => Honest(e)'
        BY <3>1, <3>2 DEF NamesErrand, Honest
      <3>4. ~(\A e \in errands' : ~NamesErrand(e)')
        BY <3>2 DEF NamesErrand
      <3>5. \A e, f \in errands' : (NamesErrand(e)' /\ NamesErrand(f)') => e = f
        BY <3>1 DEF NamesErrand
      <3> QED
        BY <3>3, <3>4, <3>5 DEF Tidy
    <2>3. CASE ~NamesErrand(errand)
      <3>1. ~NamesErrand(later)
        BY <2>3 DEF NamesErrand
      <3> QED
        BY <1>1, <2>1, <2>3, <3>1 DEF Tidy, Honest, NamesErrand
    <2> QED
      BY <2>2, <2>3
  <1> QED
    BY <1>2, <1>3, <1>4 DEF AccountInv

\* The page is left: no request is this visit's any more.
LEMMA PageLeft ==
    ASSUME AccountInv, Reopen
    PROVE  AccountInv'
  <1> DEFINE Gone(e) == [e EXCEPT !.here = FALSE]
  <1>1. /\ errands' = {Gone(e) : e \in errands} /\ UNCHANGED <<account, shown, lost, crossed>>
    BY DEF Reopen
  <1>2. ASSUME NEW e \in errands
        PROVE  /\ Gone(e).kind = e.kind /\ Gone(e).step = e.step /\ ~Gone(e).here
               /\ Gone(e).before = e.before /\ Gone(e).name = e.name /\ IsErrand(Gone(e))
    <2>1. IsErrand(e)
      BY DEF AccountInv
    <2> QED
      BY <2>1, ErrandLeft
  <1> HIDE DEF Gone
  <1>3. \A e \in errands' : /\ IsErrand(e) /\ e.step \in {"sent", "written", "read"}
                            /\ e.step = "read" => e.kind = "profile"
                            /\ ~e.here
    BY <1>1, <1>2 DEF AccountInv
  <1>4. ASSUME ~lost', ~crossed' PROVE Tidy'
    <2>1. Tidy
      BY <1>1, <1>4 DEF AccountInv
    <2>2. \A e, f \in errands' : (NamesErrand(e)' /\ NamesErrand(f)') => e = f
      BY <1>1, <1>2, <2>1 DEF Tidy, NamesErrand
    <2>3. \A e \in errands' : NamesErrand(e)' => Honest(e)'
      BY <1>1, <1>2, <2>1 DEF Tidy, NamesErrand, Honest
    <2>4. (\A e \in errands' : ~NamesErrand(e)') => shown' = account'
      BY <1>1, <1>2, <2>1 DEF Tidy, NamesErrand
    <2> QED
      BY <2>2, <2>3, <2>4 DEF Tidy
  <1> QED
    BY <1>3, <1>4 DEF AccountInv

LEMMA AccountInductive ==
    ASSUME AccountInv, [AccountNext]_accountVars
    PROVE  AccountInv'
  <1>0. ASSUME NEW kind, NEW name, NEW place
        PROVE  LET e == [Errand(kind) EXCEPT !.name = name]
                   f == [Errand(kind) EXCEPT !.field = place]
               IN  \A errand \in {e, f, Errand(kind)} :
                      /\ IsErrand(errand) /\ errand.before = shown /\ errand.here
                      /\ errand.step = "sent" /\ errand.kind = kind
    BY DEF Errand, IsErrand
  <1>1. ASSUME NEW name, SaveName(name) PROVE AccountInv'
    <2> DEFINE errand == [Errand("profile") EXCEPT !.name = name]
    <2>1. /\ IsErrand(errand) /\ errand.before = shown /\ errand.here
          /\ errand.step = "sent" /\ errand.kind = "profile"
      BY <1>0
    <2>2. Send(errand)
      BY <1>1 DEF SaveName
    <2> HIDE DEF errand
    <2> QED
      BY <2>1, <2>2, ErrandSent
  <1>2. ASSUME NEW name, RenameOrganisation(name) PROVE AccountInv'
    <2> DEFINE errand == [Errand("organisation") EXCEPT !.name = name]
    <2>1. /\ IsErrand(errand) /\ errand.before = shown /\ errand.here
          /\ errand.step = "sent" /\ errand.kind = "organisation"
      BY <1>0
    <2>2. Send(errand)
      BY <1>2 DEF RenameOrganisation
    <2> HIDE DEF errand
    <2> QED
      BY <2>1, <2>2, ErrandSent
  <1>3. CASE SaveField
    <2> DEFINE errand == [Errand("field") EXCEPT !.field = field]
    <2>1. /\ IsErrand(errand) /\ errand.before = shown /\ errand.here
          /\ errand.step = "sent" /\ errand.kind = "field"
      BY <1>0
    <2>2. Send(errand)
      BY <1>3 DEF SaveField
    <2> HIDE DEF errand
    <2> QED
      BY <2>1, <2>2, ErrandSent
  <1>4. CASE ClearSavedField \/ TurnOnPush \/ ChangePassword
    <2>1. PICK kind \in {"clear", "push", "password"} : Send(Errand(kind))
      BY <1>4 DEF ClearSavedField, TurnOnPush, ChangePassword
    <2>2. /\ IsErrand(Errand(kind)) /\ Errand(kind).before = shown /\ Errand(kind).here
          /\ Errand(kind).step = "sent" /\ Errand(kind).kind = kind
      BY <1>0
    <2> QED
      BY <2>1, <2>2, ErrandSent
  <1>5. ASSUME NEW errand \in errands, ErrandWrites(errand) PROVE AccountInv'
    <2>p. PICK later : later = [errand EXCEPT !.step = "written"]
      OBVIOUS
    <2>0. IsErrand(errand)
      BY DEF AccountInv
    <2>1. /\ IsErrand(later) /\ later.kind = errand.kind /\ later.here = errand.here
          /\ later.step = "written" /\ later.before = errand.before /\ later.name = errand.name
      BY <2>0, <2>p, ErrandWritten
    <2>2. /\ Goes(errand, later) /\ UNCHANGED <<shown, working, lost, crossed>>
          /\ errand.step = "sent"
      BY <1>5, <2>p DEF ErrandWrites
    <2>3. /\ ~NamesErrand(errand) => UNCHANGED account
          /\ errand.kind = "organisation"
                => account' = [account EXCEPT !.organisation = errand.name]
      BY <1>5 DEF ErrandWrites, NamesErrand
    <2>4. ASSUME ~lost, ~crossed, NamesErrand(errand) PROVE Honest(later)'
      <3>1. Honest(errand)
        BY <2>4 DEF AccountInv, Tidy
      <3> QED
        BY <2>1, <2>2, <2>3, <3>1 DEF Honest
    <2> QED
      BY <2>1, <2>2, <2>3, <2>4, ErrandGoes
  <1>6. ASSUME NEW errand \in errands, AccountRead(errand) PROVE AccountInv'
    <2>a. PICK read : read = account
      OBVIOUS
    <2>m. PICK fresh : fresh = [errand EXCEPT !.step = "read"]
      OBVIOUS
    <2>p. PICK later : later = [fresh EXCEPT !.before = read]
      OBVIOUS
    <2>0. IsErrand(errand)
      BY DEF AccountInv
    <2>1. /\ IsErrand(later) /\ later.kind = errand.kind /\ later.here = errand.here
          /\ later.step = "read" /\ later.before = read
      <3>1. /\ IsErrand(fresh) /\ fresh.kind = errand.kind /\ fresh.here = errand.here
            /\ fresh.step = "read"
        BY <2>0, <2>m, ErrandWritten
      <3> QED
        BY <3>1, <2>p, ErrandRead
    <2>2. /\ Goes(errand, later) /\ UNCHANGED <<account, shown, working, lost, crossed>>
          /\ errand.kind = "profile"
      BY <1>6, <2>a, <2>m, <2>p DEF AccountRead
    <2>3. Honest(later)'
      BY <2>a, <2>1, <2>2 DEF Honest
    <2> QED
      BY <2>1, <2>2, <2>3, ErrandGoes
  <1>7. ASSUME NEW errand \in errands, ErrandDone(errand) PROVE AccountInv'
    <2>1. /\ Ends(errand) /\ UNCHANGED <<account, lost, crossed>>
          /\ errand.step = IF errand.kind = "profile" THEN "read" ELSE "written"
          /\ shown' = CASE errand.kind = "profile" -> errand.before
                        [] errand.kind = "organisation" ->
                               [errand.before EXCEPT !.organisation = errand.name]
                        [] OTHER -> shown
      BY <1>7 DEF ErrandDone
    <2>2. ~NamesErrand(errand) => shown' = shown
      BY <2>1 DEF NamesErrand
    <2>3. ASSUME ~lost, ~crossed, NamesErrand(errand) PROVE shown' = account
      <3>1. Honest(errand)
        BY <2>3 DEF AccountInv, Tidy
      <3> QED
        BY <2>1, <2>3, <3>1 DEF Honest, NamesErrand
    <2> QED
      BY <2>1, <2>2, <2>3, ErrandEnded
  <1>8. ASSUME NEW errand \in errands, AnswerGoesMissing(errand) PROVE AccountInv'
    BY <1>8, ErrandEnded DEF AnswerGoesMissing
  <1>9. ASSUME NEW errand \in errands, ErrandFails(errand) PROVE AccountInv'
    <2>1. /\ Ends(errand) /\ errand.step = "sent"
          /\ UNCHANGED <<account, shown, lost, crossed>>
      BY <1>9 DEF ErrandFails
    <2>2. ASSUME ~lost, ~crossed, NamesErrand(errand) PROVE shown' = account
      BY <2>1, <2>2 DEF AccountInv, Tidy, Honest
    <2> QED
      BY <2>1, <2>2, ErrandEnded
  <1>10. ASSUME NEW errand \in errands, NEW permission, NEW registers,
                PushAnswered(errand, permission, registers) \/ PasswordChanged(errand)
         PROVE  AccountInv'
    <2>1. /\ Ends(errand) /\ UNCHANGED <<account, shown, lost, crossed>> /\ ~NamesErrand(errand)
      BY <1>10 DEF PushAnswered, PasswordChanged, NamesErrand
    <2> QED
      BY <2>1, ErrandEnded
  <1>11. ASSUME UNCHANGED <<account, shown, working, errands, lost, crossed>> PROVE AccountInv'
    BY <1>11 DEF AccountInv, Tidy, Honest, NamesErrand, IsErrand
  <1>12. ASSUME NEW available, NEW registers, PushChecked(available, registers) PROVE AccountInv'
    BY <1>11, <1>12 DEF PushChecked
  <1>13. ASSUME NEW x, PickField(x) \/ FieldResolved(x) PROVE AccountInv'
    BY <1>11, <1>13 DEF PickField, FieldResolved
  <1>14. CASE ProfileComes \/ LoadEnds \/ ClearFieldPin
    BY <1>11, <1>14 DEF ProfileComes, LoadEnds, ClearFieldPin
  <1>15. CASE UNCHANGED accountVars
    BY <1>11, <1>15 DEF accountVars
  <1> QED
    BY <1>1, <1>2, <1>3, <1>4, <1>5, <1>6, <1>7, <1>8, <1>9, <1>10, <1>12, <1>13, <1>14, <1>15,
       PageLeft DEF AccountNext

\* Whatever is saved in whatever order, and whenever the page is left: with no answer lost, and
\* no name saved while one from before the page was left is still on its way, the sidebar shows
\* the account the database holds once all is answered.
THEOREM AccountIsShown == AccountSpec => []ShownIsSavedUnlessCrossed
  <1>1. AccountInit => AccountInv
    BY DEF AccountInit, AccountInv, Tidy
  <1>2. AccountInv => ShownIsSavedUnlessCrossed
    BY DEF AccountInv, Tidy, ShownIsSavedUnlessCrossed
  <1> QED
    BY <1>1, <1>2, AccountInductive, PTL DEF AccountSpec

-----------------------------------------------------------------------------
(* The map picker. *)

\* A map that is there shows what the parent gave, and one that is not has been told nothing.
BoardInv ==
    /\ board \in [ready : BOOLEAN, pin : Spots \cup {Nowhere}, applied : Spots \cup {Nowhere},
                  live : Spots \cup {Nowhere}, drawn : Spots \cup {Nowhere}]
    /\ given \in [saved : Spots \cup {Nowhere}, marker : Spots \cup {Nowhere}]
    /\ \A g \in geocodes : g.spot \in Spots
    /\ ~board.ready => board = NoBoard
    /\ board.ready =>
          /\ board.drawn = given.marker /\ board.live = given.marker
          /\ board.applied = given.saved
          /\ (given.saved # Nowhere /\ heard = Untitled) => board.pin = given.saved

\* What is searched for, or waits to be, is the text in the box.
Writing == Texts \cup {Untitled, Nowhere}
Suggestion == {NoSuggestion} \cup [of : Writing, label : Texts, spot : Spots]

BoxInv ==
    /\ box \in [text : Writing, found : Suggestion, searched : Writing, open : BOOLEAN,
                suppress : Writing, searching : BOOLEAN]
    /\ fetch \in [text : Writing, aborted : BOOLEAN]
    /\ timer # Nowhere => timer = box.text
    /\ (fetch # NoFetch /\ ~fetch.aborted) => fetch.text = box.text

MapInv == BoardInv /\ BoxInv

\* The two effects, after each other, show what is given.
LEMMA RedrawShows ==
    ASSUME BoardInv, NEW b, b \in [ready : BOOLEAN, pin : Spots \cup {Nowhere},
               applied : Spots \cup {Nowhere}, live : Spots \cup {Nowhere},
               drawn : Spots \cup {Nowhere}],
           given' \in [saved : Spots \cup {Nowhere}, marker : Spots \cup {Nowhere}],
           ~b.ready => b = NoBoard,
           b.live = b.drawn,
           b.applied # given'.saved => given'.saved # Nowhere,
           (b.applied = given'.saved /\ given'.saved # Nowhere /\ heard = Untitled)
               => b.pin = given'.saved,
           Redraw(b), UNCHANGED <<heard, geocodes>>
    PROVE  BoardInv'
  <1> DEFINE a == ApplySaved(b)
  <1>1. /\ a \in [ready : BOOLEAN, pin : Spots \cup {Nowhere}, applied : Spots \cup {Nowhere},
                  live : Spots \cup {Nowhere}, drawn : Spots \cup {Nowhere}]
        /\ a.ready = b.ready /\ a.live = b.live /\ a.drawn = b.drawn
        /\ ~a.ready => a = NoBoard
        /\ a.ready => /\ a.applied = given'.saved
                      /\ (given'.saved # Nowhere /\ heard = Untitled) => a.pin = given'.saved
    BY DEF ApplySaved, PlaceMarker
  <1> HIDE DEF a
  <1>2. board' = SyncMarkers(a)
    BY DEF Redraw, a
  <1>3. CASE ~a.ready
    BY <1>1, <1>2, <1>3 DEF SyncMarkers, BoardInv, NoBoard
  <1>4. CASE a.ready
    <2>1. /\ board' \in [ready : BOOLEAN, pin : Spots \cup {Nowhere},
                         applied : Spots \cup {Nowhere}, live : Spots \cup {Nowhere},
                         drawn : Spots \cup {Nowhere}]
          /\ board'.ready /\ board'.pin = a.pin /\ board'.applied = a.applied
          /\ board'.live = given'.marker /\ board'.drawn = given'.marker
      BY <1>1, <1>2, <1>4 DEF SyncMarkers
    <2> QED
      BY <1>1, <1>4, <2>1 DEF BoardInv
  <1> QED
    BY <1>3, <1>4

LEMMA BoardInductive ==
    ASSUME MapInv, [MapNext]_mapVars
    PROVE  BoardInv'
  <1> USE MapAssumption DEF MapInv
  <1>0. /\ board \in [ready : BOOLEAN, pin : Spots \cup {Nowhere}, applied : Spots \cup {Nowhere},
                      live : Spots \cup {Nowhere}, drawn : Spots \cup {Nowhere}]
        /\ given \in [saved : Spots \cup {Nowhere}, marker : Spots \cup {Nowhere}]
        /\ ~board.ready => board = NoBoard
        /\ board.live = board.drawn
        /\ NoBoard \in [ready : BOOLEAN, pin : Spots \cup {Nowhere},
                        applied : Spots \cup {Nowhere}, live : Spots \cup {Nowhere},
                        drawn : Spots \cup {Nowhere}]
        /\ ~NoBoard.ready
    BY DEF BoardInv, NoBoard
  <1>1. CASE LeafletLoads
    <2> DEFINE b == [board EXCEPT !.ready = TRUE]
    <2>1. /\ b \in [ready : BOOLEAN, pin : Spots \cup {Nowhere}, applied : Spots \cup {Nowhere},
                    live : Spots \cup {Nowhere}, drawn : Spots \cup {Nowhere}]
          /\ b.ready /\ b.live = b.drawn /\ b.applied = Nowhere
      BY <1>0, <1>1 DEF LeafletLoads, NoBoard
    <2>2. Redraw(b) /\ UNCHANGED <<given, heard, geocodes>>
      BY <1>1 DEF LeafletLoads
    <2> HIDE DEF b
    <2> QED
      BY <1>0, <2>1, <2>2, RedrawShows
  <1>2. ASSUME NEW spot \in Spots, SavedArrives(spot) PROVE BoardInv'
    <2>1. /\ given'.saved = spot /\ spot # given.saved
          /\ given' \in [saved : Spots \cup {Nowhere}, marker : Spots \cup {Nowhere}]
          /\ Redraw(board) /\ UNCHANGED <<heard, geocodes>>
      BY <1>0, <1>2 DEF SavedArrives
    <2>2. board.applied \in {given.saved, Nowhere}
      BY <1>0 DEF BoardInv, NoBoard
    <2> QED
      BY <1>0, <2>1, <2>2, RedrawShows
  <1>3. ASSUME NEW spot \in Spots \cup {Nowhere}, MarkersChange(spot) PROVE BoardInv'
    <2>1. /\ given'.saved = given.saved
          /\ given' \in [saved : Spots \cup {Nowhere}, marker : Spots \cup {Nowhere}]
          /\ Redraw(board) /\ UNCHANGED <<heard, geocodes>>
      BY <1>0, <1>3 DEF MarkersChange
    <2>2. \/ board.applied = given.saved
          \/ board.applied = Nowhere /\ given.saved # Nowhere
      BY <1>0 DEF BoardInv, NoBoard
    <2>3. (board.applied = given.saved /\ given.saved # Nowhere /\ heard = Untitled)
              => board.pin = given.saved
      BY <1>0 DEF BoardInv, NoBoard
    <2> QED
      BY <1>0, <2>1, <2>2, <2>3, RedrawShows
  <1>4. ASSUME board' = NoBoard, UNCHANGED <<given, geocodes>> PROVE BoardInv'
    BY <1>0, <1>4 DEF BoardInv
  <1>5. ASSUME NEW spot \in Spots, NEW locate, UNCHANGED <<board, given, heard>>,
               geocodes' = geocodes \cup {[spot |-> spot, locate |-> locate]}
        PROVE  BoardInv'
    BY <1>5 DEF BoardInv
  <1>6. ASSUME NEW g \in geocodes, PickLands(g) PROVE BoardInv'
    <2>1. g.spot \in Spots /\ g.spot # Untitled
      BY DEF BoardInv
    <2>2. CASE alive
      <3>1. heard' = g.spot /\ board' = PlaceMarker(board, g.spot)
        BY <1>6, <2>2 DEF PickLands
      <3>2. /\ board' \in [ready : BOOLEAN, pin : Spots \cup {Nowhere},
                           applied : Spots \cup {Nowhere}, live : Spots \cup {Nowhere},
                           drawn : Spots \cup {Nowhere}]
            /\ board'.ready = board.ready /\ board'.live = board.live
            /\ board'.drawn = board.drawn /\ board'.applied = board.applied
            /\ ~board.ready => board' = NoBoard
        BY <1>0, <2>1, <3>1 DEF PlaceMarker
      <3>3. given' = given /\ geocodes' \subseteq geocodes
        BY <1>6 DEF PickLands
      <3> QED
        BY <2>1, <3>1, <3>2, <3>3 DEF BoardInv
    <2>3. CASE ~alive
      <3>1. UNCHANGED <<board, given, heard>> /\ geocodes' \subseteq geocodes
        BY <1>6, <2>3 DEF PickLands
      <3> QED
        BY <3>1 DEF BoardInv
    <2> QED
      BY <2>2, <2>3
  <1>7. CASE ClearPick
    <2>1. /\ board' = [board EXCEPT !.pin = Nowhere] /\ heard' = Nowhere
          /\ UNCHANGED <<given, geocodes>>
      BY <1>7 DEF ClearPick
    <2>2. /\ board' \in [ready : BOOLEAN, pin : Spots \cup {Nowhere},
                         applied : Spots \cup {Nowhere}, live : Spots \cup {Nowhere},
                         drawn : Spots \cup {Nowhere}]
          /\ board'.ready = board.ready /\ board'.live = board.live
          /\ board'.drawn = board.drawn /\ board'.applied = board.applied
          /\ ~board.ready => board' = NoBoard
      BY <1>0, <2>1 DEF NoBoard
    <2> QED
      BY <2>1, <2>2 DEF BoardInv
  <1>8. CASE PickSearchResult
    <2>1. box.found.spot \in Spots
      BY <1>8 DEF PickSearchResult, BoxInv, Suggestion
    <2> QED
      BY <1>5, <1>8, <2>1 DEF PickSearchResult, Pick
  <1>9. ASSUME UNCHANGED <<board, given, heard, geocodes>> PROVE BoardInv'
    BY <1>9 DEF BoardInv
  <1>10. CASE EffectsRunAgain \/ Unmount
    BY <1>4, <1>10 DEF EffectsRunAgain, Unmount, Undone
  <1>11. ASSUME NEW spot \in Spots, ClickMap(spot) \/ Positioned(spot) PROVE BoardInv'
    BY <1>5, <1>11 DEF ClickMap, Positioned, Pick
  <1>12. ASSUME NEW x, Type(x) \/ SearchLands(x) PROVE BoardInv'
    BY <1>9, <1>12 DEF Type, SearchLands
  <1>13. CASE LocateMe \/ LocateFails \/ TimerFires \/ SearchFails \/ FocusBox \/ CloseBox
    BY <1>9, <1>13 DEF LocateMe, LocateFails, TimerFires, SearchFails, FocusBox, CloseBox
  <1>14. CASE UNCHANGED mapVars
    BY <1>9, <1>14 DEF mapVars
  <1> QED
    BY <1>1, <1>2, <1>3, <1>6, <1>7, <1>8, <1>10, <1>11, <1>12, <1>13, <1>14 DEF MapNext

LEMMA BoxInductive ==
    ASSUME MapInv, [MapNext]_mapVars
    PROVE  BoxInv'
  <1> USE MapAssumption DEF MapInv, BoxInv
  <1>0. /\ Untitled \in Writing /\ Nowhere \in Writing /\ Texts \subseteq Writing
        /\ NoSuggestion \in Suggestion
        /\ NoFetch \in [text : Writing, aborted : BOOLEAN] /\ ~NoFetch.aborted
    BY DEF Writing, Suggestion, NoFetch
  <1>1. ASSUME UNCHANGED <<box, timer, fetch>> PROVE BoxInv'
    BY <1>1
  <1>2. ASSUME Abort PROVE /\ fetch' \in [text : Writing, aborted : BOOLEAN]
                           /\ fetch' # NoFetch => fetch'.aborted
    BY <1>0, <1>2 DEF Abort
  <1>3. ASSUME NEW text, SearchEffect(text) PROVE timer' # Nowhere => timer' = text
    BY <1>3 DEF SearchEffect
  <1>4. CASE EffectsRunAgain
    <2>1. /\ box' \in [text : Writing, found : Suggestion, searched : Writing, open : BOOLEAN,
                       suppress : Writing, searching : BOOLEAN]
          /\ box'.text = box.text /\ fetch' = fetch
      BY <1>0, <1>4 DEF EffectsRunAgain, Unsuppressed
    <2> QED
      BY <1>3, <1>4, <2>1 DEF EffectsRunAgain
  <1>5. CASE Unmount
    BY <1>5 DEF Unmount
  <1>6. CASE ClearPick
    <2>1. /\ box' \in [text : Writing, found : Suggestion, searched : Writing, open : BOOLEAN,
                       suppress : Writing, searching : BOOLEAN]
          /\ box'.text = Untitled
      BY <1>0, <1>6 DEF ClearPick
    <2>2. timer' # Nowhere => timer' = Untitled
      BY <1>6 DEF ClearPick
    <2> QED
      BY <1>2, <1>6, <2>1, <2>2 DEF ClearPick
  <1>7. ASSUME NEW text \in Texts \cup {Untitled}, Type(text) PROVE BoxInv'
    <2>1. /\ box' \in [text : Writing, found : Suggestion, searched : Writing, open : BOOLEAN,
                       suppress : Writing, searching : BOOLEAN]
          /\ box'.text = text
      BY <1>0, <1>7 DEF Type, Unsuppressed
    <2> QED
      BY <1>2, <1>3, <1>7, <2>1 DEF Type
  <1>8. CASE TimerFires
    <2>1. /\ box' \in [text : Writing, found : Suggestion, searched : Writing, open : BOOLEAN,
                       suppress : Writing, searching : BOOLEAN]
          /\ box'.text = box.text
      BY <1>0, <1>8 DEF TimerFires
    <2> QED
      BY <1>8, <2>1 DEF TimerFires
  <1>9. ASSUME NEW found \in Found, SearchLands(found) PROVE BoxInv'
    <2>1. found \in Suggestion
      BY <1>0 DEF Found, Suggestion
    <2>2. /\ box' \in [text : Writing, found : Suggestion, searched : Writing, open : BOOLEAN,
                       suppress : Writing, searching : BOOLEAN]
          /\ box'.text = box.text
      BY <1>9, <2>1 DEF SearchLands, Settled
    <2> QED
      BY <1>0, <1>9, <2>2 DEF SearchLands, Answered
  <1>10. CASE SearchFails
    <2>1. /\ box' \in [text : Writing, found : Suggestion, searched : Writing, open : BOOLEAN,
                       suppress : Writing, searching : BOOLEAN]
          /\ box'.text = box.text
      BY <1>0, <1>10 DEF SearchFails, Settled
    <2> QED
      BY <1>0, <1>10, <2>1 DEF SearchFails, Answered
  <1>11. CASE FocusBox \/ CloseBox
    <2>1. /\ box' \in [text : Writing, found : Suggestion, searched : Writing, open : BOOLEAN,
                       suppress : Writing, searching : BOOLEAN]
          /\ box'.text = box.text
      BY <1>11 DEF FocusBox, CloseBox
    <2> QED
      BY <1>11, <2>1 DEF FocusBox, CloseBox
  <1>12. CASE PickSearchResult
    <2> DEFINE label == box.found.label
    <2>1. label \in Writing
      BY <1>0, <1>12 DEF PickSearchResult, Suggestion
    <2>2. /\ box' = [box EXCEPT !.text = label, !.open = FALSE,
                                !.suppress = IF label = box.text THEN label ELSE Nowhere]
          /\ timer' = IF label = box.text THEN timer ELSE Nowhere
          /\ Abort
      BY <1>12 DEF PickSearchResult
    <2> HIDE DEF label
    <2>3. /\ box' \in [text : Writing, found : Suggestion, searched : Writing, open : BOOLEAN,
                       suppress : Writing, searching : BOOLEAN]
          /\ box'.text = label
      BY <1>0, <2>1, <2>2
    <2> QED
      BY <1>2, <2>2, <2>3
  <1>13. ASSUME NEW x, SavedArrives(x) \/ MarkersChange(x) \/ ClickMap(x) \/ Positioned(x)
                       \/ PickLands(x)
         PROVE  BoxInv'
    BY <1>1, <1>13 DEF SavedArrives, MarkersChange, ClickMap, Positioned, PickLands
  <1>14. CASE LeafletLoads \/ LocateMe \/ LocateFails \/ UNCHANGED mapVars
    BY <1>1, <1>14 DEF LeafletLoads, LocateMe, LocateFails, mapVars
  <1> QED
    BY <1>4, <1>5, <1>6, <1>7, <1>8, <1>9, <1>10, <1>11, <1>12, <1>13, <1>14 DEF MapNext

LEMMA MapInvariance == MapSpec => []MapInv
  <1>1. MapInit => MapInv
    BY DEF MapInit, MapInv, BoardInv, BoxInv, NoBoard, NoFetch, Writing, Suggestion
  <1>2. MapInv /\ [MapNext]_mapVars => MapInv'
    BY BoardInductive, BoxInductive DEF MapInv
  <1> QED
    BY <1>1, <1>2, PTL DEF MapSpec

\* Whatever came first, Leaflet or what it is to draw: the map shows what was given.
THEOREM MapShowsGiven == MapSpec => []GivenIsDrawn
  <1>1. MapInv => GivenIsDrawn
    BY DEF MapInv, BoardInv, GivenIsDrawn
  <1> QED
    BY <1>1, MapInvariance, PTL

\* Suggestions that appear were found for the text in the box.
THEOREM SuggestedForTheText == MapSpec => SuggestionsForTheText
  <1> DEFINE Suggested == (box'.found # box.found /\ box'.found # NoSuggestion)
                              => box'.found.of = box.text
  <1>1. ASSUME MapInv, MapNext PROVE Suggested
    <2> USE <1>1 DEF MapInv, BoxInv
    <2>1. ASSUME NEW found \in Found, SearchLands(found) PROVE Suggested
      <3>1. box'.found = found /\ fetch.text = box.text
        BY <2>1 DEF SearchLands, Settled, Answered
      <3> QED
        BY <3>1 DEF Found
    <2>2. ASSUME UNCHANGED box PROVE Suggested
      BY <2>2
    <2>3. ASSUME NEW x, SavedArrives(x) \/ MarkersChange(x) \/ ClickMap(x) \/ Positioned(x)
                        \/ PickLands(x)
          PROVE  Suggested
      BY <2>2, <2>3 DEF SavedArrives, MarkersChange, ClickMap, Positioned, PickLands
    <2>4. CASE LeafletLoads \/ LocateMe \/ LocateFails \/ Unmount
      BY <2>2, <2>4 DEF LeafletLoads, LocateMe, LocateFails, Unmount
    <2>5. ASSUME NEW text, Type(text) PROVE box'.found = box.found
      BY <2>5 DEF Type
    <2>6. CASE EffectsRunAgain \/ TimerFires \/ FocusBox \/ CloseBox \/ PickSearchResult
      BY <2>6 DEF EffectsRunAgain, TimerFires, FocusBox, CloseBox, PickSearchResult
    <2>7. CASE ClearPick \/ SearchFails
      BY <2>7 DEF ClearPick, SearchFails, Settled
    <2> QED
      BY <1>1, <2>1, <2>3, <2>4, <2>5, <2>6, <2>7 DEF MapNext
  <1>2. MapInv /\ [MapNext]_mapVars => [Suggested]_mapVars
    BY <1>1
  <1> QED
    BY <1>2, MapInvariance, PTL DEF MapSpec, SuggestionsForTheText

-----------------------------------------------------------------------------
(* The search page. *)

\* The library's least element, for sets of numbers.
Below == {ss \in Nat \X Nat : ss[1] < ss[2]}

LEMMA LeastNumber ==
    ASSUME NEW T, T \subseteq Nat, T # {}
    PROVE  \E x \in T : \A y \in T : x <= y
  <1>1. IsWellFoundedOn({ss \in Nat \X Nat : ss[1] < ss[2]}, Nat)
    BY NatLessThanWellFounded, Zenon DEF OpToRel
  <1>2. PICK x \in T : \A y \in T : <<y, x>> \notin Below
    BY <1>1, WFMin, Zenon DEF Below
  <1>3. ASSUME NEW y \in T PROVE x <= y
    <2>1. x \in Nat /\ y \in Nat /\ ~(y < x)
      BY <1>2 DEF Below
    <2> QED
      BY <2>1
  <1> QED
    BY <1>3

\* What is left when the element at i is taken out.
LEMMA Removed ==
    ASSUME NEW S, NEW s \in Seq(S), NEW i \in DOMAIN s
    PROVE  /\ RemoveAt(s, i) \in Seq(S)
           /\ Len(RemoveAt(s, i)) = Len(s) - 1
           /\ \A k \in 1 .. Len(s) - 1 :
                 RemoveAt(s, i)[k] = IF k < i THEN s[k] ELSE s[k + 1]
  <1>1. i \in 1 .. Len(s) /\ Len(s) \in Nat
    OBVIOUS
  <1>2. /\ SubSeq(s, 1, i - 1) \in Seq(S) /\ Len(SubSeq(s, 1, i - 1)) = i - 1
        /\ \A k \in 1 .. i - 1 : SubSeq(s, 1, i - 1)[k] = s[k]
    BY <1>1, SubSeqProperties
  <1>3. /\ SubSeq(s, i + 1, Len(s)) \in Seq(S) /\ Len(SubSeq(s, i + 1, Len(s))) = Len(s) - i
        /\ \A k \in 1 .. Len(s) - i : SubSeq(s, i + 1, Len(s))[k] = s[i + k]
    BY <1>1, SubSeqProperties
  <1> DEFINE front == SubSeq(s, 1, i - 1)
             back == SubSeq(s, i + 1, Len(s))
  <1>4. RemoveAt(s, i) = front \o back
    BY DEF RemoveAt
  <1> HIDE DEF front, back
  <1>5. /\ front \in Seq(S) /\ Len(front) = i - 1 /\ \A k \in 1 .. i - 1 : front[k] = s[k]
        /\ back \in Seq(S) /\ Len(back) = Len(s) - i
        /\ \A k \in 1 .. Len(s) - i : back[k] = s[i + k]
    BY <1>2, <1>3 DEF front, back
  <1>6. /\ front \o back \in Seq(S) /\ Len(front \o back) = Len(front) + Len(back)
        /\ \A k \in 1 .. Len(front) + Len(back) :
              (front \o back)[k] = IF k <= Len(front) THEN front[k] ELSE back[k - Len(front)]
    BY <1>5, ConcatProperties
  <1>7. Len(front) + Len(back) = Len(s) - 1
    BY <1>1, <1>5
  <1>8. ASSUME NEW k \in 1 .. Len(s) - 1
        PROVE  (front \o back)[k] = IF k < i THEN s[k] ELSE s[k + 1]
    <2>1. CASE k < i
      <3>1. k <= Len(front) /\ k \in 1 .. i - 1
        BY <1>1, <1>5, <2>1
      <3> QED
        BY <1>5, <1>6, <1>7, <2>1, <3>1
    <2>2. CASE ~(k < i)
      <3>1. ~(k <= Len(front)) /\ k - Len(front) \in 1 .. Len(s) - i
            /\ i + (k - Len(front)) = k + 1
        <4>1. Len(front) = i - 1 /\ i \in Nat /\ Len(s) \in Nat
          BY <1>1, <1>5
        <4> QED
          BY <4>1, <2>2
      <3>2. (front \o back)[k] = back[k - Len(front)]
        BY <1>6, <1>7, <3>1
      <3> QED
        BY <1>5, <2>2, <3>1, <3>2
    <2> QED
      BY <2>1, <2>2
  <1> QED
    BY <1>4, <1>6, <1>7, <1>8

\* Which element was taken out is told by what is left.
LEMMA RemovedOnce ==
    ASSUME NEW S, NEW s \in Seq(S), NEW i \in DOMAIN s, NEW j \in DOMAIN s,
           RemoveAt(s, i) = RemoveAt(s, j)
    PROVE  s[i] = s[j]
  <1>1. ASSUME NEW a \in DOMAIN s, NEW b \in DOMAIN s, a < b, RemoveAt(s, a) = RemoveAt(s, b),
               s[a] # s[b]
        PROVE  FALSE
    <2> DEFINE T == {k \in a .. b : s[k] # s[a]}
    <2>1. a \in Nat \ {0} /\ b \in Nat /\ b <= Len(s) /\ Len(s) \in Nat
      OBVIOUS
    <2>2. b \in T /\ T \subseteq Nat
      BY <1>1, <2>1
    <2>3. PICK k \in T : \A l \in T : k <= l
      <3> HIDE DEF T
      <3> QED
        BY <2>2, LeastNumber
    <2>4. k \in Nat /\ a < k /\ k <= b /\ s[k] # s[a]
      BY <2>1
    <2>5. k - 1 \in a .. b /\ k - 1 \notin T
      BY <2>1, <2>3, <2>4
    <2>6. s[k - 1] = s[a]
      BY <2>5
    <2>7. RemoveAt(s, a)[k - 1] = s[k] /\ RemoveAt(s, b)[k - 1] = s[k - 1]
      <3>1. k - 1 \in 1 .. Len(s) - 1 /\ ~(k - 1 < a) /\ k - 1 < b /\ (k - 1) + 1 = k
        BY <2>1, <2>4
      <3> QED
        BY <3>1, Removed
    <2> QED
      BY <1>1, <2>4, <2>6, <2>7
  <1>2. i \in Nat /\ j \in Nat
    OBVIOUS
  <1> QED
    BY <1>1, <1>2

-----------------------------------------------------------------------------
FlightRecord ==
    [kind : {"catalogue", "booking", "profile", "districts", "geocode", "resolve", "search",
             "book"},
     pin : Pins \cup {None}, state : States \cup {None}, district : Districts \cup {None},
     seq : Nat, service : Services \cup {None}]

FormRecord == [service : Services \cup {None}, state : States \cup {None},
               district : Districts \cup {None}, districts : States \cup {None},
               point : Pins \cup {None}]

\* The form, the picks and the bound.
FormTypes ==
    /\ form \in FormRecord
    /\ picks \in [seq : Nat, state : States \cup {None}, district : Districts \cup {None},
                  shown : BOOLEAN]
    /\ moves \in Nat

\* A pin is picked in the catalogue's area; what is still wanted of it is about the pin that
\* landed last.
Fits(f, seq, pin) ==
    /\ f \in FlightRecord
    /\ f.kind \in {"geocode", "resolve"} => f.pin \in Pins
    /\ f.kind = "resolve" => /\ DistrictAt[f.pin] # None
                             /\ f.seq <= seq
                             /\ f.seq = seq => f.pin = pin

\* The booking to reassign is asked for once.
AskedOnce ==
    /\ \A i, j \in DOMAIN flights :
          (flights[i].kind = "booking" /\ flights[j].kind = "booking") => i = j
    /\ \A i \in DOMAIN flights : flights[i].kind = "booking" => reassign /\ "booking" \notin loaded
    /\ "booking" \in loaded => reassign

SearchInv ==
    /\ FormTypes
    /\ flights \in Seq(FlightRecord)
    /\ \A i \in DOMAIN flights : Fits(flights[i], picks.seq, latest)
    /\ AskedOnce

-----------------------------------------------------------------------------
\* Without one of its requests, and with a new one that is not for the booking, the page
\* still asks for the booking once.
LEMMA FewerFlights ==
    ASSUME SearchInv, NEW i \in DOMAIN flights
    PROVE  /\ RemoveAt(flights, i) \in Seq(FlightRecord)
           /\ Len(RemoveAt(flights, i)) = Len(flights) - 1
           /\ \A k \in DOMAIN RemoveAt(flights, i) :
                 \E l \in DOMAIN flights : RemoveAt(flights, i)[k] = flights[l] /\ l # i
           /\ \A k, l \in DOMAIN RemoveAt(flights, i) :
                 (RemoveAt(flights, i)[k].kind = "booking"
                    /\ RemoveAt(flights, i)[l].kind = "booking") => k = l
  <1>1. /\ flights \in Seq(FlightRecord) /\ i \in 1 .. Len(flights) /\ Len(flights) \in Nat
        /\ DOMAIN flights = 1 .. Len(flights)
    BY DEF SearchInv
  <1> DEFINE fs == RemoveAt(flights, i)
  <1>2. /\ fs \in Seq(FlightRecord) /\ Len(fs) = Len(flights) - 1
        /\ \A k \in 1 .. Len(flights) - 1 : fs[k] = IF k < i THEN flights[k] ELSE flights[k + 1]
    BY <1>1, Removed
  <1> HIDE DEF fs
  <1>3. DOMAIN fs = 1 .. Len(flights) - 1
    BY <1>2
  <1>4. \A k \in DOMAIN fs : LET l == IF k < i THEN k ELSE k + 1
                             IN  l \in DOMAIN flights /\ fs[k] = flights[l] /\ l # i
    BY <1>1, <1>2, <1>3
  <1>5. ASSUME NEW k \in DOMAIN fs, NEW l \in DOMAIN fs, fs[k].kind = "booking",
               fs[l].kind = "booking"
        PROVE  k = l
    <2>1. (IF k < i THEN k ELSE k + 1) = (IF l < i THEN l ELSE l + 1)
      BY <1>4, <1>5 DEF SearchInv, AskedOnce
    <2> QED
      BY <1>1, <1>3, <2>1
  <1> QED
    BY <1>2, <1>4, <1>5 DEF fs

\* What the page asks for: what is left of the old, and perhaps one more thing.
LEMMA MoreFlights ==
    ASSUME NEW fs \in Seq(FlightRecord), NEW f \in FlightRecord, f.kind # "booking",
           \A k, l \in DOMAIN fs : (fs[k].kind = "booking" /\ fs[l].kind = "booking") => k = l
    PROVE  /\ Append(fs, f) \in Seq(FlightRecord)
           /\ Len(Append(fs, f)) = Len(fs) + 1
           /\ \A k \in DOMAIN Append(fs, f) :
                 \/ Append(fs, f)[k] = f
                 \/ \E l \in DOMAIN fs : Append(fs, f)[k] = fs[l]
           /\ \A k, l \in DOMAIN Append(fs, f) :
                 (Append(fs, f)[k].kind = "booking" /\ Append(fs, f)[l].kind = "booking")
                     => k = l
  <1> DEFINE gs == Append(fs, f)
  <1>1. gs \in Seq(FlightRecord) /\ Len(gs) = Len(fs) + 1
    OBVIOUS
  <1>2. \A k \in 1 .. Len(fs) : gs[k] = fs[k]
    OBVIOUS
  <1>3. gs[Len(fs) + 1] = f
    OBVIOUS
  <1>4. DOMAIN gs = DOMAIN fs \cup {Len(fs) + 1} /\ DOMAIN fs = 1 .. Len(fs)
    BY <1>1
  <1> HIDE DEF gs
  <1> QED
    BY <1>1, <1>2, <1>3, <1>4 DEF gs

\* Requests that may be on their way after a step: old ones, and new ones that fit.
Flying(fs, seq, pin) ==
    /\ fs \in Seq(FlightRecord)
    /\ \A k \in DOMAIN fs : \/ \E l \in DOMAIN flights : fs[k] = flights[l]
                            \/ Fits(fs[k], seq, pin) /\ fs[k].kind # "booking"
    /\ \A k, l \in DOMAIN fs : (fs[k].kind = "booking" /\ fs[l].kind = "booking") => k = l

LEMMA FlyingKeeps ==
    ASSUME SearchInv, FormTypes', Flying(flights', picks'.seq, latest'),
           picks'.seq > picks.seq \/ UNCHANGED <<picks.seq, latest>>, UNCHANGED reassign,
           "booking" \in loaded' =>
               \/ "booking" \in loaded
               \/ reassign /\ \A k \in DOMAIN flights' : flights'[k].kind # "booking"
    PROVE  SearchInv'
  <1>1. picks.seq \in Nat /\ picks'.seq \in Nat /\ picks'.seq >= picks.seq
    BY DEF SearchInv, FormTypes
  <1>2. ASSUME NEW k \in DOMAIN flights' PROVE Fits(flights'[k], picks'.seq, latest')
    <2>1. CASE \E l \in DOMAIN flights : flights'[k] = flights[l]
      <3>1. PICK l \in DOMAIN flights : flights'[k] = flights[l]
        BY <2>1
      <3>2. Fits(flights[l], picks.seq, latest)
        BY DEF SearchInv
      <3>3. flights[l].seq \in Nat
        BY <3>2 DEF Fits, FlightRecord
      <3> QED
        BY <1>1, <3>1, <3>2, <3>3 DEF Fits
    <2> QED
      BY <2>1 DEF Flying
  <1>3. AskedOnce'
    BY DEF SearchInv, AskedOnce, Flying
  <1> QED
    BY <1>2, <1>3 DEF SearchInv, Flying

\* What is on its way already, less one and plus one.
LEMMA FlyingOn ==
    ASSUME SearchInv, NEW seq, NEW pin
    PROVE  /\ Flying(flights, seq, pin)
           /\ Flying(<<>>, seq, pin)
           /\ \A i \in DOMAIN flights : Flying(RemoveAt(flights, i), seq, pin)
           /\ \A fs, f : (Flying(fs, seq, pin) /\ Fits(f, seq, pin) /\ f.kind # "booking")
                             => Flying(Append(fs, f), seq, pin)
  <1>1. Flying(flights, seq, pin) /\ Flying(<<>>, seq, pin)
    BY DEF SearchInv, AskedOnce, Flying
  <1>2. ASSUME NEW i \in DOMAIN flights PROVE Flying(RemoveAt(flights, i), seq, pin)
    BY FewerFlights DEF Flying
  <1>3. ASSUME NEW fs, NEW f, Flying(fs, seq, pin), Fits(f, seq, pin), f.kind # "booking"
        PROVE  Flying(Append(fs, f), seq, pin)
    <2>1. fs \in Seq(FlightRecord) /\ f \in FlightRecord
      BY <1>3 DEF Flying, Fits
    <2>2. \A k, l \in DOMAIN fs : (fs[k].kind = "booking" /\ fs[l].kind = "booking") => k = l
      BY <1>3 DEF Flying
    <2> QED
      BY <1>3, <2>1, <2>2, MoreFlights DEF Flying
  <1> QED
    BY <1>1, <1>2, <1>3

\* A request that is not a pick's fits anyhow.
LEMMA PlainFits ==
    ASSUME NEW f \in FlightRecord, f.kind \notin {"geocode", "resolve"}, NEW seq, NEW pin
    PROVE  Fits(f, seq, pin)
  BY DEF Fits

LEMMA SearchForFits ==
    ASSUME NEW f \in FormRecord, NEW seq, NEW pin
    PROVE  Fits(SearchFor(f), seq, pin) /\ SearchFor(f).kind = "search"
  <1>1. f.service \in Services \cup {None} /\ f.point \in Pins \cup {None}
    BY DEF FormRecord
  <1>2. SearchFor(f) \in FlightRecord /\ SearchFor(f).kind = "search"
    BY <1>1 DEF SearchFor, Flight, FlightRecord
  <1> QED
    BY <1>2, PlainFits

LEMMA SettleFlies ==
    ASSUME SearchInv, NEW before, NEW f \in FormRecord, NEW known, NEW seq, NEW pin,
           Flying(before, seq, pin), Settle(before, f, known)
    PROVE  /\ Flying(flights', seq, pin)
           /\ (\A k \in DOMAIN before : before[k].kind # "booking")
                 => \A k \in DOMAIN flights' : flights'[k].kind # "booking"
  <1>1. Fits(SearchFor(f), seq, pin) /\ SearchFor(f).kind = "search"
    BY SearchForFits
  <1>2. Flying(Append(before, SearchFor(f)), seq, pin)
    BY <1>1, FlyingOn
  <1>3. /\ before \in Seq(FlightRecord) /\ SearchFor(f) \in FlightRecord
        /\ \A k, l \in DOMAIN before :
              (before[k].kind = "booking" /\ before[l].kind = "booking") => k = l
    BY <1>1 DEF Flying, Fits
  <1>4. \A k \in DOMAIN Append(before, SearchFor(f)) :
           \/ Append(before, SearchFor(f))[k] = SearchFor(f)
           \/ \E l \in DOMAIN before : Append(before, SearchFor(f))[k] = before[l]
    BY <1>1, <1>3, MoreFlights
  <1>5. flights' \in {before, Append(before, SearchFor(f))}
    BY DEF Settle
  <1> QED
    BY <1>1, <1>2, <1>4, <1>5

-----------------------------------------------------------------------------
\* Where None stands for nothing chosen.
LEMMA Places ==
    /\ \A pin \in Pins : /\ DistrictAt[pin] \in Districts \cup {None}
                         /\ DistrictAt[pin] # None => StateOf[DistrictAt[pin]] \in States
    /\ Saved \in Pins /\ DistrictAt[Saved] \in Districts /\ StateOf[DistrictAt[Saved]] \in States
    /\ FirstService \in Services /\ BookingService \in Services
  BY SearchAssumption

\* An answer that only takes its request away.
LEMMA LandKeeps ==
    ASSUME SearchInv, NEW i \in DOMAIN flights, Land(i), FormTypes',
           UNCHANGED <<picks.seq, latest, reassign>>,
           "booking" \in loaded' => "booking" \in loaded
    PROVE  SearchInv'
  <1>1. Flying(flights', picks'.seq, latest')
    BY FlyingOn DEF Land
  <1> QED
    BY <1>1, FlyingKeeps

\* A request that only joins the others.
LEMMA RequestKeeps ==
    ASSUME SearchInv, NEW f \in FlightRecord, Request(f), f.kind \notin {"booking", "resolve"},
           f.kind = "geocode" => f.pin \in Pins,
           FormTypes', picks'.seq > picks.seq \/ UNCHANGED <<picks.seq, latest>>,
           UNCHANGED <<reassign, loaded>>
    PROVE  SearchInv'
  <1>1. Fits(f, picks'.seq, latest')
    BY DEF Fits
  <1>2. Flying(flights', picks'.seq, latest')
    BY <1>1, FlyingOn DEF Request
  <1> QED
    BY <1>2, FlyingKeeps

LEMMA AnswerKeeps ==
    ASSUME SearchInv, NEW i \in DOMAIN flights, Answer(i)
    PROVE  SearchInv'
  <1>0. /\ form \in FormRecord /\ moves \in Nat /\ picks.seq \in Nat
        /\ picks \in [seq : Nat, state : States \cup {None}, district : Districts \cup {None},
                      shown : BOOLEAN]
        /\ flights[i] \in FlightRecord
        /\ flights[i].kind \in {"geocode", "resolve"} => flights[i].pin \in Pins
        /\ flights[i].kind = "resolve" => DistrictAt[flights[i].pin] # None
    BY DEF SearchInv, FormTypes, Fits
  <1>1. UNCHANGED <<form, picks, moves>> => FormTypes'
    BY DEF SearchInv, FormTypes
  <1>2. CASE CatalogueAnswered(i)
    <2>1. form' \in FormRecord
      BY <1>0, <1>2, Places DEF CatalogueAnswered, FormRecord
    <2> QED
      BY <1>0, <1>2, <2>1, LandKeeps DEF CatalogueAnswered, FormTypes
  <1>3. ASSUME NEW d \in Districts, NEW pin \in Pins \cup {None}, BookingAnswered(i, d, pin)
        PROVE  SearchInv'
    <2> DEFINE f == [form EXCEPT !.service = BookingService, !.district = d,
                                 !.point = IF pin = None THEN @ ELSE pin]
    <2>1. f \in FormRecord
      BY <1>0, Places DEF FormRecord
    <2>2. /\ form' = f /\ Settle(RemoveAt(flights, i), f, loaded')
          /\ flights[i].kind = "booking" /\ UNCHANGED <<reassign, picks, latest, moves>>
      BY <1>3 DEF BookingAnswered, Arrives
    <2> HIDE DEF f
    <2>3. Flying(RemoveAt(flights, i), picks'.seq, latest')
      BY FlyingOn
    <2>4. \A k \in DOMAIN RemoveAt(flights, i) : RemoveAt(flights, i)[k].kind # "booking"
      BY <2>2, FewerFlights DEF SearchInv, AskedOnce
    <2>5. /\ Flying(flights', picks'.seq, latest')
          /\ \A k \in DOMAIN flights' : flights'[k].kind # "booking"
      BY <2>1, <2>2, <2>3, <2>4, SettleFlies
    <2>6. reassign
      BY <2>2 DEF SearchInv, AskedOnce
    <2>7. FormTypes'
      BY <1>0, <2>1, <2>2 DEF FormTypes
    <2> QED
      BY <2>2, <2>5, <2>6, <2>7, FlyingKeeps
  <1>4. CASE ProfileAnswered(i)
    <2> DEFINE state == StateOf[DistrictAt[Saved]]
               f == [Flight("districts") EXCEPT !.state = state, !.district = DistrictAt[Saved]]
    <2>1. form' = [form EXCEPT !.point = Saved, !.state = state, !.district = None]
      BY <1>4 DEF ProfileAnswered
    <2>2. form' \in FormRecord
      BY <1>0, <2>1, Places DEF FormRecord
    <2>3. f \in FlightRecord /\ f.kind = "districts"
      BY Places DEF FlightRecord, Flight
    <2>4. /\ flights' = Append(RemoveAt(flights, i), f)
          /\ UNCHANGED <<reassign, loaded, picks, latest, moves>>
      BY <1>4 DEF ProfileAnswered, LandAndRequest
    <2> HIDE DEF f, state
    <2>5. Fits(f, picks'.seq, latest')
      BY <2>3, PlainFits
    <2>6. Flying(flights', picks'.seq, latest')
      BY <2>3, <2>4, <2>5, FlyingOn
    <2>7. FormTypes'
      BY <1>0, <2>2, <2>4 DEF FormTypes
    <2> QED
      BY <2>4, <2>6, <2>7, FlyingKeeps
  <1>5. CASE DistrictsAnswered(i)
    <2>1. form' \in FormRecord
      BY <1>0, <1>5 DEF DistrictsAnswered, FormRecord, FlightRecord
    <2> QED
      BY <1>0, <1>5, <2>1, LandKeeps DEF DistrictsAnswered, FormTypes
  <1>6. ASSUME NEW named \in BOOLEAN, Picked(i, named) PROVE SearchInv'
    <2> DEFINE pin == flights[i].pin
               n == picks.seq + 1
               resolve == [Flight("resolve") EXCEPT !.pin = pin, !.seq = n]
    <2>1. flights[i].kind = "geocode" /\ pin \in Pins /\ n \in Nat
      BY <1>0, <1>6 DEF Picked, Arrives
    <2>2. [form EXCEPT !.point = pin] \in FormRecord
      BY <1>0, <2>1 DEF FormRecord
    <2>3. /\ resolve \in FlightRecord /\ resolve.kind = "resolve" /\ resolve.pin = pin
          /\ resolve.seq = n
      <3> HIDE DEF pin, n
      <3> QED
        BY <2>1 DEF FlightRecord, Flight
    <2> HIDE DEF resolve
    <2>4. /\ form' = [form EXCEPT !.point = pin]
          /\ picks' = [picks EXCEPT !.seq = n, !.shown = TRUE]
          /\ latest' = pin /\ UNCHANGED <<reassign, loaded, moves>>
      BY <1>6 DEF Picked
    <2>5. /\ picks' \in [seq : Nat, state : States \cup {None},
                         district : Districts \cup {None}, shown : BOOLEAN]
          /\ picks'.seq = n
      <3> HIDE DEF n
      <3> QED
        BY <1>0, <2>1, <2>4
    <2> DEFINE snaps == named /\ "catalogue" \in loaded /\ DistrictAt[pin] # None
               before == IF snaps THEN Append(RemoveAt(flights, i), resolve)
                         ELSE RemoveAt(flights, i)
    <2>6. Settle(before, [form EXCEPT !.point = pin], loaded)
      BY <1>6 DEF Picked, resolve
    <2>7. Flying(RemoveAt(flights, i), picks'.seq, latest')
      BY FlyingOn
    <2>8. snaps => Fits(resolve, picks'.seq, latest')
      <3> HIDE DEF pin, n
      <3> QED
        BY <2>1, <2>3, <2>4, <2>5 DEF Fits
    <2>9. Flying(before, picks'.seq, latest')
      BY <2>3, <2>7, <2>8, FlyingOn
    <2> HIDE DEF before
    <2>10. Flying(flights', picks'.seq, latest')
      BY <2>2, <2>6, <2>9, SettleFlies
    <2>11. FormTypes'
      BY <1>0, <2>2, <2>4, <2>5 DEF FormTypes
    <2>12. picks'.seq > picks.seq
      BY <1>0, <2>5
    <2> QED
      BY <2>4, <2>10, <2>11, <2>12, FlyingKeeps
  <1>7. CASE PinResolved(i)
    <2> DEFINE d == DistrictAt[flights[i].pin]
    <2>1. flights[i].kind = "resolve" /\ d \in Districts /\ StateOf[d] \in States
      BY <1>0, <1>7, Places DEF PinResolved, Arrives
    <2>2. \/ form' = [form EXCEPT !.state = StateOf[d], !.districts = StateOf[d], !.district = d]
             /\ picks' = [picks EXCEPT !.state = StateOf[d], !.district = d]
          \/ UNCHANGED <<form, picks>>
      BY <1>7 DEF PinResolved
    <2> HIDE DEF d
    <2>3. form' \in FormRecord
      BY <1>0, <2>1, <2>2 DEF FormRecord
    <2>4. /\ picks' \in [seq : Nat, state : States \cup {None},
                         district : Districts \cup {None}, shown : BOOLEAN]
          /\ picks'.seq = picks.seq
      BY <1>0, <2>1, <2>2
    <2>5. Land(i) /\ UNCHANGED <<latest, reassign, loaded, moves>>
      BY <1>7 DEF PinResolved
    <2>6. FormTypes'
      BY <1>0, <2>3, <2>4, <2>5 DEF FormTypes
    <2> QED
      BY <2>4, <2>5, <2>6, LandKeeps
  <1>8. ASSUME NEW found, SearchAnswered(i, found) PROVE SearchInv'
    BY <1>1, <1>8, LandKeeps DEF SearchAnswered
  <1>9. CASE Booked(i)
    <2>1. Flying(flights', picks'.seq, latest')
      BY <1>9, FlyingOn DEF Booked
    <2> QED
      BY <1>1, <1>9, <2>1, FlyingKeeps DEF Booked
  <1>10. CASE BookFailed(i) \/ NothingComes(i)
    BY <1>1, <1>10, LandKeeps DEF BookFailed, NothingComes
  <1> QED
    BY <1>2, <1>3, <1>4, <1>5, <1>6, <1>7, <1>8, <1>9, <1>10 DEF Answer

LEMMA SearchInductive ==
    ASSUME SearchInv, [Next]_vars
    PROVE  SearchInv'
  <1> USE SearchAssumption
  <1>0. /\ form \in FormRecord /\ moves \in Nat /\ picks.seq \in Nat
        /\ picks \in [seq : Nat, state : States \cup {None}, district : Districts \cup {None},
                      shown : BOOLEAN]
    BY DEF SearchInv, FormTypes
  <1>1. Move => moves' \in Nat
    BY <1>0 DEF Move
  <1>2. ASSUME NEW pin \in Pins, ChoosePlace(pin) PROVE SearchInv'
    <2> DEFINE f == [Flight("geocode") EXCEPT !.pin = pin]
    <2>1. f \in FlightRecord /\ f.kind = "geocode" /\ f.pin = pin
      BY DEF Flight, FlightRecord
    <2>2. Request(f) /\ UNCHANGED <<reassign, form, loaded, picks, latest>>
      BY <1>2 DEF ChoosePlace
    <2>3. FormTypes'
      BY <1>0, <1>1, <1>2, <2>2 DEF ChoosePlace, FormTypes
    <2> HIDE DEF f
    <2> QED
      BY <2>1, <2>2, <2>3, RequestKeeps
  <1>3. CASE ClearPin
    <2>1. picks' = [seq |-> picks.seq + 1, state |-> None, district |-> None, shown |-> FALSE]
      BY <1>3 DEF ClearPin
    <2>2. /\ picks' \in [seq : Nat, state : States \cup {None},
                         district : Districts \cup {None}, shown : BOOLEAN]
          /\ picks'.seq > picks.seq
      BY <1>0, <2>1
    <2>3. form' \in FormRecord
      BY <1>0, <1>3 DEF ClearPin, FormRecord
    <2>4. FormTypes' /\ UNCHANGED <<reassign, loaded, flights>>
      BY <1>1, <1>3, <2>2, <2>3 DEF ClearPin, FormTypes
    <2>5. Flying(flights', picks'.seq, latest')
      BY <2>4, FlyingOn
    <2> QED
      BY <2>2, <2>4, <2>5, FlyingKeeps
  <1>4. ASSUME NEW st \in States \cup {None}, SelectState(st) PROVE SearchInv'
    <2>1. picks' = [picks EXCEPT !.seq = picks.seq + 1]
      BY <1>4 DEF SelectState
    <2>2. /\ picks' \in [seq : Nat, state : States \cup {None},
                         district : Districts \cup {None}, shown : BOOLEAN]
          /\ picks'.seq > picks.seq
      BY <1>0, <2>1
    <2>3. form' \in FormRecord
      BY <1>0, <1>4 DEF SelectState, FormRecord
    <2>4. FormTypes' /\ UNCHANGED <<reassign, loaded>>
      BY <1>1, <1>4, <2>2, <2>3 DEF SelectState, FormTypes
    <2>5. CASE st = None
      <3>1. UNCHANGED flights
        BY <1>4, <2>5 DEF SelectState
      <3>2. Flying(flights', picks'.seq, latest')
        BY <3>1, FlyingOn
      <3> QED
        BY <2>2, <2>4, <3>2, FlyingKeeps
    <2>6. CASE st # None
      <3> DEFINE f == [Flight("districts") EXCEPT !.state = st]
      <3>1. f \in FlightRecord /\ f.kind = "districts"
        BY DEF Flight, FlightRecord
      <3>2. Request(f)
        BY <1>4, <2>6 DEF SelectState
      <3> HIDE DEF f
      <3> QED
        BY <2>2, <2>4, <3>1, <3>2, RequestKeeps
    <2> QED
      BY <2>5, <2>6
  <1>5. ASSUME NEW d \in Districts, SelectDistrict(d) PROVE SearchInv'
    <2>1. form' \in FormRecord
      BY <1>0, <1>5 DEF SelectDistrict, FormRecord
    <2>2. FormTypes' /\ UNCHANGED <<reassign, loaded, flights, picks, latest>>
      BY <1>0, <1>1, <1>5, <2>1 DEF SelectDistrict, FormTypes
    <2>3. Flying(flights', picks'.seq, latest')
      BY <2>2, FlyingOn
    <2> QED
      BY <2>2, <2>3, FlyingKeeps
  <1>6. ASSUME NEW v \in Services, SelectService(v) PROVE SearchInv'
    <2> DEFINE f == [form EXCEPT !.service = v]
    <2>1. f \in FormRecord
      BY <1>0 DEF FormRecord
    <2>2. /\ form' = f /\ Settle(flights, f, loaded)
          /\ UNCHANGED <<reassign, loaded, picks, latest>> /\ moves' \in Nat
      BY <1>1, <1>6 DEF SelectService
    <2> HIDE DEF f
    <2>3. Flying(flights, picks'.seq, latest')
      BY FlyingOn
    <2>4. Flying(flights', picks'.seq, latest')
      BY <2>1, <2>2, <2>3, SettleFlies
    <2>5. FormTypes'
      BY <1>0, <2>1, <2>2 DEF FormTypes
    <2> QED
      BY <2>2, <2>4, <2>5, FlyingKeeps
  <1>7. CASE Submit \/ Resort
    <2>1. /\ Request(SearchFor(form)) /\ moves' \in Nat
          /\ UNCHANGED <<reassign, form, loaded, picks, latest>>
      BY <1>1, <1>7 DEF Submit, Resort
    <2>2. SearchFor(form) \in FlightRecord /\ SearchFor(form).kind = "search"
      BY <1>0, SearchForFits DEF Fits
    <2>3. FormTypes'
      BY <1>0, <2>1 DEF FormTypes
    <2> QED
      BY <2>1, <2>2, <2>3, RequestKeeps
  <1>8. CASE Book
    <2> DEFINE f == [Flight("book") EXCEPT !.service = form.service, !.pin = form.point,
                                           !.district = form.district]
    <2>1. f \in FlightRecord /\ f.kind = "book"
      BY <1>0 DEF Flight, FlightRecord, FormRecord
    <2>2. /\ Request(f) /\ moves' \in Nat /\ UNCHANGED <<reassign, form, loaded, picks, latest>>
      BY <1>1, <1>8 DEF Book
    <2> HIDE DEF f
    <2>3. FormTypes'
      BY <1>0, <2>2 DEF FormTypes
    <2> QED
      BY <2>1, <2>2, <2>3, RequestKeeps
  <1>9. CASE UNCHANGED vars
    BY <1>9 DEF vars, SearchInv, FormTypes, AskedOnce
  <1> QED
    BY <1>2, <1>3, <1>4, <1>5, <1>6, <1>7, <1>8, <1>9, AnswerKeeps DEF Next

LEMMA SearchStarts ==
    ASSUME Init
    PROVE  SearchInv
  <1> DEFINE a == Flight("catalogue")
             b == Flight(IF reassign THEN "booking" ELSE "profile")
  <1>1. /\ a \in FlightRecord /\ a.kind = "catalogue"
        /\ b \in FlightRecord /\ b.kind = IF reassign THEN "booking" ELSE "profile"
    BY DEF Flight, FlightRecord
  <1>2. flights = <<a, b>> /\ loaded = {} /\ reassign \in BOOLEAN
    BY DEF Init
  <1> HIDE DEF a, b
  <1>3. /\ flights \in Seq(FlightRecord) /\ DOMAIN flights = {1, 2}
        /\ flights[1] = a /\ flights[2] = b
    BY <1>1, <1>2
  <1>4. FormTypes
    BY SearchAssumption DEF Init, FormTypes, FormRecord
  <1>5. \A i \in DOMAIN flights : Fits(flights[i], picks.seq, latest)
    BY <1>1, <1>2, <1>3, PlainFits
  <1>6. AskedOnce
    BY <1>1, <1>2, <1>3 DEF AskedOnce
  <1> QED
    BY <1>3, <1>4, <1>5, <1>6 DEF SearchInv

LEMMA SearchInvariance == Spec => []SearchInv
  BY SearchStarts, SearchInductive, PTL DEF Spec

-----------------------------------------------------------------------------
\* No step but an answer shortens what is on its way by one and writes the form; and of the
\* answers, only a resolve takes a resolve away and writes it.
LEMMA OnlyTheLatestFills ==
    ASSUME SearchInv, [Next]_vars, NEW i \in DOMAIN flights, flights[i].kind = "resolve",
           flights' = RemoveAt(flights, i), form' # form
    PROVE  flights[i].pin = latest
  <1>1. /\ flights \in Seq(FlightRecord) /\ Len(flights) \in Nat
        /\ flights' \in Seq(FlightRecord) /\ Len(flights') = Len(flights) - 1
    BY FewerFlights DEF SearchInv
  <1>2. ~(\/ flights' = flights
          \/ \E f \in FlightRecord : flights' = Append(flights, f))
    BY <1>1
  <1>3. \A j \in DOMAIN flights, f \in FlightRecord :
           flights' # Append(RemoveAt(flights, j), f)
    BY <1>1, FewerFlights
  <1>4. \A j \in DOMAIN flights : flights' = RemoveAt(flights, j) => flights[j] = flights[i]
    BY <1>1, RemovedOnce
  <1>5. /\ form \in FormRecord /\ picks.seq \in Nat
        /\ \A f \in FormRecord : SearchFor(f) \in FlightRecord
    BY SearchForFits DEF SearchInv, FormTypes, Fits
  <1>6. PICK j \in DOMAIN flights : Answer(j)
    <2>1. ~Submit /\ ~Resort /\ ~Book /\ ~ClearPin /\ ~UNCHANGED vars
      BY <1>2, <1>5 DEF Submit, Resort, Book, ClearPin, Request, vars
    <2>2. /\ \A pin \in Pins : ~ChoosePlace(pin)
          /\ \A d \in Districts : ~SelectDistrict(d)
      BY <1>2 DEF ChoosePlace, SelectDistrict
    <2>3. ASSUME NEW s \in States \cup {None}, SelectState(s) PROVE FALSE
      <3>1. [Flight("districts") EXCEPT !.state = s] \in FlightRecord
        BY DEF Flight, FlightRecord
      <3> QED
        BY <1>2, <2>3, <3>1 DEF SelectState, Request
    <2>4. ASSUME NEW v \in Services, SelectService(v) PROVE FALSE
      <3>1. [form EXCEPT !.service = v] \in FormRecord
        BY <1>5 DEF FormRecord
      <3> QED
        BY <1>2, <1>5, <2>4, <3>1 DEF SelectService, Settle
    <2> QED
      BY <2>1, <2>2, <2>3, <2>4 DEF Next
  <1>7. CASE PinResolved(j)
    <2>1. flights[j] = flights[i] /\ StillWanted(j)
      BY <1>4, <1>7 DEF PinResolved, Land
    <2>2. Fits(flights[i], picks.seq, latest)
      BY DEF SearchInv
    <2> QED
      BY <2>1, <2>2 DEF StillWanted, Fits
  <1>8. ~(\/ CatalogueAnswered(j) \/ DistrictsAnswered(j)
          \/ \E found \in BOOLEAN : SearchAnswered(j, found)
          \/ Booked(j) \/ BookFailed(j) \/ NothingComes(j))
    BY <1>4 DEF CatalogueAnswered, DistrictsAnswered, SearchAnswered, Booked, BookFailed,
                NothingComes, Land, Arrives
  <1>9. ~ProfileAnswered(j)
    <2>1. [Flight("districts") EXCEPT !.state = StateOf[DistrictAt[Saved]],
                                      !.district = DistrictAt[Saved]] \in FlightRecord
      BY Places DEF Flight, FlightRecord
    <2> QED
      BY <1>3, <2>1 DEF ProfileAnswered, LandAndRequest
  <1>10. ASSUME NEW d \in Districts, NEW pin \in Pins \cup {None}, BookingAnswered(j, d, pin)
         PROVE  FALSE
    <2> DEFINE f == [form EXCEPT !.service = BookingService, !.district = d,
                                 !.point = IF pin = None THEN @ ELSE pin]
    <2>1. f \in FormRecord
      BY <1>5, Places DEF FormRecord
    <2>2. Settle(RemoveAt(flights, j), f, loaded') /\ flights[j].kind = "booking"
      BY <1>10 DEF BookingAnswered, Arrives
    <2> HIDE DEF f
    <2>3. flights' = RemoveAt(flights, j)
      BY <1>3, <1>5, <2>1, <2>2 DEF Settle
    <2> QED
      BY <1>4, <2>2, <2>3
  <1>11. ASSUME NEW named \in BOOLEAN, Picked(j, named)
         PROVE  FALSE
    <2> DEFINE pin == flights[j].pin
               n == picks.seq + 1
               resolve == [Flight("resolve") EXCEPT !.pin = pin, !.seq = n]
               f == [form EXCEPT !.point = flights[j].pin]
    <2>1. flights[j].kind = "geocode" /\ pin \in Pins /\ n \in Nat
      BY <1>5, <1>11 DEF Picked, Arrives, SearchInv, Fits
    <2>2. f \in FormRecord
      BY <1>5, <2>1 DEF FormRecord
    <2>3. resolve \in FlightRecord
      <3> HIDE DEF pin, n
      <3> QED
        BY <2>1 DEF Flight, FlightRecord
    <2>4. \/ Settle(RemoveAt(flights, j), f, loaded)
          \/ Settle(Append(RemoveAt(flights, j), resolve), f, loaded)
      BY <1>11 DEF Picked
    <2> HIDE DEF f, resolve
    <2>5. /\ RemoveAt(flights, j) \in Seq(FlightRecord)
          /\ Len(RemoveAt(flights, j)) = Len(flights) - 1
      BY FewerFlights
    <2>6. flights' # Append(Append(RemoveAt(flights, j), resolve), SearchFor(f))
      BY <1>1, <1>5, <2>2, <2>3, <2>5
    <2>7. flights' = RemoveAt(flights, j)
      BY <1>3, <1>5, <2>2, <2>3, <2>4, <2>6 DEF Settle
    <2> QED
      BY <1>4, <2>1, <2>7
  <1> QED
    BY <1>6, <1>7, <1>8, <1>9, <1>10, <1>11 DEF Answer

\* Whatever order the geocoder and the catalogue answer in, the district filled in is that
\* of the pin that landed last.
THEOREM LatestMoveFills == Spec => FillsForTheLatestMove
  <1>1. ASSUME SearchInv, [Next]_vars
        PROVE  [ \A i \in DOMAIN flights :
                   (flights[i].kind = "resolve" /\ flights' = RemoveAt(flights, i)
                      /\ form' # form) => flights[i].pin = latest ]_vars
    BY <1>1, OnlyTheLatestFills
  <1> QED
    BY <1>1, SearchInvariance, PTL DEF Spec, FillsForTheLatestMove

-----------------------------------------------------------------------------
\* Once the booking is known, nothing but the customer's choice changes the service.
LEMMA ServiceStays ==
    ASSUME SearchInv, [Next]_vars, "booking" \in loaded, form'.service # form.service
    PROVE  moves' # moves
  <1>1. form \in FormRecord /\ moves \in Nat
    BY DEF SearchInv, FormTypes
  <1>2. reassign /\ \A i \in DOMAIN flights : flights[i].kind # "booking"
    BY DEF SearchInv, AskedOnce
  <1>3. Move => moves' # moves
    BY <1>1 DEF Move
  <1>4. ASSUME NEW i \in DOMAIN flights, Answer(i) PROVE FALSE
    <2>1. ~CatalogueAnswered(i)
      BY <1>2 DEF CatalogueAnswered, MayTakeFirstService
    <2>2. \A d \in Districts, pin \in Pins \cup {None} : ~BookingAnswered(i, d, pin)
      BY <1>2 DEF BookingAnswered, Arrives
    <2>3. ~ProfileAnswered(i) /\ ~DistrictsAnswered(i) /\ ~PinResolved(i)
      BY <1>1 DEF ProfileAnswered, DistrictsAnswered, PinResolved, FormRecord
    <2>4. \A named \in BOOLEAN : ~Picked(i, named)
      BY <1>1 DEF Picked, FormRecord
    <2>5. /\ ~Booked(i) /\ ~BookFailed(i) /\ ~NothingComes(i)
          /\ \A found \in BOOLEAN : ~SearchAnswered(i, found)
      BY DEF Booked, BookFailed, NothingComes, SearchAnswered
    <2> QED
      BY <1>4, <2>1, <2>2, <2>3, <2>4, <2>5 DEF Answer
  <1> QED
    BY <1>3, <1>4 DEF Next, ChoosePlace, ClearPin, SelectState, SelectDistrict, SelectService,
                      Submit, Resort, Book, vars

\* A page that reassigns a booking keeps the booking's service until the customer chooses.
THEOREM BookingsServiceStays == Spec => KeepsTheBookingsService
  <1>1. ASSUME SearchInv, [Next]_vars
        PROVE  [ ("booking" \in loaded /\ form'.service # form.service)
                    => moves' # moves ]_vars
    BY <1>1, ServiceStays
  <1> QED
    BY <1>1, SearchInvariance, PTL DEF Spec, KeepsTheBookingsService

-----------------------------------------------------------------------------
(* The desks. *)

Fleet == [drone : {"NONE", "SERVICEABLE", "RETIRED", "UNDER_MAINTENANCE"}, ticket : Nat,
          status : {"OPEN", "ASSIGNED", "IN_PROGRESS", "CLOSED"},
          engineer : Engineers \cup {Nobody}, hired : SUBSET Engineers,
          closed : [Engineers -> Nat]]

\* A drone is grounded by its open ticket and by nothing else; one that has been assigned
\* has an engineer.
FleetFits(f) ==
    /\ f \in Fleet
    /\ f.drone = "UNDER_MAINTENANCE" <=> Open(f)
    /\ f.status = "OPEN" => f.engineer = Nobody
    /\ f.status \in {"ASSIGNED", "IN_PROGRESS"} => f.engineer \in Engineers

FleetStepNames == {"register", "retire", "restore", "raise", "hire", "assign", "start", "report",
                   "close"}

Applications == [stage : ProfileStages \cup {"UNDER_REVIEW", "ACTIVATED"}, base : BOOLEAN]
ApplicationStepNames == {"profile", "coverage", "request", "confirm", "submit", "activate",
                         "reject"}

SeatsOf(views, steps, args) ==
    [phase : {"closed", "opening", "loading", "ready", "acting"}, view : views,
     errand : [rest : Seq(steps), arg : args]]

\* A page that waits has a request on its way; who is hired or assigned is an engineer.
Seated(seat) == seat.phase = "acting" => seat.errand.rest # <<>>
ForEngineers(seat) ==
    \A k \in DOMAIN seat.errand.rest :
        seat.errand.rest[k] \in {"hire", "assign"} => seat.errand.arg \in Engineers

FleetSeat(seat) ==
    /\ seat \in SeatsOf(Fleet, FleetStepNames, Engineers \cup {Nobody})
    /\ Seated(seat) /\ ForEngineers(seat)
ApplicationSeat(seat) ==
    /\ seat \in SeatsOf(Applications \cup {NoApplication}, ApplicationStepNames,
                        {Nobody} \cup SUBSET {"base", "radius"})
    /\ Seated(seat)

DesksInv ==
    /\ desk \in DeskNames
    /\ DOMAIN seats = DeskPages(desk)
    /\ desk = "fleet" =>
          /\ FleetFits(record)
          /\ \A tab \in DOMAIN seats : FleetSeat(seats[tab])
    /\ desk = "application" =>
          /\ record \in Applications
          /\ \A tab \in DOMAIN seats : ApplicationSeat(seats[tab])

-----------------------------------------------------------------------------
\* Whatever request comes, from whichever page and however old the view behind it.
LEMMA FleetAnswers ==
    ASSUME NEW f, FleetFits(f), NEW tab, NEW step \in FleetStepNames, NEW arg, NEW view,
           step \in {"hire", "assign"} => arg \in Engineers,
           NEW r \in FleetAnswer(tab, step, arg, view, f)
    PROVE  FleetFits(r)
  <1> USE DEF FleetFits, Fleet, Open, Granted
  <1>1. CASE step = "register"
    BY <1>1 DEF FleetAnswer, Register
  <1>2. CASE step = "retire"
    BY <1>2 DEF FleetAnswer, SetServiceability
  <1>3. CASE step = "restore"
    BY <1>3 DEF FleetAnswer, SetServiceability
  <1>4. CASE step = "raise"
    <2> DEFINE n == f.ticket + 1
    <2>1. /\ n \in Nat
          /\ r = [f EXCEPT !.drone = "UNDER_MAINTENANCE", !.ticket = n, !.status = "OPEN",
                            !.engineer = Nobody]
      BY <1>4 DEF FleetAnswer, Raise
    <2> HIDE DEF n
    <2> QED
      BY <2>1
  <1>5. CASE step = "hire"
    BY <1>5 DEF FleetAnswer, Hire
  <1>6. CASE step = "assign"
    <2>1. /\ arg \in Engineers /\ f.status \in {"OPEN", "IN_PROGRESS"}
          /\ r = [f EXCEPT !.status = "ASSIGNED", !.engineer = arg]
      BY <1>6 DEF FleetAnswer, AssignTicket
    <2> QED
      BY <2>1
  <1>7. CASE step = "start"
    BY <1>7 DEF FleetAnswer, StartTicket
  <1>8. CASE step = "report"
    BY <1>8 DEF FleetAnswer, ReportTicket
  <1>9. CASE step = "close"
    <2> DEFINE counts == [f.closed EXCEPT ![tab] = @ + 1]
    <2>1. /\ tab \in Engineers
          /\ r = [f EXCEPT !.status = "CLOSED", !.drone = "SERVICEABLE", !.closed = counts]
      BY <1>9 DEF FleetAnswer, CloseTicket
    <2>2. counts \in [Engineers -> Nat]
      BY <2>1
    <2> HIDE DEF counts
    <2> QED
      BY <2>1, <2>2
  <1> QED
    BY <1>1, <1>2, <1>3, <1>4, <1>5, <1>6, <1>7, <1>8, <1>9 DEF FleetStepNames

LEMMA ApplicationAnswers ==
    ASSUME NEW a \in Applications, NEW step \in ApplicationStepNames, NEW arg,
           NEW r \in ApplicationAnswer(step, arg, a)
    PROVE  r \in Applications
  <1> USE DEF Applications, Granted, ProfileStages
  <1>1. CASE step = "profile"
    BY <1>1 DEF ApplicationAnswer, SaveProfile
  <1>2. CASE step = "coverage"
    BY <1>2 DEF ApplicationAnswer, SaveCoverage
  <1>3. CASE step = "request"
    BY <1>3 DEF ApplicationAnswer, RequestUpload
  <1>4. CASE step = "confirm"
    BY <1>4 DEF ApplicationAnswer, ConfirmUpload
  <1>5. CASE step = "submit"
    BY <1>5 DEF ApplicationAnswer, SubmitApplication
  <1>6. CASE step \in {"activate", "reject"}
    BY <1>6 DEF ApplicationAnswer, DecideApplication
  <1> QED
    BY <1>1, <1>2, <1>3, <1>4, <1>5, <1>6 DEF ApplicationStepNames

\* What the pages of a desk send.
LEMMA FleetButtons ==
    ASSUME NEW seat, FleetSeat(seat), NEW act \in FleetActs,
           NEW arg \in FleetArgs(act, seat.view)
    PROVE  FleetSeat([seat EXCEPT !.phase = "acting",
                                  !.errand = [rest |-> FleetSteps(act), arg |-> arg]])
  <1>1. seat.view.hired \subseteq Engineers
    BY DEF FleetSeat, SeatsOf, Fleet
  <1>2. /\ arg \in Engineers \cup {Nobody}
        /\ act \in {"hire", "assign"} => arg \in Engineers
    BY <1>1 DEF FleetArgs
  <1>3. CASE act = "finish"
    <2>1. FleetSteps(act) = <<"report", "report", "close">>
      BY <1>3 DEF FleetSteps
    <2>2. /\ FleetSteps(act) \in Seq(FleetStepNames) /\ FleetSteps(act) # <<>>
          /\ \A k \in DOMAIN FleetSteps(act) : FleetSteps(act)[k] \notin {"hire", "assign"}
      BY <2>1 DEF FleetStepNames
    <2> QED
      BY <1>2, <2>2 DEF FleetSeat, SeatsOf, Seated, ForEngineers
  <1>4. CASE act # "finish"
    <2>1. FleetSteps(act) = <<act>> /\ act \in FleetStepNames
      BY <1>4 DEF FleetSteps, FleetActs, FleetStepNames
    <2>2. /\ FleetSteps(act) \in Seq(FleetStepNames) /\ FleetSteps(act) # <<>>
          /\ \A k \in DOMAIN FleetSteps(act) : FleetSteps(act)[k] = act
      BY <2>1
    <2> QED
      BY <1>2, <2>2 DEF FleetSeat, SeatsOf, Seated, ForEngineers
  <1> QED
    BY <1>3, <1>4

LEMMA ApplicationButtons ==
    ASSUME NEW seat, ApplicationSeat(seat), NEW act \in ApplicationActs,
           NEW arg \in ApplicationArgs(act)
    PROVE  ApplicationSeat([seat EXCEPT !.phase = "acting",
                               !.errand = [rest |-> ApplicationSteps(act), arg |-> arg]])
  <1>1. arg \in SUBSET {"base", "radius"}
    BY DEF ApplicationArgs
  <1>2. ApplicationSteps(act) \in Seq(ApplicationStepNames) /\ ApplicationSteps(act) # <<>>
    <2>1. CASE act = "upload"
      BY <2>1 DEF ApplicationSteps, ApplicationStepNames
    <2>2. CASE act # "upload"
      BY <2>2 DEF ApplicationSteps, ApplicationActs, ApplicationStepNames
    <2> QED
      BY <2>1, <2>2
  <1> QED
    BY <1>1, <1>2 DEF ApplicationSeat, SeatsOf, Seated

-----------------------------------------------------------------------------
LEMMA VacantFits ==
    /\ desk = "fleet" => FleetSeat(Vacant)
    /\ desk = "application" => ApplicationSeat(Vacant)
  <1>1. <<>> \in Seq(FleetStepNames) /\ <<>> \in Seq(ApplicationStepNames)
    OBVIOUS
  <1>2. ASSUME desk = "fleet" PROVE FleetSeat(Vacant)
    <2>1. Vacant.view = NewFleet /\ NewFleet \in Fleet
      BY <1>2 DEF Vacant, Blank, New, NewFleet, Fleet
    <2> QED
      BY <1>1, <2>1 DEF FleetSeat, SeatsOf, Seated, ForEngineers, Vacant, NoErrand
  <1>3. ASSUME desk = "application" PROVE ApplicationSeat(Vacant)
    <2>1. Vacant.view = NoApplication
      BY <1>3 DEF Vacant, Blank
    <2> QED
      BY <1>1, <2>1 DEF ApplicationSeat, SeatsOf, Seated, Vacant, NoErrand
  <1> QED
    BY <1>2, <1>3

LEMMA DesksStart ==
    ASSUME DesksInit
    PROVE  DesksInv
  <1>1. /\ desk \in DeskNames /\ DOMAIN seats = DeskPages(desk) /\ record = New(desk)
        /\ \A tab \in DOMAIN seats : seats[tab] = Vacant
    BY DEF DesksInit
  <1>2. FleetFits(NewFleet) /\ NewApplication \in Applications
    BY DEF NewFleet, FleetFits, Fleet, Open, NewApplication, Applications, ProfileStages
  <1>3. /\ New("fleet") = NewFleet
        /\ New("application") = NewApplication
    BY DEF New
  <1> QED
    BY <1>1, <1>2, <1>3, VacantFits DEF DesksInv

\* A step that leaves the record and gives a page a seat that fits.
LEMMA SeatKeeps ==
    ASSUME DesksInv, NEW tab \in DOMAIN seats, NEW seat, Seat(tab, seat), UNCHANGED desk,
           desk = "fleet" => FleetFits(record') /\ FleetSeat(seat),
           desk = "application" => record' \in Applications /\ ApplicationSeat(seat)
    PROVE  DesksInv'
  <1>1. /\ DOMAIN seats' = DOMAIN seats
        /\ \A p \in DOMAIN seats : seats'[p] = IF p = tab THEN seat ELSE seats[p]
    BY DEF Seat
  <1>2. DeskPages(desk)' = DeskPages(desk)
    BY DEF DeskPages
  <1> QED
    BY <1>1, <1>2 DEF DesksInv

\* What a page is shown of a record.
LEMMA Shows ==
    ASSUME DesksInv, NEW tab \in DOMAIN seats
    PROVE  /\ desk = "fleet" => Sees(tab) \in Fleet
           /\ desk = "application" => Sees(tab) \in Applications
  <1>1. NewFleet \in Fleet
    BY DEF NewFleet, Fleet
  <1>2. ASSUME desk = "fleet" PROVE Sees(tab) \in Fleet
    <2>1. record \in Fleet /\ [record EXCEPT !.status = "CLOSED"] \in Fleet
      BY <1>2 DEF DesksInv, FleetFits, Fleet
    <2>2. Sees(tab) \in {record, [record EXCEPT !.status = "CLOSED"], NewFleet}
      BY <1>2 DEF Sees, FleetSees
    <2> QED
      BY <1>1, <2>1, <2>2
  <1> QED
    BY <1>2 DEF DesksInv, Sees

LEMMA ReloadedFits ==
    ASSUME DesksInv, NEW tab \in DOMAIN seats
    PROVE  LET view == IF seats[tab].phase = "opening" THEN Sees(tab)
                       ELSE Reloaded(tab, seats[tab].view)
           IN  /\ desk = "fleet" => view \in Fleet
               /\ desk = "application" => view \in Applications
  <1>1. ASSUME desk = "fleet" PROVE Reloaded(tab, seats[tab].view) \in Fleet
    <2>1. Sees(tab) \in Fleet /\ seats[tab].view \in Fleet
      BY <1>1, Shows DEF DesksInv, FleetSeat, SeatsOf
    <2>2. tab # "services"
      BY <1>1, FleetAssumption DEF DesksInv, DeskPages, FleetPages
    <2> QED
      BY <2>1, <2>2 DEF Reloaded, Fleet
  <1>2. ASSUME desk = "application" PROVE Reloaded(tab, seats[tab].view) = Sees(tab)
    <2>1. tab \in {"application", "again", "queue"}
      BY <1>2 DEF DesksInv, DeskPages, ApplicationPages
    <2> QED
      BY <2>1 DEF Reloaded
  <1> QED
    BY <1>1, <1>2, Shows

\* The seat of a page that stops waiting.
LEMMA ResumedFits ==
    ASSUME NEW seat, NEW phase \in {"loading", "ready"}
    PROVE  /\ FleetSeat(seat) => FleetSeat(Resumed(seat, phase))
           /\ ApplicationSeat(seat) => ApplicationSeat(Resumed(seat, phase))
  <1>1. /\ <<>> \in Seq(FleetStepNames) /\ <<>> \in Seq(ApplicationStepNames)
    OBVIOUS
  <1>2. ASSUME FleetSeat(seat) PROVE FleetSeat(Resumed(seat, phase))
    <2> DEFINE empty == [rest |-> <<>>, arg |-> Nobody]
    <2>1. empty \in [rest : Seq(FleetStepNames), arg : Engineers \cup {Nobody}]
          /\ DOMAIN empty.rest = {}
      BY <1>1
    <2>2. Resumed(seat, phase) = [seat EXCEPT !.errand = empty, !.phase = phase]
      BY DEF Resumed, NoErrand
    <2> HIDE DEF empty
    <2> QED
      BY <1>2, <2>1, <2>2 DEF FleetSeat, SeatsOf, Seated, ForEngineers
  <1>3. ASSUME ApplicationSeat(seat) PROVE ApplicationSeat(Resumed(seat, phase))
    BY <1>1, <1>3 DEF ApplicationSeat, SeatsOf, Seated, Resumed, NoErrand
  <1> QED
    BY <1>2, <1>3

\* The seat of a page that is not waiting: any phase but "acting", any view that fits.
LEMMA IdleFits ==
    ASSUME NEW seat, NEW phase \in {"opening", "loading", "ready"}, NEW view
    PROVE  /\ (FleetSeat(seat) /\ view \in Fleet)
                 => FleetSeat([seat EXCEPT !.phase = phase, !.view = view])
           /\ (ApplicationSeat(seat) /\ view \in Applications \cup {NoApplication})
                 => ApplicationSeat([seat EXCEPT !.phase = phase, !.view = view])
           /\ FleetSeat(seat) => FleetSeat([seat EXCEPT !.phase = phase])
           /\ ApplicationSeat(seat) => ApplicationSeat([seat EXCEPT !.phase = phase])
  <1>1. ASSUME FleetSeat(seat), view \in Fleet
        PROVE  FleetSeat([seat EXCEPT !.phase = phase, !.view = view])
    BY <1>1 DEF FleetSeat, SeatsOf, Seated, ForEngineers
  <1>2. ASSUME ApplicationSeat(seat), view \in Applications \cup {NoApplication}
        PROVE  ApplicationSeat([seat EXCEPT !.phase = phase, !.view = view])
    BY <1>2 DEF ApplicationSeat, SeatsOf, Seated
  <1>3. ASSUME FleetSeat(seat) PROVE FleetSeat([seat EXCEPT !.phase = phase])
    BY <1>3 DEF FleetSeat, SeatsOf, Seated, ForEngineers
  <1>4. ASSUME ApplicationSeat(seat) PROVE ApplicationSeat([seat EXCEPT !.phase = phase])
    BY <1>4 DEF ApplicationSeat, SeatsOf, Seated
  <1> QED
    BY <1>1, <1>2, <1>3, <1>4

\* A request that is answered, and the one after it.
LEMMA RecordFits ==
    ASSUME DesksInv, NEW tab \in DOMAIN seats, Waiting(tab),
           record' \in AnswerTo(tab, Head(seats[tab].errand.rest), seats[tab].errand.arg,
                                seats[tab].view, record)
    PROVE  /\ desk = "fleet" => FleetFits(record')
           /\ desk = "application" => record' \in Applications
  <1> DEFINE rest == seats[tab].errand.rest
             arg == seats[tab].errand.arg
  <1>1. ASSUME desk = "fleet" PROVE FleetFits(record')
    <2>1. FleetSeat(seats[tab]) /\ FleetFits(record)
      BY <1>1 DEF DesksInv
    <2>2. /\ rest \in Seq(FleetStepNames) /\ rest # <<>>
          /\ \A k \in DOMAIN rest : rest[k] \in {"hire", "assign"} => arg \in Engineers
      BY <2>1 DEF FleetSeat, SeatsOf, Seated, ForEngineers, Waiting
    <2>3. record' \in FleetAnswer(tab, Head(rest), arg, seats[tab].view, record)
      BY <1>1 DEF AnswerTo
    <2> HIDE DEF rest, arg
    <2>4. Head(rest) \in FleetStepNames /\ (Head(rest) \in {"hire", "assign"} => arg \in Engineers)
      BY <2>2
    <2> QED
      BY <2>1, <2>3, <2>4, FleetAnswers
  <1>2. ASSUME desk = "application" PROVE record' \in Applications
    <2>1. ApplicationSeat(seats[tab]) /\ record \in Applications
      BY <1>2 DEF DesksInv
    <2>2. rest \in Seq(ApplicationStepNames) /\ rest # <<>>
      BY <2>1 DEF ApplicationSeat, SeatsOf, Seated, Waiting
    <2>3. record' \in ApplicationAnswer(Head(rest), arg, record)
      BY <1>2 DEF AnswerTo
    <2> HIDE DEF rest, arg
    <2>4. Head(rest) \in ApplicationStepNames
      BY <2>2
    <2> QED
      BY <2>1, <2>3, <2>4, ApplicationAnswers
  <1> QED
    BY <1>1, <1>2

LEMMA TailFits ==
    ASSUME NEW seat, seat.phase = "acting", Len(seat.errand.rest) # 1
    PROVE  /\ FleetSeat(seat) => FleetSeat([seat EXCEPT !.errand.rest = Tail(@)])
           /\ ApplicationSeat(seat) => ApplicationSeat([seat EXCEPT !.errand.rest = Tail(@)])
  <1> DEFINE rest == seat.errand.rest
  <1>0. Len(rest) # 1
    OBVIOUS
  <1> HIDE DEF rest
  <1>1. ASSUME NEW S, rest \in Seq(S), rest # <<>>
        PROVE  /\ Tail(rest) \in Seq(S) /\ Tail(rest) # <<>>
               /\ \A k \in DOMAIN Tail(rest) : k + 1 \in DOMAIN rest /\ Tail(rest)[k] = rest[k + 1]
    <2>1. /\ Tail(rest) \in Seq(S) /\ Len(Tail(rest)) = Len(rest) - 1
          /\ \A k \in 1 .. Len(Tail(rest)) : Tail(rest)[k] = rest[k + 1]
      BY <1>1, HeadTailProperties
    <2>2. Len(rest) \in Nat /\ Len(rest) # 0 /\ DOMAIN rest = 1 .. Len(rest)
      BY <1>1
    <2>3. DOMAIN Tail(rest) = 1 .. Len(rest) - 1
      BY <2>1
    <2>4. Tail(rest) # <<>>
      <3>1. Len(Tail(rest)) # 0 /\ Len(<<>>) = 0
        BY <1>0, <2>1, <2>2
      <3> QED
        BY <3>1
    <2>5. \A k \in DOMAIN Tail(rest) : k + 1 \in DOMAIN rest
      BY <1>0, <2>2, <2>3
    <2> QED
      BY <2>1, <2>2, <2>3, <2>4, <2>5
  <1>2. ASSUME FleetSeat(seat) PROVE FleetSeat([seat EXCEPT !.errand.rest = Tail(@)])
    <2>1. rest \in Seq(FleetStepNames) /\ rest # <<>>
      BY <1>2 DEF rest, FleetSeat, SeatsOf, Seated
    <2> QED
      BY <1>1, <1>2, <2>1 DEF FleetSeat, SeatsOf, Seated, ForEngineers, rest
  <1>3. ASSUME ApplicationSeat(seat)
        PROVE  ApplicationSeat([seat EXCEPT !.errand.rest = Tail(@)])
    <2>1. rest \in Seq(ApplicationStepNames) /\ rest # <<>>
      BY <1>3 DEF ApplicationSeat, SeatsOf, Seated, rest
    <2> QED
      BY <1>1, <1>3, <2>1 DEF ApplicationSeat, SeatsOf, Seated, rest
  <1> QED
    BY <1>2, <1>3

LEMMA ButtonPressed ==
    ASSUME DesksInv, NEW tab \in DOMAIN seats, NEW act \in Offered(tab),
           NEW arg \in Args(act, seats[tab].view), PressButton(tab, act, arg)
    PROVE  DesksInv'
  <1> DEFINE seat == [seats[tab] EXCEPT !.phase = "acting",
                          !.errand = [rest |-> Steps(act), arg |-> arg]]
             view == seats[tab].view
  <1>1. Seat(tab, seat) /\ UNCHANGED <<desk, record>>
    BY DEF PressButton
  <1>2. ASSUME desk = "fleet" PROVE FleetFits(record') /\ FleetSeat(seat)
    <2>1. FleetFits(record) /\ FleetSeat(seats[tab])
      BY <1>2 DEF DesksInv
    <2>2. act \in FleetActs /\ arg \in FleetArgs(act, view) /\ Steps(act) = FleetSteps(act)
      BY <1>2 DEF Offered, DeskActs, Args, Steps
    <2> QED
      BY <1>1, <2>1, <2>2, FleetButtons
  <1>3. ASSUME desk = "application" PROVE record' \in Applications /\ ApplicationSeat(seat)
    <2>1. record \in Applications /\ ApplicationSeat(seats[tab])
      BY <1>3 DEF DesksInv
    <2>2. /\ act \in ApplicationActs /\ arg \in ApplicationArgs(act)
          /\ Steps(act) = ApplicationSteps(act)
      BY <1>3 DEF Offered, DeskActs, Args, Steps
    <2> QED
      BY <1>1, <2>1, <2>2, ApplicationButtons
  <1> HIDE DEF seat
  <1> QED
    BY <1>1, <1>2, <1>3, SeatKeeps

LEMMA DesksInductive ==
    ASSUME DesksInv, [DesksNext]_deskVars
    PROVE  DesksInv'
  <1>0. CASE UNCHANGED deskVars
    BY <1>0 DEF deskVars, DesksInv, DeskPages, FleetFits, Open
  <1> SUFFICES ASSUME NEW tab \in DOMAIN seats,
                      \/ OpenPage(tab) \/ Loaded(tab) \/ NotLoaded(tab) \/ Reload(tab)
                      \/ \E act \in Offered(tab) : \E arg \in Args(act, seats[tab].view) :
                            PressButton(tab, act, arg)
                      \/ StepGranted(tab) \/ AnswerLost(tab) \/ StepFails(tab)
                      \/ ClosePage(tab)
               PROVE  DesksInv'
    BY <1>0 DEF DesksNext
  <1>1. /\ desk = "fleet" => FleetFits(record) /\ FleetSeat(seats[tab])
        /\ desk = "application" => record \in Applications /\ ApplicationSeat(seats[tab])
    BY DEF DesksInv
  <1>2. /\ desk = "fleet" => FleetSeat(Vacant)
        /\ desk = "application" => ApplicationSeat(Vacant)
    BY VacantFits
  <1>3. CASE OpenPage(tab)
    <2> DEFINE seat == [Vacant EXCEPT !.phase = "opening"]
    <2>1. Seat(tab, seat) /\ UNCHANGED <<desk, record>>
      BY <1>3 DEF OpenPage
    <2>2. /\ desk = "fleet" => FleetSeat(seat)
          /\ desk = "application" => ApplicationSeat(seat)
      BY <1>2, IdleFits
    <2> HIDE DEF seat
    <2> QED
      BY <1>1, <2>1, <2>2, SeatKeeps
  <1>4. CASE Loaded(tab)
    <2> DEFINE view == IF seats[tab].phase = "opening" THEN Sees(tab)
                       ELSE Reloaded(tab, seats[tab].view)
               seat == [seats[tab] EXCEPT !.phase = "ready", !.view = view]
    <2>1. Seat(tab, seat) /\ UNCHANGED <<desk, record>>
      BY <1>4 DEF Loaded
    <2>2. /\ desk = "fleet" => view \in Fleet
          /\ desk = "application" => view \in Applications
      BY ReloadedFits
    <2> HIDE DEF view
    <2>3. /\ desk = "fleet" => FleetSeat(seat)
          /\ desk = "application" => ApplicationSeat(seat)
      BY <1>1, <2>2, IdleFits
    <2> HIDE DEF seat
    <2> QED
      BY <1>1, <2>1, <2>3, SeatKeeps
  <1>5. CASE NotLoaded(tab) \/ Reload(tab)
    <2>1. PICK phase \in {"ready", "loading"} : Seat(tab, [seats[tab] EXCEPT !.phase = phase])
      BY <1>5 DEF NotLoaded, Reload
    <2> DEFINE seat == [seats[tab] EXCEPT !.phase = phase]
    <2>2. /\ desk = "fleet" => FleetSeat(seat)
          /\ desk = "application" => ApplicationSeat(seat)
      BY <1>1, IdleFits
    <2>3. Seat(tab, seat) /\ UNCHANGED <<desk, record>>
      BY <1>5, <2>1 DEF NotLoaded, Reload
    <2> HIDE DEF seat
    <2> QED
      BY <1>1, <2>2, <2>3, SeatKeeps
  <1>6. ASSUME NEW act \in Offered(tab), NEW arg \in Args(act, seats[tab].view),
               PressButton(tab, act, arg)
        PROVE  DesksInv'
    BY <1>6, ButtonPressed
  <1>7. CASE StepGranted(tab)
    <2>1. /\ desk = "fleet" => FleetFits(record')
          /\ desk = "application" => record' \in Applications
      BY <1>7, RecordFits DEF StepGranted
    <2>2. CASE Len(seats[tab].errand.rest) = 1
      <3> DEFINE seat == Resumed(seats[tab], "loading")
      <3>1. Seat(tab, seat) /\ UNCHANGED desk
        BY <1>7, <2>2 DEF StepGranted
      <3>2. /\ desk = "fleet" => FleetSeat(seat)
            /\ desk = "application" => ApplicationSeat(seat)
        BY <1>1, ResumedFits
      <3> HIDE DEF seat
      <3> QED
        BY <2>1, <3>1, <3>2, SeatKeeps
    <2>3. CASE Len(seats[tab].errand.rest) # 1
      <3> DEFINE seat == [seats[tab] EXCEPT !.errand.rest = Tail(@)]
      <3>1. Seat(tab, seat) /\ UNCHANGED desk /\ seats[tab].phase = "acting"
        BY <1>7, <2>3 DEF StepGranted, Waiting
      <3>2. /\ desk = "fleet" => FleetSeat(seat)
            /\ desk = "application" => ApplicationSeat(seat)
        BY <1>1, <2>3, <3>1, TailFits
      <3> HIDE DEF seat
      <3> QED
        BY <2>1, <3>1, <3>2, SeatKeeps
    <2> QED
      BY <2>2, <2>3
  <1>8. CASE AnswerLost(tab) \/ StepFails(tab)
    <2> DEFINE seat == Resumed(seats[tab], "ready")
    <2>1. Seat(tab, seat) /\ UNCHANGED desk
      BY <1>8 DEF AnswerLost, StepFails
    <2>2. /\ desk = "fleet" => FleetFits(record')
          /\ desk = "application" => record' \in Applications
      BY <1>1, <1>8, RecordFits DEF AnswerLost, StepFails
    <2>3. /\ desk = "fleet" => FleetSeat(seat)
          /\ desk = "application" => ApplicationSeat(seat)
      BY <1>1, ResumedFits
    <2> HIDE DEF seat
    <2> QED
      BY <2>1, <2>2, <2>3, SeatKeeps
  <1>9. CASE ClosePage(tab)
    <2>1. Seat(tab, Vacant) /\ UNCHANGED <<desk, record>>
      BY <1>9 DEF ClosePage
    <2> QED
      BY <1>1, <1>2, <2>1, SeatKeeps
  <1> QED
    BY <1>3, <1>4, <1>5, <1>6, <1>7, <1>8, <1>9

LEMMA DesksInvariance == DesksSpec => []DesksInv
  BY DesksStart, DesksInductive, PTL DEF DesksSpec

-----------------------------------------------------------------------------
\* What a button leads to: of the requests behind it, only the last writes.
LEMMA OneRequest ==
    ASSUME NEW tab, NEW act, NEW arg, NEW step, Steps(act) = <<step>>
    PROVE  Leads(tab, act, arg) = AnswerTo(tab, step, arg, Sees(tab), record)
  <1>1. Len(Steps(act)) = 1 /\ Steps(act)[1] = step
    OBVIOUS
  <1>2. Leads(tab, act, arg) = Asked(tab, step, arg, {record})
    BY <1>1 DEF Leads
  <1> QED
    BY <1>2 DEF Asked

LEMMA LastRequest ==
    ASSUME NEW tab, NEW act, NEW arg, NEW first, NEW last,
           Steps(act) \in {<<first, last>>, <<first, first, last>>},
           AnswerTo(tab, first, arg, Sees(tab), record) = {record}
    PROVE  Leads(tab, act, arg) = AnswerTo(tab, last, arg, Sees(tab), record)
  <1>1. \A step : Asked(tab, step, arg, {record})
                      = AnswerTo(tab, step, arg, Sees(tab), record)
    BY DEF Asked
  <1>2. CASE Steps(act) = <<first, last>>
    <2>1. Len(Steps(act)) = 2 /\ Steps(act)[1] = first /\ Steps(act)[2] = last
      BY <1>2
    <2>2. Leads(tab, act, arg) = Asked(tab, last, arg, Asked(tab, first, arg, {record}))
      BY <2>1 DEF Leads
    <2> QED
      BY <1>1, <2>2
  <1>3. CASE Steps(act) = <<first, first, last>>
    <2>1. /\ Len(Steps(act)) = 3 /\ Steps(act)[1] = first /\ Steps(act)[2] = first
          /\ Steps(act)[3] = last
      BY <1>3
    <2>2. Leads(tab, act, arg) =
            Asked(tab, last, arg, Asked(tab, first, arg, Asked(tab, first, arg, {record})))
      BY <2>1 DEF Leads
    <2> QED
      BY <1>1, <2>2
  <1> QED
    BY <1>2, <1>3

LEMMA FleetLeads ==
    ASSUME desk = "fleet", DesksInv, NEW tab \in DOMAIN seats, NEW act \in FleetActs, NEW arg
    PROVE  LET leads(step) == FleetAnswer(tab, step, arg, Sees(tab), record)
           IN  /\ act # "finish" => Leads(tab, act, arg) = leads(act)
               /\ (act = "finish" /\ record.engineer = tab)
                     => Leads(tab, act, arg) = leads("close")
  <1>1. \A step : AnswerTo(tab, step, arg, Sees(tab), record)
                      = FleetAnswer(tab, step, arg, Sees(tab), record)
    BY DEF AnswerTo
  <1>2. ASSUME act # "finish"
        PROVE  Leads(tab, act, arg) = FleetAnswer(tab, act, arg, Sees(tab), record)
    <2>1. Steps(act) = <<act>>
      BY <1>2 DEF Steps, FleetSteps
    <2> QED
      BY <1>1, <2>1, OneRequest
  <1>3. ASSUME act = "finish", record.engineer = tab
        PROVE  Leads(tab, act, arg) = FleetAnswer(tab, "close", arg, Sees(tab), record)
    <2>1. Steps(act) = <<"report", "report", "close">>
      BY <1>3 DEF Steps, FleetSteps
    <2>2. FleetAnswer(tab, "report", arg, Sees(tab), record) = {record}
      BY <1>3 DEF FleetAnswer, ReportTicket, Granted
    <2> QED
      BY <1>1, <2>1, <2>2, LastRequest
  <1> QED
    BY <1>2, <1>3

LEMMA ApplicationLeads ==
    ASSUME desk = "application", NEW tab, NEW act \in ApplicationActs, NEW arg
    PROVE  /\ act # "upload" => Leads(tab, act, arg) = ApplicationAnswer(act, arg, record)
           /\ (act = "upload" /\ record.stage \in ProfileStages)
                 => Leads(tab, act, arg) = ConfirmUpload(record)
  <1>1. \A step : AnswerTo(tab, step, arg, Sees(tab), record)
                      = ApplicationAnswer(step, arg, record)
    BY DEF AnswerTo
  <1>2. ASSUME act # "upload"
        PROVE  Leads(tab, act, arg) = ApplicationAnswer(act, arg, record)
    <2>1. Steps(act) = <<act>>
      BY <1>2 DEF Steps, ApplicationSteps
    <2> QED
      BY <1>1, <2>1, OneRequest
  <1>3. ASSUME act = "upload", record.stage \in ProfileStages
        PROVE  Leads(tab, act, arg) = ConfirmUpload(record)
    <2>1. Steps(act) = <<"request", "confirm">>
      BY <1>3 DEF Steps, ApplicationSteps
    <2>2. ApplicationAnswer("request", arg, record) = {record}
      BY <1>3 DEF ApplicationAnswer, RequestUpload, Granted
    <2>3. ApplicationAnswer("confirm", arg, record) = ConfirmUpload(record)
      BY DEF ApplicationAnswer
    <2> QED
      BY <1>1, <2>1, <2>2, <2>3, LastRequest
  <1> QED
    BY <1>2, <1>3

LEMMA AssortmentLeads ==
    ASSUME desk = "assortment", NEW tab, NEW act, NEW arg
    PROVE  Leads(tab, act, arg) = AssortmentAnswer(act, arg, record)
  <1>1. Steps(act) = <<act>> /\ AnswerTo(tab, act, arg, Sees(tab), record)
                                   = AssortmentAnswer(act, arg, record)
    BY DEF Steps, AnswerTo
  <1> QED
    BY <1>1, OneRequest

-----------------------------------------------------------------------------
\* What the pages of the fleet show, and for whom.
LEMMA FleetSeen ==
    ASSUME desk = "fleet", DesksInv, NEW tab \in DOMAIN seats
    PROVE  /\ tab \in {"dispatch", "staff"} \/ LatestListed(tab, record) => Sees(tab) = record
           /\ tab \in Engineers => tab \notin {"drones", "dispatch", "staff"}
           /\ tab \in {"drones", "dispatch", "staff"} \cup Engineers
           /\ (tab = "drones" /\ ~LatestListed(tab, record))
                 => Sees(tab) = [record EXCEPT !.status = "CLOSED"]
           /\ (tab \in Engineers /\ ~LatestListed(tab, record)) => Sees(tab) = NewFleet
           /\ (tab \in Engineers /\ LatestListed(tab, record)) => record.engineer = tab
  <1>1. tab \in {"drones", "dispatch", "staff"} \cup Engineers
    BY DEF DesksInv, DeskPages, FleetPages
  <1>2. tab \in Engineers => tab \notin {"drones", "dispatch", "staff"}
    BY FleetAssumption
  <1>3. Sees(tab) = FleetSees(tab, record)
    BY DEF Sees
  <1>4. (tab \in Engineers /\ LatestListed(tab, record)) => record.engineer = tab
    BY <1>2 DEF LatestListed
  <1>5. (tab \in {"dispatch", "staff"} \/ LatestListed(tab, record)) => Sees(tab) = record
    BY <1>3 DEF FleetSees
  <1>6. (tab = "drones" /\ ~LatestListed(tab, record))
            => Sees(tab) = [record EXCEPT !.status = "CLOSED"]
    BY <1>3 DEF FleetSees
  <1>7. (tab \in Engineers /\ ~LatestListed(tab, record)) => Sees(tab) = NewFleet
    BY <1>2, <1>3 DEF FleetSees
  <1> QED
    BY <1>1, <1>2, <1>4, <1>5, <1>6, <1>7

LEMMA FleetGranted ==
    ASSUME desk = "fleet", DesksInv, NEW tab \in DOMAIN seats, NEW act \in FleetActs,
           FleetOffers(tab, act, Sees(tab)), WithinBounds(act),
           NEW arg \in FleetArgs(act, Sees(tab)), ~KnownToBeRefused(tab, act, arg)
    PROVE  Leads(tab, act, arg) # {}
  <1>0. FleetFits(record)
    BY DEF DesksInv
  <1> USE FleetSeen
  <1>1. CASE tab = "drones"
    <2>1. AddDroneOffers(act, record) \/ DroneOffers(act, record)
      <3> DEFINE view == [record EXCEPT !.status = "CLOSED"]
      <3>1. CASE LatestListed(tab, record)
        BY <1>1, <3>1 DEF FleetOffers
      <3>2. CASE ~LatestListed(tab, record)
        <4>1. /\ view.drone = record.drone /\ view.status = "CLOSED"
              /\ AddDroneOffers(act, view) \/ DroneOffers(act, view)
          BY <1>0, <1>1, <3>2 DEF FleetOffers, FleetFits, Fleet
        <4>2. ~Open(record) \/ act = "register" \/ record.drone = "RETIRED"
          BY <1>1, <3>2, <4>1
          DEF AddDroneOffers, DroneOffers, KnownToBeRefused, Overlooked
        <4>3. Open(record) => record.drone \notin {"NONE", "RETIRED"}
          BY <1>0 DEF FleetFits
        <4> HIDE DEF view
        <4> QED
          BY <4>1, <4>2, <4>3 DEF AddDroneOffers, DroneOffers
      <3> QED
        BY <3>1, <3>2
    <2>2. FleetAnswer(tab, act, arg, Sees(tab), record) # {} /\ act # "finish"
      <3>1. CASE act = "register"
        BY <2>1, <3>1 DEF AddDroneOffers, DroneOffers, FleetAnswer, Register, Granted
      <3>2. CASE act = "retire"
        BY <1>0, <2>1, <3>2 DEF AddDroneOffers, DroneOffers, FleetAnswer, SetServiceability,
                                Granted, FleetFits
      <3>3. CASE act = "restore"
        BY <1>0, <2>1, <3>3 DEF AddDroneOffers, DroneOffers, FleetAnswer, SetServiceability,
                                Granted, FleetFits
      <3>4. CASE act = "raise"
        BY <2>1, <3>4 DEF AddDroneOffers, DroneOffers, FleetAnswer, Raise, Granted,
                          WithinBounds
      <3> QED
        BY <2>1, <3>1, <3>2, <3>3, <3>4 DEF AddDroneOffers, DroneOffers
    <2> QED
      BY <2>2, FleetLeads
  <1>2. CASE tab = "dispatch"
    <2>1. act = "assign" /\ record.status = "OPEN" /\ Sees(tab) = record
      BY <1>2 DEF FleetOffers, DispatchPageOffers
    <2>2. FleetAnswer(tab, act, arg, Sees(tab), record) # {}
      BY <2>1 DEF FleetAnswer, AssignTicket, Granted
    <2> QED
      BY <2>1, <2>2, FleetLeads
  <1>3. CASE tab = "staff"
    <2>1. act = "hire" /\ arg \notin record.hired
      BY <1>3 DEF FleetOffers, FleetArgs
    <2>2. FleetAnswer(tab, act, arg, Sees(tab), record) # {}
      BY <2>1 DEF FleetAnswer, Hire, Granted
    <2> QED
      BY <2>1, <2>2, FleetLeads
  <1>4. CASE tab \in Engineers
    <2>1. TicketsPageOffers(act, Sees(tab))
      BY <1>4 DEF FleetOffers
    <2>2. record.engineer = tab /\ Sees(tab) = record
      <3>1. ~TicketsPageOffers(act, NewFleet)
        BY DEF TicketsPageOffers, NewFleet, Open
      <3> QED
        BY <1>4, <2>1, <3>1
    <2>3. CASE act = "start"
      <3>1. FleetAnswer(tab, act, arg, Sees(tab), record) # {}
        BY <2>1, <2>2, <2>3 DEF TicketsPageOffers, FleetAnswer, StartTicket, Granted
      <3> QED
        BY <2>3, <3>1, FleetLeads
    <2>4. CASE act = "finish"
      <3>1. record.status = "IN_PROGRESS"
        BY <1>0, <1>4, <2>1, <2>2, <2>4, FleetAssumption
        DEF TicketsPageOffers, FleetFits, Fleet, Open
      <3>2. FleetAnswer(tab, "close", arg, Sees(tab), record) # {}
        BY <2>2, <3>1 DEF FleetAnswer, CloseTicket, Granted
      <3> QED
        BY <2>2, <2>4, <3>2, FleetLeads
    <2> QED
      BY <2>1, <2>3, <2>4 DEF TicketsPageOffers
  <1> QED
    BY <1>1, <1>2, <1>3, <1>4

LEMMA ApplicationGranted ==
    ASSUME desk = "application", DesksInv, NEW tab \in DOMAIN seats,
           NEW act \in ApplicationActs, ApplicationOffers(tab, act, record),
           NEW arg \in ApplicationArgs(act), ~KnownToBeRefused(tab, act, arg)
    PROVE  Leads(tab, act, arg) # {}
  <1> USE DEF Granted, ApplicationOffers, ApplicationPageOffers, QueuePageOffers, EditableStage
  <1>1. ASSUME act = "profile" PROVE ApplicationAnswer(act, arg, record) # {}
    BY <1>1 DEF ApplicationAnswer, SaveProfile, KnownToBeRefused
  <1>2. ASSUME act = "coverage" PROVE ApplicationAnswer(act, arg, record) # {}
    BY <1>2 DEF ApplicationAnswer, SaveCoverage, KnownToBeRefused
  <1>3. CASE act = "upload"
    <2>1. record.stage \in ProfileStages /\ ConfirmUpload(record) # {}
      BY <1>3 DEF ConfirmUpload
    <2> QED
      BY <1>3, <2>1, ApplicationLeads
  <1>4. ASSUME act = "submit" PROVE ApplicationAnswer(act, arg, record) # {}
    BY <1>4 DEF ApplicationAnswer, SubmitApplication
  <1>5. ASSUME act \in {"activate", "reject"} PROVE ApplicationAnswer(act, arg, record) # {}
    BY <1>5 DEF ApplicationAnswer, DecideApplication
  <1> QED
    BY <1>1, <1>2, <1>3, <1>4, <1>5, ApplicationLeads DEF ApplicationActs

LEMMA AssortmentGranted ==
    ASSUME desk = "assortment", NEW tab, NEW act \in AssortmentActs,
           AssortmentOffers(tab, act, record), WithinBounds(act), NEW arg
    PROVE  Leads(tab, act, arg) # {}
  <1> USE DEF Granted, AssortmentOffers, AddFormOffers, RowOffers, ServiceTypesOffer, AreasOffer,
              Available, DistrictToSelect
  <1>1. ASSUME act \in {"type", "retired", "restored", "area"}
        PROVE  AssortmentAnswer(act, arg, record) # {}
    BY <1>1 DEF AssortmentAnswer, CreateServiceType, UpdateServiceType, CreateArea
  <1>2. ASSUME act = "create" PROVE AssortmentAnswer(act, arg, record) # {}
    BY <1>2 DEF AssortmentAnswer, CreateOffering
  <1>3. ASSUME act = "reprice" PROVE AssortmentAnswer(act, arg, record) # {}
    BY <1>3 DEF AssortmentAnswer, PublishVersion, WithinBounds
  <1>4. ASSUME act \in {"areas", "withdraw"} PROVE AssortmentAnswer(act, arg, record) # {}
    BY <1>4 DEF AssortmentAnswer, SetAreas, Withdraw
  <1> QED
    BY <1>1, <1>2, <1>3, <1>4, AssortmentLeads DEF AssortmentActs

\* Pages and handlers agree: every button of an up-to-date page is granted, but for the
\* three that are known not to be.
THEOREM PagesAgree == DesksSpec => []ButtonsAreGranted
  <1>1. ASSUME DesksInv PROVE ButtonsAreGranted
    <2> SUFFICES ASSUME NEW tab \in DOMAIN seats, NEW act \in DeskActs,
                        Offers(tab, act, Sees(tab)), WithinBounds(act),
                        NEW arg \in Args(act, Sees(tab)),
                        ~KnownToBeRefused(tab, act, arg)
                 PROVE  Leads(tab, act, arg) # {}
      BY DEF ButtonsAreGranted
    <2>1. CASE desk = "fleet"
      BY <1>1, <2>1, FleetGranted DEF DeskActs, Offers, Args
    <2>2. CASE desk = "application"
      BY <1>1, <2>2, ApplicationGranted DEF DeskActs, Offers, Args, Sees
    <2>3. CASE desk = "assortment"
      BY <1>1, <2>3, AssortmentGranted DEF DeskActs, Offers, Args, Sees
    <2> QED
      BY <1>1, <2>1, <2>2, <2>3 DEF DesksInv, DeskNames
  <1> QED
    BY <1>1, DesksInvariance, PTL

-----------------------------------------------------------------------------
\* A step that some page offers and that takes the record further.
Moves(tab, act) ==
    /\ Offers(tab, act, Sees(tab))
    /\ \E arg \in Args(act, Sees(tab)) : \E r \in Leads(tab, act, arg) :
          IF desk = "fleet" THEN r.status # record.status \/ r.hired # record.hired
          ELSE r.stage # record.stage

LEMMA FleetMovesBy ==
    ASSUME desk = "fleet", DesksInv, NEW tab \in DOMAIN seats, NEW act \in FleetActs,
           Sees(tab) = record, FleetOffers(tab, act, record),
           NEW arg \in FleetArgs(act, record), NEW r \in Leads(tab, act, arg),
           r.status # record.status \/ r.hired # record.hired
    PROVE  Moves(tab, act) /\ act \in DeskActs
  BY DEF Moves, Offers, Args, DeskActs

LEMMA FleetMoves ==
    ASSUME desk = "fleet", DesksInv, Grounded(record), ~OffTheList(record)
    PROVE  \E tab \in DOMAIN seats, act \in DeskActs : Moves(tab, act)
  <1>0. /\ FleetFits(record) /\ record \in Fleet /\ Open(record)
        /\ DOMAIN seats = {"drones", "dispatch", "staff"} \cup Engineers
    BY DEF DesksInv, FleetFits, Grounded, DeskPages, FleetPages
  <1>1. CASE record.status = "OPEN" /\ record.hired # {}
    <2> DEFINE r(e) == [record EXCEPT !.status = "ASSIGNED", !.engineer = e]
    <2>1. PICK e \in record.hired : TRUE
      BY <1>1
    <2>2. /\ "dispatch" \in DOMAIN seats /\ "assign" \in FleetActs
          /\ Sees("dispatch") = record /\ e \in FleetArgs("assign", record)
          /\ FleetOffers("dispatch", "assign", record)
      BY <1>0, <1>1, <2>1, FleetSeen
      DEF FleetOffers, DispatchPageOffers, FleetActs, FleetArgs
    <2>3. FleetAnswer("dispatch", "assign", e, record, record) = {r(e)}
      BY <1>1 DEF FleetAnswer, AssignTicket, Granted
    <2>4. r(e) \in Leads("dispatch", "assign", e)
      BY <2>2, <2>3, FleetLeads
    <2>5. r(e).status # record.status
      BY <1>0, <1>1 DEF Fleet
    <2> HIDE DEF r
    <2> QED
      BY <2>2, <2>4, <2>5, FleetMovesBy
  <1>2. CASE record.status = "OPEN" /\ record.hired = {}
    <2> DEFINE r(e) == [record EXCEPT !.hired = @ \cup {e}]
    <2>1. PICK e \in Engineers : TRUE
      BY FleetAssumption
    <2>2. /\ "staff" \in DOMAIN seats /\ "hire" \in FleetActs
          /\ Sees("staff") = record /\ e \in FleetArgs("hire", record)
          /\ FleetOffers("staff", "hire", record)
      BY <1>0, <1>2, <2>1, FleetSeen DEF FleetOffers, FleetActs, FleetArgs
    <2>3. FleetAnswer("staff", "hire", e, record, record) = {r(e)}
      BY <1>2 DEF FleetAnswer, Hire, Granted
    <2>4. r(e) \in Leads("staff", "hire", e)
      BY <2>2, <2>3, FleetLeads
    <2>5. r(e).hired # record.hired
      BY <1>0, <1>2 DEF Fleet
    <2> HIDE DEF r
    <2> QED
      BY <2>2, <2>4, <2>5, FleetMovesBy
  <1>3. CASE record.status = "ASSIGNED"
    <2> DEFINE tab == record.engineer
               r == [record EXCEPT !.status = "IN_PROGRESS"]
    <2>1. tab \in Engineers /\ LatestListed(tab, record)
      BY <1>0, <1>3 DEF FleetFits, OffTheList
    <2>2. /\ tab \in DOMAIN seats /\ "start" \in FleetActs /\ Sees(tab) = record
          /\ Nobody \in FleetArgs("start", record) /\ FleetOffers(tab, "start", record)
      BY <1>0, <1>3, <2>1, FleetSeen DEF FleetOffers, TicketsPageOffers, FleetActs, FleetArgs
    <2>3. FleetAnswer(tab, "start", Nobody, record, record) = {r}
      BY <1>3 DEF FleetAnswer, StartTicket, Granted
    <2> HIDE DEF tab
    <2>4. r \in Leads(tab, "start", Nobody)
      BY <2>2, <2>3, FleetLeads
    <2>5. r.status # record.status
      BY <1>0, <1>3 DEF Fleet
    <2> HIDE DEF r
    <2> QED
      BY <2>2, <2>4, <2>5, FleetMovesBy
  <1>4. CASE record.status = "IN_PROGRESS"
    <2> DEFINE tab == record.engineer
               r == [record EXCEPT !.status = "CLOSED", !.drone = "SERVICEABLE",
                                   !.closed[tab] = @ + 1]
    <2>1. tab \in Engineers /\ LatestListed(tab, record)
      BY <1>0, <1>4 DEF FleetFits, OffTheList
    <2>2. /\ tab \in DOMAIN seats /\ "finish" \in FleetActs /\ Sees(tab) = record
          /\ Nobody \in FleetArgs("finish", record) /\ FleetOffers(tab, "finish", record)
      BY <1>0, <1>4, <2>1, FleetSeen
      DEF FleetOffers, TicketsPageOffers, FleetActs, FleetArgs, Open
    <2>3. FleetAnswer(tab, "close", Nobody, record, record) = {r}
      BY <1>4 DEF FleetAnswer, CloseTicket, Granted
    <2>4. record.engineer = tab
      OBVIOUS
    <2> HIDE DEF tab
    <2>5. r \in Leads(tab, "finish", Nobody)
      BY <2>2, <2>3, <2>4, FleetLeads
    <2>6. r.status # record.status
      BY <1>0, <1>4 DEF Fleet
    <2> HIDE DEF r
    <2> QED
      BY <2>2, <2>5, <2>6, FleetMovesBy
  <1> QED
    BY <1>0, <1>1, <1>2, <1>3, <1>4 DEF Fleet, Open

LEMMA ApplicationMovesBy ==
    ASSUME desk = "application", DesksInv, NEW tab \in DOMAIN seats,
           NEW act \in ApplicationActs, ApplicationOffers(tab, act, record),
           NEW arg \in ApplicationArgs(act), NEW r \in Leads(tab, act, arg),
           r.stage # record.stage
    PROVE  Moves(tab, act) /\ act \in DeskActs
  BY DEF Moves, Offers, Args, DeskActs, Sees

LEMMA ApplicationMoves ==
    ASSUME desk = "application", DesksInv, Undecided(record)
    PROVE  \E tab \in DOMAIN seats, act \in DeskActs : Moves(tab, act)
  <1>0. /\ record \in Applications /\ DOMAIN seats = ApplicationPages
        /\ record.stage \in ProfileStages \cup {"UNDER_REVIEW"}
    BY DEF DesksInv, DeskPages, Undecided, Applications
  <1> DEFINE r(stage) == [record EXCEPT !.stage = stage]
  <1>1. ASSUME NEW tab \in ApplicationPages, NEW act \in ApplicationActs, NEW stage,
               ApplicationOffers(tab, act, record), {} \in ApplicationArgs(act),
               r(stage) \in Leads(tab, act, {}), stage # record.stage
        PROVE  Moves(tab, act) /\ act \in DeskActs
    <2>1. r(stage).stage # record.stage
      BY <1>0, <1>1 DEF Applications
    <2> HIDE DEF r
    <2> QED
      BY <1>0, <1>1, <2>1, ApplicationMovesBy
  <1> USE DEF ApplicationOffers, ApplicationPageOffers, QueuePageOffers, EditableStage,
              ApplicationArgs, ApplicationActs, ApplicationPages
  <1>2. CASE record.stage \in {"REGISTERED", "REJECTED"}
    <2>1. ApplicationAnswer("profile", {}, record) = {r("PROFILE_COMPLETE")}
      BY <1>2 DEF ApplicationAnswer, SaveProfile, Granted, ProfileStages, SavesInVain
    <2>2. r("PROFILE_COMPLETE") \in Leads("application", "profile", {})
      BY <2>1, ApplicationLeads
    <2>3. /\ ApplicationOffers("application", "profile", record)
          /\ {} \in ApplicationArgs("profile") /\ "PROFILE_COMPLETE" # record.stage
      BY <1>2 DEF ProfileStages
    <2> QED
      BY <1>0, <1>1, <2>2, <2>3
  <1>3. CASE record.stage = "PROFILE_COMPLETE"
    <2>1. ConfirmUpload(record) = {r("DOCUMENTS_SUBMITTED")}
      BY <1>0, <1>3 DEF ConfirmUpload, Applications
    <2>2. r("DOCUMENTS_SUBMITTED") \in Leads("application", "upload", {})
      BY <1>3, <2>1, ApplicationLeads DEF ProfileStages
    <2>3. /\ ApplicationOffers("application", "upload", record)
          /\ {} \in ApplicationArgs("upload") /\ "DOCUMENTS_SUBMITTED" # record.stage
      BY <1>3 DEF ProfileStages
    <2> QED
      BY <1>0, <1>1, <2>2, <2>3
  <1>4. CASE record.stage = "DOCUMENTS_SUBMITTED"
    <2>1. ApplicationAnswer("submit", {}, record) = {r("UNDER_REVIEW")}
      BY <1>4 DEF ApplicationAnswer, SubmitApplication, Granted
    <2>2. r("UNDER_REVIEW") \in Leads("application", "submit", {})
      BY <2>1, ApplicationLeads
    <2>3. /\ ApplicationOffers("application", "submit", record)
          /\ {} \in ApplicationArgs("submit") /\ "UNDER_REVIEW" # record.stage
      BY <1>4
    <2> QED
      BY <1>0, <1>1, <2>2, <2>3
  <1>5. CASE record.stage = "UNDER_REVIEW"
    <2>1. ApplicationAnswer("activate", {}, record) = {r("ACTIVATED")}
      BY <1>5 DEF ApplicationAnswer, DecideApplication, Granted
    <2>2. r("ACTIVATED") \in Leads("queue", "activate", {})
      BY <2>1, ApplicationLeads
    <2>3. /\ ApplicationOffers("queue", "activate", record)
          /\ {} \in ApplicationArgs("activate") /\ "ACTIVATED" # record.stage
      BY <1>5
    <2> QED
      BY <1>0, <1>1, <2>2, <2>3
  <1> QED
    BY <1>0, <1>2, <1>3, <1>4, <1>5 DEF ProfileStages

\* Nobody is left waiting: while an application is undecided or a drone is grounded, by a
\* ticket that its engineer's list has room for, some page offers a step that takes it further.
THEOREM WorkMovesOn == DesksSpec => []SomebodyMovesOn
  <1>1. ASSUME DesksInv PROVE SomebodyMovesOn
    <2>1. CASE desk = "fleet"
      BY <1>1, <2>1, FleetMoves DEF SomebodyMovesOn, StepOnOffer, Moves
    <2>2. CASE desk = "application"
      BY <1>1, <2>2, ApplicationMoves DEF SomebodyMovesOn, StepOnOffer, Moves
    <2> QED
      BY <1>1, <2>1, <2>2 DEF SomebodyMovesOn, DesksInv, DeskNames
  <1> QED
    BY <1>1, DesksInvariance, PTL

-----------------------------------------------------------------------------
(* The site. *)

\* Whichever page is followed, each page of the site behaves as it does on its own.
THEOREM EachPageOnItsOwn ==
    SiteSpec => Spec /\ MapSpec /\ DesksSpec /\ AccountSpec
  <1>1. SiteInit => Init /\ MapInit /\ DesksInit /\ AccountInit
    BY DEF SiteInit
  <1>2. ASSUME [SiteNext]_siteVars
        PROVE  /\ [Next]_vars /\ [MapNext]_mapVars /\ [DesksNext]_deskVars
               /\ [AccountNext]_accountVars
    <2>1. CASE SearchSteps(Next)
      BY <2>1 DEF SearchSteps, Follows
    <2>2. CASE MapSteps
      BY <2>2 DEF MapSteps, Follows
    <2>3. CASE DesksStep
      BY <2>3 DEF DesksStep, Follows
    <2>4. CASE AccountSteps
      BY <2>4 DEF AccountSteps, Follows
    <2>5. CASE UNCHANGED siteVars
      BY <2>5 DEF siteVars
    <2> QED
      BY <1>2, <2>1, <2>2, <2>3, <2>4, <2>5 DEF SiteNext
  <1> QED
    BY <1>1, <1>2, PTL DEF SiteSpec, Spec, MapSpec, DesksSpec, AccountSpec

\* And so the site has the properties of its pages.
COROLLARY SiteIsSound ==
    SiteSpec => /\ []GivenIsDrawn /\ []ButtonsAreGranted /\ []SomebodyMovesOn
                /\ []ShownIsSavedUnlessCrossed
                /\ FillsForTheLatestMove /\ KeepsTheBookingsService /\ SuggestionsForTheText
  BY EachPageOnItsOwn, MapShowsGiven, PagesAgree, WorkMovesOn, AccountIsShown, LatestMoveFills,
     BookingsServiceStays, SuggestedForTheText, PTL
=============================================================================
