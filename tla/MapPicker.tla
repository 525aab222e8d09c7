------------------------------ MODULE MapPicker ------------------------------
(***************************************************************************)
(* The map on which a point is picked (map-picker.tsx): by a click, by a    *)
(* search for a place or by the position of the device.  Leaflet, the saved *)
(* point, suggestions and place names all arrive in their own time.         *)
(***************************************************************************)
EXTENDS Naturals, FiniteSets

CONSTANTS
    Spots,        \* points of the map
    Texts,        \* what is typed, and the labels of suggestions
    Untitled,     \* the empty search box
    Nowhere,      \* no point, no text
    MaxGestures   \* bound: what the user and the parent do

ASSUME MapAssumption ==
    Untitled # Nowhere /\ {Untitled, Nowhere} \cap Spots = {} /\ Nowhere \notin Texts

VARIABLES
    alive,      \* aliveRef
    board,      \* the Leaflet map: pin and markers drawn, and what the picker recorded of them
    given,      \* initial and markers, as the parent has them
    picked,     \* the pick that is shown
    heard,      \* the last pick the parent was told of; Untitled: none was, Nowhere: cleared
    box,        \* the search box: text, suggestions, open, suppressed label, spinner
    timer,      \* a search that waits for the user to stop typing
    fetch,      \* the search on its way; aborted: abandoned ones that have not settled
    geocodes,   \* points whose names are being looked up
    locating,   \* the button of the device's position
    gestures

mapVars == <<alive, board, given, picked, heard, box, timer, fetch, geocodes, locating, gestures>>

NoBoard == [ready |-> FALSE, pin |-> Nowhere, applied |-> Nowhere,
            live |-> Nowhere, drawn |-> Nowhere]
NoFetch == [text |-> Nowhere, aborted |-> FALSE]
NoSuggestion == [of |-> Nowhere, label |-> Nowhere, spot |-> Nowhere]

Gesture == alive /\ gestures < MaxGestures /\ gestures' = gestures + 1
NoGesture == UNCHANGED gestures

-----------------------------------------------------------------------------
(* Drawing. *)

PlaceMarker(b, spot) == IF b.ready THEN [b EXCEPT !.pin = spot] ELSE b

\* The effect of a saved point.
ApplySaved(b) ==
    IF ~b.ready \/ given.saved' \in {Nowhere, b.applied} THEN b
    ELSE [PlaceMarker(b, given.saved') EXCEPT !.applied = given.saved']

\* The result marker: one that is live is moved, one that is not is added.
SyncMarkers(b) ==
    IF ~b.ready THEN b
    ELSE [b EXCEPT !.live = given.marker',
                   !.drawn = IF b.live = Nowhere \/ b.drawn # Nowhere
                             THEN given.marker' ELSE Nowhere]

Redraw(b) == board' = SyncMarkers(ApplySaved(b))

LeafletLoads ==
    /\ alive /\ ~board.ready
    /\ UNCHANGED given
    /\ Redraw([board EXCEPT !.ready = TRUE])
    /\ NoGesture /\ UNCHANGED <<alive, picked, heard, box, timer, fetch, geocodes, locating>>

SavedArrives(spot) ==
    /\ Gesture /\ spot # given.saved
    /\ given' = [given EXCEPT !.saved = spot]
    /\ Redraw(board)
    /\ UNCHANGED <<alive, picked, heard, box, timer, fetch, geocodes, locating>>

MarkersChange(spot) ==
    /\ Gesture /\ spot # given.marker
    /\ given' = [given EXCEPT !.marker = spot]
    /\ Redraw(board)
    /\ UNCHANGED <<alive, picked, heard, box, timer, fetch, geocodes, locating>>

\* The cleanup of the effect, which takes the map with it.  (Mutant: the markers stay
\* recorded as live.)
UndoneButMarkers == [NoBoard EXCEPT !.live = board.live]
Undone == NoBoard

\* The effect of a text: a label that was just picked is not searched for.
SearchEffect(text) ==
    timer' = IF text \in {Untitled, box.suppress} THEN Nowhere ELSE text
Unsuppressed(text) == IF text = box.suppress THEN Nowhere ELSE box.suppress

\* React runs the effects again: Strict Mode and Fast Refresh, in development.
EffectsRunAgain ==
    /\ Gesture
    /\ board' = Undone
    /\ SearchEffect(box.text)
    /\ box' = [box EXCEPT !.suppress = Unsuppressed(box.text)]
    /\ UNCHANGED <<alive, given, picked, heard, fetch, geocodes, locating>>

Unmount ==
    /\ alive /\ alive' = FALSE
    /\ board' = Undone /\ timer' = Nowhere
    /\ NoGesture /\ UNCHANGED <<given, picked, heard, box, fetch, geocodes, locating>>

-----------------------------------------------------------------------------
(* Picking. *)

Pick(spot) == geocodes' = geocodes \cup {[spot |-> spot, locate |-> FALSE]}

ClickMap(spot) ==
    /\ Gesture /\ board.ready
    /\ Pick(spot)
    /\ UNCHANGED <<alive, board, given, picked, heard, box, timer, fetch, locating>>

LocateMe ==
    /\ Gesture /\ ~locating
    /\ locating' = TRUE
    /\ UNCHANGED <<alive, board, given, picked, heard, box, timer, fetch, geocodes>>

\* The position comes, or it does not.
Positioned(spot) ==
    /\ locating /\ \A g \in geocodes : ~g.locate
    /\ geocodes' = geocodes \cup {[spot |-> spot, locate |-> TRUE]}
    /\ NoGesture
    /\ UNCHANGED <<alive, board, given, picked, heard, box, timer, fetch, locating>>

LocateFails ==
    /\ locating /\ \A g \in geocodes : ~g.locate
    /\ locating' = FALSE
    /\ NoGesture
    /\ UNCHANGED <<alive, board, given, picked, heard, box, timer, fetch, geocodes>>

\* applyPick, with the place's name or without it.
PickLands(g) ==
    /\ geocodes' = geocodes \ {g}
    /\ locating' = (locating /\ ~g.locate)
    /\ IF alive
       THEN picked' = g.spot /\ heard' = g.spot /\ board' = PlaceMarker(board, g.spot)
       ELSE UNCHANGED <<picked, heard, board>>
    /\ NoGesture /\ UNCHANGED <<alive, given, box, timer, fetch>>

\* abortRef.  (Mutant: nothing is abandoned.)
AbortNothing == fetch' = fetch
Abort == fetch' = [fetch EXCEPT !.aborted = fetch # NoFetch]

ClearPick ==
    /\ Gesture /\ picked # Nowhere
    /\ Abort
    /\ board' = [board EXCEPT !.pin = Nowhere]
    /\ picked' = Nowhere /\ heard' = Nowhere
    /\ box' = [box EXCEPT !.text = Untitled, !.found = NoSuggestion, !.searched = Nowhere,
                          !.open = FALSE]
    /\ timer' = IF box.text = Untitled THEN timer ELSE Nowhere
    /\ UNCHANGED <<alive, given, geocodes, locating>>

-----------------------------------------------------------------------------
(* Searching. *)

Type(text) ==
    /\ Gesture /\ text # box.text
    /\ Abort
    /\ SearchEffect(text)
    /\ box' = [box EXCEPT !.text = text, !.open = @ /\ text # Untitled,
                          !.suppress = Unsuppressed(text)]
    /\ UNCHANGED <<alive, board, given, picked, heard, geocodes, locating>>

\* An abandoned search has settled by the time the next is sent.
TimerFires ==
    /\ timer # Nowhere /\ ~fetch.aborted
    /\ fetch' = [text |-> timer, aborted |-> FALSE]
    /\ timer' = Nowhere
    /\ box' = [box EXCEPT !.searching = TRUE]
    /\ NoGesture /\ UNCHANGED <<alive, board, given, picked, heard, geocodes, locating>>

Answered == fetch # NoFetch /\ fetch' = NoFetch
Settled(b) == box' = [b EXCEPT !.searching = FALSE]

SearchLands(found) ==
    /\ Answered /\ ~fetch.aborted
    /\ Settled([box EXCEPT !.found = found, !.searched = fetch.text, !.open = TRUE])
    /\ NoGesture /\ UNCHANGED <<alive, board, given, picked, heard, timer, geocodes, locating>>

SearchFails ==
    /\ Answered
    /\ Settled([box EXCEPT !.found = IF fetch.aborted THEN @ ELSE NoSuggestion])
    /\ NoGesture /\ UNCHANGED <<alive, board, given, picked, heard, timer, geocodes, locating>>

FocusBox ==
    /\ Gesture /\ ~box.open /\ box.found # NoSuggestion
    /\ box' = [box EXCEPT !.open = TRUE]
    /\ UNCHANGED <<alive, board, given, picked, heard, timer, fetch, geocodes, locating>>

\* A click elsewhere, or Escape.
CloseBox ==
    /\ Gesture /\ box.open
    /\ box' = [box EXCEPT !.open = FALSE]
    /\ UNCHANGED <<alive, board, given, picked, heard, timer, fetch, geocodes, locating>>

\* A click on a suggestion; or Enter, which asks neither whether the list is open nor what
\* it was found for.
PickSearchResult ==
    /\ Gesture /\ box.found # NoSuggestion
    /\ Abort
    /\ LET label == box.found.label IN
       /\ box' = [box EXCEPT !.text = label, !.open = FALSE,
                             !.suppress = IF label = box.text THEN label ELSE Nowhere]
       /\ timer' = IF label = box.text THEN timer ELSE Nowhere
    /\ Pick(box.found.spot)
    /\ UNCHANGED <<alive, board, given, picked, heard, locating>>

-----------------------------------------------------------------------------
MapInit ==
    /\ alive = TRUE /\ board = NoBoard
    /\ given = [saved |-> Nowhere, marker |-> Nowhere]
    /\ picked = Nowhere /\ heard = Untitled
    /\ box = [text |-> Untitled, found |-> NoSuggestion, searched |-> Nowhere, open |-> FALSE,
              suppress |-> Nowhere, searching |-> FALSE]
    /\ timer = Nowhere /\ fetch = NoFetch
    /\ geocodes = {} /\ locating = FALSE /\ gestures = 0

\* What the geocoder finds for a text: something, or nothing.
Found == {NoSuggestion} \cup [of : {fetch.text}, label : Texts, spot : Spots]

MapNext ==
    \/ LeafletLoads \/ EffectsRunAgain \/ Unmount
    \/ \E spot \in Spots : SavedArrives(spot)
    \/ \E spot \in Spots \cup {Nowhere} : MarkersChange(spot)
    \/ \E spot \in Spots : ClickMap(spot) \/ Positioned(spot)
    \/ LocateMe \/ LocateFails \/ ClearPick
    \/ \E g \in geocodes : PickLands(g)
    \/ \E text \in Texts \cup {Untitled} : Type(text)
    \/ TimerFires \/ SearchFails \/ FocusBox \/ CloseBox \/ PickSearchResult
    \/ \E found \in Found : SearchLands(found)

MapSpec == MapInit /\ [][MapNext]_mapVars

-----------------------------------------------------------------------------
(* Properties. *)

\* Suggestions that appear were found for the text that is in the box at that moment,
\* however the user's typing and the answers of the geocoder overtake one another.
SuggestionsForTheText ==
    [][ (box'.found # box.found /\ box'.found # NoSuggestion) => box'.found.of = box.text
      ]_mapVars

\* Whatever came first, Leaflet or what it is to draw: the map shows the markers it was
\* given, and the saved point until the user picks another.
GivenIsDrawn ==
    board.ready =>
        /\ board.drawn = given.marker
        /\ (given.saved # Nowhere /\ heard = Untitled) => board.pin = given.saved

\* Not so: a pick is drawn.  One made before Leaflet is there is not, nor one that a saved
\* point overtakes.
PinIsDrawn == (board.ready /\ heard \in Spots) => board.pin = heard

=============================================================================
