---------------------------- MODULE BookingPages ----------------------------
(***************************************************************************)
(* The pages on which the parties of a booking act: the customer's page of  *)
(* the booking, a provider's requests and jobs, the console of the staff.   *)
(*                                                                          *)
(* A page shows the booking as it was when it was loaded, offers buttons by *)
(* what it shows, sends one request at a time and loads again when that has *)
(* succeeded.  A request names the booking and nothing of what was shown;   *)
(* the handlers are those of module Booking.                                *)
(***************************************************************************)
EXTENDS Booking, FiniteSets

CONSTANTS
    Pinned,    \* whether the booking has a place on the map
    MaxTabs,   \* bound: parties with a page open or a request on its way at a time
    MaxSeeks   \* bound: questions for providers on their way at a time

ASSUME PagesAssumption == Pinned \in BOOLEAN /\ MaxTabs \in Nat /\ MaxSeeks \in Nat

VARIABLES
    tabs,     \* per party: its page, what that shows, and what it waits for
    sent,     \* per party: the request on its way
    console   \* the staff's page, besides: its list of providers

pageVars == <<vars, tabs, sent, console>>

Parties == Providers \cup {Customer, Staff}

PagesOf(v) ==
    CASE v = Customer -> {"booking"}
      [] v = Staff    -> {"console"}
      [] OTHER        -> {"requests", "jobs"}

\* pendingSchedule: the proposal on the table.
Proposal == IF PendingRows = {} THEN [by |-> "NOBODY", date |-> None]
            ELSE LET s == CHOOSE s \in PendingRows : TRUE
                 IN  [by |-> schedules[s].by, date |-> schedules[s].date]

Nothing == [status |-> "NONE", provider |-> None, proposal |-> [by |-> "NOBODY", date |-> None],
            amount |-> 0, paid |-> FALSE, reviewed |-> FALSE]

\* What a page shows of the booking and its buttons or the properties go by; payment and
\* review come in answers of their own.
CustomerSees(paid, reviewed) ==
    [status |-> status, provider |-> AssignedProvider, proposal |-> Proposal,
     amount |-> final.amount, paid |-> paid, reviewed |-> reviewed]
ProviderSees == [Nothing EXCEPT !.status = status, !.proposal = Proposal]
StaffSees == [Nothing EXCEPT !.status = status]

Detail(v, paid, reviewed) ==
    CASE v = Customer -> CustomerSees(paid, reviewed)
      [] v = Staff    -> StaffSees
      [] OTHER        -> ProviderSees

\* assignmentStatus=PENDING, assignmentStatus=ACCEPTED.
Requested(v) == \E x \in Assignments : AssignedTo(v, x)
TakenBy(v) == \E x \in Assignments :
                 assignments[x].status = "ACCEPTED" /\ assignments[x].provider = v

Lists(v, page) ==
    CASE page = "requests" -> Requested(v)
      [] page = "jobs"     -> TakenBy(v)
      [] OTHER             -> TRUE

NoTab == [page |-> "none", view |-> Nothing, phase |-> "closed"]
NoRequest == [act |-> "none", input |-> <<None, 0>>, view |-> Nothing, live |-> FALSE]

\* The list is open while its first question is on its way.
NewConsole == [open |-> FALSE, seeks |-> 0, found |-> {}]

\* What was found goes with the list, which opens empty.
Closed == [console EXCEPT !.open = FALSE, !.found = {}]

Set(v, tab) == tabs' = [tabs EXCEPT ![v] = tab]

-----------------------------------------------------------------------------
(* The buttons of each page, by what it shows. *)

Unsettled(view) == view.status \notin {"NONE", "COMPLETED", "CANCELLED"}

\* awaitingCustomer, awaitingMe.  (Mutants: a proposal of its own does not keep the
\* provider from answering; any proposal does; the work can be confirmed before the
\* provider says it is done.)
AnyProposal(view) == TRUE
NoProposal(view) == view.proposal.by = "NOBODY"
MayAnswer(view) == view.proposal.by # "PROVIDER"
TakenOn(view) == view.status \in {"SCHEDULED", "AWAITING_CONFIRMATION"}
SaidDone(view) == view.status = "AWAITING_CONFIRMATION"

OffersDates(act, view) ==
    \/ act = "confirm" /\ view.proposal.by = "PROVIDER"
    \/ act = "propose" /\ Unsettled(view) /\ view.status # "UNASSIGNED"

OffersToSettle(act, view) ==
    \/ act = "done"   /\ SaidDone(view)
    \/ act = "pay"    /\ view.status = "COMPLETED" /\ ~view.paid
    \/ act = "review" /\ view.status = "COMPLETED" /\ ~view.reviewed

BookingPageOffers(act, view) ==
    \/ OffersDates(act, view)
    \/ OffersToSettle(act, view)
    \/ act = "cancel" /\ Unsettled(view)

RequestsPageOffers(act, view) ==
    act \in {"accept", "propose", "decline"} /\ view # Nothing /\ MayAnswer(view)

OffersToAgree(act, view) == act = "confirm" /\ view.proposal.by = "CUSTOMER"

JobsPageOffers(act, view) ==
    /\ view.status = "SCHEDULED"
    /\ act \in {"propose", "complete", "cancel"} \/ OffersToAgree(act, view)

ConsoleOffers(act, view) == act = "cancel" /\ Unsettled(view)

\* Discovery measures distances, so it is asked for a booking with a pin only.
OffersToFind(view) == view.status = "UNASSIGNED" /\ Pinned

Offers(page, act, view) ==
    CASE page = "booking"  -> BookingPageOffers(act, view)
      [] page = "requests" -> RequestsPageOffers(act, view)
      [] page = "jobs"     -> JobsPageOffers(act, view)
      [] page = "console"  -> ConsoleOffers(act, view)

Acts == {"confirm", "propose", "done", "pay", "review", "cancel", "accept", "decline",
         "complete", "place"}

-----------------------------------------------------------------------------
(* The requests, and the handlers that answer them. *)

Handler(v, r) ==
    \/ r.act = "confirm"  /\ ConfirmSchedule(v)
    \/ r.act = "propose"  /\ ProposeSchedule(v, r.input[1])
    \/ r.act = "done"     /\ ConfirmCompletion
    \/ r.act = "pay"      /\ RecordPayment(v, final.amount)
    \/ r.act = "review"   /\ Review
    \/ r.act = "cancel"   /\ Cancel(v)
    \/ r.act = "accept"   /\ Accept(v)
    \/ r.act = "decline"  /\ Reject(v)
    \/ r.act = "complete" /\ MarkComplete(v, r.input[2])
    \/ r.act = "place"    /\ Assign(r.input[1], r.input[2])

\* The offerings: each of a provider, at its price.
OnOffer == Providers \X Prices

\* What the forms add to a button, and which offering the button of a list names.
Inputs(act) ==
    CASE act = "propose"  -> Dates \X {0}
      [] act = "complete" -> {None} \X Quantities
      [] act = "place"    -> OnOffer
      [] OTHER            -> {<<None, 0>>}

\* The list of providers stands beside the rows, whatever these show.
ListOffers(offering) == console.open /\ offering \in console.found

OfferedHere(v, act, input) ==
    \/ Offers(tabs[v].page, act, tabs[v].view)
    \/ v = Staff /\ act = "place" /\ ListOffers(input)

\* With a request goes, for the properties, what a party of the booking was shown.
Shown(v) == IF v = Staff THEN Nothing ELSE tabs[v].view

Press(v, act, input) ==
    /\ tabs[v].phase = "ready" /\ sent[v] = NoRequest
    /\ OfferedHere(v, act, input)
    /\ sent' = [sent EXCEPT ![v] = [act |-> act, input |-> input, view |-> Shown(v),
                                    live |-> TRUE]]
    /\ Set(v, [tabs[v] EXCEPT !.phase = "acting"])
    /\ UNCHANGED <<vars, console>>

\* The page goes on, if it is still there.
Resume(v, phase) ==
    /\ sent' = [sent EXCEPT ![v] = NoRequest]
    /\ IF sent[v].live THEN Set(v, [tabs[v] EXCEPT !.phase = phase]) ELSE UNCHANGED tabs

\* Done, and the page loads again; or the answer is lost, and the page keeps what it showed.
\* The list of providers has served its purpose.
Handled(v) ==
    /\ sent[v] # NoRequest
    /\ Handler(v, sent[v])
    /\ \/ /\ Resume(v, "loading")
          /\ console' = IF sent[v].act = "place" /\ sent[v].live
                        THEN Closed ELSE console
       \/ Resume(v, "ready") /\ UNCHANGED console

\* Refused, or lost on its way.
NotHandled(v) ==
    /\ sent[v] # NoRequest
    /\ Resume(v, "ready")
    /\ UNCHANGED <<vars, console>>

\* Of payment and review, an answer that fails counts as none.
Load(v) ==
    /\ tabs[v].phase = "loading"
    /\ \E paid \in {FALSE, payment # NoPayment}, reviewed \in {FALSE, review # None} :
          Set(v, [tabs[v] EXCEPT !.phase = "ready",
                      !.view = IF ~Lists(v, tabs[v].page) THEN Nothing
                               ELSE Detail(v, paid, reviewed)])
    /\ UNCHANGED <<vars, sent, console>>

LoadFails(v) ==
    /\ tabs[v].phase = "loading"
    /\ Set(v, [tabs[v] EXCEPT !.phase = "ready"])
    /\ UNCHANGED <<vars, sent, console>>

\* A page is left; a request on its way goes on without it.
Leave(v) ==
    /\ tabs[v] # NoTab
    /\ Set(v, NoTab)
    /\ sent' = IF sent[v] = NoRequest THEN sent
               ELSE [sent EXCEPT ![v].live = FALSE]
    /\ console' = IF v = Staff THEN NewConsole ELSE console
    /\ UNCHANGED vars

Visit(v, page) ==
    /\ tabs[v] = NoTab
    /\ Cardinality({w \in Parties : tabs[w] # NoTab \/ sent[w] # NoRequest} \cup {v}) <= MaxTabs
    /\ Set(v, [NoTab EXCEPT !.page = page, !.phase = "loading"])
    /\ UNCHANGED <<vars, sent, console>>

\* The staff choose another filter, or another page of the rows, busy or not.  (Rows that
\* are on their way, or without the booking, only take buttons away.)
AtTheConsole == tabs[Staff].page = "console"
LookAgain ==
    /\ AtTheConsole
    /\ Set(Staff, [tabs[Staff] EXCEPT !.view = StaffSees])
    /\ UNCHANGED <<vars, sent, console>>

\* They ask who could take the job.  The button hides behind the form to cancel only.
Seek ==
    /\ AtTheConsole /\ OffersToFind(tabs[Staff].view)
    /\ tabs[Staff].phase = "acting" => sent[Staff].act = "place"
    /\ console.seeks < MaxSeeks
    /\ console' = [console EXCEPT !.open = TRUE, !.found = {}, !.seeks = @ + 1]
    /\ UNCHANGED <<vars, tabs, sent>>

\* Discovery answers with anybody, or nobody; or it fails, which closes the list.
Sought ==
    /\ console.seeks > 0
    /\ \/ /\ console.open
          /\ \E found \in SUBSET OnOffer :
                console' = [console EXCEPT !.seeks = @ - 1, !.found = found]
       \/ console' = [Closed EXCEPT !.seeks = @ - 1]
    /\ UNCHANGED <<vars, tabs, sent>>

CloseList ==
    /\ console.open
    /\ console' = Closed
    /\ UNCHANGED <<vars, tabs, sent>>

\* The customer finds another provider on the search page.
Find(p, price) ==
    /\ Assign(p, price)
    /\ UNCHANGED <<tabs, sent, console>>

-----------------------------------------------------------------------------
PagesInit ==
    /\ Init
    /\ tabs = [v \in Parties |-> NoTab]
    /\ sent = [v \in Parties |-> NoRequest]
    /\ console = NewConsole

PagesNext ==
    \/ \E v \in Parties :
          \/ \E act \in Acts : \E input \in Inputs(act) : Press(v, act, input)
          \/ Handled(v)
          \/ NotHandled(v)
          \/ Load(v)
          \/ LoadFails(v)
          \/ Leave(v)
          \/ \E page \in PagesOf(v) : Visit(v, page)
    \/ LookAgain
    \/ Seek \/ Sought \/ CloseList
    \/ \E p \in Providers, price \in Prices : Find(p, price)

PagesSpec == PagesInit /\ [][PagesNext]_pageVars

-----------------------------------------------------------------------------
(* Properties. *)

\* However old the page is, a customer who confirms the work, records the payment or
\* writes a review does it for the amount and the provider the page shows.
SettledAsShown ==
    [][ /\ (status # "COMPLETED" /\ status' = "COMPLETED") =>
              sent[Customer].act = "done" /\ sent[Customer].view.amount = final'.amount
        /\ payment' # payment =>
              sent[Customer].act = "pay" /\ sent[Customer].view.amount = payment'.amount
        /\ review' # review =>
              sent[Customer].act = "review" /\ sent[Customer].view.provider = review'
      ]_pageVars

\* What the API does with a button of a page that is up to date, as long as there are rows
\* and estimates fit their column.
UpToDate(v, page) ==
    IF Lists(v, page) THEN Detail(v, payment # NoPayment, review # None) ELSE Nothing
RowsFor(act) ==
    act \in {"propose", "place"} => \E s \in Schedules : schedules[s].status = "FREE"
RoomFor(offering) ==
    /\ RowsFor("place") /\ \E x \in Assignments : assignments[x].status = "FREE"
    /\ Len(history) < MaxTrail /\ FitsColumn(Estimate(offering[2]))
RequestOf(act, input) == [NoRequest EXCEPT !.act = act, !.input = input]
Accepted(v, act, inputs) == \E input \in inputs : ENABLED Handler(v, RequestOf(act, input))

\* Work that is said to be done can no longer be cancelled, and a proposal left over on a
\* closed booking can no longer be confirmed, although the pages offer both; and the list of
\* providers stays open when the job has been placed or closed by somebody else.
OfferedInVain(act, view) ==
    \/ act = "cancel" /\ view.status = "AWAITING_CONFIRMATION"
    \/ act = "confirm" /\ ~Unsettled(view)
    \/ act = "place" /\ view.status # "UNASSIGNED"

\* With these three exceptions the pages and the API agree: no button of a page that is up
\* to date is refused, whatever sequence of steps led there.
OfferedIsAccepted ==
    /\ \A v \in Parties : \A page \in PagesOf(v), act \in Acts :
          LET view == UpToDate(v, page) IN
          (Offers(page, act, view) /\ ~OfferedInVain(act, view) /\ RowsFor(act))
              => Accepted(v, act, Inputs(act))
    /\ \A offering \in OnOffer :
          (ListOffers(offering) /\ ~OfferedInVain("place", StaffSees) /\ RoomFor(offering))
              => Accepted(Staff, "place", {offering})

\* Not so: the customer has placed the job meanwhile, or somebody has cancelled it.
ListIsAccepted ==
    \A offering \in OnOffer :
        (ListOffers(offering) /\ RoomFor(offering)) => Accepted(Staff, "place", {offering})

\* And no booking is stranded: until it is closed, somebody's page offers a step that takes
\* it further, and the API takes it.  One without a provider can be placed with any that
\* the search page or the console finds.
SomebodyCanGoOn ==
    /\ (NotTerminal /\ status # "UNASSIGNED") =>
          \E v \in Parties : \E page \in PagesOf(v), act \in {"accept", "confirm", "complete",
                                                              "done"} :
              Offers(page, act, UpToDate(v, page)) /\ Accepted(v, act, Inputs(act))
    /\ status = "UNASSIGNED" =>
          \A offering \in OnOffer, v \in {Customer, Staff} :
              RoomFor(offering) => Accepted(v, "place", {offering})

\* Not so: for a booking without a pin the platform has nothing to offer.
PlatformCanGoOn == status = "UNASSIGNED" => OffersToFind(StaffSees)

\* "Accept this date": the date that is agreed is the one the page shows.
AgreedAsShown ==
    [][ \A v \in Parties :
          (date # date' /\ date' # None /\ sent[v].act \in {"accept", "confirm"}
           /\ sent'[v] = NoRequest) => sent[v].view.proposal.date = date' ]_pageVars
=============================================================================
