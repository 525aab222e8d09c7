------------------------------ MODULE Settlement ------------------------------
(***************************************************************************)
(* What is recorded of a booking when its work is done: the payment and the *)
(* review.  Each request reads the booking, decides, and inserts one row in  *)
(* a statement of its own, while others of its kind and the transactions of *)
(* the booking requests go on.  Only the unique index on booking_id stands   *)
(* between two that decided on the same booking, and nothing between one    *)
(* and whatever happens to the booking after it was read.                   *)
(*                                                                          *)
(* The foreign key of such a row shares the booking with updates of other   *)
(* columns, so an insert and a booking request do not wait for each other.  *)
(***************************************************************************)
EXTENDS BookingTransactions

CONSTANT
    Recorders    \* slots for the requests that record something

VARIABLES
    payments,    \* how many rows of payments there are
    reviews,     \* the rows of reviews: the provider each is about
    recording    \* per slot, the table it is about to insert into, and whom the row names

settlement == <<payments, reviews, recording>>
settlementVars == <<db, writes, proc, payments, reviews, recording>>

NotRecording == [into |-> "none", who |-> None]

-----------------------------------------------------------------------------
(* The read of each handler, and what it makes of it.  A request that is    *)
(* refused here changes nothing and is left out.                            *)

WorkCompleted == booking.status = "COMPLETED"

Decides(c, table, who) ==
    /\ recording[c] = NotRecording
    /\ WorkCompleted
    /\ recording' = [recording EXCEPT ![c] = [into |-> table, who |-> who]]
    /\ UNCHANGED <<vars, payments, reviews>>

\* Anyone who may view the booking; what the row says of that is left out.
RecordPayment(c) == Decides(c, "payments", None)

\* The review is about the provider of the assignment found ACCEPTED.  (Mutant: of any
\* assignment of the booking.)
AnyAssignment == {x \in Assignments : db[x].status # "FREE"}
Accepted == {x \in Assignments : db[x].status = "ACCEPTED"}
CreateReview(c) == \E x \in Accepted : Decides(c, "reviews", db[x].provider)

-----------------------------------------------------------------------------
(* The insert. *)

\* The unique index on booking_id.
Taken(rows) == rows > 0

Leaves(c) == recording' = [recording EXCEPT ![c] = NotRecording] /\ UNCHANGED vars

InsertPayment(c) ==
    /\ recording[c].into = "payments"
    /\ ~Taken(payments)
    /\ payments' = payments + 1
    /\ Leaves(c) /\ UNCHANGED reviews

InsertReview(c) ==
    /\ recording[c].into = "reviews"
    /\ ~Taken(Len(reviews))
    /\ reviews' = Append(reviews, recording[c].who)
    /\ Leaves(c) /\ UNCHANGED payments

\* P2002, which both services turn into a 409.
AlreadyRecorded(c) ==
    /\ \/ recording[c].into = "payments" /\ Taken(payments)
       \/ recording[c].into = "reviews" /\ Taken(Len(reviews))
    /\ Leaves(c) /\ UNCHANGED <<payments, reviews>>

\* The process stops, or the connection is lost, before the insert.
RecordingLost(c) ==
    /\ recording[c] # NotRecording
    /\ Leaves(c) /\ UNCHANGED <<payments, reviews>>

-----------------------------------------------------------------------------
Settle(c) ==
    \/ RecordPayment(c)
    \/ CreateReview(c)
    \/ InsertPayment(c)
    \/ InsertReview(c)
    \/ AlreadyRecorded(c)
    \/ RecordingLost(c)

SettlementInit ==
    /\ Init
    /\ payments = 0
    /\ reviews = <<>>
    /\ recording = [c \in Recorders |-> NotRecording]

SettlementNext ==
    \/ Next /\ UNCHANGED settlement
    \/ \E c \in Recorders : Settle(c)

SettlementSpec == SettlementInit /\ [][SettlementNext]_settlementVars

-----------------------------------------------------------------------------
(* Properties. *)

SettlementTypeOK ==
    /\ payments \in Nat
    /\ reviews \in Seq(Providers)
    /\ DOMAIN recording = Recorders
    /\ \A c \in Recorders :
          \/ recording[c] = NotRecording
          \/ recording[c] = [into |-> "payments", who |-> None]
          \/ recording[c] \in [into : {"reviews"}, who : Providers]

\* Whoever has the job.
Workers == {db[x].provider : x \in {y \in Assignments : db[y].status = "ACCEPTED"}}

\* BR6, BR7: there is one payment and one review at most, they are about completed work,
\* and the review is about the provider who did it; although the booking was read
\* statements before the insert, others may have decided on it at the same time, and
\* booking requests, however old, commit in between and afterwards.
SettlesCompletedWork ==
    /\ payments <= 1 /\ Len(reviews) <= 1
    /\ payments > 0 \/ reviews # <<>> => WorkCompleted
    /\ \A i \in DOMAIN reviews : reviews[i] \in Workers
===============================================================================
