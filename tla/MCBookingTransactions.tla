------------------------ MODULE MCBookingTransactions ------------------------
EXTENDS BookingTransactions, TLC
\* Requests, providers and the rows of a table are interchangeable.
Sym == Permutations(Requests) \cup Permutations(Providers)
         \cup Permutations(Assignments) \cup Permutations(Schedules)
=============================================================================
