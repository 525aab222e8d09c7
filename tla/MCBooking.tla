------------------------------ MODULE MCBooking ------------------------------
EXTENDS Booking, TLC

\* Providers, rows and dates are interchangeable.
Sym == Permutations(Providers) \cup Permutations(Assignments)
         \cup Permutations(Schedules) \cup Permutations(Dates)
=============================================================================
