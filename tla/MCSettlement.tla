----------------------------- MODULE MCSettlement -----------------------------
EXTENDS Settlement, TLC
\* Requests of either kind, providers and the rows of a table are interchangeable.
Sym == Permutations(Requests) \cup Permutations(Recorders) \cup Permutations(Providers)
         \cup Permutations(Assignments) \cup Permutations(Schedules)
===============================================================================
