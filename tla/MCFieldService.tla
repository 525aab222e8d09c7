--------------------------- MODULE MCFieldService ---------------------------
EXTENDS FieldServiceOverlaps, TLC

Sym == Permutations(ProviderRequests) \cup Permutations(StaffRequests)
           \cup Permutations(Engineers) \cup Permutations(Tickets)
=============================================================================
