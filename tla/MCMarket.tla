------------------------------ MODULE MCMarket ------------------------------
EXTENDS MarketOverlaps, TLC

Sym == Permutations(Applicants) \cup Permutations(Reviewers) \cup Permutations(Editors)
=============================================================================
