----------------------------- MODULE MCSessions -----------------------------
EXTENDS BrowserSession, TLC

\* Only for the runs without liveness.
Sym == Permutations(Requests) \cup Permutations(Tokens)
=============================================================================
