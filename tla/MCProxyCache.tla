---------------------------- MODULE MCProxyCache ----------------------------
(* Model-checking instance of ProxyCache: an object of one unit and one of *)
(* two in a cache of a few units.                                          *)
EXTENDS ProxyCache, TLC

CONSTANTS small, big

MCObjects == {small, big}
MCSizeOf == small :> 1 @@ big :> 2

\* Low enough for an entry that one promotion does not bring above zero.
MCPatienceMin == -3

MCSymmetry ==
  Permutations(Threads) \cup Permutations(Uris) \cup Permutations(Nodes)
=============================================================================
