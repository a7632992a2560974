------------------------------- MODULE MCBridge -------------------------------
(***************************************************************************)
(* Small instances of Bridge for TLC.                                      *)
(***************************************************************************)
EXTENDS Bridge, TLC, FiniteSets

\* A case that passed, a wrong answer, and a timeout on a wrong answer.
MCPassed == [flags |-> {}]
MCWrong == [flags |-> {"WA"}]
MCSlow == [flags |-> {"WA", "TLE"}]

MCCases == {MCPassed, MCWrong, MCSlow}

MCOneCase == {<<MCPassed>>}

\* Bound: a session stalls, and cases arrive, while it is the only one and
\* at most one call was made; the liveness run has both with two sessions.
MCBound ==
    \/ \A c \in Conns : ~full[c] /\ pc[c] # "appending"
       /\ \A i \in Ids : caseResults[i] = NoBox
    \/ /\ Cardinality({k \in Calls : call[k] # "new"}) <= 1
       /\ Cardinality({c \in Conns : pc[c] # "idle"}) <= 1

MCSymmetry == Permutations(Calls) \cup Permutations(Conns)
===============================================================================
