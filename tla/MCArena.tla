------------------------------- MODULE MCArena -------------------------------
(***************************************************************************)
(* Small instances of Arena for TLC: two submissions with different        *)
(* verdicts, and a number of faults of each kind.                          *)
(***************************************************************************)
EXTENDS Arena, TLC

CONSTANTS k1, k2

MCPassed == [flags |-> {}]
MCWrong == [flags |-> {"WA"}]
MCSlow == [flags |-> {"WA", "TLE"}]

MCCases == {MCPassed, MCWrong, MCSlow}

\* Two gradings that find different cases.
MCPlan == (k1 :> [cases |-> <<MCPassed, MCWrong>>, end |-> "grading-end"])
       @@ (k2 :> [cases |-> <<MCSlow>>, end |-> "grading-end"])

\* The second source does not compile.
MCCompileError == (k1 :> [cases |-> <<MCSlow, MCWrong>>, end |-> "grading-end"])
               @@ (k2 :> [cases |-> <<>>, end |-> "compile-error"])

\* The first worker fails after one case.
MCInternalError == (k1 :> [cases |-> <<MCWrong>>, end |-> "internal-error"])
                @@ (k2 :> [cases |-> <<MCSlow>>, end |-> "grading-end"])

MCFaults(i, b, c, r) ==
    [idle |-> i, break |-> b, crash |-> c, restart |-> r, any |-> 1]

MCCrash == MCFaults(0, 0, 1, 0)
MCRestart == MCFaults(0, 0, 0, 1)
MCAnyButCrash == MCFaults(1, 1, 0, 1)
===============================================================================
