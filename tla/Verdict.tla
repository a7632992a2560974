------------------------------- MODULE Verdict -------------------------------
(***************************************************************************)
(* How a verdict is named and aggregated.                                  *)
(*                                                                         *)
(* A test case ends with a bitmask of flags (dmoj/result.py); the worker   *)
(* names a mask by its most severe flag (get_main_code), the Go bridge     *)
(* names it again with a table of its own (StatusName) and ORs the masks   *)
(* of all the cases of a submission into one (finalizeResult).             *)
(*                                                                         *)
(* A bitmask over named bits is the set of the bits that are on: 0 is the  *)
(* empty set and bitwise-or is union.                                      *)
(***************************************************************************)
EXTENDS Naturals, Sequences

Flags == {"WA", "RTE", "TLE", "MLE", "IR", "SC", "OLE", "IE"}

Statuses == Flags \cup {"AC"}

\* The order in which bridge.StatusName tests the bits.
BridgeOrder == <<"IE", "TLE", "MLE", "OLE", "RTE", "IR", "WA", "SC">>

\* Result.CODE_DISPLAY_ORDER of the judge.
JudgeOrder == <<"IE", "TLE", "MLE", "OLE", "RTE", "IR", "WA", "SC">>

\* The first flag of the order that is on in the mask f.
FirstOf(order, f) ==
    order[CHOOSE i \in DOMAIN order :
              /\ order[i] \in f
              /\ \A j \in DOMAIN order : order[j] \in f => i <= j]

\* A table that tests WA before the resource limits.
StatusNameWAFirst(f) ==
    IF f = {} THEN "AC"
    ELSE FirstOf(<<"IE", "WA", "TLE", "MLE", "OLE", "RTE", "IR", "SC">>, f)

\* bridge.StatusName
StatusName(f) == IF f = {} THEN "AC" ELSE FirstOf(BridgeOrder, f)

\* Result.get_main_code of the judge
MainCode(f) == IF f = {} THEN "AC" ELSE FirstOf(JudgeOrder, f)

\* worstStatus forgets the cases before the last one (= instead of |=).
WorstStatusLast(cases) == IF cases = <<>> THEN {} ELSE cases[Len(cases)].flags

\* worstStatus of finalizeResult: the bitwise or over the cases.
WorstStatus(cases) == UNION {cases[i].flags : i \in DOMAIN cases}
=============================================================================
