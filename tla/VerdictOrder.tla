---------------------------- MODULE VerdictOrder ----------------------------
(***************************************************************************)
(* The cases of one submission as the bridge accumulates them, and what    *)
(* the verdict of the submission says of them.                             *)
(***************************************************************************)
EXTENDS Verdict

CONSTANT MaxCases  \* bound: cases of a submission

ASSUME VerdictOrderAssumption == MaxCases \in Nat

VARIABLE cases

Case == [flags : SUBSET Flags]

Init == cases = <<>>

\* accumulateCase, one handler alone: a case with any flags is appended.
Accumulate(x) ==
    /\ Len(cases) < MaxCases
    /\ cases' = Append(cases, x)

Next == \E x \in Case : Accumulate(x)

Spec == Init /\ [][Next]_cases

\* What finalizeResult answers if grading ended now.
Verdict == StatusName(WorstStatus(cases))

-------------------------------------------------------------------------------
(* Properties *)

\* The backend's table and the judge's name every mask alike: the verdict of
\* a case in the judge's log is the one the user sees.
NamesAgree == \A i \in DOMAIN cases : StatusName(cases[i].flags) = MainCode(cases[i].flags)

\* A submission is accepted exactly when every case of it passed.
AcceptedIffClean == Verdict = "AC" <=> \A i \in DOMAIN cases : cases[i].flags = {}

\* The verdict is not made up of two cases: when it is not AC some single
\* case has it as the judge's name of its own mask.
VerdictOfSomeCase ==
    Verdict # "AC" => \E i \in DOMAIN cases : MainCode(cases[i].flags) = Verdict

\* A verdict says of the cases what the judge's log says of them one by one, and
\* no more: nobody is accepted with a failure, nor rejected for one no case had.
VerdictFaithful == NamesAgree /\ AcceptedIffClean /\ VerdictOfSomeCase

\* The place of a flag in the judge's order, the most severe one first.
Place(s) == CHOOSE i \in DOMAIN JudgeOrder : JudgeOrder[i] = s

\* Another case never makes a verdict milder.
NeverMilder ==
    [][Verdict # "AC" => Verdict' # "AC" /\ Place(Verdict') <= Place(Verdict)]_cases
===============================================================================
