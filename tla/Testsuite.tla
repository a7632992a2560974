------------------------------ MODULE Testsuite ------------------------------
(***************************************************************************)
(* The test driver of the judge (dmoj/testsuite.py, commands/test.py): it  *)
(* stands in for the packet manager, has the judge grade submissions whose *)
(* results are known, and compares what the judge would have sent.         *)
(*                                                                         *)
(* begin_grading blocks, so one submission is graded at a time; what the   *)
(* judge sends for it is any story its grading thread can tell.  Feedback  *)
(* is compared in the same way as scores for all cases are: left out.      *)
(***************************************************************************)
EXTENDS Naturals, Sequences, FiniteSets

CONSTANTS
    Tests,         \* bound: how many tests there are
    Sources,       \* bound: how many submissions the tests have
    Positions,     \* how many cases the problem has
    Codes,         \* the codes of results, without IE and CE
    Expectations   \* what a test can expect

\* codes and scores are for all cases, caseCodes and caseScores for the cases
\* that a test lists; scores = Anything where a test does not say.
Anything == {0, 1}
ASSUME TestsuiteAssumption ==
    /\ Tests \in Nat /\ Sources \in Nat /\ Positions \in Nat
    /\ \A e \in Expectations :
         /\ e.codes \subseteq Codes \cup {"IE", "CE"}
         /\ DOMAIN e.caseCodes \subseteq 1 .. Positions
         /\ \A p \in DOMAIN e.caseCodes : e.caseCodes[p] \subseteq Codes
         /\ e.scores \subseteq Anything
         /\ DOMAIN e.caseScores \subseteq 1 .. Positions
         /\ \A p \in DOMAIN e.caseScores : e.caseScores[p] \subseteq Anything

VARIABLES
    test,       \* the test that runs, or is next
    stage,      \* "pick", "grading" or "done"
    expected,   \* what set_expected got
    left,       \* submissions of this test that are not graded yet
    hasFailed,  \* the manager's flag
    fails,      \* what the tester counted
    story,      \* the packets of this submission
    graded,     \* history: the submissions, with expectation, story and flag
    broken      \* history: tests that raised an exception

testVars == <<test, stage, expected, left, hasFailed, fails, story, graded, broken>>

Nobody == [codes |-> {}, caseCodes |-> <<>>, scores |-> Anything, caseScores |-> <<>>]

TestsuiteInit ==
    /\ test = 1 /\ stage = "pick" /\ expected = Nobody /\ left = 0
    /\ hasFailed = FALSE /\ fails = 0
    /\ story = <<>> /\ graded = <<>> /\ broken = 0

-------------------------------------------------------------------------------
(* Tester *)

\* The flag of the submission before stays.
SetExpectedOnly(e) == expected' = e /\ story' = <<>> /\ UNCHANGED hasFailed

SetExpected(e) == expected' = e /\ hasFailed' = FALSE /\ story' = <<>>

\* _run_test_case: no usable configuration, language or platform.
Skip ==
    /\ stage = "pick" /\ test <= Tests
    /\ test' = test + 1
    /\ UNCHANGED <<stage, expected, left, hasFailed, fails, story, graded, broken>>

\* The configuration cannot be read: the exception counts as one failure.
Broken ==
    /\ stage = "pick" /\ test <= Tests
    /\ fails' = fails + 1 /\ broken' = broken + 1
    /\ test' = test + 1
    /\ UNCHANGED <<stage, expected, left, hasFailed, story, graded>>

Begin ==
    /\ stage = "pick" /\ test <= Tests
    /\ stage' = "grading"
    /\ left' \in 1 .. Sources - Len(graded)
    /\ \E e \in Expectations : SetExpected(e)
    /\ UNCHANGED <<test, fails, graded, broken>>

\* begin_grading returns: the flag is counted, and the next submission of the
\* test begins under the same expectation.
Counted(flag, told) ==
    /\ fails' = fails + (IF flag THEN 1 ELSE 0)
    /\ graded' = Append(graded, [expected |-> expected, story |-> told, failed |-> flag])
    /\ left' = left - 1
    /\ IF left > 1
       THEN SetExpected(expected) /\ UNCHANGED <<test, stage>>
       ELSE /\ hasFailed' = flag /\ story' = <<>>
            /\ test' = test + 1 /\ stage' = "pick"
            /\ UNCHANGED expected
    /\ UNCHANGED broken

Finish ==
    /\ stage = "pick" /\ test > Tests
    /\ stage' = "done"
    /\ UNCHANGED <<test, expected, left, hasFailed, fails, story, graded, broken>>

-------------------------------------------------------------------------------
(* TestManager: what it makes of the judge's packets *)

UnexpectedCode(p, code) ==
    code \notin IF p \in DOMAIN expected.caseCodes THEN expected.caseCodes[p] ELSE expected.codes
UnexpectedScore(p, points) ==
    points \notin IF p \in DOMAIN expected.caseScores THEN expected.caseScores[p] ELSE expected.scores

\* The message for a listed case joins numbers as if they were strings.
Raises(p, points) == p \in DOMAIN expected.caseScores /\ UnexpectedScore(p, points)

Result(p, code, points) == [kind |-> "result", position |-> p, code |-> code, points |-> points]
Last(kind) == [kind |-> kind, position |-> 0, code |-> kind, points |-> 0]

\* internal_error_packet.
FlagIE == hasFailed \/ "IE" \notin expected.codes

\* test_case_status_packet, for the next case.  If it raises, the grading
\* thread gives up and reports an internal error.
TestCaseStatus ==
    /\ stage = "grading" /\ Len(story) < Positions
    /\ \E code \in Codes, points \in Anything :
         LET p == Len(story) + 1
             told == Append(story, Result(p, code, points))
         IN  IF Raises(p, points)
             THEN Counted(hasFailed \/ UnexpectedCode(p, code) \/ FlagIE, Append(told, Last("IE")))
             ELSE /\ hasFailed' = (hasFailed \/ UnexpectedCode(p, code) \/ UnexpectedScore(p, points))
                  /\ story' = told
                  /\ UNCHANGED <<test, stage, expected, left, fails, graded, broken>>

GradingEnd ==
    /\ stage = "grading" /\ Len(story) = Positions
    /\ Counted(hasFailed, Append(story, Last("end")))

CompileError ==
    /\ stage = "grading" /\ story = <<>>
    /\ Counted(hasFailed \/ "CE" \notin expected.codes, <<Last("CE")>>)

\* The worker or a handler failed.
InternalError ==
    /\ stage = "grading"
    /\ Counted(FlagIE, Append(story, Last("IE")))

TestsuiteNext ==
    \/ Skip \/ Broken \/ Begin \/ Finish
    \/ TestCaseStatus \/ GradingEnd \/ CompileError \/ InternalError

-------------------------------------------------------------------------------
(* Properties *)

\* Type correctness.
TestsuiteTypeOK ==
    /\ test \in 1 .. Tests + 1
    /\ stage \in {"pick", "grading", "done"}
    /\ expected \in Expectations \cup {Nobody}
    /\ left \in 0 .. Sources /\ hasFailed \in BOOLEAN
    /\ fails \in Nat /\ broken \in Nat /\ Len(story) <= Positions

\* What a test says of a story: every case that was reported got a code and a
\* score the test expects of it, and the end is one it expects.
AsExpected(e, told) ==
    \A j \in DOMAIN told :
        LET packet == told[j]
            p == packet.position
        IN  CASE packet.kind = "result" ->
                   /\ packet.code \in IF p \in DOMAIN e.caseCodes THEN e.caseCodes[p] ELSE e.codes
                   /\ packet.points \in IF p \in DOMAIN e.caseScores THEN e.caseScores[p] ELSE e.scores
              [] packet.kind = "end" -> TRUE
              [] OTHER -> packet.kind \in e.codes

\* A submission counts as failed exactly when its story is not the expected
\* one, whatever the submissions before it did.
FailedIffUnexpected ==
    \A j \in DOMAIN graded : graded[j].failed <=> ~AsExpected(graded[j].expected, graded[j].story)

\* The tester's exit code: the count is of the submissions that failed and the
\* tests that could not be run, and none is lost.
EveryFailureCounts ==
    fails = broken + Cardinality({j \in DOMAIN graded : graded[j].failed})

\* The tester's verdict is right for each submission and in all: its exit code
\* is not zero exactly when something went otherwise than the tests say.
TestsuiteSound == TestsuiteTypeOK /\ FailedIffUnexpected /\ EveryFailureCounts
===============================================================================
