----------------------------- MODULE GradeCases -----------------------------
(***************************************************************************)
(* Which cases of a problem are graded, and in which order: the layout of  *)
(* a problem (dmoj/problem.py), and the worker that goes through it        *)
(* (_grade_cases), with batches, dependencies between them, pretests, and  *)
(* short-circuiting.                                                       *)
(***************************************************************************)
EXTENDS Integers, SequencesExt, FiniteSets

CONSTANTS
    Layouts,    \* problems whose cases are listed in init.yml
    Files       \* files of an archive: [kind, batch, case]

VARIABLES
    problem,    \* its entries: [tests, pretests]
    pretestsOnly, short,    \* of the submission
    pc,
    flat,       \* flattened_cases
    i,          \* the case under the loop; case_number is i - 1
    batch,      \* the group under the loop: a batch number, or 0
    isSC, enabled,  \* is_short_circuiting, is_short_circuiting_enabled
    passed,     \* passed_batches
    sent        \* the messages to the controller

vars == <<problem, pretestsOnly, short, pc, flat, i, batch, isSC, enabled,
          passed, sent>>

setting == <<problem, pretestsOnly, short, flat>>

\* An entry of test_cases: its points, and those of its cases when it is a
\* batch.  Inherited means that none are given.
Inherited == -1
Single(points) == [batched |-> FALSE, points |-> points, cases |-> <<points>>, deps |-> {}]
Batch(points, cases, deps) ==
    [batched |-> TRUE, points |-> points, cases |-> cases, deps |-> deps]

-------------------------------------------------------------------------------
(* _match_test_cases: a problem that lists no cases has those of its archive *)

Sorted(S) ==
    [k \in 1 .. Cardinality(S) |-> CHOOSE x \in S : Cardinality({y \in S : y < x}) = k - 1]

\* The group of a file: a case outside of batches is a group of its own.
GroupOf(f) == IF f.batch = 0 THEN f.case ELSE f.batch

Groups(files) == Sorted({GroupOf(f) : f \in files})

\* A number that some file names as a batch is one.
IsBatch(files, g) == \E f \in files : f.batch = g

CasesOf(files, g) ==
    LET group == {f \in files : GroupOf(f) = g} IN Sorted({f.case : f \in group})

Match(files) ==
    [k \in DOMAIN Groups(files) |->
        LET g == Groups(files)[k] IN
        IF IsBatch(files, g)
        THEN Batch(1, [c \in DOMAIN CasesOf(files, g) |-> Inherited], {})
        ELSE Single(1)]

-------------------------------------------------------------------------------
(* Problem.cases and flattened_cases *)

\* The batches among the first k entries.
BatchNumber(entries, k) == Cardinality({j \in 1 .. k : entries[j].batched})

\* BatchedTestCase: a batch_no counts the batches as they are resolved, the
\* tests first, and a batch depends on smaller ones.
Resolves(entries) ==
    \A k \in DOMAIN entries : \A d \in entries[k].deps : d \in 1 .. BatchNumber(entries, k) - 1

\* Failing a pretest ends the grading; the points of a batch are not those
\* its cases were made with.
AsPretest(e) == IF e.batched THEN Batch(0, e.cases, e.deps) ELSE Single(0)

CaseList(e) ==
    [c \in DOMAIN e.cases |-> IF e.cases[c] = Inherited THEN e.points ELSE e.cases[c]]

\* Cases get their points from their batch before that is made a pretest.
Settled(entries) == [k \in DOMAIN entries |-> [entries[k] EXCEPT !.cases = CaseList(entries[k])]]

Entries ==
    IF pretestsOnly /\ problem.pretests # <<>>
    THEN Settled(problem.pretests)
    ELSE [k \in DOMAIN problem.pretests |-> AsPretest(Settled(problem.pretests)[k])]
         \o Settled(problem.tests)

\* What problem.cases resolves, in its order.
Resolved ==
    IF pretestsOnly /\ problem.pretests # <<>>
    THEN problem.pretests
    ELSE problem.tests \o problem.pretests

\* The batch_no that the k-th entry was resolved with.
BatchNo(k) ==
    LET p == Len(problem.pretests)
        at == IF pretestsOnly /\ problem.pretests # <<>> THEN k
              ELSE IF k <= p THEN Len(problem.tests) + k ELSE k - p
    IN  BatchNumber(Resolved, at)

\* batch_dependencies: the worker counts the batches again, in the order in
\* which they are graded.
Deps(number) ==
    LET k == CHOOSE k \in DOMAIN Entries : Entries[k].batched /\ BatchNumber(Entries, k) = number
    IN  Entries[k].deps

\* The cases of the k-th of the entries, as groupby sees them.
FlatCases(entries, k) ==
    [c \in DOMAIN entries[k].cases |->
        [batch |-> IF entries[k].batched THEN BatchNumber(entries, k) ELSE 0,
         no |-> IF entries[k].batched THEN BatchNo(k) ELSE 0,
         points |-> entries[k].cases[c],
         pretest |-> ~pretestsOnly /\ k <= Len(problem.pretests)]]

Flattened == FlattenSeq([k \in DOMAIN Entries |-> FlatCases(Entries, k)])

Init ==
    /\ problem \in Layouts \cup {[tests |-> Match(files), pretests |-> <<>>] : files \in SUBSET Files}
    /\ pretestsOnly \in BOOLEAN /\ short \in BOOLEAN
    /\ pc = "resolve"
    /\ flat = <<>>
    /\ i = 1
    /\ batch = 0
    /\ isSC = FALSE /\ enabled = short
    /\ passed = {}
    /\ sent = <<>>

-------------------------------------------------------------------------------
(* _grade_cases *)

Send(kind) == sent' = Append(sent, [kind |-> kind, batch |-> batch])

\* A problem without cases is refused at once, and one whose batches cannot be
\* resolved when grading has begun; the submission may not compile.
Resolve ==
    /\ pc = "resolve"
    /\ \/ problem.tests = <<>> /\ pc' = "raised" /\ UNCHANGED <<flat, sent>>
       \/ /\ problem.tests # <<>>
          /\ \/ pc' = "end" /\ Send("COMPILE_ERROR") /\ UNCHANGED flat
             \/ /\ Send("GRADING_BEGIN")
                /\ IF Resolves(Resolved)
                   THEN pc' = "group" /\ flat' = Flattened
                   ELSE pc' = "raised" /\ UNCHANGED flat
    /\ UNCHANGED <<problem, pretestsOnly, short, i, batch, isSC, enabled, passed>>

\* groupby gives the next group.
BeginGroup ==
    /\ pc = "group"
    /\ i <= Len(flat)
    /\ LET b == flat[i].batch IN
         /\ batch' = b
         /\ isSC' = (isSC \/ (b # 0 /\ ~(Deps(b) \subseteq passed)))
         /\ sent' = IF b = 0 THEN sent ELSE Append(sent, [kind |-> "BATCH_BEGIN", batch |-> b])
    /\ pc' = "case"
    /\ UNCHANGED <<setting, i, enabled, passed>>

InGroup == i <= Len(flat) /\ flat[i].batch = batch

Report(status) ==
    /\ sent' = Append(sent, [kind |-> "RESULT", batch |-> batch, number |-> i, status |-> status])
    /\ i' = i + 1
    /\ UNCHANGED pc

Skip ==
    /\ pc = "case" /\ InGroup
    /\ isSC
    /\ Report("SC")
    /\ UNCHANGED <<setting, batch, isSC, enabled, passed>>

\* Without the rest of the batch.
GradeOnly ==
    /\ pc = "case" /\ InGroup
    /\ ~isSC
    /\ \/ Report("passed") /\ UNCHANGED <<isSC, enabled>>
       \/ /\ Report("failed")
          /\ enabled' = (enabled \/ flat[i].points = 0)
          /\ isSC' = enabled'
    /\ UNCHANGED <<setting, batch, passed>>

\* A case passes when the process did and the checker, which is asked after a
\* clean run or when it has run_on_error, is content; every other case has the
\* flag WA, among others.
Grade ==
    /\ pc = "case" /\ InGroup
    /\ ~isSC
    /\ \/ Report("passed") /\ UNCHANGED <<isSC, enabled>>
       \/ /\ Report("failed")
          /\ enabled' = (enabled \/ flat[i].points = 0)
          /\ isSC' = (batch # 0 \/ enabled')
    /\ UNCHANGED <<setting, batch, passed>>

\* The grader raises, or the submission was aborted under it.
GiveUp ==
    /\ pc = "case" /\ InGroup
    /\ ~isSC
    /\ \/ pc' = "raised" /\ UNCHANGED sent
       \/ pc' = "end" /\ Send("GRADING_ABORTED")
    /\ UNCHANGED <<setting, i, batch, isSC, enabled, passed>>

\* Short-circuiting is for the rest of the submission.
EndGroupForGood ==
    /\ pc = "case" /\ ~InGroup
    /\ IF batch = 0
       THEN UNCHANGED <<isSC, passed, sent>>
       ELSE /\ passed' = IF isSC THEN passed ELSE passed \cup {batch}
            /\ Send("BATCH_END")
            /\ UNCHANGED isSC
    /\ pc' = "group"
    /\ UNCHANGED <<setting, i, batch, enabled>>

\* Whatever became of it, the batch is done.
EndGroupPassed ==
    /\ pc = "case" /\ ~InGroup
    /\ IF batch = 0
       THEN UNCHANGED <<isSC, passed, sent>>
       ELSE /\ passed' = passed \cup {batch}
            /\ Send("BATCH_END")
            /\ isSC' = (isSC /\ enabled)
    /\ pc' = "group"
    /\ UNCHANGED <<setting, i, batch, enabled>>

EndGroup ==
    /\ pc = "case" /\ ~InGroup
    /\ IF batch = 0
       THEN UNCHANGED <<isSC, passed, sent>>
       ELSE /\ passed' = IF isSC THEN passed ELSE passed \cup {batch}
            /\ Send("BATCH_END")
            /\ isSC' = (isSC /\ enabled)
    /\ pc' = "group"
    /\ UNCHANGED <<setting, i, batch, enabled>>

End ==
    /\ pc = "group"
    /\ i > Len(flat)
    /\ pc' = "end"
    /\ sent' = Append(sent, [kind |-> "GRADING_END", batch |-> 0])
    /\ UNCHANGED <<setting, i, batch, isSC, enabled, passed>>

Next == Resolve \/ BeginGroup \/ Skip \/ Grade \/ GiveUp \/ EndGroup \/ End

Spec == Init /\ [][Next]_vars

-------------------------------------------------------------------------------
(* Properties *)

Results == {m \in {sent[k] : k \in DOMAIN sent} : m.kind = "RESULT"}
StatusOf(n) == (CHOOSE m \in Results : m.number = n).status
Failed(n) == \E m \in Results : m.number = n /\ m.status = "failed"

\* The worker's numbers are those init.yml was validated with: no batch among
\* pretests that are graded along with batches of tests.
NumbersAgree == \A n \in DOMAIN flat : flat[n].no = flat[n].batch

\* Every case of every batch that init.yml names as a dependency, by its
\* batch_no, was graded and passed before a case of the batch is graded.
DependenciesNamed ==
    \A m \in Results : m.batch # 0 /\ m.status # "SC" =>
        \A d \in Deps(m.batch) :
            /\ \E n \in DOMAIN flat : flat[n].no = d
            /\ \A n \in DOMAIN flat : flat[n].no = d =>
                 n < m.number /\ \E x \in Results : x.number = n /\ x.status = "passed"

\* It is so wherever the two countings agree; where they do not, it is not.
DependenciesFirst == NumbersAgree => DependenciesNamed

\* After a failure nothing of its batch is graded, nor anything at all when the
\* submission asked for that or the case was worth nothing.
FailureStops ==
    \A m, x \in Results :
        m.number < x.number /\ m.status = "failed" /\ x.status # "SC" =>
            ~short /\ flat[m.number].points # 0 /\ (m.batch = 0 \/ m.batch # x.batch)

\* Why the case n may be skipped without regard to what follows n.
Cause(n) ==
    \/ Failed(n)
    \/ flat[n].batch # 0 /\ \E d \in Deps(flat[n].batch) :
           \A k \in 1 .. n - 1 : flat[k].no = d =>
               \E j \in 1 .. n - 1 : flat[j].no = d /\ StatusOf(j) # "passed"

\* Where the countings agree, no case is skipped unless one before it failed,
\* or a batch does not have its dependencies; and only in that batch, unless
\* that is to end it all.
NoNeedlessSkip == NumbersAgree =>
    \A m \in Results : m.status = "SC" =>
        \E n \in 1 .. m.number :
            /\ Cause(n)
            /\ \/ flat[n].batch # 0 /\ flat[n].batch = m.batch
               \/ short
               \/ \E k \in 1 .. m.number : Failed(k) /\ flat[k].points = 0

\* Failing a pretest short-circuits everything after it: "Hack: force
\* short-circuiting behavior" (problem.py:251).
PretestFailureStops ==
    \A n \in DOMAIN flat : Failed(n) /\ flat[n].pretest =>
        \A m \in Results : m.number > n => m.status = "SC"
===============================================================================
