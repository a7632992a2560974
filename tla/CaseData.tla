------------------------------ MODULE CaseData ------------------------------
(***************************************************************************)
(* The data of a problem's cases while one worker grades them              *)
(* (dmoj/problem.py, TestCase; dmoj/config.py, ConfigNode; the order of    *)
(* the calls is that of dmoj/graders/standard.py and bridged.py).          *)
(*                                                                         *)
(* Every lookup in init.yml climbs from the case to its batch and to the   *)
(* problem.  An entry `key+` or `key++` is code: the first lookup that     *)
(* meets it runs it and stores the result where the code stood.  A case    *)
(* outside of a batch is one whose batch says nothing.                     *)
(***************************************************************************)
EXTENDS Naturals, Sequences

CONSTANTS
    Cases,      \* how many cases are graded, in this order
    DataFiles,  \* names in the problem's directory or archive
    Configs,    \* what init.yml may say: [Nodes -> [DataKeys -> Entries]]
    Stores      \* where the files are: [directory, archive : SUBSET DataFiles]

Batch == Cases + 1
Problem == Cases + 2
Nodes == 1 .. Problem
DataKeys == {"in", "out", "generator"}

\* null stands for everything Python takes for false.
Values == DataFiles \cup {"null", "gen"}
Entries == Values \cup {"absent", "dynamic"}

ASSUME CaseDataAssumption ==
    /\ Cases \in Nat \ {0}
    /\ DataFiles \cap {"null", "gen", "absent", "dynamic"} = {}
    /\ Configs \subseteq [Nodes -> [DataKeys -> Entries]]
    /\ Stores \subseteq [directory : SUBSET DataFiles, archive : SUBSET DataFiles]

VARIABLES
    written,    \* history: init.yml as it was loaded
    raw,        \* raw_config of the nodes
    store,
    bridged,    \* whether the grader is the bridged one
    case, at,   \* the case being graded, and where its grader is
    io,         \* _input_data_io: an index into opened, or None
    generated,  \* _generated: an index into runs, or None
    opened,     \* the MemoryIO objects that were made
    runs,       \* the runs of generators
    answer,     \* what output_data returned
    used        \* history: what each finished case was graded with

caseVars == <<written, raw, store, bridged, case, at, io, generated, opened, runs, answer, used>>

None == 0

CaseInit ==
    /\ written \in Configs /\ raw = written
    /\ store \in Stores
    /\ bridged \in BOOLEAN
    /\ case = 1 /\ at = "input"
    /\ io = None /\ generated = None
    /\ opened = <<>> /\ runs = <<>>
    /\ answer = <<"none">>
    /\ used = <<>>

-------------------------------------------------------------------------------
(* Lookups *)

\* The node whose entry a lookup from case c ends at.
Owner(config, c, k) ==
    LET told == {n \in {c, Batch, Problem} : config[n][k] # "absent"}
    IN  IF told = {} THEN Problem ELSE CHOOSE n \in told : \A m \in told : n <= m

Entry(k) == raw[Owner(raw, case, k)][k]
Given(k) == Entry(k) \notin {"absent", "null"}

\* Whether the input comes from the generator.
Generates == Given("generator") /\ ~(Given("out") /\ Given("in"))

\* Keys that input_data_io or output_data looks up, in that order.
Lookups ==
    CASE at = "input" ->
            IF Given("generator") THEN <<"generator", "out", "in">> ELSE <<"generator", "in">>
      [] at = "answer" ->
            IF Given("out") THEN <<"out">>
            ELSE IF generated = None /\ Given("generator") THEN <<"out", "generator", "in">>
            ELSE <<"out", "generator">>
      [] OTHER -> <<>>

Dynamic == {j \in DOMAIN Lookups : Entry(Lookups[j]) = "dynamic"}

\* The result stored in the case that asked.
EvaluateHere ==
    /\ Dynamic # {}
    /\ LET k == Lookups[CHOOSE j \in Dynamic : \A i \in Dynamic : j <= i]
       IN  \/ \E v \in Values : raw' = [raw EXCEPT ![case][k] = v]
              /\ UNCHANGED at
           \/ at' = "dead" /\ UNCHANGED raw
    /\ UNCHANGED <<written, store, bridged, case, io, generated, opened, runs, answer, used>>

\* run_dynamic_key: the code is replaced by what it returns; if it raises, the
\* worker ends with InvalidInitException.
Evaluate ==
    /\ Dynamic # {}
    /\ LET k == Lookups[CHOOSE j \in Dynamic : \A i \in Dynamic : j <= i]
       IN  \/ \E v \in Values : raw' = [raw EXCEPT ![Owner(raw, case, k)][k] = v]
              /\ UNCHANGED at
           \/ at' = "dead" /\ UNCHANGED raw
    /\ UNCHANGED <<written, store, bridged, case, io, generated, opened, runs, answer, used>>

Settled == Dynamic = {}

-------------------------------------------------------------------------------
(* Files and generators *)

\* ProblemDataManager.open: the directory first, then the archive.
Stored(f) == f \in store.directory \cup store.archive
Content(f) == <<IF f \in store.directory THEN "directory" ELSE "archive", f>>

\* A file in memory, sealed: whoever gets it can only read it.
MemoryIO(content) == [case |-> case, content |-> content, sealed |-> TRUE, open |-> TRUE]

Input == IF Given("in") /\ Stored(Entry("in")) THEN Content(Entry("in")) ELSE <<"none">>

\* Who finds _generated to be None runs the generator first.
Wanted ==
    CASE at = "input" -> Generates
      [] at = "answer" -> Given("generator") /\ ~Given("out")
      [] OTHER -> FALSE

\* compile_with_auxiliary_files: no executor, a file that is not there, or an
\* error of the compiler.
NotCompiled == at' = "dead" /\ UNCHANGED <<generated, opened, runs>>

\* parse_helper_file_error.
Exited(ok) == at' = IF ok THEN at ELSE "dead"

\* _run_generator: compiled and run with the input file, if there is one, as
\* its input.  What it wrote is kept before its exit is looked at.
RunGenerator ==
    /\ Settled /\ Wanted /\ generated = None
    /\ \/ NotCompiled
       \/ \E ok \in BOOLEAN :
            /\ opened' = Append(opened, MemoryIO(<<"run", Len(runs) + 1>>))
            /\ runs' = Append(runs, [case |-> case, at |-> at, stdin |-> Input, ok |-> ok,
                                     file |-> Len(opened')])
            /\ generated' = Len(runs')
            /\ Exited(ok)
    /\ UNCHANGED <<written, raw, store, bridged, case, io, answer, used>>

\* input_data_io, the first time: _make_input_data_io.
MakeInput ==
    /\ at = "input" /\ Settled
    /\ Wanted => generated # None
    /\ IF ~Generates /\ Given("in") /\ ~Stored(Entry("in"))
       THEN at' = "dead" /\ UNCHANGED <<io, opened>>
       ELSE /\ at' = IF bridged THEN "answer" ELSE "process"
            /\ IF Generates
               THEN io' = runs[generated].file /\ UNCHANGED opened
               ELSE /\ opened' = Append(opened, MemoryIO(
                           IF Given("in") THEN Content(Entry("in")) ELSE <<"empty">>))
                    /\ io' = Len(opened')
    /\ UNCHANGED <<written, raw, store, bridged, case, generated, runs, answer, used>>

\* output_data.
OutputData ==
    /\ at = "answer" /\ Settled
    /\ Wanted => generated # None
    /\ IF Given("out") /\ ~Stored(Entry("out"))
       THEN at' = "dead" /\ UNCHANGED answer
       ELSE /\ at' = "judge"
            /\ answer' = CASE Given("out") -> Content(Entry("out"))
                           [] ~Given("out") /\ Given("generator") -> <<"run", generated>>
                           [] OTHER -> <<"empty">>
    /\ UNCHANGED <<written, raw, store, bridged, case, io, generated, opened, runs, used>>

-------------------------------------------------------------------------------
(* The graders *)

\* StandardGrader: the submission runs on the input; the checker wants the
\* answer unless the result is flagged.
Process ==
    /\ at = "process"
    /\ at' \in {"answer", "free"}
    /\ UNCHANGED <<written, raw, store, bridged, case, io, generated, opened, runs, answer, used>>

\* The checker or the interactor has the answer and can read the input.
Judge ==
    /\ at = "judge"
    /\ at' = "free"
    /\ UNCHANGED <<written, raw, store, bridged, case, io, generated, opened, runs, answer, used>>

NextCase ==
    /\ case' = case + 1
    /\ at' = IF case = Cases THEN "done" ELSE "input"

\* The file of _input_data_io, wherever it is from.
Closed == [opened EXCEPT ![io].open = FALSE]

\* free_data, and the next case.
FreeData ==
    /\ at = "free"
    /\ opened' = Closed
    /\ used' = Append(used, [io |-> io, answer |-> answer])
    /\ NextCase
    /\ io' = None /\ generated' = None /\ answer' = <<"none">>
    /\ UNCHANGED <<written, raw, store, bridged, runs>>

CaseNext ==
    Evaluate \/ RunGenerator \/ MakeInput \/ OutputData \/ Process \/ Judge \/ FreeData

-------------------------------------------------------------------------------
(* Properties *)

\* Type correctness.
CaseTypeOK ==
    /\ written \in Configs
    /\ raw \in [Nodes -> [DataKeys -> Entries]]
    /\ store \in Stores
    /\ bridged \in BOOLEAN
    /\ case \in 1 .. Cases + 1
    /\ at \in {"input", "process", "answer", "judge", "free", "done", "dead"}
    /\ io \in 0 .. Len(opened) /\ generated \in 0 .. Len(runs)

\* What init.yml, as it was written, says of key k to case c; for code, what it
\* returned where it stands.
Meaning(c, k) ==
    LET n == Owner(written, c, k)
    IN  IF written[n][k] = "dynamic" THEN raw[n][k] ELSE written[n][k]
Says(c, k) == Meaning(c, k) \notin {"absent", "null"}

\* What a case is to be graded with; n is the run of its generator.
TrueInput(c, n) ==
    CASE Says(c, "generator") /\ ~(Says(c, "in") /\ Says(c, "out")) -> <<"run", n>>
      [] Says(c, "in") /\ (Says(c, "out") \/ ~Says(c, "generator")) -> Content(Meaning(c, "in"))
      [] OTHER -> <<"empty">>
TrueAnswer(c, n) ==
    CASE Says(c, "out") -> Content(Meaning(c, "out"))
      [] ~Says(c, "out") /\ Says(c, "generator") -> <<"run", n>>
      [] OTHER -> <<"empty">>

RunOf(c) == {n \in DOMAIN runs : runs[n].case = c /\ runs[n].ok}

\* The submission, the checker and the interactor get the case's own data: the
\* file they read is open and sealed, and holds what init.yml says of this
\* case; where a generator makes both, input and answer are of the same run,
\* one that did not fail.
OwnData ==
    at \in {"process", "judge"} =>
        /\ io # None /\ opened[io].open /\ opened[io].sealed
        /\ \E n \in RunOf(case) \cup {None} :
             /\ opened[io].content = TrueInput(case, n)
             /\ opened[io].content[1] # "empty" => opened[io].content # <<"run", None>>
             /\ at = "judge" => answer = TrueAnswer(case, n)

\* A case's generator runs at most once, before the submission does, and with
\* the case's input file, if it has one, as its input.
GeneratedOnce ==
    \A n \in DOMAIN runs :
        /\ runs[n].at = "input"
        /\ \A m \in DOMAIN runs : runs[m].case = runs[n].case => m = n
        /\ runs[n].stdin =
             IF Says(runs[n].case, "in") /\ Stored(Meaning(runs[n].case, "in"))
             THEN Content(Meaning(runs[n].case, "in")) ELSE <<"none">>

\* Cases that inherit the same `out` entry, code or not, are checked against
\* the same answer.
SharedAnswers ==
    \A c, d \in DOMAIN used :
        /\ Owner(written, c, "out") = Owner(written, d, "out")
        /\ used[c].answer[1] \in {"directory", "archive"}
        /\ used[d].answer # <<"none">>
        => used[c].answer = used[d].answer

\* No case leaves a file open for the rest of the submission.
NothingLeftOpen ==
    at # "dead" => \A f \in DOMAIN opened : opened[f].case < case => ~opened[f].open

\* Whatever is looked up, generated and freed in whatever order, each case is
\* graded with data of its own, and leaves none behind (problem.py, config.py).
DataSound == CaseTypeOK /\ OwnData /\ GeneratedOnce /\ SharedAnswers /\ NothingLeftOpen
===============================================================================
