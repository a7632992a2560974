------------------------------ MODULE MCJudge ------------------------------
(***************************************************************************)
(* The sequential parts of the judge side by side, on small instances: the *)
(* rules of MCRules, the data of two cases, the runtimes of a machine, and *)
(* the test driver.  A behaviour is of one part, and the others rest in an *)
(* initial state of theirs.                                                *)
(***************************************************************************)
EXTENDS MCRules, CaseData, Runtimes, Testsuite

VARIABLE part

-------------------------------------------------------------------------------
(* Two cases, in a batch or not (a batch that says nothing), with files,   *)
(* generators and code in a directory or an archive that may lack a file.  *)

MCDataFiles == {"1.in", "2.in", "1.out"}
MCNodeEntries(n) ==
    CASE n = Problem -> [in : {"absent"}, out : {"absent"}, generator : {"absent", "gen", "dynamic"}]
      [] n = Batch -> [in : {"absent", "dynamic"}, out : {"absent", "dynamic"},
                       generator : {"absent", "null"}]
      [] n = 1 -> [in : {"absent", "null", "1.in"}, out : {"absent", "1.out"}, generator : {"absent"}]
      [] n = 2 -> [in : {"absent", "2.in"}, out : {"absent"}, generator : {"absent", "gen"}]
MCProblems ==
    {<<c, d, b, p>> :
        c \in MCNodeEntries(1), d \in MCNodeEntries(2), b \in MCNodeEntries(3), p \in MCNodeEntries(4)}
MCConfigs == MCProblems
MCStores ==
    {[directory |-> MCDataFiles, archive |-> {"1.in"}],
     [directory |-> {"1.out"}, archive |-> {"1.in", "1.out"}]}

SomeConfig == CHOOSE c \in MCConfigs : TRUE
SomeStore == CHOOSE s \in MCStores : TRUE

DataAtRest ==
    /\ written = SomeConfig
    /\ store = SomeStore
    /\ bridged = FALSE
    /\ CaseInit

-------------------------------------------------------------------------------
(* Two C executors that share a command, a C++ one that shares their       *)
(* architecture, and Java with two machines to choose from, on every       *)
(* machine where some of the ways work and a compiler may be missing; and, *)
(* on a machine for arm64, two that link with different programs.          *)

MCCompiler(name, command) ==
    [name |-> name, needs |-> {command}, modeKey |-> "gcc_target_arch",
     modes |-> <<"native", "generic">>, first |-> 1, last |-> 1]
MCAssembler(name, command, program) ==
    [name |-> name, needs |-> {command, "ld_arm"}, modeKey |-> name, modes |-> <<"">>,
     first |-> program, last |-> program]
MCExecutors ==
    <<MCCompiler("C", "gcc"), MCCompiler("CPP17", "g++17"),
      [name |-> "JAVA", needs |-> {"java", "javac"}, modeKey |-> "java_mode",
       modes |-> <<"client", "server">>, first |-> 1, last |-> 2],
      MCCompiler("OBJC", "gcc"),
      MCAssembler("GASARM", "as_arm", 1), MCAssembler("LLC", "llc", 2)>>
MCClasses == MCExecutors
MCWorks(e) ==
    IF e = "GASARM" THEN {{}, {<<1, "">>}} ELSE IF e = "LLC" THEN {{}, {<<2, "">>}}
    ELSE IF e = "JAVA" THEN {{}, {<<1, "client">>, <<2, "client">>}, {<<2, "server">>}, {<<1, "server">>}}
    ELSE {{}, {<<1, "generic">>}, {<<1, "native">>, <<1, "generic">>}}
MCMachine(c, p, j, o, g, l, files) ==
    [works |-> ("C" :> c) @@ ("CPP17" :> p) @@ ("JAVA" :> j) @@ ("OBJC" :> o)
               @@ ("GASARM" :> g) @@ ("LLC" :> l),
     files |-> files]
MCCompilers == {<<"gcc", 1>>, <<"g++17", 1>>, <<"java", 1>>, <<"java", 2>>, <<"javac", 2>>}
MCLinkers == {<<"as_arm", 1>>, <<"ld_arm", 1>>, <<"llc", 2>>, <<"ld_arm", 2>>}
MCInstalled ==
    {MCMachine(c, p, j, o, {}, {}, MCCompilers \cup f) :
        c \in MCWorks("C"), p \in MCWorks("CPP17"), j \in MCWorks("JAVA"), o \in MCWorks("OBJC"),
        f \in {{}, {<<"javac", 1>>}}}
    \cup {MCMachine({}, {}, {}, {}, g, l, MCLinkers) : g \in MCWorks("GASARM"), l \in MCWorks("LLC")}
MCMachines == MCInstalled
MCSelections == {{"C", "CPP17", "JAVA", "OBJC", "GASARM", "LLC"}, {"C", "JAVA"}, {"CPP17", "GASARM"}}

SomeMachine == CHOOSE m \in MCMachines : TRUE

RuntimesAtRest == machine = SomeMachine /\ RuntimesInit

-------------------------------------------------------------------------------
(* Problems of two cases, and tests that expect codes and scores of all of *)
(* them, of some, or of none.                                              *)

MCExpect(codes, caseCodes, scores, caseScores) ==
    [codes |-> codes, caseCodes |-> caseCodes, scores |-> scores, caseScores |-> caseScores]
MCListed == {<<>>, (2 :> {"WA"})}
MCExpected ==
    {MCExpect(codes, c, s, <<>>) :
        codes \in {{"AC"}, {"AC", "WA", "IE", "CE"}}, c \in MCListed, s \in {{1}, Anything}}
    \cup {MCExpect({"AC"}, c, Anything, 2 :> {0}) : c \in MCListed}
MCExpectations == MCExpected

-------------------------------------------------------------------------------

RulesAtRest == Init /\ GradeAtRest /\ CheckAtRest /\ Policy!Init /\ Binary!CacheInit

MCJudgeInit ==
    \/ part = "rules" /\ MCInit /\ DataAtRest /\ RuntimesAtRest /\ TestsuiteInit
    \/ part = "data" /\ RulesAtRest /\ CaseInit /\ RuntimesAtRest /\ TestsuiteInit
    \/ part = "runtimes" /\ RulesAtRest /\ DataAtRest /\ RuntimesInit /\ TestsuiteInit
    \/ part = "tests" /\ RulesAtRest /\ DataAtRest /\ RuntimesAtRest /\ TestsuiteInit

rulesVars == <<cases, gradeVars, checkVars, policyVars, executorVars>>

MCJudgeNext ==
    /\ UNCHANGED part
    /\ \/ part = "rules" /\ MCNext /\ UNCHANGED <<caseVars, runtimeVars, testVars>>
       \/ part = "data" /\ CaseNext /\ UNCHANGED <<rulesVars, runtimeVars, testVars>>
       \/ part = "runtimes" /\ RuntimesNext /\ UNCHANGED <<rulesVars, caseVars, testVars>>
       \/ part = "tests" /\ TestsuiteNext /\ UNCHANGED <<rulesVars, caseVars, runtimeVars>>

MCJudgeSpec == MCJudgeInit /\ [][MCJudgeNext]_<<part, rulesVars, caseVars, runtimeVars, testVars>>

-------------------------------------------------------------------------------
(* What holds of a part is looked at in that part's behaviours: at rest it *)
(* holds already, and is slow to evaluate.                                 *)

\* CaseData's promises, of the cases of a problem and the files they share.
CaseDataSound == part = "data" => DataSound

\* Runtimes' promises, of the configuration found and what it serves.
ConfigSound == part = "runtimes" => RuntimesSound

\* Testsuite's promises, of the driver's count and its exit status.
DriverSound == part = "tests" => TestsuiteSound
===============================================================================
