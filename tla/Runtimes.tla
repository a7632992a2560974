------------------------------ MODULE Runtimes ------------------------------
(***************************************************************************)
(* Where the judge's executors come from: dmoj-autoconf tries every        *)
(* executor on the machine and prints one runtime dictionary for all of    *)
(* them (dmoj/executors/autoconfig.py); a judge that starts later reads    *)
(* it, tries every executor again, and serves those that work              *)
(* (dmoj/judgeenv.py, dmoj/utils/load.py, BaseExecutor.initialize).        *)
(*                                                                         *)
(* An executor is tried in a sequence of ways: a candidate for its         *)
(* commands (the first found on the path, or each JVM in turn) and a mode  *)
(* (the target architecture of a C compiler, the kind of Java VM).  The    *)
(* first mode is what a dictionary without the mode's key means.  Two      *)
(* executors can ask for different programs under one key: GASARM and LLC  *)
(* on arm64 do, for the linker of the one is no linker for the other.      *)
(***************************************************************************)
EXTENDS Naturals, Sequences, FiniteSets

CONSTANTS
    Classes,   \* executors in the order they are tried: [name, needs, modeKey, modes, first, last]
    Machines,  \* [works : [name -> set of <<candidate, mode>>], files : set of <<key, candidate>>]
    Selections \* sets of executors that a judge's command line can leave enabled

Names == {Classes[i].name : i \in DOMAIN Classes}
Class(e) == CHOOSE c \in {Classes[i] : i \in DOMAIN Classes} : c.name = e
Candidates(e) == Class(e).first .. Class(e).last
Ways(e) == Candidates(e) \X {Class(e).modes[j] : j \in DOMAIN Class(e).modes}

ExecutorClasses ==
    [name : STRING, needs : (SUBSET STRING) \ {{}}, modeKey : STRING,
     modes : Seq(STRING) \ {<<>>}, first : Nat, last : Nat]

\* Executors have names of their own, and a key is for a command or for a mode.
ASSUME ClassesAssumption ==
    /\ Classes \in Seq(ExecutorClasses) \ {<<>>}
    /\ \A i, j \in DOMAIN Classes : Classes[i].name = Classes[j].name => i = j
    /\ \A i, j \in DOMAIN Classes : Classes[i].modeKey \notin Classes[j].needs
    /\ \A i \in DOMAIN Classes : Classes[i].first <= Classes[i].last
    /\ Selections \subseteq SUBSET Names
    /\ \A m \in Machines :
         /\ m = [works |-> m.works, files |-> m.files]
         /\ \A e \in Names : m.works[e] \subseteq Ways(e)
         /\ m.files \subseteq UNION {Class(e).needs \X Candidates(e) : e \in Names}

\* Executors that share a mode's key share its modes, of which there are two,
\* have one candidate, and work in the second mode if they work at all: a
\* compiler that can build for the machine's own processor can build for the
\* generic one.
ASSUME RuntimesAssumption ==
    \A e, f \in Names : e # f /\ Class(e).modeKey = Class(f).modeKey =>
        /\ Class(e).modes = Class(f).modes /\ Len(Class(e).modes) = 2
        /\ Class(e).first = Class(e).last
        /\ \A m \in Machines :
             m.works[e] # {} => <<Class(e).first, Class(e).modes[2]>> \in m.works[e]

\* Executors that share a key for a command take the first program they find.
ASSUME SharedCommands ==
    \A e, f \in Names : e # f /\ Class(e).needs \cap Class(f).needs # {} =>
        Class(e).first = Class(e).last

VARIABLES
    machine,    \* what is installed, and what works
    lost,       \* whether a file went since
    phase,      \* "autoconfig", "start", "load" or "serving"
    next,       \* the executor that is tried now
    candidate, mode,  \* and the way
    result,     \* the dictionary dmoj-autoconf prints
    reported,   \* the executors it called working
    runtime,    \* env.runtime of the judge, the runtime_dict of its executors
    own,        \* whether the judge's own configuration has a runtime section
    selected,   \* what --only-executors and --exclude-executors leave
    skipSelfTest,
    executors   \* those the judge serves

runtimeVars == <<machine, lost, phase, next, candidate, mode, result, reported, runtime, own,
                 selected, skipSelfTest, executors>>

Empty == [k \in {} |-> 0]

RuntimesInit ==
    /\ machine \in Machines /\ lost = FALSE
    /\ phase = "autoconfig" /\ next = 1 /\ candidate = Classes[1].first /\ mode = 1
    /\ result = Empty /\ reported = {}
    /\ runtime = Empty /\ own = FALSE /\ selected = {} /\ skipSelfTest = FALSE
    /\ executors = {}

-------------------------------------------------------------------------------
(* runtime_dict *)

\* get_command and its like name files that exist.
Installed(e, dict) ==
    \A k \in Class(e).needs : k \in DOMAIN dict /\ <<k, dict[k]>> \in machine.files

\* get_march_flag, get_vm_mode.
Mode(e, dict) == IF Class(e).modeKey \in DOMAIN dict THEN dict[Class(e).modeKey] ELSE Class(e).modes[1]

\* What run_self_test returns with this dictionary: its commands are those of
\* one candidate, which works in the mode.
Works(e, dict) ==
    /\ Installed(e, dict)
    /\ \E c \in Candidates(e) :
         (\A k \in Class(e).needs : dict[k] = c) /\ <<c, Mode(e, dict)>> \in machine.works[e]

-------------------------------------------------------------------------------
(* dmoj-autoconf *)

Trying == Classes[next]

\* The dictionary under which an executor is tried: its own entries only.
Attempt ==
    [k \in Trying.needs \cup {Trying.modeKey} |->
        IF k \in Trying.needs THEN candidate ELSE Trying.modes[mode]]

\* Everything it was tried with is printed.
ConfigInFull == Attempt

\* The default is left out of what is printed.
Config ==
    [k \in Trying.needs \cup (IF mode = 1 THEN {} ELSE {Trying.modeKey}) |-> Attempt[k]]

\* dict.update: entries of an earlier executor give way.
Updated(dict, entries) ==
    [k \in DOMAIN dict \cup DOMAIN entries |-> IF k \in DOMAIN entries THEN entries[k] ELSE dict[k]]

OutOfWays == mode = Len(Trying.modes) /\ candidate = Trying.last

NextWay ==
    IF mode < Len(Trying.modes)
    THEN mode' = mode + 1 /\ UNCHANGED candidate
    ELSE mode' = 1 /\ candidate' = candidate + 1

NextClass(p) ==
    /\ IF next = Len(Classes) THEN next' = 1 /\ phase' = p ELSE next' = next + 1 /\ UNCHANGED phase
    /\ candidate' = Classes[next'].first /\ mode' = 1

\* autoconfig, one self-test of it.
Autoconfig ==
    /\ phase = "autoconfig"
    /\ \/ /\ Works(Trying.name, Attempt)
          /\ result' = Updated(result, Config)
          /\ reported' = reported \cup {Trying.name}
          /\ NextClass("start")
       \/ /\ ~Works(Trying.name, Attempt) /\ ~OutOfWays
          /\ NextWay
          /\ UNCHANGED <<phase, next, result, reported>>
       \/ /\ ~Works(Trying.name, Attempt) /\ OutOfWays
          /\ NextClass("start")
          /\ UNCHANGED <<result, reported>>
    /\ UNCHANGED <<machine, lost, runtime, own, selected, skipSelfTest, executors>>

-------------------------------------------------------------------------------
(* The judge *)

\* load_env: the image's dictionary, then the judge's own configuration, whose
\* runtime section replaces all of it.
LoadEnv ==
    /\ phase = "start"
    /\ phase' = "load"
    /\ \/ runtime' = result /\ own' = FALSE
       \/ own' = TRUE
          /\ \E e \in Names : runtime' = [k \in Class(e).needs |-> Class(e).first]
    /\ selected' \in Selections
    /\ skipSelfTest' \in BOOLEAN
    /\ UNCHANGED <<machine, lost, next, candidate, mode, result, reported, executors>>

\* A file can go between the two programs.  Bound: one does.
Uninstall ==
    /\ phase = "start" /\ lost = FALSE /\ lost' = TRUE
    /\ \E f \in machine.files : machine' = [machine EXCEPT !.files = @ \ {f}]
    /\ UNCHANGED <<phase, next, candidate, mode, result, reported, runtime, own, selected,
                   skipSelfTest, executors>>

\* load_modules and initialize, for one executor that is enabled: it has its
\* files, and passes its self-test unless that is skipped.
Initialize ==
    /\ phase = "load"
    /\ LET e == Trying.name
           serves == e \in selected /\ Installed(e, runtime) /\ (skipSelfTest \/ Works(e, runtime))
       IN  executors' = IF serves THEN executors \cup {e} ELSE executors
    /\ NextClass("serving")
    /\ UNCHANGED <<machine, lost, result, reported, runtime, own, selected, skipSelfTest>>

RuntimesNext == Autoconfig \/ LoadEnv \/ Uninstall \/ Initialize

-------------------------------------------------------------------------------
(* Properties *)

\* Type correctness.
RuntimesTypeOK ==
    /\ machine.files \subseteq UNION {Class(e).needs \X Candidates(e) : e \in Names}
    /\ phase \in {"autoconfig", "start", "load", "serving"}
    /\ next \in DOMAIN Classes
    /\ candidate \in Trying.first .. Trying.last /\ mode \in DOMAIN Trying.modes
    /\ reported \subseteq Names /\ executors \subseteq selected /\ selected \in Selections \cup {{}}

\* An executor that was reported after e and found another program under a key
\* that both use: dict.update left only the later one in the dictionary.
Replaced(e) ==
    \E i, j \in DOMAIN Classes :
        /\ i < j /\ Classes[i].name = e /\ Classes[j].name \in reported
        /\ Classes[i].needs \cap Classes[j].needs # {} /\ Classes[i].first # Classes[j].first

\* What dmoj-autoconf called working works for a judge that has its
\* dictionary: an executor that is enabled and still installed is served, and
\* its submissions run as its self-test did, in spite of the entries the other
\* executors put into the same dictionary after its own, unless one of them
\* replaced its command by another program.
ConfiguredServes ==
    phase = "serving" /\ ~own =>
        \A e \in reported \cap selected :
            Installed(e, runtime) /\ ~Replaced(e) => e \in executors /\ Works(e, runtime)

\* Nothing the machine can run goes unreported: an executor that works in some
\* way with its own entries alone is found by the trials.
NothingMissed ==
    phase = "start" =>
        \A e \in Names :
            (\E w \in machine.works[e] : \A k \in Class(e).needs : <<k, w[1]>> \in machine.files)
            => e \in reported

\* Trials and self-tests agree: nothing that works is missed by dmoj-autoconf,
\* and nothing it reports is refused, or served in a way that fails.
RuntimesSound == RuntimesTypeOK /\ ConfiguredServes /\ NothingMissed
===============================================================================
