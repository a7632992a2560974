------------------------------ MODULE MCRules ------------------------------
(***************************************************************************)
(* The judge's rules on small instances: the verdict of a submission's     *)
(* cases, which cases are graded, how outputs are compared, what a         *)
(* sandboxed process may open, and which files an executor keeps.  They    *)
(* share no state, so a behaviour is of one of them, with the others at    *)
(* rest.  Cache keys are only compared, so that permuting them is sound.   *)
(***************************************************************************)
EXTENDS VerdictOrder, Integers, FiniteSets, TLC

CONSTANTS Layouts, Files,
          Letters, JudgeLength, ProcessLength, Value,
          Tree, Named, Asked, MaxRules, Keys, Executors, CacheSize

\* What init.yml can say of an entry; an archive has finitely many files.
EntryTypes == [batched : BOOLEAN, points : Int, cases : Seq(Int), deps : SUBSET Int]

ASSUME LayoutAssumption ==
    /\ Layouts \subseteq [tests : Seq(EntryTypes), pretests : Seq(EntryTypes)]
    /\ IsFiniteSet(Files)
    /\ \A f \in Files : f.batch \in Nat /\ f.case \in Nat

\* What a case is worth, when a checker counts in points.
ASSUME ValueAssumption == Value \in Nat

\* A path without ".." in it.
Plainly == Seq(STRING \ {".."})

\* The files of a machine: a file is in a directory, and links have been
\* followed to where they lead; rules name normalized paths.
ASSUME TreeAssumption ==
    /\ Tree \in [DOMAIN Tree -> [kind : {"dir", "file", "link"}, target : Plainly]]
    /\ DOMAIN Tree \subseteq Plainly
    /\ <<>> \in DOMAIN Tree /\ Tree[<<>>].kind = "dir"
    /\ \A p \in DOMAIN Tree : \A k \in 0 .. Len(p) - 1 :
         SubSeq(p, 1, k) \in DOMAIN Tree /\ Tree[SubSeq(p, 1, k)].kind = "dir"
    /\ \A p \in DOMAIN Tree : Tree[p].kind = "link" =>
         \A k \in 0 .. Len(Tree[p].target) :
            LET q == SubSeq(Tree[p].target, 1, k) IN q \in DOMAIN Tree => Tree[q].kind # "link"
    /\ Named \subseteq Plainly /\ Asked \subseteq Seq(STRING)

\* pylru has no cache of size 0.
ASSUME CacheAssumption == CacheSize \in Nat \ {0}

VARIABLES problem, pretestsOnly, short, pc, flat, i, batch, isSC, enabled, passed, sent
gradeVars == <<problem, pretestsOnly, short, pc, flat, i, batch, isSC, enabled, passed, sent>>

VARIABLES judge, process, helper, floats
checkVars == <<judge, process, helper, floats>>

VARIABLES given, node, asserted
policyVars == <<given, node, asserted>>

VARIABLES made, key, dir, isCached, held, cache, disk, binaries, removed, failed, over
executorVars == <<made, key, dir, isCached, held, cache, disk, binaries, removed, failed, over>>

-------------------------------------------------------------------------------
(* Constants of the instances.  TLC evaluates a definition without          *)
(* parameters once, but the body of what replaces a constant at each use.  *)

\* Entries of init.yml: cases worth a point or none, batches of up to two
\* cases that may depend on the first batch.
Inherited == -1
MCEntry(batched, points, inner, deps) ==
    [batched |-> batched, points |-> points, cases |-> inner, deps |-> deps]
MCEntries ==
    {MCEntry(FALSE, p, <<p>>, {}) : p \in {0, 1}} \cup
    {MCEntry(TRUE, 2, c, d) : c \in {<<>>, <<Inherited>>, <<Inherited, 0>>}, d \in {{}, {1}}}
MCPretests ==
    {<<>>, <<MCEntry(FALSE, 1, <<1>>, {})>>, <<MCEntry(TRUE, 2, <<Inherited>>, {})>>}
MCLayouts ==
    [tests : UNION {[1 .. n -> MCEntries] : n \in 0 .. 3}, pretests : MCPretests]

\* Batches that all have a case, and nothing but batches.
MCBatches ==
    {MCEntry(TRUE, 2, <<Inherited>>, d) : d \in {{}, {1}}}
MCBatchLayouts ==
    [tests : UNION {[1 .. n -> MCBatches] : n \in 0 .. 2}, pretests : MCPretests]

\* Files of an archive: input and output of two cases, in a batch or not.
MCFiles == [kind : {"in", "out"}, batch : {0, 1}, case : {1, 2}]

\* /a/l leads to the directory /b/a, and /l to the file /a/b.
MCLinkedTree ==
    LET Plain(kind) == [kind |-> kind, target |-> <<>>]
        Link(target) == [kind |-> "link", target |-> target]
    IN  (<<>> :> Plain("dir")) @@ (<<"a">> :> Plain("dir")) @@ (<<"b">> :> Plain("dir"))
        @@ (<<"a", "b">> :> Plain("file")) @@ (<<"b", "b">> :> Plain("file"))
        @@ (<<"b", "a">> :> Plain("dir"))
        @@ (<<"a", "l">> :> Link(<<"b", "a">>)) @@ (<<"l">> :> Link(<<"a", "b">>))
MCTree == MCLinkedTree
MCNamed ==
    {<<>>, <<"a">>, <<"l">>, <<"b">>, <<"a", "b">>, <<"a", "l">>, <<"a", "a">>, <<"b", "a">>}
MCSymmetry == Permutations(Keys)
MCAsked == UNION {[1 .. n -> {"a", "b", "l", ".."}] : n \in 0 .. 3}

-------------------------------------------------------------------------------
Grade == INSTANCE GradeCases
Chk == INSTANCE Checkers
Policy == INSTANCE SandboxPolicy
Binary == INSTANCE BinaryCache

GradeAtRest ==
    /\ problem = [tests |-> <<>>, pretests |-> <<>>]
    /\ pretestsOnly = FALSE /\ short = FALSE /\ enabled = FALSE /\ isSC = FALSE
    /\ pc = "off" /\ flat = <<>> /\ i = 1 /\ batch = 0 /\ passed = {} /\ sent = <<>>

CheckAtRest ==
    judge = <<>> /\ process = <<>> /\ helper = Chk!NoHelper /\ floats = Chk!NoFloats

MCInit ==
    /\ Init /\ Policy!Init /\ Binary!CacheInit
    /\ \/ GradeAtRest /\ Chk!Init
       \/ Grade!Init /\ CheckAtRest

MCNext ==
    \/ Grade!Next /\ UNCHANGED <<cases, checkVars, policyVars, executorVars>>
    \/ /\ pc = "off"
       /\ \/ /\ Binary!CacheInit /\ CheckAtRest /\ Policy!Init /\ Next
             /\ UNCHANGED <<gradeVars, checkVars, policyVars, executorVars>>
          \/ /\ Binary!CacheInit /\ Init /\ Policy!Init /\ Chk!Write
             /\ UNCHANGED <<gradeVars, cases, policyVars, executorVars>>
          \/ /\ Binary!CacheInit /\ Init /\ CheckAtRest /\ Policy!Next
             /\ UNCHANGED <<gradeVars, cases, checkVars, executorVars>>
          \/ /\ Init /\ CheckAtRest /\ Policy!Init /\ Binary!CacheNext
             /\ UNCHANGED <<gradeVars, cases, checkVars, policyVars>>

MCSpec == MCInit /\ [][MCNext]_<<cases, gradeVars, checkVars, policyVars, executorVars>>

DependenciesFirst == Grade!DependenciesFirst
DependenciesNamed == Grade!DependenciesNamed
FailureStops == Grade!FailureStops
NoNeedlessSkip == Grade!NoNeedlessSkip
PretestFailureStops == Grade!PretestFailureStops
CacheSound == Binary!CacheSound

\* Two empty texts are compared with every helper that ended as well.
CheckersSound == ~CheckAtRest => Chk!CheckersSound

\* A policy without rules allows nothing.
Ruled == \E j \in Policy!Jails : given[j] # {}

PolicyExact == Ruled => Policy!PolicyExact
===============================================================================
