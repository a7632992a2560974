------------------------------ MODULE JudgeProofs ------------------------------
(***************************************************************************)
(* Proofs about the judge's data, its runtimes and its test driver, for    *)
(* any problem, machine and tests.                                         *)
(***************************************************************************)
EXTENDS MCJudge, FiniteSetTheorems, WellFoundedInduction, TLAPS

-------------------------------------------------------------------------------
(* The test driver *)

\* What a test can be told of a submission.
Packets == [kind : {"result", "end", "IE", "CE"}, position : Nat,
            code : Codes \cup {"end", "IE", "CE"}, points : Anything]

\* One packet of a story is as its test says.
PacketExpected(e, packet) ==
    CASE packet.kind = "result" ->
           /\ packet.code \in IF packet.position \in DOMAIN e.caseCodes
                              THEN e.caseCodes[packet.position] ELSE e.codes
           /\ packet.points \in IF packet.position \in DOMAIN e.caseScores
                                THEN e.caseScores[packet.position] ELSE e.scores
      [] packet.kind = "end" -> TRUE
      [] OTHER -> packet.kind \in e.codes

TestTypes ==
    /\ TestsuiteTypeOK
    /\ stage = "grading" => left \in Nat \ {0} /\ test \in 1 .. Tests
    /\ story \in Seq(Packets)
    /\ graded \in Seq([expected : Expectations, story : Seq(Packets), failed : BOOLEAN])
    /\ Len(graded) + left <= Sources

\* The flag says of the story so far what will be counted at its end.
FlagIsOfStory ==
    stage = "grading" =>
        expected \in Expectations /\ (hasFailed <=> ~AsExpected(expected, story))

TestInv == TestTypes /\ FlagIsOfStory /\ FailedIffUnexpected /\ EveryFailureCounts

\* Tests that list scores do not also expect the judge to fail: a wrong score
\* of such a test is reported as an internal error (testsuite.py:81).
ScoresListedAlone ==
    \A e \in Expectations : "IE" \in e.codes => DOMAIN e.caseScores = {}

LEMMA OneMorePacket ==
    ASSUME NEW e, NEW told \in Seq(Packets), NEW packet \in Packets
    PROVE  /\ Append(told, packet) \in Seq(Packets)
           /\ Len(Append(told, packet)) = Len(told) + 1
           /\ AsExpected(e, Append(told, packet)) <=>
                 AsExpected(e, told) /\ PacketExpected(e, packet)
<1> DEFINE more == Append(told, packet)
<1>1. /\ more \in Seq(Packets) /\ Len(more) = Len(told) + 1
      /\ DOMAIN told = 1 .. Len(told) /\ DOMAIN more = 1 .. Len(told) + 1
      /\ more[Len(told) + 1] = packet
      /\ \A j \in 1 .. Len(told) : more[j] = told[j]
  OBVIOUS
<1>2. \A s : AsExpected(e, s) <=> \A j \in DOMAIN s : PacketExpected(e, s[j])
  BY DEF AsExpected, PacketExpected
<1>3. Len(told) \in Nat /\ (\A j \in 1 .. Len(told) + 1 : j \in 1 .. Len(told) \/ j = Len(told) + 1)
      /\ 1 .. Len(told) \subseteq 1 .. Len(told) + 1 /\ Len(told) + 1 \in 1 .. Len(told) + 1
  BY <1>1
<1>4. (\A j \in DOMAIN more : PacketExpected(e, more[j])) <=>
         (\A j \in DOMAIN told : PacketExpected(e, told[j])) /\ PacketExpected(e, packet)
  <2> HIDE DEF more
  <2>1. QED
    BY <1>1, <1>3
<1>5. QED
  BY <1>1, <1>2, <1>4

LEMMA NothingTold == ASSUME NEW e PROVE <<>> \in Seq(Packets) /\ AsExpected(e, <<>>)
BY DEF AsExpected

\* begin_grading returned after a story told by packets.
LEMMA CountedKeeps ==
    ASSUME TestInv, NEW flag \in BOOLEAN, NEW told \in Seq(Packets), Counted(flag, told),
           stage = "grading", flag <=> ~AsExpected(expected, told)
    PROVE  TestInv'
<1> DEFINE this == [expected |-> expected, story |-> told, failed |-> flag]
           Submission == [expected : Expectations, story : Seq(Packets), failed : BOOLEAN]
           Failed == {j \in DOMAIN graded : graded[j].failed}
<1>1. /\ TestTypes /\ graded \in Seq(Submission) /\ this \in Submission
      /\ expected \in Expectations /\ left \in Nat \ {0}
      /\ FailedIffUnexpected /\ EveryFailureCounts
      /\ test \in 1 .. Tests /\ stage = "grading" /\ Tests \in Nat /\ Sources \in Nat /\ Positions \in Nat
      /\ test' = (IF left > 1 THEN test ELSE test + 1)
      /\ stage' = (IF left > 1 THEN "grading" ELSE "pick")
      /\ expected' = expected /\ (left > 1 => hasFailed' = FALSE)
      /\ fails \in Nat /\ broken \in Nat /\ broken' = broken
      /\ graded' = Append(graded, this) /\ left' = left - 1
      /\ fails' = fails + (IF flag THEN 1 ELSE 0)
      /\ story' = <<>> /\ hasFailed' \in BOOLEAN
  BY TestsuiteAssumption DEF TestInv, TestTypes, FlagIsOfStory, TestsuiteTypeOK, Counted, SetExpected
<1>2. /\ graded' \in Seq(Submission) /\ Len(graded') = Len(graded) + 1 /\ Len(graded) \in Nat
      /\ DOMAIN graded = 1 .. Len(graded) /\ DOMAIN graded' = 1 .. Len(graded) + 1
      /\ graded'[Len(graded) + 1] = this
      /\ \A j \in 1 .. Len(graded) : graded'[j] = graded[j]
  BY <1>1
<1>3. TestTypes'
  <2>1. Len(graded) + left <= Sources /\ left \in Nat
    BY <1>1 DEF TestTypes
  <2>2. Len(graded') + left' <= Sources /\ left' \in Nat /\ left' \in 0 .. Sources
        /\ (left > 1 => left' \in Nat \ {0})
    BY <1>1, <1>2, <2>1
  <2>3. story' \in Seq(Packets) /\ Len(story') = 0
    BY <1>1
  <2>4. TestsuiteTypeOK'
    BY <1>1, <2>2, <2>3 DEF TestsuiteTypeOK
  <2>5. QED
    BY <1>1, <1>2, <2>2, <2>3, <2>4 DEF TestTypes
<1>4. FlagIsOfStory'
  <2>1. stage' = "grading" => hasFailed' = FALSE /\ expected' \in Expectations
    BY <1>1
  <2>2. QED
    BY <1>1, <2>1, NothingTold DEF FlagIsOfStory
<1>5. FailedIffUnexpected'
  <2> SUFFICES ASSUME NEW j \in DOMAIN graded'
               PROVE  graded'[j].failed <=> ~AsExpected(graded'[j].expected, graded'[j].story)
    BY DEF FailedIffUnexpected
  <2>1. CASE j = Len(graded) + 1
    BY <1>2, <2>1
  <2>2. CASE j \in 1 .. Len(graded)
    BY <1>1, <1>2, <2>2 DEF FailedIffUnexpected
  <2>3. QED
    BY <1>2, <2>1, <2>2
<1>6. EveryFailureCounts'
  <2>1. IsFiniteSet(Failed) /\ Len(graded) + 1 \notin Failed
    <3>1. IsFiniteSet(1 .. Len(graded)) /\ Failed \in SUBSET (1 .. Len(graded))
      BY <1>2, FS_Interval
    <3>2. QED
      BY <1>2, <3>1, FS_Subset
  <2>2. {j \in DOMAIN graded' : graded'[j].failed} =
           (IF flag THEN Failed \cup {Len(graded) + 1} ELSE Failed)
    <3>1. \A j \in 1 .. Len(graded) + 1 : j \in 1 .. Len(graded) \/ j = Len(graded) + 1
      BY <1>2
    <3>2. graded'[Len(graded) + 1].failed <=> flag
      BY <1>2
    <3>3. Len(graded) + 1 \in 1 .. Len(graded) + 1 /\ 1 .. Len(graded) \subseteq 1 .. Len(graded) + 1
      BY <1>2
    <3>4. QED
      BY <1>2, <3>1, <3>2, <3>3
  <2>3. Cardinality(Failed) \in Nat /\ Cardinality(Failed \cup {Len(graded) + 1}) = Cardinality(Failed) + 1
    BY <2>1, FS_AddElement, FS_CardinalityType
  <2>4. fails = broken + Cardinality(Failed)
    BY <1>1 DEF EveryFailureCounts
  <2> DEFINE FailedNow == {j \in DOMAIN graded' : graded'[j].failed}
  <2> HIDE DEF Failed, FailedNow
  <2>5. Cardinality(FailedNow) = Cardinality(Failed) + (IF flag THEN 1 ELSE 0)
    <3>1. FailedNow = (IF flag THEN Failed \cup {Len(graded) + 1} ELSE Failed)
      BY <2>2 DEF Failed, FailedNow
    <3>2. QED
      BY <3>1, <2>3
  <2>6. fails' = broken' + Cardinality(FailedNow)
    <3>1. fails' = fails + (IF flag THEN 1 ELSE 0) /\ fails \in Nat /\ broken' = broken /\ broken \in Nat
      BY <1>1
    <3>2. QED
      BY <2>3, <2>4, <2>5, <3>1
  <2>7. QED
    BY <2>6 DEF EveryFailureCounts, FailedNow
<1>7. QED
  BY <1>3, <1>4, <1>5, <1>6 DEF TestInv

\* A packet that ends a submission counts with what the test says of it.
LEMMA EndKeeps ==
    ASSUME TestInv, stage = "grading", NEW packet \in Packets,
           Counted(hasFailed \/ ~PacketExpected(expected, packet), Append(story, packet))
    PROVE  TestInv'
<1>1. story \in Seq(Packets) /\ hasFailed \in BOOLEAN /\ (hasFailed <=> ~AsExpected(expected, story))
  BY DEF TestInv, TestTypes, FlagIsOfStory, TestsuiteTypeOK
<1>2. DEFINE flag == hasFailed \/ ~PacketExpected(expected, packet)
             told == Append(story, packet)
<1>3. told \in Seq(Packets) /\ flag \in BOOLEAN /\ (flag <=> ~AsExpected(expected, told))
  BY <1>1, OneMorePacket
<1>4. Counted(flag, told)
  OBVIOUS
<1>5. QED
  <2> HIDE DEF flag, told
  <2>1. QED
    BY <1>3, <1>4, CountedKeeps

\* What a result and the ends of a story are to a test.
LEMMA PacketsAre ==
    ASSUME NEW p \in Nat, NEW code \in Codes, NEW points \in Anything
    PROVE  /\ Result(p, code, points) \in Packets
           /\ PacketExpected(expected, Result(p, code, points)) <=>
                 ~UnexpectedCode(p, code) /\ ~UnexpectedScore(p, points)
BY DEF Result, Packets, PacketExpected, UnexpectedCode, UnexpectedScore

LEMMA EndsAre ==
    /\ \A kind \in {"end", "IE", "CE"} : Last(kind) \in Packets
    /\ PacketExpected(expected, Last("end"))
    /\ PacketExpected(expected, Last("IE")) <=> "IE" \in expected.codes
    /\ PacketExpected(expected, Last("CE")) <=> "CE" \in expected.codes
BY DEF Last, Packets, PacketExpected, Anything

LEMMA ResultKeeps ==
    ASSUME ScoresListedAlone, TestInv, TestCaseStatus
    PROVE  TestInv'
<1>1. /\ stage = "grading" /\ story \in Seq(Packets) /\ Len(story) < Positions
      /\ hasFailed \in BOOLEAN /\ (hasFailed <=> ~AsExpected(expected, story))
      /\ expected \in Expectations /\ Len(story) \in Nat /\ Positions \in Nat
  BY TestsuiteAssumption DEF TestCaseStatus, TestInv, TestTypes, FlagIsOfStory, TestsuiteTypeOK
<1>2. PICK code \in Codes, points \in Anything :
        LET p == Len(story) + 1
            told == Append(story, Result(p, code, points))
        IN  IF Raises(p, points)
            THEN Counted(hasFailed \/ UnexpectedCode(p, code) \/ FlagIE, Append(told, Last("IE")))
            ELSE /\ hasFailed' = (hasFailed \/ UnexpectedCode(p, code) \/ UnexpectedScore(p, points))
                 /\ story' = told
                 /\ UNCHANGED <<test, stage, expected, left, fails, graded, broken>>
  BY DEF TestCaseStatus
<1> DEFINE p == Len(story) + 1
           r == Result(p, code, points)
           told == Append(story, r)
<1>3. p \in Nat /\ r \in Packets
      /\ (PacketExpected(expected, r) <=> ~UnexpectedCode(p, code) /\ ~UnexpectedScore(p, points))
  BY <1>1, PacketsAre
<1>4. /\ told \in Seq(Packets) /\ Len(told) = p
      /\ (AsExpected(expected, told) <=> AsExpected(expected, story) /\ PacketExpected(expected, r))
  BY <1>1, <1>3, OneMorePacket
<1>5. CASE Raises(p, points)
  <2> DEFINE flag == hasFailed \/ UnexpectedCode(p, code) \/ FlagIE
             all == Append(told, Last("IE"))
  <2>1. Counted(flag, all)
    BY <1>2, <1>5
  <2>2. "IE" \notin expected.codes /\ UnexpectedScore(p, points)
    BY <1>1, <1>5 DEF Raises, ScoresListedAlone
  <2>3. all \in Seq(Packets) /\ ~AsExpected(expected, all)
    BY <1>3, <1>4, <2>2, EndsAre, OneMorePacket
  <2>4. flag = TRUE
    BY <2>2 DEF FlagIE
  <2>5. QED
    <3> HIDE DEF all, flag
    <3>1. QED
      BY <1>1, <2>1, <2>3, <2>4, CountedKeeps
<1>6. CASE ~Raises(p, points)
  <2>1. /\ hasFailed' = (hasFailed \/ UnexpectedCode(p, code) \/ UnexpectedScore(p, points))
        /\ story' = told
        /\ UNCHANGED <<test, stage, expected, left, fails, graded, broken>>
    BY <1>2, <1>6
  <2>2. hasFailed' \in BOOLEAN /\ (hasFailed' <=> ~AsExpected(expected, told))
    BY <1>1, <1>3, <1>4, <2>1
  <2>3. story' \in Seq(Packets) /\ Len(story') <= Positions
    BY <1>1, <1>4, <2>1
  <2>4. TestTypes'
    BY <2>1, <2>2, <2>3 DEF TestInv, TestTypes, TestsuiteTypeOK
  <2>5. FlagIsOfStory'
    BY <1>1, <2>1, <2>2 DEF FlagIsOfStory
  <2>6. FailedIffUnexpected' /\ EveryFailureCounts'
    BY <2>1 DEF TestInv, FailedIffUnexpected, EveryFailureCounts
  <2>7. QED
    BY <2>4, <2>5, <2>6 DEF TestInv
<1>7. QED
  BY <1>5, <1>6

LEMMA TestInvInductive ==
    ASSUME ScoresListedAlone, TestInv, [TestsuiteNext]_testVars
    PROVE  TestInv'
<1>1. ASSUME Skip PROVE TestInv'
  BY <1>1, TestsuiteAssumption
     DEF Skip, TestInv, TestTypes, TestsuiteTypeOK, FlagIsOfStory, FailedIffUnexpected, EveryFailureCounts
<1>2. ASSUME Broken PROVE TestInv'
  <2>1. TestTypes' /\ FlagIsOfStory' /\ FailedIffUnexpected'
    BY <1>2, TestsuiteAssumption
       DEF Broken, TestInv, TestTypes, TestsuiteTypeOK, FlagIsOfStory, FailedIffUnexpected
  <2>2. Cardinality({j \in DOMAIN graded : graded[j].failed}) \in Nat
    <3>1. graded \in Seq([expected : Expectations, story : Seq(Packets), failed : BOOLEAN])
      BY DEF TestInv, TestTypes
    <3>2. IsFiniteSet(1 .. Len(graded)) /\ DOMAIN graded = 1 .. Len(graded)
      BY <3>1, FS_Interval
    <3>3. IsFiniteSet({j \in DOMAIN graded : graded[j].failed})
      BY <3>2, FS_Subset
    <3>4. QED
      BY <3>3, FS_CardinalityType
  <2>3. EveryFailureCounts'
    <3> DEFINE Failed == {j \in DOMAIN graded : graded[j].failed}
    <3>1. /\ fails = broken + Cardinality(Failed) /\ fails \in Nat /\ broken \in Nat
          /\ fails' = fails + 1 /\ broken' = broken + 1 /\ graded' = graded
      BY <1>2 DEF Broken, TestInv, TestTypes, TestsuiteTypeOK, EveryFailureCounts
    <3>2. fails' = broken' + Cardinality(Failed)
      <4> HIDE DEF Failed
      <4>1. QED
        BY <2>2, <3>1 DEF Failed
    <3>3. QED
      BY <3>1, <3>2 DEF EveryFailureCounts
  <2>4. QED
    BY <2>1, <2>3 DEF TestInv
<1>3. ASSUME Begin PROVE TestInv'
  <2>1. PICK e \in Expectations : SetExpected(e)
    BY <1>3 DEF Begin
  <2>2. /\ expected' = e /\ hasFailed' = FALSE /\ story' = <<>> /\ stage' = "grading"
        /\ left' \in 1 .. Sources - Len(graded) /\ test \in 1 .. Tests
        /\ UNCHANGED <<test, fails, graded, broken>>
        /\ TestTypes /\ FailedIffUnexpected /\ EveryFailureCounts
        /\ Sources \in Nat /\ Positions \in Nat
    BY <1>3, <2>1, TestsuiteAssumption DEF Begin, SetExpected, TestInv, TestTypes, TestsuiteTypeOK
  <2>3. graded \in Seq([expected : Expectations, story : Seq(Packets), failed : BOOLEAN])
        /\ Len(graded) \in Nat
    BY <2>2 DEF TestTypes
  <2>4. left' \in Nat \ {0} /\ Len(graded) + left' <= Sources /\ left' \in 0 .. Sources
    BY <2>2, <2>3
  <2>5. TestTypes'
    <3>1. TestsuiteTypeOK'
      <4>1. Len(story') = 0
        BY <2>2
      <4>2. test' \in 1 .. Tests + 1 /\ fails \in Nat /\ broken \in Nat /\ left' \in 0 .. Sources
        BY <2>2, <2>4, TestsuiteAssumption DEF TestTypes, TestsuiteTypeOK
      <4>3. hasFailed' \in BOOLEAN /\ expected' \in Expectations \cup {Nobody}
            /\ stage' \in {"pick", "grading", "done"}
        BY <2>2
      <4>4. Len(story') <= Positions
        BY <2>2, <4>1
      <4>5. QED
        BY <2>2, <4>2, <4>3, <4>4 DEF TestsuiteTypeOK
    <3>2. story' \in Seq(Packets)
      BY <2>2, NothingTold
    <3>3. QED
      BY <2>2, <2>3, <2>4, <3>1, <3>2 DEF TestTypes
  <2>6. FlagIsOfStory'
    BY <2>2, NothingTold DEF FlagIsOfStory
  <2>7. QED
    BY <2>2, <2>5, <2>6 DEF TestInv, FailedIffUnexpected, EveryFailureCounts
<1>4. ASSUME Finish PROVE TestInv'
  BY <1>4
     DEF Finish, TestInv, TestTypes, TestsuiteTypeOK, FlagIsOfStory, FailedIffUnexpected, EveryFailureCounts
<1>5. ASSUME TestCaseStatus PROVE TestInv'
  BY <1>5, ResultKeeps
<1>6. ASSUME GradingEnd PROVE TestInv'
  <2>1. (hasFailed \/ ~PacketExpected(expected, Last("end"))) = hasFailed
    BY EndsAre DEF TestInv, TestTypes, TestsuiteTypeOK
  <2>2. QED
    BY <1>6, <2>1, EndsAre, EndKeeps DEF GradingEnd
<1>7. ASSUME CompileError PROVE TestInv'
  <2>1. (hasFailed \/ ~PacketExpected(expected, Last("CE"))) = (hasFailed \/ "CE" \notin expected.codes)
    BY EndsAre
  <2>2. <<Last("CE")>> = Append(story, Last("CE"))
    BY <1>7 DEF CompileError
  <2>3. QED
    BY <1>7, <2>1, <2>2, EndsAre, EndKeeps DEF CompileError
<1>8. ASSUME InternalError PROVE TestInv'
  <2>1. (hasFailed \/ ~PacketExpected(expected, Last("IE"))) = FlagIE
    BY EndsAre DEF FlagIE
  <2>2. QED
    BY <1>8, <2>1, EndsAre, EndKeeps DEF InternalError
<1>9. ASSUME UNCHANGED testVars PROVE TestInv'
  BY <1>9
     DEF testVars, TestInv, TestTypes, TestsuiteTypeOK, FlagIsOfStory, FailedIffUnexpected, EveryFailureCounts
<1>10. QED
  BY <1>1, <1>2, <1>3, <1>4, <1>5, <1>6, <1>7, <1>8, <1>9 DEF TestsuiteNext

LEMMA TestInvInit == TestsuiteInit => TestInv
<1> SUFFICES ASSUME TestsuiteInit PROVE TestInv
  OBVIOUS
<1>1. /\ graded = <<>> /\ story = <<>> /\ left = 0 /\ stage = "pick" /\ fails = 0 /\ broken = 0
      /\ test = 1 /\ expected = Nobody /\ hasFailed = FALSE
      /\ Tests \in Nat /\ Sources \in Nat /\ Positions \in Nat
  BY TestsuiteAssumption DEF TestsuiteInit
<1>2. TestTypes /\ FlagIsOfStory
  <2>1. TestsuiteTypeOK
    <3>1. Len(story) = 0
      BY <1>1
    <3>2. test \in 1 .. Tests + 1 /\ left \in 0 .. Sources /\ Len(story) <= Positions
          /\ fails \in Nat /\ broken \in Nat
      BY <1>1, <3>1
    <3>3. hasFailed \in BOOLEAN /\ expected \in Expectations \cup {Nobody}
          /\ stage \in {"pick", "grading", "done"}
      BY <1>1
    <3>4. QED
      BY <3>2, <3>3 DEF TestsuiteTypeOK
  <2>2. story \in Seq(Packets)
        /\ graded \in Seq([expected : Expectations, story : Seq(Packets), failed : BOOLEAN])
    BY <1>1, NothingTold
  <2>3. Len(graded) + left <= Sources
    BY <1>1
  <2>4. QED
    BY <1>1, <2>1, <2>2, <2>3 DEF TestTypes, FlagIsOfStory
<1>3. FailedIffUnexpected /\ EveryFailureCounts
  <2>1. {j \in DOMAIN graded : graded[j].failed} = {}
    BY <1>1
  <2>2. QED
    BY <1>1, <2>1, FS_EmptySet DEF FailedIffUnexpected, EveryFailureCounts
<1>4. QED
  BY <1>2, <1>3 DEF TestInv

\* The driver counts a submission as failed exactly when the judge's story of
\* it is not what its test expects, and counts every failure, for any number
\* of tests, submissions and cases (testsuite.py).
THEOREM DriverAlwaysSound ==
    ASSUME ScoresListedAlone
    PROVE  MCJudgeSpec => []DriverSound
<1> DEFINE Part == part = "tests" => TestInv
<1>1. MCJudgeInit => Part
  BY TestInvInit DEF MCJudgeInit
<1>2. Part /\ [MCJudgeNext]_<<part, rulesVars, caseVars, runtimeVars, testVars>> => Part'
  <2> SUFFICES ASSUME Part, [MCJudgeNext]_<<part, rulesVars, caseVars, runtimeVars, testVars>>,
                      part' = "tests"
               PROVE  TestInv'
    OBVIOUS
  <2>1. part = "tests" /\ [TestsuiteNext]_testVars
    BY DEF MCJudgeNext
  <2>2. QED
    BY <2>1, TestInvInductive
<1>3. Part => DriverSound
  BY DEF TestInv, TestTypes, DriverSound, TestsuiteSound
<1>4. QED
  BY <1>1, <1>2, <1>3, PTL DEF MCJudgeSpec

-------------------------------------------------------------------------------
(* The runtimes *)

LEMMA ClassOf ==
    /\ \A j \in DOMAIN Classes : Class(Classes[j].name) = Classes[j] /\ Classes[j].name \in Names
    /\ \A e \in Names :
         /\ \E j \in DOMAIN Classes : e = Classes[j].name /\ Class(e) = Classes[j]
         /\ Class(e) \in ExecutorClasses /\ Class(e).name = e
         /\ \A f \in Names : Class(e).modeKey \notin Class(f).needs
<1>1. ASSUME NEW j \in DOMAIN Classes PROVE Class(Classes[j].name) = Classes[j]
  <2>1. \A c \in {Classes[k] : k \in DOMAIN Classes} : c.name = Classes[j].name => c = Classes[j]
    BY ClassesAssumption
  <2>2. QED
    BY <2>1 DEF Class
<1>2. \A j \in DOMAIN Classes : Classes[j] \in ExecutorClasses
  BY ClassesAssumption
<1>3. QED
  BY <1>1, <1>2, ClassesAssumption DEF Names

\* A way to run e on this machine.
RunsBy(e, c, m) ==
    (\A k \in Class(e).needs : <<k, c>> \in machine.files) /\ <<c, m>> \in machine.works[e]

\* If e runs in some way, it was found.
Found(e) ==
    (\E w \in machine.works[e] : \A k \in Class(e).needs : <<k, w[1]>> \in machine.files)
    => e \in reported

\* The machine may lack files it had, and works as it did.
MachineTypes ==
    /\ machine = [works |-> machine.works, files |-> machine.files]
    /\ \E m \in Machines : machine.works = m.works /\ machine.files \subseteq m.files

RuntimesTypes ==
    /\ RuntimesTypeOK /\ MachineTypes
    /\ phase \in {"autoconfig", "start"} => executors = {}
    /\ phase = "start" => next = 1

\* Ways come in order, and those before this one did not work.
Tried ==
    /\ \A e \in reported : \E j \in 1 .. next - 1 : e = Classes[j].name
    /\ \A j \in 1 .. next - 1 : Found(Classes[j].name)
    /\ \A c \in Trying.first .. Trying.last, j \in DOMAIN Trying.modes :
         c < candidate \/ (c = candidate /\ j < mode) => ~RunsBy(Trying.name, c, Trying.modes[j])

\* The dictionary leads every reported executor whose commands were not
\* replaced to a way that works, ...
Leads ==
    \A e \in reported : ~Replaced(e) => \E c \in Class(e).first .. Class(e).last :
        /\ \A k \in Class(e).needs : k \in DOMAIN result /\ result[k] = c
        /\ <<c, Mode(e, result)>> \in machine.works[e]

\* ... and its modes are those that a reported executor fell back on.
FellBack ==
    \A e \in Names : Class(e).modeKey \in DOMAIN result =>
        \E h \in reported :
            /\ Class(h).modeKey = Class(e).modeKey
            /\ \E j \in 2 .. Len(Class(h).modes) : result[Class(e).modeKey] = Class(h).modes[j]

Served(e) ==
    e \in reported \cap selected /\ Installed(e, runtime) /\ ~Replaced(e) => e \in executors

RuntimesInv ==
    /\ RuntimesTypes /\ Leads /\ FellBack
    /\ phase = "autoconfig" => Tried
    /\ phase = "start" => \A e \in Names : Found(e)
    /\ phase \in {"load", "serving"} /\ ~own => runtime = result
    /\ phase = "load" /\ ~own => \A j \in 1 .. next - 1 : Served(Classes[j].name)
    /\ phase = "serving" /\ ~own => \A e \in Names : Served(e)

\* The dictionary of an attempt names one candidate and one mode.
LEMMA AttemptIs ==
    ASSUME RuntimesTypes
    PROVE  /\ Trying \in ExecutorClasses /\ Trying.name \in Names /\ Class(Trying.name) = Trying
           /\ candidate \in Trying.first .. Trying.last /\ mode \in 1 .. Len(Trying.modes)
           /\ DOMAIN Attempt = Trying.needs \cup {Trying.modeKey}
           /\ \A k \in Trying.needs : Attempt[k] = candidate
           /\ Attempt[Trying.modeKey] = Trying.modes[mode]
           /\ Works(Trying.name, Attempt) <=> RunsBy(Trying.name, candidate, Trying.modes[mode])
<1>1. /\ next \in DOMAIN Classes /\ Trying \in ExecutorClasses /\ Trying.name \in Names
      /\ Class(Trying.name) = Trying /\ Trying.modeKey \notin Trying.needs
      /\ candidate \in Trying.first .. Trying.last /\ mode \in DOMAIN Trying.modes
  BY ClassOf DEF RuntimesTypes, RuntimesTypeOK, Trying
<1>2. Trying.needs # {} /\ DOMAIN Trying.modes = 1 .. Len(Trying.modes)
  BY <1>1 DEF ExecutorClasses
<1>3. /\ DOMAIN Attempt = Trying.needs \cup {Trying.modeKey}
      /\ \A k \in Trying.needs : Attempt[k] = candidate
      /\ Attempt[Trying.modeKey] = Trying.modes[mode]
  BY <1>1 DEF Attempt
<1>4. Mode(Trying.name, Attempt) = Trying.modes[mode]
  BY <1>1, <1>3 DEF Mode
<1>5. Installed(Trying.name, Attempt) <=> \A k \in Trying.needs : <<k, candidate>> \in machine.files
  BY <1>1, <1>3 DEF Installed
<1>6. \A c : (\A k \in Trying.needs : Attempt[k] = c) <=> c = candidate
  BY <1>2, <1>3
<1>7. (\E c \in Candidates(Trying.name) : (\A k \in Class(Trying.name).needs : Attempt[k] = c)
           /\ <<c, Mode(Trying.name, Attempt)>> \in machine.works[Trying.name])
      <=> <<candidate, Trying.modes[mode]>> \in machine.works[Trying.name]
  BY <1>1, <1>4, <1>6 DEF Candidates
<1>8. QED
  BY <1>1, <1>2, <1>3, <1>5, <1>7 DEF Works, RunsBy

\* Where the trials leave off when they are over.
LEMMA AllTried ==
    ASSUME RuntimesTypes, Tried, OutOfWays, ~Works(Trying.name, Attempt)
    PROVE  Found(Trying.name)
<1> SUFFICES ASSUME NEW w \in machine.works[Trying.name],
                    \A k \in Trying.needs : <<k, w[1]>> \in machine.files
             PROVE  FALSE
  BY AttemptIs DEF Found
<1>1. PICK m \in Machines : machine.works = m.works
  BY DEF RuntimesTypes, MachineTypes
<1>2. w \in Ways(Trying.name)
  BY <1>1, AttemptIs, ClassesAssumption
<1>3. PICK c \in Trying.first .. Trying.last, j \in DOMAIN Trying.modes : w = <<c, Trying.modes[j]>>
  BY <1>2, AttemptIs DEF Ways, Candidates
<1>4. RunsBy(Trying.name, c, Trying.modes[j])
  BY <1>3, AttemptIs DEF RunsBy
<1>5. Trying.first \in Nat /\ Trying.last \in Nat /\ DOMAIN Trying.modes = 1 .. Len(Trying.modes) /\ Len(Trying.modes) \in Nat
  BY AttemptIs DEF ExecutorClasses
<1>6. c < candidate \/ (c = candidate /\ j < mode) \/ (c = candidate /\ j = mode)
  <2>1. candidate = Trying.last /\ mode = Len(Trying.modes)
    BY DEF OutOfWays
  <2>2. c \in Trying.first .. Trying.last /\ j \in 1 .. Len(Trying.modes)
    BY <1>3, <1>5
  <2>3. QED
    BY <1>5, <2>1, <2>2
<1>7. CASE c = candidate /\ j = mode
  BY <1>4, <1>7, AttemptIs
<1>8. CASE c < candidate \/ (c = candidate /\ j < mode)
  <2>1. \A d \in Trying.first .. Trying.last, l \in DOMAIN Trying.modes :
          d < candidate \/ (d = candidate /\ l < mode) => ~RunsBy(Trying.name, d, Trying.modes[l])
    BY DEF Tried
  <2>2. QED
    BY <1>3, <1>4, <1>8, <2>1
<1>9. QED
  BY <1>6, <1>7, <1>8

\* The next way, and the next executor.
LEMMA WaysGoOn ==
    ASSUME RuntimesTypes, ~OutOfWays, NextWay, UNCHANGED next
    PROVE  /\ candidate' \in Trying.first .. Trying.last /\ mode' \in DOMAIN Trying.modes
           /\ \A c \in Trying.first .. Trying.last, j \in DOMAIN Trying.modes :
                c < candidate' \/ (c = candidate' /\ j < mode') =>
                    c < candidate \/ (c = candidate /\ j < mode) \/ (c = candidate /\ j = mode)
<1>1. /\ Trying.first \in Nat /\ Trying.last \in Nat /\ DOMAIN Trying.modes = 1 .. Len(Trying.modes)
      /\ Len(Trying.modes) \in Nat \ {0}
  BY AttemptIs DEF ExecutorClasses
<1>2. candidate \in Trying.first .. Trying.last /\ mode \in 1 .. Len(Trying.modes)
  BY AttemptIs
<1>3. CASE mode < Len(Trying.modes)
  <2>1. mode' = mode + 1 /\ candidate' = candidate
    BY <1>3 DEF NextWay
  <2>2. QED
    BY <1>1, <1>2, <1>3, <2>1
<1>4. CASE ~(mode < Len(Trying.modes))
  <2>1. mode' = 1 /\ candidate' = candidate + 1 /\ mode = Len(Trying.modes)
        /\ candidate # Trying.last
    BY <1>1, <1>2, <1>4 DEF NextWay, OutOfWays
  <2>2. QED
    BY <1>1, <1>2, <2>1
<1>5. QED
  BY <1>3, <1>4

LEMMA ClassesGoOn ==
    ASSUME RuntimesTypes, NEW p, NextClass(p)
    PROVE  /\ next' \in DOMAIN Classes
           /\ candidate' = Trying'.first /\ candidate' \in Trying'.first .. Trying'.last
           /\ mode' = 1 /\ mode' \in DOMAIN Trying'.modes
           /\ \/ phase' = phase /\ next' = next + 1
              \/ phase' = p /\ next = Len(Classes) /\ next' = 1
<1>1. /\ Classes \in Seq(ExecutorClasses) /\ DOMAIN Classes = 1 .. Len(Classes)
      /\ Len(Classes) \in Nat \ {0} /\ next \in 1 .. Len(Classes)
  BY ClassesAssumption DEF RuntimesTypes, RuntimesTypeOK
<1>2. candidate' = Trying'.first /\ mode' = 1
  BY DEF NextClass, Trying
<1>3. \/ phase' = phase /\ next' = next + 1 /\ next # Len(Classes)
      \/ phase' = p /\ next = Len(Classes) /\ next' = 1
  BY DEF NextClass
<1>4. next' \in 1 .. Len(Classes)
  <2>1. CASE next' = next + 1 /\ next # Len(Classes)
    <3> DEFINE n == Len(Classes)
    <3>1. n \in Nat /\ next \in 1 .. n /\ next # n /\ next' = next + 1
      BY <1>1, <2>1
    <3> HIDE DEF n
    <3>2. next' \in 1 .. n
      BY <3>1
    <3>3. QED
      BY <3>2 DEF n
  <2>2. CASE next' = 1
    BY <1>1, <2>2
  <2>3. QED
    BY <1>3, <2>1, <2>2
<1>5. Trying' = Classes[next'] /\ Trying' \in ExecutorClasses
  BY <1>1, <1>4 DEF Trying
<1>8. Trying'.first <= Trying'.last
  BY <1>1, <1>4, <1>5, ClassesAssumption
<1>6. Trying'.first \in Trying'.first .. Trying'.last /\ 1 \in DOMAIN Trying'.modes
  BY <1>5, <1>8 DEF ExecutorClasses
<1>7. QED
  BY <1>1, <1>2, <1>3, <1>4, <1>6

\* Executors that were reported before this one have other names.
LEMMA OthersHaveNames ==
    ASSUME RuntimesTypes, Tried
    PROVE  Trying.name \notin reported
<1>1. /\ Classes \in Seq(ExecutorClasses) /\ DOMAIN Classes = 1 .. Len(Classes)
      /\ Len(Classes) \in Nat /\ next \in 1 .. Len(Classes)
  BY ClassesAssumption DEF RuntimesTypes, RuntimesTypeOK
<1>2. ASSUME NEW j \in 1 .. next - 1 PROVE j \in DOMAIN Classes /\ j # next
  BY <1>1
<1>3. QED
  BY <1>1, <1>2, ClassesAssumption DEF Tried, Trying

\* An executor that the dictionary leads to a way, and that is installed,
\* works with it.
LEMMA LeadsToWorks ==
    ASSUME RuntimesTypes, Leads, NEW e \in reported, Installed(e, result), ~Replaced(e)
    PROVE  Works(e, result)
<1>1. e \in Names /\ Class(e).needs # {}
  BY ClassOf DEF RuntimesTypes, RuntimesTypeOK, ExecutorClasses
<1>2. PICK c \in Class(e).first .. Class(e).last :
        /\ \A k \in Class(e).needs : k \in DOMAIN result /\ result[k] = c
        /\ <<c, Mode(e, result)>> \in machine.works[e]
  BY DEF Leads
<1>3. QED
  BY <1>2 DEF Works, Candidates

\* What an update leaves of a dictionary.
LEMMA UpdatedIs ==
    ASSUME NEW dict, NEW entries
    PROVE  /\ DOMAIN Updated(dict, entries) = DOMAIN dict \cup DOMAIN entries
           /\ \A k \in DOMAIN entries : Updated(dict, entries)[k] = entries[k]
           /\ \A k \in DOMAIN dict \ DOMAIN entries : Updated(dict, entries)[k] = dict[k]
BY DEF Updated

\* What a success adds to the dictionary.
LEMMA ConfigIs ==
    ASSUME RuntimesTypes
    PROVE  /\ Trying.modeKey \notin Trying.needs
           /\ Trying.needs \subseteq DOMAIN Config
           /\ DOMAIN Config \subseteq Trying.needs \cup {Trying.modeKey}
           /\ \A k \in Trying.needs : Config[k] = candidate
           /\ Trying.modeKey \in DOMAIN Config <=> mode # 1
           /\ mode # 1 => Config[Trying.modeKey] = Trying.modes[mode]
<1>1. Trying.modeKey \notin Trying.needs
  BY AttemptIs, ClassOf
<1>2. DOMAIN Config = Trying.needs \cup (IF mode = 1 THEN {} ELSE {Trying.modeKey})
      /\ \A k \in DOMAIN Config : Config[k] = Attempt[k]
  BY DEF Config
<1>3. QED
  BY <1>1, <1>2, AttemptIs

\* Of executors that share a mode's key, one that works in some way works in
\* the second mode.
LEMMA SecondMode ==
    ASSUME RuntimesTypes, NEW e \in Names, NEW f \in Names, e # f,
           Class(e).modeKey = Class(f).modeKey, machine.works[e] # {}
    PROVE  /\ Class(e).modes = Class(f).modes /\ Len(Class(e).modes) = 2
           /\ Class(e).first = Class(e).last
           /\ <<Class(e).first, Class(e).modes[2]>> \in machine.works[e]
<1>1. PICK m \in Machines : machine.works = m.works
  BY DEF RuntimesTypes, MachineTypes
<1>2. QED
  BY <1>1, RuntimesAssumption

\* A success leaves the others a way that works, ...
LEMMA OthersStillLed ==
    ASSUME RuntimesTypes, Tried, Leads, NEW e \in reported, e # Trying.name,
           ~Replaced(e), Class(e).needs \cap Trying.needs # {} => Class(e).first = Trying.first
    PROVE  \E c \in Class(e).first .. Class(e).last :
             /\ \A k \in Class(e).needs :
                  k \in DOMAIN Updated(result, Config) /\ Updated(result, Config)[k] = c
             /\ <<c, Mode(e, Updated(result, Config))>> \in machine.works[e]
<1> DEFINE new == Updated(result, Config)
<1> HIDE DEF new
<1>1. /\ e \in Names /\ Class(e) \in ExecutorClasses
      /\ Trying.name \in Names /\ Class(Trying.name) = Trying /\ Trying \in ExecutorClasses
      /\ Trying.modeKey \notin Class(e).needs /\ Class(e).modeKey \notin Trying.needs
  BY ClassOf, AttemptIs DEF RuntimesTypes, RuntimesTypeOK
<1>2. PICK c \in Class(e).first .. Class(e).last :
        /\ \A k \in Class(e).needs : k \in DOMAIN result /\ result[k] = c
        /\ <<c, Mode(e, result)>> \in machine.works[e]
  BY DEF Leads
<1>3. /\ DOMAIN new = DOMAIN result \cup DOMAIN Config
      /\ \A k \in DOMAIN Config : new[k] = Config[k]
      /\ \A k \in DOMAIN result \ DOMAIN Config : new[k] = result[k]
  BY UpdatedIs DEF new
<1>4. ASSUME NEW k \in Class(e).needs PROVE k \in DOMAIN new /\ new[k] = c
  <2>1. CASE k \in DOMAIN Config
    <3>1. k \in Trying.needs
      BY <1>1, <2>1, ConfigIs
    <3>2. /\ Class(e).first = Class(e).last /\ Trying.first = Trying.last
          /\ Class(e).first = Trying.first
      BY <1>1, <3>1, SharedCommands
    <3>5. Trying.first \in Nat
      BY <1>1 DEF ExecutorClasses
    <3>3. candidate = Trying.first /\ c = Trying.first
      BY <1>2, <3>2, <3>5, AttemptIs
    <3>4. QED
      BY <1>3, <2>1, <3>1, <3>3, ConfigIs
  <2>2. QED
    BY <1>2, <1>3, <2>1
<1>5. <<c, Mode(e, new)>> \in machine.works[e]
  <2>1. CASE Class(e).modeKey \in DOMAIN Config
    <3>1. Class(e).modeKey = Trying.modeKey /\ mode # 1
      BY <1>1, <2>1, ConfigIs
    <3>2. /\ Class(e).modes = Trying.modes /\ Len(Trying.modes) = 2
          /\ Class(e).first = Class(e).last
          /\ <<Class(e).first, Class(e).modes[2]>> \in machine.works[e]
      BY <1>1, <1>2, <3>1, SecondMode
    <3>6. Class(e).first \in Nat
      BY <1>1 DEF ExecutorClasses
    <3>3. c = Class(e).first /\ mode = 2
      BY <1>2, <3>1, <3>2, <3>6, AttemptIs
    <3>4. Mode(e, new) = Class(e).modes[2]
      BY <1>3, <2>1, <3>1, <3>2, <3>3, ConfigIs DEF Mode
    <3>5. QED
      BY <3>2, <3>3, <3>4
  <2>2. CASE Class(e).modeKey \notin DOMAIN Config
    <3>1. Mode(e, new) = Mode(e, result)
      BY <1>3, <2>2 DEF Mode
    <3>2. QED
      BY <1>2, <3>1
  <2>3. QED
    BY <2>1, <2>2
<1>6. QED
  BY <1>2, <1>4, <1>5 DEF new

\* ... and the executor that succeeded its own.
LEMMA WinnerIsLed ==
    ASSUME RuntimesTypes, Tried, FellBack, Works(Trying.name, Attempt)
    PROVE  /\ \A k \in Trying.needs :
                k \in DOMAIN Updated(result, Config) /\ Updated(result, Config)[k] = candidate
           /\ <<candidate, Mode(Trying.name, Updated(result, Config))>> \in machine.works[Trying.name]
<1> DEFINE new == Updated(result, Config)
<1> HIDE DEF new
<1>1. /\ Trying.name \in Names /\ Class(Trying.name) = Trying /\ Trying \in ExecutorClasses
      /\ candidate \in Trying.first .. Trying.last
      /\ <<candidate, Trying.modes[mode]>> \in machine.works[Trying.name]
  BY AttemptIs DEF RunsBy
<1>2. /\ DOMAIN new = DOMAIN result \cup DOMAIN Config
      /\ \A k \in DOMAIN Config : new[k] = Config[k]
      /\ \A k \in DOMAIN result \ DOMAIN Config : new[k] = result[k]
  BY UpdatedIs DEF new
<1>3. \A k \in Trying.needs : k \in DOMAIN new /\ new[k] = candidate
  BY <1>2, ConfigIs
<1>4. <<candidate, Mode(Trying.name, new)>> \in machine.works[Trying.name]
  <2>1. CASE mode # 1
    <3>1. Mode(Trying.name, new) = Trying.modes[mode]
      BY <1>1, <1>2, <2>1, ConfigIs DEF Mode
    <3>2. QED
      BY <1>1, <3>1
  <2>2. CASE mode = 1 /\ Trying.modeKey \in DOMAIN result
    <3>1. PICK h \in reported :
            /\ Class(h).modeKey = Trying.modeKey
            /\ \E j \in 2 .. Len(Class(h).modes) : result[Trying.modeKey] = Class(h).modes[j]
      BY <1>1, <2>2 DEF FellBack
    <3>2. h \in Names /\ h # Trying.name
      BY OthersHaveNames DEF RuntimesTypes, RuntimesTypeOK
    <3>3. /\ Trying.modes = Class(h).modes /\ Len(Trying.modes) = 2
          /\ Trying.first = Trying.last
          /\ <<Trying.first, Trying.modes[2]>> \in machine.works[Trying.name]
      BY <1>1, <3>1, <3>2, SecondMode
    <3>4. result[Trying.modeKey] = Trying.modes[2]
      <4>1. PICK j \in 2 .. Len(Class(h).modes) : result[Trying.modeKey] = Class(h).modes[j]
        BY <3>1
      <4>2. j = 2
        BY <3>3
      <4>3. QED
        BY <3>3, <4>1, <4>2
    <3>5. Mode(Trying.name, new) = Trying.modes[2]
      BY <1>1, <1>2, <2>2, <3>4, ConfigIs DEF Mode
    <3>6. candidate = Trying.first
      <4>1. Trying.first \in Nat
        BY <1>1 DEF ExecutorClasses
      <4>2. QED
        BY <1>1, <3>3, <4>1
    <3>7. QED
      BY <3>3, <3>5, <3>6
  <2>3. CASE mode = 1 /\ Trying.modeKey \notin DOMAIN result
    <3>1. Mode(Trying.name, new) = Trying.modes[1]
      BY <1>1, <1>2, <2>3, ConfigIs DEF Mode
    <3>2. QED
      BY <1>1, <2>3, <3>1
  <2>4. QED
    BY <2>1, <2>2, <2>3
<1>5. QED
  BY <1>3, <1>4 DEF new

\* FellBack survives a success.
LEMMA StillFellBack ==
    ASSUME RuntimesTypes, FellBack, NEW e \in Names,
           Class(e).modeKey \in DOMAIN Updated(result, Config)
    PROVE  \E h \in reported \cup {Trying.name} :
             /\ Class(h).modeKey = Class(e).modeKey
             /\ \E j \in 2 .. Len(Class(h).modes) :
                  Updated(result, Config)[Class(e).modeKey] = Class(h).modes[j]
<1> DEFINE new == Updated(result, Config)
<1> HIDE DEF new
<1>1. /\ DOMAIN new = DOMAIN result \cup DOMAIN Config
      /\ \A k \in DOMAIN Config : new[k] = Config[k]
      /\ \A k \in DOMAIN result \ DOMAIN Config : new[k] = result[k]
  BY UpdatedIs DEF new
<1>2. Class(Trying.name) = Trying /\ Trying \in ExecutorClasses /\ Trying.name \in Names
      /\ mode \in 1 .. Len(Trying.modes)
  BY AttemptIs
<1>3. Class(e).modeKey \notin Trying.needs
  BY <1>2, ClassOf
<1>4. CASE Class(e).modeKey \in DOMAIN Config
  <2>1. Class(e).modeKey = Trying.modeKey /\ mode # 1
    BY <1>3, <1>4, ConfigIs
  <2>2. new[Class(e).modeKey] = Trying.modes[mode]
    BY <1>1, <1>4, <2>1, ConfigIs
  <2>3. mode \in 2 .. Len(Trying.modes)
    BY <1>2, <2>1 DEF ExecutorClasses
  <2>4. QED
    BY <1>2, <2>1, <2>2, <2>3 DEF new
<1>5. CASE Class(e).modeKey \notin DOMAIN Config
  <2>1. Class(e).modeKey \in DOMAIN result /\ new[Class(e).modeKey] = result[Class(e).modeKey]
    BY <1>1, <1>5 DEF new
  <2>2. QED
    BY <2>1 DEF FellBack, new
<1>6. QED
  BY <1>4, <1>5

\* After the last executor, every name has been tried.
LEMMA AllNames ==
    ASSUME NEW j0 \in DOMAIN Classes, j0 = Len(Classes)
    PROVE  \A e \in Names : \E j \in 1 .. Len(Classes) : e = Classes[j].name
BY ClassesAssumption DEF Names

\* Nothing was reported: the dictionary and its readers are as they were.
LEMMA SameDictionary ==
    ASSUME Leads, FellBack, UNCHANGED <<result, reported>>, machine'.works = machine.works
    PROVE  Leads' /\ FellBack'
<1>1. \A e : Replaced(e)' = Replaced(e)
  BY DEF Replaced
<1>2. \A e : Mode(e, result)' = Mode(e, result)
  BY DEF Mode
<1>3. Leads'
  BY <1>1, <1>2 DEF Leads
<1>4. FellBack'
  BY DEF FellBack
<1>5. QED
  BY <1>3, <1>4

\* Dmoj-autoconf, one self-test.
LEMMA AutoconfigKeeps ==
    ASSUME RuntimesInv, Autoconfig
    PROVE  RuntimesInv'
<1>1. /\ RuntimesTypes /\ Leads /\ FellBack /\ Tried /\ phase = "autoconfig"
      /\ UNCHANGED <<machine, lost, runtime, own, selected, skipSelfTest, executors>>
  BY DEF RuntimesInv, Autoconfig
<1>2. /\ Classes \in Seq(ExecutorClasses) /\ DOMAIN Classes = 1 .. Len(Classes)
      /\ Len(Classes) \in Nat \ {0} /\ next \in 1 .. Len(Classes) /\ Trying = Classes[next]
      /\ Trying.name \in Names /\ executors = {}
  BY <1>1, AttemptIs, ClassesAssumption DEF RuntimesTypes, RuntimesTypeOK, Trying
<1>3. MachineTypes'
  BY <1>1 DEF RuntimesTypes, MachineTypes
<1>4. ASSUME NextClass("start"), reported \subseteq reported', reported' \subseteq Names,
             \A e \in Names : e = Trying.name => Found(e)',
             \A e \in reported' : e \in reported \/ e = Trying.name, Leads', FellBack'
      PROVE  RuntimesInv'
  <2>1. /\ next' \in DOMAIN Classes
        /\ candidate' = Trying'.first /\ candidate' \in Trying'.first .. Trying'.last
        /\ mode' = 1 /\ mode' \in DOMAIN Trying'.modes
        /\ \/ phase' = phase /\ next' = next + 1
           \/ phase' = "start" /\ next = Len(Classes) /\ next' = 1
    BY <1>1, <1>4, ClassesGoOn
  <2>2. RuntimesTypes'
    <3>1. phase' \in {"autoconfig", "start"} /\ (phase' = "start" => next' = 1)
      BY <1>1, <2>1
    <3>2. RuntimesTypeOK'
      BY <1>1, <1>4, <2>1, <3>1 DEF RuntimesTypes, RuntimesTypeOK
    <3>3. QED
      BY <1>1, <1>2, <1>3, <3>1, <3>2 DEF RuntimesTypes
  <2>3. \A j \in 1 .. next : Found(Classes[j].name)'
    <3> SUFFICES ASSUME NEW j \in 1 .. next PROVE Found(Classes[j].name)'
      OBVIOUS
    <3>1. CASE j = next
      BY <1>2, <1>4, <3>1
    <3>2. CASE j # next
      <4>1. j \in 1 .. next - 1
        BY <1>2, <3>2
      <4>2. Found(Classes[j].name)
        BY <1>1, <4>1 DEF Tried
      <4>3. QED
        BY <1>1, <1>4, <4>2 DEF Found
    <3>3. QED
      BY <3>1, <3>2
  <2>4. CASE phase' = phase /\ next' = next + 1
    <3>1. 1 .. next' - 1 = 1 .. next
      BY <1>2, <2>4
    <3>2. \A j \in 1 .. next' - 1 : Found(Classes[j].name)'
      BY <2>3, <3>1
    <3>3. next \in 1 .. next' - 1 /\ \A j \in 1 .. next - 1 : j \in 1 .. next' - 1
      BY <1>2, <2>4
    <3>4. \A e \in reported' : \E j \in 1 .. next' - 1 : e = Classes[j].name
      <4> SUFFICES ASSUME NEW e \in reported'
                   PROVE  \E j \in 1 .. next' - 1 : e = Classes[j].name
        OBVIOUS
      <4>1. CASE e \in reported
        BY <1>1, <3>3, <4>1 DEF Tried
      <4>2. CASE e = Trying.name
        BY <1>2, <3>3, <4>2
      <4>3. QED
        BY <1>4, <4>1, <4>2
    <3>5. \A c \in Trying'.first .. Trying'.last, j \in DOMAIN Trying'.modes :
            ~(c < candidate' \/ (c = candidate' /\ j < mode'))
      <4>1. Trying' \in ExecutorClasses
        <5>1. \A j \in DOMAIN Classes : Classes[j] \in ExecutorClasses
          BY <1>2
        <5>2. QED
          BY <2>1, <5>1 DEF Trying
      <4>2. Trying'.first \in Nat /\ Trying'.last \in Nat /\ DOMAIN Trying'.modes = 1 .. Len(Trying'.modes)
            /\ Len(Trying'.modes) \in Nat
        BY <4>1 DEF ExecutorClasses
      <4>3. QED
        BY <2>1, <4>2
    <3>6. Tried'
      BY <3>2, <3>4, <3>5 DEF Tried
    <3>7. QED
      BY <1>1, <1>4, <2>2, <2>4, <3>6 DEF RuntimesInv
  <2>5. CASE phase' = "start" /\ next = Len(Classes) /\ next' = 1
    <3>2. \A e \in Names : Found(e)'
      <4>1. \A e \in Names : \E j \in 1 .. Len(Classes) : e = Classes[j].name
        BY <1>2, <2>5, AllNames
      <4>2. \A j \in 1 .. Len(Classes) : Found(Classes[j].name)'
        BY <2>3, <2>5
      <4>3. QED
        BY <4>1, <4>2
    <3>3. QED
      BY <1>4, <2>2, <2>5, <3>2 DEF RuntimesInv
  <2>6. QED
    BY <2>1, <2>4, <2>5
<1>5. CASE Works(Trying.name, Attempt) /\ result' = Updated(result, Config)
           /\ reported' = reported \cup {Trying.name} /\ NextClass("start")
  <2>1. Leads'
    <3> SUFFICES ASSUME NEW e \in reported', ~Replaced(e)'
                 PROVE  \E c \in Class(e).first .. Class(e).last :
                          /\ \A k \in Class(e).needs : k \in DOMAIN result' /\ result'[k] = c
                          /\ <<c, Mode(e, result')>> \in machine'.works[e]
      BY DEF Leads
    <3>1. CASE e = Trying.name
      <4>1. Class(e) = Trying /\ candidate \in Trying.first .. Trying.last
        BY <1>1, <3>1, AttemptIs
      <4>2. /\ \A k \in Trying.needs : k \in DOMAIN result' /\ result'[k] = candidate
            /\ <<candidate, Mode(e, result')>> \in machine'.works[e]
        BY <1>1, <1>5, <3>1, WinnerIsLed
      <4>3. QED
        BY <4>1, <4>2
    <3>2. CASE e \in reported /\ e # Trying.name
      <4>1. ~Replaced(e)
        BY <1>5 DEF Replaced
      <4>2. PICK j \in 1 .. next - 1 : e = Classes[j].name
        BY <1>1, <3>2 DEF Tried
      <4>3. j \in DOMAIN Classes /\ j < next /\ next \in DOMAIN Classes
        BY <1>2, <4>2
      <4>4. Class(e) = Classes[j]
        BY <4>2, <4>3, ClassOf
      <4>5. Class(e).needs \cap Trying.needs # {} => Class(e).first = Trying.first
        BY <1>2, <1>5, <4>2, <4>3, <4>4 DEF Replaced
      <4>6. QED
        BY <1>1, <1>5, <3>2, <4>1, <4>5, OthersStillLed
    <3>3. QED
      BY <1>5, <3>1, <3>2
  <2>2. FellBack'
    BY <1>1, <1>5, StillFellBack DEF FellBack
  <2>3. \A e \in Names : e = Trying.name => Found(e)'
    BY <1>5 DEF Found
  <2>4. reported' \subseteq Names
    BY <1>1, <1>2, <1>5 DEF RuntimesTypes, RuntimesTypeOK
  <2>5. QED
    BY <1>4, <1>5, <2>1, <2>2, <2>3, <2>4
<1>6. CASE ~Works(Trying.name, Attempt) /\ ~OutOfWays /\ NextWay
           /\ UNCHANGED <<phase, next, result, reported>>
  <2>1. /\ candidate' \in Trying.first .. Trying.last /\ mode' \in DOMAIN Trying.modes
        /\ \A c \in Trying.first .. Trying.last, j \in DOMAIN Trying.modes :
             c < candidate' \/ (c = candidate' /\ j < mode') =>
                 c < candidate \/ (c = candidate /\ j < mode) \/ (c = candidate /\ j = mode)
    BY <1>1, <1>6, WaysGoOn
  <2>2. Trying' = Trying
    BY <1>6 DEF Trying
  <2>3. RuntimesTypes'
    BY <1>1, <1>3, <1>6, <2>1, <2>2 DEF RuntimesTypes, RuntimesTypeOK
  <2>4. Leads' /\ FellBack'
    BY <1>1, <1>6, SameDictionary
  <2>5. ~RunsBy(Trying.name, candidate, Trying.modes[mode])
    BY <1>1, <1>6, AttemptIs
  <2>6. \A c \in Trying.first .. Trying.last, j \in DOMAIN Trying.modes :
          c < candidate' \/ (c = candidate' /\ j < mode') => ~RunsBy(Trying.name, c, Trying.modes[j])
    <3> SUFFICES ASSUME NEW c \in Trying.first .. Trying.last, NEW j \in DOMAIN Trying.modes,
                        c < candidate' \/ (c = candidate' /\ j < mode')
                 PROVE  ~RunsBy(Trying.name, c, Trying.modes[j])
      OBVIOUS
    <3>1. CASE c = candidate /\ j = mode
      BY <2>5, <3>1
    <3>2. CASE c < candidate \/ (c = candidate /\ j < mode)
      BY <1>1, <3>2 DEF Tried
    <3>3. QED
      BY <2>1, <3>1, <3>2
  <2>7. Tried'
    BY <1>1, <1>6, <2>2, <2>6 DEF Tried, Found, RunsBy
  <2>8. QED
    BY <1>1, <1>6, <2>3, <2>4, <2>7 DEF RuntimesInv
<1>7. CASE ~Works(Trying.name, Attempt) /\ OutOfWays /\ NextClass("start")
           /\ UNCHANGED <<result, reported>>
  <2>1. Leads' /\ FellBack'
    BY <1>1, <1>7, SameDictionary
  <2>2. \A e \in Names : e = Trying.name => Found(e)'
    BY <1>1, <1>7, AllTried DEF Found
  <2>3. reported' \subseteq Names
    BY <1>1, <1>7 DEF RuntimesTypes, RuntimesTypeOK
  <2>4. QED
    BY <1>4, <1>7, <2>1, <2>2, <2>3
<1>8. QED
  BY <1>5, <1>6, <1>7 DEF Autoconfig

\* A judge reads the dictionary it was given.
LEMMA LoadEnvKeeps ==
    ASSUME RuntimesInv, LoadEnv
    PROVE  RuntimesInv'
<1>1. /\ RuntimesTypes /\ Leads /\ FellBack
      /\ phase = "start" /\ phase' = "load" /\ next = 1 /\ executors = {}
      /\ ~own' => runtime' = result
      /\ selected' \in Selections
      /\ UNCHANGED <<machine, lost, next, candidate, mode, result, reported, executors>>
  BY DEF RuntimesInv, RuntimesTypes, LoadEnv
<1>2. Trying' = Trying
  BY <1>1 DEF Trying
<1>3. RuntimesTypes'
  BY <1>1, <1>2 DEF RuntimesTypes, RuntimesTypeOK, MachineTypes
<1>4. Leads' /\ FellBack'
  BY <1>1, SameDictionary
<1>5. \A j \in 1 .. next' - 1 : FALSE
  BY <1>1
<1>6. QED
  BY <1>1, <1>3, <1>4, <1>5 DEF RuntimesInv

\* A file goes between the two programs.
LEMMA UninstallKeeps ==
    ASSUME RuntimesInv, Uninstall
    PROVE  RuntimesInv'
<1>1. /\ RuntimesTypes /\ Leads /\ FellBack /\ phase = "start"
      /\ \A e \in Names : Found(e)
      /\ UNCHANGED <<phase, next, candidate, mode, result, reported, runtime, own, selected,
                     skipSelfTest, executors>>
  BY DEF RuntimesInv, Uninstall
<1>2. PICK f \in machine.files : machine' = [machine EXCEPT !.files = @ \ {f}]
  BY DEF Uninstall
<1>3. machine = [works |-> machine.works, files |-> machine.files]
  BY <1>1 DEF RuntimesTypes, MachineTypes
<1>4. machine' = [works |-> machine.works, files |-> machine.files \ {f}]
  BY <1>2, <1>3
<1>5. machine'.works = machine.works /\ machine'.files \subseteq machine.files
  BY <1>4
<1>6. MachineTypes'
  BY <1>1, <1>4, <1>5 DEF RuntimesTypes, MachineTypes
<1>7. Trying' = Trying
  BY <1>1 DEF Trying
<1>8. RuntimesTypes'
  BY <1>1, <1>5, <1>6, <1>7 DEF RuntimesTypes, RuntimesTypeOK
<1>9. Leads' /\ FellBack'
  BY <1>1, <1>5, SameDictionary
<1>10. \A e \in Names : Found(e)'
  BY <1>1, <1>5 DEF Found
<1>11. QED
  BY <1>1, <1>8, <1>9, <1>10 DEF RuntimesInv

\* The judge takes an executor or leaves it.
LEMMA InitializeKeeps ==
    ASSUME RuntimesInv, Initialize
    PROVE  RuntimesInv'
<1>1. /\ RuntimesTypes /\ Leads /\ FellBack /\ phase = "load" /\ NextClass("serving")
      /\ ~own => runtime = result
      /\ ~own => \A j \in 1 .. next - 1 : Served(Classes[j].name)
      /\ UNCHANGED <<machine, lost, result, reported, runtime, own, selected, skipSelfTest>>
  BY DEF RuntimesInv, Initialize
<1>2. /\ executors' = executors \/ (executors' = executors \cup {Trying.name} /\ Trying.name \in selected)
      /\ Trying.name \in selected /\ Works(Trying.name, runtime) => Trying.name \in executors'
  BY DEF Initialize, Works
<1>3. /\ Classes \in Seq(ExecutorClasses) /\ DOMAIN Classes = 1 .. Len(Classes)
      /\ Len(Classes) \in Nat \ {0} /\ next \in 1 .. Len(Classes) /\ Trying = Classes[next]
      /\ Trying.name \in Names
  BY <1>1, AttemptIs, ClassesAssumption DEF RuntimesTypes, RuntimesTypeOK, Trying
<1>4. /\ next' \in DOMAIN Classes
      /\ candidate' = Trying'.first /\ candidate' \in Trying'.first .. Trying'.last
      /\ mode' = 1 /\ mode' \in DOMAIN Trying'.modes
      /\ \/ phase' = phase /\ next' = next + 1
         \/ phase' = "serving" /\ next = Len(Classes) /\ next' = 1
  BY <1>1, ClassesGoOn
<1>5. RuntimesTypes'
  BY <1>1, <1>2, <1>4 DEF RuntimesTypes, RuntimesTypeOK, MachineTypes
<1>6. Leads' /\ FellBack'
  BY <1>1, SameDictionary
<1>7. ASSUME ~own, NEW e \in Names, e = Trying.name PROVE Served(e)'
  <2> SUFFICES ASSUME e \in reported, e \in selected, Installed(e, runtime), ~Replaced(e)
               PROVE  e \in executors'
    BY <1>1 DEF Served, Installed, Replaced
  <2>1. Works(e, runtime)
    BY <1>1, <1>7, LeadsToWorks
  <2>2. QED
    BY <1>2, <1>7, <2>1
<1>8. ASSUME ~own PROVE \A j \in 1 .. next : Served(Classes[j].name)'
  <2> SUFFICES ASSUME NEW j \in 1 .. next PROVE Served(Classes[j].name)'
    OBVIOUS
  <2>1. CASE j = next
    BY <1>3, <1>7, <1>8, <2>1
  <2>2. CASE j # next
    <3>1. j \in 1 .. next - 1
      BY <1>3, <2>2
    <3>2. Served(Classes[j].name)
      BY <1>1, <1>8, <3>1
    <3>3. QED
      BY <1>1, <1>2, <3>2 DEF Served, Installed, Replaced
  <2>3. QED
    BY <2>1, <2>2
<1>9. CASE phase' = phase /\ next' = next + 1
  <2>1. 1 .. next' - 1 = 1 .. next
    BY <1>3, <1>9
  <2>2. ~own' => \A j \in 1 .. next' - 1 : Served(Classes[j].name)'
    BY <1>1, <1>8, <2>1
  <2>3. QED
    BY <1>1, <1>5, <1>6, <1>9, <2>2 DEF RuntimesInv
<1>10. CASE phase' = "serving" /\ next = Len(Classes) /\ next' = 1
  <2>1. ~own' => \A e \in Names : Served(e)'
    <3> SUFFICES ASSUME ~own, NEW e \in Names PROVE Served(e)'
      BY <1>1
    <3>1. PICK j \in 1 .. Len(Classes) : e = Classes[j].name
      BY <1>3, <1>10, AllNames
    <3>2. QED
      BY <1>8, <1>10, <3>1
  <2>2. QED
    BY <1>1, <1>5, <1>6, <1>10, <2>1 DEF RuntimesInv
<1>11. QED
  BY <1>4, <1>9, <1>10

LEMMA RuntimesInvInductive ==
    ASSUME RuntimesInv, [RuntimesNext]_runtimeVars
    PROVE  RuntimesInv'
<1>1. CASE UNCHANGED runtimeVars
  <2>1. UNCHANGED <<machine, lost, phase, next, candidate, mode, result, reported, runtime, own,
                    selected, skipSelfTest, executors>>
    BY <1>1 DEF runtimeVars
  <2>2. RuntimesTypes'
    BY <2>1 DEF RuntimesInv, RuntimesTypes, RuntimesTypeOK, MachineTypes, Trying
  <2>3. Leads' /\ FellBack'
    BY <2>1, SameDictionary DEF RuntimesInv
  <2>4. phase' = "autoconfig" => Tried'
    BY <2>1 DEF RuntimesInv, Tried, Trying, Found, RunsBy
  <2>5. phase' = "start" => \A e \in Names : Found(e)'
    BY <2>1 DEF RuntimesInv, Found
  <2>6. /\ phase' = "load" /\ ~own' => \A j \in 1 .. next' - 1 : Served(Classes[j].name)'
        /\ phase' = "serving" /\ ~own' => \A e \in Names : Served(e)'
    BY <2>1 DEF RuntimesInv, Served, Installed, Replaced
  <2>7. QED
    BY <2>1, <2>2, <2>3, <2>4, <2>5, <2>6 DEF RuntimesInv
<1>2. QED
  BY <1>1, AutoconfigKeeps, LoadEnvKeeps, UninstallKeeps, InitializeKeeps DEF RuntimesNext

LEMMA RuntimesInvInit ==
    ASSUME RuntimesInit
    PROVE  RuntimesInv
<1>1. /\ machine \in Machines /\ phase = "autoconfig" /\ next = 1 /\ candidate = Classes[1].first /\ mode = 1
      /\ result = Empty /\ reported = {} /\ own = FALSE /\ selected = {} /\ executors = {}
  BY DEF RuntimesInit
<1>2. 1 \in DOMAIN Classes /\ Classes[1] \in ExecutorClasses /\ Classes[1].first <= Classes[1].last
  BY ClassesAssumption
<1>3. Trying = Classes[1] /\ candidate \in Trying.first .. Trying.last /\ 1 \in DOMAIN Trying.modes
  BY <1>1, <1>2 DEF Trying, ExecutorClasses
<1>8. candidate = Trying.first
  BY <1>1 DEF Trying
<1>4. RuntimesTypes
  BY <1>1, <1>2, <1>3, ClassesAssumption DEF RuntimesTypes, RuntimesTypeOK, MachineTypes
<1>5. Leads /\ FellBack
  BY <1>1 DEF Leads, FellBack, Empty
<1>6. Tried
  <2>1. Trying \in ExecutorClasses
    BY <1>2, <1>3
  <2>2. DOMAIN Trying.modes = 1 .. Len(Trying.modes) /\ Len(Trying.modes) \in Nat
        /\ Trying.first \in Nat /\ Trying.last \in Nat
    BY <2>1 DEF ExecutorClasses
  <2>4. \A c \in Trying.first .. Trying.last, j \in DOMAIN Trying.modes :
          ~(c < candidate \/ (c = candidate /\ j < mode))
    BY <1>1, <1>8, <2>2
  <2>5. \A e \in reported : FALSE
    BY <1>1
  <2>6. \A j \in 1 .. next - 1 : FALSE
    BY <1>1
  <2>3. QED
    BY <2>4, <2>5, <2>6 DEF Tried
<1>7. QED
  BY <1>1, <1>4, <1>5, <1>6 DEF RuntimesInv

\* Dmoj-autoconf and the judge that reads what it printed agree, in whatever
\* order the executors are tried, whatever the machine can run and whichever
\* file goes in between: what works is reported, and what was reported and is
\* still installed is served and works, if no executor that was reported later
\* put another program under a key they share (autoconfig.py, judgeenv.py,
\* load.py).
THEOREM ConfigAlwaysSound == MCJudgeSpec => []ConfigSound
<1> DEFINE Part == part = "runtimes" => RuntimesInv
<1>1. MCJudgeInit => Part
  BY RuntimesInvInit DEF MCJudgeInit
<1>2. Part /\ [MCJudgeNext]_<<part, rulesVars, caseVars, runtimeVars, testVars>> => Part'
  <2> SUFFICES ASSUME part = "runtimes" => RuntimesInv,
                      [MCJudgeNext]_<<part, rulesVars, caseVars, runtimeVars, testVars>>,
                      part' = "runtimes"
               PROVE  RuntimesInv'
    OBVIOUS
  <2>1. part = "runtimes" /\ [RuntimesNext]_runtimeVars
    BY DEF MCJudgeNext
  <2>2. QED
    BY <2>1, RuntimesInvInductive
<1>3. Part => ConfigSound
  <2> SUFFICES ASSUME RuntimesInv PROVE RuntimesSound
    BY DEF ConfigSound
  <2>1. RuntimesTypes /\ RuntimesTypeOK /\ Leads
    BY DEF RuntimesInv, RuntimesTypes
  <2>2. ConfiguredServes
    <3> SUFFICES ASSUME phase = "serving", ~own, NEW e \in reported \cap selected,
                        Installed(e, runtime), ~Replaced(e)
                 PROVE  e \in executors /\ Works(e, runtime)
      BY DEF ConfiguredServes
    <3>1. runtime = result /\ e \in Names
      BY <2>1 DEF RuntimesInv, RuntimesTypeOK
    <3>2. e \in executors
      BY <3>1 DEF RuntimesInv, Served
    <3>3. QED
      BY <2>1, <3>1, <3>2, LeadsToWorks
  <2>3. NothingMissed
    BY DEF RuntimesInv, NothingMissed, Found
  <2>4. QED
    BY <2>1, <2>2, <2>3 DEF RuntimesSound
<1>4. QED
  BY <1>1, <1>2, <1>3, PTL DEF MCJudgeSpec

-------------------------------------------------------------------------------
(* The data of the cases *)

\* Files in memory, runs of generators, and answers.
Contents == {<<"empty">>} \cup ({"directory", "archive"} \X Entries) \cup ({"run"} \X Nat)
Answers == Contents \cup {<<"none">>}
MemoryFiles == [case : 1 .. Cases, content : Contents, sealed : BOOLEAN, open : BOOLEAN]
Runs == [case : 1 .. Cases, at : {"input", "answer"}, stdin : Answers, ok : BOOLEAN, file : Nat]

CaseTypes ==
    /\ CaseTypeOK
    /\ at # "done" => case \in 1 .. Cases
    /\ opened \in Seq(MemoryFiles) /\ runs \in Seq(Runs)
    /\ answer \in Answers
    /\ used \in Seq([io : Nat, answer : Answers]) /\ Len(used) = case - 1

\* Only code is replaced, and by what it returned.
RawFollows ==
    \A n \in Nodes, k \in DataKeys :
        raw[n][k] = written[n][k] \/ (written[n][k] = "dynamic" /\ raw[n][k] \in Values)

\* No code is left where a lookup of case c ends.
Known(c, k) == Meaning(c, k) # "dynamic"
InputKnown(c) ==
    /\ Known(c, "generator") /\ Known(c, "in")
    /\ Says(c, "generator") => Known(c, "out")

\* What case c says of its input and its answer.
Made(c) == Says(c, "generator") /\ ~(Says(c, "out") /\ Says(c, "in"))
Stdin(c) ==
    IF Says(c, "in") /\ Stored(Meaning(c, "in")) THEN Content(Meaning(c, "in")) ELSE <<"none">>
FileRead(c) == IF Says(c, "in") THEN Content(Meaning(c, "in")) ELSE <<"empty">>
Correct(c) == Content(Meaning(c, "out"))

\* A case has one run, whose standard input stays what its case says.
RunIs(n) ==
    /\ runs[n].at = "input" /\ runs[n].case <= case
    /\ runs[n].case = case => generated = n
    /\ \A c \in 1 .. Cases : runs[n].case = c => Known(c, "in") /\ runs[n].stdin = Stdin(c)
    /\ runs[n].file \in DOMAIN opened /\ opened[runs[n].file].content = <<"run", n>>
    /\ opened[runs[n].file].case = runs[n].case

\* The current run is of the current case, which wanted it, and did not fail.
CurrentRun ==
    generated # None =>
        /\ runs[generated].case = case
        /\ \A c \in 1 .. Cases : case = c => InputKnown(c) /\ Made(c)
        /\ at # "dead" => runs[generated].ok

\* The files of this case are open, and are one file; those of earlier cases
\* are closed.
FileIs(f) ==
    /\ opened[f].sealed /\ opened[f].case <= case
    /\ at # "dead" =>
         /\ opened[f].case < case => ~opened[f].open
         /\ opened[f].case = case =>
              /\ opened[f].open
              /\ IF at = "input" THEN generated # None /\ f = runs[generated].file ELSE f = io

\* Once it is made, the input is what the case says.
InputIs(c) ==
    /\ io # None /\ opened[io].case = c /\ InputKnown(c)
    /\ Made(c) => generated # None /\ opened[io].content = <<"run", generated>>
    /\ ~Made(c) => generated = None /\ opened[io].content = FileRead(c)

\* An answer is from the file that the case says, if it says one.
AnswerOf(c, a) ==
    a # <<"none">> =>
        /\ Known(c, "out")
        /\ IF Says(c, "out") THEN a = Correct(c) ELSE a[1] \in {"run", "empty"}

\* The answer that a checker gets.
AnswerIs(c) ==
    /\ Known(c, "out")
    /\ Says(c, "out") => answer = Correct(c)
    /\ ~Says(c, "out") =>
         answer = IF Says(c, "generator") THEN <<"run", generated>> ELSE <<"empty">>

CaseInv ==
    /\ CaseTypes /\ RawFollows /\ CurrentRun
    /\ \A n \in DOMAIN runs : RunIs(n)
    /\ \A n, m \in DOMAIN runs : runs[m].case = runs[n].case => m = n
    /\ \A f \in DOMAIN opened : FileIs(f)
    /\ at \in {"process", "answer", "judge", "free"} => \A c \in 1 .. Cases : case = c => InputIs(c)
    /\ \A c \in 1 .. Cases : case = c => AnswerOf(c, answer)
    /\ \A c \in DOMAIN used : AnswerOf(c, used[c].answer)
    /\ at = "judge" => \A c \in 1 .. Cases : case = c => AnswerIs(c)

LEMMA Smallest ==
    ASSUME NEW N \in SUBSET Nat, N # {}
    PROVE  \E n \in N : \A m \in N : n <= m
<1>1. PICK n \in N : \A m \in N : ~(<<m, n>> \in OpToRel(<, Nat))
  BY NatLessThanWellFounded, WFMin, Zenon
<1>2. \A m \in N : ~(m < n)
  BY <1>1 DEF OpToRel
<1>3. QED
  BY <1>2

LEMMA NodesAre ==
    /\ Batch \in Nodes /\ Problem \in Nodes /\ Nodes \subseteq Nat
    /\ 1 .. Cases \subseteq Nodes /\ 1 .. Cases + 1 \subseteq Nodes
    /\ "absent" \notin Values /\ "dynamic" \notin Values
    /\ DataKeys = {"in", "out", "generator"}
<1>1. Cases \in Nat /\ DataFiles \cap {"null", "gen", "absent", "dynamic"} = {}
  BY CaseDataAssumption
<1>2. QED
  BY <1>1 DEF Nodes, Batch, Problem, Values, DataKeys

\* A lookup ends at a node, and where it ends depends on what is absent only.
LEMMA OwnerIs ==
    ASSUME NEW config, NEW c \in Nodes, NEW k
    PROVE  /\ Owner(config, c, k) \in Nodes
           /\ \A other : (\A n \in Nodes : other[n][k] = "absent" <=> config[n][k] = "absent")
                         => Owner(other, c, k) = Owner(config, c, k)
<1> DEFINE Told(conf) == {n \in {c, Batch, Problem} : conf[n][k] # "absent"}
           First(S) == IF S = {} THEN Problem ELSE CHOOSE n \in S : \A m \in S : n <= m
<1>1. \A conf : Owner(conf, c, k) = First(Told(conf))
  BY DEF Owner
<1>2. Told(config) \subseteq Nodes
  BY NodesAre
<1>3. Told(config) # {} => \E n \in Told(config) : \A m \in Told(config) : n <= m
  <2>1. Told(config) \in SUBSET Nat
    BY <1>2, NodesAre
  <2> HIDE DEF Told
  <2>2. QED
    BY <2>1, Smallest
<1>4. ASSUME NEW other, \A n \in Nodes : other[n][k] = "absent" <=> config[n][k] = "absent"
      PROVE  Told(other) = Told(config)
  BY <1>4, NodesAre
<1> HIDE DEF Told
<1>5. First(Told(config)) \in Nodes
  BY <1>2, <1>3, NodesAre
<1> HIDE DEF First
<1>6. QED
  BY <1>1, <1>4, <1>5

\* What a lookup finds is what init.yml means.
LEMMA MeaningIs ==
    ASSUME CaseTypes, RawFollows, NEW c \in Nodes, NEW k \in DataKeys
    PROVE  /\ Owner(raw, c, k) = Owner(written, c, k) /\ Owner(written, c, k) \in Nodes
           /\ Meaning(c, k) = raw[Owner(raw, c, k)][k]
<1>1. \A n \in Nodes : raw[n][k] = "absent" <=> written[n][k] = "absent"
  BY NodesAre DEF RawFollows
<1>2. Owner(raw, c, k) = Owner(written, c, k) /\ Owner(written, c, k) \in Nodes
  BY <1>1, OwnerIs
<1>3. QED
  BY <1>2 DEF Meaning, RawFollows

LEMMA EntryIs ==
    ASSUME CaseTypes, RawFollows, at # "done"
    PROVE  /\ case \in 1 .. Cases
           /\ \A k \in DataKeys : Entry(k) = Meaning(case, k) /\ (Given(k) <=> Says(case, k))
           /\ Generates <=> Made(case)
           /\ Input = Stdin(case)
<1>1. case \in 1 .. Cases /\ case \in Nodes
  BY NodesAre DEF CaseTypes
<1>2. \A k \in DataKeys : Entry(k) = Meaning(case, k) /\ (Given(k) <=> Says(case, k))
  BY <1>1, MeaningIs DEF Entry, Given, Says
<1>3. QED
  BY <1>1, <1>2, NodesAre DEF Generates, Made, Input, Stdin

\* What input_data_io and output_data look up.
LEMMA LookupsAre ==
    /\ \A j \in DOMAIN Lookups : Lookups[j] \in DataKeys
    /\ DOMAIN Lookups \subseteq Nat
    /\ at = "input" =>
         /\ \E j \in DOMAIN Lookups : Lookups[j] = "generator"
         /\ \E j \in DOMAIN Lookups : Lookups[j] = "in"
         /\ Given("generator") => \E j \in DOMAIN Lookups : Lookups[j] = "out"
    /\ at = "answer" => \E j \in DOMAIN Lookups : Lookups[j] = "out"
    /\ at \notin {"input", "answer"} => DOMAIN Lookups = {}
<1>1. CASE at = "input"
  <2>1. CASE Given("generator")
    <3>1. Lookups = <<"generator", "out", "in">>
      BY <1>1, <2>1 DEF Lookups
    <3>2. QED
      BY <1>1, <3>1, NodesAre
  <2>2. CASE ~Given("generator")
    <3>1. Lookups = <<"generator", "in">>
      BY <1>1, <2>2 DEF Lookups
    <3>2. QED
      BY <1>1, <2>2, <3>1, NodesAre
  <2>3. QED
    BY <2>1, <2>2
<1>2. CASE at = "answer"
  <2>1. \/ Lookups = <<"out">> \/ Lookups = <<"out", "generator">>
        \/ Lookups = <<"out", "generator", "in">>
    BY <1>2 DEF Lookups
  <2>2. QED
    BY <1>2, <2>1, NodesAre
<1>3. CASE at \notin {"input", "answer"}
  BY <1>3 DEF Lookups
<1>4. QED
  BY <1>1, <1>2, <1>3

\* What is settled is known.
LEMMA SettledKnows ==
    ASSUME CaseTypes, RawFollows, Settled
    PROVE  /\ at = "input" => InputKnown(case)
           /\ at = "answer" => Known(case, "out")
<1>1. \A j \in DOMAIN Lookups : Entry(Lookups[j]) # "dynamic"
  BY DEF Settled, Dynamic
<1>2. CASE at = "input"
  <2>1. /\ \A k \in DataKeys : Entry(k) = Meaning(case, k) /\ (Given(k) <=> Says(case, k))
        /\ {"generator", "in", "out"} \subseteq DataKeys
    BY <1>2, EntryIs, NodesAre
  <2>2. /\ Entry("generator") # "dynamic" /\ Entry("in") # "dynamic"
        /\ Given("generator") => Entry("out") # "dynamic"
    BY <1>1, <1>2, LookupsAre
  <2>3. QED
    BY <1>2, <2>1, <2>2 DEF InputKnown, Known
<1>3. CASE at = "answer"
  <2>1. Entry("out") = Meaning(case, "out")
    BY <1>3, EntryIs, NodesAre
  <2>2. QED
    BY <1>1, <1>3, <2>1, LookupsAre DEF Known
<1>4. QED
  BY <1>2, <1>3

\* Meanings of case c that are known stay.
Stays(c) ==
    /\ \A k \in DataKeys : Known(c, k) => Known(c, k)' /\ (Says(c, k)' <=> Says(c, k))
    /\ Known(c, "in") => Stdin(c)' = Stdin(c) /\ FileRead(c)' = FileRead(c)
    /\ Known(c, "out") => Correct(c)' = Correct(c)
    /\ InputKnown(c) => InputKnown(c)' /\ (Made(c)' <=> Made(c))

LEMMA KnownStays ==
    ASSUME UNCHANGED <<written, store>>, NEW c,
           \A k \in DataKeys : Known(c, k) => Meaning(c, k)' = Meaning(c, k)
    PROVE  Stays(c)
<1>1. \A k \in DataKeys : Known(c, k) => Known(c, k)' /\ (Says(c, k)' <=> Says(c, k))
  BY DEF Known, Says
<1>2. \A f : (Stored(f)' <=> Stored(f)) /\ Content(f)' = Content(f)
  BY DEF Stored, Content
<1>3. ASSUME NEW k \in DataKeys, Known(c, k)
      PROVE  /\ Stored(Meaning(c, k))' <=> Stored(Meaning(c, k))
             /\ Content(Meaning(c, k))' = Content(Meaning(c, k))
  BY <1>3 DEF Stored, Content
<1>4. Known(c, "in") => Stdin(c)' = Stdin(c) /\ FileRead(c)' = FileRead(c)
  BY <1>1, <1>3, NodesAre DEF Stdin, FileRead
<1>5. Known(c, "out") => Correct(c)' = Correct(c)
  BY <1>3, NodesAre DEF Correct
<1>6. InputKnown(c) => InputKnown(c)' /\ (Made(c)' <=> Made(c))
  BY <1>1, NodesAre DEF InputKnown, Made
<1>7. QED
  BY <1>1, <1>4, <1>5, <1>6 DEF Stays

\* Where no code is run, all stays.
LEMMA AllStays ==
    ASSUME UNCHANGED <<written, raw, store>>
    PROVE  \A c : Stays(c) /\ \A k : Meaning(c, k)' = Meaning(c, k)
<1>1. \A c, k : Meaning(c, k)' = Meaning(c, k)
  BY DEF Meaning, Owner
<1>2. QED
  BY <1>1, KnownStays

\* Code that is run is replaced by what it returned.
LEMMA EvaluateReplaces ==
    ASSUME CaseTypes, RawFollows, Evaluate
    PROVE  /\ RawFollows' /\ raw' \in [Nodes -> [DataKeys -> Entries]]
           /\ \A c \in 1 .. Cases : Stays(c)
<1> DEFINE J == CHOOSE j \in Dynamic : \A l \in Dynamic : j <= l
           K == Lookups[J]
<1>1. /\ Dynamic # {} /\ UNCHANGED <<written, store>>
      /\ \/ \E v \in Values : raw' = [raw EXCEPT ![Owner(raw, case, K)][K] = v]
         \/ UNCHANGED raw
  BY DEF Evaluate
<1>2. Dynamic \subseteq DOMAIN Lookups
  BY DEF Dynamic
<1>3. J \in Dynamic
  <2>1. Dynamic \in SUBSET Nat
    BY <1>2, LookupsAre
  <2>2. QED
    BY <1>1, <2>1, Smallest
<1>4. K \in DataKeys /\ Entry(K) = "dynamic"
  BY <1>2, <1>3, LookupsAre DEF Dynamic
<1> HIDE DEF J, K
<1>5. at # "done" /\ case \in Nodes
  <2>1. at # "done"
    BY <1>2, <1>3, LookupsAre
  <2>2. QED
    BY <2>1, NodesAre DEF CaseTypes
<1>6. raw \in [Nodes -> [DataKeys -> Entries]]
  BY DEF CaseTypes, CaseTypeOK
<1>7. CASE UNCHANGED raw
  BY <1>1, <1>6, <1>7, AllStays DEF RawFollows
<1>8. ASSUME NEW v \in Values, raw' = [raw EXCEPT ![Owner(raw, case, K)][K] = v]
      PROVE  /\ RawFollows' /\ raw' \in [Nodes -> [DataKeys -> Entries]]
             /\ \A c \in 1 .. Cases : Stays(c)
  <2> DEFINE o == Owner(raw, case, K)
  <2>1. o \in Nodes /\ raw[o][K] = "dynamic"
    BY <1>4, <1>5, MeaningIs DEF Entry
  <2> HIDE DEF o
  <2>2. raw' = [raw EXCEPT ![o][K] = v]
    BY <1>8 DEF o
  <2>3. v \in Entries
    BY DEF Entries
  <2>4. raw' \in [Nodes -> [DataKeys -> Entries]]
    BY <1>6, <2>2, <2>3
  <2>5. \A n \in Nodes, k \in DataKeys : raw'[n][k] = IF n = o /\ k = K THEN v ELSE raw[n][k]
    BY <1>6, <2>2
  <2>6. written[o][K] = "dynamic"
    BY <1>4, <2>1, NodesAre DEF RawFollows
  <2>7. RawFollows'
    BY <1>1, <2>5, <2>6 DEF RawFollows
  <2>8. ASSUME NEW c \in Nodes, NEW k \in DataKeys, Known(c, k)
        PROVE  Meaning(c, k)' = Meaning(c, k)
    <3> DEFINE n == Owner(written, c, k)
    <3>1. n \in Nodes /\ n' = n
      <4>1. written' = written
        BY <1>1
      <4>2. Owner(written, c, k)' = Owner(written, c, k)
        BY <4>1 DEF Owner
      <4>3. QED
        BY <4>2, MeaningIs
    <3>2. Meaning(c, k) = raw[n][k]
      BY MeaningIs
    <3>3. Meaning(c, k)' = IF written[n][k] = "dynamic" THEN raw'[n][k] ELSE written[n][k]
      BY <1>1, <3>1 DEF Meaning
    <3>4. Meaning(c, k) = IF written[n][k] = "dynamic" THEN raw[n][k] ELSE written[n][k]
      BY DEF Meaning
    <3> HIDE DEF n
    <3>5. ~(n = o /\ k = K)
      BY <2>1, <2>8, <3>2 DEF Known
    <3>6. QED
      BY <2>5, <3>1, <3>3, <3>4, <3>5
  <2>9. \A c \in 1 .. Cases : Stays(c)
    BY <1>1, <2>8, KnownStays, NodesAre
  <2>10. QED
    BY <2>4, <2>7, <2>9
<1>9. QED
  BY <1>1, <1>7, <1>8

\* What no action takes away: the answers of earlier cases.
LEMMA UsedKeep ==
    ASSUME CaseInv, \A c \in 1 .. Cases : Stays(c), UNCHANGED used
    PROVE  \A c \in DOMAIN used' : AnswerOf(c, used[c].answer)'
<1> SUFFICES ASSUME NEW c \in DOMAIN used' PROVE AnswerOf(c, used[c].answer)'
  OBVIOUS
<1>1. c \in 1 .. Cases
  <2>1. used \in Seq([io : Nat, answer : Answers]) /\ Len(used) = case - 1 /\ case \in 1 .. Cases + 1
        /\ Cases \in Nat
    BY CaseDataAssumption DEF CaseInv, CaseTypes, CaseTypeOK
  <2>2. QED
    BY <2>1
<1>2. QED
  BY <1>1, NodesAre DEF AnswerOf, CaseInv, Stays

\* The run of a case, and the file it wrote.
LEMMA RunKeep ==
    ASSUME CaseInv, \A c \in 1 .. Cases : Stays(c), UNCHANGED runs, opened' = opened,
           UNCHANGED <<case, generated>>
    PROVE  \A n \in DOMAIN runs' : RunIs(n)'
<1> SUFFICES ASSUME NEW n \in DOMAIN runs PROVE RunIs(n)'
  OBVIOUS
<1>1. RunIs(n)
  BY DEF CaseInv
<1>2. \A c \in 1 .. Cases : runs[n].case = c => Known(c, "in")' /\ runs[n].stdin = Stdin(c)'
  BY <1>1, NodesAre DEF RunIs, Stays
<1>3. QED
  BY <1>1, <1>2 DEF RunIs

\* Where neither files nor runs are made and the case goes on.
LEMMA DataKeeps ==
    ASSUME CaseInv, \A c \in 1 .. Cases : Stays(c),
           RawFollows', raw' \in [Nodes -> [DataKeys -> Entries]],
           UNCHANGED <<written, store, bridged, case, io, generated, opened, runs, used>>,
           \/ at' = "dead"
           \/ at' = at
           \/ at \in {"process", "answer", "judge", "free"} /\ at' \in {"process", "answer", "judge", "free"},
           answer' \in Answers, at # "done",
           \A c \in 1 .. Cases : case = c => AnswerOf(c, answer)',
           at' = "judge" => \A c \in 1 .. Cases : case = c => AnswerIs(c)'
    PROVE  CaseInv'
<1>1. CaseTypes'
  BY DEF CaseInv, CaseTypes, CaseTypeOK
<1>2. CurrentRun'
  BY DEF CaseInv, CurrentRun, Stays
<1>3. \A n \in DOMAIN runs' : RunIs(n)'
  BY RunKeep
<1>4. \A f \in DOMAIN opened' : FileIs(f)'
  BY DEF CaseInv, FileIs
<1>5. at' \in {"process", "answer", "judge", "free"} => \A c \in 1 .. Cases : case' = c => InputIs(c)'
  <2> SUFFICES ASSUME at' \in {"process", "answer", "judge", "free"},
                      NEW c \in 1 .. Cases, case = c
               PROVE  InputIs(c)'
    OBVIOUS
  <2>1. InputIs(c)
    BY DEF CaseInv
  <2>2. InputKnown(c)' /\ (Made(c)' <=> Made(c)) /\ FileRead(c)' = FileRead(c)
    BY <2>1 DEF InputIs, Stays, InputKnown
  <2>3. QED
    BY <2>1, <2>2 DEF InputIs
<1>6. QED
  BY <1>1, <1>2, <1>3, <1>4, <1>5, UsedKeep DEF CaseInv

LEMMA EvaluateKeeps ==
    ASSUME CaseInv, Evaluate
    PROVE  CaseInv'
<1>1. /\ RawFollows' /\ raw' \in [Nodes -> [DataKeys -> Entries]]
      /\ \A c \in 1 .. Cases : Stays(c)
  BY EvaluateReplaces DEF CaseInv
<1>2. /\ UNCHANGED <<written, store, bridged, case, io, generated, opened, runs, answer, used>>
      /\ (at' = at \/ at' = "dead") /\ Dynamic # {}
  BY DEF Evaluate
<1>3. at # "done"
  BY <1>2, LookupsAre DEF Dynamic
<1>4. ASSUME NEW c \in 1 .. Cases, case = c PROVE AnswerOf(c, answer)'
  BY <1>1, <1>2, <1>4, NodesAre DEF CaseInv, AnswerOf, Stays
<1>5. at' # "judge"
  BY <1>2, LookupsAre DEF Dynamic
<1>6. answer' \in Answers
  BY <1>2 DEF CaseInv, CaseTypes
<1>7. QED
  BY <1>1, <1>2, <1>3, <1>4, <1>5, <1>6, DataKeeps

\* The answer that output_data makes, and steps of the graders.
LEMMA OutputDataKeeps ==
    ASSUME CaseInv, OutputData
    PROVE  CaseInv'
<1>1. /\ at = "answer" /\ Settled /\ (Wanted => generated # None)
      /\ UNCHANGED <<written, raw, store, bridged, case, io, generated, opened, runs, used>>
      /\ CaseTypes /\ RawFollows
  BY DEF OutputData, CaseInv
<1>2. \A c : Stays(c) /\ \A k : Meaning(c, k)' = Meaning(c, k)
  BY <1>1, AllStays
<1>3. RawFollows' /\ raw' \in [Nodes -> [DataKeys -> Entries]]
  BY <1>1 DEF RawFollows, CaseTypes, CaseTypeOK
<1>4. /\ case \in 1 .. Cases /\ Known(case, "out")
      /\ \A k \in DataKeys : Entry(k) = Meaning(case, k) /\ (Given(k) <=> Says(case, k))
  BY <1>1, SettledKnows, EntryIs
<1>5. CASE at' = "dead" /\ UNCHANGED answer
  <2>1. ASSUME NEW c \in 1 .. Cases, case = c PROVE AnswerOf(c, answer)'
    BY <1>2, <1>5, <2>1, NodesAre DEF CaseInv, AnswerOf, Stays
  <2>2. answer' \in Answers
    BY <1>1, <1>5 DEF CaseTypes
  <2>3. QED
    BY <1>1, <1>2, <1>3, <1>5, <2>1, <2>2, DataKeeps
<1>6. CASE /\ ~(Given("out") /\ ~Stored(Entry("out"))) /\ at' = "judge"
           /\ answer' = CASE Given("out") -> Content(Entry("out"))
                          [] ~Given("out") /\ Given("generator") -> <<"run", generated>>
                          [] OTHER -> <<"empty">>
  <2>1. /\ Given("out") => answer' = Correct(case)
        /\ ~Given("out") /\ Given("generator") => answer' = <<"run", generated>>
        /\ ~Given("out") /\ ~Given("generator") => answer' = <<"empty">>
    BY <1>4, <1>6, NodesAre DEF Correct
  <2>2. answer' \in Answers
    <3>1. Given("out") => answer' \in Answers
      <4>1. Entry("out") \in Entries
        <5>1. Owner(raw, case, "out") \in Nodes
          BY <1>4, OwnerIs, NodesAre
        <5>2. QED
          BY <1>1, <5>1, NodesAre DEF Entry, CaseTypes, CaseTypeOK
      <4>2. QED
        BY <1>4, <2>1, <4>1, NodesAre DEF Correct, Content, Answers, Contents
    <3>2. generated \in Nat
      BY <1>1 DEF CaseTypes, CaseTypeOK
    <3>3. QED
      BY <2>1, <3>1, <3>2 DEF Answers, Contents
  <2>3. ASSUME NEW c \in 1 .. Cases, case = c PROVE AnswerIs(c)' /\ AnswerOf(c, answer)'
    <3>1. /\ Known(c, "out") /\ (Says(c, "out") <=> Given("out"))
          /\ (Says(c, "generator") <=> Given("generator")) /\ Known(c, "generator")
      BY <1>1, <1>4, <2>3, NodesAre DEF CaseInv, InputIs, InputKnown
    <3>2. /\ Known(c, "out")' /\ (Says(c, "out")' <=> Says(c, "out"))
          /\ (Says(c, "generator")' <=> Says(c, "generator")) /\ Correct(c)' = Correct(c)
      BY <1>2, <3>1, NodesAre DEF Stays
    <3>3. /\ Says(c, "out") => answer' = Correct(c)
          /\ ~Says(c, "out") /\ Says(c, "generator") => answer' = <<"run", generated'>>
          /\ ~Says(c, "out") /\ ~Says(c, "generator") => answer' = <<"empty">>
      BY <1>1, <2>1, <2>3, <3>1
    <3>4. AnswerIs(c)'
      BY <3>2, <3>3 DEF AnswerIs
    <3>5. ~Says(c, "out") => answer'[1] \in {"run", "empty"}
      BY <3>3
    <3>6. QED
      BY <3>2, <3>3, <3>4, <3>5 DEF AnswerOf
  <2>4. QED
    BY <1>1, <1>2, <1>3, <1>6, <2>2, <2>3, DataKeeps
<1>7. QED
  BY <1>5, <1>6 DEF OutputData

LEMMA GraderKeeps ==
    ASSUME CaseInv, Process \/ Judge
    PROVE  CaseInv'
<1>1. /\ UNCHANGED <<written, raw, store, bridged, case, io, generated, opened, runs, answer, used>>
      /\ at \in {"process", "judge"} /\ at' \in {"answer", "free"}
  BY DEF Process, Judge
<1>2. \A c : Stays(c)
  BY <1>1, AllStays
<1>3. RawFollows' /\ raw' \in [Nodes -> [DataKeys -> Entries]] /\ answer' \in Answers
  BY <1>1 DEF CaseInv, RawFollows, CaseTypes, CaseTypeOK
<1>4. ASSUME NEW c \in 1 .. Cases, case = c PROVE AnswerOf(c, answer)'
  BY <1>1, <1>2, <1>4, NodesAre DEF CaseInv, AnswerOf, Stays
<1>5. QED
  BY <1>1, <1>2, <1>3, <1>4, DataKeeps

\* A generator runs when its case has no run yet: while the input is made.
LEMMA RunGeneratorKeeps ==
    ASSUME CaseInv, RunGenerator
    PROVE  CaseInv'
<1>1. /\ Settled /\ Wanted /\ generated = None /\ CaseTypes /\ RawFollows
      /\ UNCHANGED <<written, raw, store, bridged, case, io, answer, used>>
  BY DEF RunGenerator, CaseInv
<1>2. \A c : Stays(c)
  BY <1>1, AllStays
<1>3. RawFollows' /\ raw' \in [Nodes -> [DataKeys -> Entries]] /\ answer' \in Answers
  BY <1>1 DEF RawFollows, CaseTypes, CaseTypeOK
<1>4. at \in {"input", "answer"}
  BY <1>1 DEF Wanted
<1>5. /\ case \in 1 .. Cases /\ case \in Nat
      /\ \A k \in DataKeys : Given(k) <=> Says(case, k)
      /\ (Generates <=> Made(case)) /\ Input = Stdin(case)
  BY <1>1, <1>4, EntryIs DEF CaseTypes, CaseTypeOK
<1>6. at = "input"
  <2>1. ASSUME at = "answer" PROVE FALSE
    <3>1. Given("generator") /\ ~Given("out")
      BY <1>1, <2>1 DEF Wanted
    <3>2. Made(case)
      BY <1>5, <3>1, NodesAre DEF Made
    <3>3. InputIs(case)
      BY <1>5, <2>1 DEF CaseInv
    <3>4. QED
      BY <1>1, <3>2, <3>3 DEF InputIs
  <2>2. QED
    BY <1>4, <2>1
<1>7. ASSUME NEW c \in 1 .. Cases, case = c PROVE AnswerOf(c, answer)'
  BY <1>1, <1>2, <1>7, NodesAre DEF CaseInv, AnswerOf, Stays
<1>8. CASE NotCompiled
  BY <1>1, <1>2, <1>3, <1>6, <1>7, <1>8, DataKeeps DEF NotCompiled
<1>9. ASSUME NEW ok \in BOOLEAN,
             opened' = Append(opened, MemoryIO(<<"run", Len(runs) + 1>>)),
             runs' = Append(runs, [case |-> case, at |-> at, stdin |-> Input, ok |-> ok,
                                   file |-> Len(opened')]),
             generated' = Len(runs'), Exited(ok)
      PROVE  CaseInv'
  <2> DEFINE N == Len(runs) + 1
             F == Len(opened) + 1
  <2>1. /\ opened \in Seq(MemoryFiles) /\ runs \in Seq(Runs)
        /\ Len(opened) \in Nat /\ Len(runs) \in Nat
    BY <1>1 DEF CaseTypes
  <2>2. /\ MemoryIO(<<"run", N>>) = [case |-> case, content |-> <<"run", N>>, sealed |-> TRUE, open |-> TRUE]
        /\ MemoryIO(<<"run", N>>) \in MemoryFiles
    BY <1>5, <2>1 DEF MemoryIO, MemoryFiles, Contents
  <2>3. /\ opened' \in Seq(MemoryFiles) /\ Len(opened') = F /\ DOMAIN opened' = DOMAIN opened \cup {F}
        /\ opened'[F] = [case |-> case, content |-> <<"run", N>>, sealed |-> TRUE, open |-> TRUE]
        /\ \A f \in DOMAIN opened : opened'[f] = opened[f] /\ f # F
    BY <1>9, <2>1, <2>2
  <2>4. Stdin(case) \in Answers
    <3>1. ASSUME Stored(Meaning(case, "in")) PROVE Content(Meaning(case, "in")) \in Answers
      <4>1. Meaning(case, "in") \in Entries
        <5>1. Owner(raw, case, "in") \in Nodes
          BY <1>5, OwnerIs, NodesAre
        <5>2. case \in Nodes /\ "in" \in DataKeys
          BY <1>5, NodesAre
        <5>3. Meaning(case, "in") = raw[Owner(raw, case, "in")]["in"]
          BY <1>1, <5>2, MeaningIs
        <5>4. raw \in [Nodes -> [DataKeys -> Entries]]
          BY <1>1 DEF CaseTypes, CaseTypeOK
        <5>5. QED
          BY <5>1, <5>2, <5>3, <5>4
      <4>2. QED
        BY <4>1 DEF Content, Answers, Contents
    <3>2. QED
      BY <3>1 DEF Stdin, Answers
  <2> DEFINE R == [case |-> case, at |-> "input", stdin |-> Stdin(case), ok |-> ok, file |-> F]
  <2>5. R \in Runs /\ runs' = Append(runs, R)
    BY <1>5, <1>6, <1>9, <2>1, <2>3, <2>4 DEF Runs
  <2> HIDE DEF R
  <2>6. /\ runs' \in Seq(Runs) /\ Len(runs') = N /\ DOMAIN runs' = DOMAIN runs \cup {N}
        /\ runs'[N] = R
        /\ \A n \in DOMAIN runs : runs'[n] = runs[n] /\ n # N
    BY <2>1, <2>5
  <2>7. generated' = N /\ N # None /\ N \in DOMAIN runs'
    BY <1>9, <2>1, <2>6 DEF None
  <2>8. /\ R.case = case /\ R.at = "input" /\ R.stdin = Stdin(case) /\ R.ok = ok /\ R.file = F
    BY DEF R
  <2>9. at' = IF ok THEN "input" ELSE "dead"
    BY <1>6, <1>9 DEF Exited
  <2>10. \A f \in DOMAIN opened : opened[f].case < case /\ opened[f].case \in Nat
    <3> SUFFICES ASSUME NEW f \in DOMAIN opened PROVE opened[f].case < case /\ opened[f].case \in Nat
      OBVIOUS
    <3>1. FileIs(f)
      BY DEF CaseInv
    <3>2. opened[f].case \in Nat
      <4>1. opened[f] \in MemoryFiles
        BY <2>1
      <4>2. QED
        BY <4>1 DEF MemoryFiles
    <3>3. opened[f].case <= case /\ opened[f].case # case
      BY <1>1, <1>6, <3>1 DEF FileIs
    <3>4. QED
      BY <1>5, <3>2, <3>3
  <2>11. \A n \in DOMAIN runs : runs[n].case < case /\ runs[n].case \in Nat
    <3> SUFFICES ASSUME NEW n \in DOMAIN runs PROVE runs[n].case < case /\ runs[n].case \in Nat
      OBVIOUS
    <3>1. RunIs(n)
      BY DEF CaseInv
    <3>2. runs[n].case \in Nat /\ n # None
      <4>1. runs[n] \in Runs /\ n \in 1 .. Len(runs)
        BY <2>1
      <4>2. QED
        BY <4>1 DEF Runs, None
    <3>3. runs[n].case <= case /\ runs[n].case # case
      BY <1>1, <3>1, <3>2 DEF RunIs
    <3>4. QED
      BY <1>5, <3>2, <3>3
  <2>12. InputKnown(case) /\ Made(case)
    BY <1>1, <1>5, <1>6, SettledKnows DEF Wanted
  <2>13. CaseTypes'
    <3>1. io \in 0 .. Len(opened') /\ generated' \in 0 .. Len(runs')
      BY <1>1, <2>1, <2>3, <2>6, <2>7 DEF CaseTypes, CaseTypeOK
    <3>2. CaseTypeOK'
      BY <1>1, <1>3, <2>9, <3>1 DEF CaseTypes, CaseTypeOK
    <3>3. QED
      BY <1>1, <1>3, <1>5, <2>3, <2>6, <3>2 DEF CaseTypes
  <2>14. ASSUME NEW n \in DOMAIN runs' PROVE RunIs(n)'
    <3>1. CASE n = N
      <4>1. \A c \in 1 .. Cases : case = c => Known(c, "in")' /\ Stdin(c)' = Stdin(c)
        BY <1>2, <2>12 DEF InputKnown, Stays
      <4>2. /\ runs'[n].at = "input" /\ runs'[n].case <= case'
            /\ runs'[n].case = case' => generated' = n
            /\ runs'[n].file \in DOMAIN opened' /\ opened'[runs'[n].file].content = <<"run", n>>
            /\ opened'[runs'[n].file].case = runs'[n].case
        BY <1>1, <1>5, <2>3, <2>6, <2>7, <2>8, <3>1
      <4>3. \A c \in 1 .. Cases : runs'[n].case = c => Known(c, "in")' /\ runs'[n].stdin = Stdin(c)'
        BY <2>6, <2>8, <3>1, <4>1
      <4>4. QED
        BY <4>2, <4>3 DEF RunIs
    <3>2. CASE n \in DOMAIN runs
      <4>1. RunIs(n) /\ runs'[n] = runs[n]
        BY <2>6, <3>2 DEF CaseInv
      <4>2. \A c \in 1 .. Cases : runs[n].case = c => Known(c, "in")' /\ runs[n].stdin = Stdin(c)'
        BY <1>2, <4>1, NodesAre DEF RunIs, Stays
      <4>3. runs[n].case # case /\ runs[n].case <= case
        BY <1>5, <2>11, <3>2
      <4>4. /\ runs[n].file \in DOMAIN opened' /\ opened'[runs[n].file].content = <<"run", n>>
            /\ opened'[runs[n].file].case = runs[n].case
        BY <2>3, <4>1 DEF RunIs
      <4>5. runs[n].at = "input"
        BY <4>1 DEF RunIs
      <4>6. QED
        BY <1>1, <4>1, <4>2, <4>3, <4>4, <4>5 DEF RunIs
    <3>3. QED
      BY <2>6, <3>1, <3>2
  <2>15. \A n, m \in DOMAIN runs' : runs'[m].case = runs'[n].case => m = n
    <3>1. \A n \in DOMAIN runs : runs'[n].case = runs[n].case /\ runs[n].case # case
      BY <1>5, <2>6, <2>11
    <3>2. runs'[N].case = case
      BY <2>6, <2>8
    <3>3. \A n, m \in DOMAIN runs : runs[m].case = runs[n].case => m = n
      BY DEF CaseInv
    <3>4. QED
      BY <2>6, <3>1, <3>2, <3>3
  <2>16. CurrentRun'
    <3>1. \A c \in 1 .. Cases : case = c => InputKnown(c)' /\ Made(c)'
      BY <1>2, <2>12 DEF Stays
    <3>2. runs'[generated'].case = case' /\ (at' # "dead" => runs'[generated'].ok)
      BY <1>1, <2>6, <2>7, <2>8, <2>9
    <3>3. QED
      BY <1>1, <3>1, <3>2 DEF CurrentRun
  <2>17. ASSUME NEW f \in DOMAIN opened' PROVE FileIs(f)'
    <3>1. CASE f = F
      <4>1. runs'[generated'].file = F
        BY <2>6, <2>7, <2>8
      <4>2. opened'[f].sealed /\ opened'[f].open /\ opened'[f].case = case
        BY <2>3, <3>1
      <4>3. case <= case /\ ~(case < case)
        BY <1>5
      <4>4. at' # "dead" => at' = "input"
        BY <2>9
      <4>5. generated' # None'
        BY <2>7 DEF None
      <4>6. QED
        BY <1>1, <3>1, <4>1, <4>2, <4>3, <4>4, <4>5 DEF FileIs
    <3>2. CASE f \in DOMAIN opened
      <4>1. FileIs(f) /\ opened'[f] = opened[f] /\ opened[f].case < case /\ opened[f].case \in Nat
        BY <2>3, <2>10, <3>2 DEF CaseInv
      <4>2. opened[f].sealed /\ ~opened[f].open /\ opened[f].case <= case /\ opened[f].case # case
        BY <1>5, <1>6, <4>1 DEF FileIs
      <4>3. QED
        BY <1>1, <4>1, <4>2 DEF FileIs
    <3>3. QED
      BY <2>3, <3>1, <3>2
  <2>18. at' \notin {"process", "answer", "judge", "free"} /\ at' # "judge"
    BY <2>9
  <2>19. \A c \in DOMAIN used' : AnswerOf(c, used[c].answer)'
    BY <1>1, <1>2, UsedKeep
  <2>20. QED
    BY <1>1, <1>3, <1>7, <2>13, <2>14, <2>15, <2>16, <2>17, <2>18, <2>19 DEF CaseInv
<1>10. QED
  BY <1>8, <1>9 DEF RunGenerator

\* The entry that is read is one that init.yml can have.
LEMMA MeaningTyped ==
    ASSUME CaseTypes, RawFollows, NEW c \in Nodes, NEW k \in DataKeys
    PROVE  Meaning(c, k) \in Entries
<1>1. Owner(raw, c, k) \in Nodes /\ Meaning(c, k) = raw[Owner(raw, c, k)][k]
  BY MeaningIs, OwnerIs
<1>2. raw \in [Nodes -> [DataKeys -> Entries]]
  BY DEF CaseTypes, CaseTypeOK
<1>3. QED
  BY <1>1, <1>2

\* The input is the file of the run, or one that is made from the entry.
LEMMA MakeInputKeeps ==
    ASSUME CaseInv, MakeInput
    PROVE  CaseInv'
<1>1. /\ at = "input" /\ Settled /\ (Wanted => generated # None) /\ CaseTypes /\ RawFollows
      /\ UNCHANGED <<written, raw, store, bridged, case, generated, runs, answer, used>>
      /\ CurrentRun
  BY DEF MakeInput, CaseInv
<1>2. \A c : Stays(c)
  BY <1>1, AllStays
<1>3. RawFollows' /\ raw' \in [Nodes -> [DataKeys -> Entries]] /\ answer' \in Answers
  BY <1>1 DEF RawFollows, CaseTypes, CaseTypeOK
<1>4. ASSUME NEW c \in 1 .. Cases, case = c PROVE AnswerOf(c, answer)'
  BY <1>1, <1>2, <1>4, NodesAre DEF CaseInv, AnswerOf, Stays
<1>5. /\ case \in 1 .. Cases /\ case \in Nat /\ InputKnown(case)
      /\ \A k \in DataKeys : Entry(k) = Meaning(case, k) /\ (Given(k) <=> Says(case, k))
      /\ Generates <=> Made(case)
  BY <1>1, EntryIs, SettledKnows DEF CaseTypes, CaseTypeOK
<1>6. /\ opened \in Seq(MemoryFiles) /\ runs \in Seq(Runs)
      /\ Len(opened) \in Nat /\ Len(runs) \in Nat /\ generated \in 0 .. Len(runs)
  BY <1>1 DEF CaseTypes, CaseTypeOK
<1>7. CASE at' = "dead" /\ UNCHANGED <<io, opened>>
  BY <1>1, <1>2, <1>3, <1>4, <1>7, DataKeeps
<1>8. ASSUME at' \in {"answer", "process"}, io' \in DOMAIN opened',
             opened' \in Seq(MemoryFiles),
             \A c \in 1 .. Cases : case = c => InputIs(c)',
             \A n \in DOMAIN runs : RunIs(n)',
             \A f \in DOMAIN opened' : FileIs(f)'
      PROVE  CaseInv'
  <2>1. CaseTypes'
    <3>1. io' \in 0 .. Len(opened')
      BY <1>8
    <3>2. CaseTypeOK'
      BY <1>1, <1>3, <1>8, <3>1 DEF CaseTypes, CaseTypeOK
    <3>3. QED
      BY <1>1, <1>3, <1>5, <1>8, <3>2 DEF CaseTypes
  <2>2. CurrentRun'
    BY <1>1, <1>2, <1>8 DEF CurrentRun, Stays
  <2>3. \A c \in DOMAIN used' : AnswerOf(c, used[c].answer)'
    BY <1>1, <1>2, UsedKeep
  <2>4. \A n, m \in DOMAIN runs' : runs'[m].case = runs'[n].case => m = n
    BY <1>1 DEF CaseInv
  <2>5. QED
    BY <1>1, <1>3, <1>4, <1>8, <2>1, <2>2, <2>3, <2>4 DEF CaseInv
<1>9. CASE Generates /\ io' = runs[generated].file /\ UNCHANGED opened /\ at' \in {"answer", "process"}
  <2>1. generated # None /\ generated \in DOMAIN runs
    BY <1>1, <1>6, <1>9 DEF Wanted, None
  <2>2. RunIs(generated) /\ runs[generated].case = case
    BY <1>1, <2>1 DEF CaseInv, CurrentRun
  <2>3. io' \in DOMAIN opened' /\ io' # None /\ opened'[io'].case = case
        /\ opened'[io'].content = <<"run", generated>>
    <3>1. io' \in DOMAIN opened /\ opened[io'].case = case
          /\ opened[io'].content = <<"run", generated>>
      BY <1>9, <2>2 DEF RunIs
    <3>2. \A f \in DOMAIN opened : f # None
      BY <1>6 DEF None
    <3>3. QED
      BY <1>9, <3>1, <3>2
  <2>4. ASSUME NEW c \in 1 .. Cases, case = c PROVE InputIs(c)'
    <3>1. Made(c) /\ Made(c)' /\ InputKnown(c)'
      BY <1>2, <1>5, <1>9, <2>4 DEF Stays
    <3>2. generated' = generated /\ None' = None
      BY <1>1 DEF None
    <3>3. QED
      BY <2>1, <2>3, <2>4, <3>1, <3>2 DEF InputIs
  <2>5. \A n \in DOMAIN runs : RunIs(n)'
    BY <1>1, <1>2, <1>9, RunKeep
  <2>6. ASSUME NEW f \in DOMAIN opened' PROVE FileIs(f)'
    <3>1. FileIs(f)
      BY <1>9, <2>6 DEF CaseInv
    <3>2. QED
      BY <1>1, <1>9, <3>1 DEF FileIs
  <2>7. QED
    BY <1>6, <1>8, <1>9, <2>3, <2>4, <2>5, <2>6
<1>10. ASSUME ~Generates, ~(Given("in") /\ ~Stored(Entry("in"))), at' \in {"answer", "process"},
              opened' = Append(opened, MemoryIO(IF Given("in") THEN Content(Entry("in")) ELSE <<"empty">>)),
              io' = Len(opened')
       PROVE  CaseInv'
  <2> DEFINE F == Len(opened) + 1
  <2>1. (IF Given("in") THEN Content(Entry("in")) ELSE <<"empty">>) = FileRead(case)
    BY <1>5, NodesAre DEF FileRead
  <2>2. FileRead(case) \in Contents
    <3>1. Meaning(case, "in") \in Entries
      BY <1>1, <1>5, MeaningTyped, NodesAre
    <3>2. Content(Meaning(case, "in")) \in Contents
      BY <3>1 DEF Content, Contents
    <3>3. QED
      BY <3>2 DEF FileRead, Contents
  <2> DEFINE M == [case |-> case, content |-> FileRead(case), sealed |-> TRUE, open |-> TRUE]
  <2>3. M \in MemoryFiles /\ opened' = Append(opened, M)
    BY <1>5, <1>10, <2>1, <2>2 DEF MemoryIO, MemoryFiles
  <2>4. M.case = case /\ M.content = FileRead(case) /\ M.sealed /\ M.open
    OBVIOUS
  <2> HIDE DEF M
  <2>5. /\ opened' \in Seq(MemoryFiles) /\ Len(opened') = F /\ DOMAIN opened' = DOMAIN opened \cup {F}
        /\ opened'[F] = M
        /\ \A f \in DOMAIN opened : opened'[f] = opened[f] /\ f # F
    BY <1>6, <2>3
  <2>6. io' = F /\ F # None /\ F \in DOMAIN opened'
    BY <1>6, <1>10, <2>5 DEF None
  <2>7. generated = None
    BY <1>1, <1>5, <1>10 DEF CurrentRun
  <2>8. ASSUME NEW c \in 1 .. Cases, case = c PROVE InputIs(c)'
    <3>1. ~Made(c)' /\ InputKnown(c)' /\ FileRead(c)' = FileRead(c)
      BY <1>2, <1>5, <1>10, <2>8 DEF Stays, InputKnown
    <3>2. opened'[io'].case = c /\ opened'[io'].content = FileRead(c)
      BY <2>4, <2>5, <2>6, <2>8
    <3>3. generated' = None' /\ io' # None'
      BY <1>1, <2>6, <2>7 DEF None
    <3>4. QED
      BY <3>1, <3>2, <3>3 DEF InputIs
  <2>9. ASSUME NEW n \in DOMAIN runs PROVE RunIs(n)'
    <3>1. RunIs(n)
      BY DEF CaseInv
    <3>2. \A c \in 1 .. Cases : runs[n].case = c => Known(c, "in")' /\ runs[n].stdin = Stdin(c)'
      BY <1>2, <3>1, NodesAre DEF RunIs, Stays
    <3>3. /\ runs[n].file \in DOMAIN opened' /\ opened'[runs[n].file].content = <<"run", n>>
          /\ opened'[runs[n].file].case = runs[n].case
      BY <2>5, <3>1 DEF RunIs
    <3>4. QED
      BY <1>1, <3>1, <3>2, <3>3 DEF RunIs
  <2>10. ASSUME NEW f \in DOMAIN opened' PROVE FileIs(f)'
    <3>1. CASE f = F
      <4>1. opened'[f].sealed /\ opened'[f].open /\ opened'[f].case = case /\ f = io'
        BY <2>4, <2>5, <2>6, <3>1
      <4>2. case <= case /\ ~(case < case)
        BY <1>5
      <4>3. QED
        BY <1>1, <1>10, <4>1, <4>2 DEF FileIs
    <3>2. CASE f \in DOMAIN opened
      <4>1. FileIs(f) /\ opened'[f] = opened[f]
        BY <2>5, <3>2 DEF CaseInv
      <4>2. opened[f].case # case
        BY <1>1, <2>7, <4>1 DEF FileIs
      <4>3. QED
        BY <1>1, <1>10, <4>1, <4>2 DEF FileIs
    <3>3. QED
      BY <2>5, <3>1, <3>2
  <2>11. QED
    BY <1>8, <1>10, <2>5, <2>6, <2>8, <2>9, <2>10
<1>11. QED
  BY <1>7, <1>9, <1>10 DEF MakeInput

\* The file is closed, and the next case starts with nothing.
LEMMA FreeDataKeeps ==
    ASSUME CaseInv, FreeData
    PROVE  CaseInv'
<1>1. /\ at = "free" /\ CaseTypes /\ RawFollows
      /\ opened' = [opened EXCEPT ![io].open = FALSE]
      /\ used' = Append(used, [io |-> io, answer |-> answer])
      /\ case' = case + 1 /\ at' = (IF case = Cases THEN "done" ELSE "input")
      /\ io' = None /\ generated' = None /\ answer' = <<"none">>
      /\ UNCHANGED <<written, raw, store, bridged, runs>>
  BY DEF FreeData, CaseInv, NextCase, Closed
<1>2. \A c : Stays(c)
  BY <1>1, AllStays
<1>3. RawFollows'
  BY <1>1 DEF RawFollows
<1>4. /\ case \in 1 .. Cases /\ Cases \in Nat
      /\ opened \in Seq(MemoryFiles) /\ runs \in Seq(Runs) /\ answer \in Answers
      /\ used \in Seq([io : Nat, answer : Answers]) /\ Len(used) = case - 1
      /\ Len(opened) \in Nat /\ Len(runs) \in Nat /\ io \in 0 .. Len(opened)
  BY <1>1, CaseDataAssumption DEF CaseTypes, CaseTypeOK
<1>5. InputIs(case)
  BY <1>1, <1>4 DEF CaseInv
<1>6. io \in DOMAIN opened /\ opened[io].case = case
  BY <1>4, <1>5 DEF InputIs, None
<1>7. opened' \in Seq(MemoryFiles) /\ Len(opened') = Len(opened)
  <2>1. opened[io] \in MemoryFiles
    BY <1>4, <1>6
  <2>2. [opened[io] EXCEPT !.open = FALSE] \in MemoryFiles
    BY <2>1 DEF MemoryFiles
  <2>3. QED
    BY <1>1, <1>4, <1>6, <2>2
<1>8. \A f \in DOMAIN opened' :
        /\ f \in DOMAIN opened
        /\ opened'[f] = IF f = io THEN [opened[f] EXCEPT !.open = FALSE] ELSE opened[f]
  BY <1>1
<1>9. \A f \in DOMAIN opened' :
        /\ opened'[f].case = opened[f].case /\ opened'[f].content = opened[f].content
        /\ opened'[f].sealed = opened[f].sealed
        /\ opened'[f].open = IF f = io THEN FALSE ELSE opened[f].open
  <2> SUFFICES ASSUME NEW f \in DOMAIN opened'
               PROVE  /\ opened'[f].case = opened[f].case /\ opened'[f].content = opened[f].content
                      /\ opened'[f].sealed = opened[f].sealed
                      /\ opened'[f].open = IF f = io THEN FALSE ELSE opened[f].open
    OBVIOUS
  <2>1. opened[f] \in MemoryFiles
    BY <1>4, <1>8
  <2>2. QED
    BY <1>8, <2>1 DEF MemoryFiles
<1>10. CaseTypes'
  <2>1. /\ case' \in 1 .. Cases + 1 /\ (at' # "done" => case' \in 1 .. Cases)
        /\ at' \in {"input", "done"}
    BY <1>1, <1>4
  <2>2. CaseTypeOK'
    BY <1>1, <1>4, <1>7, <2>1 DEF CaseTypes, CaseTypeOK, None
  <2>3. [io |-> io, answer |-> answer] \in [io : Nat, answer : Answers]
    BY <1>4
  <2>4. used' \in Seq([io : Nat, answer : Answers]) /\ Len(used') = case' - 1
    BY <1>1, <1>4, <2>3
  <2>5. answer' \in Answers
    BY <1>1 DEF Answers
  <2>6. QED
    BY <1>1, <1>4, <1>7, <2>1, <2>2, <2>4, <2>5 DEF CaseTypes
<1>11. CurrentRun'
  BY <1>1 DEF CurrentRun, None
<1>12. ASSUME NEW n \in DOMAIN runs' PROVE RunIs(n)'
  <2>1. RunIs(n)
    BY <1>1, <1>12 DEF CaseInv
  <2>2. \A c \in 1 .. Cases : runs[n].case = c => Known(c, "in")' /\ runs[n].stdin = Stdin(c)'
    BY <1>2, <2>1, NodesAre DEF RunIs, Stays
  <2>3. runs[n] \in Runs
    BY <1>1, <1>4, <1>12
  <2>4. runs[n].case \in Nat /\ runs[n].case <= case
    BY <1>4, <2>1, <2>3 DEF Runs, RunIs
  <2>5. runs[n].case <= case' /\ runs[n].case # case'
    BY <1>1, <1>4, <2>4
  <2>6. /\ runs[n].file \in DOMAIN opened' /\ opened'[runs[n].file].content = <<"run", n>>
        /\ opened'[runs[n].file].case = runs[n].case
    <3>1. DOMAIN opened' = DOMAIN opened
      BY <1>1
    <3>2. QED
      BY <1>9, <2>1, <3>1 DEF RunIs
  <2>7. runs[n].at = "input"
    BY <2>1 DEF RunIs
  <2>8. QED
    BY <1>1, <2>2, <2>5, <2>6, <2>7 DEF RunIs
<1>13. ASSUME NEW f \in DOMAIN opened' PROVE FileIs(f)'
  <2>1. FileIs(f)
    BY <1>8, <1>13 DEF CaseInv
  <2>2. opened[f] \in MemoryFiles
    BY <1>4, <1>8, <1>13
  <2>3. opened[f].case \in Nat /\ opened[f].case <= case
    BY <1>4, <2>1, <2>2 DEF FileIs, MemoryFiles
  <2>4. opened[f].case <= case' /\ opened[f].case # case'
    BY <1>1, <1>4, <2>3
  <2>5. opened[f].case < case \/ opened[f].case = case
    BY <1>4, <2>3
  <2>6. ~opened'[f].open
    <3>1. CASE opened[f].case < case
      BY <1>1, <1>9, <1>13, <2>1, <3>1 DEF FileIs
    <3>2. CASE opened[f].case = case
      BY <1>1, <1>9, <1>13, <2>1, <3>2 DEF FileIs
    <3>3. QED
      BY <2>5, <3>1, <3>2
  <2>7. QED
    BY <1>1, <1>9, <1>13, <2>1, <2>4, <2>6 DEF FileIs
<1>14. ASSUME NEW c \in DOMAIN used' PROVE AnswerOf(c, used[c].answer)'
  <2>1. /\ DOMAIN used' = DOMAIN used \cup {case} /\ DOMAIN used = 1 .. case - 1
        /\ used'[case] = [io |-> io, answer |-> answer]
        /\ \A d \in DOMAIN used : used'[d] = used[d]
    BY <1>1, <1>4
  <2>2. c \in 1 .. Cases
    BY <1>4, <1>14, <2>1
  <2>3. CASE c = case
    <3>1. AnswerOf(c, answer)
      BY <2>2, <2>3 DEF CaseInv
    <3>2. used'[c].answer = answer
      BY <2>1, <2>3
    <3>3. QED
      BY <1>2, <3>1, <3>2, NodesAre DEF AnswerOf, Stays
  <2>4. CASE c \in DOMAIN used
    <3>1. AnswerOf(c, used[c].answer)
      BY <2>4 DEF CaseInv
    <3>2. used'[c] = used[c]
      BY <2>1, <2>4
    <3>3. QED
      BY <1>2, <3>1, <3>2, NodesAre DEF AnswerOf, Stays
  <2>5. QED
    BY <1>14, <2>1, <2>3, <2>4
<1>15. \A c \in 1 .. Cases : case' = c => AnswerOf(c, answer)'
  BY <1>1 DEF AnswerOf
<1>16. \A n, m \in DOMAIN runs' : runs'[m].case = runs'[n].case => m = n
  BY <1>1 DEF CaseInv
<1>17. at' \in {"input", "done"}
  BY <1>1
<1>18. QED
  BY <1>3, <1>10, <1>11, <1>12, <1>13, <1>14, <1>15, <1>16, <1>17 DEF CaseInv

LEMMA CaseInvInductive ==
    ASSUME CaseInv, [CaseNext]_caseVars
    PROVE  CaseInv'
<1>1. CASE UNCHANGED caseVars
  <2>1. UNCHANGED <<written, raw, store, bridged, case, at, io, generated, opened, runs, answer, used>>
    BY <1>1 DEF caseVars
  <2>2. \A c : Stays(c)
    BY <2>1, AllStays
  <2>3. CaseTypes' /\ RawFollows' /\ CurrentRun'
    BY <2>1, <2>2 DEF CaseInv, CaseTypes, CaseTypeOK, RawFollows, CurrentRun, Stays
  <2>4. \A n \in DOMAIN runs' : RunIs(n)'
    BY <2>1, <2>2, RunKeep
  <2>5. \A f \in DOMAIN opened' : FileIs(f)'
    BY <2>1 DEF CaseInv, FileIs
  <2>6. \A c \in DOMAIN used' : AnswerOf(c, used[c].answer)'
    BY <2>1, <2>2, UsedKeep
  <2>7. at' \in {"process", "answer", "judge", "free"} => \A c \in 1 .. Cases : case' = c => InputIs(c)'
    <3> SUFFICES ASSUME at' \in {"process", "answer", "judge", "free"}, NEW c \in 1 .. Cases, case' = c
                 PROVE  InputIs(c)'
      OBVIOUS
    <3>1. InputIs(c)
      BY <2>1 DEF CaseInv
    <3>2. InputKnown(c)' /\ (Made(c)' <=> Made(c)) /\ FileRead(c)' = FileRead(c)
      BY <2>2, <3>1 DEF InputIs, Stays, InputKnown
    <3>3. QED
      BY <2>1, <3>1, <3>2 DEF InputIs, None
  <2>8. \A c \in 1 .. Cases : case' = c => AnswerOf(c, answer)'
    BY <2>1, <2>2, NodesAre DEF CaseInv, AnswerOf, Stays
  <2>9. at' = "judge" => \A c \in 1 .. Cases : case' = c => AnswerIs(c)'
    <3> SUFFICES ASSUME at' = "judge", NEW c \in 1 .. Cases, case' = c PROVE AnswerIs(c)'
      OBVIOUS
    <3>1. AnswerIs(c) /\ InputIs(c)
      BY <2>1 DEF CaseInv
    <3>2. Known(c, "out") /\ Known(c, "generator")
      BY <3>1 DEF AnswerIs, InputIs, InputKnown
    <3>3. QED
      BY <2>1, <2>2, <3>1, <3>2, NodesAre DEF AnswerIs, Stays
  <2>10. QED
    BY <2>1, <2>3, <2>4, <2>5, <2>6, <2>7, <2>8, <2>9 DEF CaseInv
<1>2. QED
  BY <1>1, EvaluateKeeps, RunGeneratorKeeps, MakeInputKeeps, OutputDataKeeps, GraderKeeps,
     FreeDataKeeps DEF CaseNext

LEMMA CaseInvInit ==
    ASSUME CaseInit
    PROVE  CaseInv
<1>1. /\ written \in Configs /\ raw = written /\ store \in Stores /\ bridged \in BOOLEAN
      /\ case = 1 /\ at = "input" /\ io = None /\ generated = None
      /\ opened = <<>> /\ runs = <<>> /\ answer = <<"none">> /\ used = <<>>
  BY DEF CaseInit
<1>2. <<>> \in Seq(MemoryFiles) /\ <<>> \in Seq(Runs) /\ <<>> \in Seq([io : Nat, answer : Answers])
  OBVIOUS
<1>3. CaseTypeOK
  BY <1>1, CaseDataAssumption DEF CaseTypeOK, None
<1>4. Len(<<>>) = 0 /\ 1 \in 1 .. Cases
  BY CaseDataAssumption
<1>5. CaseTypes
  BY <1>1, <1>2, <1>3, <1>4 DEF CaseTypes, Answers
<1>6. RawFollows /\ CurrentRun
  BY <1>1 DEF RawFollows, CurrentRun
<1>7. DOMAIN runs = {} /\ DOMAIN opened = {} /\ DOMAIN used = {}
  BY <1>1
<1>8. QED
  BY <1>1, <1>5, <1>6, <1>7 DEF CaseInv, AnswerOf

\* What is judged is the case's own.
LEMMA InvIsOwn ==
    ASSUME CaseInv
    PROVE  OwnData
<1> SUFFICES ASSUME at \in {"process", "judge"}
             PROVE  /\ io # None /\ opened[io].open /\ opened[io].sealed
                    /\ \E n \in RunOf(case) \cup {None} :
                         /\ opened[io].content = TrueInput(case, n)
                         /\ opened[io].content[1] # "empty" => opened[io].content # <<"run", None>>
                         /\ at = "judge" => answer = TrueAnswer(case, n)
  BY DEF OwnData
<1>1. /\ case \in 1 .. Cases /\ InputIs(case) /\ (at = "judge" => AnswerIs(case))
      /\ CaseTypes /\ CurrentRun
      /\ io \in 0 .. Len(opened) /\ generated \in 0 .. Len(runs)
      /\ opened \in Seq(MemoryFiles) /\ runs \in Seq(Runs)
  BY DEF CaseInv, CaseTypes, CaseTypeOK
<1>2. io # None /\ io \in DOMAIN opened /\ opened[io].case = case
  BY <1>1 DEF InputIs, None
<1>3. opened[io].open /\ opened[io].sealed
  <2>1. FileIs(io)
    BY <1>2 DEF CaseInv
  <2>2. QED
    BY <1>2, <2>1 DEF FileIs
<1>4. CASE Made(case)
  <2>1. generated # None /\ opened[io].content = <<"run", generated>>
    BY <1>1, <1>4 DEF InputIs
  <2>2. generated \in RunOf(case)
    BY <1>1, <2>1 DEF CurrentRun, RunOf, None
  <2>3. TrueInput(case, generated) = <<"run", generated>>
    BY <1>4 DEF TrueInput, Made
  <2>4. opened[io].content # <<"run", None>>
    BY <2>1
  <2>5. at = "judge" => answer = TrueAnswer(case, generated)
    BY <1>1, <1>4 DEF AnswerIs, TrueAnswer, Made, Correct
  <2>6. QED
    BY <1>2, <1>3, <2>1, <2>2, <2>3, <2>4, <2>5
<1>5. CASE ~Made(case)
  <2>1. generated = None /\ opened[io].content = FileRead(case)
    BY <1>1, <1>5 DEF InputIs
  <2>2. TrueInput(case, None) = FileRead(case)
    <3>1. CASE Says(case, "in")
      BY <1>5, <3>1 DEF TrueInput, FileRead, Made
    <3>2. CASE ~Says(case, "in")
      BY <1>5, <3>2 DEF TrueInput, FileRead, Made
    <3>3. QED
      BY <3>1, <3>2
  <2>3. FileRead(case)[1] # "run"
    BY DEF FileRead, Content
  <2>4. FileRead(case) # <<"run", None>>
    BY <2>3
  <2>5. at = "judge" => answer = TrueAnswer(case, None)
    BY <1>1, <1>5, <2>1 DEF AnswerIs, TrueAnswer, Made, Correct
  <2>6. QED
    BY <1>2, <1>3, <2>1, <2>2, <2>4, <2>5
<1>6. QED
  BY <1>4, <1>5

\* One run of a generator for a case, and one answer for an entry.
LEMMA InvGeneratesOnce ==
    ASSUME CaseInv
    PROVE  GeneratedOnce /\ SharedAnswers /\ NothingLeftOpen
<1>1. /\ CaseTypes /\ runs \in Seq(Runs) /\ used \in Seq([io : Nat, answer : Answers])
      /\ Len(used) = case - 1 /\ case \in 1 .. Cases + 1 /\ Cases \in Nat
  BY CaseDataAssumption DEF CaseInv, CaseTypes, CaseTypeOK
<1>2. GeneratedOnce
  <2> SUFFICES ASSUME NEW n \in DOMAIN runs
               PROVE  /\ runs[n].at = "input"
                      /\ \A m \in DOMAIN runs : runs[m].case = runs[n].case => m = n
                      /\ runs[n].stdin = Stdin(runs[n].case)
    BY DEF GeneratedOnce, Stdin
  <2>1. RunIs(n) /\ runs[n] \in Runs
    BY <1>1 DEF CaseInv
  <2>2. runs[n].case \in 1 .. Cases
    BY <2>1 DEF Runs
  <2>3. QED
    BY <2>1, <2>2 DEF CaseInv, RunIs
<1>3. SharedAnswers
  <2> SUFFICES ASSUME NEW c \in DOMAIN used, NEW d \in DOMAIN used,
                      Owner(written, c, "out") = Owner(written, d, "out"),
                      used[c].answer[1] \in {"directory", "archive"},
                      used[d].answer # <<"none">>
               PROVE  used[c].answer = used[d].answer
    BY DEF SharedAnswers
  <2>1. Meaning(c, "out") = Meaning(d, "out")
    BY DEF Meaning
  <2>2. used[c].answer # <<"none">>
    OBVIOUS
  <2>3. AnswerOf(c, used[c].answer) /\ AnswerOf(d, used[d].answer)
    BY DEF CaseInv
  <2>4. Says(c, "out") /\ Says(d, "out")
    BY <2>1, <2>2, <2>3 DEF AnswerOf, Says
  <2>5. QED
    BY <2>1, <2>2, <2>3, <2>4 DEF AnswerOf, Correct
<1>4. NothingLeftOpen
  BY DEF CaseInv, FileIs, NothingLeftOpen
<1>5. QED
  BY <1>2, <1>3, <1>4

\* Each case is graded with data of its own: for any problem, whatever code
\* its init.yml holds and whatever that returns, its generators run once and
\* before the submission, the input and the answer are of one run, cases that
\* share an answer's entry share the answer, and no file stays open
\* (problem.py, config.py).
THEOREM CaseDataAlwaysSound == MCJudgeSpec => []CaseDataSound
<1> DEFINE Part == part = "data" => CaseInv
<1>1. MCJudgeInit => Part
  BY CaseInvInit DEF MCJudgeInit
<1>2. Part /\ [MCJudgeNext]_<<part, rulesVars, caseVars, runtimeVars, testVars>> => Part'
  <2> SUFFICES ASSUME part = "data" => CaseInv,
                      [MCJudgeNext]_<<part, rulesVars, caseVars, runtimeVars, testVars>>,
                      part' = "data"
               PROVE  CaseInv'
    OBVIOUS
  <2>1. part = "data" /\ [CaseNext]_caseVars
    BY DEF MCJudgeNext
  <2>2. QED
    BY <2>1, CaseInvInductive
<1>3. Part => CaseDataSound
  <2> SUFFICES ASSUME CaseInv PROVE DataSound
    BY DEF CaseDataSound
  <2>1. CaseTypeOK
    BY DEF CaseInv, CaseTypes
  <2>2. QED
    BY <2>1, InvIsOwn, InvGeneratesOnce DEF DataSound
<1>4. QED
  BY <1>1, <1>2, <1>3, PTL DEF MCJudgeSpec
===============================================================================
