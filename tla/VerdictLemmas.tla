---------------------------- MODULE VerdictLemmas ----------------------------
(***************************************************************************)
(* What the proofs about verdicts and about the bridge need of Verdict.    *)
(***************************************************************************)
EXTENDS Verdict, TLAPS

\* The two tables are the same order, of all the flags there are.
LEMMA Orders ==
    /\ BridgeOrder = JudgeOrder
    /\ DOMAIN BridgeOrder = 1..8
    /\ \A s \in Flags : \E i \in 1..8 : BridgeOrder[i] = s
    /\ \A i \in 1..8 : BridgeOrder[i] \in Flags
    /\ \A i, j \in 1..8 : BridgeOrder[i] = BridgeOrder[j] => i = j
<1>1. BridgeOrder = JudgeOrder
  BY DEF BridgeOrder, JudgeOrder
<1>2. /\ BridgeOrder[1] = "IE" /\ BridgeOrder[2] = "TLE" /\ BridgeOrder[3] = "MLE"
      /\ BridgeOrder[4] = "OLE" /\ BridgeOrder[5] = "RTE" /\ BridgeOrder[6] = "IR"
      /\ BridgeOrder[7] = "WA" /\ BridgeOrder[8] = "SC"
      /\ DOMAIN BridgeOrder = 1..8
  BY DEF BridgeOrder
<1>3. \A s \in Flags : \E i \in 1..8 : BridgeOrder[i] = s
  <2>1. 1 \in 1..8 /\ 2 \in 1..8 /\ 3 \in 1..8 /\ 4 \in 1..8 /\ 5 \in 1..8 /\ 6 \in 1..8
        /\ 7 \in 1..8 /\ 8 \in 1..8
    OBVIOUS
  <2>2. QED
    BY <1>2, <2>1, Zenon DEF Flags
<1>4. \A i \in 1..8 : BridgeOrder[i] \in Flags
  BY <1>2 DEF Flags
<1>5. \A i, j \in 1..8 : BridgeOrder[i] = BridgeOrder[j] => i = j
  BY <1>2
<1>6. QED
  BY <1>1, <1>2, <1>3, <1>4, <1>5

\* FirstOf finds the first flag of the order that is on, whenever one is.
LEMMA FirstFlag ==
    ASSUME NEW f \in SUBSET Flags, f # {}
    PROVE  \E i \in 1..8 :
              /\ FirstOf(BridgeOrder, f) = BridgeOrder[i]
              /\ BridgeOrder[i] \in f
              /\ \A j \in 1..8 : BridgeOrder[j] \in f => i <= j
<1> DEFINE First(i) == /\ BridgeOrder[i] \in f
                       /\ \A j \in DOMAIN BridgeOrder : BridgeOrder[j] \in f => i <= j
<1>1. \E i \in 1..8 : BridgeOrder[i] \in f
  BY Orders
<1>2. \E i \in DOMAIN BridgeOrder : First(i)
  <2> DEFINE On(n) == BridgeOrder[n] \in f
  <2>1. \E i \in 1..8 : On(i)
    BY <1>1
  <2> HIDE DEF On
  <2>2. \E i \in 1..8 : On(i) /\ \A j \in 1..8 : On(j) => i <= j
    <3>1. On(1) \/ On(2) \/ On(3) \/ On(4) \/ On(5) \/ On(6) \/ On(7) \/ On(8)
      <4>1. \A i \in 1..8 : i = 1 \/ i = 2 \/ i = 3 \/ i = 4 \/ i = 5 \/ i = 6
                            \/ i = 7 \/ i = 8
        OBVIOUS
      <4>2. QED
        BY <2>1, <4>1
    <3>2. QED
      BY <3>1
  <2>3. QED
    BY <2>2, Orders DEF On
<1>3. PICK i \in DOMAIN BridgeOrder : First(i) /\ FirstOf(BridgeOrder, f) = BridgeOrder[i]
  BY <1>2 DEF FirstOf
<1>4. QED
  BY <1>3, Orders

\* Every flag of a mask is on the verdict's order, and no flag is "AC".
LEMMA NameOfMask ==
    ASSUME NEW f \in SUBSET Flags
    PROVE  /\ StatusName(f) = MainCode(f)
           /\ StatusName(f) = "AC" <=> f = {}
           /\ f # {} => StatusName(f) = FirstOf(BridgeOrder, f)
<1>1. StatusName(f) = MainCode(f)
  BY Orders DEF StatusName, MainCode
<1>2. ASSUME f # {} PROVE StatusName(f) # "AC"
  <2>1. StatusName(f) \in f
    BY <1>2, FirstFlag DEF StatusName
  <2>2. QED
    BY <2>1 DEF Flags
<1>3. QED
  BY <1>1, <1>2 DEF StatusName

\* The verdict of a sequence of typed cases is one of the statuses.
LEMMA NameOfCases ==
    ASSUME NEW S, \A x \in S : x.flags \subseteq Flags, NEW cases \in Seq(S)
    PROVE  StatusName(WorstStatus(cases)) \in Statuses
<1>1. WorstStatus(cases) \in SUBSET Flags
  <2>1. \A i \in DOMAIN cases : cases[i] \in S
    OBVIOUS
  <2>2. QED
    BY <2>1 DEF WorstStatus
<1>2. CASE WorstStatus(cases) = {}
  BY <1>2 DEF StatusName, Statuses
<1>3. CASE WorstStatus(cases) # {}
  BY <1>1, <1>3, FirstFlag DEF StatusName, Statuses
<1>4. QED
  BY <1>2, <1>3
===============================================================================
