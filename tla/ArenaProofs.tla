------------------------------ MODULE ArenaProofs ------------------------------
(***************************************************************************)
(* Proofs about the bridge and about Arena, which is a bridge with a judge *)
(* and with callers.                                                       *)
(*                                                                         *)
(* The bridge's are for any number of calls, connections, judges and cases,*)
(* and for peers that send whatever they like.                             *)
(*                                                                         *)
(* Arena's say what its verdicts are: as long as the only fault is that    *)
(* the judge crashes, a verdict that Submit returns is the one its own     *)
(* source deserves, and the arena is a grading service.                    *)
(*                                                                         *)
(* The invariant says that the packets under way on a connection tell a    *)
(* story: it begins with what the handler has made of what it was told,    *)
(* goes on packet by packet, and ends with what the judge still has to     *)
(* say.  A submission is numbered, requested and told of only once.        *)
(***************************************************************************)
EXTENDS Arena, VerdictLemmas, SequenceTheorems, FiniteSetTheorems

-------------------------------------------------------------------------------
(* The bridge, whatever its peers send.                                    *)

\* A handler that accumulates has a case left to accumulate.
Accumulating == \A c \in Conns : pc[c] = "appending" => todo[c].cases # <<>>

\* A result of a submission is typed when its id, its status and its cases are.
LEMMA ResultType ==
    ASSUME NEW i \in Ids, NEW s \in Statuses \cup {"CE", "AB"}, NEW cs \in Seq(Cases)
    PROVE  [id |-> i, status |-> s, cases |-> cs] \in Result
BY DEF Result

\* deliverResult changes channels only, and puts nothing else into them.
LEMMA DeliverType ==
    ASSUME TypeOK, NEW i \in Ids, NEW r \in Result, Deliver(i, r)
    PROVE  chan' \in [Calls -> Result \cup {NoResult}]
BY DEF TypeOK, Deliver

\* A return leaves everything about a call typed.
LEMMA ReturnType ==
    ASSUME TypeOK, NEW k \in Calls,
           NEW how \in {"result", "sendError", "timeout", "shutdown"},
           NEW r \in Result \cup {NoResult}, Return(k, how, r),
           UNCHANGED <<connVars, caseVars, done>>
    PROVE  TypeOK'
BY DEF TypeOK, Return, connVars, caseVars

LEMMA CallTypes ==
    ASSUME TypeOK, NEW k \in Calls,
           \/ SubmitPick(k) \/ SubmitNoJudge(k) \/ SubmitStore(k)
           \/ SubmitSend(k) \/ SubmitSendError(k) \/ Expire(k)
           \/ SubmitReceive(k) \/ SubmitTimeout(k) \/ SubmitShutdown(k)
    PROVE  TypeOK'
<1>1. CASE SubmitPick(k)
  BY <1>1 DEF TypeOK, SubmitPick, Available, connVars, caseVars
<1>2. CASE SubmitNoJudge(k)
  BY <1>2 DEF TypeOK, SubmitNoJudge, connVars, caseVars
<1>3. CASE SubmitStore(k)
  <2>1. nextID \in Ids /\ nextID + 1 \in 1..(MaxId + 1)
    BY <1>3, BridgeAssumption DEF TypeOK, SubmitStore, Ids
  <2>2. QED
    BY <1>3, <2>1 DEF TypeOK, SubmitStore, connVars, caseVars
<1>4. CASE SubmitSend(k)
  BY <1>4 DEF TypeOK, SubmitSend, connVars, caseVars
<1>5. CASE SubmitSendError(k)
  BY <1>5, ReturnType DEF SubmitSendError
<1>6. CASE Expire(k)
  BY <1>6 DEF TypeOK, Expire, connVars, caseVars
<1>7. CASE SubmitReceive(k)
  <2>1. chan[k] \in Result \cup {NoResult}
    BY DEF TypeOK
  <2>2. QED
    BY <1>7, <2>1, ReturnType DEF SubmitReceive
<1>8. CASE SubmitTimeout(k)
  BY <1>8, ReturnType DEF SubmitTimeout
<1>9. CASE SubmitShutdown(k)
  BY <1>9, ReturnType DEF SubmitShutdown
<1>10. QED
  BY <1>1, <1>2, <1>3, <1>4, <1>5, <1>6, <1>7, <1>8, <1>9

LEMMA SessionTypes ==
    ASSUME TypeOK, NEW c \in Conns,
           \/ Accept(c) \/ (\E n \in JudgeIds : Handshake(c, n))
           \/ HandshakeReject(c) \/ Greet(c) \/ GreetError(c) \/ Register(c)
           \/ RecvError(c) \/ Deregister(c) \/ Stall(c) \/ Drain(c)
    PROVE  TypeOK'
<1> USE BridgeAssumption DEF TypeOK, HandlerStates, caseVars, callVars
<1>1. CASE Accept(c)
  BY <1>1 DEF Accept
<1>2. ASSUME NEW n \in JudgeIds, Handshake(c, n) PROVE TypeOK'
  BY <1>2 DEF Handshake
<1>3. CASE HandshakeReject(c)
  BY <1>3 DEF HandshakeReject, Leave
<1>4. CASE Greet(c)
  BY <1>4 DEF Greet
<1>5. CASE GreetError(c)
  BY <1>5 DEF GreetError, Leave
<1>6. CASE Register(c)
  BY <1>6 DEF Register
<1>7. CASE RecvError(c)
  BY <1>7 DEF RecvError, Leave
<1>8. CASE Deregister(c)
  BY <1>8 DEF Deregister
<1>9. CASE Stall(c)
  BY <1>9 DEF Stall
<1>10. CASE Drain(c)
  BY <1>10 DEF Drain
<1>11. QED
  BY <1>1, <1>2, <1>3, <1>4, <1>5, <1>6, <1>7, <1>8, <1>9, <1>10

LEMMA SweptType ==
    ASSUME NEW c, NEW h \in [Boxes -> Seq(Cases)]
    PROVE  Swept(c, h) \in [Boxes -> Seq(Cases)]
BY DEF Swept

LEMMA PacketTypes ==
    ASSUME TypeOK, Accumulating, NEW c \in Conns,
           \/ \E i \in Ids, s \in {"CE", "IE", "AB"} : Ended(c, i, s)
           \/ \E i \in Ids, cs \in Seq(Cases) : TestCaseStatus(c, i, cs)
           \/ \E i \in Ids : GradingEnd(c, i)
           \/ AppendLoad(c) \/ AppendStore(c) \/ FinalizeSum(c)
    PROVE  TypeOK'
<1>1. ASSUME NEW i \in Ids, NEW s \in {"CE", "IE", "AB"}, Ended(c, i, s)
      PROVE  TypeOK'
  <2>1. [id |-> i, status |-> s, cases |-> <<>>] \in Result
    <3>1. s \in Statuses \cup {"CE", "AB"} /\ <<>> \in Seq(Cases)
      BY DEF Statuses, Flags
    <3>2. QED
      BY <3>1, ResultType
  <2>2. chan' \in [Calls -> Result \cup {NoResult}]
    BY <1>1, <2>1, DeliverType DEF Ended
  <2>3. QED
    BY <1>1, <2>2 DEF TypeOK, Ended, connVars, caseVars, callVars
<1>2. ASSUME NEW i \in Ids, NEW cs \in Seq(Cases), TestCaseStatus(c, i, cs)
      PROVE  TypeOK'
  BY <1>2 DEF TypeOK, TestCaseStatus, HandlerStates, callVars
<1>3. ASSUME NEW i \in Ids, GradingEnd(c, i) PROVE TypeOK'
  <2>1. /\ caseResults[i] \in Boxes \cup {NoBox}
        /\ caseResults[i] # NoBox => heap[caseResults[i]] \in Seq(Cases)
    BY DEF TypeOK
  <2>2. todo' \in [Conns -> [id : Ids, cases : Seq(Cases)]]
    <3>1. todo \in [Conns -> [id : Ids, cases : Seq(Cases)]] /\ todo' = [todo EXCEPT ![c].id = i]
      BY <1>3 DEF TypeOK, GradingEnd
    <3>2. QED
      BY <3>1
  <2>3. seen' \in [Conns -> Seq(Cases)]
    <3>1. (IF caseResults[i] = NoBox THEN <<>> ELSE heap[caseResults[i]]) \in Seq(Cases)
      BY <2>1
    <3>2. QED
      BY <1>3, <3>1 DEF TypeOK, GradingEnd
  <2>4. QED
    BY <1>3, <2>1, <2>2, <2>3 DEF TypeOK, GradingEnd, HandlerStates, callVars
<1>4. CASE AppendLoad(c)
  <2>1. todo[c].id \in Ids
    BY DEF TypeOK
  <2>2. CASE caseResults[todo[c].id] # NoBox
    <3>1. /\ caseResults[todo[c].id] \in Boxes
          /\ heap[caseResults[todo[c].id]] \in Seq(Cases)
      BY <2>1, <2>2 DEF TypeOK
    <3>2. QED
      BY <1>4, <2>2, <3>1 DEF TypeOK, AppendLoad, connVars, callVars
  <2>3. CASE caseResults[todo[c].id] = NoBox
    <3>1. Fresh \in Boxes
      BY <1>4, <2>3 DEF AppendLoad, Fresh, Free
    <3>2. seen' \in [Conns -> Seq(Cases)]
      <4>1. <<>> \in Seq(Cases)
        OBVIOUS
      <4>2. QED
        BY <1>4, <2>3, <4>1 DEF TypeOK, AppendLoad
    <3>3. QED
      BY <1>4, <2>1, <2>3, <3>1, <3>2 DEF TypeOK, AppendLoad, connVars, callVars
  <2>4. QED
    BY <2>2, <2>3
<1>5. CASE AppendStore(c)
  <2>1. todo[c].cases \in Seq(Cases) /\ todo[c].cases # <<>> /\ todo[c].id \in Ids
    BY <1>5 DEF TypeOK, Accumulating, AppendStore
  <2>2. Head(todo[c].cases) \in Cases /\ Tail(todo[c].cases) \in Seq(Cases)
    BY <2>1
  <2>3. box[c] \in Boxes /\ seen[c] \in Seq(Cases)
    BY <1>5 DEF TypeOK, AppendStore
  <2>4. [heap EXCEPT ![box[c]] = Append(seen[c], Head(todo[c].cases))]
          \in [Boxes -> Seq(Cases)]
    BY <2>2, <2>3 DEF TypeOK
  <2>5. heap' \in [Boxes -> Seq(Cases)]
    BY <1>5, <2>4, SweptType DEF AppendStore
  <2>6. todo' \in [Conns -> [id : Ids, cases : Seq(Cases)]]
    <3>1. 0 \in Ids
      BY BridgeAssumption DEF Ids
    <3>2. QED
      BY <1>5, <2>1, <2>2, <3>1 DEF TypeOK, AppendStore
  <2>7. seen' \in [Conns -> Seq(Cases)] /\ pc' \in [Conns -> HandlerStates]
    <3>1. <<>> \in Seq(Cases)
      OBVIOUS
    <3>2. QED
      BY <1>5, <3>1 DEF TypeOK, AppendStore, HandlerStates
  <2>8. box' \in [Conns -> Boxes \cup {NoBox}]
    BY <1>5 DEF TypeOK, AppendStore
  <2>9. QED
    BY <1>5, <2>5, <2>6, <2>7, <2>8 DEF TypeOK, AppendStore, callVars
<1>6. CASE FinalizeSum(c)
  <2> DEFINE summed == IF box[c] = NoBox THEN <<>> ELSE heap[box[c]]
             r == [id |-> todo[c].id, status |-> StatusName(WorstStatus(summed)),
                   cases |-> seen[c]]
  <2>1. todo[c].id \in Ids /\ seen[c] \in Seq(Cases) /\ summed \in Seq(Cases)
    BY DEF TypeOK
  <2>2. StatusName(WorstStatus(summed)) \in Statuses
    BY <2>1, NameOfCases, BridgeAssumption
  <2>3. r \in Result
    BY <2>1, <2>2, ResultType
  <2>4. chan' \in [Calls -> Result \cup {NoResult}]
    BY <1>6, <2>1, <2>3, DeliverType DEF FinalizeSum
  <2>5. heap' \in [Boxes -> Seq(Cases)]
    BY <1>6, SweptType DEF TypeOK, FinalizeSum
  <2>6. todo' \in [Conns -> [id : Ids, cases : Seq(Cases)]]
    <3>1. 0 \in Ids
      BY BridgeAssumption DEF Ids
    <3>2. todo \in [Conns -> [id : Ids, cases : Seq(Cases)]]
      BY DEF TypeOK
    <3>3. todo' = [todo EXCEPT ![c].id = 0]
      BY <1>6 DEF FinalizeSum
    <3>4. QED
      BY <3>1, <3>2, <3>3
  <2>7. seen' \in [Conns -> Seq(Cases)] /\ pc' \in [Conns -> HandlerStates]
    <3>1. <<>> \in Seq(Cases)
      OBVIOUS
    <3>2. QED
      BY <1>6, <3>1 DEF TypeOK, FinalizeSum, HandlerStates
  <2>8. QED
    BY <1>6, <2>4, <2>5, <2>6, <2>7 DEF TypeOK, FinalizeSum, callVars
<1>7. QED
  BY <1>1, <1>2, <1>3, <1>4, <1>5, <1>6

LEMMA AccumulatingStep ==
    ASSUME TypeOK, Accumulating, [Next]_vars
    PROVE  Accumulating'
<1> SUFFICES ASSUME NEW c \in Conns, pc'[c] = "appending"
             PROVE  todo'[c].cases # <<>>
  BY DEF Accumulating
<1>0. pc \in [Conns -> HandlerStates] /\ todo \in [Conns -> [id : Ids, cases : Seq(Cases)]]
  BY DEF TypeOK
<1> USE DEF Accumulating, connVars, caseVars, callVars
<1>1. ASSUME NEW k \in Calls,
             SubmitPick(k) \/ SubmitNoJudge(k) \/ SubmitSendError(k) \/ Expire(k)
               \/ CallStep(k)
      PROVE  todo'[c].cases # <<>>
  BY <1>1 DEF SubmitPick, SubmitNoJudge, SubmitSendError, Expire, CallStep,
              SubmitStore, SubmitSend, SubmitReceive, SubmitTimeout, SubmitShutdown
<1>2. ASSUME NEW d \in Conns, HandlerStep(d) PROVE todo'[c].cases # <<>>
  <2>1. CASE Greet(d) \/ Register(d) \/ Deregister(d)
    BY <1>0, <2>1 DEF Greet, Register, Deregister
  <2>2. CASE AppendLoad(d)
    BY <2>2 DEF AppendLoad
  <2>3. CASE AppendStore(d)
    BY <1>0, <2>3 DEF AppendStore
  <2>4. CASE FinalizeSum(d)
    BY <1>0, <2>4 DEF FinalizeSum
  <2>5. QED
    BY <1>2, <2>1, <2>2, <2>3, <2>4 DEF HandlerStep
<1>3. ASSUME NEW d \in Conns, PeerStep(d) PROVE todo'[c].cases # <<>>
  <2>1. CASE \/ Accept(d) \/ (\E n \in PeerNames : Handshake(d, n))
             \/ HandshakeReject(d) \/ GreetError(d) \/ RecvError(d)
             \/ Stall(d) \/ Drain(d)
    BY <1>0, <2>1 DEF Accept, Handshake, HandshakeReject, GreetError, RecvError,
                      Leave, Stall, Drain
  <2>2. ASSUME NEW i \in Ids, NEW s \in {"CE", "IE", "AB"}, Ended(d, i, s)
        PROVE  todo'[c].cases # <<>>
    BY <2>2 DEF Ended
  <2>3. ASSUME NEW i \in Ids, NEW cs \in CaseLists, TestCaseStatus(d, i, cs)
        PROVE  todo'[c].cases # <<>>
    BY <1>0, <2>3 DEF TestCaseStatus
  <2>4. ASSUME NEW i \in Ids, GradingEnd(d, i) PROVE todo'[c].cases # <<>>
    BY <1>0, <2>4 DEF GradingEnd
  <2>5. QED
    BY <1>3, <2>1, <2>2, <2>3, <2>4 DEF PeerStep
<1>4. CASE Stop
  BY <1>4 DEF Stop
<1>5. CASE UNCHANGED vars
  BY <1>5 DEF vars
<1>6. QED
  BY <1>1, <1>2, <1>3, <1>4, <1>5 DEF Next

LEMMA TypeStep ==
    ASSUME TypeOK, Accumulating, [Next]_vars
    PROVE  TypeOK'
<1>1. ASSUME NEW k \in Calls,
             SubmitPick(k) \/ SubmitNoJudge(k) \/ SubmitSendError(k) \/ Expire(k)
               \/ CallStep(k)
      PROVE  TypeOK'
  BY <1>1, CallTypes DEF CallStep
<1>2. ASSUME NEW c \in Conns, HandlerStep(c) \/ PeerStep(c) PROVE TypeOK'
  BY <1>2, SessionTypes, PacketTypes, BridgeAssumption DEF HandlerStep, PeerStep
<1>3. CASE Stop
  BY <1>3 DEF TypeOK, Stop, caseVars, callVars
<1>4. CASE UNCHANGED vars
  BY <1>4 DEF TypeOK, vars, connVars, caseVars, callVars
<1>5. QED
  BY <1>1, <1>2, <1>3, <1>4 DEF Next

LEMMA TypeInit ==
    ASSUME Init
    PROVE  TypeOK /\ Accumulating
<1>1. 0 \in Ids /\ 1 \in 1..(MaxId + 1) /\ NoName \in JudgeIds
  BY BridgeAssumption DEF Ids, JudgeIds
<1>2. todo \in [Conns -> [id : Ids, cases : Seq(Cases)]]
  <2>1. [id |-> 0, cases |-> <<>>] \in [id : Ids, cases : Seq(Cases)]
    BY <1>1
  <2>2. QED
    BY <2>1 DEF Init
<1>3. seen \in [Conns -> Seq(Cases)] /\ heap \in [Boxes -> Seq(Cases)]
  <2>1. <<>> \in Seq(Cases)
    OBVIOUS
  <2>2. QED
    BY <2>1 DEF Init
<1>4. TypeOK
  BY <1>1, <1>2, <1>3 DEF Init, TypeOK, HandlerStates
<1>5. Accumulating
  BY DEF Init, Accumulating
<1>6. QED
  BY <1>4, <1>5

\* The types of the bridge's variables, under any packets: whatever a handler
\* appends is a case, and whatever reaches a channel is a result.
THEOREM TypeCorrect == Spec => [](TypeOK /\ Accumulating)
<1>1. Init => TypeOK /\ Accumulating
  BY TypeInit
<1>2. TypeOK /\ Accumulating /\ [Next]_vars => TypeOK' /\ Accumulating'
  BY TypeStep, AccumulatingStep
<1>3. QED
  BY <1>1, <1>2, PTL DEF Spec

-------------------------------------------------------------------------------
(* Verdicts and the calls they belong to *)

\* A call has neither verdict nor channel content before it is in pending.
NothingEarly ==
    \A k \in Calls : call[k] \in {"new", "picked"} =>
        chan[k] = NoResult /\ answer[k] = NoResult

\* Ids are given out in order, so that no two calls ever share one.
IdsBelowNext == \A k \in Calls : subID[k] < nextID

\* What waits in a call's channel is about its submission.
OwnChannel == \A k \in Calls : chan[k] # NoResult => chan[k].id = subID[k]

CallInv ==
    /\ NothingEarly
    /\ IdsBelowNext
    /\ PendingExact
    /\ OwnChannel
    /\ OwnResult

\* No step but a call's own and a delivery touches what CallInv speaks of.
LEMMA CallInvFrame ==
    ASSUME CallInv, UNCHANGED <<callVars, chan>>
    PROVE  CallInv'
BY DEF CallInv, NothingEarly, IdsBelowNext, PendingExact, OwnChannel, OwnResult, callVars

\* A delivered result reaches the call that holds its id, if any.
LEMMA DeliverOwn ==
    ASSUME TypeOK, CallInv, NEW i \in Ids, NEW r \in Result, r.id = i,
           Deliver(i, r), UNCHANGED callVars
    PROVE  CallInv'
<1>1. CASE pending[i] # NoCall /\ chan[pending[i]] = NoResult
  <2>1. PICK k \in Calls : pending[i] = k
    BY <1>1 DEF TypeOK
  <2>2. call[k] \in {"stored", "waiting"} /\ subID[k] = i
    BY <2>1 DEF CallInv, PendingExact
  <2>3. chan' = [chan EXCEPT ![k] = r] /\ chan \in [Calls -> Result \cup {NoResult}]
    BY <1>1, <2>1 DEF Deliver, TypeOK
  <2>4. NothingEarly'
    BY <2>2, <2>3 DEF CallInv, NothingEarly, callVars
  <2>5. OwnChannel'
    BY <2>2, <2>3 DEF CallInv, OwnChannel, callVars
  <2>6. QED
    BY <2>4, <2>5 DEF CallInv, IdsBelowNext, PendingExact, OwnResult, callVars
<1>2. CASE ~(pending[i] # NoCall /\ chan[pending[i]] = NoResult)
  BY <1>2, CallInvFrame DEF Deliver
<1>3. QED
  BY <1>1, <1>2

\* Submit's deferred Delete removes exactly the returning call.
LEMMA ReturnOwn ==
    ASSUME TypeOK, CallInv, NEW k \in Calls, NEW how,
           NEW r \in {NoResult, chan[k]}, call[k] \in {"stored", "waiting"},
           Return(k, how, r)
    PROVE  CallInv'
<1>0. /\ call \in [Calls -> {"new", "picked", "stored", "waiting", "returned"}]
      /\ subID \in [Calls -> Ids]
      /\ pending \in [Ids -> Calls \cup {NoCall}]
      /\ answer \in [Calls -> Result \cup {NoResult}]
      /\ chan \in [Calls -> Result \cup {NoResult}]
  BY DEF TypeOK
<1>1. /\ call' = [call EXCEPT ![k] = "returned"]
      /\ answer' = [answer EXCEPT ![k] = r]
      /\ chan' = [chan EXCEPT ![k] = NoResult]
      /\ pending' = [pending EXCEPT ![subID[k]] = NoCall]
      /\ nextID' = nextID /\ subID' = subID
  BY DEF Return
<1>2. NothingEarly' /\ IdsBelowNext' /\ OwnChannel'
  BY <1>0, <1>1 DEF CallInv, NothingEarly, IdsBelowNext, OwnChannel
<1>3. OwnResult'
  BY <1>0, <1>1 DEF CallInv, OwnChannel, OwnResult
<1>4. PendingExact'
  <2> SUFFICES ASSUME NEW i \in Ids, NEW m \in Calls
               PROVE  pending'[i] = m <=> call'[m] \in {"stored", "waiting"} /\ subID[m] = i
    BY <1>1 DEF PendingExact
  <2>1. pending[i] = m <=> call[m] \in {"stored", "waiting"} /\ subID[m] = i
    BY DEF CallInv, PendingExact
  <2>2. pending[subID[k]] = k
    BY <1>0 DEF CallInv, PendingExact
  <2>3. CASE m = k
    <3>1. call'[m] = "returned"
      BY <1>0, <1>1, <2>3
    <3>2. pending'[i] # m
      BY <1>0, <1>1, <2>1, <2>3, BridgeAssumption
    <3>3. QED
      BY <3>1, <3>2
  <2>4. CASE m # k
    <3>1. call'[m] = call[m]
      BY <1>0, <1>1, <2>4
    <3>2. CASE i = subID[k]
      <4>1. pending'[i] = NoCall /\ pending[i] = k
        BY <1>0, <1>1, <2>2, <3>2
      <4>2. QED
        BY <2>1, <2>4, <3>1, <4>1, BridgeAssumption
    <3>3. CASE i # subID[k]
      <4>1. pending'[i] = pending[i]
        BY <1>0, <1>1, <3>3
      <4>2. QED
        BY <2>1, <3>1, <4>1
    <3>4. QED
      BY <3>2, <3>3
  <2>5. QED
    BY <2>3, <2>4
<1>5. QED
  BY <1>2, <1>3, <1>4 DEF CallInv

\* The id a call takes from nextID is nobody else's.
LEMMA StoreOwn ==
    ASSUME TypeOK, CallInv, NEW k \in Calls, SubmitStore(k)
    PROVE  CallInv'
<1>0. /\ call \in [Calls -> {"new", "picked", "stored", "waiting", "returned"}]
      /\ subID \in [Calls -> Ids]
      /\ pending \in [Ids -> Calls \cup {NoCall}]
      /\ nextID \in Ids /\ nextID \in Nat
      /\ \A m \in Calls : subID[m] \in Nat
  BY BridgeAssumption DEF TypeOK, SubmitStore, Ids
<1>1. /\ call[k] = "picked"
      /\ call' = [call EXCEPT ![k] = "stored"]
      /\ subID' = [subID EXCEPT ![k] = nextID]
      /\ pending' = [pending EXCEPT ![nextID] = k]
      /\ nextID' = nextID + 1
      /\ UNCHANGED <<chan, answer>>
  BY DEF SubmitStore
<1>2. chan[k] = NoResult /\ answer[k] = NoResult
  BY <1>1 DEF CallInv, NothingEarly
<1>3. NothingEarly'
  BY <1>0, <1>1 DEF CallInv, NothingEarly
<1>4. IdsBelowNext'
  BY <1>0, <1>1 DEF CallInv, IdsBelowNext
<1>5. OwnChannel' /\ OwnResult'
  BY <1>0, <1>1, <1>2 DEF CallInv, OwnChannel, OwnResult
<1>6. PendingExact'
  <2> SUFFICES ASSUME NEW i \in Ids, NEW m \in Calls
               PROVE  pending'[i] = m <=> call'[m] \in {"stored", "waiting"} /\ subID'[m] = i
    BY DEF PendingExact
  <2>1. pending[i] = m <=> call[m] \in {"stored", "waiting"} /\ subID[m] = i
    BY DEF CallInv, PendingExact
  <2>2. subID[m] < nextID
    BY DEF CallInv, IdsBelowNext
  <2>3. CASE m = k
    <3>1. call'[m] = "stored" /\ subID'[m] = nextID /\ call[m] = "picked"
      BY <1>0, <1>1, <2>3
    <3>2. pending'[i] = m <=> i = nextID
      BY <1>0, <1>1, <2>1, <2>3, <3>1
    <3>3. QED
      BY <3>1, <3>2
  <2>4. CASE m # k
    <3>1. call'[m] = call[m] /\ subID'[m] = subID[m]
      BY <1>0, <1>1, <2>4
    <3>2. pending'[i] = m <=> i # nextID /\ pending[i] = m
      BY <1>0, <1>1, <2>4
    <3>3. i = nextID => subID[m] # i
      BY <1>0, <2>2
    <3>4. QED
      BY <2>1, <3>1, <3>2, <3>3
  <2>5. QED
    BY <2>3, <2>4
<1>7. QED
  BY <1>3, <1>4, <1>5, <1>6 DEF CallInv

LEMMA CallInvStep ==
    ASSUME TypeOK, CallInv, [Next]_vars
    PROVE  CallInv'
<1>0. /\ call \in [Calls -> {"new", "picked", "stored", "waiting", "returned"}]
      /\ chan \in [Calls -> Result \cup {NoResult}]
  BY DEF TypeOK
<1>1. ASSUME NEW k \in Calls,
             SubmitPick(k) \/ SubmitNoJudge(k) \/ SubmitSend(k) \/ Expire(k)
      PROVE  CallInv'
  <2>1. /\ UNCHANGED <<pending, nextID, subID, chan, answer>>
        /\ \/ call[k] = "new" /\ call' = [call EXCEPT ![k] = "picked"]
           \/ call[k] = "new" /\ call' = [call EXCEPT ![k] = "returned"]
           \/ call[k] = "stored" /\ call' = [call EXCEPT ![k] = "waiting"]
           \/ call' = call
    BY <1>1 DEF SubmitPick, SubmitNoJudge, SubmitSend, Expire
  <2>2. NothingEarly' /\ IdsBelowNext' /\ OwnChannel' /\ OwnResult'
    BY <1>0, <2>1 DEF CallInv, NothingEarly, IdsBelowNext, OwnChannel, OwnResult
  <2>3. \A m \in Calls : call'[m] \in {"stored", "waiting"}
                           <=> call[m] \in {"stored", "waiting"}
    BY <1>0, <2>1
  <2>4. PendingExact'
    BY <2>1, <2>3 DEF CallInv, PendingExact
  <2>5. QED
    BY <2>2, <2>4 DEF CallInv
<1>2. ASSUME NEW k \in Calls, SubmitStore(k) PROVE CallInv'
  BY <1>2, StoreOwn
<1>3. ASSUME NEW k \in Calls,
             SubmitSendError(k) \/ SubmitReceive(k) \/ SubmitTimeout(k) \/ SubmitShutdown(k)
      PROVE  CallInv'
  BY <1>3, ReturnOwn DEF SubmitSendError, SubmitReceive, SubmitTimeout, SubmitShutdown
<1>4. ASSUME NEW c \in Conns, HandlerStep(c) PROVE CallInv'
  <2>1. CASE Greet(c) \/ Register(c) \/ Deregister(c) \/ AppendLoad(c) \/ AppendStore(c)
    BY <2>1, CallInvFrame DEF Greet, Register, Deregister, AppendLoad, AppendStore
  <2>2. CASE FinalizeSum(c)
    <3> DEFINE summed == IF box[c] = NoBox THEN <<>> ELSE heap[box[c]]
               r == [id |-> todo[c].id, status |-> StatusName(WorstStatus(summed)),
                     cases |-> seen[c]]
    <3>1. todo[c].id \in Ids /\ seen[c] \in Seq(Cases) /\ summed \in Seq(Cases)
      BY DEF TypeOK
    <3>2. StatusName(WorstStatus(summed)) \in Statuses
      BY <3>1, NameOfCases, BridgeAssumption
    <3>3. r \in Result /\ r.id = todo[c].id
      BY <3>1, <3>2, ResultType
    <3>4. QED
      BY <2>2, <3>1, <3>3, DeliverOwn DEF FinalizeSum
  <2>3. QED
    BY <1>4, <2>1, <2>2 DEF HandlerStep
<1>5. ASSUME NEW c \in Conns, PeerStep(c) PROVE CallInv'
  <2>1. CASE \/ Accept(c) \/ (\E n \in PeerNames : Handshake(c, n))
             \/ HandshakeReject(c) \/ GreetError(c) \/ RecvError(c)
             \/ Stall(c) \/ Drain(c)
             \/ (\E i \in Ids, cs \in CaseLists : TestCaseStatus(c, i, cs))
             \/ (\E i \in Ids : GradingEnd(c, i))
    BY <2>1, CallInvFrame DEF Accept, Handshake, HandshakeReject, GreetError,
                              RecvError, Stall, Drain, TestCaseStatus, GradingEnd
  <2>2. ASSUME NEW i \in Ids, NEW s \in {"CE", "IE", "AB"}, Ended(c, i, s)
        PROVE  CallInv'
    <3> DEFINE r == [id |-> i, status |-> s, cases |-> <<>>]
    <3>1. s \in Statuses \cup {"CE", "AB"} /\ <<>> \in Seq(Cases)
      BY DEF Statuses, Flags
    <3>2. r \in Result /\ r.id = i
      BY <3>1, ResultType
    <3>3. QED
      BY <2>2, <3>2, DeliverOwn DEF Ended
  <2>3. QED
    BY <1>5, <2>1, <2>2 DEF PeerStep
<1>6. CASE Stop
  BY <1>6, CallInvFrame DEF Stop
<1>7. CASE UNCHANGED vars
  BY <1>7, CallInvFrame DEF vars
<1>8. QED
  BY <1>1, <1>2, <1>3, <1>4, <1>5, <1>6, <1>7 DEF Next, CallStep

LEMMA CallInvInit == Init => CallInv
BY BridgeAssumption DEF Init, CallInv, NothingEarly, IdsBelowNext, PendingExact, OwnChannel, OwnResult

LEMMA CallInvAlways == Spec => []CallInv
<1>1. TypeOK /\ CallInv /\ [Next]_vars => CallInv'
  BY CallInvStep
<1>2. QED
  BY <1>1, CallInvInit, TypeCorrect, PTL DEF Spec

\* Submit returns the verdict of its own submission or none: no packet of any
\* judge, late, repeated or about another submission, changes that.
THEOREM OwnResultAlways == Spec => []OwnResult
<1>1. CallInv => OwnResult
  BY DEF CallInv
<1>2. QED
  BY <1>1, CallInvAlways, PTL

\* pending is exactly the calls between Store and return, so a result never
\* misses a waiting call and a call leaves nothing behind.
THEOREM PendingAlwaysExact == Spec => []PendingExact
<1>1. CallInv => PendingExact
  BY DEF CallInv
<1>2. QED
  BY <1>1, CallInvAlways, PTL

\* What FirstVerdictWins says of one step.
Kept ==
    \A k \in Calls : chan[k] # NoResult =>
        \/ chan'[k] = chan[k]
        \/ call'[k] = "returned" /\ answer'[k] \in {chan[k], NoResult}

\* A delivery never replaces what a channel holds, and a call that ends takes
\* what it held or nothing: the first verdict to arrive is the one that counts.
THEOREM FirstVerdictCounts == Spec => FirstVerdictWins
<1>1. ASSUME TypeOK, [Next]_vars PROVE Kept
  <2>0. /\ call \in [Calls -> {"new", "picked", "stored", "waiting", "returned"}]
        /\ chan \in [Calls -> Result \cup {NoResult}]
        /\ answer \in [Calls -> Result \cup {NoResult}]
    BY <1>1 DEF TypeOK
  <2>1. ASSUME NEW i, NEW r, Deliver(i, r) PROVE Kept
    BY <2>0, <2>1 DEF Deliver, Kept
  <2>2. ASSUME NEW k \in Calls, NEW how, NEW r \in {NoResult, chan[k]}, Return(k, how, r)
        PROVE  Kept
    BY <2>0, <2>2 DEF Return, Kept
  <2>3. ASSUME UNCHANGED chan PROVE Kept
    BY <2>3 DEF Kept
  <2>4. ASSUME NEW k \in Calls,
               \/ SubmitPick(k) \/ SubmitNoJudge(k) \/ SubmitSendError(k)
               \/ Expire(k) \/ CallStep(k)
        PROVE  Kept
    <3>1. CASE \/ SubmitPick(k) \/ SubmitNoJudge(k) \/ Expire(k)
               \/ SubmitStore(k) \/ SubmitSend(k)
      BY <2>3, <3>1 DEF SubmitPick, SubmitNoJudge, Expire, SubmitStore, SubmitSend
    <3>2. CASE \/ SubmitSendError(k) \/ SubmitReceive(k)
               \/ SubmitTimeout(k) \/ SubmitShutdown(k)
      BY <2>2, <3>2 DEF SubmitSendError, SubmitReceive, SubmitTimeout, SubmitShutdown
    <3>3. QED
      BY <2>4, <3>1, <3>2 DEF CallStep
  <2>5. ASSUME NEW c \in Conns, HandlerStep(c) PROVE Kept
    <3>1. CASE \/ Greet(c) \/ Register(c) \/ Deregister(c) \/ AppendLoad(c)
               \/ AppendStore(c)
      BY <2>3, <3>1 DEF Greet, Register, Deregister, AppendLoad, AppendStore
    <3>2. CASE FinalizeSum(c)
      BY <2>1, <3>2 DEF FinalizeSum
    <3>3. QED
      BY <2>5, <3>1, <3>2 DEF HandlerStep
  <2>6. ASSUME NEW c \in Conns, PeerStep(c) PROVE Kept
    <3>1. CASE \/ Accept(c) \/ (\E n \in PeerNames : Handshake(c, n))
               \/ HandshakeReject(c) \/ GreetError(c) \/ RecvError(c)
               \/ Stall(c) \/ Drain(c)
               \/ (\E i \in Ids, cs \in CaseLists : TestCaseStatus(c, i, cs))
               \/ (\E i \in Ids : GradingEnd(c, i))
      BY <2>3, <3>1 DEF Accept, Handshake, HandshakeReject, GreetError, RecvError,
                        Stall, Drain, TestCaseStatus, GradingEnd
    <3>2. CASE \E i \in Ids, s \in {"CE", "IE", "AB"} : Ended(c, i, s)
      BY <2>1, <3>2 DEF Ended
    <3>3. QED
      BY <2>6, <3>1, <3>2 DEF PeerStep
  <2>7. CASE Stop \/ UNCHANGED vars
    BY <2>3, <2>7 DEF Stop, vars
  <2>8. QED
    BY <1>1, <2>4, <2>5, <2>6, <2>7 DEF Next
<1>2. QED
  BY <1>1, TypeCorrect, PTL DEF Spec, FirstVerdictWins, Kept

-------------------------------------------------------------------------------
(* The registry *)

LEMMA RegistryStep ==
    ASSUME TypeOK, RegistrySound, [Next]_vars
    PROVE  RegistrySound'
<1> DEFINE Live == {"serving", "appending", "finalizing", "leaving"}
<1>0. /\ pc \in [Conns -> HandlerStates]
      /\ name \in [Conns -> JudgeIds]
      /\ judges \in [JudgeIds -> Conns \cup {NoConn}]
      /\ Names \subseteq JudgeIds
      /\ NoConn \notin Conns /\ NoName \notin Names
  BY BridgeAssumption DEF TypeOK, JudgeIds
<1>1. ASSUME UNCHANGED <<pc, name, judges>> PROVE RegistrySound'
  BY <1>1 DEF RegistrySound
\* A handler that moves on, and does not touch the registry.
<1>2. ASSUME NEW c \in Conns, NEW s \in HandlerStates,
             pc[c] \in Live => s \in Live, pc' = [pc EXCEPT ![c] = s],
             UNCHANGED <<name, judges>>
      PROVE  RegistrySound'
  BY <1>0, <1>2 DEF RegistrySound
<1>3. ASSUME NEW k \in Calls,
             \/ SubmitPick(k) \/ SubmitNoJudge(k) \/ SubmitSendError(k)
             \/ Expire(k) \/ CallStep(k)
      PROVE  RegistrySound'
  BY <1>1, <1>3 DEF SubmitPick, SubmitNoJudge, SubmitSendError, Expire, CallStep,
                    SubmitStore, SubmitSend, SubmitReceive, SubmitTimeout,
                    SubmitShutdown, connVars
<1>4. ASSUME NEW c \in Conns, HandlerStep(c) PROVE RegistrySound'
  <2>1. CASE Greet(c)
    BY <1>2, <2>1 DEF Greet, HandlerStates
  <2>2. CASE Register(c)
    <3>1. /\ judges' = [judges EXCEPT ![name[c]] = c] /\ name' = name
          /\ pc' = [pc EXCEPT ![c] = "serving"]
      BY <2>2 DEF Register
    <3>2. QED
      BY <1>0, <3>1 DEF RegistrySound
  <2>3. CASE Deregister(c)
    <3> SUFFICES ASSUME NEW n \in Names, judges'[n] # NoConn
                 PROVE  name'[judges'[n]] = n /\ pc'[judges'[n]] \in Live
      BY DEF RegistrySound
    <3>1. name' = name /\ pc' = [pc EXCEPT ![c] = "gone"]
      BY <2>3 DEF Deregister
    <3>2. judges'[n] = judges[n] /\ n # name[c]
      BY <1>0, <2>3 DEF Deregister
    <3>3. name[judges[n]] = n /\ pc[judges[n]] \in Live /\ judges[n] \in Conns
      BY <1>0, <3>2 DEF RegistrySound
    <3>4. judges[n] # c
      BY <3>2, <3>3
    <3>5. QED
      BY <1>0, <3>1, <3>2, <3>3, <3>4
  <2>4. CASE AppendLoad(c)
    BY <1>1, <2>4 DEF AppendLoad, connVars
  <2>5. CASE AppendStore(c)
    BY <1>2, <2>5 DEF AppendStore, HandlerStates
  <2>6. CASE FinalizeSum(c)
    BY <1>2, <2>6 DEF FinalizeSum, HandlerStates
  <2>7. QED
    BY <1>4, <2>1, <2>2, <2>3, <2>4, <2>5, <2>6 DEF HandlerStep
<1>5. ASSUME NEW c \in Conns, PeerStep(c) PROVE RegistrySound'
  <2>1. CASE Accept(c)
    BY <1>2, <2>1 DEF Accept, HandlerStates
  <2>2. ASSUME NEW n \in PeerNames, Handshake(c, n) PROVE RegistrySound'
    <3>1. /\ pc[c] = "handshake" /\ name' = [name EXCEPT ![c] = n]
          /\ pc' = [pc EXCEPT ![c] = "greeting"] /\ judges' = judges
      BY <2>2 DEF Handshake
    <3>2. \A m \in Names : judges[m] # NoConn => judges[m] # c /\ judges[m] \in Conns
      BY <1>0, <3>1 DEF RegistrySound
    <3>3. QED
      BY <1>0, <3>1, <3>2 DEF RegistrySound
  <2>3. CASE HandshakeReject(c) \/ GreetError(c) \/ RecvError(c)
    BY <1>2, <2>3 DEF HandshakeReject, GreetError, RecvError, Leave, HandlerStates
  <2>4. CASE Stall(c) \/ Drain(c)
    BY <1>1, <2>4 DEF Stall, Drain
  <2>5. ASSUME NEW i \in Ids, NEW s \in {"CE", "IE", "AB"}, Ended(c, i, s)
        PROVE  RegistrySound'
    BY <1>1, <2>5 DEF Ended, connVars
  <2>6. ASSUME NEW i \in Ids, NEW cs \in CaseLists, TestCaseStatus(c, i, cs)
        PROVE  RegistrySound'
    BY <1>2, <2>6 DEF TestCaseStatus, HandlerStates
  <2>7. ASSUME NEW i \in Ids, GradingEnd(c, i) PROVE RegistrySound'
    BY <1>2, <2>7 DEF GradingEnd, HandlerStates
  <2>8. QED
    BY <1>5, <2>1, <2>2, <2>3, <2>4, <2>5, <2>6, <2>7 DEF PeerStep
<1>6. CASE Stop
  BY <1>1, <1>6 DEF Stop
<1>7. CASE UNCHANGED vars
  BY <1>1, <1>7 DEF vars, connVars
<1>8. QED
  BY <1>3, <1>4, <1>5, <1>6, <1>7 DEF Next

\* Under every judge's id the registry has a session of that judge that has
\* not ended, or nothing, however sessions come, go and replace each other.
THEOREM RegistryAlwaysSound == Spec => []RegistrySound
<1>1. Init => RegistrySound
  BY DEF Init, RegistrySound, JudgeIds
<1>2. TypeOK /\ RegistrySound /\ [Next]_vars => RegistrySound'
  BY RegistryStep
<1>3. QED
  BY <1>1, <1>2, TypeCorrect, PTL DEF Spec

-------------------------------------------------------------------------------
(* The arena.                                                              *)

\* The judge crashes as often as it likes; nothing else goes wrong.
JudgeOnlyCrashes == Budget.idle = 0 /\ Budget.break = 0 /\ Budget.restart = 0

Packets == [kind : {"handshake", "test-case-status"} \cup Ends, id : Ids, cases : Seq(Cases)]
JudgeTypes ==
    /\ link \in [Conns -> {"unused", "open", "closed"}]
    /\ toBridge \in [Conns -> Seq(Packets)]
    /\ toJudge \in [Conns -> Seq(Messages)]
    /\ net \in {"down", "hello", "awaiting", "reading", "begin"}
    /\ conn \in Conns \cup {NoConn}
    /\ inbox \in Messages \cup {NoWork}
    /\ grading \in Gradings \cup {NoWork}
    /\ queue \in Seq(Cases)

NoFaults == budget \in [idle : {0}, break : {0}, crash : Nat, restart : {0}, any : Nat]

-------------------------------------------------------------------------------
(* Connections *)

Early == {"idle", "handshake"}
Late == {"serving", "appending", "finalizing", "leaving", "gone"}
Busy == {"appending", "finalizing"}
HandshakePacket == Packet("handshake", 0, <<>>)

\* The judge has one connection, which stays open until it crashes.
OneConnection ==
    /\ input = conn
    /\ IF net = "down" THEN conn = NoConn ELSE conn \in Conns /\ link[conn] = "open"
    /\ \A c \in Conns : /\ link[c] = "open" => c = conn
                        /\ closed[c] => link[c] = "closed"
                        /\ link[c] = "unused" => pc[c] = "idle" /\ toBridge[c] = <<>>

\* How far the two ends of a connection are with each other.
Handshaking ==
    /\ \A c \in Conns :
         /\ pc[c] \in Early => toBridge[c] \in {<<>>, <<HandshakePacket>>}
         /\ pc[c] \in {"leaving", "gone"} => link[c] = "closed" /\ toBridge[c] = <<>>
         /\ toJudge[c] # <<>> => pc[c] \notin Early \cup {"greeting"} /\ link[c] = "open"
    /\ net = "hello" => pc[conn] \in Early /\ toBridge[conn] = <<>>
    /\ net \in {"reading", "begin"} => pc[conn] \notin Early \cup {"greeting"}
    /\ net \notin {"reading", "begin"} => grading = NoWork
    /\ inbox # NoWork <=> net = "begin"
    /\ \A n \in JudgeIds : judges[n] # NoConn => pc[judges[n]] \in Late

-------------------------------------------------------------------------------
(* Submissions and their numbers *)

Sent(k) == call[k] \in {"waiting", "returned"}

Numbered ==
    /\ \A k, m \in Calls : subID[k] = subID[m] /\ subID[k] # 0 => k = m
    /\ \A k \in Calls :
         /\ call[k] \in {"new", "picked"} => subID[k] = 0
         /\ call[k] \in {"stored", "waiting"} => subID[k] # 0
         /\ (call[k] = "picked" \/ subID[k] # 0) =>
               (target[k] \in Conns /\ pc[target[k]] \in Late)

\* Submission i was sent over c.
SentTo(c, i) == \E k \in Calls : subID[k] = i /\ target[k] = c /\ Sent(k)

\* A packet about i is under way over c.
UnderWay(c, i) == \E j \in 1 .. Len(toBridge[c]) : toBridge[c][j].id = i

Owned ==
    /\ \A c \in Conns :
         /\ pc[c] \notin Early => \A i \in Ids : UnderWay(c, i) => (i # 0 /\ SentTo(c, i))
         /\ \A i \in Ids : todo[c].id = i /\ i # 0 => SentTo(c, i)
         /\ pc[c] \in Busy <=> todo[c].id # 0
    /\ \A i \in Ids : caseResults[i] # NoBox => i # 0 /\ \E c \in Conns : SentTo(c, i)

\* Nothing about k has been said over its connection before the packet j.
Untold(c, k, j) ==
    /\ \A l \in 1 .. j - 1 : toBridge[c][l].id # subID[k]
    /\ todo[c].id # subID[k]
    /\ caseResults[subID[k]] = NoBox

Unheard(c, k) == Untold(c, k, Len(toBridge[c]) + 1)

IsRequest(c, m) ==
    /\ m.call \in Calls /\ m.id = subID[m.call] /\ m.id # 0
    /\ target[m.call] = c /\ Sent(m.call)
    /\ Unheard(c, m.call)
    /\ grading # NoWork => grading.call # m.call

\* The request m is the j-th message on its way over c.
Asked(c, j, m) == toJudge[c][j] = m /\ m.kind = "submission-request"

\* A submission is on its way to the judge once, before anything is said of it.
Requests ==
    \A c \in Conns, m \in Messages :
      /\ \A j \in 1 .. Len(toJudge[c]) : Asked(c, j, m) =>
           /\ IsRequest(c, m)
           /\ inbox # NoWork /\ conn = c => inbox.call # m.call
           /\ \A l \in 1 .. Len(toJudge[c]), w \in Messages :
                Asked(c, l, w) /\ w.call = m.call => l = j
      /\ inbox = m /\ conn = c => IsRequest(c, m)

Grading ==
    /\ grading = NoWork => queue = <<>>
    /\ grading # NoWork =>
         /\ grading.id = subID[grading.call] /\ grading.id # 0
         /\ target[grading.call] = conn /\ Sent(grading.call)
         /\ grading.end \in {"sent", Plan[grading.call].end}
         /\ grading.end = "sent" => queue = <<>> /\ grading.left = <<>>

-------------------------------------------------------------------------------
(* The story of a connection *)

\* What was said so far: the first n cases of a call, or nothing of anybody.
States == [of : Calls \cup {NoCall}, n : Nat]
Silence == [of |-> NoCall, n |-> 0]

IsState(c, s) ==
    /\ s \in States
    /\ IF s.of = NoCall THEN s.n = 0
       ELSE target[s.of] = c /\ subID[s.of] # 0 /\ s.n \in 1 .. Len(Plan[s.of].cases)

\* The cases of k's source after the first m, up to the n-th.
Part(k, m, n) == [i \in 1 .. n - m |-> Plan[k].cases[m + i]]

\* The packet j goes on from s to t.
Tells(c, j, s, t) ==
    \E k \in Calls :
      /\ toBridge[c][j].id = subID[k] /\ subID[k] # 0 /\ target[k] = c
      /\ s.of \in {NoCall, k}
      /\ s.of = NoCall => Untold(c, k, j)
      /\ \/ /\ toBridge[c][j].kind = "test-case-status"
            /\ \E n \in s.n + 1 .. Len(Plan[k].cases) :
                 toBridge[c][j].cases = Part(k, s.n, n) /\ t = [of |-> k, n |-> n]
         \/ /\ toBridge[c][j].kind = Plan[k].end
            /\ s.n = Len(Plan[k].cases)
            /\ t = Silence

\* What the judge has still to say after s.
JudgeAt(s) ==
    IF grading = NoWork \/ grading.end = "sent" THEN s.of = NoCall
    ELSE LET k == grading.call IN
         /\ s.of \in {NoCall, k}
         /\ s.of = NoCall => Unheard(conn, k)
         /\ \E q \in s.n .. Len(Plan[k].cases) :
              queue = Part(k, s.n, q) /\ grading.left = Part(k, q, Len(Plan[k].cases))

\* The slice of k holds its first n cases.
Holds(k, n) ==
    IF caseResults[subID[k]] = NoBox THEN n = 0
    ELSE heap[caseResults[subID[k]]] = Part(k, 0, n)

\* What the handler of c has made of what it was told until s.
HandlerAt(c, s) ==
    /\ pc[c] = "appending" =>
         /\ s.of # NoCall /\ todo[c].id = subID[s.of]
         /\ \E m \in 0 .. s.n :
              /\ todo[c].cases = Part(s.of, m, s.n)
              /\ IF box[c] = NoBox THEN Holds(s.of, m) ELSE seen[c] = Part(s.of, 0, m)
    /\ pc[c] = "finalizing" =>
         /\ s.of = NoCall
         /\ \E k \in Calls :
              /\ todo[c].id = subID[k] /\ Plan[k].end = "grading-end"
              /\ seen[c] = Plan[k].cases
              /\ IF box[c] = NoBox THEN Plan[k].cases = <<>> ELSE heap[box[c]] = Plan[k].cases
    /\ pc[c] \notin Busy /\ s.of # NoCall => Holds(s.of, s.n)

\* The packets on their way over c tell a story that begins where its handler
\* is and ends where the judge is.
Story(c) ==
    \E t \in [1 .. Len(toBridge[c]) + 1 -> States] :
      /\ \A j \in 1 .. Len(toBridge[c]) + 1 : IsState(c, t[j])
      /\ \A j \in 1 .. Len(toBridge[c]) : Tells(c, j, t[j], t[j + 1])
      /\ HandlerAt(c, t[1])
      /\ conn = c => JudgeAt(t[Len(toBridge[c]) + 1])

Stories ==
    \A c \in Conns :
       pc[c] \in {"greeting", "registering", "serving", "appending", "finalizing"} => Story(c)

-------------------------------------------------------------------------------

\* Slices are shared by nobody but a submission's map entry and its handler.
SlicesApart ==
    /\ \A i, j \in Ids : caseResults[i] = caseResults[j] /\ caseResults[i] # NoBox => i = j
    /\ \A c, d \in Conns : box[c] = box[d] /\ box[c] # NoBox => c = d
    /\ \A c \in Conns : box[c] # NoBox =>
         /\ pc[c] \in Busy
         /\ pc[c] = "appending" => box[c] = caseResults[todo[c].id]
         /\ pc[c] = "finalizing" => \A i \in Ids : caseResults[i] # box[c]

IsTrue(k, r) == r.status = TrueVerdict(k).status /\ r.cases = TrueVerdict(k).cases

TrueAnswers ==
    \A k \in Calls : /\ chan[k] # NoResult => IsTrue(k, chan[k])
                     /\ answer[k] # NoResult => IsTrue(k, answer[k])

-------------------------------------------------------------------------------
(* Sequences, and parts of a source's cases *)

LEMMA Appended ==
    ASSUME NEW S, NEW s \in Seq(S), NEW e \in S
    PROVE  /\ Append(s, e) \in Seq(S)
           /\ Len(Append(s, e)) = Len(s) + 1
           /\ \A i \in 1 .. Len(s) : Append(s, e)[i] = s[i]
           /\ Append(s, e)[Len(s) + 1] = e
OBVIOUS

LEMMA Shortened ==
    ASSUME NEW S, NEW s \in Seq(S), s # <<>>
    PROVE  /\ Tail(s) \in Seq(S)
           /\ Len(s) \in Nat \ {0}
           /\ Len(Tail(s)) = Len(s) - 1
           /\ Head(s) = s[1] /\ s[1] \in S
           /\ \A i \in 1 .. Len(Tail(s)) : Tail(s)[i] = s[i + 1]
<1>1. Tail(s) \in Seq(S) /\ Len(Tail(s)) = Len(s) - 1 /\ Len(s) \in Nat \ {0}
  BY EmptySeq, HeadTailProperties, LenProperties
<1>2. Head(s) = s[1] /\ s[1] \in S
  BY HeadTailProperties, <1>1, ElementOfSeq
<1>3. QED
  BY <1>1, <1>2, HeadTailProperties

LEMMA Parts ==
    ASSUME NEW k \in Calls, NEW m \in Nat, NEW n \in Nat, m <= n, n <= Len(Plan[k].cases)
    PROVE  /\ Part(k, m, n) \in Seq(Cases)
           /\ Len(Part(k, m, n)) = n - m
           /\ Part(k, m, n) = <<>> <=> m = n
           /\ n < Len(Plan[k].cases) =>
                Append(Part(k, m, n), Plan[k].cases[n + 1]) = Part(k, m, n + 1)
           /\ m < n => /\ Head(Part(k, m, n)) = Plan[k].cases[m + 1]
                       /\ Tail(Part(k, m, n)) = Part(k, m + 1, n)
<1>0. Plan[k].cases \in Seq(Cases)
  BY ArenaAssumption
<1> DEFINE w == Plan[k].cases
<1>1. Len(w) \in Nat /\ n <= Len(w) /\ \A i \in 1 .. Len(w) : w[i] \in Cases
  BY <1>0
<1> HIDE DEF w
<1>2. n - m \in Nat
  OBVIOUS
<1>3. Part(k, m, n) = [i \in 1 .. n - m |-> w[m + i]]
  BY DEF Part, w
<1>4. Part(k, m, n) \in Seq(Cases) /\ Len(Part(k, m, n)) = n - m
  <2>1. \A i \in 1 .. n - m : w[m + i] \in Cases
    BY <1>1
  <2>2. Part(k, m, n) \in [1 .. n - m -> Cases]
    BY <1>3, <2>1
  <2>3. QED
    BY <1>2, <2>2, IsASeq, LenProperties
<1>5. Part(k, m, n) = <<>> <=> m = n
  BY <1>4, EmptySeq
<1>6. ASSUME n < Len(w)
      PROVE  Append(Part(k, m, n), w[n + 1]) = Part(k, m, n + 1)
  <2>1. Part(k, m, n + 1) = [i \in 1 .. n + 1 - m |-> w[m + i]]
    BY DEF Part, w
  <2>2. Part(k, m, n + 1) \in Seq(Cases) /\ Len(Part(k, m, n + 1)) = n - m + 1
    <3>1. \A i \in 1 .. n + 1 - m : w[m + i] \in Cases
      BY <1>1, <1>6
    <3>2. Part(k, m, n + 1) \in [1 .. n + 1 - m -> Cases]
      BY <2>1, <3>1
    <3>3. n + 1 - m \in Nat /\ n + 1 - m = n - m + 1
      BY <1>2
    <3>4. QED
      BY <3>2, <3>3, IsASeq, LenProperties
  <2>3. w[n + 1] \in Cases
    BY <1>1, <1>6
  <2> DEFINE a == Append(Part(k, m, n), w[n + 1])
  <2>4. /\ a \in Seq(Cases) /\ Len(a) = n - m + 1
        /\ \A i \in 1 .. n - m : a[i] = Part(k, m, n)[i]
        /\ a[n - m + 1] = w[n + 1]
    BY <1>4, <2>3, Appended
  <2> HIDE DEF a
  <2>5. \A i \in 1 .. n - m + 1 : a[i] = Part(k, m, n + 1)[i]
    <3> SUFFICES ASSUME NEW i \in 1 .. n - m + 1 PROVE a[i] = Part(k, m, n + 1)[i]
      OBVIOUS
    <3>1. Part(k, m, n + 1)[i] = w[m + i]
      BY <2>1
    <3>2. CASE i \in 1 .. n - m
      BY <1>3, <2>4, <3>1, <3>2
    <3>3. CASE i = n - m + 1
      BY <2>4, <3>1, <3>3
    <3>4. QED
      BY <3>2, <3>3
  <2>6. QED
    BY <2>2, <2>4, <2>5, SeqEqual DEF a
<1>7. ASSUME m < n
      PROVE  /\ Head(Part(k, m, n)) = w[m + 1]
             /\ Tail(Part(k, m, n)) = Part(k, m + 1, n)
  <2>1. Part(k, m + 1, n) = [i \in 1 .. n - (m + 1) |-> w[m + 1 + i]]
    BY DEF Part, w
  <2>2. Part(k, m + 1, n) \in Seq(Cases) /\ Len(Part(k, m + 1, n)) = n - m - 1
    <3>1. \A i \in 1 .. n - (m + 1) : w[m + 1 + i] \in Cases
      BY <1>1
    <3>2. Part(k, m + 1, n) \in [1 .. n - (m + 1) -> Cases]
      BY <2>1, <3>1
    <3>3. n - (m + 1) \in Nat /\ n - (m + 1) = n - m - 1
      BY <1>7
    <3>4. QED
      BY <3>2, <3>3, IsASeq, LenProperties
  <2>3. Part(k, m, n) # <<>>
    BY <1>5, <1>7
  <2>4. /\ Head(Part(k, m, n)) = Part(k, m, n)[1]
        /\ Tail(Part(k, m, n)) \in Seq(Cases)
        /\ Len(Tail(Part(k, m, n))) = n - m - 1
        /\ \A i \in 1 .. n - m - 1 : Tail(Part(k, m, n))[i] = Part(k, m, n)[i + 1]
    BY <1>4, <2>3, Shortened
  <2>5. \A i \in 1 .. n - m - 1 : Tail(Part(k, m, n))[i] = Part(k, m + 1, n)[i]
    BY <1>3, <2>1, <2>4
  <2>6. Head(Part(k, m, n)) = w[m + 1]
    BY <1>3, <1>7, <2>4
  <2>7. QED
    BY <2>2, <2>4, <2>5, <2>6, SeqEqual
<1>8. QED
  BY <1>4, <1>5, <1>6, <1>7 DEF w

LEMMA WholePart ==
    ASSUME NEW k \in Calls
    PROVE  Part(k, 0, Len(Plan[k].cases)) = Plan[k].cases
<1>0. Plan[k].cases \in Seq(Cases)
  BY ArenaAssumption
<1>1. Len(Plan[k].cases) \in Nat
  BY <1>0
<1>2. Part(k, 0, Len(Plan[k].cases)) = [i \in 1 .. Len(Plan[k].cases) - 0 |-> Plan[k].cases[0 + i]]
  BY DEF Part
<1>3. /\ Part(k, 0, Len(Plan[k].cases)) \in Seq(Cases)
      /\ Len(Part(k, 0, Len(Plan[k].cases))) = Len(Plan[k].cases)
  BY <1>1, Parts
<1>4. \A i \in 1 .. Len(Plan[k].cases) : Part(k, 0, Len(Plan[k].cases))[i] = Plan[k].cases[i]
  BY <1>1, <1>2
<1>5. QED
  BY <1>0, <1>3, <1>4, SeqEqual

-------------------------------------------------------------------------------
(* What the steps do *)

BridgeInv == TypeOK /\ Accumulating /\ CallInv

\* A step of the bridge with a judge of any name that finds any cases.
LEMMA AnyBridgeStep ==
    ASSUME BridgeInv,
           \/ [Next]_vars
           \/ \E c \in Conns, n \in JudgeIds : Handshake(c, n)
           \/ \E c \in Conns, i \in Ids, cs \in Seq(Cases) : TestCaseStatus(c, i, cs)
    PROVE  BridgeInv'
<1>1. CASE [Next]_vars
  BY <1>1, TypeStep, AccumulatingStep, CallInvStep DEF BridgeInv
<1>2. ASSUME NEW c \in Conns, NEW n \in JudgeIds, Handshake(c, n) PROVE BridgeInv'
  <2>1. TypeOK'
    BY <1>2, SessionTypes DEF BridgeInv
  <2>2. CallInv'
    BY <1>2, CallInvFrame DEF BridgeInv, Handshake
  <2>3. pc \in [Conns -> HandlerStates] /\ pc' = [pc EXCEPT ![c] = "greeting"] /\ todo' = todo
    BY <1>2 DEF BridgeInv, TypeOK, Handshake, caseVars
  <2>4. Accumulating'
    BY <2>3 DEF BridgeInv, Accumulating
  <2>5. QED
    BY <2>1, <2>2, <2>4 DEF BridgeInv
<1>3. ASSUME NEW c \in Conns, NEW i \in Ids, NEW cs \in Seq(Cases), TestCaseStatus(c, i, cs)
      PROVE  BridgeInv'
  <2>1. TypeOK'
    BY <1>3, PacketTypes DEF BridgeInv
  <2>2. CallInv'
    BY <1>3, CallInvFrame DEF BridgeInv, TestCaseStatus
  <2>3. /\ pc \in [Conns -> HandlerStates] /\ pc' = [pc EXCEPT ![c] = "appending"]
        /\ todo \in [Conns -> [id : Ids, cases : Seq(Cases)]]
        /\ todo' = [todo EXCEPT ![c] = [id |-> i, cases |-> cs]] /\ cs # <<>>
    BY <1>3 DEF BridgeInv, TypeOK, TestCaseStatus
  <2>4. Accumulating'
    BY <2>3 DEF BridgeInv, Accumulating
  <2>5. QED
    BY <2>1, <2>2, <2>4 DEF BridgeInv
<1>4. QED
  BY <1>1, <1>2, <1>3

CasesSame == todo' = todo /\ box' = box /\ seen' = seen /\ caseResults' = caseResults /\ heap' = heap

CallsSame ==
    /\ pending' = pending /\ nextID' = nextID /\ call' = call /\ subID' = subID
    /\ target' = target /\ expired' = expired /\ outcome' = outcome /\ answer' = answer

BridgeSame ==
    /\ pc' = pc /\ name' = name /\ closed' = closed /\ full' = full /\ judges' = judges
    /\ CasesSame /\ CallsSame /\ chan' = chan /\ done' = done

JudgeSame ==
    /\ link' = link /\ net' = net /\ conn' = conn /\ input' = input /\ inbox' = inbox
    /\ grading' = grading /\ queue' = queue /\ budget' = budget

LEMMA Same ==
    /\ UNCHANGED vars => BridgeSame
    /\ UNCHANGED caseVars => CasesSame
    /\ UNCHANGED callVars => CallsSame
    /\ UNCHANGED judgeProcess => JudgeSame
    /\ UNCHANGED judgeVars => JudgeSame /\ toBridge' = toBridge /\ toJudge' = toJudge
BY DEF vars, connVars, caseVars, callVars, judgeProcess, judgeVars, BridgeSame, CasesSame,
       CallsSame, JudgeSame

\* While the judge lives its connection is open at both ends, and what it sends
\* is sent.
LEMMA Sends ==
    ASSUME JudgeTypes, OneConnection, net # "down"
    PROVE  conn \in Conns /\ link[conn] = "open" /\ ~closed[conn]
BY DEF JudgeTypes, OneConnection

LEMMA HelloDoes ==
    ASSUME JudgeTypes, OneConnection, Hello
    PROVE  /\ net = "hello" /\ net' = "awaiting" /\ conn \in Conns
           /\ toBridge' = [toBridge EXCEPT ![conn] = Append(@, HandshakePacket)]
           /\ BridgeSame
           /\ link' = link /\ toJudge' = toJudge /\ conn' = conn /\ input' = input
           /\ inbox' = inbox /\ grading' = grading /\ queue' = queue /\ budget' = budget
BY Sends, Same DEF Hello, SendPacket, HandshakePacket

LEMMA FlushDoes ==
    ASSUME JudgeTypes, OneConnection, net # "down", Flush
    PROVE  /\ queue # <<>> /\ queue' = <<>> /\ conn \in Conns
           /\ toBridge' = [toBridge EXCEPT ![conn] =
                             Append(@, Packet("test-case-status", grading.id, queue))]
           /\ BridgeSame
           /\ link' = link /\ toJudge' = toJudge /\ net' = net /\ conn' = conn /\ input' = input
           /\ inbox' = inbox /\ grading' = grading /\ budget' = budget
BY Sends, Same DEF Flush, SendPacket

LEMMA EndGradingDoes ==
    ASSUME JudgeTypes, OneConnection, net # "down", EndGrading
    PROVE  /\ grading # NoWork /\ grading.left = <<>> /\ queue = <<>> /\ grading.end # "sent"
           /\ grading' = [grading EXCEPT !.end = "sent"] /\ conn \in Conns
           /\ toBridge' = [toBridge EXCEPT ![conn] =
                             Append(@, Packet(grading.end, grading.id, <<>>))]
           /\ BridgeSame
           /\ link' = link /\ toJudge' = toJudge /\ net' = net /\ conn' = conn /\ input' = input
           /\ inbox' = inbox /\ queue' = queue /\ budget' = budget
BY Sends, Same DEF EndGrading, SendPacket

LEMMA ConnectDoes ==
    ASSUME JudgeTypes, OneConnection, NEW c \in Conns, Connect(c)
    PROVE  /\ net = "down" /\ conn = NoConn /\ link[c] = "unused"
           /\ link' = [link EXCEPT ![c] = "open"] /\ toJudge' = toJudge
           /\ net' = "hello" /\ conn' = c /\ input' = c
           /\ BridgeSame
           /\ toBridge' = toBridge /\ inbox' = inbox /\ grading' = grading
           /\ queue' = queue /\ budget' = budget
<1>1. net = "down" /\ conn = NoConn /\ input = NoConn /\ link[c] = "unused"
  BY DEF Connect, JudgeTypes, OneConnection
<1>2. \A d \in Conns : d # input
  BY <1>1, BridgeAssumption
<1>3. /\ link \in [Conns -> {"unused", "open", "closed"}]
      /\ toJudge \in [Conns -> Seq(Messages)]
  BY DEF JudgeTypes
<1>4. link' = [link EXCEPT ![c] = "open"]
  <2>1. link' = [d \in Conns |-> IF d = c THEN "open"
                                ELSE IF d = input /\ link[d] = "open" THEN "closed"
                                ELSE link[d]]
    BY DEF Connect
  <2>2. link' = [d \in Conns |-> IF d = c THEN "open" ELSE link[d]]
    BY <1>2, <2>1
  <2>3. QED
    BY <1>3, <2>2
<1>5. toJudge' = toJudge
  <2>1. toJudge' = [d \in Conns |-> IF d = input THEN <<>> ELSE toJudge[d]]
    BY DEF Connect
  <2>2. toJudge' = [d \in Conns |-> toJudge[d]]
    BY <1>2, <2>1
  <2>3. QED
    BY <1>3, <2>2
<1>6. QED
  BY <1>1, <1>4, <1>5, Same DEF Connect

LEMMA CrashDoes ==
    ASSUME JudgeTypes, OneConnection, NoFaults, Crash
    PROVE  /\ net # "down" /\ conn \in Conns
           /\ link' = [link EXCEPT ![conn] = "closed"]
           /\ toJudge' = [toJudge EXCEPT ![conn] = <<>>]
           /\ net' = "down" /\ conn' = NoConn /\ input' = NoConn
           /\ inbox' = NoWork /\ grading' = NoWork /\ queue' = <<>>
           /\ NoFaults'
           /\ BridgeSame /\ toBridge' = toBridge
<1>1. net # "down" /\ conn \in Conns /\ input = conn /\ link[conn] = "open"
  BY Sends DEF Crash, OneConnection
<1>2. /\ link \in [Conns -> {"unused", "open", "closed"}]
      /\ toJudge \in [Conns -> Seq(Messages)]
  BY DEF JudgeTypes
<1>3. link' = [link EXCEPT ![conn] = "closed"]
  <2>1. link' = [c \in Conns |-> IF c \in {conn, input} /\ link[c] = "open"
                                THEN "closed" ELSE link[c]]
    BY DEF Crash, Exit
  <2>2. link' = [c \in Conns |-> IF c = conn THEN "closed" ELSE link[c]]
    BY <1>1, <2>1
  <2>3. QED
    BY <1>1, <1>2, <2>2
<1>4. toJudge' = [toJudge EXCEPT ![conn] = <<>>]
  <2>1. toJudge' = [c \in Conns |-> IF c \in {conn, input} THEN <<>> ELSE toJudge[c]]
    BY DEF Crash, Exit
  <2>2. toJudge' = [c \in Conns |-> IF c = conn THEN <<>> ELSE toJudge[c]]
    BY <1>1, <2>1
  <2>3. QED
    BY <1>1, <1>2, <2>2
<1>5. NoFaults'
  <2>1. /\ budget["crash"] > 0 /\ budget.any > 0
        /\ budget' = [budget EXCEPT !["crash"] = @ - 1, !.any = @ - 1]
    BY DEF Crash, Spend
  <2>2. budget' = [budget EXCEPT !.crash = @ - 1, !.any = @ - 1]
    BY <2>1
  <2>3. budget.crash > 0 /\ budget.any > 0
    BY <2>1
  <2>4. budget.crash - 1 \in Nat /\ budget.any - 1 \in Nat
    <3>1. budget.crash \in Nat /\ budget.any \in Nat
      BY DEF NoFaults
    <3>2. QED
      BY <2>3, <3>1
  <2>5. /\ budget'.idle = 0 /\ budget'.break = 0 /\ budget'.restart = 0
        /\ budget'.crash = budget.crash - 1 /\ budget'.any = budget.any - 1
    BY <2>2 DEF NoFaults
  <2>6. QED
    BY <2>2, <2>4, <2>5 DEF NoFaults
<1>6. QED
  BY <1>1, <1>3, <1>4, <1>5, Same DEF Crash, Exit

-------------------------------------------------------------------------------
(* What steps that do not concern a part leave of it *)

\* A number, once given, stays with its call and its connection.
IdsKept ==
    \A k \in Calls : subID[k] # 0 =>
       subID'[k] = subID[k] /\ target'[k] = target[k] /\ (Sent(k) => Sent(k)')

LEMMA CallsKeepIds == CallsSame => IdsKept
BY DEF CallsSame, IdsKept, Sent

LEMMA SentToKept ==
    ASSUME IdsKept, NEW c \in Conns, NEW i, i # 0, SentTo(c, i)
    PROVE  SentTo(c, i)'
BY DEF IdsKept, SentTo

LEMMA NumberedFrame ==
    ASSUME Numbered, CallsSame, \A c \in Conns : pc[c] \in Late => pc'[c] \in Late
    PROVE  Numbered'
BY DEF Numbered, CallsSame

LEMMA OwnedFrame ==
    ASSUME Owned, IdsKept, todo' = todo, caseResults' = caseResults,
           \A c \in Conns :
              /\ pc'[c] \notin Early =>
                    \/ toBridge'[c] = <<>>
                    \/ toBridge'[c] = toBridge[c] /\ pc[c] \notin Early
              /\ pc'[c] \in Busy <=> pc[c] \in Busy
    PROVE  Owned'
<1>1. ASSUME NEW c \in Conns, pc'[c] \notin Early, NEW i \in Ids, UnderWay(c, i)'
      PROVE  i # 0 /\ SentTo(c, i)'
  <2>1. toBridge'[c] = toBridge[c] /\ pc[c] \notin Early
    BY <1>1 DEF UnderWay
  <2>2. UnderWay(c, i)
    BY <1>1, <2>1 DEF UnderWay
  <2>3. QED
    BY <1>1, <2>1, <2>2, SentToKept DEF Owned
<1>2. ASSUME NEW c \in Conns, NEW i \in Ids, todo'[c].id = i, i # 0 PROVE SentTo(c, i)'
  BY <1>2, SentToKept DEF Owned
<1>3. ASSUME NEW i \in Ids, caseResults'[i] # NoBox
      PROVE  i # 0 /\ \E c \in Conns : SentTo(c, i)'
  BY <1>3, SentToKept DEF Owned
<1>4. QED
  BY <1>1, <1>2, <1>3 DEF Owned

\* Whoever is told of nothing now is told of nothing after the step.
StillUntold(c, j, i) ==
    \A k \in Calls : subID[k] # 0 /\ target[k] = c /\ Untold(c, k, j) => Untold(c, k, i)'

LEMMA StateKept ==
    ASSUME IdsKept, NEW c \in Conns, NEW s, IsState(c, s)
    PROVE  IsState(c, s)'
BY DEF IsState, IdsKept, States

LEMMA TellsMoved ==
    ASSUME IdsKept, NEW c \in Conns, NEW j, NEW i, NEW s, NEW t,
           toBridge'[c][i] = toBridge[c][j], StillUntold(c, j, i), Tells(c, j, s, t)
    PROVE  Tells(c, i, s, t)'
<1>1. PICK k \in Calls :
        /\ toBridge[c][j].id = subID[k] /\ subID[k] # 0 /\ target[k] = c
        /\ s.of \in {NoCall, k}
        /\ s.of = NoCall => Untold(c, k, j)
        /\ \/ /\ toBridge[c][j].kind = "test-case-status"
              /\ \E n \in s.n + 1 .. Len(Plan[k].cases) :
                   toBridge[c][j].cases = Part(k, s.n, n) /\ t = [of |-> k, n |-> n]
           \/ /\ toBridge[c][j].kind = Plan[k].end
              /\ s.n = Len(Plan[k].cases)
              /\ t = Silence
  BY DEF Tells
<1>2. subID'[k] = subID[k] /\ target'[k] = target[k]
  BY <1>1 DEF IdsKept
<1>3. s.of = NoCall => Untold(c, k, i)'
  BY <1>1 DEF StillUntold
<1>4. QED
  BY <1>1, <1>2, <1>3 DEF Tells

\* What happens at the two ends.
LEMMA StoryMoves ==
    ASSUME JudgeTypes, NEW c \in Conns, Story(c), IdsKept, toBridge'[c] = toBridge[c],
           \A j \in Nat : StillUntold(c, j, j),
           \A s : IsState(c, s) /\ HandlerAt(c, s) => HandlerAt(c, s)',
           conn' = c => conn = c,
           conn' = c => \A s : IsState(c, s) /\ JudgeAt(s) => JudgeAt(s)'
    PROVE  Story(c)'
<1>1. PICK t \in [1 .. Len(toBridge[c]) + 1 -> States] :
        /\ \A j \in 1 .. Len(toBridge[c]) + 1 : IsState(c, t[j])
        /\ \A j \in 1 .. Len(toBridge[c]) : Tells(c, j, t[j], t[j + 1])
        /\ HandlerAt(c, t[1])
        /\ conn = c => JudgeAt(t[Len(toBridge[c]) + 1])
  BY DEF Story
<1>2. Len(toBridge[c]) \in Nat
  BY DEF JudgeTypes
<1>3. \A j \in 1 .. Len(toBridge[c]) + 1 : IsState(c, t[j])'
  BY <1>1, StateKept
<1>4. ASSUME NEW j \in 1 .. Len(toBridge[c]) PROVE Tells(c, j, t[j], t[j + 1])'
  BY <1>1, <1>2, TellsMoved
<1>5. HandlerAt(c, t[1])'
  BY <1>1, <1>2
<1>6. conn' = c => JudgeAt(t[Len(toBridge[c]) + 1])'
  <2> SUFFICES ASSUME conn' = c PROVE JudgeAt(t[Len(toBridge[c]) + 1])'
    OBVIOUS
  <2>1. JudgeAt(t[Len(toBridge[c]) + 1]) /\ IsState(c, t[Len(toBridge[c]) + 1])
    BY <1>1, <1>2
  <2> DEFINE s == t[Len(toBridge[c]) + 1]
  <2>2. \A u : IsState(c, u) /\ JudgeAt(u) => JudgeAt(u)'
    OBVIOUS
  <2>3. QED
    BY <2>1, <2>2
<1>7. QED
  BY <1>1, <1>3, <1>4, <1>5, <1>6 DEF Story

\* The judge says p.
LEMMA StorySays ==
    ASSUME JudgeTypes, BridgeSame, NEW c \in Conns, conn = c, conn' = c, NEW p \in Packets,
           toBridge' = [toBridge EXCEPT ![c] = Append(@, p)], Story(c),
           NEW n \in Nat, n = Len(toBridge[c]),
           \A s : IsState(c, s) /\ JudgeAt(s) =>
              \E u : IsState(c, u) /\ JudgeAt(u)' /\ Tells(c, n + 1, s, u)'
    PROVE  Story(c)'
<1>1. PICK t \in [1 .. Len(toBridge[c]) + 1 -> States] :
        /\ \A j \in 1 .. Len(toBridge[c]) + 1 : IsState(c, t[j])
        /\ \A j \in 1 .. Len(toBridge[c]) : Tells(c, j, t[j], t[j + 1])
        /\ HandlerAt(c, t[1])
        /\ JudgeAt(t[Len(toBridge[c]) + 1])
  BY DEF Story
<1>2. /\ n \in Nat /\ toBridge'[c] = Append(toBridge[c], p) /\ Len(toBridge'[c]) = n + 1
      /\ \A j \in 1 .. n : toBridge'[c][j] = toBridge[c][j]
  <2>1. toBridge[c] \in Seq(Packets) /\ toBridge'[c] = Append(toBridge[c], p)
    BY DEF JudgeTypes
  <2>2. QED
    BY <2>1, Appended, LenProperties
<1>3. IdsKept /\ CasesSame /\ pc' = pc
  BY CallsKeepIds DEF BridgeSame
<1>4. PICK u : IsState(c, u) /\ JudgeAt(u)' /\ Tells(c, n + 1, t[n + 1], u)'
  <2>1. n + 1 \in 1 .. n + 1
    BY <1>2
  <2>2. IsState(c, t[n + 1]) /\ JudgeAt(t[n + 1])
    BY <1>1, <2>1
  <2>3. QED
    BY <2>2
<1>5. PICK v \in [1 .. n + 2 -> States] : (\A j \in 1 .. n + 1 : v[j] = t[j]) /\ v[n + 2] = u
  <2> DEFINE v == [j \in 1 .. n + 2 |-> IF j \in 1 .. n + 1 THEN t[j] ELSE u]
  <2>1. /\ \A j \in 1 .. n + 1 : v[j] = t[j]
        /\ v[n + 2] = u /\ v \in [1 .. n + 2 -> States]
    BY <1>1, <1>2, <1>4 DEF IsState
  <2>2. QED
    BY <2>1
<1>6. \A j \in 1 .. n + 2 : IsState(c, v[j])'
  <2> SUFFICES ASSUME NEW j \in 1 .. n + 2 PROVE IsState(c, v[j])'
    OBVIOUS
  <2>1. CASE j \in 1 .. n + 1
    <3>1. IsState(c, t[j])
      BY <1>1, <2>1
    <3>2. QED
      BY <1>3, <1>5, <2>1, <3>1, StateKept
  <2>2. CASE j = n + 2
    BY <1>3, <1>4, <1>5, <2>2, StateKept
  <2>3. QED
    BY <1>2, <2>1, <2>2
<1>7. ASSUME NEW j \in 1 .. n + 1 PROVE Tells(c, j, v[j], v[j + 1])'
  <2>1. CASE j \in 1 .. n
    <3>1. Tells(c, j, t[j], t[j + 1]) /\ v[j] = t[j] /\ v[j + 1] = t[j + 1]
      BY <1>1, <1>2, <1>5, <2>1
    <3>2. StillUntold(c, j, j)
      BY <1>2, <1>3, <2>1 DEF StillUntold, Untold, CasesSame, IdsKept
    <3>3. QED
      BY <1>2, <1>3, <2>1, <3>1, <3>2, TellsMoved
  <2>2. CASE j = n + 1
    <3>1. v[j] = t[n + 1] /\ v[j + 1] = u
      BY <1>2, <1>5, <2>2
    <3>2. QED
      BY <1>4, <2>2, <3>1
  <2>3. QED
    BY <1>2, <2>1, <2>2
<1>8. HandlerAt(c, v[1])'
  <2>1. v[1] = t[1]
    BY <1>2, <1>5
  <2>2. HandlerAt(c, t[1])'
    BY <1>1, <1>3 DEF HandlerAt, Holds, CasesSame, BridgeSame, CallsSame
  <2>3. QED
    BY <2>1, <2>2
<1>9. JudgeAt(v[n + 2])'
  BY <1>4, <1>5
<1>10. Len(toBridge'[c]) = n + 1 /\ n + 1 + 1 = n + 2
  BY <1>2
<1>11. QED
  BY <1>5, <1>6, <1>7, <1>8, <1>9, <1>10 DEF Story

\* The handler reads the first packet.
LEMMA StoryPops ==
    ASSUME JudgeTypes, NEW c \in Conns, Story(c), IdsKept, toBridge[c] # <<>>,
           toBridge' = [toBridge EXCEPT ![c] = Tail(@)],
           \A j \in 1 .. Len(toBridge[c]) : StillUntold(c, j + 1, j),
           \A s, u : IsState(c, s) /\ IsState(c, u) /\ HandlerAt(c, s) /\ Tells(c, 1, s, u)
                       => HandlerAt(c, u)',
           JudgeSame,
           \A s : IsState(c, s) /\ JudgeAt(s) /\ conn = c => JudgeAt(s)'
    PROVE  Story(c)'
<1>1. PICK t \in [1 .. Len(toBridge[c]) + 1 -> States] :
        /\ \A j \in 1 .. Len(toBridge[c]) + 1 : IsState(c, t[j])
        /\ \A j \in 1 .. Len(toBridge[c]) : Tells(c, j, t[j], t[j + 1])
        /\ HandlerAt(c, t[1])
        /\ conn = c => JudgeAt(t[Len(toBridge[c]) + 1])
  BY DEF Story
<1>2. PICK n \in Nat : n = Len(toBridge[c]) /\ 1 <= n
  <2>1. toBridge[c] \in Seq(Packets)
    BY DEF JudgeTypes
  <2>2. QED
    BY <2>1, Shortened
<1>13. /\ Len(toBridge'[c]) = n - 1
      /\ \A j \in 1 .. n - 1 : toBridge'[c][j] = toBridge[c][j + 1]
  <2>1. toBridge[c] \in Seq(Packets) /\ toBridge'[c] = Tail(toBridge[c])
    BY DEF JudgeTypes
  <2>2. PICK w : w = Tail(toBridge[c])
    OBVIOUS
  <2>3. Len(w) = Len(toBridge[c]) - 1 /\ Head(toBridge[c]) = toBridge[c][1]
    BY <2>1, <2>2, Shortened
  <2>4. \A j \in 1 .. Len(w) : w[j] = toBridge[c][j + 1]
    BY <2>1, <2>2, Shortened
  <2>5. QED
    BY <1>2, <2>1, <2>2, <2>3, <2>4
<1>14. 1 <= n /\ t \in [1 .. n + 1 -> States]
  BY <1>2
<1>3. PICK v \in [1 .. n -> States] : \A j \in 1 .. n : v[j] = t[j + 1]
  <2> DEFINE v == [j \in 1 .. n |-> t[j + 1]]
  <2>1. \A j \in 1 .. n : t[j + 1] \in States
    <3>1. \A j \in 1 .. n : j + 1 \in 1 .. n + 1
      BY <1>14
    <3>2. QED
      BY <1>14, <3>1
  <2>2. v \in [1 .. n -> States] /\ \A j \in 1 .. n : v[j] = t[j + 1]
    BY <2>1
  <2>3. QED
    BY <2>2
<1>4. \A j \in 1 .. n + 1 : IsState(c, t[j])
  BY <1>1, <1>2
<1>5. \A j \in 1 .. n : Tells(c, j, t[j], t[j + 1])
  BY <1>1, <1>2
<1>6. conn = c => JudgeAt(t[n + 1])
  BY <1>1, <1>2
<1>7. \A j \in 1 .. n : IsState(c, v[j])'
  <2> SUFFICES ASSUME NEW j \in 1 .. n PROVE IsState(c, v[j])'
    OBVIOUS
  <2>1. j + 1 \in 1 .. n + 1
    OBVIOUS
  <2>3. IsState(c, t[j + 1]) /\ v[j] = t[j + 1]
    BY <1>3, <1>4, <2>1
  <2>2. QED
    BY <2>3, StateKept
<1>8. ASSUME NEW j \in 1 .. n - 1 PROVE Tells(c, j, v[j], v[j + 1])'
  <2>1. j \in 1 .. n /\ j + 1 \in 1 .. n /\ j \in Nat
    BY <1>2
  <2>2. Tells(c, j + 1, t[j + 1], t[j + 1 + 1]) /\ v[j] = t[j + 1] /\ v[j + 1] = t[j + 1 + 1]
    BY <1>3, <1>5, <2>1
  <2>3. toBridge'[c][j] = toBridge[c][j + 1] /\ StillUntold(c, j + 1, j)
    BY <1>2, <1>13, <2>1
  <2>4. QED
    BY <2>2, <2>3, TellsMoved
<1>9. HandlerAt(c, v[1])'
  <2>1. 1 \in 1 .. n /\ 1 + 1 = 2 /\ 2 \in 1 .. n + 1 /\ 1 \in 1 .. n + 1
    BY <1>14
  <2>2. v[1] = t[2] /\ Tells(c, 1, t[1], t[2]) /\ IsState(c, t[1]) /\ IsState(c, t[2])
    BY <1>3, <1>4, <1>5, <2>1
  <2>3. HandlerAt(c, t[2])'
    BY <1>1, <2>2
  <2>4. QED
    BY <2>2, <2>3
<1>10. ASSUME conn' = c PROVE JudgeAt(v[n])'
  <2>1. conn = c /\ n \in 1 .. n /\ n + 1 \in 1 .. n + 1
    BY <1>2, <1>10 DEF JudgeSame
  <2>2. v[n] = t[n + 1] /\ JudgeAt(t[n + 1]) /\ IsState(c, t[n + 1])
    BY <1>3, <1>4, <1>6, <2>1
  <2>3. JudgeAt(t[n + 1])'
    BY <2>1, <2>2
  <2>4. QED
    BY <2>2, <2>3
<1>11. Len(toBridge'[c]) = n - 1 /\ n - 1 + 1 = n
  BY <1>2, <1>13
<1>12. QED
  BY <1>3, <1>7, <1>8, <1>9, <1>10, <1>11 DEF Story

\* What was asked for and not told of stays so.
RequestsKept == \A c \in Conns, m \in Messages : IsRequest(c, m) => IsRequest(c, m)'

LEMMA RequestStands ==
    ASSUME IdsKept, todo' = todo, caseResults' = caseResults,
           \A c \in Conns : toBridge'[c] \in {toBridge[c], <<>>},
           grading' # NoWork => grading # NoWork /\ grading'.call = grading.call
    PROVE  RequestsKept
<1> SUFFICES ASSUME NEW c \in Conns, NEW m \in Messages, IsRequest(c, m) PROVE IsRequest(c, m)'
  BY DEF RequestsKept
<1>1. m.call \in Calls /\ subID[m.call] # 0 /\ m.id = subID[m.call] /\ Sent(m.call) /\ target[m.call] = c
  BY DEF IsRequest
<1>2. subID'[m.call] = subID[m.call] /\ target'[m.call] = c /\ Sent(m.call)'
  BY <1>1 DEF IdsKept
<1>3. Unheard(c, m.call)'
  BY <1>1, <1>2 DEF IsRequest, Unheard, Untold
<1>4. grading' # NoWork => grading'.call # m.call
  BY DEF IsRequest
<1>5. QED
  BY <1>1, <1>2, <1>3, <1>4 DEF IsRequest

\* The messages to the judge stay, or are lost.
LEMMA RequestsFrame ==
    ASSUME Requests, RequestsKept, \A c \in Conns : toJudge'[c] \in {toJudge[c], <<>>},
           inbox' = NoWork \/ (inbox' = inbox /\ conn' = conn),
           NoWork \notin Messages
    PROVE  Requests'
<1> SUFFICES ASSUME NEW c \in Conns, NEW m \in Messages
             PROVE  /\ \A j \in 1 .. Len(toJudge'[c]) : Asked(c, j, m)' =>
                         /\ IsRequest(c, m)'
                         /\ inbox' # NoWork /\ conn' = c => inbox'.call # m.call
                         /\ \A l \in 1 .. Len(toJudge'[c]), w \in Messages :
                              Asked(c, l, w)' /\ w.call = m.call => l = j
                    /\ inbox' = m /\ conn' = c => IsRequest(c, m)'
  BY DEF Requests
<1>1. ASSUME NEW j \in 1 .. Len(toJudge'[c]), Asked(c, j, m)'
      PROVE  /\ IsRequest(c, m)'
             /\ inbox' # NoWork /\ conn' = c => inbox'.call # m.call
             /\ \A l \in 1 .. Len(toJudge'[c]), w \in Messages :
                  Asked(c, l, w)' /\ w.call = m.call => l = j
  <2>1. toJudge'[c] = toJudge[c]
    BY <1>1
  <2>2. \A l, w : Asked(c, l, w)' <=> Asked(c, l, w)
    BY <2>1 DEF Asked
  <2>3. /\ IsRequest(c, m)
        /\ inbox # NoWork /\ conn = c => inbox.call # m.call
        /\ \A l \in 1 .. Len(toJudge[c]), w \in Messages :
             Asked(c, l, w) /\ w.call = m.call => l = j
    BY <1>1, <2>1, <2>2 DEF Requests
  <2>4. QED
    BY <2>1, <2>2, <2>3 DEF RequestsKept
<1>2. inbox' = m /\ conn' = c => IsRequest(c, m)'
  BY DEF Requests, RequestsKept
<1>3. QED
  BY <1>1, <1>2

LEMMA StoriesFrame ==
    ASSUME JudgeTypes, Stories, BridgeSame,
           \A c \in Conns : pc[c] \notin Early => toBridge'[c] = toBridge[c],
           \A c \in Conns : pc[c] \notin Early /\ conn' = c => conn = c,
           \A c \in Conns : \A s :
              pc[c] \notin Early /\ conn' = c /\ IsState(c, s) /\ JudgeAt(s) => JudgeAt(s)'
    PROVE  Stories'
<1> SUFFICES ASSUME NEW c \in Conns, Story(c), pc[c] \notin Early PROVE Story(c)'
  BY DEF Stories, BridgeSame, Early
<1>1. IdsKept
  BY CallsKeepIds DEF BridgeSame
<1>2. \A j \in Nat : StillUntold(c, j, j)
  BY DEF StillUntold, Untold, BridgeSame, CasesSame, CallsSame
<1>3. \A s : IsState(c, s) /\ HandlerAt(c, s) => HandlerAt(c, s)'
  BY DEF HandlerAt, Holds, BridgeSame, CasesSame, CallsSame
<1>4. conn' = c => \A s : IsState(c, s) /\ JudgeAt(s) => JudgeAt(s)'
  OBVIOUS
<1>5. QED
  BY <1>1, <1>2, <1>3, <1>4, StoryMoves

Inv ==
    /\ BridgeInv /\ JudgeTypes /\ NoFaults /\ OneConnection /\ Handshaking /\ Numbered
    /\ Owned /\ Requests /\ Grading /\ Stories /\ SlicesApart /\ TrueAnswers

\* What the bridge keeps while only the judge moves.
LEMMA BridgeStands ==
    ASSUME Inv, BridgeSame
    PROVE  BridgeInv' /\ Numbered' /\ SlicesApart' /\ TrueAnswers' /\ IdsKept
<1>1. UNCHANGED vars
  BY DEF BridgeSame, CasesSame, CallsSame, vars, connVars, caseVars, callVars
<1>2. BridgeInv'
  BY <1>1, AnyBridgeStep DEF Inv
<1>3. Numbered'
  BY NumberedFrame DEF Inv, BridgeSame
<1>4. SlicesApart'
  BY DEF Inv, SlicesApart, BridgeSame, CasesSame
<1>5. TrueAnswers'
  BY DEF Inv, TrueAnswers, BridgeSame, CallsSame
<1>6. QED
  BY <1>2, <1>3, <1>4, <1>5, CallsKeepIds DEF BridgeSame

LEMMA JudgeStands ==
    ASSUME JudgeSame
    PROVE  /\ NoFaults => NoFaults'
           /\ CallsSame /\ Grading => Grading'
BY DEF JudgeSame, NoFaults, CallsSame, Grading, Sent

LEMMA InvInit == JudgeOnlyCrashes /\ ArenaInit => Inv
<1> SUFFICES ASSUME JudgeOnlyCrashes, ArenaInit PROVE Inv
  OBVIOUS
<1>1. Init
  BY DEF ArenaInit
<1>2. BridgeInv
  BY <1>1, TypeInit, CallInvInit DEF BridgeInv
<1>3. /\ pc = [c \in Conns |-> "idle"] /\ closed = [c \in Conns |-> FALSE]
      /\ judges = [n \in JudgeIds |-> NoConn]
      /\ todo = [c \in Conns |-> [id |-> 0, cases |-> <<>>]]
      /\ box = [c \in Conns |-> NoBox] /\ caseResults = [i \in Ids |-> NoBox]
      /\ call = [k \in Calls |-> "new"] /\ subID = [k \in Calls |-> 0]
      /\ chan = [k \in Calls |-> NoResult] /\ answer = [k \in Calls |-> NoResult]
  BY <1>1 DEF Init
<1>4. JudgeTypes
  BY DEF ArenaInit, JudgeTypes
<1>5. NoFaults
  BY ArenaAssumption DEF JudgeOnlyCrashes, ArenaInit, NoFaults
<1>6. OneConnection /\ Handshaking
  BY <1>3, ArenaAssumption DEF ArenaInit, OneConnection, Handshaking, Early
<1>7. Numbered
  BY <1>3 DEF Numbered
<1>8. Owned /\ Requests /\ Grading
  <2>1. Owned
    BY <1>3 DEF ArenaInit, Owned, Early, Busy
  <2>2. Requests
    BY ArenaAssumption DEF ArenaInit, Requests
  <2>3. Grading
    BY DEF ArenaInit, Grading
  <2>4. QED
    BY <2>1, <2>2, <2>3
<1>9. Stories /\ SlicesApart /\ TrueAnswers
  BY <1>3 DEF Stories, SlicesApart, TrueAnswers
<1>10. QED
  BY <1>2, <1>4, <1>5, <1>6, <1>7, <1>8, <1>9 DEF Inv

\* The judge reads a message: what is in its inbox then is that request, or
\* what was there.
LEMMA RequestsShorten ==
    ASSUME JudgeTypes, Requests, RequestsKept, conn \in Conns, conn' = conn,
           toJudge[conn] # <<>>,
           toJudge' = [toJudge EXCEPT ![conn] = Tail(@)],
           \/ inbox' = NoWork
           \/ inbox' = Head(toJudge[conn]) /\ Head(toJudge[conn]).kind = "submission-request",
           NoWork \notin Messages
    PROVE  Requests'
<1>1. PICK d \in Conns : d = conn
  OBVIOUS
<1>2. /\ Len(toJudge'[d]) = Len(toJudge[d]) - 1 /\ Len(toJudge[d]) \in Nat
      /\ 1 <= Len(toJudge[d]) /\ Head(toJudge[d]) = toJudge[d][1]
      /\ \A j \in 1 .. Len(toJudge'[d]) : toJudge'[d][j] = toJudge[d][j + 1]
  <2>1. toJudge[d] \in Seq(Messages) /\ toJudge'[d] = Tail(toJudge[d])
    BY <1>1 DEF JudgeTypes
  <2>2. /\ Len(Tail(toJudge[d])) = Len(toJudge[d]) - 1 /\ Len(toJudge[d]) \in Nat \ {0}
        /\ Head(toJudge[d]) = toJudge[d][1]
        /\ \A j \in 1 .. Len(Tail(toJudge[d])) : Tail(toJudge[d])[j] = toJudge[d][j + 1]
    BY <1>1, <2>1, Shortened
  <2>3. Len(toJudge[d]) \in Nat /\ 1 <= Len(toJudge[d])
    BY <2>2
  <2>4. QED
    BY <2>1, <2>2, <2>3
<1>3. \A c \in Conns : c # d => toJudge'[c] = toJudge[c]
  BY <1>1 DEF JudgeTypes
<1> SUFFICES ASSUME NEW c \in Conns, NEW m \in Messages
             PROVE  /\ \A j \in 1 .. Len(toJudge'[c]) : Asked(c, j, m)' =>
                         /\ IsRequest(c, m)'
                         /\ inbox' # NoWork /\ conn' = c => inbox'.call # m.call
                         /\ \A l \in 1 .. Len(toJudge'[c]), w \in Messages :
                              Asked(c, l, w)' /\ w.call = m.call => l = j
                    /\ inbox' = m /\ conn' = c => IsRequest(c, m)'
  BY DEF Requests
<1>4. CASE c # d
  <2>1. toJudge'[c] = toJudge[c] /\ conn' # c
    BY <1>1, <1>3, <1>4
  <2>2. \A l, w : Asked(c, l, w)' <=> Asked(c, l, w)
    BY <2>1 DEF Asked
  <2>3. QED
    BY <2>1, <2>2 DEF Requests, RequestsKept
<1>5. CASE c = d
  <2>1. \A l \in 1 .. Len(toJudge'[c]) : \A w : Asked(c, l, w)' => Asked(c, l + 1, w)
    BY <1>2, <1>5 DEF Asked
  <2>2. \A l \in 1 .. Len(toJudge'[c]) : l + 1 \in 1 .. Len(toJudge[c]) /\ l + 1 # 1
    BY <1>2, <1>5
  <2>3. ASSUME NEW j \in 1 .. Len(toJudge'[c]), Asked(c, j, m)'
        PROVE  /\ IsRequest(c, m)'
               /\ inbox' # NoWork => inbox'.call # m.call
               /\ \A l \in 1 .. Len(toJudge'[c]), w \in Messages :
                    Asked(c, l, w)' /\ w.call = m.call => l = j
    <3>1. Asked(c, j + 1, m) /\ j + 1 \in 1 .. Len(toJudge[c]) /\ j + 1 # 1
      BY <2>1, <2>2, <2>3
    <3>2. /\ IsRequest(c, m)
          /\ \A l \in 1 .. Len(toJudge[c]), w \in Messages :
               Asked(c, l, w) /\ w.call = m.call => l = j + 1
      BY <3>1 DEF Requests
    <3>3. ASSUME NEW l \in 1 .. Len(toJudge'[c]), NEW w \in Messages, Asked(c, l, w)', w.call = m.call
          PROVE  l = j
      <4>1. l + 1 = j + 1
        BY <2>1, <2>2, <3>2, <3>3
      <4>2. QED
        BY <4>1
    <3>4. ASSUME inbox' # NoWork PROVE inbox'.call # m.call
      <4>1. 1 \in 1 .. Len(toJudge[c]) /\ toJudge[c][1] \in Messages
        BY <1>2, <1>5, ElementOfSeq DEF JudgeTypes
      <4>2. inbox' = toJudge[c][1] /\ toJudge[c][1].kind = "submission-request"
        BY <1>1, <1>2, <1>5, <3>4
      <4>3. Asked(c, 1, toJudge[c][1])
        BY <4>2 DEF Asked
      <4>4. toJudge[c][1].call = m.call => 1 = j + 1
        BY <3>2, <4>1, <4>3
      <4>5. QED
        BY <3>1, <4>2, <4>4
    <3>5. QED
      BY <3>2, <3>3, <3>4 DEF RequestsKept
  <2>4. ASSUME inbox' = m PROVE IsRequest(c, m)'
    <3>1. 1 \in 1 .. Len(toJudge[c])
      BY <1>2, <1>5
    <3>2. m = toJudge[c][1] /\ m.kind = "submission-request"
      BY <1>1, <1>2, <1>5, <2>4
    <3>3. Asked(c, 1, m)
      BY <3>2 DEF Asked
    <3>4. QED
      BY <3>1, <3>3 DEF Requests, RequestsKept
  <2>5. QED
    BY <2>3, <2>4
<1>6. QED
  BY <1>4, <1>5

-------------------------------------------------------------------------------
(* The judge's steps *)

LEMMA ConnectInv ==
    ASSUME Inv, NEW c \in Conns, Connect(c)
    PROVE  Inv'
<1>0. /\ net = "down" /\ conn = NoConn /\ link[c] = "unused"
      /\ link' = [link EXCEPT ![c] = "open"] /\ toJudge' = toJudge
      /\ net' = "hello" /\ conn' = c /\ input' = c
      /\ BridgeSame
      /\ toBridge' = toBridge /\ inbox' = inbox /\ grading' = grading
      /\ queue' = queue /\ budget' = budget
  BY ConnectDoes DEF Inv
<1>1. BridgeInv' /\ Numbered' /\ SlicesApart' /\ TrueAnswers' /\ IdsKept
  BY <1>0, BridgeStands
<1>2. JudgeTypes' /\ NoFaults'
  BY <1>0 DEF Inv, JudgeTypes, NoFaults
<1>3. /\ pc' = pc /\ closed' = closed /\ judges' = judges /\ todo' = todo
      /\ caseResults' = caseResults /\ CallsSame
  BY <1>0 DEF BridgeSame, CasesSame
<1>4. /\ inbox = NoWork /\ grading = NoWork /\ \A d \in Conns : d # NoConn
      /\ pc[c] = "idle" /\ toBridge[c] = <<>> /\ ~closed[c]
      /\ \A d \in Conns : link[d] # "open"
  BY <1>0, BridgeAssumption DEF Inv, OneConnection, Handshaking
<1>5. OneConnection'
  BY <1>0, <1>3, <1>4 DEF Inv, JudgeTypes, OneConnection
<1>6. Handshaking'
  BY <1>0, <1>3, <1>4 DEF Inv, JudgeTypes, Handshaking, Early
<1>7. Owned'
  BY <1>0, <1>1, <1>3, OwnedFrame DEF Inv
<1>8. Requests'
  BY <1>0, <1>1, <1>3, <1>4, RequestStands, RequestsFrame, ArenaAssumption DEF Inv
<1>9. Grading'
  BY <1>0, <1>4 DEF Inv, Grading
<1>10. Stories'
  BY <1>0, <1>4, StoriesFrame DEF Inv, Early
<1>11. QED
  BY <1>1, <1>2, <1>5, <1>6, <1>7, <1>8, <1>9, <1>10 DEF Inv

LEMMA WelcomeInv ==
    ASSUME Inv, Welcome
    PROVE  Inv'
<1>0. /\ net = "awaiting" /\ toJudge[input] # <<>>
      /\ toJudge' = [toJudge EXCEPT ![conn] = Tail(@)]
      /\ net' = "reading" /\ conn' = conn /\ input' = input /\ link' = link
      /\ BridgeSame
      /\ toBridge' = toBridge /\ inbox' = inbox /\ grading' = grading
      /\ queue' = queue /\ budget' = budget
  BY Same DEF Inv, OneConnection, Welcome, Reads, Consume
<1>1. BridgeInv' /\ Numbered' /\ SlicesApart' /\ TrueAnswers' /\ IdsKept
  BY <1>0, BridgeStands
<1>2. conn \in Conns /\ input = conn /\ toJudge[conn] \in Seq(Messages) /\ toJudge[conn] # <<>>
  BY <1>0, Sends DEF Inv, OneConnection, JudgeTypes
<1>3. Tail(toJudge[conn]) \in Seq(Messages)
  BY <1>2, Shortened
<1>4. JudgeTypes' /\ NoFaults'
  BY <1>0, <1>2, <1>3 DEF Inv, JudgeTypes, NoFaults
<1>5. /\ pc' = pc /\ closed' = closed /\ judges' = judges /\ todo' = todo
      /\ caseResults' = caseResults /\ CallsSame
  BY <1>0 DEF BridgeSame, CasesSame
<1>6. /\ inbox = NoWork /\ grading = NoWork
      /\ pc[conn] \notin Early \cup {"greeting"} /\ link[conn] = "open"
  BY <1>0, <1>2 DEF Inv, Handshaking
<1>7. OneConnection'
  BY <1>0, <1>5 DEF Inv, OneConnection
<1>8. Handshaking'
  <2>1. \A c \in Conns : toJudge'[c] # <<>> => toJudge[c] # <<>>
    BY <1>0, <1>2 DEF Inv, JudgeTypes
  <2>2. QED
    BY <1>0, <1>5, <1>6, <2>1 DEF Inv, Handshaking
<1>9. Owned'
  BY <1>0, <1>1, <1>5, OwnedFrame DEF Inv
<1>10. Requests'
  <2>1. RequestsKept
    BY <1>0, <1>1, <1>5, RequestStands
  <2>2. QED
    BY <1>0, <1>2, <1>6, <2>1, RequestsShorten, ArenaAssumption DEF Inv
<1>11. Grading'
  BY <1>0, <1>6 DEF Inv, Grading
<1>12. Stories'
  BY <1>0, <1>6, StoriesFrame DEF Inv, JudgeAt
<1>13. QED
  BY <1>1, <1>4, <1>7, <1>8, <1>9, <1>10, <1>11, <1>12 DEF Inv

LEMMA HelloInv ==
    ASSUME Inv, Hello
    PROVE  Inv'
<1>0. /\ net = "hello" /\ net' = "awaiting" /\ conn \in Conns
      /\ toBridge' = [toBridge EXCEPT ![conn] = Append(@, HandshakePacket)]
      /\ BridgeSame
      /\ link' = link /\ toJudge' = toJudge /\ conn' = conn /\ input' = input
      /\ inbox' = inbox /\ grading' = grading /\ queue' = queue /\ budget' = budget
  BY HelloDoes DEF Inv
<1>1. BridgeInv' /\ Numbered' /\ SlicesApart' /\ TrueAnswers' /\ IdsKept
  BY <1>0, BridgeStands
<1>2. HandshakePacket \in Packets
  <2>1. 0 \in Ids /\ <<>> \in Seq(Cases)
    BY BridgeAssumption DEF Ids
  <2>2. QED
    BY <2>1 DEF HandshakePacket, Packet, Packets
<1>3. /\ pc' = pc /\ closed' = closed /\ judges' = judges /\ todo' = todo
      /\ caseResults' = caseResults /\ CallsSame
  BY <1>0 DEF BridgeSame, CasesSame
<1>4. /\ inbox = NoWork /\ grading = NoWork /\ link[conn] = "open"
      /\ pc[conn] \in Early /\ toBridge[conn] = <<>>
      /\ \A c \in Conns : toJudge[c] = <<>>
  BY <1>0 DEF Inv, OneConnection, Handshaking
<1>5. /\ toBridge \in [Conns -> Seq(Packets)]
      /\ toBridge'[conn] = <<HandshakePacket>>
      /\ \A c \in Conns : c # conn => toBridge'[c] = toBridge[c]
  BY <1>0, <1>4 DEF Inv, JudgeTypes
<1>6. toBridge' \in [Conns -> Seq(Packets)]
  <2>1. Append(toBridge[conn], HandshakePacket) \in Seq(Packets)
    BY <1>0, <1>2, <1>5, Appended
  <2>2. QED
    BY <1>0, <1>5, <2>1
<1>7. JudgeTypes' /\ NoFaults'
  BY <1>0, <1>6 DEF Inv, JudgeTypes, NoFaults
<1>8. OneConnection'
  BY <1>0, <1>3, <1>4, <1>5 DEF Inv, OneConnection
<1>9. Handshaking'
  BY <1>0, <1>3, <1>4, <1>5 DEF Inv, Handshaking, Early
<1>10. Owned'
  BY <1>1, <1>3, <1>4, <1>5, OwnedFrame DEF Inv
<1>11. Requests'
  <2>1. \A c \in Conns : toJudge'[c] = <<>> /\ Len(toJudge'[c]) = 0
    BY <1>0, <1>4
  <2>2. inbox' = NoWork
    BY <1>0, <1>4
  <2>3. QED
    BY <2>1, <2>2, ArenaAssumption DEF Requests
<1>12. Grading'
  BY <1>0, <1>4 DEF Inv, Grading
<1>13. Stories'
  <2>1. \A c \in Conns : \A s : conn' = c /\ IsState(c, s) /\ JudgeAt(s) => JudgeAt(s)'
    BY <1>0, <1>4 DEF JudgeAt
  <2>2. QED
    BY <1>0, <1>4, <1>5, <2>1, StoriesFrame DEF Inv
<1>14. QED
  BY <1>1, <1>7, <1>8, <1>9, <1>10, <1>11, <1>12, <1>13 DEF Inv

LEMMA ReadRequestInv ==
    ASSUME Inv, ReadRequest
    PROVE  Inv'
<1>0. /\ net = "reading" /\ toJudge[conn] # <<>>
      /\ toJudge' = [toJudge EXCEPT ![conn] = Tail(@)]
      /\ inbox' = Head(toJudge[conn]) /\ Head(toJudge[conn]).kind = "submission-request"
      /\ net' = "begin" /\ conn' = conn /\ input' = input /\ link' = link
      /\ BridgeSame
      /\ toBridge' = toBridge /\ grading' = grading
      /\ queue' = queue /\ budget' = budget
  BY Same DEF Inv, OneConnection, ReadRequest, Reads, Consume
<1>1. BridgeInv' /\ Numbered' /\ SlicesApart' /\ TrueAnswers' /\ IdsKept
  BY <1>0, BridgeStands
<1>2. conn \in Conns /\ input = conn /\ toJudge[conn] \in Seq(Messages)
  BY <1>0, Sends DEF Inv, OneConnection, JudgeTypes
<1>3. Tail(toJudge[conn]) \in Seq(Messages) /\ inbox' \in Messages /\ inbox' # NoWork
  BY <1>0, <1>2, Shortened, ArenaAssumption
<1>4. JudgeTypes' /\ NoFaults'
  BY <1>0, <1>2, <1>3 DEF Inv, JudgeTypes, NoFaults
<1>5. /\ pc' = pc /\ closed' = closed /\ judges' = judges /\ todo' = todo
      /\ caseResults' = caseResults /\ CallsSame
  BY <1>0 DEF BridgeSame, CasesSame
<1>6. inbox = NoWork /\ pc[conn] \notin Early \cup {"greeting"}
  BY <1>0 DEF Inv, Handshaking
<1>7. OneConnection'
  BY <1>0, <1>5 DEF Inv, OneConnection
<1>8. Handshaking'
  <2>1. \A c \in Conns : toJudge'[c] # <<>> => toJudge[c] # <<>>
    BY <1>0, <1>2 DEF Inv, JudgeTypes
  <2>2. QED
    BY <1>0, <1>3, <1>5, <1>6, <2>1 DEF Inv, Handshaking
<1>9. Owned'
  BY <1>0, <1>1, <1>5, OwnedFrame DEF Inv
<1>10. Requests'
  <2>1. RequestsKept
    BY <1>0, <1>1, <1>5, RequestStands
  <2>2. QED
    BY <1>0, <1>2, <2>1, RequestsShorten, ArenaAssumption DEF Inv
<1>11. Grading'
  BY <1>0, <1>5 DEF Inv, Grading, CallsSame, Sent
<1>12. Stories'
  <2>1. \A c \in Conns : \A s : conn' = c /\ IsState(c, s) /\ JudgeAt(s) => JudgeAt(s)'
    BY <1>0, <1>5 DEF JudgeAt, Unheard, Untold, CallsSame
  <2>2. QED
    BY <1>0, <2>1, StoriesFrame DEF Inv
<1>13. QED
  BY <1>1, <1>4, <1>7, <1>8, <1>9, <1>10, <1>11, <1>12 DEF Inv

LEMMA TeardownInv ==
    ASSUME Inv, Teardown
    PROVE  Inv'
<1>0. /\ grading # NoWork /\ grading.end = "sent" /\ queue = <<>> /\ grading' = NoWork
      /\ BridgeSame
      /\ link' = link /\ toBridge' = toBridge /\ toJudge' = toJudge /\ net' = net
      /\ conn' = conn /\ input' = input /\ inbox' = inbox /\ queue' = queue /\ budget' = budget
  BY Same DEF Teardown
<1>1. BridgeInv' /\ Numbered' /\ SlicesApart' /\ TrueAnswers' /\ IdsKept
  BY <1>0, BridgeStands
<1>2. JudgeTypes' /\ NoFaults'
  BY <1>0 DEF Inv, JudgeTypes, NoFaults
<1>3. /\ pc' = pc /\ closed' = closed /\ judges' = judges /\ todo' = todo
      /\ caseResults' = caseResults /\ CallsSame
  BY <1>0 DEF BridgeSame, CasesSame
<1>4. OneConnection' /\ Handshaking'
  BY <1>0, <1>3 DEF Inv, OneConnection, Handshaking
<1>5. Owned'
  BY <1>0, <1>1, <1>3, OwnedFrame DEF Inv
<1>6. Requests'
  BY <1>0, <1>1, <1>3, RequestStands, RequestsFrame, ArenaAssumption DEF Inv
<1>7. Grading'
  BY <1>0 DEF Grading
<1>8. Stories'
  <2>1. \A c \in Conns : \A s : conn' = c /\ IsState(c, s) /\ JudgeAt(s) => JudgeAt(s)'
    BY <1>0 DEF JudgeAt
  <2>2. QED
    BY <1>0, <2>1, StoriesFrame DEF Inv
<1>9. QED
  BY <1>1, <1>2, <1>4, <1>5, <1>6, <1>7, <1>8 DEF Inv

LEMMA CrashInv ==
    ASSUME Inv, Crash
    PROVE  Inv'
<1>0. /\ net # "down" /\ conn \in Conns
      /\ link' = [link EXCEPT ![conn] = "closed"]
      /\ toJudge' = [toJudge EXCEPT ![conn] = <<>>]
      /\ net' = "down" /\ conn' = NoConn /\ input' = NoConn
      /\ inbox' = NoWork /\ grading' = NoWork /\ queue' = <<>>
      /\ NoFaults'
      /\ BridgeSame /\ toBridge' = toBridge
  BY CrashDoes DEF Inv
<1>1. BridgeInv' /\ Numbered' /\ SlicesApart' /\ TrueAnswers' /\ IdsKept
  BY <1>0, BridgeStands
<1>2. JudgeTypes'
  <2>1. <<>> \in Seq(Messages) /\ <<>> \in Seq(Cases)
    OBVIOUS
  <2>2. QED
    BY <1>0, <2>1 DEF Inv, JudgeTypes
<1>3. /\ pc' = pc /\ closed' = closed /\ judges' = judges /\ todo' = todo
      /\ caseResults' = caseResults /\ CallsSame
  BY <1>0 DEF BridgeSame, CasesSame
<1>4. /\ \A c \in Conns : c # conn => link'[c] = link[c] /\ link[c] # "open"
      /\ link'[conn] = "closed" /\ link[conn] = "open" /\ \A c \in Conns : toJudge'[c] = <<>>
      /\ \A c \in Conns : c # NoConn
  BY <1>0, BridgeAssumption DEF Inv, JudgeTypes, OneConnection, Handshaking
<1>5. OneConnection'
  BY <1>0, <1>3, <1>4 DEF Inv, OneConnection
<1>6. Handshaking'
  BY <1>0, <1>3, <1>4 DEF Inv, Handshaking
<1>7. Owned'
  BY <1>0, <1>1, <1>3, OwnedFrame DEF Inv
<1>8. Requests'
  BY <1>0, <1>1, <1>3, <1>4, RequestStands, RequestsFrame, ArenaAssumption DEF Inv
<1>9. Grading'
  BY <1>0 DEF Grading
<1>10. Stories'
  BY <1>0, <1>4, StoriesFrame DEF Inv
<1>11. QED
  BY <1>0, <1>1, <1>2, <1>5, <1>6, <1>7, <1>8, <1>9, <1>10 DEF Inv

LEMMA BeginGradingInv ==
    ASSUME Inv, BeginGrading
    PROVE  Inv'
<1>0. /\ net = "begin" /\ grading = NoWork /\ inbox' = NoWork /\ net' = "reading"
      /\ grading' = [id |-> inbox.id, call |-> inbox.call,
                     left |-> Plan[inbox.call].cases, end |-> Plan[inbox.call].end]
      /\ BridgeSame
      /\ link' = link /\ toBridge' = toBridge /\ toJudge' = toJudge
      /\ conn' = conn /\ input' = input /\ queue' = queue /\ budget' = budget
  BY Same DEF BeginGrading
<1>1. BridgeInv' /\ Numbered' /\ SlicesApart' /\ TrueAnswers' /\ IdsKept
  BY <1>0, BridgeStands
<1>2. conn \in Conns /\ inbox \in Messages /\ inbox # NoWork
  BY <1>0, Sends DEF Inv, JudgeTypes, Handshaking
<1>3. PICK k \in Calls, d \in Conns :
        /\ k = inbox.call /\ d = conn /\ inbox.id = subID[k] /\ subID[k] # 0
        /\ target[k] = d /\ Sent(k) /\ Unheard(d, k) /\ IsRequest(d, inbox)
  <2>1. IsRequest(conn, inbox)
    BY <1>2 DEF Inv, Requests
  <2>2. QED
    BY <1>2, <2>1 DEF IsRequest
<1>4. /\ Plan[k].cases \in Seq(Cases) /\ Plan[k].end \in Ends /\ Plan[k].end # "sent"
      /\ inbox.id \in Ids
  BY <1>2, ArenaAssumption DEF Ends, Messages
<1>5. /\ grading' \in Gradings /\ grading'.call = k /\ grading'.id = subID[k]
      /\ grading'.left = Plan[k].cases /\ grading'.end = Plan[k].end
  BY <1>0, <1>3, <1>4 DEF Gradings
<1>6. grading' # NoWork
  BY <1>5, ArenaAssumption
<1>7. JudgeTypes' /\ NoFaults'
  BY <1>0, <1>5 DEF Inv, JudgeTypes, NoFaults
<1>8. /\ pc' = pc /\ closed' = closed /\ judges' = judges /\ todo' = todo
      /\ caseResults' = caseResults /\ CallsSame
  BY <1>0 DEF BridgeSame, CasesSame
<1>9. OneConnection' /\ Handshaking'
  BY <1>0, <1>8 DEF Inv, OneConnection, Handshaking
<1>10. Owned'
  BY <1>0, <1>1, <1>8, OwnedFrame DEF Inv
<1>11. Requests'
  <2> SUFFICES ASSUME NEW c \in Conns, NEW m \in Messages
               PROVE  \A j \in 1 .. Len(toJudge[c]) : Asked(c, j, m) =>
                         /\ IsRequest(c, m)'
                         /\ \A l \in 1 .. Len(toJudge[c]), w \in Messages :
                              Asked(c, l, w) /\ w.call = m.call => l = j
    BY <1>0, ArenaAssumption DEF Requests, Asked
  <2> SUFFICES ASSUME NEW j \in 1 .. Len(toJudge[c]), Asked(c, j, m)
               PROVE  IsRequest(c, m)'
    BY DEF Inv, Requests
  <2>1. IsRequest(c, m) /\ (conn = c => inbox.call # m.call)
    BY <1>2 DEF Inv, Requests
  <2>2. m.call # k
    BY <1>3, <2>1 DEF IsRequest
  <2>3. Unheard(c, m.call)'
    BY <1>0, <1>8, <2>1 DEF IsRequest, Unheard, Untold, CallsSame
  <2>4. QED
    BY <1>5, <1>8, <2>1, <2>2, <2>3 DEF IsRequest, CallsSame, Sent
<1>12. Grading'
  <2>1. queue' = <<>>
    BY <1>0 DEF Inv, Grading
  <2>2. subID'[k] = subID[k] /\ target'[k] = conn' /\ Sent(k)'
    BY <1>0, <1>3, <1>8 DEF CallsSame, Sent
  <2>3. QED
    BY <1>3, <1>4, <1>5, <2>1, <2>2 DEF Grading
<1>13. Stories'
  <2> SUFFICES ASSUME NEW s, IsState(d, s), JudgeAt(s)
               PROVE  JudgeAt(s)'
    BY <1>0, <1>3, StoriesFrame DEF Inv
  <2>1. s.of = NoCall /\ s.n = 0
    BY <1>0 DEF JudgeAt, IsState
  <2>2. Unheard(d, k)'
    BY <1>0, <1>3, <1>8 DEF Unheard, Untold, CallsSame
  <2>3. queue' = Part(k, 0, 0) /\ grading'.left = Part(k, 0, Len(Plan[k].cases))
    <3>1. Part(k, 0, 0) = <<>>
      BY <1>4, Parts
    <3>2. queue' = <<>>
      BY <1>0 DEF Inv, Grading
    <3>3. QED
      BY <1>5, <3>1, <3>2, WholePart
  <2>4. 0 \in 0 .. Len(Plan[k].cases)
    BY <1>4
  <2>5. Unheard(conn, grading.call)'
    BY <1>0, <1>3, <1>5, <2>2 DEF Unheard, Untold
  <2>6. QED
    BY <1>4, <1>5, <1>6, <2>1, <2>3, <2>4, <2>5 DEF JudgeAt
<1>14. QED
  BY <1>1, <1>7, <1>9, <1>10, <1>11, <1>12, <1>13 DEF Inv

LEMMA GradeCaseInv ==
    ASSUME Inv, GradeCase
    PROVE  Inv'
<1>0. /\ grading # NoWork /\ grading.left # <<>>
      /\ queue' = Append(queue, Head(grading.left))
      /\ grading' = [grading EXCEPT !.left = Tail(@)]
      /\ BridgeSame
      /\ link' = link /\ toBridge' = toBridge /\ toJudge' = toJudge /\ net' = net
      /\ conn' = conn /\ input' = input /\ inbox' = inbox /\ budget' = budget
  BY Same DEF GradeCase
<1>1. BridgeInv' /\ Numbered' /\ SlicesApart' /\ TrueAnswers' /\ IdsKept
  BY <1>0, BridgeStands
<1>2. grading \in Gradings /\ queue \in Seq(Cases)
  BY <1>0 DEF Inv, JudgeTypes
<1>3. PICK k \in Calls : k = grading.call
  BY <1>2 DEF Gradings
<1>4. /\ Tail(grading.left) \in Seq(Cases) /\ Head(grading.left) \in Cases
      /\ queue' \in Seq(Cases)
  <2>1. grading.left \in Seq(Cases)
    BY <1>2 DEF Gradings
  <2>2. Tail(grading.left) \in Seq(Cases) /\ Head(grading.left) \in Cases
    BY <1>0, <2>1, Shortened
  <2>3. QED
    BY <1>0, <1>2, <2>2, Appended
<1>5. /\ grading' \in Gradings /\ grading'.id = grading.id /\ grading'.call = k
      /\ grading'.end = grading.end /\ grading'.left = Tail(grading.left)
  BY <1>0, <1>2, <1>3, <1>4 DEF Gradings
<1>6. grading' # NoWork /\ grading.end # "sent"
  BY <1>0, <1>5, ArenaAssumption DEF Inv, Grading
<1>7. JudgeTypes' /\ NoFaults'
  BY <1>0, <1>4, <1>5 DEF Inv, JudgeTypes, NoFaults
<1>8. /\ pc' = pc /\ closed' = closed /\ judges' = judges /\ todo' = todo
      /\ caseResults' = caseResults /\ CallsSame
  BY <1>0 DEF BridgeSame, CasesSame
<1>9. OneConnection' /\ Handshaking'
  BY <1>0, <1>8 DEF Inv, OneConnection, Handshaking
<1>10. Owned'
  BY <1>0, <1>1, <1>8, OwnedFrame DEF Inv
<1>11. Requests'
  <2>1. RequestsKept
    BY <1>0, <1>1, <1>3, <1>5, <1>8, RequestStands
  <2>2. QED
    BY <1>0, <2>1, RequestsFrame, ArenaAssumption DEF Inv
<1>12. Grading'
  BY <1>0, <1>3, <1>5, <1>6, <1>8 DEF Inv, Grading, CallsSame, Sent
<1>13. Stories'
  <2> SUFFICES ASSUME NEW c \in Conns, NEW s, conn = c, IsState(c, s), JudgeAt(s)
               PROVE  JudgeAt(s)'
    BY <1>0, StoriesFrame DEF Inv
  <2>1. Plan[k].cases \in Seq(Cases) /\ s.n \in Nat /\ Len(Plan[k].cases) \in Nat
    BY ArenaAssumption, LenProperties DEF IsState, States
  <2>2. s.of \in {NoCall, k} /\ (s.of = NoCall => Unheard(c, k))
    BY <1>0, <1>3, <1>6 DEF JudgeAt, Unheard
  <2>3. PICK q \in s.n .. Len(Plan[k].cases) :
          queue = Part(k, s.n, q) /\ grading.left = Part(k, q, Len(Plan[k].cases))
    BY <1>0, <1>3, <1>6 DEF JudgeAt
  <2>4. q \in Nat /\ s.n <= q /\ q < Len(Plan[k].cases)
    <3>1. q \in Nat /\ s.n <= q /\ q <= Len(Plan[k].cases)
      BY <2>1
    <3>2. q # Len(Plan[k].cases)
      BY <1>0, <2>1, <2>3, Parts
    <3>3. QED
      BY <2>1, <3>1, <3>2
  <2>5. /\ queue' = Part(k, s.n, q + 1)
        /\ grading'.left = Part(k, q + 1, Len(Plan[k].cases))
    <3>1. /\ Head(grading.left) = Plan[k].cases[q + 1]
          /\ Tail(grading.left) = Part(k, q + 1, Len(Plan[k].cases))
      <4>1. PICK e \in Nat : e = Len(Plan[k].cases)
        BY <2>1
      <4>2. q < e /\ q <= e /\ e <= Len(Plan[k].cases)
        BY <2>4, <4>1
      <4>3. /\ Head(Part(k, q, e)) = Plan[k].cases[q + 1]
            /\ Tail(Part(k, q, e)) = Part(k, q + 1, e)
        BY <2>4, <4>2, Parts
      <4>4. QED
        BY <2>3, <4>1, <4>3
    <3>2. Append(Part(k, s.n, q), Plan[k].cases[q + 1]) = Part(k, s.n, q + 1)
      <4>1. q <= Len(Plan[k].cases)
        BY <2>1, <2>4
      <4>2. QED
        BY <2>1, <2>4, <4>1, Parts
    <3>3. QED
      BY <1>0, <1>5, <2>3, <3>1, <3>2
  <2>6. q + 1 \in s.n .. Len(Plan[k].cases)
    BY <2>1, <2>4
  <2>7. s.of = NoCall => Unheard(conn, grading.call)'
    BY <1>0, <1>5, <1>8, <2>2 DEF Unheard, Untold, CallsSame
  <2>8. QED
    BY <1>5, <1>6, <2>2, <2>5, <2>6, <2>7 DEF JudgeAt
<1>14. QED
  BY <1>1, <1>7, <1>9, <1>10, <1>11, <1>12, <1>13 DEF Inv

\* Said after the others on c, p takes the story on from where the judge is.
Follows(c, k, p) ==
    \A n \in Nat : \A s :
       /\ n = Len(toBridge[c]) /\ IsState(c, s) /\ JudgeAt(s)
       /\ toBridge'[c][n + 1] = p
       /\ Unheard(c, k) => Untold(c, k, n + 1)'
       => \E u : IsState(c, u) /\ JudgeAt(u)' /\ Tells(c, n + 1, s, u)'

\* The judge says something of the submission it grades.
LEMMA JudgeSays ==
    ASSUME Inv, grading # NoWork, NEW k \in Calls, k = grading.call,
           NEW c \in Conns, c = conn, NEW p \in Packets, p.id = subID[k],
           toBridge' = [toBridge EXCEPT ![c] = Append(@, p)], BridgeSame,
           link' = link, toJudge' = toJudge, net' = net, conn' = conn, input' = input,
           inbox' = inbox, budget' = budget, grading' # NoWork, grading'.call = k,
           Follows(c, k, p)
    PROVE  /\ BridgeInv' /\ NoFaults' /\ OneConnection' /\ Handshaking' /\ Numbered'
           /\ Owned' /\ Requests' /\ Stories' /\ SlicesApart' /\ TrueAnswers'
           /\ toBridge' \in [Conns -> Seq(Packets)]
<1>1. BridgeInv' /\ Numbered' /\ SlicesApart' /\ TrueAnswers' /\ IdsKept
  BY BridgeStands
<1>2. /\ pc' = pc /\ closed' = closed /\ judges' = judges /\ todo' = todo
      /\ caseResults' = caseResults /\ CallsSame
  BY DEF BridgeSame, CasesSame
<1>3. /\ subID[k] # 0 /\ target[k] = c /\ Sent(k)
      /\ net \in {"reading", "begin"} /\ pc[c] \notin Early \cup {"greeting"} /\ link[c] = "open"
  BY DEF Inv, Grading, Handshaking, OneConnection
<1>4. /\ toBridge \in [Conns -> Seq(Packets)]
      /\ toBridge'[c] = Append(toBridge[c], p)
      /\ \A d \in Conns : d # c => toBridge'[d] = toBridge[d]
  BY DEF Inv, JudgeTypes
<1>5. PICK n \in Nat : n = Len(toBridge[c])
  BY <1>4, LenProperties
<1>6. /\ toBridge'[c] \in Seq(Packets) /\ Len(toBridge'[c]) = n + 1
      /\ \A j \in 1 .. n : toBridge'[c][j] = toBridge[c][j]
      /\ toBridge'[c][n + 1] = p
  BY <1>4, <1>5, Appended
<1>7. toBridge' \in [Conns -> Seq(Packets)]
  BY <1>4, <1>6
<1>8. NoFaults'
  BY DEF Inv, NoFaults
<1>9. OneConnection'
  BY <1>2, <1>3, <1>4 DEF Inv, OneConnection
<1>10. Handshaking'
  <2>1. pc[c] \notin {"leaving", "gone"}
    BY <1>3 DEF Inv, Handshaking
  <2>2. net # "hello" /\ net \in {"reading", "begin"}
    BY <1>3
  <2>3. QED
    BY <1>2, <1>3, <1>4, <2>1, <2>2 DEF Inv, Handshaking
<1>11. Owned'
  <2>1. ASSUME NEW d \in Conns, pc[d] \notin Early, NEW i \in Ids, UnderWay(d, i)'
        PROVE  i # 0 /\ SentTo(d, i)'
    <3>1. CASE UnderWay(d, i)
      BY <1>1, <2>1, <3>1, SentToKept DEF Inv, Owned
    <3>2. CASE ~UnderWay(d, i)
      <4>1. PICK j \in 1 .. Len(toBridge'[d]) : toBridge'[d][j].id = i
        BY <2>1 DEF UnderWay
      <4>2. d = c
        BY <1>4, <3>2, <4>1 DEF UnderWay
      <4>3. j \in 1 .. n \/ j = n + 1
        BY <1>6, <4>1, <4>2
      <4>4. j = n + 1
        BY <1>5, <1>6, <3>2, <4>1, <4>2, <4>3 DEF UnderWay
      <4>5. i = subID[k]
        BY <1>6, <4>1, <4>2, <4>4
      <4>6. SentTo(c, i)
        BY <1>3, <4>5 DEF SentTo
      <4>7. QED
        BY <1>1, <1>3, <4>2, <4>5, <4>6, SentToKept
    <3>3. QED
      BY <3>1, <3>2
  <2>2. ASSUME NEW d \in Conns, NEW i \in Ids, todo[d].id = i, i # 0 PROVE SentTo(d, i)'
    BY <1>1, <2>2, SentToKept DEF Inv, Owned
  <2>3. ASSUME NEW i \in Ids, caseResults[i] # NoBox PROVE i # 0 /\ \E d \in Conns : SentTo(d, i)'
    BY <1>1, <2>3, SentToKept DEF Inv, Owned
  <2>4. \A d \in Conns : pc[d] \in Busy <=> todo[d].id # 0
    BY DEF Inv, Owned
  <2>5. QED
    BY <1>2, <2>1, <2>2, <2>3, <2>4 DEF Owned
<1>12. Requests'
  <2>1. RequestsKept
    <3> SUFFICES ASSUME NEW d \in Conns, NEW m \in Messages, IsRequest(d, m)
                 PROVE  IsRequest(d, m)'
      BY DEF RequestsKept
    <3>1. /\ m.call \in Calls /\ subID[m.call] # 0 /\ m.id = subID[m.call]
          /\ target[m.call] = d /\ Sent(m.call) /\ Unheard(d, m.call) /\ m.call # k
      BY DEF IsRequest
    <3>2. subID[m.call] # subID[k]
      BY <1>3, <3>1 DEF Inv, Numbered
    <3>3. Unheard(d, m.call)'
      <4>1. CASE d # c
        BY <1>2, <1>4, <3>1, <4>1 DEF Unheard, Untold, CallsSame
      <4>2. CASE d = c
        <5>1. \A l \in 1 .. n : toBridge[c][l].id # subID[m.call]
          BY <1>5, <3>1, <4>2 DEF Unheard, Untold
        <5>2. \A l \in 1 .. n + 1 : toBridge'[c][l].id # subID[m.call]
          <6> SUFFICES ASSUME NEW l \in 1 .. n + 1 PROVE toBridge'[c][l].id # subID[m.call]
            OBVIOUS
          <6>1. l \in 1 .. n \/ l = n + 1
            OBVIOUS
          <6>2. QED
            BY <1>6, <3>2, <5>1, <6>1
        <5>3. Len(toBridge'[c]) + 1 - 1 = n + 1
          BY <1>6
        <5>4. QED
          BY <1>2, <3>1, <4>2, <5>2, <5>3 DEF Unheard, Untold, CallsSame
      <4>3. QED
        BY <4>1, <4>2
    <3>4. QED
      BY <1>1, <1>2, <3>1, <3>3 DEF IsRequest, IdsKept, CallsSame, Sent
  <2>2. QED
    BY <2>1, RequestsFrame, ArenaAssumption DEF Inv
<1>13. Stories'
  <2> SUFFICES ASSUME NEW d \in Conns, Story(d) PROVE Story(d)'
    BY <1>2 DEF Inv, Stories
  <2>1. CASE d # c
    <3>1. \A j \in Nat : StillUntold(d, j, j)
      BY <1>2, <1>4, <2>1 DEF StillUntold, Untold, CallsSame
    <3>2. \A s : IsState(d, s) /\ HandlerAt(d, s) => HandlerAt(d, s)'
      BY DEF HandlerAt, Holds, BridgeSame, CasesSame, CallsSame
    <3>3. toBridge'[d] = toBridge[d] /\ conn' # d
      BY <1>4, <2>1
    <3>4. QED
      BY <1>1, <3>1, <3>2, <3>3, StoryMoves DEF Inv
  <2>2. CASE d = c
    <3>1. ASSUME Unheard(c, k) PROVE Untold(c, k, n + 1)'
      <4>1. /\ \A l \in 1 .. n : toBridge'[c][l].id # subID[k]
            /\ todo[c].id # subID[k] /\ caseResults[subID[k]] = NoBox
        BY <1>5, <1>6, <3>1 DEF Unheard, Untold
      <4>2. n + 1 - 1 = n
        OBVIOUS
      <4>3. QED
        BY <1>2, <4>1, <4>2 DEF Untold, CallsSame
    <3>2. \A s : IsState(c, s) /\ JudgeAt(s) =>
             \E u : IsState(c, u) /\ JudgeAt(u)' /\ Tells(c, n + 1, s, u)'
      BY <1>5, <1>6, <3>1 DEF Follows
    <3>3. Story(c) /\ conn = c /\ conn' = c
      BY <2>2
    <3>4. QED
      BY <1>5, <2>2, <3>2, <3>3, StorySays DEF Inv
  <2>3. QED
    BY <2>1, <2>2
<1>14. QED
  BY <1>1, <1>7, <1>8, <1>9, <1>10, <1>11, <1>12, <1>13

LEMMA FlushInv ==
    ASSUME Inv, Flush
    PROVE  Inv'
<1>1. grading # NoWork /\ net # "down"
  BY DEF Inv, Grading, Handshaking, Flush
<1>0. /\ queue # <<>> /\ queue' = <<>> /\ conn \in Conns
      /\ toBridge' = [toBridge EXCEPT ![conn] =
                        Append(@, Packet("test-case-status", grading.id, queue))]
      /\ BridgeSame
      /\ link' = link /\ toJudge' = toJudge /\ net' = net /\ conn' = conn /\ input' = input
      /\ inbox' = inbox /\ grading' = grading /\ budget' = budget
  BY <1>1, FlushDoes DEF Inv
<1>2. grading \in Gradings /\ queue \in Seq(Cases)
  BY <1>1 DEF Inv, JudgeTypes
<1>3a. PICK k \in Calls, c \in Conns : k = grading.call /\ c = conn
  BY <1>0, <1>2 DEF Gradings
<1>3. PICK p : /\ k = grading.call /\ c = conn
               /\ p = Packet("test-case-status", grading.id, queue)
  BY <1>3a
<1>4. /\ p.kind = "test-case-status" /\ p.id = grading.id /\ p.cases = queue
      /\ p \in Packets
  BY <1>2, <1>3 DEF Packet, Packets, Gradings
<1>5. /\ p.id = subID[k] /\ subID[k] # 0 /\ target[k] = c /\ grading.end # "sent"
  BY <1>0, <1>1, <1>3, <1>4 DEF Inv, Grading
<1>6. subID' = subID /\ target' = target /\ call' = call
  BY <1>0 DEF BridgeSame, CallsSame
<1>7. ASSUME NEW n \in Nat, NEW s, n = Len(toBridge[c]), IsState(c, s), JudgeAt(s),
             toBridge'[c][n + 1] = p, Unheard(c, k) => Untold(c, k, n + 1)'
      PROVE  \E u : IsState(c, u) /\ JudgeAt(u)' /\ Tells(c, n + 1, s, u)'
  <2>1. /\ Plan[k].cases \in Seq(Cases) /\ s.n \in Nat /\ k # NoCall
    BY <1>7, ArenaAssumption, BridgeAssumption DEF IsState, States
  <2>2. PICK e \in Nat : e = Len(Plan[k].cases)
    BY <2>1
  <2>3. s.of \in {NoCall, k} /\ (s.of = NoCall => Unheard(c, k))
    BY <1>1, <1>3, <1>5, <1>7 DEF JudgeAt, Unheard
  <2>4. PICK q \in s.n .. e : queue = Part(k, s.n, q) /\ grading.left = Part(k, q, e)
    BY <1>1, <1>3, <1>5, <1>7, <2>2 DEF JudgeAt
  <2>5. q \in Nat /\ s.n <= q /\ q <= e /\ e <= Len(Plan[k].cases)
    BY <2>1, <2>2, <2>4
  <2>6. q # s.n
    BY <1>0, <2>1, <2>2, <2>4, <2>5, Parts
  <2>7. q \in s.n + 1 .. e /\ q \in 1 .. e /\ q \in q .. e
    BY <2>1, <2>5, <2>6
  <2>8. PICK u : u = [of |-> k, n |-> q]
    OBVIOUS
  <2>9. IsState(c, u)
    BY <1>5, <2>1, <2>2, <2>7, <2>8 DEF IsState, States
  <2>10. JudgeAt(u)'
    <3>1. queue' = Part(k, q, q)
      BY <1>0, <2>5, Parts
    <3>2. u.of = k /\ u.n = q
      BY <2>8
    <3>3. q \in u.n .. Len(Plan[k].cases)
      BY <2>2, <2>7, <3>2
    <3>4. grading' # NoWork /\ grading'.end # "sent" /\ grading'.call = k
      BY <1>0, <1>1, <1>3, <1>5
    <3>5. queue' = Part(k, u.n, q) /\ grading'.left = Part(k, q, Len(Plan[k].cases))
      BY <1>0, <2>2, <2>4, <3>1, <3>2
    <3>6. QED
      BY <2>1, <3>2, <3>3, <3>4, <3>5 DEF JudgeAt
  <2>11. Tells(c, n + 1, s, u)'
    <3>1. s.of = NoCall => Untold(c, k, n + 1)'
      BY <1>7, <2>3
    <3>2. \E r \in s.n + 1 .. Len(Plan[k].cases) :
             toBridge'[c][n + 1].cases = Part(k, s.n, r) /\ u = [of |-> k, n |-> r]
      BY <1>4, <1>7, <2>2, <2>4, <2>7, <2>8
    <3>3. /\ toBridge'[c][n + 1].id = subID'[k] /\ subID'[k] # 0 /\ target'[k] = c
          /\ toBridge'[c][n + 1].kind = "test-case-status"
      BY <1>4, <1>5, <1>6, <1>7
    <3>4. QED
      BY <2>3, <3>1, <3>2, <3>3 DEF Tells
  <2>12. QED
    BY <2>9, <2>10, <2>11
<1>8. /\ BridgeInv' /\ NoFaults' /\ OneConnection' /\ Handshaking' /\ Numbered'
      /\ Owned' /\ Requests' /\ Stories' /\ SlicesApart' /\ TrueAnswers'
      /\ toBridge' \in [Conns -> Seq(Packets)]
  <2>1. /\ toBridge' = [toBridge EXCEPT ![c] = Append(@, p)]
        /\ grading' # NoWork /\ grading'.call = k
    BY <1>0, <1>1, <1>3
  <2>2. Follows(c, k, p)
    BY <1>7 DEF Follows
  <2>3. c = conn /\ k = grading.call /\ p \in Packets /\ p.id = subID[k]
    BY <1>3, <1>4, <1>5
  <2>4. QED
    BY <1>0, <1>1, <2>1, <2>2, <2>3, JudgeSays
<1>9. JudgeTypes'
  <2>1. <<>> \in Seq(Cases)
    OBVIOUS
  <2>2. QED
    BY <1>0, <1>8, <2>1 DEF Inv, JudgeTypes
<1>10. Grading'
  BY <1>0, <1>1, <1>5, <1>6 DEF Inv, Grading, Sent
<1>11. QED
  BY <1>8, <1>9, <1>10 DEF Inv

LEMMA EndGradingInv ==
    ASSUME Inv, EndGrading
    PROVE  Inv'
<1>1. grading # NoWork /\ net # "down"
  BY DEF Inv, Handshaking, EndGrading
<1>0. /\ grading.left = <<>> /\ queue = <<>> /\ grading.end # "sent"
      /\ grading' = [grading EXCEPT !.end = "sent"] /\ conn \in Conns
      /\ toBridge' = [toBridge EXCEPT ![conn] =
                        Append(@, Packet(grading.end, grading.id, <<>>))]
      /\ BridgeSame
      /\ link' = link /\ toJudge' = toJudge /\ net' = net /\ conn' = conn /\ input' = input
      /\ inbox' = inbox /\ queue' = queue /\ budget' = budget
  BY <1>1, EndGradingDoes DEF Inv
<1>2. grading \in Gradings
  BY <1>1 DEF Inv, JudgeTypes
<1>3a. PICK k \in Calls, c \in Conns : k = grading.call /\ c = conn
  BY <1>0, <1>2 DEF Gradings
<1>3. PICK p : /\ k = grading.call /\ c = conn
               /\ p = Packet(grading.end, grading.id, <<>>)
  BY <1>3a
<1>4. /\ p.kind = grading.end /\ p.id = grading.id /\ p \in Packets
  <2>1. grading.end \in Ends /\ grading.id \in Ids /\ <<>> \in Seq(Cases)
    BY <1>0, <1>2 DEF Gradings
  <2>2. QED
    BY <1>3, <2>1 DEF Packet, Packets
<1>5. /\ p.id = subID[k] /\ subID[k] # 0 /\ target[k] = c /\ Sent(k)
      /\ grading.end = Plan[k].end
  BY <1>0, <1>1, <1>3, <1>4 DEF Inv, Grading
<1>6. subID' = subID /\ target' = target /\ call' = call
  BY <1>0 DEF BridgeSame, CallsSame
<1>7. /\ grading' \in Gradings /\ grading'.call = k /\ grading'.end = "sent"
      /\ grading'.id = grading.id /\ grading'.left = <<>>
  BY <1>0, <1>2, <1>3 DEF Gradings
<1>8. grading' # NoWork
  BY <1>7, ArenaAssumption
<1>9. ASSUME NEW n \in Nat, NEW s, n = Len(toBridge[c]), IsState(c, s), JudgeAt(s),
             toBridge'[c][n + 1] = p, Unheard(c, k) => Untold(c, k, n + 1)'
      PROVE  \E u : IsState(c, u) /\ JudgeAt(u)' /\ Tells(c, n + 1, s, u)'
  <2>1. Plan[k].cases \in Seq(Cases) /\ s.n \in Nat
    BY <1>9, ArenaAssumption DEF IsState, States
  <2>2. PICK e \in Nat : e = Len(Plan[k].cases)
    BY <2>1
  <2>3. s.of \in {NoCall, k} /\ (s.of = NoCall => Unheard(c, k))
    BY <1>0, <1>1, <1>3, <1>9 DEF JudgeAt, Unheard
  <2>4. PICK q \in s.n .. e : queue = Part(k, s.n, q) /\ grading.left = Part(k, q, e)
    BY <1>0, <1>1, <1>3, <1>9, <2>2 DEF JudgeAt
  <2>5. q \in Nat /\ s.n <= q /\ q <= e /\ e <= Len(Plan[k].cases)
    BY <2>1, <2>2, <2>4
  <2>6. s.n = e
    <3>1. s.n = q
      BY <1>0, <2>1, <2>2, <2>4, <2>5, Parts
    <3>2. q = e
      BY <1>0, <2>1, <2>2, <2>4, <2>5, Parts
    <3>3. QED
      BY <3>1, <3>2
  <2>7. IsState(c, Silence)
    BY DEF IsState, States, Silence
  <2>8. JudgeAt(Silence)'
    BY <1>7, <1>8 DEF JudgeAt, Silence
  <2>9. Tells(c, n + 1, s, Silence)'
    <3>1. s.of = NoCall => Untold(c, k, n + 1)'
      BY <1>9, <2>3
    <3>2. /\ toBridge'[c][n + 1].id = subID'[k] /\ subID'[k] # 0 /\ target'[k] = c
          /\ toBridge'[c][n + 1].kind = Plan[k].end /\ s.n = Len(Plan[k].cases)
      BY <1>4, <1>5, <1>6, <1>9, <2>2, <2>6
    <3>3. QED
      BY <2>3, <3>1, <3>2 DEF Tells
  <2>10. QED
    BY <2>7, <2>8, <2>9
<1>10. /\ BridgeInv' /\ NoFaults' /\ OneConnection' /\ Handshaking' /\ Numbered'
       /\ Owned' /\ Requests' /\ Stories' /\ SlicesApart' /\ TrueAnswers'
       /\ toBridge' \in [Conns -> Seq(Packets)]
  <2>1. toBridge' = [toBridge EXCEPT ![c] = Append(@, p)]
    BY <1>0, <1>3
  <2>2. Follows(c, k, p)
    BY <1>9 DEF Follows
  <2>3. c = conn /\ k = grading.call /\ p \in Packets /\ p.id = subID[k]
    BY <1>3, <1>4, <1>5
  <2>4. QED
    BY <1>0, <1>1, <1>7, <1>8, <2>1, <2>2, <2>3, JudgeSays
<1>11. JudgeTypes'
  BY <1>0, <1>7, <1>10 DEF Inv, JudgeTypes
<1>12. Grading'
  BY <1>0, <1>5, <1>3, <1>4, <1>6, <1>7, <1>8 DEF Grading, Sent
<1>13. QED
  BY <1>10, <1>11, <1>12 DEF Inv

\* The judge neither finds its connection lost nor gives up waiting on it.
LEMMA NeverDropped ==
    ASSUME Inv
    PROVE  ~ReadLost /\ ~IdleTimeout
<1>1. ASSUME ReadLost PROVE FALSE
  <2>1. net \in {"awaiting", "reading"} /\ (link[input] = "broken" \/ closed[input])
    BY <1>1 DEF ReadLost
  <2>2. input \in Conns /\ link[input] = "open"
    BY <2>1, Sends DEF Inv, OneConnection
  <2>3. QED
    BY <2>1, <2>2 DEF Inv, OneConnection
<1>2. ASSUME IdleTimeout PROVE FALSE
  <2>1. budget["idle"] > 0
    BY <1>2 DEF IdleTimeout, Spend
  <2>2. budget["idle"] = 0
    BY DEF Inv, NoFaults
  <2>3. QED
    BY <2>1, <2>2
<1>3. QED
  BY <1>1, <1>2

LEMMA JudgeStepInv ==
    ASSUME Inv, JudgeStep
    PROVE  Inv'
BY NeverDropped, ConnectInv, HelloInv, WelcomeInv, ReadRequestInv, BeginGradingInv, GradeCaseInv,
   FlushInv, EndGradingInv, TeardownInv DEF JudgeStep

-------------------------------------------------------------------------------
(* The bridge's sessions *)

\* The bridge sends a message: an answer to the handshake, or a new request.
LEMMA RequestsPosted ==
    ASSUME JudgeTypes, Requests, RequestsKept, NEW c \in Conns, NEW m \in Messages,
           toJudge' = [toJudge EXCEPT ![c] = Append(@, m)], inbox' = inbox, conn' = conn,
           m.kind = "submission-request" =>
              /\ IsRequest(c, m)'
              /\ inbox # NoWork /\ conn = c => inbox.call # m.call
              /\ \A l \in 1 .. Len(toJudge[c]), w \in Messages :
                    Asked(c, l, w) => w.call # m.call
    PROVE  Requests'
<1>1. PICK n \in Nat : n = Len(toJudge[c])
  BY LenProperties DEF JudgeTypes
<1>2. /\ Len(toJudge'[c]) = n + 1 /\ toJudge'[c][n + 1] = m
      /\ \A l \in 1 .. n : toJudge'[c][l] = toJudge[c][l]
      /\ \A d \in Conns : d # c => toJudge'[d] = toJudge[d]
  <2>1. toJudge[c] \in Seq(Messages) /\ toJudge'[c] = Append(toJudge[c], m)
    BY DEF JudgeTypes
  <2>2. QED
    BY <1>1, <2>1, Appended DEF JudgeTypes
<1>3. ASSUME NEW l \in 1 .. n + 1, NEW w, Asked(c, l, w)'
      PROVE  \/ l \in 1 .. n /\ Asked(c, l, w)
             \/ l = n + 1 /\ w = m /\ m.kind = "submission-request"
  <2>1. l \in 1 .. n \/ l = n + 1
    OBVIOUS
  <2>2. QED
    BY <1>2, <1>3, <2>1 DEF Asked
<1> SUFFICES ASSUME NEW d \in Conns, NEW v \in Messages
             PROVE  /\ \A j \in 1 .. Len(toJudge'[d]) : Asked(d, j, v)' =>
                         /\ IsRequest(d, v)'
                         /\ inbox' # NoWork /\ conn' = d => inbox'.call # v.call
                         /\ \A l \in 1 .. Len(toJudge'[d]), w \in Messages :
                              Asked(d, l, w)' /\ w.call = v.call => l = j
                    /\ inbox' = v /\ conn' = d => IsRequest(d, v)'
  BY DEF Requests
<1>4. inbox' = v /\ conn' = d => IsRequest(d, v)'
  BY DEF Requests, RequestsKept
<1>5. CASE d # c
  <2>1. toJudge'[d] = toJudge[d] /\ \A l, w : Asked(d, l, w)' <=> Asked(d, l, w)
    BY <1>2, <1>5 DEF Asked
  <2>2. ASSUME NEW j \in 1 .. Len(toJudge'[d]), Asked(d, j, v)'
        PROVE  /\ IsRequest(d, v)'
               /\ inbox' # NoWork /\ conn' = d => inbox'.call # v.call
               /\ \A l \in 1 .. Len(toJudge'[d]), w \in Messages :
                    Asked(d, l, w)' /\ w.call = v.call => l = j
    <3>1. /\ IsRequest(d, v)
          /\ inbox # NoWork /\ conn = d => inbox.call # v.call
          /\ \A l \in 1 .. Len(toJudge[d]), w \in Messages :
               Asked(d, l, w) /\ w.call = v.call => l = j
      BY <2>1, <2>2 DEF Requests
    <3>2. QED
      BY <2>1, <3>1 DEF RequestsKept
  <2>3. QED
    BY <1>4, <2>2
<1>6. CASE d = c
  <2> SUFFICES ASSUME NEW j \in 1 .. n + 1, Asked(c, j, v)'
               PROVE  /\ IsRequest(c, v)'
                      /\ inbox # NoWork /\ conn = c => inbox.call # v.call
                      /\ \A l \in 1 .. n + 1, w \in Messages :
                           Asked(c, l, w)' /\ w.call = v.call => l = j
    BY <1>2, <1>4, <1>6
  <2>1. CASE j \in 1 .. n /\ Asked(c, j, v)
    <3>1. /\ IsRequest(c, v)'
          /\ inbox # NoWork /\ conn = c => inbox.call # v.call
          /\ \A l \in 1 .. n, w \in Messages : Asked(c, l, w) /\ w.call = v.call => l = j
      BY <1>1, <2>1 DEF Requests, RequestsKept
    <3>2. m.kind = "submission-request" => v.call # m.call
      BY <1>1, <2>1
    <3>3. QED
      BY <1>3, <3>1, <3>2
  <2>2. CASE j = n + 1 /\ v = m /\ m.kind = "submission-request"
    BY <1>1, <1>3, <2>2
  <2>3. QED
    BY <1>3, <2>1, <2>2
<1>7. QED
  BY <1>5, <1>6

\* A handler moves on in its session.
LEMMA SessionFrame ==
    ASSUME Inv, BridgeInv', CasesSame, CallsSame, chan' = chan, JudgeSame,
           NEW c \in Conns, NEW p \in HandlerStates \ Busy, pc[c] \notin Busy,
           pc' = [pc EXCEPT ![c] = p], link[c] # "unused",
           pc[c] \in Late => p \in Late,
           p \in Early => pc[c] \in Early,
           p \in {"leaving", "gone"} => link[c] = "closed" /\ toBridge'[c] = <<>>,
           pc[c] \in Early => p \in Early \/ p = "leaving" \/ (p = "greeting" /\ toBridge[c] # <<>>),
           p = "greeting" => pc[c] \in Early,
           \A d \in Conns : closed'[d] => closed[d] \/ link[d] = "closed",
           \A n \in JudgeIds : judges'[n] # NoConn =>
              judges'[n] = judges[n] \/ (judges'[n] = c /\ p = "serving"),
           toBridge' = toBridge \/ (toBridge' = [toBridge EXCEPT ![c] = <<>>] /\ p \notin Early),
           p \in {"greeting", "registering", "serving"} =>
              \/ toBridge' = toBridge /\ pc[c] \in {"greeting", "registering"}
              \/ toBridge'[c] = <<>> /\ Story(c)',
           toJudge' \in [Conns -> Seq(Messages)],
           \A d \in Conns : toJudge'[d] # <<>> =>
              toJudge[d] # <<>> \/ (d = c /\ link[c] = "open" /\ p = "registering"),
           RequestsKept => Requests'
    PROVE  Inv'
<1>1. IdsKept /\ Grading' /\ NoFaults'
  BY CallsKeepIds, JudgeStands DEF Inv
<1>2. pc \in [Conns -> HandlerStates] /\ pc'[c] = p /\ \A d \in Conns : d # c => pc'[d] = pc[d]
  BY DEF Inv, BridgeInv, TypeOK
<1>3. /\ \A d \in Conns : toBridge'[d] = toBridge[d] \/ (d = c /\ toBridge'[d] = <<>> /\ p \notin Early)
      /\ toBridge' \in [Conns -> Seq(Packets)]
  <2>1. toBridge \in [Conns -> Seq(Packets)] /\ <<>> \in Seq(Packets)
    BY DEF Inv, JudgeTypes
  <2>2. CASE toBridge' = toBridge
    BY <2>1, <2>2
  <2>3. CASE toBridge' = [toBridge EXCEPT ![c] = <<>>] /\ p \notin Early
    <3>1. toBridge' \in [Conns -> Seq(Packets)]
      BY <2>1, <2>3
    <3>2. \A d \in Conns : toBridge'[d] = IF d = c THEN <<>> ELSE toBridge[d]
      BY <2>1, <2>3
    <3>3. QED
      BY <2>3, <3>1, <3>2
  <2>4. QED
    BY <2>2, <2>3
<1>4. JudgeTypes'
  BY <1>3 DEF Inv, JudgeTypes, JudgeSame
<1>5. OneConnection'
  BY <1>2, <1>3 DEF Inv, OneConnection, JudgeSame
<1>6. Handshaking'
  <2>1. ASSUME NEW d \in Conns
        PROVE  /\ pc'[d] \in Early => toBridge'[d] \in {<<>>, <<HandshakePacket>>}
               /\ pc'[d] \in {"leaving", "gone"} => link[d] = "closed" /\ toBridge'[d] = <<>>
               /\ toJudge'[d] # <<>> => pc'[d] \notin Early \cup {"greeting"} /\ link[d] = "open"
    <3>1. CASE d # c
      BY <1>2, <1>3, <3>1 DEF Inv, Handshaking
    <3>2. CASE d = c
      BY <1>2, <1>3, <3>2 DEF Inv, Handshaking, Early
    <3>3. QED
      BY <3>1, <3>2
  <2>2. net = "hello" => pc'[conn] \in Early /\ toBridge'[conn] = <<>>
    <3> SUFFICES ASSUME net = "hello" PROVE pc'[conn] \in Early /\ toBridge'[conn] = <<>>
      OBVIOUS
    <3>1. pc[conn] \in Early /\ toBridge[conn] = <<>> /\ link[conn] = "open" /\ conn \in Conns
      BY DEF Inv, Handshaking, OneConnection
    <3>2. conn = c => p \in Early
      BY <3>1
    <3>3. QED
      BY <1>2, <1>3, <3>1, <3>2
  <2>3. net \in {"reading", "begin"} => pc'[conn] \notin Early \cup {"greeting"}
    <3> SUFFICES ASSUME net \in {"reading", "begin"} PROVE pc'[conn] \notin Early \cup {"greeting"}
      OBVIOUS
    <3>1. pc[conn] \notin Early \cup {"greeting"} /\ conn \in Conns
      BY DEF Inv, Handshaking, OneConnection
    <3>2. QED
      BY <1>2, <3>1
  <2>4. \A n \in JudgeIds : judges'[n] # NoConn => pc'[judges'[n]] \in Late
    <3> SUFFICES ASSUME NEW n \in JudgeIds, judges'[n] # NoConn PROVE pc'[judges'[n]] \in Late
      OBVIOUS
    <3>1. CASE judges'[n] = judges[n]
      BY <1>2, <3>1 DEF Inv, Handshaking, BridgeInv, TypeOK
    <3>2. CASE judges'[n] = c /\ p = "serving"
      BY <1>2, <3>2 DEF Late
    <3>3. QED
      BY <3>1, <3>2
  <2>5. /\ net' = net /\ conn' = conn /\ link' = link /\ grading' = grading /\ inbox' = inbox
        /\ net \notin {"reading", "begin"} => grading = NoWork
        /\ inbox # NoWork <=> net = "begin"
    BY DEF Inv, Handshaking, JudgeSame
  <2>6. QED
    BY <2>1, <2>2, <2>3, <2>4, <2>5 DEF Handshaking
<1>7. Numbered'
  BY <1>2, NumberedFrame DEF Inv
<1>8. Owned'
  <2>1. todo' = todo /\ caseResults' = caseResults
    BY DEF CasesSame
  <2>2. ASSUME NEW d \in Conns
        PROVE  /\ pc'[d] \notin Early =>
                     \/ toBridge'[d] = <<>>
                     \/ toBridge'[d] = toBridge[d] /\ pc[d] \notin Early
               /\ pc'[d] \in Busy <=> pc[d] \in Busy
    <3>1. CASE d # c
      BY <1>2, <1>3, <3>1
    <3>2. CASE d = c
      <4>1. p \notin Early /\ pc[c] \in Early => toBridge'[c] = <<>>
        BY DEF Early
      <4>2. QED
        BY <1>2, <1>3, <3>2, <4>1
    <3>3. QED
      BY <3>1, <3>2
  <2>3. QED
    BY <1>1, <2>1, <2>2, OwnedFrame DEF Inv
<1>9. Requests'
  <2>1. \A d \in Conns : toBridge'[d] \in {toBridge[d], <<>>}
    BY <1>3
  <2>2. RequestsKept
    BY <1>1, <2>1, RequestStands DEF CasesSame, JudgeSame
  <2>3. QED
    BY <2>2
<1>10. SlicesApart'
  BY <1>2 DEF Inv, SlicesApart, CasesSame
<1>11. TrueAnswers'
  BY DEF Inv, TrueAnswers, CallsSame
<1>12. Stories'
  <2> SUFFICES ASSUME NEW d \in Conns,
                      pc'[d] \in {"greeting", "registering", "serving", "appending", "finalizing"}
               PROVE  Story(d)'
    BY DEF Stories
  <2>1. CASE d = c /\ Story(c)'
    BY <2>1
  <2>2. CASE ~(d = c /\ Story(c)')
    <3>1. /\ Story(d) /\ toBridge'[d] = toBridge[d]
          /\ pc'[d] = pc[d] \/ (pc'[d] \notin Busy /\ pc[d] \notin Busy)
      <4>1. CASE d # c
        BY <1>2, <1>3, <4>1 DEF Inv, Stories
      <4>2. CASE d = c
        BY <1>2, <1>3, <2>2, <4>2 DEF Inv, Stories, Busy
      <4>3. QED
        BY <4>1, <4>2
    <3>2. \A j \in Nat : StillUntold(d, j, j)
      BY <3>1 DEF StillUntold, Untold, CasesSame, CallsSame
    <3>3. \A s : IsState(d, s) /\ HandlerAt(d, s) => HandlerAt(d, s)'
      BY <3>1 DEF HandlerAt, Holds, CasesSame, CallsSame, Busy
    <3>4. conn' = d => \A s : IsState(d, s) /\ JudgeAt(s) => JudgeAt(s)'
      BY <3>1 DEF JudgeAt, Unheard, Untold, CasesSame, CallsSame, JudgeSame
    <3>5. QED
      BY <1>1, <3>1, <3>2, <3>3, <3>4, StoryMoves DEF Inv, JudgeSame
  <2>3. QED
    BY <2>1, <2>2
<1>13. QED
  BY <1>1, <1>4, <1>5, <1>6, <1>7, <1>8, <1>9, <1>10, <1>11, <1>12 DEF Inv

LEMMA SessionBridge ==
    ASSUME Inv, NEW c \in Conns,
           \/ Accept(c) \/ Handshake(c, JudgeName) \/ HandshakeReject(c) \/ Greet(c)
           \/ GreetError(c) \/ Register(c) \/ RecvError(c) \/ Deregister(c)
    PROVE  /\ BridgeInv' /\ CasesSame /\ CallsSame /\ chan' = chan
           /\ pc \in [Conns -> HandlerStates] /\ closed \in [Conns -> BOOLEAN]
           /\ judges \in [JudgeIds -> Conns \cup {NoConn}] /\ name[c] \in JudgeIds
<1>1. BridgeInv'
  <2>1. CASE Handshake(c, JudgeName)
    BY <2>1, AnyBridgeStep, ArenaAssumption DEF Inv
  <2>2. CASE \/ Accept(c) \/ HandshakeReject(c) \/ Greet(c)
             \/ GreetError(c) \/ Register(c) \/ RecvError(c) \/ Deregister(c)
    <3>1. Next
      BY <2>2 DEF Next, PeerStep, HandlerStep
    <3>2. QED
      BY <3>1, AnyBridgeStep DEF Inv
  <2>3. QED
    BY <2>1, <2>2
<1>2. UNCHANGED caseVars /\ UNCHANGED callVars /\ chan' = chan
  BY DEF Accept, Handshake, HandshakeReject, Greet, GreetError, Register, RecvError, Deregister
<1>3. QED
  BY <1>1, <1>2, Same DEF Inv, BridgeInv, TypeOK

LEMMA AcceptInv ==
    ASSUME Inv, NEW c \in Conns, BridgeAccept(c)
    PROVE  Inv'
<1>1. /\ link[c] # "unused" /\ pc[c] = "idle" /\ pc' = [pc EXCEPT ![c] = "handshake"]
      /\ closed' = closed /\ judges' = judges
      /\ JudgeSame /\ toBridge' = toBridge /\ toJudge' = toJudge
  BY Same DEF BridgeAccept, Accept
<1>2. BridgeInv' /\ CasesSame /\ CallsSame /\ chan' = chan
  BY SessionBridge DEF BridgeAccept
<1>3. toJudge' \in [Conns -> Seq(Messages)]
  BY <1>1 DEF Inv, JudgeTypes
<1>4. RequestsKept => Requests'
  BY <1>1, RequestsFrame, ArenaAssumption DEF Inv, JudgeSame
<1>5. "handshake" \in HandlerStates \ Busy
  BY DEF HandlerStates, Busy
<1>6. QED
  BY <1>1, <1>2, <1>3, <1>4, <1>5, SessionFrame DEF Early, Late, Busy

LEMMA HandshakeInv ==
    ASSUME Inv, NEW c \in Conns, BridgeHandshake(c)
    PROVE  Inv'
<1>1. /\ pc[c] = "handshake" /\ pc' = [pc EXCEPT ![c] = "greeting"]
      /\ closed' = closed /\ judges' = judges
      /\ toBridge[c] # <<>> /\ toBridge' = [toBridge EXCEPT ![c] = Tail(@)]
      /\ JudgeSame /\ toJudge' = toJudge
  BY Same DEF BridgeHandshake, Handshake, Comes, Pop
<1>2. BridgeInv' /\ CasesSame /\ CallsSame /\ chan' = chan
  BY SessionBridge DEF BridgeHandshake
<1>3. toJudge' \in [Conns -> Seq(Messages)]
  BY <1>1 DEF Inv, JudgeTypes
<1>4. RequestsKept => Requests'
  BY <1>1, RequestsFrame, ArenaAssumption DEF Inv, JudgeSame
<1>5. "greeting" \in HandlerStates \ Busy
  BY DEF HandlerStates, Busy
<1>6. toBridge[c] = <<HandshakePacket>>
  BY <1>1 DEF Inv, Handshaking, Early
<1>7. Tail(<<HandshakePacket>>) = <<>>
  OBVIOUS
<1>8. toBridge' = [toBridge EXCEPT ![c] = <<>>] /\ toBridge'[c] = <<>>
  BY <1>1, <1>6, <1>7 DEF Inv, JudgeTypes
<1>9. link[c] # "unused"
  BY <1>1 DEF Inv, OneConnection
<1>10. Story(c)'
  <2>1. Silence \in States /\ IsState(c, Silence)' /\ Len(toBridge'[c]) = 0
    BY <1>8 DEF Silence, States, IsState
  <2>2. HandlerAt(c, Silence)'
    BY <1>1 DEF HandlerAt, Silence, Inv, BridgeInv, TypeOK, Busy
  <2>3. conn' = c => JudgeAt(Silence)'
    <3>1. conn = c => net \notin {"reading", "begin"}
      BY <1>1 DEF Inv, Handshaking, Early
    <3>2. conn = c => grading = NoWork
      BY <3>1 DEF Inv, Handshaking
    <3>3. QED
      BY <1>1, <3>2 DEF JudgeAt, JudgeSame, Silence
  <2>4. PICK t \in [1 .. 1 -> States] : t[1] = Silence
    <3> DEFINE w == [j \in 1 .. 1 |-> Silence]
    <3>1. w \in [1 .. 1 -> States] /\ w[1] = Silence
      BY <2>1
    <3> HIDE DEF w
    <3>2. QED
      BY <3>1
  <2>5. 1 .. 0 + 1 = 1 .. 1 /\ 1 .. 0 = {} /\ 0 + 1 = 1
    OBVIOUS
  <2>6. \A j \in 1 .. 1 : t[j] = Silence
    BY <2>4
  <2>7. QED
    BY <2>1, <2>2, <2>3, <2>4, <2>5, <2>6 DEF Story
<1>11. QED
  BY <1>1, <1>2, <1>3, <1>4, <1>5, <1>8, <1>9, <1>10, SessionFrame DEF Early, Late, Busy

\* A handler that leaves finds that the judge has crashed, and drops what the
\* judge had said.
LEMMA LeavesInv ==
    ASSUME Inv, BridgeInv', CasesSame, CallsSame, chan' = chan, JudgeSame, NEW c \in Conns,
           pc[c] \in {"handshake", "greeting", "serving"}, Leave(c), link[c] = "closed",
           toBridge' = [toBridge EXCEPT ![c] = <<>>], toJudge' = toJudge
    PROVE  Inv'
<1>1. /\ pc' = [pc EXCEPT ![c] = "leaving"] /\ judges' = judges
      /\ \A d \in Conns : closed'[d] => closed[d] \/ link[d] = "closed"
  BY DEF Leave, Inv, BridgeInv, TypeOK
<1>2. toBridge'[c] = <<>>
  BY DEF Inv, JudgeTypes
<1>3. toJudge' \in [Conns -> Seq(Messages)]
  BY DEF Inv, JudgeTypes
<1>4. RequestsKept => Requests'
  BY RequestsFrame, ArenaAssumption DEF Inv, JudgeSame
<1>5. "leaving" \in HandlerStates \ Busy
  BY DEF HandlerStates, Busy
<1>6. QED
  BY <1>1, <1>2, <1>3, <1>4, <1>5, SessionFrame DEF Early, Late, Busy

LEMMA RejectInv ==
    ASSUME Inv, NEW c \in Conns, BridgeReject(c)
    PROVE  Inv'
<1>1. /\ pc[c] = "handshake" /\ Leave(c) /\ JudgeSame
      /\ toBridge' = [toBridge EXCEPT ![c] = <<>>] /\ toJudge' = toJudge
      /\ (toBridge[c] # <<>> /\ ~Comes(c, "handshake")) \/ Eof(c)
  BY Same DEF BridgeReject, HandshakeReject
<1>2. BridgeInv' /\ CasesSame /\ CallsSame /\ chan' = chan
  BY SessionBridge DEF BridgeReject
<1>3. link[c] = "closed"
  <2>1. toBridge[c] \in {<<>>, <<HandshakePacket>>}
    BY <1>1 DEF Inv, Handshaking, Early
  <2>2. Head(<<HandshakePacket>>).kind = "handshake"
    BY DEF HandshakePacket, Packet
  <2>3. Eof(c)
    BY <1>1, <2>1, <2>2 DEF Comes
  <2>4. QED
    BY <2>3 DEF Eof, Inv, JudgeTypes
<1>4. QED
  BY <1>1, <1>2, <1>3, LeavesInv

LEMMA RecvErrorInv ==
    ASSUME Inv, NEW c \in Conns, BridgeRecvError(c)
    PROVE  Inv'
<1>1. /\ pc[c] = "serving" /\ Leave(c) /\ JudgeSame
      /\ toBridge' = [toBridge EXCEPT ![c] = <<>>] /\ toJudge' = toJudge
      /\ Eof(c) \/ closed[c]
  BY Same DEF BridgeRecvError, RecvError
<1>2. BridgeInv' /\ CasesSame /\ CallsSame /\ chan' = chan
  BY SessionBridge DEF BridgeRecvError
<1>3. link[c] = "closed"
  BY <1>1 DEF Eof, Inv, JudgeTypes, OneConnection
<1>4. QED
  BY <1>1, <1>2, <1>3, LeavesInv

LEMMA GreetInv ==
    ASSUME Inv, NEW c \in Conns, BridgeGreet(c)
    PROVE  Inv'
<1>1. ASSUME link[c] # "open", GreetError(c), toBridge' = [toBridge EXCEPT ![c] = <<>>],
             UNCHANGED <<judgeProcess, toJudge>>
      PROVE  Inv'
  <2>1. pc[c] = "greeting" /\ Leave(c) /\ JudgeSame /\ toJudge' = toJudge
    BY <1>1, Same DEF GreetError
  <2>2. BridgeInv' /\ CasesSame /\ CallsSame /\ chan' = chan
    BY <1>1, SessionBridge
  <2>3. link[c] = "closed"
    BY <1>1, <2>1 DEF Inv, JudgeTypes, OneConnection
  <2>4. QED
    BY <1>1, <2>1, <2>2, <2>3, LeavesInv
<1>2. ASSUME Greet(c), Post(c, [kind |-> "handshake-success", id |-> 0, call |-> NoCall]),
             UNCHANGED <<judgeProcess, toBridge>>
      PROVE  Inv'
  <2>1. /\ pc[c] = "greeting" /\ pc' = [pc EXCEPT ![c] = "registering"]
        /\ closed' = closed /\ judges' = judges /\ JudgeSame /\ toBridge' = toBridge
    BY <1>2, Same DEF Greet
  <2>2. BridgeInv' /\ CasesSame /\ CallsSame /\ chan' = chan
    BY <1>2, SessionBridge
  <2>3. PICK m : m = [kind |-> "handshake-success", id |-> 0, call |-> NoCall]
    OBVIOUS
  <2>4. m \in Messages /\ m.kind # "submission-request"
    <3>1. 0 \in Ids
      BY BridgeAssumption DEF Ids
    <3>2. QED
      BY <2>3, <3>1 DEF Messages
  <2>5. toJudge' = IF link[c] = "open" THEN [toJudge EXCEPT ![c] = Append(@, m)] ELSE toJudge
    BY <1>2, <2>3 DEF Post
  <2>6. toJudge \in [Conns -> Seq(Messages)] /\ Append(toJudge[c], m) \in Seq(Messages)
    BY <2>4, Appended DEF Inv, JudgeTypes
  <2>7. toJudge' \in [Conns -> Seq(Messages)]
    BY <2>5, <2>6
  <2>8. \A d \in Conns : toJudge'[d] # <<>> => toJudge[d] # <<>> \/ (d = c /\ link[c] = "open")
    BY <2>5, <2>6
  <2>9. RequestsKept => Requests'
    <3>1. CASE link[c] = "open"
      BY <2>1, <2>4, <2>5, <3>1, RequestsPosted DEF Inv, JudgeSame
    <3>2. CASE link[c] # "open"
      BY <2>1, <2>5, <3>2, RequestsFrame, ArenaAssumption DEF Inv, JudgeSame
    <3>3. QED
      BY <3>1, <3>2
  <2>10. "registering" \in HandlerStates \ Busy
    BY DEF HandlerStates, Busy
  <2>11. link[c] # "unused"
    BY <2>1 DEF Inv, OneConnection
  <2>12. QED
    BY <2>1, <2>2, <2>7, <2>8, <2>9, <2>10, <2>11, SessionFrame DEF Early, Late, Busy
<1>3. QED
  BY <1>1, <1>2 DEF BridgeGreet

LEMMA RegisterInv ==
    ASSUME Inv, NEW c \in Conns, Register(c) \/ Deregister(c), UNCHANGED judgeVars
    PROVE  Inv'
<1>1. JudgeSame /\ toBridge' = toBridge /\ toJudge' = toJudge
  BY Same
<1>2. /\ BridgeInv' /\ CasesSame /\ CallsSame /\ chan' = chan
      /\ judges \in [JudgeIds -> Conns \cup {NoConn}] /\ name[c] \in JudgeIds
  BY SessionBridge
<1>3. toJudge' \in [Conns -> Seq(Messages)]
  BY <1>1 DEF Inv, JudgeTypes
<1>4. RequestsKept => Requests'
  BY <1>1, RequestsFrame, ArenaAssumption DEF Inv, JudgeSame
<1>5. \/ pc[c] = "registering" /\ pc' = [pc EXCEPT ![c] = "serving"]
      \/ pc[c] = "leaving" /\ pc' = [pc EXCEPT ![c] = "gone"]
  BY DEF Register, Deregister
<1>6. link[c] # "unused" /\ closed' = closed
  BY <1>5 DEF Inv, OneConnection, Register, Deregister
<1>7. CASE Register(c)
  <2>1. /\ pc[c] = "registering" /\ pc' = [pc EXCEPT ![c] = "serving"]
        /\ \A n \in JudgeIds : judges'[n] = judges[n] \/ judges'[n] = c
    BY <1>2, <1>7 DEF Register
  <2>2. "serving" \in HandlerStates \ Busy
    BY DEF HandlerStates, Busy
  <2>3. QED
    BY <1>1, <1>2, <1>3, <1>4, <1>6, <2>1, <2>2, SessionFrame DEF Early, Late, Busy
<1>8. CASE Deregister(c)
  <2>1. /\ pc[c] = "leaving" /\ pc' = [pc EXCEPT ![c] = "gone"]
        /\ \A n \in JudgeIds : judges'[n] # NoConn => judges'[n] = judges[n]
    BY <1>2, <1>8 DEF Deregister
  <2>2. "gone" \in HandlerStates \ Busy
    BY DEF HandlerStates, Busy
  <2>3. link[c] = "closed" /\ toBridge'[c] = <<>>
    BY <1>1, <2>1 DEF Inv, Handshaking
  <2>4. QED
    BY <1>1, <1>2, <1>3, <1>4, <1>6, <2>1, <2>2, <2>3, SessionFrame DEF Early, Late, Busy
<1>9. QED
  BY <1>7, <1>8

-------------------------------------------------------------------------------
(* Submit calls *)

\* A call moves on.
LEMMA CallFrame ==
    ASSUME Inv, BridgeInv', pc' = pc, closed' = closed, judges' = judges, CasesSame, JudgeSame,
           toBridge' = toBridge, IdsKept, Numbered', TrueAnswers',
           toJudge' \in [Conns -> Seq(Messages)],
           \A d \in Conns : toJudge'[d] # <<>> =>
              toJudge[d] # <<>> \/ (link[d] = "open" /\ pc[d] \in Late),
           RequestsKept => Requests'
    PROVE  Inv'
<1>1. JudgeTypes' /\ NoFaults'
  BY DEF Inv, JudgeTypes, JudgeSame, NoFaults
<1>2. OneConnection'
  BY DEF Inv, OneConnection, JudgeSame
<1>3. Handshaking'
  <2>1. \A d \in Conns : toJudge'[d] # <<>> => pc[d] \notin Early \cup {"greeting"} /\ link[d] = "open"
    BY DEF Inv, Handshaking, Late, Early
  <2>2. QED
    BY <2>1 DEF Inv, Handshaking, JudgeSame
<1>4. Owned'
  BY OwnedFrame DEF Inv, CasesSame
<1>5. Requests'
  BY RequestStands DEF CasesSame, JudgeSame
<1>6. Grading'
  <2>1. grading # NoWork => grading.call \in Calls
    BY DEF Inv, JudgeTypes, Gradings
  <2>2. QED
    BY <2>1 DEF Inv, Grading, JudgeSame, IdsKept
<1>7. SlicesApart'
  BY DEF Inv, SlicesApart, CasesSame
<1>8. Stories'
  <2> SUFFICES ASSUME NEW d \in Conns, Story(d) PROVE Story(d)'
    BY DEF Inv, Stories
  <2>1. \A j \in Nat : StillUntold(d, j, j)
    BY DEF StillUntold, Untold, CasesSame, IdsKept
  <2>2. ASSUME NEW s, IsState(d, s), HandlerAt(d, s) PROVE HandlerAt(d, s)'
    <3>1. s.of # NoCall => s.of \in Calls /\ subID'[s.of] = subID[s.of]
      BY <2>2 DEF IsState, States, IdsKept
    <3>2. \A k \in Calls : pc[d] = "finalizing" /\ todo[d].id = subID[k] => subID'[k] = subID[k]
      BY DEF Inv, Owned, Busy, IdsKept
    <3>3. pc'[d] = "appending" =>
             /\ s.of # NoCall /\ todo'[d].id = subID'[s.of]
             /\ \E m \in 0 .. s.n :
                  /\ todo'[d].cases = Part(s.of, m, s.n)
                  /\ IF box'[d] = NoBox THEN Holds(s.of, m)' ELSE seen'[d] = Part(s.of, 0, m)
      BY <2>2, <3>1 DEF HandlerAt, Holds, CasesSame
    <3>4. pc'[d] = "finalizing" =>
             /\ s.of = NoCall
             /\ \E k \in Calls :
                  /\ todo'[d].id = subID'[k] /\ Plan[k].end = "grading-end"
                  /\ seen'[d] = Plan[k].cases
                  /\ IF box'[d] = NoBox THEN Plan[k].cases = <<>> ELSE heap'[box'[d]] = Plan[k].cases
      BY <2>2, <3>2 DEF HandlerAt, CasesSame
    <3>5. pc'[d] \notin Busy /\ s.of # NoCall => Holds(s.of, s.n)'
      BY <2>2, <3>1 DEF HandlerAt, Holds, CasesSame
    <3>6. QED
      BY <3>3, <3>4, <3>5 DEF HandlerAt
  <2>3. conn' = d => \A s : IsState(d, s) /\ JudgeAt(s) => JudgeAt(s)'
    <3> SUFFICES ASSUME conn = d, NEW s, JudgeAt(s) PROVE JudgeAt(s)'
      BY DEF JudgeSame
    <3>1. CASE grading = NoWork \/ grading.end = "sent"
      BY <3>1 DEF JudgeAt, JudgeSame
    <3>2. CASE ~(grading = NoWork \/ grading.end = "sent")
      <4>1. grading.call \in Calls /\ subID'[grading.call] = subID[grading.call]
        BY <3>2 DEF Inv, JudgeTypes, Gradings, Grading, IdsKept
      <4>2. Unheard(conn, grading.call) => Unheard(conn, grading.call)'
        BY <4>1 DEF Unheard, Untold, CasesSame, JudgeSame
      <4>3. QED
        BY <3>2, <4>1, <4>2 DEF JudgeAt, JudgeSame
    <3>3. QED
      BY <3>1, <3>2
  <2>4. QED
    BY <2>1, <2>2, <2>3, StoryMoves DEF Inv, JudgeSame
<1>9. QED
  BY <1>1, <1>2, <1>3, <1>4, <1>5, <1>6, <1>7, <1>8 DEF Inv

CallAlone(k) ==
    \/ SubmitPick(k) \/ SubmitNoJudge(k) \/ SubmitStore(k) \/ SubmitReceive(k)
    \/ SubmitTimeout(k) \/ SubmitSendError(k) \/ Expire(k)

LEMMA CallBridge ==
    ASSUME Inv, NEW k \in Calls, CallAlone(k) \/ SubmitSend(k)
    PROVE  /\ BridgeInv' /\ pc' = pc /\ closed' = closed /\ judges' = judges /\ CasesSame
           /\ call \in [Calls -> {"new", "picked", "stored", "waiting", "returned"}]
           /\ subID \in [Calls -> Ids] /\ target \in [Calls -> Conns \cup {NoConn}]
           /\ chan \in [Calls -> Result \cup {NoResult}]
           /\ answer \in [Calls -> Result \cup {NoResult}]
<1>1. Next
  BY DEF CallAlone, Next, CallStep
<1>2. BridgeInv'
  BY <1>1, AnyBridgeStep DEF Inv
<1>3. UNCHANGED connVars /\ UNCHANGED caseVars
  BY DEF CallAlone, SubmitPick, SubmitNoJudge, SubmitStore, SubmitReceive, SubmitTimeout,
         SubmitSendError, Expire, SubmitSend
<1>4. pc' = pc /\ closed' = closed /\ judges' = judges
  BY <1>3 DEF connVars
<1>5. QED
  BY <1>2, <1>3, <1>4, Same DEF Inv, BridgeInv, TypeOK

\* What a call does to its number, and to the answers.
LEMMA CallMoves ==
    ASSUME Inv, NEW k \in Calls, CallAlone(k) \/ SubmitSend(k)
    PROVE  IdsKept /\ Numbered' /\ TrueAnswers'
<1>0. /\ pc' = pc
      /\ call \in [Calls -> {"new", "picked", "stored", "waiting", "returned"}]
      /\ subID \in [Calls -> Ids] /\ target \in [Calls -> Conns \cup {NoConn}]
      /\ chan \in [Calls -> Result \cup {NoResult}]
      /\ answer \in [Calls -> Result \cup {NoResult}]
  BY CallBridge
<1>1. CASE SubmitPick(k)
  <2>1. PICK c \in Available : target' = [target EXCEPT ![k] = c]
    BY <1>1 DEF SubmitPick
  <2>2. /\ call[k] = "new" /\ call' = [call EXCEPT ![k] = "picked"]
        /\ subID' = subID /\ chan' = chan /\ answer' = answer /\ subID[k] = 0
    BY <1>1 DEF SubmitPick, Inv, Numbered
  <2>3. c \in Conns /\ pc[c] \in Late
    BY BridgeAssumption DEF Available, Inv, Handshaking
  <2>4. IdsKept
    BY <1>0, <2>1, <2>2 DEF IdsKept, Sent
  <2>5. Numbered'
    BY <1>0, <2>1, <2>2, <2>3 DEF Inv, Numbered
  <2>6. QED
    BY <2>2, <2>4, <2>5 DEF Inv, TrueAnswers
<1>2. CASE SubmitStore(k)
  <2>1. /\ call[k] = "picked" /\ call' = [call EXCEPT ![k] = "stored"]
        /\ subID' = [subID EXCEPT ![k] = nextID]
        /\ target' = target /\ chan' = chan /\ answer' = answer
    BY <1>2 DEF SubmitStore
  <2>2. nextID \in Nat /\ nextID # 0 /\ \A m \in Calls : subID[m] \in Nat /\ subID[m] < nextID
    <3>1. nextID \in 1 .. MaxId + 1
      BY DEF Inv, BridgeInv, TypeOK
    <3>2. MaxId \in Nat /\ \A m \in Calls : subID[m] \in 0 .. MaxId
      BY <1>0, BridgeAssumption DEF Ids
    <3>3. \A m \in Calls : subID[m] < nextID
      BY DEF Inv, BridgeInv, CallInv, IdsBelowNext
    <3>4. QED
      BY <3>1, <3>2, <3>3
  <2>3. subID[k] = 0 /\ target[k] \in Conns /\ pc[target[k]] \in Late
    BY <2>1 DEF Inv, Numbered
  <2>4. IdsKept
    BY <1>0, <2>1, <2>3 DEF IdsKept, Sent
  <2>5. \A m, w \in Calls : subID'[m] = subID'[w] /\ subID'[m] # 0 => m = w
    <3>1. \A m \in Calls : m # k => subID'[m] = subID[m] /\ subID[m] # nextID
      BY <1>0, <2>1, <2>2
    <3>2. subID'[k] = nextID
      BY <1>0, <2>1
    <3>3. QED
      BY <3>1, <3>2 DEF Inv, Numbered
  <2>6. Numbered'
    BY <1>0, <2>1, <2>2, <2>3, <2>5 DEF Inv, Numbered
  <2>7. QED
    BY <2>1, <2>4, <2>6 DEF Inv, TrueAnswers
<1>3. ASSUME subID' = subID, target' = target,
             \/ call' = call
             \/ call[k] = "new" /\ call' = [call EXCEPT ![k] = "returned"]
             \/ call[k] = "stored" /\ call' = [call EXCEPT ![k] = "waiting"]
             \/ call[k] \in {"stored", "waiting"} /\ call' = [call EXCEPT ![k] = "returned"]
      PROVE  IdsKept /\ Numbered'
  <2>1. IdsKept
    BY <1>0, <1>3 DEF IdsKept, Sent
  <2>2. Numbered'
    BY <1>0, <1>3 DEF Inv, Numbered
  <2>3. QED
    BY <2>1, <2>2
<1>4. CASE SubmitNoJudge(k) \/ SubmitSend(k) \/ Expire(k)
  <2>1. subID' = subID /\ target' = target /\ chan' = chan /\ answer' = answer
    BY <1>4 DEF SubmitNoJudge, SubmitSend, Expire
  <2>2. \/ call' = call
        \/ call[k] = "new" /\ call' = [call EXCEPT ![k] = "returned"]
        \/ call[k] = "stored" /\ call' = [call EXCEPT ![k] = "waiting"]
    BY <1>4 DEF SubmitNoJudge, SubmitSend, Expire
  <2>3. QED
    BY <1>3, <2>1, <2>2 DEF Inv, TrueAnswers
<1>5. CASE SubmitReceive(k) \/ SubmitTimeout(k) \/ SubmitSendError(k)
  <2>1. \/ Return(k, "result", chan[k])
        \/ Return(k, "timeout", NoResult)
        \/ Return(k, "sendError", NoResult)
    BY <1>5 DEF SubmitReceive, SubmitTimeout, SubmitSendError
  <2>2. call[k] \in {"stored", "waiting"}
    BY <1>5 DEF SubmitReceive, SubmitTimeout, SubmitSendError
  <2>3. /\ call' = [call EXCEPT ![k] = "returned"] /\ subID' = subID /\ target' = target
        /\ chan' = [chan EXCEPT ![k] = NoResult]
        /\ \/ answer' = [answer EXCEPT ![k] = chan[k]]
           \/ answer' = [answer EXCEPT ![k] = NoResult]
    BY <2>1 DEF Return
  <2>4. TrueAnswers'
    BY <1>0, <2>3 DEF Inv, TrueAnswers
  <2>5. QED
    BY <1>3, <2>2, <2>3, <2>4
<1>6. QED
  BY <1>1, <1>2, <1>4, <1>5 DEF CallAlone

LEMMA CallAloneInv ==
    ASSUME Inv, NEW k \in Calls, CallAlone(k), UNCHANGED judgeVars
    PROVE  Inv'
<1>1. JudgeSame /\ toBridge' = toBridge /\ toJudge' = toJudge
  BY Same
<1>2. /\ BridgeInv' /\ pc' = pc /\ closed' = closed /\ judges' = judges /\ CasesSame
      /\ IdsKept /\ Numbered' /\ TrueAnswers'
  BY CallBridge, CallMoves
<1>3. toJudge' \in [Conns -> Seq(Messages)]
  BY <1>1 DEF Inv, JudgeTypes
<1>4. RequestsKept => Requests'
  BY <1>1, RequestsFrame, ArenaAssumption DEF Inv, JudgeSame
<1>5. QED
  BY <1>1, <1>2, <1>3, <1>4, CallFrame

LEMMA SubmitSendInv ==
    ASSUME Inv, NEW k \in Calls, SubmitSend(k),
           Post(target[k], [kind |-> "submission-request", id |-> subID[k], call |-> k]),
           UNCHANGED <<judgeProcess, toBridge>>
    PROVE  Inv'
<1>1. JudgeSame /\ toBridge' = toBridge
  BY Same
<1>2. /\ BridgeInv' /\ pc' = pc /\ closed' = closed /\ judges' = judges /\ CasesSame
      /\ call \in [Calls -> {"new", "picked", "stored", "waiting", "returned"}]
      /\ subID \in [Calls -> Ids] /\ IdsKept /\ Numbered' /\ TrueAnswers'
  BY CallBridge, CallMoves
<1>3. /\ call[k] = "stored" /\ call' = [call EXCEPT ![k] = "waiting"]
      /\ subID' = subID /\ target' = target
  BY DEF SubmitSend
<1>4. subID[k] # 0 /\ subID[k] \in Ids /\ target[k] \in Conns /\ pc[target[k]] \in Late
  BY <1>2, <1>3 DEF Inv, Numbered
<1>5a. PICK c \in Conns : c = target[k]
  BY <1>4
<1>5. PICK m : /\ c = target[k]
               /\ m = [kind |-> "submission-request", id |-> subID[k], call |-> k]
  BY <1>5a
<1>6. m \in Messages /\ m.call = k /\ m.id = subID[k]
  BY <1>4, <1>5 DEF Messages
<1>7. toJudge' = IF link[c] = "open" THEN [toJudge EXCEPT ![c] = Append(@, m)] ELSE toJudge
  BY <1>5 DEF Post
<1>8. toJudge \in [Conns -> Seq(Messages)] /\ Append(toJudge[c], m) \in Seq(Messages)
  BY <1>6, Appended DEF Inv, JudgeTypes
<1>9. /\ toJudge' \in [Conns -> Seq(Messages)]
      /\ \A d \in Conns : toJudge'[d] # <<>> =>
           toJudge[d] # <<>> \/ (link[d] = "open" /\ pc[d] \in Late)
  <2>1. toJudge' \in [Conns -> Seq(Messages)]
    BY <1>7, <1>8
  <2>2. pc[c] \in Late
    BY <1>4, <1>5
  <2>3. QED
    BY <1>7, <1>8, <2>1, <2>2
\* Nothing was sent under the call's number before.
<1>10. ~Sent(k) /\ \A d \in Conns : ~SentTo(d, subID[k])
  <2>1. ~Sent(k)
    BY <1>3 DEF Sent
  <2>2. \A w \in Calls : subID[w] = subID[k] => w = k
    BY <1>4 DEF Inv, Numbered
  <2>3. QED
    BY <2>1, <2>2 DEF SentTo
<1>11. Unheard(c, k)
  <2>1. pc[c] \notin Early
    BY <1>4, <1>5 DEF Early, Late
  <2>2. ~UnderWay(c, subID[k])
    BY <1>4, <1>10, <2>1 DEF Inv, Owned
  <2>3. todo[c].id # subID[k] /\ caseResults[subID[k]] = NoBox
    BY <1>4, <1>10 DEF Inv, Owned
  <2>4. PICK n \in Nat : n = Len(toBridge[c])
    BY LenProperties DEF Inv, JudgeTypes
  <2>5. n + 1 - 1 = n
    OBVIOUS
  <2>6. QED
    BY <2>2, <2>3, <2>4, <2>5 DEF UnderWay, Unheard, Untold
<1>12. IsRequest(c, m)'
  <2>1. Unheard(c, k)'
    BY <1>1, <1>2, <1>3, <1>11 DEF Unheard, Untold, CasesSame
  <2>2. grading # NoWork => grading.call # k
    BY <1>10 DEF Inv, Grading
  <2>3. Sent(k)'
    BY <1>2, <1>3 DEF Sent
  <2>4. QED
    BY <1>1, <1>3, <1>4, <1>5, <1>6, <2>1, <2>2, <2>3 DEF IsRequest, JudgeSame
<1>13. /\ inbox # NoWork /\ conn = c => inbox.call # k
       /\ \A l \in 1 .. Len(toJudge[c]), w \in Messages : Asked(c, l, w) => w.call # k
  <2>1. inbox # NoWork => inbox \in Messages
    BY DEF Inv, JudgeTypes
  <2>2. QED
    BY <1>10, <2>1 DEF Inv, Requests, IsRequest
<1>14. RequestsKept => Requests'
  <2>1. CASE link[c] = "open"
    BY <1>1, <1>6, <1>7, <1>12, <1>13, <2>1, RequestsPosted DEF Inv, JudgeSame
  <2>2. CASE link[c] # "open"
    BY <1>1, <1>7, <2>2, RequestsFrame, ArenaAssumption DEF Inv, JudgeSame
  <2>3. QED
    BY <2>1, <2>2
<1>15. QED
  BY <1>1, <1>2, <1>9, <1>14, CallFrame

-------------------------------------------------------------------------------
(* Packets, and the slices they end up in *)

\* The handler of c works: its next packet, a case of it, or the end.  It has x
\* to do then.
Works(c, x, p) ==
    /\ pc[c] \in {"serving", "appending", "finalizing"}
    /\ p \in {"serving", "appending", "finalizing"}
    /\ pc' = [pc EXCEPT ![c] = p]
    /\ todo' = [todo EXCEPT ![c] = x]
    /\ x.id \in {0, todo[c].id} \/ (toBridge[c] # <<>> /\ x.id = Head(toBridge[c]).id)
    /\ p \in Busy <=> x.id # 0
    /\ \/ toBridge' = toBridge
       \/ toBridge[c] # <<>> /\ toBridge' = [toBridge EXCEPT ![c] = Tail(@)]
    /\ \A i \in Ids : caseResults'[i] # NoBox =>
          caseResults[i] # NoBox \/ (i = todo[c].id /\ i # 0)
    /\ closed' = closed /\ judges' = judges /\ CallsSame /\ JudgeSame /\ toJudge' = toJudge

\* Its submission, and the one the next packet is about, were sent over c, and
\* over no other connection.
LEMMA OwnWork ==
    ASSUME Inv, NEW c \in Conns
    PROVE  /\ todo[c].id # 0 => SentTo(c, todo[c].id)
           /\ pc[c] \notin Early /\ toBridge[c] # <<>> =>
                 /\ Head(toBridge[c]) = toBridge[c][1] /\ Head(toBridge[c]) \in Packets
                 /\ Head(toBridge[c]).id # 0 /\ SentTo(c, Head(toBridge[c]).id)
           /\ \A i \in Ids, k \in Calls : i # 0 /\ SentTo(c, i) /\ subID[k] = i => target[k] = c
<1>1. todo[c].id # 0 => SentTo(c, todo[c].id)
  <2>1. todo[c].id \in Ids
    BY DEF Inv, BridgeInv, TypeOK
  <2>2. QED
    BY <2>1 DEF Inv, Owned
<1>2. ASSUME pc[c] \notin Early, toBridge[c] # <<>>
      PROVE  /\ Head(toBridge[c]) = toBridge[c][1] /\ Head(toBridge[c]) \in Packets
             /\ Head(toBridge[c]).id # 0 /\ SentTo(c, Head(toBridge[c]).id)
  <2>1. toBridge[c] \in Seq(Packets)
    BY DEF Inv, JudgeTypes
  <2>2. /\ Head(toBridge[c]) = toBridge[c][1] /\ toBridge[c][1] \in Packets
        /\ Len(toBridge[c]) \in Nat \ {0}
    BY <1>2, <2>1, Shortened
  <2>3. UnderWay(c, Head(toBridge[c]).id) /\ Head(toBridge[c]).id \in Ids
    BY <2>2 DEF UnderWay, Packets
  <2>4. QED
    BY <1>2, <2>2, <2>3 DEF Inv, Owned
<1>3. \A i \in Ids, k \in Calls : i # 0 /\ SentTo(c, i) /\ subID[k] = i => target[k] = c
  BY DEF Inv, Numbered, SentTo
<1>4. QED
  BY <1>1, <1>2, <1>3

\* What a handler takes from its connection.
LEMMA Taken ==
    ASSUME Inv, NEW c \in Conns, NEW x, NEW p, Works(c, x, p)
    PROVE  /\ toBridge' \in [Conns -> Seq(Packets)]
           /\ \A d \in Conns : d # c => toBridge'[d] = toBridge[d]
           /\ \A d \in Conns : \A l \in 1 .. Len(toBridge'[d]) :
                 \E j \in 1 .. Len(toBridge[d]) : toBridge'[d][l] = toBridge[d][j]
<1>1. toBridge \in [Conns -> Seq(Packets)]
  BY DEF Inv, JudgeTypes
<1>2. CASE toBridge' = toBridge
  BY <1>1, <1>2
<1>3. CASE toBridge[c] # <<>> /\ toBridge' = [toBridge EXCEPT ![c] = Tail(@)]
  <2>1. /\ Tail(toBridge[c]) \in Seq(Packets) /\ Len(toBridge[c]) \in Nat
        /\ Len(Tail(toBridge[c])) = Len(toBridge[c]) - 1
        /\ \A i \in 1 .. Len(Tail(toBridge[c])) : Tail(toBridge[c])[i] = toBridge[c][i + 1]
    BY <1>1, <1>3, Shortened
  <2>2. /\ toBridge' \in [Conns -> Seq(Packets)] /\ toBridge'[c] = Tail(toBridge[c])
        /\ \A d \in Conns : d # c => toBridge'[d] = toBridge[d]
    BY <1>1, <1>3, <2>1
  <2>3. ASSUME NEW l \in 1 .. Len(toBridge'[c])
        PROVE  \E j \in 1 .. Len(toBridge[c]) : toBridge'[c][l] = toBridge[c][j]
    <3>1. l + 1 \in 1 .. Len(toBridge[c]) /\ toBridge'[c][l] = toBridge[c][l + 1]
      BY <2>1, <2>2
    <3>2. QED
      BY <3>1
  <2>4. QED
    BY <2>2, <2>3
<1>4. QED
  BY <1>2, <1>3 DEF Works

LEMMA WorkFrame ==
    ASSUME Inv, BridgeInv', NEW c \in Conns, NEW x, NEW p, Works(c, x, p),
           Stories', SlicesApart', TrueAnswers'
    PROVE  Inv'
<1>0. /\ pc[c] \in {"serving", "appending", "finalizing"}
      /\ p \in {"serving", "appending", "finalizing"}
      /\ pc' = [pc EXCEPT ![c] = p] /\ todo' = [todo EXCEPT ![c] = x]
      /\ closed' = closed /\ judges' = judges /\ CallsSame /\ JudgeSame /\ toJudge' = toJudge
  BY DEF Works
<1>1. /\ toBridge' \in [Conns -> Seq(Packets)]
      /\ \A d \in Conns : d # c => toBridge'[d] = toBridge[d]
      /\ \A d \in Conns : \A l \in 1 .. Len(toBridge'[d]) :
            \E j \in 1 .. Len(toBridge[d]) : toBridge'[d][l] = toBridge[d][j]
  BY Taken
<1>2. /\ pc \in [Conns -> HandlerStates] /\ pc'[c] = p
      /\ \A d \in Conns : d # c => pc'[d] = pc[d] /\ todo'[d] = todo[d]
      /\ todo'[c] = x
  BY <1>0 DEF Inv, BridgeInv, TypeOK
<1>3. JudgeTypes' /\ NoFaults' /\ Grading' /\ IdsKept
  <2>1. JudgeTypes'
    BY <1>0, <1>1 DEF Inv, JudgeTypes, JudgeSame
  <2>2. QED
    BY <1>0, <2>1, JudgeStands, CallsKeepIds DEF Inv
<1>4. OneConnection'
  BY <1>0, <1>1, <1>2 DEF Inv, OneConnection, JudgeSame
<1>5. Handshaking'
  <2>1. pc[c] \notin Early \cup {"greeting", "leaving", "gone"}
        /\ p \notin Early \cup {"greeting", "leaving", "gone"} /\ p \in Late
    BY <1>0 DEF Early, Late
  <2>2. \A d \in Conns : (pc'[d] = pc[d] /\ toBridge'[d] = toBridge[d]) \/ d = c
    BY <1>1, <1>2
  <2>3. /\ net' = net /\ conn' = conn /\ link' = link /\ grading' = grading /\ inbox' = inbox
        /\ judges' = judges /\ toJudge' = toJudge /\ pc'[c] = p
    BY <1>0, <1>2 DEF JudgeSame
  <2>4. net # "down" => conn \in Conns
    BY DEF Inv, OneConnection
  <2>5. \A n \in JudgeIds : judges[n] # NoConn => judges[n] \in Conns
    BY DEF Inv, BridgeInv, TypeOK
  <2>6. net = "hello" => pc'[conn] \in Early /\ toBridge'[conn] = <<>>
    BY <2>1, <2>2, <2>4 DEF Inv, Handshaking
  <2>7. net \in {"reading", "begin"} => pc'[conn] \notin Early \cup {"greeting"}
    BY <2>1, <2>2, <2>3, <2>4 DEF Inv, Handshaking
  <2>8. \A n \in JudgeIds : judges[n] # NoConn => pc'[judges[n]] \in Late
    BY <2>1, <2>2, <2>3, <2>5 DEF Inv, Handshaking
  <2>9. \A d \in Conns :
          /\ pc'[d] \in Early => toBridge'[d] \in {<<>>, <<HandshakePacket>>}
          /\ pc'[d] \in {"leaving", "gone"} => link[d] = "closed" /\ toBridge'[d] = <<>>
          /\ toJudge[d] # <<>> => pc'[d] \notin Early \cup {"greeting"} /\ link[d] = "open"
    BY <2>1, <2>2, <2>3 DEF Inv, Handshaking
  <2>10. /\ net \notin {"reading", "begin"} => grading = NoWork
         /\ inbox # NoWork <=> net = "begin"
    BY DEF Inv, Handshaking
  <2>11. QED
    BY <2>3, <2>6, <2>7, <2>8, <2>9, <2>10 DEF Handshaking
<1>6. Numbered'
  <2>1. \A d \in Conns : pc[d] \in Late => pc'[d] \in Late
    BY <1>0, <1>2 DEF Late
  <2>2. QED
    BY <1>0, <2>1, NumberedFrame DEF Inv
<1>7. x.id # 0 => SentTo(c, x.id)
  BY <1>0, OwnWork DEF Works, Early
<1>8. Owned'
  <2>1. ASSUME NEW d \in Conns, pc'[d] \notin Early, NEW i \in Ids, UnderWay(d, i)'
        PROVE  i # 0 /\ SentTo(d, i)'
    <3>1. UnderWay(d, i)
      BY <1>1, <2>1 DEF UnderWay
    <3>2. pc[d] \notin Early
      BY <1>0, <1>2, <2>1 DEF Early
    <3>3. i # 0 /\ SentTo(d, i)
      BY <3>1, <3>2 DEF Inv, Owned
    <3>4. QED
      BY <1>3, <3>3, SentToKept
  <2>2. ASSUME NEW d \in Conns, NEW i \in Ids, todo'[d].id = i, i # 0 PROVE SentTo(d, i)'
    <3>1. SentTo(d, i)
      BY <1>2, <1>7, <2>2 DEF Inv, Owned
    <3>2. QED
      BY <1>3, <2>2, <3>1, SentToKept
  <2>3. ASSUME NEW d \in Conns PROVE pc'[d] \in Busy <=> todo'[d].id # 0
    BY <1>2 DEF Works, Inv, Owned
  <2>4. ASSUME NEW i \in Ids, caseResults'[i] # NoBox PROVE i # 0 /\ \E d \in Conns : SentTo(d, i)'
    <3>1. i # 0 /\ \E d \in Conns : SentTo(d, i)
      BY <2>4, OwnWork DEF Works, Inv, Owned
    <3>2. QED
      BY <1>3, <3>1, SentToKept
  <2>5. QED
    BY <2>1, <2>2, <2>3, <2>4 DEF Owned
<1>9. RequestsKept
  <2> SUFFICES ASSUME NEW d \in Conns, NEW m \in Messages, IsRequest(d, m) PROVE IsRequest(d, m)'
    BY DEF RequestsKept
  <2>1. /\ m.call \in Calls /\ subID[m.call] # 0 /\ m.id = subID[m.call] /\ subID[m.call] \in Ids
        /\ target[m.call] = d /\ Sent(m.call) /\ Unheard(d, m.call)
        /\ grading # NoWork => grading.call # m.call
    BY DEF IsRequest, Inv, BridgeInv, TypeOK
  <2>2. /\ \A j \in 1 .. Len(toBridge[d]) : toBridge[d][j].id # subID[m.call]
        /\ todo[d].id # subID[m.call] /\ caseResults[subID[m.call]] = NoBox
    <3>1. PICK n \in Nat : n = Len(toBridge[d])
      BY LenProperties DEF Inv, JudgeTypes
    <3>2. n + 1 - 1 = n
      OBVIOUS
    <3>3. QED
      BY <2>1, <3>1, <3>2 DEF Unheard, Untold
  <2>3. \A l \in 1 .. Len(toBridge'[d]) : toBridge'[d][l].id # subID[m.call]
    BY <1>1, <2>2
  <2>4. todo'[d].id # subID[m.call]
    <3>1. CASE d # c
      BY <1>2, <2>2, <3>1
    <3>2. CASE d = c
      <4>1. toBridge[c] # <<>> => Head(toBridge[c]).id # subID[m.call]
        <5>1. toBridge[c] # <<>> => Head(toBridge[c]) = toBridge[c][1]
                                    /\ 1 \in 1 .. Len(toBridge[c])
          <6>1. toBridge[c] \in Seq(Packets)
            BY DEF Inv, JudgeTypes
          <6>2. QED
            BY <6>1, Shortened
        <5>2. QED
          BY <2>2, <3>2, <5>1
      <4>2. x.id # subID[m.call]
        BY <2>1, <2>2, <3>2, <4>1 DEF Works
      <4>3. QED
        BY <1>2, <3>2, <4>2
    <3>3. QED
      BY <3>1, <3>2
  <2>5. caseResults'[subID[m.call]] = NoBox
    <3>1. todo[c].id # subID[m.call]
      BY <2>1, <2>2, OwnWork
    <3>2. QED
      BY <2>1, <2>2, <3>1 DEF Works
  <2>6. Unheard(d, m.call)'
    <3>1. PICK n \in Nat : n = Len(toBridge'[d])
      BY <1>1, LenProperties
    <3>2. n + 1 - 1 = n
      OBVIOUS
    <3>3. subID' = subID
      BY <1>0 DEF CallsSame
    <3>4. QED
      BY <2>3, <2>4, <2>5, <3>1, <3>2, <3>3 DEF Unheard, Untold
  <2>7. QED
    BY <1>0, <2>1, <2>6 DEF IsRequest, CallsSame, JudgeSame, Sent
<1>10. Requests'
  BY <1>0, <1>9, RequestsFrame, ArenaAssumption DEF Inv, JudgeSame
<1>11. QED
  BY <1>3, <1>4, <1>5, <1>6, <1>8, <1>10 DEF Inv

\* Nothing else of the slices changes but what is of the submissions of c.
Elsewhere(c) ==
    /\ \A d \in Conns : d # c =>
         /\ box'[d] = box[d] /\ seen'[d] = seen[d]
         /\ box[d] # NoBox => heap'[box[d]] = heap[box[d]]
    /\ \A k \in Calls : subID[k] # 0 /\ target[k] # c =>
         /\ caseResults'[subID[k]] = caseResults[subID[k]]
         /\ caseResults[subID[k]] # NoBox =>
               heap'[caseResults[subID[k]]] = heap[caseResults[subID[k]]]

LEMMA WorkStories ==
    ASSUME Inv, NEW c \in Conns, NEW x, NEW p, Works(c, x, p), Elsewhere(c), Story(c)'
    PROVE  Stories'
<1> SUFFICES ASSUME NEW d \in Conns, d # c,
                    pc'[d] \in {"greeting", "registering", "serving", "appending", "finalizing"}
             PROVE  Story(d)'
  BY DEF Stories
<1>0. CallsSame /\ JudgeSame
  BY DEF Works
<1>1. pc'[d] = pc[d] /\ todo'[d] = todo[d] /\ toBridge'[d] = toBridge[d] /\ Story(d) /\ IdsKept
  <2>1. pc'[d] = pc[d] /\ todo'[d] = todo[d]
    BY DEF Works, Inv, BridgeInv, TypeOK
  <2>2. QED
    BY <1>0, <2>1, Taken, CallsKeepIds DEF Inv, Stories
<1>2. \A j \in Nat : StillUntold(d, j, j)
  BY <1>0, <1>1 DEF StillUntold, Untold, CallsSame, Elsewhere
<1>3. ASSUME NEW s, IsState(d, s), HandlerAt(d, s) PROVE HandlerAt(d, s)'
  <2>1. s.of # NoCall => s.of \in Calls /\ subID[s.of] # 0 /\ target[s.of] # c /\ subID' = subID
    BY <1>0, <1>3 DEF IsState, States, CallsSame
  <2>2. \A n : s.of # NoCall /\ Holds(s.of, n) => Holds(s.of, n)'
    BY <2>1 DEF Holds, Elsewhere
  <2>3. /\ box'[d] = box[d] /\ seen'[d] = seen[d] /\ subID' = subID
        /\ box[d] # NoBox => heap'[box[d]] = heap[box[d]]
    BY <1>0 DEF Elsewhere, CallsSame
  <2>4. pc'[d] = "appending" =>
           /\ s.of # NoCall /\ todo'[d].id = subID'[s.of]
           /\ \E m \in 0 .. s.n :
                /\ todo'[d].cases = Part(s.of, m, s.n)
                /\ IF box'[d] = NoBox THEN Holds(s.of, m)' ELSE seen'[d] = Part(s.of, 0, m)
    BY <1>1, <1>3, <2>2, <2>3 DEF HandlerAt
  <2>5. pc'[d] = "finalizing" =>
           /\ s.of = NoCall
           /\ \E k \in Calls :
                /\ todo'[d].id = subID'[k] /\ Plan[k].end = "grading-end"
                /\ seen'[d] = Plan[k].cases
                /\ IF box'[d] = NoBox THEN Plan[k].cases = <<>> ELSE heap'[box'[d]] = Plan[k].cases
    BY <1>1, <1>3, <2>3 DEF HandlerAt
  <2>6. pc'[d] \notin Busy /\ s.of # NoCall => Holds(s.of, s.n)'
    BY <1>1, <1>3, <2>2 DEF HandlerAt
  <2>7. QED
    BY <2>4, <2>5, <2>6 DEF HandlerAt
<1>4. conn' = d => conn = d /\ \A s : IsState(d, s) /\ JudgeAt(s) => JudgeAt(s)'
  <2> SUFFICES ASSUME conn = d, NEW s, JudgeAt(s) PROVE JudgeAt(s)'
    BY <1>0 DEF JudgeSame
  <2>1. CASE grading = NoWork \/ grading.end = "sent"
    BY <1>0, <2>1 DEF JudgeAt, JudgeSame
  <2>2. CASE ~(grading = NoWork \/ grading.end = "sent")
    <3>1. grading.call \in Calls /\ subID[grading.call] # 0 /\ target[grading.call] = d
      BY <2>2 DEF Inv, JudgeTypes, Gradings, Grading
    <3>2. Unheard(d, grading.call) => Unheard(d, grading.call)'
      BY <1>0, <1>1, <3>1 DEF Unheard, Untold, Elsewhere, CallsSame, JudgeSame
    <3>3. Unheard(conn, grading.call) => Unheard(conn, grading.call)'
      BY <1>0, <3>2 DEF JudgeSame, Unheard, Untold
    <3>4. QED
      BY <1>0, <2>2, <3>3 DEF JudgeAt, JudgeSame
  <2>3. QED
    BY <2>1, <2>2
<1>5. QED
  BY <1>1, <1>2, <1>3, <1>4, StoryMoves DEF Inv

\* The judge is where it was in its story.
LEMMA JudgeStays ==
    ASSUME Inv, NEW c \in Conns, CallsSame, JudgeSame, conn = c,
           \A k \in Calls : subID[k] # 0 /\ target[k] = c /\ Unheard(c, k) => Unheard(c, k)',
           NEW s, JudgeAt(s)
    PROVE  JudgeAt(s)'
<1>1. CASE grading = NoWork \/ grading.end = "sent"
  BY <1>1 DEF JudgeAt, JudgeSame
<1>2. CASE ~(grading = NoWork \/ grading.end = "sent")
  <2>1. PICK k \in Calls : k = grading.call /\ subID[k] # 0 /\ target[k] = c
    BY <1>2 DEF Inv, JudgeTypes, Gradings, Grading
  <2>2. Unheard(c, k) => Unheard(c, k)'
    BY <2>1
  <2>3. Unheard(conn, grading.call) => Unheard(conn, grading.call)'
    BY <2>1, <2>2 DEF JudgeSame, Unheard, Untold
  <2>4. QED
    BY <1>2, <2>3 DEF JudgeAt, JudgeSame
<1>3. QED
  BY <1>1, <1>2

\* The handler works on what it has.
LEMMA WorkStays ==
    ASSUME Inv, NEW c \in Conns, NEW x, NEW p, Works(c, x, p), toBridge' = toBridge,
           x.id \in {0, todo[c].id},
           \A s : IsState(c, s) /\ HandlerAt(c, s) => HandlerAt(c, s)'
    PROVE  Story(c)'
<1>0. CallsSame /\ JudgeSame /\ todo'[c] = x
  BY DEF Works, Inv, BridgeInv, TypeOK
<1>1. Story(c) /\ IdsKept
  BY <1>0, CallsKeepIds DEF Works, Inv, Stories
<1>2. ASSUME NEW k \in Calls, subID[k] # 0, NEW j, Untold(c, k, j) PROVE Untold(c, k, j)'
  <2>1. subID[k] \in Ids /\ subID' = subID
    BY <1>0 DEF Inv, BridgeInv, TypeOK, CallsSame
  <2>2. caseResults'[subID[k]] = NoBox
    BY <1>2, <2>1 DEF Works, Untold
  <2>3. QED
    BY <1>0, <1>2, <2>1, <2>2 DEF Untold
<1>3. \A j \in Nat : StillUntold(c, j, j)
  BY <1>2 DEF StillUntold
<1>4. \A k \in Calls : subID[k] # 0 /\ target[k] = c /\ Unheard(c, k) => Unheard(c, k)'
  BY <1>2 DEF Unheard, Untold
<1>5. conn' = c => conn = c /\ \A s : IsState(c, s) /\ JudgeAt(s) => JudgeAt(s)'
  BY <1>0, <1>4, JudgeStays DEF JudgeSame
<1>6. QED
  BY <1>1, <1>3, <1>5, StoryMoves DEF Inv

\* The handler reads its next packet.
LEMMA WorkPops ==
    ASSUME Inv, NEW c \in Conns, NEW x, NEW p, Works(c, x, p), toBridge[c] # <<>>,
           toBridge' = [toBridge EXCEPT ![c] = Tail(@)],
           \A s, u : IsState(c, s) /\ IsState(c, u) /\ HandlerAt(c, s) /\ Tells(c, 1, s, u)
                       => HandlerAt(c, u)'
    PROVE  Story(c)'
<1>0. CallsSame /\ JudgeSame /\ todo'[c] = x
  BY DEF Works, Inv, BridgeInv, TypeOK
<1>1. Story(c) /\ IdsKept
  BY <1>0, CallsKeepIds DEF Works, Inv, Stories
<1>2. PICK n \in Nat : n = Len(toBridge[c]) /\ 1 <= n
  <2>1. toBridge[c] \in Seq(Packets)
    BY DEF Inv, JudgeTypes
  <2>2. QED
    BY <2>1, Shortened
<1>3. /\ Len(toBridge'[c]) = n - 1 /\ Head(toBridge[c]) = toBridge[c][1]
      /\ \A j \in 1 .. n - 1 : toBridge'[c][j] = toBridge[c][j + 1]
  <2>1. toBridge[c] \in Seq(Packets) /\ toBridge'[c] = Tail(toBridge[c])
    BY DEF Inv, JudgeTypes
  <2>2. PICK w : w = Tail(toBridge[c])
    OBVIOUS
  <2>3. Len(w) = Len(toBridge[c]) - 1 /\ Head(toBridge[c]) = toBridge[c][1]
    BY <2>1, <2>2, Shortened
  <2>4. \A j \in 1 .. Len(w) : w[j] = toBridge[c][j + 1]
    BY <2>1, <2>2, Shortened
  <2>5. QED
    BY <1>2, <2>1, <2>2, <2>3, <2>4
<1>4. ASSUME NEW k \in Calls, subID[k] # 0, NEW j \in 1 .. n, Untold(c, k, j + 1)
      PROVE  Untold(c, k, j)'
  <2>1. subID[k] \in Ids /\ subID' = subID
    BY <1>0 DEF Inv, BridgeInv, TypeOK, CallsSame
  <2>2. \A l \in 1 .. j : toBridge[c][l].id # subID[k]
    <3>1. j + 1 - 1 = j
      OBVIOUS
    <3>2. QED
      BY <1>4, <3>1 DEF Untold
  <2>3. \A l \in 1 .. j - 1 : toBridge'[c][l].id # subID[k]
    <3> SUFFICES ASSUME NEW l \in 1 .. j - 1 PROVE toBridge'[c][l].id # subID[k]
      OBVIOUS
    <3>1. l \in 1 .. n - 1 /\ l + 1 \in 1 .. j
      BY <1>2
    <3>2. QED
      BY <1>3, <2>2, <3>1
  <2>4. caseResults'[subID[k]] = NoBox
    BY <1>4, <2>1 DEF Works, Untold
  <2>5. x.id # subID[k]
    <3>1. 1 \in 1 .. j
      OBVIOUS
    <3>2. Head(toBridge[c]).id # subID[k] /\ todo[c].id # subID[k]
      BY <1>3, <1>4, <2>2, <3>1 DEF Untold
    <3>3. QED
      BY <1>4, <3>2 DEF Works
  <2>6. QED
    BY <1>0, <2>1, <2>3, <2>4, <2>5 DEF Untold
<1>5. \A j \in 1 .. Len(toBridge[c]) : StillUntold(c, j + 1, j)
  BY <1>2, <1>4 DEF StillUntold
<1>6. ASSUME NEW k \in Calls, subID[k] # 0, target[k] = c, Unheard(c, k) PROVE Unheard(c, k)'
  <2>1. n \in 1 .. n /\ n - 1 + 1 = n
    BY <1>2
  <2>2. Untold(c, k, n + 1)
    BY <1>2, <1>6 DEF Unheard
  <2>3. Untold(c, k, n)'
    BY <1>4, <1>6, <2>1, <2>2
  <2>4. Len(toBridge'[c]) + 1 = n
    BY <1>3, <2>1
  <2>5. QED
    BY <2>3, <2>4 DEF Unheard, Untold
<1>7. \A s : IsState(c, s) /\ JudgeAt(s) /\ conn = c => JudgeAt(s)'
  BY <1>0, <1>6, JudgeStays
<1>8. QED
  BY <1>0, <1>1, <1>5, <1>7, StoryPops DEF Inv

\* A submission was sent over one connection.
LEMMA OneOwner ==
    ASSUME Inv, NEW c \in Conns, NEW d \in Conns, NEW i, i # 0, SentTo(c, i), SentTo(d, i)
    PROVE  c = d
BY DEF Inv, Numbered, SentTo

\* The slice of a submission is in no other handler's hands.
LEMMA SliceOwner ==
    ASSUME Inv, NEW c \in Conns, NEW i \in Ids, i # 0, SentTo(c, i), NEW d \in Conns, d # c
    PROVE  todo[d].id # i /\ (box[d] # NoBox => caseResults[i] # box[d])
<1>1. todo[d].id # i
  BY OwnWork, OneOwner
<1>2. ASSUME box[d] # NoBox, caseResults[i] = box[d] PROVE FALSE
  <2>1. CASE pc[d] = "appending"
    <3>1. todo[d].id \in Ids /\ caseResults[todo[d].id] = caseResults[i]
      BY <1>2, <2>1 DEF Inv, SlicesApart, BridgeInv, TypeOK
    <3>2. QED
      BY <1>1, <1>2, <3>1 DEF Inv, SlicesApart
  <2>2. CASE pc[d] = "finalizing"
    BY <1>2, <2>2 DEF Inv, SlicesApart
  <2>3. QED
    BY <1>2, <2>1, <2>2 DEF Inv, SlicesApart, Busy
<1>3. QED
  BY <1>1, <1>2

LEMMA SweptKeeps ==
    ASSUME NEW c \in Conns, NEW h, NEW b \in Boxes,
           (\E i \in Ids : caseResults[i] = b) \/ (\E d \in Conns : d # c /\ box[d] = b)
    PROVE  Swept(c, h)[b] = h[b]
BY DEF Swept

\* A verdict the call deserves, if any call waits for it, is delivered to it.
LEMMA DeliverTrue ==
    ASSUME Inv, NEW k \in Calls, subID[k] # 0, NEW r, IsTrue(k, r), CallsSame,
           Deliver(subID[k], r)
    PROVE  TrueAnswers'
<1>1. /\ subID[k] \in Ids /\ pending \in [Ids -> Calls \cup {NoCall}]
      /\ chan \in [Calls -> Result \cup {NoResult}] /\ answer' = answer
  BY DEF Inv, BridgeInv, TypeOK, CallsSame
<1>2. CASE pending[subID[k]] # NoCall /\ chan[pending[subID[k]]] = NoResult
  <2>1. pending[subID[k]] \in Calls /\ subID[pending[subID[k]]] = subID[k]
    BY <1>1, <1>2 DEF Inv, BridgeInv, CallInv, PendingExact
  <2>2. pending[subID[k]] = k
    BY <2>1 DEF Inv, Numbered
  <2>3. chan' = [chan EXCEPT ![k] = r]
    BY <1>2, <2>2 DEF Deliver
  <2>4. QED
    BY <1>1, <2>3 DEF Inv, TrueAnswers
<1>3. CASE ~(pending[subID[k]] # NoCall /\ chan[pending[subID[k]]] = NoResult)
  BY <1>1, <1>3 DEF Deliver, Inv, TrueAnswers
<1>4. QED
  BY <1>2, <1>3

\* Where a handler is in a story.
LEMMA Somewhere ==
    ASSUME Inv, NEW c \in Conns, pc[c] \in {"serving", "appending", "finalizing"}
    PROVE  \E s, u : /\ IsState(c, s) /\ HandlerAt(c, s)
                     /\ toBridge[c] # <<>> => IsState(c, u) /\ Tells(c, 1, s, u)
<1>1. PICK t \in [1 .. Len(toBridge[c]) + 1 -> States] :
        /\ \A j \in 1 .. Len(toBridge[c]) + 1 : IsState(c, t[j])
        /\ \A j \in 1 .. Len(toBridge[c]) : Tells(c, j, t[j], t[j + 1])
        /\ HandlerAt(c, t[1])
  BY DEF Inv, Stories, Story
<1>2. PICK n \in Nat : n = Len(toBridge[c])
  BY LenProperties DEF Inv, JudgeTypes
<1>3. 1 \in 1 .. n + 1
  OBVIOUS
<1>4. IsState(c, t[1])
  BY <1>1, <1>2, <1>3
<1>5. ASSUME toBridge[c] # <<>> PROVE IsState(c, t[1 + 1]) /\ Tells(c, 1, t[1], t[1 + 1])
  <2>1. toBridge[c] \in Seq(Packets)
    BY DEF Inv, JudgeTypes
  <2>2. 1 <= n
    BY <1>2, <1>5, <2>1, Shortened
  <2>3. 1 \in 1 .. n /\ 1 + 1 \in 1 .. n + 1
    BY <2>2
  <2>4. QED
    BY <1>1, <1>2, <2>3
<1>6. QED
  BY <1>1, <1>4, <1>5

LEMMA AppendLoadInv ==
    ASSUME Inv, NEW c \in Conns, AppendLoad(c), UNCHANGED judgeVars
    PROVE  Inv'
<1>1. PICK i \in Ids : i = todo[c].id
  BY DEF Inv, BridgeInv, TypeOK
<1>2. /\ pc[c] = "appending" /\ box[c] = NoBox /\ todo' = todo /\ heap' = heap
      /\ pc' = pc /\ closed' = closed /\ judges' = judges /\ CallsSame /\ chan' = chan
      /\ JudgeSame /\ toBridge' = toBridge /\ toJudge' = toJudge
  BY Same DEF AppendLoad, connVars
<1>3. /\ pc \in [Conns -> HandlerStates] /\ todo \in [Conns -> [id : Ids, cases : Seq(Cases)]]
      /\ box \in [Conns -> Boxes \cup {NoBox}] /\ seen \in [Conns -> Seq(Cases)]
      /\ caseResults \in [Ids -> Boxes \cup {NoBox}] /\ heap \in [Boxes -> Seq(Cases)]
  BY DEF Inv, BridgeInv, TypeOK
<1>4. PICK b \in Boxes :
        /\ box' = [box EXCEPT ![c] = b] /\ caseResults' = [caseResults EXCEPT ![i] = b]
        /\ \/ caseResults[i] = b /\ seen' = [seen EXCEPT ![c] = heap[b]]
           \/ caseResults[i] = NoBox /\ b \in Free /\ seen' = [seen EXCEPT ![c] = <<>>]
  <2>1. CASE caseResults[i] # NoBox
    <3>1. /\ box' = [box EXCEPT ![c] = caseResults[i]] /\ caseResults' = caseResults
          /\ seen' = [seen EXCEPT ![c] = heap[caseResults[i]]]
      BY <1>1, <2>1 DEF AppendLoad
    <3>2. caseResults[i] \in Boxes /\ [caseResults EXCEPT ![i] = caseResults[i]] = caseResults
      BY <1>3, <2>1
    <3>3. QED
      BY <3>1, <3>2
  <2>2. CASE caseResults[i] = NoBox
    <3>1. /\ Free # {} /\ box' = [box EXCEPT ![c] = Fresh]
          /\ caseResults' = [caseResults EXCEPT ![i] = Fresh]
          /\ seen' = [seen EXCEPT ![c] = <<>>]
      BY <1>1, <2>2 DEF AppendLoad
    <3>2. Fresh \in Free /\ Free \subseteq Boxes
      BY <3>1 DEF Fresh, Free
    <3>3. QED
      BY <2>2, <3>1, <3>2
  <2>3. QED
    BY <2>1, <2>2
<1>5. i # 0 /\ SentTo(c, i) /\ b # NoBox
  BY <1>1, <1>2, OwnWork, BridgeAssumption DEF Inv, Owned, Busy
<1>6. BridgeInv'
  <2>1. Next
    BY DEF Next, HandlerStep
  <2>2. QED
    BY <2>1, AnyBridgeStep DEF Inv
<1>7. Works(c, todo[c], "appending")
  <2>1. [pc EXCEPT ![c] = "appending"] = pc /\ [todo EXCEPT ![c] = todo[c]] = todo
    BY <1>2, <1>3
  <2>2. \A j \in Ids : caseResults'[j] # NoBox => caseResults[j] # NoBox \/ j = i
    BY <1>3, <1>4
  <2>3. QED
    BY <1>1, <1>2, <1>5, <2>1, <2>2 DEF Works, Busy
<1>8. Elsewhere(c)
  <2>1. \A k \in Calls : subID[k] # 0 /\ target[k] # c => subID[k] # i /\ subID[k] \in Ids
    BY <1>5, OwnWork DEF Inv, BridgeInv, TypeOK
  <2>2. QED
    BY <1>2, <1>3, <1>4, <2>1 DEF Elsewhere
<1>9. ASSUME NEW s, IsState(c, s), HandlerAt(c, s) PROVE HandlerAt(c, s)'
  <2>1. PICK m \in 0 .. s.n : todo[c].cases = Part(s.of, m, s.n) /\ Holds(s.of, m)
    BY <1>2, <1>9 DEF HandlerAt
  <2>2. s.of # NoCall /\ i = subID[s.of] /\ s.of \in Calls
    BY <1>1, <1>2, <1>9 DEF HandlerAt, IsState, States
  <2>3. seen'[c] = Part(s.of, 0, m)
    <3>1. CASE caseResults[i] = NoBox
      <4>1. m = 0 /\ seen'[c] = <<>>
        BY <1>3, <1>4, <1>5, <2>1, <2>2, <3>1 DEF Holds
      <4>2. Part(s.of, 0, 0) = <<>>
        <5>1. Plan[s.of].cases \in Seq(Cases)
          BY <2>2, ArenaAssumption
        <5>2. 0 <= Len(Plan[s.of].cases)
          BY <5>1
        <5>3. QED
          BY <2>2, <5>2, Parts
      <4>3. QED
        BY <4>1, <4>2
    <3>2. CASE caseResults[i] # NoBox
      BY <1>3, <1>4, <2>1, <2>2, <3>2 DEF Holds
    <3>3. QED
      BY <3>1, <3>2
  <2>4. box'[c] # NoBox /\ pc'[c] = "appending" /\ subID' = subID
    BY <1>2, <1>3, <1>4, <1>5 DEF CallsSame
  <2>5. QED
    BY <1>1, <1>2, <2>1, <2>2, <2>3, <2>4 DEF HandlerAt, Busy
<1>10. Stories'
  BY <1>2, <1>7, <1>8, <1>9, WorkStays, WorkStories
<1>11. SlicesApart'
  <2>1. \A j \in Ids : caseResults'[j] = IF j = i THEN b ELSE caseResults[j]
    BY <1>3, <1>4
  <2>2. \A d \in Conns : box'[d] = IF d = c THEN b ELSE box[d]
    BY <1>3, <1>4
  <2>3. \A j \in Ids : j # i => caseResults[j] # b
    BY <1>4, <1>5 DEF Free, Inv, SlicesApart
  <2>4. \A d \in Conns : d # c => box[d] # b /\ todo[d].id # i
    BY <1>4, <1>5, SliceOwner DEF Free
  <2>5. \A j, l \in Ids : caseResults'[j] = caseResults'[l] /\ caseResults'[j] # NoBox => j = l
    BY <2>1, <2>3 DEF Inv, SlicesApart
  <2>6. \A d, e \in Conns : box'[d] = box'[e] /\ box'[d] # NoBox => d = e
    BY <2>2, <2>4 DEF Inv, SlicesApart
  <2>7. ASSUME NEW d \in Conns, box'[d] # NoBox
        PROVE  /\ pc'[d] \in Busy
               /\ pc'[d] = "appending" => box'[d] = caseResults'[todo'[d].id]
               /\ pc'[d] = "finalizing" => \A j \in Ids : caseResults'[j] # box'[d]
    <3>1. CASE d = c
      BY <1>1, <1>2, <2>1, <2>2, <3>1 DEF Busy
    <3>2. CASE d # c
      <4>1. box'[d] = box[d] /\ box[d] # b /\ todo[d].id # i /\ todo[d].id \in Ids
        BY <1>3, <2>2, <2>4, <3>2
      <4>2. QED
        BY <1>2, <2>1, <2>7, <4>1 DEF Inv, SlicesApart
    <3>3. QED
      BY <3>1, <3>2
  <2>8. QED
    BY <2>5, <2>6, <2>7 DEF SlicesApart
<1>12. TrueAnswers'
  BY <1>2 DEF Inv, TrueAnswers, CallsSame
<1>13. QED
  BY <1>6, <1>7, <1>10, <1>11, <1>12, WorkFrame

\* A handler that holds no slice shares none.
LEMMA SlicesStand ==
    ASSUME Inv, NEW c \in Conns, NEW x, NEW p, Works(c, x, p), caseResults' = caseResults,
           box' = [box EXCEPT ![c] = NoBox]
    PROVE  SlicesApart'
<1>1. /\ box'[c] = NoBox
      /\ \A d \in Conns : d # c => box'[d] = box[d] /\ pc'[d] = pc[d] /\ todo'[d] = todo[d]
  BY DEF Works, Inv, BridgeInv, TypeOK
<1>2. QED
  BY <1>1 DEF Inv, SlicesApart

LEMMA AppendStoreInv ==
    ASSUME Inv, NEW c \in Conns, AppendStore(c), UNCHANGED judgeVars
    PROVE  Inv'
<1>1. PICK i \in Ids, w \in Seq(Cases) : i = todo[c].id /\ w = todo[c].cases
  BY DEF Inv, BridgeInv, TypeOK
<1>2. PICK x, p : /\ x = [id |-> IF Tail(w) = <<>> THEN 0 ELSE i, cases |-> Tail(w)]
                  /\ p = IF Tail(w) = <<>> THEN "serving" ELSE "appending"
  OBVIOUS
<1>3. /\ pc[c] = "appending" /\ box[c] # NoBox
      /\ heap' = Swept(c, [heap EXCEPT ![box[c]] = Append(seen[c], Head(w))])
      /\ pc' = [pc EXCEPT ![c] = p]
      /\ box' = [box EXCEPT ![c] = NoBox] /\ seen' = [seen EXCEPT ![c] = <<>>]
      /\ closed' = closed /\ judges' = judges /\ CallsSame /\ chan' = chan
      /\ caseResults' = caseResults
      /\ JudgeSame /\ toBridge' = toBridge /\ toJudge' = toJudge
  BY <1>1, <1>2, Same DEF AppendStore
<1>4. /\ pc \in [Conns -> HandlerStates] /\ todo \in [Conns -> [id : Ids, cases : Seq(Cases)]]
      /\ box \in [Conns -> Boxes \cup {NoBox}] /\ seen \in [Conns -> Seq(Cases)]
      /\ caseResults \in [Ids -> Boxes \cup {NoBox}] /\ heap \in [Boxes -> Seq(Cases)]
  BY DEF Inv, BridgeInv, TypeOK
<1>5. todo' = [todo EXCEPT ![c] = x]
  <2>1. todo' = [todo EXCEPT ![c] = [id |-> IF Tail(w) = <<>> THEN 0 ELSE @.id, cases |-> Tail(w)]]
    BY <1>1 DEF AppendStore
  <2>2. QED
    BY <1>1, <1>2, <1>4, <2>1
<1>6. i # 0 /\ SentTo(c, i)
  BY <1>1, <1>3, OwnWork DEF Inv, Owned, Busy
<1>7. PICK b \in Boxes : b = box[c] /\ b = caseResults[i]
  BY <1>1, <1>3, <1>4 DEF Inv, SlicesApart
<1>8. BridgeInv'
  <2>1. Next
    BY DEF Next, HandlerStep
  <2>2. QED
    BY <2>1, AnyBridgeStep DEF Inv
<1>9. Works(c, x, p) /\ x.id \in {0, todo[c].id}
  BY <1>1, <1>2, <1>3, <1>5, <1>6 DEF Works, Busy
<1>10. PICK h : h = [heap EXCEPT ![b] = Append(seen[c], Head(w))]
  OBVIOUS
<1>11. /\ heap' = Swept(c, h) /\ h[b] = Append(seen[c], Head(w))
       /\ \A e \in Boxes : e # b => h[e] = heap[e]
  BY <1>3, <1>4, <1>7, <1>10
<1>12. Elsewhere(c)
  <2>1. ASSUME NEW d \in Conns, d # c, box[d] # NoBox PROVE heap'[box[d]] = heap[box[d]]
    <3>1. box[d] \in Boxes /\ box[d] # b
      BY <1>4, <1>6, <1>7, <2>1, SliceOwner
    <3>2. heap'[box[d]] = h[box[d]]
      BY <1>11, <2>1, <3>1, SweptKeeps
    <3>3. QED
      BY <1>11, <3>1, <3>2
  <2>2. ASSUME NEW k \in Calls, subID[k] # 0, target[k] # c, caseResults[subID[k]] # NoBox
        PROVE  heap'[caseResults[subID[k]]] = heap[caseResults[subID[k]]]
    <3>1. subID[k] \in Ids /\ subID[k] # i
      BY <1>6, <2>2, OwnWork DEF Inv, BridgeInv, TypeOK
    <3>2. caseResults[subID[k]] \in Boxes /\ caseResults[subID[k]] # b
      BY <1>4, <1>7, <2>2, <3>1 DEF Inv, SlicesApart
    <3>3. heap'[caseResults[subID[k]]] = h[caseResults[subID[k]]]
      BY <1>11, <3>1, <3>2, SweptKeeps
    <3>4. QED
      BY <1>11, <3>2, <3>3
  <2>3. QED
    BY <1>3, <1>4, <2>1, <2>2 DEF Elsewhere
<1>13. ASSUME NEW s, IsState(c, s), HandlerAt(c, s) PROVE HandlerAt(c, s)'
  <2>1. PICK m \in 0 .. s.n : w = Part(s.of, m, s.n) /\ seen[c] = Part(s.of, 0, m)
    BY <1>1, <1>3, <1>13 DEF HandlerAt
  <2>2. PICK k \in Calls, n \in Nat, e \in Nat :
          /\ k = s.of /\ n = s.n /\ e = Len(Plan[k].cases) /\ n <= e /\ k # NoCall /\ i = subID[k]
    <3>1. s.of # NoCall /\ s.of \in Calls /\ s.n \in 1 .. Len(Plan[s.of].cases) /\ i = subID[s.of]
      BY <1>1, <1>3, <1>13 DEF HandlerAt, IsState, States
    <3>2. Len(Plan[s.of].cases) \in Nat
      BY <3>1, ArenaAssumption, LenProperties
    <3>3. s.n \in Nat /\ s.n <= Len(Plan[s.of].cases)
      BY <3>1, <3>2
    <3>4. QED
      BY <3>1, <3>2, <3>3
  <2>3. m \in Nat /\ m <= n /\ n <= Len(Plan[k].cases)
    BY <2>1, <2>2
  <2>4. m < n
    <3>1. w # <<>>
      BY <1>1, <1>3 DEF Inv, BridgeInv, Accumulating
    <3>2. m # n
      BY <2>1, <2>2, <2>3, <3>1, Parts
    <3>3. QED
      BY <2>2, <2>3, <3>2
  <2>5. Head(w) = Plan[k].cases[m + 1] /\ Tail(w) = Part(k, m + 1, n)
    <3>1. w = Part(k, m, n)
      BY <2>1, <2>2
    <3>2. /\ Head(Part(k, m, n)) = Plan[k].cases[m + 1]
          /\ Tail(Part(k, m, n)) = Part(k, m + 1, n)
      BY <2>3, <2>4, Parts
    <3>3. QED
      BY <3>1, <3>2
  <2>6. m + 1 \in Nat /\ m + 1 <= n /\ m + 1 \in 0 .. n
    BY <2>2, <2>3, <2>4
  <2>7. Append(seen[c], Head(w)) = Part(k, 0, m + 1)
    <3>1. 0 <= m /\ m <= Len(Plan[k].cases) /\ m < Len(Plan[k].cases)
      BY <2>2, <2>3, <2>4
    <3>2. Append(Part(k, 0, m), Plan[k].cases[m + 1]) = Part(k, 0, m + 1)
      BY <2>3, <3>1, Parts
    <3>3. QED
      BY <2>1, <2>2, <2>5, <3>2
  <2>8. heap'[b] = Part(k, 0, m + 1)
    BY <1>7, <1>11, <2>7, SweptKeeps
  <2>9. Holds(k, m + 1)'
    <3>1. subID'[k] = i /\ caseResults'[i] = b /\ b # NoBox
      BY <1>3, <1>7, <2>2, BridgeAssumption DEF CallsSame
    <3>2. QED
      BY <2>8, <3>1 DEF Holds
  <2>10. /\ pc'[c] = p /\ todo'[c] = x /\ box'[c] = NoBox /\ subID' = subID
    BY <1>3, <1>4, <1>5 DEF CallsSame
  <2>11. CASE Tail(w) = <<>>
    <3>1. m + 1 = n
      <4>1. PICK l \in Nat : l = m + 1
        BY <2>6
      <4>2. l <= n /\ Part(k, l, n) = <<>>
        BY <2>5, <2>6, <2>11, <4>1
      <4>3. l = n
        BY <2>3, <4>2, Parts
      <4>4. QED
        BY <4>1, <4>3
    <3>2. pc'[c] = "serving" /\ Holds(s.of, s.n)'
      BY <1>2, <2>2, <2>9, <2>10, <2>11, <3>1
    <3>3. QED
      BY <3>2 DEF HandlerAt, Busy
  <2>12. CASE Tail(w) # <<>>
    <3>1. /\ pc'[c] = "appending" /\ todo'[c].id = subID'[k]
          /\ todo'[c].cases = Part(k, m + 1, n)
      BY <1>2, <2>2, <2>5, <2>10, <2>12
    <3>2. \E l \in 0 .. s.n :
            /\ todo'[c].cases = Part(s.of, l, s.n)
            /\ IF box'[c] = NoBox THEN Holds(s.of, l)' ELSE seen'[c] = Part(s.of, 0, l)
      BY <2>2, <2>6, <2>9, <2>10, <3>1
    <3>3. QED
      BY <2>2, <3>1, <3>2 DEF HandlerAt, Busy
  <2>13. QED
    BY <2>11, <2>12
<1>14. Stories'
  BY <1>3, <1>9, <1>12, <1>13, WorkStays, WorkStories
<1>15. SlicesApart'
  BY <1>3, <1>9, SlicesStand
<1>16. TrueAnswers'
  BY <1>3 DEF Inv, TrueAnswers, CallsSame
<1>17. QED
  BY <1>8, <1>9, <1>14, <1>15, <1>16, WorkFrame

LEMMA FinalizeSumInv ==
    ASSUME Inv, NEW c \in Conns, FinalizeSum(c), UNCHANGED judgeVars
    PROVE  Inv'
<1>1. PICK summed : summed = IF box[c] = NoBox THEN <<>> ELSE heap[box[c]]
  OBVIOUS
<1>2. PICK x : x = [todo[c] EXCEPT !.id = 0]
  OBVIOUS
<1>3. /\ pc[c] = "finalizing" /\ heap' = Swept(c, heap) /\ pc' = [pc EXCEPT ![c] = "serving"]
      /\ box' = [box EXCEPT ![c] = NoBox] /\ seen' = [seen EXCEPT ![c] = <<>>]
      /\ closed' = closed /\ judges' = judges /\ CallsSame /\ caseResults' = caseResults
      /\ Deliver(todo[c].id, [id |-> todo[c].id, status |-> StatusName(WorstStatus(summed)),
                              cases |-> seen[c]])
      /\ JudgeSame /\ toBridge' = toBridge /\ toJudge' = toJudge
  BY <1>1, Same DEF FinalizeSum
<1>4. /\ pc \in [Conns -> HandlerStates] /\ todo \in [Conns -> [id : Ids, cases : Seq(Cases)]]
      /\ box \in [Conns -> Boxes \cup {NoBox}] /\ seen \in [Conns -> Seq(Cases)]
      /\ caseResults \in [Ids -> Boxes \cup {NoBox}] /\ heap \in [Boxes -> Seq(Cases)]
  BY DEF Inv, BridgeInv, TypeOK
<1>5. todo' = [todo EXCEPT ![c] = x] /\ x.id = 0
  BY <1>2, <1>4 DEF FinalizeSum
<1>6. BridgeInv'
  <2>1. Next
    BY DEF Next, HandlerStep
  <2>2. QED
    BY <2>1, AnyBridgeStep DEF Inv
<1>7. Works(c, x, "serving")
  BY <1>3, <1>5 DEF Works, Busy
<1>8. Elsewhere(c)
  <2>1. ASSUME NEW d \in Conns, d # c, box[d] # NoBox PROVE heap'[box[d]] = heap[box[d]]
    <3>1. box[d] \in Boxes
      BY <1>4, <2>1
    <3>2. Swept(c, heap)[box[d]] = heap[box[d]]
      BY <2>1, <3>1, SweptKeeps
    <3>3. QED
      BY <1>3, <3>2
  <2>2. ASSUME NEW k \in Calls, subID[k] # 0, target[k] # c, caseResults[subID[k]] # NoBox
        PROVE  heap'[caseResults[subID[k]]] = heap[caseResults[subID[k]]]
    <3>1. subID[k] \in Ids
      BY DEF Inv, BridgeInv, TypeOK
    <3>2. QED
      <4>1. caseResults[subID[k]] \in Boxes
        BY <1>4, <2>2, <3>1
      <4>2. Swept(c, heap)[caseResults[subID[k]]] = heap[caseResults[subID[k]]]
        BY <3>1, <4>1, SweptKeeps
      <4>3. QED
        BY <1>3, <4>2
  <2>3. QED
    BY <1>3, <1>4, <2>1, <2>2 DEF Elsewhere
<1>9. ASSUME NEW s, IsState(c, s), HandlerAt(c, s) PROVE HandlerAt(c, s)'
  <2>1. s.of = NoCall /\ pc'[c] = "serving"
    BY <1>3, <1>4, <1>9 DEF HandlerAt
  <2>2. QED
    BY <2>1 DEF HandlerAt, Busy
<1>10. Stories'
  BY <1>3, <1>5, <1>7, <1>8, <1>9, WorkStays, WorkStories
<1>11. SlicesApart'
  BY <1>3, <1>7, SlicesStand
<1>12. TrueAnswers'
  <2>1. PICK s : HandlerAt(c, s)
    BY <1>3, Somewhere
  <2>2. PICK k \in Calls :
          /\ todo[c].id = subID[k] /\ Plan[k].end = "grading-end" /\ seen[c] = Plan[k].cases
          /\ IF box[c] = NoBox THEN Plan[k].cases = <<>> ELSE heap[box[c]] = Plan[k].cases
    BY <1>3, <2>1 DEF HandlerAt
  <2>3. summed = Plan[k].cases
    BY <1>1, <2>2
  <2>4. subID[k] # 0
    BY <1>3, <2>2 DEF Inv, Owned, Busy
  <2>5. PICK r : r = [id |-> subID[k], status |-> StatusName(WorstStatus(Plan[k].cases)),
                      cases |-> Plan[k].cases]
    OBVIOUS
  <2>6. TrueVerdict(k).status = StatusName(WorstStatus(Plan[k].cases))
        /\ TrueVerdict(k).cases = Plan[k].cases
    BY <2>2 DEF TrueVerdict
  <2>7. IsTrue(k, r)
    BY <2>5, <2>6 DEF IsTrue
  <2>8. Deliver(subID[k], r)
    BY <1>3, <2>2, <2>3, <2>5
  <2>9. QED
    BY <1>3, <2>4, <2>7, <2>8, DeliverTrue
<1>13. QED
  BY <1>6, <1>7, <1>10, <1>11, <1>12, WorkFrame

\* What the handler learns from a packet, and what it knew before.
Learns(c, s, u, k) ==
    /\ subID[k] # 0 /\ target[k] = c /\ Head(toBridge[c]).id = subID[k]
    /\ s.n \in Nat /\ Holds(k, s.n)
    /\ \/ /\ Head(toBridge[c]).kind = "test-case-status"
          /\ \E n \in s.n + 1 .. Len(Plan[k].cases) :
               Head(toBridge[c]).cases = Part(k, s.n, n) /\ u = [of |-> k, n |-> n]
       \/ /\ Head(toBridge[c]).kind = Plan[k].end
          /\ s.n = Len(Plan[k].cases)
          /\ u = Silence

LEMMA Packet1 ==
    ASSUME Inv, NEW c \in Conns, pc[c] = "serving", toBridge[c] # <<>>,
           NEW s, NEW u, IsState(c, s), HandlerAt(c, s), Tells(c, 1, s, u)
    PROVE  \E k \in Calls : Learns(c, s, u, k)
<1>1. Head(toBridge[c]) = toBridge[c][1]
  BY OwnWork DEF Early
<1>2. PICK k \in Calls :
        /\ toBridge[c][1].id = subID[k] /\ subID[k] # 0 /\ target[k] = c
        /\ s.of \in {NoCall, k}
        /\ s.of = NoCall => Untold(c, k, 1)
        /\ \/ /\ toBridge[c][1].kind = "test-case-status"
              /\ \E n \in s.n + 1 .. Len(Plan[k].cases) :
                   toBridge[c][1].cases = Part(k, s.n, n) /\ u = [of |-> k, n |-> n]
           \/ /\ toBridge[c][1].kind = Plan[k].end
              /\ s.n = Len(Plan[k].cases)
              /\ u = Silence
  BY DEF Tells
<1>3. s.n \in Nat
  BY DEF IsState, States
<1>4. Holds(k, s.n)
  <2>1. CASE s.of = NoCall
    BY <1>2, <2>1 DEF IsState, Untold, Holds
  <2>2. CASE s.of # NoCall
    BY <1>2, <2>2 DEF HandlerAt, Busy
  <2>3. QED
    BY <2>1, <2>2
<1>5. QED
  BY <1>1, <1>2, <1>3, <1>4 DEF Learns

LEMMA PacketBridge ==
    ASSUME Inv, NEW c \in Conns, toBridge[c] # <<>>, Pop(c), UNCHANGED <<judgeProcess, toJudge>>,
           pc[c] = "serving"
    PROVE  /\ toBridge' = [toBridge EXCEPT ![c] = Tail(@)] /\ JudgeSame /\ toJudge' = toJudge
           /\ Head(toBridge[c]) \in Packets
           /\ Head(toBridge[c]).id \in Ids /\ Head(toBridge[c]).cases \in Seq(Cases)
           /\ Head(toBridge[c]).id # 0 /\ SentTo(c, Head(toBridge[c]).id)
           /\ box \in [Conns -> Boxes \cup {NoBox}] /\ box[c] = NoBox
           /\ pc \in [Conns -> HandlerStates] /\ seen \in [Conns -> Seq(Cases)]
           /\ todo \in [Conns -> [id : Ids, cases : Seq(Cases)]]
           /\ caseResults \in [Ids -> Boxes \cup {NoBox}] /\ heap \in [Boxes -> Seq(Cases)]
           /\ todo[c].id = 0
           /\ Calls \cap {NoCall} = {}
<1>1. /\ Head(toBridge[c]) \in Packets
      /\ Head(toBridge[c]).id # 0 /\ SentTo(c, Head(toBridge[c]).id)
  BY OwnWork DEF Early
<1>2. /\ Head(toBridge[c]).id \in Ids /\ Head(toBridge[c]).cases \in Seq(Cases)
  BY <1>1 DEF Packets
<1>3. toBridge' = [toBridge EXCEPT ![c] = Tail(@)] /\ JudgeSame /\ toJudge' = toJudge
  BY Same DEF Pop
<1>4. /\ box \in [Conns -> Boxes \cup {NoBox}]
      /\ pc \in [Conns -> HandlerStates] /\ seen \in [Conns -> Seq(Cases)]
      /\ todo \in [Conns -> [id : Ids, cases : Seq(Cases)]]
      /\ caseResults \in [Ids -> Boxes \cup {NoBox}] /\ heap \in [Boxes -> Seq(Cases)]
  BY DEF Inv, BridgeInv, TypeOK
<1>5. box[c] = NoBox
  BY DEF Inv, SlicesApart, Busy
<1>6. todo[c].id = 0
  BY DEF Inv, Owned, Busy
<1>7. QED
  BY <1>1, <1>2, <1>3, <1>4, <1>5, <1>6, BridgeAssumption

LEMMA TestCaseStatusInv ==
    ASSUME Inv, NEW c \in Conns, toBridge[c] # <<>>, Pop(c), UNCHANGED <<judgeProcess, toJudge>>,
           Head(toBridge[c]).kind = "test-case-status",
           TestCaseStatus(c, Head(toBridge[c]).id, Head(toBridge[c]).cases)
    PROVE  Inv'
<1>1. PICK i, cs : i = Head(toBridge[c]).id /\ cs = Head(toBridge[c]).cases
  OBVIOUS
<1>2. PICK x : x = [id |-> i, cases |-> cs]
  OBVIOUS
<1>3. /\ pc[c] = "serving" /\ todo' = [todo EXCEPT ![c] = x]
      /\ pc' = [pc EXCEPT ![c] = "appending"]
      /\ closed' = closed /\ judges' = judges /\ box' = box /\ seen' = seen
      /\ caseResults' = caseResults /\ heap' = heap /\ CallsSame /\ chan' = chan
  BY <1>1, <1>2, Same DEF TestCaseStatus, Receives
<1>4. /\ toBridge' = [toBridge EXCEPT ![c] = Tail(@)] /\ JudgeSame /\ toJudge' = toJudge
      /\ i \in Ids /\ cs \in Seq(Cases) /\ i # 0
      /\ box \in [Conns -> Boxes \cup {NoBox}] /\ box[c] = NoBox
      /\ pc \in [Conns -> HandlerStates]
      /\ todo \in [Conns -> [id : Ids, cases : Seq(Cases)]]
  BY <1>1, <1>3, PacketBridge
<1>5. BridgeInv'
  BY <1>1, <1>4, AnyBridgeStep DEF Inv
<1>6. Works(c, x, "appending")
  BY <1>1, <1>2, <1>3, <1>4 DEF Works, Busy
<1>7. Elsewhere(c)
  BY <1>3 DEF Elsewhere
<1>8. ASSUME NEW s, NEW u, IsState(c, s), IsState(c, u), HandlerAt(c, s), Tells(c, 1, s, u)
      PROVE  HandlerAt(c, u)'
  <2>1. PICK k \in Calls : Learns(c, s, u, k)
    BY <1>3, <1>8, Packet1
  <2>2. Plan[k].end # "test-case-status"
    BY ArenaAssumption DEF Ends
  <2>3. PICK n \in s.n + 1 .. Len(Plan[k].cases) : cs = Part(k, s.n, n) /\ u = [of |-> k, n |-> n]
    BY <1>1, <2>1, <2>2 DEF Learns
  <2>4. /\ s.n \in Nat /\ Holds(k, s.n) /\ i = subID[k]
    BY <1>1, <2>1 DEF Learns
  <2>5. /\ u.of = k /\ u.n = n /\ k # NoCall
    BY <2>3, BridgeAssumption
  <2>6. s.n \in 0 .. n
    <3>1. Len(Plan[k].cases) \in Nat
      BY ArenaAssumption, LenProperties
    <3>2. QED
      BY <2>3, <2>4, <3>1
  <2>7. /\ pc'[c] = "appending" /\ todo'[c].id = i /\ todo'[c].cases = cs /\ box'[c] = NoBox
        /\ subID' = subID
    BY <1>2, <1>3, <1>4 DEF CallsSame
  <2>8. Holds(k, s.n)'
    BY <1>3, <2>4, <2>7 DEF Holds
  <2>9. \E m \in 0 .. u.n :
          /\ todo'[c].cases = Part(u.of, m, u.n)
          /\ IF box'[c] = NoBox THEN Holds(u.of, m)' ELSE seen'[c] = Part(u.of, 0, m)
    BY <2>3, <2>5, <2>6, <2>7, <2>8
  <2>10. QED
    BY <2>4, <2>5, <2>7, <2>9 DEF HandlerAt, Busy
<1>9. Stories'
  BY <1>4, <1>6, <1>7, <1>8, WorkPops, WorkStories
<1>10. SlicesApart'
  <2>1. box' = [box EXCEPT ![c] = NoBox]
    BY <1>3, <1>4
  <2>2. QED
    BY <1>3, <1>6, <2>1, SlicesStand
<1>11. TrueAnswers'
  BY <1>3 DEF Inv, TrueAnswers, CallsSame
<1>12. QED
  BY <1>5, <1>6, <1>9, <1>10, <1>11, WorkFrame

LEMMA GradingEndInv ==
    ASSUME Inv, NEW c \in Conns, toBridge[c] # <<>>, Pop(c), UNCHANGED <<judgeProcess, toJudge>>,
           Head(toBridge[c]).kind = "grading-end", GradingEnd(c, Head(toBridge[c]).id)
    PROVE  Inv'
<1>1. PICK i : i = Head(toBridge[c]).id
  OBVIOUS
<1>2. PICK x : x = [todo[c] EXCEPT !.id = i]
  OBVIOUS
<1>3. /\ pc[c] = "serving" /\ pc' = [pc EXCEPT ![c] = "finalizing"]
      /\ box' = [box EXCEPT ![c] = caseResults[i]]
      /\ seen' = [seen EXCEPT ![c] = IF caseResults[i] = NoBox THEN <<>> ELSE heap[caseResults[i]]]
      /\ caseResults' = [caseResults EXCEPT ![i] = NoBox]
      /\ closed' = closed /\ judges' = judges /\ heap' = heap /\ CallsSame /\ chan' = chan
      /\ todo' = [todo EXCEPT ![c].id = i]
  BY <1>1, Same DEF GradingEnd, Receives
<1>4. /\ toBridge' = [toBridge EXCEPT ![c] = Tail(@)] /\ JudgeSame /\ toJudge' = toJudge
      /\ i \in Ids /\ i # 0 /\ SentTo(c, i)
      /\ box \in [Conns -> Boxes \cup {NoBox}]
      /\ pc \in [Conns -> HandlerStates] /\ seen \in [Conns -> Seq(Cases)]
      /\ todo \in [Conns -> [id : Ids, cases : Seq(Cases)]]
      /\ caseResults \in [Ids -> Boxes \cup {NoBox}] /\ heap \in [Boxes -> Seq(Cases)]
  BY <1>1, <1>3, PacketBridge
<1>5. todo' = [todo EXCEPT ![c] = x] /\ x.id = i
  BY <1>2, <1>3, <1>4
<1>6. BridgeInv'
  <2>1. \E j \in Ids : GradingEnd(c, j)
    BY <1>1, <1>4
  <2>2. Next
    BY <2>1 DEF Next, PeerStep
  <2>3. QED
    BY <2>2, AnyBridgeStep DEF Inv
<1>7. Works(c, x, "finalizing")
  <2>1. \A j \in Ids : caseResults'[j] # NoBox => caseResults[j] # NoBox
    BY <1>3, <1>4
  <2>2. QED
    BY <1>1, <1>3, <1>4, <1>5, <2>1 DEF Works, Busy
<1>8. Elsewhere(c)
  <2>1. \A k \in Calls : subID[k] # 0 /\ target[k] # c => subID[k] # i /\ subID[k] \in Ids
    BY <1>4, OwnWork DEF Inv, BridgeInv, TypeOK
  <2>2. QED
    BY <1>3, <1>4, <2>1 DEF Elsewhere
<1>9. ASSUME NEW s, NEW u, IsState(c, s), IsState(c, u), HandlerAt(c, s), Tells(c, 1, s, u)
      PROVE  HandlerAt(c, u)'
  <2>1. PICK k \in Calls : Learns(c, s, u, k)
    BY <1>3, <1>9, Packet1
  <2>2. /\ i = subID[k] /\ Holds(k, s.n) /\ s.n \in Nat
        /\ s.n = Len(Plan[k].cases) /\ u = Silence /\ Plan[k].end = "grading-end"
    BY <1>1, <2>1 DEF Learns
  <2>3. Part(k, 0, s.n) = Plan[k].cases /\ (s.n = 0 => Plan[k].cases = <<>>)
    BY <2>2, WholePart, ArenaAssumption, EmptySeq
  <2>4. /\ pc'[c] = "finalizing" /\ todo'[c].id = i /\ box'[c] = caseResults[i] /\ subID' = subID
        /\ seen'[c] = IF caseResults[i] = NoBox THEN <<>> ELSE heap[caseResults[i]]
    BY <1>3, <1>4, <1>5 DEF CallsSame
  <2>5. CASE caseResults[i] = NoBox
    <3>1. Plan[k].cases = <<>>
      BY <2>2, <2>3, <2>5 DEF Holds
    <3>2. QED
      BY <2>2, <2>4, <2>5, <3>1 DEF HandlerAt, Silence, Busy
  <2>6. CASE caseResults[i] # NoBox
    <3>1. heap[caseResults[i]] = Plan[k].cases
      BY <2>2, <2>3, <2>6 DEF Holds
    <3>2. QED
      BY <1>3, <2>2, <2>4, <2>6, <3>1 DEF HandlerAt, Silence, Busy
  <2>7. QED
    BY <2>5, <2>6
<1>10. Stories'
  BY <1>4, <1>7, <1>8, <1>9, WorkPops, WorkStories
<1>11. SlicesApart'
  <2>1. \A j \in Ids : caseResults'[j] = IF j = i THEN NoBox ELSE caseResults[j]
    BY <1>3, <1>4
  <2>2. \A d \in Conns : box'[d] = IF d = c THEN caseResults[i] ELSE box[d]
    BY <1>3, <1>4
  <2>3. \A d \in Conns : d # c => /\ todo[d].id # i /\ (box[d] # NoBox => caseResults[i] # box[d])
                                  /\ todo'[d] = todo[d] /\ pc'[d] = pc[d]
    BY <1>3, <1>4, <1>5, SliceOwner
  <2>4. \A j, l \in Ids : caseResults'[j] = caseResults'[l] /\ caseResults'[j] # NoBox => j = l
    BY <2>1 DEF Inv, SlicesApart
  <2>5. \A d, e \in Conns : box'[d] = box'[e] /\ box'[d] # NoBox => d = e
    BY <2>2, <2>3 DEF Inv, SlicesApart
  <2>6. ASSUME NEW d \in Conns, box'[d] # NoBox
        PROVE  /\ pc'[d] \in Busy
               /\ pc'[d] = "appending" => box'[d] = caseResults'[todo'[d].id]
               /\ pc'[d] = "finalizing" => \A j \in Ids : caseResults'[j] # box'[d]
    <3>1. CASE d = c
      <4>1. pc'[c] = "finalizing" /\ box'[c] = caseResults[i] /\ caseResults[i] # NoBox
        BY <1>3, <1>4, <2>2, <2>6, <3>1
      <4>2. \A j \in Ids : caseResults'[j] # caseResults[i]
        BY <1>4, <2>1, <4>1 DEF Inv, SlicesApart
      <4>3. QED
        BY <3>1, <4>1, <4>2 DEF Busy
    <3>2. CASE d # c
      <4>1. /\ box'[d] = box[d] /\ todo[d].id # i /\ todo[d].id \in Ids
            /\ todo'[d] = todo[d] /\ pc'[d] = pc[d]
        BY <1>4, <2>2, <2>3, <3>2
      <4>2. QED
        BY <2>1, <2>6, <4>1 DEF Inv, SlicesApart
    <3>3. QED
      BY <3>1, <3>2
  <2>7. QED
    BY <2>4, <2>5, <2>6 DEF SlicesApart
<1>12. TrueAnswers'
  BY <1>3 DEF Inv, TrueAnswers, CallsSame
<1>13. QED
  BY <1>6, <1>7, <1>10, <1>11, <1>12, WorkFrame

LEMMA EndedInv ==
    ASSUME Inv, NEW c \in Conns, toBridge[c] # <<>>, Pop(c), UNCHANGED <<judgeProcess, toJudge>>,
           NEW status \in {"CE", "IE"},
           Head(toBridge[c]).kind = IF status = "CE" THEN "compile-error" ELSE "internal-error",
           Ended(c, Head(toBridge[c]).id, status)
    PROVE  Inv'
<1>1. PICK i : i = Head(toBridge[c]).id
  OBVIOUS
<1>2. /\ pc[c] = "serving" /\ todo' = todo /\ pc' = pc
      /\ closed' = closed /\ judges' = judges /\ box' = box /\ seen' = seen
      /\ caseResults' = caseResults /\ heap' = heap /\ CallsSame
      /\ Deliver(i, [id |-> i, status |-> status, cases |-> <<>>])
  BY <1>1, Same DEF Ended, Receives, connVars, caseVars
<1>3. /\ toBridge' = [toBridge EXCEPT ![c] = Tail(@)] /\ JudgeSame /\ toJudge' = toJudge
      /\ i \in Ids /\ i # 0
      /\ box \in [Conns -> Boxes \cup {NoBox}] /\ box[c] = NoBox
      /\ pc \in [Conns -> HandlerStates]
      /\ todo \in [Conns -> [id : Ids, cases : Seq(Cases)]] /\ todo[c].id = 0
  BY <1>1, <1>2, PacketBridge
<1>4. BridgeInv'
  <2>1. \E j \in Ids, t \in {"CE", "IE", "AB"} : Ended(c, j, t)
    BY <1>1, <1>3
  <2>2. Next
    BY <2>1 DEF Next, PeerStep
  <2>3. QED
    BY <2>2, AnyBridgeStep DEF Inv
<1>5. Works(c, todo[c], "serving")
  <2>1. [pc EXCEPT ![c] = "serving"] = pc /\ [todo EXCEPT ![c] = todo[c]] = todo
    BY <1>2, <1>3
  <2>2. QED
    BY <1>2, <1>3, <2>1 DEF Works, Busy
<1>6. Elsewhere(c)
  BY <1>2 DEF Elsewhere
<1>7. ASSUME NEW s, NEW u, IsState(c, s), IsState(c, u), HandlerAt(c, s), Tells(c, 1, s, u)
      PROVE  \E k \in Calls : /\ u = Silence /\ i = subID[k] /\ subID[k] # 0
                              /\ Plan[k].end = Head(toBridge[c]).kind
  <2>1. PICK k \in Calls : Learns(c, s, u, k)
    BY <1>2, <1>7, Packet1
  <2>2. QED
    BY <1>1, <2>1 DEF Learns
<1>8. ASSUME NEW s, NEW u, IsState(c, s), IsState(c, u), HandlerAt(c, s), Tells(c, 1, s, u)
      PROVE  HandlerAt(c, u)'
  <2>1. u = Silence /\ pc'[c] = "serving"
    BY <1>2, <1>7, <1>8
  <2>2. QED
    BY <2>1 DEF HandlerAt, Silence, Busy
<1>9. Stories'
  BY <1>3, <1>5, <1>6, <1>8, WorkPops, WorkStories
<1>10. SlicesApart'
  <2>1. box' = [box EXCEPT ![c] = NoBox]
    BY <1>2, <1>3
  <2>2. QED
    BY <1>2, <1>5, <2>1, SlicesStand
<1>11. TrueAnswers'
  <2>1. PICK s, u : IsState(c, s) /\ IsState(c, u) /\ HandlerAt(c, s) /\ Tells(c, 1, s, u)
    BY <1>2, Somewhere
  <2>2. PICK k \in Calls : /\ i = subID[k] /\ subID[k] # 0
                           /\ Plan[k].end = Head(toBridge[c]).kind
    BY <1>7, <2>1
  <2>3. TrueVerdict(k).status = status /\ TrueVerdict(k).cases = <<>>
    <3>1. CASE status = "CE"
      BY <2>2, <3>1 DEF TrueVerdict
    <3>2. CASE status = "IE"
      BY <2>2, <3>2 DEF TrueVerdict
    <3>3. QED
      BY <3>1, <3>2
  <2>4. PICK r : r = [id |-> i, status |-> status, cases |-> <<>>]
    OBVIOUS
  <2>5. IsTrue(k, r)
    BY <2>3, <2>4 DEF IsTrue
  <2>6. QED
    BY <1>2, <2>2, <2>4, <2>5, DeliverTrue
<1>12. QED
  BY <1>4, <1>5, <1>9, <1>10, <1>11, WorkFrame

LEMMA BridgePacketInv ==
    ASSUME Inv, NEW c \in Conns, BridgePacket(c)
    PROVE  Inv'
<1>1. /\ toBridge[c] # <<>> /\ Pop(c) /\ UNCHANGED <<judgeProcess, toJudge>>
      /\ \/ /\ Head(toBridge[c]).kind = "test-case-status"
            /\ TestCaseStatus(c, Head(toBridge[c]).id, Head(toBridge[c]).cases)
         \/ /\ Head(toBridge[c]).kind = "grading-end"
            /\ GradingEnd(c, Head(toBridge[c]).id)
         \/ /\ Head(toBridge[c]).kind = "compile-error"
            /\ Ended(c, Head(toBridge[c]).id, "CE")
         \/ /\ Head(toBridge[c]).kind = "internal-error"
            /\ Ended(c, Head(toBridge[c]).id, "IE")
  BY DEF BridgePacket
<1>2. CASE /\ Head(toBridge[c]).kind = "test-case-status"
           /\ TestCaseStatus(c, Head(toBridge[c]).id, Head(toBridge[c]).cases)
  BY <1>1, <1>2, TestCaseStatusInv
<1>3. CASE Head(toBridge[c]).kind = "grading-end" /\ GradingEnd(c, Head(toBridge[c]).id)
  BY <1>1, <1>3, GradingEndInv
<1>4. CASE Head(toBridge[c]).kind = "compile-error" /\ Ended(c, Head(toBridge[c]).id, "CE")
  BY <1>1, <1>4, EndedInv
<1>5. CASE Head(toBridge[c]).kind = "internal-error" /\ Ended(c, Head(toBridge[c]).id, "IE")
  BY <1>1, <1>5, EndedInv
<1>6. QED
  BY <1>1, <1>2, <1>3, <1>4, <1>5

-------------------------------------------------------------------------------
(* The arena *)

LEMMA BridgeCallInv ==
    ASSUME Inv, NEW k \in Calls, BridgeCall(k)
    PROVE  Inv'
<1>1. CASE /\ SubmitSend(k)
           /\ Post(target[k], [kind |-> "submission-request", id |-> subID[k], call |-> k])
           /\ UNCHANGED <<judgeProcess, toBridge>>
  BY <1>1, SubmitSendInv
<1>2. CASE CallAlone(k) /\ UNCHANGED judgeVars
  BY <1>2, CallAloneInv
<1>3. QED
  BY <1>1, <1>2 DEF BridgeCall, BridgeSend, CallAlone

LEMMA BridgeAloneInv ==
    ASSUME Inv, BridgeAlone
    PROVE  Inv'
<1>1. ASSUME NEW k \in Calls, SubmitPick(k) \/ SubmitNoJudge(k) \/ Expire(k), UNCHANGED judgeVars
      PROVE  Inv'
  BY <1>1, CallAloneInv DEF CallAlone
<1>2. ASSUME NEW c \in Conns, Register(c) \/ Deregister(c), UNCHANGED judgeVars PROVE Inv'
  BY <1>2, RegisterInv
<1>3. ASSUME NEW c \in Conns, AppendLoad(c) \/ AppendStore(c) \/ FinalizeSum(c), UNCHANGED judgeVars
      PROVE  Inv'
  BY <1>3, AppendLoadInv, AppendStoreInv, FinalizeSumInv
<1>4. QED
  BY <1>1, <1>2, <1>3 DEF BridgeAlone

LEMMA BridgeStepInv ==
    ASSUME Inv, BridgeStep
    PROVE  Inv'
BY BridgeCallInv, BridgeAloneInv, AcceptInv, HandshakeInv, RejectInv, GreetInv, RecvErrorInv,
   BridgePacketInv DEF BridgeStep

\* A step that spends no fault that cannot be had.
LEMMA OnlyCrashes ==
    ASSUME Inv
    PROVE  ~RestartBackend /\ \A c \in Conns : ~Break(c)
<1>1. budget["break"] = 0 /\ budget["restart"] = 0
  BY DEF Inv, NoFaults
<1>2. ASSUME RestartBackend PROVE FALSE
  <2>1. budget["restart"] > 0
    BY <1>2 DEF RestartBackend, Spend
  <2>2. QED
    BY <1>1, <2>1
<1>3. ASSUME NEW c \in Conns, Break(c) PROVE FALSE
  <2>1. budget["break"] > 0
    BY <1>3 DEF Break, Spend
  <2>2. QED
    BY <1>1, <2>1
<1>4. QED
  BY <1>2, <1>3

LEMMA StutterInv ==
    ASSUME Inv, UNCHANGED arenaVars
    PROVE  Inv'
<1>1. /\ BridgeSame /\ JudgeSame /\ toBridge' = toBridge /\ toJudge' = toJudge
  BY Same DEF arenaVars
<1>2. BridgeInv' /\ Numbered' /\ SlicesApart' /\ TrueAnswers' /\ IdsKept
  BY <1>1, BridgeStands
<1>3. NoFaults' /\ Grading'
  BY <1>1, JudgeStands DEF Inv, BridgeSame
<1>4. JudgeTypes' /\ OneConnection' /\ Handshaking'
  BY <1>1 DEF Inv, JudgeSame, BridgeSame, JudgeTypes, OneConnection, Handshaking
<1>5. Owned'
  BY <1>1, <1>2, OwnedFrame DEF Inv, BridgeSame, CasesSame
<1>6. RequestsKept
  BY <1>1, <1>2, RequestStands DEF JudgeSame, BridgeSame, CasesSame
<1>7. Requests'
  BY <1>1, <1>6, RequestsFrame, ArenaAssumption DEF Inv, JudgeSame
<1>8. Stories'
  <2>1. \A c \in Conns : \A s :
           pc[c] \notin Early /\ conn' = c /\ IsState(c, s) /\ JudgeAt(s) => JudgeAt(s)'
    BY <1>1 DEF JudgeAt, Unheard, Untold, JudgeSame, BridgeSame, CasesSame, CallsSame
  <2>2. QED
    BY <1>1, <2>1, StoriesFrame DEF Inv, JudgeSame
<1>9. QED
  BY <1>2, <1>3, <1>4, <1>5, <1>7, <1>8 DEF Inv

LEMMA InvStep ==
    ASSUME Inv, [ArenaNext]_arenaVars
    PROVE  Inv'
BY JudgeStepInv, BridgeStepInv, CrashInv, OnlyCrashes, StutterInv DEF ArenaNext

THEOREM InvAlways == JudgeOnlyCrashes /\ ArenaSpec => []Inv
<1>1. JudgeOnlyCrashes /\ ArenaInit => Inv
  BY InvInit
<1>2. Inv /\ [ArenaNext]_arenaVars => Inv'
  BY InvStep
<1>3. QED
  BY <1>1, <1>2, PTL DEF ArenaSpec

-------------------------------------------------------------------------------
(* What the verdicts are *)

\* A verdict that Submit returns is the one the source it was called with
\* deserves, whatever the interleaving of the bridge's threads with the judge's
\* and wherever in a grading the judge crashes: "sends a submission to an
\* available judge and waits for the result" (bridge.go).
THEOREM VerdictOfOwnSource == JudgeOnlyCrashes /\ ArenaSpec => []ResultOfOwnSubmission
<1>1. Inv => ResultOfOwnSubmission
  <2> SUFFICES ASSUME Inv, NEW k \in Calls, answer[k] # NoResult PROVE Verdict(k) = TrueVerdict(k)
    BY DEF ResultOfOwnSubmission
  <2>1. answer[k].status = TrueVerdict(k).status /\ answer[k].cases = TrueVerdict(k).cases
    BY DEF Inv, TrueAnswers, IsTrue
  <2>2. \E s, cs : TrueVerdict(k) = [status |-> s, cases |-> cs]
    BY DEF TrueVerdict
  <2>3. QED
    BY <2>1, <2>2 DEF Verdict
<1>2. QED
  BY <1>1, InvAlways, PTL

\* The verdict of a graded submission is that of its most severe case, and AC
\* only if no case of it has a flag (finalizeResult and StatusName): the
\* accumulated slice is complete when it is summed up.
THEOREM VerdictAlwaysSound == JudgeOnlyCrashes /\ ArenaSpec => []VerdictSound
<1>1. Inv => VerdictSound
  <2> SUFFICES ASSUME Inv, NEW k \in Calls, answer[k] # NoResult, answer[k].cases # <<>>
               PROVE  LET flags == UNION {answer[k].cases[j].flags : j \in DOMAIN answer[k].cases}
                      IN  /\ IF flags = {} THEN answer[k].status = "AC" ELSE answer[k].status \in flags
                          /\ \A f \in flags : ~MoreSevere(f, answer[k].status)
    BY DEF VerdictSound
  <2>1. answer[k].status = TrueVerdict(k).status /\ answer[k].cases = TrueVerdict(k).cases
    BY DEF Inv, TrueAnswers, IsTrue
  <2>2. /\ Plan[k].end = "grading-end" /\ answer[k].cases = Plan[k].cases
        /\ answer[k].status = StatusName(WorstStatus(Plan[k].cases))
    BY <2>1 DEF TrueVerdict
  <2>3. PICK f : f = WorstStatus(answer[k].cases)
    OBVIOUS
  <2>4. f = UNION {answer[k].cases[j].flags : j \in DOMAIN answer[k].cases}
    BY <2>3 DEF WorstStatus
  <2>5. f \in SUBSET Flags
    <3>1. answer[k].cases \in Seq(Cases)
      BY <2>2, ArenaAssumption
    <3>2. \A j \in DOMAIN answer[k].cases : answer[k].cases[j].flags \subseteq Flags
      BY <3>1, BridgeAssumption
    <3>3. QED
      BY <2>4, <3>2
  <2>6. answer[k].status = StatusName(f)
    BY <2>2, <2>3
  <2>7. CASE f = {}
    BY <2>4, <2>6, <2>7, NameOfMask
  <2>8. CASE f # {}
    <3>1. PICK i \in 1..8 : /\ FirstOf(BridgeOrder, f) = BridgeOrder[i] /\ BridgeOrder[i] \in f
                            /\ \A j \in 1..8 : BridgeOrder[j] \in f => i <= j
      BY <2>5, <2>8, FirstFlag
    <3>2. answer[k].status = BridgeOrder[i]
      BY <2>5, <2>6, <2>8, <3>1, NameOfMask
    <3>3. ASSUME NEW g \in f, MoreSevere(g, answer[k].status) PROVE FALSE
      <4>1. PICK m, n \in 1..8 : m < n /\ BridgeOrder[m] = g /\ BridgeOrder[n] = BridgeOrder[i]
        BY <3>2, <3>3, Orders DEF MoreSevere
      <4>2. n = i /\ i <= m
        BY <3>1, <3>3, <4>1, Orders
      <4>3. QED
        BY <4>1, <4>2
    <3>4. QED
      BY <2>4, <2>8, <3>1, <3>2, <3>3
  <2>9. QED
    BY <2>7, <2>8
<1>2. QED
  BY <1>1, InvAlways, PTL

-------------------------------------------------------------------------------
(* The arena is a grading service *)

Phase == [k \in Calls |-> CASE call[k] = "new" -> "idle"
                            [] call[k] = "returned" -> "settled"
                            [] OTHER -> "asked"]

Told == [k \in Calls |-> IF answer[k] = NoResult THEN NoResult ELSE Verdict(k)]

LEMMA ServiceFrame ==
    ASSUME call' = call, answer' = answer
    PROVE  Phase' = Phase /\ Told' = Told
BY DEF Phase, Told, Verdict

\* A step of a call's own moves it on in the service, or leaves it where it was.
LEMMA CallServes ==
    ASSUME Inv, NEW k \in Calls, CallAlone(k) \/ SubmitSend(k)
    PROVE  Service!Next \/ (Phase' = Phase /\ Told' = Told)
<1>0. /\ call \in [Calls -> {"new", "picked", "stored", "waiting", "returned"}]
      /\ answer \in [Calls -> Result \cup {NoResult}]
      /\ chan \in [Calls -> Result \cup {NoResult}]
  BY CallBridge
<1>1. CASE SubmitPick(k)
  <2>1. call[k] = "new" /\ call' = [call EXCEPT ![k] = "picked"] /\ answer' = answer
    BY <1>1 DEF SubmitPick
  <2>2. /\ Phase[k] = "idle" /\ Phase' = [Phase EXCEPT ![k] = "asked"]
        /\ Told' = Told
    BY <1>0, <2>1 DEF Phase, Told, Verdict
  <2>3. Service!Ask(k)
    BY <2>2 DEF Service!Ask, Phase, Told
  <2>4. QED
    BY <2>3 DEF Service!Next
<1>2. CASE SubmitNoJudge(k)
  <2>1. call[k] = "new" /\ call' = [call EXCEPT ![k] = "returned"] /\ answer' = answer
    BY <1>2 DEF SubmitNoJudge
  <2>2. /\ Phase[k] = "idle" /\ Phase' = [Phase EXCEPT ![k] = "settled"]
        /\ Told' = Told
    BY <1>0, <2>1 DEF Phase, Told, Verdict
  <2>3. Service!Refuse(k)
    BY <2>2 DEF Service!Refuse, Phase, Told
  <2>4. QED
    BY <2>3 DEF Service!Next
<1>3. CASE SubmitStore(k) \/ SubmitSend(k) \/ Expire(k)
  <2>1. /\ answer' = answer
        /\ \/ call' = call
           \/ call[k] = "picked" /\ call' = [call EXCEPT ![k] = "stored"]
           \/ call[k] = "stored" /\ call' = [call EXCEPT ![k] = "waiting"]
    BY <1>3 DEF SubmitStore, SubmitSend, Expire
  <2>2. Phase' = Phase
    BY <1>0, <2>1 DEF Phase
  <2>3. Told' = Told
    BY <2>1 DEF Told, Verdict
  <2>4. QED
    BY <2>2, <2>3
<1>4. CASE SubmitReceive(k) \/ SubmitTimeout(k) \/ SubmitSendError(k)
  <2>1. /\ call[k] \in {"stored", "waiting"} /\ call' = [call EXCEPT ![k] = "returned"]
        /\ \/ chan[k] # NoResult /\ answer' = [answer EXCEPT ![k] = chan[k]]
           \/ answer' = [answer EXCEPT ![k] = NoResult]
    BY <1>4 DEF SubmitReceive, SubmitTimeout, SubmitSendError, Return
  <2>2. Phase[k] = "asked" /\ Phase' = [Phase EXCEPT ![k] = "settled"]
    BY <1>0, <2>1 DEF Phase
  <2>3. CASE chan[k] # NoResult /\ answer' = [answer EXCEPT ![k] = chan[k]]
    <3>1. PICK v : v = TrueVerdict(k)
      OBVIOUS
    <3>2. v = [status |-> chan[k].status, cases |-> chan[k].cases]
      <4>1. chan[k].status = v.status /\ chan[k].cases = v.cases
        BY <2>3, <3>1 DEF Inv, TrueAnswers, IsTrue
      <4>2. \E s, cs : v = [status |-> s, cases |-> cs]
        BY <3>1 DEF TrueVerdict
      <4>3. QED
        BY <4>1, <4>2
    <3>3. Told' = [Told EXCEPT ![k] = v]
      BY <1>0, <2>3, <3>2 DEF Told, Verdict
    <3>4. Told' = [Told EXCEPT ![k] = TrueVerdict(k)]
      BY <3>1, <3>3
    <3>5. Service!Settle(k)
      BY <2>2, <3>4 DEF Service!Settle, Phase, Told
    <3>6. QED
      BY <3>5 DEF Service!Next
  <2>4. CASE answer' = [answer EXCEPT ![k] = NoResult]
    <3>1. Told' = [Told EXCEPT ![k] = NoResult]
      BY <1>0, <2>4 DEF Told, Verdict
    <3>2. Service!Settle(k)
      BY <2>2, <3>1 DEF Service!Settle, Phase, Told
    <3>3. QED
      BY <3>2 DEF Service!Next
  <2>5. QED
    BY <2>1, <2>3, <2>4
<1>5. QED
  BY <1>1, <1>2, <1>3, <1>4 DEF CallAlone

\* The judge's steps and the sessions' are nothing to the service.
LEMMA OthersServe ==
    ASSUME Inv, [ArenaNext]_arenaVars
    PROVE  \/ call' = call /\ answer' = answer
           \/ \E k \in Calls : CallAlone(k) \/ SubmitSend(k)
<1>1. CASE UNCHANGED arenaVars
  BY <1>1, Same DEF arenaVars, BridgeSame, CallsSame
<1>2. CASE JudgeStep
  <2>1. UNCHANGED vars
    BY <1>2 DEF JudgeStep, Connect, Hello, Welcome, ReadRequest, BeginGrading, ReadLost, Drop,
       IdleTimeout, GradeCase, Flush, EndGrading, Teardown
  <2>2. QED
    BY <2>1, Same DEF BridgeSame, CallsSame
<1>3. CASE Crash
  BY <1>3, Same DEF Crash, BridgeSame, CallsSame
<1>4. CASE BridgeStep
  <2>1. ASSUME NEW k \in Calls, BridgeCall(k) PROVE CallAlone(k) \/ SubmitSend(k)
    BY <2>1 DEF BridgeCall, BridgeSend, CallAlone
  <2>2. ASSUME NEW c \in Conns,
               \/ BridgeAccept(c) \/ BridgeHandshake(c) \/ BridgeReject(c)
               \/ BridgeGreet(c) \/ BridgeRecvError(c)
        PROVE  UNCHANGED callVars
    BY <2>2 DEF BridgeAccept, Accept, BridgeHandshake, Handshake, BridgeReject, HandshakeReject,
       BridgeGreet, Greet, GreetError, BridgeRecvError, RecvError
  <2>3. ASSUME NEW c \in Conns, BridgePacket(c) PROVE UNCHANGED callVars
    BY <2>3 DEF BridgePacket, TestCaseStatus, GradingEnd, Ended
  <2>4. ASSUME NEW c \in Conns,
               Register(c) \/ Deregister(c) \/ AppendLoad(c) \/ AppendStore(c) \/ FinalizeSum(c)
        PROVE  UNCHANGED callVars
    BY <2>4 DEF Register, Deregister, AppendLoad, AppendStore, FinalizeSum
  <2>5. UNCHANGED callVars \/ \E k \in Calls : CallAlone(k) \/ SubmitSend(k)
    BY <1>4, <2>1, <2>2, <2>3, <2>4 DEF BridgeStep, BridgeAlone, CallAlone
  <2>6. QED
    BY <2>5, Same DEF CallsSame
<1>5. QED
  BY <1>1, <1>2, <1>3, <1>4, OnlyCrashes DEF ArenaNext

\* The arena does what the backend expects of its bridge and judges: it starts
\* with no call made, and each of its steps asks for a submission's verdict,
\* refuses it, settles it with the verdict its own source deserves or with
\* none, or is none of the caller's business.
THEOREM ArenaServes ==
    JudgeOnlyCrashes /\ ArenaSpec => Service!Init /\ [][Service!Next]_<<Phase, Told>>
<1>1. ArenaInit => Service!Init
  BY DEF ArenaInit, Init, Service!Init
<1>2. ASSUME Inv, [ArenaNext]_arenaVars PROVE [Service!Next]_<<Phase, Told>>
  <2>1. CASE call' = call /\ answer' = answer
    BY <2>1, ServiceFrame
  <2>2. CASE \E k \in Calls : CallAlone(k) \/ SubmitSend(k)
    BY <1>2, <2>2, CallServes
  <2>3. QED
    BY <1>2, <2>1, <2>2, OthersServe
<1>3. QED
  BY <1>1, <1>2, InvAlways, PTL DEF ArenaSpec
===============================================================================
