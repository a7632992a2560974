------------------------- MODULE JudgeGradingProofs -------------------------
(***************************************************************************)
(* Proofs about JudgeGrading for any number of submissions, cases, faults  *)
(* and aborts.                                                             *)
(***************************************************************************)
EXTENDS JudgeGrading, FiniteSetTheorems, TLAPS

\* What sequences of messages are made of.
LEMMA MessageType ==
    ASSUME NEW kind \in Kinds, NEW n \in Nat
    PROVE  Message(kind, n) \in Messages
BY DEF Message, Messages

\* A pipe with one message more.
LEMMA Appending ==
    ASSUME NEW q \in [Subs -> Seq(Messages)], NEW s \in Subs, NEW m \in Messages
    PROVE  [q EXCEPT ![s] = Append(@, m)] \in [Subs -> Seq(Messages)]
OBVIOUS

\* And with one less.
LEMMA Reading ==
    ASSUME NEW q \in [Subs -> Seq(Messages)], NEW s \in Subs, q[s] # <<>>
    PROVE  /\ [q EXCEPT ![s] = Tail(@)] \in [Subs -> Seq(Messages)]
           /\ Head(q[s]) \in Messages
<1>1. q[s] \in Seq(Messages)
  OBVIOUS
<1>2. QED
  BY <1>1

\* What Tell does to the worker and its pipe, whether the judge is up or not.
LEMMA Telling ==
    ASSUME TypeOK, NEW s \in Subs, NEW kind \in Kinds, NEW n \in Nat,
           NEW to \in {"compile", "begin", "grade", "bye", "drain"},
           Tell(s, Message(kind, n), to)
    PROVE  /\ worker' \in [Subs -> {"none", "hello", "compile", "begin", "grade", "bye",
                                    "drain", "dead"}]
           /\ up' \in [Subs -> Seq(Messages)]
<1>1. Message(kind, n) \in Messages
  BY MessageType
<1>2. up \in [Subs -> Seq(Messages)]
  BY DEF TypeOK
<1>3. [up EXCEPT ![s] = Append(@, Message(kind, n))] \in [Subs -> Seq(Messages)]
  BY <1>1, <1>2, Appending
<1>7. worker \in [Subs -> {"none", "hello", "compile", "begin", "grade", "bye", "drain", "dead"}]
  BY DEF TypeOK
<1>4. CASE judge = "up"
  <2>1. /\ up' = [up EXCEPT ![s] = Append(@, Message(kind, n))]
        /\ worker' = [worker EXCEPT ![s] = to]
    BY <1>4 DEF Tell
  <2>2. [worker EXCEPT ![s] = to] \in
          [Subs -> {"none", "hello", "compile", "begin", "grade", "bye", "drain", "dead"}]
    BY <1>7
  <2>3. QED
    BY <1>3, <2>1, <2>2
<1>5. CASE judge # "up"
  BY <1>2, <1>5, <1>7 DEF Tell
<1>6. QED
  BY <1>4, <1>5

\* A worker that ends leaves its types behind.
LEMMA Ending ==
    ASSUME TypeOK, NEW s \in Subs, End(s)
    PROVE  /\ worker' \in [Subs -> {"none", "hello", "compile", "begin", "grade", "bye",
                                    "drain", "dead"}]
           /\ listener' \in [Subs -> {"off", "on"}]
           /\ aborting' \subseteq Subs /\ killed' \subseteq Subs
           /\ graded' \in [Subs -> Nat] /\ \A t \in Subs : graded'[t] <= Cases[t]
           /\ down' \in [Subs -> Seq(Messages)]
<1>1. Cases[s] \in Nat
  BY GradingAssumption DEF Subs
<1>2. <<>> \in Seq(Messages)
  OBVIOUS
<1>3. down' \in [Subs -> Seq(Messages)]
  BY <1>2 DEF End, TypeOK
<1>6. graded \in [Subs -> Nat] /\ \A t \in Subs : graded[t] <= Cases[t]
  BY DEF TypeOK
<1>7. graded' = [graded EXCEPT ![s] = 0]
  BY DEF End
<1>4. graded' \in [Subs -> Nat] /\ \A t \in Subs : graded'[t] <= Cases[t]
  BY <1>1, <1>6, <1>7
<1>5. QED
  BY <1>3, <1>4 DEF End, TypeOK

\* The judge's variables keep their types.
THEOREM TypeCorrect == Spec => []TypeOK
<1>1. Init => TypeOK
  <2> SUFFICES ASSUME Init PROVE TypeOK
    OBVIOUS
  <2>1. NoSub \in Subs \cup {NoSub} /\ Faults \in Nat /\ Aborts \in Nat
    BY GradingAssumption
  <2>2. \A s \in Subs : Cases[s] \in Nat
    BY GradingAssumption DEF Subs
  <2>3. [s \in Subs |-> <<>>] \in [Subs -> Seq(Messages)]
    OBVIOUS
  <2>4. /\ up \in [Subs -> Seq(Messages)]
        /\ down \in [Subs -> Seq(Messages)]
        /\ sent \in [Subs -> Seq(Messages)]
    BY <2>3 DEF Init
  <2>5. graded \in [Subs -> Nat] /\ \A s \in Subs : graded[s] <= Cases[s]
    BY <2>2 DEF Init
  <2>6. QED
    BY <2>1, <2>4, <2>5 DEF Init, TypeOK
<1>2. TypeOK /\ [Next]_vars => TypeOK'
  <2> SUFFICES ASSUME TypeOK, [Next]_vars PROVE TypeOK'
    OBVIOUS
  <2>1. /\ up \in [Subs -> Seq(Messages)]
        /\ down \in [Subs -> Seq(Messages)]
        /\ sent \in [Subs -> Seq(Messages)]
    BY DEF TypeOK
  <2>2. ASSUME NEW s \in Subs, Request(s) PROVE TypeOK'
    BY <2>2 DEF TypeOK, Request, At, Goto, workerVars
  <2>3. ASSUME NEW s \in Subs, BeginGrading(s) PROVE TypeOK'
    BY <2>3 DEF TypeOK, BeginGrading, At, Goto
  <2>4. ASSUME NEW s \in Subs, Begun(s) PROVE TypeOK'
    BY <2>4 DEF TypeOK, Begun, At, Goto, workerVars
  <2>5. ASSUME NEW s \in Subs, AbortJoined(s) PROVE TypeOK'
    BY <2>5 DEF TypeOK, AbortJoined, At, Goto, Joined, workerVars
  <2>6. ASSUME NEW s \in Subs, Leave(s) PROVE TypeOK'
    BY <2>6 DEF TypeOK, Leave, At, Joined, workerVars
  <2>7. ASSUME NEW pc \in {"join", "leave"}, current # NoSub, RequestAbort(pc)
        PROVE  /\ down' \in [Subs -> Seq(Messages)]
               /\ reached' \subseteq Subs
               /\ net' \in [pc : {"idle", "begin", "handshake", "join", "leave"},
                            sub : Subs \cup {NoSub}]
    <3>1. current \in Subs
      BY <2>7 DEF TypeOK
    <3>2. Message("REQUEST_ABORT", 0) \in Messages
      BY MessageType DEF Kinds
    <3>3. [down EXCEPT ![current] = Append(@, Message("REQUEST_ABORT", 0))]
             \in [Subs -> Seq(Messages)]
      BY <2>1, <3>1, <3>2, Appending
    <3>4. down' \in [Subs -> Seq(Messages)]
      BY <2>1, <2>7, <3>3 DEF RequestAbort
    <3>5. QED
      BY <2>7, <3>1, <3>4 DEF RequestAbort, Goto, TypeOK
  <2>8. CASE AbortGrading
    <3>1. aborts' \in Nat
      BY <2>8 DEF AbortGrading, Spend, TypeOK
    <3>2. current # NoSub /\ RequestAbort("join")
      BY <2>8 DEF AbortGrading
    <3>3. QED
      BY <2>7, <2>8, <3>1, <3>2 DEF AbortGrading, TypeOK, workerVars
  <2>9. CASE Disconnect
    <3>1. aborts' \in Nat
      BY <2>9 DEF Disconnect, Spend, TypeOK
    <3>2. CASE current = NoSub
      BY <2>9, <3>1, <3>2 DEF Disconnect, TypeOK, workerVars
    <3>3. CASE current # NoSub
      <4>1. RequestAbort("leave")
        BY <2>9, <3>3 DEF Disconnect
      <4>2. QED
        BY <2>7, <2>9, <3>1, <3>3, <4>1 DEF Disconnect, TypeOK, workerVars
    <3>4. QED
      BY <3>2, <3>3
  <2>10. ASSUME NEW s \in Subs, NEW kind \in Kinds, NEW n \in Nat
         PROVE  /\ [sent EXCEPT ![s] = Append(@, Message(kind, n))] \in [Subs -> Seq(Messages)]
                /\ [down EXCEPT ![s] = Append(@, Message(kind, n))] \in [Subs -> Seq(Messages)]
    BY <2>1, MessageType, Appending
  <2>11. ASSUME NEW s \in Subs, Relay(s) PROVE TypeOK'
    <3>1. up' \in [Subs -> Seq(Messages)] /\ Head(up[s]) \in Messages
      BY <2>1, <2>11, Reading DEF Relay
    <3>2. [sent EXCEPT ![s] = Append(@, Head(up[s]))] \in [Subs -> Seq(Messages)]
      BY <2>1, <3>1, Appending
    <3>3. [sent EXCEPT ![s] = Append(@, Message("INTERNAL_ERROR", 0))] \in [Subs -> Seq(Messages)]
      BY <2>10 DEF Kinds, Ends
    <3>4. sent' \in [Subs -> Seq(Messages)] /\ ready' \subseteq Subs
      BY <2>1, <2>11, <3>2, <3>3 DEF Relay, Send, InternalError, TypeOK
    <3>5. thread' = thread
      BY <2>11 DEF Relay, Thread, TypeOK
    <3>6. QED
      BY <2>1, <2>11, <3>1, <3>4, <3>5 DEF Relay, TypeOK, workerVars
  <2>12. ASSUME NEW s \in Subs, Bye(s) PROVE TypeOK'
    <3>1. up' \in [Subs -> Seq(Messages)]
      BY <2>1, <2>12, Reading DEF Bye
    <3>2. /\ [down EXCEPT ![s] = Append(@, Message("BYE", 0))] \in [Subs -> Seq(Messages)]
          /\ [sent EXCEPT ![s] = Append(@, Message("INTERNAL_ERROR", 0))] \in [Subs -> Seq(Messages)]
      BY <2>10 DEF Kinds, Ends
    <3>3. sent' \in [Subs -> Seq(Messages)] /\ down' \in [Subs -> Seq(Messages)]
      BY <2>1, <2>12, <3>2 DEF Bye, Send, InternalError
    <3>4. QED
      BY <2>12, <3>1, <3>3 DEF Bye, Thread, TypeOK, workerVars
  <2>13. ASSUME NEW s \in Subs, LoseWorker(s) PROVE TypeOK'
    <3>1. sent' \in [Subs -> Seq(Messages)]
      BY <2>10, <2>13 DEF LoseWorker, Send, InternalError, Kinds, Ends
    <3>2. QED
      BY <2>13, <3>1 DEF LoseWorker, Thread, TypeOK, workerVars
  <2>14. ASSUME NEW s \in Subs, WaitWorker(s) PROVE TypeOK'
    BY <2>14 DEF WaitWorker, Thread, Joined, TypeOK, workerVars
  <2>15. ASSUME NEW s \in Subs, ClearWorker(s) PROVE TypeOK'
    BY <2>15 DEF ClearWorker, Thread, TypeOK, workerVars
  <2>16. ASSUME NEW s \in Subs, SignalReady(s) PROVE TypeOK'
    BY <2>16 DEF SignalReady, Thread, TypeOK, workerVars
  <2>17. ASSUME NEW s \in Subs, Release(s) PROVE TypeOK'
    BY <2>17 DEF Release, Thread, TypeOK, workerVars
  <2>18. ASSUME NEW s \in Subs, Hello(s) PROVE TypeOK'
    <3>1. Tell(s, Message("HELLO", 0), "compile")
      BY <2>18 DEF Hello
    <3>2. QED
      BY <2>18, <3>1, Telling DEF Hello, TypeOK, Kinds, controlVars
  <2>19. ASSUME NEW s \in Subs, Compile(s) PROVE TypeOK'
    <3>1. PICK kind \in Kinds, to \in {"begin", "grade", "bye"} : Tell(s, Message(kind, 0), to)
      BY <2>19 DEF Compile, Kinds, Ends
    <3>2. worker' \in [Subs -> {"none", "hello", "compile", "begin", "grade", "bye",
                               "drain", "dead"}]
          /\ up' \in [Subs -> Seq(Messages)]
      BY <3>1, Telling
    <3>3. QED
      BY <2>19, <3>2 DEF Compile, TypeOK, controlVars
  <2>20. ASSUME NEW s \in Subs, GradeCase(s) PROVE TypeOK'
    <3>1. Cases[s] \in Nat /\ graded[s] \in Nat /\ graded[s] < Cases[s]
      BY <2>20, GradingAssumption DEF GradeCase, TypeOK, Subs
    <3>2. graded' \in [Subs -> Nat] /\ \A t \in Subs : graded'[t] <= Cases[t]
      BY <2>20, <3>1 DEF GradeCase, TypeOK
    <3>3. PICK kind \in Kinds, n \in Nat, to \in {"grade", "bye"} : Tell(s, Message(kind, n), to)
      BY <2>20, <3>1 DEF GradeCase, Kinds, Ends
    <3>4. worker' \in [Subs -> {"none", "hello", "compile", "begin", "grade", "bye",
                               "drain", "dead"}]
          /\ up' \in [Subs -> Seq(Messages)]
      BY <3>3, Telling
    <3>5. QED
      BY <2>20, <3>2, <3>4 DEF GradeCase, TypeOK, controlVars
  <2>21. ASSUME NEW s \in Subs, EndGrading(s) PROVE TypeOK'
    <3>1. Tell(s, Message("GRADING_END", 0), "bye")
      BY <2>21 DEF EndGrading
    <3>2. QED
      BY <2>21, <3>1, Telling DEF EndGrading, TypeOK, Kinds, Ends, controlVars
  <2>22. ASSUME NEW s \in Subs, SayBye(s) PROVE TypeOK'
    <3>1. Tell(s, Message("BYE", 0), "drain")
      BY <2>22 DEF SayBye
    <3>2. QED
      BY <2>22, <3>1, Telling DEF SayBye, TypeOK, Kinds, controlVars
  <2>23. ASSUME NEW s \in Subs, Raise(s) PROVE TypeOK'
    <3>1. Tell(s, Message("UNHANDLED_EXCEPTION", 0), "bye") /\ faults' \in Nat
      BY <2>23 DEF Raise, TypeOK
    <3>2. QED
      BY <2>23, <3>1, Telling DEF Raise, TypeOK, Kinds, controlVars
  <2>24. ASSUME NEW s \in Subs, Drain(s) \/ Die(s) PROVE TypeOK'
    BY <2>24, Ending DEF Drain, Die, TypeOK, controlVars
  <2>25. ASSUME NEW s \in Subs, Crash(s) PROVE TypeOK'
    <3>1. faults' \in Nat
      BY <2>25 DEF Crash, TypeOK
    <3>2. QED
      BY <2>25, <3>1, Ending DEF Crash, TypeOK, controlVars
  <2>26. ASSUME NEW s \in Subs, Listen(s) PROVE TypeOK'
    <3>1. down' \in [Subs -> Seq(Messages)]
      <4>1. CASE down[s] # <<>>
        <5>1. [down EXCEPT ![s] = Tail(@)] \in [Subs -> Seq(Messages)]
          BY <2>1, <4>1, Reading
        <5>2. QED
          BY <2>26, <4>1, <5>1 DEF Listen
      <4>2. CASE down[s] = <<>>
        BY <2>1, <2>26, <4>2 DEF Listen
      <4>3. QED
        BY <4>1, <4>2
    <3>2. QED
      BY <2>26, <3>1 DEF Listen, TypeOK, controlVars
  <2>27. CASE Exit
    <3>1. faults' \in Nat
      BY <2>27 DEF Exit, TypeOK
    <3>2. QED
      BY <2>27, <3>1 DEF Exit, TypeOK, workerVars
  <2>28. CASE UNCHANGED vars
    BY <2>28 DEF TypeOK, vars
  <2>29. QED
    BY <2>2, <2>3, <2>4, <2>5, <2>6, <2>8, <2>9, <2>11, <2>12, <2>13, <2>14, <2>15,
       <2>16, <2>17, <2>18, <2>19, <2>20, <2>21, <2>22, <2>23, <2>24, <2>25, <2>26,
       <2>27, <2>28 DEF Next, Network, GradingThread, WorkerMain
<1>3. QED
  BY <1>1, <1>2, PTL DEF Spec

-------------------------------------------------------------------------------
(* One submission at a time *)

\* A grading thread that has not released the lock.
Holds(s) == thread[s] \notin {"none", "done"}

\* What the lock protects: one grading thread, whose submission is the current
\* one until it is cleared, and whose worker is the only one that is not dead
\* or dying.
LockInv ==
    /\ \A s \in Subs : Holds(s) => lock
    /\ \A s, t \in Subs : Holds(s) /\ Holds(t) => s = t
    /\ current # NoSub => thread[current] \in {"receive", "wait", "clear"}
    /\ \A s \in Subs :
         Alive(s) /\ s \notin killed => thread[s] \in {"receive", "wait"}

\* Steps that change neither the lock nor a grading thread keep the invariant
\* when they bring no worker to life.
LEMMA LockUntouched ==
    ASSUME TypeOK, LockInv,
           UNCHANGED <<lock, thread, current>>,
           \A s \in Subs : (Alive(s) /\ s \notin killed)' => Alive(s) /\ s \notin killed
    PROVE  LockInv'
BY DEF LockInv, Holds, TypeOK

\* A grading thread's next statement, short of the end of its grading.
LEMMA LockMoves ==
    ASSUME TypeOK, LockInv, NEW s \in Subs,
           NEW from \in {"receive", "wait", "clear", "signal"},
           NEW to \in {"receive", "wait", "clear", "signal", "release"},
           Thread(s, from, to),
           UNCHANGED <<lock, worker>>, killed \subseteq killed',
           current' \in {current, NoSub},
           to \in {"signal", "release"} => current' = NoSub \/ current # s,
           to \notin {"receive", "wait"} => ~Alive(s) \/ s \in killed'
    PROVE  LockInv'
<1>1. /\ thread' = [thread EXCEPT ![s] = to] /\ thread[s] = from
      /\ DOMAIN thread = Subs /\ current \in Subs \cup {NoSub}
  BY DEF Thread, TypeOK
<1>2. Holds(s) /\ \A t \in Subs : Holds(t)' <=> Holds(t)
  BY <1>1 DEF Holds
<1>3. /\ \A t \in Subs : Holds(t)' => lock'
      /\ \A t, u \in Subs : Holds(t)' /\ Holds(u)' => t = u
  BY <1>2 DEF LockInv
<1>4. ASSUME current' # NoSub PROVE thread'[current'] \in {"receive", "wait", "clear"}
  BY <1>1, <1>4 DEF LockInv
<1>5. ASSUME NEW t \in Subs, (Alive(t) /\ t \notin killed)'
      PROVE  thread'[t] \in {"receive", "wait"}
  <2>1. Alive(t) /\ t \notin killed
    BY <1>5 DEF Alive
  <2>2. CASE t = s
    BY <1>1, <1>5, <2>1, <2>2
  <2>3. CASE t # s
    BY <1>1, <2>1, <2>3 DEF LockInv
  <2>4. QED
    BY <2>2, <2>3
<1>6. QED
  BY <1>3, <1>4, <1>5 DEF LockInv

\* One submission at a time: begin_grading's assertion holds whenever the lock
\* is free, and no two workers run (judge.py, _grading_lock).
THEOREM OneAtATimeAlways == Spec => []OneAtATime
<1>1. Init => LockInv
  BY DEF Init, LockInv, Holds, Alive
<1>2. TypeOK /\ LockInv /\ [Next]_vars => LockInv'
  <2> SUFFICES ASSUME TypeOK, LockInv, [Next]_vars PROVE LockInv'
    OBVIOUS
  <2>1. ASSUME NEW s \in Subs, Request(s) \/ Begun(s) \/ AbortJoined(s) \/ Leave(s)
        PROVE  LockInv'
    BY <2>1, LockUntouched DEF Request, Begun, AbortJoined, Leave, Joined, Alive, workerVars
  <2>2. ASSUME NEW s \in Subs, BeginGrading(s) PROVE LockInv'
    <3>1. /\ DOMAIN thread = Subs /\ DOMAIN worker = Subs /\ s # NoSub
      BY GradingAssumption DEF TypeOK, Subs, NoSub
    <3>2. \A t \in Subs : ~Holds(t)
      BY <2>2 DEF BeginGrading, LockInv
    <3>3. \A t \in Subs : t # s => ~Holds(t)' /\ ~(Alive(t) /\ t \notin killed)
      BY <2>2, <3>1, <3>2 DEF BeginGrading, LockInv, Holds
    <3>4. \A t \in Subs : t # s => ~(Alive(t) /\ t \notin killed)'
      BY <2>2, <3>1, <3>3 DEF BeginGrading, Alive
    <3>5. lock' /\ current' = s /\ thread'[s] = "receive"
      BY <2>2, <3>1 DEF BeginGrading
    <3>6. QED
      BY <3>3, <3>4, <3>5 DEF LockInv
  <2>3. CASE AbortGrading \/ Disconnect
    BY <2>3, LockUntouched DEF AbortGrading, Disconnect, Alive, workerVars
  <2>4. ASSUME NEW s \in Subs, Relay(s) PROVE LockInv'
    <3>1. Thread(s, "receive", "receive") /\ UNCHANGED <<lock, worker, killed, current>>
      BY <2>4 DEF Relay, workerVars
    <3>2. QED
      BY <3>1, LockMoves
  <2>5. ASSUME NEW s \in Subs, Bye(s) \/ LoseWorker(s) PROVE LockInv'
    <3>1. Thread(s, "receive", "wait") /\ UNCHANGED <<lock, worker, current>> /\ killed \subseteq killed'
      BY <2>5 DEF Bye, LoseWorker, workerVars
    <3>2. QED
      BY <3>1, LockMoves
  <2>6. ASSUME NEW s \in Subs, WaitWorker(s) PROVE LockInv'
    <3>1. /\ Thread(s, "wait", "clear") /\ UNCHANGED <<lock, worker, current>>
          /\ killed \subseteq killed' /\ (~Alive(s) \/ s \in killed')
      BY <2>6 DEF WaitWorker, Joined, workerVars
    <3>2. QED
      BY <3>1, LockMoves
  <2>7. ASSUME NEW s \in Subs, ClearWorker(s) PROVE LockInv'
    <3>1. /\ Thread(s, "clear", "signal") /\ UNCHANGED <<lock, worker, killed>>
          /\ current' = NoSub
      BY <2>7 DEF ClearWorker, workerVars
    <3>2. thread[s] = "clear"
      BY <3>1 DEF Thread
    <3>3. ~Alive(s) \/ s \in killed'
      BY <3>1, <3>2 DEF LockInv
    <3>4. QED
      BY <3>1, <3>3, LockMoves
  <2>8. ASSUME NEW s \in Subs, SignalReady(s) PROVE LockInv'
    <3>1. /\ Thread(s, "signal", "release") /\ UNCHANGED <<lock, worker, killed, current>>
      BY <2>8 DEF SignalReady, workerVars
    <3>2. thread[s] = "signal"
      BY <3>1 DEF Thread
    <3>3. (~Alive(s) \/ s \in killed') /\ (current = NoSub \/ current # s)
      BY <3>1, <3>2 DEF LockInv
    <3>4. QED
      BY <3>1, <3>3, LockMoves
  <2>9. ASSUME NEW s \in Subs, Release(s) PROVE LockInv'
    <3>1. /\ thread' = [thread EXCEPT ![s] = "done"] /\ thread[s] = "release"
          /\ DOMAIN thread = Subs /\ current' = current /\ current \in Subs \cup {NoSub}
          /\ UNCHANGED <<worker, killed>>
      BY <2>9 DEF Release, Thread, TypeOK, workerVars
    <3>2. \A t \in Subs : ~Holds(t)'
      BY <3>1 DEF LockInv, Holds
    <3>3. current = NoSub
      BY <3>1 DEF LockInv, Holds
    <3>4. \A t \in Subs : (Alive(t) /\ t \notin killed)' => thread'[t] \in {"receive", "wait"}
      BY <3>1 DEF LockInv, Alive
    <3>5. QED
      BY <3>1, <3>2, <3>3, <3>4 DEF LockInv
  <2>10. ASSUME NEW s \in Subs,
                Hello(s) \/ Compile(s) \/ GradeCase(s) \/ EndGrading(s) \/ SayBye(s) \/ Raise(s)
         PROVE  LockInv'
    <3>1. /\ UNCHANGED <<controlVars, killed>>
          /\ Alive(s) /\ s \notin killed
          /\ \/ worker' = [worker EXCEPT ![s] = "compile"]
             \/ worker' = [worker EXCEPT ![s] = "begin"]
             \/ worker' = [worker EXCEPT ![s] = "grade"]
             \/ worker' = [worker EXCEPT ![s] = "bye"]
             \/ worker' = [worker EXCEPT ![s] = "drain"]
      BY <2>10 DEF Hello, Compile, GradeCase, EndGrading, SayBye, Raise, Works, Tell, Alive
    <3>2. \A t \in Subs : (Alive(t) /\ t \notin killed)' => Alive(t) /\ t \notin killed
      BY <3>1 DEF Alive, TypeOK
    <3>3. QED
      BY <3>1, <3>2, LockUntouched DEF controlVars
  <2>11. ASSUME NEW s \in Subs, Drain(s) \/ Die(s) \/ Crash(s) PROVE LockInv'
    <3>1. UNCHANGED controlVars /\ End(s)
      BY <2>11 DEF Drain, Die, Crash
    <3>2. \A t \in Subs : (Alive(t) /\ t \notin killed)' => Alive(t) /\ t \notin killed
      BY <3>1 DEF End, Alive, TypeOK
    <3>3. QED
      BY <3>1, <3>2, LockUntouched DEF controlVars
  <2>12. ASSUME NEW s \in Subs, Listen(s) PROVE LockInv'
    BY <2>12, LockUntouched DEF Listen, Alive, controlVars
  <2>13. CASE Exit \/ UNCHANGED vars
    BY <2>13, LockUntouched DEF Exit, Alive, vars, workerVars
  <2>14. QED
    BY <2>1, <2>2, <2>3, <2>4, <2>5, <2>6, <2>7, <2>8, <2>9, <2>10, <2>11, <2>12, <2>13
       DEF Next, Network, GradingThread, WorkerMain
<1>3. TypeOK /\ LockInv => OneAtATime
  <2> SUFFICES ASSUME TypeOK, LockInv PROVE OneAtATime
    OBVIOUS
  <2>1. ~lock => current = NoSub
    BY DEF LockInv, Holds, TypeOK
  <2>2. QED
    BY <2>1 DEF LockInv, Holds, OneAtATime
<1>4. QED
  BY <1>1, <1>2, <1>3, TypeCorrect, PTL DEF Spec

-------------------------------------------------------------------------------
(* Aborts and ends *)

\* Some message of q is of the kinds K.
Some(q, K) == \E i \in DOMAIN q : q[i].kind \in K

\* What a pipe holds after a write and after a read.
LEMMA SomeAppend ==
    ASSUME NEW q \in Seq(Messages), NEW m \in Messages, NEW K
    PROVE  Some(Append(q, m), K) <=> Some(q, K) \/ m.kind \in K
<1>1. /\ DOMAIN Append(q, m) = 1 .. Len(q) + 1 /\ DOMAIN q = 1 .. Len(q) /\ Len(q) \in Nat
      /\ Append(q, m)[Len(q) + 1] = m
      /\ \A i \in DOMAIN q : Append(q, m)[i] = q[i]
  OBVIOUS
<1>2. ASSUME Some(Append(q, m), K) PROVE Some(q, K) \/ m.kind \in K
  BY <1>1, <1>2 DEF Some
<1>3. ASSUME Some(q, K) PROVE Some(Append(q, m), K)
  <2>1. PICK i \in DOMAIN q : q[i].kind \in K
    BY <1>3 DEF Some
  <2>2. i \in DOMAIN Append(q, m) /\ Append(q, m)[i].kind \in K
    BY <1>1, <2>1
  <2>3. QED
    BY <2>2 DEF Some
<1>4. ASSUME m.kind \in K PROVE Some(Append(q, m), K)
  <2>1. Len(q) + 1 \in DOMAIN Append(q, m)
    BY <1>1
  <2>2. QED
    BY <1>1, <1>4, <2>1 DEF Some
<1>5. QED
  BY <1>2, <1>3, <1>4

LEMMA SomeTail ==
    ASSUME NEW q \in Seq(Messages), q # <<>>, NEW K
    PROVE  Some(q, K) <=> Head(q).kind \in K \/ Some(Tail(q), K)
<1>1. /\ DOMAIN q = 1 .. Len(q) /\ Len(q) \in Nat /\ Len(q) # 0
      /\ DOMAIN Tail(q) = 1 .. Len(q) - 1
      /\ Head(q) = q[1]
      /\ \A i \in 1 .. Len(q) - 1 : Tail(q)[i] = q[i + 1]
  OBVIOUS
<1>2. ASSUME Some(q, K) PROVE Head(q).kind \in K \/ Some(Tail(q), K)
  <2>1. PICK i \in 1 .. Len(q) : q[i].kind \in K
    BY <1>1, <1>2 DEF Some
  <2>2. CASE i = 1
    BY <1>1, <2>1, <2>2
  <2>3. CASE i # 1
    <3>1. i - 1 \in DOMAIN Tail(q) /\ Tail(q)[i - 1] = q[i]
      BY <1>1, <2>3
    <3>2. QED
      BY <2>1, <3>1 DEF Some
  <2>4. QED
    BY <2>2, <2>3
<1>3. ASSUME Head(q).kind \in K PROVE Some(q, K)
  <2>1. 1 \in DOMAIN q
    BY <1>1
  <2>2. QED
    BY <1>1, <1>3, <2>1 DEF Some
<1>4. ASSUME Some(Tail(q), K) PROVE Some(q, K)
  <2>1. PICK i \in 1 .. Len(q) - 1 : Tail(q)[i].kind \in K
    BY <1>1, <1>4 DEF Some
  <2>2. i + 1 \in DOMAIN q /\ q[i + 1].kind \in K
    BY <1>1, <2>1
  <2>3. QED
    BY <2>2 DEF Some
<1>5. QED
  BY <1>2, <1>3, <1>4

\* Whoever is told to abort, or tells of it, was current when an abort came.
AbortInv ==
    /\ judge = "up" => aborting \subseteq reached
    /\ \A s \in Subs :
         \/ s \in reached
         \/ /\ ~Some(down[s], Kinds \ {"BYE"})
            /\ ~Some(up[s], {"GRADING_ABORTED"})
            /\ ~Some(sent[s], {"GRADING_ABORTED"})

\* A step that lets nobody speak of an abort whom none reached.
LEMMA AbortQuiet ==
    ASSUME AbortInv,
           reached \subseteq reached',
           judge' = "up" => judge = "up" /\ aborting' \subseteq aborting \cup reached',
           \A s \in Subs : s \notin reached' =>
               /\ Some(down[s], Kinds \ {"BYE"})' => Some(down[s], Kinds \ {"BYE"})
               /\ Some(up[s], {"GRADING_ABORTED"})' => Some(up[s], {"GRADING_ABORTED"})
               /\ Some(sent[s], {"GRADING_ABORTED"})' =>
                    \/ Some(up[s], {"GRADING_ABORTED"})
                    \/ Some(sent[s], {"GRADING_ABORTED"})
    PROVE  AbortInv'
BY DEF AbortInv

\* What a worker tells changes nothing but the end of its pipe.
LEMMA TellSome ==
    ASSUME TypeOK, NEW s \in Subs, NEW kind \in Kinds, NEW n \in Nat, NEW to,
           Tell(s, Message(kind, n), to), NEW K, kind \notin K
    PROVE  \A t \in Subs : Some(up[t], K)' => Some(up[t], K)
<1>1. Message(kind, n) \in Messages /\ Message(kind, n).kind = kind /\ up[s] \in Seq(Messages)
  BY MessageType DEF Message, TypeOK
<1>2. Some(Append(up[s], Message(kind, n)), K) => Some(up[s], K)
  BY <1>1, SomeAppend
<1>3. CASE judge = "up"
  <2>1. up'[s] = Append(up[s], Message(kind, n)) /\ \A t \in Subs \ {s} : up'[t] = up[t]
    BY <1>3 DEF Tell, TypeOK
  <2>2. QED
    BY <1>2, <2>1 DEF Some
<1>4. CASE judge # "up"
  BY <1>4 DEF Tell
<1>5. QED
  BY <1>3, <1>4

\* AbortedWhenReached: a grading is reported as aborted only when an abort or a
\* disconnect came while it was the current one: the flag of one submission's
\* worker never reaches the next (judge.py, _abort_requested).
THEOREM AbortedOnlyWhenReached == Spec => []AbortedWhenReached
<1>1. Init => AbortInv
  BY DEF Init, AbortInv, Some
<1>2. TypeOK /\ AbortInv /\ [Next]_vars => AbortInv'
  <2> SUFFICES ASSUME TypeOK, AbortInv, [Next]_vars PROVE AbortInv'
    OBVIOUS
  <2>1. ASSUME NEW s \in Subs,
               \/ Request(s) \/ BeginGrading(s) \/ Begun(s) \/ AbortJoined(s) \/ Leave(s)
               \/ WaitWorker(s) \/ ClearWorker(s) \/ SignalReady(s) \/ Release(s)
        PROVE  AbortInv'
    <3>1. UNCHANGED <<up, down, sent, reached, aborting>> /\ (judge' = "up" => judge = "up")
      BY <2>1 DEF Request, BeginGrading, Begun, AbortJoined, Leave, WaitWorker, ClearWorker,
                  SignalReady, Release, At, Thread, workerVars
    <3>2. QED
      BY <3>1, AbortQuiet DEF Some
  <2>2. ASSUME NEW pc, current # NoSub, RequestAbort(pc)
        PROVE  /\ reached' = reached \cup {current}
               /\ \A t \in Subs : t \notin reached' => down'[t] = down[t]
    BY <2>2 DEF RequestAbort, TypeOK
  <2>3. CASE AbortGrading \/ Disconnect
    <3>1. UNCHANGED <<up, sent, aborting>> /\ (judge' = "up" => judge = "up")
      BY <2>3 DEF AbortGrading, Disconnect, Spend, At, workerVars
    <3>2. reached \subseteq reached' /\ \A t \in Subs : t \notin reached' => down'[t] = down[t]
      BY <2>2, <2>3 DEF AbortGrading, Disconnect
    <3>3. QED
      BY <3>1, <3>2, AbortQuiet DEF Some
  <2>4. ASSUME NEW s \in Subs, Relay(s) PROVE AbortInv'
    <3>1. /\ UNCHANGED <<judge, down, reached, aborting>>
          /\ up[s] \in Seq(Messages) /\ sent[s] \in Seq(Messages) /\ up[s] # <<>>
          /\ Head(up[s]) \in Messages
          /\ up'[s] = Tail(up[s]) /\ \A t \in Subs \ {s} : up'[t] = up[t]
      BY <2>4 DEF Relay, TypeOK, workerVars
    <3>2. \/ sent' = sent
          \/ \E m \in {Head(up[s]), Message("INTERNAL_ERROR", 0)} :
                sent' = [sent EXCEPT ![s] = Append(@, m)]
      BY <2>4 DEF Relay, Send, InternalError
    <3>3. \A t \in Subs : Some(sent[t], {"GRADING_ABORTED"})' =>
             Some(sent[t], {"GRADING_ABORTED"}) \/ Some(up[t], {"GRADING_ABORTED"})
      <4>1. Message("INTERNAL_ERROR", 0) \in Messages
        BY MessageType DEF Kinds, Ends
      <4>2. ASSUME NEW m \in {Head(up[s]), Message("INTERNAL_ERROR", 0)},
                   Some(Append(sent[s], m), {"GRADING_ABORTED"})
            PROVE  Some(sent[s], {"GRADING_ABORTED"}) \/ Some(up[s], {"GRADING_ABORTED"})
        <5>1. m \in Messages
          BY <3>1, <4>1
        <5>2. Some(sent[s], {"GRADING_ABORTED"}) \/ m.kind = "GRADING_ABORTED"
          BY <3>1, <4>2, <5>1, SomeAppend
        <5>3. Message("INTERNAL_ERROR", 0).kind # "GRADING_ABORTED"
          BY DEF Message
        <5>4. CASE m = Head(up[s]) /\ m.kind = "GRADING_ABORTED"
          BY <3>1, <5>4, SomeTail
        <5>5. QED
          BY <5>2, <5>3, <5>4
      <4>3. QED
        BY <3>2, <4>2 DEF Some, TypeOK
    <3>4. Some(Tail(up[s]), {"GRADING_ABORTED"}) => Some(up[s], {"GRADING_ABORTED"})
      BY <3>1, SomeTail
    <3>5. QED
      BY <3>1, <3>3, <3>4, AbortQuiet DEF Some
  <2>5. ASSUME NEW s \in Subs, Bye(s) \/ LoseWorker(s) PROVE AbortInv'
    <3>1. /\ UNCHANGED <<judge, reached, aborting>>
          /\ up[s] \in Seq(Messages) /\ sent[s] \in Seq(Messages) /\ down[s] \in Seq(Messages)
          /\ up' = up \/ (up[s] # <<>> /\ up' = [up EXCEPT ![s] = Tail(@)])
          /\ sent' = sent \/ sent' = [sent EXCEPT ![s] = Append(@, Message("INTERNAL_ERROR", 0))]
          /\ down' = down \/ down' = [down EXCEPT ![s] = Append(@, Message("BYE", 0))]
      BY <2>5 DEF Bye, LoseWorker, Send, InternalError, TypeOK, workerVars
    <3>2. /\ Message("INTERNAL_ERROR", 0) \in Messages /\ Message("BYE", 0) \in Messages
          /\ Message("INTERNAL_ERROR", 0).kind = "INTERNAL_ERROR"
          /\ Message("BYE", 0).kind = "BYE"
      BY MessageType DEF Message, Kinds, Ends
    <3>3. /\ Some(Append(sent[s], Message("INTERNAL_ERROR", 0)), {"GRADING_ABORTED"})
               => Some(sent[s], {"GRADING_ABORTED"})
          /\ Some(Append(down[s], Message("BYE", 0)), Kinds \ {"BYE"})
               => Some(down[s], Kinds \ {"BYE"})
      BY <3>1, <3>2, SomeAppend
    <3>4. up[s] # <<>> =>
            (Some(Tail(up[s]), {"GRADING_ABORTED"}) => Some(up[s], {"GRADING_ABORTED"}))
      BY <3>1, SomeTail
    <3>5. \A t \in Subs :
            /\ Some(down[t], Kinds \ {"BYE"})' => Some(down[t], Kinds \ {"BYE"})
            /\ Some(up[t], {"GRADING_ABORTED"})' => Some(up[t], {"GRADING_ABORTED"})
            /\ Some(sent[t], {"GRADING_ABORTED"})' => Some(sent[t], {"GRADING_ABORTED"})
      <4>1. /\ up'[s] \in {up[s], Tail(up[s])} /\ (up'[s] = up[s] \/ up[s] # <<>>)
            /\ sent'[s] \in {sent[s], Append(sent[s], Message("INTERNAL_ERROR", 0))}
            /\ down'[s] \in {down[s], Append(down[s], Message("BYE", 0))}
            /\ \A t \in Subs \ {s} : up'[t] = up[t] /\ sent'[t] = sent[t] /\ down'[t] = down[t]
        BY <3>1 DEF TypeOK
      <4>2. Some(down'[s], Kinds \ {"BYE"}) => Some(down[s], Kinds \ {"BYE"})
        BY <3>3, <4>1
      <4>3. Some(up'[s], {"GRADING_ABORTED"}) => Some(up[s], {"GRADING_ABORTED"})
        BY <3>4, <4>1
      <4>4. Some(sent'[s], {"GRADING_ABORTED"}) => Some(sent[s], {"GRADING_ABORTED"})
        BY <3>3, <4>1
      <4>5. QED
        BY <4>1, <4>2, <4>3, <4>4 DEF Some
    <3>6. QED
      BY <3>1, <3>5, AbortQuiet
  <2>6. ASSUME NEW s \in Subs,
               Hello(s) \/ Compile(s) \/ EndGrading(s) \/ SayBye(s) \/ Raise(s) \/ GradeCase(s)
        PROVE  AbortInv'
    <3>1. UNCHANGED <<judge, down, sent, reached, aborting>>
      BY <2>6 DEF Hello, Compile, EndGrading, SayBye, Raise, GradeCase, controlVars
    <3>2. CASE GradeCase(s) /\ s \in aborting
      <4>1. judge = "up" => s \in reached
        BY <3>2 DEF AbortInv
      <4>2. \A t \in Subs : (t = s /\ judge = "up") \/ up'[t] = up[t]
        BY <3>2 DEF GradeCase, Tell, TypeOK
      <4>3. QED
        BY <3>1, <4>1, <4>2, AbortQuiet DEF Some
    <3>3. CASE ~(GradeCase(s) /\ s \in aborting)
      <4>1. graded[s] + 1 \in Nat
        BY DEF TypeOK
      <4>2. PICK kind \in Kinds \ {"GRADING_ABORTED"}, n \in Nat,
                 to \in {"compile", "begin", "grade", "bye", "drain"} :
               Tell(s, Message(kind, n), to)
        BY <2>6, <3>3, <4>1
           DEF Hello, Compile, EndGrading, SayBye, Raise, GradeCase, Kinds, Ends
      <4>3. \A t \in Subs : Some(up[t], {"GRADING_ABORTED"})' => Some(up[t], {"GRADING_ABORTED"})
        BY <4>2, TellSome
      <4>4. QED
        BY <3>1, <4>3, AbortQuiet DEF Some
    <3>4. QED
      BY <3>2, <3>3
  <2>7. ASSUME NEW s \in Subs, Drain(s) \/ Die(s) \/ Crash(s) PROVE AbortInv'
    <3>1. /\ UNCHANGED <<judge, up, sent, reached>>
          /\ aborting' \subseteq aborting /\ down' = [down EXCEPT ![s] = <<>>]
      BY <2>7 DEF Drain, Die, Crash, End, controlVars
    <3>2. \A t \in Subs : Some(down[t], Kinds \ {"BYE"})' => Some(down[t], Kinds \ {"BYE"})
      BY <3>1 DEF Some, TypeOK
    <3>3. QED
      BY <3>1, <3>2, AbortQuiet DEF Some
  <2>8. ASSUME NEW s \in Subs, Listen(s) PROVE AbortInv'
    <3>1. /\ UNCHANGED <<judge, up, sent, reached>> /\ down[s] \in Seq(Messages)
          /\ \A t \in Subs : t # s => down'[t] = down[t]
      BY <2>8 DEF Listen, TypeOK, controlVars
    <3>2. CASE down[s] = <<>>
      BY <2>8, <3>1, <3>2, AbortQuiet DEF Listen, Some
    <3>3. CASE down[s] # <<>>
      <4>1. down'[s] = Tail(down[s]) /\ Head(down[s]) \in Messages
        BY <2>8, <3>1, <3>3 DEF Listen, TypeOK
      <4>2. Some(down[s], Kinds \ {"BYE"}) <=>
               Head(down[s]).kind # "BYE" \/ Some(Tail(down[s]), Kinds \ {"BYE"})
        <5>1. Head(down[s]).kind \in Kinds
          BY <4>1 DEF Messages
        <5>2. QED
          BY <3>1, <3>3, <5>1, SomeTail
      <4>3. aborting' = aborting \/ (aborting' = aborting \cup {s} /\ s \in reached)
        BY <2>8, <3>3, <4>2 DEF Listen, AbortInv
      <4>4. QED
        BY <3>1, <4>1, <4>2, <4>3, AbortQuiet DEF Some
    <3>4. QED
      BY <3>2, <3>3
  <2>9. CASE Exit \/ UNCHANGED vars
    <3>1. UNCHANGED <<up, down, sent, reached, aborting>> /\ (judge' = "up" => judge = "up")
      BY <2>9 DEF Exit, vars, workerVars
    <3>2. QED
      BY <3>1, AbortQuiet DEF Some
  <2>10. QED
    BY <2>1, <2>3, <2>4, <2>5, <2>6, <2>7, <2>8, <2>9
       DEF Next, Network, GradingThread, WorkerMain
<1>3. AbortInv => AbortedWhenReached
  BY DEF AbortInv, AbortedWhenReached, Position, Some
<1>4. QED
  BY <1>1, <1>2, <1>3, TypeCorrect, PTL DEF Spec

\* What a worker says for the last time before BYE, and what the grading
\* thread makes an end of.
LastWords == Ends \cup {"UNHANDLED_EXCEPTION"}

Told(s) == Some(sent[s], Ends)

\* A worker says BYE after its last words, and the grading thread gets to BYE
\* after it has told them.
EndInv ==
    \A s \in Subs :
      /\ thread[s] \in {"wait", "clear", "signal", "release", "done"} => Told(s)
      /\ worker[s] = "bye" => Told(s) \/ Some(up[s], LastWords)
      /\ \A i \in DOMAIN up[s] : up[s][i].kind = "BYE" =>
           Told(s) \/ \E j \in 1 .. i - 1 : up[s][j].kind \in LastWords

\* A step that says nothing and leaves nobody at the end without an end.
LEMMA EndQuiet ==
    ASSUME EndInv,
           \A s \in Subs :
             /\ Told(s) => Told(s)'
             /\ thread'[s] \in {"wait", "clear", "signal", "release", "done"} =>
                  \/ Told(s)'
                  \/ thread[s] \in {"wait", "clear", "signal", "release", "done"}
             /\ worker'[s] = "bye" => worker[s] = "bye"
             /\ up'[s] = up[s]
    PROVE  EndInv'
BY DEF EndInv, Some

\* A message more is an end more or changes nothing about what was told.
LEMMA Telling2 ==
    ASSUME TypeOK, EndInv, NEW s \in Subs, NEW kind \in Kinds, NEW n \in Nat,
           NEW to \in {"compile", "begin", "grade", "bye", "drain"},
           Tell(s, Message(kind, n), to),
           UNCHANGED <<sent, thread>>,
           to = "bye" => kind \in LastWords,
           kind = "BYE" => worker[s] = "bye"
    PROVE  EndInv'
<1>1. /\ Message(kind, n) \in Messages /\ Message(kind, n).kind = kind
      /\ up[s] \in Seq(Messages)
  BY MessageType DEF Message, TypeOK
<1>2. \A t \in Subs : Told(t)' <=> Told(t)
  BY DEF Told, Some
<1>3. CASE judge # "up"
  <2>1. worker' = [worker EXCEPT ![s] = "drain"] /\ up' = up
    BY <1>3 DEF Tell
  <2>2. QED
    BY <1>2, <2>1, EndQuiet DEF TypeOK
<1>4. CASE judge = "up"
  <2>1. /\ worker' = [worker EXCEPT ![s] = to]
        /\ up'[s] = Append(up[s], Message(kind, n))
        /\ \A t \in Subs : t # s => up'[t] = up[t] /\ worker'[t] = worker[t]
    BY <1>4 DEF Tell, TypeOK
  <2>2. /\ DOMAIN up'[s] = 1 .. Len(up[s]) + 1 /\ DOMAIN up[s] = 1 .. Len(up[s])
        /\ Len(up[s]) \in Nat
        /\ up'[s][Len(up[s]) + 1].kind = kind
        /\ \A i \in 1 .. Len(up[s]) : up'[s][i] = up[s][i]
    BY <1>1, <2>1
  <2>3. worker'[s] = "bye" => Some(up'[s], LastWords)
    <3>1. worker'[s] = to
      BY <2>1 DEF TypeOK
    <3>2. Some(Append(up[s], Message(kind, n)), LastWords) <=>
             Some(up[s], LastWords) \/ kind \in LastWords
      BY <1>1, SomeAppend
    <3>3. QED
      BY <2>1, <3>1, <3>2
  <2>4. ASSUME NEW i \in DOMAIN up'[s], up'[s][i].kind = "BYE"
        PROVE  Told(s) \/ \E j \in 1 .. i - 1 : up'[s][j].kind \in LastWords
    <3>1. CASE i = Len(up[s]) + 1
      <4>1. worker[s] = "bye"
        BY <2>2, <2>4, <3>1
      <4>2. Told(s) \/ \E j \in 1 .. Len(up[s]) : up[s][j].kind \in LastWords
        BY <2>2, <4>1 DEF EndInv, Some
      <4>3. i - 1 = Len(up[s])
        BY <2>2, <3>1
      <4>4. QED
        BY <2>2, <4>2, <4>3
    <3>2. CASE i # Len(up[s]) + 1
      <4>1. i \in DOMAIN up[s] /\ up[s][i].kind = "BYE"
        BY <2>2, <2>4, <3>2
      <4>2. Told(s) \/ \E j \in 1 .. i - 1 : up[s][j].kind \in LastWords
        BY <4>1 DEF EndInv
      <4>3. CASE Told(s)
        BY <4>3
      <4>4. CASE \E j \in 1 .. i - 1 : up[s][j].kind \in LastWords
        <5>1. PICK j \in 1 .. i - 1 : up[s][j].kind \in LastWords
          BY <4>4
        <5>2. i \in 1 .. Len(up[s]) /\ j \in 1 .. Len(up[s])
          BY <2>2, <4>1
        <5>3. up'[s][j] = up[s][j]
          BY <2>2, <5>2
        <5>4. QED
          BY <5>1, <5>3
      <4>5. QED
        BY <4>2, <4>3, <4>4
    <3>3. QED
      BY <3>1, <3>2
  <2>5. \A t \in Subs : t # s =>
          /\ worker'[t] = "bye" => Told(t)' \/ Some(up'[t], LastWords)
          /\ \A i \in DOMAIN up'[t] : up'[t][i].kind = "BYE" =>
               Told(t)' \/ \E j \in 1 .. i - 1 : up'[t][j].kind \in LastWords
    BY <1>2, <2>1 DEF EndInv
  <2>6. \A t \in Subs :
          thread'[t] \in {"wait", "clear", "signal", "release", "done"} => Told(t)'
    BY <1>2 DEF EndInv
  <2>7. QED
    BY <1>2, <2>3, <2>4, <2>5, <2>6 DEF EndInv
<1>5. QED
  BY <1>3, <1>4

\* An internal error is an end.
LEMMA ErrorTells ==
    ASSUME TypeOK, NEW s \in Subs, InternalError(s)
    PROVE  Told(s)' /\ \A t \in Subs : Told(t) => Told(t)'
<1>1. /\ Message("INTERNAL_ERROR", 0) \in Messages
      /\ Message("INTERNAL_ERROR", 0).kind \in Ends
      /\ sent[s] \in Seq(Messages)
      /\ sent'[s] = Append(sent[s], Message("INTERNAL_ERROR", 0))
      /\ \A t \in Subs : t # s => sent'[t] = sent[t]
  BY MessageType DEF Message, Kinds, Ends, InternalError, Send, TypeOK
<1>2. Some(sent'[s], Ends)
  BY <1>1, SomeAppend
<1>3. QED
  BY <1>1, <1>2 DEF Told, Some

\* A grading that is over has been told an end: the bridge never waits in vain
\* for a worker that died, hung or raised (judge.py, _grading_thread_main).
THEOREM EveryGradingIsEnded == Spec => []EveryGradingEnds
<1>1. Init => EndInv
  BY DEF Init, EndInv, Some
<1>2. TypeOK /\ EndInv /\ [Next]_vars => EndInv'
  <2> SUFFICES ASSUME TypeOK, EndInv, [Next]_vars PROVE EndInv'
    OBVIOUS
  <2>1. ASSUME NEW s \in Subs,
               \/ Request(s) \/ Begun(s) \/ AbortJoined(s) \/ Leave(s)
               \/ WaitWorker(s) \/ ClearWorker(s) \/ SignalReady(s) \/ Release(s)
        PROVE  EndInv'
    <3>1. UNCHANGED <<up, sent, worker>>
      BY <2>1 DEF Request, Begun, AbortJoined, Leave, WaitWorker, ClearWorker,
                  SignalReady, Release, workerVars
    <3>2. \A t \in Subs : thread'[t] = thread[t]
             \/ thread[t] \in {"wait", "clear", "signal", "release"}
      BY <2>1 DEF Request, Begun, AbortJoined, Leave, WaitWorker, ClearWorker,
                  SignalReady, Release, Thread, TypeOK
    <3>3. QED
      BY <3>1, <3>2, EndQuiet DEF Told, Some
  <2>2. ASSUME NEW s \in Subs, BeginGrading(s) PROVE EndInv'
    <3>1. UNCHANGED <<up, sent>>
      BY <2>2 DEF BeginGrading
    <3>2. \A t \in Subs : /\ thread'[t] = thread[t] \/ thread'[t] = "receive"
                          /\ worker'[t] = worker[t] \/ worker'[t] = "hello"
      BY <2>2 DEF BeginGrading, TypeOK
    <3>3. QED
      BY <3>1, <3>2, EndQuiet DEF Told, Some
  <2>3. CASE AbortGrading \/ Disconnect
    <3>1. UNCHANGED <<up, sent, thread, worker>>
      BY <2>3 DEF AbortGrading, Disconnect, workerVars
    <3>2. QED
      BY <3>1, EndQuiet DEF Told, Some
  <2>4. ASSUME NEW s \in Subs, Relay(s) \/ Bye(s) PROVE EndInv'
    <3>1. /\ up[s] \in Seq(Messages) /\ sent[s] \in Seq(Messages) /\ up[s] # <<>>
          /\ up'[s] = Tail(up[s]) /\ \A t \in Subs \ {s} : up'[t] = up[t]
          /\ UNCHANGED worker
          /\ \A t \in Subs \ {s} : thread'[t] = thread[t]
          /\ Relay(s) => thread'[s] = "receive" /\ Head(up[s]).kind # "BYE"
          /\ Bye(s) => Head(up[s]).kind = "BYE"
      BY <2>4 DEF Relay, Bye, Thread, TypeOK, workerVars
    <3>2. /\ DOMAIN up[s] = 1 .. Len(up[s]) /\ Len(up[s]) \in Nat /\ Len(up[s]) # 0
          /\ Head(up[s]) = up[s][1] /\ Head(up[s]) \in Messages
          /\ DOMAIN Tail(up[s]) = 1 .. Len(up[s]) - 1
          /\ \A i \in 1 .. Len(up[s]) - 1 : Tail(up[s])[i] = up[s][i + 1]
      BY <3>1
    <3>3. \A t \in Subs \ {s} : sent'[t] = sent[t]
      BY <2>4 DEF Relay, Bye, Send, InternalError, TypeOK
    <3>4. Told(s) => Told(s)'
      <4>1. CASE sent' = sent
        BY <4>1 DEF Told, Some
      <4>2. CASE InternalError(s)
        BY <4>2, ErrorTells
      <4>3. CASE Send(s, Head(up[s]))
        <5>1. sent'[s] = Append(sent[s], Head(up[s]))
          BY <4>3 DEF Send, TypeOK
        <5>2. QED
          BY <3>1, <3>2, <5>1, SomeAppend DEF Told
      <4>4. QED
        BY <2>4, <4>1, <4>2, <4>3 DEF Relay, Bye
    <3>5. Head(up[s]).kind \in LastWords => Told(s)'
      <4>1. SUFFICES ASSUME Head(up[s]).kind \in LastWords PROVE Told(s)'
        OBVIOUS
      <4>2. Relay(s)
        BY <2>4, <3>1, <4>1 DEF LastWords, Ends
      <4>3. CASE Head(up[s]).kind = "UNHANDLED_EXCEPTION"
        <5>1. InternalError(s)
          BY <4>2, <4>3 DEF Relay
        <5>2. QED
          BY <5>1, ErrorTells
      <4>4. CASE Head(up[s]).kind \in Ends
        <5>1. Send(s, Head(up[s]))
          BY <4>2, <4>4 DEF Relay, Ends
        <5>2. sent'[s] = Append(sent[s], Head(up[s]))
          BY <5>1 DEF Send, TypeOK
        <5>3. QED
          BY <3>1, <3>2, <4>4, <5>2, SomeAppend DEF Told
      <4>5. QED
        BY <4>1, <4>3, <4>4 DEF LastWords
    <3>6. Bye(s) => Told(s)'
      <4>1. SUFFICES ASSUME Bye(s) PROVE Told(s)'
        OBVIOUS
      <4>2. 1 \in DOMAIN up[s] /\ up[s][1].kind = "BYE"
        BY <3>1, <3>2, <4>1
      <4>3. Told(s)
        BY <4>2 DEF EndInv
      <4>4. QED
        BY <3>4, <4>3
    <3>7. worker'[s] = "bye" => Told(s)' \/ Some(up'[s], LastWords)
      <4>1. Some(up[s], LastWords) => Head(up[s]).kind \in LastWords \/ Some(Tail(up[s]), LastWords)
        BY <3>1, SomeTail
      <4>2. QED
        BY <3>1, <3>4, <3>5, <4>1 DEF EndInv
    <3>8. ASSUME NEW i \in DOMAIN up'[s], up'[s][i].kind = "BYE"
          PROVE  Told(s)' \/ \E j \in 1 .. i - 1 : up'[s][j].kind \in LastWords
      <4>1. i \in 1 .. Len(up[s]) - 1 /\ i + 1 \in DOMAIN up[s] /\ up[s][i + 1].kind = "BYE"
        BY <3>1, <3>2, <3>8
      <4>2. CASE Told(s)
        BY <3>4, <4>2
      <4>3. CASE ~Told(s)
        <5>1. PICK j \in 1 .. i : up[s][j].kind \in LastWords
          BY <4>1, <4>3 DEF EndInv
        <5>2. CASE j = 1
          BY <3>2, <3>5, <5>1, <5>2
        <5>3. CASE j # 1
          <6>1. j - 1 \in 1 .. i - 1 /\ up'[s][j - 1] = up[s][j]
            BY <3>1, <3>2, <4>1, <5>3
          <6>2. QED
            BY <5>1, <6>1
        <5>4. QED
          BY <5>2, <5>3
      <4>4. QED
        BY <4>2, <4>3
    <3>9. thread'[s] \in {"wait", "clear", "signal", "release", "done"} => Told(s)'
      BY <2>4, <3>1, <3>6
    <3>10. \A t \in Subs \ {s} : Told(t)' <=> Told(t)
      BY <3>3 DEF Told, Some
    <3>11. QED
      BY <3>1, <3>7, <3>8, <3>9, <3>10 DEF EndInv
  <2>5. ASSUME NEW s \in Subs, LoseWorker(s) PROVE EndInv'
    <3>1. UNCHANGED <<up, worker>> /\ InternalError(s)
      BY <2>5 DEF LoseWorker, workerVars
    <3>2. \A t \in Subs \ {s} : thread'[t] = thread[t]
      BY <2>5 DEF LoseWorker, Thread, TypeOK
    <3>3. QED
      BY <3>1, <3>2, ErrorTells, EndQuiet
  <2>6. ASSUME NEW s \in Subs,
               Hello(s) \/ Compile(s) \/ EndGrading(s) \/ SayBye(s) \/ Raise(s) \/ GradeCase(s)
        PROVE  EndInv'
    <3>1. UNCHANGED <<sent, thread>>
      BY <2>6 DEF Hello, Compile, EndGrading, SayBye, Raise, GradeCase, controlVars
    <3>2. graded[s] + 1 \in Nat
      BY DEF TypeOK
    <3>3. CASE SayBye(s)
      <4>1. Tell(s, Message("BYE", 0), "drain") /\ worker[s] = "bye"
        BY <3>3 DEF SayBye, Works
      <4>2. QED
        BY <3>1, <4>1, Telling2 DEF Kinds
    <3>4. CASE ~SayBye(s)
      <4>1. PICK kind \in Kinds \ {"BYE"}, n \in Nat,
                 to \in {"compile", "begin", "grade", "bye", "drain"} :
               Tell(s, Message(kind, n), to) /\ (to = "bye" => kind \in LastWords)
        BY <2>6, <3>2, <3>4
           DEF Hello, Compile, EndGrading, Raise, GradeCase, Kinds, Ends, LastWords
      <4>2. QED
        BY <3>1, <4>1, Telling2
    <3>5. QED
      BY <3>3, <3>4
  <2>7. ASSUME NEW s \in Subs, Drain(s) \/ Die(s) \/ Crash(s) PROVE EndInv'
    <3>1. UNCHANGED <<up, sent, thread>> /\ worker' = [worker EXCEPT ![s] = "dead"]
      BY <2>7 DEF Drain, Die, Crash, End, controlVars
    <3>2. QED
      BY <3>1, EndQuiet DEF Told, Some, TypeOK
  <2>8. CASE Exit \/ UNCHANGED vars \/ \E s \in Subs : Listen(s)
    <3>1. UNCHANGED <<up, sent, thread, worker>>
      BY <2>8 DEF Exit, Listen, vars, workerVars, controlVars
    <3>2. QED
      BY <3>1, EndQuiet DEF Told, Some
  <2>9. QED
    BY <2>1, <2>2, <2>3, <2>4, <2>5, <2>6, <2>7, <2>8
       DEF Next, Network, GradingThread, WorkerMain
<1>3. EndInv => EveryGradingEnds
  BY DEF EndInv, EveryGradingEnds, Told, Some
<1>4. QED
  BY <1>1, <1>2, <1>3, TypeCorrect, PTL DEF Spec
-------------------------------------------------------------------------------
(* The story of a grading *)

\* What a grading may say at its p-th place, when it begins with its b-th
\* message: a compiler's warning, its beginning, and the cases in order.
Fits(m, p, b, s) ==
    \/ m.kind \in {"COMPILE_ERROR", "GRADING_ABORTED", "INTERNAL_ERROR",
                   "UNHANDLED_EXCEPTION", "BYE"}
    \/ m.kind = "GRADING_END" /\ p = b + Cases[s] + 1
    \/ m.kind = "COMPILE_MESSAGE" /\ p < b
    \/ m.kind = "GRADING_BEGIN" /\ p = b
    \/ m.kind = "RESULT" /\ p > b /\ m.n = p - b

LastKinds == Ends \cup {"UNHANDLED_EXCEPTION", "BYE"}

\* What the bridge was told is the beginning of a story.
SentFits(s, b) ==
    /\ \A p \in DOMAIN sent[s] :
         Fits(sent[s][p], p, b, s) /\ sent[s][p].kind \notin {"UNHANDLED_EXCEPTION", "BYE"}
    /\ \A i, j \in DOMAIN sent[s] :
         i < j /\ sent[s][i].kind \in Ends => sent[s][j].kind = "INTERNAL_ERROR"

\* The story's place of the message before the pipe's first; HELLO has place 0.
Offset(s) == IF s \in ready THEN Len(sent[s]) ELSE -1

\* What is in the pipe goes on from there.
UpFits(s, b) ==
    /\ s \notin ready => sent[s] = <<>>
    /\ \A j \in DOMAIN up[s] :
         IF j + Offset(s) = 0 THEN up[s][j].kind = "HELLO" ELSE Fits(up[s][j], j + Offset(s), b, s)
    /\ \A i, j \in DOMAIN up[s] :
         i < j /\ up[s][i].kind \in LastKinds => up[s][j].kind = "BYE" /\ up[s][i].kind # "BYE"
    /\ Some(sent[s], Ends) => \A j \in DOMAIN up[s] : up[s][j].kind = "BYE"

\* And the worker is where the story is.
WorkerFits(s, b) ==
    /\ worker[s] \in {"none", "hello"} => Len(up[s]) + Offset(s) = -1
    /\ worker[s] = "compile" => Len(up[s]) + Offset(s) = 0
    /\ worker[s] = "begin" => Len(up[s]) + Offset(s) = 1 /\ b = 2
    /\ worker[s] = "grade" => Len(up[s]) + Offset(s) = b + graded[s]
    /\ worker[s] \in {"none", "hello", "compile", "begin"} => graded[s] = 0
    /\ worker[s] \in {"hello", "compile", "begin", "grade"} =>
         ~Some(sent[s], Ends) /\ ~Some(up[s], LastKinds)
    /\ worker[s] = "bye" => Len(up[s]) + Offset(s) >= 0 /\ ~Some(up[s], {"BYE"})

\* A place for the beginning that everything said agrees with.
Story(s) ==
    \E b \in {1, 2} :
      /\ SentFits(s, b)
      /\ thread[s] \in {"none", "receive"} => UpFits(s, b)
      /\ judge = "up" /\ thread[s] \in {"none", "receive"} => WorkerFits(s, b)

\* A grading that is to begin is a submission's first.
FirstGrading ==
    /\ \A s \in Subs : thread[s] = "none" <=> worker[s] = "none"
    /\ \A s \in killed : worker[s] # "none"
    /\ net.pc = "begin" => net.sub \in Subs /\ thread[net.sub] = "none"

StoryInv == FirstGrading /\ \A s \in Subs : Story(s)

\* Positions of a sequence with one message more, or one less.
LEMMA Places ==
    ASSUME NEW q \in Seq(Messages), NEW m \in Messages
    PROVE  /\ DOMAIN q = 1 .. Len(q) /\ Len(q) \in Nat
           /\ DOMAIN Append(q, m) = 1 .. Len(q) + 1 /\ Len(Append(q, m)) = Len(q) + 1
           /\ Append(q, m)[Len(q) + 1] = m
           /\ \A i \in 1 .. Len(q) : Append(q, m)[i] = q[i]
           /\ q # <<>> => /\ Len(q) # 0 /\ Head(q) = q[1]
                          /\ DOMAIN Tail(q) = 1 .. Len(q) - 1 /\ Len(Tail(q)) = Len(q) - 1
                          /\ \A i \in 1 .. Len(q) - 1 : Tail(q)[i] = q[i + 1]
OBVIOUS

\* A step that adds nothing to a story keeps it.
LEMMA StoryQuiet ==
    ASSUME NEW s \in Subs, Story(s),
           up'[s] = up[s], sent'[s] = sent[s],
           thread'[s] \in {"none", "receive"} =>
              /\ thread[s] \in {"none", "receive"}
              /\ s \in ready' <=> s \in ready,
           judge' = "up" => judge = "up",
           \/ worker'[s] = worker[s] /\ graded'[s] = graded[s]
           \/ worker'[s] \in {"drain", "dead"}
    PROVE  Story(s)'
<1>1. PICK b \in {1, 2} :
        /\ SentFits(s, b)
        /\ thread[s] \in {"none", "receive"} => UpFits(s, b)
        /\ judge = "up" /\ thread[s] \in {"none", "receive"} => WorkerFits(s, b)
  BY DEF Story
<1>2. SentFits(s, b)'
  BY <1>1 DEF SentFits, Fits
<1>3. thread'[s] \in {"none", "receive"} => UpFits(s, b)'
  BY <1>1 DEF UpFits, Fits, Offset, Some
<1>4. judge' = "up" /\ thread'[s] \in {"none", "receive"} => WorkerFits(s, b)'
  BY <1>1 DEF WorkerFits, Offset, Some
<1>5. QED
  BY <1>2, <1>3, <1>4 DEF Story

\* The worker goes on with the story.
LEMMA StoryTold ==
    ASSUME TypeOK, NEW s \in Subs, NEW kind \in Kinds, NEW n \in Nat,
           NEW to \in {"compile", "begin", "grade", "bye", "drain"},
           Tell(s, Message(kind, n), to), UNCHANGED <<judge, sent, thread, ready>>,
           NEW b \in {1, 2}, NEW p, p = Len(up[s]) + 1 + Offset(s),
           SentFits(s, b),
           thread[s] \in {"none", "receive"} => UpFits(s, b),
           judge = "up" /\ thread[s] \in {"none", "receive"} =>
             /\ WorkerFits(s, b)
             /\ IF p = 0 THEN kind = "HELLO" ELSE Fits(Message(kind, n), p, b, s)
             /\ to = "compile" => p = 0 /\ graded'[s] = 0
             /\ to = "begin" => p = 1 /\ b = 2 /\ graded'[s] = 0
             /\ to = "grade" => p = b + graded'[s]
             /\ to = "bye" => p >= 0,
           to \in {"compile", "begin", "grade"} => kind \notin LastKinds,
           IF kind = "BYE" THEN worker[s] = "bye" /\ to = "drain"
           ELSE worker[s] \in {"hello", "compile", "begin", "grade"}
    PROVE  Story(s)'
<1>1. SentFits(s, b)'
  BY DEF SentFits, Fits
<1>2. CASE judge # "up"
  <2>1. UNCHANGED up /\ worker'[s] = "drain"
    BY <1>2 DEF Tell, TypeOK
  <2>2. Story(s)
    BY <1>2 DEF Story
  <2>3. QED
    BY <2>1, <2>2, StoryQuiet
<1>3. CASE judge = "up" /\ thread[s] \in {"none", "receive"}
  <2> DEFINE q == up[s]
             m == Message(kind, n)
  <2>1. /\ q \in Seq(Messages) /\ m \in Messages /\ m.kind = kind
        /\ Len(sent[s]) \in Nat
    BY MessageType DEF TypeOK, Message
  <2>2. up'[s] = Append(q, m) /\ worker'[s] = to /\ Offset(s)' = Offset(s)
    BY <1>3 DEF Tell, TypeOK, Offset
  <2>3. /\ DOMAIN q = 1 .. Len(q) /\ Len(q) \in Nat
        /\ DOMAIN up'[s] = 1 .. Len(q) + 1 /\ Len(up'[s]) = Len(q) + 1
        /\ up'[s][Len(q) + 1] = m
        /\ \A i \in 1 .. Len(q) : up'[s][i] = q[i]
    BY <2>1, <2>2, Places
  <2>4. Offset(s) \in Int
    BY <2>1 DEF Offset
  <2>5. kind # "BYE" => ~Some(sent[s], Ends) /\ ~Some(q, LastKinds)
    BY <1>3 DEF WorkerFits
  <2>6. kind = "BYE" => ~Some(q, {"BYE"})
    BY <1>3 DEF WorkerFits
  <2>7. UpFits(s, b)'
    <3>1. (s \notin ready => sent[s] = <<>>)'
      BY <1>3 DEF UpFits
    <3>2. ASSUME NEW j \in DOMAIN up'[s]
          PROVE  IF j + Offset(s)' = 0 THEN up'[s][j].kind = "HELLO"
                 ELSE Fits(up'[s][j], j + Offset(s)', b, s)
      <4>1. CASE j \in DOMAIN q
        BY <1>3, <2>2, <2>3, <4>1 DEF UpFits
      <4>2. CASE j = Len(q) + 1
        BY <1>3, <2>1, <2>2, <2>3, <2>4, <4>2
      <4>3. QED
        BY <2>3, <4>1, <4>2
    <3>3. ASSUME NEW i \in DOMAIN up'[s], NEW j \in DOMAIN up'[s],
                 i < j, up'[s][i].kind \in LastKinds
          PROVE  up'[s][j].kind = "BYE" /\ up'[s][i].kind # "BYE"
      <4>1. i \in DOMAIN q /\ up'[s][i] = q[i]
        BY SMTT(40), <2>3, <3>3
      <4>2. Some(q, LastKinds)
        BY <3>3, <4>1 DEF Some
      <4>3. CASE j \in DOMAIN q
        BY <1>3, <2>3, <3>3, <4>1, <4>3 DEF UpFits
      <4>4. CASE j = Len(q) + 1
        BY <2>1, <2>3, <2>5, <2>6, <4>1, <4>2, <4>4 DEF Some
      <4>5. QED
        BY <2>3, <4>3, <4>4
    <3>4. ASSUME Some(sent[s], Ends), NEW j \in DOMAIN up'[s] PROVE up'[s][j].kind = "BYE"
      <4>1. kind = "BYE" /\ Some(sent[s], Ends)
        BY <2>5, <3>4
      <4>2. CASE j \in DOMAIN q
        BY <1>3, <2>3, <4>1, <4>2 DEF UpFits
      <4>3. CASE j = Len(q) + 1
        BY <2>1, <2>3, <4>1, <4>3
      <4>4. QED
        BY <2>3, <4>2, <4>3
    <3>5. QED
      BY <3>1, <3>2, <3>3, <3>4 DEF UpFits, Fits
  <2>8. WorkerFits(s, b)'
    <3>1. Len(up'[s]) + Offset(s)' = p
      BY <2>2, <2>3, <2>4
    <3>2. to \in {"compile", "begin", "grade"} =>
             ~Some(sent'[s], Ends) /\ ~Some(up'[s], LastKinds)
      <4>1. Some(up'[s], LastKinds) => Some(q, LastKinds) \/ kind \in LastKinds
        BY <2>1, <2>2, SomeAppend
      <4>2. QED
        BY <2>5, <4>1 DEF LastKinds
    <3>3. to = "bye" => ~Some(up'[s], {"BYE"})
      <4>1. Some(up'[s], {"BYE"}) => Some(q, {"BYE"}) \/ kind = "BYE"
        BY <2>1, <2>2, SomeAppend
      <4>2. Some(q, {"BYE"}) => Some(q, LastKinds)
        BY DEF Some, LastKinds
      <4>3. QED
        BY <2>5, <4>1, <4>2
    <3>4. QED
      BY <1>3, <2>2, <3>1, <3>2, <3>3 DEF WorkerFits
  <2>9. QED
    BY <1>1, <2>7, <2>8 DEF Story
<1>4. CASE thread[s] \notin {"none", "receive"}
  BY <1>1, <1>4 DEF Story
<1>5. QED
  BY <1>2, <1>3, <1>4

\* What a worker that goes on says, and where it goes.
LEMMA StoryWorker ==
    ASSUME TypeOK, NEW s \in Subs, Story(s),
           Hello(s) \/ Compile(s) \/ GradeCase(s) \/ EndGrading(s) \/ Raise(s) \/ SayBye(s)
    PROVE  Story(s)'
<1>1. PICK b \in {1, 2} :
        /\ SentFits(s, b)
        /\ thread[s] \in {"none", "receive"} => UpFits(s, b)
        /\ judge = "up" /\ thread[s] \in {"none", "receive"} => WorkerFits(s, b)
  BY DEF Story
<1>2. UNCHANGED <<judge, sent, thread, ready>>
  BY DEF Hello, Compile, GradeCase, EndGrading, Raise, SayBye, controlVars
<1>3. /\ Len(up[s]) \in Nat /\ Len(sent[s]) \in Nat /\ graded[s] \in Nat
      /\ Offset(s) \in Int
  BY DEF TypeOK, Offset
<1> DEFINE p == Len(up[s]) + 1 + Offset(s)
           Here == judge = "up" /\ thread[s] \in {"none", "receive"}
<1>4. CASE Hello(s)
  <2>1. /\ Tell(s, Message("HELLO", 0), "compile") /\ worker[s] = "hello" /\ graded' = graded
        /\ "HELLO" \in Kinds /\ "HELLO" \notin LastKinds
    BY <1>4 DEF Hello, Works, Kinds, LastKinds, Ends
  <2>2. Here => p = 0 /\ graded'[s] = 0
    BY <1>1, <1>3, <2>1 DEF WorkerFits
  <2>3. QED
    BY <1>1, <1>2, <2>1, <2>2, StoryTold
<1>5. CASE Compile(s) /\ Works(s, "compile")
  <2>1. graded' = graded /\ worker[s] = "compile"
    BY <1>5 DEF Compile, Works
  <2>2. Here => p = 1 /\ graded'[s] = 0
    BY <1>1, <1>3, <2>1 DEF WorkerFits
  <2>3. ASSUME NEW c \in {1, 2}, Here PROVE SentFits(s, c) /\ UpFits(s, c) /\ WorkerFits(s, c)
    <3>1. sent[s] = <<>> /\ Len(up[s]) + Offset(s) = 0
      BY <1>1, <2>1, <2>3 DEF WorkerFits, UpFits, Offset, TypeOK
    <3>2. SentFits(s, c)
      BY <3>1 DEF SentFits
    <3>3. UpFits(s, c)
      <4>1. \A j \in DOMAIN up[s] : j + Offset(s) = 0
        BY <1>3, <3>1 DEF Offset, TypeOK
      <4>2. QED
        BY <1>1, <2>3, <4>1 DEF UpFits
    <3>4. WorkerFits(s, c)
      BY <1>1, <2>1, <2>3 DEF WorkerFits
    <3>5. QED
      BY <3>2, <3>3, <3>4
  <2>4. CASE Tell(s, Message("COMPILE_ERROR", 0), "bye")
    <3>1. Fits(Message("COMPILE_ERROR", 0), p, b, s) /\ "COMPILE_ERROR" \in Kinds
      BY DEF Fits, Message, Kinds, Ends
    <3>2. QED
      BY <1>1, <1>2, <2>1, <2>2, <2>4, <3>1, StoryTold
  <2>5. CASE Tell(s, Message("COMPILE_MESSAGE", 0), "begin")
    <3>1. Fits(Message("COMPILE_MESSAGE", 0), 1, 2, s) /\ "COMPILE_MESSAGE" \in Kinds \ LastKinds
      BY DEF Fits, Message, Kinds, LastKinds, Ends
    <3>2. CASE Here
      BY <1>2, <2>1, <2>2, <2>3, <2>5, <3>1, <3>2, StoryTold
    <3>3. CASE ~Here
      BY <1>1, <1>2, <2>1, <2>5, <3>1, <3>3, StoryTold
    <3>4. QED
      BY <3>2, <3>3
  <2>6. CASE Tell(s, Message("GRADING_BEGIN", 0), "grade")
    <3>1. Fits(Message("GRADING_BEGIN", 0), 1, 1, s) /\ "GRADING_BEGIN" \in Kinds \ LastKinds
      BY DEF Fits, Message, Kinds, LastKinds, Ends
    <3>2. CASE Here
      BY <1>2, <2>1, <2>2, <2>3, <2>6, <3>1, <3>2, StoryTold
    <3>3. CASE ~Here
      BY <1>1, <1>2, <2>1, <2>6, <3>1, <3>3, StoryTold
    <3>4. QED
      BY <3>2, <3>3
  <2>7. QED
    BY <1>5, <2>1, <2>4, <2>5, <2>6 DEF Compile, Works
<1>6. CASE Compile(s) /\ Works(s, "begin")
  <2>1. /\ Tell(s, Message("GRADING_BEGIN", 0), "grade") /\ worker[s] = "begin" /\ graded' = graded
        /\ "GRADING_BEGIN" \in Kinds \ LastKinds
    BY <1>6 DEF Compile, Works, Kinds, LastKinds, Ends
  <2>2. Here => p = 2 /\ b = 2 /\ graded'[s] = 0
    BY <1>1, <1>3, <2>1 DEF WorkerFits
  <2>3. Fits(Message("GRADING_BEGIN", 0), 2, 2, s)
    BY DEF Fits, Message
  <2>4. QED
    BY <1>1, <1>2, <2>1, <2>2, <2>3, StoryTold
<1>7. CASE GradeCase(s)
  <2>1. graded'[s] = graded[s] + 1 /\ worker[s] = "grade"
    BY <1>7 DEF GradeCase, Works, TypeOK
  <2>2. Here => p = b + graded[s] + 1
    BY <1>1, <1>3, <2>1 DEF WorkerFits
  <2>3. CASE s \in aborting
    <3>1. /\ Tell(s, Message("GRADING_ABORTED", 0), "bye")
          /\ Fits(Message("GRADING_ABORTED", 0), p, b, s) /\ "GRADING_ABORTED" \in Kinds
      BY <1>7, <2>3 DEF GradeCase, Fits, Message, Kinds, Ends
    <3>2. Here => p >= 0 /\ p # 0
      BY <1>3, <2>2
    <3>3. QED
      BY <1>1, <1>2, <2>1, <3>1, <3>2, StoryTold
  <2>4. CASE s \notin aborting
    <3>1. /\ Tell(s, Message("RESULT", graded[s] + 1), "grade") /\ graded[s] + 1 \in Nat
          /\ "RESULT" \in Kinds \ LastKinds
      BY <1>3, <1>7, <2>4 DEF GradeCase, Kinds, LastKinds, Ends
    <3>2. Here => p # 0 /\ p = b + graded'[s] /\ Fits(Message("RESULT", graded[s] + 1), p, b, s)
      <4>1. Here => p > b /\ graded[s] + 1 = p - b /\ p # 0 /\ p = b + graded'[s]
        BY SMTT(40), <1>3, <2>1, <2>2
      <4>2. QED
        BY <4>1 DEF Fits, Message
    <3>3. QED
      BY <1>1, <1>2, <2>1, <3>1, <3>2, StoryTold
  <2>5. QED
    BY <2>3, <2>4
<1>8. CASE EndGrading(s)
  <2>1. /\ Tell(s, Message("GRADING_END", 0), "bye") /\ worker[s] = "grade"
        /\ graded[s] = Cases[s] /\ "GRADING_END" \in Kinds
    BY <1>8 DEF EndGrading, Works, Kinds, Ends
  <2>2. Here => p = b + Cases[s] + 1 /\ p >= 0 /\ p # 0
    BY <1>1, <1>3, <2>1 DEF WorkerFits
  <2>3. Here => Fits(Message("GRADING_END", 0), p, b, s)
    BY <2>2 DEF Fits, Message
  <2>4. QED
    BY <1>1, <1>2, <2>1, <2>2, <2>3, StoryTold
<1>9. CASE Raise(s)
  <2>1. /\ Tell(s, Message("UNHANDLED_EXCEPTION", 0), "bye")
        /\ worker[s] \in {"compile", "begin", "grade"} /\ "UNHANDLED_EXCEPTION" \in Kinds
        /\ Fits(Message("UNHANDLED_EXCEPTION", 0), p, b, s)
    BY <1>9 DEF Raise, Works, Kinds, Fits, Message
  <2>2. Here => p >= 0 /\ p # 0
    BY <1>1, <1>3, <2>1 DEF WorkerFits
  <2>3. QED
    BY <1>1, <1>2, <2>1, <2>2, StoryTold
<1>10. CASE SayBye(s)
  <2>1. /\ Tell(s, Message("BYE", 0), "drain") /\ worker[s] = "bye" /\ "BYE" \in Kinds
        /\ Fits(Message("BYE", 0), p, b, s)
    BY <1>10 DEF SayBye, Works, Kinds, Fits, Message
  <2>2. Here => p >= 0 /\ p # 0
    BY <1>1, <1>3, <2>1 DEF WorkerFits, UpFits
  <2>3. QED
    BY <1>1, <1>2, <2>1, <2>2, StoryTold
<1>11. QED
  BY <1>4, <1>5, <1>6, <1>7, <1>8, <1>9, <1>10 DEF Compile

\* The next message of the pipe becomes the next packet, HELLO apart.
LEMMA StoryRelay ==
    ASSUME TypeOK, NEW s \in Subs, Story(s), Relay(s)
    PROVE  Story(s)'
<1>1. PICK b \in {1, 2} :
        /\ SentFits(s, b) /\ UpFits(s, b)
        /\ judge = "up" => WorkerFits(s, b)
  BY DEF Story, Relay, Thread
<1> DEFINE q == up[s]
           t == sent[s]
<1>2. /\ q \in Seq(Messages) /\ t \in Seq(Messages) /\ q # <<>> /\ q[1] = Head(q)
      /\ UNCHANGED <<judge, worker, graded>> /\ thread'[s] = "receive"
      /\ up'[s] = Tail(q) /\ Len(t) \in Nat
  BY DEF Relay, Thread, TypeOK, workerVars
<1>3. /\ DOMAIN q = 1 .. Len(q) /\ Len(q) \in Nat \ {0} /\ 1 \in DOMAIN q /\ q[1] \in Messages
      /\ DOMAIN up'[s] = 1 .. Len(q) - 1 /\ Len(up'[s]) = Len(q) - 1
      /\ \A i \in 1 .. Len(q) - 1 : up'[s][i] = q[i + 1] /\ i + 1 \in DOMAIN q
  BY <1>2, Places
<1>11. ASSUME NEW j \in DOMAIN up'[s]
       PROVE  j \in Nat /\ j # 0 /\ j + 1 \in DOMAIN q /\ up'[s][j] = q[j + 1]
  <2>1. j \in 1 .. Len(q) - 1 /\ Len(q) \in Nat
    BY <1>3
  <2>2. QED
    BY <1>3, <2>1
<1>12. Len(up'[s]) = Len(q) - 1
  BY <1>3
<1>4. ASSUME NEW K, Some(up'[s], K) PROVE Some(q, K)
  BY <1>3, <1>4 DEF Some
<1>5. \A i, j \in DOMAIN up'[s] :
        i < j /\ up'[s][i].kind \in LastKinds => up'[s][j].kind = "BYE" /\ up'[s][i].kind # "BYE"
  <2>1. ASSUME NEW i \in DOMAIN up'[s], NEW j \in DOMAIN up'[s], i < j
        PROVE  /\ i + 1 \in DOMAIN q /\ j + 1 \in DOMAIN q /\ i + 1 < j + 1
               /\ up'[s][i] = q[i + 1] /\ up'[s][j] = q[j + 1]
    BY <1>11, <2>1
  <2>2. QED
    BY <1>1, <2>1 DEF UpFits
<1>6. /\ Offset(s) \in Int /\ (1 + Offset(s) = 0 <=> s \notin ready)
      /\ Len(t) \in Nat /\ Len(q) \in Nat
  BY <1>2, <1>3 DEF Offset
<1>10. IF s \notin ready THEN Head(q).kind = "HELLO" ELSE Fits(q[1], 1 + Offset(s), b, s)
  BY <1>1, <1>2, <1>3, <1>6 DEF UpFits
<1>7. CASE Head(q).kind = "HELLO"
  <2>1. s \notin ready
    BY <1>2, <1>7, <1>10 DEF Fits
  <2>2. sent' = sent /\ t = <<>> /\ s \in ready'
    BY <1>1, <1>7, <2>1 DEF Relay, UpFits
  <2>3. Offset(s)' = 0 /\ Offset(s) = -1
    BY <1>2, <2>1, <2>2 DEF Offset
  <2>4. SentFits(s, b)'
    BY <2>2 DEF SentFits
  <2>5. UpFits(s, b)'
    <3>1. ASSUME NEW j \in DOMAIN up'[s] PROVE Fits(up'[s][j], j + Offset(s)', b, s) /\ j + Offset(s)' # 0
      <4>1. /\ j + 1 \in DOMAIN q /\ (j + 1) + Offset(s) = j /\ j # 0 /\ j + Offset(s)' = j
            /\ up'[s][j] = q[j + 1]
        BY <1>3, <2>3
      <4>2. QED
        BY <1>1, <4>1 DEF UpFits
    <3>2. ~Some(sent'[s], Ends)
      BY <2>2 DEF Some
    <3>3. QED
      BY <1>5, <2>2, <3>1, <3>2 DEF UpFits, Fits
  <2>6. judge' = "up" => WorkerFits(s, b)'
    <3>1. Len(up'[s]) + Offset(s)' = Len(q) + Offset(s)
      BY <1>3, <2>3
    <3>2. QED
      BY <1>1, <1>2, <1>4, <2>2, <3>1 DEF WorkerFits
  <2>7. QED
    BY <2>4, <2>5, <2>6 DEF Story
<1>8. CASE Head(q).kind # "HELLO"
  <2>1. s \in ready /\ ready' = ready /\ Offset(s) = Len(t)
    <3>1. s \in ready
      BY <1>8, <1>10
    <3>2. QED
      BY <1>8, <3>1 DEF Relay, Offset
  <2>15. sent \in [Subs -> Seq(Messages)] /\ s \in Subs
    BY DEF TypeOK
  <2>2. PICK m \in Messages :
          /\ sent'[s] = Append(t, m)
          /\ m = q[1] \/ (m.kind = "INTERNAL_ERROR" /\ q[1].kind = "UNHANDLED_EXCEPTION")
          /\ m.kind \notin {"UNHANDLED_EXCEPTION", "BYE"}
    <3>1. /\ Message("INTERNAL_ERROR", 0) \in Messages
          /\ Message("INTERNAL_ERROR", 0).kind = "INTERNAL_ERROR"
      BY MessageType DEF Message, Kinds, Ends
    <3>2. CASE q[1].kind = "UNHANDLED_EXCEPTION"
      <4>1. sent'[s] = Append(t, Message("INTERNAL_ERROR", 0))
        <5>1. sent' = [sent EXCEPT ![s] = Append(@, Message("INTERNAL_ERROR", 0))]
          BY <1>2, <3>2 DEF Relay, Send, InternalError
        <5>2. QED
          BY <2>15, <5>1
      <4>2. QED
        BY <3>1, <3>2, <4>1
    <3>3. CASE q[1].kind # "UNHANDLED_EXCEPTION"
      <4>1. sent' = [sent EXCEPT ![s] = Append(@, q[1])] /\ q[1].kind # "BYE"
        BY <1>2, <1>8, <3>3 DEF Relay, Send
      <4>3. sent'[s] = Append(t, q[1])
        BY <2>15, <4>1
      <4>2. QED
        BY <1>3, <3>3, <4>1, <4>3
    <3>4. QED
      BY <3>2, <3>3
  <2>3. /\ DOMAIN t = 1 .. Len(t)
        /\ DOMAIN sent'[s] = 1 .. Len(t) + 1 /\ Len(sent'[s]) = Len(t) + 1
        /\ sent'[s][Len(t) + 1] = m
        /\ \A i \in 1 .. Len(t) : sent'[s][i] = t[i]
    BY <1>2, <2>2, Places
  <2>4. Offset(s)' = Len(t) + 1
    BY <2>1, <2>3 DEF Offset
  <2>13. Offset(s) = Len(t)
    BY <2>1
  <2>14. Offset(s)' = Offset(s) + 1
    BY <2>4, <2>13
  <2>5. Fits(q[1], Len(t) + 1, b, s)
    <3>1. 1 + Offset(s) = Len(t) + 1
      BY <1>6, <2>1
    <3>2. QED
      BY <1>10, <2>1, <3>1
  <2>6. Fits(m, Len(t) + 1, b, s)
    BY <2>2, <2>5 DEF Fits
  <2>7. Some(t, Ends) => FALSE
    <3>1. Some(t, Ends) => q[1].kind = "BYE"
      BY <1>1, <1>3 DEF UpFits
    <3>2. QED
      BY <1>2, <3>1 DEF Relay
  <2>8. m.kind \in Ends => q[1].kind \in LastKinds
    BY <2>2 DEF LastKinds
  <2>9. SentFits(s, b)'
    <3>1. ASSUME NEW i \in DOMAIN sent'[s]
          PROVE  Fits(sent'[s][i], i, b, s) /\ sent'[s][i].kind \notin {"UNHANDLED_EXCEPTION", "BYE"}
      <4>1. CASE i \in DOMAIN t
        BY <1>1, <2>3, <4>1 DEF SentFits
      <4>2. CASE i = Len(t) + 1
        BY <2>2, <2>3, <2>6, <4>2
      <4>3. QED
        BY <1>2, <2>3, <4>1, <4>2
    <3>2. ASSUME NEW i \in DOMAIN sent'[s], NEW j \in DOMAIN sent'[s], i < j, sent'[s][i].kind \in Ends
          PROVE  sent'[s][j].kind = "INTERNAL_ERROR"
      <4>1. i \in DOMAIN t /\ t[i] = sent'[s][i]
        BY <1>2, <2>3, <3>2
      <4>2. QED
        BY <2>7, <3>2, <4>1 DEF Some
    <3>3. QED
      BY <3>1, <3>2 DEF SentFits, Fits
  <2>10. UpFits(s, b)'
    <3>1. ASSUME NEW j \in DOMAIN up'[s] PROVE Fits(up'[s][j], j + Offset(s)', b, s) /\ j + Offset(s)' # 0
      <4>1. /\ j + 1 \in DOMAIN q /\ (j + 1) + Offset(s) = j + Offset(s)' /\ j + Offset(s)' # 0
            /\ up'[s][j] = q[j + 1]
        <5>1. j \in Nat /\ j # 0 /\ j + 1 \in DOMAIN q /\ up'[s][j] = q[j + 1]
          BY <1>11
        <5>2. j + Offset(s)' # 0
          BY <1>6, <2>4, <5>1
        <5>3. (j + 1) + Offset(s) = j + Offset(s)'
          BY <1>6, <2>14, <5>1
        <5>4. QED
          BY <5>1, <5>2, <5>3
      <4>2. QED
        BY <1>1, <4>1 DEF UpFits
    <3>2. ASSUME Some(sent'[s], Ends), NEW j \in DOMAIN up'[s] PROVE up'[s][j].kind = "BYE"
      <4>1. m.kind \in Ends
        BY <1>2, <2>2, <2>7, <3>2, SomeAppend
      <4>2. 1 < j + 1 /\ j + 1 \in DOMAIN q /\ up'[s][j] = q[j + 1]
        BY <1>3
      <4>3. QED
        BY <1>1, <1>3, <2>8, <4>1, <4>2 DEF UpFits
    <3>3. QED
      BY <1>5, <2>1, <3>1, <3>2 DEF UpFits, Fits
  <2>11. judge' = "up" => WorkerFits(s, b)'
    <3>1. Len(up'[s]) + Offset(s)' = Len(q) + Offset(s)
      BY <1>6, <1>12, <2>14
    <3>2. Some(sent'[s], Ends) => Some(q, LastKinds)
      <4>1. Some(sent'[s], Ends) => m.kind \in Ends
        BY <1>2, <2>2, <2>7, SomeAppend
      <4>2. QED
        BY <1>3, <2>8, <4>1 DEF Some
    <3>3. QED
      BY <1>1, <1>2, <1>4, <3>1, <3>2 DEF WorkerFits
  <2>12. QED
    BY <2>9, <2>10, <2>11 DEF Story
<1>9. QED
  BY <1>7, <1>8

\* An internal error may end every story, and be told after it.
LEMMA StoryEnds ==
    ASSUME TypeOK, NEW s \in Subs, Story(s), thread'[s] = "wait",
           \/ sent'[s] = sent[s]
           \/ sent'[s] = Append(sent[s], Message("INTERNAL_ERROR", 0))
    PROVE  Story(s)'
<1>1. PICK b \in {1, 2} : SentFits(s, b)
  BY DEF Story
<1>2. CASE sent'[s] = sent[s]
  BY <1>1, <1>2 DEF Story, SentFits, Fits
<1>3. CASE sent'[s] = Append(sent[s], Message("INTERNAL_ERROR", 0))
  <2> DEFINE t == sent[s]
             m == Message("INTERNAL_ERROR", 0)
  <2>1. t \in Seq(Messages) /\ m \in Messages /\ m.kind = "INTERNAL_ERROR"
    BY MessageType DEF TypeOK, Message, Kinds, Ends
  <2>2. /\ DOMAIN t = 1 .. Len(t) /\ Len(t) \in Nat
        /\ DOMAIN sent'[s] = 1 .. Len(t) + 1
        /\ sent'[s][Len(t) + 1] = m
        /\ \A i \in 1 .. Len(t) : sent'[s][i] = t[i]
    BY <1>3, <2>1, Places
  <2>3. ASSUME NEW i \in DOMAIN sent'[s]
        PROVE  Fits(sent'[s][i], i, b, s) /\ sent'[s][i].kind \notin {"UNHANDLED_EXCEPTION", "BYE"}
    <3>1. CASE i \in DOMAIN t
      BY <1>1, <2>2, <3>1 DEF SentFits
    <3>2. CASE i = Len(t) + 1
      BY <2>1, <2>2, <3>2 DEF Fits
    <3>3. QED
      BY <2>2, <3>1, <3>2
  <2>4. ASSUME NEW i \in DOMAIN sent'[s], NEW j \in DOMAIN sent'[s], i < j, sent'[s][i].kind \in Ends
        PROVE  sent'[s][j].kind = "INTERNAL_ERROR"
    <3>1. CASE j \in DOMAIN t
      BY SMTT(40), <1>1, <2>2, <2>4, <3>1 DEF SentFits
    <3>2. CASE j = Len(t) + 1
      BY <2>1, <2>2, <3>2
    <3>3. QED
      BY <2>2, <3>1, <3>2
  <2>5. SentFits(s, b)'
    BY <2>3, <2>4 DEF SentFits, Fits
  <2>6. QED
    BY <2>5 DEF Story
<1>4. QED
  BY <1>2, <1>3

\* A worker starts where its story does.
LEMMA StoryBegins ==
    ASSUME TypeOK, FirstGrading, NEW s \in Subs, Story(s), BeginGrading(s)
    PROVE  Story(s)'
<1>1. /\ thread[s] = "none" /\ worker[s] = "none" /\ worker'[s] = "hello" /\ thread'[s] = "receive"
      /\ UNCHANGED <<judge, sent, ready, up, graded>>
  BY DEF BeginGrading, At, FirstGrading, TypeOK
<1>2. PICK b \in {1, 2} : /\ SentFits(s, b) /\ UpFits(s, b)
                          /\ judge = "up" => WorkerFits(s, b)
  BY <1>1 DEF Story
<1>3. SentFits(s, b)'
  BY <1>1, <1>2 DEF SentFits, Fits
<1>4. UpFits(s, b)'
  BY <1>1, <1>2 DEF UpFits, Fits, Offset, Some
<1>5. judge' = "up" => WorkerFits(s, b)'
  <2> SUFFICES ASSUME judge = "up" PROVE WorkerFits(s, b)'
    BY <1>1
  <2>1. Len(up[s]) + Offset(s) = -1 /\ graded[s] = 0
    BY <1>1, <1>2 DEF WorkerFits
  <2>2. s \notin ready /\ Len(up[s]) = 0
    BY <2>1 DEF Offset, TypeOK
  <2>3. sent[s] = <<>> /\ up[s] = <<>>
    <3>1. sent[s] = <<>>
      BY <1>2, <2>2 DEF UpFits
    <3>2. up[s] = <<>>
      BY <2>2 DEF TypeOK
    <3>3. QED
      BY <3>1, <3>2
  <2>4. ~Some(sent'[s], Ends) /\ ~Some(up'[s], LastKinds) /\ Offset(s)' = Offset(s)
    BY <1>1, <2>3 DEF Some, Offset
  <2>5. QED
    BY <1>1, <2>1, <2>4 DEF WorkerFits
<1>6. QED
  BY <1>3, <1>4, <1>5 DEF Story

\* A story with a GRADING_END has the results of all cases before it, in order.
LEMMA StoryIsOnce ==
    ASSUME TypeOK, NEW s \in Subs, Story(s)
    PROVE  LET q == sent[s] IN
      /\ \A i, j \in DOMAIN q :
           i < j /\ q[i].kind \in Ends => q[j].kind = "INTERNAL_ERROR"
      /\ \A i \in Position(q, "GRADING_END") :
           [k \in 1 .. Cases[s] |-> k] =
             [k \in 1 .. Cardinality(Position(q, "RESULT")) |->
                LET r == {j \in Position(q, "RESULT") :
                            Cardinality({m \in Position(q, "RESULT") : m <= j}) = k}
                IN q[CHOOSE j \in r : TRUE].n]
<1> DEFINE q == sent[s]
           R == Position(q, "RESULT")
           C == Cases[s]
<1>1. PICK b \in {1, 2} : SentFits(s, b)
  BY DEF Story
<1>2. C \in Nat /\ b \in Nat /\ DOMAIN q \subseteq Nat /\ DOMAIN q = 1 .. Len(q) /\ Len(q) \in Nat
  BY GradingAssumption DEF TypeOK, Subs
<1>3. SUFFICES ASSUME NEW i \in Position(q, "GRADING_END")
      PROVE  [k \in 1 .. C |-> k] =
               [k \in 1 .. Cardinality(R) |->
                  LET r == {j \in R : Cardinality({m \in R : m <= j}) = k}
                  IN q[CHOOSE j \in r : TRUE].n]
  BY <1>1 DEF SentFits
<1>4. i \in DOMAIN q /\ q[i].kind = "GRADING_END" /\ i = b + C + 1
  BY <1>1 DEF Position, SentFits, Fits
<1>5. ASSUME NEW j \in DOMAIN q
      PROVE  q[j].kind = "RESULT" <=> j \in b + 1 .. b + C
  <2>1. CASE j < i
    <3>1. q[j].kind \notin Ends \cup {"UNHANDLED_EXCEPTION", "BYE"}
      BY <1>1, <1>4, <2>1 DEF SentFits, Ends
    <3>2. Fits(q[j], j, b, s)
      BY <1>1 DEF SentFits
    <3>3. \/ q[j].kind = "COMPILE_MESSAGE" /\ j < b
          \/ q[j].kind = "GRADING_BEGIN" /\ j = b
          \/ q[j].kind = "RESULT" /\ j > b
      BY <3>1, <3>2 DEF Fits, Ends
    <3>4. j \in Nat /\ j < b + C + 1
      BY <1>2, <1>4, <2>1
    <3>5. QED
      BY <1>2, <3>3, <3>4
  <2>2. CASE j = i
    BY <1>2, <1>4, <2>2
  <2>3. CASE i < j
    <3>1. q[j].kind = "INTERNAL_ERROR"
      BY <1>1, <1>4, <2>3 DEF SentFits, Ends
    <3>2. QED
      BY <1>2, <1>4, <2>3, <3>1
  <2>4. QED
    BY <1>2, <1>4, <2>1, <2>2, <2>3
<1>6. R = b + 1 .. b + C
  <2>1. b + 1 .. b + C \subseteq DOMAIN q
    BY <1>2, <1>4
  <2>2. QED
    BY <1>5, <2>1 DEF Position
<1>7. Cardinality(R) = C
  <2>1. b + 1 \in Int /\ b + C \in Int
    BY <1>2
  <2>2. Cardinality(R) = IF b + 1 > b + C THEN 0 ELSE (b + C) - (b + 1) + 1
    BY <1>6, <2>1, FS_Interval
  <2>3. QED
    BY <1>2, <2>2
<1>8. ASSUME NEW k \in 1 .. C
      PROVE  LET r == {j \in R : Cardinality({m \in R : m <= j}) = k}
             IN q[CHOOSE j \in r : TRUE].n = k
  <2> DEFINE r == {j \in R : Cardinality({m \in R : m <= j}) = k}
  <2>1. ASSUME NEW j \in R PROVE Cardinality({m \in R : m <= j}) = j - b
    <3>1. {m \in R : m <= j} = b + 1 .. j
      BY <1>2, <1>6
    <3>2. b + 1 \in Int /\ j \in Int /\ b + 1 <= j
      BY <1>2, <1>6
    <3>3. Cardinality(b + 1 .. j) = IF b + 1 > j THEN 0 ELSE j - (b + 1) + 1
      BY <3>2, FS_Interval
    <3>4. b \in Int /\ Cardinality(b + 1 .. j) = j - b
      BY <1>2, <3>2, <3>3
    <3>5. QED
      BY <3>1, <3>4
  <2>2. b + k \in R /\ b + k \in DOMAIN q
    BY SMTT(40), <1>2, <1>4, <1>6
  <2>3. r = {b + k}
    <3>1. ASSUME NEW j \in R PROVE j - b = k <=> j = b + k
      BY <1>2, <1>6
    <3>2. QED
      BY <2>1, <2>2, <3>1
  <2>4. (CHOOSE j \in r : TRUE) = b + k
    BY <2>3
  <2>5. q[b + k].n = k
    <3>1. Fits(q[b + k], b + k, b, s) /\ q[b + k].kind = "RESULT"
      BY <1>1, <1>5, <1>6, <2>2 DEF SentFits
    <3>2. q[b + k].n = (b + k) - b
      BY <3>1 DEF Fits
    <3>3. QED
      BY <1>2, <3>2
  <2>6. QED
    BY <2>4, <2>5
<1>9. QED
  BY <1>7, <1>8

\* A submission is graded once.
LEMMA FirstGradingStays ==
    ASSUME TypeOK, FirstGrading, Next
    PROVE  FirstGrading'
<1>1. ASSUME NEW s \in Subs, Request(s) PROVE FirstGrading'
  BY <1>1 DEF FirstGrading, Request, At, Goto, workerVars
<1>2. ASSUME NEW s \in Subs, BeginGrading(s) PROVE FirstGrading'
  <2>1. s \notin killed
    BY <1>2 DEF FirstGrading, BeginGrading, At
  <2>2. QED
    BY <1>2, <2>1 DEF FirstGrading, BeginGrading, At, Goto, TypeOK
<1>3. ASSUME NEW s \in Subs, Begun(s) \/ AbortJoined(s) \/ Leave(s) PROVE FirstGrading'
  BY <1>3 DEF FirstGrading, Begun, AbortJoined, Leave, At, Goto, Joined, Alive, workerVars
<1>4. CASE AbortGrading \/ Disconnect \/ Exit
  BY <1>4 DEF FirstGrading, AbortGrading, Disconnect, Exit, Spend, RequestAbort, At, Goto, workerVars
<1>5. ASSUME NEW s \in Subs, GradingThread(s) PROVE FirstGrading'
  <2>1. /\ UNCHANGED <<worker, net>> /\ killed' \subseteq killed \cup {t \in Subs : Alive(t)}
        /\ thread[s] # "none" /\ thread'[s] # "none"
        /\ \A t \in Subs : t # s => thread'[t] = thread[t]
    BY <1>5 DEF GradingThread, Relay, Bye, LoseWorker, WaitWorker, ClearWorker, SignalReady,
                Release, Thread, Joined, workerVars, TypeOK
  <2>2. QED
    BY <2>1 DEF FirstGrading, Alive
<1>6. ASSUME NEW s \in Subs,
             WorkerMain(s) \/ Listen(s) \/ Die(s) \/ Raise(s) \/ Crash(s)
      PROVE  FirstGrading'
  <2>1. /\ UNCHANGED <<thread, net>> /\ killed' \subseteq killed
        /\ worker'[s] = "none" <=> worker[s] = "none"
        /\ \A t \in Subs : t # s => worker'[t] = worker[t]
    BY SMTT(40), <1>6 DEF WorkerMain, Hello, Compile, GradeCase, EndGrading, SayBye, Drain, Listen, Die,
                Raise, Crash, Works, Tell, End, Alive, controlVars, TypeOK, FirstGrading
  <2>2. \A t \in Subs : worker'[t] = "none" <=> worker[t] = "none"
    BY <2>1
  <2>3. QED
    BY <2>1, <2>2 DEF FirstGrading, TypeOK
<1>7. QED
  BY <1>1, <1>2, <1>3, <1>4, <1>5, <1>6 DEF Next, Network

\* A grading's packets tell its story once, whoever dies, aborts or raises:
\* nothing but an internal error follows its end, and grading-end follows the
\* results of all its cases in order.
THEOREM StoryToldOnce == Spec => []StoryOnce
<1>1. TypeOK /\ Init => StoryInv
  <2> SUFFICES ASSUME TypeOK, Init PROVE StoryInv
    OBVIOUS
  <2>1. FirstGrading
    BY DEF Init, FirstGrading
  <2>2. ASSUME NEW s \in Subs PROVE Story(s)
    <3>1. sent[s] = <<>> /\ up[s] = <<>> /\ s \notin ready /\ worker[s] = "none" /\ graded[s] = 0
      BY DEF Init
    <3>2. SentFits(s, 1) /\ UpFits(s, 1) /\ WorkerFits(s, 1)
      BY <3>1 DEF SentFits, UpFits, WorkerFits, Offset, Some
    <3>3. QED
      BY <3>2 DEF Story
  <2>3. QED
    BY <2>1, <2>2 DEF StoryInv
<1>2. TypeOK /\ StoryInv /\ [Next]_vars => StoryInv'
  <2> SUFFICES ASSUME TypeOK, StoryInv, Next \/ UNCHANGED vars PROVE StoryInv'
    OBVIOUS
  <2>1. FirstGrading /\ \A s \in Subs : Story(s)
    BY DEF StoryInv
  <2>2. FirstGrading'
    <3>1. CASE Next
      BY <2>1, <3>1, FirstGradingStays
    <3>2. CASE UNCHANGED vars
      BY <2>1, <3>2 DEF FirstGrading, vars
    <3>3. QED
      BY <3>1, <3>2
  <2>3. SUFFICES ASSUME NEW t \in Subs PROVE Story(t)'
    BY <2>2 DEF StoryInv
  <2>4. Story(t)
    BY <2>1
  <2>5. ASSUME NEW s \in Subs, Request(s) \/ Begun(s) \/ AbortJoined(s) \/ Leave(s)
        PROVE  Story(t)'
    BY <2>4, <2>5, StoryQuiet DEF Request, Begun, AbortJoined, Leave, workerVars
  <2>6. ASSUME NEW s \in Subs, BeginGrading(s) PROVE Story(t)'
    <3>1. CASE s = t
      BY <2>1, <2>4, <2>6, <3>1, StoryBegins
    <3>2. CASE s # t
      BY <2>4, <2>6, <3>2, StoryQuiet DEF BeginGrading, TypeOK
    <3>3. QED
      BY <3>1, <3>2
  <2>7. CASE AbortGrading \/ Disconnect \/ Exit \/ UNCHANGED vars
    BY <2>4, <2>7, StoryQuiet DEF AbortGrading, Disconnect, Exit, workerVars, vars
  <2>8. ASSUME NEW s \in Subs, GradingThread(s) PROVE Story(t)'
    <3>1. CASE s # t
      <4>1. /\ up'[t] = up[t] /\ sent'[t] = sent[t] /\ thread'[t] = thread[t]
            /\ (t \in ready' <=> t \in ready) /\ UNCHANGED <<judge, worker, graded>>
        BY <2>8, <3>1 DEF GradingThread, Relay, Bye, LoseWorker, WaitWorker, ClearWorker,
               SignalReady, Release, Thread, Send, InternalError, workerVars, TypeOK
      <4>2. QED
        BY <2>4, <4>1, StoryQuiet
    <3>2. CASE s = t /\ Relay(s)
      BY <2>4, <3>2, StoryRelay
    <3>3. CASE s = t /\ (Bye(s) \/ LoseWorker(s))
      BY <2>4, <3>3, StoryEnds DEF Bye, LoseWorker, Thread, Send, InternalError, TypeOK
    <3>4. CASE s = t /\ (WaitWorker(s) \/ ClearWorker(s) \/ SignalReady(s) \/ Release(s))
      <4>1. /\ UNCHANGED <<judge, up, sent, worker, graded>>
            /\ thread'[t] \notin {"none", "receive"}
        BY <3>4 DEF WaitWorker, ClearWorker, SignalReady, Release, Thread, workerVars, TypeOK
      <4>2. QED
        BY <2>4, <4>1, StoryQuiet
    <3>5. QED
      BY <2>8, <3>1, <3>2, <3>3, <3>4 DEF GradingThread
  <2>9. ASSUME NEW s \in Subs,
               Hello(s) \/ Compile(s) \/ GradeCase(s) \/ EndGrading(s) \/ Raise(s) \/ SayBye(s)
        PROVE  Story(t)'
    <3>1. CASE s = t
      BY <2>4, <2>9, <3>1, StoryWorker
    <3>2. CASE s # t
      <4>1. /\ UNCHANGED <<judge, sent, thread, ready>> /\ up'[t] = up[t]
            /\ worker'[t] = worker[t] /\ graded'[t] = graded[t]
        BY SMTT(40), <2>9, <3>2 DEF Hello, Compile, GradeCase, EndGrading, Raise, SayBye, Tell, controlVars,
               TypeOK
      <4>2. QED
        BY <2>4, <4>1, StoryQuiet
    <3>3. QED
      BY <3>1, <3>2
  <2>10. ASSUME NEW s \in Subs, Drain(s) \/ Die(s) \/ Crash(s) \/ Listen(s) PROVE Story(t)'
    <3>1. /\ UNCHANGED <<judge, sent, thread, ready, up>>
          /\ \/ worker'[t] = worker[t] /\ graded'[t] = graded[t]
             \/ worker'[t] = "dead"
      BY <2>10 DEF Drain, Die, Crash, Listen, End, controlVars, TypeOK
    <3>2. QED
      BY <2>4, <3>1, StoryQuiet
  <2>11. QED
    BY <2>5, <2>6, <2>7, <2>8, <2>9, <2>10 DEF Next, Network, WorkerMain
<1>3. TypeOK /\ StoryInv => StoryOnce
  BY StoryIsOnce DEF StoryInv, StoryOnce
<1>4. QED
  BY <1>1, <1>2, <1>3, TypeCorrect, PTL DEF Spec
===============================================================================
