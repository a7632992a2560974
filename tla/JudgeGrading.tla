---------------------------- MODULE JudgeGrading ----------------------------
(***************************************************************************)
(* How the judge grades one submission after another (dmoj/judge.py).      *)
(*                                                                         *)
(* Four threads of control in two processes.  The controller's network     *)
(* thread begins and aborts gradings; a grading thread per submission      *)
(* turns the worker's messages into packets.  The worker process has a     *)
(* main thread, which grades, and one that listens to the controller.      *)
(* A pipe with a direction each way joins the two processes.               *)
(***************************************************************************)
EXTENDS Integers, Sequences, FiniteSets

CONSTANTS
    Submissions, \* bound: submissions the bridge requests
    Cases,       \* how many test cases each has
    Faults,      \* bound: workers that die or raise, and judges that exit
    Aborts       \* bound: terminate-submission and disconnect packets

ASSUME GradingAssumption ==
    /\ Submissions \in Nat
    /\ Cases \in [1 .. Submissions -> Nat]
    /\ Faults \in Nat
    /\ Aborts \in Nat

\* The bridge numbers its submissions as it sends them.
Subs == 1 .. Submissions
NoSub == 0

VARIABLES
    judge,      \* the controller process: "up" or "gone"
    net,        \* [pc, sub]: where the network thread is, and for whom
    lock,       \* _grading_lock is held
    current,    \* the submission of current_judge_worker
    ready,      \* submissions whose ipc_ready_signal is set
    thread,     \* where each grading thread is
    worker,     \* where each worker's main thread is
    listener,   \* the worker's _ipc_recv_thread
    killed,     \* workers that were sent SIGKILL
    aborting,   \* workers with _abort_requested
    graded,     \* cases each worker has graded
    up, down,   \* what is in the pipe, from and to each worker
    sent,       \* the packets sent for each submission
    reached,    \* submissions that were current when an abort or a disconnect came
    faults, aborts

vars == <<judge, net, lock, current, ready, thread, worker, listener, killed,
          aborting, graded, up, down, sent, reached, faults, aborts>>

workerVars == <<worker, listener, aborting, graded>>
controlVars == <<judge, net, lock, current, ready, thread>>

Message(kind, n) == [kind |-> kind, n |-> n]
Ends == {"COMPILE_ERROR", "GRADING_END", "GRADING_ABORTED", "INTERNAL_ERROR"}
Kinds == Ends \cup {"HELLO", "BYE", "COMPILE_MESSAGE", "RESULT", "GRADING_BEGIN",
                  "UNHANDLED_EXCEPTION", "REQUEST_ABORT"}
Messages == [kind : Kinds, n : Nat]

Alive(s) == worker[s] \notin {"none", "dead"}

\* The process is gone, with its threads, its memory and its end of the pipe.
End(s) ==
    /\ worker' = [worker EXCEPT ![s] = "dead"]
    /\ listener' = [listener EXCEPT ![s] = "off"]
    /\ aborting' = aborting \ {s}
    /\ graded' = [graded EXCEPT ![s] = 0]
    /\ killed' = killed \ {s}
    /\ down' = [down EXCEPT ![s] = <<>>]

Init ==
    /\ judge = "up"
    /\ net = [pc |-> "idle", sub |-> NoSub]
    /\ lock = FALSE
    /\ current = NoSub
    /\ ready = {}
    /\ thread = [s \in Subs |-> "none"]
    /\ worker = [s \in Subs |-> "none"]
    /\ listener = [s \in Subs |-> "off"]
    /\ killed = {}
    /\ aborting = {}
    /\ graded = [s \in Subs |-> 0]
    /\ up = [s \in Subs |-> <<>>]
    /\ down = [s \in Subs |-> <<>>]
    /\ sent = [s \in Subs |-> <<>>]
    /\ reached = {}
    /\ faults = Faults
    /\ aborts = Aborts

-------------------------------------------------------------------------------
(* The controller's network thread *)

At(pc, s) == judge = "up" /\ net = [pc |-> pc, sub |-> s]
Goto(pc, s) == net' = [pc |-> pc, sub |-> s]

\* A submission-request: begin_grading asks for the lock.
Request(s) ==
    /\ At("idle", NoSub)
    /\ thread[s] = "none"
    /\ \A t \in Subs : t < s => thread[t] # "none"
    /\ Goto("begin", s)
    /\ UNCHANGED <<judge, lock, current, ready, thread, workerVars, killed, up,
                   down, sent, reached, faults, aborts>>

\* A lock taken only to find out that it is free.
BeginGradingUnlocked(s) == 
    /\ At("begin", s)
    /\ ~lock
    /\ current' = s
    /\ worker' = [worker EXCEPT ![s] = "hello"]
    /\ thread' = [thread EXCEPT ![s] = "receive"]
    /\ Goto("handshake", s)
    /\ UNCHANGED <<judge, lock, ready, listener, aborting, graded, killed, up,
                   down, sent, reached, faults, aborts>>

\* begin_grading with the lock: the worker process and the grading thread
\* start.
BeginGrading(s) ==
    /\ At("begin", s)
    /\ ~lock
    /\ lock' = TRUE
    /\ current' = s
    /\ worker' = [worker EXCEPT ![s] = "hello"]
    /\ thread' = [thread EXCEPT ![s] = "receive"]
    /\ Goto("handshake", s)
    /\ UNCHANGED <<judge, ready, listener, aborting, graded, killed, up, down,
                   sent, reached, faults, aborts>>

\* ipc_ready_signal.wait() returns, and with it begin_grading.
Begun(s) ==
    /\ At("handshake", s)
    /\ s \in ready
    /\ Goto("idle", NoSub)
    /\ UNCHANGED <<judge, lock, current, ready, thread, workerVars, killed, up,
                   down, sent, reached, faults, aborts>>

\* abort_grading: a request goes to the current worker, and it is waited for.
\* A worker that is already gone cannot be written to; the error is logged.
RequestAbort(pc) ==
    /\ down' = IF Alive(current)
               THEN [down EXCEPT ![current] = Append(@, Message("REQUEST_ABORT", 0))]
               ELSE down
    /\ reached' = reached \cup {current}
    /\ Goto(pc, current)

Spend ==
    /\ At("idle", NoSub)
    /\ aborts > 0
    /\ aborts' = aborts - 1

\* A terminate-submission packet, while something is graded.  packet.py calls
\* abort_grading without the submission the bridge named, so that whatever is
\* current is aborted, and the branch of abort_grading for a request that comes
\* too late is dead.
AbortGrading ==
    /\ Spend
    /\ current # NoSub
    /\ RequestAbort("join")
    /\ UNCHANGED <<judge, lock, current, ready, thread, workerVars, killed, up,
                   sent, faults>>

\* A disconnect packet: the judge stops reading, aborts and exits.
Disconnect ==
    /\ Spend
    /\ IF current = NoSub
       THEN judge' = "gone" /\ UNCHANGED <<net, down, reached>>
       ELSE RequestAbort("leave") /\ UNCHANGED judge
    /\ UNCHANGED <<lock, current, ready, thread, workerVars, killed, up, sent,
                   faults>>

\* wait_with_timeout: the worker ends, or IPC_TIMEOUT passes and it is killed.
Joined(s) == killed' = IF Alive(s) THEN killed \cup {s} ELSE killed

AbortJoined(s) ==
    /\ At("join", s)
    /\ Joined(s)
    /\ Goto("idle", NoSub)
    /\ UNCHANGED <<judge, lock, current, ready, thread, workerVars, up, down,
                   sent, reached, faults, aborts>>

Leave(s) ==
    /\ At("leave", s)
    /\ Joined(s)
    /\ judge' = "gone"
    /\ UNCHANGED <<net, lock, current, ready, thread, workerVars, up, down,
                   sent, reached, faults, aborts>>

-------------------------------------------------------------------------------
(* A grading thread *)

Thread(s, from, to) ==
    /\ judge = "up"
    /\ thread[s] = from
    /\ thread' = [thread EXCEPT ![s] = to]

Send(s, m) == sent' = [sent EXCEPT ![s] = Append(@, m)]
InternalError(s) == Send(s, Message("INTERNAL_ERROR", 0))

\* The next message of the worker, through ipc_handler_dispatch.
Relay(s) ==
    /\ Thread(s, "receive", "receive")
    /\ up[s] # <<>>
    /\ Head(up[s]).kind # "BYE"
    /\ up' = [up EXCEPT ![s] = Tail(@)]
    /\ CASE Head(up[s]).kind = "HELLO" -> ready' = ready \cup {s} /\ UNCHANGED sent
         [] Head(up[s]).kind = "UNHANDLED_EXCEPTION" ->
                InternalError(s) /\ UNCHANGED ready
         [] OTHER -> Send(s, Head(up[s])) /\ UNCHANGED ready
    /\ UNCHANGED <<judge, net, lock, current, workerVars, killed, down, reached,
                   faults, aborts>>

\* BYE is answered, which fails if the worker died after it had sent it.
Bye(s) ==
    /\ Thread(s, "receive", "wait")
    /\ up[s] # <<>>
    /\ Head(up[s]).kind = "BYE"
    /\ up' = [up EXCEPT ![s] = Tail(@)]
    /\ IF Alive(s)
       THEN /\ down' = [down EXCEPT ![s] = Append(@, Message("BYE", 0))]
            /\ UNCHANGED sent
       ELSE InternalError(s) /\ UNCHANGED down
    /\ UNCHANGED <<judge, net, lock, current, ready, workerVars, killed, reached,
                   faults, aborts>>

\* The grading thread ends without a word.
LoseWorkerSilently(s) ==
    /\ Thread(s, "receive", "wait")
    /\ up[s] = <<>>
    /\ killed' = IF Alive(s) THEN killed \cup {s} ELSE killed
    /\ UNCHANGED <<judge, net, lock, current, ready, workerVars, up, down,
                   reached, sent, faults, aborts>>

\* The pipe is silent: for good because the worker is dead, or for longer than
\* communicate waits, and then the worker is killed.
LoseWorker(s) ==
    /\ Thread(s, "receive", "wait")
    /\ up[s] = <<>>
    /\ killed' = IF Alive(s) THEN killed \cup {s} ELSE killed
    /\ InternalError(s)
    /\ UNCHANGED <<judge, net, lock, current, ready, workerVars, up, down,
                   reached, faults, aborts>>

\* The finally clause of _grading_thread_main, statement by statement.
WaitWorker(s) ==
    /\ Thread(s, "wait", "clear")
    /\ Joined(s)
    /\ UNCHANGED <<judge, net, lock, current, ready, workerVars, up, down,
                   sent, reached, faults, aborts>>

ClearWorker(s) ==
    /\ Thread(s, "clear", "signal")
    /\ current' = NoSub
    /\ UNCHANGED <<judge, net, lock, ready, workerVars, killed, up, down, sent,
                   reached, faults, aborts>>

\* The signal is left to HELLO.
SignalNothing(s) ==
    /\ Thread(s, "signal", "release")
    /\ UNCHANGED <<judge, net, lock, current, ready, workerVars, killed, up,
                   down, sent, reached, faults, aborts>>

SignalReady(s) ==
    /\ Thread(s, "signal", "release")
    /\ ready' = ready \cup {s}
    /\ UNCHANGED <<judge, net, lock, current, workerVars, killed, up, down,
                   sent, reached, faults, aborts>>

Release(s) ==
    /\ Thread(s, "release", "done")
    /\ lock' = FALSE
    /\ UNCHANGED <<judge, net, current, ready, workerVars, killed, up, down,
                   sent, reached, faults, aborts>>

-------------------------------------------------------------------------------
(* A worker process *)

\* The main thread at `from' sends m and goes on to `to'.  When the controller
\* is gone the write fails, and BrokenPipeError ends the grading.
Works(s, from) == worker[s] = from /\ s \notin killed

Tell(s, m, to) ==
    IF judge = "up"
    THEN /\ up' = [up EXCEPT ![s] = Append(@, m)]
         /\ worker' = [worker EXCEPT ![s] = to]
    ELSE /\ worker' = [worker EXCEPT ![s] = "drain"]
         /\ UNCHANGED up

Hello(s) ==
    /\ Works(s, "hello")
    /\ Tell(s, Message("HELLO", 0), "compile")
    /\ listener' = [listener EXCEPT ![s] = IF judge = "up" THEN "on" ELSE @]
    /\ UNCHANGED <<controlVars, killed, aborting, graded, down, sent, reached,
                   faults, aborts>>

\* _grade_cases up to the first case: the grader's constructor compiles, and
\* may leave a warning.
Compile(s) ==
    /\ \/ /\ Works(s, "compile")
          /\ \/ Tell(s, Message("COMPILE_ERROR", 0), "bye")
             \/ Tell(s, Message("COMPILE_MESSAGE", 0), "begin")
             \/ Tell(s, Message("GRADING_BEGIN", 0), "grade")
       \/ /\ Works(s, "begin")
          /\ Tell(s, Message("GRADING_BEGIN", 0), "grade")
    /\ UNCHANGED <<controlVars, killed, listener, aborting, graded, down, sent,
                   reached, faults, aborts>>

\* The abort flag belongs to the judge, and outlives the worker.
GradeCaseOldFlag(s) ==
    /\ Works(s, "grade")
    /\ graded[s] < Cases[s]
    /\ graded' = [graded EXCEPT ![s] = @ + 1]
    /\ IF reached # {}
       THEN Tell(s, Message("GRADING_ABORTED", 0), "bye")
       ELSE Tell(s, Message("RESULT", graded[s] + 1), "grade")
    /\ UNCHANGED <<controlVars, killed, listener, aborting, down, sent, reached,
                   faults, aborts>>

\* The result of an aborted case is sent like any other.
GradeCaseAnyway(s) ==
    /\ Works(s, "grade")
    /\ graded[s] < Cases[s]
    /\ graded' = [graded EXCEPT ![s] = @ + 1]
    /\ IF s \in aborting /\ graded[s] + 1 < Cases[s]
       THEN Tell(s, Message("GRADING_END", 0), "bye")
       ELSE Tell(s, Message("RESULT", graded[s] + 1), "grade")
    /\ UNCHANGED <<controlVars, killed, listener, aborting, down, sent, reached,
                   faults, aborts>>

\* A case is graded; what came of it counts for nothing after an abort.  The
\* code looks at the flag after grading, so that a case that is skipped by
\* short-circuiting does not see it; here any next case does.
GradeCase(s) ==
    /\ Works(s, "grade")
    /\ graded[s] < Cases[s]
    /\ graded' = [graded EXCEPT ![s] = @ + 1]
    /\ IF s \in aborting
       THEN Tell(s, Message("GRADING_ABORTED", 0), "bye")
       ELSE Tell(s, Message("RESULT", graded[s] + 1), "grade")
    /\ UNCHANGED <<controlVars, killed, listener, aborting, down, sent, reached,
                   faults, aborts>>

EndGrading(s) ==
    /\ Works(s, "grade")
    /\ graded[s] = Cases[s]
    /\ Tell(s, Message("GRADING_END", 0), "bye")
    /\ UNCHANGED <<controlVars, killed, listener, aborting, graded, down, sent,
                   reached, faults, aborts>>

\* The grader raises: _report_unhandled_exception.
Raise(s) ==
    /\ Works(s, "compile") \/ Works(s, "begin") \/ Works(s, "grade")
    /\ faults > 0
    /\ faults' = faults - 1
    /\ Tell(s, Message("UNHANDLED_EXCEPTION", 0), "bye")
    /\ UNCHANGED <<controlVars, killed, listener, aborting, graded, down, sent,
                   reached, aborts>>

SayBye(s) ==
    /\ Works(s, "bye")
    /\ Tell(s, Message("BYE", 0), "drain")
    /\ UNCHANGED <<controlVars, killed, listener, aborting, graded, down, sent,
                   reached, faults, aborts>>

\* ipc_recv_thread.join(timeout=IPC_TIMEOUT), and the process ends.
Drain(s) ==
    /\ Works(s, "drain")
    /\ End(s)
    /\ UNCHANGED <<controlVars, up, sent, reached, faults, aborts>>

\* A controller that hung up ends the listener, and nothing else.
ListenOnly(s) ==
    /\ listener[s] = "on"
    /\ s \notin killed
    /\ \/ /\ down[s] # <<>>
          /\ down' = [down EXCEPT ![s] = Tail(@)]
          /\ IF Head(down[s]).kind = "BYE"
             THEN listener' = [listener EXCEPT ![s] = "off"] /\ UNCHANGED aborting
             ELSE aborting' = aborting \cup {s} /\ UNCHANGED listener
       \/ /\ down[s] = <<>>
          /\ judge = "gone"
          /\ listener' = [listener EXCEPT ![s] = "off"]
          /\ UNCHANGED <<down, aborting>>
    /\ UNCHANGED <<controlVars, killed, worker, graded, up, sent, reached,
                   faults, aborts>>

\* _ipc_recv_thread_main: BYE ends it, REQUEST_ABORT or a controller that
\* hung up aborts.
Listen(s) ==
    /\ listener[s] = "on"
    /\ s \notin killed
    /\ \/ /\ down[s] # <<>>
          /\ down' = [down EXCEPT ![s] = Tail(@)]
          /\ IF Head(down[s]).kind = "BYE"
             THEN listener' = [listener EXCEPT ![s] = "off"] /\ UNCHANGED aborting
             ELSE aborting' = aborting \cup {s} /\ UNCHANGED listener
       \/ /\ down[s] = <<>>
          /\ judge = "gone"
          /\ aborting' = aborting \cup {s}
          /\ listener' = [listener EXCEPT ![s] = "off"]
          /\ UNCHANGED down
    /\ UNCHANGED <<controlVars, killed, worker, graded, up, sent, reached,
                   faults, aborts>>

\* SIGKILL arrives.
Die(s) ==
    /\ s \in killed
    /\ End(s)
    /\ UNCHANGED <<controlVars, up, sent, reached, faults, aborts>>

-------------------------------------------------------------------------------
(* The environment *)

\* A worker dies by itself, for want of memory say.
Crash(s) ==
    /\ Alive(s)
    /\ s \notin killed
    /\ faults > 0
    /\ faults' = faults - 1
    /\ End(s)
    /\ UNCHANGED <<controlVars, up, sent, reached, aborts>>

\* The controller ends, with os._exit after a failed write.
Exit ==
    /\ judge = "up"
    /\ faults > 0
    /\ faults' = faults - 1
    /\ judge' = "gone"
    /\ UNCHANGED <<net, lock, current, ready, thread, workerVars, killed, up,
                   down, sent, reached, aborts>>

Network ==
    \/ \E s \in Subs : \/ Request(s) \/ BeginGrading(s) \/ Begun(s)
                      \/ AbortJoined(s) \/ Leave(s)
    \/ AbortGrading \/ Disconnect

GradingThread(s) ==
    \/ Relay(s) \/ Bye(s) \/ LoseWorker(s)
    \/ WaitWorker(s) \/ ClearWorker(s) \/ SignalReady(s) \/ Release(s)

WorkerMain(s) ==
    \/ Hello(s) \/ Compile(s) \/ GradeCase(s) \/ EndGrading(s)
    \/ SayBye(s) \/ Drain(s)

Next ==
    \/ Network
    \/ \E s \in Subs : GradingThread(s) \/ WorkerMain(s) \/ Listen(s) \/ Die(s)
    \/ \E s \in Subs : Raise(s) \/ Crash(s)
    \/ Exit

\* The controller's threads run, its timers fire and a killed process dies.
\* Nothing is asked of the worker's grading: it may hang.
Fairness ==
    /\ \A s \in Subs :
         /\ WF_vars(BeginGrading(s)) /\ WF_vars(Begun(s)) /\ WF_vars(AbortJoined(s))
         /\ WF_vars(Leave(s))
         /\ WF_vars(GradingThread(s))
         /\ WF_vars(Listen(s)) /\ WF_vars(Die(s))

Spec == Init /\ [][Next]_vars /\ Fairness

-------------------------------------------------------------------------------
(* Properties *)

\* The variables have their types.
TypeOK ==
    /\ judge \in {"up", "gone"}
    /\ net \in [pc : {"idle", "begin", "handshake", "join", "leave"}, sub : Subs \cup {NoSub}]
    /\ lock \in BOOLEAN
    /\ current \in Subs \cup {NoSub}
    /\ ready \subseteq Subs /\ killed \subseteq Subs /\ aborting \subseteq Subs
    /\ reached \subseteq Subs
    /\ thread \in [Subs -> {"none", "receive", "wait", "clear", "signal",
                            "release", "done"}]
    /\ worker \in [Subs -> {"none", "hello", "compile", "begin", "grade", "bye",
                            "drain", "dead"}]
    /\ listener \in [Subs -> {"off", "on"}]
    /\ graded \in [Subs -> Nat] /\ \A s \in Subs : graded[s] <= Cases[s]
    /\ up \in [Subs -> Seq(Messages)]
    /\ down \in [Subs -> Seq(Messages)]
    /\ sent \in [Subs -> Seq(Messages)]
    /\ faults \in Nat /\ aborts \in Nat

\* One submission at a time (judge.py:116): the assertion of begin_grading
\* holds whenever the lock is free, and no worker runs on, unkilled, into
\* the next submission's grading.
OneAtATime ==
    /\ ~lock => current = NoSub
    /\ \A s, t \in Subs :
         worker[s] # "none" /\ worker[t] # "none" /\ s # t =>
           ~ (Alive(s) /\ s \notin killed /\ Alive(t) /\ t \notin killed)

\* A grading's packets tell its story once: nothing but an internal error
\* follows its end, and grading-end follows the results of all its cases in
\* order.
Position(q, kind) == {i \in DOMAIN q : q[i].kind = kind}

StoryOnce ==
    \A s \in Subs : LET q == sent[s] IN
      /\ \A i, j \in DOMAIN q :
           i < j /\ q[i].kind \in Ends => q[j].kind = "INTERNAL_ERROR"
      /\ \A i \in Position(q, "GRADING_END") :
           [k \in 1 .. Cases[s] |-> k] =
             [k \in 1 .. Cardinality(Position(q, "RESULT")) |->
                LET r == {j \in Position(q, "RESULT") :
                            Cardinality({m \in Position(q, "RESULT") : m <= j}) = k}
                IN q[CHOOSE j \in r : TRUE].n]

\* A grading is reported as aborted only if an abort or a disconnect arrived
\* while it was the current one (judge.py:245-261): an abort of one submission
\* never ends the next one.  Whether it is the one the bridge meant is not
\* said: packet.py:279 drops the id.
AbortedWhenReached ==
    \A s \in Subs : Position(sent[s], "GRADING_ABORTED") # {} => s \in reached

\* A grading that is over has been told an end, so that the bridge can answer.
EveryGradingEnds ==
    \A s \in Subs : thread[s] = "done" => \E i \in DOMAIN sent[s] : sent[s][i].kind \in Ends

\* Whatever the worker does, the judge is free again after a grading, unless
\* it ends: the lock is released and the network thread reads on.
FreesJudge ==
    (judge = "up" /\ (lock \/ net.pc # "idle")) ~>
        (judge = "gone" \/ (~lock /\ net.pc = "idle"))

\* A worker does not go on grading for a judge that is gone: it learns of it
\* and is aborted, however the end of the judge falls into its work.
OrphansAbort ==
    \A s \in Subs :
        (judge = "gone" /\ worker[s] = "grade") ~> (s \in aborting \/ worker[s] # "grade")
===============================================================================
