-------------------------------- MODULE Arena --------------------------------
(***************************************************************************)
(* The bridge of the backend together with one judge: Bridge's actions,    *)
(* each joined with what it does to the two byte streams of a connection,  *)
(* and the judge process at the other end (dmoj/packet.py, dmoj/judge.py). *)
(*                                                                         *)
(* The judge process has a network thread (it connects, reads, reconnects  *)
(* and starts gradings), a grading thread (it relays what the worker       *)
(* process finds) and a thread that flushes queued case results.  The last *)
(* two write to whatever connection the network thread holds.              *)
(***************************************************************************)
EXTENDS Bridge, FiniteSets

CONSTANTS
    JudgeName,  \* the judge's id
    Plan,       \* what grading a call's source finds: its cases and its end
    Budget,     \* bounds: how often each kind of fault, and any, happens
    NoWork

\* How a grading ends.
Ends == {"grading-end", "compile-error", "internal-error"}

\* What the judge reads, and what it knows of the submission it grades.
Messages == [kind : {"handshake-success", "submission-request"}, id : Ids,
             call : Calls \cup {NoCall}]
Gradings == [id : Ids, call : Calls, left : Seq(Cases), end : Ends \cup {"sent"}]

ASSUME ArenaAssumption ==
    /\ JudgeName \in JudgeIds
    /\ Plan \in [Calls -> [cases : Seq(Cases), end : Ends]]
    /\ Budget \in [idle : Nat, break : Nat, crash : Nat, restart : Nat, any : Nat]
    /\ NoWork \notin Messages \cup Gradings

VARIABLES
    link,      \* each connection, as the judge's end of it is
    toBridge,  \* packets on their way to the bridge
    toJudge,   \* packets on their way to the judge
    net,       \* where the network thread is
    conn,      \* self.conn of the PacketManager
    input,     \* the connection self.input reads from, and keeps open
    inbox,     \* the submission begin_grading waits to start
    grading,   \* the submission being graded
    queue,     \* self._testcase_queue
    budget     \* the faults that may still happen

judgeVars == <<link, toBridge, toJudge, net, conn, input, inbox, grading,
               queue, budget>>

arenaVars == <<vars, judgeVars>>

ArenaInit ==
    /\ Init
    /\ link = [c \in Conns |-> "unused"]
    /\ toBridge = [c \in Conns |-> <<>>]
    /\ toJudge = [c \in Conns |-> <<>>]
    /\ net = "down"
    /\ conn = NoConn
    /\ input = NoConn
    /\ inbox = NoWork
    /\ grading = NoWork
    /\ queue = <<>>
    /\ budget = Budget

Spend(f) ==
    /\ budget[f] > 0
    /\ budget.any > 0
    /\ budget' = [budget EXCEPT ![f] = @ - 1, !.any = @ - 1]

Packet(kind, i, cs) == [kind |-> kind, id |-> i, cases |-> cs]

-------------------------------------------------------------------------------
(* The judge's network thread *)

\* os._exit(1), or a crash: the sockets close and everything in memory is
\* gone.  Docker restarts the judge, and Connect is the first thing it does.
Exit ==
    /\ link' = [c \in Conns |-> IF c \in {conn, input} /\ link[c] = "open"
                                THEN "closed" ELSE link[c]]
    /\ toJudge' = [c \in Conns |-> IF c \in {conn, input} THEN <<>> ELSE toJudge[c]]
    /\ net' = "down"
    /\ conn' = NoConn
    /\ input' = NoConn
    /\ inbox' = NoWork
    /\ grading' = NoWork
    /\ queue' = <<>>

\* _send_packet by any thread.  `sent' is what the sender does next; a write
\* that fails ends the process.  Over a connection of which either end is gone
\* a write fails, or is the first since then: it succeeds and its packet is
\* lost.  Over one that _reconnect has dropped packets still go through.
SendPacket(p, sent) ==
    \/ /\ toBridge' = IF link[conn] = "open" /\ ~closed[conn]
                      THEN [toBridge EXCEPT ![conn] = Append(@, p)]
                      ELSE toBridge
       /\ sent
    \/ /\ link[conn] # "open" \/ closed[conn]
       /\ Exit
       /\ UNCHANGED <<toBridge, budget>>

\* _connect up to the handshake: self.conn and self.input are the new
\* connection, and the old one closes now that nothing reads from it.
Connect(c) ==
    /\ net \in {"down", "dropped"}
    /\ link[c] = "unused"
    /\ \A d \in Conns : d # c /\ link[d] = "unused" => link[c] = "unused"
    /\ link' = [d \in Conns |-> IF d = c THEN "open"
                                ELSE IF d = input /\ link[d] = "open" THEN "closed"
                                ELSE link[d]]
    /\ toJudge' = [d \in Conns |-> IF d = input THEN <<>> ELSE toJudge[d]]
    /\ conn' = c
    /\ input' = c
    /\ net' = "hello"
    /\ UNCHANGED <<vars, toBridge, inbox, grading, queue, budget>>

Hello ==
    /\ net = "hello"
    /\ SendPacket(Packet("handshake", 0, <<>>),
                  /\ net' = "awaiting"
                  /\ UNCHANGED <<link, toJudge, conn, input, inbox, grading,
                                 queue, budget>>)
    /\ UNCHANGED vars

\* The next thing the judge reads from its connection.
Reads(kind) == toJudge[input] # <<>> /\ Head(toJudge[input]).kind = kind

Consume == toJudge' = [toJudge EXCEPT ![input] = Tail(@)]

Welcome ==
    /\ net = "awaiting"
    /\ Reads("handshake-success")
    /\ Consume
    /\ net' = "reading"
    /\ UNCHANGED <<vars, link, toBridge, conn, input, inbox, grading, queue,
                   budget>>

\* submission-request.  The acknowledgement that follows it changes nothing
\* in the bridge and is left out.
ReadRequest ==
    /\ net = "reading"
    /\ Reads("submission-request")
    /\ Consume
    /\ inbox' = Head(toJudge[input])
    /\ net' = "begin"
    /\ UNCHANGED <<vars, link, toBridge, conn, input, grading, queue, budget>>

\* begin_grading does not wait for the grading lock.
BeginGradingAtOnce ==
    /\ net = "begin"
    /\ grading' = [id |-> inbox.id, call |-> inbox.call,
                   left |-> Plan[inbox.call].cases, end |-> Plan[inbox.call].end]
    /\ inbox' = NoWork
    /\ net' = "reading"
    /\ UNCHANGED <<vars, link, toBridge, toJudge, conn, input, queue, budget>>

\* begin_grading: once the grading lock is free the worker starts.
BeginGrading ==
    /\ net = "begin"
    /\ grading = NoWork
    /\ grading' = [id |-> inbox.id, call |-> inbox.call,
                   left |-> Plan[inbox.call].cases, end |-> Plan[inbox.call].end]
    /\ inbox' = NoWork
    /\ net' = "reading"
    /\ UNCHANGED <<vars, link, toBridge, toJudge, conn, input, queue, budget>>

\* _reconnect: conn.close(), which leaves the socket open, and fit for writing,
\* as long as self.input reads from it; and a sleep of at least four seconds.
Drop ==
    /\ net' = "dropped"
    /\ UNCHANGED <<vars, link, toBridge, toJudge, conn, input, inbox, grading,
                   queue>>

\* Nothing more to read: the bridge closed the connection, or it broke.
ReadLost ==
    /\ net \in {"awaiting", "reading"}
    /\ \/ link[input] = "broken"
       \/ closed[input] /\ toJudge[input] = <<>>
    /\ Drop
    /\ UNCHANGED budget

\* settimeout(300) runs out; the bridge has nothing to send between two
\* submissions, and never pings.
IdleTimeout ==
    /\ net = "reading"
    /\ toJudge[input] = <<>>
    /\ Spend("idle")
    /\ Drop

-------------------------------------------------------------------------------
(* The grading thread, its worker, and the flush thread *)

\* The worker finds the result of a case and the grading thread queues it.
GradeCase ==
    /\ grading # NoWork
    /\ grading.left # <<>>
    /\ queue' = Append(queue, Head(grading.left))
    /\ grading' = [grading EXCEPT !.left = Tail(@)]
    /\ UNCHANGED <<vars, link, toBridge, toJudge, net, conn, input, inbox, budget>>

\* _flush_testcase_queue, by the flush thread or before another packet.
Flush ==
    /\ queue # <<>>
    /\ SendPacket(Packet("test-case-status", grading.id, queue),
                  /\ queue' = <<>>
                  /\ UNCHANGED <<link, toJudge, net, conn, input, inbox, grading,
                                 budget>>)
    /\ UNCHANGED vars

\* grading-end goes out before what is queued.
EndGradingUnflushed ==
    /\ grading # NoWork
    /\ grading.left = <<>>
    /\ grading.end # "sent"
    /\ SendPacket(Packet(grading.end, grading.id, <<>>),
                  /\ grading' = [grading EXCEPT !.end = "sent"]
                  /\ UNCHANGED <<link, toJudge, net, conn, input, inbox, queue,
                                 budget>>)
    /\ UNCHANGED vars

\* grading-end, compile-error or internal-error, after the flush.
EndGrading ==
    /\ grading # NoWork
    /\ grading.left = <<>>
    /\ queue = <<>>
    /\ grading.end # "sent"
    /\ SendPacket(Packet(grading.end, grading.id, <<>>),
                  /\ grading' = [grading EXCEPT !.end = "sent"]
                  /\ UNCHANGED <<link, toJudge, net, conn, input, inbox, queue,
                                 budget>>)
    /\ UNCHANGED vars

\* The worker has exited; current_judge_worker is None and the lock free.
Teardown ==
    /\ grading # NoWork
    /\ grading.end = "sent"
    /\ queue = <<>>
    /\ grading' = NoWork
    /\ UNCHANGED <<vars, link, toBridge, toJudge, net, conn, input, inbox, queue,
                   budget>>

-------------------------------------------------------------------------------
(* The bridge's end of the connections *)

\* The next packet the bridge reads from c.
Comes(c, kind) == toBridge[c] # <<>> /\ Head(toBridge[c]).kind = kind

Pop(c) == toBridge' = [toBridge EXCEPT ![c] = Tail(@)]

\* The bridge has read everything the judge wrote before it closed.
Eof(c) ==
    \/ link[c] = "broken"
    \/ /\ link[c] = "closed"
       /\ toBridge[c] = <<>>

\* A packet of the bridge reaches the judge unless its end has closed.
Post(c, p) == toJudge' = IF link[c] = "open"
                         THEN [toJudge EXCEPT ![c] = Append(@, p)]
                         ELSE toJudge

judgeProcess == <<link, net, conn, input, inbox, grading, queue, budget>>

BridgeAccept(c) == link[c] # "unused" /\ Accept(c) /\ UNCHANGED judgeVars

BridgeHandshake(c) ==
    /\ Comes(c, "handshake")
    /\ Handshake(c, JudgeName)
    /\ Pop(c)
    /\ UNCHANGED <<judgeProcess, toJudge>>

BridgeReject(c) ==
    /\ \/ toBridge[c] # <<>> /\ ~Comes(c, "handshake")
       \/ Eof(c)
    /\ HandshakeReject(c)
    /\ toBridge' = [toBridge EXCEPT ![c] = <<>>]
    /\ UNCHANGED <<judgeProcess, toJudge>>

BridgeGreet(c) ==
    \/ /\ Greet(c)
       /\ Post(c, [kind |-> "handshake-success", id |-> 0, call |-> NoCall])
       /\ UNCHANGED <<judgeProcess, toBridge>>
    \/ /\ link[c] # "open"
       /\ GreetError(c)
       /\ toBridge' = [toBridge EXCEPT ![c] = <<>>]
       /\ UNCHANGED <<judgeProcess, toJudge>>

BridgeRecvError(c) ==
    /\ Eof(c) \/ closed[c]
    /\ RecvError(c)
    /\ toBridge' = [toBridge EXCEPT ![c] = <<>>]
    /\ UNCHANGED <<judgeProcess, toJudge>>

BridgePacket(c) ==
    /\ toBridge[c] # <<>>
    /\ LET p == Head(toBridge[c]) IN
       \/ /\ p.kind = "test-case-status"
          /\ TestCaseStatus(c, p.id, p.cases)
       \/ /\ p.kind = "grading-end"
          /\ GradingEnd(c, p.id)
       \/ /\ p.kind = "compile-error"
          /\ Ended(c, p.id, "CE")
       \/ /\ p.kind = "internal-error"
          /\ Ended(c, p.id, "IE")
    /\ Pop(c)
    /\ UNCHANGED <<judgeProcess, toJudge>>

BridgeSend(k) ==
    \/ /\ SubmitSend(k)
       /\ Post(target[k], [kind |-> "submission-request", id |-> subID[k],
                           call |-> k])
       /\ UNCHANGED <<judgeProcess, toBridge>>
    \/ /\ call[k] = "stored"
       /\ closed[target[k]] \/ link[target[k]] # "open"
       /\ SubmitSendError(k)
       /\ UNCHANGED judgeVars

\* What a Submit call does once it is made.
BridgeCall(k) ==
    \/ BridgeSend(k)
    \/ /\ \/ SubmitStore(k)
          \/ SubmitReceive(k)
          \/ SubmitTimeout(k)
       /\ UNCHANGED judgeVars

\* The rest of what the bridge does without the judge.
BridgeAlone ==
    /\ \/ \E k \in Calls : SubmitPick(k) \/ SubmitNoJudge(k) \/ Expire(k)
       \/ \E c \in Conns : \/ Register(c)
                           \/ Deregister(c)
                           \/ AppendLoad(c)
                           \/ AppendStore(c)
                           \/ FinalizeSum(c)
    /\ UNCHANGED judgeVars

-------------------------------------------------------------------------------
(* Faults *)

\* The judge process dies.
Crash ==
    /\ net # "down"
    /\ Spend("crash")
    /\ Exit
    /\ UNCHANGED <<vars, toBridge>>

\* The network loses a connection, with what is under way on it.
Break(c) ==
    /\ link[c] = "open"
    /\ Spend("break")
    /\ link' = [link EXCEPT ![c] = "broken"]
    /\ toBridge' = [toBridge EXCEPT ![c] = <<>>]
    /\ toJudge' = [toJudge EXCEPT ![c] = <<>>]
    /\ UNCHANGED <<vars, net, conn, input, inbox, grading, queue>>

\* The backend dies and is started again.  Its HTTP requests die with it;
\* connections close; New counts submissions from 1 again.
RestartBackend ==
    /\ Spend("restart")
    /\ pc' = [c \in Conns |-> IF link[c] = "unused" THEN "idle" ELSE "gone"]
    /\ closed' = [c \in Conns |-> link[c] # "unused"]
    /\ toBridge' = [c \in Conns |-> <<>>]
    /\ name' = [c \in Conns |-> NoName]
    /\ judges' = [n \in JudgeIds |-> NoConn]
    /\ todo' = [c \in Conns |-> [id |-> 0, cases |-> <<>>]]
    /\ box' = [c \in Conns |-> NoBox]
    /\ seen' = [c \in Conns |-> <<>>]
    /\ caseResults' = [i \in Ids |-> NoBox]
    /\ heap' = [b \in Boxes |-> <<>>]
    /\ pending' = [i \in Ids |-> NoCall]
    /\ nextID' = 1
    /\ call' = [k \in Calls |-> IF call[k] = "new" THEN "new" ELSE "returned"]
    /\ chan' = [k \in Calls |-> NoResult]
    /\ UNCHANGED <<full, done, subID, target, expired, outcome, answer, link,
                   toJudge, net, conn, input, inbox, grading, queue>>

-------------------------------------------------------------------------------

JudgeStep ==
    \/ \E c \in Conns : Connect(c)
    \/ Hello
    \/ Welcome
    \/ ReadRequest
    \/ BeginGrading
    \/ ReadLost
    \/ IdleTimeout
    \/ GradeCase
    \/ Flush
    \/ EndGrading
    \/ Teardown

BridgeStep ==
    \/ \E k \in Calls : BridgeCall(k)
    \/ \E c \in Conns : \/ BridgeAccept(c)
                        \/ BridgeHandshake(c)
                        \/ BridgeReject(c)
                        \/ BridgeGreet(c)
                        \/ BridgeRecvError(c)
                        \/ BridgePacket(c)
    \/ BridgeAlone

ArenaNext ==
    \/ JudgeStep
    \/ BridgeStep
    \/ Crash
    \/ \E c \in Conns : Break(c)
    \/ RestartBackend

ArenaSpec ==
    /\ ArenaInit
    /\ [][ArenaNext]_arenaVars
    /\ \A k \in Calls : /\ WF_arenaVars(BridgeCall(k))
                        /\ WF_arenaVars(Expire(k) /\ UNCHANGED judgeVars)

-------------------------------------------------------------------------------
(* Properties *)

\* The verdict a call's source deserves.
TrueVerdict(k) ==
    [status |-> CASE Plan[k].end = "compile-error" -> "CE"
                  [] Plan[k].end = "internal-error" -> "IE"
                  [] OTHER -> StatusName(WorstStatus(Plan[k].cases)),
     cases |-> IF Plan[k].end = "grading-end" THEN Plan[k].cases ELSE <<>>]

Verdict(k) == [status |-> answer[k].status, cases |-> answer[k].cases]

\* The arena implements the grading service: a verdict that Submit returns is
\* about the source that was submitted, and it counts every case of it once,
\* in order; and every call is settled.
Service == INSTANCE GradingService WITH
    Truth <- [k \in Calls |-> TrueVerdict(k)],
    NoVerdict <- NoResult,
    phase <- [k \in Calls |-> CASE call[k] = "new" -> "idle"
                                [] call[k] = "returned" -> "settled"
                                [] OTHER -> "asked"],
    verdict <- [k \in Calls |-> IF answer[k] = NoResult THEN NoResult
                                ELSE Verdict(k)]

ImplementsService == Service!Spec

\* How often x occurs in the sequence s.
Count(x, s) == Cardinality({j \in DOMAIN s : s[j] = x})

\* Wherever in a grading the judge reconnects, a connection breaks or the
\* backend restarts, no case counts twice in a verdict; and as long as the
\* backend has not restarted, with its numbering from 1, only cases of the
\* call's own source count.
OwnCasesOnce ==
    \A k \in Calls : answer[k] # NoResult =>
        \A x \in Cases : \E s \in Calls :
            /\ budget.restart = Budget.restart => s = k
            /\ Count(x, answer[k].cases) <= Count(x, Plan[s].cases)

\* "Submit sends a submission to an available judge and waits for the result"
\* (bridge.go): the result is that of the submission it sent.
ResultOfOwnSubmission ==
    \A k \in Calls : answer[k] # NoResult => Verdict(k) = TrueVerdict(k)

===============================================================================
