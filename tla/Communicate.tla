----------------------------- MODULE Communicate -----------------------------
(***************************************************************************)
(* The judge talks to a process through pipes: it collects the output of   *)
(* one (utils/communicate.py), converses with it (graders/interactive.py)  *)
(* or lets it converse with an interactor process (graders/bridged.py).    *)
(*                                                                         *)
(* A pipe holds at most Capacity chunks, and who holds its ends decides    *)
(* who blocks, who reads an end of file and who gets EPIPE.  A process     *)
(* settles on its next call first and makes it when the pipe lets it.      *)
(***************************************************************************)
EXTENDS Integers, FiniteSets

CONSTANTS
    Capacity,       \* chunks in a pipe, at least 1
    Chunks,         \* bound: chunks a party writes into a pipe
    OutLimit, ErrLimit

Modes == {"standard", "interactive", "bridged"}
Pipes == {"in", "out", "err", "ierr"}    \* stdin, stdout, stderr; the interactor's stderr

VARIABLES
    mode,
    pc,             \* where the judge's thread is
    held,           \* chunks in each pipe
    readers, writers,   \* who holds its ends: "J", "P", "I"
    proc,           \* each process: "none", "fork", "run", or how it ended
    want,           \* the call each process is in
    written, got,   \* chunks written to and read from each pipe
    open, ready,    \* safe_communicate: fd2file, and what poll returned
    ole, check      \* is_ole; what the interaction came to

vars == <<mode, pc, held, readers, writers, proc, want, written, got, open,
          ready, ole, check>>

Procs == {"P", "I"}
Ended(p) == proc[p] \in {"ok", "bad", "killed"}

From(x) == CASE x = "in" -> (IF mode = "bridged" THEN "I" ELSE "J")
             [] x = "ierr" -> "I"
             [] OTHER -> "P"
To(x) == CASE x = "in" -> "P"
           [] x = "out" -> (IF mode = "bridged" THEN "I" ELSE "J")
           [] OTHER -> "J"

Init ==
    /\ mode \in Modes
    /\ pc = "launch"
    /\ held = [x \in Pipes |-> 0]
    /\ readers = [x \in Pipes |-> IF x = "ierr" THEN {} ELSE {"J"}]
    /\ writers = [x \in Pipes |-> IF x = "ierr" THEN {} ELSE {"J"}]
    /\ proc = [p \in Procs |-> "none"]
    /\ want = [p \in Procs |-> "none"]
    /\ written = [x \in Pipes |-> 0]
    /\ got = [x \in Pipes |-> 0]
    /\ open = {} /\ ready = {}
    /\ ole = FALSE
    /\ check = "none"

pipes == <<held, readers, writers, written, got>>
poller == <<open, ready>>

-------------------------------------------------------------------------------
(* Processes *)

\* fork: the child holds whatever the judge holds.
Fork(p) ==
    /\ proc' = [proc EXCEPT ![p] = "fork"]
    /\ readers' = [x \in Pipes |-> readers[x] \cup (IF "J" \in readers[x] THEN {p} ELSE {})]
    /\ writers' = [x \in Pipes |-> writers[x] \cup (IF "J" \in writers[x] THEN {p} ELSE {})]

\* dup2 and closefrom(3) in the child, whenever it gets to run.
Settle(p) ==
    /\ proc[p] = "fork"
    /\ proc' = [proc EXCEPT ![p] = "run"]
    /\ readers' = [x \in Pipes |-> IF To(x) = p THEN readers[x] ELSE readers[x] \ {p}]
    /\ writers' = [x \in Pipes |-> IF From(x) = p THEN writers[x] ELSE writers[x] \ {p}]
    /\ UNCHANGED <<mode, pc, held, want, written, got, poller, ole, check>>

Inputs(p) == {x \in Pipes : To(x) = p}
Outputs(p) == {x \in Pipes : From(x) = p}

Choose(p) ==
    /\ proc[p] = "run"
    /\ want[p] = "none"
    /\ \E x \in Inputs(p) \cup {y \in Outputs(p) : written[y] < Chunks} \cup {"exit"} :
         want' = [want EXCEPT ![p] = x]
    /\ UNCHANGED <<mode, pc, pipes, proc, poller, ole, check>>

EOF(x) == held[x] = 0 /\ writers[x] = {}

\* After an end of file or an EPIPE a program has nothing left but to end.
Read(p) ==
    /\ proc[p] = "run"
    /\ want[p] \in Inputs(p)
    /\ LET x == want[p] IN
         \/ /\ held[x] > 0
            /\ held' = [held EXCEPT ![x] = @ - 1]
            /\ got' = [got EXCEPT ![x] = @ + 1]
            /\ want' = [want EXCEPT ![p] = "none"]
         \/ /\ EOF(x)
            /\ want' = [want EXCEPT ![p] = "exit"]
            /\ UNCHANGED <<held, got>>
    /\ UNCHANGED <<mode, pc, readers, writers, proc, written, poller, ole, check>>

Write(p) ==
    /\ proc[p] = "run"
    /\ want[p] \in Outputs(p)
    /\ LET x == want[p] IN
         \/ /\ readers[x] # {} /\ held[x] < Capacity
            /\ held' = [held EXCEPT ![x] = @ + 1]
            /\ written' = [written EXCEPT ![x] = @ + 1]
            /\ want' = [want EXCEPT ![p] = "none"]
         \/ /\ readers[x] = {}
            /\ want' = [want EXCEPT ![p] = "exit"]
            /\ UNCHANGED <<held, written>>
    /\ UNCHANGED <<mode, pc, readers, writers, proc, got, poller, ole, check>>

End(p, how) ==
    /\ proc' = [proc EXCEPT ![p] = how]
    /\ want' = [want EXCEPT ![p] = "none"]
    /\ readers' = [x \in Pipes |-> readers[x] \ {p}]
    /\ writers' = [x \in Pipes |-> writers[x] \ {p}]

Exit(p) ==
    /\ proc[p] = "run"
    /\ want[p] = "exit"
    /\ \E how \in {"ok", "bad"} : End(p, how)
    /\ UNCHANGED <<mode, pc, held, written, got, poller, ole, check>>

\* The shocker of tracer.py.
WallKill(p) ==
    /\ proc[p] = "run"
    /\ End(p, "killed")
    /\ UNCHANGED <<mode, pc, held, written, got, poller, ole, check>>

-------------------------------------------------------------------------------
(* Launching *)

Drop(rs, ws) ==
    /\ readers' = [x \in Pipes |-> IF x \in rs THEN readers[x] \ {"J"} ELSE readers[x]]
    /\ writers' = [x \in Pipes |-> IF x \in ws THEN writers[x] \ {"J"} ELSE writers[x]]

Goto(next) == pc' = next

LaunchProcess ==
    /\ pc = "launch"
    /\ Fork("P")
    /\ Goto("close")
    /\ UNCHANGED <<mode, held, want, written, got, poller, ole, check>>

\* _run_process closes the child's ends of the pipes that it made itself, and
\* _launch_process of a bridged grader those it made.
CloseChildEnds ==
    /\ pc = "close"
    /\ Drop({"in"}, {"out", "err"})
    /\ Goto(IF mode = "bridged" THEN "interactor" ELSE IF mode = "interactive" THEN "talk" ELSE "poll")
    /\ open' = IF mode = "standard" THEN {"in", "out", "err"} ELSE {}
    /\ UNCHANGED <<mode, held, proc, want, written, got, ready, ole, check>>

\* The interactor gets the other ends, and a stderr of its own.
LaunchInteractor ==
    /\ pc = "interactor"
    /\ proc' = [proc EXCEPT !["I"] = "fork"]
    /\ readers' = [x \in Pipes |-> IF x = "ierr" THEN {"J", "I"}
                     ELSE readers[x] \cup (IF "J" \in readers[x] THEN {"I"} ELSE {})]
    /\ writers' = [x \in Pipes |-> IF x = "ierr" THEN {"J", "I"}
                     ELSE writers[x] \cup (IF "J" \in writers[x] THEN {"I"} ELSE {})]
    /\ Goto("closeI")
    /\ UNCHANGED <<mode, held, want, written, got, poller, ole, check>>

CloseInteractorEnds ==
    /\ pc = "closeI"
    /\ Drop({"out"}, {"in", "ierr"})
    /\ Goto("wait")
    /\ UNCHANGED <<mode, held, proc, want, written, got, poller, ole, check>>

-------------------------------------------------------------------------------
(* safe_communicate *)

CanWrite(x) == x = "in" /\ (held[x] < Capacity \/ readers[x] = {})
CanRead(x) == x # "in" /\ (held[x] > 0 \/ writers[x] = {})

\* The input first, and the output when it is written.
PollInputFirst ==
    /\ pc = "poll"
    /\ ready = {}
    /\ IF open = {}
       THEN Goto("wait") /\ UNCHANGED ready
       ELSE /\ ready' = {x \in open : CanWrite(x) \/ ("in" \notin open /\ CanRead(x))}
            /\ ready' # {}
            /\ UNCHANGED pc
    /\ UNCHANGED <<mode, pipes, proc, want, open, ole, check>>

Poll ==
    /\ pc = "poll"
    /\ ready = {}
    /\ IF open = {}
       THEN Goto("wait") /\ UNCHANGED ready
       ELSE /\ ready' = {x \in open : CanWrite(x) \/ CanRead(x)}
            /\ ready' # {}
            /\ UNCHANGED pc
    /\ UNCHANGED <<mode, pipes, proc, want, open, ole, check>>

\* A chunk of output; over its limit, the process is killed and waited for.
Take(x) ==
    /\ held[x] > 0
    /\ held' = [held EXCEPT ![x] = @ - 1]
    /\ got' = [got EXCEPT ![x] = @ + 1]
    /\ IF got[x] + 1 > (IF x = "out" THEN OutLimit ELSE ErrLimit)
       THEN ole' = TRUE /\ Goto("kill")
       ELSE UNCHANGED <<ole, pc>>
    /\ UNCHANGED <<readers, writers, written, open>>

\* The other side hung up, and what it left in the pipe is not read.
HangUpEarly(x) ==
    /\ writers[x] = {}
    /\ open' = open \ {x}
    /\ Drop({x}, {})
    /\ UNCHANGED <<held, written, got, ole, pc>>

\* The other side hung up.
HangUp(x) ==
    /\ held[x] = 0
    /\ open' = open \ {x}
    /\ Drop({x}, {})
    /\ UNCHANGED <<held, written, got, ole, pc>>

\* A chunk of input; the end of it, or EPIPE, closes the pipe.
Give(x) ==
    /\ IF readers[x] = {}
       THEN UNCHANGED <<held, written>>
       ELSE /\ held' = [held EXCEPT ![x] = @ + 1]
            /\ written' = [written EXCEPT ![x] = @ + 1]
    /\ IF readers[x] = {} \/ written[x] + 1 >= Chunks
       THEN open' = open \ {x} /\ Drop({}, {x})
       ELSE UNCHANGED <<open, readers, writers>>
    /\ UNCHANGED <<got, ole, pc>>

Handle(x) ==
    /\ pc = "poll"
    /\ x \in ready
    /\ ready' = ready \ {x}
    /\ IF x = "in" THEN Give(x) ELSE Take(x) \/ HangUp(x)
    /\ UNCHANGED <<mode, proc, want, check>>

\* StandardGrader._interact_with_process: kill, for the output limit.
KillOLE ==
    /\ pc = "kill"
    /\ IF proc["P"] \in {"fork", "run"}
       THEN End("P", "killed")
       ELSE UNCHANGED <<proc, want, readers, writers>>
    /\ Goto("wait")
    /\ UNCHANGED <<mode, held, written, got, poller, ole, check>>

-------------------------------------------------------------------------------
(* InteractiveGrader: the interactor is a function of the judge *)

Talk ==
    /\ pc = "talk"
    /\ \/ Goto("read") /\ UNCHANGED <<check, readers, writers>>
       \/ written["in"] < Chunks /\ Goto("write") /\ UNCHANGED <<check, readers, writers>>
       \/ check' = "accept" /\ Drop({}, {"in"}) /\ Goto("wait")
       \/ check' = "wrong" /\ Goto("wait") /\ UNCHANGED <<readers, writers>>
    /\ UNCHANGED <<mode, held, written, got, proc, want, poller, ole>>

\* A child that closed its stream is an IOError, which ends the conversation.
TalkRead ==
    /\ pc = "read"
    /\ \/ /\ held["out"] > 0
          /\ held' = [held EXCEPT !["out"] = @ - 1]
          /\ got' = [got EXCEPT !["out"] = @ + 1]
          /\ Goto("talk")
       \/ EOF("out") /\ Goto("wait") /\ UNCHANGED <<held, got>>
    /\ UNCHANGED <<mode, readers, writers, written, proc, want, poller, ole, check>>

TalkWrite ==
    /\ pc = "write"
    /\ \/ /\ readers["in"] # {} /\ held["in"] < Capacity
          /\ held' = [held EXCEPT !["in"] = @ + 1]
          /\ written' = [written EXCEPT !["in"] = @ + 1]
          /\ Goto("talk")
       \/ readers["in"] = {} /\ Goto("wait") /\ UNCHANGED <<held, written>>
    /\ UNCHANGED <<mode, readers, writers, got, proc, want, poller, ole, check>>

-------------------------------------------------------------------------------
(* The end *)

WaitProcess ==
    /\ pc = "wait"
    /\ Ended("P")
    /\ Goto(IF mode = "bridged" THEN "waitI" ELSE "done")
    /\ UNCHANGED <<mode, pipes, proc, want, poller, ole, check>>

\* check_result of a bridged grader: what the interactor's exit status says.
WaitInteractor ==
    /\ pc = "waitI"
    /\ Ended("I")
    /\ check' = CASE proc["I"] = "ok" -> "accept"
                  [] proc["I"] = "bad" -> "wrong"
                  [] OTHER -> "internal error"
    /\ Goto("done")
    /\ UNCHANGED <<mode, pipes, proc, want, poller, ole>>

Judge ==
    \/ LaunchProcess \/ CloseChildEnds \/ LaunchInteractor \/ CloseInteractorEnds
    \/ Poll \/ (\E x \in Pipes : Handle(x)) \/ KillOLE
    \/ Talk \/ TalkRead \/ TalkWrite
    \/ WaitProcess \/ WaitInteractor

Process(p) == Settle(p) \/ Choose(p) \/ Read(p) \/ Write(p) \/ Exit(p)

Next == Judge \/ \E p \in Procs : Process(p) \/ WallKill(p)

\* The judge runs, and so do programs, which are finite.  The time limit is
\* counted on only in conversations: collecting output must end without it.
Fairness ==
    /\ WF_vars(Judge)
    /\ \A p \in Procs : WF_vars(Process(p))
    /\ \A p \in Procs : WF_vars(mode # "standard" /\ WallKill(p))

Spec == Init /\ [][Next]_vars /\ Fairness

-------------------------------------------------------------------------------
(* Properties *)

\* Output that is not over its limit is collected to the last chunk, whoever
\* ended first, and output over its limit is never taken for the whole.
NoOutputLost ==
    pc = "done" /\ mode = "standard" =>
        \/ ole /\ (got["out"] > OutLimit \/ got["err"] > ErrLimit)
        \/ /\ \A x \in {"out", "err"} : got[x] = written[x]
           /\ got["out"] <= OutLimit /\ got["err"] <= ErrLimit

\* Grading a case ends.  With a process that computes finitely, collecting its
\* output ends without help from the time limit: nobody waits on a full or an
\* empty pipe for ever.
CaseEnds == <>(pc = "done")
===============================================================================
