--------------------------- MODULE TracedProcess ---------------------------
(***************************************************************************)
(* A submission's process under the tracer (dmoj/cptbox).                  *)
(*                                                                         *)
(* Three threads of the judge share a TracedPopen: the one that launched   *)
(* it and waits for it, the monitor (_run_process and pt_process::monitor),*)
(* which alone may wait for the tracee's events, and the shocker, which    *)
(* kills what runs for too long.  On the other side are the tracee and the *)
(* tasks it creates, stopped by the kernel at each event until the monitor *)
(* resumes them.                                                           *)
(***************************************************************************)
EXTENDS Naturals, FiniteSets

CONSTANTS
    Main,       \* the process that was forked
    Kids        \* threads and processes it creates

ASSUME TaskAssumption == Main \notin Kids

Tasks == Kids \cup {Main}

VARIABLES
    task,        \* of each task: "none", "run", "stop", "dead" or "reaped"
    event,       \* why it is stopped
    kind,        \* of each kid: "none", "thread" or "process"
    stage,       \* how far cptbox_child_run is
    killed,      \* tasks with a pending SIGKILL
    code,        \* the exit status of Main
    monitor,     \* where the monitor thread is
    first, spawned, children,    \* locals of pt_process::monitor
    onReturn,    \* tasks with an on_return_ callback
    fault,       \* the tasks that protection_fault was set for
    tle,         \* _is_tle
    cpuOver,     \* execution_time > _time
    wallOver,    \* wall_clock_time > _wall_time
    exited,      \* returncode is not None
    died, ready, \* the events _died and _spawned_or_errored
    shocker,     \* where the shocker thread is
    main         \* where the launching thread is

vars == <<task, event, kind, stage, killed, code, monitor, first, spawned,
          children, onReturn, fault, tle, cpuOver, wallOver, exited,
          died, ready, shocker, main>>

tracee == <<task, event, kind, stage, killed, code>>
loop == <<first, spawned, children, onReturn, fault>>
clocks == <<cpuOver, wallOver>>
flags == <<exited, died, ready>>

SpawnFailures == {"NO_NEW_PRIVS", "TRACEME", "SETAFFINITY", "SECCOMP", "EXECVE"}

Live(t) == task[t] \in {"run", "stop"}

Threads == {k \in Kids : kind[k] = "thread"}

Init ==
    /\ task = [t \in Tasks |-> "none"]
    /\ event = [t \in Tasks |-> "none"]
    /\ kind = [k \in Kids |-> "none"]
    /\ stage = "fork"
    /\ killed = {}
    /\ code = "none"
    /\ monitor = "spawn"
    /\ first = TRUE /\ spawned = FALSE
    /\ children = {}
    /\ onReturn = {}
    /\ fault = {}
    /\ tle = FALSE
    /\ cpuOver = FALSE /\ wallOver = FALSE
    /\ exited = FALSE /\ died = FALSE /\ ready = FALSE
    /\ shocker = "wait"
    /\ main = "launch"

-------------------------------------------------------------------------------
(* The tracee and the kernel *)

Stop(t, e) ==
    /\ task' = [task EXCEPT ![t] = "stop"]
    /\ event' = [event EXCEPT ![t] = e]

Others == UNCHANGED <<monitor, loop, tle, clocks, flags, shocker, main>>

Running(t) == task[t] = "run" /\ t \notin killed /\ event[t] # "leaving"

\* _exit before the first stop, when no tracing options are set.
Quit(status) ==
    /\ task' = [task EXCEPT ![Main] = "dead"]
    /\ code' = status
    /\ UNCHANGED event

\* cptbox_child_run, up to the SIGSTOP it sends itself, then the seccomp
\* filter, descriptors and limits, then execve, which traps.
ChildRun ==
    /\ Running(Main)
    /\ \/ /\ stage = "fork"
          /\ stage' = "group"
          /\ UNCHANGED <<task, event, code>>
       \/ /\ stage = "group"
          /\ \/ \E status \in {"NO_NEW_PRIVS", "TRACEME", "SETAFFINITY"} : Quit(status)
             \/ Stop(Main, "sigstop") /\ UNCHANGED code
          /\ stage' = "filter"
       \/ /\ stage = "filter"
          /\ \/ Stop(Main, "exit") /\ code' = "SECCOMP"
             \/ Stop(Main, "execve") /\ UNCHANGED code
          /\ stage' = "execve"
       \/ /\ stage = "execve"
          /\ \/ Stop(Main, "exit") /\ code' = "EXECVE" /\ UNCHANGED stage
             \/ stage' = "program" /\ UNCHANGED <<task, event, code>>
    /\ UNCHANGED <<kind, killed>>
    /\ Others

\* The program calls the kernel, in a way the handlers allow, forbid or turn
\* into an error at its return.
Trap(t) ==
    /\ Running(t)
    /\ t = Main => stage = "program"
    /\ \/ event[t] = "entered" /\ Stop(t, "return")
       \/ event[t] # "entered" /\ \E e \in {"allowed", "forbidden", "errno"} : Stop(t, e)
    /\ t = Main => code = "none"
    /\ UNCHANGED <<kind, stage, killed, code>>
    /\ Others

\* SIGXCPU: the process used up its RLIMIT_CPU.
TrapXCPU ==
    /\ Running(Main)
    /\ stage = "program" /\ code = "none"
    /\ Stop(Main, "xcpu")
    /\ UNCHANGED <<kind, stage, killed, code>>
    /\ Others

\* The hard limit is a second above RLIMIT_CPU, and kills the process alone.
HardLimit ==
    /\ Live(Main)
    /\ tle /\ stage = "program"
    /\ killed' = killed \cup {Main} \cup {k \in Threads : Live(k)}
    /\ UNCHANGED <<task, event, kind, stage, code>>
    /\ Others

\* The shocker's SIGWINCH, once a second, stops even a task that sleeps: under
\* ptrace an ignored signal is reported too.
Wake(t) ==
    /\ shocker = "watch" /\ ~died
    /\ Running(t) /\ event[t] = "none"
    /\ t = Main => stage = "program" /\ code = "none"
    /\ Stop(t, "signal")
    /\ UNCHANGED <<kind, stage, killed, code>>
    /\ Others

\* fork, vfork and clone: the kid runs at once, the parent stops.
Create(k, what) ==
    /\ Running(Main)
    /\ stage = "program" /\ code = "none"
    /\ task[k] = "none"
    /\ task' = [task EXCEPT ![k] = "run", ![Main] = "stop"]
    /\ event' = [event EXCEPT ![Main] = IF what = "thread" THEN "clone" ELSE "fork"]
    /\ kind' = [kind EXCEPT ![k] = what]
    /\ UNCHANGED <<stage, killed, code>>
    /\ Others

\* exit_group takes the threads of its process with it; PTRACE_EVENT_EXIT
\* stops Main on its way out.
ExitGroup(status) ==
    /\ Running(Main)
    /\ stage = "program" /\ code = "none"
    /\ Stop(Main, "exit")
    /\ code' = status
    /\ killed' = killed \cup {k \in Threads : Live(k)}
    /\ UNCHANGED <<kind, stage>>
    /\ Others

\* A kid ends by itself.
Exit(k) ==
    /\ Running(k)
    /\ Stop(k, "exit")
    /\ UNCHANGED <<kind, stage, killed, code>>
    /\ Others

\* A killed task wakes up, stops on its way out if it is traced in full, and
\* dies; the leader of a process is the last of its threads.
Die(t) ==
    /\ Live(t)
    /\ \/ /\ t \in killed
          /\ ~first /\ event[t] \notin {"exit", "leaving"}
          /\ Stop(t, "exit")
          /\ UNCHANGED code
       \/ /\ t \in killed \/ (task[t] = "run" /\ event[t] = "leaving")
          /\ t = Main => \A k \in Threads : ~Live(k) /\ task[k] # "dead"
          /\ task' = [task EXCEPT ![t] = "dead"]
          /\ event' = [event EXCEPT ![t] = "none"]
          /\ code' = IF t = Main /\ code = "none" THEN "KILL" ELSE code
    /\ UNCHANGED <<kind, stage, killed>>
    /\ Others

KillGroup == killed' = killed \cup {t \in Tasks : Live(t)}

-------------------------------------------------------------------------------
(* The monitor thread *)

\* _run_process: the fork, the judge's copies of the child's descriptors
\* closed, and the launching thread told; or an error, which is told too.
Spawn ==
    /\ monitor = "spawn"
    /\ ready' = TRUE
    /\ \/ /\ task' = [task EXCEPT ![Main] = "run"]
          /\ monitor' = "wait"
          /\ UNCHANGED died
       \/ /\ died' = TRUE
          /\ monitor' = "failed"
          /\ UNCHANGED task
    /\ UNCHANGED <<event, kind, stage, killed, code, loop, tle, clocks, exited,
                   shocker, main>>

\* wait4 returns t: at first it waits for Main only.  The time it waited is
\* added to execution_time, whether the tasks were running or asleep.
Waited(t) ==
    /\ monitor = "wait"
    /\ first => t = Main
    /\ cpuOver' \in {cpuOver, cpuOver \/ stage = "program"}
    /\ UNCHANGED wallOver

Resume(t, e) ==
    /\ task' = [task EXCEPT ![t] = "run"]
    /\ event' = [event EXCEPT ![t] = e]

\* A task is dead: Main ends the loop.
Reap(t) ==
    /\ Waited(t)
    /\ task[t] = "dead"
    /\ task' = [task EXCEPT ![t] = "reaped"]
    /\ IF t = Main
       THEN monitor' = "after" /\ UNCHANGED children
       ELSE children' = children \ {t} /\ UNCHANGED monitor
    /\ killed' = killed \ {t}
    /\ UNCHANGED <<event, kind, stage, code, first, spawned,
                   onReturn, fault, tle, flags, shocker, main>>

\* The first stop: the options are set, and PTRACE_O_EXITKILL among them.
Attach ==
    /\ Waited(Main)
    /\ first
    /\ task[Main] = "stop"
    /\ first' = FALSE
    /\ Resume(Main, "none")
    /\ UNCHANGED <<kind, stage, killed, code, monitor, spawned, children,
                   onReturn, fault, tle, flags, shocker, main>>

\* A stop that is not of a system call; any signal but SIGXCPU is passed on
\* without a trace.
Notice(t) ==
    /\ Waited(t)
    /\ ~first
    /\ task[t] = "stop"
    /\ event[t] \in {"xcpu", "fork", "clone", "exit", "sigstop", "signal"}
    /\ Resume(t, IF event[t] = "exit" THEN "leaving" ELSE "none")
    /\ children' = children \cup {k \in Kids : event[t] = "fork" /\ kind[k] = "process"
                                               /\ Live(k)}
    /\ tle' = (tle \/ event[t] = "xcpu")
    /\ UNCHANGED <<kind, stage, killed, code, monitor, first, spawned,
                   onReturn, fault, flags, shocker, main>>

\* A stop of a system call before the first execve, that one included.
Execve ==
    /\ Waited(Main)
    /\ ~first /\ ~spawned
    /\ task[Main] = "stop" /\ event[Main] = "execve"
    /\ \/ Main \in killed /\ UNCHANGED <<spawned, task, event>>
       \/ spawned' = TRUE /\ Resume(Main, "none")
    /\ UNCHANGED <<kind, stage, killed, code, monitor, first, children,
                   onReturn, fault, tle, flags, shocker, main>>

\* A system call entered or left, by its handler.  One that is forbidden
\* costs the process group its life, and the task is not resumed.
Call(t) ==
    /\ Waited(t)
    /\ spawned
    /\ task[t] = "stop"
    /\ t \notin killed
    /\ CASE event[t] = "allowed" ->
                Resume(t, "none") /\ UNCHANGED <<killed, onReturn, fault>>
         [] event[t] = "errno" ->
                Resume(t, "entered") /\ onReturn' = onReturn \cup {t}
                /\ UNCHANGED <<killed, fault>>
         [] event[t] = "return" ->
                Resume(t, "none") /\ onReturn' = onReturn \ {t}
                /\ UNCHANGED <<killed, fault>>
         [] event[t] = "forbidden" ->
                KillGroup /\ fault' = fault \cup {t}
                /\ UNCHANGED <<task, event, onReturn>>
         [] OTHER -> FALSE
    /\ UNCHANGED <<kind, stage, code, monitor, first, spawned, children, tle,
                   flags, shocker, main>>

\* The task was killed after wait4 had returned it, and ptrace says ESRCH.
Vanished(t) ==
    /\ Waited(t)
    /\ task[t] = "stop"
    /\ t \in killed
    /\ event[t] \in {"allowed", "errno", "return", "forbidden"}
    /\ task' = [task EXCEPT ![t] = "run"]
    /\ event' = [event EXCEPT ![t] = "none"]
    /\ UNCHANGED <<kind, stage, killed, code, monitor, loop, tle, flags, shocker,
                   main>>

\* After the loop: the children known are killed.
KillChildren ==
    /\ monitor = "after"
    /\ killed' = killed \cup {k \in children : Live(k)}
    /\ monitor' = "exited"
    /\ UNCHANGED <<task, event, kind, stage, code, loop, tle, clocks, flags,
                   shocker, main>>

SetExited ==
    /\ monitor = "exited"
    /\ exited' = TRUE
    /\ monitor' = "judge"
    /\ UNCHANGED <<tracee, loop, tle, clocks, died, ready, shocker, main>>

\* The execution time is left to the shocker.
JudgeTimeNot ==
    /\ monitor = "judge"
    /\ monitor' = "tell"
    /\ UNCHANGED <<tracee, loop, tle, clocks, flags, shocker, main>>

\* The execution time is judged before anyone is told of the end.
JudgeTime ==
    /\ monitor = "judge"
    /\ tle' = (tle \/ cpuOver)
    /\ monitor' = "tell"
    /\ UNCHANGED <<tracee, loop, clocks, flags, shocker, main>>

SetDied ==
    /\ monitor = "tell"
    /\ died' = TRUE
    /\ monitor' = "leave"
    /\ UNCHANGED <<tracee, loop, tle, clocks, exited, ready, shocker, main>>

\* Without PTRACE_O_EXITKILL.
LeaveAlive ==
    /\ monitor = "leave"
    /\ monitor' = "over"
    /\ UNCHANGED <<tracee, loop, tle, clocks, flags, shocker, main>>

\* The tracer thread ends, and PTRACE_O_EXITKILL kills what it still traced.
Leave ==
    /\ monitor = "leave"
    /\ monitor' = "over"
    /\ killed' = IF first THEN killed ELSE killed \cup {t \in Tasks : Live(t)}
    /\ UNCHANGED <<task, event, kind, stage, code, loop, tle, clocks, flags,
                   shocker, main>>

-------------------------------------------------------------------------------
(* The shocker thread, and the launching one *)

\* Only the execution time is watched.
ShockIdleNever ==
    /\ \/ shocker = "wait" /\ ready /\ shocker' = "watch" /\ UNCHANGED killed
       \/ shocker = "watch" /\ died /\ shocker' = "over" /\ UNCHANGED killed
       \/ /\ shocker = "watch" /\ ~died
          /\ cpuOver
          /\ IF exited THEN UNCHANGED killed ELSE KillGroup
          /\ shocker' = "killed"
    /\ UNCHANGED <<task, event, kind, stage, code, monitor, loop, tle, clocks,
                   flags, main>>

\* Every second: the end, or too much time; otherwise Wake.
Shock ==
    /\ \/ shocker = "wait" /\ ready /\ shocker' = "watch" /\ UNCHANGED killed
       \/ shocker = "watch" /\ died /\ shocker' = "over" /\ UNCHANGED killed
       \/ /\ shocker = "watch" /\ ~died
          /\ cpuOver \/ wallOver
          /\ IF exited THEN UNCHANGED killed ELSE KillGroup
          /\ shocker' = "killed"
    /\ UNCHANGED <<task, event, kind, stage, code, monitor, loop, tle, clocks,
                   flags, main>>

ShockTLE ==
    /\ shocker = "killed"
    /\ tle' = TRUE
    /\ shocker' = "over"
    /\ UNCHANGED <<tracee, monitor, loop, clocks, flags, main>>

WallPasses ==
    /\ ~first
    /\ monitor = "wait"
    /\ wallOver' = TRUE
    /\ UNCHANGED <<tracee, monitor, loop, tle, cpuOver, flags, shocker, main>>

\* The constructor returns, or raises what _spawn raised.
Launch ==
    /\ main = "launch"
    /\ ready
    /\ main' = IF monitor = "failed" THEN "raised" ELSE "has"
    /\ UNCHANGED <<tracee, monitor, loop, tle, clocks, flags, shocker>>

\* kill, for an output limit or an abort; a group that does not exist yet is
\* an OSError, which is printed.
Kill ==
    /\ main = "has"
    /\ main' = "waits"
    /\ IF exited \/ stage = "fork" THEN UNCHANGED killed ELSE KillGroup
    /\ UNCHANGED <<task, event, kind, stage, code, monitor, loop, tle, clocks,
                   flags, shocker>>

\* wait: a process that never got to its program is an internal error.
Wait ==
    /\ main \in {"has", "waits"}
    /\ died
    /\ main' = IF ~spawned /\ code # "KILL" THEN "raised" ELSE "returned"
    /\ UNCHANGED <<tracee, monitor, loop, tle, clocks, flags, shocker>>

Tracee ==
    \/ ChildRun \/ TrapXCPU \/ HardLimit
    \/ \E t \in Tasks : Trap(t) \/ Wake(t) \/ Die(t)
    \/ \E k \in Kids, what \in {"thread", "process"} : Create(k, what)
    \/ \E k \in Kids : Exit(k)
    \/ \E status \in {"0", "1"} : ExitGroup(status)

Monitor ==
    \/ Spawn \/ Attach \/ Execve
    \/ \E t \in Tasks : Reap(t) \/ Notice(t) \/ Call(t) \/ Vanished(t)
    \/ KillChildren \/ SetExited \/ JudgeTime \/ SetDied \/ Leave

Next == Tracee \/ Monitor \/ Shock \/ ShockTLE \/ WallPasses \/ Launch \/ Kill \/ Wait

\* The judge's threads run, time passes, and what is killed dies.  The child
\* gets to its first stop; nothing is asked of the program.
Fairness ==
    /\ WF_vars(ChildRun) /\ \A t \in Tasks : WF_vars(Die(t))
    /\ WF_vars(Monitor)
    /\ WF_vars(Shock) /\ WF_vars(ShockTLE) /\ WF_vars(WallPasses)
    /\ WF_vars(Launch) /\ WF_vars(Wait)

Spec == Init /\ [][Next]_vars /\ Fairness

-------------------------------------------------------------------------------
(* Properties *)

\* What populate_result makes of the process.
Flags ==
    {f \in {"IR", "RTE", "TLE"} :
        \/ f = "IR" /\ code \in SpawnFailures \cup {"1"}
        \/ f = "RTE" /\ code = "KILL"
        \/ f = "TLE" /\ tle}

\* A process one of whose threads made a forbidden call dies of SIGKILL: a
\* call that was merely overtaken by exit_group is not taken for one.
FaultIsRTE ==
    exited /\ (fault \ Kids # {} \/ fault \cap Threads # {}) => "RTE" \in Flags

\* Nothing of a submission outlives its monitor.
NoOrphans == monitor = "over" => \A t \in Tasks : Live(t) => t \in killed

\* Whoever waited for a process whose execution time was exceeded sees that it
\* was.  Of one that only its wall time ended nothing is said: the shocker sets
\* _is_tle after the kill (tracer.py:373-375), when the wait may be over.
ExcessIsTLE == main = "returned" /\ cpuOver => "TLE" \in Flags

\* A launch that fails before execve is an error of the judge and no verdict.
\* One whose execve fails is graded: the branch of wait for it (tracer.py:224)
\* is dead, since the monitor takes the entry of execve for its end.
SetupFailureRaises == main = "returned" /\ code \in SpawnFailures => code = "EXECVE"

\* What the grader reads of a process that has ended: a thread's forbidden
\* call, an excess of execution time, and a failed setup before execve.
FlagsSound == FaultIsRTE /\ ExcessIsTLE /\ SetupFailureRaises

\* Whatever the program does, and whoever kills it when, it is waited for in
\* vain no longer than its time limits last, and the shocker goes away too.
EndsInTime ==
    /\ main \in {"has", "waits"} ~> main \in {"returned", "raised"}
    /\ <>(shocker = "over")
===============================================================================
