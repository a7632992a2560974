---------------------------- MODULE SandboxProofs ----------------------------
(***************************************************************************)
(* Proofs about the sandbox: the traced process, for any number of tasks,  *)
(* and the pipes, for any capacity and any limits.                         *)
(***************************************************************************)
EXTENDS MCSandbox, TLAPS

-------------------------------------------------------------------------------
(* The traced process *)

TaskStates == {"none", "run", "stop", "dead", "reaped"}
Stops == {"allowed", "forbidden", "errno", "return", "execve", "sigstop", "xcpu",
          "fork", "clone", "signal"}

\* The variables of the traced process have their types.
TasksTyped ==
    /\ task \in [Tasks -> TaskStates]
    /\ event \in [Tasks -> Stops \cup {"none", "entered", "exit", "leaving"}]
    /\ kind \in [Kids -> {"none", "thread", "process"}]
    /\ stage \in {"fork", "group", "filter", "execve", "program"}
    /\ code \in SpawnFailures \cup {"none", "0", "1", "KILL"}
    /\ killed \subseteq Tasks

ThreadsTyped ==
    /\ monitor \in {"spawn", "failed", "wait", "after", "exited", "judge", "tell",
                    "leave", "over"}
    /\ shocker \in {"wait", "watch", "killed", "over"}
    /\ main \in {"launch", "has", "waits", "returned", "raised"}
    /\ children \subseteq Kids /\ onReturn \subseteq Tasks /\ fault \subseteq Tasks

FlagsTyped ==
    /\ first \in BOOLEAN /\ spawned \in BOOLEAN /\ tle \in BOOLEAN
    /\ cpuOver \in BOOLEAN /\ wallOver \in BOOLEAN
    /\ exited \in BOOLEAN /\ died \in BOOLEAN /\ ready \in BOOLEAN

TracerTypeOK == TasksTyped /\ ThreadsTyped /\ FlagsTyped

\* Until the monitor sees the first stop the child stays at it.
FirstStop ==
    /\ first => \/ stage \in {"fork", "group"}
                \/ /\ stage = "filter"
                   /\ \/ task[Main] \in {"dead", "reaped"}
                      \/ task[Main] = "stop" /\ event[Main] = "sigstop"
    /\ \A k \in Kids : task[k] # "none" => stage = "program"
    /\ spawned \/ event[Main] = "execve" => stage \in {"execve", "program"}
    /\ task[Main] = "none" => stage = "fork"
    /\ stage \in {"fork", "group"} /\ code # "none" => task[Main] \in {"dead", "reaped"}

\* The loop ends with Main.
LoopEnds ==
    /\ monitor = "spawn" => task[Main] = "none"
    /\ monitor \in {"after", "exited", "judge", "tell", "leave", "over"} => task[Main] = "reaped"
    /\ exited => monitor \in {"judge", "tell", "leave", "over"}
    /\ died => monitor \in {"failed", "leave", "over"}
    /\ ready <=> monitor # "spawn"
    /\ main \in {"has", "waits", "returned"} => monitor \notin {"spawn", "failed"}
    /\ main = "returned" => died

\* Main has a status once it is on its way out, and no failure of the setup
\* is one of a program that ran.
Statuses ==
    /\ task[Main] \in {"dead", "reaped"} => code # "none"
    /\ code # "none" => task[Main] \in {"dead", "reaped"} \/ event[Main] \in {"exit", "leaving"}
    /\ event[Main] = "exit" => task[Main] = "stop"
    /\ code \in SpawnFailures \ {"EXECVE"} => ~spawned

\* A thread that nobody killed has a leader that nobody killed, and a
\* forbidden call of either is the end of both.
ForbiddenCalls ==
    /\ \A k \in Threads : Live(k) /\ k \notin killed =>
         Live(Main) /\ Main \notin killed /\ code = "none"
    /\ \A k \in fault \cap Kids : task[k] # "none"
    /\ fault \ Kids # {} \/ fault \cap Threads # {} =>
         code = "KILL" \/ (code = "none" /\ Live(Main) /\ Main \in killed)

TimeJudged == monitor \in {"tell", "leave", "over"} /\ cpuOver => tle

TracerInv == TracerTypeOK /\ FirstStop /\ LoopEnds /\ Statuses /\ ForbiddenCalls
    /\ TimeJudged /\ SetupFailureRaises /\ NoOrphans


\* Main is a task that is no kid.
LEMMA MainTask == Main \in Tasks /\ Kids \subseteq Tasks /\ Main \notin Kids /\ Threads \subseteq Kids
BY TaskAssumption DEF Tasks, Threads

LEMMA TracerInit ==
    ASSUME Init
    PROVE  TracerInv
<1>1. TracerTypeOK
  BY MainTask DEF Init, TracerTypeOK, TasksTyped, ThreadsTyped, FlagsTyped, TaskStates
<1>2. FirstStop /\ LoopEnds /\ Statuses /\ TimeJudged /\ SetupFailureRaises /\ NoOrphans
  BY MainTask DEF Init, FirstStop, LoopEnds, Statuses, TimeJudged, SetupFailureRaises,
                  NoOrphans, SpawnFailures
<1>3. ForbiddenCalls
  BY MainTask DEF Init, ForbiddenCalls, Threads, Live
<1>4. QED
  BY <1>1, <1>2, <1>3 DEF TracerInv

\* The steps of the tracee and the kernel change nothing of the judge's.
LEMMA TraceeFrame ==
    ASSUME Tracee
    PROVE  Others
BY DEF Tracee, ChildRun, TrapXCPU, HardLimit, Trap, Wake, Die, Create, Exit, ExitGroup

\* The kernel's view of the tasks keeps its types,
LEMMA TasksTypes ==
    ASSUME TasksTyped, ThreadsTyped, Next
    PROVE  TasksTyped'
<1> USE MainTask DEF TasksTyped, TaskStates, Stops
<1>1. CASE ChildRun
  BY <1>1 DEF ChildRun, Quit, Stop, SpawnFailures
<1>2. CASE TrapXCPU \/ HardLimit
  BY <1>2 DEF TrapXCPU, HardLimit, Stop
<1>3. ASSUME NEW t \in Tasks, Trap(t) \/ Wake(t) \/ Die(t) PROVE TasksTyped'
  BY <1>3 DEF Trap, Wake, Die, Stop
<1>4. ASSUME NEW k \in Kids, NEW what \in {"thread", "process"}, Create(k, what) PROVE TasksTyped'
  BY <1>4 DEF Create
<1>5. ASSUME NEW k \in Kids, Exit(k) PROVE TasksTyped'
  BY <1>5 DEF Exit, Stop
<1>6. ASSUME NEW status \in {"0", "1"}, ExitGroup(status) PROVE TasksTyped'
  BY <1>6 DEF ExitGroup, Stop
<1>7. CASE Spawn \/ Attach \/ Execve
  BY <1>7 DEF Spawn, Attach, Execve, Resume
<1>8. ASSUME NEW t \in Tasks, Reap(t) \/ Notice(t) \/ Vanished(t) PROVE TasksTyped'
  BY <1>8 DEF Reap, Notice, Vanished, Resume
<1>9. ASSUME NEW t \in Tasks, Call(t) PROVE TasksTyped'
  BY <1>9 DEF Call, Resume, KillGroup
<1>10. CASE KillChildren \/ Leave
  BY <1>10 DEF KillChildren, Leave, ThreadsTyped
<1>13. CASE SetExited \/ JudgeTime \/ SetDied
  BY <1>13 DEF SetExited, JudgeTime, SetDied, tracee
<1>11. CASE Shock \/ ShockTLE \/ WallPasses \/ Launch \/ Kill \/ Wait
  BY <1>11 DEF Shock, ShockTLE, WallPasses, Launch, Kill, Wait, KillGroup, tracee
<1>12. QED
  BY <1>1, <1>2, <1>3, <1>4, <1>5, <1>6, <1>7, <1>8, <1>9, <1>10, <1>11,
     <1>13 DEF Next, Tracee, Monitor

\* and so does what the judge's threads know.
LEMMA ThreadsTypes ==
    ASSUME ThreadsTyped, Next
    PROVE  ThreadsTyped'
<1> USE DEF ThreadsTyped
<1>1. CASE Tracee
  BY <1>1, TraceeFrame DEF Others, loop
<1>2. CASE Spawn \/ Attach \/ Execve
  BY <1>2 DEF Spawn, Attach, Execve, loop
<1>3. ASSUME NEW t \in Tasks, Reap(t) \/ Notice(t) \/ Vanished(t) PROVE ThreadsTyped'
  BY <1>3 DEF Reap, Notice, Vanished, loop
<1>4. ASSUME NEW t \in Tasks, Call(t) PROVE ThreadsTyped'
  BY <1>4 DEF Call
<1>5. CASE KillChildren \/ SetExited \/ JudgeTime \/ SetDied \/ Leave
  BY <1>5 DEF KillChildren, SetExited, JudgeTime, SetDied, Leave, loop
<1>6. CASE Shock \/ ShockTLE \/ WallPasses \/ Launch \/ Kill \/ Wait
  BY <1>6 DEF Shock, ShockTLE, WallPasses, Launch, Kill, Wait, loop
<1>7. QED
  BY <1>1, <1>2, <1>3, <1>4, <1>5, <1>6 DEF Next, Monitor

LEMMA FlagsTypes ==
    ASSUME FlagsTyped, Next
    PROVE  FlagsTyped'
<1> USE DEF FlagsTyped, clocks, flags
<1>1. CASE Tracee
  BY <1>1, TraceeFrame DEF Others, loop
<1>2. CASE Spawn \/ Attach \/ Execve
  BY <1>2 DEF Spawn, Attach, Execve, Waited, loop
<1>3. ASSUME NEW t \in Tasks, Reap(t) \/ Notice(t) \/ Vanished(t) \/ Call(t) PROVE FlagsTyped'
  BY <1>3 DEF Reap, Notice, Vanished, Call, Waited, loop
<1>4. CASE KillChildren \/ SetExited \/ JudgeTime \/ SetDied \/ Leave
  BY <1>4 DEF KillChildren, SetExited, JudgeTime, SetDied, Leave, loop
<1>5. CASE Shock \/ ShockTLE \/ WallPasses \/ Launch \/ Kill \/ Wait
  BY <1>5 DEF Shock, ShockTLE, WallPasses, Launch, Kill, Wait, loop
<1>6. QED
  BY <1>1, <1>2, <1>3, <1>4, <1>5 DEF Next, Monitor

\* The judge's threads change a task's state only by resuming or reaping it.
LEMMA FirstStopStays ==
    ASSUME TracerInv, Next
    PROVE  FirstStop'
<1> USE MainTask DEF TracerInv, TracerTypeOK, TasksTyped, FirstStop
<1>1. CASE ChildRun
  BY <1>1 DEF ChildRun, Running, Quit, Stop, Others, loop
<1>2. CASE TrapXCPU \/ HardLimit
  BY <1>2 DEF TrapXCPU, HardLimit, Running, Stop, Others, loop
<1>3. ASSUME NEW t \in Tasks, Trap(t) \/ Wake(t) PROVE FirstStop'
  BY <1>3 DEF Trap, Wake, Running, Stop, Others, loop
<1>4. ASSUME NEW t \in Tasks, Die(t) PROVE FirstStop'
  BY <1>4 DEF Die, Live, Stop, Others, loop
<1>5. ASSUME NEW k \in Kids, NEW what \in {"thread", "process"}, Create(k, what) PROVE FirstStop'
  BY <1>5 DEF Create, Running, Others, loop
<1>6. ASSUME NEW k \in Kids, Exit(k) PROVE FirstStop'
  BY <1>6 DEF Exit, Running, Stop, Others, loop
<1>7. ASSUME NEW status \in {"0", "1"}, ExitGroup(status) PROVE FirstStop'
  BY <1>7 DEF ExitGroup, Running, Stop, Others, loop
<1>8. CASE Spawn
  BY <1>8 DEF Spawn, loop, LoopEnds
<1>9. CASE Attach
  BY <1>9 DEF Attach, Resume
<1>16. CASE Execve
  BY <1>16 DEF Execve, Resume
<1>10. ASSUME NEW t \in Tasks, Reap(t) PROVE FirstStop'
  BY <1>10 DEF Reap, Waited
<1>11. ASSUME NEW t \in Tasks, Notice(t) \/ Vanished(t) PROVE FirstStop'
  BY <1>11 DEF Notice, Vanished, Waited, Resume, loop
<1>12. ASSUME NEW t \in Tasks, Call(t) PROVE FirstStop'
  <2>1. first' = first /\ spawned' = spawned /\ stage' = stage /\ spawned /\ task[t] = "stop"
    BY <1>12 DEF Call
  <2>2. /\ \A k \in Tasks : task'[k] # "none" <=> task[k] # "none"
        /\ ~first
    BY <1>12, <2>1 DEF Call, Resume
  <2>3. QED
    BY <2>1, <2>2
<1>13. CASE KillChildren \/ SetExited \/ JudgeTime \/ SetDied \/ Leave
  BY <1>13 DEF KillChildren, SetExited, JudgeTime, SetDied, Leave, tracee, loop
<1>14. CASE Shock \/ ShockTLE \/ WallPasses \/ Launch \/ Kill \/ Wait
  BY <1>14 DEF Shock, ShockTLE, WallPasses, Launch, Kill, Wait, tracee, loop
<1>15. QED
  BY <1>1, <1>2, <1>3, <1>4, <1>5, <1>6, <1>7, <1>8, <1>9, <1>10, <1>11, <1>12, <1>13, <1>14,
     <1>16 DEF Next, Tracee, Monitor

LEMMA LoopEndsStays ==
    ASSUME TracerInv, Next
    PROVE  LoopEnds'
<1> USE MainTask DEF TracerInv, TracerTypeOK, TasksTyped, FlagsTyped, LoopEnds
<1>1. CASE Tracee
  <2>1. Others
    BY <1>1, TraceeFrame
  <2>2. \A s \in {"none", "reaped"} : task[Main] = s => task'[Main] = s
    BY <1>1 DEF Tracee, ChildRun, TrapXCPU, HardLimit, Trap, Wake, Die, Create, Exit, ExitGroup,
                Running, Live, Quit, Stop
  <2>3. QED
    BY <2>1, <2>2 DEF Others, flags
<1>2. CASE Spawn
  BY <1>2 DEF Spawn
<1>3. CASE Attach \/ Execve
  BY <1>3 DEF Attach, Execve, Waited, flags
<1>4. ASSUME NEW t \in Tasks, Reap(t) PROVE LoopEnds'
  BY <1>4 DEF Reap, Waited, flags
<1>5. ASSUME NEW t \in Tasks, Notice(t) \/ Vanished(t) \/ Call(t) PROVE LoopEnds'
  BY <1>5 DEF Notice, Vanished, Call, Waited, flags
<1>6. CASE KillChildren \/ SetExited
  BY <1>6 DEF KillChildren, SetExited, tracee, flags
<1>7. CASE JudgeTime \/ SetDied \/ Leave
  BY <1>7 DEF JudgeTime, SetDied, Leave, tracee, flags
<1>8. CASE Shock \/ ShockTLE \/ WallPasses
  BY <1>8 DEF Shock, ShockTLE, WallPasses, tracee, flags
<1>9. CASE Launch \/ Kill \/ Wait
  BY <1>9 DEF Launch, Kill, Wait, tracee, flags
<1>10. QED
  BY <1>1, <1>2, <1>3, <1>4, <1>5, <1>6, <1>7, <1>8, <1>9 DEF Next, Monitor

LEMMA StatusesStay ==
    ASSUME TracerInv, Next
    PROVE  Statuses'
<1> USE MainTask DEF TracerInv, TracerTypeOK, TasksTyped, Statuses, SpawnFailures
<1>1. CASE ChildRun
  <2>1. code = "none" /\ task[Main] = "run" /\ spawned' = spawned
    BY <1>1 DEF ChildRun, Running, Others, loop
  <2>2. code' \in SpawnFailures \ {"EXECVE"} => ~spawned
    BY <1>1, <2>1 DEF ChildRun, Quit, FirstStop
  <2>3. QED
    BY <1>1, <2>1, <2>2 DEF ChildRun, Quit, Stop
<1>2. CASE TrapXCPU \/ HardLimit
  BY <1>2 DEF TrapXCPU, HardLimit, Running, Stop, Others, loop
<1>3. ASSUME NEW t \in Tasks, Trap(t) \/ Wake(t) PROVE Statuses'
  BY <1>3 DEF Trap, Wake, Running, Stop, Others, loop
<1>4. ASSUME NEW t \in Tasks, Die(t) PROVE Statuses'
  BY <1>4 DEF Die, Live, Stop, Others, loop
<1>5. ASSUME NEW k \in Kids, NEW what \in {"thread", "process"}, Create(k, what) PROVE Statuses'
  BY <1>5 DEF Create, Running, Others, loop
<1>6. ASSUME NEW k \in Kids, Exit(k) PROVE Statuses'
  BY <1>6 DEF Exit, Running, Stop, Others, loop
<1>7. ASSUME NEW status \in {"0", "1"}, ExitGroup(status) PROVE Statuses'
  BY <1>7 DEF ExitGroup, Running, Stop, Others, loop
<1>8. CASE Spawn
  BY <1>8 DEF Spawn, loop, LoopEnds
<1>9. CASE Attach
  BY <1>9 DEF Attach, Resume, FirstStop
<1>10. CASE Execve
  BY <1>10 DEF Execve, Resume
<1>11. ASSUME NEW t \in Tasks, Reap(t) PROVE Statuses'
  BY <1>11 DEF Reap, Waited
<1>12. ASSUME NEW t \in Tasks, Notice(t) \/ Vanished(t) PROVE Statuses'
  BY <1>12 DEF Notice, Vanished, Waited, Resume, loop
<1>13. ASSUME NEW t \in Tasks, Call(t) PROVE Statuses'
  <2>1. spawned' = spawned /\ code' = code /\ task[t] = "stop"
    BY <1>13 DEF Call
  <2>2. /\ event[t] \in {"allowed", "errno", "return", "forbidden"}
        /\ t = Main => task'[Main] \in {"stop", "run"} /\ event'[Main] \notin {"exit", "leaving"}
        /\ t # Main => task'[Main] = task[Main] /\ event'[Main] = event[Main]
    BY <1>13, <2>1 DEF Call, Resume
  <2>3. QED
    BY <2>1, <2>2
<1>14. CASE KillChildren \/ SetExited \/ JudgeTime \/ SetDied \/ Leave
  BY <1>14 DEF KillChildren, SetExited, JudgeTime, SetDied, Leave, tracee, loop
<1>15. CASE Shock \/ ShockTLE \/ WallPasses \/ Launch \/ Kill \/ Wait
  BY <1>15 DEF Shock, ShockTLE, WallPasses, Launch, Kill, Wait, tracee, loop
<1>16. QED
  BY <1>1, <1>2, <1>3, <1>4, <1>5, <1>6, <1>7, <1>8, <1>9, <1>10, <1>11, <1>12, <1>13, <1>14,
     <1>15 DEF Next, Tracee, Monitor

LEMMA TimeJudgedStays ==
    ASSUME TracerInv, Next
    PROVE  TimeJudged'
<1> USE DEF TracerInv, TracerTypeOK, FlagsTyped, TimeJudged
<1>1. CASE Tracee
  BY <1>1, TraceeFrame DEF Others, clocks
<1>2. CASE Spawn \/ Attach \/ Execve
  BY <1>2 DEF Spawn, Attach, Execve, Waited, clocks
<1>3. ASSUME NEW t \in Tasks, Reap(t) \/ Notice(t) \/ Vanished(t) \/ Call(t) PROVE TimeJudged'
  BY <1>3 DEF Reap, Notice, Vanished, Call, Waited
<1>4. CASE KillChildren \/ SetExited \/ JudgeTime \/ SetDied \/ Leave
  BY <1>4 DEF KillChildren, SetExited, JudgeTime, SetDied, Leave, clocks
<1>5. CASE Shock \/ ShockTLE \/ WallPasses \/ Launch \/ Kill \/ Wait
  BY <1>5 DEF Shock, ShockTLE, WallPasses, Launch, Kill, Wait, clocks
<1>6. QED
  BY <1>1, <1>2, <1>3, <1>4, <1>5 DEF Next, Monitor

LEMMA SetupStays ==
    ASSUME TracerInv, Next
    PROVE  SetupFailureRaises'
<1> USE MainTask DEF TracerInv, TracerTypeOK, TasksTyped, SetupFailureRaises
<1>1. CASE Tracee
  <2>1. main = "returned" => task[Main] = "reaped"
    BY DEF LoopEnds
  <2>2. task[Main] = "reaped" => code' = code
    BY <1>1 DEF Tracee, ChildRun, TrapXCPU, HardLimit, Trap, Wake, Die, Create, Exit, ExitGroup,
                Running, Live, Quit, Stop
  <2>3. QED
    BY <1>1, <2>1, <2>2, TraceeFrame DEF Others
<1>2. CASE Wait
  BY <1>2 DEF Wait, tracee, Statuses, SpawnFailures
<1>3. CASE Monitor
  BY <1>3 DEF Monitor, Spawn, Attach, Execve, Reap, Notice, Vanished, Call, KillChildren,
              SetExited, JudgeTime, SetDied, Leave, tracee
<1>4. CASE Shock \/ ShockTLE \/ WallPasses \/ Launch \/ Kill
  BY <1>4 DEF Shock, ShockTLE, WallPasses, Launch, Kill, tracee
<1>5. QED
  BY <1>1, <1>2, <1>3, <1>4 DEF Next

\* Once Main is reaped nothing starts a task, and nothing else is reaped.
LEMMA NoOrphansStays ==
    ASSUME TracerInv, Next
    PROVE  NoOrphans'
<1> USE MainTask DEF TracerInv, TracerTypeOK, TasksTyped, NoOrphans, Live
<1>1. CASE Tracee
  <2>1. monitor = "over" => task[Main] = "reaped"
    BY DEF LoopEnds
  <2>2. task[Main] = "reaped" => killed \subseteq killed' /\ \A t \in Tasks : Live(t)' => Live(t)
    BY <1>1 DEF Tracee, ChildRun, TrapXCPU, HardLimit, Trap, Wake, Die, Create, Exit, ExitGroup,
                Running, Quit, Stop
  <2>3. QED
    BY <1>1, <2>1, <2>2, TraceeFrame DEF Others
<1>2. CASE Spawn \/ Attach \/ Execve
  BY <1>2 DEF Spawn, Attach, Execve, Waited
<1>3. ASSUME NEW t \in Tasks, Reap(t) \/ Notice(t) \/ Vanished(t) \/ Call(t) PROVE NoOrphans'
  BY <1>3 DEF Reap, Notice, Vanished, Call, Waited
<1>4. CASE KillChildren \/ SetExited \/ JudgeTime \/ SetDied
  BY <1>4 DEF KillChildren, SetExited, JudgeTime, SetDied, tracee
<1>5. CASE Leave
  <2>1. CASE first
    <3>1. task[Main] = "reaped" /\ \A k \in Kids : task[k] = "none"
      BY <1>5, <2>1 DEF Leave, LoopEnds, FirstStop
    <3>2. QED
      BY <1>5, <3>1 DEF Leave, Tasks
  <2>2. CASE ~first
    BY <1>5, <2>2 DEF Leave
  <2>3. QED
    BY <2>1, <2>2
<1>6. CASE Shock \/ ShockTLE \/ WallPasses \/ Launch \/ Kill \/ Wait
  BY <1>6 DEF Shock, ShockTLE, WallPasses, Launch, Kill, Wait, KillGroup, tracee
<1>7. QED
  BY <1>1, <1>2, <1>3, <1>4, <1>5, <1>6 DEF Next, Monitor

LEMMA ForbiddenCallsStay ==
    ASSUME TracerInv, Next
    PROVE  ForbiddenCalls'
<1> USE MainTask DEF TracerInv, TracerTypeOK, TasksTyped, ThreadsTyped, ForbiddenCalls, Threads, Live
<1>1. CASE ChildRun
  BY <1>1 DEF ChildRun, Running, Quit, Stop, Others, loop, FirstStop, Statuses
<1>2. CASE TrapXCPU
  BY <1>2 DEF TrapXCPU, Running, Stop, Others, loop
<1>17. CASE HardLimit
  BY <1>17 DEF HardLimit, Others, loop
<1>3. ASSUME NEW t \in Tasks, Trap(t) \/ Wake(t) PROVE ForbiddenCalls'
  BY <1>3 DEF Trap, Wake, Running, Stop, Others, loop
<1>4. ASSUME NEW t \in Tasks, Die(t) PROVE ForbiddenCalls'
  BY <1>4 DEF Die, Stop, Others, loop
<1>5. ASSUME NEW k \in Kids, NEW what \in {"thread", "process"}, Create(k, what) PROVE ForbiddenCalls'
  BY <1>5 DEF Create, Running, Others, loop
<1>6. ASSUME NEW k \in Kids, Exit(k) PROVE ForbiddenCalls'
  BY <1>6 DEF Exit, Running, Stop, Others, loop
<1>7. ASSUME NEW status \in {"0", "1"}, ExitGroup(status) PROVE ForbiddenCalls'
  BY <1>7 DEF ExitGroup, Running, Stop, Others, loop
<1>8. CASE Spawn
  BY <1>8 DEF Spawn, loop, LoopEnds, FirstStop
<1>9. CASE Attach
  BY <1>9 DEF Attach, Resume
<1>10. CASE Execve
  BY <1>10 DEF Execve, Resume
<1>11. ASSUME NEW t \in Tasks, Reap(t) PROVE ForbiddenCalls'
  BY <1>11 DEF Reap, Waited, Statuses
<1>12. ASSUME NEW t \in Tasks, Notice(t) \/ Vanished(t) PROVE ForbiddenCalls'
  BY <1>12 DEF Notice, Vanished, Waited, Resume, loop
<1>13. ASSUME NEW t \in Tasks, Call(t) PROVE ForbiddenCalls'
  <2>1. /\ kind' = kind /\ code' = code /\ task[t] = "stop" /\ t \notin killed
        /\ event[t] \in {"allowed", "errno", "return", "forbidden"}
    BY <1>13 DEF Call
  <2>2. CASE event[t] = "forbidden"
    <3>1. /\ UNCHANGED <<task, event>> /\ fault' = fault \cup {t}
          /\ killed' = killed \cup {u \in Tasks : Live(u)}
      BY <1>13, <2>2 DEF Call, KillGroup
    <3>2. t = Main \/ t \in Threads => code = "none" /\ Live(Main)
      BY <2>1 DEF Statuses
    <3>3. \A u \in Tasks : Live(u) => u \in killed'
      BY <3>1
    <3>4. Threads' = Threads
      BY <2>1
    <3>5. fault' \ Kids # {} \/ fault' \cap Threads # {} =>
            \/ fault \ Kids # {} \/ fault \cap Threads # {}
            \/ t = Main \/ t \in Threads
      BY <3>1, <3>4 DEF Tasks
    <3>6. \A k \in fault' \cap Kids : task'[k] # "none"
      BY <2>1, <3>1
    <3>7. fault' \ Kids # {} \/ fault' \cap Threads # {} =>
            code = "KILL" \/ (code = "none" /\ Live(Main) /\ Main \in killed')
      BY <3>1, <3>2, <3>3, <3>5
    <3>8. QED
      BY <2>1, <3>1, <3>3, <3>6, <3>7
  <2>3. CASE event[t] # "forbidden"
    <3>1. UNCHANGED <<killed, fault>> /\ \A u \in Tasks : Live(u)' <=> Live(u)
      BY <1>13, <2>1, <2>3 DEF Call, Resume
    <3>2. \A u \in Tasks : task'[u] # "none" <=> task[u] # "none"
      BY <1>13, <2>1, <2>3 DEF Call, Resume
    <3>3. QED
      BY <2>1, <3>1, <3>2
  <2>4. QED
    BY <2>2, <2>3
<1>14. CASE KillChildren \/ SetExited \/ JudgeTime \/ SetDied \/ Leave
  BY <1>14 DEF KillChildren, SetExited, JudgeTime, SetDied, Leave, tracee, loop, LoopEnds
<1>15. CASE Shock \/ ShockTLE \/ WallPasses \/ Launch \/ Kill \/ Wait
  BY <1>15 DEF Shock, ShockTLE, WallPasses, Launch, Kill, Wait, KillGroup, tracee, loop
<1>16. QED
  BY <1>1, <1>2, <1>3, <1>4, <1>5, <1>6, <1>7, <1>8, <1>9, <1>10, <1>11, <1>12, <1>13, <1>14,
     <1>15, <1>17 DEF Next, Tracee, Monitor

LEMMA TracerInvStays ==
    ASSUME TracerInv, [Next]_vars
    PROVE  TracerInv'
<1>1. CASE Next
  BY <1>1, TasksTypes, ThreadsTypes, FlagsTypes, FirstStopStays, LoopEndsStays, StatusesStay,
     ForbiddenCallsStay, TimeJudgedStays, SetupStays, NoOrphansStays DEF TracerInv, TracerTypeOK
<1>2. CASE UNCHANGED vars
  BY <1>2 DEF TracerInv, TracerTypeOK, TasksTyped, ThreadsTyped, FlagsTyped, FirstStop, LoopEnds,
              Statuses, ForbiddenCalls, TimeJudged, SetupFailureRaises,
              NoOrphans, Live, Threads, vars
<1>3. QED
  BY <1>1, <1>2

\* What has ended is what the grader reads.
LEMMA TracerInvFlags ==
    ASSUME TracerInv
    PROVE  FlagsSound
<1> USE DEF TracerInv
<1>1. FaultIsRTE
  <2> SUFFICES ASSUME exited, fault \ Kids # {} \/ fault \cap Threads # {}
               PROVE  "RTE" \in Flags
    BY DEF FaultIsRTE
  <2>1. task[Main] = "reaped"
    BY DEF LoopEnds
  <2>2. code = "KILL"
    BY <2>1 DEF ForbiddenCalls, Statuses
  <2>3. QED
    BY <2>2 DEF Flags
<1>2. main = "returned" => monitor \in {"leave", "over"}
  BY DEF LoopEnds
<1>3. ExcessIsTLE
  BY <1>2 DEF ExcessIsTLE, TimeJudged, Flags
<1>4. QED
  BY <1>1, <1>3 DEF FlagsSound

\* Nothing of a submission outlives its monitor.
THEOREM NoOrphansLeft == Spec => []NoOrphans
<1>1. TracerInv => NoOrphans
  BY DEF TracerInv
<1>2. QED
  BY <1>1, TracerInit, TracerInvStays, PTL DEF Spec

\* What the grader reads of a process that has ended: a forbidden call of Main
\* or of its threads is a runtime error, an excess of execution time is seen by
\* whoever waited, and a failure of the setup before execve is no verdict.  A
\* failed execve is graded, and an excess of wall time alone is not covered.
THEOREM FlagsAreSound == Spec => []FlagsSound
BY TracerInit, TracerInvStays, TracerInvFlags, PTL DEF Spec
-------------------------------------------------------------------------------
(* The pipes *)

\* What is written into a pipe is read or still in it.
Conserved ==
    /\ mode \in Pipe!Modes
    /\ held \in [Pipe!Pipes -> Nat] /\ got \in [Pipe!Pipes -> Nat]
    /\ written \in [Pipe!Pipes -> Nat]
    /\ \A x \in Pipe!Pipes : written[x] = got[x] + held[x]

\* Collecting the output of a process, with no interactor about.
Collecting ==
    /\ pc \in {"launch", "close", "poll", "kill", "wait", "done"}
    /\ proc \in [Pipe!Procs -> {"none", "fork", "run", "ok", "bad", "killed"}]
    /\ proc["I"] = "none"
    /\ polled \subseteq open /\ open \subseteq {"in", "out", "err"}
    /\ pc = "launch" => \A x \in {"out", "err"} : "J" \in writers[x]
    /\ proc["P"] \in {"fork", "run"} => \A x \in {"out", "err"} : "P" \in writers[x]
    /\ pc \in {"launch", "close"} => polled = {}
    /\ \A x \in polled \cap {"out", "err"} : held[x] > 0 \/ writers[x] = {}
    /\ pc \notin {"launch", "close"} =>
         \A x \in {"out", "err"} \ open : held[x] = 0 /\ writers[x] = {}

\* The output limit is noticed with the chunk that is over it.
Limited ==
    /\ ole <=> got["out"] > OutLimit \/ got["err"] > ErrLimit
    /\ pc = "kill" => ole
    /\ pc \in {"wait", "done"} => ole \/ open = {}

PipeInv == Conserved /\ (mode = "standard" => Collecting /\ Limited)

LEMMA PipeInit ==
    ASSUME Pipe!Init
    PROVE  PipeInv
<1>1. Conserved
  BY DEF Pipe!Init, Conserved
<1>2. mode = "standard" => Collecting /\ Limited
  BY LimitAssumption DEF Pipe!Init, Collecting, Limited, Pipe!Procs, Pipe!Pipes
<1>3. QED
  BY <1>1, <1>2 DEF PipeInv

LEMMA ConservedStays ==
    ASSUME Conserved, Pipe!Next
    PROVE  Conserved'
<1> USE DEF Conserved, Pipe!Pipes
<1>1. ASSUME NEW p \in Pipe!Procs, Pipe!Process(p) \/ Pipe!WallKill(p) PROVE Conserved'
  <2>1. CASE Pipe!Read(p)
    BY <2>1 DEF Pipe!Read, Pipe!Inputs
  <2>2. CASE Pipe!Write(p)
    BY <2>2 DEF Pipe!Write, Pipe!Outputs
  <2>3. CASE Pipe!Settle(p) \/ Pipe!Choose(p) \/ Pipe!Exit(p) \/ Pipe!WallKill(p)
    BY <2>3 DEF Pipe!Settle, Pipe!Choose, Pipe!Exit, Pipe!WallKill, Pipe!pipes
  <2>4. QED
    BY <1>1, <2>1, <2>2, <2>3 DEF Pipe!Process
<1>2. ASSUME NEW x \in Pipe!Pipes, Pipe!Handle(x) PROVE Conserved'
  BY <1>2 DEF Pipe!Handle, Pipe!Give, Pipe!Take, Pipe!HangUp
<1>3. CASE Pipe!TalkRead \/ Pipe!TalkWrite
  BY <1>3 DEF Pipe!TalkRead, Pipe!TalkWrite
<1>4. CASE \/ Pipe!LaunchProcess \/ Pipe!CloseChildEnds \/ Pipe!LaunchInteractor
           \/ Pipe!CloseInteractorEnds \/ Pipe!Poll \/ Pipe!KillOLE \/ Pipe!Talk
           \/ Pipe!WaitProcess \/ Pipe!WaitInteractor
  BY <1>4 DEF Pipe!LaunchProcess, Pipe!CloseChildEnds, Pipe!LaunchInteractor,
       Pipe!CloseInteractorEnds, Pipe!Poll, Pipe!KillOLE, Pipe!Talk, Pipe!WaitProcess,
       Pipe!WaitInteractor, Pipe!pipes
<1>5. QED
  BY <1>1, <1>2, <1>3, <1>4 DEF Pipe!Next, Pipe!Judge

\* Who ends lets go of the pipes, which the other side may see.
LEMMA Ends ==
    ASSUME Collecting, proc["P"] \in {"fork", "run"}, NEW how \in {"ok", "bad", "killed"},
           Pipe!End("P", how)
    PROVE  /\ proc' \in [Pipe!Procs -> {"none", "fork", "run", "ok", "bad", "killed"}]
           /\ proc'["I"] = "none" /\ proc'["P"] \notin {"fork", "run"}
           /\ \A x \in {"out", "err"} : "J" \in writers[x] => "J" \in writers'[x]
           /\ \A x \in {"out", "err"} : writers[x] = {} => writers'[x] = {}
<1>1. /\ proc' \in [Pipe!Procs -> {"none", "fork", "run", "ok", "bad", "killed"}]
      /\ proc'["I"] = "none" /\ proc'["P"] \notin {"fork", "run"}
  BY DEF Pipe!End, Collecting, Pipe!Procs
<1>2. \A x \in {"out", "err"} : writers'[x] = writers[x] \ {"P"}
  BY DEF Pipe!End, Pipe!Pipes
<1>3. QED
  BY <1>1, <1>2

\* The process itself reads its input and writes its output, or ends.
LEMMA CollectingProcess ==
    ASSUME Conserved, mode = "standard", Collecting, Limited, NEW p \in Pipe!Procs,
           Pipe!Process(p) \/ Pipe!WallKill(p)
    PROVE  mode' = mode /\ Collecting' /\ Limited'
<1>1. p = "P" /\ proc["P"] \in {"fork", "run"}
  BY DEF Collecting, Pipe!Procs, Pipe!Process, Pipe!Settle, Pipe!Choose, Pipe!Read, Pipe!Write,
         Pipe!Exit, Pipe!WallKill
<1>2. \A x \in {"out", "err"} : "P" \in writers[x]
  BY <1>1 DEF Collecting
<1> USE DEF Collecting, Limited
<1>3. CASE Pipe!Settle(p)
  BY <1>1, <1>3 DEF Pipe!Settle, Pipe!From, Pipe!poller, Pipe!Pipes
<1>4. CASE Pipe!Choose(p)
  BY <1>4 DEF Pipe!Choose, Pipe!pipes, Pipe!poller
<1>5. CASE Pipe!Read(p)
  BY <1>1, <1>5 DEF Pipe!Read, Pipe!poller, Pipe!Inputs, Pipe!To, Pipe!Pipes, Conserved
<1>6. CASE Pipe!Write(p)
  BY <1>1, <1>2, <1>6 DEF Pipe!Write, Pipe!poller, Pipe!Outputs, Pipe!From, Pipe!Pipes, Conserved
<1>7. CASE Pipe!Exit(p) \/ Pipe!WallKill(p)
  <2>1. PICK how \in {"ok", "bad", "killed"} : Pipe!End("P", how)
    BY <1>1, <1>7 DEF Pipe!Exit, Pipe!WallKill
  <2>2. UNCHANGED <<mode, pc, held, got, open, polled, ole>>
    BY <1>7 DEF Pipe!Exit, Pipe!WallKill, Pipe!poller
  <2>3. QED
    BY <1>1, <2>1, <2>2, Ends
<1>8. QED
  BY <1>3, <1>4, <1>5, <1>6, <1>7 DEF Pipe!Process

\* What poll returned is read, and only an end that is empty is hung up.
LEMMA CollectingJudge ==
    ASSUME Conserved, mode = "standard", Collecting, Limited, Pipe!Judge
    PROVE  mode' = mode /\ Collecting' /\ Limited'
<1> USE DEF Collecting, Limited, Pipe!Goto
<1>1. CASE Pipe!LaunchProcess
  BY <1>1 DEF Pipe!LaunchProcess, Pipe!Fork, Pipe!Pipes, Pipe!Procs, Pipe!poller
<1>2. CASE Pipe!CloseChildEnds
  BY <1>2 DEF Pipe!CloseChildEnds, Pipe!Drop, Pipe!Pipes
<1>3. CASE Pipe!Poll
  BY <1>3 DEF Pipe!Poll, Pipe!CanWrite, Pipe!CanRead, Pipe!pipes
<1>4. ASSUME NEW x \in Pipe!Pipes, Pipe!Handle(x)
      PROVE  mode' = mode /\ Collecting' /\ Limited'
  <2>1. x \in {"in", "out", "err"} /\ x \in polled
    BY <1>4 DEF Pipe!Handle
  <2>2. CASE x = "in"
    <3>1. /\ UNCHANGED <<mode, proc, got, ole, pc>> /\ pc = "poll" /\ polled' = polled \ {"in"}
          /\ open' = open \/ open' = open \ {"in"}
      BY <1>4, <2>2 DEF Pipe!Handle, Pipe!Give
    <3>2. \A y \in {"out", "err"} : held'[y] = held[y] /\ writers'[y] = writers[y]
      BY <1>4, <2>2 DEF Pipe!Handle, Pipe!Give, Pipe!Drop, Pipe!Pipes, Conserved
    <3>3. QED
      BY <2>2, <3>1, <3>2
  <2>3. CASE x # "in" /\ Pipe!Take(x)
    BY <1>4, <2>1, <2>3, LimitAssumption DEF Pipe!Handle, Pipe!Take, Pipe!Pipes, Conserved
  <2>4. CASE x # "in" /\ Pipe!HangUp(x)
    <3>1. /\ UNCHANGED <<mode, proc, held, got, ole, pc>> /\ pc = "poll" /\ held[x] = 0
          /\ \A y \in {"out", "err"} : writers'[y] = writers[y]
          /\ polled' = polled \ {x} /\ open' = open \ {x}
      BY <1>4, <2>4 DEF Pipe!Handle, Pipe!HangUp, Pipe!Drop, Pipe!Pipes
    <3>2. writers[x] = {}
      BY <2>1, <2>4, <3>1
    <3>3. QED
      BY <2>1, <3>1, <3>2
  <2>5. QED
    BY <1>4, <2>2, <2>3, <2>4 DEF Pipe!Handle
<1>5. CASE Pipe!KillOLE
  <2>1. UNCHANGED <<mode, held, got, open, polled, ole>> /\ pc' = "wait" /\ pc = "kill"
    BY <1>5 DEF Pipe!KillOLE, Pipe!poller
  <2>2. CASE proc["P"] \in {"fork", "run"}
    BY <1>5, <2>1, <2>2, Ends DEF Pipe!KillOLE
  <2>3. CASE proc["P"] \notin {"fork", "run"}
    BY <1>5, <2>1, <2>3 DEF Pipe!KillOLE
  <2>4. QED
    BY <2>2, <2>3
<1>6. CASE Pipe!WaitProcess
  BY <1>6 DEF Pipe!WaitProcess, Pipe!pipes, Pipe!poller
<1>7. QED
  BY <1>1, <1>2, <1>3, <1>4, <1>5, <1>6
     DEF Pipe!Judge, Pipe!LaunchInteractor, Pipe!CloseInteractorEnds, Pipe!Talk, Pipe!TalkRead,
         Pipe!TalkWrite, Pipe!WaitInteractor

\* Output that is not over its limit is collected to the last chunk, whoever
\* ended first, and output over its limit is never taken for the whole.
THEOREM OutputIsCollected == Pipe!Spec => []NoOutputLost
<1>1. PipeInv /\ [Pipe!Next]_(Pipe!vars) => PipeInv'
  <2> SUFFICES ASSUME PipeInv, Pipe!Next \/ UNCHANGED Pipe!vars PROVE PipeInv'
    OBVIOUS
  <2>1. CASE Pipe!Next
    <3>1. mode' = mode
      BY <2>1 DEF Pipe!Next, Pipe!Judge, Pipe!Process, Pipe!LaunchProcess, Pipe!CloseChildEnds,
           Pipe!LaunchInteractor, Pipe!CloseInteractorEnds, Pipe!Poll, Pipe!Handle, Pipe!KillOLE,
           Pipe!Talk, Pipe!TalkRead, Pipe!TalkWrite, Pipe!WaitProcess, Pipe!WaitInteractor,
           Pipe!Settle, Pipe!Choose, Pipe!Read, Pipe!Write, Pipe!Exit, Pipe!WallKill
    <3>2. QED
      BY <2>1, <3>1, ConservedStays, CollectingProcess, CollectingJudge DEF PipeInv, Pipe!Next
  <2>2. CASE UNCHANGED Pipe!vars
    BY <2>2 DEF Pipe!vars, PipeInv, Conserved, Collecting, Limited
  <2>3. QED
    BY <2>1, <2>2
<1>2. PipeInv => NoOutputLost
  <2> SUFFICES ASSUME PipeInv, pc = "done", mode = "standard", ~ole
               PROVE  /\ \A x \in {"out", "err"} : got[x] = written[x]
                      /\ got["out"] <= OutLimit /\ got["err"] <= ErrLimit
    BY DEF NoOutputLost, Pipe!NoOutputLost, PipeInv, Limited
  <2>1. Conserved /\ Collecting /\ Limited
    BY DEF PipeInv
  <2>2. \A x \in {"out", "err"} : held[x] = 0
    BY <2>1 DEF Collecting, Limited
  <2>3. QED
    BY <2>1, <2>2, LimitAssumption DEF Conserved, Limited, Pipe!Pipes
<1>3. QED
  BY <1>1, <1>2, PipeInit, PTL DEF Pipe!Spec
===============================================================================
