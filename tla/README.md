# coding_arena: specification and proofs

TLA+ models of the coding arena: the Go backend and its bridge to the judge, the
judge's connection, its gradings, its sandbox and its checkers, and the web
client's data; with what TLC checks of them on small instances and what TLAPS
proves of them for all.

## 1. The system

Paths are relative to the repository.

| part | code | state | operations | modelled in |
|---|---|---|---|---|
| frontend | `frontend/lib/data-service.ts`, `frontend/src/pages` | cached problems and starter code, what each page shows | load with retries, navigate, run, submit | DataService |
| HTTP API | `backend/handler`, `adapter`, `middleware`, `main.go` | requests under way | submit, run, list, shutdown | Submissions |
| database | `backend/db` | the submissions table | insert, list by pages | Submissions |
| rate limiter | `backend/middleware/ratelimit.go` | a bucket per client | allow, cleanup | RateLimiter, TokenBucket |
| judge bridge | `backend/bridge/bridge.go` | sessions, waiting calls, accumulated cases, next id | Submit, HasJudge, a handler per connection, Stop | Bridge, Verdict |
| judge connection | `judge-server/dmoj/packet.py` | the socket, the queue of case results | connect, reconnect, handshake, read loop, flush thread | Arena, GradingService |
| judge controller and worker | `judge-server/dmoj/judge.py` | grading lock, current worker, two pipes | begin and abort a grading, relay messages, grade, listen | JudgeGrading |
| grading order | `judge.py` (`_grade_cases`), `problem.py` | batches passed, short-circuiting | resolve the layout, go through the cases | GradeCases |
| checkers | `checkers/`, `contrib/` | none | compare two texts, read a helper's exit | Checkers |
| graders' pipes | `utils/communicate.py`, `graders/interactive.py`, `bridged.py` | who holds which end of which pipe | collect, converse, let converse | Communicate |
| traced process | `cptbox/tracer.py`, `ptproc.cpp`, `helper.cpp` | tasks, flags, three threads | launch, monitor, shock, kill, wait | TracedProcess |
| sandbox policy | `cptbox/isolate.py`, `filesystem_policies.py` | two trees of rules | add a rule, answer a call | SandboxPolicy |
| compiled binaries | `executors/compiled_executor.py` | the cache, directories | compile, hit, evict, clean up | BinaryCache |
| test data | `problem.py` (`TestCase`), `config.py`, `cptbox/utils.py` | the nodes of `init.yml`, files in memory, what a generator wrote | look up, run a generator, give input and answer, free | CaseData |
| executors | `executors/`, `utils/load.py`, `judgeenv.py` | the runtime dictionary, what is served | autoconfigure, load, self-test | Runtimes |
| test driver | `testsuite.py`, `commands/test.py` | the expectation, a flag, a count | grade the submissions of each test, compare | Testsuite |
| problem monitor | `monitor.py`, `control.py`, `judgeenv.py`, the updater of `judge.py` | events, what the bridge was told | notice, list, send, ping, stop | ProblemMonitor |

A submission's way: the browser POSTs it; the middleware admits it; the handler
asks the adapter, whose context has the time limit and an overhead as its
deadline; the bridge picks a judge, writes a `submission-request` on that
judge's TCP connection and waits on a channel. The judge's network thread reads
it, takes the grading lock and starts a worker process; a grading thread turns
the worker's messages into packets, case results through a queue that another
thread flushes every 250 ms. The worker goes through the cases of the problem:
for each it launches the submission under the tracer, talks to it through pipes
and compares its output. The bridge's handler of the connection accumulates the
cases and, at `grading-end`, puts the result into the channel of the call that
waits for that submission id; the handler stores a row and answers. The judge
connects to the bridge, never the other way, and reconnects by itself.

What is hard in it:

* **concurrency**: the goroutines of the bridge share two `sync.Map`s without a
  lock across operations; three threads of the judge share one socket that one
  of them replaces; two processes with two threads each share a pipe; a tracer,
  a killer and a waiting thread share the flags of a process;
* **failure**: the judge ends itself with `os._exit` on any failed write and
  Docker restarts it; workers crash, hang or lose their pipe; connections break
  while a grading is under way; the backend restarts; the database is away;
* **ordering**: verdicts late, repeated or of an earlier life of the backend;
  events of several tasks in any order; a load that ends after a newer one;
* **timeouts**: the context of a call against the judge's answer, the judge's
  300 s read timeout, the worker's silence, CPU and wall clocks;
* **aggregation**: two tables in two languages that must order flags alike, and
  batches whose dependencies and short-circuits carry over.

PROJECT.json lists these hazards one by one, with the line and the properties.

## 2. The modules

A specification has the name of the part; an `MC` module gives it a small
instance; a `Proofs` module holds its theorems. Operators with a name like
`ReturnKeepsPending` stand before the definition they vary: each is the code
with a plausible mistake, and shows that a property notices it. No specification
uses them. Submissions and BinaryCache name their initial and next-state
predicates after themselves, because an `MC` module extends them beside another
specification.

Parts that share no state are checked side by side: `MCRules` (Verdict,
GradeCases, Checkers, SandboxPolicy, BinaryCache), `MCJudge` (those of `MCRules`,
CaseData, Runtimes, Testsuite), `MCBackend` (RateLimiter,
Submissions, DataService), `MCSandbox` (TracedProcess, Communicate) and
`MCConnection` (Bridge, ProblemMonitor). There a behaviour is of one part, while
the others rest in a state they can be in; nothing is gained by interleaving what
cannot meet, and the state space is the sum of the parts' and not their product.
Parts that do interact are composed: Arena is Bridge joined with the judge's end
of the connection.

### Verdict, VerdictOrder

A mask over named bits is the set of its bits; `|=` is union. Bits outside the
table (`UNKNOWN(n)`) do not occur: `result.py` defines the same eight. VerdictOrder lets
the cases of a submission accumulate; a verdict is read after each.

### Bridge

| variables | code |
|---|---|
| `pc`, `name`, `closed`, `full` | a `JudgeConn` and where its `handleJudge` is; whether its send buffer is full |
| `judges` | `b.judges` |
| `pending`, `chan` | `b.pending` and the channel of each call |
| `caseResults`, `heap`, `box`, `seen`, `todo` | `b.caseResults`: a map to *pointers* to slices; the slices; what a handler holds |
| `nextID`, `done` | `b.nextID`, `b.done` |
| `call`, `subID`, `target`, `expired`, `outcome`, `answer` | each `Submit` call |

Grain of steps. What runs under `b.mu`, and each operation of a `sync.Map`, an
atomic or a channel, is one step. `accumulateCase` is two (the pointer is
loaded and the slice read; the longer slice is written), since nothing excludes
another handler in between; so an append can be lost, and can go to a slice that
`finalizeResult` has just taken out of the map. `finalizeResult` is two
(`LoadAndDelete` and the copy of the slice; the second range over the slice, and
the delivery): between its other steps it touches nothing shared. `Submit` is
pick, store, send, select; the two instructions of "store" commute with every
other goroutine, because the id is not known to anyone before it is in
`pending`. `deliverResult` loads the channel and sends into it in one step: a
call that returns in between never reads its channel again, so the later send
has no effect that the earlier drop has not.

The peer may send any packet of the protocol at any time. With `Roaming` it may
speak of submissions it was never sent, or that do not exist (a packet without
an id has id 0). It may stop reading (`MayStall`): `full` stands for the
socket's buffers being full. A handler answers packets with no write but the
handshake's, so a full buffer concerns `Submit` alone.

Left out: packets that change nothing (`ping-response`,
`submission-acknowledged`, `grading-begin`, `compile-message`, batches);
errors of `Accept`, after which the loop goes on; the mutex of a connection's
`send` (two calls that write to a stalled connection wait on it, which `full`
covers); points, times and memory, which are sums of the same cases.

### Arena

Arena joins each action of Bridge with its effect on the two streams of a
connection, and adds the judge process:

| variables | code |
|---|---|
| `conn`, `input` | `self.conn`, `self.input`: after `conn.close()` the socket stays open until `_connect` replaces `self.input`, whose `makefile` holds it |
| `net` | the network thread: `down` (process not running), `hello` and `awaiting` (in `handshake`), `reading`, `begin` (in `begin_grading`, before it has the grading lock), `dropped` (in `_reconnect`) |
| `inbox`, `grading` | the request just read; the current worker, with the cases and the end it has still to report |
| `queue` | `_testcase_queue` |
| `link`, `toBridge`, `toJudge` | the connection and what is under way on it |

Faults, each as often as `Budget` says: the judge process dies (`Crash`); a
connection is lost with what is under way (`Break`); the judge's read times out
(`IdleTimeout`); the backend dies and starts again (`RestartBackend`). A read
that ends in the middle of a packet's length ends the process
(`struct.error`); `Crash` covers it. A write to a connection the other end has
closed may seem to succeed, as TCP lets the first one, and its packet is lost; or
it fails, and then the process exits (packet.py:247). A connection that
`_reconnect` has dropped because nothing came for 300 s is whole: Python keeps the
socket open for `self.input`, and what the grading and flush threads write until
`_connect` replaces it still arrives.

Left out: packets the bridge never sends (ping, get-current-submission) and
those it ignores; `Stop`, which Bridge has; TLS. terminate-submission and
disconnect are in JudgeGrading, supported-problems in ProblemMonitor, and the
worker is the list `Plan` gives of its results.

### RateLimiter

`tokens` is what the entry holds, `age` the time since its `lastSeen`. Time is
counted in ticks and tokens in units of which a request costs `Cost`, so rates
below one token per tick are integers. `spent` and `earned` belong to an
observer who may start to count at any moment. Floating point is not modelled.

### JudgeGrading

The judge process and one worker process per submission (`judge.py`). `net` is
the network thread, between packets or inside `begin_grading`, `abort_grading`
or `murder`; `thread[s]` the grading thread of submission `s`; `worker[s]` and
`listener[s]` the two threads of its worker; `up` and `down` the two directions
of their pipe; `sent[s]` the packets the bridge gets about `s`. `lock`,
`current`, `ready`, `aborting` are `_grading_lock`, `current_judge_worker`,
`ipc_ready_signal` and `_abort_requested`. A worker may raise, hang, die of
itself or be killed (`Raise`, `Crash`, `LoseWorker`), as often as `Faults`
allows, and the bridge or the network may ask for an end `Aborts` times. A
terminate-submission names a submission, but packet.py:278-279 calls
`abort_grading` without it, so that the check of the id there (judge.py:253-255)
never runs and the request reaches whatever is graded when it arrives; `reached`
holds those. A short-circuited case looks at the flag as any other does, a little
more often than the code. What a case results in is left to GradeCases. A timeout of `recv` may strike whenever
nothing is in the pipe: it is at least 60 s and twice the time limit, and a
case may take three times that limit on the wall clock, so a slow worker and a
dead one look alike.

### GradeCases

The layout is made from `init.yml` or from the names in an archive (`Match`);
`Resolve` numbers batches and turns points of pretests into 0 where the code
does; then each step of `_grade_cases` handles a group or a case and sends one
message. What a case returns is a choice; a checker with `run_on_error` is asked
even about a run that failed, and its answer is one of those. `problem.py` numbers
the batches of tests first (229-249) and validates dependencies by those numbers
(`BatchNo`, 334-337), while `judge.py` counts the batches it grades, pretests
first (473-495). Unless a run grades batches of both kinds the numbers agree
(`NumbersAgree`); `DependenciesFirst` and `NoNeedlessSkip` are about those runs,
and `batch_numbers` shows what happens in the others. "has conflicting test cases"
(problem.py:155) cannot be reached. A batch without cases never satisfies those that depend on it.

### Checkers

Texts are written a character at a time, over two letters, a blank and a line
end; every pair of texts within the bounds is a state. `Standard` follows the one
pass of `_checker.c` by what it compares; the reference in `StandardIsTokens` is
written from the tokens. The exit codes of helper programs are those of the
contrib modules `default`, `testlib` and `coci`. Left out: `easy`, `bridged`'s
command line, `peg`'s ratio, which nothing bounds (peg.py:37-43), and the
rounding of floats.

### Communicate

Four pipes of `Capacity` chunks. A process settles on a call (read, write, exit)
and makes it when the pipe lets it; the judge does likewise in each of its three
modes: `safe_communicate` with its poll loop and output limits, a Python
interactor in the judge, and an interactor process. `readers` and `writers` say
who still holds an end, which decides who reads an end of file and who gets
EPIPE. An interactive `WrongAnswer` leaves the submission's stdin open
(interactive.py), so that only the wall clock ends one that waits for input.

### TracedProcess

`task` and `event` are the kernel's view of each task; `monitor` is at the call
of `pt_process::monitor` it makes next; `shocker` and `main` are the other two
threads of TracedPopen. The kernel delivers events in any order, a SIGKILL
overtakes a stop, and a task may vanish between its stop and the next ptrace
call. The shocker's SIGWINCH wakes a task that sleeps once a second (`Wake`), and
the time between two returns of wait4 is added to `execution_time` whether tasks
ran or slept (ptproc.cpp:112-118), so `cpuOver` may come of either. `Kids` may be threads or processes. Registers, memory and the numbers of
system calls are abstracted to whether a call is allowed, forbidden, needs a
callback or creates a task. Behaviours kept as they are in the code: a kill that
comes before the child's setpgid is lost, and the shocker makes up for it; a
forbidden call in a forked child when the main task exits can leave exit code 0
with a fault recorded; a program that cannot be executed is taken for a runtime
error of the submission, because `_initialized` is set at the entry of execve
(ptproc.cpp:213-217) and the branch of `wait` meant for it (tracer.py:224-225)
is dead, and `SetupFailureRaises` says so; the comment in `kill` about a reused pid is taken at its word and not modelled.

### SandboxPolicy

A policy is the tree of nodes its list of rules builds, one rule at a time in
any order; the properties compare it with the list. The file system is
`Tree`, on the instance one with a link to a directory and one to a file. `Handler` and `Filter` are
the tables of isolate.py by kind of call. Left out: `/proc/self`, `utimensat`,
`fchmod`, and paths that cannot be read.

### BinaryCache

Executors are numbered in the order they are made; `dir[o]` is the directory of
`o`, which a hit shares with its entry. Python's reference counting collects an
executor at once when nobody refers to it. Kept as they are: a hit does not
refer to its entry, so that an entry evicted or replaced meanwhile takes the
files of those who were served from it. "Once an Executor is instantiated, it
should be ready to launch" (compiled_executor.py:23-24) is therefore not kept for
them, and `OwnersKeepFiles` does not claim it: it is about executors that
compiled, and about served ones while their entry is in the cache. And
failed compilations with `cached=True` and replaced entries leave their
directories behind.

### ProblemMonitor

The disk has versions. `noticed` is the last change the observer was told of;
`known` is what the bridge knows on this connection. Listing is a glob and then
a look at each result, and the disk may change in between. The network thread
lists before each handshake; the updater and the refresh worker wait on their
events, clear them and act. Kept as they are: what changes between `load_env` and
`Monitor.start` is not noticed, because the list of roots is cached by then;
asking for updates again and again while a connection is being made can spoil
each new connection, so `Breaks` bounds the asks; a listing that fails with
OSError counts as a lost connection. `RefreshWorker` calls
`urlopen(url, data='')` (monitor.py:54), and Python 3 rejects a str body before
anything is sent: every ping is a TypeError that is logged, so the worker only
clears its event (`Refresh`) and no property is about pings.

### Submissions

A request goes through the chain of `main` (`Chain`), which answers it or hands
it to its handler; then HasJudge, Submit, the insert and the reply are steps of
one goroutine, among which the judge may leave, the deadline pass, the client go
or the database fail. Only what the bridge answers is a choice here; Bridge and
GradingService say what it may be. Rows get their `created_at` when the insert
begins and become visible when it commits. A reader pages through the list
meanwhile. SIGTERM gives handlers 30 s, a grading may take 62: `Exit` may end
the process under them, and `log.Fatalf` then skips `db.Close` and `b.Stop`.

### DataService

Loads wait where the code awaits a fetch, and go on in any order; a load outlives
the page that began it. Kept as they are: a load of an earlier address that ends
after the load of the present one, on the same mounted page, shows the wrong
problem while a submission goes to the one in the address (ProblemDetail.tsx:98-106
and 298); what such a page shows is one of the loads that overlapped (`asked`),
and `ShownIsAsked` promises no more; the flag `isLoading` is cleared by either;
a load of an unknown id that ends late leads to not-found from another page;
retries of a fetch do not look at the cache again. `submitCode`, the validators
and `mock-api.ts` are used by no page.

### CaseData

One worker's way through the cases of a problem, as far as their data go. `raw`
holds the nodes of `init.yml` as the program sees them, `written` as they were
loaded; a lookup climbs from the case to its batch and the problem (`Owner`), and
stops at an entry that is there but null. A key that is code is run by the first
lookup that meets it, and its result put where the code stood (`Evaluate`). `io`
and `generated` are the two caches of a `TestCase`, `opened` all files in memory
that were made, `runs` all runs of generators. A worker that raises ends (`at =
"dead"`), and the operating system closes its files. The order of calls is that
of the standard grader (input, submission, answer, checker) or of the bridged one
(answer before the submission is through). What text is in a file, a generator's
arguments, and interactive graders of a problem's own are left out.

### Runtimes

`Autoconfig` is one self-test of `dmoj-autoconf`: an executor is tried with a
dictionary of its own entries (`Attempt`), and what worked, without a mode that
is the default, goes into the one dictionary of all (`Config`). A judge reads it,
or has a section of its own that replaces it, and tries the executors again.
`Machines` says what works with which command in which mode, so that a self-test
is a function of the machine and the dictionary; a file may go in between
(`Uninstall`). `RuntimesAssumption` says that executors that share a mode's key
have the same two modes, as `cls.arch` has (c_like_executor.py:115), and that a
compiler that can build for the machine's own processor can build for the generic
one: without it one C compiler that falls back on the generic target would take
that of the others away.
`SharedCommands` says that executors that share a key for a command take the first
program they find. It may be another program for each: GASARM, and LLC on arm64,
look for two linkers under `ld_arm` (asm_executor.py:216 and 228), and
`dict.update` leaves that of the later one. The instance has the two;
`ConfiguredServes` excepts an executor whose command a later one replaced by
another program (`Replaced`), which the code does not serve.

### Testsuite

The driver stands where the packet manager does; what the grading thread sends is
any story it can tell (results in order, then an end, or an internal error at any
point). Codes and scores are expected of all cases or of the listed ones;
feedback is compared in the same way and left out. `begin_grading` is called with
`blocking`, so a story is over when the flag is read. Kept as it is: for a listed
case with a score the test does not expect, making the message raises (it joins
ints as strings, testsuite.py:81), and the judge reports an internal error
(judge.py:179); `Raises` says so. A test with `expect: '*'` would then accept
that error and pass in spite of the score. No test of the repository lists
scores; `MCExpectations` has listed scores only with tests that do not expect an
error, and `DriverSound` is not checked for a test with both.

## 3. Properties and runs

Deadlock is not checked: requests, calls, connections, submissions and faults
are finite in number and every model comes to rest when they are used up.

| run | instance | shows |
|---|---|---|
| `rules` | two cases over eight flags; up to three entries of `init.yml` with batches, dependencies, pretests, and archives of two cases; texts of up to 3 and 4 characters; up to two rules; four executors, three keys, a cache of two | `VerdictFaithful`: the two tables agree and a verdict is some case's. `DependenciesFirst`, `NoNeedlessSkip` (where the two numberings agree), `FailureStops`: which cases run. `CheckersSound`, `PolicyExact`, `CacheSound` |
| `rules`, data | two cases in a batch or not; files in a directory or an archive that may lack one, generators and code at any level | `CaseDataSound`: a case's input and answer are its own, of one run of its generator (`OwnData`, `GeneratedOnce`), cases that inherit one `out` entry have one answer (`SharedAnswers`), and no file of an earlier case is left open (`NothingLeftOpen`) |
| `rules`, runtimes | three compilers, two of one command, that share an architecture, a Java with two machines, and two assemblers with different linkers of one key; every set of modes that work; one file lost | `ConfigSound`: what autoconfiguration calls working works for the judge that reads its dictionary, unless another program was found later for the same key (`ConfiguredServes`), and what works in any way is found (`NothingMissed`) |
| `rules`, tests | two tests, two submissions, two cases, two codes and scores | `DriverSound`: a submission fails exactly when it did what its test does not expect (`FailedIffUnexpected`), and the count misses none (`EveryFailureCounts`) |
| `bridge_results` | two calls, two connections of one judge id, peers that say anything | `OwnResult`, `PendingExact`, `RegistrySound`, `FirstVerdictWins` |
| `connection_liveness` | one call, two connections, peers that stop reading, with or without an end; two changes of the disk and one break | `EndsOnExpiry`, `ClosedIsForgotten`; `EveryChangeReported`, `StopEnds` |
| `arena_service` | a submission of two cases and one that does not compile, two connections, one crash | `VerdictSound`, `ImplementsService` |
| `arena_reconnect` | a worker that fails after one case and one that ends its grading; one idle timeout, broken connection or restart at any point | `OwnCasesOnce` |
| `backend` | two clients and a bucket of two requests; two requests of every kind, a reader with pages of one row, shutdown at any point; three visits and two presses, one retry | `NeverOverRate`, `ImplementsBucket`; `AnswerAfterRecord`, `ErrorsReadable`, `NoRowSkipped`, `EveryRequestEnds`; `PageIsOwn` |
| `grading` | two submissions, of two cases and one; one fault, one abort | `OneAtATime`, `StoryOnce`, `AbortedWhenReached`, `EveryGradingEnds`, `FreesJudge`, `OrphansAbort` |
| `sandbox` | a process with one thread or child; pipes of one chunk, two chunks to write | `FlagsSound`, `NoOrphans`, `EndsInTime`; `NoOutputLost`, `CaseEnds` |

Bounds. Two calls are enough to confuse two submissions, and two connections to
have a session replaced while the older one ends; a judge id that two peers share
is the case of interest, so there is one id. `MaxId` admits every id the calls
can get, `MaxCases` what the plans can accumulate, and there are as many `Boxes`
as can be pointed to at once. In `bridge_results` the constraint `MCBound` keeps
stalls and packets of cases to the time when one session and at most one call
exist; two sessions with both are in `connection_liveness`, and packets of cases
that two sessions send in the Arena runs. One fault can fall before, between and
after any two steps of two gradings; a second reconnection would need a third
connection. Two submissions are what an overlap of one grading's end with the
next one's beginning takes. One thread or child beside the main task has the
races of creation against exit; a second kid would repeat them. A pipe of one
chunk is full and empty after each step. Four characters hold two tokens and a
line end between them, with white space at an end. Two rules can name the same
path, a path and its link's target, or a directory and what is below it. With
three keys a cache of two must evict, and a fourth executor can be served before
or after. `MCPeriod` bounds an observer's period and not the run. Two requests
and pages of one row let a row commit between two pages, before or behind what
was read. Two cases are enough for one to find what the other's lookups stored or
left open; a third executor can overwrite what a second one did to the first's
entries; and the flag of one submission can leak into the next one of its test or
of another.

What a property leaves out. `OwnCasesOnce` asks less once the backend has
restarted, because the code gives less: cases of a submission that ended with an
internal error stay in `caseResults`, and a submission that then gets the same
id in the new numbering is answered with both. `VerdictSound` is checked where
one session at a time reports a submission; when the judge reconnects in the
middle of a grading, the handlers of two sessions may interleave in
`accumulateCase` and `finalizeResult`, and the status then counts a case the
result does not list. That takes a handler that is seconds behind. Similarly no
property promises that no case is lost, since an append can be, nor that a
verdict after a reconnection is of all cases: a packet of cases that is lost with
its connection is not sent again, and the verdict is that of the rest.
`StoryOnce` lets an internal error follow an end, because a worker may still fail
after its last words. `AbortedWhenReached` says that an aborted grading was the
current one when a request arrived, and not that the request was meant for it.
`EndsOnExpiry` leaves out the call that is in `conn.Write` to a judge that has
stopped reading: the write has no deadline and no eye on the context
(bridge.go:191, 447-450), so that "blocks until the judge finishes grading or the
context expires" (bridge.go:166) is not kept there. `EveryRequestEnds` takes Submit
to return; a handler whose Submit is in such a write does not end. `ClosedIsForgotten`
leaves out the entry under the empty id, which a judge that announces none gets
and the end of its session does not delete (bridge.go:229), so that `HasJudge` stays
true. `FlagsSound` says nothing of an excess of wall time alone: the shocker sets
`_is_tle` after the kill (tracer.py:373-375), and who waited may have read the
flag before; nor of a forbidden call in a forked child.

Fairness.

* Bridge: goroutines that can run do run, timers fire, and reading or writing a
  closed connection fails at once; nothing is assumed of peers, which may stop
  reading for ever.
* Arena: the bridge's calls go on and their timers fire; nothing is assumed of
  the judge, the network or the faults.
* JudgeGrading: the controller's threads run, its timers fire, a killed worker
  dies, a worker's listener reads; nothing is asked of grading itself, which may
  hang.
* TracedProcess: the three threads run, time passes, what is killed dies, and
  the child gets to its first stop; nothing is asked of the program.
* Communicate: the judge runs and programs are finite; the wall clock is counted
  on in conversations only, so that collecting output must end without it.
* ProblemMonitor: every thread runs; nothing need change, break or end.
* Submissions: goroutines run, the adapter's context expires, and so does the
  shutdown's. DataService: a fetch comes to an end.

### Where the code departs from what it says

| run | what happens |
|---|---|
| `bridge_has_judge` | The old session of a reconnected judge ends after the new one registered and deletes the entry by name: the judge serves, and nothing finds it. The shortest trace has a session that fails while it is greeted; one that served ends the same way. |
| `arena_restart` | The backend restarts during a grading; the judge reconnects and goes on; the new backend's first submission is number 1 too and gets the old one's end. |
| `pretests` | The code gives a pretest 0 points so that its failure short-circuits everything; a batch gets them too late for its cases, and its failure short-circuits the batch itself but nothing after it. |
| `batch_numbers` | `init.yml` is refused when a batch depends on one that is not earlier; with a batch among the pretests the numbers that were validated are not those that are graded by, and batch 2 of the tests, which depends on batch 1, is graded after the pretests passed although batch 1 failed. |

Each of these four runs checks one property, which TLC refutes.

## 4. Proofs

All theorems hold for every value of the constants that satisfies the named
assumptions of the modules, by TLAPS with Z3, Zenon and LS4. The type invariants
of the modules with theorems, and `NeverMilder`, are proved and in no run. The assumptions, each checked by TLC on every run of
its module:

| assumption | what it asks |
|---|---|
| `VerdictOrderAssumption`, `GradingAssumption`, `PageAssumption`, `CacheAssumption`, `LimitAssumption` | numbers and bounds are natural; a page has rows and the cache has entries |
| `BridgeAssumption`, `ArenaAssumption`, `TaskAssumption` | the values for "none" are none of the others; a plan is a list of cases and an end; the main task is none of its kids |
| `RateLimiterAssumption` | an entry is kept at least as long as a bucket takes to fill |
| `LayoutAssumption` | what `init.yml` can say; an archive has finitely many files |
| `WebAssumption` | each page has an address of its own |
| `TreeAssumption` | a file is in a directory, and a link leads to where all links have been followed; rules name normalized paths |
| `ValueAssumption` | the bound of a case's points is natural |
| `CaseDataAssumption` | there is a case; a file's name is none of the marks for "no entry", "null", "code" and "a generator" |
| `ClassesAssumption` | executors have names of their own; a key is for a command or for a mode; a machine works in ways there are |
| `RuntimesAssumption`, `SharedCommands` | see Runtimes above: the second mode of a shared key works where the first does; executors that share a command take the first program they find |
| `TestsuiteAssumption` | a test expects codes and scores that exist, of cases that exist |

Every theorem about a specification rests on an inductive invariant. One step of a proof stands for one
action of the next-state relation, and below it one for each part of the
invariant the action can disturb.

* **Verdicts** (`RulesProofs`): the parts of `VerdictFaithful`
  (`VerdictAlwaysFaithful`) and `NeverMilder` (`VerdictsOnlyWorsen`) for any
  number of cases. They rest on `VerdictLemmas`: the two orders are equal and
  have all flags (`Orders`), the first flag of an order in a mask exists and is
  in it (`FirstFlag`), and so on to the name of a union of masks
  (`NameOfCases`).
* **Grading order** (`RulesProofs`), for any `init.yml` and any archive:
  `DependenciesComeFirst` and `SkipsAreNeeded`, where the two numberings agree, and
  `FailureAlwaysStops`, from `GradeInv`. A batch is met once (`Grouped`), each case before the one under the
  loop has exactly one result (`ResultsInOrder`), what is in `passed` was graded
  and passed to its last case (`PassedAll`) and what is not has a case that did
  not (`NotPassedAll`); `is_short_circuiting` and the end of everything are
  there for a failure that is among the results (`ShortCircuit`, `Enabled`,
  `Reason`).
* **Binary cache** (`RulesProofs`), for any keys and any size:
  `CacheAlwaysSound`, with what `OwnersKeepFiles` leaves out, from `CacheInv`, which adds that a directory is its
  owner's, that an entry's executor uses its own, and that whoever uses
  another's is marked, so that collecting it deletes nothing (`Directories`).
* **Sandbox policy** (`RulesProofs`), for any tree of files with links, any rules
  and any paths: `PolicyAlwaysExact`, from `PolicyInv`. A node is a file where the
  file is one (`NodesFit`), so that no assertion of `_add_rule` and `_finalize_rule` fails; a mode comes
  from a rule that was added (`ModesFromRules`), and each rule that was added
  has its mode or one that allows more (`RulesHaveModes`), in whatever order they
  came. `normpath` and `realpath` are walks over the components of a path
  (`IsWalk`); `AccessIs` and `RuleOpens` say what the answer to a path is in terms
  of the nodes on the way to it.
* **Checkers** (`CheckersProofs`), for any two texts: `CheckersAlwaysSound`.
  * Tokens and lines are places in the text (`IsTokens`, `IsLines`), and the one
    pass of `_checker.c` says at each place of the two texts whether the rest
    agrees (`PassIs`), which is whether the tokens from there on are alike
    (`StandardAlike`). `StandardTokens` is the middle of `StandardIsTokens`.
  * `rstripped` accepts less than `standard` because what it accepts moves the
    characters that are not white from one text to the other, in order, with
    neighbours and line ends kept (`Moves`, `StrippedStandard`).
  * `sorted` of lines accepts less than `sorted` of tokens because two sequences
    have the same elements exactly when a bijection of their places says so
    (`BagRearranged`, `ListedBag`), and the one of lines gives one of tokens
    (`LinesTokens`).
  * Points: `LinesScored`, `HelpersScored`; tolerances: `ToleranceIsWider`.
* **Bridge** (`ArenaProofs`, its first part, which the arena's proofs use):
  * `TypeCorrect`. `TypeOK` alone is not inductive: a handler in
    `accumulateCase` takes the head of its cases, which must not be empty;
    `Accumulating` says so.
  * `OwnResultAlways`, `PendingAlwaysExact`. The inductive invariant `CallInv`
    adds to the two that a call has no id before it is stored
    (`NothingEarly`), that ids in use are below `nextID` and differ
    (`IdsBelowNext`), and that a channel holds results of its own call's id
    (`OwnChannel`). With ids from an increasing counter, `pending[i]` is then
    exactly the call of id `i`, which is what makes a delivery reach its call.
  * `FirstVerdictCounts`, an action property: only deliveries and returns touch
    channels.
  * `RegistryAlwaysSound`: `RegistrySound` is inductive, because the only
    session that loses its name from the registry by its own end is the one
    registered there.
* **Arena** (`ArenaProofs`), for any number of calls, connections and cases and
  any number of crashes of the judge (`JudgeOnlyCrashes`):
  * `InvAlways`. The invariant is about both ends of a connection and what is
    between them: the packets under way tell a story (`Story`), a list of states
    "the first n cases of k were told" that begins where the handler is
    (`HandlerAt`, which relates the slice in `caseResults` to it), goes on packet
    by packet (`Tells`) and ends with what the worker still has to say
    (`JudgeAt`). The list of states is a witness in the invariant, so that
    receiving drops its first and sending adds a last, and no induction over the
    packets is needed. Beside it: a submission is requested over one connection
    and before anything is said of it (`Requests`), nothing about a submission
    travels over another connection (`Owned`), and the slices of submissions are
    apart (`SlicesApart`), which is what lets `accumulateCase` read, append and
    write back without a lock here.
  * `VerdictOfOwnSource`: what Submit returns is the verdict its own source
    deserves. `VerdictAlwaysSound` follows from it, for the name of a union of
    masks (`NameOfCases`).
  * `ArenaServes`: the refinement of GradingService, but for its fairness. Each
    step of the arena is one of the service or changes no phase and no answer.
  * `JudgeOnlyCrashes` is not for convenience: once a judge reconnects in the
    middle of a grading or a backend restarts, `VerdictOfOwnSource` is false
    (the run `arena_restart`).
* **Rate limiter** (`BackendProofs`): `LimiterTypeCorrect`; `RateHolds`, from the
  invariant that what a client holds and spent is at most the burst and what it
  earned; `LimiterImplements`, the refinement: a step maps to one of `TokenBucket` or
  changes nothing, where deletion is harmless because an entry older than the
  cleanup period is full (`Burst <= Cleanup * Rate`).
* **Gradings** (`JudgeGradingProofs`), for any number of submissions, cases,
  faults and aborts:
  * `TypeCorrect`, with what each pipe may hold.
  * `OneAtATimeAlways`, from `LockInv`: a grading thread that has not released
    the lock holds it alone, the current submission is one whose thread has not
    cleared it, and a worker that is neither dead nor killed has a thread that
    still receives from it or waits for it.
  * `AbortedOnlyWhenReached`, from `AbortInv`: a request to abort is in a pipe, a
    worker's flag is set and a GRADING-ABORTED is under way only for a
    submission that was current when a request to abort or a disconnect arrived,
    as long as the controller lives.
  * `EveryGradingIsEnded`, from `EndInv`: a worker says BYE only after an end or
    an exception is in the pipe before it (or was told), and the grading thread,
    which reads in order, has therefore told an end when it gets past BYE; when
    the worker is lost it tells one itself.
  * `StoryToldOnce`, from `StoryInv`: what the bridge was sent, what is in the
    worker's pipe and what the worker has yet to say are one story cut in three.
    Where a message may stand is said by its position (`SentFits`, `UpFits`,
    `WorkerFits`), which takes no induction over the pipe.
* **Sandbox** (`SandboxProofs`), for any number of threads and children:
  * `NoOrphansLeft` and `FlagsAreSound`, from `TracerInv`: until the monitor saw
    the first stop the child stays at it (`FirstStop`), the loop ends with the
    main task (`LoopEnds`), the main task has a status once it is on its way out
    (`Statuses`), and a forbidden call of a thread or of the main task is the
    end of both (`ForbiddenCalls`). `FlagsAreSound` is as wide as `FlagsSound`: not
    about a failed execve, forked children or an excess of wall time alone.
  * `OutputIsCollected`, for any pipe and any limits, from `PipeInv`: what was
    written is what was read and what the pipe still holds (`Conserved`), a pipe
    is left only when it is empty and nobody can write to it (`Collecting`), and
    the limit is noticed with the chunk that is over it (`Limited`).
* **Backend** (`BackendProofs`), for any number of requests:
  * `RequestsTypeCorrect`, with `Progress`: nothing is answered before its goroutine is
    done, and past the judge there is an outcome to record.
  * `AnswersFollowRecords`, from `RecordInv`: who is about to reply to a
    submission has a row of the same verdict, or a line in the log. Rows and
    lines are never taken back, and an outcome does not change once recorded.
  * `ErrorsAlwaysReadable`: the stage that stops a request exists
    (`StopsSomewhere`), and CORS comes before any of them.
  * `NoRowIsSkipped`, from `PagingInv`: rows have stamps of their own
    (`Stamped`), and of the rows that were there when the reader began, those not
    yet read are below the offset, because a newer row only pushes them down
    (`Paging`). The lemmas on cardinalities say what one row more does to the
    number of rows above another.
* **Frontend data service** (`BackendProofs`), for any pages, visits,
  presses and retries: `PageStaysOwn`, from `WebInv`: the page is what the
  newest of its loads came to, or one that was still waiting when that one began
  (`Follows`); of
  the requests of a mounted page only the last can be unanswered (`AnswersInv`).
* **Case data** (`JudgeProofs`), for any number of cases, any `init.yml` and any
  files: `CaseDataAlwaysSound`, from `CaseInv`. Code in `init.yml` is only ever
  replaced by what it returned (`RawFollows`), so a lookup always ends at the node
  where it ended when the file was loaded (`OwnerIs`, `MeaningIs`), and an entry
  that is no code any more means the same from then on (`Stays`). Making the input
  looks up whatever decides who makes it (`SettledKnows`); what was decided
  (`InputIs`) therefore still holds when the answer is asked for, and `output_data`
  never finds `_generated` empty where it wants it. The files of a case are one
  file, open until the case is freed (`FileIs`).
* **Runtimes** (`JudgeProofs`), for any executors in any order on any machine:
  `ConfigAlwaysSound`, from `RuntimesInv`. The ways before the one that is tried
  did not work (`Tried`), so an executor that is out of ways cannot run
  (`AllTried`). The one dictionary leads each reported executor to a way that
  works, after any number of later entries (`Leads`): a later executor writes a
  shared command's only candidate, if that is the same, or the second mode of a
  shared key, which works for every executor of that key (`SecondMode`); and an executor whose
  default was left out finds in the dictionary no mode but the second
  (`FellBack`).
* **Test driver** (`JudgeProofs`), for any tests and any stories of the judge:
  `DriverAlwaysSound`, from `TestInv`: the flag says of the story so far what
  will be counted at its end (`FlagIsOfStory`). `ScoresListedAlone` is the
  hypothesis that a test which lists scores does not expect an internal error too
  (see Testsuite above): with both, the property is false.

Model-checked only:

* liveness (`EndsOnExpiry`, `ClosedIsForgotten`, `EveryChangeReported`,
  `StopEnds`, `EveryRequestEnds`, `FreesJudge`, `OrphansAbort`, `EndsInTime`,
  `CaseEnds`, and the fairness part of `ImplementsService`): fairness and ENABLED
  are out of the prover's reach;
* `OwnCasesOnce`, which is about idle timeouts, broken connections and restarts of
  the backend: it takes an invariant about sessions of two connections that tell
  of one submission.

No module has a RECURSIVE operator. The library's theorems of induction take an
operator, which no backend instantiates; where a proof needs an induction, over
a path or along a text, it takes the least number at which the claim fails,
which `WFMin` gives (`Least`).

## 5. What is not modelled

* What the code does not do: a submission stored as pending or answered as
  "queued for retry" (submit.go:35 and 60) is never graded later, as there is no
  queue; the handler waits up to 62 s while the server's WriteTimeout is 30 s,
  so that the answer of a long grading is written to a closed connection
  (`reply` is what is written, whether it arrives or not).
* Executors' command lines, environments, and what they parse out of versions and
  error messages (`executors/`): strings. A JVM's crash log is never removed, so
  a later case of the submission may be reported with it (java_executor.py:154).
* Registers, ABIs and memory of tracees (`cptbox/ptdebug*`, `_cptbox.pyx`): a
  table per architecture, under a kernel.
* The command line and the interactive shell (`cli.py`, `commands/`), but for the
  command that runs tests: option parsing and a sequential driver of the parts
  above. `validate` keeps the output of the case before when a validator goes
  over its limit, or has none (validate.py:152-160).
* The signature grader, which only rewrites sources; logging, wording, SQL text.
