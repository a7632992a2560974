---------------------------- MODULE ProblemMonitor ----------------------------
(***************************************************************************)
(* How the bridge learns which problems a judge has (dmoj/monitor.py,      *)
(* control.py, the updater of judge.py, packet.py's connection).           *)
(*                                                                         *)
(* The network thread lists the problems before every connection.  Later   *)
(* a change of the disk is seen by watchdog's observer, which sets two     *)
(* events: the updater's, who lists again and sends, and the refresher's,  *)
(* who was to ping other judges.  Listing is two steps, the glob and the stat of *)
(* what it found, and the disk may change in between.                      *)
(***************************************************************************)
EXTENDS Integers

CONSTANTS
    Changes, \* bound: changes of the problems' directories
    Breaks   \* bound: connections refused or lost, and updates asked for

\* The problems a judge has are those of a version of the disk.
Versions == 0 .. Changes
None == -1

VARIABLES
    disk,      \* the version the disk has
    watching,  \* the observer runs
    noticed,   \* the last version the observer gets an event for
    unseen,    \* an event waits in the observer
    roots,     \* _problem_dirs_cache
    net,       \* where the network thread, which is the main thread, is
    listed,    \* the problems it has listed
    conn,      \* the connection it made last
    known,     \* the problems the bridge was told of on this connection
    updater,   \* where the updater is
    signal,    \* updater_signal
    found,     \* the problems the updater has listed
    exit,      \* updater_exit
    refresher, \* where the refresh worker is
    trigger,   \* its _trigger
    terminate, \* its _terminate
    breaks

vars == <<disk, watching, noticed, unseen, roots, net, listed, conn, known,
          updater, signal, found, exit, refresher, trigger, terminate,
          breaks>>

observerVars == <<watching, noticed, unseen>>
netVars == <<net, listed, conn>>
updaterVars == <<updater, found>>
\* A process that starts has nothing in memory.
Start ==
    /\ watching = FALSE /\ noticed = None /\ unseen = FALSE
    /\ roots = None
    /\ net = "load" /\ listed = None /\ conn = "none" /\ known = None
    /\ updater = "off" /\ signal = FALSE /\ found = None /\ exit = FALSE
    /\ refresher = "off" /\ trigger = FALSE /\ terminate = FALSE

Init ==
    /\ disk = 0 /\ breaks = Breaks
    /\ Start

\* os._exit after a failed write; Docker starts the judge again, unless it was
\* leaving.
ExitNow ==
    /\ watching' = FALSE /\ noticed' = None /\ unseen' = FALSE
    /\ roots' = None
    /\ net' = IF net \in {"read", "drop", "list", "stat", "open", "greet"}
              THEN "load" ELSE "left"
    /\ listed' = None /\ conn' = "none" /\ known' = None
    /\ updater' = "off" /\ signal' = FALSE /\ found' = None /\ exit' = FALSE
    /\ refresher' = "off" /\ trigger' = FALSE /\ terminate' = FALSE
    /\ UNCHANGED <<disk, breaks>>

-------------------------------------------------------------------------------
(* The disk, and the observer *)

Change ==
    /\ disk < Changes
    /\ disk' = disk + 1
    /\ IF watching
       THEN noticed' = disk + 1 /\ unseen' = TRUE
       ELSE UNCHANGED <<noticed, unseen>>
    /\ UNCHANGED <<watching, roots, netVars, known, updaterVars, signal, exit,
                   refresher, trigger, terminate, breaks>>

\* on_any_event: the callback is update_problems.
Notice ==
    /\ unseen
    /\ unseen' = FALSE
    /\ signal' = TRUE
    /\ trigger' = TRUE
    /\ UNCHANGED <<disk, watching, noticed, roots, netVars, known, updaterVars,
                   exit, refresher, terminate, breaks>>

\* POST /update/problems, or SIGUSR2, which main installs once connected.
Ask ==
    /\ updater # "off"
    /\ breaks > 0 /\ breaks' = breaks - 1
    /\ signal' = TRUE
    /\ UNCHANGED <<disk, observerVars, roots, netVars, known, updaterVars, exit,
                   refresher, trigger, terminate>>

-------------------------------------------------------------------------------
(* The main thread: load_env, the connection, the read loop, murder *)

Net(from, to) == net = from /\ net' = to

LoadEnv ==
    /\ Net("load", "list")
    /\ roots' = disk
    /\ UNCHANGED <<disk, observerVars, listed, conn, known, updaterVars, signal,
                   exit, refresher, trigger, terminate, breaks>>

ListProblems ==
    /\ Net("list", "stat")
    /\ listed' = disk
    /\ UNCHANGED <<disk, observerVars, roots, conn, known, updaterVars, signal,
                   exit, refresher, trigger, terminate, breaks>>

\* getmtime of a directory that is gone is an OSError, which counts as a
\* failure of the connection.
StatProblems ==
    /\ \/ Net("stat", "open")
       \/ Net("stat", "drop") /\ disk # listed
    /\ UNCHANGED <<disk, observerVars, roots, listed, conn, known, updaterVars,
                   signal, exit, refresher, trigger, terminate, breaks>>

Open ==
    /\ \/ Net("open", "greet") /\ conn' = "open" /\ UNCHANGED breaks
       \/ /\ Net("open", "drop")
          /\ breaks > 0 /\ breaks' = breaks - 1
          /\ UNCHANGED conn
    /\ known' = None
    /\ UNCHANGED <<disk, observerVars, roots, listed, updaterVars, signal, exit,
                   refresher, trigger, terminate>>

\* The handshake.  The bridge rejects a session that says something else first.
\* The first one lets main go on: the monitor starts, or fails to, and then
\* the updater.
Greet ==
    /\ IF conn = "spoiled"
       THEN Net("greet", "drop") /\ UNCHANGED <<conn, known, watching, updater, refresher>>
       ELSE /\ Net("greet", "read")
            /\ conn' = "greeted"
            /\ known' = listed
            /\ IF updater = "off"
               THEN /\ watching' \in BOOLEAN
                    /\ updater' = "wait" /\ refresher' = "wait"
               ELSE UNCHANGED <<watching, updater, refresher>>
    /\ UNCHANGED <<disk, noticed, unseen, roots, listed, signal, found, exit,
                   trigger, terminate, breaks>>

\* The connection breaks; the judge has yet to find out.
Lose ==
    /\ conn = "greeted" /\ net = "read"
    /\ breaks > 0 /\ breaks' = breaks - 1
    /\ conn' = "lost"
    /\ UNCHANGED <<disk, observerVars, roots, net, listed, known, updaterVars,
                   signal, exit, refresher, trigger, terminate>>

Drop ==
    /\ \/ Net("read", "list") /\ conn = "lost"
       \/ Net("drop", "list")
    /\ conn' = IF conn = "none" THEN "none" ELSE "closed"
    /\ known' = None
    /\ UNCHANGED <<disk, observerVars, roots, listed, updaterVars, signal, exit,
                   refresher, trigger, terminate, breaks>>

\* The worker is woken before it is told to end.
MurderWakesFirst ==
    /\ \/ Net("read", "murder") /\ exit' = TRUE /\ UNCHANGED <<signal, conn, terminate, trigger, watching>>
       \/ Net("murder", "close") /\ signal' = TRUE /\ UNCHANGED <<exit, conn, terminate, trigger, watching>>
       \/ Net("close", "stop") /\ conn' = "closed" /\ UNCHANGED <<exit, signal, terminate, trigger, watching>>
       \/ Net("stop", "stopped") /\ trigger' = TRUE /\ UNCHANGED <<exit, signal, conn, terminate, watching>>
       \/ /\ Net("stopped", "left")
          /\ terminate' = TRUE /\ watching' = FALSE
          /\ UNCHANGED <<exit, signal, conn, trigger>>
    /\ UNCHANGED <<disk, noticed, unseen, roots, listed, known, updaterVars,
                   refresher, breaks>>

\* A disconnect packet or ctrl-C ends the read loop: murder, and then the
\* monitor's __exit__.
Murder ==
    /\ \/ Net("read", "murder") /\ exit' = TRUE /\ UNCHANGED <<signal, conn, terminate, trigger, watching>>
       \/ Net("murder", "close") /\ signal' = TRUE /\ UNCHANGED <<exit, conn, terminate, trigger, watching>>
       \/ Net("close", "stop") /\ conn' = "closed" /\ UNCHANGED <<exit, signal, terminate, trigger, watching>>
       \/ Net("stop", "stopped") /\ terminate' = TRUE /\ UNCHANGED <<exit, signal, conn, trigger, watching>>
       \/ /\ Net("stopped", "left")
          /\ trigger' = TRUE /\ watching' = FALSE
          /\ UNCHANGED <<exit, signal, conn, terminate>>
    /\ UNCHANGED <<disk, noticed, unseen, roots, listed, known, updaterVars,
                   refresher, breaks>>

-------------------------------------------------------------------------------
(* The updater *)

Updater(from, to) == updater = from /\ updater' = to

\* wait returns, and clear.
Wake ==
    /\ \/ Updater("wait", "clear") /\ signal /\ UNCHANGED signal
       \/ Updater("clear", "check") /\ signal' = FALSE
    /\ UNCHANGED <<disk, observerVars, roots, netVars, known, found, exit,
                   refresher, trigger, terminate, breaks>>

\* The cache of the roots is kept.
CheckExitOnly ==
    /\ IF exit THEN Updater("check", "ended") ELSE Updater("check", "list")
    /\ UNCHANGED <<disk, observerVars, roots, netVars, known, signal, found, exit,
                   refresher, trigger, terminate, breaks>>

CheckExit ==
    /\ IF exit
       THEN Updater("check", "ended") /\ UNCHANGED roots
       ELSE Updater("check", "list") /\ roots' = None
    /\ UNCHANGED <<disk, observerVars, netVars, known, signal, found, exit,
                   refresher, trigger, terminate, breaks>>

FindProblems ==
    /\ Updater("list", "stat")
    /\ found' = disk
    /\ UNCHANGED <<disk, observerVars, roots, netVars, known, signal, exit,
                   refresher, trigger, terminate, breaks>>

\* An exception is logged, and the update is not made.
StatFound ==
    /\ \/ Updater("stat", "send")
       \/ Updater("stat", "wait") /\ disk # found
    /\ UNCHANGED <<disk, observerVars, roots, netVars, known, signal, found, exit,
                   refresher, trigger, terminate, breaks>>

\* supported_problems_packet, on the connection there is at this moment.
SendProblems ==
    /\ updater = "send"
    /\ \/ conn \in {"closed", "lost"} /\ ExitNow
       \/ /\ conn # "closed"
          /\ updater' = "wait"
          /\ known' = IF conn = "greeted" THEN found ELSE known
          /\ conn' = IF conn = "open" THEN "spoiled" ELSE conn
          /\ UNCHANGED <<disk, observerVars, roots, net, listed, signal, found,
                         exit, refresher, trigger, terminate, breaks>>

-------------------------------------------------------------------------------
(* The refresh worker *)

Refresher(from, to) == refresher = from /\ refresher' = to

\* The loop of run.  No ping leaves the process: urlopen is given a str as data
\* and raises TypeError for every URL, which is logged.
Refresh ==
    /\ \/ Refresher("wait", "clear") /\ trigger /\ UNCHANGED trigger
       \/ Refresher("clear", "check") /\ trigger' = FALSE
       \/ Refresher("check", "ended") /\ terminate /\ UNCHANGED trigger
       \/ Refresher("check", "wait") /\ ~terminate /\ UNCHANGED trigger
    /\ UNCHANGED <<disk, observerVars, roots, netVars, known, updaterVars, signal,
                   exit, terminate, breaks>>

-------------------------------------------------------------------------------
Main == LoadEnv \/ ListProblems \/ StatProblems \/ Open \/ Greet \/ Drop
Update == Wake \/ CheckExit \/ FindProblems \/ StatFound \/ SendProblems
Leaves == net # "read" /\ Murder

Next ==
    \/ Change \/ Notice \/ Ask
    \/ Main \/ Lose \/ Murder
    \/ Update \/ Refresh

\* Every thread runs.  Nothing must change, break or end.
Fairness ==
    /\ WF_vars(Notice) /\ WF_vars(Main) /\ WF_vars(Leaves)
    /\ WF_vars(Update) /\ WF_vars(Refresh)

Spec == Init /\ [][Next]_vars /\ Fairness

-------------------------------------------------------------------------------
(* Properties *)

\* A change that there was an event for reaches the bridge, unless the judge
\* ends, and no stale list of directories outlives it.
EveryChangeReported ==
    (noticed # None) ~> \/ known >= noticed /\ (roots = None \/ roots >= noticed)
                        \/ net \in {"murder", "left", "load"}

\* A judge that leaves ends its threads, whatever they were doing.
StopEnds ==
    (net = "murder") ~> (net = "left" /\ updater \in {"off", "ended"}
                                      /\ refresher \in {"off", "ended"})
===============================================================================
