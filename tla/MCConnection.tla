----------------------------- MODULE MCConnection -----------------------------
(***************************************************************************)
(* What must happen in the end between the bridge and the judge: calls     *)
(* return and sessions are forgotten (Bridge), and news of the problems    *)
(* arrives (ProblemMonitor).  The bridge only reads the news, so that a    *)
(* behaviour is of one of the two, with the other at rest.                 *)
(***************************************************************************)
EXTENDS MCBridge, Integers

CONSTANTS Changes, Breaks

VARIABLES disk, watching, noticed, unseen, roots, network, listed, conn, known,
          updater, signal, found, exit, refresher, trigger, terminate, breaks

monitorVars == <<disk, watching, noticed, unseen, roots, network, listed, conn,
                 known, updater, signal, found, exit, refresher, trigger,
                 terminate, breaks>>

Mon == INSTANCE ProblemMonitor WITH net <- network

MonitorAtRest ==
    /\ watching = FALSE /\ noticed = Mon!None /\ unseen = FALSE /\ roots = Mon!None
    /\ network = "off" /\ listed = Mon!None /\ conn = "none" /\ known = Mon!None
    /\ updater = "off" /\ signal = FALSE /\ found = Mon!None /\ exit = FALSE
    /\ refresher = "off" /\ trigger = FALSE /\ terminate = FALSE
    /\ disk = 0 /\ breaks = 0

MCInit == Init /\ (MonitorAtRest \/ Mon!Init)

MCNext ==
    \/ network = "off" /\ Next /\ UNCHANGED monitorVars
    \/ network # "off" /\ Mon!Next /\ UNCHANGED vars

MCSpec == MCInit /\ [][MCNext]_<<vars, monitorVars>> /\ Fairness /\ Mon!Fairness

EveryChangeReported == Mon!EveryChangeReported
StopEnds == Mon!StopEnds
===============================================================================
