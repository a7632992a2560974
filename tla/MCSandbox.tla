------------------------------ MODULE MCSandbox ------------------------------
(* The two halves of the sandbox share no state: a behaviour is of one of     *)
(* them, with the other in a final state.                                     *)
EXTENDS TracedProcess

CONSTANTS Capacity, Chunks, OutLimit, ErrLimit

ASSUME LimitAssumption == OutLimit \in Nat /\ ErrLimit \in Nat

VARIABLES mode, pc, held, readers, writers, proc, want, written, got, open,
          polled, ole, check

pipeVars == <<mode, pc, held, readers, writers, proc, want, written, got, open,
              polled, ole, check>>

Pipe == INSTANCE Communicate WITH ready <- polled

\* Interactions that are over, and a process that was never launched.
PipesAtRest ==
    /\ mode = "standard" /\ pc = "done"
    /\ held = [x \in Pipe!Pipes |-> 0] /\ written = held /\ got = held
    /\ readers = [x \in Pipe!Pipes |-> {}] /\ writers = readers
    /\ proc = [p \in Pipe!Procs |-> "none"] /\ want = proc
    /\ open = {} /\ polled = {} /\ ole = FALSE /\ check = "none"

TracerAtRest ==
    /\ task = [t \in Tasks |-> "none"] /\ event = task
    /\ kind = [k \in Kids |-> "none"]
    /\ stage = "fork" /\ code = "none"
    /\ killed = {} /\ children = {} /\ onReturn = {} /\ fault = {}
    /\ first = TRUE /\ spawned = FALSE
    /\ tle = FALSE /\ cpuOver = FALSE /\ wallOver = FALSE /\ exited = FALSE
    /\ died = TRUE /\ ready = TRUE
    /\ monitor = "failed" /\ shocker = "over" /\ main = "raised"

MCInit == (Init /\ PipesAtRest) \/ (TracerAtRest /\ Pipe!Init)

MCNext ==
    \/ Next /\ UNCHANGED pipeVars
    \/ Pipe!Next /\ UNCHANGED vars

MCSpec == MCInit /\ [][MCNext]_<<vars, pipeVars>> /\ Fairness /\ Pipe!Fairness

NoOutputLost == Pipe!NoOutputLost
CaseEnds == Pipe!CaseEnds
===============================================================================
