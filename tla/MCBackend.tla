------------------------------ MODULE MCBackend ------------------------------
(***************************************************************************)
(* The web side on a small instance: the backend's rate limiter, the       *)
(* requests it lets through, and the client's pages.  They share nothing   *)
(* but requests and answers, which each takes as they come, so a behaviour *)
(* is of one of them, with the others at rest.                             *)
(*                                                                         *)
(* The limiter's observer counts over at most MCPeriod units earned; it    *)
(* may start at any moment.                                                *)
(***************************************************************************)
EXTENDS RateLimiter, Submissions

CONSTANTS MCPeriod, Problems, Strays, Retries, Visits, Presses

\* Every page has an address of its own.
ASSUME WebAssumption ==
    /\ Problems \cap Strays = {}
    /\ {"home", "problems", "not-found"} \cap (Problems \cup Strays) = {}

VARIABLES page, mount, view, problemsCache, starterCode, loads, requests

clientVars == <<page, mount, view, problemsCache, starterCode, loads, requests>>

Web == INSTANCE DataService

RequestsAtRest ==
    /\ server = "off" /\ hasDB = FALSE
    /\ pc = [r \in Requests |-> "none"]
    /\ query = [r \in Requests |-> NoQuery]
    /\ said = [r \in Requests |-> "nothing"]
    /\ reply = [r \in Requests |-> NoReply]
    /\ stamp = [r \in Requests |-> 0] /\ clock = 1
    /\ logged = {} /\ rows = {}
    /\ reader = [at |-> "idle", offset |-> 0, there |-> {}, seen |-> {}]

ClientAtRest ==
    /\ page = "closed" /\ mount = 0 /\ view = Web!Fresh
    /\ problemsCache = FALSE /\ starterCode = FALSE
    /\ loads = <<>> /\ requests = <<>>

MCInit ==
    /\ Init
    /\ \/ RequestsAtRest /\ ClientAtRest
       \/ RequestsInit /\ ClientAtRest
       \/ RequestsAtRest /\ Web!Init

MCNext ==
    \/ /\ server = "off" /\ page = "closed"
       /\ Next /\ UNCHANGED <<requestVars, clientVars>>
       /\ \A ip \in Clients : earned'[ip] <= MCPeriod
    \/ server # "off" /\ RequestsNext /\ UNCHANGED <<vars, clientVars>>
    \/ page # "closed" /\ Web!Next /\ UNCHANGED <<vars, requestVars>>

MCSpec ==
    MCInit /\ [][MCNext]_<<vars, requestVars, clientVars>> /\ Fairness /\ Web!Fairness

PageIsOwn == Web!PageIsOwn
===============================================================================
