-------------------------------- MODULE Bridge --------------------------------
(***************************************************************************)
(* The judge bridge of the backend (bridge/bridge.go): a TCP server judges *)
(* connect to, that hands each Submit call's submission to one of them and *)
(* brings the verdict back.                                                *)
(*                                                                         *)
(* Its threads are the Submit calls (one per HTTP request), one handler    *)
(* per accepted connection (handleJudge) and Stop.  They share `judges'    *)
(* (under a mutex), `pending' and `caseResults' (sync.Maps, no lock held   *)
(* from one operation to the next) and `nextID' (atomic).                  *)
(*                                                                         *)
(* The other end of a connection is the environment: it may send any       *)
(* packet of the protocol at any time, stop reading, or vanish.  Arena     *)
(* replaces it by the judge.                                               *)
(***************************************************************************)
EXTENDS Verdict

CONSTANTS
    Calls,      \* Submit calls; each is made at most once
    Conns,      \* accepted TCP connections; each is used once
    Names,      \* judge ids
    PeerNames,  \* the ids peers announce, NoName for a missing or empty one
    Cases,      \* case results: records with a field flags, a set of Flags
    CaseLists,  \* the contents of test-case-status packets
    MaxId,      \* submission ids are 0..MaxId; a packet without one says 0
    MaxCases,   \* bound: cases accumulated for one submission
    Boxes,      \* addresses of the slices that caseResults points to
    Roaming,    \* may a peer speak of a submission it was not sent?
    MayStall,   \* may a peer stop reading from its socket?
    NoConn, NoName, NoCall, NoBox, NoResult

Ids == 0..MaxId

JudgeIds == Names \cup {NoName}

\* Where handleJudge can be.
HandlerStates ==
    {"idle", "handshake", "greeting", "registering", "serving", "appending",
     "finalizing", "leaving", "gone"}

Result == [id : Ids, status : Statuses \cup {"CE", "AB"}, cases : Seq(Cases)]

ASSUME BridgeAssumption ==
    /\ MaxId \in Nat
    /\ MaxCases \in Nat
    /\ Roaming \in BOOLEAN
    /\ MayStall \in BOOLEAN
    /\ PeerNames \subseteq JudgeIds
    /\ CaseLists \subseteq Seq(Cases)
    /\ \A x \in Cases : x.flags \subseteq Flags
    /\ NoConn \notin Conns
    /\ NoName \notin Names
    /\ NoCall \notin Calls
    /\ NoBox \notin Boxes
    /\ NoResult \notin Result

VARIABLES
    pc,           \* where each connection's handler is
    name,         \* jc.name
    closed,       \* jc.closed
    full,         \* is the socket's send buffer full (its peer does not read)?
    judges,       \* b.judges
    todo,         \* the submission and the cases a handler is accumulating
    box,          \* the slice a handler holds a pointer to
    seen,         \* the slice value a handler has copied out of its box
    caseResults,  \* b.caseResults: the box of a submission
    heap,         \* the slice in each box
    pending,      \* b.pending: whose channel waits for a submission
    nextID,       \* b.nextID
    done,         \* b.done is closed
    call,         \* where each Submit call is
    subID,        \* its submission id
    target,       \* the judge it picked
    expired,      \* its context is done
    chan,         \* the content of its result channel, of capacity 1
    outcome,      \* how it returned
    answer        \* what it returned

connVars == <<pc, name, closed, full, judges>>
caseVars == <<todo, box, seen, caseResults, heap>>
callVars == <<pending, nextID, call, subID, target, expired, outcome, answer>>
vars == <<connVars, caseVars, callVars, chan, done>>

Init ==
    /\ pc = [c \in Conns |-> "idle"]
    /\ name = [c \in Conns |-> NoName]
    /\ closed = [c \in Conns |-> FALSE]
    /\ full = [c \in Conns |-> FALSE]
    /\ judges = [n \in JudgeIds |-> NoConn]
    /\ todo = [c \in Conns |-> [id |-> 0, cases |-> <<>>]]
    /\ box = [c \in Conns |-> NoBox]
    /\ seen = [c \in Conns |-> <<>>]
    /\ caseResults = [i \in Ids |-> NoBox]
    /\ heap = [b \in Boxes |-> <<>>]
    /\ pending = [i \in Ids |-> NoCall]
    /\ nextID = 1
    /\ done = FALSE
    /\ call = [k \in Calls |-> "new"]
    /\ subID = [k \in Calls |-> 0]
    /\ target = [k \in Calls |-> NoConn]
    /\ expired = [k \in Calls |-> FALSE]
    /\ chan = [k \in Calls |-> NoResult]
    /\ outcome = [k \in Calls |-> "none"]
    /\ answer = [k \in Calls |-> NoResult]

-------------------------------------------------------------------------------
(* Submit *)

HasJudge == \E n \in JudgeIds : judges[n] # NoConn

Available == {c \in Conns : ~closed[c] /\ \E n \in JudgeIds : judges[n] = c}

\* A return keeps the entry in pending (no deferred Delete).
ReturnKeepsPending(k, how, r) ==
    /\ call' = [call EXCEPT ![k] = "returned"]
    /\ outcome' = [outcome EXCEPT ![k] = how]
    /\ answer' = [answer EXCEPT ![k] = r]
    /\ chan' = [chan EXCEPT ![k] = NoResult]
    /\ UNCHANGED <<pending, nextID, subID, target, expired>>

\* Submit returns, and its deferred pending.Delete runs.
Return(k, how, r) ==
    /\ call' = [call EXCEPT ![k] = "returned"]
    /\ outcome' = [outcome EXCEPT ![k] = how]
    /\ answer' = [answer EXCEPT ![k] = r]
    /\ chan' = [chan EXCEPT ![k] = NoResult]
    /\ pending' = [pending EXCEPT ![subID[k]] = NoCall]
    /\ UNCHANGED <<nextID, subID, target, expired>>

\* pickJudge: some registered connection that is not closed, in map order.
SubmitPick(k) ==
    /\ call[k] = "new"
    /\ \E c \in Available :
          /\ target' = [target EXCEPT ![k] = c]
          /\ call' = [call EXCEPT ![k] = "picked"]
    /\ UNCHANGED <<connVars, caseVars, pending, nextID, subID, expired,
                   outcome, answer, chan, done>>

\* "no judge available": returned before pending is touched.
SubmitNoJudge(k) ==
    /\ call[k] = "new"
    /\ Available = {}
    /\ call' = [call EXCEPT ![k] = "returned"]
    /\ outcome' = [outcome EXCEPT ![k] = "noJudge"]
    /\ UNCHANGED <<connVars, caseVars, pending, nextID, subID, target, expired,
                   answer, chan, done>>

\* nextID.Add(1) - 1, and the channel goes into pending.
SubmitStore(k) ==
    /\ call[k] = "picked"
    /\ nextID <= MaxId
    /\ subID' = [subID EXCEPT ![k] = nextID]
    /\ nextID' = nextID + 1
    /\ pending' = [pending EXCEPT ![nextID] = k]
    /\ call' = [call EXCEPT ![k] = "stored"]
    /\ UNCHANGED <<connVars, caseVars, target, expired, outcome, answer, chan,
                   done>>

\* judge.send: the write goes into the socket's buffer, and waits for room
\* there with no deadline and no regard to the context.
SubmitSend(k) ==
    /\ call[k] = "stored"
    /\ ~closed[target[k]]
    /\ ~full[target[k]]
    /\ call' = [call EXCEPT ![k] = "waiting"]
    /\ UNCHANGED <<connVars, caseVars, pending, nextID, subID, target, expired,
                   outcome, answer, chan, done>>

\* judge.send fails: the connection is closed, or lost.
SubmitSendError(k) ==
    /\ call[k] = "stored"
    /\ Return(k, "sendError", NoResult)
    /\ UNCHANGED <<connVars, caseVars, done>>

SendToClosed(k) ==
    /\ call[k] = "stored"
    /\ closed[target[k]]
    /\ SubmitSendError(k)

\* The context's timer, started by the adapter before it calls Submit.
Expire(k) ==
    /\ call[k] \in {"picked", "stored", "waiting"}
    /\ ~expired[k]
    /\ expired' = [expired EXCEPT ![k] = TRUE]
    /\ UNCHANGED <<connVars, caseVars, pending, nextID, call, subID, target,
                   outcome, answer, chan, done>>

\* The three branches of Submit's select.
SubmitReceive(k) ==
    /\ call[k] = "waiting"
    /\ chan[k] # NoResult
    /\ Return(k, "result", chan[k])
    /\ UNCHANGED <<connVars, caseVars, done>>

\* A select that looks at the context only when there is a result.
SubmitTimeoutWithResult(k) ==
    /\ call[k] = "waiting"
    /\ expired[k]
    /\ chan[k] # NoResult
    /\ Return(k, "timeout", NoResult)
    /\ UNCHANGED <<connVars, caseVars, done>>

SubmitTimeout(k) ==
    /\ call[k] = "waiting"
    /\ expired[k]
    /\ Return(k, "timeout", NoResult)
    /\ UNCHANGED <<connVars, caseVars, done>>

SubmitShutdown(k) ==
    /\ call[k] = "waiting"
    /\ done
    /\ Return(k, "shutdown", NoResult)
    /\ UNCHANGED <<connVars, caseVars, done>>

-------------------------------------------------------------------------------
(* acceptLoop and handleJudge *)

Accept(c) ==
    /\ pc[c] = "idle"
    /\ ~done
    /\ pc' = [pc EXCEPT ![c] = "handshake"]
    /\ UNCHANGED <<name, closed, full, judges, caseVars, callVars, chan, done>>

\* The handler returns: its deferred function closes the connection first.
Leave(c) ==
    /\ pc' = [pc EXCEPT ![c] = "leaving"]
    /\ closed' = [closed EXCEPT ![c] = TRUE]
    /\ UNCHANGED <<name, full, judges>>

\* A handshake with the right key; jc.name is set before the answer is sent.
Handshake(c, n) ==
    /\ pc[c] = "handshake"
    /\ name' = [name EXCEPT ![c] = n]
    /\ pc' = [pc EXCEPT ![c] = "greeting"]
    /\ UNCHANGED <<closed, full, judges, caseVars, callVars, chan, done>>

\* A wrong key, another packet than a handshake, or nothing readable.
HandshakeReject(c) ==
    /\ pc[c] = "handshake"
    /\ Leave(c)
    /\ UNCHANGED <<caseVars, callVars, chan, done>>

\* handshake-success is sent, and only then is the session registered.
Greet(c) ==
    /\ pc[c] = "greeting"
    /\ pc' = [pc EXCEPT ![c] = "registering"]
    /\ UNCHANGED <<name, closed, full, judges, caseVars, callVars, chan, done>>

GreetError(c) ==
    /\ pc[c] = "greeting"
    /\ Leave(c)
    /\ UNCHANGED <<caseVars, callVars, chan, done>>

Register(c) ==
    /\ pc[c] = "registering"
    /\ judges' = [judges EXCEPT ![name[c]] = c]
    /\ pc' = [pc EXCEPT ![c] = "serving"]
    /\ UNCHANGED <<name, closed, full, caseVars, callVars, chan, done>>

\* recv fails: the peer vanished, the packet is unreadable, or Stop closed
\* the connection.
RecvError(c) ==
    /\ pc[c] = "serving"
    /\ Leave(c)
    /\ UNCHANGED <<caseVars, callVars, chan, done>>

\* The deferred function forgets to delete the entry.
DeregisterForgets(c) ==
    /\ pc[c] = "leaving"
    /\ pc' = [pc EXCEPT ![c] = "gone"]
    /\ UNCHANGED <<name, closed, full, judges, caseVars, callVars, chan, done>>

\* The rest of the deferred function: whatever is registered under the
\* session's name is deleted.
Deregister(c) ==
    /\ pc[c] = "leaving"
    /\ judges' = IF name[c] = NoName
                 THEN judges
                 ELSE [judges EXCEPT ![name[c]] = NoConn]
    /\ pc' = [pc EXCEPT ![c] = "gone"]
    /\ UNCHANGED <<name, closed, full, caseVars, callVars, chan, done>>

\* Stop: closeOnce makes the calls after the first one do nothing.
Stop ==
    /\ ~done
    /\ done' = TRUE
    /\ closed' = [c \in Conns |-> closed[c] \/ \E n \in JudgeIds : judges[n] = c]
    /\ UNCHANGED <<pc, name, full, judges, caseVars, callVars, chan>>

-------------------------------------------------------------------------------
(* handlePacket *)

\* The handler is in recv and gets a packet that names submission i.
Receives(c, i) ==
    /\ pc[c] = "serving"
    /\ ~closed[c]
    /\ \/ Roaming
       \/ \E k \in Calls : /\ subID[k] = i
                           /\ target[k] = c
                           /\ call[k] \in {"waiting", "returned"}

\* A second result replaces the first one in the channel.
DeliverOverwriting(i, r) ==
    chan' = IF pending[i] = NoCall THEN chan
            ELSE [chan EXCEPT ![pending[i]] = r]

\* The result goes to whoever waits, as if a judge had one submission at most.
DeliverToAnyone(i, r) ==
    chan' = [k \in Calls |-> IF call[k] = "waiting" /\ chan[k] = NoResult THEN r
                             ELSE chan[k]]

\* deliverResult: dropped when no call waits, or when its channel is full.
Deliver(i, r) ==
    chan' = IF pending[i] # NoCall /\ chan[pending[i]] = NoResult
            THEN [chan EXCEPT ![pending[i]] = r]
            ELSE chan

\* The verdict of a packet that ends a submission without its cases:
\* compile-error, internal-error or submission-terminated.
Ended(c, i, status) ==
    /\ Receives(c, i)
    /\ Deliver(i, [id |-> i, status |-> status, cases |-> <<>>])
    /\ UNCHANGED <<connVars, caseVars, callVars, done>>

\* test-case-status: the handler starts on the packet's cases.
TestCaseStatus(c, i, cs) ==
    /\ Receives(c, i)
    /\ cs # <<>>
    /\ caseResults[i] # NoBox => Len(heap[caseResults[i]]) + Len(cs) <= MaxCases
    /\ todo' = [todo EXCEPT ![c] = [id |-> i, cases |-> cs]]
    /\ pc' = [pc EXCEPT ![c] = "appending"]
    /\ UNCHANGED <<name, closed, full, judges, box, seen, caseResults, heap,
                   callVars, chan, done>>

\* Boxes nothing points to; the garbage collector reclaims them.
Free == {b \in Boxes : /\ \A i \in Ids : caseResults[i] # b
                       /\ \A c \in Conns : box[c] # b}

Fresh == CHOOSE b \in Free : TRUE

\* What handler c leaves of the heap h when it drops its pointer.
Swept(c, h) ==
    [b \in Boxes |-> IF /\ \A i \in Ids : caseResults[i] # b
                        /\ \A d \in Conns \ {c} : box[d] # b
                     THEN <<>> ELSE h[b]]

\* accumulateCase, first half: LoadOrStore, and the slice is read.
AppendLoad(c) ==
    LET i == todo[c].id IN
    /\ pc[c] = "appending"
    /\ box[c] = NoBox
    /\ IF caseResults[i] # NoBox
       THEN /\ box' = [box EXCEPT ![c] = caseResults[i]]
            /\ seen' = [seen EXCEPT ![c] = heap[caseResults[i]]]
            /\ UNCHANGED caseResults
       ELSE /\ Free # {}
            /\ caseResults' = [caseResults EXCEPT ![i] = Fresh]
            /\ box' = [box EXCEPT ![c] = Fresh]
            /\ seen' = [seen EXCEPT ![c] = <<>>]
    /\ UNCHANGED <<connVars, todo, heap, callVars, chan, done>>

\* accumulateCase, second half: the longer slice is written back, over
\* whatever another handler wrote meanwhile, and even into a box that
\* finalizeResult has taken out of the map.  After the packet's last case
\* the handler is back in recv.
AppendStore(c) ==
    LET rest == Tail(todo[c].cases) IN
    /\ pc[c] = "appending"
    /\ box[c] # NoBox
    /\ heap' = Swept(c, [heap EXCEPT
                           ![box[c]] = Append(seen[c], Head(todo[c].cases))])
    /\ todo' = [todo EXCEPT ![c] = [id |-> IF rest = <<>> THEN 0 ELSE @.id,
                                    cases |-> rest]]
    /\ pc' = [pc EXCEPT ![c] = IF rest = <<>> THEN "serving" ELSE "appending"]
    /\ box' = [box EXCEPT ![c] = NoBox]
    /\ seen' = [seen EXCEPT ![c] = <<>>]
    /\ UNCHANGED <<name, closed, full, judges, caseResults, callVars, chan, done>>

\* grading-end: finalizeResult takes the box out of the map (LoadAndDelete)
\* and copies the slice into the result.
GradingEnd(c, i) ==
    /\ Receives(c, i)
    /\ box' = [box EXCEPT ![c] = caseResults[i]]
    /\ seen' = [seen EXCEPT ![c] = IF caseResults[i] = NoBox THEN <<>>
                                   ELSE heap[caseResults[i]]]
    /\ caseResults' = [caseResults EXCEPT ![i] = NoBox]
    /\ todo' = [todo EXCEPT ![c].id = i]
    /\ pc' = [pc EXCEPT ![c] = "finalizing"]
    /\ UNCHANGED <<name, closed, full, judges, heap, callVars, chan, done>>

\* ... then ranges over the box again for the worst status, and delivers.
FinalizeSum(c) ==
    LET i == todo[c].id
        summed == IF box[c] = NoBox THEN <<>> ELSE heap[box[c]]
    IN
    /\ pc[c] = "finalizing"
    /\ Deliver(i, [id |-> i, status |-> StatusName(WorstStatus(summed)),
                   cases |-> seen[c]])
    /\ heap' = Swept(c, heap)
    /\ box' = [box EXCEPT ![c] = NoBox]
    /\ seen' = [seen EXCEPT ![c] = <<>>]
    /\ todo' = [todo EXCEPT ![c].id = 0]
    /\ pc' = [pc EXCEPT ![c] = "serving"]
    /\ UNCHANGED <<name, closed, full, judges, caseResults, callVars, done>>

-------------------------------------------------------------------------------
(* The peer stops reading, and resumes. *)

Stall(c) ==
    /\ MayStall
    /\ pc[c] \in {"serving", "appending", "finalizing"}
    /\ ~full[c]
    /\ full' = [full EXCEPT ![c] = TRUE]
    /\ UNCHANGED <<pc, name, closed, judges, caseVars, callVars, chan, done>>

Drain(c) ==
    /\ full[c]
    /\ full' = [full EXCEPT ![c] = FALSE]
    /\ UNCHANGED <<pc, name, closed, judges, caseVars, callVars, chan, done>>

-------------------------------------------------------------------------------

\* What a Submit call does on its own, once made.
CallStep(k) ==
    \/ SubmitStore(k)
    \/ SubmitSend(k)
    \/ SubmitReceive(k)
    \/ SubmitTimeout(k)
    \/ SubmitShutdown(k)

\* What a handler does on its own, between two packets.
HandlerStep(c) ==
    \/ Greet(c)
    \/ Register(c)
    \/ Deregister(c)
    \/ AppendLoad(c)
    \/ AppendStore(c)
    \/ FinalizeSum(c)

\* What the peer of a connection makes its handler do.
PeerStep(c) ==
    \/ Accept(c)
    \/ \E n \in PeerNames : Handshake(c, n)
    \/ HandshakeReject(c)
    \/ GreetError(c)
    \/ RecvError(c)
    \/ \E i \in Ids, s \in {"CE", "IE", "AB"} : Ended(c, i, s)
    \/ \E i \in Ids, cs \in CaseLists : TestCaseStatus(c, i, cs)
    \/ \E i \in Ids : GradingEnd(c, i)
    \/ Stall(c)
    \/ Drain(c)

Next ==
    \/ \E k \in Calls : \/ SubmitPick(k)
                        \/ SubmitNoJudge(k)
                        \/ SubmitSendError(k)
                        \/ Expire(k)
                        \/ CallStep(k)
    \/ \E c \in Conns : HandlerStep(c) \/ PeerStep(c)
    \/ Stop

Spec == Init /\ [][Next]_vars

\* The Go scheduler runs every goroutine that can run; a timer fires; recv
\* on a closed connection and send to a closed connection fail at once.  Nothing
\* is assumed of the peers: one that stopped reading need never read again, and
\* then what is written to it waits.
Fairness ==
    /\ \A k \in Calls :
          /\ WF_vars(CallStep(k))
          /\ WF_vars(Expire(k))
          /\ WF_vars(SendToClosed(k))
    /\ \A c \in Conns :
          /\ WF_vars(HandlerStep(c))
          /\ WF_vars(closed[c] /\ RecvError(c))

-------------------------------------------------------------------------------
(* Properties *)

TypeOK ==
    /\ pc \in [Conns -> HandlerStates]
    /\ name \in [Conns -> JudgeIds]
    /\ closed \in [Conns -> BOOLEAN]
    /\ full \in [Conns -> BOOLEAN]
    /\ judges \in [JudgeIds -> Conns \cup {NoConn}]
    /\ todo \in [Conns -> [id : Ids, cases : Seq(Cases)]]
    /\ box \in [Conns -> Boxes \cup {NoBox}]
    /\ seen \in [Conns -> Seq(Cases)]
    /\ caseResults \in [Ids -> Boxes \cup {NoBox}]
    /\ heap \in [Boxes -> Seq(Cases)]
    /\ pending \in [Ids -> Calls \cup {NoCall}]
    /\ nextID \in 1..(MaxId + 1)
    /\ done \in BOOLEAN
    /\ call \in [Calls -> {"new", "picked", "stored", "waiting", "returned"}]
    /\ subID \in [Calls -> Ids]
    /\ target \in [Calls -> Conns \cup {NoConn}]
    /\ expired \in [Calls -> BOOLEAN]
    /\ chan \in [Calls -> Result \cup {NoResult}]
    /\ outcome \in [Calls -> {"none", "result", "noJudge", "sendError",
                              "timeout", "shutdown"}]
    /\ answer \in [Calls -> Result \cup {NoResult}]

\* A Submit call only ever returns the verdict of its own submission: ids,
\* the pending map and the result channels never cross two calls.
OwnResult == \A k \in Calls : answer[k] # NoResult => answer[k].id = subID[k]

\* pending holds exactly the calls between Store and return: a result finds
\* its call for as long as the call waits, and nothing stays behind.
PendingExact ==
    \A i \in Ids, k \in Calls :
        pending[i] = k <=> call[k] \in {"stored", "waiting"} /\ subID[k] = i

\* What is registered under an id that is not empty is a session of that judge
\* that has not ended: after handleJudge returned, no such entry leads to its
\* connection.
RegistrySound ==
    \A n \in Names : judges[n] # NoConn =>
        /\ name[judges[n]] = n
        /\ pc[judges[n]] \in {"serving", "appending", "finalizing", "leaving"}

\* Severity of a verdict, most severe first, as StatusName's comment has it.
MoreSevere(s, t) ==
    \E i, j \in DOMAIN JudgeOrder : i < j /\ JudgeOrder[i] = s /\ JudgeOrder[j] = t

\* The verdict of a graded submission says of its cases what the cases say:
\* AC only when no case has a flag, otherwise a flag some case has, and no
\* case has a more severe one.
VerdictSound ==
    \A k \in Calls :
        LET a == answer[k] IN
        a # NoResult /\ a.cases # <<>> =>
            LET flags == UNION {a.cases[j].flags : j \in DOMAIN a.cases} IN
            /\ IF flags = {} THEN a.status = "AC" ELSE a.status \in flags
            /\ \A f \in flags : ~MoreSevere(f, a.status)

\* The first verdict that reaches a waiting call is the one it returns:
\* whatever a judge sends afterwards, the channel keeps its content until
\* the call is over.
FirstVerdictWins ==
    [][\A k \in Calls : chan[k] # NoResult =>
          \/ chan'[k] = chan[k]
          \/ call'[k] = "returned" /\ answer'[k] \in {chan[k], NoResult}]_vars

\* A call whose context expired returns, unless it is in the write to a judge
\* that has stopped reading.  "It blocks until the judge finishes grading or the
\* context expires" (bridge.go:166) leaves that out: conn.Write has no deadline,
\* and the select comes only after judge.send.
EndsOnExpiry ==
    \A k \in Calls :
        expired[k] ~> \/ call[k] = "returned"
                      \/ call[k] = "stored" /\ full[target[k]]

\* A closed session is forgotten: neither a lost judge nor Stop leaves an
\* entry for pickJudge and HasJudge to find.  The entry under the empty id is
\* the exception: a session that announced none leaves it for ever, but only
\* such a session does.
ClosedIsForgotten ==
    \A c \in Conns :
        closed[c] ~> \A n \in JudgeIds : judges[n] = c => n = NoName /\ name[c] = NoName

\* "HasJudge returns true if at least one judge is connected and available"
\* (bridge.go): while a session of a judge serves, HasJudge holds.
HasJudgeWhileServing ==
    (\E c \in Conns : pc[c] = "serving" /\ ~closed[c]) => HasJudge
===============================================================================
