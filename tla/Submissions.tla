---------------------------- MODULE Submissions ----------------------------
(***************************************************************************)
(* The life of a request in the backend: the middleware in main's order,   *)
(* the handlers, the judge behind the adapter, the database, and a server  *)
(* that shuts down while requests are under way.                           *)
(*                                                                         *)
(* What the judge does with a submission is GradingService; here it        *)
(* answers, fails, or is given up on.                                      *)
(***************************************************************************)
EXTENDS Naturals, FiniteSets, Sequences

CONSTANTS
    Requests,
    Verdicts,       \* names of grading results
    PageSize        \* LIMIT of GetSubmissions, at least 1

ASSUME PageAssumption == PageSize \in Nat \ {0}

VARIABLES
    server,     \* main: "off", "start", "serving", "draining", "clean", "forced"
    hasDB,      \* DATABASE_URL is set
    pc, query,  \* each request: where its goroutine is, and what it asks for
    said,       \* what the bridge answered
    reply,      \* the response that is written, whether it arrives or not:
                \* "refused", "ok" (200), "accepted" (202) or "failed" (5xx)
    logged,     \* requests whose insert failed with an error line
    stamp, clock,   \* created_at of the rows being inserted
    rows,       \* the table submissions
    reader      \* a client that pages through GET /submissions

requestVars == <<server, hasDB, pc, query, said, reply, logged, stamp, clock, rows, reader>>

request == <<pc, query, said, reply, logged, stamp, clock, rows>>
world == <<server, hasDB>>

Queries == [path: {"submit", "run", "health"}, method: {"OPTIONS", "other"},
            origin: {"allowed", "other"}, limited: BOOLEAN,
            key: {"none", "bad", "good"},
            body: {"ok", "large", "malformed", "invalid"}]

NoQuery == [path |-> "none", origin |-> "other"]
NoReply == [status |-> "none", cors |-> FALSE]

RequestsInit ==
    /\ server = "start"
    /\ hasDB \in BOOLEAN
    /\ pc = [r \in Requests |-> "none"]
    /\ query = [r \in Requests |-> NoQuery]
    /\ said = [r \in Requests |-> "nothing"]
    /\ reply = [r \in Requests |-> NoReply]
    /\ logged = {}
    /\ stamp = [r \in Requests |-> 0] /\ clock = 1
    /\ rows = {}
    /\ reader = [at |-> "idle", offset |-> 0, there |-> {}, seen |-> {}]

-------------------------------------------------------------------------------
(* The middleware, in the order of main *)

\* Throttled requests are turned away before anything else is done for them.
ChainLimiterFirst == <<"limiter", "cors", "auth", "bind", "validate">>

\* Recovery, the logger, the security headers and MaxBodySize stop no request:
\* a body that is too large fails to bind.
Chain == <<"cors", "limiter", "auth", "bind", "validate">>

Preflight(q) == q.method = "OPTIONS"
Limited(q) == q.limited
NoKey(q) == q.path # "health" /\ q.key # "good"
TooLarge(q) == q.body = "large"
Unbound(q) == q.path # "health" /\ (TooLarge(q) \/ q.body = "malformed")
Invalid(q) == q.path # "health" /\ q.body = "invalid"

Stops(stage, q) ==
    CASE stage = "cors" -> Preflight(q)
      [] stage = "limiter" -> Limited(q)
      [] stage = "auth" -> NoKey(q)
      [] stage = "bind" -> Unbound(q)
      [] OTHER -> Invalid(q)

\* The stage that answers the request (with 204, 429, 401 or 403, 400, 400), or
\* the one past the last.
StopsAt(q) ==
    CHOOSE i \in 1 .. Len(Chain) + 1 :
        /\ i <= Len(Chain) => Stops(Chain[i], q)
        /\ \A j \in 1 .. i - 1 : ~Stops(Chain[j], q)

\* The header is written when the request gets to CORS.
CorsHeader(q) ==
    q.origin = "allowed" /\ \E i \in 1 .. StopsAt(q) : i <= Len(Chain) /\ Chain[i] = "cors"

Respond(r, q, status) ==
    /\ reply' = [reply EXCEPT ![r] = [status |-> status, cors |-> CorsHeader(q)]]
    /\ pc' = [pc EXCEPT ![r] = "done"]

Arrive(r) ==
    /\ server = "serving"
    /\ pc[r] = "none"
    /\ \E q \in Queries :
         IF StopsAt(q) <= Len(Chain) \/ q.path = "health"
         THEN /\ Respond(r, q, IF StopsAt(q) <= Len(Chain) THEN "refused" ELSE "ok")
              /\ query' = [query EXCEPT ![r] = [path |-> "none", origin |-> q.origin]]
         ELSE /\ pc' = [pc EXCEPT ![r] = "check"]
              /\ query' = [query EXCEPT ![r] = [path |-> q.path, origin |-> q.origin]]
              /\ UNCHANGED reply
    /\ UNCHANGED <<world, said, logged, stamp, clock, rows, reader>>

\* A request that got to its handler went through the whole chain.
Admitted(r) == [path |-> query[r].path, method |-> "other", origin |-> query[r].origin,
                limited |-> FALSE, key |-> "good", body |-> "ok"]

-------------------------------------------------------------------------------
(* The handlers Submit and Run *)

Goto(r, next) == pc' = [pc EXCEPT ![r] = next]

\* The record is left for later.
SettleUnrecorded(r, answer) ==
    /\ said' = [said EXCEPT ![r] = answer]
    /\ Goto(r, "reply")

\* A submission is persisted before it is answered, whatever became of it.
Settle(r, answer) ==
    /\ said' = [said EXCEPT ![r] = answer]
    /\ Goto(r, IF query[r].path = "submit" THEN "insert" ELSE "reply")

\* HasJudge, whatever it says.
Check(r) ==
    /\ pc[r] = "check"
    /\ \/ Goto(r, "ask") /\ UNCHANGED said
       \/ Settle(r, "unavailable")
    /\ UNCHANGED <<world, query, reply, logged, stamp, clock, rows, reader>>

\* A submission whose judge left looks for another one.
AskAgain(r) ==
    /\ pc[r] = "ask"
    /\ \/ Goto(r, "grading")
       \/ Goto(r, "check")
    /\ UNCHANGED <<world, query, said, reply, logged, stamp, clock, rows, reader>>

\* The judge may have left since.
Ask(r) ==
    /\ pc[r] = "ask"
    /\ \/ Goto(r, "grading") /\ UNCHANGED said
       \/ Settle(r, "error")
    /\ UNCHANGED <<world, query, reply, logged, stamp, clock, rows, reader>>

\* A verdict, an error, or no answer in TimeoutOverhead and the time limit.
Graded(r) ==
    /\ pc[r] = "grading"
    /\ \E answer \in Verdicts \cup {"error", "deadline"} : Settle(r, answer)
    /\ UNCHANGED <<world, query, reply, logged, stamp, clock, rows, reader>>

Verdict(answer) ==
    CASE answer = "unavailable" -> "pending"
      [] answer = "error" -> "judge_error"
      [] answer = "deadline" -> "IE"
      [] OTHER -> answer

\* persist, with the context of the request.  Without a database it does
\* nothing; a client that left, or a database that is down, costs the row.
Insert(r) ==
    /\ pc[r] = "insert"
    /\ \/ ~hasDB /\ Goto(r, "reply") /\ UNCHANGED <<logged, stamp, clock>>
       \/ /\ hasDB
          /\ logged' = logged \cup {r}
          /\ Goto(r, "reply")
          /\ UNCHANGED <<stamp, clock>>
       \/ /\ hasDB
          /\ stamp' = [stamp EXCEPT ![r] = clock]
          /\ clock' = clock + 1
          /\ Goto(r, "commit")
          /\ UNCHANGED logged
    /\ UNCHANGED <<world, query, said, reply, rows, reader>>

Row(r) == [id |-> r, verdict |-> Verdict(said[r]), at |-> stamp[r]]

\* now() was evaluated when the statement began, so rows appear in an order
\* that is not the order of their created_at.  When the client leaves or the
\* connection breaks now, the row may have been written all the same.
Commit(r) ==
    /\ pc[r] = "commit"
    /\ Goto(r, "reply")
    /\ \/ rows' = rows \cup {Row(r)} /\ UNCHANGED logged
       \/ rows' \in {rows, rows \cup {Row(r)}} /\ logged' = logged \cup {r}
    /\ UNCHANGED <<world, query, said, reply, stamp, clock, reader>>

Reply(r) ==
    /\ pc[r] = "reply"
    /\ LET run == query[r].path = "run" IN
         Respond(r, Admitted(r),
                 IF said[r] \notin {"unavailable", "error"} THEN "ok"
                 ELSE IF run THEN "failed" ELSE "accepted")
    /\ UNCHANGED <<world, query, said, logged, stamp, clock, rows, reader>>

-------------------------------------------------------------------------------
(* GET /submissions *)

Rank(x) == Cardinality({y \in rows : y.at > x.at})

\* The first row of a page is left out.
PageOffByOne(offset) == {x \in rows : Rank(x) > offset /\ Rank(x) <= offset + PageSize}

\* ORDER BY created_at DESC, id DESC LIMIT 100 OFFSET offset; the stamps of
\* rows differ.
Page(offset) == {x \in rows : Rank(x) >= offset /\ Rank(x) < offset + PageSize}

ListSubmissions ==
    /\ server = "serving"
    /\ hasDB
    /\ \/ /\ reader.at = "idle"
          /\ reader' = [reader EXCEPT !.at = "paging", !.there = {x.id : x \in rows}]
       \/ /\ reader.at = "paging"
          /\ LET page == Page(reader.offset) IN
               reader' = [reader EXCEPT !.at = IF page = {} THEN "done" ELSE "paging",
                                        !.offset = @ + Cardinality(page),
                                        !.seen = @ \cup {x.id : x \in page}]
    /\ UNCHANGED <<world, request>>

-------------------------------------------------------------------------------
(* main *)

\* The bridge's port, the database or the configuration may not be there.
Start ==
    /\ server = "start"
    /\ server' \in {"serving", "forced"}
    /\ UNCHANGED <<hasDB, request, reader>>

\* SIGTERM: the listener closes, and handlers have 30 s to end.
Shutdown ==
    /\ server = "serving"
    /\ server' = "draining"
    /\ UNCHANGED <<hasDB, request, reader>>

Busy(r) == pc[r] \notin {"none", "done", "lost"}

Exit ==
    /\ server = "draining"
    /\ \/ /\ \A r \in Requests : ~Busy(r)
          /\ server' = "clean"
          /\ UNCHANGED pc
       \/ /\ \E r \in Requests : Busy(r)
          /\ server' = "forced"
          /\ pc' = [r \in Requests |-> IF Busy(r) THEN "lost" ELSE pc[r]]
    /\ UNCHANGED <<hasDB, query, said, reply, logged,
                   stamp, clock, rows, reader>>

Handler(r) == Check(r) \/ Ask(r) \/ Graded(r) \/ Insert(r) \/ Commit(r) \/ Reply(r)

RequestsNext ==
    \/ \E r \in Requests : Arrive(r) \/ Handler(r)
    \/ ListSubmissions
    \/ Start \/ Shutdown \/ Exit

\* Goroutines run, the adapter's context expires, and so does Shutdown's.
Fairness == (\A r \in Requests : WF_requestVars(Handler(r))) /\ WF_requestVars(Exit)

RequestsSpec == RequestsInit /\ [][RequestsNext]_requestVars /\ Fairness

-------------------------------------------------------------------------------
(* Properties *)

\* The variables have their types.
RequestsTypeOK ==
    /\ server \in {"off", "start", "serving", "draining", "clean", "forced"}
    /\ hasDB \in BOOLEAN
    /\ pc \in [Requests -> {"none", "check", "ask", "grading", "insert", "commit",
                            "reply", "done", "lost"}]
    /\ query \in [Requests -> [path: {"none", "submit", "run"}, origin: {"allowed", "other"}]]
    /\ reply \in [Requests -> [status: {"none", "refused", "ok", "accepted", "failed"},
                               cors: BOOLEAN]]
    /\ said \in [Requests -> Verdicts \cup {"nothing", "unavailable", "error", "deadline"}]
    /\ logged \subseteq Requests
    /\ stamp \in [Requests -> Nat] /\ clock \in Nat
    /\ \A x \in rows :
          /\ x.id \in Requests /\ x.at \in Nat
          /\ x.verdict \in Verdicts \cup {"pending", "judge_error", "IE"}

\* An answer is never ahead of its record: a submission that was answered as
\* queued, failed or graded has a row that says the same, or an error line
\* says that it has none.
AnswerAfterRecord ==
    \A r \in Requests :
        query[r].path = "submit" /\ reply[r].status \in {"ok", "accepted"} /\ hasDB =>
            r \in logged \/ \E x \in rows : x.id = r /\ x.verdict = Verdict(said[r])

\* A page of an allowed origin can read every answer, the refusals included.
ErrorsReadable ==
    \A r \in Requests :
        reply[r].status # "none" /\ query[r].origin = "allowed" => reply[r].cors

\* Whoever pages through the list while submissions go on sees every row that
\* was there at the beginning.
NoRowSkipped == reader.at = "done" => reader.there \subseteq reader.seen

\* A request that got to its handler ends, with its client or without, or the
\* server was forced to exit under it.
EveryRequestEnds == \A r \in Requests : pc[r] = "check" ~> pc[r] \in {"done", "lost"}
===============================================================================
