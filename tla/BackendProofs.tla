---------------------------- MODULE BackendProofs ----------------------------
(***************************************************************************)
(* Proofs about RateLimiter for every number of clients, rate, burst and   *)
(* cleanup time, about Submissions for any number of requests and any      *)
(* verdicts, and about the client's pages for any number of problems,      *)
(* visits and fetches.                                                     *)
(***************************************************************************)
EXTENDS MCBackend, FiniteSetTheorems, TLAPS

-------------------------------------------------------------------------------
(* The rate limiter *)

\* What the proofs need of time multiplied by a rate: a period earns a whole
\* number of units, a tick more earns Rate more, and the time after which a
\* client may be deleted fills any bucket.
LEMMA Earning ==
    ASSUME NEW a \in Nat
    PROVE  /\ a * Rate \in Nat
           /\ (a + 1) * Rate = a * Rate + Rate
           /\ a > Cleanup => a * Rate >= Burst
<1>1. a * Rate \in Nat /\ Cleanup * Rate \in Nat
  BY RateLimiterAssumption
<1>2. (a + 1) * Rate = a * Rate + Rate
  BY RateLimiterAssumption
<1>3. ASSUME a > Cleanup PROVE a * Rate >= Burst
  <2>1. PICK d \in Nat : a = Cleanup + d
    <3>1. a - Cleanup \in Nat /\ a = Cleanup + (a - Cleanup)
      BY <1>3, RateLimiterAssumption
    <3>2. QED
      BY <3>1
  <2>2. d * Rate \in Nat
    BY RateLimiterAssumption
  <2>3. (Cleanup + d) * Rate = Cleanup * Rate + d * Rate
    BY RateLimiterAssumption
  <2>4. QED
    BY <1>1, <2>1, <2>2, <2>3, RateLimiterAssumption
<1>4. QED
  BY <1>1, <1>2, <1>3

\* A bucket never holds less than nothing or more than the burst.
LEMMA LevelType ==
    ASSUME TypeOK, NEW ip \in Clients
    PROVE  /\ Refill(ip) \in 0..Burst
           /\ Level(ip) \in 0..Burst
<1>1. age[ip] \in Nat /\ tokens[ip] \in Nat /\ Burst \in Nat
  BY RateLimiterAssumption DEF TypeOK
<1>2. age[ip] * Rate \in Nat
  BY <1>1, Earning
<1>3. Refill(ip) \in 0..Burst
  BY <1>1, <1>2 DEF Refill, Capped
<1>4. QED
  BY <1>1, <1>3 DEF Level

\* Time that earns a burst fills the bucket.
LEMMA FullAgain ==
    ASSUME NEW t \in Nat, NEW e \in Nat, e >= Burst
    PROVE  Capped(t + e) = Burst
BY RateLimiterAssumption DEF Capped

\* The types of the limiter's variables: a bucket holds between nothing and
\* the burst (ratelimit.go caps the refill and takes a token only when there
\* is one).
THEOREM LimiterTypeCorrect == Spec => []TypeOK
<1>1. Init => TypeOK
  BY RateLimiterAssumption DEF Init, TypeOK
<1>2. TypeOK /\ [Next]_vars => TypeOK'
  <2> SUFFICES ASSUME TypeOK, [Next]_vars PROVE TypeOK'
    OBVIOUS
  <2> USE RateLimiterAssumption
  <2>1. ASSUME NEW ip \in Clients, AllowNew(ip) PROVE TypeOK'
    BY <2>1 DEF TypeOK, AllowNew
  <2>2. ASSUME NEW ip \in Clients, AllowKnown(ip) PROVE TypeOK'
    <3>1. Refill(ip) - Cost \in 0..Burst
      BY <2>2, LevelType DEF AllowKnown
    <3>2. QED
      BY <2>2, <3>1 DEF TypeOK, AllowKnown
  <2>3. ASSUME NEW ip \in Clients, Refuse(ip) PROVE TypeOK'
    BY <2>3, LevelType DEF TypeOK, Refuse
  <2>4. ASSUME NEW ip \in Clients, Observe(ip) PROVE TypeOK'
    BY <2>4 DEF TypeOK, Observe
  <2>5. CASE CleanUp
    BY <2>5 DEF TypeOK, CleanUp
  <2>6. CASE Tick
    BY <2>6 DEF TypeOK, Tick
  <2>7. CASE UNCHANGED vars
    BY <2>7 DEF TypeOK, vars
  <2>8. QED
    BY <2>1, <2>2, <2>3, <2>4, <2>5, <2>6, <2>7 DEF Next
<1>3. QED
  BY <1>1, <1>2, PTL DEF Spec

-------------------------------------------------------------------------------
(* How each step changes the level of each bucket. *)

\* A deleted client was full, so deleting it leaves its level alone.
LEMMA CleanUpLevel ==
    ASSUME TypeOK, CleanUp, NEW ip \in Clients
    PROVE  Level(ip)' = Level(ip)
<1> USE RateLimiterAssumption
<1>1. age[ip] \in Nat /\ tokens[ip] \in Nat
  BY DEF TypeOK
<1>2. age[ip] * Rate \in Nat /\ (age[ip] > Cleanup => age[ip] * Rate >= Burst)
  BY <1>1, Earning
<1>3. CASE ip \in Stale
  <2>1. Level(ip)' = Burst
    BY <1>3 DEF CleanUp, Level
  <2>2. Level(ip) = Burst
    <3>1. ip \in known /\ age[ip] * Rate >= Burst
      BY <1>2, <1>3 DEF Stale
    <3>2. Capped(tokens[ip] + age[ip] * Rate) = Burst
      BY <1>1, <1>2, <3>1, FullAgain
    <3>3. QED
      BY <3>1, <3>2 DEF Level, Refill
  <2>3. QED
    BY <2>1, <2>2
<1>4. CASE ip \notin Stale
  <2>1. tokens'[ip] = tokens[ip] /\ age'[ip] = age[ip] /\ (ip \in known' <=> ip \in known)
    BY <1>4 DEF CleanUp
  <2>2. QED
    BY <2>1 DEF Level, Refill
<1>5. QED
  BY <1>3, <1>4

\* A tick gives every bucket Rate units, as far as they fit.
LEMMA TickLevel ==
    ASSUME TypeOK, Tick, NEW ip \in Clients
    PROVE  Level(ip)' = Capped(Level(ip) + Rate)
<1> USE RateLimiterAssumption
<1>1. age[ip] \in Nat /\ tokens[ip] \in Nat /\ age[ip] <= Horizon
  BY DEF TypeOK
<1>2. /\ age[ip] * Rate \in Nat
      /\ (age[ip] + 1) * Rate = age[ip] * Rate + Rate
      /\ age[ip] > Cleanup => age[ip] * Rate >= Burst
  BY <1>1, Earning
<1>3. CASE ip \notin known
  BY <1>3 DEF Tick, Level, Capped
<1>4. CASE ip \in known /\ age[ip] < Horizon
  <2>1. age'[ip] = age[ip] + 1 /\ tokens'[ip] = tokens[ip] /\ ip \in known'
    BY <1>4 DEF Tick
  <2>2. Level(ip)' = Capped(tokens[ip] + (age[ip] * Rate + Rate))
    BY <1>2, <2>1 DEF Level, Refill
  <2>3. Level(ip) = Capped(tokens[ip] + age[ip] * Rate)
    BY <1>4 DEF Level, Refill
  <2>4. QED
    BY <1>1, <1>2, <2>2, <2>3 DEF Capped
<1>5. CASE ip \in known /\ age[ip] = Horizon
  <2>1. age'[ip] = age[ip] /\ tokens'[ip] = tokens[ip] /\ ip \in known'
    BY <1>5 DEF Tick
  <2>2. Level(ip) = Burst /\ Level(ip)' = Burst
    <3>1. age[ip] * Rate >= Burst
      BY <1>1, <1>2, <1>5
    <3>2. Capped(tokens[ip] + age[ip] * Rate) = Burst
      BY <1>1, <1>2, <3>1, FullAgain
    <3>3. QED
      BY <1>5, <2>1, <3>2 DEF Level, Refill
  <2>3. QED
    BY <2>2 DEF Capped
<1>6. QED
  BY <1>1, <1>3, <1>4, <1>5

\* Only the client that asks pays, and only when it is admitted.
LEMMA RequestLevel ==
    ASSUME TypeOK, NEW ip \in Clients, NEW other \in Clients
    PROVE  /\ AllowNew(ip) \/ AllowKnown(ip) =>
                /\ Level(ip) >= Cost
                /\ Level(other)' = IF other = ip THEN Level(ip) - Cost
                                   ELSE Level(other)
           /\ Refuse(ip) => Level(ip) < Cost /\ Level(other)' = Level(other)
           /\ Observe(ip) => Level(other)' = Level(other)
<1> USE RateLimiterAssumption
<1>0. /\ tokens \in [Clients -> 0..Burst] /\ age \in [Clients -> 0..Horizon]
      /\ 0 * Rate = 0
      /\ Refill(ip) \in 0..Burst
  BY LevelType DEF TypeOK
<1>1. ASSUME AllowNew(ip)
      PROVE  /\ Level(ip) >= Cost
             /\ Level(other)' = IF other = ip THEN Level(ip) - Cost ELSE Level(other)
  <2>1. CASE other = ip
    <3>1. tokens'[ip] = Burst - Cost /\ age'[ip] = 0 /\ ip \in known' /\ ip \notin known
      BY <1>0, <1>1 DEF AllowNew
    <3>2. Level(ip)' = Capped(Burst - Cost)
      BY <1>0, <3>1 DEF Level, Refill
    <3>3. QED
      BY <2>1, <3>1, <3>2 DEF Level, Capped
  <2>2. CASE other # ip
    <3>1. /\ tokens'[other] = tokens[other] /\ age'[other] = age[other]
          /\ other \in known' <=> other \in known
      BY <1>0, <1>1, <2>2 DEF AllowNew
    <3>2. QED
      BY <1>1, <2>2, <3>1 DEF AllowNew, Level, Refill
  <2>3. QED
    BY <2>1, <2>2
<1>2. ASSUME AllowKnown(ip)
      PROVE  /\ Level(ip) >= Cost
             /\ Level(other)' = IF other = ip THEN Level(ip) - Cost ELSE Level(other)
  <2>1. CASE other = ip
    <3>1. /\ tokens'[ip] = Refill(ip) - Cost /\ age'[ip] = 0 /\ ip \in known'
          /\ ip \in known /\ Refill(ip) >= Cost
      BY <1>0, <1>2 DEF AllowKnown
    <3>2. Level(ip)' = Capped(Refill(ip) - Cost)
      BY <1>0, <3>1 DEF Level, Refill
    <3>3. QED
      BY <1>0, <2>1, <3>1, <3>2 DEF Level, Capped
  <2>2. CASE other # ip
    <3>1. /\ tokens'[other] = tokens[other] /\ age'[other] = age[other]
          /\ known' = known
      BY <1>0, <1>2, <2>2 DEF AllowKnown
    <3>2. QED
      BY <1>2, <2>2, <3>1 DEF AllowKnown, Level, Refill
  <2>3. QED
    BY <2>1, <2>2
<1>3. ASSUME Refuse(ip)
      PROVE  Level(ip) < Cost /\ Level(other)' = Level(other)
  <2>1. CASE other = ip
    <3>1. /\ tokens'[ip] = Refill(ip) /\ age'[ip] = 0 /\ ip \in known'
          /\ ip \in known /\ Refill(ip) < Cost
      BY <1>0, <1>3 DEF Refuse
    <3>2. Level(ip)' = Capped(Refill(ip))
      BY <1>0, <3>1 DEF Level, Refill
    <3>3. QED
      BY <1>0, <2>1, <3>1, <3>2 DEF Level, Capped
  <2>2. CASE other # ip
    <3>1. /\ tokens'[other] = tokens[other] /\ age'[other] = age[other]
          /\ known' = known
      BY <1>0, <1>3, <2>2 DEF Refuse
    <3>2. QED
      BY <1>3, <2>2, <3>1 DEF Refuse, Level, Refill
  <2>3. QED
    BY <2>1, <2>2
<1>4. ASSUME Observe(ip) PROVE Level(other)' = Level(other)
  BY <1>4 DEF Observe, Level, Refill
<1>5. QED
  BY <1>1, <1>2, <1>3, <1>4

-------------------------------------------------------------------------------

\* What makes NeverOverRate inductive: what was spent and what is left were
\* both paid for by the burst and by time.
Balance == \A ip \in Clients : spent[ip] + Level(ip) <= Burst + earned[ip]

\* A client is never admitted beyond the burst and the rate, in any period
\* (ratelimit.go: the late refill, the stored refusals and the cleanup).
THEOREM RateHolds == Spec => []NeverOverRate
<1> USE RateLimiterAssumption
<1>1. Init => Balance
  <2> SUFFICES ASSUME Init, NEW ip \in Clients
               PROVE  spent[ip] + Level(ip) <= Burst + earned[ip]
    BY DEF Balance
  <2>1. spent[ip] = 0 /\ earned[ip] = 0 /\ ip \notin known
    BY DEF Init
  <2>2. QED
    BY <2>1 DEF Level
<1>2. TypeOK /\ TypeOK' /\ Balance /\ [Next]_vars => Balance'
  <2> SUFFICES ASSUME TypeOK, TypeOK', Balance, [Next]_vars, NEW q \in Clients
               PROVE  (spent[q] + Level(q) <= Burst + earned[q])'
    BY DEF Balance
  <2>0. /\ spent \in [Clients -> Nat] /\ earned \in [Clients -> Nat]
        /\ Level(q) \in 0..Burst
        /\ (Level(q) \in 0..Burst)'
        /\ spent[q] + Level(q) <= Burst + earned[q]
    <3>1. (Level(q) \in 0..Burst)'
      <4>1. age'[q] \in Nat /\ tokens'[q] \in Nat
        BY DEF TypeOK
      <4>2. age'[q] * Rate \in Nat
        BY <4>1, Earning
      <4>3. QED
        BY <4>1, <4>2 DEF Level, Refill, Capped
    <3>2. QED
      BY <3>1, LevelType DEF TypeOK, Balance
  <2>1. ASSUME NEW ip \in Clients, AllowNew(ip) \/ AllowKnown(ip)
        PROVE  (spent[q] + Level(q) <= Burst + earned[q])'
    <3>1. Level(q)' = IF q = ip THEN Level(ip) - Cost ELSE Level(q)
      BY <2>1, RequestLevel
    <3>2. /\ spent'[q] = IF q = ip THEN spent[q] + Cost ELSE spent[q]
          /\ earned' = earned
      BY <2>0, <2>1 DEF AllowNew, AllowKnown
    <3>3. QED
      BY <2>0, <3>1, <3>2
  <2>2. ASSUME NEW ip \in Clients, Refuse(ip)
        PROVE  (spent[q] + Level(q) <= Burst + earned[q])'
    <3>1. Level(q)' = Level(q)
      BY <2>2, RequestLevel
    <3>2. QED
      BY <2>0, <2>2, <3>1 DEF Refuse
  <2>3. ASSUME NEW ip \in Clients, Observe(ip)
        PROVE  (spent[q] + Level(q) <= Burst + earned[q])'
    <3>1. Level(q)' = Level(q)
      BY <2>3, RequestLevel
    <3>2. \/ spent'[q] = 0 /\ earned'[q] = 0
          \/ spent'[q] = spent[q] /\ earned'[q] = earned[q]
      BY <2>0, <2>3 DEF Observe
    <3>3. QED
      BY <2>0, <3>1, <3>2
  <2>4. CASE CleanUp
    <3>1. Level(q)' = Level(q)
      BY <2>4, CleanUpLevel
    <3>2. QED
      BY <2>0, <2>4, <3>1 DEF CleanUp
  <2>5. CASE Tick
    <3>1. Level(q)' = Capped(Level(q) + Rate)
      BY <2>5, TickLevel
    <3>2. spent' = spent /\ earned'[q] = earned[q] + Rate
      BY <2>5 DEF Tick
    <3>3. QED
      BY <2>0, <3>1, <3>2 DEF Capped
  <2>6. CASE UNCHANGED vars
    BY <2>0, <2>6 DEF vars, Level, Refill
  <2>7. QED
    BY <2>1, <2>2, <2>3, <2>4, <2>5, <2>6 DEF Next
<1>3. TypeOK /\ Balance => NeverOverRate
  <2> SUFFICES ASSUME TypeOK, Balance, NEW ip \in Clients
               PROVE  spent[ip] <= Burst + earned[ip]
    BY DEF NeverOverRate
  <2>1. Level(ip) \in 0..Burst /\ spent[ip] \in Nat /\ earned[ip] \in Nat
    BY LevelType DEF TypeOK
  <2>2. QED
    BY <2>1 DEF Balance
<1>4. QED
  BY <1>1, <1>2, <1>3, LimiterTypeCorrect, PTL DEF Spec

-------------------------------------------------------------------------------

\* The limiter implements the token bucket that forgets nobody: every answer
\* it gives is one the bucket gives.
THEOREM LimiterImplements == Spec => ImplementsBucket
<1> USE RateLimiterAssumption
<1>1. Init => Bucket!Init
  BY DEF Init, Bucket!Init, Level
<1>2. TypeOK /\ [Next]_vars =>
        [Bucket!Next]_<<[ip \in Clients |-> Level(ip)], last>>
  <2> SUFFICES ASSUME TypeOK, [Next]_vars
               PROVE  [Bucket!Next]_<<[ip \in Clients |-> Level(ip)], last>>
    OBVIOUS
  <2> DEFINE level == [ip \in Clients |-> Level(ip)]
  <2>0. last \in [Clients -> BOOLEAN]
    BY DEF TypeOK
  <2>1. ASSUME NEW ip \in Clients, AllowNew(ip) \/ AllowKnown(ip)
        PROVE  Bucket!Admit(ip)
    <3>1. Level(ip) >= Cost
      BY <2>1, RequestLevel
    <3>2. \A q \in Clients :
             Level(q)' = IF q = ip THEN Level(ip) - Cost ELSE Level(q)
      BY <2>1, RequestLevel
    <3>3. level' = [level EXCEPT ![ip] = level[ip] - Cost]
      BY <3>2
    <3>4. last' = [last EXCEPT ![ip] = TRUE]
      BY <2>1 DEF AllowNew, AllowKnown
    <3>5. QED
      BY <3>1, <3>3, <3>4 DEF Bucket!Admit
  <2>2. ASSUME NEW ip \in Clients, Refuse(ip) PROVE Bucket!Refuse(ip)
    <3>1. Level(ip) < Cost
      BY <2>2, RequestLevel
    <3>2. \A q \in Clients : Level(q)' = Level(q)
      BY <2>2, RequestLevel
    <3>3. level' = level
      BY <3>2
    <3>4. QED
      BY <2>2, <3>1, <3>3 DEF Refuse, Bucket!Refuse
  <2>3. ASSUME NEW ip \in Clients, Observe(ip) PROVE UNCHANGED <<level, last>>
    <3>1. \A q \in Clients : Level(q)' = Level(q)
      BY <2>3, RequestLevel
    <3>2. QED
      BY <2>3, <3>1 DEF Observe
  <2>4. ASSUME CleanUp PROVE UNCHANGED <<level, last>>
    <3>1. \A q \in Clients : Level(q)' = Level(q)
      BY <2>4, CleanUpLevel
    <3>2. QED
      BY <2>4, <3>1 DEF CleanUp
  <2>5. ASSUME Tick PROVE Bucket!Tick
    <3>1. \A q \in Clients : Level(q)' = Capped(Level(q) + Rate)
      BY <2>5, TickLevel
    <3>2. level' = [q \in Clients |-> Bucket!Filled(level[q] + Rate)]
      BY <3>1 DEF Bucket!Filled, Capped
    <3>3. QED
      BY <2>5, <3>2 DEF Tick, Bucket!Tick
  <2>6. CASE UNCHANGED vars
    BY <2>6 DEF vars, Level, Refill
  <2>7. QED
    BY <2>1, <2>2, <2>3, <2>4, <2>5, <2>6 DEF Next, Bucket!Next
<1>3. QED
  BY <1>1, <1>2, LimiterTypeCorrect, PTL DEF Spec, ImplementsBucket, Bucket!Spec

-------------------------------------------------------------------------------
(* The requests *)

Answers == Verdicts \cup {"unavailable", "error", "deadline"}

\* What has happened to a request by the time its goroutine is where it is: it
\* was not answered, and once it is past its judge there is an answer to record.
Progress ==
    /\ \A r \in Requests : reply[r].status # "none" => pc[r] = "done"
    /\ \A r \in Requests : pc[r] \in {"insert", "commit", "reply"} => said[r] \in Answers

\* Some stage of the chain, or the place behind it, is where a request stops.
LEMMA StopsSomewhere ==
    ASSUME NEW q
    PROVE  /\ StopsAt(q) \in 1 .. 6
           /\ Len(Chain) = 5 /\ Chain[1] = "cors"
<1> DEFINE Here(i) == /\ i <= Len(Chain) => Stops(Chain[i], q)
                      /\ \A j \in 1 .. i - 1 : ~Stops(Chain[j], q)
<1>1. Len(Chain) = 5 /\ Chain[1] = "cors"
  BY DEF Chain
<1>2. \E i \in 1 .. 6 : Here(i)
  <2>1. CASE Stops(Chain[1], q)
    BY <1>1, <2>1
  <2>2. CASE ~Stops(Chain[1], q) /\ Stops(Chain[2], q)
    <3>1. Here(2)
      BY <1>1, <2>2
    <3>2. QED
      BY <3>1
  <2>3. CASE ~Stops(Chain[1], q) /\ ~Stops(Chain[2], q) /\ Stops(Chain[3], q)
    <3>1. Here(3)
      BY <1>1, <2>3
    <3>2. QED
      BY <3>1
  <2>4. CASE /\ ~Stops(Chain[1], q) /\ ~Stops(Chain[2], q) /\ ~Stops(Chain[3], q)
             /\ Stops(Chain[4], q)
    <3>1. Here(4)
      BY <1>1, <2>4
    <3>2. QED
      BY <3>1
  <2>5. CASE \A j \in 1 .. 4 : ~Stops(Chain[j], q)
    <3>1. Here(5) \/ Here(6)
      BY <1>1, <2>5
    <3>2. QED
      BY <3>1
  <2>6. QED
    <3>1. ~Stops(Chain[4], q) /\ ~Stops(Chain[3], q) /\ ~Stops(Chain[2], q) /\ ~Stops(Chain[1], q)
          => \A j \in 1 .. 4 : ~Stops(Chain[j], q)
      OBVIOUS
    <3>2. QED
      BY <2>1, <2>2, <2>3, <2>4, <2>5, <3>1
<1>3. StopsAt(q) = CHOOSE i \in 1 .. 6 : Here(i)
  BY <1>1 DEF StopsAt
<1>4. StopsAt(q) \in 1 .. 6
  BY <1>2, <1>3
<1>5. QED
  BY <1>1, <1>4

\* The chain begins with CORS, so that every response to an allowed origin has
\* its header.
LEMMA HeaderForAllowed ==
    ASSUME NEW q
    PROVE  CorsHeader(q) \in BOOLEAN /\ (q.origin = "allowed" => CorsHeader(q))
<1>1. StopsAt(q) \in 1 .. 6 /\ Len(Chain) = 5 /\ Chain[1] = "cors"
  BY StopsSomewhere
<1>2. 1 \in 1 .. StopsAt(q) /\ 1 <= Len(Chain)
  BY <1>1
<1>3. QED
  BY <1>1, <1>2 DEF CorsHeader

\* A response is typed, and ends its request.
LEMMA Responding ==
    ASSUME RequestsTypeOK, NEW r \in Requests, NEW q,
           NEW status \in {"refused", "ok", "accepted", "failed"}, Respond(r, q, status)
    PROVE  /\ reply' \in [Requests -> [status: {"none", "refused", "ok", "accepted", "failed"},
                                       cors: BOOLEAN]]
           /\ pc' = [pc EXCEPT ![r] = "done"]
           /\ reply'[r].status = status /\ reply'[r].cors = CorsHeader(q)
           /\ \A s \in Requests \ {r} : reply'[s] = reply[s]
<1>1. CorsHeader(q) \in BOOLEAN
  BY HeaderForAllowed
<1>2. QED
  BY <1>1 DEF Respond, RequestsTypeOK

\* The outcome of a judge is kept, and the request goes on to its record or its
\* reply.
LEMMA Settling ==
    ASSUME RequestsTypeOK, Progress, NEW r \in Requests, NEW answer \in Answers,
           pc[r] \in {"check", "ask", "grading"}, Settle(r, answer),
           UNCHANGED <<world, query, reply, logged, stamp, clock, rows>>
    PROVE  RequestsTypeOK' /\ Progress'
<1>1. said' = [said EXCEPT ![r] = answer] /\ said'[r] \in Answers
  BY DEF Settle, RequestsTypeOK
<1>2. PICK next \in {"insert", "reply"} : pc' = [pc EXCEPT ![r] = next]
  BY DEF Settle, Goto
<1>3. RequestsTypeOK'
  BY <1>1, <1>2 DEF RequestsTypeOK, world, Answers
<1>4. Progress'
  BY <1>1, <1>2 DEF Progress, RequestsTypeOK
<1>5. QED
  BY <1>3, <1>4

\* One step from check, ask or grading to the next place, with nothing said.
LEMMA Going ==
    ASSUME RequestsTypeOK, Progress, NEW r \in Requests, NEW next \in {"ask", "grading"},
           pc[r] \in {"check", "ask"}, Goto(r, next), UNCHANGED said,
           UNCHANGED <<world, query, reply, logged, stamp, clock, rows>>
    PROVE  RequestsTypeOK' /\ Progress'
BY DEF RequestsTypeOK, Progress, Goto, world

\* A row takes its verdict from what was said.
LEMMA RowType ==
    ASSUME RequestsTypeOK, NEW r \in Requests, said[r] \in Answers
    PROVE  /\ Row(r).id = r /\ Row(r).at \in Nat /\ Row(r).verdict = Verdict(said[r])
           /\ Row(r).verdict \in Verdicts \cup {"pending", "judge_error", "IE"}
BY DEF RequestsTypeOK, Row, Verdict, Answers

\* What a request is asked for when it arrives.
LEMMA ArrivalStep ==
    ASSUME RequestsTypeOK, NEW r \in Requests, Arrive(r)
    PROVE  /\ pc[r] = "none"
           /\ UNCHANGED <<server, hasDB, said, logged, stamp, clock, rows>>
           /\ query' \in [Requests -> [path: {"none", "submit", "run"},
                                       origin: {"allowed", "other"}]]
           /\ \A s \in Requests \ {r} : query'[s] = query[s] /\ reply'[s] = reply[s]
           /\ \/ /\ pc' = [pc EXCEPT ![r] = "done"]
                 /\ query'[r].path = "none"
                 /\ reply'[r].status \in {"refused", "ok"}
                 /\ query'[r].origin = "allowed" => reply'[r].cors
              \/ pc' = [pc EXCEPT ![r] = "check"] /\ UNCHANGED reply
           /\ reply' \in [Requests -> [status: {"none", "refused", "ok", "accepted", "failed"},
                                       cors: BOOLEAN]]
<1>1. pc[r] = "none" /\ UNCHANGED <<server, hasDB, said, logged, stamp, clock, rows>>
  BY DEF Arrive, world
<1>2. PICK q \in Queries :
        IF StopsAt(q) <= Len(Chain) \/ q.path = "health"
        THEN /\ Respond(r, q, IF StopsAt(q) <= Len(Chain) THEN "refused" ELSE "ok")
             /\ query' = [query EXCEPT ![r] = [path |-> "none", origin |-> q.origin]]
        ELSE /\ pc' = [pc EXCEPT ![r] = "check"]
             /\ query' = [query EXCEPT ![r] = [path |-> q.path, origin |-> q.origin]]
             /\ UNCHANGED reply
  BY DEF Arrive
<1>3. q.origin \in {"allowed", "other"} /\ q.path \in {"submit", "run", "health"}
  BY DEF Queries
<1>4. CASE StopsAt(q) <= Len(Chain) \/ q.path = "health"
  <2>1. PICK status \in {"refused", "ok"} : Respond(r, q, status)
    BY <1>2, <1>4
  <2>2. query' = [query EXCEPT ![r] = [path |-> "none", origin |-> q.origin]]
    BY <1>2, <1>4
  <2>3. /\ query' \in [Requests -> [path: {"none", "submit", "run"},
                                    origin: {"allowed", "other"}]]
        /\ query'[r].path = "none" /\ query'[r].origin = q.origin
        /\ \A s \in Requests \ {r} : query'[s] = query[s]
    BY <1>3, <2>2 DEF RequestsTypeOK
  <2>4. q.origin = "allowed" => CorsHeader(q)
    BY HeaderForAllowed
  <2>5. /\ reply' \in [Requests -> [status: {"none", "refused", "ok", "accepted", "failed"},
                                    cors: BOOLEAN]]
        /\ pc' = [pc EXCEPT ![r] = "done"]
        /\ reply'[r].status = status /\ reply'[r].cors = CorsHeader(q)
        /\ \A s \in Requests \ {r} : reply'[s] = reply[s]
    BY <2>1, Responding
  <2>6. QED
    BY <1>1, <2>3, <2>4, <2>5
<1>5. CASE ~(StopsAt(q) <= Len(Chain) \/ q.path = "health")
  <2>1. /\ pc' = [pc EXCEPT ![r] = "check"]
        /\ query' = [query EXCEPT ![r] = [path |-> q.path, origin |-> q.origin]]
        /\ UNCHANGED reply
    BY <1>2, <1>5
  <2>2. /\ query' \in [Requests -> [path: {"none", "submit", "run"},
                                    origin: {"allowed", "other"}]]
        /\ \A s \in Requests \ {r} : query'[s] = query[s]
    BY <1>3, <1>5, <2>1 DEF RequestsTypeOK
  <2>3. QED
    BY <1>1, <2>1, <2>2 DEF RequestsTypeOK
<1>6. QED
  BY <1>4, <1>5

\* The variables of the backend keep their types, and answers come last.
THEOREM RequestsTypeCorrect == RequestsSpec => [](RequestsTypeOK /\ Progress)
<1>1. RequestsInit => RequestsTypeOK /\ Progress
  BY DEF RequestsInit, RequestsTypeOK, Progress, NoQuery, NoReply
<1>2. RequestsTypeOK /\ Progress /\ [RequestsNext]_requestVars => RequestsTypeOK' /\ Progress'
  <2> SUFFICES ASSUME RequestsTypeOK, Progress, [RequestsNext]_requestVars PROVE RequestsTypeOK' /\ Progress'
    OBVIOUS
  <2>1. ASSUME NEW r \in Requests, Arrive(r) PROVE RequestsTypeOK' /\ Progress'
    <3>1. reply[r].status = "none"
      BY <2>1, ArrivalStep DEF Progress
    <3>2. RequestsTypeOK'
      <4>1. UNCHANGED <<server, hasDB, said, logged, stamp, clock, rows>>
        BY <2>1, ArrivalStep
      <4>2. pc' \in [Requests -> {"none", "check", "ask", "grading", "insert", "commit",
                                  "reply", "done", "lost"}]
        <5>1. pc' = [pc EXCEPT ![r] = "done"] \/ pc' = [pc EXCEPT ![r] = "check"]
          BY <2>1, ArrivalStep
        <5>2. QED
          BY <5>1 DEF RequestsTypeOK
      <4>3. /\ query' \in [Requests -> [path: {"none", "submit", "run"},
                                        origin: {"allowed", "other"}]]
            /\ reply' \in [Requests -> [status: {"none", "refused", "ok", "accepted", "failed"},
                                        cors: BOOLEAN]]
        BY <2>1, ArrivalStep
      <4>4. QED
        BY <4>1, <4>2, <4>3 DEF RequestsTypeOK
    <3>3. /\ \A t \in Requests \ {r} : pc'[t] = pc[t] /\ reply'[t] = reply[t]
          /\ said' = said /\ pc'[r] \in {"check", "done"}
          /\ pc'[r] = "done" \/ reply'[r] = reply[r]
      <4>1. \/ pc' = [pc EXCEPT ![r] = "done"]
            \/ pc' = [pc EXCEPT ![r] = "check"] /\ reply' = reply
        BY <2>1, ArrivalStep
      <4>2. QED
        BY <2>1, <4>1, ArrivalStep DEF RequestsTypeOK
    <3>4. Progress'
      BY <3>1, <3>3 DEF Progress
    <3>5. QED
      BY <3>2, <3>4
  <2>2. ASSUME NEW r \in Requests, Check(r) PROVE RequestsTypeOK' /\ Progress'
    <3>1. \/ Goto(r, "ask") /\ UNCHANGED said
          \/ Settle(r, "unavailable")
      BY <2>2 DEF Check
    <3>2. "unavailable" \in Answers
      BY DEF Answers
    <3>3. QED
      BY <2>2, <3>1, <3>2, Going, Settling DEF Check
  <2>3. ASSUME NEW r \in Requests, Ask(r) PROVE RequestsTypeOK' /\ Progress'
    <3>1. \/ Goto(r, "grading") /\ UNCHANGED said
          \/ Settle(r, "error")
      BY <2>3 DEF Ask
    <3>2. "error" \in Answers
      BY DEF Answers
    <3>3. QED
      BY <2>3, <3>1, <3>2, Going, Settling DEF Ask
  <2>4. ASSUME NEW r \in Requests, Graded(r) PROVE RequestsTypeOK' /\ Progress'
    <3>1. PICK answer \in Answers : Settle(r, answer)
      BY <2>4 DEF Graded, Answers
    <3>2. QED
      BY <2>4, <3>1, Settling DEF Graded
  <2>5. ASSUME NEW r \in Requests, Insert(r) PROVE RequestsTypeOK' /\ Progress'
    BY <2>5 DEF Insert, Goto, RequestsTypeOK, Progress, world
  <2>6. ASSUME NEW r \in Requests, Commit(r) PROVE RequestsTypeOK' /\ Progress'
    <3>1. pc[r] = "commit" /\ pc' = [pc EXCEPT ![r] = "reply"]
      BY <2>6 DEF Commit, Goto
    <3>2. UNCHANGED <<server, hasDB, query, said, reply, stamp, clock>>
      BY <2>6 DEF Commit, world
    <3>3. rows' \subseteq rows \cup {Row(r)} /\ logged' \subseteq logged \cup {r}
      BY <2>6 DEF Commit
    <3>4. said[r] \in Answers
      BY <3>1 DEF Progress
    <3>5. RequestsTypeOK'
      BY <3>1, <3>2, <3>3, <3>4, RowType DEF RequestsTypeOK
    <3>6. Progress'
      BY <3>1, <3>2, <3>4 DEF Progress, RequestsTypeOK
    <3>7. QED
      BY <3>5, <3>6
  <2>7. ASSUME NEW r \in Requests, Reply(r) PROVE RequestsTypeOK' /\ Progress'
    <3>1. PICK status \in {"ok", "failed", "accepted"} : Respond(r, Admitted(r), status)
      BY <2>7 DEF Reply
    <3>2. UNCHANGED <<server, hasDB, query, said, logged, stamp, clock, rows>>
      BY <2>7 DEF Reply, world
    <3>3. RequestsTypeOK'
      BY <3>1, <3>2, Responding DEF RequestsTypeOK
    <3>6. pc' = [pc EXCEPT ![r] = "done"] /\ \A s \in Requests \ {r} : reply'[s] = reply[s]
      BY <3>1, Responding
    <3>7. pc \in [Requests -> {"none", "check", "ask", "grading", "insert", "commit", "reply",
                              "done", "lost"}]
      BY DEF RequestsTypeOK
    <3>8. pc'[r] = "done" /\ \A s \in Requests \ {r} : pc'[s] = pc[s]
      BY <3>6, <3>7
    <3>4. Progress'
      BY <3>2, <3>6, <3>8 DEF Progress
    <3>5. QED
      BY <3>3, <3>4
  <2>8. CASE Exit
    <3>1. UNCHANGED <<hasDB, query, said, reply, logged, stamp, clock, rows>>
      BY <2>8 DEF Exit
    <3>2. server' \in {"clean", "forced"}
      BY <2>8 DEF Exit
    <3>3. /\ pc' \in [Requests -> {"none", "check", "ask", "grading", "insert", "commit",
                                   "reply", "done", "lost"}]
          /\ \A r \in Requests : \/ pc'[r] = pc[r]
                                 \/ pc'[r] = "lost" /\ pc[r] # "done"
      BY <2>8 DEF Exit, Busy, RequestsTypeOK
    <3>4. RequestsTypeOK'
      BY <3>1, <3>2, <3>3 DEF RequestsTypeOK
    <3>5. Progress'
      BY <3>1, <3>3 DEF Progress, RequestsTypeOK
    <3>6. QED
      BY <3>4, <3>5
  <2>9. CASE ListSubmissions \/ Start \/ Shutdown \/ UNCHANGED requestVars
    <3>1. UNCHANGED <<hasDB, pc, query, said, reply, logged, stamp, clock, rows>>
      BY <2>9 DEF ListSubmissions, Start, Shutdown, requestVars, world, request
    <3>2. server' \in {"off", "start", "serving", "draining", "clean", "forced"}
      BY <2>9 DEF ListSubmissions, Start, Shutdown, requestVars, world, RequestsTypeOK
    <3>3. QED
      BY <3>1, <3>2 DEF RequestsTypeOK, Progress
  <2>10. QED
    BY <2>1, <2>2, <2>3, <2>4, <2>5, <2>6, <2>7, <2>8, <2>9 DEF RequestsNext, Handler
<1>3. QED
  BY <1>1, <1>2, PTL DEF RequestsSpec

\* A submission has its record, or the line that says that it has none.
Recorded(r) ==
    r \in logged \/ \E x \in rows : x.id = r /\ x.verdict = Verdict(said[r])

\* When the answer is about to be written, the record is there.
RecordInv ==
    \A r \in Requests :
        query[r].path = "submit" /\ hasDB =>
            /\ pc[r] = "reply" => Recorded(r)
            /\ reply[r].status \in {"ok", "accepted"} => Recorded(r)

\* Nothing takes back a record once the judge has spoken.
LEMMA StillRecorded ==
    ASSUME NEW r \in Requests, Recorded(r), logged \subseteq logged', rows \subseteq rows',
           said'[r] = said[r]
    PROVE  Recorded(r)'
BY DEF Recorded, Verdict

\* A step that neither answers nor takes anybody to the reply.
LEMMA RecordQuiet ==
    ASSUME RecordInv, logged \subseteq logged', rows \subseteq rows', UNCHANGED hasDB,
           \A r \in Requests :
              /\ reply'[r] = reply[r] /\ query'[r] = query[r]
              /\ pc'[r] = "reply" =>
                   pc[r] = "reply" \/ Recorded(r)' \/ query[r].path # "submit" \/ ~hasDB
              /\ said'[r] = said[r] \/ (reply[r].status = "none" /\ pc[r] # "reply")
    PROVE  RecordInv'
<1> SUFFICES ASSUME NEW r \in Requests, (query[r].path = "submit")', hasDB'
             PROVE  /\ pc'[r] = "reply" => Recorded(r)'
                    /\ reply'[r].status \in {"ok", "accepted"} => Recorded(r)'
  BY DEF RecordInv
<1>1. query[r].path = "submit" /\ hasDB
  OBVIOUS
<1>2. CASE said'[r] = said[r]
  BY <1>1, <1>2, StillRecorded DEF RecordInv
<1>3. CASE reply[r].status = "none" /\ pc[r] # "reply"
  BY <1>1, <1>3
<1>4. QED
  BY <1>2, <1>3

\* A submission is recorded before it is answered: no client is told of a
\* verdict, or that it is queued, that the table does not have, unless a line
\* in the log says so (submit.go, persist before c.JSON).
THEOREM AnswersFollowRecords == RequestsSpec => []AnswerAfterRecord
<1>1. RequestsInit => RecordInv
  BY DEF RequestsInit, RecordInv, NoReply
<1>2. RequestsTypeOK /\ Progress /\ RequestsTypeOK' /\ RecordInv /\ [RequestsNext]_requestVars => RecordInv'
  <2> SUFFICES ASSUME RequestsTypeOK, Progress, RequestsTypeOK', RecordInv, [RequestsNext]_requestVars PROVE RecordInv'
    OBVIOUS
  <2>1. ASSUME NEW r \in Requests, Arrive(r) PROVE RecordInv'
    <3>1. /\ \A t \in Requests \ {r} : /\ reply'[t] = reply[t] /\ query'[t] = query[t]
                                       /\ pc'[t] = pc[t]
          /\ UNCHANGED <<hasDB, said, logged, rows>>
          /\ pc'[r] # "reply"
          /\ query'[r].path = "none" \/ reply'[r].status = "none"
      <4>1. reply[r].status = "none"
        BY <2>1, ArrivalStep DEF Progress
      <4>2. \/ pc' = [pc EXCEPT ![r] = "done"] /\ query'[r].path = "none"
            \/ pc' = [pc EXCEPT ![r] = "check"] /\ reply' = reply
        BY <2>1, ArrivalStep
      <4>3. QED
        BY <2>1, <4>1, <4>2, ArrivalStep DEF RequestsTypeOK
    <3>2. \A t \in Requests : Recorded(t)' <=> Recorded(t)
      BY <3>1 DEF Recorded, Verdict
    <3>3. QED
      BY <3>1, <3>2 DEF RecordInv
  <2>2. ASSUME NEW r \in Requests, Check(r) \/ Ask(r) \/ Graded(r) PROVE RecordInv'
    <3>1. pc[r] \in {"check", "ask", "grading"} /\ UNCHANGED <<hasDB, query, reply, logged, rows>>
      BY <2>2 DEF Check, Ask, Graded, world
    <3>2. \/ \E answer : Settle(r, answer)
          \/ UNCHANGED said /\ (Goto(r, "ask") \/ Goto(r, "grading"))
      BY <2>2 DEF Check, Ask, Graded
    <3>3. /\ \A t \in Requests \ {r} : pc'[t] = pc[t] /\ said'[t] = said[t]
          /\ pc'[r] = "reply" => query[r].path # "submit"
      BY <3>1, <3>2 DEF Settle, Goto, RequestsTypeOK
    <3>4. reply[r].status = "none"
      BY <3>1 DEF Progress
    <3>5. QED
      BY <3>1, <3>3, <3>4, RecordQuiet
  <2>3. ASSUME NEW r \in Requests, Insert(r) PROVE RecordInv'
    <3>1. /\ pc[r] = "insert" /\ UNCHANGED <<hasDB, query, reply, said, rows>>
          /\ logged \subseteq logged'
          /\ \A t \in Requests \ {r} : pc'[t] = pc[t]
          /\ pc'[r] = "reply" => ~hasDB \/ r \in logged'
      BY <2>3 DEF Insert, Goto, RequestsTypeOK, world
    <3>2. r \in logged' => Recorded(r)'
      BY DEF Recorded
    <3>3. QED
      BY <3>1, <3>2, RecordQuiet
  <2>4. ASSUME NEW r \in Requests, Commit(r) PROVE RecordInv'
    <3>1. /\ UNCHANGED <<hasDB, query, reply, said>>
          /\ pc' = [pc EXCEPT ![r] = "reply"]
          /\ logged \subseteq logged' /\ rows \subseteq rows'
          /\ r \in logged' \/ Row(r) \in rows'
      BY <2>4 DEF Commit, Goto, world
    <3>2. Recorded(r)'
      <4>1. Row(r).id = r /\ Row(r).verdict = Verdict(said'[r])
        BY <3>1 DEF Row
      <4>2. QED
        BY <3>1, <4>1 DEF Recorded, Verdict
    <3>3. \A t \in Requests \ {r} : pc'[t] = pc[t]
      BY <3>1 DEF RequestsTypeOK
    <3>4. QED
      BY <3>1, <3>2, <3>3, RecordQuiet
  <2>5. ASSUME NEW r \in Requests, Reply(r) PROVE RecordInv'
    <3>1. /\ pc[r] = "reply" /\ UNCHANGED <<hasDB, query, said, logged, rows>>
      BY <2>5 DEF Reply, world
    <3>2. /\ pc' = [pc EXCEPT ![r] = "done"]
          /\ \A t \in Requests \ {r} : reply'[t] = reply[t]
      <4>1. PICK status \in {"ok", "failed", "accepted"} : Respond(r, Admitted(r), status)
        BY <2>5 DEF Reply
      <4>2. QED
        BY <4>1, Responding
    <3>3. \A t \in Requests : Recorded(t)' <=> Recorded(t)
      BY <3>1 DEF Recorded, Verdict
    <3>4. pc'[r] = "done" /\ \A t \in Requests \ {r} : pc'[t] = pc[t]
      BY <3>2 DEF RequestsTypeOK
    <3>5. QED
      BY <3>1, <3>2, <3>3, <3>4 DEF RecordInv
  <2>6. CASE Exit
    <3>1. UNCHANGED <<hasDB, query, said, reply, logged, rows>>
      BY <2>6 DEF Exit
    <3>2. \A r \in Requests : pc'[r] = "reply" => pc[r] = "reply"
      BY <2>6 DEF Exit, RequestsTypeOK
    <3>3. QED
      BY <3>1, <3>2, RecordQuiet
  <2>7. CASE ListSubmissions \/ Start \/ Shutdown \/ UNCHANGED requestVars
    <3>1. UNCHANGED <<hasDB, pc, query, said, reply, logged, rows>>
      BY <2>7 DEF ListSubmissions, Start, Shutdown, requestVars, world, request
    <3>2. QED
      BY <3>1, RecordQuiet
  <2>8. QED
    BY <2>1, <2>2, <2>3, <2>4, <2>5, <2>6, <2>7 DEF RequestsNext, Handler
<1>3. RecordInv => AnswerAfterRecord
  BY DEF RecordInv, AnswerAfterRecord, Recorded
<1>4. QED
  BY <1>1, <1>2, <1>3, RequestsTypeCorrect, PTL DEF RequestsSpec

\* A page of an allowed origin can read every answer, whichever part of the
\* chain gave it: CORS comes before all that refuse (main.go, r.Use).
THEOREM ErrorsAlwaysReadable == RequestsSpec => []ErrorsReadable
<1>1. RequestsInit => ErrorsReadable
  BY DEF RequestsInit, ErrorsReadable, NoReply
<1>2. RequestsTypeOK /\ Progress /\ ErrorsReadable /\ [RequestsNext]_requestVars => ErrorsReadable'
  <2> SUFFICES ASSUME RequestsTypeOK, Progress, ErrorsReadable, [RequestsNext]_requestVars PROVE ErrorsReadable'
    OBVIOUS
  <2>1. ASSUME NEW r \in Requests, Arrive(r) PROVE ErrorsReadable'
    <3>1. \A t \in Requests \ {r} : query'[t] = query[t] /\ reply'[t] = reply[t]
      BY <2>1, ArrivalStep
    <3>2. reply[r].status = "none"
      BY <2>1, ArrivalStep DEF Progress
    <3>3. reply' = reply \/ (query'[r].origin = "allowed" => reply'[r].cors)
      BY <2>1, ArrivalStep
    <3>4. reply'[r].status # "none" /\ query'[r].origin = "allowed" => reply'[r].cors
      BY <3>2, <3>3
    <3>5. QED
      BY <3>1, <3>4 DEF ErrorsReadable
  <2>2. ASSUME NEW r \in Requests, Reply(r) PROVE ErrorsReadable'
    <3>1. PICK status \in {"ok", "failed", "accepted"} : Respond(r, Admitted(r), status)
      BY <2>2 DEF Reply
    <3>2. query' = query
      BY <2>2 DEF Reply
    <3>3. query[r].origin = "allowed" => CorsHeader(Admitted(r))
      BY HeaderForAllowed DEF Admitted
    <3>4. reply'[r].cors = CorsHeader(Admitted(r)) /\ \A t \in Requests \ {r} : reply'[t] = reply[t]
      BY <3>1, Responding
    <3>5. query[r].origin = "allowed" => reply'[r].cors
      BY <3>3, <3>4
    <3>6. QED
      BY <3>2, <3>4, <3>5 DEF ErrorsReadable
  <2>3. ASSUME NEW r \in Requests, Check(r) \/ Ask(r) \/ Graded(r) \/ Insert(r) \/ Commit(r)
        PROVE  ErrorsReadable'
    BY <2>3 DEF Check, Ask, Graded, Insert, Commit, ErrorsReadable
  <2>4. CASE ListSubmissions \/ Start \/ Shutdown \/ Exit \/ UNCHANGED requestVars
    BY <2>4 DEF ListSubmissions, Start, Shutdown, Exit, requestVars, request, ErrorsReadable
  <2>5. QED
    BY <2>1, <2>2, <2>3, <2>4 DEF RequestsNext, Handler
<1>3. QED
  BY <1>1, <1>2, RequestsTypeCorrect, PTL DEF RequestsSpec

-------------------------------------------------------------------------------
(* Paging *)

\* Rows have stamps of their own, and a request that was not committed has no
\* row yet.
Stamped ==
    /\ IsFiniteSet(rows)
    /\ \A x \in rows : x.at \in Nat /\ x.at < clock
    /\ \A x, y \in rows : x.at = y.at => x = y
    /\ \A r \in Requests : stamp[r] < clock
    /\ \A r \in Requests : pc[r] = "commit" =>
         /\ \A x \in rows : x.at # stamp[r]
         /\ \A s \in Requests : pc[s] = "commit" /\ stamp[s] = stamp[r] => s = r
    /\ \A r \in Requests : \A x \in rows :
         x.id = r => pc[r] \in {"reply", "done", "lost"}

\* Rows sink as newer ones come, so what is above the reader's offset was
\* seen, unless it is new.
Paging ==
    /\ reader \in [at: {"idle", "paging", "done"}, offset: Nat,
                  there: SUBSET Requests, seen: SUBSET Requests]
    /\ reader.at = "idle" => reader.offset = 0
    /\ reader.there \subseteq {x.id : x \in rows}
    /\ \A x \in rows : x.id \in reader.there /\ Rank(x) < reader.offset => x.id \in reader.seen
    /\ NoRowSkipped

PagingInv == Stamped /\ Paging

\* Ranks are numbers below a row's, and different rows have different ranks.
LEMMA Ranks ==
    ASSUME Stamped
    PROVE  /\ \A x \in rows : Rank(x) \in Nat
           /\ \A x, y \in rows : x.at < y.at => Rank(y) < Rank(x)
           /\ \A x, y \in rows : Rank(x) = Rank(y) => x = y
<1> DEFINE Above(x) == {y \in rows : y.at > x.at}
<1>1. ASSUME NEW x \in rows PROVE IsFiniteSet(Above(x)) /\ Rank(x) = Cardinality(Above(x)) /\ Rank(x) \in Nat
  <2>1. Above(x) \in SUBSET rows
    OBVIOUS
  <2>2. IsFiniteSet(Above(x))
    BY <2>1, FS_Subset DEF Stamped
  <2>3. QED
    BY <2>2, FS_CardinalityType DEF Rank
<1>2. ASSUME NEW x \in rows, NEW y \in rows, x.at < y.at PROVE Rank(y) < Rank(x)
  <2>1. x.at \in Nat /\ y.at \in Nat
    BY DEF Stamped
  <2>2. Above(y) \in SUBSET Above(x) /\ y \in Above(x) /\ y \notin Above(y)
    <3>1. ASSUME NEW z \in Above(y) PROVE z.at > x.at
      BY <1>2, <2>1 DEF Stamped
    <3>2. QED
      BY <1>2, <2>1, <3>1
  <2>3. Cardinality(Above(y)) <= Cardinality(Above(x)) /\ Cardinality(Above(y)) # Cardinality(Above(x))
    BY <1>1, <2>2, FS_Subset
  <2>4. QED
    BY <1>1, <2>3
<1>3. ASSUME NEW x \in rows, NEW y \in rows, Rank(x) = Rank(y) PROVE x = y
  <2>1. x.at \in Nat /\ y.at \in Nat
    BY DEF Stamped
  <2>2. Rank(x) \in Nat /\ Rank(y) \in Nat
    BY <1>1
  <2>3. ~(Rank(x) < Rank(y)) /\ ~(Rank(y) < Rank(x))
    BY <1>3, <2>2
  <2>4. ~(x.at < y.at) /\ ~(y.at < x.at)
    BY <1>2, <2>3
  <2>5. QED
    BY <2>1, <2>4 DEF Stamped
<1>4. QED
  BY <1>1, <1>2, <1>3

\* As many rows as there are have ranks in a range, no more than it is wide.
LEMMA RanksFit ==
    ASSUME Stamped, NEW lo \in Nat, NEW n \in Nat,
           NEW T \in SUBSET rows, \A x \in T : lo <= Rank(x) /\ Rank(x) < lo + n
    PROVE  IsFiniteSet(T) /\ Cardinality(T) \in Nat /\ Cardinality(T) <= n
<1> DEFINE f == [x \in T |-> Rank(x)]
           I == lo .. lo + n - 1
<1>1. IsFiniteSet(I) /\ Cardinality(I) = n
  <2>1. lo \in Int /\ lo + n - 1 \in Int
    OBVIOUS
  <2>2. IsFiniteSet(I) /\ Cardinality(I) = IF lo > lo + n - 1 THEN 0 ELSE (lo + n - 1) - lo + 1
    BY <2>1, FS_Interval
  <2>3. QED
    BY <2>2
<1>2. f \in [T -> I]
  BY Ranks
<1>3. f \in Injection(T, I)
  BY <1>2, Ranks DEF Injection, IsInjective
<1>4. QED
  BY <1>1, <1>3, FS_Injection, FS_CardinalityType

\* If no row is on a page that is not empty by its size, no row is past it.
LEMMA EmptyPage ==
    ASSUME Stamped, NEW offset \in Nat, Page(offset) = {}
    PROVE  \A x \in rows : Rank(x) < offset
<1> SUFFICES ASSUME NEW u \in rows, ~(Rank(u) < offset) PROVE FALSE
  OBVIOUS
<1> DEFINE N == {n \in Nat : \E x \in rows : Rank(x) = n /\ offset <= n}
<1>1. Rank(u) \in N
  BY Ranks
<1>2. PICK n \in N : \A m \in N : ~(<<m, n>> \in OpToRel(<, Nat))
  <2>1. N \subseteq Nat /\ N # {}
    BY <1>1
  <2>2. QED
    BY <2>1, NatLessThanWellFounded, WFMin, Zenon
<1>3. \A m \in N : ~(m < n)
  BY <1>2 DEF OpToRel
<1>4. PICK x \in rows : Rank(x) = n
  OBVIOUS
<1> DEFINE U == {y \in rows : y.at > x.at}
<1>5. ASSUME NEW y \in U PROVE 0 <= Rank(y) /\ Rank(y) < 0 + offset
  <2>1. x.at \in Nat /\ y.at \in Nat /\ y \in rows
    BY DEF Stamped
  <2>2. Rank(y) \in Nat /\ Rank(y) < n
    BY <1>4, <2>1, Ranks
  <2>3. Rank(y) \notin N
    BY <1>3, <2>2
  <2>4. QED
    BY <2>1, <2>2, <2>3
<1>6. Cardinality(U) <= offset
  <2>1. U \in SUBSET rows /\ 0 \in Nat
    OBVIOUS
  <2>2. QED
    BY <1>5, <2>1, RanksFit
<1>7. Rank(x) = offset
  <2>1. Rank(x) = Cardinality(U)
    BY DEF Rank
  <2>2. Rank(x) = n /\ n \in Nat /\ offset <= n
    BY <1>4
  <2>3. QED
    BY <1>6, <2>1, <2>2
<1>8. x \in Page(offset)
  BY <1>7, PageAssumption DEF Page
<1>9. QED
  BY <1>8

\* Rows that come later push the others down.
LEMMA Sinking ==
    ASSUME Stamped, Stamped', rows \subseteq rows', NEW x \in rows
    PROVE  Rank(x) \in Nat /\ Rank(x)' \in Nat /\ Rank(x) <= Rank(x)'
<1> DEFINE A == {y \in rows : y.at > x.at}
           B == {y \in rows' : y.at > x.at}
<1>1. A \in SUBSET rows /\ B \in SUBSET rows' /\ A \in SUBSET B
  OBVIOUS
<1>2. IsFiniteSet(A) /\ IsFiniteSet(B)
  BY <1>1, FS_Subset DEF Stamped
<1>3. Cardinality(A) \in Nat /\ Cardinality(B) \in Nat /\ Cardinality(A) <= Cardinality(B)
  BY <1>1, <1>2, FS_Subset, FS_CardinalityType
<1>4. QED
  BY <1>3 DEF Rank

LEMMA StampedStays ==
    ASSUME RequestsTypeOK, Stamped, [RequestsNext]_requestVars
    PROVE  Stamped'
<1> USE DEF Stamped
<1>1. ASSUME NEW r \in Requests, Arrive(r) PROVE Stamped'
  <2>1. pc[r] = "none" /\ pc'[r] \in {"check", "done"} /\ UNCHANGED <<stamp, clock, rows>>
        /\ \A s \in Requests \ {r} : pc'[s] = pc[s]
    BY <1>1, ArrivalStep DEF RequestsTypeOK
  <2>2. QED
    BY <2>1
<1>2. ASSUME NEW r \in Requests, Check(r) \/ Ask(r) \/ Graded(r) \/ Reply(r) PROVE Stamped'
  <2>1. pc[r] \in {"check", "ask", "grading", "reply"} /\ UNCHANGED <<stamp, clock, rows>>
    BY <1>2 DEF Check, Ask, Graded, Reply
  <2>2. /\ pc'[r] # "commit" /\ (pc[r] = "reply" => pc'[r] = "done")
        /\ \A s \in Requests \ {r} : pc'[s] = pc[s]
    BY <1>2, <2>1 DEF Check, Ask, Graded, Reply, Respond, Settle, Goto, RequestsTypeOK
  <2>3. QED
    BY <2>1, <2>2
<1>3. ASSUME NEW r \in Requests, Insert(r) PROVE Stamped'
  <2>1. /\ pc[r] = "insert" /\ rows' = rows
        /\ \A s \in Requests \ {r} : pc'[s] = pc[s]
        /\ \/ pc'[r] = "reply" /\ UNCHANGED <<stamp, clock>>
           \/ /\ pc'[r] = "commit" /\ stamp'[r] = clock /\ clock' = clock + 1
              /\ \A s \in Requests \ {r} : stamp'[s] = stamp[s]
    BY <1>3 DEF Insert, Goto, RequestsTypeOK
  <2>2. clock \in Nat /\ stamp \in [Requests -> Nat]
    BY DEF RequestsTypeOK
  <2>3. CASE pc'[r] = "reply"
    BY <2>1, <2>3
  <2>4. CASE pc'[r] = "commit"
    BY <2>1, <2>2, <2>4
  <2>5. QED
    BY <2>1, <2>3, <2>4
<1>4. ASSUME NEW r \in Requests, Commit(r) PROVE Stamped'
  <2>1. /\ pc[r] = "commit" /\ pc'[r] = "reply" /\ UNCHANGED <<stamp, clock>>
        /\ \A s \in Requests \ {r} : pc'[s] = pc[s]
        /\ rows' = rows \/ rows' = rows \cup {Row(r)}
    BY <1>4 DEF Commit, Goto, RequestsTypeOK
  <2>2. Row(r).at = stamp[r] /\ Row(r).id = r /\ stamp[r] \in Nat
    BY DEF Row, RequestsTypeOK
  <2>3. CASE rows' = rows
    BY <2>1, <2>3
  <2>4. CASE rows' = rows \cup {Row(r)}
    <3>1. IsFiniteSet(rows')
      BY <2>4, FS_AddElement
    <3>2. \A x \in rows' : x.at \in Nat /\ x.at < clock'
      BY <2>1, <2>2, <2>4
    <3>3. \A x, y \in rows' : x.at = y.at => x = y
      BY <2>1, <2>2, <2>4
    <3>4. \A s \in Requests : pc'[s] = "commit" => s # r /\ pc[s] = "commit" /\ stamp'[s] # stamp[r]
      BY <2>1
    <3>5. \A s \in Requests : pc'[s] = "commit" =>
            /\ \A x \in rows' : x.at # stamp'[s]
            /\ \A t \in Requests : pc'[t] = "commit" /\ stamp'[t] = stamp'[s] => t = s
      BY <2>1, <2>2, <2>4, <3>4
    <3>6. \A s \in Requests : \A x \in rows' : x.id = s => pc'[s] \in {"reply", "done", "lost"}
      BY <2>1, <2>2, <2>4
    <3>7. QED
      BY <2>1, <3>1, <3>2, <3>3, <3>5, <3>6
  <2>5. QED
    BY <2>1, <2>3, <2>4
<1>5. CASE Exit
  <2>1. /\ UNCHANGED <<stamp, clock, rows>>
        /\ \A r \in Requests : pc'[r] = pc[r] \/ pc'[r] = "lost"
    BY <1>5 DEF Exit, RequestsTypeOK
  <2>2. QED
    BY <2>1
<1>6. CASE ListSubmissions \/ Start \/ Shutdown \/ UNCHANGED requestVars
  BY <1>6 DEF ListSubmissions, Start, Shutdown, requestVars, request
<1>7. QED
  BY <1>1, <1>2, <1>3, <1>4, <1>5, <1>6 DEF RequestsNext, Handler

\* A page: all of its rows are seen, and the next one begins behind them.
LEMMA PageSeen ==
    ASSUME RequestsTypeOK, Stamped, Paging, ListSubmissions
    PROVE  Paging'
<1>1. rows' = rows /\ \A x \in rows : Rank(x)' = Rank(x)
  BY DEF ListSubmissions, request, Rank
<1>2. CASE reader.at = "idle"
  <2>1. reader' = [reader EXCEPT !.at = "paging", !.there = {x.id : x \in rows}]
    BY <1>2 DEF ListSubmissions
  <2>2. reader.offset = 0 /\ \A x \in rows : Rank(x) \in Nat
    BY <1>2, Ranks DEF Paging
  <2>3. {x.id : x \in rows} \in SUBSET Requests
    BY DEF RequestsTypeOK
  <2>4. /\ reader' \in [at: {"idle", "paging", "done"}, offset: Nat,
                       there: SUBSET Requests, seen: SUBSET Requests]
        /\ reader'.at = "paging" /\ reader'.there = {x.id : x \in rows} /\ reader'.offset = 0
    BY <2>1, <2>2, <2>3 DEF Paging
  <2>5. QED
    BY <1>1, <2>2, <2>4 DEF Paging, NoRowSkipped
<1>3. CASE reader.at = "paging"
  <2> DEFINE part == Page(reader.offset)
  <2> DEFINE gone == reader.offset + Cardinality(part)
             told == reader.seen \cup {x.id : x \in part}
  <2>1. reader.offset \in Nat /\ PageSize \in Nat
    BY PageAssumption DEF Paging
  <2>2. Cardinality(part) \in Nat /\ Cardinality(part) <= PageSize
    <3>1. part \in SUBSET rows /\ \A x \in part : reader.offset <= Rank(x) /\ Rank(x) < reader.offset + PageSize
      <4>1. part \in SUBSET rows
        BY DEF Page
      <4>2. ASSUME NEW x \in part PROVE reader.offset <= Rank(x) /\ Rank(x) < reader.offset + PageSize
        <5>1. x \in rows /\ Rank(x) >= reader.offset /\ Rank(x) < reader.offset + PageSize
          BY DEF Page
        <5>2. Rank(x) \in Nat
          BY <5>1, Ranks
        <5>3. QED
          BY <2>1, <5>1, <5>2
      <4>3. QED
        BY <4>1, <4>2
    <3>2. QED
      BY <2>1, <3>1, RanksFit
  <2>3. gone \in Nat
    BY <2>1, <2>2
  <2>4. told \in SUBSET Requests
    BY DEF Page, Paging, RequestsTypeOK
  <2>5. reader' = [reader EXCEPT !.at = IF part = {} THEN "done" ELSE "paging",
                                  !.offset = gone, !.seen = told]
    BY <1>3 DEF ListSubmissions
  <2> HIDE DEF gone, told, part
  <2>6. /\ reader' \in [at: {"idle", "paging", "done"}, offset: Nat,
                        there: SUBSET Requests, seen: SUBSET Requests]
         /\ reader'.at = (IF part = {} THEN "done" ELSE "paging")
         /\ reader'.offset = gone /\ reader'.seen = told /\ reader'.there = reader.there
    BY <2>3, <2>4, <2>5 DEF Paging
  <2>7. ASSUME NEW x \in rows, x.id \in reader.there, Rank(x) < gone
        PROVE  x.id \in told
    <3>0. Rank(x) \in Nat
      BY Ranks
    <3>1. CASE Rank(x) < reader.offset
      BY <2>7, <3>1 DEF Paging, told
    <3>2. CASE reader.offset <= Rank(x)
      <4>1. Rank(x) >= reader.offset /\ Rank(x) < reader.offset + PageSize
        BY <2>1, <2>2, <2>7, <3>0, <3>2 DEF gone
      <4>2. x \in part
        BY <4>1 DEF Page, part
      <4>3. QED
        BY <4>2 DEF told
    <3>3. QED
      BY <2>1, <3>0, <3>1, <3>2
  <2>8. part = {} => reader.there \subseteq reader.seen
    <3>1. part = {} => \A x \in rows : Rank(x) < reader.offset
      BY <2>1, EmptyPage DEF part
    <3>2. QED
      BY <3>1 DEF Paging
  <2>9. NoRowSkipped'
    BY <2>8, <2>6 DEF NoRowSkipped, told
  <2>10. reader'.at # "idle"
    BY <2>6
  <2>11. \A x \in rows' : x.id \in reader'.there /\ Rank(x)' < reader'.offset => x.id \in reader'.seen
    BY <1>1, <2>7, <2>6
  <2>12. reader'.there \subseteq {x.id : x \in rows'}
    BY <1>1, <2>6 DEF Paging
  <2>13. QED
    BY <2>9, <2>10, <2>11, <2>12, <2>6 DEF Paging
<1>4. QED
  BY <1>2, <1>3 DEF ListSubmissions

\* Whoever pages through the list while submissions go on sees every row that
\* was there at the beginning: rows only sink, so no page steps over one
\* (database.go, ORDER BY created_at DESC LIMIT OFFSET).
THEOREM NoRowIsSkipped == RequestsSpec => []NoRowSkipped
<1>1. RequestsInit => PagingInv
  BY FS_EmptySet DEF RequestsInit, PagingInv, Stamped, Paging, NoRowSkipped
<1>2. RequestsTypeOK /\ PagingInv /\ [RequestsNext]_requestVars => PagingInv'
  <2> SUFFICES ASSUME RequestsTypeOK, Stamped, Paging, [RequestsNext]_requestVars PROVE PagingInv'
    BY DEF PagingInv
  <2>1. Stamped'
    BY StampedStays
  <2>2. CASE ListSubmissions
    BY <2>1, <2>2, PageSeen DEF PagingInv
  <2>3. CASE ~ListSubmissions
    <3>1. reader' = reader
      BY <2>3 DEF RequestsNext, Handler, Arrive, Check, Ask, Graded, Insert, Commit, Reply, Start,
                  Shutdown, Exit, requestVars
    <3>2. \/ rows' = rows
          \/ \E r \in Requests : pc[r] = "commit" /\ rows' = rows \cup {Row(r)}
      BY <2>3 DEF RequestsNext, Handler, Arrive, Check, Ask, Graded, Insert, Commit, Reply, Start,
                  Shutdown, Exit, requestVars, request
    <3>3. rows \subseteq rows'
      BY <3>2
    <3>4. ASSUME NEW x \in rows', x.id \in reader.there PROVE x \in rows
      <4>1. PICK y \in rows : y.id = x.id
        BY <3>4 DEF Paging
      <4>2. \A r \in Requests : pc[r] = "commit" => Row(r).id = r /\ y.id # r
        BY DEF Stamped, Row
      <4>3. QED
        BY <3>2, <4>1, <4>2
    <3>5. ASSUME NEW x \in rows', x.id \in reader.there, Rank(x)' < reader.offset
          PROVE  x.id \in reader.seen
      <4>1. x \in rows
        BY <3>4, <3>5
      <4>2. Rank(x) < reader.offset
        BY <2>1, <3>3, <3>5, <4>1, Sinking DEF Paging
      <4>3. QED
        BY <3>5, <4>1, <4>2 DEF Paging
    <3>6. QED
      BY <2>1, <3>1, <3>3, <3>5 DEF PagingInv, Paging, NoRowSkipped
  <2>4. QED
    BY <2>2, <2>3
<1>3. PagingInv => NoRowSkipped
  BY DEF PagingInv, Paging
<1>4. QED
  BY <1>1, <1>2, <1>3, RequestsTypeCorrect, PTL DEF RequestsSpec

-------------------------------------------------------------------------------
(* The client's pages *)

Pages == Web!Addresses \cup {"problems"}

LoadTypes == [page : Pages, mount : Nat, at : {"problems", "starterCode", "done", "failed"}, tries : Nat]

RequestTypes == [mount : Nat, answered : BOOLEAN]

Views ==
    [shown : Pages \cup {Web!None}, code : {"empty", "typed", "starter"}, loading : BOOLEAN,
     failed : BOOLEAN, busy : BOOLEAN, console : Nat, asked : SUBSET Pages]

\* With the loads ls, the page p of mount m and state v is what the newest of
\* its loads came to, or an older one that still waited when that one began.
Follows(ls, p, m, v) ==
    LET n == Len(ls) IN
    /\ n > 0 /\ ls[n].page = p /\ ls[n].mount = m
    /\ ls[n].at = "failed" => v.failed
    /\ p \in v.asked
    /\ \A k \in 1 .. n - 1 : ls[k].mount = m /\ ls[k].at = "problems" => ls[k].page \in v.asked
    /\ ls[n].at \in {"starterCode", "done"} => v.shown \in v.asked
    /\ v.loading => ls[n].at \notin Web!Ended

\* Where nothing is loaded, nothing has failed.
Away(ls, m, v) == ~v.failed /\ \A l \in DOMAIN ls : ls[l].mount # m

LoadsInv(ls, p, m, v) ==
    /\ ls \in Seq(LoadTypes) /\ m \in Nat /\ v \in Views
    /\ \A l \in DOMAIN ls : ls[l].mount <= m
    /\ p \in Pages => Follows(ls, p, m, v)
    /\ p \notin Pages => Away(ls, m, v)

\* Of the requests rs, the last one of mount m is the one whose answer its
\* state v awaits, or shows.
AnswersInv(rs, m, v) ==
    /\ rs \in Seq(RequestTypes) /\ m \in Nat
    /\ \A r \in DOMAIN rs : rs[r].mount <= m
    /\ \A r \in DOMAIN rs : rs[r].mount = m /\ ~rs[r].answered =>
         v.busy /\ \A s \in DOMAIN rs : rs[s].mount = m => s <= r
    /\ v.busy => \E r \in DOMAIN rs : rs[r].mount = m /\ ~rs[r].answered
    /\ v.console # 0 => \A r \in DOMAIN rs : rs[r].mount = m => r <= v.console

WebInv == LoadsInv(loads, page, mount, view) /\ AnswersInv(requests, mount, view)

\* A new component.
LEMMA FreshView ==
    /\ Web!Fresh \in Views /\ Web!Fresh.busy = FALSE /\ Web!Fresh.console = 0
    /\ Web!Fresh.asked = {} /\ Web!Fresh.loading = FALSE /\ Web!Fresh.failed = FALSE
BY DEF Web!Fresh, Views

\* What a load does to a state.
LEMMA ViewsStay ==
    ASSUME NEW v \in Views
    PROVE  /\ Web!End(v) \in Views
           /\ Web!End(v).loading = FALSE /\ Web!End(v).failed = v.failed /\ Web!End(v).shown = v.shown
           /\ Web!End(v).busy = v.busy /\ Web!End(v).console = v.console
           /\ Web!End(v).asked = v.asked
<1>1. PICK w \in Views : w = [v EXCEPT !.loading = FALSE]
  BY DEF Views
<1>2. w.loading = FALSE /\ w.failed = v.failed /\ w.shown = v.shown
      /\ w.busy = v.busy /\ w.console = v.console /\ w.asked = v.asked
  BY <1>1 DEF Views
<1>3. Web!End(v) = [w EXCEPT !.code = "starter"]
  BY <1>1 DEF Web!End, Views
<1>4. QED
  BY <1>2, <1>3 DEF Views

LEMMA ShowStays ==
    ASSUME NEW v \in Views, NEW target \in Pages
    PROVE  \E w \in Views :
             /\ w = [v EXCEPT !.shown = target] /\ w.shown = target
             /\ w.loading = v.loading /\ w.failed = v.failed
             /\ w.busy = v.busy /\ w.console = v.console /\ w.asked = v.asked
<1>1. PICK w \in Views : w = [v EXCEPT !.shown = target]
  BY DEF Views
<1>2. QED
  BY <1>1 DEF Views

\* The load l of old has come to a.
Moved(old, new, l, a) ==
    /\ new \in Seq(LoadTypes) /\ Len(new) = Len(old)
    /\ \A k \in DOMAIN old : k # l => new[k] = old[k]
    /\ new[l].page = old[l].page /\ new[l].mount = old[l].mount /\ new[l].at = a

LEMMA LoadMoves ==
    ASSUME NEW ls \in Seq(LoadTypes), NEW l \in DOMAIN ls,
           NEW a \in {"problems", "starterCode", "done", "failed"}
    PROVE  /\ Moved(ls, [ls EXCEPT ![l].at = a], l, a)
           /\ Moved(ls, [ls EXCEPT ![l].at = a, ![l].tries = 0], l, a)
           /\ ls[l].at = a => Moved(ls, [ls EXCEPT ![l].tries = @ + 1], l, a)
<1>1. PICK x \in LoadTypes : x = ls[l]
  OBVIOUS
<1>2. ASSUME NEW y \in LoadTypes, y.page = x.page, y.mount = x.mount, y.at = a
      PROVE  Moved(ls, [ls EXCEPT ![l] = y], l, a)
  BY <1>1, <1>2 DEF Moved
<1>3. PICK y \in LoadTypes : y = [x EXCEPT !.at = a]
  BY DEF LoadTypes
<1>4. y.page = x.page /\ y.mount = x.mount /\ y.at = a
  BY <1>3 DEF LoadTypes
<1>5. PICK z \in LoadTypes : z = [y EXCEPT !.tries = 0]
  BY DEF LoadTypes
<1>6. z.page = x.page /\ z.mount = x.mount /\ z.at = a
  BY <1>4, <1>5 DEF LoadTypes
<1>13. PICK t \in Nat : t = x.tries + 1
  BY DEF LoadTypes
<1>7. PICK u \in LoadTypes : u = [x EXCEPT !.tries = t]
  BY DEF LoadTypes
<1>8. u.page = x.page /\ u.mount = x.mount /\ u.at = x.at
  BY <1>7 DEF LoadTypes
<1>9. Moved(ls, [ls EXCEPT ![l].at = a], l, a)
  <2>1. [ls EXCEPT ![l].at = a] = [ls EXCEPT ![l] = y]
    BY <1>1, <1>3
  <2>2. QED
    BY <1>2, <1>4, <2>1
<1>10. Moved(ls, [ls EXCEPT ![l].at = a, ![l].tries = 0], l, a)
  <2>1. [ls EXCEPT ![l].at = a, ![l].tries = 0] = [ls EXCEPT ![l] = z]
    BY <1>1, <1>3, <1>5
  <2>2. QED
    BY <1>2, <1>6, <2>1
<1>11. ls[l].at = a => Moved(ls, [ls EXCEPT ![l].tries = @ + 1], l, a)
  <2>1. [ls EXCEPT ![l].tries = @ + 1] = [ls EXCEPT ![l] = u]
    BY <1>1, <1>7, <1>13
  <2>2. QED
    BY <1>1, <1>2, <1>8, <2>1
<1>12. QED
  BY <1>9, <1>10, <1>11

\* A load that has the problems shows its own, and perhaps ends.
LEMMA ShowKeeps ==
    ASSUME NEW ls, NEW p, NEW m, NEW v, LoadsInv(ls, p, m, v),
           NEW l \in DOMAIN ls, ls[l].at = "problems",
           NEW new, NEW a \in {"starterCode", "done"}, Moved(ls, new, l, a),
           NEW w \in Views, w.shown = ls[l].page, w.failed = v.failed,
           w.loading => v.loading /\ a = "starterCode",
           w.asked = v.asked
    PROVE  LoadsInv(new, p, m, IF ls[l].mount = m THEN w ELSE v)
<1> DEFINE n == Len(ls)
           x == IF ls[l].mount = m THEN w ELSE v
<1>1. /\ ls \in Seq(LoadTypes) /\ new \in Seq(LoadTypes) /\ Len(new) = n /\ n \in Nat
      /\ DOMAIN ls = 1 .. n /\ DOMAIN new = 1 .. n /\ l \in 1 .. n
  BY DEF LoadsInv, Moved
<1>2. \A k \in 1 .. n : /\ new[k].mount = ls[k].mount /\ new[k].page = ls[k].page
                        /\ k # l => new[k] = ls[k]
  BY <1>1 DEF Moved
<1>3. new[l].at = a /\ a # "problems" /\ a # "failed"
  BY DEF Moved
<1>4. x \in Views /\ m \in Nat /\ \A k \in DOMAIN new : new[k].mount <= m
  BY <1>1, <1>2 DEF LoadsInv
<1>5. ASSUME p \in Pages PROVE Follows(new, p, m, x)
  <2>1. Follows(ls, p, m, v)
    BY <1>5 DEF LoadsInv
  <2>2. n > 0 /\ new[n].page = p /\ new[n].mount = m /\ n \in 1 .. n
    BY <1>1, <1>2, <2>1 DEF Follows
  <2>6. p \in x.asked /\ x.asked = v.asked
    BY <2>1 DEF Follows
  <2>7. \A k \in 1 .. n - 1 : new[k].mount = m /\ new[k].at = "problems" => new[k].page \in x.asked
    <3>1. \A k \in 1 .. n - 1 : k \in 1 .. n /\ (new[k].at = "problems" => k # l)
      BY <1>1, <1>3
    <3>2. QED
      BY <1>2, <2>1, <2>6, <3>1 DEF Follows
  <2>3. CASE l = n
    <3>1. x = w /\ w.shown = p
      BY <1>2, <2>2, <2>3
    <3>2. w.loading => new[n].at \notin Web!Ended
      BY <1>3, <2>3 DEF Web!Ended
    <3>3. QED
      BY <1>1, <1>3, <2>2, <2>3, <2>6, <2>7, <3>1, <3>2 DEF Follows
  <2>4. CASE l # n
    <3>1. new[n] = ls[n] /\ l \in 1 .. n - 1
      BY <1>1, <1>2, <2>2, <2>4
    <3>2. ls[n].at = "failed" => x.failed
      BY <2>1 DEF Follows
    <3>3. x.loading => ls[n].at \notin Web!Ended
      BY <2>1 DEF Follows
    <3>4. ls[n].at \in {"starterCode", "done"} => x.shown \in x.asked
      <4>1. CASE ls[l].mount = m
        BY <2>1, <2>6, <3>1, <4>1 DEF Follows
      <4>2. CASE ls[l].mount # m
        BY <2>1, <4>2 DEF Follows
      <4>3. QED
        BY <4>1, <4>2
    <3>5. QED
      BY <1>1, <2>2, <2>6, <2>7, <3>1, <3>2, <3>3, <3>4 DEF Follows
  <2>5. QED
    BY <2>3, <2>4
<1>6. ASSUME p \notin Pages PROVE Away(new, m, x)
  <2>1. Away(ls, m, v)
    BY <1>6 DEF LoadsInv
  <2>2. QED
    BY <1>1, <1>2, <2>1 DEF Away
<1>7. QED
  BY <1>1, <1>4, <1>5, <1>6 DEF LoadsInv

LEMMA HasProblemsKeeps ==
    ASSUME NEW ls, NEW p, NEW m, NEW v, LoadsInv(ls, p, m, v),
           NEW l \in DOMAIN ls, ls[l].at = "problems", Web!HasProblems(ls, l, p, m, v)
    PROVE  /\ LoadsInv(loads', page', mount', view')
           /\ \/ mount' = m /\ view'.busy = v.busy /\ view'.console = v.console
              \/ mount' = m + 1 /\ view' = Web!Fresh
<1>1. ls \in Seq(LoadTypes) /\ v \in Views /\ m \in Nat /\ ls[l] \in LoadTypes
  BY DEF LoadsInv
<1>2. ls[l].page \in Pages
  BY <1>1 DEF LoadTypes
<1>3. PICK s \in Views : /\ s = [v EXCEPT !.shown = ls[l].page] /\ s.shown = ls[l].page
           /\ s.loading = v.loading /\ s.failed = v.failed
           /\ s.busy = v.busy /\ s.console = v.console /\ s.asked = v.asked
  BY <1>1, <1>2, ShowStays
<1>4. CASE ls[l].page \in Strays
  <2>1. /\ page' = "not-found" /\ mount' = m + 1 /\ view' = Web!Fresh
        /\ loads' = [ls EXCEPT ![l].at = "done"]
    <3>1. ls[l].page # "problems" /\ ls[l].page \notin Problems
      BY <1>4, WebAssumption
    <3>2. QED
      BY <1>4, <3>1 DEF Web!HasProblems
  <2>2. Moved(ls, loads', l, "done")
    BY <1>1, <2>1, LoadMoves DEF Web!Ended
  <2>3. "not-found" \notin Pages
    BY WebAssumption DEF Pages, Web!Addresses
  <2>4. \A k \in DOMAIN loads' : loads'[k].mount <= m + 1 /\ loads'[k].mount # m + 1
    <3>1. /\ DOMAIN loads' = DOMAIN ls
          /\ \A k \in DOMAIN ls : loads'[k].mount = ls[k].mount /\ ls[k].mount \in Nat /\ ls[k].mount <= m
      <4>1. loads' \in Seq(LoadTypes) /\ Len(loads') = Len(ls)
        BY <2>2 DEF Moved
      <4>2. DOMAIN loads' = DOMAIN ls
        BY <1>1, <4>1
      <4>3. \A k \in DOMAIN ls : loads'[k].mount = ls[k].mount
        BY <2>2 DEF Moved
      <4>4. \A k \in DOMAIN ls : ls[k].mount \in Nat /\ ls[k].mount <= m
        <5>1. \A k \in DOMAIN ls : ls[k] \in LoadTypes
          BY <1>1
        <5>2. QED
          BY <5>1 DEF LoadsInv, LoadTypes
      <4>5. QED
        BY <4>2, <4>3, <4>4
    <3>2. QED
      BY <1>1, <3>1
  <2>5. loads' \in Seq(LoadTypes) /\ m + 1 \in Nat /\ Web!Fresh \in Views
    BY <1>1, <2>2, FreshView DEF Moved
  <2>6. Away(loads', m + 1, Web!Fresh)
    BY <2>4, FreshView DEF Away
  <2>7. LoadsInv(loads', "not-found", m + 1, Web!Fresh)
    BY <2>3, <2>4, <2>5, <2>6 DEF LoadsInv
  <2>8. QED
    BY <2>1, <2>7
<1>5. CASE ls[l].page \notin Strays /\ (ls[l].page = "problems" \/ (ls[l].page \in Problems /\ starterCode))
  <2>1. /\ page' = p /\ mount' = m
        /\ view' = IF ls[l].mount = m THEN Web!End(s) ELSE v
        /\ loads' = [ls EXCEPT ![l].at = "done"]
    BY <1>3, <1>5 DEF Web!HasProblems, Web!Seen
  <2>2. Moved(ls, loads', l, "done")
    BY <1>1, <2>1, LoadMoves DEF Web!Ended
  <2>3. PICK w \in Views :
          /\ w = Web!End(s) /\ w.loading = FALSE /\ w.failed = s.failed /\ w.shown = s.shown
          /\ w.busy = s.busy /\ w.console = s.console /\ w.asked = s.asked
    BY ViewsStay
  <2>4. LoadsInv(loads', p, m, IF ls[l].mount = m THEN w ELSE v)
    <3>1. PICK new : new = loads'
      OBVIOUS
    <3>2. w.shown = ls[l].page /\ w.failed = v.failed /\ ~w.loading /\ w.asked = v.asked
      BY <1>3, <2>3
    <3>3. Moved(ls, new, l, "done")
      BY <2>2, <3>1
    <3>4. LoadsInv(new, p, m, IF ls[l].mount = m THEN w ELSE v)
      BY <3>2, <3>3, ShowKeeps
    <3>5. QED
      BY <3>1, <3>4
  <2>5. QED
    BY <1>3, <2>1, <2>3, <2>4
<1>6. CASE ls[l].page \notin Strays /\ ~(ls[l].page = "problems" \/ (ls[l].page \in Problems /\ starterCode))
  <2>1. /\ page' = p /\ mount' = m
        /\ view' = IF ls[l].mount = m THEN s ELSE v
        /\ loads' = [ls EXCEPT ![l].at = "starterCode", ![l].tries = 0]
    BY <1>3, <1>6 DEF Web!HasProblems, Web!Seen
  <2>2. Moved(ls, loads', l, "starterCode")
    BY <1>1, <2>1, LoadMoves
  <2>3. LoadsInv(loads', p, m, IF ls[l].mount = m THEN s ELSE v)
    <3>1. PICK new : new = loads'
      OBVIOUS
    <3>2. /\ s.shown = ls[l].page /\ s.failed = v.failed
          /\ s.asked = v.asked /\ (s.loading => v.loading)
      BY <1>3
    <3>3. Moved(ls, new, l, "starterCode")
      BY <2>2, <3>1
    <3>4. LoadsInv(new, p, m, IF ls[l].mount = m THEN s ELSE v)
      <4>1. s.loading => v.loading /\ "starterCode" = "starterCode"
        BY <3>2
      <4>2. "starterCode" \in {"starterCode", "done"}
        OBVIOUS
      <4>3. QED
        BY <3>2, <3>3, <4>1, <4>2, ShowKeeps
    <3>5. QED
      BY <3>1, <3>4
  <2>4. QED
    BY <1>3, <2>1, <2>3
<1>7. QED
  BY <1>4, <1>5, <1>6

\* A load begins: in a new component, or in the one there is.
LEMMA BeginKeeps ==
    ASSUME NEW ls \in Seq(LoadTypes), NEW p \in Pages, NEW m \in Nat, NEW v \in Views,
           \A l \in DOMAIN ls : ls[l].mount <= m, loads = ls, Web!Begin(p, m, v)
    PROVE  /\ LoadsInv(loads', page', mount', view')
           /\ \/ mount' = m /\ view'.busy = v.busy /\ view'.console = v.console
              \/ mount' = m + 1 /\ view' = Web!Fresh
<1>1. PICK new \in LoadTypes : new = Web!Load(p, m)
  BY DEF Web!Load, LoadTypes
<1>2. new.page = p /\ new.mount = m /\ new.at = "problems"
  BY <1>1 DEF Web!Load
<1>3. PICK t \in Views : t = [v EXCEPT !.loading = TRUE]
  BY DEF Views
<1>4. t.busy = v.busy /\ t.console = v.console
  BY <1>3 DEF Views
<1>5. PICK u \in Views : u = [t EXCEPT !.failed = FALSE]
  BY DEF Views
<1>14. PICK A \in SUBSET Pages : A = Web!Waiting(m) \cup {p}
  <2>1. \A l \in DOMAIN ls : ls[l].page \in Pages
    <3>1. \A l \in DOMAIN ls : ls[l] \in LoadTypes
      OBVIOUS
    <3>2. QED
      BY <3>1 DEF LoadTypes
  <2>2. QED
    BY <2>1 DEF Web!Waiting
<1>15. PICK w \in Views : w = [u EXCEPT !.asked = A]
  BY DEF Views
<1>6. w.busy = v.busy /\ w.console = v.console /\ w.asked = A
  BY <1>4, <1>5, <1>15 DEF Views
<1>7. w = [v EXCEPT !.loading = TRUE, !.failed = FALSE, !.asked = Web!Waiting(m) \cup {p}]
  BY <1>3, <1>5, <1>14, <1>15
<1>8. PICK all \in Seq(LoadTypes) : all = Append(ls, new)
  <2>1. Append(ls, new) \in Seq(LoadTypes)
    OBVIOUS
  <2>2. QED
    BY <2>1
<1>9. /\ Len(all) \in DOMAIN all /\ all[Len(all)] = new /\ Len(all) > 0
      /\ \A k \in DOMAIN all : k # Len(all) => k \in DOMAIN ls /\ all[k] = ls[k]
  BY <1>8
<1>10. LoadsInv(all, p, m, w)
  <2>1. \A k \in DOMAIN all : all[k].mount <= m
    BY <1>2, <1>9
  <2>2. new.at \notin Web!Ended /\ new.at # "failed" /\ new.at \notin {"starterCode", "done"}
    BY <1>2 DEF Web!Ended
  <2>5. p \in w.asked
    BY <1>6, <1>14
  <2>6. ASSUME NEW k \in 1 .. Len(all) - 1, all[k].mount = m, all[k].at = "problems"
        PROVE  all[k].page \in w.asked
    <3>1. k \in DOMAIN ls /\ all[k] = ls[k]
      BY <1>8, <1>9
    <3>2. QED
      BY <1>6, <1>14, <2>6, <3>1 DEF Web!Waiting
  <2>3. Follows(all, p, m, w)
    BY <1>2, <1>9, <2>2, <2>5, <2>6 DEF Follows
  <2>4. QED
    BY <2>1, <2>3 DEF LoadsInv
<1>11. CASE problemsCache
  <2>1. Web!HasProblems(all, Len(all), p, m, w)
    BY <1>1, <1>7, <1>8, <1>11 DEF Web!Begin
  <2>2. QED
    BY <1>2, <1>6, <1>9, <1>10, <2>1, HasProblemsKeeps
<1>12. CASE ~problemsCache
  <2>1. page' = p /\ mount' = m /\ view' = w /\ loads' = all
    BY <1>1, <1>7, <1>8, <1>12 DEF Web!Begin
  <2>2. QED
    BY <1>6, <1>10, <2>1
<1>13. QED
  BY <1>11, <1>12

\* Answers stay with their page; one that is left keeps none.
LEMMA AnswersStay ==
    ASSUME NEW rs, NEW m, NEW v, AnswersInv(rs, m, v),
           NEW n, NEW w,
           \/ n = m /\ w.busy = v.busy /\ w.console = v.console
           \/ n = m + 1 /\ w.busy = FALSE /\ w.console = 0
           \/ n = m + 2 /\ w.busy = FALSE /\ w.console = 0
    PROVE  AnswersInv(rs, n, w)
<1>1. CASE n = m /\ w.busy = v.busy /\ w.console = v.console
  BY <1>1 DEF AnswersInv
<1>2. CASE (n = m + 1 \/ n = m + 2) /\ w.busy = FALSE /\ w.console = 0
  <2>1. n \in Nat /\ m \in Nat
    BY <1>2 DEF AnswersInv
  <2>2. \A r \in DOMAIN rs : rs[r].mount \in Nat /\ rs[r].mount <= m
    <3>1. rs \in Seq(RequestTypes)
      BY DEF AnswersInv
    <3>2. \A r \in DOMAIN rs : rs[r] \in RequestTypes
      BY <3>1
    <3>3. QED
      BY <3>2 DEF AnswersInv, RequestTypes
  <2>3. \A r \in DOMAIN rs : rs[r].mount <= n /\ rs[r].mount # n
    BY <1>2, <2>1, <2>2
  <2>4. QED
    BY <1>2, <2>1, <2>3 DEF AnswersInv
<1>3. QED
  BY <1>1, <1>2

\* A page of another component.
LEMMA VisitKeeps ==
    ASSUME WebInv, NEW p \in Pages, Web!Visit(p)
    PROVE  WebInv'
<1>1. PICK n \in Nat, v \in Views :
        /\ Web!Begin(p, n, v)
        /\ \/ n = mount /\ v = view
           \/ n = mount + 1 /\ v = Web!Fresh
  <2>1. mount \in Nat /\ mount + 1 \in Nat /\ view \in Views /\ Web!Fresh \in Views
    BY FreshView DEF WebInv, LoadsInv
  <2>2. Web!Begin(p, mount, view) \/ Web!Begin(p, mount + 1, Web!Fresh)
    BY DEF Web!Visit
  <2>3. QED
    BY <2>1, <2>2
<1>2. PICK ls \in Seq(LoadTypes), m \in Nat : ls = loads /\ m = mount
  BY DEF WebInv, LoadsInv
<1>3. \A l \in DOMAIN ls : ls[l].mount \in Nat /\ ls[l].mount <= m
  <2>1. \A l \in DOMAIN ls : ls[l] \in LoadTypes
    BY <1>2
  <2>2. QED
    BY <1>2, <2>1 DEF WebInv, LoadsInv, LoadTypes
<1>4. \A l \in DOMAIN ls : ls[l].mount <= n
  BY <1>1, <1>2, <1>3
<1>5. /\ LoadsInv(loads', page', mount', view')
      /\ \/ mount' = n /\ view'.busy = v.busy /\ view'.console = v.console
         \/ mount' = n + 1 /\ view' = Web!Fresh
  BY <1>1, <1>2, <1>4, BeginKeeps
<1>6. AnswersInv(requests, mount', view')
  <2>1. AnswersInv(requests, m, view)
    BY <1>2 DEF WebInv
  <2>2. \/ mount' = m /\ view'.busy = view.busy /\ view'.console = view.console
        \/ mount' = m + 1 /\ view'.busy = FALSE /\ view'.console = 0
        \/ mount' = m + 2 /\ view'.busy = FALSE /\ view'.console = 0
    BY <1>1, <1>2, <1>5, FreshView
  <2>3. PICK k, w : k = mount' /\ w = view'
    OBVIOUS
  <2>4. AnswersInv(requests, k, w)
    BY <2>1, <2>2, <2>3, AnswersStay
  <2>5. QED
    BY <2>3, <2>4
<1>7. requests' = requests
  BY DEF Web!Visit
<1>8. QED
  BY <1>5, <1>6, <1>7 DEF WebInv

LEMMA RetryKeeps ==
    ASSUME WebInv, Web!Retry
    PROVE  WebInv'
<1>8. page \in Pages
  BY DEF WebInv, LoadsInv, Away, Web!Retry
<1>1. PICK ls \in Seq(LoadTypes), m \in Nat, v \in Views, p \in Pages :
        ls = loads /\ m = mount /\ v = view /\ p = page
  BY <1>8 DEF WebInv, LoadsInv
<1>2. \A l \in DOMAIN ls : ls[l].mount <= m
  BY <1>1 DEF WebInv, LoadsInv
<1>3. Web!Begin(p, m, v)
  BY <1>1 DEF Web!Retry
<1>4. /\ LoadsInv(loads', page', mount', view')
      /\ \/ mount' = m /\ view'.busy = v.busy /\ view'.console = v.console
         \/ mount' = m + 1 /\ view' = Web!Fresh
  BY <1>1, <1>2, <1>3, BeginKeeps
<1>5. AnswersInv(requests, mount', view')
  <2>1. AnswersInv(requests, m, v)
    BY <1>1 DEF WebInv
  <2>2. PICK k, w : k = mount' /\ w = view'
    OBVIOUS
  <2>3. AnswersInv(requests, k, w)
    BY <1>4, <2>1, <2>2, AnswersStay, FreshView
  <2>4. QED
    BY <2>2, <2>3
<1>6. requests' = requests
  BY DEF Web!Retry
<1>7. QED
  BY <1>4, <1>5, <1>6 DEF WebInv

\* getProblems and getStarterCodeTemplates bring what a load waits for.
LEMMA GotProblemsKeeps ==
    ASSUME WebInv, NEW l \in DOMAIN loads, Web!GotProblems(l)
    PROVE  WebInv'
<1>1. PICK ls, m, v, p : ls = loads /\ m = mount /\ v = view /\ p = page
  OBVIOUS
<1>2. LoadsInv(ls, p, m, v) /\ l \in DOMAIN ls /\ ls[l].at = "problems"
  BY <1>1 DEF WebInv, Web!GotProblems
<1>3. Web!HasProblems(ls, l, p, m, v)
  BY <1>1 DEF Web!GotProblems
<1>4. /\ LoadsInv(loads', page', mount', view')
      /\ \/ mount' = m /\ view'.busy = v.busy /\ view'.console = v.console
         \/ mount' = m + 1 /\ view' = Web!Fresh
  BY <1>2, <1>3, HasProblemsKeeps
<1>5. AnswersInv(requests, mount', view')
  <2>1. AnswersInv(requests, m, v)
    BY <1>1 DEF WebInv
  <2>2. PICK k, w : k = mount' /\ w = view'
    OBVIOUS
  <2>3. AnswersInv(requests, k, w)
    BY <1>4, <2>1, <2>2, AnswersStay, FreshView
  <2>4. QED
    BY <2>2, <2>3
<1>6. requests' = requests
  BY DEF Web!GotProblems
<1>7. QED
  BY <1>4, <1>5, <1>6 DEF WebInv

\* A load ends, well or badly, or goes on: its page is told so, and no other.
LEMMA LoadKeeps ==
    ASSUME NEW ls, NEW p, NEW m, NEW v, LoadsInv(ls, p, m, v),
           NEW l \in DOMAIN ls, ls[l].at \notin Web!Ended,
           NEW new, NEW a, Moved(ls, new, l, a), NEW x \in Views,
           \/ a = ls[l].at /\ x = v
           \/ a = "done" /\ ls[l].at = "starterCode" /\ ls[l].mount # m /\ x = v
           \/ a = "failed" /\ ls[l].mount # m /\ x = v
           \/ /\ a = "done" /\ ls[l].at = "starterCode" /\ ls[l].mount = m
              /\ ~x.loading /\ x.failed = v.failed /\ x.shown = v.shown /\ x.asked = v.asked
           \/ /\ a = "failed" /\ ls[l].mount = m
              /\ ~x.loading /\ x.failed /\ x.shown = v.shown /\ x.asked = v.asked
    PROVE  LoadsInv(new, p, m, x)
<1> DEFINE n == Len(ls)
<1>1. /\ ls \in Seq(LoadTypes) /\ new \in Seq(LoadTypes) /\ Len(new) = n /\ n \in Nat
      /\ DOMAIN ls = 1 .. n /\ DOMAIN new = 1 .. n /\ l \in 1 .. n
  BY DEF LoadsInv, Moved
<1>2. \A k \in 1 .. n : /\ new[k].mount = ls[k].mount /\ new[k].page = ls[k].page
                        /\ k # l => new[k] = ls[k]
  BY <1>1 DEF Moved
<1>3. new[l].at = a /\ (a = "problems" => ls[l].at = "problems")
  BY DEF Moved
<1>4. m \in Nat /\ \A k \in DOMAIN new : new[k].mount <= m
  BY <1>1, <1>2 DEF LoadsInv
<1>5. ASSUME p \in Pages PROVE Follows(new, p, m, x)
  <2>1. Follows(ls, p, m, v)
    BY <1>5 DEF LoadsInv
  <2>2. n > 0 /\ new[n].page = p /\ new[n].mount = m /\ ls[n].mount = m /\ n \in 1 .. n
    BY <1>1, <1>2, <2>1 DEF Follows
  <2>3. \A k \in 1 .. n : new[k].at = "problems" => ls[k].at = "problems"
    BY <1>2, <1>3
  <2>4. new[n].at = "failed" => x.failed
    BY <1>2, <1>3, <2>1, <2>2 DEF Follows, Web!Ended
  <2>5. x.loading => new[n].at \notin Web!Ended
    BY <1>2, <1>3, <2>1, <2>2 DEF Follows, Web!Ended
  <2>6. new[n].at \in {"starterCode", "done"} => ls[n].at \in {"starterCode", "done"}
    BY <1>2, <1>3, <2>2
  <2>7. x.asked = v.asked /\ x.shown = v.shown
    OBVIOUS
  <2>8. /\ p \in x.asked
        /\ \A k \in 1 .. n - 1 : new[k].mount = m /\ new[k].at = "problems" => new[k].page \in x.asked
        /\ new[n].at \in {"starterCode", "done"} => x.shown \in x.asked
    <3>1. \A k \in 1 .. n - 1 : k \in 1 .. n
      BY <1>1
    <3>2. QED
      BY <1>2, <2>1, <2>3, <2>6, <2>7, <3>1 DEF Follows
  <2>9. QED
    BY <1>1, <2>2, <2>4, <2>5, <2>8 DEF Follows
<1>6. ASSUME p \notin Pages PROVE Away(new, m, x)
  <2>1. ~v.failed /\ \A k \in 1 .. n : ls[k].mount # m
    BY <1>1, <1>6 DEF LoadsInv, Away
  <2>2. x = v /\ \A k \in 1 .. n : new[k].mount # m
    BY <1>1, <1>2, <2>1
  <2>3. QED
    BY <1>1, <2>1, <2>2 DEF Away
<1>7. QED
  BY <1>1, <1>4, <1>5, <1>6 DEF LoadsInv

LEMMA GotStarterCodeKeeps ==
    ASSUME WebInv, NEW l \in DOMAIN loads, Web!GotStarterCode(l)
    PROVE  WebInv'
<1>11. PICK p : p = page
  OBVIOUS
<1>1. PICK ls \in Seq(LoadTypes), m \in Nat, v \in Views : ls = loads /\ m = mount /\ v = view
  BY DEF WebInv, LoadsInv
<1>2. LoadsInv(ls, p, m, v) /\ l \in DOMAIN ls /\ ls[l].at = "starterCode" /\ ls[l].at \notin Web!Ended
  BY <1>1, <1>11 DEF WebInv, Web!GotStarterCode, Web!Ended
<1>3. PICK new : new = [ls EXCEPT ![l].at = "done", ![l].tries = 0]
  OBVIOUS
<1>4. Moved(ls, new, l, "done")
  BY <1>1, <1>2, <1>3, LoadMoves
<1>5. PICK w \in Views :
        /\ w = Web!End(v) /\ w.loading = FALSE /\ w.failed = v.failed /\ w.shown = v.shown
        /\ w.busy = v.busy /\ w.console = v.console /\ w.asked = v.asked
  BY ViewsStay
<1>6. PICK x \in Views : x = IF ls[l].mount = m THEN w ELSE v
  OBVIOUS
<1>7. LoadsInv(new, p, m, x)
  BY <1>2, <1>4, <1>5, <1>6, LoadKeeps
<1>8. AnswersInv(requests, m, x)
  <2>1. AnswersInv(requests, m, v) /\ x.busy = v.busy /\ x.console = v.console
    BY <1>1, <1>5, <1>6 DEF WebInv
  <2>2. QED
    BY <2>1, AnswersStay
<1>9. /\ loads' = new /\ page' = p /\ mount' = m /\ view' = x /\ requests' = requests
  BY <1>1, <1>3, <1>5, <1>6, <1>11 DEF Web!GotStarterCode, Web!At, Web!Seen
<1>10. QED
  BY <1>7, <1>8, <1>9 DEF WebInv

\* What the end of a failing load does to a state.
LEMMA FailedView ==
    ASSUME NEW v \in Views
    PROVE  \E w \in Views :
             /\ w = [v EXCEPT !.loading = FALSE, !.failed = TRUE, !.console = 0]
             /\ ~w.loading /\ w.failed /\ w.shown = v.shown /\ w.busy = v.busy
             /\ w.console = 0 /\ w.asked = v.asked
<1>1. PICK t \in Views : t = [v EXCEPT !.loading = FALSE]
  BY DEF Views
<1>2. ~t.loading /\ t.shown = v.shown /\ t.busy = v.busy /\ t.asked = v.asked
  BY <1>1 DEF Views
<1>3. PICK u \in Views : u = [t EXCEPT !.failed = TRUE]
  BY DEF Views
<1>4. ~u.loading /\ u.failed /\ u.shown = v.shown /\ u.busy = v.busy /\ u.asked = v.asked
  BY <1>2, <1>3 DEF Views
<1>5. PICK w \in Views : w = [u EXCEPT !.console = 0]
  BY DEF Views
<1>6. /\ ~w.loading /\ w.failed /\ w.shown = v.shown /\ w.busy = v.busy
      /\ w.console = 0 /\ w.asked = v.asked
  BY <1>4, <1>5 DEF Views
<1>7. w = [v EXCEPT !.loading = FALSE, !.failed = TRUE, !.console = 0]
  BY <1>1, <1>3, <1>5
<1>8. QED
  BY <1>6, <1>7

LEMMA FetchFailsKeeps ==
    ASSUME WebInv, NEW l \in DOMAIN loads, Web!FetchFails(l)
    PROVE  WebInv'
<1>1. PICK p : p = page
  OBVIOUS
<1>2. PICK ls \in Seq(LoadTypes), m \in Nat, v \in Views : ls = loads /\ m = mount /\ v = view
  BY DEF WebInv, LoadsInv
<1>3. /\ LoadsInv(ls, p, m, v) /\ AnswersInv(requests, m, v) /\ l \in DOMAIN ls
      /\ ls[l].at \notin Web!Ended
  BY <1>1, <1>2 DEF WebInv, Web!FetchFails, Web!Ended
<1>4. page' = p /\ mount' = m /\ requests' = requests
  BY <1>1, <1>2 DEF Web!FetchFails
<1>5. CASE ls[l].tries < Retries
  <2>1. ls[l].at \in {"problems", "starterCode", "done", "failed"}
    <3>1. ls[l] \in LoadTypes
      BY <1>2, <1>3
    <3>2. QED
      BY <3>1 DEF LoadTypes
  <2>2. PICK new : new = [ls EXCEPT ![l].tries = @ + 1]
    OBVIOUS
  <2>3. loads' = new /\ view' = v
    BY <1>2, <1>5, <2>2 DEF Web!FetchFails
  <2>4. Moved(ls, new, l, ls[l].at)
    BY <1>2, <1>3, <2>1, <2>2, LoadMoves
  <2>5. LoadsInv(new, p, m, v)
    BY <1>3, <2>4, LoadKeeps
  <2>6. QED
    BY <1>3, <1>4, <2>3, <2>5 DEF WebInv
<1>6. CASE ~(ls[l].tries < Retries)
  <2>1. PICK w \in Views :
             /\ w = [v EXCEPT !.loading = FALSE, !.failed = TRUE, !.console = 0]
             /\ ~w.loading /\ w.failed /\ w.shown = v.shown /\ w.busy = v.busy
             /\ w.console = 0 /\ w.asked = v.asked
    BY FailedView
  <2>2. PICK x \in Views : x = IF ls[l].mount = m THEN w ELSE v
    OBVIOUS
  <2>3. PICK new : new = [ls EXCEPT ![l].at = "failed", ![l].tries = 0]
    OBVIOUS
  <2>4. loads' = new /\ view' = x
    BY <1>2, <1>6, <2>1, <2>2, <2>3 DEF Web!FetchFails, Web!At, Web!Seen
  <2>5. Moved(ls, new, l, "failed")
    BY <1>2, <1>3, <2>3, LoadMoves
  <2>6. LoadsInv(new, p, m, x)
    <3>1. CASE ls[l].mount = m
      <4>1. ~x.loading /\ x.failed /\ x.shown = v.shown /\ x.asked = v.asked
        BY <2>1, <2>2, <3>1
      <4>2. QED
        BY <1>3, <2>5, <3>1, <4>1, LoadKeeps
    <3>2. CASE ls[l].mount # m
      <4>1. x = v
        BY <2>2, <3>2
      <4>2. QED
        BY <1>3, <2>5, <3>2, <4>1, LoadKeeps
    <3>3. QED
      BY <3>1, <3>2
  <2>7. AnswersInv(requests, m, x)
    <3>1. x.busy = v.busy /\ (x.console = v.console \/ x.console = 0)
      BY <2>1, <2>2
    <3>2. QED
      BY <1>3, <3>1 DEF AnswersInv
  <2>8. QED
    BY <1>4, <2>4, <2>6, <2>7 DEF WebInv
<1>7. QED
  BY <1>5, <1>6

\* Nothing of the loads but what the user sees of them matters to them.
LEMMA LoadsStay ==
    ASSUME NEW ls, NEW p, NEW m, NEW v, LoadsInv(ls, p, m, v), NEW x \in Views,
           x.loading = v.loading, x.failed = v.failed, x.shown = v.shown,
           x.asked = v.asked
    PROVE  LoadsInv(ls, p, m, x)
BY DEF LoadsInv, Follows, Away

LEMMA EditKeeps ==
    ASSUME WebInv, NEW code \in {"empty", "typed", "starter"}, Web!Edit(code)
    PROVE  WebInv'
<1>1. PICK v \in Views : v = view
  BY DEF WebInv, LoadsInv
<1>2. PICK x \in Views : x = [v EXCEPT !.code = code]
  BY DEF Views
<1>3. /\ x.loading = v.loading /\ x.failed = v.failed /\ x.shown = v.shown
      /\ x.asked = v.asked /\ x.busy = v.busy /\ x.console = v.console
  BY <1>2 DEF Views
<1>4. LoadsInv(loads, page, mount, x) /\ AnswersInv(requests, mount, x)
  BY <1>1, <1>3, LoadsStay, AnswersStay DEF WebInv
<1>5. UNCHANGED <<page, mount, loads, requests>> /\ view' = x
  BY <1>1, <1>2 DEF Web!Edit
<1>6. QED
  BY <1>4, <1>5 DEF WebInv

LEMMA PressKeeps ==
    ASSUME WebInv, Web!Press
    PROVE  WebInv'
<1>1. PICK v \in Views : v = view
  BY DEF WebInv, LoadsInv
<1>2. PICK rs \in Seq(RequestTypes), m \in Nat : rs = requests /\ m = mount
  BY DEF WebInv, AnswersInv
<1>3. LoadsInv(loads, page, m, v) /\ AnswersInv(rs, m, v)
  BY <1>1, <1>2 DEF WebInv
<1>4. UNCHANGED <<page, loads>> /\ mount' = m /\ ~v.busy
  BY <1>1, <1>2 DEF Web!Press
<1>5. CASE v.code = "empty"
  <2>1. PICK x \in Views : x = [v EXCEPT !.console = 0]
    BY DEF Views
  <2>2. /\ x.loading = v.loading /\ x.failed = v.failed /\ x.shown = v.shown
        /\ x.asked = v.asked /\ x.busy = v.busy /\ x.console = 0
    BY <2>1 DEF Views
  <2>3. LoadsInv(loads, page, m, x)
    BY <1>3, <2>2, LoadsStay
  <2>4. AnswersInv(rs, m, x)
    BY <1>3, <2>2 DEF AnswersInv
  <2>5. view' = x /\ requests' = rs
    BY <1>1, <1>2, <1>5, <2>1 DEF Web!Press
  <2>6. QED
    BY <1>4, <2>3, <2>4, <2>5 DEF WebInv
<1>6. CASE v.code # "empty"
  <2>1. PICK t \in Views : t = [v EXCEPT !.busy = TRUE]
    BY DEF Views
  <2>2. /\ t.loading = v.loading /\ t.failed = v.failed /\ t.shown = v.shown
        /\ t.asked = v.asked /\ t.busy
    BY <2>1 DEF Views
  <2>3. PICK x \in Views : x = [t EXCEPT !.console = 0]
    BY DEF Views
  <2>4. /\ x.loading = v.loading /\ x.failed = v.failed /\ x.shown = v.shown
        /\ x.asked = v.asked /\ x.busy /\ x.console = 0
    BY <2>2, <2>3 DEF Views
  <2>5. LoadsInv(loads, page, m, x)
    BY <1>3, <2>4, LoadsStay
  <2>6. PICK q \in RequestTypes : q = [mount |-> m, answered |-> FALSE]
    BY DEF RequestTypes
  <2>7. Append(rs, q) \in Seq(RequestTypes)
    OBVIOUS
  <2>8. PICK new \in Seq(RequestTypes) : new = Append(rs, q)
    BY <2>7
  <2>9. AnswersInv(new, m, x)
    <3>1. /\ Len(new) \in DOMAIN new /\ new[Len(new)] = q /\ \A r \in DOMAIN new : r <= Len(new)
          /\ \A r \in DOMAIN new : r # Len(new) => r \in DOMAIN rs /\ new[r] = rs[r]
      BY <2>8
    <3>2. q.mount = m /\ ~q.answered
      BY <2>6
    <3>3. \A r \in DOMAIN rs : rs[r].mount <= m /\ (rs[r].mount = m => rs[r].answered)
      BY <1>3, <1>4 DEF AnswersInv
    <3>4. \A r \in DOMAIN new : new[r].mount <= m
      BY <3>1, <3>2, <3>3
    <3>5. \A r \in DOMAIN new : new[r].mount = m /\ ~new[r].answered => r = Len(new)
      BY <3>1, <3>3
    <3>6. QED
      BY <2>4, <3>1, <3>2, <3>4, <3>5 DEF AnswersInv
  <2>10. view' = x /\ requests' = new
    <3>1. x = [v EXCEPT !.busy = TRUE, !.console = 0]
      BY <2>1, <2>3
    <3>2. QED
      BY <1>1, <1>2, <1>6, <2>6, <2>8, <3>1 DEF Web!Press
  <2>11. QED
    BY <1>4, <2>5, <2>9, <2>10 DEF WebInv
<1>7. QED
  BY <1>5, <1>6

LEMMA AnswerKeeps ==
    ASSUME WebInv, NEW r \in DOMAIN requests, Web!Answer(r)
    PROVE  WebInv'
<1>1. PICK v \in Views : v = view
  BY DEF WebInv, LoadsInv
<1>2. PICK rs \in Seq(RequestTypes), m \in Nat : rs = requests /\ m = mount
  BY DEF WebInv, AnswersInv
<1>3. LoadsInv(loads, page, m, v) /\ AnswersInv(rs, m, v)
  BY <1>1, <1>2 DEF WebInv
<1>4. UNCHANGED <<page, loads>> /\ mount' = m /\ r \in DOMAIN rs /\ ~rs[r].answered
  BY <1>2 DEF Web!Answer
<1>5. PICK new \in Seq(RequestTypes) : new = [rs EXCEPT ![r].answered = TRUE]
  <2>1. PICK q \in RequestTypes : q = [rs[r] EXCEPT !.answered = TRUE]
    <3>1. rs[r] \in RequestTypes
      BY <1>4
    <3>2. QED
      BY <3>1 DEF RequestTypes
  <2>2. [rs EXCEPT ![r] = q] \in Seq(RequestTypes)
    BY <1>4
  <2>3. QED
    BY <2>1, <2>2
<1>6. /\ DOMAIN new = DOMAIN rs
      /\ \A k \in DOMAIN rs : new[k].mount = rs[k].mount /\ (k # r => new[k] = rs[k])
      /\ new[r].answered
  <2>1. rs[r] \in RequestTypes
    BY <1>4
  <2>2. rs[r].answered \in BOOLEAN
    BY <2>1 DEF RequestTypes
  <2>3. DOMAIN new = DOMAIN rs /\ \A k \in DOMAIN rs : k # r => new[k] = rs[k]
    BY <1>4, <1>5
  <2>4. new[r] = [rs[r] EXCEPT !.answered = TRUE]
    BY <1>4, <1>5
  <2>5. new[r].mount = rs[r].mount /\ new[r].answered
    BY <2>1, <2>4 DEF RequestTypes
  <2>6. QED
    BY <2>3, <2>5
<1>7. requests' = new
  BY <1>2, <1>5 DEF Web!Answer
<1>8. CASE rs[r].mount = m
  <2>1. PICK t \in Views : t = [v EXCEPT !.busy = FALSE]
    BY DEF Views
  <2>2. /\ t.loading = v.loading /\ t.failed = v.failed /\ t.shown = v.shown
        /\ t.asked = v.asked /\ ~t.busy
    BY <2>1 DEF Views
  <2>3. r \in Nat
    BY <1>4
  <2>4. PICK x \in Views : x = [t EXCEPT !.console = r]
    BY <2>3 DEF Views
  <2>5. /\ x.loading = v.loading /\ x.failed = v.failed /\ x.shown = v.shown
        /\ x.asked = v.asked /\ ~x.busy /\ x.console = r
    BY <2>2, <2>4 DEF Views
  <2>6. LoadsInv(loads, page, m, x)
    BY <1>3, <2>5, LoadsStay
  <2>7. AnswersInv(new, m, x)
    <3>1. \A s \in DOMAIN rs : rs[s].mount = m => s <= r
      BY <1>3, <1>4, <1>8 DEF AnswersInv
    <3>2. \A s \in DOMAIN rs : rs[s].mount = m /\ ~rs[s].answered => r <= s
      BY <1>3, <1>4, <1>8 DEF AnswersInv
    <3>3. \A s \in DOMAIN rs : rs[s].mount = m /\ ~rs[s].answered => s = r
      <4>1. \A s \in DOMAIN rs : s \in Nat
        BY <1>2
      <4>2. QED
        BY <1>4, <3>1, <3>2, <4>1
    <3>4. \A s \in DOMAIN new : new[s].mount = m => new[s].answered
      BY <1>6, <3>3
    <3>5. \A s \in DOMAIN new : new[s].mount <= m
      BY <1>3, <1>6 DEF AnswersInv
    <3>6. QED
      BY <1>6, <2>5, <3>1, <3>4, <3>5 DEF AnswersInv
  <2>8. view' = x
    <3>1. x = [v EXCEPT !.busy = FALSE, !.console = r]
      BY <2>1, <2>4
    <3>2. QED
      BY <1>1, <1>2, <1>8, <3>1 DEF Web!Answer
  <2>9. QED
    BY <1>4, <1>7, <2>6, <2>7, <2>8 DEF WebInv
<1>9. CASE rs[r].mount # m
  <2>1. view' = v
    BY <1>1, <1>2, <1>9 DEF Web!Answer
  <2>2. AnswersInv(new, m, v)
    <3>1. \A s \in DOMAIN new : new[s].mount = m => new[s] = rs[s]
      BY <1>6, <1>9
    <3>2. QED
      BY <1>3, <1>4, <1>6, <1>9, <3>1 DEF AnswersInv
  <2>3. QED
    BY <1>3, <1>4, <1>7, <2>1, <2>2 DEF WebInv
<1>10. QED
  BY <1>8, <1>9

LEMMA WebAlways == Web!Spec => []WebInv
<1>1. Web!Init => WebInv
  <2>1. SUFFICES ASSUME Web!Init PROVE WebInv
    OBVIOUS
  <2>2. "home" \notin Pages
    BY WebAssumption DEF Pages, Web!Addresses
  <2>3. PICK ls \in Seq(LoadTypes) : ls = <<>>
    <3>1. <<>> \in Seq(LoadTypes)
      OBVIOUS
    <3>2. QED
      BY <3>1
  <2>4. DOMAIN ls = {}
    BY <2>3
  <2>5. LoadsInv(ls, "home", 0, Web!Fresh)
    BY <2>2, <2>4, FreshView DEF LoadsInv, Away
  <2>6. PICK rs \in Seq(RequestTypes) : rs = <<>>
    <3>1. <<>> \in Seq(RequestTypes)
      OBVIOUS
    <3>2. QED
      BY <3>1
  <2>7. DOMAIN rs = {}
    BY <2>6
  <2>8. AnswersInv(rs, 0, Web!Fresh)
    BY <2>7, FreshView DEF AnswersInv
  <2>9. page = "home" /\ mount = 0 /\ view = Web!Fresh /\ loads = ls /\ requests = rs
    BY <2>1, <2>3, <2>6 DEF Web!Init
  <2>10. QED
    BY <2>5, <2>8, <2>9 DEF WebInv
<1>2. WebInv /\ [Web!Next]_(Web!vars) => WebInv'
  <2>1. SUFFICES ASSUME WebInv, [Web!Next]_(Web!vars) PROVE WebInv'
    OBVIOUS
  <2>2. CASE UNCHANGED Web!vars
    BY <2>1, <2>2 DEF Web!vars, WebInv
  <2>3. ASSUME NEW p \in Web!Addresses \cup {"problems"}, Web!Visit(p) PROVE WebInv'
    BY <2>1, <2>3, VisitKeeps DEF Pages
  <2>4. CASE Web!Retry
    BY <2>1, <2>4, RetryKeeps
  <2>5. CASE Web!Press
    BY <2>1, <2>5, PressKeeps
  <2>6. ASSUME NEW code \in {"empty", "typed", "starter"}, Web!Edit(code) PROVE WebInv'
    BY <2>1, <2>6, EditKeeps
  <2>7. ASSUME NEW l \in DOMAIN loads, Web!Loading(l) PROVE WebInv'
    BY <2>1, <2>7, GotProblemsKeeps, GotStarterCodeKeeps, FetchFailsKeeps DEF Web!Loading
  <2>8. ASSUME NEW r \in DOMAIN requests, Web!Answer(r) PROVE WebInv'
    BY <2>1, <2>8, AnswerKeeps
  <2>9. QED
    BY <2>1, <2>2, <2>3, <2>4, <2>5, <2>6, <2>7, <2>8 DEF Web!Next
<1>3. QED
  BY <1>1, <1>2, PTL DEF Web!Spec

\* PageIsOwn: whatever the user visits, however fetches come or fail and
\* whenever answers arrive, a page whose loads are over without a failure shows
\* what its newest load, or an older one of the same page that still waited when
\* that began, asked for; and its console answers its own last request.
THEOREM PageStaysOwn == Web!Spec => []PageIsOwn
<1>1. WebInv => PageIsOwn
  <2>1. SUFFICES ASSUME WebInv PROVE PageIsOwn
    OBVIOUS
  <2>2. PICK ls \in Seq(LoadTypes), m \in Nat, v \in Views : ls = loads /\ m = mount /\ v = view
    BY <2>1 DEF WebInv, LoadsInv
  <2>3. ASSUME page \in Problems \cup {"problems"}, ~v.failed,
               \A l \in DOMAIN ls : ls[l].mount = m => ls[l].at \in Web!Ended
        PROVE  v.shown \in v.asked /\ page \in v.asked /\ ~v.loading
    <3>1. Follows(ls, page, m, v)
      BY <2>1, <2>2, <2>3 DEF WebInv, LoadsInv, Pages, Web!Addresses
    <3>2. Len(ls) \in DOMAIN ls /\ ls[Len(ls)].mount = m
      BY <3>1 DEF Follows
    <3>3. ls[Len(ls)].at \in Web!Ended
      BY <2>3, <3>2
    <3>4. ls[Len(ls)].at = "done" \/ ls[Len(ls)].at = "failed"
      BY <3>3 DEF Web!Ended
    <3>5. QED
      BY <2>3, <3>1, <3>3, <3>4 DEF Follows
  <2>4. Web!ShownIsAsked
    BY <2>2, <2>3 DEF Web!ShownIsAsked
  <2>5. AnswersInv(requests, mount, view)
    BY <2>1 DEF WebInv
  <2>6. PICK rs \in Seq(RequestTypes) : rs = requests
    BY <2>5 DEF AnswersInv
  <2>7. /\ v.console # 0 => \A r \in DOMAIN rs : rs[r].mount = m => r <= v.console
        /\ v.busy <=> \E r \in DOMAIN rs : rs[r].mount = m /\ ~rs[r].answered
        /\ \A r, s \in DOMAIN rs : rs[r].mount = m /\ ~rs[r].answered
                                    /\ rs[s].mount = m /\ ~rs[s].answered => r <= s /\ s <= r
    BY <2>2, <2>5, <2>6 DEF AnswersInv
  <2>8. \A r, s \in DOMAIN rs : r <= s /\ s <= r => r = s
    BY <2>6
  <2>9. Web!AnswerOfLastPress
    BY <2>2, <2>6, <2>7, <2>8 DEF Web!AnswerOfLastPress
  <2>10. QED
    BY <2>4, <2>9 DEF PageIsOwn, Web!PageIsOwn
<1>2. QED
  BY <1>1, WebAlways, PTL
===============================================================================
