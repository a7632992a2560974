----------------------------- MODULE RateLimiter -----------------------------
(***************************************************************************)
(* The rate limiter of the HTTP API (middleware/ratelimit.go).             *)
(*                                                                         *)
(* It keeps a client's tokens as they were at its last request, refused or *)
(* not, and adds what the time since then earned at the next one.  Clients *)
(* it has not seen for long are deleted by a background goroutine and are  *)
(* new, with a full bucket, when they come back.  Everything runs under    *)
(* the limiter's mutex, so an operation is one step.                       *)
(***************************************************************************)
EXTENDS Integers

CONSTANTS
    Clients,  \* IP addresses
    Rate,     \* units a bucket earns per tick
    Burst,    \* units of a full bucket
    Cost,     \* units of a request
    Cleanup,  \* ticks without a request before a client may be deleted
    Horizon   \* bound: older ages all count as this one

ASSUME RateLimiterAssumption ==
    /\ Rate \in Nat
    /\ Burst \in Nat
    /\ Cost \in Nat
    /\ Cleanup \in Nat
    /\ Horizon \in Nat
    /\ Cost <= Burst              \* a full bucket admits a request
    /\ Burst <= Cleanup * Rate    \* a client is not deleted before it is full
    /\ Cleanup < Horizon

VARIABLES
    known,   \* the clients in rl.clients
    tokens,  \* c.tokens
    age,     \* time since c.lastSeen
    last,    \* what allow returned for a client's last request
    spent,   \* units a client spent since its observer started counting
    earned   \* units its bucket was given since then

vars == <<known, tokens, age, last, spent, earned>>

Init ==
    /\ known = {}
    /\ tokens = [ip \in Clients |-> 0]
    /\ age = [ip \in Clients |-> 0]
    /\ last = [ip \in Clients |-> TRUE]
    /\ spent = [ip \in Clients |-> 0]
    /\ earned = [ip \in Clients |-> 0]

Capped(t) == IF t > Burst THEN Burst ELSE t

\* c.tokens after the refill.
Refill(ip) == Capped(tokens[ip] + age[ip] * Rate)

\* allow for an address that is not in the map.
AllowNew(ip) ==
    /\ ip \notin known
    /\ known' = known \cup {ip}
    /\ tokens' = [tokens EXCEPT ![ip] = Burst - Cost]
    /\ age' = [age EXCEPT ![ip] = 0]
    /\ last' = [last EXCEPT ![ip] = TRUE]
    /\ spent' = [spent EXCEPT ![ip] = @ + Cost]
    /\ UNCHANGED earned

\* allow for a known address with a token left.
AllowKnown(ip) ==
    /\ ip \in known
    /\ Refill(ip) >= Cost
    /\ tokens' = [tokens EXCEPT ![ip] = Refill(ip) - Cost]
    /\ age' = [age EXCEPT ![ip] = 0]
    /\ last' = [last EXCEPT ![ip] = TRUE]
    /\ spent' = [spent EXCEPT ![ip] = @ + Cost]
    /\ UNCHANGED <<known, earned>>

\* allow returns false before it has stored lastSeen.
RefuseKeepsLastSeen(ip) ==
    /\ ip \in known
    /\ Refill(ip) < Cost
    /\ tokens' = [tokens EXCEPT ![ip] = Refill(ip)]
    /\ last' = [last EXCEPT ![ip] = FALSE]
    /\ UNCHANGED <<known, age, spent, earned>>

\* allow for a known address without one: the refill is kept all the same.
Refuse(ip) ==
    /\ ip \in known
    /\ Refill(ip) < Cost
    /\ tokens' = [tokens EXCEPT ![ip] = Refill(ip)]
    /\ age' = [age EXCEPT ![ip] = 0]
    /\ last' = [last EXCEPT ![ip] = FALSE]
    /\ UNCHANGED <<known, spent, earned>>

\* The ticker deletes a client whatever its age.
CleanUpAll ==
    /\ known' = {}
    /\ tokens' = [ip \in Clients |-> 0]
    /\ age' = [ip \in Clients |-> 0]
    /\ UNCHANGED <<last, spent, earned>>

Stale == {ip \in known : age[ip] > Cleanup}

\* cleanupLoop, when its ticker fires: every stale entry is deleted.
CleanUp ==
    /\ known' = known \ Stale
    /\ tokens' = [ip \in Clients |-> IF ip \in Stale THEN 0 ELSE tokens[ip]]
    /\ age' = [ip \in Clients |-> IF ip \in Stale THEN 0 ELSE age[ip]]
    /\ UNCHANGED <<last, spent, earned>>

\* Time passes.
Tick ==
    /\ age' = [ip \in Clients |->
                  IF ip \in known /\ age[ip] < Horizon THEN age[ip] + 1
                  ELSE age[ip]]
    /\ earned' = [ip \in Clients |-> earned[ip] + Rate]
    /\ UNCHANGED <<known, tokens, last, spent>>

\* An observer of a client starts to count, at any moment.
Observe(ip) ==
    /\ spent' = [spent EXCEPT ![ip] = 0]
    /\ earned' = [earned EXCEPT ![ip] = 0]
    /\ UNCHANGED <<known, tokens, age, last>>

Next ==
    \/ \E ip \in Clients : \/ AllowNew(ip)
                           \/ AllowKnown(ip)
                           \/ Refuse(ip)
                           \/ Observe(ip)
    \/ CleanUp
    \/ Tick

Spec == Init /\ [][Next]_vars

-------------------------------------------------------------------------------
(* Properties *)

TypeOK ==
    /\ known \subseteq Clients
    /\ tokens \in [Clients -> 0..Burst]
    /\ age \in [Clients -> 0..Horizon]
    /\ last \in [Clients -> BOOLEAN]
    /\ spent \in [Clients -> Nat]
    /\ earned \in [Clients -> Nat]

\* In any period, whenever it starts, a client is admitted at most the burst
\* and what the rate gives in that period, however its requests fall and
\* whenever the cleanup forgets it.
NeverOverRate == \A ip \in Clients : spent[ip] <= Burst + earned[ip]

\* What the bucket of a client holds now.
Level(ip) == IF ip \in known THEN Refill(ip) ELSE Burst

\* The limiter is the token bucket that forgets nobody: refilling late,
\* storing refused requests and deleting old clients change no answer.
Bucket == INSTANCE TokenBucket WITH level <- [ip \in Clients |-> Level(ip)]

ImplementsBucket == Bucket!Spec
===============================================================================
