----------------------------- MODULE TokenBucket -----------------------------
(***************************************************************************)
(* A token bucket per client, as the rate limiter promises it: it starts   *)
(* full, fills at a steady rate, and every admitted request takes a token. *)
(* Nothing is ever forgotten.                                              *)
(*                                                                         *)
(* Time is counted in ticks, and tokens in units of which a request costs  *)
(* Cost, so that a rate that is not a whole number of tokens per tick is a *)
(* whole number of units.                                                  *)
(***************************************************************************)
EXTENDS Integers

CONSTANTS Clients, Rate, Burst, Cost

VARIABLES level, last

Filled(l) == IF l > Burst THEN Burst ELSE l

Init ==
    /\ level = [ip \in Clients |-> Burst]
    /\ last = [ip \in Clients |-> TRUE]

Tick ==
    /\ level' = [ip \in Clients |-> Filled(level[ip] + Rate)]
    /\ UNCHANGED last

Admit(ip) ==
    /\ level[ip] >= Cost
    /\ level' = [level EXCEPT ![ip] = @ - Cost]
    /\ last' = [last EXCEPT ![ip] = TRUE]

Refuse(ip) ==
    /\ level[ip] < Cost
    /\ last' = [last EXCEPT ![ip] = FALSE]
    /\ UNCHANGED level

Next == Tick \/ \E ip \in Clients : Admit(ip) \/ Refuse(ip)

Spec == Init /\ [][Next]_<<level, last>>
===============================================================================
