---------------------------- MODULE GradingService ----------------------------
(***************************************************************************)
(* What the backend expects of its bridge and judges, whatever they are    *)
(* made of: a submission that is asked for is settled, with the verdict    *)
(* its own source deserves or with none.                                   *)
(***************************************************************************)
CONSTANTS Calls, Truth, NoVerdict

VARIABLES phase, verdict

Init ==
    /\ phase = [k \in Calls |-> "idle"]
    /\ verdict = [k \in Calls |-> NoVerdict]

Ask(k) ==
    /\ phase[k] = "idle"
    /\ phase' = [phase EXCEPT ![k] = "asked"]
    /\ UNCHANGED verdict

\* Nobody can grade it now.
Refuse(k) ==
    /\ phase[k] = "idle"
    /\ phase' = [phase EXCEPT ![k] = "settled"]
    /\ UNCHANGED verdict

Settle(k) ==
    /\ phase[k] = "asked"
    /\ phase' = [phase EXCEPT ![k] = "settled"]
    /\ \E v \in {Truth[k], NoVerdict} : verdict' = [verdict EXCEPT ![k] = v]

Next == \E k \in Calls : Ask(k) \/ Refuse(k) \/ Settle(k)

Spec ==
    /\ Init
    /\ [][Next]_<<phase, verdict>>
    /\ \A k \in Calls : WF_<<phase, verdict>>(Settle(k))
===============================================================================
