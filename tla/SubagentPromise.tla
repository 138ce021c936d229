-------------------------- MODULE SubagentPromise --------------------------
(***************************************************************************)
(* What hermes-core/subagent_lifecycle.py promises the holder of a handle: *)
(* a launched child stays known until it has settled, it settles once, and *)
(* only then may the registry forget it: "Retain terminal snapshots for a  *)
(* bounded period, never live work" (349).  The class docstring (239) says *)
(* more, "completed results stay until process exit"; _cleanup_locked, run *)
(* by the next launch(), drops them after an hour, so it is not promised.  *)
(***************************************************************************)
CONSTANTS Launch, Verdicts

VARIABLES
    phase,    \* absent, live, settled, forgotten
    verdict   \* the state a settled child shows, "none" before

vars == <<phase, verdict>>

Init ==
    /\ phase = [l \in Launch |-> "absent"]
    /\ verdict = [l \in Launch |-> "none"]

Accept(l) ==
    /\ phase[l] = "absent"
    /\ phase' = [phase EXCEPT ![l] = "live"]
    /\ UNCHANGED verdict

Settle(l) ==
    /\ phase[l] = "live"
    /\ phase' = [phase EXCEPT ![l] = "settled"]
    /\ \E v \in Verdicts : verdict' = [verdict EXCEPT ![l] = v]

\* The registry drops the snapshots whose retention is over, several at a time.
Forget ==
    /\ \E gone \in SUBSET {l \in Launch : phase[l] = "settled"} :
        phase' = [l \in Launch |-> IF l \in gone THEN "forgotten" ELSE phase[l]]
    /\ UNCHANGED verdict

Next == Forget \/ \E l \in Launch : Accept(l) \/ Settle(l)

Spec == Init /\ [][Next]_vars
=============================================================================
