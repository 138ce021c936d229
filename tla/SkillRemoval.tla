---------------------------- MODULE SkillRemoval ----------------------------
(***************************************************************************)
(* What hermes-core/curator.py makes of the skills that are gone after a   *)
(* review: which of them were merged into another skill, which were        *)
(* dropped, and what becomes of the cron jobs that listed them.  The       *)
(* witnesses are the tool calls of the review fork, as its result carries  *)
(* them, and the block of claims in its last answer.                       *)
(*                                                                         *)
(* A call is a record: a write (create, patch, write_file) on a skill      *)
(* whose arguments refer to another one, or a delete with the target it    *)
(* declares.  How names are matched in a text is left out: a write refers  *)
(* to one skill.                                                           *)
(***************************************************************************)
EXTENDS Naturals, Sequences, FiniteSetsExt

CONSTANT Skills    \* the skills of the library, by name

Dropped == "dropped"    \* absorbed_into = "", or a pruning of the summary
Silent == "silent"      \* no absorbed_into, or not in the summary

ASSUME SkillAssumption == {Dropped, Silent} \cap Skills = {}

Targets == Skills \cup {Dropped, Silent}

\* clipped: the arguments were longer than 400 characters and end in the middle.
Write(s, about, clipped) == [verb |-> "write", on |-> s, about |-> about, clipped |-> clipped]
Delete(s, into) == [verb |-> "delete", on |-> s, into |-> into]
WriteCalls == {Write(s, a, c) : s \in Skills, a \in Skills, c \in BOOLEAN}
DeleteCalls == {Delete(s, t) : s \in Skills, t \in Targets}

\* Arguments that do not parse name no skill, so a clipped write is no witness.
Evidence(call, s, after) ==
    call.verb = "write" /\ call.about = s /\ ~call.clipped /\ call.on # s /\ call.on \in after

\* The skill of the earliest call that refers to the removed skill.
Heuristic(s, calls, after) ==
    LET found == {i \in DOMAIN calls : Evidence(calls[i], s, after)}
    IN  IF found = {} THEN Silent ELSE calls[Min(found)].on

\* What the last delete of the skill declares.
Declared(s, calls) ==
    LET found == {i \in DOMAIN calls : calls[i].verb = "delete" /\ calls[i].on = s /\ calls[i].into # Silent}
    IN  IF found = {} THEN Silent ELSE calls[Max(found)].into

\* Mutant: a pruning in the summary is believed before the delete.
ReconcilePruned(s, calls, claim, after) ==
    LET declared == Declared(s, calls)
        found == Heuristic(s, calls, after)
    IN  IF claim = Dropped THEN Dropped
        ELSE IF declared \in after \cup {Dropped} THEN declared
        ELSE IF claim \in after THEN claim
        ELSE IF found # Silent THEN found ELSE Dropped

\* First match wins: the target declared at the delete, if it is still there or
\* is "none"; the target of the summary, if it is there; the audit; dropped.
Reconcile(s, calls, claim, after) ==
    LET declared == Declared(s, calls)
        found == Heuristic(s, calls, after)
    IN  IF declared \in after \cup {Dropped} THEN declared
        ELSE IF claim \in after THEN claim
        ELSE IF found # Silent THEN found ELSE Dropped

\* Where each removed skill went: a skill that is there, or Dropped.
DiffAndClassify(before, after, calls, claims) ==
    [s \in before \ after |-> Reconcile(s, calls, claims[s], after)]

\* Mutant: a dropped skill stays in the job.
RewriteCronRefsMerged(job, went) ==
    LET merged == {s \in DOMAIN went : went[s] # Dropped}
    IN  (job \ merged) \cup {went[s] : s \in job \cap merged}

\* A job lists the target of a merged skill in its place, and no dropped one.
RewriteCronRefs(job, went) ==
    (job \ DOMAIN went) \cup ({went[s] : s \in job \cap DOMAIN went} \ {Dropped})
=============================================================================
