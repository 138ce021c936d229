----------------------------- MODULE MCCurator -----------------------------
(***************************************************************************)
(* An instance of Curator: two skills and a job that lists one of them.    *)
(* One library has a skill that is due to be marked stale, then archived,  *)
(* and one that was used after it went stale; the other has a skill        *)
(* without a record of its own.                                            *)
(***************************************************************************)
EXTENDS Curator, TLC

CONSTANTS a, b

Record(state, touched, used, persisted) ==
    [state |-> state, touched |-> touched, used |-> used, pinned |-> FALSE, persisted |-> persisted]

TwoLibraries ==
    {(a :> Record("active", 0, TRUE, TRUE) @@ b :> Record("stale", 1, TRUE, TRUE)),
     (a :> Record("active", 0, FALSE, FALSE) @@ b :> Record("active", 1, FALSE, TRUE))}
=============================================================================
