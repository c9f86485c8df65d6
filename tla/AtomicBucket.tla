---------------------------- MODULE AtomicBucket ----------------------------
(***************************************************************************)
(* What pkg/ratelimiter promises: a bucket that starts full, from which a  *)
(* token is taken, or to which one is added, in one indivisible step.      *)
(***************************************************************************)
EXTENDS Naturals

CONSTANT Capacity  \* burst

VARIABLES
    tokens,   \* tokens in the bucket
    granted,  \* tokens taken so far
    added     \* tokens added so far

bucket == <<tokens, granted, added>>

Init == tokens = Capacity /\ granted = 0 /\ added = 0

Take ==
    /\ tokens > 0
    /\ tokens' = tokens - 1
    /\ granted' = granted + 1
    /\ UNCHANGED added

Add ==
    /\ tokens < Capacity
    /\ tokens' = tokens + 1
    /\ added' = added + 1
    /\ UNCHANGED granted

Next == Take \/ Add

Spec == Init /\ [][Next]_bucket
=============================================================================
