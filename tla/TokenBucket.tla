---------------------------- MODULE TokenBucket ----------------------------
(***************************************************************************)
(* pkg/ratelimiter/bucket.go: goroutines that call Allow or Wait share an  *)
(* atomic counter with the goroutine that refills it.  There is no lock:   *)
(* each of them loads the counter and then tries to compare-and-swap it,   *)
(* and starts over when somebody else was faster.  One action is one       *)
(* atomic operation on the counter.                                        *)
(***************************************************************************)
EXTENDS Naturals

CONSTANTS
    Users,    \* goroutines that call Allow or Wait
    Refill,   \* the goroutine New starts
    Capacity, \* burst
    MaxAdded  \* bound: the ticker stops after this many tokens were added

ASSUME BucketAssumption == Refill \notin Users /\ Capacity \in Nat /\ MaxAdded \in Nat

VARIABLES
    tokens,   \* Limiter.tokens
    at,       \* where each goroutine is
    current,  \* the value it loaded
    due,      \* a tick waits in the ticker's channel (its buffer is 1)
    granted,  \* history: calls that returned true or nil
    added     \* history: tokens the refill goroutine added

bucketVars == <<tokens, at, current, due, granted, added>>

Goroutines == Users \cup {Refill}

(* rest: not in a call, the refill goroutine in its select; load, cas: in  *)
(* the loop of Allow or of the refill; wait-load, wait-cas: the same in    *)
(* Wait's Allow; polling: in Wait's select; stopped: refill has returned.  *)
BucketPlaces == {"rest", "load", "cas", "wait-load", "wait-cas", "polling", "stopped"}

BucketInit ==
    /\ tokens = Capacity
    /\ at = [g \in Goroutines |-> "rest"]
    /\ current = [g \in Goroutines |-> 0]
    /\ due = FALSE
    /\ granted = 0 /\ added = 0

Go(g, place) == at' = [at EXCEPT ![g] = place]
Forget(g) == current' = [current EXCEPT ![g] = 0]

-----------------------------------------------------------------------------
CallAllow(u) ==
    /\ at[u] = "rest"
    /\ Go(u, "load")
    /\ UNCHANGED <<tokens, current, due, granted, added>>

CallWait(u) ==
    /\ at[u] = "rest"
    /\ Go(u, "wait-load")
    /\ UNCHANGED <<tokens, current, due, granted, added>>

(* Allow finds the bucket empty: it returns false, and Wait goes to sleep. *)
FindEmpty(u) ==
    /\ at[u] \in {"load", "wait-load"} /\ tokens <= 0
    /\ Go(u, IF at[u] = "load" THEN "rest" ELSE "polling")
    /\ UNCHANGED <<tokens, current, due, granted, added>>

LoadTokens(u) ==
    /\ at[u] \in {"load", "wait-load"} /\ tokens > 0
    /\ current' = [current EXCEPT ![u] = tokens]
    /\ Go(u, IF at[u] = "load" THEN "cas" ELSE "wait-cas")
    /\ UNCHANGED <<tokens, due, granted, added>>

(* Mutant: a plain store instead of compare-and-swap. *)
SwapTake_Store(u) ==
    /\ at[u] \in {"cas", "wait-cas"}
    /\ tokens' = current[u] - 1
    /\ granted' = granted + 1
    /\ Go(u, "rest")
    /\ Forget(u)
    /\ UNCHANGED <<due, added>>

SwapTake(u) ==
    /\ at[u] \in {"cas", "wait-cas"} /\ tokens = current[u]
    /\ tokens' = current[u] - 1
    /\ granted' = granted + 1
    /\ Go(u, "rest")
    /\ Forget(u)
    /\ UNCHANGED <<due, added>>

SwapTakeFails(u) ==
    /\ at[u] \in {"cas", "wait-cas"} /\ tokens # current[u]
    /\ Go(u, IF at[u] = "cas" THEN "load" ELSE "wait-load")
    /\ Forget(u)
    /\ UNCHANGED <<tokens, due, granted, added>>

(* Wait's ticker fires and it calls Allow again. *)
PollAgain(u) ==
    /\ at[u] = "polling"
    /\ Go(u, "wait-load")
    /\ UNCHANGED <<tokens, current, due, granted, added>>

WaitCancelled(u) ==
    /\ at[u] = "polling"
    /\ Go(u, "rest")
    /\ UNCHANGED <<tokens, current, due, granted, added>>

(* The refill interval is over; a tick nobody has received yet swallows    *)
(* the new one.                                                            *)
TickerFires ==
    /\ added < MaxAdded
    /\ due' = TRUE
    /\ UNCHANGED <<tokens, at, current, granted, added>>

ReceiveTick ==
    /\ at[Refill] = "rest" /\ due
    /\ due' = FALSE
    /\ Go(Refill, "load")
    /\ UNCHANGED <<tokens, current, granted, added>>

FindFull ==
    /\ at[Refill] = "load" /\ tokens >= Capacity
    /\ Go(Refill, "rest")
    /\ UNCHANGED <<tokens, current, due, granted, added>>

(* Mutant: the capacity is checked with > instead of >=. *)
LoadRoom_OneMore ==
    /\ at[Refill] = "load" /\ tokens <= Capacity
    /\ current' = [current EXCEPT ![Refill] = tokens]
    /\ Go(Refill, "cas")
    /\ UNCHANGED <<tokens, due, granted, added>>

LoadRoom ==
    /\ at[Refill] = "load" /\ tokens < Capacity
    /\ current' = [current EXCEPT ![Refill] = tokens]
    /\ Go(Refill, "cas")
    /\ UNCHANGED <<tokens, due, granted, added>>

SwapAdd ==
    /\ at[Refill] = "cas" /\ tokens = current[Refill]
    /\ tokens' = current[Refill] + 1
    /\ added' = added + 1
    /\ Go(Refill, "rest")
    /\ Forget(Refill)
    /\ UNCHANGED <<due, granted>>

SwapAddFails ==
    /\ at[Refill] = "cas" /\ tokens # current[Refill]
    /\ Go(Refill, "load")
    /\ Forget(Refill)
    /\ UNCHANGED <<tokens, due, granted, added>>

(* Stop closed stopCh, and the refill goroutine's select has noticed. *)
RefillStops ==
    /\ at[Refill] = "rest"
    /\ Go(Refill, "stopped")
    /\ UNCHANGED <<tokens, current, due, granted, added>>

UserStep(u) ==
    \/ FindEmpty(u) \/ LoadTokens(u) \/ SwapTake(u) \/ SwapTakeFails(u)
    \/ PollAgain(u) \/ WaitCancelled(u)
RefillStep == ReceiveTick \/ FindFull \/ LoadRoom \/ SwapAdd \/ SwapAddFails

BucketNext ==
    \/ \E u \in Users : CallAllow(u) \/ CallWait(u) \/ UserStep(u)
    \/ TickerFires \/ RefillStep \/ RefillStops

BucketSpec == BucketInit /\ [][BucketNext]_bucketVars

-----------------------------------------------------------------------------
BucketTypeOK ==
    /\ tokens \in Nat
    /\ at \in [Goroutines -> BucketPlaces]
    /\ current \in [Goroutines -> Nat]
    /\ due \in BOOLEAN
    /\ granted \in Nat /\ added \in Nat

(* Every token is accounted for, whatever goroutines do between load and   *)
(* swap: none is handed out twice, none vanishes, none exceeds the burst.  *)
TokensConserved == tokens + granted = Capacity + added /\ tokens <= Capacity

(* The loops of loads and swaps implement the indivisible bucket. *)
Atomic == INSTANCE AtomicBucket
IsAtomic == Atomic!Spec
=============================================================================
