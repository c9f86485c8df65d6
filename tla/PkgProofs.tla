------------------------------ MODULE PkgProofs ------------------------------
(***************************************************************************)
(* What the libraries of src/pkg guarantee their users, each on its own.   *)
(*                                                                         *)
(* circuitbreaker, for every number of callers, threshold and timeout.     *)
(* The first part holds however late calls report; the second needs        *)
(* CallTime <= Timeout: every protected call ends before the open period   *)
(* that its own failure can start is over.                                 *)
(*                                                                         *)
(* ratelimiter, for any number of goroutines and any burst.                *)
(***************************************************************************)
EXTENDS CircuitBreaker, TokenBucket, TLAPS

USE DEF Transitions, States, Places

-----------------------------------------------------------------------------
(* setState keeps the types of what it writes. *)
LEMMA SetStateType ==
    ASSUME TypeOK, NEW to \in States, SetState(to)
    PROVE  /\ state' \in States
           /\ pending' \in [Transitions -> Nat]
           /\ reported' \in States
BY SMT DEF TypeOK, SetState

LEMMA TypeStep == TypeOK /\ [Next]_vars => TypeOK'
<1> SUFFICES ASSUME TypeOK, [Next]_vars PROVE TypeOK'
  OBVIOUS
<1>1. ASSUME NEW c \in Callers, ExecuteClosed(c) PROVE TypeOK'
  BY <1>1 DEF TypeOK, ExecuteClosed, EnterCall, breaker, callbacks
<1>2. ASSUME NEW c \in Callers, ExecuteProbe(c) PROVE TypeOK'
  BY <1>2, SetStateType DEF TypeOK, ExecuteProbe, EnterCall
<1>3. ASSUME NEW c \in Callers, ExecuteReject(c) PROVE TypeOK'
  BY <1>3 DEF TypeOK, ExecuteReject, breaker, callbacks
<1>4. ASSUME NEW c \in Callers, ClosedOk(c) PROVE TypeOK'
  BY <1>4 DEF TypeOK, ClosedOk, LeaveCall, callbacks
<1>5. ASSUME NEW c \in Callers, ClosedFail(c) PROVE TypeOK'
  <2>1. CASE failures' >= Threshold
    BY <1>5, <2>1, SetStateType DEF TypeOK, ClosedFail, LeaveCall
  <2>2. CASE ~(failures' >= Threshold)
    BY <1>5, <2>2 DEF TypeOK, ClosedFail, LeaveCall, callbacks
  <2>3. QED
    BY <2>1, <2>2
<1>6. ASSUME NEW c \in Callers, ProbeOk(c) PROVE TypeOK'
  BY <1>6, SetStateType DEF TypeOK, ProbeOk, LeaveCall
<1>7. ASSUME NEW c \in Callers, ProbeFail(c) PROVE TypeOK'
  BY <1>7, SetStateType DEF TypeOK, ProbeFail, LeaveCall
<1>8. ASSUME NEW t \in Transitions, RunCallback(t) PROVE TypeOK'
  BY <1>8 DEF TypeOK, RunCallback, breaker
<1>9. CASE Tick
  BY <1>9, ClockAssumption DEF TypeOK, Tick, breaker, callbacks
<1>10. CASE UNCHANGED vars
  BY <1>10 DEF TypeOK, vars
<1>11. QED
  BY <1>1, <1>2, <1>3, <1>4, <1>5, <1>6, <1>7, <1>8, <1>9, <1>10
     DEF Next, Execute, Return

(* Every variable keeps its type through every critical section. *)
THEOREM TypeCorrect == Spec => []TypeOK
<1>1. Init => TypeOK
  BY DEF Init, TypeOK
<1>2. QED
  BY <1>1, TypeStep, PTL DEF Spec

-----------------------------------------------------------------------------
(* Stated as a lemma because every later case split starts from it. *)
LEMMA StepCases ==
    ASSUME [Next]_vars
    PROVE  \/ \E c \in Callers : \/ ExecuteClosed(c) \/ ExecuteProbe(c) \/ ExecuteReject(c)
                                 \/ ClosedOk(c) \/ ClosedFail(c) \/ ProbeOk(c) \/ ProbeFail(c)
           \/ UNCHANGED <<breaker, pc>>
BY DEF Next, Execute, Return, RunCallback, Tick, vars, breaker

(* Late calls or not: a half-open breaker always has a caller testing the  *)
(* recovery, so it cannot reject for ever.                                 *)
THEOREM HalfOpenTested == Spec => []HalfOpenIsBeingTested
<1>1. Init => HalfOpenIsBeingTested
  BY DEF Init, HalfOpenIsBeingTested
<1>2. TypeOK /\ HalfOpenIsBeingTested /\ [Next]_vars => HalfOpenIsBeingTested'
  <2> SUFFICES ASSUME TypeOK, HalfOpenIsBeingTested, [Next]_vars
               PROVE  HalfOpenIsBeingTested'
    OBVIOUS
  <2> USE DEF TypeOK, HalfOpenIsBeingTested, Probing
  <2>1. ASSUME NEW c \in Callers, ExecuteClosed(c) PROVE HalfOpenIsBeingTested'
    BY <2>1 DEF ExecuteClosed, breaker
  <2>2. ASSUME NEW c \in Callers, ExecuteProbe(c) PROVE HalfOpenIsBeingTested'
    BY <2>2 DEF ExecuteProbe, EnterCall
  <2>3. ASSUME NEW c \in Callers, ExecuteReject(c) PROVE HalfOpenIsBeingTested'
    <3>1. state' = state /\ Outside(c) /\ pc' = [pc EXCEPT ![c] = "rejected"]
      BY <2>3 DEF ExecuteReject, breaker
    <3>2. \A d \in Probing : pc'[d] = "probing"
      BY <3>1 DEF Outside
    <3>3. QED
      BY <3>1, <3>2
  <2>4. ASSUME NEW c \in Callers, ClosedOk(c) \/ ClosedFail(c) PROVE HalfOpenIsBeingTested'
    <3>1. state' \in {state, "open"} /\ pc[c] = "calling" /\ pc' = [pc EXCEPT ![c] = "idle"]
      BY <2>4 DEF ClosedOk, ClosedFail, LeaveCall, SetState
    <3>2. \A d \in Probing : pc'[d] = "probing"
      BY <3>1
    <3>3. QED
      BY <3>1, <3>2
  <2>5. ASSUME NEW c \in Callers, ProbeOk(c) \/ ProbeFail(c) PROVE HalfOpenIsBeingTested'
    BY <2>5 DEF ProbeOk, ProbeFail, SetState
  <2>6. CASE UNCHANGED <<breaker, pc>>
    BY <2>6 DEF breaker
  <2>7. QED
    BY <2>1, <2>2, <2>3, <2>4, <2>5, <2>6, StepCases
<1>3. QED
  BY <1>1, <1>2, TypeCorrect, PTL DEF Spec

(* Late calls or not: a closed breaker has fewer than Threshold failures.  *)
THEOREM ClosedMeansBelowThreshold == Spec => []ClosedBelowThreshold
<1>1. Init => ClosedBelowThreshold
  BY ThresholdAssumption DEF Init, ClosedBelowThreshold
<1>2. TypeOK /\ ClosedBelowThreshold /\ [Next]_vars => ClosedBelowThreshold'
  <2> SUFFICES ASSUME TypeOK, ClosedBelowThreshold, [Next]_vars
               PROVE  ClosedBelowThreshold'
    OBVIOUS
  <2> USE ThresholdAssumption DEF TypeOK, ClosedBelowThreshold
  <2>1. ASSUME NEW c \in Callers, ExecuteClosed(c) \/ ExecuteReject(c)
        PROVE  ClosedBelowThreshold'
    BY <2>1 DEF ExecuteClosed, ExecuteReject, breaker
  <2>2. ASSUME NEW c \in Callers, ExecuteProbe(c) \/ ProbeFail(c)
        PROVE  ClosedBelowThreshold'
    BY <2>2 DEF ExecuteProbe, ProbeFail, SetState
  <2>3. ASSUME NEW c \in Callers, ClosedOk(c) \/ ProbeOk(c) PROVE ClosedBelowThreshold'
    BY <2>3 DEF ClosedOk, ProbeOk
  <2>4. ASSUME NEW c \in Callers, ClosedFail(c) PROVE ClosedBelowThreshold'
    <3>1. CASE failures' >= Threshold
      BY <2>4, <3>1 DEF ClosedFail, SetState
    <3>2. CASE ~(failures' >= Threshold)
      BY <2>4, <3>2 DEF ClosedFail
    <3>3. QED
      BY <3>1, <3>2
  <2>5. CASE UNCHANGED <<breaker, pc>>
    BY <2>5 DEF breaker
  <2>6. QED
    BY <2>1, <2>2, <2>3, <2>4, <2>5, StepCases
<1>3. QED
  BY <1>1, <1>2, TypeCorrect, PTL DEF Spec

-----------------------------------------------------------------------------
(***************************************************************************)
(* Short calls.  AtMostOneProbe is not inductive: it says nothing of calls *)
(* that were admitted before the circuit opened, and one of those can end  *)
(* a test early.  ShortCalls adds why there is none left: such a call      *)
(* began no later than the failure that opened the circuit, and the test   *)
(* begins more than Timeout >= CallTime after that failure.                *)
(***************************************************************************)
CallsAreShort == \A c \in InCall : started[c] <= now /\ now <= started[c] + CallTime
CallsBeganBeforeFailure == state = "open" => \A c \in Calling : started[c] <= lastFailure
OnlyTheTestRuns == state = "half-open" => Calling = {}
TestsOnlyInHalfOpen == state # "half-open" => Probing = {}

ShortCalls ==
    /\ TypeOK
    /\ lastFailure <= now
    /\ CallsAreShort
    /\ CallsBeganBeforeFailure
    /\ OnlyTheTestRuns
    /\ TestsOnlyInHalfOpen
    /\ AtMostOneProbe

LEMMA ShortCallsInit == Init => ShortCalls
BY DEF Init, ShortCalls, TypeOK, CallsAreShort, CallsBeganBeforeFailure, OnlyTheTestRuns,
       TestsOnlyInHalfOpen, AtMostOneProbe, InCall, Calling, Probing


LEMMA ShortCallsStep ==
    ASSUME CallTime <= Timeout, ShortCalls, [Next]_vars
    PROVE  ShortCalls'
<1>1. TypeOK'
  BY TypeStep DEF ShortCalls
<1> USE TimeoutAssumption, ClockAssumption
    DEF ShortCalls, TypeOK, CallsAreShort, CallsBeganBeforeFailure, OnlyTheTestRuns,
        TestsOnlyInHalfOpen, AtMostOneProbe, InCall, Calling, Probing
<1>2. ASSUME NEW c \in Callers, ExecuteClosed(c) PROVE ShortCalls'
  BY <1>1, <1>2 DEF ExecuteClosed, Outside, EnterCall, breaker
<1>3. ASSUME NEW c \in Callers, ExecuteProbe(c) PROVE ShortCalls'
  <2>1. \A d \in Calling : FALSE
    BY <1>3 DEF ExecuteProbe, TimeoutElapsed
  <2>2. QED
    BY <1>1, <1>3, <2>1 DEF ExecuteProbe, Outside, EnterCall, SetState
<1>4. ASSUME NEW c \in Callers, ExecuteReject(c) PROVE ShortCalls'
  BY <1>1, <1>4 DEF ExecuteReject, Outside, breaker
<1>5. ASSUME NEW c \in Callers, ClosedOk(c) PROVE ShortCalls'
  BY <1>1, <1>5 DEF ClosedOk, LeaveCall
<1>6. ASSUME NEW c \in Callers, ClosedFail(c) PROVE ShortCalls'
  BY <1>1, <1>6 DEF ClosedFail, LeaveCall, SetState
<1>7. ASSUME NEW c \in Callers, ProbeOk(c) PROVE ShortCalls'
  BY <1>1, <1>7 DEF ProbeOk, LeaveCall, SetState
<1>8. ASSUME NEW c \in Callers, ProbeFail(c) PROVE ShortCalls'
  BY <1>1, <1>8 DEF ProbeFail, LeaveCall, SetState
<1>9. ASSUME NEW t \in Transitions, RunCallback(t) PROVE ShortCalls'
  BY <1>1, <1>9 DEF RunCallback, breaker
<1>10. CASE Tick
  BY <1>1, <1>10 DEF Tick, breaker
<1>11. CASE UNCHANGED vars
  BY <1>1, <1>11 DEF vars
<1>12. QED
  BY <1>2, <1>3, <1>4, <1>5, <1>6, <1>7, <1>8, <1>9, <1>10, <1>11 DEF Next, Execute, Return

LEMMA ShortCallsInvariant ==
    ASSUME CallTime <= Timeout
    PROVE  Spec => []ShortCalls
<1>1. ShortCalls /\ [Next]_vars => ShortCalls'
  BY ShortCallsStep
<1>2. QED
  BY <1>1, ShortCallsInit, PTL DEF Spec

(* When no protected call outlives the open period, at most one caller     *)
(* tests a recovering service, as Execute's comment promises.              *)
THEOREM SingleProbe ==
    ASSUME CallTime <= Timeout
    PROVE  Spec => []AtMostOneProbe
<1>1. ShortCalls => AtMostOneProbe
  BY DEF ShortCalls
<1>2. QED
  BY <1>1, ShortCallsInvariant, PTL

(* Under the same condition the breaker makes only the transitions of the  *)
(* package comment's diagram.                                              *)
THEOREM OnlyDocumentedTransitions ==
    ASSUME CallTime <= Timeout
    PROVE  Spec => DocumentedTransitions
<1>1. ShortCalls /\ [Next]_vars =>
        [(<<state, state'>> \in {<<"closed", "open">>, <<"open", "half-open">>,
                                <<"half-open", "closed">>, <<"half-open", "open">>})]_state
  <2> SUFFICES ASSUME ShortCalls, [Next]_vars, state' # state
               PROVE  <<state, state'>> \in {<<"closed", "open">>, <<"open", "half-open">>,
                                <<"half-open", "closed">>, <<"half-open", "open">>}
    OBVIOUS
  <2> USE DEF ShortCalls, TypeOK, OnlyTheTestRuns, TestsOnlyInHalfOpen, Calling, Probing, SetState
  <2>1. ASSUME NEW c \in Callers, ExecuteClosed(c) \/ ExecuteReject(c) \/ ClosedOk(c) PROVE FALSE
    BY <2>1 DEF ExecuteClosed, ExecuteReject, ClosedOk, breaker
  <2>2. ASSUME NEW c \in Callers, ExecuteProbe(c)
        PROVE  state = "open" /\ state' = "half-open"
    BY <2>2 DEF ExecuteProbe
  <2>3. ASSUME NEW c \in Callers, ClosedFail(c)
        PROVE  state = "closed" /\ state' = "open"
    BY <2>3 DEF ClosedFail
  <2>4. ASSUME NEW c \in Callers, ProbeOk(c) \/ ProbeFail(c)
        PROVE  state = "half-open" /\ state' \in {"closed", "open"}
    BY <2>4 DEF ProbeOk, ProbeFail
  <2>5. QED
    BY <2>1, <2>2, <2>3, <2>4, StepCases DEF breaker
<1>2. QED
  BY <1>1, ShortCallsInvariant, PTL DEF Spec, DocumentedTransitions

(* And only the caller that tests the recovery ends the test: every call   *)
(* admitted before the circuit opened has reported by then.                *)
THEOREM OnlyTheTestDecides ==
    ASSUME CallTime <= Timeout
    PROVE  Spec => TestDecidesRecovery
<1>1. ShortCalls /\ [Next]_vars =>
        [state = "half-open" /\ state' # "half-open"
         => \E c \in Probing : pc'[c] = "idle"]_vars
  <2> SUFFICES ASSUME ShortCalls, [Next]_vars, state = "half-open", state' # "half-open"
               PROVE  \E c \in Probing : pc'[c] = "idle"
    OBVIOUS
  <2>1. ASSUME NEW c \in Callers, ExecuteClosed(c) \/ ExecuteProbe(c) \/ ExecuteReject(c) \/ ClosedOk(c)
        PROVE  FALSE
    BY <2>1 DEF ExecuteClosed, ExecuteProbe, ExecuteReject, ClosedOk, SetState, breaker
  <2>2. ASSUME NEW c \in Callers, ClosedFail(c) PROVE FALSE
    BY <2>2 DEF ClosedFail, ShortCalls, OnlyTheTestRuns, Calling
  <2>3. ASSUME NEW c \in Callers, ProbeOk(c) \/ ProbeFail(c)
        PROVE  c \in Probing /\ pc'[c] = "idle"
    BY <2>3 DEF ProbeOk, ProbeFail, LeaveCall, Probing, ShortCalls, TypeOK
  <2>4. QED
    BY <2>1, <2>2, <2>3, StepCases DEF breaker
<1>2. QED
  BY <1>1, ShortCallsInvariant, PTL DEF Spec, TestDecidesRecovery

(* Nor does a late test open the circuit: it takes the full number of      *)
(* failures, no fewer and no more.                                         *)
THEOREM OpensExactlyOnThreshold ==
    ASSUME CallTime <= Timeout
    PROVE  Spec => OpensOnThreshold
<1>1. ShortCalls /\ ClosedBelowThreshold /\ [Next]_vars =>
        [state = "closed" /\ state' = "open" => failures' = Threshold]_vars
  <2> SUFFICES ASSUME ShortCalls, ClosedBelowThreshold, [Next]_vars,
                      state = "closed", state' = "open"
               PROVE  failures' = Threshold
    OBVIOUS
  <2>1. ASSUME NEW c \in Callers, ExecuteClosed(c) \/ ExecuteProbe(c) \/ ExecuteReject(c) \/ ClosedOk(c)
        PROVE  FALSE
    BY <2>1 DEF ExecuteClosed, ExecuteProbe, ExecuteReject, ClosedOk, SetState, breaker
  <2>2. ASSUME NEW c \in Callers, ProbeOk(c) \/ ProbeFail(c) PROVE FALSE
    BY <2>2 DEF ProbeOk, ProbeFail, ShortCalls, TestsOnlyInHalfOpen, Probing
  <2>3. ASSUME NEW c \in Callers, ClosedFail(c) PROVE failures' = Threshold
    <3>1. failures' = failures + 1 /\ (failures' >= Threshold \/ UNCHANGED state)
      BY <2>3 DEF ClosedFail
    <3>2. failures < Threshold /\ failures \in Nat /\ Threshold \in Nat
      BY ThresholdAssumption DEF ClosedBelowThreshold, ShortCalls, TypeOK
    <3>3. QED
      BY <3>1, <3>2
  <2>4. QED
    BY <2>1, <2>2, <2>3, StepCases DEF breaker
<1>2. QED
  BY <1>1, ShortCallsInvariant, ClosedMeansBelowThreshold, PTL DEF Spec, OpensOnThreshold

-----------------------------------------------------------------------------
(* The token bucket. *)

(* A swap that can succeed was preceded by a load of a value that allows   *)
(* it: a positive one to take a token, one with room to add one.           *)
SwapsAreJustified ==
    /\ \A u \in Users : at[u] \in {"cas", "wait-cas"} => current[u] > 0
    /\ at[Refill] = "cas" => current[Refill] < Capacity
    /\ at[Refill] \notin {"wait-load", "wait-cas", "polling"}

BucketInv == BucketTypeOK /\ TokensConserved /\ SwapsAreJustified

USE DEF Goroutines, BucketPlaces, bucketVars

LEMMA BucketInitially == BucketInit => BucketInv
<1> SUFFICES ASSUME BucketInit PROVE BucketInv
    OBVIOUS
<1> USE BucketAssumption DEF BucketInit
<1>1. BucketTypeOK
    BY DEF BucketTypeOK
<1>2. TokensConserved
    BY DEF TokensConserved
<1>3. SwapsAreJustified
    BY DEF SwapsAreJustified
<1>4. QED
    BY <1>1, <1>2, <1>3 DEF BucketInv

(* Each atomic operation of any goroutine keeps the bucket's invariant. *)
LEMMA BucketStep == BucketInv /\ [BucketNext]_bucketVars => BucketInv'
<1> SUFFICES ASSUME BucketInv, [BucketNext]_bucketVars PROVE BucketInv'
    OBVIOUS
<1> USE BucketAssumption DEF BucketInv, BucketTypeOK, TokensConserved, SwapsAreJustified
<1>1. ASSUME NEW u \in Users, CallAllow(u) \/ CallWait(u) PROVE BucketInv'
    BY <1>1 DEF CallAllow, CallWait, Go
<1>2. ASSUME NEW u \in Users, FindEmpty(u) PROVE BucketInv'
    BY <1>2 DEF FindEmpty, Go
<1>3. ASSUME NEW u \in Users, LoadTokens(u) PROVE BucketInv'
    BY <1>3 DEF LoadTokens, Go
<1>4. ASSUME NEW u \in Users, SwapTake(u) PROVE BucketInv'
    BY <1>4 DEF SwapTake, Go, Forget
<1>5. ASSUME NEW u \in Users, SwapTakeFails(u) PROVE BucketInv'
    BY <1>5 DEF SwapTakeFails, Go, Forget
<1>6. ASSUME NEW u \in Users, PollAgain(u) \/ WaitCancelled(u) PROVE BucketInv'
    BY <1>6 DEF PollAgain, WaitCancelled, Go
<1>7. CASE TickerFires
    BY <1>7 DEF TickerFires
<1>8. CASE ReceiveTick \/ FindFull \/ RefillStops
    BY <1>8 DEF ReceiveTick, FindFull, RefillStops, Go
<1>9. CASE LoadRoom
    BY <1>9 DEF LoadRoom, Go
<1>10. CASE SwapAdd
    BY <1>10 DEF SwapAdd, Go, Forget
<1>11. CASE SwapAddFails
    BY <1>11 DEF SwapAddFails, Go, Forget
<1>12. CASE UNCHANGED bucketVars
    BY <1>12
<1>13. QED
    BY <1>1, <1>2, <1>3, <1>4, <1>5, <1>6, <1>7, <1>8, <1>9, <1>10, <1>11, <1>12
    DEF BucketNext, UserStep, RefillStep

LEMMA BucketInvariant == BucketSpec => []BucketInv
BY BucketInitially, BucketStep, PTL DEF BucketSpec

(* The limiter keeps its types. *)
THEOREM BucketTypeCorrect == BucketSpec => []BucketTypeOK
BY BucketInvariant, PTL DEF BucketInv

(* For any number of goroutines no token is handed out twice or lost, and  *)
(* the bucket never holds more than the burst.                             *)
THEOREM Conservation == BucketSpec => []TokensConserved
BY BucketInvariant, PTL DEF BucketInv

(* The lock-free loops implement the bucket with indivisible steps. *)
THEOREM Implementation == BucketSpec => IsAtomic
<1>1. BucketInit => Atomic!Init
    BY DEF BucketInit, Atomic!Init
<1>2. BucketInv /\ [BucketNext]_bucketVars => [Atomic!Next]_Atomic!bucket
    <2> SUFFICES ASSUME BucketInv, [BucketNext]_bucketVars
                 PROVE [Atomic!Next]_Atomic!bucket
        OBVIOUS
    <2> USE DEF Atomic!bucket
    <2>1. ASSUME NEW u \in Users, SwapTake(u) PROVE Atomic!Take
        BY <2>1 DEF SwapTake, Atomic!Take, BucketInv, BucketTypeOK, SwapsAreJustified
    <2>2. CASE SwapAdd
        <3>1. Atomic!Add
            BY <2>2 DEF SwapAdd, Atomic!Add, BucketInv, BucketTypeOK, SwapsAreJustified
        <3>2. QED BY <3>1 DEF Atomic!Next
    <2>3. ASSUME NEW u \in Users,
                 CallAllow(u) \/ CallWait(u) \/ FindEmpty(u) \/ LoadTokens(u)
                 \/ SwapTakeFails(u) \/ PollAgain(u) \/ WaitCancelled(u)
          PROVE UNCHANGED Atomic!bucket
        BY <2>3 DEF CallAllow, CallWait, FindEmpty, LoadTokens, SwapTakeFails,
                    PollAgain, WaitCancelled
    <2>4. CASE TickerFires \/ ReceiveTick \/ FindFull \/ LoadRoom \/ SwapAddFails \/ RefillStops
        BY <2>4 DEF TickerFires, ReceiveTick, FindFull, LoadRoom, SwapAddFails, RefillStops
    <2>5. CASE UNCHANGED bucketVars
        BY <2>5
    <2>6. QED
        BY <2>1, <2>2, <2>3, <2>4, <2>5
        DEF BucketNext, UserStep, RefillStep, Atomic!Next
<1>3. QED
    BY <1>1, <1>2, BucketInvariant, PTL DEF BucketSpec, IsAtomic, Atomic!Spec
=============================================================================
