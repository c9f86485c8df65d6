--------------------------- MODULE CircuitBreaker ---------------------------
(***************************************************************************)
(* pkg/circuitbreaker/breaker.go: one Breaker shared by several goroutines *)
(* (Callers).  The mutex is held only while the breaker's fields are read  *)
(* or written; the protected call fn() runs outside of it, so a call that  *)
(* was admitted in one state of the breaker may report in another.  One    *)
(* action is one critical section: Execute up to its unlock, or the        *)
(* critical section that follows fn() in tryClosed / tryHalfOpen.          *)
(*                                                                         *)
(* Time is a discrete clock.  CallTime bounds how long fn() may run; it is *)
(* a parameter of the environment (the code itself never bounds fn()), and *)
(* which guarantees hold depends on how it compares with Timeout.          *)
(***************************************************************************)
EXTENDS Naturals, FiniteSets

CONSTANTS
    Callers,    \* goroutines that share the breaker
    Threshold,  \* Config.Threshold after New's defaulting
    Timeout,    \* Config.Timeout after New's defaulting
    CallTime,   \* longest time a call of fn() takes
    MaxClock,   \* bound of the explored time
    Callback    \* whether OnStateChange registered a callback

ASSUME ThresholdAssumption == Threshold \in Nat \ {0}
ASSUME TimeoutAssumption == Timeout \in Nat \ {0}
ASSUME ClockAssumption == CallTime \in Nat /\ MaxClock \in Nat
ASSUME CallbackAssumption == Callback \in BOOLEAN

VARIABLES
    state,        \* Breaker.state
    failures,     \* Breaker.failures
    lastFailure,  \* Breaker.lastFailure (a zero time is never compared)
    now,          \* the clock time.Now() and time.Since() read
    pc,           \* where each caller is
    started,      \* when the caller's fn() was called (0 outside of a call)
    pending,      \* callbacks spawned by `go fn(from, to)`, not yet run
    reported      \* the `to` of the callback that ran last

breaker == <<state, failures, lastFailure>>
callbacks == <<pending, reported>>
vars == <<state, failures, lastFailure, now, pc, started, pending, reported>>

States == {"closed", "open", "half-open"}
Transitions == States \X States

(* idle: not in Execute; rejected: Execute returned ErrCircuitOpen;        *)
(* calling: in fn() under tryClosed; probing: in fn() under tryHalfOpen.   *)
Places == {"idle", "rejected", "calling", "probing"}
InCall == {c \in Callers : pc[c] \in {"calling", "probing"}}
Calling == {c \in Callers : pc[c] = "calling"}
Probing == {c \in Callers : pc[c] = "probing"}

Init ==
    /\ state = "closed" /\ failures = 0 /\ lastFailure = 0
    /\ now = 0
    /\ pc = [c \in Callers |-> "idle"]
    /\ started = [c \in Callers |-> 0]
    /\ pending = [t \in Transitions |-> 0]
    /\ reported = "closed"

-----------------------------------------------------------------------------
(* setState: no callback when nothing changes or none is registered. *)
SetState(to) ==
    /\ state' = to
    /\ pending' = IF Callback /\ state # to
                    THEN [pending EXCEPT ![<<state, to>>] = @ + 1]
                    ELSE pending
    /\ UNCHANGED reported

Outside(c) == pc[c] \in {"idle", "rejected"}

EnterCall(c, place) ==
    /\ pc' = [pc EXCEPT ![c] = place]
    /\ started' = [started EXCEPT ![c] = now]

LeaveCall(c) ==
    /\ pc' = [pc EXCEPT ![c] = "idle"]
    /\ started' = [started EXCEPT ![c] = 0]
    /\ UNCHANGED now

(* Mutant: >= instead of >. *)
TimeoutElapsed_Inclusive == now - lastFailure >= Timeout

TimeoutElapsed == now - lastFailure > Timeout

ExecuteClosed(c) ==
    /\ Outside(c) /\ state = "closed"
    /\ EnterCall(c, "calling")
    /\ UNCHANGED <<breaker, callbacks, now>>

(* Mutant: half-open admits requests, too. *)
ExecuteProbe_AlsoHalfOpen(c) ==
    /\ Outside(c) /\ state \in {"open", "half-open"} /\ TimeoutElapsed
    /\ SetState("half-open")
    /\ EnterCall(c, "probing")
    /\ UNCHANGED <<failures, lastFailure, now>>

(* Mutant: the open period is not awaited. *)
ExecuteProbe_AtOnce(c) ==
    /\ Outside(c) /\ state = "open"
    /\ SetState("half-open")
    /\ EnterCall(c, "probing")
    /\ UNCHANGED <<failures, lastFailure, now>>

ExecuteProbe(c) ==
    /\ Outside(c) /\ state = "open" /\ TimeoutElapsed
    /\ SetState("half-open")
    /\ EnterCall(c, "probing")
    /\ UNCHANGED <<failures, lastFailure, now>>

ExecuteReject(c) ==
    /\ Outside(c)
    /\ state = "half-open" \/ (state = "open" /\ ~TimeoutElapsed)
    /\ pc' = [pc EXCEPT ![c] = "rejected"]
    /\ UNCHANGED <<breaker, callbacks, now, started>>

ClosedOk(c) ==
    /\ pc[c] = "calling"
    /\ failures' = 0
    /\ LeaveCall(c)
    /\ UNCHANGED <<state, lastFailure, callbacks>>

ClosedFail(c) ==
    /\ pc[c] = "calling"
    /\ failures' = failures + 1
    /\ lastFailure' = now
    /\ IF failures' >= Threshold THEN SetState("open") ELSE UNCHANGED <<state, callbacks>>
    /\ LeaveCall(c)

(* Mutant: a successful test does not reset the failure count. *)
ProbeOk_KeepsFailures(c) ==
    /\ pc[c] = "probing"
    /\ SetState("closed")
    /\ LeaveCall(c)
    /\ UNCHANGED <<failures, lastFailure>>

ProbeOk(c) ==
    /\ pc[c] = "probing"
    /\ failures' = 0
    /\ SetState("closed")
    /\ LeaveCall(c)
    /\ UNCHANGED lastFailure

(* Mutant: a failed test counts but does not re-open the circuit. *)
ProbeFail_StaysHalfOpen(c) ==
    /\ pc[c] = "probing"
    /\ failures' = failures + 1
    /\ lastFailure' = now
    /\ LeaveCall(c)
    /\ UNCHANGED <<state, callbacks>>

ProbeFail(c) ==
    /\ pc[c] = "probing"
    /\ failures' = failures + 1
    /\ lastFailure' = now
    /\ SetState("open")
    /\ LeaveCall(c)

(* A callback goroutine runs: the scheduler may pick any pending one. *)
RunCallback(t) ==
    /\ pending[t] > 0
    /\ pending' = [pending EXCEPT ![t] = @ - 1]
    /\ reported' = t[2]
    /\ UNCHANGED <<breaker, now, pc, started>>

Tick ==
    /\ now < MaxClock
    /\ \A c \in InCall : now < started[c] + CallTime
    /\ now' = now + 1
    /\ UNCHANGED <<breaker, pc, started, callbacks>>

Execute(c) == ExecuteClosed(c) \/ ExecuteProbe(c) \/ ExecuteReject(c)
Return(c) == ClosedOk(c) \/ ClosedFail(c) \/ ProbeOk(c) \/ ProbeFail(c)

Next ==
    \/ \E c \in Callers : Execute(c) \/ Return(c)
    \/ \E t \in Transitions : RunCallback(t)
    \/ Tick

Spec == Init /\ [][Next]_vars

-----------------------------------------------------------------------------
TypeOK ==
    /\ state \in States
    /\ failures \in Nat
    /\ lastFailure \in Nat
    /\ now \in Nat
    /\ pc \in [Callers -> Places]
    /\ started \in [Callers -> Nat]
    /\ pending \in [Transitions -> Nat]
    /\ reported \in States

(* A half-open breaker rejects everybody but a caller already admitted to  *)
(* test the recovery.  If no such caller were left, it would reject for    *)
(* ever: nothing but the end of a test leaves half-open in time.           *)
HalfOpenIsBeingTested == state = "half-open" => Probing # {}

(* However late calls report, a closed breaker has counted fewer failures  *)
(* than the threshold: it never passes requests once the count is reached. *)
ClosedBelowThreshold == state = "closed" => failures < Threshold

(* Execute's comment (lines 141-143): in half-open "only one request at a  *)
(* time", so at most one call tests a recovering service.                  *)
AtMostOneProbe == \A c, d \in Probing : c = d

(* The package comment's state machine: closed -> open -> half-open, and   *)
(* from there back to closed or open; no call, however late, makes another *)
(* transition.                                                             *)
DocumentedTransitions ==
    [][(<<state, state'>> \in {<<"closed", "open">>, <<"open", "half-open">>,
                               <<"half-open", "closed">>, <<"half-open", "open">>})]_state

(* Only the caller that tests the recovery decides its outcome: a call     *)
(* admitted before the circuit opened does not end the test.               *)
TestDecidesRecovery ==
    [][state = "half-open" /\ state' # "half-open"
        => \E c \in Probing : pc'[c] = "idle"]_vars

(* The circuit opens from closed only on Threshold failures that followed  *)
(* the last success, never because an old recovery test reports late.      *)
OpensOnThreshold ==
    [][state = "closed" /\ state' = "open" => failures' = Threshold]_vars
=============================================================================
