---------------------------- MODULE AlertManager ----------------------------
(***************************************************************************)
(* inch/internal/alertmgr and cmd/alert-manager: one goroutine takes the   *)
(* alerts of a partition from Kafka and passes each through suppression,   *)
(* the token bucket and the circuit breaker to JetStream, whatever becomes *)
(* of it; the bucket's refill goroutine runs beside it.  The bucket is the *)
(* indivisible one that TokenBucket implements.  Time is the breaker's     *)
(* clock, its unit the bucket's refill interval; it passes while the loop  *)
(* waits for records and during a publish, the rest takes no time.         *)
(*                                                                         *)
(* Faults: "stop" (SIGTERM), "crash", "fetch" (PollFetches reports an      *)
(* error), at most MaxFaults of them.  A publish may always fail.          *)
(***************************************************************************)
EXTENDS KafkaConsumer

CONSTANTS
    Consumer,        \* the goroutine that runs ConsumeLoop
    Capacity,        \* burst of the limiter
    KeyOf,           \* rule and group of each alert, a function on Records
    SuppressWindow,  \* alertDedup.window
    Undecodable,     \* alerts proto.Unmarshal fails on
    Threshold, Timeout, CallTime, MaxClock,  \* see CircuitBreaker
    Faults, MaxFaults

FaultKinds == {"stop", "crash", "fetch"}

ASSUME AlertManagerAssumption ==
    /\ DOMAIN KeyOf = Records
    /\ Capacity \in Nat
    /\ SuppressWindow \in Nat /\ MaxClock \in Nat
    /\ Threshold \in Nat \ {0} /\ Timeout \in Nat \ {0}  \* New defaults what is not positive
    /\ Undecodable \subseteq Records
    /\ Faults \subseteq FaultKinds
    /\ MaxFaults \in Nat

VARIABLES
    tokens, granted, added,  \* the bucket
    due,       \* a refill tick waits in the ticker's channel (its buffer is 1)
    adding,    \* the refill goroutine has received a tick
    state, failures, lastFailure, now, pc, started, pending, reported,  \* the breaker
    stage,      \* what Handle does next with the alert in hand
    seen,       \* alertDedup.seen: time of each key in the map
    ctxDone,    \* whether the process's context is cancelled
    forwarded,  \* history of the process: when an alert with each key last went on
    streak,     \* history of the process: failed publishes since one succeeded
    streakEnd,  \* history of the process: when the last of them failed
    level,      \* history of the process: tokens taken, leaking one per unit of time
    decided,    \* history: alerts Handle returned for, in any process
    faults

bucketVars == <<tokens, granted, added, due, adding>>
breakerVars == <<state, failures, lastFailure, now, pc, started, pending, reported>>
histories == <<forwarded, streak, streakEnd, level, decided>>
processVars == <<ctxDone, faults>>
vars == <<loop, fetched, handled, mark, committed,
          tokens, granted, added, due, adding,
          state, failures, lastFailure, now, pc, started, pending, reported,
          stage, seen, ctxDone, forwarded, streak, streakEnd, level, decided, faults>>

Bucket == INSTANCE AtomicBucket
Breaker == INSTANCE CircuitBreaker WITH Callers <- {Consumer}, Callback <- FALSE

Keys == {KeyOf[r] : r \in Records}
(* doomed: in a publish that was begun with a cancelled context *)
Publishing == {"publish", "doomed"}
Stages == {"dedup", "limit", "breaker"} \cup Publishing
Never == MaxClock + 1

Init ==
    /\ ConsumerInit /\ Bucket!Init /\ Breaker!Init
    /\ due = FALSE /\ adding = FALSE
    /\ stage = "dedup" /\ seen = <<>> /\ ctxDone = FALSE
    /\ forwarded = [k \in Keys |-> Never]
    /\ streak = 0 /\ streakEnd = 0 /\ level = 0 /\ decided = {}
    /\ faults = 0

Fault(kind) == kind \in Faults /\ faults < MaxFaults /\ faults' = faults + 1

-----------------------------------------------------------------------------
At(s) == loop = "handle" /\ stage = s

(* Handle returns; ConsumeLoop ignores its error. *)
Decide ==
    /\ HandlerReturns
    /\ stage' = "dedup"
    /\ decided' = decided \cup {Handling}

Proceed(s) == stage' = s /\ UNCHANGED <<consumerVars, decided>>

(* Mutant: an alert that cannot be decoded is tried again. *)
RejectUndecodable_Retries ==
    /\ At("dedup") /\ Handling \in Undecodable
    /\ UNCHANGED vars

RejectUndecodable ==
    /\ At("dedup") /\ Handling \in Undecodable
    /\ Decide
    /\ UNCHANGED <<bucketVars, breakerVars, seen, forwarded, streak, streakEnd, level, processVars>>

(* Mutant: a key leaves the map when the window is reached, not exceeded. *)
Fresh_Exclusive(s) == {k \in DOMAIN s : now - s[k] < SuppressWindow}

(* isDuplicate's lazy cleanup *)
Fresh(s) == {k \in DOMAIN s : now - s[k] <= SuppressWindow}
Key == KeyOf[Handling]

Suppress ==
    /\ At("dedup") /\ Handling \notin Undecodable
    /\ Key \in Fresh(seen)
    /\ seen' = [k \in Fresh(seen) |-> seen[k]]
    /\ Decide
    /\ UNCHANGED <<bucketVars, breakerVars, forwarded, streak, streakEnd, level, processVars>>

(* The key is remembered before anything is known of the alert's fate. *)
Admit ==
    /\ At("dedup") /\ Handling \notin Undecodable
    /\ Key \notin Fresh(seen)
    /\ seen' = [k \in Fresh(seen) \cup {Key} |-> IF k = Key THEN now ELSE seen[k]]
    /\ forwarded' = [forwarded EXCEPT ![Key] = now]
    /\ Proceed("limit")
    /\ UNCHANGED <<bucketVars, breakerVars, streak, streakEnd, level, processVars>>

Throttle ==
    /\ At("limit") /\ tokens <= 0
    /\ Decide
    /\ UNCHANGED <<bucketVars, breakerVars, seen, forwarded, streak, streakEnd, level, processVars>>

TakeToken ==
    /\ At("limit")
    /\ Bucket!Take
    /\ level' = level + 1
    /\ Proceed("breaker")
    /\ UNCHANGED <<due, adding, breakerVars, seen, forwarded, streak, streakEnd, processVars>>

BreakerRejects ==
    /\ At("breaker")
    /\ Breaker!ExecuteReject(Consumer)
    /\ Decide
    /\ UNCHANGED <<bucketVars, seen, forwarded, streak, streakEnd, level, processVars>>

BeginPublish ==
    /\ At("breaker")
    /\ Breaker!ExecuteClosed(Consumer) \/ Breaker!ExecuteProbe(Consumer)
    /\ Proceed(IF ctxDone THEN "doomed" ELSE "publish")
    /\ UNCHANGED <<bucketVars, seen, forwarded, streak, streakEnd, level, processVars>>

PublishOk ==
    /\ At("publish")
    /\ Breaker!ClosedOk(Consumer) \/ Breaker!ProbeOk(Consumer)
    /\ streak' = 0
    /\ Decide
    /\ UNCHANGED <<bucketVars, seen, forwarded, streakEnd, level, processVars>>

(* NATS is unavailable, or the context is cancelled: the alert is given up. *)
PublishFail ==
    /\ loop = "handle" /\ stage \in Publishing
    /\ Breaker!ClosedFail(Consumer) \/ Breaker!ProbeFail(Consumer)
    /\ streak' = streak + 1 /\ streakEnd' = now
    /\ Decide
    /\ UNCHANGED <<bucketVars, seen, forwarded, level, processVars>>

-----------------------------------------------------------------------------
OnlyLoop == UNCHANGED <<bucketVars, breakerVars, stage, seen, histories>>

Poll == ~ctxDone /\ PollReturns /\ OnlyLoop /\ UNCHANGED processVars
EndLoop ==
    /\ LoopReturns /\ OnlyLoop
    /\ (ctxDone /\ UNCHANGED faults) \/ (~ctxDone /\ Fault("fetch"))
    /\ UNCHANGED ctxDone
Commit == AutoCommit /\ OnlyLoop /\ UNCHANGED processVars

(* The refill goroutine. *)
ReceiveTick ==
    /\ due /\ ~adding
    /\ due' = FALSE /\ adding' = TRUE
    /\ UNCHANGED <<tokens, granted, added>>

(* Mutant: every tick adds, also to a full bucket. *)
AddToken_Overflows ==
    /\ adding
    /\ adding' = FALSE
    /\ tokens' = tokens + 1 /\ added' = added + 1
    /\ UNCHANGED <<granted, due>>

AddToken ==
    /\ adding
    /\ adding' = FALSE
    /\ Bucket!Add \/ (tokens >= Capacity /\ UNCHANGED <<tokens, granted, added>>)
    /\ UNCHANGED due

Refilling ==
    /\ loop # "gone"
    /\ ReceiveTick \/ AddToken
    /\ UNCHANGED <<consumerVars, breakerVars, stage, seen, histories, processVars>>

(* The ticker's channel holds one tick: an unreceived one swallows the new. *)
Tick ==
    /\ loop = "handle" => stage \in Publishing
    /\ Breaker!Tick
    /\ due' = (loop # "gone")
    /\ level' = IF level > 0 THEN level - 1 ELSE 0
    /\ UNCHANGED <<tokens, granted, added, adding>>
    /\ UNCHANGED <<consumerVars, stage, seen, forwarded, streak, streakEnd, decided, processVars>>

(* The memory of the process is gone. *)
MemoryLost ==
    /\ tokens' = Capacity /\ granted' = 0 /\ added' = 0 /\ due' = FALSE /\ adding' = FALSE
    /\ state' = "closed" /\ failures' = 0 /\ lastFailure' = 0
    /\ pc' = [c \in {Consumer} |-> "idle"] /\ started' = [c \in {Consumer} |-> 0]
    /\ stage' = "dedup" /\ seen' = <<>>
    /\ forwarded' = [k \in Keys |-> Never]
    /\ streak' = 0 /\ streakEnd' = 0 /\ level' = 0
    /\ UNCHANGED <<now, pending, reported, decided>>

Leave == CloseAndExit /\ MemoryLost /\ UNCHANGED processVars
Crash == Die /\ MemoryLost /\ Fault("crash") /\ UNCHANGED ctxDone

Stop ==
    /\ loop # "gone" /\ ~ctxDone
    /\ Fault("stop")
    /\ ctxDone' = TRUE
    /\ OnlyLoop /\ UNCHANGED consumerVars

Restart ==
    /\ Resume
    /\ ctxDone' = FALSE
    /\ OnlyLoop /\ UNCHANGED faults

HandleStep ==
    \/ RejectUndecodable \/ Suppress \/ Admit
    \/ Throttle \/ TakeToken
    \/ BreakerRejects \/ BeginPublish \/ PublishOk \/ PublishFail
Main == Poll \/ HandleStep \/ EndLoop \/ Leave

Next == Main \/ Refilling \/ Commit \/ Tick \/ Stop \/ Crash \/ Restart

Spec == Init /\ [][Next]_vars

(* Goroutines keep running, and the orchestrator restarts the process. *)
FairSpec == Spec /\ WF_vars(Main) /\ WF_vars(Refilling) /\ WF_vars(Restart)

-----------------------------------------------------------------------------
TypeOK ==
    /\ ConsumerTypeOK /\ Breaker!TypeOK
    /\ tokens \in 0 .. Capacity /\ due \in BOOLEAN /\ adding \in BOOLEAN
    /\ stage \in Stages /\ ctxDone \in BOOLEAN
    /\ DOMAIN seen \subseteq Keys /\ \A k \in DOMAIN seen : seen[k] \in 0 .. now
    /\ forwarded \in [Keys -> 0 .. MaxClock + 1]
    /\ streak \in Nat /\ streakEnd \in 0 .. now /\ level \in Nat
    /\ decided \subseteq Records
    /\ faults \in 0 .. MaxFaults

(* Unlike the processor's, this loop handles a record to its end before    *)
(* the offset can be committed: no crash loses an alert it has not seen.   *)
CommittedWasDecided == 1 .. committed \subseteq decided

InWindow(k) == forwarded[k] # Never /\ now - forwarded[k] <= SuppressWindow

(* An alert goes on exactly when the process has let none with its key go  *)
(* on within the window before it, however its map was cleaned up meanwhile. *)
SuppressionIsExact ==
    [][At("dedup") /\ Handling \notin Undecodable =>
        /\ stage' = "limit" => ~InWindow(Key)
        /\ handled' = handled + 1 => InWindow(Key)]_vars

(* The limiter's promise over every span of time, not only from the start: *)
(* in d units it grants at most the burst, what d ticks added, and two more *)
(* tokens of ticks at the edges of the span, even if what is in the bucket *)
(* and on the way to it were taken at once.                                *)
OneIf(b) == IF b THEN 1 ELSE 0
RateBounded == level + tokens + OneIf(due) + OneIf(adding) <= Capacity + 2

(* After Threshold failures in a row NATS is left alone for more than the  *)
(* open period; then one failure is enough for the next such period.       *)
OutageIsSpared ==
    [][streak >= Threshold /\ stage = "breaker" /\ stage' \in Publishing
        => now > streakEnd + Timeout]_vars

(* Every alert is decided on in the end: neither a dead NATS, an empty     *)
(* bucket nor an open circuit holds the consumer up.                       *)
EveryAlertIsDecided == <>(decided = Records)
=============================================================================
