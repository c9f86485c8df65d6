------------------------- MODULE AlertManagerProofs -------------------------
(* What the alert manager guarantees for any alerts, keys, burst, windows  *)
(* and incidents, whatever the breaker does.                               *)
EXTENDS AlertManager, TLAPS

-----------------------------------------------------------------------------
(* The consume loop *)

(* The handler has a record in hand. *)
ConsumerInv == ConsumerTypeOK /\ OffsetsOrdered /\ (loop = "handle" => handled < fetched)

ConsumerStep ==
    \/ PollReturns \/ LoopReturns \/ HandlerReturns
    \/ AutoCommit \/ CloseAndExit \/ Die \/ Resume

LEMMA ConsumerInitially == ConsumerInit => ConsumerInv
BY RecordCountAssumption
DEF ConsumerInit, ConsumerInv, ConsumerTypeOK, OffsetsOrdered, LoopStates

(* Offsets keep their order in every step of the loop and its client. *)
LEMMA ConsumerKeeps ==
    ASSUME ConsumerInv, ConsumerStep \/ UNCHANGED consumerVars
    PROVE  ConsumerInv'
<1> USE RecordCountAssumption, ConsumerAssumption
    DEF ConsumerInv, ConsumerTypeOK, OffsetsOrdered, LoopStates
<1>1. CASE PollReturns
    BY <1>1 DEF PollReturns
<1>2. CASE LoopReturns
    BY <1>2 DEF LoopReturns
<1>3. CASE HandlerReturns
    BY <1>3 DEF HandlerReturns
<1>4. CASE AutoCommit
    BY <1>4 DEF AutoCommit
<1>5. CASE CloseAndExit
    BY <1>5 DEF CloseAndExit
<1>6. CASE Die
    BY <1>6 DEF Die
<1>7. CASE Resume
    BY <1>7 DEF Resume
<1>8. CASE UNCHANGED consumerVars
    BY <1>8 DEF consumerVars
<1>9. QED
    BY <1>1, <1>2, <1>3, <1>4, <1>5, <1>6, <1>7, <1>8 DEF ConsumerStep

(* The record in hand is a record. *)
LEMMA InHandIsRecord == ASSUME ConsumerInv, loop = "handle" PROVE Handling \in Records
BY RecordCountAssumption
DEF ConsumerInv, ConsumerTypeOK, Handling, Records

-----------------------------------------------------------------------------
(* The invariants: every record handled has been decided on; the burst     *)
(* bounds what went on; the map remembers what matters.                    *)

DecidedInv == ConsumerInv /\ 1 .. handled \subseteq decided

RateInv ==
    /\ tokens \in 0 .. Capacity /\ level \in Nat
    /\ due \in BOOLEAN /\ adding \in BOOLEAN
    /\ RateBounded

(* The map knows when each key last went on, and has forgotten none that   *)
(* still matters.                                                          *)
SuppressInv ==
    /\ now \in 0 .. MaxClock
    /\ forwarded \in [Keys -> 0 .. now \cup {Never}]
    /\ \A k \in DOMAIN seen : k \in Keys /\ seen[k] = forwarded[k] /\ seen[k] \in 0 .. now
    /\ \A k \in Keys : InWindow(k) => k \in DOMAIN seen

-----------------------------------------------------------------------------
(* Offsets and decisions *)

(* Each step of the process is a step of the loop and its client, or leaves *)
(* them alone; a record the handler returned for has been decided on.      *)
LEMMA DecidedStep == ASSUME DecidedInv, [Next]_vars PROVE DecidedInv'
<1>a. ConsumerInv /\ handled \in Nat /\ committed \in Nat /\ committed <= handled
    BY RecordCountAssumption DEF DecidedInv, ConsumerInv, ConsumerTypeOK, OffsetsOrdered
<1>1. CASE Decide
    BY <1>1, <1>a, ConsumerKeeps
    DEF Decide, DecidedInv, ConsumerStep, HandlerReturns, Handling
<1>2. CASE UNCHANGED <<consumerVars, decided>>
    BY <1>2, <1>a, ConsumerKeeps DEF DecidedInv, consumerVars
<1>3. CASE Poll \/ EndLoop \/ Commit \/ Leave \/ Crash
    <2>1. ConsumerStep /\ handled' = handled /\ decided' = decided
        BY <1>3
        DEF Poll, EndLoop, Commit, Leave, Crash, ConsumerStep, OnlyLoop, histories, MemoryLost,
            PollReturns, LoopReturns, AutoCommit, CloseAndExit, Die
    <2>2. QED
        BY <2>1, <1>a, ConsumerKeeps DEF DecidedInv
<1>4. CASE Restart
    BY <1>4, <1>a, ConsumerKeeps
    DEF Restart, DecidedInv, ConsumerStep, Resume, OnlyLoop, histories
<1>5. QED
    BY <1>1, <1>2, <1>3, <1>4
    DEF Next, Main, HandleStep, RejectUndecodable, Suppress, Admit, Throttle, TakeToken,
        BreakerRejects, BeginPublish, PublishOk, PublishFail, Proceed, Refilling, Tick, Stop,
        OnlyLoop, histories, vars, consumerVars

(* No crash loses an alert that was not decided on: what is committed was. *)
THEOREM CommittedIsDecided == Spec => []CommittedWasDecided
<1>1. Init => DecidedInv
    BY ConsumerInitially DEF Init, DecidedInv, ConsumerInit
<1>2. DecidedInv => CommittedWasDecided
    <2> SUFFICES ASSUME DecidedInv PROVE CommittedWasDecided
        OBVIOUS
    <2>1. committed <= handled /\ committed \in Nat /\ handled \in Nat
        BY RecordCountAssumption DEF DecidedInv, ConsumerInv, ConsumerTypeOK, OffsetsOrdered
    <2>2. QED
        BY <2>1 DEF DecidedInv, CommittedWasDecided
<1>3. QED
    BY <1>1, <1>2, DecidedStep, PTL DEF Spec

-----------------------------------------------------------------------------
(* The rate *)

LEMMA Ones == OneIf(TRUE) = 1 /\ OneIf(FALSE) = 0 /\ \A b \in BOOLEAN : OneIf(b) \in {0, 1}
BY DEF OneIf

(* The sum of the four terms that RateBounded bounds. *)
LEMMA RateSum ==
    ASSUME tokens' \in 0 .. Capacity, level' \in Nat, due' \in BOOLEAN, adding' \in BOOLEAN,
           level' + tokens' + OneIf(due') + OneIf(adding') <= Capacity + 2
    PROVE  RateInv'
BY DEF RateInv, RateBounded

LEMMA RateStep == ASSUME RateInv, [Next]_vars PROVE RateInv'
<1>a. /\ tokens \in 0 .. Capacity /\ level \in Nat /\ Capacity \in Nat
      /\ OneIf(due) \in {0, 1} /\ OneIf(adding) \in {0, 1}
      /\ level + tokens + OneIf(due) + OneIf(adding) <= Capacity + 2
    BY AlertManagerAssumption, Ones DEF RateInv, RateBounded
<1>b. due \in BOOLEAN /\ adding \in BOOLEAN
    BY DEF RateInv
<1>1. CASE UNCHANGED <<tokens, due, adding, level>>
    BY <1>1 DEF RateInv, RateBounded
<1>2. CASE TakeToken
    <2>1. /\ tokens' = tokens - 1 /\ tokens > 0 /\ level' = level + 1
          /\ due' = due /\ adding' = adding
        BY <1>2 DEF TakeToken, Bucket!Take
    <2>2. tokens' \in 0 .. Capacity /\ level' \in Nat /\ level' + tokens' = level + tokens
        BY <1>a, <2>1
    <2>3. level' + tokens' + OneIf(due') + OneIf(adding') <= Capacity + 2
        BY <1>a, <2>1, <2>2
    <2>4. QED
        BY <1>b, <2>1, <2>2, <2>3, RateSum
<1>3. CASE Refilling /\ ReceiveTick
    <2>1. /\ due = TRUE /\ due' = FALSE /\ adding = FALSE /\ adding' = TRUE
          /\ tokens' = tokens /\ level' = level
        BY <1>3, <1>b DEF Refilling, ReceiveTick, histories
    <2>2. OneIf(due) = 1 /\ OneIf(due') = 0 /\ OneIf(adding) = 0 /\ OneIf(adding') = 1
        BY <2>1, Ones
    <2>3. level' + tokens' + OneIf(due') + OneIf(adding') <= Capacity + 2
        BY <1>a, <2>1, <2>2
    <2>4. QED
        BY <1>a, <2>1, <2>3, RateSum
<1>4. CASE Refilling /\ AddToken
    <2>1. adding = TRUE /\ adding' = FALSE /\ due' = due /\ level' = level
        BY <1>4, <1>b DEF Refilling, AddToken, histories
    <2>2. tokens' \in 0 .. Capacity /\ tokens' <= tokens + 1
        BY <1>4, <1>a DEF AddToken, Bucket!Add
    <2>3. OneIf(adding) = 1 /\ OneIf(adding') = 0 /\ OneIf(due') = OneIf(due)
        BY <2>1, Ones
    <2>4. level' + tokens' + OneIf(due') + OneIf(adding') <= Capacity + 2
        BY <1>a, <2>1, <2>2, <2>3
    <2>5. QED
        BY <1>a, <1>b, <2>1, <2>2, <2>4, RateSum
<1>5. CASE Tick
    <2>1. due' \in BOOLEAN /\ adding' = adding /\ tokens' = tokens
        BY <1>5 DEF Tick
    <2>2. level' = IF level > 0 THEN level - 1 ELSE 0
        BY <1>5 DEF Tick
    <2>3. OneIf(due') \in {0, 1} /\ OneIf(adding') = OneIf(adding)
        BY <2>1, Ones
    <2>4. level' \in Nat /\ level' + tokens' + OneIf(due') + OneIf(adding') <= Capacity + 2
        BY <1>a, <2>1, <2>2, <2>3
    <2>5. QED
        BY <1>a, <1>b, <2>1, <2>4, RateSum
<1>6. CASE MemoryLost
    <2>1. tokens' = Capacity /\ level' = 0 /\ due' = FALSE /\ adding' = FALSE
        BY <1>6 DEF MemoryLost
    <2>2. OneIf(due') = 0 /\ OneIf(adding') = 0
        BY <2>1, Ones
    <2>3. /\ tokens' \in 0 .. Capacity /\ level' \in Nat
          /\ level' + tokens' + OneIf(due') + OneIf(adding') <= Capacity + 2
        BY <1>a, <2>1, <2>2
    <2>4. QED
        BY <2>1, <2>3, RateSum
<1>7. QED
    BY <1>1, <1>2, <1>3, <1>4, <1>5, <1>6
    DEF Next, Main, HandleStep, RejectUndecodable, Suppress, Admit, Throttle,
        BreakerRejects, BeginPublish, PublishOk, PublishFail, Poll, EndLoop, Leave, Commit,
        Stop, Crash, Restart, OnlyLoop, histories, bucketVars, vars, Refilling

LEMMA RateInitially == Init => RateInv
<1> SUFFICES ASSUME Init PROVE RateInv
    OBVIOUS
<1>1. tokens = Capacity /\ level = 0 /\ due = FALSE /\ adding = FALSE
    BY DEF Init, Bucket!Init
<1>2. OneIf(due) = 0 /\ OneIf(adding) = 0
    BY <1>1, Ones
<1>3. RateBounded /\ tokens \in 0 .. Capacity /\ level \in Nat
    BY <1>1, <1>2, AlertManagerAssumption DEF RateBounded
<1>4. QED
    BY <1>1, <1>3 DEF RateInv

(* Whatever the alerts, and however late ticks are received: no span of    *)
(* time gets more tokens than the burst, its own ticks and two more.       *)
THEOREM RateStaysBounded == Spec => []RateBounded
<1>1. Init => RateInv
    BY RateInitially
<1>2. RateInv => RateBounded
    BY DEF RateInv
<1>3. QED
    BY <1>1, <1>2, RateStep, PTL DEF Spec

-----------------------------------------------------------------------------
(* Suppression *)

(* What the invariants above say of the record in hand. *)
LEMMA KeyInHand == ASSUME DecidedInv, loop = "handle" PROVE Key \in Keys
BY InHandIsRecord DEF DecidedInv, Key, Keys

(* In the map and within its window: one and the same for a key. *)
LEMMA FreshIsInWindow ==
    ASSUME SuppressInv, NEW k \in Keys
    PROVE  k \in Fresh(seen) <=> InWindow(k)
<1>1. now \in 0 .. MaxClock /\ MaxClock \in Nat
    BY AlertManagerAssumption DEF SuppressInv
<1>2. ASSUME k \in DOMAIN seen PROVE seen[k] = forwarded[k] /\ forwarded[k] # Never
    BY <1>1, <1>2 DEF SuppressInv, Never
<1>3. QED
    BY <1>2 DEF SuppressInv, Fresh, InWindow

LEMMA SuppressStep == ASSUME DecidedInv, SuppressInv, [Next]_vars PROVE SuppressInv'
<1>a. /\ now \in 0 .. MaxClock /\ MaxClock \in Nat /\ SuppressWindow \in Nat
      /\ forwarded \in [Keys -> 0 .. now \cup {Never}]
      /\ \A k \in DOMAIN seen : k \in Keys /\ seen[k] = forwarded[k] /\ seen[k] \in 0 .. now
      /\ \A k \in Keys : InWindow(k) => k \in DOMAIN seen
    BY AlertManagerAssumption DEF SuppressInv
<1>1. CASE UNCHANGED <<now, forwarded, seen>>
    BY <1>1 DEF SuppressInv, InWindow
<1>2. CASE Suppress
    <2>1. /\ UNCHANGED <<now, forwarded>>
          /\ seen' = [k \in Fresh(seen) |-> seen[k]]
        BY <1>2 DEF Suppress, breakerVars
    <2>2. \A k \in Keys : InWindow(k)' => k \in Fresh(seen)
        BY <2>1, FreshIsInWindow DEF InWindow
    <2>3. Fresh(seen) \subseteq DOMAIN seen
        BY DEF Fresh
    <2>4. QED
        BY <1>a, <2>1, <2>2, <2>3 DEF SuppressInv
<1>3. CASE Admit
    <2>1. /\ now' = now /\ forwarded' = [forwarded EXCEPT ![Key] = now]
          /\ seen' = [k \in Fresh(seen) \cup {Key} |-> IF k = Key THEN now ELSE seen[k]]
          /\ Key \in Keys
        BY <1>3, KeyInHand DEF Admit, At, breakerVars
    <2>2. forwarded' \in [Keys -> 0 .. now' \cup {Never}]
        BY <1>a, <2>1
    <2>3. Fresh(seen) \subseteq DOMAIN seen
        BY DEF Fresh
    <2>4. \A k \in DOMAIN seen' :
            k \in Keys /\ seen'[k] = forwarded'[k] /\ seen'[k] \in 0 .. now'
        BY <1>a, <2>1, <2>3
    <2>5. ASSUME NEW k \in Keys, InWindow(k)' PROVE k \in DOMAIN seen'
        <3>1. CASE k = Key
            BY <2>1, <3>1
        <3>2. CASE k # Key
            BY <1>a, <2>1, <2>5, <3>2, FreshIsInWindow DEF InWindow
        <3>3. QED
            BY <3>1, <3>2
    <2>6. QED
        BY <1>a, <2>1, <2>2, <2>4, <2>5 DEF SuppressInv
<1>4. CASE Tick
    <2>1. now' = now + 1 /\ now < MaxClock /\ UNCHANGED <<forwarded, seen>>
        BY <1>4 DEF Tick, Breaker!Tick
    <2>2. ASSUME NEW k \in Keys, InWindow(k)' PROVE InWindow(k)
        <3>1. forwarded[k] # Never /\ now + 1 - forwarded[k] <= SuppressWindow
            BY <1>a, <2>1, <2>2 DEF InWindow, Never
        <3>2. forwarded[k] \in 0 .. now
            BY <1>a, <3>1
        <3>3. QED
            BY <1>a, <3>1, <3>2 DEF InWindow
    <2>3. now' \in 0 .. MaxClock /\ 0 .. now \subseteq 0 .. now'
        BY <1>a, <2>1
    <2>4. QED
        BY <1>a, <2>1, <2>2, <2>3 DEF SuppressInv
<1>5. CASE MemoryLost
    <2>1. now' = now /\ seen' = <<>> /\ forwarded' = [k \in Keys |-> Never]
        BY <1>5 DEF MemoryLost
    <2>2. \A k \in Keys : ~InWindow(k)'
        BY <2>1 DEF InWindow
    <2>3. DOMAIN seen' = {}
        BY <2>1
    <2>4. QED
        BY <1>a, <2>1, <2>2, <2>3 DEF SuppressInv
<1>6. CASE BreakerRejects \/ BeginPublish \/ PublishOk \/ PublishFail
    BY <1>1, <1>6
    DEF BreakerRejects, BeginPublish, PublishOk, PublishFail, Breaker!ExecuteReject,
        Breaker!ExecuteClosed, Breaker!ExecuteProbe, Breaker!ClosedOk, Breaker!ProbeOk,
        Breaker!ClosedFail, Breaker!ProbeFail, Breaker!LeaveCall
<1>7. QED
    BY <1>1, <1>2, <1>3, <1>4, <1>5, <1>6
    DEF Next, Main, HandleStep, RejectUndecodable, Throttle, TakeToken, Poll, EndLoop, Leave,
        Commit, Stop, Crash, Restart, OnlyLoop, histories, breakerVars, vars, Refilling

(* Of the steps that begin with an alert in hand and its key not yet       *)
(* looked up, only Suppress ends the handling of it, and only Admit lets   *)
(* it go on.                                                               *)
LEMMA OnlyDedupDecides ==
    ASSUME DecidedInv, [Next]_vars, At("dedup"), Handling \notin Undecodable,
           stage' = "limit" \/ handled' = handled + 1
    PROVE  (Suppress /\ stage' # "limit") \/ (Admit /\ handled' = handled)
<1>a. handled \in Nat
    BY RecordCountAssumption DEF DecidedInv, ConsumerInv, ConsumerTypeOK
<1>1. CASE Suppress
    BY <1>1 DEF Suppress, Decide
<1>2. CASE Admit
    BY <1>2 DEF Admit, Proceed, consumerVars
<1>3. CASE stage' = stage /\ handled' = handled
    BY <1>3, <1>a DEF At
<1>4. CASE MemoryLost /\ handled' = handled
    BY <1>4, <1>a DEF MemoryLost
<1>5. QED
    BY <1>1, <1>2, <1>3, <1>4
    DEF Next, Main, HandleStep, RejectUndecodable, Throttle, TakeToken, BreakerRejects,
        BeginPublish, PublishOk, PublishFail, Publishing, Poll, PollReturns, EndLoop,
        LoopReturns, Leave, CloseAndExit, Commit, AutoCommit, Stop, Crash, Die, Restart, Resume, OnlyLoop,
        consumerVars, vars, Refilling, Tick, At

(* Cleaning up the map while alerts arrive never makes it forget too early *)
(* nor suppress too long: the comparison of handler.go:163 and that of the *)
(* cleanup agree for every window.                                         *)
THEOREM SuppressionStaysExact == Spec => SuppressionIsExact
<1>1. Init => DecidedInv /\ SuppressInv
    <2> SUFFICES ASSUME Init PROVE DecidedInv /\ SuppressInv
        OBVIOUS
    <2>1. DecidedInv
        BY ConsumerInitially DEF Init, DecidedInv, ConsumerInit
    <2>2. now = 0 /\ DOMAIN seen = {} /\ forwarded = [k \in Keys |-> Never]
        BY DEF Init, Breaker!Init
    <2>3. QED
        BY <2>1, <2>2, AlertManagerAssumption DEF SuppressInv, InWindow
<1>2. DecidedInv /\ SuppressInv /\ [Next]_vars => (DecidedInv /\ SuppressInv)'
    BY DecidedStep, SuppressStep
<1>3. DecidedInv /\ SuppressInv /\ [Next]_vars =>
        [At("dedup") /\ Handling \notin Undecodable =>
            /\ stage' = "limit" => ~InWindow(Key)
            /\ handled' = handled + 1 => InWindow(Key)]_vars
    <2> SUFFICES ASSUME DecidedInv, SuppressInv, [Next]_vars,
                        At("dedup"), Handling \notin Undecodable,
                        stage' = "limit" \/ handled' = handled + 1
                 PROVE  /\ stage' = "limit" => ~InWindow(Key)
                        /\ handled' = handled + 1 => InWindow(Key)
        OBVIOUS
    <2>1. Key \in Fresh(seen) <=> InWindow(Key)
        BY KeyInHand, FreshIsInWindow DEF At
    <2>2. CASE Suppress /\ stage' # "limit"
        BY <2>1, <2>2 DEF Suppress
    <2>3. CASE Admit /\ handled' = handled
        <3>1. handled' # handled + 1
            BY <2>3, RecordCountAssumption DEF DecidedInv, ConsumerInv, ConsumerTypeOK
        <3>2. QED
            BY <2>1, <2>3, <3>1 DEF Admit
    <2>4. QED
        BY <2>2, <2>3, OnlyDedupDecides
<1>4. QED
    BY <1>1, <1>2, <1>3, PTL DEF Spec, SuppressionIsExact

-----------------------------------------------------------------------------
(* Types *)

(* What the invariants above leave open. *)
RestTypeOK ==
    /\ Breaker!TypeOK
    /\ stage \in Stages /\ ctxDone \in BOOLEAN
    /\ streak \in Nat /\ streakEnd \in 0 .. now
    /\ decided \subseteq Records /\ faults \in 0 .. MaxFaults

BreakerStep ==
    \/ Breaker!ExecuteClosed(Consumer) \/ Breaker!ExecuteProbe(Consumer)
    \/ Breaker!ExecuteReject(Consumer)
    \/ Breaker!ClosedOk(Consumer) \/ Breaker!ProbeOk(Consumer)
    \/ Breaker!ClosedFail(Consumer) \/ Breaker!ProbeFail(Consumer)

LEMMA BreakerTypes ==
    ASSUME Breaker!TypeOK, BreakerStep
    PROVE  Breaker!TypeOK' /\ now' = now
<1> USE DEF Breaker!TypeOK, Breaker!States, Breaker!Places, Breaker!Transitions
<1>1. ASSUME NEW to \in Breaker!States, Breaker!SetState(to)
      PROVE  /\ state' \in Breaker!States /\ reported' \in Breaker!States
             /\ pending' = pending
    BY <1>1 DEF Breaker!SetState
<1>2. CASE Breaker!ExecuteClosed(Consumer) \/ Breaker!ExecuteProbe(Consumer)
    BY <1>1, <1>2
    DEF Breaker!ExecuteClosed, Breaker!ExecuteProbe, Breaker!EnterCall, Breaker!breaker,
        Breaker!callbacks
<1>3. CASE Breaker!ExecuteReject(Consumer)
    BY <1>3 DEF Breaker!ExecuteReject, Breaker!breaker, Breaker!callbacks
<1>4. CASE Breaker!ClosedOk(Consumer) \/ Breaker!ProbeOk(Consumer)
    BY <1>1, <1>4
    DEF Breaker!ClosedOk, Breaker!ProbeOk, Breaker!LeaveCall, Breaker!callbacks
<1>5. CASE Breaker!ClosedFail(Consumer) \/ Breaker!ProbeFail(Consumer)
    <2>1. /\ state' \in Breaker!States /\ reported' \in Breaker!States
          /\ pending' = pending
        BY <1>1, <1>5 DEF Breaker!ClosedFail, Breaker!ProbeFail, Breaker!callbacks
    <2>2. failures' \in Nat /\ lastFailure' \in Nat /\ now' = now
        BY <1>5 DEF Breaker!ClosedFail, Breaker!ProbeFail, Breaker!LeaveCall
    <2>3. /\ pc' \in [{Consumer} -> Breaker!Places]
          /\ started' \in [{Consumer} -> Nat]
        BY <1>5 DEF Breaker!ClosedFail, Breaker!ProbeFail, Breaker!LeaveCall
    <2>4. QED
        BY <2>1, <2>2, <2>3
<1>6. QED
    BY <1>2, <1>3, <1>4, <1>5 DEF BreakerStep

(* Every step does one thing to decided, to the process, to the breaker    *)
(* and to the streak of failures.                                          *)
LEMMA RestStep ==
    ASSUME DecidedInv, SuppressInv, RestTypeOK, [Next]_vars
    PROVE  RestTypeOK'
<1>a. now \in Nat /\ streakEnd \in 0 .. now /\ MaxFaults \in Nat
    BY AlertManagerAssumption DEF SuppressInv, RestTypeOK
<1>1. stage' \in Stages
    BY DEF RestTypeOK, Stages, Publishing, Next, Main, HandleStep, RejectUndecodable, Suppress,
        Admit, Throttle, TakeToken, BreakerRejects, BeginPublish, PublishOk, PublishFail, Decide,
        Proceed, Poll, EndLoop, Leave, Commit, Stop, Crash, Restart, MemoryLost, OnlyLoop, vars,
        Refilling, Tick
<1>2. decided' \subseteq Records
    <2>1. CASE Decide
        BY <2>1, InHandIsRecord DEF Decide, HandlerReturns, DecidedInv, RestTypeOK
    <2>2. CASE decided' = decided
        BY <2>2 DEF RestTypeOK
    <2>3. QED
        BY <2>1, <2>2
        DEF Next, Main, HandleStep, RejectUndecodable, Suppress, Admit, Throttle, TakeToken,
            BreakerRejects, BeginPublish, PublishOk, PublishFail, Proceed, Poll, EndLoop, Leave,
            Commit, Stop, Crash, Restart, MemoryLost, OnlyLoop, histories, vars, Refilling, Tick
<1>3. ctxDone' \in BOOLEAN /\ faults' \in 0 .. MaxFaults
    <2>1. CASE UNCHANGED faults
        BY <2>1
        DEF RestTypeOK, Next, Main, HandleStep, RejectUndecodable, Suppress, Admit, Throttle,
            TakeToken, BreakerRejects, BeginPublish, PublishOk, PublishFail, Poll, EndLoop, Leave,
            Commit, Stop, Crash, Restart, processVars, vars, Refilling, Tick
    <2>2. CASE EndLoop \/ Stop \/ Crash
        <3>1. faults' = faults \/ (faults < MaxFaults /\ faults' = faults + 1)
            BY <2>2 DEF EndLoop, Stop, Crash, Fault
        <3>2. faults' \in 0 .. MaxFaults
            BY <1>a, <3>1 DEF RestTypeOK
        <3>3. ctxDone' \in BOOLEAN
            BY <2>2 DEF RestTypeOK, EndLoop, Stop, Crash
        <3>4. QED
            BY <3>2, <3>3
    <2>3. QED
        BY <2>1, <2>2
        DEF Next, Main, HandleStep, RejectUndecodable, Suppress, Admit, Throttle, TakeToken,
            BreakerRejects, BeginPublish, PublishOk, PublishFail, Poll, Leave, Commit, Restart,
            processVars, vars, Refilling, Tick
<1>4. Breaker!TypeOK' /\ streak' \in Nat /\ streakEnd' \in 0 .. now'
    <2>1. CASE BreakerStep /\ UNCHANGED <<streak, streakEnd>>
        BY <2>1, BreakerTypes DEF RestTypeOK
    <2>2. CASE BreakerStep /\ streak' = 0 /\ UNCHANGED streakEnd
        BY <2>2, BreakerTypes DEF RestTypeOK
    <2>3. CASE BreakerStep /\ streak' = streak + 1 /\ streakEnd' = now
        BY <1>a, <2>3, BreakerTypes DEF RestTypeOK
    <2>4. CASE UNCHANGED <<breakerVars, streak, streakEnd>>
        BY <2>4 DEF RestTypeOK, breakerVars, Breaker!TypeOK
    <2>5. CASE Tick
        <3>1. now' = now + 1 /\ UNCHANGED <<state, failures, lastFailure, pc, started,
                                            pending, reported, streak, streakEnd>>
            BY <2>5 DEF Tick, Breaker!Tick, Breaker!breaker, Breaker!callbacks
        <3>2. now' \in Nat /\ streakEnd' \in 0 .. now'
            BY <1>a, <3>1
        <3>3. QED
            BY <3>1, <3>2 DEF RestTypeOK, Breaker!TypeOK
    <2>6. CASE MemoryLost
        BY <1>a, <2>6
        DEF RestTypeOK, MemoryLost, Breaker!TypeOK, Breaker!States, Breaker!Places
    <2>7. QED
        BY <2>1, <2>2, <2>3, <2>4, <2>5, <2>6
        DEF Next, Main, HandleStep, RejectUndecodable, Suppress, Admit, Throttle, TakeToken,
            BreakerRejects, BeginPublish, PublishOk, PublishFail, BreakerStep, Poll, EndLoop, Leave,
            Commit, Stop, Crash, Restart, OnlyLoop, histories, vars, breakerVars, Refilling
<1>5. QED
    BY <1>1, <1>2, <1>3, <1>4 DEF RestTypeOK

(* Every variable of the process keeps its type, for any burst, window,    *)
(* threshold and alerts; the breaker's are those of its own module.        *)
THEOREM AlertManagerTypeCorrect == Spec => []TypeOK
<1> DEFINE AllInv == DecidedInv /\ RateInv /\ SuppressInv /\ RestTypeOK
<1>1. Init => AllInv
    <2> SUFFICES ASSUME Init PROVE AllInv
        OBVIOUS
    <2>1. DecidedInv
        BY ConsumerInitially DEF Init, DecidedInv, ConsumerInit
    <2>2. RateInv
        BY RateInitially
    <2>3. SuppressInv
        <3>1. now = 0 /\ DOMAIN seen = {} /\ forwarded = [k \in Keys |-> Never]
            BY DEF Init, Breaker!Init
        <3>2. QED
            BY <3>1, AlertManagerAssumption DEF SuppressInv, InWindow
    <2>4. RestTypeOK
        <3>1. Breaker!TypeOK
            BY DEF Init, Breaker!Init, Breaker!TypeOK, Breaker!States, Breaker!Places
        <3>2. streakEnd \in 0 .. now /\ now = 0 /\ faults \in 0 .. MaxFaults /\ streak \in Nat
            BY AlertManagerAssumption DEF Init, Breaker!Init
        <3>3. QED
            BY <3>1, <3>2 DEF Init, RestTypeOK, Stages
    <2>5. QED
        BY <2>1, <2>2, <2>3, <2>4
<1>2. AllInv /\ [Next]_vars => AllInv'
    BY DecidedStep, RateStep, SuppressStep, RestStep
<1>3. AllInv => TypeOK
    <2> SUFFICES ASSUME AllInv PROVE TypeOK
        OBVIOUS
    <2>1. now \in 0 .. MaxClock /\ MaxClock \in Nat
        BY AlertManagerAssumption DEF SuppressInv
    <2>2. forwarded \in [Keys -> 0 .. MaxClock + 1]
        BY <2>1 DEF SuppressInv, Never
    <2>3. QED
        BY <2>2 DEF TypeOK, DecidedInv, ConsumerInv, RateInv, SuppressInv, RestTypeOK
<1>4. QED
    BY <1>1, <1>2, <1>3, PTL DEF Spec

-----------------------------------------------------------------------------
(* Outages *)

(* The breaker has counted the failures since the last success, and is not *)
(* closed once there are enough of them.                                   *)
OutageInv ==
    /\ now \in Nat /\ failures \in Nat /\ lastFailure \in Nat
    /\ streak = failures /\ streakEnd = lastFailure
    /\ state = "closed" => failures < Threshold

LEMMA OutageInitially == Init => OutageInv
BY AlertManagerAssumption DEF Init, Breaker!Init, OutageInv

LEMMA OutageStep == ASSUME OutageInv, [Next]_vars PROVE OutageInv'
<1> USE DEF OutageInv
<1>a. Threshold \in Nat \ {0}
    BY AlertManagerAssumption
<1>1. CASE UNCHANGED <<state, failures, lastFailure, now, streak, streakEnd>>
    BY <1>1
<1>2. CASE BeginPublish
    BY <1>2 DEF BeginPublish, Breaker!ExecuteClosed, Breaker!ExecuteProbe, Breaker!SetState,
                Breaker!breaker
<1>3. CASE PublishOk
    BY <1>3, <1>a
    DEF PublishOk, Breaker!ClosedOk, Breaker!ProbeOk, Breaker!SetState, Breaker!LeaveCall
<1>4. CASE PublishFail
    BY <1>4, <1>a
    DEF PublishFail, Breaker!ClosedFail, Breaker!ProbeFail, Breaker!SetState, Breaker!LeaveCall
<1>5. CASE MemoryLost
    BY <1>5, <1>a DEF MemoryLost
<1>6. CASE Tick
    BY <1>6 DEF Tick, Breaker!Tick, Breaker!breaker
<1>7. CASE BreakerRejects
    BY <1>7 DEF BreakerRejects, Breaker!ExecuteReject, Breaker!breaker
<1>8. QED
    BY <1>1, <1>2, <1>3, <1>4, <1>5, <1>6, <1>7
    DEF Next, Main, HandleStep, RejectUndecodable, Suppress, Admit, Throttle, TakeToken, Poll,
        EndLoop, Leave, Commit, Stop, Crash, Restart, OnlyLoop, histories, breakerVars, vars,
        Refilling

(* An outage of NATS is met with Threshold publishes and then with one in  *)
(* each open period at most, however the publishes, the clock and restarts *)
(* interleave: breaker and consumer never disagree on what failed when.    *)
THEOREM OutagesAreSpared == Spec => OutageIsSpared
<1>1. OutageInv /\ [Next]_vars =>
        [streak >= Threshold /\ stage = "breaker" /\ stage' \in Publishing
         => now > streakEnd + Timeout]_vars
    <2> SUFFICES ASSUME OutageInv, [Next]_vars, streak >= Threshold,
                        stage = "breaker", stage' \in Publishing
                 PROVE  now > streakEnd + Timeout
        OBVIOUS
    <2>a. stage' # "dedup" /\ stage' # "limit" /\ stage' # stage
        BY DEF Publishing
    <2>1. BeginPublish
        BY <2>a
        DEF Next, Main, HandleStep, RejectUndecodable, Suppress, Admit, Throttle, TakeToken,
            BreakerRejects, PublishOk, PublishFail, Decide, Proceed, Poll, EndLoop, Leave, Commit,
            Stop, Crash, Restart, OnlyLoop, MemoryLost, vars, Refilling, Tick, At
    <2>2. failures >= Threshold /\ Threshold \in Nat /\ Timeout \in Nat
        BY AlertManagerAssumption DEF OutageInv
    <2>3. state # "closed"
        BY <2>2 DEF OutageInv
    <2>4. now - lastFailure > Timeout
        BY <2>1, <2>3 DEF BeginPublish, Breaker!ExecuteClosed, Breaker!ExecuteProbe,
                          Breaker!TimeoutElapsed
    <2>5. QED
        BY <2>2, <2>4 DEF OutageInv
<1>2. QED
    BY <1>1, OutageInitially, OutageStep, PTL DEF Spec, OutageIsSpared
=============================================================================
