-------------------------- MODULE ProcessorProofs --------------------------
(***************************************************************************)
(* What the processor guarantees for any number of workers, any channel    *)
(* and any incidents: offsets behind the handler, nothing lost by a        *)
(* process that lives, little by one that dies, and no second evaluation   *)
(* without a second delivery.                                              *)
(***************************************************************************)
EXTENDS Processor, FiniteSetTheorems, TLAPS

-----------------------------------------------------------------------------
(* The consume loop *)

(* The handler has a record in hand. *)
ConsumerInv == ConsumerTypeOK /\ OffsetsOrdered /\ (loop = "handle" => handled < fetched)

ConsumerStep ==
    \/ PollReturns \/ LoopReturns \/ HandlerReturns
    \/ AutoCommit \/ CloseAndExit \/ Die \/ Resume

LEMMA ConsumerInitially == ConsumerInit => ConsumerInv
BY RecordCountAssumption
DEF ConsumerInit, ConsumerInv, ConsumerTypeOK, OffsetsOrdered, LoopStates

(* Offsets keep their order in every step of the loop and its client. *)
LEMMA ConsumerKeeps ==
    ASSUME ConsumerInv, ConsumerStep \/ UNCHANGED consumerVars
    PROVE  ConsumerInv'
<1> USE RecordCountAssumption, ConsumerAssumption
    DEF ConsumerInv, ConsumerTypeOK, OffsetsOrdered, LoopStates
<1>1. CASE PollReturns
    BY <1>1 DEF PollReturns
<1>2. CASE LoopReturns
    BY <1>2 DEF LoopReturns
<1>3. CASE HandlerReturns
    BY <1>3 DEF HandlerReturns
<1>4. CASE AutoCommit
    BY <1>4 DEF AutoCommit
<1>5. CASE CloseAndExit
    BY <1>5 DEF CloseAndExit
<1>6. CASE Die
    BY <1>6 DEF Die
<1>7. CASE Resume
    BY <1>7 DEF Resume
<1>8. CASE UNCHANGED consumerVars
    BY <1>8 DEF consumerVars
<1>9. QED
    BY <1>1, <1>2, <1>3, <1>4, <1>5, <1>6, <1>7, <1>8 DEF ConsumerStep

(* The record in hand is a record. *)
LEMMA InHandIsRecord == ASSUME ConsumerInv, loop = "handle" PROVE Handling \in Records
BY RecordCountAssumption
DEF ConsumerInv, ConsumerTypeOK, Handling, Records

-----------------------------------------------------------------------------
(* The invariants of the pool and its process *)

(* A worker holds a record exactly while it works on one. *)
HandsInv == \A w \in Workers : hand[w] = 0 <=> stage[w] \in {"receive", "exited"}

Accounted == Settled \cup Held

(* As long as nobody stops or kills the process: what the handler returned *)
(* for is settled or held.                                                 *)
SteadyInv ==
    occurred \subseteq {"persist"} =>
        /\ ~ctxDone /\ ~closed /\ loop \in {"poll", "handle"}
        /\ 1 .. handled \subseteq Accounted

ProcessorInv == TypeOK /\ ConsumerInv /\ HandsInv /\ SteadyInv

-----------------------------------------------------------------------------
(* The pool *)

LEMMA EmptyChannel == <<>> \in Seq(Records) /\ Len(<<>>) <= BufferSize
<1>1. <<>> \in Seq(Records) /\ Len(<<>>) = 0
    OBVIOUS
<1>2. QED
    BY <1>1, PoolAssumption

LEMMA PoolInitially == ASSUME PoolInit PROVE PoolTypeOK /\ HandsInv
<1>1. workCh \in Seq(Records) /\ Len(workCh) <= BufferSize
    BY EmptyChannel DEF PoolInit
<1>2. evaluated \in [Records -> Nat]
    BY DEF PoolInit
<1>3. QED
    BY <1>1, <1>2 DEF PoolInit, PoolTypeOK, HandsInv, Stages

LEMMA PoolLostKeeps == ASSUME PoolTypeOK, PoolLost PROVE PoolTypeOK' /\ HandsInv'
BY EmptyChannel DEF PoolLost, PoolTypeOK, HandsInv, Stages, results

LEMMA SubmitKeeps ==
    ASSUME PoolTypeOK, HandsInv, NEW r \in Records, Submit(r)
    PROVE  PoolTypeOK' /\ HandsInv' /\ Accounted \cup {r} \subseteq Accounted'
<1> USE DEF Submit, results
<1>1. workCh' = Append(workCh, r) /\ workCh \in Seq(Records) /\ Len(workCh) < BufferSize
    BY DEF PoolTypeOK
<1>2. workCh' \in Seq(Records) /\ Len(workCh') <= BufferSize
    BY <1>1, PoolAssumption
<1>3. PoolTypeOK' /\ HandsInv'
    BY <1>2 DEF PoolTypeOK, HandsInv
<1>4. Queued \cup {r} \subseteq Queued'
    <2>1. ASSUME NEW i \in DOMAIN workCh PROVE i \in DOMAIN workCh' /\ workCh'[i] = workCh[i]
        BY <1>1, <2>1
    <2>2. Len(workCh) + 1 \in DOMAIN workCh' /\ workCh'[Len(workCh) + 1] = r
        BY <1>1
    <2>3. QED
        BY <2>1, <2>2 DEF Queued, ToSet
<1>5. QED
    BY <1>3, <1>4 DEF Accounted, Settled, Held, InHand

(* A received record goes from the channel into the worker's empty hand. *)
LEMMA ReceiveKeeps ==
    ASSUME PoolTypeOK, HandsInv, NEW w \in Workers, Receive(w)
    PROVE  PoolTypeOK' /\ HandsInv' /\ Accounted \subseteq Accounted'
<1> USE DEF Receive, results
<1>1. /\ workCh \in Seq(Records) /\ workCh # <<>>
      /\ hand \in [Workers -> Records \cup {0}] /\ stage \in [Workers -> Stages]
    BY DEF PoolTypeOK
<1>2. /\ Head(workCh) \in Records /\ Head(workCh) # 0
      /\ workCh' \in Seq(Records) /\ Len(workCh') <= Len(workCh)
    <2>1. /\ Head(workCh) \in Records /\ workCh' \in Seq(Records)
          /\ Len(workCh') = Len(workCh) - 1 /\ Len(workCh) \in Nat
        BY <1>1
    <2>2. QED
        BY <2>1, RecordCountAssumption DEF Records
<1>3. PoolTypeOK'
    BY <1>1, <1>2, PoolAssumption DEF PoolTypeOK, Stages
<1>4. HandsInv'
    BY <1>1, <1>2 DEF HandsInv
<1>5. Queued \subseteq Queued' \cup {Head(workCh)}
    <2>1. ASSUME NEW i \in DOMAIN workCh, i # 1
          PROVE  i - 1 \in DOMAIN workCh' /\ workCh'[i - 1] = workCh[i]
        BY <1>1, <2>1
    <2>2. workCh[1] = Head(workCh)
        BY <1>1
    <2>3. QED
        BY <2>1, <2>2, SMTT(30) DEF Queued, ToSet
<1>6. InHand \cup {Head(workCh)} \subseteq InHand'
    <2>1. hand[w] = 0
        BY DEF HandsInv
    <2>2. QED
        BY <1>1, <1>2, <2>1 DEF InHand
<1>7. QED
    BY <1>3, <1>4, <1>5, <1>6 DEF Accounted, Settled, Held

(* A step that empties a hand settles what was in it. *)
LEMMA WorkKeeps ==
    ASSUME TypeOK, HandsInv, NEW w \in Workers, Work(w)
    PROVE  PoolTypeOK' /\ HandsInv' /\ Accounted \subseteq Accounted'
<1>1. /\ PoolTypeOK
      /\ hand \in [Workers -> Records \cup {0}] /\ stage \in [Workers -> Stages]
      /\ evaluated \in [Records -> Nat]
    BY DEF TypeOK, PoolTypeOK
<1>2. CASE Receive(w)
    BY <1>1, <1>2, ReceiveKeeps
<1>3. CASE Exit(w)
    BY <1>1, <1>3
    DEF Exit, results, PoolTypeOK, HandsInv, Stages, Accounted, Settled, Held, Queued, InHand
<1>4. CASE Evaluate(w)
    <2>1. hand[w] \in Records
        BY <1>1, <1>4 DEF Evaluate, HandsInv
    <2>2. QED
        BY <1>1, <1>4, <2>1
        DEF Evaluate, PoolTypeOK, HandsInv, Stages, Accounted, Settled, Held, Queued, InHand
<1>5. ASSUME stage[w] \in {"evaluate", "persist"}, Release(w), UNCHANGED <<workCh, closed>>,
             evaluated' \in [Records -> Nat],
             \/ persisted' = persisted \cup {hand[w]} /\ failed' = failed
             \/ failed' = failed \cup {hand[w]} /\ persisted' = persisted
      PROVE  PoolTypeOK' /\ HandsInv' /\ Accounted \subseteq Accounted'
    <2>1. hand[w] \in Records
        BY <1>1, <1>5 DEF HandsInv
    <2>2. PoolTypeOK'
        BY <1>1, <1>5, <2>1 DEF PoolTypeOK, Release, Stages
    <2>3. HandsInv'
        BY <1>1, <1>5 DEF HandsInv, Release
    <2>4. InHand \subseteq InHand' \cup {hand[w]}
        BY <1>1, <1>5 DEF InHand, Release
    <2>5. Queued' = Queued
        BY <1>5 DEF Queued
    <2>6. QED
        BY <1>5, <2>2, <2>3, <2>4, <2>5 DEF Accounted, Settled, Held
<1>6. CASE EvaluateCancelled(w)
    <2>1. hand[w] \in Records
        BY <1>1, <1>6 DEF EvaluateCancelled, HandsInv
    <2>2. QED
        BY <1>1, <1>5, <1>6, <2>1 DEF EvaluateCancelled
<1>7. CASE PersistOk(w) \/ PersistFail(w)
    BY <1>1, <1>5, <1>7 DEF PersistOk, PersistFail
<1>8. QED
    BY <1>2, <1>3, <1>4, <1>6, <1>7 DEF Work

-----------------------------------------------------------------------------
(* The process *)

LEMMA ProcessorInitially == Init => ProcessorInv
<1> SUFFICES ASSUME Init PROVE ProcessorInv
    OBVIOUS
<1>1. PoolTypeOK /\ HandsInv /\ ConsumerInv
    BY PoolInitially, ConsumerInitially DEF Init
<1>2. TypeOK
    <2>1. faults \in 0 .. MaxFaults
        BY ProcessorAssumption DEF Init
    <2>2. QED
        BY <1>1, <2>1 DEF Init, TypeOK, ConsumerInv
<1>3. SteadyInv
    BY DEF Init, SteadyInv, ConsumerInit, PoolInit
<1>4. QED
    BY <1>1, <1>2, <1>3 DEF ProcessorInv

(* Each step of the process is a step of the loop and its client, or leaves *)
(* them alone.                                                             *)
LEMMA LoopStep == ASSUME ProcessorInv, [Next]_vars PROVE ConsumerInv'
<1>1. ConsumerStep \/ UNCHANGED consumerVars
    BY DEF Next, Main, Handle, Poll, EndLoop, SkipUndecodable, SubmitSends, SubmitCancelled,
           SubmitPanics, Leave, CloseWork, Commit, Stop, Crash, Restart, Work, ConsumerStep,
           CloseChannel, vars, consumerVars
<1>2. QED
    BY <1>1, ConsumerKeeps DEF ProcessorInv

LEMMA PoolStep == ASSUME ProcessorInv, [Next]_vars PROVE PoolTypeOK' /\ HandsInv'
<1>1. PoolTypeOK /\ HandsInv /\ ConsumerInv
    BY DEF ProcessorInv, TypeOK
<1>2. CASE UNCHANGED poolVars
    BY <1>1, <1>2 DEF poolVars, PoolTypeOK, HandsInv
<1>3. CASE PoolLost
    BY <1>1, <1>3, PoolLostKeeps
<1>4. CASE SubmitSends
    BY <1>1, <1>4, SubmitKeeps, InHandIsRecord DEF SubmitSends
<1>5. CASE CloseWork
    BY <1>1, <1>5 DEF CloseWork, CloseChannel, results, PoolTypeOK, HandsInv
<1>6. ASSUME NEW w \in Workers, Work(w) PROVE PoolTypeOK' /\ HandsInv'
    BY <1>1, <1>6, WorkKeeps DEF ProcessorInv
<1>7. QED
    BY <1>2, <1>3, <1>4, <1>5, <1>6
    DEF Next, Main, Handle, Poll, EndLoop, SkipUndecodable, SubmitCancelled, SubmitPanics,
        Leave, Commit, Stop, Crash, Restart, vars, poolVars

LEMMA ProcessStep == ASSUME ProcessorInv, [Next]_vars PROVE TypeOK'
<1> USE DEF Fault, NoFault, processVars
<1>1. /\ ctxDone \in BOOLEAN /\ panicked \in BOOLEAN
      /\ faults \in 0 .. MaxFaults /\ occurred \subseteq Faults
    BY DEF ProcessorInv, TypeOK
<1>2. /\ ctxDone' \in BOOLEAN /\ panicked' \in BOOLEAN
    BY <1>1
    DEF Next, Main, Handle, Poll, EndLoop, SkipUndecodable, SubmitSends, SubmitCancelled,
        SubmitPanics, Leave, CloseWork, Commit, Stop, Crash, Restart, Work, vars
<1>3. UNCHANGED <<faults, occurred>> \/ \E kind \in FaultKinds : Fault(kind)
    BY DEF Next, Main, Handle, Poll, EndLoop, SkipUndecodable, SubmitSends, SubmitCancelled,
           SubmitPanics, Leave, CloseWork, Commit, Stop, Crash, Restart, Work, vars, FaultKinds
<1>4. faults' \in 0 .. MaxFaults /\ occurred' \subseteq Faults
    BY <1>1, <1>3, ProcessorAssumption
<1>5. QED
    BY <1>2, <1>4, LoopStep, PoolStep DEF TypeOK, ConsumerInv

(* While nobody stops or kills the process, every record the handler       *)
(* returned for stays accounted for.                                       *)
LEMMA SteadyStep == ASSUME ProcessorInv, [Next]_vars PROVE SteadyInv'
<1> SUFFICES ASSUME occurred' \subseteq {"persist"}
             PROVE  /\ ~ctxDone' /\ ~closed' /\ loop' \in {"poll", "handle"}
                    /\ 1 .. handled' \subseteq Accounted'
    BY DEF SteadyInv
<1>a. /\ TypeOK /\ HandsInv /\ ConsumerInv
      /\ PoolTypeOK /\ handled \in Nat
    BY RecordCountAssumption DEF ProcessorInv, TypeOK, ConsumerTypeOK
<1>b. occurred \subseteq {"persist"}
    BY DEF Next, Main, Handle, Poll, EndLoop, SkipUndecodable, SubmitSends, SubmitCancelled,
           SubmitPanics, Leave, CloseWork, Commit, Stop, Crash, Restart, Work, vars,
           Fault, NoFault, processVars
<1>c. ~ctxDone /\ ~closed /\ loop \in {"poll", "handle"} /\ 1 .. handled \subseteq Accounted
    BY <1>b DEF ProcessorInv, SteadyInv
<1>1. CASE UNCHANGED <<loop, handled, ctxDone, poolVars>>
    BY <1>1, <1>c DEF poolVars, Accounted, Settled, Held, Queued, InHand
<1>2. CASE Poll \/ Commit
    BY <1>2, <1>c
    DEF Poll, Commit, PollReturns, AutoCommit, poolVars, processVars,
        Accounted, Settled, Held, Queued, InHand
<1>3. CASE SkipUndecodable
    <2>1. handled' = handled + 1 /\ handled + 1 \in Undecodable
        BY <1>3 DEF SkipUndecodable, HandlerReturns, Handling
    <2>2. Accounted' = Accounted
        BY <1>3 DEF SkipUndecodable, poolVars, Accounted, Settled, Held, Queued, InHand
    <2>3. QED
        BY <1>3, <1>a, <1>c, <2>1, <2>2
        DEF SkipUndecodable, HandlerReturns, poolVars, processVars, Accounted, Settled
<1>4. CASE SubmitSends
    <2>1. handled' = handled + 1 /\ Accounted \cup {handled + 1} \subseteq Accounted'
        BY <1>4, <1>a, SubmitKeeps, InHandIsRecord DEF SubmitSends, HandlerReturns, Handling
    <2>2. QED
        BY <1>4, <1>a, <1>c, <2>1
        DEF SubmitSends, Submit, HandlerReturns, processVars
<1>5. ASSUME NEW w \in Workers, Work(w)
      PROVE  /\ ~ctxDone' /\ ~closed' /\ loop' \in {"poll", "handle"}
             /\ 1 .. handled' \subseteq Accounted'
    <2>1. Accounted \subseteq Accounted'
        BY <1>5, <1>a, WorkKeeps
    <2>2. closed' = closed
        BY <1>5 DEF Work, Receive, Exit, Evaluate, EvaluateCancelled, PersistOk, PersistFail
    <2>3. QED
        BY <1>5, <1>c, <2>1, <2>2 DEF Work, consumerVars
<1>6. CASE EndLoop \/ Crash \/ Stop
    BY <1>6, <1>c DEF EndLoop, Crash, Stop, Fault
<1>7. CASE SubmitCancelled \/ SubmitPanics \/ CloseWork \/ Leave \/ Restart
    BY <1>7, <1>c DEF SubmitCancelled, SubmitPanics, CloseWork, Leave, Restart, CloseAndExit, Resume
<1>8. CASE UNCHANGED vars
    BY <1>1, <1>8 DEF vars, poolVars
<1>9. QED
    BY <1>2, <1>3, <1>4, <1>5, <1>6, <1>7, <1>8 DEF Next, Main, Handle

LEMMA ProcessorInvariant == Spec => []ProcessorInv
<1>1. ProcessorInv /\ [Next]_vars => ProcessorInv'
    BY LoopStep, PoolStep, ProcessStep, SteadyStep DEF ProcessorInv
<1>2. QED
    BY <1>1, ProcessorInitially, PTL DEF Spec

(* Loop, pool and process keep their types; the channel never outgrows its *)
(* buffer.                                                                 *)
THEOREM ProcessorTypeCorrect == Spec => []TypeOK
BY ProcessorInvariant, PTL DEF ProcessorInv

(* Through stops, crashes, fetch errors and restarts, no offset is         *)
(* committed for a record that was not handed to the pool.                 *)
THEOREM OffsetsStayOrdered == Spec => []OffsetsOrdered
BY ProcessorInvariant, PTL DEF ProcessorInv, ConsumerInv

(* A process that is neither stopped nor dies loses nothing, for any       *)
(* number of workers, any buffer, and whatever inserts fail.               *)
THEOREM BackpressureLosesNothing == Spec => []SteadyLosesNothing
<1>1. ProcessorInv => SteadyLosesNothing
    <2> SUFFICES ASSUME ProcessorInv, occurred \subseteq {"persist"} PROVE AtLeastOnce
        BY DEF SteadyLosesNothing
    <2>1. committed <= handled /\ committed \in Nat /\ handled \in Nat
        BY RecordCountAssumption
        DEF ProcessorInv, ConsumerInv, ConsumerTypeOK, OffsetsOrdered
    <2>2. 1 .. committed \subseteq 1 .. handled
        BY <2>1
    <2>3. QED
        BY <2>2 DEF ProcessorInv, SteadyInv, AtLeastOnce, CommittedRecords, Accounted
<1>2. QED
    BY <1>1, ProcessorInvariant, PTL

-----------------------------------------------------------------------------
(* A living process holds each record the handler returned for at most     *)
(* once, in the channel or in a hand; a dead one holds none.               *)
HeldOnce ==
    /\ Held \subseteq 1 .. handled
    /\ \A i, j \in DOMAIN workCh : workCh[i] = workCh[j] => i = j
    /\ \A v, w \in Workers : hand[v] = hand[w] /\ hand[v] # 0 => v = w
    /\ Queued \cap InHand = {}

Stopping == (closed => ctxDone) /\ (ctxDone => "stop" \in occurred)

DeadIsEmpty == loop = "gone" => Held = {} /\ ~closed

HeldInv == ProcessorInv /\ HeldOnce /\ Stopping /\ DeadIsEmpty

(* What the other steps do to the pool and to what the handler returned    *)
(* for.                                                                    *)
LEMMA PoolMoves ==
    ASSUME ProcessorInv, [Next]_vars
    PROVE  \/ UNCHANGED <<workCh, hand, stage, results>> /\ handled' >= handled
           \/ PoolLost /\ loop' = "gone" /\ handled' = handled
           \/ loop = "gone" /\ UNCHANGED poolVars
           \/ SubmitSends
           \/ \E w \in Workers : Work(w) /\ handled' = handled
<1>1. handled \in Nat
    BY RecordCountAssumption DEF ProcessorInv, TypeOK, ConsumerTypeOK
<1>2. CASE \/ Poll \/ EndLoop \/ SkipUndecodable \/ SubmitCancelled \/ CloseWork \/ Commit \/ Stop
           \/ UNCHANGED vars
    BY <1>1, <1>2
    DEF Poll, PollReturns, EndLoop, LoopReturns, SkipUndecodable, SubmitCancelled, HandlerReturns,
        CloseWork, CloseChannel, Commit, AutoCommit, Stop, vars, poolVars, results, consumerVars
<1>3. CASE SubmitPanics \/ Leave \/ Crash
    BY <1>3 DEF SubmitPanics, Leave, Crash, Die, CloseAndExit
<1>4. CASE Restart
    BY <1>4 DEF Restart, Resume
<1>5. ASSUME NEW w \in Workers, Work(w) PROVE Work(w) /\ handled' = handled
    BY <1>5 DEF Work, consumerVars
<1>6. QED
    BY <1>2, <1>3, <1>4, <1>5 DEF Next, Main, Handle

(* A sequence without repetitions, one element longer or shorter. *)
LEMMA AppendNew ==
    ASSUME NEW S, NEW s \in Seq(S), NEW x \in S,
           \A i, j \in DOMAIN s : s[i] = s[j] => i = j, x \notin ToSet(s)
    PROVE  /\ ToSet(Append(s, x)) = ToSet(s) \cup {x}
           /\ \A i, j \in DOMAIN Append(s, x) : Append(s, x)[i] = Append(s, x)[j] => i = j
<1> DEFINE t == Append(s, x)
<1>1. /\ DOMAIN t = 1 .. Len(s) + 1 /\ DOMAIN s = 1 .. Len(s) /\ Len(s) \in Nat
      /\ t[Len(s) + 1] = x /\ \A i \in 1 .. Len(s) : t[i] = s[i]
    OBVIOUS
<1> HIDE DEF t
<1>2. \A i \in DOMAIN t : i \in DOMAIN s \/ i = Len(s) + 1
    BY <1>1
<1>3. \A i \in DOMAIN s : s[i] # x
    BY DEF ToSet
<1>4. \A i, j \in DOMAIN t : t[i] = t[j] => i = j
    BY <1>1, <1>2, <1>3
<1>5. ToSet(t) = ToSet(s) \cup {x}
    BY <1>1, <1>2 DEF ToSet
<1>6. QED
    BY <1>4, <1>5 DEF t

LEMMA TailDistinct ==
    ASSUME NEW S, NEW s \in Seq(S), s # <<>>,
           \A i, j \in DOMAIN s : s[i] = s[j] => i = j
    PROVE  /\ ToSet(Tail(s)) = ToSet(s) \ {Head(s)} /\ Head(s) \in ToSet(s)
           /\ \A i, j \in DOMAIN Tail(s) : Tail(s)[i] = Tail(s)[j] => i = j
<1> DEFINE t == Tail(s)
<1>1. /\ DOMAIN t = 1 .. Len(s) - 1 /\ DOMAIN s = 1 .. Len(s) /\ Len(s) \in Nat /\ Len(s) >= 1
      /\ Head(s) = s[1] /\ \A i \in 1 .. Len(s) - 1 : t[i] = s[i + 1]
    OBVIOUS
<1> HIDE DEF t
<1>2. \A i, j \in DOMAIN t : t[i] = t[j] => i = j
    BY <1>1
<1>3. ASSUME NEW y \in ToSet(t) PROVE y \in ToSet(s) \ {Head(s)}
    <2>1. PICK i \in DOMAIN t : y = t[i]
        BY <1>3 DEF ToSet
    <2>2. i + 1 \in DOMAIN s /\ y = s[i + 1] /\ i + 1 # 1 /\ 1 \in DOMAIN s
        BY <1>1, <2>1
    <2>3. QED
        BY <1>1, <2>2 DEF ToSet
<1>4. ASSUME NEW y \in ToSet(s), y # Head(s) PROVE y \in ToSet(t)
    <2>1. PICK i \in DOMAIN s : y = s[i]
        BY <1>4 DEF ToSet
    <2>2. i - 1 \in DOMAIN t /\ y = t[i - 1]
        BY <1>1, <1>4, <2>1
    <2>3. QED
        BY <2>2 DEF ToSet
<1>5. Head(s) \in ToSet(s)
    BY <1>1 DEF ToSet
<1>6. QED
    BY <1>2, <1>3, <1>4, <1>5 DEF t

LEMMA InHandIs ==
    ASSUME NEW r
    PROVE  /\ r \in InHand <=> r # 0 /\ \E w \in Workers : hand[w] = r
           /\ r \in InHand' <=> r # 0 /\ \E w \in Workers : hand'[w] = r
BY DEF InHand

LEMMA HeldOnceStep == ASSUME HeldInv, [Next]_vars PROVE HeldOnce'
<1>1. /\ PoolTypeOK /\ HandsInv /\ HeldOnce /\ ConsumerInv
      /\ workCh \in Seq(Records) /\ hand \in [Workers -> Records \cup {0}]
      /\ handled \in Nat /\ handled' \in Nat
    <2>1. ConsumerInv'
        BY LoopStep DEF HeldInv
    <2>2. handled \in 0 .. RecordCount /\ handled' \in 0 .. RecordCount
        BY <2>1 DEF HeldInv, ProcessorInv, TypeOK, ConsumerTypeOK, ConsumerInv
    <2>3. QED
        BY <2>2, RecordCountAssumption DEF HeldInv, ProcessorInv, TypeOK, PoolTypeOK
<1>2. ASSUME UNCHANGED <<workCh, hand>>, handled' >= handled PROVE HeldOnce'
    <2>1. UNCHANGED <<Queued, InHand, Held>>
        BY <1>2 DEF Queued, InHand, Held
    <2>2. 1 .. handled \subseteq 1 .. handled'
        BY <1>1, <1>2
    <2>3. QED
        BY <1>1, <1>2, <2>1, <2>2 DEF HeldOnce
<1>3. ASSUME workCh' = <<>>, \A w \in Workers : hand'[w] = 0 PROVE HeldOnce'
    <2>1. DOMAIN workCh' = {} /\ Queued' = {}
        BY <1>3 DEF Queued, ToSet
    <2>2. InHand' = {}
        BY <1>3 DEF InHand
    <2>3. QED
        BY <1>3, <2>1, <2>2 DEF HeldOnce, Held
<1>4. CASE PoolLost
    BY <1>3, <1>4 DEF PoolLost
<1>5. CASE loop = "gone" /\ UNCHANGED poolVars
    <2>1. Held = {}
        BY <1>5 DEF HeldInv, DeadIsEmpty
    <2>2. UNCHANGED <<Queued, InHand, Held, workCh, hand>>
        BY <1>5 DEF Queued, InHand, Held, poolVars
    <2>3. QED
        BY <1>1, <2>1, <2>2 DEF HeldOnce
<1>6. CASE SubmitSends
    <2> DEFINE r == handled + 1
    <2>1. /\ r \in Records /\ workCh' = Append(workCh, r) /\ hand' = hand /\ handled' = r
        BY <1>1, <1>6, InHandIsRecord DEF SubmitSends, Submit, HandlerReturns, Handling
    <2>2. r \notin Held
        BY <1>1 DEF HeldOnce
    <2>3. /\ Queued' = Queued \cup {r} /\ InHand' = InHand
          /\ \A i, j \in DOMAIN workCh' : workCh'[i] = workCh'[j] => i = j
        BY <1>1, <2>1, <2>2, AppendNew DEF HeldOnce, Held, Queued, InHand
    <2>4. 1 .. handled \cup {r} \subseteq 1 .. handled'
        BY <1>1, <2>1
    <2>5. QED
        BY <1>1, <2>1, <2>2, <2>3, <2>4 DEF HeldOnce, Held
<1>7. ASSUME NEW w \in Workers, Receive(w), handled' = handled PROVE HeldOnce'
    <2> DEFINE r == Head(workCh)
    <2>1. /\ workCh # <<>> /\ workCh' = Tail(workCh) /\ hand' = [hand EXCEPT ![w] = r]
          /\ hand[w] = 0
        BY <1>1, <1>7 DEF Receive, HandsInv
    <2>2. /\ Queued' = Queued \ {r} /\ r \in Queued
          /\ \A i, j \in DOMAIN workCh' : workCh'[i] = workCh'[j] => i = j
        BY <1>1, <2>1, TailDistinct DEF HeldOnce, Queued
    <2>3. r \notin InHand
        BY <1>1, <2>2 DEF HeldOnce
    <2> HIDE DEF r
    <2>4. InHand' \subseteq InHand \cup {r}
        BY <1>1, <2>1, InHandIs
    <2>5. \A u, v \in Workers : hand'[u] = hand'[v] /\ hand'[u] # 0 => u = v
        BY <1>1, <2>1, <2>3, InHandIs DEF HeldOnce
    <2>6. QED
        BY <1>1, <1>7, <2>2, <2>3, <2>4, <2>5 DEF HeldOnce, Held
<1>8. ASSUME NEW w \in Workers, workCh' = workCh, handled' = handled,
             hand' = hand \/ hand' = [hand EXCEPT ![w] = 0]
      PROVE  HeldOnce'
    <2>1. InHand' \subseteq InHand /\ Queued' = Queued
        BY <1>1, <1>8, InHandIs DEF Queued
    <2>2. \A u, v \in Workers : hand'[u] = hand'[v] /\ hand'[u] # 0 => u = v
        BY <1>1, <1>8 DEF HeldOnce
    <2>3. QED
        BY <1>1, <1>8, <2>1, <2>2 DEF HeldOnce, Held
<1>9. ASSUME NEW w \in Workers, Work(w), handled' = handled PROVE HeldOnce'
    BY <1>7, <1>8, <1>9
    DEF Work, Exit, Evaluate, EvaluateCancelled, PersistOk, PersistFail, Release
<1>10. QED
    BY <1>2, <1>4, <1>5, <1>6, <1>9, PoolMoves DEF HeldInv, results

LEMMA StoppingStep == ASSUME HeldInv, [Next]_vars PROVE Stopping' /\ DeadIsEmpty'
<1> USE DEF Fault, NoFault, processVars
<1>1. Stopping /\ DeadIsEmpty /\ ProcessorInv
    BY DEF HeldInv
<1>2. CASE \/ Poll \/ EndLoop \/ SkipUndecodable \/ SubmitSends \/ SubmitCancelled
           \/ CloseWork \/ Commit \/ Stop \/ \E w \in Workers : Work(w)
    <2>1. Stopping'
        BY <1>1, <1>2
        DEF Poll, EndLoop, SkipUndecodable, SubmitSends, SubmitCancelled, Submit, CloseWork,
            CloseChannel, Commit, Stop, Work, Receive, Exit, Evaluate, EvaluateCancelled, PersistOk,
            PersistFail, Stopping, poolVars
    <2>2. loop' = "gone" => loop = "gone" /\ UNCHANGED <<workCh, hand, closed>>
        BY <1>2
        DEF Poll, PollReturns, EndLoop, LoopReturns, SkipUndecodable, SubmitSends, HandlerReturns,
            SubmitCancelled, CloseWork, CloseChannel, Commit, AutoCommit, Stop, Work, Alive,
            poolVars, consumerVars
    <2>3. QED
        BY <1>1, <2>1, <2>2 DEF DeadIsEmpty, Held, Queued, InHand
<1>3. CASE SubmitPanics \/ Leave \/ Crash
    <2>1. workCh' = <<>> /\ ~closed' /\ \A w \in Workers : hand'[w] = 0
        BY <1>3 DEF SubmitPanics, Leave, Crash, PoolLost
    <2>2. DOMAIN workCh' = {}
        BY <2>1
    <2>3. Held' = {}
        BY <2>1, <2>2 DEF Held, Queued, InHand, ToSet
    <2>4. QED
        BY <1>1, <1>3, <2>1, <2>3 DEF SubmitPanics, Leave, Crash, Stopping, DeadIsEmpty
<1>4. CASE Restart
    <2>1. loop' # "gone" /\ ~ctxDone' /\ closed' = closed /\ loop = "gone"
        BY <1>4 DEF Restart, Resume, poolVars
    <2>2. QED
        BY <1>1, <1>4, <2>1 DEF Stopping, DeadIsEmpty
<1>5. CASE UNCHANGED vars
    BY <1>1, <1>5 DEF vars, Stopping, DeadIsEmpty, Held, Queued, InHand
<1>6. QED
    BY <1>2, <1>3, <1>4, <1>5 DEF Next, Main, Handle

LEMMA HeldInvariant == Spec => []HeldInv
<1>1. Init => HeldInv
    <2> SUFFICES ASSUME Init PROVE HeldInv
        OBVIOUS
    <2>1. /\ DOMAIN workCh = {} /\ \A w \in Workers : hand[w] = 0
          /\ ~closed /\ ~ctxDone /\ loop = "poll"
        BY DEF Init, PoolInit, ConsumerInit
    <2>2. Queued = {} /\ InHand = {}
        BY <2>1 DEF Queued, InHand, ToSet
    <2>3. QED
        BY <2>1, <2>2, ProcessorInitially DEF HeldInv, HeldOnce, Held, Stopping, DeadIsEmpty
<1>2. HeldInv /\ [Next]_vars => HeldInv'
    BY HeldOnceStep, StoppingStep, LoopStep, PoolStep, ProcessStep, SteadyStep
    DEF HeldInv, ProcessorInv
<1>3. QED
    BY <1>1, <1>2, PTL DEF Spec

-----------------------------------------------------------------------------
(* Deliveries.  Every life of the process but the first has an incident    *)
(* of its own, which a life that is ending has already had.                *)
Quiet == occurred \subseteq {"persist"}
Ending == ctxDone \/ loop = "returned"
PastLives == IF Quiet THEN 0 ELSE IF Ending THEN faults - 1 ELSE faults

(* The rules have not yet seen what this life received or will receive. *)
Upcoming(r) ==
    \/ r > handled \/ r \in Queued
    \/ \E w \in Workers : hand[w] = r /\ stage[w] = "evaluate"

DeliveryInv ==
    \A r \in Records :
        IF loop = "gone" THEN evaluated[r] <= faults
        ELSE evaluated[r] <= PastLives + 1 /\ (Upcoming(r) => evaluated[r] <= PastLives)

Numbers ==
    /\ faults \in Nat /\ handled \in Nat
    /\ \A r \in Records : evaluated[r] \in Nat
    /\ loop = "gone" \/ Ending => ~Quiet
    /\ ~Quiet => faults >= 1
    /\ PastLives \in Nat /\ PastLives <= faults

(* An incident is counted when it happens. *)
Counted == Quiet \/ faults >= 1

LEMMA CountedStep == ASSUME ProcessorInv, Counted, [Next]_vars PROVE Counted'
<1>1. faults \in Nat
    BY ProcessorAssumption DEF ProcessorInv, TypeOK
<1>2. UNCHANGED <<faults, occurred>> \/ \E kind \in FaultKinds : Fault(kind)
    BY DEF Next, Main, Handle, Poll, EndLoop, SkipUndecodable, SubmitSends, SubmitCancelled,
           SubmitPanics, Leave, CloseWork, Commit, Stop, Crash, Restart, Work, vars, FaultKinds,
           NoFault, processVars
<1>3. faults' = faults \/ faults' = faults + 1
    BY <1>2 DEF Fault
<1>4. UNCHANGED <<faults, occurred>> \/ faults' >= 1
    BY <1>1, <1>2 DEF Fault
<1>5. QED
    BY <1>4 DEF Counted, Quiet

LEMMA NumbersHold == ProcessorInv /\ Counted => Numbers
<1> SUFFICES ASSUME ProcessorInv, Counted PROVE Numbers
    OBVIOUS
<1>1. /\ faults \in 0 .. MaxFaults /\ handled \in 0 .. RecordCount
      /\ evaluated \in [Records -> Nat]
    BY DEF ProcessorInv, TypeOK, ConsumerTypeOK, PoolTypeOK
<1>2. faults \in Nat /\ handled \in Nat
    BY <1>1, ProcessorAssumption, RecordCountAssumption
<1>3. loop = "gone" \/ Ending => ~Quiet
    BY DEF ProcessorInv, SteadyInv, Ending, Quiet
<1>4. PastLives = 0 \/ PastLives = faults \/ (faults >= 1 /\ PastLives = faults - 1)
    BY <1>3 DEF Counted, PastLives
<1>5. PastLives \in Nat /\ PastLives <= faults
    BY <1>2, <1>4
<1>6. QED
    BY <1>1, <1>2, <1>3, <1>5 DEF Numbers, Counted

(* The bound only grows while a life goes on. *)
LEMMA SameLife ==
    ASSUME DeliveryInv, Numbers, Numbers', loop # "gone", loop' # "gone",
           PastLives' >= PastLives, NEW r \in Records, evaluated'[r] = evaluated[r],
           Upcoming(r)' => Upcoming(r)
    PROVE  evaluated'[r] <= PastLives' + 1 /\ (Upcoming(r)' => evaluated'[r] <= PastLives')
<1>1. PastLives \in Nat /\ PastLives' \in Nat /\ evaluated[r] \in Nat
    BY DEF Numbers
<1>2. evaluated[r] <= PastLives + 1 /\ (Upcoming(r) => evaluated[r] <= PastLives)
    BY DEF DeliveryInv
<1>3. QED
    BY <1>1, <1>2

LEMMA LivesGrow ==
    ASSUME HeldInv, Numbers, Numbers', [Next]_vars, loop # "gone", loop' # "gone"
    PROVE  PastLives' >= PastLives
<1>1. \/ UNCHANGED <<faults, occurred, ctxDone>> /\ (loop' = "returned" => loop = "returned" \/ ctxDone)
      \/ occurred' = occurred \cup {"persist"} /\ faults' = faults + 1 /\ UNCHANGED <<ctxDone, loop>>
      \/ faults' = faults + 1 /\ "stop" \in occurred' /\ loop' = loop /\ ~ctxDone /\ ctxDone'
      \/ /\ faults' = faults + 1 /\ "fetch" \in occurred' /\ ctxDone' = ctxDone /\ ~ctxDone
         /\ loop = "poll" /\ loop' = "returned"
    BY DEF Next, Main, Handle, Poll, EndLoop, SkipUndecodable, SubmitSends, SubmitCancelled,
           SubmitPanics, Leave, CloseWork, Commit, Stop, Crash, Restart, Work, vars, Fault,
           NoFault, processVars, PollReturns, LoopReturns, HandlerReturns, AutoCommit,
           consumerVars, CloseAndExit, Die, Resume
<1>2. faults \in Nat /\ faults' \in Nat /\ (~Quiet => faults >= 1) /\ (~Quiet' => faults' >= 1)
    BY DEF Numbers
<1>3. CASE UNCHANGED <<faults, occurred, ctxDone>> /\ (loop' = "returned" => loop = "returned" \/ ctxDone)
    <2>1. (Quiet' <=> Quiet) /\ (Ending' => Ending)
        BY <1>3 DEF Quiet, Ending
    <2>2. QED
        BY <1>2, <1>3, <2>1 DEF PastLives
<1>4. CASE occurred' = occurred \cup {"persist"} /\ faults' = faults + 1 /\ UNCHANGED <<ctxDone, loop>>
    <2>1. (Quiet' <=> Quiet) /\ (Ending' <=> Ending)
        BY <1>4 DEF Quiet, Ending
    <2>2. QED
        BY <1>2, <1>4, <2>1 DEF PastLives
<1>5. CASE \/ faults' = faults + 1 /\ "stop" \in occurred' /\ loop' = loop /\ ~ctxDone /\ ctxDone'
           \/ /\ faults' = faults + 1 /\ "fetch" \in occurred' /\ ctxDone' = ctxDone /\ ~ctxDone
              /\ loop = "poll" /\ loop' = "returned"
    <2>1. ~Quiet' /\ faults' = faults + 1
        BY <1>5 DEF Quiet
    <2>2. QED
        BY <1>2, <2>1 DEF PastLives
<1>6. QED
    BY <1>1, <1>3, <1>4, <1>5

LEMMA DeliveryStep ==
    ASSUME HeldInv, Counted, DeliveryInv, [Next]_vars
    PROVE  DeliveryInv'
<1>1. /\ Numbers /\ Numbers' /\ ProcessorInv /\ HeldOnce /\ PoolTypeOK /\ HandsInv
      /\ workCh \in Seq(Records) /\ hand \in [Workers -> Records \cup {0}]
      /\ stage \in [Workers -> Stages] /\ evaluated \in [Records -> Nat]
    <2>1. ProcessorInv /\ ProcessorInv' /\ Counted'
        BY LoopStep, PoolStep, ProcessStep, SteadyStep, CountedStep DEF HeldInv, ProcessorInv
    <2>2. Numbers /\ Numbers'
        BY <2>1, NumbersHold, PTL
    <2>3. QED
        BY <2>1, <2>2 DEF HeldInv, ProcessorInv, TypeOK, PoolTypeOK
<1>2. SUFFICES ASSUME NEW r \in Records
      PROVE  IF loop' = "gone" THEN evaluated'[r] <= faults'
             ELSE evaluated'[r] <= PastLives' + 1 /\ (Upcoming(r)' => evaluated'[r] <= PastLives')
    BY DEF DeliveryInv
<1>3. PastLives \in Nat /\ PastLives' \in Nat
    BY <1>1 DEF Numbers
<1>4. IF loop = "gone" THEN evaluated[r] <= faults
      ELSE evaluated[r] <= PastLives + 1 /\ (Upcoming(r) => evaluated[r] <= PastLives)
    BY DEF DeliveryInv
<1>5. CASE evaluated'[r] = evaluated[r] /\ loop # "gone" /\ loop' # "gone"
           /\ (Upcoming(r)' => Upcoming(r))
    BY <1>1, <1>5, SameLife, LivesGrow
(* A life ends with the incident that ended it, or an earlier one. *)
<1>6. CASE loop' = "gone" /\ loop # "gone"
    <2>1. \/ Crash \/ (Leave /\ Ending) \/ (SubmitPanics /\ Ending)
        BY <1>6
        DEF Next, Main, Handle, Poll, PollReturns, EndLoop, LoopReturns, SkipUndecodable,
            SubmitSends, SubmitCancelled, HandlerReturns, SubmitPanics, Leave, CloseAndExit,
            CloseWork, Commit, AutoCommit, Stop, Restart, Resume, Work, vars, consumerVars,
            HeldInv, Stopping, Ending
    <2>2. evaluated' = evaluated
        BY <2>1 DEF Crash, Leave, SubmitPanics, PoolLost, results
    <2>3. CASE Crash
        <3>1. faults' = faults + 1
            BY <2>3 DEF Crash, Fault
        <3>2. PastLives <= faults /\ faults \in Nat /\ evaluated[r] \in Nat
            BY <1>1 DEF PastLives, Numbers
        <3>3. QED
            BY <1>3, <1>4, <1>6, <2>2, <3>1, <3>2
    <2>4. CASE (Leave \/ SubmitPanics) /\ Ending
        <3>1. faults' = faults
            BY <2>4 DEF Leave, SubmitPanics, processVars
        <3>2. PastLives = faults - 1 /\ faults \in Nat /\ evaluated[r] \in Nat
            BY <1>1, <2>4 DEF PastLives, Numbers
        <3>3. QED
            BY <1>3, <1>4, <1>6, <2>2, <3>1, <3>2
    <2>5. QED
        BY <2>1, <2>3, <2>4
<1>7. CASE loop = "gone"
    <2>1. UNCHANGED <<evaluated, faults, occurred>> /\ (loop' = "gone" \/ Restart)
        BY <1>7
        DEF Next, Main, Handle, Poll, PollReturns, EndLoop, LoopReturns, SkipUndecodable,
            SubmitSends, SubmitCancelled, HandlerReturns, SubmitPanics, Leave, CloseAndExit,
            CloseWork, Commit, AutoCommit, Stop, Crash, Die, Restart, Work, Alive, vars,
            consumerVars, poolVars, processVars
    <2>2. CASE loop' = "gone"
        BY <1>4, <1>7, <2>1, <2>2
    <2>3. CASE Restart
        <3>1. loop' # "gone" /\ ~Ending' /\ ~Quiet'
            BY <1>1, <1>7, <2>1, <2>3 DEF Restart, Resume, Ending, Quiet, Numbers
        <3>2. PastLives' = faults /\ evaluated[r] \in Nat /\ faults \in Nat
            BY <1>1, <2>1, <3>1 DEF PastLives, Numbers
        <3>3. QED
            BY <1>4, <1>7, <2>1, <3>1, <3>2
    <2>4. QED
        BY <2>1, <2>2, <2>3
<1>8. CASE UNCHANGED <<workCh, hand, stage, results>> /\ handled' >= handled
           /\ loop # "gone" /\ loop' # "gone"
    <2>1. r > handled' => r > handled
        BY <1>1, <1>8, RecordCountAssumption DEF Numbers, Records
    <2>2. (Upcoming(r)' => Upcoming(r)) /\ evaluated'[r] = evaluated[r]
        BY <1>8, <2>1 DEF Upcoming, Queued, results
    <2>3. QED
        BY <1>5, <1>8, <2>2
<1>9. CASE SubmitSends
    <2>1. /\ workCh' = Append(workCh, handled + 1) /\ handled' = handled + 1 /\ handled + 1 \in Records
          /\ UNCHANGED <<hand, stage, evaluated>> /\ loop # "gone" /\ loop' # "gone"
        BY <1>1, <1>9, InHandIsRecord
        DEF SubmitSends, Submit, HandlerReturns, Handling, results, ProcessorInv
    <2>2. Queued' = Queued \cup {handled + 1}
        <3>1. handled + 1 \notin Queued
            BY <1>1 DEF HeldOnce, Held, Numbers
        <3>2. \A i, j \in DOMAIN workCh : workCh[i] = workCh[j] => i = j
            BY <1>1 DEF HeldOnce
        <3>3. workCh \in Seq(Records)
            BY <1>1 DEF ProcessorInv, TypeOK
        <3>4. QED
            BY <2>1, <3>1, <3>2, <3>3, AppendNew DEF Queued
    <2>3. Upcoming(r)' => Upcoming(r)
        <3>1. (r > handled' => r > handled) /\ handled + 1 > handled
            BY <1>1, <2>1, RecordCountAssumption DEF Numbers, Records
        <3>2. QED
            BY <2>1, <2>2, <3>1 DEF Upcoming
    <2>4. QED
        BY <1>5, <2>1, <2>3
<1>10. ASSUME NEW w \in Workers, Work(w), handled' = handled
       PROVE  IF loop' = "gone" THEN evaluated'[r] <= faults'
              ELSE evaluated'[r] <= PastLives' + 1 /\ (Upcoming(r)' => evaluated'[r] <= PastLives')
    <2>1. loop # "gone" /\ loop' # "gone"
        BY <1>10 DEF Work, Alive, consumerVars
    <2>2. CASE Receive(w)
        <3>1. /\ Queued' = Queued \ {Head(workCh)} /\ Head(workCh) \in Queued
              /\ hand' = [hand EXCEPT ![w] = Head(workCh)] /\ evaluated' = evaluated
              /\ stage' = [stage EXCEPT ![w] = "evaluate"]
            BY <1>1, <2>2, TailDistinct DEF Receive, HeldOnce, Queued, results
        <3> DEFINE h == Head(workCh)
        <3> HIDE DEF h
        <3>2. Upcoming(r)' => Upcoming(r)
            BY <1>1, <1>10, <3>1 DEF Upcoming, h
        <3>3. QED
            BY <1>5, <2>1, <3>1, <3>2
    <2>3. CASE Exit(w) \/ PersistOk(w) \/ PersistFail(w)
        <3>1. evaluated' = evaluated /\ workCh' = workCh
              /\ \A v \in Workers : stage'[v] = "evaluate" => stage[v] = "evaluate" /\ hand'[v] = hand[v]
            BY <1>1, <2>3 DEF Exit, PersistOk, PersistFail, Release, results
        <3>2. Upcoming(r)' => Upcoming(r)
            BY <1>10, <3>1 DEF Upcoming, Queued
        <3>3. QED
            BY <1>5, <2>1, <3>1, <3>2
    <2>4. CASE Evaluate(w) \/ EvaluateCancelled(w)
        <3>1. /\ stage[w] = "evaluate" /\ hand[w] \in Records /\ workCh' = workCh
              /\ evaluated' = [evaluated EXCEPT ![hand[w]] = @ + 1]
              /\ stage'[w] # "evaluate"
              /\ \A v \in Workers : stage'[v] = "evaluate" => stage[v] = "evaluate" /\ hand'[v] = hand[v]
            BY <1>1, <2>4 DEF Evaluate, EvaluateCancelled, Release, HandsInv
        <3>2. CASE r # hand[w]
            <4>1. evaluated'[r] = evaluated[r]
                BY <1>1, <3>1, <3>2
            <4>2. Upcoming(r)' => Upcoming(r)
                BY <1>10, <3>1 DEF Upcoming, Queued
            <4>3. QED
                BY <1>5, <2>1, <4>1, <4>2
        <3>3. CASE r = hand[w]
            <4>1. evaluated'[r] = evaluated[r] + 1 /\ evaluated[r] <= PastLives /\ evaluated[r] \in Nat
                BY <1>1, <1>4, <2>1, <3>1, <3>3 DEF Upcoming, Numbers
            <4>2. r # 0 /\ r \in InHand
                BY <3>3, <3>1, InHandIs, RecordCountAssumption DEF Records
            <4>3. r \notin Queued /\ ~(r > handled)
                BY <1>1, <4>2 DEF HeldOnce, Held, Numbers
            <4>4. ~Upcoming(r)'
                BY <1>1, <1>10, <3>1, <3>3, <4>2, <4>3 DEF Upcoming, Queued, HeldOnce
            <4>5. QED
                BY <1>1, <1>3, <2>1, <4>1, <4>4, LivesGrow
        <3>4. QED
            BY <3>2, <3>3
    <2>5. QED
        BY <1>10, <2>2, <2>3, <2>4 DEF Work
<1>11. QED
    BY <1>1, <1>6, <1>7, <1>8, <1>9, <1>10, PoolMoves

(* The rules see a record at most once in each life of the process: what   *)
(* repeats an alert is a redelivery, never a failed insert, for any number *)
(* of workers and any buffer.                                              *)
THEOREM OncePerDelivery == Spec => []EvaluatedPerDelivery
<1>1. Init => Counted /\ DeliveryInv
    BY RecordCountAssumption
    DEF Init, ConsumerInit, PoolInit, Counted, DeliveryInv, Quiet, PastLives
<1>2. HeldInv /\ Counted /\ DeliveryInv /\ [Next]_vars => Counted' /\ DeliveryInv'
    BY CountedStep, DeliveryStep DEF HeldInv
<1>3. HeldInv /\ Counted /\ DeliveryInv => EvaluatedPerDelivery
    <2> SUFFICES ASSUME HeldInv, Counted, DeliveryInv, NEW r \in Records
                 PROVE  evaluated[r] <= 1 + Redeliveries
        BY DEF EvaluatedPerDelivery
    <2>1. Numbers
        BY NumbersHold DEF HeldInv
    <2>2. IF loop = "gone" THEN evaluated[r] <= faults ELSE evaluated[r] <= PastLives + 1
        BY DEF DeliveryInv
    <2>3. Redeliveries = IF Quiet THEN 0 ELSE faults
        BY DEF Redeliveries, Quiet
    <2>4. evaluated[r] \in Nat /\ faults \in Nat /\ (~Quiet => faults >= 1) /\ (loop = "gone" => ~Quiet)
        BY <2>1 DEF Numbers
    <2>5. QED
        BY <2>2, <2>3, <2>4 DEF PastLives
<1>4. QED
    BY <1>1, <1>2, <1>3, HeldInvariant, PTL DEF Spec

-----------------------------------------------------------------------------
(* Losses.  Each life of the process takes at most what fits into channel  *)
(* and hands with it.                                                      *)
Room == BufferSize + Cardinality(Workers)
Deaths == IF loop = "returned" THEN faults - 1 ELSE faults
Lost == CommittedRecords \ Accounted

(* While nobody stops the process: what it has not committed of what the   *)
(* handler returned for, a living process still accounts for.              *)
LossInv ==
    "stop" \notin occurred =>
        /\ loop # "gone" => committed + 1 .. handled \subseteq Accounted
        /\ Cardinality(Lost) <= Deaths * Room

LEMMA Multiples ==
    /\ \A m, n, k \in Nat : m <= n => m * k <= n * k
    /\ \A m, k \in Nat : (m + 1) * k = m * k + k /\ m * k \in Nat
<1>1. ASSUME NEW m \in Nat, NEW k \in Nat PROVE (m + 1) * k = m * k + k /\ m * k \in Nat
    OBVIOUS
<1>2. ASSUME NEW m \in Nat, NEW n \in Nat, NEW k \in Nat, m <= n PROVE m * k <= n * k
    <2>1. PICK d \in Nat : n = m + d
        BY <1>2
    <2>2. n * k = m * k + d * k /\ d * k \in Nat /\ m * k \in Nat
        BY <2>1
    <2>3. QED
        BY <2>2
<1>3. QED
    BY <1>1, <1>2

LEMMA NextInterval ==
    ASSUME NEW c \in Nat, NEW d \in Nat, NEW h \in Nat, NEW k \in Nat,
           d >= c, k = h \/ k = h + 1, NEW x \in d + 1 .. k
    PROVE  x \in c + 1 .. h \/ (x = k /\ k = h + 1)
OBVIOUS

LEMMA IntervalSize ==
    ASSUME NEW n \in Nat PROVE IsFiniteSet(1 .. n) /\ Cardinality(1 .. n) <= n
<1>1. 1 \in Int /\ n \in Int
    OBVIOUS
<1>2. IsFiniteSet(1 .. n) /\ Cardinality(1 .. n) = IF 1 > n THEN 0 ELSE n - 1 + 1
    BY <1>1, FS_Interval
<1>3. (IF 1 > n THEN 0 ELSE n - 1 + 1) <= n
    OBVIOUS
<1>4. QED
    BY <1>2, <1>3

(* Channel and hands have room for no more than that. *)
LEMMA HeldFits ==
    ASSUME PoolTypeOK
    PROVE  IsFiniteSet(Held) /\ Cardinality(Held) <= Room /\ Room \in Nat
<1>1. /\ workCh \in Seq(Records) /\ Len(workCh) <= BufferSize /\ Len(workCh) \in Nat
      /\ hand \in [Workers -> Records \cup {0}] /\ BufferSize \in Nat /\ IsFiniteSet(Workers)
    BY PoolAssumption DEF PoolTypeOK
<1>2. IsFiniteSet(Queued) /\ Cardinality(Queued) <= Len(workCh)
    <2>1. workCh \in Surjection(1 .. Len(workCh), Queued)
        <3>1. workCh \in [1 .. Len(workCh) -> Queued]
            BY <1>1 DEF Queued, ToSet
        <3>2. \A r \in Queued : \E i \in 1 .. Len(workCh) : workCh[i] = r
            BY <1>1 DEF Queued, ToSet
        <3>3. QED
            BY <3>1, <3>2 DEF Surjection
    <2>2. IsFiniteSet(1 .. Len(workCh)) /\ Cardinality(1 .. Len(workCh)) <= Len(workCh)
        BY <1>1, IntervalSize
    <2>3. IsFiniteSet(Queued) /\ Cardinality(Queued) <= Cardinality(1 .. Len(workCh))
        BY <2>1, <2>2, FS_Surjection
    <2>4. Cardinality(Queued) \in Nat /\ Cardinality(1 .. Len(workCh)) \in Nat
        BY <2>2, <2>3, FS_CardinalityType
    <2>5. QED
        BY <1>1, <2>2, <2>3, <2>4
<1> DEFINE hands == {hand[w] : w \in Workers}
<1>3. IsFiniteSet(hands) /\ Cardinality(hands) <= Cardinality(Workers)
    <2>1. hand \in Surjection(Workers, hands)
        BY <1>1 DEF Surjection
    <2>2. QED
        BY <1>1, <2>1, FS_Surjection
<1>4. IsFiniteSet(InHand) /\ Cardinality(InHand) <= Cardinality(hands)
    <2>1. InHand \subseteq hands
        BY DEF InHand
    <2>2. QED
        BY <1>3, <2>1, FS_Subset
<1> HIDE DEF hands
<1>5. /\ IsFiniteSet(Held) /\ IsFiniteSet(Queued \cap InHand)
      /\ Cardinality(Held) = Cardinality(Queued) + Cardinality(InHand) - Cardinality(Queued \cap InHand)
    BY <1>2, <1>4, FS_Union, FS_Intersection DEF Held
<1>6. /\ Cardinality(Held) \in Nat /\ Cardinality(Queued) \in Nat /\ Cardinality(InHand) \in Nat
      /\ Cardinality(Queued \cap InHand) \in Nat /\ Cardinality(hands) \in Nat
      /\ Cardinality(Workers) \in Nat
    BY <1>1, <1>2, <1>3, <1>4, <1>5, FS_CardinalityType
<1>7. QED
    BY <1>1, <1>2, <1>3, <1>4, <1>5, <1>6 DEF Room

LostFinite == IsFiniteSet(Lost) /\ Cardinality(Lost) \in Nat

LEMMA LostIsFinite == ConsumerTypeOK => LostFinite
<1> SUFFICES ASSUME ConsumerTypeOK PROVE LostFinite
    OBVIOUS
<1>1. IsFiniteSet(CommittedRecords)
    BY RecordCountAssumption, FS_Interval DEF ConsumerTypeOK, CommittedRecords
<1>2. IsFiniteSet(Lost)
    BY <1>1, FS_Subset DEF Lost
<1>3. QED
    BY <1>2, FS_CardinalityType DEF LostFinite

(* An ended loop has had its incident. *)
DeathsCounted == faults \in Nat /\ (loop = "returned" => faults >= 1) /\ Deaths \in Nat /\ Deaths <= faults

LEMMA DeathsAreCounted == ProcessorInv /\ Counted => DeathsCounted
<1> SUFFICES ASSUME ProcessorInv, Counted PROVE DeathsCounted
    OBVIOUS
<1>1. faults \in Nat /\ (loop = "returned" => faults >= 1)
    BY NumbersHold DEF Numbers, Ending
<1>2. QED
    BY <1>1 DEF DeathsCounted, Deaths

(* What a life's step adds to the losses, if nobody stopped the process. *)
LivesOn ==
    /\ loop # "gone" /\ loop' # "gone" /\ Accounted \subseteq Accounted'
    /\ committed' >= committed /\ committed' <= handled
    /\ \/ handled' = handled
       \/ handled' = handled + 1 /\ handled' \in Accounted'
    /\ Deaths' >= Deaths
LifeEnds ==
    /\ loop # "gone" /\ loop' = "gone" /\ Accounted \subseteq Accounted' \cup Held
    /\ committed' >= committed /\ committed' <= handled
    /\ Deaths' >= Deaths + 1
Down ==
    /\ loop = "gone" /\ UNCHANGED <<committed, Accounted>> /\ Deaths' = Deaths
    /\ loop' = "gone" \/ handled' = committed'

LEMMA LifeView ==
    ASSUME HeldInv, Counted, [Next]_vars, "stop" \notin occurred'
    PROVE  "stop" \notin occurred /\ (LivesOn \/ LifeEnds \/ Down)
<1>1. /\ ProcessorInv /\ ConsumerInv /\ PoolTypeOK /\ HandsInv /\ Stopping /\ TypeOK
      /\ DeathsCounted /\ mark \in Nat /\ committed \in Nat /\ handled \in Nat
      /\ committed <= mark /\ mark <= handled
    BY RecordCountAssumption, DeathsAreCounted
    DEF HeldInv, ProcessorInv, TypeOK, ConsumerInv, ConsumerTypeOK, OffsetsOrdered
<1>2. "stop" \notin occurred
    <2>1. UNCHANGED occurred \/ \E kind : Fault(kind)
        BY DEF Next, Main, Handle, Poll, EndLoop, SkipUndecodable, SubmitSends, SubmitCancelled,
               SubmitPanics, Leave, CloseWork, Commit, Stop, Crash, Restart, Work, vars,
               NoFault, processVars
    <2>2. QED
        BY <2>1 DEF Fault
<1> SUFFICES LivesOn \/ LifeEnds \/ Down
    BY <1>2
<1>3. ~ctxDone /\ ~closed
    BY <1>1, <1>2 DEF Stopping
<1>4. UNCHANGED poolVars => Accounted' = Accounted
    BY DEF poolVars, Accounted, Settled, Held, Queued, InHand
<1>5. CASE UNCHANGED vars
    BY <1>1, <1>4, <1>5 DEF vars, poolVars, LivesOn, Down, Deaths, DeathsCounted
<1>6. CASE Poll \/ Commit
    <2>1. UNCHANGED <<handled, faults>> /\ UNCHANGED poolVars
          /\ committed' \in {committed, mark} /\ loop # "gone" /\ loop' # "gone"
          /\ (loop' = "returned" <=> loop = "returned")
        BY <1>6 DEF Poll, PollReturns, Commit, AutoCommit, processVars
    <2>2. Deaths' = Deaths
        BY <2>1 DEF Deaths
    <2>3. committed' >= committed /\ committed' <= handled /\ Deaths' >= Deaths
        BY <1>1, <2>1, <2>2 DEF DeathsCounted
    <2>4. QED
        BY <1>4, <2>1, <2>3 DEF LivesOn
<1>7. CASE EndLoop
    <2>1. /\ loop = "poll" /\ loop' = "returned" /\ faults' = faults + 1
          /\ UNCHANGED <<handled, committed>> /\ UNCHANGED poolVars
        BY <1>3, <1>7 DEF EndLoop, LoopReturns, Fault
    <2>2. committed' >= committed /\ committed' <= handled /\ Deaths' >= Deaths
        BY <1>1, <2>1 DEF Deaths, DeathsCounted
    <2>3. QED
        BY <1>4, <2>1, <2>2 DEF LivesOn
<1>8. CASE SkipUndecodable \/ SubmitSends
    <2>1. /\ loop = "handle" /\ loop' \in {"poll", "handle"} /\ UNCHANGED <<faults, committed>>
          /\ handled' = handled + 1
        BY <1>8 DEF SkipUndecodable, SubmitSends, HandlerReturns, processVars
    <2>2. Accounted \subseteq Accounted' /\ handled + 1 \in Accounted'
        <3>1. CASE SkipUndecodable
            BY <1>4, <3>1 DEF SkipUndecodable, Handling, Accounted, Settled
        <3>2. CASE SubmitSends
            BY <1>1, <3>2, SubmitKeeps, InHandIsRecord DEF SubmitSends, Handling
        <3>3. QED
            BY <1>8, <3>1, <3>2
    <2>3. committed' >= committed /\ committed' <= handled /\ Deaths' >= Deaths
        BY <1>1, <2>1 DEF Deaths, DeathsCounted
    <2>4. QED
        BY <2>1, <2>2, <2>3 DEF LivesOn
<1>9. ~SubmitCancelled /\ ~SubmitPanics /\ ~CloseWork /\ ~Stop
    BY <1>3 DEF SubmitCancelled, SubmitPanics, CloseWork, Stop, Fault
<1>10. ASSUME NEW w \in Workers, Work(w) PROVE LivesOn
    <2>1. Accounted \subseteq Accounted'
        BY <1>1, <1>10, WorkKeeps
    <2>2. UNCHANGED <<loop, committed, handled>> /\ loop # "gone"
        BY <1>10 DEF Work, Alive, consumerVars
    <2>3. faults' = faults \/ faults' = faults + 1
        BY <1>10 DEF Work, NoFault, Fault
    <2>4. committed' >= committed /\ committed' <= handled /\ Deaths' >= Deaths
        BY <1>1, <2>2, <2>3 DEF Deaths, DeathsCounted
    <2>5. QED
        BY <2>1, <2>2, <2>4 DEF LivesOn
<1>11. CASE Leave \/ Crash
    <2>1. /\ loop # "gone" /\ loop' = "gone" /\ handled' = handled
          /\ committed' \in {committed, mark} /\ PoolLost
        BY <1>11 DEF Leave, CloseAndExit, Crash, Die
    <2>2. Accounted \subseteq Accounted' \cup Held
        BY <2>1 DEF PoolLost, results, Accounted, Settled
    <2>3. Deaths' >= Deaths + 1
        <3>1. CASE Leave
            <4>1. loop = "returned" /\ faults' = faults
                BY <3>1 DEF Leave, CloseAndExit, processVars
            <4>2. QED
                BY <1>1, <2>1, <4>1 DEF Deaths, DeathsCounted
        <3>2. CASE Crash
            <4>1. faults' = faults + 1
                BY <3>2 DEF Crash, Fault
            <4>2. QED
                BY <1>1, <2>1, <4>1 DEF Deaths, DeathsCounted
        <3>3. QED
            BY <1>11, <3>1, <3>2
    <2>4. committed' >= committed /\ committed' <= handled
        BY <1>1, <2>1
    <2>5. QED
        BY <2>1, <2>2, <2>3, <2>4 DEF LifeEnds
<1>12. CASE Restart
    <2>1. /\ loop = "gone" /\ loop' = "poll" /\ UNCHANGED <<committed, faults>>
          /\ handled' = committed' /\ UNCHANGED poolVars
        BY <1>12 DEF Restart, Resume
    <2>2. Deaths' = Deaths
        BY <2>1 DEF Deaths
    <2>3. Accounted' = Accounted
        BY <1>4, <2>1
    <2>4. QED
        BY <2>1, <2>2, <2>3 DEF Down
<1>13. QED
    BY <1>5, <1>6, <1>7, <1>8, <1>9, <1>10, <1>11, <1>12 DEF Next, Main, Handle

LEMMA LossStep ==
    ASSUME HeldInv, Counted, LossInv, [Next]_vars
    PROVE  LossInv'
<1> SUFFICES ASSUME "stop" \notin occurred'
             PROVE  /\ loop' # "gone" => committed' + 1 .. handled' \subseteq Accounted'
                    /\ Cardinality(Lost') <= Deaths' * Room
    BY DEF LossInv
<1>1. "stop" \notin occurred /\ (LivesOn \/ LifeEnds \/ Down)
    BY LifeView
<1>2. /\ loop # "gone" => committed + 1 .. handled \subseteq Accounted
      /\ Cardinality(Lost) <= Deaths * Room
    BY <1>1 DEF LossInv
<1>3. /\ PoolTypeOK /\ DeathsCounted /\ DeathsCounted' /\ ConsumerTypeOK /\ ConsumerTypeOK'
      /\ committed \in Nat /\ committed' \in Nat /\ handled \in Nat /\ handled' \in Nat
    <2>1. ProcessorInv /\ ProcessorInv' /\ Counted'
        BY LoopStep, PoolStep, ProcessStep, SteadyStep, CountedStep DEF HeldInv, ProcessorInv
    <2>2. DeathsCounted /\ DeathsCounted'
        BY <2>1, DeathsAreCounted, PTL
    <2>3. ConsumerTypeOK /\ ConsumerTypeOK' /\ PoolTypeOK
        BY <2>1 DEF ProcessorInv, TypeOK
    <2>4. QED
        BY <2>2, <2>3, RecordCountAssumption DEF ConsumerTypeOK
<1>4. /\ IsFiniteSet(Lost) /\ Cardinality(Lost) \in Nat
      /\ IsFiniteSet(Lost') /\ Cardinality(Lost') \in Nat
    <2>1. LostFinite /\ LostFinite'
        BY <1>3, LostIsFinite, PTL
    <2>2. QED
        BY <2>1 DEF LostFinite
<1>5. IsFiniteSet(Held) /\ Cardinality(Held) <= Room /\ Room \in Nat
    BY <1>3, HeldFits
<1>6. /\ Deaths \in Nat /\ Deaths' \in Nat /\ Deaths * Room \in Nat /\ Deaths' * Room \in Nat
    <2>1. Deaths \in Nat /\ Deaths' \in Nat
        BY <1>3 DEF DeathsCounted
    <2>2. QED
        BY <1>5, <2>1, Multiples
(* A record committed by this step was handled and is accounted for. *)
<1>7. ASSUME loop # "gone", committed' >= committed, committed' <= handled,
             NEW x \in CommittedRecords', x \notin Accounted
      PROVE  x \in Lost
    BY <1>2, <1>3, <1>7 DEF CommittedRecords, Lost
<1>8. CASE LivesOn
    <2>1. Lost' \subseteq Lost
        BY <1>7, <1>8 DEF LivesOn, Lost
    <2>2. Cardinality(Lost') <= Cardinality(Lost)
        BY <1>4, <2>1, FS_Subset
    <2>3. Deaths * Room <= Deaths' * Room
        BY <1>5, <1>6, <1>8, Multiples DEF LivesOn
    <2>4. committed' + 1 .. handled' \subseteq Accounted'
        <3>1. ASSUME NEW x \in committed' + 1 .. handled' PROVE x \in Accounted'
            <4>1. /\ committed' >= committed /\ loop # "gone" /\ Accounted \subseteq Accounted'
                  /\ handled' = handled \/ (handled' = handled + 1 /\ handled' \in Accounted')
                BY <1>8 DEF LivesOn
            <4>2. /\ committed \in Nat /\ committed' \in Nat /\ handled \in Nat /\ handled' \in Nat
                  /\ committed' >= committed /\ (handled' = handled \/ handled' = handled + 1)
                BY <1>3, <4>1
            <4>3. x \in committed + 1 .. handled \/ (x = handled' /\ handled' = handled + 1)
                BY <3>1, <4>2, NextInterval
            <4>4. handled' = handled + 1 => handled' \in Accounted'
                <5>1. handled' # handled + 1 \/ handled' # handled
                    BY <1>3
                <5>2. QED
                    BY <4>1, <5>1
            <4>5. QED
                BY <1>2, <4>1, <4>3, <4>4
        <3>2. QED
            BY <3>1
    <2>5. QED
        BY <1>2, <1>4, <1>6, <2>2, <2>3, <2>4
<1>9. CASE LifeEnds
    <2>1. Lost' \subseteq Lost \cup Held
        BY <1>7, <1>9 DEF LifeEnds, Lost
    <2>2. /\ IsFiniteSet(Lost \cup Held) /\ IsFiniteSet(Lost \cap Held)
          /\ Cardinality(Lost \cup Held) = Cardinality(Lost) + Cardinality(Held) - Cardinality(Lost \cap Held)
        BY <1>4, <1>5, FS_Union, FS_Intersection
    <2>3. Cardinality(Lost') <= Cardinality(Lost \cup Held)
        BY <2>1, <2>2, FS_Subset
    <2>4. /\ Cardinality(Lost \cup Held) \in Nat /\ Cardinality(Lost \cap Held) \in Nat
          /\ Cardinality(Held) \in Nat
        BY <1>5, <2>2, FS_CardinalityType
    <2>5. Cardinality(Lost') <= Cardinality(Lost) + Cardinality(Held)
        BY <1>4, <2>2, <2>3, <2>4
    <2>6. Cardinality(Lost') <= Deaths * Room + Room
        BY <1>2, <1>4, <1>5, <1>6, <2>4, <2>5
    <2>7. (Deaths + 1) * Room <= Deaths' * Room /\ (Deaths + 1) * Room = Deaths * Room + Room
        <3>1. Deaths + 1 <= Deaths' /\ Deaths + 1 \in Nat
            BY <1>6, <1>9 DEF LifeEnds
        <3>2. Deaths \in Nat /\ Deaths' \in Nat /\ Room \in Nat
            BY <1>5, <1>6
        <3>3. QED
            BY <3>1, <3>2, Multiples
    <2>8. Cardinality(Lost') <= Deaths' * Room
        <3>1. /\ Cardinality(Lost') \in Nat /\ Room \in Nat
              /\ Deaths * Room \in Nat /\ Deaths' * Room \in Nat
            BY <1>4, <1>5, <1>6
        <3>2. Deaths * Room + Room <= Deaths' * Room
            BY <2>7
        <3>3. QED
            BY <2>6, <3>1, <3>2
    <2>9. QED
        BY <1>9, <2>8 DEF LifeEnds
<1>10. CASE Down
    <2>1. Lost' = Lost /\ Deaths' = Deaths
        BY <1>10 DEF Down, Lost, CommittedRecords
    <2>2. loop' # "gone" => committed' + 1 .. handled' = {}
        BY <1>3, <1>10 DEF Down
    <2>3. QED
        BY <1>2, <2>1, <2>2
<1>11. QED
    BY <1>1, <1>8, <1>9, <1>10

(* A process that dies, or whose loop ends on a fetch error, takes no more *)
(* committed records with it than fit into the channel and the workers'    *)
(* hands, for any number of both and any number of restarts.               *)
THEOREM CrashesLoseLittle == Spec => []CrashLossBounded
<1>1. Init => Counted /\ LossInv
    <2> SUFFICES ASSUME Init PROVE Counted /\ LossInv
        OBVIOUS
    <2>1. PoolTypeOK
        BY PoolInitially DEF Init
    <2>2. /\ committed + 1 .. handled = {} /\ CommittedRecords = {} /\ Deaths = 0 /\ occurred = {}
        BY DEF Init, ConsumerInit, CommittedRecords, Deaths
    <2>3. Cardinality(Lost) = 0 /\ 0 * Room = 0
        BY <2>1, <2>2, HeldFits, FS_EmptySet DEF Lost
    <2>4. QED
        BY <2>2, <2>3 DEF Counted, Quiet, LossInv
<1>2. HeldInv /\ Counted /\ LossInv /\ [Next]_vars => Counted' /\ LossInv'
    BY CountedStep, LossStep DEF HeldInv
<1>3. HeldInv /\ Counted /\ LossInv => CrashLossBounded
    <2> SUFFICES ASSUME HeldInv, Counted, LossInv, "stop" \notin occurred
                 PROVE  Cardinality(CommittedRecords \ Settled) <= (faults + 1) * Room
        BY DEF CrashLossBounded, Room
    <2>1. DeathsCounted /\ PoolTypeOK /\ ConsumerTypeOK
        BY DeathsAreCounted DEF HeldInv, ProcessorInv, TypeOK
    <2>2. /\ IsFiniteSet(Lost) /\ Cardinality(Lost) \in Nat /\ IsFiniteSet(Held)
          /\ Cardinality(Held) <= Room /\ Room \in Nat /\ Cardinality(Lost) <= Deaths * Room
        BY <2>1, LostIsFinite, HeldFits DEF LossInv, LostFinite
    <2>3. CommittedRecords \ Settled \subseteq Lost \cup Held
        BY DEF Lost, Accounted
    <2>4. /\ IsFiniteSet(Lost \cup Held) /\ IsFiniteSet(Lost \cap Held)
          /\ Cardinality(Lost \cup Held) = Cardinality(Lost) + Cardinality(Held) - Cardinality(Lost \cap Held)
        BY <2>2, FS_Union, FS_Intersection
    <2>5. /\ IsFiniteSet(CommittedRecords \ Settled)
          /\ Cardinality(CommittedRecords \ Settled) <= Cardinality(Lost \cup Held)
        BY <2>3, <2>4, FS_Subset
    <2>6. /\ Cardinality(Lost \cup Held) \in Nat /\ Cardinality(Lost \cap Held) \in Nat
          /\ Cardinality(Held) \in Nat /\ Cardinality(CommittedRecords \ Settled) \in Nat
        BY <2>2, <2>4, <2>5, FS_CardinalityType
    <2>7. Deaths \in Nat /\ Deaths <= faults /\ faults \in Nat
        BY <2>1 DEF DeathsCounted
    <2>8. Deaths * Room <= faults * Room /\ (faults + 1) * Room = faults * Room + Room
        BY <2>2, <2>7, Multiples
    <2>9. Deaths * Room \in Nat /\ faults * Room \in Nat /\ (faults + 1) * Room \in Nat
        BY <2>2, <2>7
    <2>10. QED
        BY <2>2, <2>4, <2>5, <2>6, <2>8, <2>9
<1>4. QED
    BY <1>1, <1>2, <1>3, HeldInvariant, PTL DEF Spec
=============================================================================
