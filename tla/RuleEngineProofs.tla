-------------------------- MODULE RuleEngineProofs --------------------------
(***************************************************************************)
(* For every set of workers, rules and reloads: types, that no event       *)
(* counts for two alerts, and that reloads which keep the number of steps  *)
(* never make an evaluation panic.  Until the first reload, what the two   *)
(* trackers decide from the little they keep is what the whole history     *)
(* says: exactness of the window, soundness and completeness of sequences. *)
(***************************************************************************)
EXTENDS RuleEngine, FiniteSetTheorems, TLAPS

(* A state of the sequence tracker's map. *)
ProgressState == [current : Nat, counts : Seq(Nat), startedAt : -1 .. MaxClock]

(* The facts of a rule set which the steps below use. *)
LEMMA RuleFacts ==
    ASSUME NEW r \in RuleSets
    PROVE  /\ r.threshold \in Nat \ {0} /\ r.window \in Nat \ {0}
           /\ r.steps \in Seq(StepType) /\ Len(r.steps) \in Nat /\ Len(r.steps) >= 2
BY RulesAssumption

-----------------------------------------------------------------------------
(* The window. *)

(* Pruning only removes entries. *)
LEMMA PrunedIsSmaller ==
    ASSUME WindowTypeOK, NEW ts, NEW window
    PROVE  /\ Pruned(ts, window) \subseteq timestamps
           /\ IsFiniteSet(timestamps) /\ IsFiniteSet(Pruned(ts, window))
           /\ Cardinality(timestamps) \in Nat
           /\ Cardinality(Pruned(ts, window)) \in Nat
           /\ Cardinality(Pruned(ts, window)) <= Cardinality(timestamps)
<1>1. Pruned(ts, window) \subseteq timestamps
  BY DEF Pruned
<1>2. IsFiniteSet(timestamps)
  BY FS_Subset DEF WindowTypeOK
<1> QED BY <1>1, <1>2, FS_Subset, FS_CardinalityType

(* An event is an entry the window does not hold yet. *)
LEMMA EntryIsNew ==
    ASSUME WindowTypeOK, NEW ts, NEW window
    PROVE  [nth |-> added + 1, ts |-> ts] \notin Pruned(ts, window)
<1> SUFFICES ASSUME [nth |-> added + 1, ts |-> ts] \in counted PROVE FALSE
  BY PrunedIsSmaller DEF WindowTypeOK
<1>1. [nth |-> added + 1, ts |-> ts].nth \in 1 .. added
  BY DEF WindowTypeOK
<1> QED BY <1>1 DEF WindowTypeOK

(* One event: with an alert the window has given away what it held and the *)
(* event, without one it has grown by at most the event.                   *)
LEMMA AddKeepsWindow ==
    ASSUME WindowTypeOK, CountedOnce,
           NEW ts \in 0 .. MaxClock, NEW window \in Nat,
           NEW threshold \in Thresholds, threshold \in Nat \ {0},
           AddAndCheck(ts, window, threshold)
    PROVE  WindowTypeOK' /\ CountedOnce'
<1> DEFINE entry == [nth |-> added + 1, ts |-> ts]
           kept == Pruned(ts, window)
<1>1. /\ kept \subseteq timestamps /\ IsFiniteSet(kept)
      /\ Cardinality(kept) \in Nat /\ Cardinality(timestamps) \in Nat
      /\ Cardinality(kept) <= Cardinality(timestamps)
  BY PrunedIsSmaller
<1>2. /\ added \in Nat /\ added' = added + 1 /\ consumed \in Nat
      /\ consumed + Cardinality(timestamps) <= added
  BY DEF WindowTypeOK, AddAndCheck, CountedOnce
<1>3. CASE Cardinality(kept) + 1 >= threshold
  <2>1. timestamps' = {} /\ counted' = {} /\ consumed' = consumed + threshold
    BY <1>3 DEF AddAndCheck, Fires
  <2>2. Cardinality(timestamps') = 0 /\ IsFiniteSet(counted')
    BY <2>1, FS_EmptySet
  <2>3. CountedOnce'
    BY <1>1, <1>2, <1>3, <2>1, <2>2 DEF CountedOnce
  <2>4. threshold \in Thresholds' /\ Cardinality(timestamps') < threshold
    BY <2>2 DEF Thresholds
  <2> QED BY <1>2, <2>1, <2>2, <2>3, <2>4 DEF WindowTypeOK
<1>4. CASE ~(Cardinality(kept) + 1 >= threshold)
  <2>1. /\ timestamps' = kept \cup {entry} /\ counted' = counted \cup {entry}
        /\ consumed' = consumed
    BY <1>4 DEF AddAndCheck, Fires
  <2>2. Cardinality(timestamps') = Cardinality(kept) + 1
    BY <1>1, <2>1, EntryIsNew, FS_AddElement
  <2>3. CountedOnce'
    BY <1>1, <1>2, <2>1, <2>2 DEF CountedOnce
  <2>4. threshold \in Thresholds' /\ Cardinality(timestamps') < threshold
    BY <1>1, <1>4, <2>2 DEF Thresholds
  <2>5. IsFiniteSet(counted') /\ timestamps' \subseteq counted'
    BY <1>1, <2>1, FS_AddElement DEF WindowTypeOK
  <2>6. counted' \subseteq [nth : 1 .. added', ts : 0 .. MaxClock]
    <3>1. entry \in [nth : 1 .. added', ts : 0 .. MaxClock]
      BY <1>2
    <3>2. [nth : 1 .. added, ts : 0 .. MaxClock] \subseteq [nth : 1 .. added', ts : 0 .. MaxClock]
      BY <1>2
    <3> QED BY <2>1, <3>1, <3>2 DEF WindowTypeOK
  <2> QED BY <1>2, <2>1, <2>3, <2>4, <2>5, <2>6 DEF WindowTypeOK
<1> QED BY <1>3, <1>4

LEMMA CleanupKeepsWindow ==
    ASSUME WindowTypeOK, CountedOnce, CleanupWindow(now, CleanupAge)
    PROVE  WindowTypeOK' /\ CountedOnce'
<1>1. timestamps' = {} /\ counted' = counted /\ added' = added /\ consumed' = consumed
  BY DEF CleanupWindow
<1>2. Cardinality(timestamps') = 0
  BY <1>1, FS_EmptySet
<1>3. Cardinality(timestamps) \in Nat
  BY PrunedIsSmaller
<1>4. CountedOnce'
  BY <1>1, <1>2, <1>3 DEF CountedOnce, WindowTypeOK
<1>5. PICK t \in Thresholds : Cardinality(timestamps) < t
  BY DEF WindowTypeOK
<1>6. t \in Thresholds' /\ t \in Nat /\ Cardinality(timestamps') < t
  BY <1>2, <1>3, <1>5, RulesAssumption DEF Thresholds
<1> QED BY <1>1, <1>4, <1>6 DEF WindowTypeOK

LEMMA WindowStutters ==
    ASSUME UNCHANGED windowVars
    PROVE  /\ WindowTypeOK => WindowTypeOK'
           /\ CountedOnce => CountedOnce'
BY DEF windowVars, WindowTypeOK, CountedOnce, Thresholds

-----------------------------------------------------------------------------
(* A group's state fits a rule of n steps: it has a counter for each, and  *)
(* stands at one of them.                                                  *)
Within(state, n) ==
    state # NoProgress => state.current < n /\ Len(state.counts) = n

(* The sequence tracker, for the steps of some rule. *)

LEMMA WorkingState ==
    ASSUME SequenceTypeOK, NEW steps \in Seq(StepType), NEW window, NEW t
    PROVE  /\ Working(steps, window, t) \in ProgressState
           /\ \/ Working(steps, window, t) = progress /\ progress # NoProgress
              \/ /\ Working(steps, window, t).current = 0
                 /\ Len(Working(steps, window, t).counts) = Len(steps)
<1>1. Fresh(steps) \in ProgressState /\ Fresh(steps).current = 0
      /\ Len(Fresh(steps).counts) = Len(steps)
  <2>1. [i \in 1 .. Len(steps) |-> 0] \in Seq(Nat)
        /\ Len([i \in 1 .. Len(steps) |-> 0]) = Len(steps)
    OBVIOUS
  <2>2. -1 \in -1 .. MaxClock
    BY RulesAssumption
  <2> QED BY <2>1, <2>2 DEF Fresh, ProgressState
<1>2. progress # NoProgress => progress \in ProgressState
  BY DEF SequenceTypeOK, ProgressState
<1> QED BY <1>1, <1>2 DEF Working

LEMMA CountedState ==
    ASSUME NEW s \in ProgressState, NEW t \in 0 .. MaxClock, s.current + 1 <= Len(s.counts)
    PROVE  /\ Counted(s, t) \in ProgressState
           /\ Counted(s, t).current = s.current
           /\ Len(Counted(s, t).counts) = Len(s.counts)
<1>1. s.current \in Nat /\ s.counts \in Seq(Nat) /\ s.startedAt \in -1 .. MaxClock
  BY DEF ProgressState
<1>2. DEFINE counts == [s.counts EXCEPT ![s.current + 1] = s.counts[s.current + 1] + 1]
             startedAt == IF s.startedAt = -1 THEN t ELSE s.startedAt
<1>3. counts \in Seq(Nat) /\ Len(counts) = Len(s.counts)
  BY <1>1, SMTT(30)
<1>4. startedAt \in -1 .. MaxClock
  BY <1>1
<1>5. Counted(s, t) = [current |-> s.current, counts |-> counts, startedAt |-> startedAt]
  BY DEF Counted
<1> QED BY <1>1, <1>3, <1>4, <1>5 DEF ProgressState

LEMMA AdvancedState ==
    ASSUME NEW s \in ProgressState
    PROVE  /\ [s EXCEPT !.current = s.current + 1] \in ProgressState
           /\ [s EXCEPT !.current = s.current + 1].current = s.current + 1
           /\ [s EXCEPT !.current = s.current + 1].counts = s.counts
BY DEF ProgressState

LEMMA AppendKeepsElements ==
    ASSUME NEW S, NEW q \in Seq(S), NEW e \in S
    PROVE  <<>> \in Seq(S) /\ Append(q, e) \in Seq(S)
OBVIOUS

(* What one event leaves, and when an index is out of range. *)
LEMMA EvaluateLeaves ==
    ASSUME SequenceTypeOK, NEW steps \in Seq(StepType), Len(steps) >= 2,
           NEW kind \in Kinds, NEW window, NEW t \in 0 .. MaxClock,
           EvaluateSequence(kind, steps, window, t)
    PROVE  /\ SequenceTypeOK'
           /\ Within(progress, Len(steps)) => panicked' = panicked /\ Within(progress', Len(steps))
<1> DEFINE s == Working(steps, window, t)
           c == Counted(s, t)
           n == Len(steps)
<1>1. /\ s \in ProgressState /\ s.current \in Nat /\ s.counts \in Seq(Nat)
      /\ Len(s.counts) \in Nat /\ n \in Nat /\ n >= 2
  BY WorkingState DEF ProgressState
<1>2. Within(progress, n) => s.current < n /\ Len(s.counts) = n
  BY <1>1, WorkingState DEF Within
<1>3. chain' \in Seq([kind : Kinds, time : 0 .. MaxClock])
  <2>1. [kind |-> kind, time |-> t] \in [kind : Kinds, time : 0 .. MaxClock]
    OBVIOUS
  <2>2. chain' = <<>> \/ chain' = Append(chain, [kind |-> kind, time |-> t])
    BY DEF EvaluateSequence
  <2>3. chain \in Seq([kind : Kinds, time : 0 .. MaxClock])
    BY DEF SequenceTypeOK
  <2>4. /\ <<>> \in Seq([kind : Kinds, time : 0 .. MaxClock])
        /\ Append(chain, [kind |-> kind, time |-> t]) \in Seq([kind : Kinds, time : 0 .. MaxClock])
    BY <2>1, <2>3, AppendKeepsElements, Zenon
  <2> QED BY <2>2, <2>4
<1>4. CASE NoMatch(s, steps)
  <2>1. progress' = s /\ panicked' = panicked /\ detected' = detected
    BY <1>4 DEF NoMatch
  <2>2. SequenceTypeOK'
    BY <1>1, <1>3, <2>1 DEF SequenceTypeOK, ProgressState
  <2> QED BY <1>2, <2>1, <2>2 DEF Within
<1>5. CASE Matches(s, kind, steps) /\ OutOfRange(s)
  <2>1. /\ progress' = progress /\ panicked' = TRUE /\ detected' = detected
        /\ s.current < n /\ s.current + 1 > Len(s.counts)
    BY <1>5 DEF OutOfRange, Matches
  <2>2. SequenceTypeOK'
    BY <1>3, <2>1 DEF SequenceTypeOK
  <2>3. ~Within(progress, n)
    BY <1>1, <1>2, <2>1
  <2> QED BY <2>2, <2>3
<1>6. CASE /\ Matches(s, kind, steps) /\ s.current + 1 <= Len(s.counts)
           /\ Collect(c, steps) \/ Advance(c, steps) \/ Complete(c, steps)
  <2>1. /\ c \in ProgressState /\ c.current = s.current
        /\ Len(c.counts) = Len(s.counts) /\ s.current < n
    BY <1>1, <1>6, CountedState DEF Matches
  <2>2. CASE Collect(c, steps)
    <3>1. progress' = c /\ panicked' = panicked /\ detected' = detected
      BY <2>2 DEF Collect
    <3>2. SequenceTypeOK'
      BY <1>3, <2>1, <3>1 DEF SequenceTypeOK, ProgressState
    <3> QED BY <1>2, <2>1, <3>1, <3>2 DEF Within
  <2>3. CASE Advance(c, steps)
    <3>1. /\ progress' = [c EXCEPT !.current = c.current + 1]
          /\ panicked' = panicked /\ detected' = detected /\ c.current + 1 < n
      BY <2>3 DEF Advance
    <3>2. /\ progress' \in ProgressState /\ progress'.current = c.current + 1
          /\ progress'.counts = c.counts
      BY <2>1, <3>1, AdvancedState
    <3>3. SequenceTypeOK'
      BY <1>3, <3>1, <3>2 DEF SequenceTypeOK, ProgressState
    <3> QED BY <1>2, <2>1, <3>1, <3>2, <3>3 DEF Within
  <2>4. CASE Complete(c, steps)
    <3>1. progress' = NoProgress /\ panicked' = panicked /\ detected' = detected + 1
      BY <2>4 DEF Complete
    <3>2. SequenceTypeOK'
      BY <1>3, <3>1 DEF SequenceTypeOK
    <3> QED BY <3>1, <3>2 DEF Within
  <2> QED BY <1>6, <2>2, <2>3, <2>4
<1> QED BY <1>4, <1>5, <1>6 DEF EvaluateSequence

LEMMA CleanupLeaves ==
    ASSUME SequenceTypeOK, CleanupSequence(now, CleanupAge)
    PROVE  SequenceTypeOK' /\ panicked' = panicked /\ progress' = NoProgress
BY DEF CleanupSequence, SequenceTypeOK

LEMMA SequenceStutters ==
    ASSUME UNCHANGED sequenceVars
    PROVE  /\ SequenceTypeOK => SequenceTypeOK'
           /\ panicked' = panicked /\ progress' = progress
BY DEF sequenceVars, SequenceTypeOK

-----------------------------------------------------------------------------
(* As long as no reload has changed the number of steps, the rules, those  *)
(* of every evaluation in flight and the state of the group agree on it.   *)
Size == Len(FirstRules.steps)
OneSize ==
    ~resized =>
        /\ ~panicked
        /\ Len(rules.steps) = Size
        /\ \A w \in Workers : task[w] # Idle => Len(task[w].rules.steps) = Size
        /\ Within(progress, Size)

IInv == TypeOK /\ CountedOnce /\ OneSize

(* What a worker evaluates. *)
Tasks == [kind : Kinds, ts : 0 .. MaxClock, rules : RuleSets, next : {"threshold", "sequence"}]

LEMMA InitHolds == Init => IInv
<1> SUFFICES ASSUME Init PROVE IInv
  OBVIOUS
<1>1. WindowTypeOK
  <2>1. Cardinality(timestamps) = 0 /\ IsFiniteSet(counted)
    BY FS_EmptySet DEF Init, WindowInit
  <2>2. FirstRules.threshold \in Thresholds /\ FirstRules.threshold > 0
    BY RulesAssumption DEF Thresholds
  <2> QED BY <2>1, <2>2 DEF Init, WindowInit, WindowTypeOK
<1>2. SequenceTypeOK
  <2>1. progress = NoProgress /\ panicked = FALSE /\ chain = <<>> /\ detected = 0
    BY DEF Init, SequenceInit
  <2>2. <<>> \in Seq([kind : Kinds, time : 0 .. MaxClock])
    OBVIOUS
  <2> QED BY <2>1, <2>2 DEF SequenceTypeOK
<1>3. TypeOK
  <2>1. task \in [Workers -> {Idle} \cup Tasks]
    BY DEF Init
  <2>2. now = 0 /\ events = 0 /\ reloads = 0 /\ resized = FALSE /\ latest = 0 /\ inOrder = TRUE
    BY DEF Init
  <2>3. 0 \in 0 .. MaxClock /\ rules \in RuleSets
    BY RulesAssumption DEF Init
  <2> QED BY <1>1, <1>2, <2>1, <2>2, <2>3 DEF TypeOK, Tasks
<1>4. CountedOnce
  <2>1. Cardinality(timestamps) = 0 /\ consumed = 0 /\ added = 0
    BY FS_EmptySet DEF Init, WindowInit
  <2> QED BY <2>1 DEF CountedOnce
<1>5. OneSize
  <2>1. ~panicked /\ rules = FirstRules /\ progress = NoProgress
    BY DEF Init, SequenceInit
  <2>2. \A w \in Workers : task[w] = Idle
    BY DEF Init
  <2> QED BY <2>1, <2>2 DEF OneSize, Size, Within
<1> QED BY <1>3, <1>4, <1>5 DEF IInv

LEMMA StartHolds ==
    ASSUME IInv, NEW w \in Workers, Start(w)
    PROVE  IInv'
<1>1. PICK e \in Tasks : task' = [task EXCEPT ![w] = e] /\ e.rules = rules
  <2>1. PICK kind \in Kinds, ts \in 0 .. now :
          task' = [task EXCEPT ![w] =
            [kind |-> kind, ts |-> ts, rules |-> rules, next |-> "threshold"]]
    BY DEF Start
  <2>2. ts \in 0 .. MaxClock /\ rules \in RuleSets
    BY RulesAssumption DEF IInv, TypeOK
  <2>3. [kind |-> kind, ts |-> ts, rules |-> rules, next |-> "threshold"] \in Tasks
    BY <2>2 DEF Tasks
  <2> QED BY <2>1, <2>3
<1>2. /\ UNCHANGED windowVars /\ UNCHANGED sequenceVars
      /\ UNCHANGED <<rules, now, reloads, resized, latest, inOrder>> /\ events' = events + 1
  BY DEF Start
<1>3. TypeOK'
  BY <1>1, <1>2, WindowStutters, SequenceStutters DEF IInv, TypeOK, Tasks
<1>4. CountedOnce'
  BY <1>2, WindowStutters DEF IInv
<1>5. OneSize'
  BY <1>1, <1>2, SequenceStutters DEF IInv, TypeOK, OneSize, Size, Within
<1> QED BY <1>3, <1>4, <1>5 DEF IInv

LEMMA ThresholdHolds ==
    ASSUME IInv, NEW w \in Workers, EvalThreshold(w)
    PROVE  IInv'
<1> DEFINE e == task[w]
<1>1. e # Idle /\ e \in Tasks /\ e.ts \in 0 .. MaxClock /\ e.rules \in RuleSets
  BY DEF EvalThreshold, Evaluating, IInv, TypeOK, Tasks
<1>2. /\ task' = [task EXCEPT ![w].next = "sequence"] /\ UNCHANGED sequenceVars
      /\ UNCHANGED <<rules, now, events, reloads, resized>>
  BY DEF EvalThreshold
<1>3. WindowTypeOK' /\ CountedOnce' /\ latest' \in 0 .. MaxClock /\ inOrder' \in BOOLEAN
  <2>1. CASE UNCHANGED <<windowVars, latest, inOrder>>
    BY <2>1, WindowStutters DEF IInv, TypeOK
  <2>2. CASE /\ AddAndCheck(e.ts, e.rules.window, e.rules.threshold)
             /\ inOrder' = (inOrder /\ latest <= e.ts)
             /\ latest' = IF latest <= e.ts THEN e.ts ELSE latest
    <3>1. e.rules.window \in Nat /\ e.rules.threshold \in Nat \ {0}
          /\ e.rules.threshold \in Thresholds
      BY <1>1, RuleFacts DEF Thresholds
    <3>2. WindowTypeOK' /\ CountedOnce'
      BY <1>1, <2>2, <3>1, AddKeepsWindow DEF IInv, TypeOK
    <3>3. latest' \in 0 .. MaxClock
      BY <1>1, <2>2 DEF IInv, TypeOK
    <3>4. inOrder' \in BOOLEAN
      BY <2>2
    <3> QED BY <3>2, <3>3, <3>4
  <2> QED BY <2>1, <2>2 DEF EvalThreshold
<1>4. task' \in [Workers -> {Idle} \cup Tasks]
  <2>1. [e EXCEPT !.next = "sequence"] \in Tasks
    BY <1>1 DEF Tasks
  <2> QED BY <1>2, <2>1 DEF IInv, TypeOK, Tasks
<1>5. TypeOK'
  BY <1>2, <1>3, <1>4, SequenceStutters DEF IInv, TypeOK, Tasks
<1>6. OneSize'
  <2>1. \A v \in Workers : task'[v] # Idle => task[v] # Idle /\ task'[v].rules = task[v].rules
    BY <1>1, <1>2 DEF IInv, TypeOK, Tasks
  <2> QED BY <1>2, <2>1, SequenceStutters DEF IInv, OneSize, Size, Within
<1> QED BY <1>3, <1>5, <1>6 DEF IInv

LEMMA SequenceHolds ==
    ASSUME IInv, NEW w \in Workers, EvalSequence(w)
    PROVE  IInv'
<1> DEFINE e == task[w]
<1>1. e # Idle /\ e.kind \in Kinds /\ e.rules \in RuleSets /\ now \in 0 .. MaxClock
  BY DEF EvalSequence, Evaluating, IInv, TypeOK
<1>2. /\ task' = [task EXCEPT ![w] = Idle] /\ UNCHANGED windowVars
      /\ UNCHANGED <<rules, now, events, reloads, resized, latest, inOrder>>
  BY DEF EvalSequence
<1>3. /\ SequenceTypeOK'
      /\ Within(progress, Len(e.rules.steps)) =>
           panicked' = panicked /\ Within(progress', Len(e.rules.steps))
  <2>1. CASE UNCHANGED sequenceVars
    BY <2>1, SequenceStutters DEF IInv, TypeOK
  <2>2. CASE EvaluateSequence(e.kind, e.rules.steps, e.rules.seqWindow, now)
    BY <1>1, <2>2, RuleFacts, EvaluateLeaves DEF IInv, TypeOK
  <2> QED BY <2>1, <2>2 DEF EvalSequence
<1>4. task' \in [Workers -> {Idle} \cup Tasks]
  BY <1>2 DEF IInv, TypeOK, Tasks
<1>5. TypeOK'
  BY <1>2, <1>3, <1>4, WindowStutters DEF IInv, TypeOK, Tasks
<1>6. CountedOnce'
  BY <1>2, WindowStutters DEF IInv
<1>7. OneSize'
  <2>1. \A v \in Workers : task'[v] # Idle => task'[v] = task[v]
    BY <1>2 DEF IInv, TypeOK
  <2>2. ~resized => Within(progress, Size) /\ Len(e.rules.steps) = Size
    BY <1>1 DEF IInv, OneSize
  <2> QED BY <1>2, <1>3, <2>1, <2>2 DEF IInv, OneSize, Size
<1> QED BY <1>5, <1>6, <1>7 DEF IInv

LEMMA ReloadHolds ==
    ASSUME IInv, Reload
    PROVE  IInv'
<1>1. /\ UNCHANGED windowVars /\ UNCHANGED sequenceVars
      /\ UNCHANGED <<task, now, events, latest, inOrder>>
      /\ reloads' = reloads + 1 /\ rules' \in RuleSets
      /\ resized' = (resized \/ Len(rules'.steps) # Len(rules.steps))
  BY DEF Reload
<1>2. TypeOK'
  BY <1>1, WindowStutters, SequenceStutters DEF IInv, TypeOK
<1>3. CountedOnce'
  BY <1>1, WindowStutters DEF IInv
<1>4. OneSize'
  BY <1>1, SequenceStutters DEF IInv, OneSize, Size, Within
<1> QED BY <1>2, <1>3, <1>4 DEF IInv

(* The steps that keep the rules and what is evaluated. *)
LEMMA OthersHold ==
    ASSUME IInv, CleanupWindows \/ CleanupSequences \/ Tick \/ UNCHANGED vars
    PROVE  IInv'
<1>1. UNCHANGED <<rules, task, events, reloads, resized, latest, inOrder>>
  BY DEF CleanupWindows, CleanupSequences, Tick, vars
<1>2. now' \in 0 .. MaxClock
  BY RulesAssumption DEF CleanupWindows, CleanupSequences, Tick, vars, IInv, TypeOK
<1>3. WindowTypeOK' /\ CountedOnce'
  <2>1. CleanupWindow(now, CleanupAge) \/ UNCHANGED windowVars
    BY DEF CleanupWindows, CleanupSequences, Tick, vars, windowVars
  <2> QED BY <2>1, CleanupKeepsWindow, WindowStutters DEF IInv, TypeOK
<1>4. SequenceTypeOK' /\ panicked' = panicked /\ (progress' = progress \/ progress' = NoProgress)
  <2>1. CleanupSequence(now, CleanupAge) \/ UNCHANGED sequenceVars
    BY DEF CleanupWindows, CleanupSequences, Tick, vars, sequenceVars
  <2> QED BY <2>1, CleanupLeaves, SequenceStutters DEF IInv, TypeOK
<1>5. TypeOK'
  BY <1>1, <1>2, <1>3, <1>4 DEF IInv, TypeOK
<1>6. OneSize'
  BY <1>1, <1>4 DEF IInv, OneSize, Size, Within
<1> QED BY <1>3, <1>5, <1>6 DEF IInv

LEMMA InvariantHolds == Spec => []IInv
<1>1. IInv /\ [Next]_vars => IInv'
  BY StartHolds, ThresholdHolds, SequenceHolds, ReloadHolds, OthersHold DEF Next
<1> QED BY <1>1, InitHolds, PTL DEF Spec

(* The types of the engine's state, and that a window stays below the      *)
(* threshold of some rule (temporal.go:80).                                *)
THEOREM RuleEngineTypeCorrect == Spec => []TypeOK
<1>1. IInv => TypeOK
  BY DEF IInv
<1> QED BY <1>1, InvariantHolds, PTL

(* temporal.go:82, a fresh set of events for every alert: for any workers, *)
(* delays, reloads and cleanups no event counts towards two alerts.        *)
THEOREM NoEventCountsTwice == Spec => []CountedOnce
<1>1. IInv => CountedOnce
  BY DEF IInv
<1> QED BY <1>1, InvariantHolds, PTL

(* sequence.go:80 and 89: reloads that keep the number of steps leave no   *)
(* evaluation an index out of range, and no group behind its last step.    *)
THEOREM ReloadsKeepEvaluationsSafe == Spec => []ReloadIsSafe
<1>1. IInv => ReloadIsSafe
  BY DEF IInv, OneSize, Within, Size, ReloadIsSafe
<1> QED BY <1>1, InvariantHolds, PTL

-----------------------------------------------------------------------------
(* Exactness.  Until a reload every evaluation uses the first rules.  As   *)
(* long as timestamps come in order, what the window has forgotten of the  *)
(* events since the last alert is too old to count: pruning compared it    *)
(* with a timestamp no later than the next, a cleanup with the clock.      *)
Span == FirstRules.window

RulesStay ==
    reloads = 0 =>
        /\ rules = FirstRules
        /\ \A w \in Workers : task[w] # Idle => task[w].rules = FirstRules

Ordered ==
    inOrder =>
        \A a, b \in counted : a.ts <= latest /\ (a.nth <= b.nth => a.ts <= b.ts)

ForgottenIsOld ==
    reloads = 0 /\ inOrder =>
        \A a \in counted \ timestamps : a.ts <= latest - Span \/ a.ts < now - CleanupAge

ExactInv == RulesStay /\ Ordered /\ ForgottenIsOld

LEMMA Entries ==
    ASSUME WindowTypeOK, NEW a \in counted
    PROVE  a.nth \in Nat /\ a.nth <= added /\ a.ts \in 0 .. MaxClock
BY DEF WindowTypeOK

LEMMA RulesStayStep == ASSUME IInv, RulesStay, [Next]_vars PROVE RulesStay'
<1>a. task \in [Workers -> {Idle} \cup Tasks] /\ reloads \in Nat
  BY DEF IInv, TypeOK, Tasks
<1>1. ASSUME NEW w \in Workers, Start(w) PROVE RulesStay'
  <2>1. PICK e : task' = [task EXCEPT ![w] = e] /\ e.rules = rules
    <3>1. PICK kind \in Kinds, ts \in 0 .. now :
            task' = [task EXCEPT ![w] =
              [kind |-> kind, ts |-> ts, rules |-> rules, next |-> "threshold"]]
      BY <1>1 DEF Start
    <3>2. [kind |-> kind, ts |-> ts, rules |-> rules, next |-> "threshold"].rules = rules
      OBVIOUS
    <3> QED BY <3>1, <3>2
  <2>2. rules' = rules /\ reloads' = reloads
    BY <1>1 DEF Start
  <2>3. \A v \in Workers : task'[v] = task[v] \/ task'[v].rules = rules
    BY <1>a, <2>1
  <2> QED BY <2>2, <2>3 DEF RulesStay
<1>2. ASSUME NEW w \in Workers, EvalThreshold(w) PROVE RulesStay'
  <2>1. /\ task[w] # Idle /\ task' = [task EXCEPT ![w].next = "sequence"]
        /\ UNCHANGED <<rules, reloads>>
    BY <1>2 DEF EvalThreshold, Evaluating
  <2>2. \A v \in Workers : task'[v] # Idle => task[v] # Idle /\ task'[v].rules = task[v].rules
    BY <1>a, <2>1 DEF Tasks
  <2> QED BY <2>1, <2>2 DEF RulesStay
<1>3. ASSUME NEW w \in Workers, EvalSequence(w) PROVE RulesStay'
  <2>1. task' = [task EXCEPT ![w] = Idle] /\ UNCHANGED <<rules, reloads>>
    BY <1>3 DEF EvalSequence
  <2>2. \A v \in Workers : task'[v] = task[v] \/ task'[v] = Idle
    BY <1>a, <2>1
  <2> QED BY <2>1, <2>2 DEF RulesStay
<1>4. CASE Reload
  BY <1>a, <1>4 DEF Reload, RulesStay
<1>5. CASE UNCHANGED <<rules, task, reloads>>
  BY <1>5 DEF RulesStay
<1> QED
  BY <1>1, <1>2, <1>3, <1>4, <1>5
  DEF Next, CleanupWindows, CleanupSequences, Tick, vars

(* One event of the window, counted or the end of a count. *)
LEMMA ExactEvent ==
    ASSUME IInv, ExactInv, NEW w \in Workers, Evaluating(w, "threshold"),
           AddAndCheck(task[w].ts, task[w].rules.window, task[w].rules.threshold),
           inOrder' = (inOrder /\ latest <= task[w].ts),
           latest' = IF latest <= task[w].ts THEN task[w].ts ELSE latest,
           UNCHANGED <<reloads, now>>
    PROVE  Ordered' /\ ForgottenIsOld'
<1> DEFINE e == task[w]
           entry == [nth |-> added + 1, ts |-> e.ts]
           kept == Pruned(e.ts, e.rules.window)
<1>a. e.ts \in 0 .. MaxClock /\ latest \in 0 .. MaxClock /\ MaxClock \in Nat /\ added \in Nat
  BY RulesAssumption DEF Evaluating, IInv, TypeOK, WindowTypeOK
<1>b. Span \in Nat
  BY RulesAssumption DEF Span
<1>c. \A a \in counted : a.nth \in Nat /\ a.nth <= added /\ a.ts \in 0 .. MaxClock
  BY Entries DEF IInv, TypeOK
<1>d. reloads = 0 => e.rules.window = Span
  BY DEF ExactInv, RulesStay, Span, Evaluating
<1>1. CASE counted' = {}
  BY <1>1 DEF Ordered, ForgottenIsOld
<1>2. CASE counted' = counted \cup {entry} /\ timestamps' = kept \cup {entry}
  <2>1. SUFFICES ASSUME inOrder' PROVE Ordered' /\ ForgottenIsOld'
    BY DEF Ordered, ForgottenIsOld
  <2>2. inOrder /\ latest <= e.ts /\ latest' = e.ts
    BY <2>1
  <2>3. \A a, b \in counted : a.ts <= latest /\ (a.nth <= b.nth => a.ts <= b.ts)
    BY <2>2 DEF ExactInv, Ordered
  <2>4. entry.nth = added + 1 /\ entry.ts = e.ts
    OBVIOUS
  <2>5. ASSUME NEW a \in counted', NEW b \in counted'
        PROVE  a.ts <= latest' /\ (a.nth <= b.nth => a.ts <= b.ts)
    <3> HIDE DEF entry
    <3>1. CASE a \in counted /\ b \in counted
      BY <3>1, <2>2, <2>3, <1>a, <1>c
    <3>2. CASE a \in counted /\ b = entry
      BY <3>2, <2>2, <2>3, <2>4, <1>a, <1>c
    <3>3. CASE a = entry /\ b \in counted
      BY <3>3, <2>2, <2>4, <1>a, <1>c
    <3>4. CASE a = entry /\ b = entry
      BY <3>4, <2>2, <2>4, <1>a
    <3> QED BY <3>1, <3>2, <3>3, <3>4, <1>2
  <2>6. Ordered'
    BY <2>5 DEF Ordered
  <2>7. ASSUME reloads' = 0, NEW a \in counted' \ timestamps'
        PROVE  a.ts <= latest' - Span \/ a.ts < now' - CleanupAge
    <3>1. a \in counted /\ a \notin kept /\ reloads = 0 /\ now' = now
      BY <1>2, <2>7
    <3>2. CASE a \in timestamps
      <4>1. ~(a.ts > e.ts - Span)
        BY <3>1, <3>2, <1>d DEF Pruned
      <4> QED BY <4>1, <2>2, <3>1, <1>a, <1>b, <1>c
    <3>3. CASE a \notin timestamps
      <4>1. a.ts <= latest - Span \/ a.ts < now - CleanupAge
        BY <3>1, <3>3, <2>2 DEF ExactInv, ForgottenIsOld
      <4> QED BY <4>1, <2>2, <3>1, <1>a, <1>b, <1>c
    <3> QED BY <3>2, <3>3
  <2>8. ForgottenIsOld'
    BY <2>7 DEF ForgottenIsOld, Span
  <2> QED BY <2>6, <2>8
<1> QED
  BY <1>1, <1>2 DEF AddAndCheck

(* What an idle window forgets is as old as its newest entry at least. *)
LEMMA ExactCleanup ==
    ASSUME IInv, ExactInv, CleanupWindow(now, CleanupAge), UNCHANGED <<reloads, inOrder, latest, now>>
    PROVE  Ordered' /\ ForgottenIsOld'
<1>1. counted' = counted /\ timestamps' = {}
  BY DEF CleanupWindow
<1>2. Ordered'
  BY <1>1 DEF ExactInv, Ordered
<1>3. ASSUME reloads = 0, inOrder, NEW a \in counted
      PROVE  a.ts <= latest - Span \/ a.ts < now - CleanupAge
  <2>1. CASE a \in timestamps
    <3>1. PICK newest \in timestamps :
            (\A b \in timestamps : b.nth <= newest.nth) /\ newest.ts < now - CleanupAge
      BY DEF CleanupWindow
    <3>2. newest \in counted
      BY DEF IInv, TypeOK, WindowTypeOK
    <3>3. a.ts <= newest.ts
      BY <1>3, <2>1, <3>1, <3>2 DEF ExactInv, Ordered
    <3>4. a.ts \in Int /\ newest.ts \in Int /\ now \in Int /\ CleanupAge \in Int
      BY <3>2, Entries, RulesAssumption DEF IInv, TypeOK
    <3> QED BY <3>1, <3>3, <3>4
  <2>2. CASE a \notin timestamps
    BY <1>3, <2>2 DEF ExactInv, ForgottenIsOld
  <2> QED BY <2>1, <2>2
<1>4. ForgottenIsOld'
  BY <1>1, <1>3 DEF ForgottenIsOld, Span
<1> QED BY <1>2, <1>4

LEMMA ExactStep == ASSUME IInv, ExactInv, [Next]_vars PROVE ExactInv'
<1>a. RulesStay'
  BY RulesStayStep DEF ExactInv
<1>1. CASE UNCHANGED <<windowVars, inOrder, latest, now>> /\ (reloads' = reloads \/ reloads' # 0)
  BY <1>1, <1>a DEF ExactInv, Ordered, ForgottenIsOld, Span, windowVars
<1>2. ASSUME NEW w \in Workers, EvalThreshold(w) PROVE ExactInv'
  <2>1. Evaluating(w, "threshold") /\ UNCHANGED <<reloads, now>>
    BY <1>2 DEF EvalThreshold
  <2>2. CASE UNCHANGED <<windowVars, latest, inOrder>>
    BY <2>1, <2>2, <1>1
  <2>3. CASE /\ AddAndCheck(task[w].ts, task[w].rules.window, task[w].rules.threshold)
             /\ inOrder' = (inOrder /\ latest <= task[w].ts)
             /\ latest' = IF latest <= task[w].ts THEN task[w].ts ELSE latest
    BY <2>1, <2>3, <1>a, ExactEvent DEF ExactInv
  <2> QED BY <1>2, <2>2, <2>3 DEF EvalThreshold
<1>3. CASE CleanupWindows
  <2>1. CleanupWindow(now, CleanupAge) /\ UNCHANGED <<reloads, inOrder, latest, now>>
    BY <1>3 DEF CleanupWindows
  <2> QED BY <2>1, <1>a, ExactCleanup DEF ExactInv
<1>4. CASE Tick
  <2>1. UNCHANGED <<windowVars, reloads, inOrder, latest>> /\ now' = now + 1
    BY <1>4 DEF Tick
  <2>2. \A a \in counted : a.ts \in Int /\ now \in Int /\ CleanupAge \in Int
    BY Entries, RulesAssumption DEF IInv, TypeOK
  <2>3. \A a \in counted : a.ts < now - CleanupAge => a.ts < now' - CleanupAge
    BY <2>1, <2>2
  <2>4. ForgottenIsOld'
    BY <2>1, <2>3 DEF ExactInv, ForgottenIsOld, Span, windowVars
  <2>5. Ordered'
    BY <2>1 DEF ExactInv, Ordered, windowVars
  <2> QED BY <1>a, <2>4, <2>5 DEF ExactInv
<1>5. CASE Reload
  <2>1. UNCHANGED <<windowVars, inOrder, latest, now>> /\ reloads' = reloads + 1 /\ reloads \in Nat
    BY <1>5 DEF Reload, IInv, TypeOK
  <2> QED BY <2>1, <1>1
<1> QED
  BY <1>1, <1>2, <1>3, <1>4, <1>5
  DEF Next, Start, EvalSequence, CleanupSequences, vars, windowVars

(* As long as timestamps come in order, are not later than a cleanup leaves *)
(* time for, and the rules stay, the pruned and cleaned up window decides  *)
(* like one that forgets nothing.                                          *)
THEOREM ThresholdStaysExact == Spec => ThresholdIsExact
<1>1. Init => ExactInv
  <2> SUFFICES ASSUME Init PROVE ExactInv
    OBVIOUS
  <2>1. counted = {} /\ rules = FirstRules /\ \A w \in Workers : task[w] = Idle
    BY DEF Init, WindowInit
  <2> QED BY <2>1 DEF ExactInv, RulesStay, Ordered, ForgottenIsOld
<1>2. ASSUME IInv, ExactInv, [Next]_vars, NEW w \in Workers,
             Evaluated(w, "threshold"), inOrder', reloads = 0, added' > added,
             ~(now - task[w].ts > CleanupAge - task[w].rules.window)
      PROVE  consumed' > consumed <=>
                Cardinality({entry \in counted : entry.ts > task[w].ts - task[w].rules.window}) + 1
                    >= task[w].rules.threshold
  <2> DEFINE e == task[w]
             recent == {entry \in counted : entry.ts > e.ts - e.rules.window}
  <2>a. /\ e \in Tasks /\ e # Idle /\ e.next = "threshold" /\ task \in [Workers -> {Idle} \cup Tasks]
        /\ task'[w] # task[w] /\ added \in Nat /\ consumed \in Nat
    BY <1>2 DEF Evaluated, Evaluating, IInv, TypeOK, Tasks, WindowTypeOK
  <2>b. e.ts \in Nat /\ e.rules \in RuleSets /\ e.rules = FirstRules
    BY <2>a, <1>2, RulesAssumption DEF Tasks, ExactInv, RulesStay
  <2>1. EvalThreshold(w)
    <3>1. ASSUME NEW v \in Workers, v # w, Start(v) \/ EvalThreshold(v) \/ EvalSequence(v) PROVE FALSE
      <4>1. task'[w] = task[w]
        BY <2>a, <3>1 DEF Start, EvalThreshold, EvalSequence
      <4> QED BY <4>1, <2>a
    <3>2. ~Start(w) /\ ~EvalSequence(w)
      BY <2>a DEF Start, EvalSequence, Evaluating
    <3>3. ~UNCHANGED task
      BY <2>a
    <3> QED
      BY <1>2, <3>1, <3>2, <3>3 DEF Next, Reload, CleanupWindows, CleanupSequences, Tick, vars
  <2>2. /\ AddAndCheck(e.ts, e.rules.window, e.rules.threshold)
        /\ inOrder' = (inOrder /\ latest <= e.ts)
    <3>1. ASSUME UNCHANGED <<windowVars, latest, inOrder>> PROVE FALSE
      <4>1. added' = added
        BY <3>1 DEF windowVars
      <4> QED BY <4>1, <1>2, <2>a
    <3> QED BY <2>1, <3>1 DEF EvalThreshold
  <2>3. inOrder /\ latest <= e.ts
    BY <1>2, <2>2
  <2>4. Pruned(e.ts, e.rules.window) = recent
    <3>1. timestamps \subseteq counted
      BY <1>2 DEF IInv, TypeOK, WindowTypeOK
    <3>2. ASSUME NEW a \in counted, a.ts > e.ts - Span PROVE a \in timestamps
      <4>1. a.ts \in Int /\ now \in Int /\ CleanupAge \in Int /\ Span \in Int /\ latest \in Int
        BY <1>2, Entries, RulesAssumption DEF IInv, TypeOK, Span
      <4>2. ~(a.ts <= latest - Span)
        BY <4>1, <3>2, <2>3, <2>b
      <4>3. ~(now - e.ts > CleanupAge - Span)
        BY <1>2, <2>b DEF Span
      <4>4. ~(a.ts < now - CleanupAge)
        BY <4>1, <4>3, <3>2, <2>b
      <4> QED BY <1>2, <2>3, <4>2, <4>4 DEF ExactInv, ForgottenIsOld
    <3> QED BY <3>1, <3>2, <2>b DEF Pruned, Span
  <2>5. e.rules.threshold \in Nat \ {0}
    BY <2>b, RuleFacts
  <2>6. consumed' > consumed <=> Fires(e.ts, e.rules.window, e.rules.threshold)
    <3>1. CASE Fires(e.ts, e.rules.window, e.rules.threshold)
      <4>1. consumed' = consumed + e.rules.threshold
        BY <2>2, <3>1 DEF AddAndCheck
      <4> QED BY <4>1, <3>1, <2>5, <2>a
    <3>2. CASE ~Fires(e.ts, e.rules.window, e.rules.threshold)
      <4>1. consumed' = consumed
        BY <2>2, <3>2 DEF AddAndCheck
      <4> QED BY <4>1, <3>2, <2>a
    <3> QED BY <3>1, <3>2
  <2> QED BY <2>4, <2>6 DEF Fires
<1>3. IInv /\ ExactInv /\ [Next]_vars =>
        [\A w \in Workers :
            Evaluated(w, "threshold") /\ inOrder' /\ reloads = 0 /\ added' > added =>
                LET e == task[w]
                    late == now - e.ts > CleanupAge - e.rules.window
                    recent == {entry \in counted : entry.ts > e.ts - e.rules.window}
                IN  ~late => (consumed' > consumed <=>
                                Cardinality(recent) + 1 >= e.rules.threshold)]_vars
  BY <1>2
<1>4. IInv /\ ExactInv /\ [Next]_vars => ExactInv'
  BY ExactStep
<1> QED
  BY <1>1, <1>3, <1>4, InvariantHolds, PTL DEF Spec, ThresholdIsExact

-----------------------------------------------------------------------------
(* Histories of a sequence rule, as the reference reads them. *)

Happened == [kind : Kinds, time : 0 .. MaxClock]

LEMMA RequiredIsPositive ==
    ASSUME NEW step \in StepType
    PROVE  Required(step) \in Nat \ {0}
BY DEF Required, StepType

LEMMA MeetingIsFinite ==
    ASSUME NEW history, NEW a \in Int, NEW b \in Int, NEW since, NEW step
    PROVE  /\ IsFiniteSet(Meeting(history, a .. b, since, step))
           /\ Cardinality(Meeting(history, a .. b, since, step)) \in Nat
<1>1. IsFiniteSet(a .. b)
  BY FS_Interval
<1>2. Meeting(history, a .. b, since, step) \subseteq a .. b
  BY DEF Meeting
<1> QED BY <1>1, <1>2, FS_Subset, FS_CardinalityType

LEMMA MeetingGrows ==
    ASSUME NEW history, NEW a \in Int, NEW b \in Int, NEW c \in Int, NEW d \in Int,
           NEW since, NEW earlier, NEW step,
           Meeting(history, c .. d, since, step) \subseteq Meeting(history, a .. b, earlier, step)
    PROVE  Cardinality(Meeting(history, c .. d, since, step))
             <= Cardinality(Meeting(history, a .. b, earlier, step))
BY MeetingIsFinite, FS_Subset

(* A part that ends before the new event does not see it. *)
LEMMA PartOfPrefix ==
    ASSUME NEW S, NEW history \in Seq(S), NEW e \in S,
           NEW a \in Nat \ {0}, NEW b \in Nat, b <= Len(history), NEW since, NEW step
    PROVE  Meeting(Append(history, e), a .. b, since, step) = Meeting(history, a .. b, since, step)
<1>1. \A i \in a .. b : Append(history, e)[i] = history[i]
  OBVIOUS
<1> QED BY <1>1 DEF Meeting

(* A part that ends with the new event has one more if it meets the step. *)
LEMMA PartWithLast ==
    ASSUME NEW S, NEW history \in Seq(S), NEW e \in S,
           NEW a \in Nat \ {0}, a <= Len(history) + 1, NEW since, NEW step
    PROVE  LET h == Append(history, e)
               before == Cardinality(Meeting(history, a .. Len(history), since, step))
               after == Cardinality(Meeting(h, a .. Len(h), since, step))
               meets == e.kind \in step.kinds /\ e.time >= since
           IN  /\ before \in Nat /\ after \in Nat /\ before <= after
               /\ meets => after = before + 1
               /\ ~meets => after = before
<1> DEFINE h == Append(history, e)
           n == Len(history)
           old == Meeting(history, a .. n, since, step)
           new == Meeting(h, a .. n + 1, since, step)
<1>1. n \in Nat /\ Len(h) = n + 1 /\ h[n + 1] = e
  OBVIOUS
<1>2. Meeting(h, a .. n, since, step) = old
  BY <1>1, PartOfPrefix
<1> HIDE DEF h
<1>3. a .. n + 1 = (a .. n) \cup {n + 1} /\ n + 1 \notin a .. n
  BY <1>1
<1>4. IsFiniteSet(old) /\ Cardinality(old) \in Nat /\ n + 1 \notin old
  <2>1. IsFiniteSet(old) /\ Cardinality(old) \in Nat
    BY <1>1, MeetingIsFinite
  <2> QED BY <2>1, <1>3 DEF Meeting
<1>5. ASSUME e.kind \in step.kinds, e.time >= since PROVE Cardinality(new) = Cardinality(old) + 1
  <2>1. new = old \cup {n + 1}
    BY <1>1, <1>2, <1>3, <1>5 DEF Meeting
  <2> QED BY <2>1, <1>4, FS_AddElement
<1>6. ASSUME ~(e.kind \in step.kinds /\ e.time >= since) PROVE new = old
  BY <1>1, <1>2, <1>3, <1>6 DEF Meeting
<1> QED BY <1>1, <1>4, <1>5, <1>6 DEF h

(* Cuts of what was before the new event. *)
LEMMA CutOfPrefix ==
    ASSUME NEW S, NEW history \in Seq(S), NEW e \in S, NEW since, NEW steps,
           NEW n \in Nat, NEW cut, \A k \in 0 .. n : cut[k] \in Nat, cut[n] <= Len(history)
    PROVE  Divides(cut, n, Append(history, e), since, steps) <=> Divides(cut, n, history, since, steps)
<1> SUFFICES ASSUME \A j, k \in 0 .. n : j <= k => cut[j] <= cut[k]
             PROVE  Divides(cut, n, Append(history, e), since, steps)
                      <=> Divides(cut, n, history, since, steps)
  BY DEF Divides
<1>1. ASSUME NEW k \in 1 .. n
      PROVE  Meeting(Append(history, e), cut[k - 1] + 1 .. cut[k], since, steps[k])
               = Meeting(history, cut[k - 1] + 1 .. cut[k], since, steps[k])
  <2>1. k \in 0 .. n /\ n \in 0 .. n /\ k <= n /\ k - 1 \in 0 .. n
    OBVIOUS
  <2>2. cut[k] <= cut[n] /\ cut[k] \in Nat /\ cut[n] \in Nat /\ cut[k - 1] \in Nat
    BY <2>1
  <2>3. cut[k - 1] + 1 \in Nat \ {0} /\ cut[k] <= Len(history)
    BY <2>2
  <2> QED BY <2>2, <2>3, PartOfPrefix
<1> QED BY <1>1 DEF Divides

-----------------------------------------------------------------------------
(* Soundness.  Until a reload, the events of the chain since the state was *)
(* started divide into parts for the steps behind it and what it has       *)
(* counted for the one it stands at.                                       *)
Steps == FirstRules.steps

SoundState(s, history, t) ==
    /\ s.current < Size /\ Len(s.counts) = Size
    /\ \A j \in s.current + 2 .. Size : s.counts[j] = 0
    /\ s.startedAt <= t
    /\ s.startedAt = -1 => s.current = 0 /\ s.counts[1] = 0
    /\ s.startedAt # -1 =>
        /\ \E i \in DOMAIN history : history[i].time = s.startedAt
        /\ \E cut \in [0 .. Size -> 0 .. Len(history)] :
            /\ Divides(cut, s.current, history, s.startedAt, Steps)
            /\ s.counts[s.current + 1] <=
                 Cardinality(Meeting(history, cut[s.current] + 1 .. Len(history), s.startedAt,
                                     Steps[s.current + 1]))

LEMMA StepsFacts ==
    /\ Size \in Nat /\ Size >= 2 /\ Len(Steps) = Size
    /\ FirstRules.seqWindow \in Nat \ {0}
    /\ \A k \in 1 .. Size : Steps[k] \in StepType /\ Required(Steps[k]) \in Nat \ {0}
<1>1. /\ Steps \in Seq(StepType) /\ Len(Steps) >= 2 /\ Size = Len(Steps)
      /\ FirstRules.seqWindow \in Nat \ {0}
  BY RulesAssumption DEF Steps, Size
<1>2. \A k \in 1 .. Size : Steps[k] \in StepType
  BY <1>1
<1>3. Size \in Nat
  BY <1>1
<1> QED BY <1>1, <1>2, <1>3, RequiredIsPositive

LEMMA StateParts ==
    ASSUME NEW s \in ProgressState
    PROVE  s.current \in Nat /\ s.counts \in Seq(Nat) /\ s.startedAt \in -1 .. MaxClock
BY DEF ProgressState

LEMMA FreshIsSound ==
    ASSUME NEW history, NEW t \in Nat
    PROVE  SoundState(Fresh(Steps), history, t)
<1>1. Size \in Nat /\ Size >= 2 /\ Len(Steps) = Size
  BY StepsFacts
<1>2. /\ Fresh(Steps).current = 0 /\ Fresh(Steps).startedAt = -1
      /\ Fresh(Steps).counts = [i \in 1 .. Size |-> 0]
  BY <1>1 DEF Fresh
<1>3. Len(Fresh(Steps).counts) = Size
  BY <1>1, <1>2
<1>4. /\ \A j \in 2 .. Size : Fresh(Steps).counts[j] = 0
      /\ Fresh(Steps).counts[1] = 0
  BY <1>1, <1>2
<1> QED BY <1>1, <1>2, <1>3, <1>4 DEF SoundState

(* An event that meets nothing. *)
LEMMA SoundIgnores ==
    ASSUME NEW s \in ProgressState, NEW history \in Seq(Happened), NEW e \in Happened, NEW t,
           SoundState(s, history, t)
    PROVE  SoundState(s, Append(history, e), t)
<1> DEFINE h == Append(history, e)
           n == Len(history)
           k == s.current
<1>1. n \in Nat /\ Len(h) = n + 1 /\ DOMAIN history = 1 .. n /\ DOMAIN h = 1 .. n + 1
      /\ \A i \in 1 .. n : h[i] = history[i]
  OBVIOUS
<1>2. k \in Nat /\ k < Size /\ Size \in Nat /\ s.counts \in Seq(Nat) /\ Len(s.counts) = Size
  BY StateParts, StepsFacts DEF SoundState
<1>3. s.counts[k + 1] \in Nat
  BY <1>2
<1>4. ASSUME s.startedAt # -1
      PROVE  /\ \E i \in DOMAIN h : h[i].time = s.startedAt
             /\ \E cut \in [0 .. Size -> 0 .. Len(h)] :
                  /\ Divides(cut, k, h, s.startedAt, Steps)
                  /\ s.counts[k + 1] <=
                       Cardinality(Meeting(h, cut[k] + 1 .. Len(h), s.startedAt, Steps[k + 1]))
  <2> HIDE DEF h
  <2>1. PICK i \in DOMAIN history : history[i].time = s.startedAt
    BY <1>4 DEF SoundState
  <2>2. PICK cut \in [0 .. Size -> 0 .. n] :
            /\ Divides(cut, k, history, s.startedAt, Steps)
            /\ s.counts[k + 1] <=
                 Cardinality(Meeting(history, cut[k] + 1 .. n, s.startedAt, Steps[k + 1]))
    BY <1>4 DEF SoundState
  <2>3. cut \in [0 .. Size -> 0 .. Len(h)]
    BY <1>1
  <2>4. /\ \A j \in 0 .. k : cut[j] \in Nat
        /\ cut[k] <= n /\ cut[k] + 1 \in Nat \ {0} /\ cut[k] + 1 <= n + 1
    <3> HIDE DEF k, n
    <3>1. (\A j \in 0 .. k : j \in 0 .. Size) /\ k \in 0 .. k
      BY <1>2
    <3>2. \A j \in 0 .. k : cut[j] \in 0 .. n
      BY <3>1
    <3> QED BY <3>1, <3>2, <1>1
  <2>5. Divides(cut, k, h, s.startedAt, Steps)
    BY <2>2, <2>4, <1>2, CutOfPrefix DEF h
  <2>6. Cardinality(Meeting(history, cut[k] + 1 .. n, s.startedAt, Steps[k + 1]))
          <= Cardinality(Meeting(h, cut[k] + 1 .. Len(h), s.startedAt, Steps[k + 1]))
        /\ Cardinality(Meeting(history, cut[k] + 1 .. n, s.startedAt, Steps[k + 1])) \in Nat
        /\ Cardinality(Meeting(h, cut[k] + 1 .. Len(h), s.startedAt, Steps[k + 1])) \in Nat
    <3> DEFINE a == cut[k] + 1
               step == Steps[k + 1]
    <3>1. a \in Nat \ {0} /\ a <= Len(history) + 1
      BY <2>4
    <3> HIDE DEF a, step, k
    <3>2. LET before == Cardinality(Meeting(history, a .. Len(history), s.startedAt, step))
              after == Cardinality(Meeting(Append(history, e), a .. Len(Append(history, e)),
                                           s.startedAt, step))
          IN  before \in Nat /\ after \in Nat /\ before <= after
      BY <3>1, PartWithLast, SMTT(30)
    <3> QED BY <3>2 DEF a, step, k, h
  <2>7. s.counts[k + 1] <=
          Cardinality(Meeting(h, cut[k] + 1 .. Len(h), s.startedAt, Steps[k + 1]))
    BY <2>2, <2>6, <1>3
  <2>8. i \in DOMAIN h /\ h[i].time = s.startedAt
    BY <1>1, <2>1
  <2> QED BY <2>3, <2>5, <2>7, <2>8
<1> QED BY <1>4 DEF SoundState

(* An event that meets the step the state stands at. *)
LEMMA SoundCounts ==
    ASSUME NEW s \in ProgressState, NEW history \in Seq(Happened), NEW e \in Happened,
           SoundState(s, history, e.time), e.kind \in Steps[s.current + 1].kinds
    PROVE  SoundState(Counted(s, e.time), Append(history, e), e.time)
<1> DEFINE h == Append(history, e)
           n == Len(history)
           k == s.current
           t == e.time
           c == Counted(s, t)
<1>1. n \in Nat /\ Len(h) = n + 1 /\ DOMAIN history = 1 .. n /\ DOMAIN h = 1 .. n + 1
      /\ (\A i \in 1 .. n : h[i] = history[i]) /\ h[n + 1] = e
  OBVIOUS
<1>2. /\ k \in Nat /\ k < Size /\ Size \in Nat /\ s.counts \in Seq(Nat) /\ Len(s.counts) = Size
      /\ s.startedAt \in Int /\ t \in Nat /\ s.startedAt <= t
  BY StateParts, StepsFacts DEF SoundState, Happened
<1>3. /\ c.current = k /\ c.startedAt = (IF s.startedAt = -1 THEN t ELSE s.startedAt)
      /\ c.counts = [s.counts EXCEPT ![k + 1] = s.counts[k + 1] + 1]
  BY DEF Counted
<1>4. /\ Len(c.counts) = Size /\ c.counts[k + 1] = s.counts[k + 1] + 1
      /\ s.counts[k + 1] \in Nat
      /\ \A j \in k + 2 .. Size : c.counts[j] = s.counts[j]
  <2> HIDE DEF k, c
  <2>1. k + 1 \in 1 .. Size /\ \A j \in k + 2 .. Size : j \in 1 .. Size /\ j # k + 1
    BY <1>2
  <2>2. DOMAIN s.counts = 1 .. Size /\ \A j \in 1 .. Size : s.counts[j] \in Nat
    BY <1>2
  <2>3. c.counts \in Seq(Nat) /\ DOMAIN c.counts = 1 .. Size
    BY <1>2, <1>3, <2>1, <2>2
  <2>4. Len(c.counts) = Size
    BY <2>3, <1>2
  <2>5. c.counts[k + 1] = s.counts[k + 1] + 1
    BY <1>3, <2>1, <2>2
  <2>6. \A j \in k + 2 .. Size : c.counts[j] = s.counts[j]
    BY <1>3, <2>1, <2>2
  <2> QED BY <2>1, <2>2, <2>4, <2>5, <2>6
<1>5. c.startedAt <= t /\ c.startedAt # -1
  BY <1>2, <1>3
<1> SUFFICES SoundState(c, h, t)
  OBVIOUS
<1> HIDE DEF h, c
<1>6. CASE s.startedAt = -1
  <2> DEFINE cut == [j \in 0 .. Size |-> 0]
  <2>1. cut \in [0 .. Size -> 0 .. Len(h)] /\ cut[0] = 0
    BY <1>1, <1>2
  <2>2. k = 0 /\ s.counts[1] = 0
    BY <1>6 DEF SoundState
  <2>3. Divides(cut, 0, h, t, Steps)
    BY <2>1 DEF Divides
  <2>4. /\ Cardinality(Meeting(history, 1 .. n, t, Steps[1])) \in Nat
        /\ Cardinality(Meeting(h, 1 .. Len(h), t, Steps[1]))
             = Cardinality(Meeting(history, 1 .. n, t, Steps[1])) + 1
    <3>1. 1 \in Nat \ {0} /\ 1 <= n + 1 /\ e.time >= t /\ e.kind \in Steps[1].kinds
      BY <1>1, <1>2, <2>2
    <3> QED BY <3>1, PartWithLast DEF h
  <2>5. c.counts[1] <= Cardinality(Meeting(h, 1 .. Len(h), t, Steps[1]))
    BY <2>2, <2>4, <1>4
  <2>6. n + 1 \in DOMAIN h /\ h[n + 1].time = t /\ c.startedAt = t /\ c.current = 0
    BY <1>1, <1>3, <1>6, <2>2
  <2>7. \A j \in c.current + 2 .. Size : c.counts[j] = 0
    BY <1>3, <1>4 DEF SoundState
  <2>8. \E d \in [0 .. Size -> 0 .. Len(h)] :
            /\ Divides(d, 0, h, t, Steps)
            /\ c.counts[1] <= Cardinality(Meeting(h, d[0] + 1 .. Len(h), t, Steps[1]))
    <3>1. cut[0] + 1 = 1
      BY <2>1
    <3> HIDE DEF cut
    <3> QED BY <2>1, <2>3, <2>5, <3>1
  <2>9. c.current < Size /\ c.current + 1 = 1
    BY <2>6, <1>2, <2>2
  <2>10. \E i \in DOMAIN h : h[i].time = c.startedAt
    BY <2>6
  <2>11. \E d \in [0 .. Size -> 0 .. Len(h)] :
            /\ Divides(d, c.current, h, c.startedAt, Steps)
            /\ c.counts[c.current + 1] <=
                 Cardinality(Meeting(h, d[c.current] + 1 .. Len(h), c.startedAt, Steps[c.current + 1]))
    <3>1. PICK d \in [0 .. Size -> 0 .. Len(h)] :
            /\ Divides(d, 0, h, t, Steps)
            /\ c.counts[1] <= Cardinality(Meeting(h, d[0] + 1 .. Len(h), t, Steps[1]))
      BY <2>8
    <3>2. Divides(d, c.current, h, c.startedAt, Steps)
      BY <3>1, <2>6
    <3>3. c.counts[c.current + 1] <=
            Cardinality(Meeting(h, d[c.current] + 1 .. Len(h), c.startedAt, Steps[c.current + 1]))
      BY <3>1, <2>6
    <3> QED BY <3>2, <3>3
  <2> QED BY <2>7, <2>9, <2>10, <2>11, <1>4, <1>5 DEF SoundState
<1>7. CASE s.startedAt # -1
  <2>1. PICK i \in DOMAIN history : history[i].time = s.startedAt
    BY <1>7 DEF SoundState
  <2>2. PICK cut \in [0 .. Size -> 0 .. n] :
            /\ Divides(cut, k, history, s.startedAt, Steps)
            /\ s.counts[k + 1] <=
                 Cardinality(Meeting(history, cut[k] + 1 .. n, s.startedAt, Steps[k + 1]))
    BY <1>7 DEF SoundState
  <2>3. cut \in [0 .. Size -> 0 .. Len(h)]
    BY <1>1
  <2>4. /\ \A j \in 0 .. k : cut[j] \in Nat
        /\ cut[k] <= n /\ cut[k] + 1 \in Nat \ {0} /\ cut[k] + 1 <= n + 1
    <3> HIDE DEF k, n
    <3>1. (\A j \in 0 .. k : j \in 0 .. Size) /\ k \in 0 .. k
      BY <1>2
    <3>2. \A j \in 0 .. k : cut[j] \in 0 .. n
      BY <3>1
    <3> QED BY <3>1, <3>2, <1>1
  <2>5. Divides(cut, k, h, s.startedAt, Steps)
    BY <2>2, <2>4, <1>2, CutOfPrefix DEF h
  <2>6. /\ Cardinality(Meeting(history, cut[k] + 1 .. n, s.startedAt, Steps[k + 1])) \in Nat
        /\ Cardinality(Meeting(h, cut[k] + 1 .. Len(h), s.startedAt, Steps[k + 1]))
             = Cardinality(Meeting(history, cut[k] + 1 .. n, s.startedAt, Steps[k + 1])) + 1
    <3>1. e.time >= s.startedAt /\ e.kind \in Steps[k + 1].kinds
      BY <1>2
    <3> QED BY <2>4, <3>1, PartWithLast, SMTT(30) DEF h
  <2>7. c.counts[k + 1] <=
          Cardinality(Meeting(h, cut[k] + 1 .. Len(h), s.startedAt, Steps[k + 1]))
    BY <2>2, <2>6, <1>4
  <2>8. i \in DOMAIN h /\ h[i].time = s.startedAt
    BY <1>1, <2>1
  <2>9. c.startedAt = s.startedAt /\ c.current = k
    BY <1>3, <1>7
  <2>10. \A j \in c.current + 2 .. Size : c.counts[j] = 0
    BY <1>3, <1>4 DEF SoundState
  <2>11. \E d \in [0 .. Size -> 0 .. Len(h)] :
            /\ Divides(d, c.current, h, c.startedAt, Steps)
            /\ c.counts[c.current + 1] <=
                 Cardinality(Meeting(h, d[c.current] + 1 .. Len(h), c.startedAt, Steps[c.current + 1]))
    BY <2>3, <2>5, <2>7, <2>9
  <2>12. c.current < Size /\ \E j \in DOMAIN h : h[j].time = c.startedAt
    BY <2>8, <2>9, <1>2
  <2> QED BY <2>10, <2>11, <2>12, <1>4, <1>5 DEF SoundState
<1> QED BY <1>6, <1>7

(* The part that has all its step asks for is closed by a cut. *)
LEMMA SoundCut ==
    ASSUME NEW s \in ProgressState, NEW history \in Seq(Happened), NEW t,
           SoundState(s, history, t), s.counts[s.current + 1] >= Required(Steps[s.current + 1])
    PROVE  /\ s.startedAt # -1
           /\ \E cut \in [0 .. Size -> 0 .. Len(history)] :
                /\ cut[s.current + 1] = Len(history)
                /\ Divides(cut, s.current + 1, history, s.startedAt, Steps)
<1> DEFINE k == s.current
           n == Len(history)
           since == s.startedAt
<1>1. /\ k \in Nat /\ k < Size /\ Size \in Nat /\ s.counts \in Seq(Nat) /\ Len(s.counts) = Size
      /\ n \in Nat
  BY StateParts, StepsFacts DEF SoundState
<1>2. k + 1 \in 1 .. Size /\ s.counts[k + 1] \in Nat /\ Required(Steps[k + 1]) \in Nat \ {0}
  <2> HIDE DEF k
  <2>1. k + 1 \in 1 .. Size /\ DOMAIN s.counts = 1 .. Size
    BY <1>1
  <2>2. s.counts[k + 1] \in Nat
    BY <2>1, <1>1
  <2>3. Required(Steps[k + 1]) \in Nat \ {0}
    BY <2>1, StepsFacts
  <2> QED BY <2>1, <2>2, <2>3
<1>3. since # -1
  BY <1>2 DEF SoundState
<1>4. PICK old \in [0 .. Size -> 0 .. n] :
          /\ Divides(old, k, history, since, Steps)
          /\ s.counts[k + 1] <=
               Cardinality(Meeting(history, old[k] + 1 .. n, since, Steps[k + 1]))
  BY <1>3 DEF SoundState
<1> DEFINE cut == [old EXCEPT ![k + 1] = n]
<1>a. /\ s.current = k /\ Len(history) = n /\ s.startedAt = since
      /\ s.counts[k + 1] >= Required(Steps[k + 1])
  OBVIOUS
<1> HIDE DEF k, n, since
<1>5. /\ cut \in [0 .. Size -> 0 .. n] /\ cut[k + 1] = n
      /\ \A j \in 0 .. k : cut[j] = old[j] /\ j \in 0 .. Size /\ old[j] \in Nat /\ old[j] <= n
  BY <1>1
<1> HIDE DEF cut
<1>6. cut[0] = 0
  BY <1>1, <1>4, <1>5 DEF Divides
<1>7. ASSUME NEW i \in 0 .. k + 1, NEW j \in 0 .. k + 1, i <= j PROVE cut[i] <= cut[j]
  <2>1. CASE j = k + 1
    <3>1. cut[i] <= n
      <4>1. CASE i = k + 1
        BY <4>1, <1>1, <1>5
      <4>2. CASE i # k + 1
        <5>1. i \in 0 .. k
          BY <4>2, <1>1
        <5> QED BY <5>1, <1>5
      <4> QED BY <4>1, <4>2
    <3> QED BY <2>1, <3>1, <1>5
  <2>2. CASE j # k + 1
    <3>1. i \in 0 .. k /\ j \in 0 .. k
      BY <1>1, <1>7, <2>2
    <3> QED BY <3>1, <1>4, <1>5, <1>7 DEF Divides
  <2> QED BY <2>1, <2>2
<1>8. ASSUME NEW j \in 1 .. k + 1
      PROVE  Cardinality(Meeting(history, cut[j - 1] + 1 .. cut[j], since, Steps[j]))
               >= Required(Steps[j])
  <2>1. CASE j = k + 1
    <3>1. cut[j - 1] = old[k] /\ cut[j] = n /\ old[k] + 1 \in Int /\ n \in Int
      <4>1. k \in 0 .. k /\ j - 1 = k
        BY <1>1, <2>1
      <4>2. cut[k] = old[k] /\ old[k] \in Nat
        BY <4>1, <1>5
      <4>3. cut[j] = n
        BY <2>1, <1>5
      <4> QED BY <4>1, <4>2, <4>3, <1>1
    <3> DEFINE met == Cardinality(Meeting(history, old[k] + 1 .. n, since, Steps[k + 1]))
    <3>2. met \in Nat
      BY <3>1, MeetingIsFinite
    <3>3. met >= s.counts[k + 1]
      BY <1>4
    <3>4. met >= Required(Steps[k + 1])
      <4> HIDE DEF met
      <4> QED BY <3>2, <3>3, <1>2, <1>a
    <3> QED BY <3>1, <3>4, <2>1
  <2>2. CASE j # k + 1
    <3>1. j \in 1 .. k /\ j \in 0 .. k /\ j - 1 \in 0 .. k
      BY <1>1, <2>2
    <3> QED BY <3>1, <1>4, <1>5 DEF Divides
  <2> QED BY <2>1, <2>2
<1>9. Divides(cut, k + 1, history, since, Steps)
  BY <1>6, <1>7, <1>8 DEF Divides
<1>b. since # -1 /\ \E d \in [0 .. Size -> 0 .. n] :
         d[k + 1] = n /\ Divides(d, k + 1, history, since, Steps)
  BY <1>3, <1>5, <1>9
<1> QED BY <1>a, <1>b

LEMMA SoundAdvances ==
    ASSUME NEW s \in ProgressState, NEW history \in Seq(Happened), NEW t,
           SoundState(s, history, t), s.counts[s.current + 1] >= Required(Steps[s.current + 1]),
           s.current + 1 < Size
    PROVE  SoundState([s EXCEPT !.current = s.current + 1], history, t)
<1> DEFINE a == [s EXCEPT !.current = s.current + 1]
           k == s.current
           n == Len(history)
<1>1. a.current = k + 1 /\ a.counts = s.counts /\ a.startedAt = s.startedAt
  BY DEF ProgressState
<1>2. k \in Nat /\ Size \in Nat /\ n \in Nat /\ k + 2 \in k + 2 .. Size
  <2>1. k \in Nat /\ Size \in Nat /\ k + 1 < Size
    BY StateParts, StepsFacts
  <2>2. n \in Nat
    OBVIOUS
  <2> HIDE DEF k, n
  <2> QED BY <2>1, <2>2
<1>3. /\ s.startedAt # -1
      /\ \E cut \in [0 .. Size -> 0 .. n] :
           cut[k + 1] = n /\ Divides(cut, k + 1, history, s.startedAt, Steps)
  BY SoundCut
<1>4. PICK cut \in [0 .. Size -> 0 .. n] :
         cut[k + 1] = n /\ Divides(cut, k + 1, history, s.startedAt, Steps)
  BY <1>3
<1>5. s.counts[k + 2] = 0 /\ (k + 1) + 1 = k + 2
  <2>1. \A j \in k + 2 .. Size : s.counts[j] = 0
    BY DEF SoundState
  <2> HIDE DEF k
  <2> QED BY <1>2, <2>1
<1>6. s.counts[k + 2] <=
        Cardinality(Meeting(history, cut[k + 1] + 1 .. n, s.startedAt, Steps[k + 2]))
  <2>1. Cardinality(Meeting(history, cut[k + 1] + 1 .. n, s.startedAt, Steps[k + 2])) \in Nat
    BY <1>2, <1>4, MeetingIsFinite
  <2> QED BY <2>1, <1>5
<1>7. \A j \in a.current + 2 .. Size : a.counts[j] = 0
  <2>1. \A j \in (k + 1) + 2 .. Size : j \in k + 2 .. Size
    BY <1>2
  <2> QED BY <2>1, <1>1 DEF SoundState
<1> HIDE DEF a
<1> QED BY <1>1, <1>3, <1>4, <1>5, <1>6, <1>7 DEF SoundState, a

LEMMA SoundCompletes ==
    ASSUME NEW s \in ProgressState, NEW history \in Seq(Happened), NEW t, NEW since \in Int,
           SoundState(s, history, t), s.counts[s.current + 1] >= Required(Steps[s.current + 1]),
           s.current + 1 >= Size, since <= s.startedAt, history # <<>>,
           history[Len(history)].kind \in Steps[s.current + 1].kinds,
           history[Len(history)].time >= since
    PROVE  Fulfils(history, since, Steps)
<1> DEFINE n == Len(history)
<1>1. /\ s.current \in Nat /\ Size \in Nat /\ s.current + 1 = Size /\ Len(Steps) = Size
      /\ n \in Nat /\ s.startedAt \in Int
  BY StateParts, StepsFacts DEF SoundState
<1>2. n \in 1 .. n
  BY <1>1
<1>3. n \in Meeting(history, 1 .. n, since, Steps[Size])
  BY <1>1, <1>2 DEF Meeting
<1>4. PICK cut \in [0 .. Size -> 0 .. n] :
         cut[Size] = n /\ Divides(cut, Size, history, s.startedAt, Steps)
  BY <1>1, SoundCut
<1>5. ASSUME NEW k \in 1 .. Size
      PROVE  Cardinality(Meeting(history, cut[k - 1] + 1 .. cut[k], since, Steps[k]))
               >= Required(Steps[k])
  <2> DEFINE a == cut[k - 1] + 1
             b == cut[k]
  <2>1. a \in Int /\ b \in Int /\ a \in Nat \ {0} /\ b <= n /\ Required(Steps[k]) \in Nat
    <3>1. k \in 0 .. Size /\ k - 1 \in 0 .. Size
      BY <1>1
    <3>2. cut[k] \in 0 .. n /\ cut[k - 1] \in 0 .. n
      BY <3>1
    <3>3. Required(Steps[k]) \in Nat
      BY StepsFacts
    <3>4. /\ cut[k] \in Nat /\ cut[k] \in Int /\ cut[k] <= n
          /\ cut[k - 1] + 1 \in Nat \ {0} /\ cut[k - 1] + 1 \in Int
      <4>1. ASSUME NEW m \in Nat, NEW x \in 0 .. m, NEW y \in 0 .. m
            PROVE  x \in Nat /\ x <= m /\ y + 1 \in Nat \ {0}
        OBVIOUS
      <4> HIDE DEF n
      <4>2. n \in Nat
        BY <1>1
      <4> QED BY <3>2, <4>1, <4>2
    <3> QED BY <3>3, <3>4
  <2>2. \A i \in a .. b : i \in 1 .. n
    <3> SUFFICES ASSUME NEW i \in a .. b PROVE i \in 1 .. n
      OBVIOUS
    <3> HIDE DEF a, b, n
    <3>1. a \in Nat \ {0} /\ b \in Int /\ n \in Nat /\ b <= n
      BY <2>1, <1>1
    <3>2. i \in Int /\ a <= i /\ i <= b
      BY <3>1
    <3> QED BY <3>1, <3>2
  <2>3. \A i \in 1 .. n : history[i].time \in Nat
    <3>1. \A i \in 1 .. n : history[i] \in Happened
      OBVIOUS
    <3> QED BY <3>1 DEF Happened
  <2>4. Meeting(history, a .. b, s.startedAt, Steps[k]) \subseteq Meeting(history, a .. b, since, Steps[k])
    <3> HIDE DEF a, b, n
    <3>1. ASSUME NEW i \in a .. b, history[i].time >= s.startedAt
          PROVE  history[i].time >= since
      <4>1. history[i].time \in Nat
        BY <2>2, <2>3
      <4> QED BY <3>1, <4>1, <1>1
    <3> QED BY <3>1 DEF Meeting
  <2>5. /\ Cardinality(Meeting(history, a .. b, s.startedAt, Steps[k]))
             <= Cardinality(Meeting(history, a .. b, since, Steps[k]))
        /\ Cardinality(Meeting(history, a .. b, s.startedAt, Steps[k])) \in Nat
        /\ Cardinality(Meeting(history, a .. b, since, Steps[k])) \in Nat
    BY <2>1, <2>4, MeetingGrows, MeetingIsFinite
  <2>6. Cardinality(Meeting(history, a .. b, s.startedAt, Steps[k])) >= Required(Steps[k])
    BY <1>4 DEF Divides
  <2> QED BY <2>1, <2>5, <2>6
<1>6. Divides(cut, Size, history, since, Steps)
  BY <1>4, <1>5 DEF Divides
<1> QED BY <1>1, <1>3, <1>4, <1>6 DEF Fulfils

(* What Evaluate works on has been started within the window, if at all. *)
LEMMA WorkingIsSound ==
    ASSUME SequenceTypeOK, NEW t \in 0 .. MaxClock, NEW window \in Nat,
           progress # NoProgress => SoundState(progress, chain, t)
    PROVE  LET s == Working(Steps, window, t)
           IN  /\ s \in ProgressState /\ SoundState(s, chain, t)
               /\ s.startedAt # -1 => t - window <= s.startedAt
<1> DEFINE s == Working(Steps, window, t)
<1>1. s \in ProgressState
  BY WorkingState, RulesAssumption DEF Steps
<1>2. CASE progress = NoProgress \/ Expired(t, window)
  <2>1. s = Fresh(Steps)
    BY <1>2 DEF Working
  <2>2. s.startedAt = -1
    BY <2>1 DEF Fresh
  <2>3. SoundState(Fresh(Steps), chain, t)
    BY FreshIsSound, RulesAssumption
  <2> QED BY <1>1, <2>1, <2>2, <2>3
<1>3. CASE progress # NoProgress /\ ~Expired(t, window)
  <2>1. s = progress
    BY <1>3 DEF Working
  <2>2. s.startedAt # -1 => ~(t - s.startedAt > window)
    BY <1>3, <2>1 DEF Expired
  <2>3. s.startedAt \in Int /\ t \in Int
    BY <1>1, StateParts, RulesAssumption
  <2>4. s.startedAt # -1 => t - window <= s.startedAt
    <3> HIDE DEF s
    <3> QED BY <2>2, <2>3
  <2> QED BY <1>1, <1>3, <2>1, <2>4
<1> QED BY <1>2, <1>3

(* One event: the state stays sound, and a detected sequence is one. *)
LEMMA SoundEvaluation ==
    ASSUME SequenceTypeOK, NEW t \in 0 .. MaxClock, NEW window \in Nat, NEW kind \in Kinds,
           progress # NoProgress => SoundState(progress, chain, t),
           EvaluateSequence(kind, Steps, window, t)
    PROVE  /\ progress' # NoProgress => SoundState(progress', chain', t)
           /\ detected' > detected =>
                Fulfils(Append(chain, [kind |-> kind, time |-> t]), t - window, Steps)
<1> DEFINE s == Working(Steps, window, t)
           c == Counted(s, t)
           e == [kind |-> kind, time |-> t]
           h == Append(chain, e)
<1>1. /\ s \in ProgressState /\ SoundState(s, chain, t)
      /\ s.startedAt # -1 => t - window <= s.startedAt
  BY WorkingIsSound
<1>2. /\ s.current \in Nat /\ s.counts \in Seq(Nat) /\ s.startedAt \in Int /\ t \in Nat
      /\ s.current < Size /\ Len(s.counts) = Size /\ Size \in Nat /\ Len(Steps) = Size
      /\ detected \in Nat
  <2>1. s.current < Size /\ Len(s.counts) = Size
    BY <1>1 DEF SoundState
  <2> QED BY <1>1, <2>1, StateParts, StepsFacts, RulesAssumption DEF SequenceTypeOK
<1>3. /\ e \in Happened /\ chain \in Seq(Happened) /\ h \in Seq(Happened)
      /\ e.kind = kind /\ e.time = t
  <2>1. e \in Happened /\ chain \in Seq(Happened)
    BY DEF Happened, SequenceTypeOK
  <2> QED BY <2>1, AppendKeepsElements
<1>4. h # <<>> /\ h[Len(h)] = e
  BY <1>3
<1> HIDE DEF e, h
<1>5. /\ \/ ~Matches(s, kind, Steps) /\ NoMatch(s, Steps)
         \/ Matches(s, kind, Steps) /\ OutOfRange(s)
         \/ /\ Matches(s, kind, Steps) /\ s.current + 1 <= Len(s.counts)
            /\ Collect(c, Steps) \/ Advance(c, Steps) \/ Complete(c, Steps)
      /\ chain' = IF detected' > detected THEN <<>> ELSE h
  BY DEF EvaluateSequence, h, e
<1>6. CASE ~Matches(s, kind, Steps) /\ NoMatch(s, Steps)
  <2>1. progress' = s /\ detected' = detected
    BY <1>6 DEF NoMatch
  <2>2. chain' = h /\ ~(detected' > detected)
    BY <1>2, <1>5, <2>1
  <2>3. SoundState(s, h, t)
    BY <1>1, <1>3, SoundIgnores DEF h
  <2> QED BY <2>1, <2>2, <2>3
<1>7. ASSUME Matches(s, kind, Steps), OutOfRange(s) PROVE FALSE
  <2>1. s.current + 1 > Len(s.counts)
    BY <1>7 DEF OutOfRange
  <2> HIDE DEF s
  <2> QED BY <2>1, <1>2
<1>8. CASE Matches(s, kind, Steps) /\ (Collect(c, Steps) \/ Advance(c, Steps) \/ Complete(c, Steps))
  <2>1. e.kind \in Steps[s.current + 1].kinds
    BY <1>3, <1>8 DEF Matches
  <2>2. SoundState(c, h, t)
    BY <1>1, <1>3, <2>1, SoundCounts DEF h
  <2>3. /\ c \in ProgressState /\ c.current = s.current
        /\ t - window <= c.startedAt
    <3>1. s.current + 1 <= Len(s.counts)
      <4> HIDE DEF s
      <4> QED BY <1>2
    <3>2. c \in ProgressState /\ c.current = s.current
      BY <1>1, <3>1, CountedState
    <3>3. c.startedAt = IF s.startedAt = -1 THEN t ELSE s.startedAt
      BY DEF Counted
    <3> HIDE DEF c, s
    <3> QED BY <1>1, <1>2, <3>2, <3>3
  <2>4. c.current \in Nat /\ c.current < Size
    <3> HIDE DEF c, s
    <3> QED BY <2>3, <1>2
  <2> HIDE DEF c, s
  <2>5. CASE Collect(c, Steps)
    <3>1. progress' = c /\ detected' = detected
      BY <2>5 DEF Collect
    <3>2. chain' = h /\ ~(detected' > detected)
      BY <1>2, <1>5, <3>1
    <3> QED BY <2>2, <3>1, <3>2
  <2>6. CASE Advance(c, Steps)
    <3>1. /\ progress' = [c EXCEPT !.current = c.current + 1] /\ detected' = detected
          /\ c.counts[c.current + 1] >= Required(Steps[c.current + 1]) /\ c.current + 1 < Size
      BY <2>6, <1>2 DEF Advance
    <3>2. chain' = h /\ ~(detected' > detected)
      BY <1>2, <1>5, <3>1
    <3>3. SoundState([c EXCEPT !.current = c.current + 1], h, t)
      BY <1>3, <2>2, <2>3, <3>1, SoundAdvances
    <3> QED BY <3>1, <3>2, <3>3
  <2>7. CASE Complete(c, Steps)
    <3>1. /\ progress' = NoProgress
          /\ c.counts[c.current + 1] >= Required(Steps[c.current + 1]) /\ c.current + 1 >= Size
      BY <2>7, <1>2 DEF Complete
    <3>2. t - window \in Int /\ t >= t - window
      BY <1>2
    <3>3. Fulfils(h, t - window, Steps)
      BY <1>3, <1>4, <2>1, <2>2, <2>3, <3>1, <3>2, SoundCompletes
    <3> QED BY <3>1, <3>3 DEF h, e
  <2> QED BY <1>8, <2>5, <2>6, <2>7
<1> QED BY <1>5, <1>6, <1>7, <1>8

SoundInv ==
    reloads = 0 => ~resized /\ (progress # NoProgress => SoundState(progress, chain, now))

LEMMA SoundWaits ==
    ASSUME NEW s \in ProgressState, NEW history, NEW t \in Int, NEW u \in Int, t <= u,
           SoundState(s, history, t)
    PROVE  SoundState(s, history, u)
<1>1. s.startedAt <= u
  BY StateParts DEF SoundState
<1> QED BY <1>1 DEF SoundState

(* The rules an evaluation uses as long as there has been no reload. *)
LEMMA SequenceEvent ==
    ASSUME IInv, RulesStay, SoundInv, NEW w \in Workers, EvalSequence(w), reloads = 0
    PROVE  /\ task[w].kind \in Kinds /\ task[w].rules = FirstRules
           /\ now \in 0 .. MaxClock /\ now' = now /\ reloads' = reloads /\ resized' = resized
           /\ SequenceTypeOK /\ Within(progress, Size) /\ ~panicked
           /\ IF "sequence" \in FirstRules.enabled
                THEN EvaluateSequence(task[w].kind, Steps, FirstRules.seqWindow, now)
                ELSE UNCHANGED sequenceVars
<1>1. task[w] \in Tasks /\ task[w].rules = FirstRules
  BY DEF EvalSequence, Evaluating, IInv, TypeOK, Tasks, RulesStay
<1>2. task[w].kind \in Kinds
  BY <1>1 DEF Tasks
<1>3. IF "sequence" \in FirstRules.enabled
        THEN EvaluateSequence(task[w].kind, Steps, FirstRules.seqWindow, now)
        ELSE UNCHANGED sequenceVars
  BY <1>1 DEF EvalSequence, Steps
<1>4. now' = now /\ reloads' = reloads /\ resized' = resized
  BY DEF EvalSequence
<1>5. Within(progress, Size) /\ ~panicked
  BY DEF SoundInv, IInv, OneSize
<1> QED BY <1>1, <1>2, <1>3, <1>4, <1>5 DEF IInv, TypeOK

LEMMA SoundStep ==
    ASSUME IInv, RulesStay, SoundInv, [Next]_vars
    PROVE  SoundInv'
<1> SUFFICES ASSUME reloads' = 0
             PROVE  ~resized' /\ (progress' # NoProgress => SoundState(progress', chain', now'))
  BY DEF SoundInv
<1>1. CASE UNCHANGED <<sequenceVars, now, reloads, resized>>
  BY <1>1 DEF SoundInv, sequenceVars
<1>2. ASSUME NEW w \in Workers, EvalSequence(w)
      PROVE  ~resized' /\ (progress' # NoProgress => SoundState(progress', chain', now'))
  <2>1. reloads = 0 /\ reloads' = reloads /\ resized' = resized /\ now' = now /\ ~resized
    BY <1>2 DEF EvalSequence, SoundInv
  <2>2. CASE UNCHANGED sequenceVars
    BY <2>1, <2>2, <1>1
  <2>3. CASE EvaluateSequence(task[w].kind, Steps, FirstRules.seqWindow, now)
    <3>1. progress' # NoProgress => SoundState(progress', chain', now)
      BY <1>2, <2>1, <2>3, SequenceEvent, SoundEvaluation, StepsFacts DEF SoundInv
    <3> QED BY <2>1, <3>1
  <2> QED BY <1>2, <2>1, <2>2, <2>3, SequenceEvent
<1>3. CASE Reload
  <2>1. reloads' = reloads + 1 /\ reloads \in Nat
    BY <1>3 DEF Reload, IInv, TypeOK
  <2> QED BY <2>1
<1>4. CASE CleanupSequences
  <2>1. progress' = NoProgress /\ UNCHANGED <<reloads, resized>>
    BY <1>4 DEF CleanupSequences, CleanupSequence
  <2> QED BY <2>1 DEF SoundInv
<1>5. CASE Tick
  <2>1. UNCHANGED <<sequenceVars, reloads, resized>> /\ now' = now + 1 /\ now \in Int
    BY <1>5, RulesAssumption DEF Tick, IInv, TypeOK
  <2>2. progress # NoProgress => progress \in ProgressState
    BY DEF IInv, TypeOK, SequenceTypeOK, ProgressState
  <2>3. progress # NoProgress => SoundState(progress, chain, now + 1)
    BY <2>1, <2>2, SoundWaits DEF SoundInv
  <2> QED BY <2>1, <2>3 DEF SoundInv, sequenceVars
<1>6. CASE UNCHANGED vars
  <2>1. UNCHANGED <<sequenceVars, now, reloads, resized>>
    BY <1>6 DEF vars, sequenceVars
  <2> QED BY <2>1, <1>1
<1>7. ASSUME NEW w \in Workers, Start(w) \/ EvalThreshold(w)
      PROVE  ~resized' /\ (progress' # NoProgress => SoundState(progress', chain', now'))
  BY <1>1, <1>7 DEF Start, EvalThreshold
<1>8. CASE CleanupWindows
  BY <1>1, <1>8 DEF CleanupWindows
<1> QED BY <1>2, <1>3, <1>4, <1>5, <1>6, <1>7, <1>8 DEF Next

(* Only the worker itself takes its evaluation to the sequence rule's end. *)
LEMMA SequenceTurn ==
    ASSUME IInv, [Next]_vars, NEW w \in Workers, Evaluated(w, "sequence")
    PROVE  EvalSequence(w)
<1>1. /\ task \in [Workers -> {Idle} \cup Tasks] /\ task[w] # Idle /\ task[w].next = "sequence"
      /\ task'[w] # task[w]
  BY DEF Evaluated, Evaluating, IInv, TypeOK, Tasks
<1>2. ASSUME NEW v \in Workers, v # w, Start(v) \/ EvalThreshold(v) \/ EvalSequence(v) PROVE FALSE
  <2>1. task'[w] = task[w]
    BY <1>1, <1>2 DEF Start, EvalThreshold, EvalSequence
  <2> QED BY <2>1, <1>1
<1>3. ~Start(w) /\ ~EvalThreshold(w)
  BY <1>1 DEF Start, EvalThreshold, Evaluating
<1> QED
  BY <1>1, <1>2, <1>3 DEF Next, Reload, CleanupWindows, CleanupSequences, Tick, vars

(* sequence.go:50: whatever workers, cleanups and the clock do, an alert   *)
(* before the first reload means that all steps were matched in order      *)
(* within the window and since the last alert.                             *)
THEOREM DetectedSequencesHappened == Spec => SequenceIsSound
<1>1. Init => RulesStay /\ SoundInv
  BY DEF Init, SequenceInit, RulesStay, SoundInv
<1>2. ASSUME IInv, RulesStay, SoundInv, [Next]_vars, NEW w \in Workers,
             Evaluated(w, "sequence"), reloads = 0, detected' > detected
      PROVE  Fulfils(History(w), WindowStart(w), task[w].rules.steps)
  <2>1. EvalSequence(w)
    BY <1>2, SequenceTurn
  <2>2. task[w].rules = FirstRules
    BY <1>2, <2>1, SequenceEvent
  <2>3. EvaluateSequence(task[w].kind, Steps, FirstRules.seqWindow, now)
    <3>1. ASSUME UNCHANGED sequenceVars PROVE FALSE
      <4>1. detected' = detected /\ detected \in Nat
        BY <3>1, <1>2 DEF sequenceVars, IInv, TypeOK, SequenceTypeOK
      <4> QED BY <4>1, <1>2
    <3> QED BY <1>2, <2>1, <3>1, SequenceEvent
  <2>4. Fulfils(Append(chain, [kind |-> task[w].kind, time |-> now]), now - FirstRules.seqWindow, Steps)
    BY <1>2, <2>1, <2>3, SequenceEvent, SoundEvaluation, StepsFacts DEF SoundInv
  <2> QED BY <2>2, <2>4 DEF History, WindowStart, Steps
<1>3. IInv /\ RulesStay /\ SoundInv /\ [Next]_vars =>
        [\A w \in Workers :
            Evaluated(w, "sequence") /\ reloads = 0 /\ detected' > detected =>
                Fulfils(History(w), WindowStart(w), task[w].rules.steps)]_vars
  BY <1>2
<1>4. IInv /\ RulesStay /\ SoundInv /\ [Next]_vars => RulesStay' /\ SoundInv'
  BY RulesStayStep, SoundStep
<1> QED
  BY <1>1, <1>3, <1>4, InvariantHolds, PTL DEF Spec, SequenceIsSound

-----------------------------------------------------------------------------
(* A rule has steps, and each asks for some events. *)
Proper(steps) ==
    /\ Len(steps) \in Nat \ {0}
    /\ \A k \in 1 .. Len(steps) : Required(steps[k]) \in Nat \ {0}

(* Completeness.  The tracker takes each event for the earliest step that  *)
(* still lacks one.  After a prefix of the chain it therefore has passed   *)
(* as many steps as any division of that prefix could, and from the event  *)
(* g that ended the last of them it has counted all that meet the next.    *)
NoneBefore(g, k, history, steps) ==
    \A cut \in [0 .. Len(steps) -> Nat] :
        cut[k] <= Len(history) /\ Divides(cut, k, history, 0, steps) => g <= cut[k]

GreedyState(k, c, history, steps) ==
    /\ c < Required(steps[k + 1])
    /\ \E g \in 0 .. Len(history) :
        /\ Cardinality(Meeting(history, g + 1 .. Len(history), 0, steps[k + 1])) <= c
        /\ NoneBefore(g, k, history, steps)

LEMMA DividesFewer ==
    ASSUME NEW cut, NEW n \in Nat, NEW k \in 0 .. n, NEW history, NEW since, NEW steps,
           Divides(cut, n, history, since, steps)
    PROVE  Divides(cut, k, history, since, steps) /\ cut[k] <= cut[n]
<1>1. /\ \A j \in 0 .. k : j \in 0 .. n
      /\ \A j \in 1 .. k : j \in 1 .. n
      /\ n \in 0 .. n /\ k <= n
  OBVIOUS
<1>2. /\ cut[0] = 0 /\ \A i, j \in 0 .. k : i <= j => cut[i] <= cut[j]
      /\ cut[k] <= cut[n]
  BY <1>1 DEF Divides
<1>3. \A j \in 1 .. k :
        Cardinality(Meeting(history, cut[j - 1] + 1 .. cut[j], since, steps[j])) >= Required(steps[j])
  BY <1>1 DEF Divides
<1> QED BY <1>2, <1>3 DEF Divides

(* No division of the prefix gets past the step the tracker stands at. *)
LEMMA GreedyIsAhead ==
    ASSUME NEW steps, Proper(steps),
           NEW S, NEW history \in Seq(S), NEW k \in Nat, k < Len(steps), NEW c \in Nat,
           GreedyState(k, c, history, steps),
           NEW cut \in [0 .. Len(steps) -> Nat], Divides(cut, k + 1, history, 0, steps)
    PROVE  ~(cut[k + 1] <= Len(history))
<1> SUFFICES ASSUME cut[k + 1] <= Len(history) PROVE FALSE
  OBVIOUS
<1> DEFINE n == Len(history)
<1>1. /\ Len(steps) \in Nat /\ n \in Nat /\ k \in 0 .. Len(steps) /\ k + 1 \in 0 .. Len(steps)
      /\ k + 1 \in 1 .. k + 1 /\ k + 1 \in 1 .. Len(steps) /\ (k + 1) - 1 = k
  BY DEF Proper
<1>2. cut[k] \in Nat /\ cut[k + 1] \in Nat /\ Required(steps[k + 1]) \in Nat
  BY <1>1 DEF Proper
<1>3. Divides(cut, k, history, 0, steps) /\ cut[k] <= cut[k + 1]
  <2>1. k + 1 \in Nat /\ k \in 0 .. k + 1
    OBVIOUS
  <2> QED BY <2>1, DividesFewer
<1>4. PICK g \in 0 .. n :
        /\ Cardinality(Meeting(history, g + 1 .. n, 0, steps[k + 1])) <= c
        /\ NoneBefore(g, k, history, steps)
  BY DEF GreedyState
<1>5. c < Required(steps[k + 1])
  BY DEF GreedyState
<1> HIDE DEF n
<1>6. g <= cut[k]
  <2>1. cut[k] <= n
    BY <1>1, <1>2, <1>3 DEF n
  <2> QED BY <2>1, <1>3, <1>4 DEF NoneBefore, n
<1>7. \A i \in cut[k] + 1 .. cut[k + 1] : i \in g + 1 .. n
  <2> SUFFICES ASSUME NEW i \in cut[k] + 1 .. cut[k + 1] PROVE i \in g + 1 .. n
    OBVIOUS
  <2>1. cut[k + 1] <= n /\ g \in Nat
    BY <1>1 DEF n
  <2> QED BY <2>1, <1>1, <1>2, <1>6
<1>8. Meeting(history, cut[k] + 1 .. cut[k + 1], 0, steps[k + 1])
        \subseteq Meeting(history, g + 1 .. n, 0, steps[k + 1])
  BY <1>7 DEF Meeting
<1>9. cut[k] + 1 \in Int /\ cut[k + 1] \in Int /\ g + 1 \in Int /\ n \in Int
  BY <1>1, <1>2
<1>10. /\ Cardinality(Meeting(history, cut[k] + 1 .. cut[k + 1], 0, steps[k + 1]))
            <= Cardinality(Meeting(history, g + 1 .. n, 0, steps[k + 1]))
       /\ Cardinality(Meeting(history, cut[k] + 1 .. cut[k + 1], 0, steps[k + 1])) \in Nat
       /\ Cardinality(Meeting(history, g + 1 .. n, 0, steps[k + 1])) \in Nat
  BY <1>8, <1>9, MeetingGrows, MeetingIsFinite
<1>11. Cardinality(Meeting(history, cut[k] + 1 .. cut[k + 1], 0, steps[k + 1]))
         >= Required(steps[k + 1])
  BY <1>1 DEF Divides
<1> QED BY <1>2, <1>4, <1>5, <1>10, <1>11

LEMMA NoneBeforeAppended ==
    ASSUME NEW steps, Proper(steps),
           NEW S, NEW history \in Seq(S), NEW e \in S, NEW k \in Nat, k <= Len(steps),
           NEW g \in 0 .. Len(history), NoneBefore(g, k, history, steps)
    PROVE  NoneBefore(g, k, Append(history, e), steps)
<1> SUFFICES ASSUME NEW cut \in [0 .. Len(steps) -> Nat], cut[k] <= Len(Append(history, e)),
                    Divides(cut, k, Append(history, e), 0, steps)
             PROVE  g <= cut[k]
  BY DEF NoneBefore
<1>1. \A j \in 0 .. k : cut[j] \in Nat
  BY DEF Proper
<1>2. cut[k] \in Nat /\ Len(history) \in Nat /\ g <= Len(history) /\ g \in Nat
  BY <1>1
<1>3. CASE cut[k] <= Len(history)
  <2>1. Divides(cut, k, history, 0, steps)
    BY <1>1, <1>3, CutOfPrefix
  <2> QED BY <2>1, <1>3 DEF NoneBefore
<1> QED BY <1>2, <1>3

(* One event which the tracker's step does not ask for, or counts. *)
LEMMA GreedyCounts ==
    ASSUME NEW steps, Proper(steps),
           NEW S, NEW history \in Seq(S), NEW e \in S, NEW k \in Nat, k < Len(steps),
           NEW c \in Nat, GreedyState(k, c, history, steps), NEW d \in Nat,
           d < Required(steps[k + 1]), c <= d, e.kind \in steps[k + 1].kinds => d = c + 1,
           e.time \in Nat
    PROVE  GreedyState(k, d, Append(history, e), steps)
<1> DEFINE n == Len(history)
           h == Append(history, e)
<1>1. n \in Nat /\ Len(h) = n + 1 /\ e.time \in Nat
  OBVIOUS
<1>2. PICK g \in 0 .. n :
        /\ Cardinality(Meeting(history, g + 1 .. n, 0, steps[k + 1])) <= c
        /\ NoneBefore(g, k, history, steps)
  BY DEF GreedyState
<1>3. NoneBefore(g, k, h, steps)
  <2>1. k <= Len(steps)
    BY DEF Proper
  <2> QED BY <1>2, <2>1, NoneBeforeAppended
<1> DEFINE before == Cardinality(Meeting(history, g + 1 .. n, 0, steps[k + 1]))
           after == Cardinality(Meeting(h, g + 1 .. Len(h), 0, steps[k + 1]))
<1>4. /\ before \in Nat /\ after \in Nat
      /\ e.kind \in steps[k + 1].kinds => after = before + 1
      /\ e.kind \notin steps[k + 1].kinds => after = before
  <2>1. g + 1 \in Nat \ {0} /\ g + 1 <= n + 1 /\ e.time >= 0
    BY <1>1
  <2> QED BY <2>1, PartWithLast, SMTT(30)
<1>5. after <= d
  <2> HIDE DEF before, after
  <2>1. before <= c
    BY <1>2 DEF before
  <2> QED BY <1>4, <2>1
<1>6. g \in 0 .. Len(h)
  BY <1>1
<1> QED BY <1>3, <1>5, <1>6 DEF GreedyState

(* The event with which the tracker passes a step. *)
LEMMA GreedyAdvances ==
    ASSUME NEW steps, Proper(steps),
           NEW S, NEW history \in Seq(S), NEW e \in S, NEW k \in Nat, k + 1 < Len(steps),
           NEW c \in Nat, GreedyState(k, c, history, steps)
    PROVE  GreedyState(k + 1, 0, Append(history, e), steps)
<1> DEFINE n == Len(history)
           h == Append(history, e)
<1>1. n \in Nat /\ Len(h) = n + 1 /\ n + 1 \in 0 .. Len(h) /\ Len(steps) \in Nat /\ k < Len(steps)
      /\ (k + 1) + 1 \in 1 .. Len(steps)
  BY DEF Proper
<1>2. 0 < Required(steps[(k + 1) + 1])
  BY <1>1 DEF Proper
<1>3. Cardinality(Meeting(h, (n + 1) + 1 .. Len(h), 0, steps[(k + 1) + 1])) <= 0
  <2>1. (n + 1) + 1 .. Len(h) = {}
    BY <1>1
  <2>2. Meeting(h, (n + 1) + 1 .. Len(h), 0, steps[(k + 1) + 1]) = {}
    BY <2>1 DEF Meeting
  <2>3. Cardinality({}) = 0
    BY FS_EmptySet
  <2> HIDE DEF h
  <2>4. Cardinality(Meeting(h, (n + 1) + 1 .. Len(h), 0, steps[(k + 1) + 1])) = 0
    BY <2>2, <2>3
  <2> QED BY <2>4
<1>4. ASSUME NEW cut \in [0 .. Len(steps) -> Nat], Divides(cut, k + 1, h, 0, steps)
      PROVE  n + 1 <= cut[k + 1]
  <2>1. \A j \in 0 .. k + 1 : cut[j] \in Nat
    BY <1>1
  <2>2. cut[k + 1] \in Nat
    <3>1. k + 1 \in 0 .. k + 1
      OBVIOUS
    <3> QED BY <2>1, <3>1
  <2>3. ASSUME cut[k + 1] <= n PROVE FALSE
    <3>1. Divides(cut, k + 1, history, 0, steps)
      <4>1. k + 1 \in Nat
        OBVIOUS
      <4> QED BY <1>4, <2>1, <2>3, <4>1, CutOfPrefix
    <3> QED BY <3>1, <2>3, <1>1, GreedyIsAhead
  <2> QED BY <2>2, <2>3, <1>1
<1>5. NoneBefore(n + 1, k + 1, h, steps)
  BY <1>4 DEF NoneBefore
<1> QED BY <1>1, <1>2, <1>3, <1>5 DEF GreedyState

LEMMA GreedyStarts ==
    ASSUME NEW steps, Proper(steps)
    PROVE  GreedyState(0, 0, <<>>, steps)
<1>1. 0 < Required(steps[1]) /\ 0 \in 0 .. Len(steps)
  BY DEF Proper
<1>2. Len(<<>>) = 0 /\ 0 + 1 .. 0 = {} /\ 0 \in 0 .. 0 /\ 0 + 1 = 1
  OBVIOUS
<1>3. Cardinality(Meeting(<<>>, 0 + 1 .. Len(<<>>), 0, steps[0 + 1])) <= 0
  <2> DEFINE before == Meeting(<<>>, 0 + 1 .. Len(<<>>), 0, steps[0 + 1])
  <2>1. before = {} /\ Cardinality({}) = 0
    BY <1>2, FS_EmptySet DEF Meeting
  <2> HIDE DEF before
  <2>2. Cardinality(before) <= 0
    BY <2>1
  <2> QED BY <2>2 DEF before
<1>4. NoneBefore(0, 0, <<>>, steps)
  <2> SUFFICES ASSUME NEW cut \in [0 .. Len(steps) -> Nat] PROVE 0 <= cut[0]
    BY DEF NoneBefore
  <2> QED BY <1>1
<1>5. 0 \in 0 .. Len(<<>>) /\ 0 < Required(steps[0 + 1])
  BY <1>1, <1>2
<1> QED BY <1>3, <1>4, <1>5, Zenon DEF GreedyState

(* A chain that the reference finds within the window leaves the tracker   *)
(* at the last step, with all but the last event it asks for.              *)
LEMMA GreedyDetects ==
    ASSUME NEW steps, Proper(steps),
           NEW S, \A m \in S : m.time \in Nat, NEW history \in Seq(S), NEW e \in S, NEW k \in Nat, k < Len(steps),
           NEW c \in Nat, GreedyState(k, c, history, steps), NEW since \in Int,
           \A i \in DOMAIN Append(history, e) : Append(history, e)[i].time >= since,
           Fulfils(Append(history, e), since, steps)
    PROVE  k + 1 = Len(steps) /\ e.kind \in steps[k + 1].kinds /\ c + 1 >= Required(steps[k + 1])
<1> DEFINE n == Len(history)
           h == Append(history, e)
<1>1. /\ n \in Nat /\ Len(h) = n + 1 /\ h[n + 1] = e /\ DOMAIN h = 1 .. n + 1
      /\ Len(steps) \in Nat
      /\ \A i \in 1 .. n + 1 : h[i].time \in Nat /\ h[i].time >= since
  <2>1. h \in Seq(S) /\ DOMAIN h = 1 .. n + 1 /\ n \in Nat /\ Len(h) = n + 1 /\ h[n + 1] = e
    BY AppendKeepsElements
  <2>2. \A i \in 1 .. n + 1 : h[i] \in S
    BY <2>1
  <2>3. \A i \in 1 .. n + 1 : h[i].time \in Nat
    BY <2>2
  <2> QED BY <2>1, <2>3 DEF Proper
<1>2. /\ n + 1 \in Meeting(h, 1 .. n + 1, since, steps[Len(steps)])
      /\ \E cut \in [0 .. Len(steps) -> 0 .. n + 1] :
           cut[Len(steps)] = n + 1 /\ Divides(cut, Len(steps), h, since, steps)
  <2> HIDE DEF h, n
  <2> QED BY <1>1 DEF Fulfils, h, n
<1>3. PICK cut \in [0 .. Len(steps) -> 0 .. n + 1] :
        cut[Len(steps)] = n + 1 /\ Divides(cut, Len(steps), h, since, steps)
  BY <1>2
<1> HIDE DEF h, n
<1>4. \A j \in 0 .. Len(steps) : cut[j] \in Nat /\ cut[j] <= n + 1
  BY <1>1
<1>5. Divides(cut, Len(steps), h, 0, steps)
  <2> SUFFICES ASSUME NEW j \in 1 .. Len(steps)
               PROVE  Meeting(h, cut[j - 1] + 1 .. cut[j], since, steps[j])
                        = Meeting(h, cut[j - 1] + 1 .. cut[j], 0, steps[j])
    BY <1>3 DEF Divides
  <2>1. j \in 0 .. Len(steps) /\ j - 1 \in 0 .. Len(steps)
    BY <1>1
  <2>2. cut[j] \in Nat /\ cut[j] <= n + 1 /\ cut[j - 1] \in Nat
    BY <2>1, <1>4
  <2>3. \A i \in cut[j - 1] + 1 .. cut[j] : i \in 1 .. n + 1
    BY <2>2, <1>1
  <2>4. \A i \in cut[j - 1] + 1 .. cut[j] : h[i].time >= 0 /\ h[i].time >= since
    BY <2>3, <1>1
  <2> QED BY <2>4 DEF Meeting
<1>6. ASSUME NEW j \in 1 .. Len(steps) PROVE cut[j - 1] <= n
  <2>1. j \in 0 .. Len(steps) /\ j - 1 \in 0 .. Len(steps)
    BY <1>1
  <2>2. cut[j] \in Nat /\ cut[j] <= n + 1 /\ cut[j - 1] \in Nat
    BY <2>1, <1>4
  <2>3. ASSUME cut[j - 1] = n + 1 PROVE FALSE
    <3>1. cut[j - 1] + 1 .. cut[j] = {}
      BY <2>2, <2>3, <1>1
    <3>2. Meeting(h, cut[j - 1] + 1 .. cut[j], 0, steps[j]) = {} /\ Cardinality({}) = 0
      BY <3>1, FS_EmptySet DEF Meeting
    <3>3. Cardinality(Meeting(h, cut[j - 1] + 1 .. cut[j], 0, steps[j])) >= Required(steps[j])
      BY <1>5 DEF Divides
    <3>4. 0 >= Required(steps[j])
      BY <3>2, <3>3
    <3>5. Required(steps[j]) \in Nat \ {0}
      BY DEF Proper
    <3> QED BY <3>4, <3>5
  <2>4. cut[j - 1] <= n + 1
    BY <2>1, <1>4
  <2> QED BY <2>2, <2>3, <2>4, <1>1
<1>7. cut \in [0 .. Len(steps) -> Nat]
  BY <1>4
<1>8. k + 1 = Len(steps)
  <2> SUFFICES ASSUME k + 1 < Len(steps) PROVE FALSE
    BY <1>1
  <2>1. k + 1 \in 0 .. Len(steps) /\ k + 1 \in Nat /\ (k + 1) + 1 \in 1 .. Len(steps)
        /\ ((k + 1) + 1) - 1 = k + 1
    BY <1>1
  <2>2. cut[k + 1] <= n
    BY <2>1, <1>6
  <2>3. Divides(cut, k + 1, h, 0, steps)
    BY <2>1, <1>1, <1>5, DividesFewer
  <2>4. \A j \in 0 .. k + 1 : cut[j] \in Nat
    <3>1. \A j \in 0 .. k + 1 : j \in 0 .. Len(steps)
      BY <2>1, <1>1
    <3> QED BY <3>1, <1>4
  <2>5. Divides(cut, k + 1, history, 0, steps)
    BY <2>1, <2>2, <2>3, <2>4, CutOfPrefix DEF h, n
  <2> QED BY <2>2, <2>5, <1>7, GreedyIsAhead DEF n
<1>9. e.kind \in steps[k + 1].kinds
  BY <1>1, <1>2, <1>8 DEF Meeting
<1>10. c + 1 >= Required(steps[k + 1])
  <2>1. k \in 0 .. Len(steps) /\ k + 1 \in 1 .. Len(steps) /\ (k + 1) - 1 = k
    BY <1>1, <1>8
  <2>2. cut[k] <= n /\ cut[k] \in Nat /\ cut[k + 1] = n + 1
    BY <2>1, <1>3, <1>4, <1>6, <1>8
  <2>3. PICK g \in 0 .. n :
          /\ Cardinality(Meeting(history, g + 1 .. n, 0, steps[k + 1])) <= c
          /\ NoneBefore(g, k, history, steps)
    BY DEF GreedyState, n
  <2>4. g <= cut[k]
    <3>1. NoneBefore(g, k, h, steps)
      <4>1. k <= Len(steps) /\ g \in 0 .. Len(history)
        BY <1>1 DEF n
      <4> QED BY <2>3, <4>1, NoneBeforeAppended DEF h
    <3>2. Divides(cut, k, h, 0, steps)
      BY <2>1, <1>1, <1>5, DividesFewer
    <3>3. cut[k] <= Len(h)
      BY <2>2, <1>1
    <3> QED BY <3>1, <3>2, <3>3, <1>7 DEF NoneBefore
  <2> DEFINE part == Meeting(h, cut[k] + 1 .. n + 1, 0, steps[k + 1])
             all == Meeting(h, g + 1 .. n + 1, 0, steps[k + 1])
             before == Meeting(history, g + 1 .. n, 0, steps[k + 1])
  <2>5. Cardinality(part) >= Required(steps[k + 1])
    BY <2>1, <2>2, <1>5 DEF Divides
  <2>6. part \subseteq all
    <3>1. \A i \in cut[k] + 1 .. n + 1 : i \in g + 1 .. n + 1
      BY <2>2, <2>4, <1>1
    <3> QED BY <3>1 DEF Meeting
  <2>7. /\ Cardinality(part) <= Cardinality(all)
        /\ Cardinality(part) \in Nat /\ Cardinality(all) \in Nat
    <3>1. cut[k] + 1 \in Int /\ g + 1 \in Int /\ n + 1 \in Int
      BY <2>2, <1>1
    <3> QED BY <2>6, <3>1, MeetingGrows, MeetingIsFinite
  <2>8. Cardinality(all) <= Cardinality(before) + 1 /\ Cardinality(before) \in Nat
    <3>1. g + 1 \in Nat \ {0} /\ g + 1 <= n + 1
      BY <1>1
    <3>2. /\ Cardinality(Meeting(history, g + 1 .. Len(history), 0, steps[k + 1])) \in Nat
          /\ LET after == Cardinality(Meeting(Append(history, e), g + 1 .. Len(Append(history, e)),
                                              0, steps[k + 1]))
             IN  \/ after = Cardinality(Meeting(history, g + 1 .. Len(history), 0, steps[k + 1])) + 1
                 \/ after = Cardinality(Meeting(history, g + 1 .. Len(history), 0, steps[k + 1]))
      BY <3>1, PartWithLast DEF n
    <3>3. /\ Cardinality(before) \in Nat
          /\ Cardinality(all) = Cardinality(before) + 1 \/ Cardinality(all) = Cardinality(before)
      BY <3>2, <1>1 DEF h, n
    <3> HIDE DEF all, before
    <3> QED BY <3>3
  <2>9. Cardinality(before) <= c
    BY <2>3
  <2>10. Required(steps[k + 1]) \in Nat
    BY <2>1 DEF Proper
  <2> HIDE DEF part, all, before
  <2> QED BY <2>5, <2>7, <2>8, <2>9, <2>10
<1> QED BY <1>8, <1>9, <1>10

(* The state s of a group after a history in which it was not detected. *)
IsGreedy(s, history, steps) ==
    /\ s \in [current : Nat, counts : Seq(Nat), startedAt : Int]
    /\ s.current < Len(steps) /\ Len(s.counts) = Len(steps)
    /\ \A j \in s.current + 2 .. Len(steps) : s.counts[j] = 0
    /\ GreedyState(s.current, s.counts[s.current + 1], history, steps)

Greedy(s, history, steps) ==
    IF s = NoProgress THEN GreedyState(0, 0, history, steps) ELSE IsGreedy(s, history, steps)

LEMMA WorkingIsGreedy ==
    ASSUME NEW steps, Proper(steps), NEW history, Greedy(progress, history, steps),
           NEW window, NEW t, ~Expired(t, window)
    PROVE  IsGreedy(Working(steps, window, t), history, steps)
<1>1. CASE progress = NoProgress
  <2> DEFINE n == Len(steps)
             none == [i \in 1 .. n |-> 0]
  <2>1. n \in Nat /\ 0 < n
    BY DEF Proper
  <2>2. Working(steps, window, t) = [current |-> 0, counts |-> none, startedAt |-> -1]
    BY <1>1 DEF Working, Fresh
  <2>3. none \in Seq(Nat) /\ Len(none) = n /\ none[0 + 1] = 0 /\ \A j \in 0 + 2 .. n : none[j] = 0
    BY <2>1
  <2>4. GreedyState(0, 0, history, steps)
    BY <1>1 DEF Greedy
  <2> HIDE DEF none
  <2> QED BY <2>1, <2>2, <2>3, <2>4 DEF IsGreedy
<1>2. CASE progress # NoProgress
  BY <1>2 DEF Working, Greedy
<1> QED BY <1>1, <1>2

(* An event either completes the sequence, or the state goes on as before  *)
(* and no chain ends with it.                                              *)
LEMMA GreedyReacts ==
    ASSUME NEW steps, Proper(steps),
           NEW S, \A m \in S : m.time \in Nat, NEW history \in Seq(S), NEW e \in S,
           NEW window, NEW t \in Nat, ~Expired(t, window),
           detected \in Nat, Greedy(progress, history, steps),
           EvaluateSequence(e.kind, steps, window, t)
    PROVE  LET h == Append(history, e)
           IN  /\ panicked' = panicked
               /\ \/ detected' = detected + 1 /\ progress' = NoProgress
                  \/ /\ detected' = detected /\ Greedy(progress', h, steps)
                     /\ \A since \in Int :
                          (\A i \in DOMAIN h : h[i].time >= since) => ~Fulfils(h, since, steps)
<1> DEFINE s == Working(steps, window, t)
           k == s.current
           c == Counted(s, t)
           n == Len(steps)
           h == Append(history, e)
           States == [current : Nat, counts : Seq(Nat), startedAt : Int]
<1>1. IsGreedy(s, history, steps)
  BY WorkingIsGreedy
<1>2. \/ ~Matches(s, e.kind, steps) /\ NoMatch(s, steps)
      \/ Matches(s, e.kind, steps) /\ OutOfRange(s)
      \/ /\ Matches(s, e.kind, steps) /\ s.current + 1 <= Len(s.counts)
         /\ Collect(c, steps) \/ Advance(c, steps) \/ Complete(c, steps)
  BY DEF EvaluateSequence
<1> SUFFICES /\ panicked' = panicked
             /\ \/ detected' = detected + 1 /\ progress' = NoProgress
                \/ /\ detected' = detected /\ Greedy(progress', h, steps)
                   /\ \A since \in Int :
                        (\A i \in DOMAIN h : h[i].time >= since) => ~Fulfils(h, since, steps)
  OBVIOUS
<1> HIDE DEF s, h
<1>3. /\ s \in States /\ k \in Nat /\ k < n /\ n \in Nat /\ k + 1 \in 1 .. n
      /\ s.counts \in Seq(Nat) /\ Len(s.counts) = n /\ s.counts[k + 1] \in Nat
      /\ s.startedAt \in Int
      /\ \A j \in k + 2 .. n : s.counts[j] = 0 /\ j \in 1 .. n /\ j # k + 1
      /\ GreedyState(k, s.counts[k + 1], history, steps)
  BY <1>1 DEF IsGreedy, Proper
<1>4. /\ c \in States /\ c.current = k /\ Len(c.counts) = n
      /\ c.counts[k + 1] = s.counts[k + 1] + 1
      /\ \A j \in k + 2 .. n : c.counts[j] = 0
  <2> DEFINE counts == [s.counts EXCEPT ![k + 1] = s.counts[k + 1] + 1]
  <2>1. /\ counts \in Seq(Nat) /\ Len(counts) = n
        /\ counts[k + 1] = s.counts[k + 1] + 1 /\ \A j \in k + 2 .. n : counts[j] = 0
    <3> HIDE DEF k, n
    <3> QED BY <1>3, SMTT(30)
  <2>2. c = [current |-> k, counts |-> counts, startedAt |-> IF s.startedAt = -1 THEN t ELSE s.startedAt]
    BY DEF Counted
  <2> HIDE DEF counts, c
  <2> QED BY <1>3, <2>1, <2>2
<1> DEFINE required == Required(steps[k + 1])
<1>5. required \in Nat
  BY <1>3 DEF Proper
<1>6. ASSUME NEW since \in Int, \A i \in DOMAIN h : h[i].time >= since, Fulfils(h, since, steps)
      PROVE  k + 1 = n /\ e.kind \in steps[k + 1].kinds /\ s.counts[k + 1] + 1 >= required
  BY <1>3, <1>6, GreedyDetects DEF h
<1>7. NoProgress \notin States
  BY NoProgressAssumption
<1>8. \A x \in States : IsGreedy(x, h, steps) => Greedy(x, h, steps)
  BY <1>7 DEF Greedy
<1> HIDE DEF k, c, n, required
<1>9. CASE ~Matches(s, e.kind, steps) /\ NoMatch(s, steps)
  <2>1. progress' = s /\ detected' = detected /\ panicked' = panicked
    BY <1>9 DEF NoMatch
  <2>2. e.kind \notin steps[k + 1].kinds
    BY <1>3, <1>9 DEF Matches, k, n
  <2>3. s.counts[k + 1] < required
    BY <1>3 DEF GreedyState, required
  <2>4. GreedyState(k, s.counts[k + 1], h, steps)
    BY <1>3, <2>2, <2>3, GreedyCounts DEF h, n, required
  <2>5. IsGreedy(s, h, steps)
    BY <1>3, <2>4 DEF IsGreedy, k, n
  <2> QED BY <1>3, <1>6, <1>8, <2>1, <2>2, <2>5
<1>10. ASSUME Matches(s, e.kind, steps), OutOfRange(s) PROVE FALSE
  BY <1>3, <1>10 DEF OutOfRange, k
<1>11. CASE Matches(s, e.kind, steps) /\ Collect(c, steps)
  <2>1. progress' = c /\ detected' = detected /\ panicked' = panicked /\ c.counts[k + 1] < required
    BY <1>4, <1>11 DEF Collect, required
  <2>2. s.counts[k + 1] + 1 < required /\ s.counts[k + 1] + 1 \in Nat /\ s.counts[k + 1] <= s.counts[k + 1] + 1
    BY <1>3, <1>4, <2>1
  <2>3. GreedyState(k, s.counts[k + 1] + 1, h, steps)
    BY <1>3, <2>2, GreedyCounts DEF h, n, required
  <2>4. IsGreedy(c, h, steps)
    BY <1>3, <1>4, <2>3 DEF IsGreedy, n
  <2>5. ~(s.counts[k + 1] + 1 >= required)
    BY <1>5, <2>2
  <2> QED BY <1>4, <1>6, <1>8, <2>1, <2>4, <2>5
<1>12. CASE Matches(s, e.kind, steps) /\ Advance(c, steps)
  <2>1. /\ progress' = [c EXCEPT !.current = k + 1] /\ detected' = detected
        /\ panicked' = panicked /\ k + 1 < n
    BY <1>4, <1>12 DEF Advance, n
  <2>2. /\ progress' \in States /\ progress'.current = k + 1 /\ progress'.counts = c.counts
    <3>1. c \in States /\ k + 1 \in Nat
      BY <1>3, <1>4
    <3> QED BY <2>1, <3>1
  <2>3. GreedyState(k + 1, 0, h, steps)
    BY <1>3, <2>1, GreedyAdvances DEF h, n
  <2>4. c.counts[(k + 1) + 1] = 0 /\ \A j \in (k + 1) + 2 .. n : c.counts[j] = 0
    <3>1. (k + 1) + 1 \in k + 2 .. n /\ \A j \in (k + 1) + 2 .. n : j \in k + 2 .. n
      <4>1. k \in Nat /\ n \in Nat
        BY <1>3
      <4> QED BY <2>1, <4>1
    <3> QED BY <1>4, <3>1
  <2>5. IsGreedy(progress', h, steps)
    BY <1>4, <2>1, <2>2, <2>3, <2>4 DEF IsGreedy, n
  <2>6. k + 1 # n
    BY <1>3, <2>1
  <2> QED BY <1>6, <1>8, <2>1, <2>2, <2>5, <2>6
<1>13. CASE Complete(c, steps)
  BY <1>13 DEF Complete
<1> QED BY <1>2, <1>9, <1>10, <1>11, <1>12, <1>13

-----------------------------------------------------------------------------
LEMMA StepsAreProper == Proper(Steps)
BY StepsFacts DEF Proper

(* The chain has an event that the window has left behind. *)
StaleChain(history, t) == \E i \in DOMAIN history : history[i].time < t - FirstRules.seqWindow

GreedyInv == reloads = 0 => StaleChain(chain, now) \/ Greedy(progress, chain, Steps)

(* An alert ends the chain; every other event makes it longer. *)
LEMMA ChainEvent ==
    ASSUME SequenceTypeOK, NEW kind, NEW steps, NEW window, NEW t,
           EvaluateSequence(kind, steps, window, t)
    PROVE  \/ detected' > detected /\ chain' = <<>> /\ progress' = NoProgress
           \/ /\ ~(detected' > detected)
              /\ chain' = Append(chain, [kind |-> kind, time |-> t])
<1> DEFINE s == Working(steps, window, t)
           c == Counted(s, t)
<1>1. detected \in Nat
  BY DEF SequenceTypeOK
<1>2. detected' = detected \/ (detected' = detected + 1 /\ progress' = NoProgress)
  <2> HIDE DEF s, c
  <2>1. NoMatch(s, steps) \/ OutOfRange(s) \/ Collect(c, steps) \/ Advance(c, steps) \/ Complete(c, steps)
    BY DEF EvaluateSequence, s, c
  <2> QED BY <2>1 DEF NoMatch, OutOfRange, Collect, Advance, Complete
<1>3. chain' = IF detected' > detected THEN <<>> ELSE Append(chain, [kind |-> kind, time |-> t])
  BY DEF EvaluateSequence
<1> QED BY <1>1, <1>2, <1>3

(* A state whose window is over would have left an event behind. *)
LEMMA FreshIsNotExpired ==
    ASSUME SequenceTypeOK, NEW t \in 0 .. MaxClock,
           progress # NoProgress => SoundState(progress, chain, t), ~StaleChain(chain, t)
    PROVE  ~Expired(t, FirstRules.seqWindow)
<1> SUFFICES ASSUME progress # NoProgress, progress.startedAt # -1,
                    t - progress.startedAt > FirstRules.seqWindow
             PROVE  FALSE
  BY DEF Expired
<1>1. PICK i \in DOMAIN chain : chain[i].time = progress.startedAt
  BY DEF SoundState
<1>2. progress.startedAt \in Int /\ t \in Int /\ FirstRules.seqWindow \in Int
  BY StepsFacts, RulesAssumption DEF SequenceTypeOK
<1>3. chain[i].time < t - FirstRules.seqWindow
  BY <1>1, <1>2
<1> QED BY <1>3 DEF StaleChain

LEMMA GreedyEvaluation ==
    ASSUME SequenceTypeOK, NEW t \in 0 .. MaxClock, NEW kind \in Kinds,
           progress # NoProgress => SoundState(progress, chain, t),
           ~StaleChain(chain, t), Greedy(progress, chain, Steps),
           EvaluateSequence(kind, Steps, FirstRules.seqWindow, t)
    PROVE  LET window == FirstRules.seqWindow
               h == Append(chain, [kind |-> kind, time |-> t])
           IN  /\ Greedy(progress', chain', Steps)
               /\ (\A i \in DOMAIN h : h[i].time >= t - window) /\ Fulfils(h, t - window, Steps)
                    => detected' > detected
<1> DEFINE window == FirstRules.seqWindow
           e == [kind |-> kind, time |-> t]
           h == Append(chain, e)
<1>1. /\ window \in Int /\ t \in Nat /\ detected \in Nat
      /\ \A m \in Happened : m.time \in Nat
      /\ chain \in Seq(Happened) /\ e \in Happened /\ e.kind = kind
  BY StepsFacts, RulesAssumption DEF Happened, SequenceTypeOK
<1>2. ~Expired(t, window)
  BY FreshIsNotExpired
<1>3. \/ detected' = detected + 1 /\ progress' = NoProgress
      \/ /\ detected' = detected /\ Greedy(progress', h, Steps)
         /\ \A since \in Int :
              (\A i \in DOMAIN h : h[i].time >= since) => ~Fulfils(h, since, Steps)
  <2>1. EvaluateSequence(e.kind, Steps, window, t)
    OBVIOUS
  <2> HIDE DEF e, window
  <2> QED BY <1>1, <1>2, <2>1, StepsAreProper, GreedyReacts
<1>4. \/ detected' > detected /\ chain' = <<>> /\ progress' = NoProgress
      \/ ~(detected' > detected) /\ chain' = h
  BY ChainEvent
<1>5. t - window \in Int
  BY <1>1
<1> SUFFICES /\ Greedy(progress', chain', Steps)
             /\ (\A i \in DOMAIN h : h[i].time >= t - window) /\ Fulfils(h, t - window, Steps)
                  => detected' > detected
  OBVIOUS
<1> HIDE DEF e, h, window
<1>6. CASE detected' = detected + 1 /\ progress' = NoProgress
  <2>1. detected' > detected /\ chain' = <<>>
    BY <1>1, <1>4, <1>6
  <2> QED BY <1>1, <1>6, <2>1, GreedyStarts, StepsAreProper DEF Greedy
<1>7. CASE detected' = detected
  <2>1. ~(detected' = detected + 1) /\ ~(detected' > detected)
    BY <1>1, <1>7
  <2> QED BY <1>3, <1>4, <1>5, <2>1
<1> QED BY <1>3, <1>6, <1>7

LEMMA StaleStays ==
    ASSUME NEW history \in Seq(Happened), NEW t \in Int, NEW u \in Int, t <= u, StaleChain(history, t)
    PROVE  /\ StaleChain(history, u)
           /\ \A e \in Happened : StaleChain(Append(history, e), u)
<1>1. PICK i \in DOMAIN history : history[i].time < t - FirstRules.seqWindow
  BY DEF StaleChain
<1>2. history[i].time \in Int /\ FirstRules.seqWindow \in Int
  <2>1. history[i] \in Happened
    OBVIOUS
  <2> QED BY <2>1, StepsFacts DEF Happened
<1>3. history[i].time < u - FirstRules.seqWindow
  BY <1>1, <1>2
<1>4. \A e \in Happened : i \in DOMAIN Append(history, e) /\ Append(history, e)[i] = history[i]
  OBVIOUS
<1> QED BY <1>3, <1>4 DEF StaleChain

LEMMA GreedyStep ==
    ASSUME IInv, RulesStay, SoundInv, GreedyInv, [Next]_vars,
           CleanupAge >= FirstRules.seqWindow
    PROVE  GreedyInv'
<1> SUFFICES ASSUME reloads' = 0
             PROVE  StaleChain(chain', now') \/ Greedy(progress', chain', Steps)
  BY DEF GreedyInv
<1>a. /\ now \in 0 .. MaxClock /\ now \in Int /\ chain \in Seq(Happened)
      /\ SequenceTypeOK /\ reloads \in Nat
  BY RulesAssumption DEF IInv, TypeOK, SequenceTypeOK, Happened
<1>1. CASE UNCHANGED <<sequenceVars, now, reloads>>
  BY <1>1 DEF GreedyInv, sequenceVars
<1>2. ASSUME NEW w \in Workers, EvalSequence(w)
      PROVE  StaleChain(chain', now') \/ Greedy(progress', chain', Steps)
  <2> DEFINE e == [kind |-> task[w].kind, time |-> now]
  <2>1. reloads = 0 /\ reloads' = reloads /\ now' = now
    BY <1>2 DEF EvalSequence
  <2>2. CASE UNCHANGED sequenceVars
    BY <2>1, <2>2, <1>1
  <2>3. CASE EvaluateSequence(task[w].kind, Steps, FirstRules.seqWindow, now)
    <3>1. task[w].kind \in Kinds /\ e \in Happened
      BY <1>2, <1>a, <2>1, SequenceEvent DEF Happened
    <3>2. \/ chain' = <<>> /\ progress' = NoProgress
          \/ chain' = Append(chain, e)
      BY <1>a, <2>3, ChainEvent
    <3>3. CASE chain' = <<>> /\ progress' = NoProgress
      BY <3>3, GreedyStarts, StepsAreProper DEF Greedy
    <3>4. CASE StaleChain(chain, now) /\ chain' = Append(chain, e)
      BY <3>1, <3>4, <2>1, <1>a, StaleStays
    <3>5. CASE ~StaleChain(chain, now)
      <4>1. Greedy(progress, chain, Steps) /\ (progress # NoProgress => SoundState(progress, chain, now))
        BY <3>5, <2>1 DEF GreedyInv, SoundInv
      <4> QED BY <4>1, <3>1, <3>5, <2>3, <1>a, GreedyEvaluation
    <3> QED BY <3>2, <3>3, <3>4, <3>5
  <2> QED BY <1>2, <2>1, <2>2, <2>3, SequenceEvent
<1>3. CASE Reload
  <2>1. reloads' = reloads + 1
    BY <1>3 DEF Reload
  <2> QED BY <2>1, <1>a
<1>4. CASE CleanupSequences
  <2>1. /\ progress # NoProgress /\ progress.startedAt # -1 /\ progress.startedAt < now - CleanupAge
        /\ chain' = chain /\ now' = now /\ reloads = 0
    BY <1>4 DEF CleanupSequences, CleanupSequence
  <2>2. PICK i \in DOMAIN chain : chain[i].time = progress.startedAt
    BY <2>1 DEF SoundInv, SoundState
  <2>3. progress.startedAt \in Int /\ CleanupAge \in Int /\ FirstRules.seqWindow \in Int
    BY <1>a, <2>1, StepsFacts, RulesAssumption DEF SequenceTypeOK
  <2>4. chain[i].time < now - FirstRules.seqWindow
    BY <1>a, <2>1, <2>2, <2>3
  <2> QED BY <2>1, <2>4 DEF StaleChain
<1>5. CASE Tick
  <2>1. UNCHANGED <<progress, chain, reloads>> /\ now' = now + 1
    BY <1>5 DEF Tick, sequenceVars
  <2>2. now + 1 \in Int /\ now <= now + 1
    BY <1>a
  <2>3. StaleChain(chain, now) => StaleChain(chain, now + 1)
    BY <1>a, <2>2, StaleStays
  <2> QED BY <2>1, <2>3 DEF GreedyInv
<1>6. CASE UNCHANGED vars
  <2>1. UNCHANGED <<sequenceVars, now, reloads>>
    BY <1>6 DEF vars, sequenceVars
  <2> QED BY <2>1, <1>1
<1>7. ASSUME NEW w \in Workers, Start(w) \/ EvalThreshold(w)
      PROVE  StaleChain(chain', now') \/ Greedy(progress', chain', Steps)
  BY <1>1, <1>7 DEF Start, EvalThreshold
<1>8. CASE CleanupWindows
  BY <1>1, <1>8 DEF CleanupWindows
<1> QED BY <1>2, <1>3, <1>4, <1>5, <1>6, <1>7, <1>8 DEF Next

(* Conversely, when the cleanup leaves a sequence at least its window's    *)
(* time, a chain that lies within one window is detected with its last     *)
(* event, whatever else happens in between.  (A shorter maxAge would       *)
(* remove the state of a sequence that could still complete.)              *)
THEOREM ChainsAreDetected ==
    ASSUME CleanupAge >= FirstRules.seqWindow
    PROVE  Spec => SequenceIsComplete
<1>1. Init => RulesStay /\ SoundInv /\ GreedyInv
  BY GreedyStarts, StepsAreProper DEF Init, SequenceInit, RulesStay, SoundInv, GreedyInv, Greedy
<1>2. ASSUME IInv, RulesStay, SoundInv, GreedyInv, [Next]_vars, NEW w \in Workers,
             Evaluated(w, "sequence"), reloads = 0, "sequence" \in task[w].rules.enabled,
             \A i \in DOMAIN History(w) : History(w)[i].time >= WindowStart(w),
             Fulfils(History(w), WindowStart(w), task[w].rules.steps)
      PROVE  detected' > detected
  <2> DEFINE e == [kind |-> task[w].kind, time |-> now]
             h == Append(chain, e)
             start == now - FirstRules.seqWindow
  <2>1. EvalSequence(w)
    BY <1>2, SequenceTurn
  <2>2. /\ task[w].rules = FirstRules /\ task[w].kind \in Kinds /\ now \in 0 .. MaxClock
        /\ EvaluateSequence(task[w].kind, Steps, FirstRules.seqWindow, now)
        /\ SequenceTypeOK
    BY <1>2, <2>1, SequenceEvent
  <2>3. (\A i \in DOMAIN h : h[i].time >= start) /\ Fulfils(h, start, Steps)
    BY <1>2, <2>2 DEF History, WindowStart, Steps
  <2>4. ~StaleChain(chain, now)
    <3>1. e \in Happened /\ chain \in Seq(Happened)
      BY <2>2 DEF Happened, SequenceTypeOK
    <3>2. ASSUME NEW i \in DOMAIN chain PROVE ~(chain[i].time < start)
      <4>1. i \in DOMAIN h /\ h[i] = chain[i]
        BY <3>1
      <4>2. chain[i].time \in Int /\ start \in Int
        <5>1. chain[i] \in Happened
          BY <3>1
        <5> QED BY <5>1, <2>2, StepsFacts DEF Happened
      <4>3. h[i].time >= start
        BY <4>1, <2>3
      <4> QED BY <4>1, <4>2, <4>3
    <3> QED BY <3>2 DEF StaleChain
  <2>5. Greedy(progress, chain, Steps) /\ (progress # NoProgress => SoundState(progress, chain, now))
    BY <1>2, <2>4 DEF GreedyInv, SoundInv
  <2> QED BY <2>2, <2>3, <2>4, <2>5, GreedyEvaluation
<1>3. IInv /\ RulesStay /\ SoundInv /\ GreedyInv /\ [Next]_vars =>
        [\A w \in Workers :
            /\ Evaluated(w, "sequence") /\ reloads = 0 /\ "sequence" \in task[w].rules.enabled
            /\ \A i \in DOMAIN History(w) : History(w)[i].time >= WindowStart(w)
            /\ Fulfils(History(w), WindowStart(w), task[w].rules.steps)
            => detected' > detected]_vars
  BY <1>2
<1>4. IInv /\ RulesStay /\ SoundInv /\ GreedyInv /\ [Next]_vars => RulesStay' /\ SoundInv' /\ GreedyInv'
  BY RulesStayStep, SoundStep, GreedyStep
<1> QED
  BY <1>1, <1>3, <1>4, InvariantHolds, PTL DEF Spec, SequenceIsComplete
=============================================================================
