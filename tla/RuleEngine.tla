----------------------------- MODULE RuleEngine -----------------------------
(***************************************************************************)
(* inch/internal/processor/rules/engine.go: workers evaluate events        *)
(* against the rules while a reload may swap them and a cleanup may remove *)
(* idle state.  Evaluate copies the list of rules once; each tracker is    *)
(* locked for one call, so the trackers see the events of several workers  *)
(* in different orders.                                                    *)
(*                                                                         *)
(* A rule set is one threshold and one sequence rule with the same group;  *)
(* conditions are the event kinds that meet them.  Rules of type single    *)
(* keep no state and are left out.                                         *)
(***************************************************************************)
EXTENDS WindowTracker, SequenceTracker

CONSTANTS
    Workers,
    Idle,        \* a worker without an event
    Kinds,       \* event kinds the conditions tell apart
    RuleSets,    \* the sets a reload may bring
    FirstRules,  \* the set New gets
    CleanupAge,  \* maxAge of the cleanup
    MaxDelay,    \* bound: an event's timestamp is at most so far in the past
    MaxEvents, MaxReloads, MaxClock  \* bounds

StepType == [kinds : SUBSET Kinds, count : Int]

ASSUME RulesAssumption ==
    /\ FirstRules \in RuleSets /\ MaxClock \in Nat /\ CleanupAge \in Int
    /\ \A r \in RuleSets :
        /\ r.enabled \subseteq {"threshold", "sequence"}
        /\ r.kinds \subseteq Kinds
        /\ r.threshold \in Nat \ {0} /\ r.window \in Nat \ {0}
        /\ r.steps \in Seq(StepType) /\ Len(r.steps) >= 2
        /\ r.seqWindow \in Nat \ {0}

VARIABLES
    rules,    \* Engine.rules
    task,     \* what each worker evaluates
    now,      \* the wall clock
    events,   \* history: events so far
    reloads,  \* history: reloads so far
    resized,  \* history: a reload changed the number of steps
    latest,   \* history: the latest timestamp the window has seen
    inOrder   \* history: the window has seen timestamps in their order

vars == <<timestamps, counted, added, consumed, progress, panicked, chain, detected,
          rules, task, now, events, reloads, resized, latest, inOrder>>

Init ==
    /\ WindowInit /\ SequenceInit
    /\ rules = FirstRules
    /\ task = [w \in Workers |-> Idle]
    /\ now = 0
    /\ events = 0 /\ reloads = 0 /\ resized = FALSE /\ latest = 0 /\ inOrder = TRUE

-----------------------------------------------------------------------------
(* Evaluate: read the rules, and the event's timestamp. *)
Start(w) ==
    /\ ~panicked /\ task[w] = Idle
    /\ events < MaxEvents
    /\ events' = events + 1
    /\ \E kind \in Kinds, ts \in {t \in 0 .. now : now - t <= MaxDelay} :
         task' = [task EXCEPT ![w] =
            [kind |-> kind, ts |-> ts, rules |-> rules, next |-> "threshold"]]
    /\ UNCHANGED <<windowVars, sequenceVars, rules, now, reloads, resized, latest, inOrder>>

Evaluating(w, type) == ~panicked /\ task[w] # Idle /\ task[w].next = type

EvalThreshold(w) ==
    /\ Evaluating(w, "threshold")
    /\ LET e == task[w]
       IN  IF "threshold" \in e.rules.enabled /\ e.kind \in e.rules.kinds
             THEN /\ AddAndCheck(e.ts, e.rules.window, e.rules.threshold)
                  /\ inOrder' = (inOrder /\ latest <= e.ts)
                  /\ latest' = IF latest <= e.ts THEN e.ts ELSE latest
             ELSE UNCHANGED <<windowVars, latest, inOrder>>
    /\ task' = [task EXCEPT ![w].next = "sequence"]
    /\ UNCHANGED <<sequenceVars, rules, now, events, reloads, resized>>

EvalSequence(w) ==
    /\ Evaluating(w, "sequence")
    /\ LET e == task[w]
       IN  IF "sequence" \in e.rules.enabled
             THEN EvaluateSequence(e.kind, e.rules.steps, e.rules.seqWindow, now)
             ELSE UNCHANGED sequenceVars
    /\ task' = [task EXCEPT ![w] = Idle]
    /\ UNCHANGED <<windowVars, rules, now, events, reloads, resized, latest, inOrder>>

Reload ==
    /\ ~panicked /\ reloads < MaxReloads
    /\ reloads' = reloads + 1
    /\ rules' \in RuleSets \ {rules}
    /\ resized' = (resized \/ Len(rules'.steps) # Len(rules.steps))
    /\ UNCHANGED <<windowVars, sequenceVars, task, now, events, latest, inOrder>>

(* StartCleanup's two calls; each locks its tracker on its own. *)
CleanupWindows ==
    /\ ~panicked
    /\ CleanupWindow(now, CleanupAge)
    /\ UNCHANGED <<sequenceVars, rules, task, now, events, reloads, resized, latest, inOrder>>

CleanupSequences ==
    /\ ~panicked
    /\ CleanupSequence(now, CleanupAge)
    /\ UNCHANGED <<windowVars, rules, task, now, events, reloads, resized, latest, inOrder>>

Tick ==
    /\ now < MaxClock
    /\ now' = now + 1
    /\ UNCHANGED <<windowVars, sequenceVars, rules, task, events, reloads, resized, latest, inOrder>>

Next ==
    \/ \E w \in Workers : Start(w) \/ EvalThreshold(w) \/ EvalSequence(w)
    \/ Reload \/ CleanupWindows \/ CleanupSequences \/ Tick

Spec == Init /\ [][Next]_vars

-----------------------------------------------------------------------------
Thresholds == {r.threshold : r \in RuleSets}

WindowTypeOK ==
    /\ added \in Nat /\ consumed \in Nat
    /\ timestamps \subseteq counted /\ IsFiniteSet(counted)
    /\ counted \subseteq [nth : 1 .. added, ts : 0 .. MaxClock]
    /\ \E t \in Thresholds : Cardinality(timestamps) < t

SequenceTypeOK ==
    /\ progress \in {NoProgress} \cup
         [current : Nat, counts : Seq(Nat), startedAt : -1 .. MaxClock]
    /\ panicked \in BOOLEAN /\ detected \in Nat
    /\ chain \in Seq([kind : Kinds, time : 0 .. MaxClock])

TypeOK ==
    /\ WindowTypeOK /\ SequenceTypeOK
    /\ rules \in RuleSets
    /\ task \in [Workers -> {Idle} \cup
         [kind : Kinds, ts : 0 .. MaxClock, rules : RuleSets, next : {"threshold", "sequence"}]]
    /\ now \in 0 .. MaxClock
    /\ events \in Nat /\ reloads \in Nat
    /\ resized \in BOOLEAN /\ latest \in 0 .. MaxClock /\ inOrder \in BOOLEAN

(* temporal.go:82: an alert needs a fresh set of events.  No event counts  *)
(* towards two alerts, in whatever order events arrive and rules change.   *)
CountedOnce == consumed + Cardinality(timestamps) <= added

Evaluated(w, type) == Evaluating(w, type) /\ task'[w] # task[w]

(* The window, pruned and cleaned up as it goes along, decides like one    *)
(* that keeps every event since the last alert, as long as timestamps come *)
(* in order, not later than the cleanup leaves time for, and the rules     *)
(* stay.                                                                   *)
ThresholdIsExact ==
    [][\A w \in Workers :
        Evaluated(w, "threshold") /\ inOrder' /\ reloads = 0 /\ added' > added =>
            LET e == task[w]
                late == now - e.ts > CleanupAge - e.rules.window
                recent == {entry \in counted : entry.ts > e.ts - e.rules.window}
            IN  ~late => (consumed' > consumed <=> Cardinality(recent) + 1 >= e.rules.threshold)]_vars

History(w) == Append(chain, [kind |-> task[w].kind, time |-> now])
WindowStart(w) == now - task[w].rules.seqWindow

(* sequence.go:50: an alert means that all steps were matched in order     *)
(* within the window and since the last alert.                             *)
SequenceIsSound ==
    [][\A w \in Workers :
        Evaluated(w, "sequence") /\ reloads = 0 /\ detected' > detected =>
            Fulfils(History(w), WindowStart(w), task[w].rules.steps)]_vars

(* Conversely a chain is detected, whatever else happens in between, as    *)
(* long as everything since the last alert lies within one window.  (A     *)
(* chain that overlaps an earlier, unfinished one may be missed.)          *)
SequenceIsComplete ==
    [][\A w \in Workers :
        /\ Evaluated(w, "sequence") /\ reloads = 0 /\ "sequence" \in task[w].rules.enabled
        /\ \A i \in DOMAIN History(w) : History(w)[i].time >= WindowStart(w)
        /\ Fulfils(History(w), WindowStart(w), task[w].rules.steps)
        => detected' > detected]_vars

(* Reloads that keep the number of steps never make an evaluation, also    *)
(* one in flight with the old rules, index past the counters, nor leave a  *)
(* group behind the last step ("shouldn't happen", sequence.go:80).        *)
ReloadIsSafe ==
    ~resized => ~panicked /\ (progress # NoProgress => progress.current < Len(progress.counts))
=============================================================================
