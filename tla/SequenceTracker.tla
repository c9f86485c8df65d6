-------------------------- MODULE SequenceTracker --------------------------
(***************************************************************************)
(* inch/internal/processor/rules/sequence.go: the progress of one group    *)
(* through one sequence rule.  A step is the set of event kinds that meet  *)
(* its conditions and a count.  Progress is timed by the wall clock, not   *)
(* by the events' timestamps.                                              *)
(***************************************************************************)
EXTENDS Integers, Sequences, SequencesExt, FiniteSets

CONSTANT NoProgress  \* no entry in the tracker's map

ASSUME NoProgressAssumption ==
    NoProgress \notin [current : Nat, counts : Seq(Nat), startedAt : Int]

VARIABLES
    progress,  \* sequenceState: current (from 0), counts, startedAt (-1: the zero time)
    panicked,  \* history: an index was out of range
    chain,     \* history: kind and time of the events since the last alert
    detected   \* history: sequences detected

sequenceVars == <<progress, panicked, chain, detected>>

SequenceInit == progress = NoProgress /\ panicked = FALSE /\ chain = <<>> /\ detected = 0

(* Mutant: the window never expires. *)
Expired_Never(now, window) == FALSE

Expired(now, window) ==
    /\ progress # NoProgress
    /\ progress.startedAt # -1 /\ now - progress.startedAt > window

Fresh(steps) == [current |-> 0, counts |-> [i \in 1 .. Len(steps) |-> 0], startedAt |-> -1]

(* The state Evaluate works on. *)
Working(steps, window, now) ==
    IF progress = NoProgress \/ Expired(now, window) THEN Fresh(steps) ELSE progress

Required(step) == IF step.count <= 0 THEN 1 ELSE step.count

Matches(s, kind, steps) ==
    s.current < Len(steps) /\ kind \in steps[s.current + 1].kinds

Counted(s, now) ==
    [current |-> s.current,
     counts |-> [s.counts EXCEPT ![s.current + 1] = @ + 1],
     startedAt |-> IF s.startedAt = -1 THEN now ELSE s.startedAt]

(* Mutant: an event of another kind starts the sequence anew. *)
NoMatch_StartsOver(s, steps) ==
    progress' = Fresh(steps) /\ UNCHANGED <<panicked, detected>>

NoMatch(s, steps) == progress' = s /\ UNCHANGED <<panicked, detected>>

OutOfRange(s) ==
    /\ s.current + 1 > Len(s.counts)
    /\ panicked' = TRUE
    /\ UNCHANGED <<progress, detected>>

Collect(s, steps) ==
    /\ s.counts[s.current + 1] < Required(steps[s.current + 1])
    /\ progress' = s
    /\ UNCHANGED <<panicked, detected>>

Advance(s, steps) ==
    /\ s.counts[s.current + 1] >= Required(steps[s.current + 1])
    /\ s.current + 1 < Len(steps)
    /\ progress' = [s EXCEPT !.current = @ + 1]
    /\ UNCHANGED <<panicked, detected>>

(* Mutant: the state stays behind the last step. *)
Complete_NotDeleted(s, steps) ==
    /\ s.counts[s.current + 1] >= Required(steps[s.current + 1])
    /\ s.current + 1 >= Len(steps)
    /\ progress' = [s EXCEPT !.current = @ + 1]
    /\ detected' = detected + 1
    /\ UNCHANGED panicked

Complete(s, steps) ==
    /\ s.counts[s.current + 1] >= Required(steps[s.current + 1])
    /\ s.current + 1 >= Len(steps)
    /\ progress' = NoProgress
    /\ detected' = detected + 1
    /\ UNCHANGED panicked

EvaluateSequence(kind, steps, window, now) ==
    LET s == Working(steps, window, now)
        counted == Counted(s, now)
    IN  /\ \/ ~Matches(s, kind, steps) /\ NoMatch(s, steps)
           \/ Matches(s, kind, steps) /\ OutOfRange(s)
           \/ /\ Matches(s, kind, steps) /\ s.current + 1 <= Len(s.counts)
              /\ Collect(counted, steps) \/ Advance(counted, steps) \/ Complete(counted, steps)
        /\ chain' = IF detected' > detected THEN <<>>
                    ELSE Append(chain, [kind |-> kind, time |-> now])

CleanupSequence(now, maxAge) ==
    /\ progress # NoProgress
    /\ progress.startedAt # -1 /\ progress.startedAt < now - maxAge
    /\ progress' = NoProgress
    /\ UNCHANGED <<panicked, chain, detected>>

-----------------------------------------------------------------------------
(* The events of a part of the history, since some time, that meet a step. *)
Meeting(history, part, since, step) ==
    {i \in part : history[i].kind \in step.kinds /\ history[i].time >= since}

(* The history up to cut[n] divides into one part for each of n steps,     *)
(* each with as many events as its step asks for.                          *)
Divides(cut, n, history, since, steps) ==
    /\ cut[0] = 0
    /\ \A j, k \in 0 .. n : j <= k => cut[j] <= cut[k]
    /\ \A k \in 1 .. n :
        Cardinality(Meeting(history, cut[k - 1] + 1 .. cut[k], since, steps[k]))
            >= Required(steps[k])

(* Reference: the events since some time meet all steps in their order,    *)
(* and the last event is one that the last step asked for.                 *)
Fulfils(history, since, steps) ==
    LET n == Len(steps)
        last == Len(history)
    IN  /\ last \in Meeting(history, 1 .. last, since, steps[n])
        /\ \E cut \in [0 .. n -> 0 .. last] :
            cut[n] = last /\ Divides(cut, n, history, since, steps)
=============================================================================
