------------------------------- MODULE Replay -------------------------------
(***************************************************************************)
(* inch/internal/replay/replay.go: one replay of raw-events against a rule *)
(* engine of its own, while collectors go on writing to the topic.  The    *)
(* host is the partition key, so every host here is a partition.           *)
(*                                                                         *)
(* The topic holds the raw events: the tailer's (LogLines), without what a *)
(* worker adds to them (Enrichment).  One threshold and one sequence rule  *)
(* are followed for one group.  The replay selects records by the time the *)
(* collectors gave them, a window counts the times the agents gave the     *)
(* events, and the window of a sequence is one of the replay's wall clock. *)
(***************************************************************************)
EXTENDS LogLines, Enrichment, RuleMatching, WindowTracker, SequenceTracker

CONSTANTS
    Hosts,
    Nobody,       \* no host
    LogLine,      \* lines the tailers read
    Garbage,      \* a value that is no SecurityEvent
    Foreign,      \* partitions that may hold such values
    RuleDir,      \* the entries of the rules directory
    Group,        \* the group followed
    StartTime, EndTime,  \* of the request
    Lags,         \* of a host: how far its agent's and collectors' times may be behind
    MaxRecords, MaxTime  \* bounds

VARIABLES
    topic,      \* raw-events: the records of each partition
    clock,      \* the wall clock
    phase,      \* what HandleReplay is doing
    at,         \* the client's position in each partition
    visited,    \* EachRecord's position in each partition
    turn,       \* the partition EachRecord is going through
    done,       \* the partition in which a record after the end was found
    clientGone, \* the request's context is cancelled
    seen,       \* history: the records evaluated
    matches     \* history: results sent, rules and records

topicVars == <<topic, clock>>
engineVars == <<timestamps, counted, added, consumed, progress, panicked, chain, detected>>
replayVars == <<topic, clock, phase, at, visited, turn, done, clientGone, seen, matches,
                timestamps, counted, added, consumed, progress, panicked, chain, detected>>

Phases == {"request", "refused", "polling", "handling", "completed"}

(* A record: a line, the time at which its agent read it and the time a    *)
(* collector gave the record; <<h, i>> is its place.                       *)
Record(r) == topic[r[1]][r[2]]
Decodable(r) == Record(r).line # Garbage
EventOf(r) == ParseLine(Record(r).line, Record(r).read)
Records == UNION {{h} \X DOMAIN topic[h] : h \in Hosts}

Rules == LoadFromDir(RuleDir)
OfType(type) == {rule \in Rules : rule.type = type /\ IsEnabled(rule)}

ASSUME ReplayAssumption ==
    /\ \A line \in LogLine : line.host \in Hosts
    /\ Nobody \notin Hosts /\ Foreign \subseteq Hosts /\ Garbage \notin LogLine
    /\ StartTime \in Nat /\ EndTime \in Nat /\ MaxTime \in Nat
    /\ \A h \in Hosts : Lags[h] \subseteq Int \X Int
    /\ \A entry \in RuleDir : entry.parses => entry.rule \in Rule
    /\ \A type \in {"threshold", "sequence"} :
         \A rule, other \in OfType(type) : rule = other

ReplayInit ==
    /\ WindowInit /\ SequenceInit
    /\ topic = [h \in Hosts |-> <<>>] /\ clock = 0
    /\ phase = "request"
    /\ at = [h \in Hosts |-> 0] /\ visited = at
    /\ turn = Nobody /\ done = Nobody
    /\ clientGone = FALSE
    /\ seen = <<>> /\ matches = {}

-----------------------------------------------------------------------------
(* A record is written: a batch may have waited, and neither the agents'   *)
(* nor the collectors' clocks agree.  While a fetch is worked off it would *)
(* be as good as before the next poll.                                     *)
Produce(h, line) ==
    /\ phase \in {"request", "polling"}
    /\ Cardinality(Records) < MaxRecords
    /\ \E read, time \in 0 .. MaxTime :
        /\ <<clock - read, clock - time>> \in Lags[h]
        /\ topic' = [topic EXCEPT ![h] = Append(@, [line |-> line, read |-> read, time |-> time])]
    /\ UNCHANGED <<clock, phase, at, visited, turn, done, clientGone, seen, matches, engineVars>>

ClockTicks ==
    /\ phase \notin {"refused", "completed"} /\ clock < MaxTime
    /\ clock' = clock + 1
    /\ UNCHANGED <<topic, phase, at, visited, turn, done, clientGone, seen, matches, engineVars>>

(* A time is missing or malformed, the connection cannot stream, or there  *)
(* is no Kafka client.                                                     *)
Refuse ==
    /\ phase = "request"
    /\ phase' = "refused"
    /\ UNCHANGED <<topicVars, at, visited, turn, done, clientGone, seen, matches, engineVars>>

(* A client without a group, at the start of every partition, and an       *)
(* engine without a history.                                               *)
Begin ==
    /\ phase = "request"
    /\ phase' = "polling"
    /\ UNCHANGED <<topicVars, at, visited, turn, done, clientGone, seen, matches, engineVars>>

(* The analyst closes the connection, which only the next poll notices. *)
Disconnect ==
    /\ phase = "polling" /\ ~clientGone
    /\ clientGone' = TRUE
    /\ UNCHANGED <<topicVars, phase, at, visited, turn, done, seen, matches, engineVars>>

(* PollFetches returns records of some partitions. *)
PollReturns ==
    /\ phase = "polling" /\ ~clientGone
    /\ at' \in [Hosts -> 0 .. MaxRecords] /\ at' # at
    /\ \A h \in Hosts : at[h] <= at'[h] /\ at'[h] <= Len(topic[h])
    /\ phase' = "handling"
    /\ UNCHANGED <<topicVars, visited, turn, done, clientGone, seen, matches, engineVars>>

(* It returns with an error of some partition, or as the client is gone.   *)
PollFails ==
    /\ phase = "polling"
    /\ phase' = "completed"
    /\ UNCHANGED <<topicVars, at, visited, turn, done, clientGone, seen, matches, engineVars>>

-----------------------------------------------------------------------------
InGroup(event, rule) == GroupKey(event, rule.groupBy) = Group

(* The threshold rule counts the event. *)
Counts(event, rule) == MatchesConditions(event, rule.conditions) /\ InGroup(event, rule)

EvalThresholds(event) ==
    \/ \E rule \in OfType("threshold") :
        Counts(event, rule) /\ AddAndCheck(event.ts, rule.window, rule.threshold)
    \/ (\A rule \in OfType("threshold") : ~Counts(event, rule)) /\ UNCHANGED windowVars

(* The steps of a rule, with the lines that meet the conditions of each.   *)
StepsOf(rule) ==
    [i \in DOMAIN rule.steps |->
        [kinds |-> {l \in LogLine : MatchesConditions(ParseLine(l, 0), rule.steps[i].conditions)},
         count |-> rule.steps[i].count]]

EvalSequences(line, event) ==
    \/ \E rule \in OfType("sequence") :
        InGroup(event, rule) /\ EvaluateSequence(line, StepsOf(rule), rule.window, clock)
    \/ (\A rule \in OfType("sequence") : ~InGroup(event, rule)) /\ UNCHANGED sequenceVars

(* Engine.Evaluate on the raw event; every result is sent. *)
Evaluate(r) ==
    LET event == EventOf(r)
        fired == {rule \in OfType("single") : MatchesConditions(event, rule.conditions)}
                 \cup {rule \in OfType("threshold") : consumed' > consumed}
                 \cup {rule \in OfType("sequence") : detected' > detected}
    IN  /\ EvalThresholds(event)
        /\ EvalSequences(Record(r).line, event)
        /\ matches' = matches \cup (fired \X {r})
        /\ seen' = Append(seen, r)

(* Mutant: a record at the very end of the range is after it. *)
Later_Inclusive(r) == Record(r).time >= EndTime

Earlier(r) == Record(r).time < StartTime
Later(r) == Record(r).time > EndTime

(* The function given to EachRecord, which visits the records of one       *)
(* partition after the other.  Behind the first later record, of whatever  *)
(* partition, it does nothing any more.                                    *)
HandleRecord(h) ==
    /\ phase = "handling" /\ turn \in {Nobody, h} /\ visited[h] < at[h]
    /\ LET r == <<h, visited[h] + 1>>
           relevant == done = Nobody /\ ~Earlier(r) /\ ~Later(r) /\ Decodable(r)
       IN  /\ done' = IF done = Nobody /\ Later(r) THEN h ELSE done
           /\ \/ relevant /\ Evaluate(r)
              \/ ~relevant /\ UNCHANGED <<seen, matches, engineVars>>
    /\ visited' = [visited EXCEPT ![h] = @ + 1]
    /\ turn' = IF visited'[h] = at[h] THEN Nobody ELSE h
    /\ UNCHANGED <<topicVars, phase, at, clientGone>>

(* Mutant: done ends the fetch and not the replay. *)
EndOfFetch_Continues ==
    /\ phase = "handling" /\ visited = at
    /\ phase' = "polling"
    /\ UNCHANGED <<topicVars, at, visited, turn, done, clientGone, seen, matches, engineVars>>

EndOfFetch ==
    /\ phase = "handling" /\ visited = at
    /\ phase' = IF done = Nobody THEN "polling" ELSE "completed"
    /\ UNCHANGED <<topicVars, at, visited, turn, done, clientGone, seen, matches, engineVars>>

Handler ==
    \/ PollReturns \/ (\E h \in Hosts : HandleRecord(h)) \/ EndOfFetch
    \/ clientGone /\ PollFails

ReplayNext ==
    \/ \E line \in LogLine : Produce(line.host, line)
    \/ \E h \in Foreign : Produce(h, Garbage)
    \/ ClockTicks \/ Refuse \/ Begin \/ Disconnect \/ PollFails \/ Handler

ReplaySpec == ReplayInit /\ [][ReplayNext]_replayVars

(* The handler runs on, and a poll returns when there is something. *)
FairSpec == ReplaySpec /\ WF_replayVars(Handler)

-----------------------------------------------------------------------------
EngineTypeOK ==
    /\ IsFiniteSet(timestamps) /\ timestamps \subseteq [nth : 1 .. added, ts : 0 .. MaxTime]
    /\ added \in Nat /\ consumed \in Nat /\ detected \in Nat /\ panicked \in BOOLEAN
    /\ progress \in {NoProgress} \cup [current : Nat, counts : Seq(Nat), startedAt : -1 .. MaxTime]
    /\ chain \in Seq([kind : LogLine, time : 0 .. clock])

ReplayTypeOK ==
    /\ topic \in [Hosts -> Seq([line : LogLine \cup {Garbage}, read : 0 .. MaxTime, time : 0 .. MaxTime])]
    /\ clock \in 0 .. MaxTime /\ phase \in Phases
    /\ at \in [Hosts -> Nat] /\ visited \in [Hosts -> Nat]
    /\ turn \in Hosts \cup {Nobody} /\ done \in Hosts \cup {Nobody} /\ clientGone \in BOOLEAN
    /\ seen \in Seq(Records) /\ matches \subseteq Rules \X ToSet(seen)
    /\ EngineTypeOK

InRange(h) ==
    {r \in {h} \X DOMAIN topic[h] : Decodable(r) /\ Record(r).time \in StartTime .. EndTime}

(* The collectors gave the records of a partition ascending times. *)
InTimeOrder(h) ==
    \A i, j \in DOMAIN topic[h] : i < j => topic[h][i].time <= topic[h][j].time

(* replay.go:165: of every partition the replay evaluates the events of    *)
(* the range in their order, each once, and leaves none out before it      *)
(* ends or meets a later record; the partition of that record was          *)
(* evaluated to its end, if its times ascend (the others perhaps not).     *)
EndIsComplete ==
    /\ \A i, j \in DOMAIN seen : i < j /\ seen[i][1] = seen[j][1] => seen[i][2] < seen[j][2]
    /\ \A h \in Hosts : \E upto \in 0 .. visited[h] :
         /\ done = Nobody => upto = visited[h]
         /\ done = h => upto < visited[h] /\ Later(<<h, upto + 1>>)
         /\ {r \in ToSet(seen) : r[1] = h} = {r \in InRange(h) : r[2] <= upto}
    /\ phase = "completed" /\ done # Nobody /\ InTimeOrder(done)
         => InRange(done) \subseteq ToSet(seen)

(* What one host's events of the group in the range must lead to.          *)
GroupEvents(h, rule) == {r \in InRange(h) : InGroup(EventOf(r), rule)}

Burst(h, rule) ==
    \E hits \in SUBSET {r \in GroupEvents(h, rule) : Counts(EventOf(r), rule)} :
        /\ Cardinality(hits) = rule.threshold
        /\ \A q, r \in hits : EventOf(q).ts > EventOf(r).ts - rule.window

(* The first n records of a partition, as a sequence rule reads them; one  *)
(* that is none of the group's is Garbage, which meets no step.            *)
GroupHistory(h, rule, n) ==
    [i \in 1 .. n |->
        [kind |-> IF <<h, i>> \in GroupEvents(h, rule) THEN Record(<<h, i>>).line ELSE Garbage,
         time |-> 0]]

Chain(h, rule) ==
    \E n \in DOMAIN topic[h] : Fulfils(GroupHistory(h, rule, n), 0, StepsOf(rule))

Found(rule) == \E r \in ToSet(seen) : <<rule, r>> \in matches

(* The agent gave the group's events in the range ascending times. *)
ReadInOrder(h, rule) ==
    \A q, r \in GroupEvents(h, rule) : q[2] < r[2] => EventOf(q).ts <= EventOf(r).ts

(* No two of the group's events were evaluated further apart than the      *)
(* window; nothing of that follows from the events' own times.             *)
Quick(rule) == \A i, j \in DOMAIN chain : chain[j].time - chain[i].time <= rule.window

(* replay.go:14, temporal correlation and sequence detection: a burst or a *)
(* chain in the partition that was evaluated to its end is found, whatever *)
(* is between its events, if the collectors' times ascend, for a burst the *)
(* agent's times ascend, for a chain the replay took no longer than the    *)
(* window from the group's first event to its last (sequence.go:64 times   *)
(* it by the wall clock), and no other host has events of the group.       *)
PatternsAreFound ==
    phase = "completed" /\ done # Nobody =>
        \A rule \in OfType("threshold") \cup OfType("sequence") :
            /\ \A h \in Hosts \ {done} : GroupEvents(h, rule) = {}
            /\ InTimeOrder(done)
            /\ \/ rule.type = "threshold" /\ ReadInOrder(done, rule) /\ Burst(done, rule)
               \/ rule.type = "sequence" /\ Quick(rule) /\ Chain(done, rule)
            => Found(rule)

EnrichedFields ==
    {"severity", "geo_is_private", "geo_country", "threat_known", "threat_category"}
ReadsRaw(rule) ==
    \A i \in DOMAIN rule.conditions :
        LET field == rule.conditions[i].field
        IN  field \notin EnrichedFields /\ MetaKey[field] \notin EnrichedFields

(* A replay finds of single events what the processor finds, although it   *)
(* reads them before enrichment and classification, when the rule reads    *)
(* nothing of those.                                                       *)
ReplayMatchesLive ==
    \A r \in ToSet(seen) : \A rule \in OfType("single") :
        ReadsRaw(rule) =>
            (<<rule, r>> \in matches
               <=> MatchesConditions(Processed(EventOf(r)), rule.conditions))

(* The replay ends once the topic has a record after the range, or when    *)
(* the analyst leaves.                                                     *)
ReplayEnds ==
    phase = "polling" /\ (clientGone \/ \E r \in Records : Later(r))
        ~> phase = "completed"
=============================================================================
