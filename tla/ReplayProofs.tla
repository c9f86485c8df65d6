---------------------------- MODULE ReplayProofs ----------------------------
(***************************************************************************)
(* For every topic, rules directory and range, and for clocks that do not  *)
(* agree: a replay evaluates what is in the range in order and without     *)
(* gaps, up to a later record; in the partition of that record it finds    *)
(* every burst, and every chain it gets through within the window; and of  *)
(* single events it finds what the processor finds.                        *)
(***************************************************************************)
EXTENDS Replay, RuleEngineProofs

RecordType == [line : LogLine \cup {Garbage}, read : 0 .. MaxTime, time : 0 .. MaxTime]

-----------------------------------------------------------------------------
(* Rules, as the parser lets them through. *)

LEMMA RuleIsValid ==
    ASSUME NEW type, NEW rule \in OfType(type)
    PROVE  rule \in Rules /\ rule \in Rule /\ Valid(rule) /\ rule.type = type
<1>1. rule \in Rules /\ rule.type = type
  BY DEF OfType
<1>2. PICK file \in RuleDir : file.parses /\ Valid(file.rule) /\ rule = file.rule
  BY <1>1 DEF Rules, LoadFromDir
<1> QED BY <1>1, <1>2, ReplayAssumption

LEMMA ThresholdRule ==
    ASSUME NEW rule \in OfType("threshold")
    PROVE  rule.threshold \in Nat \ {0} /\ rule.window \in Nat \ {0}
<1>1. rule \in Rule /\ Valid(rule) /\ rule.type = "threshold"
  BY RuleIsValid
<1>2. rule.threshold > 0 /\ rule.window > 0
  BY <1>1 DEF Valid
<1>3. rule.threshold \in Int /\ rule.window \in Int
  BY <1>1 DEF Rule
<1> QED BY <1>2, <1>3

LEMMA SequenceRule ==
    ASSUME NEW rule \in OfType("sequence")
    PROVE  /\ Proper(StepsOf(rule)) /\ rule.window \in Nat \ {0}
           /\ \A k \in 1 .. Len(StepsOf(rule)) : StepsOf(rule)[k].kinds \subseteq LogLine
<1>1. /\ rule \in Rule /\ Len(rule.steps) >= 2 /\ rule.window > 0
  <2>1. rule \in Rule /\ Valid(rule) /\ rule.type = "sequence"
    BY RuleIsValid
  <2> QED BY <2>1 DEF Valid
<1>2. /\ rule.steps \in Seq(Step) /\ rule.window \in Int
      /\ Len(rule.steps) \in Nat /\ DOMAIN rule.steps = 1 .. Len(rule.steps)
      /\ \A k \in 1 .. Len(rule.steps) : rule.steps[k].count \in Int
  <2>1. rule.steps \in Seq(Step) /\ rule.window \in Int
    BY <1>1 DEF Rule
  <2>2. \A k \in 1 .. Len(rule.steps) : rule.steps[k] \in Step
    BY <2>1
  <2> QED BY <2>1, <2>2 DEF Step
<1>3. Len(StepsOf(rule)) = Len(rule.steps)
  BY <1>2 DEF StepsOf
<1>4. ASSUME NEW k \in 1 .. Len(rule.steps)
      PROVE  /\ StepsOf(rule)[k].kinds \subseteq LogLine
             /\ StepsOf(rule)[k].count \in Int
  BY <1>2, <1>4 DEF StepsOf
<1>5. \A k \in 1 .. Len(rule.steps) : Required(StepsOf(rule)[k]) \in Nat \ {0}
  BY <1>4 DEF Required
<1> QED BY <1>1, <1>2, <1>3, <1>4, <1>5 DEF Proper

LEMMA OneRule ==
    ASSUME NEW type \in {"threshold", "sequence"},
           NEW rule \in OfType(type), NEW other \in OfType(type)
    PROVE  rule = other
BY ReplayAssumption

-----------------------------------------------------------------------------
(* The topic. *)

Positions == \A h \in Hosts : visited[h] <= at[h] /\ at[h] <= Len(topic[h])

TopicInv == ReplayTypeOK /\ Positions

(* The topic only grows: a record stays where it is. *)
Grows ==
    \A h \in Hosts :
        /\ DOMAIN topic[h] \subseteq DOMAIN topic'[h]
        /\ Len(topic[h]) <= Len(topic'[h])
        /\ \A i \in DOMAIN topic[h] : topic'[h][i] = topic[h][i]

LEMMA RecordFacts ==
    ASSUME ReplayTypeOK, NEW h \in Hosts
    PROVE  /\ topic[h] \in Seq(RecordType) /\ Len(topic[h]) \in Nat
           /\ DOMAIN topic[h] = 1 .. Len(topic[h])
           /\ \A i \in DOMAIN topic[h] :
                /\ <<h, i>> \in Records /\ Record(<<h, i>>) = topic[h][i]
                /\ topic[h][i].line \in LogLine \cup {Garbage}
                /\ topic[h][i].time \in Nat /\ topic[h][i].time \in 0 .. MaxTime
                /\ topic[h][i].read \in Nat /\ topic[h][i].read \in 0 .. MaxTime
<1>1. topic[h] \in Seq(RecordType)
  BY DEF ReplayTypeOK, RecordType
<1>2. /\ Len(topic[h]) \in Nat /\ DOMAIN topic[h] = 1 .. Len(topic[h])
      /\ \A i \in DOMAIN topic[h] : topic[h][i] \in RecordType
  BY <1>1
<1>3. \A i \in DOMAIN topic[h] : topic[h][i].line \in LogLine \cup {Garbage}
                                 /\ topic[h][i].time \in 0 .. MaxTime
                                 /\ topic[h][i].read \in 0 .. MaxTime
  BY <1>2 DEF RecordType
<1>4. \A i \in DOMAIN topic[h] : <<h, i>> \in Records /\ Record(<<h, i>>) = topic[h][i]
  BY DEF Records, Record
<1> QED BY <1>1, <1>2, <1>3, <1>4, ReplayAssumption

LEMMA ProduceGrows ==
    ASSUME ReplayTypeOK, NEW h \in Hosts, NEW line \in LogLine \cup {Garbage}, Produce(h, line)
    PROVE  Grows /\ topic' \in [Hosts -> Seq(RecordType)]
<1>1. PICK read \in 0 .. MaxTime, time \in 0 .. MaxTime :
        topic' = [topic EXCEPT ![h] =
                    Append(topic[h], [line |-> line, read |-> read, time |-> time])]
  BY DEF Produce
<1> DEFINE record == [line |-> line, read |-> read, time |-> time]
           n == Len(topic[h])
<1>2. record \in RecordType
  BY DEF RecordType
<1>3. topic[h] \in Seq(RecordType) /\ n \in Nat /\ DOMAIN topic[h] = 1 .. n
  BY RecordFacts
<1>4. /\ topic'[h] = Append(topic[h], record)
      /\ \A g \in Hosts \ {h} : topic'[g] = topic[g]
  BY <1>1 DEF ReplayTypeOK
<1>5. /\ topic'[h] \in Seq(RecordType) /\ DOMAIN topic'[h] = 1 .. n + 1 /\ Len(topic'[h]) = n + 1
      /\ \A i \in 1 .. n : topic'[h][i] = topic[h][i]
  <2> HIDE DEF record
  <2> QED BY <1>2, <1>3, <1>4
<1>6. topic' \in [Hosts -> Seq(RecordType)]
  <2>1. \A g \in Hosts : topic'[g] \in Seq(RecordType)
    BY <1>4, <1>5, RecordFacts
  <2>2. topic' = [g \in Hosts |-> topic'[g]]
    BY <1>1 DEF ReplayTypeOK
  <2> QED BY <2>1, <2>2
<1>7. Grows
  <2> SUFFICES ASSUME NEW g \in Hosts
               PROVE  /\ DOMAIN topic[g] \subseteq DOMAIN topic'[g]
                      /\ Len(topic[g]) <= Len(topic'[g])
                      /\ \A i \in DOMAIN topic[g] : topic'[g][i] = topic[g][i]
    BY DEF Grows
  <2>1. CASE g = h
    BY <1>3, <1>5, <2>1, SMTT(30)
  <2>2. CASE g # h
    <3>1. Len(topic[g]) \in Nat /\ topic'[g] = topic[g]
      BY <1>4, <2>2, RecordFacts
    <3> QED BY <3>1
  <2> QED BY <2>1, <2>2
<1> QED BY <1>6, <1>7

-----------------------------------------------------------------------------
(* Types. *)

LEMMA WindowKeepsTypes ==
    ASSUME EngineTypeOK, NEW ts \in 0 .. MaxTime, NEW window, NEW threshold \in Nat,
           AddAndCheck(ts, window, threshold)
    PROVE  /\ IsFiniteSet(timestamps)' /\ (timestamps \subseteq [nth : 1 .. added, ts : 0 .. MaxTime])'
           /\ added' \in Nat /\ consumed' \in Nat
<1> DEFINE entry == [nth |-> added + 1, ts |-> ts]
           kept == Pruned(ts, window)
           Entry(n) == [nth : 1 .. n, ts : 0 .. MaxTime]
<1>1. /\ added \in Nat /\ consumed \in Nat /\ IsFiniteSet(timestamps)
      /\ timestamps \subseteq Entry(added) /\ added' = added + 1
  BY DEF EngineTypeOK, AddAndCheck
<1>2. kept \subseteq timestamps /\ IsFiniteSet(kept \cup {entry})
  <2>1. kept \subseteq timestamps
    BY DEF Pruned
  <2>2. IsFiniteSet(kept)
    BY <1>1, <2>1, FS_Subset
  <2> QED BY <2>1, <2>2, FS_AddElement
<1>3. Entry(added) \subseteq Entry(added + 1) /\ entry \in Entry(added + 1)
  BY <1>1
<1>4. \/ timestamps' = {} /\ consumed' = consumed + threshold
      \/ timestamps' = kept \cup {entry} /\ consumed' = consumed
  BY DEF AddAndCheck
<1>5. IsFiniteSet({})
  BY FS_EmptySet
<1> HIDE DEF entry, kept, Entry
<1>6. /\ IsFiniteSet(timestamps') /\ timestamps' \subseteq Entry(added')
      /\ added' \in Nat /\ consumed' \in Nat
  BY <1>1, <1>2, <1>3, <1>4, <1>5
<1> QED BY <1>6 DEF Entry

(* What an evaluation adds to the history of the sequence rule. *)
LEMMA ChainReacts ==
    ASSUME EngineTypeOK, clock \in Nat, NEW kind \in LogLine, NEW steps, NEW window,
           EvaluateSequence(kind, steps, window, clock)
    PROVE  /\ detected' \in Nat /\ chain' \in Seq([kind : LogLine, time : 0 .. clock])
           /\ detected' = detected =>
                /\ DOMAIN chain' = DOMAIN chain \cup {Len(chain) + 1}
                /\ chain'[Len(chain) + 1].time = clock
                /\ \A i \in DOMAIN chain : chain'[i] = chain[i]
<1> DEFINE e == [kind |-> kind, time |-> clock]
           Event == [kind : LogLine, time : 0 .. clock]
<1>1. chain \in Seq(Event) /\ e \in Event /\ e.time = clock /\ detected \in Nat
  BY DEF EngineTypeOK
<1>2. /\ detected' \in {detected, detected + 1}
      /\ chain' = IF detected' > detected THEN <<>> ELSE Append(chain, e)
  BY DEF EvaluateSequence, NoMatch, OutOfRange, Collect, Advance, Complete
<1> HIDE DEF e, Event
<1>3. /\ Append(chain, e) \in Seq(Event) /\ DOMAIN chain = 1 .. Len(chain) /\ Len(chain) \in Nat
      /\ DOMAIN Append(chain, e) = 1 .. Len(chain) + 1
      /\ Append(chain, e)[Len(chain) + 1] = e
      /\ \A i \in 1 .. Len(chain) : Append(chain, e)[i] = chain[i]
  BY <1>1
<1>4. 1 .. Len(chain) + 1 = (1 .. Len(chain)) \cup {Len(chain) + 1}
  BY <1>3
<1>5. chain' \in Seq(Event) /\ detected' \in Nat
  BY <1>1, <1>2, <1>3
<1>6. ASSUME detected' = detected
      PROVE  /\ DOMAIN chain' = DOMAIN chain \cup {Len(chain) + 1}
             /\ chain'[Len(chain) + 1].time = clock
             /\ \A i \in DOMAIN chain : chain'[i] = chain[i]
  <2>1. chain' = Append(chain, e)
    BY <1>1, <1>2, <1>6
  <2> QED BY <1>1, <1>3, <1>4, <2>1
<1> QED BY <1>5, <1>6 DEF Event

ProgressType == [current : Nat, counts : Seq(Nat), startedAt : -1 .. MaxTime]

LEMMA TrackerKeepsTypes ==
    ASSUME EngineTypeOK, clock \in 0 .. MaxTime, NEW steps, Len(steps) \in Nat, NEW kind, NEW window,
           EvaluateSequence(kind, steps, window, clock)
    PROVE  panicked' \in BOOLEAN /\ progress' \in {NoProgress} \cup ProgressType
<1> DEFINE s == Working(steps, window, clock)
           c == Counted(s, clock)
<1>1. /\ panicked \in BOOLEAN /\ -1 \in -1 .. MaxTime /\ clock \in -1 .. MaxTime
      /\ progress = NoProgress \/ (progress # NoProgress /\ progress \in ProgressType)
  BY ReplayAssumption DEF EngineTypeOK, ProgressType
<1>2. s \in ProgressType
  <2>1. [i \in 1 .. Len(steps) |-> 0] \in Seq(Nat)
    OBVIOUS
  <2>2. Fresh(steps) \in ProgressType
    BY <1>1, <2>1 DEF Fresh, ProgressType
  <2> QED BY <1>1, <2>2 DEF Working
<1>3. ASSUME s.current + 1 <= Len(s.counts) PROVE c \in ProgressType
  <2> HIDE DEF s
  <2>1. s.current \in Nat /\ s.counts \in Seq(Nat) /\ s.startedAt \in -1 .. MaxTime
    BY <1>2 DEF ProgressType
  <2> DEFINE counts == [s.counts EXCEPT ![s.current + 1] = s.counts[s.current + 1] + 1]
  <2>2. counts \in Seq(Nat)
    BY <1>3, <2>1, SMTT(30)
  <2>3. c = [current |-> s.current, counts |-> counts,
             startedAt |-> IF s.startedAt = -1 THEN clock ELSE s.startedAt]
    BY DEF Counted
  <2> HIDE DEF counts, c
  <2> QED BY <1>1, <2>1, <2>2, <2>3 DEF ProgressType
<1>4. \/ NoMatch(s, steps) \/ OutOfRange(s)
      \/ /\ s.current + 1 <= Len(s.counts)
         /\ Collect(c, steps) \/ Advance(c, steps) \/ Complete(c, steps)
  BY DEF EvaluateSequence
<1> HIDE DEF s, c
<1>5. CASE NoMatch(s, steps) \/ OutOfRange(s)
  BY <1>1, <1>2, <1>5 DEF NoMatch, OutOfRange
<1>6. CASE s.current + 1 <= Len(s.counts) /\ (Collect(c, steps) \/ Complete(c, steps))
  BY <1>1, <1>3, <1>6 DEF Collect, Complete
<1>7. CASE s.current + 1 <= Len(s.counts) /\ Advance(c, steps)
  <2>1. progress' = [c EXCEPT !.current = c.current + 1] /\ panicked' = panicked
    BY <1>7 DEF Advance
  <2>2. [c EXCEPT !.current = c.current + 1] \in ProgressType
    BY <1>3, <1>7, SMTT(30) DEF ProgressType
  <2> QED BY <1>1, <2>1, <2>2
<1> QED BY <1>4, <1>5, <1>6, <1>7

(* A record that is evaluated, or not. *)
Relevant(r) == done = Nobody /\ ~Earlier(r) /\ ~Later(r) /\ Decodable(r)

LEMMA RecordEvent ==
    ASSUME NEW h \in Hosts, HandleRecord(h)
    PROVE  LET r == <<h, visited[h] + 1>>
           IN  /\ phase = "handling" /\ visited[h] < at[h]
               /\ done' = IF done = Nobody /\ Later(r) THEN h ELSE done
               /\ \/ Relevant(r) /\ Evaluate(r)
                  \/ ~Relevant(r) /\ UNCHANGED <<seen, matches, engineVars>>
               /\ visited' = [visited EXCEPT ![h] = visited[h] + 1]
               /\ turn' \in {Nobody, h}
               /\ UNCHANGED <<topic, clock, phase, at, clientGone>>
BY DEF HandleRecord, Relevant, topicVars

(* Where the records of a topic are does not change but for new ones. *)
LEMMA RecordsGrow ==
    ASSUME ReplayTypeOK, Grows
    PROVE  Records \subseteq Records'
BY DEF Grows, Records

LEMMA EngineStutters ==
    ASSUME EngineTypeOK, UNCHANGED engineVars, clock \in Nat, clock' \in Nat, clock <= clock'
    PROVE  EngineTypeOK'
<1>1. [kind : LogLine, time : 0 .. clock] \subseteq [kind : LogLine, time : 0 .. clock']
  OBVIOUS
<1>2. \A S, T : S \subseteq T => Seq(S) \subseteq Seq(T)
  OBVIOUS
<1>3. chain' \in Seq([kind : LogLine, time : 0 .. clock'])
  <2>1. chain' = chain /\ chain \in Seq([kind : LogLine, time : 0 .. clock])
    BY DEF engineVars, EngineTypeOK
  <2> QED BY <1>1, <1>2, <2>1
<1>4. /\ timestamps' = timestamps /\ added' = added /\ consumed' = consumed
      /\ detected' = detected /\ panicked' = panicked /\ progress' = progress
  BY DEF engineVars
<1> QED BY <1>3, <1>4 DEF EngineTypeOK

LEMMA NextPlace ==
    ASSUME TopicInv, NEW h \in Hosts, visited[h] < at[h]
    PROVE  /\ visited[h] \in Nat /\ visited[h] + 1 \in DOMAIN topic[h]
           /\ <<h, visited[h] + 1>> \in Records
           /\ Record(<<h, visited[h] + 1>>) = topic[h][visited[h] + 1]
<1>1. visited[h] \in Nat /\ at[h] \in Nat
  BY DEF TopicInv, ReplayTypeOK
<1>2. at[h] <= Len(topic[h]) /\ Len(topic[h]) \in Nat /\ DOMAIN topic[h] = 1 .. Len(topic[h])
  BY RecordFacts DEF TopicInv, Positions
<1>3. visited[h] + 1 \in DOMAIN topic[h]
  BY <1>1, <1>2
<1> QED BY <1>1, <1>3, RecordFacts DEF TopicInv

LEMMA EvaluateKeepsTypes ==
    ASSUME ReplayTypeOK, NEW r \in Records, Evaluate(r), UNCHANGED <<topic, clock>>,
           Record(r).read \in 0 .. MaxTime, Record(r).line \in LogLine
    PROVE  seen' \in Seq(Records)' /\ matches' \subseteq Rules \X ToSet(seen') /\ EngineTypeOK'
<1> DEFINE event == EventOf(r)
           fired == {rule \in OfType("single") : MatchesConditions(event, rule.conditions)}
                    \cup {rule \in OfType("threshold") : consumed' > consumed}
                    \cup {rule \in OfType("sequence") : detected' > detected}
<1>1. /\ EvalThresholds(event) /\ EvalSequences(Record(r).line, event)
      /\ matches' = matches \cup (fired \X {r}) /\ seen' = Append(seen, r)
  BY DEF Evaluate
<1>2. event.ts \in 0 .. MaxTime
  BY DEF EventOf, ParseLine
<1>3. /\ IsFiniteSet(timestamps)' /\ (timestamps \subseteq [nth : 1 .. added, ts : 0 .. MaxTime])'
      /\ added' \in Nat /\ consumed' \in Nat
  <2>1. CASE UNCHANGED windowVars
    BY <2>1 DEF windowVars, ReplayTypeOK, EngineTypeOK
  <2>2. ASSUME NEW rule \in OfType("threshold"), AddAndCheck(event.ts, rule.window, rule.threshold)
        PROVE  /\ IsFiniteSet(timestamps)' /\ (timestamps \subseteq [nth : 1 .. added, ts : 0 .. MaxTime])'
               /\ added' \in Nat /\ consumed' \in Nat
    <3> HIDE DEF event
    <3>1. rule.threshold \in Nat
      BY ThresholdRule
    <3> QED BY <1>2, <2>2, <3>1, WindowKeepsTypes DEF ReplayTypeOK
  <2> QED BY <1>1, <2>1, <2>2 DEF EvalThresholds
<1>4. /\ detected' \in Nat /\ panicked' \in BOOLEAN
      /\ progress' \in {NoProgress} \cup ProgressType
      /\ chain' \in Seq([kind : LogLine, time : 0 .. clock'])
  <2>1. CASE UNCHANGED sequenceVars
    BY <2>1 DEF sequenceVars, ReplayTypeOK, EngineTypeOK, ProgressType
  <2>2. ASSUME NEW rule \in OfType("sequence"),
               EvaluateSequence(Record(r).line, StepsOf(rule), rule.window, clock)
        PROVE  /\ detected' \in Nat /\ panicked' \in BOOLEAN
               /\ progress' \in {NoProgress} \cup ProgressType
               /\ chain' \in Seq([kind : LogLine, time : 0 .. clock'])
    <3>1. Len(StepsOf(rule)) \in Nat
      BY SequenceRule DEF Proper
    <3>2. EngineTypeOK /\ clock \in 0 .. MaxTime /\ clock \in Nat
      BY ReplayAssumption DEF ReplayTypeOK
    <3>3. panicked' \in BOOLEAN /\ progress' \in {NoProgress} \cup ProgressType
      BY <2>2, <3>1, <3>2, TrackerKeepsTypes
    <3>4. detected' \in Nat /\ chain' \in Seq([kind : LogLine, time : 0 .. clock])
      BY <2>2, <3>2, ChainReacts
    <3> QED BY <3>3, <3>4
  <2> QED BY <1>1, <2>1, <2>2 DEF EvalSequences
<1>5. seen' \in Seq(Records)' /\ ToSet(seen') = ToSet(seen) \cup {r}
  <2>1. seen \in Seq(Records) /\ Records' = Records
    BY DEF ReplayTypeOK, Records
  <2> QED BY <1>1, <2>1 DEF ToSet
<1>6. fired \subseteq Rules
  BY DEF OfType
<1> HIDE DEF fired
<1>7. matches' \subseteq Rules \X ToSet(seen')
  BY <1>1, <1>5, <1>6 DEF ReplayTypeOK
<1> QED BY <1>3, <1>4, <1>5, <1>7 DEF EngineTypeOK, ProgressType

-----------------------------------------------------------------------------
(* The steps of a replay, as far as the topic and the engine are concerned. *)
Waits ==
    /\ UNCHANGED <<topic, visited, done, seen, matches>> /\ UNCHANGED engineVars
    /\ clock' \in clock .. MaxTime
    /\ phase' \in Phases /\ turn' = turn /\ clientGone' \in BOOLEAN
    /\ at' \in [Hosts -> Nat] /\ \A h \in Hosts : at[h] <= at'[h] /\ at'[h] <= Len(topic[h])

LEMMA ReplayStep ==
    ASSUME TopicInv, [ReplayNext]_replayVars
    PROVE  \/ \E h \in Hosts, line \in LogLine \cup {Garbage} : Produce(h, line)
           \/ \E h \in Hosts : HandleRecord(h)
           \/ Waits
<1>1. /\ phase \in Phases /\ clientGone \in BOOLEAN /\ at \in [Hosts -> Nat]
      /\ clock \in clock .. MaxTime
      /\ \A h \in Hosts : at[h] <= at[h] /\ at[h] <= Len(topic[h])
  <2>1. \A h \in Hosts : at[h] \in Nat
    BY DEF TopicInv, ReplayTypeOK
  <2>2. clock \in clock .. MaxTime
    BY ReplayAssumption DEF TopicInv, ReplayTypeOK
  <2> QED BY <2>1, <2>2 DEF TopicInv, ReplayTypeOK, Positions
<1>2. ASSUME NEW line \in LogLine, Produce(line.host, line)
      PROVE  \E h \in Hosts, l \in LogLine \cup {Garbage} : Produce(h, l)
  BY <1>2, ReplayAssumption
<1>3. ASSUME NEW h \in Foreign, Produce(h, Garbage)
      PROVE  \E g \in Hosts, l \in LogLine \cup {Garbage} : Produce(g, l)
  BY <1>3, ReplayAssumption
<1>4. ASSUME Refuse \/ Begin \/ Disconnect \/ PollFails PROVE Waits
  BY <1>1, <1>4 DEF Refuse, Begin, Disconnect, PollFails, Waits, topicVars, Phases
<1>5. ASSUME PollReturns PROVE Waits
  <2>1. at' \in [Hosts -> Nat]
    <3>1. 0 .. MaxRecords \subseteq Nat
      OBVIOUS
    <3> QED BY <1>5, <3>1 DEF PollReturns
  <2> QED BY <1>1, <1>5, <2>1 DEF PollReturns, Waits, topicVars, Phases
<1>6. ASSUME EndOfFetch PROVE Waits
  BY <1>1, <1>6 DEF EndOfFetch, Waits, topicVars, Phases
<1>7. ASSUME UNCHANGED replayVars PROVE Waits
  BY <1>1, <1>7 DEF replayVars, Waits, engineVars
<1>8. ASSUME ClockTicks PROVE Waits
  <2>1. clock' \in clock .. MaxTime
    <3>1. clock \in 0 .. MaxTime /\ clock < MaxTime /\ clock' = clock + 1
      BY <1>8 DEF ClockTicks, TopicInv, ReplayTypeOK
    <3> QED BY <3>1, ReplayAssumption
  <2> QED BY <1>1, <1>8, <2>1 DEF ClockTicks, Waits
<1> QED BY <1>2, <1>3, <1>4, <1>5, <1>6, <1>7, <1>8 DEF ReplayNext, Handler

LEMMA WaitsKeepsTopic ==
    ASSUME TopicInv, Waits
    PROVE  TopicInv' /\ Grows
<1>1. /\ topic' = topic /\ visited' = visited /\ done' = done
      /\ seen' = seen /\ matches' = matches /\ turn' = turn
  BY DEF Waits
<1>2. ReplayTypeOK
  BY DEF TopicInv
<1>3. clock \in Nat /\ clock' \in Nat /\ clock <= clock' /\ clock' \in 0 .. MaxTime
  <2>1. clock \in 0 .. MaxTime /\ clock' \in clock .. MaxTime
    BY <1>2 DEF ReplayTypeOK, Waits
  <2> QED BY <2>1, ReplayAssumption
<1>4. EngineTypeOK'
  BY <1>2, <1>3, EngineStutters DEF Waits, ReplayTypeOK
<1>5. Records' = Records
  BY <1>1 DEF Records
<1>6. ReplayTypeOK'
  BY <1>1, <1>2, <1>3, <1>4, <1>5 DEF ReplayTypeOK, Waits
<1>7. Positions'
  <2> SUFFICES ASSUME NEW h \in Hosts PROVE visited[h] <= at'[h] /\ at'[h] <= Len(topic[h])
    BY <1>1 DEF Positions
  <2>1. visited[h] \in Nat /\ at[h] \in Nat /\ at'[h] \in Nat /\ visited[h] <= at[h]
    BY <1>2 DEF ReplayTypeOK, Waits, TopicInv, Positions
  <2> QED BY <2>1 DEF Waits
<1>8. Grows
  <2>1. \A h \in Hosts : Len(topic[h]) \in Nat
    BY <1>2, RecordFacts
  <2> QED BY <1>1, <2>1 DEF Grows
<1> QED BY <1>6, <1>7, <1>8 DEF TopicInv

LEMMA ProduceKeepsTopic ==
    ASSUME TopicInv, NEW h \in Hosts, NEW line \in LogLine \cup {Garbage}, Produce(h, line)
    PROVE  TopicInv' /\ Grows
<1>1. ReplayTypeOK
  BY DEF TopicInv
<1>2. Grows /\ topic' \in [Hosts -> Seq(RecordType)]
  BY <1>1, ProduceGrows
<1>3. /\ UNCHANGED <<clock, phase, at, visited, turn, done, clientGone, seen, matches>>
      /\ UNCHANGED engineVars
  BY DEF Produce
<1>4. EngineTypeOK'
  <2>1. clock \in Nat
    BY <1>1 DEF ReplayTypeOK
  <2> QED BY <1>1, <1>3, <2>1, EngineStutters DEF ReplayTypeOK
<1>5. seen \in Seq(Records')
  <2>1. Records \subseteq Records'
    BY <1>1, <1>2, RecordsGrow
  <2>2. seen \in Seq(Records)
    BY <1>1 DEF ReplayTypeOK
  <2> QED BY <2>1, <2>2
<1>6. ReplayTypeOK'
  <2>1. topic' \in [Hosts -> Seq([line : LogLine \cup {Garbage}, read : 0 .. MaxTime, time : 0 .. MaxTime])]
    BY <1>2 DEF RecordType
  <2> QED BY <1>1, <1>2, <1>3, <1>4, <1>5, <2>1 DEF ReplayTypeOK
<1>7. Positions'
  <2> SUFFICES ASSUME NEW g \in Hosts PROVE visited[g] <= at[g] /\ at[g] <= Len(topic'[g])
    BY <1>3 DEF Positions
  <2>1. at[g] \in Nat /\ Len(topic[g]) \in Nat
    BY <1>1, RecordFacts DEF ReplayTypeOK
  <2>2. Len(topic'[g]) \in Nat
    BY <1>2
  <2> QED BY <1>2, <2>1, <2>2 DEF TopicInv, Positions, Grows
<1> QED BY <1>2, <1>6, <1>7 DEF TopicInv

LEMMA HandleKeepsTopic ==
    ASSUME TopicInv, NEW h \in Hosts, HandleRecord(h)
    PROVE  TopicInv' /\ Grows
<1> DEFINE r == <<h, visited[h] + 1>>
<1>1. /\ phase = "handling" /\ visited[h] < at[h]
      /\ done' = IF done = Nobody /\ Later(r) THEN h ELSE done
      /\ \/ Relevant(r) /\ Evaluate(r)
         \/ ~Relevant(r) /\ UNCHANGED <<seen, matches, engineVars>>
      /\ visited' = [visited EXCEPT ![h] = visited[h] + 1]
      /\ turn' \in {Nobody, h}
      /\ UNCHANGED <<topic, clock, phase, at, clientGone>>
  BY RecordEvent
<1>2. ReplayTypeOK
  BY DEF TopicInv
<1>3. /\ visited[h] \in Nat /\ r \in Records /\ Record(r).read \in 0 .. MaxTime
      /\ Record(r).line \in LogLine \cup {Garbage}
  BY <1>1, <1>2, NextPlace, RecordFacts
<1>4. Records' = Records
  BY <1>1 DEF Records
<1> HIDE DEF r
<1>5. seen' \in Seq(Records') /\ matches' \subseteq Rules \X ToSet(seen') /\ EngineTypeOK'
  <2>1. CASE Relevant(r) /\ Evaluate(r)
    <3>1. Record(r).line \in LogLine
      BY <1>3, <2>1 DEF Relevant, Decodable
    <3> QED BY <1>1, <1>2, <1>3, <2>1, <3>1, EvaluateKeepsTypes
  <2>2. CASE UNCHANGED <<seen, matches, engineVars>>
    <3>1. EngineTypeOK'
      <4>1. clock \in Nat /\ clock' = clock
        BY <1>1, <1>2 DEF ReplayTypeOK
      <4> QED BY <1>2, <2>2, <4>1, EngineStutters DEF ReplayTypeOK
    <3> QED BY <1>2, <1>4, <2>2, <3>1 DEF ReplayTypeOK
  <2> QED BY <1>1, <2>1, <2>2
<1>6. ReplayTypeOK'
  <2>1. visited' \in [Hosts -> Nat]
    BY <1>1, <1>2, <1>3 DEF ReplayTypeOK
  <2> QED BY <1>1, <1>2, <1>5, <2>1 DEF ReplayTypeOK
<1>7. Positions'
  <2> SUFFICES ASSUME NEW g \in Hosts PROVE visited'[g] <= at[g] /\ at[g] <= Len(topic[g])
    BY <1>1 DEF Positions
  <2>1. visited[g] \in Nat /\ at[g] \in Nat /\ visited[g] <= at[g] /\ at[g] <= Len(topic[g])
    BY <1>2 DEF ReplayTypeOK, TopicInv, Positions
  <2>2. visited'[g] = IF g = h THEN visited[h] + 1 ELSE visited[g]
    BY <1>1, <1>2 DEF ReplayTypeOK
  <2> QED BY <1>1, <1>3, <2>1, <2>2
<1>8. Grows
  <2>1. \A g \in Hosts : Len(topic[g]) \in Nat
    BY <1>2, RecordFacts
  <2> QED BY <1>1, <2>1 DEF Grows
<1> QED BY <1>6, <1>7, <1>8 DEF TopicInv

LEMMA TopicStarts ==
    ASSUME ReplayInit
    PROVE  TopicInv
<1>1. /\ topic = [h \in Hosts |-> <<>>] /\ clock = 0 /\ phase = "request"
      /\ at = [h \in Hosts |-> 0] /\ visited = at /\ turn = Nobody /\ done = Nobody
      /\ clientGone = FALSE /\ seen = <<>> /\ matches = {}
      /\ timestamps = {} /\ added = 0 /\ consumed = 0 /\ detected = 0 /\ panicked = FALSE
      /\ progress = NoProgress /\ chain = <<>>
  BY DEF ReplayInit, WindowInit, SequenceInit
<1>2. EngineTypeOK
  <2>1. chain \in Seq([kind : LogLine, time : 0 .. clock])
    BY <1>1
  <2> QED BY <1>1, <2>1, FS_EmptySet DEF EngineTypeOK
<1>3. ReplayTypeOK
  <2>1. 0 \in 0 .. MaxTime /\ phase \in Phases
    BY <1>1, ReplayAssumption DEF Phases
  <2>2. topic \in [Hosts -> Seq([line : LogLine \cup {Garbage}, read : 0 .. MaxTime, time : 0 .. MaxTime])]
    BY <1>1
  <2>3. at \in [Hosts -> Nat] /\ visited \in [Hosts -> Nat]
    BY <1>1
  <2>4. seen \in Seq(Records) /\ matches \subseteq Rules \X ToSet(seen)
    BY <1>1
  <2> QED BY <1>1, <1>2, <2>1, <2>2, <2>3, <2>4 DEF ReplayTypeOK
<1>4. Positions
  BY <1>1 DEF Positions
<1> QED BY <1>3, <1>4 DEF TopicInv

LEMMA TopicHolds ==
    ASSUME TopicInv, [ReplayNext]_replayVars
    PROVE  TopicInv' /\ Grows
BY ReplayStep, WaitsKeepsTopic, ProduceKeepsTopic, HandleKeepsTopic

(* EachRecord never gets past what was fetched, nor a fetch past what was  *)
(* written, and the engine's state keeps its types over all of a replay.   *)
THEOREM ReplayTypeCorrect == ReplaySpec => []ReplayTypeOK
<1>1. ReplayInit => TopicInv
  BY TopicStarts
<1>2. TopicInv /\ [ReplayNext]_replayVars => TopicInv'
  BY TopicHolds
<1>3. TopicInv => ReplayTypeOK
  BY DEF TopicInv
<1> QED BY <1>1, <1>2, <1>3, PTL DEF ReplaySpec

-----------------------------------------------------------------------------
(* What was evaluated. *)

(* The events of the range among the first n records of a partition. *)
Upto(h, n) == {r \in InRange(h) : r[2] <= n}

LEMMA InRangeFacts ==
    ASSUME ReplayTypeOK, NEW h \in Hosts
    PROVE  /\ \A r \in InRange(h) :
                /\ r \in Records /\ r = <<h, r[2]>> /\ r[1] = h /\ r[2] \in DOMAIN topic[h]
                /\ Record(r).line \in LogLine /\ Record(r).time \in StartTime .. EndTime
           /\ \A i \in DOMAIN topic[h] :
                <<h, i>> \in InRange(h) <=>
                    Decodable(<<h, i>>) /\ topic[h][i].time \in StartTime .. EndTime
<1>1. \A i \in DOMAIN topic[h] :
        <<h, i>> \in InRange(h) <=>
            Decodable(<<h, i>>) /\ topic[h][i].time \in StartTime .. EndTime
  BY RecordFacts DEF InRange
<1>2. ASSUME NEW r \in InRange(h)
      PROVE  /\ r \in Records /\ r = <<h, r[2]>> /\ r[1] = h /\ r[2] \in DOMAIN topic[h]
             /\ Record(r).line \in LogLine /\ Record(r).time \in StartTime .. EndTime
  <2>1. r \in {h} \X DOMAIN topic[h] /\ Decodable(r) /\ Record(r).time \in StartTime .. EndTime
    BY <1>2 DEF InRange
  <2>2. r = <<h, r[2]>> /\ r[1] = h /\ r[2] \in DOMAIN topic[h]
    BY <2>1
  <2>3. r \in Records /\ Record(r).line \in LogLine \cup {Garbage}
    <3>1. <<h, r[2]>> \in Records /\ Record(<<h, r[2]>>).line \in LogLine \cup {Garbage}
      BY <2>2, RecordFacts
    <3> QED BY <2>2, <3>1
  <2> QED BY <2>1, <2>2, <2>3 DEF Decodable
<1> QED BY <1>1, <1>2

(* New records are behind what was visited, and the old ones are kept. *)
LEMMA RecordsStay ==
    ASSUME ReplayTypeOK, Grows
    PROVE  \A r \in Records : Record(r)' = Record(r) /\ EventOf(r)' = EventOf(r)
<1> SUFFICES ASSUME NEW r \in Records PROVE Record(r)' = Record(r) /\ EventOf(r)' = EventOf(r)
  OBVIOUS
<1>1. r[1] \in Hosts /\ r[2] \in DOMAIN topic[r[1]]
  BY DEF Records
<1>2. topic'[r[1]][r[2]] = topic[r[1]][r[2]]
  BY <1>1 DEF Grows
<1> QED BY <1>2 DEF Record, EventOf

LEMMA UptoStays ==
    ASSUME ReplayTypeOK, ReplayTypeOK', Grows,
           NEW h \in Hosts, NEW n \in Nat, n <= Len(topic[h])
    PROVE  Upto(h, n)' = Upto(h, n)
<1>1. /\ Len(topic[h]) \in Nat /\ DOMAIN topic[h] = 1 .. Len(topic[h])
      /\ Len(topic'[h]) \in Nat /\ DOMAIN topic'[h] = 1 .. Len(topic'[h])
  <2>1. topic'[h] \in Seq([line : LogLine \cup {Garbage}, read : 0 .. MaxTime, time : 0 .. MaxTime])
    BY DEF ReplayTypeOK
  <2> QED BY <2>1, RecordFacts
<1>2. \A i \in DOMAIN topic[h] : topic'[h][i] = topic[h][i] /\ i \in DOMAIN topic'[h]
  BY DEF Grows
<1>3. ASSUME NEW r \in InRange(h)', r[2] <= n PROVE r \in InRange(h)
  <2>1. r \in {h} \X DOMAIN topic'[h] /\ Decodable(r)' /\ Record(r)'.time \in StartTime .. EndTime
    BY <1>3 DEF InRange
  <2>2. r[2] \in DOMAIN topic[h] /\ r[1] = h /\ r \in {h} \X DOMAIN topic[h]
    BY <1>1, <1>3, <2>1
  <2>3. Record(r)' = Record(r)
    BY <1>2, <2>2 DEF Record
  <2> QED BY <2>1, <2>2, <2>3 DEF InRange, Decodable
<1>4. ASSUME NEW r \in InRange(h) PROVE r \in InRange(h)'
  <2>1. r \in {h} \X DOMAIN topic[h] /\ Decodable(r) /\ Record(r).time \in StartTime .. EndTime
    BY <1>4 DEF InRange
  <2>2. r[2] \in DOMAIN topic[h] /\ r[1] = h /\ r \in {h} \X DOMAIN topic'[h]
    BY <1>2, <2>1
  <2>3. Record(r)' = Record(r)
    BY <1>2, <2>2 DEF Record
  <2> QED BY <2>1, <2>2, <2>3 DEF InRange, Decodable
<1> QED BY <1>3, <1>4 DEF Upto

LEMMA UptoNext ==
    ASSUME ReplayTypeOK, NEW h \in Hosts, NEW n \in Nat
    PROVE  /\ <<h, n + 1>> \in InRange(h) => Upto(h, n + 1) = Upto(h, n) \cup {<<h, n + 1>>}
           /\ <<h, n + 1>> \notin InRange(h) => Upto(h, n + 1) = Upto(h, n)
           /\ <<h, n + 1>> \notin Upto(h, n)
<1>1. \A r \in InRange(h) : r = <<h, r[2]>> /\ r[2] \in Nat
  BY InRangeFacts, RecordFacts
<1>2. \A r \in InRange(h) : r[2] <= n + 1 <=> (r[2] <= n \/ r = <<h, n + 1>>)
  BY <1>1
<1>3. ~(<<h, n + 1>>[2] <= n)
  OBVIOUS
<1> QED BY <1>2, <1>3 DEF Upto

(* The record that ended the replay is behind the range. *)
Ended == done # Nobody => \E i \in 1 .. visited[done] : topic[done][i].time > EndTime

(* Times that ascend stay behind the range. *)
LEMMA BehindIsLater ==
    ASSUME ReplayTypeOK, NEW h \in Hosts, InTimeOrder(h),
           NEW i \in DOMAIN topic[h], topic[h][i].time > EndTime
    PROVE  \A r \in InRange(h) : r[2] < i
<1> SUFFICES ASSUME NEW r \in InRange(h), ~(r[2] < i) PROVE FALSE
  OBVIOUS
<1>1. /\ r[2] \in DOMAIN topic[h] /\ r = <<h, r[2]>>
      /\ Record(r).time \in StartTime .. EndTime
  BY InRangeFacts
<1>2. /\ DOMAIN topic[h] \subseteq Nat /\ Record(r) = topic[h][r[2]]
      /\ topic[h][i].time \in Nat /\ topic[h][r[2]].time \in Nat
      /\ StartTime \in Nat /\ EndTime \in Nat
  <2>1. Record(<<h, r[2]>>) = topic[h][r[2]]
    BY <1>1, RecordFacts
  <2>2. DOMAIN topic[h] \subseteq Nat
    BY RecordFacts
  <2> QED BY <1>1, <2>1, <2>2, RecordFacts, ReplayAssumption
<1>3. topic[h][i].time <= topic[h][r[2]].time
  <2>1. CASE i = r[2]
    BY <1>2, <2>1
  <2>2. CASE i < r[2]
    BY <1>1, <2>2 DEF InTimeOrder
  <2> QED BY <1>1, <1>2, <2>1, <2>2
<1> QED BY <1>1, <1>2, <1>3

LEMMA InOrderBefore ==
    ASSUME Grows, NEW h \in Hosts, InTimeOrder(h)'
    PROVE  InTimeOrder(h)
BY DEF Grows, InTimeOrder

(* In the partition of that record, if its times ascend, as in each before *)
(* there was one, the evaluated records are the events of the range.       *)
LEMMA RelevantIsInRange ==
    ASSUME TopicInv, Ended, NEW h \in Hosts, visited[h] < at[h]
    PROVE  LET r == <<h, visited[h] + 1>>
           IN  /\ Relevant(r) => r \in InRange(h)
               /\ done = Nobody \/ (done = h /\ InTimeOrder(h)) =>
                    (r \in InRange(h) => Relevant(r))
<1> DEFINE n == visited[h]
           r == <<h, n + 1>>
<1>1. /\ n \in Nat /\ n + 1 \in DOMAIN topic[h] /\ Record(r) = topic[h][n + 1]
      /\ StartTime \in Nat /\ EndTime \in Nat
  BY NextPlace, ReplayAssumption
<1>2. Record(r).time \in Nat
  BY <1>1, RecordFacts DEF TopicInv
<1>3. r \in InRange(h) <=> Decodable(r) /\ Record(r).time \in StartTime .. EndTime
  BY <1>1, InRangeFacts DEF TopicInv
<1>4. Record(r).time \in StartTime .. EndTime <=> ~Earlier(r) /\ ~Later(r)
  BY <1>1, <1>2 DEF Earlier, Later
<1>5. ASSUME done = h, InTimeOrder(h) PROVE r \notin InRange(h)
  <2>1. PICK i \in 1 .. n : topic[h][i].time > EndTime
    BY <1>5, ReplayAssumption DEF Ended
  <2>2. Len(topic[h]) \in Nat /\ DOMAIN topic[h] = 1 .. Len(topic[h])
    BY RecordFacts DEF TopicInv
  <2>3. i \in DOMAIN topic[h] /\ i < n + 1
    BY <1>1, <2>2
  <2>4. r \in InRange(h) => r[2] < i
    BY <1>5, <2>1, <2>3, BehindIsLater DEF TopicInv
  <2> QED BY <1>1, <2>3, <2>4
<1> QED BY <1>1, <1>3, <1>4, <1>5 DEF Relevant

(* The first conjunct of EndIsComplete. *)
InOrder ==
    \A i, j \in DOMAIN seen : i < j /\ seen[i][1] = seen[j][1] => seen[i][2] < seen[j][2]

SeenOf(h) == {r \in ToSet(seen) : r[1] = h}

UptoSeen(h) ==
    \E upto \in 0 .. visited[h] :
        /\ done = Nobody => upto = visited[h]
        /\ done = h => upto < visited[h] /\ Later(<<h, upto + 1>>)
        /\ SeenOf(h) = Upto(h, upto)

SeenInv == Ended /\ InOrder /\ \A h \in Hosts : UptoSeen(h)

LEMMA AppendedToSet ==
    ASSUME NEW S, NEW s \in Seq(S), NEW e \in S
    PROVE  ToSet(Append(s, e)) = ToSet(s) \cup {e}
<1>1. /\ Len(s) \in Nat /\ DOMAIN s = 1 .. Len(s) /\ DOMAIN Append(s, e) = 1 .. Len(s) + 1
      /\ Append(s, e)[Len(s) + 1] = e /\ \A i \in 1 .. Len(s) : Append(s, e)[i] = s[i]
  BY SMTT(30)
<1>2. 1 .. Len(s) + 1 = (1 .. Len(s)) \cup {Len(s) + 1}
  BY <1>1
<1> QED BY <1>1, <1>2, Zenon DEF ToSet

LEMMA SeenIsVisited ==
    ASSUME TopicInv, SeenInv, NEW h \in Hosts
    PROVE  \A r \in SeenOf(h) : r[2] \in Nat /\ r[2] <= visited[h] /\ r \in InRange(h)
<1>1. PICK upto \in 0 .. visited[h] : SeenOf(h) = Upto(h, upto)
  BY DEF SeenInv, UptoSeen
<1>2. visited[h] \in Nat
  BY DEF TopicInv, ReplayTypeOK
<1>3. \A r \in InRange(h) : r[2] \in Nat
  BY InRangeFacts, RecordFacts DEF TopicInv
<1> QED BY <1>1, <1>2, <1>3 DEF Upto

LEMMA SeenStays ==
    ASSUME TopicInv, TopicInv', Grows, SeenInv, UNCHANGED <<visited, done, seen>>
    PROVE  SeenInv'
<1>1. Ended'
  <2> SUFFICES ASSUME done # Nobody
               PROVE  \E i \in 1 .. visited[done] : topic'[done][i].time > EndTime
    BY DEF Ended
  <2>1. PICK i \in 1 .. visited[done] : topic[done][i].time > EndTime
    BY DEF SeenInv, Ended
  <2>2. done \in Hosts /\ visited[done] \in Nat /\ at[done] \in Nat
    BY DEF TopicInv, ReplayTypeOK
  <2>3. i \in DOMAIN topic[done]
    <3>1. Len(topic[done]) \in Nat /\ DOMAIN topic[done] = 1 .. Len(topic[done])
      BY <2>2, RecordFacts DEF TopicInv
    <3>2. visited[done] <= at[done] /\ at[done] <= Len(topic[done])
      BY <2>2 DEF TopicInv, Positions
    <3> QED BY <2>2, <3>1, <3>2
  <2> QED BY <2>1, <2>2, <2>3 DEF Grows
<1>2. InOrder'
  BY DEF SeenInv, InOrder
<1>3. ASSUME NEW h \in Hosts PROVE UptoSeen(h)'
  <2>1. PICK upto \in 0 .. visited[h] :
          /\ done = Nobody => upto = visited[h]
          /\ done = h => upto < visited[h] /\ Later(<<h, upto + 1>>)
          /\ SeenOf(h) = Upto(h, upto)
    BY DEF SeenInv, UptoSeen
  <2>2. /\ upto \in Nat /\ upto <= Len(topic[h])
        /\ upto < visited[h] => upto + 1 \in DOMAIN topic[h]
    <3>1. visited[h] \in Nat /\ at[h] \in Nat /\ visited[h] <= at[h] /\ at[h] <= Len(topic[h])
      BY DEF TopicInv, ReplayTypeOK, Positions
    <3>2. Len(topic[h]) \in Nat /\ DOMAIN topic[h] = 1 .. Len(topic[h])
      BY RecordFacts DEF TopicInv
    <3> QED BY <3>1, <3>2
  <2>3. Upto(h, upto)' = Upto(h, upto)
    BY <2>2, UptoStays DEF TopicInv
  <2>4. SeenOf(h)' = SeenOf(h)
    BY DEF SeenOf
  <2>5. done = h => Later(<<h, upto + 1>>)'
    <3>1. upto + 1 \in DOMAIN topic[h] => Record(<<h, upto + 1>>)' = Record(<<h, upto + 1>>)
      BY DEF Grows, Record
    <3> QED BY <2>1, <2>2, <3>1 DEF Later
  <2> QED BY <2>1, <2>3, <2>4, <2>5 DEF UptoSeen
<1> QED BY <1>1, <1>2, <1>3 DEF SeenInv

(* A record is visited. *)
LEMMA SeenGrows ==
    ASSUME TopicInv, SeenInv, NEW h \in Hosts, HandleRecord(h)
    PROVE  SeenInv'
<1>0. PICK n \in Nat : n = visited[h]
  BY DEF TopicInv, ReplayTypeOK
<1> DEFINE r == <<h, n + 1>>
<1>1. /\ n < at[h]
      /\ done' = IF done = Nobody /\ Later(r) THEN h ELSE done
      /\ \/ Relevant(r) /\ seen' = Append(seen, r)
         \/ ~Relevant(r) /\ seen' = seen
      /\ visited' = [visited EXCEPT ![h] = n + 1] /\ topic' = topic
  BY <1>0, RecordEvent DEF Evaluate
<1>2. /\ n \in Nat /\ n + 1 \in DOMAIN topic[h] /\ Record(r) = topic[h][n + 1] /\ r \in Records
      /\ visited'[h] = n + 1 /\ \A g \in Hosts \ {h} : visited'[g] = visited[g]
      /\ \A g \in Hosts : visited[g] \in Nat
  BY <1>0, <1>1, NextPlace DEF TopicInv, ReplayTypeOK
<1>3. /\ Relevant(r) => r \in InRange(h) /\ done = Nobody /\ done' = Nobody
      /\ done = Nobody /\ r \in InRange(h) => Relevant(r)
      /\ Relevant(r) => ~Later(r)
  BY <1>0, <1>1, RelevantIsInRange DEF SeenInv, Relevant
<1>4. seen \in Seq(Records)
  BY DEF TopicInv, ReplayTypeOK
<1>5. /\ \A g, upto : Upto(g, upto)' = Upto(g, upto)
      /\ \A q : Later(q)' <=> Later(q)
  BY <1>1 DEF Upto, InRange, Decodable, Record, Later
<1> HIDE DEF r
<1>6. Ended'
  <2>1. CASE done' = done
    <3> SUFFICES ASSUME done # Nobody
                 PROVE  \E i \in 1 .. visited'[done] : topic[done][i].time > EndTime
      BY <1>1, <2>1 DEF Ended
    <3>1. PICK i \in 1 .. visited[done] : topic[done][i].time > EndTime
      BY DEF SeenInv, Ended
    <3>2. done \in Hosts
      BY DEF TopicInv, ReplayTypeOK
    <3>3. i \in 1 .. visited'[done]
      BY <1>0, <1>2, <3>2
    <3> QED BY <3>1, <3>3
  <2>2. CASE done' = h /\ Later(r)
    <3>1. topic[h][n + 1].time > EndTime /\ n + 1 \in 1 .. visited'[h]
      BY <1>2, <2>2 DEF Later
    <3> QED BY <1>1, <2>2, <3>1 DEF Ended
  <2> QED BY <1>1, <2>1, <2>2
<1>7. InOrder'
  <2>1. CASE seen' = seen
    BY <2>1 DEF SeenInv, InOrder
  <2>2. CASE Relevant(r) /\ seen' = Append(seen, r)
    <3> SUFFICES ASSUME NEW i \in DOMAIN seen', NEW j \in DOMAIN seen', i < j,
                        seen'[i][1] = seen'[j][1]
                 PROVE  seen'[i][2] < seen'[j][2]
      BY DEF InOrder
    <3> DEFINE l == Len(seen)
    <3>1. /\ l \in Nat /\ DOMAIN seen = 1 .. l /\ DOMAIN seen' = 1 .. l + 1
          /\ seen'[l + 1] = r /\ \A m \in 1 .. l : seen'[m] = seen[m]
      BY <1>2, <1>4, <2>2
    <3> HIDE DEF l
    <3>2. CASE j \in 1 .. l
      <4>1. i \in 1 .. l
        BY <3>1, <3>2
      <4> QED BY <3>1, <3>2, <4>1 DEF SeenInv, InOrder
    <3>3. CASE j = l + 1
      <4>1. i \in 1 .. l /\ seen'[j] = r
        BY <3>1, <3>3
      <4>2. r[1] = h /\ r[2] = n + 1
        BY DEF r
      <4>3. seen[i] \in SeenOf(h)
        BY <3>1, <4>1, <4>2 DEF SeenOf, ToSet
      <4>4. seen[i][2] \in Nat /\ seen[i][2] <= n
        BY <1>0, <4>3, SeenIsVisited
      <4> QED BY <1>2, <3>1, <4>1, <4>2, <4>4
    <3> QED BY <3>1, <3>2, <3>3
  <2> QED BY <1>1, <2>1, <2>2
<1>8. ASSUME NEW g \in Hosts, g # h PROVE UptoSeen(g)'
  <2>1. SeenOf(g)' = SeenOf(g)
    <3>1. r[1] # g
      BY <1>8 DEF r
    <3>2. ToSet(seen') = ToSet(seen) \/ ToSet(seen') = ToSet(seen) \cup {r}
      <4>1. CASE seen' = seen
        BY <4>1
      <4>2. CASE seen' = Append(seen, r)
        BY <1>2, <1>4, <4>2, AppendedToSet
      <4> QED BY <1>1, <4>1, <4>2
    <3> QED BY <3>1, <3>2 DEF SeenOf
  <2>2. (done' = Nobody => done = Nobody) /\ (done' = g => done = g)
    BY <1>1, <1>8, ReplayAssumption
  <2>3. visited'[g] = visited[g]
    BY <1>2, <1>8
  <2>4. UptoSeen(g)
    BY DEF SeenInv
  <2> QED BY <1>5, <2>1, <2>2, <2>3, <2>4 DEF UptoSeen
<1>9. UptoSeen(h)'
  <2>1. PICK upto \in 0 .. n :
          /\ done = Nobody => upto = n
          /\ done = h => upto < n /\ Later(<<h, upto + 1>>)
          /\ SeenOf(h) = Upto(h, upto)
    BY <1>0 DEF SeenInv, UptoSeen
  <2>2. /\ r \in InRange(h) => Upto(h, n + 1) = Upto(h, n) \cup {r}
        /\ r \notin InRange(h) => Upto(h, n + 1) = Upto(h, n)
    BY <1>2, UptoNext DEF TopicInv, r
  <2>3. /\ n \in 0 .. visited'[h] /\ n + 1 \in 0 .. visited'[h] /\ n < visited'[h]
        /\ upto \in 0 .. visited'[h] /\ (upto < n => upto < visited'[h])
        /\ h # Nobody
    BY <1>2, <2>1, ReplayAssumption
  <2>4. CASE Relevant(r) /\ seen' = Append(seen, r)
    <3>1. SeenOf(h)' = SeenOf(h) \cup {r}
      <4>1. ToSet(seen') = ToSet(seen) \cup {r} /\ r[1] = h
        BY <1>2, <1>4, <2>4, AppendedToSet DEF r
      <4> QED BY <4>1 DEF SeenOf
    <3>2. SeenOf(h)' = Upto(h, n + 1)' /\ done' = Nobody
      BY <1>3, <1>5, <2>1, <2>2, <2>4, <3>1
    <3> QED BY <1>2, <2>3, <3>2 DEF UptoSeen
  <2>5. ASSUME ~Relevant(r), seen' = seen PROVE UptoSeen(h)'
    <3>1. SeenOf(h)' = SeenOf(h)
      BY <2>5 DEF SeenOf
    <3>2. CASE done = Nobody /\ Later(r)
      <4>1. done' = h /\ SeenOf(h)' = Upto(h, n)' /\ Later(<<h, n + 1>>)'
        BY <1>1, <1>5, <2>1, <3>1, <3>2 DEF r
      <4> QED BY <2>3, <4>1 DEF UptoSeen
    <3>3. CASE done = Nobody /\ ~Later(r)
      <4>1. done' = Nobody /\ SeenOf(h)' = Upto(h, n + 1)'
        BY <1>1, <1>3, <1>5, <2>1, <2>2, <2>5, <3>1, <3>3
      <4> QED BY <1>2, <2>3, <4>1 DEF UptoSeen
    <3>4. CASE done # Nobody
      <4>1. done' = done /\ SeenOf(h)' = Upto(h, upto)'
        BY <1>1, <1>5, <2>1, <3>1, <3>4
      <4>2. done' = h => upto < visited'[h] /\ Later(<<h, upto + 1>>)'
        BY <1>5, <2>1, <2>3, <4>1
      <4> QED BY <2>3, <3>4, <4>1, <4>2 DEF UptoSeen
    <3> QED BY <3>2, <3>3, <3>4
  <2> QED BY <1>1, <2>4, <2>5
<1> QED BY <1>6, <1>7, <1>8, <1>9 DEF SeenInv

LEMMA SeenHolds ==
    ASSUME TopicInv, SeenInv, [ReplayNext]_replayVars
    PROVE  SeenInv'
<1>1. TopicInv' /\ Grows
  BY TopicHolds
<1>2. ASSUME UNCHANGED <<visited, done, seen>> PROVE SeenInv'
  BY <1>1, <1>2, SeenStays
<1> QED BY <1>2, ReplayStep, SeenGrows DEF Produce, Waits

LEMMA SeenStarts ==
    ASSUME ReplayInit
    PROVE  SeenInv
<1>1. done = Nobody /\ seen = <<>> /\ ToSet(seen) = {} /\ visited = [h \in Hosts |-> 0]
  BY DEF ReplayInit, ToSet
<1>2. ReplayTypeOK
  BY TopicStarts DEF TopicInv
<1>3. ASSUME NEW h \in Hosts PROVE UptoSeen(h)
  <2>1. SeenOf(h) = {} /\ visited[h] = 0
    BY <1>1 DEF SeenOf
  <2>2. Upto(h, 0) = {}
    <3>1. \A r \in InRange(h) : r[2] \in Nat \ {0}
      BY <1>2, InRangeFacts, RecordFacts
    <3> QED BY <3>1 DEF Upto
  <2>3. h # Nobody
    BY ReplayAssumption
  <2> QED BY <1>1, <2>1, <2>2, <2>3 DEF UptoSeen
<1> QED BY <1>1, <1>3 DEF SeenInv, Ended, InOrder

(* The partition with the later record was evaluated to its end. *)
LEMMA EverythingVisited ==
    ASSUME TopicInv, Ended, done # Nobody, InTimeOrder(done)
    PROVE  done \in Hosts /\ \A r \in InRange(done) : r[2] <= visited[done]
<1>1. /\ done \in Hosts /\ visited[done] \in Nat /\ at[done] \in Nat
      /\ visited[done] <= at[done] /\ at[done] <= Len(topic[done])
      /\ Len(topic[done]) \in Nat /\ DOMAIN topic[done] = 1 .. Len(topic[done])
  BY RecordFacts DEF TopicInv, ReplayTypeOK, Positions
<1>2. PICK i \in 1 .. visited[done] : topic[done][i].time > EndTime
  BY DEF Ended
<1>3. i \in DOMAIN topic[done]
  BY <1>1
<1>4. \A r \in InRange(done) : r[2] < i /\ r[2] \in Nat
  BY <1>1, <1>2, <1>3, BehindIsLater, InRangeFacts DEF TopicInv
<1> QED BY <1>1, <1>4

LEMMA SeenIsComplete ==
    ASSUME TopicInv, SeenInv
    PROVE  EndIsComplete
<1>1. ASSUME NEW h \in Hosts
      PROVE  \E upto \in 0 .. visited[h] :
                /\ done = Nobody => upto = visited[h]
                /\ done = h => upto < visited[h] /\ Later(<<h, upto + 1>>)
                /\ {r \in ToSet(seen) : r[1] = h} = {r \in InRange(h) : r[2] <= upto}
  BY DEF SeenInv, UptoSeen, SeenOf, Upto
<1>2. ASSUME done # Nobody, InTimeOrder(done) PROVE InRange(done) \subseteq ToSet(seen)
  <2>1. /\ done \in Hosts /\ visited[done] \in Nat /\ at[done] \in Nat
        /\ visited[done] <= at[done] /\ at[done] <= Len(topic[done])
        /\ Len(topic[done]) \in Nat /\ DOMAIN topic[done] = 1 .. Len(topic[done])
    BY <1>2, RecordFacts DEF TopicInv, ReplayTypeOK, Positions
  <2>2. PICK upto \in 0 .. visited[done] :
          /\ upto < visited[done] /\ Later(<<done, upto + 1>>)
          /\ SeenOf(done) = Upto(done, upto)
    BY <2>1 DEF SeenInv, UptoSeen
  <2>3. upto + 1 \in DOMAIN topic[done] /\ upto \in Nat
    BY <2>1, <2>2
  <2>4. topic[done][upto + 1].time > EndTime
    BY <2>2 DEF Later, Record
  <2>5. \A r \in InRange(done) : r[2] < upto + 1
    BY <1>2, <2>1, <2>3, <2>4, BehindIsLater DEF TopicInv
  <2>6. \A r \in InRange(done) : r[2] \in Nat
    BY <2>1, InRangeFacts DEF TopicInv
  <2>7. \A r \in InRange(done) : r[2] <= upto
    BY <2>3, <2>5, <2>6
  <2> QED BY <2>2, <2>7 DEF SeenOf, Upto
<1> QED BY <1>1, <1>2 DEF EndIsComplete, SeenInv, InOrder

(* Whatever is written meanwhile, whatever times it carries and however it *)
(* is fetched: a replay evaluates the events of the range in the order of  *)
(* their partitions, each once and without gaps, up to a later record; and *)
(* all of them in the partition of that record, if its times ascend.       *)
THEOREM ReplayIsComplete == ReplaySpec => []EndIsComplete
<1>1. ReplayInit => TopicInv /\ SeenInv
  BY TopicStarts, SeenStarts
<1>2. TopicInv /\ SeenInv /\ [ReplayNext]_replayVars => TopicInv' /\ SeenInv'
  BY TopicHolds, SeenHolds
<1>3. TopicInv /\ SeenInv => EndIsComplete
  BY SeenIsComplete
<1> QED BY <1>1, <1>2, <1>3, PTL DEF ReplaySpec

-----------------------------------------------------------------------------
(* What was found. *)

RightlyMatched(r) ==
    \A rule \in OfType("single") :
        <<rule, r>> \in matches <=> MatchesConditions(EventOf(r), rule.conditions)

MatchInv ==
    /\ \A r \in ToSet(seen) : RightlyMatched(r)
    /\ consumed > 0 => \E rule \in OfType("threshold") : Found(rule)
    /\ detected > 0 => \E rule \in OfType("sequence") : Found(rule)

LEMMA OtherType ==
    ASSUME NEW type, NEW other, type # other
    PROVE  OfType(type) \cap OfType(other) = {}
BY DEF OfType

LEMMA SeenAreRecords ==
    ASSUME ReplayTypeOK
    PROVE  \A r \in ToSet(seen) : r \in Records
BY DEF ReplayTypeOK, ToSet

LEMMA MatchStays ==
    ASSUME ReplayTypeOK, Grows, MatchInv, UNCHANGED <<seen, matches>>, UNCHANGED engineVars
    PROVE  MatchInv'
<1>1. \A r \in ToSet(seen) : EventOf(r)' = EventOf(r)
  BY RecordsStay, SeenAreRecords
<1>2. \A r \in ToSet(seen) : RightlyMatched(r)'
  BY <1>1 DEF MatchInv, RightlyMatched
<1>3. \A rule : Found(rule)' <=> Found(rule)
  BY DEF Found
<1> QED BY <1>2, <1>3 DEF MatchInv, engineVars

(* The engine alerts on a record that a threshold or sequence rule counts. *)
LEMMA EngineAlerts ==
    ASSUME EngineTypeOK, NEW r, Evaluate(r)
    PROVE  /\ consumed' # consumed => consumed' > consumed /\ OfType("threshold") # {}
           /\ detected' # detected => detected' > detected /\ OfType("sequence") # {}
<1>1. EvalThresholds(EventOf(r)) /\ EvalSequences(Record(r).line, EventOf(r))
  BY DEF Evaluate
<1>2. consumed \in Nat /\ detected \in Nat
  BY DEF EngineTypeOK
<1>3. ASSUME consumed' # consumed PROVE consumed' > consumed /\ OfType("threshold") # {}
  <2>1. PICK rule \in OfType("threshold") : AddAndCheck(EventOf(r).ts, rule.window, rule.threshold)
    BY <1>1, <1>3 DEF EvalThresholds, windowVars
  <2>2. consumed' = consumed + rule.threshold
    BY <1>3, <2>1 DEF AddAndCheck
  <2>3. rule.threshold \in Nat \ {0}
    BY ThresholdRule
  <2> QED BY <1>2, <2>2, <2>3
<1>4. ASSUME detected' # detected PROVE detected' > detected /\ OfType("sequence") # {}
  <2>1. PICK rule \in OfType("sequence") :
          EvaluateSequence(Record(r).line, StepsOf(rule), rule.window, clock)
    BY <1>1, <1>4 DEF EvalSequences, sequenceVars
  <2>2. detected' = detected + 1
    BY <1>4, <2>1 DEF EvaluateSequence, NoMatch, OutOfRange, Collect, Advance, Complete
  <2> QED BY <1>2, <2>2
<1> QED BY <1>3, <1>4

LEMMA MatchGrows ==
    ASSUME ReplayTypeOK, MatchInv, NEW r \in Records, Evaluate(r), topic' = topic
    PROVE  MatchInv'
<1> DEFINE fired == {rule \in OfType("single") : MatchesConditions(EventOf(r), rule.conditions)}
                    \cup {rule \in OfType("threshold") : consumed' > consumed}
                    \cup {rule \in OfType("sequence") : detected' > detected}
<1>1. matches' = matches \cup (fired \X {r}) /\ seen' = Append(seen, r)
  BY DEF Evaluate
<1>2. ToSet(seen') = ToSet(seen) \cup {r} /\ matches \subseteq Rules \X ToSet(seen)
  BY <1>1, AppendedToSet DEF ReplayTypeOK
<1>3. \A q : EventOf(q)' = EventOf(q)
  BY DEF EventOf, Record
<1>4. ASSUME NEW rule \in OfType("single")
      PROVE  rule \in fired <=> MatchesConditions(EventOf(r), rule.conditions)
  BY OtherType
<1>5. \A rule \in OfType("threshold") : consumed' > consumed => rule \in fired
  OBVIOUS
<1>6. \A rule \in OfType("sequence") : detected' > detected => rule \in fired
  OBVIOUS
<1> HIDE DEF fired
<1>7. ASSUME NEW q \in ToSet(seen') PROVE RightlyMatched(q)'
  <2> SUFFICES ASSUME NEW rule \in OfType("single")
               PROVE  <<rule, q>> \in matches' <=> MatchesConditions(EventOf(q), rule.conditions)
    BY <1>3 DEF RightlyMatched
  <2>1. CASE q # r
    <3>1. q \in ToSet(seen) /\ (<<rule, q>> \in matches' <=> <<rule, q>> \in matches)
      BY <1>1, <1>2, <2>1
    <3> QED BY <3>1 DEF MatchInv, RightlyMatched
  <2>2. CASE q = r
    <3>1. <<rule, r>> \in matches => MatchesConditions(EventOf(r), rule.conditions)
      BY <1>2 DEF MatchInv, RightlyMatched
    <3> QED BY <1>1, <1>4, <2>2, <3>1
  <2> QED BY <2>1, <2>2
<1>8. \A rule : Found(rule) => Found(rule)'
  BY <1>1, <1>2 DEF Found
<1>9. \A rule \in fired : Found(rule)'
  BY <1>1, <1>2 DEF Found
<1>10. consumed' > 0 => \E rule \in OfType("threshold") : Found(rule)'
  <2>1. CASE consumed' = consumed
    BY <1>8, <2>1 DEF MatchInv
  <2>2. CASE consumed' # consumed
    BY <1>5, <1>9, <2>2, EngineAlerts DEF ReplayTypeOK
  <2> QED BY <2>1, <2>2
<1>11. detected' > 0 => \E rule \in OfType("sequence") : Found(rule)'
  <2>1. CASE detected' = detected
    BY <1>8, <2>1 DEF MatchInv
  <2>2. CASE detected' # detected
    BY <1>6, <1>9, <2>2, EngineAlerts DEF ReplayTypeOK
  <2> QED BY <2>1, <2>2
<1> QED BY <1>7, <1>10, <1>11 DEF MatchInv

LEMMA MatchHolds ==
    ASSUME TopicInv, MatchInv, [ReplayNext]_replayVars
    PROVE  MatchInv'
<1>1. ReplayTypeOK /\ Grows
  BY TopicHolds DEF TopicInv
<1>2. ASSUME UNCHANGED <<seen, matches>>, UNCHANGED engineVars PROVE MatchInv'
  BY <1>1, <1>2, MatchStays
<1>3. ASSUME NEW h \in Hosts, HandleRecord(h) PROVE MatchInv'
  <2> DEFINE r == <<h, visited[h] + 1>>
  <2>1. /\ visited[h] < at[h] /\ topic' = topic
        /\ Evaluate(r) \/ UNCHANGED <<seen, matches, engineVars>>
    BY <1>3, RecordEvent
  <2>2. r \in Records
    BY <2>1, NextPlace
  <2> HIDE DEF r
  <2>3. CASE Evaluate(r)
    BY <1>1, <2>1, <2>2, <2>3, MatchGrows
  <2> QED BY <1>2, <2>1, <2>3
<1> QED BY <1>2, <1>3, ReplayStep DEF Produce, Waits

LEMMA MatchStarts ==
    ASSUME ReplayInit
    PROVE  MatchInv
<1>1. seen = <<>> /\ consumed = 0 /\ detected = 0
  BY DEF ReplayInit, WindowInit, SequenceInit
<1>2. ToSet(seen) = {}
  BY <1>1 DEF ToSet
<1> QED BY <1>1, <1>2 DEF MatchInv

(* What a worker adds to an event is out of sight of a rule that reads     *)
(* only what the agent wrote.                                              *)
LEMMA AddedOutOfSight ==
    ASSUME NEW line, NEW time, NEW field, field \notin EnrichedFields, MetaKey[field] \notin EnrichedFields
    PROVE  LET event == ParseLine(line, time)
           IN  FieldValue(Processed(event), field) = FieldValue(event, field)
<1> DEFINE event == ParseLine(line, time)
           source == event.fields.source_ip
           located == GeoIPEnrich(event.metadata, source)
           known == ThreatIntelEnrich(located, source)
           key == MetaKey[field]
<1>1. /\ DOMAIN event.fields = {"type", "service", "source_ip", "hostname", "severity"}
      /\ event = [fields |-> event.fields, metadata |-> event.metadata, ts |-> time]
  BY DEF ParseLine
<1>2. Lookup(located, key) = Lookup(event.metadata, key)
  <2> HIDE DEF event
  <2> QED BY DEF GeoIPEnrich, Lookup, EnrichedFields, With
<1>3. Lookup(known, key) = Lookup(located, key)
  <2> HIDE DEF event, located
  <2> QED BY DEF ThreatIntelEnrich, Lookup, EnrichedFields, With
<1>4. /\ Processed(event).metadata = known
      /\ \E severity : Processed(event).fields = [event.fields EXCEPT !.severity = severity]
  <2> HIDE DEF source, event
  <2>1. Enrich(event) = [event EXCEPT !.metadata = known]
    BY DEF Enrich, source
  <2>2. Processed(event) = [Enrich(event) EXCEPT !.fields.severity = ClassifySeverity(Enrich(event))]
    BY DEF Processed
  <2> HIDE DEF known
  <2> QED BY <1>1, <2>1, <2>2
<1>5. Lookup(Processed(event).fields, field) = Lookup(event.fields, field)
      /\ Processed(event).fields.type = event.fields.type
  <2> HIDE DEF event
  <2> QED BY <1>1, <1>4 DEF Lookup, EnrichedFields
<1> HIDE DEF event, known, located
<1>6. FieldValue(Processed(event), field) = FieldValue(event, field)
  BY <1>2, <1>3, <1>4, <1>5 DEF FieldValue
<1> QED BY <1>6 DEF event

LEMMA MatchedAlike ==
    ASSUME NEW line, NEW time, NEW rule, ReadsRaw(rule)
    PROVE  LET event == ParseLine(line, time)
           IN  MatchesConditions(Processed(event), rule.conditions)
                 <=> MatchesConditions(event, rule.conditions)
<1> DEFINE event == ParseLine(line, time)
<1>1. ASSUME NEW i \in DOMAIN rule.conditions
      PROVE  FieldValue(Processed(event), rule.conditions[i].field)
               = FieldValue(event, rule.conditions[i].field)
  BY <1>1, AddedOutOfSight DEF ReadsRaw
<1> HIDE DEF event
<1>2. \A i \in DOMAIN rule.conditions :
        MatchCondition(Processed(event), rule.conditions[i]) <=> MatchCondition(event, rule.conditions[i])
  BY <1>1 DEF MatchCondition
<1>3. MatchesConditions(Processed(event), rule.conditions) <=> MatchesConditions(event, rule.conditions)
  BY <1>2 DEF MatchesConditions
<1> QED BY <1>3 DEF event

(* For every rule that reads only what the agent wrote, a replay sends a   *)
(* result of an event exactly if the processor would.                      *)
THEOREM ReplayFindsWhatTheProcessorFinds == ReplaySpec => []ReplayMatchesLive
<1>1. ReplayInit => TopicInv /\ MatchInv
  BY TopicStarts, MatchStarts
<1>2. TopicInv /\ MatchInv /\ [ReplayNext]_replayVars => TopicInv' /\ MatchInv'
  BY TopicHolds, MatchHolds
<1>3. TopicInv /\ MatchInv => ReplayMatchesLive
  <2> SUFFICES ASSUME MatchInv, NEW r \in ToSet(seen), NEW rule \in OfType("single"), ReadsRaw(rule)
               PROVE  <<rule, r>> \in matches
                        <=> MatchesConditions(Processed(EventOf(r)), rule.conditions)
    BY DEF ReplayMatchesLive
  <2>1. MatchesConditions(Processed(EventOf(r)), rule.conditions)
          <=> MatchesConditions(EventOf(r), rule.conditions)
    BY MatchedAlike DEF EventOf
  <2> QED BY <2>1 DEF MatchInv, RightlyMatched
<1> QED BY <1>1, <1>2, <1>3, PTL DEF ReplaySpec

-----------------------------------------------------------------------------
(* Bursts.  While no other host has events of the group, the window counts *)
(* exactly the events that meet the threshold rule in one partition.       *)
Alone(h, rule) == \A g \in Hosts \ {h} : GroupEvents(g, rule) = {}

(* The events the rule counts among the first n records of a partition. *)
Hits(h, rule, n) == {r \in Upto(h, n) : Counts(EventOf(r), rule)}

HitsAfter(hits, cutoff) == {r \in hits : EventOf(r).ts > cutoff}
EntriesAfter(cutoff) == {entry \in timestamps : entry.ts > cutoff}

(* Without an alert so far the window holds an entry for every hit, but    *)
(* for the hits that are too old for any event still to come; and no hits  *)
(* make a burst.                                                           *)
WindowCounts(hits, rule) ==
    /\ IsFiniteSet(hits)
    /\ \A cutoff \in Int :
        (\A r \in hits : EventOf(r).ts - rule.window <= cutoff) =>
            Cardinality(EntriesAfter(cutoff)) = Cardinality(HitsAfter(hits, cutoff))
    /\ \A some \in SUBSET hits :
        Cardinality(some) = rule.threshold =>
            \E q, r \in some : EventOf(q).ts <= EventOf(r).ts - rule.window

WindowInv ==
    \A rule \in OfType("threshold"), h \in Hosts :
        /\ done \in {Nobody, h} /\ Alone(h, rule) /\ consumed = 0
        /\ InTimeOrder(h) /\ ReadInOrder(h, rule)
        => WindowCounts(Hits(h, rule, visited[h]), rule)

LEMMA WindowReacts ==
    ASSUME EngineTypeOK, consumed = 0, consumed' = 0,
           NEW rule \in OfType("threshold"), NEW hits, WindowCounts(hits, rule),
           NEW r, r \notin hits, EventOf(r).ts \in Nat, topic' = topic,
           \A q \in hits : EventOf(q).ts \in Nat /\ EventOf(q).ts <= EventOf(r).ts,
           AddAndCheck(EventOf(r).ts, rule.window, rule.threshold)
    PROVE  WindowCounts(hits \cup {r}, rule)'
<1> DEFINE t == EventOf(r).ts
           start == t - rule.window
           entry == [nth |-> added + 1, ts |-> t]
           all == hits \cup {r}
<1>1. /\ rule.threshold \in Nat \ {0} /\ rule.window \in Nat \ {0} /\ t \in Nat
      /\ start \in Int /\ start < t
  <2>1. rule.threshold \in Nat \ {0} /\ rule.window \in Nat \ {0}
    BY ThresholdRule
  <2> QED BY <2>1
<1>2. /\ IsFiniteSet(timestamps) /\ timestamps \subseteq [nth : 1 .. added, ts : 0 .. MaxTime]
      /\ added \in Nat
  BY DEF EngineTypeOK
<1>3. /\ IsFiniteSet(hits)
      /\ \A cutoff \in Int :
           (\A q \in hits : EventOf(q).ts - rule.window <= cutoff) =>
               Cardinality(EntriesAfter(cutoff)) = Cardinality(HitsAfter(hits, cutoff))
      /\ \A some \in SUBSET hits :
           Cardinality(some) = rule.threshold =>
               \E p, q \in some : EventOf(p).ts <= EventOf(q).ts - rule.window
  BY DEF WindowCounts
<1>4. Pruned(t, rule.window) = EntriesAfter(start)
  BY DEF Pruned, EntriesAfter
<1>5. timestamps' = EntriesAfter(start) \cup {entry} /\ ~Fires(t, rule.window, rule.threshold)
  BY <1>1, <1>4 DEF AddAndCheck
<1>6. \A cutoff : /\ IsFiniteSet(EntriesAfter(cutoff)) /\ Cardinality(EntriesAfter(cutoff)) \in Nat
                  /\ IsFiniteSet(HitsAfter(hits, cutoff)) /\ Cardinality(HitsAfter(hits, cutoff)) \in Nat
                  /\ entry \notin EntriesAfter(cutoff) /\ r \notin HitsAfter(hits, cutoff)
  <2> SUFFICES ASSUME NEW cutoff
               PROVE  /\ IsFiniteSet(EntriesAfter(cutoff)) /\ Cardinality(EntriesAfter(cutoff)) \in Nat
                      /\ IsFiniteSet(HitsAfter(hits, cutoff)) /\ Cardinality(HitsAfter(hits, cutoff)) \in Nat
                      /\ entry \notin EntriesAfter(cutoff) /\ r \notin HitsAfter(hits, cutoff)
    OBVIOUS
  <2>1. EntriesAfter(cutoff) \subseteq timestamps /\ HitsAfter(hits, cutoff) \subseteq hits
    BY DEF EntriesAfter, HitsAfter
  <2>2. entry \notin timestamps
    BY <1>2
  <2> HIDE DEF entry
  <2> QED BY <1>2, <1>3, <2>1, <2>2, FS_Subset, FS_CardinalityType
<1>7. \A q : EventOf(q)' = EventOf(q)
  BY DEF EventOf, Record
<1> HIDE DEF t, start, entry
<1>8. \A q \in hits : EventOf(q).ts \in Nat /\ EventOf(q).ts <= t /\ EventOf(q).ts - rule.window <= start
  BY <1>1 DEF t, start
<1>9. ASSUME NEW cutoff \in Int, \A q \in all : EventOf(q).ts - rule.window <= cutoff
      PROVE  Cardinality(EntriesAfter(cutoff)') = Cardinality(HitsAfter(all, cutoff))
  <2>1. start <= cutoff
    BY <1>9 DEF start, t
  <2>2. Cardinality(EntriesAfter(cutoff)) = Cardinality(HitsAfter(hits, cutoff))
    BY <1>3, <1>9
  <2>3. \A e \in timestamps : e.ts \in Int
    BY <1>2
  <2>4. entry.ts = t
    BY DEF entry
  <2>5. CASE t > cutoff
    <3>1. EntriesAfter(cutoff)' = EntriesAfter(cutoff) \cup {entry}
      BY <1>1, <1>5, <2>1, <2>3, <2>4, <2>5 DEF EntriesAfter
    <3>2. HitsAfter(all, cutoff) = HitsAfter(hits, cutoff) \cup {r}
      BY <2>5 DEF HitsAfter, t
    <3>3. Cardinality(EntriesAfter(cutoff) \cup {entry}) = Cardinality(EntriesAfter(cutoff)) + 1
      BY <1>6, FS_AddElement
    <3>4. Cardinality(HitsAfter(hits, cutoff) \cup {r}) = Cardinality(HitsAfter(hits, cutoff)) + 1
      BY <1>6, FS_AddElement
    <3> QED BY <2>2, <3>1, <3>2, <3>3, <3>4
  <2>6. CASE ~(t > cutoff)
    <3>1. EntriesAfter(cutoff)' = EntriesAfter(cutoff)
      BY <1>1, <1>5, <2>1, <2>3, <2>4, <2>6 DEF EntriesAfter
    <3>2. HitsAfter(all, cutoff) = HitsAfter(hits, cutoff)
      BY <2>6 DEF HitsAfter, t
    <3> QED BY <2>2, <3>1, <3>2
  <2> QED BY <2>5, <2>6
<1>10. ASSUME NEW some \in SUBSET all, Cardinality(some) = rule.threshold,
              \A p, q \in some : ~(EventOf(p).ts <= EventOf(q).ts - rule.window)
       PROVE  FALSE
  <2>1. r \in some
    BY <1>3, <1>10
  <2>2. some \ {r} \subseteq HitsAfter(hits, start)
    <3> SUFFICES ASSUME NEW q \in some \ {r} PROVE q \in HitsAfter(hits, start)
      OBVIOUS
    <3>1. q \in hits /\ ~(EventOf(q).ts <= start)
      BY <1>10, <2>1 DEF start, t
    <3> QED BY <1>1, <1>8, <3>1 DEF HitsAfter
  <2>3. IsFiniteSet(some) /\ Cardinality(some) \in Nat
    <3>1. IsFiniteSet(all)
      BY <1>3, FS_AddElement
    <3> QED BY <3>1, FS_Subset, FS_CardinalityType
  <2>4. /\ Cardinality(some \ {r}) = Cardinality(some) - 1
        /\ Cardinality(some \ {r}) <= Cardinality(HitsAfter(hits, start))
    BY <1>6, <2>1, <2>2, <2>3, FS_RemoveElement, FS_Subset
  <2>5. Cardinality(EntriesAfter(start)) = Cardinality(HitsAfter(hits, start))
    BY <1>1, <1>3, <1>8
  <2>6. ~(Cardinality(EntriesAfter(start)) + 1 >= rule.threshold)
    BY <1>4, <1>5 DEF Fires
  <2>7. Cardinality(HitsAfter(hits, start)) \in Nat
    BY <1>6
  <2> QED BY <1>1, <1>10, <2>3, <2>4, <2>5, <2>6, <2>7
<1>11. IsFiniteSet(all)
  BY <1>3, FS_AddElement
<1>12. \A cutoff : HitsAfter(all, cutoff)' = HitsAfter(all', cutoff)
  BY <1>7 DEF HitsAfter
<1> QED BY <1>7, <1>9, <1>10, <1>11, <1>12 DEF WindowCounts

(* What a visit of a record of partition g means for the partition h. *)
LEMMA Visit ==
    ASSUME TopicInv, Ended, NEW g \in Hosts, HandleRecord(g),
           NEW h \in Hosts, InTimeOrder(h), done' \in {Nobody, h}, NEW n, n = visited[h]
    PROVE  /\ n \in Nat /\ n <= Len(topic[h]) /\ topic' = topic /\ done \in {Nobody, h}
           /\ \/ /\ g = h /\ visited'[h] = n + 1
                 /\ \/ <<h, n + 1>> \in InRange(h) /\ Evaluate(<<h, n + 1>>)
                    \/ <<h, n + 1>> \notin InRange(h) /\ UNCHANGED engineVars
              \/ /\ g # h /\ visited'[h] = n
                 /\ \/ \E r \in InRange(g) : Evaluate(r)
                    \/ UNCHANGED engineVars
<1> DEFINE r == <<g, visited[g] + 1>>
<1>1. /\ visited[g] < at[g] /\ topic' = topic
      /\ done' = IF done = Nobody /\ Later(r) THEN g ELSE done
      /\ \/ Relevant(r) /\ Evaluate(r)
         \/ ~Relevant(r) /\ UNCHANGED engineVars
      /\ visited' = [visited EXCEPT ![g] = visited[g] + 1]
  BY RecordEvent
<1>2. /\ Relevant(r) => r \in InRange(g)
      /\ done = Nobody \/ (done = g /\ InTimeOrder(g)) => (r \in InRange(g) => Relevant(r))
  BY <1>1, RelevantIsInRange
<1>3. n \in Nat /\ n <= Len(topic[h])
  <2>1. visited[h] \in Nat /\ at[h] \in Nat /\ visited[h] <= at[h] /\ at[h] <= Len(topic[h])
    BY DEF TopicInv, ReplayTypeOK, Positions
  <2>2. Len(topic[h]) \in Nat
    BY RecordFacts DEF TopicInv
  <2> QED BY <2>1, <2>2
<1>4. done \in {Nobody, h}
  BY <1>1
<1>5. visited'[h] = IF g = h THEN n + 1 ELSE n
  BY <1>1 DEF TopicInv, ReplayTypeOK
<1> HIDE DEF r
<1>6. CASE g = h
  <2>1. r = <<h, n + 1>>
    BY <1>6 DEF r
  <2> QED BY <1>1, <1>2, <1>3, <1>4, <1>5, <1>6, <2>1
<1>7. CASE g # h
  BY <1>1, <1>2, <1>3, <1>4, <1>5, <1>7
<1> QED BY <1>6, <1>7

LEMMA AloneBefore ==
    ASSUME ReplayTypeOK, ReplayTypeOK', Grows, NEW h \in Hosts, NEW rule, Alone(h, rule)'
    PROVE  Alone(h, rule)
<1> SUFFICES ASSUME NEW g \in Hosts \ {h}, NEW r \in GroupEvents(g, rule) PROVE FALSE
  BY DEF Alone
<1>1. r \in InRange(g) /\ InGroup(EventOf(r), rule)
  BY DEF GroupEvents
<1>2. r \in Records /\ r[2] \in Nat /\ r[2] <= Len(topic[g])
  BY <1>1, InRangeFacts, RecordFacts
<1>3. r \in InRange(g)'
  <2>1. r \in Upto(g, Len(topic[g]))
    BY <1>1, <1>2 DEF Upto
  <2>2. PICK n \in Nat : n = Len(topic[g])
    BY RecordFacts
  <2>3. Upto(g, n)' = Upto(g, n)
    BY <2>2, UptoStays
  <2> QED BY <2>1, <2>2, <2>3 DEF Upto
<1>4. EventOf(r)' = EventOf(r)
  BY <1>2, RecordsStay
<1>5. r \in GroupEvents(g, rule)'
  BY <1>1, <1>3, <1>4 DEF GroupEvents, InGroup
<1> QED BY <1>5 DEF Alone

LEMMA ReadBefore ==
    ASSUME ReplayTypeOK, ReplayTypeOK', Grows, NEW h \in Hosts, NEW rule, ReadInOrder(h, rule)'
    PROVE  ReadInOrder(h, rule)
<1>1. \A r \in InRange(h) : r \in Records /\ r \in InRange(h)'
  <2> SUFFICES ASSUME NEW r \in InRange(h) PROVE r \in Records /\ r \in InRange(h)'
    OBVIOUS
  <2>1. r \in Records /\ r[2] \in Nat /\ r[2] <= Len(topic[h])
    BY InRangeFacts, RecordFacts
  <2>2. PICK n \in Nat : n = Len(topic[h])
    BY RecordFacts
  <2>3. r \in Upto(h, n) /\ Upto(h, n)' = Upto(h, n)
    BY <2>1, <2>2, UptoStays DEF Upto
  <2> QED BY <2>1, <2>3 DEF Upto
<1>2. \A r \in GroupEvents(h, rule) : r \in GroupEvents(h, rule)' /\ EventOf(r)' = EventOf(r)
  BY <1>1, RecordsStay DEF GroupEvents, InGroup
<1> QED BY <1>2 DEF ReadInOrder

LEMMA HitsStay ==
    ASSUME ReplayTypeOK, ReplayTypeOK', Grows, NEW h \in Hosts,
           NEW n \in Nat, n <= Len(topic[h]), NEW rule
    PROVE  Hits(h, rule, n)' = Hits(h, rule, n)
<1>1. Upto(h, n)' = Upto(h, n)
  BY UptoStays
<1>2. \A r \in Upto(h, n) : EventOf(r)' = EventOf(r)
  BY InRangeFacts, RecordsStay DEF Upto
<1> QED BY <1>1, <1>2 DEF Hits, Counts, InGroup

LEMMA HitFacts ==
    ASSUME TopicInv, NEW h \in Hosts, NEW n \in Nat, NEW rule
    PROVE  /\ \A r \in Hits(h, rule, n) :
                /\ r \in GroupEvents(h, rule) /\ r \in Records /\ r[2] \in Nat
                /\ r[2] <= n /\ EventOf(r).ts \in Nat
           /\ <<h, n + 1>> \in GroupEvents(h, rule) =>
                EventOf(<<h, n + 1>>).ts \in Nat /\ <<h, n + 1>> \notin Hits(h, rule, n)
           /\ <<h, n + 1>> \in GroupEvents(h, rule) /\ ReadInOrder(h, rule) =>
                \A r \in Hits(h, rule, n) : EventOf(r).ts <= EventOf(<<h, n + 1>>).ts
<1>1. ASSUME NEW r \in InRange(h) PROVE EventOf(r).ts \in Nat
  <2>1. r[2] \in DOMAIN topic[h] /\ r = <<h, r[2]>>
    BY InRangeFacts DEF TopicInv
  <2>2. Record(<<h, r[2]>>).read \in Nat
    BY <2>1, RecordFacts DEF TopicInv
  <2> QED BY <2>1, <2>2 DEF EventOf, ParseLine
<1>2. ASSUME NEW r \in Hits(h, rule, n)
      PROVE  /\ r \in GroupEvents(h, rule) /\ r \in Records /\ r[2] \in Nat
             /\ r[2] <= n /\ EventOf(r).ts \in Nat
  <2>1. r \in InRange(h) /\ r[2] <= n /\ r \in GroupEvents(h, rule)
    BY <1>2 DEF Hits, Upto, Counts, GroupEvents
  <2>2. r \in Records /\ r[2] \in Nat
    BY <2>1, InRangeFacts, RecordFacts DEF TopicInv
  <2> QED BY <1>1, <2>1, <2>2
<1>3. ASSUME <<h, n + 1>> \in GroupEvents(h, rule)
      PROVE  EventOf(<<h, n + 1>>).ts \in Nat /\ <<h, n + 1>> \notin Hits(h, rule, n)
  <2>1. <<h, n + 1>> \notin Upto(h, n)
    BY UptoNext DEF TopicInv
  <2>2. <<h, n + 1>> \in InRange(h)
    BY <1>3 DEF GroupEvents
  <2> QED BY <1>1, <2>1, <2>2 DEF Hits
<1>4. ASSUME <<h, n + 1>> \in GroupEvents(h, rule), ReadInOrder(h, rule), NEW r \in Hits(h, rule, n)
      PROVE  EventOf(r).ts <= EventOf(<<h, n + 1>>).ts
  <2>1. r[2] < <<h, n + 1>>[2]
    BY <1>2
  <2> QED BY <1>2, <1>4, <2>1 DEF ReadInOrder
<1> QED BY <1>2, <1>3, <1>4

LEMMA CountsStay ==
    ASSUME NEW hits, NEW rule, WindowCounts(hits, rule), timestamps' = timestamps,
           \A r \in hits : EventOf(r)' = EventOf(r)
    PROVE  WindowCounts(hits, rule)'
<1>1. \A cutoff : HitsAfter(hits, cutoff)' = HitsAfter(hits, cutoff)
                  /\ EntriesAfter(cutoff)' = EntriesAfter(cutoff)
  BY DEF HitsAfter, EntriesAfter
<1> QED BY <1>1 DEF WindowCounts

(* The threshold rule sees an event, or does not count it. *)
LEMMA WindowSees ==
    ASSUME NEW rule \in OfType("threshold"), NEW r, Evaluate(r)
    PROVE  /\ Counts(EventOf(r), rule) => AddAndCheck(EventOf(r).ts, rule.window, rule.threshold)
           /\ ~Counts(EventOf(r), rule) => UNCHANGED windowVars
<1>1. EvalThresholds(EventOf(r))
  BY DEF Evaluate
<1>2. \A other \in OfType("threshold") : other = rule
  BY OneRule
<1> QED BY <1>1, <1>2 DEF EvalThresholds

LEMMA WindowStays ==
    ASSUME TopicInv, TopicInv', Grows, WindowInv, UNCHANGED <<visited, done>>, UNCHANGED engineVars
    PROVE  WindowInv'
<1> SUFFICES ASSUME NEW rule \in OfType("threshold"), NEW h \in Hosts,
                    done' \in {Nobody, h}, Alone(h, rule)', consumed' = 0,
                    InTimeOrder(h)', ReadInOrder(h, rule)'
             PROVE  WindowCounts(Hits(h, rule, visited[h]), rule)'
  BY DEF WindowInv
<1>1. PICK n \in Nat : n = visited[h]
  BY DEF TopicInv, ReplayTypeOK
<1>2. n <= Len(topic[h])
  <2>1. at[h] \in Nat /\ n <= at[h] /\ at[h] <= Len(topic[h]) /\ Len(topic[h]) \in Nat
    BY <1>1, RecordFacts DEF TopicInv, ReplayTypeOK, Positions
  <2> QED BY <2>1
<1>3. PICK hits : hits = Hits(h, rule, n)
  OBVIOUS
<1>4. Hits(h, rule, visited[h])' = hits
  <2>1. Hits(h, rule, n)' = hits
    BY <1>2, <1>3, HitsStay DEF TopicInv
  <2> QED BY <1>1, <2>1
<1>5. WindowCounts(hits, rule)
  <2>1. Alone(h, rule) /\ InTimeOrder(h) /\ ReadInOrder(h, rule)
    BY AloneBefore, InOrderBefore, ReadBefore DEF TopicInv
  <2> QED BY <1>1, <1>3, <2>1 DEF WindowInv, engineVars
<1>6. \A r \in hits : EventOf(r)' = EventOf(r)
  BY <1>3, HitFacts, RecordsStay DEF TopicInv
<1>7. WindowCounts(hits, rule)'
  BY <1>5, <1>6, CountsStay DEF engineVars
<1> QED BY <1>4, <1>7 DEF WindowCounts

LEMMA WindowGrows ==
    ASSUME TopicInv, TopicInv', Ended, Grows, WindowInv, NEW g \in Hosts, HandleRecord(g)
    PROVE  WindowInv'
<1> SUFFICES ASSUME NEW rule \in OfType("threshold"), NEW h \in Hosts,
                    done' \in {Nobody, h}, Alone(h, rule)', consumed' = 0,
                    InTimeOrder(h)', ReadInOrder(h, rule)'
             PROVE  WindowCounts(Hits(h, rule, visited[h]), rule)'
  BY DEF WindowInv
<1>0. InTimeOrder(h) /\ ReadInOrder(h, rule)
  BY InOrderBefore, ReadBefore DEF TopicInv
<1>1. PICK n : n = visited[h]
  OBVIOUS
<1>2. /\ n \in Nat /\ n <= Len(topic[h]) /\ topic' = topic /\ done \in {Nobody, h}
      /\ \/ /\ g = h /\ visited'[h] = n + 1
            /\ \/ <<h, n + 1>> \in InRange(h) /\ Evaluate(<<h, n + 1>>)
               \/ <<h, n + 1>> \notin InRange(h) /\ UNCHANGED engineVars
         \/ /\ g # h /\ visited'[h] = n
            /\ \/ \E r \in InRange(g) : Evaluate(r)
               \/ UNCHANGED engineVars
  BY <1>0, <1>1, Visit
<1>3. EngineTypeOK /\ ReplayTypeOK /\ ReplayTypeOK'
  BY DEF TopicInv, ReplayTypeOK
<1>4. Alone(h, rule)
  BY <1>3, AloneBefore
<1>5. consumed = 0
  <2>1. ASSUME NEW r, Evaluate(r) PROVE consumed = 0
    <3>1. consumed' # consumed => consumed' > consumed
      BY <1>3, <2>1, EngineAlerts
    <3>2. consumed \in Nat
      BY <1>3 DEF EngineTypeOK
    <3> QED BY <3>1, <3>2
  <2> QED BY <1>2, <2>1 DEF engineVars
<1>6. PICK hits : hits = Hits(h, rule, n)
  OBVIOUS
<1>7. WindowCounts(hits, rule)
  BY <1>0, <1>1, <1>2, <1>4, <1>5, <1>6 DEF WindowInv
<1>8. \A r : Record(r)' = Record(r) /\ EventOf(r)' = EventOf(r)
  BY <1>2 DEF Record, EventOf
<1>9. \A m : Hits(h, rule, m)' = Hits(h, rule, m)
  BY <1>2, <1>8 DEF Hits, Upto, InRange, Decodable, Counts, InGroup
<1>10. ASSUME timestamps' = timestamps, visited'[h] = n \/ Hits(h, rule, n + 1) = hits,
              visited'[h] \in {n, n + 1}
       PROVE  WindowCounts(Hits(h, rule, visited[h]), rule)'
  <2>1. WindowCounts(hits, rule)'
    BY <1>7, <1>8, <1>10, CountsStay
  <2>2. PICK m : m = visited'[h]
    OBVIOUS
  <2>3. Hits(h, rule, visited[h])' = Hits(h, rule, m)
    BY <1>9, <2>2
  <2>4. Hits(h, rule, visited[h])' = hits
    BY <1>6, <1>10, <2>2, <2>3
  <2> QED BY <2>1, <2>4 DEF WindowCounts
<1>11. CASE g # h
  <2>1. ASSUME NEW r \in InRange(g), Evaluate(r) PROVE UNCHANGED windowVars
    <3>1. ~Counts(EventOf(r), rule)
      BY <1>4, <1>11 DEF Alone, GroupEvents, Counts
    <3> QED BY <2>1, <3>1, WindowSees
  <2>2. timestamps' = timestamps
    BY <1>2, <1>11, <2>1 DEF windowVars, engineVars
  <2> QED BY <1>2, <1>10, <1>11, <2>2
<1>12. CASE g = h
  <2> DEFINE r == <<h, n + 1>>
  <2>1. /\ r \in InRange(h) => Upto(h, n + 1) = Upto(h, n) \cup {r}
        /\ r \notin InRange(h) => Upto(h, n + 1) = Upto(h, n)
    BY <1>2, <1>3, UptoNext
  <2>2. r[1] = h /\ r[2] = n + 1
    OBVIOUS
  <2> HIDE DEF r
  <2>3. CASE r \in InRange(h) /\ Evaluate(r) /\ Counts(EventOf(r), rule)
    <3>1. Hits(h, rule, n + 1) = hits \cup {r}
      BY <1>6, <2>1, <2>3 DEF Hits
    <3>2. /\ r \notin hits /\ EventOf(r).ts \in Nat
          /\ \A q \in hits : EventOf(q).ts \in Nat /\ EventOf(q).ts <= EventOf(r).ts
      <4>1. r \in GroupEvents(h, rule)
        BY <2>3 DEF GroupEvents, Counts
      <4> QED BY <1>0, <1>2, <1>6, <4>1, HitFacts DEF r
    <3>3. AddAndCheck(EventOf(r).ts, rule.window, rule.threshold)
      BY <2>3, WindowSees
    <3>4. WindowCounts(hits \cup {r}, rule)'
      BY <1>2, <1>3, <1>5, <1>7, <3>2, <3>3, WindowReacts
    <3>5. Hits(h, rule, visited[h])' = hits \cup {r}
      <4>1. Hits(h, rule, visited[h])' = Hits(h, rule, n + 1)
        BY <1>2, <1>9, <1>12
      <4> QED BY <3>1, <4>1
    <3> QED BY <3>4, <3>5 DEF WindowCounts
  <2>4. CASE r \in InRange(h) /\ Evaluate(r) /\ ~Counts(EventOf(r), rule)
    <3>1. Hits(h, rule, n + 1) = hits
      BY <1>6, <2>1, <2>4 DEF Hits
    <3>2. timestamps' = timestamps
      BY <2>4, WindowSees DEF windowVars
    <3> QED BY <1>2, <1>10, <1>12, <3>1, <3>2
  <2>5. CASE r \notin InRange(h) /\ UNCHANGED engineVars
    <3>1. Hits(h, rule, n + 1) = hits
      BY <1>6, <2>1, <2>5 DEF Hits
    <3> QED BY <1>2, <1>10, <1>12, <2>5, <3>1 DEF engineVars
  <2> QED BY <1>2, <1>12, <2>3, <2>4, <2>5 DEF r
<1> QED BY <1>11, <1>12

LEMMA WindowHolds ==
    ASSUME TopicInv, SeenInv, WindowInv, [ReplayNext]_replayVars
    PROVE  WindowInv'
<1>1. TopicInv' /\ Grows /\ Ended
  BY TopicHolds DEF SeenInv
<1>2. ASSUME UNCHANGED <<visited, done>>, UNCHANGED engineVars PROVE WindowInv'
  BY <1>1, <1>2, WindowStays
<1> QED BY <1>1, <1>2, ReplayStep, WindowGrows DEF Produce, Waits

LEMMA WindowStarts ==
    ASSUME ReplayInit
    PROVE  WindowInv
<1>1. timestamps = {} /\ visited = [h \in Hosts |-> 0]
  BY DEF ReplayInit, WindowInit
<1> SUFFICES ASSUME NEW rule \in OfType("threshold"), NEW h \in Hosts
             PROVE  WindowCounts(Hits(h, rule, visited[h]), rule)
  BY DEF WindowInv
<1>2. Hits(h, rule, visited[h]) = {}
  <2>1. visited[h] = 0 /\ TopicInv
    BY <1>1, TopicStarts
  <2>2. \A r \in Hits(h, rule, 0) : r[2] \in Nat \ {0} /\ r[2] <= 0
    <3>1. \A r \in Hits(h, rule, 0) : r[2] \in DOMAIN topic[h] /\ r[2] <= 0
      BY <2>1, InRangeFacts DEF Hits, Upto, TopicInv
    <3>2. DOMAIN topic[h] \subseteq Nat \ {0}
      BY <2>1, RecordFacts DEF TopicInv
    <3> QED BY <3>1, <3>2
  <2>3. Hits(h, rule, 0) = {}
    BY <2>2
  <2> QED BY <2>1, <2>3
<1>3. IsFiniteSet({}) /\ Cardinality({}) = 0
  BY FS_EmptySet
<1>4. \A cutoff : EntriesAfter(cutoff) = {} /\ HitsAfter({}, cutoff) = {}
  BY <1>1 DEF EntriesAfter, HitsAfter
<1>5. \A some \in SUBSET {} : Cardinality(some) # rule.threshold
  BY <1>3, ThresholdRule
<1>6. WindowCounts({}, rule)
  BY <1>3, <1>4, <1>5 DEF WindowCounts
<1> QED BY <1>2, <1>6

-----------------------------------------------------------------------------
(* Chains.  A sequence in progress was started at an evaluation of the     *)
(* history, by the wall clock; so if the history is no longer than the     *)
(* window, it does not expire.                                             *)
StartedInv ==
    progress # NoProgress /\ progress.startedAt # -1 =>
        \E i \in DOMAIN chain : chain[i].time = progress.startedAt

LEMMA StartedReacts ==
    ASSUME EngineTypeOK, clock \in Nat, StartedInv, NEW kind \in LogLine, NEW steps, NEW window,
           EvaluateSequence(kind, steps, window, clock)
    PROVE  StartedInv'
<1> DEFINE s == Working(steps, window, clock)
           c == Counted(s, clock)
<1>1. \/ NoMatch(s, steps) \/ OutOfRange(s)
      \/ Collect(c, steps) \/ Advance(c, steps) \/ Complete(c, steps)
  BY DEF EvaluateSequence
<1>2. s.startedAt = -1 \/ (progress # NoProgress /\ s.startedAt = progress.startedAt)
  BY DEF Working, Fresh
<1>3. /\ c.startedAt \in {clock, s.startedAt}
      /\ c = [current |-> c.current, counts |-> c.counts, startedAt |-> c.startedAt]
  BY DEF Counted
<1>4. detected \in Nat
  BY DEF EngineTypeOK
<1> HIDE DEF s, c
<1>5. \/ progress' = NoProgress
      \/ /\ detected' = detected
         /\ \/ progress'.startedAt \in {-1, clock}
            \/ progress # NoProgress /\ progress'.startedAt = progress.startedAt
  <2>1. CASE NoMatch(s, steps)
    BY <1>2, <2>1 DEF NoMatch
  <2>2. CASE OutOfRange(s)
    BY <2>2 DEF OutOfRange
  <2>3. CASE Collect(c, steps)
    BY <1>2, <1>3, <2>3 DEF Collect
  <2>4. CASE Advance(c, steps)
    <3>1. progress' = [c EXCEPT !.current = c.current + 1] /\ detected' = detected
      BY <2>4 DEF Advance
    <3>2. progress'.startedAt = c.startedAt
      BY <1>3, <3>1
    <3> QED BY <1>2, <1>3, <3>1, <3>2
  <2>5. CASE Complete(c, steps)
    BY <2>5 DEF Complete
  <2> QED BY <1>1, <2>1, <2>2, <2>3, <2>4, <2>5
<1>6. detected' = detected =>
        /\ Len(chain) + 1 \in DOMAIN chain' /\ chain'[Len(chain) + 1].time = clock
        /\ \A i \in DOMAIN chain : i \in DOMAIN chain' /\ chain'[i] = chain[i]
  BY ChainReacts
<1> QED BY <1>5, <1>6 DEF StartedInv

(* An evaluation that detects nothing is one more of the history. *)
LEMMA QuickBefore ==
    ASSUME EngineTypeOK, clock \in Nat, StartedInv, NEW r, Record(r).line \in LogLine,
           Evaluate(r), detected' = detected, NEW rule \in OfType("sequence"), Quick(rule)'
    PROVE  Quick(rule) /\ (InGroup(EventOf(r), rule) => ~Expired(clock, rule.window))
<1>1. \/ EvaluateSequence(Record(r).line, StepsOf(rule), rule.window, clock)
      \/ ~InGroup(EventOf(r), rule) /\ UNCHANGED sequenceVars
  <2>1. EvalSequences(Record(r).line, EventOf(r))
    BY DEF Evaluate
  <2>2. \A other \in OfType("sequence") : other = rule
    BY OneRule
  <2> QED BY <2>1, <2>2 DEF EvalSequences
<1>2. CASE UNCHANGED sequenceVars /\ ~InGroup(EventOf(r), rule)
  BY <1>2 DEF sequenceVars, Quick
<1>3. CASE EvaluateSequence(Record(r).line, StepsOf(rule), rule.window, clock)
  <2>1. /\ DOMAIN chain' = DOMAIN chain \cup {Len(chain) + 1}
        /\ chain'[Len(chain) + 1].time = clock
        /\ \A i \in DOMAIN chain : chain'[i] = chain[i]
    BY <1>3, ChainReacts
  <2>2. \A i, j \in DOMAIN chain' : chain'[j].time - chain'[i].time <= rule.window
    BY DEF Quick
  <2>3. Quick(rule)
    BY <2>1, <2>2 DEF Quick
  <2>4. ~Expired(clock, rule.window)
    <3> SUFFICES ASSUME progress # NoProgress, progress.startedAt # -1
                 PROVE  ~(clock - progress.startedAt > rule.window)
      BY DEF Expired
    <3>1. PICK i \in DOMAIN chain : chain[i].time = progress.startedAt
      BY DEF StartedInv
    <3>2. clock - progress.startedAt <= rule.window
      BY <2>1, <2>2, <3>1
    <3>3. progress.startedAt \in Int /\ rule.window \in Int
      BY SequenceRule DEF EngineTypeOK
    <3> QED BY <3>2, <3>3
  <2> QED BY <2>3, <2>4
<1> QED BY <1>1, <1>2, <1>3

LEMMA StartedHolds ==
    ASSUME TopicInv, StartedInv, [ReplayNext]_replayVars
    PROVE  StartedInv'
<1>1. ASSUME UNCHANGED engineVars PROVE StartedInv'
  BY <1>1 DEF engineVars, StartedInv
<1>2. ASSUME NEW h \in Hosts, HandleRecord(h) PROVE StartedInv'
  <2> DEFINE r == <<h, visited[h] + 1>>
  <2>1. /\ visited[h] < at[h]
        /\ (Relevant(r) /\ Evaluate(r)) \/ UNCHANGED engineVars
    BY <1>2, RecordEvent
  <2>2. Record(r).line \in LogLine \cup {Garbage}
    BY <2>1, NextPlace, RecordFacts DEF TopicInv
  <2>3. EngineTypeOK /\ clock \in Nat
    BY DEF TopicInv, ReplayTypeOK
  <2> HIDE DEF r
  <2>4. CASE Relevant(r) /\ Evaluate(r)
    <3>1. Record(r).line \in LogLine /\ EvalSequences(Record(r).line, EventOf(r))
      BY <2>2, <2>4 DEF Relevant, Decodable, Evaluate
    <3>2. ASSUME UNCHANGED sequenceVars PROVE StartedInv'
      BY <3>2 DEF sequenceVars, StartedInv
    <3>3. ASSUME NEW rule, EvaluateSequence(Record(r).line, StepsOf(rule), rule.window, clock)
          PROVE  StartedInv'
      BY <2>3, <3>1, <3>3, StartedReacts
    <3> QED BY <3>1, <3>2, <3>3 DEF EvalSequences
  <2> QED BY <1>1, <2>1, <2>4
<1> QED BY <1>1, <1>2, ReplayStep DEF Produce, Waits

(* While no other host has events of the group, and before a sequence is   *)
(* detected, the tracker is as far in the history of one partition as any  *)
(* division of it into steps, and no chain is behind it.                   *)
SequenceInv ==
    \A rule \in OfType("sequence"), h \in Hosts :
        /\ done \in {Nobody, h} /\ Alone(h, rule) /\ detected = 0
        /\ InTimeOrder(h) /\ Quick(rule)
        =>  /\ Greedy(progress, GroupHistory(h, rule, visited[h]), StepsOf(rule))
            /\ \A n \in 1 .. visited[h] : ~Fulfils(GroupHistory(h, rule, n), 0, StepsOf(rule))

(* What a sequence rule reads of a record. *)
Heard == [kind : LogLine \cup {Garbage}, time : {0}]
Hears(r, h, rule) ==
    [kind |-> IF r \in GroupEvents(h, rule) THEN Record(r).line ELSE Garbage, time |-> 0]

LEMMA HistoryFacts ==
    ASSUME ReplayTypeOK, NEW h \in Hosts, NEW rule, NEW n \in Nat
    PROVE  /\ GroupHistory(h, rule, n) \in Seq(Heard) /\ Len(GroupHistory(h, rule, n)) = n
           /\ Hears(<<h, n + 1>>, h, rule) \in Heard
           /\ GroupHistory(h, rule, n + 1)
                = Append(GroupHistory(h, rule, n), Hears(<<h, n + 1>>, h, rule))
<1>1. ASSUME NEW i PROVE Hears(<<h, i>>, h, rule) \in Heard
  <2>1. <<h, i>> \in GroupEvents(h, rule) => Record(<<h, i>>).line \in LogLine
    BY InRangeFacts DEF GroupEvents
  <2> QED BY <2>1 DEF Hears, Heard
<1>2. \A m : GroupHistory(h, rule, m) = [i \in 1 .. m |-> Hears(<<h, i>>, h, rule)]
  BY DEF GroupHistory, Hears
<1> DEFINE E(i) == Hears(<<h, i>>, h, rule)
<1>3. \A i : E(i) \in Heard
  BY <1>1
<1> HIDE DEF E
<1>4. [i \in 1 .. n |-> E(i)] \in Seq(Heard) /\ Len([i \in 1 .. n |-> E(i)]) = n
  BY <1>3
<1>5. [i \in 1 .. n + 1 |-> E(i)] = Append([i \in 1 .. n |-> E(i)], E(n + 1))
  BY <1>3, <1>4
<1> QED BY <1>2, <1>3, <1>4, <1>5 DEF E

LEMMA HistoryStays ==
    ASSUME ReplayTypeOK, ReplayTypeOK', Grows, NEW h \in Hosts,
           NEW n \in Nat, n <= Len(topic[h]), NEW rule
    PROVE  GroupHistory(h, rule, n)' = GroupHistory(h, rule, n)
<1>1. ASSUME NEW i \in 1 .. n
      PROVE  /\ <<h, i>> \in InRange(h)' <=> <<h, i>> \in InRange(h)
             /\ Record(<<h, i>>)' = Record(<<h, i>>) /\ EventOf(<<h, i>>)' = EventOf(<<h, i>>)
  <2>1. i \in DOMAIN topic[h] /\ i \in Nat
    <3>1. Len(topic[h]) \in Nat /\ DOMAIN topic[h] = 1 .. Len(topic[h])
      BY RecordFacts
    <3> QED BY <3>1
  <2>2. <<h, i>> \in Records
    BY <2>1, RecordFacts
  <2>3. Upto(h, n)' = Upto(h, n)
    BY UptoStays
  <2>4. /\ <<h, i>> \in InRange(h)' <=> <<h, i>> \in Upto(h, n)'
        /\ <<h, i>> \in InRange(h) <=> <<h, i>> \in Upto(h, n)
    BY <2>1 DEF Upto
  <2> QED BY <2>2, <2>3, <2>4, RecordsStay
<1>2. \A i \in 1 .. n : Hears(<<h, i>>, h, rule)' = Hears(<<h, i>>, h, rule)
  BY <1>1 DEF Hears, GroupEvents, InGroup
<1> QED BY <1>2 DEF GroupHistory, Hears

(* A record that is not the group's leaves the tracker where it is. *)
LEMMA GarbageIsIgnored ==
    ASSUME NEW rule \in OfType("sequence"), NEW s, NEW history \in Seq(Heard), NEW e \in Heard,
           e.kind = Garbage, Greedy(s, history, StepsOf(rule))
    PROVE  /\ Greedy(s, Append(history, e), StepsOf(rule))
           /\ ~Fulfils(Append(history, e), 0, StepsOf(rule))
<1> DEFINE steps == StepsOf(rule)
           h == Append(history, e)
<1>1. /\ Proper(steps) /\ Len(steps) \in Nat \ {0} /\ Garbage \notin LogLine
      /\ \A k \in 1 .. Len(steps) : Garbage \notin steps[k].kinds
  BY SequenceRule, ReplayAssumption DEF Proper
<1>2. e.time \in Nat
  BY DEF Heard
<1> HIDE DEF steps
<1>3. ASSUME NEW k \in Nat, k < Len(steps), NEW c \in Nat, GreedyState(k, c, history, steps)
      PROVE  GreedyState(k, c, h, steps)
  <2>1. k + 1 \in 1 .. Len(steps)
    BY <1>1, <1>3
  <2>2. e.kind \notin steps[k + 1].kinds /\ c < Required(steps[k + 1]) /\ c <= c
    BY <1>1, <1>3, <2>1 DEF GreedyState
  <2> QED BY <1>1, <1>2, <1>3, <2>2, GreedyCounts
<1>4. Greedy(s, h, steps)
  <2>1. CASE s = NoProgress
    BY <1>1, <1>3, <2>1 DEF Greedy, steps
  <2>2. CASE s # NoProgress
    <3>1. IsGreedy(s, history, steps)
      BY <2>2 DEF Greedy, steps
    <3>2. /\ s.current \in Nat /\ s.current < Len(steps) /\ s.counts[s.current + 1] \in Nat
          /\ GreedyState(s.current, s.counts[s.current + 1], history, steps)
      <4>1. s.counts \in Seq(Nat) /\ s.current \in Nat /\ s.current < Len(steps)
            /\ Len(s.counts) = Len(steps)
        BY <3>1 DEF IsGreedy
      <4> QED BY <1>1, <3>1, <4>1 DEF IsGreedy
    <3>3. GreedyState(s.current, s.counts[s.current + 1], h, steps)
      BY <1>3, <3>2
    <3> QED BY <2>2, <3>1, <3>3 DEF Greedy, IsGreedy
  <2> QED BY <2>1, <2>2
<1>5. ~Fulfils(h, 0, steps)
  <2>1. Len(h) = Len(history) + 1 /\ h[Len(h)] = e
    OBVIOUS
  <2> QED BY <1>1, <2>1 DEF Fulfils, Meeting
<1> QED BY <1>4, <1>5 DEF steps

(* The sequence rule sees an event of its group, and no other. *)
LEMMA TrackerSees ==
    ASSUME NEW rule \in OfType("sequence"), NEW r, Evaluate(r)
    PROVE  /\ InGroup(EventOf(r), rule) =>
                EvaluateSequence(Record(r).line, StepsOf(rule), rule.window, clock)
           /\ ~InGroup(EventOf(r), rule) => UNCHANGED sequenceVars
<1>1. EvalSequences(Record(r).line, EventOf(r))
  BY DEF Evaluate
<1>2. \A other \in OfType("sequence") : other = rule
  BY OneRule
<1> QED BY <1>1, <1>2 DEF EvalSequences

(* What the tracker does with an event of the group. *)
LEMMA TrackerReacts ==
    ASSUME EngineTypeOK, NEW rule \in OfType("sequence"), NEW history \in Seq(Heard),
           NEW e \in Heard, Greedy(progress, history, StepsOf(rule)), detected = 0, detected' = 0,
           clock \in Nat, ~Expired(clock, rule.window),
           EvaluateSequence(e.kind, StepsOf(rule), rule.window, clock)
    PROVE  /\ Greedy(progress', Append(history, e), StepsOf(rule))
           /\ ~Fulfils(Append(history, e), 0, StepsOf(rule))
<1> DEFINE steps == StepsOf(rule)
           h == Append(history, e)
<1>1. Proper(steps) /\ \A m \in Heard : m.time \in Nat /\ m.time >= 0
  BY SequenceRule DEF Heard
<1>2. /\ detected' = detected /\ Greedy(progress', h, steps)
      /\ \A since \in Int : (\A i \in DOMAIN h : h[i].time >= since) => ~Fulfils(h, since, steps)
  <2> HIDE DEF steps
  <2>1. detected \in Nat /\ Greedy(progress, history, steps)
        /\ EvaluateSequence(e.kind, steps, rule.window, clock)
    BY DEF steps, EngineTypeOK
  <2>2. \/ detected' = detected + 1 /\ progress' = NoProgress
        \/ /\ detected' = detected /\ Greedy(progress', h, steps)
           /\ \A since \in Int : (\A i \in DOMAIN h : h[i].time >= since) => ~Fulfils(h, since, steps)
    BY <1>1, <2>1, GreedyReacts
  <2> QED BY <2>2
<1>3. \A i \in DOMAIN h : h[i].time >= 0
  <2>1. h \in Seq(Heard)
    OBVIOUS
  <2>2. \A i \in DOMAIN h : h[i] \in Heard
    BY <2>1
  <2> QED BY <1>1, <2>2
<1> QED BY <1>2, <1>3

LEMMA SequenceStays ==
    ASSUME TopicInv, TopicInv', Grows, SequenceInv, UNCHANGED <<visited, done>>, UNCHANGED engineVars
    PROVE  SequenceInv'
<1> SUFFICES ASSUME NEW rule \in OfType("sequence"), NEW h \in Hosts,
                    done' \in {Nobody, h}, Alone(h, rule)', detected' = 0,
                    InTimeOrder(h)', Quick(rule)'
             PROVE  /\ Greedy(progress, GroupHistory(h, rule, visited[h]), StepsOf(rule))'
                    /\ (\A n \in 1 .. visited[h] : ~Fulfils(GroupHistory(h, rule, n), 0, StepsOf(rule)))'
  BY DEF SequenceInv
<1>1. PICK n \in Nat : n = visited[h]
  BY DEF TopicInv, ReplayTypeOK
<1>2. n <= Len(topic[h]) /\ Len(topic[h]) \in Nat
  <2>1. at[h] \in Nat /\ n <= at[h] /\ at[h] <= Len(topic[h]) /\ Len(topic[h]) \in Nat
    BY <1>1, RecordFacts DEF TopicInv, ReplayTypeOK, Positions
  <2> QED BY <2>1
<1>3. \A m \in 0 .. n : GroupHistory(h, rule, m)' = GroupHistory(h, rule, m)
  <2> SUFFICES ASSUME NEW m \in 0 .. n PROVE GroupHistory(h, rule, m)' = GroupHistory(h, rule, m)
    OBVIOUS
  <2>1. m \in Nat /\ m <= Len(topic[h])
    BY <1>2
  <2> QED BY <2>1, HistoryStays DEF TopicInv
<1>4. /\ Greedy(progress, GroupHistory(h, rule, n), StepsOf(rule))
      /\ \A m \in 1 .. n : ~Fulfils(GroupHistory(h, rule, m), 0, StepsOf(rule))
  <2>1. Alone(h, rule) /\ InTimeOrder(h)
    BY AloneBefore, InOrderBefore DEF TopicInv
  <2>2. Quick(rule)
    BY DEF engineVars, Quick
  <2> QED BY <1>1, <2>1, <2>2 DEF SequenceInv, engineVars
<1>5. n \in 0 .. n /\ \A m \in 1 .. n : m \in 0 .. n
  OBVIOUS
<1>6. GroupHistory(h, rule, visited[h])' = GroupHistory(h, rule, n)
  <2>1. GroupHistory(h, rule, visited[h])' = GroupHistory(h, rule, n)'
    BY <1>1
  <2> QED BY <1>3, <1>5, <2>1
<1>7. Greedy(progress, GroupHistory(h, rule, visited[h]), StepsOf(rule))'
  <2>1. Greedy(progress', GroupHistory(h, rule, n), StepsOf(rule))
    BY <1>4 DEF engineVars
  <2> QED BY <1>6, <2>1 DEF Greedy, IsGreedy
<1> QED BY <1>1, <1>3, <1>4, <1>5, <1>7

LEMMA SequenceGrows ==
    ASSUME TopicInv, TopicInv', Ended, Grows, StartedInv, SequenceInv,
           NEW g \in Hosts, HandleRecord(g)
    PROVE  SequenceInv'
<1> SUFFICES ASSUME NEW rule \in OfType("sequence"), NEW h \in Hosts,
                    done' \in {Nobody, h}, Alone(h, rule)', detected' = 0,
                    InTimeOrder(h)', Quick(rule)'
             PROVE  /\ Greedy(progress, GroupHistory(h, rule, visited[h]), StepsOf(rule))'
                    /\ (\A n \in 1 .. visited[h] : ~Fulfils(GroupHistory(h, rule, n), 0, StepsOf(rule)))'
  BY DEF SequenceInv
<1>0. InTimeOrder(h)
  BY InOrderBefore
<1>1. PICK n : n = visited[h]
  OBVIOUS
<1>2. /\ n \in Nat /\ topic' = topic /\ done \in {Nobody, h}
      /\ \/ /\ g = h /\ visited'[h] = n + 1
            /\ \/ <<h, n + 1>> \in InRange(h) /\ Evaluate(<<h, n + 1>>)
               \/ <<h, n + 1>> \notin InRange(h) /\ UNCHANGED engineVars
         \/ /\ g # h /\ visited'[h] = n
            /\ \/ \E r \in InRange(g) : Evaluate(r)
               \/ UNCHANGED engineVars
  BY <1>0, <1>1, Visit
<1>3. EngineTypeOK /\ ReplayTypeOK /\ ReplayTypeOK' /\ clock \in Nat
  <2>1. ReplayTypeOK /\ ReplayTypeOK'
    BY DEF TopicInv
  <2>2. EngineTypeOK /\ clock \in Nat
    BY DEF TopicInv, ReplayTypeOK
  <2> QED BY <2>1, <2>2
<1>4. Alone(h, rule)
  BY <1>3, AloneBefore
<1>5. detected = 0
  <2>1. ASSUME NEW r, Evaluate(r) PROVE detected = 0
    <3>1. detected' # detected => detected' > detected
      BY <1>3, <2>1, EngineAlerts
    <3>2. detected \in Nat
      BY <1>3 DEF EngineTypeOK
    <3> QED BY <3>1, <3>2
  <2> QED BY <1>2, <2>1 DEF engineVars
<1>6. /\ Quick(rule)
       /\ \A r \in InRange(h) \cup InRange(g) :
            Evaluate(r) /\ InGroup(EventOf(r), rule) => ~Expired(clock, rule.window)
  <2>1. ASSUME NEW r \in InRange(h) \cup InRange(g), Evaluate(r)
        PROVE  Quick(rule) /\ (InGroup(EventOf(r), rule) => ~Expired(clock, rule.window))
    <3>1. Record(r).line \in LogLine
      BY <1>3, InRangeFacts
    <3> QED BY <1>3, <1>5, <2>1, <3>1, QuickBefore
  <2>2. ASSUME UNCHANGED engineVars PROVE Quick(rule)
    BY <2>2 DEF engineVars, Quick
  <2> QED BY <1>2, <2>1, <2>2
<1>7. PICK history : history = GroupHistory(h, rule, n)
  OBVIOUS
<1>8. /\ Greedy(progress, history, StepsOf(rule))
      /\ \A m \in 1 .. n : ~Fulfils(GroupHistory(h, rule, m), 0, StepsOf(rule))
  BY <1>0, <1>1, <1>2, <1>4, <1>5, <1>7, <1>6 DEF SequenceInv
<1>9. \A m : GroupHistory(h, rule, m)' = GroupHistory(h, rule, m)
  BY <1>2 DEF GroupHistory, GroupEvents, InRange, Decodable, EventOf, Record, InGroup
<1>10. CASE g # h
  <2>1. ASSUME NEW r \in InRange(g), Evaluate(r) PROVE UNCHANGED sequenceVars
    <3>1. ~InGroup(EventOf(r), rule)
      BY <1>4, <1>10 DEF Alone, GroupEvents
    <3> QED BY <2>1, <3>1, TrackerSees
  <2>2. progress' = progress /\ visited'[h] = n
    BY <1>2, <1>10, <2>1 DEF sequenceVars, engineVars
  <2>3. GroupHistory(h, rule, visited[h])' = history
    BY <1>7, <1>9, <2>2
  <2>4. Greedy(progress, GroupHistory(h, rule, visited[h]), StepsOf(rule))'
    BY <1>8, <2>2, <2>3 DEF Greedy, IsGreedy
  <2> QED BY <1>8, <1>9, <2>2, <2>4
<1>11. CASE g = h
  <2> DEFINE r == <<h, n + 1>>
  <2>1. PICK e : e = Hears(r, h, rule)
    OBVIOUS
  <2>2. history \in Seq(Heard) /\ e \in Heard /\ GroupHistory(h, rule, n + 1) = Append(history, e)
    BY <1>2, <1>3, <1>7, <2>1, HistoryFacts
  <2> HIDE DEF r
  <2>3. /\ Greedy(progress', Append(history, e), StepsOf(rule))
        /\ ~Fulfils(Append(history, e), 0, StepsOf(rule))
    <3>1. CASE Evaluate(r) /\ r \in GroupEvents(h, rule)
      <4>1. EvaluateSequence(e.kind, StepsOf(rule), rule.window, clock)
        <5>1. InGroup(EventOf(r), rule)
          BY <3>1 DEF GroupEvents
        <5>2. e.kind = Record(r).line
          BY <2>1, <3>1 DEF Hears
        <5> QED BY <3>1, <5>1, <5>2, TrackerSees
      <4>2. ~Expired(clock, rule.window)
        BY <1>6, <3>1 DEF GroupEvents
      <4> QED BY <1>3, <1>5, <1>8, <2>2, <4>1, <4>2, TrackerReacts
    <3>2. CASE r \notin GroupEvents(h, rule) /\ progress' = progress
      <4>1. e.kind = Garbage
        BY <2>1, <3>2 DEF Hears
      <4>2. PICK s : s = progress
        OBVIOUS
      <4>3. /\ Greedy(s, Append(history, e), StepsOf(rule))
            /\ ~Fulfils(Append(history, e), 0, StepsOf(rule))
        BY <1>8, <2>2, <4>1, <4>2, GarbageIsIgnored
      <4> QED BY <3>2, <4>2, <4>3
    <3>3. ASSUME r \in InRange(h), Evaluate(r), r \notin GroupEvents(h, rule)
          PROVE  progress' = progress
      <4>1. ~InGroup(EventOf(r), rule)
        BY <3>3 DEF GroupEvents
      <4> QED BY <3>3, <4>1, TrackerSees DEF sequenceVars
    <3>4. r \notin InRange(h) => r \notin GroupEvents(h, rule)
      BY DEF GroupEvents
    <3> QED BY <1>2, <1>11, <3>1, <3>2, <3>3, <3>4 DEF r, engineVars
  <2>4. GroupHistory(h, rule, visited[h])' = Append(history, e)
    <3>1. GroupHistory(h, rule, visited[h])' = GroupHistory(h, rule, n + 1)
      BY <1>2, <1>9, <1>11
    <3> QED BY <2>2, <3>1
  <2>5. Greedy(progress, GroupHistory(h, rule, visited[h]), StepsOf(rule))'
    BY <2>3, <2>4 DEF Greedy, IsGreedy
  <2>6. ASSUME NEW m \in 1 .. n + 1 PROVE ~Fulfils(GroupHistory(h, rule, m), 0, StepsOf(rule))
    <3>1. m \in 1 .. n \/ m = n + 1
      BY <1>2
    <3> QED BY <1>8, <2>2, <2>3, <3>1
  <2> QED BY <1>2, <1>9, <1>11, <2>5, <2>6
<1> QED BY <1>10, <1>11

LEMMA ChainsHold ==
    ASSUME TopicInv, SeenInv, StartedInv, SequenceInv, [ReplayNext]_replayVars
    PROVE  SequenceInv'
<1>1. TopicInv' /\ Grows /\ Ended
  BY TopicHolds DEF SeenInv
<1>2. ASSUME UNCHANGED <<visited, done>>, UNCHANGED engineVars PROVE SequenceInv'
  BY <1>1, <1>2, SequenceStays
<1> QED BY <1>1, <1>2, ReplayStep, SequenceGrows DEF Produce, Waits

LEMMA SequenceStarts ==
    ASSUME ReplayInit
    PROVE  SequenceInv
<1>1. progress = NoProgress /\ visited = [h \in Hosts |-> 0]
  BY DEF ReplayInit, SequenceInit
<1> SUFFICES ASSUME NEW rule \in OfType("sequence"), NEW h \in Hosts
             PROVE  /\ Greedy(progress, GroupHistory(h, rule, visited[h]), StepsOf(rule))
                    /\ 1 .. visited[h] = {}
  BY DEF SequenceInv
<1>2. visited[h] = 0 /\ 1 .. 0 = {}
  BY <1>1
<1>3. GroupHistory(h, rule, 0) = <<>>
  BY <1>2 DEF GroupHistory
<1>4. GreedyState(0, 0, <<>>, StepsOf(rule))
  BY SequenceRule, GreedyStarts
<1> QED BY <1>1, <1>2, <1>3, <1>4 DEF Greedy

-----------------------------------------------------------------------------
LEMMA BurstIsFound ==
    ASSUME TopicInv, Ended, MatchInv, WindowInv, done # Nobody,
           NEW rule \in OfType("threshold"), Alone(done, rule), Burst(done, rule),
           InTimeOrder(done), ReadInOrder(done, rule)
    PROVE  Found(rule)
<1>1. done \in Hosts /\ \A r \in InRange(done) : r[2] <= visited[done]
  BY EverythingVisited
<1>2. visited[done] \in Nat /\ consumed \in Nat
  BY <1>1 DEF TopicInv, ReplayTypeOK, EngineTypeOK
<1>3. ASSUME consumed = 0 PROVE FALSE
  <2>1. PICK hits \in SUBSET {r \in GroupEvents(done, rule) : Counts(EventOf(r), rule)} :
          /\ Cardinality(hits) = rule.threshold
          /\ \A q, r \in hits : EventOf(q).ts > EventOf(r).ts - rule.window
    BY DEF Burst
  <2>2. hits \subseteq Hits(done, rule, visited[done])
    BY <1>1, <2>1 DEF Hits, Upto, GroupEvents
  <2>3. PICK q, r \in hits : EventOf(q).ts <= EventOf(r).ts - rule.window
    BY <1>1, <1>3, <2>1, <2>2 DEF WindowInv, WindowCounts
  <2>4. EventOf(q).ts \in Nat /\ EventOf(r).ts \in Nat /\ rule.window \in Nat
    BY <1>1, <1>2, <2>2, <2>3, HitFacts, ThresholdRule
  <2> QED BY <2>1, <2>3, <2>4
<1>4. \E other \in OfType("threshold") : Found(other)
  BY <1>2, <1>3 DEF MatchInv
<1> QED BY <1>4, OneRule

LEMMA ChainIsFound ==
    ASSUME TopicInv, Ended, MatchInv, SequenceInv, done # Nobody,
           NEW rule \in OfType("sequence"), Alone(done, rule), Chain(done, rule),
           InTimeOrder(done), Quick(rule)
    PROVE  Found(rule)
<1>1. done \in Hosts /\ \A r \in InRange(done) : r[2] <= visited[done]
  BY EverythingVisited
<1>2. visited[done] \in Nat /\ detected \in Nat
  BY <1>1 DEF TopicInv, ReplayTypeOK, EngineTypeOK
<1>3. ASSUME detected = 0 PROVE FALSE
  <2>1. PICK n \in DOMAIN topic[done] : Fulfils(GroupHistory(done, rule, n), 0, StepsOf(rule))
    BY DEF Chain
  <2>2. n \in Nat \ {0}
    BY <1>1, <2>1, RecordFacts DEF TopicInv
  <2>3. Len(GroupHistory(done, rule, n)) = n
    BY <1>1, <2>2, HistoryFacts DEF TopicInv
  <2>4. GroupHistory(done, rule, n)[n].kind \in LogLine
    <3>1. GroupHistory(done, rule, n)[n].kind \in StepsOf(rule)[Len(StepsOf(rule))].kinds
      BY <2>1, <2>3 DEF Fulfils, Meeting
    <3>2. Len(StepsOf(rule)) \in 1 .. Len(StepsOf(rule))
      BY SequenceRule DEF Proper
    <3> QED BY <3>1, <3>2, SequenceRule
  <2>5. <<done, n>> \in GroupEvents(done, rule)
    <3>1. GroupHistory(done, rule, n)[n].kind
            = IF <<done, n>> \in GroupEvents(done, rule) THEN Record(<<done, n>>).line ELSE Garbage
      BY <2>2 DEF GroupHistory
    <3> QED BY <2>4, <3>1, ReplayAssumption
  <2>6. n \in 1 .. visited[done]
    <3>1. <<done, n>>[2] <= visited[done]
      BY <1>1, <2>5 DEF GroupEvents
    <3> QED BY <1>2, <2>2, <3>1
  <2> QED BY <1>1, <1>3, <2>1, <2>6 DEF SequenceInv
<1>4. \E other \in OfType("sequence") : Found(other)
  BY <1>2, <1>3 DEF MatchInv
<1> QED BY <1>4, OneRule

(* A burst that the threshold rule counts, or a chain that the sequence    *)
(* rule asks for, in the partition that was evaluated to its end is found, *)
(* whatever the rules, the range and the other records are, if no other    *)
(* host has events of the group, the partition's times ascend, for a burst *)
(* those of the agent do too, and for a chain the group's events were      *)
(* evaluated within the window of the wall clock.                          *)
THEOREM ReplayFindsPatterns == ReplaySpec => []PatternsAreFound
<1> DEFINE Inv == TopicInv /\ SeenInv /\ MatchInv /\ WindowInv /\ StartedInv /\ SequenceInv
<1>1. ReplayInit => Inv
  BY TopicStarts, SeenStarts, MatchStarts, WindowStarts, SequenceStarts
  DEF ReplayInit, SequenceInit, StartedInv
<1>2. Inv /\ [ReplayNext]_replayVars => Inv'
  BY TopicHolds, SeenHolds, MatchHolds, WindowHolds, StartedHolds, ChainsHold
<1>3. Inv => PatternsAreFound
  <2> SUFFICES ASSUME Inv, done # Nobody,
                      NEW rule \in OfType("threshold") \cup OfType("sequence"),
                      \A h \in Hosts \ {done} : GroupEvents(h, rule) = {},
                      InTimeOrder(done),
                      \/ rule.type = "threshold" /\ ReadInOrder(done, rule) /\ Burst(done, rule)
                      \/ rule.type = "sequence" /\ Quick(rule) /\ Chain(done, rule)
               PROVE  Found(rule)
    BY DEF PatternsAreFound
  <2>1. Alone(done, rule) /\ Ended
    BY DEF Alone, SeenInv
  <2>2. CASE rule \in OfType("threshold")
    BY <2>1, <2>2, BurstIsFound, RuleIsValid
  <2>3. CASE rule \in OfType("sequence")
    BY <2>1, <2>3, ChainIsFound, RuleIsValid
  <2> QED BY <2>2, <2>3
<1> HIDE DEF Inv
<1> QED BY <1>1, <1>2, <1>3, PTL DEF ReplaySpec
=============================================================================
