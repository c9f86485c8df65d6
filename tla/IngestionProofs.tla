-------------------------- MODULE IngestionProofs --------------------------
(***************************************************************************)
(* For any agents, handlers, bounds and failures.                          *)
(*                                                                         *)
(* Accounting: what is in the topic, about to be published or unsettled    *)
(* only grows; every handler has accounted for the events it has passed;   *)
(* and an agent that waits for a response waits for one handler that holds *)
(* its batch.  From that: no dedup key stands alone, and what an agent     *)
(* forgets is accounted for.                                               *)
(*                                                                         *)
(* Deduplication: every event of the topic or in a publisher's hand has    *)
(* its key, and no two hands hold the same.  From that: published once.    *)
(*                                                                         *)
(* Planned restarts: nobody loses its response, so that what a handler has *)
(* passed is in the topic.                                                 *)
(*                                                                         *)
(* Order: an agent that lost no response has one call, whose next event is *)
(* beyond all that is in its partition, or has a key if it is not.         *)
(***************************************************************************)
EXTENDS Ingestion, TLAPS

OnItsWay == Published \cup InPublish \cup unsettled
Accounted == OnItsWay \cup Anonymous

Passed ==
    \A h \in Handlers : call[h] # Idle =>
        \A n \in 1 .. call[h].next - 1 : <<call[h].agent, n>> \in Accounted

Awaited(h) == call[h] # Idle /\ call[h].conn = "up"

Joined ==
    \A h \in Handlers : Awaited(h) =>
        /\ InFlush(call[h].agent) /\ call[h].last = taken[call[h].agent]
        /\ \A g \in Handlers : Awaited(g) /\ call[g].agent = call[h].agent => g = h

Kept == KeyIsAccounted /\ ForgottenIsAccounted /\ Passed /\ Joined

IInv == TypeOK /\ Kept

-----------------------------------------------------------------------------
(* What Published and InPublish stand for. *)
LEMMA InPublishIs ==
    ASSUME NEW e
    PROVE  /\ e \in InPublish <=>
                \E h \in Handlers : /\ call[h] # Idle /\ call[h].step = "publish"
                                    /\ call[h].next <= call[h].last
                                    /\ e = <<call[h].agent, call[h].next>>
           /\ e \in InPublish' <=>
                \E h \in Handlers : /\ call'[h] # Idle /\ call'[h].step = "publish"
                                    /\ call'[h].next <= call'[h].last
                                    /\ e = <<call'[h].agent, call'[h].next>>
BY DEF InPublish, Running, Busy, Event

LEMMA CallFacts ==
    ASSUME CollectorTypeOK, NEW h \in Handlers, call[h] # Idle
    PROVE  /\ call[h] \in CallType
           /\ call[h].agent \in Agents /\ call[h].last \in 1 .. EventCount
           /\ call[h].next \in 1 .. EventCount + 1
           /\ call[h].next <= call[h].last => Event(h) \in Events
<1>1. call[h] \in CallType
  BY DEF CollectorTypeOK
<1>2. /\ call[h].agent \in Agents /\ call[h].last \in 1 .. EventCount
      /\ call[h].next \in 1 .. EventCount + 1
  BY <1>1 DEF CallType
<1>3. call[h].next <= call[h].last => call[h].next \in 1 .. EventCount
  BY <1>2, EventCountAssumption
<1> QED BY <1>1, <1>2, <1>3 DEF Event, Events

LEMMA ConstantSequence ==
    ASSUME NEW S, NEW n \in Nat, NEW x, n >= 1 => x \in S
    PROVE  /\ [i \in 1 .. n |-> x] \in Seq(S) /\ Len([i \in 1 .. n |-> x]) = n
           /\ n >= 1 => [i \in 1 .. n |-> x][1] = x
OBVIOUS

(* A write to the log removes nothing from it. *)
LEMMA WriteKeeps ==
    ASSUME CollectorTypeOK, NEW e \in Events, NEW copies \in 0 .. 2, Write(e, copies)
    PROVE  /\ log' \in [Agents -> Seq(1 .. EventCount)]
           /\ Published \subseteq Published'
           /\ copies >= 1 => e \in Published'
<1> DEFINE old == log[e[1]]
           more == [i \in 1 .. copies |-> e[2]]
           new == old \o more
<1>1. e[1] \in Agents /\ e[2] \in 1 .. EventCount /\ e = <<e[1], e[2]>>
  BY DEF Events
<1>2. old \in Seq(1 .. EventCount)
  BY <1>1 DEF CollectorTypeOK
<1>3. more \in Seq(1 .. EventCount) /\ Len(more) = copies /\ (copies >= 1 => more[1] = e[2])
  <2>1. \A i \in 1 .. copies : e[2] \in 1 .. EventCount
    BY <1>1
  <2>2. copies \in Nat
    OBVIOUS
  <2> QED BY <2>1, <2>2, ConstantSequence
<1>4. /\ new \in Seq(1 .. EventCount) /\ Len(new) = Len(old) + copies
      /\ \A i \in 1 .. Len(old) : new[i] = old[i]
      /\ copies >= 1 => new[Len(old) + 1] = e[2]
  <2>1. Len(old) \in Nat
    BY <1>2
  <2> HIDE DEF old, more
  <2> QED BY <1>2, <1>3, <2>1
<1>5. log' = [log EXCEPT ![e[1]] = new]
  BY DEF Write
<1>6. log' \in [Agents -> Seq(1 .. EventCount)] /\ log'[e[1]] = new
  BY <1>1, <1>4, <1>5 DEF CollectorTypeOK
<1>7. ASSUME NEW x \in Published PROVE x \in Published'
  <2>1. PICK i \in DOMAIN log[x[1]] : log[x[1]][i] = x[2]
    BY DEF Published
  <2>2. x \in Events /\ x[1] \in Agents
    BY DEF Published, Events
  <2>3. CASE x[1] = e[1]
    <3>1. i \in 1 .. Len(old) /\ old[i] = x[2] /\ Len(old) \in Nat
      BY <1>2, <2>1, <2>3
    <3>2. i \in DOMAIN new /\ new[i] = x[2]
      BY <1>4, <3>1
    <3> QED BY <1>6, <2>2, <2>3, <3>2 DEF Published
  <2>4. CASE x[1] # e[1]
    <3>1. log'[x[1]] = log[x[1]]
      BY <1>5, <2>2, <2>4 DEF CollectorTypeOK
    <3> QED BY <2>1, <2>2, <3>1 DEF Published
  <2> QED BY <2>3, <2>4
<1>8. ASSUME copies >= 1 PROVE e \in Published'
  <2>1. Len(old) \in Nat
    BY <1>2
  <2>2. Len(old) + 1 \in DOMAIN new /\ new[Len(old) + 1] = e[2]
    BY <1>4, <1>8, <2>1
  <2> QED BY <1>6, <2>2 DEF Published
<1> QED BY <1>6, <1>7, <1>8

-----------------------------------------------------------------------------
(* What every step of a handler or of the process keeps: nothing leaves    *)
(* the way of an event, keys are only set for events on their way, and a   *)
(* handler that goes on to the next event has accounted for this one.      *)
Carries ==
    /\ CollectorTypeOK'
    /\ OnItsWay \subseteq OnItsWay'
    /\ keys' \subseteq keys \cup OnItsWay'
    /\ \A g \in Handlers : call'[g] # Idle =>
        /\ call[g] # Idle
        /\ call'[g].agent = call[g].agent /\ call'[g].last = call[g].last
        /\ call'[g].conn = "up" => call[g].conn = "up"
        /\ \/ call'[g].next = call[g].next
           \/ call'[g].next = call[g].next + 1 /\ Event(g) \in OnItsWay' \cup Anonymous

(* One handler's call becomes c; the others stay as they are. *)
LEMMA OthersStay ==
    ASSUME CollectorTypeOK, NEW h \in Handlers, NEW c, call' = [call EXCEPT ![h] = c]
    PROVE  call'[h] = c /\ \A g \in Handlers : g # h => call'[g] = call[g]
BY DEF CollectorTypeOK

LEMMA NextEventCarries ==
    ASSUME CollectorTypeOK, NEW h \in Handlers, call[h] # Idle, call[h].next <= call[h].last,
           NextEvent(h), UNCHANGED <<server, dedup>>,
           log' \in [Agents -> Seq(1 .. EventCount)], keys' \subseteq Events,
           unsettled' \subseteq Events, Published \subseteq Published', unsettled \subseteq unsettled',
           keys' \subseteq keys,
           call[h].step = "publish" => Event(h) \in Published' \cup unsettled',
           call[h].step # "publish" => Event(h) \in OnItsWay \cup Anonymous \cup unsettled'
    PROVE  Carries
<1> DEFINE c == [call[h] EXCEPT !.next = call[h].next + 1, !.step = "check"]
<1>1. call' = [call EXCEPT ![h] = c]
  BY DEF NextEvent
<1>2. call'[h] = c /\ \A g \in Handlers : g # h => call'[g] = call[g]
  BY <1>1, OthersStay
<1>3. /\ c \in CallType /\ c.agent = call[h].agent /\ c.last = call[h].last
      /\ c.conn = call[h].conn /\ c.next = call[h].next + 1
  <2>1. /\ call[h] \in CallType /\ call[h].last \in 1 .. EventCount
        /\ call[h].next \in 1 .. EventCount + 1
    BY CallFacts
  <2>2. call[h].next + 1 \in 1 .. EventCount + 1
    BY <2>1, EventCountAssumption
  <2> QED BY <2>1, <2>2 DEF CallType
<1>4. CollectorTypeOK'
  <2>1. call' \in [Handlers -> CallType \cup {Idle}]
    <3> HIDE DEF c
    <3> QED BY <1>1, <1>3 DEF CollectorTypeOK
  <2>2. server' \in ServerModes /\ dedup' \in BOOLEAN
    BY DEF CollectorTypeOK
  <2> QED BY <2>1, <2>2 DEF CollectorTypeOK
<1>5. ASSUME NEW x \in InPublish PROVE x \in OnItsWay'
  <2>1. PICK g \in Handlers : /\ call[g] # Idle /\ call[g].step = "publish"
                              /\ call[g].next <= call[g].last
                              /\ x = <<call[g].agent, call[g].next>>
    BY InPublishIs
  <2>2. CASE g = h
    BY <2>1, <2>2 DEF Event, OnItsWay
  <2>3. CASE g # h
    BY <1>2, <2>1, <2>3, InPublishIs DEF OnItsWay
  <2> QED BY <2>2, <2>3
<1>6. OnItsWay \subseteq OnItsWay'
  BY <1>5 DEF OnItsWay
<1>7. Event(h) \in OnItsWay' \cup Anonymous
  BY <1>6 DEF OnItsWay
<1> QED BY <1>2, <1>3, <1>4, <1>6, <1>7 DEF Carries

LEMMA ToPublishCarries ==
    ASSUME CollectorTypeOK, NEW h \in Handlers, call[h] # Idle, call[h].next <= call[h].last,
           ToPublish(h), keys' \subseteq keys \cup {Event(h)},
           UNCHANGED <<server, dedup, log, unsettled>>
    PROVE  Carries
<1> DEFINE c == [call[h] EXCEPT !.step = "publish"]
<1>1. call' = [call EXCEPT ![h] = c]
  BY DEF ToPublish
<1>2. call'[h] = c /\ \A g \in Handlers : g # h => call'[g] = call[g]
  BY <1>1, OthersStay
<1>3. /\ c \in CallType /\ c.agent = call[h].agent /\ c.last = call[h].last
      /\ c.conn = call[h].conn /\ c.next = call[h].next /\ c.step = "publish" /\ c # Idle
  BY CallFacts, IdleAssumption DEF CallType
<1>4. keys' \subseteq Events
  BY CallFacts DEF CollectorTypeOK
<1>5. CollectorTypeOK'
  BY <1>1, <1>3, <1>4 DEF CollectorTypeOK
<1>6. InPublish \subseteq InPublish' /\ Event(h) \in InPublish'
  <2>1. Event(h) \in InPublish'
    BY <1>2, <1>3, InPublishIs DEF Event
  <2>2. ASSUME NEW e \in InPublish PROVE e \in InPublish'
    <3>1. PICK g \in Handlers : /\ call[g] # Idle /\ call[g].step = "publish"
                               /\ call[g].next <= call[g].last
                               /\ e = <<call[g].agent, call[g].next>>
      BY <2>2, InPublishIs
    <3>2. CASE g = h
      BY <2>1, <3>1, <3>2 DEF Event
    <3>3. CASE g # h
      <4>1. call'[g] = call[g]
        BY <1>2, <3>3
      <4> QED BY <3>1, <4>1, InPublishIs
    <3> QED BY <3>2, <3>3
  <2> QED BY <2>1, <2>2
<1>7. Published' = Published
  BY DEF Published
<1>8. OnItsWay \subseteq OnItsWay' /\ keys' \subseteq keys \cup OnItsWay'
  BY <1>6, <1>7 DEF OnItsWay
<1> QED BY <1>2, <1>3, <1>5, <1>8 DEF Carries

LEMMA RejectAnonymousCarries ==
    ASSUME CollectorTypeOK, NEW h \in Handlers, RejectAnonymous(h)
    PROVE  Carries
<1>1. call[h] # Idle /\ call[h].step = "check" /\ call[h].next <= call[h].last
  BY DEF RejectAnonymous, Running, Busy
<1>2. Published' = Published
  BY DEF RejectAnonymous, Published
<1>3. /\ log' \in [Agents -> Seq(1 .. EventCount)] /\ keys' \subseteq Events
      /\ unsettled' \subseteq Events
  BY DEF RejectAnonymous, CollectorTypeOK
<1> QED BY <1>1, <1>2, <1>3, NextEventCarries DEF RejectAnonymous

LEMMA CheckCarries ==
    ASSUME CollectorTypeOK, KeyIsAccounted, NEW h \in Handlers,
           CheckSkipped(h) \/ CheckNew(h) \/ CheckDuplicate(h) \/ CheckError(h)
    PROVE  Carries
<1>1. call[h] # Idle /\ call[h].step = "check" /\ call[h].next <= call[h].last
  BY DEF CheckSkipped, CheckNew, CheckDuplicate, CheckError, Checking, Running, Busy
<1>2. CASE CheckSkipped(h)
  BY <1>1, <1>2, ToPublishCarries DEF CheckSkipped
<1>3. CASE CheckNew(h)
  BY <1>1, <1>3, ToPublishCarries DEF CheckNew
<1>4. CASE CheckDuplicate(h)
  <2>1. Published' = Published
    BY <1>4 DEF CheckDuplicate, Published
  <2>2. /\ log' \in [Agents -> Seq(1 .. EventCount)] /\ keys' \subseteq Events
        /\ unsettled' \subseteq Events
    BY <1>4 DEF CheckDuplicate, CollectorTypeOK
  <2>3. Event(h) \in OnItsWay
    BY <1>4 DEF CheckDuplicate, KeyIsAccounted, OnItsWay
  <2> QED BY <1>1, <1>4, <2>1, <2>2, <2>3, NextEventCarries DEF CheckDuplicate
<1>5. CASE CheckError(h)
  BY <1>1, <1>5, ToPublishCarries DEF CheckError
<1> QED BY <1>2, <1>3, <1>4, <1>5

LEMMA AcceptCancelledCarries ==
    ASSUME CollectorTypeOK, NEW h \in Handlers, AcceptCancelled(h)
    PROVE  Carries
<1>1. call[h] # Idle /\ call[h].step = "check" /\ call[h].next <= call[h].last
  BY DEF AcceptCancelled, Checking, Running, Busy
<1>2. Published' = Published
  BY DEF AcceptCancelled, Published
<1>3. /\ log' \in [Agents -> Seq(1 .. EventCount)] /\ keys' \subseteq Events
      /\ unsettled' \subseteq Events
  BY <1>1, CallFacts DEF AcceptCancelled, CollectorTypeOK
<1> QED BY <1>1, <1>2, <1>3, NextEventCarries DEF AcceptCancelled

LEMMA PublishCarries ==
    ASSUME CollectorTypeOK, NEW h \in Handlers,
           PublishOk(h, 1) \/ PublishOk(h, 2) \/ PublishFail(h)
    PROVE  Carries
<1>1. call[h] # Idle /\ call[h].step = "publish" /\ call[h].next <= call[h].last
  BY DEF PublishOk, PublishFail, Running, Busy
<1>2. Event(h) \in Events
  BY <1>1, CallFacts
<1>3. ASSUME NEW copies \in 1 .. 2, PublishOk(h, copies) PROVE Carries
  <2>1. /\ log' \in [Agents -> Seq(1 .. EventCount)] /\ Published \subseteq Published'
        /\ Event(h) \in Published'
    BY <1>2, <1>3, WriteKeeps DEF PublishOk
  <2>2. keys' \subseteq Events /\ unsettled' \subseteq Events
    BY <1>3 DEF PublishOk, CollectorTypeOK
  <2> QED BY <1>1, <1>3, <2>1, <2>2, NextEventCarries DEF PublishOk
<1>4. CASE PublishFail(h)
  <2>1. PICK copies \in 0 .. 1 : Write(Event(h), copies)
    BY <1>4 DEF PublishFail
  <2>2. log' \in [Agents -> Seq(1 .. EventCount)] /\ Published \subseteq Published'
    BY <1>2, <2>1, WriteKeeps
  <2>3. keys' \subseteq Events /\ unsettled' \subseteq Events
    BY <1>2, <1>4 DEF PublishFail, CollectorTypeOK
  <2> QED BY <1>1, <1>4, <2>2, <2>3, NextEventCarries DEF PublishFail
<1> QED BY <1>3, <1>4

(* Losing the client and noticing it change the connection only. *)
LEMMA ConnectionCarries ==
    ASSUME CollectorTypeOK, NEW h \in Handlers, LoseClient(h) \/ NoticeLoss(h)
    PROVE  Carries /\ call'[h].conn # "up" /\ call'[h] # Idle
<1> DEFINE c(w) == [call[h] EXCEPT !.conn = w]
<1>1. PICK w \in {"lost", "cancelled"} : call' = [call EXCEPT ![h] = c(w)]
  BY DEF LoseClient, NoticeLoss
<1>2. call[h] # Idle /\ UNCHANGED <<server, dedup, keys, log, unsettled>>
  BY DEF LoseClient, NoticeLoss, Busy
<1>3. /\ c(w) \in CallType /\ c(w) # Idle /\ c(w).agent = call[h].agent
      /\ c(w).last = call[h].last /\ c(w).next = call[h].next
      /\ c(w).step = call[h].step /\ c(w).conn = w
  BY <1>2, CallFacts, IdleAssumption DEF CallType
<1> HIDE DEF c
<1>4. call'[h] = c(w) /\ \A g \in Handlers : g # h => call'[g] = call[g]
  BY <1>1, OthersStay
<1>5. CollectorTypeOK'
  BY <1>1, <1>2, <1>3 DEF CollectorTypeOK
<1>6. ASSUME NEW x \in InPublish PROVE x \in InPublish'
  <2>1. PICK g \in Handlers : /\ call[g] # Idle /\ call[g].step = "publish"
                              /\ call[g].next <= call[g].last
                              /\ x = <<call[g].agent, call[g].next>>
    BY InPublishIs
  <2>2. /\ call'[g] # Idle /\ call'[g].step = call[g].step /\ call'[g].agent = call[g].agent
        /\ call'[g].next = call[g].next /\ call'[g].last = call[g].last
    BY <1>3, <1>4, <2>1
  <2> QED BY <2>1, <2>2, InPublishIs
<1>7. OnItsWay \subseteq OnItsWay'
  BY <1>2, <1>6 DEF OnItsWay, Published
<1> QED BY <1>2, <1>3, <1>4, <1>5, <1>7 DEF Carries

(* A finished handler holds no event to publish. *)
LEMMA FinishCarries ==
    ASSUME CollectorTypeOK, NEW h \in Handlers, Finish(h)
    PROVE  Carries
<1>1. call' = [call EXCEPT ![h] = Idle] /\ UNCHANGED <<server, dedup, keys, log, unsettled>>
  BY DEF Finish
<1>2. call'[h] = Idle /\ \A g \in Handlers : g # h => call'[g] = call[g]
  BY <1>1, OthersStay
<1>3. CollectorTypeOK'
  BY <1>1 DEF CollectorTypeOK
<1>4. call[h] # Idle /\ ~(call[h].next <= call[h].last)
  <2>1. call[h] # Idle /\ call[h].next > call[h].last
    BY DEF Finish, Finished, Busy
  <2>2. call[h].next \in Nat /\ call[h].last \in Nat
    BY <2>1, CallFacts
  <2> QED BY <2>1, <2>2
<1>5. ASSUME NEW x \in InPublish PROVE x \in InPublish'
  BY <1>2, <1>4, InPublishIs
<1>6. OnItsWay \subseteq OnItsWay'
  BY <1>1, <1>5 DEF OnItsWay, Published
<1> QED BY <1>1, <1>2, <1>3, <1>6 DEF Carries

(* A crash leaves what was about to be published unsettled. *)
LEMMA ProcessCarries ==
    ASSUME CollectorTypeOK, KeyIsAccounted,
           \/ CollectorCrash \/ StopServer \/ ServerStopped \/ StartServer
           \/ \E e \in keys : ExpireKey(e)
    PROVE  Carries
<1>1. CASE CollectorCrash
  <2>1. \A g \in Handlers : call'[g] = Idle
    BY <1>1 DEF CollectorCrash
  <2>2. InPublish \subseteq Events
    <3>1. ASSUME NEW x \in InPublish PROVE x \in Events
      BY <3>1, InPublishIs, CallFacts DEF Event
    <3> QED BY <3>1
  <2>3. CollectorTypeOK'
    BY <1>1, <2>2 DEF CollectorCrash, CollectorTypeOK, ServerModes
  <2>4. OnItsWay \subseteq OnItsWay'
    BY <1>1 DEF CollectorCrash, OnItsWay, Published
  <2>5. keys' = keys
    BY <1>1 DEF CollectorCrash
  <2> QED BY <2>1, <2>3, <2>4, <2>5 DEF Carries
<1>2. CASE StopServer \/ ServerStopped \/ StartServer \/ \E e \in keys : ExpireKey(e)
  <2>1. UNCHANGED <<call, log, unsettled>> /\ keys' \subseteq keys
    BY <1>2 DEF StopServer, ServerStopped, StartServer, ExpireKey
  <2>2. server' \in ServerModes /\ dedup' \in BOOLEAN
    BY <1>2 DEF StopServer, ServerStopped, StartServer, ExpireKey, CollectorTypeOK, ServerModes
  <2>3. CollectorTypeOK'
    BY <2>1, <2>2 DEF CollectorTypeOK
  <2>4. OnItsWay' = OnItsWay
    <3>1. \A x : x \in InPublish' <=> x \in InPublish
      BY <2>1, InPublishIs
    <3>2. Published' = Published
      BY <2>1 DEF Published
    <3> QED BY <2>1, <3>1, <3>2 DEF OnItsWay
  <2> QED BY <2>1, <2>3, <2>4 DEF Carries
<1> QED BY <1>1, <1>2

LEMMA StutterCarries ==
    ASSUME CollectorTypeOK, KeyIsAccounted, UNCHANGED collectorVars
    PROVE  Carries
<1>1. UNCHANGED <<server, dedup, call, keys, log, unsettled>>
  BY DEF collectorVars
<1>2. CollectorTypeOK'
  BY <1>1 DEF CollectorTypeOK
<1>3. OnItsWay' = OnItsWay
  <2>1. \A x : x \in InPublish' <=> x \in InPublish
    BY <1>1, InPublishIs
  <2>2. Published' = Published
    BY <1>1 DEF Published
  <2> QED BY <1>1, <2>1, <2>2 DEF OnItsWay
<1> QED BY <1>1, <1>2, <1>3 DEF Carries

-----------------------------------------------------------------------------
(* What a step that carries keeps of the invariant, whatever the agent does. *)
LEMMA CarriesPassed ==
    ASSUME CollectorTypeOK, KeyIsAccounted, Passed, Carries
    PROVE  KeyIsAccounted' /\ Passed' /\ Accounted \subseteq Accounted'
<1>1. KeyIsAccounted'
  BY DEF KeyIsAccounted, Carries, OnItsWay
<1>2. Accounted \subseteq Accounted'
  BY DEF Carries, Accounted
<1>3. ASSUME NEW g \in Handlers, call'[g] # Idle, NEW n \in 1 .. call'[g].next - 1
      PROVE  <<call'[g].agent, n>> \in Accounted'
  <2>1. /\ call[g] # Idle /\ call'[g].agent = call[g].agent
        /\ \/ call'[g].next = call[g].next
           \/ call'[g].next = call[g].next + 1 /\ Event(g) \in OnItsWay' \cup Anonymous
    BY <1>3 DEF Carries
  <2>2. call[g].next \in Nat
    BY <2>1, CallFacts
  <2>3. CASE n \in 1 .. call[g].next - 1
    BY <1>2, <2>1, <2>3 DEF Passed
  <2>4. CASE n \notin 1 .. call[g].next - 1
    <3>1. n = call[g].next /\ Event(g) \in OnItsWay' \cup Anonymous
      BY <1>3, <2>1, <2>2, <2>4
    <3> QED BY <2>1, <3>1 DEF Event, Accounted
  <2> QED BY <2>3, <2>4
<1> QED BY <1>1, <1>2, <1>3 DEF Passed

(* A step of handlers or the process alone. *)
LEMMA HandlerStepKeeps ==
    ASSUME CollectorTypeOK, Kept, Carries, UNCHANGED <<taken, cleared, mode>>
    PROVE  Kept'
<1>1. KeyIsAccounted' /\ Passed' /\ Accounted \subseteq Accounted'
  BY CarriesPassed DEF Kept
<1>2. ForgottenIsAccounted'
  BY <1>1 DEF Kept, ForgottenIsAccounted, Cleared, Accounted, OnItsWay
<1>3. \A g \in Handlers : Awaited(g)' =>
        Awaited(g) /\ call'[g].agent = call[g].agent /\ call'[g].last = call[g].last
  BY DEF Carries, Awaited
<1>4. Joined'
  BY <1>3 DEF Kept, Joined, InFlush
<1> QED BY <1>1, <1>2, <1>4 DEF Kept

(* A step of an agent that waits for no handler and sends no request. *)
LEMMA QuietStepKeeps ==
    ASSUME CollectorTypeOK, Kept, UNCHANGED collectorVars, UNCHANGED cleared, NEW a \in Agents,
           \A h \in Handlers : Awaited(h) => call[h].agent # a,
           \A b \in Agents : b # a => mode'[b] = mode[b] /\ taken'[b] = taken[b]
    PROVE  Kept'
<1>1. Carries
  BY StutterCarries DEF Kept
<1>2. KeyIsAccounted' /\ Passed' /\ Accounted \subseteq Accounted'
  BY <1>1, CarriesPassed DEF Kept
<1>3. ForgottenIsAccounted'
  BY <1>2 DEF Kept, ForgottenIsAccounted, Cleared, Accounted, OnItsWay
<1>4. Joined'
  <2>1. call' = call
    BY DEF collectorVars
  <2>2. \A h \in Handlers : Awaited(h) => call[h].agent \in Agents
    BY CallFacts DEF Awaited
  <2> QED BY <2>1, <2>2 DEF Kept, Joined, InFlush, Awaited
<1> QED BY <1>2, <1>3, <1>4 DEF Kept

(* An agent that starts an RPC gives a handler the events it holds. *)
LEMMA RequestKeeps ==
    ASSUME TypeOK, Kept, NEW a \in Agents, UNCHANGED cleared,
           mode[a] = "select", InFlush(a)', BatcherTypeOK', taken'[a] > cleared[a],
           \A b \in Agents : b # a => mode'[b] = mode[b] /\ taken'[b] = taken[b],
           Receive(a, cleared[a] + 1, taken'[a])
    PROVE  CollectorTypeOK' /\ Kept'
<1> DEFINE c == [agent |-> a, next |-> cleared[a] + 1, last |-> taken'[a],
                 step |-> "check", conn |-> "up"]
<1>1. PICK h \in Handlers : /\ call[h] = Idle /\ call' = [call EXCEPT ![h] = c]
                            /\ UNCHANGED <<server, dedup, keys, log, unsettled>>
  BY DEF Receive, Busy
<1>2. cleared[a] \in 0 .. EventCount /\ taken'[a] \in 1 .. EventCount
  <2>1. cleared[a] \in 0 .. EventCount /\ taken'[a] \in 0 .. EventCount
    BY DEF TypeOK, BatcherTypeOK
  <2> QED BY <2>1, EventCountAssumption
<1>3. c \in CallType /\ c # Idle
  <2>1. cleared[a] + 1 \in 1 .. EventCount + 1
    BY <1>2, EventCountAssumption
  <2>2. c \in CallType
    BY <1>2, <2>1 DEF CallType
  <2> QED BY <2>2, IdleAssumption
<1>4. /\ c.agent = a /\ c.next = cleared[a] + 1 /\ c.last = taken'[a]
      /\ c.step = "check" /\ c.conn = "up"
  OBVIOUS
<1> HIDE DEF c
<1>5. CollectorTypeOK
  BY DEF TypeOK
<1>6. call'[h] = c /\ \A g \in Handlers : g # h => call'[g] = call[g]
  BY <1>1, <1>5, OthersStay
<1>7. CollectorTypeOK'
  BY <1>1, <1>3, <1>5 DEF CollectorTypeOK
<1>8. OnItsWay' = OnItsWay
  <2>1. \A x : x \in InPublish' <=> x \in InPublish
    BY <1>1, <1>4, <1>6, InPublishIs
  <2>2. Published' = Published
    BY <1>1 DEF Published
  <2> QED BY <1>1, <2>1, <2>2 DEF OnItsWay
<1>9. KeyIsAccounted' /\ ForgottenIsAccounted'
  BY <1>1, <1>8 DEF Kept, KeyIsAccounted, ForgottenIsAccounted, Cleared, OnItsWay
<1>10. ASSUME NEW g \in Handlers, call'[g] # Idle, NEW n \in 1 .. call'[g].next - 1
       PROVE  <<call'[g].agent, n>> \in Accounted'
  <2>1. CASE g = h
    <3>1. n \in 1 .. EventCount /\ n <= cleared[a]
      BY <1>2, <1>4, <1>6, <1>10, <2>1, EventCountAssumption
    <3>2. <<a, n>> \in Cleared
      BY <3>1 DEF Cleared, Events
    <3>3. <<a, n>> \in Accounted
      BY <3>2 DEF Kept, ForgottenIsAccounted, Accounted, OnItsWay
    <3> QED BY <1>4, <1>6, <1>8, <2>1, <3>3 DEF Accounted
  <2>2. CASE g # h
    BY <1>6, <1>8, <1>10, <2>2 DEF Kept, Passed, Accounted
  <2> QED BY <2>1, <2>2
<1>11. \A g \in Handlers : Awaited(g) => call[g].agent # a /\ call[g].agent \in Agents
  <2>1. ~InFlush(a)
    BY DEF InFlush
  <2> QED BY <1>5, <2>1, CallFacts DEF Kept, Joined, Awaited
<1>12. \A g \in Handlers : Awaited(g)' => g = h \/ Awaited(g)
  BY <1>6 DEF Awaited
<1>13. ASSUME NEW g \in Handlers, Awaited(g)'
       PROVE  /\ mode'[call'[g].agent] \in {"flushing", "final"} /\ call'[g].last = taken'[call'[g].agent]
              /\ \A k \in Handlers : Awaited(k)' /\ call'[k].agent = call'[g].agent => k = g
  <2>1. CASE g = h
    <3>1. call'[g].agent = a /\ call'[g].last = taken'[a]
      BY <1>4, <1>6, <2>1
    <3> QED BY <1>6, <1>11, <1>12, <2>1, <3>1 DEF InFlush
  <2>2. CASE g # h
    <3>1. call'[g] = call[g] /\ Awaited(g) /\ call[g].agent # a /\ call[g].agent \in Agents
      BY <1>6, <1>11, <1>12, <1>13, <2>2
    <3>2. mode'[call[g].agent] \in {"flushing", "final"} /\ call[g].last = taken'[call[g].agent]
      BY <3>1 DEF Kept, Joined, InFlush
    <3>3. \A k \in Handlers : Awaited(k)' /\ call'[k].agent = call[g].agent => k = g
      BY <1>4, <1>6, <1>12, <3>1 DEF Kept, Joined, Awaited
    <3> QED BY <3>1, <3>2, <3>3
  <2> QED BY <2>1, <2>2
<1>14. Joined'
  BY <1>13 DEF Joined, InFlush
<1> QED BY <1>7, <1>9, <1>10, <1>14 DEF Kept, Passed

(* An agent's answer: its handler has accounted for the whole batch. *)
LEMMA AnswerKeeps ==
    ASSUME TypeOK, Kept, NEW a \in Agents, NEW h \in Waiting(a), Finish(h), FlushSucceeds(a)
    PROVE  CollectorTypeOK' /\ Kept'
<1>1. /\ h \in Handlers /\ call[h] # Idle /\ call[h].agent = a /\ Awaited(h)
      /\ call[h].next > call[h].last /\ call[h].last = taken[a]
  BY DEF Waiting, Busy, Finish, Finished, Awaited, Kept, Joined
<1>2. CollectorTypeOK /\ Carries
  BY <1>1, FinishCarries DEF TypeOK
<1>3. KeyIsAccounted' /\ Passed' /\ Accounted \subseteq Accounted'
  BY <1>2, CarriesPassed DEF Kept
<1>4. /\ taken' = taken /\ cleared'[a] = taken[a]
      /\ \A b \in Agents : b # a => mode'[b] = mode[b] /\ cleared'[b] = cleared[b]
  BY DEF FlushSucceeds, TypeOK, BatcherTypeOK
<1>5. \A n \in 1 .. taken[a] : <<a, n>> \in Accounted
  <2>1. call[h].next \in Nat /\ taken[a] \in Nat
    BY <1>1, <1>2, CallFacts
  <2>2. \A n \in 1 .. taken[a] : n \in 1 .. call[h].next - 1
    BY <1>1, <2>1
  <2> QED BY <1>1, <2>2 DEF Kept, Passed
<1>6. ForgottenIsAccounted'
  <2>1. ASSUME NEW e \in Events, e[2] <= cleared'[e[1]] PROVE e \in Accounted
    <3>1. e[1] \in Agents /\ e[2] \in 1 .. EventCount /\ e = <<e[1], e[2]>>
      BY DEF Events
    <3>2. CASE e[1] = a
      <4>1. taken[a] \in 0 .. EventCount
        BY DEF TypeOK, BatcherTypeOK
      <4>2. e[2] \in 1 .. taken[a]
        BY <1>4, <2>1, <3>1, <3>2, <4>1, EventCountAssumption
      <4> QED BY <1>5, <3>1, <3>2, <4>2
    <3>3. CASE e[1] # a
      BY <1>4, <2>1, <3>1, <3>3 DEF Kept, ForgottenIsAccounted, Cleared, Accounted, OnItsWay
    <3> QED BY <3>2, <3>3
  <2> QED BY <1>3, <2>1 DEF ForgottenIsAccounted, Cleared, Accounted, OnItsWay
<1>7. \A g \in Handlers : Awaited(g)' =>
        /\ Awaited(g) /\ g # h /\ call'[g].agent = call[g].agent /\ call'[g].last = call[g].last
        /\ call[g].agent # a /\ call[g].agent \in Agents
  <2>1. call'[h] = Idle
    BY <1>1, <1>2 DEF Finish, CollectorTypeOK
  <2>2. \A g \in Handlers : Awaited(g)' =>
          Awaited(g) /\ call'[g].agent = call[g].agent /\ call'[g].last = call[g].last
    BY <1>2 DEF Carries, Awaited
  <2>3. \A g \in Handlers : Awaited(g) /\ g # h => call[g].agent # a
    BY <1>1 DEF Kept, Joined
  <2>4. \A g \in Handlers : Awaited(g) => call[g].agent \in Agents
    BY <1>2, CallFacts DEF Awaited
  <2> QED BY <2>1, <2>2, <2>3, <2>4 DEF Awaited
<1>8. Joined'
  BY <1>4, <1>7 DEF Kept, Joined, InFlush
<1> QED BY <1>2, <1>3, <1>6, <1>8 DEF Carries, Kept

LEMMA SendKeeps ==
    ASSUME TypeOK, Kept, NEW a \in Agents, Send(a), UNCHANGED cleared, BatcherTypeOK',
           mode[a] = "select", InFlush(a)' => taken'[a] > cleared[a],
           \A b \in Agents : b # a => mode'[b] = mode[b] /\ taken'[b] = taken[b]
    PROVE  CollectorTypeOK' /\ Kept' /\ (NoFault \/ Fault("send"))
<1>1. NoFault \/ Fault("send")
  BY DEF Send
<1>2. CASE UNCHANGED collectorVars
  <2>1. \A h \in Handlers : Awaited(h) => call[h].agent # a
    BY DEF Kept, Joined, InFlush
  <2>2. Kept'
    BY <1>2, <2>1, QuietStepKeeps DEF TypeOK
  <2>3. CollectorTypeOK'
    BY <1>2 DEF TypeOK, CollectorTypeOK, collectorVars
  <2> QED BY <1>1, <2>2, <2>3
<1>3. CASE InFlush(a)' /\ Receive(a, cleared[a] + 1, taken'[a])
  BY <1>1, <1>3, RequestKeeps
<1> QED BY <1>2, <1>3 DEF Send, InFlush

(* The batcher's own part of each of its steps. *)
LEMMA BatcherSteps ==
    ASSUME BatcherTypeOK, NEW a \in Agents
    PROVE  /\ Emit(a) => BatcherTypeOK' /\ UNCHANGED <<taken, cleared, mode>>
           /\ Take(a) \/ TimerFlush(a) \/ FinalFlush(a) =>
                /\ BatcherTypeOK' /\ UNCHANGED cleared /\ mode[a] = "select"
                /\ InFlush(a)' => taken'[a] > cleared[a]
                /\ \A b \in Agents : b # a => mode'[b] = mode[b] /\ taken'[b] = taken[b]
           /\ Cancel(a) => BatcherTypeOK' /\ UNCHANGED <<taken, cleared, mode>>
           /\ FlushSucceeds(a) => BatcherTypeOK'
           /\ FlushFails(a) =>
                /\ BatcherTypeOK' /\ UNCHANGED <<taken, cleared>>
                /\ \A b \in Agents : b # a => mode'[b] = mode[b]
<1>1. /\ sent[a] \in 0 .. EventCount /\ taken[a] \in 0 .. EventCount
      /\ cleared[a] \in 0 .. EventCount /\ cleared[a] <= taken[a] /\ taken[a] <= sent[a]
  BY DEF BatcherTypeOK
<1>2. ASSUME Emit(a) PROVE BatcherTypeOK' /\ UNCHANGED <<taken, cleared, mode>>
  <2>1. sent' = [sent EXCEPT ![a] = sent[a] + 1] /\ UNCHANGED <<taken, cleared, mode, cancelled>>
    BY <1>2 DEF Emit
  <2>2. sent[a] + 1 \in 0 .. EventCount /\ taken[a] <= sent[a] + 1
    BY <1>1, <1>2, EventCountAssumption DEF Emit
  <2>3. sent' \in [Agents -> 0 .. EventCount] /\ \A b \in Agents : taken'[b] <= sent'[b]
    BY <2>1, <2>2 DEF BatcherTypeOK
  <2> QED BY <2>1, <2>3 DEF BatcherTypeOK
<1>3. ASSUME Take(a)
      PROVE  /\ BatcherTypeOK' /\ UNCHANGED cleared /\ mode[a] = "select"
             /\ InFlush(a)' => taken'[a] > cleared[a]
             /\ \A b \in Agents : b # a => mode'[b] = mode[b] /\ taken'[b] = taken[b]
  <2>1. /\ taken' = [taken EXCEPT ![a] = taken[a] + 1] /\ UNCHANGED <<sent, cleared, cancelled>>
        /\ mode[a] = "select" /\ taken[a] < sent[a]
    BY <1>3 DEF Take
  <2>2. /\ taken[a] + 1 \in 0 .. EventCount /\ taken[a] + 1 <= sent[a]
        /\ cleared[a] <= taken[a] + 1 /\ taken[a] + 1 > cleared[a]
    BY <1>1, <2>1, EventCountAssumption
  <2>3. /\ taken' \in [Agents -> 0 .. EventCount] /\ taken'[a] = taken[a] + 1
        /\ \A b \in Agents : b # a => taken'[b] = taken[b]
    BY <2>1, <2>2 DEF BatcherTypeOK
  <2>4. mode' = mode \/ mode' = [mode EXCEPT ![a] = "flushing"]
    BY <1>3 DEF Take, BeginFlush
  <2>5. mode' \in [Agents -> Modes] /\ \A b \in Agents : b # a => mode'[b] = mode[b]
    BY <2>4 DEF BatcherTypeOK, Modes
  <2>6. \A b \in Agents : cleared'[b] <= taken'[b] /\ taken'[b] <= sent'[b]
    BY <2>1, <2>2, <2>3 DEF BatcherTypeOK
  <2>7. BatcherTypeOK'
    BY <2>1, <2>3, <2>5, <2>6 DEF BatcherTypeOK
  <2> QED BY <2>1, <2>2, <2>3, <2>5, <2>7
<1>4. ASSUME TimerFlush(a) \/ FinalFlush(a)
      PROVE  /\ BatcherTypeOK' /\ UNCHANGED <<taken, cleared>> /\ mode[a] = "select"
             /\ InFlush(a)' => taken'[a] > cleared[a]
             /\ \A b \in Agents : b # a => mode'[b] = mode[b]
  <2>1. UNCHANGED <<sent, taken, cleared, cancelled>> /\ mode[a] = "select"
    BY <1>4 DEF TimerFlush, FinalFlush
  <2>2. \E w \in Modes : /\ mode' = [mode EXCEPT ![a] = w]
                         /\ w \in {"flushing", "final"} => Held(a) > 0
    <3>1. CASE TimerFlush(a)
      BY <3>1 DEF TimerFlush, BeginFlush, Modes
    <3>2. CASE FinalFlush(a)
      BY <3>2 DEF FinalFlush, Modes
    <3> QED BY <1>4, <3>1, <3>2
  <2>3. PICK w \in Modes : /\ mode' = [mode EXCEPT ![a] = w]
                           /\ w \in {"flushing", "final"} => Held(a) > 0
    BY <2>2
  <2>4. mode' \in [Agents -> Modes] /\ mode'[a] = w /\ \A b \in Agents : b # a => mode'[b] = mode[b]
    BY <2>3 DEF BatcherTypeOK
  <2>5. Held(a) > 0 => taken[a] > cleared[a]
    BY <1>1 DEF Held
  <2> QED BY <2>1, <2>3, <2>4, <2>5 DEF BatcherTypeOK, InFlush
<1>5. ASSUME Cancel(a) PROVE BatcherTypeOK' /\ UNCHANGED <<taken, cleared, mode>>
  BY <1>5 DEF Cancel, BatcherTypeOK
<1>6. AfterFlush(a) \in Modes
  BY DEF AfterFlush, Modes
<1>7. ASSUME FlushSucceeds(a) PROVE BatcherTypeOK'
  <2>1. /\ cleared' = [cleared EXCEPT ![a] = taken[a]] /\ UNCHANGED <<sent, taken, cancelled>>
        /\ mode' = [mode EXCEPT ![a] = AfterFlush(a)]
    BY <1>7 DEF FlushSucceeds
  <2>2. cleared' \in [Agents -> 0 .. EventCount] /\ \A b \in Agents : cleared'[b] <= taken[b]
    BY <1>1, <2>1 DEF BatcherTypeOK
  <2>3. mode' \in [Agents -> Modes]
    BY <1>6, <2>1 DEF BatcherTypeOK
  <2> QED BY <2>1, <2>2, <2>3 DEF BatcherTypeOK
<1>8. ASSUME FlushFails(a)
      PROVE  /\ BatcherTypeOK' /\ UNCHANGED <<taken, cleared>>
             /\ \A b \in Agents : b # a => mode'[b] = mode[b]
  BY <1>6, <1>8 DEF FlushFails, BatcherTypeOK
<1> QED BY <1>2, <1>3, <1>4, <1>5, <1>7, <1>8

-----------------------------------------------------------------------------
LEMMA FaultTypes ==
    ASSUME TypeOK, NoFault \/ \E kind \in FaultKinds : Fault(kind)
    PROVE  faults' \in 0 .. MaxFaults /\ occurred' \subseteq Faults
<1>1. CASE NoFault
  BY <1>1 DEF TypeOK, NoFault, faultVars
<1>2. ASSUME NEW kind \in FaultKinds, Fault(kind)
      PROVE  faults' \in 0 .. MaxFaults /\ occurred' \subseteq Faults
  <2>1. faults' \in 0 .. MaxFaults
    BY <1>2, IngestionAssumption DEF TypeOK, Fault
  <2>2. occurred' \subseteq Faults
    BY <1>2 DEF TypeOK, Fault
  <2> QED BY <2>1, <2>2
<1> QED BY <1>1, <1>2

LEMMA InitHolds == Init => IInv
<1> SUFFICES ASSUME Init PROVE IInv
  OBVIOUS
<1>1. BatcherTypeOK
  BY EventCountAssumption DEF Init, BatcherInit, BatcherTypeOK, Modes
<1>2. CollectorTypeOK
  <2>1. <<>> \in Seq(1 .. EventCount)
    OBVIOUS
  <2> QED BY <2>1 DEF Init, CollectorInit, CollectorTypeOK, ServerModes
<1>3. faults \in 0 .. MaxFaults /\ occurred \subseteq Faults
  <2>1. CASE dedup
    BY <2>1, IngestionAssumption DEF Init
  <2>2. CASE ~dedup
    <3>1. faults = 1 /\ "redis" \in Faults /\ occurred = {"redis"}
      BY <2>2 DEF Init
    <3>2. MaxFaults >= 1
      BY <2>2, IngestionAssumption DEF Init
    <3> QED BY <3>1, <3>2, IngestionAssumption
  <2> QED BY <2>1, <2>2
<1>4. KeyIsAccounted /\ Passed /\ Joined
  BY DEF Init, CollectorInit, KeyIsAccounted, Passed, Joined, Awaited
<1>5. ForgottenIsAccounted
  <2>1. \A e \in Events : ~(e[2] <= cleared[e[1]])
    BY EventCountAssumption DEF Init, BatcherInit, Events
  <2> QED BY <2>1 DEF ForgottenIsAccounted, Cleared
<1> QED BY <1>1, <1>2, <1>3, <1>4, <1>5 DEF IInv, TypeOK, Kept

(* The steps of an agent, with what they do to its request. *)
LEMMA AgentKeeps ==
    ASSUME IInv, NEW a \in Agents,
           SourceEmits(a) \/ AgentStep(a) \/ StopAgent(a) \/ Disconnect(a)
    PROVE  IInv'
<1>1. TypeOK /\ BatcherTypeOK /\ CollectorTypeOK /\ Kept /\ KeyIsAccounted
  BY DEF IInv, TypeOK, Kept
<1>2. CASE SourceEmits(a)
  <2>1. Carries /\ Kept'
    BY <1>1, <1>2, BatcherSteps, StutterCarries, HandlerStepKeeps DEF SourceEmits
  <2>2. BatcherTypeOK'
    BY <1>1, <1>2, BatcherSteps DEF SourceEmits
  <2>3. faults' \in 0 .. MaxFaults /\ occurred' \subseteq Faults
    BY <1>1, <1>2, FaultTypes DEF SourceEmits
  <2> QED BY <2>1, <2>2, <2>3 DEF IInv, TypeOK, Carries
<1>3. CASE BatcherTakes(a) \/ BatcherTicks(a) \/ BatcherFinalFlush(a)
  <2>1. (Take(a) \/ TimerFlush(a) \/ FinalFlush(a)) /\ Send(a)
    BY <1>3 DEF BatcherTakes, BatcherTicks, BatcherFinalFlush
  <2>2. /\ BatcherTypeOK' /\ UNCHANGED cleared /\ mode[a] = "select"
        /\ InFlush(a)' => taken'[a] > cleared[a]
        /\ \A b \in Agents : b # a => mode'[b] = mode[b] /\ taken'[b] = taken[b]
    BY <1>1, <2>1, BatcherSteps
  <2>3. CollectorTypeOK' /\ Kept' /\ (NoFault \/ Fault("send"))
    BY <1>1, <2>1, <2>2, SendKeeps
  <2>4. faults' \in 0 .. MaxFaults /\ occurred' \subseteq Faults
    BY <1>1, <2>3, FaultTypes DEF FaultKinds
  <2> QED BY <2>2, <2>3, <2>4 DEF IInv, TypeOK
<1>4. CASE Respond(a)
  <2>1. PICK h \in Waiting(a) : Finish(h)
    BY <1>4 DEF Respond
  <2>2. CollectorTypeOK' /\ Kept'
    BY <1>1, <1>4, <2>1, AnswerKeeps DEF Respond
  <2>3. BatcherTypeOK'
    BY <1>1, <1>4, BatcherSteps DEF Respond
  <2>4. faults' \in 0 .. MaxFaults /\ occurred' \subseteq Faults
    BY <1>1, <1>4, FaultTypes DEF Respond
  <2> QED BY <2>2, <2>3, <2>4 DEF IInv, TypeOK
<1>5. CASE ReportFailure(a)
  <2>1. UNCHANGED collectorVars /\ CollectorTypeOK'
    BY <1>1, <1>5 DEF ReportFailure, CollectorTypeOK, collectorVars
  <2>2. /\ BatcherTypeOK' /\ UNCHANGED <<taken, cleared>>
        /\ \A b \in Agents : b # a => mode'[b] = mode[b]
    BY <1>1, <1>5, BatcherSteps DEF ReportFailure
  <2>3. \A h \in Handlers : Awaited(h) => call[h].agent # a
    BY <1>5 DEF ReportFailure, Waiting, Awaited, Busy
  <2>4. Kept'
    BY <1>1, <2>1, <2>2, <2>3, QuietStepKeeps
  <2>5. faults' \in 0 .. MaxFaults /\ occurred' \subseteq Faults
    BY <1>1, <1>5, FaultTypes DEF ReportFailure
  <2> QED BY <2>1, <2>2, <2>4, <2>5 DEF IInv, TypeOK
<1>6. CASE StopAgent(a)
  <2>1. BatcherTypeOK' /\ UNCHANGED <<taken, cleared, mode>>
    BY <1>1, <1>6, BatcherSteps DEF StopAgent
  <2>2. Carries
    BY <1>1, <1>6, ConnectionCarries, StutterCarries DEF StopAgent, Waiting, Busy
  <2>3. Kept'
    BY <1>1, <2>1, <2>2, HandlerStepKeeps
  <2>4. faults' \in 0 .. MaxFaults /\ occurred' \subseteq Faults
    BY <1>1, <1>6, FaultTypes DEF StopAgent
  <2> QED BY <2>1, <2>2, <2>3, <2>4 DEF IInv, TypeOK, Carries
<1>7. CASE Disconnect(a)
  <2>1. BatcherTypeOK' /\ UNCHANGED <<taken, cleared, mode>>
    BY <1>1, <1>7 DEF Disconnect, batcherVars, BatcherTypeOK
  <2>2. Carries
    BY <1>1, <1>7, ConnectionCarries DEF Disconnect, Waiting, Busy
  <2>3. Kept'
    BY <1>1, <2>1, <2>2, HandlerStepKeeps
  <2>4. faults' \in 0 .. MaxFaults /\ occurred' \subseteq Faults
    BY <1>1, <1>7, FaultTypes DEF Disconnect, FaultKinds
  <2> QED BY <2>1, <2>2, <2>3, <2>4 DEF IInv, TypeOK, Carries
<1> QED BY <1>2, <1>3, <1>4, <1>5, <1>6, <1>7 DEF AgentStep

(* The steps of the handlers and of the collector process. *)
LEMMA CollectorKeeps ==
    ASSUME IInv,
           \/ \E h \in Handlers : ServerStep(h) \/ HandlerFault(h)
           \/ Expire \/ Crash \/ Stop \/ Stopped \/ Start
    PROVE  IInv'
<1>1. TypeOK /\ BatcherTypeOK /\ CollectorTypeOK /\ Kept /\ KeyIsAccounted
  BY DEF IInv, TypeOK, Kept
<1>2. ASSUME NEW h \in Handlers, ServerStep(h) \/ HandlerFault(h)
      PROVE  Carries /\ UNCHANGED batcherVars /\ (NoFault \/ \E kind \in FaultKinds : Fault(kind))
  <2>1. CASE Handle(h)
    BY <1>1, <2>1, RejectAnonymousCarries, CheckCarries, AcceptCancelledCarries, PublishCarries
       DEF Handle
  <2>2. CASE Abandon(h)
    BY <1>1, <2>2, FinishCarries DEF Abandon
  <2>3. CASE Notice(h)
    BY <1>1, <2>3, ConnectionCarries DEF Notice
  <2>4. CASE HandlerFault(h)
    BY <1>1, <2>4, CheckCarries, PublishCarries DEF HandlerFault, FaultKinds
  <2> QED BY <1>2, <2>1, <2>2, <2>3, <2>4 DEF ServerStep
<1>3. ASSUME Expire \/ Crash \/ Stop \/ Stopped \/ Start
      PROVE  Carries /\ UNCHANGED batcherVars /\ (NoFault \/ \E kind \in FaultKinds : Fault(kind))
  BY <1>1, <1>3, ProcessCarries DEF Expire, Crash, Stop, Stopped, Start, FaultKinds
<1>4. Carries /\ UNCHANGED batcherVars /\ (NoFault \/ \E kind \in FaultKinds : Fault(kind))
  BY <1>2, <1>3
<1>5. BatcherTypeOK' /\ UNCHANGED <<taken, cleared, mode>>
  BY <1>1, <1>4 DEF batcherVars, BatcherTypeOK
<1>6. Kept'
  BY <1>1, <1>4, <1>5, HandlerStepKeeps
<1>7. faults' \in 0 .. MaxFaults /\ occurred' \subseteq Faults
  BY <1>1, <1>4, FaultTypes
<1> QED BY <1>4, <1>5, <1>6, <1>7 DEF IInv, TypeOK, Carries

LEMMA StepKeeps == IInv /\ [Next]_vars => IInv'
<1> SUFFICES ASSUME IInv, [Next]_vars PROVE IInv'
  OBVIOUS
<1>1. CASE Next
  BY <1>1, AgentKeeps, CollectorKeeps DEF Next
<1>2. CASE UNCHANGED vars
  <2>1. /\ UNCHANGED collectorVars /\ UNCHANGED <<faults, occurred>>
        /\ UNCHANGED <<sent, taken, cleared, mode, cancelled>>
    BY <1>2 DEF vars, collectorVars
  <2>2. CollectorTypeOK /\ Kept /\ KeyIsAccounted
    BY DEF IInv, TypeOK, Kept
  <2>3. Carries /\ Kept'
    BY <2>1, <2>2, StutterCarries, HandlerStepKeeps
  <2>4. BatcherTypeOK' /\ faults' \in 0 .. MaxFaults /\ occurred' \subseteq Faults
    BY <2>1 DEF IInv, TypeOK, BatcherTypeOK
  <2> QED BY <2>3, <2>4 DEF IInv, TypeOK, Carries
<1> QED BY <1>1, <1>2

LEMMA InvariantHolds == Spec => []IInv
<1> QED BY InitHolds, StepKeeps, PTL DEF Spec

(* Types of agents, handlers, topic and dedup keys, for every capacity of  *)
(* the channel and the batch and every combination of failures.            *)
THEOREM IngestionTypeCorrect == Spec => []TypeOK
<1>1. IInv => TypeOK
  BY DEF IInv
<1> QED BY <1>1, InvariantHolds, PTL

(* A dedup key whose event could never reach the topic does not exist      *)
(* (dedup.go:47 sets it before the publish): the event is in the topic, a  *)
(* handler holds it, or a publish of it ended without an answer.           *)
THEOREM KeysAreAccounted == Spec => []KeyIsAccounted
<1>1. IInv => KeyIsAccounted
  BY DEF IInv, Kept
<1> QED BY <1>1, InvariantHolds, PTL

(* Batcher.flush clears a batch on any response: with lost and repeated    *)
(* requests, crashes and Redis errors, an event is still only forgotten    *)
(* when it is in the topic or on its way, had no id or failed to publish.  *)
THEOREM ForgetsOnlyAccounted == Spec => []ForgottenIsAccounted
<1>1. IInv => ForgottenIsAccounted
  BY DEF IInv, Kept
<1> QED BY <1>1, InvariantHolds, PTL

-----------------------------------------------------------------------------
(* What the steps of the composition do to calls, keys and topic. *)

(* An agent that held no call starts one for the batch it holds. *)
NewRequest(a, h) ==
    /\ call[h] = Idle
    /\ call' = [call EXCEPT ![h] = [agent |-> a, next |-> cleared[a] + 1, last |-> taken'[a],
                                    step |-> "check", conn |-> "up"]]
    /\ UNCHANGED <<dedup, keys, log, unsettled, cleared>>
    /\ \A g \in Handlers : Awaited(g) => call[g].agent # a

HandlerStep(h) ==
    \/ RejectAnonymous(h)
    \/ CheckSkipped(h)
    \/ CheckNew(h)
    \/ CheckDuplicate(h)
    \/ CheckError(h) /\ "redis" \in occurred'
    \/ AcceptCancelled(h)
    \/ PublishOk(h, 1)
    \/ PublishOk(h, 2) /\ "retry" \in occurred'
    \/ PublishFail(h) /\ (ContextCancelled(h) \/ "publish" \in occurred')
    \/ LoseClient(h) /\ ("disconnect" \in occurred' \/ cancelled'[call[h].agent])
    \/ NoticeLoss(h)
    \/ Finish(h) /\ call[h].conn # "up"

QuietStep ==
    /\ UNCHANGED <<call, keys, log, unsettled, cleared>>
    /\ dedup' \/ dedup' = dedup \/ "redis" \in occurred'

Answer(a, h) == call[h].agent = a /\ Awaited(h) /\ Finish(h) /\ FlushSucceeds(a)

(* Failures are not forgotten, and a cancelled agent stays cancelled. *)
Remembered ==
    /\ occurred \subseteq occurred'
    /\ \A a \in Agents : cancelled[a] => cancelled'[a]

LEMMA StaysRemembered == ASSUME IInv, [Next]_vars PROVE Remembered
<1>1. occurred \subseteq occurred'
  <2>1. UNCHANGED occurred \/ \E kind : Fault(kind)
    BY DEF Next, AgentStep, ServerStep, SourceEmits, BatcherTakes, BatcherTicks, BatcherFinalFlush,
           Send, Respond, ReportFailure, StopAgent, Disconnect, Handle, Abandon, Notice,
           HandlerFault, Expire, Crash, Stop, Stopped, Start, NoFault, faultVars, vars
  <2> QED BY <2>1 DEF Fault
<1>2. ASSUME NEW a \in Agents, cancelled[a] PROVE cancelled'[a]
  <2>1. UNCHANGED cancelled \/ \E b \in Agents : Cancel(b)
    BY DEF Next, AgentStep, ServerStep, SourceEmits, BatcherTakes, BatcherTicks, BatcherFinalFlush,
           Emit, Take, TimerFlush, FinalFlush, Respond, FlushSucceeds, ReportFailure, FlushFails,
           StopAgent, Disconnect, Handle, Abandon, Notice, HandlerFault, Expire, Crash, Stop,
           Stopped, Start, batcherVars, vars
  <2> QED BY <1>2, <2>1 DEF Cancel, IInv, TypeOK, BatcherTypeOK
<1> QED BY <1>1, <1>2 DEF Remembered

LEMMA AgentKinds ==
    ASSUME IInv, NEW a \in Agents,
           SourceEmits(a) \/ AgentStep(a) \/ StopAgent(a) \/ Disconnect(a)
    PROVE  \/ QuietStep
           \/ \E h \in Handlers : NewRequest(a, h) \/ Answer(a, h)
           \/ \E h \in Handlers : HandlerStep(h) /\ UNCHANGED cleared
<1>1. CASE SourceEmits(a) \/ ReportFailure(a)
  BY <1>1 DEF SourceEmits, Emit, ReportFailure, FlushFails, QuietStep, collectorVars
<1>2. CASE BatcherTakes(a) \/ BatcherTicks(a) \/ BatcherFinalFlush(a)
  <2>1. UNCHANGED cleared /\ mode[a] = "select" /\ Send(a)
    BY <1>2 DEF BatcherTakes, BatcherTicks, BatcherFinalFlush, Take, TimerFlush, FinalFlush
  <2>2. \A g \in Handlers : Awaited(g) => call[g].agent # a
    BY <2>1 DEF IInv, Kept, Joined, InFlush
  <2>3. CASE UNCHANGED collectorVars
    BY <2>1, <2>3 DEF QuietStep, collectorVars
  <2>4. CASE Receive(a, cleared[a] + 1, taken'[a])
    BY <2>1, <2>2, <2>4 DEF Receive, Busy, NewRequest
  <2> QED BY <2>1, <2>3, <2>4 DEF Send
<1>3. CASE Respond(a)
  BY <1>3 DEF Respond, Waiting, Busy, Answer, Awaited
<1>4. CASE StopAgent(a)
  <2>1. UNCHANGED cleared /\ cancelled'[a]
    BY <1>4 DEF StopAgent, Cancel, IInv, TypeOK, BatcherTypeOK
  <2> QED BY <1>4, <2>1 DEF StopAgent, QuietStep, collectorVars, HandlerStep, Waiting, Busy
<1>5. CASE Disconnect(a)
  BY <1>5 DEF Disconnect, Waiting, Busy, HandlerStep, Fault, batcherVars
<1> QED BY <1>1, <1>2, <1>3, <1>4, <1>5 DEF AgentStep

LEMMA StepKinds ==
    ASSUME IInv, [Next]_vars
    PROVE  \/ QuietStep
           \/ \E a \in Agents, h \in Handlers : NewRequest(a, h) \/ Answer(a, h)
           \/ \E h \in Handlers : HandlerStep(h) /\ UNCHANGED cleared
           \/ \E e \in keys : ExpireKey(e) /\ "expire" \in occurred' /\ UNCHANGED cleared
           \/ CollectorCrash /\ "crash" \in occurred' /\ UNCHANGED cleared
<1>1. ASSUME NEW h \in Handlers, ServerStep(h) \/ HandlerFault(h)
      PROVE  HandlerStep(h) /\ UNCHANGED cleared
  BY <1>1 DEF ServerStep, Handle, Abandon, Notice, HandlerFault, HandlerStep, Fault, batcherVars
<1>2. CASE Expire \/ Crash
  BY <1>2 DEF Expire, Crash, Fault, batcherVars
<1>3. CASE Stop \/ Stopped \/ Start
  BY <1>3 DEF Stop, Stopped, Start, StopServer, ServerStopped, StartServer, QuietStep, Fault,
              batcherVars
<1>4. CASE UNCHANGED vars
  BY <1>4 DEF vars, QuietStep
<1> QED BY <1>1, <1>2, <1>3, <1>4, AgentKinds DEF Next

(* The calls after a step that moves a handler on. *)
LEMMA CallsAfter ==
    ASSUME CollectorTypeOK, NEW h \in Handlers, call[h] # Idle
    PROVE  /\ NextEvent(h) /\ call[h].next <= call[h].last =>
                /\ call'[h] # Idle /\ call'[h].agent = call[h].agent /\ call'[h].last = call[h].last
                /\ call'[h].conn = call[h].conn /\ call'[h].next = call[h].next + 1
                /\ call'[h].step = "check"
                /\ \A g \in Handlers : g # h => call'[g] = call[g]
           /\ ToPublish(h) =>
                /\ call'[h] # Idle /\ call'[h].agent = call[h].agent /\ call'[h].last = call[h].last
                /\ call'[h].conn = call[h].conn /\ call'[h].next = call[h].next
                /\ call'[h].step = "publish"
                /\ \A g \in Handlers : g # h => call'[g] = call[g]
           /\ LoseClient(h) \/ NoticeLoss(h) =>
                /\ call'[h] # Idle /\ call'[h].agent = call[h].agent /\ call'[h].last = call[h].last
                /\ call'[h].next = call[h].next /\ call'[h].step = call[h].step
                /\ call'[h].conn # "up"
                /\ \A g \in Handlers : g # h => call'[g] = call[g]
           /\ Finish(h) =>
                /\ call'[h] = Idle
                /\ \A g \in Handlers : g # h => call'[g] = call[g]
<1>1. /\ call[h] \in CallType /\ call[h].last \in 1 .. EventCount
      /\ call[h].next \in 1 .. EventCount + 1
  BY CallFacts
<1>2. ASSUME NextEvent(h), call[h].next <= call[h].last
      PROVE  /\ call'[h] # Idle /\ call'[h].agent = call[h].agent /\ call'[h].last = call[h].last
             /\ call'[h].conn = call[h].conn /\ call'[h].next = call[h].next + 1
             /\ call'[h].step = "check"
             /\ \A g \in Handlers : g # h => call'[g] = call[g]
  <2> DEFINE c == [call[h] EXCEPT !.next = call[h].next + 1, !.step = "check"]
  <2>1. call' = [call EXCEPT ![h] = c]
    BY <1>2 DEF NextEvent
  <2>2. call[h].next + 1 \in 1 .. EventCount + 1
    BY <1>1, <1>2, EventCountAssumption
  <2>3. /\ c \in CallType /\ c.agent = call[h].agent /\ c.last = call[h].last
        /\ c.conn = call[h].conn /\ c.next = call[h].next + 1 /\ c.step = "check"
    BY <1>1, <2>2 DEF CallType
  <2>4. c # Idle
    BY <2>3, IdleAssumption
  <2> HIDE DEF c
  <2> QED BY <2>1, <2>3, <2>4, OthersStay
<1>3. ASSUME ToPublish(h)
      PROVE  /\ call'[h] # Idle /\ call'[h].agent = call[h].agent /\ call'[h].last = call[h].last
             /\ call'[h].conn = call[h].conn /\ call'[h].next = call[h].next
             /\ call'[h].step = "publish"
             /\ \A g \in Handlers : g # h => call'[g] = call[g]
  <2> DEFINE c == [call[h] EXCEPT !.step = "publish"]
  <2>1. call' = [call EXCEPT ![h] = c]
    BY <1>3 DEF ToPublish
  <2>2. /\ c \in CallType /\ c.agent = call[h].agent /\ c.last = call[h].last
        /\ c.conn = call[h].conn /\ c.next = call[h].next /\ c.step = "publish"
    BY <1>1 DEF CallType
  <2>3. c # Idle
    BY <2>2, IdleAssumption
  <2> HIDE DEF c
  <2> QED BY <2>1, <2>2, <2>3, OthersStay
<1>4. ASSUME NEW w \in {"lost", "cancelled"}, call' = [call EXCEPT ![h].conn = w]
      PROVE  /\ call'[h] # Idle /\ call'[h].agent = call[h].agent /\ call'[h].last = call[h].last
             /\ call'[h].next = call[h].next /\ call'[h].step = call[h].step
             /\ call'[h].conn # "up"
             /\ \A g \in Handlers : g # h => call'[g] = call[g]
  <2> DEFINE c == [call[h] EXCEPT !.conn = w]
  <2>1. call' = [call EXCEPT ![h] = c]
    BY <1>4
  <2>2. /\ c \in CallType /\ c.agent = call[h].agent /\ c.last = call[h].last
        /\ c.conn # "up" /\ c.next = call[h].next /\ c.step = call[h].step
    BY <1>1 DEF CallType
  <2>3. c # Idle
    BY <2>2, IdleAssumption
  <2> HIDE DEF c
  <2> QED BY <2>1, <2>2, <2>3, OthersStay
<1>5. ASSUME Finish(h)
      PROVE call'[h] = Idle /\ \A g \in Handlers : g # h => call'[g] = call[g]
  BY <1>5, OthersStay DEF Finish
<1> QED BY <1>2, <1>3, <1>4, <1>5 DEF LoseClient, NoticeLoss

(* The topic after a write of an event, which may leave no record. *)
LEMMA LogAfter ==
    ASSUME CollectorTypeOK, NEW e \in Events, NEW copies \in 0 .. 2, Write(e, copies)
    PROVE  /\ \A a \in Agents : a # e[1] => log'[a] = log[a]
           /\ log[e[1]] \in Seq(1 .. EventCount) /\ log'[e[1]] \in Seq(1 .. EventCount)
           /\ Len(log'[e[1]]) = Len(log[e[1]]) + copies
           /\ \A i \in 1 .. Len(log[e[1]]) : log'[e[1]][i] = log[e[1]][i]
           /\ \A i \in Len(log[e[1]]) + 1 .. Len(log'[e[1]]) : log'[e[1]][i] = e[2]
<1> DEFINE old == log[e[1]]
           more == [i \in 1 .. copies |-> e[2]]
           new == old \o more
<1>1. e[1] \in Agents /\ e[2] \in 1 .. EventCount /\ copies \in Nat
  BY DEF Events
<1>2. old \in Seq(1 .. EventCount) /\ Len(old) \in Nat
  BY <1>1 DEF CollectorTypeOK
<1>3. more \in Seq(1 .. EventCount) /\ Len(more) = copies
  BY <1>1, ConstantSequence
<1>4. \A i \in 1 .. copies : more[i] = e[2]
  OBVIOUS
<1>5. /\ new \in Seq(1 .. EventCount) /\ Len(new) = Len(old) + copies
      /\ \A i \in 1 .. Len(old) : new[i] = old[i]
      /\ \A i \in Len(old) + 1 .. Len(new) : new[i] = more[i - Len(old)]
  <2> HIDE DEF old, more
  <2> QED BY <1>1, <1>2, <1>3
<1>6. \A i \in Len(old) + 1 .. Len(new) : new[i] = e[2]
  <2> HIDE DEF old, more, new
  <2>1. \A i \in Len(old) + 1 .. Len(new) : i - Len(old) \in 1 .. copies
    BY <1>1, <1>2, <1>5
  <2> QED BY <1>4, <1>5, <2>1
<1>7. log' = [log EXCEPT ![e[1]] = new]
  BY DEF Write
<1>8. log'[e[1]] = new /\ \A a \in Agents : a # e[1] => log'[a] = log[a]
  BY <1>1, <1>7 DEF CollectorTypeOK
<1> HIDE DEF new, more
<1> QED BY <1>2, <1>5, <1>6, <1>8

LEMMA PublishedAfter ==
    ASSUME CollectorTypeOK, NEW e \in Events, NEW copies \in 0 .. 2, Write(e, copies)
    PROVE  /\ Published' \subseteq Published \cup {e}
           /\ Published \subseteq Published' /\ (copies >= 1 => e \in Published')
<1>1. ASSUME NEW x \in Published' PROVE x \in Published \cup {e}
  <2>1. x \in Events /\ x = <<x[1], x[2]>> /\ x[1] \in Agents /\ e = <<e[1], e[2]>>
    BY <1>1 DEF Published, Events
  <2>2. PICK i \in DOMAIN log'[x[1]] : log'[x[1]][i] = x[2]
    BY <1>1 DEF Published
  <2>3. CASE x[1] # e[1]
    BY <2>1, <2>2, <2>3, LogAfter DEF Published
  <2>4. CASE x[1] = e[1]
    <3>1. i \in 1 .. Len(log'[e[1]]) /\ Len(log[e[1]]) \in Nat
      BY <2>2, <2>4, LogAfter
    <3>2. i \in 1 .. Len(log[e[1]]) \/ i \in Len(log[e[1]]) + 1 .. Len(log'[e[1]])
      BY <3>1, LogAfter
    <3>3. CASE i \in 1 .. Len(log[e[1]])
      BY <2>1, <2>2, <2>4, <3>3, LogAfter DEF Published
    <3>4. CASE i \in Len(log[e[1]]) + 1 .. Len(log'[e[1]])
      BY <2>1, <2>2, <2>4, <3>4, LogAfter
    <3> QED BY <3>2, <3>3, <3>4
  <2> QED BY <2>3, <2>4
<1> QED BY <1>1, WriteKeeps
-----------------------------------------------------------------------------
(* Deduplication: without lost keys and repeating producers, every key of  *)
(* the topic is remembered, and so is every event about to be written,     *)
(* which is in no other hand and not in the topic yet.                     *)
Publishing(h) == Running(h, "publish")

Deduplicating == occurred \cap {"redis", "expire", "retry"} = {}

WrittenOnce == \A a \in Agents : \A i, j \in DOMAIN log[a] : log[a][i] = log[a][j] => i = j

Exclusive ==
    /\ dedup
    /\ Published \cup InPublish \subseteq keys
    /\ \A h \in Handlers : Publishing(h) => Event(h) \notin Published
    /\ \A g, h \in Handlers : Publishing(g) /\ Publishing(h) /\ Event(g) = Event(h) => g = h
    /\ WrittenOnce

OnceInv == Deduplicating => Exclusive

(* A step after which only those publish who did before, and the same. *)
LEMMA FewerPublish ==
    ASSUME Exclusive, dedup', UNCHANGED log, keys \subseteq keys',
           \A g \in Handlers : Publishing(g)' => Publishing(g) /\ Event(g)' = Event(g)
    PROVE  Exclusive'
<1>1. Published' = Published
  BY DEF Published
<1>2. ASSUME NEW x \in InPublish' PROVE x \in InPublish
  <2>1. PICK g \in Handlers : Publishing(g)' /\ x = Event(g)'
    BY <1>2 DEF InPublish, Publishing
  <2> QED BY <2>1 DEF InPublish, Publishing
<1>3. WrittenOnce'
  BY DEF Exclusive, WrittenOnce
<1> QED BY <1>1, <1>2, <1>3 DEF Exclusive

LEMMA OnceStep == ASSUME IInv, OnceInv, [Next]_vars PROVE OnceInv'
<1> SUFFICES ASSUME Deduplicating' PROVE Exclusive'
  BY DEF OnceInv
<1>1. Remembered /\ CollectorTypeOK
  BY StaysRemembered DEF IInv, TypeOK
<1>2. Exclusive
  BY <1>1 DEF OnceInv, Deduplicating, Remembered
<1>3. "redis" \notin occurred' /\ "expire" \notin occurred' /\ "retry" \notin occurred'
  BY DEF Deduplicating
<1>4. \A g \in Handlers : Publishing(g) <=>
        call[g] # Idle /\ call[g].step = "publish" /\ call[g].next <= call[g].last
  BY DEF Publishing, Running, Busy
<1>5. \A g \in Handlers : Publishing(g)' <=>
        call'[g] # Idle /\ call'[g].step = "publish" /\ call'[g].next <= call'[g].last
  BY DEF Publishing, Running, Busy
<1>6. \A g \in Handlers : call'[g] = call[g] => (Publishing(g)' <=> Publishing(g)) /\ Event(g)' = Event(g)
  BY <1>4, <1>5 DEF Event
<1>7. CASE QuietStep
  <2>1. dedup' /\ UNCHANGED <<call, keys, log>>
    BY <1>2, <1>3, <1>7 DEF QuietStep, Exclusive
  <2> QED BY <1>2, <1>6, <2>1, FewerPublish
<1>8. ASSUME NEW h \in Handlers, \A g \in Handlers : g # h => call'[g] = call[g],
             ~Publishing(h)', UNCHANGED <<dedup, log>>, keys \subseteq keys'
      PROVE  Exclusive'
  <2>1. dedup'
    BY <1>2, <1>8 DEF Exclusive
  <2>2. \A g \in Handlers : Publishing(g)' => Publishing(g) /\ Event(g)' = Event(g)
    BY <1>6, <1>8
  <2> QED BY <1>2, <1>8, <2>1, <2>2, FewerPublish
<1>9. ASSUME NEW a \in Agents, NEW h \in Handlers, NewRequest(a, h) PROVE Exclusive'
  <2> DEFINE c == [agent |-> a, next |-> cleared[a] + 1, last |-> taken'[a],
                   step |-> "check", conn |-> "up"]
  <2>1. call' = [call EXCEPT ![h] = c] /\ c.step = "check"
    BY <1>9 DEF NewRequest
  <2> HIDE DEF c
  <2>2. call'[h] = c /\ \A g \in Handlers : g # h => call'[g] = call[g]
    BY <1>1, <2>1, OthersStay
  <2>3. ~Publishing(h)'
    BY <1>5, <2>1, <2>2
  <2> QED BY <1>8, <1>9, <2>2, <2>3 DEF NewRequest
<1>10. ASSUME NEW h \in Handlers, Finish(h) PROVE Exclusive'
  <2>1. call'[h] = Idle /\ \A g \in Handlers : g # h => call'[g] = call[g]
    BY <1>1, <1>10, CallsAfter DEF Finish, Finished, Busy
  <2> QED BY <1>5, <1>8, <1>10, <2>1 DEF Finish
<1>11. ASSUME NEW h \in Handlers, LoseClient(h) \/ NoticeLoss(h) PROVE Exclusive'
  <2>1. /\ call'[h] # Idle /\ call'[h].agent = call[h].agent /\ call'[h].last = call[h].last
        /\ call'[h].next = call[h].next /\ call'[h].step = call[h].step /\ call[h] # Idle
        /\ \A g \in Handlers : g # h => call'[g] = call[g]
    BY <1>1, <1>11, CallsAfter DEF LoseClient, NoticeLoss, Busy
  <2>2. \A g \in Handlers : Publishing(g)' => Publishing(g) /\ Event(g)' = Event(g)
    BY <1>4, <1>5, <1>6, <2>1 DEF Event
  <2>3. dedup' /\ UNCHANGED <<log, keys>>
    BY <1>2, <1>11 DEF LoseClient, NoticeLoss, Exclusive
  <2> QED BY <1>2, <2>2, <2>3, FewerPublish
<1>12. ASSUME NEW h \in Handlers, RejectAnonymous(h) \/ CheckDuplicate(h) \/ AcceptCancelled(h)
       PROVE  Exclusive'
  <2>1. call[h] # Idle /\ call[h].next <= call[h].last /\ NextEvent(h)
    BY <1>12 DEF RejectAnonymous, CheckDuplicate, AcceptCancelled, Checking, Running, Busy
  <2>2. call'[h].step = "check" /\ \A g \in Handlers : g # h => call'[g] = call[g]
    BY <1>1, <2>1, CallsAfter
  <2>3. UNCHANGED <<dedup, log, keys>>
    BY <1>12 DEF RejectAnonymous, CheckDuplicate, AcceptCancelled
  <2> QED BY <1>5, <1>8, <2>2, <2>3
<1>13. ASSUME NEW h \in Handlers, CheckNew(h) PROVE Exclusive'
  <2>1. /\ call[h] # Idle /\ ToPublish(h) /\ UNCHANGED <<dedup, log>>
        /\ Event(h) \notin keys /\ keys' = keys \cup {Event(h)}
    BY <1>13 DEF CheckNew, Checking, Running, Busy
  <2>2. /\ call'[h] # Idle /\ call'[h].agent = call[h].agent /\ call'[h].last = call[h].last
        /\ call'[h].next = call[h].next
        /\ \A g \in Handlers : g # h => call'[g] = call[g]
    BY <1>1, <2>1, CallsAfter
  <2>3. Event(h)' = Event(h) /\ Published' = Published /\ Event(h) \notin Published
    BY <1>2, <2>1, <2>2 DEF Event, Published, Exclusive
  <2>4. ASSUME NEW g \in Handlers, Publishing(g)', g # h
        PROVE  Publishing(g) /\ Event(g)' = Event(g) /\ Event(g) \in keys /\ Event(g) # Event(h)
    <3>1. Publishing(g) /\ Event(g)' = Event(g)
      BY <1>6, <2>2, <2>4
    <3>2. Event(g) \in InPublish
      BY <3>1 DEF InPublish, Publishing
    <3> QED BY <1>2, <2>1, <3>1, <3>2 DEF Exclusive
  <2>5. InPublish' \subseteq keys'
    <3> SUFFICES ASSUME NEW g \in Handlers, Publishing(g)' PROVE Event(g)' \in keys'
      BY DEF InPublish, Publishing
    <3> QED BY <2>1, <2>3, <2>4
  <2>6. \A g \in Handlers : Publishing(g)' => Event(g)' \notin Published'
    BY <1>2, <2>3, <2>4 DEF Exclusive
  <2>7. \A f, g \in Handlers : Publishing(f)' /\ Publishing(g)' /\ Event(f)' = Event(g)' => f = g
    BY <1>2, <2>3, <2>4 DEF Exclusive
  <2>8. WrittenOnce'
    BY <1>2, <2>1 DEF Exclusive, WrittenOnce
  <2>9. dedup' /\ Published' \subseteq keys'
    BY <1>2, <2>1, <2>3 DEF Exclusive
  <2> QED BY <2>5, <2>6, <2>7, <2>8, <2>9 DEF Exclusive
<1>14. ASSUME NEW h \in Handlers, PublishOk(h, 1) \/ PublishFail(h) PROVE Exclusive'
  <2>1. /\ Publishing(h) /\ call[h] # Idle /\ call[h].next <= call[h].last /\ NextEvent(h)
        /\ UNCHANGED <<dedup, keys>>
    BY <1>4, <1>14 DEF PublishOk, PublishFail, Publishing
  <2>2. PICK copies \in 0 .. 1 : Write(Event(h), copies)
    BY <1>14 DEF PublishOk, PublishFail
  <2>3. call'[h].step = "check" /\ \A g \in Handlers : g # h => call'[g] = call[g]
    BY <1>1, <2>1, CallsAfter
  <2> DEFINE e == Event(h)
  <2>4. /\ e \in Events /\ e[1] \in Agents /\ e[2] \in 1 .. EventCount /\ e = <<e[1], e[2]>>
        /\ copies \in 0 .. 2
    BY <1>1, <2>1, CallFacts DEF Events
  <2>5. e \in InPublish /\ e \notin Published /\ e \in keys
    BY <1>2, <2>1 DEF InPublish, Publishing, Exclusive
  <2>6. Published' \subseteq Published \cup {e}
    BY <1>1, <2>2, <2>4, PublishedAfter
  <2>7. \A g \in Handlers : Publishing(g)' => Publishing(g) /\ Event(g)' = Event(g) /\ g # h
    BY <1>5, <1>6, <2>3
  <2>8. InPublish' \subseteq keys'
    <3> SUFFICES ASSUME NEW g \in Handlers, Publishing(g)' PROVE Event(g)' \in keys'
      BY DEF InPublish, Publishing
    <3>1. Event(g)' \in InPublish
      BY <2>7 DEF InPublish, Publishing
    <3> QED BY <1>2, <2>1, <3>1 DEF Exclusive
  <2>9. \A g \in Handlers : Publishing(g)' => Event(g)' \notin Published'
    BY <1>2, <2>1, <2>6, <2>7 DEF Exclusive
  <2>10. \A f, g \in Handlers : Publishing(f)' /\ Publishing(g)' /\ Event(f)' = Event(g)' => f = g
    BY <1>2, <2>7 DEF Exclusive
  <2>11. WrittenOnce'
    <3> SUFFICES ASSUME NEW a \in Agents, NEW i \in DOMAIN log'[a], NEW j \in DOMAIN log'[a],
                        log'[a][i] = log'[a][j]
                 PROVE  i = j
      BY DEF WrittenOnce
    <3>1. CASE a # e[1]
      <4>1. log'[a] = log[a]
        BY <1>1, <2>2, <2>4, <3>1, LogAfter
      <4> QED BY <1>2, <4>1 DEF Exclusive, WrittenOnce
    <3>2. CASE a = e[1]
      <4> DEFINE old == log[a]
                 new == log'[a]
      <4>1. /\ Len(old) \in Nat /\ Len(new) = Len(old) + copies /\ DOMAIN new = 1 .. Len(new)
            /\ DOMAIN old = 1 .. Len(old)
            /\ \A k \in 1 .. Len(old) : new[k] = old[k]
            /\ \A k \in Len(old) + 1 .. Len(new) : new[k] = e[2]
        <5>1. old \in Seq(1 .. EventCount) /\ new \in Seq(1 .. EventCount)
          BY <1>1, <2>2, <2>4, <3>2, LogAfter
        <5>2. /\ Len(new) = Len(old) + copies
              /\ \A k \in 1 .. Len(old) : new[k] = old[k]
              /\ \A k \in Len(old) + 1 .. Len(new) : new[k] = e[2]
          BY <1>1, <2>2, <2>4, <3>2, LogAfter
        <5> HIDE DEF old, new
        <5> QED BY <5>1, <5>2
      <4>2. \A k \in 1 .. Len(old) : old[k] # e[2]
        <5>1. ASSUME NEW k \in 1 .. Len(old), old[k] = e[2] PROVE e \in Published
          BY <2>4, <3>2, <4>1, <5>1 DEF Published
        <5> QED BY <2>5, <5>1
      <4>3. \A k, l \in 1 .. Len(old) : old[k] = old[l] => k = l
        BY <1>2, <4>1 DEF Exclusive, WrittenOnce
      <4>4. new[i] = new[j] /\ i \in 1 .. Len(new) /\ j \in 1 .. Len(new)
        BY <4>1
      <4> HIDE DEF old, new
      <4>5. CASE i \in 1 .. Len(old) /\ j \in 1 .. Len(old)
        BY <4>1, <4>3, <4>4, <4>5
      <4>6. CASE i \notin 1 .. Len(old) \/ j \notin 1 .. Len(old)
        <5>1. \A k \in 1 .. Len(new) : k \notin 1 .. Len(old) => k = Len(old) + 1 /\ new[k] = e[2]
          BY <4>1
        <5> QED BY <4>1, <4>2, <4>4, <4>6, <5>1
      <4> QED BY <4>5, <4>6
    <3> QED BY <3>1, <3>2
  <2>12. dedup' /\ Published' \subseteq keys'
    BY <1>2, <2>1, <2>5, <2>6 DEF Exclusive
  <2> QED BY <2>8, <2>9, <2>10, <2>11, <2>12 DEF Exclusive
<1>15. CASE CollectorCrash
  <2>1. \A g \in Handlers : call'[g] = Idle
    BY <1>15 DEF CollectorCrash
  <2>2. dedup' /\ UNCHANGED <<log, keys>>
    BY <1>2, <1>15 DEF CollectorCrash, Exclusive
  <2> QED BY <1>2, <1>5, <2>1, <2>2, FewerPublish
<1>16. ASSUME NEW h \in Handlers, HandlerStep(h) PROVE Exclusive'
  <2>1. ~CheckSkipped(h)
    BY <1>2 DEF CheckSkipped, Exclusive
  <2> QED BY <1>3, <1>10, <1>11, <1>12, <1>13, <1>14, <1>16, <2>1 DEF HandlerStep
<1> QED BY <1>3, <1>7, <1>9, <1>10, <1>15, <1>16, StepKinds DEF Answer

(* dedup.go:52: however many handlers hold the same event, one of them     *)
(* wins and it is published once, through lost requests and responses,     *)
(* repeated batches, failed publishes, crashes and restarts, for any       *)
(* number of agents and handlers.                                          *)
THEOREM SetNxPublishesOnce == Spec => []PublishedOnce
<1>1. Init => OnceInv
  <2> SUFFICES ASSUME Init, Deduplicating PROVE Exclusive
    BY DEF OnceInv
  <2>1. dedup
    BY DEF Init, Deduplicating
  <2>2. Published = {} /\ InPublish = {} /\ WrittenOnce /\ \A h \in Handlers : ~Publishing(h)
    BY DEF Init, CollectorInit, Published, InPublish, WrittenOnce, Publishing, Running, Busy, Events
  <2> QED BY <2>1, <2>2 DEF Exclusive
<1>2. IInv /\ OnceInv /\ [Next]_vars => OnceInv'
  BY OnceStep
<1>3. OnceInv => PublishedOnce
  BY DEF OnceInv, Exclusive, Deduplicating, PublishedOnce, WrittenOnce
<1> QED BY <1>1, <1>2, <1>3, InvariantHolds, PTL DEF Spec

-----------------------------------------------------------------------------
(* A planned restart: nobody loses its response, so every handler's client *)
(* waits for it, and what a handler has passed is in the topic.            *)
OnTopic == Published \cup Anonymous

Planned ==
    /\ occurred \subseteq {"send", "stop", "retry", "expire"}
    /\ \A a \in Agents : ~cancelled[a]

Clean ==
    /\ unsettled = {}
    /\ \A h \in Handlers : call[h] # Idle =>
        /\ call[h].conn = "up"
        /\ \A n \in 1 .. call[h].next - 1 : <<call[h].agent, n>> \in OnTopic
    /\ Cleared \subseteq OnTopic

PlannedInv == Planned => Clean

(* A handler goes on, and the event it leaves behind is in the topic. *)
LEMMA MovesOnCleanly ==
    ASSUME CollectorTypeOK, Clean, NEW h \in Handlers, call[h] # Idle, call'[h] # Idle,
           call'[h].agent = call[h].agent, call'[h].conn = call[h].conn,
           \/ call'[h].next = call[h].next
           \/ call'[h].next = call[h].next + 1 /\ Event(h) \in Published' \cup Anonymous,
           \A g \in Handlers : g # h => call'[g] = call[g],
           Published \subseteq Published', UNCHANGED <<cleared, unsettled>>
    PROVE  Clean'
<1>1. OnTopic \subseteq OnTopic'
  BY DEF OnTopic
<1>2. ASSUME NEW n \in 1 .. call'[h].next - 1 PROVE <<call'[h].agent, n>> \in OnTopic'
  <2>1. call[h].next \in Nat
    BY CallFacts
  <2>2. CASE n \in 1 .. call[h].next - 1
    BY <1>1, <2>2 DEF Clean
  <2>3. CASE n \notin 1 .. call[h].next - 1
    <3>1. n = call[h].next /\ Event(h) \in Published' \cup Anonymous
      BY <1>2, <2>1, <2>3
    <3> QED BY <3>1 DEF Event, OnTopic
  <2> QED BY <2>2, <2>3
<1>3. \A g \in Handlers : call'[g] # Idle =>
        /\ call'[g].conn = "up"
        /\ \A n \in 1 .. call'[g].next - 1 : <<call'[g].agent, n>> \in OnTopic'
  <2> SUFFICES ASSUME NEW g \in Handlers, call'[g] # Idle
               PROVE  /\ call'[g].conn = "up"
                      /\ \A n \in 1 .. call'[g].next - 1 : <<call'[g].agent, n>> \in OnTopic'
    OBVIOUS
  <2>1. CASE g = h
    BY <1>2, <2>1 DEF Clean
  <2>2. CASE g # h
    BY <1>1, <2>2 DEF Clean
  <2> QED BY <2>1, <2>2
<1>4. Cleared' \subseteq OnTopic'
  BY <1>1 DEF Clean, Cleared
<1> QED BY <1>3, <1>4 DEF Clean

LEMMA PlannedStep == ASSUME IInv, PlannedInv, [Next]_vars PROVE PlannedInv'
<1> SUFFICES ASSUME Planned' PROVE Clean'
  BY DEF PlannedInv
<1>1. Remembered /\ CollectorTypeOK /\ BatcherTypeOK /\ Kept
  BY StaysRemembered DEF IInv, TypeOK
<1>2. Clean
  BY <1>1 DEF PlannedInv, Planned, Remembered
<1>3. /\ "redis" \notin occurred' /\ "publish" \notin occurred'
      /\ "crash" \notin occurred' /\ "disconnect" \notin occurred'
      /\ \A a \in Agents : ~cancelled'[a]
  BY DEF Planned
<1>4. \A g \in Handlers : call[g] # Idle => call[g].conn = "up" /\ call[g].agent \in Agents
  BY <1>1, <1>2, CallFacts DEF Clean
<1>5. CASE QuietStep \/ \E e \in keys : ExpireKey(e) /\ UNCHANGED cleared
  <2>1. UNCHANGED <<call, log, unsettled, cleared>>
    BY <1>5 DEF QuietStep, ExpireKey
  <2>2. OnTopic' = OnTopic
    BY <2>1 DEF OnTopic, Published
  <2> QED BY <1>2, <2>1, <2>2 DEF Clean, Cleared
<1>6. ASSUME NEW a \in Agents, NEW h \in Handlers, NewRequest(a, h) PROVE Clean'
  <2> DEFINE c == [agent |-> a, next |-> cleared[a] + 1, last |-> taken'[a],
                   step |-> "check", conn |-> "up"]
  <2>1. /\ call' = [call EXCEPT ![h] = c] /\ UNCHANGED <<log, unsettled, cleared>>
        /\ c.conn = "up" /\ c.agent = a /\ c.next = cleared[a] + 1
    BY <1>6 DEF NewRequest
  <2> HIDE DEF c
  <2>2. call'[h] = c /\ \A g \in Handlers : g # h => call'[g] = call[g]
    BY <1>1, <2>1, OthersStay
  <2>3. OnTopic' = OnTopic
    BY <2>1 DEF OnTopic, Published
  <2>4. ASSUME NEW n \in 1 .. c.next - 1 PROVE <<a, n>> \in OnTopic
    <3>1. cleared[a] \in 0 .. EventCount
      BY <1>1 DEF BatcherTypeOK
    <3>2. n \in 1 .. EventCount /\ n <= cleared[a]
      BY <2>1, <2>4, <3>1, EventCountAssumption
    <3>3. <<a, n>> \in Cleared
      BY <3>2 DEF Cleared, Events
    <3> QED BY <1>2, <3>3 DEF Clean
  <2> QED BY <1>2, <2>1, <2>2, <2>3, <2>4 DEF Clean, Cleared
<1>7. ASSUME NEW a \in Agents, NEW h \in Handlers, Answer(a, h) PROVE Clean'
  <2>1. /\ call[h] # Idle /\ call[h].agent = a /\ call[h].next > call[h].last
        /\ call[h].last = taken[a] /\ UNCHANGED <<log, unsettled>>
    BY <1>1, <1>7 DEF Answer, Finish, Finished, Busy, Awaited, Kept, Joined
  <2>2. call'[h] = Idle /\ \A g \in Handlers : g # h => call'[g] = call[g]
    BY <1>1, <1>7, <2>1, CallsAfter DEF Answer
  <2>3. OnTopic' = OnTopic
    BY <2>1 DEF OnTopic, Published
  <2>4. cleared'[a] = taken[a] /\ \A b \in Agents : b # a => cleared'[b] = cleared[b]
    BY <1>1, <1>7 DEF Answer, FlushSucceeds, BatcherTypeOK
  <2>5. ASSUME NEW e \in Cleared' PROVE e \in OnTopic
    <3>1. e \in Events /\ e[1] \in Agents /\ e[2] \in 1 .. EventCount /\ e = <<e[1], e[2]>>
          /\ e[2] <= cleared'[e[1]]
      BY <2>5 DEF Cleared, Events
    <3>2. CASE e[1] = a
      <4>1. call[h].next \in Nat /\ taken[a] \in 0 .. EventCount
        BY <1>1, <2>1, CallFacts DEF BatcherTypeOK
      <4>2. e[2] \in 1 .. call[h].next - 1
        BY <2>1, <2>4, <3>1, <3>2, <4>1, EventCountAssumption
      <4> QED BY <1>2, <2>1, <3>1, <3>2, <4>2 DEF Clean
    <3>3. CASE e[1] # a
      <4>1. e \in Cleared
        BY <2>4, <3>1, <3>3 DEF Cleared
      <4> QED BY <1>2, <4>1 DEF Clean
    <3> QED BY <3>2, <3>3
  <2>6. \A g \in Handlers : call'[g] # Idle => call'[g] = call[g]
    BY <2>2
  <2>7. \A g \in Handlers : call'[g] # Idle =>
          /\ call'[g].conn = "up"
          /\ \A n \in 1 .. call'[g].next - 1 : <<call'[g].agent, n>> \in OnTopic'
    BY <1>2, <2>3, <2>6 DEF Clean
  <2> QED BY <1>2, <2>1, <2>3, <2>5, <2>7 DEF Clean
<1>8. ASSUME NEW h \in Handlers, HandlerStep(h), UNCHANGED cleared PROVE Clean'
  <2>1. CASE RejectAnonymous(h) \/ CheckDuplicate(h)
    <3>1. /\ call[h] # Idle /\ call[h].step = "check" /\ call[h].next <= call[h].last
          /\ NextEvent(h) /\ UNCHANGED <<log, unsettled>>
      BY <2>1 DEF RejectAnonymous, CheckDuplicate, Checking, Running, Busy
    <3>2. Published' = Published
      BY <3>1 DEF Published
    <3>3. CASE RejectAnonymous(h)
      <4>1. Event(h) \in Anonymous
        BY <3>3 DEF RejectAnonymous
      <4> QED BY <1>1, <1>2, <1>8, <3>1, <3>2, <4>1, CallsAfter, MovesOnCleanly
    <3>4. CASE CheckDuplicate(h)
      <4>1. Event(h) \in Published \cup InPublish
        BY <1>1, <1>2, <3>4 DEF CheckDuplicate, Kept, KeyIsAccounted, Clean
      <4>2. Event(h) \notin InPublish
        <5> SUFFICES ASSUME NEW g \in Handlers, call[g] # Idle, call[g].step = "publish",
                            Event(h) = <<call[g].agent, call[g].next>>
                     PROVE  FALSE
          BY InPublishIs
        <5>1. call[g].agent = call[h].agent /\ Awaited(g) /\ Awaited(h)
          BY <1>4, <3>1 DEF Event, Awaited
        <5>2. g = h
          BY <1>1, <5>1 DEF Kept, Joined
        <5> QED BY <3>1, <5>2
      <4> QED BY <1>1, <1>2, <1>8, <3>1, <3>2, <4>1, <4>2, CallsAfter, MovesOnCleanly
    <3> QED BY <2>1, <3>3, <3>4
  <2>2. CASE CheckSkipped(h) \/ CheckNew(h)
    <3>1. call[h] # Idle /\ ToPublish(h) /\ UNCHANGED <<log, unsettled>>
      BY <2>2 DEF CheckSkipped, CheckNew, Checking, Running, Busy
    <3>2. Published' = Published
      BY <3>1 DEF Published
    <3> QED BY <1>1, <1>2, <1>8, <3>1, <3>2, CallsAfter, MovesOnCleanly
  <2>3. ASSUME NEW copies \in 1 .. 2, PublishOk(h, copies) PROVE Clean'
    <3>1. /\ call[h] # Idle /\ call[h].next <= call[h].last
          /\ NextEvent(h) /\ Write(Event(h), copies) /\ UNCHANGED unsettled
      BY <2>3 DEF PublishOk, Running, Busy
    <3>2. Event(h) \in Events
      BY <1>1, <3>1, CallFacts
    <3>3. Published \subseteq Published' /\ Event(h) \in Published'
      BY <1>1, <3>1, <3>2, PublishedAfter
    <3> QED BY <1>1, <1>2, <1>8, <3>1, <3>3, CallsAfter, MovesOnCleanly
  <2>4. ~CheckError(h) \/ "redis" \notin occurred'
    BY <1>3
  <2>5. ~AcceptCancelled(h) /\ ~NoticeLoss(h)
    BY <1>4 DEF AcceptCancelled, NoticeLoss, Checking, Running, ContextCancelled, Busy
  <2>6. ~(PublishFail(h) /\ ContextCancelled(h))
    BY <1>4 DEF PublishFail, Running, ContextCancelled, Busy
  <2>7. ~(LoseClient(h) /\ cancelled'[call[h].agent])
    BY <1>3, <1>4 DEF LoseClient, Busy
  <2>8. ~(Finish(h) /\ call[h].conn # "up")
    BY <1>4 DEF Finish, Finished, Busy
  <2> QED BY <1>3, <1>8, <2>1, <2>2, <2>3, <2>5, <2>6, <2>7, <2>8 DEF HandlerStep
<1> QED BY <1>3, <1>5, <1>6, <1>7, <1>8, StepKinds

(* main.go:137: a collector that is told to stop interrupts no publish,    *)
(* and every event an agent forgets is in the topic, for any number of     *)
(* agents and handlers and whatever requests are lost on the way.          *)
THEOREM StoppingIsClean == Spec => []PlannedRestartIsClean
<1>1. Init => PlannedInv
  <2> SUFFICES ASSUME Init PROVE Clean
    BY DEF PlannedInv
  <2>1. \A e \in Events : ~(e[2] <= cleared[e[1]])
    BY EventCountAssumption DEF Init, BatcherInit, Events
  <2> QED BY <2>1 DEF Init, CollectorInit, Clean, Cleared
<1>2. IInv /\ PlannedInv /\ [Next]_vars => PlannedInv'
  BY PlannedStep
<1>3. PlannedInv => PlannedRestartIsClean
  BY DEF PlannedInv, Planned, Clean, PlannedRestartIsClean, OnTopic
<1> QED BY <1>1, <1>2, <1>3, InvariantHolds, PTL DEF Spec

-----------------------------------------------------------------------------
(* Order.  As long as no agent lost a response, an agent's calls follow    *)
(* each other, and what a call finds in the topic is either behind it or   *)
(* known by its keys.                                                      *)
Mine(a, h) == call[h] # Idle /\ call[h].agent = a
Alone(a) == "disconnect" \notin occurred /\ ~cancelled[a]
Remembering(a) == Alone(a) /\ "redis" \notin occurred /\ "expire" \notin occurred
Undisturbed(a) == Alone(a) /\ "crash" \notin occurred

(* A call works on events its agent still holds. *)
Advancing ==
    \A h \in Handlers : Awaited(h) =>
        cleared[call[h].agent] < call[h].next /\ call[h].next <= call[h].last + 1

Served == \A a \in Agents : Alone(a) => \A h \in Handlers : Mine(a, h) => call[h].conn = "up"

RedisUp == "redis" \notin occurred => dedup

CallInv == IInv /\ Advancing /\ Served /\ RedisUp

(* A handler's step moves no other call, and its own only forward. *)
LEMMA HandlerMoves ==
    ASSUME CollectorTypeOK, NEW h \in Handlers, HandlerStep(h)
    PROVE  /\ call[h] # Idle /\ \A g \in Handlers : g # h => call'[g] = call[g]
           /\ \/ call'[h] = Idle
              \/ /\ call'[h] # Idle /\ call'[h].agent = call[h].agent /\ call'[h].last = call[h].last
                 /\ \/ call'[h].conn = call[h].conn
                    \/ NoticeLoss(h)
                    \/ LoseClient(h) /\ ("disconnect" \in occurred' \/ cancelled'[call[h].agent])
                 /\ \/ call'[h].next = call[h].next
                    \/ call'[h].next = call[h].next + 1 /\ call[h].next <= call[h].last
<1>1. CASE \/ RejectAnonymous(h) \/ CheckDuplicate(h) \/ AcceptCancelled(h)
           \/ PublishOk(h, 1) \/ PublishOk(h, 2) \/ PublishFail(h)
  <2>1. call[h] # Idle /\ call[h].next <= call[h].last /\ NextEvent(h)
    BY <1>1 DEF RejectAnonymous, CheckDuplicate, AcceptCancelled, PublishOk, PublishFail,
                Checking, Running, Busy
  <2> QED BY <2>1, CallsAfter
<1>2. CASE CheckSkipped(h) \/ CheckNew(h) \/ CheckError(h)
  <2>1. call[h] # Idle /\ ToPublish(h)
    BY <1>2 DEF CheckSkipped, CheckNew, CheckError, Checking, Running, Busy
  <2> QED BY <2>1, CallsAfter
<1>3. CASE \/ LoseClient(h) /\ ("disconnect" \in occurred' \/ cancelled'[call[h].agent])
           \/ NoticeLoss(h)
  <2>1. call[h] # Idle
    BY <1>3 DEF LoseClient, NoticeLoss, Busy
  <2> QED BY <1>3, <2>1, CallsAfter
<1>4. CASE Finish(h)
  <2>1. call[h] # Idle
    BY <1>4 DEF Finish, Finished, Busy
  <2> QED BY <1>4, <2>1, CallsAfter
<1> QED BY <1>1, <1>2, <1>3, <1>4 DEF HandlerStep

LEMMA AdvancingStep == ASSUME CallInv, [Next]_vars PROVE Advancing'
<1>1. CollectorTypeOK /\ BatcherTypeOK /\ Kept /\ Advancing
  BY DEF CallInv, IInv, TypeOK
<1> SUFFICES ASSUME NEW g \in Handlers, Awaited(g)'
             PROVE  /\ cleared'[call'[g].agent] < call'[g].next
                    /\ call'[g].next <= call'[g].last + 1
  BY DEF Advancing
<1>2. ASSUME call'[g] = call[g], cleared'[call[g].agent] = cleared[call[g].agent]
      PROVE  /\ cleared'[call'[g].agent] < call'[g].next
             /\ call'[g].next <= call'[g].last + 1
  BY <1>1, <1>2 DEF Advancing, Awaited
<1>3. CASE QuietStep
  BY <1>2, <1>3 DEF QuietStep
<1>4. ASSUME NEW a \in Agents, NEW h \in Handlers, NewRequest(a, h)
      PROVE  /\ cleared'[call'[g].agent] < call'[g].next
             /\ call'[g].next <= call'[g].last + 1
  <2> DEFINE c == [agent |-> a, next |-> cleared[a] + 1, last |-> taken'[a],
                   step |-> "check", conn |-> "up"]
  <2>1. /\ call' = [call EXCEPT ![h] = c] /\ cleared' = cleared
        /\ c.agent = a /\ c.next = cleared[a] + 1 /\ c.last = taken'[a]
    BY <1>4 DEF NewRequest
  <2> HIDE DEF c
  <2>2. call'[h] = c /\ (g # h => call'[g] = call[g])
    BY <1>1, <2>1, OthersStay
  <2>3. cleared[a] \in Nat /\ taken'[a] \in Nat /\ cleared[a] <= taken'[a]
    <3>1. BatcherTypeOK'
      BY StepKeeps DEF CallInv, IInv, TypeOK
    <3>2. cleared'[a] \in 0 .. EventCount /\ taken'[a] \in 0 .. EventCount /\ cleared'[a] <= taken'[a]
      BY <3>1 DEF BatcherTypeOK
    <3> QED BY <2>1, <3>2, EventCountAssumption
  <2>4. CASE g = h
    BY <2>1, <2>2, <2>3, <2>4
  <2> QED BY <1>2, <2>1, <2>2, <2>4
<1>5. ASSUME NEW a \in Agents, NEW h \in Handlers, Answer(a, h)
      PROVE  /\ cleared'[call'[g].agent] < call'[g].next
             /\ call'[g].next <= call'[g].last + 1
  <2>1. Awaited(h) /\ call[h].agent = a /\ call[h] # Idle
    BY <1>5 DEF Answer, Awaited
  <2>2. call'[h] = Idle /\ (g # h => call'[g] = call[g])
    BY <1>1, <1>5, <2>1, CallsAfter DEF Answer
  <2>3. g # h /\ call'[g] = call[g] /\ Awaited(g)
    BY <2>2 DEF Awaited
  <2>4. call[g].agent # a /\ call[g].agent \in Agents
    BY <1>1, <2>1, <2>3, CallFacts DEF Kept, Joined, Awaited
  <2>5. cleared'[call[g].agent] = cleared[call[g].agent]
    BY <1>1, <1>5, <2>4 DEF Answer, FlushSucceeds, BatcherTypeOK
  <2> QED BY <1>2, <2>3, <2>5
<1>6. ASSUME NEW h \in Handlers, HandlerStep(h), cleared' = cleared
      PROVE  /\ cleared'[call'[g].agent] < call'[g].next
             /\ call'[g].next <= call'[g].last + 1
  <2>1. CASE g # h
    BY <1>1, <1>2, <1>6, <2>1, HandlerMoves
  <2>2. CASE g = h
    <3>1. /\ call[h] # Idle /\ call'[h].agent = call[h].agent /\ call'[h].last = call[h].last
          /\ Awaited(h)
          /\ \/ call'[h].next = call[h].next
             \/ call'[h].next = call[h].next + 1 /\ call[h].next <= call[h].last
      BY <1>1, <1>6, <2>2, HandlerMoves, CallsAfter DEF Awaited
    <3>2. /\ cleared[call[h].agent] < call[h].next /\ call[h].next <= call[h].last + 1
          /\ call[h].next \in Nat /\ call[h].last \in Nat /\ cleared[call[h].agent] \in Nat
      BY <1>1, <3>1, CallFacts DEF Advancing, BatcherTypeOK
    <3> QED BY <1>6, <2>2, <3>1, <3>2
  <2> QED BY <2>1, <2>2
<1>7. CASE \E e \in keys : ExpireKey(e) /\ UNCHANGED cleared
  BY <1>2, <1>7 DEF ExpireKey
<1>8. CASE CollectorCrash
  BY <1>8 DEF CollectorCrash, Awaited
<1> QED BY <1>3, <1>4, <1>5, <1>6, <1>7, <1>8, StepKinds DEF CallInv

LEMMA AloneBefore == ASSUME Remembered, NEW a \in Agents, Alone(a)' PROVE Alone(a)
BY DEF Remembered, Alone

LEMMA ServedStep == ASSUME CallInv, [Next]_vars PROVE Served'
<1> SUFFICES ASSUME NEW a \in Agents, Alone(a)', NEW g \in Handlers, Mine(a, g)'
             PROVE  call'[g].conn = "up"
  BY DEF Served
<1>1. CollectorTypeOK /\ Alone(a) /\ \A h \in Handlers : Mine(a, h) => call[h].conn = "up"
  BY StaysRemembered, AloneBefore DEF CallInv, IInv, TypeOK, Served
<1>2. "disconnect" \notin occurred' /\ ~cancelled'[a]
  BY DEF Alone
<1>3. ASSUME call'[g] = call[g] PROVE call'[g].conn = "up"
  BY <1>1, <1>3 DEF Mine
<1>4. ASSUME NEW b \in Agents, NEW h \in Handlers, NewRequest(b, h) PROVE call'[g].conn = "up"
  <2> DEFINE c == [agent |-> b, next |-> cleared[b] + 1, last |-> taken'[b],
                   step |-> "check", conn |-> "up"]
  <2>1. call' = [call EXCEPT ![h] = c] /\ c.conn = "up"
    BY <1>4 DEF NewRequest
  <2> HIDE DEF c
  <2>2. call'[h] = c /\ (g # h => call'[g] = call[g])
    BY <1>1, <2>1, OthersStay
  <2> QED BY <1>3, <2>1, <2>2
<1>5. ASSUME NEW b \in Agents, NEW h \in Handlers, Answer(b, h) PROVE call'[g].conn = "up"
  <2>1. call'[h] = Idle /\ (g # h => call'[g] = call[g])
    BY <1>1, <1>5, CallsAfter DEF Answer, Awaited
  <2> QED BY <1>3, <2>1 DEF Mine
<1>6. ASSUME NEW h \in Handlers, HandlerStep(h) PROVE call'[g].conn = "up"
  <2>1. CASE g # h
    BY <1>1, <1>3, <1>6, <2>1, HandlerMoves
  <2>2. CASE g = h
    <3>1. Mine(a, h) /\ call[h].conn = "up" /\ call[h].agent = a
      BY <1>1, <1>6, <2>2, HandlerMoves DEF Mine
    <3>2. ~NoticeLoss(h)
      BY <3>1 DEF NoticeLoss
    <3> QED BY <1>1, <1>2, <1>6, <2>2, <3>1, <3>2, HandlerMoves DEF Mine
  <2> QED BY <2>1, <2>2
<1>7. CASE QuietStep \/ \E e \in keys : ExpireKey(e)
  BY <1>3, <1>7 DEF QuietStep, ExpireKey
<1>8. CASE CollectorCrash
  BY <1>8 DEF CollectorCrash, Mine
<1> QED BY <1>4, <1>5, <1>6, <1>7, <1>8, StepKinds DEF CallInv

LEMMA RedisUpStep == ASSUME CallInv, [Next]_vars PROVE RedisUp'
<1> SUFFICES ASSUME "redis" \notin occurred' PROVE dedup'
  BY DEF RedisUp
<1>1. dedup
  BY StaysRemembered DEF CallInv, RedisUp, Remembered
<1>2. dedup' = dedup \/ dedup'
  BY StepKinds
  DEF CallInv, QuietStep, NewRequest, Answer, HandlerStep, Finish, RejectAnonymous, CheckSkipped,
      CheckNew, CheckDuplicate, CheckError, AcceptCancelled, PublishOk, PublishFail, LoseClient,
      NoticeLoss, ExpireKey, CollectorCrash
<1> QED BY <1>1, <1>2

LEMMA CallStep == ASSUME CallInv, [Next]_vars PROVE CallInv'
BY StepKeeps, AdvancingStep, ServedStep, RedisUpStep DEF CallInv

LEMMA CallInitially == Init => CallInv
<1> SUFFICES ASSUME Init PROVE CallInv
  OBVIOUS
<1>1. IInv
  BY InitHolds
<1>2. \A h \in Handlers : call[h] = Idle
  BY DEF Init, CollectorInit
<1>3. RedisUp
  BY DEF Init, RedisUp
<1> QED BY <1>1, <1>2, <1>3 DEF CallInv, Advancing, Awaited, Served, Mine

-----------------------------------------------------------------------------
(* What a step is to one agent that lost no response.                      *)
OnlyMoves(h) == \A g \in Handlers : g # h => call'[g] = call[g]

(* Somewhere else, or to the agent's sources: its keys stay unless one     *)
(* expires, its calls unless the collector dies.                           *)
Elsewhere(a) ==
    /\ log'[a] = log[a] /\ cleared'[a] = cleared[a]
    /\ keys \subseteq keys' \/ "expire" \in occurred'
    /\ \A g \in Handlers : call'[g] = call[g] \/ (~Mine(a, g) /\ ~Mine(a, g)') \/ call'[g] = Idle
    /\ (\A g \in Handlers : Mine(a, g) => call'[g] = call[g]) \/ "crash" \in occurred'

Starts(a, h) ==
    /\ \A g \in Handlers : ~Mine(a, g)
    /\ OnlyMoves(h)
    /\ call'[h].next = cleared[a] + 1 /\ call'[h].step = "check"
    /\ log'[a] = log[a] /\ cleared'[a] = cleared[a] /\ keys' = keys

Ends(a, h) ==
    /\ Mine(a, h) /\ call'[h] = Idle /\ OnlyMoves(h)
    /\ cleared'[a] = call[h].next - 1
    /\ log'[a] = log[a] /\ keys' = keys

(* The call of a goes on, after an event that is no news, to the publish   *)
(* of one that is, or after that publish.                                  *)
Passes(a, h) ==
    /\ call'[h].next = call[h].next + 1 /\ call'[h].step = "check"
    /\ Event(h) \in keys \cup Anonymous
    /\ log'[a] = log[a] /\ keys' = keys

Decides(a, h) ==
    /\ call'[h].next = call[h].next /\ Event(h) \notin Anonymous
    /\ keys \subseteq keys' /\ log'[a] = log[a]
    /\ \/ Event(h) \notin keys /\ Event(h) \in keys'
       \/ "redis" \in occurred'

Writes(a, h) ==
    /\ Publishing(h) /\ call'[h].next = call[h].next + 1 /\ call'[h].step = "check"
    /\ \E copies \in 0 .. 2 : Write(Event(h), copies)
    /\ keys' = keys

GoesOn(a, h) ==
    /\ Mine(a, h) /\ Mine(a, h)' /\ OnlyMoves(h) /\ cleared'[a] = cleared[a]
    /\ Passes(a, h) \/ Decides(a, h) \/ Writes(a, h)

(* An agent that lost no response waits for each of its calls, for one.    *)
LEMMA OneCall ==
    ASSUME CallInv, NEW a \in Agents, Alone(a), NEW g \in Handlers, NEW h \in Handlers,
           Mine(a, g), Mine(a, h)
    PROVE  g = h
<1>1. Awaited(g) /\ Awaited(h)
  BY DEF CallInv, Served, Mine, Awaited
<1> QED BY <1>1 DEF CallInv, IInv, Kept, Joined, Mine

LEMMA MyHandler ==
    ASSUME CallInv, Remembered, NEW a \in Agents, Alone(a)', NEW h \in Handlers,
           Mine(a, h), HandlerStep(h), UNCHANGED cleared
    PROVE  GoesOn(a, h)
<1>1. CollectorTypeOK /\ Alone(a) /\ call[h].conn = "up" /\ call[h] # Idle /\ call[h].agent = a
  BY AloneBefore DEF CallInv, IInv, TypeOK, Served, Mine
<1>2. OnlyMoves(h)
  BY <1>1, HandlerMoves DEF OnlyMoves
<1>3. "disconnect" \notin occurred' /\ ~cancelled'[a]
  BY DEF Alone
<1>4. CASE RejectAnonymous(h) \/ CheckDuplicate(h)
  <2>1. /\ call[h].next <= call[h].last /\ NextEvent(h) /\ UNCHANGED <<log, keys>>
        /\ Event(h) \in keys \cup Anonymous
    BY <1>4 DEF RejectAnonymous, CheckDuplicate, Checking, Running
  <2>2. Mine(a, h)' /\ call'[h].next = call[h].next + 1 /\ call'[h].step = "check"
    BY <1>1, <2>1, CallsAfter DEF Mine
  <2> QED BY <1>2, <2>1, <2>2 DEF GoesOn, Passes
<1>5. CASE \/ CheckSkipped(h) \/ CheckNew(h)
           \/ CheckError(h) /\ "redis" \in occurred'
  <2>1. /\ ToPublish(h) /\ UNCHANGED log /\ keys \subseteq keys' /\ Event(h) \notin Anonymous
    BY <1>5 DEF CheckSkipped, CheckNew, CheckError, Checking
  <2>2. (Event(h) \notin keys /\ Event(h) \in keys') \/ "redis" \in occurred'
    BY <1>5 DEF CheckSkipped, CheckNew, CallInv, RedisUp, Remembered
  <2>3. Mine(a, h)' /\ call'[h].next = call[h].next
    BY <1>1, <2>1, CallsAfter DEF Mine
  <2> QED BY <1>2, <2>1, <2>2, <2>3 DEF GoesOn, Decides
<1>6. CASE PublishOk(h, 1) \/ PublishOk(h, 2) \/ PublishFail(h)
  <2>1. /\ call[h].next <= call[h].last /\ NextEvent(h) /\ UNCHANGED keys /\ Publishing(h)
        /\ \E copies \in 0 .. 2 : Write(Event(h), copies)
    BY <1>6 DEF PublishOk, PublishFail, Running, Publishing
  <2>2. Mine(a, h)' /\ call'[h].next = call[h].next + 1 /\ call'[h].step = "check"
    BY <1>1, <2>1, CallsAfter DEF Mine
  <2> QED BY <1>2, <2>1, <2>2 DEF GoesOn, Writes
<1>7. ~AcceptCancelled(h) /\ ~NoticeLoss(h)
  BY <1>1 DEF AcceptCancelled, ContextCancelled, NoticeLoss
<1> QED BY <1>1, <1>3, <1>4, <1>5, <1>6, <1>7 DEF HandlerStep

LEMMA OtherHandler ==
    ASSUME CallInv, NEW a \in Agents, NEW h \in Handlers,
           ~Mine(a, h), HandlerStep(h), UNCHANGED cleared
    PROVE  Elsewhere(a)
<1>1. CollectorTypeOK /\ call[h] # Idle /\ call[h].agent # a /\ ~Mine(a, h)'
      /\ \A g \in Handlers : g # h => call'[g] = call[g]
  BY HandlerMoves DEF CallInv, IInv, TypeOK, Mine
<1>2. log'[a] = log[a]
  <2>1. CASE UNCHANGED log
    BY <2>1
  <2>2. ASSUME NEW copies \in 0 .. 2, Write(Event(h), copies), call[h].next <= call[h].last
        PROVE  log'[a] = log[a]
    <3>1. Event(h) \in Events /\ Event(h)[1] # a
      BY <1>1, <2>2, CallFacts DEF Event
    <3> QED BY <1>1, <2>2, <3>1, LogAfter
  <2> QED BY <2>1, <2>2 DEF HandlerStep, RejectAnonymous, CheckSkipped, CheckNew, CheckDuplicate,
          CheckError, AcceptCancelled, PublishOk, PublishFail, LoseClient, NoticeLoss, Finish,
          Running
<1>3. keys \subseteq keys'
  BY DEF HandlerStep, RejectAnonymous, CheckSkipped, CheckNew, CheckDuplicate,
         CheckError, AcceptCancelled, PublishOk, PublishFail, LoseClient, NoticeLoss, Finish
<1> QED BY <1>1, <1>2, <1>3 DEF Elsewhere

LEMMA AgentView ==
    ASSUME CallInv, [Next]_vars, NEW a \in Agents, Alone(a)'
    PROVE  \/ Elsewhere(a)
           \/ \E h \in Handlers : Starts(a, h) \/ Ends(a, h) \/ GoesOn(a, h)
<1>1. Remembered /\ CollectorTypeOK /\ BatcherTypeOK /\ Kept /\ Alone(a)
  BY StaysRemembered, AloneBefore DEF CallInv, IInv, TypeOK
<1>2. CASE QuietStep
  BY <1>2 DEF QuietStep, Elsewhere
<1>3. ASSUME NEW b \in Agents, NEW h \in Handlers, NewRequest(b, h)
      PROVE  Elsewhere(a) \/ Starts(a, h)
  <2> DEFINE c == [agent |-> b, next |-> cleared[b] + 1, last |-> taken'[b],
                   step |-> "check", conn |-> "up"]
  <2>1. /\ call' = [call EXCEPT ![h] = c] /\ UNCHANGED <<log, keys, cleared>>
        /\ c.agent = b /\ c.next = cleared[b] + 1 /\ c.step = "check"
    BY <1>3 DEF NewRequest
  <2> HIDE DEF c
  <2>2. call'[h] = c /\ \A g \in Handlers : g # h => call'[g] = call[g]
    BY <1>1, <2>1, OthersStay
  <2>3. CASE b = a
    <3>1. \A g \in Handlers : ~Mine(a, g)
      BY <1>1, <1>3, <2>3 DEF CallInv, Served, Mine, NewRequest, Awaited
    <3> QED BY <2>1, <2>2, <2>3, <3>1 DEF Starts, OnlyMoves
  <2>4. CASE b # a
    <3>1. ~Mine(a, h) /\ ~Mine(a, h)'
      BY <1>3, <2>1, <2>2, <2>4 DEF Mine, NewRequest
    <3> QED BY <2>1, <2>2, <3>1 DEF Elsewhere
  <2> QED BY <2>3, <2>4
<1>4. ASSUME NEW b \in Agents, NEW h \in Handlers, Answer(b, h)
      PROVE  Elsewhere(a) \/ Ends(a, h)
  <2>1. /\ Awaited(h) /\ call[h] # Idle /\ call[h].agent = b /\ call[h].next > call[h].last
        /\ UNCHANGED <<log, keys>> /\ call[h].last = taken[b]
    BY <1>1, <1>4 DEF Answer, Awaited, Finish, Finished, Kept, Joined
  <2>2. call'[h] = Idle /\ \A g \in Handlers : g # h => call'[g] = call[g]
    BY <1>1, <1>4, <2>1, CallsAfter DEF Answer
  <2>3. cleared'[b] = taken[b] /\ (a # b => cleared'[a] = cleared[a])
    BY <1>1, <1>4 DEF Answer, FlushSucceeds, BatcherTypeOK
  <2>4. cleared'[b] = call[h].next - 1
    <3>1. call[h].next <= call[h].last + 1 /\ call[h].next \in Nat /\ call[h].last \in Nat
      BY <1>1, <2>1, CallFacts DEF CallInv, Advancing
    <3> QED BY <2>1, <2>3, <3>1
  <2>5. CASE b = a
    BY <2>1, <2>2, <2>4, <2>5 DEF Ends, Mine, OnlyMoves
  <2>6. CASE b # a
    BY <2>1, <2>2, <2>3, <2>6 DEF Elsewhere, Mine
  <2> QED BY <2>5, <2>6
<1>5. ASSUME NEW h \in Handlers, HandlerStep(h), UNCHANGED cleared
      PROVE  Elsewhere(a) \/ GoesOn(a, h)
  BY <1>1, <1>5, MyHandler, OtherHandler
<1>6. CASE \E e \in keys : ExpireKey(e) /\ "expire" \in occurred' /\ UNCHANGED cleared
  BY <1>6 DEF ExpireKey, Elsewhere
<1>7. CASE CollectorCrash /\ "crash" \in occurred' /\ UNCHANGED cleared
  BY <1>7 DEF CollectorCrash, Elsewhere
<1> QED BY <1>2, <1>3, <1>4, <1>5, <1>6, <1>7, StepKinds DEF CallInv

-----------------------------------------------------------------------------
(* What orders an agent's part of the topic. *)
KnownUpTo(a, n) == \A m \in 1 .. n : <<a, m>> \in keys \cup Anonymous

(* With its keys intact, all that an agent's calls have passed is known. *)
Known(a) ==
    /\ KnownUpTo(a, cleared[a])
    /\ \A h \in Handlers : Mine(a, h) =>
        /\ KnownUpTo(a, call[h].next - 1)
        /\ Publishing(h) => Event(h) \in keys
    /\ \A i \in DOMAIN log[a] : KnownUpTo(a, log[a][i])

(* Without a crash, its call is beyond all that is in the topic. *)
Behind(a) ==
    \A i \in DOMAIN log[a] :
        log[a][i] <= cleared[a] \/ \E h \in Handlers : Mine(a, h) /\ log[a][i] < call[h].next

Ascending(a) ==
    /\ \A h \in Handlers : Mine(a, h) /\ Publishing(h) =>
        \A i \in DOMAIN log[a] : log[a][i] <= call[h].next
    /\ \A i, j \in DOMAIN log[a] : i < j => log[a][i] <= log[a][j]

OrderInv ==
    \A a \in Agents :
        /\ Remembering(a) => Known(a)
        /\ Undisturbed(a) => Behind(a)
        /\ Remembering(a) \/ Undisturbed(a) => Ascending(a)

(* The topic of an agent after one of its writes: numbers, the last new.   *)
LEMMA MyWrite ==
    ASSUME CallInv, NEW a \in Agents, NEW h \in Handlers, Mine(a, h), Writes(a, h)
    PROVE  /\ \A i \in DOMAIN log'[a] : \/ log'[a][i] = call[h].next
                                        \/ i \in DOMAIN log[a] /\ log'[a][i] = log[a][i]
           /\ \A i, j \in DOMAIN log'[a] :
                i < j /\ j \in DOMAIN log[a] => i \in DOMAIN log[a] /\ log'[a][i] = log[a][i]
<1>1. CollectorTypeOK /\ call[h] # Idle /\ call[h].agent = a /\ call[h].next <= call[h].last
  BY DEF CallInv, IInv, TypeOK, Mine, Writes, Publishing, Running
<1>2. PICK copies \in 0 .. 2 : Write(Event(h), copies)
  BY DEF Writes
<1>3. Event(h) \in Events /\ Event(h)[1] = a /\ Event(h)[2] = call[h].next
  BY <1>1, CallFacts DEF Event
<1>4. /\ log[a] \in Seq(1 .. EventCount) /\ log'[a] \in Seq(1 .. EventCount)
      /\ \A i \in 1 .. Len(log[a]) : log'[a][i] = log[a][i]
      /\ \A i \in Len(log[a]) + 1 .. Len(log'[a]) : log'[a][i] = call[h].next
  BY <1>1, <1>2, <1>3, LogAfter
<1> DEFINE old == log[a]
           new == log'[a]
<1>5. /\ DOMAIN old = 1 .. Len(old) /\ DOMAIN new = 1 .. Len(new)
      /\ Len(old) \in Nat /\ Len(new) \in Nat
  BY <1>4
<1> HIDE DEF old, new
<1>6. \A i \in DOMAIN new : i \in DOMAIN old \/ i \in Len(old) + 1 .. Len(new)
  BY <1>5
<1>7. \A i, j \in DOMAIN new : i < j /\ j \in DOMAIN old => i \in DOMAIN old
  BY <1>5
<1> QED BY <1>4, <1>5, <1>6, <1>7 DEF old, new

LEMMA ElementsOf == ASSUME NEW S, NEW s \in Seq(S) PROVE \A i \in DOMAIN s : s[i] \in S
OBVIOUS

(* Everything an order argument needs to know of the numbers. *)
LEMMA Numbers ==
    ASSUME CallInv, NEW a \in Agents
    PROVE  /\ cleared[a] \in Nat
           /\ \A i \in DOMAIN log[a] : log[a][i] \in Nat
           /\ \A h \in Handlers : Mine(a, h) =>
                /\ call[h].next \in Nat /\ call[h].next >= 1
                /\ Event(h) = <<a, call[h].next>>
           /\ \A h \in Handlers : Mine(a, h) /\ Alone(a) => cleared[a] < call[h].next
<1>1. CollectorTypeOK /\ BatcherTypeOK /\ Advancing /\ Served
  BY DEF CallInv, IInv, TypeOK
<1>2. cleared[a] \in Nat
  BY <1>1 DEF BatcherTypeOK
<1>3. \A i \in DOMAIN log[a] : log[a][i] \in Nat
  <2>1. log[a] \in Seq(1 .. EventCount)
    BY <1>1 DEF CollectorTypeOK
  <2>2. \A i \in DOMAIN log[a] : log[a][i] \in 1 .. EventCount
    BY <2>1, ElementsOf
  <2> QED BY <2>2
<1>4. ASSUME NEW h \in Handlers, Mine(a, h)
      PROVE  /\ call[h].next \in Nat /\ call[h].next >= 1
             /\ Event(h) = <<a, call[h].next>>
             /\ Alone(a) => cleared[a] < call[h].next
  <2>1. call[h].next \in 1 .. EventCount + 1
    BY <1>1, <1>4, CallFacts DEF Mine
  <2>2. Event(h) = <<a, call[h].next>>
    BY <1>4 DEF Event, Mine
  <2>3. Alone(a) => cleared[a] < call[h].next
    BY <1>1, <1>4 DEF Advancing, Served, Awaited, Mine
  <2> QED BY <2>1, <2>2, <2>3
<1> QED BY <1>2, <1>3, <1>4

LEMMA PublishingIs ==
    ASSUME NEW h \in Handlers
    PROVE  /\ Publishing(h) <=>
                call[h] # Idle /\ call[h].step = "publish" /\ call[h].next <= call[h].last
           /\ Publishing(h)' <=>
                call'[h] # Idle /\ call'[h].step = "publish" /\ call'[h].next <= call'[h].last
BY DEF Publishing, Running, Busy

LEMMA KnownStep ==
    ASSUME CallInv, [Next]_vars, NEW a \in Agents, Remembering(a)', Known(a)
    PROVE  Known(a)'
<1>1. /\ Alone(a)' /\ Alone(a)
      /\ "redis" \notin occurred' /\ "expire" \notin occurred'
  BY StaysRemembered, AloneBefore DEF Remembering, CallInv
<1>2. CASE Elsewhere(a)
  <2>1. keys \subseteq keys' /\ log'[a] = log[a] /\ cleared'[a] = cleared[a]
    BY <1>1, <1>2 DEF Elsewhere
  <2>2. ASSUME NEW g \in Handlers, Mine(a, g)'
        PROVE  KnownUpTo(a, call[g].next - 1)' /\ (Publishing(g)' => Event(g)' \in keys')
    <3>1. call'[g] = call[g]
      BY <1>2, <2>2 DEF Elsewhere, Mine
    <3>2. Mine(a, g) /\ Event(g)' = Event(g) /\ (Publishing(g)' <=> Publishing(g))
      BY <2>2, <3>1, PublishingIs DEF Mine, Event
    <3> QED BY <2>1, <3>1, <3>2 DEF Known, KnownUpTo
  <2> QED BY <2>1, <2>2 DEF Known, KnownUpTo
<1>3. ASSUME NEW h \in Handlers, Starts(a, h) PROVE Known(a)'
  <2>1. \A g \in Handlers : Mine(a, g)' => g = h
    BY <1>3 DEF Starts, OnlyMoves, Mine
  <2>2. ~Publishing(h)' /\ call'[h].next - 1 = cleared[a]
    BY <1>3, PublishingIs, Numbers DEF Starts
  <2> QED BY <1>3, <2>1, <2>2 DEF Known, KnownUpTo, Starts
<1>4. ASSUME NEW h \in Handlers, Ends(a, h) PROVE Known(a)'
  <2>1. \A g \in Handlers : Mine(a, g)' => Mine(a, g) /\ call'[g] = call[g]
    BY <1>4 DEF Ends, OnlyMoves, Mine
  <2>2. \A g \in Handlers : ~Mine(a, g)'
    BY <1>1, <1>4, <2>1, OneCall DEF Ends, Mine
  <2>3. cleared'[a] = call[h].next - 1 /\ Mine(a, h) /\ log'[a] = log[a] /\ keys' = keys
    BY <1>4 DEF Ends
  <2> QED BY <2>2, <2>3 DEF Known, KnownUpTo
<1>5. ASSUME NEW h \in Handlers, GoesOn(a, h) PROVE Known(a)'
  <2>1. /\ Mine(a, h) /\ cleared'[a] = cleared[a]
        /\ \A g \in Handlers : Mine(a, g)' => g = h
    <3>1. \A g \in Handlers : Mine(a, g)' /\ g # h => Mine(a, g)
      BY <1>5 DEF GoesOn, OnlyMoves, Mine
    <3> QED BY <1>1, <1>5, <3>1, OneCall DEF GoesOn
  <2>2. keys \subseteq keys'
    BY <1>5 DEF GoesOn, Passes, Decides, Writes
  <2>3. \/ /\ call'[h].next = call[h].next + 1 /\ ~Publishing(h)'
           /\ Event(h) \in keys \cup Anonymous
        \/ call'[h].next = call[h].next /\ Event(h)' \in keys'
    <3>1. CASE Passes(a, h)
      BY <3>1, PublishingIs DEF Passes
    <3>2. CASE Decides(a, h)
      <4>1. Event(h)' = Event(h)
        BY <1>5, <2>1, <3>2 DEF Decides, GoesOn, Mine, Event
      <4> QED BY <1>1, <3>2, <4>1 DEF Decides
    <3>3. CASE Writes(a, h)
      BY <2>1, <3>3, PublishingIs DEF Writes, Known
    <3> QED BY <1>5, <3>1, <3>2, <3>3 DEF GoesOn
  <2>4. KnownUpTo(a, call[h].next - 1) /\ call[h].next \in Nat /\ call[h].next >= 1
        /\ Event(h) = <<a, call[h].next>>
    BY <2>1, Numbers DEF Known
  <2>5. KnownUpTo(a, call[h].next - 1)' /\ (Publishing(h)' => Event(h)' \in keys')
    <3>1. CASE /\ call'[h].next = call[h].next + 1 /\ ~Publishing(h)'
               /\ Event(h) \in keys \cup Anonymous
      <4>1. ASSUME NEW m \in 1 .. call'[h].next - 1 PROVE <<a, m>> \in keys \cup Anonymous
        <5>1. m \in 1 .. call[h].next - 1 \/ m = call[h].next
          BY <2>4, <3>1, <4>1
        <5> QED BY <2>4, <3>1, <5>1 DEF KnownUpTo
      <4> QED BY <2>2, <3>1, <4>1 DEF KnownUpTo
    <3>2. CASE call'[h].next = call[h].next /\ Event(h)' \in keys'
      BY <2>2, <2>4, <3>2 DEF KnownUpTo
    <3> QED BY <2>3, <3>1, <3>2
  <2>6. ASSUME NEW i \in DOMAIN log'[a] PROVE KnownUpTo(a, log[a][i])'
    <3>1. CASE log'[a] = log[a]
      BY <2>2, <2>6, <3>1 DEF Known, KnownUpTo
    <3>2. CASE Writes(a, h)
      <4>1. CASE i \in DOMAIN log[a] /\ log'[a][i] = log[a][i]
        BY <2>2, <4>1 DEF Known, KnownUpTo
      <4>2. CASE log'[a][i] = call[h].next
        <5>1. Event(h) \in keys
          BY <2>1, <3>2 DEF Known, Writes
        <5>2. \A m \in 1 .. call[h].next : m \in 1 .. call[h].next - 1 \/ m = call[h].next
          BY <2>4
        <5> QED BY <2>2, <2>4, <4>2, <5>1, <5>2 DEF KnownUpTo
      <4> QED BY <2>1, <2>6, <3>2, <4>1, <4>2, MyWrite
    <3> QED BY <1>5, <3>1, <3>2 DEF GoesOn, Passes, Decides
  <2>7. KnownUpTo(a, cleared[a])'
    BY <2>1, <2>2 DEF Known, KnownUpTo
  <2> QED BY <2>1, <2>5, <2>6, <2>7 DEF Known
<1> QED BY <1>1, <1>2, <1>3, <1>4, <1>5, AgentView

LEMMA BehindStep ==
    ASSUME CallInv, [Next]_vars, NEW a \in Agents, Undisturbed(a)', Behind(a)
    PROVE  Behind(a)'
<1>1. Alone(a)' /\ Alone(a) /\ "crash" \notin occurred'
  BY StaysRemembered, AloneBefore DEF Undisturbed, CallInv
<1>2. CASE Elsewhere(a)
  <2>1. log'[a] = log[a] /\ cleared'[a] = cleared[a]
        /\ \A g \in Handlers : Mine(a, g) => call'[g] = call[g]
    BY <1>1, <1>2 DEF Elsewhere
  <2> QED BY <2>1 DEF Behind, Mine
<1>3. ASSUME NEW h \in Handlers, Starts(a, h) PROVE Behind(a)'
  BY <1>3 DEF Starts, Behind
<1>4. ASSUME NEW h \in Handlers, Ends(a, h) PROVE Behind(a)'
  <2>1. /\ cleared'[a] = call[h].next - 1 /\ Mine(a, h) /\ log'[a] = log[a]
        /\ cleared[a] \in Nat /\ call[h].next \in Nat /\ cleared[a] < call[h].next
    BY <1>1, <1>4, Numbers DEF Ends
  <2>2. ASSUME NEW i \in DOMAIN log[a] PROVE log[a][i] <= call[h].next - 1
    <3>1. log[a][i] \in Nat /\ (log[a][i] <= cleared[a] \/ log[a][i] < call[h].next)
      BY <1>1, <2>1, Numbers, OneCall DEF Behind
    <3> QED BY <2>1, <3>1
  <2> QED BY <2>1, <2>2 DEF Behind
<1>5. ASSUME NEW h \in Handlers, GoesOn(a, h) PROVE Behind(a)'
  <2>1. /\ Mine(a, h) /\ Mine(a, h)' /\ cleared'[a] = cleared[a]
        /\ call[h].next \in Nat
    BY <1>5, Numbers DEF GoesOn
  <2>2. call[h].next <= call'[h].next /\ call'[h].next \in Nat
    BY <1>5, <2>1 DEF GoesOn, Passes, Decides, Writes
  <2>3. ASSUME NEW i \in DOMAIN log[a]
        PROVE  log[a][i] \in Nat /\ (log[a][i] <= cleared[a] \/ log[a][i] < call'[h].next)
    <3>1. log[a][i] \in Nat /\ (log[a][i] <= cleared[a] \/ log[a][i] < call[h].next)
      BY <1>1, <2>1, Numbers, OneCall DEF Behind
    <3> QED BY <2>1, <2>2, <3>1
  <2>4. CASE log'[a] = log[a]
    BY <2>1, <2>3, <2>4 DEF Behind
  <2>5. CASE Writes(a, h)
    <3>1. call[h].next < call'[h].next
      BY <2>1, <2>5 DEF Writes
    <3> QED BY <2>1, <2>3, <2>5, <3>1, MyWrite DEF Behind
  <2> QED BY <1>5, <2>4, <2>5 DEF GoesOn, Passes, Decides
<1> QED BY <1>1, <1>2, <1>3, <1>4, <1>5, AgentView

LEMMA AscendingStep ==
    ASSUME CallInv, [Next]_vars, NEW a \in Agents, Remembering(a)' \/ Undisturbed(a)',
           Remembering(a)' => Known(a), Undisturbed(a)' => Behind(a), Ascending(a)
    PROVE  Ascending(a)'
<1>1. /\ Alone(a)' /\ Alone(a)
      /\ Remembering(a)' => "redis" \notin occurred'
  BY StaysRemembered, AloneBefore DEF Remembering, Undisturbed, CallInv
<1>2. CASE Elsewhere(a)
  <2>1. ASSUME NEW g \in Handlers, Mine(a, g)', Publishing(g)'
        PROVE  call'[g] = call[g] /\ Mine(a, g) /\ Publishing(g)
    <3>1. call'[g] = call[g]
      BY <1>2, <2>1 DEF Elsewhere, Mine
    <3> QED BY <2>1, <3>1, PublishingIs DEF Mine
  <2> QED BY <1>2, <2>1 DEF Ascending, Elsewhere
<1>3. ASSUME NEW h \in Handlers, Starts(a, h) PROVE Ascending(a)'
  <2>1. \A g \in Handlers : Mine(a, g)' => g = h
    BY <1>3 DEF Starts, OnlyMoves, Mine
  <2>2. ~Publishing(h)'
    BY <1>3, PublishingIs DEF Starts
  <2> QED BY <1>3, <2>1, <2>2 DEF Ascending, Starts
<1>4. ASSUME NEW h \in Handlers, Ends(a, h) PROVE Ascending(a)'
  <2>1. \A g \in Handlers : Mine(a, g)' => Mine(a, g) /\ call'[g] = call[g]
    BY <1>4 DEF Ends, OnlyMoves, Mine
  <2>2. \A g \in Handlers : ~Mine(a, g)'
    BY <1>1, <1>4, <2>1, OneCall DEF Ends, Mine
  <2> QED BY <1>4, <2>2 DEF Ascending, Ends
<1>5. ASSUME NEW h \in Handlers, GoesOn(a, h) PROVE Ascending(a)'
  <2>1. Mine(a, h) /\ \A g \in Handlers : Mine(a, g)' => g = h
    <3>1. \A g \in Handlers : Mine(a, g)' /\ g # h => Mine(a, g)
      BY <1>5 DEF GoesOn, OnlyMoves, Mine
    <3> QED BY <1>1, <1>5, <3>1, OneCall DEF GoesOn
  <2>2. /\ call[h].next \in Nat /\ call[h].next >= 1 /\ Event(h) = <<a, call[h].next>>
        /\ cleared[a] \in Nat /\ cleared[a] < call[h].next
        /\ \A i \in DOMAIN log[a] : log[a][i] \in Nat
    BY <1>1, <2>1, Numbers
  <2>3. CASE Passes(a, h)
    <3>1. ~Publishing(h)' /\ log'[a] = log[a]
      BY <2>3, PublishingIs DEF Passes
    <3> QED BY <2>1, <3>1 DEF Ascending
  (* What is in the topic is behind the event, or the event, whose key is  *)
  (* new, would be known by what is in the topic.                          *)
  <2>4. CASE Decides(a, h)
    <3>1. log'[a] = log[a] /\ call'[h].next = call[h].next
      BY <2>4 DEF Decides
    <3>2. ASSUME NEW i \in DOMAIN log[a] PROVE log[a][i] <= call[h].next
      <4>1. CASE Undisturbed(a)'
        <5>1. log[a][i] <= cleared[a] \/ log[a][i] < call[h].next
          BY <1>1, <2>1, <4>1, OneCall DEF Behind
        <5> QED BY <2>2, <5>1
      <4>2. CASE Remembering(a)'
        <5>1. Event(h) \notin keys /\ Event(h) \notin Anonymous
          BY <1>1, <2>4, <4>2 DEF Decides
        <5>2. KnownUpTo(a, log[a][i])
          BY <4>2 DEF Known
        <5>3. call[h].next \notin 1 .. log[a][i]
          BY <2>2, <5>1, <5>2 DEF KnownUpTo
        <5>4. log[a][i] \in Nat
          BY <2>2
        <5> QED BY <2>2, <5>3, <5>4
      <4> QED BY <4>1, <4>2
    <3> QED BY <2>1, <3>1, <3>2 DEF Ascending
  <2>5. CASE Writes(a, h)
    <3>1. ~Publishing(h)' /\ \A i \in DOMAIN log[a] : log[a][i] <= call[h].next
      BY <2>1, <2>5, PublishingIs DEF Writes, Ascending
    <3>2. ASSUME NEW i \in DOMAIN log'[a], NEW j \in DOMAIN log'[a], i < j
          PROVE  log'[a][i] <= log'[a][j]
      <4>1. CASE j \in DOMAIN log[a] /\ log'[a][j] = log[a][j]
        <5>1. i \in DOMAIN log[a] /\ log'[a][i] = log[a][i]
          BY <2>1, <2>5, <3>2, <4>1, MyWrite
        <5> QED BY <3>2, <4>1, <5>1 DEF Ascending
      <4>2. CASE log'[a][j] = call[h].next
        BY <2>1, <2>2, <2>5, <3>1, <3>2, <4>2, MyWrite
      <4> QED BY <2>1, <2>5, <3>2, <4>1, <4>2, MyWrite
    <3> QED BY <2>1, <3>1, <3>2 DEF Ascending
  <2> QED BY <1>5, <2>3, <2>4, <2>5 DEF GoesOn
<1> QED BY <1>1, <1>2, <1>3, <1>4, <1>5, AgentView

LEMMA OrderStep == ASSUME CallInv, OrderInv, [Next]_vars PROVE OrderInv'
<1> SUFFICES ASSUME NEW a \in Agents
             PROVE  /\ Remembering(a)' => Known(a)'
                    /\ Undisturbed(a)' => Behind(a)'
                    /\ Remembering(a)' \/ Undisturbed(a)' => Ascending(a)'
  BY DEF OrderInv
<1>1. /\ Remembering(a)' => Remembering(a)
      /\ Undisturbed(a)' => Undisturbed(a)
  BY StaysRemembered DEF CallInv, Remembered, Remembering, Undisturbed, Alone
<1>2. /\ Remembering(a)' => Known(a)
      /\ Undisturbed(a)' => Behind(a)
      /\ Remembering(a)' \/ Undisturbed(a)' => Ascending(a)
  BY <1>1 DEF OrderInv
<1> QED BY <1>2, KnownStep, BehindStep, AscendingStep

(* publisher.go:37: an agent's events are in its partition in their order, *)
(* through lost requests, failed publishes and lost keys, and across a     *)
(* crash of the collector as long as Redis keeps and answers for the keys, *)
(* for any number of agents and handlers.                                  *)
THEOREM HostOrderIsKept == Spec => []PerHostOrder
<1>1. Init => OrderInv
  <2> SUFFICES ASSUME Init, NEW a \in Agents PROVE Known(a) /\ Behind(a) /\ Ascending(a)
    BY DEF OrderInv
  <2>1. cleared[a] = 0 /\ log[a] = <<>> /\ \A h \in Handlers : ~Mine(a, h)
    BY DEF Init, BatcherInit, CollectorInit, Mine
  <2>2. DOMAIN log[a] = {}
    BY <2>1
  <2>3. KnownUpTo(a, cleared[a])
    BY <2>1 DEF KnownUpTo
  <2> QED BY <2>1, <2>2, <2>3 DEF Known, Behind, Ascending
<1>2. CallInv /\ OrderInv /\ [Next]_vars => (CallInv /\ OrderInv)'
  BY CallStep, OrderStep
<1>3. OrderInv => PerHostOrder
  BY DEF OrderInv, Ascending, Remembering, Undisturbed, Alone, PerHostOrder, RepeatsRecognised
<1> QED BY <1>1, <1>2, <1>3, CallInitially, PTL DEF Spec
=============================================================================
