----------------------------- MODULE Ingestion -----------------------------
(***************************************************************************)
(* The path of an event from an agent's sources to the raw-events topic:   *)
(* batchers and the collector joined by the IngestEvents RPC.  A call that *)
(* fails on the client's side may still be running on the server, and the  *)
(* agent repeats the whole batch with its next flush.                      *)
(*                                                                         *)
(* Faults is the set of failures a run allows, MaxFaults how many of them  *)
(* occur: "send" (the request never arrives), "disconnect" (the client     *)
(* stops waiting), "redis", "publish", "retry" (the producer writes a      *)
(* record twice), "expire" (a key's time to live is over), "crash" (the    *)
(* collector dies), "stop" (it is told to stop).  A collector that is down *)
(* is started again, and "redis" is also a start without Redis.            *)
(***************************************************************************)
EXTENDS Batcher, Collector

CONSTANTS
    CanStop,     \* agents whose process may be told to stop
    Faults,
    MaxFaults

FaultKinds == {"send", "disconnect", "redis", "publish", "retry", "expire", "crash", "stop"}

ASSUME IngestionAssumption ==
    /\ CanStop \subseteq Agents
    /\ Faults \subseteq FaultKinds
    /\ MaxFaults \in Nat

VARIABLES
    faults,   \* number of failures so far
    occurred  \* history: their kinds

faultVars == <<faults, occurred>>
vars == <<sent, taken, cleared, mode, cancelled, server, dedup, call, keys, log,
          unsettled, faults, occurred>>

Init ==
    /\ BatcherInit /\ CollectorInit
    /\ IF dedup THEN faults = 0 /\ occurred = {}
                ELSE "redis" \in Faults /\ MaxFaults >= 1 /\ faults = 1 /\ occurred = {"redis"}

NoFault == UNCHANGED faultVars
Fault(kind) ==
    /\ kind \in Faults /\ faults < MaxFaults
    /\ faults' = faults + 1
    /\ occurred' = occurred \cup {kind}

Waiting(a) == {h \in Busy : call[h].agent = a /\ call[h].conn = "up"}

-----------------------------------------------------------------------------
(* flush calls IngestEvents when the batcher's step put it in an RPC.  A   *)
(* batch that makes no request, like one lost on the way or sent to a      *)
(* server that accepts none, reaches no handler and the RPC will fail.     *)
Send(a) ==
    IF mode[a] = "select" /\ mode'[a] \in {"flushing", "final"}
    THEN \/ /\ Sendable(a, cleared[a] + 1, taken'[a])
            /\ Receive(a, cleared[a] + 1, taken'[a]) /\ NoFault
         \/ ~Sendable(a, cleared[a] + 1, taken'[a]) /\ UNCHANGED collectorVars /\ NoFault
         \/ server # "serving" /\ UNCHANGED collectorVars /\ NoFault
         \/ UNCHANGED collectorVars /\ Fault("send")
    ELSE UNCHANGED collectorVars /\ NoFault

SourceEmits(a) == Emit(a) /\ UNCHANGED collectorVars /\ NoFault
BatcherTakes(a) == Take(a) /\ Send(a)
BatcherTicks(a) == TimerFlush(a) /\ Send(a)
BatcherFinalFlush(a) == FinalFlush(a) /\ Send(a)

(* Cancelling the context of a flush in progress makes its RPC fail; the   *)
(* final flush has a context of its own.                                   *)
StopAgent(a) ==
    /\ a \in CanStop
    /\ Cancel(a)
    /\ IF mode[a] = "flushing" /\ Waiting(a) # {}
         THEN \E h \in Waiting(a) : LoseClient(h)
         ELSE UNCHANGED collectorVars
    /\ NoFault

Respond(a) ==
    /\ \E h \in Waiting(a) : Finish(h)
    /\ FlushSucceeds(a)
    /\ NoFault

ReportFailure(a) ==
    /\ Waiting(a) = {}
    /\ FlushFails(a)
    /\ UNCHANGED collectorVars /\ NoFault

Disconnect(a) ==
    /\ \E h \in Waiting(a) : LoseClient(h)
    /\ UNCHANGED batcherVars /\ Fault("disconnect")

(* What one handler does without its client. *)
Handle(h) ==
    /\ UNCHANGED batcherVars
    /\ \/ RejectAnonymous(h) /\ NoFault
       \/ CheckSkipped(h) /\ NoFault
       \/ CheckNew(h) /\ NoFault
       \/ CheckDuplicate(h) /\ NoFault
       \/ PublishOk(h, 1) /\ NoFault
       \/ AcceptCancelled(h) /\ NoFault
       \/ PublishFail(h) /\ ContextCancelled(h) /\ NoFault

(* A handler whose client is gone returns to nobody. *)
Abandon(h) ==
    /\ h \in Busy /\ call[h].conn # "up"
    /\ Finish(h)
    /\ UNCHANGED batcherVars /\ NoFault

Notice(h) == NoticeLoss(h) /\ UNCHANGED batcherVars /\ NoFault

HandlerFault(h) ==
    /\ UNCHANGED batcherVars
    /\ \/ CheckError(h) /\ Fault("redis")
       \/ PublishFail(h) /\ ~ContextCancelled(h) /\ Fault("publish")
       \/ PublishOk(h, 2) /\ Fault("retry")

Expire == \E e \in keys : ExpireKey(e) /\ UNCHANGED batcherVars /\ Fault("expire")
Crash == CollectorCrash /\ UNCHANGED batcherVars /\ Fault("crash")
Stop == StopServer /\ UNCHANGED batcherVars /\ Fault("stop")
Stopped == ServerStopped /\ UNCHANGED batcherVars /\ NoFault
Start ==
    /\ StartServer /\ UNCHANGED batcherVars
    /\ IF dedup' THEN NoFault ELSE Fault("redis")

AgentStep(a) ==
    \/ BatcherTakes(a) \/ BatcherTicks(a) \/ BatcherFinalFlush(a)
    \/ Respond(a) \/ ReportFailure(a)
ServerStep(h) == Handle(h) \/ Abandon(h) \/ Notice(h)

Next ==
    \/ \E a \in Agents : SourceEmits(a) \/ AgentStep(a) \/ StopAgent(a) \/ Disconnect(a)
    \/ \E h \in Handlers : ServerStep(h) \/ HandlerFault(h)
    \/ Expire \/ Crash \/ Stop \/ Stopped \/ Start

Spec == Init /\ [][Next]_vars

-----------------------------------------------------------------------------
TypeOK == BatcherTypeOK /\ CollectorTypeOK /\ faults \in 0 .. MaxFaults /\ occurred \subseteq Faults

Cleared == {e \in Events : e[2] <= cleared[e[1]]}

(* A dedup key never stands alone: its event is in the topic, a handler is *)
(* about to publish it, or a publish of it ended without an answer.        *)
KeyIsAccounted == keys \subseteq Published \cup InPublish \cup unsettled

(* An agent forgets an event only when it is in the topic or on its way,   *)
(* or carried no id, or a publish of it failed: duplicates rejected in a   *)
(* retry, lost responses and Redis errors lose nothing.                    *)
ForgottenIsAccounted ==
    Cleared \subseteq Published \cup InPublish \cup unsettled \cup Anonymous

(* The dedup comment's promise (dedup.go:52): however many handlers hold   *)
(* the same event, one of them wins and it is published once.  A lost key, *)
(* an unanswered SET NX or a producer that repeats itself breaks that, a   *)
(* lost request or response, a restart or a failed publish does not.       *)
PublishedOnce ==
    occurred \cap {"redis", "expire", "retry"} = {} =>
        \A a \in Agents : \A i, j \in DOMAIN log[a] : log[a][i] = log[a][j] => i = j

(* publisher.go:37: a host's events reach the partition in their order, as *)
(* long as no request is repeated while the first one is still running,    *)
(* and a request repeated after a restart is recognised by its keys.       *)
RepeatsRecognised ==
    /\ "disconnect" \notin occurred
    /\ "crash" \in occurred => occurred \cap {"redis", "expire"} = {}

PerHostOrder ==
    RepeatsRecognised =>
        \A a \in Agents : ~cancelled[a] =>
            \A i, j \in DOMAIN log[a] : i < j => log[a][i] <= log[a][j]

(* main.go:137, "finish in-flight": a collector that is told to stop while *)
(* handlers run, with lost requests beside it, interrupts no publish, and  *)
(* what an agent forgets is in the topic, not only on its way.             *)
PlannedRestartIsClean ==
    occurred \subseteq {"send", "stop", "retry", "expire"} /\ (\A a \in Agents : ~cancelled[a]) =>
        unsettled = {} /\ Cleared \subseteq Published \cup Anonymous

(* server.go:72, "better to process a potential duplicate than to lose an  *)
(* event": what an agent forgets is in the topic or about to be.           *)
NothingLost == Cleared \subseteq Published \cup InPublish \cup Anonymous
=============================================================================
