----------------------------- MODULE Collector -----------------------------
(***************************************************************************)
(* inch/internal/collector: the gRPC handler IngestEvents, the Redis       *)
(* SET NX deduplication and the Kafka publisher.  Every request has a      *)
(* goroutine of its own (Handlers), so requests of different agents, and a *)
(* retried request and the one it repeats, run side by side and share the  *)
(* dedup keys and the raw-events topic.                                    *)
(*                                                                         *)
(* An event is <<a, n>>: the n-th of agent a.  One agent runs on one host  *)
(* and the host name is the partition key, so log[a] is that host's order  *)
(* within its partition of raw-events.                                     *)
(***************************************************************************)
EXTENDS SecurityEvents, Sequences

CONSTANTS
    Handlers,      \* bound: concurrent IngestEvents calls
    Idle,          \* a handler without a call
    Anonymous      \* events that carry an empty event_id

ASSUME CollectorAssumption == Anonymous \subseteq Events

VARIABLES
    server,    \* what the collector process is doing
    dedup,     \* FALSE: Redis was out of reach at start, there is no client
    call,      \* what each handler is doing
    keys,      \* events whose dedup:<id> key is in Redis
    log,       \* raw-events, per host
    unsettled  \* history: events whose publish ended without an acknowledgement

collectorVars == <<server, dedup, call, keys, log, unsettled>>

(* serving: ready and accepting requests; draining: GracefulStop accepts   *)
(* no more and waits for the handlers; down: the process has ended.        *)
ServerModes == {"serving", "draining", "down"}

(* The request holds events next .. last of the agent; next is in hand.    *)
(* step: before the dedup check or before the publish of event next.       *)
(* conn: up: the client waits; lost: it gave up, the server has not yet    *)
(* noticed; cancelled: the handler's context is cancelled.                 *)
CallType ==
    [agent : Agents, next : 1 .. EventCount + 1, last : 1 .. EventCount,
     step : {"check", "publish"}, conn : {"up", "lost", "cancelled"}]

ASSUME IdleAssumption == Idle \notin CallType

Busy == {h \in Handlers : call[h] # Idle}
Event(h) == <<call[h].agent, call[h].next>>
Running(h, step) == h \in Busy /\ call[h].step = step /\ call[h].next <= call[h].last
Finished(h) == h \in Busy /\ call[h].next > call[h].last
ContextCancelled(h) == call[h].conn = "cancelled"

(* Events some handler has decided to publish. *)
InPublish == {Event(h) : h \in {g \in Handlers : Running(g, "publish")}}
Published == {e \in Events : \E i \in DOMAIN log[e[1]] : log[e[1]][i] = e[2]}

CollectorInit ==
    /\ server = "serving"
    /\ dedup \in BOOLEAN
    /\ call = [h \in Handlers |-> Idle]
    /\ keys = {}
    /\ log = [a \in Agents |-> <<>>]
    /\ unsettled = {}

-----------------------------------------------------------------------------
NextEvent(h) ==
    call' = [call EXCEPT ![h] = [call[h] EXCEPT !.next = call[h].next + 1, !.step = "check"]]
ToPublish(h) == call' = [call EXCEPT ![h].step = "publish"]

(* A request with events first .. last (never none) starts a handler. *)
Receive(a, first, last) ==
    server = "serving" /\ \E h \in Handlers \ Busy :
        /\ call' = [call EXCEPT ![h] = [agent |-> a, next |-> first, last |-> last,
                                        step |-> "check", conn |-> "up"]]
        /\ UNCHANGED <<server, dedup, keys, log, unsettled>>

RejectAnonymous(h) ==
    /\ Running(h, "check") /\ Event(h) \in Anonymous
    /\ NextEvent(h)
    /\ UNCHANGED <<server, dedup, keys, log, unsettled>>

Checking(h) == Running(h, "check") /\ Event(h) \notin Anonymous

(* IsDuplicate without a Redis client: nothing is a duplicate. *)
CheckSkipped(h) ==
    /\ Checking(h) /\ ~dedup /\ ~ContextCancelled(h)
    /\ ToPublish(h)
    /\ UNCHANGED <<server, dedup, keys, log, unsettled>>

(* Mutant: GET, and the SET only with the next step (not atomic). *)
CheckNew_NotSet(h) ==
    /\ Checking(h) /\ dedup /\ ~ContextCancelled(h)
    /\ Event(h) \notin keys
    /\ ToPublish(h)
    /\ UNCHANGED <<server, dedup, keys, log, unsettled>>

(* Mutant: the result of SET NX is read the wrong way round. *)
CheckNew_Inverted(h) ==
    /\ Checking(h) /\ dedup /\ ~ContextCancelled(h)
    /\ Event(h) \notin keys
    /\ keys' = keys \cup {Event(h)}
    /\ NextEvent(h)
    /\ UNCHANGED <<server, dedup, log, unsettled>>

(* SET NX created the key: the event is new. *)
CheckNew(h) ==
    /\ Checking(h) /\ dedup /\ ~ContextCancelled(h)
    /\ Event(h) \notin keys
    /\ keys' = keys \cup {Event(h)}
    /\ ToPublish(h)
    /\ UNCHANGED <<server, dedup, log, unsettled>>

(* SET NX found the key: the event is rejected as a duplicate. *)
CheckDuplicate(h) ==
    /\ Checking(h) /\ dedup /\ ~ContextCancelled(h)
    /\ Event(h) \in keys
    /\ NextEvent(h)
    /\ UNCHANGED <<server, dedup, keys, log, unsettled>>

(* The Redis call failed, before or after the key was set: the event is    *)
(* accepted anyway.                                                        *)
CheckError(h) ==
    /\ Checking(h) /\ dedup /\ ~ContextCancelled(h)
    /\ keys' \in {keys, keys \cup {Event(h)}}
    /\ ToPublish(h)
    /\ UNCHANGED <<server, dedup, log, unsettled>>

(* With a cancelled context the Redis call fails, the event is accepted    *)
(* all the same, and its publish fails before anything is written.         *)
AcceptCancelled(h) ==
    /\ Checking(h) /\ ContextCancelled(h)
    /\ unsettled' = unsettled \cup {Event(h)}
    /\ NextEvent(h)
    /\ UNCHANGED <<server, dedup, keys, log>>

Write(e, copies) ==
    log' = [log EXCEPT ![e[1]] = @ \o [i \in 1 .. copies |-> e[2]]]

(* ProduceSync returned no error.  The producer's idempotence is disabled, *)
(* so a retry inside the client may write the record a second time.        *)
PublishOk(h, copies) ==
    /\ Running(h, "publish") /\ ~ContextCancelled(h)
    /\ Write(Event(h), copies)
    /\ NextEvent(h)
    /\ UNCHANGED <<server, dedup, keys, unsettled>>

(* ProduceSync, begun with a live context, returned an error, before or    *)
(* after the record was written: the event is rejected, its dedup key stays. *)
PublishFail(h) ==
    /\ Running(h, "publish")
    /\ \E copies \in 0 .. 1 : Write(Event(h), copies)
    /\ unsettled' = unsettled \cup {Event(h)}
    /\ NextEvent(h)
    /\ UNCHANGED <<server, dedup, keys>>

(* The client stops waiting for the response of h. *)
LoseClient(h) ==
    /\ h \in Busy /\ call[h].conn = "up"
    /\ call' = [call EXCEPT ![h].conn = "lost"]
    /\ UNCHANGED <<server, dedup, keys, log, unsettled>>

(* The server notices that the client is gone. *)
NoticeLoss(h) ==
    /\ h \in Busy /\ call[h].conn = "lost"
    /\ call' = [call EXCEPT ![h].conn = "cancelled"]
    /\ UNCHANGED <<server, dedup, keys, log, unsettled>>

(* IngestEvents returns. *)
Finish(h) ==
    /\ Finished(h)
    /\ call' = [call EXCEPT ![h] = Idle]
    /\ UNCHANGED <<server, dedup, keys, log, unsettled>>

(* A dedup key's time to live is over. *)
ExpireKey(e) ==
    /\ e \in keys
    /\ keys' = keys \ {e}
    /\ UNCHANGED <<server, dedup, call, log, unsettled>>

(* The collector process dies; Redis and Kafka keep what they have. *)
CollectorCrash ==
    /\ server # "down"
    /\ server' = "down"
    /\ call' = [h \in Handlers |-> Idle]
    /\ unsettled' = unsettled \cup InPublish
    /\ UNCHANGED <<dedup, keys, log>>

(* SIGTERM: the process is no longer ready and accepts no more requests. *)
StopServer ==
    /\ server = "serving"
    /\ server' = "draining"
    /\ UNCHANGED <<dedup, call, keys, log, unsettled>>

(* Mutant: Stop instead of GracefulStop. *)
ServerStopped_AtOnce ==
    /\ server = "draining"
    /\ server' = "down"
    /\ call' = [h \in Handlers |-> Idle]
    /\ unsettled' = unsettled \cup InPublish
    /\ UNCHANGED <<dedup, keys, log>>

(* GracefulStop returns when the last handler has, and with it run. *)
ServerStopped ==
    /\ server = "draining" /\ Busy = {}
    /\ server' = "down"
    /\ UNCHANGED <<dedup, call, keys, log, unsettled>>

(* The process is started again; it does without Redis if there is none. *)
StartServer ==
    /\ server = "down"
    /\ server' = "serving"
    /\ dedup' \in BOOLEAN
    /\ UNCHANGED <<call, keys, log, unsettled>>

CollectorTypeOK ==
    /\ server \in ServerModes
    /\ dedup \in BOOLEAN
    /\ call \in [Handlers -> CallType \cup {Idle}]
    /\ keys \subseteq Events
    /\ log \in [Agents -> Seq(1 .. EventCount)]
    /\ unsettled \subseteq Events
=============================================================================
