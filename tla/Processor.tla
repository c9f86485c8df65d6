----------------------------- MODULE Processor -----------------------------
(***************************************************************************)
(* inch/cmd/event-processor/main.go: the consume loop, whose handler       *)
(* decodes a record and submits it, and the worker pool, in one process.   *)
(* Offsets are committed for records that were submitted, not for records  *)
(* that were processed; main does not wait for the pool.                   *)
(*                                                                         *)
(* Faults is the set of incidents a run allows, MaxFaults how many occur:  *)
(* "stop" (SIGTERM), "crash" (the process dies), "fetch" (PollFetches      *)
(* reports an error), "persist" (an insert fails).                         *)
(***************************************************************************)
EXTENDS KafkaConsumer, WorkerPool, FiniteSets

CONSTANTS
    Undecodable,  \* records proto.Unmarshal fails on
    Faults, MaxFaults

FaultKinds == {"stop", "crash", "fetch", "persist"}

ASSUME ProcessorAssumption ==
    /\ Undecodable \subseteq Records
    /\ Faults \subseteq FaultKinds
    /\ MaxFaults \in Nat

VARIABLES
    ctxDone,   \* whether the process's context is cancelled
    panicked,  \* history: a goroutine panicked
    faults,    \* number of incidents so far
    occurred   \* history: their kinds

processVars == <<ctxDone, panicked, faults, occurred>>
vars == <<loop, fetched, handled, mark, committed, workCh, closed, hand, stage, persisted,
          evaluated, failed, ctxDone, panicked, faults, occurred>>

Init ==
    /\ ConsumerInit /\ PoolInit
    /\ ctxDone = FALSE /\ panicked = FALSE
    /\ faults = 0 /\ occurred = {}

Alive == loop # "gone"
NoFault == UNCHANGED <<faults, occurred>>
Fault(kind) ==
    /\ kind \in Faults /\ faults < MaxFaults
    /\ faults' = faults + 1
    /\ occurred' = occurred \cup {kind}

-----------------------------------------------------------------------------
(* A poll that returns after the cancellation is not handled any more. *)
Poll == ~ctxDone /\ PollReturns /\ UNCHANGED <<poolVars, processVars>>

(* Mutant: ctx.Err() is not looked at after PollFetches. *)
EndLoop_NoContextCheck ==
    /\ LoopReturns
    /\ Fault("fetch")
    /\ UNCHANGED <<poolVars, ctxDone, panicked>>

EndLoop ==
    /\ LoopReturns
    /\ (ctxDone /\ NoFault) \/ (~ctxDone /\ Fault("fetch"))
    /\ UNCHANGED <<poolVars, ctxDone, panicked>>

SkipUndecodable ==
    /\ Handling \in Undecodable
    /\ HandlerReturns
    /\ UNCHANGED <<poolVars, processVars>>

SubmitSends ==
    /\ loop = "handle" /\ Handling \notin Undecodable
    /\ Submit(Handling)
    /\ HandlerReturns
    /\ UNCHANGED processVars

(* Submit's select takes the other case; ConsumeLoop ignores the error. *)
SubmitCancelled ==
    /\ ctxDone /\ Handling \notin Undecodable
    /\ HandlerReturns
    /\ UNCHANGED <<poolVars, processVars>>

(* Once workCh is closed, Submit's select may also take the send case.     *)
SubmitPanics ==
    /\ loop = "handle" /\ Handling \notin Undecodable
    /\ closed
    /\ Die /\ PoolLost
    /\ panicked' = TRUE
    /\ UNCHANGED <<ctxDone, faults, occurred>>

Stop ==
    /\ Alive /\ ~ctxDone
    /\ Fault("stop")
    /\ ctxDone' = TRUE
    /\ UNCHANGED <<consumerVars, poolVars, panicked>>

CloseWork ==
    /\ Alive /\ ctxDone
    /\ CloseChannel
    /\ UNCHANGED <<consumerVars, processVars>>

Work(w) ==
    /\ Alive
    /\ \/ Receive(w) /\ NoFault
       \/ Exit(w) /\ NoFault
       \/ ~ctxDone /\ Evaluate(w) /\ NoFault
       \/ ctxDone /\ EvaluateCancelled(w) /\ NoFault
       \/ PersistOk(w) /\ NoFault
       \/ ctxDone /\ PersistFail(w) /\ NoFault
       \/ ~ctxDone /\ PersistFail(w) /\ Fault("persist")
    /\ UNCHANGED <<consumerVars, ctxDone, panicked>>

Commit == AutoCommit /\ UNCHANGED <<poolVars, processVars>>

(* run returns: the deferred Close calls, then the process exits.          *)
Leave == CloseAndExit /\ PoolLost /\ UNCHANGED processVars

Crash == Die /\ PoolLost /\ Fault("crash") /\ UNCHANGED <<ctxDone, panicked>>

Restart ==
    /\ Resume
    /\ ctxDone' = FALSE
    /\ UNCHANGED <<poolVars, panicked, faults, occurred>>

Handle == SkipUndecodable \/ SubmitSends \/ SubmitCancelled \/ SubmitPanics
Main == Poll \/ EndLoop \/ Handle \/ Leave

Next ==
    \/ Main \/ CloseWork \/ Commit \/ Stop \/ Crash \/ Restart
    \/ \E w \in Workers : Work(w)

Spec == Init /\ [][Next]_vars

(* Goroutines keep running, and the orchestrator restarts the process.     *)
FairSpec ==
    /\ Spec
    /\ WF_vars(Main) /\ WF_vars(CloseWork) /\ WF_vars(Restart)
    /\ \A w \in Workers : WF_vars(Work(w))

-----------------------------------------------------------------------------
TypeOK ==
    /\ ConsumerTypeOK /\ PoolTypeOK
    /\ ctxDone \in BOOLEAN /\ panicked \in BOOLEAN
    /\ faults \in 0 .. MaxFaults /\ occurred \subseteq Faults

Held == Queued \cup InHand
Settled == persisted \cup failed \cup Undecodable
CommittedRecords == 1 .. committed

(* A process that dies, or whose loop ends on a fetch error, takes with it *)
(* no more committed events than fit into the channel and the workers'     *)
(* hands.                                                                  *)
CrashLossBounded ==
    "stop" \notin occurred =>
        Cardinality(CommittedRecords \ Settled)
            <= (faults + 1) * (BufferSize + Cardinality(Workers))

(* consumer.go:112, "at-least-once": a committed record was processed, or  *)
(* the living process still holds it.                                      *)
AtLeastOnce == CommittedRecords \subseteq Settled \cup Held

(* A process that neither dies nor is stopped keeps that promise:          *)
(* backpressure blocks the loop, it drops nothing.                         *)
SteadyLosesNothing == occurred \subseteq {"persist"} => AtLeastOnce

(* The rules see a record again only after it was redelivered to a new     *)
(* process: errors on the way to the database repeat no alert.             *)
Redeliveries == IF occurred \subseteq {"persist"} THEN 0 ELSE faults
EvaluatedPerDelivery == \A r \in Records : evaluated[r] <= 1 + Redeliveries

(* ARCHITECTURE.md:267: production code never panics. *)
NeverPanics == ~panicked

(* Every record is settled in the end unless a process took it along: the  *)
(* full channel and the workers never wait on each other for ever.         *)
EverythingIsProcessed == <>(Records \subseteq Settled \/ occurred \ {"persist"} # {})

(* A process told to stop ends. *)
StopEnds == ctxDone ~> loop = "gone"
=============================================================================
