----------------------------- MODULE WorkerPool -----------------------------
(***************************************************************************)
(* inch/internal/processor/worker.go: Submit, Run's closer goroutine and   *)
(* the workers, over the buffered channel workCh.  Items are the records   *)
(* of the partition.  One worker step is what happens between two points   *)
(* where other goroutines can interfere: receive, evaluate (enrich,        *)
(* classify, evaluate the rules, publish the alerts), persist.             *)
(***************************************************************************)
EXTENDS RawRecords, FiniteSets, Sequences, SequencesExt

CONSTANTS
    Workers,     \* worker goroutines (Pool.count)
    BufferSize   \* capacity of workCh

ASSUME PoolAssumption == IsFiniteSet(Workers) /\ BufferSize \in Nat \ {0}

VARIABLES
    workCh,     \* buffered items
    closed,     \* whether workCh is closed
    hand,       \* the item each worker processes (0: none)
    stage,      \* what each worker does next
    persisted,  \* rows of the events table
    evaluated,  \* how often the rules evaluated each record
    failed      \* history: records given up because persisting them failed

poolVars == <<workCh, closed, hand, stage, persisted, evaluated, failed>>
results == <<persisted, evaluated, failed>>

Stages == {"receive", "evaluate", "persist", "exited"}
Queued == ToSet(workCh)
InHand == {hand[w] : w \in Workers} \ {0}

PoolInit ==
    /\ workCh = <<>> /\ closed = FALSE
    /\ hand = [w \in Workers |-> 0]
    /\ stage = [w \in Workers |-> "receive"]
    /\ persisted = {} /\ failed = {}
    /\ evaluated = [r \in Records |-> 0]

-----------------------------------------------------------------------------
(* Mutant: a full channel drops the event instead of blocking. *)
Submit_DropsWhenFull(r) ==
    /\ ~closed
    /\ workCh' = IF Len(workCh) < BufferSize THEN Append(workCh, r) ELSE workCh
    /\ UNCHANGED <<closed, hand, stage, results>>

(* Submit's send case, which blocks while the channel is full. *)
Submit(r) ==
    /\ ~closed
    /\ Len(workCh) < BufferSize
    /\ workCh' = Append(workCh, r)
    /\ UNCHANGED <<closed, hand, stage, results>>

(* Run's last goroutine, once the context is cancelled. *)
CloseChannel ==
    /\ ~closed
    /\ closed' = TRUE
    /\ UNCHANGED <<workCh, hand, stage, results>>

Receive(w) ==
    /\ stage[w] = "receive" /\ workCh # <<>>
    /\ hand' = [hand EXCEPT ![w] = Head(workCh)]
    /\ workCh' = Tail(workCh)
    /\ stage' = [stage EXCEPT ![w] = "evaluate"]
    /\ UNCHANGED <<closed, results>>

(* range over a closed and drained channel ends. *)
Exit(w) ==
    /\ stage[w] = "receive" /\ workCh = <<>> /\ closed
    /\ stage' = [stage EXCEPT ![w] = "exited"]
    /\ UNCHANGED <<workCh, closed, hand, results>>

Release(w) ==
    /\ hand' = [hand EXCEPT ![w] = 0]
    /\ stage' = [stage EXCEPT ![w] = "receive"]

(* Enrichment errors and failed alert publishes are logged only. *)
Evaluate(w) ==
    /\ stage[w] = "evaluate"
    /\ evaluated' = [evaluated EXCEPT ![hand[w]] = @ + 1]
    /\ stage' = [stage EXCEPT ![w] = "persist"]
    /\ UNCHANGED <<workCh, closed, hand, persisted, failed>>

(* An item drained after the cancellation: the rules see it, its alerts    *)
(* and its insert fail with the worker's context.                          *)
EvaluateCancelled(w) ==
    /\ stage[w] = "evaluate"
    /\ evaluated' = [evaluated EXCEPT ![hand[w]] = @ + 1]
    /\ failed' = failed \cup {hand[w]}
    /\ Release(w)
    /\ UNCHANGED <<workCh, closed, persisted>>

(* INSERT ... ON CONFLICT DO NOTHING. *)
PersistOk(w) ==
    /\ stage[w] = "persist"
    /\ persisted' = persisted \cup {hand[w]}
    /\ Release(w)
    /\ UNCHANGED <<workCh, closed, evaluated, failed>>

(* Mutant: a failed insert is retried from the start of process. *)
PersistFail_StartsOver(w) ==
    /\ stage[w] = "persist"
    /\ stage' = [stage EXCEPT ![w] = "evaluate"]
    /\ UNCHANGED <<workCh, closed, hand, results>>

(* The insert failed: the worker logs the error and goes on. *)
PersistFail(w) ==
    /\ stage[w] = "persist"
    /\ failed' = failed \cup {hand[w]}
    /\ Release(w)
    /\ UNCHANGED <<workCh, closed, persisted, evaluated>>

(* The memory of the process is gone; the database is not. *)
PoolLost ==
    /\ workCh' = <<>> /\ closed' = FALSE
    /\ hand' = [w \in Workers |-> 0]
    /\ stage' = [w \in Workers |-> "receive"]
    /\ UNCHANGED results

PoolTypeOK ==
    /\ workCh \in Seq(Records) /\ Len(workCh) <= BufferSize
    /\ closed \in BOOLEAN
    /\ hand \in [Workers -> Records \cup {0}]
    /\ stage \in [Workers -> Stages]
    /\ persisted \subseteq Records
    /\ evaluated \in [Records -> Nat]
    /\ failed \subseteq Records
=============================================================================
