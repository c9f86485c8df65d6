------------------------------ MODULE Batcher ------------------------------
(***************************************************************************)
(* inch/internal/agent/batcher.go: each agent's batcher, fed by its        *)
(* sources through a bounded channel.  An agent's events are numbered in   *)
(* the order its sources write them, and the channel and the batch are     *)
(* first-in first-out, so three counters give their contents:              *)
(*                                                                         *)
(*     1 .. cleared          events the batcher is done with               *)
(*     cleared+1 .. taken    b.batch                                       *)
(*     taken+1 .. sent       waiting in the events channel                 *)
(*                                                                         *)
(* Run is one goroutine and flush blocks it, hence a mode instead of       *)
(* concurrent steps.  What happens to a flushed batch is the collector's   *)
(* part; module Ingestion joins the two.                                   *)
(***************************************************************************)
EXTENDS SecurityEvents

CONSTANTS
    ChannelCap,  \* capacity of the events channel (1000 in main.go)
    BatchCap,    \* Batcher.batchCap after NewBatcher's defaulting
    MaxMessage,  \* events that fit into one gRPC message (4 MB on the server)
    Broken       \* events with a string that is not UTF-8

ASSUME BatcherAssumption ==
    /\ ChannelCap \in Nat \ {0}
    /\ BatchCap \in Nat \ {0}
    /\ MaxMessage \in Nat \ {0} /\ Broken \subseteq Events

VARIABLES
    sent,       \* events written to the channel by the sources
    taken,      \* events Run has received from the channel
    cleared,    \* events removed from b.batch by a successful flush
    mode,       \* what Run is doing
    cancelled   \* whether the agent's context is cancelled

batcherVars == <<sent, taken, cleared, mode, cancelled>>

(* select: waiting in Run's select; flushing: in the RPC of a size or      *)
(* timer flush; final: in the RPC of the shutdown flush; stopped: returned *)
Modes == {"select", "flushing", "final", "stopped"}

Held(a) == taken[a] - cleared[a]

(* A batch from the first event to the last becomes a request: it can be   *)
(* marshalled and the server takes a message of its size.                  *)
Sendable(a, first, last) ==
    last - first < MaxMessage /\ \A n \in first .. last : <<a, n>> \notin Broken

InFlush(a) == mode[a] \in {"flushing", "final"}

BatcherInit ==
    /\ sent = [a \in Agents |-> 0]
    /\ taken = [a \in Agents |-> 0]
    /\ cleared = [a \in Agents |-> 0]
    /\ mode = [a \in Agents |-> "select"]
    /\ cancelled = [a \in Agents |-> FALSE]

-----------------------------------------------------------------------------
(* A tailer or process watcher writes an event; a full channel blocks it.  *)
(* Its select may still write after the cancellation, and nobody closes    *)
(* the channel.                                                            *)
Emit(a) ==
    /\ sent[a] < EventCount
    /\ sent[a] - taken[a] < ChannelCap
    /\ sent' = [sent EXCEPT ![a] = @ + 1]
    /\ UNCHANGED <<taken, cleared, mode, cancelled>>

(* flush(ctx): with a cancelled context the RPC fails before it is sent, so *)
(* the batch stays and Run is back in its select.                           *)
BeginFlush(a) ==
    mode' = IF cancelled[a] THEN mode ELSE [mode EXCEPT ![a] = "flushing"]

(* Run receives an event and flushes a full batch. *)
Take(a) ==
    /\ mode[a] = "select"
    /\ taken[a] < sent[a]
    /\ taken' = [taken EXCEPT ![a] = @ + 1]
    /\ IF taken'[a] - cleared[a] >= BatchCap THEN BeginFlush(a) ELSE UNCHANGED mode
    /\ UNCHANGED <<sent, cleared, cancelled>>

(* Mutant: the ticker, too, waits for a full batch. *)
TimerFlush_FullOnly(a) ==
    /\ mode[a] = "select"
    /\ Held(a) >= BatchCap
    /\ ~cancelled[a]
    /\ BeginFlush(a)
    /\ UNCHANGED <<sent, taken, cleared, cancelled>>

(* Run's ticker fires while events are held. *)
TimerFlush(a) ==
    /\ mode[a] = "select"
    /\ Held(a) > 0
    /\ ~cancelled[a]
    /\ BeginFlush(a)
    /\ UNCHANGED <<sent, taken, cleared, cancelled>>

(* SIGINT / SIGTERM. *)
Cancel(a) ==
    /\ ~cancelled[a]
    /\ cancelled' = [cancelled EXCEPT ![a] = TRUE]
    /\ UNCHANGED <<sent, taken, cleared, mode>>

(* Mutant: Run returns on cancellation without the final flush. *)
FinalFlush_Skipped(a) ==
    /\ mode[a] = "select"
    /\ cancelled[a]
    /\ mode' = [mode EXCEPT ![a] = "stopped"]
    /\ UNCHANGED <<sent, taken, cleared, cancelled>>

(* Run notices the cancellation: a last flush with a context of its own. *)
FinalFlush(a) ==
    /\ mode[a] = "select"
    /\ cancelled[a]
    /\ mode' = [mode EXCEPT ![a] = IF Held(a) > 0 THEN "final" ELSE "stopped"]
    /\ UNCHANGED <<sent, taken, cleared, cancelled>>

AfterFlush(a) == IF mode[a] = "final" THEN "stopped" ELSE "select"

(* Mutant: the batch is not reset after the response. *)
FlushSucceeds_KeepsBatch(a) ==
    /\ InFlush(a)
    /\ mode' = [mode EXCEPT ![a] = AfterFlush(a)]
    /\ UNCHANGED <<sent, taken, cleared, cancelled>>

(* The RPC returned a response: whatever it says, the batch is cleared. *)
FlushSucceeds(a) ==
    /\ InFlush(a)
    /\ cleared' = [cleared EXCEPT ![a] = taken[a]]
    /\ mode' = [mode EXCEPT ![a] = AfterFlush(a)]
    /\ UNCHANGED <<sent, taken, cancelled>>

(* Mutant: the batch is cleared although the RPC failed. *)
FlushFails_Clears(a) ==
    /\ InFlush(a)
    /\ cleared' = [cleared EXCEPT ![a] = taken[a]]
    /\ mode' = [mode EXCEPT ![a] = AfterFlush(a)]
    /\ UNCHANGED <<sent, taken, cancelled>>

(* The RPC returned an error: the batch is kept for the next flush. *)
FlushFails(a) ==
    /\ InFlush(a)
    /\ mode' = [mode EXCEPT ![a] = AfterFlush(a)]
    /\ UNCHANGED <<sent, taken, cleared, cancelled>>

BatcherTypeOK ==
    /\ sent \in [Agents -> 0 .. EventCount]
    /\ taken \in [Agents -> 0 .. EventCount]
    /\ cleared \in [Agents -> 0 .. EventCount]
    /\ mode \in [Agents -> Modes]
    /\ cancelled \in [Agents -> BOOLEAN]
    /\ \A a \in Agents : cleared[a] <= taken[a] /\ taken[a] <= sent[a]
=============================================================================
