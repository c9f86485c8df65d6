------------------------------- MODULE Agent -------------------------------
(***************************************************************************)
(* One inch-agent process (inch/cmd/inch-agent/main.go): a log tailer and  *)
(* a process watcher write into the bounded events channel, the batcher    *)
(* reads it and flushes to the collector, and a signal ends them all.      *)
(*                                                                         *)
(* Of the collector only the outcome of the RPC is left; module Ingestion  *)
(* has the rest.                                                           *)
(***************************************************************************)
EXTENDS Batcher, LogTailer, ProcessWatcher

CONSTANTS
    Me,          \* the agent
    MaxFaults,   \* bound: rotations, failed reads of /proc, flushes that fail once
    MaxLoad      \* bound: lines written, and processes started or ended, which count twice

ASSUME AgentAssumption == Agents = {Me} /\ MaxFaults \in Nat /\ MaxLoad \in Nat

VARIABLES
    reported, \* history: the lines the tailer has sent
    told,     \* history: the last event about each pid
    unsent,   \* history: a flush failed that was not cut off by the signal
    faults    \* history: faults so far

vars == <<sent, taken, cleared, mode, cancelled,
          content, path, created, written, tailer, handle, pos, buffer, eof,
          running, spawned, watcher, previous, current, pending, reported, told, unsent, faults>>

historyVars == <<reported, told, unsent, faults>>

Init ==
    /\ BatcherInit /\ TailerInit /\ WatcherInit
    /\ reported = <<>>
    /\ told = [p \in Pids |-> IF p \in previous THEN "start" ELSE "stop"]
    /\ unsent = FALSE
    /\ faults = IF previous = running THEN 0 ELSE 1

Fault ==
    /\ faults < MaxFaults
    /\ faults' = faults + 1

-----------------------------------------------------------------------------
(* Emit is the send into the channel, which a full channel blocks. *)
TailerEmits ==
    /\ EmitLine /\ Emit(Me)
    /\ reported' = Append(reported, Head(buffer))
    /\ UNCHANGED <<watcherVars, told, unsent, faults>>

WatcherEmits(p) ==
    /\ \/ ReportStart(p) /\ told' = [told EXCEPT ![p] = "start"]
       \/ ReportStop(p) /\ told' = [told EXCEPT ![p] = "stop"]
    /\ Reported(p) /\ Emit(Me)
    /\ UNCHANGED <<tailerVars, reported, unsent, faults>>

TailerStep ==
    \/ TailerWorks /\ UNCHANGED <<batcherVars, watcherVars, historyVars>>
    \/ TailerEmits

TailerEnds ==
    cancelled[Me] /\ TailerStops /\ UNCHANGED <<batcherVars, watcherVars, historyVars>>

WatcherStep ==
    \/ Scan /\ UNCHANGED <<batcherVars, tailerVars, historyVars>>
    \/ \E p \in Pids : WatcherEmits(p)

WatcherEnds ==
    cancelled[Me] /\ WatcherStops /\ UNCHANGED <<batcherVars, tailerVars, historyVars>>

BatcherTakes ==
    Take(Me) /\ UNCHANGED <<tailerVars, watcherVars, historyVars>>

(* What flush sends: the whole batch, with every event kept before. *)
BatchSendable == Sendable(Me, cleared[Me] + 1, taken[Me])

(* Timers and flush.  A batch that makes no request fails whenever it is   *)
(* flushed; the flush in progress fails when the agent is cancelled, the   *)
(* final one perhaps, after its timeout of five seconds.                   *)
BatcherStep ==
    /\ \/ TimerFlush(Me) /\ UNCHANGED unsent
       \/ FinalFlush(Me) /\ UNCHANGED unsent
       \/ BatchSendable /\ FlushSucceeds(Me) /\ UNCHANGED unsent
       \/ ~BatchSendable /\ FlushFails(Me) /\ unsent' = TRUE
       \/ mode[Me] = "flushing" /\ cancelled[Me] /\ FlushFails(Me) /\ UNCHANGED unsent
       \/ mode[Me] = "final" /\ FlushFails(Me) /\ unsent' = TRUE
    /\ UNCHANGED <<tailerVars, watcherVars, reported, told, faults>>

FlushFailure ==
    /\ ~cancelled[Me] /\ Fault
    /\ FlushFails(Me) /\ unsent' = TRUE
    /\ UNCHANGED <<tailerVars, watcherVars, reported, told>>

ReadProcFails ==
    /\ ScanError /\ Fault
    /\ UNCHANGED <<batcherVars, tailerVars, reported, told, unsent>>

Rotation ==
    /\ Truncate \/ Rename
    /\ Fault
    /\ UNCHANGED <<batcherVars, watcherVars, reported, told, unsent>>

Signal == Cancel(Me) /\ UNCHANGED <<tailerVars, watcherVars, historyVars>>

(* Processes started or ended so far, and what is left of MaxLoad. *)
Changes == 2 * spawned + Cardinality(Existing) - Cardinality(running)
LoadLeft == MaxLoad - (written - OldLines) - 2 * Changes

Others ==
    /\ \/ LoadLeft > 0 /\ WriteLine /\ UNCHANGED watcherVars
       \/ Create /\ UNCHANGED watcherVars
       \/ LoadLeft > 1 /\ TableChanges /\ UNCHANGED tailerVars
    /\ UNCHANGED <<batcherVars, historyVars>>

Next ==
    \/ TailerStep \/ TailerEnds \/ WatcherStep \/ WatcherEnds
    \/ BatcherTakes \/ BatcherStep \/ FlushFailure \/ ReadProcFails \/ Rotation \/ Signal \/ Others

Spec == Init /\ [][Next]_vars

(* Goroutines keep running, tickers keep firing, and an RPC ends, for a    *)
(* batch that can be sent well but for MaxFaults times.  A select does not *)
(* prefer its ticker for ever to the channel or to the cancelled context.  *)
FairSpec ==
    /\ Spec
    /\ WF_vars(TailerStep) /\ WF_vars(WatcherStep) /\ WF_vars(BatcherStep)
    /\ SF_vars(BatcherTakes) /\ SF_vars(TailerEnds) /\ SF_vars(WatcherEnds)

-----------------------------------------------------------------------------
Ended == mode[Me] = "stopped" /\ tailer = "stopped" /\ watcher = "stopped"

(* tailer.go:56, "we only want NEW lines": whatever rotation does, no line *)
(* is reported twice, none out of order and none from before the start.    *)
NewLinesOnce ==
    /\ \A i, j \in DOMAIN reported : i < j => reported[i] < reported[j]
    /\ \A i \in DOMAIN reported : reported[i] > OldLines

(* What an agent loses with a stop is bounded by its channel: as long as   *)
(* no RPC fails, every event outside of it was delivered.                  *)
StopLossBounded ==
    Ended /\ ~unsent =>
        cleared[Me] = taken[Me] /\ sent[Me] - cleared[Me] <= ChannelCap

(* A line the tailer finds before its scanner has come to the end of the   *)
(* file is reported, unless the file is truncated before.                  *)
FreshLinesAreEmitted ==
    \A n \in Lines \ Blank :
        Unread(n) /\ ~eof ~>
            \/ n \in ToSet(reported) \/ cancelled[Me]
            \/ handle = NoFile \/ n \notin ToSet(content[handle])

(* tailer.go:21, "like tail -f": a line that is in the followed file is    *)
(* reported, whenever it was written.                                      *)
LikeTail ==
    \A n \in Lines \ Blank :
        Unread(n) ~>
            \/ n \in ToSet(reported) \/ cancelled[Me]
            \/ handle = NoFile \/ n \notin ToSet(content[handle])

(* procwatch.go:22: once the process table stays as it is, the events have *)
(* told which pids are in use, through failed scans, processes that end    *)
(* while they are read, pids used again and a full channel.                *)
PictureConverges ==
    <>[](cancelled[Me] \/ \A p \in Pids : told[p] = "start" <=> p \in running)

(* Run holds a batch that no flush can send, and keeps it for ever. *)
Stuck == Held(Me) > 0 /\ ~BatchSendable

(* An event in the channel is delivered, unless the agent is stopped or    *)
(* stuck: a full channel, flushes that fail once and blocked sources come  *)
(* apart again.                                                            *)
WrittenIsDelivered ==
    <>[](cancelled[Me] \/ Stuck \/ cleared[Me] = sent[Me])

(* The errgroup's Wait returns: a signal ends the batcher and both sources *)
(* also when nobody reads the full channel any more.                       *)
AgentEnds == cancelled[Me] ~> Ended
=============================================================================
