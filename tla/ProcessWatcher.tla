--------------------------- MODULE ProcessWatcher ---------------------------
(***************************************************************************)
(* inch/internal/agent/procwatch.go: the process watcher and the process   *)
(* table it polls.  Only the keys of its maps decide anything: a pid that  *)
(* another process uses again between two scans looks unchanged.  A scan   *)
(* lists the pids and then reads each process, which may be gone by then.  *)
(***************************************************************************)
EXTENDS Naturals, FiniteSets

CONSTANTS
    Pids,
    Existing,  \* pids in use when the watcher starts
    MaxSpawns  \* bound: processes started after the watcher

ASSUME WatcherAssumption == Existing \subseteq Pids /\ MaxSpawns \in Nat

VARIABLES
    running,     \* the process table
    spawned,     \* processes started so far
    watcher,     \* what Start is doing
    previous,    \* previousPIDs
    current,     \* currentPIDs, as far as it is read
    pending      \* pids listed and not read, then pids not yet reported

osVars == <<running, spawned>>
watcherVars == <<running, spawned, watcher, previous, current, pending>>

(* select: waiting for the ticker; scan: in scanProcFS; diff: in the two   *)
(* loops; stopped: returned.                                               *)
WatcherModes == {"select", "scan", "diff", "stopped"}

(* The first scan, which may have failed for some processes or for all. *)
WatcherInit ==
    /\ running = Existing /\ spawned = 0
    /\ watcher = "select"
    /\ previous \in SUBSET running
    /\ current = {} /\ pending = {}

-----------------------------------------------------------------------------
Spawn(p) ==
    /\ p \notin running /\ spawned < MaxSpawns
    /\ spawned' = spawned + 1
    /\ running' = running \cup {p}
    /\ UNCHANGED <<watcher, previous, current, pending>>

Terminate(p) ==
    /\ p \in running
    /\ running' = running \ {p}
    /\ UNCHANGED <<spawned, watcher, previous, current, pending>>

(* Mutant: the old snapshot is compared with again. *)
Settle_KeepsPrevious(snapshot) ==
    /\ watcher' = "select"
    /\ UNCHANGED previous
    /\ current' = {} /\ pending' = {}

(* Behind the loops: previousPIDs = currentPIDs. *)
Settle(snapshot) ==
    /\ watcher' = "select"
    /\ previous' = snapshot
    /\ current' = {} /\ pending' = {}

(* The two loops have something to report, or not. *)
Compare(snapshot) ==
    LET changed == (snapshot \ previous) \cup (previous \ snapshot)
    IN  \/ changed = {} /\ Settle(snapshot)
        \/ /\ changed # {}
           /\ watcher' = "diff"
           /\ current' = snapshot /\ pending' = changed
           /\ UNCHANGED previous

(* The rest of /proc is to be read; with the last process the scan ends.   *)
ScanOn(snapshot, unread) ==
    \/ unread = {} /\ Compare(snapshot)
    \/ /\ unread # {}
       /\ watcher' = "scan" /\ pending' = unread /\ current' = snapshot
       /\ UNCHANGED previous

(* The ticker fires and scanProcFS lists /proc. *)
ReadDir == watcher = "select" /\ ScanOn({}, running) /\ UNCHANGED osVars

(* It cannot, and the map is empty. *)
ReadDirFails == watcher = "select" /\ Compare({}) /\ UNCHANGED osVars

(* The command line of a process is read and the process is in the map; of *)
(* one that has ended it cannot be read, and may fail to be of another.    *)
ReadCmdline(p) ==
    /\ watcher = "scan" /\ p \in pending
    /\ ScanOn(current \cup (running \cap {p}), pending \ {p})
    /\ UNCHANGED osVars

ReadCmdlineFails(p) ==
    /\ watcher = "scan" /\ p \in pending
    /\ ScanOn(current, pending \ {p})
    /\ UNCHANGED osVars

Scan == ReadDir \/ \E p \in Pids : ReadCmdline(p)
ScanError == ReadDirFails \/ \E p \in Pids : ReadCmdlineFails(p)

(* The first loop reports what appeared, the second what vanished. *)
Appeared == pending \cap current
ReportStart(p) == watcher = "diff" /\ p \in Appeared
ReportStop(p) == watcher = "diff" /\ Appeared = {} /\ p \in pending

Reported(p) ==
    /\ \/ pending = {p} /\ Settle(current)
       \/ /\ pending # {p}
          /\ pending' = pending \ {p}
          /\ UNCHANGED <<watcher, previous, current>>
    /\ UNCHANGED osVars

(* A cancelled context ends Start in its select or while it waits to send. *)
WatcherStops ==
    /\ watcher \in {"select", "diff"}
    /\ watcher' = "stopped"
    /\ UNCHANGED <<osVars, previous, current, pending>>

TableChanges == \E p \in Pids : Spawn(p) \/ Terminate(p)
=============================================================================
