--------------------------- MODULE WindowTracker ---------------------------
(***************************************************************************)
(* inch/internal/processor/rules/temporal.go: the sliding window of one    *)
(* threshold rule and group.  Windows of different keys share nothing but  *)
(* the lock, so one is modelled.  No window, and a window without          *)
(* timestamps, are the same to everybody but a size metric.                *)
(*                                                                         *)
(* An entry is [nth, ts]: a timestamp, and the how-manieth event of the    *)
(* window it is of, which stands for its place in the slice.               *)
(***************************************************************************)
EXTENDS Integers, FiniteSets

VARIABLES
    timestamps,  \* slidingWindow.timestamps, a set of entries
    counted,     \* history: entries of all events added since the last alert
    added,       \* history: events added
    consumed     \* history: events the alerts stood for

windowVars == <<timestamps, counted, added, consumed>>

WindowInit == timestamps = {} /\ counted = {} /\ added = 0 /\ consumed = 0

(* Mutant: an event exactly one window old still counts. *)
Pruned_Inclusive(ts, window) == {e \in timestamps : e.ts >= ts - window}

Pruned(ts, window) == {e \in timestamps : e.ts > ts - window}

Fires(ts, window, threshold) == Cardinality(Pruned(ts, window)) + 1 >= threshold

(* Mutant: an alert does not reset the window. *)
AddAndCheck_NoReset(ts, window, threshold) ==
    LET entry == [nth |-> added + 1, ts |-> ts]
    IN  /\ added' = added + 1
        /\ timestamps' = Pruned(ts, window) \cup {entry}
        /\ IF Fires(ts, window, threshold)
             THEN counted' = {} /\ consumed' = consumed + threshold
             ELSE counted' = counted \cup {entry} /\ UNCHANGED consumed

(* The event fires an alert or joins the window. *)
AddAndCheck(ts, window, threshold) ==
    LET entry == [nth |-> added + 1, ts |-> ts]
    IN  /\ added' = added + 1
        /\ IF Fires(ts, window, threshold)
             THEN /\ timestamps' = {} /\ counted' = {}
                  /\ consumed' = consumed + threshold
             ELSE /\ timestamps' = Pruned(ts, window) \cup {entry}
                  /\ counted' = counted \cup {entry}
                  /\ UNCHANGED consumed

(* The window has seen nothing for maxAge. *)
CleanupWindow(now, maxAge) ==
    /\ \E newest \in timestamps :
        /\ \A e \in timestamps : e.nth <= newest.nth
        /\ newest.ts < now - maxAge
    /\ timestamps' = {}
    /\ UNCHANGED <<counted, added, consumed>>
=============================================================================
