----------------------------- MODULE RawRecords -----------------------------
(***************************************************************************)
(* The records of one partition of a topic (raw-events, alerts), numbered  *)
(* by offset from 1: record n is before offset o iff n <= o.               *)
(***************************************************************************)
EXTENDS Naturals

CONSTANT RecordCount  \* bound: records in the partition

ASSUME RecordCountAssumption == RecordCount \in Nat

Records == 1 .. RecordCount
=============================================================================
