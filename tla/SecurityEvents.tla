--------------------------- MODULE SecurityEvents ---------------------------
(***************************************************************************)
(* The events that travel through the pipeline: pb.SecurityEvent, reduced  *)
(* to the agent (hence the host) that saw it and its number in the order   *)
(* in which that agent's sources produced it.                              *)
(***************************************************************************)
EXTENDS Naturals

CONSTANTS
    Agents,     \* agents, one per host
    EventCount  \* bound: events the sources of an agent produce

ASSUME EventCountAssumption == EventCount \in Nat

Events == Agents \X (1 .. EventCount)
=============================================================================
