---------------------------- MODULE MCIngestion ----------------------------
(* Ingestion for TLC: the handlers of the gRPC server are interchangeable. *)
EXTENDS Ingestion, TLC

HandlerSymmetry == Permutations(Handlers)
NoEvents == {}
SecondIsAnonymous == {<<a, 2>> : a \in Agents}
=============================================================================
