---------------------------- MODULE MCDispatcher ----------------------------
(* Dispatcher for TLC: the two channels main registers, the log first. *)
EXTENDS Dispatcher

LogAndWebhook == <<"log", "webhook">>
=============================================================================
