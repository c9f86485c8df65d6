--------------------------- MODULE KafkaConsumer ---------------------------
(***************************************************************************)
(* pkg/kafkautil/consumer.go: ConsumeLoop over one partition, and the      *)
(* offsets franz-go commits for it (external, modelled from how the loop   *)
(* uses the client: default auto-commit).  The client remembers up to      *)
(* where it may commit; each call of PollFetches moves that mark over what *)
(* the previous call returned.                                             *)
(***************************************************************************)
EXTENDS RawRecords

CONSTANT MaxPoll  \* bound: records one PollFetches returns

ASSUME ConsumerAssumption == MaxPoll \in Nat \ {0}

VARIABLES
    loop,       \* where the consuming goroutine is
    fetched,    \* last record returned by PollFetches
    handled,    \* last record the handler returned for
    mark,       \* last record the client may commit
    committed   \* the group's committed offset at the broker

consumerVars == <<loop, fetched, handled, mark, committed>>

(* poll: inside PollFetches; handle: inside EachRecord; returned:          *)
(* ConsumeLoop has returned; gone: the process has exited                  *)
LoopStates == {"poll", "handle", "returned", "gone"}

ConsumerInit ==
    /\ loop = "poll"
    /\ fetched = 0 /\ handled = 0 /\ mark = 0 /\ committed = 0

-----------------------------------------------------------------------------
(* Mutant: the mark moves when records are returned, not with the next poll. *)
PollReturns_Greedy ==
    /\ loop = "poll"
    /\ \E k \in 1 .. MaxPoll :
        /\ fetched + k <= RecordCount
        /\ fetched' = fetched + k
    /\ mark' = fetched'
    /\ loop' = "handle"
    /\ UNCHANGED <<handled, committed>>

PollReturns ==
    /\ loop = "poll"
    /\ \E k \in 1 .. MaxPoll :
        /\ fetched + k <= RecordCount
        /\ fetched' = fetched + k
    /\ loop' = "handle"
    /\ UNCHANGED <<handled, mark, committed>>

(* PollFetches returned and ctx.Err() is not nil, or a fetch failed. *)
LoopReturns ==
    /\ loop = "poll"
    /\ loop' = "returned"
    /\ UNCHANGED <<fetched, handled, mark, committed>>

Handling == handled + 1

(* The handler returns for the record in hand, and its error, if any, is   *)
(* swallowed.  After the last record the loop calls PollFetches again.     *)
HandlerReturns ==
    /\ loop = "handle"
    /\ handled' = handled + 1
    /\ IF handled' = fetched
         THEN loop' = "poll" /\ mark' = fetched
         ELSE UNCHANGED <<loop, mark>>
    /\ UNCHANGED <<fetched, committed>>

(* The client's commit timer. *)
AutoCommit ==
    /\ loop # "gone"
    /\ committed < mark
    /\ committed' = mark
    /\ UNCHANGED <<loop, fetched, handled, mark>>

(* consumer.Close() leaves the group, which commits up to the mark; the    *)
(* process exits.                                                          *)
CloseAndExit ==
    /\ loop = "returned"
    /\ committed' = mark
    /\ loop' = "gone"
    /\ UNCHANGED <<fetched, handled, mark>>

(* The process dies: nothing more is committed. *)
Die ==
    /\ loop # "gone"
    /\ loop' = "gone"
    /\ UNCHANGED <<fetched, handled, mark, committed>>

(* A new process of the group resumes at the committed offset. *)
Resume ==
    /\ loop = "gone"
    /\ loop' = "poll"
    /\ fetched' = committed /\ handled' = committed /\ mark' = committed
    /\ UNCHANGED committed

ConsumerTypeOK ==
    /\ loop \in LoopStates
    /\ fetched \in 0 .. RecordCount
    /\ handled \in 0 .. RecordCount
    /\ mark \in 0 .. RecordCount
    /\ committed \in 0 .. RecordCount

(* Offsets never overtake the handler: nothing is committed that was not   *)
(* handed to it, whatever the commit timer, restarts and errors do.        *)
OffsetsOrdered == committed <= mark /\ mark <= handled /\ handled <= fetched
=============================================================================
