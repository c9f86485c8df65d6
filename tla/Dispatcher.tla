----------------------------- MODULE Dispatcher -----------------------------
(***************************************************************************)
(* inch/internal/dispatcher and cmd/notification-dispatcher: instances     *)
(* share a durable JetStream consumer.  Each fetches one alert at a time,  *)
(* sends it to every channel with pkg/retry, puts what a channel did not   *)
(* take into its own dead letter queue (pkg/dlq), and acknowledges the     *)
(* alert whatever happened.                                                *)
(*                                                                         *)
(* JetStream (external) stores an alert until it is acknowledged, and      *)
(* delivers it again when that has not happened within 30 s (the default   *)
(* AckWait).  An instance may be slower than that: three attempts of 10 s  *)
(* each, and the pauses between them.                                      *)
(*                                                                         *)
(* Faults: "stop" (SIGTERM), "crash", "ack" (an acknowledgement is lost),  *)
(* "slow" (AckWait ends while an instance still works), at most MaxFaults  *)
(* of them.  A send may always fail, except in the log channel.            *)
(***************************************************************************)
EXTENDS DeadLetters, FiniteSets

CONSTANTS
    Instances,
    Alerts,       \* alerts in the stream at the start
    Unreadable,   \* those json.Unmarshal fails on
    Channels,     \* the registered channels, a sequence
    Reliable,     \* channels that never fail and ignore the context
    MaxAttempts,  \* retry.WithMaxAttempts
    Nothing,      \* no alert in hand
    Faults, MaxFaults

ChannelSet == {Channels[n] : n \in DOMAIN Channels}

ASSUME DispatcherAssumption ==
    /\ IsFiniteSet(Instances)
    /\ Unreadable \subseteq Alerts /\ Nothing \notin Alerts
    /\ Channels \in Seq(ChannelSet) /\ Channels # <<>>
    /\ \A m, n \in DOMAIN Channels : Channels[m] = Channels[n] => m = n
    /\ Reliable \subseteq ChannelSet
    /\ MaxAttempts \in Nat \ {0}
    /\ Faults \subseteq {"stop", "crash", "ack", "slow"}
    /\ MaxFaults \in Nat

VARIABLES
    stored,     \* alerts in the stream
    available,  \* those of them the consumer delivers next
    at,         \* where each instance is: place, alert in hand, channel, attempt
    ctxDone,    \* whether each process's context is cancelled
    letters,    \* each process's dead letter queue
    pushed,     \* history of each process: letters pushed
    accepted,   \* history: how often a channel's Send returned nil for an alert
    given,      \* history: channels for which a letter of the alert was pushed
    faults

streamVars == <<stored, available>>
letterVars == <<letters, pushed, given>>
vars == <<stored, available, at, ctxDone, letters, pushed, accepted, given, faults>>

(* fetch: in consumer.Fetch; read, send, wait (the pause of retry.Do), ack: *)
(* in handleMessage; returned: Run has returned; down: no process           *)
Places == {"fetch", "read", "send", "wait", "ack", "returned", "down"}
Fetching == [place |-> "fetch", alert |-> Nothing, channel |-> 1, attempt |-> 1]
Returned == [Fetching EXCEPT !.place = "returned"]
Down == [Fetching EXCEPT !.place = "down"]

Init ==
    /\ stored = Alerts /\ available = Alerts
    /\ at = [i \in Instances |-> Fetching]
    /\ ctxDone = [i \in Instances |-> FALSE]
    /\ letters = [i \in Instances |-> <<>>] /\ pushed = [i \in Instances |-> <<>>]
    /\ accepted = [a \in Alerts |-> [c \in ChannelSet |-> 0]]
    /\ given = [a \in Alerts |-> {}]
    /\ faults = 0

Fault(kind) == kind \in Faults /\ faults < MaxFaults /\ faults' = faults + 1

Go(i, where) == at' = [at EXCEPT ![i] = where]
At(i, place) == at[i].place = place
Hand(i) == at[i].alert
Channel(i) == Channels[at[i].channel]

-----------------------------------------------------------------------------
(* The stream. *)
Settle(a) == stored' = stored \ {a} /\ available' = available \ {a}

AckWaitOver(a) ==
    /\ a \in stored \ available
    /\ available' = available \cup {a}
    /\ UNCHANGED <<stored, at, ctxDone, letterVars, accepted>>

Expire(a) == AckWaitOver(a) /\ (\A i \in Instances : Hand(i) # a) /\ UNCHANGED faults
ExpireInHand(a) == AckWaitOver(a) /\ (\E i \in Instances : Hand(i) = a) /\ Fault("slow")

-----------------------------------------------------------------------------
(* Run.  Fetch knows nothing of the context: after a cancellation it may   *)
(* still return one alert.                                                 *)
Fetch(i) ==
    /\ At(i, "fetch")
    /\ \E a \in available :
        /\ available' = available \ {a}
        /\ Go(i, [Fetching EXCEPT !.place = "read", !.alert = a])
    /\ UNCHANGED <<stored, ctxDone, letterVars, accepted, faults>>

(* Mutant: a fetch without an alert never looks at the context. *)
FetchEnds_NoContextCheck(i) == FALSE /\ UNCHANGED vars

FetchEnds(i) ==
    /\ At(i, "fetch") /\ ctxDone[i]
    /\ Go(i, Returned)
    /\ UNCHANGED <<streamVars, ctxDone, letterVars, accepted, faults>>

(* The loop goes on after handleMessage. *)
Loop(i) == Go(i, IF ctxDone[i] THEN Returned ELSE Fetching)

(* Mutant: an alert that cannot be decoded is not acknowledged. *)
DiscardUnreadable_NoAck(i) ==
    /\ At(i, "read") /\ Hand(i) \in Unreadable
    /\ Loop(i)
    /\ UNCHANGED <<streamVars, ctxDone, letterVars, accepted, faults>>

DiscardUnreadable(i) ==
    /\ At(i, "read") /\ Hand(i) \in Unreadable
    /\ Settle(Hand(i))
    /\ Loop(i)
    /\ UNCHANGED <<ctxDone, letterVars, accepted, faults>>

Decode(i) ==
    /\ At(i, "read") /\ Hand(i) \notin Unreadable
    /\ Go(i, [at[i] EXCEPT !.place = "send"])
    /\ UNCHANGED <<streamVars, ctxDone, letterVars, accepted, faults>>

NextChannel(i) ==
    Go(i, IF at[i].channel = Len(Channels)
            THEN [at[i] EXCEPT !.place = "ack", !.attempt = 1]
            ELSE [at[i] EXCEPT !.place = "send", !.channel = @ + 1, !.attempt = 1])

(* With a cancelled context no request is made. *)
SendOk(i) ==
    /\ At(i, "send")
    /\ Channel(i) \in Reliable \/ ~ctxDone[i]
    /\ accepted' = [accepted EXCEPT ![Hand(i)][Channel(i)] = @ + 1]
    /\ NextChannel(i)
    /\ UNCHANGED <<streamVars, ctxDone, letterVars, faults>>

(* Mutant: a delivery given up leaves no dead letter when shutting down. *)
GiveUp_Silently(i) ==
    /\ ctxDone[i]
    /\ UNCHANGED letterVars
    /\ NextChannel(i)

GiveUp(i) ==
    LET letter == [alert |-> Hand(i), channel |-> Channel(i)]
    IN  /\ letters' = [letters EXCEPT ![i] = Push(@, letter)]
        /\ pushed' = [pushed EXCEPT ![i] = Append(@, letter)]
        /\ given' = [given EXCEPT ![Hand(i)] = @ \cup {Channel(i)}]
        /\ NextChannel(i)

SendFails(i) ==
    /\ At(i, "send") /\ Channel(i) \notin Reliable
    /\ IF at[i].attempt < MaxAttempts
         THEN Go(i, [at[i] EXCEPT !.place = "wait"]) /\ UNCHANGED letterVars
         ELSE GiveUp(i)
    /\ UNCHANGED <<streamVars, ctxDone, accepted, faults>>

PauseOver(i) ==
    /\ At(i, "wait") /\ ~ctxDone[i]
    /\ Go(i, [at[i] EXCEPT !.place = "send", !.attempt = @ + 1])
    /\ UNCHANGED <<streamVars, ctxDone, letterVars, accepted, faults>>

PauseCancelled(i) ==
    /\ At(i, "wait") /\ ctxDone[i]
    /\ GiveUp(i)
    /\ UNCHANGED <<streamVars, ctxDone, accepted, faults>>

(* Mutant: an alert some channel did not take is handed back to NATS. *)
Ack_NakOnFailure(i) ==
    /\ At(i, "ack")
    /\ IF given[Hand(i)] = {} THEN Settle(Hand(i))
       ELSE available' = available \cup {Hand(i)} /\ UNCHANGED stored
    /\ Loop(i)
    /\ UNCHANGED <<ctxDone, letterVars, accepted, faults>>

(* The result of Ack is ignored. *)
Ack(i) ==
    /\ At(i, "ack")
    /\ \/ Settle(Hand(i)) /\ UNCHANGED faults
       \/ Fault("ack") /\ UNCHANGED streamVars
    /\ Loop(i)
    /\ UNCHANGED <<ctxDone, letterVars, accepted>>

-----------------------------------------------------------------------------
(* The process; its dead letters are in its memory. *)
Gone(i) ==
    /\ Go(i, Down)
    /\ letters' = [letters EXCEPT ![i] = <<>>] /\ pushed' = [pushed EXCEPT ![i] = <<>>]
    /\ UNCHANGED <<streamVars, ctxDone, accepted, given>>

Exit(i) == At(i, "returned") /\ Gone(i) /\ UNCHANGED faults
Crash(i) == ~At(i, "down") /\ Gone(i) /\ Fault("crash")

Stop(i) ==
    /\ ~At(i, "down") /\ ~ctxDone[i]
    /\ Fault("stop")
    /\ ctxDone' = [ctxDone EXCEPT ![i] = TRUE]
    /\ UNCHANGED <<streamVars, at, letterVars, accepted>>

Restart(i) ==
    /\ At(i, "down")
    /\ Go(i, Fetching)
    /\ ctxDone' = [ctxDone EXCEPT ![i] = FALSE]
    /\ UNCHANGED <<streamVars, letterVars, accepted, faults>>

Work(i) ==
    \/ Fetch(i) \/ FetchEnds(i)
    \/ DiscardUnreadable(i) \/ Decode(i)
    \/ SendOk(i) \/ SendFails(i) \/ PauseOver(i) \/ PauseCancelled(i) \/ Ack(i)
    \/ Exit(i)

Next ==
    \/ \E i \in Instances : Work(i) \/ Crash(i) \/ Stop(i) \/ Restart(i)
    \/ \E a \in Alerts : Expire(a) \/ ExpireInHand(a)

Spec == Init /\ [][Next]_vars

(* Sends return, instances keep running and are restarted, and AckWait ends. *)
FairSpec ==
    /\ Spec
    /\ \A i \in Instances : WF_vars(Work(i)) /\ WF_vars(Restart(i))
    /\ \A a \in Alerts : WF_vars(Expire(a))

-----------------------------------------------------------------------------
Letter == [alert : Alerts, channel : ChannelSet]
Position == [place : Places, alert : Alerts \cup {Nothing},
             channel : DOMAIN Channels, attempt : 1 .. MaxAttempts]

TypeOK ==
    /\ available \subseteq stored /\ stored \subseteq Alerts
    /\ at \in [Instances -> Position]
    /\ ctxDone \in [Instances -> BOOLEAN]
    /\ letters \in [Instances -> Seq(Letter)] /\ pushed \in [Instances -> Seq(Letter)]
    /\ \A i \in Instances : Len(letters[i]) <= DeadLetterCapacity
    /\ accepted \in [Alerts -> [ChannelSet -> Nat]]
    /\ given \in [Alerts -> SUBSET ChannelSet]
    /\ faults \in 0 .. MaxFaults

(* dispatcher.go:107: "failed deliveries go to DLQ".  An alert leaves the  *)
(* stream only when each channel took it or a dead letter was written for  *)
(* it, also when another instance's late acknowledgement removes it.       *)
SettledMeansOutcome ==
    \A a \in Alerts \ (stored \cup Unreadable), c \in ChannelSet :
        accepted[a][c] > 0 \/ c \in given[a]

(* dispatcher.go:108: an alert is not sent again to a channel that took    *)
(* it because another one failed; only a fault makes a channel take twice. *)
RepeatedOnlyByFaults ==
    \A a \in Alerts, c \in ChannelSet : accepted[a][c] <= 1 + faults

(* dlq.go: the bounded queue keeps exactly the newest letters, in order.   *)
NewestLettersKept ==
    \A i \in Instances :
        letters[i] = SubSeq(pushed[i],
                            1 + Len(pushed[i]) - Len(letters[i]), Len(pushed[i]))
        /\ Len(letters[i]) = (IF Len(pushed[i]) < DeadLetterCapacity
                                THEN Len(pushed[i]) ELSE DeadLetterCapacity)

(* Every alert leaves the stream, however channels fail: neither a poison  *)
(* alert nor a dead channel stays in it for ever.                          *)
EveryAlertSettles == <>(stored = {})

(* An instance told to stop comes to its end. *)
StopEnds == \A i \in Instances : ctxDone[i] ~> At(i, "down")
=============================================================================
