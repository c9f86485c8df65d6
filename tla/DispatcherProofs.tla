-------------------------- MODULE DispatcherProofs --------------------------
(***************************************************************************)
(* What Dispatcher guarantees for any instances, alerts, channels, number  *)
(* of attempts and faults.                                                 *)
(***************************************************************************)
EXTENDS Dispatcher, FiniteSetTheorems, TLAPS

(* Alert a has an outcome for channel c. *)
Outcome(a, c) == accepted[a][c] > 0 \/ c \in given[a]

(* Who handles an alert has it, and pauses only before another attempt. *)
HandsFull ==
    \A i \in Instances :
        /\ At(i, "read") => Hand(i) \in Alerts /\ at[i].channel = 1
        /\ at[i].place \in {"send", "wait", "ack"} => Hand(i) \in Alerts
        /\ At(i, "wait") => at[i].attempt < MaxAttempts

(* The channels an instance has left behind have their outcomes. *)
ChannelsBehind ==
    \A i \in Instances :
        /\ at[i].place \in {"send", "wait"} =>
            \A n \in DOMAIN Channels : n < at[i].channel => Outcome(Hand(i), Channels[n])
        /\ At(i, "ack") => \A n \in DOMAIN Channels : Outcome(Hand(i), Channels[n])

DispatchInv == TypeOK /\ HandsFull /\ ChannelsBehind /\ SettledMeansOutcome

LEMMA ChannelsAreNumbered ==
    /\ Len(Channels) \in Nat \ {0}
    /\ DOMAIN Channels = 1 .. Len(Channels)
    /\ \A n \in DOMAIN Channels : Channels[n] \in ChannelSet
    /\ \A c \in ChannelSet : \E n \in DOMAIN Channels : c = Channels[n]
BY DispatcherAssumption DEF ChannelSet

-----------------------------------------------------------------------------
(* Types *)

LEMMA PushType ==
    ASSUME NEW queue \in Seq(Letter), Len(queue) <= DeadLetterCapacity, NEW letter \in Letter
    PROVE  Push(queue, letter) \in Seq(Letter) /\ Len(Push(queue, letter)) <= DeadLetterCapacity
<1>1. CASE Len(queue) >= DeadLetterCapacity
    <2>1. queue # <<>>
        BY <1>1, DeadLettersAssumption
    <2>2. Tail(queue) \in Seq(Letter) /\ Len(Tail(queue)) = Len(queue) - 1
        BY <2>1
    <2>3. QED
        BY <1>1, <2>2, DeadLettersAssumption DEF Push
<1>2. CASE Len(queue) < DeadLetterCapacity
    BY <1>2, DeadLettersAssumption DEF Push
<1>3. QED
    BY <1>1, <1>2, DeadLettersAssumption

(* The next position after a channel is done with. *)
LEMMA NextPosition ==
    ASSUME TypeOK, HandsFull, NEW i \in Instances, at[i].place \in {"send", "wait"}, NextChannel(i)
    PROVE  /\ at' \in [Instances -> Position]
           /\ HandsFull'
           /\ \A j \in Instances \ {i} : at'[j] = at[j]
           /\ at'[i].alert = Hand(i)
           /\ \/ at'[i].place = "ack" /\ at[i].channel = Len(Channels)
              \/ at'[i].place = "send" /\ at'[i].channel = at[i].channel + 1
<1>1. /\ at[i] \in Position /\ Hand(i) \in Alerts
      /\ at \in [Instances -> Position]
    BY DEF TypeOK, HandsFull, Hand
<1>2. 1 \in 1 .. MaxAttempts
    BY DispatcherAssumption
<1>3. CASE at[i].channel = Len(Channels)
    <2> DEFINE next == [at[i] EXCEPT !.place = "ack", !.attempt = 1]
    <2>1. at' = [at EXCEPT ![i] = next]
        BY <1>3 DEF NextChannel, Go
    <2>2. next \in Position /\ next.place = "ack" /\ next.alert = Hand(i)
        BY <1>1, <1>2 DEF Position, Places, Hand
    <2> HIDE DEF next
    <2>3. QED
        BY <1>1, <1>3, <2>1, <2>2 DEF HandsFull, At, Hand
<1>4. CASE at[i].channel # Len(Channels)
    <2> DEFINE next == [at[i] EXCEPT !.place = "send", !.channel = @ + 1, !.attempt = 1]
    <2>1. at' = [at EXCEPT ![i] = next]
        BY <1>4 DEF NextChannel, Go
    <2>2. at[i].channel + 1 \in DOMAIN Channels
        BY <1>1, <1>4, ChannelsAreNumbered DEF Position
    <2>3. next \in Position /\ next.place = "send" /\ next.alert = Hand(i)
          /\ next.channel = at[i].channel + 1
        BY <1>1, <1>2, <2>2 DEF Position, Places, Hand
    <2> HIDE DEF next
    <2>4. QED
        BY <1>1, <1>4, <2>1, <2>3 DEF HandsFull, At, Hand
<1>5. QED
    BY <1>3, <1>4

LEMMA GiveUpType ==
    ASSUME TypeOK, HandsFull, NEW i \in Instances, at[i].place \in {"send", "wait"}, GiveUp(i)
    PROVE  /\ letters' \in [Instances -> Seq(Letter)] /\ pushed' \in [Instances -> Seq(Letter)]
           /\ \A j \in Instances : Len(letters'[j]) <= DeadLetterCapacity
           /\ given' \in [Alerts -> SUBSET ChannelSet]
<1> DEFINE letter == [alert |-> Hand(i), channel |-> Channel(i)]
<1>1. letter \in Letter
    BY ChannelsAreNumbered DEF TypeOK, HandsFull, Hand, Channel, Letter, Position, At
<1>2. Push(letters[i], letter) \in Seq(Letter) /\ Len(Push(letters[i], letter)) <= DeadLetterCapacity
    BY <1>1, PushType DEF TypeOK
<1>3. Append(pushed[i], letter) \in Seq(Letter)
    BY <1>1 DEF TypeOK
<1>4. letters' = [letters EXCEPT ![i] = Push(letters[i], letter)]
    /\ pushed' = [pushed EXCEPT ![i] = Append(pushed[i], letter)]
    /\ given' = [given EXCEPT ![Hand(i)] = @ \cup {Channel(i)}]
    BY DEF GiveUp
<1>5. Channel(i) \in ChannelSet
    BY <1>1 DEF Letter
<1> HIDE DEF letter
<1>6. QED
    BY <1>2, <1>3, <1>4, <1>5 DEF TypeOK

(* Each action keeps the types and the hands. *)
LEMMA TypeStep == TypeOK /\ HandsFull /\ [Next]_vars => TypeOK' /\ HandsFull'
<1> SUFFICES ASSUME TypeOK, HandsFull, [Next]_vars PROVE TypeOK' /\ HandsFull'
    OBVIOUS
<1> USE DispatcherAssumption, ChannelsAreNumbered DEF streamVars, letterVars
<1>a. Fetching \in Position /\ Returned \in Position /\ Down \in Position
    BY DEF Fetching, Returned, Down, Position, Places
<1>b. /\ Fetching.place = "fetch" /\ Returned.place = "returned" /\ Down.place = "down"
    BY DEF Fetching, Returned, Down
<1>1. ASSUME NEW a \in Alerts, Expire(a) \/ ExpireInHand(a) PROVE TypeOK' /\ HandsFull'
    BY <1>1 DEF Expire, ExpireInHand, AckWaitOver, Fault, TypeOK, HandsFull, At, Hand
<1>2. ASSUME NEW i \in Instances, Fetch(i) PROVE TypeOK' /\ HandsFull'
    <2>1. PICK a \in available : /\ available' = available \ {a}
                                 /\ Go(i, [Fetching EXCEPT !.place = "read", !.alert = a])
        BY <1>2 DEF Fetch
    <2> DEFINE next == [Fetching EXCEPT !.place = "read", !.alert = a]
    <2>2. next \in Position /\ next.place = "read" /\ next.alert = a /\ next.channel = 1 /\ a \in Alerts
        BY <1>a DEF Fetching, Position, Places, TypeOK
    <2>3. at' = [at EXCEPT ![i] = next]
        BY <2>1 DEF Go
    <2> HIDE DEF next
    <2>4. QED
        BY <1>2, <2>1, <2>2, <2>3 DEF Fetch, TypeOK, HandsFull, At, Hand
<1>3. ASSUME NEW i \in Instances, FetchEnds(i) PROVE TypeOK' /\ HandsFull'
    BY <1>3, <1>a, <1>b DEF FetchEnds, Go, TypeOK, HandsFull, At, Hand
<1>4. ASSUME NEW i \in Instances, DiscardUnreadable(i) PROVE TypeOK' /\ HandsFull'
    BY <1>4, <1>a, <1>b DEF DiscardUnreadable, Settle, Loop, Go, TypeOK, HandsFull, At, Hand
<1>5. ASSUME NEW i \in Instances, Decode(i) PROVE TypeOK' /\ HandsFull'
    <2> DEFINE next == [at[i] EXCEPT !.place = "send"]
    <2>1. at[i] \in Position /\ Hand(i) \in Alerts
        BY <1>5 DEF Decode, TypeOK, HandsFull, At
    <2>2. next \in Position /\ next.place = "send" /\ next.alert = Hand(i)
        BY <2>1 DEF Position, Places, Hand
    <2>3. at' = [at EXCEPT ![i] = next]
        BY <1>5 DEF Decode, Go
    <2> HIDE DEF next
    <2>4. QED
        BY <1>5, <2>1, <2>2, <2>3 DEF Decode, TypeOK, HandsFull, At, Hand
<1>6. ASSUME NEW i \in Instances, SendOk(i) PROVE TypeOK' /\ HandsFull'
    <2>1. at' \in [Instances -> Position] /\ HandsFull'
        BY <1>6, NextPosition DEF SendOk, At
    <2>2. accepted' \in [Alerts -> [ChannelSet -> Nat]]
        <3>1. Hand(i) \in Alerts /\ Channel(i) \in ChannelSet
            BY <1>6 DEF SendOk, TypeOK, HandsFull, At, Channel, Position
        <3>2. accepted[Hand(i)][Channel(i)] + 1 \in Nat
            BY <3>1 DEF TypeOK
        <3>3. accepted' = [accepted EXCEPT ![Hand(i)][Channel(i)] = accepted[Hand(i)][Channel(i)] + 1]
            BY <1>6 DEF SendOk
        <3>4. QED
            BY <3>1, <3>2, <3>3 DEF TypeOK
    <2>3. QED
        BY <1>6, <2>1, <2>2 DEF SendOk, TypeOK
<1>7. ASSUME NEW i \in Instances, SendFails(i) PROVE TypeOK' /\ HandsFull'
    <2>1. CASE at[i].attempt < MaxAttempts
        <3> DEFINE next == [at[i] EXCEPT !.place = "wait"]
        <3>a. at[i] \in Position
            BY DEF TypeOK
        <3>1. next \in Position /\ next.place = "wait" /\ next.alert = Hand(i)
              /\ next.attempt < MaxAttempts
            BY <2>1, <3>a DEF Position, Places, Hand
        <3>2. at' = [at EXCEPT ![i] = next] /\ UNCHANGED letterVars
            BY <1>7, <2>1 DEF SendFails, Go
        <3> HIDE DEF next
        <3>3. QED
            BY <1>7, <3>1, <3>2 DEF SendFails, TypeOK, HandsFull, At, Hand
    <2>2. CASE ~(at[i].attempt < MaxAttempts)
        <3>1. GiveUp(i) /\ NextChannel(i)
            BY <1>7, <2>2 DEF SendFails, GiveUp
        <3>2. at' \in [Instances -> Position] /\ HandsFull'
            BY <1>7, <3>1, NextPosition DEF SendFails, At
        <3>3. QED
            BY <1>7, <3>1, <3>2, GiveUpType DEF SendFails, TypeOK, At
    <2>3. QED
        BY <2>1, <2>2
<1>8. ASSUME NEW i \in Instances, PauseOver(i) PROVE TypeOK' /\ HandsFull'
    <2> DEFINE next == [at[i] EXCEPT !.place = "send", !.attempt = @ + 1]
    <2>a. at[i] \in Position
        BY DEF TypeOK
    <2>1. at[i].attempt + 1 \in 1 .. MaxAttempts
        BY <1>8, <2>a DEF PauseOver, HandsFull, Position, At
    <2>2. next \in Position /\ next.place = "send" /\ next.alert = Hand(i)
        BY <2>1, <2>a DEF Position, Places, Hand
    <2>3. at' = [at EXCEPT ![i] = next]
        BY <1>8 DEF PauseOver, Go
    <2> HIDE DEF next
    <2>4. QED
        BY <1>8, <2>2, <2>3 DEF PauseOver, TypeOK, HandsFull, At, Hand
<1>9. ASSUME NEW i \in Instances, PauseCancelled(i) PROVE TypeOK' /\ HandsFull'
    <2>1. GiveUp(i) /\ NextChannel(i) /\ at[i].place \in {"send", "wait"}
        BY <1>9 DEF PauseCancelled, GiveUp, At
    <2>2. at' \in [Instances -> Position] /\ HandsFull'
        BY <2>1, NextPosition
    <2>3. QED
        BY <1>9, <2>1, <2>2, GiveUpType DEF PauseCancelled, TypeOK
<1>10. ASSUME NEW i \in Instances, Ack(i) PROVE TypeOK' /\ HandsFull'
    BY <1>10, <1>a, <1>b DEF Ack, Fault, Settle, Loop, Go, TypeOK, HandsFull, At, Hand
<1>11. ASSUME NEW i \in Instances, Exit(i) \/ Crash(i) PROVE TypeOK' /\ HandsFull'
    <2>1. Gone(i) /\ faults' \in 0 .. MaxFaults
        BY <1>11 DEF Exit, Crash, Fault, TypeOK
    <2>2. <<>> \in Seq(Letter) /\ Len(<<>>) <= DeadLetterCapacity
        BY DeadLettersAssumption
    <2>3. /\ letters' \in [Instances -> Seq(Letter)] /\ pushed' \in [Instances -> Seq(Letter)]
          /\ \A j \in Instances : Len(letters'[j]) <= DeadLetterCapacity
        BY <2>1, <2>2 DEF Gone, TypeOK
    <2>4. QED
        BY <1>a, <1>b, <2>1, <2>3 DEF Gone, Go, TypeOK, HandsFull, At, Hand
<1>12. ASSUME NEW i \in Instances, Stop(i) PROVE TypeOK' /\ HandsFull'
    BY <1>12 DEF Stop, Fault, TypeOK, HandsFull, At, Hand
<1>13. ASSUME NEW i \in Instances, Restart(i) PROVE TypeOK' /\ HandsFull'
    BY <1>13, <1>a, <1>b DEF Restart, Go, TypeOK, HandsFull, At, Hand
<1>14. CASE UNCHANGED vars
    BY <1>14 DEF vars, TypeOK, HandsFull, At, Hand
<1>15. QED
    BY <1>1, <1>2, <1>3, <1>4, <1>5, <1>6, <1>7, <1>8, <1>9, <1>10, <1>11, <1>12, <1>13, <1>14
    DEF Next, Work

(* The invariant holds initially. *)
LEMMA DispatcherInitially == Init => DispatchInv
<1> SUFFICES ASSUME Init PROVE DispatchInv
    OBVIOUS
<1> USE DispatcherAssumption, ChannelsAreNumbered DEF Init
<1>1. TypeOK
    BY DeadLettersAssumption DEF TypeOK, Fetching, Position, Places
<1>2. HandsFull /\ ChannelsBehind
    BY DEF HandsFull, ChannelsBehind, Fetching, At, Hand
<1>3. SettledMeansOutcome
    BY DEF SettledMeansOutcome
<1>4. QED
    BY <1>1, <1>2, <1>3 DEF DispatchInv

-----------------------------------------------------------------------------
(* Outcomes *)

(* No step takes an outcome back. *)
LEMMA OutcomesStay ==
    ASSUME DispatchInv, [Next]_vars, NEW a \in Alerts, NEW c \in ChannelSet, Outcome(a, c)
    PROVE  Outcome(a, c)'
<1> USE DEF Outcome, streamVars, letterVars
<1>1. ASSUME NEW i \in Instances, SendOk(i) PROVE Outcome(a, c)'
    BY <1>1 DEF SendOk, DispatchInv, TypeOK
<1>2. ASSUME NEW i \in Instances, GiveUp(i), accepted' = accepted PROVE Outcome(a, c)'
    BY <1>2 DEF GiveUp, DispatchInv, TypeOK
<1>3. ASSUME NEW i \in Instances, SendFails(i) PROVE Outcome(a, c)'
    BY <1>2, <1>3 DEF SendFails
<1>4. ASSUME NEW i \in Instances, PauseCancelled(i) PROVE Outcome(a, c)'
    BY <1>2, <1>4 DEF PauseCancelled
<1>5. ASSUME NEW i \in Instances,
             Work(i) \/ Crash(i) \/ Stop(i) \/ Restart(i)
      PROVE  Outcome(a, c)'
    BY <1>1, <1>3, <1>4, <1>5
    DEF Work, Fetch, FetchEnds, DiscardUnreadable, Decode, PauseOver, Ack, Exit, Crash, Gone, Stop, Restart
<1>6. ASSUME NEW b \in Alerts, Expire(b) \/ ExpireInHand(b) PROVE Outcome(a, c)'
    BY <1>6 DEF Expire, ExpireInHand, AckWaitOver
<1>7. QED
    BY <1>5, <1>6 DEF Next, vars

(* A channel that took the alert, or was given up, is behind the instance. *)
LEMMA MoveOn ==
    ASSUME DispatchInv, [Next]_vars, NEW i \in Instances,
           at[i].place \in {"send", "wait"}, NextChannel(i),
           NEW a, a = Hand(i), NEW c, c = Channel(i), Outcome(a, c)'
    PROVE  ChannelsBehind'
<1>1. /\ at[i] \in Position /\ a \in Alerts
      /\ at[i].channel \in DOMAIN Channels
    BY DEF DispatchInv, TypeOK, HandsFull, Hand, Position
<1>2. ASSUME NEW n \in DOMAIN Channels, n <= at[i].channel PROVE Outcome(a, Channels[n])'
    <2>1. CASE n = at[i].channel
        BY <2>1 DEF Channel
    <2>2. CASE n # at[i].channel
        <3>1. n < at[i].channel
            BY <1>2, <2>2, <1>1, ChannelsAreNumbered
        <3>2. Outcome(a, Channels[n]) /\ Channels[n] \in ChannelSet
            BY <3>1, ChannelsAreNumbered DEF DispatchInv, ChannelsBehind
        <3>3. QED
            BY <1>1, <3>2, OutcomesStay
    <2>3. QED
        BY <2>1, <2>2
<1>3. /\ \A j \in Instances \ {i} : at'[j] = at[j]
      /\ at'[i].alert = a
      /\ \/ at'[i].place = "ack" /\ at[i].channel = Len(Channels)
         \/ at'[i].place = "send" /\ at'[i].channel = at[i].channel + 1
    BY NextPosition DEF DispatchInv
<1>4. ASSUME NEW j \in Instances \ {i}, NEW n \in DOMAIN Channels,
             Outcome(Hand(j), Channels[n]), at[j].place \in {"send", "wait", "ack"}
      PROVE  Outcome(Hand(j), Channels[n])'
    <2>1. Hand(j) \in Alerts /\ Hand(j)' = Hand(j)
        BY <1>3, <1>4 DEF DispatchInv, HandsFull, Hand
    <2>2. PICK b \in Alerts : b = Hand(j)
        BY <2>1
    <2>3. Outcome(b, Channels[n])'
        BY <1>4, <2>2, ChannelsAreNumbered, OutcomesStay
    <2>4. QED
        BY <2>1, <2>2, <2>3 DEF Outcome
<1>5. ASSUME NEW n \in DOMAIN Channels, at'[i].place \in {"send", "wait"} => n < at'[i].channel
      PROVE  Outcome(Hand(i), Channels[n])'
    <2>1. n <= at[i].channel
        BY <1>1, <1>3, <1>5, ChannelsAreNumbered
    <2>2. Outcome(a, Channels[n])'
        BY <1>2, <2>1
    <2>3. QED
        BY <1>3, <2>2 DEF Outcome, Hand
<1>6. QED
    BY <1>3, <1>4, <1>5 DEF DispatchInv, ChannelsBehind, At

(* An instance that stays with its alert and channel keeps what is behind it. *)
LEMMA StayOn ==
    ASSUME DispatchInv, [Next]_vars,
           \A j \in Instances :
               \/ at'[j] = at[j]
               \/ at'[j].place \notin {"send", "wait", "ack"}
               \/ at'[j].place = "send" /\ at'[j].channel = 1
               \/ /\ at'[j].place \in {"send", "wait"} /\ at[j].place \in {"send", "wait"}
                  /\ at'[j].channel = at[j].channel /\ at'[j].alert = at[j].alert
    PROVE  ChannelsBehind'
<1> SUFFICES ASSUME NEW j \in Instances, NEW n \in DOMAIN Channels,
                    \/ at'[j].place \in {"send", "wait"} /\ n < at'[j].channel
                    \/ at'[j].place = "ack"
             PROVE  Outcome(Hand(j), Channels[n])'
    BY DEF ChannelsBehind, At
<1>1. ~(n < 1)
    BY ChannelsAreNumbered
<1>2. /\ at'[j].alert = at[j].alert /\ at[j].place \in {"send", "wait", "ack"}
      /\ Outcome(Hand(j), Channels[n])
    BY <1>1 DEF DispatchInv, ChannelsBehind, At
<1>3. PICK b \in Alerts : b = Hand(j)
    BY <1>2 DEF DispatchInv, HandsFull
<1>4. Outcome(b, Channels[n])'
    BY <1>2, <1>3, ChannelsAreNumbered, OutcomesStay
<1>5. QED
    BY <1>2, <1>3, <1>4 DEF Outcome, Hand

LEMMA BehindStep == DispatchInv /\ [Next]_vars => ChannelsBehind'
<1> SUFFICES ASSUME DispatchInv, [Next]_vars PROVE ChannelsBehind'
    OBVIOUS
<1>a. /\ at \in [Instances -> Position]
      /\ \A i \in Instances : at[i] \in Position
      /\ \A i \in Instances : at[i].place = "read" => at[i].channel = 1
      /\ \A i \in Instances : at[i].place \in {"send", "wait"} =>
            Hand(i) \in Alerts /\ Channel(i) \in ChannelSet
    BY ChannelsAreNumbered DEF DispatchInv, TypeOK, HandsFull, At, Position, Channel
<1>b. /\ Fetching.place = "fetch" /\ Returned.place = "returned" /\ Down.place = "down"
    BY DEF Fetching, Returned, Down
<1>1. ASSUME NEW a \in Alerts, Expire(a) \/ ExpireInHand(a) PROVE ChannelsBehind'
    BY <1>1, StayOn DEF Expire, ExpireInHand, AckWaitOver
<1>2. ASSUME NEW i \in Instances, Fetch(i) PROVE ChannelsBehind'
    <2>1. PICK a \in available : at' = [at EXCEPT ![i] = [Fetching EXCEPT !.place = "read", !.alert = a]]
        BY <1>2 DEF Fetch, Go
    <2>2. at'[i].place = "read" /\ \A j \in Instances \ {i} : at'[j] = at[j]
        BY <1>a, <2>1 DEF Fetching
    <2>3. QED
        BY <2>2, StayOn
<1>3. ASSUME NEW i \in Instances,
             FetchEnds(i) \/ DiscardUnreadable(i) \/ Ack(i) \/ Exit(i) \/ Crash(i) \/ Restart(i)
      PROVE  ChannelsBehind'
    <2>1. \E where \in {Fetching, Returned, Down} : at' = [at EXCEPT ![i] = where]
        BY <1>3 DEF FetchEnds, DiscardUnreadable, Ack, Exit, Crash, Restart, Gone, Loop, Go
    <2>2. at'[i].place \in {"fetch", "returned", "down"} /\ \A j \in Instances \ {i} : at'[j] = at[j]
        BY <1>a, <1>b, <2>1
    <2>3. QED
        BY <2>2, StayOn
<1>4. ASSUME NEW i \in Instances, Decode(i) PROVE ChannelsBehind'
    <2>1. at' = [at EXCEPT ![i] = [at[i] EXCEPT !.place = "send"]] /\ at[i].channel = 1
        BY <1>4, <1>a DEF Decode, Go, At
    <2>2. /\ at'[i].place = "send" /\ at'[i].channel = 1
          /\ \A j \in Instances \ {i} : at'[j] = at[j]
        BY <1>a, <2>1 DEF Position
    <2>3. QED
        BY <2>2, StayOn
<1>5. ASSUME NEW i \in Instances, SendOk(i) PROVE ChannelsBehind'
    <2>1. /\ at[i].place \in {"send", "wait"} /\ NextChannel(i)
          /\ accepted' = [accepted EXCEPT ![Hand(i)][Channel(i)] = @ + 1]
        BY <1>5 DEF SendOk, At
    <2>2. PICK a \in Alerts, c \in ChannelSet : a = Hand(i) /\ c = Channel(i)
        BY <1>a, <2>1
    <2>3. Outcome(a, c)'
        BY <2>1, <2>2 DEF Outcome, DispatchInv, TypeOK
    <2>4. QED
        BY <2>1, <2>2, <2>3, MoveOn
<1>6. ASSUME NEW i \in Instances, at[i].place \in {"send", "wait"}, GiveUp(i) PROVE ChannelsBehind'
    <2>1. NextChannel(i) /\ given' = [given EXCEPT ![Hand(i)] = @ \cup {Channel(i)}]
        BY <1>6 DEF GiveUp
    <2>2. PICK a \in Alerts, c \in ChannelSet : a = Hand(i) /\ c = Channel(i)
        BY <1>a, <1>6
    <2>3. Outcome(a, c)'
        BY <2>1, <2>2 DEF Outcome, DispatchInv, TypeOK
    <2>4. QED
        BY <1>6, <2>1, <2>2, <2>3, MoveOn
<1>7. ASSUME NEW i \in Instances, SendFails(i) PROVE ChannelsBehind'
    <2>1. CASE at[i].attempt < MaxAttempts
        <3>1. at[i].place = "send" /\ at' = [at EXCEPT ![i] = [at[i] EXCEPT !.place = "wait"]]
            BY <1>7, <2>1 DEF SendFails, Go, At
        <3>2. /\ at'[i].place = "wait" /\ at'[i].channel = at[i].channel
              /\ at'[i].alert = at[i].alert /\ \A j \in Instances \ {i} : at'[j] = at[j]
            BY <1>a, <3>1 DEF Position
        <3>3. QED
            BY <3>1, <3>2, StayOn
    <2>2. CASE ~(at[i].attempt < MaxAttempts)
        BY <1>6, <1>7, <2>2 DEF SendFails, At
    <2>3. QED
        BY <2>1, <2>2
<1>8. ASSUME NEW i \in Instances, PauseOver(i) PROVE ChannelsBehind'
    <2>1. /\ at[i].place = "wait"
          /\ at' = [at EXCEPT ![i] = [at[i] EXCEPT !.place = "send", !.attempt = @ + 1]]
        BY <1>8 DEF PauseOver, Go, At
    <2>2. /\ at'[i].place = "send" /\ at'[i].channel = at[i].channel
          /\ at'[i].alert = at[i].alert /\ \A j \in Instances \ {i} : at'[j] = at[j]
        BY <1>a, <2>1 DEF Position
    <2>3. QED
        BY <2>1, <2>2, StayOn
<1>9. ASSUME NEW i \in Instances, PauseCancelled(i) PROVE ChannelsBehind'
    BY <1>6, <1>9 DEF PauseCancelled, At
<1>10. ASSUME NEW i \in Instances, Stop(i) PROVE ChannelsBehind'
    BY <1>10, StayOn DEF Stop
<1>11. CASE UNCHANGED vars
    BY <1>11, StayOn DEF vars
<1>12. QED
    BY <1>1, <1>2, <1>3, <1>4, <1>5, <1>7, <1>8, <1>9, <1>10, <1>11 DEF Next, Work

(* An acknowledgement settles an alert only behind its last channel. *)
LEMMA SettledStep == DispatchInv /\ [Next]_vars => SettledMeansOutcome'
<1> SUFFICES ASSUME DispatchInv, [Next]_vars,
                    NEW a \in Alerts, a \notin stored' \cup Unreadable, NEW c \in ChannelSet
             PROVE  Outcome(a, c)'
    BY DEF SettledMeansOutcome, Outcome
<1>1. ASSUME a \notin stored PROVE Outcome(a, c)
    BY <1>1 DEF DispatchInv, SettledMeansOutcome, Outcome
<1>2. ASSUME a \in stored PROVE Outcome(a, c)
    <2>1. PICK i \in Instances : Ack(i) \/ DiscardUnreadable(i)
        BY <1>2
        DEF Next, vars, streamVars, Work, Expire, ExpireInHand, AckWaitOver, Fetch, FetchEnds, Decode,
            SendOk, SendFails, PauseOver, PauseCancelled, Exit, Crash, Gone, Stop, Restart
    <2>2. a = Hand(i)
        BY <1>2, <2>1 DEF Ack, DiscardUnreadable, Settle, streamVars
    <2>3. At(i, "ack")
        BY <2>1, <2>2 DEF Ack, DiscardUnreadable
    <2>4. PICK n \in DOMAIN Channels : c = Channels[n]
        BY ChannelsAreNumbered
    <2>5. Outcome(Hand(i), Channels[n])
        BY <2>3 DEF DispatchInv, ChannelsBehind
    <2>6. QED
        BY <2>2, <2>4, <2>5
<1>3. Outcome(a, c)
    BY <1>1, <1>2
<1>4. QED
    BY <1>3, OutcomesStay

LEMMA DispatchInvariant == Spec => []DispatchInv
<1>1. DispatchInv /\ [Next]_vars => DispatchInv'
    BY TypeStep, BehindStep, SettledStep DEF DispatchInv
<1>2. QED
    BY <1>1, DispatcherInitially, PTL DEF Spec

(* The dispatcher keeps its types, and no dead letter queue outgrows its   *)
(* capacity.                                                               *)
THEOREM DispatcherTypeCorrect == Spec => []TypeOK
BY DispatchInvariant, PTL DEF DispatchInv

(* However instances share, repeat, crash or stop: an alert leaves the     *)
(* stream only when every channel took it or left a dead letter.           *)
THEOREM NothingSettlesUnsent == Spec => []SettledMeansOutcome
BY DispatchInvariant, PTL DEF DispatchInv

-----------------------------------------------------------------------------
(* Repetitions *)

(* Who may still send alert a to channel c in its present handling of it. *)
Pending(a, c) ==
    {i \in Instances :
        /\ Hand(i) = a
        /\ \/ At(i, "read")
           \/ /\ at[i].place \in {"send", "wait"}
              /\ \E n \in DOMAIN Channels : Channels[n] = c /\ at[i].channel <= n}

(* The stream may hand alert a out, now or when AckWait is over. *)
Open(a) == a \in stored /\ (a \in available \/ \A i \in Instances : Hand(i) # a)

Chances(a, c) == accepted[a][c] + Cardinality(Pending(a, c)) + (IF Open(a) THEN 1 ELSE 0)

HandsEmpty ==
    \A i \in Instances : at[i].place \in {"fetch", "returned", "down"} => Hand(i) = Nothing

(* Sends that succeeded and those that still may are paid for by faults. *)
ChancesPaid == \A a \in Alerts, c \in ChannelSet : Chances(a, c) <= 1 + faults

RepetitionInv == DispatchInv /\ HandsEmpty /\ ChancesPaid

LEMMA EmptyStep == DispatchInv /\ HandsEmpty /\ [Next]_vars => HandsEmpty'
<1> SUFFICES ASSUME DispatchInv, HandsEmpty, [Next]_vars PROVE HandsEmpty'
    OBVIOUS
<1>a. /\ at \in [Instances -> Position] /\ \A i \in Instances : at[i] \in Position
    BY DEF DispatchInv, TypeOK
<1>b. /\ Fetching.alert = Nothing /\ Returned.alert = Nothing /\ Down.alert = Nothing
    BY DEF Fetching, Returned, Down
<1>1. ASSUME NEW i \in Instances,
             FetchEnds(i) \/ DiscardUnreadable(i) \/ Ack(i) \/ Exit(i) \/ Crash(i) \/ Restart(i)
      PROVE  HandsEmpty'
    <2>1. \E where \in {Fetching, Returned, Down} : at' = [at EXCEPT ![i] = where]
        BY <1>1 DEF FetchEnds, DiscardUnreadable, Ack, Exit, Crash, Restart, Gone, Loop, Go
    <2>2. QED
        BY <1>a, <1>b, <2>1 DEF HandsEmpty, Hand
<1>2. ASSUME NEW i \in Instances, Fetch(i) PROVE HandsEmpty'
    <2>1. PICK a \in available : at' = [at EXCEPT ![i] = [Fetching EXCEPT !.place = "read", !.alert = a]]
        BY <1>2 DEF Fetch, Go
    <2>2. at'[i].place = "read" /\ \A j \in Instances \ {i} : at'[j] = at[j]
        BY <1>a, <2>1 DEF Fetching
    <2>3. QED
        BY <2>2 DEF HandsEmpty, Hand
<1>3. ASSUME NEW i \in Instances, at[i].place \in {"send", "wait"}, NextChannel(i) PROVE HandsEmpty'
    BY <1>3, NextPosition DEF DispatchInv, HandsEmpty, Hand
<1>4. ASSUME NEW i \in Instances, SendOk(i) \/ PauseCancelled(i) PROVE HandsEmpty'
    BY <1>3, <1>4 DEF SendOk, PauseCancelled, GiveUp, At
<1>5. ASSUME NEW i \in Instances, SendFails(i) PROVE HandsEmpty'
    <2>1. CASE at[i].attempt < MaxAttempts
        BY <1>5, <1>a, <2>1 DEF SendFails, Go, HandsEmpty, Hand, Position
    <2>2. CASE ~(at[i].attempt < MaxAttempts)
        BY <1>3, <1>5, <2>2 DEF SendFails, GiveUp, At
    <2>3. QED
        BY <2>1, <2>2
<1>6. ASSUME NEW i \in Instances, Decode(i) \/ PauseOver(i) PROVE HandsEmpty'
    <2>1. at'[i].place = "send" /\ \A j \in Instances \ {i} : at'[j] = at[j]
        <3>1. CASE Decode(i)
            BY <1>a, <3>1 DEF Decode, Go, Position
        <3>2. CASE PauseOver(i)
            BY <1>a, <3>2 DEF PauseOver, Go, Position
        <3>3. QED
            BY <1>6, <3>1, <3>2
    <2>2. QED
        BY <2>1 DEF HandsEmpty, Hand
<1>7. ASSUME UNCHANGED at PROVE HandsEmpty'
    BY <1>7 DEF HandsEmpty, Hand
<1>8. ASSUME NEW i \in Instances, Stop(i) PROVE HandsEmpty'
    BY <1>7, <1>8 DEF Stop
<1>9. ASSUME NEW a \in Alerts, Expire(a) \/ ExpireInHand(a) PROVE HandsEmpty'
    BY <1>7, <1>9 DEF Expire, ExpireInHand, AckWaitOver
<1>10. CASE UNCHANGED vars
    BY <1>7, <1>10 DEF vars
<1>11. QED
    BY <1>1, <1>2, <1>4, <1>5, <1>6, <1>8, <1>9, <1>10 DEF Next, Work

(* The arithmetic of a step that changes the chances of one pair. *)
LEMMA ChancesStep ==
    ASSUME RepetitionInv, TypeOK', NEW a \in Alerts, NEW c \in ChannelSet,
           \/ /\ accepted'[a][c] = accepted[a][c] /\ Pending(a, c)' \subseteq Pending(a, c)
              /\ (Open(a)' => Open(a)) /\ faults' >= faults
           \/ /\ accepted'[a][c] = accepted[a][c] /\ Pending(a, c)' \subseteq Pending(a, c)
              /\ faults' = faults + 1
           \/ \E i \in Instances :
                /\ accepted'[a][c] = accepted[a][c]
                /\ Pending(a, c)' \subseteq Pending(a, c) \cup {i}
                /\ Open(a) /\ ~Open(a)' /\ faults' = faults
           \/ \E i \in Pending(a, c) :
                /\ accepted'[a][c] = accepted[a][c] + 1
                /\ Pending(a, c)' \subseteq Pending(a, c) \ {i}
                /\ (Open(a)' => Open(a)) /\ faults' = faults
    PROVE  Chances(a, c)' <= 1 + faults'
<1> DEFINE P == Pending(a, c)
           Q == Pending(a, c)'
           o == IF Open(a) THEN 1 ELSE 0
           p == IF Open(a)' THEN 1 ELSE 0
<1>1. /\ IsFiniteSet(P) /\ IsFiniteSet(Q) /\ Cardinality(P) \in Nat /\ Cardinality(Q) \in Nat
    <2>1. P \subseteq Instances /\ Q \subseteq Instances
        BY DEF Pending
    <2>2. IsFiniteSet(P) /\ IsFiniteSet(Q)
        BY <2>1, FS_Subset, DispatcherAssumption
    <2>3. QED
        BY <2>2, FS_CardinalityType
<1>2. /\ accepted[a][c] \in Nat /\ accepted'[a][c] \in Nat
      /\ faults \in Nat /\ faults' \in Nat
    BY DispatcherAssumption DEF RepetitionInv, DispatchInv, TypeOK
<1>3. accepted[a][c] + Cardinality(P) + o <= 1 + faults
    BY DEF RepetitionInv, ChancesPaid, Chances
<1>4. SUFFICES accepted'[a][c] + Cardinality(Q) + p <= 1 + faults'
    BY DEF Chances
<1>5. o \in {0, 1} /\ p \in {0, 1}
    OBVIOUS
<1>6. Q \subseteq P => Cardinality(Q) <= Cardinality(P)
    BY <1>1, FS_Subset
<1>7. ASSUME NEW i, Q \subseteq P \cup {i} PROVE Cardinality(Q) <= Cardinality(P) + 1
    <2>a. /\ IsFiniteSet(P \cup {i})
          /\ Cardinality(P \cup {i}) = IF i \in P THEN Cardinality(P) ELSE Cardinality(P) + 1
        BY <1>1, FS_AddElement
    <2> HIDE DEF P, Q
    <2>1. IsFiniteSet(P \cup {i}) /\ Cardinality(P \cup {i}) <= Cardinality(P) + 1
        BY <1>1, <2>a
    <2>2. Cardinality(Q) <= Cardinality(P \cup {i}) /\ Cardinality(P \cup {i}) \in Nat
        BY <1>7, <2>1, FS_Subset, FS_CardinalityType
    <2>3. QED
        BY <1>1, <2>1, <2>2
<1>8. ASSUME NEW i \in P, Q \subseteq P \ {i} PROVE Cardinality(Q) <= Cardinality(P) - 1
    <2>1. IsFiniteSet(P \ {i}) /\ Cardinality(P \ {i}) = Cardinality(P) - 1
        BY <1>1, FS_RemoveElement
    <2>2. Cardinality(Q) <= Cardinality(P \ {i})
        BY <1>8, <2>1, FS_Subset
    <2>3. QED
        BY <2>1, <2>2
<1>a. (Open(a)' => Open(a)) => p <= o
    OBVIOUS
<1>b. Open(a) /\ ~Open(a)' => o = 1 /\ p = 0
    OBVIOUS
<1>9. CASE /\ accepted'[a][c] = accepted[a][c] /\ Q \subseteq P
           /\ (Open(a)' => Open(a)) /\ faults' >= faults
    <2> HIDE DEF P, Q, o, p
    <2>1. QED
        BY <1>1, <1>2, <1>3, <1>5, <1>6, <1>9, <1>a
<1>10. CASE accepted'[a][c] = accepted[a][c] /\ Q \subseteq P /\ faults' = faults + 1
    <2> HIDE DEF P, Q, o, p
    <2>1. QED
        BY <1>1, <1>2, <1>3, <1>5, <1>6, <1>10
<1>11. ASSUME NEW i \in Instances, accepted'[a][c] = accepted[a][c], Q \subseteq P \cup {i},
              Open(a), ~Open(a)', faults' = faults
       PROVE  accepted'[a][c] + Cardinality(Q) + p <= 1 + faults'
    <2> HIDE DEF P, Q, o, p
    <2>1. Cardinality(Q) <= Cardinality(P) + 1
        BY <1>7, <1>11
    <2>2. o = 1 /\ p = 0
        BY <1>11, <1>b
    <2>3. QED
        BY <1>1, <1>2, <1>3, <1>11, <2>1, <2>2
<1>12. ASSUME NEW i \in P, accepted'[a][c] = accepted[a][c] + 1, Q \subseteq P \ {i},
              Open(a)' => Open(a), faults' = faults
       PROVE  accepted'[a][c] + Cardinality(Q) + p <= 1 + faults'
    <2> HIDE DEF P, Q, o, p
    <2>1. QED
        BY <1>1, <1>2, <1>3, <1>5, <1>8, <1>12, <1>a
<1> HIDE DEF o, p
<1>13. QED
    BY <1>9, <1>10, <1>11, <1>12

(* As long as hands and stream stay the same, so does Open. *)
LEMMA OpenStays ==
    ASSUME UNCHANGED streamVars, \A j \in Instances : at'[j].alert = at[j].alert, NEW a
    PROVE  Open(a)' <=> Open(a)
BY DEF streamVars, Open, Hand

(* A step of one instance that neither sends nor takes an alert. *)
LEMMA PendingShrinks ==
    ASSUME RepetitionInv, NEW i \in Instances, \A j \in Instances \ {i} : at'[j] = at[j],
           \/ at'[i].alert = Nothing
           \/ at'[i].place \notin {"read", "send", "wait"}
           \/ /\ at'[i].alert = at[i].alert /\ at'[i].place \in {"send", "wait"}
              /\ at[i].place \in {"read", "send", "wait"}
              /\ at[i].channel <= at'[i].channel,
           at'[i].channel \in Nat, NEW a \in Alerts, NEW c
    PROVE  Pending(a, c)' \subseteq Pending(a, c)
<1> SUFFICES ASSUME NEW j \in Pending(a, c)' PROVE j \in Pending(a, c)
    OBVIOUS
<1>1. CASE j # i
    BY <1>1 DEF Pending, At, Hand
<1>2. CASE j = i
    <2>1. at'[i].alert = a /\ a # Nothing
        BY <1>2, DispatcherAssumption DEF Pending, Hand
    <2>2. /\ at[i].alert = a /\ at'[i].place \in {"send", "wait"}
          /\ at[i].place \in {"read", "send", "wait"}
          /\ at[i].channel <= at'[i].channel
        BY <1>2, <2>1 DEF Pending, At
    <2>3. PICK n \in DOMAIN Channels : Channels[n] = c /\ at'[i].channel <= n
        BY <1>2, <2>2 DEF Pending, At
    <2>4. at[i].channel <= n
        BY <2>2, <2>3, ChannelsAreNumbered DEF RepetitionInv, DispatchInv, TypeOK, Position
    <2>5. QED
        BY <1>2, <2>2, <2>3, <2>4 DEF Pending, At, Hand
<1>3. QED
    BY <1>1, <1>2

LEMMA ChancesKept == RepetitionInv /\ [Next]_vars => ChancesPaid'
<1> SUFFICES ASSUME RepetitionInv, [Next]_vars, NEW a \in Alerts, NEW c \in ChannelSet
             PROVE  Chances(a, c)' <= 1 + faults'
    BY DEF ChancesPaid
<1>a. /\ at \in [Instances -> Position] /\ \A i \in Instances : at[i] \in Position
      /\ accepted \in [Alerts -> [ChannelSet -> Nat]] /\ faults \in Nat
      /\ available \subseteq stored
    BY DispatcherAssumption DEF RepetitionInv, DispatchInv, TypeOK
<1>b. TypeOK' /\ HandsEmpty'
    BY TypeStep, EmptyStep DEF RepetitionInv, DispatchInv
<1>c. \A i \in Instances : at'[i] \in Position /\ at'[i].channel \in Nat
    BY <1>b, ChannelsAreNumbered DEF TypeOK, Position
<1>d. /\ Fetching.alert = Nothing /\ Returned.alert = Nothing /\ Down.alert = Nothing
    BY DEF Fetching, Returned, Down
<1>1. ASSUME NEW b \in Alerts, Expire(b) PROVE Chances(a, c)' <= 1 + faults'
    <2>1. UNCHANGED <<stored, at, accepted, faults>> /\ available' = available \cup {b} /\ b \in stored
        BY <1>1 DEF Expire, AckWaitOver
    <2>2. Pending(a, c)' = Pending(a, c)
        BY <2>1 DEF Pending, At, Hand
    <2>3. Open(a)' => Open(a)
        BY <1>1, <2>1 DEF Open, Expire, Hand
    <2>4. QED
        BY <1>a, <1>b, <2>1, <2>2, <2>3, ChancesStep
<1>2. ASSUME NEW b \in Alerts, ExpireInHand(b) PROVE Chances(a, c)' <= 1 + faults'
    <2>1. UNCHANGED <<at, accepted>> /\ faults' = faults + 1
        BY <1>2 DEF ExpireInHand, AckWaitOver, Fault
    <2>2. Pending(a, c)' = Pending(a, c)
        BY <2>1 DEF Pending, At, Hand
    <2>3. QED
        BY <1>b, <2>1, <2>2, ChancesStep
<1>3. ASSUME NEW i \in Instances, Stop(i) PROVE Chances(a, c)' <= 1 + faults'
    <2>1. UNCHANGED <<at, accepted>> /\ faults' = faults + 1
        BY <1>3 DEF Stop, Fault
    <2>2. Pending(a, c)' = Pending(a, c)
        BY <2>1 DEF Pending, At, Hand
    <2>3. QED
        BY <1>b, <2>1, <2>2, ChancesStep
<1>4. ASSUME NEW i \in Instances, Crash(i) PROVE Chances(a, c)' <= 1 + faults'
    <2>1. at' = [at EXCEPT ![i] = Down] /\ UNCHANGED accepted /\ faults' = faults + 1
        BY <1>4 DEF Crash, Gone, Go, Fault
    <2>2. at'[i].alert = Nothing /\ \A j \in Instances \ {i} : at'[j] = at[j]
        BY <1>a, <1>d, <2>1
    <2>3. Pending(a, c)' \subseteq Pending(a, c)
        BY <1>c, <2>2, PendingShrinks
    <2>4. QED
        BY <1>b, <2>1, <2>3, ChancesStep
<1>5. ASSUME NEW i \in Instances, FetchEnds(i) \/ Exit(i) \/ Restart(i)
      PROVE  Chances(a, c)' <= 1 + faults'
    <2>1. /\ \E where \in {Fetching, Returned, Down} : at' = [at EXCEPT ![i] = where]
          /\ UNCHANGED <<stored, available, accepted, faults>>
          /\ at[i].place \in {"fetch", "returned", "down"}
        BY <1>5 DEF FetchEnds, Exit, Restart, Gone, Go, At, streamVars
    <2>2. /\ at'[i].alert = Nothing /\ at[i].alert = Nothing
          /\ \A j \in Instances \ {i} : at'[j] = at[j]
        BY <1>a, <1>d, <2>1 DEF RepetitionInv, HandsEmpty, Hand
    <2>3. Pending(a, c)' \subseteq Pending(a, c)
        BY <1>c, <2>2, PendingShrinks
    <2>4. Open(a)' <=> Open(a)
        BY <2>1, <2>2, OpenStays DEF streamVars
    <2>5. QED
        BY <1>a, <1>b, <2>1, <2>3, <2>4, ChancesStep
<1>6. ASSUME NEW i \in Instances, Fetch(i) PROVE Chances(a, c)' <= 1 + faults'
    <2>1. PICK b \in available :
            /\ available' = available \ {b} /\ UNCHANGED <<stored, accepted, faults>>
            /\ at' = [at EXCEPT ![i] = [Fetching EXCEPT !.place = "read", !.alert = b]]
        BY <1>6 DEF Fetch, Go
    <2>2. /\ at'[i].alert = b /\ at'[i].place = "read"
          /\ at[i].alert = Nothing
          /\ \A j \in Instances \ {i} : at'[j] = at[j]
        BY <1>6, <1>a, <2>1 DEF Fetch, Fetching, RepetitionInv, HandsEmpty, Hand, At
    <2>3. CASE a = b
        <3>1. Pending(a, c)' \subseteq Pending(a, c) \cup {i}
            BY <2>2 DEF Pending, At, Hand
        <3>2. Open(a) /\ ~Open(a)'
            BY <1>a, <2>1, <2>2, <2>3 DEF Open, Hand
        <3>3. QED
            BY <1>b, <2>1, <3>1, <3>2, ChancesStep
    <2>4. CASE a # b
        <3>1. Pending(a, c)' \subseteq Pending(a, c)
            BY <2>2, <2>4 DEF Pending, At, Hand
        <3>2. Open(a)' => Open(a)
            BY <2>1, <2>2, <2>4, DispatcherAssumption DEF Open, Hand
        <3>3. QED
            BY <1>a, <1>b, <2>1, <3>1, <3>2, ChancesStep
    <2>5. QED
        BY <2>3, <2>4
<1>7. ASSUME NEW i \in Instances, DiscardUnreadable(i) \/ Ack(i)
      PROVE  Chances(a, c)' <= 1 + faults'
    <2>1. /\ \E where \in {Fetching, Returned} : at' = [at EXCEPT ![i] = where]
          /\ UNCHANGED accepted
          /\ \/ stored' = stored \ {Hand(i)} /\ available' = available \ {Hand(i)} /\ UNCHANGED faults
             \/ faults' = faults + 1
        BY <1>7 DEF DiscardUnreadable, Ack, Fault, Settle, Loop, Go
    <2>2. at'[i].alert = Nothing /\ \A j \in Instances \ {i} : at'[j] = at[j]
        BY <1>a, <1>d, <2>1
    <2>3. Pending(a, c)' \subseteq Pending(a, c)
        BY <1>c, <2>2, PendingShrinks
    <2>4. CASE faults' = faults + 1
        BY <1>b, <2>1, <2>3, <2>4, ChancesStep
    <2>5. CASE stored' = stored \ {Hand(i)} /\ available' = available \ {Hand(i)} /\ UNCHANGED faults
        <3>1. Open(a)' => Open(a)
            BY <2>2, <2>5 DEF Open, Hand
        <3>2. QED
            BY <1>a, <1>b, <2>1, <2>3, <2>5, <3>1, ChancesStep
    <2>6. QED
        BY <2>1, <2>4, <2>5
<1>8. ASSUME NEW i \in Instances, at[i].place \in {"read", "send", "wait"},
             \A j \in Instances \ {i} : at'[j] = at[j],
             at'[i].alert = at[i].alert, at'[i].place \in {"send", "wait", "ack"},
             at'[i].place # "ack" => at[i].channel <= at'[i].channel,
             UNCHANGED <<stored, available, accepted, faults>>
      PROVE  Chances(a, c)' <= 1 + faults'
    <2>1. Pending(a, c)' \subseteq Pending(a, c)
        BY <1>c, <1>8, PendingShrinks
    <2>2. Open(a)' <=> Open(a)
        BY <1>8, OpenStays DEF streamVars
    <2>3. QED
        BY <1>a, <1>b, <1>8, <2>1, <2>2, ChancesStep
<1>9. ASSUME NEW i \in Instances, Decode(i) \/ PauseOver(i) PROVE Chances(a, c)' <= 1 + faults'
    <2>1. /\ at[i].place \in {"read", "wait"} /\ at'[i].place = "send"
          /\ at'[i].alert = at[i].alert /\ at'[i].channel = at[i].channel
          /\ \A j \in Instances \ {i} : at'[j] = at[j]
        <3>1. CASE Decode(i)
            BY <1>a, <3>1 DEF Decode, Go, At, Position
        <3>2. CASE PauseOver(i)
            BY <1>a, <3>2 DEF PauseOver, Go, At, Position
        <3>3. QED
            BY <1>9, <3>1, <3>2
    <2>2. UNCHANGED <<stored, available, accepted, faults>>
        BY <1>9 DEF Decode, PauseOver, streamVars
    <2>3. QED
        BY <1>8, <1>c, <2>1, <2>2
<1>10. ASSUME NEW i \in Instances, at[i].place \in {"send", "wait"}, NextChannel(i),
              UNCHANGED <<stored, available, accepted, faults>>
       PROVE  Chances(a, c)' <= 1 + faults'
    <2>1. /\ \A j \in Instances \ {i} : at'[j] = at[j]
          /\ at'[i].alert = at[i].alert
          /\ at'[i].place \in {"send", "ack"}
          /\ at'[i].place # "ack" => at'[i].channel = at[i].channel + 1
        BY <1>10, NextPosition DEF RepetitionInv, DispatchInv, Hand
    <2>2. at[i].channel \in Nat
        BY <1>a, ChannelsAreNumbered DEF Position
    <2>3. QED
        BY <1>8, <1>10, <2>1, <2>2
<1>11. ASSUME NEW i \in Instances, SendFails(i) PROVE Chances(a, c)' <= 1 + faults'
    <2>1. CASE at[i].attempt < MaxAttempts
        <3>1. /\ at[i].place = "send" /\ at'[i].place = "wait"
              /\ at'[i].alert = at[i].alert /\ at'[i].channel = at[i].channel
              /\ \A j \in Instances \ {i} : at'[j] = at[j]
            BY <1>a, <1>11, <2>1 DEF SendFails, Go, At, Position
        <3>2. UNCHANGED <<stored, available, accepted, faults>>
            BY <1>11 DEF SendFails, streamVars
        <3>3. QED
            BY <1>8, <1>c, <3>1, <3>2
    <2>2. CASE ~(at[i].attempt < MaxAttempts)
        BY <1>10, <1>11, <2>2 DEF SendFails, GiveUp, At, streamVars
    <2>3. QED
        BY <2>1, <2>2
<1>12. ASSUME NEW i \in Instances, PauseCancelled(i) PROVE Chances(a, c)' <= 1 + faults'
    BY <1>10, <1>12 DEF PauseCancelled, GiveUp, At, streamVars
<1>13. ASSUME NEW i \in Instances, SendOk(i) PROVE Chances(a, c)' <= 1 + faults'
    <2>1. /\ at[i].place = "send" /\ NextChannel(i) /\ UNCHANGED <<stored, available, faults>>
          /\ accepted' = [accepted EXCEPT ![Hand(i)][Channel(i)] = @ + 1]
        BY <1>13 DEF SendOk, At, streamVars
    <2>2. /\ \A j \in Instances \ {i} : at'[j] = at[j]
          /\ at'[i].alert = at[i].alert
          /\ \/ at'[i].place = "ack"
             \/ at'[i].place = "send" /\ at'[i].channel = at[i].channel + 1
        BY <2>1, NextPosition DEF RepetitionInv, DispatchInv, Hand
    <2>3. /\ Hand(i) \in Alerts /\ at[i].channel \in DOMAIN Channels /\ at[i].channel \in Nat
          /\ Channel(i) = Channels[at[i].channel] /\ Channel(i) \in ChannelSet
        BY <1>a, <2>1, ChannelsAreNumbered
        DEF RepetitionInv, DispatchInv, HandsFull, Hand, Position, Channel
    <2>4. Pending(a, c)' \subseteq Pending(a, c)
        BY <1>c, <2>1, <2>2, <2>3, PendingShrinks
    <2>5. Open(a)' <=> Open(a)
        BY <2>1, <2>2, OpenStays DEF streamVars
    <2>6. CASE a = Hand(i) /\ c = Channel(i)
        <3>1. i \in Pending(a, c)
            BY <2>1, <2>3, <2>6 DEF Pending
        <3>2. i \notin Pending(a, c)'
            <4> SUFFICES ASSUME at'[i].place = "send", NEW n \in DOMAIN Channels,
                                Channels[n] = c, at'[i].channel <= n
                         PROVE  FALSE
                BY <2>2 DEF Pending, At
            <4>1. n = at[i].channel
                BY <2>3, <2>6, DispatcherAssumption
            <4>2. QED
                BY <2>2, <2>3, <4>1
        <3>3. accepted'[a][c] = accepted[a][c] + 1
            BY <1>a, <2>1, <2>3, <2>6
        <3>4. QED
            BY <1>b, <2>1, <2>4, <2>5, <3>1, <3>2, <3>3, ChancesStep
    <2>7. CASE ~(a = Hand(i) /\ c = Channel(i))
        <3>1. accepted'[a][c] = accepted[a][c]
            BY <1>a, <2>1, <2>3, <2>7
        <3>2. QED
            BY <1>a, <1>b, <2>1, <2>4, <2>5, <3>1, ChancesStep
    <2>8. QED
        BY <2>6, <2>7
<1>14. CASE UNCHANGED vars
    <2>1. Pending(a, c)' = Pending(a, c) /\ (Open(a)' <=> Open(a)) /\ UNCHANGED <<accepted, faults>>
        BY <1>14 DEF vars, Pending, Open, At, Hand
    <2>2. QED
        BY <1>a, <1>b, <2>1, ChancesStep
<1>15. QED
    BY <1>1, <1>2, <1>3, <1>4, <1>5, <1>6, <1>7, <1>9, <1>11, <1>12, <1>13, <1>14 DEF Next, Work

(* Nobody has an alert yet, and every alert has one chance per channel. *)
LEMMA RepetitionInitially == Init => RepetitionInv
<1> SUFFICES ASSUME Init PROVE HandsEmpty /\ ChancesPaid
    BY DispatcherInitially DEF RepetitionInv
<1>1. HandsEmpty
    BY DEF Init, HandsEmpty, Fetching, Hand
<1>2. ASSUME NEW a \in Alerts, NEW c \in ChannelSet PROVE Chances(a, c) <= 1 + faults
    <2>1. Pending(a, c) = {}
        BY DispatcherAssumption DEF Init, Pending, Fetching, Hand, At
    <2>2. Cardinality(Pending(a, c)) = 0
        BY <2>1, FS_EmptySet
    <2>3. accepted[a][c] = 0 /\ faults = 0
        BY <1>2 DEF Init
    <2>4. QED
        BY <2>2, <2>3 DEF Chances
<1>3. QED
    BY <1>1, <1>2 DEF ChancesPaid

LEMMA RepetitionStep == RepetitionInv /\ [Next]_vars => RepetitionInv'
<1> SUFFICES ASSUME RepetitionInv, [Next]_vars PROVE RepetitionInv'
    OBVIOUS
<1>1. DispatchInv'
    BY TypeStep, BehindStep, SettledStep DEF RepetitionInv, DispatchInv
<1>2. QED
    BY <1>1, EmptyStep, ChancesKept DEF RepetitionInv

LEMMA ChancesBoundSends == RepetitionInv => RepeatedOnlyByFaults
<1> SUFFICES ASSUME RepetitionInv, NEW a \in Alerts, NEW c \in ChannelSet
             PROVE  accepted[a][c] <= 1 + faults
    BY DEF RepeatedOnlyByFaults
<1>1. Chances(a, c) <= 1 + faults /\ accepted[a][c] \in Nat /\ faults \in Nat
    BY DispatcherAssumption DEF RepetitionInv, DispatchInv, ChancesPaid, TypeOK
<1>2. Cardinality(Pending(a, c)) \in Nat
    BY DispatcherAssumption, FS_Subset, FS_CardinalityType DEF Pending
<1>3. QED
    BY <1>1, <1>2 DEF Chances

(* A channel takes an alert once more than there were faults at most: that *)
(* another channel fails, or the same one does, repeats nothing.           *)
THEOREM OnlyFaultsRepeat == Spec => []RepeatedOnlyByFaults
<1>1. Spec => []RepetitionInv
    BY RepetitionInitially, RepetitionStep, PTL DEF Spec
<1>2. QED
    BY <1>1, ChancesBoundSends, PTL

-----------------------------------------------------------------------------
(* The dead letters *)

(* What it means, letter by letter, that a queue is the end of a longer    *)
(* sequence.                                                               *)
LEMMA SuffixIs ==
    ASSUME NEW S, NEW queue \in Seq(S), NEW all \in Seq(S), Len(queue) <= Len(all)
    PROVE  queue = SubSeq(all, 1 + Len(all) - Len(queue), Len(all))
             <=> \A n \in 1 .. Len(queue) : queue[n] = all[Len(all) - Len(queue) + n]
<1> DEFINE first == 1 + Len(all) - Len(queue)
           end == SubSeq(all, first, Len(all))
<1>1. Len(all) \in Nat /\ Len(queue) \in Nat
    OBVIOUS
<1>2. end \in Seq(S) /\ Len(end) = Len(queue)
    BY <1>1
<1>3. \A n \in 1 .. Len(queue) : end[n] = all[Len(all) - Len(queue) + n]
    BY <1>1
<1>4. queue = end <=> \A n \in 1 .. Len(queue) : queue[n] = end[n]
    <2> HIDE DEF end
    <2>1. QED
        BY <1>2
<1>5. QED
    BY <1>3, <1>4

(* The newest letters, as many as fit. *)
Newest(queue, all) ==
    /\ queue = SubSeq(all, 1 + Len(all) - Len(queue), Len(all))
    /\ Len(queue) = (IF Len(all) < DeadLetterCapacity THEN Len(all) ELSE DeadLetterCapacity)

(* dlq.go's Push: a queue of the newest letters stays one. *)
LEMMA PushKeepsNewest ==
    ASSUME NEW queue \in Seq(Letter), NEW all \in Seq(Letter), NEW letter \in Letter,
           Newest(queue, all)
    PROVE  Newest(Push(queue, letter), Append(all, letter))
<1> DEFINE more == Append(all, letter)
           new == Push(queue, letter)
<1>1. /\ Len(all) \in Nat /\ Len(queue) \in Nat /\ Len(queue) <= Len(all)
      /\ DeadLetterCapacity \in Nat \ {0}
    BY DeadLettersAssumption DEF Newest
<1>2. \A n \in 1 .. Len(queue) : queue[n] = all[Len(all) - Len(queue) + n]
    BY <1>1, SuffixIs DEF Newest
<1>3. /\ more \in Seq(Letter) /\ Len(more) = Len(all) + 1 /\ more[Len(all) + 1] = letter
      /\ \A n \in 1 .. Len(all) : more[n] = all[n]
    BY <1>1
<1> HIDE DEF more
<1>4. CASE Len(queue) >= DeadLetterCapacity
    <2>1. Len(queue) = DeadLetterCapacity /\ Len(all) >= DeadLetterCapacity /\ queue # <<>>
        BY <1>1, <1>4 DEF Newest
    <2>2. new = Append(Tail(queue), letter)
        BY <1>4 DEF Push
    <2>3. /\ Tail(queue) \in Seq(Letter) /\ Len(Tail(queue)) = Len(queue) - 1
          /\ \A n \in 1 .. Len(queue) - 1 : Tail(queue)[n] = queue[n + 1]
        BY <2>1, <1>1
    <2>4. /\ new \in Seq(Letter) /\ Len(new) = Len(queue) /\ new[Len(queue)] = letter
          /\ \A n \in 1 .. Len(queue) - 1 : new[n] = queue[n + 1]
        BY <1>1, <2>1, <2>2, <2>3
    <2> HIDE DEF new
    <2>5. ASSUME NEW n \in 1 .. Len(new) PROVE new[n] = more[Len(more) - Len(new) + n]
        <3>1. CASE n = Len(queue)
            BY <1>1, <1>3, <2>4, <3>1
        <3>2. CASE n \in 1 .. Len(queue) - 1
            <4>1. new[n] = all[Len(all) - Len(queue) + (n + 1)]
                BY <1>1, <1>2, <2>4, <3>2
            <4>2. Len(all) - Len(queue) + (n + 1) \in 1 .. Len(all)
                BY <1>1, <3>2
            <4>3. Len(more) - Len(new) + n = Len(all) - Len(queue) + (n + 1)
                BY <1>1, <1>3, <2>4, <3>2
            <4>4. QED
                BY <1>3, <4>1, <4>2, <4>3
        <3>3. QED
            BY <1>1, <2>4, <3>1, <3>2
    <2>6. Len(new) <= Len(more)
        BY <1>1, <1>3, <2>4
    <2>7. new = SubSeq(more, 1 + Len(more) - Len(new), Len(more))
        BY <1>3, <2>4, <2>5, <2>6, SuffixIs
    <2>8. QED
        BY <1>1, <1>3, <2>1, <2>4, <2>7 DEF Newest, more, new
<1>5. CASE Len(queue) < DeadLetterCapacity
    <2>1. Len(queue) = Len(all) /\ new = Append(queue, letter)
        BY <1>1, <1>5 DEF Newest, Push
    <2>2. /\ new \in Seq(Letter) /\ Len(new) = Len(queue) + 1 /\ new[Len(queue) + 1] = letter
          /\ \A n \in 1 .. Len(queue) : new[n] = queue[n]
        BY <1>1, <2>1
    <2> HIDE DEF new
    <2>3. ASSUME NEW n \in 1 .. Len(new) PROVE new[n] = more[Len(more) - Len(new) + n]
        <3>1. Len(more) - Len(new) + n = n
            BY <1>1, <1>3, <2>1, <2>2
        <3>2. CASE n = Len(queue) + 1
            BY <1>3, <2>1, <2>2, <3>1, <3>2
        <3>3. CASE n \in 1 .. Len(queue)
            <4>1. new[n] = all[n]
                BY <1>1, <1>2, <2>1, <2>2, <3>3
            <4>2. QED
                BY <1>3, <2>1, <3>1, <3>3, <4>1
        <3>4. QED
            BY <1>1, <2>2, <3>2, <3>3
    <2>4. new = SubSeq(more, 1 + Len(more) - Len(new), Len(more))
        BY <1>1, <1>3, <2>1, <2>2, <2>3, SuffixIs
    <2>5. QED
        BY <1>1, <1>3, <1>5, <2>1, <2>2, <2>4 DEF Newest, more, new
<1>6. QED
    BY <1>1, <1>4, <1>5

LettersInv == TypeOK /\ HandsFull /\ NewestLettersKept

LEMMA EmptyIsNewest == Newest(<<>>, <<>>)
<1>1. Len(<<>>) = 0 /\ <<>> \in Seq(Letter)
    OBVIOUS
<1>2. <<>> = SubSeq(<<>>, 1 + Len(<<>>) - Len(<<>>), Len(<<>>))
    BY <1>1, SuffixIs
<1>3. QED
    BY <1>1, <1>2, DeadLettersAssumption DEF Newest

LEMMA LettersStep == LettersInv /\ [Next]_vars => NewestLettersKept'
<1> SUFFICES ASSUME LettersInv, [Next]_vars, NEW i \in Instances
             PROVE  Newest(letters[i], pushed[i])'
    BY DEF NewestLettersKept, Newest
<1>1. /\ letters \in [Instances -> Seq(Letter)] /\ pushed \in [Instances -> Seq(Letter)]
      /\ Newest(letters[i], pushed[i])
    BY DEF LettersInv, TypeOK, NewestLettersKept, Newest
<1>2. ASSUME UNCHANGED <<letters, pushed>> PROVE Newest(letters[i], pushed[i])'
    BY <1>1, <1>2 DEF Newest
<1>3. ASSUME NEW j \in Instances, Gone(j) PROVE Newest(letters[i], pushed[i])'
    <2>1. CASE i = j
        <3>1. letters'[i] = <<>> /\ pushed'[i] = <<>>
            BY <1>1, <1>3, <2>1 DEF Gone
        <3>2. QED
            BY <3>1, EmptyIsNewest DEF Newest
    <2>2. CASE i # j
        BY <1>1, <1>3, <2>2 DEF Gone, Newest
    <2>3. QED
        BY <2>1, <2>2
<1>4. ASSUME NEW j \in Instances, at[j].place \in {"send", "wait"}, GiveUp(j)
      PROVE  Newest(letters[i], pushed[i])'
    <2> DEFINE letter == [alert |-> Hand(j), channel |-> Channel(j)]
    <2>1. letter \in Letter
        BY <1>4, ChannelsAreNumbered
        DEF LettersInv, TypeOK, HandsFull, Position, Letter, Channel
    <2>2. CASE i = j
        <3>1. letters'[i] = Push(letters[i], letter) /\ pushed'[i] = Append(pushed[i], letter)
            BY <1>1, <1>4, <2>2 DEF GiveUp
        <3>2. Newest(Push(letters[i], letter), Append(pushed[i], letter))
            BY <1>1, <2>1, PushKeepsNewest
        <3>3. QED
            BY <3>1, <3>2 DEF Newest
    <2>3. CASE i # j
        BY <1>1, <1>4, <2>3 DEF GiveUp, Newest
    <2>4. QED
        BY <2>2, <2>3
<1>5. ASSUME NEW j \in Instances, Work(j) \/ Crash(j) \/ Stop(j) \/ Restart(j)
      PROVE  Newest(letters[i], pushed[i])'
    BY <1>2, <1>3, <1>4, <1>5
    DEF Work, Fetch, FetchEnds, DiscardUnreadable, Decode, SendOk, SendFails, PauseOver,
        PauseCancelled, Ack, Exit, Crash, Stop, Restart, letterVars, At
<1>6. CASE \E a \in Alerts : Expire(a) \/ ExpireInHand(a)
    BY <1>2, <1>6 DEF Expire, ExpireInHand, AckWaitOver, letterVars
<1>7. CASE UNCHANGED vars
    BY <1>2, <1>7 DEF vars
<1>8. QED
    BY <1>5, <1>6, <1>7 DEF Next

(* The dead letter queue of every process holds exactly the newest of the  *)
(* letters pushed since it started, in order, for every capacity.          *)
THEOREM QueueKeepsNewestLetters == Spec => []NewestLettersKept
<1>1. Init => LettersInv
    <2> SUFFICES ASSUME Init, NEW i \in Instances PROVE Newest(letters[i], pushed[i])
        BY DispatcherInitially DEF DispatchInv, LettersInv, NewestLettersKept, Newest
    <2>1. QED
        BY EmptyIsNewest DEF Init
<1>2. LettersInv /\ [Next]_vars => LettersInv'
    BY TypeStep, LettersStep DEF LettersInv
<1>3. QED
    BY <1>1, <1>2, PTL DEF Spec, LettersInv

=============================================================================
