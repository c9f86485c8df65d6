---------------------------- MODULE AgentProofs ----------------------------
(* What one agent guarantees for any channel and batch, any number of      *)
(* lines, files and processes, and whatever rotation does to the log.      *)
EXTENDS Agent, TLAPS

-----------------------------------------------------------------------------
(* The channel and the batch *)

(* The channel never holds more than it can, and Run returns with an empty *)
(* batch unless a flush has failed.                                        *)
LossInv ==
    /\ BatcherTypeOK
    /\ sent[Me] - taken[Me] <= ChannelCap
    /\ mode[Me] = "stopped" /\ ~unsent => cleared[Me] = taken[Me]

LEMMA CountersOf ==
    ASSUME BatcherTypeOK
    PROVE  /\ Me \in Agents /\ mode[Me] \in Modes
           /\ sent[Me] \in 0 .. EventCount /\ taken[Me] \in 0 .. EventCount
           /\ cleared[Me] \in 0 .. EventCount
           /\ cleared[Me] <= taken[Me] /\ taken[Me] <= sent[Me]
BY AgentAssumption DEF BatcherTypeOK

(* What the batcher's own steps preserve, the final flush apart. *)
LEMMA BatcherKeeps ==
    ASSUME BatcherTypeOK,
           \/ Emit(Me) \/ Take(Me) \/ TimerFlush(Me) \/ Cancel(Me) \/ FinalFlush(Me)
           \/ FlushSucceeds(Me) \/ FlushFails(Me) \/ UNCHANGED batcherVars
    PROVE  BatcherTypeOK'
<1> USE AgentAssumption, BatcherAssumption, EventCountAssumption, CountersOf DEF BatcherTypeOK, Modes
<1>1. CASE Emit(Me)
    BY <1>1 DEF Emit
<1>2. CASE Take(Me)
    BY <1>2 DEF Take, BeginFlush
<1>3. CASE TimerFlush(Me)
    BY <1>3 DEF TimerFlush, BeginFlush
<1>4. CASE Cancel(Me)
    BY <1>4 DEF Cancel
<1>5. CASE FinalFlush(Me)
    BY <1>5 DEF FinalFlush
<1>6. CASE FlushSucceeds(Me)
    BY <1>6 DEF FlushSucceeds, AfterFlush
<1>7. CASE FlushFails(Me)
    BY <1>7 DEF FlushFails, AfterFlush
<1>8. CASE UNCHANGED batcherVars
    BY <1>8 DEF batcherVars
<1>9. QED
    BY <1>1, <1>2, <1>3, <1>4, <1>5, <1>6, <1>7, <1>8

LEMMA LossStep == ASSUME LossInv, [Next]_vars PROVE LossInv'
<1>a. /\ Me \in Agents /\ mode[Me] \in Modes
      /\ sent[Me] \in 0 .. EventCount /\ taken[Me] \in 0 .. EventCount
      /\ cleared[Me] \in 0 .. EventCount
      /\ cleared[Me] <= taken[Me] /\ taken[Me] <= sent[Me]
    BY CountersOf DEF LossInv
<1>b. /\ sent \in [Agents -> 0 .. EventCount] /\ taken \in [Agents -> 0 .. EventCount]
      /\ cleared \in [Agents -> 0 .. EventCount] /\ mode \in [Agents -> Modes]
    BY DEF LossInv, BatcherTypeOK
<1>c. ChannelCap \in Nat \ {0} /\ EventCount \in Nat
    BY BatcherAssumption, EventCountAssumption
<1>d. /\ sent[Me] - taken[Me] <= ChannelCap
      /\ mode[Me] = "stopped" /\ ~unsent => cleared[Me] = taken[Me]
    BY DEF LossInv
<1>1. CASE Emit(Me) /\ UNCHANGED unsent
    BY <1>1, <1>a, <1>b, <1>c, <1>d, BatcherKeeps DEF Emit, LossInv
<1>2. CASE Take(Me) /\ UNCHANGED unsent
    BY <1>2, <1>a, <1>b, <1>c, <1>d, BatcherKeeps DEF Take, BeginFlush, LossInv
<1>3. CASE TimerFlush(Me) /\ UNCHANGED unsent
    BY <1>3, <1>a, <1>b, <1>c, <1>d, BatcherKeeps DEF TimerFlush, BeginFlush, LossInv
<1>4. CASE Cancel(Me) /\ UNCHANGED unsent
    BY <1>4, <1>a, <1>b, <1>c, <1>d, BatcherKeeps DEF Cancel, LossInv
<1>5. CASE FinalFlush(Me) /\ UNCHANGED unsent
    BY <1>5, <1>a, <1>b, <1>c, <1>d, BatcherKeeps DEF FinalFlush, Held, LossInv
<1>6. CASE FlushSucceeds(Me) /\ UNCHANGED unsent
    BY <1>6, <1>a, <1>b, <1>c, <1>d, BatcherKeeps DEF FlushSucceeds, AfterFlush, LossInv
<1>7. CASE FlushFails(Me) /\ (unsent' \/ (unsent' = unsent /\ mode[Me] = "flushing"))
    BY <1>7, <1>a, <1>b, <1>c, <1>d, BatcherKeeps DEF FlushFails, InFlush, AfterFlush, LossInv
<1>8. CASE UNCHANGED <<batcherVars, unsent>>
    BY <1>8, <1>a, <1>b, <1>c, <1>d, BatcherKeeps DEF batcherVars, LossInv
<1>9. QED
    BY <1>1, <1>2, <1>3, <1>4, <1>5, <1>6, <1>7, <1>8
    DEF Next, TailerStep, TailerEmits, TailerEnds, WatcherStep, WatcherEmits, WatcherEnds,
        BatcherTakes, BatcherStep, FlushFailure, ReadProcFails, Rotation, Signal, Others, historyVars,
        vars, batcherVars

(* An agent that has ended without a failed flush loses at most what its   *)
(* channel holds: Run flushes everything it has taken before it returns.   *)
THEOREM StopLosesOnlyTheChannel == Spec => []StopLossBounded
<1>1. Init => LossInv
    <2> SUFFICES ASSUME Init PROVE LossInv
        OBVIOUS
    <2>1. Me \in Agents /\ EventCount \in Nat /\ ChannelCap \in Nat
        BY AgentAssumption, EventCountAssumption, BatcherAssumption
    <2>2. QED
        BY <2>1 DEF Init, BatcherInit, LossInv, BatcherTypeOK, Modes
<1>2. LossInv => StopLossBounded
    <2> SUFFICES ASSUME LossInv PROVE StopLossBounded
        OBVIOUS
    <2>1. /\ sent[Me] \in Nat /\ taken[Me] \in Nat /\ cleared[Me] \in Nat
        BY CountersOf, EventCountAssumption DEF LossInv
    <2>2. QED
        BY <2>1 DEF LossInv, StopLossBounded, Ended
<1>3. QED
    BY <1>1, <1>2, LossStep, PTL DEF Spec

-----------------------------------------------------------------------------
(* The log and its reader *)

Sorted(s) == \A i, j \in DOMAIN s : i < j => s[i] < s[j]

(* Every number of A is smaller than every number of B. *)
Below(A, B) == \A x \in A, y \in B : x < y

(* Files hold lines in the order of their writing, later files later lines. *)
DiskInv ==
    /\ content \in [Files -> Seq(Nat)]
    /\ created \in 0 .. MaxFiles /\ path \in {NoFile, created}
    /\ written \in Nat /\ OldLines <= written
    /\ \A f \in Files :
        /\ Sorted(content[f])
        /\ \A n \in ToSet(content[f]) : n <= written
        /\ f > created => content[f] = <<>>
    /\ \A f, g \in Files : f < g => Below(ToSet(content[f]), ToSet(content[g]))

(* Once the tailer has closed its file for none, it reads no more. *)
ReaderInv ==
    /\ handle \in 0 .. created
    /\ pos \in Nat /\ buffer \in Seq(Nat)
    /\ handle = NoFile => eof \/ tailer = "stopped"

(* What the tailer has read or found there. *)
Consumed == {OldLines} \cup ToSet(reported) \cup ToSet(buffer)

(* The i-th line of file f may still be read: it is behind the position, in *)
(* a file the rotation check is to reopen, or in a later file.             *)
Ahead(f, i) ==
    /\ handle # NoFile
    /\ \/ f > handle
       \/ f = handle /\ (i > pos \/ pos > Size(f))

(* What may still be read is newer than all that was. *)
OrderInv ==
    /\ reported \in Seq(Nat)
    /\ Sorted(reported) /\ Sorted(buffer)
    /\ Below(ToSet(reported), ToSet(buffer))
    /\ Below({OldLines}, ToSet(reported) \cup ToSet(buffer))
    /\ \A c \in Consumed : c <= written
    /\ \A f \in Files : \A i \in DOMAIN content[f] :
        Ahead(f, i) => \A c \in Consumed : c < content[f][i]

LinesInv == DiskInv /\ ReaderInv /\ OrderInv

LEMMA InSet ==
    ASSUME NEW s, NEW i \in DOMAIN s
    PROVE  s[i] \in ToSet(s)
BY DEF ToSet

LEMMA AppendedLine ==
    ASSUME NEW s \in Seq(Nat), NEW n \in Nat, \A m \in ToSet(s) : m < n, Sorted(s)
    PROVE  /\ Append(s, n) \in Seq(Nat) /\ Sorted(Append(s, n))
           /\ ToSet(Append(s, n)) = ToSet(s) \cup {n}
<1> DEFINE t == Append(s, n)
<1>1. /\ t \in Seq(Nat) /\ DOMAIN s = 1 .. Len(s) /\ DOMAIN t = 1 .. Len(s) + 1
      /\ Len(s) \in Nat /\ \A i \in 1 .. Len(s) : t[i] = s[i]
      /\ t[Len(s) + 1] = n
    OBVIOUS
<1> HIDE DEF t
<1>2. ToSet(t) = ToSet(s) \cup {n}
    BY <1>1, SMTT(30) DEF ToSet
<1>3. Sorted(t)
    <2> SUFFICES ASSUME NEW i \in DOMAIN t, NEW j \in DOMAIN t, i < j PROVE t[i] < t[j]
        BY DEF Sorted
    <2>1. i \in 1 .. Len(s) /\ t[i] = s[i] /\ s[i] \in ToSet(s)
        BY <1>1, InSet
    <2>2. CASE j = Len(s) + 1
        BY <2>1, <2>2, <1>1
    <2>3. CASE j # Len(s) + 1
        <3>1. j \in DOMAIN s /\ i \in DOMAIN s /\ t[j] = s[j]
            BY <2>1, <2>3, <1>1
        <3>2. QED
            BY <2>1, <3>1 DEF Sorted
    <2>4. QED
        BY <2>2, <2>3
<1>4. QED
    BY <1>1, <1>2, <1>3 DEF t

LEMMA FirstLine ==
    ASSUME NEW s \in Seq(Nat), s # <<>>, Sorted(s)
    PROVE  /\ Head(s) \in Nat /\ Head(s) \in ToSet(s)
           /\ Tail(s) \in Seq(Nat) /\ Sorted(Tail(s)) /\ ToSet(Tail(s)) \subseteq ToSet(s)
           /\ \A m \in ToSet(Tail(s)) : Head(s) < m
<1> DEFINE t == Tail(s)
<1>1. /\ t \in Seq(Nat) /\ DOMAIN s = 1 .. Len(s) /\ DOMAIN t = 1 .. Len(s) - 1
      /\ Len(s) \in Nat \ {0} /\ \A i \in DOMAIN t : t[i] = s[i + 1]
      /\ Head(s) = s[1] /\ s[1] \in Nat
    OBVIOUS
<1> HIDE DEF t
<1>2. 1 \in DOMAIN s /\ \A i \in DOMAIN t : i + 1 \in DOMAIN s /\ 1 < i + 1
    BY <1>1, SMTT(30)
<1>3. Head(s) \in ToSet(s) /\ ToSet(t) \subseteq ToSet(s)
    <2>1. s[1] \in ToSet(s)
        BY <1>2 DEF ToSet
    <2>2. \A i \in DOMAIN t : t[i] \in ToSet(s)
        BY <1>1, <1>2 DEF ToSet
    <2>3. QED
        BY <1>1, <2>1, <2>2 DEF ToSet
<1>4. \A m \in ToSet(t) : Head(s) < m
    BY <1>1, <1>2 DEF ToSet, Sorted
<1>5. Sorted(t)
    BY <1>1, <1>2 DEF Sorted
<1>6. QED
    BY <1>1, <1>3, <1>4, <1>5 DEF t

(* A chunk of a sorted file. *)
LEMMA ChunkOfFile ==
    ASSUME NEW s \in Seq(Nat), Sorted(s), NEW m \in Nat, NEW n \in m + 1 .. Len(s)
    PROVE  /\ SubSeq(s, m + 1, n) \in Seq(Nat) /\ Sorted(SubSeq(s, m + 1, n))
           /\ \A x \in ToSet(SubSeq(s, m + 1, n)) :
                \E i \in DOMAIN s : i > m /\ i <= n /\ x = s[i]
<1> DEFINE t == SubSeq(s, m + 1, n)
<1>1. /\ DOMAIN s = 1 .. Len(s) /\ Len(s) \in Nat /\ \A i \in DOMAIN s : s[i] \in Nat
      /\ Len(t) = n - m /\ DOMAIN t = 1 .. n - m /\ t \in Seq(Nat)
      /\ \A i \in 1 .. n - m : t[i] = s[m + i]
    OBVIOUS
<1> HIDE DEF t
<1>2. \A i \in DOMAIN t : m + i \in DOMAIN s /\ m + i > m /\ m + i <= n
    BY <1>1, SMTT(30)
<1>3. Sorted(t)
    <2>1. ASSUME NEW i \in DOMAIN t, NEW j \in DOMAIN t, i < j PROVE t[i] < t[j]
        <3>1. m + i < m + j /\ m + i \in DOMAIN s /\ m + j \in DOMAIN s
            BY <1>1, <1>2, <2>1
        <3>2. s[m + i] < s[m + j]
            BY <3>1 DEF Sorted
        <3>3. t[i] = s[m + i] /\ t[j] = s[m + j]
            BY <1>1
        <3>4. QED
            BY <3>2, <3>3
    <2>2. QED
        BY <2>1 DEF Sorted
<1>4. QED
    BY <1>1, <1>2, <1>3 DEF ToSet, t

-----------------------------------------------------------------------------
(* No line twice *)

(* What is ahead was ahead, or is newer than what was read: then nothing   *)
(* that is consumed comes again.                                           *)
LEMMA DiskMoves ==
    ASSUME LinesInv, WriteLine \/ Truncate \/ Rename \/ Create, UNCHANGED reported
    PROVE  LinesInv'
<1>a. /\ content \in [Files -> Seq(Nat)] /\ created \in 0 .. MaxFiles /\ path \in {NoFile, created}
      /\ written \in Nat /\ OldLines <= written /\ MaxFiles \in Nat
      /\ handle \in 0 .. created /\ pos \in Nat
    BY TailerAssumption DEF LinesInv, DiskInv, ReaderInv
<1>b. /\ \A f \in Files :
            /\ Sorted(content[f])
            /\ \A n \in ToSet(content[f]) : n <= written
            /\ f > created => content[f] = <<>>
      /\ \A f, g \in Files : f < g => Below(ToSet(content[f]), ToSet(content[g]))
    BY DEF LinesInv, DiskInv
<1>c. UNCHANGED <<readerVars, reported, Consumed>>
    BY DEF WriteLine, Truncate, Rename, Create, Consumed, readerVars
<1>d. /\ reported \in Seq(Nat)
      /\ Sorted(reported) /\ Sorted(buffer)
      /\ Below(ToSet(reported), ToSet(buffer))
      /\ Below({OldLines}, ToSet(reported) \cup ToSet(buffer))
    BY DEF LinesInv, OrderInv
<1>e. \A c \in Consumed : c \in Nat /\ c <= written
    <2>1. OldLines \in Nat /\ buffer \in Seq(Nat) /\ reported \in Seq(Nat)
        BY <1>d, TailerAssumption DEF LinesInv, ReaderInv
    <2>2. ToSet(buffer) \subseteq Nat /\ ToSet(reported) \subseteq Nat
        BY <2>1 DEF ToSet
    <2>3. QED
        BY <2>1, <2>2 DEF LinesInv, OrderInv, Consumed
<1>f. \A f \in Files : \A i \in DOMAIN content[f] :
        Ahead(f, i) => \A c \in Consumed : c < content[f][i]
    BY DEF LinesInv, OrderInv
<1>g. /\ OldLines \in Nat
      /\ \A f \in Files : f \in Nat /\ f # NoFile /\ DOMAIN content[f] = 1 .. Len(content[f])
                          /\ Len(content[f]) \in Nat /\ \A n \in ToSet(content[f]) : n \in Nat
    <2>1. \A f \in Files : content[f] \in Seq(Nat) /\ f \in Nat /\ f # NoFile
        BY <1>a DEF Files, NoFile
    <2>2. QED
        BY <2>1, TailerAssumption DEF ToSet
(* The reader's part, from where the lines of the files lie. *)
<1>h. ASSUME DiskInv', \A c \in Consumed : c <= written',
             created <= created',
             \A f \in Files : \A i \in DOMAIN content'[f] :
                Ahead(f, i)' => \A c \in Consumed : c < content'[f][i]
      PROVE  LinesInv'
    <2>1. ReaderInv'
        BY <1>a, <1>c, <1>h DEF LinesInv, ReaderInv, DiskInv, readerVars
    <2>2. OrderInv'
        BY <1>c, <1>d, <1>h DEF OrderInv, readerVars
    <2>3. QED
        BY <1>h, <2>1, <2>2 DEF LinesInv
<1>1. CASE WriteLine
    <2> USE <1>1 DEF WriteLine
    <2>1. /\ path \in Files /\ path = created /\ written' = written + 1
          /\ content' = [content EXCEPT ![path] = Append(content[path], written')]
        BY <1>a DEF NoFile, Files
    <2>2. /\ content'[path] \in Seq(Nat) /\ Sorted(content'[path])
          /\ ToSet(content'[path]) = ToSet(content[path]) \cup {written'}
        <3>1. \A m \in ToSet(content[path]) : m < written'
            BY <2>1, <1>a, <1>b, <1>g
        <3>2. written' \in Nat /\ content[path] \in Seq(Nat) /\ Sorted(content[path])
            BY <2>1, <1>a, <1>b
        <3>3. content'[path] = Append(content[path], written')
            BY <2>1, <1>a
        <3>4. QED
            BY <3>1, <3>2, <3>3, AppendedLine
    <2>3. \A f \in Files : f # path => content'[f] = content[f]
        BY <2>1, <1>a
    <2>4. content' \in [Files -> Seq(Nat)]
        BY <2>1, <2>2, <2>3, <1>a
    <2>5. ASSUME NEW f \in Files, NEW g \in Files, f < g
          PROVE  Below(ToSet(content'[f]), ToSet(content'[g]))
        <3>1. Below(ToSet(content[f]), ToSet(content[g])) /\ f # g
            BY <1>b, <1>g, <2>5
        <3>2. CASE g = path
            <4>1. content'[f] = content[f] /\ \A n \in ToSet(content[f]) : n < written'
                BY <3>1, <3>2, <2>1, <2>3, <1>a, <1>b, <1>g
            <4>2. QED
                BY <3>1, <3>2, <4>1, <2>2 DEF Below
        <3>3. CASE f = path
            <4>1. g > created
                BY <3>3, <2>1, <2>5, <1>a, <1>g
            <4>2. content'[g] = <<>>
                BY <4>1, <3>1, <3>3, <2>3, <1>b
            <4>3. ToSet(content'[g]) = {}
                BY <4>2 DEF ToSet
            <4>4. QED
                BY <4>3 DEF Below
        <3>4. QED
            BY <3>1, <3>2, <3>3, <2>3
    <2>6. ASSUME NEW f \in Files
          PROVE  /\ Sorted(content'[f])
                 /\ \A n \in ToSet(content'[f]) : n <= written'
                 /\ f > created => content'[f] = <<>>
        <3>1. \A n \in ToSet(content[f]) : n <= written' /\ written' <= written'
            BY <2>1, <1>a, <1>b, <1>g
        <3>2. f > created => f # path
            BY <2>1, <1>a, <1>g
        <3>3. written' <= written'
            BY <2>1, <1>a
        <3>4. QED
            BY <2>2, <2>3, <3>1, <3>2, <3>3, <1>b
    <2>7. DiskInv'
        <3>1. written' \in Nat /\ OldLines <= written'
            BY <2>1, <1>a, <1>g
        <3>2. QED
            BY <3>1, <2>4, <2>5, <2>6, <1>a DEF DiskInv
    <2>8. ASSUME NEW f \in Files, NEW i \in DOMAIN content'[f], Ahead(f, i)',
                 NEW c \in Consumed
          PROVE  c < content'[f][i]
        <3>1. c < written'
            BY <2>1, <1>a, <1>e
        <3>2. CASE f # path
            <4>1. content'[f] = content[f] /\ handle' = handle /\ pos' = pos
                BY <3>2, <2>3, <1>c DEF readerVars
            <4>2. Ahead(f, i)
                BY <2>8, <4>1 DEF Ahead, Size
            <4>3. QED
                BY <4>1, <4>2, <2>8, <1>f
        <3>3. CASE f = path /\ i = Len(content[f]) + 1
            <4>1. content'[f][i] = written'
                BY <3>3, <2>1, <1>a, <1>g
            <4>2. QED
                BY <3>1, <4>1
        <3>4. CASE f = path /\ i # Len(content[f]) + 1
            <4>1. /\ Len(content'[f]) = Len(content[f]) + 1 /\ i \in DOMAIN content[f]
                  /\ content'[f][i] = content[f][i] /\ handle' = handle /\ pos' = pos
                BY <3>4, <2>1, <2>8, <1>a, <1>c, <1>g DEF readerVars
            <4>2. Ahead(f, i)
                BY <2>8, <4>1, <1>a, <1>g DEF Ahead, Size
            <4>3. QED
                BY <4>1, <4>2, <1>f
        <3>5. QED
            BY <3>2, <3>3, <3>4
    <2>9. (\A c \in Consumed : c <= written') /\ created <= created'
        BY <2>1, <1>a, <1>e
    <2>10. QED
        BY <2>7, <2>8, <2>9, <1>h
<1>2. CASE Truncate
    <2> USE <1>2 DEF Truncate
    <2>1. /\ path \in Files /\ written' = written /\ created' = created /\ path' = path
          /\ content' = [content EXCEPT ![path] = <<>>]
        BY <1>a DEF NoFile, Files
    <2>2. /\ content'[path] = <<>> /\ <<>> \in Seq(Nat)
          /\ \A f \in Files : f # path => content'[f] = content[f]
        BY <2>1, <1>a
    <2>3. content' \in [Files -> Seq(Nat)]
        BY <2>1, <2>2, <1>a
    <2>4. DOMAIN content'[path] = {} /\ ToSet(content'[path]) = {} /\ Sorted(content'[path])
        BY <2>2 DEF ToSet, Sorted
    <2>5. \A f, g \in Files : f < g => Below(ToSet(content'[f]), ToSet(content'[g]))
        <3> SUFFICES ASSUME NEW f \in Files, NEW g \in Files, f < g
                     PROVE  Below(ToSet(content'[f]), ToSet(content'[g]))
            OBVIOUS
        <3>1. CASE f = path \/ g = path
            BY <3>1, <2>4 DEF Below
        <3>2. CASE f # path /\ g # path
            BY <3>2, <2>2, <1>b
        <3>3. QED
            BY <3>1, <3>2
    <2>6. DiskInv'
        BY <2>1, <2>2, <2>3, <2>4, <2>5, <1>a, <1>b DEF DiskInv
    <2>7. ASSUME NEW f \in Files, NEW i \in DOMAIN content'[f], Ahead(f, i)',
                 NEW c \in Consumed
          PROVE  c < content'[f][i]
        <3>1. content'[f] = content[f] /\ handle' = handle /\ pos' = pos
            BY <2>2, <2>4, <1>c DEF readerVars
        <3>2. Ahead(f, i)
            BY <2>7, <3>1 DEF Ahead, Size
        <3>3. QED
            BY <3>1, <3>2, <1>f, <2>7
    <2>8. (\A c \in Consumed : c <= written') /\ created <= created'
        BY <2>1, <1>a, <1>e
    <2>9. QED
        BY <2>6, <2>7, <2>8, <1>h
<1>3. CASE Rename \/ Create
    <2>1. /\ content' = content /\ written' = written /\ created <= created'
          /\ created' \in 0 .. MaxFiles /\ path' \in {NoFile, created'}
        BY <1>3, <1>a DEF Rename, Create
    <2>2. DiskInv'
        <3>1. \A f \in Files : f > created' => f > created
            BY <2>1, <1>a, <1>g
        <3>2. QED
            BY <2>1, <3>1, <1>a, <1>b DEF DiskInv
    <2>3. \A f \in Files : \A i : Ahead(f, i)' => Ahead(f, i)
        BY <2>1, <1>c DEF Ahead, Size, readerVars
    <2>4. QED
        BY <2>1, <2>2, <2>3, <1>e, <1>f, <1>h
<1>4. QED
    BY <1>1, <1>2, <1>3

(* The reader moves: it reads a chunk, drops an empty line, finds the end  *)
(* of the file or a shorter one, or stops.                                 *)
LEMMA ReaderMoves ==
    ASSUME LinesInv, TailerWorks \/ TailerStops, UNCHANGED reported
    PROVE  LinesInv'
<1>a. /\ content \in [Files -> Seq(Nat)] /\ created \in 0 .. MaxFiles /\ path \in {NoFile, created}
      /\ written \in Nat /\ MaxFiles \in Nat /\ OldLines \in Nat
      /\ handle \in 0 .. created /\ pos \in Nat /\ buffer \in Seq(Nat)
      /\ handle = NoFile => eof \/ tailer = "stopped"
    BY TailerAssumption DEF LinesInv, DiskInv, ReaderInv
<1>b. UNCHANGED <<diskVars, reported>>
    BY DEF TailerWorks, ReadChunk, SkipBlank, EndOfScan, TailerStops
<1>c. DiskInv'
    BY <1>b DEF LinesInv, DiskInv, diskVars
<1>d. OrderInv
    BY DEF LinesInv
<1>e. \A f \in Files : f \in Nat /\ f # NoFile /\ DOMAIN content[f] = 1 .. Len(content[f])
                       /\ Len(content[f]) \in Nat
    <2>1. \A f \in Files : content[f] \in Seq(Nat) /\ f \in Nat /\ f # NoFile
        BY <1>a DEF Files, NoFile
    <2>2. QED
        BY <2>1
<1>1. CASE ReadChunk
    <2> USE <1>1 DEF ReadChunk
    <2>1. handle # NoFile
        <3>1. pos < Size(handle) /\ 0 <= pos
            BY <1>a
        <3>2. QED
            BY <3>1, <1>a DEF Size
    <2>2. handle \in Files /\ Size(handle) = Len(content[handle])
        BY <2>1, <1>a DEF Files, NoFile, Size
    <2>3. PICK last \in pos + 1 .. Len(content[handle]) :
                buffer' = SubSeq(content[handle], pos + 1, last) /\ pos' = last
        BY <2>2
    <2>4. content[handle] \in Seq(Nat) /\ Sorted(content[handle])
        BY <2>2, <1>a DEF LinesInv, DiskInv
    <2>5. /\ buffer' \in Seq(Nat) /\ Sorted(buffer')
          /\ \A x \in ToSet(buffer') :
                \E i \in DOMAIN content[handle] : i > pos /\ i <= last /\ x = content[handle][i]
        BY <2>3, <2>4, <1>a, ChunkOfFile
    <2>6. buffer = <<>> /\ ToSet(buffer) = {} /\ last \in Nat /\ pos < last
          /\ last <= Len(content[handle])
        BY <2>2, <2>3, <1>a, <1>e DEF ToSet
    <2>7. Consumed = {OldLines} \cup ToSet(reported) /\ Consumed' = Consumed \cup ToSet(buffer')
        BY <2>6, <1>b DEF Consumed
    <2>8. ReaderInv'
        <3>1. /\ handle' = handle /\ created' = created
              /\ pos' \in Nat
            BY <1>b, <2>3, <2>6 DEF diskVars
        <3>2. QED
            BY <3>1, <2>1, <2>5, <1>a DEF ReaderInv
    <2>9. \A x \in ToSet(buffer') : x <= written /\ \A c \in Consumed : c < x
        <3> SUFFICES ASSUME NEW x \in ToSet(buffer')
                     PROVE  x <= written /\ \A c \in Consumed : c < x
            OBVIOUS
        <3>1. PICK i \in DOMAIN content[handle] : i > pos /\ i <= last /\ x = content[handle][i]
            BY <2>5
        <3>2. Ahead(handle, i) /\ x \in ToSet(content[handle])
            BY <3>1, <2>1, InSet DEF Ahead
        <3>3. QED
            BY <3>1, <3>2, <2>2, <1>d DEF OrderInv, LinesInv, DiskInv
    <2>10. ASSUME NEW f \in Files, NEW i \in DOMAIN content[f], Ahead(f, i)'
           PROVE  \A c \in Consumed' : c < content[f][i]
        <3>1. handle' = handle /\ pos' = last /\ content' = content /\ Size(f)' = Size(f)
            BY <1>b, <2>3 DEF diskVars, Size
        <3>2. CASE f > handle
            <4>1. Ahead(f, i)
                BY <3>2, <2>1 DEF Ahead
            <4>2. Below(ToSet(content[handle]), ToSet(content[f])) /\ content[f][i] \in ToSet(content[f])
                BY <3>2, <2>2, <1>a, <1>e, InSet DEF LinesInv, DiskInv
            <4>3. ToSet(buffer') \subseteq ToSet(content[handle])
                BY <2>5, InSet
            <4>4. QED
                BY <4>1, <4>2, <4>3, <2>7, <1>d DEF Below, OrderInv
        <3>3. CASE f = handle /\ i > last
            <4>1. Ahead(f, i)
                BY <3>3, <2>1, <2>6, <1>a, <1>e, <2>2 DEF Ahead
            <4>2. \A x \in ToSet(buffer') : x < content[f][i]
                <5> SUFFICES ASSUME NEW x \in ToSet(buffer') PROVE x < content[f][i]
                    OBVIOUS
                <5>1. PICK j \in DOMAIN content[handle] : j > pos /\ j <= last /\ x = content[handle][j]
                    BY <2>5
                <5>2. j < i
                    BY <5>1, <3>3, <2>6, <1>e
                <5>3. QED
                    BY <5>1, <5>2, <3>3, <2>4 DEF Sorted
            <4>3. QED
                BY <4>1, <4>2, <2>7, <1>d DEF OrderInv
        <3>4. f > handle \/ (f = handle /\ i > last)
            <4>1. f > handle \/ (f = handle /\ (i > last \/ last > Len(content[f])))
                BY <3>1, <2>10, <1>e DEF Ahead, Size
            <4>2. QED
                BY <4>1, <2>6, <1>e
        <3>5. QED
            BY <3>2, <3>3, <3>4
    <2>11. OrderInv'
        <3>1. /\ reported \in Seq(Nat) /\ Sorted(reported)
              /\ Below({OldLines}, ToSet(reported))
              /\ \A c \in Consumed : c <= written
            BY <1>d DEF OrderInv, Below
        <3>2. Below(ToSet(reported), ToSet(buffer')) /\ Below({OldLines}, ToSet(reported) \cup ToSet(buffer'))
            BY <3>1, <2>7, <2>9 DEF Below
        <3>3. \A c \in Consumed' : c <= written
            BY <3>1, <2>7, <2>9
        <3>4. reported' = reported /\ content' = content /\ written' = written
            BY <1>b DEF diskVars
        <3>5. QED
            BY <3>1, <3>2, <3>3, <3>4, <2>5, <2>10 DEF OrderInv
    <2>12. QED
        BY <1>c, <2>8, <2>11 DEF LinesInv
<1>2. CASE SkipBlank
    <2>1. /\ buffer # <<>> /\ buffer' = Tail(buffer) /\ UNCHANGED <<handle, pos, eof, tailer>>
        BY <1>2 DEF SkipBlank
    <2>2. /\ buffer' \in Seq(Nat) /\ Sorted(buffer') /\ ToSet(buffer') \subseteq ToSet(buffer)
        BY <2>1, <1>a, <1>d, FirstLine DEF OrderInv
    <2>3. Consumed' \subseteq Consumed
        BY <2>2, <1>b DEF Consumed
    <2>4. ReaderInv'
        BY <2>1, <2>2, <1>a, <1>b DEF ReaderInv, diskVars
    <2>5. \A f \in Files : \A i : Ahead(f, i)' => Ahead(f, i)
        BY <2>1, <1>b DEF Ahead, Size, diskVars
    <2>6. OrderInv'
        BY <2>2, <2>3, <2>5, <1>b, <1>d DEF OrderInv, Below, diskVars
    <2>7. QED
        BY <1>c, <2>4, <2>6 DEF LinesInv
<1>3. CASE EndOfScan
    <2>1. UNCHANGED <<buffer, reported, Consumed, content, created, written>>
        BY <1>3, <1>b DEF EndOfScan, Consumed, diskVars
    <2>2. CASE Rotated /\ Reopen
        <3>1. handle # NoFile /\ pos > Size(handle) /\ handle' = path /\ pos' = 0 /\ eof' = (path = NoFile)
            BY <2>2 DEF Rotated, Reopen
        <3>2. handle' \in 0 .. created
            BY <3>1, <1>a DEF NoFile
        <3>3. ReaderInv'
            BY <3>1, <3>2, <2>1, <1>a DEF ReaderInv
        <3>4. ASSUME NEW f \in Files, NEW i, Ahead(f, i)' PROVE Ahead(f, i)
            <4>1. path # NoFile /\ f >= path /\ path = created /\ handle <= created
                BY <3>1, <3>4, <1>a, <1>e DEF Ahead
            <4>2. f >= handle
                BY <4>1, <1>a, <1>e
            <4>3. QED
                BY <4>2, <3>1, <1>a, <1>e DEF Ahead
        <3>5. OrderInv'
            BY <3>4, <2>1, <1>d DEF OrderInv
        <3>6. QED
            BY <1>c, <3>3, <3>5 DEF LinesInv
    <2>3. CASE eof' = TRUE /\ UNCHANGED <<handle, pos>>
        <3>1. ReaderInv'
            BY <2>3, <2>1, <1>a DEF ReaderInv
        <3>2. \A f \in Files : \A i : Ahead(f, i)' => Ahead(f, i)
            BY <2>3, <2>1 DEF Ahead, Size
        <3>3. OrderInv'
            BY <3>2, <2>1, <1>d DEF OrderInv
        <3>4. QED
            BY <1>c, <3>1, <3>3 DEF LinesInv
    <2>4. QED
        BY <1>3, <2>2, <2>3 DEF EndOfScan
<1>4. CASE TailerStops
    <2>1. tailer' = "stopped" /\ UNCHANGED <<handle, pos, buffer, reported, Consumed, content, created, written>>
        BY <1>4, <1>b DEF TailerStops, Consumed, diskVars
    <2>2. ReaderInv'
        BY <2>1, <1>a DEF ReaderInv
    <2>3. \A f \in Files : \A i : Ahead(f, i)' => Ahead(f, i)
        BY <2>1 DEF Ahead, Size
    <2>4. OrderInv'
        BY <2>1, <2>3, <1>d DEF OrderInv
    <2>5. QED
        BY <1>c, <2>2, <2>4 DEF LinesInv
<1>5. QED
    BY <1>1, <1>2, <1>3, <1>4 DEF TailerWorks

(* The line sent comes after all that were. *)
LEMMA LineSent ==
    ASSUME LinesInv, EmitLine, reported' = Append(reported, Head(buffer))
    PROVE  LinesInv'
<1>a. buffer \in Seq(Nat) /\ OrderInv
    BY DEF LinesInv, ReaderInv
<1>b. buffer # <<>> /\ buffer' = Tail(buffer) /\ UNCHANGED <<diskVars, tailer, handle, pos, eof>>
    BY DEF EmitLine, LineReady
<1>c. DiskInv'
    BY <1>b DEF LinesInv, DiskInv, diskVars
<1>d. /\ reported \in Seq(Nat) /\ Sorted(reported) /\ Sorted(buffer)
      /\ Below(ToSet(reported), ToSet(buffer))
      /\ Below({OldLines}, ToSet(reported) \cup ToSet(buffer))
      /\ \A c \in Consumed : c <= written
    BY <1>a DEF OrderInv
<1>1. /\ Head(buffer) \in Nat /\ Head(buffer) \in ToSet(buffer)
      /\ Tail(buffer) \in Seq(Nat) /\ Sorted(Tail(buffer)) /\ ToSet(Tail(buffer)) \subseteq ToSet(buffer)
      /\ \A m \in ToSet(Tail(buffer)) : Head(buffer) < m
    BY <1>a, <1>b, <1>d, FirstLine
<1>2. /\ reported' \in Seq(Nat) /\ Sorted(reported')
      /\ ToSet(reported') = ToSet(reported) \cup {Head(buffer)}
    <2>1. \A m \in ToSet(reported) : m < Head(buffer)
        BY <1>1, <1>d DEF Below
    <2>2. QED
        BY <2>1, <1>1, <1>d, AppendedLine
<1>3. Consumed' \subseteq Consumed
    BY <1>1, <1>2, <1>b DEF Consumed
<1>4. /\ Below(ToSet(reported'), ToSet(buffer'))
      /\ Below({OldLines}, ToSet(reported') \cup ToSet(buffer'))
    BY <1>1, <1>2, <1>b, <1>d DEF Below
<1>5. \A f \in Files : \A i : Ahead(f, i)' => Ahead(f, i)
    BY <1>b DEF Ahead, Size, diskVars
<1>6. OrderInv'
    BY <1>1, <1>2, <1>3, <1>4, <1>5, <1>a, <1>b DEF OrderInv, diskVars
<1>7. ReaderInv'
    BY <1>1, <1>b DEF LinesInv, ReaderInv, diskVars
<1>8. QED
    BY <1>c, <1>6, <1>7 DEF LinesInv

LEMMA LinesInitially == Init => LinesInv
<1> SUFFICES ASSUME Init PROVE LinesInv
    OBVIOUS
<1>a. /\ OldLines \in Nat /\ MaxFiles \in Nat \ {0} /\ path \in {0, 1} /\ created = path
      /\ written = OldLines /\ handle = path /\ pos = Size(path) /\ buffer = <<>>
      /\ reported = <<>> /\ tailer = IF path = NoFile THEN "stopped" ELSE "select"
      /\ content = [f \in Files |->
                      IF f = 1 /\ path = 1 THEN [i \in 1 .. OldLines |-> i] ELSE <<>>]
    BY TailerAssumption DEF Init, TailerInit, NoFile
<1>b. <<>> \in Seq(Nat) /\ Sorted(<<>>) /\ ToSet(<<>>) = {} /\ DOMAIN <<>> = {}
    BY DEF Sorted, ToSet
<1>c. ASSUME NEW f \in Files
      PROVE  /\ content[f] \in Seq(Nat) /\ Sorted(content[f])
             /\ \A n \in ToSet(content[f]) : n <= written
             /\ ~(f = 1 /\ path = 1) => content[f] = <<>>
             /\ f = 1 /\ path = 1 => Len(content[f]) = OldLines
    <2>1. CASE f = 1 /\ path = 1
        <3> DEFINE s == [i \in 1 .. OldLines |-> i]
        <3>1. content[f] = s
            BY <1>a, <2>1
        <3>2. s \in Seq(Nat) /\ Len(s) = OldLines /\ DOMAIN s = 1 .. OldLines
            BY <1>a
        <3>3. \A i \in 1 .. OldLines : s[i] = i /\ i <= OldLines /\ i \in Nat
            BY <1>a
        <3> HIDE DEF s
        <3>4. Sorted(s) /\ \A n \in ToSet(s) : n <= OldLines
            BY <3>2, <3>3 DEF Sorted, ToSet
        <3>5. QED
            BY <3>1, <3>2, <3>4, <2>1, <1>a
    <2>2. CASE ~(f = 1 /\ path = 1)
        <3>1. content[f] = <<>>
            BY <1>a, <2>2
        <3>2. QED
            BY <3>1, <2>2, <1>b
    <2>3. QED
        BY <2>1, <2>2
<1>d. \A f \in Files : f \in Nat /\ f # 0 /\ f # NoFile
    BY DEF Files, NoFile
<1>1. DiskInv
    <2>1. content \in [Files -> Seq(Nat)]
        BY <1>a, <1>c
    <2>2. \A f \in Files : f > created => content[f] = <<>>
        BY <1>a, <1>c, <1>d
    <2>3. ASSUME NEW f \in Files, NEW g \in Files, f < g
          PROVE  Below(ToSet(content[f]), ToSet(content[g]))
        <3>1. g # 1
            BY <2>3, <1>d
        <3>2. ToSet(content[g]) = {}
            BY <3>1, <1>b, <1>c
        <3>3. QED
            BY <3>2 DEF Below
    <2>4. /\ created \in 0 .. MaxFiles /\ path \in {NoFile, created}
          /\ written \in Nat /\ OldLines <= written
        BY <1>a DEF NoFile
    <2>5. QED
        BY <2>1, <2>2, <2>3, <2>4, <1>c DEF DiskInv
<1>2. ReaderInv
    <2>1. CASE path = 1
        <3>1. 1 \in Files
            BY <1>a DEF Files
        <3>2. content[1] \in Seq(Nat)
            BY <3>1, <1>c
        <3>3. pos = Len(content[1])
            BY <2>1, <1>a DEF Size, NoFile
        <3>4. pos \in Nat
            BY <3>2, <3>3
        <3>5. handle \in 0 .. created
            BY <2>1, <1>a
        <3>6. QED
            BY <3>4, <3>5, <2>1, <1>a, <1>b DEF ReaderInv, NoFile
    <2>2. CASE path = 0
        BY <2>2, <1>a, <1>b DEF ReaderInv, Size, NoFile
    <2>3. QED
        BY <2>1, <2>2, <1>a
<1>3. OrderInv
    <2>1. Consumed = {OldLines} /\ OldLines <= written
        BY <1>a, <1>b DEF Consumed
    <2>2. ASSUME NEW f \in Files, NEW i \in DOMAIN content[f], Ahead(f, i) PROVE FALSE
        <3>1. f = 1 /\ path = 1
            BY <2>2, <1>b, <1>c
        <3>2. /\ handle = 1 /\ pos = Len(content[f]) /\ Size(f) = Len(content[f])
              /\ content[f] \in Seq(Nat)
            BY <3>1, <1>a, <1>c, <1>d DEF Size
        <3>3. i <= Len(content[f]) /\ i \in Nat /\ Len(content[f]) \in Nat
            BY <3>2
        <3>4. QED
            BY <2>2, <3>1, <3>2, <3>3 DEF Ahead
    <2>3. QED
        BY <2>1, <2>2, <1>a, <1>b DEF OrderInv, Below
<1>4. QED
    BY <1>1, <1>2, <1>3 DEF LinesInv

LEMMA LinesStep == ASSUME LinesInv, [Next]_vars PROVE LinesInv'
<1>1. CASE TailerWorks /\ UNCHANGED reported
    BY <1>1, ReaderMoves
<1>2. CASE TailerStops /\ UNCHANGED reported
    BY <1>2, ReaderMoves
<1>3. CASE EmitLine /\ reported' = Append(reported, Head(buffer))
    BY <1>3, LineSent
<1>4. CASE (WriteLine \/ Truncate \/ Rename \/ Create) /\ UNCHANGED reported
    BY <1>4, DiskMoves
<1>5. CASE UNCHANGED <<tailerVars, reported>>
    BY <1>5
    DEF tailerVars, LinesInv, DiskInv, ReaderInv, OrderInv, Consumed, Ahead, Size
<1>6. QED
    BY <1>1, <1>2, <1>3, <1>4, <1>5
    DEF Next, TailerStep, TailerEmits, TailerEnds, WatcherStep, WatcherEmits, WatcherEnds,
        BatcherTakes, BatcherStep, FlushFailure, ReadProcFails, Rotation, Signal, Others, historyVars,
        vars, tailerVars

(* Whatever logrotate does with the file, copying and truncating it or     *)
(* moving it away, the tailer reports no line twice, none out of order and *)
(* none that was there before it started.                                  *)
THEOREM OnlyNewLinesOnce == Spec => []NewLinesOnce
<1>1. LinesInv => NewLinesOnce
    <2> SUFFICES ASSUME LinesInv PROVE NewLinesOnce
        OBVIOUS
    <2>1. Sorted(reported) /\ Below({OldLines}, ToSet(reported) \cup ToSet(buffer))
        BY DEF LinesInv, OrderInv
    <2>2. \A i \in DOMAIN reported : OldLines < reported[i]
        BY <2>1, InSet DEF Below
    <2>3. OldLines \in Nat /\ \A i \in DOMAIN reported : reported[i] \in Nat
        BY TailerAssumption DEF LinesInv, OrderInv
    <2>4. QED
        BY <2>1, <2>2, <2>3 DEF NewLinesOnce, Sorted
<1>2. QED
    BY <1>1, LinesInitially, LinesStep, PTL DEF Spec
=============================================================================
