----------------------------- MODULE LogTailer -----------------------------
(***************************************************************************)
(* inch/internal/agent/tailer.go: one log tailer, and the file it follows. *)
(* Programs write lines to the file at the path; rotation truncates it or  *)
(* moves it away and creates another.  Lines are numbered as written and   *)
(* written whole; positions count lines.                                   *)
(*                                                                         *)
(* bufio.Scanner (external) reads a chunk, hands it out line by line, and  *)
(* stops for good once a read has found the end of the file.               *)
(***************************************************************************)
EXTENDS Naturals, Sequences, SequencesExt

CONSTANTS
    MaxLines,      \* bound: lines written
    OldLines,      \* lines in the file before the agent starts
    Blank,         \* empty lines
    MaxFiles       \* bound: files created at the path

ASSUME TailerAssumption ==
    /\ MaxLines \in Nat /\ OldLines \in 0 .. MaxLines
    /\ MaxFiles \in Nat \ {0}

NoFile == 0
Files == 1 .. MaxFiles
Lines == 1 .. MaxLines

VARIABLES
    content,    \* lines of each file
    path,       \* the file at the path
    created,    \* files so far
    written,    \* lines written so far
    tailer,     \* what Start is doing
    handle,     \* the open file
    pos,        \* its position
    buffer,     \* lines the scanner has read and not handed out
    eof         \* the scanner has found the end of the file

diskVars == <<content, path, created, written>>
readerVars == <<tailer, handle, pos, buffer, eof>>
tailerVars == <<content, path, created, written, tailer, handle, pos, buffer, eof>>

(* select: waiting in Start's select; scan: in the loop over the scanner;  *)
(* stopped: returned.                                                      *)
TailerModes == {"select", "scan", "stopped"}

Size(f) == IF f = NoFile THEN 0 ELSE Len(content[f])

(* Start opens the file and seeks to its end; without a file it returns.   *)
TailerInit ==
    /\ path \in {NoFile, 1}
    /\ content = [f \in Files |->
                    IF f = 1 /\ path = 1 THEN [i \in 1 .. OldLines |-> i] ELSE <<>>]
    /\ created = path /\ written = OldLines
    /\ tailer = IF path = NoFile THEN "stopped" ELSE "select"
    /\ handle = path
    /\ pos = Size(path)
    /\ buffer = <<>> /\ eof = FALSE

-----------------------------------------------------------------------------
(* The file: a program writes; logrotate with copytruncate; logrotate with *)
(* rename, and the program that creates the next file.                     *)
WriteLine ==
    /\ path # NoFile /\ written < MaxLines
    /\ written' = written + 1
    /\ content' = [content EXCEPT ![path] = Append(@, written')]
    /\ UNCHANGED <<path, created, readerVars>>

Truncate ==
    /\ path # NoFile
    /\ content' = [content EXCEPT ![path] = <<>>]
    /\ UNCHANGED <<path, created, written, readerVars>>

Rename ==
    /\ path # NoFile
    /\ path' = NoFile
    /\ UNCHANGED <<content, created, written, readerVars>>

Create ==
    /\ path = NoFile /\ created < MaxFiles
    /\ created' = created + 1
    /\ path' = created'
    /\ UNCHANGED <<content, written, readerVars>>

-----------------------------------------------------------------------------
(* The ticker fires and Scan reads what is there, or the first part of it; *)
(* with its buffer empty again, it reads again.                            *)
ReadChunk ==
    /\ tailer \in {"select", "scan"} /\ buffer = <<>> /\ ~eof /\ pos < Size(handle)
    /\ \E last \in pos + 1 .. Size(handle) :
        /\ buffer' = SubSeq(content[handle], pos + 1, last)
        /\ pos' = last
    /\ tailer' = "scan"
    /\ UNCHANGED <<diskVars, handle, eof>>

(* Mutant: an empty line ends the tailer. *)
SkipBlank_Returns ==
    /\ tailer = "scan" /\ buffer # <<>> /\ Head(buffer) \in Blank
    /\ tailer' = "stopped"
    /\ UNCHANGED <<diskVars, handle, pos, buffer, eof>>

SkipBlank ==
    /\ tailer = "scan" /\ buffer # <<>> /\ Head(buffer) \in Blank
    /\ buffer' = Tail(buffer)
    /\ UNCHANGED <<diskVars, tailer, handle, pos, eof>>

(* An event waits for room in the channel. *)
LineReady == tailer = "scan" /\ buffer # <<>> /\ Head(buffer) \notin Blank

EmitLine ==
    /\ LineReady
    /\ buffer' = Tail(buffer)
    /\ UNCHANGED <<diskVars, tailer, handle, pos, eof>>

(* Mutant: a file read to its end counts as truncated. *)
Rotated_AtEnd == handle # NoFile /\ pos >= Size(handle)

(* checkRotation: only a file shorter than the position was rotated; of no *)
(* open file it learns nothing.                                            *)
Rotated == handle # NoFile /\ pos > Size(handle)

(* The rotated file is closed and the one at the path read from its start  *)
(* by a new scanner; if there is none, the old scanner and no file remain. *)
Reopen ==
    /\ handle' = path
    /\ pos' = 0
    /\ eof' = (path = NoFile)

(* Scan returns false, at the end of the file and ever after, and the      *)
(* rotation is checked.  A change of the file between the two is as one    *)
(* before or after both.                                                   *)
EndOfScan ==
    /\ tailer \in {"select", "scan"} /\ buffer = <<>> /\ (eof \/ pos >= Size(handle))
    /\ tailer' = "select"
    /\ \/ Rotated /\ Reopen
       \/ ~Rotated /\ eof' = TRUE /\ UNCHANGED <<handle, pos>>
    /\ UNCHANGED <<diskVars, buffer>>

(* Mutant: the send does not watch the context. *)
TailerStops_InSelect ==
    /\ tailer = "select"
    /\ tailer' = "stopped"
    /\ UNCHANGED <<diskVars, handle, pos, buffer, eof>>

(* A cancelled context ends Start in either select. *)
TailerStops ==
    /\ tailer = "select" \/ LineReady
    /\ tailer' = "stopped"
    /\ UNCHANGED <<diskVars, handle, pos, buffer, eof>>

TailerWorks == ReadChunk \/ SkipBlank \/ EndOfScan

(* Lines of the open file that the tailer has not handed out. *)
Unread(n) ==
    \/ n \in ToSet(buffer)
    \/ handle # NoFile /\ \E i \in pos + 1 .. Size(handle) : content[handle][i] = n
=============================================================================
