------------------------------ MODULE LogLines ------------------------------
(***************************************************************************)
(* inch/internal/agent/tailer.go: what the tailer makes of a log line.     *)
(*                                                                         *)
(* A line is a record [host, marks, services, from]: host, where its agent *)
(* runs; marks, the Phrases it has in capital or small letters; services,  *)
(* the service each of its words names (the word up to its first "[", or   *)
(* else without a final colon); from, what is between the first "from "    *)
(* and the next space, or the end of the line ("" without a "from ").      *)
(***************************************************************************)
EXTENDS Naturals, Sequences

CONSTANT SourceFile  \* LogTailer.path

Phrases == {"failed password", "authentication failure", "accepted password",
            "session opened", "sudo", "root"}

(* The first case that applies: failures before successes before sudo. *)
LineType(line) ==
    IF line.marks \cap {"failed password", "authentication failure"} # {} THEN "AUTH_FAILURE"
    ELSE IF line.marks \cap {"accepted password", "session opened"} # {} THEN "AUTH_SUCCESS"
    ELSE IF {"sudo", "root"} \subseteq line.marks THEN "PRIVILEGE_ESCALATION"
    ELSE "SYSTEM_CALL"

(* extractService: the fifth word. *)
ExtractService(line) == IF Len(line.services) >= 5 THEN line.services[5] ELSE ""

LineService(line) ==
    CASE LineType(line) \in {"AUTH_FAILURE", "AUTH_SUCCESS"} -> ExtractService(line)
      [] LineType(line) = "PRIVILEGE_ESCALATION" -> "sudo"
      [] OTHER -> ""

(* parseLine; time is when the tailer reads the line.  An event is a       *)
(* record [fields, metadata, ts].                                          *)
ParseLine(line, time) ==
    [fields |-> [type |-> LineType(line), service |-> LineService(line),
                 source_ip |-> line.from, hostname |-> line.host,
                 severity |-> "UNSPECIFIED"],
     metadata |-> [key \in {"source_file"} |-> SourceFile],
     ts |-> time]
=============================================================================
