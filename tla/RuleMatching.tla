---------------------------- MODULE RuleMatching ----------------------------
(***************************************************************************)
(* inch/internal/processor/rules: rules as YAML files give them (types.go, *)
(* parser.go), and whether an event meets their conditions (matcher.go).   *)
(*                                                                         *)
(* An event is a record [fields, metadata]: its proto fields, of which an  *)
(* absent one is empty, and its metadata map.  A rule has the fields of    *)
(* the source that matter; windows are in units of time.                   *)
(***************************************************************************)
EXTENDS Integers, Sequences, SequencesExt

CONSTANTS
    MetaKey,       \* the metadata key a field name stands for: itself, without "meta."
    Substrings,    \* pairs <<part, text>>
    RegexMatches   \* pairs <<pattern, text>> of patterns that compile

DirectFields ==
    {"type", "event_type", "hostname", "source_ip", "destination_ip", "source_port",
     "user", "process", "service", "severity", "agent_id", "raw_message"}

Lookup(map, key) == IF key \in DOMAIN map THEN map[key] ELSE ""

(* getFieldValue *)
FieldValue(event, field) ==
    IF field \in {"type", "event_type"} THEN event.fields.type
    ELSE IF field \in DirectFields THEN Lookup(event.fields, field)
    ELSE Lookup(event.metadata, MetaKey[field])

(* An unknown operator, like a pattern that does not compile, matches      *)
(* nothing.                                                                *)
MatchCondition(event, cond) ==
    LET value == FieldValue(event, cond.field)
    IN  \/ cond.op = "eq" /\ value = cond.value
        \/ cond.op = "neq" /\ value # cond.value
        \/ cond.op = "contains" /\ <<cond.value, value>> \in Substrings
        \/ cond.op = "regex" /\ <<cond.value, value>> \in RegexMatches
        \/ cond.op = "exists" /\ value # ""

MatchesConditions(event, conditions) ==
    conditions # <<>> /\ \A i \in DOMAIN conditions : MatchCondition(event, conditions[i])

(* GetGroupKey joins the values with "|"; none of them contains one. *)
GroupKey(event, groupBy) == [i \in DOMAIN groupBy |-> FieldValue(event, groupBy[i])]

-----------------------------------------------------------------------------
Condition == [field : STRING, op : STRING, value : STRING]
Step == [conditions : Seq(Condition), count : Int]
Rule == [id : STRING, name : STRING, type : STRING, enabled : {"true", "false", "unset"},
         conditions : Seq(Condition), groupBy : Seq(STRING), threshold : Int, window : Int,
         steps : Seq(Step)]

(* Rules are enabled unless they say otherwise. *)
IsEnabled(rule) == rule.enabled # "false"

(* validate *)
Valid(rule) ==
    /\ rule.id # "" /\ rule.name # ""
    /\ \/ rule.type = "single" /\ rule.conditions # <<>>
       \/ /\ rule.type = "threshold" /\ rule.conditions # <<>>
          /\ rule.threshold > 0 /\ rule.window > 0 /\ rule.groupBy # <<>>
       \/ /\ rule.type = "sequence" /\ Len(rule.steps) >= 2
          /\ rule.window > 0 /\ rule.groupBy # <<>>

(* A directory entry is a record [ext, isDir, parses, rule]. *)
IsRuleFile(entry) == ~entry.isDir /\ entry.ext \in {".yaml", ".yml"}

(* LoadFromDir: one bad file and there are no rules at all; event-processor *)
(* logs the error and goes on without any.  (No two files hold one rule.)   *)
LoadFromDir(dir) ==
    LET files == {entry \in dir : IsRuleFile(entry)}
    IN  IF \A file \in files : file.parses /\ Valid(file.rule)
          THEN {file.rule : file \in files}
          ELSE {}
=============================================================================
