------------------------------ MODULE MCReplay ------------------------------
(* Replay for TLC: failed and successful logins over one address, on two   *)
(* hosts; the rules directory holds a rule of each type, one that reads    *)
(* the enriched event, a disabled one and a file that is none.             *)
EXTENDS Replay

Line(host, marks, services) ==
    [host |-> host, marks |-> marks, services |-> services, from |-> "tor"]
Sshd == <<"", "", "", "", "sshd">>

Failed(host) == Line(host, {"failed password", "root"}, Sshd)
Accepted(host) == Line(host, {"session opened"}, Sshd)
LoginLines == {Failed("h1"), Accepted("h1"), Failed("h2")}

TorNodes == [a \in {"tor"} |-> "tor_exit"]
FieldNames == DirectFields \cup {"threat_category", "meta.source_file", "source_file"}
KeyOf == [f \in FieldNames |-> IF f = "meta.source_file" THEN "source_file" ELSE f]

Is(field, value) == [field |-> field, op |-> "eq", value |-> value]
Failure == << Is("type", "AUTH_FAILURE"), Is("service", "sshd") >>

NewRule(id, type, conditions) ==
    [id |-> id, name |-> id, type |-> type, enabled |-> "unset", conditions |-> conditions,
     groupBy |-> <<"source_ip">>, threshold |-> 2, window |-> 1, steps |-> <<>>]

BruteForce == NewRule("brute-force-ssh", "threshold", Failure)
Takeover ==
    [NewRule("lateral-movement", "sequence", <<>>) EXCEPT !.steps =
        << [conditions |-> Failure, count |-> 1],
           [conditions |-> << Is("event_type", "AUTH_SUCCESS") >>, count |-> 0] >>]
AuthLog == NewRule("auth-log", "single",
                << Is("meta.source_file", "auth.log"),
                   [field |-> "service", op |-> "neq", value |-> "sudo"],
                   [field |-> "service", op |-> "contains", value |-> "ssh"],
                   [field |-> "hostname", op |-> "regex", value |-> "^h1"],
                   [field |-> "source_ip", op |-> "exists", value |-> ""] >>)
TorAuth == NewRule("tor-auth-attempt", "single", << Is("threat_category", "tor_exit") >>)
Disabled == [NewRule("disabled", "single", Failure) EXCEPT !.enabled = "false"]

File(rule) == [ext |-> ".yaml", isDir |-> FALSE, parses |-> TRUE, rule |-> rule]
RuleFiles ==
    {File(rule) : rule \in {BruteForce, Takeover, AuthLog, TorAuth, Disabled}}
    \cup {[File(TorAuth) EXCEPT !.ext = ".md", !.parses = FALSE]}

SubstringPairs == {<<"ssh", "sshd">>}
RegexPairs == {<<"^h1", "h1">>}
TorGroup == <<"tor">>

(* The clock of the first host's collector is ahead; an agent of the       *)
(* second may be behind, and then meets a collector that is behind.        *)
AheadOrBehind == ("h1" :> { <<0, -1>> }) @@ ("h2" :> { <<0, 0>>, <<1, 1>> })
=============================================================================
