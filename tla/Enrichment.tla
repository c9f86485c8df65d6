----------------------------- MODULE Enrichment -----------------------------
(***************************************************************************)
(* inch/internal/processor: what a worker adds to an event before it       *)
(* evaluates the rules, the enrichment pipeline of GeoIP and ThreatIntel   *)
(* and the severity.                                                       *)
(***************************************************************************)
CONSTANTS
    Addresses,        \* what net.ParseIP accepts
    LocalAddresses,   \* private and loopback ones
    KnownThreats      \* ThreatIntel.knownThreats: from addresses to categories

ASSUME AddressAssumption == LocalAddresses \subseteq Addresses /\ "" \notin Addresses

Nothing == [key \in {} |-> ""]

(* Entries are set in the map, also where there were some. *)
With(metadata, entries) ==
    [key \in DOMAIN metadata \cup DOMAIN entries |->
        IF key \in DOMAIN entries THEN entries[key] ELSE metadata[key]]

(* GeoIP.Enrich *)
GeoIPEnrich(metadata, source) ==
    IF source \in LocalAddresses
        THEN With(metadata, [geo_is_private |-> "true", geo_country |-> "PRIVATE"])
    ELSE IF source \in Addresses
        THEN With(metadata, [geo_is_private |-> "false", geo_country |-> "UNKNOWN"])
    ELSE metadata

(* ThreatIntel.Enrich *)
ThreatIntelEnrich(metadata, source) ==
    IF source = "" THEN metadata
    ELSE IF source \in DOMAIN KnownThreats
        THEN With(metadata, [threat_known |-> "true", threat_category |-> KnownThreats[source]])
    ELSE With(metadata, [threat_known |-> "false"])

(* Mutant: the pipeline makes a new map for every event. *)
Enrich_FreshMetadata(event) ==
    LET source == event.fields.source_ip
    IN  [event EXCEPT !.metadata = ThreatIntelEnrich(GeoIPEnrich(Nothing, source), source)]

(* Pipeline.Enrich with the enrichers of event-processor, neither of which *)
(* ever fails.                                                             *)
Enrich(event) ==
    LET source == event.fields.source_ip
    IN  [event EXCEPT !.metadata = ThreatIntelEnrich(GeoIPEnrich(@, source), source)]

ClassifySeverity(event) ==
    LET isThreat == /\ "threat_known" \in DOMAIN event.metadata
                    /\ event.metadata.threat_known = "true"
        type == event.fields.type
    IN  CASE type = "PRIVILEGE_ESCALATION" -> IF isThreat THEN "CRITICAL" ELSE "HIGH"
          [] type = "AUTH_FAILURE" -> IF isThreat THEN "HIGH" ELSE "MEDIUM"
          [] type = "FILE_MODIFY" -> "MEDIUM"
          [] OTHER -> "LOW"

(* processEvent: the event the rules of the processor see. *)
Processed(event) ==
    LET enriched == Enrich(event)
    IN  [enriched EXCEPT !.fields.severity = ClassifySeverity(enriched)]
=============================================================================
