--------------------------- MODULE ProjectOptions ---------------------------
(***************************************************************************)
(* What createGateway accepts.  The constructor of the gateway runs the    *)
(* validators of the contracts package and its own, each over the part of  *)
(* the options it knows, and anything it lets through is run as it stands: *)
(* sources, policies, recovery guards, the journal and the limits that the *)
(* other modules take for granted.                                         *)
(*                                                                         *)
(* Identifiers, patterns and unknown keys are left out: a name is a member *)
(* of a small set, and a value that is no member of its type is NoValue.   *)
(***************************************************************************)
EXTENDS Integers, FiniteSets

CONSTANTS Topic,         \* names a quarantine topic can have
          NoValue,       \* an optional setting left out
          Candidates     \* the options tried

Policies == {"pause", "quarantine-hold", "quarantine-resync"}
Eligible == {"invalidJson", "invalidPublicPayload"}
Byte == {"maxDataFrameBytes", "maxPendingBytesPerSubscription", "maxPendingBytesPerConnection",
         "maxPendingBytesGateway", "maxParamsBytes", "maxControlFrameBytes"}
MaxTokenBytes == 8          \* kilobytes, as are the limits here
MinDataFrame == 1

(* The options: config with the sources and channels that exist, the       *)
(* registered handlers, and what the host passes.                          *)
VARIABLES options, verdict
optionVars == <<options, verdict>>

Config == options.config
Sources == DOMAIN Config.sources
KafkaSources == {s \in Sources : Config.sources[s].kind = "kafka"}
FixtureSources == {s \in Sources : Config.sources[s].kind = "fixture"}
Handling == Config.failureHandling          \* [present, quarantine, policies]

(***************************************************************************)
(* contracts: validateProjectConfig                                        *)
(***************************************************************************)
ConnectionsValid == \A p \in DOMAIN Config.connections : Config.connections[p].brokers # {}

SourcesValid ==
    /\ \A s \in Sources : Config.sources[s].kind \in {"kafka", "fixture"}
    /\ \A s \in KafkaSources :
          /\ Config.sources[s].connectionRef \in DOMAIN Config.connections
          /\ Config.sources[s].topics # {}
          /\ Config.sources[s].codec = "json"
          /\ Config.sources[s].startFrom \in {"latest", "earliest"}
    /\ \A s, u \in KafkaSources : Config.sources[s].consumerGroup = Config.sources[u].consumerGroup => s = u
    /\ Cardinality({Config.sources[s].connectionRef : s \in KafkaSources}) <= 1

ChannelsValid ==
    \A c \in DOMAIN Config.channels :
        LET channel == Config.channels[c] IN
        /\ channel.version \in Nat \ {0}
        /\ channel.source \in Sources
        /\ {channel.paramsSchema, channel.payloadSchema} \subseteq Config.schemas
        /\ channel.handlersRef = c
        /\ channel.delivery = "state"

Ordered == {<<"maxDataFrameBytes", "maxPendingBytesPerSubscription">>,
            <<"maxPendingBytesPerSubscription", "maxPendingBytesPerConnection">>,
            <<"maxPendingBytesPerConnection", "maxPendingBytesGateway">>,
            <<"maxParamsBytes", "maxControlFrameBytes">>}

LimitsValid ==
    /\ \A k \in Byte : Config.limits[k] \in Nat \ {0}
    /\ \A pair \in Ordered : Config.limits[pair[1]] <= Config.limits[pair[2]]
    /\ Config.limits["maxControlFrameBytes"] > MaxTokenBytes
    /\ Config.limits["maxDataFrameBytes"] >= MinDataFrame

(***************************************************************************)
(* contracts: validateFailureHandling, resolveSourcePolicy, policyFor      *)
(***************************************************************************)
Uses(policy, which) == \E class \in Eligible : policy[class] \in which

Quarantines(policy) == Uses(policy, {"quarantine-hold", "quarantine-resync"})
Resyncs(policy) == Uses(policy, {"quarantine-resync"})

QuarantineValid ==
    Handling.quarantine # NoValue =>
        /\ Handling.quarantine.topic \in Topic
        /\ \A s \in KafkaSources : Handling.quarantine.topic \notin Config.sources[s].topics
        /\ Handling.quarantine.capture = "full-record"

PolicyValid(s, policy) ==
    /\ s \in Sources
    /\ \A class \in Eligible : policy[class] \in Policies \cup {NoValue}
    /\ Quarantines(policy) /\ s \in KafkaSources => Handling.quarantine # NoValue
    /\ policy.retries \in {NoValue, 0, 1, 2}
    /\ policy.retries \in {1, 2} => policy.replaySafe = TRUE
    /\ policy.limit # NoValue => policy.limit \in 1 .. 20 /\ Resyncs(policy)
    /\ policy.retirement # NoValue =>
          policy.retirement \in {"generation", "application", "operator"} /\ Resyncs(policy)

FailureHandlingValid ==
    Handling.present =>
        QuarantineValid /\ \A s \in DOMAIN Handling.policies : PolicyValid(s, Handling.policies[s])

ConfigValid == ConnectionsValid /\ SourcesValid /\ ChannelsValid /\ LimitsValid /\ FailureHandlingValid

Default(value, default) == IF value = NoValue THEN default ELSE value

(* The policy in force for a source that is running.                       *)
resolveSourcePolicy(s) ==
    LET configured == Handling.present /\ s \in DOMAIN Handling.policies
        policy == Handling.policies[s]
    IN IF configured
       THEN [invalidJson |-> Default(policy.invalidJson, "pause"),
             invalidPublicPayload |-> Default(policy.invalidPublicPayload, "pause"),
             retries |-> Default(policy.retries, 0), replaySafe |-> policy.replaySafe = TRUE,
             limit |-> Default(policy.limit, 5), retirement |-> Default(policy.retirement, "generation")]
       ELSE [invalidJson |-> "pause", invalidPublicPayload |-> "pause", retries |-> 0,
             replaySafe |-> FALSE, limit |-> 5, retirement |-> "generation"]

policyFor(policy, class) == IF class \in Eligible THEN policy[class] ELSE "pause"

(***************************************************************************)
(* gateway: validateHandlers, assertFailureHandling, the rules of the mode *)
(***************************************************************************)
HandlersValid ==
    /\ options.handlers.authenticate
    /\ DOMAIN options.handlers.channels = DOMAIN Config.channels
    /\ \A c \in DOMAIN Config.channels :
          {"authorize", "map", "snapshot"} \subseteq options.handlers.channels[Config.channels[c].handlersRef]

Guards == options.handlers.guards            \* guards[s] is the functions of handlers.sources[s]

GuardsMatch ==
    \A s \in DOMAIN Guards :
        /\ s \in Sources
        /\ Resyncs(resolveSourcePolicy(s))
        /\ "recover" \in Guards[s]
        /\ (resolveSourcePolicy(s).retirement = "application") = ("retire" \in Guards[s])

\* Mistake: a guard is checked when there is one, and not required.
GuardsChecked == GuardsMatch

GuardsValid ==
    /\ GuardsMatch
    /\ \A s \in Sources : Resyncs(resolveSourcePolicy(s)) => s \in DOMAIN Guards

Quarantined == {s \in Sources : Quarantines(resolveSourcePolicy(s))}

FailureOptionsValid ==
    /\ options.operatorSocket => options.stateDirectory /\ Handling.present
    /\ Quarantined # {} /\ options.mode = "production" => options.stateDirectory
    /\ options.stateDirectory /\ Handling.present => options.journalSupported
    /\ Cardinality({Config.sources[s].connectionRef : s \in Quarantined \cap KafkaSources}) <= 1

ModeValid ==
    IF options.mode = "production"
    THEN /\ ~options.development.given
         /\ FixtureSources = {}
         /\ \A s \in KafkaSources : Config.connections[Config.sources[s].connectionRef].tls
    ELSE /\ \A s \in FixtureSources : Config.sources[s].fixtureRef \in options.development.fixtures
         /\ options.development.principalsValid

Accepts ==
    /\ options.mode \in {"development", "production"}
    /\ ConfigValid
    /\ HandlersValid
    /\ GuardsValid /\ FailureOptionsValid
    /\ options.healthPort \in 0 .. 9
    /\ ModeValid

Construct ==
    /\ verdict = "none"
    /\ verdict' = IF Accepts THEN "accepted" ELSE "CONFIG_INVALID"
    /\ UNCHANGED options

OptionsInit == options \in Candidates /\ verdict = "none"

OptionsSpec == OptionsInit /\ [][Construct]_optionVars
=============================================================================
