--------------------------- MODULE EdgeProperties ---------------------------
(***************************************************************************)
(* The parts around the stream itself: the reader of the quarantine topic, *)
(* the React hook, the trace view, the management API, the options a       *)
(* gateway is made from and the commands of the CLI.  They share no state, *)
(* so a behaviour moves one of them, part, and leaves the others as they   *)
(* start.                                                                  *)
(***************************************************************************)
EXTENDS Quarantine, SubscriptionHook, TraceConsole, ManagementApi, ProjectOptions, CommandLine

VARIABLE part
edgeVars == <<part, quarantineVars, hookVars, traceVars, managementVars, optionVars, commandVars>>

(***************************************************************************)
(* The instance                                                            *)
(***************************************************************************)
Failures == {"f1", "f2", "f3"}
Write(f, p, o) == [failure |-> f, partition |-> p, outcome |-> o]
Writes == <<Write("f1", 0, "acknowledged"), Write("f2", 0, "lost"), Write("f3", 1, "lost")>>

SizeOf == [tag \in Tag |-> IF tag = "small" THEN 1 ELSE 2]

ValidTwo == [p \in Principal |-> 2]

PlainRequest(path, host) ==
    LET get == Method(path) = "GET"
    IN [path |-> path, method |-> Method(path), host |-> host, credential |-> TRUE, origin |-> "none", header |-> TRUE,
        body |-> IF get THEN "none" ELSE "json", size |-> IF get THEN 0 ELSE 1, arguments |-> "valid", principal |-> "ann"]

Deviations(r) ==
    {[r EXCEPT !.credential = FALSE], [r EXCEPT !.origin = "other"], [r EXCEPT !.header = FALSE], [r EXCEPT !.size = 3],
     [r EXCEPT !.body = "malformed"], [r EXCEPT !.arguments = "invalid"], [r EXCEPT !.path = "unknown"]}

Hosts == {"native", "handler"}
RequestsTried ==
    UNION {Deviations(PlainRequest("preview-sessions", h)) : h \in Hosts} \cup
    {PlainRequest(path, h) : h \in Hosts,
                             path \in {"traces", "source-checks", "preview-sessions", "dev.disconnect", "failures.redrive"}}

(* Options that are accepted, and every way to change one group of them.   *)
Kafka(topic, group, profile) ==
    [kind |-> "kafka", topics |-> {topic}, consumerGroup |-> group, connectionRef |-> profile,
     codec |-> "json", startFrom |-> "latest", fixtureRef |-> NoValue]
Fixture(ref) ==
    [kind |-> "fixture", topics |-> {}, consumerGroup |-> NoValue, connectionRef |-> NoValue,
     codec |-> NoValue, startFrom |-> NoValue, fixtureRef |-> ref]
Policy(json, payload) ==
    [invalidJson |-> json, invalidPublicPayload |-> payload, retries |-> NoValue, replaySafe |-> NoValue,
     limit |-> NoValue, retirement |-> NoValue]
Accepted ==
    [mode |-> "development",
     config |-> [sources |-> [orders |-> Kafka("t1", "g1", "main"), stock |-> Kafka("t2", "g2", "main")],
                 connections |-> [main |-> [brokers |-> {"b"}, tls |-> TRUE], other |-> [brokers |-> {"b"}, tls |-> FALSE]],
                 channels |-> [status |-> [version |-> 1, source |-> "orders", paramsSchema |-> "x", payloadSchema |-> "x",
                                           handlersRef |-> "status", delivery |-> "state"]],
                 schemas |-> {"x"},
                 limits |-> [k \in Byte |-> IF k = "maxControlFrameBytes" THEN 9 ELSE 2],
                 failureHandling |-> [present |-> TRUE, quarantine |-> [topic |-> "q", capture |-> "full-record"],
                                      policies |-> [orders |-> Policy("quarantine-resync", NoValue)]]],
     handlers |-> [authenticate |-> TRUE, channels |-> [status |-> {"authorize", "map", "snapshot"}],
                   guards |-> [orders |-> {"recover"}]],
     development |-> [given |-> FALSE, fixtures |-> {}, principalsValid |-> TRUE],
     stateDirectory |-> TRUE, operatorSocket |-> FALSE, journalSupported |-> TRUE, healthPort |-> 0]

PolicyVariants ==
    {[Accepted EXCEPT !.config.failureHandling.policies = [orders |->
        [Policy(json, NoValue) EXCEPT !.retries = n, !.replaySafe = safe, !.limit = limit, !.retirement = retirement]],
        !.config.failureHandling.quarantine = quarantine,
        !.handlers.guards = guards] :
        json \in Policies \cup {NoValue, "skip"}, n \in {NoValue, 0, 2}, safe \in {NoValue, TRUE}, limit \in {NoValue, 0, 3},
        retirement \in {NoValue, "application", "operator"},
        quarantine \in {NoValue, [topic |-> "q", capture |-> "full-record"], [topic |-> "t2", capture |-> "full-record"]},
        guards \in {<<>>, [orders |-> {"recover"}], [orders |-> {"retire"}], [orders |-> {"recover", "retire"}],
                    [stock |-> {"recover"}]}}

SourceVariants ==
    {[Accepted EXCEPT !.mode = mode, !.stateDirectory = durable, !.config.sources.stock = stock,
                      !.config.channels.status.source = source, !.development = development,
                      !.journalSupported = supported, !.operatorSocket = socket] :
        mode \in {"development", "production"}, durable \in BOOLEAN, supported \in BOOLEAN, socket \in BOOLEAN,
        stock \in {Kafka("t2", "g2", "main"), Kafka("q", "g2", "main"), Kafka("t2", "g1", "main"),
                   Kafka("t2", "g2", "other"), Kafka("t2", "g2", "none"), Fixture("fx")},
        source \in {"orders", "stock", "gone"},
        development \in {[given |-> FALSE, fixtures |-> {}, principalsValid |-> TRUE],
                         [given |-> TRUE, fixtures |-> {"fx"}, principalsValid |-> TRUE],
                         [given |-> TRUE, fixtures |-> {"fx"}, principalsValid |-> FALSE]}}

LimitVariants ==
    {[Accepted EXCEPT !.config.limits = [@ EXCEPT ![k] = m, ![l] = n]] : k \in Byte, l \in Byte, m \in {0, 1, 10}, n \in {1, 10}}

HandlerVariants ==
    {[Accepted EXCEPT !.handlers.authenticate = authenticate, !.handlers.channels = channels, !.healthPort = port] :
        authenticate \in BOOLEAN, port \in {0, 10},
        channels \in {<<>>, [status |-> {"authorize", "map"}], [status |-> {"authorize", "map", "snapshot"}]}}

OptionsTried == PolicyVariants \cup SourceVariants \cup LimitVariants \cup HandlerVariants

(* One process sends a request or runs a gateway, the others write files.  *)
Invoked(name) ==
    [name |-> name, flags |-> "own", stateDir |-> TRUE, socket |-> FALSE, confirmed |-> TRUE,
     config |-> "valid", handlers |-> "valid", options |-> TRUE, repeats |-> FALSE]

ScaffoldFiles == <<"config", "handlers">>
TypeFiles == <<"types">>

InvocationsTried ==
    {Invoked(name) : name \in {"init", "generate", "exportFailure", "rebaseline", "redrive", "retireBoundary", "dev", "start"}} \cup
    {[Invoked("retireBoundary") EXCEPT !.confirmed = FALSE], [Invoked("redrive") EXCEPT !.flags = "missing"],
     [Invoked("redrive") EXCEPT !.repeats = TRUE],
     [Invoked("start") EXCEPT !.socket = TRUE, !.stateDir = FALSE], [Invoked("dev") EXCEPT !.options = FALSE],
     [Invoked("start") EXCEPT !.config = "invalid"], [Invoked("rebaseline") EXCEPT !.confirmed = FALSE]} \cup
    {[Invoked("dev") EXCEPT !.handlers = handlers] : handlers \in {"refused", "throws"}}

(***************************************************************************)
(* The specification                                                       *)
(***************************************************************************)
EdgeInit ==
    /\ part \in {"quarantine", "hook", "traces", "management", "options", "commands"}
    /\ QuarantineInit
    /\ HookInit /\ (part # "hook" => owns /\ strict)
    /\ TraceInit
    /\ ManagementInit
    /\ OptionsInit /\ (part # "options" => options = Accepted)
    /\ CommandInit /\ (part # "commands" => \A p \in Path : disk[p] = Absent)

InQuarantine(Step) == part = "quarantine" /\ Step /\ UNCHANGED <<part, hookVars, traceVars, managementVars, optionVars, commandVars>>
InHook(Step) == part = "hook" /\ Step /\ UNCHANGED <<part, quarantineVars, traceVars, managementVars, optionVars, commandVars>>
InTraces(Step) == part = "traces" /\ Step /\ UNCHANGED <<part, quarantineVars, hookVars, managementVars, optionVars, commandVars>>
InManagement(Step) == part = "management" /\ Step /\ UNCHANGED <<part, quarantineVars, hookVars, traceVars, optionVars, commandVars>>
InOptions(Step) == part = "options" /\ Step /\ UNCHANGED <<part, quarantineVars, hookVars, traceVars, managementVars, commandVars>>
InCommands(Step) == part = "commands" /\ Step /\ UNCHANGED <<part, quarantineVars, hookVars, traceVars, managementVars, optionVars>>

EdgeNext ==
    \/ InQuarantine(QuarantineNext)
    \/ InHook(HookNext)
    \/ InTraces(TraceNext)
    \/ InManagement(ManagementNext)
    \/ InOptions(Construct)
    \/ InCommands(CommandNext)

EdgeSpec == EdgeInit /\ [][EdgeNext]_edgeVars

(***************************************************************************)
(* Properties                                                              *)
(***************************************************************************)

(* The calls of read() stay in their type.                                  *)
QuarantineTypeOK == reads \in [Read -> ReadType]

(* KafkaQuarantineReader: whatever a read was cut off in, and however many *)
(* of its calls outlived it, when it is let go its group is deleted or the *)
(* operator was warned that it was not.                                    *)
ReadLeavesNothing ==
    \A r \in Read : reads[r].stage = "released" /\ ~reads[r].outlived =>
        ~reads[r].leaks /\ (reads[r].group = "absent" \/ reads[r].warned)

(* useSubscription (S2, S3): what a render shows is the subscription of    *)
(* that client and that identity, in the state it has now, and never one   *)
(* the hook has given up.                                                  *)
ScreenIsCurrent ==
    [][Render /\ screen'.sub # 0 =>
          LET shown == tree.subs[screen'.sub] IN
          /\ shown.state # "unsubscribed" /\ shown.state = screen'.state
          /\ shown.client = commit'.client /\ shown.key = commit'.key]_edgeVars

(* TraceBuffer.page, renderInspect: the rows on show are the last of the   *)
(* traces that match the filter up to the cursor, none skipped, repeated   *)
(* or of another filter, across evictions, restarts and late answers.      *)
RowsAreTheLog ==
    view.cursor.run # 0 =>
        IsSuffix(view.rows, Matching(view.filter, SubSeq(recorded[view.cursor.run], 1, view.cursor.seq)))

(* createRouter, createManagementHandler: previews and sessions change for *)
(* a request only if its host let that request in, whatever came between   *)
(* its checks and its body.                                                *)
LetIn(r) ==
    /\ r.credential /\ r.path # "unknown"
    /\ IF r.host = "native" THEN r.origin # "other" ELSE r.path \in Granted /\ r.header
    /\ r.body = "json" /\ r.size <= MaxBody /\ r.arguments # "invalid"

OnlyAdmittedActs ==
    [][\A c \in Call :
          calls'[c] # calls[c] /\ calls[c].pc # "idle" /\ <<previews, sessions>>' # <<previews, sessions>> =>
              LetIn(Of(c))]_edgeVars

(* GatewayRuntime's constructor: options it accepts are options it can run *)
(* as they stand.  Every channel has its source and its handlers; a        *)
(* consumer group is one source's; a quarantined record has a topic to go  *)
(* to that no source reads back; an automatic advance has a guard to       *)
(* decide it, and its boundary someone to retire it; a map handler that is *)
(* repeated may be; what must survive a restart of production is kept on   *)
(* disk; a full data frame fits every empty budget it passes.              *)
AcceptedIsRunnable ==
    verdict = "accepted" =>
        /\ \A c \in DOMAIN Config.channels :
              /\ Config.channels[c].source \in Sources
              /\ {"authorize", "map", "snapshot"} \subseteq options.handlers.channels[c]
        /\ \A s, u \in KafkaSources : s # u => Config.sources[s].consumerGroup # Config.sources[u].consumerGroup
        /\ \A s \in Sources :
              LET policy == resolveSourcePolicy(s)
                  advances == \E class \in Eligible : policyFor(policy, class) = "quarantine-resync"
                  quarantines == \E class \in Eligible : policyFor(policy, class) # "pause"
              IN /\ quarantines /\ s \in KafkaSources =>
                      \A u \in KafkaSources : Handling.quarantine.topic \notin Config.sources[u].topics
                 /\ quarantines /\ options.mode = "production" => options.stateDirectory /\ options.journalSupported
                 /\ advances => s \in DOMAIN Guards /\ "recover" \in Guards[s]
                 /\ advances /\ policy.retirement = "application" => "retire" \in Guards[s]
                 /\ policy.retries > 0 => policy.replaySafe
                 /\ s \in FixtureSources =>
                      options.mode = "development" /\ Config.sources[s].fixtureRef \in options.development.fixtures
        /\ Config.limits["maxDataFrameBytes"] <= Config.limits["maxPendingBytesGateway"]
        /\ Config.limits["maxDataFrameBytes"] <= Config.limits["maxPendingBytesPerConnection"]
        /\ Config.limits["maxControlFrameBytes"] > MaxTokenBytes

(* runCli, runOperatorCommand: the exit code of a command that was not     *)
(* killed is true.  Its gateway is stopped, unless a signal during startup *)
(* was all it took for exit 0 while the start goes on.  Files it was to    *)
(* create are all there, whole and its own (or another init, whose open    *)
(* failed, took one away), or it left none behind (but what could not be   *)
(* closed or removed).  An operation that changed something never exits as *)
(* invalid, as refused only when its ID was sent again, and as failed only *)
(* if the gateway said so; one that exits 0 was done.                      *)
ExitIsTrue ==
    \A c \in Command : Is(c, "exited") /\ ~Killed(c) =>
        LET code == commands[c].exit
            name == Called(c).name
            files == FilesOf(name)
        IN /\ \/ served[c] \in {"none", "stopped"}
              \/ served[c] = "overtaken" /\ Signalled(c) /\ code = EXIT.ok
           /\ name \in {"init", "exportFailure"} =>
                 \A n \in DOMAIN files :
                    IF code = EXIT.ok THEN disk[files[n]] = [by |-> c, whole |-> TRUE] \/ files[n] \in taken[c]
                    ELSE disk[files[n]].by # c \/ files[n] \in left[c]
           /\ name \in Mutations =>
                 /\ code = EXIT.ok => wire[c].applied
                 /\ wire[c].applied => \/ code \in {EXIT.ok, EXIT.unknown}
                                       \/ code = EXIT.runtime /\ wire[c].came
                                       \/ code = EXIT.refused /\ wire[c].came /\ Repeats(c)
=============================================================================
