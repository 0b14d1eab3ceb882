------------------------------ MODULE EdgeProofs ------------------------------
(***************************************************************************)
(* Proofs about the parts around the stream, for every value of their      *)
(* constants.  The parts share no state, so each has an invariant of its   *)
(* own, and a step of another part leaves it alone.                        *)
(***************************************************************************)
EXTENDS EdgeProperties, SequenceTheorems, WellFoundedInduction, TLAPS

-----------------------------------------------------------------------------
(* The options of a gateway.                                               *)

\* The verdict tells what the validators say of the options.
OptionsJudged == verdict = "accepted" => Accepts

\* A policy in force that quarantines is a configured one, whose settings were checked.
LEMMA PolicyInForce ==
    ASSUME NEW s \in Sources, NEW class \in Eligible, Accepts,
           resolveSourcePolicy(s)[class] # "pause"
    PROVE  /\ Handling.present /\ s \in DOMAIN Handling.policies
           /\ PolicyValid(s, Handling.policies[s])
           /\ Handling.policies[s][class] = resolveSourcePolicy(s)[class]
           /\ resolveSourcePolicy(s)[class] \in {"quarantine-hold", "quarantine-resync"}
PROOF
<1>1. Handling.present /\ s \in DOMAIN Handling.policies
    BY DEF resolveSourcePolicy, Eligible
<1>2. PolicyValid(s, Handling.policies[s])
    BY <1>1 DEF Accepts, ConfigValid, FailureHandlingValid
<1>3. resolveSourcePolicy(s)[class] = Default(Handling.policies[s][class], "pause")
    BY <1>1 DEF resolveSourcePolicy, Eligible
<1>4. /\ Handling.policies[s][class] # NoValue /\ Handling.policies[s][class] # "pause"
      /\ Handling.policies[s][class] = resolveSourcePolicy(s)[class]
    BY <1>3 DEF Default
<1> QED
    BY <1>1, <1>2, <1>4 DEF PolicyValid, Policies

LEMMA AcceptsRunnable ==
    ASSUME Accepts
    PROVE  AcceptedIsRunnable
PROOF
<1>1. ASSUME NEW c \in DOMAIN Config.channels
      PROVE  /\ Config.channels[c].source \in Sources
             /\ {"authorize", "map", "snapshot"} \subseteq options.handlers.channels[c]
    BY <1>1 DEF Accepts, ConfigValid, ChannelsValid, HandlersValid
<1>2. ASSUME NEW s \in KafkaSources, NEW u \in KafkaSources, s # u
      PROVE  Config.sources[s].consumerGroup # Config.sources[u].consumerGroup
    BY <1>2 DEF Accepts, ConfigValid, SourcesValid
<1>3. ASSUME NEW s \in Sources
      PROVE  LET policy == resolveSourcePolicy(s)
                 advances == \E class \in Eligible : policyFor(policy, class) = "quarantine-resync"
                 quarantines == \E class \in Eligible : policyFor(policy, class) # "pause"
             IN /\ quarantines /\ s \in KafkaSources =>
                     \A u \in KafkaSources : Handling.quarantine.topic \notin Config.sources[u].topics
                /\ quarantines /\ options.mode = "production" => options.stateDirectory /\ options.journalSupported
                /\ advances => s \in DOMAIN Guards /\ "recover" \in Guards[s]
                /\ advances /\ policy.retirement = "application" => "retire" \in Guards[s]
                /\ policy.retries > 0 => policy.replaySafe
                /\ s \in FixtureSources =>
                     options.mode = "development" /\ Config.sources[s].fixtureRef \in options.development.fixtures
    <2> DEFINE policy == resolveSourcePolicy(s)
    <2>1. ASSUME NEW class \in Eligible, policyFor(policy, class) # "pause"
          PROVE  /\ s \in KafkaSources =>
                        \A u \in KafkaSources : Handling.quarantine.topic \notin Config.sources[u].topics
                 /\ options.mode = "production" => options.stateDirectory /\ options.journalSupported
        <3>1. policy[class] # "pause"
            BY <2>1 DEF policyFor
        <3>2. /\ Handling.present /\ PolicyValid(s, Handling.policies[s])
              /\ Handling.policies[s][class] \in {"quarantine-hold", "quarantine-resync"}
              /\ policy[class] \in {"quarantine-hold", "quarantine-resync"}
            BY <3>1, PolicyInForce
        <3>3. Quarantines(Handling.policies[s]) /\ Quarantines(policy)
            BY <3>2 DEF Quarantines, Uses
        <3>4. s \in KafkaSources => Handling.quarantine # NoValue
            BY <3>2, <3>3 DEF PolicyValid
        <3>5. Handling.quarantine # NoValue =>
                  \A u \in KafkaSources : Handling.quarantine.topic \notin Config.sources[u].topics
            BY <3>2 DEF Accepts, ConfigValid, FailureHandlingValid, QuarantineValid
        <3>6. Quarantined # {}
            BY <3>3 DEF Quarantined
        <3> QED
            BY <3>2, <3>4, <3>5, <3>6 DEF Accepts, FailureOptionsValid
    <2>2. ASSUME NEW class \in Eligible, policyFor(policy, class) = "quarantine-resync"
          PROVE  /\ s \in DOMAIN Guards /\ "recover" \in Guards[s]
                 /\ policy.retirement = "application" => "retire" \in Guards[s]
        <3>1. Resyncs(policy)
            BY <2>2 DEF policyFor, Resyncs, Uses
        <3> QED
            BY <3>1 DEF Accepts, GuardsValid, GuardsMatch
    <2>3. policy.retries > 0 => policy.replaySafe
        <3>1. CASE Handling.present /\ s \in DOMAIN Handling.policies
            <4>1. /\ policy.retries = Default(Handling.policies[s].retries, 0)
                  /\ policy.replaySafe = (Handling.policies[s].replaySafe = TRUE)
                BY <3>1 DEF resolveSourcePolicy
            <4>2. PolicyValid(s, Handling.policies[s])
                BY <3>1 DEF Accepts, ConfigValid, FailureHandlingValid
            <4>3. CASE Handling.policies[s].retries = NoValue
                <5>1. policy.retries = 0
                    BY <4>1, <4>3 DEF Default
                <5> HIDE DEF policy
                <5> QED
                    BY <5>1
            <4>4. CASE Handling.policies[s].retries # NoValue
                <5>1. Handling.policies[s].retries \in {0, 1, 2}
                    BY <4>2, <4>4 DEF PolicyValid
                <5>2. policy.retries = Handling.policies[s].retries
                    BY <4>1, <4>4 DEF Default
                <5>3. policy.retries # 0 => policy.replaySafe
                    BY <4>1, <4>2, <5>1, <5>2 DEF PolicyValid
                <5>4. policy.retries \in {0, 1, 2}
                    BY <5>1, <5>2
                <5> HIDE DEF policy
                <5> QED
                    BY <5>3, <5>4
            <4> QED
                BY <4>3, <4>4
        <3>2. CASE ~(Handling.present /\ s \in DOMAIN Handling.policies)
            <4>1. policy.retries = 0
                BY <3>2 DEF resolveSourcePolicy
            <4> HIDE DEF policy
            <4> QED
                BY <4>1
        <3> QED
            BY <3>1, <3>2
    <2>4. s \in FixtureSources =>
              options.mode = "development" /\ Config.sources[s].fixtureRef \in options.development.fixtures
        BY DEF Accepts, ModeValid
    <2> QED
        BY <2>1, <2>2, <2>3, <2>4
<1>4. /\ Config.limits["maxDataFrameBytes"] <= Config.limits["maxPendingBytesGateway"]
      /\ Config.limits["maxDataFrameBytes"] <= Config.limits["maxPendingBytesPerConnection"]
      /\ Config.limits["maxControlFrameBytes"] > MaxTokenBytes
    <2> DEFINE l(k) == Config.limits[k]
    <2>1. /\ l("maxDataFrameBytes") \in Nat /\ l("maxPendingBytesPerSubscription") \in Nat
          /\ l("maxPendingBytesPerConnection") \in Nat /\ l("maxPendingBytesGateway") \in Nat
        BY DEF Accepts, ConfigValid, LimitsValid, Byte
    <2>2. /\ l("maxDataFrameBytes") <= l("maxPendingBytesPerSubscription")
          /\ l("maxPendingBytesPerSubscription") <= l("maxPendingBytesPerConnection")
          /\ l("maxPendingBytesPerConnection") <= l("maxPendingBytesGateway")
        BY DEF Accepts, ConfigValid, LimitsValid, Ordered
    <2>3. l("maxControlFrameBytes") > MaxTokenBytes
        BY DEF Accepts, ConfigValid, LimitsValid
    <2> HIDE DEF l
    <2>4. l("maxDataFrameBytes") <= l("maxPendingBytesGateway") /\ l("maxDataFrameBytes") <= l("maxPendingBytesPerConnection")
        BY <2>1, <2>2
    <2> QED
        BY <2>3, <2>4 DEF l
<1> QED
    BY <1>1, <1>2, <1>3, <1>4 DEF AcceptedIsRunnable

\* What the validators say depends on the options alone.
LEMMA SameOptions ==
    ASSUME UNCHANGED options
    PROVE  Accepts' <=> Accepts
PROOF
    BY DEF Accepts, ConfigValid, ConnectionsValid, SourcesValid, ChannelsValid, LimitsValid,
               FailureHandlingValid, QuarantineValid, PolicyValid, Quarantines, Resyncs, Uses,
               HandlersValid, GuardsValid, GuardsMatch, FailureOptionsValid, Quarantined, ModeValid,
               resolveSourcePolicy, Config, Sources, KafkaSources, FixtureSources, Handling, Guards

LEMMA OptionsStep ==
    ASSUME OptionsJudged, [EdgeNext]_edgeVars
    PROVE  OptionsJudged'
PROOF
<1>1. CASE UNCHANGED optionVars
    <2>1. options' = options /\ verdict' = verdict
        BY <1>1 DEF optionVars
    <2>2. Accepts' <=> Accepts
        BY <2>1, SameOptions
    <2> QED
        BY <2>1, <2>2 DEF OptionsJudged
<1>2. CASE Construct
    <2>1. options' = options
        BY <1>2 DEF Construct
    <2>2. verdict' = "accepted" => Accepts
        BY <1>2 DEF Construct
    <2>3. Accepts' <=> Accepts
        BY <2>1, SameOptions
    <2> QED
        BY <2>2, <2>3 DEF OptionsJudged
<1> QED
    BY <1>1, <1>2 DEF EdgeNext, edgeVars, InQuarantine, InHook, InTraces, InManagement, InOptions, InCommands

(* GatewayRuntime's constructor: whatever options are tried, those it      *)
(* accepts can be run as they stand.                                       *)
THEOREM AcceptedOptionsAreRunnable == EdgeSpec => []AcceptedIsRunnable
PROOF
<1>1. EdgeInit => OptionsJudged
    BY DEF EdgeInit, OptionsInit, OptionsJudged
<1>2. OptionsJudged /\ [EdgeNext]_edgeVars => OptionsJudged'
    BY OptionsStep
<1>3. OptionsJudged => AcceptedIsRunnable
    BY AcceptsRunnable DEF OptionsJudged, AcceptedIsRunnable
<1> QED
    BY <1>1, <1>2, <1>3, PTL DEF EdgeSpec
-----------------------------------------------------------------------------
(* The management API.                                                     *)

Entered == {"reading", "running", "checking"}

CallType ==
    [pc : {"authorizing", "answered"} \cup Entered, request : Requests, operator : BOOLEAN, status : Int]

GatewayType ==
    [state : {"starting", "running", "stopping", "stopped"}, operator : BOOLEAN, checks : Int, clock : Int, tokens : Int]

ManagementTyped ==
    /\ gateway \in GatewayType
    /\ calls \in [Call -> {NoCall} \cup CallType]

\* What a host lets in before the body is read.
Passed(r) ==
    /\ r.credential /\ r.path # "unknown" /\ r.method = Method(r.path)
    /\ r.host = "native" => r.origin # "other"
    /\ r.host = "handler" => r.path \in Granted \cup {"workbench"} /\ SameSite(r)
    /\ r.method = "POST" => r.size <= BodyLimit(r)

\* A call that has passed the checks, and its body where it has one; a call whose host is
\* asked is one of a mounted handler.
CallAdmitted(k) ==
    /\ k.pc = "authorizing" => k.request.host = "handler"
    /\ k.pc \in Entered => Passed(k.request)
    /\ k.pc = "reading" => k.request.method = "POST"
    /\ k.pc \in {"running", "checking"} /\ k.request.method = "POST" => k.request.body = "json"

ManagementInv == ManagementTyped /\ \A c \in Call : CallAdmitted(calls[c])

LEMMA RequestTyped ==
    ASSUME NEW r \in Requests
    PROVE  /\ r.path \in Implemented \cup {"unknown"} /\ r.method \in {"GET", "POST"}
           /\ r.host \in {"native", "handler"} /\ r.size \in Nat
PROOF
    BY ManagementAssumption DEF RequestType

\* The router's checks before its first await.
LEMMA RoutedAdmitted ==
    ASSUME NEW k \in CallType, gateway \in GatewayType,
           k.request.credential, k.request.host = "native" => k.request.origin # "other"
    PROVE  Routed(k) \in CallType /\ CallAdmitted(Routed(k))
PROOF
<1>0. gateway.operator \in BOOLEAN
    BY DEF GatewayType
<1> DEFINE r == k.request
<1>1. /\ r \in Requests /\ r.path \in Implemented \cup {"unknown"} /\ r.method \in {"GET", "POST"}
      /\ r.host \in {"native", "handler"} /\ r.size \in Nat
    BY RequestTyped DEF CallType
<1>2. CASE RefusedFirst(r) # 0
    <2>1. RefusedFirst(r) \in Int
        BY DEF RefusedFirst
    <2>2. Routed(k) = [k EXCEPT !.pc = "answered", !.status = RefusedFirst(r)]
        BY <1>2 DEF Routed, Answered
    <2> HIDE DEF r
    <2>3. Routed(k) \in CallType
        BY <2>1, <2>2 DEF CallType
    <2>4. Routed(k).pc = "answered"
        BY <2>2 DEF CallType
    <2> QED
        BY <2>3, <2>4 DEF CallAdmitted, Entered
<1>3. CASE RefusedFirst(r) = 0
    <2>1. ~Unrouted(r) /\ Allowed(r) /\ SameSite(r) /\ (r.method = "POST" => ~(r.size > BodyLimit(r)))
        BY <1>3 DEF RefusedFirst
    <2>2. BodyLimit(r) \in Nat
        BY ManagementAssumption DEF BodyLimit
    <2>3. r.method = "POST" => r.size <= BodyLimit(r)
        BY <1>1, <2>1, <2>2
    <2>4. Passed(r)
        BY <1>1, <2>1, <2>3 DEF Passed, Unrouted, Allowed
    <2>5. Routed(k) = [k EXCEPT !.operator = gateway.operator,
                                !.pc = IF r.method = "POST" THEN "reading" ELSE "running"]
        BY <1>3 DEF Routed
    <2>6. /\ Routed(k) \in CallType /\ Routed(k).request = r
          /\ Routed(k).pc = IF r.method = "POST" THEN "reading" ELSE "running"
        BY <1>0, <2>5 DEF CallType, Entered
    <2> HIDE DEF r
    <2> QED
        BY <2>4, <2>6 DEF CallAdmitted, Entered
<1> QED
    BY <1>2, <1>3

LEMMA AnsweredAdmitted ==
    ASSUME NEW k \in CallType, NEW status \in Int
    PROVE  Answered(k, status) \in CallType /\ CallAdmitted(Answered(k, status))
PROOF
    BY DEF Answered, CallType, CallAdmitted, Entered

LEMMA NewAdmitted ==
    ASSUME NEW r \in Requests
    PROVE  New(r) \in CallType /\ New(r).request = r /\ New(r).pc = "authorizing"
PROOF
    BY DEF New, CallType

\* A call is put in the place of one, and the others stay.
LEMMA CallReplaced ==
    ASSUME ManagementInv, NEW c \in Call, NEW k \in CallType, CallAdmitted(k),
           calls' = [calls EXCEPT ![c] = k], gateway' \in GatewayType
    PROVE  ManagementInv'
PROOF
<1>1. calls' \in [Call -> {NoCall} \cup CallType]
    BY DEF ManagementInv, ManagementTyped
<1>2. \A d \in Call : CallAdmitted(calls'[d])
    BY DEF ManagementInv, ManagementTyped
<1> QED
    BY <1>1, <1>2 DEF ManagementInv, ManagementTyped, CallAdmitted, Entered, CallType, Passed, SameSite, BodyLimit

LEMMA ManagementStep ==
    ASSUME ManagementInv, ManagementNext
    PROVE  ManagementInv'
PROOF
<1>0. calls \in [Call -> {NoCall} \cup CallType] /\ gateway \in GatewayType
    BY DEF ManagementInv, ManagementTyped
<1>1. ASSUME NEW c \in Call, NEW pc \in {"authorizing"} \cup Entered, At(c, pc)
      PROVE  calls[c] \in CallType /\ Of(c) \in Requests /\ CallAdmitted(calls[c])
    BY <1>0, <1>1 DEF At, NoCall, Of, CallType, Entered, ManagementInv
<1>2. ASSUME NEW c \in Call, NEW status \in Int, calls[c] \in CallType,
             Answer(c, status), gateway' \in GatewayType
      PROVE  ManagementInv'
    BY <1>2, AnsweredAdmitted, CallReplaced DEF Answer
<1>3. ASSUME NEW c \in Call, ArrivesAtServer(c)
      PROVE  ManagementInv'
    <2>1. PICK r \in Requests :
              /\ r.host = "native"
              /\ calls' = [calls EXCEPT ![c] = IF NativeRefusal(r) # 0 THEN Answered(New(r), NativeRefusal(r)) ELSE Routed(New(r))]
              /\ gateway' = [gateway EXCEPT !.tokens = IF NativeRefusal(r) = 0 THEN @ - 1 ELSE @]
        BY <1>3 DEF ArrivesAtServer
    <2>2. gateway' \in GatewayType
        BY <1>0, <2>1 DEF GatewayType
    <2>3. CASE NativeRefusal(r) # 0
        <3>1. NativeRefusal(r) \in Int
            BY DEF NativeRefusal
        <3> QED
            BY <2>1, <2>2, <2>3, <3>1, NewAdmitted, AnsweredAdmitted, CallReplaced
    <2>4. CASE NativeRefusal(r) = 0
        <3>1. r.credential /\ r.origin # "other"
            BY <2>4 DEF NativeRefusal
        <3> QED
            BY <1>0, <2>1, <2>2, <2>4, <3>1, NewAdmitted, RoutedAdmitted, CallReplaced
    <2> QED
        BY <2>3, <2>4
<1>4. ASSUME NEW c \in Call, ArrivesAtHandler(c)
      PROVE  ManagementInv'
    <2>1. PICK r \in Requests : r.host = "handler" /\ calls' = [calls EXCEPT ![c] = New(r)]
        BY <1>4 DEF ArrivesAtHandler
    <2>2. CallAdmitted(New(r))
        BY <2>1, NewAdmitted DEF CallAdmitted, Entered
    <2> QED
        BY <1>0, <1>4, <2>1, <2>2, NewAdmitted, CallReplaced DEF ArrivesAtHandler
<1>5. ASSUME NEW c \in Call, Authorizes(c)
      PROVE  ManagementInv'
    <2>1. At(c, "authorizing") /\ UNCHANGED gateway
        BY <1>5 DEF Authorizes
    <2>2. calls[c] \in CallType /\ Of(c).host = "handler"
        BY <1>1, <2>1 DEF CallAdmitted, At, Of
    <2>3. CASE Of(c).credential
        <3>1. Routed(calls[c]) \in CallType /\ CallAdmitted(Routed(calls[c]))
            BY <1>0, <2>2, <2>3, RoutedAdmitted DEF Of
        <3>2. calls' = [calls EXCEPT ![c] = Routed(calls[c])]
            BY <1>5, <2>3 DEF Authorizes
        <3> QED
            BY <1>0, <2>1, <3>1, <3>2, CallReplaced
    <2>4. CASE ~Of(c).credential
        <3>1. Answer(c, 401)
            BY <1>5, <2>4 DEF Authorizes, Answer
        <3> QED
            BY <1>0, <1>2, <2>1, <2>2, <3>1
    <2> QED
        BY <2>3, <2>4
<1>6. ASSUME NEW c \in Call, ReadsBody(c)
      PROVE  ManagementInv'
    <2>1. At(c, "reading") /\ UNCHANGED gateway
        BY <1>6 DEF ReadsBody
    <2>2. calls[c] \in CallType /\ CallAdmitted(calls[c])
        BY <1>1, <2>1 DEF Entered
    <2>3. CASE Of(c).body = "json"
        <3> DEFINE k == [calls[c] EXCEPT !.pc = "running"]
        <3>1. calls' = [calls EXCEPT ![c] = k]
            BY <1>6, <2>3 DEF ReadsBody
        <3>2. k \in CallType /\ k.request = Of(c) /\ k.pc = "running"
            BY <2>2 DEF CallType, Of, Entered
        <3>3. CallAdmitted(k)
            BY <2>1, <2>2, <2>3, <3>2 DEF CallAdmitted, At, Of, Entered
        <3> HIDE DEF k
        <3> QED
            BY <1>0, <2>1, <3>1, <3>2, <3>3, CallReplaced
    <2>4. CASE Of(c).body # "json"
        <3>1. Answer(c, 400)
            BY <1>6, <2>4 DEF ReadsBody, Answer
        <3> QED
            BY <1>0, <1>2, <2>1, <2>2, <3>1
    <2> QED
        BY <2>3, <2>4
<1>7. ASSUME NEW c \in Call, RunCheck(c)
      PROVE  ManagementInv'
    <2>1. At(c, "running")
        BY <1>7 DEF RunCheck, Runs
    <2>2. calls[c] \in CallType /\ CallAdmitted(calls[c])
        BY <1>1, <2>1 DEF Entered
    <2>3. CASE Answer(c, 429) /\ UNCHANGED gateway
        BY <1>0, <1>2, <2>2, <2>3
    <2>4. CASE calls' = [calls EXCEPT ![c].pc = "checking"] /\ gateway' = Starts(gateway)
        <3> DEFINE k == [calls[c] EXCEPT !.pc = "checking"]
        <3>1. calls' = [calls EXCEPT ![c] = k]
            BY <1>0, <2>4
        <3>2. k \in CallType /\ k.request = Of(c) /\ k.pc = "checking"
            BY <2>2 DEF CallType, Of, Entered
        <3>3. CallAdmitted(k)
            BY <2>1, <2>2, <3>2 DEF CallAdmitted, At, Of, Entered
        <3>4. gateway' \in GatewayType
            BY <1>0, <2>4 DEF Starts, GatewayType
        <3> HIDE DEF k
        <3> QED
            BY <1>0, <3>1, <3>2, <3>3, <3>4, CallReplaced
    <2> QED
        BY <1>7, <2>3, <2>4 DEF RunCheck
<1>8. ASSUME NEW c \in Call,
             \/ Disconnects(c) \/ InvalidArguments(c) \/ RunRead(c) \/ RunMutation(c) \/ CheckEnds(c)
             \/ RunPreview(c) \/ RunDisconnect(c)
      PROVE  ManagementInv'
    <2>1. PICK pc \in Entered : At(c, pc)
        BY <1>8 DEF Entered, Disconnects, InvalidArguments, RunRead, RunMutation, CheckEnds, RunPreview, RunDisconnect, Runs
    <2>2. calls[c] \in CallType
        BY <1>1, <2>1
    <2>3. PICK status \in Int : Answer(c, status)
        BY <1>8 DEF Disconnects, InvalidArguments, RunRead, RunMutation, CheckEnds, RunPreview, RunDisconnect, Answer
    <2>4. gateway' \in GatewayType
        BY <1>0, <1>8 DEF Disconnects, InvalidArguments, RunRead, RunMutation, CheckEnds, RunPreview, RunDisconnect, GatewayType
    <2> QED
        BY <1>0, <1>2, <2>2, <2>3, <2>4
<1>9. ASSUME UNCHANGED calls, gateway' \in GatewayType
      PROVE  ManagementInv'
    BY <1>0, <1>9 DEF ManagementInv, ManagementTyped, CallAdmitted, Entered, CallType, NoCall, Passed, SameSite, BodyLimit
<1>10. CASE ServerCloses
    <2>1. ASSUME NEW c \in Call
          PROVE  calls'[c] \in {NoCall} \cup CallType /\ CallAdmitted(calls'[c])
        <3>1. CASE At(c, "reading")
            BY <1>1, <1>10, <3>1, AnsweredAdmitted DEF ServerCloses, ManagementInv, Entered
        <3>2. CASE ~At(c, "reading")
            BY <1>0, <1>10, <3>2 DEF ServerCloses, ManagementInv
        <3> QED
            BY <3>1, <3>2
    <2>2. calls' \in [Call -> {NoCall} \cup CallType]
        BY <1>10, <2>1 DEF ServerCloses
    <2>3. gateway' \in GatewayType
        BY <1>0, <1>10 DEF ServerCloses, GatewayType
    <2> QED
        BY <1>0, <2>1, <2>2, <2>3 DEF ManagementInv, ManagementTyped, CallAdmitted, Entered, CallType, NoCall, Passed, SameSite, BodyLimit
<1>11. CASE OperatorComesUp \/ Stops \/ ClockTicks
    <2>1. gateway' \in GatewayType
        <3>1. CASE OperatorComesUp
            BY <1>0, <3>1 DEF OperatorComesUp, GatewayType
        <3>2. CASE Stops
            BY <1>0, <3>2 DEF Stops, GatewayType
        <3>3. CASE ClockTicks
            <4>1. Burst \in Int
                BY ManagementAssumption
            <4>2. gateway.clock + 1 \in Int
                BY <1>0 DEF GatewayType
            <4>3. gateway' = [gateway EXCEPT !.clock = gateway.clock + 1, !.tokens = Burst]
                BY <3>3 DEF ClockTicks
            <4>4. [gateway EXCEPT !.clock = gateway.clock + 1] \in GatewayType
                BY <1>0, <4>2 DEF GatewayType
            <4>5. gateway' = [[gateway EXCEPT !.clock = gateway.clock + 1] EXCEPT !.tokens = Burst]
                BY <4>3
            <4> QED
                BY <4>1, <4>4, <4>5 DEF GatewayType
        <3> QED
            BY <1>11, <3>1, <3>2, <3>3
    <2>2. UNCHANGED calls
        BY <1>11 DEF OperatorComesUp, Stops, ClockTicks
    <2> QED
        BY <1>9, <2>1, <2>2
<1>12. CASE (\E p \in previews : PreviewSessionOpens(p)) \/ (\E s \in sessions : PreviewSessionEnds(s))
    BY <1>0, <1>9, <1>12 DEF PreviewSessionOpens, PreviewSessionEnds
<1> QED
    BY <1>3, <1>4, <1>5, <1>6, <1>7, <1>8, <1>10, <1>11, <1>12 DEF ManagementNext

\* Only a preview that is made and a session that is closed change the two sets for a call.
LEMMA ActsAdmitted ==
    ASSUME ManagementInv, ManagementNext, NEW c \in Call,
           calls'[c] # calls[c], calls[c].pc # "idle", <<previews, sessions>>' # <<previews, sessions>>
    PROVE  LetIn(Of(c))
PROOF
<1>1. PICK d \in Call : RunPreview(d) \/ RunDisconnect(d)
    BY DEF ManagementNext, ArrivesAtServer, ArrivesAtHandler, Authorizes, ReadsBody, Disconnects, InvalidArguments,
           RunRead, RunMutation, RunCheck, CheckEnds, PreviewSessionOpens, PreviewSessionEnds, OperatorComesUp,
           Stops, ServerCloses, ClockTicks
<1>2. \E status \in Int : Answer(d, status)
    BY <1>1 DEF RunPreview, RunDisconnect
<1>3. c = d
    BY <1>2 DEF Answer
<1>4. /\ At(c, "running") /\ Of(c).path \in {"preview-sessions", "dev.disconnect"} /\ Of(c).arguments # "invalid"
    BY <1>1, <1>3 DEF RunPreview, RunDisconnect, Runs
<1>5. CallAdmitted(calls[c]) /\ Of(c) \in Requests
    BY <1>4 DEF ManagementInv, ManagementTyped, At, Of, NoCall, CallType
<1>6. /\ Passed(Of(c)) /\ (Of(c).method = "POST" => Of(c).body = "json")
    BY <1>4, <1>5 DEF CallAdmitted, At, Of, Entered
<1>7. Of(c).method = "POST" /\ BodyLimit(Of(c)) = MaxBody
    BY <1>4, <1>6 DEF Passed, Method, ReadOperations, OperatorReads, OperatorOperations, OperatorWrites, BodyLimit
<1>8. Of(c).host = "handler" => Of(c).path \in Granted /\ Of(c).header
    BY <1>4, <1>6, <1>7 DEF Passed, SameSite
<1> QED
    BY <1>4, <1>5, <1>6, <1>7, <1>8, RequestTyped DEF LetIn, Passed

(* createRouter, createManagementHandler: previews and sessions change     *)
(* only for a request that its host let in.                                *)
THEOREM ManagementIsAdmitted == EdgeSpec => OnlyAdmittedActs
PROOF
<1>1. EdgeInit => ManagementInv
    BY ManagementAssumption DEF EdgeInit, ManagementInit, ManagementInv, ManagementTyped, GatewayType, CallAdmitted, NoCall, Entered
<1>2. ManagementInv /\ [EdgeNext]_edgeVars => ManagementInv'
    <2>1. ASSUME ManagementInv, UNCHANGED managementVars
          PROVE  ManagementInv'
        BY <2>1 DEF managementVars, ManagementInv, ManagementTyped, CallAdmitted, Entered, CallType, NoCall, Passed, SameSite, BodyLimit
    <2> QED
        BY <2>1, ManagementStep DEF EdgeNext, edgeVars, InQuarantine, InHook, InTraces, InManagement, InOptions, InCommands
<1>3. ASSUME ManagementInv, [EdgeNext]_edgeVars, NEW c \in Call,
             calls'[c] # calls[c], calls[c].pc # "idle", <<previews, sessions>>' # <<previews, sessions>>
      PROVE  LetIn(Of(c))
    <2>1. ManagementNext
        BY <1>3 DEF EdgeNext, edgeVars, managementVars, InQuarantine, InHook, InTraces, InManagement, InOptions, InCommands
    <2> QED
        BY <1>3, <2>1, ActsAdmitted
<1>4. ManagementInv /\ [EdgeNext]_edgeVars =>
          [\A c \in Call :
              calls'[c] # calls[c] /\ calls[c].pc # "idle" /\ <<previews, sessions>>' # <<previews, sessions>> =>
                  LetIn(Of(c))]_edgeVars
    BY <1>3
<1> QED
    BY <1>1, <1>2, <1>4, PTL DEF EdgeSpec, OnlyAdmittedActs

-----------------------------------------------------------------------------
(* The commands of the CLI.                                                *)

Pcs == {"idle", "config", "handlers", "starting", "reporting", "managing", "serving", "stopping",
        "sending", "waiting", "writing", "removing", "exited"}

\* The invocation of an idle command is the one of CommandInit.
ProcessType ==
    [pc : Pcs, run : InvocationType \cup {CHOOSE i \in Invocations : TRUE}, exit : 0..4 \cup {NoExit},
     made : Seq(Path), open : BOOLEAN, signals : 0..2]

WireType ==
    [sent : BOOLEAN, answer : {"none", "completed", "refused", "failed", "unknown", "INVALID_REQUEST", "error"},
     came : BOOLEAN, applied : BOOLEAN]

CommandTyped ==
    /\ commands \in [Command -> ProcessType]
    /\ disk \in [Path -> [by : Command \cup {User, Nobody}, whole : BOOLEAN]]
    /\ left \in [Command -> SUBSET Path] /\ taken \in [Command -> SUBSET Path]
    /\ served \in [Command -> {"none", "starting", "running", "failed", "stopped", "overtaken"}]
    /\ wire \in [Command -> WireType]

Writers == {"init", "generate", "exportFailure"}
Exclusives == {"init", "exportFailure"}

\* Where a command of each name can be.
Placed(k) ==
    /\ k.pc # "idle" => k.run \in InvocationType
    /\ k.pc = "config" => k.run.name \notin OperatorCommands \cup {"init", "unknown"}
    /\ k.pc \in {"handlers", "starting", "reporting", "managing", "serving", "stopping"} => k.run.name \in GatewayCommands
    /\ k.pc \in {"sending", "waiting"} => k.run.name \in OperatorCommands
    /\ k.pc = "writing" => k.run.name \in Writers
    /\ k.pc = "removing" => k.run.name \in Exclusives

\* The gateway of a command is the one its pc says.  A command stops a gateway that is
\* starting only for a signal, and then exits with 0 whether that stop gave up or not.
ServedAs(k, gw) ==
    /\ k.pc \notin {"starting", "reporting", "managing", "serving", "stopping"} =>
          gw \in {"none", "stopped"} \/ (gw = "overtaken" /\ k.pc = "exited" /\ k.signals > 0 /\ k.exit = EXIT.ok)
    /\ k.pc = "starting" => gw = "starting"
    /\ k.pc = "reporting" => gw = "failed"
    /\ k.pc \in {"managing", "serving"} => gw = "running"
    /\ k.pc = "stopping" /\ gw = "starting" => k.signals > 0 /\ k.exit = EXIT.ok

\* What an operation did, what the gateway says of it, and what the command makes of that.
WiredAs(k, w) ==
    /\ k.pc \in {"idle", "sending"} => ~w.sent
    /\ k.pc = "waiting" => w.sent
    /\ w.sent => k.run \in InvocationType
    /\ w.came => w.answer # "none"
    /\ w.answer # "none" => w.sent
    /\ w.applied =>
          /\ w.sent
          /\ \/ w.answer \in {"completed", "failed", "unknown", "error"}
             \/ w.answer = "refused" /\ k.run.name = "redrive" /\ k.run.repeats
    /\ w.answer = "completed" /\ k.run.name \in Mutations => w.applied
    /\ k.pc = "exited" /\ k.signals # 2 /\ k.run.name \in Mutations =>
          \/ ~w.sent /\ k.exit \in {EXIT.invalid, EXIT.runtime}
          \/ w.came /\ k.exit = ExitOf(w.answer)
          \/ k.exit = EXIT.unknown

\* The files in the list are the first ones of the command.
Listed(k) ==
    /\ Len(k.made) <= Len(FilesOf(k.run.name))
    /\ \A i \in 1..Len(k.made) : k.made[i] = FilesOf(k.run.name)[i]

Clean(c, d) == \A p \in Path : d[p].by # c

\* The files a command has created are on its list, or the one it has open, or those it could
\* not close or remove (l); and those it has written are still there, or were taken (t).
FiledAs(c, k, d, l, t) ==
    /\ k.pc \notin {"writing", "removing", "exited"} => k.made = <<>> /\ ~k.open /\ Clean(c, d)
    /\ k.pc = "writing" => Listed(k) /\ Len(k.made) < Len(FilesOf(k.run.name))
    /\ k.pc = "writing" /\ k.run.name \in Exclusives =>
          LET next == FilesOf(k.run.name)[Len(k.made) + 1] IN
          /\ \A i \in 1..Len(k.made) : d[k.made[i]] = [by |-> c, whole |-> TRUE] \/ k.made[i] \in t
          /\ k.open => d[next].by = c \/ next \in t
          /\ \A p \in Path : d[p].by = c => (\E i \in 1..Len(k.made) : p = k.made[i]) \/ (k.open /\ p = next)
    /\ k.pc = "removing" =>
          /\ Listed(k)
          /\ k.exit # EXIT.ok
          /\ \A p \in Path : d[p].by = c => (\E i \in 1..Len(k.made) : p = k.made[i]) \/ p \in l
    /\ k.pc = "exited" /\ k.signals # 2 /\ k.run.name \in Exclusives =>
          IF k.exit = EXIT.ok
          THEN \A n \in DOMAIN FilesOf(k.run.name) :
                  LET p == FilesOf(k.run.name)[n] IN d[p] = [by |-> c, whole |-> TRUE] \/ p \in t
          ELSE \A p \in Path : d[p].by = c => p \in l

CommandOK(c) ==
    /\ Placed(commands[c])
    /\ ServedAs(commands[c], served[c])
    /\ WiredAs(commands[c], wire[c])
    /\ FiledAs(c, commands[c], disk, left[c], taken[c])

CommandInv == CommandTyped /\ \A c \in Command : CommandOK(c)

LEMMA ExitCodes == EXIT.ok = 0 /\ EXIT.runtime = 1 /\ EXIT.invalid = 2 /\ EXIT.refused = 3 /\ EXIT.unknown = 4
PROOF
    BY DEF EXIT

\* Every command that writes has a file to write.
LEMMA FilesTyped ==
    ASSUME NEW name
    PROVE  FilesOf(name) \in Seq(Path) /\ Len(FilesOf(name)) > 0
PROOF
<1>1. CASE name = "init"
    <2>1. FilesOf(name) = Scaffold
        BY <1>1 DEF FilesOf
    <2> QED
        BY <2>1, CommandAssumption, FileAssumption
<1>2. CASE name = "generate"
    <2>1. FilesOf(name) = GeneratedFiles
        BY <1>2 DEF FilesOf
    <2> QED
        BY <2>1, CommandAssumption, FileAssumption
<1>3. CASE name \notin {"init", "generate"}
    <2>1. FilesOf(name) = <<ExportFile>>
        BY <1>3 DEF FilesOf
    <2> QED
        BY <2>1, CommandAssumption
<1> QED
    BY <1>1, <1>2, <1>3

Generated == {GeneratedFiles[n] : n \in DOMAIN GeneratedFiles}

\* The files of a command that only creates are its own, each one once.
LEMMA FilesApart ==
    ASSUME NEW name \in Exclusives
    PROVE  LET files == FilesOf(name) IN
           /\ \A n \in DOMAIN files : files[n] \in Path /\ files[n] \notin Generated
           /\ \A m, n \in DOMAIN files : files[m] = files[n] => m = n
PROOF
<1>1. CASE name = "init"
    <2>1. FilesOf(name) = Scaffold
        BY <1>1 DEF FilesOf
    <2> QED
        BY <2>1, CommandAssumption, FileAssumption DEF Generated
<1>2. CASE name = "exportFailure"
    <2>1. FilesOf(name) = <<ExportFile>>
        BY <1>2 DEF FilesOf
    <2>2. DOMAIN <<ExportFile>> = {1} /\ <<ExportFile>>[1] = ExportFile
        OBVIOUS
    <2> QED
        BY <2>1, <2>2, CommandAssumption, FileAssumption DEF Generated
<1> QED
    BY <1>1, <1>2 DEF Exclusives

DiskType == [Path -> [by : Command \cup {User, Nobody}, whole : BOOLEAN]]

FileSets == [Command -> SUBSET Path]

\* What a step of one command may do to the files.
DiskStep(c) ==
    /\ disk' \in DiskType /\ left' \in FileSets /\ taken' \in FileSets
    /\ \A e \in Command : taken[e] \subseteq taken'[e] /\ (e # c => left'[e] = left[e])
    /\ \A p \in Path :
          \/ disk'[p] = disk[p]
          \/ disk[p].by \in {Nobody, c} /\ disk'[p].by \in {Nobody, c}
          \/ p \in Generated /\ disk'[p].by = c
          \/ disk'[p].by = Nobody /\ \A e \in Command \ {c} : disk[p].by = e => p \in taken'[e]

LEMMA FilesStay ==
    ASSUME CommandInv, NEW c \in Command, UNCHANGED fileVars
    PROVE  DiskStep(c)
PROOF
    BY DEF CommandInv, CommandTyped, DiskStep, DiskType, FileSets, fileVars

\* Another command finds its own files as they were, or taken.
LEMMA FiledKept ==
    ASSUME NEW c \in Command, NEW e \in Command, c # e, NEW k \in ProcessType, Placed(k),
           DiskStep(c), FiledAs(e, k, disk, left[e], taken[e])
    PROVE  FiledAs(e, k, disk', left'[e], taken'[e])
PROOF
<1> DEFINE l == left[e]
           t == taken'[e]
           files == FilesOf(k.run.name)
<1>1. \A p \in Path : disk[p].by = e /\ p \notin Generated => disk'[p] = disk[p] \/ p \in t
    BY CommandAssumption DEF DiskStep
<1>2. \A p \in Path : disk'[p].by = e => disk'[p] = disk[p]
    BY CommandAssumption DEF DiskStep
<1>3. left'[e] = l /\ \A p : p \in taken[e] => p \in t
    BY DEF DiskStep
<1>4. ASSUME NEW p \in Path, p \notin Generated, disk[p] = [by |-> e, whole |-> TRUE] \/ p \in taken[e]
      PROVE  disk'[p] = [by |-> e, whole |-> TRUE] \/ p \in t
    <2>1. CASE disk[p] = [by |-> e, whole |-> TRUE]
        <3>1. disk[p].by = e
            BY <2>1
        <3> QED
            BY <1>1, <1>4, <2>1, <3>1
    <2> QED
        BY <1>3, <1>4, <2>1
<1>5. CASE k.pc = "writing" /\ k.run.name \in Exclusives
    <2>1. files \in Seq(Path) /\ Len(k.made) \in Nat /\ Len(k.made) < Len(files)
        BY <1>5, FilesTyped DEF FiledAs, ProcessType
    <2>2. \A i \in 1..(Len(k.made) + 1) : files[i] \in Path /\ files[i] \notin Generated
        BY <1>5, <2>1, FilesApart
    <2>3. \A i \in 1..Len(k.made) : k.made[i] = files[i]
        BY <1>5 DEF FiledAs, Listed
    <2>4. \A i \in 1..Len(k.made) : disk'[k.made[i]] = [by |-> e, whole |-> TRUE] \/ k.made[i] \in t
        <3>1. \A i \in 1..Len(k.made) : disk[k.made[i]] = [by |-> e, whole |-> TRUE] \/ k.made[i] \in taken[e]
            BY <1>5 DEF FiledAs
        <3>2. \A i \in 1..Len(k.made) : k.made[i] \in Path /\ k.made[i] \notin Generated
            BY <2>1, <2>2, <2>3
        <3> HIDE DEF t
        <3> QED
            BY <1>4, <3>1, <3>2
    <2>5. k.open => disk'[files[Len(k.made) + 1]].by = e \/ files[Len(k.made) + 1] \in t
        BY <1>1, <1>3, <1>5, <2>1, <2>2 DEF FiledAs
    <2>6. \A p \in Path : disk'[p].by = e =>
              (\E i \in 1..Len(k.made) : p = k.made[i]) \/ (k.open /\ p = files[Len(k.made) + 1])
        BY <1>2, <1>5 DEF FiledAs
    <2> QED
        BY <1>5, <2>4, <2>5, <2>6 DEF FiledAs
<1>6. CASE k.pc = "removing"
    <2>1. \A p \in Path : disk'[p].by = e => (\E i \in 1..Len(k.made) : p = k.made[i]) \/ p \in l
        BY <1>2, <1>6 DEF FiledAs
    <2> QED
        BY <1>3, <1>6, <2>1 DEF FiledAs
<1>7. CASE k.pc = "exited" /\ k.signals # 2 /\ k.run.name \in Exclusives
    <2>1. CASE k.exit = EXIT.ok
        <3>1. \A n \in DOMAIN files :
                  /\ files[n] \in Path
                  /\ files[n] \notin Generated
                  /\ disk[files[n]] = [by |-> e, whole |-> TRUE] \/ files[n] \in taken[e]
            BY <1>7, <2>1, FilesApart DEF FiledAs
        <3>2. \A n \in DOMAIN files : disk'[files[n]] = [by |-> e, whole |-> TRUE] \/ files[n] \in t
            BY <1>4, <3>1
        <3> QED
            BY <1>7, <2>1, <3>2 DEF FiledAs
    <2>2. CASE k.exit # EXIT.ok
        <3>1. \A p \in Path : disk'[p].by = e => p \in l
            BY <1>2, <1>7, <2>2 DEF FiledAs
        <3> QED
            BY <1>3, <1>7, <2>2, <3>1 DEF FiledAs
    <2> QED
        BY <2>1, <2>2
<1>8. CASE ~(k.pc = "writing" /\ k.run.name \in Exclusives) /\ k.pc # "removing"
           /\ ~(k.pc = "exited" /\ k.signals # 2 /\ k.run.name \in Exclusives)
    <2>1. Clean(e, disk) => Clean(e, disk')
        BY <1>2 DEF Clean
    <2> QED
        BY <1>8, <2>1 DEF FiledAs
<1> QED
    BY <1>5, <1>6, <1>7, <1>8

\* A command's step, from what it does to the command itself.
LEMMA CommandReplaced ==
    ASSUME CommandInv, NEW c \in Command, NEW k \in ProcessType,
           commands' = [commands EXCEPT ![c] = k], DiskStep(c),
           served' \in [Command -> {"none", "starting", "running", "failed", "stopped", "overtaken"}],
           wire' \in [Command -> WireType],
           \A e \in Command \ {c} : served'[e] = served[e] /\ wire'[e] = wire[e],
           Placed(k), ServedAs(k, served'[c]), WiredAs(k, wire'[c]), FiledAs(c, k, disk', left'[c], taken'[c])
    PROVE  CommandInv'
PROOF
<1>1. commands' \in [Command -> ProcessType] /\ commands'[c] = k /\ \A e \in Command \ {c} : commands'[e] = commands[e]
    BY DEF CommandInv, CommandTyped
<1>2. CommandTyped'
    BY <1>1 DEF CommandTyped, DiskStep, DiskType, FileSets, ProcessType, WireType
<1>3. ASSUME NEW e \in Command
      PROVE  Placed(commands'[e]) /\ ServedAs(commands'[e], served'[e]) /\ WiredAs(commands'[e], wire'[e])
             /\ FiledAs(e, commands'[e], disk', left'[e], taken'[e])
    <2>1. CASE e = c
        BY <1>1, <2>1
    <2>2. CASE e # c
        <3>1. Placed(commands[e]) /\ ServedAs(commands[e], served[e]) /\ WiredAs(commands[e], wire[e])
              /\ FiledAs(e, commands[e], disk, left[e], taken[e]) /\ commands[e] \in ProcessType
            BY DEF CommandInv, CommandOK, CommandTyped
        <3>2. FiledAs(e, commands[e], disk', left'[e], taken'[e])
            BY <2>2, <3>1, FiledKept
        <3> QED
            BY <1>1, <2>2, <3>1, <3>2
    <2> QED
        BY <2>1, <2>2
<1>4. \A e \in Command : CommandOK(e)'
    BY <1>3 DEF CommandOK
<1> QED
    BY <1>2, <1>4 DEF CommandInv

ServedType == [Command -> {"none", "starting", "running", "failed", "stopped", "overtaken"}]

\* A command that moves, and may set its exit code.
Moved(k, pc, code) == [k EXCEPT !.pc = pc, !.exit = code]

LEMMA MovedTyped ==
    ASSUME NEW k \in ProcessType, NEW pc \in Pcs, NEW code \in 0..4 \cup {NoExit}
    PROVE  /\ Moved(k, pc, code) \in ProcessType
           /\ Moved(k, pc, code).pc = pc /\ Moved(k, pc, code).exit = code
           /\ Moved(k, pc, code).run = k.run /\ Moved(k, pc, code).made = k.made
           /\ Moved(k, pc, code).open = k.open /\ Moved(k, pc, code).signals = k.signals
PROOF
    BY DEF Moved, ProcessType

IsMoved(moved, k, pc, code) ==
    /\ moved \in ProcessType
    /\ moved.pc = pc /\ moved.exit = code
    /\ moved.run = k.run /\ moved.made = k.made
    /\ moved.open = k.open /\ moved.signals = k.signals

LEMMA MovedIs ==
    ASSUME NEW k \in ProcessType, NEW pc \in Pcs, NEW code \in 0..4 \cup {NoExit}
    PROVE  IsMoved(Moved(k, pc, code), k, pc, code)
PROOF
    BY MovedTyped, Zenon DEF IsMoved

\* A command that moves on, in the states without files of its own.
LEMMA CommandMoves ==
    ASSUME CommandInv, NEW c \in Command, NEW pc \in Pcs, NEW code \in 0..4 \cup {NoExit},
           commands' = [commands EXCEPT ![c] = Moved(commands[c], pc, code)],
           commands[c].pc \notin {"writing", "removing", "exited"}, pc # "removing",
           pc = "writing" => commands[c].run.name \in Writers,
           pc = "exited" /\ commands[c].run.name \in Exclusives => code # EXIT.ok,
           UNCHANGED fileVars, served' \in ServedType, wire' \in [Command -> WireType],
           \A e \in Command \ {c} : served'[e] = served[e] /\ wire'[e] = wire[e],
           Placed(Moved(commands[c], pc, code)),
           ServedAs(Moved(commands[c], pc, code), served'[c]),
           WiredAs(Moved(commands[c], pc, code), wire'[c])
    PROVE  CommandInv'
PROOF
<1> DEFINE k == commands[c]
           moved == Moved(k, pc, code)
<1>1. k \in ProcessType /\ commands \in [Command -> ProcessType]
    BY DEF CommandInv, CommandTyped
<1> HIDE DEF k
<1>2. /\ moved \in ProcessType
      /\ moved.pc = pc /\ moved.exit = code
      /\ moved.run = k.run /\ moved.made = k.made
      /\ moved.open = k.open /\ moved.signals = k.signals
    <2>1. IsMoved(moved, k, pc, code)
        BY <1>1, MovedIs
    <2> HIDE DEF moved
    <2> QED
        BY <2>1, Zenon DEF IsMoved
<1> USE DEF k
<1>3. commands' = [commands EXCEPT ![c] = moved]
    BY DEF k
<1>4. DiskStep(c)
    BY FilesStay
<1>5. k.made = <<>> /\ ~k.open /\ Clean(c, disk)
    BY DEF CommandInv, CommandOK, FiledAs
<1>6. Placed(moved) /\ ServedAs(moved, served'[c]) /\ WiredAs(moved, wire'[c])
    OBVIOUS
<1>7. Listed(moved) /\ Len(moved.made) < Len(FilesOf(moved.run.name)) /\ Len(moved.made) = 0
    BY <1>2, <1>5, FilesTyped DEF Listed
<1> HIDE DEF moved
<1>8. FiledAs(c, moved, disk, left'[c], taken'[c])
    BY <1>2, <1>5, <1>7 DEF FiledAs, Clean
<1>9. disk' = disk
    BY DEF fileVars
<1> HIDE DEF k
<1> QED
    BY <1>2, <1>3, <1>4, <1>6, <1>8, <1>9, CommandReplaced DEF ServedType

GatewayPcs == {"handlers", "starting", "reporting", "managing", "serving", "stopping"}

\* A step of a command that reads the configuration: what it does is not of the wire.
GatewayMove(c, pc, code, gw) ==
    /\ pc \in GatewayPcs \cup {"writing", "exited"}
    /\ code \in 0..4 \cup {NoExit}
    /\ commands' = [commands EXCEPT ![c] = Moved(commands[c], pc, code)]
    /\ commands[c].pc \in GatewayPcs \cup {"config"}
    /\ pc \in GatewayPcs => commands[c].run.name \in GatewayCommands
    /\ pc = "writing" => commands[c].run.name = "generate"
    /\ UNCHANGED <<fileVars, wire>>
    /\ gw \in {"none", "starting", "running", "failed", "stopped", "overtaken"}
    /\ served' = [served EXCEPT ![c] = gw]
    /\ pc \in {"handlers", "writing"} => gw \in {"none", "stopped"}
    /\ pc = "exited" =>
          gw \in {"none", "stopped"} \/ (gw = "overtaken" /\ commands[c].signals > 0 /\ code = EXIT.ok)
    /\ pc = "starting" => gw = "starting"
    /\ pc = "reporting" => gw = "failed"
    /\ pc \in {"managing", "serving"} => gw = "running"
    /\ pc = "stopping" /\ gw = "starting" => commands[c].signals > 0 /\ code = EXIT.ok

LEMMA EndingMoves ==
    ASSUME CommandInv, NEW c \in Command, NEW pc, NEW code, Ending(c, pc, code)
    PROVE  commands' = [commands EXCEPT ![c] = Moved(commands[c], pc, code)]
PROOF
    BY DEF CommandInv, CommandTyped, Ending, Moved

LEMMA EntersMoves ==
    ASSUME CommandInv, NEW c \in Command, NEW pc \in Pcs, Enters(c, pc)
    PROVE  commands' = [commands EXCEPT ![c] = Moved(commands[c], pc, commands[c].exit)]
PROOF
<1>1. commands' = [commands EXCEPT ![c] = [commands[c] EXCEPT !.pc = pc]]
    BY DEF CommandInv, CommandTyped, Enters
<1>2. Moved(commands[c], pc, commands[c].exit) = [commands[c] EXCEPT !.pc = pc]
    BY DEF CommandInv, CommandTyped, ProcessType, Moved
<1> QED
    BY <1>1, <1>2

LEMMA GatewayMoves ==
    ASSUME CommandInv, NEW c \in Command, NEW pc, NEW code, NEW gw, GatewayMove(c, pc, code, gw)
    PROVE  CommandInv'
PROOF
<1> DEFINE k == commands[c]
           m == Moved(k, pc, code)
<1>1. /\ served \in ServedType /\ wire \in [Command -> WireType]
      /\ Placed(k) /\ WiredAs(k, wire[c])
    BY DEF CommandInv, CommandTyped, CommandOK, ServedType
<1>2. k \in ProcessType /\ pc \in Pcs /\ code \in 0..4 \cup {NoExit}
    BY DEF CommandInv, CommandTyped, GatewayMove, GatewayPcs, Pcs
<1>3. k.pc \in GatewayPcs \cup {"config"} /\ k.run \in InvocationType /\ k.run.name \notin OperatorCommands \cup {"init"}
    BY <1>1 DEF Placed, GatewayMove, GatewayPcs, GatewayCommands, OperatorCommands, Mutations
<1>4. k.run.name \notin Exclusives \cup Mutations
    BY <1>3 DEF Exclusives, OperatorCommands
<1> HIDE DEF k
<1>5. /\ m.pc = pc /\ m.exit = code /\ m.run = k.run /\ m.signals = k.signals
    BY <1>2, MovedTyped, Zenon
<1> HIDE DEF m
<1>6. Placed(m)
    BY <1>3, <1>4, <1>5 DEF k, Placed, GatewayMove, GatewayPcs, Writers
<1>7. served'[c] = gw /\ served' \in ServedType /\ \A e \in Command \ {c} : served'[e] = served[e]
    BY <1>1 DEF ServedType, GatewayMove
<1>8. ServedAs(m, served'[c])
    BY <1>5, <1>7 DEF ServedAs, GatewayPcs, GatewayMove, k
<1>9. WiredAs(m, wire'[c])
    BY <1>1, <1>3, <1>4, <1>5 DEF WiredAs, GatewayPcs, GatewayMove
<1>10. k.pc \notin {"writing", "removing", "exited"} /\ pc # "removing"
    BY <1>3 DEF GatewayPcs, GatewayMove
<1>11. pc = "writing" => k.run.name \in Writers
    BY DEF Writers, GatewayMove, k
<1> QED
    BY <1>1, <1>2, <1>4, <1>6, <1>7, <1>8, <1>9, <1>10, <1>11, CommandMoves DEF k, m, GatewayMove

LEMMA ConfigLoadsKeeps ==
    ASSUME CommandInv, NEW c \in Command, ConfigLoads(c)
    PROVE  CommandInv'
PROOF
<1>1. /\ commands[c].pc = "config" /\ Placed(commands[c]) /\ ServedAs(commands[c], served[c])
      /\ commands[c] \in ProcessType /\ served \in ServedType
    BY DEF ConfigLoads, Is, CommandInv, CommandOK, CommandTyped, ServedType
<1>2. served[c] \in {"none", "stopped"} /\ served' = [served EXCEPT ![c] = served[c]]
    BY <1>1 DEF ServedAs, ServedType, ConfigLoads
<1>3. /\ EXIT.ok \in 0..4 /\ EXIT.runtime \in 0..4 /\ EXIT.invalid \in 0..4 /\ EXIT.refused \in 0..4
      /\ commands[c].exit \in 0..4 \cup {NoExit}
    BY <1>1, ExitCodes DEF ProcessType
<1>4. UNCHANGED <<fileVars, wire>>
    BY DEF ConfigLoads
<1>5. CASE \E code \in 0..4 : Ends(c, code)
    <2>1. PICK code \in 0..4 : Ending(c, "exited", code)
        BY <1>5 DEF Ends, Ending
    <2>2. GatewayMove(c, "exited", code, served[c])
        BY <1>1, <1>2, <1>4, <2>1, EndingMoves DEF GatewayMove, GatewayPcs
    <2> QED
        BY <2>2, GatewayMoves
<1>6. CASE Called(c).name = "generate" /\ Enters(c, "writing")
    <2>1. GatewayMove(c, "writing", commands[c].exit, served[c])
        BY <1>1, <1>2, <1>3, <1>4, <1>6, EntersMoves DEF GatewayMove, GatewayPcs, Called, Pcs
    <2> QED
        BY <2>1, GatewayMoves
<1>7. CASE Called(c).name \in GatewayCommands /\ Enters(c, "handlers")
    <2>1. GatewayMove(c, "handlers", commands[c].exit, served[c])
        BY <1>1, <1>2, <1>3, <1>4, <1>7, EntersMoves DEF GatewayMove, GatewayPcs, Called, Pcs
    <2> QED
        BY <2>1, GatewayMoves
<1> QED
    BY <1>3, <1>5, <1>6, <1>7 DEF ConfigLoads, OfflineExits

LEMMA GatewayKeeps ==
    ASSUME CommandInv, NEW c \in Command,
           \/ HandlersLoad(c) \/ StopsForSignal(c) \/ GatewayStarts(c) \/ GatewayFails(c)
           \/ Reported(c) \/ ManagementServer(c) \/ StopEnds(c)
    PROVE  CommandInv'
PROOF
<1>1. /\ Placed(commands[c]) /\ ServedAs(commands[c], served[c])
      /\ commands[c] \in ProcessType /\ served \in ServedType
    BY DEF CommandInv, CommandOK, CommandTyped, ServedType
<1>2. /\ EXIT.ok \in 0..4 /\ EXIT.runtime \in 0..4 /\ EXIT.invalid \in 0..4
      /\ commands[c].exit \in 0..4 \cup {NoExit}
      /\ served[c] \in {"none", "starting", "running", "failed", "stopped", "overtaken"}
    BY <1>1, ExitCodes DEF ProcessType, ServedType
<1>3. commands[c].pc \in GatewayPcs /\ commands[c].run.name \in GatewayCommands
    BY <1>1 DEF HandlersLoad, StopsForSignal, GatewayStarts, GatewayFails, Reported, ManagementServer, StopEnds, Is,
                GatewayPcs, Placed
<1>4. UNCHANGED <<fileVars, wire>>
    BY DEF HandlersLoad, StopsForSignal, GatewayStarts, GatewayFails, Reported, ManagementServer, StopEnds
<1>5. served' = served => served' = [served EXCEPT ![c] = served[c]]
    BY <1>1 DEF ServedType
<1>6. CASE HandlersLoad(c)
    <2>1. served[c] \in {"none", "stopped"}
        BY <1>1, <1>6 DEF HandlersLoad, Is, ServedAs
    <2>2. CASE served' = served /\ \E code \in {EXIT.runtime, EXIT.invalid} : Ends(c, code)
        <3>1. PICK code \in 0..4 : Ending(c, "exited", code)
            BY <1>2, <2>2 DEF Ends, Ending
        <3>2. GatewayMove(c, "exited", code, served[c])
            BY <1>2, <1>3, <1>4, <1>5, <2>1, <2>2, <3>1, EndingMoves DEF GatewayMove, GatewayPcs, Pcs
        <3> QED
            BY <3>2, GatewayMoves
    <2>3. CASE Enters(c, "starting") /\ served' = [served EXCEPT ![c] = "starting"]
        <3>1. GatewayMove(c, "starting", commands[c].exit, "starting")
            BY <1>2, <1>3, <1>4, <2>3, EntersMoves DEF GatewayMove, GatewayPcs, Pcs
        <3> QED
            BY <3>1, GatewayMoves
    <2> QED
        BY <1>6, <2>2, <2>3 DEF HandlersLoad
<1>7. CASE StopsForSignal(c)
    <2>1. CASE Is(c, "handlers") /\ Ends(c, EXIT.ok)
        <3>1. served[c] \in {"none", "stopped"} /\ served' = served
            BY <1>1, <1>7, <2>1 DEF StopsForSignal, Is, ServedAs
        <3>2. Ending(c, "exited", EXIT.ok)
            BY <2>1 DEF Ends, Ending
        <3>3. GatewayMove(c, "exited", EXIT.ok, served[c])
            BY <1>2, <1>3, <1>4, <1>5, <3>1, <3>2, EndingMoves DEF GatewayMove, GatewayPcs, Pcs
        <3> QED
            BY <3>3, GatewayMoves
    <2>2. CASE Ending(c, "stopping", EXIT.ok) /\ served' = served
        <3>1. GatewayMove(c, "stopping", EXIT.ok, served[c])
            BY <1>2, <1>3, <1>4, <1>5, <1>7, <2>2, EndingMoves DEF GatewayMove, GatewayPcs, Pcs, StopsForSignal, Signalled
        <3> QED
            BY <3>1, GatewayMoves
    <2> QED
        BY <1>7, <2>1, <2>2 DEF StopsForSignal
<1>8. CASE GatewayStarts(c)
    <2>1. served' = [served EXCEPT ![c] = "running"]
        BY <1>8 DEF GatewayStarts
    <2>2. CASE Enters(c, "managing")
        <3>1. GatewayMove(c, "managing", commands[c].exit, "running")
            BY <1>2, <1>3, <1>4, <2>1, <2>2, EntersMoves DEF GatewayMove, GatewayPcs, Pcs
        <3> QED
            BY <3>1, GatewayMoves
    <2>3. CASE Enters(c, "serving")
        <3>1. GatewayMove(c, "serving", commands[c].exit, "running")
            BY <1>2, <1>3, <1>4, <2>1, <2>3, EntersMoves DEF GatewayMove, GatewayPcs, Pcs
        <3> QED
            BY <3>1, GatewayMoves
    <2> QED
        BY <1>8, <2>2, <2>3 DEF GatewayStarts
<1>9. CASE GatewayFails(c)
    <2>1. PICK code \in 0..4 : Ending(c, "reporting", code)
        BY <1>2, <1>9 DEF GatewayFails
    <2>2. served' = [served EXCEPT ![c] = "failed"]
        BY <1>9 DEF GatewayFails
    <2>3. GatewayMove(c, "reporting", code, "failed")
        BY <1>2, <1>3, <1>4, <2>1, <2>2, EndingMoves DEF GatewayMove, GatewayPcs, Pcs
    <2> QED
        BY <2>3, GatewayMoves
<1>10. CASE Reported(c)
    <2>1. Enters(c, "stopping") /\ served' = served /\ served[c] = "failed"
        BY <1>1, <1>10 DEF Reported, Is, ServedAs
    <2>2. GatewayMove(c, "stopping", commands[c].exit, served[c])
        BY <1>2, <1>3, <1>4, <1>5, <2>1, EntersMoves DEF GatewayMove, GatewayPcs, Pcs
    <2> QED
        BY <2>2, GatewayMoves
<1>11. CASE ManagementServer(c)
    <2>1. served[c] = "running" /\ served' = served
        BY <1>1, <1>11 DEF ManagementServer, Is, ServedAs
    <2>2. CASE Enters(c, "serving")
        <3>1. GatewayMove(c, "serving", commands[c].exit, served[c])
            BY <1>2, <1>3, <1>4, <1>5, <2>1, <2>2, EntersMoves DEF GatewayMove, GatewayPcs, Pcs
        <3> QED
            BY <3>1, GatewayMoves
    <2>3. CASE Ending(c, "stopping", EXIT.runtime)
        <3>1. GatewayMove(c, "stopping", EXIT.runtime, served[c])
            BY <1>2, <1>3, <1>4, <1>5, <2>1, <2>3, EndingMoves DEF GatewayMove, GatewayPcs, Pcs
        <3> QED
            BY <3>1, GatewayMoves
    <2> QED
        BY <1>11, <2>2, <2>3 DEF ManagementServer
<1>12. CASE StopEnds(c)
    <2>1. Enters(c, "exited")
        BY <1>12 DEF StopEnds
    <2>2. CASE served' = [served EXCEPT ![c] = "stopped"]
        <3>1. GatewayMove(c, "exited", commands[c].exit, "stopped")
            BY <1>2, <1>3, <1>4, <2>1, <2>2, EntersMoves DEF GatewayMove, GatewayPcs, Pcs
        <3> QED
            BY <3>1, GatewayMoves
    <2>3. CASE served[c] = "starting" /\ served' = [served EXCEPT ![c] = "overtaken"]
        <3>1. commands[c].signals > 0 /\ commands[c].exit = EXIT.ok
            BY <1>1, <1>12, <2>3 DEF StopEnds, Is, ServedAs
        <3>2. GatewayMove(c, "exited", commands[c].exit, "overtaken")
            BY <1>2, <1>3, <1>4, <2>1, <2>3, <3>1, EntersMoves DEF GatewayMove, GatewayPcs, Pcs
        <3> QED
            BY <3>2, GatewayMoves
    <2> QED
        BY <1>12, <2>2, <2>3 DEF StopEnds
<1> QED
    BY <1>6, <1>7, <1>8, <1>9, <1>10, <1>11, <1>12

\* A step of an operator command on the wire.
WireMove(c, pc, code, w) ==
    /\ commands[c].pc \in {"sending", "waiting"}
    /\ pc \in {"waiting", "writing", "exited"}
    /\ code \in 0..4 \cup {NoExit}
    /\ commands' = [commands EXCEPT ![c] = Moved(commands[c], pc, code)]
    /\ pc = "writing" => commands[c].run.name = "exportFailure"
    /\ pc = "exited" /\ commands[c].run.name \in Exclusives => code # EXIT.ok
    /\ UNCHANGED <<fileVars, served>>
    /\ w \in WireType
    /\ wire' = [wire EXCEPT ![c] = w]
    /\ WiredAs(Moved(commands[c], pc, code), w)

LEMMA WireMoves ==
    ASSUME CommandInv, NEW c \in Command, NEW pc, NEW code, NEW w, WireMove(c, pc, code, w)
    PROVE  CommandInv'
PROOF
<1> DEFINE k == commands[c]
           m == Moved(k, pc, code)
<1>1. /\ served \in ServedType /\ wire \in [Command -> WireType]
      /\ Placed(k) /\ ServedAs(k, served[c])
    BY DEF CommandInv, CommandTyped, CommandOK, ServedType
<1>2. k \in ProcessType /\ pc \in Pcs /\ code \in 0..4 \cup {NoExit}
    BY DEF CommandInv, CommandTyped, WireMove, Pcs
<1>3. k.pc \in {"sending", "waiting"} /\ k.run \in InvocationType /\ k.run.name \in OperatorCommands
    BY <1>1 DEF Placed, WireMove
<1> HIDE DEF k
<1>4. /\ m.pc = pc /\ m.exit = code /\ m.run = k.run /\ m.signals = k.signals
    BY <1>2, MovedTyped, Zenon
<1> HIDE DEF m
<1>5. Placed(m)
    BY <1>3, <1>4 DEF k, Placed, WireMove, Writers
<1>6. served'[c] = served[c] /\ served' \in ServedType /\ ServedAs(m, served'[c])
    BY <1>1, <1>3, <1>4 DEF ServedAs, WireMove
<1>7. wire'[c] = w /\ wire' \in [Command -> WireType] /\ \A e \in Command \ {c} : wire'[e] = wire[e]
    BY <1>1 DEF WireMove
<1>8. WiredAs(m, wire'[c])
    BY <1>7 DEF WireMove, k, m
<1>9. pc = "writing" => k.run.name \in Writers
    BY DEF Writers, WireMove, k
<1>10. served' = served /\ UNCHANGED fileVars
    BY DEF WireMove
<1>11. /\ k.pc \notin {"writing", "removing", "exited"} /\ pc # "removing"
       /\ pc = "exited" /\ k.run.name \in Exclusives => code # EXIT.ok
       /\ commands' = [commands EXCEPT ![c] = m]
    BY <1>3 DEF WireMove, k, m
<1> QED
    BY <1>2, <1>5, <1>6, <1>7, <1>8, <1>9, <1>10, <1>11, CommandMoves DEF k, m

LEMMA WireKeeps ==
    ASSUME CommandInv, NEW c \in Command,
           Sends(c) \/ AnswerComes(c) \/ AnswerLost(c)
    PROVE  CommandInv'
PROOF
<1> DEFINE k == commands[c]
           w == wire[c]
<1>1. Placed(k) /\ WiredAs(k, w) /\ k \in ProcessType /\ w \in WireType /\ wire \in [Command -> WireType]
    BY DEF CommandInv, CommandOK, CommandTyped
<1>2. k.pc \in {"sending", "waiting"} /\ UNCHANGED <<fileVars, served>>
    BY DEF Sends, AnswerComes, AnswerLost, Is
<1>3. k.run \in InvocationType /\ k.run.name \in OperatorCommands /\ k.exit \in 0..4 \cup {NoExit}
    BY <1>1, <1>2 DEF Placed, ProcessType
<1>4. ASSUME NEW pc \in Pcs, NEW code \in 0..4 \cup {NoExit}
      PROVE  /\ Moved(k, pc, code).pc = pc /\ Moved(k, pc, code).exit = code
             /\ Moved(k, pc, code).run = k.run /\ Moved(k, pc, code).signals = k.signals
    <2> HIDE DEF k
    <2> QED
        BY <1>1, MovedTyped
<1>5. wire' = wire => wire' = [wire EXCEPT ![c] = w]
    BY <1>1
<1>6. {EXIT.ok, EXIT.runtime, EXIT.invalid, EXIT.refused, EXIT.unknown} \subseteq 0..4
    BY ExitCodes
<1>7. {"waiting", "writing", "exited"} \subseteq Pcs
    BY DEF Pcs
<1>8. CASE Is(c, "sending") /\ Ends(c, EXIT.runtime) /\ UNCHANGED wire
    <2>1. commands' = [commands EXCEPT ![c] = Moved(k, "exited", EXIT.runtime)]
        <3>1. Ending(c, "exited", EXIT.runtime)
            BY <1>8 DEF Ends, Ending
        <3> QED
            BY <3>1, EndingMoves
    <2>2. WiredAs(Moved(k, "exited", EXIT.runtime), w)
        BY <1>1, <1>4, <1>6, <1>7, <1>8 DEF WiredAs, Is
    <2>3. WireMove(c, "exited", EXIT.runtime, w)
        BY <1>1, <1>2, <1>5, <1>6, <1>8, <2>1, <2>2, ExitCodes DEF WireMove
    <2> QED
        BY <2>3, WireMoves
<1>9. CASE Is(c, "sending") /\ Enters(c, "waiting") /\ wire' = [wire EXCEPT ![c].sent = TRUE]
    <2> DEFINE sent == [w EXCEPT !.sent = TRUE]
    <2>1. commands' = [commands EXCEPT ![c] = Moved(k, "waiting", k.exit)]
        BY <1>7, <1>9, EntersMoves
    <2>2. wire' = [wire EXCEPT ![c] = sent]
        BY <1>1, <1>9
    <2>3. sent \in WireType /\ sent.sent /\ sent.answer = w.answer /\ sent.came = w.came /\ sent.applied = w.applied
        BY <1>1 DEF WireType
    <2> HIDE DEF sent
    <2>4. WiredAs(Moved(k, "waiting", k.exit), sent)
        BY <1>1, <1>3, <1>4, <1>7, <2>3 DEF WiredAs
    <2>5. WireMove(c, "waiting", k.exit, sent)
        BY <1>2, <1>3, <2>1, <2>2, <2>3, <2>4 DEF WireMove
    <2> QED
        BY <2>5, WireMoves
<1>10. CASE AnswerComes(c)
    <2> DEFINE came == [w EXCEPT !.came = TRUE]
    <2>1. wire' = [wire EXCEPT ![c] = came]
        BY <1>1, <1>10 DEF AnswerComes
    <2>2. came \in WireType /\ came.sent = w.sent /\ came.answer = w.answer /\ came.came /\ came.applied = w.applied
        BY <1>1 DEF WireType
    <2>3. w.answer # "none"
        BY <1>10 DEF AnswerComes
    <2> HIDE DEF came
    <2>4. CASE k.run.name = "exportFailure" /\ w.answer = "completed"
        <3>1. commands' = [commands EXCEPT ![c] = Moved(k, "writing", k.exit)]
            BY <1>7, <1>10, <2>4, EntersMoves DEF AnswerComes, Called
        <3>2. WiredAs(Moved(k, "writing", k.exit), came)
            BY <1>1, <1>3, <1>4, <1>7, <2>2, <2>3 DEF WiredAs
        <3>3. WireMove(c, "writing", k.exit, came)
            BY <1>2, <1>3, <2>1, <2>2, <2>4, <3>1, <3>2 DEF WireMove
        <3> QED
            BY <3>3, WireMoves
    <2>5. CASE ~(k.run.name = "exportFailure" /\ w.answer = "completed")
        <3> DEFINE code == ExitOf(w.answer)
        <3>1. commands' = [commands EXCEPT ![c] = Moved(k, "exited", code)]
            BY <1>10, <2>5, EndingMoves DEF AnswerComes, Called, Ends, Ending
        <3>2. code \in 0..4 /\ (w.answer # "completed" => code # EXIT.ok)
            BY <2>3, <1>1, ExitCodes DEF ExitOf, WireType
        <3>3. k.run.name \in Exclusives => k.run.name = "exportFailure"
            BY <1>3 DEF Exclusives, OperatorCommands, Mutations
        <3>4. WiredAs(Moved(k, "exited", code), came)
            BY <1>1, <1>3, <1>4, <1>7, <2>2, <2>3, <3>2 DEF WiredAs
        <3> HIDE DEF code
        <3>5. WireMove(c, "exited", code, came)
            BY <1>2, <1>3, <2>1, <2>2, <2>5, <3>1, <3>2, <3>3, <3>4 DEF WireMove
        <3> QED
            BY <3>5, WireMoves
    <2> QED
        BY <2>4, <2>5
<1>11. CASE AnswerLost(c)
    <2> DEFINE code == LostExit(k.run.name)
    <2>1. commands' = [commands EXCEPT ![c] = Moved(k, "exited", code)]
        <3>1. Ending(c, "exited", code)
            BY <1>11 DEF AnswerLost, Called, Ends, Ending
        <3> QED
            BY <3>1, EndingMoves
    <2>2. code \in 0..4 /\ code # EXIT.ok /\ (k.run.name \in Mutations => code = EXIT.unknown)
        BY ExitCodes DEF LostExit
    <2> HIDE DEF code
    <2>3. WiredAs(Moved(k, "exited", code), w)
        BY <1>1, <1>3, <1>4, <1>7, <2>2 DEF WiredAs
    <2>4. WireMove(c, "exited", code, w)
        BY <1>1, <1>2, <1>5, <1>11, <2>1, <2>2, <2>3 DEF WireMove, AnswerLost
    <2> QED
        BY <2>4, WireMoves
<1> QED
    BY <1>8, <1>9, <1>10, <1>11 DEF Sends

\* The gateway runs a request whether its command still waits or not.
LEMMA GatewayRunsKeeps ==
    ASSUME CommandInv, NEW c \in Command, GatewayRuns(c)
    PROVE  CommandInv'
PROOF
<1> DEFINE k == commands[c]
           w == wire[c]
<1>1. /\ Placed(k) /\ ServedAs(k, served[c]) /\ WiredAs(k, w) /\ FiledAs(c, k, disk, left[c], taken[c])
      /\ k \in ProcessType /\ w \in WireType /\ wire \in [Command -> WireType]
      /\ commands \in [Command -> ProcessType] /\ served \in ServedType
    BY DEF CommandInv, CommandOK, CommandTyped, ServedType
<1>2. PICK answer \in MayAnswer(k.run.name), applied \in BOOLEAN :
          /\ applied => /\ k.run.name \in Mutations /\ answer # "INVALID_REQUEST"
                        /\ answer = "refused" => k.run.name = "redrive" /\ k.run.repeats
          /\ answer = "completed" /\ k.run.name \in Mutations => applied
          /\ wire' = [wire EXCEPT ![c].answer = answer, ![c].applied = applied]
    BY DEF GatewayRuns, Called, Repeats
<1> DEFINE v == [w EXCEPT !.answer = answer, !.applied = applied]
<1>3. wire' = [wire EXCEPT ![c] = v]
    BY <1>1, <1>2
<1>4. answer \in {"completed", "refused", "failed", "unknown", "INVALID_REQUEST", "error"}
    BY DEF MayAnswer
<1>5. v \in WireType /\ v.sent = w.sent /\ v.answer = answer /\ v.came = w.came /\ v.applied = applied
    BY <1>1, <1>4 DEF WireType
<1>6. w.sent /\ w.answer = "none" /\ ~w.came
    BY <1>1 DEF GatewayRuns, WiredAs
<1> HIDE DEF v
<1>7. WiredAs(k, v)
    BY <1>1, <1>2, <1>4, <1>5, <1>6 DEF WiredAs
<1>8. commands' = [commands EXCEPT ![c] = k] /\ UNCHANGED <<fileVars, served>>
    BY <1>1 DEF GatewayRuns
<1>9. DiskStep(c) /\ disk' = disk /\ left' = left /\ taken' = taken
    BY <1>8, FilesStay DEF fileVars
<1>10. wire' \in [Command -> WireType] /\ wire'[c] = v /\ \A e \in Command \ {c} : wire'[e] = wire[e]
    BY <1>1, <1>3, <1>5
<1> HIDE DEF k, w
<1> QED
    BY <1>1, <1>7, <1>8, <1>9, <1>10, CommandReplaced DEF ServedType

\* A command that is told to stop.
Told(k, n) == [k EXCEPT !.signals = n]

LEMMA ToldTyped ==
    ASSUME NEW k \in ProcessType, NEW n \in 0..2
    PROVE  /\ Told(k, n) \in ProcessType /\ Told(k, n).signals = n
           /\ Told(k, n).pc = k.pc /\ Told(k, n).run = k.run /\ Told(k, n).exit = k.exit
           /\ Told(k, n).made = k.made /\ Told(k, n).open = k.open
PROOF
    BY DEF Told, ProcessType

LEMMA SignalKeeps ==
    ASSUME CommandInv, NEW c \in Command, Signal(c)
    PROVE  CommandInv'
PROOF
<1> DEFINE k == commands[c]
<1>1. /\ Placed(k) /\ ServedAs(k, served[c]) /\ WiredAs(k, wire[c]) /\ FiledAs(c, k, disk, left[c], taken[c])
      /\ k \in ProcessType /\ wire \in [Command -> WireType]
      /\ commands \in [Command -> ProcessType] /\ served \in ServedType
    BY DEF CommandInv, CommandOK, CommandTyped, ServedType
<1>2. UNCHANGED <<disk, left, taken, wire>> /\ DiskStep(c) /\ k.pc # "exited" /\ k.pc # "idle"
    BY FilesStay DEF Signal, fileVars
<1>3. CASE commands' = [commands EXCEPT ![c].signals = 1] /\ UNCHANGED served /\ k.signals = 0
    <2> DEFINE m == Told(k, 1)
    <2>1. commands' = [commands EXCEPT ![c] = m]
        BY <1>1, <1>3 DEF Told
    <2> HIDE DEF k
    <2>2. /\ m \in ProcessType /\ m.pc = k.pc /\ m.run = k.run /\ m.exit = k.exit /\ m.made = k.made /\ m.open = k.open
          /\ m.signals = 1
        <3>1. 1 \in 0..2
            OBVIOUS
        <3> QED
            BY <1>1, <3>1, ToldTyped, Zenon
    <2> HIDE DEF m
    <2>3. Placed(m) /\ ServedAs(m, served[c])
        BY <1>1, <1>2, <2>2 DEF Placed, ServedAs
    <2>4. WiredAs(m, wire[c])
        BY <1>1, <1>2, <2>2 DEF WiredAs
    <2>5. FiledAs(c, m, disk, left[c], taken[c])
        <3>1. Listed(m) <=> Listed(k)
            BY <2>2 DEF Listed
        <3>2. CASE k.pc = "writing"
            BY <1>1, <2>2, <3>1, <3>2 DEF FiledAs
        <3>3. CASE k.pc = "removing"
            BY <1>1, <2>2, <3>1, <3>3 DEF FiledAs
        <3>4. CASE k.pc \notin {"writing", "removing"}
            BY <1>1, <1>2, <2>2, <3>4 DEF FiledAs
        <3> QED
            BY <3>2, <3>3, <3>4
    <2> QED
        BY <1>1, <1>2, <1>3, <2>1, <2>2, <2>3, <2>4, <2>5, CommandReplaced DEF ServedType
<1>4. CASE /\ commands' = [commands EXCEPT ![c].signals = 2, ![c].pc = "exited"]
           /\ served' = [served EXCEPT ![c] = "none"]
    <2> DEFINE told == Told(k, 2)
               m == Moved(told, "exited", told.exit)
    <2>0. /\ told \in ProcessType /\ told.signals = 2 /\ told.run = k.run /\ "exited" \in Pcs
          /\ told.exit \in 0..4 \cup {NoExit}
        <3> HIDE DEF k
        <3>1. 2 \in 0..2 /\ "exited" \in Pcs
            BY DEF Pcs
        <3>2. told \in ProcessType /\ told.signals = 2 /\ told.run = k.run
            BY <1>1, <3>1, ToldTyped, Zenon
        <3> HIDE DEF told
        <3> QED
            BY <3>1, <3>2 DEF ProcessType
    <2>1. commands' = [commands EXCEPT ![c] = m]
        <3>1. m = [told EXCEPT !.pc = "exited"]
            BY <2>0 DEF Moved, ProcessType
        <3>2. commands' = [commands EXCEPT ![c] = [told EXCEPT !.pc = "exited"]]
            BY <1>1, <1>4 DEF Told
        <3> QED
            BY <3>1, <3>2
    <2> HIDE DEF k, told
    <2>2. /\ m \in ProcessType /\ m.pc = "exited" /\ m.signals = 2 /\ m.run = k.run
        <3>1. /\ m \in ProcessType /\ m.pc = "exited" /\ m.signals = told.signals /\ m.run = told.run
            BY <2>0, MovedTyped, Zenon
        <3> QED
            BY <2>0, <3>1
    <2> HIDE DEF m
    <2>3. Placed(m) /\ ServedAs(m, "none")
        BY <1>1, <1>2, <2>2 DEF Placed, ServedAs
    <2>4. WiredAs(m, wire[c])
        BY <1>1, <1>2, <2>2 DEF WiredAs
    <2>5. FiledAs(c, m, disk, left[c], taken[c])
        BY <2>2 DEF FiledAs
    <2>6. served' \in ServedType /\ served'[c] = "none" /\ \A e \in Command \ {c} : served'[e] = served[e]
        BY <1>1, <1>4 DEF ServedType
    <2> QED
        BY <1>1, <1>2, <2>1, <2>2, <2>3, <2>4, <2>5, <2>6, CommandReplaced DEF ServedType
<1> QED
    BY <1>3, <1>4 DEF Signal

LEMMA InvokeKeeps ==
    ASSUME CommandInv, NEW c \in Command, Invoke(c)
    PROVE  CommandInv'
PROOF
<1> DEFINE k == commands[c]
<1>1. /\ ServedAs(k, served[c]) /\ WiredAs(k, wire[c]) /\ FiledAs(c, k, disk, left[c], taken[c])
      /\ k \in ProcessType /\ wire \in [Command -> WireType]
      /\ commands \in [Command -> ProcessType] /\ served \in ServedType
    BY DEF CommandInv, CommandOK, CommandTyped, ServedType
<1>2. k.pc = "idle" /\ UNCHANGED <<disk, left, taken, served, wire>> /\ DiskStep(c)
    BY FilesStay DEF Invoke, Is, fileVars
<1>3. PICK i \in Invocations :
          LET refused == Misused(i) \/ Occupied(i) IN
          commands' = [commands EXCEPT ![c].run = i, ![c].pc = IF refused THEN "exited" ELSE First(i),
                                       ![c].exit = IF refused THEN EXIT.invalid ELSE NoExit]
    BY DEF Invoke
<1>4. i \in InvocationType /\ i.name \in CommandNames
    BY CommandAssumption DEF InvocationType
<1>5. ~wire[c].sent /\ wire[c].answer = "none" /\ ~wire[c].came /\ ~wire[c].applied
    BY <1>1, <1>2 DEF WiredAs
<1>6. k.made = <<>> /\ ~k.open /\ Clean(c, disk)
    BY <1>1, <1>2 DEF FiledAs
<1>7. ASSUME NEW pc \in Pcs, NEW code \in {EXIT.invalid, NoExit},
             commands' = [commands EXCEPT ![c].run = i, ![c].pc = pc, ![c].exit = code],
             \/ pc = "exited" /\ code = EXIT.invalid
             \/ pc = "writing" /\ i.name = "init"
             \/ pc = "sending" /\ i.name \in OperatorCommands
             \/ pc = "config" /\ i.name \notin OperatorCommands \cup {"init", "unknown"}
      PROVE  CommandInv'
    <2> DEFINE m == [k EXCEPT !.run = i, !.pc = pc, !.exit = code]
    <2>1. commands' = [commands EXCEPT ![c] = m]
        BY <1>1, <1>7
    <2>2. code \in 0..4 \cup {NoExit}
        BY ExitCodes
    <2>3. /\ m \in ProcessType /\ m.pc = pc /\ m.run = i /\ m.exit = code
          /\ m.made = k.made /\ m.open = k.open /\ m.signals = k.signals
        BY <1>1, <1>4, <2>2 DEF ProcessType
    <2> HIDE DEF m, k
    <2>4. Placed(m)
        BY <1>4, <1>7, <2>3 DEF Placed, Writers
    <2>5. ServedAs(m, served[c])
        BY <1>1, <1>2, <1>7, <2>3 DEF ServedAs
    <2>6. WiredAs(m, wire[c])
        BY <1>4, <1>5, <1>7, <2>3 DEF WiredAs
    <2>7. Listed(m) /\ Len(m.made) = 0 /\ Len(m.made) < Len(FilesOf(m.run.name))
        BY <1>6, <2>3, FilesTyped DEF Listed
    <2>8. FiledAs(c, m, disk, left[c], taken[c])
        <3>1. pc = "exited" => code # EXIT.ok
            BY <1>7, ExitCodes
        <3> QED
            BY <1>6, <1>7, <2>3, <2>7, <3>1 DEF FiledAs, Clean
    <2> QED
        BY <1>1, <1>2, <2>1, <2>3, <2>4, <2>5, <2>6, <2>8, CommandReplaced DEF ServedType
<1>8. CASE Misused(i) \/ Occupied(i)
    <2>1. commands' = [commands EXCEPT ![c].run = i, ![c].pc = "exited", ![c].exit = EXIT.invalid]
        BY <1>3, <1>8
    <2> QED
        BY <1>7, <2>1 DEF Pcs
<1>9. CASE ~(Misused(i) \/ Occupied(i))
    <2>1. commands' = [commands EXCEPT ![c].run = i, ![c].pc = First(i), ![c].exit = NoExit]
        BY <1>3, <1>9
    <2>2. i.name # "unknown"
        BY <1>9 DEF Misused
    <2>3. CASE i.name = "init"
        <3>1. First(i) = "writing"
            BY <2>3 DEF First, OperatorCommands, Mutations
        <3> QED
            BY <1>7, <2>1, <2>3, <3>1 DEF Pcs
    <2>4. CASE i.name \in OperatorCommands
        <3>1. i.name # "init"
            BY <2>4 DEF OperatorCommands, Mutations
        <3>2. First(i) = "sending"
            BY <2>4, <3>1 DEF First
        <3> QED
            BY <1>7, <2>1, <2>4, <3>2 DEF Pcs
    <2>5. CASE i.name \notin OperatorCommands \cup {"init"}
        <3>1. First(i) = "config"
            BY <2>5 DEF First
        <3> QED
            BY <1>7, <2>1, <2>2, <2>5, <3>1 DEF Pcs
    <2> QED
        BY <2>3, <2>4, <2>5
<1> QED
    BY <1>8, <1>9

\* A command that has written to its files.
Filed(k, pc, code, made, open) == [k EXCEPT !.pc = pc, !.exit = code, !.made = made, !.open = open]

IsFiled(m, k, pc, code, made, open) ==
    /\ k \in ProcessType /\ pc \in Pcs /\ code \in 0..4 \cup {NoExit} /\ made \in Seq(Path) /\ open \in BOOLEAN
    /\ m = Filed(k, pc, code, made, open)

LEMMA FiledTyped ==
    ASSUME NEW m, NEW k, NEW pc, NEW code, NEW made, NEW open, IsFiled(m, k, pc, code, made, open)
    PROVE  /\ m \in ProcessType /\ m.pc = pc /\ m.exit = code /\ m.made = made /\ m.open = open
           /\ m.run = k.run /\ m.signals = k.signals
PROOF
<1> DEFINE moved == Moved(k, pc, code)
           listed == [moved EXCEPT !.made = made]
           filed == [listed EXCEPT !.open = open]
<1>0. /\ k \in ProcessType /\ pc \in Pcs /\ code \in 0..4 \cup {NoExit} /\ made \in Seq(Path) /\ open \in BOOLEAN
      /\ m = Filed(k, pc, code, made, open)
    BY DEF IsFiled
<1>1. /\ moved \in ProcessType /\ moved.pc = pc /\ moved.exit = code
      /\ moved.run = k.run /\ moved.signals = k.signals
    BY <1>0, MovedTyped
<1> HIDE DEF moved
<1>2. /\ listed \in ProcessType /\ listed.pc = pc /\ listed.exit = code /\ listed.made = made
      /\ listed.run = k.run /\ listed.signals = k.signals
    BY <1>0, <1>1 DEF ProcessType
<1> HIDE DEF listed
<1>3. /\ filed \in ProcessType /\ filed.pc = pc /\ filed.exit = code /\ filed.made = made /\ filed.open = open
      /\ filed.run = k.run /\ filed.signals = k.signals
    BY <1>0, <1>2 DEF ProcessType
<1>4. m = filed
    BY <1>0 DEF Filed, filed, listed, moved, Moved, ProcessType
<1> QED
    BY <1>3, <1>4

\* A step of a command that writes, or removes what it wrote.
FileMove(c, m) ==
    /\ m \in ProcessType
    /\ commands[c].pc \in {"writing", "removing"}
    /\ m.pc \in {"writing", "removing", "exited"}
    /\ m.run = commands[c].run /\ m.signals = commands[c].signals
    /\ m.pc = "removing" => m.run.name \in Exclusives
    /\ commands' = [commands EXCEPT ![c] = m]
    /\ DiskStep(c)
    /\ UNCHANGED <<served, wire>>
    /\ FiledAs(c, m, disk', left'[c], taken'[c])

LEMMA FileMoves ==
    ASSUME CommandInv, NEW c \in Command, NEW m, FileMove(c, m), commands[c].run.name \notin Mutations
    PROVE  CommandInv'
PROOF
<1> DEFINE k == commands[c]
<1>1. /\ Placed(k) /\ ServedAs(k, served[c]) /\ WiredAs(k, wire[c])
      /\ wire \in [Command -> WireType] /\ served \in ServedType
    BY DEF CommandInv, CommandOK, CommandTyped, ServedType
<1> HIDE DEF k
<1>2. /\ k.pc \in {"writing", "removing"} /\ m.pc \in {"writing", "removing", "exited"}
      /\ m.run = k.run /\ m.signals = k.signals /\ (m.pc = "removing" => m.run.name \in Exclusives)
      /\ k.run.name \notin Mutations
      /\ m \in ProcessType /\ UNCHANGED <<served, wire>>
    BY DEF FileMove, k
<1>3. Placed(m)
    BY <1>1, <1>2 DEF Placed, Exclusives, Writers
<1>4. ServedAs(m, served'[c])
    BY <1>1, <1>2 DEF ServedAs
<1>5. WiredAs(m, wire'[c])
    BY <1>1, <1>2 DEF WiredAs
<1> QED
    BY <1>1, <1>2, <1>3, <1>4, <1>5, CommandReplaced DEF FileMove, ServedType

\* A command that has a file to write.
LEMMA WritingFacts ==
    ASSUME CommandInv, NEW c \in Command, commands[c].pc = "writing"
    PROVE  LET k == commands[c]
               files == FilesOf(k.run.name)
               n == Len(k.made) + 1
           IN  /\ k \in ProcessType /\ k.run.name \in Writers /\ k.run.name \notin Mutations
               /\ disk \in DiskType /\ left \in FileSets /\ taken \in FileSets /\ files \in Seq(Path)
               /\ n \in 1..Len(files) /\ n - 1 = Len(k.made) /\ files[n] \in Path
               /\ \A i \in 1..Len(k.made) : k.made[i] = files[i] /\ files[i] \in Path
               /\ k.run.name \notin Exclusives => files[n] \in Generated
               /\ k.run.name \in Exclusives => \A i \in 1..Len(k.made) : files[i] # files[n]
               /\ FiledAs(c, k, disk, left[c], taken[c]) /\ NextFile(c) = files[n]
               /\ Exclusive(c) <=> k.run.name \in Exclusives
PROOF
<1> DEFINE k == commands[c]
           files == FilesOf(k.run.name)
           n == Len(k.made) + 1
<1>1. /\ k \in ProcessType /\ disk \in DiskType /\ left \in FileSets /\ taken \in FileSets
      /\ Placed(k) /\ FiledAs(c, k, disk, left[c], taken[c])
    BY DEF CommandInv, CommandTyped, CommandOK, DiskType, FileSets
<1>2. k.run.name \in Writers /\ k.run.name \notin Mutations
    BY <1>1 DEF Placed, Writers, Mutations
<1>3. files \in Seq(Path)
    BY FilesTyped
<1>4. Listed(k) /\ Len(k.made) < Len(files) /\ Len(k.made) \in Nat /\ Len(files) \in Nat
    BY <1>1, <1>3 DEF FiledAs, ProcessType
<1>5. n \in 1..Len(files) /\ n - 1 = Len(k.made)
    BY <1>4
<1>6. files[n] \in Path /\ \A i \in 1..Len(k.made) : k.made[i] = files[i] /\ files[i] \in Path
    BY <1>3, <1>4, <1>5 DEF Listed
<1>7. ASSUME k.run.name \notin Exclusives
      PROVE  files[n] \in Generated
    <2>1. files = GeneratedFiles
        BY <1>2, <1>7 DEF Writers, Exclusives, FilesOf
    <2> QED
        BY <1>3, <1>5, <2>1 DEF Generated
<1>8. ASSUME k.run.name \in Exclusives, NEW i \in 1..Len(k.made)
      PROVE  files[i] # files[n]
    <2>1. i \in DOMAIN files /\ n \in DOMAIN files /\ i # n
        BY <1>3, <1>4, <1>5
    <2> QED
        BY <1>8, <2>1, FilesApart
<1>9. NextFile(c) = files[n] /\ (Exclusive(c) <=> k.run.name \in Exclusives)
    BY DEF NextFile, Called, Exclusive, Exclusives
<1> QED
    BY <1>1, <1>2, <1>3, <1>5, <1>6, <1>7, <1>8, <1>9

LEMMA CreatesKeeps ==
    ASSUME CommandInv, NEW c \in Command, Creates(c)
    PROVE  CommandInv'
PROOF
<1> DEFINE k == commands[c]
           files == FilesOf(k.run.name)
           n == Len(k.made) + 1
           m == Filed(k, k.pc, k.exit, k.made, TRUE)
<1>1. k.pc = "writing" /\ ~k.open /\ UNCHANGED <<left, taken, served, wire>>
    BY DEF Creates, Is
<1>2. /\ k \in ProcessType /\ k.run.name \in Writers /\ k.run.name \notin Mutations
      /\ disk \in DiskType /\ left \in FileSets /\ taken \in FileSets /\ files \in Seq(Path)
      /\ n \in 1..Len(files) /\ n - 1 = Len(k.made) /\ files[n] \in Path
      /\ \A i \in 1..Len(k.made) : k.made[i] = files[i] /\ files[i] \in Path
      /\ k.run.name \notin Exclusives => files[n] \in Generated
      /\ k.run.name \in Exclusives => \A i \in 1..Len(k.made) : files[i] # files[n]
      /\ FiledAs(c, k, disk, left[c], taken[c]) /\ NextFile(c) = files[n]
      /\ Exclusive(c) <=> k.run.name \in Exclusives
    BY <1>1, WritingFacts
<1>3. /\ disk' = [disk EXCEPT ![files[n]] = [by |-> c, whole |-> FALSE]]
      /\ k.run.name \in Exclusives => disk[files[n]].by = Nobody
      /\ commands' = [commands EXCEPT ![c].open = TRUE]
    BY <1>2 DEF Creates
<1>4. m \in ProcessType /\ m.pc = "writing" /\ m.made = k.made /\ m.open /\ m.run = k.run /\ m.signals = k.signals
    <2>1. k.pc \in Pcs /\ k.exit \in 0..4 \cup {NoExit} /\ k.made \in Seq(Path)
        BY <1>2 DEF ProcessType
    <2> HIDE DEF k
    <2>2. IsFiled(m, k, k.pc, k.exit, k.made, TRUE)
        BY <1>2, <2>1 DEF IsFiled
    <2> HIDE DEF m
    <2>3. m \in ProcessType /\ m.pc = k.pc /\ m.made = k.made /\ m.open = TRUE /\ m.run = k.run /\ m.signals = k.signals
        BY <2>2, FiledTyped, Zenon
    <2> QED
        BY <1>1, <2>3
<1>5. commands' = [commands EXCEPT ![c] = m]
    <2>1. commands' = [commands EXCEPT ![c] = [k EXCEPT !.open = TRUE]]
        BY <1>3 DEF CommandInv, CommandTyped
    <2>2. m = [k EXCEPT !.open = TRUE]
        BY <1>2 DEF Filed, ProcessType
    <2> QED
        BY <2>1, <2>2
<1> HIDE DEF m
<1>6. disk'[files[n]].by = c /\ \A p \in Path \ {files[n]} : disk'[p] = disk[p]
    BY <1>2, <1>3 DEF DiskType
<1>7. DiskStep(c)
    <2>1. disk' \in DiskType
        BY <1>2, <1>3 DEF DiskType
    <2> QED
        BY <1>1, <1>2, <1>3, <1>6, <2>1 DEF DiskStep
<1>8. FiledAs(c, m, disk', left'[c], taken'[c])
    <2>1. Listed(m) /\ Len(m.made) < Len(FilesOf(m.run.name))
        BY <1>1, <1>2, <1>4 DEF FiledAs, Listed
    <2>2. ASSUME k.run.name \in Exclusives
          PROVE  /\ \A i \in 1..Len(m.made) : disk'[m.made[i]] = [by |-> c, whole |-> TRUE] \/ m.made[i] \in taken'[c]
                 /\ disk'[files[n]].by = c
                 /\ \A p \in Path : disk'[p].by = c => (\E i \in 1..Len(m.made) : p = m.made[i]) \/ p = files[n]
        <3>1. \A i \in 1..Len(k.made) : disk[k.made[i]] = [by |-> c, whole |-> TRUE] \/ k.made[i] \in taken'[c]
            BY <1>1, <1>2, <2>2 DEF FiledAs
        <3>2. \A p \in Path : disk[p].by = c => \E i \in 1..Len(k.made) : p = k.made[i]
            BY <1>1, <1>2, <2>2 DEF FiledAs
        <3>3. \A i \in 1..Len(k.made) : k.made[i] \in Path \ {files[n]}
            BY <1>2, <2>2
        <3>4. m.made = k.made
            BY <1>4
        <3> HIDE DEF k, files, n
        <3>5. \A i \in 1..Len(m.made) : disk'[m.made[i]] = [by |-> c, whole |-> TRUE] \/ m.made[i] \in taken'[c]
            BY <1>6, <3>1, <3>3, <3>4
        <3>6. \A p \in Path : disk'[p].by = c => (\E i \in 1..Len(m.made) : p = m.made[i]) \/ p = files[n]
            BY <1>6, <3>2, <3>4
        <3> QED
            BY <1>6, <3>5, <3>6
    <2> QED
        BY <1>4, <2>1, <2>2 DEF FiledAs
<1>9. FileMove(c, m)
    BY <1>1, <1>4, <1>5, <1>7, <1>8 DEF FileMove
<1> QED
    BY <1>2, <1>9, FileMoves

LEMMA WrittenKeeps ==
    ASSUME CommandInv, NEW c \in Command, Written(c)
    PROVE  CommandInv'
PROOF
<1> DEFINE k == commands[c]
           files == FilesOf(k.run.name)
           n == Len(k.made) + 1
           made == Append(k.made, files[n])
           last == n = Len(files)
           m == Filed(k, IF last THEN "exited" ELSE k.pc, IF last THEN EXIT.ok ELSE k.exit, made, FALSE)
<1>1. k.pc = "writing" /\ k.open /\ UNCHANGED <<left, taken, served, wire>>
    BY DEF Written, Is
<1>2. /\ k \in ProcessType /\ k.run.name \in Writers /\ k.run.name \notin Mutations
      /\ disk \in DiskType /\ left \in FileSets /\ taken \in FileSets /\ files \in Seq(Path)
      /\ n \in 1..Len(files) /\ n - 1 = Len(k.made) /\ files[n] \in Path
      /\ \A i \in 1..Len(k.made) : k.made[i] = files[i] /\ files[i] \in Path
      /\ k.run.name \notin Exclusives => files[n] \in Generated
      /\ k.run.name \in Exclusives => \A i \in 1..Len(k.made) : files[i] # files[n]
      /\ FiledAs(c, k, disk, left[c], taken[c]) /\ NextFile(c) = files[n]
      /\ Exclusive(c) <=> k.run.name \in Exclusives
    BY <1>1, WritingFacts
<1>3. made \in Seq(Path) /\ Len(made) = n /\ \A i \in 1..n : made[i] = files[i]
    <2>1. k.made \in Seq(Path)
        BY <1>2 DEF ProcessType
    <2> HIDE DEF k, files
    <2> QED
        BY <1>2, <2>1
<1>4. /\ disk' = IF k.run.name \in Exclusives /\ disk[files[n]].by # c THEN disk
                 ELSE [disk EXCEPT ![files[n]] = [by |-> c, whole |-> TRUE]]
      /\ commands' = [commands EXCEPT ![c].made = made, ![c].open = FALSE,
                                      ![c].pc = IF last THEN "exited" ELSE @, ![c].exit = IF last THEN EXIT.ok ELSE @]
    BY <1>2, <1>3 DEF Written, Called
<1>5. m \in ProcessType /\ m.made = made /\ ~m.open /\ m.run = k.run /\ m.signals = k.signals
      /\ m.pc = (IF last THEN "exited" ELSE "writing") /\ (last => m.exit = EXIT.ok)
    <2>1. /\ (IF last THEN "exited" ELSE k.pc) \in Pcs /\ (IF last THEN EXIT.ok ELSE k.exit) \in 0..4 \cup {NoExit}
        BY <1>2, ExitCodes DEF ProcessType, Pcs
    <2> DEFINE pc == IF last THEN "exited" ELSE k.pc
               code == IF last THEN EXIT.ok ELSE k.exit
    <2>2. pc \in Pcs /\ code \in 0..4 \cup {NoExit}
        BY <2>1
    <2> HIDE DEF k, made, pc, code
    <2>3. IsFiled(m, k, pc, code, made, FALSE)
        BY <1>2, <1>3, <2>2 DEF IsFiled, m, pc, code
    <2> HIDE DEF m
    <2>4. m \in ProcessType /\ m.pc = pc /\ m.exit = code /\ m.made = made /\ m.open = FALSE /\ m.run = k.run /\ m.signals = k.signals
        BY <2>3, FiledTyped, Zenon
    <2> HIDE DEF last
    <2> QED
        BY <1>1, <2>4 DEF pc, code
<1>6. commands' = [commands EXCEPT ![c] = m]
    <2>1. commands \in [Command -> ProcessType]
        BY DEF CommandInv, CommandTyped
    <2> HIDE DEF made, last
    <2>2. commands' = [commands EXCEPT ![c] =
              [k EXCEPT !.made = made, !.open = FALSE,
                        !.pc = IF last THEN "exited" ELSE @, !.exit = IF last THEN EXIT.ok ELSE @]]
        BY <1>4, <2>1
    <2>3. m = [k EXCEPT !.made = made, !.open = FALSE,
                        !.pc = IF last THEN "exited" ELSE @, !.exit = IF last THEN EXIT.ok ELSE @]
        BY <1>2 DEF Filed, ProcessType
    <2> QED
        BY <2>2, <2>3
<1> HIDE DEF m
<1>7. /\ disk'[files[n]] = [by |-> c, whole |-> TRUE] \/ (k.run.name \in Exclusives /\ disk' = disk /\ files[n] \in taken[c])
      /\ \A p \in Path \ {files[n]} : disk'[p] = disk[p]
    <2>1. CASE k.run.name \in Exclusives /\ disk[files[n]].by # c
        BY <1>1, <1>2, <1>4, <2>1 DEF FiledAs
    <2>2. CASE ~(k.run.name \in Exclusives /\ disk[files[n]].by # c)
        BY <1>2, <1>4, <2>2 DEF DiskType
    <2> QED
        BY <2>1, <2>2
<1>8. DiskStep(c)
    <2>1. disk' \in DiskType
        BY <1>2, <1>4 DEF DiskType
    <2>2. disk'[files[n]] = disk[files[n]] \/ disk'[files[n]].by = c
        BY <1>7
    <2>3. disk'[files[n]] = disk[files[n]] \/ (k.run.name \in Exclusives => disk[files[n]].by = c)
        BY <1>2, <1>4
    <2> QED
        BY <1>1, <1>2, <1>7, <2>1, <2>2, <2>3 DEF DiskStep
<1>9. k.run.name \in Exclusives =>
          \A i \in 1..n : disk'[files[i]] = [by |-> c, whole |-> TRUE] \/ files[i] \in taken'[c]
    <2>1. ASSUME k.run.name \in Exclusives, NEW i \in 1..n
          PROVE  disk'[files[i]] = [by |-> c, whole |-> TRUE] \/ files[i] \in taken'[c]
        <3>1. CASE i = n
            BY <1>1, <1>7, <3>1
        <3>2. CASE i # n
            <4>1. i \in 1..Len(k.made)
                BY <1>2, <2>1, <3>2
            <4>2. disk[k.made[i]] = [by |-> c, whole |-> TRUE] \/ k.made[i] \in taken[c]
                BY <1>1, <1>2, <2>1, <4>1 DEF FiledAs
            <4>3. files[i] \in Path \ {files[n]} /\ k.made[i] = files[i]
                BY <1>2, <2>1, <4>1
            <4> QED
                BY <1>1, <1>7, <4>2, <4>3
        <3> QED
            BY <3>1, <3>2
    <2> QED
        BY <2>1
<1>10. FiledAs(c, m, disk', left'[c], taken'[c])
    <2>1. CASE last
        <3>1. k.run.name \in Exclusives =>
                  \A i \in DOMAIN files : disk'[files[i]] = [by |-> c, whole |-> TRUE] \/ files[i] \in taken'[c]
            <4>1. DOMAIN files = 1..n
                BY <1>2, <2>1
            <4> HIDE DEF k, files, n
            <4> QED
                BY <1>9, <4>1
        <3> QED
            BY <1>5, <2>1, <3>1 DEF FiledAs
    <2>2. CASE ~last
        <3>1. Listed(m) /\ Len(m.made) < Len(FilesOf(m.run.name))
            BY <1>2, <1>3, <1>5, <2>2 DEF Listed
        <3>2. ASSUME k.run.name \in Exclusives, NEW p \in Path, disk'[p].by = c
              PROVE  \E i \in 1..Len(made) : p = made[i]
            <4>1. CASE p = files[n]
                BY <1>2, <1>3, <4>1
            <4>2. CASE p # files[n]
                <5>1. disk[p].by = c
                    BY <1>7, <3>2, <4>2
                <5>2. PICK i \in 1..Len(k.made) : p = k.made[i]
                    BY <1>1, <1>2, <3>2, <4>2, <5>1 DEF FiledAs
                <5>3. i \in 1..n /\ p = files[i]
                    BY <1>2, <5>2
                <5> QED
                    BY <1>3, <5>3
            <4> QED
                BY <4>1, <4>2
        <3>3. k.run.name \in Exclusives =>
                  \A i \in 1..Len(made) : disk'[made[i]] = [by |-> c, whole |-> TRUE] \/ made[i] \in taken'[c]
            BY <1>3, <1>9
        <3> HIDE DEF made
        <3> QED
            BY <1>5, <2>2, <3>1, <3>2, <3>3 DEF FiledAs
    <2> QED
        BY <2>1, <2>2
<1>11. FileMove(c, m)
    <2>1. m.pc \in {"writing", "exited"}
        BY <1>5
    <2> QED
        BY <1>1, <1>5, <1>6, <1>8, <1>10, <2>1 DEF FileMove
<1> QED
    BY <1>2, <1>11, FileMoves

LEMMA WriteFailsKeeps ==
    ASSUME CommandInv, NEW c \in Command, WriteFails(c)
    PROVE  CommandInv'
PROOF
<1> DEFINE k == commands[c]
           files == FilesOf(k.run.name)
           n == Len(k.made) + 1
<1>1. k.pc = "writing" /\ UNCHANGED <<disk, left, taken, served, wire>>
    BY DEF WriteFails, Is, fileVars
<1>2. /\ k \in ProcessType /\ k.run.name \in Writers /\ k.run.name \notin Mutations
      /\ disk \in DiskType /\ left \in FileSets /\ taken \in FileSets /\ files \in Seq(Path)
      /\ n \in 1..Len(files) /\ n - 1 = Len(k.made) /\ files[n] \in Path
      /\ \A i \in 1..Len(k.made) : k.made[i] = files[i] /\ files[i] \in Path
      /\ FiledAs(c, k, disk, left[c], taken[c]) /\ NextFile(c) = files[n]
      /\ Exclusive(c) <=> k.run.name \in Exclusives
    BY <1>1, WritingFacts
<1>3. commands \in [Command -> ProcessType] /\ k.made \in Seq(Path) /\ k.open \in BOOLEAN /\ DiskStep(c)
    BY <1>1, <1>2, FilesStay DEF CommandInv, CommandTyped, ProcessType, fileVars
<1>4. CASE k.run.name \notin Exclusives
    <2> DEFINE m == Moved(k, "exited", EXIT.runtime)
    <2>1. Ending(c, "exited", EXIT.runtime)
        BY <1>2, <1>4 DEF WriteFails, Ends, Ending
    <2>2. commands' = [commands EXCEPT ![c] = m]
        BY <2>1, EndingMoves
    <2>3. "exited" \in Pcs /\ EXIT.runtime \in 0..4 \cup {NoExit}
        BY ExitCodes DEF Pcs
    <2>4. m \in ProcessType /\ m.pc = "exited" /\ m.run = k.run /\ m.signals = k.signals
        <3> HIDE DEF k
        <3> QED
            BY <1>2, <2>3, MovedTyped, Zenon
    <2> HIDE DEF m
    <2>5. FiledAs(c, m, disk', left'[c], taken'[c])
        BY <1>4, <2>4 DEF FiledAs
    <2>6. FileMove(c, m)
        BY <1>1, <1>3, <2>2, <2>4, <2>5 DEF FileMove
    <2> QED
        BY <1>2, <2>6, FileMoves
<1>5. CASE k.run.name \in Exclusives
    <2> DEFINE code == FailedExit(c)
    <2>1. PICK made \in WithFailed(c) :
              commands' = [commands EXCEPT ![c].made = made, ![c].pc = "removing", ![c].exit = code]
        BY <1>2, <1>5 DEF WriteFails
    <2> DEFINE m == Filed(k, "removing", code, made, k.open)
    <2>2. code \in 0..4 \cup {NoExit} /\ code # EXIT.ok
        BY ExitCodes DEF FailedExit
    <2>3. made = Append(k.made, files[n]) \/ (made = k.made /\ ~k.open)
        BY <1>2 DEF WithFailed
    <2>4. /\ made \in Seq(Path) /\ Len(made) <= Len(files)
          /\ \A i \in 1..Len(made) : made[i] = files[i]
          /\ \A i \in 1..Len(k.made) : i \in 1..Len(made) /\ made[i] = k.made[i]
          /\ k.open => n \in 1..Len(made)
        <3> HIDE DEF k, files
        <3>1. CASE made = Append(k.made, files[n])
            BY <1>2, <1>3, <3>1
        <3>2. CASE made = k.made /\ ~k.open
            BY <1>2, <1>3, <3>2
        <3> QED
            BY <2>3, <3>1, <3>2
    <2> HIDE DEF code
    <2>5. m \in ProcessType /\ m.pc = "removing" /\ m.exit = code /\ m.made = made /\ m.run = k.run /\ m.signals = k.signals
        <3>1. "removing" \in Pcs
            BY DEF Pcs
        <3> HIDE DEF k
        <3> DEFINE open == k.open
        <3>2. IsFiled(m, k, "removing", code, made, open)
            BY <1>2, <1>3, <2>2, <2>4, <3>1 DEF IsFiled
        <3> HIDE DEF m, open
        <3>3. /\ m \in ProcessType /\ m.pc = "removing" /\ m.exit = code /\ m.made = made /\ m.open = open
              /\ m.run = k.run /\ m.signals = k.signals
            BY <3>2, FiledTyped, Zenon
        <3> QED
            BY <3>3
    <2>6. commands' = [commands EXCEPT ![c] = m]
        <3>1. commands' = [commands EXCEPT ![c] = [k EXCEPT !.made = made, !.pc = "removing", !.exit = code]]
            BY <1>3, <2>1
        <3>2. m = [k EXCEPT !.made = made, !.pc = "removing", !.exit = code]
            BY <1>2 DEF Filed, ProcessType
        <3> QED
            BY <3>1, <3>2
    <2> HIDE DEF m
    <2>7. Listed(m)
        BY <2>4, <2>5 DEF Listed
    <2>8. ASSUME NEW p \in Path, disk[p].by = c
          PROVE  \E i \in 1..Len(made) : p = made[i]
        <3>1. (\E i \in 1..Len(k.made) : p = k.made[i]) \/ (k.open /\ p = files[n])
            BY <1>1, <1>2, <1>5, <2>8 DEF FiledAs
        <3> QED
            BY <2>4, <3>1
    <2>9. FiledAs(c, m, disk', left'[c], taken'[c])
        BY <1>1, <2>2, <2>5, <2>7, <2>8 DEF FiledAs
    <2>10. FileMove(c, m)
        BY <1>1, <1>3, <1>5, <2>5, <2>6, <2>9 DEF FileMove
    <2> QED
        BY <1>2, <2>10, FileMoves
<1> QED
    BY <1>4, <1>5

LEMMA CloseFailsKeeps ==
    ASSUME CommandInv, NEW c \in Command, CloseFails(c)
    PROVE  CommandInv'
PROOF
<1> DEFINE k == commands[c]
           files == FilesOf(k.run.name)
           n == Len(k.made) + 1
           m == Moved(k, "exited", EXIT.runtime)
<1>1. /\ k.pc = "writing" /\ k.open /\ k.run.name = "exportFailure"
      /\ Ends(c, EXIT.runtime) /\ UNCHANGED <<disk, taken, served, wire>>
    BY DEF CloseFails, Is, Called
<1>2. /\ k \in ProcessType /\ k.run.name \notin Mutations
      /\ disk \in DiskType /\ left \in FileSets /\ taken \in FileSets
      /\ n \in 1..Len(files) /\ n - 1 = Len(k.made) /\ files[n] \in Path
      /\ FiledAs(c, k, disk, left[c], taken[c]) /\ NextFile(c) = files[n]
    BY <1>1, WritingFacts
<1>3. left' = [left EXCEPT ![c] = left[c] \cup {files[n]}]
    BY <1>2 DEF CloseFails
<1>4. Len(k.made) = 0
    <2>1. files = <<ExportFile>>
        BY <1>1 DEF FilesOf
    <2>2. Len(files) = 1
        BY <2>1
    <2> HIDE DEF files, k
    <2> QED
        BY <1>2, <2>2
<1>5. commands' = [commands EXCEPT ![c] = m]
    <2>1. Ending(c, "exited", EXIT.runtime)
        BY <1>1 DEF Ends, Ending
    <2> QED
        BY <2>1, EndingMoves
<1>6. m \in ProcessType /\ m.pc = "exited" /\ m.exit = EXIT.runtime /\ m.run = k.run /\ m.signals = k.signals
    <2>1. "exited" \in Pcs /\ EXIT.runtime \in 0..4 \cup {NoExit}
        BY ExitCodes DEF Pcs
    <2> HIDE DEF k
    <2> QED
        BY <1>2, <2>1, MovedTyped, Zenon
<1> HIDE DEF m
<1>7. left'[c] = left[c] \cup {files[n]} /\ left' \in FileSets /\ \A e \in Command \ {c} : left'[e] = left[e]
    BY <1>2, <1>3 DEF FileSets
<1>8. DiskStep(c)
    BY <1>1, <1>2, <1>7 DEF DiskStep
<1>9. ASSUME NEW p \in Path, disk[p].by = c
      PROVE  p \in left'[c]
    <2>1. (\E i \in 1..Len(k.made) : p = k.made[i]) \/ p = files[n]
        BY <1>1, <1>2, <1>9 DEF FiledAs, Exclusives
    <2> QED
        BY <1>4, <1>7, <2>1
<1>10. FiledAs(c, m, disk', left'[c], taken'[c])
    BY <1>1, <1>6, <1>9, ExitCodes DEF FiledAs
<1>11. FileMove(c, m)
    BY <1>1, <1>5, <1>6, <1>8, <1>10 DEF FileMove
<1> QED
    BY <1>2, <1>11, FileMoves

LEMMA RemovesKeeps ==
    ASSUME CommandInv, NEW c \in Command, Removes(c)
    PROVE  CommandInv'
PROOF
<1> DEFINE k == commands[c]
           files == FilesOf(k.run.name)
<1>1. k.pc = "removing" /\ UNCHANGED <<served, wire>>
    BY DEF Removes, Is
<1>2. /\ commands \in [Command -> ProcessType] /\ k \in ProcessType
      /\ disk \in DiskType /\ left \in FileSets /\ taken \in FileSets
      /\ Placed(k) /\ FiledAs(c, k, disk, left[c], taken[c])
    BY DEF CommandInv, CommandTyped, CommandOK, DiskType, FileSets
<1>3. /\ k.run.name \in Exclusives /\ k.run.name \notin Mutations
      /\ k.made \in Seq(Path) /\ k.exit \in 0..4 \cup {NoExit} /\ k.open \in BOOLEAN
    BY <1>1, <1>2 DEF Placed, Exclusives, Mutations, ProcessType
<1>4. /\ Len(k.made) <= Len(files) /\ \A i \in 1..Len(k.made) : k.made[i] = files[i]
      /\ k.exit # EXIT.ok
      /\ \A p \in Path : disk[p].by = c => (\E i \in 1..Len(k.made) : p = k.made[i]) \/ p \in left[c]
    BY <1>1, <1>2 DEF FiledAs, Listed
<1>5. CASE k.made = <<>>
    <2> DEFINE m == Moved(k, "exited", k.exit)
    <2>1. Enters(c, "exited") /\ UNCHANGED fileVars /\ "exited" \in Pcs
        BY <1>5 DEF Removes, Pcs
    <2>2. commands' = [commands EXCEPT ![c] = m]
        BY <2>1, EntersMoves
    <2>3. m \in ProcessType /\ m.pc = "exited" /\ m.exit = k.exit /\ m.run = k.run /\ m.signals = k.signals
        <3> HIDE DEF k
        <3> QED
            BY <1>2, <1>3, <2>1, MovedTyped, Zenon
    <2> HIDE DEF m
    <2>4. disk' = disk /\ left' = left /\ \A p \in Path : disk[p].by = c => p \in left[c]
        BY <1>4, <1>5, <2>1 DEF fileVars
    <2>5. FiledAs(c, m, disk', left'[c], taken'[c])
        BY <1>4, <2>3, <2>4 DEF FiledAs
    <2>6. DiskStep(c)
        BY <2>1, FilesStay
    <2>7. FileMove(c, m)
        BY <1>1, <2>2, <2>3, <2>5, <2>6 DEF FileMove
    <2> QED
        BY <1>3, <2>7, FileMoves
<1>6. CASE k.made # <<>>
    <2> DEFINE n == Len(k.made)
               path == k.made[n]
               owner == disk[path].by
               made == SubSeq(k.made, 1, n - 1)
               m == Filed(k, k.pc, k.exit, made, k.open)
    <2>1. /\ commands' = [commands EXCEPT ![c].made = made]
          /\ \/ /\ disk' = [disk EXCEPT ![path] = Absent]
                /\ taken' = IF owner \in Command \ {c} THEN [taken EXCEPT ![owner] = taken[owner] \cup {path}] ELSE taken
                /\ left' = left
             \/ left' = [left EXCEPT ![c] = left[c] \cup {path}] /\ disk' = disk /\ taken' = taken
        BY <1>6 DEF Removes
    <2>2. /\ n \in Nat /\ n > 0 /\ made \in Seq(Path) /\ Len(made) = n - 1
          /\ \A i \in 1..Len(made) : i \in 1..n /\ made[i] = k.made[i]
          /\ path \in Path
          /\ \A i \in 1..n : i = n \/ i \in 1..Len(made)
        <3> HIDE DEF k
        <3> QED
            BY <1>3, <1>6
    <2> HIDE DEF made
    <2>3. m \in ProcessType /\ m.pc = "removing" /\ m.exit = k.exit /\ m.made = made /\ m.run = k.run /\ m.signals = k.signals
        <3>1. k.pc \in Pcs
            BY <1>1 DEF Pcs
        <3> HIDE DEF k
        <3> DEFINE open == k.open
        <3>2. IsFiled(m, k, k.pc, k.exit, made, open)
            BY <1>2, <1>3, <2>2, <3>1 DEF IsFiled
        <3> HIDE DEF m, open
        <3>3. /\ m \in ProcessType /\ m.pc = k.pc /\ m.exit = k.exit /\ m.made = made /\ m.open = open
              /\ m.run = k.run /\ m.signals = k.signals
            BY <3>2, FiledTyped, Zenon
        <3> QED
            BY <1>1, <3>3
    <2>4. commands' = [commands EXCEPT ![c] = m]
        <3>1. commands' = [commands EXCEPT ![c] = [k EXCEPT !.made = made]]
            BY <1>2, <2>1
        <3>2. m = [k EXCEPT !.made = made]
            BY <1>2 DEF Filed, ProcessType
        <3> QED
            BY <3>1, <3>2
    <2> HIDE DEF m
    <2>5. ASSUME NEW p \in Path, disk[p].by = c, p # path
          PROVE  (\E i \in 1..Len(made) : p = made[i]) \/ p \in left[c]
        <3>1. CASE p \in left[c]
            BY <3>1
        <3>2. CASE \E i \in 1..n : p = k.made[i]
            <4>1. PICK i \in 1..n : p = k.made[i]
                BY <3>2
            <4> QED
                BY <2>2, <2>5, <4>1
        <3> QED
            BY <1>4, <2>5, <3>1, <3>2
    <2> DEFINE Forgotten == \A p \in Path : disk'[p].by = c => (\E i \in 1..Len(made) : p = made[i]) \/ p \in left'[c]
    <2>6. DiskStep(c) /\ Forgotten
        <3> HIDE DEF n, path
        <3>1. CASE left' = [left EXCEPT ![c] = left[c] \cup {path}] /\ disk' = disk /\ taken' = taken
            <4>1. left' \in FileSets /\ left'[c] = left[c] \cup {path} /\ \A e \in Command \ {c} : left'[e] = left[e]
                BY <1>2, <2>2, <3>1 DEF FileSets
            <4>2. DiskStep(c)
                BY <1>2, <3>1, <4>1 DEF DiskStep
            <4>3. Forgotten
                BY <2>5, <3>1, <4>1
            <4> QED
                BY <4>2, <4>3
        <3>2. CASE /\ disk' = [disk EXCEPT ![path] = Absent]
                   /\ taken' = IF owner \in Command \ {c} THEN [taken EXCEPT ![owner] = taken[owner] \cup {path}] ELSE taken
                   /\ left' = left
            <4>1. /\ disk' \in DiskType /\ disk'[path].by = Nobody
                  /\ \A p \in Path \ {path} : disk'[p] = disk[p]
                BY <1>2, <2>2, <3>2 DEF DiskType, Absent
            <4>2. /\ taken' \in FileSets /\ \A e \in Command : taken[e] \subseteq taken'[e]
                  /\ \A e \in Command \ {c} : owner = e => path \in taken'[e]
                <5>1. CASE owner \in Command \ {c}
                    BY <1>2, <2>2, <3>2, <5>1 DEF FileSets
                <5>2. CASE owner \notin Command \ {c}
                    BY <1>2, <3>2, <5>2
                <5> QED
                    BY <5>1, <5>2
            <4>3. DiskStep(c)
                BY <1>2, <3>2, <4>1, <4>2 DEF DiskStep
            <4>4. Forgotten
                BY <2>5, <3>2, <4>1, CommandAssumption
            <4> QED
                BY <4>3, <4>4
        <3> QED
            BY <2>1, <3>1, <3>2
    <2>7. Listed(m)
        <3>1. Len(files) \in Nat
            BY FilesTyped
        <3>2. Len(made) <= Len(files)
            BY <1>4, <2>2, <3>1
        <3>3. \A i \in 1..Len(made) : made[i] = files[i]
            BY <1>4, <2>2
        <3> QED
            BY <2>3, <3>2, <3>3 DEF Listed
    <2>8. FiledAs(c, m, disk', left'[c], taken'[c])
        BY <1>4, <2>3, <2>6, <2>7 DEF FiledAs
    <2>9. FileMove(c, m)
        BY <1>1, <1>3, <2>3, <2>4, <2>6, <2>8 DEF FileMove
    <2> QED
        BY <1>3, <2>9, FileMoves
<1> QED
    BY <1>5, <1>6

LEMMA CommandStep ==
    ASSUME CommandInv, CommandNext
    PROVE  CommandInv'
PROOF
    BY InvokeKeeps, SignalKeeps, ConfigLoadsKeeps, CreatesKeeps, WrittenKeeps, WriteFailsKeeps, CloseFailsKeeps, RemovesKeeps,
       GatewayKeeps, WireKeeps, GatewayRunsKeeps DEF CommandNext

\* What the invariant says of a command that ended by itself.
LEMMA InvariantTellsExits ==
    ASSUME CommandInv
    PROVE  ExitIsTrue
PROOF
<1> SUFFICES ASSUME NEW c \in Command, Is(c, "exited"), ~Killed(c)
             PROVE  LET code == commands[c].exit
                        name == Called(c).name
                        files == FilesOf(name)
                    IN /\ \/ served[c] \in {"none", "stopped"}
                          \/ served[c] = "overtaken" /\ Signalled(c) /\ code = EXIT.ok
                       /\ name \in {"init", "exportFailure"} =>
                             \A n \in DOMAIN files :
                                IF code = EXIT.ok THEN disk[files[n]] = [by |-> c, whole |-> TRUE] \/ files[n] \in taken[c]
                                ELSE disk[files[n]].by # c \/ files[n] \in left[c]
                       /\ name \in Mutations =>
                             /\ code = EXIT.ok => wire[c].applied
                             /\ wire[c].applied => \/ code \in {EXIT.ok, EXIT.unknown}
                                                   \/ code = EXIT.runtime /\ wire[c].came
                                                   \/ code = EXIT.refused /\ wire[c].came /\ Repeats(c)
    BY DEF ExitIsTrue
<1> DEFINE k == commands[c]
           w == wire[c]
           files == FilesOf(k.run.name)
<1>1. /\ ServedAs(k, served[c]) /\ WiredAs(k, w) /\ FiledAs(c, k, disk, left[c], taken[c])
      /\ k.pc = "exited" /\ k.signals # 2 /\ w \in WireType
    BY DEF CommandInv, CommandOK, CommandTyped, Is, Killed
<1>2. served[c] \in {"none", "stopped"} \/ (served[c] = "overtaken" /\ Signalled(c) /\ k.exit = EXIT.ok)
    BY <1>1 DEF ServedAs, Signalled
<1>3. ASSUME k.run.name \in Exclusives, NEW n \in DOMAIN files
      PROVE  IF k.exit = EXIT.ok THEN disk[files[n]] = [by |-> c, whole |-> TRUE] \/ files[n] \in taken[c]
             ELSE disk[files[n]].by # c \/ files[n] \in left[c]
    BY <1>1, <1>3, FilesApart DEF FiledAs
<1>4. ASSUME k.run.name \in Mutations
      PROVE  /\ k.exit = EXIT.ok => w.applied
             /\ w.applied => \/ k.exit \in {EXIT.ok, EXIT.unknown}
                             \/ k.exit = EXIT.runtime /\ w.came
                             \/ k.exit = EXIT.refused /\ w.came /\ Repeats(c)
    <2>1. /\ w.answer = "completed" => w.applied
          /\ w.applied => w.sent
          /\ w.applied => w.answer \in {"completed", "failed", "unknown", "error"} \/ (w.answer = "refused" /\ Repeats(c))
          /\ \/ ~w.sent /\ k.exit \in {EXIT.invalid, EXIT.runtime}
             \/ w.came /\ k.exit = ExitOf(w.answer)
             \/ k.exit = EXIT.unknown
        BY <1>1, <1>4 DEF WiredAs, Repeats, Called
    <2>2. CASE ~w.sent /\ k.exit \in {EXIT.invalid, EXIT.runtime}
        BY <2>1, <2>2, ExitCodes
    <2>3. CASE k.exit = EXIT.unknown
        BY <2>1, <2>3, ExitCodes
    <2>4. CASE w.came /\ k.exit = ExitOf(w.answer)
        <3>1. /\ ExitOf(w.answer) = EXIT.ok => w.answer = "completed"
              /\ w.answer \in {"completed", "failed", "unknown", "error"} =>
                    ExitOf(w.answer) \in {EXIT.ok, EXIT.runtime, EXIT.unknown}
              /\ w.answer = "refused" => ExitOf(w.answer) = EXIT.refused
            BY ExitCodes DEF ExitOf
        <3> QED
            BY <2>1, <2>4, <3>1
    <2> QED
        BY <2>1, <2>2, <2>3, <2>4
<1> QED
    BY <1>2, <1>3, <1>4 DEF Called, Exclusives

(* runCli, runOperatorCommand: the exit code of every command that is not  *)
(* killed is true, of its gateway, of its files and of the operation.      *)
THEOREM ExitCodesAreTrue == EdgeSpec => []ExitIsTrue
PROOF
<1>1. EdgeInit => CommandInv
    <2> SUFFICES ASSUME EdgeInit PROVE CommandInv
        OBVIOUS
    <2>1. \A p \in Path : disk[p] \in {Absent, [by |-> User, whole |-> TRUE]}
        BY DEF EdgeInit, CommandInit
    <2>2. disk \in DiskType
        <3>1. PICK there : disk = [p \in Path |-> IF p \in there THEN [by |-> User, whole |-> TRUE] ELSE Absent]
            BY DEF EdgeInit, CommandInit
        <3>2. {Absent, [by |-> User, whole |-> TRUE]} \subseteq [by : Command \cup {User, Nobody}, whole : BOOLEAN]
            BY DEF Absent
        <3> QED
            BY <3>1, <3>2 DEF DiskType
    <2>3. \A c \in Command : Clean(c, disk)
        BY <2>1, CommandAssumption DEF Clean, Absent
    <2>4. left \in FileSets /\ taken \in FileSets /\ commands \in [Command -> ProcessType] /\ wire \in [Command -> WireType] /\ served \in ServedType
        BY DEF EdgeInit, CommandInit, ProcessType, Pcs, WireType, Unsent, ServedType, FileSets
    <2>5. ASSUME NEW c \in Command
          PROVE  CommandOK(c)
        <3>1. /\ commands[c].pc = "idle" /\ commands[c].made = <<>> /\ ~commands[c].open
              /\ wire[c] = Unsent /\ served[c] = "none"
            BY DEF EdgeInit, CommandInit
        <3> QED
            BY <2>3, <3>1 DEF CommandOK, Placed, ServedAs, WiredAs, FiledAs, Unsent
    <2> QED
        BY <2>2, <2>4, <2>5 DEF CommandInv, CommandTyped, DiskType, ServedType, FileSets
<1>2. CommandInv /\ [EdgeNext]_edgeVars => CommandInv'
    <2>1. ASSUME CommandInv, UNCHANGED commandVars
          PROVE  CommandInv'
        <3>1. UNCHANGED <<commands, disk, left, taken, served, wire>>
            BY <2>1 DEF commandVars
        <3>2. CommandTyped'
            BY <2>1, <3>1 DEF CommandInv, CommandTyped
        <3>3. \A c \in Command : CommandOK(c)'
            BY <2>1, <3>1 DEF CommandInv, CommandOK
        <3> QED
            BY <3>2, <3>3 DEF CommandInv
    <2> QED
        BY <2>1, CommandStep DEF EdgeNext, edgeVars, InQuarantine, InHook, InTraces, InManagement, InOptions, InCommands
<1>3. CommandInv => ExitIsTrue
    BY InvariantTellsExits
<1> QED
    BY <1>1, <1>2, <1>3, PTL DEF EdgeSpec

-----------------------------------------------------------------------------
(* The reader of the quarantine topic.                                     *)

\* Until an attempt is cut off or finishes nothing of it is closed; the group is in use from
\* the call that may join it until it is deleted; and a close that did not give up on a call
\* found no call in flight.
ReadOK(k) ==
    /\ k.pc \in {"new", "queued", "running"} => k.stage = "none"
    /\ k.stage = "none" => k.pass = 1
    /\ k.run # "none" \/ k.work \in {"consumer", "waiting"} => k.consumer
    /\ k.stage = "released" => k.work = "none" /\ k.run = "none"
    /\ ~k.outlived =>
          /\ k.stage \in {"settle", "leave", "delete"} /\ k.pass = 2 => ~InFlight(k)
          /\ k.stage \in {"leave", "delete", "sweep"} => k.run # "flight"
          /\ k.stage # "released" /\ ~k.groupInUse => k.group = "absent" /\ k.run # "flight"
          /\ k.stage = "released" => ~k.leaks /\ (k.group = "absent" \/ k.warned)

QuarantineInv == reads \in [Read -> ReadType] /\ \A r \in Read : ReadOK(reads[r])

ReadMove(r, m) == m \in ReadType /\ ReadOK(m) /\ reads' = [reads EXCEPT ![r] = m]

LEMMA ReadMoves ==
    ASSUME QuarantineInv, NEW r \in Read, NEW m, ReadMove(r, m)
    PROVE  QuarantineInv'
PROOF
<1>1. reads' \in [Read -> ReadType]
    BY DEF QuarantineInv, ReadMove
<1>2. ASSUME NEW q \in Read
      PROVE  ReadOK(reads'[q])
    BY DEF QuarantineInv, ReadMove
<1> HIDE DEF QuarantineInv
<1> QED
    BY <1>1, <1>2 DEF QuarantineInv, ReadOK, InFlight

\* close begins.
LEMMA CloseBeginsOK ==
    ASSUME NEW k \in ReadType, ReadOK(k),
           k.stage = "none" \/ (k.stage = "sweep" /\ (InFlight(k) => k.outlived)),
           k.pc \in {"finished", "answered"}
    PROVE  CloseBegins(k) \in ReadType /\ ReadOK(CloseBegins(k))
PROOF
<1> DEFINE a == Abandoned(k)
           m == CloseBegins(k)
<1>1. /\ a \in ReadType /\ a.stage = k.stage /\ a.pass = k.pass /\ a.consumer = k.consumer /\ a.run = k.run /\ a.pc = k.pc
      /\ a.outlived = k.outlived /\ a.groupInUse = k.groupInUse /\ a.group = k.group
      /\ a.work = (IF k.work = "waiting" THEN "settled" ELSE k.work)
    <2> DEFINE work == IF k.work = "waiting" THEN "settled" ELSE k.work
               result == IF k.pc = "finished" THEN k.result ELSE "none"
               b == [k EXCEPT !.work = work]
    <2>1. work \in Works /\ result \in Answers
        BY DEF ReadType, Works, Answers
    <2>2. a = [b EXCEPT !.result = result]
        BY DEF Abandoned, ReadType
    <2> HIDE DEF work, result
    <2>3. /\ b \in ReadType /\ b.stage = k.stage /\ b.pass = k.pass /\ b.consumer = k.consumer /\ b.run = k.run /\ b.pc = k.pc
          /\ b.outlived = k.outlived /\ b.groupInUse = k.groupInUse /\ b.group = k.group /\ b.work = work
        BY <2>1 DEF ReadType
    <2> HIDE DEF a, b
    <2> QED
        BY <2>1, <2>2, <2>3 DEF ReadType, work
<1>2. m = [a EXCEPT !.stage = IF k.consumer THEN "settle" ELSE "leave"]
    BY DEF CloseBegins
<1> HIDE DEF a, m
<1>3. /\ m \in ReadType /\ m.stage = (IF k.consumer THEN "settle" ELSE "leave")
      /\ m.pass = a.pass /\ m.consumer = a.consumer /\ m.run = a.run /\ m.pc = a.pc
      /\ m.outlived = a.outlived /\ m.groupInUse = a.groupInUse /\ m.group = a.group /\ m.work = a.work
    BY <1>1, <1>2 DEF ReadType, Stages
<1>4. ReadOK(m)
    BY <1>1, <1>3 DEF ReadOK, InFlight
<1> QED
    BY <1>3, <1>4 DEF m

\* A second close is the last: what it lets go.
LEMMA ReleasedOK ==
    ASSUME NEW k \in ReadType, ReadOK(k), k.stage \in {"leave", "delete"}, k.pass = 2,
           ~k.outlived => k.group = "absent" \/ k.warned
    PROVE  Released(k) \in ReadType /\ ReadOK(Released(k))
PROOF
<1> DEFINE departed == IF k.outlived
                   THEN [NoRead EXCEPT !.outlived = TRUE]
                   ELSE [NoRead EXCEPT !.group = IF k.run = "flight" THEN "member" ELSE k.group,
                                       !.warned = k.warned, !.leaks = InFlight(k)]
           answer == Freed(k).answer
           b == [departed EXCEPT !.pc = "answered", !.failure = k.failure]
           m == Released(k)
<1>1. answer \in Answers
    BY DEF Freed, ReadType
<1>2. /\ departed \in ReadType /\ departed.work = "none" /\ departed.run = "none" /\ departed.pass = 1
      /\ departed.outlived = k.outlived
      /\ ~k.outlived => ~departed.leaks /\ departed.group = k.group /\ departed.warned = k.warned
    <2>1. NoRead \in ReadType
        BY DEF NoRead, ReadType, Answers, Works, Stages
    <2>2. CASE k.outlived
        BY <2>1, <2>2 DEF NoRead, ReadType
    <2>3. CASE ~k.outlived
        <3> DEFINE grouped == [NoRead EXCEPT !.group = k.group]
                   warned == [grouped EXCEPT !.warned = k.warned]
                   last == [warned EXCEPT !.leaks = FALSE]
        <3>1. InFlight(k) = FALSE /\ k.run # "flight"
            BY <2>3 DEF ReadOK, InFlight
        <3>2. /\ grouped \in ReadType /\ grouped.work = "none" /\ grouped.run = "none" /\ grouped.pass = 1
              /\ grouped.outlived = FALSE /\ grouped.group = k.group
            BY <2>1 DEF NoRead, ReadType
        <3>3. departed = [NoRead EXCEPT !.group = k.group, !.warned = k.warned, !.leaks = FALSE]
            <4> DEFINE leaks == InFlight(k)
                       group == IF k.run = "flight" THEN "member" ELSE k.group
            <4>1. leaks = FALSE /\ group = k.group
                BY <3>1
            <4>2. departed = [NoRead EXCEPT !.group = group, !.warned = k.warned, !.leaks = leaks]
                BY <2>3
            <4> HIDE DEF departed, leaks, group
            <4> QED
                BY <4>1, <4>2
        <3>4. departed = last
            BY <2>1, <3>3 DEF ReadType
        <3> HIDE DEF grouped, departed
        <3>5. /\ warned \in ReadType /\ warned.work = "none" /\ warned.run = "none" /\ warned.pass = 1
              /\ warned.outlived = FALSE /\ warned.group = k.group /\ warned.warned = k.warned
            BY <3>2 DEF ReadType
        <3> HIDE DEF warned
        <3> QED
            BY <2>3, <3>4, <3>5 DEF ReadType
    <2> QED
        BY <2>2, <2>3
<1>3. m = [b EXCEPT !.answer = answer, !.free = TRUE, !.stage = "released"]
    <2>1. m = [departed EXCEPT !.pc = "answered", !.failure = k.failure, !.answer = answer, !.free = TRUE, !.stage = "released"]
        BY DEF Released
    <2> HIDE DEF departed, answer, m
    <2> QED
        BY <1>2, <2>1 DEF ReadType
<1> HIDE DEF departed, answer, m
<1>4. /\ b \in ReadType /\ b.pc = "answered" /\ b.work = "none" /\ b.run = "none" /\ b.pass = 1 /\ b.outlived = k.outlived
      /\ ~k.outlived => ~b.leaks /\ b.group = k.group /\ b.warned = k.warned
    BY <1>2 DEF ReadType
<1> HIDE DEF b
<1>5. /\ m \in ReadType /\ m.pc = "answered" /\ m.stage = "released" /\ m.work = "none" /\ m.run = "none" /\ m.outlived = k.outlived
      /\ ~k.outlived => ~m.leaks /\ m.group = k.group /\ m.warned = k.warned
    BY <1>1, <1>3, <1>4 DEF ReadType, Stages
<1>6. ReadOK(m)
    BY <1>5 DEF ReadOK, InFlight
<1> QED
    BY <1>5, <1>6 DEF m

LEMMA ClosedOK ==
    ASSUME NEW k \in ReadType, ReadOK(k), k.stage \in {"leave", "delete"},
           ~k.outlived /\ k.pass = 2 => k.group = "absent" \/ k.warned
    PROVE  Closed(k) \in ReadType /\ ReadOK(Closed(k))
PROOF
<1>1. CASE k.pass = 1
    <2> DEFINE m == [k EXCEPT !.stage = "sweep"]
    <2>1. /\ m \in ReadType /\ m.stage = "sweep" /\ m.pass = k.pass /\ m.consumer = k.consumer /\ m.run = k.run /\ m.pc = k.pc
          /\ m.outlived = k.outlived /\ m.groupInUse = k.groupInUse /\ m.group = k.group /\ m.work = k.work
        BY DEF ReadType, Stages
    <2>2. Closed(k) = m
        BY <1>1 DEF Closed
    <2> HIDE DEF m
    <2>3. ReadOK(m)
        BY <2>1 DEF ReadOK, InFlight
    <2> QED
        BY <2>1, <2>2, <2>3
<1>2. CASE k.pass = 2
    BY <1>2, ReleasedOK DEF Closed
<1> QED
    BY <1>1, <1>2 DEF ReadType

LEMMA UnavailableOK ==
    ASSUME NEW k \in ReadType, ReadOK(k)
    PROVE  /\ Unavailable(k) \in ReadType /\ ReadOK(Unavailable(k))
           /\ Unavailable(k).pc = "answered" /\ Unavailable(k).stage = k.stage
PROOF
<1> DEFINE m == Unavailable(k)
<1>1. /\ m \in ReadType /\ m.stage = k.stage /\ m.pass = k.pass /\ m.consumer = k.consumer /\ m.run = k.run /\ m.pc = "answered"
      /\ m.outlived = k.outlived /\ m.groupInUse = k.groupInUse /\ m.group = k.group /\ m.work = k.work
      /\ m.leaks = k.leaks /\ m.warned = k.warned
    BY DEF Unavailable, ReadType, Answers
<1> HIDE DEF m
<1>2. ReadOK(m)
    BY <1>1 DEF ReadOK, InFlight
<1> QED
    BY <1>1, <1>2 DEF m

\* The work ends, with a result or without one.
LEMMA SettledOK ==
    ASSUME NEW k \in ReadType, ReadOK(k), k.work # "none", NEW result \in Answers
    PROVE  Settled(k, result) \in ReadType /\ ReadOK(Settled(k, result))
PROOF
<1> DEFINE m == Settled(k, result)
<1>1. /\ m \in ReadType /\ m.stage = k.stage /\ m.pass = k.pass /\ m.consumer = k.consumer /\ m.run = k.run /\ m.pc = k.pc
      /\ m.outlived = k.outlived /\ m.groupInUse = k.groupInUse /\ m.group = k.group /\ m.work = "settled"
    BY DEF Settled, ReadType, Works
<1> HIDE DEF m
<1>2. ReadOK(m)
    BY <1>1 DEF ReadOK, InFlight
<1> QED
    BY <1>1, <1>2 DEF m

LEMMA AcknowledgedTyped == Acknowledged \subseteq Failure
PROOF
<1>1. Published \in Seq([failure : Failure, partition : Partition, outcome : Outcomes])
    BY QuarantineAssumption
<1>2. ASSUME NEW i \in DOMAIN Published
      PROVE  Published[i].failure \in Failure
    <2> DEFINE Row == [failure : Failure, partition : Partition, outcome : Outcomes]
               w == Published[i]
    <2>1. Published \in Seq(Row)
        BY <1>1
    <2> HIDE DEF Row
    <2>2. w \in Row
        BY <1>2, <2>1
    <2> HIDE DEF w
    <2>3. w.failure \in Failure
        BY <2>2 DEF Row
    <2> QED
        BY <2>3 DEF w
<1> QED
    BY <1>2 DEF Acknowledged

\* read: the calls that wait, begin, and are cut off or finish.
LEMMA ReadsKeep ==
    ASSUME QuarantineInv, NEW r \in Read, Reads(r)
    PROVE  QuarantineInv'
PROOF
<1> DEFINE k == reads[r]
<1>1. k \in ReadType /\ ReadOK(k)
    BY DEF QuarantineInv
<1>2. CASE Request(r)
    <2>1. PICK f \in Acknowledged : \/ reads' = [reads EXCEPT ![r] = [k EXCEPT !.pc = "queued", !.failure = f]]
                                    \/ reads' = [reads EXCEPT ![r] = [k EXCEPT !.pc = "answered", !.failure = f,
                                                                               !.answer = "unavailable"]]
        BY <1>2 DEF Request, Becomes
    <2>2. f \in Failure /\ k.pc = "new"
        BY <1>2, AcknowledgedTyped DEF Request
    <2>3. CASE reads' = [reads EXCEPT ![r] = [k EXCEPT !.pc = "queued", !.failure = f]]
        <3> DEFINE m == [k EXCEPT !.pc = "queued", !.failure = f]
        <3>1. /\ m \in ReadType /\ m.stage = k.stage /\ m.pass = k.pass /\ m.consumer = k.consumer /\ m.run = k.run
              /\ m.outlived = k.outlived /\ m.groupInUse = k.groupInUse /\ m.group = k.group /\ m.work = k.work
              /\ m.leaks = k.leaks /\ m.warned = k.warned /\ m.pc = "queued"
            BY <1>1, <2>2 DEF ReadType
        <3> HIDE DEF m, k
        <3>2. ReadOK(m)
            BY <1>1, <2>2, <3>1 DEF ReadOK, InFlight
        <3>3. ReadMove(r, m)
            BY <2>3, <3>1, <3>2 DEF ReadMove, m
        <3> QED
            BY <3>3, ReadMoves
    <2>4. CASE reads' = [reads EXCEPT ![r] = [k EXCEPT !.pc = "answered", !.failure = f, !.answer = "unavailable"]]
        <3> DEFINE m == [k EXCEPT !.pc = "answered", !.failure = f, !.answer = "unavailable"]
        <3>1. /\ m \in ReadType /\ m.stage = k.stage /\ m.pass = k.pass /\ m.consumer = k.consumer /\ m.run = k.run
              /\ m.outlived = k.outlived /\ m.groupInUse = k.groupInUse /\ m.group = k.group /\ m.work = k.work
              /\ m.leaks = k.leaks /\ m.warned = k.warned /\ m.pc = "answered"
            BY <1>1, <2>2 DEF ReadType, Answers
        <3> HIDE DEF m, k
        <3>2. ReadOK(m)
            BY <1>1, <3>1 DEF ReadOK, InFlight
        <3>3. ReadMove(r, m)
            BY <2>4, <3>1, <3>2 DEF ReadMove, m
        <3> QED
            BY <3>3, ReadMoves
    <2> QED
        BY <2>1, <2>3, <2>4
<1>3. CASE Begin(r)
    <2> DEFINE m == [k EXCEPT !.pc = "running", !.work = "admin"]
    <2>1. /\ m \in ReadType /\ m.stage = k.stage /\ m.pass = k.pass /\ m.consumer = k.consumer /\ m.run = k.run
          /\ m.outlived = k.outlived /\ m.groupInUse = k.groupInUse /\ m.group = k.group /\ m.pc = "running" /\ m.work = "admin"
        BY <1>1 DEF ReadType, Works
    <2>2. k.pc = "queued" /\ reads' = [reads EXCEPT ![r] = m]
        BY <1>3 DEF Begin, Becomes
    <2> HIDE DEF m, k
    <2>3. ReadOK(m)
        BY <1>1, <2>1, <2>2 DEF ReadOK, InFlight
    <2>4. ReadMove(r, m)
        BY <2>1, <2>2, <2>3 DEF ReadMove
    <2> QED
        BY <2>4, ReadMoves
<1>4. CASE WaitsTooLong(r)
    <2> DEFINE u == Unavailable(k)
               m == [u EXCEPT !.free = TRUE]
    <2>1. reads' = [reads EXCEPT ![r] = m]
        BY <1>4 DEF WaitsTooLong, Becomes
    <2>2. u \in ReadType /\ ReadOK(u)
        BY <1>1, UnavailableOK
    <2> HIDE DEF u
    <2>3. /\ m \in ReadType /\ m.stage = u.stage /\ m.pass = u.pass /\ m.consumer = u.consumer /\ m.run = u.run
          /\ m.outlived = u.outlived /\ m.groupInUse = u.groupInUse /\ m.group = u.group /\ m.work = u.work
          /\ m.leaks = u.leaks /\ m.warned = u.warned /\ m.pc = u.pc
        BY <2>2 DEF ReadType
    <2> HIDE DEF m
    <2>4. ReadOK(m)
        BY <2>2, <2>3 DEF ReadOK, InFlight
    <2>5. ReadMove(r, m)
        BY <2>1, <2>3, <2>4 DEF ReadMove
    <2> QED
        BY <2>5, ReadMoves
<1>5. CASE Finishes(r)
    <2> DEFINE u == [k EXCEPT !.pc = "finished"]
               m == CloseBegins(u)
    <2>1. k.pc = "running" /\ reads' = [reads EXCEPT ![r] = m]
        BY <1>5 DEF Finishes, Becomes
    <2>2. /\ u \in ReadType /\ u.stage = k.stage /\ u.pass = k.pass /\ u.consumer = k.consumer /\ u.run = k.run
          /\ u.outlived = k.outlived /\ u.groupInUse = k.groupInUse /\ u.group = k.group /\ u.work = k.work
          /\ u.leaks = k.leaks /\ u.warned = k.warned /\ u.pc = "finished"
        BY <1>1 DEF ReadType
    <2> HIDE DEF u, k
    <2>3. ReadOK(u) /\ u.stage = "none"
        BY <1>1, <2>1, <2>2 DEF ReadOK, InFlight
    <2>4. ReadMove(r, m)
        BY <2>1, <2>2, <2>3, CloseBeginsOK DEF ReadMove
    <2> QED
        BY <2>4, ReadMoves
<1>6. CASE CutOff(r)
    <2> DEFINE u == Unavailable(k)
               m == CloseBegins(u)
    <2>1. k.pc = "running" /\ reads' = [reads EXCEPT ![r] = m]
        BY <1>6 DEF CutOff, Becomes
    <2>2. u \in ReadType /\ ReadOK(u) /\ u.pc = "answered" /\ u.stage = "none"
        BY <1>1, <2>1, UnavailableOK DEF ReadOK
    <2> HIDE DEF u
    <2>3. ReadMove(r, m)
        BY <2>1, <2>2, CloseBeginsOK DEF ReadMove
    <2> QED
        BY <2>3, ReadMoves
<1> QED
    BY <1>2, <1>3, <1>4, <1>5, <1>6 DEF Reads

\* #run: one call after another, and the join of the throwaway group.
LEMMA CallsKeep ==
    ASSUME QuarantineInv, NEW r \in Read, Calls(r)
    PROVE  QuarantineInv'
PROOF
<1> DEFINE k == reads[r]
<1>1. k \in ReadType /\ ReadOK(k)
    BY DEF QuarantineInv
<1>2. ASSUME NEW result \in Answers, k.work # "none", reads' = [reads EXCEPT ![r] = Settled(k, result)]
      PROVE  QuarantineInv'
    <2>1. ReadMove(r, Settled(k, result))
        BY <1>1, <1>2, SettledOK DEF ReadMove
    <2> QED
        BY <2>1, ReadMoves
<1>3. CASE CallFails(r)
    <2> DEFINE result == IF Open(k) THEN "unavailable" ELSE "none"
    <2>1. result \in Answers /\ k.work # "none" /\ reads' = [reads EXCEPT ![r] = Settled(k, result)]
        BY <1>3 DEF CallFails, Becomes, Answers, InFlight
    <2> HIDE DEF result, k
    <2> QED
        BY <1>2, <2>1
<1>4. CASE AdminConnects(r)
    <2> DEFINE m == [k EXCEPT !.work = "offsets"]
    <2>1. /\ m \in ReadType /\ m.stage = k.stage /\ m.pass = k.pass /\ m.consumer = k.consumer /\ m.run = k.run
          /\ m.outlived = k.outlived /\ m.groupInUse = k.groupInUse /\ m.group = k.group /\ m.pc = k.pc /\ m.work = "offsets"
        BY <1>1 DEF ReadType, Works
    <2>2. k.stage = "none" /\ reads' = [reads EXCEPT ![r] = m]
        BY <1>4 DEF AdminConnects, Becomes, Open
    <2> HIDE DEF m, k
    <2>3. ReadOK(m)
        BY <1>1, <2>1, <2>2 DEF ReadOK
    <2>4. ReadMove(r, m)
        BY <2>1, <2>2, <2>3 DEF ReadMove
    <2> QED
        BY <2>4, ReadMoves
<1>5. CASE OffsetsArrive(r)
    <2>1. k.stage = "none" /\ k.work # "none"
        BY <1>5 DEF OffsetsArrive, Open
    <2>2. CASE reads' = [reads EXCEPT ![r] = Settled(k, "expired")]
        BY <1>2, <2>1, <2>2 DEF Answers
    <2>3. CASE reads' = [reads EXCEPT ![r] = [k EXCEPT !.work = "consumer", !.consumer = TRUE]]
        <3> DEFINE m == [k EXCEPT !.work = "consumer", !.consumer = TRUE]
        <3>1. /\ m \in ReadType /\ m.stage = k.stage /\ m.pass = k.pass /\ m.consumer = TRUE /\ m.run = k.run
              /\ m.outlived = k.outlived /\ m.groupInUse = k.groupInUse /\ m.group = k.group /\ m.pc = k.pc
            BY <1>1 DEF ReadType, Works
        <3> HIDE DEF m, k
        <3>2. ReadOK(m)
            BY <1>1, <2>1, <3>1 DEF ReadOK
        <3>3. ReadMove(r, m)
            BY <2>3, <3>1, <3>2 DEF ReadMove, m
        <3> QED
            BY <3>3, ReadMoves
    <2> QED
        BY <1>5, <2>2, <2>3 DEF OffsetsArrive, Becomes
<1>6. CASE ConsumerConnects(r)
    <2> DEFINE a == [k EXCEPT !.work = "waiting"]
               b == [a EXCEPT !.groupInUse = TRUE]
               m == [b EXCEPT !.run = "flight"]
    <2>1. /\ a \in ReadType /\ a.stage = k.stage /\ a.pass = k.pass /\ a.consumer = k.consumer
          /\ a.outlived = k.outlived /\ a.pc = k.pc
        BY <1>1 DEF ReadType, Works
    <2>2. k.stage = "none" /\ k.work = "consumer" /\ reads' = [reads EXCEPT ![r] = m]
        BY <1>1, <1>6 DEF ConsumerConnects, Becomes, Open, ReadType
    <2>3. k.consumer
        BY <1>1, <2>2 DEF ReadOK
    <2> HIDE DEF a
    <2>4. /\ b \in ReadType /\ b.stage = k.stage /\ b.pass = k.pass /\ b.consumer = k.consumer
          /\ b.outlived = k.outlived /\ b.groupInUse = TRUE /\ b.pc = k.pc
        BY <2>1 DEF ReadType
    <2> HIDE DEF b
    <2>5. /\ m \in ReadType /\ m.stage = k.stage /\ m.pass = k.pass /\ m.consumer = k.consumer /\ m.run = "flight"
          /\ m.outlived = k.outlived /\ m.groupInUse = TRUE /\ m.pc = k.pc
        BY <2>4 DEF ReadType
    <2> HIDE DEF m, k
    <2>6. ReadOK(m)
        BY <1>1, <2>2, <2>3, <2>5 DEF ReadOK
    <2>7. ReadMove(r, m)
        BY <2>2, <2>5, <2>6 DEF ReadMove
    <2> QED
        BY <2>7, ReadMoves
<1>7. CASE Joins(r)
    <2> DEFINE a == [k EXCEPT !.run = "settled"]
               m == [a EXCEPT !.group = "member"]
    <2>1. /\ a \in ReadType /\ a.stage = k.stage /\ a.pass = k.pass /\ a.consumer = k.consumer /\ a.run = "settled"
          /\ a.outlived = k.outlived /\ a.groupInUse = k.groupInUse /\ a.pc = k.pc /\ a.work = k.work
        BY <1>1 DEF ReadType
    <2>2. k.run = "flight" /\ reads' = [reads EXCEPT ![r] = m]
        BY <1>1, <1>7 DEF Joins, Becomes, ReadType
    <2> HIDE DEF a
    <2>3. /\ m \in ReadType /\ m.stage = k.stage /\ m.pass = k.pass /\ m.consumer = k.consumer /\ m.run = "settled"
          /\ m.outlived = k.outlived /\ m.groupInUse = k.groupInUse /\ m.pc = k.pc /\ m.work = k.work
        BY <2>1 DEF ReadType
    <2> HIDE DEF m, k
    <2>4. ReadOK(m)
        BY <1>1, <2>2, <2>3 DEF ReadOK, InFlight
    <2>5. ReadMove(r, m)
        BY <2>2, <2>3, <2>4 DEF ReadMove
    <2> QED
        BY <2>5, ReadMoves
<1>8. CASE JoinFails(r)
    <2> DEFINE m == [k EXCEPT !.run = "settled"]
    <2>1. k.run = "flight" /\ reads' = [reads EXCEPT ![r] = IF m.work = "waiting" THEN Settled(m, "unavailable") ELSE m]
        BY <1>8 DEF JoinFails, Becomes
    <2>2. /\ m \in ReadType /\ m.stage = k.stage /\ m.pass = k.pass /\ m.consumer = k.consumer /\ m.run = "settled"
          /\ m.outlived = k.outlived /\ m.groupInUse = k.groupInUse /\ m.group = k.group /\ m.pc = k.pc /\ m.work = k.work
        BY <1>1 DEF ReadType
    <2> HIDE DEF m, k
    <2>3. ReadOK(m)
        BY <1>1, <2>1, <2>2 DEF ReadOK, InFlight
    <2>4. CASE m.work = "waiting"
        <3>1. "unavailable" \in Answers /\ m.work # "none"
            BY <2>4 DEF Answers
        <3>2. ReadMove(r, Settled(m, "unavailable"))
            BY <2>1, <2>2, <2>3, <2>4, <3>1, SettledOK DEF ReadMove
        <3> QED
            BY <3>2, ReadMoves
    <2>5. CASE m.work # "waiting"
        <3>1. ReadMove(r, m)
            BY <2>1, <2>2, <2>3, <2>5 DEF ReadMove
        <3> QED
            BY <3>1, ReadMoves
    <2> QED
        BY <2>4, <2>5
<1>9. CASE MessageArrives(r)
    <2>1. PICK p \in Partition : reads' = [reads EXCEPT ![r] = Settled(k, Verdict(r, p))]
        BY <1>9 DEF MessageArrives, Becomes
    <2>2. Verdict(r, p) \in Answers /\ k.work # "none"
        BY <1>9 DEF MessageArrives, Verdict, Answers
    <2> QED
        BY <1>2, <2>1, <2>2
<1>10. CASE SessionExpires(r)
    <2> DEFINE m == [k EXCEPT !.group = "empty"]
    <2>1. /\ m \in ReadType /\ m.stage = k.stage /\ m.pass = k.pass /\ m.consumer = k.consumer /\ m.run = k.run
          /\ m.outlived = k.outlived /\ m.groupInUse = k.groupInUse /\ m.pc = k.pc /\ m.work = k.work
        BY <1>1 DEF ReadType
    <2>2. k.group = "member" /\ k.stage \in {"delete", "sweep"} /\ reads' = [reads EXCEPT ![r] = m]
        BY <1>10 DEF SessionExpires, Becomes
    <2> HIDE DEF m, k
    <2>3. ReadOK(m)
        BY <1>1, <2>1, <2>2 DEF ReadOK, InFlight
    <2>4. ReadMove(r, m)
        BY <2>1, <2>2, <2>3 DEF ReadMove
    <2> QED
        BY <2>4, ReadMoves
<1> QED
    BY <1>3, <1>4, <1>5, <1>6, <1>7, <1>8, <1>9, <1>10 DEF Calls

\* close, in both of its passes.
LEMMA ClosesKeep ==
    ASSUME QuarantineInv, NEW r \in Read, Closes(r)
    PROVE  QuarantineInv'
PROOF
<1> DEFINE k == reads[r]
<1>1. k \in ReadType /\ ReadOK(k)
    BY DEF QuarantineInv
<1>2. ASSUME NEW m \in ReadType, ReadOK(m), m.stage \in {"leave", "delete"},
             ~m.outlived /\ m.pass = 2 => m.group = "absent" \/ m.warned,
             reads' = [reads EXCEPT ![r] = Closed(m)]
      PROVE  QuarantineInv'
    <2>1. ReadMove(r, Closed(m))
        BY <1>2, ClosedOK DEF ReadMove
    <2> QED
        BY <2>1, ReadMoves
<1>3. CASE Settles(r)
    <2> DEFINE outlived == k.outlived \/ k.run = "flight"
               a == [k EXCEPT !.stage = "leave"]
               m == [a EXCEPT !.outlived = outlived]
    <2>1. /\ a \in ReadType /\ a.stage = "leave" /\ a.pass = k.pass /\ a.consumer = k.consumer /\ a.run = k.run
          /\ a.groupInUse = k.groupInUse /\ a.group = k.group /\ a.pc = k.pc /\ a.work = k.work
        BY <1>1 DEF ReadType, Stages
    <2>2. k.stage = "settle" /\ reads' = [reads EXCEPT ![r] = m]
        BY <1>1, <1>3 DEF Settles, Becomes, ReadType
    <2>3. outlived \in BOOLEAN /\ (~outlived => ~k.outlived /\ k.run # "flight")
        BY <1>1 DEF ReadType
    <2> HIDE DEF a, outlived
    <2>4. /\ m \in ReadType /\ m.stage = "leave" /\ m.pass = k.pass /\ m.consumer = k.consumer /\ m.run = k.run
          /\ m.outlived = outlived /\ m.groupInUse = k.groupInUse /\ m.group = k.group /\ m.pc = k.pc /\ m.work = k.work
        BY <2>1, <2>3 DEF ReadType
    <2> HIDE DEF m, k
    <2>5. ReadOK(m)
        BY <1>1, <2>2, <2>3, <2>4 DEF ReadOK, InFlight
    <2>6. ReadMove(r, m)
        BY <2>2, <2>4, <2>5 DEF ReadMove
    <2> QED
        BY <2>6, ReadMoves
<1>4. CASE Leaves(r)
    <2>1. k.stage = "leave"
        BY <1>4 DEF Leaves
    <2>2. PICK group \in {k.group, IF k.group = "member" THEN "empty" ELSE k.group} :
             LET departed == [k EXCEPT !.group = group]
             IN  reads' = [reads EXCEPT ![r] = IF departed.groupInUse THEN [departed EXCEPT !.stage = "delete"] ELSE Closed(departed)]
        BY <1>4 DEF Leaves, Becomes
    <2> DEFINE departed == [k EXCEPT !.group = group]
               m == [departed EXCEPT !.stage = "delete"]
    <2>3. reads' = [reads EXCEPT ![r] = IF departed.groupInUse THEN m ELSE Closed(departed)]
        BY <2>2
    <2>4. group \in {"absent", "member", "empty"} /\ (k.group = "absent" => group = "absent")
        BY <1>1 DEF ReadType
    <2>5. /\ departed \in ReadType /\ departed.stage = k.stage /\ departed.pass = k.pass /\ departed.consumer = k.consumer /\ departed.run = k.run
          /\ departed.outlived = k.outlived /\ departed.groupInUse = k.groupInUse /\ departed.group = group /\ departed.pc = k.pc /\ departed.work = k.work
        BY <1>1, <2>4 DEF ReadType
    <2> HIDE DEF departed, k
    <2>6. ReadOK(departed)
        BY <1>1, <2>1, <2>4, <2>5 DEF ReadOK, InFlight
    <2>7. CASE departed.groupInUse
        <3>1. /\ m \in ReadType /\ m.stage = "delete" /\ m.pass = departed.pass /\ m.consumer = departed.consumer /\ m.run = departed.run
              /\ m.outlived = departed.outlived /\ m.groupInUse = departed.groupInUse /\ m.group = departed.group /\ m.pc = departed.pc
              /\ m.work = departed.work
            BY <2>5 DEF ReadType, Stages
        <3>2. reads' = [reads EXCEPT ![r] = m]
            BY <2>3, <2>7
        <3> HIDE DEF m
        <3>3. ReadOK(m)
            BY <2>1, <2>5, <2>6, <3>1 DEF ReadOK, InFlight
        <3>4. ReadMove(r, m)
            BY <3>1, <3>2, <3>3 DEF ReadMove
        <3> QED
            BY <3>4, ReadMoves
    <2>8. CASE ~departed.groupInUse
        <3>1. ~departed.outlived => departed.group = "absent"
            BY <2>1, <2>5, <2>6, <2>8 DEF ReadOK
        <3>2. reads' = [reads EXCEPT ![r] = Closed(departed)]
            BY <2>3, <2>8
        <3> QED
            BY <1>2, <2>1, <2>5, <2>6, <3>1, <3>2
    <2> QED
        BY <2>7, <2>8
<1>5. CASE Deletes(r)
    <2>1. k.stage = "delete"
        BY <1>5 DEF Deletes
    <2>2. CASE reads' = [reads EXCEPT ![r] = Closed([k EXCEPT !.group = "absent", !.groupInUse = FALSE])]
        <3> DEFINE m == [k EXCEPT !.group = "absent", !.groupInUse = FALSE]
        <3>1. /\ m \in ReadType /\ m.stage = k.stage /\ m.pass = k.pass /\ m.consumer = k.consumer /\ m.run = k.run
              /\ m.outlived = k.outlived /\ m.groupInUse = FALSE /\ m.group = "absent" /\ m.pc = k.pc /\ m.work = k.work
            BY <1>1 DEF ReadType
        <3>2. reads' = [reads EXCEPT ![r] = Closed(m)]
            BY <2>2
        <3> HIDE DEF m, k
        <3>3. ReadOK(m)
            BY <1>1, <2>1, <3>1 DEF ReadOK, InFlight
        <3> QED
            BY <1>2, <2>1, <3>1, <3>2, <3>3
    <2>3. CASE reads' = [reads EXCEPT ![r] = Closed([k EXCEPT !.warned = TRUE])]
        <3> DEFINE m == [k EXCEPT !.warned = TRUE]
        <3>1. /\ m \in ReadType /\ m.stage = k.stage /\ m.pass = k.pass /\ m.consumer = k.consumer /\ m.run = k.run
              /\ m.outlived = k.outlived /\ m.groupInUse = k.groupInUse /\ m.group = k.group /\ m.pc = k.pc
              /\ m.work = k.work /\ m.warned = TRUE
            BY <1>1 DEF ReadType
        <3>2. reads' = [reads EXCEPT ![r] = Closed(m)]
            BY <2>3
        <3> HIDE DEF m, k
        <3>3. ReadOK(m)
            BY <1>1, <2>1, <3>1 DEF ReadOK, InFlight
        <3> QED
            BY <1>2, <2>1, <3>1, <3>2, <3>3
    <2> QED
        BY <1>5, <2>2, <2>3 DEF Deletes, Becomes
<1>6. CASE GraceEnds(r)
    <2> DEFINE result == IF k.pc = "finished" THEN k.result ELSE k.answer
               a == [k EXCEPT !.free = TRUE, !.pc = "answered"]
               b == [a EXCEPT !.result = "none"]
               m == [b EXCEPT !.answer = result]
    <2>1. k.stage = "sweep" /\ reads' = [reads EXCEPT ![r] = Freed(k)]
        BY <1>6 DEF GraceEnds, Becomes
    <2>2. Freed(k) = m
        BY <1>1 DEF Freed, ReadType
    <2>3. result \in Answers
        BY <1>1 DEF ReadType
    <2>4. /\ a \in ReadType /\ a.stage = k.stage /\ a.pass = k.pass /\ a.consumer = k.consumer /\ a.run = k.run
          /\ a.outlived = k.outlived /\ a.groupInUse = k.groupInUse /\ a.group = k.group /\ a.pc = "answered" /\ a.work = k.work
        BY <1>1 DEF ReadType
    <2> HIDE DEF a, result
    <2>5. /\ b \in ReadType /\ b.stage = k.stage /\ b.pass = k.pass /\ b.consumer = k.consumer /\ b.run = k.run
          /\ b.outlived = k.outlived /\ b.groupInUse = k.groupInUse /\ b.group = k.group /\ b.pc = "answered" /\ b.work = k.work
        BY <2>4 DEF ReadType, Answers
    <2> HIDE DEF b
    <2>6. /\ m \in ReadType /\ m.stage = k.stage /\ m.pass = k.pass /\ m.consumer = k.consumer /\ m.run = k.run
          /\ m.outlived = k.outlived /\ m.groupInUse = k.groupInUse /\ m.group = k.group /\ m.pc = "answered" /\ m.work = k.work
        BY <2>3, <2>5 DEF ReadType
    <2> HIDE DEF m, k
    <2>7. ReadOK(m)
        BY <1>1, <2>1, <2>6 DEF ReadOK, InFlight
    <2>8. ReadMove(r, m)
        BY <2>1, <2>2, <2>6, <2>7 DEF ReadMove
    <2> QED
        BY <2>8, ReadMoves
<1>7. CASE Sweeps(r)
    <2> DEFINE outlived == k.outlived \/ InFlight(k)
               a == [k EXCEPT !.pass = 2]
               m == [a EXCEPT !.outlived = outlived]
    <2>1. k.stage = "sweep" /\ reads' = [reads EXCEPT ![r] = CloseBegins(m)]
        BY <1>1, <1>7 DEF Sweeps, Becomes, ReadType
    <2>2. outlived \in BOOLEAN /\ (~outlived => ~k.outlived /\ ~InFlight(k))
        BY <1>1 DEF ReadType, InFlight
    <2>3. /\ a \in ReadType /\ a.stage = k.stage /\ a.pass = 2 /\ a.consumer = k.consumer /\ a.run = k.run
          /\ a.groupInUse = k.groupInUse /\ a.group = k.group /\ a.pc = k.pc /\ a.work = k.work
        BY <1>1 DEF ReadType
    <2> HIDE DEF a, outlived
    <2>4. /\ m \in ReadType /\ m.stage = k.stage /\ m.pass = 2 /\ m.consumer = k.consumer /\ m.run = k.run
          /\ m.outlived = outlived /\ m.groupInUse = k.groupInUse /\ m.group = k.group /\ m.pc = k.pc /\ m.work = k.work
        BY <2>2, <2>3 DEF ReadType
    <2> HIDE DEF m, k
    <2>5. ReadOK(m) /\ (InFlight(m) => m.outlived)
        BY <1>1, <2>1, <2>2, <2>4 DEF ReadOK, InFlight
    <2>6. m.pc \in {"finished", "answered"}
        BY <1>1, <2>1, <2>4 DEF ReadOK, ReadType
    <2>7. ReadMove(r, CloseBegins(m))
        BY <2>1, <2>4, <2>5, <2>6, CloseBeginsOK DEF ReadMove
    <2> QED
        BY <2>7, ReadMoves
<1> QED
    BY <1>3, <1>4, <1>5, <1>6, <1>7 DEF Closes

\* stop: the reads in progress are closed, and those that wait answered.
LEMMA StopKeeps ==
    ASSUME QuarantineInv, Stop
    PROVE  QuarantineInv'
PROOF
<1> DEFINE OnStop(k) ==
        CASE k.pc = "running" -> CloseBegins(Unavailable(k))
          [] k.pc = "queued" -> [Unavailable(k) EXCEPT !.free = TRUE]
          [] OTHER -> k
<1>1. ASSUME NEW k \in ReadType, ReadOK(k)
      PROVE  OnStop(k) \in ReadType /\ ReadOK(OnStop(k))
    <2> DEFINE u == Unavailable(k)
               m == [u EXCEPT !.free = TRUE]
    <2>1. u \in ReadType /\ ReadOK(u) /\ u.pc = "answered" /\ u.stage = k.stage
        BY <1>1, UnavailableOK
    <2> HIDE DEF u
    <2>2. CASE k.pc = "running"
        <3>1. OnStop(k) = CloseBegins(u)
            BY <2>2 DEF u
        <3>2. u.stage = "none"
            BY <1>1, <2>1, <2>2 DEF ReadOK
        <3> HIDE DEF OnStop
        <3> QED
            BY <2>1, <3>1, <3>2, CloseBeginsOK
    <2>3. CASE k.pc = "queued"
        <3>1. OnStop(k) = m
            BY <2>3 DEF u
        <3>2. /\ m \in ReadType /\ m.stage = u.stage /\ m.pass = u.pass /\ m.consumer = u.consumer /\ m.run = u.run
              /\ m.outlived = u.outlived /\ m.groupInUse = u.groupInUse /\ m.group = u.group /\ m.work = u.work
              /\ m.leaks = u.leaks /\ m.warned = u.warned /\ m.pc = u.pc
            BY <2>1 DEF ReadType
        <3> HIDE DEF m, OnStop
        <3>3. ReadOK(m)
            BY <2>1, <3>2 DEF ReadOK, InFlight
        <3> QED
            BY <3>1, <3>2, <3>3
    <2>4. CASE k.pc \notin {"running", "queued"}
        <3>1. OnStop(k) = k
            BY <2>4
        <3> HIDE DEF OnStop
        <3> QED
            BY <1>1, <3>1
    <2> QED
        BY <2>2, <2>3, <2>4
<1>2. reads' = [r \in Read |-> OnStop(reads[r])]
    BY DEF Stop
<1> HIDE DEF OnStop
<1>3. ASSUME NEW r \in Read
      PROVE  reads'[r] \in ReadType /\ ReadOK(reads'[r])
    BY <1>1, <1>2, <1>3 DEF QuarantineInv
<1>4. reads' \in [Read -> ReadType]
    BY <1>2, <1>3
<1> HIDE DEF QuarantineInv
<1> QED
    BY <1>3, <1>4 DEF QuarantineInv, ReadOK, InFlight

(* KafkaQuarantineReader: whatever a read was cut off in, when it is let go *)
(* its group is deleted or the operator was warned, and no call of it will *)
(* open a connection again, unless a close gave up on a call in flight.    *)
THEOREM ReadsLeaveNothing == EdgeSpec => []ReadLeavesNothing
PROOF
<1>1. EdgeInit => QuarantineInv
    <2>1. NoRead \in ReadType /\ ReadOK(NoRead)
        BY DEF NoRead, ReadType, ReadOK, Answers, Works, Stages
    <2> QED
        BY <2>1 DEF EdgeInit, QuarantineInit, QuarantineInv
<1>2. QuarantineInv /\ [EdgeNext]_edgeVars => QuarantineInv'
    <2>1. ASSUME QuarantineInv, UNCHANGED reads
          PROVE  QuarantineInv'
        BY <2>1 DEF QuarantineInv, ReadOK, InFlight
    <2>2. ASSUME QuarantineInv, QuarantineNext
          PROVE  QuarantineInv'
        BY <2>1, <2>2, ReadsKeep, CallsKeep, ClosesKeep, StopKeeps DEF QuarantineNext, Expires, StopReturns
    <2> QED
        BY <2>1, <2>2 DEF EdgeNext, edgeVars, quarantineVars, InQuarantine, InHook, InTraces, InManagement, InOptions, InCommands
<1>3. QuarantineInv => ReadLeavesNothing
    BY DEF QuarantineInv, ReadOK, ReadLeavesNothing
<1> QED
    BY <1>1, <1>2, <1>3, PTL DEF EdgeSpec

-----------------------------------------------------------------------------
(* The React hook.                                                         *)

\* What OwnerMount takes when the model has no client left is a client like any other here.
Clients == Client \cup {NoClient, CHOOSE c \in {} : TRUE}
Keys == Key \cup {NoKey}
Origins == Origin \cup {CHOOSE o \in Origin : TRUE}
States == {"idle", "opening", "live", "stale", "ended", "unsubscribed"}

PropsType == [mounted : BOOLEAN, origin : Origins, key : Keys, client : Clients]
SubType == [client : Clients, key : Keys, state : States]
ViewType == [client : Clients, key : Keys, state : States, sub : Nat]
TreeType ==
    [client : [Client -> {"none", "open", "closed"}], made : Clients, owned : Clients, ownerDeps : Seq(Origins),
     subs : Seq(SubType), current : Nat, hookDeps : Seq(Clients \cup Keys), view : ViewType]

ViewOf(n, s) == [client |-> s.client, key |-> s.key, state |-> s.state, sub |-> n]

\* The view is that of the subscription the effect holds, as it is now; without one it is idle.
Mirrors(t) ==
    /\ t.current = 0 => t.view = IDLE_VIEW
    /\ t.current # 0 =>
          /\ t.current \in DOMAIN t.subs
          /\ t.subs[t.current].state # "unsubscribed"
          /\ t.view = ViewOf(t.current, t.subs[t.current])

TreeOK(t) == t \in TreeType /\ Mirrors(t) /\ (t.hookDeps = Unset => t.current = 0)

HookInv == TreeOK(tree) /\ props \in PropsType /\ commit \in PropsType

\* A subscription of which only the state changes.
Stated(u, state) == [u EXCEPT !.state = state]

LEMMA StatedTyped ==
    ASSUME NEW u \in SubType, NEW state \in States
    PROVE  /\ Stated(u, state) \in SubType
           /\ Stated(u, state).client = u.client /\ Stated(u, state).key = u.key /\ Stated(u, state).state = state
PROOF
    BY DEF Stated, SubType

\* One subscription of a tree changes its state.
Restated(t, n, state) == [t EXCEPT !.subs = [t.subs EXCEPT ![n] = Stated(t.subs[n], state)]]

LEMMA ReplacedIn ==
    ASSUME NEW S, NEW q \in Seq(S), NEW n \in DOMAIN q, NEW u \in S
    PROVE  [q EXCEPT ![n] = u] \in Seq(S)
PROOF
    OBVIOUS

LEMMA RestatedTyped ==
    ASSUME NEW t \in TreeType, NEW n \in DOMAIN t.subs, NEW state \in States
    PROVE  LET m == Restated(t, n, state) IN
           /\ m \in TreeType /\ m.current = t.current /\ m.view = t.view /\ m.hookDeps = t.hookDeps
           /\ m.client = t.client /\ m.made = t.made
           /\ m.subs = [t.subs EXCEPT ![n] = Stated(t.subs[n], state)]
PROOF
<1> DEFINE subs == [t.subs EXCEPT ![n] = Stated(t.subs[n], state)]
           m == [t EXCEPT !.subs = subs]
<1>1. t.subs \in Seq(SubType)
    BY DEF TreeType
<1>2. t.subs[n] \in SubType
    <2> HIDE DEF SubType
    <2> QED
        BY <1>1
<1>3. Stated(t.subs[n], state) \in SubType
    BY <1>2, StatedTyped
<1>4. subs \in Seq(SubType)
    <2> DEFINE u == Stated(t.subs[n], state)
               q == t.subs
    <2>1. u \in SubType /\ q \in Seq(SubType) /\ n \in DOMAIN q
        BY <1>1, <1>3
    <2> HIDE DEF u, q, SubType
    <2>2. [q EXCEPT ![n] = u] \in Seq(SubType)
        BY <2>1, ReplacedIn
    <2> QED
        BY <2>2 DEF u, q
<1> HIDE DEF subs
<1>5. /\ m \in TreeType /\ m.current = t.current /\ m.view = t.view /\ m.hookDeps = t.hookDeps
      /\ m.client = t.client /\ m.made = t.made /\ m.subs = subs
    BY <1>4 DEF TreeType
<1>6. Restated(t, n, state) = m
    BY DEF Restated, subs
<1> HIDE DEF m
<1> QED
    BY <1>5, <1>6 DEF subs

LEMMA ViewTyped ==
    ASSUME NEW n \in Nat, NEW u \in SubType
    PROVE  /\ ViewOf(n, u) \in ViewType /\ ViewOf(n, u).client = u.client /\ ViewOf(n, u).key = u.key
           /\ ViewOf(n, u).state = u.state /\ ViewOf(n, u).sub = n
PROOF
    BY DEF ViewOf, ViewType, SubType

LEMMA IdleTyped == IDLE_VIEW \in ViewType
PROOF
    BY DEF IDLE_VIEW, ViewType, Clients, Keys, States

\* The effect's cleanup: it gives its subscription up and empties the view.
LEMMA HookCleanupOK ==
    ASSUME NEW t, TreeOK(t)
    PROVE  TreeOK(HookCleanup(t)) /\ HookCleanup(t).current = 0
PROOF
<1> DEFINE n == t.current
           m == HookCleanup(t)
<1>1. t \in TreeType /\ Mirrors(t) /\ (t.hookDeps = Unset => n = 0)
    BY DEF TreeOK
<1>2. CASE n = 0
    <2>1. m = t
        BY <1>2 DEF HookCleanup
    <2> HIDE DEF m
    <2> QED
        BY <1>2, <2>1 DEF m
<1>3. CASE n # 0
    <2> DEFINE u == t.subs[n]
               state == IF u.state = "ended" THEN u.state ELSE "unsubscribed"
               a == Restated(t, n, state)
               b == [a EXCEPT !.current = 0]
               c == [b EXCEPT !.view = IDLE_VIEW]
    <2>1. n \in DOMAIN t.subs /\ t.view = ViewOf(n, u)
        BY <1>1, <1>3 DEF Mirrors
    <2>2. u \in SubType /\ n \in Nat
        <3>1. t.subs \in Seq(SubType) /\ n \in Nat
            BY <1>1 DEF TreeType
        <3> HIDE DEF SubType
        <3> QED
            BY <2>1, <3>1
    <2>3. state \in States
        BY <2>2 DEF SubType, States
    <2>4. /\ a \in TreeType /\ a.view = t.view /\ a.hookDeps = t.hookDeps
          /\ a.subs = [t.subs EXCEPT ![n] = Stated(u, state)]
        <3> HIDE DEF a, state, n
        <3> QED
            BY <1>1, <2>1, <2>3, RestatedTyped DEF a
    <2>5. HookCleanup(t) = ForgetView(b, n)
        <3>1. HookCleanup(t) = ForgetView([t EXCEPT !.current = 0,
                                                    !.subs[n].state = IF @ = "ended" THEN @ ELSE "unsubscribed"], n)
            BY <1>3 DEF HookCleanup
        <3>2. [t EXCEPT !.current = 0, !.subs[n].state = IF @ = "ended" THEN @ ELSE "unsubscribed"] = b
            <4>1. [t EXCEPT !.current = 0, !.subs[n].state = IF @ = "ended" THEN @ ELSE "unsubscribed"]
                  = [t EXCEPT !.current = 0, !.subs[n].state = state]
                OBVIOUS
            <4> HIDE DEF state, n
            <4>2. [t EXCEPT !.current = 0, !.subs[n].state = state] = b
                BY <1>1 DEF TreeType, Restated, Stated
            <4> QED
                BY <4>1, <4>2 DEF state, n
        <3> QED
            BY <3>1, <3>2
    <2> HIDE DEF a
    <2>6. b \in TreeType /\ b.view = t.view /\ b.hookDeps = t.hookDeps /\ b.current = 0 /\ b.subs = a.subs
        BY <2>4 DEF TreeType
    <2>7. b.subs[n].client = u.client /\ b.subs[n].key = u.key
        <3> HIDE DEF b, u, state, n
        <3>1. b.subs[n] = Stated(u, state)
            BY <2>1, <2>4, <2>6
        <3> QED
            BY <2>2, <2>3, <3>1, StatedTyped
    <2> HIDE DEF b
    <2>8. HookCleanup(t) = c
        <3>1. b.view.client = b.subs[n].client /\ b.view.key = b.subs[n].key
            <4> HIDE DEF u, n
            <4> QED
                BY <2>1, <2>2, <2>6, <2>7, ViewTyped
        <3> QED
            BY <2>5, <3>1 DEF ForgetView
    <2>9. c \in TreeType /\ c.view = IDLE_VIEW /\ c.current = 0
        <3> DEFINE v == IDLE_VIEW
        <3>1. v \in ViewType
            BY IdleTyped
        <3> HIDE DEF v, ViewType
        <3>2. [b EXCEPT !.view = v] \in TreeType /\ [b EXCEPT !.view = v].view = v /\ [b EXCEPT !.view = v].current = 0
            BY <2>6, <3>1 DEF TreeType
        <3> QED
            BY <3>2 DEF v
    <2> HIDE DEF c
    <2> QED
        BY <2>8, <2>9 DEF TreeOK, Mirrors
<1> QED
    BY <1>2, <1>3

\* The effect of a commit: it subscribes to what the commit names, if it can.
LEMMA HookMountOK ==
    ASSUME NEW t, TreeOK(t), t.current = 0, commit \in PropsType
    PROVE  TreeOK(HookMount(t))
PROOF
<1> DEFINE ran == [t EXCEPT !.hookDeps = Deps]
           n == Len(t.subs) + 1
           u == [client |-> commit.client, key |-> commit.key, state |-> "opening"]
           v == ViewOf(n, u)
           subs == Append(t.subs, u)
<1>1. t \in TreeType /\ t.view = IDLE_VIEW
    BY DEF TreeOK, Mirrors
<1>2. Deps \in Seq(Clients \cup Keys) /\ Deps # Unset
    BY DEF Deps, PropsType, Unset
<1>3. ran \in TreeType /\ ran.hookDeps # Unset /\ ran.current = 0 /\ ran.view = IDLE_VIEW /\ ran.subs = t.subs
    <2> HIDE DEF Deps
    <2> QED
        BY <1>1, <1>2 DEF TreeType
<1>4. u \in SubType
    BY DEF SubType, States, PropsType
<1>5. t.subs \in Seq(SubType) /\ n \in Nat /\ n # 0
    BY <1>1 DEF TreeType
<1>6. subs \in Seq(SubType) /\ n \in DOMAIN subs /\ subs[n] = u
    <2> HIDE DEF u, SubType
    <2> QED
        BY <1>4, <1>5
<1>7. v \in ViewType
    <2> HIDE DEF u, n
    <2> QED
        BY <1>4, <1>5, ViewTyped
<1>8. \/ HookMount(t) = ran
      \/ HookMount(t) = [ran EXCEPT !.current = n, !.subs = subs, !.view = v]
    <2>1. \/ HookMount(t) = ran
          \/ HookMount(t) = [ran EXCEPT !.current = n, !.subs = Append(@, u),
                                        !.view = [client |-> commit.client, key |-> commit.key, state |-> "opening", sub |-> n]]
        BY DEF HookMount
    <2>2. v = [client |-> commit.client, key |-> commit.key, state |-> "opening", sub |-> n]
        BY DEF ViewOf
    <2> HIDE DEF ran, u, n, v
    <2> QED
        BY <1>3, <2>1, <2>2
<1>9. u.state = "opening"
    OBVIOUS
<1>10. CASE HookMount(t) = ran
    <2> HIDE DEF ran
    <2> QED
        BY <1>3, <1>10 DEF TreeOK, Mirrors
<1>11. CASE HookMount(t) = [ran EXCEPT !.current = n, !.subs = subs, !.view = v]
    <2> DEFINE a == [ran EXCEPT !.current = n]
               b == [a EXCEPT !.subs = subs]
               m == [b EXCEPT !.view = v]
    <2> HIDE DEF ran, u, n, v, subs
    <2>1. HookMount(t) = m
        BY <1>3, <1>11 DEF TreeType
    <2>2. a \in TreeType /\ a.hookDeps = ran.hookDeps /\ a.current = n
        BY <1>3, <1>5 DEF TreeType
    <2> HIDE DEF a
    <2>3. b \in TreeType /\ b.hookDeps = ran.hookDeps /\ b.current = n /\ b.subs = subs
        BY <2>2, <1>6 DEF TreeType
    <2> HIDE DEF b
    <2>4. m \in TreeType /\ m.hookDeps = ran.hookDeps /\ m.current = n /\ m.subs = subs /\ m.view = v
        BY <2>3, <1>7 DEF TreeType
    <2> HIDE DEF m
    <2>5. Mirrors(m)
        BY <1>5, <1>6, <1>9, <2>4 DEF Mirrors, v
    <2> QED
        BY <1>3, <2>1, <2>4, <2>5 DEF TreeOK
<1> HIDE DEF ran, u, n, v, subs
<1> QED
    BY <1>8, <1>10, <1>11

\* A client is closed: its subscriptions end, the one on show too.
LEMMA CloseClientOK ==
    ASSUME NEW t, TreeOK(t), NEW c
    PROVE  /\ TreeOK(CloseClient(t, c))
           /\ CloseClient(t, c).current = t.current /\ CloseClient(t, c).hookDeps = t.hookDeps
PROOF
<1> DEFINE Hears(n) == t.subs[n].client = c /\ ~Ended(t.subs[n])
           cur == t.current
           told == cur # 0 /\ Hears(cur)
           client == [t.client EXCEPT ![c] = "closed"]
           subs == [n \in DOMAIN t.subs |-> IF Hears(n) THEN Stated(t.subs[n], "ended") ELSE t.subs[n]]
           shown == IF told THEN [t.view EXCEPT !.state = "ended", !.sub = cur] ELSE t.view
           m == CloseClient(t, c)
<1>1. t \in TreeType /\ Mirrors(t) /\ (t.hookDeps = Unset => cur = 0)
    BY DEF TreeOK
<1>2. m = [t EXCEPT !.client = client, !.subs = subs, !.view = shown]
    BY <1>1 DEF CloseClient, Stated, TreeType
<1>3. client \in [Client -> {"none", "open", "closed"}]
    BY <1>1 DEF TreeType
<1>4. \A n \in DOMAIN t.subs : t.subs[n] \in SubType
    <2>1. t.subs \in Seq(SubType)
        BY <1>1 DEF TreeType
    <2> HIDE DEF SubType
    <2> QED
        BY <2>1
<1>5. \A n \in DOMAIN t.subs : Stated(t.subs[n], "ended") \in SubType
    BY <1>4, StatedTyped DEF States
<1>6. subs \in Seq(SubType) /\ DOMAIN subs = DOMAIN t.subs
    <2>1. t.subs \in Seq(SubType)
        BY <1>1 DEF TreeType
    <2>2. \A n \in DOMAIN t.subs : subs[n] \in SubType
        BY <1>4, <1>5
    <2>3. subs = [n \in 1..Len(t.subs) |-> subs[n]]
        <3> HIDE DEF SubType
        <3> QED
            BY <2>1
    <2> HIDE DEF SubType, subs
    <2> QED
        BY <2>1, <2>2, <2>3
<1>7. shown \in ViewType /\ (cur = 0 => shown = IDLE_VIEW)
                        /\ (cur # 0 => /\ cur \in DOMAIN subs /\ subs[cur].state # "unsubscribed"
                                       /\ shown = ViewOf(cur, subs[cur]))
    <2>1. cur \in Nat /\ t.view \in ViewType
        BY <1>1 DEF TreeType
    <2>2. CASE cur = 0
        BY <1>1, <2>1, <2>2 DEF Mirrors
    <2>3. CASE cur # 0
        <3> DEFINE u == t.subs[cur]
        <3>1. cur \in DOMAIN t.subs /\ u.state # "unsubscribed" /\ t.view = ViewOf(cur, u)
            BY <1>1, <2>3 DEF Mirrors
        <3>2. u \in SubType
            BY <1>4, <3>1
        <3>3. CASE Hears(cur)
            <4> DEFINE w == Stated(u, "ended")
            <4>1. w \in SubType /\ w.client = u.client /\ w.key = u.key /\ w.state = "ended"
                BY <3>2, StatedTyped DEF States
            <4>2. subs[cur] = w
                BY <3>1, <3>3
            <4>3. shown = [ViewOf(cur, u) EXCEPT !.state = "ended", !.sub = cur]
                BY <2>3, <3>1, <3>3
            <4> HIDE DEF w, u, cur, subs
            <4>4. shown = ViewOf(cur, w)
                BY <4>1, <4>3 DEF ViewOf
            <4>5. ViewOf(cur, w) \in ViewType
                BY <2>1, <4>1, ViewTyped
            <4> HIDE DEF shown
            <4> QED
                BY <1>6, <2>3, <3>1, <4>1, <4>2, <4>4, <4>5
        <3>4. CASE ~Hears(cur)
            <4>1. shown = t.view /\ subs[cur] = u
                BY <3>1, <3>4
            <4> HIDE DEF u, cur, subs, shown
            <4> QED
                BY <1>6, <2>1, <2>3, <3>1, <4>1
        <3> QED
            BY <3>3, <3>4
    <2> QED
        BY <2>2, <2>3
<1> DEFINE a == [t EXCEPT !.client = client]
           b == [a EXCEPT !.subs = subs]
           d == [b EXCEPT !.view = shown]
<1> HIDE DEF client, subs, shown
<1>8. m = d
    BY <1>1, <1>2 DEF TreeType
<1> HIDE DEF m
<1>9. a \in TreeType /\ a.current = cur /\ a.hookDeps = t.hookDeps
    BY <1>1, <1>3 DEF TreeType
<1> HIDE DEF a
<1>10. b \in TreeType /\ b.current = cur /\ b.hookDeps = t.hookDeps /\ b.subs = subs
    BY <1>6, <1>9 DEF TreeType
<1> HIDE DEF b
<1>11. d \in TreeType /\ d.current = cur /\ d.hookDeps = t.hookDeps /\ d.subs = subs /\ d.view = shown
    BY <1>7, <1>10 DEF TreeType
<1> HIDE DEF d
<1>12. Mirrors(d)
    BY <1>7, <1>11 DEF Mirrors
<1> QED
    BY <1>1, <1>8, <1>11, <1>12 DEF TreeOK, m

\* The provider's effects touch neither the view nor what the hook subscribed to, but for
\* closing the client they made.
LEMMA OwnerCleanupOK ==
    ASSUME NEW t, TreeOK(t)
    PROVE  /\ TreeOK(OwnerCleanup(t))
           /\ OwnerCleanup(t).current = t.current /\ OwnerCleanup(t).hookDeps = t.hookDeps
PROOF
<1> DEFINE a == [t EXCEPT !.made = NoClient]
           b == [a EXCEPT !.owned = NoClient]
<1>1. t \in TreeType
    BY DEF TreeOK
<1>2. CASE t.made = NoClient
    BY <1>2 DEF OwnerCleanup
<1>3. CASE t.made # NoClient
    <2>1. OwnerCleanup(t) = CloseClient(b, t.made)
        <3>1. b = [t EXCEPT !.made = NoClient, !.owned = NoClient]
            BY <1>1 DEF TreeType
        <3> QED
            BY <1>3, <3>1 DEF OwnerCleanup
    <2>2. NoClient \in Clients
        BY DEF Clients
    <2>3. /\ a \in TreeType /\ a.current = t.current /\ a.hookDeps = t.hookDeps /\ a.view = t.view /\ a.subs = t.subs
        BY <1>1, <2>2 DEF TreeType
    <2> HIDE DEF a
    <2>4. /\ b \in TreeType /\ b.current = t.current /\ b.hookDeps = t.hookDeps /\ b.view = t.view /\ b.subs = t.subs
        BY <2>2, <2>3 DEF TreeType
    <2> HIDE DEF b
    <2>5. TreeOK(b)
        BY <2>4 DEF TreeOK, Mirrors
    <2> QED
        BY <2>1, <2>4, <2>5, CloseClientOK
<1> QED
    BY <1>2, <1>3

LEMMA OwnerMountOK ==
    ASSUME NEW t, TreeOK(t), commit \in PropsType
    PROVE  /\ TreeOK(OwnerMount(t))
           /\ OwnerMount(t).current = t.current /\ OwnerMount(t).hookDeps = t.hookDeps
PROOF
<1> DEFINE created == CHOOSE c \in Fresh(t) : TRUE
           ran == [t EXCEPT !.ownerDeps = <<commit.origin>>]
           a == [ran EXCEPT !.made = created]
           b == [a EXCEPT !.owned = created]
           opened == [t.client EXCEPT ![created] = "open"]
           m == [b EXCEPT !.client = opened]
<1>1. t \in TreeType
    BY DEF TreeOK
<1>2. created \in Clients
    <2>1. CASE Fresh(t) = {}
        BY <2>1 DEF Clients
    <2>2. CASE Fresh(t) # {}
        <3>1. created \in Fresh(t)
            BY <2>2
        <3> QED
            BY <3>1 DEF Fresh, Clients
    <2> QED
        BY <2>1, <2>2
<1>3. <<commit.origin>> \in Seq(Origins)
    BY DEF PropsType
<1>4. /\ ran \in TreeType /\ ran.current = t.current /\ ran.hookDeps = t.hookDeps /\ ran.view = t.view /\ ran.subs = t.subs
      /\ ran.client = t.client
    <2> DEFINE deps == <<commit.origin>>
    <2>1. deps \in Seq(Origins) /\ ran = [t EXCEPT !.ownerDeps = deps]
        BY <1>3
    <2> HIDE DEF deps, ran
    <2> QED
        BY <1>1, <2>1 DEF TreeType
<1>5. OwnerMount(t) = ran \/ OwnerMount(t) = m
    <2>1. \/ OwnerMount(t) = ran
          \/ OwnerMount(t) = [ran EXCEPT !.made = created, !.owned = created, !.client[created] = "open"]
        BY DEF OwnerMount
    <2> HIDE DEF ran, created
    <2>2. [ran EXCEPT !.made = created, !.owned = created, !.client[created] = "open"] = m
        BY <1>4 DEF TreeType
    <2> QED
        BY <2>1, <2>2
<1>6. opened \in [Client -> {"none", "open", "closed"}]
    <2> HIDE DEF created
    <2> QED
        BY <1>1 DEF TreeType
<1>7. TreeOK(ran)
    <2> HIDE DEF ran
    <2> QED
        BY <1>4 DEF TreeOK, Mirrors
<1>8. TreeOK(m) /\ m.current = t.current /\ m.hookDeps = t.hookDeps
    <2> HIDE DEF ran, created, opened
    <2>1. /\ a \in TreeType /\ a.current = t.current /\ a.hookDeps = t.hookDeps /\ a.view = t.view /\ a.subs = t.subs
        BY <1>2, <1>4 DEF TreeType
    <2> HIDE DEF a
    <2>2. /\ b \in TreeType /\ b.current = t.current /\ b.hookDeps = t.hookDeps /\ b.view = t.view /\ b.subs = t.subs
        BY <1>2, <2>1 DEF TreeType
    <2> HIDE DEF b
    <2>3. /\ m \in TreeType /\ m.current = t.current /\ m.hookDeps = t.hookDeps /\ m.view = t.view /\ m.subs = t.subs
        BY <1>6, <2>2 DEF TreeType
    <2> HIDE DEF m
    <2> QED
        BY <2>3 DEF TreeOK, Mirrors
<1> HIDE DEF ran, m
<1> QED
    BY <1>4, <1>5, <1>7, <1>8

\* A listener of a subscription: the view follows the one held.
LEMMA UpdateOK ==
    ASSUME NEW t, TreeOK(t), NEW n \in DOMAIN t.subs, NEW state \in {"live", "stale", "ended"}
    PROVE  TreeOK(Update(t, n, state))
PROOF
<1> DEFINE cur == t.current
           a == Restated(t, n, state)
           w == Stated(t.subs[n], state)
           shown == IF cur = n THEN [t.view EXCEPT !.state = state, !.sub = n] ELSE t.view
           m == [a EXCEPT !.view = shown]
<1>1. t \in TreeType /\ Mirrors(t) /\ (t.hookDeps = Unset => cur = 0)
    BY DEF TreeOK
<1>2. t.subs \in Seq(SubType) /\ cur \in Nat /\ n \in Nat /\ n # 0 /\ t.view \in ViewType /\ state \in States
    BY <1>1 DEF TreeType, States
<1>3. t.subs[n] \in SubType
    <2> HIDE DEF SubType
    <2> QED
        BY <1>2
<1>4. w \in SubType /\ w.client = t.subs[n].client /\ w.key = t.subs[n].key /\ w.state = state
    BY <1>2, <1>3, StatedTyped
<1>5. /\ a \in TreeType /\ a.current = cur /\ a.hookDeps = t.hookDeps /\ a.view = t.view
      /\ a.subs = [t.subs EXCEPT ![n] = w]
    <2> HIDE DEF a
    <2> QED
        BY <1>1, <1>2, RestatedTyped DEF a
<1>6. Update(t, n, state) = m
    <2>1. Update(t, n, state) = [t EXCEPT !.subs[n].state = state, !.view = shown]
        BY DEF Update
    <2> HIDE DEF shown
    <2> QED
        BY <1>1, <2>1 DEF TreeType, Restated, Stated
<1>7. /\ a.subs[n] = w /\ \A i \in DOMAIN t.subs : i \in DOMAIN a.subs /\ (i # n => a.subs[i] = t.subs[i])
    <2> HIDE DEF a, w
    <2> QED
        BY <1>2, <1>5
<1>8. shown \in ViewType /\ (cur = 0 => shown = IDLE_VIEW)
                         /\ (cur # 0 => /\ cur \in DOMAIN a.subs /\ a.subs[cur].state # "unsubscribed"
                                        /\ shown = ViewOf(cur, a.subs[cur]))
    <2>1. CASE cur = n
        <3>1. t.view = ViewOf(n, t.subs[n])
            BY <1>1, <1>2, <2>1 DEF Mirrors
        <3>2. shown = [ViewOf(n, t.subs[n]) EXCEPT !.state = state, !.sub = n]
            BY <2>1, <3>1
        <3> HIDE DEF w, shown, a, cur
        <3>3. shown = ViewOf(n, w)
            BY <1>4, <3>2 DEF ViewOf
        <3>4. ViewOf(n, w) \in ViewType
            BY <1>2, <1>4, ViewTyped
        <3> QED
            BY <1>2, <1>4, <1>7, <2>1, <3>3, <3>4
    <2>2. CASE cur # n
        <3>1. shown = t.view
            BY <2>2
        <3> HIDE DEF shown, a
        <3> QED
            BY <1>1, <1>2, <1>7, <2>2, <3>1 DEF Mirrors
    <2> QED
        BY <2>1, <2>2
<1> HIDE DEF a, shown
<1>9. m \in TreeType /\ m.current = cur /\ m.hookDeps = t.hookDeps /\ m.subs = a.subs /\ m.view = shown
    BY <1>5, <1>8 DEF TreeType
<1> HIDE DEF m
<1>10. Mirrors(m)
    BY <1>8, <1>9 DEF Mirrors
<1> QED
    BY <1>1, <1>6, <1>9, <1>10 DEF TreeOK

LEMMA CleanupsOK ==
    ASSUME NEW t, TreeOK(t), NEW hook, NEW owner
    PROVE  /\ TreeOK(Cleanups(t, hook, owner))
           /\ hook => Cleanups(t, hook, owner).current = 0
PROOF
<1> DEFINE u == IF hook THEN HookCleanup(t) ELSE t
<1>1. TreeOK(u) /\ (hook => u.current = 0)
    BY HookCleanupOK
<1>2. Cleanups(t, hook, owner) = IF owner THEN OwnerCleanup(u) ELSE u
    BY DEF Cleanups
<1> HIDE DEF u
<1> QED
    BY <1>1, <1>2, OwnerCleanupOK

LEMMA MountsOK ==
    ASSUME NEW t, TreeOK(t), NEW hook, NEW owner, hook => t.current = 0, commit \in PropsType
    PROVE  TreeOK(Mounts(t, hook, owner))
PROOF
<1> DEFINE u == IF hook THEN HookMount(t) ELSE t
<1>1. TreeOK(u)
    BY HookMountOK
<1>2. Mounts(t, hook, owner) = IF owner THEN OwnerMount(u) ELSE u
    BY DEF Mounts
<1> HIDE DEF u
<1> QED
    BY <1>1, <1>2, OwnerMountOK

LEMMA UnmountedOK ==
    ASSUME NEW t, TreeOK(t)
    PROVE  TreeOK(Unmounted(t))
PROOF
<1> DEFINE u == Cleanups(t, TRUE, TRUE)
           idle == IDLE_VIEW
           a == [u EXCEPT !.view = idle]
           none == Unset
           b == [a EXCEPT !.hookDeps = none]
           m == [b EXCEPT !.ownerDeps = none]
<1>1. u \in TreeType /\ u.current = 0
    BY CleanupsOK DEF TreeOK
<1>2. idle \in ViewType /\ none \in Seq(Origins) /\ none \in Seq(Clients \cup Keys)
    BY IdleTyped DEF Unset
<1>3. Unmounted(t) = [u EXCEPT !.view = idle, !.hookDeps = none, !.ownerDeps = none]
    BY DEF Unmounted
<1> HIDE DEF u, idle, none, ViewType
<1>4. Unmounted(t) = m
    BY <1>1, <1>3 DEF TreeType
<1>5. a \in TreeType /\ a.current = 0 /\ a.view = idle
    BY <1>1, <1>2 DEF TreeType
<1> HIDE DEF a
<1>6. b \in TreeType /\ b.current = 0 /\ b.view = idle
    BY <1>2, <1>5 DEF TreeType
<1> HIDE DEF b
<1>7. m \in TreeType /\ m.current = 0 /\ m.view = idle
    BY <1>2, <1>6 DEF TreeType
<1> HIDE DEF m
<1> QED
    BY <1>4, <1>7 DEF TreeOK, Mirrors, idle

LEMMA FlushKeeps ==
    ASSUME HookInv, Flush
    PROVE  HookInv'
PROOF
<1>1. TreeOK(tree) /\ props \in PropsType /\ commit \in PropsType /\ UNCHANGED <<props, commit>>
    BY DEF HookInv, Flush
<1>2. CASE tree' = Mounts(Cleanups(tree, HookChanged, OwnerChanged), HookChanged, OwnerChanged)
    <2> DEFINE u == Cleanups(tree, HookChanged, OwnerChanged)
    <2>1. TreeOK(u) /\ (HookChanged => u.current = 0)
        BY <1>1, CleanupsOK
    <2> HIDE DEF u
    <2>2. TreeOK(Mounts(u, HookChanged, OwnerChanged))
        BY <1>1, <2>1, MountsOK
    <2> QED
        BY <1>1, <1>2, <2>2 DEF HookInv, u
<1>3. CASE tree.hookDeps = Unset /\ tree' = Mounts(Cleanups(Mounts(tree, TRUE, TRUE), TRUE, TRUE), TRUE, TRUE)
    <2> DEFINE first == Mounts(tree, TRUE, TRUE)
               u == Cleanups(first, TRUE, TRUE)
    <2>1. TreeOK(first)
        BY <1>1, <1>3, MountsOK DEF TreeOK
    <2> HIDE DEF first
    <2>2. TreeOK(u) /\ u.current = 0
        BY <2>1, CleanupsOK
    <2> HIDE DEF u
    <2>3. TreeOK(Mounts(u, TRUE, TRUE))
        BY <1>1, <2>2, MountsOK
    <2> QED
        BY <1>1, <1>3, <2>3 DEF HookInv, u, first
<1>4. CASE tree' = Unmounted(tree)
    BY <1>1, <1>4, UnmountedOK DEF HookInv
<1> QED
    BY <1>2, <1>3, <1>4 DEF Flush

LEMMA HookStep ==
    ASSUME HookInv, HookNext
    PROVE  HookInv'
PROOF
<1>1. TreeOK(tree) /\ props \in PropsType /\ commit \in PropsType
    BY DEF HookInv
<1>2. CASE Flush
    BY <1>2, FlushKeeps
<1>3. CASE Render
    <2>1. UNCHANGED <<tree, props>> /\ commit' = Wanted
        BY <1>3 DEF Render
    <2>2. Wanted \in PropsType
        <3> DEFINE c == IF props.mounted THEN Context ELSE NoClient
        <3>1. c \in Clients
            BY <1>1 DEF Context, TreeOK, TreeType, PropsType, Clients
        <3>2. Wanted = [props EXCEPT !.client = c]
            BY DEF Wanted
        <3> HIDE DEF c
        <3> QED
            BY <1>1, <3>1, <3>2 DEF PropsType
    <2> QED
        BY <1>1, <2>1, <2>2 DEF HookInv
<1>4. CASE Provide
    <2>1. UNCHANGED <<tree, commit>>
        BY <1>4 DEF Provide
    <2>2. props' \in PropsType
        BY <1>1, <1>4, HookAssumption DEF Provide, PropsType, Origins, Keys, Clients
    <2> QED
        BY <1>1, <2>1, <2>2 DEF HookInv
<1>5. ASSUME NEW c \in Client, AppCloses(c)
      PROVE  HookInv'
    BY <1>1, <1>5, CloseClientOK DEF AppCloses, HookInv
<1>6. ASSUME NEW n \in DOMAIN tree.subs, GoesLive(n) \/ Breaks(n)
      PROVE  HookInv'
    <2>1. PICK state \in {"live", "stale", "ended"} : tree' = Update(tree, n, state) /\ UNCHANGED <<props, commit>>
        BY <1>6 DEF GoesLive, Breaks
    <2> QED
        BY <1>1, <1>6, <2>1, UpdateOK DEF HookInv
<1> QED
    BY <1>2, <1>3, <1>4, <1>5, <1>6 DEF HookNext

\* What a render shows of a subscription is what the view mirrors.
LEMMA RendersTheView ==
    ASSUME HookInv, Render, screen'.sub # 0
    PROVE  LET shown == tree.subs[screen'.sub] IN
           /\ shown.state # "unsubscribed" /\ shown.state = screen'.state
           /\ shown.client = commit'.client /\ shown.key = commit'.key
PROOF
<1> DEFINE v == tree.view
           n == tree.current
           u == tree.subs[n]
<1>1. Mirrors(tree) /\ tree \in TreeType
    BY DEF HookInv, TreeOK
<1>2. commit' = Wanted /\ screen' = Shows(Wanted)
    BY DEF Render
<1>3. /\ v.client = commit'.client /\ v.key = commit'.key
      /\ screen'.state = v.state /\ screen'.sub = v.sub /\ v.sub # 0
    BY <1>2 DEF Shows, Nothing
<1>4. n # 0
    BY <1>1, <1>3 DEF Mirrors, IDLE_VIEW
<1>5. v = ViewOf(n, u) /\ u.state # "unsubscribed"
    BY <1>1, <1>4 DEF Mirrors
<1>6. v.client = u.client /\ v.key = u.key /\ v.state = u.state /\ v.sub = n
    <2> HIDE DEF v, n, u
    <2> QED
        BY <1>5 DEF ViewOf
<1> QED
    BY <1>3, <1>5, <1>6

(* useSubscription (S2, S3): what a render shows is the subscription of    *)
(* that client and that identity, in the state it has now, and never one   *)
(* the hook has given up.                                                  *)
THEOREM TheScreenIsCurrent == EdgeSpec => ScreenIsCurrent
PROOF
<1>1. EdgeInit => HookInv
    <2>1. ASSUME HookInit
          PROVE  HookInv
        <3>1. Blank \in PropsType
            BY DEF Blank, PropsType, Origins, Keys, Clients
        <3>2. tree \in TreeType
            <4> DEFINE client == [c \in Client |-> IF owns \/ c \notin Supplied THEN "none" ELSE "open"]
                       idle == IDLE_VIEW
            <4>1. client \in [Client -> {"none", "open", "closed"}] /\ idle \in ViewType /\ NoClient \in Clients
                BY IdleTyped DEF Clients
            <4>2. tree = [client |-> client, made |-> NoClient, owned |-> NoClient, ownerDeps |-> <<>>,
                          subs |-> <<>>, current |-> 0, hookDeps |-> <<>>, view |-> idle]
                BY <2>1 DEF HookInit, Unset
            <4> HIDE DEF client, idle, Clients, ViewType, SubType, Origins
            <4> QED
                BY <4>1, <4>2 DEF TreeType
        <3>3. tree.current = 0 /\ tree.view = IDLE_VIEW
            BY <2>1 DEF HookInit
        <3> QED
            BY <2>1, <3>1, <3>2, <3>3 DEF HookInit, HookInv, TreeOK, Mirrors
    <2> QED
        BY <2>1 DEF EdgeInit
<1>2. HookInv /\ [EdgeNext]_edgeVars => HookInv'
    <2>1. ASSUME HookInv, UNCHANGED hookVars
          PROVE  HookInv'
        BY <2>1 DEF hookVars, HookInv
    <2> QED
        BY <2>1, HookStep DEF EdgeNext, edgeVars, InQuarantine, InHook, InTraces, InManagement, InOptions, InCommands
<1>3. HookInv /\ [EdgeNext]_edgeVars =>
          [Render /\ screen'.sub # 0 =>
              LET shown == tree.subs[screen'.sub] IN
              /\ shown.state # "unsubscribed" /\ shown.state = screen'.state
              /\ shown.client = commit'.client /\ shown.key = commit'.key]_edgeVars
    BY RendersTheView
<1> QED
    BY <1>1, <1>2, <1>3, PTL DEF EdgeSpec, ScreenIsCurrent

-----------------------------------------------------------------------------
LEMMA SmallestOf ==
    ASSUME NEW S, S \subseteq Nat, S # {}
    PROVE  \E n \in S : \A m \in S : n <= m
PROOF
<1>1. PICK n \in S : \A m \in S : ~(<<m, n>> \in OpToRel(<, Nat))
    BY NatLessThanWellFounded, WFMin, Zenon
<1>2. \A m \in S : ~(m < n)
    BY <1>1 DEF OpToRel
<1> QED
    BY <1>2

-----------------------------------------------------------------------------
(* The trace view.                                                         *)

\* The function that Matching builds, and what its entries are.
UpTo(filter, held) ==
    CHOOSE f : f = [i \in 0 .. Len(held) |->
                        IF i = 0 THEN <<>>
                        ELSE IF Matches(filter, held[i]) THEN Append(f[i - 1], held[i]) ELSE f[i - 1]]

Recurs(f, filter, held, n) ==
    f = [i \in 0 .. n |->
            IF i = 0 THEN <<>>
            ELSE IF Matches(filter, held[i]) THEN Append(f[i - 1], held[i]) ELSE f[i - 1]]

LEMMA RecursExists ==
    ASSUME NEW filter, NEW held, NEW n \in Nat
    PROVE  \E f : Recurs(f, filter, held, n)
PROOF
<1> DEFINE Without == {m \in Nat : ~\E f : Recurs(f, filter, held, m)}
<1> SUFFICES ASSUME Without # {} PROVE FALSE
    OBVIOUS
<1>1. PICK m \in Without : \A k \in Without : m <= k
    BY SmallestOf
<1>2. m # 0
    <2> DEFINE f == [i \in 0 .. 0 |-> <<>>]
    <2>1. Recurs(f, filter, held, 0)
        BY DEF Recurs
    <2> QED
        BY <2>1
<1>3. PICK f : Recurs(f, filter, held, m - 1)
    BY <1>1, <1>2
<1> DEFINE last == IF Matches(filter, held[m]) THEN Append(f[m - 1], held[m]) ELSE f[m - 1]
           g == [i \in 0 .. m |-> IF i = m THEN last ELSE f[i]]
<1>4. \A i \in 0 .. m - 1 :
          f[i] = IF i = 0 THEN <<>>
                 ELSE IF Matches(filter, held[i]) THEN Append(f[i - 1], held[i]) ELSE f[i - 1]
    BY <1>3, Zenon DEF Recurs
<1>5. \A i \in 0 .. m :
          g[i] = IF i = 0 THEN <<>>
                 ELSE IF Matches(filter, held[i]) THEN Append(g[i - 1], held[i]) ELSE g[i - 1]
    <2> HIDE DEF Without
    <2>1. m \in Nat
        BY DEF Without
    <2> QED
        BY <1>2, <1>4, <2>1
<1>6. Recurs(g, filter, held, m)
    <2> HIDE DEF last
    <2> QED
        BY <1>5 DEF Recurs
<1> QED
    BY <1>6

LEMMA MatchingRecurs ==
    ASSUME NEW filter, NEW held, Len(held) \in Nat
    PROVE  \E f : Recurs(f, filter, held, Len(held)) /\ Matching(filter, held) = f[Len(held)]
PROOF
<1> DEFINE n == Len(held)
           f == UpTo(filter, held)
<1>1. Recurs(f, filter, held, n)
    <2>1. PICK g : Recurs(g, filter, held, n)
        BY RecursExists
    <2>2. g = [i \in 0 .. Len(held) |->
                 IF i = 0 THEN <<>>
                 ELSE IF Matches(filter, held[i]) THEN Append(g[i - 1], held[i]) ELSE g[i - 1]]
        BY <2>1 DEF Recurs
    <2> QED
        BY <2>2, Zenon DEF Recurs, UpTo
<1>2. Matching(filter, held) = f[n]
    BY DEF Matching, UpTo
<1> QED
    BY <1>1, <1>2, Zenon

\* Two that recur over logs that start alike agree there.
LEMMA RecursAgree ==
    ASSUME NEW filter, NEW a, NEW b, NEW n \in Nat, NEW m \in Nat, n <= m,
           \A i \in 1 .. n : a[i] = b[i],
           NEW f, NEW g, Recurs(f, filter, a, n), Recurs(g, filter, b, m)
    PROVE  f[n] = g[n]
PROOF
<1> DEFINE Apart == {i \in 0 .. n : f[i] # g[i]}
<1> SUFFICES ASSUME Apart # {} PROVE FALSE
    OBVIOUS
<1>1. PICK i \in Apart : \A k \in Apart : i <= k
    <2>1. Apart \subseteq Nat
        OBVIOUS
    <2> HIDE DEF Apart
    <2> QED
        BY <2>1, SmallestOf, Zenon
<1>2. \A k \in 0 .. n :
          f[k] = IF k = 0 THEN <<>>
                 ELSE IF Matches(filter, a[k]) THEN Append(f[k - 1], a[k]) ELSE f[k - 1]
    BY Zenon DEF Recurs
<1>3. \A k \in 0 .. m :
          g[k] = IF k = 0 THEN <<>>
                 ELSE IF Matches(filter, b[k]) THEN Append(g[k - 1], b[k]) ELSE g[k - 1]
    BY Zenon DEF Recurs
<1>4. i # 0
    BY <1>2, <1>3
<1>5. f[i - 1] = g[i - 1]
    BY <1>1, <1>4
<1> QED
    BY <1>1, <1>2, <1>3, <1>4, <1>5

LEMMA MatchingNone ==
    ASSUME NEW filter
    PROVE  Matching(filter, <<>>) = <<>>
PROOF
<1>1. PICK f : Recurs(f, filter, <<>>, 0) /\ Matching(filter, <<>>) = f[0]
    BY MatchingRecurs
<1> QED
    BY <1>1 DEF Recurs

LEMMA MatchingOfMore ==
    ASSUME NEW T, NEW filter, NEW held \in Seq(T), NEW trace \in T
    PROVE  Matching(filter, Append(held, trace)) =
               IF Matches(filter, trace) THEN Append(Matching(filter, held), trace) ELSE Matching(filter, held)
PROOF
<1> DEFINE n == Len(held)
           more == Append(held, trace)
<1>1. n \in Nat /\ Len(more) = n + 1 /\ more[n + 1] = trace /\ \A i \in 1 .. n : held[i] = more[i]
    OBVIOUS
<1>2. PICK f : Recurs(f, filter, held, n) /\ Matching(filter, held) = f[n]
    BY <1>1, MatchingRecurs, Zenon
<1> HIDE DEF more
<1>3. PICK g : Recurs(g, filter, more, n + 1) /\ Matching(filter, more) = g[n + 1]
    BY <1>1, MatchingRecurs
<1> HIDE DEF n
<1>4. f[n] = g[n]
    BY <1>1, <1>2, <1>3, RecursAgree
<1>5. g[n + 1] = IF Matches(filter, trace) THEN Append(g[n], trace) ELSE g[n]
    <2>1. \A k \in 0 .. n + 1 :
              g[k] = IF k = 0 THEN <<>>
                     ELSE IF Matches(filter, more[k]) THEN Append(g[k - 1], more[k]) ELSE g[k - 1]
        BY <1>3, Zenon DEF Recurs
    <2> DEFINE top == n + 1
    <2>2. top \in 0 .. n + 1 /\ top # 0 /\ top - 1 = n
        BY <1>1
    <2>3. more[top] = trace
        BY <1>1
    <2> HIDE DEF top
    <2>4. g[top] = IF top = 0 THEN <<>>
                   ELSE IF Matches(filter, more[top]) THEN Append(g[top - 1], more[top]) ELSE g[top - 1]
        BY <2>1, <2>2, Zenon
    <2>5. g[top] = IF Matches(filter, trace) THEN Append(g[n], trace) ELSE g[n]
        BY <2>2, <2>3, <2>4
    <2> QED
        BY <2>5 DEF top
<1> QED
    BY <1>2, <1>3, <1>4, <1>5 DEF more

LEMMA MatchingTyped ==
    ASSUME NEW T, NEW filter, NEW held \in Seq(T)
    PROVE  Matching(filter, held) \in Seq(T)
PROOF
<1> DEFINE Untyped == {n \in Nat : \E s \in Seq(T) : Len(s) = n /\ Matching(filter, s) \notin Seq(T)}
<1> SUFFICES ASSUME Untyped # {} PROVE FALSE
    OBVIOUS
<1>1. PICK n \in Untyped : \A k \in Untyped : n <= k
    BY SmallestOf
<1>2. PICK s \in Seq(T) : Len(s) = n /\ Matching(filter, s) \notin Seq(T)
    OBVIOUS
<1>3. s # <<>>
    BY <1>2, MatchingNone
<1> DEFINE front == SubSeq(s, 1, n - 1)
           last == s[n]
<1>4. front \in Seq(T) /\ Len(front) = n - 1 /\ s = Append(front, last) /\ last \in T /\ n - 1 \in Nat
    BY <1>2, <1>3
<1> HIDE DEF front, last
<1>5. Matching(filter, front) \in Seq(T)
    <2>1. n - 1 \notin Untyped
        BY <1>1
    <2> QED
        BY <2>1, <1>4
<1>6. Matching(filter, s) = IF Matches(filter, last) THEN Append(Matching(filter, front), last)
                            ELSE Matching(filter, front)
    BY <1>4, MatchingOfMore
<1>7. Matching(filter, s) \in Seq(T)
    <2> DEFINE x == Matching(filter, front)
    <2>1. Append(x, last) \in Seq(T)
        <3> HIDE DEF x
        <3> QED
            BY <1>4, <1>5 DEF x
    <2> QED
        BY <1>5, <1>6, <2>1, Zenon
<1> QED
    BY <1>2, <1>7

Appends(x, y, last) == Append(x \o y, last) = x \o Append(y, last)

LEMMA AppendLast ==
    ASSUME NEW T, NEW x \in Seq(T), NEW y \in Seq(T), NEW last \in T
    PROVE  Appends(x, y, last)
    BY DEF Appends

\* What matches of two logs, one after the other, is what matches of each.
Splits(filter, a, b) == Matching(filter, a \o b) = Matching(filter, a) \o Matching(filter, b)

LEMMA BothGrow ==
    ASSUME NEW T, NEW filter, NEW a \in Seq(T), NEW front \in Seq(T), NEW last \in T,
           Splits(filter, a, front)
    PROVE  Splits(filter, a, Append(front, last))
PROOF
<1>1. PICK w \in Seq(T) : w = a \o front
    BY ConcatProperties
<1>2. a \o Append(front, last) = Append(w, last)
    BY <1>1
<1>3. PICK x \in Seq(T), y \in Seq(T) :
          x = Matching(filter, a) /\ y = Matching(filter, front) /\ Matching(filter, w) = x \o y
    BY <1>1, MatchingTyped DEF Splits
<1>4. Matching(filter, Append(w, last)) =
          IF Matches(filter, last) THEN Append(Matching(filter, w), last) ELSE Matching(filter, w)
    BY MatchingOfMore
<1>5. Matching(filter, Append(front, last)) = IF Matches(filter, last) THEN Append(y, last) ELSE y
    BY <1>3, MatchingOfMore
<1>6. Append(x \o y, last) = x \o Append(y, last)
    <2>1. Appends(x, y, last)
        BY <1>3, AppendLast
    <2> QED
        BY <2>1, Zenon DEF Appends
<1> QED
    BY <1>2, <1>3, <1>4, <1>5, <1>6, Zenon DEF Splits

LEMMA MatchingOfBoth ==
    ASSUME NEW T, NEW filter, NEW a \in Seq(T), NEW b \in Seq(T)
    PROVE  Splits(filter, a, b)
PROOF
<1> DEFINE Apart == {n \in Nat : \E s \in Seq(T) : Len(s) = n /\ ~Splits(filter, a, s)}
<1> SUFFICES ASSUME Apart # {} PROVE FALSE
    OBVIOUS
<1>1. PICK n \in Apart : \A k \in Apart : n <= k
    BY SmallestOf
<1>2. PICK s \in Seq(T) : Len(s) = n /\ ~Splits(filter, a, s)
    OBVIOUS
<1>3. s # <<>>
    <2>1. a \o <<>> = a
        OBVIOUS
    <2>2. Matching(filter, a) \in Seq(T)
        BY MatchingTyped
    <2>3. Splits(filter, a, <<>>)
        <3> DEFINE x == Matching(filter, a)
        <3>1. x \o <<>> = x
            <4> HIDE DEF x
            <4> QED
                BY <2>2 DEF x
        <3> QED
            BY <2>1, <3>1, MatchingNone, Zenon DEF Splits
    <2> QED
        BY <1>2, <2>3
<1> DEFINE front == SubSeq(s, 1, n - 1)
           last == s[n]
<1>4. front \in Seq(T) /\ Len(front) = n - 1 /\ s = Append(front, last) /\ last \in T /\ n - 1 \in Nat
    BY <1>2, <1>3
<1> HIDE DEF front, last
<1>5. Splits(filter, a, front)
    <2>1. n - 1 \notin Apart
        BY <1>1
    <2> QED
        BY <2>1, <1>4
<1>6. Splits(filter, a, s)
    <2>1. Splits(filter, a, Append(front, last))
        BY <1>4, <1>5, BothGrow, Zenon
    <2> QED
        BY <1>4, <2>1, Zenon
<1> QED
    BY <1>2, <1>6

Trace == [run : Nat, seq : Nat, tag : Tag]
Filters == Tag \cup {All}
Cursors == [run : Nat, seq : Nat]
Pages == [kind : {"page", "expired"}, items : Seq(Trace), next : Cursors]
LoadAnswers == {NoAnswer, [kind |-> "error"]} \cup Pages

PageViewType ==
    [filter : Filters, generation : Nat, loading : BOOLEAN, cursor : Cursors, rows : Seq(Trace)]
LoadType == [generation : Nat, cursor : Cursors, filter : Filters, answer : LoadAnswers]

EndsWith(t, s) == \E n \in 0 .. Len(t) : s = SubSeq(t, n + 1, Len(t))

\* Each run has its log, numbered from one.
Logged(logs) ==
    /\ logs \in Seq(Seq(Trace)) /\ logs # <<>>
    /\ \A r \in DOMAIN logs : \A n \in DOMAIN logs[r] : logs[r][n].run = r /\ logs[r][n].seq = n

\* The buffer holds the end of the log of its run.
Buffered(whole, held, dropped) ==
    /\ held \in Seq(Trace) /\ Len(held) <= Len(whole)
    /\ held = SubSeq(whole, Len(whole) - Len(held) + 1, Len(whole))
    /\ dropped \in 0 .. Len(held)

InLog(logs, cursor) == cursor.run \in DOMAIN logs /\ cursor.seq \in 0 .. Len(logs[cursor.run])

\* The traces of a run that match, after one number and up to another.
Between(logs, filter, run, first, last) == Matching(filter, SubSeq(logs[run], first + 1, last))

RowsOK(logs, v) ==
    \/ v.cursor = NoCursor /\ v.rows = <<>>
    \/ /\ InLog(logs, v.cursor)
       /\ EndsWith(Between(logs, v.filter, v.cursor.run, 0, v.cursor.seq), v.rows)

\* What a page says, as an answer to a load that asked from a cursor on.
PageOK(logs, filter, cursor, page) ==
    /\ InLog(logs, page.next)
    /\ cursor = NoCursor =>
          EndsWith(Between(logs, filter, page.next.run, 0, page.next.seq), page.items)
    /\ cursor # NoCursor =>
          /\ page.next.run = cursor.run /\ cursor.seq <= page.next.seq
          /\ page.items = Between(logs, filter, cursor.run, cursor.seq, page.next.seq)

LoadOK(logs, c) ==
    /\ c \in LoadType
    /\ c.cursor # NoCursor => InLog(logs, c.cursor)
    /\ c.answer.kind = "page" => PageOK(logs, c.filter, c.cursor, c.answer)

\* A load of this generation asks what the view shows, and the view waits for it.
Asks(c, v) == v.loading /\ c.filter = v.filter /\ c.cursor = v.cursor

LoadsOK(logs, v, cs) ==
    /\ \A c \in cs :
          /\ LoadOK(logs, c) /\ c.generation <= v.generation
          /\ c.generation = v.generation => Asks(c, v)
    /\ \A c, d \in cs : c.generation = v.generation /\ d.generation = v.generation => c = d

TraceInv ==
    /\ Logged(recorded) /\ Buffered(recorded[Run], entries, head)
    /\ view \in PageViewType /\ RowsOK(recorded, view)
    /\ LoadsOK(recorded, view, loads)

IsCut(v, t, m) ==
    v = SubSeq(t, m + 1, Len(t)) /\ Len(v) = Len(t) - m /\ \A i \in 1 .. Len(v) : v[i] = t[m + i]

LEMMA CutOf ==
    ASSUME NEW T, NEW t \in Seq(T), NEW m \in 0 .. Len(t)
    PROVE  \E v \in Seq(T) : IsCut(v, t, m)
PROOF
<1>1. SubSeq(t, m + 1, Len(t)) \in Seq(T)
    OBVIOUS
<1>2. /\ Len(SubSeq(t, m + 1, Len(t))) = Len(t) - m
      /\ \A i \in 1 .. Len(t) - m : SubSeq(t, m + 1, Len(t))[i] = t[m + i]
    OBVIOUS
<1> QED
    BY <1>1, <1>2 DEF IsCut

\* Two sequences, one after the other.
IsJoin(u, s, r) ==
    /\ u = s \o r /\ Len(u) = Len(s) + Len(r)
    /\ \A i \in 1 .. Len(u) : u[i] = IF i <= Len(s) THEN s[i] ELSE r[i - Len(s)]

LEMMA JoinOf ==
    ASSUME NEW T, NEW s \in Seq(T), NEW r \in Seq(T)
    PROVE  \E u \in Seq(T) : IsJoin(u, s, r)
PROOF
<1>1. s \o r \in Seq(T) /\ Len(s \o r) = Len(s) + Len(r)
    BY ConcatProperties
<1>2. \A i \in 1 .. Len(s) + Len(r) : (s \o r)[i] = IF i <= Len(s) THEN s[i] ELSE r[i - Len(s)]
    BY ConcatProperties
<1> QED
    BY <1>1, <1>2 DEF IsJoin

LEMMA EndsWithWhole ==
    ASSUME NEW T, NEW t \in Seq(T)
    PROVE  EndsWith(t, t) /\ EndsWith(t, <<>>)
PROOF
<1>1. t = SubSeq(t, 0 + 1, Len(t)) /\ <<>> = SubSeq(t, Len(t) + 1, Len(t)) /\ 0 \in 0 .. Len(t) /\ Len(t) \in 0 .. Len(t)
    OBVIOUS
<1> QED
    BY <1>1 DEF EndsWith

\* The end of an end.
LEMMA EndOfEnd ==
    ASSUME NEW T, NEW t \in Seq(T), NEW s, EndsWith(t, s), NEW n \in 1 .. Len(s) + 1
    PROVE  EndsWith(t, SubSeq(s, n, Len(s)))
PROOF
<1>1. PICK m \in 0 .. Len(t) : s = SubSeq(t, m + 1, Len(t))
    BY DEF EndsWith
<1>2. s \in Seq(T) /\ Len(s) = Len(t) - m /\ \A i \in 1 .. Len(s) : s[i] = t[m + i]
    BY <1>1
<1> DEFINE a == SubSeq(s, n, Len(s))
           b == SubSeq(t, m + n, Len(t))
<1>3. a \in Seq(T) /\ Len(a) = Len(s) - n + 1 /\ \A i \in 1 .. Len(a) : a[i] = s[n + i - 1]
    BY <1>2
<1>4. b \in Seq(T) /\ Len(b) = Len(t) - m - n + 1 /\ \A i \in 1 .. Len(b) : b[i] = t[m + n + i - 1]
    BY <1>1, <1>2
<1>5. Len(a) = Len(b) /\ \A i \in 1 .. Len(a) : a[i] = b[i]
    <2> HIDE DEF a, b
    <2> QED
        BY <1>1, <1>2, <1>3, <1>4
<1>6. a = b
    <2> HIDE DEF a, b
    <2> QED
        BY <1>3, <1>4, <1>5, SeqEqual
<1>7. m + n - 1 \in 0 .. Len(t) /\ m + n - 1 + 1 = m + n
    BY <1>1, <1>2
<1> QED
    BY <1>6, <1>7 DEF EndsWith

\* What is put after both.
LEMMA EndGrows ==
    ASSUME NEW T, NEW t \in Seq(T), NEW s, EndsWith(t, s), NEW r \in Seq(T)
    PROVE  EndsWith(t \o r, s \o r) /\ EndsWith(t \o r, r)
PROOF
<1>1. PICK m \in 0 .. Len(t) : s = SubSeq(t, m + 1, Len(t))
    BY DEF EndsWith
<1>2. s \in Seq(T) /\ Len(s) = Len(t) - m /\ \A i \in 1 .. Len(s) : s[i] = t[m + i]
    BY <1>1
<1>3. PICK w \in Seq(T) : IsJoin(w, t, r)
    BY JoinOf
<1>4. Len(w) = Len(t) + Len(r) /\ \A i \in 1 .. Len(w) : w[i] = IF i <= Len(t) THEN t[i] ELSE r[i - Len(t)]
    BY <1>3 DEF IsJoin
<1>5. PICK u \in Seq(T) : IsJoin(u, s, r)
    BY <1>2, JoinOf
<1>6. Len(u) = Len(s) + Len(r) /\ \A i \in 1 .. Len(u) : u[i] = IF i <= Len(s) THEN s[i] ELSE r[i - Len(s)]
    BY <1>5 DEF IsJoin
<1>7. EndsWith(w, u)
    <2>1. m \in 0 .. Len(w)
        BY <1>4
    <2>0. PICK v \in Seq(T) : IsCut(v, w, m)
        BY <2>1, CutOf
    <2>2. v = SubSeq(w, m + 1, Len(w)) /\ Len(v) = Len(w) - m /\ \A i \in 1 .. Len(v) : v[i] = w[m + i]
        BY <2>0 DEF IsCut
    <2>3. Len(u) = Len(v)
        BY <2>2, <1>2, <1>4, <1>6
    <2>4. ASSUME NEW i \in 1 .. Len(u)
          PROVE  u[i] = v[i]
        <3>1. i \in Nat /\ v[i] = w[m + i] /\ m + i \in 1 .. Len(w)
            BY <2>2, <2>3, <1>2, <1>4
        <3>2. CASE i <= Len(s)
            <4>1. u[i] = s[i] /\ s[i] = t[m + i] /\ m + i <= Len(t)
                BY <3>1, <3>2, <1>2, <1>6
            <4> QED
                BY <3>1, <4>1, <1>4
        <3>3. CASE ~(i <= Len(s))
            <4>1. u[i] = r[i - Len(s)] /\ i - Len(s) = m + i - Len(t) /\ ~(m + i <= Len(t))
                BY <3>1, <3>3, <1>2, <1>6
            <4> QED
                BY <3>1, <4>1, <1>4
        <3> QED
            BY <3>2, <3>3
    <2>5. u = v
        BY <2>3, <2>4, SeqEqual
    <2> QED
        BY <2>1, <2>2, <2>5 DEF EndsWith
<1>8. EndsWith(w, r)
    <2>1. Len(t) \in 0 .. Len(w)
        BY <1>4
    <2>0. PICK v \in Seq(T) : IsCut(v, w, Len(t))
        BY <2>1, CutOf
    <2>2. /\ v = SubSeq(w, Len(t) + 1, Len(w)) /\ Len(v) = Len(w) - Len(t)
          /\ \A i \in 1 .. Len(v) : v[i] = w[Len(t) + i]
        BY <2>0 DEF IsCut
    <2>3. Len(r) = Len(v)
        BY <2>2, <1>4
    <2>4. ASSUME NEW i \in 1 .. Len(r)
          PROVE  r[i] = v[i]
        <3>1. Len(t) + i \in 1 .. Len(w) /\ ~(Len(t) + i <= Len(t)) /\ Len(t) + i - Len(t) = i
            BY <1>4
        <3>2. v[i] = w[Len(t) + i]
            BY <2>2, <2>3
        <3> QED
            BY <3>1, <3>2, <1>4
    <2>5. r = v
        BY <2>3, <2>4, SeqEqual
    <2> QED
        BY <2>1, <2>2, <2>5 DEF EndsWith
<1> QED
    BY <1>3, <1>5, <1>7, <1>8 DEF IsJoin

IsReverse(a, s) ==
    a = Reverse(s) /\ Len(a) = Len(s) /\ \A i \in 1 .. Len(a) : a[i] = s[Len(s) - i + 1]

LEMMA ReverseOf ==
    ASSUME NEW T, NEW s \in Seq(T)
    PROVE  \E a \in Seq(T) : IsReverse(a, s)
PROOF
<1> DEFINE n == Len(s)
           a == [i \in 1 .. n |-> s[n - i + 1]]
<1>1. n \in Nat /\ \A i \in 1 .. n : s[n - i + 1] \in T
    OBVIOUS
<1>2. a \in [1 .. n -> T] /\ \A i \in 1 .. n : a[i] = s[n - i + 1]
    BY <1>1
<1>3. a = Reverse(s)
    BY DEF Reverse
<1> HIDE DEF a, n
<1>4. a \in Seq(T) /\ Len(a) = n
    BY <1>1, <1>2
<1>5. \A i \in 1 .. Len(a) : a[i] = s[n - i + 1]
    BY <1>2, <1>4
<1>6. IsReverse(a, s)
    BY <1>3, <1>4, <1>5, Zenon DEF n, IsReverse
<1> QED
    BY <1>4, <1>6, Zenon

LEMMA EndIsSuffix ==
    ASSUME NEW T, NEW t \in Seq(T), NEW s, EndsWith(t, s)
    PROVE  IsSuffix(s, t)
PROOF
<1>1. PICK m \in 0 .. Len(t) : s = SubSeq(t, m + 1, Len(t))
    BY DEF EndsWith
<1>2. s \in Seq(T) /\ Len(s) = Len(t) - m /\ \A i \in 1 .. Len(s) : s[i] = t[m + i]
    BY <1>1
<1>3. PICK a \in Seq(T) : IsReverse(a, s)
    BY <1>2, ReverseOf
<1>4. PICK b \in Seq(T) : IsReverse(b, t)
    BY ReverseOf
<1>5. a = Reverse(s) /\ Len(a) = Len(s) /\ \A i \in 1 .. Len(a) : a[i] = s[Len(s) - i + 1]
    BY <1>3, Zenon DEF IsReverse
<1>6. b = Reverse(t) /\ Len(b) = Len(t) /\ \A i \in 1 .. Len(b) : b[i] = t[Len(t) - i + 1]
    BY <1>4, Zenon DEF IsReverse
<1>7. Len(a) <= Len(b)
    BY <1>1, <1>2, <1>5, <1>6
<1>8. ASSUME NEW i \in 1 .. Len(a)
      PROVE  a[i] = b[i]
    <2>1. Len(s) - i + 1 \in 1 .. Len(s) /\ m + (Len(s) - i + 1) = Len(t) - i + 1 /\ i \in 1 .. Len(b)
        BY <1>2, <1>5, <1>6, <1>7
    <2>2. a[i] = s[Len(s) - i + 1] /\ s[Len(s) - i + 1] = t[m + (Len(s) - i + 1)] /\ b[i] = t[Len(t) - i + 1]
        BY <2>1, <1>2, <1>5, <1>6
    <2> QED
        BY <2>1, <2>2
<1>9. SubSeq(a, 1, Len(a)) = SubSeq(b, 1, Len(a))
    BY <1>7, <1>8
<1> QED
    BY <1>5, <1>6, <1>7, <1>9 DEF IsSuffix, IsPrefix

\* Logs only grow, and runs are only added.
Grows(logs, more) ==
    /\ Len(logs) <= Len(more)
    /\ \A r \in DOMAIN logs :
          /\ Len(logs[r]) <= Len(more[r])
          /\ \A n \in DOMAIN logs[r] : more[r][n] = logs[r][n]

LEMMA LogTyped ==
    ASSUME NEW logs, Logged(logs), NEW r \in DOMAIN logs
    PROVE  logs[r] \in Seq(Trace) /\ r \in 1 .. Len(logs) /\ Len(logs) \in Nat
    BY DEF Logged

LEMMA GrowthKeepsLogs ==
    ASSUME NEW logs, NEW more, Logged(logs), Logged(more), Grows(logs, more), NEW c, InLog(logs, c)
    PROVE  InLog(more, c)
PROOF
<1>1. logs[c.run] \in Seq(Trace) /\ c.run \in 1 .. Len(logs) /\ Len(logs) \in Nat
    BY LogTyped DEF InLog
<1>2. Len(more) \in Nat /\ DOMAIN more = 1 .. Len(more) /\ Len(logs) <= Len(more)
    BY DEF Logged, Grows
<1>3. c.run \in DOMAIN more
    BY <1>1, <1>2
<1>4. more[c.run] \in Seq(Trace)
    BY <1>3, LogTyped
<1>5. Len(logs[c.run]) <= Len(more[c.run])
    BY DEF Grows, InLog
<1> QED
    BY <1>1, <1>3, <1>4, <1>5 DEF InLog

LEMMA GrowthKeepsParts ==
    ASSUME NEW logs, NEW more, Logged(logs), Logged(more), Grows(logs, more),
           NEW r \in DOMAIN logs, NEW first \in Nat, NEW last \in 0 .. Len(logs[r]), NEW filter
    PROVE  Between(more, filter, r, first, last) = Between(logs, filter, r, first, last)
PROOF
<1>1. logs[r] \in Seq(Trace) /\ r \in 1 .. Len(logs) /\ Len(logs) \in Nat
    BY LogTyped
<1>2. Len(more) \in Nat /\ DOMAIN more = 1 .. Len(more) /\ Len(logs) <= Len(more)
    BY DEF Logged, Grows
<1>3. more[r] \in Seq(Trace)
    BY <1>1, <1>2, LogTyped
<1>4. Len(logs[r]) <= Len(more[r]) /\ \A n \in 1 .. Len(logs[r]) : more[r][n] = logs[r][n]
    BY <1>1 DEF Grows
<1>5. SubSeq(more[r], first + 1, last) = SubSeq(logs[r], first + 1, last)
    BY <1>1, <1>3, <1>4
<1> QED
    BY <1>5 DEF Between

LEMMA GrowthKeepsRows ==
    ASSUME NEW logs, NEW more, Logged(logs), Logged(more), Grows(logs, more),
           NEW v \in PageViewType, RowsOK(logs, v)
    PROVE  RowsOK(more, v)
PROOF
<1> SUFFICES ASSUME InLog(logs, v.cursor), EndsWith(Between(logs, v.filter, v.cursor.run, 0, v.cursor.seq), v.rows)
             PROVE  RowsOK(more, v)
    BY DEF RowsOK
<1>1. InLog(more, v.cursor)
    BY GrowthKeepsLogs
<1>2. Between(more, v.filter, v.cursor.run, 0, v.cursor.seq) = Between(logs, v.filter, v.cursor.run, 0, v.cursor.seq)
    BY GrowthKeepsParts DEF InLog
<1> QED
    BY <1>1, <1>2 DEF RowsOK

LEMMA GrowthKeepsPages ==
    ASSUME NEW logs, NEW more, Logged(logs), Logged(more), Grows(logs, more),
           NEW filter, NEW cursor \in Cursors, NEW page, page.next \in Cursors,
           cursor # NoCursor => InLog(logs, cursor), PageOK(logs, filter, cursor, page)
    PROVE  PageOK(more, filter, cursor, page)
PROOF
<1>1. InLog(logs, page.next) /\ InLog(more, page.next)
    BY GrowthKeepsLogs DEF PageOK
<1>2. Between(more, filter, page.next.run, 0, page.next.seq) = Between(logs, filter, page.next.run, 0, page.next.seq)
    BY <1>1, GrowthKeepsParts DEF InLog
<1>3. CASE cursor = NoCursor
    BY <1>1, <1>2, <1>3 DEF PageOK
<1>4. CASE cursor # NoCursor
    <2>1. page.next.run = cursor.run /\ cursor.seq <= page.next.seq
          /\ page.items = Between(logs, filter, cursor.run, cursor.seq, page.next.seq)
        BY <1>4 DEF PageOK
    <2>2. cursor.run \in DOMAIN logs /\ cursor.seq \in Nat /\ page.next.seq \in 0 .. Len(logs[cursor.run])
        BY <1>1, <1>4, <2>1 DEF InLog, Cursors
    <2>3. Between(more, filter, cursor.run, cursor.seq, page.next.seq) =
          Between(logs, filter, cursor.run, cursor.seq, page.next.seq)
        BY <2>2, GrowthKeepsParts
    <2> QED
        BY <1>1, <1>4, <2>1, <2>3 DEF PageOK
<1> QED
    BY <1>3, <1>4

LEMMA GrowthKeepsLoads ==
    ASSUME NEW logs, NEW more, Logged(logs), Logged(more), Grows(logs, more),
           NEW v, NEW cs, LoadsOK(logs, v, cs)
    PROVE  LoadsOK(more, v, cs)
PROOF
<1>1. ASSUME NEW c \in cs
      PROVE  LoadOK(more, c)
    <2>1. LoadOK(logs, c)
        BY DEF LoadsOK
    <2>2. c \in LoadType /\ c.cursor \in Cursors /\ c.answer \in LoadAnswers
        BY <2>1 DEF LoadOK, LoadType
    <2>3. c.cursor # NoCursor => InLog(more, c.cursor)
        BY <2>1, GrowthKeepsLogs DEF LoadOK
    <2>4. ASSUME c.answer.kind = "page"
          PROVE  PageOK(more, c.filter, c.cursor, c.answer)
        <3>1. c.answer \in Pages
            BY <2>2, <2>4 DEF LoadAnswers, NoAnswer
        <3>2. c.answer.next \in Cursors
            BY <3>1 DEF Pages
        <3> QED
            BY <2>1, <2>2, <2>4, <3>2, GrowthKeepsPages DEF LoadOK
    <2> QED
        BY <2>2, <2>3, <2>4 DEF LoadOK
<1> QED
    BY <1>1 DEF LoadsOK

LEMMA GreaterOf ==
    ASSUME NEW a \in Int, NEW b \in Int
    PROVE  Max({a, b}) = IF a >= b THEN a ELSE b
PROOF
<1> DEFINE Tops(x) == x \in {a, b} /\ \A y \in {a, b} : x >= y
           m == IF a >= b THEN a ELSE b
<1>1. Tops(m) /\ \A x : Tops(x) => x = m
    OBVIOUS
<1>2. Max({a, b}) = CHOOSE x \in {a, b} : \A y \in {a, b} : x >= y
    BY DEF Max
<1> QED
    BY <1>1, <1>2

\* Bounded sets of numbers have a greatest and a least.
LEMMA GreatestOf ==
    ASSUME NEW S, NEW top \in Nat, S \subseteq 0 .. top, S # {}
    PROVE  Max(S) \in S /\ \A n \in S : n <= Max(S)
PROOF
<1> DEFINE Left == {top - n : n \in S}
<1>1. Left \subseteq Nat /\ Left # {}
    OBVIOUS
<1>2. PICK m \in Left : \A k \in Left : m <= k
    BY <1>1, SmallestOf
<1>3. PICK n \in S : m = top - n
    OBVIOUS
<1>4. \A k \in S : n >= k
    BY <1>2, <1>3
<1> QED
    BY <1>3, <1>4 DEF Max

LEMMA LeastOf ==
    ASSUME NEW S, S \subseteq Nat, S # {}
    PROVE  Min(S) \in S
PROOF
<1>1. PICK n \in S : \A k \in S : n <= k
    BY SmallestOf
<1> QED
    BY <1>1 DEF Min

BufferOK == Logged(recorded) /\ Buffered(recorded[Run], entries, head)

\* Where the buffer stands in the log of its run, Ahead traces after the start.
Ahead == Len(recorded[Run]) - Len(entries)

LEMMA BufferStands ==
    ASSUME BufferOK
    PROVE  /\ Run \in DOMAIN recorded /\ Run \in Nat /\ Run # 0
           /\ recorded[Run] \in Seq(Trace) /\ entries \in Seq(Trace)
           /\ Ahead \in Nat /\ Len(entries) \in Nat /\ Len(recorded[Run]) = Ahead + Len(entries) /\ head \in 0 .. Len(entries)
           /\ \A i \in 1 .. Len(entries) : entries[i] = recorded[Run][Ahead + i] /\ entries[i].seq = Ahead + i
           /\ NextSeq = Ahead + Len(entries) + 1 /\ OldestSeq = Ahead + head + 1
           /\ Recent = [run |-> Run, seq |-> Ahead + Len(entries)]
PROOF
<1> DEFINE whole == recorded[Run]
           n == Len(entries)
           d == Len(whole) - n
<1>1. Run \in DOMAIN recorded /\ Run \in Nat /\ Run # 0
    BY DEF BufferOK, Logged, Run
<1>2. whole \in Seq(Trace) /\ Len(whole) \in Nat
    BY <1>1, LogTyped DEF BufferOK
<1>3. entries \in Seq(Trace) /\ n \in Nat /\ n <= Len(whole) /\ head \in 0 .. n
    BY DEF BufferOK, Buffered
<1>4. d \in Nat /\ Len(whole) = d + n
    BY <1>2, <1>3
<1>5. entries = SubSeq(whole, d + 1, Len(whole))
    BY DEF BufferOK, Buffered
<1>6. \A i \in DOMAIN whole : whole[i].seq = i
    BY <1>1 DEF BufferOK, Logged
<1> HIDE DEF whole
<1>7. PICK e \in Seq(Trace) : IsCut(e, whole, d)
    <2>1. d \in 0 .. Len(whole)
        BY <1>3, <1>4
    <2> HIDE DEF d
    <2> QED
        BY <1>2, <2>1, CutOf
<1>8. ASSUME NEW i \in 1 .. n
      PROVE  entries[i] = whole[d + i] /\ entries[i].seq = d + i
    <2>1. d + i \in 1 .. Len(whole)
        BY <1>3, <1>4
    <2> QED
        BY <1>2, <1>5, <1>6, <1>7, <2>1 DEF IsCut
<1>9. Ahead = d /\ NextSeq = d + n + 1
    BY <1>4 DEF Ahead, NextSeq, whole
<1>10. OldestSeq = d + head + 1
    <2>1. CASE head < n
        <3>1. head + 1 \in 1 .. n
            BY <1>3, <2>1
        <3>2. entries[head + 1].seq = d + (head + 1)
            BY <1>8, <3>1
        <3> QED
            BY <1>3, <1>4, <2>1, <3>2 DEF OldestSeq
    <2>2. CASE ~(head < n)
        BY <1>3, <1>4, <1>9, <2>2 DEF OldestSeq
    <2> QED
        BY <2>1, <2>2
<1>11. Recent = [run |-> Run, seq |-> d + n]
    <2>1. NextSeq - 1 = d + n
        BY <1>3, <1>4, <1>9
    <2> QED
        BY <2>1 DEF Recent
<1> HIDE DEF d, n
<1>12. /\ Run \in DOMAIN recorded /\ Run \in Nat /\ Run # 0
       /\ whole \in Seq(Trace) /\ entries \in Seq(Trace)
       /\ d \in Nat /\ n \in Nat /\ Len(whole) = d + n /\ head \in 0 .. n
       /\ \A i \in 1 .. n : entries[i] = whole[d + i] /\ entries[i].seq = d + i
       /\ NextSeq = d + n + 1 /\ OldestSeq = d + head + 1 /\ Recent = [run |-> Run, seq |-> d + n]
    BY <1>1, <1>2, <1>3, <1>4, <1>8, <1>9, <1>10, <1>11
<1> QED
    BY <1>9, <1>12, Zenon DEF whole, n

\* A part of one is the part of the other that is k further on.
SamePart(s, first, last, t, k) == SubSeq(s, first + 1, last) = SubSeq(t, k + first + 1, k + last)

LEMMA PartsAgree ==
    ASSUME NEW T, NEW s \in Seq(T), NEW t \in Seq(T), NEW k \in Nat, NEW first \in Nat, NEW last \in Nat,
           last <= Len(s), k + last <= Len(t), \A i \in first + 1 .. last : s[i] = t[k + i]
    PROVE  SamePart(s, first, last, t, k)
PROOF
<1>1. CASE last <= first
    <2>1. SubSeq(s, first + 1, last) = <<>> /\ SubSeq(t, k + first + 1, k + last) = <<>>
        BY <1>1
    <2> QED
        BY <2>1 DEF SamePart
<1>2. CASE first < last
    <2> DEFINE a == SubSeq(s, first + 1, last)
               b == SubSeq(t, k + first + 1, k + last)
    <2>1. a \in Seq(T) /\ Len(a) = last - first /\ \A i \in 1 .. last - first : a[i] = s[first + i]
        BY <1>2
    <2>2. b \in Seq(T) /\ Len(b) = last - first /\ \A i \in 1 .. last - first : b[i] = t[k + first + i]
        BY <1>2
    <2> HIDE DEF a, b
    <2>3. ASSUME NEW i \in 1 .. last - first
          PROVE  a[i] = b[i]
        <3>1. first + i \in first + 1 .. last /\ k + (first + i) = k + first + i
            BY <1>2
        <3>2. s[first + i] = t[k + (first + i)]
            BY <3>1
        <3> QED
            BY <2>1, <2>2, <3>1, <3>2
    <2>4. a = b
        BY <2>1, <2>2, <2>3, SeqEqual
    <2> QED
        BY <2>4 DEF SamePart, a, b
<1> QED
    BY <1>1, <1>2

\* A part of the buffer is a part of the log.
LEMMA BufferPart ==
    ASSUME BufferOK, NEW first \in 0 .. Len(entries), NEW last \in 0 .. Len(entries), NEW filter
    PROVE  Matching(filter, SubSeq(entries, first + 1, last)) =
               Between(recorded, filter, Run, Ahead + first, Ahead + last)
PROOF
<1> DEFINE whole == recorded[Run]
           n == Len(entries)
           d == Ahead
<1>1. /\ whole \in Seq(Trace) /\ entries \in Seq(Trace) /\ d \in Nat /\ n \in Nat /\ Len(whole) = d + n
      /\ \A i \in 1 .. n : entries[i] = whole[d + i]
    BY BufferStands
<1> HIDE DEF whole, d
<1>2. SamePart(entries, first, last, whole, d)
    <2>1. last <= n /\ d + last <= Len(whole) /\ first \in Nat /\ last \in Nat
        BY <1>1
    <2>2. \A i \in first + 1 .. last : entries[i] = whole[d + i]
        BY <1>1
    <2> HIDE DEF n
    <2> QED
        BY <1>1, <2>1, <2>2, PartsAgree DEF n
<1> QED
    BY <1>2, Zenon DEF SamePart, Between, whole, d

\* Three places of a log, in their order.
InOrder(logs, r, a, b, c) ==
    Logged(logs) /\ r \in DOMAIN logs /\ a \in Nat /\ b \in Nat /\ c \in Nat /\ a <= b /\ b <= c /\ c <= Len(logs[r])

LEMMA BetweenTyped ==
    ASSUME NEW logs, NEW r, NEW a, NEW c, InOrder(logs, r, a, a, c), NEW filter
    PROVE  Between(logs, filter, r, a, c) \in Seq(Trace)
PROOF
<1>1. logs[r] \in Seq(Trace)
    BY LogTyped DEF InOrder
<1>2. SubSeq(logs[r], a + 1, c) \in Seq(Trace)
    BY <1>1 DEF InOrder
<1> QED
    BY <1>2, MatchingTyped DEF Between

LEMMA BetweenSplits ==
    ASSUME NEW logs, NEW r, NEW a, NEW b, NEW c, InOrder(logs, r, a, b, c), NEW filter
    PROVE  Between(logs, filter, r, a, c) = Between(logs, filter, r, a, b) \o Between(logs, filter, r, b, c)
PROOF
<1> DEFINE whole == logs[r]
<1>1. whole \in Seq(Trace) /\ a \in Nat /\ b \in Nat /\ c \in Nat /\ a <= b /\ b <= c /\ c <= Len(whole)
    BY LogTyped DEF InOrder
<1> HIDE DEF whole
<1>2. SubSeq(whole, a + 1, b) \in Seq(Trace)
    BY <1>1
<1>3. SubSeq(whole, b + 1, c) \in Seq(Trace)
    BY <1>1
<1>4. PICK x \in Seq(Trace) : x = SubSeq(whole, a + 1, b)
    BY <1>2, Zenon
<1>5. PICK y \in Seq(Trace) : y = SubSeq(whole, b + 1, c)
    BY <1>3, Zenon
<1>6. SubSeq(whole, a + 1, c) = x \o y
    BY <1>1, <1>4, <1>5
<1>7. Splits(filter, x, y)
    BY MatchingOfBoth
<1>8. Matching(filter, SubSeq(whole, a + 1, c)) = Matching(filter, x) \o Matching(filter, y)
    BY <1>6, <1>7, Zenon DEF Splits
<1> QED
    BY <1>4, <1>5, <1>8, Zenon DEF Between, whole

LEMMA NewestOK ==
    ASSUME BufferOK, NEW filter
    PROVE  Newest(filter) \in Pages /\ PageOK(recorded, filter, NoCursor, Newest(filter))
PROOF
<1> DEFINE n == Len(entries)
           k == Ahead + head
           top == Ahead + n
           found == Matching(filter, SubSeq(entries, head + 1, n))
           from == Max({1, Len(found) - FirstLimit + 1})
           items == SubSeq(found, from, Len(found))
           all == Between(recorded, filter, Run, 0, top)
<1>1. /\ Run \in DOMAIN recorded /\ Run \in Nat /\ Run # 0 /\ recorded[Run] \in Seq(Trace)
      /\ Ahead \in Nat /\ n \in Nat /\ head \in 0 .. n /\ Len(recorded[Run]) = top
      /\ Recent = [run |-> Run, seq |-> top] /\ n \in 0 .. n
    BY BufferStands
<1>2. found = Between(recorded, filter, Run, k, top)
    BY <1>1, BufferPart
<1>3. InOrder(recorded, Run, 0, k, top) /\ InOrder(recorded, Run, 0, 0, k) /\ InOrder(recorded, Run, k, k, top)
      /\ InOrder(recorded, Run, 0, 0, top)
    BY <1>1 DEF InOrder, BufferOK
<1> HIDE DEF k
<1>4. PICK x \in Seq(Trace) : x = Between(recorded, filter, Run, 0, k)
    BY <1>3, BetweenTyped
<1>5. PICK y \in Seq(Trace) : y = Between(recorded, filter, Run, k, top)
    <2>1. Between(recorded, filter, Run, k, top) \in Seq(Trace)
        BY <1>3, BetweenTyped, Zenon
    <2> QED
        BY <2>1
<1>6. all = x \o y
    <2>1. Between(recorded, filter, Run, 0, top) =
              Between(recorded, filter, Run, 0, k) \o Between(recorded, filter, Run, k, top)
        BY <1>3, BetweenSplits
    <2> QED
        BY <1>4, <1>5, <2>1, Zenon
<1>7. EndsWith(all, found)
    <2>1. EndsWith(x, x)
        BY EndsWithWhole
    <2> QED
        BY <1>2, <1>5, <1>6, <2>1, EndGrows
<1>8. found \in Seq(Trace) /\ all \in Seq(Trace)
    <2>1. Between(recorded, filter, Run, 0, top) \in Seq(Trace)
        BY <1>3, BetweenTyped, Zenon
    <2> QED
        BY <1>2, <1>5, <2>1, Zenon
<1> HIDE DEF found, all
<1>9. from \in 1 .. Len(found) + 1
    <2>1. Len(found) \in Nat /\ FirstLimit \in Nat \ {0}
        BY <1>8, TraceAssumption
    <2> QED
        BY <2>1, GreaterOf
<1> HIDE DEF from
<1>10. EndsWith(all, items) /\ items \in Seq(Trace)
    BY <1>7, <1>8, <1>9, EndOfEnd
<1> HIDE DEF items, top
<1>11. Recent \in Cursors /\ InLog(recorded, Recent)
    BY <1>1 DEF Cursors, InLog, top
<1>12. PICK page : page = [kind |-> "page", next |-> Recent, items |-> items]
    OBVIOUS
<1>13. Newest(filter) = page
    BY <1>12 DEF Newest, items, from, found
<1>14. page.next = Recent /\ page.items = items /\ page \in Pages
    BY <1>10, <1>11, <1>12 DEF Pages
<1>15. PageOK(recorded, filter, NoCursor, page)
    <2>1. Recent.run = Run /\ Recent.seq = top
        BY <1>1
    <2> QED
        BY <1>10, <1>11, <1>14, <2>1 DEF PageOK, all
<1> QED
    BY <1>13, <1>14, <1>15

LEMMA AfterOK ==
    ASSUME BufferOK, NEW filter, NEW cursor \in Cursors, cursor # NoCursor, InLog(recorded, cursor)
    PROVE  /\ After(filter, cursor) \in Pages
           /\ After(filter, cursor).kind = "page" => PageOK(recorded, filter, cursor, After(filter, cursor))
PROOF
<1> DEFINE n == Len(entries)
           s == cursor.seq
           d == Ahead
<1>1. /\ Run \in DOMAIN recorded /\ Run \in Nat /\ Run # 0 /\ recorded[Run] \in Seq(Trace) /\ entries \in Seq(Trace)
      /\ d \in Nat /\ n \in Nat /\ head \in 0 .. n /\ Len(recorded[Run]) = d + n
      /\ OldestSeq = d + head + 1
      /\ \A i \in 1 .. n : entries[i].seq = d + i
    BY BufferStands
<1>2. CASE cursor.run # Run \/ s + 1 < OldestSeq
    <2>1. After(filter, cursor) = Expired
        BY <1>2 DEF After
    <2>2. Expired \in Pages /\ Expired.kind # "page"
        <3>1. <<>> \in Seq(Trace) /\ NoCursor \in Cursors
            BY DEF Cursors, NoCursor
        <3> QED
            BY <3>1 DEF Expired, Pages
    <2> QED
        BY <2>1, <2>2
<1>3. CASE ~(cursor.run # Run \/ s + 1 < OldestSeq)
    <2> DEFINE first == FirstAfter(s)
               counted(i) == Cardinality({j \in first .. i : Matches(filter, entries[j])})
               examined == {i \in first .. n : counted(i - 1) < NextLimit}
               last == IF examined = {} THEN first - 1 ELSE Max(examined)
               items == Matching(filter, SubSeq(entries, first, last))
               next == IF examined = {} THEN cursor ELSE [run |-> Run, seq |-> entries[last].seq]
    <2>1. s \in 0 .. d + n /\ cursor.run = Run /\ d + head <= s
        BY <1>1, <1>3 DEF InLog, Cursors
    <2>2. first = s - d + 1 /\ s - d \in 0 .. n
        <3>1. s + 1 - OldestSeq \in Nat
            BY <1>1, <2>1
        <3>2. Max({0, s + 1 - OldestSeq}) = s + 1 - OldestSeq
            BY <3>1, GreaterOf
        <3>3. first = head + Max({0, s + 1 - OldestSeq}) + 1
            BY DEF FirstAfter
        <3>4. first = head + (s + 1 - (d + head + 1)) + 1
            BY <1>1, <3>2, <3>3
        <3> HIDE DEF first
        <3>5. s \in Nat /\ first = s - d + 1
            BY <1>1, <2>1, <3>4
        <3>6. s - d \in 0 .. n
            BY <1>1, <2>1
        <3> QED
            BY <3>5, <3>6
    <2>3. PICK page : page = [kind |-> "page", items |-> items, next |-> next]
        OBVIOUS
    <2>4. After(filter, cursor) = page
        BY <1>3, <2>3 DEF After
    <2>5. last \in s - d .. n /\ (examined # {} => last \in examined)
        <3>1. examined \subseteq first .. n
            OBVIOUS
        <3> HIDE DEF examined, first
        <3>2. examined \subseteq 0 .. n
            BY <1>1, <2>2, <3>1
        <3>3. examined # {} => Max(examined) \in examined
            BY <1>1, <3>2, GreatestOf
        <3>4. CASE examined = {}
            <4>1. last = first - 1
                BY <3>4
            <4> HIDE DEF last
            <4> QED
                BY <1>1, <2>2, <3>4, <4>1
        <3>5. CASE examined # {}
            <4>1. last \in examined
                BY <3>3, <3>5
            <4> HIDE DEF last
            <4> QED
                BY <1>1, <2>2, <3>1, <4>1
        <3> QED
            BY <3>4, <3>5
    <2>6. next = [run |-> Run, seq |-> d + last]
        <3>1. CASE examined = {}
            <4>1. last = s - d
                BY <2>1, <2>2, <3>1, <1>1
            <4>2. next = cursor /\ d + last = s
                BY <1>1, <2>1, <3>1, <4>1
            <4> HIDE DEF last, next, examined
            <4>3. cursor = [run |-> Run, seq |-> s]
                BY <2>1 DEF Cursors
            <4> QED
                BY <4>2, <4>3, Zenon
        <3>2. CASE examined # {}
            <4>1. last \in 1 .. n
                <5>1. examined \subseteq first .. n
                    OBVIOUS
                <5> HIDE DEF examined, last, first
                <5> QED
                    BY <1>1, <2>2, <2>5, <3>2, <5>1
            <4>2. next = [run |-> Run, seq |-> entries[last].seq]
                BY <3>2
            <4> HIDE DEF last, next, examined
            <4> QED
                BY <1>1, <4>1, <4>2
        <3> QED
            BY <3>1, <3>2
    <2> HIDE DEF examined, next, last
    <2>7. items = Between(recorded, filter, Run, s, d + last)
        <3>1. s - d \in 0 .. n /\ last \in 0 .. n
            BY <1>1, <2>2, <2>5
        <3>2. Matching(filter, SubSeq(entries, s - d + 1, last)) =
                  Between(recorded, filter, Run, d + (s - d), d + last)
            BY <3>1, BufferPart
        <3>3. d + (s - d) = s
            BY <1>1, <2>1
        <3> QED
            BY <2>2, <3>2, <3>3
    <2>8. items \in Seq(Trace)
        <3>1. InOrder(recorded, Run, s, s, d + last)
            BY <1>1, <2>1, <2>2, <2>5 DEF InOrder, BufferOK
        <3> QED
            BY <2>7, <3>1, BetweenTyped
    <2> HIDE DEF items
    <2>9. next \in Cursors /\ InLog(recorded, next) /\ s <= next.seq /\ next.run = Run /\ next.seq = d + last
        BY <1>1, <2>1, <2>2, <2>5, <2>6 DEF Cursors, InLog
    <2>10. page \in Pages /\ page.next = next /\ page.items = items
        BY <2>3, <2>8, <2>9 DEF Pages
    <2>11. PageOK(recorded, filter, cursor, page)
        BY <2>1, <2>7, <2>9, <2>10 DEF PageOK
    <2> QED
        BY <2>4, <2>10, <2>11
<1> QED
    BY <1>2, <1>3

LEMMA BytesOfNone == Bytes(<<>>) = 0
PROOF
<1> DEFINE Sums(g) == g = [i \in 0 .. Len(<<>>) |-> IF i = 0 THEN 0 ELSE g[i - 1] + Size[(<<>>)[i].tag]]
           zero == [i \in 0 .. Len(<<>>) |-> 0]
           sum == CHOOSE g : Sums(g)
<1>1. Sums(zero)
    OBVIOUS
<1>2. Sums(sum)
    <2> HIDE DEF Sums, zero
    <2> QED
        BY <1>1, Zenon
<1>3. Bytes(<<>>) = sum[Len(<<>>)]
    BY DEF Bytes
<1> QED
    BY <1>2, <1>3

LEMMA EndIsBuffered ==
    ASSUME NEW whole \in Seq(Trace), NEW held \in Seq(Trace), NEW k \in Nat, Len(whole) = k + Len(held),
           \A i \in 1 .. Len(held) : held[i] = whole[k + i], NEW dropped \in 0 .. Len(held)
    PROVE  Buffered(whole, held, dropped)
PROOF
<1>1. k \in 0 .. Len(whole) /\ Len(whole) - Len(held) + 1 = k + 1 /\ Len(held) <= Len(whole)
    OBVIOUS
<1>2. PICK e \in Seq(Trace) : IsCut(e, whole, k)
    BY <1>1, CutOf
<1>3. Len(held) = Len(e) /\ \A i \in 1 .. Len(held) : held[i] = e[i]
    <2>1. Len(e) = Len(whole) - k /\ \A i \in 1 .. Len(e) : e[i] = whole[k + i]
        BY <1>2, Zenon DEF IsCut
    <2> QED
        BY <2>1
<1>4. held = e
    BY <1>3, SeqEqual
<1>5. held = SubSeq(whole, Len(whole) - Len(held) + 1, Len(whole))
    BY <1>1, <1>2, <1>4, Zenon DEF IsCut
<1> QED
    BY <1>1, <1>5 DEF Buffered

\* A trace more: the log grows by it, and the buffer is the end of the log again.
LEMMA RecordKeeps ==
    ASSUME BufferOK, NEW tag \in Tag, Record(tag)
    PROVE  BufferOK' /\ Grows(recorded, recorded')
PROOF
<1> DEFINE whole == recorded[Run]
           n == Len(entries)
           d == Ahead
           trace == [run |-> Run, seq |-> NextSeq, tag |-> tag]
           pushed == Append(entries, trace)
           grown == Append(whole, trace)
           fitting == {h \in head .. Len(pushed) : Fits(SubSeq(pushed, h + 1, Len(pushed)))}
           dropped == Min(fitting)
<1>1. /\ Run \in DOMAIN recorded /\ Run \in Nat /\ Run # 0 /\ whole \in Seq(Trace) /\ entries \in Seq(Trace)
      /\ d \in Nat /\ n \in Nat /\ head \in 0 .. n /\ Len(whole) = d + n /\ NextSeq = d + n + 1
      /\ \A i \in 1 .. n : entries[i] = whole[d + i]
    BY BufferStands
<1>2. trace \in Trace /\ trace.run = Run /\ trace.seq = d + n + 1
    BY <1>1 DEF Trace
<1>3. recorded' = [recorded EXCEPT ![Run] = grown]
    BY DEF Record
<1>4. /\ entries' = pushed /\ head' = dropped
      \/ /\ entries' = SubSeq(pushed, dropped + 1, Len(pushed)) /\ head' = 0
    BY DEF Record
<1> HIDE DEF whole, trace
<1>5. grown \in Seq(Trace) /\ Len(grown) = d + n + 1 /\ grown[d + n + 1] = trace
      /\ \A i \in 1 .. d + n : grown[i] = whole[i]
    BY <1>1, <1>2, AppendProperties
<1>6. pushed \in Seq(Trace) /\ Len(pushed) = n + 1 /\ pushed[n + 1] = trace
      /\ \A i \in 1 .. n : pushed[i] = entries[i]
    BY <1>1, <1>2, AppendProperties
<1> HIDE DEF pushed
<1>7. dropped \in 0 .. n + 1
    <2>1. fitting \subseteq Nat
        BY <1>1, <1>6
    <2>2. SubSeq(pushed, n + 1 + 1, Len(pushed)) = <<>>
        BY <1>1, <1>6
    <2>3. Fits(<<>>)
        BY BytesOfNone, TraceAssumption DEF Fits
    <2>4. n + 1 \in fitting
        <3>1. n + 1 \in head .. Len(pushed)
            BY <1>1, <1>6
        <3>2. Fits(SubSeq(pushed, n + 1 + 1, Len(pushed)))
            BY <2>2, <2>3, Zenon
        <3> QED
            BY <3>1, <3>2, Zenon
    <2>5. fitting \subseteq 0 .. n + 1
        BY <1>1, <1>6
    <2> HIDE DEF fitting
    <2>6. dropped \in fitting
        BY <2>1, <2>4, LeastOf
    <2> QED
        BY <2>5, <2>6
<1> HIDE DEF dropped, grown
<1>8. \A i \in 1 .. n + 1 : pushed[i] = grown[d + i]
    <2> TAKE i \in 1 .. n + 1
    <2>1. CASE i = n + 1
        BY <1>1, <1>5, <1>6, <2>1
    <2>2. CASE i # n + 1
        <3>1. i \in 1 .. n /\ d + i \in 1 .. d + n
            BY <1>1, <2>2
        <3> QED
            BY <1>1, <1>5, <1>6, <3>1
    <2> QED
        BY <2>1, <2>2
<1>9. Logged(recorded')
    <2>1. recorded' \in Seq(Seq(Trace)) /\ Len(recorded') = Len(recorded) /\ recorded' # <<>>
        BY <1>1, <1>3, <1>5 DEF BufferOK, Logged
    <2>2. ASSUME NEW r \in DOMAIN recorded', NEW i \in DOMAIN recorded'[r]
          PROVE  recorded'[r][i].run = r /\ recorded'[r][i].seq = i
        <3>1. r \in DOMAIN recorded
            BY <1>3
        <3>2. CASE r = Run
            <4>1. recorded'[r] = grown
                BY <1>1, <1>3, <3>2
            <4>2. i \in 1 .. d + n + 1
                BY <1>5, <4>1
            <4>3. CASE i = d + n + 1
                BY <1>2, <1>5, <3>2, <4>1, <4>3
            <4>4. CASE i # d + n + 1
                <5>1. i \in DOMAIN whole /\ grown[i] = whole[i]
                    BY <1>1, <1>5, <4>2, <4>4
                <5> QED
                    BY <1>1, <3>2, <4>1, <5>1 DEF BufferOK, Logged, whole
            <4> QED
                BY <4>3, <4>4
        <3>3. CASE r # Run
            <4>1. recorded'[r] = recorded[r]
                BY <1>3, <3>1, <3>3
            <4> QED
                BY <3>1, <4>1 DEF BufferOK, Logged
        <3> QED
            BY <3>2, <3>3
    <2> QED
        BY <2>1, <2>2 DEF Logged
<1>10. Run' = Run /\ recorded'[Run'] = grown
    BY <1>1, <1>3 DEF BufferOK, Logged, Run
<1>11. Grows(recorded, recorded')
    <2>1. Len(recorded') = Len(recorded) /\ Len(recorded) \in Nat
        BY <1>1, <1>3, <1>5 DEF BufferOK, Logged
    <2>2. ASSUME NEW r \in DOMAIN recorded
          PROVE  Len(recorded[r]) <= Len(recorded'[r]) /\ \A i \in DOMAIN recorded[r] : recorded'[r][i] = recorded[r][i]
        <3>1. CASE r = Run
            <4>1. recorded'[r] = grown /\ recorded[r] = whole
                BY <1>1, <1>3, <3>1 DEF whole
            <4> QED
                BY <1>1, <1>5, <4>1
        <3>2. CASE r # Run
            <4>1. recorded'[r] = recorded[r] /\ recorded[r] \in Seq(Trace)
                BY <1>3, <3>2, LogTyped DEF BufferOK
            <4> QED
                BY <4>1
        <3> QED
            BY <3>1, <3>2
    <2> QED
        BY <2>1, <2>2 DEF Grows
<1>12. Buffered(grown, entries', head')
    <2>1. CASE entries' = pushed /\ head' = dropped
        <3>1. Len(grown) = d + Len(pushed) /\ dropped \in 0 .. Len(pushed)
            BY <1>1, <1>5, <1>6, <1>7
        <3>2. Buffered(grown, pushed, dropped)
            BY <1>1, <1>5, <1>6, <1>8, <3>1, EndIsBuffered
        <3> QED
            BY <2>1, <3>2, Zenon
    <2>2. CASE entries' = SubSeq(pushed, dropped + 1, Len(pushed)) /\ head' = 0
        <3>1. PICK e \in Seq(Trace) : IsCut(e, pushed, dropped)
            BY <1>6, <1>7, CutOf
        <3>2. Len(e) = n + 1 - dropped /\ \A i \in 1 .. Len(e) : e[i] = pushed[dropped + i]
            <4>1. Len(e) = Len(pushed) - dropped /\ \A i \in 1 .. Len(e) : e[i] = pushed[dropped + i]
                BY <3>1, Zenon DEF IsCut
            <4> QED
                BY <1>1, <1>6, <1>7, <4>1
        <3>3. \A i \in 1 .. Len(e) : e[i] = grown[d + dropped + i]
            <4> TAKE i \in 1 .. Len(e)
            <4>1. dropped + i \in 1 .. n + 1
                BY <1>1, <1>7, <3>2
            <4>2. d + (dropped + i) = d + dropped + i
                BY <1>1, <1>7
            <4> QED
                BY <1>8, <3>2, <4>1, <4>2
        <3>4. Len(grown) = d + dropped + Len(e) /\ d + dropped \in Nat /\ 0 \in 0 .. Len(e)
            BY <1>1, <1>5, <1>7, <3>2
        <3>5. Buffered(grown, e, 0)
            BY <1>5, <3>3, <3>4, EndIsBuffered
        <3>6. entries' = e
            BY <2>2, <3>1 DEF IsCut
        <3> QED
            BY <2>2, <3>5, <3>6, Zenon
    <2> QED
        BY <1>4, <2>1, <2>2
<1> QED
    BY <1>9, <1>10, <1>11, <1>12 DEF BufferOK

LEMMA RestartKeeps ==
    ASSUME BufferOK, recorded' = Append(recorded, <<>>), entries' = <<>>, head' = 0
    PROVE  BufferOK' /\ Grows(recorded, recorded')
PROOF
<1> DEFINE n == Len(recorded)
           none == <<>>
<1>1. recorded \in Seq(Seq(Trace)) /\ n \in Nat /\ none \in Seq(Trace) /\ Len(none) = 0 /\ DOMAIN recorded = 1 .. n
    BY DEF BufferOK, Logged
<1>2. recorded' = Append(recorded, none)
    OBVIOUS
<1> HIDE DEF none
<1>3. /\ recorded' \in Seq(Seq(Trace)) /\ Len(recorded') = n + 1 /\ recorded'[n + 1] = none
      /\ \A r \in 1 .. n : recorded'[r] = recorded[r]
    BY <1>1, <1>2, AppendProperties
<1>4. Logged(recorded')
    <2>1. recorded' # <<>> /\ DOMAIN recorded' = 1 .. n + 1
        BY <1>1, <1>3
    <2>2. ASSUME NEW r \in 1 .. n + 1, NEW i \in DOMAIN recorded'[r]
          PROVE  recorded'[r][i].run = r /\ recorded'[r][i].seq = i
        <3>1. r # n + 1
            BY <1>1, <1>3, <2>2
        <3>2. r \in DOMAIN recorded /\ recorded'[r] = recorded[r]
            BY <1>1, <1>3, <3>1
        <3> QED
            BY <3>2 DEF BufferOK, Logged
    <2> QED
        BY <1>3, <2>1, <2>2 DEF Logged
<1>5. Run' = n + 1 /\ recorded'[Run'] = none
    BY <1>3 DEF Run
<1>6. Buffered(none, entries', head')
    <2>1. none = SubSeq(none, Len(none) - Len(none) + 1, Len(none))
        BY <1>1
    <2> QED
        BY <1>1, <2>1 DEF Buffered, none
<1>7. Grows(recorded, recorded')
    <2>1. ASSUME NEW r \in DOMAIN recorded
          PROVE  Len(recorded[r]) <= Len(recorded'[r])
        <3>1. recorded'[r] = recorded[r] /\ recorded[r] \in Seq(Trace)
            BY <1>1, <1>3
        <3> QED
            BY <3>1
    <2> QED
        BY <1>1, <1>3, <2>1 DEF Grows
<1> QED
    BY <1>4, <1>5, <1>6, <1>7 DEF BufferOK

\* What the view asks for next.
LEMMA ResetAsks ==
    ASSUME NEW v \in PageViewType, NEW filter \in Filters, NEW logs
    PROVE  LET u == Reset(v, filter) IN
           /\ u \in PageViewType /\ RowsOK(logs, u) /\ u.generation = v.generation + 1
           /\ LoadOK(logs, Load(u)) /\ Load(u).generation = u.generation /\ Asks(Load(u), u)
PROOF
<1> DEFINE none == <<>>
           start == NoCursor
           u == [filter |-> filter, generation |-> v.generation + 1, loading |-> TRUE, cursor |-> start, rows |-> none]
           c == [generation |-> u.generation, cursor |-> start, filter |-> filter, answer |-> NoAnswer]
<1>1. none \in Seq(Trace) /\ start \in Cursors /\ NoAnswer \in LoadAnswers /\ NoAnswer.kind # "page"
    BY DEF Cursors, NoCursor, LoadAnswers, NoAnswer
<1>2. Reset(v, filter) = u
    <2> DEFINE g == v.generation + 1
               a == [v EXCEPT !.filter = filter]
               b == [a EXCEPT !.generation = g]
               d == [b EXCEPT !.rows = none]
               e == [d EXCEPT !.cursor = start]
               w == [e EXCEPT !.loading = TRUE]
    <2>1. g \in Nat
        BY DEF PageViewType
    <2>2. Reset(v, filter) = [v EXCEPT !.filter = filter, !.generation = g, !.rows = none, !.cursor = start, !.loading = TRUE]
        BY DEF Reset
    <2> HIDE DEF none, start, g
    <2>3. Reset(v, filter) = w
        BY <2>2 DEF PageViewType
    <2>4. a \in PageViewType /\ a.filter = filter
        BY DEF PageViewType
    <2> HIDE DEF a
    <2>5. b \in PageViewType /\ b.filter = filter /\ b.generation = g
        BY <2>1, <2>4 DEF PageViewType
    <2> HIDE DEF b
    <2>6. d \in PageViewType /\ d.filter = filter /\ d.generation = g /\ d.rows = none
        BY <1>1, <2>5 DEF PageViewType
    <2> HIDE DEF d
    <2>7. e \in PageViewType /\ e.filter = filter /\ e.generation = g /\ e.rows = none /\ e.cursor = start
        BY <1>1, <2>6 DEF PageViewType
    <2> HIDE DEF e
    <2>8. w \in PageViewType /\ w.filter = filter /\ w.generation = g /\ w.rows = none /\ w.cursor = start /\ w.loading = TRUE
        BY <1>1, <2>7 DEF PageViewType
    <2> HIDE DEF w
    <2>9. w = [filter |-> w.filter, generation |-> w.generation, loading |-> w.loading, cursor |-> w.cursor, rows |-> w.rows]
        BY <2>8 DEF PageViewType
    <2> QED
        BY <2>3, <2>8, <2>9, Zenon DEF g
<1>3. Load(u) = c
    BY DEF Load
<1> HIDE DEF none, start
<1>4. u \in PageViewType /\ c \in LoadType
    BY <1>1 DEF PageViewType, LoadType
<1>5. RowsOK(logs, u)
    BY DEF RowsOK, none, start
<1>6. LoadOK(logs, c)
    BY <1>1, <1>4 DEF LoadOK, start
<1>7. Asks(c, u) /\ c.generation = u.generation /\ u.generation = v.generation + 1
    BY DEF Asks
<1> HIDE DEF u, c
<1> QED
    BY <1>2, <1>3, <1>4, <1>5, <1>6, <1>7

\* A load of a generation that no other load has.
LEMMA AskedAnew ==
    ASSUME NEW logs, NEW u, NEW cs, NEW c,
           \A d \in cs : LoadOK(logs, d) /\ d.generation \in Nat /\ d.generation < u.generation,
           u.generation \in Nat, LoadOK(logs, c), c.generation = u.generation, Asks(c, u)
    PROVE  LoadsOK(logs, u, cs \cup {c})
PROOF
<1>1. \A d \in cs : d.generation # u.generation /\ d.generation <= u.generation
    OBVIOUS
<1>2. c.generation <= u.generation
    OBVIOUS
<1> QED
    BY <1>1, <1>2 DEF LoadsOK

\* Some of the loads, for a view that they ask for as much.
LEMMA FewerLoads ==
    ASSUME NEW logs, NEW v, NEW u, NEW cs, LoadsOK(logs, v, cs), NEW some, some \subseteq cs,
           u.generation = v.generation,
           (\A c \in some : c.generation # v.generation) \/ (u.loading = v.loading /\ u.filter = v.filter /\ u.cursor = v.cursor)
    PROVE  LoadsOK(logs, u, some)
    BY DEF LoadsOK, Asks

LEMMA GenerationIsNat ==
    ASSUME NEW logs, NEW v, NEW cs, LoadsOK(logs, v, cs), NEW c \in cs
    PROVE  c.generation \in Nat /\ c.generation <= v.generation /\ LoadOK(logs, c)
    BY DEF LoadsOK, LoadOK, LoadType

\* The answer comes to the one load.
LEMMA AnswerKeeps ==
    ASSUME NEW logs, NEW v, NEW cs, LoadsOK(logs, v, cs), NEW c \in cs, NEW answer \in LoadAnswers,
           answer.kind = "page" => PageOK(logs, c.filter, c.cursor, answer)
    PROVE  LoadsOK(logs, v, (cs \ {c}) \cup {[c EXCEPT !.answer = answer]})
PROOF
<1> DEFINE a == [c EXCEPT !.answer = answer]
<1>1. LoadOK(logs, c) /\ c \in LoadType
    BY DEF LoadsOK, LoadOK
<1>2. a \in LoadType /\ a.generation = c.generation /\ a.filter = c.filter /\ a.cursor = c.cursor /\ a.answer = answer
    BY <1>1 DEF LoadType
<1> HIDE DEF a
<1>3. LoadOK(logs, a)
    BY <1>1, <1>2 DEF LoadOK
<1>4. Asks(c, v) => Asks(a, v)
    BY <1>2 DEF Asks
<1>5. \A d \in cs \ {c} : ~(d.generation = v.generation /\ c.generation = v.generation)
    BY DEF LoadsOK
<1>6. a.generation <= v.generation /\ (a.generation = v.generation => Asks(a, v))
    BY <1>2, <1>4 DEF LoadsOK
<1>7. \A d \in (cs \ {c}) \cup {a} :
          LoadOK(logs, d) /\ d.generation <= v.generation /\ (d.generation = v.generation => Asks(d, v))
    BY <1>3, <1>6 DEF LoadsOK
<1>8. \A d, e \in (cs \ {c}) \cup {a} : d.generation = v.generation /\ e.generation = v.generation => d = e
    BY <1>2, <1>5 DEF LoadsOK
<1> QED
    BY <1>7, <1>8 DEF LoadsOK, a

\* The rows on show with those of the next page after them, and no more than are kept.
LEMMA ShownKeeps ==
    ASSUME NEW logs, Logged(logs), NEW v \in PageViewType, RowsOK(logs, v),
           NEW page \in Pages, PageOK(logs, v.filter, v.cursor, page)
    PROVE  LET u == Loaded([v EXCEPT !.rows = Kept(@ \o page.items), !.cursor = page.next]) IN
           u \in PageViewType /\ RowsOK(logs, u) /\ u.generation = v.generation
PROOF
<1> DEFINE both == v.rows \o page.items
           kept == Kept(both)
           next == page.next
           u == [filter |-> v.filter, generation |-> v.generation, loading |-> FALSE, cursor |-> next, rows |-> kept]
           upto == Between(logs, v.filter, next.run, 0, next.seq)
<1>1. v.rows \in Seq(Trace) /\ page.items \in Seq(Trace) /\ next \in Cursors /\ v.cursor \in Cursors
    BY DEF PageViewType, Pages
<1>2. InLog(logs, next) /\ next.run \in DOMAIN logs /\ next.seq \in Nat /\ next.seq <= Len(logs[next.run])
    BY <1>1 DEF PageOK, InLog, Cursors
<1>3. upto \in Seq(Trace)
    <2>1. InOrder(logs, next.run, 0, 0, next.seq)
        BY <1>2 DEF InOrder
    <2> QED
        BY <2>1, BetweenTyped
<1>4. both \in Seq(Trace)
    BY <1>1, ConcatProperties
<1>5. EndsWith(upto, both)
    <2>1. CASE v.cursor = NoCursor
        <3>1. v.rows = <<>>
            <4>1. ~InLog(logs, NoCursor)
                <5>1. 0 \notin DOMAIN logs
                    BY DEF Logged
                <5> QED
                    BY <5>1 DEF InLog, NoCursor
            <4> QED
                BY <2>1, <4>1 DEF RowsOK
        <3>2. both = page.items
            BY <1>1, <3>1
        <3>3. EndsWith(upto, page.items)
            BY <2>1 DEF PageOK
        <3> HIDE DEF both, upto
        <3> QED
            BY <3>2, <3>3
    <2>2. CASE v.cursor # NoCursor
        <3> DEFINE r == v.cursor.run
                   s == v.cursor.seq
                   before == Between(logs, v.filter, r, 0, s)
        <3>1. InLog(logs, v.cursor) /\ EndsWith(before, v.rows)
            BY <2>2 DEF RowsOK
        <3>2. next.run = r /\ s <= next.seq /\ page.items = Between(logs, v.filter, r, s, next.seq)
            BY <2>2 DEF PageOK
        <3>3. InOrder(logs, r, 0, s, next.seq) /\ InOrder(logs, r, 0, 0, s)
            BY <1>1, <1>2, <3>1, <3>2 DEF InOrder, InLog, Cursors
        <3>4. Between(logs, v.filter, r, 0, next.seq) = before \o Between(logs, v.filter, r, s, next.seq)
            BY <3>3, BetweenSplits
        <3>5. upto = before \o page.items
            BY <3>2, <3>4, Zenon
        <3>6. before \in Seq(Trace)
            BY <3>3, BetweenTyped
        <3> HIDE DEF before, upto
        <3>7. EndsWith(before \o page.items, v.rows \o page.items)
            BY <1>1, <3>1, <3>6, EndGrows
        <3> QED
            BY <3>5, <3>7, Zenon
    <2> QED
        BY <2>1, <2>2
<1> HIDE DEF both, upto
<1>6. kept \in Seq(Trace) /\ EndsWith(upto, kept)
    <2> DEFINE from == Max({1, Len(both) - MaxRows + 1})
    <2>1. from \in 1 .. Len(both) + 1
        <3>1. Len(both) \in Nat /\ MaxRows \in Nat \ {0}
            BY <1>4, TraceAssumption
        <3> QED
            BY <3>1, GreaterOf
    <2>2. kept = SubSeq(both, from, Len(both))
        BY DEF Kept
    <2> HIDE DEF from, kept
    <2>3. SubSeq(both, from, Len(both)) \in Seq(Trace)
        BY <1>4, <2>1
    <2>4. EndsWith(upto, SubSeq(both, from, Len(both)))
        BY <1>3, <1>4, <1>5, <2>1, EndOfEnd
    <2> QED
        BY <2>2, <2>3, <2>4, Zenon
<1>7. Loaded([v EXCEPT !.rows = Kept(@ \o page.items), !.cursor = page.next]) = u
    <2> DEFINE a == [v EXCEPT !.rows = kept]
               b == [a EXCEPT !.cursor = next]
               w == [b EXCEPT !.loading = FALSE]
    <2>1. Loaded([v EXCEPT !.rows = Kept(@ \o page.items), !.cursor = page.next]) =
              [[v EXCEPT !.rows = kept, !.cursor = next] EXCEPT !.loading = FALSE]
        BY DEF Loaded, both
    <2> HIDE DEF kept, next
    <2>2. [v EXCEPT !.rows = kept, !.cursor = next] = b
        BY <1>1, <1>6 DEF PageViewType
    <2>3. a \in PageViewType /\ a.filter = v.filter /\ a.generation = v.generation /\ a.rows = kept
        BY <1>6 DEF PageViewType
    <2> HIDE DEF a
    <2>4. b \in PageViewType /\ b.filter = v.filter /\ b.generation = v.generation /\ b.rows = kept /\ b.cursor = next
        BY <1>1, <2>3 DEF PageViewType
    <2>5. [[v EXCEPT !.rows = kept, !.cursor = next] EXCEPT !.loading = FALSE] = w
        BY <2>2, Zenon
    <2> HIDE DEF b
    <2>6. /\ w \in PageViewType /\ w.filter = v.filter /\ w.generation = v.generation
          /\ w.rows = kept /\ w.cursor = next /\ w.loading = FALSE
        BY <2>4 DEF PageViewType
    <2> HIDE DEF w
    <2>7. w = [filter |-> w.filter, generation |-> w.generation, loading |-> w.loading, cursor |-> w.cursor, rows |-> w.rows]
        BY <2>6 DEF PageViewType
    <2> QED
        BY <2>1, <2>5, <2>6, <2>7, Zenon
<1> HIDE DEF kept, next
<1>8. u \in PageViewType
    BY <1>1, <1>6 DEF PageViewType
<1>9. RowsOK(logs, u)
    BY <1>2, <1>6 DEF RowsOK, upto
<1>10. u.generation = v.generation
    OBVIOUS
<1> HIDE DEF u
<1> QED
    BY <1>7, <1>8, <1>9, <1>10 DEF next

\* A step of the gateway that the view does not see.
LEMMA GrowthKeeps ==
    ASSUME TraceInv, BufferOK', Grows(recorded, recorded'), UNCHANGED viewVars
    PROVE  TraceInv'
PROOF
<1>1. Logged(recorded) /\ Logged(recorded') /\ view' = view /\ loads' = loads
    BY DEF TraceInv, BufferOK, viewVars
<1>2. RowsOK(recorded', view)
    BY <1>1, GrowthKeepsRows DEF TraceInv
<1>3. LoadsOK(recorded', view, loads)
    BY <1>1, GrowthKeepsLoads DEF TraceInv
<1> QED
    BY <1>1, <1>2, <1>3 DEF TraceInv, BufferOK

\* A step of the view, whose requests have this of it: the gateway stands.
LEMMA ViewStep ==
    ASSUME TraceInv, UNCHANGED <<recorded, entries, head>>,
           view' \in PageViewType, RowsOK(recorded, view'), LoadsOK(recorded, view', loads')
    PROVE  TraceInv'
PROOF
<1>1. BufferOK'
    BY DEF TraceInv, BufferOK, Run
<1> QED
    BY <1>1 DEF TraceInv, BufferOK

\* The view starts again under the next generation.
LEMMA ResetKeeps ==
    ASSUME TraceInv, NEW filter \in Filters, UNCHANGED <<recorded, entries, head>>,
           view' = Reset(view, filter), NEW some, some \subseteq loads, loads' = some \cup {Load(view')}
    PROVE  TraceInv'
PROOF
<1> DEFINE u == Reset(view, filter)
<1>1. view \in PageViewType /\ view.generation \in Nat /\ LoadsOK(recorded, view, loads)
    BY DEF TraceInv, PageViewType
<1>2. /\ u \in PageViewType /\ RowsOK(recorded, u) /\ u.generation = view.generation + 1
      /\ LoadOK(recorded, Load(u)) /\ Load(u).generation = u.generation /\ Asks(Load(u), u)
    BY <1>1, ResetAsks
<1>3. view' = u /\ loads' = some \cup {Load(u)}
    OBVIOUS
<1> HIDE DEF u
<1>4. \A d \in some : LoadOK(recorded, d) /\ d.generation \in Nat /\ d.generation < u.generation
    BY <1>1, <1>2, GenerationIsNat
<1>5. LoadsOK(recorded, u, some \cup {Load(u)})
    <2>1. u.generation \in Nat
        BY <1>1, <1>2
    <2> QED
        BY <1>2, <1>4, <2>1, AskedAnew
<1> QED
    BY <1>2, <1>3, <1>5, ViewStep

LEMMA TickKeeps ==
    ASSUME TraceInv, Tick
    PROVE  TraceInv'
PROOF
<1> DEFINE u == [view EXCEPT !.loading = TRUE]
           c == Load(view)
<1>1. view \in PageViewType /\ LoadsOK(recorded, view, loads) /\ RowsOK(recorded, view)
    BY DEF TraceInv
<1>2. view' = u /\ loads' = loads \cup {c} /\ ~view.loading /\ UNCHANGED <<recorded, entries, head>>
    BY DEF Tick
<1>3. /\ u \in PageViewType /\ u.generation = view.generation /\ u.generation \in Nat /\ u.loading
      /\ u.filter = view.filter /\ u.cursor = view.cursor /\ u.rows = view.rows
    BY <1>1 DEF PageViewType
<1>4. c = [generation |-> view.generation, cursor |-> view.cursor, filter |-> view.filter, answer |-> NoAnswer]
    BY DEF Load
<1> HIDE DEF u, c
<1>5. c \in LoadType /\ c.generation = view.generation /\ c.cursor = view.cursor /\ c.filter = view.filter /\ c.answer = NoAnswer
    BY <1>1, <1>4 DEF PageViewType, LoadType, LoadAnswers
<1>6. LoadOK(recorded, c)
    BY <1>1, <1>5 DEF LoadOK, RowsOK, NoAnswer
<1>7. Asks(c, u)
    BY <1>3, <1>5 DEF Asks
<1>8. \A d \in loads : LoadOK(recorded, d) /\ d.generation \in Nat /\ d.generation < u.generation
    <2> TAKE d \in loads
    <2>1. d.generation \in Nat /\ d.generation <= view.generation /\ LoadOK(recorded, d)
        BY <1>1, GenerationIsNat
    <2>2. d.generation # view.generation
        BY <1>1, <1>2 DEF LoadsOK, Asks
    <2> QED
        BY <1>3, <2>1, <2>2
<1>9. LoadsOK(recorded, u, loads \cup {c})
    BY <1>3, <1>5, <1>6, <1>7, <1>8, AskedAnew
<1>10. RowsOK(recorded, u)
    BY <1>1, <1>3 DEF RowsOK
<1> QED
    BY <1>2, <1>3, <1>9, <1>10, ViewStep

LEMMA AnswerStep ==
    ASSUME TraceInv, NEW c \in loads, GatewayAnswers(c) \/ IsLost(c)
    PROVE  TraceInv'
PROOF
<1>1. BufferOK /\ view \in PageViewType /\ LoadsOK(recorded, view, loads) /\ RowsOK(recorded, view)
    BY DEF TraceInv, BufferOK
<1>2. c.cursor \in Cursors /\ (c.cursor # NoCursor => InLog(recorded, c.cursor))
    BY <1>1 DEF LoadsOK, LoadOK, LoadType
<1>3. PICK answer : /\ loads' = (loads \ {c}) \cup {[c EXCEPT !.answer = answer]}
                    /\ answer = Page(c.filter, c.cursor) \/ answer = [kind |-> "error"]
    BY DEF GatewayAnswers, IsLost
<1>4. view' = view /\ UNCHANGED <<recorded, entries, head>>
    BY DEF GatewayAnswers, IsLost
<1>5. answer \in LoadAnswers /\ (answer.kind = "page" => PageOK(recorded, c.filter, c.cursor, answer))
    <2>1. CASE answer = [kind |-> "error"]
        BY <2>1 DEF LoadAnswers
    <2>2. CASE answer = Page(c.filter, c.cursor) /\ c.cursor = NoCursor
        <3>1. answer = Newest(c.filter)
            BY <2>2 DEF Page
        <3> QED
            BY <1>1, <2>2, <3>1, NewestOK DEF LoadAnswers
    <2>3. CASE answer = Page(c.filter, c.cursor) /\ c.cursor # NoCursor
        <3>1. answer = After(c.filter, c.cursor)
            BY <2>3 DEF Page
        <3> QED
            BY <1>1, <1>2, <2>3, <3>1, AfterOK DEF LoadAnswers
    <2> QED
        BY <1>3, <2>1, <2>2, <2>3
<1>6. LoadsOK(recorded, view, loads')
    BY <1>1, <1>3, <1>5, AnswerKeeps
<1> QED
    BY <1>1, <1>4, <1>6, ViewStep

LEMMA ReceiveStep ==
    ASSUME TraceInv, NEW c \in loads, Receives(c)
    PROVE  TraceInv'
PROOF
<1> DEFINE rest == loads \ {c}
<1>1. Logged(recorded) /\ view \in PageViewType /\ LoadsOK(recorded, view, loads) /\ RowsOK(recorded, view)
    BY DEF TraceInv
<1>2. UNCHANGED <<recorded, entries, head>>
    BY DEF Receives
<1>3. LoadOK(recorded, c) /\ c.answer \in LoadAnswers
    BY <1>1 DEF LoadsOK, LoadOK, LoadType
<1>4. ASSUME IsCurrent(c)
      PROVE  c.filter = view.filter /\ c.cursor = view.cursor /\ \A d \in rest : d.generation # view.generation
    BY <1>1, <1>4 DEF LoadsOK, Asks, IsCurrent
<1>5. CASE IsCurrent(c) /\ Shown(c)
    <2> DEFINE u == Loaded([view EXCEPT !.rows = Kept(@ \o c.answer.items), !.cursor = c.answer.next])
    <2>1. view' = u /\ loads' = rest /\ c.answer.kind = "page"
        BY <1>5 DEF Shown
    <2>2. c.answer \in Pages /\ PageOK(recorded, view.filter, view.cursor, c.answer)
        BY <1>3, <1>4, <1>5, <2>1 DEF LoadOK, LoadAnswers, NoAnswer
    <2>3. u \in PageViewType /\ RowsOK(recorded, u) /\ u.generation = view.generation
        BY <1>1, <2>2, ShownKeeps
    <2> HIDE DEF u
    <2>4. LoadsOK(recorded, u, rest)
        BY <1>1, <1>4, <1>5, <2>3, FewerLoads
    <2> QED
        BY <1>2, <2>1, <2>3, <2>4, ViewStep
<1>6. CASE IsCurrent(c) /\ StartsOver(c)
    <2>1. view' = Reset(view, view.filter) /\ loads' = rest \cup {Load(view')} /\ view.filter \in Filters
        BY <1>1, <1>6 DEF StartsOver, PageViewType
    <2>2. rest \subseteq loads
        OBVIOUS
    <2> HIDE DEF rest
    <2> QED
        BY <1>2, <2>1, <2>2, ResetKeeps
<1>7. CASE IsCurrent(c) /\ Failed(c)
    <2> DEFINE u == Loaded(view)
    <2>1. view' = u /\ loads' = rest
        BY <1>7 DEF Failed
    <2>2. /\ u \in PageViewType /\ u.generation = view.generation
          /\ u.filter = view.filter /\ u.cursor = view.cursor /\ u.rows = view.rows
        BY <1>1 DEF Loaded, PageViewType
    <2> HIDE DEF u
    <2>3. RowsOK(recorded, u)
        BY <1>1, <2>2 DEF RowsOK
    <2>4. LoadsOK(recorded, u, rest)
        BY <1>1, <1>4, <1>7, <2>2, FewerLoads
    <2> QED
        BY <1>2, <2>1, <2>2, <2>3, <2>4, ViewStep
<1>8. CASE loads' = rest /\ UNCHANGED view
    <2>1. LoadsOK(recorded, view, rest)
        BY <1>1, FewerLoads
    <2> QED
        BY <1>1, <1>2, <1>8, <2>1, ViewStep
<1> QED
    BY <1>5, <1>6, <1>7, <1>8 DEF Receives

LEMMA TraceStep ==
    ASSUME TraceInv, TraceNext
    PROVE  TraceInv'
PROOF
<1>1. BufferOK
    BY DEF TraceInv, BufferOK
<1>2. ASSUME NEW tag \in Tag, Traces(tag)
      PROVE  TraceInv'
    <2>1. Record(tag) /\ UNCHANGED viewVars
        BY <1>2, Zenon DEF Traces
    <2> QED
        BY <1>1, <2>1, RecordKeeps, GrowthKeeps
<1>3. CASE Restarts
    <2>1. recorded' = Append(recorded, <<>>) /\ entries' = <<>> /\ head' = 0 /\ UNCHANGED viewVars
        BY <1>3 DEF Restarts
    <2> QED
        BY <1>1, <2>1, RestartKeeps, GrowthKeeps
<1>4. CASE Reloads
    <2>1. PICK filter \in Filters : view' = Reset(view, filter)
        BY <1>4 DEF Reloads, Filters
    <2>2. loads' = loads \cup {Load(view')} /\ UNCHANGED <<recorded, entries, head>>
        BY <1>4 DEF Reloads
    <2> QED
        BY <2>1, <2>2, ResetKeeps
<1> QED
    BY <1>2, <1>3, <1>4, TickKeeps, AnswerStep, ReceiveStep DEF TraceNext

LEMMA TraceStart == TraceInit => TraceInv
PROOF
<1> SUFFICES ASSUME TraceInit PROVE TraceInv
    OBVIOUS
<1> DEFINE blank == [filter |-> All, generation |-> 0, loading |-> FALSE, cursor |-> NoCursor, rows |-> <<>>]
           u == Reset(blank, All)
           none == <<>>
<1>1. recorded = <<none>> /\ entries = none /\ head = 0 /\ view = u /\ loads = {Load(u)}
    BY DEF TraceInit
<1>2. blank \in PageViewType
    <2>1. <<>> \in Seq(Trace) /\ NoCursor \in Cursors /\ All \in Filters
        BY DEF Cursors, NoCursor, Filters
    <2> QED
        BY <2>1 DEF PageViewType
<1>3. /\ u \in PageViewType /\ RowsOK(recorded, u) /\ u.generation = blank.generation + 1
      /\ LoadOK(recorded, Load(u)) /\ Load(u).generation = u.generation /\ Asks(Load(u), u)
    <2>1. All \in Filters
        BY DEF Filters
    <2> HIDE DEF blank
    <2> QED
        BY <1>2, <2>1, ResetAsks
<1>4. LoadsOK(recorded, u, {Load(u)})
    <2>1. u.generation \in Nat
        BY <1>3 DEF PageViewType
    <2> HIDE DEF u
    <2> QED
        BY <1>3, <2>1 DEF LoadsOK
<1>5. none \in Seq(Trace) /\ Len(none) = 0
    OBVIOUS
<1> HIDE DEF u, none
<1>6. Logged(recorded) /\ Run = 1 /\ recorded[Run] = none
    <2>1. recorded \in Seq(Seq(Trace)) /\ Len(recorded) = 1 /\ recorded[1] = none /\ recorded # <<>>
        BY <1>1, <1>5
    <2>2. DOMAIN recorded = {1} /\ DOMAIN recorded[1] = {}
        BY <1>5, <2>1
    <2> QED
        BY <2>1, <2>2 DEF Logged, Run
<1>7. Buffered(none, none, 0)
    <2>1. none = SubSeq(none, Len(none) - Len(none) + 1, Len(none)) /\ 0 \in 0 .. Len(none) /\ Len(none) <= Len(none)
        BY <1>5
    <2> QED
        BY <1>5, <2>1 DEF Buffered
<1> QED
    BY <1>1, <1>3, <1>4, <1>6, <1>7 DEF TraceInv

\* The rows that RowsOK says are those of the log.
LEMMA RowsAreASuffix ==
    ASSUME TraceInv
    PROVE  RowsAreTheLog
PROOF
<1> SUFFICES ASSUME view.cursor.run # 0
             PROVE  IsSuffix(view.rows, Matching(view.filter, SubSeq(recorded[view.cursor.run], 1, view.cursor.seq)))
    BY DEF RowsAreTheLog
<1> DEFINE r == view.cursor.run
           s == view.cursor.seq
           upto == Between(recorded, view.filter, r, 0, s)
<1>1. InLog(recorded, view.cursor) /\ EndsWith(upto, view.rows)
    BY DEF TraceInv, RowsOK, NoCursor
<1>2. InOrder(recorded, r, 0, 0, s)
    BY <1>1 DEF InOrder, InLog, TraceInv, Logged
<1>3. upto \in Seq(Trace)
    BY <1>2, BetweenTyped
<1>4. upto = Matching(view.filter, SubSeq(recorded[r], 1, s))
    BY DEF Between
<1> HIDE DEF upto
<1> QED
    BY <1>1, <1>3, <1>4, EndIsSuffix

(* TraceBuffer.page, renderInspect: the rows on show are the last of the   *)
(* traces that match the filter up to the cursor, none skipped, repeated   *)
(* or of another filter, across evictions, restarts and late answers.      *)
THEOREM TheRowsAreTheLog == EdgeSpec => []RowsAreTheLog
PROOF
<1>1. EdgeInit => TraceInv
    BY TraceStart DEF EdgeInit
<1>2. TraceInv /\ [EdgeNext]_edgeVars => TraceInv'
    <2>1. ASSUME TraceInv, UNCHANGED traceVars
          PROVE  TraceInv'
        BY <2>1 DEF traceVars, TraceInv, Run
    <2> QED
        BY <2>1, TraceStep DEF EdgeNext, edgeVars, InQuarantine, InHook, InTraces, InManagement, InOptions, InCommands
<1>3. TraceInv => RowsAreTheLog
    BY RowsAreASuffix
<1> QED
    BY <1>1, <1>2, <1>3, PTL DEF EdgeSpec

=============================================================================
