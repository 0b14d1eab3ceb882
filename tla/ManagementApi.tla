--------------------------- MODULE ManagementApi ---------------------------
(***************************************************************************)
(* The management API of a development gateway (management/index.ts,       *)
(* router.ts and the gateway's internals): a native server with a bearer   *)
(* token, or a handler mounted by a host that authorizes requests itself.  *)
(* Both give their requests to one router.  A request is admitted in one   *)
(* go, except where the code awaits: the host's authorize, and the body of *)
(* a POST.  Other requests, and the end of the gateway, fall in between.   *)
(***************************************************************************)
EXTENDS Integers, FiniteSets

CONSTANTS Call,            \* requests that are handled
          Requests,        \* what they can be, of RequestType
          Granted,         \* the operations createManagementHandler was given
          MaxBody, MaxOperatorBody,  \* body limits, on the sizes of a request
          Principal,       \* fixture principals, and until when each is valid
          ValidUntil,
          TokenTtl,        \* PREVIEW_TOKEN_TTL_MS
          Burst,           \* tokens of the request rate limit
          MaxChecks,       \* source checks at once (2)
          MaxClock

ReadOperations == {"capabilities", "health", "sources", "channels", "config", "traces", "dev.principals", "workbench"}
WriteOperations == {"source-checks", "config.validate", "config.export", "sources.resume",
                    "preview-sessions", "dev.fixtures.advance", "dev.disconnect"}
OperatorReads == {"operator.status", "failures.list", "failures.show"}
OperatorWrites == {"failures.export", "failures.evaluate", "failures.redrive", "sources.retry-current",
                   "sources.reassess", "sources.reopen-circuit"}
OperatorOperations == OperatorReads \cup OperatorWrites
Implemented == ReadOperations \cup WriteOperations \cup OperatorOperations

(* path is the operation whose path the request names, or "unknown";       *)
(* method is the one it uses; origin is the page it comes from, if any.    *)
RequestType == [path : Implemented \cup {"unknown"}, method : {"GET", "POST"}, host : {"native", "handler"},
            credential : BOOLEAN, origin : {"none", "own", "other"}, header : BOOLEAN,
            body : {"none", "json", "malformed"}, size : Nat, arguments : {"valid", "invalid", "raw"},
            principal : Principal]

ASSUME ManagementAssumption ==
    /\ Requests \subseteq RequestType
    /\ Granted \subseteq Implemented
    /\ ValidUntil \in [Principal -> Nat]
    /\ {MaxBody, MaxOperatorBody, TokenTtl, Burst, MaxChecks, MaxClock} \subseteq Nat

VARIABLES gateway,    \* [state, operator, checks, clock, tokens]
          calls,      \* calls[c]: [pc, request, operator, status]
          previews,   \* #previews with their #previewTokens: records [call, principal, until]
          sessions    \* open sessions: [preview, opened]
managementVars == <<gateway, calls, previews, sessions>>

Method(operation) == IF operation \in ReadOperations \cup OperatorReads THEN "GET" ELSE "POST"

NoCall == [pc |-> "idle"]
Of(c) == calls[c].request
At(c, pc) == calls[c].pc = pc

Answered(call, status) == [call EXCEPT !.pc = "answered", !.status = status]

(***************************************************************************)
(* createRouter                                                            *)
(***************************************************************************)

(* findRoute, and an operator route while there is no operator service.    *)
Unrouted(r) ==
    \/ r.path = "unknown" \/ Method(r.path) # r.method
    \/ r.path \in OperatorOperations /\ ~gateway.operator

Allowed(r) == r.path \in IF r.host = "native" THEN Implemented ELSE Granted \cup {"workbench"}

\* Mistake: no header is asked for.
SameSiteAny(r) == TRUE

SameSite(r) == r.method = "POST" /\ r.host = "handler" => r.header

BodyLimit(r) ==
    IF r.path \in OperatorOperations /\ MaxOperatorBody < MaxBody THEN MaxOperatorBody ELSE MaxBody

RefusedFirst(r) ==
    IF Unrouted(r) THEN 404
    ELSE IF ~Allowed(r) \/ ~SameSite(r) THEN 403
    ELSE IF r.method = "POST" /\ r.size > BodyLimit(r) THEN 413
    ELSE IF r.method = "GET" /\ r.body # "none" THEN 400
    ELSE 0

(* The checks before the first await.  A GET runs at once.                 *)
Routed(call) ==
    IF RefusedFirst(call.request) # 0 THEN Answered(call, RefusedFirst(call.request))
    ELSE [call EXCEPT !.operator = gateway.operator,
                      !.pc = IF call.request.method = "POST" THEN "reading" ELSE "running"]

(***************************************************************************)
(* Arrival                                                                 *)
(***************************************************************************)
New(r) == [pc |-> "authorizing", request |-> r, operator |-> FALSE, status |-> 0]

(* checkBrowserOrigin: a page of another origin is refused.                *)
NativeRefusal(r) ==
    IF r.origin = "other" THEN 403
    ELSE IF ~r.credential THEN 401
    ELSE IF gateway.tokens = 0 THEN 429
    ELSE 0

ArrivesAtServer(c) ==
    /\ At(c, "idle") /\ gateway.state # "stopped"
    /\ \E r \in Requests :
          /\ r.host = "native"
          /\ LET refusal == NativeRefusal(r)
             IN /\ calls' = [calls EXCEPT ![c] = IF refusal # 0 THEN Answered(New(r), refusal) ELSE Routed(New(r))]
                /\ gateway' = [gateway EXCEPT !.tokens = IF refusal = 0 THEN @ - 1 ELSE @]
    /\ UNCHANGED <<previews, sessions>>

ArrivesAtHandler(c) ==
    /\ At(c, "idle")
    /\ \E r \in Requests : r.host = "handler" /\ calls' = [calls EXCEPT ![c] = New(r)]
    /\ UNCHANGED <<gateway, previews, sessions>>

(* The host's authorize settles, or throws.                                *)
Authorizes(c) ==
    /\ At(c, "authorizing")
    /\ calls' = [calls EXCEPT ![c] = IF Of(c).credential THEN Routed(@) ELSE Answered(@, 401)]
    /\ UNCHANGED <<gateway, previews, sessions>>

(* readJsonBody: the whole body, or the peer goes away.                    *)
ReadsBody(c) ==
    /\ At(c, "reading")
    /\ calls' = [calls EXCEPT ![c] = IF Of(c).body = "json" THEN [@ EXCEPT !.pc = "running"] ELSE Answered(@, 400)]
    /\ UNCHANGED <<gateway, previews, sessions>>

Disconnects(c) ==
    /\ At(c, "reading")
    /\ calls' = [calls EXCEPT ![c] = Answered(@, 500)]
    /\ UNCHANGED <<gateway, previews, sessions>>

(***************************************************************************)
(* Operations                                                              *)
(***************************************************************************)
Runs(c, operations) == At(c, "running") /\ Of(c).path \in operations

Answer(c, status) == calls' = [calls EXCEPT ![c] = Answered(@, status)]

InvalidArguments(c) ==
    /\ At(c, "running") /\ Of(c).method = "POST" /\ Of(c).arguments = "invalid"
    /\ Answer(c, 400)
    /\ UNCHANGED <<gateway, previews, sessions>>

(* Operations that leave the gateway as it is.  Raw evidence is never      *)
(* exported here.                                                          *)
RunRead(c) ==
    /\ Runs(c, ReadOperations \cup OperatorReads \cup {"config.validate", "config.export", "failures.export", "failures.evaluate"})
    /\ Of(c).arguments # "invalid"
    /\ Answer(c, IF Of(c).path = "failures.export" /\ Of(c).arguments = "raw" THEN 400 ELSE 200)
    /\ UNCHANGED <<gateway, previews, sessions>>

(* The gateway's own operations, and those of the operator service that    *)
(* was there when the request was routed: each has its guards on a gateway *)
(* that is not running in the module of its component.                     *)
RunMutation(c) ==
    /\ Runs(c, {"sources.resume", "dev.fixtures.advance"} \cup (OperatorWrites \ {"failures.export", "failures.evaluate"}))
    /\ Of(c).arguments # "invalid"
    /\ \E status \in {200, 409} : Answer(c, status)
    /\ UNCHANGED <<gateway, previews, sessions>>

(* checkSource: so many at once.                                           *)
Starts(g) == [g EXCEPT !.checks = @ + 1]

RunCheck(c) ==
    /\ Runs(c, {"source-checks"}) /\ Of(c).arguments # "invalid"
    /\ \/ /\ gateway.checks >= MaxChecks
          /\ Answer(c, 429) /\ UNCHANGED gateway
       \/ /\ gateway.checks < MaxChecks
          /\ calls' = [calls EXCEPT ![c].pc = "checking"]
          /\ gateway' = Starts(gateway)
    /\ UNCHANGED <<previews, sessions>>

CheckEnds(c) ==
    /\ At(c, "checking")
    /\ \E status \in {200, 500} : Answer(c, status)
    /\ gateway' = [gateway EXCEPT !.checks = @ - 1]
    /\ UNCHANGED <<previews, sessions>>

(* #createPreviewSession: purges what has expired, then issues a token.    *)
Until(p) == IF gateway.clock + TokenTtl < ValidUntil[p] THEN gateway.clock + TokenTtl ELSE ValidUntil[p]

Current == {p \in previews : p.until > gateway.clock}

RunPreview(c) ==
    /\ Runs(c, {"preview-sessions"}) /\ Of(c).arguments # "invalid"
    /\ LET p == Of(c).principal IN
       \/ /\ Until(p) > gateway.clock
          /\ previews' = Current \cup {[call |-> c, principal |-> p, until |-> Until(p)]}
          /\ Answer(c, 200)
       \/ Until(p) <= gateway.clock /\ previews' = Current /\ Answer(c, 401)
    /\ UNCHANGED <<gateway, sessions>>

(* authenticateHandshake with a preview token, and the session's timer.    *)
Opens(p) == p.until > gateway.clock

PreviewSessionOpens(p) ==
    /\ gateway.state = "running" /\ Opens(p)
    /\ sessions' = sessions \cup {[preview |-> p.call, principal |-> p.principal, opened |-> gateway.clock, until |-> p.until]}
    /\ UNCHANGED <<gateway, calls, previews>>

PreviewSessionEnds(s) ==
    /\ s.until <= gateway.clock
    /\ sessions' = sessions \ {s}
    /\ UNCHANGED <<gateway, calls, previews>>

(* disconnectPreviewSession closes the sessions there are now.             *)
RunDisconnect(c) ==
    /\ Runs(c, {"dev.disconnect"}) /\ Of(c).arguments # "invalid"
    /\ \/ \E p \in previews : sessions' = {s \in sessions : s.preview # p.call} /\ Answer(c, 200)
       \/ UNCHANGED sessions /\ Answer(c, 404)
    /\ UNCHANGED <<gateway, previews>>

(***************************************************************************)
(* The gateway                                                             *)
(***************************************************************************)
OperatorComesUp ==
    /\ gateway.state = "starting"
    /\ \E operator \in BOOLEAN : gateway' = [gateway EXCEPT !.state = "running", !.operator = operator]
    /\ UNCHANGED <<calls, previews, sessions>>

Stops ==
    /\ gateway.state \in {"starting", "running"}
    /\ gateway' = [gateway EXCEPT !.state = "stopping"]
    /\ sessions' = {}
    /\ UNCHANGED <<calls, previews>>

(* The stop callbacks run last: closeAllConnections ends the requests of   *)
(* the native server; those mounted in a host are the host's.              *)
ServerCloses ==
    /\ gateway.state = "stopping"
    /\ gateway' = [gateway EXCEPT !.state = "stopped"]
    /\ calls' = [c \in Call |-> IF At(c, "reading") /\ Of(c).host = "native" THEN Answered(calls[c], 500) ELSE calls[c]]
    /\ UNCHANGED <<previews, sessions>>

ClockTicks ==
    /\ gateway.clock < MaxClock
    /\ gateway' = [gateway EXCEPT !.clock = @ + 1, !.tokens = Burst]
    /\ UNCHANGED <<calls, previews, sessions>>

ManagementInit ==
    /\ gateway = [state |-> "starting", operator |-> FALSE, checks |-> 0, clock |-> 0, tokens |-> Burst]
    /\ calls = [c \in Call |-> NoCall]
    /\ previews = {} /\ sessions = {}

ManagementNext ==
    \/ \E c \in Call :
          \/ ArrivesAtServer(c) \/ ArrivesAtHandler(c) \/ Authorizes(c) \/ ReadsBody(c) \/ Disconnects(c)
          \/ InvalidArguments(c) \/ RunRead(c) \/ RunMutation(c) \/ RunCheck(c) \/ CheckEnds(c)
          \/ RunPreview(c) \/ RunDisconnect(c)
    \/ \E p \in previews : PreviewSessionOpens(p)
    \/ \E s \in sessions : PreviewSessionEnds(s)
    \/ OperatorComesUp \/ Stops \/ ServerCloses \/ ClockTicks

ManagementSpec == ManagementInit /\ [][ManagementNext]_managementVars
=============================================================================
