-------------------------- MODULE GatewayLifecycle --------------------------
(***************************************************************************)
(* The gateway as a process (runtime/gateway.ts): start() opens its parts   *)
(* one after the other and rolls all of them back if one fails, stop()      *)
(* rolls back a start in progress or closes everything, each of them with   *)
(* awaits in between; meanwhile connections authenticate, open sessions     *)
(* and are revoked.                                                        *)
(*                                                                         *)
(* A connection is used once.  Between the end of its authentication and    *)
(* socket.io's "connection" event there are only microtasks and a           *)
(* nextTick: application code (revoke, stop) may run there, another         *)
(* socket's events may not.                                                 *)
(***************************************************************************)
EXTENDS Integers, Sequences, FiniteSets

CONSTANTS
    Connections,      \* transport connections clients open
    MaxConnections,   \* limits.maxConnections
    MaxStarts,        \* bound: calls of start()
    MaxRevocations,   \* bound: calls of revoke()
    MaxFlaps          \* bound: status changes a source reports

ASSUME LifecycleAssumption ==
    /\ IsFiniteSet(Connections) /\ MaxConnections \in Nat /\ MaxStarts \in Nat
    /\ MaxRevocations \in Nat /\ MaxFlaps \in Nat

VARIABLES
    config,      \* what the project configures; never changes
    life,        \* #state, and where #doStart and #doStop are
    parts,       \* what is open, whoever holds the reference to it
    source,      \* the status of the source
    conns,       \* each connection, its authenticate call and its session
    counters,    \* #pendingHandshakes and #abandonedAuthenticates
    revocations, \* RevocationLog: the connections each revocation matches
    starts, flaps,
    overtaken    \* history: stop() gave up on a start that was still in progress

lifeVars == <<config, life, parts, source, conns, counters, revocations, starts, flaps,
              overtaken>>

Parts == {"health", "failures", "http", "adapters", "socket"}
StartSteps == <<"health", "connections", "failures", "http", "adapters", "socket">>
\* Mistake: the journal closes before the adapters that report to it.
StopOrderSwapped == <<"health", "socket", "failures", "adapters", "http">>

\* What #doStart's catch and #doStop release, in order.
RollbackOrder == <<"socket", "health", "adapters", "failures", "http">>

StopOrder == <<"health", "socket", "adapters", "failures", "http">>

StatusType == {"starting", "healthy", "degraded", "paused", "stopped"}

LifeType ==
    [state : {"idle", "starting", "running", "stopping", "stopped"},
     start : 0..Len(StartSteps),        \* the step #doStart awaits; 0 when it is not in it
     undo : 0..Len(RollbackOrder),      \* the step of its rollback
     stop : {"none", "waiting", "working", "done"},
     work : 0..(Len(StopOrder) + 1),    \* the step of #doStop's work; beyond the last, finished
     adopted : BOOLEAN,                 \* #http and #io are set
     aborted : BOOLEAN]                 \* #stopController

ConnectionType ==
    [phase : {"none", "authenticating", "accepted", "open", "gone"},
     running : BOOLEAN,                 \* its authenticate call runs, within its timeout
     held : BOOLEAN,                    \* it counts as abandoned
     seq : 0..MaxRevocations,           \* revocations.sequence when it began
     closing : BOOLEAN]                 \* a microtask will close the session

Fresh == [phase |-> "none", running |-> FALSE, held |-> FALSE, seq |-> 0, closing |-> FALSE]
Gone == [Fresh EXCEPT !.phase = "gone"]

-----------------------------------------------------------------------------
(* Helpers.                                                                *)

Starting == life.start # 0 \/ life.undo # 0      \* #starting is not null

Open(phase) == {c \in Connections : conns[c].phase = phase}

\* RevocationLog.revokedSince
RevokedSince(c, log) == \E i \in (conns[c].seq + 1)..Len(log) : c \in log[i]

\* The connection limit of authenticateHandshake.
Room == Cardinality(Open("open")) + counters.pending + counters.abandoned < MaxConnections

\* Mistake: sessions are left to their transport's close.
ConnectionsAborted ==
    [c \in Connections |->
        IF conns[c].phase = "authenticating"
        THEN [conns[c] EXCEPT !.phase = "gone", !.held = conns[c].running, !.seq = 0]
        ELSE conns[c]]

\* Every session, closed by session.close(), and every authenticate call, aborted.
ConnectionsStopped ==
    [c \in Connections |->
        CASE conns[c].phase = "open" -> Gone
          [] conns[c].phase = "authenticating" ->
                [conns[c] EXCEPT !.phase = "gone", !.held = conns[c].running, !.seq = 0]
          [] OTHER -> conns[c]]

\* Part r as the reference the code closes it through sees it: #io is set only at the
\* end of a start, and #failures and #health only once they are open.
Released(r) == [parts EXCEPT ![r] = FALSE]

\* #readiness
Readiness ==
    IF life.state # "running" THEN {"starting"}
    ELSE CASE source = "paused" -> {"source-held"}
           [] source \notin {"healthy", "paused"} -> {"source-unavailable"}
           [] OTHER -> {}

-----------------------------------------------------------------------------
(* start().                                                                *)

\* start: only an idle gateway starts; other callers share the promise or are refused.  A
\* gateway whose start was rolled back is idle again, although a stop may be waiting for it.
Start ==
    /\ starts < MaxStarts
    /\ life.state = "idle" /\ ~Starting
    /\ life' = [life EXCEPT !.state = "starting", !.start = 1]
    /\ starts' = starts + 1
    /\ UNCHANGED <<overtaken, config, parts, source, conns, counters, revocations, flaps>>

\* #doStart's catch: roll back from the first part on.
BeginRollback(l) == [l EXCEPT !.start = 0, !.undo = 1]

\* What the step just awaited opened.  The adapters exist, and may report a status,
\* from the moment the gateway listens; without failureHandling no journal stays open,
\* and one that still has obligations refuses the start.
StepOpens(step) ==
    CASE step = "http" -> [parts EXCEPT !.http = TRUE, !.adapters = TRUE]
      [] step = "failures" -> [parts EXCEPT !.failures = config.failures]
      [] step = "socket" -> [parts EXCEPT !.socket = config.failures]
      [] step = "health" -> [parts EXCEPT !.health = TRUE]
      [] OTHER -> parts

StepRefused(step) == step = "failures" /\ ~config.failures /\ config.obligations

\* #doStart, one await after the other.  Nothing in it looks at #state again.
StartStep(ok) ==
    /\ life.start # 0
    /\ LET step == StartSteps[life.start]
           last == life.start = Len(StartSteps)
       IN IF ok /\ ~StepRefused(step)
          THEN /\ parts' = StepOpens(step)
               /\ life' = IF last
                          THEN [life EXCEPT !.start = 0, !.state = "running", !.adopted = TRUE]
                          ELSE [life EXCEPT !.start = life.start + 1]
               /\ source' = IF step = "http"
                            THEN IF config.heldAtStart THEN "paused" ELSE "starting"
                            ELSE source
          ELSE /\ life' = BeginRollback(life)
               /\ UNCHANGED <<parts, source>>
    /\ UNCHANGED <<overtaken, config, conns, counters, revocations, starts, flaps>>

\* An adapter becomes ready or reports another status through #setSourceStatus; one
\* held at start is not ready before it is retried.
SourceReports(status) ==
    /\ flaps < MaxFlaps
    /\ parts.adapters /\ source # status
    /\ status \in StatusType \ {"starting", "stopped"}
    /\ source' = status
    /\ flaps' = flaps + 1
    /\ UNCHANGED <<overtaken, config, life, parts, conns, counters, revocations, starts>>

\* The catch of #doStart, one await after the other; then the gateway is idle again.
RollbackStep ==
    /\ life.undo # 0
    /\ parts' = Released(RollbackOrder[life.undo])
    /\ IF life.undo < Len(RollbackOrder)
       THEN life' = [life EXCEPT !.undo = life.undo + 1] /\ UNCHANGED source
       ELSE life' = [life EXCEPT !.undo = 0, !.state = "idle"] /\ source' = "starting"
    /\ UNCHANGED <<overtaken, config, conns, counters, revocations, starts, flaps>>

-----------------------------------------------------------------------------
(* stop().                                                                 *)

\* #doStop once no start is left to wait for: sessions close and signals abort at once.
StopBegins(l) ==
    /\ life' = [l EXCEPT !.state = "stopping", !.aborted = TRUE, !.stop = "working", !.work = 1]
    /\ conns' = ConnectionsStopped
    /\ counters' = [pending |-> 0,
                    abandoned |-> counters.abandoned
                        + Cardinality({c \in Open("authenticating") : conns[c].running})]

\* stop: a start in progress is cancelled while it waits for the adapters
\* (#cancelStart), and waited for in any case.
Stop ==
    /\ life.stop = "none"
    /\ IF Starting
       THEN /\ life' = [(IF life.start # 0 /\ StartSteps[life.start] = "adapters"
                         THEN BeginRollback(life) ELSE life) EXCEPT !.stop = "waiting"]
            /\ UNCHANGED <<conns, counters>>
       ELSE StopBegins(life)
    /\ UNCHANGED <<overtaken, config, parts, source, revocations, starts, flaps>>

\* The start settled, or stop()'s timeout passed first: nothing cancels that start any
\* more, and it goes on beside the stop and after it.
StopProceeds ==
    /\ life.stop = "waiting"
    /\ StopBegins(life)
    /\ overtaken' = (overtaken \/ Starting)
    /\ UNCHANGED <<config, parts, source, revocations, starts, flaps>>

\* What step r of #doStop's work closes: #io only when a start ended.
StopReleases(r) == IF r = "http" /\ ~life.adopted THEN parts ELSE Released(r)

StopStep ==
    /\ life.work \in DOMAIN StopOrder
    /\ parts' = StopReleases(StopOrder[life.work])
    /\ source' = IF StopOrder[life.work] = "adapters" THEN "stopped" ELSE source
    /\ life' = [life EXCEPT !.work = life.work + 1]
    /\ UNCHANGED <<overtaken, config, conns, counters, revocations, starts, flaps>>

StopEnds ==
    /\ life.stop = "working" /\ life.work > Len(StopOrder)
    /\ life' = [life EXCEPT !.stop = "done", !.state = "stopped"]
    /\ UNCHANGED <<overtaken, config, parts, source, conns, counters, revocations, starts, flaps>>

\* The deadline passes while the work still runs: the port is released now.
StopExpires ==
    /\ life.stop = "working" /\ life.work \in DOMAIN StopOrder
    /\ life' = [life EXCEPT !.stop = "done", !.state = "stopped"]
    /\ parts' = StopReleases("http")
    /\ UNCHANGED <<overtaken, config, source, conns, counters, revocations, starts, flaps>>

-----------------------------------------------------------------------------
(* Connections.                                                            *)

Set(c, connection) == conns' = [conns EXCEPT ![c] = connection]

\* authenticateHandshake up to its await.  A preview token needs no call.
HandshakeStarts(c, preview) ==
    /\ life.state = "running" /\ parts.http
    /\ conns[c].phase = "none" /\ Open("accepted") = {}
    /\ Room
    /\ preview \/ ~life.aborted
    /\ IF preview
       THEN /\ Set(c, [conns[c] EXCEPT !.phase = "accepted", !.seq = Len(revocations)])
            /\ UNCHANGED counters
       ELSE /\ Set(c, [conns[c] EXCEPT !.phase = "authenticating", !.running = TRUE,
                                       !.seq = Len(revocations)])
            /\ counters' = [counters EXCEPT !.pending = @ + 1]
    /\ UNCHANGED <<overtaken, config, life, parts, source, revocations, starts, flaps>>

\* The authenticate call settles: with a principal, or refused.  A call nobody waits
\* for any more stops counting as abandoned.
CallSettles(c, accepted) ==
    /\ conns[c].running
    /\ LET waited == conns[c].phase = "authenticating"
           ok == waited /\ accepted /\ ~RevokedSince(c, revocations) /\ life.state = "running"
       IN /\ Set(c, IF ok THEN [conns[c] EXCEPT !.phase = "accepted", !.running = FALSE]
                    ELSE Gone)
          /\ counters' = [pending |-> counters.pending - (IF waited THEN 1 ELSE 0),
                          abandoned |-> counters.abandoned - (IF conns[c].held THEN 1 ELSE 0)]
    /\ UNCHANGED <<overtaken, config, life, parts, source, revocations, starts, flaps>>

\* handlerTimeoutMs passes: the handshake times out, or the abandoned call is no longer
\* counted, while the application's call may run on.
CallTimesOut(c) ==
    /\ conns[c].running
    /\ LET waited == conns[c].phase = "authenticating"
       IN /\ Set(c, Gone)
          /\ counters' = [pending |-> counters.pending - (IF waited THEN 1 ELSE 0),
                          abandoned |-> counters.abandoned - (IF conns[c].held THEN 1 ELSE 0)]
    /\ UNCHANGED <<overtaken, config, life, parts, source, revocations, starts, flaps>>

\* The client disconnects, or sends a second CONNECT, which closes the connection: its
\* handshake ends at once and its call counts as abandoned; its session tears down.
ClientLeaves(c) ==
    /\ conns[c].phase \in {"authenticating", "open"} /\ Open("accepted") = {}
    /\ LET waited == conns[c].phase = "authenticating"
       IN /\ Set(c, [conns[c] EXCEPT !.phase = "gone", !.held = waited, !.seq = 0,
                                     !.closing = FALSE])
          /\ counters' = IF waited
                         THEN [pending |-> counters.pending - 1,
                               abandoned |-> counters.abandoned + 1]
                         ELSE counters
    /\ UNCHANGED <<overtaken, config, life, parts, source, revocations, starts, flaps>>

\* Mistake: only the end of authentication looks at the revocations.
MustCloseNow(c) == life.state # "running"

\* openSession: a gateway that stopped, or a revocation since the handshake began,
\* closes the session in a microtask.
MustClose(c) == life.state # "running" \/ RevokedSince(c, revocations)

OpenSession(c) ==
    /\ conns[c].phase = "accepted"
    /\ Set(c, [conns[c] EXCEPT !.phase = "open", !.closing = MustClose(c)])
    /\ UNCHANGED <<overtaken, config, life, parts, source, counters, revocations, starts, flaps>>

SessionCloses(c) ==
    /\ conns[c].phase = "open" /\ conns[c].closing
    /\ Set(c, Gone)
    /\ UNCHANGED <<overtaken, config, life, parts, source, counters, revocations, starts, flaps>>

\* revoke with a session or subject selector that matches the connections in matched,
\* and the preview sessions disconnectPreviewSession closes.
Revoke(matched) ==
    /\ Len(revocations) < MaxRevocations
    /\ revocations' = Append(revocations, matched)
    /\ conns' = [c \in Connections |->
                    IF c \in matched /\ conns[c].phase = "open"
                    THEN Gone ELSE conns[c]]
    /\ UNCHANGED <<overtaken, config, life, parts, source, counters, starts, flaps>>

-----------------------------------------------------------------------------

LifeInit ==
    /\ config \in [failures : BOOLEAN, obligations : BOOLEAN, heldAtStart : BOOLEAN]
    /\ config.heldAtStart => config.failures
    /\ config.obligations => ~config.failures
    /\ life = [state |-> "idle", start |-> 0, undo |-> 0, stop |-> "none", work |-> 0,
               adopted |-> FALSE, aborted |-> FALSE]
    /\ parts = [r \in Parts |-> FALSE]
    /\ source = "starting"
    /\ conns = [c \in Connections |-> Fresh]
    /\ counters = [pending |-> 0, abandoned |-> 0]
    /\ revocations = <<>>
    /\ starts = 0
    /\ flaps = 0
    /\ overtaken = FALSE

StopMoves == StopProceeds \/ StopStep \/ StopEnds

StartMoves == RollbackStep \/ \E ok \in BOOLEAN : StartStep(ok)

ConnectionMoves ==
    \/ \E c \in Connections :
          \/ \E preview \in BOOLEAN : HandshakeStarts(c, preview)
          \/ \E accepted \in BOOLEAN : CallSettles(c, accepted)
          \/ CallTimesOut(c)
          \/ ClientLeaves(c)
          \/ OpenSession(c)
          \/ SessionCloses(c)
    \/ \E matched \in SUBSET Connections : Revoke(matched)

LifeNext ==
    \/ Start
    \/ Stop
    \/ StopExpires
    \/ StartMoves
    \/ StopMoves
    \/ ConnectionMoves
    \/ \E status \in StatusType : SourceReports(status)

LifeSpec == LifeInit /\ [][LifeNext]_lifeVars

=============================================================================
