-------------------------- MODULE GatewayProperties --------------------------
(***************************************************************************)
(* What starting, stopping, connecting and revoking must guarantee.         *)
(***************************************************************************)
EXTENDS GatewayLifecycle

\* The gateway, its connections and its counters stay in their types.
GatewayTypeOK ==
    /\ life \in LifeType
    /\ parts \in [Parts -> BOOLEAN]
    /\ source \in StatusType
    /\ conns \in [Connections -> ConnectionType]
    /\ counters \in [pending : Nat, abandoned : Nat]

\* gateway.ts:656 "A revocation can land after authentication finished but before
\* socket.io opened the connection": no session outlives a revocation of its principal
\* that came after its handshake began, except for the microtask that closes it.
RevokedIsClosed ==
    \A c \in Open("open") : RevokedSince(c, revocations) => conns[c].closing

\* Whoever reaches the failure journal finds it open, through every start, rollback and
\* stop: an adapter's late commit, an operator's request ("Close the operator socket first
\* so no mutation starts while sources drain"), a readiness probe that answers ok.  A stop
\* whose timeout passes before the start it interrupts has settled closes the journal under
\* that start (gateway.ts:1298), and nothing is promised from there on.
JournalOutlivesItsUsers ==
    config.failures /\ ~overtaken /\ (parts.adapters \/ parts.socket \/ Readiness = {})
        => parts.failures

\* stop() always resolves, and the gateway it resolved for stays stopped with no session
\* left, unless it gave up on a start still in progress: that one goes on to run.
StopResolves ==
    life.stop # "none" ~>
        [](/\ life.stop = "done"
           /\ overtaken \/ (life.state = "stopped" /\ Open("open") = {}))

\* What stop() promises, and what a start it gave up on breaks.  docs/V1_API.md:60
\* "client connections and the listening port are closed when `stop()` returns", and
\* packages/contracts/src/types.ts:600 "A stopped gateway cannot restart": a gateway whose
\* stop() has returned is not running.
StoppedIsNotRunning == life.stop = "done" => life.state # "running"

=============================================================================
