----------------------- MODULE StreamClientProperties -----------------------
(***************************************************************************)
(* What the SDK's connection management must guarantee.                     *)
(***************************************************************************)
EXTENDS StreamClient

\* The client, its opens and what its subscriptions know of it stay in their types.
StreamTypeOK ==
    /\ client \in ClientType
    /\ opens \in [Opens -> OpenType]
    /\ subs \in [Subscriptions -> SubscriptionType]
    /\ faults \in 0..MaxFaults

\* client.ts:37 "Owns one Socket.IO connection at a time": whatever opens finish late, the
\* only connection left open is the adopted one, and it is really open.
OneConnection ==
    {i \in Opens : opens[i].phase = "open"}
        = IF client.connection = 0 THEN {} ELSE {client.connection}

\* client.ts:282 "Never carry a previous user's view across an account switch": a
\* subscription is never attached as another identity than the first.
NoCrossIdentity ==
    \A s \in Subscriptions :
        subs[s].at # 0 => subs[s].at = client.connection
                          /\ opens[subs[s].at].identity = subs[s].identity

\* Timers fire and an open resolves or rejects within its deadlines; faults are finite.
ClientFairness == WF_clientVars(ClientMoves)

FairClientSpec == ClientSpec /\ ClientFairness

\* An active subscription is attached again in the end, unless the client waits for
\* reconnect(), is closed, or the bound on opens is reached.
Reconnects ==
    \A s \in Subscriptions :
        subs[s].phase = "registered"
            ~> \/ subs[s].at # 0 \/ subs[s].phase = "ended"
               \/ client.suspended \/ client.closed \/ ~CanConnect

=============================================================================
