---------------------------- MODULE StreamClient ----------------------------
(***************************************************************************)
(* Connection management of the client SDK (packages/client/src/client.ts   *)
(* over connection.ts): one StreamClient that opens connections, adopts     *)
(* one at a time, reconnects with backoff, refreshes the token before it    *)
(* expires, suspends when it is refused, and hands its connection to its    *)
(* subscriptions (ClientSubscription has their insides).                    *)
(*                                                                         *)
(* An open (#open: getToken, then a Connection and its hello) is numbered,  *)
(* and so is the connection it makes.  Between the hello and the promise's  *)
(* continuation the socket may already have closed.  Delays are abstract:   *)
(* a timer that is armed may fire.                                         *)
(***************************************************************************)
EXTENDS Integers, FiniteSets

CONSTANTS
    Subscriptions,       \* the application's subscriptions
    Identities,          \* identity keys a hello may carry
    MaxOpens,            \* bound: calls of #open
    MaxFaults            \* bound: failed opens, drops, error frames, application calls

ASSUME StreamClientAssumption ==
    /\ IsFiniteSet(Subscriptions)
    /\ MaxOpens \in Nat \ {0} /\ MaxFaults \in Nat

VARIABLES
    client,   \* the StreamClient
    opens,    \* every call of #open so far, and its Connection
    subs,     \* what the client's subscriptions know of it
    faults

clientVars == <<client, opens, subs, faults>>

Opens == 1..MaxOpens
NoIdentity == "none"
\* "refused" and "failed" are UNAUTHENTICATED, the second one retryable.
Errors == {"none", "refused", "failed", "other"}
States == {"idle", "connecting", "connected", "reconnecting", "auth-required", "closed"}

ClientType ==
    [state : States, connection : 0..MaxOpens, identity : Identities \cup {NoIdentity},
     generation : Nat, connecting : BOOLEAN, suspended : BOOLEAN, closed : BOOLEAN,
     ever : BOOLEAN, error : Errors, reconnect : BOOLEAN, refresh : BOOLEAN,
     fresh : 1..(MaxOpens + 1)]  \* history: opens since the last reconnect() call
OpenType ==
    [by : {"none", "connect", "refresh"}, generation : Nat, identity : Identities \cup {NoIdentity},
     phase : {"none", "token", "handshake", "hello", "dropped", "open", "closed"}]
SubscriptionType ==
    [phase : {"new", "registered", "ended"}, at : 0..MaxOpens,
     identity : Identities \cup {NoIdentity}]   \* history: the first one it was attached as

Unopened == [by |-> "none", generation |-> 0, identity |-> NoIdentity, phase |-> "none"]
Registered(w) == {s \in Subscriptions : w.subs[s].phase = "registered"}
Unused == {i \in Opens : opens[i].phase = "none"}
NextOpen == MaxOpens + 1 - Cardinality(Unused)
InFlight(i) == opens[i].phase \in {"token", "handshake", "hello", "dropped"}

-----------------------------------------------------------------------------
(* The private methods, as operators from world to world: [c, opens, subs]. *)

World == [c |-> client, opens |-> opens, subs |-> subs]
Becomes(w) == client' = w.c /\ opens' = w.opens /\ subs' = w.subs

Detached(w) == [w EXCEPT !.subs = [s \in Subscriptions |->
                   IF s \in Registered(w) THEN [@[s] EXCEPT !.at = 0] ELSE @[s]]]

\* #suspend
Suspend(w) ==
    [Detached(w) EXCEPT !.c = [@ EXCEPT !.suspended = TRUE, !.reconnect = FALSE,
                                        !.state = "auth-required"]]

\* #scheduleReconnect
ScheduleReconnect(w) ==
    IF w.c.closed \/ w.c.suspended THEN w
    ELSE IF Registered(w) = {}
         THEN [w EXCEPT !.c = [@ EXCEPT !.reconnect = FALSE, !.state = "idle"]]
         ELSE [w EXCEPT !.c = [@ EXCEPT !.reconnect = TRUE, !.state = "reconnecting"]]

\* #open, up to its first await.
Open(w, by) ==
    [w EXCEPT !.opens[NextOpen] = [Unopened EXCEPT !.by = by, !.generation = w.c.generation,
                                                   !.phase = "token"]]

\* #connect, up to its first await.
Connect(w, explicit) ==
    IF w.c.closed THEN w
    ELSE Open([w EXCEPT !.c = [@ EXCEPT
                !.generation = w.c.generation + 1, !.connecting = TRUE,
                !.state = IF w.c.ever /\ ~explicit THEN "reconnecting" ELSE "connecting"]],
              "connect")

CanConnect == Unused # {}

\* A subscription attaches to connection i, and keeps the identity it was first attached as.
Attach(sub, i) ==
    [sub EXCEPT !.at = i, !.identity = IF @ = NoIdentity THEN opens[i].identity ELSE @]

\* Mistake: the connection that is replaced stays open.
AdoptBeside(w, i) ==
    [w EXCEPT !.opens[i].phase = "open",
              !.c = [@ EXCEPT !.connection = i, !.identity = opens[i].identity, !.ever = TRUE,
                              !.error = "none", !.state = "connected"],
              !.subs = [s \in Subscriptions |->
                  IF s \notin Registered(w) THEN @[s] ELSE Attach(@[s], i)]]

\* Mistake: an account switch keeps the subscriptions of the previous user.
AdoptAnyone(w, i) ==
    [w EXCEPT !.opens = [j \in Opens |-> [@[j] EXCEPT
                  !.phase = IF j = i THEN "open" ELSE IF j = w.c.connection THEN "closed"
                            ELSE w.opens[j].phase]],
              !.c = [@ EXCEPT !.connection = i, !.identity = opens[i].identity, !.ever = TRUE,
                              !.error = "none", !.state = "connected"],
              !.subs = [s \in Subscriptions |->
                  IF s \notin Registered(w) THEN @[s] ELSE Attach(@[s], i)]]

\* #adopt: the previous connection closes, another identity's subscriptions end, the others
\* attach.  #scheduleRefresh is the caller's choice: not every expiry can be scheduled.
Adopt(w, i) ==
    LET switched == w.c.identity # NoIdentity /\ w.c.identity # opens[i].identity
    IN [w EXCEPT
          !.opens = [j \in Opens |-> [@[j] EXCEPT
              !.phase = IF j = i THEN "open" ELSE IF j = w.c.connection THEN "closed"
                        ELSE w.opens[j].phase]],
          !.c = [@ EXCEPT !.connection = i, !.identity = opens[i].identity, !.ever = TRUE,
                          !.error = "none", !.state = "connected"],
          !.subs = [s \in Subscriptions |->
              IF s \notin Registered(w) THEN @[s]
              ELSE IF switched THEN [@[s] EXCEPT !.phase = "ended", !.at = 0]
              ELSE Attach(@[s], i)]]

\* Mistake: an expired token is left to a refresh timer that is gone.
HandleDisconnectExpired(w) ==
    LET error == w.c.error
        gone == [Detached(w) EXCEPT !.opens[w.c.connection].phase = "closed",
                                    !.c = [@ EXCEPT !.connection = 0, !.refresh = FALSE,
                                                    !.state = "reconnecting"]]
    IN IF error = "refused" THEN Suspend(gone)
       ELSE IF error = "failed" THEN gone ELSE ScheduleReconnect(gone)

\* #handleDisconnect of the adopted connection.
HandleDisconnect(w) ==
    LET error == w.c.error
        gone == [Detached(w) EXCEPT !.opens[w.c.connection].phase = "closed",
                                    !.c = [@ EXCEPT !.connection = 0, !.refresh = FALSE]]
    IN IF error = "refused" THEN Suspend(gone) ELSE ScheduleReconnect(gone)

\* #handleConnectFailure
HandleConnectFailure(w, error) ==
    LET told == [w EXCEPT !.c = [@ EXCEPT !.connecting = FALSE, !.error = error]]
    IN IF error = "other" THEN ScheduleReconnect(told) ELSE Suspend(told)

Closed(i) == [World EXCEPT !.opens[i].phase = "closed"]

-----------------------------------------------------------------------------
(* The application.                                                        *)

Fault == faults < MaxFaults /\ faults' = faults + 1
Sound == UNCHANGED faults

\* The subscription's microtask registers it: register and #ensureConnection.
Register(s) ==
    /\ subs[s].phase = "new" /\ ~client.closed
    /\ LET w == [World EXCEPT !.subs[s].phase = "registered"]
           idle == ~client.connecting /\ ~client.reconnect
       IN \/ client.suspended /\ Becomes(w)
          \/ ~client.suspended /\ client.connection # 0
             /\ Becomes([w EXCEPT !.subs[s].at = client.connection,
                                  !.subs[s].identity = client.identity])
          \/ ~client.suspended /\ client.connection = 0
             /\ IF idle THEN CanConnect /\ Becomes(Connect(w, FALSE)) ELSE Becomes(w)
    /\ Sound

\* unsubscribe(), or the gateway ends it.
Unregister(s) ==
    /\ subs[s].phase = "registered" /\ Fault
    /\ Becomes([World EXCEPT !.subs[s] = [@ EXCEPT !.phase = "ended", !.at = 0]])

\* reconnect(): the connection is dropped first, so that its disconnect is not handled.
Reconnect ==
    /\ ~client.closed /\ CanConnect /\ Fault
    /\ LET w == IF client.connection = 0 THEN World ELSE Detached(Closed(client.connection))
       IN Becomes(Connect([w EXCEPT !.c = [@ EXCEPT
              !.suspended = FALSE, !.error = "none", !.reconnect = FALSE,
              !.connection = 0, !.fresh = NextOpen]], TRUE))

\* close()
Close ==
    /\ ~client.closed /\ Fault
    /\ LET w == IF client.connection = 0 THEN World ELSE Closed(client.connection)
       IN Becomes([w EXCEPT
            !.c = [@ EXCEPT !.closed = TRUE, !.generation = client.generation + 1,
                            !.reconnect = FALSE, !.refresh = FALSE, !.connection = 0,
                            !.state = "closed"],
            !.subs = [s \in Subscriptions |->
                IF s \in Registered(w) THEN [@[s] EXCEPT !.phase = "ended", !.at = 0] ELSE @[s]]])

-----------------------------------------------------------------------------
(* The opens.                                                              *)

\* getToken resolves, and a Connection starts its handshake.
TokenArrives(i) ==
    /\ opens[i].phase = "token" /\ Sound
    /\ Becomes([World EXCEPT !.opens[i].phase = "handshake"])

\* The gateway's so:hello arrives.
HelloArrives(i) ==
    /\ opens[i].phase = "handshake" /\ Sound
    /\ \E identity \in Identities :
          Becomes([World EXCEPT !.opens[i] = [@ EXCEPT !.phase = "hello", !.identity = identity]])

\* The socket closes with the hello, before #open continues: nothing is routed yet.
HelloDrops(i) ==
    /\ opens[i].phase = "hello" /\ Fault
    /\ Becomes([World EXCEPT !.opens[i].phase = "dropped"])

\* Whose generation it is: reconnect(), close() or another open may have come first.
Current(i) == opens[i].generation = client.generation

\* #open throws, and #connect or #refresh catches it.  A refresh tries again while the
\* token lasts, and never tells the client's state.
OpenFails(i, error) ==
    LET w == Closed(i)
    IN IF ~Current(i) THEN Becomes(w)
       ELSE IF opens[i].by = "connect" THEN Becomes(HandleConnectFailure(w, error))
       ELSE \E again \in BOOLEAN : Becomes([w EXCEPT !.c.refresh = @ \/ again])

\* getToken fails or takes ten seconds; the gateway refuses the handshake; the network does;
\* or the connection closed with its hello.
TokenFails(i) == opens[i].phase = "token" /\ Fault /\ OpenFails(i, "failed")
HandshakeFails(i) ==
    /\ opens[i].phase = "handshake" /\ Fault
    /\ \E error \in {"refused", "other"} : OpenFails(i, error)
DroppedFails(i) == opens[i].phase = "dropped" /\ Sound /\ OpenFails(i, "other")

\* #open resolves; #connect and #refresh close a connection that is no longer wanted.
Opened(i) ==
    /\ opens[i].phase = "hello" /\ Sound
    /\ LET mine == Current(i) /\ (opens[i].by = "refresh" => ~client.suspended)
           w == IF opens[i].by = "connect"
                THEN [World EXCEPT !.c.connecting = FALSE]
                ELSE [World EXCEPT !.c.generation = @ + 1]
       IN IF ~mine THEN Becomes(Closed(i))
          ELSE \E timer \in BOOLEAN : Becomes([Adopt(w, i) EXCEPT !.c.refresh = timer])

-----------------------------------------------------------------------------
(* Timers and the adopted connection.                                      *)

ReconnectTimer ==
    /\ client.reconnect /\ Sound
    /\ LET w == [World EXCEPT !.c.reconnect = FALSE]
       IN IF Registered(w) = {} THEN Becomes([w EXCEPT !.c.state = "idle"])
          ELSE CanConnect /\ Becomes(Connect(w, FALSE))

RefreshTimer ==
    /\ client.refresh /\ Sound
    /\ LET w == [World EXCEPT !.c.refresh = FALSE]
       IN IF client.closed \/ client.suspended \/ client.connection = 0 THEN Becomes(w)
          ELSE CanConnect /\ Becomes(Open(w, "refresh"))

\* A connection-level error frame: the token expired, the session was revoked, or another.
ErrorFrame ==
    /\ client.connection # 0 /\ Fault
    /\ \E error \in Errors \ {"none"} : Becomes([World EXCEPT !.c.error = error])

\* The socket drops, or controlTimedOut closes it.
Drop ==
    /\ client.connection # 0 /\ Fault
    /\ Becomes(HandleDisconnect(World))

ClientInit ==
    /\ client = [state |-> "idle", connection |-> 0, identity |-> NoIdentity, generation |-> 0,
                 connecting |-> FALSE, suspended |-> FALSE, closed |-> FALSE, ever |-> FALSE,
                 error |-> "none", reconnect |-> FALSE, refresh |-> FALSE, fresh |-> 1]
    /\ opens = [i \in Opens |-> Unopened]
    /\ subs = [s \in Subscriptions |-> [phase |-> "new", at |-> 0, identity |-> NoIdentity]]
    /\ faults = 0

ClientMoves ==
    \/ \E i \in Opens : TokenArrives(i) \/ HelloArrives(i) \/ DroppedFails(i) \/ Opened(i)
    \/ ReconnectTimer \/ RefreshTimer

ClientNext ==
    \/ ClientMoves
    \/ \E s \in Subscriptions : Register(s) \/ Unregister(s)
    \/ \E i \in Opens : HelloDrops(i) \/ TokenFails(i) \/ HandshakeFails(i)
    \/ Reconnect \/ Close \/ ErrorFrame \/ Drop

ClientSpec == ClientInit /\ [][ClientNext]_clientVars

=============================================================================
