-------------------------- MODULE ClientProperties --------------------------
(***************************************************************************)
(* What the SDK's subscription promises an application, over a connection  *)
(* that fails and a gateway that refuses, fails, retries and restarts      *)
(* synchronizations on its own.                                            *)
(***************************************************************************)
EXTENDS ClientSubscription

-----------------------------------------------------------------------------
(* The shape of the state: the SDK object's fields, the session's          *)
(* subscription, and the two directions of the socket.                     *)
ClientTypeOK ==
    /\ client \in ClientType
    /\ peer \in PeerType
    /\ \A i \in 1..Len(followups) : followups[i].kind = "ack"
    /\ \A i \in 1..Len(up) : up[i].kind \in {"subscribe", "resync", "unsubscribe", "receipt"}
    /\ \A i \in 1..Len(down) : down[i].kind \in {"state", "data", "ack", "disconnect"}
    /\ source.newest \in 1..MaxRevision
    /\ faults \in 0..MaxFaults

OnTheWay(Test(_)) == \E i \in 1..Len(down) : Test(down[i])

\* What the gateway has admitted to the client's epoch and the client has not
\* been given: queued, or a data frame still on the way.
StillToCome(revision) ==
    \/ \E i \in 1..Len(peer.queue) : peer.queue[i] = revision
    \/ OnTheWay(LAMBDA m : m.kind = "data" /\ m.epoch = client.epoch /\ m.revision = revision)

\* A view that says live either shows the newest state the gateway admitted to
\* its epoch or that state is on its way to it, in order; or the gateway has
\* left that epoch and the word of it is on the way (handleState, handleData:
\* "never reports live for a disconnected or superseded view").  It holds within
\* the faults of the run; ClientSchedules.LateRelease is how it fails beyond them.
LiveIsHonest ==
    client.state = "live" =>
        /\ client.attached
        /\ \/ /\ peer.phase = "live" /\ peer.epoch = client.epoch
              /\ client.shown = peer.tail \/ StillToCome(peer.tail)
           \/ OnTheWay(LAMBDA m : m.kind = "disconnect" \/ (m.kind = "state" /\ m.state # "live"))

\* What the listeners are given never goes back, across epochs, resyncs,
\* reconnections and lagging snapshots (handleData's #lastRevision check).
DeliveryNeverRegresses == [][client'.shown >= client.shown]_vars

Quiet == peer.open /\ up = <<>> /\ down = <<>> /\ followups = <<>>

\* A subscription that ended, in whatever state its requests were, is released:
\* nothing of it is left at the gateway once the wire is empty (unsubscribe,
\* #listenerFailed: "an unsubscribe sent while the subscribe is unanswered
\* arrives after it").  It holds within the faults of the run;
\* ClientSchedules.TwoSubscribes is how it fails beyond them.
EndedIsReleased ==
    Ended(client) /\ Quiet /\ ~client.release => ~Held(peer)

\* docs/V1_API.md:138 "Exhaustion enters `resync-required`", :91 "A resync can recover" it: once
\* the faults stop, a view stops at live, at resync-required, at its end, or at stale while the
\* source is down.  One exception: when the SDK itself gave up, its unsubscribe releases the
\* gateway's side, but a frame already on the way replaces resync-required by stale, authorizing or
\* synchronizing (handleState), and nothing follows that frame until the application calls
\* resync().  It holds within the faults of the run; ClientSchedules.StuckResync is how a resync()
\* of such a view changes nothing.
Settled ==
    \/ client.state \in {"live", "resync-required", "closed", "failed"}
    \/ client.state = "stale" /\ peer.phase = "waiting-source"
    \/ client.gaveUp /\ ~Held(peer)
Settles == <>[]Settled
=============================================================================
