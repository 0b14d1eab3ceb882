------------------------- MODULE ClientSubscription -------------------------
(***************************************************************************)
(* One subscription of the client SDK (packages/client/src/subscription.ts)*)
(* and the gateway's side of the same connection, joined by the two        *)
(* directions of an ordered socket.                                        *)
(*                                                                         *)
(* The SDK object is the record client; its methods are operators from     *)
(* that record to that record, and what a method sends is a sequence.  An  *)
(* acknowledgement is applied in two parts, as in the code: its onResult   *)
(* callback at once, and the rest when the promise resumes; frames of the  *)
(* same socket read may be applied in between (followups).                 *)
(*                                                                         *)
(* The gateway's subscription is modelled by what it puts on the wire and  *)
(* how it answers requests (ServerSubscription has its insides): peer.     *)
(* A revision stands for the state it versions; epoch 0 is null and "".    *)
(***************************************************************************)
EXTENDS Integers, Sequences

CONSTANTS
    LocalSyncAttempts,  \* LOCAL_SYNC_ATTEMPTS
    MaxSyncAttempts,    \* limits.maxSyncAttempts
    MaxRevision,        \* bound: states the source carries
    MaxFaults           \* bound: disconnections, refusals, outages, failed attempts,
                        \* lagging reads, listener failures and resync() calls together

ASSUME ClientAssumption ==
    /\ LocalSyncAttempts \in Nat \ {0}
    /\ MaxSyncAttempts \in Nat \ {0}
    /\ MaxRevision \in Nat \ {0}
    /\ MaxFaults \in Nat

VARIABLES
    client,     \* the SDK's ClientSubscription
    followups,  \* acknowledgements whose promise has not resumed
    up, down,   \* the socket's two directions
    peer,       \* the gateway's session and subscription
    source,     \* newest state, and whether its source is ready
    faults      \* faults used so far

vars == <<client, followups, up, down, peer, source, faults>>

-----------------------------------------------------------------------------
(* The messages.                                                           *)

SubscriptionStates == {"idle", "authorizing", "synchronizing", "live", "stale",
                       "resync-required", "closed", "failed"}

State(state, epoch) == [kind |-> "state", state |-> state, epoch |-> epoch]
Data(epoch, sequence, revision) ==
    [kind |-> "data", epoch |-> epoch, sequence |-> sequence, revision |-> revision]
\* An acknowledgement names the epoch its request's closure captured.
Ack(of, result, replacing) ==
    [kind |-> "ack", of |-> of, result |-> result, replacing |-> replacing]
Request(of, replacing) == [kind |-> of, replacing |-> replacing]
Receipt(epoch, sequence) == [kind |-> "receipt", epoch |-> epoch, sequence |-> sequence]
Goodbye == [kind |-> "disconnect"]

ClientType == [state : SubscriptionStates,
               attached : BOOLEAN,       \* #attached, the connected connection
               knows : BOOLEAN,          \* #serverKnows
               subscribing : BOOLEAN,    \* #subscribeInFlight
               epoch : Nat,
               replacing : Nat,
               pending : BOOLEAN,        \* #resyncPending
               awaiting : BOOLEAN,       \* #awaitingEpoch
               expected : Nat,           \* #expectedSequence
               epochRevision : Nat,
               lastRevision : Nat,
               failures : Nat,           \* #localFailures
               timer : {"none", "subscribe", "resync"}, \* #retryTimer and what it runs
               release : BOOLEAN,        \* retry timer of #sendUnsubscribe
               shown : Nat,              \* revision last given to the listeners
               gaveUp : BOOLEAN]         \* #localSyncFailure ran out of attempts

PeerPhases == {"authorizing", "waiting-source", "capturing", "snapshot-sent", "draining",
               "live", "backoff", "resync-required", "none"}
PeerType == [open : BOOLEAN,             \* the session
             phase : PeerPhases,         \* none: it holds no subscription
             epoch : Nat,
             issued : Nat,               \* epochs ever issued, by any connection
             sequence : Nat,
             inFlight : [sequence : Nat, revision : Nat],
             queue : Seq(Nat),
             drain : Int,                \* #drainRemaining
             tail : Nat,
             lastDelivered : Nat,
             attempts : Nat]

Nothing == [sequence |-> 0, revision |-> 0]
NoPeer(issued) == [open |-> TRUE, phase |-> "none", epoch |-> 0, issued |-> issued,
                   sequence |-> 0, inFlight |-> Nothing, queue |-> <<>>, drain |-> 0,
                   tail |-> 0, lastDelivered |-> 0, attempts |-> 0]

Ended(c) == c.state \in {"closed", "failed"}
Held(p) == p.phase # "none"
PeerCapturing(p) == p.phase \in {"capturing", "snapshot-sent", "draining", "live"}

Bigger(a, b) == IF a >= b THEN a ELSE b

-----------------------------------------------------------------------------
(* The SDK's methods.  Each yields [client, send].                         *)

Does(c, messages) == [client |-> c, send |-> messages]

\* #setState
SetState(c, state) ==
    IF Ended(c) THEN c
    ELSE [c EXCEPT !.state = state,
                   !.pending = @ /\ state # "resync-required"]

\* #terminate
Terminate(c, state) ==
    IF Ended(c) THEN c
    ELSE [c EXCEPT !.timer = "none", !.attached = FALSE, !.state = state]

\* attach, with the request #subscribe sends before its await.
Attach(c) ==
    Does(SetState([c EXCEPT !.timer = "none", !.attached = TRUE, !.knows = FALSE,
                            !.subscribing = TRUE, !.epoch = 0, !.replacing = 0,
                            !.pending = FALSE, !.awaiting = TRUE, !.gaveUp = FALSE],
                  "authorizing"),
         <<Request("subscribe", 0)>>)

\* detach
Detach(c) ==
    LET d == [c EXCEPT !.timer = "none", !.attached = FALSE, !.knows = FALSE,
                       !.subscribing = FALSE, !.awaiting = TRUE, !.replacing = 0,
                       !.pending = FALSE]
    IN IF Ended(c) \/ c.state = "resync-required" THEN d ELSE SetState(d, "stale")

\* Mistake: an unanswered subscribe is taken for one the gateway never saw.
EndKnown(c, state) ==
    Does([Terminate(c, state) EXCEPT !.gaveUp = FALSE],
         IF c.knows /\ c.attached THEN <<Request("unsubscribe", 0)>> ELSE <<>>)

\* unsubscribe, and a listener that throws.
End(c, state) ==
    Does([Terminate(c, state) EXCEPT !.gaveUp = FALSE],
         IF (c.knows \/ c.subscribing) /\ c.attached
         THEN <<Request("unsubscribe", 0)>> ELSE <<>>)

\* #requestFreshSynchronization
RequestFresh(c) ==
    CASE ~c.attached -> Does(c, <<>>)
      [] c.attached /\ ~c.knows ->
            IF c.state = "authorizing" THEN Does(c, <<>>) ELSE Attach(c)
      [] OTHER ->
            IF c.state \in {"authorizing", "synchronizing"} \/ c.pending
            THEN Does(c, <<>>)
            ELSE Does([c EXCEPT !.timer = "none", !.replacing = c.epoch, !.pending = TRUE,
                                !.awaiting = TRUE,
                                !.state = IF @ = "stale" THEN @ ELSE "authorizing"],
                      <<Request("resync", c.epoch)>>)

\* #localSyncFailure
LocalSyncFailure(c) ==
    LET f == [c EXCEPT !.failures = @ + 1]
    IN IF f.failures >= LocalSyncAttempts
       THEN Does([SetState([f EXCEPT !.knows = FALSE, !.awaiting = TRUE],
                           "resync-required") EXCEPT !.gaveUp = TRUE],
                 IF c.knows THEN <<Request("unsubscribe", 0)>> ELSE <<>>)
       ELSE RequestFresh(SetState(f, "stale"))

\* A refusal over a limit: back off and ask again, or give up.
Refused(c, timer) ==
    LET f == [c EXCEPT !.failures = @ + 1]
    IN IF f.failures >= LocalSyncAttempts
       THEN SetState(f, "resync-required")
       ELSE [SetState(f, "stale") EXCEPT !.timer = timer]

\* Mistake: the epoch that was awaited is still awaited when it comes.
AcceptEpochAwaits(c, epoch) ==
    SetState([c EXCEPT !.epoch = epoch, !.replacing = 0, !.pending = FALSE,
                       !.expected = 1, !.epochRevision = 0], "synchronizing")

\* handleState, "synchronizing": a new epoch.
AcceptEpoch(c, epoch) ==
    IF epoch = c.epoch /\ ~c.awaiting THEN c
    ELSE SetState([c EXCEPT !.epoch = epoch, !.replacing = 0, !.pending = FALSE,
                            !.awaiting = FALSE, !.expected = 1, !.epochRevision = 0],
                  "synchronizing")

\* handleState, any other state: only for the epoch it knows, and progress of
\* an epoch it asked to replace does not count.
FrameApplies(c, m) ==
    /\ m.epoch = c.epoch
    /\ ~(c.replacing # 0 /\ m.epoch = c.replacing /\ m.state \in {"live", "resync-required"})
    /\ ~(m.state = "live" /\ c.awaiting)

HandleState(c, m) ==
    LET k == [c EXCEPT !.knows = TRUE]
    IN CASE ~c.attached -> c
         [] c.attached /\ m.state = "synchronizing" -> AcceptEpoch(k, m.epoch)
         [] c.attached /\ m.state # "synchronizing" /\ ~FrameApplies(c, m) -> k
         [] OTHER ->
              IF m.state = "failed"
              THEN Terminate([k EXCEPT !.knows = FALSE, !.gaveUp = FALSE], m.state)
              ELSE SetState([k EXCEPT !.failures = IF m.state = "live" THEN 0 ELSE @], m.state)

\* Mistake: a snapshot is compared with its own epoch only.
FrameFollowsInEpoch(c, m) ==
    m.sequence = c.expected /\ m.revision > c.epochRevision

\* handleData: the frame follows the last one of its epoch, and a snapshot is
\* no older than what was shown before it.  Sequence 1 is the snapshot.
FrameFollows(c, m) ==
    /\ m.sequence = c.expected
    /\ IF m.sequence = 1 THEN m.revision >= c.lastRevision
       ELSE m.revision > c.epochRevision

Dispatched(c, revision) ==
    [c EXCEPT !.expected = @ + 1, !.epochRevision = revision, !.shown = revision,
              !.lastRevision = Bigger(@, revision)]

\* throws: a data listener fails the subscription.
HandleData(c, m, throws) ==
    LET k == [c EXCEPT !.knows = TRUE]
        receipt == <<Receipt(m.epoch, m.sequence)>>
    IN CASE ~c.attached -> Does(c, <<>>)
         [] c.attached /\ (c.awaiting \/ m.epoch # c.epoch) ->
              Does(k, IF m.epoch = c.epoch THEN receipt ELSE <<>>)
         [] c.attached /\ ~c.awaiting /\ m.epoch = c.epoch /\ ~FrameFollows(c, m) ->
              LocalSyncFailure(k)
         [] OTHER -> IF throws THEN End(Dispatched(k, m.revision), "failed")
                     ELSE Does(Dispatched(k, m.revision), receipt)

\* The onResult callback of a resync: later frames follow the request.
Acknowledged(c, m) ==
    IF m.of = "resync" /\ m.result = "ok" /\ c.attached /\ c.replacing = m.replacing
    THEN [c EXCEPT !.replacing = 0] ELSE c

\* The rest of #subscribe, once its request has answered.
SubscribeAnswered(c, result) ==
    LET f == [c EXCEPT !.subscribing = FALSE]
    IN CASE ~c.attached -> Does(f, <<>>)
         [] c.attached /\ result = "ok" -> Does([f EXCEPT !.knows = TRUE], <<>>)
         [] c.attached /\ result = "OVERLOADED" -> Does(Refused(f, "subscribe"), <<>>)
         [] OTHER -> Does(Terminate(f, "failed"), <<>>)

\* The rest of a refused resync.
ResyncRefused(c, m) ==
    CASE ~c.attached -> Does(c, <<>>)
      [] c.attached /\ m.result = "INVALID_REQUEST" -> Attach(c)
      [] OTHER ->
           IF c.replacing # m.replacing \/ c.epoch # m.replacing THEN Does(c, <<>>)
           ELSE Does(Refused([c EXCEPT !.replacing = 0, !.pending = FALSE,
                                       !.awaiting = TRUE], "resync"), <<>>)

-----------------------------------------------------------------------------
(* The SDK's steps.                                                        *)

Uses(n) == faults + n <= MaxFaults /\ faults' = faults + n

\* client applies r: its new state, and what it sends if its socket is open.
Sends(r) ==
    /\ client' = r.client
    /\ up' = IF peer.open THEN up \o r.send ELSE up

NewClient == [state |-> "idle", attached |-> FALSE, knows |-> FALSE, subscribing |-> FALSE,
              epoch |-> 0, replacing |-> 0, pending |-> FALSE, awaiting |-> TRUE,
              expected |-> 1, epochRevision |-> 0, lastRevision |-> 0, failures |-> 0,
              timer |-> "none", release |-> FALSE, shown |-> 0, gaveUp |-> FALSE]

Init ==
    /\ client = NewClient
    /\ followups = <<>>
    /\ up = <<>> /\ down = <<>>
    /\ peer = [NoPeer(0) EXCEPT !.open = FALSE]
    /\ source = [newest |-> 1, ready |-> TRUE]
    /\ faults = 0

\* #adopt: a connection has authenticated.
Adopts ==
    /\ ~Ended(client)
    /\ LET r == Attach(client)
       IN /\ client' = [r.client EXCEPT !.release = FALSE]
          /\ up' = r.send
    /\ down' = <<>>
    /\ followups' = <<>>
    /\ peer' = NoPeer(peer.issued)
    /\ UNCHANGED source

Connects == ~client.attached /\ Adopts /\ UNCHANGED faults

\* A refresh replaces the connection without detaching first.
Refreshes == client.attached /\ Adopts /\ Uses(1)

Drops ==
    /\ client' = [Detach(client) EXCEPT !.release = FALSE]
    /\ up' = <<>> /\ down' = <<>>
    /\ followups' = <<>>
    /\ peer' = [NoPeer(peer.issued) EXCEPT !.open = FALSE]
    /\ UNCHANGED source

\* The transport is lost.
Disconnected == client.attached /\ Drops /\ Uses(1)

DeliverState ==
    /\ down # <<>> /\ Head(down).kind = "state"
    /\ client' = HandleState(client, Head(down))
    /\ down' = Tail(down)
    /\ UNCHANGED <<followups, up, peer, source, faults>>

DeliverData ==
    /\ down # <<>> /\ Head(down).kind = "data"
    /\ \E throws \in BOOLEAN :
          /\ Sends(HandleData(client, Head(down), throws))
          /\ IF throws THEN Uses(1) ELSE UNCHANGED faults
    /\ down' = Tail(down)
    /\ UNCHANGED <<followups, peer, source>>

\* A refused unsubscribe is sent again later; every other acknowledgement that
\* has something left to do waits for its promise.
DeliverAck ==
    /\ down # <<>> /\ Head(down).kind = "ack"
    /\ LET m == Head(down)
       IN /\ client' = [Acknowledged(client, m) EXCEPT
                           !.release = @ \/ (m.of = "unsubscribe" /\ m.result = "OVERLOADED")]
          /\ followups' = IF m.of = "unsubscribe" \/ (m.of = "resync" /\ m.result = "ok")
                          THEN followups ELSE Append(followups, m)
    /\ down' = Tail(down)
    /\ UNCHANGED <<up, peer, source, faults>>

\* The gateway closed the session; whatever it sent before has been read.
DeliverDisconnect ==
    /\ down # <<>> /\ Head(down).kind = "disconnect"
    /\ Drops
    /\ UNCHANGED faults

FollowUp ==
    /\ followups # <<>>
    /\ LET m == Head(followups)
       IN Sends(IF m.of = "subscribe" THEN SubscribeAnswered(client, m.result)
                ELSE ResyncRefused(client, m))
    /\ followups' = Tail(followups)
    /\ UNCHANGED <<down, peer, source, faults>>

\* #retryTimer: promises resume before a timer runs.
RetryTimer ==
    /\ client.timer # "none" /\ followups = <<>>
    /\ LET c == [client EXCEPT !.timer = "none"]
       IN Sends(CASE ~c.attached -> Does(c, <<>>)
                  [] c.attached /\ client.timer = "subscribe" -> Attach(c)
                  [] OTHER -> RequestFresh(c))
    /\ UNCHANGED <<followups, down, peer, source, faults>>

ReleaseTimer ==
    /\ client.release /\ followups = <<>>
    /\ Sends(Does([client EXCEPT !.release = FALSE], <<Request("unsubscribe", 0)>>))
    /\ UNCHANGED <<followups, down, peer, source, faults>>

\* resync()
UserResync ==
    /\ ~Ended(client) /\ client.state # "idle"
    /\ Sends(IF client.pending THEN Does(client, <<>>)
             ELSE RequestFresh([client EXCEPT !.failures = 0, !.gaveUp = FALSE]))
    /\ Uses(1)
    /\ UNCHANGED <<followups, down, peer, source>>

\* unsubscribe(), or a state listener that throws.
Ends ==
    /\ ~Ended(client)
    /\ \E state \in {"closed", "failed"} : Sends(End(client, state))
    /\ Uses(1)
    /\ UNCHANGED <<followups, down, peer, source>>

-----------------------------------------------------------------------------
(* The gateway's side.  Each operator yields [peer, send].                 *)

Tells(p, messages) == [peer |-> p, send |-> messages]

\* #invalidate
Reset(p) == [p EXCEPT !.queue = <<>>, !.inFlight = Nothing, !.drain = 0, !.tail = 0]

\* #beginAttempt, to its first await.
BeginAttempt(p, announce) ==
    Tells([Reset(p) EXCEPT !.phase = "authorizing", !.attempts = @ + 1],
          IF announce THEN <<State("authorizing", p.epoch)>> ELSE <<>>)

\* #attemptFailed
AttemptFailed(p) ==
    LET gone == p.attempts >= MaxSyncAttempts
    IN Tells([Reset(p) EXCEPT !.phase = IF gone THEN "resync-required" ELSE "backoff"],
             <<State("stale", p.epoch)>> \o
                (IF gone THEN <<State("resync-required", p.epoch)>> ELSE <<>>))

\* #transmit
Transmit(p, revision) ==
    Tells([p EXCEPT !.sequence = @ + 1,
                    !.inFlight = [sequence |-> p.sequence + 1, revision |-> revision]],
          <<Data(p.epoch, p.sequence + 1, revision)>>)

\* #pump
Pump(p) ==
    IF p.inFlight # Nothing \/ p.phase \notin {"draining", "live"} \/ p.queue = <<>>
    THEN Tells(p, <<>>)
    ELSE Transmit([p EXCEPT !.queue = Tail(@)], Head(p.queue))

\* #goLive
GoLive(p) ==
    LET r == Pump([p EXCEPT !.phase = "live", !.attempts = 0])
    IN Tells(r.peer, <<State("live", p.epoch)>> \o r.send)

\* A receipt for a frame that was not sent, or that skips the one in flight.
Violates(p, m) ==
    /\ PeerCapturing(p) /\ m.epoch = p.epoch
    /\ IF p.inFlight = Nothing \/ m.sequence < p.inFlight.sequence
       THEN m.sequence > p.sequence
       ELSE m.sequence > p.inFlight.sequence

\* Mistake: what was admitted during the snapshot is taken to be in it.
ReceivedDropsBacklog(p) ==
    LET r == [p EXCEPT !.inFlight = Nothing, !.lastDelivered = Bigger(@, p.inFlight.revision)]
    IN IF p.phase = "live" THEN Pump(r) ELSE GoLive([r EXCEPT !.queue = <<>>])

\* The filter of onReceipt; the queue is increasing (Admit), so what it drops
\* is a prefix.
FirstNewer(q, revision) ==
    CHOOSE i \in 1..(Len(q) + 1) :
        /\ \A j \in 1..(i - 1) : q[j] <= revision
        /\ i <= Len(q) => q[i] > revision
Newer(q, revision) == SubSeq(q, FirstNewer(q, revision), Len(q))

\* The receipt of the frame in flight, in each phase.
Received(p) ==
    LET r == [p EXCEPT !.inFlight = Nothing,
                       !.lastDelivered = Bigger(@, p.inFlight.revision)]
        kept == Newer(p.queue, p.inFlight.revision)
    IN CASE p.phase = "snapshot-sent" ->
              LET d == [r EXCEPT !.queue = kept, !.drain = Len(kept), !.phase = "draining"]
              IN IF kept = <<>> THEN GoLive(d) ELSE Pump(d)
         [] p.phase = "draining" ->
              LET d == [r EXCEPT !.drain = @ - 1]
              IN IF d.drain <= 0 THEN GoLive(d) ELSE Pump(d)
         [] OTHER -> Pump(r)

\* onReceipt
OnReceipt(p, m) ==
    CASE Violates(p, m) -> AttemptFailed(p)
      [] PeerCapturing(p) /\ m.epoch = p.epoch /\ p.inFlight # Nothing
         /\ m.sequence = p.inFlight.sequence -> Received(p)
      [] OTHER -> Tells(p, <<>>)

\* admit, of a state newer than the tail.
Admit(p, revision) ==
    IF PeerCapturing(p) /\ revision > p.tail
    THEN Pump([p EXCEPT !.queue = Append(@, revision), !.tail = revision])
    ELSE Tells(p, <<>>)

\* requestResync
RequestResync(p) ==
    CASE p.phase \in {"backoff", "snapshot-sent", "draining"} -> BeginAttempt(p, TRUE)
      [] p.phase \in {"live", "resync-required"} ->
            BeginAttempt([p EXCEPT !.attempts = 0], TRUE)
      [] OTHER -> Tells(p, <<>>)

\* dispose
Dispose(p) == [NoPeer(p.issued) EXCEPT !.open = p.open]

-----------------------------------------------------------------------------
(* The gateway's steps.                                                    *)

\* The gateway applies r and sends what it sends.
Tell(r) == peer' = r.peer /\ down' = down \o r.send

\* The next message of the client is of this kind, and is taken.
Takes(kind) ==
    /\ peer.open /\ up # <<>> /\ Head(up).kind = kind
    /\ up' = Tail(up)
    /\ UNCHANGED <<client, followups, source>>

Answer(m, result, r) == Tell([r EXCEPT !.send = <<Ack(m.kind, result, m.replacing)>> \o @])

\* handleSubscribe; the acknowledgement goes out before start().
TakeSubscribe ==
    /\ Takes("subscribe")
    /\ Answer(Head(up), "ok",
              IF Held(peer) THEN Tells(peer, <<>>) ELSE BeginAttempt(peer, FALSE))
    /\ UNCHANGED faults

\* handleResync
TakeResync ==
    /\ Takes("resync")
    /\ IF Held(peer) THEN Answer(Head(up), "ok", RequestResync(peer))
       ELSE Answer(Head(up), "INVALID_REQUEST", Tells(peer, <<>>))
    /\ UNCHANGED faults

\* handleUnsubscribe
TakeUnsubscribe ==
    /\ Takes("unsubscribe")
    /\ Answer(Head(up), "ok", Tells(Dispose(peer), <<>>))
    /\ UNCHANGED faults

\* Over the control rate or the subscription limit, or not authorized for the
\* channel.  Releasing a subscription it holds is exempt.
Refuses ==
    /\ \E kind \in {"subscribe", "resync", "unsubscribe"} :
          /\ Takes(kind)
          /\ kind = "unsubscribe" => ~Held(peer)
          /\ \E result \in {"OVERLOADED", "FORBIDDEN"} :
                /\ result = "FORBIDDEN" => kind = "subscribe" /\ ~Held(peer)
                /\ Answer(Head(up), result, Tells(peer, <<>>))
    /\ Uses(1)

TakeReceipt ==
    /\ Takes("receipt")
    /\ Tell(OnReceipt(peer, Head(up)))
    /\ UNCHANGED faults

\* #authorize has allowed the attempt: wait for the source, or capture.
Authorized ==
    /\ peer.open /\ peer.phase = "authorizing"
    /\ Tell(IF source.ready
            THEN Tells([peer EXCEPT !.phase = "capturing", !.epoch = peer.issued + 1,
                                    !.issued = @ + 1, !.sequence = 0],
                       <<State("synchronizing", peer.issued + 1)>>)
            ELSE Tells([peer EXCEPT !.phase = "waiting-source", !.attempts = @ - 1],
                       <<State("stale", peer.epoch)>>))
    /\ UNCHANGED <<client, followups, up, source, faults>>

\* The snapshot arrives, perhaps read before the newest states; one older than
\* what this client has receipted fails the attempt.
Snapshot ==
    /\ peer.open /\ peer.phase = "capturing"
    /\ \E revision \in 1..source.newest :
          /\ IF revision < source.newest THEN Uses(1) ELSE UNCHANGED faults
          /\ Tell(IF revision < peer.lastDelivered THEN AttemptFailed(peer)
                  ELSE Transmit([peer EXCEPT !.phase = "snapshot-sent",
                                             !.tail = Bigger(@, revision)], revision))
    /\ UNCHANGED <<client, followups, up, source>>

\* A handler times out, or a queue overflows.
AttemptFails ==
    /\ peer.open /\ peer.phase \in {"authorizing", "capturing", "snapshot-sent", "draining", "live"}
    /\ Tell(AttemptFailed(peer))
    /\ Uses(1)
    /\ UNCHANGED <<client, followups, up, source>>

BackoffEnds ==
    /\ peer.open /\ peer.phase = "backoff"
    /\ Tell(BeginAttempt(peer, TRUE))
    /\ UNCHANGED <<client, followups, up, source, faults>>

\* fail: a handler throws, or authorization is refused or revoked.
Fails ==
    /\ peer.open /\ Held(peer)
    /\ Tell(Tells(Dispose(peer), <<State("failed", peer.epoch)>>))
    /\ Uses(1)
    /\ UNCHANGED <<client, followups, up, source>>

\* close: the token expired, or a receipt did not come in time.
SessionCloses ==
    /\ peer.open
    /\ peer' = [NoPeer(peer.issued) EXCEPT !.open = FALSE]
    /\ down' = Append(down, Goodbye)
    /\ up' = <<>>
    /\ Uses(1)
    /\ UNCHANGED <<client, followups, source>>

\* onSourceUnavailable
SourceDown ==
    /\ source.ready
    /\ source' = [source EXCEPT !.ready = FALSE]
    /\ Tell(IF PeerCapturing(peer) \/ peer.phase \in {"authorizing", "backoff"}
            THEN Tells([Reset(peer) EXCEPT !.phase = "waiting-source"],
                       <<State("stale", peer.epoch)>>)
            ELSE Tells(peer, <<>>))
    /\ Uses(1)
    /\ UNCHANGED <<client, followups, up>>

\* onSourceReady
SourceUp ==
    /\ ~source.ready
    /\ source' = [source EXCEPT !.ready = TRUE]
    /\ Tell(IF peer.phase = "waiting-source" THEN BeginAttempt(peer, TRUE)
            ELSE Tells(peer, <<>>))
    /\ UNCHANGED <<client, followups, up, faults>>

\* The source carries a newer state.
Record ==
    /\ source.ready /\ source.newest < MaxRevision
    /\ source' = [source EXCEPT !.newest = @ + 1]
    /\ Tell(Admit(peer, source.newest + 1))
    /\ UNCHANGED <<client, followups, up, faults>>

-----------------------------------------------------------------------------
PeerSteps == \/ TakeSubscribe \/ TakeResync \/ TakeUnsubscribe \/ TakeReceipt
             \/ Authorized \/ Snapshot \/ BackoffEnds
SdkSteps == \/ DeliverState \/ DeliverData \/ DeliverAck \/ DeliverDisconnect
            \/ FollowUp \/ RetryTimer \/ ReleaseTimer

Next == \/ SdkSteps \/ PeerSteps
        \/ Connects \/ Refreshes \/ Disconnected \/ UserResync \/ Ends
        \/ Refuses \/ AttemptFails \/ Fails \/ SessionCloses
        \/ SourceDown \/ SourceUp \/ Record

Spec == Init /\ [][Next]_vars

\* Both event loops keep running, and the SDK reconnects.
FairSpec == Spec /\ WF_vars(SdkSteps) /\ WF_vars(PeerSteps) /\ WF_vars(Connects)
=============================================================================
