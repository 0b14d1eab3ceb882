------------------------- MODULE ServerSubscription -------------------------
(***************************************************************************)
(* The server side of one subscription (packages/gateway/src/runtime/      *)
(* subscription.ts): authorize, require the source, capture, snapshot,     *)
(* recheck, send the snapshot, wait for its receipt, drain the buffered    *)
(* newer states, go live.                                                  *)
(*                                                                         *)
(* The object's private fields are one record, sub; each method is an      *)
(* operator from that record to that record, so that a call made inside a  *)
(* method, including the ones that come back into the object (a frame sent *)
(* to a client that stopped reading tears the session down and disposes    *)
(* this subscription), is part of the step.  What happens between two      *)
(* awaits of #beginAttempt is one step; sub.task is the attempt's          *)
(* suspended coroutine.                                                    *)
(*                                                                         *)
(* A revision stands for the whole state it versions; 0 stands for null.   *)
(***************************************************************************)
EXTENDS Integers, Sequences

CONSTANTS
    MaxFrames,        \* limits.maxPendingFramesPerSubscription
    MaxSyncAttempts,  \* limits.maxSyncAttempts
    MaxSequence,      \* Number.MAX_SAFE_INTEGER, scaled down
    MaxRevision,      \* bound: revisions the application writes
    MaxBoundary,      \* bound: recovery boundaries ever put in force
    MaxFlaps,         \* bound: times the source stops being ready
    MaxResyncs,       \* bound: resynchronizations the client asks for
    LaggingSnapshot,  \* TRUE: the snapshot handler may answer from a stale read
    Stalls,           \* TRUE: the client may stop reading
    GapEvents         \* events that may run in the microtask between #authorize
                      \* returning true and its caller resuming

GapKinds == {"record", "status", "revoke", "close", "stall"}

ASSUME LimitsAssumption ==
    /\ MaxFrames \in Nat \ {0}
    /\ MaxSyncAttempts \in Nat \ {0}
    /\ MaxSequence \in Nat \ {0}

ASSUME BoundsAssumption ==
    /\ MaxRevision \in Nat \ {0}
    /\ MaxBoundary \in Nat
    /\ MaxFlaps \in Nat
    /\ MaxResyncs \in Nat

ASSUME SwitchesAssumption ==
    /\ LaggingSnapshot \in BOOLEAN
    /\ Stalls \in BOOLEAN
    /\ GapEvents \subseteq GapKinds

VARIABLES
    sub,        \* the ServerSubscription object and what its session does to it
    source,     \* readiness and recovery boundary of the channel's source
    domain,     \* newest revision the application has committed
    processed   \* newest revision a source record or a redrive has carried

vars == <<sub, source, domain, processed>>

-----------------------------------------------------------------------------
(* The state of the object.                                                *)

Phases == {"idle", "authorizing", "waiting-source", "capturing", "snapshot-sent",
           "draining", "live", "backoff", "resync-required", "terminated"}
PublicStates == {"idle", "authorizing", "synchronizing", "live", "stale",
                 "resync-required", "failed", "closed"}
Capturing == {"capturing", "snapshot-sent", "draining", "live"}

(* Where the attempt's coroutine is suspended.  "admitted" and "cleared" are *)
(* the two places where #authorize has returned true and its caller has not *)
(* resumed yet.                                                             *)
Steps == {"none", "authorize", "admitted", "acquire", "snapshot", "recheck", "cleared"}

Revisions == 0..MaxRevision
Boundaries == 0..MaxBoundary
NoFrame == [revision |-> 0, sequence |-> 0]
NoTask == [step |-> "none", fresh |-> FALSE, revoked |-> FALSE,
           floor |-> 0, boundary |-> 0, revision |-> 0]

TaskType == [step : Steps,          \* the await it is suspended at
             fresh : BOOLEAN,       \* its generation is still #generation
             revoked : BOOLEAN,     \* a revocation since the pending #authorize began
             floor : Revisions,     \* what the application had committed at snapshot()
             boundary : Boundaries, \* recovery boundary in force at snapshot()
             revision : Revisions]  \* revision the snapshot returned

SubType == [phase : Phases,
            public : PublicStates,          \* #publicState, as last reported
            sequence : Nat,
            attempts : Nat,
            timer : {"none", "armed", "void"}, \* #retryTimer; void: set for a dead generation
            queue : Seq(Revisions),         \* #queue
            inFlight : [revision : Revisions, sequence : Nat],
            drainRemaining : Int,
            snapshotRevision : Revisions,
            tail : Revisions,
            lastDelivered : Revisions,
            frames : Nat,                   \* SubscriptionBudget.#frames
            routed : BOOLEAN,               \* in core.router
            registered : BOOLEAN,           \* in channel.subscriptions
            held : BOOLEAN,                 \* in the session's subscription map
            acked : Boundaries,             \* boundary the latest snapshot acknowledged
            host : {"open", "stalled", "expired", "closed"},
            task : TaskType]

SourceType == [ready : BOOLEAN,
               boundary : Boundaries,       \* in force; 0 is null
               issued : Boundaries,         \* newest boundary ever put in force
               advanced : Boundaries,       \* boundary under which a record was passed
               flaps : 0..MaxFlaps,
               resyncs : 0..MaxResyncs]

Max2(a, b) == IF a >= b THEN a ELSE b
Less(a, b) == IF a > b THEN a - b ELSE 0

\* Frames the object holds, each of which has reserved budget.
Outstanding(s) == IF s.inFlight = NoFrame THEN 0 ELSE 1
Holding(s) == Len(s.queue) + Outstanding(s)

-----------------------------------------------------------------------------
(* Methods that discard or report.                                         *)

\* #invalidate: a new generation.  Handlers are aborted, timers cleared, frames
\* dropped with their budget, and the routing index left.
Invalidate(s) ==
    [s EXCEPT !.timer = "none",
              !.frames = Less(@, Holding(s)),
              !.queue = <<>>,
              !.inFlight = NoFrame,
              !.drainRemaining = 0,
              !.snapshotRevision = 0,
              !.tail = 0,
              !.routed = FALSE,
              !.task.fresh = FALSE]

\* dispose
Dispose(s) ==
    IF s.phase = "terminated" THEN s
    ELSE [Invalidate(s) EXCEPT !.phase = "terminated", !.public = "closed",
                               !.registered = FALSE]

\* Session.#teardown: dispose every subscription the session still holds.
Teardown(s) ==
    [(IF s.held THEN Dispose(s) ELSE s) EXCEPT !.held = FALSE, !.host = "closed"]

\* Session.#stalled, which every state or error frame and canDeliver() call.
Notice(s) == IF s.host = "stalled" THEN Teardown(s) ELSE s

SendState(s, state) == Notice([s EXCEPT !.public = state])
SendError(s) == Notice(s)

\* Session.canDeliver: its answer; Notice is what the call does to the session.
CanDeliver(s) == s.host = "open"

\* fail
Fail(s) ==
    IF s.phase = "terminated" THEN s
    ELSE [SendState(SendError([Invalidate(s) EXCEPT !.phase = "terminated",
                                                    !.registered = FALSE]), "failed")
            EXCEPT !.held = FALSE]

\* #attemptFailed: the generation number is captured before the stale frame is
\* sent, so a teardown caused by that frame leaves a timer that does nothing.
AttemptFailed(s) ==
    LET t == SendState([Invalidate(s) EXCEPT !.phase = "backoff"], "stale")
    IN  IF t.attempts >= MaxSyncAttempts
        THEN SendState(SendError([t EXCEPT !.phase = "resync-required"]), "resync-required")
        ELSE [t EXCEPT !.timer = IF t.phase = "backoff" THEN "armed" ELSE "void"]

\* #protocolViolation
ProtocolViolation(s) == AttemptFailed(SendError(s))

-----------------------------------------------------------------------------
(* Delivery: one frame in flight at a time.                                *)

\* SubscriptionBudget.tryReserve; room is the answer of the byte budgets that
\* the connection and the gateway share with other subscriptions.
CanReserve(s, room) == room /\ s.frames + 1 <= MaxFrames
Reserve(s) == [s EXCEPT !.frames = @ + 1]
Release(s) == [s EXCEPT !.frames = Less(@, 1)]

\* #transmit
Transmit(s, revision) ==
    IF ~CanDeliver(s) THEN Release(Notice(s))
    ELSE IF s.sequence >= MaxSequence - 1 THEN AttemptFailed(Release(s))
    ELSE [s EXCEPT !.sequence = @ + 1,
                   !.inFlight = [revision |-> revision, sequence |-> s.sequence + 1]]

\* #pump
Pump(s) ==
    IF /\ s.inFlight = NoFrame
       /\ s.phase \in {"draining", "live"}
       /\ s.queue # <<>>
    THEN Transmit([s EXCEPT !.queue = Tail(@)], Head(s.queue))
    ELSE s

\* #goLive
GoLive(s) ==
    Pump(SendState([s EXCEPT !.phase = "live", !.attempts = 0], "live"))

\* The frames a snapshot at this revision leaves to send.  The buffer is strictly
\* increasing (BufferIncreasing), so dropping its older-or-equal prefix is the
\* filter of onReceipt.
FirstNewer(q, revision) ==
    CHOOSE i \in 1..(Len(q) + 1) :
        /\ \A j \in 1..(i - 1) : q[j] <= revision
        /\ i <= Len(q) => q[i] > revision
\* Mistake: the snapshot's receipt empties the buffer.
NewerDropsAll(q, revision) == <<>>

Newer(q, revision) == SubSeq(q, FirstNewer(q, revision), Len(q))

\* Mistake: the frames the filter drops keep their budget.
SnapshotReceivedLeaks(s) ==
    LET t == [s EXCEPT !.queue = Newer(@, s.snapshotRevision),
                       !.drainRemaining = Len(Newer(s.queue, s.snapshotRevision)),
                       !.phase = "draining"]
    IN  IF t.queue = <<>> THEN GoLive(t) ELSE Pump(t)

\* The tail of onReceipt when the snapshot's own receipt arrives.
SnapshotReceived(s) ==
    LET kept == Newer(s.queue, s.snapshotRevision)
        t == [s EXCEPT !.queue = kept,
                       !.frames = Less(@, Len(s.queue) - Len(kept)),
                       !.drainRemaining = Len(kept),
                       !.phase = "draining"]
    IN  IF kept = <<>> THEN GoLive(t) ELSE Pump(t)

\* onReceipt for the frame in flight.
Confirm(s) ==
    LET t == [Release(s) EXCEPT !.inFlight = NoFrame,
                                !.lastDelivered = Max2(@, s.inFlight.revision)]
        d == [t EXCEPT !.drainRemaining = @ - 1]
    IN  CASE t.phase = "snapshot-sent" -> SnapshotReceived(t)
          [] t.phase = "draining" -> IF d.drainRemaining <= 0 THEN GoLive(d) ELSE Pump(d)
          [] OTHER -> Pump(t)

\* onReceipt with the current epoch; a receipt of another epoch changes nothing.
OnReceipt(s, sequence) ==
    IF s.phase \notin Capturing THEN s
    ELSE IF s.inFlight = NoFrame \/ sequence < s.inFlight.sequence
    THEN IF sequence <= s.sequence THEN s ELSE ProtocolViolation(s)
    ELSE IF sequence > s.inFlight.sequence THEN ProtocolViolation(s)
    ELSE Confirm(s)

\* Mistake: records are dropped until the snapshot is out.
AdmitAfterSnapshot(s, revision, room) ==
    IF \/ s.phase \notin Capturing \ {"capturing"}
       \/ s.tail # 0 /\ revision <= s.tail
    THEN s
    ELSE IF ~CanReserve(s, room) THEN AttemptFailed(s)
    ELSE Pump([Reserve(s) EXCEPT !.queue = Append(@, revision), !.tail = revision])

\* admit
Admit(s, revision, room) ==
    IF \/ s.phase \notin Capturing
       \/ s.tail # 0 /\ revision <= s.tail
    THEN s
    ELSE IF ~CanReserve(s, room) THEN AttemptFailed(s)
    ELSE Pump([Reserve(s) EXCEPT !.queue = Append(@, revision), !.tail = revision])

-----------------------------------------------------------------------------
(* Synchronization attempts.                                               *)

\* Mistake: every attempt counts as the first.
BeginFirstAttempt(s, announce) ==
    LET t == [Invalidate(s) EXCEPT !.attempts = 1,
                                   !.phase = "authorizing",
                                   !.task = [NoTask EXCEPT !.step = "authorize",
                                                           !.fresh = TRUE]]
    IN  IF announce THEN SendState(t, "authorizing")
        ELSE [t EXCEPT !.public = "authorizing"]

\* #beginAttempt up to its first await.
BeginAttempt(s, announce) ==
    LET t == [Invalidate(s) EXCEPT !.attempts = @ + 1,
                                   !.phase = "authorizing",
                                   !.task = [NoTask EXCEPT !.step = "authorize",
                                                           !.fresh = TRUE]]
    IN  IF announce THEN SendState(t, "authorizing")
        ELSE [t EXCEPT !.public = "authorizing"]

EndTask(s) == [s EXCEPT !.task = NoTask]

\* #authorize after its handler answered, for a generation that is still current.
Authorized(s, outcome) ==
    LET t == Notice(s)
        next == IF s.task.step = "authorize" THEN "admitted" ELSE "cleared"
    IN  IF outcome = "timeout" THEN EndTask(AttemptFailed(s))
        ELSE IF outcome = "denied" THEN EndTask(Fail(s))
        ELSE IF ~CanDeliver(s) THEN EndTask(t)
        ELSE IF s.task.revoked THEN EndTask(Fail(t))
        ELSE [t EXCEPT !.task.step = next]

\* The attempt is admitted: require the source, then register for capture.
StartCapture(s, ready) ==
    IF ~ready
    THEN EndTask(SendState([s EXCEPT !.attempts = @ - 1, !.phase = "waiting-source"], "stale"))
    ELSE [SendState([s EXCEPT !.sequence = 0], "synchronizing")
            EXCEPT !.phase = "capturing", !.routed = TRUE, !.task.step = "acquire"]

\* Mistake: a snapshot that acknowledges no boundary is taken for one that does.
SnapshotUnacknowledged(s, inForce, revision, ack) ==
    IF s.lastDelivered # 0 /\ revision < s.lastDelivered THEN EndTask(AttemptFailed(s))
    ELSE [s EXCEPT !.acked = ack, !.task.step = "recheck", !.task.revoked = FALSE,
                   !.task.revision = revision]

\* Mistake: a snapshot older than what the client confirmed is accepted.
SnapshotRegresses(s, inForce, revision, ack) ==
    IF s.task.boundary = 0 /\ ack # 0 THEN EndTask(Fail(s))
    ELSE IF s.task.boundary # 0 /\ (ack # s.task.boundary \/ inForce # s.task.boundary)
    THEN EndTask(AttemptFailed(s))
    ELSE [s EXCEPT !.acked = ack, !.task.step = "recheck", !.task.revoked = FALSE,
                   !.task.revision = revision]

\* The snapshot's answer is checked against the boundary in force and against
\* what the client already confirmed, then authorization is asked again.
SnapshotAnswered(s, inForce, revision, ack) ==
    IF s.task.boundary = 0 /\ ack # 0 THEN EndTask(Fail(s))
    ELSE IF \/ s.task.boundary # 0 /\ (ack # s.task.boundary \/ inForce # s.task.boundary)
            \/ s.lastDelivered # 0 /\ revision < s.lastDelivered
    THEN EndTask(AttemptFailed(s))
    ELSE [s EXCEPT !.acked = ack, !.task.step = "recheck", !.task.revoked = FALSE,
                   !.task.revision = revision]

\* The attempt is cleared to deliver: send the snapshot as sequence 1.
SendSnapshot(s, inForce, fits, room) ==
    LET t == [Reserve(s) EXCEPT !.snapshotRevision = s.task.revision,
                                !.tail = Max2(@, s.task.revision),
                                !.phase = "snapshot-sent"]
    IN  EndTask(IF inForce # s.task.boundary THEN AttemptFailed(s)
                ELSE IF ~fits THEN Fail(s)
                ELSE IF ~CanReserve(s, room) THEN AttemptFailed(s)
                ELSE Transmit(t, s.task.revision))

\* requestResync
RequestResync(s) ==
    CASE s.phase \in {"backoff", "snapshot-sent", "draining"} -> BeginAttempt(s, TRUE)
      [] s.phase \in {"live", "resync-required"} ->
            BeginAttempt([s EXCEPT !.attempts = 0], TRUE)
      [] OTHER -> s

\* onSourceUnavailable
OnSourceUnavailable(s) ==
    IF s.phase \in {"authorizing", "capturing", "snapshot-sent", "draining", "live", "backoff"}
    THEN SendState([Invalidate(s) EXCEPT !.phase = "waiting-source"], "stale")
    ELSE s

\* onSourceReady
OnSourceReady(s) ==
    IF s.phase = "waiting-source" THEN BeginAttempt(s, TRUE) ELSE s

-----------------------------------------------------------------------------
(* Steps.  An await that is over resumes before anything else runs, except  *)
(* for the microtasks GapEvents lists; a timer, a socket message and a       *)
(* handler's answer never run in that gap.                                  *)

InGap == sub.task.step \in {"admitted", "cleared"}
Aborted == sub.task.step # "none" /\ ~sub.task.fresh
Quiet == ~InGap /\ ~Aborted
May(kind) == InGap => kind \in GapEvents

Init ==
    /\ sub = [phase |-> "idle", public |-> "idle", sequence |-> 0, attempts |-> 0,
              timer |-> "none", queue |-> <<>>, inFlight |-> NoFrame,
              drainRemaining |-> 0, snapshotRevision |-> 0, tail |-> 0,
              lastDelivered |-> 0, frames |-> 0, routed |-> FALSE,
              registered |-> FALSE, held |-> FALSE, acked |-> 0, host |-> "open",
              task |-> NoTask]
    /\ source = [ready |-> FALSE, boundary |-> 0, issued |-> 0, advanced |-> 0,
                 flaps |-> 0, resyncs |-> 0]
    /\ domain = 1
    /\ processed = 0

\* start, called by the session right after it acknowledged so:subscribe.
Start ==
    /\ sub.phase = "idle" /\ sub.host = "open"
    /\ sub' = BeginAttempt([sub EXCEPT !.registered = TRUE, !.held = TRUE], FALSE)
    /\ UNCHANGED <<source, domain, processed>>

\* The authorize handler answered or timed out, for either of its two calls.
AuthorizeReturns ==
    /\ sub.task.step \in {"authorize", "recheck"}
    /\ \E outcome \in {"allowed", "denied", "timeout"} :
          sub' = IF sub.task.fresh THEN Authorized(sub, outcome) ELSE EndTask(sub)
    /\ UNCHANGED <<source, domain, processed>>

\* #beginAttempt resumes after its first #authorize.
Admitted ==
    /\ sub.task.step = "admitted"
    /\ sub' = StartCapture(sub, source.ready)
    /\ UNCHANGED <<source, domain, processed>>

\* The snapshot semaphore granted a permit, or the deadline passed; with a permit
\* the boundary in force is read and the snapshot handler starts.
SnapshotAdmission ==
    /\ sub.task.step = "acquire"
    /\ \E acquired \in BOOLEAN :
          sub' = IF ~sub.task.fresh THEN EndTask(sub)
                 ELSE IF ~acquired THEN EndTask(AttemptFailed(sub))
                 ELSE [sub EXCEPT !.task.step = "snapshot",
                                  !.task.floor = domain,
                                  !.task.boundary = source.boundary]
    /\ UNCHANGED <<source, domain, processed>>

\* The snapshot handler timed out, threw or returned something invalid.
SnapshotFails ==
    /\ sub.task.step = "snapshot"
    /\ \E timedOut \in BOOLEAN :
          sub' = EndTask(IF ~sub.task.fresh THEN sub
                         ELSE IF timedOut THEN AttemptFailed(sub)
                         ELSE Fail(sub))
    /\ UNCHANGED <<source, domain, processed>>

\* The snapshot handler returned a revision and, perhaps, a boundary it acknowledges.
SnapshotReturns ==
    /\ sub.task.step = "snapshot"
    /\ \E revision \in (IF LaggingSnapshot THEN 1 ELSE sub.task.floor)..domain :
       \E ack \in Boundaries :
          sub' = IF sub.task.fresh
                 THEN SnapshotAnswered(sub, source.boundary, revision, ack)
                 ELSE EndTask(sub)
    /\ UNCHANGED <<source, domain, processed>>

\* #beginAttempt resumes after its second #authorize.
Cleared ==
    /\ sub.task.step = "cleared"
    /\ \E fits, room \in BOOLEAN : sub' = SendSnapshot(sub, source.boundary, fits, room)
    /\ UNCHANGED <<source, domain, processed>>

\* The retry timer: a no-op for a generation that has moved on.
RetryTimer ==
    /\ Quiet /\ sub.timer # "none"
    /\ LET s == [sub EXCEPT !.timer = "none"]
       IN  sub' = IF sub.timer = "armed" /\ s.phase = "backoff" THEN BeginAttempt(s, TRUE) ELSE s
    /\ UNCHANGED <<source, domain, processed>>

\* Session.handleReceipt: any sequence the client cares to send.
Receipt ==
    /\ Quiet /\ sub.held /\ sub.host \in {"open", "expired"}
    /\ \E sequence \in 1..MaxSequence : sub' = OnReceipt(sub, sequence)
    /\ UNCHANGED <<source, domain, processed>>

\* The receipt timer: Session.receiptTimedOut closes the connection.
ReceiptTimer ==
    /\ Quiet /\ sub.inFlight # NoFrame /\ sub.host # "closed"
    /\ sub' = Teardown(sub)
    /\ UNCHANGED <<source, domain, processed>>

\* Session.handleResync
Resync ==
    /\ Quiet /\ sub.held /\ sub.host \in {"open", "expired"}
    /\ source.resyncs < MaxResyncs
    /\ sub' = RequestResync(sub)
    /\ source' = [source EXCEPT !.resyncs = @ + 1]
    /\ UNCHANGED <<domain, processed>>

\* Session.handleUnsubscribe
Unsubscribe ==
    /\ Quiet /\ sub.held /\ sub.host \in {"open", "expired"}
    /\ sub' = [Dispose(sub) EXCEPT !.held = FALSE]
    /\ UNCHANGED <<source, domain, processed>>

\* Gateway.revoke with a channel selector that matches this subscription: logged for
\* an #authorize that is pending, and ended now if the session still holds it.
Revoke ==
    /\ May("revoke") /\ sub.phase # "idle"
    /\ LET s == [sub EXCEPT !.task.revoked = sub.task.step \in {"authorize", "recheck"}]
       IN  sub' = IF sub.held THEN Fail(s) ELSE s
    /\ UNCHANGED <<source, domain, processed>>

\* The connection closes: the client left, the gateway closed it, or it expired.
SessionCloses ==
    /\ May("close") /\ sub.host # "closed"
    /\ sub' = Teardown(sub)
    /\ UNCHANGED <<source, domain, processed>>

\* The clock passes the principal's expiry before the session acts on it.
Expires ==
    /\ May("close") /\ sub.host = "open"
    /\ sub' = [sub EXCEPT !.host = "expired"]
    /\ UNCHANGED <<source, domain, processed>>

\* The transport's unread output crosses the connection budget, or falls back.
ClientStalls ==
    /\ Stalls /\ May("stall")
    /\ sub.host \in {"open", "stalled"}
    /\ sub' = [sub EXCEPT !.host = IF @ = "open" THEN "stalled" ELSE "open"]
    /\ UNCHANGED <<source, domain, processed>>

-----------------------------------------------------------------------------
(* The application, the record pipeline and the source.                    *)

\* The application commits a newer state.
DomainWrite ==
    /\ domain < MaxRevision
    /\ domain' = domain + 1
    /\ UNCHANGED <<sub, source, processed>>

\* Gateway.#admit of one record (live or redriven): any committed revision, in any
\* order and any number of times, since positions repeat after a crash.
RecordAdmitted ==
    /\ May("record")
    /\ \E revision \in 1..domain : \E room \in BOOLEAN :
          /\ sub' = IF sub.routed THEN Admit(sub, revision, room) ELSE sub
          /\ processed' = Max2(processed, revision)
    /\ UNCHANGED <<source, domain>>

\* Gateway.#setSourceStatus from ready: a paused record, an outage, a rebalance.
SourceDown ==
    /\ May("status") /\ source.ready /\ source.flaps < MaxFlaps
    /\ source' = [source EXCEPT !.ready = FALSE, !.flaps = @ + 1]
    /\ sub' = IF sub.registered THEN OnSourceUnavailable(sub) ELSE sub
    /\ UNCHANGED <<domain, processed>>

\* Gateway.#setSourceStatus to ready.
SourceUp ==
    /\ Quiet /\ ~source.ready
    /\ source' = [source EXCEPT !.ready = TRUE]
    /\ sub' = IF sub.registered THEN OnSourceReady(sub) ELSE sub
    /\ UNCHANGED <<domain, processed>>

\* The failure service puts a new recovery boundary in force.
SetBoundary ==
    /\ Quiet /\ source.issued < MaxBoundary
    /\ source' = [source EXCEPT !.issued = @ + 1, !.boundary = source.issued + 1]
    /\ UNCHANGED <<sub, domain, processed>>

\* The paused source's offset moves past a quarantined record under its boundary.
AdvancePast ==
    /\ Quiet /\ ~source.ready /\ source.boundary # 0
    /\ source' = [source EXCEPT !.advanced = source.boundary]
    /\ UNCHANGED <<sub, domain, processed>>

\* The boundary is retired by the application or the operator.
RetireBoundary ==
    /\ Quiet /\ source.boundary # 0
    /\ source' = [source EXCEPT !.boundary = 0, !.advanced = 0]
    /\ UNCHANGED <<sub, domain, processed>>

Attempt == AuthorizeReturns \/ Admitted \/ SnapshotAdmission \/ SnapshotFails
           \/ SnapshotReturns \/ Cleared
Client == Start \/ Receipt \/ Resync \/ Unsubscribe
Connection == ReceiptTimer \/ Revoke \/ SessionCloses \/ Expires \/ ClientStalls
Environment == DomainWrite \/ RecordAdmitted \/ SourceDown \/ SourceUp
               \/ SetBoundary \/ AdvancePast \/ RetireBoundary

Next == Attempt \/ RetryTimer \/ Client \/ Connection \/ Environment

Spec == Init /\ [][Next]_vars

=============================================================================
