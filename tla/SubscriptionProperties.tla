----------------------- MODULE SubscriptionProperties -----------------------
(***************************************************************************)
(* What ServerSubscription must guarantee, its fairness, and the promise   *)
(* (StateChannel) it implements.                                           *)
(***************************************************************************)
EXTENDS ServerSubscription

-----------------------------------------------------------------------------
(* Invariants.                                                             *)

\* Every field of the object, the source and the history stays in its type.
TypeOK ==
    /\ sub \in SubType
    /\ source \in SourceType
    /\ domain \in 1..MaxRevision
    /\ processed \in 0..domain

Pending == {sub.queue[i] : i \in DOMAIN sub.queue}

\* README "a view never reports live while it shows anything other than the newest
\* state": while live is reported on an open connection, every revision a record
\* has carried is confirmed by the client, in flight or queued.  Violated by a
\* record that slips between capture, snapshot, drain and live.
LiveIsNewest ==
    sub.public = "live" /\ sub.host = "open" =>
        \/ sub.lastDelivered >= processed
        \/ sub.inFlight.revision >= processed
        \/ \E r \in Pending : r >= processed

\* Every frame reserved in the SubscriptionBudget is queued or in flight, and every
\* queued or in-flight frame is reserved: no path through overflow, drain, failed
\* send or invalidation leaks a frame or releases one twice.
BudgetExact == sub.frames = Holding(sub)

\* The router indexes the subscription exactly while it captures, so that no record
\* is dropped for a capturing subscription and none reaches one that is not.
RoutedWhileCapturing == sub.routed <=> sub.phase \in Capturing

\* No snapshot is in flight, and nothing is live, on a source whose offset has moved
\* past a quarantined record unless that snapshot acknowledged a boundary at least
\* as new (ADR-15B: never live on a snapshot that may predate the skipped change).
LiveCoversBoundary ==
    sub.phase \in {"snapshot-sent", "draining", "live"} => sub.acked >= source.advanced

-----------------------------------------------------------------------------
(* Why LiveIsNewest holds: the parts of an inductive invariant, for an      *)
(* authoritative snapshot and no event in the microtask gap.                *)

\* Until the connection expires, a frame handed to the transport stays owed.
Reading == sub.host \in {"open", "stalled"}
LastQueued(revision) == sub.queue # <<>> /\ sub.queue[Len(sub.queue)] = revision

\* The coroutine of the current generation is where the phase says; a coroutine that
\* is about to resume without a generation check is always current.
CoroutineInPlace ==
    /\ sub.task.fresh =>
          \/ sub.phase = "authorizing" /\ sub.task.step \in {"authorize", "admitted"}
          \/ /\ sub.phase = "capturing"
             /\ sub.task.step \in {"acquire", "snapshot", "recheck", "cleared"}
    /\ InGap => sub.task.fresh /\ sub.host = "open"

\* While capturing, what was processed before the snapshot was read is in the
\* snapshot, and what was processed since is in the buffer.
SnapshotOrBuffer ==
    sub.task.fresh =>
        /\ sub.task.step = "snapshot" =>
              processed <= sub.task.floor \/ processed <= sub.tail
        /\ sub.task.step \in {"recheck", "cleared"} =>
              processed <= sub.task.revision \/ processed <= sub.tail

\* The tail is what the newest buffered frame carries, or the snapshot.  An attempt
\* starts from nothing, and has been counted.
TailIsBuffered ==
    /\ sub.phase = "authorizing" /\ sub.task.fresh =>
          sub.inFlight = NoFrame /\ sub.tail = 0 /\ sub.attempts > 0
    /\ sub.phase = "capturing" =>
          /\ sub.inFlight = NoFrame
          /\ sub.tail = 0 \/ LastQueued(sub.tail)
    /\ sub.phase = "snapshot-sent" /\ Reading =>
          /\ sub.inFlight.revision = sub.snapshotRevision
          /\ sub.tail <= sub.snapshotRevision \/ LastQueued(sub.tail)

\* Once the snapshot is sent, the tail is at least everything processed, and is
\* confirmed, in flight or last in the queue.
TailCovers ==
    sub.phase \in {"snapshot-sent", "draining", "live"} /\ Reading =>
        /\ processed <= sub.tail
        /\ \/ sub.tail <= sub.lastDelivered
           \/ sub.tail <= sub.inFlight.revision
           \/ LastQueued(sub.tail)

\* The state last reported is live only in the live phase.
ReportsLive == sub.public = "live" => sub.phase = "live"

\* Only a subscription the session holds runs.
HeldWhileRunning ==
    ~sub.held => sub.phase \in {"idle", "terminated", "resync-required"}

IInv ==
    /\ TypeOK
    /\ HeldWhileRunning
    /\ RoutedWhileCapturing
    /\ CoroutineInPlace
    /\ SnapshotOrBuffer
    /\ TailIsBuffered
    /\ TailCovers
    /\ ReportsLive

-----------------------------------------------------------------------------
(* What a step may never do.                                               *)

\* A frame put in flight never carries a revision older than one this client has
\* confirmed, in any epoch (V1_API 5: snapshots must not regress below the last
\* accepted revision), even when the snapshot handler reads from a lagging replica.
NeverRegresses ==
    [][sub'.inFlight # sub.inFlight /\ sub'.inFlight # NoFrame =>
          sub'.inFlight.revision >= sub.lastDelivered]_vars

-----------------------------------------------------------------------------
(* Progress.  Handlers answer or time out (invokeHandler), the semaphore    *)
(* grants or times out, timers fire, and an expired session closes; nothing *)
(* is assumed of the client, the source or the application.                 *)

Fairness ==
    /\ WF_vars(AuthorizeReturns)
    /\ WF_vars(Admitted)
    /\ WF_vars(SnapshotAdmission)
    /\ WF_vars(SnapshotFails \/ SnapshotReturns)
    /\ WF_vars(Cleared)
    /\ WF_vars(RetryTimer)
    /\ WF_vars(ReceiptTimer)
    /\ WF_vars(sub.host = "expired" /\ SessionCloses)

FairSpec == Spec /\ Fairness

Settled == sub.phase \in {"idle", "live", "waiting-source", "resync-required", "terminated"}

\* Every synchronization ends: live, waiting for the source, asking for an explicit
\* resync, or terminated; it neither hangs on a handler, a receipt or a drain that
\* records keep refilling, nor retries for ever.
Settles == ~Settled ~> Settled

-----------------------------------------------------------------------------
(* Refinement.                                                             *)

\* Nothing more is delivered: the subscription ended, or its connection did.
Over == sub.public \in {"failed", "closed"} \/ sub.host \in {"expired", "closed"}

Promise == INSTANCE StateChannel WITH
    status <- IF Over THEN "ended" ELSE sub.public,
    newest <- processed,
    shown <- sub.lastDelivered,
    owed <- IF sub.public = "live" /\ ~Over
            THEN Pending \cup ({sub.inFlight.revision} \ {0}) ELSE {}

\* The gateway's side of a subscription implements the promise of a state channel.
ImplementsPromise == Promise!Spec

=============================================================================
