--------------------------- MODULE ClientSchedules ---------------------------
(***************************************************************************)
(* Three schedules of ClientSubscription that need more faults than a run  *)
(* over every order of them can have.  Each fixes the order of the faults  *)
(* and leaves everything else free; every step is a step of Next.          *)
(*                                                                         *)
(* All begin alike.  The client reconnects and is given snapshots older   *)
(* than what it has shown until it gives up (#localSyncFailure) and sends  *)
(* an unsubscribe; before the gateway reads that, its source flaps, and    *)
(* the frames on their way tell the client that it is still held.          *)
(***************************************************************************)
EXTENDS ClientProperties, SequencesExt

\* The n-th fault of a schedule, and no other.
At(n, Fault) == faults = n /\ Fault /\ faults' = n + 1

OverLimit(kind) == Refuses /\ Head(up).kind = kind /\ Last(down').result = "OVERLOADED"

GivesUp ==
    \/ At(0, Disconnected)
    \/ At(1, Snapshot) \/ At(2, Snapshot) \/ At(3, Snapshot)
    \/ At(4, SourceDown)

Undisturbed == (PeerSteps \/ SdkSteps \/ Connects \/ SourceUp \/ Record) /\ UNCHANGED faults

\* A promise resumes before anything else runs: no schedule here needs the
\* frames of one socket read to slip in between.
Scheduled(Faults) == IF followups # <<>> THEN FollowUp ELSE Undisturbed \/ Faults

-----------------------------------------------------------------------------
\* The application calls resync() after each of two outages.  The gateway has
\* forgotten the subscription when it reads them, and each refusal starts a
\* subscribe of its own; the first is refused over the limit, which clears
\* #subscribeInFlight for both, so unsubscribe() sends nothing and the gateway
\* accepts the second.
TwoSubscribes ==
    \/ GivesUp
    \/ At(5, UserResync)
    \/ At(6, SourceDown)
    \/ At(7, UserResync)
    \/ At(8, OverLimit("subscribe"))
    \/ At(9, Ends)

TwoSubscribesSpec == Init /\ [][Scheduled(TwoSubscribes)]_vars

-----------------------------------------------------------------------------
\* The client gives up once more, and its second unsubscribe, of a subscription
\* the gateway released by the first, is refused over the rate limit.  While it
\* waits to be sent again the application calls resync(): the view is live when
\* the late unsubscribe takes it from the gateway.
LateRelease ==
    \/ GivesUp
    \/ At(5, Snapshot)
    \/ At(6, OverLimit("unsubscribe"))
    \/ At(7, UserResync)

LateReleaseSpec == Init /\ [][Scheduled(LateRelease)]_vars

-----------------------------------------------------------------------------
\* The source returns before the gateway reads the unsubscribe, so the view that
\* gave up shows the "authorizing" of an attempt that the unsubscribe then ends.
\* The application calls resync(), which takes that for a synchronization under
\* way (#requestFreshSynchronization) and asks for nothing.
StuckResync ==
    \/ GivesUp
    \/ At(5, UserResync)

StuckResyncSpec ==
    /\ Init /\ [][Scheduled(StuckResync)]_vars
    /\ WF_vars(SdkSteps) /\ WF_vars(PeerSteps) /\ WF_vars(Connects)
=============================================================================
