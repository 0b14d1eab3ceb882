-------------------------- MODULE SubscriptionProofs --------------------------
(***************************************************************************)
(* Proofs about ServerSubscription for every value of its constants.       *)
(*                                                                         *)
(* Each method is an operator on the subscription record, so the proof has *)
(* one lemma per method: from a well-formed record it yields a well-formed *)
(* record that is either resting (nothing captured, nothing running) or    *)
(* keeps the delivery invariant.  The theorems then take one step per      *)
(* action of Next.  What must hold under every race (the budget, the order *)
(* of deliveries, the boundary) follows from a second invariant, about the *)
(* frames a record holds, with a second lemma per method.                  *)
(* The last part proves that the subscription implements StateChannel.     *)
(***************************************************************************)
EXTENDS SubscriptionProperties, SequenceTheorems, WellFoundedInduction, TLAPS

-----------------------------------------------------------------------------
(* Records, field by field: what the provers can follow through EXCEPT.    *)

Fields == {"phase", "public", "sequence", "attempts", "timer", "queue", "inFlight",
           "drainRemaining", "snapshotRevision", "tail", "lastDelivered", "frames",
           "routed", "registered", "held", "acked", "host", "task"}

IsRec(s) == DOMAIN s = Fields /\ s = [x \in Fields |-> s[x]]

Typed(s) ==
    /\ s.phase \in Phases
    /\ s.public \in PublicStates
    /\ s.sequence \in Nat
    /\ s.attempts \in Nat
    /\ s.timer \in {"none", "armed", "void"}
    /\ s.queue \in Seq(Revisions)
    /\ s.inFlight \in [revision : Revisions, sequence : Nat]
    /\ s.drainRemaining \in Int
    /\ s.snapshotRevision \in Revisions
    /\ s.tail \in Revisions
    /\ s.lastDelivered \in Revisions
    /\ s.frames \in Nat
    /\ s.routed \in BOOLEAN
    /\ s.registered \in BOOLEAN
    /\ s.held \in BOOLEAN
    /\ s.acked \in Boundaries
    /\ s.host \in {"open", "stalled", "expired", "closed"}
    /\ s.task \in TaskType

Ok(s) == IsRec(s) /\ Typed(s)

\* Membership in the record type, split into the shape and the field types.
LEMMA OkIsType == \A s : s \in SubType <=> Ok(s)
<1>1. ASSUME NEW s \in SubType PROVE Ok(s)
  BY <1>1 DEF SubType, Fields, IsRec, Typed, Ok
<1>2. ASSUME NEW s, Ok(s) PROVE s \in SubType
  BY <1>2 DEF SubType, Fields, IsRec, Typed, Ok
<1> QED BY <1>1, <1>2

LEMMA NullsTyped ==
    /\ 0 \in Revisions /\ 0 \in Boundaries
    /\ NoFrame \in [revision : Revisions, sequence : Nat]
    /\ NoTask \in TaskType
BY BoundsAssumption DEF Revisions, Boundaries, NoFrame, NoTask, TaskType, Steps

LEMMA LessNat == \A a, b \in Nat : Less(a, b) \in Nat
BY DEF Less

LEMMA HoldingNat ==
    ASSUME NEW s, Ok(s)
    PROVE  /\ Len(s.queue) \in Nat /\ Outstanding(s) \in Nat
           /\ Holding(s) \in Nat
<1>1. Len(s.queue) \in Nat
  BY DEF Ok, Typed
<1>2. Outstanding(s) \in Nat
  BY DEF Outstanding
<1> QED BY <1>1, <1>2 DEF Holding

-----------------------------------------------------------------------------
(* Resting: not captured, not running, not reported live.                  *)

Resting(s) ==
    /\ Ok(s)
    /\ s.phase \notin Capturing
    /\ s.public # "live"
    /\ ~s.routed
    /\ ~s.task.fresh

LEMMA InvalidateOk ==
    ASSUME NEW s, Ok(s)
    PROVE  LET t == Invalidate(s)
           IN  /\ Ok(t)
               /\ t.queue = <<>> /\ t.inFlight = NoFrame /\ t.tail = 0
               /\ ~t.routed /\ ~t.task.fresh
               /\ t.phase = s.phase /\ t.public = s.public /\ t.host = s.host
               /\ t.held = s.held /\ t.lastDelivered = s.lastDelivered
               /\ t.task.step = s.task.step /\ t.attempts = s.attempts
<1> DEFINE n == Less(s.frames, Holding(s))
<1> DEFINE k == [s.task EXCEPT !.fresh = FALSE]
<1> DEFINE t == Invalidate(s)
<1>1. n \in Nat
  <2>1. s.frames \in Nat /\ Holding(s) \in Nat
    BY HoldingNat DEF Ok, Typed
  <2> QED BY <2>1, LessNat
<1>2. k \in TaskType /\ ~k.fresh /\ k.step = s.task.step
  BY DEF Ok, Typed, TaskType
<1>3. t = [s EXCEPT !.timer = "none", !.frames = n, !.queue = <<>>,
                    !.inFlight = NoFrame, !.drainRemaining = 0,
                    !.snapshotRevision = 0, !.tail = 0, !.routed = FALSE, !.task = k]
  BY DEF Invalidate
<1> HIDE DEF n, k, t
<1>4. IsRec(t)
  BY <1>3 DEF Ok, IsRec
<1>5. Typed(t)
  BY <1>1, <1>2, <1>3, NullsTyped DEF Ok, IsRec, Fields, Typed
<1>6. /\ t.queue = <<>> /\ t.inFlight = NoFrame /\ t.tail = 0
      /\ ~t.routed /\ t.task = k
      /\ t.phase = s.phase /\ t.public = s.public /\ t.host = s.host
      /\ t.held = s.held /\ t.lastDelivered = s.lastDelivered
      /\ t.attempts = s.attempts
  BY <1>3 DEF Ok, IsRec, Fields
<1> QED BY <1>2, <1>4, <1>5, <1>6 DEF t, Ok

LEMMA DisposeRests ==
    ASSUME NEW s, Ok(s), s.phase = "terminated" => Resting(s)
    PROVE  /\ Resting(Dispose(s))
           /\ Dispose(s).phase = "terminated"
           /\ Dispose(s).task.step = s.task.step
<1> DEFINE i == Invalidate(s)
<1> DEFINE t == [i EXCEPT !.phase = "terminated", !.public = "closed", !.registered = FALSE]
<1>1. CASE s.phase = "terminated"
  BY <1>1 DEF Dispose
<1>2. CASE s.phase # "terminated"
  <2>1. Dispose(s) = t
    BY <1>2 DEF Dispose
  <2>2. Ok(i) /\ ~i.routed /\ ~i.task.fresh /\ i.task.step = s.task.step
    BY InvalidateOk
  <2> HIDE DEF i
  <2>3. IsRec(t)
    BY <2>2 DEF Ok, IsRec
  <2>4. Typed(t) /\ t.phase = "terminated" /\ t.public = "closed"
        /\ ~t.routed /\ t.task = i.task
    BY <2>2 DEF Ok, IsRec, Fields, Typed, Phases, PublicStates
  <2> QED BY <2>1, <2>2, <2>3, <2>4 DEF Resting, Ok, Capturing
<1> QED BY <1>1, <1>2

\* A subscription its session no longer holds does not run.
HeldOk(s) == ~s.held => s.phase \in {"idle", "terminated", "resync-required"}

Calm(s) == Resting(s) /\ HeldOk(s)

LEMMA TeardownCalms ==
    ASSUME NEW s, Ok(s), s.phase = "terminated" => Resting(s), ~s.held => Calm(s)
    PROVE  LET t == Teardown(s)
           IN  Calm(t) /\ t.host = "closed" /\ t.task.step = s.task.step
               /\ (t.phase = "terminated" \/ t.phase = s.phase)
<1> DEFINE d == IF s.held THEN Dispose(s) ELSE s
<1> DEFINE t == [d EXCEPT !.held = FALSE, !.host = "closed"]
<1>1. /\ Resting(d) /\ d.task.step = s.task.step
      /\ d.phase \in {"idle", "terminated", "resync-required"}
      /\ d.phase = "terminated" \/ d.phase = s.phase
  BY DisposeRests DEF Calm, HeldOk
<1>2. Teardown(s) = t
  BY DEF Teardown
<1> HIDE DEF d
<1>3. IsRec(t)
  BY <1>1 DEF Resting, Ok, IsRec
<1>4. /\ Typed(t) /\ t.phase = d.phase /\ t.public = d.public /\ ~t.held
      /\ t.routed = d.routed /\ t.task = d.task /\ t.host = "closed"
  BY <1>1 DEF Resting, Ok, IsRec, Fields, Typed
<1> QED BY <1>1, <1>2, <1>3, <1>4 DEF Calm, Resting, Ok, HeldOk

LEMMA NoticeCalms ==
    ASSUME NEW s, Calm(s)
    PROVE  Calm(Notice(s)) /\ Notice(s).task.step = s.task.step
           /\ (Notice(s).phase = "terminated" \/ Notice(s).phase = s.phase)
BY TeardownCalms DEF Notice, Calm, Resting

LEMMA SendStateCalms ==
    ASSUME NEW s, Calm(s), NEW state \in PublicStates, state # "live"
    PROVE  Calm(SendState(s, state)) /\ SendState(s, state).task.step = s.task.step
<1> DEFINE t == [s EXCEPT !.public = state]
<1>1. IsRec(t)
  BY DEF Calm, Resting, Ok, IsRec
<1>2. /\ Typed(t) /\ t.phase = s.phase /\ t.public = state /\ t.held = s.held
      /\ t.routed = s.routed /\ t.task = s.task
  BY DEF Calm, Resting, Ok, IsRec, Fields, Typed
<1>3. Calm(t)
  BY <1>1, <1>2 DEF Calm, Resting, Ok, HeldOk
<1> HIDE DEF t
<1> QED BY <1>2, <1>3, NoticeCalms DEF SendState, t

\* A record whose phase alone is replaced by one that captures nothing stays calm.
LEMMA RephasedCalms ==
    ASSUME NEW s, Resting(s), NEW phase \in Phases \ Capturing,
           s.held \/ phase \in {"idle", "terminated", "resync-required"}
    PROVE  LET t == [s EXCEPT !.phase = phase]
           IN  Calm(t) /\ t.task = s.task /\ t.phase = phase /\ t.held = s.held
<1> DEFINE t == [s EXCEPT !.phase = phase]
<1>1. IsRec(t)
  BY DEF Resting, Ok, IsRec
<1>2. /\ Typed(t) /\ t.phase = phase /\ t.public = s.public /\ t.held = s.held
      /\ t.routed = s.routed /\ t.task = s.task
  BY DEF Resting, Ok, IsRec, Fields, Typed
<1> QED BY <1>1, <1>2 DEF Calm, Resting, Ok, HeldOk

LEMMA TimerCalms ==
    ASSUME NEW s, Calm(s), NEW timer \in {"none", "armed", "void"}
    PROVE  LET t == [s EXCEPT !.timer = timer]
           IN  Calm(t) /\ t.task = s.task /\ t.phase = s.phase /\ t.held = s.held
<1> DEFINE t == [s EXCEPT !.timer = timer]
<1>1. IsRec(t)
  BY DEF Calm, Resting, Ok, IsRec
<1>2. /\ Typed(t) /\ t.phase = s.phase /\ t.public = s.public /\ t.held = s.held
      /\ t.routed = s.routed /\ t.task = s.task
  BY DEF Calm, Resting, Ok, IsRec, Fields, Typed
<1> QED BY <1>1, <1>2 DEF Calm, Resting, Ok, HeldOk

LEMMA EndTaskCalms ==
    ASSUME NEW s, Calm(s)
    PROVE  Calm(EndTask(s)) /\ EndTask(s).task.step = "none"
<1> DEFINE t == [s EXCEPT !.task = NoTask]
<1>1. IsRec(t)
  BY DEF Calm, Resting, Ok, IsRec
<1>2. /\ Typed(t) /\ t.phase = s.phase /\ t.public = s.public /\ t.held = s.held
      /\ t.routed = s.routed /\ t.task = NoTask
  BY NullsTyped DEF Calm, Resting, Ok, IsRec, Fields, Typed
<1> QED BY <1>1, <1>2 DEF EndTask, NoTask, Calm, Resting, Ok, HeldOk

-----------------------------------------------------------------------------
(* Methods that leave an attempt or the live state.                        *)

\* Reporting a phase that captures nothing, after an invalidation.
LEMMA ReportCalms ==
    ASSUME NEW s, Ok(s), ~s.routed, ~s.task.fresh, s.held,
           NEW phase \in Phases \ Capturing, NEW state \in PublicStates, state # "live"
    PROVE  LET t == SendState([s EXCEPT !.phase = phase], state)
           IN  Calm(t) /\ t.task.step = s.task.step
<1> DEFINE b == [s EXCEPT !.phase = phase]
<1> DEFINE t == [b EXCEPT !.public = state]
<1>1. IsRec(b)
  BY DEF Ok, IsRec
<1>2. Typed(b) /\ b.phase = phase /\ b.held /\ ~b.routed /\ b.task = s.task
  BY DEF Ok, IsRec, Fields, Typed
<1> HIDE DEF b
<1>3. IsRec(t)
  BY <1>1 DEF IsRec
<1>4. /\ Typed(t) /\ t.phase = b.phase /\ t.public = state /\ t.held
      /\ ~t.routed /\ t.task = b.task
  BY <1>1, <1>2 DEF IsRec, Fields, Typed
<1>5. Calm(t)
  BY <1>2, <1>3, <1>4 DEF Calm, Resting, Ok, HeldOk
<1> HIDE DEF t
<1>6. Calm(Notice(t)) /\ Notice(t).task.step = s.task.step
  BY <1>2, <1>4, <1>5, NoticeCalms
<1> QED BY <1>6 DEF SendState, b, t

LEMMA AttemptFailedCalms ==
    ASSUME NEW s, Ok(s), s.held
    PROVE  Calm(AttemptFailed(s)) /\ AttemptFailed(s).task.step = s.task.step
<1> DEFINE i == Invalidate(s)
<1> DEFINE t == SendState([i EXCEPT !.phase = "backoff"], "stale")
<1> DEFINE r == [t EXCEPT !.phase = "resync-required"]
<1> DEFINE u == SendState(SendError(r), "resync-required")
<1> DEFINE w == [t EXCEPT !.timer = IF t.phase = "backoff" THEN "armed" ELSE "void"]
<1>1. /\ Ok(i) /\ ~i.routed /\ ~i.task.fresh /\ i.held
      /\ i.task.step = s.task.step
  BY InvalidateOk
<1>2. Calm(t) /\ t.task.step = s.task.step
  <2> HIDE DEF i
  <2>1. "backoff" \in Phases \ Capturing /\ "stale" \in PublicStates
    BY DEF Phases, Capturing, PublicStates
  <2> QED BY <1>1, <2>1, ReportCalms
<1> HIDE DEF t
<1>3. Calm(r) /\ r.task = t.task
  <2>1. "resync-required" \in Phases \ Capturing
    BY DEF Phases, Capturing
  <2> QED BY <1>2, <2>1, RephasedCalms DEF Calm
<1> HIDE DEF r
<1>4. Calm(u) /\ u.task.step = t.task.step
  <2>1. Calm(SendError(r)) /\ SendError(r).task.step = r.task.step
    BY <1>3, NoticeCalms DEF SendError
  <2>2. "resync-required" \in PublicStates
    BY DEF PublicStates
  <2> QED BY <1>3, <2>1, <2>2, SendStateCalms
<1>5. Calm(w) /\ w.task.step = t.task.step
  BY <1>2, TimerCalms
<1>6. AttemptFailed(s) = u \/ AttemptFailed(s) = w
  BY DEF AttemptFailed, t, r
<1> HIDE DEF u, w
<1> QED BY <1>2, <1>4, <1>5, <1>6

LEMMA FailCalms ==
    ASSUME NEW s, Ok(s), s.phase = "terminated" => Resting(s)
    PROVE  Calm(Fail(s)) /\ Fail(s).task.step = s.task.step
<1>1. CASE s.phase = "terminated"
  BY <1>1 DEF Fail, Calm, HeldOk
<1>2. CASE s.phase # "terminated"
  <2> DEFINE i == Invalidate(s)
  <2> DEFINE b == [i EXCEPT !.phase = "terminated", !.registered = FALSE]
  <2> DEFINE n == SendError(b)
  <2> DEFINE f == SendState(n, "failed")
  <2> DEFINE u == [f EXCEPT !.held = FALSE]
  <2>1. /\ Ok(i) /\ ~i.routed /\ ~i.task.fresh
        /\ i.task.step = s.task.step
    BY InvalidateOk
  <2>2. Fail(s) = u
    BY <1>2 DEF Fail
  <2> HIDE DEF i
  <2>3. IsRec(b)
    BY <2>1 DEF Ok, IsRec
  <2>4. /\ Typed(b) /\ b.phase = "terminated" /\ ~b.routed /\ b.task = i.task
        /\ b.held = i.held /\ b.host = i.host
    BY <2>1 DEF Ok, IsRec, Fields, Typed, Phases
  <2> HIDE DEF b
  \* The reported state is still the old one here; the session may tear down.
  <2>5. /\ Ok(n) /\ ~n.routed /\ ~n.task.fresh /\ n.phase = "terminated"
        /\ n.task.step = s.task.step
    <3>1. CASE b.host # "stalled"
      BY <2>1, <2>3, <2>4, <3>1 DEF n, SendError, Notice, Ok
    <3>2. CASE b.host = "stalled"
      <4> DEFINE d == [b EXCEPT !.held = FALSE, !.host = "closed"]
      <4>1. n = d
        BY <2>4, <3>2 DEF n, SendError, Notice, Teardown, Dispose
      <4>2. IsRec(d)
        BY <2>3 DEF IsRec
      <4>3. Typed(d) /\ d.phase = "terminated" /\ ~d.routed /\ d.task = b.task
        BY <2>3, <2>4 DEF IsRec, Fields, Typed
      <4> QED BY <2>1, <2>4, <4>1, <4>2, <4>3 DEF Ok
    <3> QED BY <3>1, <3>2
  <2> HIDE DEF n
  <2>6. Calm(f) /\ f.task.step = n.task.step /\ f.phase = "terminated"
    <3> DEFINE m == [n EXCEPT !.public = "failed"]
    <3>1. IsRec(m)
      BY <2>5 DEF Ok, IsRec
    <3>2. /\ Typed(m) /\ m.phase = "terminated" /\ m.public = "failed"
          /\ ~m.routed /\ m.task = n.task
      BY <2>5 DEF Ok, IsRec, Fields, Typed, PublicStates
    <3>3. Calm(m)
      BY <2>5, <3>1, <3>2 DEF Calm, Resting, Ok, HeldOk, Capturing
    <3>4. f = Notice(m)
      BY DEF f, SendState
    <3> HIDE DEF m, f
    <3> QED BY <3>2, <3>3, <3>4, NoticeCalms
  <2> HIDE DEF f
  <2>7. IsRec(u)
    BY <2>6 DEF Calm, Resting, Ok, IsRec
  <2>8. /\ Typed(u) /\ u.phase = "terminated" /\ u.public = f.public
        /\ u.routed = f.routed /\ u.task = f.task
    BY <2>6 DEF Calm, Resting, Ok, IsRec, Fields, Typed
  <2> QED BY <2>2, <2>5, <2>6, <2>7, <2>8 DEF Calm, Resting, Ok, HeldOk
<1> QED BY <1>1, <1>2

-----------------------------------------------------------------------------
(* The invariant of one record, for processed = p: the parts of IInv.      *)

GapSteps == {"admitted", "cleared"}
ReadingIn(s) == s.host \in {"open", "stalled"}
LastIn(s, revision) == s.queue # <<>> /\ s.queue[Len(s.queue)] = revision

PlacedIn(s) ==
    /\ s.task.fresh =>
          \/ s.phase = "authorizing" /\ s.task.step \in {"authorize", "admitted"}
          \/ /\ s.phase = "capturing"
             /\ s.task.step \in {"acquire", "snapshot", "recheck", "cleared"}
    /\ s.task.step \in GapSteps => s.task.fresh /\ s.host = "open"

SnapshotOrBufferIn(s, p) ==
    s.task.fresh =>
        /\ s.task.step = "snapshot" => p <= s.task.floor \/ p <= s.tail
        /\ s.task.step \in {"recheck", "cleared"} => p <= s.task.revision \/ p <= s.tail

TailIsBufferedIn(s) ==
    /\ s.phase = "authorizing" /\ s.task.fresh =>
          s.inFlight = NoFrame /\ s.tail = 0 /\ s.attempts > 0
    /\ s.phase = "capturing" =>
          /\ s.inFlight = NoFrame
          /\ s.tail = 0 \/ LastIn(s, s.tail)
    /\ s.phase = "snapshot-sent" /\ ReadingIn(s) =>
          /\ s.inFlight.revision = s.snapshotRevision
          /\ s.tail <= s.snapshotRevision \/ LastIn(s, s.tail)

TailCoversIn(s, p) ==
    s.phase \in {"snapshot-sent", "draining", "live"} /\ ReadingIn(s) =>
        /\ p <= s.tail
        /\ \/ s.tail <= s.lastDelivered
           \/ s.tail <= s.inFlight.revision
           \/ LastIn(s, s.tail)

Good(s, p) ==
    /\ Ok(s)
    /\ HeldOk(s)
    /\ s.routed <=> s.phase \in Capturing
    /\ PlacedIn(s)
    /\ SnapshotOrBufferIn(s, p)
    /\ TailIsBufferedIn(s)
    /\ TailCoversIn(s, p)
    /\ s.public = "live" => s.phase = "live"

LEMMA CalmIsGood ==
    ASSUME NEW s, Calm(s), s.task.step \notin GapSteps, NEW p
    PROVE  Good(s, p)
BY DEF Calm, Resting, Good, PlacedIn, SnapshotOrBufferIn, TailIsBufferedIn, TailCoversIn,
       Capturing

LEMMA CalmEndIsGood ==
    ASSUME NEW s, Calm(s), NEW p
    PROVE  Good(EndTask(s), p)
BY EndTaskCalms, CalmIsGood DEF GapSteps

\* A good record that captures nothing and runs nothing is calm.
LEMMA GoodIdleIsCalm ==
    ASSUME NEW s, NEW p, Good(s, p), s.phase \notin Capturing \cup {"authorizing"}
    PROVE  Calm(s)
BY DEF Good, PlacedIn, Calm, Resting, Capturing

LEMMA BeginAttemptGood ==
    ASSUME NEW s, Ok(s), s.held, NEW announce \in BOOLEAN, NEW p
    PROVE  Good(BeginAttempt(s, announce), p)
<1> DEFINE i == Invalidate(s)
<1> DEFINE k == [NoTask EXCEPT !.step = "authorize", !.fresh = TRUE]
<1> DEFINE n == i.attempts + 1
<1> DEFINE b == [i EXCEPT !.attempts = n, !.phase = "authorizing", !.task = k]
<1> DEFINE t == [b EXCEPT !.public = "authorizing"]
<1>1. /\ Ok(i) /\ ~i.routed /\ i.held
      /\ i.inFlight = NoFrame /\ i.tail = 0
  BY InvalidateOk
<1>2. k \in TaskType /\ k.fresh /\ k.step = "authorize"
  BY NullsTyped DEF NoTask, TaskType, Steps
<1>3. BeginAttempt(s, announce) = IF announce THEN Notice(t) ELSE t
  BY DEF BeginAttempt, SendState
<1> HIDE DEF i, k
<1>0. n \in Nat /\ n > 0
  BY <1>1 DEF Ok, Typed
<1> HIDE DEF n
<1>4. IsRec(b)
  BY <1>1 DEF Ok, IsRec
<1>5. /\ Typed(b) /\ b.phase = "authorizing" /\ ~b.routed /\ b.held /\ b.task = k
      /\ b.inFlight = NoFrame /\ b.tail = 0 /\ b.attempts = n
  BY <1>0, <1>1, <1>2 DEF Ok, IsRec, Fields, Typed, Phases
<1> HIDE DEF b
<1>6. IsRec(t)
  BY <1>4 DEF IsRec
<1>7. /\ Typed(t) /\ t.phase = "authorizing" /\ t.public = "authorizing"
      /\ ~t.routed /\ t.held /\ t.task = k
      /\ t.inFlight = NoFrame /\ t.tail = 0 /\ t.attempts = n
  BY <1>4, <1>5 DEF IsRec, Fields, Typed, PublicStates
<1> HIDE DEF t
<1>8. Good(t, p)
  BY <1>0, <1>2, <1>6, <1>7 DEF Good, Ok, HeldOk, PlacedIn, SnapshotOrBufferIn,
     TailIsBufferedIn, TailCoversIn, Capturing, GapSteps
<1>9. Good(Notice(t), p)
  <2>1. CASE t.host # "stalled"
    BY <1>8, <2>1 DEF Notice
  <2>2. CASE t.host = "stalled"
    <3>1. Calm(Teardown(t)) /\ Teardown(t).task.step = "authorize"
      BY <1>2, <1>6, <1>7, TeardownCalms DEF Ok
    <3> QED BY <2>2, <3>1, CalmIsGood DEF Notice, GapSteps
  <2> QED BY <2>1, <2>2
<1> QED BY <1>3, <1>8, <1>9

LEMMA SourceUnavailableGood ==
    ASSUME NEW s, NEW p, Good(s, p), s.task.step \notin GapSteps
    PROVE  Good(OnSourceUnavailable(s), p)
<1> DEFINE Affected == {"authorizing", "capturing", "snapshot-sent", "draining", "live",
                        "backoff"}
<1>1. CASE s.phase \notin Affected
  BY <1>1 DEF OnSourceUnavailable
<1>2. CASE s.phase \in Affected
  <2> DEFINE i == Invalidate(s)
  <2>1. /\ Ok(i) /\ ~i.routed /\ ~i.task.fresh /\ i.held
        /\ i.task.step = s.task.step
    BY <1>2, InvalidateOk DEF Good, HeldOk
  <2>2. OnSourceUnavailable(s) = SendState([i EXCEPT !.phase = "waiting-source"], "stale")
    BY <1>2 DEF OnSourceUnavailable
  <2>3. "waiting-source" \in Phases \ Capturing /\ "stale" \in PublicStates
    BY DEF Phases, Capturing, PublicStates
  <2> HIDE DEF i
  <2> QED BY <2>1, <2>2, <2>3, ReportCalms, CalmIsGood
<1> QED BY <1>1, <1>2

LEMMA SourceReadyGood ==
    ASSUME NEW s, NEW p, Good(s, p)
    PROVE  Good(OnSourceReady(s), p)
<1>1. CASE s.phase = "waiting-source"
  <2>1. Ok(s) /\ s.held
    BY <1>1 DEF Good, HeldOk
  <2> QED BY <1>1, <2>1, BeginAttemptGood DEF OnSourceReady
<1>2. CASE s.phase # "waiting-source"
  BY <1>2 DEF OnSourceReady
<1> QED BY <1>1, <1>2

LEMMA RequestResyncGood ==
    ASSUME NEW s, NEW p, Good(s, p), s.held
    PROVE  Good(RequestResync(s), p)
<1> DEFINE r == [s EXCEPT !.attempts = 0]
<1>1. IsRec(r)
  BY DEF Good, Ok, IsRec
<1>2. Typed(r) /\ r.held
  BY DEF Good, Ok, IsRec, Fields, Typed
<1> HIDE DEF r
<1>3. Good(BeginAttempt(s, TRUE), p) /\ Good(BeginAttempt(r, TRUE), p)
  BY <1>1, <1>2, BeginAttemptGood DEF Good, Ok
<1> QED BY <1>3 DEF RequestResync, r

-----------------------------------------------------------------------------
(* The filter of the snapshot's receipt.                                   *)

LEMMA RevisionsInt == Revisions \subseteq Int
BY DEF Revisions

LEMMA QueueFacts ==
    ASSUME NEW q \in Seq(Revisions)
    PROVE  /\ Len(q) \in Nat
           /\ \A i \in 1..Len(q) : q[i] \in Revisions
           /\ \A i \in 1..Len(q) : q[i] \in Int
           /\ q # <<>> => Len(q) > 0
<1>1. Len(q) \in Nat /\ \A i \in 1..Len(q) : q[i] \in Revisions
  BY LenProperties
<1>2. q # <<>> => Len(q) > 0
  BY EmptySeq
<1> QED BY <1>1, <1>2, RevisionsInt

LEMMA FirstNewerExists ==
    ASSUME NEW q \in Seq(Revisions), NEW revision \in Revisions
    PROVE  LET n == FirstNewer(q, revision)
           IN  /\ n \in 1..(Len(q) + 1)
               /\ \A j \in 1..(n - 1) : q[j] <= revision
               /\ n <= Len(q) => q[n] > revision
<1> DEFINE T == {i \in 1..(Len(q) + 1) : i <= Len(q) => q[i] > revision}
<1>0. /\ Len(q) \in Nat /\ revision \in Int
      /\ \A i \in 1..Len(q) : q[i] \in Int
  BY QueueFacts, RevisionsInt
<1>1. T \subseteq Nat /\ Len(q) + 1 \in T
  BY <1>0
<1>2. PICK n \in T : \A m \in T : ~(<<m, n>> \in OpToRel(<, Nat))
  <2> HIDE DEF T
  <2> QED BY <1>1, NatLessThanWellFounded, WFMin, Zenon
<1>3. \A m \in T : ~(m < n)
  BY <1>1, <1>2 DEF OpToRel
<1>4. \A j \in 1..(n - 1) : q[j] <= revision
  <2> TAKE j \in 1..(n - 1)
  <2>1. j \in 1..Len(q) /\ j < n
    BY <1>0
  <2>2. j \notin T
    BY <1>3, <2>1
  <2> QED BY <1>0, <2>1, <2>2
<1>5. \E i \in 1..(Len(q) + 1) :
         /\ \A j \in 1..(i - 1) : q[j] <= revision
         /\ i <= Len(q) => q[i] > revision
  BY <1>4
<1> QED BY <1>5 DEF FirstNewer

\* What is left after the filter: still revisions, and if the newest buffered frame
\* is newer than the snapshot it is still the last one.
LEMMA NewerKeepsLast ==
    ASSUME NEW q \in Seq(Revisions), NEW revision \in Revisions
    PROVE  LET k == Newer(q, revision)
           IN  /\ k \in Seq(Revisions)
               /\ Len(k) <= Len(q)
               /\ q # <<>> /\ q[Len(q)] > revision =>
                     k # <<>> /\ k[Len(k)] = q[Len(q)]
<1> DEFINE n == FirstNewer(q, revision)
<1> DEFINE k == SubSeq(q, n, Len(q))
<1>0. /\ Len(q) \in Nat /\ (q # <<>> => Len(q) > 0)
      /\ \A i \in 1..Len(q) : q[i] \in Revisions /\ q[i] \in Int
      /\ revision \in Int
  BY QueueFacts, RevisionsInt
<1>1. /\ n \in 1..(Len(q) + 1)
      /\ \A j \in 1..(n - 1) : q[j] <= revision
  BY FirstNewerExists
<1> HIDE DEF n
<1>2. /\ k \in Seq(Revisions)
      /\ Len(k) = IF n <= Len(q) THEN Len(q) - n + 1 ELSE 0
      /\ \A i \in 1..(Len(q) - n + 1) : k[i] = q[n + i - 1]
  BY <1>0, <1>1, SubSeqProperties
<1>3. Len(k) <= Len(q)
  BY <1>0, <1>1, <1>2
<1>4. ASSUME q # <<>>, q[Len(q)] > revision
      PROVE  k # <<>> /\ k[Len(k)] = q[Len(q)]
  <2>1. n <= Len(q)
    BY <1>0, <1>1, <1>4
  <2>2. Len(k) = Len(q) - n + 1 /\ Len(k) > 0
    BY <1>0, <1>1, <1>2, <2>1
  <2>3. k[Len(k)] = q[n + Len(k) - 1]
    BY <1>0, <1>1, <1>2, <2>1, <2>2
  <2>4. n + Len(k) - 1 = Len(q)
    BY <1>0, <1>1, <2>2
  <2>5. k # <<>>
    <3>1. k = <<>> => Len(k) = 0
      BY EmptySeq
    <3> QED BY <2>2, <3>1
  <2> QED BY <2>3, <2>4, <2>5
<1> QED BY <1>2, <1>3, <1>4 DEF Newer, n

-----------------------------------------------------------------------------
(* Records that agree on what the invariant reads.                         *)

Same(t, s) ==
    /\ t.phase = s.phase /\ t.public = s.public /\ t.queue = s.queue
    /\ t.inFlight = s.inFlight /\ t.snapshotRevision = s.snapshotRevision
    /\ t.tail = s.tail /\ t.lastDelivered = s.lastDelivered
    /\ t.routed = s.routed /\ t.held = s.held /\ t.attempts = s.attempts

LEMMA SameIsGood ==
    ASSUME NEW s, NEW t, NEW p, Good(s, p), Ok(t), Same(t, s),
           t.task = s.task, t.host = s.host
    PROVE  Good(t, p)
BY DEF Good, HeldOk, Same, PlacedIn, SnapshotOrBufferIn, TailIsBufferedIn, TailCoversIn,
       LastIn, ReadingIn

LEMMA EndTaskGood ==
    ASSUME NEW s, NEW p, Good(s, p)
    PROVE  Good(EndTask(s), p)
<1> DEFINE t == [s EXCEPT !.task = NoTask]
<1>1. IsRec(t)
  BY DEF Good, Ok, IsRec
<1>2. Typed(t) /\ Same(t, s) /\ t.task = NoTask /\ t.host = s.host
  BY NullsTyped DEF Good, Ok, IsRec, Fields, Typed, Same
<1>3. ~NoTask.fresh /\ NoTask.step = "none"
  BY DEF NoTask
<1> HIDE DEF t
<1>4. Good(t, p)
  BY <1>1, <1>2, <1>3 DEF Good, Ok, HeldOk, Same, PlacedIn, SnapshotOrBufferIn,
     TailIsBufferedIn, TailCoversIn, LastIn, ReadingIn, GapSteps
<1> QED BY <1>4 DEF EndTask, t

LEMMA ReleaseSame ==
    ASSUME NEW s, Ok(s)
    PROVE  /\ Ok(Release(s)) /\ Same(Release(s), s)
           /\ Release(s).task = s.task /\ Release(s).host = s.host
<1> DEFINE n == Less(s.frames, 1)
<1> DEFINE t == [s EXCEPT !.frames = n]
<1>1. n \in Nat
  BY LessNat DEF Ok, Typed
<1> HIDE DEF n
<1>2. IsRec(t)
  BY DEF Ok, IsRec
<1>3. Typed(t) /\ Same(t, s) /\ t.task = s.task /\ t.host = s.host
  BY <1>1 DEF Ok, IsRec, Fields, Typed, Same
<1> QED BY <1>2, <1>3 DEF Release, Ok, n

LEMMA ReserveSame ==
    ASSUME NEW s, Ok(s)
    PROVE  /\ Ok(Reserve(s)) /\ Same(Reserve(s), s)
           /\ Reserve(s).task = s.task /\ Reserve(s).host = s.host
<1> DEFINE n == s.frames + 1
<1> DEFINE t == [s EXCEPT !.frames = n]
<1>1. n \in Nat
  BY DEF Ok, Typed
<1> HIDE DEF n
<1>2. IsRec(t)
  BY DEF Ok, IsRec
<1>3. Typed(t) /\ Same(t, s) /\ t.task = s.task /\ t.host = s.host
  BY <1>1 DEF Ok, IsRec, Fields, Typed, Same
<1> QED BY <1>2, <1>3 DEF Reserve, Ok, n

LEMMA SameCalm ==
    ASSUME NEW s, NEW t, Calm(s), Ok(t), Same(t, s), t.task = s.task
    PROVE  Calm(t)
BY DEF Calm, Resting, Same, HeldOk

-----------------------------------------------------------------------------
(* Delivery.                                                               *)

\* Sending a frame either puts it in flight and changes nothing else the invariant
\* reads, or ends in a calm record, or finds the connection already over.
Sent(t, s, revision) ==
    /\ Ok(t) /\ s.host = "open" /\ t.host = "open"
    /\ t.inFlight.revision = revision
    /\ t.phase = s.phase /\ t.public = s.public /\ t.queue = s.queue
    /\ t.snapshotRevision = s.snapshotRevision
    /\ t.tail = s.tail /\ t.lastDelivered = s.lastDelivered
    /\ t.routed = s.routed /\ t.held = s.held /\ t.task = s.task

LEMMA TransmitCases ==
    ASSUME NEW s, Ok(s), s.held, s.phase # "terminated", NEW revision \in Revisions
    PROVE  LET t == Transmit(s, revision)
           IN  \/ Calm(t) /\ t.task.step = s.task.step
               \/ Sent(t, s, revision)
               \/ /\ s.host \notin {"open", "stalled"}
                  /\ Ok(t) /\ Same(t, s) /\ t.task = s.task /\ t.host = s.host
<1> DEFINE t == Transmit(s, revision)
<1>1. CASE s.host = "stalled"
  <2> DEFINE d == Teardown(s)
  <2>1. Calm(d) /\ d.task.step = s.task.step
    BY TeardownCalms
  <2>2. t = Release(d)
    BY <1>1 DEF Transmit, CanDeliver, Notice
  <2> HIDE DEF d, t
  <2>3. Ok(d)
    BY <2>1 DEF Calm, Resting
  <2>4. Ok(Release(d)) /\ Same(Release(d), d) /\ Release(d).task = d.task
    BY <2>3, ReleaseSame
  <2>5. Calm(Release(d))
    BY <2>1, <2>4, SameCalm
  <2> QED BY <2>1, <2>2, <2>4, <2>5 DEF t
<1>2. CASE s.host \notin {"open", "stalled"}
  BY <1>2, ReleaseSame DEF Transmit, CanDeliver, Notice
<1>3. CASE s.host = "open" /\ s.sequence >= MaxSequence - 1
  <2>1. t = AttemptFailed(Release(s))
    BY <1>3 DEF Transmit, CanDeliver
  <2>2. Ok(Release(s)) /\ Release(s).held /\ Release(s).task = s.task
    BY ReleaseSame DEF Same
  <2> QED BY <2>1, <2>2, AttemptFailedCalms
<1>4. CASE s.host = "open" /\ ~(s.sequence >= MaxSequence - 1)
  <2> DEFINE n == s.sequence + 1
  <2> DEFINE f == [revision |-> revision, sequence |-> n]
  <2> DEFINE u == [s EXCEPT !.sequence = n, !.inFlight = f]
  <2>1. t = u
    BY <1>4 DEF Transmit, CanDeliver
  <2>2. n \in Nat
    BY DEF Ok, Typed
  <2>3. f \in [revision : Revisions, sequence : Nat] /\ f.revision = revision
    BY <2>2
  <2> HIDE DEF n, f, t
  <2>4. IsRec(u)
    BY DEF Ok, IsRec
  <2>5. Typed(u) /\ u.inFlight = f
    BY <2>2, <2>3 DEF Ok, IsRec, Fields, Typed
  <2>6. /\ u.phase = s.phase /\ u.public = s.public /\ u.queue = s.queue
        /\ u.snapshotRevision = s.snapshotRevision
        /\ u.tail = s.tail /\ u.lastDelivered = s.lastDelivered
        /\ u.routed = s.routed /\ u.held = s.held /\ u.task = s.task /\ u.host = s.host
    BY DEF Ok, IsRec, Fields
  <2> HIDE DEF u
  <2>7. Sent(u, s, revision)
    BY <1>4, <2>3, <2>4, <2>5, <2>6 DEF Sent, Ok
  <2> QED BY <2>1, <2>7 DEF t
<1> QED BY <1>1, <1>2, <1>3, <1>4

\* A record that drains or is live, between two calls of one method.
Flowing(s, p) ==
    /\ Ok(s) /\ s.held /\ s.routed
    /\ s.phase \in {"draining", "live"}
    /\ ~s.task.fresh /\ s.task.step \notin GapSteps
    /\ s.public = "live" => s.phase = "live"
    /\ TailCoversIn(s, p)

LEMMA FlowingIsGood ==
    ASSUME NEW s, NEW p, Flowing(s, p)
    PROVE  Good(s, p)
BY DEF Flowing, Good, HeldOk, PlacedIn, SnapshotOrBufferIn, TailIsBufferedIn, Capturing

LEMMA GoodFlows ==
    ASSUME NEW s, NEW p, Good(s, p), s.phase \in {"draining", "live"}
    PROVE  Flowing(s, p)
BY DEF Flowing, Good, HeldOk, PlacedIn, Capturing

\* Taking the head of a queue keeps its last frame, unless the head was the last.
LEMMA TailKeepsLast ==
    ASSUME NEW q \in Seq(Revisions), q # <<>>
    PROVE  /\ Head(q) \in Revisions /\ Tail(q) \in Seq(Revisions)
           /\ \/ Head(q) = q[Len(q)]
              \/ Tail(q) # <<>> /\ Tail(q)[Len(Tail(q))] = q[Len(q)]
<1>1. /\ Head(q) \in Revisions /\ Head(q) = q[1]
      /\ Tail(q) \in Seq(Revisions) /\ Len(Tail(q)) = Len(q) - 1
      /\ \A i \in 1..Len(Tail(q)) : Tail(q)[i] = q[i + 1]
  BY HeadTailProperties
<1>2. Len(q) \in Nat /\ Len(q) > 0
  BY QueueFacts
<1>3. CASE Len(q) = 1
  BY <1>1, <1>3
<1>4. CASE Len(q) > 1
  <2>1. Tail(q)[Len(Tail(q))] = q[Len(q)]
    BY <1>1, <1>2, <1>4
  <2>2. Tail(q) # <<>>
    <3>1. Tail(q) = <<>> => Len(Tail(q)) = 0
      BY EmptySeq
    <3> QED BY <1>1, <1>2, <1>4, <3>1
  <2> QED BY <1>1, <2>1, <2>2
<1> QED BY <1>1, <1>2, <1>3, <1>4

LEMMA PumpGood ==
    ASSUME NEW s, NEW p, Flowing(s, p)
    PROVE  Good(Pump(s), p)
<1>1. CASE s.inFlight # NoFrame \/ s.queue = <<>>
  BY <1>1, FlowingIsGood DEF Pump
<1>2. CASE s.inFlight = NoFrame /\ s.queue # <<>>
  <2> DEFINE h == Head(s.queue)
  <2> DEFINE q == Tail(s.queue)
  <2> DEFINE c == [s EXCEPT !.queue = q]
  <2> DEFINE t == Transmit(c, h)
  <2>1. Pump(s) = t
    BY <1>2 DEF Pump, Flowing
  <2>2. /\ h \in Revisions /\ q \in Seq(Revisions)
        /\ h = s.queue[Len(s.queue)] \/ (q # <<>> /\ q[Len(q)] = s.queue[Len(s.queue)])
    <3>1. s.queue \in Seq(Revisions)
      BY DEF Flowing, Ok, Typed
    <3> QED BY <1>2, <3>1, TailKeepsLast
  <2> HIDE DEF h, q, t
  <2>3. IsRec(c)
    BY DEF Flowing, Ok, IsRec
  <2>4. /\ Typed(c) /\ c.queue = q
        /\ c.phase = s.phase /\ c.public = s.public /\ c.tail = s.tail
        /\ c.lastDelivered = s.lastDelivered /\ c.routed = s.routed
        /\ c.held = s.held /\ c.task = s.task /\ c.host = s.host
    BY <2>2 DEF Flowing, Ok, IsRec, Fields, Typed
  <2> HIDE DEF c
  <2>5. \/ Calm(t) /\ t.task.step = c.task.step
        \/ Sent(t, c, h)
        \/ /\ c.host \notin {"open", "stalled"}
           /\ Ok(t) /\ Same(t, c) /\ t.task = c.task /\ t.host = c.host
    <3>1. Ok(c) /\ c.held /\ c.phase # "terminated"
      BY <2>3, <2>4 DEF Ok, Flowing
    <3> QED BY <2>2, <3>1, TransmitCases DEF t
  <2>6. CASE Calm(t) /\ t.task.step = c.task.step
    BY <2>1, <2>4, <2>6, CalmIsGood DEF Flowing
  <2>7. CASE Sent(t, c, h)
    <3>1. TailCoversIn(t, p)
      <4>0. s.tail \in Int /\ s.lastDelivered \in Int
        BY RevisionsInt DEF Flowing, Ok, Typed
      <4>1. s.tail \in Int /\ s.lastDelivered \in Int /\ s.inFlight.revision = 0
        BY <1>2, <4>0 DEF NoFrame
      <4>2. /\ p <= s.tail
            /\ \/ s.tail <= s.lastDelivered
               \/ s.tail <= 0
               \/ s.queue[Len(s.queue)] = s.tail
        BY <1>2, <2>4, <2>7, <4>1 DEF Flowing, TailCoversIn, LastIn, ReadingIn, Sent
      <4>3. h \in Int /\ 0 <= h
        BY <2>2, BoundsAssumption DEF Revisions
      <4> QED BY <2>2, <2>4, <2>7, <4>1, <4>2, <4>3 DEF TailCoversIn, LastIn, Sent
    <3>2. Flowing(t, p)
      BY <2>4, <2>7, <3>1 DEF Flowing, Sent
    <3> QED BY <2>1, <3>2, FlowingIsGood
  <2>8. CASE /\ c.host \notin {"open", "stalled"}
             /\ Ok(t) /\ Same(t, c) /\ t.task = c.task /\ t.host = c.host
    <3>1. TailCoversIn(t, p)
      BY <2>8 DEF TailCoversIn, ReadingIn
    <3>2. Flowing(t, p)
      BY <2>4, <2>8, <3>1 DEF Flowing, Same
    <3> QED BY <2>1, <3>2, FlowingIsGood
  <2> QED BY <2>5, <2>6, <2>7, <2>8
<1> QED BY <1>1, <1>2

LEMMA GoLiveGood ==
    ASSUME NEW s, NEW p, Flowing(s, p)
    PROVE  Good(GoLive(s), p)
<1> DEFINE b == [s EXCEPT !.phase = "live", !.attempts = 0]
<1> DEFINE t == [b EXCEPT !.public = "live"]
<1>1. IsRec(b)
  BY DEF Flowing, Ok, IsRec
<1>2. Typed(b) /\ b.phase = "live"
  <2>1. Ok(s) /\ 0 \in Nat
    BY DEF Flowing
  <2> QED BY <2>1 DEF Ok, IsRec, Fields, Typed, Phases
<1>3. /\ b.queue = s.queue /\ b.inFlight = s.inFlight /\ b.tail = s.tail
      /\ b.lastDelivered = s.lastDelivered /\ b.routed = s.routed
      /\ b.held = s.held /\ b.task = s.task /\ b.host = s.host
  BY DEF Flowing, Ok, IsRec, Fields
<1> HIDE DEF b
<1>4. IsRec(t)
  BY <1>1 DEF IsRec
<1>5. /\ Typed(t) /\ t.phase = "live" /\ t.public = "live"
      /\ t.queue = b.queue /\ t.inFlight = b.inFlight /\ t.tail = b.tail
      /\ t.lastDelivered = b.lastDelivered /\ t.routed = b.routed
      /\ t.held = b.held /\ t.task = b.task /\ t.host = b.host
  BY <1>1, <1>2 DEF IsRec, Fields, Typed, PublicStates
<1>6. GoLive(s) = Pump(Notice(t))
  BY DEF GoLive, SendState, b, t
<1> HIDE DEF t
<1>7. Flowing(t, p)
  BY <1>3, <1>4, <1>5 DEF Flowing, Ok, TailCoversIn, LastIn, ReadingIn
<1>8. CASE t.host # "stalled"
  BY <1>6, <1>7, <1>8, PumpGood DEF Notice
<1>9. CASE t.host = "stalled"
  <2> DEFINE d == Teardown(t)
  <2>1. Calm(d) /\ d.task.step = t.task.step
    BY <1>7, TeardownCalms DEF Flowing
  <2>2. Notice(t) = d
    BY <1>9 DEF Notice
  <2> HIDE DEF d
  <2>3. Pump(d) = d
    BY <2>1 DEF Pump, Calm, Resting, Capturing
  <2> QED BY <1>6, <1>7, <2>1, <2>2, <2>3, CalmIsGood DEF Flowing
<1> QED BY <1>8, <1>9

\* The snapshot's receipt: what it carried is confirmed, the buffer is filtered.
LEMMA SnapshotReceivedGood ==
    ASSUME NEW s, NEW p, Ok(s), s.held, s.routed, s.phase = "snapshot-sent",
           s.public # "live", ~s.task.fresh, s.task.step \notin GapSteps,
           s.inFlight = NoFrame,
           ReadingIn(s) =>
              /\ p <= s.tail
              /\ s.snapshotRevision <= s.lastDelivered
              /\ s.tail <= s.snapshotRevision \/ LastIn(s, s.tail)
    PROVE  Good(SnapshotReceived(s), p)
<1> DEFINE kept == Newer(s.queue, s.snapshotRevision)
<1> DEFINE n == Less(s.frames, Len(s.queue) - Len(kept))
<1> DEFINE l == Len(kept)
<1> DEFINE t == [s EXCEPT !.queue = kept, !.frames = n, !.drainRemaining = l,
                          !.phase = "draining"]
<1>1. SnapshotReceived(s) = IF kept = <<>> THEN GoLive(t) ELSE Pump(t)
  BY DEF SnapshotReceived
<1>2. /\ s.queue \in Seq(Revisions) /\ s.snapshotRevision \in Revisions
      /\ s.tail \in Int /\ s.snapshotRevision \in Int /\ s.lastDelivered \in Int
  BY RevisionsInt DEF Ok, Typed
<1>3. /\ kept \in Seq(Revisions) /\ Len(kept) <= Len(s.queue)
      /\ s.queue # <<>> /\ s.queue[Len(s.queue)] > s.snapshotRevision =>
            kept # <<>> /\ kept[Len(kept)] = s.queue[Len(s.queue)]
  BY <1>2, NewerKeepsLast
<1> HIDE DEF kept
<1>4. n \in Nat /\ l \in Int
  <2>1. Len(s.queue) \in Nat /\ Len(kept) \in Nat /\ s.frames \in Nat
    BY <1>2, <1>3, QueueFacts DEF Ok, Typed
  <2>2. Len(s.queue) - Len(kept) \in Nat
    BY <1>3, <2>1
  <2>3. l \in Int
    BY <2>1
  <2> QED BY <2>1, <2>2, <2>3, LessNat DEF n
<1> HIDE DEF n, l
<1>5. IsRec(t)
  BY DEF Ok, IsRec
<1>6. /\ Typed(t) /\ t.phase = "draining" /\ t.queue = kept
  BY <1>3, <1>4 DEF Ok, IsRec, Fields, Typed, Phases
<1>7. /\ t.public = s.public /\ t.inFlight = s.inFlight /\ t.tail = s.tail
      /\ t.lastDelivered = s.lastDelivered /\ t.routed = s.routed
      /\ t.held = s.held /\ t.task = s.task /\ t.host = s.host
  BY DEF Ok, IsRec, Fields
<1> HIDE DEF t
<1>8. TailCoversIn(t, p)
  <2> SUFFICES ASSUME ReadingIn(t)
               PROVE  p <= t.tail /\ (t.tail <= t.lastDelivered \/ LastIn(t, t.tail))
    BY DEF TailCoversIn
  <2>1. ReadingIn(s)
    BY <1>7 DEF ReadingIn
  <2>2. CASE s.tail <= s.snapshotRevision
    BY <1>2, <1>7, <2>1, <2>2
  <2>3. CASE s.tail > s.snapshotRevision /\ LastIn(s, s.tail)
    BY <1>3, <1>6, <1>7, <2>1, <2>3 DEF LastIn
  <2> QED BY <1>2, <2>1, <2>2, <2>3
<1>9. Flowing(t, p)
  BY <1>5, <1>6, <1>7, <1>8 DEF Flowing, Ok
<1> QED BY <1>1, <1>9, GoLiveGood, PumpGood

\* The receipt of the frame in flight.
LEMMA ConfirmGood ==
    ASSUME NEW s, NEW p, Good(s, p), s.phase \in Capturing, s.inFlight # NoFrame
    PROVE  Good(Confirm(s), p)
<1> DEFINE m == Max2(s.lastDelivered, s.inFlight.revision)
<1> DEFINE r == Release(s)
<1> DEFINE t == [r EXCEPT !.inFlight = NoFrame, !.lastDelivered = m]
<1> DEFINE n == t.drainRemaining - 1
<1> DEFINE d == [t EXCEPT !.drainRemaining = n]
<1>1. /\ s.phase \in {"snapshot-sent", "draining", "live"}
      /\ Ok(s) /\ s.held /\ s.routed /\ ~s.task.fresh /\ s.task.step \notin GapSteps
  BY DEF Good, HeldOk, PlacedIn, TailIsBufferedIn, Capturing
<1>2. /\ Ok(r) /\ Same(r, s) /\ r.task = s.task /\ r.host = s.host
  BY <1>1, ReleaseSame
<1>3. /\ m \in Revisions /\ m \in Int
      /\ s.lastDelivered \in Int /\ s.inFlight.revision \in Int
      /\ s.lastDelivered <= m /\ s.inFlight.revision <= m
  <2>1. s.lastDelivered \in Revisions /\ s.inFlight.revision \in Revisions
    BY <1>1 DEF Ok, Typed
  <2>2. s.lastDelivered \in Int /\ s.inFlight.revision \in Int
    BY <2>1, RevisionsInt
  <2>3. m = s.lastDelivered \/ m = s.inFlight.revision
    BY DEF Max2
  <2>4. s.lastDelivered <= m /\ s.inFlight.revision <= m
    BY <2>2 DEF Max2
  <2> QED BY <2>1, <2>2, <2>3, <2>4
<1>4. Confirm(s) = CASE t.phase = "snapshot-sent" -> SnapshotReceived(t)
                     [] t.phase = "draining" -> IF d.drainRemaining <= 0 THEN GoLive(d) ELSE Pump(d)
                     [] OTHER -> Pump(t)
  <2>1. r.lastDelivered = s.lastDelivered
    BY <1>2 DEF Same
  <2> QED BY <2>1 DEF Confirm
<1> HIDE DEF m, r
<1>5. IsRec(t)
  BY <1>2 DEF Ok, IsRec
<1>6. Typed(t) /\ t.inFlight = NoFrame /\ t.lastDelivered = m
  BY <1>2, <1>3, NullsTyped DEF Ok, IsRec, Fields, Typed
<1>7. /\ t.phase = s.phase /\ t.public = s.public /\ t.queue = s.queue
      /\ t.snapshotRevision = s.snapshotRevision /\ t.tail = s.tail
      /\ t.routed = s.routed /\ t.held = s.held /\ t.task = s.task /\ t.host = s.host
  BY <1>2 DEF Ok, IsRec, Fields, Same
<1>8. n \in Int
  BY <1>6 DEF Typed
<1> HIDE DEF t, n
<1>9. IsRec(d)
  BY <1>5 DEF IsRec
<1>10. Typed(d)
  BY <1>5, <1>6, <1>8 DEF IsRec, Fields, Typed
<1>11. /\ d.phase = t.phase /\ d.public = t.public /\ d.queue = t.queue
       /\ d.inFlight = t.inFlight /\ d.tail = t.tail /\ d.lastDelivered = t.lastDelivered
       /\ d.routed = t.routed /\ d.held = t.held /\ d.task = t.task /\ d.host = t.host
  BY <1>5 DEF IsRec, Fields
<1>12. CASE s.phase = "snapshot-sent"
  <2>1. ReadingIn(t) =>
           /\ p <= t.tail
           /\ t.snapshotRevision <= t.lastDelivered
           /\ t.tail <= t.snapshotRevision \/ LastIn(t, t.tail)
    BY <1>3, <1>6, <1>7, <1>12 DEF Good, TailIsBufferedIn, TailCoversIn, LastIn, ReadingIn
  <2>2. t.public # "live"
    BY <1>7, <1>12 DEF Good
  <2>3. Good(SnapshotReceived(t), p)
    BY <1>1, <1>5, <1>6, <1>7, <1>12, <2>1, <2>2, SnapshotReceivedGood DEF Ok
  <2> QED BY <1>4, <1>7, <1>12, <2>3
<1>13. CASE s.phase \in {"draining", "live"}
  <2>1. TailCoversIn(t, p)
    <3>1. s.tail \in Int
      BY <1>1, RevisionsInt DEF Ok, Typed
    <3> QED BY <1>3, <1>6, <1>7, <1>13, <3>1 DEF Good, TailCoversIn, LastIn, ReadingIn
  <2>2. Flowing(t, p)
    BY <1>1, <1>5, <1>6, <1>7, <1>13, <2>1 DEF Flowing, Ok, Good
  <2>3. Flowing(d, p)
    BY <1>9, <1>10, <1>11, <2>2 DEF Flowing, Ok, TailCoversIn, LastIn, ReadingIn
  <2>4. Good(Pump(t), p) /\ Good(Pump(d), p) /\ Good(GoLive(d), p)
    BY <2>2, <2>3, PumpGood, GoLiveGood
  <2> QED BY <1>4, <1>7, <1>13, <2>4
<1> QED BY <1>1, <1>12, <1>13

LEMMA OnReceiptGood ==
    ASSUME NEW s, NEW p, Good(s, p), s.task.step \notin GapSteps, s.host # "stalled",
           NEW sequence
    PROVE  Good(OnReceipt(s, sequence), p)
<1>1. CASE s.phase \notin Capturing
  BY <1>1 DEF OnReceipt
<1>2. CASE s.phase \in Capturing
  <2>1. Good(ProtocolViolation(s), p)
    <3>1. ProtocolViolation(s) = AttemptFailed(s)
      BY DEF ProtocolViolation, SendError, Notice
    <3>2. Ok(s) /\ s.held
      BY <1>2 DEF Good, HeldOk, Capturing
    <3> QED BY <3>1, <3>2, AttemptFailedCalms, CalmIsGood
  <2>2. s.inFlight # NoFrame => Good(Confirm(s), p)
    BY <1>2, ConfirmGood
  <2> QED BY <1>2, <2>1, <2>2 DEF OnReceipt
<1> QED BY <1>1, <1>2

\* A record that does not reach the subscription, or is no newer than its tail.
LEMMA PassedOverGood ==
    ASSUME NEW s, NEW p \in Nat, Good(s, p), NEW revision \in Revisions,
           ~s.routed \/ revision <= s.tail
    PROVE  Good(s, Max2(p, revision))
<1> DEFINE m == Max2(p, revision)
<1>1. m = p \/ m = revision
  BY DEF Max2
<1> HIDE DEF m
<1>2. CASE s.phase \notin Capturing
  BY <1>2 DEF Good, PlacedIn, SnapshotOrBufferIn, TailCoversIn, Capturing
<1>3. CASE s.phase \in Capturing
  <2>1. revision <= s.tail
    BY <1>3 DEF Good
  <2>2. SnapshotOrBufferIn(s, m)
    BY <1>1, <2>1 DEF Good, SnapshotOrBufferIn
  <2>3. TailCoversIn(s, m)
    BY <1>1, <2>1 DEF Good, TailCoversIn
  <2> QED BY <2>2, <2>3 DEF Good, m
<1> QED BY <1>2, <1>3

LEMMA AppendFacts ==
    ASSUME NEW q \in Seq(Revisions), NEW r \in Revisions
    PROVE  LET a == Append(q, r)
           IN  a \in Seq(Revisions) /\ a # <<>> /\ a[Len(a)] = r
<1>1. Len(q) \in Nat
  BY QueueFacts
<1>2. /\ Append(q, r) \in Seq(Revisions) /\ Len(Append(q, r)) = Len(q) + 1
      /\ Append(q, r)[Len(q) + 1] = r
  BY AppendProperties
<1>3. Append(q, r) = <<>> => Len(Append(q, r)) = 0
  BY EmptySeq
<1> QED BY <1>1, <1>2, <1>3

LEMMA AdmitGood ==
    ASSUME NEW s, NEW p \in Nat, Good(s, p), s.task.step \notin GapSteps, s.routed,
           NEW revision \in Revisions, NEW room \in BOOLEAN
    PROVE  Good(Admit(s, revision, room), Max2(p, revision))
<1> DEFINE m == Max2(p, revision)
<1>1. s.phase \in Capturing /\ Ok(s) /\ s.held
  BY DEF Good, HeldOk, Capturing
<1>2. /\ s.tail \in Revisions /\ s.tail \in Int /\ 0 <= s.tail
      /\ revision \in Int /\ 0 <= revision
  BY <1>1, BoundsAssumption DEF Ok, Typed, Revisions
<1>3. CASE s.tail # 0 /\ revision <= s.tail
  BY <1>1, <1>3, PassedOverGood DEF Admit
<1>4. CASE ~(s.tail # 0 /\ revision <= s.tail) /\ ~CanReserve(s, room)
  <2>1. Admit(s, revision, room) = AttemptFailed(s)
    BY <1>1, <1>4 DEF Admit
  <2> QED BY <1>1, <2>1, AttemptFailedCalms, CalmIsGood
<1>5. CASE ~(s.tail # 0 /\ revision <= s.tail) /\ CanReserve(s, room)
  <2> DEFINE r == Reserve(s)
  <2> DEFINE q == Append(r.queue, revision)
  <2> DEFINE t == [r EXCEPT !.queue = q, !.tail = revision]
  <2>1. Admit(s, revision, room) = Pump(t)
    BY <1>1, <1>5 DEF Admit
  <2>2. /\ Ok(r) /\ Same(r, s) /\ r.task = s.task /\ r.host = s.host
    BY <1>1, ReserveSame
  <2>3. q \in Seq(Revisions) /\ q # <<>> /\ q[Len(q)] = revision
    <3>1. r.queue \in Seq(Revisions)
      BY <2>2 DEF Ok, Typed
    <3> QED BY <3>1, AppendFacts
  <2> HIDE DEF r, q
  <2>4. IsRec(t)
    BY <2>2 DEF Ok, IsRec
  <2>5. Typed(t) /\ t.queue = q /\ t.tail = revision
    BY <2>2, <2>3 DEF Ok, IsRec, Fields, Typed
  <2>6. /\ t.phase = s.phase /\ t.public = s.public /\ t.inFlight = s.inFlight
        /\ t.snapshotRevision = s.snapshotRevision /\ t.lastDelivered = s.lastDelivered
        /\ t.routed = s.routed /\ t.held = s.held /\ t.task = s.task /\ t.host = s.host
    BY <2>2 DEF Ok, IsRec, Fields, Same
  <2>7. m \in Int /\ (m = p \/ m = revision) /\ (p <= s.tail => m <= revision)
    BY <1>2, <1>5 DEF Max2
  <2> HIDE DEF t, m
  <2>8. LastIn(t, t.tail)
    BY <2>3, <2>5 DEF LastIn
  <2>9. SnapshotOrBufferIn(t, m)
    BY <1>2, <2>5, <2>6, <2>7 DEF Good, SnapshotOrBufferIn
  <2>10. TailCoversIn(t, m)
    BY <2>5, <2>6, <2>7, <2>8 DEF Good, TailCoversIn, ReadingIn
  <2>11. Good(t, m)
    BY <1>1, <2>4, <2>5, <2>6, <2>8, <2>9, <2>10
       DEF Good, Ok, HeldOk, PlacedIn, TailIsBufferedIn, ReadingIn, Capturing
  <2>12. CASE s.phase \in {"draining", "live"}
    <3>1. Flowing(t, m)
      BY <2>6, <2>11, <2>12, GoodFlows
    <3> QED BY <2>1, <3>1, PumpGood DEF m
  <2>13. CASE s.phase \notin {"draining", "live"}
    BY <2>1, <2>6, <2>11, <2>13 DEF Pump, m
  <2> QED BY <2>12, <2>13
<1> QED BY <1>3, <1>4, <1>5

-----------------------------------------------------------------------------
(* The attempt's coroutine.                                                *)

\* Replacing the coroutine of a good record by one the same phase allows.
LEMMA RetaskGood ==
    ASSUME NEW s, NEW p, Good(s, p), NEW k \in TaskType,
           k.fresh => s.task.fresh,
           k.fresh =>
              \/ s.phase = "authorizing" /\ k.step \in {"authorize", "admitted"}
              \/ /\ s.phase = "capturing"
                 /\ k.step \in {"acquire", "snapshot", "recheck", "cleared"},
           k.step \in GapSteps => k.fresh /\ s.host = "open",
           k.fresh =>
              /\ k.step = "snapshot" => p <= k.floor \/ p <= s.tail
              /\ k.step \in {"recheck", "cleared"} => p <= k.revision \/ p <= s.tail
    PROVE  Good([s EXCEPT !.task = k], p)
<1> DEFINE t == [s EXCEPT !.task = k]
<1>1. IsRec(t)
  BY DEF Good, Ok, IsRec
<1>2. Typed(t) /\ Same(t, s) /\ t.task = k /\ t.host = s.host
  BY DEF Good, Ok, IsRec, Fields, Typed, Same
<1> HIDE DEF t
<1>3. Good(t, p)
  BY <1>1, <1>2 DEF Good, Ok, HeldOk, Same, PlacedIn, SnapshotOrBufferIn,
     TailIsBufferedIn, TailCoversIn, LastIn, ReadingIn
<1> QED BY <1>3 DEF t

\* A running coroutine belongs to a held subscription that is synchronizing.
LEMMA RunningFacts ==
    ASSUME NEW s, NEW p, Good(s, p), s.task.fresh
    PROVE  /\ Ok(s) /\ s.held /\ s.phase \in {"authorizing", "capturing"}
           /\ s.public # "live" /\ s.task \in TaskType
BY DEF Good, HeldOk, PlacedIn, Ok, Typed

LEMMA AuthorizedGood ==
    ASSUME NEW s, NEW p, Good(s, p), s.task.fresh, s.task.step \in {"authorize", "recheck"},
           NEW outcome
    PROVE  Good(Authorized(s, outcome), p)
<1> DEFINE next == IF s.task.step = "authorize" THEN "admitted" ELSE "cleared"
<1> DEFINE k == [s.task EXCEPT !.step = next]
<1>1. /\ Ok(s) /\ s.held /\ s.phase # "terminated" /\ s.task \in TaskType
      /\ s.task.step \notin GapSteps
  BY RunningFacts DEF GapSteps
<1>2. Good(EndTask(AttemptFailed(s)), p) /\ Good(EndTask(Fail(s)), p)
  BY <1>1, AttemptFailedCalms, FailCalms, CalmEndIsGood
<1>3. Good(EndTask(Notice(s)), p)
  <2>1. CASE s.host = "stalled"
    BY <1>1, <2>1, TeardownCalms, CalmEndIsGood DEF Notice
  <2>2. CASE s.host # "stalled"
    BY <2>2, EndTaskGood DEF Notice
  <2> QED BY <2>1, <2>2
<1>4. ASSUME CanDeliver(s)
      PROVE  Good([s EXCEPT !.task = k], p)
  <2>1. k \in TaskType /\ k.step = next /\ k.fresh /\ k.revision = s.task.revision
    BY <1>1 DEF TaskType, Steps
  <2>2. s.task.step = "recheck" => p <= s.task.revision \/ p <= s.tail
    BY DEF Good, SnapshotOrBufferIn
  <2>3. \/ s.phase = "authorizing" /\ next = "admitted"
        \/ s.phase = "capturing" /\ next = "cleared"
    BY DEF Good, PlacedIn
  <2> HIDE DEF k
  <2> QED BY <1>4, <2>1, <2>2, <2>3, RetaskGood DEF CanDeliver
<1>5. CanDeliver(s) => Notice(s) = s
  BY DEF CanDeliver, Notice
<1>6. \/ Authorized(s, outcome) = EndTask(AttemptFailed(s))
      \/ Authorized(s, outcome) = EndTask(Fail(s))
      \/ ~CanDeliver(s) /\ Authorized(s, outcome) = EndTask(Notice(s))
      \/ CanDeliver(s) /\ Authorized(s, outcome) = EndTask(Fail(Notice(s)))
      \/ CanDeliver(s) /\ Authorized(s, outcome) = [Notice(s) EXCEPT !.task.step = next]
  BY DEF Authorized
<1>7. [s EXCEPT !.task.step = next] = [s EXCEPT !.task = k]
  OBVIOUS
<1> HIDE DEF k, next
<1>8. CASE CanDeliver(s) /\ Authorized(s, outcome) = EndTask(Fail(Notice(s)))
  BY <1>2, <1>5, <1>8
<1>9. CASE CanDeliver(s) /\ Authorized(s, outcome) = [Notice(s) EXCEPT !.task.step = next]
  BY <1>4, <1>5, <1>7, <1>9
<1> QED BY <1>2, <1>3, <1>6, <1>8, <1>9

LEMMA StartCaptureGood ==
    ASSUME NEW s, NEW p, Good(s, p), s.task.step = "admitted", NEW ready \in BOOLEAN
    PROVE  Good(StartCapture(s, ready), p)
<1>1. /\ s.task.fresh /\ s.host = "open" /\ s.phase = "authorizing"
      /\ Ok(s) /\ s.held /\ ~s.routed /\ s.public # "live"
      /\ s.inFlight = NoFrame /\ s.tail = 0 /\ s.attempts > 0 /\ s.task \in TaskType
  BY RunningFacts DEF Good, PlacedIn, TailIsBufferedIn, GapSteps, Capturing
<1>2. CASE ~ready
  <2> DEFINE n == s.attempts - 1
  <2> DEFINE b == [s EXCEPT !.attempts = n, !.phase = "waiting-source"]
  <2> DEFINE u == [b EXCEPT !.public = "stale"]
  <2> DEFINE t == [u EXCEPT !.task = NoTask]
  <2>0. n \in Nat
    BY <1>1 DEF Ok, Typed
  <2>1. StartCapture(s, ready) = EndTask(Notice(u))
    BY <1>2 DEF StartCapture, SendState
  <2> HIDE DEF n
  <2>2. IsRec(b)
    BY <1>1 DEF Ok, IsRec
  <2>3. /\ Typed(b) /\ b.phase = "waiting-source" /\ b.routed = s.routed
        /\ b.held = s.held /\ b.host = s.host
    BY <1>1, <2>0 DEF Ok, IsRec, Fields, Typed, Phases
  <2> HIDE DEF b
  <2>4. IsRec(u)
    BY <2>2 DEF IsRec
  <2>5. /\ Typed(u) /\ u.phase = "waiting-source" /\ u.public = "stale"
        /\ u.routed = b.routed /\ u.held = b.held /\ u.host = b.host
    BY <2>2, <2>3 DEF IsRec, Fields, Typed, PublicStates
  <2> HIDE DEF u
  <2>6. IsRec(t)
    BY <2>4 DEF IsRec
  <2>7. /\ Typed(t) /\ t.phase = "waiting-source" /\ t.public = "stale"
        /\ t.routed = u.routed /\ t.held = u.held /\ t.task = NoTask
    BY <2>4, <2>5, NullsTyped DEF IsRec, Fields, Typed
  <2>8. Notice(u) = u
    BY <1>1, <2>3, <2>5 DEF Notice
  <2>9. ~NoTask.fresh /\ NoTask.step = "none"
    BY DEF NoTask
  <2>10. EndTask(Notice(u)) = t
    BY <2>8 DEF EndTask
  <2> HIDE DEF t
  <2>11. Good(t, p)
    BY <1>1, <2>3, <2>5, <2>6, <2>7, <2>9 DEF Good, Ok, HeldOk, PlacedIn,
       SnapshotOrBufferIn, TailIsBufferedIn, TailCoversIn, Capturing, GapSteps
  <2> QED BY <2>1, <2>10, <2>11
<1>3. CASE ready
  <2> DEFINE b == [s EXCEPT !.sequence = 0]
  <2> DEFINE u == [b EXCEPT !.public = "synchronizing"]
  <2> DEFINE k == [u.task EXCEPT !.step = "acquire"]
  <2> DEFINE t == [u EXCEPT !.phase = "capturing", !.routed = TRUE, !.task = k]
  <2>1. StartCapture(s, ready) = [Notice(u) EXCEPT !.phase = "capturing", !.routed = TRUE,
                                                   !.task.step = "acquire"]
    BY <1>3 DEF StartCapture, SendState
  <2>2. IsRec(b)
    BY <1>1 DEF Ok, IsRec
  <2>3. Typed(b)
    <3>1. 0 \in Nat
      OBVIOUS
    <3> QED BY <1>1, <3>1 DEF Ok, IsRec, Fields, Typed
  <2>4. b.held = s.held /\ b.host = s.host /\ b.task = s.task
        /\ b.inFlight = s.inFlight /\ b.tail = s.tail
    BY <1>1 DEF Ok, IsRec, Fields
  <2> HIDE DEF b
  <2>5. IsRec(u)
    BY <2>2 DEF IsRec
  <2>6. /\ Typed(u) /\ u.public = "synchronizing" /\ u.held = b.held /\ u.host = b.host
        /\ u.task = b.task /\ u.inFlight = b.inFlight /\ u.tail = b.tail
    BY <2>2, <2>3 DEF IsRec, Fields, Typed, PublicStates
  <2> HIDE DEF u
  <2>7. Notice(u) = u
    BY <1>1, <2>4, <2>6 DEF Notice
  <2>8. k \in TaskType /\ k.step = "acquire"
    BY <2>6 DEF Typed, TaskType, Steps
  <2>9. [u EXCEPT !.phase = "capturing", !.routed = TRUE, !.task.step = "acquire"] = t
    BY <2>5 DEF IsRec, Fields
  <2> HIDE DEF k
  <2>10. IsRec(t)
    BY <2>5 DEF IsRec
  <2>11. /\ Typed(t) /\ t.phase = "capturing" /\ t.routed /\ t.public = u.public
         /\ t.held = u.held /\ t.host = u.host /\ t.task = k
         /\ t.inFlight = u.inFlight /\ t.tail = u.tail
    BY <2>5, <2>6, <2>8 DEF IsRec, Fields, Typed, Phases
  <2> HIDE DEF t
  <2>12. Good(t, p)
    BY <1>1, <2>4, <2>6, <2>8, <2>10, <2>11 DEF Good, Ok, HeldOk, PlacedIn,
       SnapshotOrBufferIn, TailIsBufferedIn, TailCoversIn, Capturing, GapSteps
  <2> QED BY <2>1, <2>7, <2>9, <2>12
<1> QED BY <1>2, <1>3

LEMMA SnapshotAnsweredGood ==
    ASSUME NEW s, NEW p, Good(s, p), s.task.fresh, s.task.step = "snapshot",
           NEW revision \in Revisions, p <= revision \/ p <= s.tail,
           NEW inForce, NEW ack \in Boundaries
    PROVE  Good(SnapshotAnswered(s, inForce, revision, ack), p)
<1> DEFINE k == [s.task EXCEPT !.step = "recheck", !.revoked = FALSE, !.revision = revision]
<1> DEFINE b == [s EXCEPT !.acked = ack]
<1> DEFINE t == [b EXCEPT !.task = k]
<1>1. /\ Ok(s) /\ s.held /\ s.phase # "terminated" /\ s.task \in TaskType
      /\ s.phase = "capturing" /\ s.task.step \notin GapSteps
  BY RunningFacts DEF Good, PlacedIn, GapSteps
<1>2. Good(EndTask(AttemptFailed(s)), p) /\ Good(EndTask(Fail(s)), p)
  BY <1>1, AttemptFailedCalms, FailCalms, CalmEndIsGood
<1>3. k \in TaskType /\ k.step = "recheck" /\ k.fresh /\ k.revision = revision
  BY <1>1 DEF TaskType, Steps
<1>4. [s EXCEPT !.acked = ack, !.task.step = "recheck", !.task.revoked = FALSE,
                !.task.revision = revision] = t
  BY <1>1 DEF Ok, IsRec, Fields
<1>5. IsRec(b)
  BY <1>1 DEF Ok, IsRec
<1>6. Typed(b) /\ Same(b, s) /\ b.task = s.task /\ b.host = s.host
  BY <1>1 DEF Ok, IsRec, Fields, Typed, Same
<1> HIDE DEF k, b
<1>7. Good(b, p)
  BY <1>5, <1>6, SameIsGood DEF Ok
<1>8. Good(t, p)
  BY <1>1, <1>3, <1>6, <1>7, RetaskGood DEF GapSteps, Same
<1> QED BY <1>2, <1>4, <1>8 DEF SnapshotAnswered

LEMMA SendSnapshotGood ==
    ASSUME NEW s, NEW p \in Nat, Good(s, p), s.task.step = "cleared",
           NEW inForce, NEW fits, NEW room
    PROVE  Good(SendSnapshot(s, inForce, fits, room), p)
<1> DEFINE v == s.task.revision
<1> DEFINE r == Reserve(s)
<1> DEFINE m == Max2(r.tail, v)
<1> DEFINE t == [r EXCEPT !.snapshotRevision = v, !.tail = m, !.phase = "snapshot-sent"]
<1> DEFINE x == Transmit(t, v)
<1>1. /\ s.task.fresh /\ s.host = "open" /\ s.phase = "capturing"
      /\ Ok(s) /\ s.held /\ s.routed /\ s.public # "live"
      /\ s.tail = 0 \/ LastIn(s, s.tail)
      /\ p <= v \/ p <= s.tail
      /\ s.task \in TaskType
  BY RunningFacts DEF Good, PlacedIn, TailIsBufferedIn, SnapshotOrBufferIn, GapSteps, Capturing
<1>2. Good(EndTask(AttemptFailed(s)), p) /\ Good(EndTask(Fail(s)), p)
  BY <1>1, AttemptFailedCalms, FailCalms, CalmEndIsGood
<1>3. /\ Ok(r) /\ Same(r, s) /\ r.task = s.task /\ r.host = s.host
  BY <1>1, ReserveSame
<1>4. /\ SendSnapshot(s, inForce, fits, room) \in
            {EndTask(AttemptFailed(s)), EndTask(Fail(s)), EndTask(x)}
  BY DEF SendSnapshot
<1>5. v \in Revisions /\ v \in Int /\ 0 <= v
  <2>1. v \in Revisions
    BY <1>1 DEF TaskType
  <2> QED BY <2>1, BoundsAssumption DEF Revisions
<1>6. s.tail \in Revisions /\ s.tail \in Int /\ 0 <= s.tail /\ r.tail = s.tail
  <2>1. s.tail \in Revisions
    BY <1>1 DEF Ok, Typed
  <2> QED BY <1>3, <2>1, BoundsAssumption DEF Revisions, Same
<1>7. /\ m \in Revisions /\ m \in Int /\ p <= m
      /\ m <= v \/ (m = s.tail /\ s.tail # 0)
  <2>1. m \in Revisions
    BY <1>5, <1>6 DEF Max2
  <2> QED BY <1>1, <1>5, <1>6, <2>1 DEF Max2
<1> HIDE DEF v, r, m
<1>8. IsRec(t)
  BY <1>3 DEF Ok, IsRec
<1>9. /\ Typed(t) /\ t.phase = "snapshot-sent" /\ t.snapshotRevision = v /\ t.tail = m
  BY <1>3, <1>5, <1>7 DEF Ok, IsRec, Fields, Typed, Phases
<1>10. /\ t.public = s.public /\ t.queue = s.queue /\ t.routed = s.routed
       /\ t.held = s.held /\ t.task = s.task /\ t.host = s.host
  BY <1>3 DEF Ok, IsRec, Fields, Same
<1> HIDE DEF t, x
<1>11. \/ Calm(x)
       \/ Sent(x, t, v)
  <2>1. Ok(t) /\ t.held /\ t.phase # "terminated" /\ t.host = "open"
    BY <1>1, <1>8, <1>9, <1>10 DEF Ok
  <2> QED BY <1>5, <2>1, TransmitCases DEF x
<1>12. CASE Calm(x)
  BY <1>2, <1>4, <1>12, CalmEndIsGood
<1>13. CASE Sent(x, t, v)
  <2> DEFINE e == [x EXCEPT !.task = NoTask]
  <2>1. /\ Ok(x) /\ x.host = "open" /\ x.inFlight.revision = v
        /\ x.phase = "snapshot-sent" /\ x.public # "live" /\ x.queue = s.queue
        /\ x.snapshotRevision = v /\ x.tail = m /\ x.routed /\ x.held
    BY <1>1, <1>9, <1>10, <1>13 DEF Sent
  <2>2. IsRec(e)
    BY <2>1 DEF Ok, IsRec
  <2>3. /\ Typed(e) /\ Same(e, x) /\ e.task = NoTask
    BY <2>1, NullsTyped DEF Ok, IsRec, Fields, Typed, Same
  <2>4. EndTask(x) = e
    BY DEF EndTask
  <2> HIDE DEF e
  <2>5. ~NoTask.fresh /\ NoTask.step = "none"
    BY DEF NoTask
  <2>6. e.tail <= v \/ LastIn(e, e.tail)
    BY <1>1, <1>7, <2>1, <2>3 DEF Same, LastIn
  <2>7. Good(e, p)
    BY <1>5, <1>7, <2>1, <2>2, <2>3, <2>5, <2>6 DEF Good, Ok, HeldOk, PlacedIn, Same,
       SnapshotOrBufferIn, TailIsBufferedIn, TailCoversIn, Capturing, GapSteps
  <2> QED BY <1>2, <1>4, <2>4, <2>7
<1> QED BY <1>11, <1>12, <1>13

-----------------------------------------------------------------------------
(* The inductive invariant.                                                *)

LEMMA IInvIsGood ==
    IInv <=> /\ Good(sub, processed)
             /\ source \in SourceType
             /\ domain \in 1..MaxRevision
             /\ processed \in 0..domain
BY OkIsType DEF IInv, TypeOK, Good, HeldOk, HeldWhileRunning, RoutedWhileCapturing,
   CoroutineInPlace, PlacedIn, InGap, GapSteps, SnapshotOrBuffer, SnapshotOrBufferIn,
   TailIsBuffered, TailIsBufferedIn, TailCovers, TailCoversIn, LastQueued, LastIn,
   Reading, ReadingIn, ReportsLive

LEMMA InitGood == Init => IInv
<1> SUFFICES ASSUME Init PROVE IInv
  OBVIOUS
<1>1. IsRec(sub)
  BY DEF Init, IsRec, Fields
<1>2. Typed(sub)
  <2>1. <<>> \in Seq(Revisions)
    BY EmptySeq
  <2> QED BY <2>1, NullsTyped DEF Init, Typed, Phases, PublicStates
<1>3. Good(sub, processed)
  <2>1. ~NoTask.fresh /\ NoTask.step = "none"
    BY DEF NoTask
  <2> QED BY <1>1, <1>2, <2>1 DEF Init, Good, Ok, HeldOk, PlacedIn, SnapshotOrBufferIn,
          TailIsBufferedIn, TailCoversIn, Capturing, GapSteps
<1>4. /\ source \in SourceType /\ domain \in 1..MaxRevision /\ processed \in 0..domain
  BY BoundsAssumption, NullsTyped DEF Init, SourceType
<1> QED BY <1>3, <1>4, IInvIsGood

LEMMA NextIInvIsGood ==
    IInv' <=> /\ Good(sub', processed')
              /\ source' \in SourceType
              /\ domain' \in 1..MaxRevision
              /\ processed' \in 0..domain'
BY OkIsType DEF IInv, TypeOK, Good, HeldOk, HeldWhileRunning, RoutedWhileCapturing,
   CoroutineInPlace, PlacedIn, InGap, GapSteps, SnapshotOrBuffer, SnapshotOrBufferIn,
   TailIsBuffered, TailIsBufferedIn, TailCovers, TailCoversIn, LastQueued, LastIn,
   Reading, ReadingIn, ReportsLive

\* What surrounds the object stays in its type.
Surroundings ==
    source \in SourceType /\ domain \in 1..MaxRevision /\ processed \in 0..domain

LEMMA SurroundingsTyped ==
    ASSUME Surroundings, [Next]_vars
    PROVE  Surroundings'
<1>0. source \in SourceType /\ domain \in 1..MaxRevision /\ processed \in 0..domain
  BY DEF Surroundings
<1>a. ASSUME source' \in SourceType, UNCHANGED <<domain, processed>>
      PROVE  Surroundings'
  BY <1>0, <1>a DEF Surroundings
<1>1. CASE Resync
  <2> DEFINE n == source.resyncs + 1
  <2>1. n \in 0..MaxResyncs
    BY <1>0, <1>1, BoundsAssumption DEF Resync, SourceType
  <2>2. source' = [source EXCEPT !.resyncs = n]
    BY <1>1 DEF Resync
  <2> HIDE DEF n
  <2>3. source' \in SourceType
    BY <1>0, <2>1, <2>2 DEF SourceType
  <2> QED BY <1>1, <1>a, <2>3 DEF Resync
<1>2. CASE DomainWrite
  BY <1>0, <1>2, BoundsAssumption DEF DomainWrite, Surroundings
<1>3. CASE RecordAdmitted
  <2>1. processed' \in 0..domain
    BY <1>0, <1>3 DEF RecordAdmitted, Max2
  <2> QED BY <1>0, <1>3, <2>1 DEF RecordAdmitted, Surroundings
<1>4. CASE SourceDown
  <2> DEFINE n == source.flaps + 1
  <2>1. n \in 0..MaxFlaps
    BY <1>0, <1>4, BoundsAssumption DEF SourceDown, SourceType
  <2>2. source' = [source EXCEPT !.ready = FALSE, !.flaps = n]
    BY <1>4 DEF SourceDown
  <2> HIDE DEF n
  <2>3. source' \in SourceType
    BY <1>0, <2>1, <2>2 DEF SourceType
  <2> QED BY <1>4, <1>a, <2>3 DEF SourceDown
<1>5. CASE SourceUp
  <2>1. source' \in SourceType
    BY <1>0, <1>5 DEF SourceUp, SourceType
  <2> QED BY <1>5, <1>a, <2>1 DEF SourceUp
<1>6. CASE SetBoundary
  <2> DEFINE n == source.issued + 1
  <2>1. n \in Boundaries
    BY <1>0, <1>6, BoundsAssumption DEF SetBoundary, SourceType, Boundaries
  <2>2. source' = [source EXCEPT !.issued = n, !.boundary = n]
    BY <1>6 DEF SetBoundary
  <2> HIDE DEF n
  <2>3. source' \in SourceType
    BY <1>0, <2>1, <2>2 DEF SourceType
  <2> QED BY <1>6, <1>a, <2>3 DEF SetBoundary
<1>7. CASE AdvancePast
  <2>1. source' \in SourceType
    BY <1>0, <1>7 DEF AdvancePast, SourceType
  <2> QED BY <1>7, <1>a, <2>1 DEF AdvancePast
<1>8. CASE RetireBoundary
  <2>1. source' \in SourceType
    BY <1>0, <1>8, NullsTyped DEF RetireBoundary, SourceType
  <2> QED BY <1>8, <1>a, <2>1 DEF RetireBoundary
<1>9. CASE UNCHANGED <<source, domain, processed>>
  BY <1>0, <1>9 DEF Surroundings
<1>10. \/ UNCHANGED <<source, domain, processed>>
       \/ Resync \/ DomainWrite \/ RecordAdmitted \/ SourceDown \/ SourceUp
       \/ SetBoundary \/ AdvancePast \/ RetireBoundary
  BY DEF Next, vars, Attempt, Client, Connection, Environment, AuthorizeReturns, Admitted,
     SnapshotAdmission, SnapshotFails, SnapshotReturns, Cleared, RetryTimer, Start, Receipt,
     ReceiptTimer, Unsubscribe, Revoke, SessionCloses, Expires, ClientStalls
<1> QED BY <1>1, <1>2, <1>3, <1>4, <1>5, <1>6, <1>7, <1>8, <1>9, <1>10

\* Ending the connection, or the subscription, from any good record.
LEMMA TeardownGood ==
    ASSUME NEW s, NEW p, Good(s, p), s.task.step \notin GapSteps
    PROVE  Good(Teardown(s), p)
<1>1. /\ Ok(s)
      /\ s.phase = "terminated" => Resting(s)
      /\ ~s.held => Calm(s)
  BY GoodIdleIsCalm DEF Good, HeldOk, Calm, Capturing
<1> QED BY <1>1, TeardownCalms, CalmIsGood

LEMMA UnsubscribeGood ==
    ASSUME NEW s, NEW p, Good(s, p), s.task.step \notin GapSteps
    PROVE  Good([Dispose(s) EXCEPT !.held = FALSE], p)
<1> DEFINE d == Dispose(s)
<1> DEFINE t == [d EXCEPT !.held = FALSE]
<1>1. Resting(d) /\ d.phase = "terminated" /\ d.task.step = s.task.step
  <2>1. s.phase = "terminated" => Resting(s)
    BY GoodIdleIsCalm DEF Calm, Capturing
  <2> QED BY <2>1, DisposeRests DEF Good
<1> HIDE DEF d
<1>2. IsRec(t)
  BY <1>1 DEF Resting, Ok, IsRec
<1>3. /\ Typed(t) /\ t.phase = d.phase /\ t.public = d.public /\ t.routed = d.routed
      /\ t.task = d.task
  BY <1>1 DEF Resting, Ok, IsRec, Fields, Typed
<1>4. Calm(t)
  BY <1>1, <1>2, <1>3 DEF Calm, Resting, Ok, HeldOk
<1> HIDE DEF t
<1> QED BY <1>1, <1>3, <1>4, CalmIsGood DEF t, d

LEMMA RevokeGood ==
    ASSUME NEW s, NEW p, Good(s, p), s.task.step \notin GapSteps, NEW revoked \in BOOLEAN
    PROVE  LET r == [s EXCEPT !.task.revoked = revoked]
           IN  Good(IF s.held THEN Fail(r) ELSE r, p)
<1> DEFINE k == [s.task EXCEPT !.revoked = revoked]
<1> DEFINE r == [s EXCEPT !.task = k]
<1>1. /\ k \in TaskType /\ k.step = s.task.step /\ k.fresh = s.task.fresh
      /\ k.floor = s.task.floor /\ k.revision = s.task.revision
  <2>1. s.task \in TaskType
    BY DEF Good, Ok, Typed
  <2> QED BY <2>1 DEF TaskType
<1>2. r.task = k /\ Ok(r)
  <2>1. IsRec(r)
    BY DEF Good, Ok, IsRec
  <2>2. Typed(r) /\ r.task = k
    BY <1>1 DEF Good, Ok, IsRec, Fields, Typed
  <2> QED BY <2>1, <2>2 DEF Ok
<1>3. [s EXCEPT !.task.revoked = revoked] = r
  OBVIOUS
<1> HIDE DEF k
<1>4. Good(r, p)
  <2>1. k.fresh =>
           /\ \/ s.phase = "authorizing" /\ k.step \in {"authorize", "admitted"}
              \/ /\ s.phase = "capturing"
                 /\ k.step \in {"acquire", "snapshot", "recheck", "cleared"}
           /\ k.step = "snapshot" => p <= k.floor \/ p <= s.tail
           /\ k.step \in {"recheck", "cleared"} => p <= k.revision \/ p <= s.tail
    BY <1>1 DEF Good, PlacedIn, SnapshotOrBufferIn
  <2> QED BY <1>1, <2>1, RetaskGood
<1> HIDE DEF r
<1>5. Calm(Fail(r)) /\ Fail(r).task.step = k.step
  <2>1. r.phase = "terminated" => Resting(r)
    BY <1>4, GoodIdleIsCalm DEF Calm, Capturing
  <2> QED BY <1>2, <2>1, FailCalms
<1>6. Good(Fail(r), p)
  BY <1>1, <1>5, CalmIsGood
<1> QED BY <1>3, <1>4, <1>6

\* The connection turning stalled, readable again, or expired.
LEMMA HostGood ==
    ASSUME NEW s, NEW p, Good(s, p), s.task.step \notin GapSteps,
           NEW host \in {"open", "stalled", "expired"},
           host = "expired" \/ ReadingIn(s)
    PROVE  Good([s EXCEPT !.host = host], p)
<1> DEFINE t == [s EXCEPT !.host = host]
<1>1. IsRec(t)
  BY DEF Good, Ok, IsRec
<1>2. Typed(t) /\ Same(t, s) /\ t.task = s.task /\ t.host = host
  BY DEF Good, Ok, IsRec, Fields, Typed, Same
<1> HIDE DEF t
<1>3. Good(t, p)
  BY <1>1, <1>2 DEF Good, Ok, HeldOk, Same, PlacedIn, SnapshotOrBufferIn,
     TailIsBufferedIn, TailCoversIn, LastIn, ReadingIn
<1> QED BY <1>3 DEF t

LEMMA StartGood ==
    ASSUME NEW s, NEW p, Ok(s)
    PROVE  Good(BeginAttempt([s EXCEPT !.registered = TRUE, !.held = TRUE], FALSE), p)
<1> DEFINE t == [s EXCEPT !.registered = TRUE, !.held = TRUE]
<1>1. IsRec(t)
  BY DEF Ok, IsRec
<1>2. Typed(t) /\ t.held
  BY DEF Ok, IsRec, Fields, Typed
<1> HIDE DEF t
<1>3. Good(BeginAttempt(t, FALSE), p)
  BY <1>1, <1>2, BeginAttemptGood DEF Ok
<1> QED BY <1>3 DEF t

LEMMA RetryGood ==
    ASSUME NEW s, NEW p, Good(s, p)
    PROVE  LET t == [s EXCEPT !.timer = "none"]
           IN  Good(t, p) /\ (t.phase = "backoff" => Good(BeginAttempt(t, TRUE), p))
<1> DEFINE t == [s EXCEPT !.timer = "none"]
<1>1. IsRec(t)
  BY DEF Good, Ok, IsRec
<1>2. Typed(t) /\ Same(t, s) /\ t.task = s.task /\ t.host = s.host
  BY DEF Good, Ok, IsRec, Fields, Typed, Same
<1>3. Good(t, p)
  BY <1>1, <1>2, SameIsGood DEF Ok
<1> HIDE DEF t
<1>4. t.phase = "backoff" => Ok(t) /\ t.held
  BY <1>3 DEF Good, HeldOk
<1> QED BY <1>3, <1>4, BeginAttemptGood DEF t

\* The inductive step, one action of Next at a time.  That nothing runs between an
\* authorization and the resumption it allows (GapEvents) is what every step needs; an
\* authoritative snapshot (LaggingSnapshot) is what SnapshotReturns needs to account
\* for what was processed, rather than for nothing.
LEMMA GoodStep ==
    ASSUME GapEvents = {}, Surroundings, [Next]_vars, NEW p \in Nat, Good(sub, p),
           p = 0 \/ (LaggingSnapshot = FALSE /\ p = processed)
    PROVE  \E r \in Nat : r >= p /\ (p = processed => r = processed') /\ Good(sub', r)
<1>0. /\ Good(sub, p) /\ source \in SourceType
      /\ domain \in 1..MaxRevision /\ processed \in 0..domain /\ p \in Nat
  BY DEF Surroundings
<1>a. \A kind : May(kind) => sub.task.step \notin GapSteps
  BY DEF May, InGap, GapSteps
<1>b. Quiet => sub.task.step \notin GapSteps
  BY DEF Quiet, InGap, GapSteps
<1>c. Ok(sub) /\ sub.task \in TaskType
  BY <1>0 DEF Good, Ok, Typed
<1>d. ASSUME Good(sub', p), processed' = processed
      PROVE  \E r \in Nat : r >= p /\ (p = processed => r = processed') /\ Good(sub', r)
  BY <1>0, <1>d
<1>1. CASE Start
  BY <1>0, <1>1, <1>c, <1>d, StartGood DEF Start
<1>2. CASE AuthorizeReturns
  BY <1>0, <1>2, <1>d, AuthorizedGood, EndTaskGood DEF AuthorizeReturns
<1>3. CASE Admitted
  <2>1. source.ready \in BOOLEAN
    BY <1>0 DEF SourceType
  <2> QED BY <1>0, <1>3, <1>d, <2>1, StartCaptureGood DEF Admitted
<1>4. CASE SnapshotAdmission
  <2> DEFINE k == [sub.task EXCEPT !.step = "snapshot", !.floor = domain,
                                   !.boundary = source.boundary]
  <2>1. sub' \in {EndTask(sub), [sub EXCEPT !.task = k]}
        \/ (sub.task.fresh /\ sub' = EndTask(AttemptFailed(sub)))
    BY <1>4 DEF SnapshotAdmission
  <2>2. Good(EndTask(sub), p)
    BY <1>0, EndTaskGood
  <2>3. sub.task.fresh => Good(EndTask(AttemptFailed(sub)), p)
    BY <1>0, RunningFacts, AttemptFailedCalms, CalmEndIsGood
  <2>4. Good([sub EXCEPT !.task = k], p)
    <3>1. domain \in Revisions /\ source.boundary \in Boundaries
      BY <1>0, BoundsAssumption DEF Revisions, SourceType
    <3>2. k \in TaskType /\ k.step = "snapshot" /\ k.floor = domain /\ k.fresh = sub.task.fresh
      BY <1>c, <3>1 DEF TaskType, Steps
    <3>3. sub.task.fresh => sub.phase = "capturing"
      BY <1>0, <1>4 DEF Good, PlacedIn, SnapshotAdmission
    <3> HIDE DEF k
    <3> QED BY <1>0, <3>2, <3>3, RetaskGood DEF GapSteps
  <2> QED BY <1>0, <1>4, <1>d, <2>1, <2>2, <2>3, <2>4 DEF SnapshotAdmission
<1>5. CASE SnapshotFails
  <2>1. sub.task.fresh => /\ Good(EndTask(AttemptFailed(sub)), p)
                          /\ Good(EndTask(Fail(sub)), p)
    BY <1>0, RunningFacts, AttemptFailedCalms, FailCalms, CalmEndIsGood
  <2>2. Good(EndTask(sub), p)
    BY <1>0, EndTaskGood
  <2> QED BY <1>0, <1>5, <1>d, <2>1, <2>2 DEF SnapshotFails
<1>6. CASE SnapshotReturns
  <2>1. PICK revision \in (IF LaggingSnapshot THEN 1 ELSE sub.task.floor)..domain,
             ack \in Boundaries :
           sub' = IF sub.task.fresh
                  THEN SnapshotAnswered(sub, source.boundary, revision, ack)
                  ELSE EndTask(sub)
    BY <1>6 DEF SnapshotReturns
  <2>2. revision \in Revisions /\ (LaggingSnapshot = FALSE => sub.task.floor <= revision)
    <3>1. sub.task.floor \in Nat
      BY <1>c, BoundsAssumption DEF TaskType, Revisions
    <3>2. LaggingSnapshot \in BOOLEAN
      BY SwitchesAssumption
    <3> QED BY <1>0, <3>1, <3>2, BoundsAssumption DEF Revisions
  <2>3. sub.task.fresh => p <= revision \/ p <= sub.tail
    <3>1. sub.task.floor \in Int
      BY <1>c DEF TaskType, Revisions
    <3>2. sub.task.fresh => p <= sub.task.floor \/ p <= sub.tail
      BY <1>0, <1>6 DEF Good, SnapshotOrBufferIn, SnapshotReturns
    <3>3. revision \in Int /\ 0 <= revision
      BY <2>2, BoundsAssumption DEF Revisions
    <3> QED BY <1>0, <2>2, <3>1, <3>2, <3>3
  <2>4. Good(sub', p)
    BY <1>0, <1>6, <2>1, <2>2, <2>3, SnapshotAnsweredGood, EndTaskGood DEF SnapshotReturns
  <2> QED BY <1>0, <1>6, <1>d, <2>4 DEF SnapshotReturns
<1>7. CASE Cleared
  BY <1>0, <1>7, <1>d, SendSnapshotGood DEF Cleared
<1>8. CASE RetryTimer
  <2>1. Good(sub', p)
    BY <1>0, <1>8, RetryGood DEF RetryTimer
  <2> QED BY <1>0, <1>8, <1>d, <2>1 DEF RetryTimer
<1>9. CASE Receipt
  <2>1. Good(sub', p)
    BY <1>0, <1>9, <1>b, OnReceiptGood DEF Receipt
  <2> QED BY <1>0, <1>9, <1>d, <2>1 DEF Receipt
<1>10. CASE ReceiptTimer
  BY <1>0, <1>10, <1>b, <1>d, TeardownGood DEF ReceiptTimer
<1>11. CASE Resync
  <2>1. Good(sub', p)
    BY <1>0, <1>11, RequestResyncGood DEF Resync
  <2> QED BY <1>11, <1>d, <2>1 DEF Resync
<1>12. CASE Unsubscribe
  BY <1>0, <1>12, <1>b, <1>d, UnsubscribeGood DEF Unsubscribe
<1>13. CASE Revoke
  <2> DEFINE revoked == sub.task.step \in {"authorize", "recheck"}
  <2>1. sub' = LET r == [sub EXCEPT !.task.revoked = revoked]
               IN  IF sub.held THEN Fail(r) ELSE r
    BY <1>13 DEF Revoke
  <2>2. revoked \in BOOLEAN
    OBVIOUS
  <2> HIDE DEF revoked
  <2>3. sub.task.step \notin GapSteps
    BY <1>13, <1>a DEF Revoke
  <2>4. Good(sub', p)
    BY <1>0, <2>1, <2>2, <2>3, RevokeGood
  <2> QED BY <1>0, <1>13, <1>d, <2>4 DEF Revoke
<1>14. CASE SessionCloses
  BY <1>0, <1>14, <1>a, <1>d, TeardownGood DEF SessionCloses
<1>15. CASE Expires
  BY <1>0, <1>15, <1>a, <1>d, HostGood DEF Expires
<1>16. CASE ClientStalls
  <2> DEFINE host == IF sub.host = "open" THEN "stalled" ELSE "open"
  <2>1. sub' = [sub EXCEPT !.host = host] /\ ReadingIn(sub)
    BY <1>16 DEF ClientStalls, ReadingIn
  <2>2. host \in {"open", "stalled", "expired"}
    OBVIOUS
  <2> HIDE DEF host
  <2>3. Good(sub', p)
    BY <1>0, <1>16, <1>a, <2>1, <2>2, HostGood DEF ClientStalls
  <2> QED BY <1>0, <1>16, <1>d, <2>3 DEF ClientStalls
<1>17. CASE DomainWrite
  BY <1>0, <1>17, <1>d DEF DomainWrite
<1>18. CASE RecordAdmitted
  <2>1. PICK revision \in 1..domain, room \in BOOLEAN :
           /\ sub' = IF sub.routed THEN Admit(sub, revision, room) ELSE sub
           /\ processed' = Max2(processed, revision)
    BY <1>18 DEF RecordAdmitted
  <2>2. revision \in Revisions
    BY <1>0, BoundsAssumption DEF Revisions
  <2>3. Good(sub', Max2(p, revision))
    BY <1>0, <1>18, <1>a, <2>1, <2>2, AdmitGood, PassedOverGood DEF RecordAdmitted
  <2>4. Max2(p, revision) \in Nat /\ Max2(p, revision) >= p
    BY <1>0, <2>2, BoundsAssumption DEF Max2, Revisions
  <2> QED BY <2>1, <2>3, <2>4
<1>19. CASE SourceDown
  <2>1. Good(sub', p)
    BY <1>0, <1>19, <1>a, SourceUnavailableGood DEF SourceDown
  <2> QED BY <1>19, <1>d, <2>1 DEF SourceDown
<1>20. CASE SourceUp
  <2>1. Good(sub', p)
    BY <1>0, <1>20, SourceReadyGood DEF SourceUp
  <2> QED BY <1>20, <1>d, <2>1 DEF SourceUp
<1>21. CASE SetBoundary \/ AdvancePast \/ RetireBoundary
  BY <1>0, <1>21, <1>d DEF SetBoundary, AdvancePast, RetireBoundary
<1>22. CASE UNCHANGED vars
  BY <1>0, <1>22, <1>d DEF vars
<1> QED
  BY <1>1, <1>2, <1>3, <1>4, <1>5, <1>6, <1>7, <1>8, <1>9, <1>10, <1>11, <1>12, <1>13,
     <1>14, <1>15, <1>16, <1>17, <1>18, <1>19, <1>20, <1>21, <1>22
     DEF Next, Attempt, Client, Connection, Environment

\* What is accounted for up to a revision is accounted for up to an older one.
LEMMA GoodLess ==
    ASSUME NEW s, NEW p \in Nat, Good(s, p), NEW q \in Nat, q <= p
    PROVE  Good(s, q)
<1>1. /\ s.task.floor \in Int /\ s.task.revision \in Int /\ s.tail \in Int
  <2>1. s.tail \in Revisions /\ s.task \in TaskType
    BY DEF Good, Ok, Typed
  <2> QED BY <2>1, RevisionsInt DEF TaskType
<1> QED BY <1>1 DEF Good, SnapshotOrBufferIn, TailCoversIn

LEMMA IInvInductive ==
    ASSUME GapEvents = {}, LaggingSnapshot = FALSE, IInv, [Next]_vars
    PROVE  IInv'
<1>1. Good(sub, processed) /\ Surroundings /\ processed \in Nat
  BY IInvIsGood, BoundsAssumption DEF Surroundings
<1>2. Good(sub', processed')
  BY <1>1, GoodStep
<1>3. Surroundings'
  BY <1>1, SurroundingsTyped
<1> QED BY <1>2, <1>3, NextIInvIsGood DEF Surroundings

\* A subscription whose snapshots are authoritative, with nothing running between an
\* authorization and the resumption it allows: processed revisions are never lost
\* between capture, snapshot, drain and live, whatever the limits and the schedule.
THEOREM SubscriptionInvariant ==
    ASSUME GapEvents = {}, LaggingSnapshot = FALSE
    PROVE  Spec => []IInv
<1>1. IInv /\ [Next]_vars => IInv'
  BY IInvInductive
<1> QED BY <1>1, InitGood, PTL DEF Spec

\* LiveIsNewest is a consequence: a live view owes what its tail covers.
LEMMA IInvImpliesLive == IInv => LiveIsNewest
<1> SUFFICES ASSUME IInv, sub.public = "live", sub.host = "open"
             PROVE  \/ sub.lastDelivered >= processed
                    \/ sub.inFlight.revision >= processed
                    \/ \E r \in Pending : r >= processed
  BY DEF LiveIsNewest
<1>1. /\ sub.phase = "live" /\ Reading
      /\ processed <= sub.tail
      /\ \/ sub.tail <= sub.lastDelivered
         \/ sub.tail <= sub.inFlight.revision
         \/ LastQueued(sub.tail)
  BY DEF IInv, ReportsLive, TailCovers, Reading
<1>2. /\ Ok(sub) /\ processed \in Int
  BY IInvIsGood, BoundsAssumption DEF Good
<1>3. /\ sub.tail \in Int /\ sub.lastDelivered \in Int /\ sub.inFlight.revision \in Int
      /\ sub.queue \in Seq(Revisions)
  <2>1. /\ sub.tail \in Revisions /\ sub.lastDelivered \in Revisions
        /\ sub.inFlight.revision \in Revisions /\ sub.queue \in Seq(Revisions)
    BY <1>2 DEF Ok, Typed
  <2> QED BY <2>1, RevisionsInt
<1>4. CASE LastQueued(sub.tail)
  <2>1. Len(sub.queue) \in DOMAIN sub.queue
    BY <1>3, <1>4, QueueFacts, LenProperties DEF LastQueued
  <2>2. sub.tail \in Pending
    BY <1>4, <2>1 DEF LastQueued, Pending
  <2> QED BY <1>1, <1>3, <2>2
<1> QED BY <1>1, <1>2, <1>3, <1>4

\* README "a view never reports live while it shows anything other than the newest
\* state", for every limit, queue length, number of revisions and interleaving.
THEOREM LiveMeansNewest ==
    ASSUME GapEvents = {}, LaggingSnapshot = FALSE
    PROVE  Spec => []LiveIsNewest
BY SubscriptionInvariant, IInvImpliesLive, PTL

-----------------------------------------------------------------------------
(* What holds under every race: nothing below assumes which events fall in  *)
(* the microtask gap, or that snapshots are authoritative.                  *)

Delivering == {"snapshot-sent", "draining", "live"}

\* The queue rises, up to the tail.
Rising(q, top) ==
    /\ \A i, j \in 1..Len(q) : i < j => q[i] < q[j]
    /\ \A i \in 1..Len(q) : q[i] <= top

\* What is in flight or kept to send is no older than what the client confirmed.
Forward(s) ==
    /\ s.lastDelivered <= s.tail /\ s.inFlight.revision <= s.tail
    /\ s.inFlight # NoFrame => s.inFlight.revision >= s.lastDelivered
    /\ s.phase = "snapshot-sent" =>
          /\ s.snapshotRevision >= s.lastDelivered
          /\ s.inFlight # NoFrame => s.inFlight.revision = s.snapshotRevision
    /\ s.phase # "snapshot-sent" =>
          /\ s.inFlight # NoFrame => s.inFlight.revision > 0
          /\ \A i \in 1..Len(s.queue) :
                s.queue[i] >= s.lastDelivered /\ s.queue[i] > s.inFlight.revision

\* What the attempt's coroutine may rely on when it resumes.  A cleared attempt is
\* the one that delivers.
Resumable(s) ==
    /\ s.task.step \notin {"none", "cleared"} => s.phase \notin Delivering
    /\ s.task.step \in {"authorize", "admitted"} => s.attempts > 0
    /\ s.task.step \in {"recheck", "cleared"} => s.task.revision >= s.lastDelivered

\* A record whose frames are all accounted for but e that a method is about to send.
Accounted(s, e) ==
    /\ Ok(s)
    /\ s.frames = Holding(s) + e
    /\ Resumable(s)
    /\ Rising(s.queue, s.tail)
    /\ s.phase \notin Delivering => s.inFlight = NoFrame
    /\ s.phase \in Delivering => Forward(s)

\* What every method but the ones that capture or confirm leaves as it was.
Trails(s, t) ==
    /\ t.lastDelivered = s.lastDelivered /\ t.acked = s.acked
    /\ t.phase \in Delivering => s.phase \in Delivering
    /\ t.phase \in Capturing => s.phase \in Capturing
    /\ t.task.fresh /\ t.task.step \in {"recheck", "cleared"} => t.task = s.task
    /\ t.task.step = "cleared" => s.task.step = "cleared"

\* A subscription the session holds is registered in its channel.
HeldIn(s, t) == (s.held => s.registered) => (t.held => t.registered)

Follows(s, t) == Trails(s, t) /\ HeldIn(s, t)

LEMMA FollowsOn ==
    ASSUME NEW s, NEW t, NEW u, Follows(s, t), Follows(t, u)
    PROVE  Follows(s, u)
BY DEF Follows, Trails, HeldIn

\* The fields that Accounted reads.
SameFrames(t, s) ==
    /\ t.frames = s.frames /\ t.queue = s.queue /\ t.inFlight = s.inFlight
    /\ t.phase = s.phase /\ t.task = s.task /\ t.attempts = s.attempts
    /\ t.lastDelivered = s.lastDelivered /\ t.tail = s.tail
    /\ t.snapshotRevision = s.snapshotRevision

LEMMA SameAccounted ==
    ASSUME NEW s, NEW t, NEW e, Accounted(s, e), Ok(t), SameFrames(t, s)
    PROVE  Accounted(t, e)
BY DEF Accounted, SameFrames, Holding, Outstanding, Resumable, Forward

\* Nothing is kept, and nothing is in flight.
Void(t, e) ==
    /\ Ok(t)
    /\ t.queue = <<>> /\ t.inFlight = NoFrame /\ t.frames = e
    /\ t.task.step \in {"authorize", "admitted"} => t.attempts > 0
    /\ t.task.step \in {"recheck", "cleared"} => t.task.revision >= t.lastDelivered

LEMMA VoidAccounted ==
    ASSUME NEW t, NEW e \in {0, 1}, Void(t, e), t.phase \notin Delivering
    PROVE  Accounted(t, e)
<1>1. Len(t.queue) = 0
  BY EmptySeq DEF Void
<1>2. Holding(t) = 0
  BY <1>1 DEF Void, Holding, Outstanding
<1>3. Rising(t.queue, t.tail)
  BY <1>1 DEF Rising
<1> QED BY <1>2, <1>3 DEF Void, Accounted, Resumable

LEMMA InvalidateEmpties ==
    ASSUME NEW s, NEW e \in {0, 1}, Ok(s), s.frames = Holding(s) + e
    PROVE  LET t == Invalidate(s)
           IN  /\ Ok(t) /\ t.queue = <<>> /\ t.inFlight = NoFrame /\ t.frames = e
               /\ ~t.task.fresh /\ t.task.step = s.task.step
               /\ t.task.revision = s.task.revision
               /\ t.phase = s.phase /\ t.held = s.held /\ t.registered = s.registered
               /\ t.lastDelivered = s.lastDelivered /\ t.acked = s.acked
               /\ t.attempts = s.attempts /\ t.host = s.host
<1> DEFINE n == Less(s.frames, Holding(s))
<1> DEFINE k == [s.task EXCEPT !.fresh = FALSE]
<1> DEFINE t == Invalidate(s)
<1>1. /\ Ok(t) /\ t.queue = <<>> /\ t.inFlight = NoFrame /\ ~t.task.fresh
      /\ t.phase = s.phase /\ t.host = s.host /\ t.held = s.held
      /\ t.lastDelivered = s.lastDelivered
      /\ t.task.step = s.task.step /\ t.attempts = s.attempts
  BY InvalidateOk
<1>2. n = e
  <2>1. Holding(s) \in Nat
    BY HoldingNat
  <2> QED BY <2>1 DEF Less
<1>3. k.revision = s.task.revision
  BY DEF Ok, Typed, TaskType
<1>4. t = [s EXCEPT !.timer = "none", !.frames = n, !.queue = <<>>,
                    !.inFlight = NoFrame, !.drainRemaining = 0,
                    !.snapshotRevision = 0, !.tail = 0, !.routed = FALSE, !.task = k]
  BY DEF Invalidate
<1> HIDE DEF n, k, t
<1>5. t.frames = n /\ t.task = k /\ t.registered = s.registered /\ t.acked = s.acked
  BY <1>4 DEF Ok, IsRec, Fields
<1> QED BY <1>1, <1>2, <1>3, <1>5 DEF t

LEMMA InvalidateVoids ==
    ASSUME NEW s, NEW e \in {0, 1}, Accounted(s, e)
    PROVE  LET t == Invalidate(s)
           IN  /\ Void(t, e) /\ ~t.task.fresh /\ t.task.step = s.task.step
               /\ t.phase = s.phase /\ t.held = s.held /\ t.registered = s.registered
               /\ t.lastDelivered = s.lastDelivered /\ t.acked = s.acked
BY InvalidateEmpties DEF Void, Accounted, Resumable

\* Invalidate, and then another phase that delivers nothing.
LEMMA InvalidatedPhase ==
    ASSUME NEW s, NEW e \in {0, 1}, Accounted(s, e), NEW phase \in Phases \ Capturing
    PROVE  LET t == [Invalidate(s) EXCEPT !.phase = phase]
           IN  Accounted(t, e) /\ Follows(s, t) /\ t.phase = phase /\ ~t.task.fresh
<1> DEFINE i == Invalidate(s)
<1> DEFINE t == [i EXCEPT !.phase = phase]
<1>1. /\ Void(i, e) /\ ~i.task.fresh /\ i.task.step = s.task.step
      /\ i.held = s.held /\ i.registered = s.registered
      /\ i.lastDelivered = s.lastDelivered /\ i.acked = s.acked
  BY InvalidateVoids
<1> HIDE DEF i
<1>2. IsRec(t)
  BY <1>1 DEF Void, Ok, IsRec
<1>3. /\ Typed(t) /\ t.phase = phase /\ t.task = i.task /\ t.held = i.held
      /\ t.registered = i.registered /\ t.lastDelivered = i.lastDelivered
      /\ t.acked = i.acked /\ t.queue = i.queue /\ t.inFlight = i.inFlight
      /\ t.frames = i.frames /\ t.attempts = i.attempts
  BY <1>1 DEF Void, Ok, IsRec, Fields, Typed
<1> HIDE DEF t
<1>4. Void(t, e)
  BY <1>1, <1>2, <1>3 DEF Void, Ok
<1>5. phase \notin Delivering
  BY DEF Delivering, Capturing
<1>6. Accounted(t, e)
  BY <1>3, <1>4, <1>5, VoidAccounted
<1>7. Follows(s, t)
  BY <1>1, <1>3, <1>5 DEF Follows, Trails, HeldIn
<1> QED BY <1>1, <1>3, <1>6, <1>7 DEF i, t

LEMMA DisposeAccounted ==
    ASSUME NEW s, NEW e \in {0, 1}, Accounted(s, e)
    PROVE  Accounted(Dispose(s), e) /\ Trails(s, Dispose(s))
<1> DEFINE i == Invalidate(s)
<1> DEFINE t == [i EXCEPT !.phase = "terminated", !.public = "closed", !.registered = FALSE]
<1>1. CASE s.phase = "terminated"
  BY <1>1 DEF Dispose, Trails
<1>2. CASE s.phase # "terminated"
  <2>1. Dispose(s) = t
    BY <1>2 DEF Dispose
  <2>2. /\ Void(i, e) /\ ~i.task.fresh /\ i.task.step = s.task.step
        /\ i.lastDelivered = s.lastDelivered /\ i.acked = s.acked
    BY InvalidateVoids
  <2> HIDE DEF i
  <2>3. IsRec(t)
    BY <2>2 DEF Void, Ok, IsRec
  <2>4. /\ Typed(t) /\ t.phase = "terminated" /\ t.task = i.task
        /\ t.lastDelivered = i.lastDelivered
        /\ t.acked = i.acked /\ t.queue = i.queue /\ t.inFlight = i.inFlight
        /\ t.frames = i.frames /\ t.attempts = i.attempts
    BY <2>2 DEF Void, Ok, IsRec, Fields, Typed, Phases, PublicStates
  <2> HIDE DEF t
  <2>5. Void(t, e)
    BY <2>2, <2>3, <2>4 DEF Void, Ok
  <2>6. t.phase \notin Delivering /\ t.phase \notin Capturing
    BY <2>4 DEF Delivering, Capturing
  <2>7. Accounted(t, e)
    BY <2>5, <2>6, VoidAccounted
  <2> QED BY <2>1, <2>2, <2>4, <2>6, <2>7 DEF Trails
<1> QED BY <1>1, <1>2

LEMMA TeardownAccounted ==
    ASSUME NEW s, NEW e \in {0, 1}, Accounted(s, e)
    PROVE  Accounted(Teardown(s), e) /\ Follows(s, Teardown(s))
<1> DEFINE d == IF s.held THEN Dispose(s) ELSE s
<1> DEFINE t == [d EXCEPT !.held = FALSE, !.host = "closed"]
<1>1. Accounted(d, e) /\ Trails(s, d)
  BY DisposeAccounted DEF Trails
<1>2. Teardown(s) = t
  BY DEF Teardown
<1> HIDE DEF d
<1>3. IsRec(t)
  BY <1>1 DEF Accounted, Ok, IsRec
<1>4. Typed(t) /\ SameFrames(t, d) /\ ~t.held /\ t.acked = d.acked
  BY <1>1 DEF Accounted, Ok, IsRec, Fields, Typed, SameFrames
<1> HIDE DEF t
<1>5. Accounted(t, e)
  BY <1>1, <1>3, <1>4, SameAccounted DEF Ok
<1>6. Follows(s, t)
  BY <1>1, <1>4 DEF Follows, Trails, HeldIn, SameFrames
<1> QED BY <1>2, <1>5, <1>6

LEMMA NoticeAccounted ==
    ASSUME NEW s, NEW e \in {0, 1}, Accounted(s, e)
    PROVE  Accounted(Notice(s), e) /\ Follows(s, Notice(s))
BY TeardownAccounted DEF Notice, Follows, Trails, HeldIn

LEMMA SendStateAccounted ==
    ASSUME NEW s, NEW e \in {0, 1}, Accounted(s, e), NEW state \in PublicStates
    PROVE  Accounted(SendState(s, state), e) /\ Follows(s, SendState(s, state))
<1> DEFINE t == [s EXCEPT !.public = state]
<1>1. IsRec(t)
  BY DEF Accounted, Ok, IsRec
<1>2. /\ Typed(t) /\ SameFrames(t, s) /\ t.acked = s.acked /\ t.held = s.held
      /\ t.registered = s.registered
  BY DEF Accounted, Ok, IsRec, Fields, Typed, SameFrames
<1>3. SendState(s, state) = Notice(t)
  BY DEF SendState
<1> HIDE DEF t
<1>4. Accounted(t, e)
  BY <1>1, <1>2, SameAccounted DEF Ok
<1>5. Follows(s, t)
  BY <1>2 DEF Follows, Trails, HeldIn, SameFrames
<1> QED BY <1>3, <1>4, <1>5, NoticeAccounted, FollowsOn

LEMMA RephasedAccounted ==
    ASSUME NEW s, NEW e \in {0, 1}, Accounted(s, e), s.phase \notin Delivering,
           NEW phase \in Phases \ Capturing
    PROVE  LET t == [s EXCEPT !.phase = phase] IN Accounted(t, e) /\ Follows(s, t)
<1> DEFINE t == [s EXCEPT !.phase = phase]
<1>1. IsRec(t)
  BY DEF Accounted, Ok, IsRec
<1>2. /\ Typed(t) /\ t.phase = phase /\ t.task = s.task /\ t.held = s.held
      /\ t.registered = s.registered /\ t.lastDelivered = s.lastDelivered
      /\ t.acked = s.acked /\ t.queue = s.queue /\ t.inFlight = s.inFlight
      /\ t.frames = s.frames /\ t.attempts = s.attempts /\ t.tail = s.tail
  BY DEF Accounted, Ok, IsRec, Fields, Typed
<1> HIDE DEF t
<1>3. phase \notin Delivering
  BY DEF Delivering, Capturing
<1>4. Accounted(t, e)
  BY <1>1, <1>2, <1>3 DEF Accounted, Ok, Holding, Outstanding, Resumable
<1> QED BY <1>2, <1>3, <1>4 DEF Follows, Trails, HeldIn, t

LEMMA AttemptFailedAccounted ==
    ASSUME NEW s, Accounted(s, 0)
    PROVE  Accounted(AttemptFailed(s), 0) /\ Follows(s, AttemptFailed(s))
<1> DEFINE b == [Invalidate(s) EXCEPT !.phase = "backoff"]
<1> DEFINE t == SendState(b, "stale")
<1> DEFINE r == [t EXCEPT !.phase = "resync-required"]
<1> DEFINE n == SendError(r)
<1> DEFINE u == SendState(n, "resync-required")
<1> DEFINE w == [t EXCEPT !.timer = IF t.phase = "backoff" THEN "armed" ELSE "void"]
<1>1. AttemptFailed(s) = u \/ AttemptFailed(s) = w
  BY DEF AttemptFailed
<1>2. PICK backoff \in Phases \ Capturing : backoff = "backoff"
  BY DEF Phases, Capturing
<1>3. PICK resync \in Phases \ Capturing : resync = "resync-required"
  BY DEF Phases, Capturing
<1>4. PICK stale \in PublicStates : stale = "stale"
  BY DEF PublicStates
<1>5. PICK again \in PublicStates : again = "resync-required"
  BY DEF PublicStates
<1>6. PICK e \in {0, 1} : e = 0
  OBVIOUS
<1>7. Accounted(b, e) /\ Follows(s, b) /\ b.phase = backoff
  BY <1>2, <1>6, InvalidatedPhase
<1> HIDE DEF b
<1>8. Accounted(t, e) /\ Follows(b, t)
  BY <1>4, <1>7, SendStateAccounted
<1>9. t.phase \notin Delivering
  BY <1>7, <1>8 DEF Follows, Trails, Delivering, Capturing
<1> HIDE DEF t
<1>10. Accounted(r, e) /\ Follows(t, r)
  BY <1>3, <1>8, <1>9, RephasedAccounted
<1> HIDE DEF r
<1>11. Accounted(n, e) /\ Follows(r, n)
  BY <1>10, NoticeAccounted DEF SendError
<1> HIDE DEF n
<1>12. Accounted(u, e) /\ Follows(n, u)
  BY <1>5, <1>11, SendStateAccounted
<1> HIDE DEF u
<1>13. IsRec(w)
  BY <1>8 DEF Accounted, Ok, IsRec
<1>14. /\ Typed(w) /\ SameFrames(w, t) /\ w.acked = t.acked /\ w.held = t.held
       /\ w.registered = t.registered
  BY <1>8 DEF Accounted, Ok, IsRec, Fields, Typed, SameFrames
<1> HIDE DEF w
<1>15. Accounted(w, e)
  BY <1>8, <1>13, <1>14, SameAccounted DEF Ok
<1>16. Follows(t, w)
  BY <1>14 DEF Follows, Trails, HeldIn, SameFrames
<1>17. Follows(s, t) /\ Follows(t, u)
  BY <1>7, <1>8, <1>10, <1>11, <1>12, FollowsOn
<1>18. Follows(s, u) /\ Follows(s, w)
  BY <1>16, <1>17, FollowsOn
<1> QED BY <1>1, <1>6, <1>12, <1>15, <1>18

LEMMA ProtocolViolationAccounted ==
    ASSUME NEW s, Accounted(s, 0)
    PROVE  Accounted(ProtocolViolation(s), 0) /\ Follows(s, ProtocolViolation(s))
<1>1. Accounted(SendError(s), 0) /\ Follows(s, SendError(s))
  BY NoticeAccounted DEF SendError
<1> QED BY <1>1, AttemptFailedAccounted, FollowsOn DEF ProtocolViolation

LEMMA FailAccounted ==
    ASSUME NEW s, Accounted(s, 0)
    PROVE  Accounted(Fail(s), 0) /\ Follows(s, Fail(s))
<1>1. CASE s.phase = "terminated"
  BY <1>1 DEF Fail, Follows, Trails, HeldIn
<1>2. CASE s.phase # "terminated"
  <2> DEFINE i == Invalidate(s)
  <2> DEFINE b == [i EXCEPT !.phase = "terminated", !.registered = FALSE]
  <2> DEFINE n == SendError(b)
  <2> DEFINE f == SendState(n, "failed")
  <2> DEFINE u == [f EXCEPT !.held = FALSE]
  <2>1. PICK e \in {0, 1} : e = 0
    OBVIOUS
  <2>2. PICK failed \in PublicStates : failed = "failed"
    BY DEF PublicStates
  <2>3. Fail(s) = u
    BY <1>2 DEF Fail
  <2>4. /\ Void(i, e) /\ ~i.task.fresh /\ i.task.step = s.task.step
        /\ i.lastDelivered = s.lastDelivered /\ i.acked = s.acked
    BY <2>1, InvalidateVoids
  <2> HIDE DEF i
  <2>5. IsRec(b)
    BY <2>4 DEF Void, Ok, IsRec
  <2>6. /\ Typed(b) /\ b.phase = "terminated" /\ b.task = i.task
        /\ b.lastDelivered = i.lastDelivered
        /\ b.acked = i.acked /\ b.queue = i.queue /\ b.inFlight = i.inFlight
        /\ b.frames = i.frames /\ b.attempts = i.attempts
    BY <2>4 DEF Void, Ok, IsRec, Fields, Typed, Phases
  <2> HIDE DEF b
  <2>7. b.phase \notin Delivering /\ b.phase \notin Capturing
    BY <2>6 DEF Delivering, Capturing
  <2>8. Accounted(b, e)
    <3>1. Void(b, e)
      BY <2>4, <2>5, <2>6 DEF Void, Ok
    <3> QED BY <2>7, <3>1, VoidAccounted
  <2>9. Accounted(n, e) /\ Follows(b, n)
    BY <2>8, NoticeAccounted DEF SendError
  <2> HIDE DEF n
  <2>10. Accounted(f, e) /\ Follows(n, f)
    BY <2>2, <2>9, SendStateAccounted
  <2> HIDE DEF f
  <2>11. IsRec(u)
    BY <2>10 DEF Accounted, Ok, IsRec
  <2>12. Typed(u) /\ SameFrames(u, f) /\ u.acked = f.acked /\ ~u.held
    BY <2>10 DEF Accounted, Ok, IsRec, Fields, Typed, SameFrames
  <2> HIDE DEF u
  <2>13. Accounted(u, e)
    BY <2>10, <2>11, <2>12, SameAccounted DEF Ok
  <2>14. Follows(b, f)
    BY <2>9, <2>10, FollowsOn
  <2>15. Follows(s, u)
    BY <2>4, <2>6, <2>7, <2>12, <2>14 DEF Follows, Trails, HeldIn, SameFrames
  <2> QED BY <2>1, <2>3, <2>13, <2>15
<1> QED BY <1>1, <1>2

LEMMA SourceUnavailableAccounted ==
    ASSUME NEW s, Accounted(s, 0)
    PROVE  LET t == OnSourceUnavailable(s)
           IN  Accounted(t, 0) /\ Follows(s, t) /\ t.phase \notin Capturing
<1> DEFINE b == [Invalidate(s) EXCEPT !.phase = "waiting-source"]
<1>1. CASE s.phase \in {"authorizing", "capturing", "snapshot-sent", "draining", "live",
                        "backoff"}
  <2>1. OnSourceUnavailable(s) = SendState(b, "stale")
    BY <1>1 DEF OnSourceUnavailable
  <2>2. PICK waiting \in Phases \ Capturing : waiting = "waiting-source"
    BY DEF Phases, Capturing
  <2>3. PICK stale \in PublicStates : stale = "stale"
    BY DEF PublicStates
  <2>4. PICK e \in {0, 1} : e = 0
    OBVIOUS
  <2>5. Accounted(b, e) /\ Follows(s, b) /\ b.phase = waiting
    BY <2>2, <2>4, InvalidatedPhase
  <2> HIDE DEF b
  <2>6. Accounted(SendState(b, stale), e) /\ Follows(b, SendState(b, stale))
    BY <2>5, SendStateAccounted
  <2>7. SendState(b, stale).phase \notin Capturing
    BY <2>5, <2>6 DEF Follows, Trails
  <2> QED BY <2>1, <2>3, <2>4, <2>5, <2>6, <2>7, FollowsOn
<1>2. CASE ~(s.phase \in {"authorizing", "capturing", "snapshot-sent", "draining", "live",
                          "backoff"})
  BY <1>2 DEF OnSourceUnavailable, Follows, Trails, HeldIn, Capturing
<1> QED BY <1>1, <1>2

LEMMA EndTaskAccounted ==
    ASSUME NEW s, Accounted(s, 0)
    PROVE  Accounted(EndTask(s), 0) /\ Follows(s, EndTask(s)) /\ EndTask(s).phase = s.phase
<1> DEFINE t == [s EXCEPT !.task = NoTask]
<1>1. IsRec(t)
  BY DEF Accounted, Ok, IsRec
<1>2. /\ Typed(t) /\ t.task = NoTask /\ t.phase = s.phase /\ t.held = s.held
      /\ t.registered = s.registered /\ t.lastDelivered = s.lastDelivered
      /\ t.acked = s.acked /\ t.queue = s.queue /\ t.inFlight = s.inFlight
      /\ t.frames = s.frames /\ t.tail = s.tail /\ t.snapshotRevision = s.snapshotRevision
  BY NullsTyped DEF Accounted, Ok, IsRec, Fields, Typed
<1>3. ~NoTask.fresh /\ NoTask.step = "none"
  BY DEF NoTask
<1>4. EndTask(s) = t
  BY DEF EndTask
<1> HIDE DEF t
<1>5. Accounted(t, 0)
  BY <1>1, <1>2, <1>3 DEF Accounted, Ok, Holding, Outstanding, Resumable, Forward
<1> QED BY <1>2, <1>3, <1>4, <1>5 DEF Follows, Trails, HeldIn

\* What is left of a rising queue without its head is newer than the head.
LEMMA TailRises ==
    ASSUME NEW q \in Seq(Revisions), q # <<>>, NEW top \in Revisions, Rising(q, top)
    PROVE  /\ Head(q) \in Revisions /\ Tail(q) \in Seq(Revisions)
           /\ Len(Tail(q)) = Len(q) - 1 /\ Rising(Tail(q), top)
           /\ Head(q) = q[1] /\ 1 \in 1..Len(q) /\ Head(q) <= top
           /\ \A i \in 1..Len(Tail(q)) : Tail(q)[i] > Head(q)
<1>1. /\ Head(q) \in Revisions /\ Head(q) = q[1]
      /\ Tail(q) \in Seq(Revisions) /\ Len(Tail(q)) = Len(q) - 1
      /\ \A i \in 1..Len(Tail(q)) : Tail(q)[i] = q[i + 1]
  BY HeadTailProperties
<1>2. Len(q) \in Nat /\ Len(q) > 0 /\ \A i \in 1..Len(q) : q[i] \in Int
  BY QueueFacts
<1>3. \A i \in 1..Len(Tail(q)) : i + 1 \in 1..Len(q) /\ i \in Nat
  BY <1>1, <1>2
<1>4. 1 \in 1..Len(q)
  BY <1>2
<1>5. Rising(Tail(q), top)
  <2>1. ASSUME NEW i \in 1..Len(Tail(q)), NEW j \in 1..Len(Tail(q)), i < j
        PROVE  Tail(q)[i] < Tail(q)[j]
    <3>1. i + 1 < j + 1
      BY <1>3, <2>1
    <3> QED BY <1>1, <1>3, <3>1 DEF Rising
  <2>2. \A i \in 1..Len(Tail(q)) : Tail(q)[i] <= top
    BY <1>1, <1>3 DEF Rising
  <2> QED BY <2>1, <2>2 DEF Rising
<1>6. ASSUME NEW i \in 1..Len(Tail(q)) PROVE Tail(q)[i] > Head(q)
  <2>1. 1 < i + 1
    BY <1>3
  <2>2. q[1] < q[i + 1]
    BY <1>3, <1>4, <2>1 DEF Rising
  <2> QED BY <1>1, <1>2, <1>3, <1>4, <2>2
<1>7. Head(q) <= top
  BY <1>1, <1>4 DEF Rising
<1> QED BY <1>1, <1>4, <1>5, <1>6, <1>7

\* What is newer than a revision: it still rises, and all of it is newer.
LEMMA NewerRises ==
    ASSUME NEW q \in Seq(Revisions), NEW revision \in Revisions, NEW top \in Revisions,
           Rising(q, top)
    PROVE  LET k == Newer(q, revision)
           IN  /\ k \in Seq(Revisions) /\ Len(k) \in Nat /\ Len(k) <= Len(q)
               /\ Rising(k, top)
               /\ \A i \in 1..Len(k) : k[i] > revision
<1> DEFINE n == FirstNewer(q, revision)
<1> DEFINE k == SubSeq(q, n, Len(q))
<1>0. /\ Len(q) \in Nat
      /\ \A i \in 1..Len(q) : q[i] \in Revisions /\ q[i] \in Int
      /\ revision \in Int
  BY QueueFacts, RevisionsInt
<1>1. /\ n \in 1..(Len(q) + 1)
      /\ n <= Len(q) => q[n] > revision
  BY FirstNewerExists
<1> HIDE DEF n
<1>2. /\ k \in Seq(Revisions)
      /\ Len(k) = IF n <= Len(q) THEN Len(q) - n + 1 ELSE 0
      /\ \A i \in 1..(Len(q) - n + 1) : k[i] = q[n + i - 1]
  BY <1>0, <1>1, SubSeqProperties
<1> HIDE DEF k
<1>3. n \in Nat /\ Len(k) \in Nat /\ Len(k) <= Len(q)
  BY <1>0, <1>1, <1>2
<1>4. ASSUME NEW i \in 1..Len(k)
      PROVE  /\ i \in Nat /\ n <= Len(q) /\ n \in 1..Len(q)
             /\ n + i - 1 \in 1..Len(q) /\ k[i] = q[n + i - 1]
  BY <1>0, <1>1, <1>2, <1>3
<1>5. Rising(k, top)
  <2>1. ASSUME NEW i \in 1..Len(k), NEW j \in 1..Len(k), i < j
        PROVE  k[i] < k[j]
    <3>1. n + i - 1 < n + j - 1
      BY <1>3, <1>4, <2>1
    <3> QED BY <1>4, <3>1 DEF Rising
  <2>2. \A i \in 1..Len(k) : k[i] <= top
    BY <1>4 DEF Rising
  <2> QED BY <2>1, <2>2 DEF Rising
<1>6. ASSUME NEW i \in 1..Len(k) PROVE k[i] > revision
  <2>1. CASE i = 1
    <3>1. n + i - 1 = n
      BY <1>3, <2>1
    <3> QED BY <1>0, <1>1, <1>4, <3>1
  <2>2. CASE i # 1
    <3>1. n < n + i - 1
      BY <1>3, <1>4, <2>2
    <3>2. q[n] < q[n + i - 1]
      BY <1>4, <3>1 DEF Rising
    <3>3. q[n] > revision /\ k[i] = q[n + i - 1]
      BY <1>1, <1>4
    <3>4. revision \in Int /\ q[n] \in Int /\ q[n + i - 1] \in Int
      BY <1>0, <1>4
    <3> QED BY <3>2, <3>3, <3>4
  <2> QED BY <2>1, <2>2
<1> QED BY <1>2, <1>3, <1>5, <1>6 DEF Newer, k, n

LEMMA AppendRises ==
    ASSUME NEW q \in Seq(Revisions), NEW top \in Revisions, Rising(q, top),
           NEW r \in Revisions, r > top
    PROVE  LET a == Append(q, r)
           IN  /\ a \in Seq(Revisions) /\ Len(a) = Len(q) + 1 /\ Len(q) \in Nat
               /\ Rising(a, r)
               /\ \A i \in 1..Len(a) : (i \in 1..Len(q) /\ a[i] = q[i]) \/ a[i] = r
<1> DEFINE a == Append(q, r)
<1>1. Len(q) \in Nat /\ \A i \in 1..Len(q) : q[i] \in Int
  BY QueueFacts
<1>2. /\ a \in Seq(Revisions) /\ Len(a) = Len(q) + 1
      /\ a[Len(q) + 1] = r /\ \A i \in 1..Len(q) : a[i] = q[i]
  BY AppendProperties
<1> HIDE DEF a
<1>3. r \in Int /\ top \in Int
  BY RevisionsInt
<1>4. \A i \in 1..Len(a) : (i \in 1..Len(q) /\ a[i] = q[i]) \/ (i = Len(q) + 1 /\ a[i] = r)
  BY <1>1, <1>2
<1>5. \A i \in 1..Len(q) : q[i] < r /\ q[i] <= r
  BY <1>1, <1>3 DEF Rising
<1>6. Rising(a, r)
  <2>1. ASSUME NEW i \in 1..Len(a), NEW j \in 1..Len(a), i < j PROVE a[i] < a[j]
    <3>1. i \in 1..Len(q)
      BY <1>1, <1>2, <2>1
    <3>2. CASE j \in 1..Len(q)
      BY <1>2, <2>1, <3>1, <3>2 DEF Rising
    <3>3. CASE j \notin 1..Len(q)
      BY <1>2, <1>4, <1>5, <3>1, <3>3
    <3> QED BY <3>2, <3>3
  <2>2. \A i \in 1..Len(a) : a[i] <= r
    BY <1>3, <1>4, <1>5
  <2> QED BY <2>1, <2>2 DEF Rising
<1> QED BY <1>1, <1>2, <1>4, <1>6 DEF a

\* A frame whose budget is reserved is released, or put in flight.
LEMMA ReleaseAccounted ==
    ASSUME NEW s, Accounted(s, 1)
    PROVE  /\ Accounted(Release(s), 0) /\ Follows(s, Release(s))
           /\ Release(s).phase = s.phase
<1> DEFINE n == Less(s.frames, 1)
<1> DEFINE t == [s EXCEPT !.frames = n]
<1>1. n \in Nat /\ n = Holding(s)
  <2>1. Holding(s) \in Nat /\ s.frames = Holding(s) + 1
    BY HoldingNat DEF Accounted
  <2> QED BY <2>1 DEF Less
<1> HIDE DEF n
<1>2. IsRec(t)
  BY DEF Accounted, Ok, IsRec
<1>3. Typed(t) /\ t.frames = n
  BY <1>1 DEF Accounted, Ok, IsRec, Fields, Typed
<1>4. /\ t.task = s.task /\ t.phase = s.phase /\ t.held = s.held
      /\ t.registered = s.registered /\ t.lastDelivered = s.lastDelivered
      /\ t.acked = s.acked /\ t.queue = s.queue /\ t.inFlight = s.inFlight
      /\ t.attempts = s.attempts /\ t.tail = s.tail /\ t.snapshotRevision = s.snapshotRevision
  BY DEF Accounted, Ok, IsRec, Fields
<1>5. Release(s) = t
  BY DEF Release, n
<1> HIDE DEF t
<1>6. Accounted(t, 0)
  <2>1. Holding(t) = Holding(s) /\ Holding(s) \in Nat
    BY <1>4, HoldingNat DEF Holding, Outstanding, Accounted
  <2> QED BY <1>1, <1>2, <1>3, <1>4, <2>1 DEF Accounted, Ok, Resumable, Forward
<1> QED BY <1>4, <1>5, <1>6 DEF Follows, Trails, HeldIn

LEMMA TransmitAccounted ==
    ASSUME NEW s, Accounted(s, 1), s.phase \in Delivering, s.inFlight = NoFrame,
           NEW revision \in Revisions,
           revision >= s.lastDelivered, revision <= s.tail,
           s.phase = "snapshot-sent" => revision = s.snapshotRevision,
           s.phase # "snapshot-sent" =>
              revision > 0 /\ \A i \in 1..Len(s.queue) : s.queue[i] > revision
    PROVE  LET t == Transmit(s, revision) IN Accounted(t, 0) /\ Follows(s, t)
<1> DEFINE t == Transmit(s, revision)
<1>1. CASE ~CanDeliver(s)
  <2>1. t = Release(Notice(s))
    BY <1>1 DEF Transmit
  <2>2. Accounted(Notice(s), 1) /\ Follows(s, Notice(s))
    BY NoticeAccounted
  <2> QED BY <2>1, <2>2, ReleaseAccounted, FollowsOn
<1>2. CASE CanDeliver(s) /\ s.sequence >= MaxSequence - 1
  <2>1. t = AttemptFailed(Release(s))
    BY <1>2 DEF Transmit
  <2> QED BY <2>1, ReleaseAccounted, AttemptFailedAccounted, FollowsOn
<1>3. CASE CanDeliver(s) /\ ~(s.sequence >= MaxSequence - 1)
  <2> DEFINE n == s.sequence + 1
  <2> DEFINE f == [revision |-> revision, sequence |-> n]
  <2> DEFINE u == [s EXCEPT !.sequence = n, !.inFlight = f]
  <2>1. t = u
    BY <1>3 DEF Transmit
  <2>2. n \in Nat /\ n # 0
    BY DEF Accounted, Ok, Typed
  <2>3. f \in [revision : Revisions, sequence : Nat] /\ f.revision = revision /\ f # NoFrame
    <3>1. f.sequence # NoFrame.sequence
      BY <2>2 DEF NoFrame
    <3> QED BY <2>2, <3>1
  <2> HIDE DEF n, f, t
  <2>4. IsRec(u)
    BY DEF Accounted, Ok, IsRec
  <2>5. Typed(u) /\ u.inFlight = f
    BY <2>2, <2>3 DEF Accounted, Ok, IsRec, Fields, Typed
  <2>6. /\ u.task = s.task /\ u.phase = s.phase /\ u.held = s.held
        /\ u.registered = s.registered /\ u.lastDelivered = s.lastDelivered
        /\ u.acked = s.acked /\ u.queue = s.queue /\ u.frames = s.frames
        /\ u.attempts = s.attempts /\ u.tail = s.tail
        /\ u.snapshotRevision = s.snapshotRevision
    BY DEF Accounted, Ok, IsRec, Fields
  <2> HIDE DEF u
  <2>7. u.frames = Holding(u) + 0
    <3>1. Len(s.queue) \in Nat /\ s.frames = Holding(s) + 1
      BY HoldingNat DEF Accounted
    <3> QED BY <2>3, <2>5, <2>6, <3>1 DEF Holding, Outstanding
  <2>8. Forward(u)
    BY <2>3, <2>5, <2>6 DEF Accounted, Forward
  <2>9. Accounted(u, 0)
    BY <2>4, <2>5, <2>6, <2>7, <2>8 DEF Accounted, Ok, Resumable
  <2>10. Follows(s, u)
    BY <2>6 DEF Follows, Trails, HeldIn
  <2> QED BY <2>1, <2>9, <2>10 DEF t
<1> QED BY <1>1, <1>2, <1>3

LEMMA PumpAccounted ==
    ASSUME NEW s, Accounted(s, 0)
    PROVE  Accounted(Pump(s), 0) /\ Follows(s, Pump(s))
<1>1. CASE ~(s.inFlight = NoFrame /\ s.phase \in {"draining", "live"} /\ s.queue # <<>>)
  BY <1>1 DEF Pump, Follows, Trails, HeldIn
<1>2. CASE s.inFlight = NoFrame /\ s.phase \in {"draining", "live"} /\ s.queue # <<>>
  <2> DEFINE h == Head(s.queue)
  <2> DEFINE q == Tail(s.queue)
  <2> DEFINE c == [s EXCEPT !.queue = q]
  <2>1. Pump(s) = Transmit(c, h)
    BY <1>2 DEF Pump
  <2>2. s.queue \in Seq(Revisions) /\ s.tail \in Revisions /\ Rising(s.queue, s.tail)
    BY DEF Accounted, Ok, Typed
  <2>3. /\ h \in Revisions /\ q \in Seq(Revisions) /\ Len(q) = Len(s.queue) - 1
        /\ Rising(q, s.tail) /\ h = s.queue[1] /\ 1 \in 1..Len(s.queue) /\ h <= s.tail
        /\ \A i \in 1..Len(q) : q[i] > h
    BY <1>2, <2>2, TailRises
  <2> HIDE DEF h, q
  <2>4. IsRec(c)
    BY DEF Accounted, Ok, IsRec
  <2>5. Typed(c) /\ c.queue = q
    BY <2>3 DEF Accounted, Ok, IsRec, Fields, Typed
  <2>6. /\ c.task = s.task /\ c.phase = s.phase /\ c.held = s.held
        /\ c.registered = s.registered /\ c.lastDelivered = s.lastDelivered
        /\ c.acked = s.acked /\ c.inFlight = s.inFlight /\ c.frames = s.frames
        /\ c.attempts = s.attempts /\ c.tail = s.tail
        /\ c.snapshotRevision = s.snapshotRevision
    BY DEF Accounted, Ok, IsRec, Fields
  <2> HIDE DEF c
  <2>7. c.frames = Holding(c) + 1
    <3>1. Len(s.queue) \in Nat /\ Outstanding(s) = 0 /\ s.frames = Holding(s) + 0
      BY <1>2, HoldingNat DEF Accounted, Outstanding
    <3>2. Outstanding(c) = 0
      BY <1>2, <2>6 DEF Outstanding
    <3> QED BY <2>3, <2>5, <2>6, <3>1, <3>2 DEF Holding
  <2>8. s.phase \in Delivering /\ s.phase # "snapshot-sent"
    BY <1>2 DEF Delivering
  <2>9. /\ Forward(s) /\ h >= s.lastDelivered /\ h > 0
    BY <1>2, <2>3, <2>8 DEF Accounted, Forward, NoFrame
  <2>10. s.lastDelivered \in Int /\ h \in Int /\ \A i \in 1..Len(q) : q[i] \in Int
    BY <2>3, QueueFacts, RevisionsInt DEF Accounted, Ok, Typed
  <2>11. s.inFlight.revision = 0 /\ 0 <= h
    BY <1>2, <2>3 DEF NoFrame, Revisions
  <2>12. \A i \in 1..Len(q) : q[i] >= s.lastDelivered /\ q[i] > s.inFlight.revision
    BY <2>3, <2>9, <2>10, <2>11
  <2>13. Forward(c)
    BY <1>2, <2>5, <2>6, <2>8, <2>9, <2>12 DEF Forward
  <2>14. Accounted(c, 1)
    BY <2>3, <2>4, <2>5, <2>6, <2>7, <2>8, <2>13 DEF Accounted, Ok, Resumable
  <2>15. Accounted(Transmit(c, h), 0) /\ Follows(c, Transmit(c, h))
    BY <1>2, <2>3, <2>5, <2>6, <2>8, <2>9, <2>14, TransmitAccounted
  <2>16. Follows(s, c)
    BY <2>6 DEF Follows, Trails, HeldIn
  <2> QED BY <2>1, <2>15, <2>16, FollowsOn
<1> QED BY <1>1, <1>2

\* As Follows, for a method that may confirm a frame.
Gains(s, t) ==
    /\ t.lastDelivered >= s.lastDelivered /\ t.acked = s.acked
    /\ t.phase \in Delivering => s.phase \in Delivering
    /\ t.phase \in Capturing => s.phase \in Capturing
    /\ t.task.fresh /\ t.task.step \in {"recheck", "cleared"} => t.task = s.task
    /\ t.task.step = "cleared" => s.task.step = "cleared"
    /\ HeldIn(s, t)

LEMMA DeliveredInt ==
    ASSUME NEW s, NEW e, Accounted(s, e)
    PROVE  /\ s.lastDelivered \in Int /\ s.tail \in Int /\ s.snapshotRevision \in Int
           /\ s.inFlight.revision \in Int /\ s.queue \in Seq(Revisions)
           /\ \A i \in 1..Len(s.queue) : s.queue[i] \in Int
           /\ Len(s.queue) \in Nat
<1>1. /\ s.lastDelivered \in Revisions /\ s.tail \in Revisions
      /\ s.snapshotRevision \in Revisions /\ s.inFlight.revision \in Revisions
      /\ s.queue \in Seq(Revisions)
  BY DEF Accounted, Ok, Typed
<1> QED BY <1>1, RevisionsInt, QueueFacts

LEMMA FollowsGains ==
    ASSUME NEW s, Accounted(s, 0), NEW t, Follows(s, t)
    PROVE  Gains(s, t)
BY DeliveredInt DEF Follows, Trails, Gains

LEMMA GainsOn ==
    ASSUME NEW s, NEW t, NEW u, Gains(s, t), Follows(t, u)
    PROVE  Gains(s, u)
BY DEF Follows, Trails, Gains, HeldIn

LEMMA GoLiveAccounted ==
    ASSUME NEW s, Accounted(s, 0), s.phase = "draining"
    PROVE  Accounted(GoLive(s), 0) /\ Follows(s, GoLive(s))
<1> DEFINE l == [s EXCEPT !.phase = "live", !.attempts = 0]
<1>1. IsRec(l)
  BY DEF Accounted, Ok, IsRec
<1>2. Typed(l) /\ l.phase = "live"
  BY DEF Accounted, Ok, IsRec, Fields, Typed, Phases
<1>3. /\ l.task = s.task /\ l.held = s.held
      /\ l.registered = s.registered /\ l.lastDelivered = s.lastDelivered
      /\ l.acked = s.acked /\ l.queue = s.queue /\ l.frames = s.frames
      /\ l.inFlight = s.inFlight /\ l.tail = s.tail
      /\ l.snapshotRevision = s.snapshotRevision
  BY DEF Accounted, Ok, IsRec, Fields
<1>4. GoLive(s) = Pump(SendState(l, "live"))
  BY DEF GoLive
<1> HIDE DEF l
<1>5. s.phase \in Delivering /\ l.phase \in Delivering /\ s.phase \in Capturing
  BY <1>2 DEF Delivering, Capturing
<1>6. s.task.step \in {"none", "cleared"}
  BY <1>5 DEF Accounted, Resumable
<1>7. Forward(l)
  BY <1>2, <1>3, <1>5 DEF Accounted, Forward
<1>8. Accounted(l, 0)
  BY <1>1, <1>2, <1>3, <1>5, <1>6, <1>7 DEF Accounted, Ok, Resumable, Holding, Outstanding
<1>9. Follows(s, l)
  BY <1>3, <1>5 DEF Follows, Trails, HeldIn
<1>10. PICK live \in PublicStates : live = "live"
  BY DEF PublicStates
<1>11. PICK e \in {0, 1} : e = 0
  OBVIOUS
<1>12. Accounted(SendState(l, live), e) /\ Follows(l, SendState(l, live))
  BY <1>8, <1>11, SendStateAccounted
<1>13. Follows(s, SendState(l, live))
  BY <1>9, <1>12, FollowsOn
<1> QED BY <1>4, <1>10, <1>11, <1>12, <1>13, PumpAccounted, FollowsOn

LEMMA SnapshotReceivedAccounted ==
    ASSUME NEW s, Accounted(s, 0), s.phase = "snapshot-sent", s.inFlight = NoFrame
    PROVE  Accounted(SnapshotReceived(s), 0) /\ Follows(s, SnapshotReceived(s))
<1> DEFINE kept == Newer(s.queue, s.snapshotRevision)
<1> DEFINE n == Less(s.frames, Len(s.queue) - Len(kept))
<1> DEFINE l == Len(kept)
<1> DEFINE t == [s EXCEPT !.queue = kept, !.frames = n, !.drainRemaining = l,
                          !.phase = "draining"]
<1>1. SnapshotReceived(s) = IF kept = <<>> THEN GoLive(t) ELSE Pump(t)
  BY DEF SnapshotReceived
<1>2. /\ s.queue \in Seq(Revisions) /\ s.snapshotRevision \in Revisions
      /\ s.tail \in Revisions /\ Rising(s.queue, s.tail)
  BY DEF Accounted, Ok, Typed
<1>3. /\ kept \in Seq(Revisions) /\ Len(kept) \in Nat /\ Len(kept) <= Len(s.queue)
      /\ Rising(kept, s.tail) /\ \A i \in 1..Len(kept) : kept[i] > s.snapshotRevision
  BY <1>2, NewerRises
<1> HIDE DEF kept
<1>4. n = Len(kept) /\ l \in Int /\ n \in Nat
  <2>1. s.frames = Len(s.queue) /\ Len(s.queue) \in Nat
    BY HoldingNat DEF Accounted, Holding, Outstanding
  <2>2. l \in Int
    BY <1>3
  <2> QED BY <1>3, <2>1, <2>2 DEF Less
<1> HIDE DEF n, l
<1>5. IsRec(t)
  BY DEF Accounted, Ok, IsRec
<1>6. Typed(t) /\ t.phase = "draining" /\ t.queue = kept /\ t.frames = n
  BY <1>3, <1>4 DEF Accounted, Ok, IsRec, Fields, Typed, Phases
<1>7. /\ t.task = s.task /\ t.held = s.held /\ t.registered = s.registered
      /\ t.lastDelivered = s.lastDelivered /\ t.acked = s.acked
      /\ t.inFlight = s.inFlight /\ t.tail = s.tail /\ t.attempts = s.attempts
  BY DEF Accounted, Ok, IsRec, Fields
<1> HIDE DEF t
<1>8. /\ s.phase \in Delivering /\ t.phase \in Delivering
      /\ s.phase \in Capturing /\ t.phase # "snapshot-sent"
  BY <1>6 DEF Delivering, Capturing
<1>9. Forward(t)
  <2>1. /\ s.lastDelivered <= s.tail /\ s.inFlight.revision <= s.tail
        /\ s.snapshotRevision >= s.lastDelivered
    BY <1>8 DEF Accounted, Forward
  <2>2. s.inFlight.revision = 0 /\ 0 <= s.snapshotRevision
    BY <1>2 DEF NoFrame, Revisions
  <2>3. /\ s.snapshotRevision \in Int /\ s.lastDelivered \in Int
        /\ \A i \in 1..Len(kept) : kept[i] \in Int
    BY <1>3, DeliveredInt, QueueFacts
  <2>4. \A i \in 1..Len(kept) : kept[i] >= s.lastDelivered /\ kept[i] > 0
    BY <1>3, <2>1, <2>2, <2>3
  <2> QED BY <1>6, <1>7, <1>8, <2>1, <2>2, <2>4 DEF Forward
<1>10. t.frames = Holding(t) + 0
  BY <1>3, <1>4, <1>6, <1>7 DEF Holding, Outstanding
<1>11. Accounted(t, 0)
  BY <1>3, <1>5, <1>6, <1>7, <1>8, <1>9, <1>10 DEF Accounted, Ok, Resumable
<1>12. Follows(s, t)
  BY <1>7, <1>8 DEF Follows, Trails, HeldIn
<1> QED BY <1>1, <1>6, <1>11, <1>12, GoLiveAccounted, PumpAccounted, FollowsOn

LEMMA ConfirmAccounted ==
    ASSUME NEW s, Accounted(s, 0), s.task.step # "cleared", s.inFlight # NoFrame
    PROVE  /\ Accounted(Confirm(s), 0) /\ Gains(s, Confirm(s))
           /\ Confirm(s).lastDelivered = s.inFlight.revision
<1> DEFINE r == Release(s)
<1> DEFINE m == Max2(s.lastDelivered, s.inFlight.revision)
<1> DEFINE t == [r EXCEPT !.inFlight = NoFrame, !.lastDelivered = m]
<1> DEFINE d == [t EXCEPT !.drainRemaining = @ - 1]
<1>1. s.phase \in Delivering /\ Forward(s)
  BY DEF Accounted
<1>2. m = s.inFlight.revision /\ m \in Revisions /\ m >= s.lastDelivered /\ m <= s.tail
  <2>1. s.inFlight.revision >= s.lastDelivered /\ s.inFlight.revision <= s.tail
    BY <1>1 DEF Forward
  <2>2. s.lastDelivered \in Int /\ s.inFlight.revision \in Int
    BY DeliveredInt
  <2>3. s.inFlight.revision \in Revisions
    BY DEF Accounted, Ok, Typed
  <2> QED BY <2>1, <2>2, <2>3 DEF Max2
<1>3. Confirm(s) = CASE t.phase = "snapshot-sent" -> SnapshotReceived(t)
                     [] t.phase = "draining" ->
                           IF d.drainRemaining <= 0 THEN GoLive(d) ELSE Pump(d)
                     [] OTHER -> Pump(t)
  <2>1. r.lastDelivered = s.lastDelivered
    BY ReleaseSame DEF Same, Accounted
  <2> QED BY <2>1 DEF Confirm
<1>4. /\ Ok(r) /\ r.frames = Len(s.queue)
      /\ r.registered = s.registered /\ r.acked = s.acked
  <2>1. Less(s.frames, 1) = Len(s.queue) /\ Less(s.frames, 1) \in Nat
    BY HoldingNat DEF Accounted, Holding, Outstanding, Less
  <2>2. Ok(r)
    BY ReleaseSame DEF Accounted
  <2>3. /\ r.frames = Less(s.frames, 1)
        /\ r.registered = s.registered /\ r.acked = s.acked
    BY DEF Release, Accounted, Ok, IsRec, Fields
  <2> QED BY <2>1, <2>2, <2>3
<1>5. /\ r.phase = s.phase /\ r.queue = s.queue /\ r.snapshotRevision = s.snapshotRevision
      /\ r.tail = s.tail /\ r.held = s.held /\ r.attempts = s.attempts /\ r.task = s.task
  BY ReleaseSame DEF Same, Accounted
<1> HIDE DEF r, m
<1>6. IsRec(t)
  BY <1>4 DEF Ok, IsRec
<1>7. Typed(t) /\ t.inFlight = NoFrame /\ t.lastDelivered = m
  BY <1>2, <1>4, NullsTyped DEF Ok, IsRec, Fields, Typed
<1>8. /\ t.phase = s.phase /\ t.queue = s.queue /\ t.snapshotRevision = s.snapshotRevision
      /\ t.tail = s.tail /\ t.held = s.held /\ t.attempts = s.attempts /\ t.task = s.task
      /\ t.registered = s.registered /\ t.acked = s.acked /\ t.frames = Len(s.queue)
  BY <1>4, <1>5 DEF Ok, IsRec, Fields
<1> HIDE DEF t
<1>9. Forward(t)
  <2>1. NoFrame.revision = 0 /\ 0 <= m
    BY <1>2 DEF NoFrame, Revisions
  <2>2. /\ s.phase = "snapshot-sent" => s.snapshotRevision = s.inFlight.revision
        /\ s.phase # "snapshot-sent" =>
              \A i \in 1..Len(s.queue) : s.queue[i] > s.inFlight.revision
    BY <1>1 DEF Forward
  <2>3. /\ s.tail \in Int /\ s.snapshotRevision \in Int /\ s.inFlight.revision \in Int
        /\ \A i \in 1..Len(s.queue) : s.queue[i] \in Int
    BY DeliveredInt
  <2>4. t.lastDelivered <= t.tail /\ t.inFlight.revision <= t.tail
    BY <1>2, <1>7, <1>8, <2>1, <2>3
  <2>5. t.phase = "snapshot-sent" => t.snapshotRevision >= t.lastDelivered
    BY <1>2, <1>7, <1>8, <2>2, <2>3
  <2>6. t.phase # "snapshot-sent" =>
           \A i \in 1..Len(t.queue) :
              t.queue[i] >= t.lastDelivered /\ t.queue[i] > t.inFlight.revision
    BY <1>2, <1>7, <1>8, <2>1, <2>2, <2>3
  <2> QED BY <1>7, <2>4, <2>5, <2>6 DEF Forward
<1>10. t.frames = Holding(t) + 0
  BY <1>7, <1>8, DeliveredInt DEF Holding, Outstanding
<1>11. t.task.step = "none"
  BY <1>1, <1>8 DEF Accounted, Resumable
<1>12. Accounted(t, 0)
  BY <1>1, <1>6, <1>7, <1>8, <1>9, <1>10, <1>11 DEF Accounted, Ok, Resumable
<1>13. Gains(s, t)
  BY <1>2, <1>7, <1>8 DEF Gains, HeldIn
<1>14. IsRec(d)
  BY <1>6 DEF IsRec
<1>15. /\ Typed(d) /\ SameFrames(d, t) /\ d.acked = t.acked /\ d.held = t.held
       /\ d.registered = t.registered
  <2>1. t.drainRemaining - 1 \in Int
    BY <1>7 DEF Typed
  <2> QED BY <1>6, <1>7, <2>1 DEF IsRec, Fields, Typed, SameFrames
<1> HIDE DEF d
<1>16. Accounted(d, 0)
  BY <1>12, <1>14, <1>15, SameAccounted DEF Ok
<1>17. Follows(t, d)
  BY <1>15 DEF Follows, Trails, HeldIn, SameFrames
<1>18. Gains(s, d) /\ d.phase = t.phase /\ d.lastDelivered = t.lastDelivered
  BY <1>13, <1>15, <1>17, GainsOn DEF SameFrames
<1>a. ASSUME NEW u, Follows(t, u)
      PROVE  Gains(s, u) /\ u.lastDelivered = s.inFlight.revision
  BY <1>2, <1>7, <1>13, <1>a, GainsOn DEF Follows, Trails
<1>b. ASSUME NEW u, Follows(d, u)
      PROVE  Gains(s, u) /\ u.lastDelivered = s.inFlight.revision
  BY <1>2, <1>7, <1>18, <1>b, GainsOn DEF Follows, Trails
<1>19. CASE t.phase = "snapshot-sent"
  BY <1>3, <1>7, <1>12, <1>19, <1>a, SnapshotReceivedAccounted
<1>20. CASE t.phase = "draining"
  BY <1>3, <1>16, <1>18, <1>20, <1>b, GoLiveAccounted, PumpAccounted
<1>21. CASE t.phase \notin {"snapshot-sent", "draining"}
  BY <1>3, <1>12, <1>21, <1>a, PumpAccounted
<1> QED BY <1>19, <1>20, <1>21

LEMMA OnReceiptAccounted ==
    ASSUME NEW s, Accounted(s, 0), s.task.step # "cleared", NEW sequence
    PROVE  Accounted(OnReceipt(s, sequence), 0) /\ Gains(s, OnReceipt(s, sequence))
<1>1. Follows(s, s)
  BY DEF Follows, Trails, HeldIn
<1>2. \/ OnReceipt(s, sequence) = s
      \/ OnReceipt(s, sequence) = ProtocolViolation(s)
      \/ OnReceipt(s, sequence) = Confirm(s) /\ s.inFlight # NoFrame
  BY DEF OnReceipt
<1> QED BY <1>1, <1>2, FollowsGains, ProtocolViolationAccounted, ConfirmAccounted

LEMMA AdmitAccounted ==
    ASSUME NEW s, Accounted(s, 0), NEW revision \in Revisions, revision > 0,
           NEW room \in BOOLEAN
    PROVE  Accounted(Admit(s, revision, room), 0) /\ Follows(s, Admit(s, revision, room))
<1>1. CASE s.phase \notin Capturing \/ (s.tail # 0 /\ revision <= s.tail)
  BY <1>1 DEF Admit, Follows, Trails, HeldIn
<1>2. CASE ~(s.phase \notin Capturing \/ (s.tail # 0 /\ revision <= s.tail))
  <2>1. CASE ~CanReserve(s, room)
    BY <1>2, <2>1, AttemptFailedAccounted DEF Admit
  <2>2. CASE CanReserve(s, room)
    <3> DEFINE q == Append(s.queue, revision)
    <3> DEFINE r == Reserve(s)
    <3> DEFINE t == [r EXCEPT !.queue = q, !.tail = revision]
    <3>1. Admit(s, revision, room) = Pump(t)
      <4>1. r.queue = s.queue
        BY ReserveSame DEF Same, Accounted
      <4> QED BY <1>2, <2>2, <4>1 DEF Admit
    <3>2. s.queue \in Seq(Revisions) /\ s.tail \in Revisions /\ Rising(s.queue, s.tail)
      BY DEF Accounted, Ok, Typed
    <3>3. revision > s.tail /\ revision \in Int /\ s.tail \in Int
      <4>1. revision \in Int /\ s.tail \in Int
        BY <3>2, RevisionsInt
      <4>2. s.tail = 0 \/ ~(revision <= s.tail)
        BY <1>2
      <4> QED BY <4>1, <4>2
    <3>4. /\ q \in Seq(Revisions) /\ Len(q) = Len(s.queue) + 1 /\ Len(s.queue) \in Nat
          /\ Rising(q, revision)
          /\ \A i \in 1..Len(q) : (i \in 1..Len(s.queue) /\ q[i] = s.queue[i]) \/ q[i] = revision
      BY <3>2, <3>3, AppendRises
    <3>5. /\ Ok(r) /\ r.frames = s.frames + 1 /\ s.frames \in Nat
          /\ r.registered = s.registered /\ r.acked = s.acked
      <4>1. Ok(r) /\ s.frames \in Nat
        BY ReserveSame DEF Accounted, Ok, Typed
      <4>2. r.frames = s.frames + 1 /\ r.registered = s.registered /\ r.acked = s.acked
        BY DEF Reserve, Accounted, Ok, IsRec, Fields
      <4> QED BY <4>1, <4>2
    <3>6. /\ r.phase = s.phase /\ r.inFlight = s.inFlight
          /\ r.snapshotRevision = s.snapshotRevision /\ r.lastDelivered = s.lastDelivered
          /\ r.held = s.held /\ r.attempts = s.attempts /\ r.task = s.task
      BY ReserveSame DEF Same, Accounted
    <3> HIDE DEF q, r
    <3>7. IsRec(t)
      BY <3>5 DEF Ok, IsRec
    <3>8. Typed(t) /\ t.queue = q /\ t.tail = revision
      BY <3>4, <3>5 DEF Ok, IsRec, Fields, Typed
    <3>9. /\ t.phase = s.phase /\ t.inFlight = s.inFlight
          /\ t.snapshotRevision = s.snapshotRevision /\ t.lastDelivered = s.lastDelivered
          /\ t.held = s.held /\ t.attempts = s.attempts /\ t.task = s.task
          /\ t.registered = s.registered /\ t.acked = s.acked /\ t.frames = s.frames + 1
      BY <3>5, <3>6 DEF Ok, IsRec, Fields
    <3> HIDE DEF t
    <3>10. s.phase \in Delivering => Forward(t)
      <4> SUFFICES ASSUME s.phase \in Delivering PROVE Forward(t)
        OBVIOUS
      <4>1. Forward(s)
        BY DEF Accounted
      <4>2. s.lastDelivered \in Int /\ s.inFlight.revision \in Int
        BY DeliveredInt
      <4>3. s.lastDelivered <= revision /\ s.inFlight.revision <= revision
        BY <3>3, <4>1, <4>2 DEF Forward
      <4>4. s.phase # "snapshot-sent" =>
               \A i \in 1..Len(q) : q[i] >= s.lastDelivered /\ q[i] > s.inFlight.revision
        BY <3>3, <3>4, <4>1, <4>2, <4>3 DEF Forward
      <4> QED BY <3>8, <3>9, <4>1, <4>3, <4>4 DEF Forward
    <3>11. t.frames = Holding(t) + 0
      <4>1. s.frames = Holding(s) + 0 /\ Outstanding(s) \in Nat
        BY HoldingNat DEF Accounted
      <4>2. Outstanding(t) = Outstanding(s)
        BY <3>9 DEF Outstanding
      <4>3. Len(t.queue) = Len(s.queue) + 1 /\ Len(s.queue) \in Nat
        BY <3>4, <3>8
      <4>4. t.frames = s.frames + 1
        BY <3>9
      <4> QED BY <4>1, <4>2, <4>3, <4>4 DEF Holding
    <3>12. Accounted(t, 0)
      BY <3>4, <3>7, <3>8, <3>9, <3>10, <3>11 DEF Accounted, Ok, Resumable
    <3>13. Follows(s, t)
      BY <3>9 DEF Follows, Trails, HeldIn
    <3> QED BY <3>1, <3>12, <3>13, PumpAccounted, FollowsOn
  <2> QED BY <2>1, <2>2
<1> QED BY <1>1, <1>2

-----------------------------------------------------------------------------
(* Attempts, under every race.                                             *)

LEMMA BeginAttemptAccounted ==
    ASSUME NEW s, Ok(s), s.frames = Holding(s) + 0, NEW announce
    PROVE  /\ Accounted(BeginAttempt(s, announce), 0)
           /\ Follows(s, BeginAttempt(s, announce))
<1> DEFINE i == Invalidate(s)
<1> DEFINE k == [NoTask EXCEPT !.step = "authorize", !.fresh = TRUE]
<1> DEFINE n == i.attempts + 1
<1> DEFINE b == [i EXCEPT !.attempts = n, !.phase = "authorizing", !.task = k]
<1> DEFINE t == [b EXCEPT !.public = "authorizing"]
<1>1. PICK e \in {0, 1} : e = 0
  OBVIOUS
<1>2. /\ Ok(i) /\ i.queue = <<>> /\ i.inFlight = NoFrame /\ i.frames = e
      /\ i.held = s.held /\ i.registered = s.registered
      /\ i.lastDelivered = s.lastDelivered /\ i.acked = s.acked
  BY <1>1, InvalidateEmpties
<1>3. k \in TaskType /\ k.step = "authorize"
  BY NullsTyped DEF NoTask, TaskType, Steps
<1>4. BeginAttempt(s, announce) = Notice(t) \/ BeginAttempt(s, announce) = t
  BY DEF BeginAttempt, SendState
<1> HIDE DEF i, k
<1>5. n \in Nat /\ n > 0
  BY <1>2 DEF Ok, Typed
<1> HIDE DEF n
<1>6. IsRec(b)
  BY <1>2 DEF Ok, IsRec
<1>7. /\ Typed(b) /\ b.phase = "authorizing" /\ b.task = k /\ b.attempts = n
      /\ b.held = i.held /\ b.registered = i.registered
      /\ b.lastDelivered = i.lastDelivered /\ b.acked = i.acked
      /\ b.queue = i.queue /\ b.inFlight = i.inFlight /\ b.frames = i.frames
  BY <1>2, <1>3, <1>5 DEF Ok, IsRec, Fields, Typed, Phases
<1> HIDE DEF b
<1>8. IsRec(t)
  BY <1>6 DEF IsRec
<1>9. /\ Typed(t) /\ t.phase = "authorizing" /\ t.task = k /\ t.attempts = n
      /\ t.held = b.held /\ t.registered = b.registered
      /\ t.lastDelivered = b.lastDelivered /\ t.acked = b.acked
      /\ t.queue = b.queue /\ t.inFlight = b.inFlight /\ t.frames = b.frames
  BY <1>6, <1>7 DEF IsRec, Fields, Typed, PublicStates
<1> HIDE DEF t
<1>10. t.phase \notin Delivering /\ t.phase \notin Capturing
  BY <1>9 DEF Delivering, Capturing
<1>11. Void(t, e)
  BY <1>2, <1>3, <1>5, <1>7, <1>8, <1>9 DEF Void, Ok
<1>12. Accounted(t, e)
  BY <1>10, <1>11, VoidAccounted
<1>13. Follows(s, t)
  BY <1>2, <1>3, <1>7, <1>9, <1>10 DEF Follows, Trails, HeldIn
<1>14. Accounted(Notice(t), e) /\ Follows(t, Notice(t))
  BY <1>12, NoticeAccounted
<1> QED BY <1>1, <1>4, <1>12, <1>13, <1>14, FollowsOn

LEMMA RequestResyncAccounted ==
    ASSUME NEW s, Accounted(s, 0)
    PROVE  Accounted(RequestResync(s), 0) /\ Follows(s, RequestResync(s))
<1> DEFINE z == [s EXCEPT !.attempts = 0]
<1>1. \/ RequestResync(s) = s
      \/ RequestResync(s) = BeginAttempt(s, TRUE)
      \/ s.phase \in {"live", "resync-required"} /\ RequestResync(s) = BeginAttempt(z, TRUE)
  BY DEF RequestResync
<1>2. Follows(s, s)
  BY DEF Follows, Trails, HeldIn
<1>3. Accounted(BeginAttempt(s, TRUE), 0) /\ Follows(s, BeginAttempt(s, TRUE))
  BY BeginAttemptAccounted DEF Accounted
<1> DEFINE b == BeginAttempt(z, TRUE)
<1>4. IsRec(z)
  BY DEF Accounted, Ok, IsRec
<1>5. /\ Typed(z) /\ z.frames = s.frames /\ z.queue = s.queue /\ z.inFlight = s.inFlight
      /\ z.lastDelivered = s.lastDelivered /\ z.acked = s.acked /\ z.phase = s.phase
      /\ z.held = s.held /\ z.registered = s.registered /\ z.task = s.task
  BY DEF Accounted, Ok, IsRec, Fields, Typed
<1> HIDE DEF z
<1>6. Ok(z) /\ z.frames = Holding(z) + 0
  BY <1>4, <1>5 DEF Accounted, Ok, Holding, Outstanding
<1>7. Accounted(b, 0) /\ Follows(z, b)
  BY <1>6, BeginAttemptAccounted
<1>8. Follows(s, z)
  BY <1>5 DEF Follows, Trails, HeldIn
<1> HIDE DEF b
<1>9. Follows(s, b)
  BY <1>7, <1>8, FollowsOn
<1> QED BY <1>1, <1>2, <1>3, <1>7, <1>9 DEF b

LEMMA SourceReadyAccounted ==
    ASSUME NEW s, Accounted(s, 0)
    PROVE  Accounted(OnSourceReady(s), 0) /\ Follows(s, OnSourceReady(s))
<1>1. Accounted(BeginAttempt(s, TRUE), 0) /\ Follows(s, BeginAttempt(s, TRUE))
  BY BeginAttemptAccounted DEF Accounted
<1> QED BY <1>1 DEF OnSourceReady, Follows, Trails, HeldIn

\* What replacing the coroutine, or the report, leaves as it was.
Keeps(t, s) ==
    /\ t.phase = s.phase /\ t.held = s.held /\ t.registered = s.registered
    /\ t.lastDelivered = s.lastDelivered /\ t.acked = s.acked

\* Replacing the coroutine by one the record can be resumed with.
LEMMA RetaskAccounted ==
    ASSUME NEW s, Accounted(s, 0), NEW k \in TaskType,
           k.step \notin {"none", "cleared"} => s.phase \notin Delivering,
           k.step \in {"authorize", "admitted"} => s.attempts > 0,
           k.step \in {"recheck", "cleared"} => k.revision >= s.lastDelivered
    PROVE  LET t == [s EXCEPT !.task = k]
           IN  Accounted(t, 0) /\ t.task = k /\ Keeps(t, s)
<1> DEFINE t == [s EXCEPT !.task = k]
<1>1. IsRec(t)
  BY DEF Accounted, Ok, IsRec
<1>2. /\ Typed(t) /\ t.task = k /\ Keeps(t, s) /\ t.queue = s.queue
      /\ t.inFlight = s.inFlight /\ t.attempts = s.attempts
      /\ t.frames = s.frames /\ t.tail = s.tail /\ t.snapshotRevision = s.snapshotRevision
  BY DEF Accounted, Ok, IsRec, Fields, Typed, Keeps
<1> HIDE DEF t
<1>3. Accounted(t, 0)
  BY <1>1, <1>2 DEF Accounted, Ok, Holding, Outstanding, Resumable, Forward, Keeps
<1> QED BY <1>2, <1>3 DEF t

\* A record between two steps: a cleared attempt has not delivered yet.
AtRest(s) ==
    /\ Accounted(s, 0)
    /\ s.task.step = "cleared" => s.phase \notin Delivering

\* What a step does, other than one that starts a capture, answers a snapshot or
\* sends it.
Moves(s, t) ==
    /\ t.acked = s.acked
    /\ t.phase \in Delivering => s.phase \in Delivering
    /\ t.phase \in Capturing => s.phase \in Capturing
    /\ t.task.fresh /\ t.task.step \in {"recheck", "cleared"} =>
          s.task.fresh /\ s.task.step \in {"recheck", "cleared"}
          /\ t.task.boundary = s.task.boundary
    /\ HeldIn(s, t)

\* And confirms nothing.
Steady(s, t) == Moves(s, t) /\ t.lastDelivered = s.lastDelivered

LEMMA GainsMoves ==
    ASSUME NEW s, AtRest(s), NEW t, Accounted(t, 0), Gains(s, t)
    PROVE  AtRest(t) /\ Moves(s, t)
BY DEF AtRest, Gains, Moves

LEMMA FollowsMoves ==
    ASSUME NEW s, AtRest(s), NEW t, Accounted(t, 0), Follows(s, t)
    PROVE  AtRest(t) /\ Steady(s, t)
BY FollowsGains, GainsMoves DEF AtRest, Steady, Follows, Trails

LEMMA EndedMoves ==
    ASSUME NEW s, AtRest(s), NEW t, Accounted(t, 0), Follows(s, t)
    PROVE  /\ Accounted(EndTask(t), 0) /\ Follows(s, EndTask(t))
           /\ AtRest(EndTask(t)) /\ Steady(s, EndTask(t))
<1>1. Accounted(EndTask(t), 0) /\ Follows(t, EndTask(t))
  BY EndTaskAccounted
<1>2. Follows(s, EndTask(t))
  BY <1>1, FollowsOn
<1> QED BY <1>1, <1>2, FollowsMoves

LEMMA AuthorizedAccounted ==
    ASSUME NEW s, AtRest(s), s.task.step \in {"authorize", "recheck"}, NEW outcome
    PROVE  AtRest(Authorized(s, outcome)) /\ Steady(s, Authorized(s, outcome))
<1> DEFINE next == IF s.task.step = "authorize" THEN "admitted" ELSE "cleared"
<1> DEFINE k == [s.task EXCEPT !.step = next]
<1>1. PICK e \in {0, 1} : e = 0
  OBVIOUS
<1>2. Accounted(s, 0) /\ Follows(s, s)
  BY DEF AtRest, Follows, Trails, HeldIn
<1>3. AtRest(EndTask(AttemptFailed(s))) /\ Steady(s, EndTask(AttemptFailed(s)))
  BY <1>2, AttemptFailedAccounted, EndedMoves
<1>4. AtRest(EndTask(Fail(s))) /\ Steady(s, EndTask(Fail(s)))
  BY <1>2, FailAccounted, EndedMoves
<1>5. AtRest(EndTask(Notice(s))) /\ Steady(s, EndTask(Notice(s)))
  BY <1>1, <1>2, NoticeAccounted, EndedMoves
<1>6. AtRest([s EXCEPT !.task = k]) /\ Steady(s, [s EXCEPT !.task = k])
  <2>1. /\ s.task \in TaskType /\ s.phase \notin Delivering
        /\ s.task.step = "authorize" => s.attempts > 0
        /\ s.task.step = "recheck" => s.task.revision >= s.lastDelivered
        /\ s.lastDelivered \in Int
    BY <1>2, DeliveredInt DEF Accounted, Ok, Typed, Resumable
  <2>2. /\ k \in TaskType /\ k.step = next /\ k.revision = s.task.revision
        /\ k.fresh = s.task.fresh /\ k.boundary = s.task.boundary
    BY <2>1 DEF TaskType, Steps
  <2> DEFINE t == [s EXCEPT !.task = k]
  <2> HIDE DEF k
  <2>3. Accounted(t, 0) /\ t.task = k /\ Keeps(t, s)
    BY <1>2, <2>1, <2>2, RetaskAccounted
  <2> HIDE DEF t
  <2>4. AtRest(t) /\ Steady(s, t)
    BY <2>1, <2>2, <2>3 DEF AtRest, Steady, Moves, Keeps, HeldIn
  <2> QED BY <2>4 DEF t
<1>7. CanDeliver(s) => Notice(s) = s
  BY DEF CanDeliver, Notice
<1>8. \/ Authorized(s, outcome) = EndTask(AttemptFailed(s))
      \/ Authorized(s, outcome) = EndTask(Fail(s))
      \/ Authorized(s, outcome) = EndTask(Notice(s))
      \/ CanDeliver(s) /\ Authorized(s, outcome) = EndTask(Fail(Notice(s)))
      \/ CanDeliver(s) /\ Authorized(s, outcome) = [Notice(s) EXCEPT !.task.step = next]
  BY DEF Authorized
<1>9. [s EXCEPT !.task.step = next] = [s EXCEPT !.task = k]
  OBVIOUS
<1> HIDE DEF k, next
<1>10. CASE CanDeliver(s) /\ Authorized(s, outcome) = EndTask(Fail(Notice(s)))
  BY <1>4, <1>7, <1>10
<1>11. CASE CanDeliver(s) /\ Authorized(s, outcome) = [Notice(s) EXCEPT !.task.step = next]
  BY <1>6, <1>7, <1>9, <1>11
<1> QED BY <1>3, <1>4, <1>5, <1>8, <1>10, <1>11

\* Nothing is in flight or captured; what the coroutine relies on is left open.
Quieted(s) ==
    /\ Ok(s)
    /\ s.frames = Holding(s) + 0
    /\ s.inFlight = NoFrame
    /\ Rising(s.queue, s.tail)
    /\ s.phase \notin Capturing

\* The connection of an attempt that is about to end may be torn down.
LEMMA QuietedNotice ==
    ASSUME NEW s, Quieted(s)
    PROVE  /\ Quieted(Notice(s)) /\ HeldIn(s, Notice(s))
           /\ Notice(s).lastDelivered = s.lastDelivered /\ Notice(s).acked = s.acked
<1>1. CASE s.host # "stalled"
  BY <1>1 DEF Notice, HeldIn
<1>2. CASE s.host = "stalled"
  <2> DEFINE i == Invalidate(s)
  <2> DEFINE z == [i EXCEPT !.phase = "terminated", !.public = "closed",
                            !.registered = FALSE]
  <2> DEFINE d == IF s.held THEN Dispose(s) ELSE s
  <2> DEFINE t == [d EXCEPT !.held = FALSE, !.host = "closed"]
  <2>1. Notice(s) = t
    BY <1>2 DEF Notice, Teardown
  <2>2. d = s \/ d = z
    BY DEF Dispose
  <2>3. PICK e \in {0, 1} : e = 0
    OBVIOUS
  <2>4. /\ Ok(i) /\ i.queue = <<>> /\ i.inFlight = NoFrame /\ i.frames = e
        /\ i.lastDelivered = s.lastDelivered /\ i.acked = s.acked
    BY <2>3, InvalidateEmpties DEF Quieted
  <2> HIDE DEF i
  <2>5. IsRec(z)
    BY <2>4 DEF Ok, IsRec
  <2>6. /\ Typed(z) /\ z.phase = "terminated" /\ z.queue = <<>> /\ z.inFlight = NoFrame
        /\ z.frames = e /\ z.lastDelivered = s.lastDelivered /\ z.acked = s.acked
    BY <2>4 DEF Ok, IsRec, Fields, Typed, Phases, PublicStates
  <2> HIDE DEF z
  <2>7. Quieted(z)
    <3>1. Len(z.queue) = 0
      BY <2>6, EmptySeq
    <3>2. z.frames = Holding(z) + 0 /\ Rising(z.queue, z.tail)
      BY <2>3, <2>6, <3>1 DEF Holding, Outstanding, Rising
    <3> QED BY <2>5, <2>6, <3>2 DEF Quieted, Ok, Capturing
  <2>8. Quieted(d) /\ d.lastDelivered = s.lastDelivered /\ d.acked = s.acked
    BY <2>2, <2>6, <2>7
  <2> HIDE DEF d
  <2>9. IsRec(t)
    BY <2>8 DEF Quieted, Ok, IsRec
  <2>10. /\ Typed(t) /\ ~t.held /\ t.phase = d.phase /\ t.queue = d.queue
         /\ t.inFlight = d.inFlight /\ t.frames = d.frames /\ t.tail = d.tail
         /\ t.lastDelivered = d.lastDelivered /\ t.acked = d.acked
    BY <2>8 DEF Quieted, Ok, IsRec, Fields, Typed
  <2> HIDE DEF t
  <2>11. Quieted(t)
    BY <2>8, <2>9, <2>10 DEF Quieted, Ok, Holding, Outstanding
  <2> QED BY <2>1, <2>8, <2>10, <2>11 DEF HeldIn
<1> QED BY <1>1, <1>2

LEMMA QuietedEnds ==
    ASSUME NEW s, Quieted(s)
    PROVE  /\ AtRest(EndTask(s)) /\ Keeps(EndTask(s), s) /\ ~EndTask(s).task.fresh
<1> DEFINE t == [s EXCEPT !.task = NoTask]
<1>1. IsRec(t)
  BY DEF Quieted, Ok, IsRec
<1>2. /\ Typed(t) /\ t.task = NoTask /\ Keeps(t, s) /\ t.queue = s.queue
      /\ t.inFlight = s.inFlight /\ t.frames = s.frames /\ t.tail = s.tail
  BY NullsTyped DEF Quieted, Ok, IsRec, Fields, Typed, Keeps
<1>3. ~NoTask.fresh /\ NoTask.step = "none"
  BY DEF NoTask
<1>4. EndTask(s) = t
  BY DEF EndTask
<1> HIDE DEF t
<1>5. s.phase \notin Delivering
  BY DEF Quieted, Capturing, Delivering
<1>6. AtRest(t)
  BY <1>1, <1>2, <1>3, <1>5
     DEF AtRest, Accounted, Quieted, Ok, Holding, Outstanding, Resumable, Keeps
<1> QED BY <1>2, <1>3, <1>4, <1>6

LEMMA StartCaptureAccounted ==
    ASSUME NEW s, AtRest(s), s.task.step = "admitted", NEW ready \in BOOLEAN
    PROVE  LET t == StartCapture(s, ready)
           IN  /\ AtRest(t) /\ HeldIn(s, t)
               /\ t.lastDelivered = s.lastDelivered
               /\ t.phase \notin Delivering
               /\ t.phase \in Capturing => ready
               /\ t.task.fresh => t.task.step \notin {"recheck", "cleared"}
<1>1. /\ Accounted(s, 0) /\ Ok(s) /\ s.phase \notin Delivering /\ s.inFlight = NoFrame
      /\ s.attempts \in Nat /\ s.attempts > 0
  BY DEF AtRest, Accounted, Resumable, Ok, Typed
<1>2. CASE ~ready
  <2> DEFINE n == s.attempts - 1
  <2> DEFINE b == [s EXCEPT !.attempts = n, !.phase = "waiting-source"]
  <2> DEFINE u == [b EXCEPT !.public = "stale"]
  <2>1. StartCapture(s, ready) = EndTask(Notice(u))
    BY <1>2 DEF StartCapture, SendState
  <2>2. n \in Nat
    BY <1>1
  <2> HIDE DEF n
  <2>3. IsRec(b)
    BY <1>1 DEF Ok, IsRec
  <2>4. /\ Typed(b) /\ b.phase = "waiting-source" /\ b.held = s.held
        /\ b.registered = s.registered /\ b.lastDelivered = s.lastDelivered
        /\ b.queue = s.queue /\ b.inFlight = s.inFlight /\ b.frames = s.frames
        /\ b.tail = s.tail
    BY <1>1, <2>2 DEF Ok, IsRec, Fields, Typed, Phases
  <2> HIDE DEF b
  <2>5. IsRec(u)
    BY <2>3 DEF IsRec
  <2>6. /\ Typed(u) /\ u.phase = "waiting-source" /\ u.held = b.held
        /\ u.registered = b.registered /\ u.lastDelivered = b.lastDelivered
        /\ u.queue = b.queue /\ u.inFlight = b.inFlight /\ u.frames = b.frames
        /\ u.tail = b.tail
    BY <2>3, <2>4 DEF IsRec, Fields, Typed, PublicStates
  <2> HIDE DEF u
  <2>7. Quieted(u)
    BY <1>1, <2>4, <2>5, <2>6 DEF Quieted, Accounted, Ok, Holding, Outstanding, Capturing
  <2>8. /\ Quieted(Notice(u)) /\ HeldIn(u, Notice(u))
        /\ Notice(u).lastDelivered = u.lastDelivered
    BY <2>7, QuietedNotice
  <2> DEFINE t == EndTask(Notice(u))
  <2>9. AtRest(t) /\ Keeps(t, Notice(u)) /\ ~t.task.fresh
    BY <2>8, QuietedEnds
  <2> HIDE DEF t
  <2>10. t.phase \notin Capturing /\ t.phase \notin Delivering
    BY <2>8, <2>9 DEF Quieted, Keeps, Capturing, Delivering
  <2>11. HeldIn(s, t) /\ t.lastDelivered = s.lastDelivered
    BY <2>4, <2>6, <2>8, <2>9 DEF HeldIn, Keeps
  <2> QED BY <2>1, <2>9, <2>10, <2>11 DEF t
<1>3. CASE ready
  <2> DEFINE b == [s EXCEPT !.sequence = 0]
  <2> DEFINE x == SendState(b, "synchronizing")
  <2> DEFINE k == [x.task EXCEPT !.step = "acquire"]
  <2> DEFINE t == [x EXCEPT !.phase = "capturing", !.routed = TRUE, !.task = k]
  <2>1. StartCapture(s, ready) = [x EXCEPT !.phase = "capturing", !.routed = TRUE,
                                           !.task.step = "acquire"]
    BY <1>3 DEF StartCapture
  <2>2. IsRec(b)
    BY <1>1 DEF Ok, IsRec
  <2>3. Typed(b) /\ SameFrames(b, s) /\ b.held = s.held /\ b.registered = s.registered
        /\ b.acked = s.acked
    <3>1. 0 \in Nat
      OBVIOUS
    <3> QED BY <1>1, <3>1 DEF Ok, IsRec, Fields, Typed, SameFrames
  <2> HIDE DEF b
  <2>4. PICK e \in {0, 1} : e = 0
    OBVIOUS
  <2>5. PICK synchronizing \in PublicStates : synchronizing = "synchronizing"
    BY DEF PublicStates
  <2>6. Accounted(b, e)
    BY <1>1, <2>2, <2>3, <2>4, SameAccounted DEF Ok
  <2>7. Accounted(x, 0) /\ Follows(b, x)
    BY <2>4, <2>5, <2>6, SendStateAccounted
  <2> HIDE DEF x
  <2>8. k \in TaskType /\ k.step = "acquire"
    BY <2>7 DEF Accounted, Ok, Typed, TaskType, Steps
  <2>9. [x EXCEPT !.phase = "capturing", !.routed = TRUE, !.task.step = "acquire"] = t
    BY <2>7 DEF Accounted, Ok, IsRec, Fields
  <2> HIDE DEF k
  <2>10. IsRec(t)
    BY <2>7 DEF Accounted, Ok, IsRec
  <2>11. /\ Typed(t) /\ t.phase = "capturing" /\ t.task = k /\ t.held = x.held
         /\ t.registered = x.registered /\ t.lastDelivered = x.lastDelivered
         /\ t.queue = x.queue /\ t.inFlight = x.inFlight /\ t.frames = x.frames
         /\ t.tail = x.tail
    BY <2>7, <2>8 DEF Accounted, Ok, IsRec, Fields, Typed, Phases
  <2> HIDE DEF t
  <2>12. x.phase \notin Delivering /\ t.phase \notin Delivering
    BY <1>1, <2>3, <2>7, <2>11 DEF Follows, Trails, SameFrames, Delivering
  <2>13. AtRest(t)
    BY <2>7, <2>8, <2>10, <2>11, <2>12
       DEF AtRest, Accounted, Ok, Holding, Outstanding, Resumable
  <2>14. HeldIn(s, t) /\ t.lastDelivered = s.lastDelivered
    BY <2>3, <2>7, <2>11 DEF Follows, Trails, HeldIn, SameFrames
  <2> QED BY <1>3, <2>1, <2>8, <2>9, <2>11, <2>12, <2>13, <2>14
<1> QED BY <1>2, <1>3

LEMMA SnapshotAnsweredAccounted ==
    ASSUME NEW s, AtRest(s), s.task.step = "snapshot",
           NEW revision \in Revisions, NEW inForce, NEW ack \in Boundaries
    PROVE  LET t == SnapshotAnswered(s, inForce, revision, ack)
           IN  /\ AtRest(t) /\ t.lastDelivered = s.lastDelivered
               /\ \/ Moves(s, t)
                  \/ /\ t.phase = s.phase /\ t.phase \notin Delivering
                     /\ t.acked = s.task.boundary
                     /\ t.task.boundary = s.task.boundary
                     /\ HeldIn(s, t)
<1> DEFINE k == [s.task EXCEPT !.step = "recheck", !.revoked = FALSE, !.revision = revision]
<1> DEFINE b == [s EXCEPT !.acked = ack]
<1> DEFINE t == [b EXCEPT !.task = k]
<1>1. /\ Accounted(s, 0) /\ Follows(s, s) /\ s.phase \notin Delivering
      /\ s.task \in TaskType /\ s.lastDelivered \in Revisions
  BY DEF AtRest, Accounted, Resumable, Ok, Typed, Follows, Trails, HeldIn
<1>2. /\ AtRest(EndTask(AttemptFailed(s))) /\ Moves(s, EndTask(AttemptFailed(s)))
      /\ EndTask(AttemptFailed(s)).lastDelivered = s.lastDelivered
  BY <1>1, AttemptFailedAccounted, EndedMoves DEF Steady, Follows, Trails
<1>3. /\ AtRest(EndTask(Fail(s))) /\ Moves(s, EndTask(Fail(s)))
      /\ EndTask(Fail(s)).lastDelivered = s.lastDelivered
  BY <1>1, FailAccounted, EndedMoves DEF Steady, Follows, Trails
<1>4. /\ k \in TaskType /\ k.step = "recheck" /\ k.revision = revision
      /\ k.boundary = s.task.boundary
  BY <1>1 DEF TaskType, Steps
<1>5. [s EXCEPT !.acked = ack, !.task.step = "recheck", !.task.revoked = FALSE,
                !.task.revision = revision] = t
  BY <1>1 DEF Accounted, Ok, IsRec, Fields
<1>6. IsRec(b)
  BY <1>1 DEF Accounted, Ok, IsRec
<1>7. /\ Typed(b) /\ SameFrames(b, s) /\ b.acked = ack /\ b.held = s.held
      /\ b.registered = s.registered
  BY <1>1 DEF Accounted, Ok, IsRec, Fields, Typed, SameFrames
<1> HIDE DEF k, b
<1>8. Accounted(b, 0)
  BY <1>1, <1>6, <1>7, SameAccounted DEF Ok
<1>9. CASE /\ ~(s.task.boundary = 0 /\ ack # 0)
           /\ ~(s.task.boundary # 0 /\ (ack # s.task.boundary \/ inForce # s.task.boundary))
           /\ ~(s.lastDelivered # 0 /\ revision < s.lastDelivered)
  <2>1. SnapshotAnswered(s, inForce, revision, ack) = t
    BY <1>5, <1>9 DEF SnapshotAnswered
  <2>2. ack = s.task.boundary
    BY <1>9
  <2>3. revision >= s.lastDelivered
    BY <1>1, <1>9 DEF Revisions
  <2>4. Accounted(t, 0) /\ t.task = k /\ Keeps(t, b)
    BY <1>1, <1>4, <1>7, <1>8, <2>3, RetaskAccounted DEF SameFrames
  <2> HIDE DEF t
  <2> QED BY <1>1, <1>4, <1>7, <2>1, <2>2, <2>4 DEF AtRest, Keeps, SameFrames, HeldIn
<1>10. CASE \/ s.task.boundary = 0 /\ ack # 0
            \/ s.task.boundary # 0 /\ (ack # s.task.boundary \/ inForce # s.task.boundary)
            \/ s.lastDelivered # 0 /\ revision < s.lastDelivered
  <2>1. SnapshotAnswered(s, inForce, revision, ack) \in
           {EndTask(AttemptFailed(s)), EndTask(Fail(s))}
    BY <1>10 DEF SnapshotAnswered
  <2> QED BY <1>2, <1>3, <2>1
<1> QED BY <1>9, <1>10

LEMMA SendSnapshotAccounted ==
    ASSUME NEW s, AtRest(s), s.task.step = "cleared",
           NEW inForce, NEW fits, NEW room
    PROVE  LET t == SendSnapshot(s, inForce, fits, room)
           IN  /\ AtRest(t) /\ t.lastDelivered = s.lastDelivered /\ t.acked = s.acked
               /\ HeldIn(s, t) /\ ~t.task.fresh
               /\ t.phase \in Delivering => inForce = s.task.boundary
<1> DEFINE v == s.task.revision
<1> DEFINE r == Reserve(s)
<1> DEFINE m == Max2(r.tail, v)
<1> DEFINE t == [r EXCEPT !.snapshotRevision = v, !.tail = m, !.phase = "snapshot-sent"]
<1> DEFINE x == Transmit(t, v)
<1>1. /\ Accounted(s, 0) /\ Follows(s, s) /\ s.phase \notin Delivering
      /\ s.inFlight = NoFrame /\ Ok(s) /\ s.task \in TaskType
      /\ v >= s.lastDelivered
  BY DEF AtRest, Accounted, Resumable, Ok, Typed, Follows, Trails, HeldIn
<1>2. ASSUME NEW f, Accounted(f, 0), Follows(s, f)
      PROVE  /\ AtRest(EndTask(f)) /\ EndTask(f).lastDelivered = s.lastDelivered
             /\ EndTask(f).acked = s.acked /\ HeldIn(s, EndTask(f))
             /\ ~EndTask(f).task.fresh /\ EndTask(f).phase \notin Delivering
  <2>1. AtRest(EndTask(f)) /\ Follows(s, EndTask(f))
    BY <1>2, EndedMoves
  <2>2. ~EndTask(f).task.fresh
    BY <1>2 DEF EndTask, NoTask, Accounted, Ok, IsRec, Fields
  <2> QED BY <1>1, <2>1, <2>2 DEF Follows, Trails
<1>3. \/ SendSnapshot(s, inForce, fits, room) = EndTask(AttemptFailed(s))
      \/ SendSnapshot(s, inForce, fits, room) = EndTask(Fail(s))
      \/ inForce = s.task.boundary /\ SendSnapshot(s, inForce, fits, room) = EndTask(x)
  BY DEF SendSnapshot
<1>4. v \in Revisions /\ v \in Int /\ s.tail \in Revisions /\ s.tail \in Int
      /\ s.lastDelivered \in Int /\ 0 <= v
  <2>1. v \in Revisions /\ s.tail \in Revisions
    BY <1>1 DEF TaskType, Ok, Typed
  <2> QED BY <1>1, <2>1, DeliveredInt DEF Revisions
<1>5. /\ Ok(r) /\ r.frames = s.frames + 1 /\ s.frames \in Nat
      /\ r.registered = s.registered /\ r.acked = s.acked
  <2>1. Ok(r) /\ s.frames \in Nat
    BY <1>1, ReserveSame DEF Ok, Typed
  <2>2. r.frames = s.frames + 1 /\ r.registered = s.registered /\ r.acked = s.acked
    BY <1>1 DEF Reserve, Ok, IsRec, Fields
  <2> QED BY <2>1, <2>2
<1>6. /\ r.inFlight = s.inFlight /\ r.queue = s.queue /\ r.tail = s.tail
      /\ r.lastDelivered = s.lastDelivered
      /\ r.held = s.held /\ r.attempts = s.attempts /\ r.task = s.task
  BY <1>1, ReserveSame DEF Same
<1>7. m \in Revisions /\ m \in Int /\ m >= v /\ m >= s.tail
  BY <1>4, <1>6 DEF Max2
<1> HIDE DEF v, r, m
<1>8. IsRec(t)
  BY <1>5 DEF Ok, IsRec
<1>9. Typed(t) /\ t.phase = "snapshot-sent" /\ t.snapshotRevision = v /\ t.tail = m
  BY <1>4, <1>5, <1>7 DEF Ok, IsRec, Fields, Typed, Phases
<1>10. /\ t.inFlight = s.inFlight /\ t.queue = s.queue
       /\ t.lastDelivered = s.lastDelivered /\ t.acked = s.acked
       /\ t.held = s.held /\ t.registered = s.registered
       /\ t.attempts = s.attempts /\ t.task = s.task /\ t.frames = s.frames + 1
  BY <1>5, <1>6 DEF Ok, IsRec, Fields
<1> HIDE DEF t
<1>11. Rising(t.queue, m)
  <2>1. Rising(s.queue, s.tail)
    BY <1>1 DEF Accounted
  <2>2. \A i \in 1..Len(s.queue) : s.queue[i] \in Int
    BY <1>1, DeliveredInt
  <2> QED BY <1>4, <1>7, <1>10, <2>1, <2>2 DEF Rising
<1>12. Forward(t)
  <2>1. t.inFlight = NoFrame /\ t.inFlight.revision = 0
    BY <1>1, <1>10 DEF NoFrame
  <2>2. t.lastDelivered <= m /\ 0 <= m /\ v >= t.lastDelivered
    BY <1>1, <1>4, <1>7, <1>10 DEF v
  <2> QED BY <1>9, <2>1, <2>2 DEF Forward
<1>13. t.frames = Holding(t) + 1
  <2>1. s.frames = Holding(s) + 0 /\ Holding(s) \in Nat
    BY <1>1, HoldingNat DEF Accounted
  <2>2. Holding(t) = Holding(s)
    BY <1>10 DEF Holding, Outstanding
  <2> QED BY <1>10, <2>1, <2>2
<1>14. Accounted(t, 1)
  BY <1>1, <1>8, <1>9, <1>10, <1>11, <1>12, <1>13
     DEF Accounted, Ok, Resumable, Delivering
<1>15. Accounted(x, 0) /\ Follows(t, x)
  <2>1. t.phase \in Delivering /\ t.inFlight = NoFrame
    BY <1>1, <1>9, <1>10 DEF Delivering
  <2>2. v >= t.lastDelivered /\ v <= t.tail
    BY <1>1, <1>4, <1>7, <1>9, <1>10 DEF v
  <2> QED BY <1>4, <1>9, <1>14, <2>1, <2>2, TransmitAccounted
<1>16. HeldIn(s, x) /\ x.lastDelivered = s.lastDelivered /\ x.acked = s.acked
  BY <1>10, <1>15 DEF Follows, Trails, HeldIn
<1> HIDE DEF x
<1>17. /\ Accounted(EndTask(x), 0) /\ Follows(x, EndTask(x))
       /\ EndTask(x).task = NoTask
  <2>1. EndTask(x).task = NoTask
    BY <1>15 DEF EndTask, Accounted, Ok, IsRec, Fields
  <2> QED BY <1>15, <2>1, EndTaskAccounted
<1>18. /\ AtRest(EndTask(x)) /\ EndTask(x).lastDelivered = s.lastDelivered
       /\ EndTask(x).acked = s.acked /\ HeldIn(s, EndTask(x)) /\ ~EndTask(x).task.fresh
  BY <1>16, <1>17 DEF AtRest, Follows, Trails, HeldIn, NoTask
<1>19. CASE SendSnapshot(s, inForce, fits, room) = EndTask(AttemptFailed(s))
  BY <1>1, <1>2, <1>19, AttemptFailedAccounted
<1>20. CASE SendSnapshot(s, inForce, fits, room) = EndTask(Fail(s))
  BY <1>1, <1>2, <1>20, FailAccounted
<1>21. CASE inForce = s.task.boundary /\ SendSnapshot(s, inForce, fits, room) = EndTask(x)
  BY <1>18, <1>21
<1> QED BY <1>3, <1>19, <1>20, <1>21

-----------------------------------------------------------------------------
(* Steps that only touch what surrounds the frames.                        *)

LEMMA StartAccounted ==
    ASSUME NEW s, Accounted(s, 0)
    PROVE  LET t == BeginAttempt([s EXCEPT !.registered = TRUE, !.held = TRUE], FALSE)
           IN  Accounted(t, 0) /\ Follows(s, t)
<1> DEFINE z == [s EXCEPT !.registered = TRUE, !.held = TRUE]
<1> DEFINE t == BeginAttempt(z, FALSE)
<1>1. IsRec(z)
  BY DEF Accounted, Ok, IsRec
<1>2. Typed(z) /\ SameFrames(z, s) /\ z.acked = s.acked /\ z.registered
  BY DEF Accounted, Ok, IsRec, Fields, Typed, SameFrames
<1> HIDE DEF z
<1>3. Accounted(z, 0)
  BY <1>1, <1>2, SameAccounted DEF Ok
<1>4. Follows(s, z)
  BY <1>2 DEF Follows, Trails, HeldIn, SameFrames
<1>5. Accounted(t, 0) /\ Follows(z, t)
  BY <1>3, BeginAttemptAccounted DEF Accounted
<1> QED BY <1>4, <1>5, FollowsOn DEF z

LEMMA RetryAccounted ==
    ASSUME NEW s, Accounted(s, 0)
    PROVE  LET z == [s EXCEPT !.timer = "none"]
           IN  /\ Accounted(z, 0) /\ Follows(s, z)
               /\ Accounted(BeginAttempt(z, TRUE), 0) /\ Follows(s, BeginAttempt(z, TRUE))
<1> DEFINE z == [s EXCEPT !.timer = "none"]
<1>1. IsRec(z)
  BY DEF Accounted, Ok, IsRec
<1>2. /\ Typed(z) /\ SameFrames(z, s) /\ z.acked = s.acked
      /\ z.held = s.held /\ z.registered = s.registered
  BY DEF Accounted, Ok, IsRec, Fields, Typed, SameFrames
<1> HIDE DEF z
<1>3. Accounted(z, 0)
  BY <1>1, <1>2, SameAccounted DEF Ok
<1>4. Follows(s, z)
  BY <1>2 DEF Follows, Trails, HeldIn, SameFrames
<1>5. Accounted(BeginAttempt(z, TRUE), 0) /\ Follows(z, BeginAttempt(z, TRUE))
  BY <1>3, BeginAttemptAccounted DEF Accounted
<1> QED BY <1>3, <1>4, <1>5, FollowsOn DEF z

LEMMA HostAccounted ==
    ASSUME NEW s, Accounted(s, 0), NEW host \in {"open", "stalled", "expired"}
    PROVE  LET t == [s EXCEPT !.host = host] IN Accounted(t, 0) /\ Follows(s, t)
<1> DEFINE t == [s EXCEPT !.host = host]
<1>1. IsRec(t)
  BY DEF Accounted, Ok, IsRec
<1>2. /\ Typed(t) /\ SameFrames(t, s) /\ t.acked = s.acked
      /\ t.held = s.held /\ t.registered = s.registered
  BY DEF Accounted, Ok, IsRec, Fields, Typed, SameFrames
<1> HIDE DEF t
<1>3. Accounted(t, 0)
  BY <1>1, <1>2, SameAccounted DEF Ok
<1>4. Follows(s, t)
  BY <1>2 DEF Follows, Trails, HeldIn, SameFrames
<1> QED BY <1>3, <1>4 DEF t

LEMMA UnsubscribeAccounted ==
    ASSUME NEW s, Accounted(s, 0)
    PROVE  LET t == [Dispose(s) EXCEPT !.held = FALSE] IN Accounted(t, 0) /\ Follows(s, t)
<1> DEFINE d == Dispose(s)
<1> DEFINE t == [d EXCEPT !.held = FALSE]
<1>1. PICK e \in {0, 1} : e = 0
  OBVIOUS
<1>2. Accounted(d, e) /\ Trails(s, d)
  BY <1>1, DisposeAccounted
<1> HIDE DEF d
<1>3. IsRec(t)
  BY <1>2 DEF Accounted, Ok, IsRec
<1>4. Typed(t) /\ SameFrames(t, d) /\ t.acked = d.acked /\ ~t.held
  BY <1>2 DEF Accounted, Ok, IsRec, Fields, Typed, SameFrames
<1> HIDE DEF t
<1>5. Accounted(t, e)
  BY <1>2, <1>3, <1>4, SameAccounted DEF Ok
<1>6. Follows(s, t)
  BY <1>2, <1>4 DEF Follows, Trails, HeldIn, SameFrames
<1> QED BY <1>1, <1>5, <1>6 DEF t, d

LEMMA RevokeAccounted ==
    ASSUME NEW s, AtRest(s), NEW revoked \in BOOLEAN
    PROVE  LET r == [s EXCEPT !.task.revoked = revoked]
               t == IF s.held THEN Fail(r) ELSE r
           IN  AtRest(t) /\ Steady(s, t)
<1> DEFINE k == [s.task EXCEPT !.revoked = revoked]
<1> DEFINE r == [s EXCEPT !.task = k]
<1>1. Accounted(s, 0) /\ s.task \in TaskType /\ s.lastDelivered \in Int
  BY DeliveredInt DEF AtRest, Accounted, Ok, Typed
<1>2. /\ k \in TaskType /\ k.step = s.task.step /\ k.fresh = s.task.fresh
      /\ k.boundary = s.task.boundary /\ k.revision = s.task.revision
  BY <1>1 DEF TaskType
<1>3. [s EXCEPT !.task.revoked = revoked] = r
  OBVIOUS
<1> HIDE DEF k
<1>4. Accounted(r, 0) /\ r.task = k /\ Keeps(r, s)
  BY <1>1, <1>2, RetaskAccounted DEF Accounted, Resumable
<1> HIDE DEF r
<1>5. AtRest(r) /\ Steady(s, r)
  BY <1>1, <1>2, <1>4 DEF AtRest, Steady, Moves, Keeps, HeldIn
<1>6. AtRest(Fail(r)) /\ Steady(r, Fail(r)) /\ Follows(r, Fail(r))
  BY <1>4, <1>5, FailAccounted, FollowsMoves
<1>7. Steady(s, Fail(r))
  BY <1>5, <1>6 DEF Steady, Moves, HeldIn, Follows, Trails
<1> QED BY <1>3, <1>5, <1>6, <1>7

-----------------------------------------------------------------------------
(* The inductive step, for any events in the microtask gap and any snapshot. *)

Raced == AtRest(sub) /\ Surroundings

LEMMA RaceInit == Init => Raced
<1> SUFFICES ASSUME Init PROVE Raced
  OBVIOUS
<1>1. IInv
  BY InitGood
<1>2. Ok(sub) /\ Surroundings
  BY <1>1, IInvIsGood DEF Good, Surroundings
<1>3. /\ sub.queue = <<>> /\ sub.inFlight = NoFrame /\ sub.frames = 0
      /\ sub.phase = "idle" /\ sub.task.step = "none"
  BY DEF Init, NoTask
<1>4. PICK e \in {0, 1} : e = 0
  OBVIOUS
<1>5. Accounted(sub, e)
  BY <1>2, <1>3, <1>4, VoidAccounted DEF Void, Delivering
<1> QED BY <1>2, <1>3, <1>4, <1>5 DEF Raced, AtRest

LEMMA RaceStep ==
    ASSUME Raced, [Next]_vars
    PROVE  /\ AtRest(sub')
           /\ Admitted \/ SnapshotReturns \/ Cleared \/ Moves(sub, sub')
           /\ sub'.lastDelivered >= sub.lastDelivered
           /\ ~Receipt => sub'.lastDelivered = sub.lastDelivered
<1>0. /\ AtRest(sub) /\ Accounted(sub, 0) /\ Follows(sub, sub) /\ source \in SourceType
      /\ domain \in 1..MaxRevision /\ sub.task \in TaskType /\ sub.lastDelivered \in Int
  BY DeliveredInt DEF Raced, Surroundings, AtRest, Accounted, Ok, Typed, Follows, Trails,
     HeldIn
<1>a. ASSUME AtRest(sub'), Steady(sub, sub')
      PROVE  /\ AtRest(sub')
             /\ Admitted \/ SnapshotReturns \/ Cleared \/ Moves(sub, sub')
             /\ sub'.lastDelivered >= sub.lastDelivered
             /\ ~Receipt => sub'.lastDelivered = sub.lastDelivered
  BY <1>0, <1>a DEF Steady
<1>b. ASSUME Accounted(sub', 0), Follows(sub, sub')
      PROVE  AtRest(sub') /\ Steady(sub, sub')
  BY <1>0, <1>b, FollowsMoves
<1>c. ASSUME NEW t, Accounted(t, 0), Follows(sub, t), sub' = EndTask(t)
      PROVE  AtRest(sub') /\ Steady(sub, sub')
  BY <1>0, <1>c, EndedMoves
<1>d. PICK e \in {0, 1} : e = 0
  OBVIOUS
<1>1. CASE Start
  BY <1>0, <1>1, <1>a, <1>b, StartAccounted DEF Start
<1>2. CASE AuthorizeReturns
  <2>1. AtRest(EndTask(sub)) /\ Steady(sub, EndTask(sub))
    BY <1>0, EndedMoves
  <2> QED BY <1>0, <1>2, <1>a, <2>1, AuthorizedAccounted DEF AuthorizeReturns
<1>3. CASE Admitted
  <2>1. source.ready \in BOOLEAN
    BY <1>0 DEF SourceType
  <2>2. AtRest(sub') /\ sub'.lastDelivered = sub.lastDelivered
    BY <1>0, <1>3, <2>1, StartCaptureAccounted DEF Admitted
  <2> QED BY <1>0, <1>3, <2>2
<1>4. CASE SnapshotAdmission
  <2> DEFINE k == [sub.task EXCEPT !.step = "snapshot", !.floor = domain,
                                   !.boundary = source.boundary]
  <2>1. \/ sub' = EndTask(sub)
        \/ sub' = EndTask(AttemptFailed(sub))
        \/ sub' = [sub EXCEPT !.task = k]
    BY <1>4 DEF SnapshotAdmission
  <2>2. CASE sub' = [sub EXCEPT !.task = k]
    <3>1. domain \in Revisions /\ source.boundary \in Boundaries
      BY <1>0, BoundsAssumption DEF Revisions, SourceType
    <3>2. k \in TaskType /\ k.step = "snapshot"
      BY <1>0, <3>1 DEF TaskType, Steps
    <3>3. sub.phase \notin Delivering
      BY <1>0, <1>4 DEF Accounted, Resumable, SnapshotAdmission
    <3> HIDE DEF k
    <3>4. Accounted(sub', 0) /\ sub'.task = k /\ Keeps(sub', sub)
      BY <1>0, <2>2, <3>2, <3>3, RetaskAccounted
    <3>5. AtRest(sub') /\ Steady(sub, sub')
      BY <1>0, <3>2, <3>4 DEF AtRest, Steady, Moves, Keeps, HeldIn
    <3> QED BY <1>a, <3>5
  <2>3. AtRest(EndTask(AttemptFailed(sub))) /\ Steady(sub, EndTask(AttemptFailed(sub)))
    BY <1>0, AttemptFailedAccounted, EndedMoves
  <2> QED BY <1>0, <1>a, <1>c, <2>1, <2>2, <2>3
<1>5. CASE SnapshotFails
  <2>1. \/ sub' = EndTask(sub)
        \/ sub' = EndTask(AttemptFailed(sub))
        \/ sub' = EndTask(Fail(sub))
    BY <1>5 DEF SnapshotFails
  <2> QED BY <1>0, <1>a, <1>c, <2>1, AttemptFailedAccounted, FailAccounted
<1>6. CASE SnapshotReturns
  <2>1. PICK revision \in 0..domain, ack \in Boundaries :
           \/ sub' = SnapshotAnswered(sub, source.boundary, revision, ack)
           \/ sub' = EndTask(sub)
    <3>1. sub.task.floor \in Nat
      BY <1>0, BoundsAssumption DEF TaskType, Revisions
    <3> QED BY <1>0, <1>6, <3>1 DEF SnapshotReturns
  <2>2. revision \in Revisions
    BY <1>0, BoundsAssumption DEF Revisions
  <2>3. CASE sub' = EndTask(sub)
    BY <1>0, <1>a, <1>c, <2>3
  <2>4. CASE sub' = SnapshotAnswered(sub, source.boundary, revision, ack)
    <3>1. AtRest(sub') /\ sub'.lastDelivered = sub.lastDelivered
      BY <1>0, <1>6, <2>2, <2>4, SnapshotAnsweredAccounted DEF SnapshotReturns
    <3> QED BY <1>0, <1>6, <3>1
  <2> QED BY <2>1, <2>3, <2>4
<1>7. CASE Cleared
  <2>1. AtRest(sub') /\ sub'.lastDelivered = sub.lastDelivered
    BY <1>0, <1>7, SendSnapshotAccounted DEF Cleared
  <2> QED BY <1>0, <1>7, <2>1
<1>8. CASE RetryTimer
  <2>1. Accounted(sub', 0) /\ Follows(sub, sub')
    BY <1>0, <1>8, RetryAccounted DEF RetryTimer
  <2> QED BY <1>a, <1>b, <2>1
<1>9. CASE Receipt
  <2>1. sub.task.step # "cleared"
    BY <1>9 DEF Receipt, Quiet, InGap
  <2>2. Accounted(sub', 0) /\ Gains(sub, sub')
    BY <1>0, <1>9, <2>1, OnReceiptAccounted DEF Receipt
  <2> QED BY <1>0, <1>9, <2>2, GainsMoves DEF Gains
<1>10. CASE ReceiptTimer \/ SessionCloses
  <2>1. sub' = Teardown(sub)
    BY <1>10 DEF ReceiptTimer, SessionCloses
  <2> QED BY <1>0, <1>a, <1>b, <1>d, <2>1, TeardownAccounted
<1>11. CASE Resync
  BY <1>0, <1>11, <1>a, <1>b, RequestResyncAccounted DEF Resync
<1>12. CASE Unsubscribe
  BY <1>0, <1>12, <1>a, <1>b, UnsubscribeAccounted DEF Unsubscribe
<1>13. CASE Revoke
  <2> DEFINE revoked == sub.task.step \in {"authorize", "recheck"}
  <2>1. sub' = LET r == [sub EXCEPT !.task.revoked = revoked]
               IN  IF sub.held THEN Fail(r) ELSE r
    BY <1>13 DEF Revoke
  <2>2. revoked \in BOOLEAN
    OBVIOUS
  <2> HIDE DEF revoked
  <2> QED BY <1>0, <1>a, <2>1, <2>2, RevokeAccounted
<1>14. CASE Expires
  BY <1>0, <1>14, <1>a, <1>b, HostAccounted DEF Expires
<1>15. CASE ClientStalls
  <2> DEFINE host == IF sub.host = "open" THEN "stalled" ELSE "open"
  <2>1. sub' = [sub EXCEPT !.host = host] /\ host \in {"open", "stalled", "expired"}
    BY <1>15 DEF ClientStalls
  <2> HIDE DEF host
  <2> QED BY <1>0, <1>a, <1>b, <2>1, HostAccounted
<1>16. CASE RecordAdmitted
  <2>1. PICK revision \in 1..domain, room \in BOOLEAN :
           sub' = IF sub.routed THEN Admit(sub, revision, room) ELSE sub
    BY <1>16 DEF RecordAdmitted
  <2>2. revision \in Revisions /\ revision > 0
    BY <1>0, BoundsAssumption DEF Revisions
  <2> QED BY <1>0, <1>a, <1>b, <2>1, <2>2, AdmitAccounted
<1>17. CASE SourceDown
  BY <1>0, <1>17, <1>a, <1>b, SourceUnavailableAccounted DEF SourceDown
<1>18. CASE SourceUp
  BY <1>0, <1>18, <1>a, <1>b, SourceReadyAccounted DEF SourceUp
<1>19. CASE UNCHANGED sub
  BY <1>0, <1>19, <1>a, <1>b
<1>20. \/ Start \/ AuthorizeReturns \/ Admitted \/ SnapshotAdmission \/ SnapshotFails
       \/ SnapshotReturns \/ Cleared \/ RetryTimer \/ Receipt \/ ReceiptTimer
       \/ SessionCloses \/ Resync \/ Unsubscribe \/ Revoke \/ Expires \/ ClientStalls
       \/ RecordAdmitted \/ SourceDown \/ SourceUp \/ UNCHANGED sub
  BY DEF Next, vars, Attempt, Client, Connection, Environment, DomainWrite, SetBoundary,
     AdvancePast, RetireBoundary
<1> QED
  BY <1>1, <1>2, <1>3, <1>4, <1>5, <1>6, <1>7, <1>8, <1>9, <1>10, <1>11, <1>12, <1>13,
     <1>14, <1>15, <1>16, <1>17, <1>18, <1>19, <1>20

-----------------------------------------------------------------------------
(* Recovery boundaries: what a delivering subscription acknowledged.       *)

\* A subscription captures only while its source is ready, so no offset moves past a
\* record under it; one that is about to deliver acknowledged the boundary in force
\* when its snapshot was read.
Covered ==
    /\ source.boundary <= source.issued
    /\ source.advanced <= source.boundary
    /\ sub.held => sub.registered
    /\ sub.phase \in Capturing => source.ready
    /\ sub.task.fresh /\ sub.task.step \in {"recheck", "cleared"} =>
          sub.acked = sub.task.boundary
    /\ LiveCoversBoundary

LEMMA CoveredInit == Init => Covered
BY DEF Init, Covered, LiveCoversBoundary, Capturing, NoTask

LEMMA CoveredStep ==
    ASSUME GapEvents = {}, Good(sub, 0), Raced, Covered, [Next]_vars
    PROVE  Covered'
<1>0. /\ AtRest(sub) /\ Accounted(sub, 0) /\ source \in SourceType
      /\ domain \in 1..MaxRevision /\ sub.task \in TaskType
  BY DEF Raced, Surroundings, AtRest, Accounted, Ok, Typed
<1>1. /\ source.boundary \in Int /\ source.issued \in Int /\ source.advanced \in Int
      /\ source.ready \in BOOLEAN
  BY <1>0 DEF SourceType, Boundaries
<1>2. /\ LiveCoversBoundary <=> (sub.phase \in Delivering => sub.acked >= source.advanced)
      /\ LiveCoversBoundary' <=>
            (sub'.phase \in Delivering => sub'.acked >= source'.advanced)
  BY DEF LiveCoversBoundary, Delivering
<1>3. CASE Admitted
  <2>1. /\ HeldIn(sub, sub') /\ sub'.phase \notin Delivering
        /\ sub'.phase \in Capturing => source.ready
        /\ sub'.task.fresh => sub'.task.step \notin {"recheck", "cleared"}
    BY <1>0, <1>1, <1>3, StartCaptureAccounted DEF Admitted
  <2>2. UNCHANGED source
    BY <1>3 DEF Admitted
  <2> QED BY <1>2, <2>1, <2>2 DEF Covered, HeldIn
<1>4. CASE Moves(sub, sub') /\ ~SourceDown /\ ~SourceUp /\ ~SetBoundary /\ ~AdvancePast
           /\ ~RetireBoundary
  <2>1. /\ source'.ready = source.ready /\ source'.boundary = source.boundary
        /\ source'.issued = source.issued /\ source'.advanced = source.advanced
    <3>1. CASE Resync
      BY <1>0, <3>1 DEF Resync, SourceType
    <3>2. CASE ~Resync
      BY <1>4, <3>2 DEF Next, vars, Attempt, Client, Connection, Environment,
         AuthorizeReturns, Admitted, SnapshotAdmission, SnapshotFails, SnapshotReturns,
         Cleared, RetryTimer, Start, Receipt, ReceiptTimer, Unsubscribe, Revoke,
         SessionCloses, Expires, ClientStalls, DomainWrite, RecordAdmitted
    <3> QED BY <3>1, <3>2
  <2> QED BY <1>2, <1>4, <2>1 DEF Covered, Moves, HeldIn
<1>5. CASE SnapshotReturns /\ ~Moves(sub, sub')
  <2>1. PICK revision \in 0..domain, ack \in Boundaries :
           \/ sub' = SnapshotAnswered(sub, source.boundary, revision, ack)
           \/ sub' = EndTask(sub)
    <3>1. sub.task.floor \in Nat
      BY <1>0, BoundsAssumption DEF TaskType, Revisions
    <3> QED BY <1>0, <1>5, <3>1 DEF SnapshotReturns
  <2>2. revision \in Revisions
    BY <1>0, BoundsAssumption DEF Revisions
  <2>3. sub' # EndTask(sub)
    <3>1. Follows(sub, sub)
      BY DEF Follows, Trails, HeldIn
    <3> QED BY <1>0, <1>5, <3>1, EndedMoves DEF Steady
  <2>4. /\ sub'.phase = sub.phase /\ sub'.phase \notin Delivering
        /\ sub'.acked = sub.task.boundary /\ sub'.task.boundary = sub.task.boundary
        /\ HeldIn(sub, sub')
    BY <1>0, <1>5, <2>1, <2>2, <2>3, SnapshotAnsweredAccounted DEF SnapshotReturns
  <2>5. UNCHANGED source
    BY <1>5 DEF SnapshotReturns
  <2> QED BY <1>2, <2>4, <2>5 DEF Covered, HeldIn
<1>6. CASE Cleared
  <2>1. /\ sub'.acked = sub.acked /\ HeldIn(sub, sub') /\ ~sub'.task.fresh
        /\ sub'.phase \in Delivering => source.boundary = sub.task.boundary
    BY <1>0, <1>6, SendSnapshotAccounted DEF Cleared
  <2>2. sub.task.fresh /\ sub.task.step = "cleared" /\ sub.phase = "capturing"
    BY <1>6 DEF Cleared, Good, PlacedIn, GapSteps
  <2>3. UNCHANGED source
    BY <1>6 DEF Cleared
  <2>4. sub.acked = sub.task.boundary /\ source.ready
    BY <2>2 DEF Covered, Capturing
  <2> QED BY <1>1, <1>2, <2>1, <2>3, <2>4 DEF Covered, HeldIn
<1>7. CASE SourceDown /\ Moves(sub, sub')
  <2>1. sub'.phase \notin Capturing
    <3>1. CASE sub.registered
      BY <1>0, <1>7, <3>1, SourceUnavailableAccounted DEF SourceDown
    <3>2. CASE ~sub.registered
      BY <1>7, <3>2 DEF SourceDown, Covered, Good, HeldOk, Capturing
    <3> QED BY <3>1, <3>2
  <2>2. /\ source'.boundary = source.boundary
        /\ source'.issued = source.issued /\ source'.advanced = source.advanced
    BY <1>0, <1>7 DEF SourceDown, SourceType
  <2> QED BY <1>2, <1>7, <2>1, <2>2 DEF Covered, Moves, HeldIn
<1>8. CASE SourceUp /\ Moves(sub, sub')
  <2>1. /\ source'.ready /\ source'.boundary = source.boundary
        /\ source'.issued = source.issued /\ source'.advanced = source.advanced
    BY <1>0, <1>8 DEF SourceUp, SourceType
  <2> QED BY <1>2, <1>8, <2>1 DEF Covered, Moves, HeldIn
<1>9. CASE SetBoundary
  <2> DEFINE n == source.issued + 1
  <2>1. source' = [source EXCEPT !.issued = n, !.boundary = n] /\ UNCHANGED sub
    BY <1>9 DEF SetBoundary
  <2>2. source.advanced <= n /\ n <= n
    BY <1>1 DEF Covered
  <2> HIDE DEF n
  <2>3. /\ source'.ready = source.ready /\ source'.boundary = n
        /\ source'.issued = n /\ source'.advanced = source.advanced
    BY <1>0, <2>1 DEF SourceType
  <2> QED BY <1>2, <2>1, <2>2, <2>3 DEF Covered
<1>10. CASE AdvancePast
  <2>1. /\ source'.ready = source.ready /\ source'.boundary = source.boundary
        /\ source'.issued = source.issued /\ source'.advanced = source.boundary
    BY <1>0, <1>10 DEF AdvancePast, SourceType
  <2>2. sub.phase \notin Delivering /\ UNCHANGED sub
    BY <1>10 DEF AdvancePast, Covered, Capturing, Delivering
  <2> QED BY <1>1, <1>2, <2>1, <2>2 DEF Covered
<1>11. CASE RetireBoundary
  <2>1. /\ source'.ready = source.ready /\ source'.boundary = 0
        /\ source'.issued = source.issued /\ source'.advanced = 0 /\ UNCHANGED sub
    BY <1>0, <1>11 DEF RetireBoundary, SourceType
  <2>2. source.issued >= 0 /\ sub.acked >= 0
    BY <1>0 DEF Accounted, Ok, Typed, SourceType, Boundaries
  <2> QED BY <1>2, <2>1, <2>2 DEF Covered
<1>12. Admitted \/ SnapshotReturns \/ Cleared \/ Moves(sub, sub')
  BY RaceStep
<1> QED
  BY <1>3, <1>4, <1>5, <1>6, <1>7, <1>8, <1>9, <1>10, <1>11, <1>12

-----------------------------------------------------------------------------
(* The theorems.                                                           *)

\* Under every race: frames and budget agree, the queue rises, and what is kept or in
\* flight is no older than what was confirmed.
LEMMA RacedInvariant == Spec => []Raced
<1>1. Raced /\ [Next]_vars => Raced'
  BY RaceStep, SurroundingsTyped DEF Raced
<1> QED BY <1>1, RaceInit, PTL DEF Spec

\* Every field of the object and of its surroundings stays in its type, whatever the
\* limits, the schedule and the events in the microtask gap.
THEOREM TypeCorrect == Spec => []TypeOK
<1>1. Raced => TypeOK
  BY OkIsType DEF Raced, AtRest, Accounted, Surroundings, TypeOK
<1> QED BY <1>1, RacedInvariant, PTL

\* SubscriptionBudget.#frames is exact: no path through overflow, drain, a failed send,
\* a teardown inside a send or an invalidation leaks a frame or releases one twice,
\* for every limit, snapshot handler and event in the microtask gap.
THEOREM BudgetIsExact == Spec => []BudgetExact
<1>1. Raced => BudgetExact
  <2> SUFFICES ASSUME Raced PROVE BudgetExact
    OBVIOUS
  <2>1. Ok(sub) /\ sub.frames = Holding(sub) + 0
    BY DEF Raced, AtRest, Accounted
  <2> QED BY <2>1, HoldingNat DEF BudgetExact
<1> QED BY <1>1, RacedInvariant, PTL

\* What #transmit puts in flight is never older than what onReceipt confirmed, in any
\* epoch, even when the snapshot handler answers from a stale read.
THEOREM DeliveryNeverRegresses == Spec => NeverRegresses
<1>1. Raced /\ [Next]_vars =>
         [sub'.inFlight # sub.inFlight /\ sub'.inFlight # NoFrame =>
             sub'.inFlight.revision >= sub.lastDelivered]_vars
  <2> SUFFICES ASSUME Raced, [Next]_vars, sub'.inFlight # NoFrame
               PROVE  sub'.inFlight.revision >= sub.lastDelivered
    OBVIOUS
  <2>1. Accounted(sub, 0) /\ Accounted(sub', 0) /\ sub'.lastDelivered >= sub.lastDelivered
    BY RaceStep DEF Raced, AtRest
  <2>2. sub'.inFlight.revision >= sub'.lastDelivered
    BY <2>1 DEF Accounted, Forward
  <2>3. sub'.inFlight.revision \in Int /\ sub'.lastDelivered \in Int
        /\ sub.lastDelivered \in Int
    BY <2>1, DeliveredInt
  <2> QED BY <2>1, <2>2, <2>3
<1> QED BY <1>1, RacedInvariant, PTL DEF Spec, NeverRegresses

\* With nothing in the microtask gap, and whatever the snapshot handler answers: the
\* coroutine is where the phase says, and only held subscriptions run.
LEMMA PlacedInvariant ==
    ASSUME GapEvents = {}
    PROVE  Spec => [](Good(sub, 0) /\ Covered)
<1>1. Init => Good(sub, 0) /\ Covered
  <2>1. Init => Good(sub, processed) /\ processed \in Nat /\ 0 <= processed
    BY InitGood, IInvIsGood, BoundsAssumption
  <2> QED BY <2>1, CoveredInit, GoodLess
<1>2. Raced /\ (Good(sub, 0) /\ Covered) /\ [Next]_vars => (Good(sub, 0) /\ Covered)'
  <2> SUFFICES ASSUME Raced, Good(sub, 0), Covered, [Next]_vars
               PROVE  (Good(sub, 0) /\ Covered)'
    OBVIOUS
  <2>1. Surroundings
    BY DEF Raced
  <2>2. PICK z \in Nat : z = 0
    OBVIOUS
  <2>3. PICK r \in Nat : r >= z /\ Good(sub', r)
    BY <2>1, <2>2, GoodStep
  <2>4. Good(sub', z)
    BY <2>2, <2>3, GoodLess
  <2> QED BY <2>2, <2>4, CoveredStep
<1> QED BY <1>1, <1>2, RacedInvariant, PTL DEF Spec

\* ADR-15B: nothing is delivered on a source whose offset has moved past a quarantined
\* record unless the snapshot acknowledged a boundary at least as new; #beginAttempt
\* compares the boundary when the snapshot answers and again before it is sent, and
\* onSourceUnavailable ends what was delivering before an offset may move.
THEOREM LiveOnlyPastBoundary ==
    ASSUME GapEvents = {}
    PROVE  Spec => []LiveCoversBoundary
<1>1. Good(sub, 0) /\ Covered => LiveCoversBoundary
  BY DEF Covered
<1> QED BY <1>1, PlacedInvariant, PTL

\* The routing index holds exactly the subscriptions that capture, so #admit offers
\* a record to every one of them and to no other.
THEOREM RoutedMeansCapturing ==
    ASSUME GapEvents = {}
    PROVE  Spec => []RoutedWhileCapturing
<1>1. Good(sub, 0) /\ Covered => RoutedWhileCapturing
  BY DEF Good, RoutedWhileCapturing
<1> QED BY <1>1, PlacedInvariant, PTL

-----------------------------------------------------------------------------
(* The server subscription implements the promise of a state channel, for  *)
(* every value of its constants: each step of ServerSubscription is a step *)
(* of StateChannel or a stutter.                                           *)
(*                                                                         *)
(* A method reports what it does, so the proof follows the reported state: *)
(* a step falls silent, goes on synchronizing, or stays live with the      *)
(* frames it held, the new one added or the confirmed one taken away.      *)
(*                                                                         *)
(* First, what is reported, and what a live view still owes.               *)

Shut == {"expired", "closed"}
Finished == {"failed", "closed"}
Syncing == {"capturing", "snapshot-sent", "draining"}

\* The reported state follows the phase.
Reported(s) ==
    /\ s.public \in Finished => s.phase = "terminated"
    /\ s.phase \in Syncing => s.public = "synchronizing"
    /\ s.phase = "live" => s.public = "live"

\* The revisions queued and in flight.
Kept(s) == {s.queue[i] : i \in DOMAIN s.queue} \cup ({s.inFlight.revision} \ {0})

OverIn(s) == s.public \in Finished \/ s.host \in Shut
StatusIn(s) == IF OverIn(s) THEN "ended" ELSE s.public
OwedIn(s) == IF s.public = "live" /\ ~OverIn(s) THEN Kept(s) ELSE {}

\* A method that leaves the attempt or the live state: nothing more is captured.
Muted(s, t) ==
    /\ Ok(t)
    /\ s.host \in Shut => t.host \in Shut
    /\ t.phase \notin Capturing
    /\ t.public \notin {"idle", "live", "synchronizing"}
    /\ t.public \in Finished => t.phase = "terminated"

\* A method that goes on delivering, or that starts to.
Onward(s, t) ==
    /\ Ok(t) /\ t.host = s.host
    /\ t.phase \in Capturing
    /\ t.public = IF t.phase = "live" THEN "live" ELSE "synchronizing"

\* A step that changes neither the report nor the frames.
Alike(s, t) ==
    /\ t.phase = s.phase /\ t.public = s.public
    /\ t.queue = s.queue /\ t.inFlight = s.inFlight
    /\ s.host \in Shut => t.host \in Shut

-----------------------------------------------------------------------------
(* Methods that fall silent.                                               *)

\* Session.#teardown closes the host and disposes what the session holds.
LEMMA TeardownTells ==
    ASSUME NEW s, Ok(s)
    PROVE  LET t == Teardown(s)
           IN  /\ Ok(t) /\ t.host = "closed"
               /\ \/ Alike(s, t) /\ (~s.held \/ s.phase = "terminated")
                  \/ t.public = "closed" /\ t.phase = "terminated" /\ s.phase # "terminated"
<1> DEFINE i == Invalidate(s)
<1> DEFINE e == [i EXCEPT !.phase = "terminated", !.public = "closed", !.registered = FALSE]
<1> DEFINE d == IF s.held /\ s.phase # "terminated" THEN e ELSE s
<1> DEFINE t == [d EXCEPT !.held = FALSE, !.host = "closed"]
<1>1. Ok(i)
  BY InvalidateOk
<1>2. Teardown(s) = t
  BY DEF Teardown, Dispose
<1> HIDE DEF i
<1>3. IsRec(e)
  BY <1>1 DEF Ok, IsRec
<1>4. Typed(e) /\ e.phase = "terminated" /\ e.public = "closed"
  BY <1>1 DEF Ok, IsRec, Fields, Typed, Phases, PublicStates
<1> HIDE DEF e
<1>5. /\ Ok(d)
      /\ \/ d = s /\ (~s.held \/ s.phase = "terminated")
         \/ d.phase = "terminated" /\ d.public = "closed" /\ s.phase # "terminated"
  BY <1>3, <1>4 DEF Ok
<1> HIDE DEF d
<1>6. IsRec(t)
  BY <1>5 DEF Ok, IsRec
<1>7. /\ Typed(t) /\ t.host = "closed" /\ t.phase = d.phase /\ t.public = d.public
      /\ t.queue = d.queue /\ t.inFlight = d.inFlight
  BY <1>5 DEF Ok, IsRec, Fields, Typed
<1> HIDE DEF t
<1> QED BY <1>2, <1>5, <1>6, <1>7 DEF Ok, Alike, Shut

LEMMA NoticeTells ==
    ASSUME NEW s, Ok(s)
    PROVE  LET t == Notice(s)
           IN  /\ Ok(t) /\ (s.host \in Shut => t.host \in Shut)
               /\ \/ Alike(s, t)
                  \/ t.public = "closed" /\ t.phase = "terminated" /\ s.phase # "terminated"
BY TeardownTells DEF Notice, Alike, Shut

LEMMA NoticeMutes ==
    ASSUME NEW s, NEW t, Muted(s, t)
    PROVE  Muted(s, Notice(t))
<1>1. Ok(t)
  BY DEF Muted
<1> QED BY <1>1, NoticeTells DEF Muted, Alike, Capturing, Finished

\* Reporting a state that is neither live nor synchronizing.
LEMMA SendStateMutes ==
    ASSUME NEW s, NEW b, Ok(b), s.host \in Shut => b.host \in Shut, b.phase \notin Capturing,
           NEW state \in PublicStates \ {"idle", "live", "synchronizing"},
           state \in Finished => b.phase = "terminated"
    PROVE  Muted(s, SendState(b, state))
<1> DEFINE t == [b EXCEPT !.public = state]
<1>1. IsRec(t)
  BY DEF Ok, IsRec
<1>2. Typed(t) /\ t.public = state /\ t.phase = b.phase /\ t.host = b.host
  BY DEF Ok, IsRec, Fields, Typed
<1> HIDE DEF t
<1>3. Muted(s, t)
  BY <1>1, <1>2 DEF Muted, Ok
<1> QED BY <1>3, NoticeMutes DEF SendState, t

LEMMA RephasedOk ==
    ASSUME NEW s, Ok(s), NEW phase \in Phases
    PROVE  LET t == [s EXCEPT !.phase = phase]
           IN  Ok(t) /\ t.phase = phase /\ t.public = s.public /\ t.host = s.host
<1> DEFINE t == [s EXCEPT !.phase = phase]
<1>1. IsRec(t)
  BY DEF Ok, IsRec
<1>2. Typed(t) /\ t.phase = phase /\ t.public = s.public /\ t.host = s.host
  BY DEF Ok, IsRec, Fields, Typed
<1> QED BY <1>1, <1>2 DEF Ok

LEMMA StateLiterals ==
    ASSUME NEW state, state \in {"stale", "authorizing", "resync-required", "failed"}
    PROVE  /\ state \in PublicStates \ {"idle", "live", "synchronizing"}
           /\ state \in Finished <=> state = "failed"
BY DEF PublicStates, Finished

LEMMA AttemptFailedMutes ==
    ASSUME NEW s, Ok(s)
    PROVE  Muted(s, AttemptFailed(s))
<1> DEFINE i == Invalidate(s)
<1> DEFINE b == [i EXCEPT !.phase = "backoff"]
<1> DEFINE t == SendState(b, "stale")
<1> DEFINE r == [t EXCEPT !.phase = "resync-required"]
<1> DEFINE n == SendError(r)
<1> DEFINE u == SendState(n, "resync-required")
<1> DEFINE timer == IF t.phase = "backoff" THEN "armed" ELSE "void"
<1> DEFINE w == [t EXCEPT !.timer = timer]
<1>1. AttemptFailed(s) = u \/ AttemptFailed(s) = w
  BY DEF AttemptFailed
<1>2. Ok(i) /\ i.host = s.host
  BY InvalidateOk
<1> HIDE DEF i
<1>3. PICK backoff \in Phases : backoff = "backoff"
  BY DEF Phases
<1>4. Ok(b) /\ b.phase = "backoff" /\ b.host = s.host
  BY <1>2, <1>3, RephasedOk
<1> HIDE DEF b
<1>5. PICK stale : stale = "stale"
  OBVIOUS
<1>6. Muted(s, t)
  <2>1. Muted(s, SendState(b, stale))
    BY <1>4, <1>5, StateLiterals, SendStateMutes DEF Capturing
  <2> QED BY <1>5, <2>1
<1> HIDE DEF t
<1>7. PICK resync \in Phases : resync = "resync-required"
  BY DEF Phases
<1>8. Ok(r) /\ r.phase = "resync-required" /\ r.host = t.host
  BY <1>6, <1>7, RephasedOk DEF Muted
<1> HIDE DEF r
<1>9. /\ Ok(n) /\ (s.host \in Shut => n.host \in Shut) /\ n.phase \notin Capturing
  BY <1>6, <1>8, NoticeTells DEF SendError, Muted, Alike, Capturing
<1> HIDE DEF n
<1>10. Muted(s, u)
  <2>1. PICK state : state = "resync-required"
    OBVIOUS
  <2>2. Muted(s, SendState(n, state))
    BY <1>9, <2>1, StateLiterals, SendStateMutes
  <2> QED BY <2>1, <2>2
<1>11. Muted(s, w)
  <2>1. timer \in {"none", "armed", "void"}
    OBVIOUS
  <2> HIDE DEF timer
  <2>2. IsRec(w)
    BY <1>6 DEF Muted, Ok, IsRec
  <2>3. Typed(w) /\ w.phase = t.phase /\ w.public = t.public /\ w.host = t.host
    BY <1>6, <2>1 DEF Muted, Ok, IsRec, Fields, Typed
  <2> QED BY <1>6, <2>2, <2>3 DEF Muted, Ok
<1> QED BY <1>1, <1>10, <1>11

LEMMA FailMutes ==
    ASSUME NEW s, Ok(s), s.phase # "terminated"
    PROVE  Muted(s, Fail(s))
<1> DEFINE i == Invalidate(s)
<1> DEFINE b == [i EXCEPT !.phase = "terminated", !.registered = FALSE]
<1> DEFINE n == SendError(b)
<1> DEFINE f == SendState(n, "failed")
<1> DEFINE u == [f EXCEPT !.held = FALSE]
<1>1. Fail(s) = u
  BY DEF Fail
<1>2. Ok(i) /\ i.host = s.host
  BY InvalidateOk
<1> HIDE DEF i
<1>3. IsRec(b)
  BY <1>2 DEF Ok, IsRec
<1>4. Typed(b) /\ b.phase = "terminated" /\ b.host = s.host
  BY <1>2 DEF Ok, IsRec, Fields, Typed, Phases
<1> HIDE DEF b
<1>5. Ok(n) /\ (s.host \in Shut => n.host \in Shut) /\ n.phase = "terminated"
  BY <1>3, <1>4, NoticeTells DEF SendError, Ok, Alike
<1> HIDE DEF n
<1>6. Muted(s, f)
  <2>1. PICK state : state = "failed"
    OBVIOUS
  <2>2. Muted(s, SendState(n, state))
    BY <1>5, <2>1, StateLiterals, SendStateMutes DEF Capturing
  <2> QED BY <2>1, <2>2
<1> HIDE DEF f
<1>7. IsRec(u)
  BY <1>6 DEF Muted, Ok, IsRec
<1>8. Typed(u) /\ u.phase = f.phase /\ u.public = f.public /\ u.host = f.host
  BY <1>6 DEF Muted, Ok, IsRec, Fields, Typed
<1> HIDE DEF u
<1> QED BY <1>1, <1>6, <1>7, <1>8 DEF Muted, Ok

LEMMA BeginAttemptMutes ==
    ASSUME NEW s, Ok(s), NEW announce
    PROVE  Muted(s, BeginAttempt(s, announce))
<1> DEFINE i == Invalidate(s)
<1> DEFINE k == [NoTask EXCEPT !.step = "authorize", !.fresh = TRUE]
<1> DEFINE n == i.attempts + 1
<1> DEFINE b == [i EXCEPT !.attempts = n, !.phase = "authorizing", !.task = k]
<1> DEFINE t == [b EXCEPT !.public = "authorizing"]
<1>1. BeginAttempt(s, announce) = IF announce THEN Notice(t) ELSE t
  BY DEF BeginAttempt, SendState
<1>2. Ok(i) /\ i.host = s.host
  BY InvalidateOk
<1>3. k \in TaskType
  BY NullsTyped DEF NoTask, TaskType, Steps
<1> HIDE DEF i, k
<1>4. n \in Nat
  BY <1>2 DEF Ok, Typed
<1> HIDE DEF n
<1>5. IsRec(b)
  BY <1>2 DEF Ok, IsRec
<1>6. Typed(b) /\ b.phase = "authorizing" /\ b.host = s.host
  BY <1>2, <1>3, <1>4 DEF Ok, IsRec, Fields, Typed, Phases
<1> HIDE DEF b
<1>7. IsRec(t)
  BY <1>5 DEF IsRec
<1>8. Typed(t) /\ t.phase = "authorizing" /\ t.public = "authorizing" /\ t.host = s.host
  BY <1>5, <1>6 DEF IsRec, Fields, Typed, PublicStates
<1> HIDE DEF t
<1>9. Muted(s, t)
  BY <1>7, <1>8 DEF Muted, Ok, Capturing, Finished
<1> QED BY <1>1, <1>9, NoticeMutes

LEMMA SourceUnavailableMutes ==
    ASSUME NEW s, Ok(s)
    PROVE  \/ OnSourceUnavailable(s) = s
           \/ s.phase # "terminated" /\ Muted(s, OnSourceUnavailable(s))
<1> DEFINE Affected == {"authorizing", "capturing", "snapshot-sent", "draining", "live",
                        "backoff"}
<1>1. CASE s.phase \notin Affected
  BY <1>1 DEF OnSourceUnavailable
<1>2. CASE s.phase \in Affected
  <2> DEFINE i == Invalidate(s)
  <2> DEFINE b == [i EXCEPT !.phase = "waiting-source"]
  <2>1. OnSourceUnavailable(s) = SendState(b, "stale")
    BY <1>2 DEF OnSourceUnavailable
  <2>2. Ok(i) /\ i.host = s.host
    BY InvalidateOk
  <2> HIDE DEF i
  <2>3. PICK waiting \in Phases : waiting = "waiting-source"
    BY DEF Phases
  <2>4. Ok(b) /\ b.phase = "waiting-source" /\ b.host = s.host
    BY <2>2, <2>3, RephasedOk
  <2> HIDE DEF b
  <2>5. PICK stale : stale = "stale"
    OBVIOUS
  <2>6. Muted(s, SendState(b, stale))
    BY <2>4, <2>5, StateLiterals, SendStateMutes DEF Capturing
  <2> QED BY <1>2, <2>1, <2>5, <2>6
<1> QED BY <1>1, <1>2

\* The coroutine ends: the report stays what it was.
LEMMA EndTaskTells ==
    ASSUME NEW s, Ok(s)
    PROVE  LET t == EndTask(s)
           IN  Ok(t) /\ Alike(s, t) /\ t.host = s.host
<1> DEFINE t == [s EXCEPT !.task = NoTask]
<1>1. IsRec(t)
  BY DEF Ok, IsRec
<1>2. /\ Typed(t) /\ t.phase = s.phase /\ t.public = s.public /\ t.host = s.host
      /\ t.queue = s.queue /\ t.inFlight = s.inFlight
  BY NullsTyped DEF Ok, IsRec, Fields, Typed
<1> QED BY <1>1, <1>2 DEF EndTask, Ok, Alike

LEMMA EndTaskMutes ==
    ASSUME NEW s, NEW t, Muted(s, t)
    PROVE  Muted(s, EndTask(t))
BY EndTaskTells DEF Muted, Alike

-----------------------------------------------------------------------------
(* Methods that deliver.                                                   *)

LEMMA ReleaseMutes ==
    ASSUME NEW s, NEW t, Muted(s, t)
    PROVE  Muted(s, Release(t))
BY ReleaseSame DEF Muted, Same

\* A frame is handed over, or the session is over, or the method falls silent.
LEMMA TransmitTells ==
    ASSUME NEW s, Onward(s, s), s.held, NEW revision \in Revisions
    PROVE  LET t == Transmit(s, revision)
           IN  \/ Muted(s, t)
               \/ /\ Onward(s, t) /\ t.phase = s.phase /\ t.queue = s.queue
                  /\ t.inFlight.revision = revision \/ s.host \in Shut
<1> DEFINE t == Transmit(s, revision)
<1>0. Ok(s) /\ s.phase # "terminated" /\ s.host \in {"open", "stalled", "expired", "closed"}
  BY DEF Onward, Capturing, Ok, Typed
<1>1. CASE s.host = "stalled"
  <2> DEFINE d == Teardown(s)
  <2>1. t = Release(d)
    BY <1>1 DEF Transmit, CanDeliver, Notice
  <2>2. d.host = "closed" /\ Ok(d) /\ d.public = "closed" /\ d.phase = "terminated"
    BY <1>0, TeardownTells
  <2> HIDE DEF d
  <2>3. Muted(s, d)
    BY <2>2 DEF Muted, Shut, Capturing
  <2> QED BY <2>1, <2>3, ReleaseMutes
<1>2. CASE s.host \in Shut
  <2>1. t = Release(s)
    BY <1>2 DEF Transmit, CanDeliver, Notice, Shut
  <2>2. Ok(t) /\ Same(t, s) /\ t.host = s.host
    BY <1>0, <2>1, ReleaseSame
  <2> QED BY <1>2, <2>2 DEF Onward, Same
<1>3. CASE s.host = "open" /\ s.sequence >= MaxSequence - 1
  <2>1. t = AttemptFailed(Release(s))
    BY <1>3 DEF Transmit, CanDeliver
  <2>2. Ok(Release(s)) /\ Release(s).host = s.host
    BY <1>0, ReleaseSame
  <2>3. Muted(Release(s), t)
    BY <2>1, <2>2, AttemptFailedMutes
  <2> QED BY <2>2, <2>3 DEF Muted
<1>4. CASE s.host = "open" /\ ~(s.sequence >= MaxSequence - 1)
  <2> DEFINE n == s.sequence + 1
  <2> DEFINE f == [revision |-> revision, sequence |-> n]
  <2> DEFINE u == [s EXCEPT !.sequence = n, !.inFlight = f]
  <2>1. t = u
    BY <1>4 DEF Transmit, CanDeliver
  <2>2. n \in Nat
    BY <1>0 DEF Ok, Typed
  <2>3. f \in [revision : Revisions, sequence : Nat] /\ f.revision = revision
    BY <2>2
  <2> HIDE DEF n, f, t
  <2>4. IsRec(u)
    BY <1>0 DEF Ok, IsRec
  <2>5. /\ Typed(u) /\ u.inFlight = f /\ u.phase = s.phase /\ u.public = s.public
        /\ u.queue = s.queue /\ u.host = s.host
    BY <1>0, <2>2, <2>3 DEF Ok, IsRec, Fields, Typed
  <2> HIDE DEF u
  <2>6. Onward(s, u)
    BY <2>4, <2>5 DEF Onward, Ok
  <2> QED BY <2>1, <2>3, <2>5, <2>6 DEF t
<1> QED BY <1>0, <1>1, <1>2, <1>3, <1>4 DEF Shut

\* Taking the head of the queue into flight, or appending a frame, as sets of revisions.
LEMMA HeadAndTail ==
    ASSUME NEW q \in Seq(Revisions), q # <<>>
    PROVE  {q[i] : i \in DOMAIN q} = {Tail(q)[i] : i \in DOMAIN Tail(q)} \cup {Head(q)}
<1>1. /\ Tail(q) \in Seq(Revisions) /\ Len(Tail(q)) = Len(q) - 1 /\ Head(q) = q[1]
      /\ \A i \in 1..Len(Tail(q)) : Tail(q)[i] = q[i + 1]
  BY HeadTailProperties
<1>2. Len(q) \in Nat /\ Len(q) > 0
  BY QueueFacts
<1>3. DOMAIN q = 1..Len(q) /\ DOMAIN Tail(q) = 1..Len(Tail(q))
  BY <1>1, LenProperties
<1>4. ASSUME NEW i \in 1..Len(q)
      PROVE  q[i] = Head(q) \/ \E j \in 1..Len(Tail(q)) : q[i] = Tail(q)[j]
  <2>1. CASE i = 1
    BY <1>1, <2>1
  <2>2. CASE i # 1
    <3>1. i - 1 \in 1..Len(Tail(q)) /\ (i - 1) + 1 = i
      BY <1>1, <1>2, <2>2
    <3>2. Tail(q)[i - 1] = q[i]
      BY <1>1, <3>1
    <3> QED BY <3>1, <3>2
  <2> QED BY <2>1, <2>2
<1>5. ASSUME NEW j \in 1..Len(Tail(q))
      PROVE  \E i \in 1..Len(q) : Tail(q)[j] = q[i]
  <2>1. j + 1 \in 1..Len(q)
    BY <1>1, <1>2
  <2> QED BY <1>1, <2>1
<1>6. 1 \in 1..Len(q)
  BY <1>2
<1>7. {q[i] : i \in DOMAIN q} \subseteq {Tail(q)[i] : i \in DOMAIN Tail(q)} \cup {Head(q)}
  BY <1>3, <1>4
<1>8. {Tail(q)[i] : i \in DOMAIN Tail(q)} \subseteq {q[i] : i \in DOMAIN q}
  BY <1>3, <1>5
<1>9. Head(q) \in {q[i] : i \in DOMAIN q}
  BY <1>1, <1>3, <1>6
<1> QED BY <1>7, <1>8, <1>9

LEMMA AppendedSet ==
    ASSUME NEW q \in Seq(Revisions), NEW r \in Revisions
    PROVE  LET a == Append(q, r)
           IN  {a[i] : i \in DOMAIN a} = {q[i] : i \in DOMAIN q} \cup {r}
<1> DEFINE a == Append(q, r)
<1>1. /\ a \in Seq(Revisions) /\ Len(a) = Len(q) + 1
      /\ a[Len(q) + 1] = r /\ \A i \in 1..Len(q) : a[i] = q[i]
  BY AppendProperties
<1>2. Len(q) \in Nat
  BY QueueFacts
<1>3. DOMAIN q = 1..Len(q) /\ DOMAIN a = 1..Len(a)
  BY <1>1, LenProperties
<1> HIDE DEF a
<1>4. \A i \in 1..Len(a) : i \in 1..Len(q) \/ i = Len(q) + 1
  BY <1>1, <1>2
<1>5. 1..Len(q) \subseteq 1..Len(a) /\ Len(q) + 1 \in 1..Len(a)
  BY <1>1, <1>2
<1>6. {a[i] : i \in DOMAIN a} \subseteq {q[i] : i \in DOMAIN q} \cup {r}
  BY <1>1, <1>3, <1>4
<1>7. {q[i] : i \in DOMAIN q} \cup {r} \subseteq {a[i] : i \in DOMAIN a}
  BY <1>1, <1>3, <1>5
<1> QED BY <1>6, <1>7 DEF a

\* Every queued frame carries a revision, so that Kept names each of them.
Positive(s) == \A i \in 1..Len(s.queue) : s.queue[i] > 0

LEMMA PumpTells ==
    ASSUME NEW s, Onward(s, s), s.held
    PROVE  LET t == Pump(s)
           IN  \/ Muted(s, t)
               \/ /\ Onward(s, t) /\ t.phase = s.phase
                  /\ Positive(s) /\ s.host \notin Shut => Kept(t) = Kept(s)
<1>1. CASE s.inFlight # NoFrame \/ s.queue = <<>> \/ s.phase \notin {"draining", "live"}
  BY <1>1 DEF Pump
<1>2. CASE s.inFlight = NoFrame /\ s.queue # <<>> /\ s.phase \in {"draining", "live"}
  <2> DEFINE h == Head(s.queue)
  <2> DEFINE q == Tail(s.queue)
  <2> DEFINE c == [s EXCEPT !.queue = q]
  <2> DEFINE t == Transmit(c, h)
  <2>1. Pump(s) = t
    BY <1>2 DEF Pump
  <2>2. /\ s.queue \in Seq(Revisions) /\ h \in Revisions /\ q \in Seq(Revisions)
        /\ h = s.queue[1] /\ Len(s.queue) \in Nat /\ Len(s.queue) > 0
        /\ {s.queue[i] : i \in DOMAIN s.queue} = {q[i] : i \in DOMAIN q} \cup {h}
    <3>1. s.queue \in Seq(Revisions)
      BY DEF Onward, Ok, Typed
    <3>2. {s.queue[i] : i \in DOMAIN s.queue} = {q[i] : i \in DOMAIN q} \cup {h}
      BY <1>2, <3>1, HeadAndTail
    <3>3. h \in Revisions /\ q \in Seq(Revisions) /\ h = s.queue[1]
      BY <1>2, <3>1, HeadTailProperties, TailKeepsLast
    <3>4. Len(s.queue) \in Nat /\ Len(s.queue) > 0
      BY <1>2, <3>1, QueueFacts
    <3> QED BY <3>1, <3>2, <3>3, <3>4
  <2>3. Positive(s) => h # 0
    <3>1. 1 \in 1..Len(s.queue)
      BY <2>2
    <3> QED BY <2>2, <3>1, RevisionsInt DEF Positive
  <2> HIDE DEF h, q, t
  <2>4. IsRec(c)
    BY DEF Onward, Ok, IsRec
  <2>5. /\ Typed(c) /\ c.queue = q /\ c.phase = s.phase /\ c.public = s.public
        /\ c.host = s.host /\ c.held = s.held /\ c.inFlight = s.inFlight
    BY <2>2 DEF Onward, Ok, IsRec, Fields, Typed
  <2> HIDE DEF c
  <2>6. Onward(c, c) /\ c.held
    BY <2>4, <2>5 DEF Onward, Ok
  <2>7. \/ Muted(c, t)
        \/ /\ Onward(c, t) /\ t.phase = c.phase /\ t.queue = c.queue
           /\ t.inFlight.revision = h \/ c.host \in Shut
    BY <2>2, <2>6, TransmitTells DEF t
  <2>8. CASE Muted(c, t)
    BY <2>1, <2>5, <2>8 DEF Muted
  <2>9. CASE /\ Onward(c, t) /\ t.phase = c.phase /\ t.queue = c.queue
             /\ t.inFlight.revision = h \/ c.host \in Shut
    <3>1. Onward(s, t) /\ t.phase = s.phase
      BY <2>5, <2>9 DEF Onward
    <3>2. ASSUME Positive(s), s.host \notin Shut PROVE Kept(t) = Kept(s)
      <4>1. t.inFlight.revision = h /\ t.queue = q /\ s.inFlight.revision = 0 /\ h # 0
        BY <1>2, <2>3, <2>5, <2>9, <3>2 DEF NoFrame
      <4>2. Kept(t) = {q[i] : i \in DOMAIN q} \cup {h}
        BY <4>1 DEF Kept
      <4>3. Kept(s) = {s.queue[i] : i \in DOMAIN s.queue}
        BY <4>1 DEF Kept
      <4> QED BY <2>2, <4>2, <4>3
    <3> QED BY <2>1, <3>1, <3>2
  <2> QED BY <2>7, <2>8, <2>9
<1> QED BY <1>1, <1>2

LEMMA GoLiveTells ==
    ASSUME NEW s, Onward(s, s), s.held
    PROVE  Muted(s, GoLive(s)) \/ Onward(s, GoLive(s))
<1> DEFINE b == [s EXCEPT !.phase = "live", !.attempts = 0]
<1> DEFINE t == [b EXCEPT !.public = "live"]
<1>1. GoLive(s) = Pump(Notice(t))
  BY DEF GoLive, SendState
<1>2. IsRec(b)
  BY DEF Onward, Ok, IsRec
<1>3. Typed(b) /\ b.phase = "live" /\ b.host = s.host /\ b.held = s.held
  <2>1. Ok(s) /\ 0 \in Nat
    BY DEF Onward
  <2> QED BY <2>1 DEF Ok, IsRec, Fields, Typed, Phases
<1> HIDE DEF b
<1>4. IsRec(t)
  BY <1>2 DEF IsRec
<1>5. /\ Typed(t) /\ t.phase = "live" /\ t.public = "live"
      /\ t.host = s.host /\ t.held = s.held
  BY <1>2, <1>3 DEF IsRec, Fields, Typed, PublicStates
<1> HIDE DEF t
<1>6. Onward(s, t) /\ Onward(t, t) /\ t.held
  BY <1>4, <1>5 DEF Onward, Ok, Capturing
<1>7. CASE t.host # "stalled"
  <2>1. Muted(t, Pump(t)) \/ Onward(t, Pump(t))
    BY <1>6, PumpTells
  <2> QED BY <1>1, <1>5, <1>7, <2>1 DEF Notice, Muted, Onward
<1>8. CASE t.host = "stalled"
  <2> DEFINE d == Teardown(t)
  <2>1. Ok(d) /\ d.host = "closed" /\ d.public = "closed" /\ d.phase = "terminated"
    BY <1>5, <1>6, TeardownTells DEF Onward
  <2> HIDE DEF d
  <2>2. Pump(d) = d /\ Muted(s, d)
    BY <2>1 DEF Pump, Muted, Shut, Capturing
  <2> QED BY <1>1, <1>8, <2>2 DEF Notice, d
<1> QED BY <1>7, <1>8

LEMMA SnapshotReceivedTells ==
    ASSUME NEW s, Onward(s, s), s.held, s.phase = "snapshot-sent"
    PROVE  Muted(s, SnapshotReceived(s)) \/ Onward(s, SnapshotReceived(s))
<1> DEFINE kept == Newer(s.queue, s.snapshotRevision)
<1> DEFINE n == Less(s.frames, Len(s.queue) - Len(kept))
<1> DEFINE l == Len(kept)
<1> DEFINE t == [s EXCEPT !.queue = kept, !.frames = n, !.drainRemaining = l,
                          !.phase = "draining"]
<1>1. SnapshotReceived(s) = GoLive(t) \/ SnapshotReceived(s) = Pump(t)
  BY DEF SnapshotReceived
<1>2. s.queue \in Seq(Revisions) /\ s.snapshotRevision \in Revisions /\ s.frames \in Nat
  BY DEF Onward, Ok, Typed
<1>3. kept \in Seq(Revisions) /\ Len(kept) <= Len(s.queue)
  BY <1>2, NewerKeepsLast
<1> HIDE DEF kept
<1>4. n \in Nat /\ l \in Int
  <2>1. Len(s.queue) \in Nat /\ Len(kept) \in Nat
    BY <1>2, <1>3, QueueFacts
  <2>2. Len(s.queue) - Len(kept) \in Nat
    BY <1>3, <2>1
  <2>3. l \in Int
    BY <2>1
  <2> QED BY <1>2, <2>2, <2>3, LessNat
<1> HIDE DEF n, l
<1>5. IsRec(t)
  BY DEF Onward, Ok, IsRec
<1>6. /\ Typed(t) /\ t.phase = "draining" /\ t.public = s.public
      /\ t.host = s.host /\ t.held = s.held
  BY <1>3, <1>4 DEF Onward, Ok, IsRec, Fields, Typed, Phases
<1> HIDE DEF t
<1>7. Onward(t, t) /\ t.held
  BY <1>5, <1>6 DEF Onward, Ok, Capturing
<1>8. /\ Muted(t, GoLive(t)) \/ Onward(t, GoLive(t))
      /\ Muted(t, Pump(t)) \/ Onward(t, Pump(t))
  BY <1>7, GoLiveTells, PumpTells
<1> QED BY <1>1, <1>6, <1>8 DEF Muted, Onward

\* What the confirmed frame leaves: nothing else carries its revision.
LEMMA ConfirmTells ==
    ASSUME NEW s, Onward(s, s), s.held, s.phase # "capturing", s.inFlight # NoFrame
    PROVE  LET t == Confirm(s)
           IN  \/ Muted(s, t)
               \/ /\ Onward(s, t)
                  /\ s.phase = "live" => t.phase = "live"
                  /\ /\ s.phase = "live" /\ s.host \notin Shut
                     /\ \A i \in 1..Len(s.queue) : s.queue[i] > s.inFlight.revision
                     => Kept(t) = Kept(s) \ {s.inFlight.revision}
<1> DEFINE m == Max2(s.lastDelivered, s.inFlight.revision)
<1> DEFINE r == Release(s)
<1> DEFINE t == [r EXCEPT !.inFlight = NoFrame, !.lastDelivered = m]
<1> DEFINE n == t.drainRemaining - 1
<1> DEFINE d == [t EXCEPT !.drainRemaining = n]
<1>1. Ok(s) /\ s.phase \in {"snapshot-sent", "draining", "live"}
  BY DEF Onward, Capturing
<1>2. Ok(r) /\ Same(r, s) /\ r.host = s.host
  BY <1>1, ReleaseSame
<1>3. m \in Revisions
  BY <1>1 DEF Max2, Ok, Typed
<1>4. /\ s.phase = "snapshot-sent" => Confirm(s) = SnapshotReceived(t)
      /\ s.phase = "draining" => Confirm(s) \in {GoLive(d), Pump(d)}
      /\ s.phase = "live" => Confirm(s) = Pump(t)
  <2>1. t.phase = s.phase
    BY <1>2 DEF Ok, IsRec, Fields, Same
  <2>2. t = [Release(s) EXCEPT !.inFlight = NoFrame,
                               !.lastDelivered = Max2(s.lastDelivered, s.inFlight.revision)]
    OBVIOUS
  <2>3. Release(s).lastDelivered = s.lastDelivered
    BY <1>2 DEF Same
  <2>4. Confirm(s) = CASE t.phase = "snapshot-sent" -> SnapshotReceived(t)
                       [] t.phase = "draining" ->
                             IF d.drainRemaining <= 0 THEN GoLive(d) ELSE Pump(d)
                       [] OTHER -> Pump(t)
    BY <2>3 DEF Confirm
  <2> HIDE DEF t, d
  <2> QED BY <2>1, <2>4
<1> HIDE DEF m, r
<1>5. IsRec(t)
  BY <1>2 DEF Ok, IsRec
<1>6. /\ Typed(t) /\ t.phase = s.phase /\ t.public = s.public /\ t.host = s.host
      /\ t.held = s.held /\ t.queue = s.queue /\ t.inFlight = NoFrame
  BY <1>2, <1>3, NullsTyped DEF Ok, IsRec, Fields, Typed, Same
<1> HIDE DEF t
<1>7. Onward(t, t) /\ t.held
  BY <1>1, <1>5, <1>6 DEF Onward, Ok, Capturing
<1>8. CASE s.phase = "snapshot-sent"
  BY <1>4, <1>6, <1>7, <1>8, SnapshotReceivedTells DEF Muted, Onward
<1>9. CASE s.phase = "draining"
  <2>1. n \in Int
    BY <1>6 DEF Typed
  <2> HIDE DEF n
  <2>2. IsRec(d)
    BY <1>5 DEF IsRec
  <2>3. /\ Typed(d) /\ d.phase = t.phase /\ d.public = t.public /\ d.host = t.host
        /\ d.held = t.held
    BY <1>5, <1>6, <2>1 DEF IsRec, Fields, Typed
  <2> HIDE DEF d
  <2>4. Onward(d, d) /\ d.held
    BY <1>7, <2>2, <2>3 DEF Onward, Ok
  <2>5. /\ Muted(d, GoLive(d)) \/ Onward(d, GoLive(d))
        /\ Muted(d, Pump(d)) \/ Onward(d, Pump(d))
    BY <2>4, GoLiveTells, PumpTells
  <2> QED BY <1>4, <1>6, <1>9, <2>3, <2>5 DEF Muted, Onward
<1>10. CASE s.phase = "live"
  <2>1. \/ Muted(t, Confirm(s))
        \/ /\ Onward(t, Confirm(s)) /\ Confirm(s).phase = t.phase
           /\ Positive(t) /\ t.host \notin Shut => Kept(Confirm(s)) = Kept(t)
    BY <1>4, <1>7, <1>10, PumpTells
  <2>2. ASSUME \A i \in 1..Len(s.queue) : s.queue[i] > s.inFlight.revision
        PROVE  Positive(t) /\ Kept(t) = Kept(s) \ {s.inFlight.revision}
    <3>1. /\ s.inFlight.revision \in Int /\ s.inFlight.revision >= 0
          /\ s.queue \in Seq(Revisions) /\ DOMAIN s.queue = 1..Len(s.queue)
          /\ \A i \in 1..Len(s.queue) : s.queue[i] \in Int
      <4>1. s.inFlight.revision \in Revisions /\ s.queue \in Seq(Revisions)
        BY <1>1 DEF Ok, Typed
      <4> QED BY <4>1, QueueFacts, LenProperties, BoundsAssumption DEF Revisions
    <3>2. Positive(t)
      BY <1>6, <2>2, <3>1 DEF Positive
    <3>3. Kept(t) = {s.queue[i] : i \in DOMAIN s.queue}
      BY <1>6 DEF Kept, NoFrame
    <3>4. s.inFlight.revision \notin {s.queue[i] : i \in DOMAIN s.queue}
      BY <2>2, <3>1
    <3> QED BY <3>2, <3>3, <3>4 DEF Kept
  <2> QED BY <1>6, <1>10, <2>1, <2>2 DEF Muted, Onward
<1> QED BY <1>1, <1>8, <1>9, <1>10

LEMMA OnReceiptTells ==
    ASSUME NEW s, Reported(s), Ok(s), s.phase \in Capturing => s.held,
           s.phase = "capturing" => s.inFlight = NoFrame,
           NEW sequence
    PROVE  LET t == OnReceipt(s, sequence)
           IN  \/ t = s
               \/ s.phase \in Capturing /\ Muted(s, t)
               \/ /\ s.phase \in Capturing \ {"capturing"} /\ s.inFlight # NoFrame
                  /\ Onward(s, t) /\ t = Confirm(s)
                  /\ s.phase = "live" => t.phase = "live"
                  /\ /\ s.phase = "live" /\ s.host \notin Shut
                     /\ \A i \in 1..Len(s.queue) : s.queue[i] > s.inFlight.revision
                     => Kept(t) = Kept(s) \ {s.inFlight.revision}
<1>1. \/ OnReceipt(s, sequence) = s
      \/ s.phase \in Capturing /\ OnReceipt(s, sequence) = ProtocolViolation(s)
      \/ /\ s.phase \in Capturing /\ s.inFlight # NoFrame
         /\ OnReceipt(s, sequence) = Confirm(s)
  BY DEF OnReceipt
<1>2. s.phase \in Capturing => Onward(s, s)
  BY DEF Reported, Onward, Capturing, Syncing
<1>3. Muted(s, ProtocolViolation(s))
  <2>1. Ok(SendError(s)) /\ (s.host \in Shut => SendError(s).host \in Shut)
    BY NoticeTells DEF SendError
  <2>2. Muted(SendError(s), AttemptFailed(SendError(s)))
    BY <2>1, AttemptFailedMutes
  <2> QED BY <2>1, <2>2 DEF ProtocolViolation, Muted
<1> QED BY <1>1, <1>2, <1>3, ConfirmTells

LEMMA AdmitTells ==
    ASSUME NEW s, Onward(s, s), s.held, NEW revision \in Revisions, NEW room \in BOOLEAN
    PROVE  LET t == Admit(s, revision, room)
           IN  \/ t = s
               \/ Muted(s, t)
               \/ /\ Onward(s, t) /\ t.phase = s.phase
                  /\ Positive(s) /\ revision > 0 /\ s.host \notin Shut =>
                        Kept(t) = Kept(s) \cup {revision}
<1> DEFINE r == Reserve(s)
<1> DEFINE q == Append(s.queue, revision)
<1> DEFINE t == [r EXCEPT !.queue = q, !.tail = revision]
<1>1. /\ Ok(r) /\ Same(r, s) /\ r.host = s.host
  BY ReserveSame DEF Onward
<1>2. \/ Admit(s, revision, room) = s
      \/ Admit(s, revision, room) = AttemptFailed(s)
      \/ Admit(s, revision, room) = Pump(t)
  BY <1>1 DEF Admit, Same
<1>3. Muted(s, AttemptFailed(s))
  BY AttemptFailedMutes DEF Onward
<1>4. s.queue \in Seq(Revisions)
  BY DEF Onward, Ok, Typed
<1>5. /\ q \in Seq(Revisions) /\ Len(s.queue) \in Nat /\ Len(q) = Len(s.queue) + 1
      /\ q[Len(s.queue) + 1] = revision /\ \A i \in 1..Len(s.queue) : q[i] = s.queue[i]
      /\ {q[i] : i \in DOMAIN q} = {s.queue[i] : i \in DOMAIN s.queue} \cup {revision}
  <2>1. {q[i] : i \in DOMAIN q} = {s.queue[i] : i \in DOMAIN s.queue} \cup {revision}
    BY <1>4, AppendedSet
  <2>2. /\ q \in Seq(Revisions) /\ Len(s.queue) \in Nat /\ Len(q) = Len(s.queue) + 1
        /\ q[Len(s.queue) + 1] = revision /\ \A i \in 1..Len(s.queue) : q[i] = s.queue[i]
    BY <1>4, AppendProperties, QueueFacts
  <2> QED BY <2>1, <2>2
<1> HIDE DEF q, r
<1>6. IsRec(t)
  BY <1>1 DEF Ok, IsRec
<1>7. /\ Typed(t) /\ t.phase = s.phase /\ t.public = s.public /\ t.host = s.host
      /\ t.held = s.held /\ t.queue = q /\ t.inFlight = s.inFlight
  BY <1>1, <1>5 DEF Ok, IsRec, Fields, Typed, Same
<1> HIDE DEF t
<1>8. Onward(t, t) /\ t.held
  BY <1>6, <1>7 DEF Onward, Ok
<1>9. \/ Muted(t, Pump(t))
      \/ /\ Onward(t, Pump(t)) /\ Pump(t).phase = t.phase
         /\ Positive(t) /\ t.host \notin Shut => Kept(Pump(t)) = Kept(t)
  BY <1>8, PumpTells
<1>10. Positive(s) /\ revision > 0 => Positive(t)
  BY <1>5, <1>7 DEF Positive
<1>11. Kept(t) = Kept(s) \cup {revision}
  BY <1>5, <1>7 DEF Kept
<1> QED BY <1>2, <1>3, <1>7, <1>9, <1>10, <1>11 DEF Muted, Onward

-----------------------------------------------------------------------------
(* Steps of the attempt's coroutine.                                       *)

\* A step that accounts for no record and confirms none: the report and the frames stay,
\* or the method falls silent, or it goes on synchronizing.
Turns(s, t) ==
    \/ Alike(s, t)
    \/ s.phase # "terminated" /\ Muted(s, t)
    \/ s.phase # "terminated" /\ Onward(s, t) /\ t.phase # "live"

\* What an attempt may do from where it runs.
LEMMA EndedTurns ==
    ASSUME NEW s, Ok(s), s.phase # "terminated"
    PROVE  /\ Turns(s, EndTask(s))
           /\ Turns(s, EndTask(AttemptFailed(s)))
           /\ Turns(s, EndTask(Fail(s)))
BY EndTaskTells, AttemptFailedMutes, FailMutes, EndTaskMutes DEF Turns

LEMMA RetaskTurns ==
    ASSUME NEW s, Ok(s), NEW k
    PROVE  Turns(s, [s EXCEPT !.task = k])
<1> DEFINE t == [s EXCEPT !.task = k]
<1>1. /\ t.phase = s.phase /\ t.public = s.public /\ t.queue = s.queue
      /\ t.inFlight = s.inFlight /\ t.host = s.host
  BY DEF Ok, IsRec, Fields
<1> QED BY <1>1 DEF Turns, Alike

LEMMA AuthorizedTurns ==
    ASSUME NEW s, NEW p, Good(s, p), s.task.fresh, NEW outcome
    PROVE  Turns(s, Authorized(s, outcome))
<1> DEFINE next == IF s.task.step = "authorize" THEN "admitted" ELSE "cleared"
<1> DEFINE k == [s.task EXCEPT !.step = next]
<1>1. Ok(s) /\ s.held /\ s.phase # "terminated"
  BY RunningFacts
<1>2. CanDeliver(s) => Notice(s) = s
  BY DEF CanDeliver, Notice
<1>3. Turns(s, EndTask(Notice(s)))
  <2>1. CASE s.host = "stalled"
    <3> DEFINE d == Teardown(s)
    <3>1. Ok(d) /\ d.host = "closed" /\ d.public = "closed" /\ d.phase = "terminated"
      BY <1>1, TeardownTells
    <3> HIDE DEF d
    <3>2. Muted(s, d)
      BY <3>1 DEF Muted, Shut, Capturing
    <3>3. Muted(s, EndTask(d))
      BY <3>2, EndTaskMutes
    <3> QED BY <1>1, <2>1, <3>3 DEF Notice, Turns, d
  <2>2. CASE s.host # "stalled"
    BY <1>1, <2>2, EndedTurns DEF Notice
  <2> QED BY <2>1, <2>2
<1>4. \/ Authorized(s, outcome) = EndTask(AttemptFailed(s))
      \/ Authorized(s, outcome) = EndTask(Fail(s))
      \/ ~CanDeliver(s) /\ Authorized(s, outcome) = EndTask(Notice(s))
      \/ CanDeliver(s) /\ Authorized(s, outcome) = EndTask(Fail(Notice(s)))
      \/ CanDeliver(s) /\ Authorized(s, outcome) = [Notice(s) EXCEPT !.task.step = next]
  BY DEF Authorized
<1>5. [s EXCEPT !.task.step = next] = [s EXCEPT !.task = k]
  OBVIOUS
<1> HIDE DEF k, next
<1>6. Turns(s, [s EXCEPT !.task = k])
  BY <1>1, RetaskTurns
<1>7. CASE CanDeliver(s) /\ Authorized(s, outcome) = EndTask(Fail(Notice(s)))
  BY <1>1, <1>2, <1>7, EndedTurns
<1>8. CASE CanDeliver(s) /\ Authorized(s, outcome) = [Notice(s) EXCEPT !.task.step = next]
  BY <1>2, <1>5, <1>6, <1>8
<1> QED BY <1>1, <1>3, <1>4, <1>7, <1>8, EndedTurns

LEMMA StartCaptureTurns ==
    ASSUME NEW s, NEW p, Good(s, p), s.task.step = "admitted", NEW ready \in BOOLEAN
    PROVE  Turns(s, StartCapture(s, ready))
<1>1. /\ s.task.fresh /\ s.host = "open" /\ s.phase = "authorizing" /\ Ok(s)
  BY RunningFacts DEF Good, PlacedIn, GapSteps
<1>2. s.attempts - 1 \in Nat
  BY <1>1 DEF Good, TailIsBufferedIn, Ok, Typed
<1>3. CASE ~ready
  <2> DEFINE n == s.attempts - 1
  <2> DEFINE b == [s EXCEPT !.attempts = n, !.phase = "waiting-source"]
  <2>1. StartCapture(s, ready) = EndTask(SendState(b, "stale"))
    BY <1>3 DEF StartCapture
  <2> HIDE DEF n
  <2>2. IsRec(b)
    BY <1>1 DEF Ok, IsRec
  <2>3. Typed(b) /\ b.phase = "waiting-source" /\ b.host = s.host
    BY <1>1, <1>2 DEF Ok, IsRec, Fields, Typed, Phases, n
  <2> HIDE DEF b
  <2>4. PICK stale : stale = "stale"
    OBVIOUS
  <2>5. Muted(s, SendState(b, stale))
    BY <2>2, <2>3, <2>4, StateLiterals, SendStateMutes DEF Capturing, Ok
  <2>6. Muted(s, EndTask(SendState(b, "stale")))
    BY <2>4, <2>5, EndTaskMutes
  <2> QED BY <1>1, <2>1, <2>6 DEF Turns
<1>4. CASE ready
  <2> DEFINE b == [s EXCEPT !.sequence = 0]
  <2> DEFINE u == [b EXCEPT !.public = "synchronizing"]
  <2> DEFINE k == [u.task EXCEPT !.step = "acquire"]
  <2> DEFINE t == [u EXCEPT !.phase = "capturing", !.routed = TRUE, !.task = k]
  <2>1. StartCapture(s, ready) = [Notice(u) EXCEPT !.phase = "capturing", !.routed = TRUE,
                                                   !.task.step = "acquire"]
    BY <1>4 DEF StartCapture, SendState
  <2>2. IsRec(b)
    BY <1>1 DEF Ok, IsRec
  <2>3. Typed(b) /\ b.host = s.host
    <3>1. 0 \in Nat
      OBVIOUS
    <3> QED BY <1>1, <3>1 DEF Ok, IsRec, Fields, Typed
  <2> HIDE DEF b
  <2>4. IsRec(u)
    BY <2>2 DEF IsRec
  <2>5. Typed(u) /\ u.public = "synchronizing" /\ u.host = b.host
    BY <2>2, <2>3 DEF IsRec, Fields, Typed, PublicStates
  <2> HIDE DEF u
  <2>6. Notice(u) = u
    BY <1>1, <2>3, <2>5 DEF Notice
  <2>7. k \in TaskType
    BY <2>5 DEF Typed, TaskType, Steps
  <2>8. [u EXCEPT !.phase = "capturing", !.routed = TRUE, !.task.step = "acquire"] = t
    BY <2>4 DEF IsRec, Fields
  <2> HIDE DEF k
  <2>9. IsRec(t)
    BY <2>4 DEF IsRec
  <2>10. Typed(t) /\ t.phase = "capturing" /\ t.public = u.public /\ t.host = u.host
    BY <2>4, <2>5, <2>7 DEF IsRec, Fields, Typed, Phases
  <2> HIDE DEF t
  <2>11. Onward(s, t)
    BY <2>3, <2>5, <2>9, <2>10 DEF Onward, Ok, Capturing
  <2> QED BY <1>1, <2>1, <2>6, <2>8, <2>10, <2>11 DEF Turns
<1> QED BY <1>3, <1>4

LEMMA SnapshotAnsweredTurns ==
    ASSUME NEW s, NEW p, Good(s, p), s.task.fresh, NEW inForce, NEW revision, NEW ack
    PROVE  Turns(s, SnapshotAnswered(s, inForce, revision, ack))
<1> DEFINE t == [s EXCEPT !.acked = ack, !.task.step = "recheck", !.task.revoked = FALSE,
                          !.task.revision = revision]
<1>1. Ok(s) /\ s.phase # "terminated"
  BY RunningFacts
<1>2. /\ t.phase = s.phase /\ t.public = s.public /\ t.queue = s.queue
      /\ t.inFlight = s.inFlight /\ t.host = s.host
  BY <1>1 DEF Ok, IsRec, Fields
<1> HIDE DEF t
<1>3. Turns(s, t)
  BY <1>2 DEF Turns, Alike
<1>4. \/ SnapshotAnswered(s, inForce, revision, ack) = t
      \/ SnapshotAnswered(s, inForce, revision, ack) = EndTask(AttemptFailed(s))
      \/ SnapshotAnswered(s, inForce, revision, ack) = EndTask(Fail(s))
  BY DEF SnapshotAnswered, t
<1> QED BY <1>1, <1>3, <1>4, EndedTurns

LEMMA SendSnapshotTurns ==
    ASSUME NEW s, NEW p, Good(s, p), Reported(s), s.task.step = "cleared",
           NEW inForce, NEW fits, NEW room
    PROVE  Turns(s, SendSnapshot(s, inForce, fits, room))
<1> DEFINE v == s.task.revision
<1> DEFINE r == Reserve(s)
<1> DEFINE m == Max2(r.tail, v)
<1> DEFINE t == [r EXCEPT !.snapshotRevision = v, !.tail = m, !.phase = "snapshot-sent"]
<1> DEFINE x == Transmit(t, v)
<1>1. /\ s.task.fresh /\ s.phase = "capturing" /\ Ok(s) /\ s.held
      /\ s.public = "synchronizing" /\ s.task \in TaskType
  BY RunningFacts DEF Good, PlacedIn, GapSteps, Reported, Syncing
<1>2. \/ SendSnapshot(s, inForce, fits, room) = EndTask(AttemptFailed(s))
      \/ SendSnapshot(s, inForce, fits, room) = EndTask(Fail(s))
      \/ SendSnapshot(s, inForce, fits, room) = EndTask(x)
  BY DEF SendSnapshot
<1>3. Ok(r) /\ Same(r, s) /\ r.host = s.host
  BY <1>1, ReserveSame
<1>4. v \in Revisions /\ m \in Revisions
  <2>1. v \in Revisions
    BY <1>1 DEF TaskType
  <2>2. r.tail \in Revisions
    BY <1>3 DEF Ok, Typed
  <2> QED BY <2>1, <2>2 DEF Max2
<1> HIDE DEF v, r, m
<1>5. IsRec(t)
  BY <1>3 DEF Ok, IsRec
<1>6. /\ Typed(t) /\ t.phase = "snapshot-sent" /\ t.public = s.public
      /\ t.held = s.held /\ t.host = s.host
  BY <1>3, <1>4 DEF Ok, IsRec, Fields, Typed, Phases, Same
<1> HIDE DEF t
<1>7. Onward(t, t) /\ t.held
  BY <1>1, <1>5, <1>6 DEF Onward, Ok, Capturing
<1> HIDE DEF x
<1>8. Muted(t, x) \/ (Onward(t, x) /\ x.phase = "snapshot-sent")
  BY <1>4, <1>6, <1>7, TransmitTells DEF x
<1>9. CASE Muted(t, x)
  <2>1. Muted(s, x)
    BY <1>6, <1>9 DEF Muted
  <2>2. Turns(s, EndTask(x))
    BY <1>1, <2>1, EndTaskMutes DEF Turns
  <2> QED BY <1>1, <1>2, <2>2, EndedTurns
<1>10. CASE Onward(t, x) /\ x.phase = "snapshot-sent"
  <2>1. Ok(EndTask(x)) /\ Alike(x, EndTask(x)) /\ EndTask(x).host = x.host
    BY <1>10, EndTaskTells DEF Onward
  <2>2. Onward(s, EndTask(x)) /\ EndTask(x).phase = "snapshot-sent"
    BY <1>6, <1>10, <2>1 DEF Onward, Alike
  <2>3. Turns(s, EndTask(x))
    BY <1>1, <2>2 DEF Turns
  <2> QED BY <1>1, <1>2, <2>3, EndedTurns
<1> QED BY <1>8, <1>9, <1>10

-----------------------------------------------------------------------------
(* Every step turns the report, but the two that account for revisions.    *)

LEMMA AlikeTurns == \A s : Turns(s, s)
BY DEF Turns, Alike

LEMMA TeardownTurns ==
    ASSUME NEW s, Ok(s)
    PROVE  Turns(s, Teardown(s))
<1>1. /\ Ok(Teardown(s)) /\ Teardown(s).host = "closed"
      /\ \/ Alike(s, Teardown(s))
         \/ /\ Teardown(s).public = "closed" /\ Teardown(s).phase = "terminated"
            /\ s.phase # "terminated"
  BY TeardownTells
<1> QED BY <1>1 DEF Turns, Muted, Shut, Capturing

LEMMA UnsubscribeTurns ==
    ASSUME NEW s, Ok(s)
    PROVE  Turns(s, [Dispose(s) EXCEPT !.held = FALSE])
<1> DEFINE i == Invalidate(s)
<1> DEFINE e == [i EXCEPT !.phase = "terminated", !.public = "closed", !.registered = FALSE]
<1> DEFINE d == Dispose(s)
<1> DEFINE t == [d EXCEPT !.held = FALSE]
<1>1. d = IF s.phase = "terminated" THEN s ELSE e
  BY DEF Dispose
<1>2. Ok(i) /\ i.host = s.host
  BY InvalidateOk
<1> HIDE DEF i, d
<1>3. IsRec(e)
  BY <1>2 DEF Ok, IsRec
<1>4. Typed(e) /\ e.phase = "terminated" /\ e.public = "closed" /\ e.host = s.host
  BY <1>2 DEF Ok, IsRec, Fields, Typed, Phases, PublicStates
<1> HIDE DEF e
<1>5. Ok(d)
  BY <1>1, <1>3, <1>4 DEF Ok
<1>6. IsRec(t)
  BY <1>5 DEF Ok, IsRec
<1>7. /\ Typed(t) /\ t.phase = d.phase /\ t.public = d.public /\ t.host = d.host
      /\ t.queue = d.queue /\ t.inFlight = d.inFlight
  BY <1>5 DEF Ok, IsRec, Fields, Typed
<1> HIDE DEF t
<1>8. Turns(s, t)
  BY <1>1, <1>4, <1>6, <1>7 DEF Turns, Alike, Muted, Ok, Capturing
<1> QED BY <1>8 DEF t, d

LEMMA RevokeTurns ==
    ASSUME NEW s, Ok(s), NEW revoked \in BOOLEAN
    PROVE  LET r == [s EXCEPT !.task.revoked = revoked]
           IN  Turns(s, IF s.held THEN Fail(r) ELSE r)
<1> DEFINE k == [s.task EXCEPT !.revoked = revoked]
<1> DEFINE r == [s EXCEPT !.task = k]
<1>1. [s EXCEPT !.task.revoked = revoked] = r
  OBVIOUS
<1>2. k \in TaskType
  BY DEF Ok, Typed, TaskType
<1> HIDE DEF k
<1>3. IsRec(r)
  BY DEF Ok, IsRec
<1>4. /\ Typed(r) /\ r.phase = s.phase /\ r.public = s.public /\ r.host = s.host
      /\ r.queue = s.queue /\ r.inFlight = s.inFlight
  BY <1>2 DEF Ok, IsRec, Fields, Typed
<1> HIDE DEF r
<1>5. Turns(s, r)
  BY <1>4 DEF Turns, Alike
<1>6. Turns(s, Fail(r))
  <2>1. CASE r.phase = "terminated"
    BY <1>5, <2>1 DEF Fail
  <2>2. CASE r.phase # "terminated"
    <3>1. Muted(r, Fail(r))
      BY <1>3, <1>4, <2>2, FailMutes DEF Ok
    <3> QED BY <1>4, <2>2, <3>1 DEF Turns, Muted
  <2> QED BY <2>1, <2>2
<1> QED BY <1>1, <1>5, <1>6

LEMMA HostTurns ==
    ASSUME NEW s, Ok(s), NEW host, s.host \in Shut => host \in Shut
    PROVE  Turns(s, [s EXCEPT !.host = host])
<1> DEFINE t == [s EXCEPT !.host = host]
<1>1. /\ t.phase = s.phase /\ t.public = s.public /\ t.queue = s.queue
      /\ t.inFlight = s.inFlight /\ t.host = host
  BY DEF Ok, IsRec, Fields
<1> QED BY <1>1 DEF Turns, Alike

LEMMA StartTurns ==
    ASSUME NEW s, Ok(s), s.phase # "terminated"
    PROVE  Turns(s, BeginAttempt([s EXCEPT !.registered = TRUE, !.held = TRUE], FALSE))
<1> DEFINE t == [s EXCEPT !.registered = TRUE, !.held = TRUE]
<1>1. IsRec(t)
  BY DEF Ok, IsRec
<1>2. Typed(t) /\ t.host = s.host
  BY DEF Ok, IsRec, Fields, Typed
<1> HIDE DEF t
<1>3. Muted(t, BeginAttempt(t, FALSE))
  BY <1>1, <1>2, BeginAttemptMutes DEF Ok
<1>4. Muted(s, BeginAttempt(t, FALSE))
  BY <1>2, <1>3 DEF Muted
<1> QED BY <1>4 DEF Turns, t

LEMMA RetryTurns ==
    ASSUME NEW s, Ok(s)
    PROVE  LET t == [s EXCEPT !.timer = "none"]
           IN  Turns(s, t) /\ (t.phase = "backoff" => Turns(s, BeginAttempt(t, TRUE)))
<1> DEFINE t == [s EXCEPT !.timer = "none"]
<1>1. IsRec(t)
  BY DEF Ok, IsRec
<1>2. /\ Typed(t) /\ t.phase = s.phase /\ t.public = s.public /\ t.host = s.host
      /\ t.queue = s.queue /\ t.inFlight = s.inFlight
  BY DEF Ok, IsRec, Fields, Typed
<1> HIDE DEF t
<1>3. Muted(t, BeginAttempt(t, TRUE))
  BY <1>1, <1>2, BeginAttemptMutes DEF Ok
<1>4. Muted(s, BeginAttempt(t, TRUE))
  BY <1>2, <1>3 DEF Muted
<1> QED BY <1>2, <1>4 DEF Turns, Alike, t

LEMMA RequestResyncTurns ==
    ASSUME NEW s, Ok(s)
    PROVE  Turns(s, RequestResync(s))
<1> DEFINE t == [s EXCEPT !.attempts = 0]
<1>1. IsRec(t)
  BY DEF Ok, IsRec
<1>2. Typed(t) /\ t.host = s.host
  <2>1. 0 \in Nat
    OBVIOUS
  <2> QED BY <2>1 DEF Ok, IsRec, Fields, Typed
<1>3. \/ RequestResync(s) = s
      \/ s.phase # "terminated" /\ RequestResync(s) = BeginAttempt(s, TRUE)
      \/ s.phase # "terminated" /\ RequestResync(s) = BeginAttempt(t, TRUE)
  BY DEF RequestResync
<1> HIDE DEF t
<1>4. Muted(t, BeginAttempt(t, TRUE)) /\ Muted(s, BeginAttempt(s, TRUE))
  BY <1>1, <1>2, BeginAttemptMutes DEF Ok
<1>5. Muted(s, BeginAttempt(t, TRUE))
  BY <1>2, <1>4 DEF Muted
<1> QED BY <1>3, <1>4, <1>5, AlikeTurns DEF Turns

LEMMA TurnsStep ==
    ASSUME GapEvents = {}, Surroundings, NEW p, Good(sub, p), Reported(sub), [Next]_vars,
           ~Receipt, ~RecordAdmitted
    PROVE  Turns(sub, sub')
<1>0. Ok(sub) /\ sub.task \in TaskType /\ source \in SourceType
  BY DEF Good, Ok, Typed, Surroundings
<1>1. CASE Start
  BY <1>0, <1>1, StartTurns DEF Start
<1>2. CASE AuthorizeReturns
  <2>1. Turns(sub, EndTask(sub))
    BY <1>0, EndTaskTells DEF Turns
  <2> QED BY <1>2, <2>1, AuthorizedTurns DEF AuthorizeReturns
<1>3. CASE Admitted
  <2>1. source.ready \in BOOLEAN
    BY <1>0 DEF SourceType
  <2> QED BY <1>3, <2>1, StartCaptureTurns DEF Admitted
<1>4. CASE SnapshotAdmission
  <2> DEFINE k == [sub.task EXCEPT !.step = "snapshot", !.floor = domain,
                                   !.boundary = source.boundary]
  <2>1. \/ sub' = EndTask(sub)
        \/ sub' = [sub EXCEPT !.task = k]
        \/ sub.task.fresh /\ sub' = EndTask(AttemptFailed(sub))
    BY <1>4 DEF SnapshotAdmission
  <2> HIDE DEF k
  <2>2. Turns(sub, EndTask(sub)) /\ Turns(sub, [sub EXCEPT !.task = k])
    BY <1>0, EndTaskTells, RetaskTurns DEF Turns
  <2>3. sub.task.fresh => Turns(sub, EndTask(AttemptFailed(sub)))
    BY <1>0, RunningFacts, EndedTurns
  <2> QED BY <2>1, <2>2, <2>3
<1>5. CASE SnapshotFails
  <2>1. Turns(sub, EndTask(sub))
    BY <1>0, EndTaskTells DEF Turns
  <2>2. sub.task.fresh => /\ Turns(sub, EndTask(AttemptFailed(sub)))
                          /\ Turns(sub, EndTask(Fail(sub)))
    BY <1>0, RunningFacts, EndedTurns
  <2> QED BY <1>5, <2>1, <2>2 DEF SnapshotFails
<1>6. CASE SnapshotReturns
  <2>1. Turns(sub, EndTask(sub))
    BY <1>0, EndTaskTells DEF Turns
  <2> QED BY <1>6, <2>1, SnapshotAnsweredTurns DEF SnapshotReturns
<1>7. CASE Cleared
  BY <1>7, SendSnapshotTurns DEF Cleared
<1>8. CASE RetryTimer
  BY <1>0, <1>8, RetryTurns DEF RetryTimer
<1>9. CASE ReceiptTimer \/ SessionCloses
  BY <1>0, <1>9, TeardownTurns DEF ReceiptTimer, SessionCloses
<1>10. CASE Resync
  BY <1>0, <1>10, RequestResyncTurns DEF Resync
<1>11. CASE Unsubscribe
  BY <1>0, <1>11, UnsubscribeTurns DEF Unsubscribe
<1>12. CASE Revoke
  <2> DEFINE revoked == sub.task.step \in {"authorize", "recheck"}
  <2>1. sub' = LET r == [sub EXCEPT !.task.revoked = revoked]
               IN  IF sub.held THEN Fail(r) ELSE r
    BY <1>12 DEF Revoke
  <2>2. revoked \in BOOLEAN
    OBVIOUS
  <2> HIDE DEF revoked
  <2> QED BY <1>0, <2>1, <2>2, RevokeTurns
<1>13. CASE Expires
  BY <1>0, <1>13, HostTurns DEF Expires, Shut
<1>14. CASE ClientStalls
  <2> DEFINE host == IF sub.host = "open" THEN "stalled" ELSE "open"
  <2>1. sub' = [sub EXCEPT !.host = host] /\ sub.host \notin Shut
    BY <1>14 DEF ClientStalls, Shut
  <2> HIDE DEF host
  <2> QED BY <1>0, <2>1, HostTurns
<1>15. CASE SourceDown
  BY <1>0, <1>15, SourceUnavailableMutes, AlikeTurns DEF SourceDown, Turns
<1>16. CASE SourceUp
  <2>1. sub' = sub \/ (sub.phase # "terminated" /\ sub' = BeginAttempt(sub, TRUE))
    BY <1>16 DEF SourceUp, OnSourceReady
  <2> QED BY <1>0, <2>1, BeginAttemptMutes, AlikeTurns DEF Turns
<1>17. CASE UNCHANGED sub
  BY <1>17, AlikeTurns
<1>18. \/ Start \/ AuthorizeReturns \/ Admitted \/ SnapshotAdmission \/ SnapshotFails
       \/ SnapshotReturns \/ Cleared \/ RetryTimer \/ ReceiptTimer \/ SessionCloses
       \/ Resync \/ Unsubscribe \/ Revoke \/ Expires \/ ClientStalls \/ SourceDown
       \/ SourceUp \/ UNCHANGED sub
  BY DEF Next, vars, Attempt, Client, Connection, Environment, DomainWrite, SetBoundary,
     AdvancePast, RetireBoundary
<1> QED
  BY <1>1, <1>2, <1>3, <1>4, <1>5, <1>6, <1>7, <1>8, <1>9, <1>10, <1>11, <1>12, <1>13,
     <1>14, <1>15, <1>16, <1>17, <1>18

-----------------------------------------------------------------------------
(* The abstract steps, in terms of one record.                             *)

\* What a live view still owes, and that it covers the newest revision p.
Covering(s, p) == s.lastDelivered >= p \/ \E r \in Kept(s) : r >= p

LEMMA OwesNewest ==
    ASSUME NEW s, NEW p \in Nat, Good(s, p), s.public = "live", ~OverIn(s)
    PROVE  Covering(s, p)
<1>1. Ok(s) /\ s.phase = "live"
  BY DEF Good
<1>2. ReadingIn(s)
  BY <1>1 DEF Ok, Typed, OverIn, Shut, ReadingIn
<1>3. /\ p <= s.tail
      /\ \/ s.tail <= s.lastDelivered
         \/ s.tail <= s.inFlight.revision
         \/ LastIn(s, s.tail)
  BY <1>1, <1>2 DEF Good, TailCoversIn
<1>4. /\ s.tail \in Int /\ s.lastDelivered \in Int /\ s.inFlight.revision \in Int
      /\ s.lastDelivered >= 0 /\ s.queue \in Seq(Revisions)
  <2>1. /\ s.tail \in Revisions /\ s.lastDelivered \in Revisions
        /\ s.inFlight.revision \in Revisions /\ s.queue \in Seq(Revisions)
    BY <1>1 DEF Ok, Typed
  <2> QED BY <2>1, RevisionsInt DEF Revisions
<1>5. CASE s.tail <= s.inFlight.revision
  <2>1. CASE s.inFlight.revision = 0
    BY <1>3, <1>4, <1>5, <2>1 DEF Covering
  <2>2. CASE s.inFlight.revision # 0
    <3>1. s.inFlight.revision \in Kept(s)
      BY <2>2 DEF Kept
    <3>2. s.inFlight.revision >= p
      BY <1>3, <1>4, <1>5
    <3> QED BY <3>1, <3>2 DEF Covering
  <2> QED BY <2>1, <2>2
<1>6. CASE LastIn(s, s.tail)
  <2>1. Len(s.queue) \in DOMAIN s.queue
    BY <1>4, <1>6, QueueFacts, LenProperties DEF LastIn
  <2>2. s.tail \in Kept(s)
    BY <1>6, <2>1 DEF LastIn, Kept
  <2> QED BY <1>3, <1>4, <2>2 DEF Covering
<1>7. CASE s.tail <= s.lastDelivered
  BY <1>3, <1>4, <1>7 DEF Covering
<1> QED BY <1>3, <1>5, <1>6, <1>7

LEMMA LiveRevisions ==
    ASSUME NEW s, Accounted(s, 0), s.phase = "live"
    PROVE  Positive(s) /\ Kept(s) \subseteq 1..MaxRevision
<1>1. Forward(s) /\ Ok(s)
  BY DEF Accounted, Delivering
<1>2. s.inFlight.revision \in Revisions /\ s.queue \in Seq(Revisions)
  BY <1>1 DEF Ok, Typed
<1>3. DOMAIN s.queue = 1..Len(s.queue) /\ \A i \in 1..Len(s.queue) : s.queue[i] \in Revisions
  BY <1>2, QueueFacts, LenProperties
<1>4. Positive(s)
  <2> SUFFICES ASSUME NEW i \in 1..Len(s.queue) PROVE s.queue[i] > 0
    BY DEF Positive
  <2>1. s.queue[i] > s.inFlight.revision
    BY <1>1 DEF Forward
  <2>2. s.queue[i] \in Int /\ s.inFlight.revision \in Int /\ s.inFlight.revision >= 0
    BY <1>2, <1>3 DEF Revisions
  <2> QED BY <2>1, <2>2
<1>5. \A r \in Revisions : r > 0 => r \in 1..MaxRevision
  BY BoundsAssumption DEF Revisions
<1>6. \A r \in Revisions : r # 0 => r > 0
  BY BoundsAssumption DEF Revisions
<1>7. ASSUME NEW r \in Kept(s) PROVE r \in 1..MaxRevision
  <2>1. CASE r \in {s.queue[i] : i \in DOMAIN s.queue}
    BY <1>3, <1>4, <1>5, <2>1 DEF Positive
  <2>2. CASE r \in {s.inFlight.revision} \ {0}
    BY <1>2, <1>5, <1>6, <2>2
  <2> QED BY <2>1, <2>2 DEF Kept
<1> QED BY <1>4, <1>7

LEMMA StuttersWhen ==
    ASSUME StatusIn(sub') = StatusIn(sub), OwedIn(sub') = OwedIn(sub),
           sub'.lastDelivered = sub.lastDelivered, processed' = processed
    PROVE  UNCHANGED Promise!vars
BY DEF Promise!vars, StatusIn, OwedIn, OverIn, Kept, Over, Pending, Finished, Shut

LEMMA LeavesWhen ==
    ASSUME StatusIn(sub) # "ended",
           StatusIn(sub') \in {"authorizing", "synchronizing", "stale", "resync-required",
                               "ended"},
           OwedIn(sub') = {},
           sub'.lastDelivered \in
               (IF StatusIn(sub) = "live" THEN sub.lastDelivered..MaxRevision
                ELSE {sub.lastDelivered}),
           processed' = processed
    PROVE  Promise!Leave
BY DEF Promise!Leave, Promise!Ended, Promise!Unsettled, StatusIn, OwedIn, OverIn, Kept, Over,
   Pending, Finished, Shut

LEMMA LateWhen ==
    ASSUME StatusIn(sub) = "ended", StatusIn(sub') = "ended", OwedIn(sub') = OwedIn(sub),
           sub'.lastDelivered \in sub.lastDelivered..MaxRevision, processed' = processed
    PROVE  Promise!Late
BY DEF Promise!Late, Promise!Ended, StatusIn, OwedIn, OverIn, Kept, Over, Pending, Finished, Shut

LEMMA ConfirmsWhen ==
    ASSUME StatusIn(sub) = "live", StatusIn(sub') = "live", NEW revision \in OwedIn(sub),
           sub'.lastDelivered = IF revision > sub.lastDelivered THEN revision
                                ELSE sub.lastDelivered,
           OwedIn(sub') = OwedIn(sub) \ {revision}, processed' = processed
    PROVE  Promise!Confirm
BY DEF Promise!Confirm, StatusIn, OwedIn, OverIn, Kept, Over, Pending, Finished, Shut

LEMMA SynchronizesWhen ==
    ASSUME StatusIn(sub) = "synchronizing",
           sub'.lastDelivered \in sub.lastDelivered..MaxRevision,
           StatusIn(sub') \in {"authorizing", "synchronizing", "stale", "resync-required",
                               "live", "ended"},
           OwedIn(sub') \in SUBSET (1..MaxRevision),
           IF StatusIn(sub') = "live" THEN Covering(sub', processed) ELSE OwedIn(sub') = {},
           processed' = processed
    PROVE  Promise!Synchronize
<1>1. StatusIn(sub') = "live" => OwedIn(sub') = Kept(sub')
  BY DEF StatusIn, OwedIn
<1> QED BY <1>1 DEF Promise!Synchronize, Promise!Ended, Promise!Unsettled, Promise!Covers,
        Covering, StatusIn, OwedIn, OverIn, Kept, Over, Pending, Finished, Shut
\* A record that every view not live ignores.
LEMMA IgnoresWhen ==
    ASSUME NEW revision \in 1..MaxRevision, processed' = Max2(processed, revision),
           processed \in Nat,
           sub'.lastDelivered = sub.lastDelivered, StatusIn(sub) # "live",
           StatusIn(sub') = StatusIn(sub), OwedIn(sub') = OwedIn(sub)
    PROVE  Promise!Publish
<1>1. processed' = IF revision > processed THEN revision ELSE processed
  BY DEF Max2
<1> QED BY <1>1 DEF Promise!Publish, StatusIn, OwedIn, OverIn, Kept, Over, Pending, Finished,
        Shut

\* A record that a live view accepts.
LEMMA AcceptsWhen ==
    ASSUME NEW revision \in 1..MaxRevision, processed' = Max2(processed, revision),
           processed \in Nat,
           sub'.lastDelivered = sub.lastDelivered, StatusIn(sub) = "live",
           StatusIn(sub') = "live", NEW fresh \in SUBSET (1..MaxRevision),
           OwedIn(sub') = OwedIn(sub) \cup fresh, Covering(sub', processed')
    PROVE  Promise!Publish
<1>1. processed' = IF revision > processed THEN revision ELSE processed
  BY DEF Max2
<1>2. OwedIn(sub') = Kept(sub')
  BY DEF StatusIn, OwedIn
<1>3. sub.lastDelivered >= processed' \/ \E r \in OwedIn(sub') : r >= processed'
  BY <1>2 DEF Covering
<1> QED BY <1>1, <1>3 DEF Promise!Publish, Promise!Covers, StatusIn, OwedIn, OverIn, Kept, Over,
        Pending, Finished, Shut

\* A record that ends the attempt or the live state.
LEMMA DropsWhen ==
    ASSUME NEW revision \in 1..MaxRevision, processed' = Max2(processed, revision),
           processed \in Nat,
           sub'.lastDelivered = sub.lastDelivered, StatusIn(sub) \notin {"ended", "idle"},
           StatusIn(sub') \in {"authorizing", "synchronizing", "stale", "resync-required",
                               "ended"},
           OwedIn(sub') = {}
    PROVE  Promise!Publish
<1>1. processed' = IF revision > processed THEN revision ELSE processed
  BY DEF Max2
<1> QED BY <1>1 DEF Promise!Publish, Promise!Ended, Promise!Unsettled, StatusIn, OwedIn, OverIn,
        Kept, Over, Pending, Finished, Shut

-----------------------------------------------------------------------------
(* The refinement.                                                         *)

LEMMA ReportedOn ==
    ASSUME NEW s, Reported(s), NEW t, Turns(s, t) \/ Muted(s, t) \/ Onward(s, t)
    PROVE  Reported(t)
BY DEF Reported, Turns, Alike, Muted, Onward, Capturing, Syncing, Finished

LEMMA CapturesOnward ==
    ASSUME NEW s, Reported(s), Ok(s), s.phase \in Capturing
    PROVE  /\ Onward(s, s)
           /\ s.public \in {"live", "synchronizing"} /\ s.public \notin Finished
           /\ s.phase = "live" <=> s.public = "live"
BY DEF Reported, Onward, Capturing, Syncing, Finished

\* What falls silent leaves the live state, and owes nothing.
LEMMA MutedStatus ==
    ASSUME NEW s, NEW t, Muted(s, t)
    PROVE  /\ StatusIn(t) \in {"authorizing", "stale", "resync-required", "ended"}
           /\ OwedIn(t) = {}
           /\ s.host \in Shut => StatusIn(t) = "ended"
<1>1. t.public \in PublicStates \ {"idle", "live", "synchronizing"}
  BY DEF Muted, Ok, Typed
<1> QED BY <1>1 DEF Muted, StatusIn, OwedIn, OverIn, PublicStates, Finished

LEMMA EndedStatus ==
    ASSUME NEW s, Ok(s)
    PROVE  /\ StatusIn(s) = "ended" <=> OverIn(s)
           /\ OverIn(s) => OwedIn(s) = {}
           /\ StatusIn(s) # "live" => OwedIn(s) = {}
           /\ StatusIn(s) \in {"idle", "authorizing", "synchronizing", "live", "stale",
                               "resync-required", "ended"}
<1>1. s.public \in PublicStates
  BY DEF Ok, Typed
<1> QED BY <1>1 DEF StatusIn, OwedIn, OverIn, PublicStates, Finished

\* Neither a receipt nor a record: a stutter, or the view leaves its state.
LEMMA TurnsMap ==
    ASSUME Reported(sub), Ok(sub), Ok(sub'), Turns(sub, sub'), processed' = processed,
           sub'.lastDelivered = sub.lastDelivered
    PROVE  Promise!Leave \/ UNCHANGED Promise!vars
<1>1. sub'.lastDelivered \in
         (IF StatusIn(sub) = "live" THEN sub.lastDelivered..MaxRevision
          ELSE {sub.lastDelivered})
  <2>1. sub.lastDelivered \in 0..MaxRevision
    BY DEF Ok, Typed, Revisions
  <2>2. sub.lastDelivered \in sub.lastDelivered..MaxRevision
    BY <2>1, BoundsAssumption
  <2> QED BY <2>2
<1>2. CASE Alike(sub, sub')
  <2>1. CASE OverIn(sub) <=> OverIn(sub')
    <3>1. StatusIn(sub') = StatusIn(sub) /\ OwedIn(sub') = OwedIn(sub)
      BY <1>2, <2>1 DEF Alike, StatusIn, OwedIn, Kept
    <3> QED BY <3>1, StuttersWhen
  <2>2. CASE ~(OverIn(sub) <=> OverIn(sub'))
    <3>1. ~OverIn(sub) /\ OverIn(sub')
      BY <1>2, <2>2 DEF Alike, OverIn
    <3> QED BY <1>1, <3>1, EndedStatus, LeavesWhen
  <2> QED BY <2>1, <2>2
<1>3. CASE sub.phase # "terminated" /\ Muted(sub, sub')
  <2>1. OverIn(sub) => sub.host \in Shut
    BY <1>3 DEF OverIn, Reported
  <2>2. CASE OverIn(sub)
    <3>1. StatusIn(sub') = StatusIn(sub) /\ OwedIn(sub') = OwedIn(sub)
      BY <1>3, <2>1, <2>2, MutedStatus, EndedStatus
    <3> QED BY <3>1, StuttersWhen
  <2>3. CASE ~OverIn(sub)
    BY <1>1, <1>3, <2>3, MutedStatus, EndedStatus, LeavesWhen
  <2> QED BY <2>2, <2>3
<1>4. CASE sub.phase # "terminated" /\ Onward(sub, sub') /\ sub'.phase # "live"
  <2>1. sub'.public = "synchronizing" /\ sub'.host = sub.host
    BY <1>4 DEF Onward
  <2>2. CASE OverIn(sub)
    <3>1. OverIn(sub')
      BY <1>4, <2>1, <2>2 DEF OverIn, Reported
    <3>2. StatusIn(sub') = StatusIn(sub) /\ OwedIn(sub') = OwedIn(sub)
      BY <2>2, <3>1, EndedStatus
    <3> QED BY <3>2, StuttersWhen
  <2>3. CASE ~OverIn(sub)
    <3>1. StatusIn(sub') = "synchronizing" /\ OwedIn(sub') = {}
      BY <2>1, <2>3 DEF OverIn, StatusIn, OwedIn, Finished
    <3> QED BY <1>1, <2>3, <3>1, EndedStatus, LeavesWhen
  <2> QED BY <2>2, <2>3
<1> QED BY <1>2, <1>3, <1>4 DEF Turns

\* Gateway.#admit of one record.
LEMMA RecordMap ==
    ASSUME Reported(sub), Accounted(sub, 0), Good(sub, processed), Surroundings,
           Accounted(sub', 0), Good(sub', processed'), processed' \in Nat,
           sub'.lastDelivered = sub.lastDelivered, RecordAdmitted
    PROVE  Reported(sub') /\ Promise!Publish
<1>1. PICK revision \in 1..domain, room \in BOOLEAN :
         /\ sub' = IF sub.routed THEN Admit(sub, revision, room) ELSE sub
         /\ processed' = Max2(processed, revision)
  BY DEF RecordAdmitted
<1>2. revision \in 1..MaxRevision /\ revision \in Revisions /\ revision > 0
      /\ processed \in Nat
  BY BoundsAssumption DEF Surroundings, Revisions
<1>3. Ok(sub) /\ Ok(sub')
  BY DEF Good
<1>4. CASE sub' = sub
  <2>1. CASE StatusIn(sub) = "live"
    <3>1. Covering(sub', processed')
      <4>1. sub'.public = "live" /\ ~OverIn(sub')
        BY <1>4, <2>1 DEF StatusIn
      <4> QED BY <4>1, OwesNewest
    <3>2. OwedIn(sub') = OwedIn(sub) \cup {} /\ {} \in SUBSET (1..MaxRevision)
      BY <1>4
    <3> QED BY <1>1, <1>2, <1>4, <2>1, <3>1, <3>2, AcceptsWhen
  <2>2. CASE StatusIn(sub) # "live"
    BY <1>1, <1>2, <1>4, <2>2, IgnoresWhen
  <2> QED BY <1>4, <2>1, <2>2
<1>5. CASE sub' # sub
  <2>1. sub' = Admit(sub, revision, room) /\ sub.phase \in Capturing
    BY <1>1, <1>5 DEF Good
  <2>2. sub.held
    BY <2>1 DEF Good, HeldOk, Capturing
  <2>3. /\ Onward(sub, sub) /\ sub.public \in {"live", "synchronizing"}
        /\ sub.public \notin Finished /\ (sub.phase = "live" <=> sub.public = "live")
    BY <1>3, <2>1, CapturesOnward
  <2>4. \/ Muted(sub, sub')
        \/ /\ Onward(sub, sub') /\ sub'.phase = sub.phase
           /\ Positive(sub) /\ revision > 0 /\ sub.host \notin Shut =>
                 Kept(sub') = Kept(sub) \cup {revision}
    BY <1>2, <1>5, <2>1, <2>2, <2>3, AdmitTells
  <2>5. Reported(sub')
    BY <2>4, ReportedOn
  <2>6. CASE OverIn(sub)
    <3>1. OverIn(sub')
      BY <2>3, <2>4, <2>6 DEF OverIn, Muted, Onward
    <3>2. StatusIn(sub) # "live" /\ StatusIn(sub') = StatusIn(sub)
          /\ OwedIn(sub') = OwedIn(sub)
      BY <1>3, <2>6, <3>1, EndedStatus
    <3> QED BY <1>1, <1>2, <2>5, <3>2, IgnoresWhen
  <2>7. CASE ~OverIn(sub) /\ Muted(sub, sub')
    <3>1. StatusIn(sub) \notin {"ended", "idle"}
      BY <2>3, <2>7 DEF StatusIn
    <3> QED BY <1>1, <1>2, <2>5, <2>7, <3>1, MutedStatus, DropsWhen
  <2>8. CASE ~OverIn(sub) /\ Onward(sub, sub') /\ sub'.phase = sub.phase
             /\ (Positive(sub) => Kept(sub') = Kept(sub) \cup {revision})
    <3>1. sub'.public = sub.public /\ sub'.host = sub.host
      BY <2>3, <2>8 DEF Onward
    <3>2. ~OverIn(sub') /\ StatusIn(sub') = StatusIn(sub) /\ StatusIn(sub) = sub.public
      BY <2>8, <3>1 DEF OverIn, StatusIn
    <3>3. CASE sub.public = "live"
      <4>1. Kept(sub') = Kept(sub) \cup {revision}
        BY <2>3, <2>8, <3>3, LiveRevisions
      <4>2. OwedIn(sub') = OwedIn(sub) \cup {revision} /\ {revision} \in SUBSET (1..MaxRevision)
        BY <1>2, <2>8, <3>1, <3>2, <3>3, <4>1 DEF OwedIn
      <4>3. Covering(sub', processed')
        BY <3>1, <3>2, <3>3, OwesNewest
      <4> QED BY <1>1, <1>2, <2>5, <3>2, <3>3, <4>2, <4>3, AcceptsWhen
    <3>4. CASE sub.public # "live"
      <4>1. OwedIn(sub') = OwedIn(sub)
        BY <3>1, <3>4 DEF OwedIn
      <4> QED BY <1>1, <1>2, <2>5, <3>2, <3>4, <4>1, IgnoresWhen
    <3> QED BY <3>3, <3>4
  <2>9. OverIn(sub) \/ sub.host \notin Shut
    BY DEF OverIn
  <2> QED BY <1>2, <2>4, <2>6, <2>7, <2>8, <2>9
<1> QED BY <1>4, <1>5

\* ServerSubscription.onReceipt, with whatever sequence the client sent.
LEMMA ReceiptMap ==
    ASSUME Reported(sub), AtRest(sub), Good(sub, processed), processed \in Nat,
           Accounted(sub', 0), Good(sub', processed'), processed' = processed,
           sub'.lastDelivered >= sub.lastDelivered, Receipt
    PROVE  /\ Reported(sub')
           /\ Promise!Next \/ UNCHANGED Promise!vars
<1>1. PICK sequence : sub' = OnReceipt(sub, sequence)
  BY DEF Receipt
<1>2. Ok(sub) /\ Ok(sub') /\ Accounted(sub, 0) /\ sub.task.step # "cleared"
  BY DEF Good, AtRest, Receipt, Quiet, InGap
<1>3. sub.phase = "capturing" => sub.inFlight = NoFrame
  BY DEF Good, TailIsBufferedIn
<1>4. \/ sub' = sub
      \/ sub.phase \in Capturing /\ Muted(sub, sub')
      \/ /\ sub.phase \in Capturing \ {"capturing"} /\ sub.inFlight # NoFrame
         /\ Onward(sub, sub') /\ sub' = Confirm(sub)
         /\ sub.phase = "live" => sub'.phase = "live"
         /\ /\ sub.phase = "live" /\ sub.host \notin Shut
            /\ \A i \in 1..Len(sub.queue) : sub.queue[i] > sub.inFlight.revision
            => Kept(sub') = Kept(sub) \ {sub.inFlight.revision}
  BY <1>1, <1>2, <1>3, OnReceiptTells DEF Receipt
<1>5. sub'.lastDelivered \in sub.lastDelivered..MaxRevision
  BY <1>2, BoundsAssumption DEF Ok, Typed, Revisions
<1>6. CASE sub' = sub
  BY <1>6, StuttersWhen
<1>7. ASSUME sub.phase \in Capturing, Muted(sub, sub') \/ Onward(sub, sub'), OverIn(sub)
      PROVE  Promise!Late
  <2>1. sub.public \notin Finished
    BY <1>2, <1>7, CapturesOnward
  <2>2. OverIn(sub')
    BY <1>7, <2>1 DEF OverIn, Muted, Onward
  <2> QED BY <1>2, <1>5, <1>7, <2>2, EndedStatus, LateWhen
<1>8. CASE sub.phase \in Capturing /\ Muted(sub, sub')
  <2>1. Reported(sub')
    BY <1>8, ReportedOn
  <2>2. CASE ~OverIn(sub)
    <3>1. StatusIn(sub) \in {"live", "synchronizing"}
      BY <1>2, <1>8, <2>2, CapturesOnward DEF StatusIn
    <3>2. /\ StatusIn(sub') \in {"authorizing", "stale", "resync-required", "ended"}
          /\ OwedIn(sub') = {}
      BY <1>8, MutedStatus
    <3>3. CASE StatusIn(sub) = "live"
      BY <1>5, <2>1, <3>2, <3>3, LeavesWhen DEF Promise!Next
    <3>4. CASE StatusIn(sub) = "synchronizing"
      BY <1>5, <2>1, <3>2, <3>4, SynchronizesWhen DEF Promise!Next
    <3> QED BY <2>1, <3>1, <3>3, <3>4
  <2> QED BY <1>7, <1>8, <2>1, <2>2 DEF Promise!Next
<1>9. CASE /\ sub.phase \in Capturing \ {"capturing"} /\ sub.inFlight # NoFrame
           /\ Onward(sub, sub') /\ sub' = Confirm(sub)
           /\ sub.phase = "live" => sub'.phase = "live"
           /\ /\ sub.phase = "live" /\ sub.host \notin Shut
              /\ \A i \in 1..Len(sub.queue) : sub.queue[i] > sub.inFlight.revision
              => Kept(sub') = Kept(sub) \ {sub.inFlight.revision}
  <2>1. Reported(sub')
    BY <1>9, ReportedOn
  <2>2. /\ sub.public \in {"live", "synchronizing"}
        /\ sub.phase = "live" <=> sub.public = "live"
    BY <1>2, <1>9, CapturesOnward
  <2>3. ASSUME ~OverIn(sub)
        PROVE  Promise!Confirm \/ Promise!Synchronize
    <3>1. /\ StatusIn(sub) = sub.public /\ ~OverIn(sub') /\ StatusIn(sub') = sub'.public
          /\ sub.host \notin Shut
      BY <1>9, <2>2, <2>3 DEF Onward, OverIn, StatusIn, Finished
    <3>2. CASE sub.phase = "live"
      <4> DEFINE r == sub.inFlight.revision
      <4>1. /\ r > 0 /\ r >= sub.lastDelivered
            /\ \A i \in 1..Len(sub.queue) : sub.queue[i] > r
        BY <1>2, <1>9, <3>2 DEF Accounted, Forward, Delivering
      <4>2. Kept(sub') = Kept(sub) \ {r} /\ r \in Kept(sub)
        <5>1. Kept(sub') = Kept(sub) \ {r}
          BY <1>9, <3>1, <3>2, <4>1
        <5>2. r # 0
          BY <4>1
        <5> QED BY <5>1, <5>2 DEF Kept
      <4>3. sub.public = "live" /\ sub'.public = "live"
        BY <1>9, <2>2, <3>2 DEF Onward
      <4>4. OwedIn(sub) = Kept(sub) /\ OwedIn(sub') = Kept(sub')
        BY <2>3, <3>1, <4>3 DEF OwedIn
      <4>5. sub'.lastDelivered = r
        BY <1>2, <1>9, ConfirmAccounted
      <4>6. sub'.lastDelivered = IF r > sub.lastDelivered THEN r ELSE sub.lastDelivered
        BY <1>2, <4>1, <4>5, DeliveredInt
      <4> QED BY <3>1, <4>2, <4>3, <4>4, <4>6, ConfirmsWhen
    <3>3. CASE sub.phase # "live"
      <4>1. StatusIn(sub) = "synchronizing" /\ sub'.public \in {"live", "synchronizing"}
            /\ (sub'.public = "live" <=> sub'.phase = "live")
        BY <1>9, <2>2, <3>1, <3>3 DEF Onward
      <4>2. OwedIn(sub') \in SUBSET (1..MaxRevision)
        BY <4>1, LiveRevisions DEF OwedIn
      <4>3. IF StatusIn(sub') = "live" THEN Covering(sub', processed) ELSE OwedIn(sub') = {}
        BY <3>1, OwesNewest DEF OwedIn
      <4> QED BY <1>5, <3>1, <4>1, <4>2, <4>3, SynchronizesWhen
    <3> QED BY <3>2, <3>3
  <2> QED BY <1>7, <1>9, <2>1, <2>3 DEF Promise!Next
<1> QED BY <1>4, <1>6, <1>8, <1>9

LEMMA PromiseInit == Init => Reported(sub) /\ Promise!Init
BY DEF Init, Reported, Finished, Syncing, Promise!Init, Over

LEMMA PromiseStep ==
    ASSUME GapEvents = {}, LaggingSnapshot = FALSE, IInv, Raced, Reported(sub), [Next]_vars
    PROVE  Reported(sub') /\ [Promise!Next]_(Promise!vars)
<1>1. /\ Good(sub, processed) /\ Surroundings /\ processed \in Nat
      /\ AtRest(sub) /\ Accounted(sub, 0)
  BY IInvIsGood, BoundsAssumption DEF Surroundings, Raced, AtRest
<1>2. /\ Good(sub', processed') /\ processed' \in Nat
  <2>1. Good(sub', processed') /\ domain' \in 1..MaxRevision /\ processed' \in 0..domain'
    BY IInvInductive, NextIInvIsGood
  <2> QED BY <2>1, BoundsAssumption
<1>3. /\ Accounted(sub', 0) /\ sub'.lastDelivered >= sub.lastDelivered
      /\ ~Receipt => sub'.lastDelivered = sub.lastDelivered
  BY RaceStep DEF AtRest
<1>4. ~RecordAdmitted => processed' = processed
  BY DEF Next, vars, Attempt, Client, Connection, Environment, Start, AuthorizeReturns,
     Admitted, SnapshotAdmission, SnapshotFails, SnapshotReturns, Cleared, RetryTimer,
     Receipt, ReceiptTimer, Resync, Unsubscribe, Revoke, SessionCloses, Expires,
     ClientStalls, DomainWrite, SourceDown, SourceUp, SetBoundary, AdvancePast,
     RetireBoundary
<1>5. CASE RecordAdmitted
  <2>1. sub'.lastDelivered = sub.lastDelivered
    <3>1. PICK revision \in 1..domain, room \in BOOLEAN :
             sub' = IF sub.routed THEN Admit(sub, revision, room) ELSE sub
      BY <1>5 DEF RecordAdmitted
    <3>2. revision \in Revisions /\ revision > 0
      BY <1>1, BoundsAssumption DEF Surroundings, Revisions
    <3> QED BY <1>1, <3>1, <3>2, AdmitAccounted DEF Follows, Trails
  <2> QED BY <1>1, <1>2, <1>3, <1>5, <2>1, RecordMap DEF Promise!Next
<1>6. CASE Receipt /\ ~RecordAdmitted
  BY <1>1, <1>2, <1>3, <1>4, <1>6, ReceiptMap
<1>7. CASE ~Receipt /\ ~RecordAdmitted
  <2>1. Turns(sub, sub')
    BY <1>1, <1>7, TurnsStep
  <2>2. Ok(sub) /\ Ok(sub')
    BY <1>1, <1>2 DEF Good
  <2> QED BY <1>3, <1>4, <1>7, <2>1, <2>2, ReportedOn, TurnsMap DEF Promise!Next
<1> QED BY <1>5, <1>6, <1>7

\* The gateway's side of a subscription implements the promise of a state channel
\* (README "a view never reports live while it shows anything other than the newest
\* state"): with authoritative snapshots and an empty microtask gap, whatever the
\* limits, #admit, #pump and onReceipt deliver every newer state to a live view or
\* take it out of live, and nothing is confirmed backwards or revived once ended.
THEOREM ImplementsItsPromise ==
    ASSUME GapEvents = {}, LaggingSnapshot = FALSE
    PROVE  Spec => ImplementsPromise
<1>1. IInv /\ Raced /\ Reported(sub) /\ [Next]_vars =>
         Reported(sub)' /\ [Promise!Next]_(Promise!vars)
  BY PromiseStep
<1> QED
  BY <1>1, PromiseInit, SubscriptionInvariant, RacedInvariant, PTL
     DEF Spec, ImplementsPromise, Promise!Spec

=============================================================================
