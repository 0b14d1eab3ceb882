---------------------------- MODULE FailureProofs ----------------------------
(***************************************************************************)
(* Proofs about KafkaSource and FailureService, for a partition of any     *)
(* length and any number of failures, disruptions, restarts and jobs.      *)
(*                                                                         *)
(* First the source.  Everything that may become the committed offset, or  *)
(* decide where the consumer goes on, stands behind accounted records      *)
(* only: records whose processing ended, or that the caller excused.       *)
(*                                                                         *)
(* Then the service.  Every step of it but a restart and a moved group is  *)
(* a step of the source or leaves it alone, so the source's invariant is   *)
(* kept with the offsets that were moved past counted as done; what is     *)
(* added ties what the adapter excused to what the journal says.           *)
(***************************************************************************)
EXTENDS FailureProperties, KafkaProperties, SequenceTheorems, TLAPS

\* The records that are done: finished, excused, or, by ext, moved past by somebody else.
Done(ext) == finished \cup excused \cup ext

\* Every record up to n is among the done ones.
Accounted(n, done) == \A offset \in Offsets : offset <= n => offset \in done

\* Where the consumer stands, the record under way, and the record it is held at.
PositionAccounted(a, done) ==
    /\ Accounted(a.position - 1, done)
    /\ a.stage # "none" => a.record # 0 /\ Accounted(a.record - 1, done)
    /\ a.stage = "committing" => Accounted(a.record, done)
    /\ Accounted(a.held - 1, done)

\* Every commit that waits, that failed, or that belongs to an advance.
CommitsAccounted(a, done) ==
    /\ \A i \in DOMAIN a.commits : Accounted(a.commits[i].offset, done)
    /\ Accounted(a.uncommitted, done)
    /\ Accounted(a.advance.offset, done)

\* A commit answered since the failure lies before the failed one: one at or after it
\* clears #uncommitted.
SettledBefore(a) == a.uncommitted # 0 => a.settled < a.uncommitted

\* The type of the adapter, field by field: what the provers can follow through EXCEPT.
Fields == {"paused", "status", "reported", "held", "assigned", "rebalancing", "running",
           "stopping", "position", "record", "stage", "current", "uncommitted", "retryable",
           "retrying", "settled", "commits", "advance"}

IsRec(a) == DOMAIN a = Fields /\ a = [x \in Fields |-> a[x]]

Statuses == {"starting", "healthy", "degraded", "paused"}
Typed(a) ==
    /\ a.paused \in BOOLEAN /\ a.assigned \in BOOLEAN /\ a.rebalancing \in BOOLEAN
    /\ a.running \in BOOLEAN /\ a.stopping \in BOOLEAN /\ a.current \in BOOLEAN
    /\ a.retryable \in BOOLEAN /\ a.retrying \in BOOLEAN
    /\ a.status \in Statuses /\ a.reported \in Statuses
    /\ a.held \in 0..LogSize /\ a.record \in 0..LogSize
    /\ a.uncommitted \in 0..LogSize /\ a.settled \in 0..LogSize
    /\ a.position \in Positions
    /\ a.stage \in {"none", "processing", "committing"}
    /\ a.commits \in Seq(CommitJob)
    /\ a.advance \in [step : AdvanceSteps, offset : 0..LogSize, current : BOOLEAN]

Covered(a, done) ==
    IsRec(a) /\ Typed(a) /\ PositionAccounted(a, done) /\ CommitsAccounted(a, done)

AdapterOK(a, done) == Covered(a, done) /\ SettledBefore(a)

\* The inductive invariant.
SourceInv(ext) ==
    /\ SourceTypeOK
    /\ Accounted(committed - 1, Done(ext))
    /\ AdapterOK(adapter, Done(ext))

-----------------------------------------------------------------------------
(* Methods.                                                                *)

LEMMA AdapterTypeIs == \A a : a \in AdapterType <=> IsRec(a) /\ Typed(a)
<1>1. ASSUME NEW a \in AdapterType PROVE IsRec(a) /\ Typed(a)
  BY <1>1 DEF AdapterType, Fields, IsRec, Typed, Statuses
<1>2. ASSUME NEW a, IsRec(a), Typed(a) PROVE a \in AdapterType
  BY <1>2 DEF AdapterType, Fields, IsRec, Typed, Statuses
<1> QED BY <1>1, <1>2

LEMMA SetStatusCovered ==
    ASSUME NEW a, NEW done, Covered(a, done), NEW status \in Statuses
    PROVE  LET t == SetStatus(a, status)
           IN  Covered(t, done) /\ t.settled = a.settled /\ t.uncommitted = a.uncommitted
<1> DEFINE b == [a EXCEPT !.status = status, !.reported = status]
<1>1. IsRec(b)
  BY DEF Covered, IsRec
<1>2. Typed(b)
  BY DEF Covered, IsRec, Fields, Typed
<1>3. /\ PositionAccounted(b, done) /\ CommitsAccounted(b, done)
      /\ b.settled = a.settled /\ b.uncommitted = a.uncommitted
  BY DEF Covered, IsRec, Fields, PositionAccounted, CommitsAccounted
<1> QED BY <1>1, <1>2, <1>3 DEF Covered, SetStatus

LEMMA SetStatusOK ==
    ASSUME NEW a, NEW done, AdapterOK(a, done), NEW status \in Statuses
    PROVE  AdapterOK(SetStatus(a, status), done)
BY SetStatusCovered DEF AdapterOK, SettledBefore

LEMMA ActiveCovered ==
    ASSUME NEW a, NEW done, Covered(a, done)
    PROVE  LET t == Active(a)
           IN  Covered(t, done) /\ t.settled = a.settled /\ t.uncommitted = a.uncommitted
BY SetStatusCovered DEF Active, Statuses

LEMMA ActiveOK ==
    ASSUME NEW a, NEW done, AdapterOK(a, done)
    PROVE  AdapterOK(Active(a), done)
BY ActiveCovered DEF AdapterOK, SettledBefore

LEMMA EnqueueOK ==
    ASSUME NEW a, NEW done, AdapterOK(a, done), NEW by \in {"record", "retry", "advance"},
           NEW offset \in Offsets, Accounted(offset, done)
    PROVE  AdapterOK(Enqueue(a, by, offset), done)
<1> DEFINE job == [by |-> by, offset |-> offset, current |-> TRUE]
<1> DEFINE q == Append(a.commits, job)
<1> DEFINE b == [a EXCEPT !.commits = q]
<1>1. q \in Seq(CommitJob) /\ \A i \in DOMAIN q : Accounted(q[i].offset, done)
  <2>1. a.commits \in Seq(CommitJob) /\ job \in CommitJob /\ job.offset = offset
    BY DEF AdapterOK, Covered, Typed, CommitJob
  <2> HIDE DEF job
  <2>2. /\ q \in Seq(CommitJob) /\ DOMAIN q = 1 .. Len(a.commits) + 1
        /\ DOMAIN a.commits = 1 .. Len(a.commits) /\ Len(a.commits) \in Nat
        /\ \A i \in 1 .. Len(a.commits) : q[i] = a.commits[i]
        /\ q[Len(a.commits) + 1] = job
    BY <2>1, AppendProperties, LenProperties
  <2> QED BY <2>1, <2>2 DEF AdapterOK, Covered, CommitsAccounted
<1> HIDE DEF q
<1>2. IsRec(b)
  BY DEF AdapterOK, Covered, IsRec
<1>3. Typed(b)
  BY <1>1 DEF AdapterOK, Covered, IsRec, Fields, Typed
<1>4. PositionAccounted(b, done) /\ CommitsAccounted(b, done) /\ SettledBefore(b)
  BY <1>1 DEF AdapterOK, Covered, IsRec, Fields, PositionAccounted, CommitsAccounted, SettledBefore
<1> QED BY <1>2, <1>3, <1>4 DEF AdapterOK, Covered, Enqueue, q

LEMMA NextEpochOK ==
    ASSUME NEW a, NEW done, AdapterOK(a, done)
    PROVE  AdapterOK(NextEpoch(a), done)
<1> DEFINE q == [i \in DOMAIN a.commits |-> [a.commits[i] EXCEPT !.current = FALSE]]
<1> DEFINE v == [a.advance EXCEPT !.current = FALSE]
<1> DEFINE b == [a EXCEPT !.current = FALSE, !.retryable = FALSE, !.commits = q, !.advance = v]
<1>1. q \in Seq(CommitJob) /\ \A i \in DOMAIN q : Accounted(q[i].offset, done)
  <2>1. a.commits \in Seq(CommitJob)
    BY DEF AdapterOK, Covered, Typed
  <2>2. Len(a.commits) \in Nat /\ DOMAIN a.commits = 1 .. Len(a.commits)
    BY <2>1, LenProperties
  <2>3. \A i \in DOMAIN a.commits :
           /\ [a.commits[i] EXCEPT !.current = FALSE] \in CommitJob
           /\ [a.commits[i] EXCEPT !.current = FALSE].offset = a.commits[i].offset
    <3>1. \A i \in DOMAIN a.commits : a.commits[i] \in CommitJob
      BY <2>1, <2>2, ElementOfSeq
    <3> QED BY <3>1 DEF CommitJob
  <2>4. q \in Seq(CommitJob)
    BY <2>2, <2>3
  <2> QED BY <2>3, <2>4 DEF AdapterOK, Covered, CommitsAccounted
<1>2. /\ v \in [step : AdvanceSteps, offset : 0..LogSize, current : BOOLEAN]
      /\ v.step = a.advance.step /\ v.offset = a.advance.offset
  BY DEF AdapterOK, Covered, Typed
<1>3. NextEpoch(a) = b
  BY DEF NextEpoch
<1> HIDE DEF q, v
<1>4. IsRec(b)
  BY DEF AdapterOK, Covered, IsRec
<1>5. Typed(b)
  BY <1>1, <1>2 DEF AdapterOK, Covered, IsRec, Fields, Typed
<1>6. PositionAccounted(b, done) /\ CommitsAccounted(b, done) /\ SettledBefore(b)
  BY <1>1, <1>2 DEF AdapterOK, Covered, IsRec, Fields, PositionAccounted, CommitsAccounted,
                    SettledBefore
<1> QED BY <1>3, <1>4, <1>5, <1>6 DEF AdapterOK, Covered

LEMMA PauseAtOK ==
    ASSUME NEW a, NEW done, AdapterOK(a, done),
           NEW offset \in Offsets, Accounted(offset - 1, done), NEW keep \in BOOLEAN
    PROVE  AdapterOK(PauseAt(a, offset, keep), done)
<1> DEFINE h == IF keep THEN offset ELSE a.held
<1> DEFINE b == [a EXCEPT !.paused = TRUE, !.status = "paused", !.reported = "paused",
                          !.position = offset, !.held = h]
<1>1. h \in 0..LogSize /\ Accounted(h - 1, done) /\ offset \in Positions
  BY LogAssumption DEF AdapterOK, Covered, Typed, PositionAccounted, Offsets, Positions
<1>2. PauseAt(a, offset, keep) = b
  BY DEF PauseAt
<1> HIDE DEF h
<1>3. IsRec(b)
  BY DEF AdapterOK, Covered, IsRec
<1>4. Typed(b)
  BY <1>1 DEF AdapterOK, Covered, IsRec, Fields, Typed, Statuses
<1>5. PositionAccounted(b, done) /\ CommitsAccounted(b, done) /\ SettledBefore(b)
  BY <1>1 DEF AdapterOK, Covered, IsRec, Fields, PositionAccounted, CommitsAccounted, SettledBefore
<1> QED BY <1>2, <1>3, <1>4, <1>5 DEF AdapterOK, Covered

LEMMA EndBatchOK ==
    ASSUME NEW a, NEW done, AdapterOK(a, done)
    PROVE  AdapterOK(EndBatch(a), done) /\ EndBatch(a).settled = a.settled
<1> DEFINE b == [a EXCEPT !.record = 0, !.stage = "none", !.current = FALSE]
<1>1. IsRec(b)
  BY DEF AdapterOK, Covered, IsRec
<1>2. Typed(b)
  BY LogAssumption DEF AdapterOK, Covered, IsRec, Fields, Typed
<1>3. PositionAccounted(b, done) /\ CommitsAccounted(b, done) /\ SettledBefore(b)
  BY DEF AdapterOK, Covered, IsRec, Fields, PositionAccounted, CommitsAccounted, SettledBefore
<1>4. b.settled = a.settled
  BY DEF AdapterOK, Covered, IsRec, Fields
<1> QED BY <1>1, <1>2, <1>3, <1>4 DEF AdapterOK, Covered, EndBatch

\* Done records stay done.
LEMMA MoreDone ==
    ASSUME NEW a, NEW done, NEW more, done \subseteq more, AdapterOK(a, done)
    PROVE  AdapterOK(a, more)
<1>1. \A n : Accounted(n, done) => Accounted(n, more)
  BY DEF Accounted
<1> QED BY <1>1 DEF AdapterOK, Covered, PositionAccounted, CommitsAccounted

\* A commit leaves the queue: an answered one may raise what is settled, which is why
\* the order is restored only by what its caller does with the answer.
LEMMA TakenOK ==
    ASSUME NEW a, NEW done, AdapterOK(a, done), a.commits # <<>>, NEW outcome
    PROVE  LET job == Head(a.commits)
               b == Taken(a, job, outcome)
           IN  /\ job \in CommitJob /\ Accounted(job.offset, done)
               /\ Covered(b, done)
               /\ b.uncommitted = a.uncommitted /\ b.running = a.running
               /\ outcome # "ok" => AdapterOK(b, done)
               /\ outcome = "ok" /\ b.uncommitted # 0 =>
                     b.settled < b.uncommitted \/ b.uncommitted <= job.offset
<1> DEFINE job == Head(a.commits)
<1> DEFINE n == IF outcome = "ok" /\ job.offset > a.settled THEN job.offset ELSE a.settled
<1> DEFINE q == Tail(a.commits)
<1> DEFINE b == [a EXCEPT !.commits = q, !.settled = n]
<1>1. /\ job \in CommitJob /\ Accounted(job.offset, done)
      /\ q \in Seq(CommitJob) /\ \A i \in DOMAIN q : Accounted(q[i].offset, done)
  <2>1. a.commits \in Seq(CommitJob) /\ Len(a.commits) \in Nat \ {0}
        /\ DOMAIN a.commits = 1 .. Len(a.commits)
    BY LenProperties, EmptySeq DEF AdapterOK, Covered, Typed
  <2>2. /\ job \in CommitJob /\ q \in Seq(CommitJob) /\ job = a.commits[1]
        /\ DOMAIN q = 1 .. Len(a.commits) - 1
        /\ \A i \in 1 .. Len(a.commits) - 1 : q[i] = a.commits[i + 1]
    <3>1. /\ q \in Seq(CommitJob) /\ Len(q) = Len(a.commits) - 1
          /\ \A i \in 1 .. Len(q) : q[i] = a.commits[i + 1]
          /\ job \in CommitJob
      BY <2>1, HeadTailProperties
    <3>2. job = a.commits[1]
      BY <2>1
    <3> HIDE DEF q, job
    <3> QED BY <3>1, <3>2, LenProperties
  <2> HIDE DEF q, job
  <2>3. 1 \in DOMAIN a.commits /\ \A i \in DOMAIN q : i + 1 \in DOMAIN a.commits
    BY <2>1, <2>2
  <2>4. \A i \in DOMAIN a.commits : Accounted(a.commits[i].offset, done)
    BY DEF AdapterOK, Covered, CommitsAccounted
  <2>5. \A i \in DOMAIN q : q[i] = a.commits[i + 1]
    BY <2>2
  <2> QED BY <2>2, <2>3, <2>4, <2>5
<1>2. Taken(a, job, outcome) = b
  BY DEF Taken
<1> HIDE DEF job, q
<1>3. n \in 0..LogSize
  BY <1>1, LogAssumption DEF AdapterOK, Covered, Typed, CommitJob, Offsets
<1>4. \/ n = a.settled
      \/ outcome = "ok" /\ n = job.offset
  OBVIOUS
<1>5. a.uncommitted \in Int /\ a.settled \in Int /\ job.offset \in Int
  BY <1>1 DEF AdapterOK, Covered, Typed, CommitJob, Offsets
<1> HIDE DEF n
<1>6. IsRec(b)
  BY DEF AdapterOK, Covered, IsRec
<1>7. Typed(b)
  BY <1>1, <1>3 DEF AdapterOK, Covered, IsRec, Fields, Typed
<1>8. PositionAccounted(b, done) /\ CommitsAccounted(b, done)
  BY <1>1 DEF AdapterOK, Covered, IsRec, Fields, PositionAccounted, CommitsAccounted
<1>9. b.uncommitted = a.uncommitted /\ b.settled = n /\ b.running = a.running
  BY DEF AdapterOK, Covered, IsRec, Fields
<1>10. outcome # "ok" => SettledBefore(b)
  BY <1>4, <1>9 DEF AdapterOK, Covered, SettledBefore
<1>11. outcome = "ok" /\ b.uncommitted # 0 =>
          b.settled < b.uncommitted \/ b.uncommitted <= job.offset
  BY <1>4, <1>5, <1>9 DEF AdapterOK, Covered, SettledBefore
<1> QED BY <1>1, <1>2, <1>6, <1>7, <1>8, <1>9, <1>10, <1>11 DEF AdapterOK, Covered, job

\* An answer at or after the failed commit clears it; a failed record is remembered with
\* nothing settled since.
LEMMA AnsweredOK ==
    ASSUME NEW a, NEW done, Covered(a, done), NEW job \in CommitJob,
           Accounted(job.offset, done), NEW ok \in BOOLEAN,
           a.uncommitted # 0 =>
              a.settled < a.uncommitted \/ (ok /\ a.uncommitted <= job.offset)
    PROVE  AdapterOK(Answered(a, job, ok), done)
<1> DEFINE u == IF ok /\ a.uncommitted <= job.offset THEN 0 ELSE a.uncommitted
<1> DEFINE t == [a EXCEPT !.uncommitted = u]
<1>1. u \in 0..LogSize /\ (u = 0 \/ u = a.uncommitted) /\ (u # 0 => a.settled < u)
  BY LogAssumption DEF Covered, Typed, CommitJob, Offsets
<1>2. Accounted(u, done)
  BY <1>1, LogAssumption DEF Accounted, Covered, CommitsAccounted, Offsets
<1>3. t = IF ok /\ a.uncommitted <= job.offset THEN [a EXCEPT !.uncommitted = 0] ELSE a
  <2>1. CASE ok /\ a.uncommitted <= job.offset
    BY <2>1
  <2>2. CASE ~(ok /\ a.uncommitted <= job.offset)
    <3>1. t = [a EXCEPT !.uncommitted = a.uncommitted]
      BY <2>2
    <3> QED BY <2>2, <3>1 DEF Covered, IsRec, Fields
  <2> QED BY <2>1, <2>2
<1> HIDE DEF u
<1>4. AdapterOK(t, done)
  <2>1. IsRec(t)
    BY DEF Covered, IsRec
  <2>2. Typed(t)
    BY <1>1 DEF Covered, IsRec, Fields, Typed
  <2>3. PositionAccounted(t, done) /\ CommitsAccounted(t, done) /\ SettledBefore(t)
    BY <1>1, <1>2 DEF Covered, IsRec, Fields, PositionAccounted, CommitsAccounted, SettledBefore
  <2> QED BY <2>1, <2>2, <2>3 DEF AdapterOK, Covered
<1> HIDE DEF t
<1>5. CASE job.by = "record" /\ ok
  BY <1>3, <1>4, <1>5, EndBatchOK DEF Answered
<1>6. CASE job.by = "record" /\ ~ok
  <2> DEFINE b == [t EXCEPT !.uncommitted = job.offset, !.retryable = t.current, !.settled = 0]
  <2>1. job.offset \in 1..LogSize
    BY DEF CommitJob, Offsets
  <2>2. IsRec(b)
    BY <1>4 DEF AdapterOK, Covered, IsRec
  <2>3. Typed(b)
    BY <1>4, <2>1, LogAssumption DEF AdapterOK, Covered, IsRec, Fields, Typed
  <2>4. PositionAccounted(b, done) /\ CommitsAccounted(b, done) /\ SettledBefore(b)
    BY <1>4, <2>1 DEF AdapterOK, Covered, IsRec, Fields, PositionAccounted, CommitsAccounted,
                      SettledBefore
  <2> HIDE DEF b
  <2>5. AdapterOK(EndBatch(b), done)
    BY <2>2, <2>3, <2>4, EndBatchOK DEF AdapterOK, Covered
  <2> QED BY <1>3, <1>6, <2>5 DEF Answered, b
<1>7. CASE job.by = "retry"
  <2> DEFINE b == [t EXCEPT !.retrying = FALSE]
  <2>1. IsRec(b)
    BY <1>4 DEF AdapterOK, Covered, IsRec
  <2>2. Typed(b)
    BY <1>4 DEF AdapterOK, Covered, IsRec, Fields, Typed
  <2>3. PositionAccounted(b, done) /\ CommitsAccounted(b, done) /\ SettledBefore(b)
    BY <1>4 DEF AdapterOK, Covered, IsRec, Fields, PositionAccounted, CommitsAccounted,
                SettledBefore
  <2> QED BY <1>3, <1>7, <2>1, <2>2, <2>3 DEF Answered, AdapterOK, Covered
<1>8. CASE job.by = "advance"
  <2> DEFINE v == [t.advance EXCEPT !.step = IF ok THEN "readback" ELSE "uncertain"]
  <2> DEFINE b == [t EXCEPT !.advance = v]
  <2>1. /\ v \in [step : AdvanceSteps, offset : 0..LogSize, current : BOOLEAN]
        /\ v.offset = t.advance.offset
    BY <1>4 DEF AdapterOK, Covered, Typed, AdvanceSteps
  <2>2. Answered(a, job, ok) = b
    BY <1>3, <1>8 DEF Answered
  <2> HIDE DEF v
  <2>3. IsRec(b)
    BY <1>4 DEF AdapterOK, Covered, IsRec
  <2>4. Typed(b)
    BY <1>4, <2>1 DEF AdapterOK, Covered, IsRec, Fields, Typed
  <2>5. PositionAccounted(b, done) /\ CommitsAccounted(b, done) /\ SettledBefore(b)
    BY <1>4, <2>1 DEF AdapterOK, Covered, IsRec, Fields, PositionAccounted, CommitsAccounted,
                      SettledBefore
  <2> QED BY <2>2, <2>3, <2>4, <2>5 DEF AdapterOK, Covered
<1> QED BY <1>5, <1>6, <1>7, <1>8 DEF CommitJob

-----------------------------------------------------------------------------
(* Actions.                                                                *)

\* What a step must show to keep the invariant.
LEMMA Kept ==
    ASSUME NEW ext, AdapterOK(adapter', Done(ext)'), committed' \in Positions,
           finished' \subseteq Offsets, excused' \subseteq Offsets,
           Accounted(committed' - 1, Done(ext)')
    PROVE  SourceInv(ext)'
BY AdapterTypeIs DEF SourceInv, SourceTypeOK, AdapterOK, Covered

\* A step of the adapter alone.
LEMMA KeptAlone ==
    ASSUME NEW ext, SourceInv(ext), UNCHANGED <<committed, finished, excused>>,
           AdapterOK(adapter', Done(ext))
    PROVE  SourceInv(ext)'
<1>1. Done(ext)' = Done(ext)
  BY DEF Done
<1> QED BY <1>1, Kept DEF SourceInv, SourceTypeOK

LEMMA DeliverStep == ASSUME NEW ext, SourceInv(ext), Deliver PROVE SourceInv(ext)'
<1> DEFINE b == [adapter EXCEPT !.record = adapter.position, !.stage = "processing",
                                !.current = TRUE]
<1>1. AdapterOK(adapter, Done(ext)) /\ adapter' = b /\ adapter.position \in 1..LogSize
  BY DEF SourceInv, Deliver, Offsets
<1>2. IsRec(b)
  BY <1>1 DEF AdapterOK, Covered, IsRec
<1>3. Typed(b)
  BY <1>1, LogAssumption DEF AdapterOK, Covered, IsRec, Fields, Typed
<1>4. PositionAccounted(b, Done(ext)) /\ CommitsAccounted(b, Done(ext)) /\ SettledBefore(b)
  BY <1>1 DEF AdapterOK, Covered, IsRec, Fields, PositionAccounted, CommitsAccounted, SettledBefore
<1> QED BY <1>1, <1>2, <1>3, <1>4, KeptAlone DEF AdapterOK, Covered, Deliver

LEMMA ProcessReturnsStep ==
    ASSUME NEW ext, SourceInv(ext), NEW outcome \in Outcomes, ProcessReturns(outcome)
    PROVE  SourceInv(ext)'
<1> DEFINE a == adapter
<1>1. /\ AdapterOK(a, Done(ext)) /\ a.stage = "processing" /\ a.record \in Offsets
      /\ Accounted(a.record - 1, Done(ext))
  <2>1. AdapterOK(a, Done(ext)) /\ a.stage = "processing"
    BY DEF SourceInv, ProcessReturns
  <2>2. a.record \in 0..LogSize /\ a.record # 0 /\ Accounted(a.record - 1, Done(ext))
    BY <2>1 DEF AdapterOK, Covered, Typed, PositionAccounted
  <2> QED BY <2>1, <2>2, LogAssumption DEF Offsets
<1>2. /\ Done(ext) \subseteq Done(ext)' /\ UNCHANGED <<committed, excused>>
      /\ finished' \subseteq Offsets
  BY <1>1 DEF Done, ProcessReturns, SourceInv, SourceTypeOK
<1>3. SUFFICES AdapterOK(adapter', Done(ext)')
  <2>1. Accounted(committed - 1, Done(ext)')
    BY <1>2 DEF SourceInv, Accounted
  <2> QED BY <1>2, <2>1, Kept DEF SourceInv, SourceTypeOK
<1>4. AdapterOK(a, Done(ext)') /\ Accounted(a.record - 1, Done(ext)')
  BY <1>1, <1>2, MoreDone DEF Accounted
<1>5. CASE outcome = "abandon"
  BY <1>4, <1>5, EndBatchOK DEF ProcessReturns
<1>6. CASE outcome = "hold"
  <2>1. AdapterOK(PauseAt(a, a.record, FALSE), Done(ext)')
    BY <1>1, <1>4, PauseAtOK
  <2> QED BY <1>6, <2>1, EndBatchOK DEF ProcessReturns
<1>7. CASE outcome = "pause"
  <2>1. AdapterOK(PausesKafka(a), Done(ext)')
    BY <1>1, <1>4, PauseAtOK DEF PausesKafka
  <2> QED BY <1>7, <2>1, EndBatchOK DEF ProcessReturns
<1>8. CASE outcome = "commit"
  <2>1. PICK next \in {a.record + 1} \cup (IF a.current THEN {} ELSE {a.position}) :
           LET t == [a EXCEPT !.position = next]
           IN  adapter' = IF t.stopping THEN EndBatch(t)
                          ELSE [Enqueue(t, "record", t.record)
                                   EXCEPT !.stage = "committing", !.current = TRUE]
    BY <1>8 DEF ProcessReturns
  <2>2. Accounted(a.record, Done(ext)')
    <3>1. a.record \in Done(ext)'
      BY <1>8 DEF ProcessReturns, Done
    <3> QED BY <1>1, <1>4, <3>1 DEF Accounted, Offsets
  <2>3. next \in Positions /\ Accounted(next - 1, Done(ext)')
    <3>1. CASE next = a.record + 1
      BY <1>1, <2>2, <3>1, LogAssumption DEF Offsets, Positions
    <3>2. CASE next = a.position
      BY <1>4, <3>2 DEF AdapterOK, Covered, Typed, PositionAccounted
    <3> QED BY <3>1, <3>2
  <2> DEFINE t == [a EXCEPT !.position = next]
  <2>4. AdapterOK(t, Done(ext)') /\ t.record = a.record
    <3>1. IsRec(t)
      BY <1>4 DEF AdapterOK, Covered, IsRec
    <3>2. Typed(t)
      BY <1>4, <2>3 DEF AdapterOK, Covered, IsRec, Fields, Typed
    <3>3. /\ PositionAccounted(t, Done(ext)') /\ CommitsAccounted(t, Done(ext)') /\ SettledBefore(t)
          /\ t.record = a.record
      BY <1>4, <2>3 DEF AdapterOK, Covered, IsRec, Fields, PositionAccounted, CommitsAccounted,
                        SettledBefore
    <3> QED BY <3>1, <3>2, <3>3 DEF AdapterOK, Covered
  <2>5. adapter' = IF t.stopping THEN EndBatch(t)
                   ELSE [Enqueue(t, "record", t.record) EXCEPT !.stage = "committing",
                                                              !.current = TRUE]
    BY <2>1
  <2> HIDE DEF t
  <2>6. CASE t.stopping
    BY <2>4, <2>5, <2>6, EndBatchOK
  <2>7. CASE ~t.stopping
    <3> DEFINE e == Enqueue(t, "record", t.record)
    <3> DEFINE b == [e EXCEPT !.stage = "committing", !.current = TRUE]
    <3>1. AdapterOK(e, Done(ext)') /\ e.record = t.record
      BY <1>1, <2>2, <2>4, EnqueueOK DEF Enqueue, AdapterOK, Covered, IsRec, Fields
    <3> HIDE DEF e
    <3>2. IsRec(b)
      BY <3>1 DEF AdapterOK, Covered, IsRec
    <3>3. Typed(b)
      BY <3>1 DEF AdapterOK, Covered, IsRec, Fields, Typed
    <3>4. PositionAccounted(b, Done(ext)') /\ CommitsAccounted(b, Done(ext)') /\ SettledBefore(b)
      <4>1. e.record # 0 /\ Accounted(e.record, Done(ext)') /\ Accounted(e.record - 1, Done(ext)')
        BY <1>1, <1>4, <2>2, <2>4, <3>1, LogAssumption DEF Offsets
      <4> QED BY <3>1, <4>1 DEF AdapterOK, Covered, IsRec, Fields, PositionAccounted,
                                CommitsAccounted, SettledBefore
    <3> QED BY <2>5, <2>7, <3>2, <3>3, <3>4 DEF AdapterOK, Covered, e
  <2> QED BY <2>6, <2>7
<1> QED BY <1>5, <1>6, <1>7, <1>8 DEF Outcomes

LEMMA CommitRunsStep ==
    ASSUME NEW ext, SourceInv(ext), NEW outcome \in {"ok", "lost", "failed", "skipped"},
           CommitRuns(outcome)
    PROVE  SourceInv(ext)'
<1> DEFINE job == Head(adapter.commits)
<1> DEFINE t == Taken(adapter, job, outcome)
<1> DEFINE v == IF outcome = "ok" THEN Active(t) ELSE t
<1>1. AdapterOK(adapter, Done(ext)) /\ adapter.commits # <<>> /\ Done(ext)' = Done(ext)
  BY DEF SourceInv, CommitRuns, Done
<1>2. /\ job \in CommitJob /\ Accounted(job.offset, Done(ext))
      /\ Covered(t, Done(ext))
      /\ outcome # "ok" => AdapterOK(t, Done(ext))
      /\ outcome = "ok" /\ t.uncommitted # 0 =>
            t.settled < t.uncommitted \/ t.uncommitted <= job.offset
  BY <1>1, TakenOK
<1>3. /\ \/ outcome = "skipped" /\ adapter' = [t EXCEPT !.retrying = FALSE]
            /\ committed' = committed
         \/ adapter' = Answered(v, job, outcome = "ok")
            /\ (committed' = job.offset + 1 \/ committed' = committed)
      /\ UNCHANGED <<finished, excused>>
  BY DEF CommitRuns
<1> HIDE DEF t
<1>4. /\ Covered(v, Done(ext))
      /\ v.uncommitted # 0 =>
            v.settled < v.uncommitted \/ (outcome = "ok" /\ v.uncommitted <= job.offset)
  BY <1>2, ActiveCovered DEF AdapterOK, SettledBefore
<1> HIDE DEF v, job
<1>5. AdapterOK(adapter', Done(ext))
  <2>1. CASE adapter' = [t EXCEPT !.retrying = FALSE] /\ outcome = "skipped"
    <3> DEFINE b == [t EXCEPT !.retrying = FALSE]
    <3>1. IsRec(b)
      BY <1>2, <2>1 DEF AdapterOK, Covered, IsRec
    <3>2. Typed(b)
      BY <1>2, <2>1 DEF AdapterOK, Covered, IsRec, Fields, Typed
    <3>3. PositionAccounted(b, Done(ext)) /\ CommitsAccounted(b, Done(ext)) /\ SettledBefore(b)
      BY <1>2, <2>1 DEF AdapterOK, Covered, IsRec, Fields, PositionAccounted,
                        CommitsAccounted, SettledBefore
    <3> QED BY <2>1, <3>1, <3>2, <3>3 DEF AdapterOK, Covered
  <2>2. CASE adapter' = Answered(v, job, outcome = "ok")
    BY <1>2, <1>4, <2>2, AnsweredOK
  <2> QED BY <1>3, <2>1, <2>2
<1>6. committed' \in Positions /\ Accounted(committed' - 1, Done(ext))
  <2>1. CASE committed' = job.offset + 1
    <3>1. job.offset \in 1..LogSize
      BY <1>2 DEF CommitJob, Offsets
    <3>2. job.offset + 1 \in Positions /\ (job.offset + 1) - 1 = job.offset
      BY <3>1, LogAssumption DEF Positions
    <3> QED BY <1>2, <2>1, <3>2
  <2>2. CASE committed' = committed
    BY <2>2 DEF SourceInv, SourceTypeOK
  <2> QED BY <1>3, <2>1, <2>2
<1> QED BY <1>1, <1>3, <1>5, <1>6, Kept DEF SourceInv, SourceTypeOK

LEMMA RetryCommitsStep == ASSUME NEW ext, SourceInv(ext), RetryCommits PROVE SourceInv(ext)'
<1> DEFINE a == adapter
<1>1. AdapterOK(a, Done(ext)) /\ a.uncommitted \in Offsets /\ Accounted(a.uncommitted, Done(ext))
  <2>1. AdapterOK(a, Done(ext)) /\ a.uncommitted # 0
    BY DEF SourceInv, RetryCommits
  <2>2. a.uncommitted \in 0..LogSize /\ Accounted(a.uncommitted, Done(ext))
    BY <2>1 DEF AdapterOK, Covered, Typed, CommitsAccounted
  <2> QED BY <2>1, <2>2, LogAssumption DEF Offsets
<1>2. CASE a.retryable
  <2> DEFINE e == Enqueue(a, "retry", a.uncommitted)
  <2> DEFINE b == [e EXCEPT !.retrying = TRUE]
  <2>1. AdapterOK(e, Done(ext))
    BY <1>1, EnqueueOK
  <2>2. adapter' = b
    BY <1>2 DEF RetryCommits
  <2> HIDE DEF e
  <2>3. IsRec(b)
    BY <2>1 DEF AdapterOK, Covered, IsRec
  <2>4. Typed(b)
    BY <2>1 DEF AdapterOK, Covered, IsRec, Fields, Typed
  <2>5. PositionAccounted(b, Done(ext)) /\ CommitsAccounted(b, Done(ext)) /\ SettledBefore(b)
    BY <2>1 DEF AdapterOK, Covered, IsRec, Fields, PositionAccounted, CommitsAccounted,
                SettledBefore
  <2> QED BY <2>2, <2>3, <2>4, <2>5, KeptAlone DEF AdapterOK, Covered, RetryCommits
<1>3. CASE ~a.retryable
  <2> DEFINE b == [a EXCEPT !.uncommitted = 0]
  <2>1. adapter' = b
    BY <1>3 DEF RetryCommits
  <2>2. IsRec(b)
    BY <1>1 DEF AdapterOK, Covered, IsRec
  <2>3. Typed(b)
    BY <1>1, LogAssumption DEF AdapterOK, Covered, IsRec, Fields, Typed
  <2>4. Accounted(0, Done(ext))
    BY DEF Accounted, Offsets
  <2>5. PositionAccounted(b, Done(ext)) /\ CommitsAccounted(b, Done(ext)) /\ SettledBefore(b)
    BY <1>1, <2>4 DEF AdapterOK, Covered, IsRec, Fields, PositionAccounted,
                      CommitsAccounted, SettledBefore
  <2> QED BY <2>1, <2>2, <2>3, <2>5, KeptAlone DEF AdapterOK, Covered, RetryCommits
<1> QED BY <1>2, <1>3

LEMMA NoneAccounted == \A done : Accounted(0, done) /\ Accounted(-1, done)
BY DEF Accounted, Offsets

LEMMA ResumeStep == ASSUME NEW ext, SourceInv(ext), ResumeKafka PROVE SourceInv(ext)'
<1> DEFINE b == [adapter EXCEPT !.paused = FALSE, !.held = 0]
<1>1. AdapterOK(adapter, Done(ext)) /\ adapter' = SetStatus(b, "healthy")
  BY DEF SourceInv, ResumeKafka
<1>2. IsRec(b)
  BY <1>1 DEF AdapterOK, Covered, IsRec
<1>3. Typed(b)
  BY <1>1, LogAssumption DEF AdapterOK, Covered, IsRec, Fields, Typed
<1>4. PositionAccounted(b, Done(ext)) /\ CommitsAccounted(b, Done(ext)) /\ SettledBefore(b)
  BY <1>1, NoneAccounted DEF AdapterOK, Covered, IsRec, Fields, PositionAccounted,
                             CommitsAccounted, SettledBefore
<1> HIDE DEF b
<1>5. AdapterOK(adapter', Done(ext))
  BY <1>1, <1>2, <1>3, <1>4, SetStatusOK DEF AdapterOK, Covered, Statuses
<1> QED BY <1>5, KeptAlone DEF ResumeKafka

LEMMA AdvanceStartsStep ==
    ASSUME NEW ext, SourceInv(ext), NEW offset \in Offsets, AdvanceStarts(offset)
    PROVE  SourceInv(ext)'
<1> DEFINE v == [step |-> "commit", offset |-> offset, current |-> TRUE]
<1> DEFINE e == Enqueue(adapter, "advance", offset)
<1> DEFINE b == [e EXCEPT !.advance = v]
<1>1. /\ AdapterOK(adapter, Done(ext)) /\ adapter.held = offset
      /\ adapter' = b /\ excused' = excused \cup {offset}
      /\ UNCHANGED <<committed, finished>>
  BY DEF SourceInv, AdvanceStarts, IsHeld
<1>2. Done(ext)' = Done(ext) \cup {offset} /\ Done(ext) \subseteq Done(ext)' /\ excused' \subseteq Offsets
  BY <1>1 DEF Done, SourceInv, SourceTypeOK
<1>3. AdapterOK(adapter, Done(ext)') /\ Accounted(committed - 1, Done(ext)')
  BY <1>1, <1>2, MoreDone DEF SourceInv, Accounted
<1>4. Accounted(offset, Done(ext)')
  <2>1. Accounted(offset - 1, Done(ext)')
    BY <1>1, <1>3 DEF AdapterOK, Covered, PositionAccounted
  <2> QED BY <1>2, <2>1 DEF Accounted, Offsets
<1>5. AdapterOK(e, Done(ext)')
  BY <1>3, <1>4, EnqueueOK
<1>6. v \in [step : AdvanceSteps, offset : 0..LogSize, current : BOOLEAN] /\ v.offset = offset
  BY LogAssumption DEF AdvanceSteps, Offsets
<1> HIDE DEF e, v
<1>7. IsRec(b)
  BY <1>5 DEF AdapterOK, Covered, IsRec
<1>8. Typed(b)
  BY <1>5, <1>6 DEF AdapterOK, Covered, IsRec, Fields, Typed
<1>9. PositionAccounted(b, Done(ext)') /\ CommitsAccounted(b, Done(ext)') /\ SettledBefore(b)
  BY <1>4, <1>5, <1>6 DEF AdapterOK, Covered, IsRec, Fields, PositionAccounted,
                          CommitsAccounted, SettledBefore
<1>10. AdapterOK(adapter', Done(ext)')
  BY <1>1, <1>7, <1>8, <1>9 DEF AdapterOK, Covered
<1> QED BY <1>1, <1>2, <1>3, <1>10, Kept DEF SourceInv, SourceTypeOK

\* The advance moves to another step; nothing else depends on which.
LEMMA AdvanceStepOK ==
    ASSUME NEW a, NEW done, AdapterOK(a, done), NEW step \in AdvanceSteps
    PROVE  AdapterOK([a EXCEPT !.advance.step = step], done)
<1> DEFINE v == [a.advance EXCEPT !.step = step]
<1> DEFINE b == [a EXCEPT !.advance = v]
<1>1. /\ v \in [step : AdvanceSteps, offset : 0..LogSize, current : BOOLEAN]
      /\ v.offset = a.advance.offset
  BY DEF AdapterOK, Covered, Typed
<1> HIDE DEF v
<1>2. IsRec(b)
  BY DEF AdapterOK, Covered, IsRec
<1>3. Typed(b)
  BY <1>1 DEF AdapterOK, Covered, IsRec, Fields, Typed
<1>4. PositionAccounted(b, done) /\ CommitsAccounted(b, done) /\ SettledBefore(b)
  BY <1>1 DEF AdapterOK, Covered, IsRec, Fields, PositionAccounted, CommitsAccounted, SettledBefore
<1> QED BY <1>2, <1>3, <1>4 DEF AdapterOK, Covered, v

LEMMA AdvanceReadsBackStep ==
    ASSUME NEW ext, SourceInv(ext), NEW read \in BOOLEAN, AdvanceReadsBack(read)
    PROVE  SourceInv(ext)'
<1> DEFINE step == IF read /\ Confirmed THEN "confirm" ELSE "uncertain"
<1>1. /\ AdapterOK(adapter, Done(ext)) /\ step \in AdvanceSteps
      /\ adapter' = [adapter EXCEPT !.advance.step = step]
  BY DEF SourceInv, AdvanceReadsBack, AdvanceSteps
<1> HIDE DEF step
<1> QED BY <1>1, AdvanceStepOK, KeptAlone DEF AdvanceReadsBack

LEMMA AdvanceConfirmedStep ==
    ASSUME NEW ext, SourceInv(ext), NEW recorded \in BOOLEAN, AdvanceConfirmed(recorded)
    PROVE  SourceInv(ext)'
<1>1. AdapterOK(adapter, Done(ext)) /\ adapter.advance.step = "confirm"
  BY DEF SourceInv, AdvanceConfirmed
<1>2. CASE ~recorded \/ adapter.stopping
  <2>1. adapter' = [adapter EXCEPT !.advance.step = "uncertain"] /\ "uncertain" \in AdvanceSteps
    BY <1>2 DEF AdvanceConfirmed, AdvanceSteps
  <2> QED BY <1>1, <2>1, AdvanceStepOK, KeptAlone DEF AdvanceConfirmed
<1>3. CASE ~(~recorded \/ adapter.stopping)
  <2> DEFINE p == adapter.advance.offset + 1
  <2> DEFINE b == [adapter EXCEPT !.held = 0, !.paused = FALSE, !.position = p,
                                  !.advance = NoAdvance]
  <2>1. adapter' = SetStatus(b, "healthy")
    BY <1>3 DEF AdvanceConfirmed
  <2>2. p \in Positions /\ Accounted(p - 1, Done(ext))
    <3>1. adapter.advance.offset \in 0..LogSize /\ Accounted(adapter.advance.offset, Done(ext))
      BY <1>1 DEF AdapterOK, Covered, Typed, CommitsAccounted
    <3>2. p \in Positions /\ p - 1 = adapter.advance.offset
      BY <3>1, LogAssumption DEF Positions
    <3> QED BY <3>1, <3>2
  <2>3. /\ NoAdvance \in [step : AdvanceSteps, offset : 0..LogSize, current : BOOLEAN]
        /\ NoAdvance.offset = 0
    BY LogAssumption DEF NoAdvance, AdvanceSteps
  <2> HIDE DEF p
  <2>4. IsRec(b)
    BY <1>1 DEF AdapterOK, Covered, IsRec
  <2>5. Typed(b)
    BY <1>1, <2>2, <2>3, LogAssumption DEF AdapterOK, Covered, IsRec, Fields, Typed
  <2>6. PositionAccounted(b, Done(ext)) /\ CommitsAccounted(b, Done(ext)) /\ SettledBefore(b)
    BY <1>1, <2>2, <2>3, NoneAccounted DEF AdapterOK, Covered, IsRec, Fields,
       PositionAccounted, CommitsAccounted, SettledBefore
  <2> HIDE DEF b
  <2>7. AdapterOK(adapter', Done(ext))
    BY <2>1, <2>4, <2>5, <2>6, SetStatusOK DEF AdapterOK, Covered, Statuses
  <2> QED BY <2>7, KeptAlone DEF AdvanceConfirmed
<1> QED BY <1>2, <1>3

LEMMA RebalancingStep == ASSUME NEW ext, SourceInv(ext), Rebalancing PROVE SourceInv(ext)'
<1> DEFINE e == NextEpoch(adapter)
<1> DEFINE b == [e EXCEPT !.rebalancing = TRUE, !.assigned = FALSE]
<1>1. AdapterOK(e, Done(ext)) /\ adapter' = SetStatus(b, "degraded")
  BY NextEpochOK DEF SourceInv, Rebalancing
<1> HIDE DEF e
<1>2. IsRec(b)
  BY <1>1 DEF AdapterOK, Covered, IsRec
<1>3. Typed(b)
  BY <1>1 DEF AdapterOK, Covered, IsRec, Fields, Typed
<1>4. PositionAccounted(b, Done(ext)) /\ CommitsAccounted(b, Done(ext)) /\ SettledBefore(b)
  BY <1>1 DEF AdapterOK, Covered, IsRec, Fields, PositionAccounted, CommitsAccounted, SettledBefore
<1> HIDE DEF b
<1>5. AdapterOK(adapter', Done(ext))
  BY <1>1, <1>2, <1>3, <1>4, SetStatusOK DEF AdapterOK, Covered, Statuses
<1> QED BY <1>5, KeptAlone DEF Rebalancing

LEMMA ConsumerLostStep == ASSUME NEW ext, SourceInv(ext), ConsumerLost PROVE SourceInv(ext)'
<1> DEFINE e == NextEpoch(adapter)
<1> DEFINE b == [e EXCEPT !.running = FALSE, !.assigned = FALSE]
<1>1. AdapterOK(e, Done(ext)) /\ adapter' = SetStatus(b, "degraded")
  BY NextEpochOK DEF SourceInv, ConsumerLost
<1> HIDE DEF e
<1>2. IsRec(b)
  BY <1>1 DEF AdapterOK, Covered, IsRec
<1>3. Typed(b)
  BY <1>1 DEF AdapterOK, Covered, IsRec, Fields, Typed
<1>4. PositionAccounted(b, Done(ext)) /\ CommitsAccounted(b, Done(ext)) /\ SettledBefore(b)
  BY <1>1 DEF AdapterOK, Covered, IsRec, Fields, PositionAccounted, CommitsAccounted, SettledBefore
<1> HIDE DEF b
<1>5. AdapterOK(adapter', Done(ext))
  BY <1>1, <1>2, <1>3, <1>4, SetStatusOK DEF AdapterOK, Covered, Statuses
<1> QED BY <1>5, KeptAlone DEF ConsumerLost

LEMMA GroupJoinStep == ASSUME NEW ext, SourceInv(ext), GroupJoin PROVE SourceInv(ext)'
<1> DEFINE e == NextEpoch(adapter)
<1> DEFINE b == [e EXCEPT !.running = TRUE, !.assigned = TRUE, !.rebalancing = FALSE,
                          !.position = committed]
<1>1. /\ AdapterOK(e, Done(ext)) /\ adapter' = SetStatus(b, "healthy")
      /\ committed \in Positions /\ Accounted(committed - 1, Done(ext))
  BY NextEpochOK DEF SourceInv, SourceTypeOK, GroupJoin
<1> HIDE DEF e
<1>2. IsRec(b)
  BY <1>1 DEF AdapterOK, Covered, IsRec
<1>3. Typed(b)
  BY <1>1 DEF AdapterOK, Covered, IsRec, Fields, Typed
<1>4. PositionAccounted(b, Done(ext)) /\ CommitsAccounted(b, Done(ext)) /\ SettledBefore(b)
  BY <1>1 DEF AdapterOK, Covered, IsRec, Fields, PositionAccounted, CommitsAccounted, SettledBefore
<1> HIDE DEF b
<1>5. AdapterOK(adapter', Done(ext))
  BY <1>1, <1>2, <1>3, <1>4, SetStatusOK DEF AdapterOK, Covered, Statuses
<1> QED BY <1>5, KeptAlone DEF GroupJoin

LEMMA StatusSteps ==
    ASSUME NEW ext, SourceInv(ext), Watchdog \/ Activity
    PROVE  SourceInv(ext)'
<1>1. AdapterOK(adapter, Done(ext))
  BY DEF SourceInv
<1>2. AdapterOK(adapter', Done(ext))
  BY <1>1, SetStatusOK, ActiveOK DEF Watchdog, Activity, Statuses
<1> QED BY <1>2, KeptAlone DEF Watchdog, Activity

LEMMA StopStep == ASSUME NEW ext, SourceInv(ext), StopKafka PROVE SourceInv(ext)'
<1> DEFINE b == [adapter EXCEPT !.stopping = TRUE]
<1>1. AdapterOK(adapter, Done(ext)) /\ adapter' = b
  BY DEF SourceInv, StopKafka
<1>2. IsRec(b)
  BY <1>1 DEF AdapterOK, Covered, IsRec
<1>3. Typed(b)
  BY <1>1 DEF AdapterOK, Covered, IsRec, Fields, Typed
<1>4. PositionAccounted(b, Done(ext)) /\ CommitsAccounted(b, Done(ext)) /\ SettledBefore(b)
  BY <1>1 DEF AdapterOK, Covered, IsRec, Fields, PositionAccounted, CommitsAccounted, SettledBefore
<1> QED BY <1>1, <1>2, <1>3, <1>4, KeptAlone DEF AdapterOK, Covered, StopKafka

-----------------------------------------------------------------------------
(* The invariant and what follows from it.                                 *)

\* A new adapter over a committed offset that is accounted for.
LEMMA NewAdapterOK ==
    ASSUME NEW startHeld \in BOOLEAN, NEW done
    PROVE  AdapterOK(NewAdapter(startHeld), done)
<1> DEFINE a == NewAdapter(startHeld)
<1>1. IsRec(a)
  BY DEF NewAdapter, IsRec, Fields
<1>2. Typed(a)
  BY LogAssumption DEF NewAdapter, NoAdvance, Typed, Statuses, Positions, AdvanceSteps
<1>3. \A n \in {-1, 0} : Accounted(n, done)
  BY DEF Accounted, Offsets
<1>4. PositionAccounted(a, done) /\ CommitsAccounted(a, done) /\ SettledBefore(a)
  BY <1>3 DEF NewAdapter, NoAdvance, PositionAccounted, CommitsAccounted, SettledBefore
<1> QED BY <1>1, <1>2, <1>4 DEF AdapterOK, Covered

LEMMA SourceInvInit ==
    ASSUME NEW ext, SourceInit
    PROVE  SourceInv(ext)
<1>1. AdapterOK(adapter, Done(ext))
  BY NewAdapterOK DEF SourceInit
<1>2. adapter \in AdapterType
  BY <1>1, AdapterTypeIs DEF AdapterOK, Covered
<1>3. committed = 1 /\ committed \in Positions /\ Accounted(committed - 1, Done(ext))
  BY NoneAccounted, LogAssumption DEF SourceInit, Positions
<1> QED BY <1>1, <1>2, <1>3 DEF SourceInit, SourceInv, SourceTypeOK

LEMMA SourceInvInductive ==
    ASSUME NEW ext, SourceInv(ext), [SourceNext]_sourceVars
    PROVE  SourceInv(ext)'
<1>1. CASE Deliver
  BY <1>1, DeliverStep
<1>2. ASSUME NEW outcome \in Outcomes, ProcessReturns(outcome) PROVE SourceInv(ext)'
  BY <1>2, ProcessReturnsStep
<1>3. ASSUME NEW outcome \in {"ok", "lost", "failed", "skipped"}, CommitRuns(outcome)
      PROVE  SourceInv(ext)'
  BY <1>3, CommitRunsStep
<1>4. CASE RetryCommits
  BY <1>4, RetryCommitsStep
<1>5. CASE ResumeKafka
  BY <1>5, ResumeStep
<1>6. ASSUME NEW offset \in Offsets, AdvanceStarts(offset) PROVE SourceInv(ext)'
  BY <1>6, AdvanceStartsStep
<1>7. ASSUME NEW read \in BOOLEAN, AdvanceReadsBack(read) PROVE SourceInv(ext)'
  BY <1>7, AdvanceReadsBackStep
<1>8. ASSUME NEW recorded \in BOOLEAN, AdvanceConfirmed(recorded) PROVE SourceInv(ext)'
  BY <1>8, AdvanceConfirmedStep
<1>9. CASE Broker
  BY <1>9, RebalancingStep, ConsumerLostStep, GroupJoinStep, StatusSteps DEF Broker
<1>10. CASE StopKafka
  BY <1>10, StopStep
<1>11. CASE UNCHANGED sourceVars
  BY <1>11, KeptAlone DEF sourceVars, SourceInv
<1> QED BY <1>1, <1>2, <1>3, <1>4, <1>5, <1>6, <1>7, <1>8, <1>9, <1>10, <1>11 DEF SourceNext

\* The invariant holds of the adapter, its broker and everything that calls it.
THEOREM SourceInvariant == SourceSpec => []SourceInv({})
<1>1. SourceInit => SourceInv({})
  BY SourceInvInit
<1>2. SourceInv({}) /\ [SourceNext]_sourceVars => SourceInv({})'
  BY SourceInvInductive
<1> QED BY <1>1, <1>2, PTL DEF SourceSpec

\* kafka.ts:184, for every partition and any number of failures: a restart from the group's
\* committed offset loses no record that nobody finished or excused.
THEOREM NothingUnaccounted == SourceSpec => []CommittedIsAccounted
<1>1. SourceInv({}) => CommittedIsAccounted
  BY DEF SourceInv, SourceTypeOK, CommittedIsAccounted, Accounted, Done, Offsets, Positions
<1> QED BY <1>1, SourceInvariant, PTL

\* kafka.ts:186: whatever failed, was retried or was rebalanced meanwhile, a record the source
\* is held at comes next, and nothing from it on was committed.
THEOREM HeldComesNext == SourceSpec => []HeldIsRetried
<1>1. SourceInv({}) => HeldIsRetried
  <2> SUFFICES ASSUME SourceInv({}), adapter.held # 0, adapter.held \notin Done({})
               PROVE  adapter.position <= adapter.held /\ committed <= adapter.held
    BY DEF HeldIsRetried, Done
  <2>1. /\ adapter.held \in 0..LogSize /\ adapter.position \in Positions
        /\ Accounted(adapter.position - 1, Done({}))
    BY DEF SourceInv, AdapterOK, Covered, Typed, PositionAccounted
  <2>2. committed \in Positions /\ Accounted(committed - 1, Done({}))
    BY DEF SourceInv, SourceTypeOK
  <2> QED BY <2>1, <2>2, LogAssumption DEF Accounted, Offsets, Positions
<1> QED BY <1>1, SourceInvariant, PTL

\* kafka.ts:221: a retried commit never takes back an offset that a later commit moved.
THEOREM RetriesUndoNothing == SourceSpec => RetryNeverUndoes
<1> DEFINE StaysMoved(offset) ==
       /\ adapter.commits # <<>> /\ Head(adapter.commits).by = "retry"
       /\ offset <= adapter.settled
       /\ committed > offset
       => committed' > offset
<1>1. SourceInv({}) /\ [SourceNext]_sourceVars => 
         [\A offset \in Offsets : StaysMoved(offset)]_sourceVars
  <2> SUFFICES ASSUME SourceInv({}), SourceNext, NEW offset \in Offsets,
                      adapter.commits # <<>>, Head(adapter.commits).by = "retry",
                      offset <= adapter.settled, committed > offset
               PROVE  committed' > offset
    OBVIOUS
  <2>1. CASE UNCHANGED committed
    BY <2>1
  <2>2. CASE \E outcome \in {"ok", "lost", "failed", "skipped"} : CommitRuns(outcome)
    <3> DEFINE job == Head(adapter.commits)
    <3>1. UNCHANGED committed \/ (StillWanted(adapter, job) /\ committed' = job.offset + 1)
      <4> PICK outcome \in {"ok", "lost", "failed", "skipped"} : CommitRuns(outcome)
        BY <2>2
      <4> DEFINE t == Taken(adapter, job, outcome)
      <4>1. StillWanted(t, job) => StillWanted(adapter, job)
        BY DEF Taken, StillWanted, SourceInv, AdapterOK, Covered, IsRec, Fields
      <4> QED BY <4>1 DEF CommitRuns
    <3>2. CASE StillWanted(adapter, job) /\ committed' = job.offset + 1
      <4>1. adapter.uncommitted = job.offset
        BY <3>2 DEF StillWanted
      <4>2. job \in CommitJob /\ adapter.settled \in 0..LogSize
        <5>1. AdapterOK(adapter, Done({}))
          BY DEF SourceInv
        <5> QED BY <5>1, TakenOK DEF AdapterOK, Covered, Typed
      <4>3. adapter.settled < job.offset
        BY <4>1, <4>2 DEF SourceInv, AdapterOK, SettledBefore, CommitJob, Offsets
      <4> QED BY <3>2, <4>2, <4>3 DEF CommitJob, Offsets
    <3> QED BY <2>1, <3>1, <3>2
  <2> QED BY <2>1, <2>2 DEF SourceNext, Deliver, ProcessReturns, RetryCommits, ResumeKafka,
             AdvanceStarts, AdvanceReadsBack, AdvanceConfirmed, Broker, Rebalancing,
             ConsumerLost, GroupJoin, Watchdog, Activity, StopKafka
<1> QED BY <1>1, SourceInvariant, PTL DEF SourceSpec, RetryNeverUndoes


-----------------------------------------------------------------------------
(* The failure service over that source.                                   *)

Advancing == {"commit", "readback", "confirm"}

Jobs(a, by) == {i \in DOMAIN a.commits : a.commits[i].by = by}

\* What waits to be committed on behalf of records was finished; one record at a time waits,
\* and none while the source is paused.
RecordsQueued(a, fin) ==
    /\ a.uncommitted # 0 => a.uncommitted \in fin
    /\ \A i \in Jobs(a, "record") \cup Jobs(a, "retry") : a.commits[i].offset \in fin
    /\ Jobs(a, "record") # {} => a.stage = "committing"
    /\ \A i, j \in Jobs(a, "record") : i = j
    /\ a.paused => a.stage = "none"

\* An advance keeps the source paused; its commit waits once, and once it was answered no
\* earlier commit is left to be retried.
AdvanceQueued(a) ==
    /\ a.advance.step # "none" => a.paused
    /\ \A i \in Jobs(a, "advance") :
          a.advance.step = "commit" /\ a.commits[i].offset = a.advance.offset
    /\ \A i, j \in Jobs(a, "advance") : i = j
    /\ a.advance.step \in {"readback", "confirm"} /\ a.uncommitted # 0 =>
          a.uncommitted > a.advance.offset

\* An advance that was read back is committed.
Queued ==
    /\ RecordsQueued(adapter, finished)
    /\ AdvanceQueued(adapter)
    /\ adapter.advance.step = "confirm" => committed > adapter.advance.offset

\* An advance under way is the running job's, whose incident says so on disk.
AdvanceIsPending ==
    adapter.advance.step \in Advancing =>
       /\ service.step = "advancing"
       /\ Current = adapter.advance.offset
       /\ journal.progress[Current] = "advance-pending"

\* What the adapter was asked to advance past is in the journal, and covered.
ExcusedIsRecorded ==
    /\ \A offset \in excused : journal.progress[offset] # "none"
    /\ excused \subseteq journal.boundary \cup retired
    /\ service.boundary = journal.boundary

ProcessedIsFinished ==
    \A offset \in Offsets : journal.progress[offset] = "processed" => offset \in finished

\* What relates the journal to the adapter.
Recorded == AdvanceIsPending /\ ExcusedIsRecorded /\ ProcessedIsFinished

\* The inductive invariant.
FailureInv == FailureTypeOK /\ SourceInv(moved) /\ Queued /\ Recorded
-----------------------------------------------------------------------------
(* The commit queue, one lemma per action of the source.                   *)

LEMMA SourceTyped ==
    ASSUME NEW ext, SourceInv(ext)
    PROVE  /\ IsRec(adapter) /\ Typed(adapter)
           /\ adapter.commits \in Seq(CommitJob) /\ Len(adapter.commits) \in Nat
           /\ DOMAIN adapter.commits = 1 .. Len(adapter.commits)
           /\ \A i \in DOMAIN adapter.commits : adapter.commits[i] \in CommitJob
           /\ adapter.uncommitted \in 0..LogSize /\ adapter.advance.offset \in 0..LogSize
<1>1. IsRec(adapter) /\ Typed(adapter)
  BY DEF SourceInv, AdapterOK, Covered
<1>2. adapter.commits \in Seq(CommitJob)
  BY <1>1 DEF Typed
<1> QED BY <1>1, <1>2, LenProperties, ElementOfSeq DEF Typed

\* An advance that is under way was under way before.
AdvanceKept(a, b) ==
    b.advance.step \in Advancing =>
        a.advance.step \in Advancing /\ b.advance.offset = a.advance.offset

\* What the queue depends on.
SameQueue(a, b) ==
    /\ DOMAIN b.commits = DOMAIN a.commits
    /\ \A i \in DOMAIN a.commits :
          b.commits[i].by = a.commits[i].by /\ b.commits[i].offset = a.commits[i].offset
    /\ b.uncommitted = a.uncommitted
    /\ b.stage = a.stage /\ b.paused = a.paused
    /\ b.advance.step = a.advance.step /\ b.advance.offset = a.advance.offset

LEMMA QueueSame ==
    ASSUME SameQueue(adapter, adapter'), Queued, finished \subseteq finished',
           UNCHANGED committed
    PROVE  Queued' /\ AdvanceKept(adapter, adapter')
<1>1. \A by : Jobs(adapter', by) = Jobs(adapter, by)
  BY DEF SameQueue, Jobs
<1>2. \A by : \A i \in Jobs(adapter, by) : adapter'.commits[i].offset = adapter.commits[i].offset
  BY DEF SameQueue, Jobs
<1> QED BY <1>1, <1>2 DEF SameQueue, Queued, RecordsQueued, AdvanceQueued, AdvanceKept

LEMMA SetStatusSame ==
    ASSUME NEW a, IsRec(a), NEW status
    PROVE  SameQueue(a, SetStatus(a, status))
BY DEF IsRec, Fields, SetStatus, SameQueue

LEMMA EnqueueFrame ==
    ASSUME NEW a, IsRec(a), NEW by, NEW offset
    PROVE  LET e == Enqueue(a, by, offset)
           IN  /\ IsRec(e) /\ e.stage = a.stage /\ e.paused = a.paused /\ e.advance = a.advance
               /\ e.uncommitted = a.uncommitted /\ e.record = a.record
               /\ e.commits = Append(a.commits, [by |-> by, offset |-> offset, current |-> TRUE])
<1> DEFINE q == Append(a.commits, [by |-> by, offset |-> offset, current |-> TRUE])
<1>1. Enqueue(a, by, offset) = [a EXCEPT !.commits = q]
  BY DEF Enqueue
<1> HIDE DEF q
<1>2. LET e == [a EXCEPT !.commits = q]
      IN  /\ IsRec(e) /\ e.stage = a.stage /\ e.paused = a.paused /\ e.advance = a.advance
          /\ e.uncommitted = a.uncommitted /\ e.record = a.record
          /\ e.commits = q
  BY DEF IsRec, Fields
<1> QED BY <1>1, <1>2 DEF q

LEMMA AppendJobs ==
    ASSUME adapter.commits \in Seq(CommitJob), NEW job \in CommitJob,
           adapter'.commits = Append(adapter.commits, job),
           NEW n, n = Len(adapter.commits) + 1
    PROVE  /\ n \notin DOMAIN adapter.commits /\ adapter'.commits[n] = job
           /\ \A i \in DOMAIN adapter.commits : adapter'.commits[i] = adapter.commits[i]
           /\ Jobs(adapter', job.by) = Jobs(adapter, job.by) \cup {n}
           /\ \A by : by # job.by => Jobs(adapter', by) = Jobs(adapter, by)
<1>1. /\ Len(adapter.commits) \in Nat /\ DOMAIN adapter.commits = 1 .. Len(adapter.commits)
      /\ DOMAIN adapter'.commits = 1 .. n /\ adapter'.commits[n] = job
      /\ \A i \in 1 .. Len(adapter.commits) : adapter'.commits[i] = adapter.commits[i]
  BY AppendProperties, LenProperties
<1>2. DOMAIN adapter'.commits = DOMAIN adapter.commits \cup {n} /\ n \notin DOMAIN adapter.commits
  BY <1>1
<1> QED BY <1>1, <1>2 DEF Jobs

LEMMA TailJobs ==
    ASSUME NEW a, NEW b, a.commits \in Seq(CommitJob), a.commits # <<>>,
           b.commits = Tail(a.commits)
    PROVE  /\ \A i \in DOMAIN b.commits : b.commits[i] = a.commits[i + 1]
           /\ \A by : \A i \in Jobs(b, by) :
                 i \in Nat \ {0} /\ i + 1 \in Jobs(a, by) /\ b.commits[i] = a.commits[i + 1]
           /\ \A by : Head(a.commits).by = by => 1 \in Jobs(a, by)
           /\ Head(a.commits) = a.commits[1]
<1>1. /\ Len(a.commits) \in Nat \ {0} /\ DOMAIN a.commits = 1 .. Len(a.commits)
      /\ b.commits \in Seq(CommitJob) /\ Len(b.commits) = Len(a.commits) - 1
      /\ \A i \in 1 .. Len(b.commits) : b.commits[i] = a.commits[i + 1]
  BY HeadTailProperties, EmptySeq, LenProperties
<1>2. DOMAIN b.commits = 1 .. Len(a.commits) - 1
  BY <1>1, LenProperties
<1>3. Head(a.commits) = a.commits[1] /\ 1 \in DOMAIN a.commits
  BY <1>1
<1>4. \A i \in DOMAIN b.commits : i \in Nat \ {0} /\ i + 1 \in DOMAIN a.commits
                                 /\ b.commits[i] = a.commits[i + 1]
  BY <1>1, <1>2
<1> QED BY <1>3, <1>4 DEF Jobs

LEMMA DeliverQueue ==
    ASSUME NEW ext, SourceInv(ext), Queued, Deliver
    PROVE  Queued' /\ AdvanceKept(adapter, adapter')
<1>1. /\ adapter'.commits = adapter.commits /\ adapter'.uncommitted = adapter.uncommitted
      /\ adapter'.stage = "processing" /\ ~adapter'.paused /\ ~adapter.paused
      /\ adapter.stage = "none" /\ adapter'.advance = adapter.advance
      /\ UNCHANGED <<committed, finished>>
  BY SourceTyped DEF IsRec, Fields, Deliver
<1> QED BY <1>1 DEF Queued, RecordsQueued, AdvanceQueued, AdvanceKept, Advancing, Jobs

LEMMA ProcessReturnsQueue ==
    ASSUME NEW ext, SourceInv(ext), Queued, NEW outcome \in Outcomes, ProcessReturns(outcome)
    PROVE  Queued' /\ AdvanceKept(adapter, adapter')
<1>1. /\ adapter.stage = "processing" /\ ~adapter.paused /\ adapter.advance.step = "none"
      /\ Jobs(adapter, "record") = {} /\ Jobs(adapter, "advance") = {}
      /\ finished \subseteq finished' /\ UNCHANGED committed
  BY DEF ProcessReturns, Queued, RecordsQueued, AdvanceQueued
<1>2. CASE outcome # "commit"
  <2>1. /\ adapter'.commits = adapter.commits /\ adapter'.uncommitted = adapter.uncommitted
        /\ adapter'.stage = "none" /\ adapter'.advance = adapter.advance
    BY <1>2, SourceTyped DEF IsRec, Fields, ProcessReturns, Outcomes, EndBatch, PauseAt, PausesKafka
  <2> QED BY <1>1, <2>1 DEF Queued, RecordsQueued, AdvanceQueued, AdvanceKept, Advancing, Jobs
<1>3. CASE outcome = "commit"
  <2> PICK next :
         LET t == [adapter EXCEPT !.position = next]
         IN  adapter' = IF t.stopping THEN EndBatch(t)
                        ELSE [Enqueue(t, "record", t.record)
                                 EXCEPT !.stage = "committing", !.current = TRUE]
    BY <1>3 DEF ProcessReturns
  <2> DEFINE t == [adapter EXCEPT !.position = next]
  <2>1. /\ IsRec(t) /\ t.commits = adapter.commits /\ t.uncommitted = adapter.uncommitted
        /\ t.paused = adapter.paused /\ t.advance = adapter.advance /\ t.record = adapter.record
    BY SourceTyped DEF IsRec, Fields
  <2>2. adapter.record \in finished' /\ adapter.record \in Offsets
    <3>1. adapter.record # 0 /\ adapter.record \in 0..LogSize
      BY <1>1, SourceTyped DEF SourceInv, AdapterOK, Covered, PositionAccounted, Typed
    <3>2. finished' = finished \cup {adapter.record}
      BY <1>3 DEF ProcessReturns
    <3> QED BY <3>1, <3>2, LogAssumption DEF Offsets
  <2>3. adapter' = IF t.stopping THEN EndBatch(t)
                   ELSE [Enqueue(t, "record", t.record) EXCEPT !.stage = "committing",
                                                              !.current = TRUE]
    OBVIOUS
  <2> HIDE DEF t
  <2>4. CASE t.stopping
    <3>1. /\ adapter'.commits = adapter.commits /\ adapter'.stage = "none"
          /\ adapter'.uncommitted = adapter.uncommitted /\ adapter'.advance = adapter.advance
      BY <2>1, <2>3, <2>4 DEF EndBatch, IsRec, Fields
    <3> QED BY <1>1, <3>1 DEF Queued, RecordsQueued, AdvanceQueued, AdvanceKept, Advancing, Jobs
  <2>5. CASE ~t.stopping
    <3> DEFINE job == [by |-> "record", offset |-> adapter.record, current |-> TRUE]
    <3> DEFINE n == Len(adapter.commits) + 1
    <3>1. /\ adapter'.commits = Append(adapter.commits, job) /\ adapter'.stage = "committing"
          /\ adapter'.uncommitted = adapter.uncommitted /\ ~adapter'.paused
          /\ adapter'.advance = adapter.advance
      <4> DEFINE e == Enqueue(t, "record", t.record)
      <4>1. /\ IsRec(e) /\ e.paused = t.paused /\ e.advance = t.advance
            /\ e.uncommitted = t.uncommitted /\ e.commits = Append(t.commits, job)
        BY <2>1, EnqueueFrame
      <4> HIDE DEF e, job
      <4>2. adapter' = [e EXCEPT !.stage = "committing", !.current = TRUE]
        BY <2>3, <2>5 DEF e
      <4> QED BY <1>1, <2>1, <4>1, <4>2 DEF IsRec, Fields
    <3>2. job \in CommitJob /\ job.by = "record" /\ job.offset = adapter.record
      BY <2>2 DEF CommitJob
    <3> HIDE DEF job
    <3> HIDE DEF n
    <3>3. /\ n \notin DOMAIN adapter.commits /\ adapter'.commits[n] = job
          /\ \A i \in DOMAIN adapter.commits : adapter'.commits[i] = adapter.commits[i]
          /\ Jobs(adapter', "record") = Jobs(adapter, "record") \cup {n}
          /\ Jobs(adapter', "advance") = Jobs(adapter, "advance")
          /\ Jobs(adapter', "retry") = Jobs(adapter, "retry")
      <4>1. adapter.commits \in Seq(CommitJob) /\ adapter'.commits = Append(adapter.commits, job)
        BY <3>1, SourceTyped
      <4>2. n = Len(adapter.commits) + 1
        BY DEF n
      <4> QED BY <3>2, <4>1, <4>2, AppendJobs
    <3>4. /\ Jobs(adapter', "record") = {n} /\ Jobs(adapter', "advance") = {}
          /\ Jobs(adapter', "retry") = Jobs(adapter, "retry")
          /\ Jobs(adapter, "retry") \subseteq DOMAIN adapter.commits
      BY <1>1, <3>3 DEF Jobs
    <3> QED BY <1>1, <2>2, <3>1, <3>2, <3>3, <3>4
            DEF Queued, RecordsQueued, AdvanceQueued, AdvanceKept, Advancing
  <2> QED BY <2>4, <2>5
<1> QED BY <1>2, <1>3

LEMMA CommitRunsQueue ==
    ASSUME NEW ext, SourceInv(ext), Queued,
           NEW outcome \in {"ok", "lost", "failed", "skipped"}, CommitRuns(outcome)
    PROVE  Queued' /\ AdvanceKept(adapter, adapter')
<1> DEFINE job == Head(adapter.commits)
<1> DEFINE t == Taken(adapter, job, outcome)
<1> DEFINE v == IF outcome = "ok" THEN Active(t) ELSE t
<1> DEFINE ok == outcome = "ok"
<1>1. adapter.commits # <<>> /\ UNCHANGED finished
  BY DEF CommitRuns
<1>2. job \in CommitJob /\ job.offset \in Offsets /\ job.by \in {"record", "retry", "advance"}
  <2>1. job \in CommitJob
    BY <1>1, HeadTailProperties, SourceTyped
  <2> QED BY <2>1 DEF CommitJob
<1>3. /\ \/ /\ job.by = "retry" /\ adapter' = [t EXCEPT !.retrying = FALSE]
            /\ committed' = committed
         \/ /\ adapter' = Answered(v, job, ok)
            /\ committed' = job.offset + 1 \/ committed' = committed
      /\ job.by = "retry" /\ committed' # committed =>
            StillWanted(t, job) /\ committed' = job.offset + 1
  BY DEF CommitRuns
<1>4. /\ IsRec(t) /\ t.commits = Tail(adapter.commits) /\ t.uncommitted = adapter.uncommitted
      /\ t.stage = adapter.stage /\ t.paused = adapter.paused /\ t.advance = adapter.advance
  <2> DEFINE n == IF outcome = "ok" /\ job.offset > adapter.settled THEN job.offset
                  ELSE adapter.settled
  <2>1. t = [adapter EXCEPT !.commits = Tail(adapter.commits), !.settled = n]
    BY DEF Taken
  <2> HIDE DEF n, t
  <2> QED BY <2>1, SourceTyped DEF IsRec, Fields
<1> HIDE DEF t
<1>5. /\ IsRec(v) /\ v.commits = t.commits /\ v.uncommitted = t.uncommitted
      /\ v.stage = t.stage /\ v.paused = t.paused /\ v.advance = t.advance
  BY <1>4 DEF IsRec, Fields, Active, SetStatus
<1> HIDE DEF v
<1>6. /\ \A by : \A i \in Jobs(adapter', by) :
            /\ i \in Nat \ {0} /\ i + 1 \in Jobs(adapter, by)
            /\ adapter'.commits[i] = adapter.commits[i + 1]
      /\ 1 \in Jobs(adapter, job.by) /\ job = adapter.commits[1]
  <2>1. adapter'.commits = Tail(adapter.commits)
    <3>1. CASE adapter' = [t EXCEPT !.retrying = FALSE]
      BY <1>4, <3>1 DEF IsRec, Fields
    <3>2. CASE adapter' = Answered(v, job, ok)
      BY <1>2, <1>4, <1>5, <3>2 DEF Answered, EndBatch, IsRec, Fields
    <3> QED BY <1>3, <3>1, <3>2
  <2> QED BY <1>1, <2>1, TailJobs, SourceTyped
\* A kind of job that the queue holds once is gone when it was the head.
<1>7. ASSUME NEW by \in {"record", "advance"}
      PROVE  /\ \A i, j \in Jobs(adapter', by) : i = j
             /\ job.by = by => Jobs(adapter', by) = {}
  <2>1. \A i, j \in Jobs(adapter, by) : i = j
    BY DEF Queued, RecordsQueued, AdvanceQueued
  <2>2. ASSUME NEW i \in Jobs(adapter', by), NEW j \in Jobs(adapter', by) PROVE i = j
    <3>1. i + 1 = j + 1 /\ i \in Nat /\ j \in Nat
      BY <1>6, <2>1
    <3> QED BY <3>1
  <2>3. ASSUME job.by = by, NEW i \in Jobs(adapter', by) PROVE FALSE
    <3>1. i + 1 = 1 /\ i \in Nat \ {0}
      BY <1>6, <2>1, <2>3
    <3> QED BY <3>1
  <2> QED BY <2>2, <2>3
<1>8. \A i \in Jobs(adapter', "record") \cup Jobs(adapter', "retry") :
         adapter'.commits[i].offset \in finished'
  BY <1>1, <1>6 DEF Queued, RecordsQueued
<1>9. CASE job.by = "record"
  <2>1. job.offset \in finished /\ adapter.stage = "committing" /\ ~adapter.paused
        /\ adapter.advance.step = "none"
    BY <1>6, <1>9 DEF Queued, RecordsQueued, AdvanceQueued
  <2>2. /\ adapter'.stage = "none" /\ adapter'.paused = adapter.paused
        /\ adapter'.advance = adapter.advance
        /\ adapter'.uncommitted \in {0, adapter.uncommitted, job.offset}
    <3>1. adapter' = Answered(v, job, ok)
      BY <1>3, <1>9
    <3> HIDE DEF job, ok
    <3> QED BY <1>4, <1>5, <1>9, <3>1 DEF Answered, EndBatch, IsRec, Fields
  <2>3. Jobs(adapter', "advance") = {}
    BY <1>6, <2>1 DEF Queued, AdvanceQueued
  <2> HIDE DEF job
  <2> QED BY <1>1, <1>7, <1>8, <1>9, <2>1, <2>2, <2>3
          DEF Queued, RecordsQueued, AdvanceQueued, AdvanceKept, Advancing
<1>10. CASE job.by = "retry"
  <2>1. /\ adapter'.stage = adapter.stage /\ adapter'.paused = adapter.paused
        /\ adapter'.advance = adapter.advance
        /\ adapter'.uncommitted \in {0, adapter.uncommitted}
    <3> HIDE DEF job, ok
    <3>1. CASE adapter' = [t EXCEPT !.retrying = FALSE]
      BY <1>4, <3>1 DEF IsRec, Fields
    <3>2. CASE adapter' = Answered(v, job, ok)
      BY <1>4, <1>5, <1>10, <3>2 DEF Answered, IsRec, Fields
    <3> QED BY <1>3, <3>1, <3>2
  <2>2. adapter'.advance.step = "confirm" => committed' > adapter'.advance.offset
    <3> SUFFICES ASSUME adapter.advance.step = "confirm" PROVE committed' > adapter.advance.offset
      BY <2>1
    <3>1. CASE committed' = committed
      BY <3>1 DEF Queued
    <3>2. CASE committed' # committed
      <4>1. adapter.uncommitted = job.offset /\ committed' = job.offset + 1
        BY <1>3, <1>4, <1>10, <3>2 DEF StillWanted
      <4>2. job.offset > adapter.advance.offset
        BY <1>2, <4>1 DEF Queued, AdvanceQueued, Offsets
      <4>3. job.offset \in Int /\ adapter.advance.offset \in Int
        BY <1>2, SourceTyped DEF Offsets
      <4> QED BY <4>1, <4>2, <4>3
    <3> QED BY <3>1, <3>2
  <2>3. \A i \in Jobs(adapter', "record") : adapter.stage = "committing"
    BY <1>6 DEF Queued, RecordsQueued
  <2>4. \A i \in Jobs(adapter', "advance") :
           adapter.advance.step = "commit"
           /\ adapter'.commits[i].offset = adapter.advance.offset
    BY <1>6 DEF Queued, AdvanceQueued
  <2> HIDE DEF job
  <2> QED BY <1>1, <1>7, <1>8, <2>1, <2>2, <2>3, <2>4
          DEF Queued, RecordsQueued, AdvanceQueued, AdvanceKept, Advancing
<1>11. CASE job.by = "advance"
  <2>1. adapter.advance.step = "commit" /\ job.offset = adapter.advance.offset /\ adapter.paused
    BY <1>6, <1>11 DEF Queued, AdvanceQueued
  <2>2. /\ adapter'.stage = adapter.stage /\ adapter'.paused = adapter.paused
        /\ adapter'.advance.offset = adapter.advance.offset
        /\ adapter'.advance.step = IF ok THEN "readback" ELSE "uncertain"
        /\ adapter'.uncommitted = IF ok /\ adapter.uncommitted <= job.offset THEN 0
                                  ELSE adapter.uncommitted
    <3>1. adapter' = Answered(v, job, ok)
      BY <1>3, <1>11
    <3>2. IsRec(adapter.advance) \/ adapter.advance \in [step : AdvanceSteps, offset : 0..LogSize,
                                                         current : BOOLEAN]
      BY SourceTyped DEF Typed
    <3> HIDE DEF job, ok
    <3> QED BY <1>4, <1>5, <1>11, <3>1, SourceTyped DEF Answered, IsRec, Fields, Typed
  <2>3. \A i \in Jobs(adapter', "record") : adapter.stage = "committing"
    BY <1>6 DEF Queued, RecordsQueued
  <2>4. adapter'.advance.step = "readback" /\ adapter'.uncommitted # 0 =>
           adapter'.uncommitted > adapter'.advance.offset
    BY <1>2, <2>1, <2>2, SourceTyped DEF Offsets
  <2> HIDE DEF job, ok
  <2> QED BY <1>1, <1>7, <1>8, <1>11, <2>1, <2>2, <2>3, <2>4
          DEF Queued, RecordsQueued, AdvanceQueued, AdvanceKept, Advancing
<1> QED BY <1>2, <1>9, <1>10, <1>11

LEMMA RetryCommitsQueue ==
    ASSUME NEW ext, SourceInv(ext), Queued, RetryCommits
    PROVE  Queued' /\ AdvanceKept(adapter, adapter')
<1>1. adapter.uncommitted \in finished /\ adapter.uncommitted \in Offsets
      /\ UNCHANGED <<committed, finished>>
  BY SourceTyped, LogAssumption DEF RetryCommits, Queued, RecordsQueued, Offsets
<1>2. CASE adapter.retryable
  <2> DEFINE job == [by |-> "retry", offset |-> adapter.uncommitted, current |-> TRUE]
  <2> DEFINE e == Enqueue(adapter, "retry", adapter.uncommitted)
  <2> DEFINE n == Len(adapter.commits) + 1
  <2>1. job \in CommitJob /\ job.by = "retry" /\ job.offset = adapter.uncommitted
    BY <1>1 DEF CommitJob
  <2>2. /\ IsRec(e) /\ e.stage = adapter.stage /\ e.paused = adapter.paused
        /\ e.advance = adapter.advance /\ e.uncommitted = adapter.uncommitted
        /\ e.commits = Append(adapter.commits, job)
    BY SourceTyped, EnqueueFrame
  <2>3. adapter' = [e EXCEPT !.retrying = TRUE]
    BY <1>2 DEF RetryCommits
  <2> HIDE DEF e, job
  <2>4. /\ adapter'.stage = adapter.stage /\ adapter'.paused = adapter.paused
        /\ adapter'.advance = adapter.advance /\ adapter'.uncommitted = adapter.uncommitted
        /\ adapter'.commits = Append(adapter.commits, job)
    BY <2>2, <2>3 DEF IsRec, Fields
  <2>5. n = Len(adapter.commits) + 1 /\ adapter.commits \in Seq(CommitJob)
    BY SourceTyped
  <2> HIDE DEF n
  <2>6. /\ n \notin DOMAIN adapter.commits /\ adapter'.commits[n] = job
        /\ \A i \in DOMAIN adapter.commits : adapter'.commits[i] = adapter.commits[i]
        /\ Jobs(adapter', "retry") = Jobs(adapter, "retry") \cup {n}
        /\ Jobs(adapter', "advance") = Jobs(adapter, "advance")
        /\ Jobs(adapter', "record") = Jobs(adapter, "record")
    BY <2>1, <2>4, <2>5, AppendJobs
  <2>7. \A by : Jobs(adapter, by) \subseteq DOMAIN adapter.commits
    BY DEF Jobs
  <2>8. AdvanceKept(adapter, adapter')
    BY <2>4 DEF AdvanceKept
  <2>9. AdvanceQueued(adapter')
    <3>1. AdvanceQueued(adapter)
      BY DEF Queued
    <3> QED BY <2>4, <2>6, <2>7, <3>1 DEF AdvanceQueued
  <2>10. RecordsQueued(adapter', finished')
    <3>1. RecordsQueued(adapter, finished)
      BY DEF Queued
    <3>2. \A i \in Jobs(adapter', "record") \cup Jobs(adapter', "retry") :
            adapter'.commits[i].offset \in finished
      BY <1>1, <2>1, <2>6, <2>7, <3>1 DEF RecordsQueued
    <3> QED BY <1>1, <2>4, <2>6, <3>1, <3>2 DEF RecordsQueued
  <2> QED BY <1>1, <2>4, <2>8, <2>9, <2>10 DEF Queued
<1>3. CASE ~adapter.retryable
  <2>1. adapter' = [adapter EXCEPT !.uncommitted = 0]
    BY <1>3 DEF RetryCommits
  <2>2. /\ adapter'.stage = adapter.stage /\ adapter'.paused = adapter.paused
        /\ adapter'.advance = adapter.advance /\ adapter'.uncommitted = 0
        /\ adapter'.commits = adapter.commits
    BY <2>1, SourceTyped DEF IsRec, Fields
  <2> QED BY <1>1, <2>2 DEF Queued, RecordsQueued, AdvanceQueued, AdvanceKept, Advancing, Jobs
<1> QED BY <1>2, <1>3

LEMMA ResumeQueue ==
    ASSUME NEW ext, SourceInv(ext), Queued, ResumeKafka
    PROVE  Queued' /\ AdvanceKept(adapter, adapter')
<1> DEFINE t == [adapter EXCEPT !.paused = FALSE, !.held = 0]
<1>1. /\ IsRec(t) /\ t.commits = adapter.commits /\ t.uncommitted = adapter.uncommitted
      /\ t.stage = adapter.stage /\ t.advance = adapter.advance /\ ~t.paused
  BY SourceTyped DEF IsRec, Fields
<1>2. adapter' = SetStatus(t, "healthy") /\ UNCHANGED <<committed, finished>>
      /\ adapter.advance.step = "none"
  BY DEF ResumeKafka
<1> HIDE DEF t
<1>3. /\ adapter'.commits = adapter.commits /\ adapter'.uncommitted = adapter.uncommitted
      /\ adapter'.stage = adapter.stage /\ adapter'.advance = adapter.advance /\ ~adapter'.paused
  BY <1>1, <1>2 DEF SetStatus, IsRec, Fields
<1> QED BY <1>2, <1>3 DEF Queued, RecordsQueued, AdvanceQueued, AdvanceKept, Advancing, Jobs

LEMMA AdvanceStartsQueue ==
    ASSUME NEW ext, SourceInv(ext), Queued, NEW offset \in Offsets, AdvanceStarts(offset)
    PROVE  Queued'
<1> DEFINE job == [by |-> "advance", offset |-> offset, current |-> TRUE]
<1> DEFINE v == [step |-> "commit", offset |-> offset, current |-> TRUE]
<1> DEFINE e == Enqueue(adapter, "advance", offset)
<1> DEFINE n == Len(adapter.commits) + 1
<1>1. job \in CommitJob /\ job.by = "advance" /\ job.offset = offset
      /\ v.step = "commit" /\ v.offset = offset
  BY DEF CommitJob
<1>2. /\ IsRec(e) /\ e.stage = adapter.stage /\ e.paused = adapter.paused
      /\ e.uncommitted = adapter.uncommitted /\ e.commits = Append(adapter.commits, job)
  BY SourceTyped, EnqueueFrame
<1>3. /\ adapter' = [e EXCEPT !.advance = v] /\ adapter.paused /\ adapter.advance.step = "none"
      /\ UNCHANGED <<committed, finished>>
  BY DEF AdvanceStarts, IsHeld
<1> HIDE DEF e, job, v
<1>4. /\ adapter'.stage = adapter.stage /\ adapter'.paused /\ adapter'.advance = v
      /\ adapter'.uncommitted = adapter.uncommitted
      /\ adapter'.commits = Append(adapter.commits, job)
  BY <1>2, <1>3 DEF IsRec, Fields
<1>5. n = Len(adapter.commits) + 1 /\ adapter.commits \in Seq(CommitJob)
  BY SourceTyped
<1> HIDE DEF n
<1>6. /\ n \notin DOMAIN adapter.commits /\ adapter'.commits[n] = job
      /\ \A i \in DOMAIN adapter.commits : adapter'.commits[i] = adapter.commits[i]
      /\ Jobs(adapter', "advance") = Jobs(adapter, "advance") \cup {n}
      /\ Jobs(adapter', "retry") = Jobs(adapter, "retry")
      /\ Jobs(adapter', "record") = Jobs(adapter, "record")
  BY <1>1, <1>4, <1>5, AppendJobs
<1>7. Jobs(adapter, "advance") = {} /\ \A by : Jobs(adapter, by) \subseteq DOMAIN adapter.commits
  BY <1>3 DEF Jobs, Queued, AdvanceQueued
<1> QED BY <1>1, <1>3, <1>4, <1>6, <1>7 DEF Queued, RecordsQueued, AdvanceQueued

LEMMA AdvanceReadsBackQueue ==
    ASSUME NEW ext, SourceInv(ext), Queued, NEW read \in BOOLEAN, AdvanceReadsBack(read)
    PROVE  Queued' /\ AdvanceKept(adapter, adapter')
<1> DEFINE step == IF read /\ Confirmed THEN "confirm" ELSE "uncertain"
<1> DEFINE v == [adapter.advance EXCEPT !.step = step]
<1>1. /\ adapter' = [adapter EXCEPT !.advance = v] /\ adapter.advance.step = "readback"
      /\ UNCHANGED <<committed, finished>>
  BY DEF AdvanceReadsBack
<1>2. v.step = step /\ v.offset = adapter.advance.offset
  BY SourceTyped DEF Typed
<1>3. step = "confirm" => committed > adapter.advance.offset
  BY SourceTyped DEF Confirmed
<1>4. step \in {"confirm", "uncertain"}
  OBVIOUS
<1> HIDE DEF v, step
<1>5. /\ adapter'.commits = adapter.commits /\ adapter'.uncommitted = adapter.uncommitted
      /\ adapter'.stage = adapter.stage /\ adapter'.paused = adapter.paused
      /\ adapter'.advance = v
  BY <1>1, SourceTyped DEF IsRec, Fields
<1>6. Jobs(adapter', "advance") = {} /\ \A by : Jobs(adapter', by) = Jobs(adapter, by)
  BY <1>1, <1>5 DEF Jobs, Queued, AdvanceQueued
<1> QED BY <1>1, <1>2, <1>3, <1>4, <1>5, <1>6
        DEF Queued, RecordsQueued, AdvanceQueued, AdvanceKept, Advancing

LEMMA AdvanceConfirmedQueue ==
    ASSUME NEW ext, SourceInv(ext), Queued, NEW recorded \in BOOLEAN, AdvanceConfirmed(recorded)
    PROVE  Queued' /\ AdvanceKept(adapter, adapter')
<1>1. /\ adapter.advance.step = "confirm" /\ adapter.stage = "none"
      /\ Jobs(adapter, "advance") = {} /\ UNCHANGED <<committed, finished>> /\ adapter.paused
  BY DEF AdvanceConfirmed, Queued, RecordsQueued, AdvanceQueued
<1>2. CASE ~recorded \/ adapter.stopping
  <2> DEFINE v == [adapter.advance EXCEPT !.step = "uncertain"]
  <2>1. adapter' = [adapter EXCEPT !.advance = v] /\ v.step = "uncertain"
    BY <1>2, SourceTyped DEF AdvanceConfirmed, Typed
  <2> HIDE DEF v
  <2>2. /\ adapter'.commits = adapter.commits /\ adapter'.uncommitted = adapter.uncommitted
        /\ adapter'.stage = adapter.stage /\ adapter'.paused = adapter.paused
        /\ adapter'.advance = v
    BY <2>1, SourceTyped DEF IsRec, Fields
  <2>3. Jobs(adapter', "advance") = {} /\ \A by : Jobs(adapter', by) = Jobs(adapter, by)
    BY <1>1, <2>2 DEF Jobs
  <2> QED BY <1>1, <2>1, <2>2, <2>3 DEF Queued, RecordsQueued, AdvanceQueued, AdvanceKept, Advancing
<1>3. CASE ~(~recorded \/ adapter.stopping)
  <2> DEFINE n == adapter.advance.offset + 1
  <2> DEFINE v == NoAdvance
  <2> DEFINE t == [adapter EXCEPT !.held = 0, !.paused = FALSE, !.position = n, !.advance = v]
  <2>1. adapter' = SetStatus(t, "healthy") /\ v.step = "none"
    BY <1>3 DEF AdvanceConfirmed, NoAdvance
  <2> HIDE DEF n, v
  <2>2. /\ IsRec(t) /\ t.commits = adapter.commits /\ t.uncommitted = adapter.uncommitted
        /\ t.stage = adapter.stage /\ ~t.paused /\ t.advance = v
    BY SourceTyped DEF IsRec, Fields
  <2> HIDE DEF t
  <2>3. /\ adapter'.commits = adapter.commits /\ adapter'.uncommitted = adapter.uncommitted
        /\ adapter'.stage = adapter.stage /\ ~adapter'.paused /\ adapter'.advance = v
    BY <2>1, <2>2 DEF SetStatus, IsRec, Fields
  <2>4. Jobs(adapter', "advance") = {} /\ \A by : Jobs(adapter', by) = Jobs(adapter, by)
    BY <1>1, <2>3 DEF Jobs
  <2> QED BY <1>1, <2>1, <2>3, <2>4 DEF Queued, RecordsQueued, AdvanceQueued, AdvanceKept, Advancing
<1> QED BY <1>2, <1>3

\* A new epoch changes no job but for the epoch it was asked in.
LEMMA NextEpochSame ==
    ASSUME NEW ext, SourceInv(ext)
    PROVE  IsRec(NextEpoch(adapter)) /\ SameQueue(adapter, NextEpoch(adapter))
<1> DEFINE q == [i \in DOMAIN adapter.commits |-> [adapter.commits[i] EXCEPT !.current = FALSE]]
<1> DEFINE v == [adapter.advance EXCEPT !.current = FALSE]
<1> DEFINE b == [adapter EXCEPT !.current = FALSE, !.retryable = FALSE, !.commits = q,
                                !.advance = v]
<1>1. /\ DOMAIN q = DOMAIN adapter.commits
      /\ \A i \in DOMAIN adapter.commits :
            q[i].by = adapter.commits[i].by /\ q[i].offset = adapter.commits[i].offset
  <2>1. \A i \in DOMAIN adapter.commits : adapter.commits[i] \in CommitJob
    BY SourceTyped
  <2> QED BY <2>1 DEF CommitJob
<1>2. v.step = adapter.advance.step /\ v.offset = adapter.advance.offset
  BY SourceTyped DEF Typed
<1>3. NextEpoch(adapter) = b
  BY DEF NextEpoch
<1> HIDE DEF q, v
<1>4. /\ IsRec(b) /\ b.commits = q /\ b.advance = v /\ b.uncommitted = adapter.uncommitted
      /\ b.stage = adapter.stage /\ b.paused = adapter.paused
  BY SourceTyped DEF IsRec, Fields
<1> QED BY <1>1, <1>2, <1>3, <1>4 DEF SameQueue

LEMMA BrokerQueue ==
    ASSUME NEW ext, SourceInv(ext), Queued, Broker
    PROVE  Queued' /\ AdvanceKept(adapter, adapter')
<1> DEFINE e == NextEpoch(adapter)
<1>1. IsRec(e) /\ SameQueue(adapter, e)
  BY NextEpochSame
<1>2. UNCHANGED <<committed, finished>>
  BY DEF Broker, Rebalancing, ConsumerLost, GroupJoin, Watchdog, Activity
<1> HIDE DEF e
<1>3. CASE Rebalancing
  <2> DEFINE t == [e EXCEPT !.rebalancing = TRUE, !.assigned = FALSE]
  <2>1. adapter' = SetStatus(t, "degraded")
    BY <1>3 DEF Rebalancing, e
  <2>2. IsRec(t) /\ SameQueue(adapter, t)
    BY <1>1 DEF IsRec, Fields, SameQueue
  <2> HIDE DEF t
  <2>3. SameQueue(adapter, adapter')
    BY <2>1, <2>2, SetStatusSame DEF SameQueue
  <2> QED BY <1>2, <2>3, QueueSame
<1>4. CASE ConsumerLost
  <2> DEFINE t == [e EXCEPT !.running = FALSE, !.assigned = FALSE]
  <2>1. adapter' = SetStatus(t, "degraded")
    BY <1>4 DEF ConsumerLost, e
  <2>2. IsRec(t) /\ SameQueue(adapter, t)
    BY <1>1 DEF IsRec, Fields, SameQueue
  <2> HIDE DEF t
  <2>3. SameQueue(adapter, adapter')
    BY <2>1, <2>2, SetStatusSame DEF SameQueue
  <2> QED BY <1>2, <2>3, QueueSame
<1>5. CASE GroupJoin
  <2> DEFINE n == committed
  <2> DEFINE t == [e EXCEPT !.running = TRUE, !.assigned = TRUE, !.rebalancing = FALSE,
                            !.position = n]
  <2>1. adapter' = SetStatus(t, "healthy")
    BY <1>5 DEF GroupJoin, e
  <2> HIDE DEF n
  <2>2. IsRec(t) /\ SameQueue(adapter, t)
    BY <1>1 DEF IsRec, Fields, SameQueue
  <2> HIDE DEF t
  <2>3. SameQueue(adapter, adapter')
    BY <2>1, <2>2, SetStatusSame DEF SameQueue
  <2> QED BY <1>2, <2>3, QueueSame
<1>6. CASE Watchdog \/ Activity
  <2>1. SameQueue(adapter, adapter')
    <3>1. adapter' \in {adapter, SetStatus(adapter, "healthy"), SetStatus(adapter, "degraded")}
      BY <1>6 DEF Watchdog, Activity, Active
    <3> QED BY <3>1, SourceTyped, SetStatusSame DEF SameQueue
  <2> QED BY <1>2, <2>1, QueueSame
<1> QED BY <1>3, <1>4, <1>5, <1>6 DEF Broker

-----------------------------------------------------------------------------
(* The journal and the memory of the service.                              *)

ProgressStates == {"none", "advanced", "processed"} \cup Watched

\* The await the service is at belongs to the job whose turn it is.
AwaitsInTurn(s) ==
    /\ s.step # "idle" =>
          s.chain # <<>>
          /\ s.chain[1].kind = IF s.step = "retiring" THEN "retire" ELSE "dispose"
    /\ s.changed => s.step # "idle"

ServiceOK(s) == s \in ServiceType /\ AwaitsInTurn(s)

LEMMA TypeIs == FailureTypeOK <=> journal \in JournalType /\ ServiceOK(service)
BY DEF FailureTypeOK, ServiceOK, AwaitsInTurn

LEMMA UpdateFacts ==
    ASSUME NEW j \in JournalType, NEW offsets, NEW progress \in ProgressStates
    PROVE  LET k == Update(j, offsets, progress)
           IN  /\ k \in JournalType /\ k.boundary = j.boundary /\ k.writable = j.writable
               /\ k.advances = j.advances /\ k.circuitOpen = j.circuitOpen
               /\ \A o \in Offsets : k.progress[o] = IF j.writable /\ o \in offsets THEN progress
                                                     ELSE j.progress[o]
<1> DEFINE p == [o \in Offsets |-> IF o \in offsets THEN progress ELSE j.progress[o]]
<1>1. j.progress \in [Offsets -> ProgressStates]
  BY DEF JournalType, ProgressStates
<1>2. p \in [Offsets -> ProgressStates] /\ \A o \in Offsets : p[o] = IF o \in offsets THEN progress
                                                                   ELSE j.progress[o]
  BY <1>1
<1>3. Update(j, offsets, progress) = IF j.writable THEN [j EXCEPT !.progress = p] ELSE j
  BY DEF Update
<1> HIDE DEF p
<1>4. LET k == [j EXCEPT !.progress = p]
      IN  /\ k \in JournalType /\ k.boundary = j.boundary /\ k.writable = j.writable
          /\ k.advances = j.advances /\ k.circuitOpen = j.circuitOpen /\ k.progress = p
  BY <1>2 DEF JournalType, ProgressStates
<1> QED BY <1>2, <1>3, <1>4

LEMMA TouchedFacts ==
    ASSUME NEW s, ServiceOK(s), NEW offsets
    PROVE  LET t == Touched(s, offsets)
           IN  ServiceOK(t) /\ t.boundary = s.boundary /\ t.step = s.step /\ t.chain = s.chain
<1> DEFINE c == s.changed \/ (s.step # "idle" /\ s.chain[1].offset \in offsets)
<1>1. c \in BOOLEAN /\ (c => s.step # "idle")
  BY DEF ServiceOK, ServiceType, AwaitsInTurn
<1>2. Touched(s, offsets) = [s EXCEPT !.changed = c]
  BY DEF Touched
<1> HIDE DEF c
<1> QED BY <1>1, <1>2 DEF ServiceOK, ServiceType, AwaitsInTurn

LEMMA EndedFacts ==
    ASSUME NEW s \in ServiceType, s.chain # <<>>
    PROVE  ServiceOK(Ended(s)) /\ Ended(s).boundary = s.boundary /\ Ended(s).step = "idle"
<1> DEFINE q == Tail(s.chain)
<1>1. q \in Seq(Job)
  BY HeadTailProperties DEF ServiceType
<1>2. Ended(s) = [s EXCEPT !.chain = q, !.step = "idle", !.changed = FALSE]
  BY DEF Ended
<1> HIDE DEF q
<1> QED BY <1>1, <1>2 DEF ServiceOK, ServiceType, AwaitsInTurn

LEMMA AskedFacts ==
    ASSUME NEW s, ServiceOK(s), NEW kind, NEW offset, NEW boundary,
           [kind |-> kind, offset |-> offset, boundary |-> boundary] \in Job,
           NEW t, t = Asked(s, kind, offset, boundary)
    PROVE  /\ ServiceOK(t) /\ t.boundary = s.boundary /\ t.step = s.step
           /\ t.queued = s.queued /\ t.toHold = s.toHold
           /\ s.step # "idle" => t.chain[1] = s.chain[1]
<1> DEFINE job == [kind |-> kind, offset |-> offset, boundary |-> boundary]
<1> DEFINE q == Append(s.chain, job)
<1>1. q \in Seq(Job) /\ (s.chain # <<>> => q # <<>> /\ q[1] = s.chain[1])
  <2>1. s.chain \in Seq(Job)
    BY DEF ServiceOK, ServiceType
  <2> HIDE DEF job
  <2>2. job \in Job
    BY DEF job
  <2>3. /\ q \in Seq(Job) /\ Len(q) = Len(s.chain) + 1 /\ Len(s.chain) \in Nat
        /\ \A i \in 1 .. Len(s.chain) : q[i] = s.chain[i]
        /\ q # <<>>
    BY <2>1, <2>2, AppendProperties, LenProperties
  <2>4. s.chain # <<>> => Len(s.chain) # 0
    BY <2>1, EmptySeq
  <2> HIDE DEF q
  <2> QED BY <2>3, <2>4
<1>2. t = [s EXCEPT !.chain = q]
  BY DEF Asked
<1> HIDE DEF q
<1> QED BY <1>1, <1>2 DEF ServiceOK, ServiceType, AwaitsInTurn

LEMMA RunningJob ==
    ASSUME NEW s, ServiceOK(s), s.chain # <<>>
    PROVE  s.chain[1] \in Job /\ (s.chain[1].kind = "dispose" => s.chain[1].offset \in Offsets)
<1>1. s.chain \in Seq(Job) /\ Len(s.chain) \in Nat \ {0}
  BY EmptySeq DEF ServiceOK, ServiceType
<1>2. s.chain[1] \in Job
  BY <1>1, ElementOfSeq
<1> QED BY <1>2 DEF Job

-----------------------------------------------------------------------------
(* Steps that resolve nothing but what was processed.                      *)

\* What a step leaves alone that only a turn of the failure chain may change: incidents not
\* yet being advanced are held, retried or resolved as processed; boundaries and the running
\* job stay.
Quiet ==
    /\ \A o \in Offsets : journal'.progress[o] # journal.progress[o] =>
          /\ journal.progress[o] \in {"held", "retrying"}
          /\ journal'.progress[o] \in {"held", "retrying", "processed"}
          /\ journal'.progress[o] = "processed" => o \in finished
    /\ journal'.boundary = journal.boundary /\ service'.boundary = service.boundary
    /\ service'.step = service.step
    /\ service.step # "idle" => service'.chain[1] = service.chain[1]

LEMMA QuietKeeps ==
    ASSUME FailureTypeOK, Recorded, Quiet, AdvanceKept(adapter, adapter'),
           finished \subseteq finished', excused' = excused, retired' = retired,
           excused \subseteq Offsets
    PROVE  Recorded'
<1>1. ExcusedIsRecorded'
  BY DEF Recorded, ExcusedIsRecorded, Quiet
<1>2. ProcessedIsFinished'
  BY DEF Recorded, ProcessedIsFinished, Quiet
<1>3. AdvanceIsPending'
  <2> SUFFICES ASSUME adapter'.advance.step \in Advancing
      PROVE  /\ service'.step = "advancing"
             /\ service'.chain[1].offset = adapter'.advance.offset
             /\ journal'.progress[service'.chain[1].offset] = "advance-pending"
    BY DEF AdvanceIsPending, Current
  <2>1. /\ service.step = "advancing" /\ Current = adapter.advance.offset
        /\ journal.progress[Current] = "advance-pending"
        /\ adapter'.advance.offset = adapter.advance.offset
    BY DEF AdvanceKept, Recorded, AdvanceIsPending
  <2>2. Current \in Offsets
    BY <2>1, RunningJob DEF FailureTypeOK, ServiceOK, AwaitsInTurn, Current
  <2>3. service'.step = "advancing" /\ service'.chain[1] = service.chain[1]
    BY <2>1 DEF Quiet
  <2>4. journal'.progress[Current] = journal.progress[Current]
    BY <2>1, <2>2 DEF Quiet
  <2> QED BY <2>1, <2>3, <2>4 DEF Current
<1> QED BY <1>1, <1>2, <1>3 DEF Recorded

LEMMA QuietResolves ==
    ASSUME Quiet, NEW offset \in Offsets, journal'.progress[offset] # journal.progress[offset]
    PROVE  /\ journal'.progress[offset] = "processed" => offset \in finished
           /\ journal'.progress[offset] # "advanced"
BY DEF Quiet

\* The source's own invariant, while nobody else moves the group.
LEMMA SourceKept ==
    ASSUME SourceInv(moved), moved' = moved,
           [SourceNext]_sourceVars \/ UNCHANGED <<adapter, committed, finished, excused>>
    PROVE  SourceInv(moved)'
<1> PICK m : m = moved /\ m = moved'
  OBVIOUS
<1>1. SourceInv(m)
  OBVIOUS
<1>2. CASE [SourceNext]_sourceVars
  <2>1. SourceInv(m)'
    BY <1>1, <1>2, SourceInvInductive
  <2> QED BY <2>1 DEF SourceInv, Done
<1>3. CASE UNCHANGED <<adapter, committed, finished, excused>>
  BY <1>3 DEF SourceInv, Done, SourceTypeOK
<1> QED BY <1>2, <1>3

\* An incident is resolved by a commit only if it was processed: committed().
LEMMA CommittedQuiet ==
    ASSUME FailureTypeOK, NEW offset \in Offsets, Committed(offset),
           journal.progress[offset] \in {"held", "retrying"} => offset \in finished
    PROVE  FailureTypeOK' /\ Quiet
<1> DEFINE settles == service.watched /\ journal.progress[offset] \in {"held", "retrying"}
<1> DEFINE resolved == IF settles THEN {offset} ELSE {}
<1> DEFINE q == [service.queued EXCEPT ![offset] = IF @ = "absent" THEN @ ELSE "processed"]
<1> DEFINE w == service.watched /\ Opened(journal) \ resolved # {}
<1> DEFINE s == [service EXCEPT !.queued = q, !.watched = w]
<1>1. /\ journal' = Update(journal, resolved, "processed")
      /\ service' = IF journal.writable THEN Touched(s, resolved) ELSE s
  BY DEF Committed
<1>2. ServiceOK(s) /\ s.boundary = service.boundary /\ s.step = service.step
      /\ s.chain = service.chain
  <2>1. w \in BOOLEAN /\ q \in [Offsets -> {"absent", "waiting", "processed"}]
    BY DEF FailureTypeOK, ServiceType
  <2> HIDE DEF w, q
  <2> QED BY <2>1, TypeIs DEF ServiceOK, ServiceType, AwaitsInTurn
<1>3. \A o \in resolved : o = offset /\ journal.progress[offset] \in {"held", "retrying"}
  OBVIOUS
<1> HIDE DEF s, resolved
<1>4. ServiceOK(service') /\ service'.boundary = service.boundary
      /\ service'.step = service.step /\ service'.chain = service.chain
  BY <1>1, <1>2, TouchedFacts
<1>5. /\ journal' \in JournalType /\ journal'.boundary = journal.boundary
      /\ \A o \in Offsets : journal'.progress[o] =
            IF journal.writable /\ o \in resolved THEN "processed" ELSE journal.progress[o]
  BY <1>1, UpdateFacts DEF FailureTypeOK, ProgressStates
<1> QED BY <1>3, <1>4, <1>5 DEF Quiet, FailureTypeOK, ServiceOK, AwaitsInTurn

LEMMA RecordDeliveredQuiet ==
    ASSUME FailureInv, RecordDelivered PROVE FailureTypeOK' /\ Quiet
<1> DEFINE found == IF service.watched THEN Problems(adapter.position) ELSE {}
<1> DEFINE after == {o \in found : journal.progress[o] # "uncertain"}
<1>1. ServiceOK(service) /\ journal \in JournalType
  BY TypeIs DEF FailureInv
<1>2. CASE after = {}
  <2> DEFINE m == found # {}
  <2>1. service' = [service EXCEPT !.mustHold = m] /\ journal' = journal
    BY <1>2 DEF RecordDelivered
  <2>2. m \in BOOLEAN
    OBVIOUS
  <2> HIDE DEF m
  <2>3. ServiceOK(service') /\ service'.boundary = service.boundary
        /\ service'.step = service.step /\ service'.chain = service.chain
    BY <1>1, <2>1, <2>2 DEF ServiceOK, ServiceType, AwaitsInTurn
  <2> QED BY <1>1, <2>1, <2>3, TypeIs DEF Quiet, FailureTypeOK, ServiceOK, AwaitsInTurn
<1>3. CASE after # {}
  <2>1. PICK o \in after :
           /\ journal' = IF journal.progress[o] = "retrying"
                         THEN Update(journal, {o}, "held") ELSE journal
           /\ \E noted \in {journal.writable, journal.writable /\ journal.progress[o] = "retrying"} :
                 service' = [(IF noted THEN Touched(service, {o}) ELSE service)
                                EXCEPT !.mustHold = TRUE]
    BY <1>3 DEF RecordDelivered
  <2>2. PICK noted :
           service' = [(IF noted THEN Touched(service, {o}) ELSE service) EXCEPT !.mustHold = TRUE]
    BY <2>1
  <2> DEFINE s == IF noted THEN Touched(service, {o}) ELSE service
  <2>3. ServiceOK(s) /\ s.boundary = service.boundary /\ s.step = service.step
        /\ s.chain = service.chain
    BY <1>1, TouchedFacts
  <2>4. service' = [s EXCEPT !.mustHold = TRUE]
    BY <2>2
  <2> HIDE DEF s
  <2>5. ServiceOK(service') /\ service'.boundary = service.boundary
        /\ service'.step = service.step /\ service'.chain = service.chain
    BY <2>3, <2>4 DEF ServiceOK, ServiceType, AwaitsInTurn
  <2>6. /\ journal' \in JournalType /\ journal'.boundary = journal.boundary
        /\ \A x \in Offsets : journal'.progress[x] # journal.progress[x] =>
              journal.progress[x] = "retrying" /\ journal'.progress[x] = "held"
    BY <1>1, <2>1, UpdateFacts DEF ProgressStates, Watched
  <2> QED BY <2>5, <2>6, TypeIs DEF Quiet, FailureTypeOK, ServiceOK, AwaitsInTurn
<1> QED BY <1>2, <1>3

LEMMA RecordProcessedQuiet ==
    ASSUME FailureInv, NEW outcome, RecordProcessed(outcome) PROVE FailureTypeOK' /\ Quiet
<1> DEFINE others == {o \in Offsets : service.watched /\ outcome \in {"pause", "hold"}
                                      /\ journal.progress[o] = "retrying" /\ o # adapter.record}
<1> DEFINE s == IF journal.writable THEN Touched(service, others) ELSE service
<1> DEFINE h == IF outcome = "pause" THEN adapter.record ELSE s.toHold
<1>1. ServiceOK(service) /\ journal \in JournalType /\ adapter.record \in 0..LogSize
  BY TypeIs, SourceTyped DEF FailureInv, Typed
<1>2. ServiceOK(s) /\ s.boundary = service.boundary /\ s.step = service.step
      /\ s.chain = service.chain
  BY <1>1, TouchedFacts
<1>3. journal' = Update(journal, others, "held")
      /\ service' = [s EXCEPT !.mustHold = FALSE, !.toHold = h]
  BY DEF RecordProcessed
<1>4. \A o \in others : journal.progress[o] = "retrying"
  OBVIOUS
<1> HIDE DEF s, others
<1>5. h \in 0..LogSize
  BY <1>1, <1>2 DEF ServiceOK, ServiceType
<1> HIDE DEF h
<1>6. ServiceOK(service') /\ service'.boundary = service.boundary
      /\ service'.step = service.step /\ service'.chain = service.chain
  BY <1>2, <1>3, <1>5 DEF ServiceOK, ServiceType, AwaitsInTurn
<1>7. /\ journal' \in JournalType /\ journal'.boundary = journal.boundary
      /\ \A x \in Offsets : journal'.progress[x] # journal.progress[x] =>
            journal.progress[x] = "retrying" /\ journal'.progress[x] = "held"
  BY <1>1, <1>3, <1>4, UpdateFacts DEF ProgressStates, Watched
<1> QED BY <1>6, <1>7, TypeIs DEF Quiet, FailureTypeOK, ServiceOK, AwaitsInTurn

\* Neither the service nor the journal, or only parts of them nobody relies on.
LEMMA UntouchedQuiet ==
    ASSUME FailureTypeOK, UNCHANGED <<journal, service>> PROVE FailureTypeOK' /\ Quiet
BY DEF FailureTypeOK, Quiet

LEMMA CommitEndsQuiet ==
    ASSUME FailureInv, NEW outcome, CommitEnds(outcome) PROVE FailureTypeOK' /\ Quiet
<1> DEFINE job == Head(adapter.commits)
<1>1. adapter.commits # <<>>
      /\ (IF outcome = "ok" /\ job.by \in {"record", "retry"} THEN Committed(job.offset)
          ELSE UNCHANGED <<journal, service>>)
  BY DEF CommitEnds, CommitRuns
<1>2. job \in CommitJob /\ 1 \in Jobs(adapter, job.by) /\ job = adapter.commits[1]
  <2>1. Len(adapter.commits) \in Nat \ {0} /\ DOMAIN adapter.commits = 1 .. Len(adapter.commits)
    BY <1>1, SourceTyped, EmptySeq DEF FailureInv
  <2>2. job = adapter.commits[1] /\ 1 \in DOMAIN adapter.commits
    BY <2>1
  <2> HIDE DEF job
  <2>3. adapter.commits[1] \in CommitJob
    BY <2>2, SourceTyped DEF FailureInv
  <2> QED BY <2>2, <2>3 DEF Jobs
<1>3. CASE outcome = "ok" /\ job.by \in {"record", "retry"}
  <2>1. job.offset \in Offsets /\ job.offset \in finished
    BY <1>2, <1>3 DEF FailureInv, Queued, RecordsQueued, CommitJob
  <2> QED BY <1>1, <1>3, <2>1, CommittedQuiet DEF FailureInv
<1>4. CASE ~(outcome = "ok" /\ job.by \in {"record", "retry"})
  BY <1>1, <1>4, UntouchedQuiet DEF FailureInv
<1> QED BY <1>3, <1>4

LEMMA AdvanceReadsQuiet ==
    ASSUME FailureInv, NEW read, AdvanceReads(read) PROVE FailureTypeOK' /\ Quiet
<1>1. adapter.advance.step = "readback"
  BY DEF AdvanceReads, AdvanceReadsBack
<1>2. /\ service.step = "advancing" /\ Current = adapter.advance.offset
      /\ journal.progress[Current] = "advance-pending"
  BY <1>1 DEF FailureInv, Recorded, AdvanceIsPending, Advancing
<1>3. Current \in Offsets
  BY <1>2, RunningJob DEF FailureInv, FailureTypeOK, ServiceOK, AwaitsInTurn, Current
<1> QED BY <1>2, <1>3, CommittedQuiet, UntouchedQuiet DEF AdvanceReads, FailureInv

LEMMA AskedQuiet ==
    ASSUME FailureTypeOK, NEW kind, NEW offset, NEW boundary,
           [kind |-> kind, offset |-> offset, boundary |-> boundary] \in Job,
           service' = Asked(service, kind, offset, boundary), UNCHANGED journal
    PROVE  FailureTypeOK' /\ Quiet
<1>1. ServiceOK(service) /\ journal \in JournalType
  BY TypeIs
<1>2. /\ ServiceOK(service') /\ service'.boundary = service.boundary
      /\ service'.step = service.step
      /\ service.step # "idle" => service'.chain[1] = service.chain[1]
  BY <1>1, AskedFacts
<1> QED BY <1>1, <1>2, TypeIs DEF Quiet, FailureTypeOK, ServiceOK, AwaitsInTurn

LEMMA HeldQuiet == ASSUME FailureInv, Held PROVE FailureTypeOK' /\ Quiet
<1> PICK kind, offset, none : kind = "dispose" /\ offset = service.toHold /\ none = {}
  OBVIOUS
<1> PICK a : a = Asked(service, kind, offset, none)
  OBVIOUS
<1> DEFINE q == [a.queued EXCEPT ![offset] = "waiting"]
<1>1. ServiceOK(service) /\ journal \in JournalType /\ offset \in Offsets
  BY TypeIs, LogAssumption DEF FailureInv, Held, ServiceOK, ServiceType, Offsets
<1>2. [kind |-> kind, offset |-> offset, boundary |-> none] \in Job
  BY <1>1 DEF Job
<1>3. service' = [a EXCEPT !.queued = q, !.toHold = 0] /\ journal' = journal
  BY DEF Held, Asked
<1>4. /\ ServiceOK(a) /\ a.boundary = service.boundary /\ a.step = service.step
      /\ service.step # "idle" => a.chain[1] = service.chain[1]
  BY <1>1, <1>2, AskedFacts
<1>5. q \in [Offsets -> {"absent", "waiting", "processed"}] /\ 0 \in 0..LogSize
  <2>1. a.queued \in [Offsets -> {"absent", "waiting", "processed"}]
    BY <1>4 DEF ServiceOK, ServiceType
  <2>2. DOMAIN q = Offsets /\ \A x \in Offsets : q[x] \in {"waiting", a.queued[x]}
    BY <2>1
  <2>3. q = [x \in Offsets |-> q[x]]
    BY <2>1
  <2>4. 0 \in 0..LogSize
    BY LogAssumption
  <2> HIDE DEF q
  <2> QED BY <2>1, <2>2, <2>3, <2>4
<1> HIDE DEF q
<1>6. /\ ServiceOK(service') /\ service'.boundary = service.boundary
      /\ service'.step = service.step
      /\ service.step # "idle" => service'.chain[1] = service.chain[1]
  BY <1>3, <1>4, <1>5 DEF ServiceOK, ServiceType, AwaitsInTurn
<1> QED BY <1>1, <1>3, <1>6, TypeIs DEF Quiet, FailureTypeOK, ServiceOK, AwaitsInTurn

LEMMA OperatorRetriesQuiet == ASSUME FailureInv, OperatorRetries PROVE FailureTypeOK' /\ Quiet
<1> PICK kind, offset, none : kind = "retry" /\ offset = 0 /\ none = {}
  OBVIOUS
<1>1. [kind |-> kind, offset |-> offset, boundary |-> none] \in Job
  BY DEF Job
<1>2. service' = Asked(service, kind, offset, none) /\ UNCHANGED journal
  BY DEF OperatorRetries
<1> QED BY <1>1, <1>2, AskedQuiet DEF FailureInv

LEMMA SnapshotAcknowledgedQuiet ==
    ASSUME FailureInv, SnapshotAcknowledged PROVE FailureTypeOK' /\ Quiet
<1> PICK kind, offset, boundary : kind = "retire" /\ offset = 0 /\ boundary = service.boundary
  OBVIOUS
<1>1. [kind |-> kind, offset |-> offset, boundary |-> boundary] \in Job
  <2>1. boundary \in SUBSET Offsets
    BY DEF FailureInv, FailureTypeOK, ServiceType
  <2> QED BY <2>1 DEF Job
<1>2. service' = Asked(service, kind, offset, boundary) /\ UNCHANGED journal
  BY DEF SnapshotAcknowledged
<1> QED BY <1>1, <1>2, AskedQuiet DEF FailureInv

\* A write that touches no incident and no boundary.
LEMMA JournalQuiet ==
    ASSUME FailureInv, CircuitReopened \/ JournalFills \/ JournalFrees
    PROVE  FailureTypeOK' /\ Quiet
<1>1. /\ service' = service
      /\ \/ journal' = [journal EXCEPT !.circuitOpen = FALSE, !.advances = {}]
         \/ journal' = [journal EXCEPT !.writable = FALSE]
         \/ journal' = [journal EXCEPT !.writable = TRUE]
  BY DEF CircuitReopened, JournalFills, JournalFrees
<1>2. journal' \in JournalType /\ journal'.progress = journal.progress
      /\ journal'.boundary = journal.boundary
  <2>1. journal \in JournalType
    BY DEF FailureInv, FailureTypeOK
  <2> QED BY <1>1, <2>1 DEF JournalType
<1> QED BY <1>1, <1>2 DEF FailureInv, FailureTypeOK, Quiet

-----------------------------------------------------------------------------
(* Every step keeps the invariant, and resolves incidents truthfully.      *)

Resolves ==
    \A offset \in Offsets : journal'.progress[offset] # journal.progress[offset] =>
        /\ journal'.progress[offset] = "processed" => offset \in finished
        /\ journal'.progress[offset] = "advanced" => committed > offset

\* A quiet step of the source.
LEMMA QuietSourceStep ==
    ASSUME FailureInv, FailureTypeOK' /\ Quiet, SourceNext, Queued',
           AdvanceKept(adapter, adapter'), finished \subseteq finished',
           UNCHANGED <<excused, moved, retired>>
    PROVE  FailureInv' /\ Resolves
<1>1. SourceInv(moved)'
  BY SourceKept DEF FailureInv
<1>2. Recorded'
  BY QuietKeeps DEF FailureInv, SourceInv, SourceTypeOK
<1>3. Resolves
  BY QuietResolves DEF Resolves
<1> QED BY <1>1, <1>2, <1>3 DEF FailureInv

\* A quiet step the source has no part in.
LEMMA QuietStep ==
    ASSUME FailureInv, FailureTypeOK' /\ Quiet,
           UNCHANGED <<adapter, committed, finished, excused, moved, retired>>
    PROVE  FailureInv' /\ Resolves
<1>1. SourceInv(moved)'
  BY SourceKept DEF FailureInv
<1>2. AdvanceKept(adapter, adapter')
  BY DEF AdvanceKept
<1>3. Recorded'
  BY <1>2, QuietKeeps DEF FailureInv, SourceInv, SourceTypeOK
<1>4. Queued'
  BY DEF FailureInv, Queued
<1>5. Resolves
  BY QuietResolves DEF Resolves
<1> QED BY <1>1, <1>3, <1>4, <1>5 DEF FailureInv

LEMMA RecordSteps ==
    ASSUME FailureInv,
           \/ RecordDelivered
           \/ \E outcome \in {"commit", "pause", "hold"} : RecordProcessed(outcome)
           \/ \E outcome \in {"ok", "lost", "failed", "skipped"} : CommitEnds(outcome)
           \/ CommitRetried
           \/ BrokerActs
           \/ \E read \in BOOLEAN : AdvanceReads(read)
    PROVE  FailureInv' /\ Resolves
<1>1. CASE RecordDelivered
  <2>1. Deliver /\ UNCHANGED <<moved, retired>> /\ SourceNext
    BY <1>1 DEF RecordDelivered, SourceNext
  <2>2. UNCHANGED <<excused, finished>>
    BY <2>1 DEF Deliver
  <2> QED BY <1>1, <2>1, <2>2, RecordDeliveredQuiet, DeliverQueue, QuietSourceStep DEF FailureInv
<1>2. ASSUME NEW outcome \in {"commit", "pause", "hold"}, RecordProcessed(outcome)
      PROVE  FailureInv' /\ Resolves
  <2>1. outcome \in Outcomes /\ ProcessReturns(outcome) /\ UNCHANGED <<moved, retired>>
    BY <1>2 DEF RecordProcessed, Outcomes
  <2>2. SourceNext
    BY <2>1 DEF SourceNext
  <2>3. finished \subseteq finished' /\ UNCHANGED excused
    BY <2>1 DEF ProcessReturns
  <2> QED BY <1>2, <2>1, <2>2, <2>3, RecordProcessedQuiet, ProcessReturnsQueue, QuietSourceStep
          DEF FailureInv
<1>3. ASSUME NEW outcome \in {"ok", "lost", "failed", "skipped"}, CommitEnds(outcome)
      PROVE  FailureInv' /\ Resolves
  <2>1. CommitRuns(outcome) /\ UNCHANGED <<moved, retired>>
    BY <1>3 DEF CommitEnds
  <2>2. SourceNext
    BY <2>1 DEF SourceNext
  <2>3. UNCHANGED <<excused, finished>>
    BY <2>1 DEF CommitRuns
  <2> QED BY <1>3, <2>1, <2>2, <2>3, CommitEndsQuiet, CommitRunsQueue, QuietSourceStep
          DEF FailureInv
<1>4. CASE CommitRetried
  <2>1. RetryCommits /\ UNCHANGED <<moved, retired, journal, service>> /\ SourceNext
    BY <1>4 DEF CommitRetried, SourceNext, failureVars
  <2>2. UNCHANGED <<excused, finished>>
    BY <2>1 DEF RetryCommits
  <2> QED BY <2>1, <2>2, UntouchedQuiet, RetryCommitsQueue, QuietSourceStep DEF FailureInv
<1>5. CASE BrokerActs
  <2>1. Broker /\ UNCHANGED <<moved, retired, journal, service>> /\ SourceNext
    BY <1>5 DEF BrokerActs, SourceNext, failureVars
  <2>2. UNCHANGED <<excused, finished>>
    BY <2>1 DEF Broker, Rebalancing, ConsumerLost, GroupJoin, Watchdog, Activity
  <2> QED BY <2>1, <2>2, UntouchedQuiet, BrokerQueue, QuietSourceStep DEF FailureInv
<1>6. ASSUME NEW read \in BOOLEAN, AdvanceReads(read) PROVE FailureInv' /\ Resolves
  <2>1. AdvanceReadsBack(read) /\ UNCHANGED <<moved, retired>>
    BY <1>6 DEF AdvanceReads
  <2>2. SourceNext
    BY <2>1 DEF SourceNext
  <2>3. UNCHANGED <<excused, finished>>
    BY <2>1 DEF AdvanceReadsBack
  <2> QED BY <1>6, <2>1, <2>2, <2>3, AdvanceReadsQuiet, AdvanceReadsBackQueue, QuietSourceStep
          DEF FailureInv
<1> QED BY <1>1, <1>2, <1>3, <1>4, <1>5, <1>6

LEMMA AsideSteps ==
    ASSUME FailureInv,
           Held \/ OperatorRetries \/ SnapshotAcknowledged \/ CircuitReopened \/ JournalFills
           \/ JournalFrees
    PROVE  FailureInv' /\ Resolves
<1>1. UNCHANGED <<adapter, committed, finished, excused, moved, retired>>
  BY DEF Held, OperatorRetries, SnapshotAcknowledged, CircuitReopened, JournalFills, JournalFrees,
         sourceVars
<1>2. FailureTypeOK' /\ Quiet
  BY HeldQuiet, OperatorRetriesQuiet, SnapshotAcknowledgedQuiet, JournalQuiet
<1> QED BY <1>1, <1>2, QuietStep

\* Somebody else moves the group: what it moved past is not this gateway's to account for.
LEMMA GroupMovedStep == ASSUME FailureInv, GroupMoved PROVE FailureInv' /\ Resolves
<1>1. /\ UNCHANGED <<adapter, finished, excused, journal, service, retired>>
      /\ committed' = LogSize + 1 /\ moved' = moved \cup (committed .. LogSize)
  BY DEF GroupMoved
<1>2. SourceInv(moved)'
  <2> PICK m, n : m = moved /\ n = moved'
    OBVIOUS
  <2>1. Done(m) \subseteq Done(n)
    BY <1>1 DEF Done
  <2>2. AdapterOK(adapter, Done(n))
    BY <2>1, MoreDone DEF FailureInv, SourceInv
  <2>3. committed \in Int /\ LogSize \in Int
    BY LogAssumption DEF FailureInv, SourceInv, SourceTypeOK, Positions
  <2>4. Accounted(committed' - 1, Done(n))
    BY <1>1, <2>3 DEF FailureInv, SourceInv, Accounted, Done, Offsets
  <2>5. SourceTypeOK'
    BY <1>1, LogAssumption DEF FailureInv, SourceInv, SourceTypeOK, Positions
  <2>6. Done(n) = Done(moved)'
    BY <1>1 DEF Done
  <2> QED BY <1>1, <2>2, <2>4, <2>5, <2>6 DEF SourceInv
<1>3. Queued'
  <2>1. adapter.advance.offset \in 0..LogSize
    BY SourceTyped DEF FailureInv
  <2> QED BY <1>1, <2>1, LogAssumption DEF FailureInv, Queued
<1>4. FailureTypeOK' /\ Quiet
  BY <1>1, UntouchedQuiet DEF FailureInv
<1>5. Recorded'
  BY <1>1 DEF FailureInv, Recorded, AdvanceIsPending, ExcusedIsRecorded, ProcessedIsFinished,
              Current
<1> QED BY <1>1, <1>2, <1>3, <1>4, <1>5 DEF FailureInv, Resolves

-----------------------------------------------------------------------------
(* Turns of the failure chain.                                             *)

\* A turn that starts no advance: every incident it changes stays on record, and no boundary
\* is dropped but a retired one.
LEMMA TurnKeeps ==
    ASSUME Recorded, adapter'.advance.step \notin Advancing,
           \A o \in Offsets : journal'.progress[o] # journal.progress[o] =>
              /\ journal'.progress[o] # "none"
              /\ journal'.progress[o] = "processed" => o \in finished,
           journal.boundary \cup retired \subseteq journal'.boundary \cup retired',
           service'.boundary = journal'.boundary,
           UNCHANGED <<excused, finished>>, excused \subseteq Offsets
    PROVE  Recorded'
<1>1. AdvanceIsPending'
  BY DEF AdvanceIsPending
<1>2. ExcusedIsRecorded'
  BY DEF Recorded, ExcusedIsRecorded
<1>3. ProcessedIsFinished'
  BY DEF Recorded, ProcessedIsFinished
<1> QED BY <1>1, <1>2, <1>3 DEF Recorded

\* Such a turn without the source: nothing it resolves is called processed or advanced.
LEMMA TurnStep ==
    ASSUME FailureInv, FailureTypeOK', UNCHANGED <<sourceVars, moved>>,
           service.step # "advancing" \/ adapter.advance.step \notin Advancing,
           \A o \in Offsets : journal'.progress[o] # journal.progress[o] =>
              journal'.progress[o] \in {"held", "retrying", "uncertain"},
           journal.boundary \cup retired \subseteq journal'.boundary \cup retired',
           service'.boundary = journal'.boundary
    PROVE  FailureInv' /\ Resolves
<1>1. UNCHANGED <<adapter, committed, finished, excused>>
  BY DEF sourceVars
<1>2. adapter'.advance.step \notin Advancing
  BY <1>1 DEF FailureInv, Recorded, AdvanceIsPending
<1>3. SourceInv(moved)'
  BY <1>1, SourceKept DEF FailureInv
<1>4. Recorded'
  BY <1>1, <1>2, TurnKeeps DEF FailureInv, SourceInv, SourceTypeOK
<1>5. Queued'
  BY <1>1 DEF FailureInv, Queued
<1> QED BY <1>3, <1>4, <1>5 DEF FailureInv, Resolves

LEMMA RunningFacts ==
    ASSUME FailureInv, NEW kind, NEW step, Running(kind, step)
    PROVE  /\ ServiceOK(service) /\ journal \in JournalType /\ service.chain # <<>>
           /\ service \in ServiceType /\ service.step = step
           /\ kind = "dispose" => Current \in Offsets
           /\ service.boundary = journal.boundary
<1>1. service.chain # <<>> /\ service.chain[1].kind = kind /\ service.step = step
  BY DEF Running
<1>2. ServiceOK(service) /\ journal \in JournalType
  BY TypeIs DEF FailureInv
<1> QED BY <1>1, <1>2, RunningJob DEF ServiceOK, Current, FailureInv, Recorded, ExcusedIsRecorded

LEMMA DisposeStartsStep ==
    ASSUME FailureInv, NEW resync, DisposeStarts(resync) PROVE FailureInv' /\ Resolves
<1> DEFINE q == [service.queued EXCEPT ![Current] = "absent"]
<1> DEFINE s == [service EXCEPT !.queued = q]
<1>1. /\ ServiceOK(service) /\ journal \in JournalType /\ service.chain # <<>>
      /\ service.step = "idle" /\ Current \in Offsets /\ service.boundary = journal.boundary
  BY RunningFacts DEF DisposeStarts
<1>2. s \in ServiceType /\ s.chain = service.chain /\ s.boundary = service.boundary
  <2>1. q \in [Offsets -> {"absent", "waiting", "processed"}]
    BY <1>1 DEF ServiceOK, ServiceType
  <2> HIDE DEF q
  <2> QED BY <1>1, <2>1 DEF ServiceOK, ServiceType
<1> DEFINE w == [s EXCEPT !.watched = TRUE]
<1> DEFINE v == [s EXCEPT !.step = "writing", !.watched = TRUE]
<1>3. UNCHANGED <<sourceVars, moved, retired>>
  BY DEF DisposeStarts
<1>4. \/ service' = Ended(s) /\ UNCHANGED journal
      \/ /\ \/ UNCHANGED journal
            \/ journal' = Update(journal, {Current}, "held")
         /\ service' \in {v, Ended(w)}
  BY DEF DisposeStarts
<1> HIDE DEF s
<1>5. w \in ServiceType /\ w.chain = service.chain /\ w.boundary = service.boundary
  BY <1>2 DEF ServiceType
<1>6. ServiceOK(v) /\ v.boundary = service.boundary
  <2>1. service.chain[1].kind = "dispose"
    BY DEF DisposeStarts, Running
  <2>2. /\ v \in ServiceType /\ v.step = "writing" /\ v.chain = s.chain
        /\ v.boundary = s.boundary /\ v.changed = service.changed
    BY <1>2 DEF ServiceType, s
  <2> HIDE DEF v
  <2> QED BY <1>1, <1>2, <2>1, <2>2 DEF ServiceOK, AwaitsInTurn
<1> HIDE DEF w, v
<1>7. ServiceOK(service') /\ service'.boundary = service.boundary
  BY <1>1, <1>2, <1>4, <1>5, <1>6, EndedFacts
<1>8. /\ journal' \in JournalType /\ journal'.boundary = journal.boundary
      /\ \A o \in Offsets : journal'.progress[o] # journal.progress[o] =>
            journal'.progress[o] = "held"
  BY <1>1, <1>4, UpdateFacts DEF ProgressStates, Watched
<1>9. FailureTypeOK'
  BY <1>7, <1>8, TypeIs DEF FailureTypeOK, ServiceOK, AwaitsInTurn
<1> QED BY <1>1, <1>3, <1>7, <1>8, <1>9, TurnStep

LEMMA QuarantineAnswersStep ==
    ASSUME FailureInv, NEW acknowledged, QuarantineAnswers(acknowledged)
    PROVE  FailureInv' /\ Resolves
<1> DEFINE v == [service EXCEPT !.step = "guard"]
<1>1. /\ ServiceOK(service) /\ journal \in JournalType /\ service.chain # <<>>
      /\ service \in ServiceType
      /\ service.step = "writing" /\ Current \in Offsets /\ service.boundary = journal.boundary
  BY RunningFacts DEF QuarantineAnswers
<1>2. /\ UNCHANGED <<sourceVars, moved, retired>>
      /\ journal' \in {journal, [journal EXCEPT !.circuitOpen = TRUE]}
      /\ service' \in {v, Ended(service)}
  BY DEF QuarantineAnswers
<1>3. ServiceOK(v) /\ v.boundary = service.boundary
  BY <1>1 DEF ServiceOK, ServiceType, AwaitsInTurn
<1> HIDE DEF v
<1>4. ServiceOK(service') /\ service'.boundary = service.boundary
  BY <1>1, <1>2, <1>3, EndedFacts
<1>5. /\ journal' \in JournalType /\ journal'.boundary = journal.boundary
      /\ journal'.progress = journal.progress
  BY <1>1, <1>2 DEF JournalType
<1>6. FailureTypeOK'
  BY <1>4, <1>5, TypeIs DEF FailureTypeOK, ServiceOK, AwaitsInTurn
<1> QED BY <1>1, <1>2, <1>4, <1>5, <1>6, TurnStep

LEMMA AdvanceUncertainStep == ASSUME FailureInv, AdvanceUncertain PROVE FailureInv' /\ Resolves
<1> DEFINE w == [service EXCEPT !.watched = TRUE]
<1>1. /\ ServiceOK(service) /\ journal \in JournalType /\ service.chain # <<>>
      /\ service \in ServiceType /\ Current \in Offsets /\ service.boundary = journal.boundary
  BY RunningFacts DEF AdvanceUncertain
<1>2. /\ UNCHANGED <<sourceVars, moved, retired>> /\ adapter.advance.step = "uncertain"
      /\ journal' = journal \/ journal' = Update(journal, {Current}, "uncertain")
      /\ service' = Ended(w)
  BY DEF AdvanceUncertain
<1>3. w \in ServiceType /\ w.chain = service.chain /\ w.boundary = service.boundary
  BY <1>1 DEF ServiceType
<1> HIDE DEF w
<1>4. ServiceOK(service') /\ service'.boundary = service.boundary
  BY <1>1, <1>2, <1>3, EndedFacts
<1>5. /\ journal' \in JournalType /\ journal'.boundary = journal.boundary
      /\ \A o \in Offsets : journal'.progress[o] # journal.progress[o] =>
            journal'.progress[o] = "uncertain"
  BY <1>1, <1>2, UpdateFacts DEF ProgressStates, Watched, Unresolved
<1>6. FailureTypeOK'
  BY <1>4, <1>5, TypeIs DEF FailureTypeOK, ServiceOK, AwaitsInTurn
<1> QED BY <1>1, <1>2, <1>4, <1>5, <1>6, TurnStep DEF Advancing

LEMMA RetireSteps ==
    ASSUME FailureInv, RetireStarts \/ \E agreed \in BOOLEAN : RetireAnswers(agreed)
    PROVE  FailureInv' /\ Resolves
<1>1. CASE RetireStarts
  <2> DEFINE v == [service EXCEPT !.step = "retiring"]
  <2>1. /\ ServiceOK(service) /\ journal \in JournalType /\ service.chain # <<>>
        /\ service \in ServiceType /\ service.step = "idle"
        /\ service.boundary = journal.boundary /\ service.chain[1].kind = "retire"
    BY <1>1, RunningFacts DEF RetireStarts, Running
  <2>2. UNCHANGED <<sourceVars, journal, moved, retired>> /\ service' \in {v, Ended(service)}
    BY <1>1 DEF RetireStarts
  <2>3. ServiceOK(v) /\ v.boundary = service.boundary
    BY <2>1 DEF ServiceOK, ServiceType, AwaitsInTurn
  <2> HIDE DEF v
  <2>4. ServiceOK(service') /\ service'.boundary = service.boundary
    BY <2>1, <2>2, <2>3, EndedFacts
  <2>5. FailureTypeOK'
    BY <2>1, <2>2, <2>4, TypeIs DEF FailureTypeOK, ServiceOK, AwaitsInTurn
  <2> QED BY <2>1, <2>2, <2>4, <2>5, TurnStep
<1>2. ASSUME NEW agreed \in BOOLEAN, RetireAnswers(agreed) PROVE FailureInv' /\ Resolves
  <2> DEFINE w == [service EXCEPT !.boundary = {}]
  <2>1. /\ ServiceOK(service) /\ journal \in JournalType /\ service.chain # <<>>
        /\ service \in ServiceType /\ service.step = "retiring"
        /\ service.boundary = journal.boundary
    BY <1>2, RunningFacts DEF RetireAnswers
  <2>2. /\ UNCHANGED <<sourceVars, moved>>
        /\ \/ /\ journal' = [journal EXCEPT !.boundary = {}] /\ service' = Ended(w)
              /\ retired' = retired \cup journal.boundary
           \/ service' = Ended(service) /\ UNCHANGED <<journal, retired>>
    BY <1>2 DEF RetireAnswers
  <2>3. w \in ServiceType /\ w.chain = service.chain /\ w.boundary = {}
    BY <2>1 DEF ServiceType
  <2> HIDE DEF w
  <2>4. /\ ServiceOK(service') /\ service'.boundary = journal'.boundary
        /\ journal' \in JournalType /\ journal'.progress = journal.progress
        /\ journal.boundary \cup retired \subseteq journal'.boundary \cup retired'
    <3>1. LET k == [journal EXCEPT !.boundary = {}]
          IN  k \in JournalType /\ k.boundary = {} /\ k.progress = journal.progress
      BY <2>1 DEF JournalType
    <3> QED BY <2>1, <2>2, <2>3, <3>1, EndedFacts
  <2>5. FailureTypeOK'
    BY <2>4, TypeIs DEF FailureTypeOK, ServiceOK, AwaitsInTurn
  <2> QED BY <2>1, <2>2, <2>4, <2>5, TurnStep
<1> QED BY <1>1, <1>2

LEMMA AdvanceRecordedStep == ASSUME FailureInv, AdvanceRecorded PROVE FailureInv' /\ Resolves
<1>1. PICK recorded \in BOOLEAN :
         /\ AdvanceConfirmed(recorded)
         /\ journal' = IF recorded THEN Update(journal, {Current}, "advanced") ELSE journal
         /\ service' = Ended(service) /\ UNCHANGED <<moved, retired>>
  <2>1. (journal.writable /\ ~service.changed) \in BOOLEAN
    BY DEF FailureInv, FailureTypeOK, JournalType, ServiceType
  <2> QED BY <2>1 DEF AdvanceRecorded
<1>2. adapter.advance.step = "confirm" /\ UNCHANGED <<committed, finished, excused>>
  BY <1>1 DEF AdvanceConfirmed
<1>3. service.step = "advancing" /\ Current = adapter.advance.offset
  BY <1>2 DEF FailureInv, Recorded, AdvanceIsPending, Advancing
<1>4. /\ ServiceOK(service) /\ journal \in JournalType /\ service.chain # <<>>
      /\ service \in ServiceType /\ service.boundary = journal.boundary /\ Current \in Offsets
  <2>1. ServiceOK(service) /\ journal \in JournalType
    BY TypeIs DEF FailureInv
  <2>2. service.chain # <<>> /\ service.chain[1].kind = "dispose"
    BY <1>3, <2>1 DEF ServiceOK, AwaitsInTurn
  <2> QED BY <2>1, <2>2, RunningJob DEF ServiceOK, Current, FailureInv, Recorded,
                                         ExcusedIsRecorded
<1>5. ServiceOK(service') /\ service'.boundary = service.boundary
  BY <1>1, <1>4, EndedFacts
<1>6. /\ journal' \in JournalType /\ journal'.boundary = journal.boundary
      /\ \A o \in Offsets : journal'.progress[o] # journal.progress[o] =>
            o = Current /\ journal'.progress[o] = "advanced"
  BY <1>1, <1>4, UpdateFacts DEF ProgressStates
<1>7. FailureTypeOK'
  BY <1>5, <1>6, TypeIs DEF FailureTypeOK, ServiceOK, AwaitsInTurn
<1>8. adapter'.advance.step \in {"none", "uncertain"}
  <2>1. CASE ~recorded \/ adapter.stopping
    <3> DEFINE v == [adapter.advance EXCEPT !.step = "uncertain"]
    <3>1. adapter' = [adapter EXCEPT !.advance = v] /\ v.step = "uncertain"
      BY <1>1, <2>1, SourceTyped DEF AdvanceConfirmed, Typed, FailureInv
    <3> HIDE DEF v
    <3> QED BY <3>1, SourceTyped DEF IsRec, Fields, FailureInv
  <2>2. CASE ~(~recorded \/ adapter.stopping)
    <3> DEFINE n == adapter.advance.offset + 1
    <3> DEFINE v == NoAdvance
    <3> DEFINE t == [adapter EXCEPT !.held = 0, !.paused = FALSE, !.position = n, !.advance = v]
    <3>1. adapter' = SetStatus(t, "healthy") /\ v.step = "none"
      BY <1>1, <2>2 DEF AdvanceConfirmed, NoAdvance
    <3> HIDE DEF n, v
    <3>2. IsRec(t) /\ t.advance = v
      BY SourceTyped DEF IsRec, Fields, FailureInv
    <3> HIDE DEF t
    <3> QED BY <3>1, <3>2 DEF SetStatus, IsRec, Fields
  <2> QED BY <2>1, <2>2
<1>9. Recorded'
  BY <1>1, <1>2, <1>4, <1>5, <1>6, <1>8, TurnKeeps
     DEF FailureInv, SourceInv, SourceTypeOK, Advancing
<1>10. SourceInv(moved)' /\ Queued'
  BY <1>1, SourceKept, AdvanceConfirmedQueue DEF FailureInv, SourceNext
<1>11. Resolves
  BY <1>2, <1>3, <1>6 DEF Resolves, FailureInv, Queued
<1> QED BY <1>7, <1>9, <1>10, <1>11 DEF FailureInv

LEMMA RetryRunsStep == ASSUME FailureInv, RetryRuns PROVE FailureInv' /\ Resolves
<1> DEFINE held == {o \in Offsets : journal.progress[o] = "held"}
<1>1. /\ ServiceOK(service) /\ journal \in JournalType /\ service.chain # <<>>
      /\ service \in ServiceType /\ service.step = "idle" /\ service.boundary = journal.boundary
  BY RunningFacts DEF RetryRuns
<1>2. /\ service' = Ended(service) /\ UNCHANGED <<moved, retired>>
      /\ journal' = journal \/ journal' = Update(journal, held, "retrying")
      /\ ResumeKafka \/ UNCHANGED sourceVars
  BY DEF RetryRuns
<1> HIDE DEF held
<1>3. ServiceOK(service') /\ service'.boundary = service.boundary
  BY <1>1, <1>2, EndedFacts
<1>4. /\ journal' \in JournalType /\ journal'.boundary = journal.boundary
      /\ \A o \in Offsets : journal'.progress[o] # journal.progress[o] =>
            journal'.progress[o] = "retrying"
  BY <1>1, <1>2, UpdateFacts DEF ProgressStates, Watched
<1>5. FailureTypeOK'
  BY <1>3, <1>4, TypeIs DEF FailureTypeOK, ServiceOK, AwaitsInTurn
<1>6. CASE UNCHANGED sourceVars
  BY <1>1, <1>2, <1>3, <1>4, <1>5, <1>6, TurnStep
<1>7. CASE ResumeKafka
  <2>1. UNCHANGED <<committed, finished, excused>>
    BY <1>7 DEF ResumeKafka
  <2>2. SourceInv(moved)' /\ Queued' /\ AdvanceKept(adapter, adapter')
    BY <1>2, <1>7, SourceKept, ResumeQueue DEF FailureInv, SourceNext
  <2>3. adapter'.advance.step \notin Advancing
    BY <1>1, <2>2 DEF AdvanceKept, FailureInv, Recorded, AdvanceIsPending
  <2>4. Recorded'
    BY <1>1, <1>2, <1>3, <1>4, <2>1, <2>3, TurnKeeps DEF FailureInv, SourceInv, SourceTypeOK
  <2> QED BY <1>4, <1>5, <2>2, <2>4 DEF FailureInv, Resolves
<1> QED BY <1>2, <1>6, <1>7

LEMMA PreparedFacts ==
    ASSUME journal \in JournalType, Current \in Offsets, NEW boundary \in SUBSET Offsets
    PROVE  LET k == Prepared(boundary)
           IN  /\ k \in JournalType /\ k.boundary = boundary /\ k.writable = journal.writable
               /\ k.progress[Current] = "advance-pending"
               /\ \A o \in Offsets \ {Current} : k.progress[o] = journal.progress[o]
<1> DEFINE p == [journal.progress EXCEPT ![Current] = "advance-pending"]
<1> DEFINE v == journal.advances \cup {Current}
<1>1. /\ p \in [Offsets -> ProgressStates] /\ p[Current] = "advance-pending"
      /\ \A o \in Offsets \ {Current} : p[o] = journal.progress[o]
  BY DEF JournalType, ProgressStates, Watched, Unresolved
<1>2. v \in SUBSET Offsets
  BY DEF JournalType
<1>3. Prepared(boundary) = [journal EXCEPT !.progress = p, !.boundary = boundary, !.advances = v]
  BY DEF Prepared
<1> HIDE DEF p, v
<1> QED BY <1>1, <1>2, <1>3 DEF JournalType, ProgressStates

LEMMA GuardAnswersStep ==
    ASSUME FailureInv, NEW recoverable, GuardAnswers(recoverable) PROVE FailureInv' /\ Resolves
<1> DEFINE b == journal.boundary \cup {Current}
<1> DEFINE s == [service EXCEPT !.boundary = b]
<1>1. /\ ServiceOK(service) /\ journal \in JournalType /\ service.chain # <<>>
      /\ service \in ServiceType /\ service.step = "guard" /\ Current \in Offsets
      /\ service.boundary = journal.boundary
  BY RunningFacts DEF GuardAnswers
<1>2. service.chain[1].kind = "dispose"
  BY DEF GuardAnswers, Running
<1>3. b \in SUBSET Offsets /\ journal.boundary \subseteq b /\ Current \in b
  BY <1>1 DEF JournalType
<1>4. /\ UNCHANGED <<moved, retired>>
      /\ \/ service' = Ended(service) /\ UNCHANGED <<sourceVars, journal>>
         \/ /\ Recheck /\ journal' = Update(Prepared(b), {Current}, "held")
            /\ service' = Ended([service EXCEPT !.boundary = Prepared(b).boundary])
            /\ UNCHANGED sourceVars
         \/ /\ AdvanceStarts(Current) /\ journal' = Prepared(b)
            /\ service' = [[service EXCEPT !.boundary = Prepared(b).boundary]
                              EXCEPT !.step = "advancing"]
  BY DEF GuardAnswers
<1>5. /\ Prepared(b) \in JournalType /\ Prepared(b).boundary = b
      /\ Prepared(b).writable = journal.writable
      /\ Prepared(b).progress[Current] = "advance-pending"
      /\ \A o \in Offsets \ {Current} : Prepared(b).progress[o] = journal.progress[o]
  BY <1>1, <1>3, PreparedFacts
<1> HIDE DEF b
<1>6. s \in ServiceType /\ s.chain = service.chain /\ s.boundary = b
  BY <1>1, <1>3 DEF ServiceType
<1>7. CASE service' = Ended(service) /\ UNCHANGED <<sourceVars, journal>>
  <2>1. ServiceOK(service') /\ service'.boundary = service.boundary
    BY <1>1, <1>7, EndedFacts
  <2>2. FailureTypeOK'
    BY <1>1, <1>7, <2>1, TypeIs DEF FailureTypeOK, ServiceOK, AwaitsInTurn
  <2> QED BY <1>1, <1>4, <1>7, <2>1, <2>2, TurnStep
<1>8. CASE /\ Recheck /\ journal' = Update(Prepared(b), {Current}, "held")
           /\ service' = Ended([service EXCEPT !.boundary = Prepared(b).boundary])
           /\ UNCHANGED sourceVars
  <2>1. service' = Ended(s)
    BY <1>5, <1>8
  <2>2. ServiceOK(service') /\ service'.boundary = b
    <3> HIDE DEF s
    <3> QED BY <1>1, <1>6, <2>1, EndedFacts
  <2>3. /\ journal' \in JournalType /\ journal'.boundary = b
        /\ \A o \in Offsets : journal'.progress[o] # journal.progress[o] =>
              journal'.progress[o] = "held"
    <3> PICK k, held : k = Prepared(b) /\ held = "held"
      OBVIOUS
    <3>1. journal' = Update(k, {Current}, held) /\ k \in JournalType /\ k.boundary = b
      BY <1>5, <1>8
    <3>2. held \in ProgressStates
      BY DEF ProgressStates, Watched
    <3>3. /\ journal' \in JournalType /\ journal'.boundary = b
          /\ \A o \in Offsets :
                journal'.progress[o] = held \/ journal'.progress[o] = k.progress[o]
          /\ k.writable => journal'.progress[Current] = held
      BY <1>1, <3>1, <3>2, UpdateFacts
    <3>4. k.writable /\ \A o \in Offsets \ {Current} : k.progress[o] = journal.progress[o]
      BY <1>5, <1>8 DEF Recheck
    <3> QED BY <3>3, <3>4
  <2>4. FailureTypeOK'
    BY <2>2, <2>3, TypeIs DEF FailureTypeOK, ServiceOK, AwaitsInTurn
  <2> QED BY <1>1, <1>3, <1>4, <1>8, <2>2, <2>3, <2>4, TurnStep
<1>9. CASE /\ AdvanceStarts(Current) /\ journal' = Prepared(b)
           /\ service' = [[service EXCEPT !.boundary = Prepared(b).boundary]
                             EXCEPT !.step = "advancing"]
  <2>1. service' = [s EXCEPT !.step = "advancing"]
    BY <1>5, <1>9
  <2>2. /\ ServiceOK(service') /\ service'.boundary = b /\ service'.step = "advancing"
        /\ service'.chain = service.chain
    BY <1>1, <1>2, <1>3, <2>1 DEF ServiceOK, ServiceType, AwaitsInTurn
  <2>3. FailureTypeOK'
    BY <1>5, <1>9, <2>2, TypeIs DEF FailureTypeOK, ServiceOK, AwaitsInTurn
  <2>4. SourceInv(moved)' /\ Queued'
    BY <1>1, <1>4, <1>9, SourceKept, AdvanceStartsQueue DEF FailureInv, SourceNext
  <2>5. /\ excused' = excused \cup {Current} /\ finished' = finished
        /\ adapter'.advance.offset = Current
    <3> DEFINE v == [step |-> "commit", offset |-> Current, current |-> TRUE]
    <3> DEFINE e == Enqueue(adapter, "advance", Current)
    <3>1. adapter' = [e EXCEPT !.advance = v] /\ v.offset = Current
      BY <1>9 DEF AdvanceStarts
    <3>2. IsRec(e)
      BY SourceTyped, EnqueueFrame DEF FailureInv
    <3> HIDE DEF e, v
    <3>3. adapter'.advance = v
      BY <3>1, <3>2 DEF IsRec, Fields
    <3>4. excused' = excused \cup {Current} /\ finished' = finished
      BY <1>9 DEF AdvanceStarts
    <3> QED BY <3>1, <3>3, <3>4
  <2>6. Recorded'
    <3>1. Current' = Current
      BY <2>2 DEF Current
    <3>2. AdvanceIsPending'
      BY <1>5, <1>9, <2>2, <2>5, <3>1 DEF AdvanceIsPending
    <3>3. \A o \in Offsets : journal'.progress[o] = journal.progress[o]
                             \/ journal'.progress[o] = "advance-pending"
      BY <1>5, <1>9
    <3>4. ProcessedIsFinished'
      BY <2>5, <3>3 DEF ProcessedIsFinished, FailureInv, Recorded
    <3>5. excused \subseteq Offsets /\ retired' = retired
      BY <1>4 DEF FailureInv, SourceInv, SourceTypeOK
    <3>6. ExcusedIsRecorded'
      BY <1>1, <1>3, <1>5, <1>9, <2>2, <2>5, <3>3, <3>5
         DEF ExcusedIsRecorded, FailureInv, Recorded
    <3> QED BY <3>2, <3>4, <3>6 DEF Recorded
  <2>7. Resolves
    BY <1>1, <1>5, <1>9 DEF Resolves
  <2> QED BY <2>3, <2>4, <2>6, <2>7 DEF FailureInv
<1> QED BY <1>4, <1>7, <1>8, <1>9

-----------------------------------------------------------------------------
(* Restarts, and the theorems.                                             *)

\* A new service has nothing under way.
LEMMA NewServiceOK ==
    ASSUME NEW j \in JournalType
    PROVE  ServiceOK(NewService(j)) /\ NewService(j).boundary = j.boundary
<1>1. <<>> \in Seq(Job) /\ 0 \in 0..LogSize /\ j.boundary \in SUBSET Offsets
  BY EmptySeq, LogAssumption DEF JournalType
<1>2. [o \in Offsets |-> "absent"] \in [Offsets -> {"absent", "waiting", "processed"}]
  OBVIOUS
<1> QED BY <1>1, <1>2 DEF NewService, ServiceOK, ServiceType, AwaitsInTurn

LEMMA NewAdapterQueue ==
    ASSUME NEW startHeld \in BOOLEAN, NEW fin
    PROVE  LET a == NewAdapter(startHeld)
           IN  RecordsQueued(a, fin) /\ AdvanceQueued(a) /\ a.advance.step = "none"
<1> DEFINE a == NewAdapter(startHeld)
<1>1. /\ a.commits = <<>> /\ a.uncommitted = 0 /\ a.stage = "none"
      /\ a.advance.step = "none"
  BY DEF NewAdapter, NoAdvance
<1> HIDE DEF a
<1>2. \A by : Jobs(a, by) = {}
  BY <1>1 DEF Jobs
<1> QED BY <1>1, <1>2 DEF RecordsQueued, AdvanceQueued, a

LEMMA RestartStep == ASSUME FailureInv, NEW read, Restart(read) PROVE FailureInv' /\ Resolves
<1> DEFINE settled(o) == CASE journal.progress[o] \in Unresolved -> Reconciled(o, read)
                           [] journal.progress[o] = "retrying" -> "held"
                           [] OTHER -> journal.progress[o]
<1> DEFINE p == [o \in Offsets |-> settled(o)]
<1>1. /\ adapter' = NewAdapter(FALSE) /\ service' = NewService(journal')
      /\ journal' = IF journal.writable THEN [journal EXCEPT !.progress = p] ELSE journal
      /\ UNCHANGED <<committed, finished, excused, moved, retired>>
  BY DEF Restart
<1>2. /\ p \in [Offsets -> ProgressStates]
      /\ \A o \in Offsets : p[o] # journal.progress[o] =>
            /\ p[o] \in {"uncertain", "advanced", "held"}
            /\ p[o] = "advanced" => committed > o
  <2>1. ASSUME NEW o \in Offsets
        PROVE  /\ settled(o) \in ProgressStates
               /\ settled(o) # journal.progress[o] =>
                     /\ settled(o) \in {"uncertain", "advanced", "held"}
                     /\ settled(o) = "advanced" => committed > o
    <3>1. committed \in Int /\ o \in Int /\ journal.progress[o] \in ProgressStates
      <4>1. committed \in Int /\ o \in Int
        BY DEF FailureInv, SourceInv, SourceTypeOK, Positions, Offsets
      <4>2. journal.progress[o] \in ProgressStates
        BY DEF FailureInv, FailureTypeOK, JournalType, ProgressStates
      <4> QED BY <4>1, <4>2
    <3>2. Reconciled(o, read) \in {"uncertain", "advanced", "held"}
          /\ (Reconciled(o, read) = "advanced" => committed = o + 1)
      BY DEF Reconciled
    <3>3. committed = o + 1 => committed > o
      BY <3>1
    <3>4. CASE journal.progress[o] \in Unresolved
      BY <3>2, <3>3, <3>4 DEF ProgressStates, Watched, Unresolved
    <3>5. CASE journal.progress[o] \notin Unresolved
      BY <3>1, <3>5 DEF ProgressStates, Watched
    <3> QED BY <3>4, <3>5
  <2> QED BY <2>1
<1> HIDE DEF p
<1>3. journal \in JournalType /\ service.boundary = journal.boundary
  BY DEF FailureInv, FailureTypeOK, Recorded, ExcusedIsRecorded
<1>4. /\ journal' \in JournalType /\ journal'.boundary = journal.boundary
      /\ \A o \in Offsets : journal'.progress[o] # journal.progress[o] =>
            /\ journal'.progress[o] \in {"uncertain", "advanced", "held"}
            /\ journal'.progress[o] = "advanced" => committed > o
  BY <1>1, <1>2, <1>3 DEF JournalType, ProgressStates
<1>5. ServiceOK(service') /\ service'.boundary = journal'.boundary
  BY <1>1, <1>4, NewServiceOK
<1>6. FailureTypeOK'
  BY <1>4, <1>5, TypeIs DEF FailureTypeOK, ServiceOK, AwaitsInTurn
<1>7. adapter'.advance.step = "none" /\ Queued'
  BY <1>1, NewAdapterQueue DEF Queued
<1>8. Recorded'
  BY <1>1, <1>3, <1>4, <1>5, <1>7, TurnKeeps
     DEF FailureInv, SourceInv, SourceTypeOK, Advancing
<1>9. SourceInv(moved)'
  <2> PICK done : done = Done(moved) /\ done = Done(moved)'
    BY <1>1 DEF Done
  <2>1. AdapterOK(NewAdapter(FALSE), done)
    BY NewAdapterOK
  <2>2. NewAdapter(FALSE) \in AdapterType
    BY <2>1, AdapterTypeIs DEF AdapterOK, Covered
  <2> QED BY <1>1, <2>1, <2>2 DEF FailureInv, SourceInv, SourceTypeOK
<1>10. Resolves
  BY <1>4 DEF Resolves
<1> QED BY <1>6, <1>7, <1>8, <1>9, <1>10 DEF FailureInv

LEMMA FailureInit == ASSUME Init PROVE FailureInv
<1>1. SourceInit /\ moved = {} /\ retired = {} /\ excused = {} /\ service = NewService(journal)
  BY DEF Init, SourceInit
<1>2. SourceInv(moved)
  BY <1>1, SourceInvInit
<1>3. /\ journal \in JournalType /\ journal.boundary = {}
      /\ \A o \in Offsets : journal.progress[o] = "none"
  BY DEF Init, JournalType
<1>4. ServiceOK(service) /\ service.boundary = journal.boundary
  BY <1>1, <1>3, NewServiceOK
<1>5. Queued /\ adapter.advance.step = "none"
  BY <1>1, NewAdapterQueue DEF SourceInit, Queued
<1>6. Recorded
  BY <1>1, <1>3, <1>4, <1>5 DEF Recorded, AdvanceIsPending, ExcusedIsRecorded,
                                ProcessedIsFinished, Advancing
<1> QED BY <1>2, <1>3, <1>4, <1>5, <1>6, TypeIs DEF FailureInv

LEMMA FailureInductive == ASSUME FailureInv, Next PROVE FailureInv' /\ Resolves
BY RecordSteps, AsideSteps, GroupMovedStep, DisposeStartsStep, QuarantineAnswersStep,
   AdvanceUncertainStep, RetireSteps, AdvanceRecordedStep, RetryRunsStep, GuardAnswersStep,
   RestartStep DEF Next

LEMMA FailureStutter == ASSUME FailureInv, UNCHANGED vars PROVE FailureInv'
<1>1. UNCHANGED <<adapter, committed, finished, excused, moved, retired, journal, service>>
  BY DEF vars, sourceVars, failureVars
<1> QED BY <1>1, QuietStep, UntouchedQuiet DEF FailureInv

\* What failure handling rests on, whatever fails, restarts or is retried: the source's own
\* invariant, and that the journal, the boundary every snapshot must acknowledge and the
\* advance under way (service.ts #continue, kafka.ts advancePast) never disagree.
THEOREM FailureInvariant == Spec => []FailureInv
<1>1. Init => FailureInv
  BY FailureInit
<1>2. FailureInv /\ [Next]_vars => FailureInv'
  BY FailureInductive, FailureStutter
<1> QED BY <1>1, <1>2, PTL DEF Spec

LEMMA SkippedIsExcused ==
    ASSUME FailureInv, NEW offset \in Offsets, offset < committed,
           offset \notin finished \cup moved
    PROVE  offset \in excused
<1>1. committed \in Int /\ offset \in Int
  BY DEF FailureInv, SourceInv, SourceTypeOK, Positions, Offsets
<1>2. offset <= committed - 1
  BY <1>1
<1> QED BY <1>2 DEF FailureInv, SourceInv, Accounted, Done

\* No record is skipped silently (service.ts): one the group's offset is past, that was
\* neither processed nor moved past by somebody else, has an incident on disk that says so.
THEOREM NeverSkipsSilently == Spec => []NoSilentSkip
<1>1. FailureInv => NoSilentSkip
  <2> SUFFICES ASSUME FailureInv, NEW offset \in Offsets, offset < committed,
                      offset \notin finished \cup moved
               PROVE  journal.progress[offset] \in Watched \cup {"advanced"}
    BY DEF NoSilentSkip
  <2>1. offset \in excused
    BY SkippedIsExcused
  <2>2. journal.progress[offset] # "none" /\ journal.progress[offset] # "processed"
    BY <2>1 DEF FailureInv, Recorded, ExcusedIsRecorded, ProcessedIsFinished
  <2>3. journal.progress[offset] \in {"none", "advanced", "processed"} \cup Watched
    BY DEF FailureInv, FailureTypeOK, JournalType
  <2> QED BY <2>2, <2>3
<1> QED BY <1>1, FailureInvariant, PTL

\* The recovery boundary in force covers every skipped record until the application retired
\* it (service.ts prepareAdvance, acknowledged), across restarts and later advances.
THEOREM BoundaryCoversSkips == Spec => []SkippedIsCovered
<1>1. FailureInv => SkippedIsCovered
  BY SkippedIsExcused DEF FailureInv, Recorded, ExcusedIsRecorded, SkippedIsCovered
<1> QED BY <1>1, FailureInvariant, PTL

\* An incident is resolved as what became of its record: by the commit that processed it
\* (committed()), the confirmed advance, or the committed offset a restart reads (#reconcile).
THEOREM IncidentsEndTruthfully == Spec => ResolvedIsTrue
<1>1. FailureInv /\ [Next]_vars =>
         [\A offset \in Offsets :
             journal'.progress[offset] # journal.progress[offset] =>
                 /\ journal'.progress[offset] = "processed" => offset \in finished
                 /\ journal'.progress[offset] = "advanced" => committed > offset]_vars
  BY FailureInductive DEF Resolves
<1> QED BY <1>1, FailureInvariant, PTL DEF Spec, ResolvedIsTrue

=============================================================================
