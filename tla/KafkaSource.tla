----------------------------- MODULE KafkaSource -----------------------------
(***************************************************************************)
(* The Kafka adapter (packages/gateway/src/sources/kafka.ts) over one       *)
(* partition: records are processed in order, the next offset is committed  *)
(* only when the gateway is done with a record, commits are serialized and  *)
(* failed ones retried, a record that cannot be processed pauses the source *)
(* where it is, and advancePast moves exactly past it.                      *)
(*                                                                         *)
(* #assignmentEpoch is compared, never read: a captured epoch is a flag     *)
(* that every epoch change lowers.  #held is compared by identity the same  *)
(* way.  Starting from "latest" (#readStartPositions) is left out: the      *)
(* group has a committed offset.                                           *)
(***************************************************************************)
EXTENDS Integers, Sequences

CONSTANTS
    LogSize,          \* bound: records in the partition
    MaxFailures,      \* bound: commits that fail or whose answer is lost
    MaxDisruptions    \* bound: rebalances, crashes and silences of the broker

ASSUME LogAssumption ==
    /\ LogSize \in Nat \ {0}
    /\ MaxFailures \in Nat
    /\ MaxDisruptions \in Nat

VARIABLES
    adapter,     \* the KafkaSourceAdapter, and the status it reported to the gateway
    committed,   \* the group's committed offset at the broker: the next one to read
    finished,    \* history: offsets whose processing ended in "commit"
    excused,     \* history: offsets the caller asked to advance past
    faults       \* failures and disruptions so far

sourceVars == <<adapter, committed, finished, excused, faults>>

Offsets == 1..LogSize
Positions == 1..(LogSize + 1)
Outcomes == {"commit", "pause", "hold", "abandon"}
\* Of the advance under way; one that could not be confirmed stays "uncertain".
AdvanceSteps == {"none", "commit", "readback", "confirm", "uncertain"}
NoAdvance == [step |-> "none", offset |-> 0, current |-> FALSE]

CommitJob == [by : {"record", "retry", "advance"}, offset : Offsets, current : BOOLEAN]

AdapterType ==
    [paused : BOOLEAN,
     status : {"starting", "healthy", "degraded", "paused"},
     reported : {"starting", "healthy", "degraded", "paused"}, \* SourceRuntime.status
     held : 0..LogSize,               \* #held
     assigned : BOOLEAN,              \* #assignment is not null
     rebalancing : BOOLEAN,
     running : BOOLEAN,               \* the KafkaJS consumer is running
     stopping : BOOLEAN,
     position : Positions,            \* what the consumer delivers next
     record : 0..LogSize,             \* eachBatch's current message
     stage : {"none", "processing", "committing"},
     current : BOOLEAN,               \* the epoch eachBatch captured still holds
     uncommitted : 0..LogSize,        \* #uncommitted
     retryable : BOOLEAN,             \* the epoch of that entry still holds
     retrying : BOOLEAN,
     settled : 0..LogSize,            \* history: last offset answered since #uncommitted
     commits : Seq(CommitJob),        \* #commits
     advance : [step : AdvanceSteps, offset : 0..LogSize, current : BOOLEAN]]

-----------------------------------------------------------------------------
(* Methods.                                                                *)

\* #setStatus
SetStatus(a, status) ==
    IF a.stopping \/ a.paused \/ a.status = status THEN a
    ELSE [a EXCEPT !.status = status, !.reported = status]

\* #assignmentEpoch++
NextEpoch(a) ==
    [a EXCEPT !.current = FALSE,
              !.retryable = FALSE,
              !.commits = [i \in DOMAIN @ |-> [@[i] EXCEPT !.current = FALSE]],
              !.advance.current = FALSE]

\* #activity
Active(a) == IF a.status = "degraded" /\ ~a.rebalancing THEN SetStatus(a, "healthy") ELSE a

Enqueue(a, by, offset) ==
    [a EXCEPT !.commits = Append(@, [by |-> by, offset |-> offset, current |-> TRUE])]

\* The closure `current` of #retryCommits, evaluated when the commit's turn comes.
StillWanted(a, job) ==
    /\ a.uncommitted = job.offset /\ a.retryable /\ job.current
    /\ ~a.stopping /\ ~a.rebalancing

\* #pauseAt, after #process reported the source paused.  A pause (not a hold) is
\* also remembered as #held.
PauseAt(a, offset, keep) ==
    [a EXCEPT !.paused = TRUE, !.status = "paused", !.reported = "paused",
              !.position = offset,
              !.held = IF keep THEN offset ELSE @]

EndBatch(a) == [a EXCEPT !.record = 0, !.stage = "none", !.current = FALSE]

-----------------------------------------------------------------------------
(* eachBatch.                                                              *)

\* The next message of the batch.
Deliver ==
    /\ ~adapter.paused /\ ~adapter.stopping
    /\ adapter.running /\ adapter.assigned
    /\ adapter.stage = "none" /\ adapter.position \in Offsets
    /\ adapter' = [adapter EXCEPT !.record = adapter.position, !.stage = "processing",
                                  !.current = TRUE]
    /\ UNCHANGED <<committed, finished, excused, faults>>

\* Mistake: the record that paused the source is resolved first.
PausesResolved(a) == PauseAt(a, a.record + 1, TRUE)

\* The gateway could not process the record.
PausesKafka(a) == PauseAt(a, a.record, TRUE)

\* process() answered.  A batch that lost its assignment meanwhile may or may not
\* still move the consumer's position.
ProcessReturns(outcome) ==
    /\ adapter.stage = "processing"
    /\ outcome = "abandon" => adapter.stopping
    /\ finished' = IF outcome = "commit" THEN finished \cup {adapter.record} ELSE finished
    /\ CASE outcome = "abandon" -> adapter' = EndBatch(adapter)
         [] outcome = "hold" -> adapter' = EndBatch(PauseAt(adapter, adapter.record, FALSE))
         [] outcome = "pause" -> adapter' = EndBatch(PausesKafka(adapter))
         [] outcome = "commit" ->
               \E next \in {adapter.record + 1}
                           \cup (IF adapter.current THEN {} ELSE {adapter.position}) :
                  LET a == [adapter EXCEPT !.position = next]
                  IN  adapter' = IF a.stopping THEN EndBatch(a)
                                 ELSE [Enqueue(a, "record", a.record)
                                          EXCEPT !.stage = "committing", !.current = TRUE]
    /\ UNCHANGED <<committed, excused, faults>>

-----------------------------------------------------------------------------
(* Commits, one at a time.                                                 *)

\* Mistake: a retry that fails leaves the flag that keeps retries from piling up.
AnsweredKeepsRetrying(a, job, ok) ==
    LET t == IF ok /\ a.uncommitted <= job.offset THEN [a EXCEPT !.uncommitted = 0] ELSE a
    IN  CASE job.by = "record" ->
                EndBatch(IF ok THEN t
                         ELSE [t EXCEPT !.uncommitted = job.offset, !.retryable = t.current,
                                  !.settled = 0])
          [] job.by = "retry" -> [t EXCEPT !.retrying = ~ok]
          [] job.by = "advance" ->
                [t EXCEPT !.advance.step = IF ok THEN "readback" ELSE "uncertain"]

\* What each caller of #commit does with the answer.
Answered(a, job, ok) ==
    LET t == IF ok /\ a.uncommitted <= job.offset THEN [a EXCEPT !.uncommitted = 0] ELSE a
    IN  CASE job.by = "record" ->
                EndBatch(IF ok THEN t
                         ELSE [t EXCEPT !.uncommitted = job.offset, !.retryable = t.current,
                                  !.settled = 0])
          [] job.by = "retry" -> [t EXCEPT !.retrying = FALSE]
          [] job.by = "advance" ->
                [t EXCEPT !.advance.step = IF ok THEN "readback" ELSE "uncertain"]

\* A commit leaves the queue.
Taken(a, job, outcome) ==
    [a EXCEPT !.commits = Tail(@),
              !.settled = IF outcome = "ok" /\ job.offset > @ THEN job.offset ELSE @]

\* Mistake: a retried commit does not look whether it is still wanted.
CommitRunsBlindly(outcome) ==
    /\ adapter.commits # <<>>
    /\ LET job == Head(adapter.commits)
           a == Taken(adapter, job, outcome)
       IN  /\ outcome \in {"ok", "lost", "failed"}
           /\ outcome \in {"ok", "lost"} => a.running
           /\ outcome # "ok" => faults.failures < MaxFailures \/ ~a.running
           /\ committed' = IF outcome \in {"ok", "lost"} THEN job.offset + 1 ELSE committed
           /\ adapter' = Answered(IF outcome = "ok" THEN Active(a) ELSE a, job, outcome = "ok")
           /\ faults' = IF outcome # "ok" /\ a.running
                        THEN [faults EXCEPT !.failures = @ + 1] ELSE faults
    /\ UNCHANGED <<finished, excused>>

\* The oldest commit: skipped if nobody wants it any more, else sent to the broker,
\* which applies it, applies it and loses the answer, or refuses it.  A consumer
\* that is not running commits nothing, and #commitOffsets notices.
CommitRuns(outcome) ==
    /\ adapter.commits # <<>>
    /\ LET job == Head(adapter.commits)
           a == Taken(adapter, job, outcome)
       IN  IF job.by = "retry" /\ ~StillWanted(a, job)
           THEN /\ outcome = "skipped"
                /\ adapter' = [a EXCEPT !.retrying = FALSE]
                /\ UNCHANGED <<committed, faults>>
           ELSE /\ outcome \in {"ok", "lost", "failed"}
                /\ outcome \in {"ok", "lost"} => a.running
                /\ outcome # "ok" => faults.failures < MaxFailures \/ ~a.running
                /\ committed' = IF outcome \in {"ok", "lost"} THEN job.offset + 1 ELSE committed
                /\ adapter' = Answered(IF outcome = "ok" THEN Active(a) ELSE a, job, outcome = "ok")
                /\ faults' = IF outcome # "ok" /\ a.running
                             THEN [faults EXCEPT !.failures = @ + 1] ELSE faults
    /\ UNCHANGED <<finished, excused>>

\* #retryCommits, from the watchdog's interval.
RetryCommits ==
    /\ adapter.uncommitted # 0
    /\ ~adapter.stopping /\ ~adapter.rebalancing /\ ~adapter.retrying
    /\ adapter' = IF adapter.retryable
                  THEN [Enqueue(adapter, "retry", adapter.uncommitted) EXCEPT !.retrying = TRUE]
                  ELSE [adapter EXCEPT !.uncommitted = 0]
    /\ UNCHANGED <<committed, finished, excused, faults>>

-----------------------------------------------------------------------------
(* Pause, resume, advance.                                                 *)

\* resume, which resumeSource calls only for a source it reports paused, and beforeRetry
\* refuses from the start of an advance until it is confirmed or the gateway restarts.
ResumeKafka ==
    /\ adapter.paused /\ adapter.reported = "paused" /\ ~adapter.stopping
    /\ adapter.advance.step = "none"
    /\ adapter' = SetStatus([adapter EXCEPT !.paused = FALSE, !.held = 0], "healthy")
    /\ UNCHANGED <<committed, finished, excused, faults>>

\* The checks of advancePast; otherwise it answers "not-held" and does nothing.
IsHeld(offset) ==
    /\ ~adapter.stopping /\ adapter.paused /\ adapter.assigned
    /\ adapter.held = offset /\ offset # 0

\* advancePast up to its commit.
AdvanceStarts(offset) ==
    /\ IsHeld(offset) /\ adapter.advance.step = "none"
    /\ adapter' = [Enqueue(adapter, "advance", offset)
                      EXCEPT !.advance = [step |-> "commit", offset |-> offset, current |-> TRUE]]
    /\ excused' = excused \cup {offset}
    /\ UNCHANGED <<committed, finished, faults>>

\* The committed offset read back is the one asked for, and nothing moved meanwhile.
Confirmed ==
    /\ committed = adapter.advance.offset + 1
    /\ adapter.advance.current /\ ~adapter.stopping

\* The read-back: KafkaJS may not answer it, and any doubt ends the advance uncertain.
AdvanceReadsBack(read) ==
    /\ adapter.advance.step = "readback"
    /\ adapter' = [adapter EXCEPT !.advance.step =
                       IF read /\ Confirmed THEN "confirm" ELSE "uncertain"]
    /\ UNCHANGED <<committed, finished, excused, faults>>

\* The caller's confirmed() answered: the advance is on record, or it is not and the
\* source stays paused.
AdvanceConfirmed(recorded) ==
    /\ adapter.advance.step = "confirm"
    /\ adapter' = IF ~recorded \/ adapter.stopping
                  THEN [adapter EXCEPT !.advance.step = "uncertain"]
                  ELSE SetStatus([adapter EXCEPT !.held = 0, !.paused = FALSE,
                                                 !.position = adapter.advance.offset + 1,
                                                 !.advance = NoAdvance], "healthy")
    /\ UNCHANGED <<committed, finished, excused, faults>>

-----------------------------------------------------------------------------
(* Consumer events (#instrument), the watchdog and stop.                   *)

Disrupted == faults.disruptions < MaxDisruptions
             /\ faults' = [faults EXCEPT !.disruptions = @ + 1]

\* REBALANCING
Rebalancing ==
    /\ adapter.running /\ adapter.assigned /\ Disrupted
    /\ adapter' = SetStatus([NextEpoch(adapter) EXCEPT !.rebalancing = TRUE, !.assigned = FALSE],
                            "degraded")
    /\ UNCHANGED <<committed, finished, excused>>

\* CRASH or STOP of the consumer: #lostAssignment.
ConsumerLost ==
    /\ adapter.running /\ Disrupted
    /\ adapter' = SetStatus([NextEpoch(adapter) EXCEPT !.running = FALSE, !.assigned = FALSE],
                            "degraded")
    /\ UNCHANGED <<committed, finished, excused>>

\* GROUP_JOIN: the consumer starts again from the group's committed offset.
GroupJoin ==
    /\ ~adapter.assigned /\ ~adapter.stopping
    /\ adapter' = SetStatus([NextEpoch(adapter) EXCEPT !.running = TRUE, !.assigned = TRUE,
                                                       !.rebalancing = FALSE,
                                                       !.position = committed], "healthy")
    /\ UNCHANGED <<committed, finished, excused, faults>>

\* #checkWatchdog after WATCHDOG_MS without broker activity.
Watchdog ==
    /\ adapter.status = "healthy" /\ Disrupted
    /\ adapter' = SetStatus(adapter, "degraded")
    /\ UNCHANGED <<committed, finished, excused>>

\* FETCH and HEARTBEAT
Activity ==
    /\ adapter.running /\ adapter.status = "degraded"
    /\ adapter' = Active(adapter)
    /\ UNCHANGED <<committed, finished, excused, faults>>

StopKafka ==
    /\ ~adapter.stopping
    /\ adapter' = [adapter EXCEPT !.stopping = TRUE]
    /\ UNCHANGED <<committed, finished, excused, faults>>

-----------------------------------------------------------------------------
(* A new adapter.  startHeld is set when an open incident says nothing of this *)
(* source may be processed yet.                                            *)

NewAdapter(startHeld) ==
    [paused |-> startHeld,
     status |-> IF startHeld THEN "paused" ELSE "starting",
     reported |-> IF startHeld THEN "paused" ELSE "starting",
     held |-> 0, assigned |-> FALSE, rebalancing |-> FALSE, running |-> FALSE,
     stopping |-> FALSE, position |-> 1, record |-> 0, stage |-> "none", current |-> FALSE,
     uncommitted |-> 0, retryable |-> FALSE, retrying |-> FALSE, settled |-> 0,
     commits |-> <<>>, advance |-> NoAdvance]

SourceInit ==
    /\ \E startHeld \in BOOLEAN : adapter = NewAdapter(startHeld)
    /\ committed = 1
    /\ finished = {}
    /\ excused = {}
    /\ faults = [failures |-> 0, disruptions |-> 0]

\* What the consumer and the broker do, whoever calls the adapter.
Broker == Rebalancing \/ ConsumerLost \/ GroupJoin \/ Watchdog \/ Activity

SourceNext ==
    \/ Deliver
    \/ \E outcome \in Outcomes : ProcessReturns(outcome)
    \/ \E outcome \in {"ok", "lost", "failed", "skipped"} : CommitRuns(outcome)
    \/ RetryCommits
    \/ ResumeKafka
    \/ \E offset \in Offsets : AdvanceStarts(offset)
    \/ \E read \in BOOLEAN : AdvanceReadsBack(read)
    \/ \E recorded \in BOOLEAN : AdvanceConfirmed(recorded)
    \/ Broker
    \/ StopKafka

SourceSpec == SourceInit /\ [][SourceNext]_sourceVars

=============================================================================
