--------------------------- MODULE RecordPipeline ---------------------------
(***************************************************************************)
(* One source's records through the gateway (runtime/gateway.ts #process,   *)
(* #prepare, #admit, redriveRecord) driven by the fixture adapter           *)
(* (sources/fixture.ts): a record is mapped for every channel, retried      *)
(* when its mapping fails transiently, checked against its own outputs and  *)
(* the subscribers' state, and only then admitted, all of it or nothing.    *)
(* An operator's redrive of a stored record takes the same path under the   *)
(* same lock.                                                              *)
(*                                                                         *)
(* map is application code: every call may end in any way.  Each channel    *)
(* has one routing key with at most one capturing subscriber.               *)
(***************************************************************************)
EXTENDS Integers, Sequences, FiniteSets, SequencesExt

CONSTANTS
    Records,         \* how many records the fixture has
    ChannelCount,    \* channels of the source, in order
    MaxRevision,     \* bound: revisions map returns
    Data,            \* data map returns
    MaxOutputs,      \* bound: outputs of one map call
    TransientRetries,\* SourceRuntimeImpl.transientRetries
    ClassifyAll,     \* failureHandling is configured
    AdvanceCount,    \* records one advance asks for
    MaxRequests,     \* bound: advance, resume and advancePast requests
    MaxRedrives,     \* bound: operator redrives
    MaxChanges       \* bound: snapshots that change a subscriber's state

ASSUME PipelineAssumption ==
    /\ Records \in Nat /\ ChannelCount \in Nat \ {0}
    /\ MaxRevision \in Nat /\ MaxOutputs \in Nat /\ TransientRetries \in 0..2
    /\ ClassifyAll \in BOOLEAN /\ AdvanceCount \in Nat \ {0}
    /\ Data \cap {"routing-invalid", "payload-schema"} = {}
    /\ MaxRequests \in Nat /\ MaxRedrives \in Nat /\ MaxChanges \in Nat

VARIABLES
    fixture,   \* the FixtureSourceAdapter
    status,    \* SourceRuntimeImpl.status
    gate,      \* the gateway's #state: running, stopping or stopped
    lock,      \* SourceRuntimeImpl.#lock: the tasks that run or wait, in order
    task,      \* the evaluation under way (#prepare's locals)
    tails,     \* each channel's subscriber: its newest state, or none
    passed,    \* history: records committed, and records excused by an advancePast
    used       \* bounds: requests, redrives and subscriber changes so far

pipeVars == <<fixture, status, gate, lock, task, tails, passed, used>>

Channels == 1..ChannelCount
Frames == [revision : 1..MaxRevision, data : Data]
\* An item map returned that #buildOutput refuses, with its class.
Refusals == {"routing-invalid", "payload-schema"}
Refused == [revision : {0}, data : Refusals]
\* How one map call fails as a whole; routing-invalid is no array, or too long a one.
MapFailures == {"mapper-timeout", "mapper-error", "mapper-transient", "routing-invalid"}
NoTail == [revision |-> 0, data |-> "none"]
NoTask == [step |-> "none", attempt |-> 0, outputs |-> <<>>, eligible |-> "none",
           results |-> <<>>, class |-> "none"]

-----------------------------------------------------------------------------
(* #prepare.                                                               *)

\* The frames among a channel's items, in their order, routed.
Routed(channel, items) ==
    LET built == {i \in DOMAIN items : items[i] \in Frames}
        Nth(k) == CHOOSE i \in built : Cardinality(built \cap (1..i)) = k
    IN [k \in 1..Cardinality(built) |-> [channel |-> channel, frame |-> items[Nth(k)]]]

\* Mistake: a quarantine-eligible item ends the evaluation like any other.
FirstProblem(items) ==
    LET bad == {i \in DOMAIN items : items[i] \notin Frames}
    IN IF bad = {} THEN "none" ELSE items[Min(bad)].data

\* The problem that ends the evaluation at once: with failureHandling a
\* quarantine-eligible one does not, so that any other problem outranks it.
ChannelProblem(items) ==
    LET bad == {i \in DOMAIN items : /\ items[i] \notin Frames
                                     /\ ~(ClassifyAll /\ items[i].data = "payload-schema")}
    IN IF bad = {} THEN "none" ELSE items[Min(bad)].data

\* What "seen" holds of the outputs of key c before the i-th: the newest revision, as it
\* was first seen.
SeenBefore(outputs, i) ==
    LET earlier == {j \in 1..(i - 1) : outputs[j].channel = outputs[i].channel}
        Newest(j) == \A k \in earlier :
            /\ outputs[k].frame.revision <= outputs[j].frame.revision
            /\ outputs[k].frame.revision = outputs[j].frame.revision => j <= k
    IN IF earlier = {} THEN NoTail ELSE outputs[CHOOSE j \in earlier : Newest(j)].frame

\* Equal revisions with different data, among the outputs or with a subscriber's state.
Conflicting(outputs) ==
    \E i \in DOMAIN outputs :
        LET frame == outputs[i].frame
            Differs(state) == state.revision = frame.revision /\ state.data # frame.data
        IN Differs(SeenBefore(outputs, i)) \/ Differs(tails[outputs[i].channel])

\* The class an evaluation of these outputs ends with; "none" is ok.
Classified(outputs, eligible) ==
    IF Conflicting(outputs) THEN "revision-conflict" ELSE eligible

\* #admit: a subscriber takes the newer revisions (ServerSubscription.admit); a full
\* budget fails its attempt, which drops its state.
Admitted(outputs, overflowed) ==
    [c \in Channels |->
        LET newer == {i \in DOMAIN outputs : outputs[i].channel = c
                                             /\ outputs[i].frame.revision > tails[c].revision}
            Newest(i) == \A j \in newer : outputs[j].frame.revision <= outputs[i].frame.revision
        IN IF tails[c] = NoTail \/ newer = {} THEN tails[c]
           ELSE IF c \in overflowed THEN NoTail
           ELSE outputs[CHOOSE i \in newer : Newest(i)].frame]

\* Mistake: an attempt keeps the outputs of the one before it.
NextAttemptDirty(t) == [t EXCEPT !.step = "map", !.attempt = @ + 1, !.results = <<>>]

\* A further attempt starts over with no outputs.
NextAttempt(t) ==
    [t EXCEPT !.step = "map", !.attempt = @ + 1,
              !.outputs = <<>>, !.eligible = "none", !.results = <<>>]

-----------------------------------------------------------------------------
(* The fixture adapter: its operations queue on #chain.  "left" counts the  *)
(* records the running job may still process; 0 is no job running.          *)

\* #step returned FALSE, or the job had nothing to do.
JobEnds(f) == [f EXCEPT !.chain = Tail(@), !.left = 0]

\* #step returned TRUE: advance goes on until count, unless the end or stop() came.
StepCommits(f) ==
    LET next == [f EXCEPT !.index = @ + 1, !.left = @ - 1]
    IN IF next.left > 0 /\ next.index <= Records /\ ~next.stopped THEN next ELSE JobEnds(next)

\* advancePast is refused unless the source is paused at exactly that record.
StillHeld(job) == ~fixture.stopped /\ fixture.paused /\ job.arg = fixture.index

Request(op, arg) ==
    /\ used.requests < MaxRequests
    /\ used' = [used EXCEPT !.requests = @ + 1]
    /\ fixture' = [fixture EXCEPT !.chain = Append(@, [op |-> op, arg |-> arg])]
    /\ UNCHANGED <<status, gate, lock, task, tails, passed>>

\* advanceFixture; resumeSource, which the gateway refuses unless it runs and the source
\* is paused; a policy or an operator, about the record that is held.
Advance == gate = "running" /\ Request("advance", AdvanceCount)
Resume == gate = "running" /\ status = "paused" /\ Request("resume", 0)
AdvancePast == fixture.paused /\ Request("advancePast", fixture.index)

\* A job of #chain may start: the one before it has settled.
JobWaits(op) == fixture.chain # <<>> /\ fixture.left = 0 /\ Head(fixture.chain).op = op

\* A record goes to sink.process, which queues on the source's lock.
Processes(f) == fixture' = f /\ lock' = Append(lock, "record")

JobAdvances ==
    /\ JobWaits("advance")
    /\ IF fixture.stopped \/ fixture.paused \/ fixture.index > Records
       THEN fixture' = JobEnds(fixture) /\ UNCHANGED lock
       ELSE Processes([fixture EXCEPT !.left = Head(fixture.chain).arg])
    /\ UNCHANGED <<status, gate, task, tails, passed, used>>

JobResumes ==
    /\ JobWaits("resume")
    /\ IF fixture.stopped \/ ~fixture.paused
       THEN fixture' = JobEnds(fixture) /\ UNCHANGED <<status, lock>>
       ELSE /\ status' = "healthy"
            /\ IF fixture.index > Records
               THEN fixture' = JobEnds([fixture EXCEPT !.paused = FALSE]) /\ UNCHANGED lock
               ELSE Processes([fixture EXCEPT !.paused = FALSE, !.left = 1])
    /\ UNCHANGED <<gate, task, tails, passed, used>>

\* The caller records the advance before the fixture resumes; it may fail to.
JobAdvancesPast ==
    /\ JobWaits("advancePast")
    /\ IF StillHeld(Head(fixture.chain))
       THEN \E confirmed \in BOOLEAN :
               /\ fixture' = JobEnds([fixture EXCEPT !.index = @ + 1, !.paused = ~confirmed])
               /\ status' = IF confirmed THEN "healthy" ELSE status
               /\ passed' = [passed EXCEPT !.excused = @ \cup {Head(fixture.chain).arg}]
       ELSE fixture' = JobEnds(fixture) /\ UNCHANGED <<status, passed>>
    /\ UNCHANGED <<gate, lock, task, tails, used>>

-----------------------------------------------------------------------------
(* The gateway.                                                            *)

Halting == gate # "running"
Live == Head(lock) = "record"

\* A source that stops being ready marks its subscribers stale and drops their state.
Stale == [c \in Channels |-> NoTail]

\* The task ends and leaves the lock; a record's answer goes to the adapter's #step.
Ends ==
    /\ lock' = Tail(lock) /\ task' = NoTask

Pauses ==
    /\ Ends
    /\ fixture' = IF Live THEN JobEnds([fixture EXCEPT !.paused = TRUE]) ELSE fixture
    /\ status' = IF Live THEN "paused" ELSE status
    /\ tails' = IF Live THEN Stale ELSE tails
    /\ UNCHANGED passed

Abandons ==
    /\ Ends
    /\ fixture' = IF Live THEN JobEnds(fixture) ELSE fixture
    /\ UNCHANGED <<status, tails, passed>>

\* The next record of the same advance goes to process() at once.
Commits ==
    /\ task' = NoTask
    /\ fixture' = StepCommits(fixture)
    /\ lock' = IF fixture'.left > 0 THEN Append(Tail(lock), "record") ELSE Tail(lock)
    /\ passed' = [passed EXCEPT !.admitted = @ \cup {fixture.index}]
    /\ UNCHANGED status

\* exclusive() runs the next task.  The gateway may be halting; a record may be held by an
\* open incident of the failure journal; either may not decode, which is one more problem.
TaskStarts ==
    /\ lock # <<>> /\ task.step = "none"
    /\ \/ Halting /\ Abandons
       \/ ~Halting /\ Pauses
       \/ /\ ~Halting
          /\ task' = [NoTask EXCEPT !.step = "map"]
          /\ UNCHANGED <<fixture, status, lock, tails, passed>>
    /\ UNCHANGED <<gate, used>>

\* The evaluation is over: its class goes back to #process or redriveRecord.
Evaluated(t, class) == [t EXCEPT !.step = "evaluated", !.class = class]

\* The map call of the next channel fails: a transient failure of a live record is retried
\* after a delay, up to the source's budget; a redrive never retries.
MapFails ==
    /\ task.step = "map" /\ ~Halting
    /\ \E failure \in MapFailures :
          task' = IF failure = "mapper-transient" /\ Live /\ task.attempt < TransientRetries
                  THEN [task EXCEPT !.step = "delay"]
                  ELSE Evaluated(task, failure)
    /\ UNCHANGED <<fixture, status, gate, lock, tails, passed, used>>

\* The map call returns its items; after the last channel the conflicts are checked.
MapReturns ==
    /\ task.step = "map" /\ ~Halting
    /\ \E items \in BoundedSeq(Frames \cup Refused, MaxOutputs) :
          LET channel == Len(task.results) + 1
              refused == \E i \in DOMAIN items : items[i].data = "payload-schema"
              next == [task EXCEPT !.results = Append(@, items),
                                   !.outputs = @ \o Routed(channel, items),
                                   !.eligible = IF refused THEN "payload-schema" ELSE @]
          IN task' = IF ChannelProblem(items) # "none"
                     THEN Evaluated(task, ChannelProblem(items))
                     ELSE IF channel < ChannelCount THEN next
                     ELSE Evaluated(next, Classified(next.outputs, next.eligible))
    /\ UNCHANGED <<fixture, status, gate, lock, tails, passed, used>>

DelayEnds ==
    /\ task.step = "delay" /\ ~Halting
    /\ task' = NextAttempt(task)
    /\ UNCHANGED <<fixture, status, gate, lock, tails, passed, used>>

\* Mistake: a map call is not told of #stopController.
MappingAbortedInDelay ==
    /\ task.step = "delay" /\ Halting
    /\ Abandons
    /\ UNCHANGED <<gate, used>>

\* stop() aborts the map call or the delay, or is seen when it ends.
MappingAborted ==
    /\ task.step \in {"map", "delay"} /\ Halting
    /\ Abandons
    /\ UNCHANGED <<gate, used>>

\* #process pauses or admits and commits; redriveRecord reports the problem, or that the
\* outputs are not those the operator approved, or admits them.
Finish ==
    /\ task.step = "evaluated"
    /\ IF task.class # "none" THEN Pauses
       ELSE \/ \E overflowed \in SUBSET Channels : tails' = Admitted(task.outputs, overflowed)
               /\ IF Live THEN Commits ELSE Ends /\ UNCHANGED <<fixture, status, passed>>
            \/ ~Live /\ Ends /\ UNCHANGED <<fixture, status, tails, passed>>
    /\ UNCHANGED <<gate, used>>

Redrive ==
    /\ gate = "running" /\ used.redrives < MaxRedrives
    /\ lock' = Append(lock, "redrive")
    /\ used' = [used EXCEPT !.redrives = @ + 1]
    /\ UNCHANGED <<fixture, status, gate, task, tails, passed>>

\* A subscriber's snapshot gives it a state of its own; leaving drops it.
SubscriberChanges ==
    /\ used.changes < MaxChanges
    /\ \E c \in Channels, state \in Frames \cup {NoTail} :
          /\ state = NoTail \/ status = "healthy"
          /\ tails' = [tails EXCEPT ![c] = state]
    /\ used' = [used EXCEPT !.changes = @ + 1]
    /\ UNCHANGED <<fixture, status, gate, lock, task, passed>>

\* stop() halts the gateway and aborts #stopController; then the adapter's stop() waits
\* for its chain.
AdapterStops ==
    /\ gate = "running"
    /\ gate' = "stopping"
    /\ fixture' = [fixture EXCEPT !.stopped = TRUE]
    /\ UNCHANGED <<status, lock, task, tails, passed, used>>

AdapterStopped ==
    /\ gate = "stopping" /\ fixture.chain = <<>>
    /\ gate' = "stopped"
    /\ UNCHANGED <<fixture, status, lock, task, tails, passed, used>>

PipeInit ==
    /\ fixture = [index |-> 1, paused |-> FALSE, stopped |-> FALSE, chain |-> <<>>, left |-> 0]
    /\ status = "healthy" /\ gate = "running"
    /\ lock = <<>> /\ task = NoTask
    /\ tails = Stale
    /\ passed = [admitted |-> {}, excused |-> {}]
    /\ used = [requests |-> 0, redrives |-> 0, changes |-> 0]

\* The steps the event loop takes by itself.
PipeMoves ==
    \/ JobAdvances \/ JobResumes \/ JobAdvancesPast
    \/ TaskStarts \/ MapFails \/ MapReturns \/ DelayEnds \/ MappingAborted \/ Finish
    \/ AdapterStopped

PipeNext ==
    \/ PipeMoves
    \/ Advance \/ Resume \/ AdvancePast \/ Redrive \/ SubscriberChanges \/ AdapterStops

PipeSpec == PipeInit /\ [][PipeNext]_pipeVars

=============================================================================
