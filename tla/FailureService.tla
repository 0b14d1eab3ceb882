---------------------------- MODULE FailureService ----------------------------
(***************************************************************************)
(* Failure handling of one Kafka source: the failure service                *)
(* (packages/gateway/src/failures/service.ts) and its journal (store.ts)    *)
(* around the adapter of KafkaSource.  A record that cannot be processed     *)
(* pauses the source; a job of the source's failure chain records an         *)
(* incident, quarantines the record, asks the recovery guard, persists the   *)
(* recovery boundary with the intent to advance, and only then advances the  *)
(* source past the record.  A restart reconciles what was left unresolved.   *)
(*                                                                         *)
(* A boundary is named by the incidents it covers.  A job that holds an      *)
(* incident's revision compares it before it writes: a flag every other      *)
(* change of that incident raises.  Evidence conflicts, other clusters,      *)
(* fixture records and failing journal reads are left out.                   *)
(***************************************************************************)
EXTENDS KafkaSource, FiniteSets

CONSTANTS
    AdvanceLimit,     \* automaticAdvanceLimit.incidents
    MaxJobs           \* bound: jobs in the failure chain when another is asked for

ASSUME FailureAssumption ==
    /\ AdvanceLimit \in Nat \ {0}
    /\ MaxJobs \in Nat \ {0}

VARIABLES
    journal,     \* the incident store, on disk
    service,     \* the failure service's memory
    moved,       \* history: offsets someone else moved the group past
    retired      \* history: incidents whose boundary the application retired

failureVars == <<journal, service, moved, retired>>
vars == <<sourceVars, failureVars>>

Unresolved == {"advance-pending", "uncertain"}
Watched == {"held", "retrying"} \cup Unresolved       \* WATCHED_PROGRESS; exactly the open incidents

JournalType ==
    [progress : [Offsets -> {"none", "advanced", "processed"} \cup Watched],
     boundary : SUBSET Offsets,       \* incidents of the boundary in force; none if empty
     advances : SUBSET Offsets,       \* the circuit's automatic advances
     circuitOpen : BOOLEAN,
     writable : BOOLEAN]

Job == [kind : {"dispose"}, offset : Offsets, boundary : {{}}]
       \cup [kind : {"retry", "reopen"}, offset : {0}, boundary : {{}}]
       \cup [kind : {"retire"}, offset : {0}, boundary : SUBSET Offsets]

ServiceType ==
    [chain : Seq(Job),                \* #chains: the first job runs
     step : {"idle", "writing", "guard", "advancing", "retiring"}, \* the await it is at
     changed : BOOLEAN,               \* its incident has a newer revision
     toHold : 0..LogSize,             \* eachBatch's setImmediate(() => sink.held(...))
     queued : [Offsets -> {"absent", "waiting", "processed"}],     \* #queued
     watched : BOOLEAN,               \* #watched
     boundary : SUBSET Offsets,       \* SourceRuntime.boundary
     mustHold : BOOLEAN]              \* positionProblem of the record being processed

Opened(j) == {offset \in Offsets : j.progress[offset] \in Watched}

-----------------------------------------------------------------------------
(* The journal and the memory after a step.                                *)

\* #update: a write the journal refuses changes nothing.
Update(j, offsets, progress) ==
    IF j.writable
    THEN [j EXCEPT !.progress = [o \in Offsets |-> IF o \in offsets THEN progress ELSE @[o]]]
    ELSE j

\* Incidents in `offsets` got a newer revision.
Touched(s, offsets) ==
    [s EXCEPT !.changed = @ \/ (s.step # "idle" /\ s.chain[1].offset \in offsets)]

\* The running job ended.
Ended(s) == [s EXCEPT !.chain = Tail(@), !.step = "idle", !.changed = FALSE]

Asked(s, kind, offset, boundary) ==
    [s EXCEPT !.chain = Append(@, [kind |-> kind, offset |-> offset, boundary |-> boundary])]

\* Mistake: a commit resolves every open incident at its position.
CommittedAny(offset) ==
    /\ journal' = Update(journal, {offset} \cap Opened(journal), "processed")
    /\ service' = Touched(service, {offset} \cap Opened(journal))

\* committed(): the incident of a processed record is resolved.
Committed(offset) ==
    LET settles == /\ service.watched /\ journal.progress[offset] \in {"held", "retrying"}
        resolved == IF settles THEN {offset} ELSE {}
        s == [service EXCEPT
                 !.queued[offset] = IF @ = "absent" THEN @ ELSE "processed",
                 !.watched = @ /\ Opened(journal) \ resolved # {}]
    IN  /\ journal' = Update(journal, resolved, "processed")
        /\ service' = IF journal.writable THEN Touched(s, resolved) ELSE s

\* The incidents for which positionProblem holds the record at offset.
Problems(offset) ==
    IF \E o \in Offsets : journal.progress[o] = "uncertain"
    THEN {o \in Offsets : journal.progress[o] = "uncertain"}
    ELSE {o \in Opened(journal) : o < offset}

-----------------------------------------------------------------------------
(* Records.                                                                *)

\* The broker answers in a later turn of the event loop: after the pending setImmediate,
\* and after a job whose turn has come has started.
BrokerAnswers == service.toHold = 0 /\ (service.chain = <<>> \/ service.step # "idle")

\* The next record reaches #process, which asks positionProblem first.  The diagnosis of
\* an incident it passes is written once.
RecordDelivered ==
    /\ BrokerAnswers
    /\ Deliver
    /\ LET found == IF service.watched THEN Problems(adapter.position) ELSE {}
           after == {o \in found : journal.progress[o] # "uncertain"}
       IN  IF after = {}
           THEN /\ service' = [service EXCEPT !.mustHold = found # {}]
                /\ UNCHANGED journal
           ELSE \E o \in after :
                   /\ journal' = IF journal.progress[o] = "retrying"
                                 THEN Update(journal, {o}, "held") ELSE journal
                   /\ \E noted \in {journal.writable, journal.writable /\ journal.progress[o] = "retrying"} :
                         service' = [(IF noted THEN Touched(service, {o}) ELSE service)
                                         EXCEPT !.mustHold = TRUE]
    /\ UNCHANGED <<moved, retired>>

\* #process answers.  A pause also puts other incidents under retry back to held
\* (sourceHeld).
RecordProcessed(outcome) ==
    /\ outcome = "hold" <=> service.mustHold
    /\ ProcessReturns(outcome)
    /\ LET others == {o \in Offsets : service.watched /\ outcome \in {"pause", "hold"}
                                      /\ journal.progress[o] = "retrying" /\ o # adapter.record}
           s == IF journal.writable THEN Touched(service, others) ELSE service
       IN  /\ journal' = Update(journal, others, "held")
           /\ service' = [s EXCEPT !.mustHold = FALSE,
                                   !.toHold = IF outcome = "pause" THEN adapter.record ELSE @]
    /\ UNCHANGED <<moved, retired>>

\* A commit ran; one that the adapter believes calls onCommit.
CommitEnds(outcome) ==
    /\ BrokerAnswers
    /\ CommitRuns(outcome)
    /\ LET job == Head(adapter.commits)
       IN  IF outcome = "ok" /\ job.by \in {"record", "retry"} THEN Committed(job.offset)
           ELSE UNCHANGED <<journal, service>>
    /\ UNCHANGED <<moved, retired>>

CommitRetried == RetryCommits /\ UNCHANGED failureVars

-----------------------------------------------------------------------------
(* Disposition: the failure chain runs one job at a time.                  *)

Running(kind, step) ==
    /\ service.chain # <<>>
    /\ service.chain[1].kind = kind
    /\ service.step = step

Current == service.chain[1].offset

\* held(): the disposition is queued.
Held ==
    /\ service.toHold # 0
    /\ service' = [Asked(service, "dispose", service.toHold, {})
                      EXCEPT !.queued[service.toHold] = "waiting", !.toHold = 0]
    /\ UNCHANGED <<sourceVars, journal, moved, retired>>

\* #dispose up to the quarantine write: observe opens or reopens the incident.  A class
\* whose policy is not quarantine-resync stays held.
DisposeStarts(resync) ==
    /\ Running("dispose", "idle")
    /\ LET s == [service EXCEPT !.queued[Current] = "absent"]
       IN  IF service.queued[Current] = "processed" \/ ~journal.writable
           THEN service' = Ended(s) /\ UNCHANGED journal
           ELSE /\ journal' = IF journal.progress[Current] \in Unresolved THEN journal
                              ELSE Update(journal, {Current}, "held")
                /\ service' = IF resync THEN [s EXCEPT !.step = "writing", !.watched = TRUE]
                              ELSE Ended([s EXCEPT !.watched = TRUE])
    /\ UNCHANGED <<sourceVars, moved, retired>>

\* The quarantine write settles, then #continue up to the guard.
QuarantineAnswers(acknowledged) ==
    /\ Running("dispose", "writing") /\ BrokerAnswers
    /\ LET recent == journal.advances \ {Current}
           tripped == journal.circuitOpen \/ Cardinality(recent) >= AdvanceLimit
       IN  IF ~acknowledged \/ service.changed \/ ~journal.writable
           THEN service' = Ended(service) /\ UNCHANGED journal
           ELSE IF tripped
           THEN /\ journal' = [journal EXCEPT !.circuitOpen = TRUE]
                /\ service' = Ended(service)
           ELSE service' = [service EXCEPT !.step = "guard"] /\ UNCHANGED journal
    /\ UNCHANGED <<sourceVars, moved, retired>>

\* The incident is still the one the guard was asked about.
Recheck == ~service.changed /\ journal.progress[Current] = "held" /\ journal.writable

\* prepareAdvance: the cumulative boundary and the intent to advance, in one transaction.
Prepared(boundary) ==
    [journal EXCEPT !.progress[Current] = "advance-pending",
                    !.boundary = boundary,
                    !.advances = @ \cup {Current}]

\* Mistake: the recovery boundary covers the new incident only.
GuardForgets(recoverable) ==
    /\ Running("dispose", "guard")
    /\ IF recoverable /\ Recheck /\ IsHeld(Current)
       THEN /\ AdvanceStarts(Current)
            /\ journal' = Prepared({Current})
            /\ service' = [service EXCEPT !.step = "advancing", !.boundary = journal'.boundary]
       ELSE /\ service' = Ended(service)
            /\ UNCHANGED <<sourceVars, journal>>
    /\ UNCHANGED <<moved, retired>>

\* The guard settles; the boundary is persisted and put in force before the adapter is
\* asked to advance.  An adapter no longer held there commits nothing.
GuardAnswers(recoverable) ==
    /\ Running("dispose", "guard")
    /\ IF ~recoverable \/ ~Recheck
       THEN /\ service' = Ended(service)
            /\ UNCHANGED <<sourceVars, journal>>
       ELSE LET prepared == Prepared(journal.boundary \cup {Current})
                s == [service EXCEPT !.boundary = prepared.boundary]
            IN  IF IsHeld(Current)
                THEN /\ AdvanceStarts(Current)
                     /\ journal' = prepared
                     /\ service' = [s EXCEPT !.step = "advancing"]
                ELSE /\ journal' = Update(prepared, {Current}, "held")
                     /\ service' = Ended(s)
                     /\ UNCHANGED sourceVars
    /\ UNCHANGED <<moved, retired>>

\* The read-back; the adapter calls onCommit as soon as it agrees.
AdvanceReads(read) ==
    /\ BrokerAnswers
    /\ AdvanceReadsBack(read)
    /\ IF read /\ Confirmed THEN Committed(adapter.advance.offset)
       ELSE UNCHANGED <<journal, service>>
    /\ UNCHANGED <<moved, retired>>

\* confirmed() journals the advance, and the adapter resumes only if it did.
AdvanceRecorded ==
    LET recorded == journal.writable /\ ~service.changed
    IN  /\ AdvanceConfirmed(recorded)
        /\ journal' = IF recorded THEN Update(journal, {Current}, "advanced") ELSE journal
        /\ service' = Ended(service)
        /\ UNCHANGED <<moved, retired>>

\* advancePast answered "uncertain".
AdvanceUncertain ==
    /\ Running("dispose", "advancing")
    /\ adapter.advance.step = "uncertain"
    /\ journal' = IF service.changed THEN journal ELSE Update(journal, {Current}, "uncertain")
    /\ service' = Ended([service EXCEPT !.watched = TRUE])
    /\ UNCHANGED <<sourceVars, moved, retired>>

-----------------------------------------------------------------------------
(* Operator and application.                                               *)

\* resumeSource of a paused source: the retry takes its turn in the chain.
OperatorRetries ==
    /\ adapter.reported = "paused" /\ Len(service.chain) < MaxJobs
    /\ service' = Asked(service, "retry", 0, {})
    /\ UNCHANGED <<sourceVars, journal, moved, retired>>

\* #markRetrying's refusals.
RetryAllowed ==
    /\ \A o \in Offsets : journal.progress[o] \notin Unresolved
    /\ ~(journal.circuitOpen /\ Opened(journal) # {})

\* beforeRetry's job, then adapter.resume, which does nothing unless paused.
RetryRuns ==
    /\ Running("retry", "idle")
    /\ service' = Ended(service)
    /\ IF RetryAllowed
       THEN /\ journal' = Update(journal, {o \in Offsets : journal.progress[o] = "held"}, "retrying")
            /\ IF adapter.paused THEN ResumeKafka ELSE UNCHANGED sourceVars
       ELSE UNCHANGED <<sourceVars, journal>>
    /\ UNCHANGED <<moved, retired>>

\* A snapshot acknowledged the boundary: acknowledged().
SnapshotAcknowledged ==
    /\ service.boundary # {} /\ Len(service.chain) < MaxJobs
    /\ \A i \in DOMAIN service.chain : service.chain[i].kind # "retire"
    /\ service' = Asked(service, "retire", 0, service.boundary)
    /\ UNCHANGED <<sourceVars, journal, moved, retired>>

RetireStarts ==
    /\ Running("retire", "idle")
    /\ service' = IF service.chain[1].boundary = journal.boundary
                  THEN [service EXCEPT !.step = "retiring"] ELSE Ended(service)
    /\ UNCHANGED <<sourceVars, journal, moved, retired>>

\* checkRetirement
Retirable == journal.writable /\ journal.boundary \cap Opened(journal) = {}

\* The application's retire() settles.
RetireAnswers(agreed) ==
    /\ Running("retire", "retiring")
    /\ IF agreed /\ Retirable
       THEN /\ journal' = [journal EXCEPT !.boundary = {}]
            /\ service' = Ended([service EXCEPT !.boundary = {}])
            /\ retired' = retired \cup journal.boundary
       ELSE /\ service' = Ended(service)
            /\ UNCHANGED <<journal, retired>>
    /\ UNCHANGED <<sourceVars, moved>>

\* The operator's reopen-circuit.
CircuitReopened ==
    /\ journal.circuitOpen /\ journal.writable /\ service.chain = <<>>
    /\ journal' = [journal EXCEPT !.circuitOpen = FALSE, !.advances = {}]
    /\ UNCHANGED <<sourceVars, service, moved, retired>>

-----------------------------------------------------------------------------
(* Failures.                                                               *)

\* Mistake: an advance that cannot be read back counts as done.
ReconciledHopefully(offset, read) ==
    IF read /\ committed <= offset THEN "held" ELSE "advanced"

\* #reconcile: what an unresolved advance came to, by the group's committed offset.
Reconciled(offset, read) ==
    CASE ~read -> "uncertain"
      [] read /\ committed = offset + 1 -> "advanced"
      [] read /\ committed <= offset -> "held"
      [] OTHER -> "uncertain"

NewService(j) ==
    [chain |-> <<>>, step |-> "idle", changed |-> FALSE, toHold |-> 0,
     queued |-> [o \in Offsets |-> "absent"], watched |-> Opened(j) # {},
     boundary |-> j.boundary, mustHold |-> FALSE]

\* The gateway stops dead and starts again: start() of the failure service.
Restart(read) ==
    /\ Disrupted
    /\ LET settled(o) == CASE journal.progress[o] \in Unresolved -> Reconciled(o, read)
                           [] journal.progress[o] = "retrying" -> "held"
                           [] OTHER -> journal.progress[o]
           j == IF journal.writable THEN [journal EXCEPT !.progress = [o \in Offsets |-> settled(o)]]
                ELSE journal
       IN  /\ journal' = j
           /\ service' = NewService(j)
    /\ adapter' = NewAdapter(FALSE)
    /\ UNCHANGED <<committed, finished, excused, moved, retired>>

\* The journal's disk fills up, or has room again.
JournalFills ==
    /\ journal.writable /\ faults.failures < MaxFailures
    /\ journal' = [journal EXCEPT !.writable = FALSE]
    /\ faults' = [faults EXCEPT !.failures = @ + 1]
    /\ UNCHANGED <<adapter, committed, finished, excused, service, moved, retired>>

JournalFrees ==
    /\ ~journal.writable
    /\ journal' = [journal EXCEPT !.writable = TRUE]
    /\ UNCHANGED <<sourceVars, service, moved, retired>>

\* Retention, an offset reset or another consumer moves the group, whose member starts
\* over at the new position.
GroupMoved ==
    /\ committed < LogSize + 1 /\ ~adapter.assigned /\ Disrupted
    /\ committed' = LogSize + 1
    /\ moved' = moved \cup (committed..LogSize)
    /\ UNCHANGED <<adapter, finished, excused, journal, service, retired>>

BrokerActs == Broker /\ UNCHANGED failureVars

-----------------------------------------------------------------------------

Init ==
    /\ SourceInit
    /\ adapter.paused = FALSE
    /\ journal = [progress |-> [o \in Offsets |-> "none"], boundary |-> {}, advances |-> {},
                  circuitOpen |-> FALSE, writable |-> TRUE]
    /\ service = NewService(journal)
    /\ moved = {}
    /\ retired = {}

Next ==
    \/ RecordDelivered
    \/ \E outcome \in {"commit", "pause", "hold"} : RecordProcessed(outcome)
    \/ \E outcome \in {"ok", "lost", "failed", "skipped"} : CommitEnds(outcome)
    \/ CommitRetried
    \/ Held
    \/ \E resync \in BOOLEAN : DisposeStarts(resync)
    \/ \E acknowledged \in BOOLEAN : QuarantineAnswers(acknowledged)
    \/ \E recoverable \in BOOLEAN : GuardAnswers(recoverable)
    \/ \E read \in BOOLEAN : AdvanceReads(read)
    \/ AdvanceRecorded
    \/ AdvanceUncertain
    \/ OperatorRetries
    \/ RetryRuns
    \/ SnapshotAcknowledged
    \/ RetireStarts
    \/ \E agreed \in BOOLEAN : RetireAnswers(agreed)
    \/ CircuitReopened
    \/ \E read \in BOOLEAN : Restart(read)
    \/ JournalFills
    \/ JournalFrees
    \/ GroupMoved
    \/ BrokerActs

Spec == Init /\ [][Next]_vars

=============================================================================
