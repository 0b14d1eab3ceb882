--------------------------- MODULE OperatorService ---------------------------
(***************************************************************************)
(* The operator service of one gateway (operator/service.ts) on one source: *)
(* evaluations and the redrive plans they issue, and the five mutations,    *)
(* each journaled before it acts and after it acted (#mutate), with what    *)
(* the failure service and the source do around them (FailureService and    *)
(* KafkaSource have their insides).                                        *)
(*                                                                         *)
(* A mutation is named by its operation ID, and a disposition by its        *)
(* incident: both are jobs of the source's failure chain.  An evaluation is *)
(* numbered, and so is the plan it issues.  Timers may fire at any time.    *)
(***************************************************************************)
EXTENDS Integers, FiniteSets, Sequences, SequencesExt

CONSTANTS
    Redrives,         \* operation IDs that redrives carry: the caller may send one again
    Others,           \* operation IDs of the other mutations, made by the service
    Incidents,        \* the source's incidents
    Eligible,         \* those of a class that may be skipped; the others are integrity faults
    MaxConcurrent,    \* MAX_CONCURRENT_EVALUATIONS
    MaxPlans,         \* MAX_PLANS
    MaxOperations,    \* the journal's limit of operations
    MaxEvaluations,   \* bound: evaluations started
    MaxErrors         \* bound: refused writes, unexpected errors, restarts

ASSUME OperatorAssumption ==
    /\ IsFiniteSet(Redrives) /\ IsFiniteSet(Others) /\ IsFiniteSet(Incidents)
    /\ Redrives \cap Others = {} /\ (Redrives \cup Others) \cap Incidents = {}
    /\ Eligible \subseteq Incidents
    /\ {MaxConcurrent, MaxPlans, MaxOperations} \subseteq Nat \ {0}
    /\ {MaxEvaluations, MaxErrors} \subseteq Nat

VARIABLES
    incidents,    \* journal: the incidents
    circuit,      \* journal: the automatic-continuation circuit
    boundary,     \* journal: the newest recovery boundary
    operations,   \* journal: the operations, and the order in which they finished
    calls,        \* memory: the #mutate calls
    plans,        \* memory: the plans that may be approved
    evaluations,  \* memory: the evaluations so far
    host,         \* memory: the gateway and its source
    chain,        \* memory: the source's failure chain
    history,      \* what operations did and answered; redrives admitted by a plan
    former,       \* the same of the operations whose ID has begun another since
    turnedAway,   \* the ID over which the last step refused a call, if it did
    errors

recordVars == <<incidents, circuit, boundary>>
operatorVars == <<incidents, circuit, boundary, operations, calls, plans, evaluations, host, chain,
                  history, former, turnedAway, errors>>

Ids == Redrives \cup Others
Evaluations == 1..MaxEvaluations
Unsettled == {"advance-pending", "uncertain"}
Open == {"held", "retrying"} \cup Unsettled
Endings == {"completed", "refused", "failed", "unknown"}

IncidentType ==
    [progress : Open \cup {"processed", "advanced"}, revision : Nat,
     recovery : {"none", "held", "denied", "guard-pending"}]
\* `number` is a plan's, or a boundary's.
RequestType ==
    [kind : {"none", "redrive", "retry", "reassess", "reopen", "retire"},
     on : Incidents, number : Nat, revision : Nat]
OperationType ==
    [state : {"none", "pending", "completed", "unknown"}, request : RequestType,
     result : Endings \cup {"none"}]
CallType ==
    [pc : {"none", "queued", "resuming", "settling", "evidence", "redriving", "acted"},
     request : RequestType, outcome : Endings \cup {"none"}, waits : SUBSET (Ids \cup Incidents)]
EvaluationType ==
    [phase : {"none", "running", "ended", "issued"}, on : Incidents, revision : Nat,
     advanced : BOOLEAN]

NoRequest == [kind |-> "none", on |-> CHOOSE f \in Incidents : TRUE, number |-> 0, revision |-> 0]
NoOperation == [state |-> "none", request |-> NoRequest, result |-> "none"]
NoCall == [pc |-> "none", request |-> NoRequest, outcome |-> "none", waits |-> {}]

-----------------------------------------------------------------------------
(* What the journal and the chain answer.                                  *)

Write(ok) ==
    /\ ok \/ errors < MaxErrors
    /\ errors' = IF ok THEN errors ELSE errors + 1
    /\ turnedAway' = {}
Sound == UNCHANGED errors /\ turnedAway' = {}

Started == {e \in Evaluations : evaluations[e].phase # "none"}
Evaluating == {e \in Evaluations : evaluations[e].phase = "running"}

\* An update of incident f: the journal counts its revisions.
Updated(f, progress, recovery) ==
    [incidents EXCEPT ![f] = [progress |-> progress, recovery |-> recovery, revision |-> @.revision + 1]]

\* #note: an "operator" event on the incident.
Noted(f, ok) == IF ok THEN [incidents EXCEPT ![f].revision = @ + 1] ELSE incidents

Turn(job) == chain # <<>> /\ Head(chain) = job
AnyUnresolved == \E f \in Incidents : incidents[f].progress \in Unsettled

\* #redriveBlocker of a record that was `advanced` when it was read.
Redrivable(f, advanced) ==
    /\ advanced /\ f \in Eligible
    /\ \A g \in Incidents : incidents[g].progress \in Open
           => g \in Eligible /\ incidents[g].progress # "uncertain"
    /\ host.state = "running"

-----------------------------------------------------------------------------
(* Evaluations and plans.                                                  *)

\* evaluate, up to its first await.  At most MaxConcurrent run.
Evaluate(f) ==
    /\ Cardinality(Evaluating) < MaxConcurrent
    /\ \E e \in Evaluations \ Started :
          /\ Started = 1..(e - 1)
          /\ evaluations' = [evaluations EXCEPT ![e] =
                 [phase |-> "running", on |-> f, revision |-> incidents[f].revision,
                  advanced |-> incidents[f].progress = "advanced"]]
    /\ Sound /\ UNCHANGED <<recordVars, operations, calls, plans, host, chain, history, former>>

\* #issuePlan: the oldest plans leave when there are too many.
Issue(e) == {p \in plans \cup {e} : Cardinality({q \in plans \cup {e} : q > p}) < MaxPlans}

\* The bytes are read back and host.evaluateRecord answers: they are gone, the record still
\* fails, or it maps.  The plan is for the record as it was read before.
EvaluationEnds(e) ==
    /\ evaluations[e].phase = "running"
    /\ \E maps \in BOOLEAN :
          LET issues == maps /\ Redrivable(evaluations[e].on, evaluations[e].advanced)
          IN /\ evaluations' = [evaluations EXCEPT ![e].phase = IF issues THEN "issued" ELSE "ended"]
             /\ plans' = IF issues THEN Issue(e) ELSE plans
    /\ Sound /\ UNCHANGED <<recordVars, operations, calls, host, chain, history, former>>

PlanExpires(e) ==
    /\ e \in plans /\ plans' = plans \ {e}
    /\ Sound
    /\ UNCHANGED <<recordVars, operations, calls, evaluations, host, chain, history, former>>

-----------------------------------------------------------------------------
(* #mutate: intent, act, result.                                           *)

\* beginOperation: the oldest finished operations make room; pending ones never do.
HasRoom ==
    Cardinality({i \in Ids : operations.of[i].state = "pending"}) < MaxOperations
Stored == {i \in Ids : operations.of[i].state # "none"}
Begun(id, request) ==
    LET full == Cardinality(Stored) >= MaxOperations
        out == IF full THEN {Head(operations.finished)} ELSE {}
    IN [of |-> [i \in Ids |-> IF i = id THEN [NoOperation EXCEPT !.state = "pending", !.request = request]
                              ELSE IF i \in out THEN NoOperation ELSE operations.of[i]],
        finished |-> IF full THEN Tail(operations.finished) ELSE operations.finished]

MutationBegins(id, request, pc, outcome) ==
    /\ calls[id].pc = "none" /\ operations.of[id].state = "none" /\ HasRoom
    /\ operations' = Begun(id, request)
    /\ calls' = [calls EXCEPT ![id] = [NoCall EXCEPT !.pc = pc, !.request = request,
                                                     !.outcome = outcome]]
    /\ former' = former \cup {[acted |-> history.acted[id], told |-> history.told[id]]}
    /\ history' = [history EXCEPT !.acted[id] = 0, !.told[id] = {}]

\* The plan is good for this incident, at this revision.
PlanClaimable(request) ==
    /\ request.number \in plans
    /\ evaluations[request.number].on = request.on
    /\ incidents[request.on].revision = request.revision
    /\ request.revision = evaluations[request.number].revision
    /\ Redrivable(request.on, incidents[request.on].progress = "advanced")

RedriveRequests ==
    {[kind |-> "redrive", on |-> f, number |-> e, revision |-> evaluations[e].revision] :
        f \in Incidents, e \in {e \in Evaluations : evaluations[e].phase = "issued"}}

\* Mistake: the plan is claimed once the evidence is there.
RedriveClaimsLate(id) ==
    /\ \E request \in RedriveRequests :
          IF PlanClaimable(request) THEN MutationBegins(id, request, "evidence", "none")
          ELSE MutationBegins(id, request, "acted", "refused")
    /\ Sound /\ UNCHANGED <<recordVars, evaluations, plans, host, chain>>

\* redrive, up to its first await: the plan is claimed, with every other of the incident.
RedriveClaims(id) ==
    /\ \E request \in RedriveRequests :
          IF PlanClaimable(request)
          THEN /\ MutationBegins(id, request, "evidence", "none")
               /\ plans' = {p \in plans : evaluations[p].on # request.on}
          ELSE MutationBegins(id, request, "acted", "refused") /\ UNCHANGED plans
    /\ Sound /\ UNCHANGED <<recordVars, evaluations, host, chain>>

\* Its evidence arrives; the incident may have changed meanwhile.
RedriveReads(id) ==
    /\ calls[id].pc = "evidence"
    /\ \E found \in BOOLEAN :
          LET request == calls[id].request
              good == found /\ incidents[request.on].revision = request.revision
          IN calls' = [calls EXCEPT ![id] = [@ EXCEPT
                 !.pc = IF good THEN "redriving" ELSE "acted",
                 !.outcome = IF good THEN "none" ELSE "refused"]]
    /\ Sound
    /\ UNCHANGED <<recordVars, operations, plans, evaluations, host, chain, history, former>>

\* host.redriveRecord answers: abandoned, failed, mapped to other output, or admitted.
RedriveEnds(id) ==
    /\ calls[id].pc = "redriving"
    /\ \E outcome \in {"failed", "refused", "completed"}, noted \in BOOLEAN :
          /\ host.state # "running" => outcome = "failed"
          /\ calls' = [calls EXCEPT ![id] = [@ EXCEPT !.pc = "acted", !.outcome = outcome]]
          /\ history' = IF outcome # "completed" THEN history
                        ELSE [history EXCEPT !.acted[id] = @ + 1,
                                             !.spent[calls[id].request.number] = @ + 1]
          /\ incidents' = Noted(calls[id].request.on, noted)
          /\ Write(noted)
    /\ UNCHANGED <<circuit, boundary, operations, plans, evaluations, host, chain, former>>

-----------------------------------------------------------------------------
(* Mutations of the source, in its failure chain.                          *)

\* What an operator who looks now may ask for.
SourceRequests ==
    {[kind |-> k, on |-> f, number |-> 0, revision |-> incidents[f].revision] :
        k \in {"retry", "reassess"}, f \in {f \in Incidents : incidents[f].progress = "held"}}
      \cup {[NoRequest EXCEPT !.kind = "reopen", !.revision = circuit.revision]}
      \cup {[NoRequest EXCEPT !.kind = "retire", !.number = boundary.number,
                              !.revision = boundary.revision]}

Queue(id) ==
    /\ history.told[id] = {}
    /\ \E request \in SourceRequests : MutationBegins(id, request, "queued", "none")
    /\ chain' = Append(chain, id)
    /\ Sound /\ UNCHANGED <<recordVars, plans, evaluations, host>>

\* #heldIncident, the checks of retryCurrent and of reassess, and #retryBlocker.
Retriable(request) ==
    LET f == incidents[request.on]
    IN /\ f.revision = request.revision /\ f.progress = "held" /\ f.recovery # "guard-pending"
       /\ host.paused /\ ~circuit.open
       /\ request.kind = "reassess" => request.on \in Eligible /\ f.recovery \in {"held", "denied"}
       /\ host.state = "running" /\ ~AnyUnresolved

Acts(id, outcome) ==
    calls' = [calls EXCEPT ![id] = [@ EXCEPT !.pc = "acted", !.outcome = outcome]]

Queued(id, kinds) == Turn(id) /\ calls[id].pc = "queued" /\ calls[id].request.kind \in kinds

\* Mistake: the checks are made when the request arrives.
RetryChecksLess(id) ==
    /\ Queued(id, {"retry", "reassess"})
    /\ \E noted \in BOOLEAN :
          /\ incidents' = Noted(calls[id].request.on, noted) /\ Write(noted)
          /\ calls' = [calls EXCEPT ![id].pc = "resuming"]
    /\ UNCHANGED <<circuit, boundary, operations, plans, evaluations, host, chain, history, former>>

\* #redeliver, in the chain: the checks and the operator event.
RetryChecks(id) ==
    /\ Queued(id, {"retry", "reassess"})
    /\ IF Retriable(calls[id].request)
       THEN \E noted \in BOOLEAN :
               /\ incidents' = Noted(calls[id].request.on, noted) /\ Write(noted)
               /\ calls' = [calls EXCEPT ![id].pc = "resuming"]
               /\ UNCHANGED chain
       ELSE Acts(id, "refused") /\ chain' = Tail(chain) /\ UNCHANGED incidents /\ Sound
    /\ UNCHANGED <<circuit, boundary, operations, plans, evaluations, host, history, former>>

\* host.retry: beforeRetry marks every held incident and the adapter resumes; or it is
\* refused, because the journal is.
RetryResumes(id) ==
    /\ calls[id].pc = "resuming"
    /\ chain' = Tail(chain)
    /\ \E refused \in BOOLEAN :
          /\ Write(~refused)
          /\ IF refused \/ AnyUnresolved
             THEN Acts(id, "refused") /\ UNCHANGED <<incidents, history, host>>
             ELSE /\ incidents' = [f \in Incidents |->
                        IF incidents[f].progress = "held" THEN Updated(f, "retrying", incidents[f].recovery)[f]
                        ELSE incidents[f]]
                  /\ history' = [history EXCEPT !.acted[id] = @ + 1]
                  /\ host' = [host EXCEPT !.paused = FALSE]
                  /\ calls' = [calls EXCEPT ![id] = [@ EXCEPT !.pc = "settling",
                                                              !.waits = ToSet(Tail(chain))]]
    /\ UNCHANGED <<circuit, boundary, operations, plans, evaluations, former>>

\* #settle: the jobs that were queued have ended, and the record settled or time is up.
RetrySettles(id) ==
    /\ calls[id].pc = "settling" /\ calls[id].waits \cap ToSet(chain) = {}
    /\ Acts(id, "completed")
    /\ Sound
    /\ UNCHANGED <<recordVars, operations, plans, evaluations, host, chain, history, former>>

ReopenRuns(id) ==
    /\ Queued(id, {"reopen"})
    /\ chain' = Tail(chain)
    /\ IF circuit.revision = calls[id].request.revision /\ circuit.open
       THEN /\ circuit' = [open |-> FALSE, revision |-> circuit.revision + 1]
            /\ history' = [history EXCEPT !.acted[id] = @ + 1]
            /\ Acts(id, "completed")
       ELSE Acts(id, "refused") /\ UNCHANGED <<circuit, history>>
    /\ Sound /\ UNCHANGED <<incidents, boundary, operations, plans, evaluations, host, former>>

\* checkRetirement: no incident the boundary covers is still open.
MayRetire(request) ==
    /\ boundary.number = request.number /\ boundary.revision = request.revision
    /\ boundary.inForce
    /\ \A f \in boundary.covers : incidents[f].progress \notin Open

RetireRuns(id) ==
    /\ Queued(id, {"retire"})
    /\ chain' = Tail(chain)
    /\ IF MayRetire(calls[id].request)
       THEN /\ boundary' = [boundary EXCEPT !.inForce = FALSE, !.revision = @ + 1]
            /\ host' = [host EXCEPT !.boundary = 0]
            /\ history' = [history EXCEPT !.acted[id] = @ + 1]
            /\ Acts(id, "completed")
       ELSE Acts(id, "refused") /\ UNCHANGED <<boundary, host, history>>
    /\ Sound /\ UNCHANGED <<incidents, circuit, operations, plans, evaluations, former>>

\* The store throws in the middle: the outcome is unknown.
CallThrows(id) ==
    /\ calls[id].pc \in {"queued", "settling", "evidence", "redriving"}
    /\ calls[id].pc = "queued" => Turn(id)
    /\ chain' = IF calls[id].pc = "queued" THEN Tail(chain) ELSE chain
    /\ Acts(id, "unknown")
    /\ Write(FALSE)
    /\ UNCHANGED <<recordVars, operations, plans, evaluations, host, history, former>>

\* finishOperation, and the answer; a result that cannot be recorded leaves it pending.
Finish(id) ==
    /\ calls[id].pc = "acted"
    /\ \E recorded \in BOOLEAN :
          /\ Sound
          /\ operations' =
                IF ~recorded THEN operations
                ELSE [of |-> [operations.of EXCEPT ![id] = [@ EXCEPT
                                !.state = IF calls[id].outcome = "unknown" THEN "unknown" ELSE "completed",
                                !.result = calls[id].outcome]],
                      finished |-> Append(operations.finished, id)]
    /\ history' = [history EXCEPT !.told[id] = @ \cup {calls[id].outcome}]
    /\ calls' = [calls EXCEPT ![id] = NoCall]
    /\ UNCHANGED <<recordVars, plans, evaluations, host, chain, former>>

\* What the journal says of an operation that is not pending; nothing, if a crash left it so.
Recorded(id) == IF operations.of[id].result = "none" THEN "unknown" ELSE operations.of[id].result

\* Mistake: an operation whose result is not known is run again.
ReplayReruns(id) ==
    /\ operations.of[id].state \in {"completed", "unknown"} /\ calls[id].pc = "none"
    /\ IF operations.of[id].result # "none"
       THEN /\ history' = [history EXCEPT !.told[id] = @ \cup {operations.of[id].result}]
            /\ UNCHANGED calls
       ELSE /\ LET again == PlanClaimable(operations.of[id].request)
               IN calls' = [calls EXCEPT ![id] = [NoCall EXCEPT
                      !.pc = IF again THEN "evidence" ELSE "acted",
                      !.request = operations.of[id].request,
                      !.outcome = IF again THEN "none" ELSE "refused"]]
            /\ UNCHANGED history
    /\ Sound /\ UNCHANGED <<recordVars, operations, plans, evaluations, host, chain, former>>

\* The caller sends its ID again, with the same request: replay() answers with what the journal
\* says.
Replay(id) ==
    /\ operations.of[id].state \in {"completed", "unknown"}
    /\ history' = [history EXCEPT !.told[id] = @ \cup {Recorded(id)}]
    /\ Sound /\ UNCHANGED <<recordVars, operations, calls, plans, evaluations, host, chain, former>>

\* Or it is refused ("operation-in-progress"): the operation is pending, because it runs or because
\* its result could not be recorded.  (With another request, "operation-id-reused", or when
\* beginOperation throws, "journal-unavailable", the call is refused too and nothing changes.)
ReplayRefused(id) ==
    /\ operations.of[id].state = "pending"
    /\ turnedAway' = {id}
    /\ UNCHANGED <<recordVars, operations, calls, plans, evaluations, host, chain, history, former, errors>>

-----------------------------------------------------------------------------
(* The source and its failure service.                                     *)

Disposes(f) == Turn(f)
Retrying(f) == incidents[f].progress = "retrying" /\ ~host.paused /\ f \notin ToSet(chain)
serviceVars == <<operations, calls, plans, evaluations, history, former>>

\* The redelivered record processes and is committed.
RecordProcesses(f) ==
    /\ Retrying(f)
    /\ incidents' = Updated(f, "processed", incidents[f].recovery)
    /\ Sound /\ UNCHANGED <<circuit, boundary, host, chain, serviceVars>>

\* It fails again: the source pauses, the others under retry are held, and a disposition is
\* queued.
RecordFails(f) ==
    /\ Retrying(f)
    /\ incidents' = [g \in Incidents |->
           IF g # f /\ incidents[g].progress = "retrying"
           THEN Updated(g, "held", incidents[g].recovery)[g] ELSE incidents[g]]
    /\ host' = [host EXCEPT !.paused = TRUE]
    /\ chain' = Append(chain, f)
    /\ Sound /\ UNCHANGED <<circuit, boundary, serviceVars>>

\* The disposition holds it, opens the circuit, or asks the recovery guard.
DispositionStarts(f) ==
    /\ Disposes(f) /\ incidents[f].recovery # "guard-pending"
    /\ incidents[f].progress \notin Unsettled
    /\ \E decision \in {"hold", "trip", "guard"} :
          /\ decision # "hold" => f \in Eligible /\ ~circuit.open
          /\ incidents' = Updated(f, "held", IF decision = "guard" THEN "guard-pending" ELSE "held")
          /\ circuit' = IF decision = "trip" THEN [open |-> TRUE, revision |-> circuit.revision + 1]
                        ELSE circuit
          /\ chain' = IF decision = "guard" THEN chain ELSE Tail(chain)
    /\ Sound /\ UNCHANGED <<boundary, host, serviceVars>>

\* The guard denies, or approves: the boundary is stored with the intent to advance.
DispositionGuarded(f) ==
    /\ Disposes(f) /\ incidents[f].recovery = "guard-pending"
    /\ \/ /\ incidents' = Updated(f, "held", "denied")
          /\ chain' = Tail(chain)
          /\ UNCHANGED <<boundary, host>>
       \/ /\ incidents' = Updated(f, "advance-pending", "none")
          /\ boundary' = [number |-> boundary.number + 1, inForce |-> TRUE, revision |-> 1,
                          covers |-> {f} \cup IF boundary.inForce THEN boundary.covers ELSE {}]
          /\ host' = [host EXCEPT !.boundary = boundary'.number]
          /\ UNCHANGED chain
    /\ Sound /\ UNCHANGED <<circuit, serviceVars>>

AdvanceEnds(f) ==
    /\ Disposes(f) /\ incidents[f].progress = "advance-pending"
    /\ \E confirmed \in BOOLEAN :
          /\ incidents' = Updated(f, IF confirmed THEN "advanced" ELSE "uncertain", "none")
          /\ host' = [host EXCEPT !.paused = ~confirmed]
    /\ chain' = Tail(chain)
    /\ Sound /\ UNCHANGED <<circuit, boundary, serviceVars>>

StopBegins ==
    /\ host.state = "running" /\ host' = [host EXCEPT !.state = "stopping"]
    /\ Sound /\ UNCHANGED <<recordVars, chain, serviceVars>>

\* A crash and a start: the constructor marks what was pending as unknown, and the failure
\* service reconciles its incidents.
HostRestarts ==
    /\ Write(FALSE)
    /\ calls' = [i \in Ids |-> NoCall]
    /\ plans' = {} /\ chain' = <<>>
    /\ evaluations' = [e \in Evaluations |-> IF e \in Started THEN [evaluations[e] EXCEPT !.phase = "ended"]
                                             ELSE evaluations[e]]
    /\ \E order \in SetToSeqs({i \in Ids : operations.of[i].state = "pending"}) :
          operations' = [of |-> [i \in Ids |-> IF operations.of[i].state = "pending"
                                               THEN [operations.of[i] EXCEPT !.state = "unknown"]
                                               ELSE operations.of[i]],
                         finished |-> operations.finished \o order]
    /\ \E advanced \in BOOLEAN :
          incidents' = [f \in Incidents |->
              CASE incidents[f].progress \in {"held", "retrying"} -> Updated(f, "retrying", "held")[f]
                [] incidents[f].progress \in Unsettled ->
                       Updated(f, IF advanced THEN "advanced" ELSE "uncertain", "none")[f]
                [] OTHER -> incidents[f]]
    /\ host' = [state |-> "running", boundary |-> IF boundary.inForce THEN boundary.number ELSE 0,
                paused |-> \E f \in Incidents : incidents'[f].progress = "uncertain"]
    /\ UNCHANGED <<circuit, boundary, history, former>>

\* The source is paused at a held record, or at none; the others were advanced past.
OperatorInit ==
    /\ \E held \in {{}} \cup {{f} : f \in Incidents} :
          /\ incidents = [f \in Incidents |->
                 [progress |-> IF f \in held THEN "held" ELSE "advanced", revision |-> 1,
                  recovery |-> IF f \in held THEN "held" ELSE "none"]]
          /\ Incidents \ held \subseteq Eligible
          /\ boundary = [number |-> 1, inForce |-> TRUE, revision |-> 1, covers |-> Incidents \ held]
          /\ host = [state |-> "running", boundary |-> 1, paused |-> held # {}]
    /\ circuit \in [open : BOOLEAN, revision : {1}]
    /\ operations = [of |-> [i \in Ids |-> NoOperation], finished |-> <<>>]
    /\ calls = [i \in Ids |-> NoCall]
    /\ plans = {} /\ chain = <<>> /\ errors = 0
    /\ evaluations = [e \in Evaluations |->
           [phase |-> "none", on |-> NoRequest.on, revision |-> 0, advanced |-> FALSE]]
    /\ history = [acted |-> [i \in Ids |-> 0], told |-> [i \in Ids |-> {}],
                  spent |-> [e \in Evaluations |-> 0]]
    /\ former = {} /\ turnedAway = {}

\* What goes on by itself once it has begun.
CallMoves(id) ==
    \/ RedriveReads(id) \/ RedriveEnds(id) \/ RetryChecks(id) \/ RetryResumes(id)
    \/ RetrySettles(id) \/ ReopenRuns(id) \/ RetireRuns(id) \/ Finish(id)
DispositionMoves(f) == DispositionStarts(f) \/ DispositionGuarded(f) \/ AdvanceEnds(f)

OperatorNext ==
    \/ \E id \in Ids : CallMoves(id) \/ CallThrows(id)
    \/ \E f \in Incidents : DispositionMoves(f)
    \/ \E f \in Incidents : Evaluate(f) \/ RecordProcesses(f) \/ RecordFails(f)
    \/ \E e \in Evaluations : EvaluationEnds(e) \/ PlanExpires(e)
    \/ \E id \in Redrives : RedriveClaims(id) \/ Replay(id) \/ ReplayRefused(id)
    \/ \E id \in Others : Queue(id)
    \/ StopBegins \/ HostRestarts

OperatorSpec == OperatorInit /\ [][OperatorNext]_operatorVars

=============================================================================
