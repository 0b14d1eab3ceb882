------------------------- MODULE OperatorProperties -------------------------
(***************************************************************************)
(* What the operator service promises whoever calls it.                    *)
(***************************************************************************)
EXTENDS OperatorService

\* What the journal holds and what the service remembers of it stay in their types.
OperatorTypeOK ==
    /\ incidents \in [Incidents -> IncidentType]
    /\ operations.of \in [Ids -> OperationType]
    /\ calls \in [Ids -> CallType]
    /\ evaluations \in [Evaluations -> EvaluationType]
    /\ errors \in 0..MaxErrors

\* Every operation there ever was: what it did, and what was answered for it.
Operations == former \cup {[acted |-> history.acted[id], told |-> history.told[id]] : id \in Ids}

\* V1_1_API.md:359 "A reused ID returns the recorded result" and, of what a crash left, "never
\* rerun": whatever retries, restarts and unrecorded results come between, an operation acts at
\* most once, it is given one answer, or "unknown", and that answer says whether it acted.  (A
\* call refused over its ID is not answered for the operation: see RefusedChangesNothing.)
AnswersAgree ==
    \A o \in Operations :
        /\ o.acted <= 1
        /\ "completed" \in o.told => o.acted = 1
        /\ o.told \cap {"refused", "failed"} # {} => o.acted = 0
        /\ Cardinality(o.told \ {"unknown"}) <= 1

\* service.ts:105 "A refused operation result: nothing was changed", service.ts:921 "That
\* operation is still running": who is refused so may take one or the other to be true.
RefusedChangesNothing ==
    \A id \in turnedAway : calls[id].pc # "none" \/ history.acted[id] = 0

\* service.ts:282 "A plan approves exactly one redrive".
PlanUsedOnce == \A e \in Evaluations : history.spent[e] <= 1

\* service.ts:457-458 the checks, the event and the resume "queue behind a disposition already
\* in flight (a quarantine write, the guard) instead of interleaving with it": a source is
\* never being resumed while a guard is asked or an advance of its record is unresolved.
NeverRetriesUnderAdvance ==
    \A id \in Ids : calls[id].pc = "resuming" =>
        \A f \in Incidents : /\ incidents[f].recovery # "guard-pending"
                             /\ incidents[f].progress \notin Unsettled

=============================================================================
