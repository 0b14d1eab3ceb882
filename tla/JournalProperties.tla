--------------------------- MODULE JournalProperties ---------------------------
(***************************************************************************)
(* What gateways and operators may rely on from the failure journal.       *)
(***************************************************************************)
EXTENDS IncidentJournal

\* The second source never changes its generation but may be removed; the tool names the first.
StartConfigs ==
    {[s \in Source |-> IF s = "s1" THEN g ELSE h] : g \in Generation, h \in {1, NoGeneration}}
    \cup {[s \in Source |-> IF s = "s1" THEN NoGeneration ELSE 1]}

\* The processes, the journal and the writes under way stay in their types.
JournalTypeOK ==
    /\ procs \in [Process -> ProcType]
    /\ data \in DataType
    /\ work \in [Process -> DataType]
    /\ mishaps \in 0..MaxFaults

HasOpen(p) == procs[p].pc \in {"claiming", "naming", "running", "closing", "rebaselining"}

\* journal.ts:530-531 "for the gateway that will own it": whatever the races on journal.lock,
\* at most one process has the journal open.
OneOwner == Cardinality({p \in Process : HasOpen(p)}) <= 1

\* journal.ts:784-788: an open incident, and a boundary in force, belong to the generation
\* that the journal records for their source.
OpenIsCurrent ==
    \A s \in Source : /\ OpenIn(data, s) \subseteq {data.recorded[s]}
                      /\ data.boundary[s] \in {NoGeneration, data.recorded[s]}

\* rebaseline.ts:36 "the incidents close and the generation is recorded together, or nothing
\* changes": an incident that stops being open without a gateway of its generation leaves
\* with the whole of its generation.
RebaselineIsWhole == [][
    \A s \in Source : \A g \in OpenIn(data, s) \ OpenIn(data', s) :
        \/ \E p \in Process : procs[p].pc = "running" /\ procs[p].config[s] = g
        \/ OpenIn(data', s) = {} /\ data.recorded[s] = g /\ data'.recorded[s] # g]_journalVars

=============================================================================
