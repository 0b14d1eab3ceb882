------------------------- MODULE RuntimeProperties -------------------------
(***************************************************************************)
(* The gateway's own process: its start, stop and connections, the         *)
(* pipeline a record goes through, and the Kafka adapter that delivers it. *)
(* They meet in the composed modules; here each is on its own, so a        *)
(* behaviour moves one of them, part, and leaves the others as they start. *)
(***************************************************************************)
EXTENDS GatewayProperties, PipelineProperties, KafkaProperties

VARIABLE part
runtimeVars == <<part, lifeVars, pipeVars, sourceVars>>

RuntimeInit ==
    /\ part \in {"gateway", "pipeline", "kafka"}
    /\ LifeInit /\ (part # "gateway" => config = [failures |-> FALSE, obligations |-> FALSE, heldAtStart |-> FALSE])
    /\ PipeInit
    /\ SourceInit /\ (part # "kafka" => ~adapter.paused)

RuntimeNext ==
    \/ part = "gateway" /\ LifeNext /\ UNCHANGED <<part, pipeVars, sourceVars>>
    \/ part = "pipeline" /\ PipeNext /\ UNCHANGED <<part, lifeVars, sourceVars>>
    \/ part = "kafka" /\ SourceNext /\ UNCHANGED <<part, lifeVars, pipeVars>>

InLife(Step) == part = "gateway" /\ Step
InSource(Step) == part = "kafka" /\ Step

\* The awaits of start, rollback and stop end (each has a deadline or a timeout), and
\* microtasks run.
LifeFairness ==
    /\ WF_lifeVars(InLife(StartMoves))
    /\ WF_lifeVars(InLife(StopMoves))
    /\ \A c \in Connections : WF_lifeVars(InLife(OpenSession(c))) /\ WF_lifeVars(InLife(SessionCloses(c)))

\* The promise jobs of the chain and the lock run, and map calls settle or time out.
PipeFairness == WF_pipeVars(part = "pipeline" /\ PipeMoves)

\* The commit queue and the watchdog's interval run; the consumer rejoins its group
\* (restartOnFailure).
SourceFairness ==
    /\ WF_sourceVars(InSource(\E outcome \in {"ok", "lost", "failed", "skipped"} : CommitRuns(outcome)))
    /\ WF_sourceVars(InSource(RetryCommits))
    /\ WF_sourceVars(InSource(GroupJoin))

RuntimeSpec == RuntimeInit /\ [][RuntimeNext]_runtimeVars /\ LifeFairness /\ PipeFairness /\ SourceFairness
=============================================================================
