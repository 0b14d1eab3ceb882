--------------------------- MODULE KafkaProperties ---------------------------
(***************************************************************************)
(* What the Kafka adapter must guarantee.                                  *)
(***************************************************************************)
EXTENDS KafkaSource

\* Every field of the adapter stays in its type.
SourceTypeOK ==
    /\ adapter \in AdapterType
    /\ committed \in Positions
    /\ finished \subseteq Offsets
    /\ excused \subseteq Offsets

\* kafka.ts:184 "the next offset is committed only after the gateway finishes
\* processing a record": every offset below the committed one was finished, or the
\* caller asked to advance past it; a restart never loses a record silently.
CommittedIsAccounted ==
    \A offset \in Offsets : offset < committed => offset \in finished \cup excused

\* kafka.ts:186 "resume retries the same record; nothing after it is committed":
\* while the source is held at a record that was never finished nor excused, the
\* consumer stands at or before it and nothing from it on is committed.
HeldIsRetried ==
    adapter.held # 0 /\ adapter.held \notin finished \cup excused =>
        adapter.position <= adapter.held /\ committed <= adapter.held

\* What serializing commits is for (kafka.ts:221): the retry of a failed commit never moves the offset
\* back below a record whose commit was answered after that failure, although both may
\* have waited in the queue together.
RetryNeverUndoes ==
    [][\A offset \in Offsets :
          /\ adapter.commits # <<>> /\ Head(adapter.commits).by = "retry"
          /\ offset <= adapter.settled
          /\ committed > offset
          => committed' > offset]_sourceVars

\* A failed commit is retried in the background until it lands or no longer matters
\* (kafka.ts: "so the last record before a quiet period doesn't stay uncommitted"),
\* once commits stop failing.
CommitsCatchUp == adapter.uncommitted # 0 ~> adapter.uncommitted = 0 \/ adapter.stopping

=============================================================================
