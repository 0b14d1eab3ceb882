-------------------------- MODULE FailureProperties --------------------------
(***************************************************************************)
(* What failure handling must guarantee, whatever fails and restarts.      *)
(***************************************************************************)
EXTENDS FailureService

\* The journal and the service's memory stay in their types, and the await the service is
\* at belongs to the job whose turn it is.
FailureTypeOK ==
    /\ journal \in JournalType
    /\ service \in ServiceType
    /\ service.step # "idle" =>
          service.chain # <<>>
          /\ service.chain[1].kind = IF service.step = "retiring" THEN "retire" ELSE "dispose"
    /\ service.changed => service.step # "idle"

\* A record the group's offset is past, that this gateway neither processed nor lost to
\* someone else's commit, has an incident on disk that does not claim it was processed.
NoSilentSkip ==
    \A offset \in Offsets :
        offset < committed /\ offset \notin finished \cup moved =>
            journal.progress[offset] \in Watched \cup {"advanced"}

\* Such a record is covered by the boundary every snapshot must acknowledge, across restarts
\* and later advances, until the application retired it.
SkippedIsCovered ==
    \A offset \in Offsets :
        offset < committed /\ offset \notin finished \cup moved =>
            offset \in service.boundary \cup retired

\* An incident is resolved as processed only if its record was, and as advanced only if
\* the group's offset is past it, whether the advance, a commit or a restart resolves it.
ResolvedIsTrue ==
    [][\A offset \in Offsets :
          journal'.progress[offset] # journal.progress[offset] =>
              /\ journal'.progress[offset] = "processed" => offset \in finished
              /\ journal'.progress[offset] = "advanced" => committed > offset]_vars

=============================================================================
