---------------------------- MODULE StateChannel ----------------------------
(***************************************************************************)
(* What one subscription to a state channel promises, whatever the gateway *)
(* does inside: a view that reports live shows, or is about to be sent,    *)
(* the newest state the gateway has processed; what the reader confirmed   *)
(* never goes backwards; an ended view stays ended.                        *)
(***************************************************************************)
EXTENDS Naturals

CONSTANT MaxRevision  \* bound: revisions the application writes

VARIABLES
    status,   \* the state the view reports
    newest,   \* newest revision processed
    shown,    \* newest revision the reader confirmed
    owed      \* while live, revisions accepted for delivery and not confirmed

vars == <<status, newest, shown, owed>>

Ended == {"ended"}
Unsettled == {"authorizing", "synchronizing", "stale", "resync-required"}

Covers(held, at, revision) == at >= revision \/ \E r \in held : r >= revision

Init ==
    /\ status = "idle"
    /\ newest = 0
    /\ shown = 0
    /\ owed = {}

\* A view that is not live owes nothing in particular.
Begin == status = "idle" /\ status' \in Unsettled /\ owed' = {} /\ UNCHANGED <<newest, shown>>

\* A live view accepts every newer state, or stops being live.
Publish ==
    /\ \E revision \in 1..MaxRevision :
          newest' = IF revision > newest THEN revision ELSE newest
    /\ UNCHANGED shown
    /\ \/ /\ status # "live"
          /\ UNCHANGED <<status, owed>>
       \/ /\ status = "live"
          /\ UNCHANGED status
          /\ \E fresh \in SUBSET (1..MaxRevision) : owed' = owed \cup fresh
          /\ Covers(owed', shown, newest')
       \/ /\ status \notin Ended \cup {"idle"}
          /\ status' \in Unsettled \cup Ended
          /\ owed' = {}

\* The reader confirms an owed revision.
Confirm ==
    /\ status = "live"
    /\ \E revision \in owed :
          /\ shown' = IF revision > shown THEN revision ELSE shown
          /\ owed' = owed \ {revision}
    /\ UNCHANGED <<status, newest>>

\* The reader confirms a frame of a view that is not live yet; if that was the
\* last frame of the drain, the view goes live with nothing processed left out.
Synchronize ==
    /\ status = "synchronizing"
    /\ shown' \in shown..MaxRevision
    /\ status' \in {"synchronizing", "live"} \cup Unsettled \cup Ended
    /\ owed' \in SUBSET (1..MaxRevision)
    /\ IF status' = "live" THEN Covers(owed', shown', newest) ELSE owed' = {}
    /\ UNCHANGED newest

\* The view stops being live, moves between attempts, or ends.
Leave ==
    /\ status \notin Ended
    /\ status' \in Unsettled \cup Ended
    /\ owed' = {}
    /\ shown' \in (IF status = "live" THEN shown..MaxRevision ELSE {shown})
    /\ UNCHANGED newest

\* A confirmation that was on its way when the view ended.
Late ==
    /\ status \in Ended
    /\ shown' \in shown..MaxRevision
    /\ UNCHANGED <<status, newest, owed>>

Next == Begin \/ Publish \/ Confirm \/ Synchronize \/ Leave \/ Late

Spec == Init /\ [][Next]_vars

=============================================================================
