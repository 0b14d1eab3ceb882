------------------------- MODULE SessionProperties -------------------------
(***************************************************************************)
(* The two ends of a connection, one per behaviour: the SDK client, which  *)
(* opens, refreshes and replaces it, and a subscription the gateway serves *)
(* over it, in the microtask between an authorization and its caller.      *)
(***************************************************************************)
EXTENDS SubscriptionProperties, StreamClientProperties

VARIABLE part
sessionVars == <<part, vars, clientVars>>

SessionInit == part \in {"client", "subscription"} /\ ClientInit /\ Init

SessionNext ==
    \/ part = "client" /\ ClientNext /\ UNCHANGED <<part, vars>>
    \/ part = "subscription" /\ Next /\ UNCHANGED <<part, clientVars>>

SessionSpec == SessionInit /\ [][SessionNext]_sessionVars /\ ClientFairness
=============================================================================
