-------------------------- MODULE SocketProperties --------------------------
(***************************************************************************)
(* What callers of the operator socket may rely on.                        *)
(***************************************************************************)
EXTENDS OperatorSocket

\* Both ends of every connection, and the files, stay in their types.
SocketTypeOK ==
    /\ files \in [socket : Gateways \cup {None}, token : Gateways \cup {None}]
    /\ callers \in [Callers -> CallerType]
    /\ conns \in [Callers -> ConnType]

\* ipc.ts:69-70 "closing; the request was not run", and :584-586: a caller whose error does
\* not carry "no-answer" knows that its request did not reach the operator, and the operator
\* does not run it later.
RefusedNeverRan == \A c \in Callers : callers[c].outcome = "refused" => ~conns[c].ran

\* ipc.ts:153 "so a later gateway's socket or token is left alone": a gateway that listens
\* can be found, and its token read, until it closes.
ListenerIsReachable ==
    \A g \in Gateways : Listening(g) => files = [socket |-> g, token |-> g]

=============================================================================
