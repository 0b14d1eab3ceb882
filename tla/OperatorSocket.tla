---------------------------- MODULE OperatorSocket ----------------------------
(***************************************************************************)
(* The local operator socket (operator/ipc.ts): gateways that start and     *)
(* close their socket on one state directory, and callers that send one     *)
(* request each over a connection of their own (callOperator).              *)
(*                                                                         *)
(* A gateway is numbered in the order of starts; the number stands for its  *)
(* token and for the inodes of its files.  A caller and its connection have *)
(* the same name.  The operator's own errors count as its data.             *)
(***************************************************************************)
EXTENDS Integers, FiniteSets

CONSTANTS
    Callers,
    MaxConnections,   \* maxConnections of a socket
    MaxGateways       \* bound: starts

ASSUME SocketAssumption ==
    /\ IsFiniteSet(Callers)
    /\ MaxConnections \in Nat \ {0} /\ MaxGateways \in Nat

VARIABLES
    gateways,   \* the state of every gateway's socket
    files,      \* whose are operator.sock and operator.token, or 0
    callers,    \* the callOperator calls
    conns       \* the gateway's side of their connections

socketVars == <<gateways, files, callers, conns>>

Gateways == 1..MaxGateways
None == 0

CallerType ==
    [pc : {"new", "connecting", "sent", "done"}, token : Gateways \cup {None},
     outcome : {"none", "data", "refused", "no-answer"}]
\* A connection is in `connections` while counted.  `ran` is history: the operator was called.
ConnType ==
    [phase : {"none", "pending", "open", "running", "replying", "lingering", "destroyed"},
     gateway : Gateways \cup {None}, counted : BOOLEAN, linger : BOOLEAN,
     reply : {"none", "data", "refused"}, ran : BOOLEAN]

NoConn == [phase |-> "none", gateway |-> None, counted |-> FALSE, linger |-> FALSE,
           reply |-> "none", ran |-> FALSE]

Counted(g) == {c \in Callers : conns[c].gateway = g /\ conns[c].counted}
Lingering(g) == {c \in Callers : conns[c].gateway = g /\ conns[c].phase = "lingering"}
Alive(g) == {c \in Callers : conns[c].gateway = g /\ conns[c].phase \notin {"none", "destroyed"}}
Closing(g) == gateways[g] \in {"closing", "drained"}
Listening(g) == g # None /\ gateways[g] = "listening"

Destroyed(conn) == [conn EXCEPT !.phase = "destroyed", !.counted = FALSE]
Replying(conn, reply, linger) == [conn EXCEPT !.phase = "replying", !.reply = reply, !.linger = linger]

-----------------------------------------------------------------------------
(* startOperatorSocket and close.                                          *)

\* One start at a time: the gateway holds the journal's lock.
\* clearSocketPath: a socket that nobody answers on is removed, a live one refuses the start.
\* The fresh token replaces the file's, and the gateway is about to listen.
Start(g) ==
    /\ gateways[g] = "new" /\ \A h \in Gateways : h < g => gateways[h] # "new"
    /\ \A h \in Gateways : gateways[h] # "starting"
    /\ IF Listening(files.socket)
       THEN gateways' = [gateways EXCEPT ![g] = "closed"] /\ UNCHANGED files
       ELSE /\ gateways' = [gateways EXCEPT ![g] = "starting"]
            /\ files' = [socket |-> None, token |-> g]
    /\ UNCHANGED <<callers, conns>>

\* listen and chmod; a start that fails removes its own token.
Listen(g) ==
    /\ gateways[g] = "starting"
    /\ \/ /\ gateways' = [gateways EXCEPT ![g] = "listening"]
          /\ files' = [files EXCEPT !.socket = g]
       \/ /\ gateways' = [gateways EXCEPT ![g] = "closed"]
          /\ files' = [files EXCEPT !.token = IF @ = g THEN None ELSE @]
    /\ UNCHANGED <<callers, conns>>

\* Mistake: requests that were handed over are refused too.
CloseRefusesAll(g) ==
    /\ gateways[g] = "listening"
    /\ gateways' = [gateways EXCEPT ![g] = "closing"]
    /\ files' = [files EXCEPT !.socket = IF @ = g THEN None ELSE @]
    /\ conns' = [c \in Callers |->
           IF c \in Lingering(g) THEN Destroyed(conns[c])
           ELSE IF c \in Counted(g) /\ conns[c].phase \in {"open", "running"}
           THEN Replying(conns[c], "refused", FALSE) ELSE conns[c]]
    /\ UNCHANGED callers

\* close(): nothing more is accepted, and the server's path goes with it; a connection whose
\* request was not handed over is refused.
Close(g) ==
    /\ gateways[g] = "listening"
    /\ gateways' = [gateways EXCEPT ![g] = "closing"]
    /\ files' = [files EXCEPT !.socket = IF @ = g THEN None ELSE @]
    /\ conns' = [c \in Callers |->
           IF c \in Lingering(g) THEN Destroyed(conns[c])
           ELSE IF c \in Counted(g) /\ conns[c].phase = "open"
           THEN Replying(conns[c], "refused", FALSE) ELSE conns[c]]
    /\ UNCHANGED callers

\* The answers in progress are written, or drainMs is over and the rest is cut off.
Drains(g) ==
    /\ gateways[g] = "closing"
    /\ gateways' = [gateways EXCEPT ![g] = "drained"]
    /\ conns' = [c \in Callers |-> IF c \in Counted(g) THEN Destroyed(conns[c]) ELSE conns[c]]
    /\ UNCHANGED <<files, callers>>

\* Mistake: whoever owns the files now.
CloseEndsAny(g) ==
    /\ gateways[g] = "drained" /\ Alive(g) = {}
    /\ gateways' = [gateways EXCEPT ![g] = "closed"]
    /\ files' = [socket |-> None, token |-> None]
    /\ UNCHANGED <<callers, conns>>

\* Every connection ended; removeIfSame of the socket and of the token.
CloseEnds(g) ==
    /\ gateways[g] = "drained" /\ Alive(g) = {}
    /\ gateways' = [gateways EXCEPT ![g] = "closed"]
    /\ files' = [socket |-> IF files.socket = g THEN None ELSE files.socket,
                 token |-> IF files.token = g THEN None ELSE files.token]
    /\ UNCHANGED <<callers, conns>>

\* The process dies: its files stay.
GatewayDies(g) ==
    /\ gateways[g] \in {"starting", "listening", "closing", "drained"}
    /\ gateways' = [gateways EXCEPT ![g] = "closed"]
    /\ conns' = [c \in Callers |-> IF c \in Alive(g) THEN Destroyed(conns[c]) ELSE conns[c]]
    /\ UNCHANGED <<files, callers>>

-----------------------------------------------------------------------------
(* serve: one connection.                                                  *)

\* Over the limit or closing, it is refused and never counted.
Serve(c) ==
    LET g == conns[c].gateway
    IN /\ conns[c].phase = "pending"
       /\ conns' = [conns EXCEPT ![c] =
              IF Closing(g) \/ Cardinality(Counted(g)) >= MaxConnections
              THEN Replying(@, "refused", TRUE) ELSE [@ EXCEPT !.phase = "open", !.counted = TRUE]]
       /\ UNCHANGED <<gateways, files, callers>>

\* The line is there.  A stale token, a spent rate or a malformed request is refused, an
\* oversize line too, while the caller may still be writing; anything else reaches the operator.
LineArrives(c) ==
    LET g == conns[c].gateway
    IN /\ conns[c].phase = "open"
       /\ \E bad, oversize \in BOOLEAN :
             conns' = [conns EXCEPT ![c] =
                 IF bad \/ oversize \/ callers[c].token # g THEN Replying(@, "refused", oversize)
                 ELSE [@ EXCEPT !.phase = "running", !.ran = TRUE]]
       /\ UNCHANGED <<gateways, files, callers>>

\* No complete line within idleMs.
IdleEnds(c) ==
    /\ conns[c].phase = "open"
    /\ conns' = [conns EXCEPT ![c] = Destroyed(@)]
    /\ UNCHANGED <<gateways, files, callers>>

OperatorAnswers(c) ==
    /\ conns[c].phase = "running"
    /\ conns' = [conns EXCEPT ![c] = Replying(@, "data", FALSE)]
    /\ UNCHANGED <<gateways, files, callers>>

\* What the caller makes of an answer that it read in time.
Told(c, outcome) ==
    callers' = [callers EXCEPT ![c] = [@ EXCEPT !.pc = "done", !.outcome = outcome]]
ToldInTime(c) == IF callers[c].pc = "sent" THEN Told(c, conns[c].reply) ELSE UNCHANGED callers

\* reply's answer is written and read.  A connection with input left keeps reading for a
\* while, unless the socket closes or too many linger.
Flushed(c) ==
    LET g == conns[c].gateway
        lingers == conns[c].linger /\ ~Closing(g) /\ Cardinality(Lingering(g)) < MaxConnections
    IN /\ conns[c].phase = "replying"
       /\ conns' = [conns EXCEPT ![c] =
              IF lingers THEN [@ EXCEPT !.phase = "lingering", !.counted = FALSE] ELSE Destroyed(@)]
       /\ ToldInTime(c)
       /\ UNCHANGED <<gateways, files>>

LingerEnds(c) ==
    /\ conns[c].phase = "lingering"
    /\ conns' = [conns EXCEPT ![c] = Destroyed(@)]
    /\ UNCHANGED <<gateways, files, callers>>

-----------------------------------------------------------------------------
(* callOperator.                                                           *)

\* readToken: without a token no gateway runs.
Call(c) ==
    /\ callers[c].pc = "new"
    /\ IF files.token = None THEN Told(c, "refused")
       ELSE callers' = [callers EXCEPT ![c] = [@ EXCEPT !.pc = "connecting", !.token = files.token]]
    /\ UNCHANGED <<gateways, files, conns>>

\* The connection opens and the line is sent; or nobody listens on the path.
Connect(c) ==
    /\ callers[c].pc = "connecting"
    /\ IF Listening(files.socket)
       THEN /\ callers' = [callers EXCEPT ![c].pc = "sent"]
            /\ conns' = [conns EXCEPT ![c] = [@ EXCEPT !.phase = "pending", !.gateway = files.socket]]
       ELSE Told(c, "refused") /\ UNCHANGED conns
    /\ UNCHANGED <<gateways, files>>

\* timeoutMs: the caller gives up, and its socket closes; a request that was sent may have run.
TimesOut(c) ==
    /\ callers[c].pc \in {"connecting", "sent"}
    /\ Told(c, IF callers[c].pc = "sent" THEN "no-answer" ELSE "refused")
    /\ conns' = [conns EXCEPT ![c] = IF @.phase \in {"none", "running"} THEN @ ELSE Destroyed(@)]
    /\ UNCHANGED <<gateways, files>>

\* The connection closed without a complete answer.
ConnectionLost(c) ==
    /\ callers[c].pc = "sent" /\ conns[c].phase = "destroyed"
    /\ Told(c, "no-answer")
    /\ UNCHANGED <<gateways, files, conns>>

SocketInit ==
    /\ gateways = [g \in Gateways |-> "new"]
    /\ files = [socket |-> None, token |-> None]
    /\ callers = [c \in Callers |-> [pc |-> "new", token |-> None, outcome |-> "none"]]
    /\ conns = [c \in Callers |-> NoConn]

SocketNext ==
    \/ \E g \in Gateways : Start(g) \/ Listen(g) \/ Close(g) \/ Drains(g) \/ CloseEnds(g) \/ GatewayDies(g)
    \/ \E c \in Callers : Serve(c) \/ LineArrives(c) \/ IdleEnds(c) \/ OperatorAnswers(c)
                          \/ Flushed(c) \/ LingerEnds(c)
    \/ \E c \in Callers : Call(c) \/ Connect(c) \/ TimesOut(c) \/ ConnectionLost(c)

SocketSpec == SocketInit /\ [][SocketNext]_socketVars

=============================================================================
