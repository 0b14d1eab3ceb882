---------------------------- MODULE GatewayProofs ----------------------------
(***************************************************************************)
(* Proofs about runtime/gateway.ts: the gateway as a process, for any       *)
(* connections, starts, revocations and status changes, and its record      *)
(* pipeline, for any channels, outputs and retries.                         *)
(***************************************************************************)
EXTENDS GatewayProperties, PipelineProperties, SequenceTheorems, FiniteSetTheorems,
        WellFoundedInduction, TLAPS

-----------------------------------------------------------------------------
(* Connections and revocations.                                            *)

\* RevokedSince, of a connection's fields.
Since(conn, c, log) == \E i \in (conn.seq + 1)..Len(log) : c \in log[i]

\* A call runs for a handshake, or it is abandoned; and a session that a revocation hit closes.
ConnHolds(conn, c, log) ==
    /\ conn.phase = "authenticating" => conn.running /\ ~conn.held
    /\ conn.held => conn.running /\ conn.phase = "gone"
    /\ conn.running => conn.phase = "authenticating" \/ conn.held
    /\ conn.seq <= Len(log)
    /\ conn.phase = "open" /\ Since(conn, c, log) => conn.closing

Authenticating == {c \in Connections : conns[c].phase = "authenticating"}
Held == {c \in Connections : conns[c].held}

\* The counters count the calls that the gateway waits for, and the abandoned ones.
CountersAreTrue ==
    /\ counters \in [pending : Nat, abandoned : Nat]
    /\ counters.pending = Cardinality(Authenticating)
    /\ counters.abandoned = Cardinality(Held)

\* The inductive invariant of the connections.
ConnInv ==
    /\ revocations \in Seq(SUBSET Connections) /\ Len(revocations) <= MaxRevocations
    /\ conns \in [Connections -> ConnectionType]
    /\ \A c \in Connections : ConnHolds(conns[c], c, revocations)
    /\ CountersAreTrue

B2N(b) == IF b THEN 1 ELSE 0

\* What one connection more or less does to a count.
LEMMA CountOne ==
    ASSUME NEW S, IsFiniteSet(S), NEW T, NEW c, T \ {c} = S \ {c}
    PROVE  /\ IsFiniteSet(T) /\ Cardinality(S) \in Nat /\ Cardinality(T) \in Nat
           /\ Cardinality(T) = Cardinality(S) - B2N(c \in S) + B2N(c \in T)
<1> DEFINE R == S \ {c}
<1>1. /\ IsFiniteSet(R) /\ Cardinality(S) \in Nat
      /\ Cardinality(R) = Cardinality(S) - B2N(c \in S)
  BY FS_RemoveElement, FS_CardinalityType DEF B2N
<1>2. CASE c \in T
  <2>1. T = R \cup {c} /\ c \notin R
    BY <1>2
  <2> HIDE DEF R
  <2>2. IsFiniteSet(T) /\ Cardinality(T) = Cardinality(R) + 1
    BY <1>1, <2>1, FS_AddElement
  <2> QED BY <1>1, <1>2, <2>2, FS_CardinalityType DEF B2N
<1>3. CASE c \notin T
  <2>1. T = R
    BY <1>3
  <2> HIDE DEF R
  <2> QED BY <1>1, <1>3, <2>1, FS_CardinalityType DEF B2N
<1> QED BY <1>2, <1>3

LEMMA CountsAreFinite == IsFiniteSet(Authenticating) /\ IsFiniteSet(Held)
<1>1. Authenticating \subseteq Connections /\ Held \subseteq Connections
  BY DEF Authenticating, Held
<1> QED BY <1>1, LifecycleAssumption, FS_Subset

\* A step of one connection that the counters follow.
LEMMA ConnectionStep ==
    ASSUME ConnInv, NEW c \in Connections, NEW conn \in ConnectionType,
           UNCHANGED revocations, conns' = [conns EXCEPT ![c] = conn],
           ConnHolds(conn, c, revocations),
           counters' \in [pending : Int, abandoned : Int],
           counters'.pending = counters.pending - B2N(conns[c].phase = "authenticating")
                                                + B2N(conn.phase = "authenticating"),
           counters'.abandoned = counters.abandoned - B2N(conns[c].held) + B2N(conn.held)
    PROVE  ConnInv'
<1>1. conns' \in [Connections -> ConnectionType]
  BY DEF ConnInv
<1>2. conns'[c] = conn /\ \A d \in Connections \ {c} : conns'[d] = conns[d]
  BY DEF ConnInv
<1>3. \A d \in Connections : ConnHolds(conns'[d], d, revocations')
  BY <1>2 DEF ConnInv
<1>4. Authenticating' \ {c} = Authenticating \ {c} /\ Held' \ {c} = Held \ {c}
  BY <1>2 DEF Authenticating, Held
<1>5. /\ c \in Authenticating <=> conns[c].phase = "authenticating"
      /\ c \in Authenticating' <=> conn.phase = "authenticating"
      /\ c \in Held <=> conns[c].held
      /\ c \in Held' <=> conn.held
  BY <1>2 DEF Authenticating, Held
<1>6. /\ Cardinality(Authenticating') \in Nat
      /\ Cardinality(Authenticating') = Cardinality(Authenticating)
            - B2N(c \in Authenticating) + B2N(c \in Authenticating')
  BY <1>4, CountsAreFinite, CountOne
<1>7. /\ Cardinality(Held') \in Nat
      /\ Cardinality(Held') = Cardinality(Held) - B2N(c \in Held) + B2N(c \in Held')
  BY <1>4, CountsAreFinite, CountOne
<1>8. counters'.pending = Cardinality(Authenticating') /\ counters'.abandoned = Cardinality(Held')
  BY <1>5, <1>6, <1>7 DEF ConnInv, CountersAreTrue, B2N
<1>9. counters' \in [pending : Nat, abandoned : Nat]
  BY <1>6, <1>7, <1>8
<1> QED BY <1>1, <1>3, <1>8, <1>9 DEF ConnInv, CountersAreTrue

LEMMA ConnFacts ==
    ASSUME ConnInv
    PROVE  /\ Len(revocations) \in 0..MaxRevocations /\ MaxRevocations \in Nat
           /\ counters \in [pending : Nat, abandoned : Nat]
           /\ \A c \in Connections :
                 conns[c] \in ConnectionType /\ ConnHolds(conns[c], c, revocations)
<1>1. Len(revocations) \in Nat /\ Len(revocations) <= MaxRevocations /\ MaxRevocations \in Nat
  BY LenProperties, LifecycleAssumption DEF ConnInv
<1>2. Len(revocations) \in 0..MaxRevocations
  BY <1>1
<1> QED BY <1>1, <1>2 DEF ConnInv, CountersAreTrue

LEMMA GoneFacts ==
    ASSUME NEW c, NEW log, Len(log) \in Nat
    PROVE  /\ Gone \in ConnectionType /\ Gone.phase = "gone" /\ ~Gone.held
           /\ ConnHolds(Gone, c, log)
<1>1. Fresh \in ConnectionType /\ Fresh.held = FALSE /\ Fresh.running = FALSE /\ Fresh.seq = 0
  BY LifecycleAssumption DEF Fresh, ConnectionType
<1>2. /\ Gone \in ConnectionType /\ Gone.phase = "gone" /\ Gone.held = FALSE
      /\ Gone.running = FALSE /\ Gone.seq = 0
  BY <1>1 DEF Gone, ConnectionType
<1> QED BY <1>2 DEF ConnHolds

LEMMA HandshakeStartsKeeps ==
    ASSUME ConnInv, NEW c \in Connections, NEW preview \in BOOLEAN, HandshakeStarts(c, preview)
    PROVE  ConnInv'
<1>1. conns[c].phase = "none" /\ UNCHANGED revocations
  BY DEF HandshakeStarts
<1>2. /\ Len(revocations) \in 0..MaxRevocations /\ MaxRevocations \in Nat
      /\ conns[c] \in ConnectionType /\ ConnHolds(conns[c], c, revocations)
      /\ counters \in [pending : Nat, abandoned : Nat]
  BY ConnFacts
<1>3. ~conns[c].held /\ ~conns[c].running
  BY <1>1, <1>2 DEF ConnHolds
<1>4. CASE preview
  <2> DEFINE conn == [conns[c] EXCEPT !.phase = "accepted", !.seq = Len(revocations)]
  <2>1. /\ conn \in ConnectionType /\ conn.phase = "accepted" /\ conn.seq = Len(revocations)
        /\ conn.held = conns[c].held /\ conn.running = conns[c].running
    BY <1>2 DEF ConnectionType
  <2>2. conns' = [conns EXCEPT ![c] = conn] /\ UNCHANGED counters
    BY <1>4 DEF HandshakeStarts, Set
  <2> HIDE DEF conn
  <2>3. ConnHolds(conn, c, revocations)
    BY <1>2, <1>3, <2>1 DEF ConnHolds
  <2>4. /\ counters' \in [pending : Int, abandoned : Int]
        /\ counters'.pending = counters.pending - B2N(conns[c].phase = "authenticating")
                                                + B2N(conn.phase = "authenticating")
        /\ counters'.abandoned = counters.abandoned - B2N(conns[c].held) + B2N(conn.held)
    BY <1>1, <1>2, <1>3, <2>1, <2>2 DEF B2N
  <2> QED BY <1>1, <2>1, <2>2, <2>3, <2>4, ConnectionStep
<1>5. CASE ~preview
  <2> DEFINE conn == [conns[c] EXCEPT !.phase = "authenticating", !.running = TRUE,
                                      !.seq = Len(revocations)]
  <2>1. /\ conn \in ConnectionType /\ conn.phase = "authenticating" /\ conn.seq = Len(revocations)
        /\ conn.held = conns[c].held /\ conn.running = TRUE
    BY <1>2 DEF ConnectionType
  <2>2. conns' = [conns EXCEPT ![c] = conn] /\ counters' = [counters EXCEPT !.pending = @ + 1]
    BY <1>5 DEF HandshakeStarts, Set
  <2> HIDE DEF conn
  <2>3. ConnHolds(conn, c, revocations)
    BY <1>2, <1>3, <2>1 DEF ConnHolds
  <2>4. /\ counters' \in [pending : Int, abandoned : Int]
        /\ counters'.pending = counters.pending + 1 /\ counters'.abandoned = counters.abandoned
    BY <1>2, <2>2
  <2>5. /\ counters' \in [pending : Int, abandoned : Int]
        /\ counters'.pending = counters.pending - B2N(conns[c].phase = "authenticating")
                                                + B2N(conn.phase = "authenticating")
        /\ counters'.abandoned = counters.abandoned - B2N(conns[c].held) + B2N(conn.held)
    BY <1>1, <1>2, <1>3, <2>1, <2>4 DEF B2N
  <2> QED BY <1>1, <2>1, <2>2, <2>3, <2>5, ConnectionStep
<1> QED BY <1>4, <1>5

\* The end of a call, whoever waited for it: it is not counted any more.
LEMMA CallEnds ==
    ASSUME ConnInv, NEW c \in Connections, conns[c].running,
           NEW conn \in ConnectionType, ConnHolds(conn, c, revocations),
           conn.phase # "authenticating", ~conn.held,
           UNCHANGED revocations, conns' = [conns EXCEPT ![c] = conn],
           counters' = [pending |-> counters.pending
                            - (IF conns[c].phase = "authenticating" THEN 1 ELSE 0),
                        abandoned |-> counters.abandoned - (IF conns[c].held THEN 1 ELSE 0)]
    PROVE  ConnInv'
<1>1. counters \in [pending : Nat, abandoned : Nat]
  BY ConnFacts
<1>2. /\ counters' \in [pending : Int, abandoned : Int]
      /\ counters'.pending = counters.pending - B2N(conns[c].phase = "authenticating")
                                              + B2N(conn.phase = "authenticating")
      /\ counters'.abandoned = counters.abandoned - B2N(conns[c].held) + B2N(conn.held)
  BY <1>1 DEF B2N
<1> QED BY <1>2, ConnectionStep

LEMMA CallSettlesKeeps ==
    ASSUME ConnInv, NEW c \in Connections, NEW accepted \in BOOLEAN, CallSettles(c, accepted)
    PROVE  ConnInv'
<1>1. conns[c].running /\ UNCHANGED revocations
  BY DEF CallSettles
<1>2. /\ Len(revocations) \in 0..MaxRevocations
      /\ conns[c] \in ConnectionType /\ ConnHolds(conns[c], c, revocations)
  BY ConnFacts
<1>3. PICK conn : /\ conns' = [conns EXCEPT ![c] = conn]
                  /\ \/ conns[c].phase = "authenticating"
                        /\ conn = [conns[c] EXCEPT !.phase = "accepted", !.running = FALSE]
                     \/ conn = Gone
  BY DEF CallSettles, Set
<1>4. conn \in ConnectionType /\ ConnHolds(conn, c, revocations) /\ conn.phase # "authenticating" /\ ~conn.held
  <2>1. CASE conn = Gone
    BY <1>2, <2>1, GoneFacts
  <2>2. CASE /\ conns[c].phase = "authenticating"
             /\ conn = [conns[c] EXCEPT !.phase = "accepted", !.running = FALSE]
    <3>1. /\ conn \in ConnectionType /\ conn.phase = "accepted" /\ conn.running = FALSE
          /\ conn.seq = conns[c].seq /\ conn.held = conns[c].held
      BY <1>2, <2>2 DEF ConnectionType
    <3>2. ~conns[c].held /\ conns[c].seq <= Len(revocations)
      BY <1>2, <2>2 DEF ConnHolds
    <3> QED BY <3>1, <3>2 DEF ConnHolds
  <2> QED BY <1>3, <2>1, <2>2
<1>5. counters' = [pending |-> counters.pending
                      - (IF conns[c].phase = "authenticating" THEN 1 ELSE 0),
                   abandoned |-> counters.abandoned - (IF conns[c].held THEN 1 ELSE 0)]
  BY DEF CallSettles
<1> QED BY <1>1, <1>3, <1>4, <1>5, CallEnds

LEMMA CallTimesOutKeeps ==
    ASSUME ConnInv, NEW c \in Connections, CallTimesOut(c) PROVE ConnInv'
<1>1. conns[c].running /\ UNCHANGED revocations /\ conns' = [conns EXCEPT ![c] = Gone]
  BY DEF CallTimesOut, Set
<1>2. Gone \in ConnectionType /\ ConnHolds(Gone, c, revocations) /\ Gone.phase = "gone" /\ ~Gone.held
  BY ConnFacts, GoneFacts
<1>3. counters' = [pending |-> counters.pending
                      - (IF conns[c].phase = "authenticating" THEN 1 ELSE 0),
                   abandoned |-> counters.abandoned - (IF conns[c].held THEN 1 ELSE 0)]
  BY DEF CallTimesOut
<1>4. PICK conn : conn = Gone
  OBVIOUS
<1> QED BY <1>1, <1>2, <1>3, <1>4, CallEnds

\* A client that leaves its handshake leaves the call behind.
LEMMA ClientLeavesKeeps ==
    ASSUME ConnInv, NEW c \in Connections, ClientLeaves(c) PROVE ConnInv'
<1> DEFINE waited == conns[c].phase = "authenticating"
<1>1. conns[c].phase \in {"authenticating", "open"} /\ UNCHANGED revocations
  BY DEF ClientLeaves
<1>2. /\ Len(revocations) \in 0..MaxRevocations /\ MaxRevocations \in Nat
      /\ conns[c] \in ConnectionType /\ ConnHolds(conns[c], c, revocations)
      /\ counters \in [pending : Nat, abandoned : Nat]
  BY ConnFacts
<1>3. PICK held \in BOOLEAN : held = waited
  OBVIOUS
<1> DEFINE conn == [conns[c] EXCEPT !.phase = "gone", !.held = held, !.seq = 0, !.closing = FALSE]
<1>4. /\ conn \in ConnectionType /\ conn.phase = "gone" /\ conn.held = held
      /\ conn.seq = 0 /\ conn.running = conns[c].running
  <2>1. conns[c] \in ConnectionType /\ MaxRevocations \in Nat /\ held \in BOOLEAN
    BY <1>2
  <2>2. conn.phase = "gone" /\ conn.seq = 0 /\ conn.running = conns[c].running
    BY <2>1 DEF ConnectionType
  <2>3. conn.held = held
    <3>1. CASE held = TRUE
      BY <2>1, <3>1 DEF ConnectionType
    <3>2. CASE held = FALSE
      BY <2>1, <3>2 DEF ConnectionType
    <3> QED BY <3>1, <3>2
  <2>4. conn \in ConnectionType
    <3> DEFINE ended == [conns[c] EXCEPT !.phase = "gone", !.closing = FALSE]
               left == [ended EXCEPT !.seq = 0]
    <3>1. ended \in ConnectionType
      BY <2>1 DEF ConnectionType
    <3> HIDE DEF ended
    <3>2. left \in ConnectionType
      BY <2>1, <3>1 DEF ConnectionType
    <3> USE DEF ended
    <3>3. conn = [left EXCEPT !.held = held]
      BY <2>1 DEF ConnectionType
    <3> HIDE DEF left, conn
    <3> QED BY <2>1, <3>2, <3>3 DEF ConnectionType
  <2> QED BY <2>2, <2>3, <2>4
<1>5. conns' = [conns EXCEPT ![c] = conn]
  <2>1. Set(c, [conns[c] EXCEPT !.phase = "gone", !.held = waited, !.seq = 0, !.closing = FALSE])
    BY DEF ClientLeaves
  <2> QED BY <1>3, <2>1 DEF Set
<1> HIDE DEF conn
<1>6. conns[c].held = FALSE /\ (held => conns[c].running) /\ (conns[c].running => held)
  BY <1>1, <1>2, <1>3 DEF ConnHolds, ConnectionType
<1>7. ConnHolds(conn, c, revocations)
  BY <1>2, <1>4, <1>6 DEF ConnHolds
<1>8. /\ counters' \in [pending : Int, abandoned : Int]
      /\ counters'.pending = counters.pending - B2N(conns[c].phase = "authenticating")
                                              + B2N(conn.phase = "authenticating")
      /\ counters'.abandoned = counters.abandoned - B2N(conns[c].held) + B2N(conn.held)
  <2>1. CASE waited
    <3>1. counters' = [pending |-> counters.pending - 1, abandoned |-> counters.abandoned + 1]
      BY <2>1 DEF ClientLeaves
    <3>2. held = TRUE
      BY <1>3, <2>1
    <3> QED BY <1>2, <1>4, <1>6, <2>1, <3>1, <3>2 DEF B2N
  <2>2. CASE ~waited
    <3>1. UNCHANGED counters
      BY <2>2 DEF ClientLeaves
    <3>2. held = FALSE
      BY <1>3, <2>2
    <3> QED BY <1>2, <1>4, <1>6, <2>2, <3>1, <3>2 DEF B2N
  <2> QED BY <2>1, <2>2
<1> QED BY <1>1, <1>4, <1>5, <1>7, <1>8, ConnectionStep

\* A revocation since the handshake began closes the session.
LEMMA OpenSessionKeeps ==
    ASSUME ConnInv, NEW c \in Connections, OpenSession(c) PROVE ConnInv'
<1> DEFINE conn == [conns[c] EXCEPT !.phase = "open", !.closing = MustClose(c)]
<1>1. conns[c].phase = "accepted" /\ UNCHANGED <<counters, revocations>>
  BY DEF OpenSession
<1>2. /\ conns[c] \in ConnectionType /\ ConnHolds(conns[c], c, revocations)
      /\ counters \in [pending : Nat, abandoned : Nat]
  BY ConnFacts
<1>3. MustClose(c) \in BOOLEAN
  BY DEF MustClose
<1>4. /\ conn \in ConnectionType /\ conn.phase = "open" /\ conn.closing = MustClose(c)
      /\ conn.seq = conns[c].seq /\ conn.running = conns[c].running /\ conn.held = conns[c].held
  BY <1>2, <1>3 DEF ConnectionType
<1>5. conns' = [conns EXCEPT ![c] = conn]
  BY DEF OpenSession, Set
<1> HIDE DEF conn
<1>6. Since(conn, c, revocations) => MustClose(c)
  BY <1>4 DEF Since, MustClose, RevokedSince
<1>7. ~conns[c].held /\ ~conns[c].running
  BY <1>1, <1>2 DEF ConnHolds
<1>8. ConnHolds(conn, c, revocations)
  BY <1>2, <1>4, <1>6, <1>7 DEF ConnHolds
<1>9. /\ counters' \in [pending : Int, abandoned : Int]
      /\ counters'.pending = counters.pending - B2N(conns[c].phase = "authenticating")
                                              + B2N(conn.phase = "authenticating")
      /\ counters'.abandoned = counters.abandoned - B2N(conns[c].held) + B2N(conn.held)
  BY <1>1, <1>2, <1>4, <1>7 DEF B2N
<1> QED BY <1>1, <1>4, <1>5, <1>8, <1>9, ConnectionStep

LEMMA SessionClosesKeeps ==
    ASSUME ConnInv, NEW c \in Connections, SessionCloses(c) PROVE ConnInv'
<1>1. conns[c].phase = "open" /\ UNCHANGED <<counters, revocations>> /\ conns' = [conns EXCEPT ![c] = Gone]
  BY DEF SessionCloses, Set
<1>2. Gone \in ConnectionType /\ ConnHolds(Gone, c, revocations) /\ Gone.phase = "gone" /\ ~Gone.held
  BY ConnFacts, GoneFacts
<1>3. ~conns[c].held /\ counters \in [pending : Nat, abandoned : Nat]
  BY <1>1, ConnFacts DEF ConnHolds
<1>4. PICK conn : conn = Gone
  OBVIOUS
<1>5. /\ counters' \in [pending : Int, abandoned : Int]
      /\ counters'.pending = counters.pending - B2N(conns[c].phase = "authenticating")
                                              + B2N(conn.phase = "authenticating")
      /\ counters'.abandoned = counters.abandoned - B2N(conns[c].held) + B2N(conn.held)
  BY <1>1, <1>2, <1>3, <1>4 DEF B2N
<1> QED BY <1>1, <1>2, <1>4, <1>5, ConnectionStep

\* A revocation closes the sessions it matches; the others it does not concern.
LEMMA RevokeKeeps ==
    ASSUME ConnInv, NEW matched \in SUBSET Connections, Revoke(matched) PROVE ConnInv'
<1>1. UNCHANGED counters /\ Len(revocations) < MaxRevocations
      /\ revocations' = Append(revocations, matched)
  BY DEF Revoke
<1>2. revocations \in Seq(SUBSET Connections)
  BY DEF ConnInv
<1>3. /\ revocations' \in Seq(SUBSET Connections) /\ Len(revocations') = Len(revocations) + 1
      /\ revocations'[Len(revocations) + 1] = matched
      /\ \A i \in 1..Len(revocations) : revocations'[i] = revocations[i]
  BY <1>1, <1>2, AppendProperties
<1>4. Len(revocations) \in Nat /\ Len(revocations') \in Nat /\ Len(revocations') <= MaxRevocations
  BY <1>1, <1>3, ConnFacts
<1>5. ASSUME NEW c \in Connections
      PROVE  /\ conns'[c] \in ConnectionType /\ ConnHolds(conns'[c], c, revocations')
             /\ conns'[c].phase = "authenticating" <=> conns[c].phase = "authenticating"
             /\ conns'[c].held <=> conns[c].held
  <2>1. conns[c] \in ConnectionType /\ ConnHolds(conns[c], c, revocations)
    BY ConnFacts
  <2>2. CASE c \in matched /\ conns[c].phase = "open"
    <3>1. conns'[c] = Gone /\ ~conns[c].held
      BY <2>1, <2>2 DEF Revoke, ConnHolds
    <3> QED BY <1>4, <2>2, <3>1, GoneFacts
  <2>3. CASE ~(c \in matched /\ conns[c].phase = "open")
    <3>1. conns'[c] = conns[c]
      BY <2>3 DEF Revoke
    <3>2. conns[c].phase = "open" /\ Since(conns[c], c, revocations') => Since(conns[c], c, revocations)
      <4> SUFFICES ASSUME conns[c].phase = "open", NEW i \in (conns[c].seq + 1)..Len(revocations'),
                          c \in revocations'[i]
                   PROVE  Since(conns[c], c, revocations)
        BY DEF Since
      <4>1. c \notin matched /\ conns[c].seq \in Nat
        BY <2>1, <2>3 DEF ConnectionType
      <4>2. i # Len(revocations) + 1
        BY <1>3, <4>1
      <4>3. i \in (conns[c].seq + 1)..Len(revocations) /\ i \in 1..Len(revocations)
        BY <1>3, <1>4, <4>1, <4>2
      <4>4. c \in revocations[i]
        BY <1>3, <4>3
      <4> QED BY <4>3, <4>4 DEF Since
    <3>3. conns[c].seq <= Len(revocations')
      BY <1>3, <1>4, <2>1 DEF ConnHolds, ConnectionType
    <3> QED BY <2>1, <3>1, <3>2, <3>3 DEF ConnHolds
  <2> QED BY <2>2, <2>3
<1>6. conns' \in [Connections -> ConnectionType]
  BY <1>5 DEF Revoke
<1>7. Authenticating' = Authenticating /\ Held' = Held
  BY <1>5 DEF Authenticating, Held
<1> QED BY <1>1, <1>3, <1>4, <1>5, <1>6, <1>7 DEF ConnInv, CountersAreTrue

\* When the gateway stops, every call that a handshake waited for is abandoned.
LEMMA StopBeginsKeeps ==
    ASSUME ConnInv, NEW l, StopBegins(l), UNCHANGED revocations PROVE ConnInv'
<1>1. /\ conns' = ConnectionsStopped
      /\ counters' = [pending |-> 0,
                      abandoned |-> counters.abandoned
                          + Cardinality({c \in Open("authenticating") : conns[c].running})]
  BY DEF StopBegins
<1>2. Len(revocations) \in Nat /\ MaxRevocations \in Nat /\ counters \in [pending : Nat, abandoned : Nat]
  BY ConnFacts
<1>3. ASSUME NEW c \in Connections
      PROVE  /\ conns'[c] \in ConnectionType /\ ConnHolds(conns'[c], c, revocations')
             /\ conns'[c].phase # "authenticating"
             /\ conns'[c].held <=> conns[c].held \/ conns[c].phase = "authenticating"
  <2>1. conns[c] \in ConnectionType /\ ConnHolds(conns[c], c, revocations)
    BY ConnFacts
  <2>2. CASE conns[c].phase = "open"
    <3>1. conns'[c] = Gone
      BY <1>1, <2>2 DEF ConnectionsStopped
    <3>2. ~conns[c].held
      BY <2>1, <2>2 DEF ConnHolds
    <3> QED BY <1>2, <2>2, <3>1, <3>2, GoneFacts
  <2>3. CASE conns[c].phase = "authenticating"
    <3>1. conns'[c] = [conns[c] EXCEPT !.phase = "gone", !.held = conns[c].running, !.seq = 0]
      BY <1>1, <2>3 DEF ConnectionsStopped
    <3>2. conns[c].running = TRUE
      BY <2>1, <2>3 DEF ConnHolds, ConnectionType
    <3> DEFINE left == [conns[c] EXCEPT !.phase = "gone", !.held = TRUE]
    <3>3. /\ left \in ConnectionType /\ left.phase = "gone" /\ left.held = TRUE
          /\ left.running = conns[c].running
      BY <2>1 DEF ConnectionType
    <3>4. conns'[c] = [left EXCEPT !.seq = 0]
      BY <2>1, <3>1, <3>2 DEF ConnectionType
    <3> HIDE DEF left
    <3>5. /\ conns'[c] \in ConnectionType /\ conns'[c].phase = "gone" /\ conns'[c].held = TRUE
          /\ conns'[c].running = TRUE /\ conns'[c].seq = 0
      BY <1>2, <3>2, <3>3, <3>4 DEF ConnectionType
    <3> QED BY <1>2, <2>3, <3>5 DEF ConnHolds
  <2>4. CASE conns[c].phase \notin {"open", "authenticating"}
    <3>1. conns'[c] = conns[c]
      BY <1>1, <2>4 DEF ConnectionsStopped
    <3> QED BY <2>1, <2>4, <3>1
  <2> QED BY <2>2, <2>3, <2>4
<1>4. conns' \in [Connections -> ConnectionType]
  BY <1>1, <1>3 DEF ConnectionsStopped
<1>5. Authenticating' = {} /\ Held' = Held \cup Authenticating /\ Held \cap Authenticating = {}
  <2>1. \A c \in Connections : conns[c].phase = "authenticating" => ~conns[c].held
    BY ConnFacts DEF ConnHolds
  <2> QED BY <1>3, <2>1 DEF Authenticating, Held
<1>6. {c \in Open("authenticating") : conns[c].running} = Authenticating
  BY ConnFacts DEF Open, Authenticating, ConnHolds
<1>7. /\ Cardinality(Held') = Cardinality(Held) + Cardinality(Authenticating)
      /\ Cardinality(Held) \in Nat /\ Cardinality(Authenticating) \in Nat
      /\ Cardinality(Authenticating') = 0
  <2>1. Cardinality(Held \cap Authenticating) = 0 /\ Cardinality(Authenticating') = 0
    BY <1>5, FS_EmptySet
  <2>2. Cardinality(Held) \in Nat /\ Cardinality(Authenticating) \in Nat
    BY CountsAreFinite, FS_CardinalityType
  <2>3. Cardinality(Held \cup Authenticating)
           = Cardinality(Held) + Cardinality(Authenticating) - Cardinality(Held \cap Authenticating)
    BY CountsAreFinite, FS_Union
  <2> QED BY <1>5, <2>1, <2>2, <2>3
<1>8. CountersAreTrue'
  <2>1. counters.abandoned = Cardinality(Held)
    BY DEF ConnInv, CountersAreTrue
  <2>2. counters' = [pending |-> 0, abandoned |-> Cardinality(Held) + Cardinality(Authenticating)]
    BY <1>1, <1>6, <2>1
  <2> QED BY <1>7, <2>2 DEF CountersAreTrue
<1>9. revocations' \in Seq(SUBSET Connections) /\ Len(revocations') <= MaxRevocations
  BY DEF ConnInv
<1> QED BY <1>3, <1>4, <1>8, <1>9 DEF ConnInv

LEMMA ConnStarts == LifeInit => ConnInv
<1> SUFFICES ASSUME LifeInit PROVE ConnInv
  OBVIOUS
<1>1. /\ Fresh \in ConnectionType /\ Fresh.phase = "none" /\ Fresh.held = FALSE
      /\ Fresh.running = FALSE /\ Fresh.seq = 0
  BY LifecycleAssumption DEF Fresh, ConnectionType
<1>2. conns = [c \in Connections |-> Fresh] /\ revocations = << >>
      /\ counters = [pending |-> 0, abandoned |-> 0]
  BY DEF LifeInit
<1>3. revocations \in Seq(SUBSET Connections) /\ Len(revocations) = 0 /\ MaxRevocations \in Nat
  BY <1>2, EmptySeq, LifecycleAssumption
<1>4. \A c \in Connections : ConnHolds(conns[c], c, revocations)
  BY <1>1, <1>2, <1>3 DEF ConnHolds
<1>5. Authenticating = {} /\ Held = {}
  BY <1>1, <1>2 DEF Authenticating, Held
<1>6. CountersAreTrue
  BY <1>2, <1>5, FS_EmptySet DEF CountersAreTrue
<1> QED BY <1>1, <1>2, <1>3, <1>4, <1>6 DEF ConnInv

LEMMA ConnSteps == ConnInv /\ [LifeNext]_lifeVars => ConnInv'
<1> SUFFICES ASSUME ConnInv, [LifeNext]_lifeVars PROVE ConnInv'
  OBVIOUS
<1>1. ASSUME UNCHANGED <<conns, counters, revocations>> PROVE ConnInv'
  BY <1>1 DEF ConnInv, CountersAreTrue, Authenticating, Held
<1>2. CASE UNCHANGED lifeVars \/ Start \/ StopExpires \/ StartMoves
           \/ StopStep \/ StopEnds \/ \E now \in StatusType : SourceReports(now)
  BY <1>1, <1>2 DEF lifeVars, Start, StopExpires, StartMoves, RollbackStep, StartStep, StopStep,
                    StopEnds, SourceReports
<1>3. CASE Stop
  <2>1. CASE Starting
    BY <1>1, <1>3, <2>1 DEF Stop
  <2>2. CASE ~Starting
    <3>1. StopBegins(life) /\ UNCHANGED revocations
      BY <1>3, <2>2 DEF Stop
    <3> QED BY <3>1, StopBeginsKeeps
  <2> QED BY <2>1, <2>2
<1>4. CASE StopProceeds
  <2>1. StopBegins(life) /\ UNCHANGED revocations
    BY <1>4 DEF StopProceeds
  <2> QED BY <2>1, StopBeginsKeeps
<1>5. CASE ConnectionMoves
  BY <1>5, HandshakeStartsKeeps, CallSettlesKeeps, CallTimesOutKeeps, ClientLeavesKeeps,
     OpenSessionKeeps, SessionClosesKeeps, RevokeKeeps DEF ConnectionMoves
<1> QED BY <1>2, <1>3, <1>4, <1>5 DEF LifeNext, StopMoves

\* The invariant of the connections: what the two counters count, and what a revocation leaves.
THEOREM ConnectionInvariant == LifeSpec => []ConnInv
BY ConnStarts, ConnSteps, PTL DEF LifeSpec

\* gateway.ts:656: wherever a revocation lands between a handshake's start and its session, the
\* session is closed at once, or by the microtask that its opening left.
THEOREM RevokedAreClosed == LifeSpec => []RevokedIsClosed
<1>1. ConnInv => RevokedIsClosed
  BY DEF ConnInv, ConnHolds, RevokedIsClosed, RevokedSince, Since, Open
<1> QED BY <1>1, ConnectionInvariant, PTL

-----------------------------------------------------------------------------
(* Starting, rolling back and stopping.                                    *)

PartsType ==
    /\ config \in [failures : BOOLEAN, obligations : BOOLEAN, heldAtStart : BOOLEAN]
    /\ life \in LifeType /\ parts \in [Parts -> BOOLEAN] /\ source \in StatusType
    /\ overtaken \in BOOLEAN

LEMMA Orders ==
    /\ Len(StartSteps) = 6 /\ Len(RollbackOrder) = 5 /\ Len(StopOrder) = 5
    /\ DOMAIN StopOrder = 1..5
    /\ StartSteps[1] = "health" /\ StartSteps[2] = "connections" /\ StartSteps[3] = "failures"
    /\ StartSteps[4] = "http" /\ StartSteps[5] = "adapters" /\ StartSteps[6] = "socket"
    /\ RollbackOrder[1] = "socket" /\ RollbackOrder[2] = "health" /\ RollbackOrder[3] = "adapters"
    /\ RollbackOrder[4] = "failures" /\ RollbackOrder[5] = "http"
    /\ StopOrder[1] = "health" /\ StopOrder[2] = "socket" /\ StopOrder[3] = "adapters"
    /\ StopOrder[4] = "failures" /\ StopOrder[5] = "http"
BY DEF StartSteps, RollbackOrder, StopOrder

LifeStates == {"idle", "starting", "running", "stopping", "stopped"}
LEMMA LifeFacts ==
    LifeType = [state : LifeStates, start : 0..6, undo : 0..5,
                stop : {"none", "waiting", "working", "done"}, work : 0..6,
                adopted : BOOLEAN, aborted : BOOLEAN]
<1>1. Len(StopOrder) + 1 = 6 /\ Len(StartSteps) = 6 /\ Len(RollbackOrder) = 5
  BY Orders
<1> QED BY <1>1 DEF LifeType, LifeStates

LEMMA OpensFacts ==
    ASSUME PartsType, NEW step
    PROVE  /\ StepOpens(step) \in [Parts -> BOOLEAN]
           /\ \A q \in Parts : StepOpens(step)[q] =
                 CASE step = "http" /\ q \in {"http", "adapters"} -> TRUE
                   [] step = "failures" /\ q = "failures" -> config.failures
                   [] step = "socket" /\ q = "socket" -> config.failures
                   [] step = "health" /\ q = "health" -> TRUE
                   [] OTHER -> parts[q]
<1>1. parts \in [Parts -> BOOLEAN] /\ config.failures \in BOOLEAN
  BY DEF PartsType
<1>2. CASE step = "http"
  BY <1>1, <1>2 DEF StepOpens, Parts
<1>3. CASE step = "failures"
  BY <1>1, <1>3 DEF StepOpens, Parts
<1>4. CASE step = "socket"
  BY <1>1, <1>4 DEF StepOpens, Parts
<1>5. CASE step = "health"
  BY <1>1, <1>5 DEF StepOpens, Parts
<1>6. CASE step \notin {"http", "failures", "socket", "health"}
  BY <1>1, <1>6 DEF StepOpens, Parts
<1> QED BY <1>2, <1>3, <1>4, <1>5, <1>6

\* Which phases exclude which, and what is open in each, while no stop has given up on a start.
Phased ==
    /\ life.start # 0 => life.undo = 0
    /\ Starting <=> life.state = "starting"
    /\ life.stop \in {"none", "waiting"} <=> life.work = 0
    /\ life.work # 0 <=> life.state \in {"stopping", "stopped"}
    /\ config.failures =>
          /\ parts.adapters \/ parts.socket => parts.failures
          /\ life.start >= 4 \/ life.state = "running" => parts.failures
    /\ life.start \in 1..4 \/ life.undo > 3 \/ life.work > 3 \/ life.state = "idle" => ~parts.adapters
    /\ life.start # 0 \/ life.undo > 1 \/ life.work > 2 \/ life.state = "idle" => ~parts.socket

\* The inductive invariant of the parts.
PartsInv == PartsType /\ (overtaken \/ Phased)

\* The fields of life, typed.
LEMMA LifeFields ==
    ASSUME PartsType
    PROVE  /\ life.state \in LifeStates /\ life.start \in 0..6 /\ life.undo \in 0..5
           /\ life.stop \in {"none", "waiting", "working", "done"} /\ life.work \in 0..6
           /\ "adapters" \in Parts /\ "socket" \in Parts /\ "failures" \in Parts
           /\ parts \in [Parts -> BOOLEAN] /\ config.failures \in BOOLEAN
BY LifeFacts DEF PartsType, Parts

\* The parts that reach the journal, and the journal, after one part was released.
LEMMA UsersReleased ==
    ASSUME PartsType, NEW r, parts' = Released(r)
    PROVE  /\ parts' \in [Parts -> BOOLEAN]
           /\ parts'.adapters = IF r = "adapters" THEN FALSE ELSE parts.adapters
           /\ parts'.socket = IF r = "socket" THEN FALSE ELSE parts.socket
           /\ parts'.failures = IF r = "failures" THEN FALSE ELSE parts.failures
<1>1. parts \in [Parts -> BOOLEAN] /\ parts' = [parts EXCEPT ![r] = FALSE]
  BY LifeFields DEF Released
<1>2. parts' \in [Parts -> BOOLEAN]
  BY <1>1
<1>3. parts'["adapters"] = IF r = "adapters" THEN FALSE ELSE parts["adapters"]
  BY <1>1 DEF Parts
<1>4. parts'["socket"] = IF r = "socket" THEN FALSE ELSE parts["socket"]
  BY <1>1 DEF Parts
<1>5. parts'["failures"] = IF r = "failures" THEN FALSE ELSE parts["failures"]
  BY <1>1 DEF Parts
<1> QED BY <1>2, <1>3, <1>4, <1>5

LEMMA StartKeeps == ASSUME PartsInv, Start PROVE PartsInv'
<1>1. /\ life' = [life EXCEPT !.state = "starting", !.start = 1]
      /\ life.state = "idle" /\ ~Starting
      /\ UNCHANGED <<overtaken, config, parts, source>>
  BY DEF Start
<1>2. PartsType /\ life \in LifeType
  BY DEF PartsInv, PartsType
<1>3. /\ life' \in LifeType /\ life'.state = "starting" /\ life'.start = 1 /\ life'.undo = life.undo
      /\ life'.stop = life.stop /\ life'.work = life.work
  <2> DEFINE mid == [life EXCEPT !.state = "starting"]
  <2>1. /\ mid \in LifeType /\ mid.state = "starting" /\ mid.undo = life.undo
        /\ mid.stop = life.stop /\ mid.work = life.work
    BY <1>2, LifeFacts DEF LifeStates
  <2>2. life' = [mid EXCEPT !.start = 1]
    BY <1>1
  <2> HIDE DEF mid
  <2> QED BY <2>1, <2>2, LifeFacts
<1>4. ASSUME ~overtaken' PROVE Phased'
  <2>1. Phased
    BY <1>1, <1>4 DEF PartsInv
  <2> QED BY <1>1, <1>2, <1>3, <2>1, LifeFields DEF Phased, Starting
<1> QED BY <1>1, <1>2, <1>3, <1>4 DEF PartsInv, PartsType

\* A step of the start opens its part, or begins the rollback.
LEMMA StartStepKeeps == ASSUME PartsInv, NEW ok \in BOOLEAN, StartStep(ok) PROVE PartsInv'
<1> DEFINE step == StartSteps[life.start]
<1>1. PartsType /\ life \in LifeType /\ life.start # 0 /\ UNCHANGED <<config, overtaken>>
  BY DEF PartsInv, PartsType, StartStep
<1>2. CASE ~(ok /\ ~StepRefused(step))
  <2>1. life' = BeginRollback(life) /\ UNCHANGED <<parts, source>>
    BY <1>2 DEF StartStep
  <2>2. life' = [life EXCEPT !.start = 0, !.undo = 1]
    BY <2>1 DEF BeginRollback
  <2>3. /\ life' \in LifeType /\ life'.state = life.state /\ life'.start = 0 /\ life'.undo = 1
        /\ life'.stop = life.stop /\ life'.work = life.work
    <3> DEFINE mid == [life EXCEPT !.start = 0]
    <3>1. /\ mid \in LifeType /\ mid.state = life.state /\ mid.start = 0
          /\ mid.stop = life.stop /\ mid.work = life.work
      BY <1>1, LifeFacts
    <3>2. life' = [mid EXCEPT !.undo = 1]
      BY <2>2
    <3> HIDE DEF mid
    <3> QED BY <3>1, <3>2, LifeFacts
  <2>4. ASSUME ~overtaken' PROVE Phased'
    <3>1. Phased
      BY <1>1, <2>4 DEF PartsInv
    <3> QED BY <1>1, <2>1, <2>3, <3>1, LifeFields DEF Phased, Starting
  <2> QED BY <1>1, <2>1, <2>3, <2>4 DEF PartsInv, PartsType
<1>3. CASE ok /\ ~StepRefused(step)
  <2>1. /\ parts' = StepOpens(step)
        /\ life' = IF life.start = Len(StartSteps)
                   THEN [life EXCEPT !.start = 0, !.state = "running", !.adopted = TRUE]
                   ELSE [life EXCEPT !.start = life.start + 1]
        /\ source' = IF step = "http" THEN IF config.heldAtStart THEN "paused" ELSE "starting"
                     ELSE source
    BY <1>3 DEF StartStep
  <2>2. source' \in StatusType
    BY <1>1, <2>1 DEF PartsType, StatusType
  <2>3. parts' \in [Parts -> BOOLEAN]
    BY <1>1, <2>1, OpensFacts
  <2>4. CASE life.start = 6
    <3>1. life' = [life EXCEPT !.start = 0, !.state = "running", !.adopted = TRUE]
      BY <2>1, <2>4, Orders
    <3>2. /\ life' \in LifeType /\ life'.state = "running" /\ life'.start = 0 /\ life'.undo = life.undo
          /\ life'.stop = life.stop /\ life'.work = life.work
      <4> DEFINE mid == [life EXCEPT !.start = 0]
                 end == [mid EXCEPT !.state = "running"]
      <4>1. /\ mid \in LifeType /\ mid.start = 0 /\ mid.undo = life.undo
            /\ mid.stop = life.stop /\ mid.work = life.work
        BY <1>1, LifeFacts
      <4> HIDE DEF mid
      <4>2. /\ end \in LifeType /\ end.state = "running" /\ end.start = 0 /\ end.undo = life.undo
            /\ end.stop = life.stop /\ end.work = life.work
        BY <4>1, LifeFacts DEF LifeStates
      <4>3. life' = [end EXCEPT !.adopted = TRUE]
        BY <3>1 DEF mid
      <4> HIDE DEF end
      <4> QED BY <4>2, <4>3, LifeFacts
    <3>3. step = "socket"
      BY <2>4, Orders
    <3>4. /\ parts'.socket = config.failures /\ parts'.adapters = parts.adapters
          /\ parts'.failures = parts.failures
      BY <1>1, <2>1, <3>3, OpensFacts DEF Parts
    <3>5. ASSUME ~overtaken' PROVE Phased'
      <4>1. Phased
        BY <1>1, <3>5 DEF PartsInv
      <4> QED BY <1>1, <2>4, <3>2, <3>4, <4>1, LifeFields DEF Phased, Starting
    <3> QED BY <1>1, <2>2, <2>3, <3>2, <3>5 DEF PartsInv, PartsType
  <2>5. CASE life.start # 6
    <3>1. life' = [life EXCEPT !.start = life.start + 1] /\ life.start \in 1..5
      BY <1>1, <2>1, <2>5, Orders, LifeFields
    <3>2. /\ life' \in LifeType /\ life'.state = life.state /\ life'.start = life.start + 1
          /\ life'.undo = life.undo /\ life'.stop = life.stop /\ life'.work = life.work
      BY <1>1, <3>1, LifeFacts
    <3>3. ASSUME ~overtaken' PROVE Phased'
      <4>1. Phased
        BY <1>1, <3>3 DEF PartsInv
      <4>2. CASE life.start = 3
        <5>1. step = "failures"
          BY <4>2, Orders
        <5>2. /\ parts'.failures = config.failures /\ parts'.adapters = parts.adapters
              /\ parts'.socket = parts.socket
          BY <1>1, <2>1, <5>1, OpensFacts DEF Parts
        <5> QED BY <1>1, <3>2, <4>1, <4>2, <5>2, LifeFields DEF Phased, Starting
      <4>3. CASE life.start = 4
        <5>1. step = "http"
          BY <4>3, Orders
        <5>2. parts'.failures = parts.failures /\ parts'.socket = parts.socket
          BY <1>1, <2>1, <5>1, OpensFacts DEF Parts
        <5> QED BY <1>1, <3>2, <4>1, <4>3, <5>2, LifeFields DEF Phased, Starting
      <4>4. CASE life.start \in {1, 2, 5}
        <5>1. step \in {"health", "connections", "adapters"}
          BY <4>4, Orders
        <5>2. /\ parts'.failures = parts.failures /\ parts'.socket = parts.socket
              /\ parts'.adapters = parts.adapters
          BY <1>1, <2>1, <5>1, OpensFacts DEF Parts
        <5> QED BY <1>1, <3>2, <4>1, <4>4, <5>2, LifeFields DEF Phased, Starting
      <4> QED BY <3>1, <4>2, <4>3, <4>4
    <3> QED BY <1>1, <2>2, <2>3, <3>2, <3>3 DEF PartsInv, PartsType
  <2> QED BY <2>4, <2>5
<1> QED BY <1>2, <1>3

LEMMA RollbackStepKeeps == ASSUME PartsInv, RollbackStep PROVE PartsInv'
<1> DEFINE part == RollbackOrder[life.undo]
<1>1. /\ PartsType /\ life \in LifeType /\ life.undo # 0 /\ UNCHANGED <<config, overtaken>>
      /\ parts' = Released(part)
  BY DEF PartsInv, PartsType, RollbackStep
<1>2. /\ parts' \in [Parts -> BOOLEAN]
      /\ parts'.adapters = IF part = "adapters" THEN FALSE ELSE parts.adapters
      /\ parts'.socket = IF part = "socket" THEN FALSE ELSE parts.socket
      /\ parts'.failures = IF part = "failures" THEN FALSE ELSE parts.failures
  <2> HIDE DEF part
  <2> QED BY <1>1, UsersReleased
<1>3. life.undo \in 1..5
  BY <1>1, LifeFields
<1>4. CASE life.undo < 5
  <2>1. life' = [life EXCEPT !.undo = life.undo + 1] /\ UNCHANGED source
    BY <1>4, Orders DEF RollbackStep
  <2>2. /\ life' \in LifeType /\ life'.state = life.state /\ life'.start = life.start
        /\ life'.undo = life.undo + 1 /\ life'.stop = life.stop /\ life'.work = life.work
    BY <1>1, <1>3, <1>4, <2>1, LifeFacts
  <2>3. ASSUME ~overtaken' PROVE Phased'
    <3>1. Phased
      BY <1>1, <2>3 DEF PartsInv
    <3>2. /\ life.undo = 1 => part = "socket"
          /\ life.undo = 2 => part = "health"
          /\ life.undo = 3 => part = "adapters"
          /\ life.undo = 4 => part = "failures"
      BY Orders
    <3> HIDE DEF part
    <3> QED BY <1>1, <1>2, <1>3, <1>4, <2>2, <3>1, <3>2, LifeFields DEF Phased, Starting
  <2> QED BY <1>1, <1>2, <2>1, <2>2, <2>3 DEF PartsInv, PartsType
<1>5. CASE life.undo = 5
  <2>1. life' = [life EXCEPT !.undo = 0, !.state = "idle"] /\ source' = "starting"
    BY <1>5, Orders DEF RollbackStep
  <2>2. /\ life' \in LifeType /\ life'.state = "idle" /\ life'.start = life.start
        /\ life'.undo = 0 /\ life'.stop = life.stop /\ life'.work = life.work
    <3> DEFINE mid == [life EXCEPT !.undo = 0]
    <3>1. /\ mid \in LifeType /\ mid.start = life.start /\ mid.undo = 0
          /\ mid.stop = life.stop /\ mid.work = life.work
      BY <1>1, LifeFacts
    <3>2. life' = [mid EXCEPT !.state = "idle"]
      BY <2>1
    <3> HIDE DEF mid
    <3> QED BY <3>1, <3>2, LifeFacts DEF LifeStates
  <2>3. ASSUME ~overtaken' PROVE Phased'
    <3>1. Phased
      BY <1>1, <2>3 DEF PartsInv
    <3> HIDE DEF part
    <3> QED BY <1>1, <1>2, <1>5, <2>2, <3>1, LifeFields DEF Phased, Starting
  <2>4. source' \in StatusType
    BY <2>1 DEF StatusType
  <2> QED BY <1>1, <1>2, <2>2, <2>3, <2>4 DEF PartsInv, PartsType
<1> QED BY <1>3, <1>4, <1>5

LEMMA SourceReportsKeeps ==
    ASSUME PartsInv, NEW now \in StatusType, SourceReports(now) PROVE PartsInv'
BY DEF SourceReports, PartsInv, PartsType, Phased, Starting

\* What #doStop's beginning does to life; the parts are as they were.
LEMMA BegunFacts ==
    ASSUME NEW l \in LifeType,
           life' = [l EXCEPT !.state = "stopping", !.aborted = TRUE, !.stop = "working", !.work = 1]
    PROVE  /\ life' \in LifeType /\ life'.state = "stopping" /\ life'.start = l.start
           /\ life'.undo = l.undo /\ life'.stop = "working" /\ life'.work = 1
<1> DEFINE a == [l EXCEPT !.state = "stopping", !.aborted = TRUE]
           b == [a EXCEPT !.stop = "working"]
<1>1. a \in LifeType /\ a.state = "stopping" /\ a.start = l.start /\ a.undo = l.undo
  BY LifeFacts DEF LifeStates
<1> HIDE DEF a
<1>2. b \in LifeType /\ b.state = "stopping" /\ b.start = l.start /\ b.undo = l.undo /\ b.stop = "working"
  BY <1>1, LifeFacts
<1>3. life' = [b EXCEPT !.work = 1]
  BY DEF a
<1> HIDE DEF b
<1> QED BY <1>2, <1>3, LifeFacts

\* A stop begins only when no start is under way, if it waits for one.
LEMMA StopsKeep ==
    ASSUME PartsInv, StopBegins(life), UNCHANGED <<config, parts, source>>,
           overtaken' \in BOOLEAN, ~overtaken' => ~overtaken /\ ~Starting
    PROVE  PartsInv'
<1>1. PartsType /\ life \in LifeType
  BY DEF PartsInv, PartsType
<1>2. /\ life' \in LifeType /\ life'.state = "stopping" /\ life'.start = life.start
      /\ life'.undo = life.undo /\ life'.stop = "working" /\ life'.work = 1
  <2>1. life' = [life EXCEPT !.state = "stopping", !.aborted = TRUE, !.stop = "working", !.work = 1]
    BY DEF StopBegins
  <2>2. PICK l \in LifeType : l = life
    BY <1>1
  <2> QED BY <2>1, <2>2, BegunFacts
<1>3. ASSUME ~overtaken' PROVE Phased'
  <2>1. Phased
    BY <1>1, <1>3 DEF PartsInv
  <2> QED BY <1>1, <1>2, <1>3, <2>1, LifeFields DEF Phased, Starting
<1> QED BY <1>1, <1>2, <1>3 DEF PartsInv, PartsType

\* stop: a start in progress is waited for, or rolled back while it waits for the adapters.
LEMMA StopKeeps == ASSUME PartsInv, Stop PROVE PartsInv'
<1>1. PartsType /\ life \in LifeType /\ UNCHANGED <<overtaken, config, parts, source>> /\ life.stop = "none"
  BY DEF PartsInv, PartsType, Stop
<1>2. CASE ~Starting
  <2>1. StopBegins(life) /\ UNCHANGED <<config, parts, source>>
    BY <1>1, <1>2 DEF Stop
  <2>2. overtaken' \in BOOLEAN /\ (~overtaken' => ~overtaken /\ ~Starting)
    BY <1>1, <1>2 DEF PartsType
  <2> QED BY <2>1, <2>2, StopsKeep
<1>3. CASE Starting /\ life.start # 0 /\ StartSteps[life.start] = "adapters"
  <2> DEFINE a == [life EXCEPT !.start = 0]
             b == [a EXCEPT !.undo = 1]
  <2>1. life' = [BeginRollback(life) EXCEPT !.stop = "waiting"]
    BY <1>3 DEF Stop
  <2>2. a \in LifeType /\ a.state = life.state /\ a.start = 0 /\ a.work = life.work
    BY <1>1, LifeFacts
  <2>3. life' = [b EXCEPT !.stop = "waiting"]
    BY <2>1 DEF BeginRollback
  <2> HIDE DEF a
  <2>4. b \in LifeType /\ b.state = life.state /\ b.start = 0 /\ b.undo = 1 /\ b.work = life.work
    BY <2>2, LifeFacts
  <2> HIDE DEF b
  <2>5. /\ life' \in LifeType /\ life'.state = life.state /\ life'.start = 0 /\ life'.undo = 1
        /\ life'.work = life.work /\ life'.stop = "waiting"
    BY <2>3, <2>4, LifeFacts
  <2>6. ASSUME ~overtaken' PROVE Phased'
    <3>1. Phased
      BY <1>1, <2>6 DEF PartsInv
    <3> QED BY <1>1, <1>3, <2>5, <3>1, LifeFields DEF Phased, Starting
  <2> QED BY <1>1, <2>5, <2>6 DEF PartsInv, PartsType
<1>4. CASE Starting /\ ~(life.start # 0 /\ StartSteps[life.start] = "adapters")
  <2>1. life' = [life EXCEPT !.stop = "waiting"]
    BY <1>4 DEF Stop
  <2>2. /\ life' \in LifeType /\ life'.state = life.state /\ life'.start = life.start
        /\ life'.undo = life.undo /\ life'.work = life.work /\ life'.stop = "waiting"
    BY <1>1, <2>1, LifeFacts
  <2>3. ASSUME ~overtaken' PROVE Phased'
    <3>1. Phased
      BY <1>1, <2>3 DEF PartsInv
    <3> QED BY <1>1, <2>2, <3>1, LifeFields DEF Phased, Starting
  <2> QED BY <1>1, <2>2, <2>3 DEF PartsInv, PartsType
<1> QED BY <1>2, <1>3, <1>4

LEMMA StopStepKeeps == ASSUME PartsInv, StopStep PROVE PartsInv'
<1> DEFINE part == StopOrder[life.work]
<1>1. /\ PartsType /\ life \in LifeType /\ UNCHANGED <<config, overtaken>> /\ life.work \in 1..5
      /\ life' = [life EXCEPT !.work = life.work + 1]
      /\ parts' = StopReleases(part)
      /\ source' = IF part = "adapters" THEN "stopped" ELSE source
  BY Orders DEF PartsInv, PartsType, StopStep
<1>2. /\ life' \in LifeType /\ life'.state = life.state /\ life'.start = life.start
      /\ life'.undo = life.undo /\ life'.stop = life.stop /\ life'.work = life.work + 1
  BY <1>1, LifeFacts
<1>3. /\ life.work = 1 => part = "health"
      /\ life.work = 2 => part = "socket"
      /\ life.work = 3 => part = "adapters"
      /\ life.work = 4 => part = "failures"
      /\ life.work = 5 => part = "http"
  BY Orders
<1>4. source' \in StatusType
  BY <1>1 DEF PartsType, StatusType
<1> HIDE DEF part
<1>5. /\ parts' \in [Parts -> BOOLEAN]
      /\ parts'.adapters = IF part = "adapters" THEN FALSE ELSE parts.adapters
      /\ parts'.socket = IF part = "socket" THEN FALSE ELSE parts.socket
      /\ parts'.failures = IF part = "failures" THEN FALSE ELSE parts.failures
  <2>1. CASE parts' = Released(part)
    BY <1>1, <2>1, UsersReleased
  <2>2. CASE parts' = parts /\ part = "http"
    BY <1>1, <2>2 DEF PartsType
  <2> QED BY <1>1, <2>1, <2>2 DEF StopReleases
<1>6. ASSUME ~overtaken' PROVE Phased'
  <2>1. Phased
    BY <1>1, <1>6 DEF PartsInv
  <2> QED BY <1>1, <1>2, <1>3, <1>5, <2>1, LifeFields DEF Phased, Starting
<1> QED BY <1>1, <1>2, <1>4, <1>5, <1>6 DEF PartsInv, PartsType

\* The end of a stop, whether its work is done or out of time.
LEMMA StoppedFacts ==
    ASSUME life \in LifeType, life' = [life EXCEPT !.stop = "done", !.state = "stopped"]
    PROVE  /\ life' \in LifeType /\ life'.state = "stopped" /\ life'.start = life.start
           /\ life'.undo = life.undo /\ life'.stop = "done" /\ life'.work = life.work
BY LifeFacts DEF LifeStates

LEMMA StopEndsKeeps == ASSUME PartsInv, StopEnds PROVE PartsInv'
<1>1. /\ PartsType /\ life \in LifeType /\ UNCHANGED <<overtaken, config, parts, source>>
      /\ life.stop = "working" /\ life' = [life EXCEPT !.stop = "done", !.state = "stopped"]
  BY DEF PartsInv, PartsType, StopEnds
<1>2. /\ life' \in LifeType /\ life'.state = "stopped" /\ life'.start = life.start
      /\ life'.undo = life.undo /\ life'.stop = "done" /\ life'.work = life.work
  BY <1>1, StoppedFacts
<1>3. ASSUME ~overtaken' PROVE Phased'
  <2>1. Phased
    BY <1>1, <1>3 DEF PartsInv
  <2> QED BY <1>1, <1>2, <2>1, LifeFields DEF Phased, Starting
<1> QED BY <1>1, <1>2, <1>3 DEF PartsInv, PartsType

LEMMA StopExpiresKeeps == ASSUME PartsInv, StopExpires PROVE PartsInv'
<1>1. /\ PartsType /\ life \in LifeType /\ UNCHANGED <<overtaken, config, source>>
      /\ life.stop = "working" /\ life' = [life EXCEPT !.stop = "done", !.state = "stopped"]
      /\ parts' = StopReleases("http")
  BY DEF PartsInv, PartsType, StopExpires
<1>2. /\ life' \in LifeType /\ life'.state = "stopped" /\ life'.start = life.start
      /\ life'.undo = life.undo /\ life'.stop = "done" /\ life'.work = life.work
  BY <1>1, StoppedFacts
<1>3. PICK part : part = "http"
  OBVIOUS
<1>4. /\ parts' \in [Parts -> BOOLEAN] /\ parts'.adapters = parts.adapters
      /\ parts'.socket = parts.socket /\ parts'.failures = parts.failures
  <2>1. CASE parts' = Released(part)
    <3>1. part \notin {"adapters", "socket", "failures"}
      BY <1>3
    <3>2. /\ parts' \in [Parts -> BOOLEAN]
          /\ parts'.adapters = IF part = "adapters" THEN FALSE ELSE parts.adapters
          /\ parts'.socket = IF part = "socket" THEN FALSE ELSE parts.socket
          /\ parts'.failures = IF part = "failures" THEN FALSE ELSE parts.failures
      BY <1>1, <2>1, UsersReleased
    <3> QED BY <3>1, <3>2
  <2>2. CASE parts' = parts
    BY <1>1, <2>2 DEF PartsType
  <2> QED BY <1>1, <1>3, <2>1, <2>2 DEF StopReleases
<1>5. ASSUME ~overtaken' PROVE Phased'
  <2>1. Phased
    BY <1>1, <1>5 DEF PartsInv
  <2> QED BY <1>1, <1>2, <1>4, <2>1, LifeFields DEF Phased, Starting
<1> QED BY <1>1, <1>2, <1>4, <1>5 DEF PartsInv, PartsType

LEMMA PartsStart == LifeInit => PartsInv
<1> SUFFICES ASSUME LifeInit PROVE PartsInv
  OBVIOUS
<1>1. /\ life \in LifeType /\ life.state = "idle" /\ life.start = 0 /\ life.undo = 0
      /\ life.stop = "none" /\ life.work = 0
  BY LifeFacts DEF LifeInit, LifeStates
<1>2. PartsType
  BY <1>1 DEF LifeInit, PartsType, StatusType
<1>3. ~parts.adapters /\ ~parts.socket
  BY DEF LifeInit, Parts
<1> QED BY <1>1, <1>2, <1>3 DEF PartsInv, Phased, Starting

LEMMA PartsStep == PartsInv /\ [LifeNext]_lifeVars => PartsInv'
<1> SUFFICES ASSUME PartsInv, [LifeNext]_lifeVars PROVE PartsInv'
  OBVIOUS
<1>1. CASE UNCHANGED lifeVars \/ ConnectionMoves
  <2>1. UNCHANGED <<overtaken, config, life, parts, source>>
    BY <1>1 DEF lifeVars, ConnectionMoves, HandshakeStarts, CallSettles, CallTimesOut, ClientLeaves,
                OpenSession, SessionCloses, Revoke
  <2> QED BY <2>1 DEF PartsInv, PartsType, Phased, Starting
<1>2. CASE Start \/ StartMoves
  BY <1>2, StartKeeps, StartStepKeeps, RollbackStepKeeps DEF StartMoves
<1>3. CASE StopProceeds
  <2>1. StopBegins(life) /\ UNCHANGED <<config, parts, source>>
    BY <1>3 DEF StopProceeds
  <2>2. overtaken' = (overtaken \/ Starting) /\ overtaken \in BOOLEAN
    BY <1>3 DEF StopProceeds, PartsInv, PartsType
  <2>3. overtaken' \in BOOLEAN /\ (~overtaken' => ~overtaken /\ ~Starting)
    BY <2>2
  <2> QED BY <2>1, <2>3, StopsKeep
<1>4. CASE Stop \/ StopExpires \/ StopStep \/ StopEnds
  BY <1>4, StopKeeps, StopExpiresKeeps, StopStepKeeps, StopEndsKeeps
<1>5. CASE \E now \in StatusType : SourceReports(now)
  BY <1>5, SourceReportsKeeps
<1> QED BY <1>1, <1>2, <1>3, <1>4, <1>5 DEF LifeNext, StopMoves

\* The invariant of the parts: which phases exclude which, and what is open in each.
THEOREM PartsInvariant == LifeSpec => []PartsInv
BY PartsStart, PartsStep, PTL DEF LifeSpec

\* Every field stays in its type, stop() giving up on a start or not: in particular neither
\* #pendingHandshakes nor #abandonedAuthenticates is ever negative.
THEOREM GatewayTypeCorrect == LifeSpec => []GatewayTypeOK
<1>1. ConnInv /\ PartsInv => GatewayTypeOK
  BY DEF ConnInv, CountersAreTrue, PartsInv, PartsType, GatewayTypeOK
<1> QED BY <1>1, ConnectionInvariant, PartsInvariant, PTL

\* gateway.ts, #doStart, its catch and #doStop: nothing reaches the journal before it is
\* open or after it is closed, until a stop gives up on a start still in progress.
THEOREM JournalOutlivesUsers == LifeSpec => []JournalOutlivesItsUsers
<1>1. PartsInv => JournalOutlivesItsUsers
  BY DEF PartsInv, Phased, JournalOutlivesItsUsers, Readiness
<1> QED BY <1>1, PartsInvariant, PTL

-----------------------------------------------------------------------------
(* The items of one channel.                                               *)

Item == Frames \cup Refused
Output == [channel : Channels, frame : Frames]

LEMMA SmallestOf ==
    ASSUME NEW S, S \subseteq Nat, S # {}
    PROVE  \E n \in S : \A m \in S : n <= m
<1>1. PICK n \in S : \A m \in S : ~(<<m, n>> \in OpToRel(<, Nat))
  BY NatLessThanWellFounded, WFMin, Zenon
<1>2. \A m \in S : ~(m < n)
  BY <1>1 DEF OpToRel
<1> QED BY <1>2

\* A function on 1..n is a sequence.
LEMMA IsSequence ==
    ASSUME NEW T, NEW n \in Nat, NEW f \in [1..n -> T]
    PROVE  f \in Seq(T) /\ Len(f) = n
OBVIOUS

LEMMA CountTo ==
    ASSUME NEW n \in Nat
    PROVE  IsFiniteSet(1..n) /\ Cardinality(1..n) = n
<1>1. IsFiniteSet(1..n) /\ Cardinality(1..n) = IF 1 > n THEN 0 ELSE n - 1 + 1
  BY FS_Interval
<1> QED BY <1>1

LEMMA FiniteUpTo ==
    ASSUME NEW n \in Nat, NEW B, B \subseteq 1..n
    PROVE  IsFiniteSet(B) /\ Cardinality(B) \in Nat
<1>1. IsFiniteSet(B)
  BY CountTo, FS_Subset
<1> QED BY <1>1, FS_CardinalityType

\* Without a problem, every item is a frame or only fails its payload's schema; with
\* failureHandling that is never the problem itself.
LEMMA ProblemFree ==
    ASSUME NEW items \in Seq(Item)
    PROVE  \/ /\ ChannelProblem(items) = "none"
              /\ \A i \in DOMAIN items :
                    items[i] \in Frames \/ (ClassifyAll /\ items[i].data = "payload-schema")
           \/ /\ ChannelProblem(items) \in Refusals
              /\ ClassifyAll => ChannelProblem(items) # "payload-schema"
<1> DEFINE bad == {j \in DOMAIN items : items[j] \notin Frames
                                        /\ ~(ClassifyAll /\ items[j].data = "payload-schema")}
<1>1. DOMAIN items \subseteq Nat /\ \A j \in DOMAIN items : items[j] \in Item
  BY LenProperties
<1> SUFFICES ASSUME bad # {}
             PROVE  /\ ChannelProblem(items) \in Refusals
                    /\ ClassifyAll => ChannelProblem(items) # "payload-schema"
  <2>1. CASE bad = {}
    BY <2>1 DEF ChannelProblem
  <2> QED BY <2>1
<1>2. ChannelProblem(items) = items[Min(bad)].data
  BY DEF ChannelProblem
<1>3. Min(bad) \in bad
  <2>1. bad \subseteq Nat
    BY <1>1
  <2> HIDE DEF bad
  <2>2. \E n \in bad : \A m \in bad : n <= m
    BY <2>1, SmallestOf
  <2> QED BY <2>2 DEF Min
<1>4. /\ items[Min(bad)] \in Refused
      /\ ClassifyAll => items[Min(bad)].data # "payload-schema"
  BY <1>1, <1>3 DEF Item
<1>5. items[Min(bad)].data \in Refusals
  <2> HIDE DEF bad
  <2> QED BY <1>4 DEF Refused
<1> HIDE DEF bad
<1> QED BY <1>2, <1>4, <1>5

\* The k-th of the frames is where k of them are reached.
LEMMA NthExists ==
    ASSUME NEW n \in Nat, NEW B, B \subseteq 1..n, NEW k \in 1..Cardinality(B)
    PROVE  \E i \in B : Cardinality(B \cap (1..i)) = k
<1> DEFINE C(i) == Cardinality(B \cap (1..i))
           S == {i \in 1..n : C(i) >= k}
<1>2. IsFiniteSet(B) /\ Cardinality(B) \in Nat
  BY FiniteUpTo
<1>3. \A i \in 0..n : IsFiniteSet(B \cap (1..i)) /\ C(i) \in Nat
  <2> TAKE i \in 0..n
  <2>1. B \cap (1..i) \subseteq 1..n
    OBVIOUS
  <2> QED BY <2>1, FiniteUpTo
<1>4. n \in S
  <2>1. B \cap (1..n) = B
    OBVIOUS
  <2>2. n # 0
    <3>1. n = 0 => B = {}
      OBVIOUS
    <3>2. Cardinality({}) = 0
      BY FS_EmptySet
    <3>3. Cardinality(B) # 0
      BY <1>2
    <3> QED BY <3>1, <3>2, <3>3
  <2>3. n \in 1..n /\ C(n) >= k
    BY <1>2, <2>1, <2>2
  <2> HIDE DEF C
  <2> QED BY <2>3
<1>5. PICK m \in S : \A i \in S : m <= i
  <2>1. S \subseteq Nat
    <3> HIDE DEF C
    <3> QED OBVIOUS
  <2>2. S # {}
    <3> HIDE DEF S
    <3> QED BY <1>4
  <2> HIDE DEF S
  <2> QED BY <2>1, <2>2, SmallestOf
<1>6. m \in 1..n /\ C(m) >= k /\ m - 1 \in 0..n
  BY <1>5
<1>7. C(m - 1) < k
  <2>1. CASE m = 1
    <3>1. B \cap (1..(m - 1)) = {}
      BY <2>1
    <3>2. C(m - 1) = 0
      BY <3>1, FS_EmptySet
    <3> HIDE DEF C
    <3> QED BY <3>2
  <2>2. CASE m # 1
    <3>1. m - 1 \in 1..n /\ ~(m <= m - 1)
      BY <1>6, <2>2
    <3>2. ~(C(m - 1) >= k)
      <4> HIDE DEF C
      <4> QED BY <1>5, <3>1
    <3>3. C(m - 1) \in Nat
      BY <1>3, <1>6
    <3> HIDE DEF C
    <3> QED BY <3>2, <3>3
  <2> QED BY <2>1, <2>2
<1>8. m \in B
  <2> SUFFICES ASSUME m \notin B PROVE FALSE
    OBVIOUS
  <2>1. B \cap (1..m) = B \cap (1..(m - 1))
    BY <1>6
  <2>2. C(m) = C(m - 1)
    BY <2>1
  <2>3. C(m) \in Nat
    BY <1>3, <1>6
  <2> HIDE DEF C
  <2> QED BY <1>6, <1>7, <2>2, <2>3
<1>9. C(m) = C(m - 1) + 1
  <2>1. B \cap (1..m) = (B \cap (1..(m - 1))) \cup {m} /\ m \notin B \cap (1..(m - 1))
    BY <1>6, <1>8
  <2>2. IsFiniteSet(B \cap (1..(m - 1)))
    BY <1>3, <1>6
  <2> QED BY <2>1, <2>2, FS_AddElement
<1>10. C(m) = k
  <2>1. m \in 0..n
    BY <1>6
  <2>2. C(m - 1) \in Nat /\ C(m) \in Nat
    BY <1>3, <1>6, <2>1
  <2> HIDE DEF C
  <2> QED BY <1>6, <1>7, <1>9, <2>2
<1> QED BY <1>8, <1>10

LEMMA RoutedTyped ==
    ASSUME NEW c \in Channels, NEW items \in Seq(Item)
    PROVE  Routed(c, items) \in Seq(Output)
<1> DEFINE built == {i \in DOMAIN items : items[i] \in Frames}
           Nth(k) == CHOOSE i \in built : Cardinality(built \cap (1..i)) = k
           out == [k \in 1..Cardinality(built) |-> [channel |-> c, frame |-> items[Nth(k)]]]
<1>1. Len(items) \in Nat /\ built \subseteq 1..Len(items)
  BY LenProperties
<1>2. Cardinality(built) \in Nat
  <2> HIDE DEF built
  <2> QED BY <1>1, FiniteUpTo
<1>3. \A k \in 1..Cardinality(built) : Nth(k) \in built
  <2> HIDE DEF built
  <2> TAKE k \in 1..Cardinality(built)
  <2>1. \E i \in built : Cardinality(built \cap (1..i)) = k
    BY <1>1, NthExists
  <2> QED BY <2>1
<1>4. \A k \in 1..Cardinality(built) : items[Nth(k)] \in Frames
  <2> HIDE DEF Nth
  <2> QED BY <1>3
<1>5. out \in [1..Cardinality(built) -> Output]
  <2> HIDE DEF Nth, built
  <2> QED BY <1>4 DEF Output
<1>6. Routed(c, items) = out
  BY DEF Routed
<1> HIDE DEF out, built
<1> QED BY <1>2, <1>5, <1>6, IsSequence

\* A channel that returned frames only is routed as it is.
LEMMA RoutedWhole ==
    ASSUME NEW c \in Channels, NEW items \in Seq(Frames)
    PROVE  /\ Len(Routed(c, items)) = Len(items)
           /\ \A k \in 1..Len(items) : Routed(c, items)[k] = [channel |-> c, frame |-> items[k]]
<1> DEFINE built == {i \in DOMAIN items : items[i] \in Frames}
           Nth(k) == CHOOSE i \in built : Cardinality(built \cap (1..i)) = k
           out == [k \in 1..Cardinality(built) |-> [channel |-> c, frame |-> items[Nth(k)]]]
<1>1. Len(items) \in Nat /\ built = 1..Len(items)
  BY LenProperties
<1>2. Cardinality(built) = Len(items)
  <2> HIDE DEF built
  <2> QED BY <1>1, CountTo
<1>3. \A k \in 1..Len(items) : Nth(k) = k
  <2>1. \A i \in 1..Len(items) : Cardinality(built \cap (1..i)) = i
    <3> TAKE i \in 1..Len(items)
    <3> HIDE DEF built
    <3>1. built \cap (1..i) = 1..i /\ i \in Nat
      BY <1>1
    <3>2. Cardinality(1..i) = i
      BY <3>1, CountTo
    <3> QED BY <3>1, <3>2
  <2> HIDE DEF built
  <2> QED BY <1>1, <2>1
<1>4. Routed(c, items) = out
  BY DEF Routed
<1>5. Len(out) = Len(items) /\ \A k \in 1..Len(items) : out[k] = [channel |-> c, frame |-> items[Nth(k)]]
  <2> HIDE DEF built, Nth
  <2> QED BY <1>1, <1>2
<1> HIDE DEF out, Nth
<1> QED BY <1>3, <1>4, <1>5

-----------------------------------------------------------------------------
(* One attempt.                                                            *)

\* What a channel adds to outputs that are whole.
LEMMA WholeGrows ==
    ASSUME NEW o \in Seq(Output), NEW rs \in Seq(Seq(Item)), Len(rs) < ChannelCount,
           NEW items \in Seq(Frames), Whole(o, rs)
    PROVE  Whole(o \o Routed(Len(rs) + 1, items), Append(rs, items))
<1> DEFINE n == Len(rs)
           r == Routed(n + 1, items)
           p == o \o r
           qs == Append(rs, items)
<1>1. /\ n \in Nat /\ n + 1 \in Channels /\ Len(o) \in Nat /\ Len(items) \in Nat
      /\ \A c \in 1..n : rs[c] \in Seq(Item) /\ Len(rs[c]) \in Nat
  BY PipelineAssumption, LenProperties DEF Channels
<1>2. /\ r \in Seq(Output) /\ Len(r) = Len(items)
      /\ \A k \in 1..Len(items) : r[k] = [channel |-> n + 1, frame |-> items[k]]
  <2>1. items \in Seq(Item)
    BY DEF Item
  <2> QED BY <1>1, <2>1, RoutedTyped, RoutedWhole
<1> HIDE DEF r
<1>3. /\ Len(p) = Len(o) + Len(items)
      /\ \A k \in 1..Len(o) : p[k] = o[k]
      /\ \A k \in 1..Len(items) : p[Len(o) + k] = r[k]
  <2>1. /\ Len(p) = Len(o) + Len(r)
        /\ \A i \in 1..(Len(o) + Len(r)) : p[i] = IF i <= Len(o) THEN o[i] ELSE r[i - Len(o)]
    <3>1. r \in Seq(Output)
      BY <1>2
    <3> QED BY <3>1, ConcatProperties, Zenon
  <2>2. \A k \in 1..Len(o) : k \in 1..(Len(o) + Len(r)) /\ k <= Len(o)
    BY <1>1, <1>2
  <2>3. \A k \in 1..Len(items) : /\ Len(o) + k \in 1..(Len(o) + Len(r)) /\ ~(Len(o) + k <= Len(o))
                                 /\ Len(o) + k - Len(o) = k
    BY <1>1, <1>2
  <2> HIDE DEF p
  <2> QED BY <1>2, <2>1, <2>2, <2>3
<1>4. /\ Len(qs) = n + 1 /\ qs[n + 1] = items
      /\ \A c \in 1..n : qs[c] = rs[c]
  BY <1>1, AppendProperties
<1>5. PICK from \in [1..(n + 1) -> 0..Len(o)] :
         /\ from[1] = 0 /\ from[n + 1] = Len(o)
         /\ \A c \in 1..n :
               /\ from[c + 1] = from[c] + Len(rs[c])
               /\ \A i \in 1..Len(rs[c]) :
                     o[from[c] + i] = [channel |-> c, frame |-> rs[c][i]]
  <2>1. DOMAIN rs = 1..n /\ \A c \in 1..n : DOMAIN rs[c] = 1..Len(rs[c])
    BY <1>1, LenProperties
  <2>2. \E from \in [1..(n + 1) -> 0..Len(o)] :
         /\ from[1] = 0 /\ from[n + 1] = Len(o)
         /\ \A c \in DOMAIN rs :
               /\ from[c + 1] = from[c] + Len(rs[c])
               /\ \A i \in DOMAIN rs[c] :
                     o[from[c] + i] = [channel |-> c, frame |-> rs[c][i]]
    BY DEF Whole
  <2> HIDE DEF n
  <2> QED BY <2>1, <2>2
<1> HIDE DEF p, qs, n
<1> DEFINE g == [x \in 1..(n + 2) |-> IF x <= n + 1 THEN from[x] ELSE Len(o) + Len(items)]
<1>6. g \in [1..(n + 2) -> 0..Len(p)]
  BY <1>1, <1>3, <1>5
<1>7. g[1] = 0 /\ g[n + 2] = Len(p)
  BY <1>1, <1>3, <1>5
<1>8. ASSUME NEW c \in 1..(n + 1)
      PROVE  /\ g[c + 1] = g[c] + Len(qs[c])
             /\ \A i \in 1..Len(qs[c]) : p[g[c] + i] = [channel |-> c, frame |-> qs[c][i]]
  <2>1. CASE c = n + 1
    <3>1. g[c] = Len(o) /\ g[c + 1] = Len(o) + Len(items) /\ qs[c] = items
      BY <1>1, <1>4, <1>5, <2>1
    <3> HIDE DEF g
    <3> QED BY <1>2, <1>3, <2>1, <3>1
  <2>2. CASE c # n + 1
    <3>1. c \in 1..n /\ c + 1 \in 1..(n + 1)
      BY <1>1, <2>2
    <3>2. g[c] = from[c] /\ g[c + 1] = from[c + 1] /\ qs[c] = rs[c]
      BY <1>1, <1>4, <3>1
    <3>3. from[c] \in 0..Len(o) /\ from[c + 1] \in 0..Len(o) /\ Len(rs[c]) \in Nat
      BY <1>1, <1>5, <3>1
    <3>4. from[c + 1] = from[c] + Len(rs[c])
      BY <1>5, <3>1
    <3> HIDE DEF g
    <3>5. ASSUME NEW i \in 1..Len(rs[c])
          PROVE  p[from[c] + i] = [channel |-> c, frame |-> rs[c][i]]
      <4>1. from[c] + i \in 1..Len(o)
        BY <1>1, <3>3, <3>4
      <4>2. o[from[c] + i] = [channel |-> c, frame |-> rs[c][i]]
        BY <1>5, <3>1
      <4> QED BY <1>3, <4>1, <4>2
    <3> QED BY <3>2, <3>4, <3>5
  <2> QED BY <2>1, <2>2
<1> HIDE DEF g
<1>9. DOMAIN qs = 1..(n + 1) /\ \A c \in 1..(n + 1) : DOMAIN qs[c] = 1..Len(qs[c])
  BY <1>1, <1>4 DEF qs
<1>10. n + 1 + 1 = n + 2
  BY <1>1
<1>11. Whole(p, qs)
  <2>1. g \in [1..(Len(qs) + 1) -> 0..Len(p)] /\ g[Len(qs) + 1] = Len(p)
    BY <1>4, <1>6, <1>7, <1>10
  <2>2. \A c \in DOMAIN qs :
           /\ g[c + 1] = g[c] + Len(qs[c])
           /\ \A i \in DOMAIN qs[c] : p[g[c] + i] = [channel |-> c, frame |-> qs[c][i]]
    BY <1>8, <1>9
  <2> QED BY <1>7, <2>1, <2>2, Zenon DEF Whole
<1> QED BY <1>11 DEF p, qs, r, n

\* Two outputs of a key at the newest revision so far are the same.
OutputsAgree(o) ==
    \A j \in DOMAIN o : \A i \in 1..(j - 1) :
        /\ o[i].channel = o[j].channel
        /\ o[i].frame.revision = o[j].frame.revision
        /\ ~NewerBefore(o, j)
        => o[i] = o[j]

LEMMA OutputFacts ==
    ASSUME NEW o \in Seq(Output)
    PROVE  /\ Len(o) \in Nat /\ DOMAIN o = 1..Len(o)
           /\ \A k \in DOMAIN o : /\ o[k] \in Output /\ o[k].frame \in Frames
                                   /\ o[k].frame.revision \in Int
<1>1. Len(o) \in Nat /\ DOMAIN o = 1..Len(o) /\ \A k \in DOMAIN o : o[k] \in Output
  BY LenProperties
<1>2. \A x \in Output : x.frame \in Frames
  BY DEF Output
<1>3. \A f \in Frames : f.revision \in Int
  BY PipelineAssumption DEF Frames
<1> QED BY <1>1, <1>2, <1>3

\* "seen" holds the first output of the newest revision, and nothing conflicts with it.
LEMMA SeenFirst ==
    ASSUME NEW o \in Seq(Output), ~Conflicting(o), NEW j \in DOMAIN o, NEW m \in 1..(j - 1),
           o[m].channel = o[j].channel, o[m].frame.revision = o[j].frame.revision,
           \A k \in 1..(m - 1) : ~(/\ o[k].channel = o[j].channel
                                   /\ o[k].frame.revision = o[j].frame.revision),
           ~NewerBefore(o, j)
    PROVE  o[m] = o[j]
<1> DEFINE earlier == {k \in 1..(j - 1) : o[k].channel = o[j].channel}
           Rev(k) == o[k].frame.revision
           Newest(x) == \A k \in earlier : Rev(k) <= Rev(x) /\ (Rev(k) = Rev(x) => x <= k)
<1>1. j \in Nat /\ j \in 1..Len(o) /\ m \in Nat /\ m \in DOMAIN o
  BY OutputFacts
<1>2. \A k \in earlier : k \in DOMAIN o /\ k \in Nat /\ Rev(k) \in Int
  BY <1>1, OutputFacts
<1>3. m \in earlier /\ Rev(m) \in Int /\ Rev(m) = Rev(j)
  BY <1>2
<1>4. \A k \in earlier : ~(Rev(k) > Rev(j))
  BY DEF NewerBefore
<1>5. Newest(m)
  <2> TAKE k \in earlier
  <2>1. Rev(k) <= Rev(m)
    BY <1>2, <1>3, <1>4
  <2>2. Rev(k) = Rev(m) => m <= k
    <3> SUFFICES ASSUME Rev(k) = Rev(m), k < m PROVE FALSE
      BY <1>1, <1>2
    <3>1. k \in 1..(m - 1)
      BY <1>1
    <3> QED BY <1>3, <3>1
  <2> QED BY <2>1, <2>2
<1>6. \A x \in earlier : Newest(x) => x = m
  <2> SUFFICES ASSUME NEW x \in earlier, Newest(x) PROVE x = m
    OBVIOUS
  <2>1. Rev(m) <= Rev(x) /\ Rev(x) <= Rev(m)
    BY <1>3, <1>5
  <2>2. Rev(x) = Rev(m)
    BY <1>2, <1>3, <2>1
  <2>3. x <= m /\ m <= x
    BY <1>3, <1>5, <2>2
  <2> QED BY <1>1, <1>2, <2>3
<1>7. SeenBefore(o, j) = o[m].frame
  <2>1. SeenBefore(o, j) = o[CHOOSE x \in earlier : Newest(x)].frame
    BY <1>3 DEF SeenBefore
  <2>2. (CHOOSE x \in earlier : Newest(x)) = m
    <3> HIDE DEF earlier, Newest
    <3> QED BY <1>3, <1>5, <1>6
  <2> QED BY <2>1, <2>2
<1>8. o[m].frame.data = o[j].frame.data
  BY <1>7 DEF Conflicting
<1>9. o[m] \in Output /\ o[j] \in Output
  BY <1>1, OutputFacts
<1>10. o[m].frame = o[j].frame
  <2>1. o[m].frame \in Frames /\ o[j].frame \in Frames
    BY <1>1, OutputFacts
  <2> QED BY <1>8, <2>1 DEF Frames
<1> QED BY <1>9, <1>10 DEF Output

LEMMA NoConflictAgrees ==
    ASSUME NEW o \in Seq(Output), ~Conflicting(o)
    PROVE  OutputsAgree(o)
<1> SUFFICES ASSUME NEW j \in DOMAIN o, NEW i \in 1..(j - 1),
                    o[i].channel = o[j].channel, o[i].frame.revision = o[j].frame.revision,
                    ~NewerBefore(o, j)
             PROVE  o[i] = o[j]
  BY DEF OutputsAgree
<1> DEFINE S == {k \in 1..(j - 1) : /\ o[k].channel = o[j].channel
                                    /\ o[k].frame.revision = o[j].frame.revision}
<1>1. j \in Nat /\ i \in Nat /\ j \in 1..Len(o) /\ i \in DOMAIN o /\ Len(o) \in Nat
  BY OutputFacts
<1>2. PICK m \in S : \A k \in S : m <= k
  <2>1. S \subseteq Nat /\ i \in S
    BY <1>1
  <2> HIDE DEF S
  <2> QED BY <2>1, SmallestOf
<1>3. m <= i /\ m \in 1..(j - 1) /\ m \in Nat
  BY <1>1, <1>2
<1>4. \A k \in 1..(m - 1) : ~(/\ o[k].channel = o[j].channel
                              /\ o[k].frame.revision = o[j].frame.revision)
  <2> SUFFICES ASSUME NEW k \in 1..(m - 1), k \in S PROVE FALSE
    BY <1>1, <1>3
  <2> QED BY <1>2, <1>3
<1>5. o[m] = o[j]
  BY <1>2, <1>3, <1>4, SeenFirst
<1>6. CASE i = m
  BY <1>5, <1>6
<1>7. CASE i # m
  <2>1. m \in 1..(i - 1)
    BY <1>1, <1>3, <1>7
  <2>2. ~NewerBefore(o, i)
    BY <1>1 DEF NewerBefore
  <2>3. o[m] = o[i]
    BY <1>1, <1>2, <1>4, <2>1, <2>2, SeenFirst
  <2> QED BY <1>5, <2>3
<1> QED BY <1>6, <1>7

-----------------------------------------------------------------------------
(* The evaluation.                                                         *)

Classes == MapFailures \cup Refusals \cup {"none", "revision-conflict"}

TaskType ==
    [step : {"none", "map", "delay", "evaluated"}, attempt : Nat, outputs : Seq(Output),
     eligible : {"none", "payload-schema"}, results : Seq(Seq(Item)), class : Classes]

\* What this attempt, and no other, gathered from the channels it has asked.
Gathered(t) ==
    /\ \A c \in DOMAIN t.results : \A i \in DOMAIN t.results[c] :
          \/ t.results[c][i] \in Frames
          \/ ClassifyAll /\ t.results[c][i].data = "payload-schema"
    /\ t.eligible = "payload-schema" =>
          \E c \in DOMAIN t.results : \E i \in DOMAIN t.results[c] :
             t.results[c][i].data = "payload-schema"
    /\ t.eligible = "none" =>
          /\ \A c \in DOMAIN t.results : t.results[c] \in Seq(Frames)
          /\ Whole(t.outputs, t.results)

\* The classes whose record may be admitted, or skipped by a policy.
Passes(class) == class = "none" \/ (ClassifyAll /\ class = "payload-schema")

\* The inductive invariant of an evaluation.
PipeInv ==
    /\ task \in TaskType
    /\ task.step = "map" => Gathered(task) /\ Len(task.results) < ChannelCount
    /\ task.step = "evaluated" /\ Passes(task.class) =>
          /\ Gathered(task) /\ Len(task.results) = ChannelCount
          /\ task.eligible = task.class
          /\ OutputsAgree(task.outputs)

LEMMA NoTaskTyped == NoTask \in TaskType /\ NoTask.step = "none"
<1>1. <<>> \in Seq(Output) /\ <<>> \in Seq(Seq(Item))
  BY EmptySeq
<1> QED BY <1>1 DEF NoTask, TaskType, Classes

\* An attempt starts with nothing.
LEMMA StartsEmpty ==
    ASSUME NEW t \in TaskType, t.outputs = <<>>, t.eligible = "none", t.results = <<>>
    PROVE  Gathered(t) /\ Len(t.results) < ChannelCount
<1>1. Len(t.results) = 0 /\ Len(t.outputs) = 0 /\ DOMAIN t.results = {}
  BY EmptySeq
<1> DEFINE g == [x \in 1..1 |-> 0]
<1>2. g \in [1..(0 + 1) -> 0..0] /\ g[1] = 0
  OBVIOUS
<1> HIDE DEF g
<1>3. Whole(t.outputs, t.results)
  <2>1. g \in [1..(Len(t.results) + 1) -> 0..Len(t.outputs)]
    BY <1>1, <1>2
  <2>2. g[1] = 0 /\ g[Len(t.results) + 1] = Len(t.outputs)
    BY <1>1, <1>2
  <2> QED BY <1>1, <2>1, <2>2 DEF Whole
<1> QED BY <1>1, <1>3, PipelineAssumption DEF Gathered

\* The next channel's items, without a problem.
LEMMA GathersMore ==
    ASSUME NEW t \in TaskType, NEW u \in TaskType, Gathered(t), Len(t.results) < ChannelCount,
           NEW items \in Seq(Item), ChannelProblem(items) = "none",
           u.results = Append(t.results, items),
           u.outputs = t.outputs \o Routed(Len(t.results) + 1, items),
           u.eligible = IF \E i \in DOMAIN items : items[i].data = "payload-schema"
                        THEN "payload-schema" ELSE t.eligible
    PROVE  Gathered(u) /\ Len(u.results) = Len(t.results) + 1
<1> DEFINE n == Len(t.results)
<1>0. /\ t.results \in Seq(Seq(Item)) /\ t.outputs \in Seq(Output)
      /\ t.eligible \in {"none", "payload-schema"}
  BY DEF TaskType
<1>1. n \in Nat /\ DOMAIN t.results = 1..n
  BY <1>0, LenProperties
<1>2. /\ Len(u.results) = n + 1 /\ DOMAIN u.results = 1..(n + 1) /\ u.results[n + 1] = items
      /\ \A c \in 1..n : u.results[c] = t.results[c]
  BY <1>0, <1>1, AppendProperties
<1> HIDE DEF n
<1>3. \A i \in DOMAIN items : items[i] \in Frames \/ (ClassifyAll /\ items[i].data = "payload-schema")
  BY ProblemFree DEF Refusals
<1>4. \A c \in 1..(n + 1) : c \in 1..n \/ c = n + 1
  BY <1>1
<1>5. ASSUME NEW c \in DOMAIN u.results, NEW i \in DOMAIN u.results[c]
      PROVE  \/ u.results[c][i] \in Frames
             \/ ClassifyAll /\ u.results[c][i].data = "payload-schema"
  BY <1>1, <1>2, <1>3, <1>4 DEF Gathered
<1>6. ASSUME u.eligible = "payload-schema"
      PROVE  \E c \in DOMAIN u.results : \E i \in DOMAIN u.results[c] :
                u.results[c][i].data = "payload-schema"
  <2>1. CASE \E i \in DOMAIN items : items[i].data = "payload-schema"
    <3>1. n + 1 \in DOMAIN u.results
      BY <1>1, <1>2
    <3> QED BY <1>2, <2>1, <3>1
  <2>2. CASE t.eligible = "payload-schema"
    <3>1. PICK c \in 1..n : \E i \in DOMAIN t.results[c] : t.results[c][i].data = "payload-schema"
      BY <1>1, <2>2 DEF Gathered
    <3>2. c \in DOMAIN u.results /\ u.results[c] = t.results[c]
      BY <1>1, <1>2
    <3> QED BY <3>1, <3>2
  <2> QED BY <1>6, <2>1, <2>2
<1>7. ASSUME u.eligible = "none"
      PROVE  /\ \A c \in DOMAIN u.results : u.results[c] \in Seq(Frames)
             /\ Whole(u.outputs, u.results)
  <2>1. t.eligible = "none" /\ \A i \in DOMAIN items : items[i].data # "payload-schema"
    BY <1>7
  <2>2. \A i \in DOMAIN items : items[i] \in Frames
    BY <1>3, <2>1
  <2>3. items \in Seq(Frames)
    <3>1. Len(items) \in Nat /\ DOMAIN items = 1..Len(items) /\ items \in [1..Len(items) -> Item]
      BY LenProperties
    <3>2. items \in [1..Len(items) -> Frames]
      BY <2>2, <3>1
    <3> QED BY <3>1, <3>2, IsSequence
  <2>4. \A c \in 1..n : t.results[c] \in Seq(Frames)
    BY <1>1, <2>1 DEF Gathered
  <2>5. \A c \in DOMAIN u.results : u.results[c] \in Seq(Frames)
    BY <1>2, <1>4, <2>3, <2>4
  <2>6. Whole(t.outputs, t.results)
    BY <2>1 DEF Gathered
  <2>7. Whole(t.outputs \o Routed(Len(t.results) + 1, items), Append(t.results, items))
    BY <1>0, <2>3, <2>6, WholeGrows
  <2> QED BY <2>5, <2>7
<1> QED BY <1>2, <1>5, <1>6, <1>7 DEF Gathered, n

LEMMA ClassifiedOK ==
    ASSUME NEW o, NEW eligible \in {"none", "payload-schema"}
    PROVE  /\ Classified(o, eligible) \in Classes
           /\ Passes(Classified(o, eligible)) =>
                 ~Conflicting(o) /\ Classified(o, eligible) = eligible
BY DEF Classified, Classes, Refusals, Passes

\* An evaluation that ends at a problem, of which nothing is admitted or skipped.
LEMMA EndsBadly ==
    ASSUME task \in TaskType, NEW class \in Classes, ~Passes(class),
           task' = Evaluated(task, class)
    PROVE  PipeInv'
<1>1. task' = [task EXCEPT !.step = "evaluated", !.class = class]
  BY DEF Evaluated
<1>2. task' \in TaskType
  BY <1>1 DEF TaskType
<1>3. task'.step = "evaluated" /\ task'.class = class
  BY <1>1 DEF TaskType
<1> QED BY <1>2, <1>3 DEF PipeInv

LEMMA MapFailsStep == ASSUME PipeInv, MapFails PROVE PipeInv'
<1>1. task \in TaskType
  BY DEF PipeInv
<1>2. PICK failure \in MapFailures :
         task' = IF failure = "mapper-transient" /\ Live /\ task.attempt < TransientRetries
                 THEN [task EXCEPT !.step = "delay"]
                 ELSE Evaluated(task, failure)
  BY DEF MapFails
<1>3. CASE task' = [task EXCEPT !.step = "delay"]
  <2>1. task' \in TaskType /\ task'.step = "delay"
    BY <1>1, <1>3 DEF TaskType
  <2> QED BY <2>1 DEF PipeInv
<1>4. CASE task' = Evaluated(task, failure)
  <2>1. failure \in Classes /\ ~Passes(failure)
    BY DEF MapFailures, Classes, Passes
  <2> QED BY <1>1, <1>4, <2>1, EndsBadly
<1> QED BY <1>2, <1>3, <1>4

LEMMA MapReturnsStep == ASSUME PipeInv, MapReturns PROVE PipeInv'
<1>1. task \in TaskType /\ Gathered(task) /\ Len(task.results) < ChannelCount
  BY DEF PipeInv, MapReturns
<1>2. PICK items \in BoundedSeq(Frames \cup Refused, MaxOutputs) :
          LET channel == Len(task.results) + 1
              refused == \E i \in DOMAIN items : items[i].data = "payload-schema"
              next == [task EXCEPT !.results = Append(@, items),
                                   !.outputs = @ \o Routed(channel, items),
                                   !.eligible = IF refused THEN "payload-schema" ELSE @]
          IN task' = IF ChannelProblem(items) # "none"
                     THEN Evaluated(task, ChannelProblem(items))
                     ELSE IF channel < ChannelCount THEN next
                     ELSE Evaluated(next, Classified(next.outputs, next.eligible))
  BY DEF MapReturns
<1>3. items \in Seq(Item)
  <2>1. PICK n \in 0..MaxOutputs : items \in [1..n -> Item]
    BY DEF BoundedSeq, SeqOf, Item
  <2>2. n \in Nat
    BY PipelineAssumption
  <2> QED BY <2>1, <2>2, IsSequence
<1>4. CASE ChannelProblem(items) # "none"
  <2>1. ChannelProblem(items) \in Classes /\ ~Passes(ChannelProblem(items))
    BY <1>3, <1>4, ProblemFree DEF Classes, Passes
  <2> QED BY <1>1, <1>2, <1>4, <2>1, EndsBadly
<1>5. CASE ChannelProblem(items) = "none"
  <2> DEFINE channel == Len(task.results) + 1
             refused == \E i \in DOMAIN items : items[i].data = "payload-schema"
             r == Append(task.results, items)
             o == task.outputs \o Routed(channel, items)
             e == IF refused THEN "payload-schema" ELSE task.eligible
             next == [task EXCEPT !.results = r, !.outputs = o, !.eligible = e]
  <2>1. /\ task.results \in Seq(Seq(Item)) /\ task.outputs \in Seq(Output)
        /\ task.eligible \in {"none", "payload-schema"} /\ Len(task.results) \in Nat
    BY <1>1, LenProperties DEF TaskType
  <2>2. channel \in Channels
    BY <1>1, <2>1, PipelineAssumption DEF Channels
  <2>3. Routed(channel, items) \in Seq(Output)
    BY <1>3, <2>2, RoutedTyped
  <2>4. r \in Seq(Seq(Item)) /\ o \in Seq(Output) /\ e \in {"none", "payload-schema"}
    BY <1>3, <2>1, <2>3, AppendProperties, ConcatProperties
  <2>5. task' = IF channel < ChannelCount THEN next
                ELSE Evaluated(next, Classified(next.outputs, next.eligible))
    BY <1>2, <1>5
  <2> HIDE DEF r, o, e
  <2>6. /\ next \in TaskType /\ next.results = r /\ next.outputs = o /\ next.eligible = e
        /\ next.step = task.step
    BY <1>1, <2>4 DEF TaskType
  <2> HIDE DEF next
  <2>7. Gathered(next) /\ Len(next.results) = channel
    BY <1>1, <1>3, <1>5, <2>6, GathersMore DEF r, o, e
  <2>8. CASE channel < ChannelCount
    BY <2>5, <2>6, <2>7, <2>8 DEF PipeInv, MapReturns
  <2>9. CASE ~(channel < ChannelCount)
    <3> DEFINE class == Classified(o, e)
    <3>1. class \in Classes /\ (Passes(class) => ~Conflicting(o) /\ class = e)
      BY <2>4, ClassifiedOK
    <3>2. task' = [next EXCEPT !.step = "evaluated", !.class = class]
      BY <2>5, <2>6, <2>9 DEF Evaluated
    <3> HIDE DEF class
    <3>3. /\ task' \in TaskType /\ task'.step = "evaluated" /\ task'.class = class
          /\ task'.results = next.results /\ task'.outputs = o /\ task'.eligible = e
      BY <2>6, <3>1, <3>2 DEF TaskType
    <3>4. Gathered(task')
      BY <2>6, <2>7, <3>3 DEF Gathered
    <3>5. Len(task'.results) = ChannelCount
      BY <1>1, <2>1, <2>7, <2>9, <3>3, PipelineAssumption
    <3>6. Passes(class) => OutputsAgree(o)
      BY <2>4, <3>1, NoConflictAgrees
    <3> QED BY <3>1, <3>3, <3>4, <3>5, <3>6 DEF PipeInv
  <2> QED BY <2>8, <2>9
<1> QED BY <1>4, <1>5

LEMMA DelayEndsStep == ASSUME PipeInv, DelayEnds PROVE PipeInv'
<1>1. task \in TaskType /\ task' = NextAttempt(task)
  BY DEF PipeInv, DelayEnds
<1>2. <<>> \in Seq(Output) /\ <<>> \in Seq(Seq(Item))
  BY EmptySeq
<1> DEFINE n == task.attempt + 1
<1>3. n \in Nat
  BY <1>1 DEF TaskType
<1>4. task' = [task EXCEPT !.step = "map", !.attempt = n, !.outputs = <<>>,
                           !.eligible = "none", !.results = <<>>]
  BY <1>1 DEF NextAttempt
<1> HIDE DEF n
<1>5. /\ task' \in TaskType /\ task'.step = "map" /\ task'.outputs = <<>>
      /\ task'.eligible = "none" /\ task'.results = <<>>
  BY <1>1, <1>2, <1>3, <1>4 DEF TaskType
<1>6. Gathered(task') /\ Len(task'.results) < ChannelCount
  BY <1>5, StartsEmpty
<1> QED BY <1>5, <1>6 DEF PipeInv

LEMMA TaskEndsStep == ASSUME task' = NoTask PROVE PipeInv'
BY NoTaskTyped DEF PipeInv

LEMMA TaskStartsStep == ASSUME PipeInv, TaskStarts PROVE PipeInv'
<1>1. CASE task' = NoTask
  BY <1>1, TaskEndsStep
<1>2. CASE task' = [NoTask EXCEPT !.step = "map"]
  <2>1. /\ task' \in TaskType /\ task'.step = "map" /\ task'.outputs = <<>>
        /\ task'.eligible = "none" /\ task'.results = <<>>
    BY <1>2, NoTaskTyped DEF TaskType, NoTask
  <2>2. Gathered(task') /\ Len(task'.results) < ChannelCount
    BY <2>1, StartsEmpty
  <2> QED BY <2>1, <2>2 DEF PipeInv
<1> QED BY <1>1, <1>2 DEF TaskStarts, Abandons, Pauses, Ends

LEMMA PipeSteps == ASSUME PipeInv, [PipeNext]_pipeVars PROVE PipeInv'
<1>1. CASE UNCHANGED task
  BY <1>1 DEF PipeInv
<1>2. CASE JobAdvances \/ JobResumes \/ JobAdvancesPast \/ AdapterStopped
  BY <1>1, <1>2 DEF JobAdvances, JobResumes, JobAdvancesPast, AdapterStopped
<1>3. CASE TaskStarts \/ MapFails \/ MapReturns \/ DelayEnds
  BY <1>3, TaskStartsStep, MapFailsStep, MapReturnsStep, DelayEndsStep
<1>4. CASE MappingAborted \/ Finish
  <2>1. task' = NoTask
    BY <1>4 DEF MappingAborted, Finish, Abandons, Pauses, Commits, Ends
  <2> QED BY <2>1, TaskEndsStep
<1>5. CASE Advance \/ Resume \/ AdvancePast \/ Redrive \/ SubscriberChanges \/ AdapterStops
  BY <1>1, <1>5 DEF Advance, Resume, AdvancePast, Request, Redrive, SubscriberChanges, AdapterStops
<1>6. CASE UNCHANGED pipeVars
  BY <1>1, <1>6 DEF pipeVars
<1> QED BY <1>2, <1>3, <1>4, <1>5, <1>6 DEF PipeNext, PipeMoves

\* What an evaluation holds of its outputs at every point of an attempt.
THEOREM PipelineInvariant == PipeSpec => []PipeInv
<1>1. PipeInit => PipeInv
  <2> SUFFICES ASSUME PipeInit PROVE PipeInv
    OBVIOUS
  <2> QED BY NoTaskTyped DEF PipeInit, PipeInv
<1>2. PipeInv /\ [PipeNext]_pipeVars => PipeInv'
  BY PipeSteps
<1> QED BY <1>1, <1>2, PTL DEF PipeSpec

\* #prepare and #admit: what is admitted is every channel's outputs of one attempt, in order.
THEOREM RecordsAreWhole == PipeSpec => []AdmitsWholeRecords
<1>1. PipeInv => AdmitsWholeRecords
  <2> SUFFICES ASSUME PipeInv, task.step = "evaluated", task.class = "none"
               PROVE  /\ Len(task.results) = ChannelCount
                      /\ FinalItems \subseteq Seq(Frames)
                      /\ Whole(task.outputs, task.results)
    BY DEF AdmitsWholeRecords
  <2>1. Gathered(task) /\ Len(task.results) = ChannelCount /\ task.eligible = "none"
    BY DEF PipeInv, Passes
  <2>2. /\ \A c \in DOMAIN task.results : task.results[c] \in Seq(Frames)
        /\ Whole(task.outputs, task.results)
    BY <2>1 DEF Gathered
  <2> QED BY <2>1, <2>2 DEF FinalItems, Range
<1> QED BY <1>1, PipelineInvariant, PTL

\* #prepare: a record that a quarantine policy may skip has that one kind of problem.
THEOREM IntegrityComesFirst == PipeSpec => []IntegrityOutranks
<1>1. PipeInv => IntegrityOutranks
  <2> SUFFICES ASSUME PipeInv, task.step = "evaluated", task.class = "payload-schema", ClassifyAll
               PROVE  /\ Len(task.results) = ChannelCount
                      /\ {item.data : item \in UNION {Range(items) : items \in FinalItems}}
                            \cap Refusals = {"payload-schema"}
                      /\ OutputsAgree(task.outputs)
    BY DEF IntegrityOutranks, OutputsAgree
  <2>1. /\ Gathered(task) /\ Len(task.results) = ChannelCount
        /\ task.eligible = "payload-schema" /\ OutputsAgree(task.outputs)
    BY DEF PipeInv, Passes
  <2>2. ASSUME NEW items \in FinalItems, NEW item \in Range(items)
        PROVE  item.data \notin Refusals \/ item.data = "payload-schema"
    <3>1. PICK c \in DOMAIN task.results : items = task.results[c]
      BY DEF FinalItems, Range
    <3>2. PICK i \in DOMAIN items : item = items[i]
      BY DEF Range
    <3>3. item \in Frames \/ item.data = "payload-schema"
      BY <2>1, <3>1, <3>2 DEF Gathered
    <3>4. item \in Frames => item.data \notin Refusals
      BY PipelineAssumption DEF Frames, Refusals
    <3> QED BY <3>3, <3>4
  <2>3. \E items \in FinalItems : \E item \in Range(items) : item.data = "payload-schema"
    <3>1. PICK c \in DOMAIN task.results : \E i \in DOMAIN task.results[c] :
             task.results[c][i].data = "payload-schema"
      BY <2>1 DEF Gathered
    <3>2. task.results[c] \in FinalItems
      BY DEF FinalItems, Range
    <3> QED BY <3>1, <3>2 DEF Range
  <2>4. "payload-schema" \in Refusals
    BY DEF Refusals
  <2> QED BY <2>1, <2>2, <2>3, <2>4
<1> QED BY <1>1, PipelineInvariant, PTL

=============================================================================
