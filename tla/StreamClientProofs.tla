------------------------- MODULE StreamClientProofs -------------------------
(***************************************************************************)
(* Proofs about the SDK's connection management, for any subscriptions,     *)
(* identities and number of opens.                                         *)
(***************************************************************************)
EXTENDS StreamClientProperties, FiniteSetTheorems, TLAPS

-----------------------------------------------------------------------------
(* The inductive invariant, of a world's three parts: a private method leaves *)
(* the variables in a world that a later part of the same step completes.     *)

\* What a subscription remembers is the client's own: its connection, its identity.
SubscriptionFits(sub, c) ==
    /\ sub.at # 0 => /\ sub.phase = "registered"
                     /\ sub.at = c.connection /\ sub.identity = c.identity
    /\ sub.phase = "new" => sub.identity = NoIdentity
    /\ sub.phase = "registered" => sub.identity \in {NoIdentity, c.identity}

\* Opens are numbered in their order: those not used yet are the last ones.
Numbered(o) == \E k \in 0..MaxOpens : \A i \in Opens : o[i].phase = "none" <=> i > k

Fits(c, o, b) ==
    /\ c \in ClientType
    /\ o \in [Opens -> OpenType]
    /\ b \in [Subscriptions -> SubscriptionType]
    /\ \A i \in Opens : o[i].phase = "open" <=> i = c.connection
    /\ c.connection # 0 => o[c.connection].identity = c.identity
    /\ \A s \in Subscriptions : SubscriptionFits(b[s], c)
    /\ Numbered(o)

StreamInv == Fits(client, opens, subs) /\ faults \in 0..MaxFaults

\* Another record of the client, of the same connection and identity.
Keeps(c, d) == d \in ClientType /\ d.connection = c.connection /\ d.identity = c.identity

\* The same opens are used.
SameUse(o, p) == \A i \in Opens : o[i].phase = "none" <=> p[i].phase = "none"

IsWorld(w) == w = [c |-> w.c, opens |-> w.opens, subs |-> w.subs]

-----------------------------------------------------------------------------
(* One field of the client.                                                *)

LEMMA ClientFields ==
    ASSUME NEW c \in ClientType
    PROVE  /\ c.state \in States /\ c.connection \in 0..MaxOpens /\ c.generation \in Nat
           /\ c.identity \in Identities \cup {NoIdentity} /\ c.error \in Errors
           /\ c.refresh \in BOOLEAN /\ c.closed \in BOOLEAN /\ c.suspended \in BOOLEAN
           /\ Keeps(c, c)
BY DEF ClientType, Keeps

LEMMA SetState ==
    ASSUME NEW c \in ClientType, NEW x \in States
    PROVE  Keeps(c, [c EXCEPT !.state = x])
BY DEF ClientType, Keeps

LEMMA SetError ==
    ASSUME NEW c \in ClientType, NEW x \in Errors
    PROVE  Keeps(c, [c EXCEPT !.error = x])
BY DEF ClientType, Keeps

LEMMA SetGeneration ==
    ASSUME NEW c \in ClientType, NEW x \in Nat
    PROVE  Keeps(c, [c EXCEPT !.generation = x])
BY DEF ClientType, Keeps

LEMMA SetFresh ==
    ASSUME NEW c \in ClientType, NEW x \in 1..(MaxOpens + 1)
    PROVE  Keeps(c, [c EXCEPT !.fresh = x])
BY DEF ClientType, Keeps

LEMMA SetFlag ==
    ASSUME NEW c \in ClientType, NEW x \in BOOLEAN
    PROVE  /\ Keeps(c, [c EXCEPT !.connecting = x])
           /\ Keeps(c, [c EXCEPT !.suspended = x])
           /\ Keeps(c, [c EXCEPT !.closed = x])
           /\ Keeps(c, [c EXCEPT !.ever = x])
           /\ Keeps(c, [c EXCEPT !.reconnect = x])
           /\ Keeps(c, [c EXCEPT !.refresh = x])
<1>1. Keeps(c, [c EXCEPT !.connecting = x])
  BY DEF ClientType, Keeps
<1>2. Keeps(c, [c EXCEPT !.suspended = x])
  BY DEF ClientType, Keeps
<1>3. Keeps(c, [c EXCEPT !.closed = x])
  BY DEF ClientType, Keeps
<1>4. Keeps(c, [c EXCEPT !.ever = x])
  BY DEF ClientType, Keeps
<1>5. Keeps(c, [c EXCEPT !.reconnect = x])
  BY DEF ClientType, Keeps
<1>6. Keeps(c, [c EXCEPT !.refresh = x])
  BY DEF ClientType, Keeps
<1> QED BY <1>1, <1>2, <1>3, <1>4, <1>5, <1>6

LEMMA SetConnection ==
    ASSUME NEW c \in ClientType, NEW i \in 0..MaxOpens
    PROVE  LET d == [c EXCEPT !.connection = i]
           IN d \in ClientType /\ d.connection = i /\ d.identity = c.identity
BY DEF ClientType

LEMMA SetIdentity ==
    ASSUME NEW c \in ClientType, NEW x \in Identities \cup {NoIdentity}
    PROVE  LET d == [c EXCEPT !.identity = x]
           IN d \in ClientType /\ d.connection = c.connection /\ d.identity = x
BY DEF ClientType

-----------------------------------------------------------------------------
(* One part of a world at a time.                                          *)

LEMMA ClientChanges ==
    ASSUME NEW c, NEW o, NEW b, Fits(c, o, b), NEW d, Keeps(c, d)
    PROVE  Fits(d, o, b)
BY DEF Fits, Keeps, SubscriptionFits

LEMMA SubscriptionChanges ==
    ASSUME NEW c, NEW o, NEW b, Fits(c, o, b),
           NEW s \in Subscriptions, NEW r \in SubscriptionType, SubscriptionFits(r, c)
    PROVE  Fits(c, o, [b EXCEPT ![s] = r])
<1>1. [b EXCEPT ![s] = r] \in [Subscriptions -> SubscriptionType]
  BY DEF Fits
<1>2. \A t \in Subscriptions : SubscriptionFits([b EXCEPT ![s] = r][t], c)
  BY DEF Fits
<1> QED BY <1>1, <1>2 DEF Fits

\* An open in flight goes on, or ends.
LEMMA OpenChanges ==
    ASSUME NEW c, NEW o, NEW b, Fits(c, o, b),
           NEW i \in Opens, NEW r \in OpenType,
           o[i].phase # "none", o[i].phase # "open", r.phase # "none", r.phase # "open"
    PROVE  Fits(c, [o EXCEPT ![i] = r], b) /\ SameUse(o, [o EXCEPT ![i] = r])
<1> DEFINE p == [o EXCEPT ![i] = r]
<1>1. p \in [Opens -> OpenType]
  BY DEF Fits
<1>2. p[i] = r /\ \A j \in Opens \ {i} : p[j] = o[j]
  BY DEF Fits
<1>3. i # c.connection /\ c.connection \in 0..MaxOpens
  BY ClientFields DEF Fits
<1> HIDE DEF p
<1>4. SameUse(o, p)
  BY <1>2 DEF SameUse
<1>5. Numbered(p)
  BY <1>4 DEF SameUse, Numbered, Fits
<1>6. \A j \in Opens : p[j].phase = "open" <=> j = c.connection
  BY <1>2, <1>3 DEF Fits
<1>7. c.connection # 0 => c.connection \in Opens \ {i}
  BY <1>3, StreamClientAssumption DEF Opens
<1>8. c.connection # 0 => p[c.connection].identity = c.identity
  BY <1>2, <1>7 DEF Fits
<1>9. Fits(c, p, b)
  BY <1>1, <1>5, <1>6, <1>8 DEF Fits
<1> QED BY <1>4, <1>9 DEF p

\* The next number is that of an open not used yet, and all before it are used.
LEMMA NextIsUnused ==
    ASSUME opens \in [Opens -> OpenType], Numbered(opens)
    PROVE  /\ NextOpen \in 1..(MaxOpens + 1)
           /\ CanConnect => /\ NextOpen \in Opens
                            /\ \A i \in Opens : opens[i].phase = "none" <=> i >= NextOpen
<1>1. PICK k \in 0..MaxOpens : \A i \in Opens : opens[i].phase = "none" <=> i > k
  BY DEF Numbered
<1>2. MaxOpens \in Nat \ {0} /\ k \in Nat /\ k <= MaxOpens
  BY <1>1, StreamClientAssumption
<1>3. Unused = (k + 1)..MaxOpens
  <2>1. ASSUME NEW i \in Unused PROVE i \in (k + 1)..MaxOpens
    BY <1>1, <1>2 DEF Unused, Opens
  <2>2. ASSUME NEW i \in (k + 1)..MaxOpens PROVE i \in Unused
    BY <1>1, <1>2 DEF Unused, Opens
  <2> QED BY <2>1, <2>2
<1>4. Cardinality((k + 1)..MaxOpens) = IF k + 1 > MaxOpens THEN 0 ELSE MaxOpens - (k + 1) + 1
  BY <1>2, FS_Interval
<1>5. NextOpen = k + 1
  BY <1>2, <1>3, <1>4 DEF NextOpen
<1>6. CanConnect => k < MaxOpens
  BY <1>2, <1>3 DEF CanConnect
<1> QED BY <1>1, <1>2, <1>5, <1>6 DEF Opens

\* An open that starts takes the next number.
LEMMA OpenStarts ==
    ASSUME StreamInv, CanConnect, NEW c, NEW o, NEW b, Fits(c, o, b), SameUse(opens, o),
           NEW r \in OpenType, r.phase = "token"
    PROVE  Fits(c, [o EXCEPT ![NextOpen] = r], b)
<1> DEFINE n == NextOpen
           p == [o EXCEPT ![n] = r]
<1>1. n \in Opens /\ \A i \in Opens : opens[i].phase = "none" <=> i >= n
  BY NextIsUnused DEF StreamInv, Fits
<1> HIDE DEF n
<1>2. \A i \in Opens : o[i].phase = "none" <=> i >= n
  BY <1>1 DEF SameUse
<1>3. p \in [Opens -> OpenType]
  BY <1>1 DEF Fits
<1>4. p[n] = r /\ \A j \in Opens \ {n} : p[j] = o[j]
  BY <1>1 DEF Fits
<1> HIDE DEF p
<1>5. n \in Nat /\ n >= 1 /\ n <= MaxOpens /\ MaxOpens \in Nat
  BY <1>1, StreamClientAssumption DEF Opens
<1>6. \A i \in Opens : p[i].phase = "none" <=> i > n
  <2>1. ASSUME NEW i \in Opens, i # n PROVE p[i].phase = "none" <=> i > n
    <3>1. i \in Nat
      BY DEF Opens
    <3>2. p[i] = o[i]
      BY <1>4, <2>1
    <3> QED BY <1>2, <1>5, <2>1, <3>1, <3>2
  <2>2. p[n].phase # "none" /\ ~(n > n)
    BY <1>4, <1>5
  <2> QED BY <2>1, <2>2
<1>7. Numbered(p)
  BY <1>5, <1>6 DEF Numbered
<1>8. o[n].phase = "none"
  BY <1>1, <1>2, <1>5
<1>9. n # c.connection /\ c.connection \in 0..MaxOpens
  BY <1>1, <1>8, ClientFields DEF Fits
<1>10. \A j \in Opens : p[j].phase = "open" <=> j = c.connection
  <2>1. p[n].phase # "open"
    BY <1>4
  <2> QED BY <1>4, <1>9, <2>1 DEF Fits
<1>11. c.connection # 0 => c.connection \in Opens \ {n}
  BY <1>9, <1>5 DEF Opens
<1>12. c.connection # 0 => p[c.connection].identity = c.identity
  BY <1>4, <1>11 DEF Fits
<1>13. Fits(c, p, b)
  BY <1>3, <1>7, <1>10, <1>12 DEF Fits
<1> QED BY <1>13 DEF p, n

-----------------------------------------------------------------------------
(* The private methods.                                                    *)

\* #detach of every registered subscription, of subs alone.
DetachedSubs(b) ==
    [s \in Subscriptions |-> IF b[s].phase = "registered" THEN [b[s] EXCEPT !.at = 0] ELSE b[s]]

LEMMA SubscriptionDetaches ==
    ASSUME NEW r \in SubscriptionType
    PROVE  LET q == [r EXCEPT !.at = 0]
           IN q \in SubscriptionType /\ q.at = 0 /\ q.phase = r.phase /\ q.identity = r.identity
BY StreamClientAssumption DEF SubscriptionType

LEMMA SubscriptionEnds ==
    ASSUME NEW r \in SubscriptionType
    PROVE  LET q == [r EXCEPT !.phase = "ended", !.at = 0]
           IN q \in SubscriptionType /\ q.at = 0 /\ q.phase = "ended"
<1> DEFINE m == [r EXCEPT !.phase = "ended"]
<1>1. m \in SubscriptionType /\ m.phase = "ended"
  BY DEF SubscriptionType
<1> HIDE DEF m
<1>2. LET q == [m EXCEPT !.at = 0]
      IN q \in SubscriptionType /\ q.at = 0 /\ q.phase = "ended"
  BY <1>1, SubscriptionDetaches
<1>3. [r EXCEPT !.phase = "ended", !.at = 0] = [m EXCEPT !.at = 0]
  BY DEF m
<1> QED BY <1>2, <1>3

LEMMA DetachedFits ==
    ASSUME NEW c, NEW o, NEW b, Fits(c, o, b)
    PROVE  /\ Fits(c, o, DetachedSubs(b))
           /\ \A s \in Subscriptions : DetachedSubs(b)[s].at = 0
<1>1. ASSUME NEW s \in Subscriptions
      PROVE  LET q == DetachedSubs(b)[s]
             IN /\ q \in SubscriptionType /\ q.at = 0
                /\ q.phase = b[s].phase /\ q.identity = b[s].identity
  <2>1. b[s] \in SubscriptionType /\ SubscriptionFits(b[s], c)
    BY DEF Fits
  <2>2. CASE b[s].phase = "registered"
    BY <2>1, <2>2, SubscriptionDetaches DEF DetachedSubs
  <2>3. CASE b[s].phase # "registered"
    BY <2>1, <2>3 DEF DetachedSubs, SubscriptionFits
  <2> QED BY <2>2, <2>3
<1>2. DetachedSubs(b) \in [Subscriptions -> SubscriptionType]
  <2>1. DetachedSubs(b) = [s \in Subscriptions |-> DetachedSubs(b)[s]]
    BY DEF DetachedSubs
  <2> QED BY <1>1, <2>1
<1>3. \A s \in Subscriptions : SubscriptionFits(DetachedSubs(b)[s], c)
  BY <1>1 DEF Fits, SubscriptionFits
<1> QED BY <1>1, <1>2, <1>3 DEF Fits

\* The opens after the client's connection, if it has one, is closed.
Hung(c, o) ==
    IF c.connection = 0 THEN o ELSE [o EXCEPT ![c.connection].phase = "closed"]

\* A client that lets its connection go, after its subscriptions let it go.
LEMMA Released ==
    ASSUME NEW c, NEW o, NEW b, Fits(c, o, b), \A s \in Subscriptions : b[s].at = 0,
           NEW d \in ClientType, d.connection = 0, d.identity = c.identity
    PROVE  Fits(d, Hung(c, o), b) /\ SameUse(o, Hung(c, o))
<1> DEFINE p == Hung(c, o)
<1>1. c.connection \in 0..MaxOpens /\ MaxOpens \in Nat
  BY ClientFields, StreamClientAssumption DEF Fits
<1>2. \A s \in Subscriptions : SubscriptionFits(b[s], d)
  BY DEF Fits, SubscriptionFits
<1>3. /\ p \in [Opens -> OpenType] /\ SameUse(o, p)
      /\ \A j \in Opens : p[j].phase # "open"
  <2>1. CASE c.connection = 0
    <3>1. \A j \in Opens : j # 0
      BY DEF Opens
    <3> QED BY <2>1, <3>1 DEF Fits, Hung, SameUse
  <2>2. CASE c.connection # 0
    <3> DEFINE k == c.connection
               r == [o[k] EXCEPT !.phase = "closed"]
    <3>1. k \in Opens
      BY <1>1, <2>2 DEF Opens
    <3>2. o[k] \in OpenType /\ o[k].phase = "open"
      BY <3>1 DEF Fits
    <3>3. r \in OpenType /\ r.phase = "closed"
      BY <3>2 DEF OpenType
    <3>4. p = [o EXCEPT ![k] = r]
      BY <2>2 DEF Hung
    <3> HIDE DEF p, r
    <3>5. p \in [Opens -> OpenType] /\ p[k] = r /\ \A j \in Opens \ {k} : p[j] = o[j]
      BY <3>1, <3>3, <3>4 DEF Fits
    <3>6. SameUse(o, p)
      BY <3>2, <3>3, <3>5 DEF SameUse
    <3>7. \A j \in Opens : p[j].phase # "open"
      BY <3>3, <3>5 DEF Fits
    <3> QED BY <3>5, <3>6, <3>7
  <2> QED BY <2>1, <2>2
<1> HIDE DEF p
<1>4. Numbered(p)
  BY <1>3 DEF SameUse, Numbered, Fits
<1>5. \A j \in Opens : j # 0
  BY DEF Opens
<1>6. Fits(d, p, b)
  BY <1>2, <1>3, <1>4, <1>5 DEF Fits
<1> QED BY <1>3, <1>6 DEF p

\* Detached, Suspend and ScheduleReconnect leave the opens and the connection alone.
LEMMA DetachedParts ==
    ASSUME NEW w, IsWorld(w)
    PROVE  /\ IsWorld(Detached(w)) /\ Detached(w).c = w.c /\ Detached(w).opens = w.opens
           /\ w.subs \in [Subscriptions -> SubscriptionType]
                => Detached(w).subs = DetachedSubs(w.subs)
BY DEF IsWorld, Detached, DetachedSubs, Registered

LEMMA SuspendFits ==
    ASSUME NEW w, IsWorld(w), Fits(w.c, w.opens, w.subs)
    PROVE  Fits(Suspend(w).c, Suspend(w).opens, Suspend(w).subs)
<1> DEFINE v == Detached(w)
           m == [v.c EXCEPT !.suspended = TRUE]
           n == [m EXCEPT !.reconnect = FALSE]
           d == [n EXCEPT !.state = "auth-required"]
<1>1. IsWorld(v) /\ v.c = w.c /\ v.opens = w.opens /\ v.subs = DetachedSubs(w.subs)
  BY DetachedParts DEF Fits
<1> HIDE DEF v
<1>2. Fits(v.c, v.opens, v.subs)
  BY <1>1, DetachedFits
<1>3. Keeps(v.c, m)
  BY <1>2, SetFlag DEF Fits
<1> HIDE DEF m
<1>4. Keeps(v.c, n)
  BY <1>3, SetFlag DEF Keeps
<1> HIDE DEF n
<1>5. "auth-required" \in States
  BY DEF States
<1>6. Keeps(v.c, d)
  BY <1>4, <1>5, SetState DEF Keeps
<1>7. d = [v.c EXCEPT !.suspended = TRUE, !.reconnect = FALSE, !.state = "auth-required"]
  BY DEF m, n
<1> HIDE DEF d
<1>8. Suspend(w).c = d /\ Suspend(w).opens = v.opens /\ Suspend(w).subs = v.subs
  BY <1>1, <1>7 DEF Suspend, IsWorld, v
<1> QED BY <1>2, <1>6, <1>8, ClientChanges

LEMMA ScheduleReconnectFits ==
    ASSUME NEW w, IsWorld(w), Fits(w.c, w.opens, w.subs)
    PROVE  Fits(ScheduleReconnect(w).c, ScheduleReconnect(w).opens, ScheduleReconnect(w).subs)
<1> DEFINE v == ScheduleReconnect(w)
<1>1. CASE w.c.closed \/ w.c.suspended
  BY <1>1 DEF ScheduleReconnect
<1>2. ASSUME NEW armed \in BOOLEAN, NEW x \in States
      PROVE  Keeps(w.c, [w.c EXCEPT !.reconnect = armed, !.state = x])
  <2> DEFINE m == [w.c EXCEPT !.reconnect = armed]
  <2>1. Keeps(w.c, m)
    BY SetFlag DEF Fits
  <2> HIDE DEF m
  <2>2. Keeps(w.c, [m EXCEPT !.state = x])
    BY <2>1, SetState DEF Keeps
  <2>3. [w.c EXCEPT !.reconnect = armed, !.state = x] = [m EXCEPT !.state = x]
    BY DEF m
  <2> QED BY <2>2, <2>3
<1>3. ASSUME ~(w.c.closed \/ w.c.suspended)
      PROVE  v.opens = w.opens /\ v.subs = w.subs /\ Keeps(w.c, v.c)
  <2>1. "idle" \in States /\ "reconnecting" \in States
    BY DEF States
  <2> DEFINE idle == [w.c EXCEPT !.reconnect = FALSE, !.state = "idle"]
             again == [w.c EXCEPT !.reconnect = TRUE, !.state = "reconnecting"]
  <2>2. Keeps(w.c, idle) /\ Keeps(w.c, again)
    BY <1>2, <2>1
  <2>3. /\ v.opens = w.opens /\ v.subs = w.subs
        /\ v.c = IF Registered(w) = {} THEN idle ELSE again
    BY <1>3 DEF ScheduleReconnect, IsWorld
  <2> QED BY <2>2, <2>3
<1> QED BY <1>1, <1>3, ClientChanges

\* Whatever a failed open's error is.
LEMMA HandleConnectFailureFits ==
    ASSUME NEW w, IsWorld(w), Fits(w.c, w.opens, w.subs), NEW error \in Errors
    PROVE  LET v == HandleConnectFailure(w, error) IN Fits(v.c, v.opens, v.subs)
<1> DEFINE m == [w.c EXCEPT !.connecting = FALSE]
           d == [m EXCEPT !.error = error]
           told == [w EXCEPT !.c = [@ EXCEPT !.connecting = FALSE, !.error = error]]
<1>1. Keeps(w.c, m)
  BY SetFlag DEF Fits
<1> HIDE DEF m
<1>2. Keeps(w.c, d)
  BY <1>1, SetError DEF Keeps
<1>3. d = [w.c EXCEPT !.connecting = FALSE, !.error = error]
  BY DEF m
<1> HIDE DEF d
<1>4. IsWorld(told) /\ told.c = d /\ told.opens = w.opens /\ told.subs = w.subs
  BY <1>3 DEF IsWorld
<1> HIDE DEF told
<1>5. Fits(told.c, told.opens, told.subs)
  BY <1>2, <1>4, ClientChanges
<1>6. HandleConnectFailure(w, error) =
         IF error = "other" THEN ScheduleReconnect(told) ELSE Suspend(told)
  BY DEF HandleConnectFailure, told
<1> QED BY <1>4, <1>5, <1>6, ScheduleReconnectFits, SuspendFits

\* What #handleDisconnect leaves of the connection that is gone.
LEMMA HandleDisconnectFits ==
    ASSUME NEW w, IsWorld(w), Fits(w.c, w.opens, w.subs), w.c.connection # 0
    PROVE  LET v == HandleDisconnect(w) IN Fits(v.c, v.opens, v.subs)
<1> DEFINE u == Detached(w)
           m == [u.c EXCEPT !.connection = 0]
           d == [m EXCEPT !.refresh = FALSE]
           gone == [u EXCEPT !.opens[w.c.connection].phase = "closed",
                             !.c = [@ EXCEPT !.connection = 0, !.refresh = FALSE]]
<1>1. IsWorld(u) /\ u.c = w.c /\ u.opens = w.opens /\ u.subs = DetachedSubs(w.subs)
  BY DetachedParts DEF Fits
<1>2. /\ HandleDisconnect(w) =
            IF w.c.error = "refused" THEN Suspend(gone) ELSE ScheduleReconnect(gone)
  BY DEF HandleDisconnect
<1> HIDE DEF u
<1>3. Fits(u.c, u.opens, u.subs) /\ \A s \in Subscriptions : u.subs[s].at = 0
  BY <1>1, DetachedFits
<1>4. m \in ClientType /\ m.connection = 0 /\ m.identity = u.c.identity
  BY <1>3, SetConnection, StreamClientAssumption DEF Fits
<1>5. d = [u.c EXCEPT !.connection = 0, !.refresh = FALSE]
  OBVIOUS
<1> HIDE DEF m
<1>6. d \in ClientType /\ d.connection = 0 /\ d.identity = u.c.identity
  BY <1>4, SetFlag DEF Keeps
<1> HIDE DEF d
<1>7. /\ IsWorld(gone) /\ gone.c = d /\ gone.subs = u.subs
      /\ gone.opens = Hung(u.c, u.opens)
  <2> DEFINE k == w.c.connection
             v == [u EXCEPT !.opens[k].phase = "closed"]
  <2>1. u = [c |-> u.c, opens |-> u.opens, subs |-> u.subs] /\ u.c = w.c
    BY <1>1 DEF IsWorld
  <2>2. v = [c |-> u.c, opens |-> [u.opens EXCEPT ![k].phase = "closed"], subs |-> u.subs]
    BY <2>1
  <2>3. gone = [v EXCEPT !.c = d]
    BY <1>5, <2>1, <2>2
  <2> HIDE DEF v, gone
  <2>4. gone = [c |-> d, opens |-> [u.opens EXCEPT ![k].phase = "closed"], subs |-> u.subs]
    BY <2>2, <2>3
  <2>5. [u.opens EXCEPT ![k].phase = "closed"] = Hung(u.c, u.opens)
    BY <2>1 DEF Hung
  <2> QED BY <2>4, <2>5 DEF IsWorld
<1> HIDE DEF gone
<1>8. Fits(gone.c, gone.opens, gone.subs)
  BY <1>3, <1>6, <1>7, Released
<1> QED BY <1>2, <1>7, <1>8, SuspendFits, ScheduleReconnectFits

LEMMA OpenFits ==
    ASSUME StreamInv, CanConnect, NEW w, IsWorld(w), Fits(w.c, w.opens, w.subs),
           SameUse(opens, w.opens), NEW by \in {"connect", "refresh"}
    PROVE  LET v == Open(w, by) IN Fits(v.c, v.opens, v.subs)
<1> DEFINE m == [Unopened EXCEPT !.by = by]
           n == [m EXCEPT !.generation = w.c.generation]
           r == [n EXCEPT !.phase = "token"]
<1>1. Unopened \in OpenType
  BY DEF Unopened, OpenType
<1>2. m \in OpenType
  BY <1>1 DEF OpenType
<1>3. r = [Unopened EXCEPT !.by = by, !.generation = w.c.generation, !.phase = "token"]
  OBVIOUS
<1> HIDE DEF m
<1>4. w.c.generation \in Nat
  BY ClientFields DEF Fits
<1>5. n \in OpenType
  BY <1>2, <1>4 DEF OpenType
<1> HIDE DEF n
<1>6. r \in OpenType /\ r.phase = "token"
  BY <1>5 DEF OpenType
<1> HIDE DEF r
<1>7. /\ Open(w, by).c = w.c /\ Open(w, by).subs = w.subs
      /\ Open(w, by).opens = [w.opens EXCEPT ![NextOpen] = r]
  BY <1>3 DEF Open, IsWorld
<1>8. Fits(w.c, [w.opens EXCEPT ![NextOpen] = r], w.subs)
  BY <1>6, OpenStarts
<1> QED BY <1>7, <1>8

LEMMA ConnectFits ==
    ASSUME StreamInv, CanConnect, NEW w, IsWorld(w), Fits(w.c, w.opens, w.subs),
           SameUse(opens, w.opens), NEW explicit \in BOOLEAN
    PROVE  LET v == Connect(w, explicit) IN Fits(v.c, v.opens, v.subs)
<1> DEFINE x == IF w.c.ever /\ ~explicit THEN "reconnecting" ELSE "connecting"
           m == [w.c EXCEPT !.generation = @ + 1]
           n == [m EXCEPT !.connecting = TRUE]
           d == [n EXCEPT !.state = x]
           v == [w EXCEPT !.c = [@ EXCEPT !.generation = w.c.generation + 1, !.connecting = TRUE,
                   !.state = IF w.c.ever /\ ~explicit THEN "reconnecting" ELSE "connecting"]]
<1>1. x \in States
  BY DEF States
<1>2. d = [w.c EXCEPT !.generation = @ + 1, !.connecting = TRUE, !.state = x]
  OBVIOUS
<1>3. v = [w EXCEPT !.c = d]
  BY <1>2
<1> HIDE DEF x
<1>4. Keeps(w.c, m)
  BY ClientFields, SetGeneration DEF Fits
<1> HIDE DEF m
<1>5. Keeps(w.c, n)
  BY <1>4, SetFlag DEF Keeps
<1> HIDE DEF n
<1>6. Keeps(w.c, d)
  BY <1>1, <1>5, SetState DEF Keeps
<1>7. Connect(w, explicit) = IF w.c.closed THEN w ELSE Open(v, "connect")
  BY DEF Connect
<1> HIDE DEF d, v
<1>8. IsWorld(v) /\ v.c = d /\ v.opens = w.opens /\ v.subs = w.subs
  BY <1>3 DEF IsWorld
<1>9. Fits(v.c, v.opens, v.subs)
  BY <1>6, <1>8, ClientChanges
<1> QED BY <1>7, <1>8, <1>9, OpenFits

\* What #adopt makes of a subscription.
LEMMA SubscriptionAdopted ==
    ASSUME NEW r \in SubscriptionType, NEW i \in Opens,
           opens[i].identity \in Identities \cup {NoIdentity},
           r.identity \in {NoIdentity, opens[i].identity}
    PROVE  /\ Attach(r, i) \in SubscriptionType
           /\ Attach(r, i).phase = r.phase /\ Attach(r, i).at = i
           /\ Attach(r, i).identity = opens[i].identity
<1> DEFINE x == opens[i].identity
           y == IF r.identity = NoIdentity THEN x ELSE r.identity
           m == [r EXCEPT !.at = i]
<1>1. i \in 0..MaxOpens
  BY StreamClientAssumption DEF Opens
<1>2. y = x
  OBVIOUS
<1>3. m \in SubscriptionType /\ m.at = i /\ m.phase = r.phase /\ m.identity = r.identity
  BY <1>1 DEF SubscriptionType
<1>4. Attach(r, i) = [m EXCEPT !.identity = y]
  BY <1>3 DEF Attach
<1> HIDE DEF m, y
<1> QED BY <1>2, <1>3, <1>4 DEF SubscriptionType

\* #adopt of a connection whose hello has come.  The refresh timer is the caller's choice.
LEMMA AdoptFits ==
    ASSUME StreamInv, NEW w, IsWorld(w), Fits(w.c, w.opens, w.subs), w.opens = opens,
           NEW i \in Opens, opens[i].phase = "hello", NEW timer \in BOOLEAN
    PROVE  LET v == [Adopt(w, i) EXCEPT !.c.refresh = timer] IN Fits(v.c, v.opens, v.subs)
<1> DEFINE x == opens[i].identity
           switched == w.c.identity # NoIdentity /\ w.c.identity # x
           p == [j \in Opens |-> [w.opens[j] EXCEPT
                   !.phase = IF j = i THEN "open" ELSE IF j = w.c.connection THEN "closed"
                             ELSE w.opens[j].phase]]
           b == [s \in Subscriptions |->
                   IF s \notin Registered(w) THEN w.subs[s]
                   ELSE IF switched THEN [w.subs[s] EXCEPT !.phase = "ended", !.at = 0]
                   ELSE Attach(w.subs[s], i)]
           d1 == [w.c EXCEPT !.connection = i]
           d2 == [d1 EXCEPT !.identity = x]
           d3 == [d2 EXCEPT !.ever = TRUE]
           d4 == [d3 EXCEPT !.error = "none"]
           d5 == [d4 EXCEPT !.state = "connected"]
           d == [d5 EXCEPT !.refresh = timer]
           v == [Adopt(w, i) EXCEPT !.c.refresh = timer]
<1>1. /\ v.opens = p /\ v.subs = b
      /\ v.c = [[w.c EXCEPT !.connection = i, !.identity = opens[i].identity, !.ever = TRUE,
                            !.error = "none", !.state = "connected"] EXCEPT !.refresh = timer]
  BY DEF Adopt, IsWorld
<1>2. v.c = d
  BY <1>1
<1> HIDE DEF v
<1>3. /\ w.c \in ClientType /\ opens[i] \in OpenType /\ x \in Identities \cup {NoIdentity}
      /\ i \in 0..MaxOpens /\ i # 0
  BY StreamClientAssumption DEF Fits, OpenType, Opens
<1> HIDE DEF x
<1>4. d1 \in ClientType /\ d1.connection = i
  BY <1>3, SetConnection
<1> HIDE DEF d1
<1>5. d2 \in ClientType /\ d2.connection = i /\ d2.identity = x
  BY <1>3, <1>4, SetIdentity
<1> HIDE DEF d2
<1>6. d3 \in ClientType /\ d3.connection = i /\ d3.identity = x
  BY <1>5, SetFlag DEF Keeps
<1> HIDE DEF d3
<1>7. "none" \in Errors /\ "connected" \in States
  BY DEF Errors, States
<1>8. d4 \in ClientType /\ d4.connection = i /\ d4.identity = x
  BY <1>6, <1>7, SetError DEF Keeps
<1> HIDE DEF d4
<1>9. d5 \in ClientType /\ d5.connection = i /\ d5.identity = x
  BY <1>7, <1>8, SetState DEF Keeps
<1> HIDE DEF d5
<1>10. d \in ClientType /\ d.connection = i /\ d.identity = x
  BY <1>9, SetFlag DEF Keeps
<1> HIDE DEF d
<1>11. ASSUME NEW j \in Opens
       PROVE  /\ p[j] \in OpenType /\ p[j].identity = opens[j].identity
              /\ p[j].phase = "open" <=> j = i
              /\ p[j].phase = "none" <=> opens[j].phase = "none"
  <2> DEFINE f == IF j = i THEN "open" ELSE IF j = w.c.connection THEN "closed"
                  ELSE w.opens[j].phase
  <2>1. opens[j] \in OpenType /\ (opens[j].phase = "open" <=> j = w.c.connection)
    BY DEF Fits
  <2>2. p[j] = [opens[j] EXCEPT !.phase = f]
    OBVIOUS
  <2>3. f \in {"none", "token", "handshake", "hello", "dropped", "open", "closed"}
    BY <2>1 DEF OpenType
  <2>4. /\ f = "open" <=> j = i
        /\ f = "none" <=> opens[j].phase = "none"
    BY <2>1
  <2> HIDE DEF f, p
  <2>5. p[j] \in OpenType /\ p[j].identity = opens[j].identity /\ p[j].phase = f
    BY <2>1, <2>2, <2>3 DEF OpenType
  <2> QED BY <2>4, <2>5
<1>12. p \in [Opens -> OpenType]
  BY <1>11
<1>13. ASSUME NEW s \in Subscriptions
       PROVE  b[s] \in SubscriptionType /\ SubscriptionFits(b[s], d)
  <2>1. w.subs[s] \in SubscriptionType /\ SubscriptionFits(w.subs[s], w.c)
    BY DEF Fits
  <2>2. CASE s \notin Registered(w)
    <3>1. b[s] = w.subs[s] /\ w.subs[s].phase # "registered"
      BY <2>2 DEF Registered
    <3> QED BY <2>1, <3>1 DEF SubscriptionFits
  <2>3. CASE s \in Registered(w) /\ switched
    <3>1. b[s] = [w.subs[s] EXCEPT !.phase = "ended", !.at = 0]
      BY <2>3
    <3> HIDE DEF b
    <3>2. b[s] \in SubscriptionType /\ b[s].at = 0 /\ b[s].phase = "ended"
      BY <2>1, <3>1, SubscriptionEnds
    <3> QED BY <3>2 DEF SubscriptionFits
  <2>4. CASE s \in Registered(w) /\ ~switched
    <3>1. b[s] = Attach(w.subs[s], i)
      BY <2>4
    <3>2. w.subs[s].phase = "registered"
      BY <2>4 DEF Registered
    <3>3. w.subs[s].identity \in {NoIdentity, opens[i].identity}
      BY <2>1, <2>4, <3>2 DEF SubscriptionFits, x
    <3>4. opens[i].identity \in Identities \cup {NoIdentity} /\ x = opens[i].identity
      BY <1>3 DEF x
    <3> HIDE DEF b
    <3>5. b[s] \in SubscriptionType /\ b[s].phase = "registered" /\ b[s].at = i /\ b[s].identity = x
      BY <2>1, <3>1, <3>2, <3>3, <3>4, SubscriptionAdopted
    <3> QED BY <1>10, <3>5 DEF SubscriptionFits
  <2> QED BY <2>2, <2>3, <2>4
<1>14. b \in [Subscriptions -> SubscriptionType]
  BY <1>13
<1> HIDE DEF p, b
<1>15. Numbered(p)
  BY <1>11 DEF Fits, Numbered
<1>16. p[i].identity = x
  BY <1>11 DEF x
<1>17. Fits(d, p, b)
  BY <1>3, <1>10, <1>11, <1>12, <1>13, <1>14, <1>15, <1>16 DEF Fits
<1> QED BY <1>1, <1>2, <1>17 DEF v

-----------------------------------------------------------------------------
(* The application's actions.                                              *)

LEMMA WorldFacts ==
    ASSUME StreamInv
    PROVE  /\ IsWorld(World) /\ World.c = client /\ World.opens = opens /\ World.subs = subs
           /\ client \in ClientType /\ opens \in [Opens -> OpenType]
           /\ subs \in [Subscriptions -> SubscriptionType] /\ Fits(client, opens, subs)
           /\ SameUse(opens, opens)
BY DEF StreamInv, IsWorld, World, Fits, SameUse

LEMMA BecomesFits ==
    ASSUME StreamInv, NEW w, Becomes(w), Fits(w.c, w.opens, w.subs), Sound \/ Fault
    PROVE  StreamInv'
<1>1. Fits(client, opens, subs)'
  BY DEF Becomes, Fits, Numbered, SubscriptionFits
<1>2. faults' \in 0..MaxFaults
  BY StreamClientAssumption DEF Sound, Fault, StreamInv
<1> QED BY <1>1, <1>2 DEF StreamInv

LEMMA RegisterKeeps ==
    ASSUME StreamInv, NEW s \in Subscriptions, Register(s)
    PROVE  StreamInv'
<1> DEFINE r == [subs[s] EXCEPT !.phase = "registered"]
           w == [World EXCEPT !.subs[s].phase = "registered"]
           v == [w EXCEPT !.subs[s].at = client.connection, !.subs[s].identity = client.identity]
<1>1. /\ subs[s] \in SubscriptionType /\ SubscriptionFits(subs[s], client)
      /\ subs[s].phase = "new" /\ subs[s].at = 0 /\ subs[s].identity = NoIdentity
  BY DEF Register, StreamInv, Fits, SubscriptionFits
<1>2. /\ r \in SubscriptionType /\ r.phase = "registered" /\ r.at = 0
      /\ r.identity = NoIdentity
  BY <1>1 DEF SubscriptionType
<1>3. /\ IsWorld(w) /\ w.c = client /\ w.opens = opens
      /\ w.subs = [subs EXCEPT ![s] = r]
  BY WorldFacts DEF IsWorld, World
<1> HIDE DEF w
<1>4. Fits(w.c, w.opens, w.subs)
  <2>1. Fits(client, opens, subs) /\ SubscriptionFits(r, client)
    BY <1>2, WorldFacts DEF SubscriptionFits
  <2> HIDE DEF r
  <2>2. Fits(client, opens, [subs EXCEPT ![s] = r])
    BY <1>2, <2>1, SubscriptionChanges
  <2> QED BY <1>3, <2>2
<1>5. Sound
  BY DEF Register
<1>6. CASE Becomes(w)
  BY <1>4, <1>5, <1>6, BecomesFits
<1>7. CASE client.connection # 0 /\ Becomes(v)
  <2> DEFINE m == [r EXCEPT !.at = client.connection]
             q == [m EXCEPT !.identity = client.identity]
  <2>1. client.connection \in 0..MaxOpens /\ client.identity \in Identities \cup {NoIdentity}
    BY WorldFacts, ClientFields
  <2>2. m \in SubscriptionType /\ m.at = client.connection /\ m.phase = "registered"
    BY <1>2, <2>1 DEF SubscriptionType
  <2>3. v.c = client /\ v.opens = opens /\ v.subs = [subs EXCEPT ![s] = q]
    BY <1>3, WorldFacts DEF IsWorld
  <2> HIDE DEF m, v
  <2>4. /\ q \in SubscriptionType /\ q.at = client.connection /\ q.phase = "registered"
        /\ q.identity = client.identity
    BY <2>1, <2>2 DEF SubscriptionType
  <2> HIDE DEF q
  <2>5. Fits(client, opens, subs) /\ SubscriptionFits(q, client)
    BY <2>4, WorldFacts DEF SubscriptionFits
  <2>6. Fits(client, opens, [subs EXCEPT ![s] = q])
    BY <2>4, <2>5, SubscriptionChanges
  <2>7. Fits(v.c, v.opens, v.subs)
    BY <2>3, <2>6
  <2> QED BY <1>5, <1>7, <2>7, BecomesFits
<1>8. CASE CanConnect /\ Becomes(Connect(w, FALSE))
  BY <1>3, <1>4, <1>5, <1>8, WorldFacts, ConnectFits, BecomesFits
<1> QED BY <1>6, <1>7, <1>8 DEF Register, w

LEMMA UnregisterKeeps ==
    ASSUME StreamInv, NEW s \in Subscriptions, Unregister(s)
    PROVE  StreamInv'
<1> DEFINE r == [subs[s] EXCEPT !.phase = "ended", !.at = 0]
           w == [World EXCEPT !.subs[s] = [@ EXCEPT !.phase = "ended", !.at = 0]]
<1>1. subs[s] \in SubscriptionType
  BY WorldFacts
<1>2. w.c = client /\ w.opens = opens /\ w.subs = [subs EXCEPT ![s] = r]
  BY WorldFacts DEF World
<1>3. r \in SubscriptionType /\ r.at = 0 /\ r.phase = "ended"
  BY <1>1, SubscriptionEnds
<1>4. Becomes(w) /\ Fault
  BY DEF Unregister
<1> HIDE DEF r, w
<1>5. SubscriptionFits(r, client)
  BY <1>3 DEF SubscriptionFits
<1>6. Fits(client, opens, [subs EXCEPT ![s] = r])
  BY <1>3, <1>5, WorldFacts, SubscriptionChanges
<1> QED BY <1>2, <1>4, <1>6, BecomesFits

\* The world after a connection, if there was one, is closed.
LEMMA HungParts ==
    ASSUME StreamInv
    PROVE  LET w == IF client.connection = 0 THEN World ELSE Closed(client.connection)
           IN IsWorld(w) /\ w.c = client /\ w.subs = subs /\ w.opens = Hung(client, opens)
BY DEF IsWorld, World, Closed, Hung

\* Without a connection no subscription is attached.
LEMMA NoneAttached ==
    ASSUME NEW c, NEW o, NEW b, Fits(c, o, b), c.connection = 0
    PROVE  \A s \in Subscriptions : b[s].at = 0
BY DEF Fits, SubscriptionFits

LEMMA ReconnectKeeps ==
    ASSUME StreamInv, Reconnect
    PROVE  StreamInv'
<1> DEFINE k == client.connection
           w == IF k = 0 THEN World ELSE Detached(Closed(k))
           b == IF k = 0 THEN subs ELSE DetachedSubs(subs)
           d1 == [client EXCEPT !.suspended = FALSE]
           d2 == [d1 EXCEPT !.error = "none"]
           d3 == [d2 EXCEPT !.reconnect = FALSE]
           d4 == [d3 EXCEPT !.connection = 0]
           d == [d4 EXCEPT !.fresh = NextOpen]
           v == [w EXCEPT !.c = [@ EXCEPT !.suspended = FALSE, !.error = "none",
                                          !.reconnect = FALSE, !.connection = 0,
                                          !.fresh = NextOpen]]
<1>1. CanConnect /\ Fault /\ Becomes(Connect(v, TRUE))
  BY DEF Reconnect
<1>2. IsWorld(w) /\ w.c = client /\ w.opens = Hung(client, opens) /\ w.subs = b
  <2>1. CASE k = 0
    BY <2>1, WorldFacts DEF Hung
  <2>2. CASE k # 0
    <3>1. /\ IsWorld(Closed(k)) /\ Closed(k).c = client /\ Closed(k).subs = subs
          /\ Closed(k).opens = Hung(client, opens)
      BY <2>2, HungParts
    <3> QED BY <2>2, <3>1, DetachedParts, WorldFacts
  <2> QED BY <2>1, <2>2
<1>3. Fits(client, opens, b) /\ \A s \in Subscriptions : b[s].at = 0
  BY WorldFacts, NoneAttached, DetachedFits
<1>4. IsWorld(v) /\ v.opens = w.opens /\ v.subs = w.subs /\ v.c = d
  <2>1. d = [client EXCEPT !.suspended = FALSE, !.error = "none", !.reconnect = FALSE,
                           !.connection = 0, !.fresh = NextOpen]
    OBVIOUS
  <2> HIDE DEF w, d
  <2>2. v = [w EXCEPT !.c = d]
    BY <1>2, <2>1
  <2> HIDE DEF v
  <2> QED BY <1>2, <2>2 DEF IsWorld
<1> HIDE DEF w, v, b
<1>5. Keeps(client, d1)
  BY WorldFacts, SetFlag
<1> HIDE DEF d1
<1>6. "none" \in Errors
  BY DEF Errors
<1>7. Keeps(client, d2)
  BY <1>5, <1>6, SetError DEF Keeps
<1> HIDE DEF d2
<1>8. Keeps(client, d3)
  BY <1>7, SetFlag DEF Keeps
<1> HIDE DEF d3
<1>9. d4 \in ClientType /\ d4.connection = 0 /\ d4.identity = client.identity
  BY <1>8, SetConnection, StreamClientAssumption DEF Keeps
<1> HIDE DEF d4
<1>10. NextOpen \in 1..(MaxOpens + 1)
  BY NextIsUnused DEF StreamInv, Fits
<1>11. d \in ClientType /\ d.connection = 0 /\ d.identity = client.identity
  BY <1>9, <1>10, SetFresh DEF Keeps
<1> HIDE DEF d
<1>12. Fits(v.c, v.opens, v.subs) /\ SameUse(opens, v.opens)
  BY <1>2, <1>3, <1>4, <1>11, Released
<1>13. LET u == Connect(v, TRUE) IN Fits(u.c, u.opens, u.subs)
  BY <1>1, <1>4, <1>12, ConnectFits
<1> QED BY <1>1, <1>13, BecomesFits

LEMMA CloseKeeps ==
    ASSUME StreamInv, Close
    PROVE  StreamInv'
<1> DEFINE k == client.connection
           w == IF k = 0 THEN World ELSE Closed(k)
           b == [s \in Subscriptions |->
                   IF s \in Registered(w) THEN [w.subs[s] EXCEPT !.phase = "ended", !.at = 0]
                   ELSE w.subs[s]]
           d1 == [client EXCEPT !.closed = TRUE]
           d2 == [d1 EXCEPT !.generation = client.generation + 1]
           d3 == [d2 EXCEPT !.reconnect = FALSE]
           d4 == [d3 EXCEPT !.refresh = FALSE]
           d5 == [d4 EXCEPT !.connection = 0]
           d == [d5 EXCEPT !.state = "closed"]
           v == [w EXCEPT
                  !.c = [@ EXCEPT !.closed = TRUE, !.generation = client.generation + 1,
                                  !.reconnect = FALSE, !.refresh = FALSE, !.connection = 0,
                                  !.state = "closed"],
                  !.subs = [s \in Subscriptions |->
                      IF s \in Registered(w) THEN [@[s] EXCEPT !.phase = "ended", !.at = 0]
                      ELSE @[s]]]
<1>1. Fault /\ Becomes(v)
  BY DEF Close
<1>2. IsWorld(w) /\ w.c = client /\ w.subs = subs /\ w.opens = Hung(client, opens)
  BY HungParts
<1>3. v.c = d /\ v.opens = w.opens /\ v.subs = b
  BY <1>2 DEF IsWorld
<1> HIDE DEF v
<1>4. ASSUME NEW s \in Subscriptions
      PROVE  /\ b[s] \in SubscriptionType /\ b[s].at = 0 /\ SubscriptionFits(b[s], client)
  <2>1. subs[s] \in SubscriptionType /\ SubscriptionFits(subs[s], client)
    BY WorldFacts DEF Fits
  <2>2. CASE s \in Registered(w)
    <3>1. b[s] = [subs[s] EXCEPT !.phase = "ended", !.at = 0]
      BY <1>2, <2>2
    <3> HIDE DEF b
    <3>2. b[s] \in SubscriptionType /\ b[s].at = 0 /\ b[s].phase = "ended"
      BY <2>1, <3>1, SubscriptionEnds
    <3> QED BY <3>2 DEF SubscriptionFits
  <2>3. CASE s \notin Registered(w)
    <3>1. b[s] = subs[s] /\ subs[s].phase # "registered"
      BY <1>2, <2>3 DEF Registered
    <3> QED BY <2>1, <3>1 DEF SubscriptionFits
  <2> QED BY <2>2, <2>3
<1>5. b \in [Subscriptions -> SubscriptionType]
  BY <1>4
<1> HIDE DEF b, w
<1>6. Fits(client, opens, b)
  BY <1>4, <1>5, WorldFacts DEF Fits
<1>7. client.generation + 1 \in Nat
  BY WorldFacts, ClientFields
<1>8. Keeps(client, d1)
  BY WorldFacts, SetFlag
<1> HIDE DEF d1
<1>9. Keeps(client, d2)
  BY <1>7, <1>8, SetGeneration DEF Keeps
<1> HIDE DEF d2
<1>10. Keeps(client, d3)
  BY <1>9, SetFlag DEF Keeps
<1> HIDE DEF d3
<1>11. Keeps(client, d4)
  BY <1>10, SetFlag DEF Keeps
<1> HIDE DEF d4
<1>12. d5 \in ClientType /\ d5.connection = 0 /\ d5.identity = client.identity
  BY <1>11, SetConnection, StreamClientAssumption DEF Keeps
<1> HIDE DEF d5
<1>13. "closed" \in States
  BY DEF States
<1>14. d \in ClientType /\ d.connection = 0 /\ d.identity = client.identity
  BY <1>12, <1>13, SetState DEF Keeps
<1> HIDE DEF d
<1>15. Fits(d, Hung(client, opens), b)
  BY <1>4, <1>6, <1>14, Released
<1> QED BY <1>1, <1>2, <1>3, <1>15, BecomesFits

-----------------------------------------------------------------------------
(* The opens' actions.                                                     *)

\* An open in flight moves to a phase that is neither unused nor open.
LEMMA PhaseMoves ==
    ASSUME StreamInv, NEW i \in Opens, opens[i].phase \notin {"none", "open"},
           NEW x \in {"handshake", "hello", "dropped", "closed"},
           NEW w, w = [World EXCEPT !.opens[i].phase = x]
    PROVE  IsWorld(w) /\ Fits(w.c, w.opens, w.subs)
<1> DEFINE r == [opens[i] EXCEPT !.phase = x]
<1>1. opens[i] \in OpenType
  BY WorldFacts
<1>2. r \in OpenType /\ r.phase = x
  BY <1>1 DEF OpenType
<1>3. IsWorld(w) /\ w.c = client /\ w.subs = subs /\ w.opens = [opens EXCEPT ![i] = r]
  BY WorldFacts DEF IsWorld, World
<1> HIDE DEF r
<1>4. r.phase # "none" /\ r.phase # "open"
  BY <1>2
<1>5. Fits(client, [opens EXCEPT ![i] = r], subs)
  BY <1>2, <1>4, WorldFacts, OpenChanges
<1> QED BY <1>3, <1>5

LEMMA TokenArrivesKeeps ==
    ASSUME StreamInv, NEW i \in Opens, TokenArrives(i)
    PROVE  StreamInv'
<1> DEFINE w == [World EXCEPT !.opens[i].phase = "handshake"]
<1>1. opens[i].phase \notin {"none", "open"} /\ Sound /\ Becomes(w)
  BY DEF TokenArrives
<1>2. PICK x \in {"handshake", "hello", "dropped", "closed"} : x = "handshake"
  OBVIOUS
<1>3. w = [World EXCEPT !.opens[i].phase = x]
  BY <1>2
<1> HIDE DEF w
<1>4. Fits(w.c, w.opens, w.subs)
  BY <1>1, <1>3, PhaseMoves
<1> QED BY <1>1, <1>4, BecomesFits

LEMMA HelloArrivesKeeps ==
    ASSUME StreamInv, NEW i \in Opens, HelloArrives(i)
    PROVE  StreamInv'
<1>1. PICK identity \in Identities :
         Becomes([World EXCEPT !.opens[i] = [@ EXCEPT !.phase = "hello", !.identity = identity]])
  BY DEF HelloArrives
<1> DEFINE m == [opens[i] EXCEPT !.phase = "hello"]
           r == [m EXCEPT !.identity = identity]
           w == [World EXCEPT !.opens[i] = [@ EXCEPT !.phase = "hello", !.identity = identity]]
<1>2. opens[i] \in OpenType /\ opens[i].phase = "handshake" /\ Sound
  BY WorldFacts DEF HelloArrives
<1>3. r = [opens[i] EXCEPT !.phase = "hello", !.identity = identity]
  OBVIOUS
<1>4. m \in OpenType /\ m.phase = "hello"
  BY <1>2 DEF OpenType
<1> HIDE DEF m
<1>5. r \in OpenType /\ r.phase = "hello"
  BY <1>4 DEF OpenType
<1> HIDE DEF r
<1>6. w.c = client /\ w.subs = subs /\ w.opens = [opens EXCEPT ![i] = r]
  BY <1>3, WorldFacts DEF World
<1>7. Fits(client, [opens EXCEPT ![i] = r], subs)
  BY <1>2, <1>5, WorldFacts, OpenChanges
<1> HIDE DEF w
<1>8. Becomes(w)
  BY <1>1 DEF w
<1> QED BY <1>2, <1>6, <1>7, <1>8, BecomesFits

LEMMA HelloDropsKeeps ==
    ASSUME StreamInv, NEW i \in Opens, HelloDrops(i)
    PROVE  StreamInv'
<1> DEFINE w == [World EXCEPT !.opens[i].phase = "dropped"]
<1>1. opens[i].phase \notin {"none", "open"} /\ Fault /\ Becomes(w)
  BY DEF HelloDrops
<1>2. PICK x \in {"handshake", "hello", "dropped", "closed"} : x = "dropped"
  OBVIOUS
<1>3. w = [World EXCEPT !.opens[i].phase = x]
  BY <1>2
<1> HIDE DEF w
<1>4. Fits(w.c, w.opens, w.subs)
  BY <1>1, <1>3, PhaseMoves
<1> QED BY <1>1, <1>4, BecomesFits

LEMMA ClosedFits ==
    ASSUME StreamInv, NEW i \in Opens, opens[i].phase \notin {"none", "open"}
    PROVE  LET w == Closed(i) IN IsWorld(w) /\ Fits(w.c, w.opens, w.subs)
<1> DEFINE w == Closed(i)
<1>1. PICK x \in {"handshake", "hello", "dropped", "closed"} : x = "closed"
  OBVIOUS
<1>2. w = [World EXCEPT !.opens[i].phase = x]
  BY <1>1 DEF Closed
<1> HIDE DEF w
<1>3. IsWorld(w) /\ Fits(w.c, w.opens, w.subs)
  BY <1>2, PhaseMoves
<1> QED BY <1>3 DEF w

\* Whichever open fails, and whether it is still the client's.
LEMMA OpenFailsKeeps ==
    ASSUME StreamInv, NEW i \in Opens, opens[i].phase \notin {"none", "open"},
           NEW error \in Errors, OpenFails(i, error), Sound \/ Fault
    PROVE  StreamInv'
<1> DEFINE w == Closed(i)
<1>1. IsWorld(w) /\ Fits(w.c, w.opens, w.subs)
  BY ClosedFits
<1>2. \/ Becomes(w)
      \/ Becomes(HandleConnectFailure(w, error))
      \/ \E again \in BOOLEAN : Becomes([w EXCEPT !.c.refresh = @ \/ again])
  BY DEF OpenFails
<1> HIDE DEF w
<1>3. CASE Becomes(w)
  BY <1>1, <1>3, BecomesFits
<1>4. CASE Becomes(HandleConnectFailure(w, error))
  BY <1>1, <1>4, HandleConnectFailureFits, BecomesFits
<1>5. CASE \E again \in BOOLEAN : Becomes([w EXCEPT !.c.refresh = @ \/ again])
  <2>1. PICK again \in BOOLEAN : Becomes([w EXCEPT !.c.refresh = @ \/ again])
    BY <1>5
  <2>2. PICK y \in BOOLEAN : y = (w.c.refresh \/ again)
    OBVIOUS
  <2> DEFINE d == [w.c EXCEPT !.refresh = y]
             v == [w EXCEPT !.c.refresh = @ \/ again]
  <2>3. v.c = d /\ v.opens = w.opens /\ v.subs = w.subs
    BY <1>1, <2>2 DEF IsWorld
  <2>4. Becomes(v)
    BY <2>1
  <2> HIDE DEF v
  <2>5. Keeps(w.c, d)
    BY <1>1, SetFlag DEF Fits
  <2> HIDE DEF d
  <2>6. Fits(v.c, v.opens, v.subs)
    BY <1>1, <2>3, <2>5, ClientChanges
  <2> QED BY <2>4, <2>6, BecomesFits
<1> QED BY <1>2, <1>3, <1>4, <1>5

LEMMA FailuresKeep ==
    ASSUME StreamInv, NEW i \in Opens, TokenFails(i) \/ HandshakeFails(i) \/ DroppedFails(i)
    PROVE  StreamInv'
<1>1. {"failed", "refused", "other"} \subseteq Errors
  BY DEF Errors
<1>2. PICK error \in Errors : OpenFails(i, error) /\ (Sound \/ Fault)
  BY <1>1 DEF TokenFails, HandshakeFails, DroppedFails
<1>3. opens[i].phase \notin {"none", "open"}
  BY DEF TokenFails, HandshakeFails, DroppedFails
<1> QED BY <1>2, <1>3, OpenFailsKeeps

LEMMA OpenedKeeps ==
    ASSUME StreamInv, NEW i \in Opens, Opened(i)
    PROVE  StreamInv'
<1> DEFINE w == IF opens[i].by = "connect"
                THEN [World EXCEPT !.c.connecting = FALSE]
                ELSE [World EXCEPT !.c.generation = @ + 1]
           d == IF opens[i].by = "connect"
                THEN [client EXCEPT !.connecting = FALSE]
                ELSE [client EXCEPT !.generation = client.generation + 1]
<1>1. opens[i].phase = "hello" /\ Sound
  BY DEF Opened
<1>2. \/ Becomes(Closed(i))
      \/ \E timer \in BOOLEAN : Becomes([Adopt(w, i) EXCEPT !.c.refresh = timer])
  BY DEF Opened
<1>3. IsWorld(w) /\ w.c = d /\ w.opens = opens /\ w.subs = subs
  <2>1. World = [c |-> client, opens |-> opens, subs |-> subs]
    BY DEF World
  <2> QED BY <2>1 DEF IsWorld
<1> HIDE DEF w
<1>4. Keeps(client, d)
  <2>1. Keeps(client, [client EXCEPT !.connecting = FALSE])
    BY WorldFacts, SetFlag
  <2>2. client.generation + 1 \in Nat
    BY WorldFacts, ClientFields
  <2>3. Keeps(client, [client EXCEPT !.generation = client.generation + 1])
    BY <2>2, WorldFacts, SetGeneration
  <2> QED BY <2>1, <2>3
<1> HIDE DEF d
<1>5. Fits(w.c, w.opens, w.subs)
  BY <1>3, <1>4, WorldFacts, ClientChanges
<1>6. CASE Becomes(Closed(i))
  BY <1>1, <1>6, ClosedFits, BecomesFits
<1>7. CASE \E timer \in BOOLEAN : Becomes([Adopt(w, i) EXCEPT !.c.refresh = timer])
  <2>1. PICK timer \in BOOLEAN : Becomes([Adopt(w, i) EXCEPT !.c.refresh = timer])
    BY <1>7
  <2> DEFINE v == [Adopt(w, i) EXCEPT !.c.refresh = timer]
  <2>2. Fits(v.c, v.opens, v.subs)
    BY <1>1, <1>3, <1>5, AdoptFits
  <2>3. Becomes(v)
    BY <2>1
  <2> HIDE DEF v
  <2> QED BY <1>1, <2>2, <2>3, BecomesFits
<1> QED BY <1>2, <1>6, <1>7

-----------------------------------------------------------------------------
(* The timers' and the adopted connection's actions.                       *)

LEMMA ReconnectTimerKeeps ==
    ASSUME StreamInv, ReconnectTimer
    PROVE  StreamInv'
<1> DEFINE d == [client EXCEPT !.reconnect = FALSE]
           w == [World EXCEPT !.c.reconnect = FALSE]
           v == [w EXCEPT !.c.state = "idle"]
           e == [d EXCEPT !.state = "idle"]
<1>1. Sound /\ (Becomes(v) \/ (CanConnect /\ Becomes(Connect(w, FALSE))))
  BY DEF ReconnectTimer
<1>2. IsWorld(w) /\ w.c = d /\ w.opens = opens /\ w.subs = subs
  <2>1. w = [World EXCEPT !.c = d]
    BY WorldFacts
  <2> HIDE DEF w, d
  <2>2. w = [c |-> d, opens |-> opens, subs |-> subs]
    BY <2>1 DEF World
  <2> QED BY <2>2 DEF IsWorld
<1>3. v.c = e /\ v.opens = opens /\ v.subs = subs
  BY <1>2 DEF IsWorld
<1> HIDE DEF w, v
<1>4. Keeps(client, d)
  BY WorldFacts, SetFlag
<1> HIDE DEF d
<1>5. "idle" \in States
  BY DEF States
<1>6. Keeps(client, e)
  BY <1>4, <1>5, SetState DEF Keeps
<1> HIDE DEF e
<1>7. Fits(w.c, w.opens, w.subs) /\ Fits(v.c, v.opens, v.subs)
  BY <1>2, <1>3, <1>4, <1>6, WorldFacts, ClientChanges
<1>8. CASE Becomes(v)
  BY <1>1, <1>7, <1>8, BecomesFits
<1>9. CASE CanConnect /\ Becomes(Connect(w, FALSE))
  BY <1>1, <1>2, <1>7, <1>9, WorldFacts, ConnectFits, BecomesFits
<1> QED BY <1>1, <1>8, <1>9

LEMMA RefreshTimerKeeps ==
    ASSUME StreamInv, RefreshTimer
    PROVE  StreamInv'
<1> DEFINE d == [client EXCEPT !.refresh = FALSE]
           w == [World EXCEPT !.c.refresh = FALSE]
<1>1. Sound /\ (Becomes(w) \/ (CanConnect /\ Becomes(Open(w, "refresh"))))
  BY DEF RefreshTimer
<1>2. IsWorld(w) /\ w.c = d /\ w.opens = opens /\ w.subs = subs
  <2>1. w = [World EXCEPT !.c = d]
    BY WorldFacts
  <2> HIDE DEF w, d
  <2>2. w = [c |-> d, opens |-> opens, subs |-> subs]
    BY <2>1 DEF World
  <2> QED BY <2>2 DEF IsWorld
<1> HIDE DEF w
<1>3. Keeps(client, d)
  BY WorldFacts, SetFlag
<1> HIDE DEF d
<1>4. Fits(w.c, w.opens, w.subs)
  BY <1>2, <1>3, WorldFacts, ClientChanges
<1>5. CASE Becomes(w)
  BY <1>1, <1>4, <1>5, BecomesFits
<1>6. CASE CanConnect /\ Becomes(Open(w, "refresh"))
  BY <1>1, <1>2, <1>4, <1>6, WorldFacts, OpenFits, BecomesFits
<1> QED BY <1>1, <1>5, <1>6

LEMMA ErrorFrameKeeps ==
    ASSUME StreamInv, ErrorFrame
    PROVE  StreamInv'
<1>1. PICK error \in Errors : Becomes([World EXCEPT !.c.error = error]) /\ Fault
  BY DEF ErrorFrame
<1> DEFINE d == [client EXCEPT !.error = error]
           w == [World EXCEPT !.c.error = error]
<1>2. w.c = d /\ w.opens = opens /\ w.subs = subs
  BY DEF World
<1>3. Becomes(w) /\ Fault
  BY <1>1
<1> HIDE DEF w
<1>4. Keeps(client, d)
  BY WorldFacts, SetError
<1> HIDE DEF d
<1>5. Fits(w.c, w.opens, w.subs)
  BY <1>2, <1>4, WorldFacts, ClientChanges
<1> QED BY <1>3, <1>5, BecomesFits

LEMMA DropKeeps ==
    ASSUME StreamInv, Drop
    PROVE  StreamInv'
<1>1. Fault /\ client.connection # 0 /\ Becomes(HandleDisconnect(World))
  BY DEF Drop
<1>2. LET v == HandleDisconnect(World) IN Fits(v.c, v.opens, v.subs)
  BY <1>1, WorldFacts, HandleDisconnectFits
<1> QED BY <1>1, <1>2, BecomesFits

-----------------------------------------------------------------------------
(* The theorems.                                                           *)

LEMMA InitialStream == ClientInit => StreamInv
<1> SUFFICES ASSUME ClientInit PROVE StreamInv
  OBVIOUS
<1>1. MaxOpens \in Nat \ {0} /\ MaxFaults \in Nat
  BY StreamClientAssumption
<1>2. client \in ClientType /\ client.connection = 0
  BY <1>1 DEF ClientInit, ClientType, States, Errors
<1>3. opens \in [Opens -> OpenType] /\ \A i \in Opens : opens[i].phase = "none"
  BY DEF ClientInit, Unopened, OpenType
<1>4. /\ subs \in [Subscriptions -> SubscriptionType]
      /\ \A s \in Subscriptions : SubscriptionFits(subs[s], client)
  <2>1. /\ subs \in [Subscriptions -> SubscriptionType]
        /\ \A s \in Subscriptions : /\ subs[s].at = 0 /\ subs[s].phase = "new"
                                    /\ subs[s].identity = NoIdentity
    BY <1>1 DEF ClientInit, SubscriptionType
  <2> QED BY <2>1 DEF SubscriptionFits
<1>5. Numbered(opens)
  BY <1>1, <1>3 DEF Numbered, Opens
<1>6. \A i \in Opens : i # 0
  BY DEF Opens
<1>7. faults \in 0..MaxFaults
  BY <1>1 DEF ClientInit
<1> QED BY <1>2, <1>3, <1>4, <1>5, <1>6, <1>7 DEF StreamInv, Fits

LEMMA StreamStep == StreamInv /\ [ClientNext]_clientVars => StreamInv'
<1> SUFFICES ASSUME StreamInv, [ClientNext]_clientVars PROVE StreamInv'
  OBVIOUS
<1>1. CASE UNCHANGED clientVars
  BY <1>1 DEF clientVars, StreamInv, Fits, Numbered, SubscriptionFits
<1>2. ASSUME NEW i \in Opens,
             \/ TokenArrives(i) \/ HelloArrives(i) \/ DroppedFails(i) \/ Opened(i)
             \/ HelloDrops(i) \/ TokenFails(i) \/ HandshakeFails(i)
      PROVE  StreamInv'
  BY <1>2, TokenArrivesKeeps, HelloArrivesKeeps, OpenedKeeps, HelloDropsKeeps, FailuresKeep
<1>3. ASSUME NEW s \in Subscriptions, Register(s) \/ Unregister(s)
      PROVE  StreamInv'
  BY <1>3, RegisterKeeps, UnregisterKeeps
<1>4. CASE ReconnectTimer \/ RefreshTimer
  BY <1>4, ReconnectTimerKeeps, RefreshTimerKeeps
<1>5. CASE Reconnect \/ Close \/ ErrorFrame \/ Drop
  BY <1>5, ReconnectKeeps, CloseKeeps, ErrorFrameKeeps, DropKeeps
<1> QED BY <1>1, <1>2, <1>3, <1>4, <1>5 DEF ClientNext, ClientMoves

\* The client, its opens and its subscriptions fit one another after every handler of
\* client.ts: what a subscription is attached to is the adopted connection, and an open that
\* is unused is numbered after those in use.
THEOREM StreamInvariant == ClientSpec => []StreamInv
<1> QED BY InitialStream, StreamStep, PTL DEF ClientSpec

\* Every handler of client.ts leaves the client, its opens and its subscriptions in their types.
THEOREM StreamTypeCorrect == ClientSpec => []StreamTypeOK
<1>1. StreamInv => StreamTypeOK
  BY DEF StreamInv, Fits, StreamTypeOK
<1> QED BY <1>1, StreamInvariant, PTL

\* client.ts:37, "Owns one Socket.IO connection at a time": however many opens of #connect and
\* #refresh are in flight, and in whatever order they end.
THEOREM OwnsOneConnection == ClientSpec => []OneConnection
<1>1. StreamInv => OneConnection
  <2> SUFFICES ASSUME StreamInv PROVE OneConnection
    OBVIOUS
  <2>1. client.connection \in 0..MaxOpens /\ \A i \in Opens : i # 0
    BY WorldFacts, ClientFields DEF Opens
  <2>2. client.connection # 0 => client.connection \in Opens
    BY <2>1, StreamClientAssumption DEF Opens
  <2>3. \A i \in Opens : opens[i].phase = "open" <=> i = client.connection
    BY DEF StreamInv, Fits
  <2> QED BY <2>1, <2>2, <2>3 DEF OneConnection
<1> QED BY <1>1, StreamInvariant, PTL

\* client.ts:282, #adopt, "Never carry a previous user's view across an account switch".
THEOREM ViewsStayWithTheirUser == ClientSpec => []NoCrossIdentity
<1>1. StreamInv => NoCrossIdentity
  BY DEF StreamInv, Fits, SubscriptionFits, NoCrossIdentity
<1> QED BY <1>1, StreamInvariant, PTL

\* The same of the specification that the run checks, whose fairness adds nothing to safety.
COROLLARY FairStreamIsSafe == FairClientSpec => [](OneConnection /\ NoCrossIdentity)
<1>1. FairClientSpec => ClientSpec
  BY DEF FairClientSpec
<1> QED BY <1>1, OwnsOneConnection, ViewsStayWithTheirUser, PTL

=============================================================================
