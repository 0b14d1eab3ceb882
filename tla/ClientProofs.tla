---------------------------- MODULE ClientProofs ----------------------------
(***************************************************************************)
(* Proofs about the SDK's subscription and the wire it shares with the     *)
(* gateway, for any limits, number of revisions and number of faults.      *)
(***************************************************************************)
EXTENDS ClientProperties, SequenceTheorems, WellFoundedInduction, TLAPS

-----------------------------------------------------------------------------
(* The inductive invariant.                                                *)

Results == {"ok", "OVERLOADED", "FORBIDDEN", "INVALID_REQUEST"}
Asks == {"subscribe", "resync", "unsubscribe"}

StateFrame == [kind : {"state"}, state : SubscriptionStates, epoch : Nat]
DataFrame == [kind : {"data"}, epoch : Nat, sequence : Nat, revision : Nat]
AckFrame == [kind : {"ack"}, of : Asks, result : Results, replacing : Nat]
DownFrame == StateFrame \cup DataFrame \cup AckFrame \cup {Goodbye}
ReceiptFrame == [kind : {"receipt"}, epoch : Nat, sequence : Nat]
AskFrame == [kind : Asks, replacing : Nat]
UpFrame == ReceiptFrame \cup AskFrame

\* What was shown last is the newest ever shown, and after the first frame of an
\* epoch it is what the next frame is compared with.
InOrder(c) ==
    /\ c.shown <= c.lastRevision
    /\ c.expected # 1 => c.epochRevision = c.shown

ClientOK(c) == c \in ClientType /\ InOrder(c)

\* An attempt that is being authorized was counted, so it can be given back when
\* the source turns out to be down.
PeerOK(p) == p \in PeerType /\ (p.phase = "authorizing" => p.attempts # 0)

ClientInv ==
    /\ ClientOK(client)
    /\ PeerOK(peer)
    /\ followups \in Seq(AckFrame)
    /\ up \in Seq(UpFrame)
    /\ down \in Seq(DownFrame)
    /\ source \in [newest : 1..MaxRevision, ready : BOOLEAN]
    /\ faults \in 0..MaxFaults

-----------------------------------------------------------------------------
(* Records of the SDK that order what they show alike.                     *)

Steady(c, d) ==
    /\ d \in ClientType
    /\ d.shown = c.shown /\ d.lastRevision = c.lastRevision
    /\ d.expected = c.expected /\ d.epochRevision = c.epochRevision

LEMMA SteadyTwice == ASSUME NEW c, NEW d, NEW e, Steady(c, d), Steady(d, e) PROVE Steady(c, e)
BY DEF Steady

LEMMA SteadyIsOK == ASSUME NEW c, NEW d, ClientOK(c), Steady(c, d) PROVE ClientOK(d) /\ d.shown = c.shown
BY DEF Steady, ClientOK, InOrder

LEMMA ClientFields ==
    ASSUME NEW c \in ClientType
    PROVE  /\ Steady(c, c)
           /\ c.state \in SubscriptionStates
           /\ c.attached \in BOOLEAN /\ c.knows \in BOOLEAN /\ c.pending \in BOOLEAN
           /\ c.epoch \in Nat /\ c.replacing \in Nat /\ c.failures \in Nat
           /\ c.expected \in Nat /\ c.shown \in Nat /\ c.lastRevision \in Nat
           /\ c.epochRevision \in Nat
BY DEF ClientType, Steady

LEMMA FlagSteady ==
    ASSUME NEW c \in ClientType, NEW x \in BOOLEAN
    PROVE  /\ Steady(c, [c EXCEPT !.attached = x])
           /\ Steady(c, [c EXCEPT !.knows = x])
           /\ Steady(c, [c EXCEPT !.subscribing = x])
           /\ Steady(c, [c EXCEPT !.pending = x])
           /\ Steady(c, [c EXCEPT !.awaiting = x])
           /\ Steady(c, [c EXCEPT !.release = x])
           /\ Steady(c, [c EXCEPT !.gaveUp = x])
<1>1. Steady(c, [c EXCEPT !.attached = x])
  BY DEF ClientType, Steady
<1>2. Steady(c, [c EXCEPT !.knows = x])
  BY DEF ClientType, Steady
<1>3. Steady(c, [c EXCEPT !.subscribing = x])
  BY DEF ClientType, Steady
<1>4. Steady(c, [c EXCEPT !.pending = x])
  BY DEF ClientType, Steady
<1>5. Steady(c, [c EXCEPT !.awaiting = x])
  BY DEF ClientType, Steady
<1>6. Steady(c, [c EXCEPT !.release = x])
  BY DEF ClientType, Steady
<1>7. Steady(c, [c EXCEPT !.gaveUp = x])
  BY DEF ClientType, Steady
<1> QED BY <1>1, <1>2, <1>3, <1>4, <1>5, <1>6, <1>7

LEMMA NumberSteady ==
    ASSUME NEW c \in ClientType, NEW n \in Nat
    PROVE  /\ Steady(c, [c EXCEPT !.epoch = n])
           /\ Steady(c, [c EXCEPT !.replacing = n])
           /\ Steady(c, [c EXCEPT !.failures = n])
<1>1. Steady(c, [c EXCEPT !.epoch = n])
  BY DEF ClientType, Steady
<1>2. Steady(c, [c EXCEPT !.replacing = n])
  BY DEF ClientType, Steady
<1>3. Steady(c, [c EXCEPT !.failures = n])
  BY DEF ClientType, Steady
<1> QED BY <1>1, <1>2, <1>3

LEMMA StateSteady ==
    ASSUME NEW c \in ClientType, NEW state \in SubscriptionStates
    PROVE  Steady(c, [c EXCEPT !.state = state])
BY DEF ClientType, Steady

LEMMA TimerSteady ==
    ASSUME NEW c \in ClientType, NEW timer \in {"none", "subscribe", "resync"}
    PROVE  Steady(c, [c EXCEPT !.timer = timer])
BY DEF ClientType, Steady

-----------------------------------------------------------------------------
(* The SDK's methods.                                                      *)

\* A method that shows nothing: its record is steady, its messages are requests.
SteadyDoes(c, r) == Steady(c, r.client) /\ r.send \in Seq(UpFrame)

LEMMA Sent ==
    /\ <<>> \in Seq(UpFrame)
    /\ \A n \in Nat, of \in Asks : <<Request(of, n)>> \in Seq(UpFrame)
    /\ \A n, k \in Nat : <<Receipt(n, k)>> \in Seq(UpFrame)
BY DEF UpFrame, AskFrame, ReceiptFrame, Request, Receipt

LEMMA DoesSteady ==
    ASSUME NEW c, NEW d, NEW messages, Steady(c, d), messages \in Seq(UpFrame)
    PROVE  SteadyDoes(c, Does(d, messages))
BY DEF SteadyDoes, Does

LEMMA SetStateSteady ==
    ASSUME NEW c \in ClientType, NEW state \in SubscriptionStates
    PROVE  Steady(c, SetState(c, state))
<1>1. CASE Ended(c)
  BY <1>1, ClientFields DEF SetState
<1>2. CASE ~Ended(c)
  <2> DEFINE d == [c EXCEPT !.state = state]
             e == [d EXCEPT !.pending = c.pending /\ state # "resync-required"]
  <2>1. Steady(c, d) /\ d \in ClientType /\ d.pending = c.pending
    BY StateSteady DEF Steady, ClientType
  <2> HIDE DEF d
  <2>2. Steady(d, e)
    BY <2>1, FlagSteady, (c.pending /\ state # "resync-required") \in BOOLEAN
  <2>3. SetState(c, state) = e
    BY <1>2, <2>1 DEF SetState, d
  <2> QED BY <2>1, <2>2, <2>3, SteadyTwice
<1> QED BY <1>1, <1>2

LEMMA TerminateSteady ==
    ASSUME NEW c \in ClientType, NEW state \in SubscriptionStates
    PROVE  Steady(c, Terminate(c, state))
<1>1. CASE Ended(c)
  BY <1>1, ClientFields DEF Terminate
<1>2. CASE ~Ended(c)
  <2> DEFINE d == [c EXCEPT !.timer = "none"]
             e == [d EXCEPT !.attached = FALSE]
             f == [e EXCEPT !.state = state]
  <2>1. Steady(c, d) /\ d \in ClientType
    BY TimerSteady DEF Steady
  <2>2. Steady(d, e) /\ e \in ClientType
    <3> HIDE DEF d
    <3> QED BY <2>1, FlagSteady DEF Steady
  <2>3. Steady(e, f)
    <3> HIDE DEF e
    <3> QED BY <2>2, StateSteady
  <2>4. Terminate(c, state) = f
    BY <1>2 DEF Terminate
  <2> HIDE DEF d, e, f
  <2> QED BY <2>1, <2>2, <2>3, <2>4, SteadyTwice
<1> QED BY <1>1, <1>2

LEMMA AttachSteady == ASSUME NEW c \in ClientType PROVE SteadyDoes(c, Attach(c))
<1> DEFINE d1 == [c EXCEPT !.timer = "none"]
           d2 == [d1 EXCEPT !.attached = TRUE]
           d3 == [d2 EXCEPT !.knows = FALSE]
           d4 == [d3 EXCEPT !.subscribing = TRUE]
           d5 == [d4 EXCEPT !.epoch = 0]
           d6 == [d5 EXCEPT !.replacing = 0]
           d7 == [d6 EXCEPT !.pending = FALSE]
           d8 == [d7 EXCEPT !.awaiting = TRUE]
           d9 == [d8 EXCEPT !.gaveUp = FALSE]
<1>0. Attach(c) = Does(SetState(d9, "authorizing"), <<Request("subscribe", 0)>>)
  BY DEF Attach
<1>1. Steady(c, d1) /\ d1 \in ClientType
  BY TimerSteady DEF Steady
<1> HIDE DEF d1
<1>2. Steady(c, d2) /\ d2 \in ClientType
  BY <1>1, FlagSteady, SteadyTwice DEF Steady
<1> HIDE DEF d2
<1>3. Steady(c, d3) /\ d3 \in ClientType
  BY <1>2, FlagSteady, SteadyTwice DEF Steady
<1> HIDE DEF d3
<1>4. Steady(c, d4) /\ d4 \in ClientType
  BY <1>3, FlagSteady, SteadyTwice DEF Steady
<1> HIDE DEF d4
<1>5. Steady(c, d5) /\ d5 \in ClientType
  BY <1>4, NumberSteady, SteadyTwice DEF Steady
<1> HIDE DEF d5
<1>6. Steady(c, d6) /\ d6 \in ClientType
  BY <1>5, NumberSteady, SteadyTwice DEF Steady
<1> HIDE DEF d6
<1>7. Steady(c, d7) /\ d7 \in ClientType
  BY <1>6, FlagSteady, SteadyTwice DEF Steady
<1> HIDE DEF d7
<1>8. Steady(c, d8) /\ d8 \in ClientType
  BY <1>7, FlagSteady, SteadyTwice DEF Steady
<1> HIDE DEF d8
<1>9. Steady(c, d9) /\ d9 \in ClientType
  BY <1>8, FlagSteady, SteadyTwice DEF Steady
<1> HIDE DEF d9
<1>10. Steady(c, SetState(d9, "authorizing"))
  BY <1>9, SetStateSteady, SteadyTwice DEF SubscriptionStates
<1>11. <<Request("subscribe", 0)>> \in Seq(UpFrame)
  BY Sent DEF Asks
<1> QED BY <1>0, <1>10, <1>11, DoesSteady

LEMMA DetachSteady == ASSUME NEW c \in ClientType PROVE Steady(c, Detach(c))
<1> DEFINE d1 == [c EXCEPT !.timer = "none"]
           d2 == [d1 EXCEPT !.attached = FALSE]
           d3 == [d2 EXCEPT !.knows = FALSE]
           d4 == [d3 EXCEPT !.subscribing = FALSE]
           d5 == [d4 EXCEPT !.awaiting = TRUE]
           d6 == [d5 EXCEPT !.replacing = 0]
           d7 == [d6 EXCEPT !.pending = FALSE]
<1>0. Detach(c) = d7 \/ Detach(c) = SetState(d7, "stale")
  BY DEF Detach
<1>1. Steady(c, d1) /\ d1 \in ClientType
  BY TimerSteady DEF Steady
<1> HIDE DEF d1
<1>2. Steady(c, d2) /\ d2 \in ClientType
  BY <1>1, FlagSteady, SteadyTwice DEF Steady
<1> HIDE DEF d2
<1>3. Steady(c, d3) /\ d3 \in ClientType
  BY <1>2, FlagSteady, SteadyTwice DEF Steady
<1> HIDE DEF d3
<1>4. Steady(c, d4) /\ d4 \in ClientType
  BY <1>3, FlagSteady, SteadyTwice DEF Steady
<1> HIDE DEF d4
<1>5. Steady(c, d5) /\ d5 \in ClientType
  BY <1>4, FlagSteady, SteadyTwice DEF Steady
<1> HIDE DEF d5
<1>6. Steady(c, d6) /\ d6 \in ClientType
  BY <1>5, NumberSteady, SteadyTwice DEF Steady
<1> HIDE DEF d6
<1>7. Steady(c, d7) /\ d7 \in ClientType
  BY <1>6, FlagSteady, SteadyTwice DEF Steady
<1> HIDE DEF d7
<1>8. Steady(c, SetState(d7, "stale"))
  BY <1>7, SetStateSteady, SteadyTwice DEF SubscriptionStates
<1> QED BY <1>0, <1>7, <1>8

LEMMA EndSteady ==
    ASSUME NEW c \in ClientType, NEW state \in SubscriptionStates
    PROVE  SteadyDoes(c, End(c, state))
<1> DEFINE d == Terminate(c, state)
           e == [d EXCEPT !.gaveUp = FALSE]
<1>1. Steady(c, d) /\ d \in ClientType
  BY TerminateSteady DEF Steady
<1>2. Steady(c, e)
  <2> HIDE DEF d
  <2> QED BY <1>1, FlagSteady, SteadyTwice
<1>3. \E messages \in {<<>>, <<Request("unsubscribe", 0)>>} : End(c, state) = Does(e, messages)
  BY DEF End
<1>4. <<Request("unsubscribe", 0)>> \in Seq(UpFrame) /\ <<>> \in Seq(UpFrame)
  BY Sent DEF Asks
<1> HIDE DEF d, e
<1> QED BY <1>2, <1>3, <1>4, DoesSteady

\* The last case of requestFreshSynchronization: a resync is sent.
LEMMA ResyncSteady ==
    ASSUME NEW c \in ClientType
    PROVE  SteadyDoes(c, Does([c EXCEPT !.timer = "none", !.replacing = c.epoch, !.pending = TRUE,
                                        !.awaiting = TRUE,
                                        !.state = IF @ = "stale" THEN @ ELSE "authorizing"],
                              <<Request("resync", c.epoch)>>))
<1> DEFINE d1 == [c EXCEPT !.timer = "none"]
           d2 == [d1 EXCEPT !.replacing = c.epoch]
           d3 == [d2 EXCEPT !.pending = TRUE]
           d4 == [d3 EXCEPT !.awaiting = TRUE]
           state == IF c.state = "stale" THEN c.state ELSE "authorizing"
           d5 == [d4 EXCEPT !.state = state]
<1>0. [c EXCEPT !.timer = "none", !.replacing = c.epoch, !.pending = TRUE, !.awaiting = TRUE,
                !.state = IF @ = "stale" THEN @ ELSE "authorizing"] = d5
  BY DEF ClientType
<1>a. c.epoch \in Nat /\ state \in SubscriptionStates
  BY ClientFields DEF SubscriptionStates
<1> HIDE DEF state
<1>1. Steady(c, d1) /\ d1 \in ClientType
  BY TimerSteady DEF Steady
<1> HIDE DEF d1
<1>2. Steady(c, d2) /\ d2 \in ClientType
  BY <1>a, <1>1, NumberSteady, SteadyTwice DEF Steady
<1> HIDE DEF d2
<1>3. Steady(c, d3) /\ d3 \in ClientType
  BY <1>2, FlagSteady, SteadyTwice DEF Steady
<1> HIDE DEF d3
<1>4. Steady(c, d4) /\ d4 \in ClientType
  BY <1>3, FlagSteady, SteadyTwice DEF Steady
<1> HIDE DEF d4
<1>5. Steady(c, d5)
  BY <1>a, <1>4, StateSteady, SteadyTwice
<1>6. <<Request("resync", c.epoch)>> \in Seq(UpFrame)
  BY <1>a, Sent DEF Asks
<1> HIDE DEF d5
<1> QED BY <1>0, <1>5, <1>6, DoesSteady

LEMMA RequestFreshSteady == ASSUME NEW c \in ClientType PROVE SteadyDoes(c, RequestFresh(c))
<1>0. SteadyDoes(c, Does(c, <<>>))
  BY ClientFields, Sent, DoesSteady
<1>1. CASE ~c.attached
  BY <1>0, <1>1 DEF RequestFresh
<1>2. CASE c.attached /\ ~c.knows
  BY <1>0, <1>2, AttachSteady DEF RequestFresh
<1>3. CASE c.attached /\ c.knows
  <2>1. RequestFresh(c) =
           IF c.state \in {"authorizing", "synchronizing"} \/ c.pending THEN Does(c, <<>>)
           ELSE Does([c EXCEPT !.timer = "none", !.replacing = c.epoch, !.pending = TRUE,
                               !.awaiting = TRUE,
                               !.state = IF @ = "stale" THEN @ ELSE "authorizing"],
                     <<Request("resync", c.epoch)>>)
    BY <1>3 DEF RequestFresh
  <2> QED BY <1>0, <2>1, ResyncSteady
<1> QED BY <1>1, <1>2, <1>3

\* A method applied to a record that is steady itself.
LEMMA SteadyFrom ==
    ASSUME NEW c, NEW d, NEW r, Steady(c, d), SteadyDoes(d, r)
    PROVE  SteadyDoes(c, r)
BY SteadyTwice DEF SteadyDoes

LEMMA Counted ==
    ASSUME NEW c \in ClientType
    PROVE  LET f == [c EXCEPT !.failures = @ + 1] IN Steady(c, f) /\ f \in ClientType
BY DEF ClientType, Steady

LEMMA LocalSyncFailureSteady ==
    ASSUME NEW c \in ClientType
    PROVE  SteadyDoes(c, LocalSyncFailure(c))
<1> DEFINE f == [c EXCEPT !.failures = @ + 1]
           d1 == [f EXCEPT !.knows = FALSE]
           d2 == [d1 EXCEPT !.awaiting = TRUE]
           d3 == SetState(d2, "resync-required")
           d4 == [d3 EXCEPT !.gaveUp = TRUE]
           messages == IF c.knows THEN <<Request("unsubscribe", 0)>> ELSE <<>>
<1>0. LocalSyncFailure(c) = Does(d4, messages) \/ LocalSyncFailure(c) = RequestFresh(SetState(f, "stale"))
  BY DEF LocalSyncFailure
<1>1. Steady(c, f) /\ f \in ClientType
  BY Counted
<1> HIDE DEF f
<1>2. Steady(c, d1) /\ d1 \in ClientType
  BY <1>1, FlagSteady, SteadyTwice DEF Steady
<1> HIDE DEF d1
<1>3. Steady(c, d2) /\ d2 \in ClientType
  BY <1>2, FlagSteady, SteadyTwice DEF Steady
<1> HIDE DEF d2
<1>4. Steady(c, d3) /\ d3 \in ClientType
  BY <1>3, SetStateSteady, SteadyTwice DEF Steady, SubscriptionStates
<1> HIDE DEF d3
<1>5. Steady(c, d4)
  BY <1>4, FlagSteady, SteadyTwice
<1>6. messages \in Seq(UpFrame)
  BY Sent DEF Asks
<1>7. Steady(c, SetState(f, "stale")) /\ SetState(f, "stale") \in ClientType
  BY <1>1, SetStateSteady, SteadyTwice DEF Steady, SubscriptionStates
<1> HIDE DEF d4, messages
<1> QED BY <1>0, <1>5, <1>6, <1>7, DoesSteady, RequestFreshSteady, SteadyFrom

LEMMA RefusedSteady ==
    ASSUME NEW c \in ClientType, NEW timer \in {"subscribe", "resync"}
    PROVE  Steady(c, Refused(c, timer))
<1> DEFINE f == [c EXCEPT !.failures = @ + 1]
           d == SetState(f, "stale")
           e == [d EXCEPT !.timer = timer]
<1>0. Refused(c, timer) = e \/ Refused(c, timer) = SetState(f, "resync-required")
  BY DEF Refused
<1>1. Steady(c, f) /\ f \in ClientType
  BY Counted
<1> HIDE DEF f
<1>2. Steady(c, SetState(f, "resync-required"))
  BY <1>1, SetStateSteady, SteadyTwice DEF SubscriptionStates
<1>3. Steady(c, d) /\ d \in ClientType
  BY <1>1, SetStateSteady, SteadyTwice DEF Steady, SubscriptionStates
<1> HIDE DEF d
<1>4. Steady(c, e)
  BY <1>3, TimerSteady, SteadyTwice
<1> QED BY <1>0, <1>2, <1>4

LEMMA AcknowledgedSteady ==
    ASSUME NEW c \in ClientType, NEW m
    PROVE  Steady(c, Acknowledged(c, m))
BY ClientFields, NumberSteady DEF Acknowledged

LEMMA SubscribeAnsweredSteady ==
    ASSUME NEW c \in ClientType, NEW result
    PROVE  SteadyDoes(c, SubscribeAnswered(c, result))
<1> DEFINE f == [c EXCEPT !.subscribing = FALSE]
           g == [f EXCEPT !.knows = TRUE]
<1>1. Steady(c, f) /\ f \in ClientType
  BY FlagSteady DEF Steady
<1>2. SubscribeAnswered(c, result) \in {Does(f, <<>>), Does(g, <<>>), Does(Refused(f, "subscribe"), <<>>),
                                        Does(Terminate(f, "failed"), <<>>)}
  BY DEF SubscribeAnswered
<1> HIDE DEF f
<1>3. Steady(c, g)
  BY <1>1, FlagSteady, SteadyTwice
<1>4. Steady(c, Refused(f, "subscribe"))
  BY <1>1, RefusedSteady, SteadyTwice
<1>5. Steady(c, Terminate(f, "failed"))
  BY <1>1, TerminateSteady, SteadyTwice DEF SubscriptionStates
<1> HIDE DEF g
<1> QED BY <1>1, <1>2, <1>3, <1>4, <1>5, Sent, DoesSteady

LEMMA ResyncRefusedSteady ==
    ASSUME NEW c \in ClientType, NEW m
    PROVE  SteadyDoes(c, ResyncRefused(c, m))
<1> DEFINE d1 == [c EXCEPT !.replacing = 0]
           d2 == [d1 EXCEPT !.pending = FALSE]
           d3 == [d2 EXCEPT !.awaiting = TRUE]
<1>0. ResyncRefused(c, m) \in {Does(c, <<>>), Attach(c), Does(Refused(d3, "resync"), <<>>)}
  <2>1. CASE ~c.attached
    BY <2>1 DEF ResyncRefused
  <2>2. CASE c.attached /\ m.result = "INVALID_REQUEST"
    BY <2>2 DEF ResyncRefused
  <2>3. CASE c.attached /\ m.result # "INVALID_REQUEST"
    <3>1. [c EXCEPT !.replacing = 0, !.pending = FALSE, !.awaiting = TRUE] = d3
      OBVIOUS
    <3> HIDE DEF d3
    <3> QED BY <2>3, <3>1 DEF ResyncRefused
  <2> QED BY <2>1, <2>2, <2>3
<1>1. Steady(c, d1) /\ d1 \in ClientType
  BY NumberSteady DEF Steady
<1> HIDE DEF d1
<1>2. Steady(c, d2) /\ d2 \in ClientType
  BY <1>1, FlagSteady, SteadyTwice DEF Steady
<1> HIDE DEF d2
<1>3. Steady(c, d3) /\ d3 \in ClientType
  BY <1>2, FlagSteady, SteadyTwice DEF Steady
<1> HIDE DEF d3
<1>4. Steady(c, Refused(d3, "resync"))
  BY <1>3, RefusedSteady, SteadyTwice
<1> QED BY <1>0, <1>4, ClientFields, Sent, DoesSteady, AttachSteady

-----------------------------------------------------------------------------
(* handleState and handleData, which number and show the frames.           *)

LEMMA AcceptEpochOK ==
    ASSUME NEW c, ClientOK(c), NEW epoch \in Nat
    PROVE  ClientOK(AcceptEpoch(c, epoch)) /\ AcceptEpoch(c, epoch).shown = c.shown
<1> DEFINE d1 == [c EXCEPT !.epoch = epoch]
           d2 == [d1 EXCEPT !.replacing = 0]
           d3 == [d2 EXCEPT !.pending = FALSE]
           d4 == [d3 EXCEPT !.awaiting = FALSE]
           d5 == [d4 EXCEPT !.expected = 1]
           d6 == [d5 EXCEPT !.epochRevision = 0]
<1>0. c \in ClientType
  BY DEF ClientOK
<1>1. AcceptEpoch(c, epoch) = c \/ AcceptEpoch(c, epoch) = SetState(d6, "synchronizing")
  BY DEF AcceptEpoch
<1>2. Steady(c, d1) /\ d1 \in ClientType
  BY <1>0, NumberSteady DEF Steady
<1> HIDE DEF d1
<1>3. Steady(c, d2) /\ d2 \in ClientType
  BY <1>2, NumberSteady, SteadyTwice DEF Steady
<1> HIDE DEF d2
<1>4. Steady(c, d3) /\ d3 \in ClientType
  BY <1>3, FlagSteady, SteadyTwice DEF Steady
<1> HIDE DEF d3
<1>5. Steady(c, d4) /\ d4 \in ClientType
  BY <1>4, FlagSteady, SteadyTwice DEF Steady
<1> HIDE DEF d4
<1>6. d5 \in ClientType /\ d5.expected = 1 /\ d5.shown = c.shown /\ d5.lastRevision = c.lastRevision
  BY <1>5 DEF ClientType, Steady
<1> HIDE DEF d5
<1>7. d6 \in ClientType /\ d6.expected = 1 /\ d6.shown = c.shown /\ d6.lastRevision = c.lastRevision
  BY <1>6 DEF ClientType
<1> HIDE DEF d6
<1>8. ClientOK(d6)
  BY <1>7 DEF ClientOK, InOrder
<1>9. ClientOK(SetState(d6, "synchronizing")) /\ SetState(d6, "synchronizing").shown = c.shown
  BY <1>7, <1>8, SetStateSteady, SteadyIsOK DEF SubscriptionStates
<1> QED BY <1>1, <1>9

LEMMA HandleStateOK ==
    ASSUME NEW c, ClientOK(c), NEW m \in StateFrame
    PROVE  ClientOK(HandleState(c, m)) /\ HandleState(c, m).shown = c.shown
<1> DEFINE k == [c EXCEPT !.knows = TRUE]
           t1 == [k EXCEPT !.knows = FALSE]
           t2 == [t1 EXCEPT !.gaveUp = FALSE]
           n == IF m.state = "live" THEN 0 ELSE c.failures
           f == [k EXCEPT !.failures = n]
<1>0. c \in ClientType /\ m.state \in SubscriptionStates /\ m.epoch \in Nat /\ n \in Nat
  BY ClientFields DEF ClientOK, StateFrame
<1>1. Steady(c, k) /\ k \in ClientType /\ k.failures = c.failures
  BY <1>0 DEF Steady, ClientType
<1>2. HandleState(c, m) \in {c, AcceptEpoch(k, m.epoch), k, Terminate(t2, m.state), SetState(f, m.state)}
  <2>0. [k EXCEPT !.failures = IF m.state = "live" THEN 0 ELSE @] = f
    BY <1>1
  <2>1. CASE ~c.attached
    BY <2>1 DEF HandleState
  <2>2. CASE c.attached /\ m.state = "synchronizing"
    BY <2>2 DEF HandleState
  <2>3. CASE c.attached /\ m.state # "synchronizing" /\ ~FrameApplies(c, m)
    BY <2>3 DEF HandleState
  <2>4. CASE c.attached /\ m.state # "synchronizing" /\ FrameApplies(c, m)
    BY <2>0, <2>4 DEF HandleState
  <2> QED BY <2>1, <2>2, <2>3, <2>4
<1> HIDE DEF k, n
<1>3. Steady(c, t1) /\ t1 \in ClientType
  BY <1>1, FlagSteady, SteadyTwice DEF Steady
<1> HIDE DEF t1
<1>4. Steady(c, t2) /\ t2 \in ClientType
  BY <1>3, FlagSteady, SteadyTwice DEF Steady
<1> HIDE DEF t2
<1>5. Steady(c, f) /\ f \in ClientType
  BY <1>0, <1>1, NumberSteady, SteadyTwice DEF Steady
<1> HIDE DEF f
<1>6. Steady(c, Terminate(t2, m.state)) /\ Steady(c, SetState(f, m.state))
  BY <1>0, <1>4, <1>5, TerminateSteady, SetStateSteady, SteadyTwice
<1>7. ClientOK(k) /\ k.shown = c.shown
  BY <1>1, SteadyIsOK
<1>8. ClientOK(AcceptEpoch(k, m.epoch)) /\ AcceptEpoch(k, m.epoch).shown = c.shown
  BY <1>0, <1>7, AcceptEpochOK
<1> QED BY <1>2, <1>6, <1>7, <1>8, SteadyIsOK

\* A frame that follows is no older than what was shown.
LEMMA DispatchedOK ==
    ASSUME NEW c, ClientOK(c), NEW m \in DataFrame, FrameFollows(c, m)
    PROVE  LET d == Dispatched(c, m.revision) IN ClientOK(d) /\ d.shown >= c.shown
<1> DEFINE last == Bigger(c.lastRevision, m.revision)
           d1 == [c EXCEPT !.expected = @ + 1]
           d2 == [d1 EXCEPT !.epochRevision = m.revision]
           d3 == [d2 EXCEPT !.shown = m.revision]
           d == [d3 EXCEPT !.lastRevision = last]
<1>0. /\ c \in ClientType /\ c.shown \in Nat /\ c.lastRevision \in Nat /\ c.epochRevision \in Nat
      /\ c.expected \in Nat /\ m.revision \in Nat /\ m.sequence \in Nat
  BY ClientFields DEF ClientOK, DataFrame
<1>1. m.revision >= c.shown
  BY <1>0 DEF ClientOK, InOrder, FrameFollows
<1>2. last \in Nat /\ last >= m.revision
  BY <1>0 DEF Bigger
<1>3. Dispatched(c, m.revision) = d
  BY <1>0 DEF Dispatched, ClientType
<1> HIDE DEF last
<1>4. d1 \in ClientType
  BY <1>0 DEF ClientType
<1> HIDE DEF d1
<1>5. d2 \in ClientType /\ d2.epochRevision = m.revision
  BY <1>0, <1>4 DEF ClientType
<1> HIDE DEF d2
<1>6. d3 \in ClientType /\ d3.epochRevision = m.revision /\ d3.shown = m.revision
  BY <1>0, <1>5 DEF ClientType
<1> HIDE DEF d3
<1>7. /\ d \in ClientType /\ d.epochRevision = m.revision /\ d.shown = m.revision
      /\ d.lastRevision = last
  BY <1>2, <1>6 DEF ClientType
<1> HIDE DEF d
<1> QED BY <1>0, <1>1, <1>2, <1>3, <1>7 DEF ClientOK, InOrder

LEMMA HandleDataOK ==
    ASSUME NEW c, ClientOK(c), NEW m \in DataFrame, NEW throws \in BOOLEAN
    PROVE  LET r == HandleData(c, m, throws)
           IN  ClientOK(r.client) /\ r.client.shown >= c.shown /\ r.send \in Seq(UpFrame)
<1> DEFINE k == [c EXCEPT !.knows = TRUE]
           receipt == <<Receipt(m.epoch, m.sequence)>>
           d == Dispatched(k, m.revision)
<1>0. c \in ClientType /\ c.shown \in Nat /\ m.epoch \in Nat /\ m.sequence \in Nat
  BY ClientFields DEF ClientOK, DataFrame
<1>1. Steady(c, k) /\ k \in ClientType
  BY <1>0, FlagSteady DEF Steady
<1>2. ClientOK(k) /\ k.shown = c.shown
  BY <1>1, SteadyIsOK
<1>3. receipt \in Seq(UpFrame) /\ <<>> \in Seq(UpFrame)
  BY <1>0, Sent
<1>4. CASE ~c.attached
  <2>1. HandleData(c, m, throws) = Does(c, <<>>)
    BY <1>4 DEF HandleData
  <2> QED BY <1>0, <1>3, <2>1 DEF Does
<1>5. CASE c.attached /\ (c.awaiting \/ m.epoch # c.epoch)
  <2>1. HandleData(c, m, throws) = Does(k, IF m.epoch = c.epoch THEN receipt ELSE <<>>)
    BY <1>5 DEF HandleData
  <2> HIDE DEF k, receipt
  <2> QED BY <1>0, <1>2, <1>3, <2>1 DEF Does
<1>6. CASE c.attached /\ ~c.awaiting /\ m.epoch = c.epoch /\ ~FrameFollows(c, m)
  <2>1. HandleData(c, m, throws) = LocalSyncFailure(k)
    BY <1>6 DEF HandleData
  <2> HIDE DEF k
  <2>2. SteadyDoes(k, LocalSyncFailure(k))
    BY <1>1, LocalSyncFailureSteady
  <2> QED BY <1>0, <1>2, <2>1, <2>2, SteadyIsOK DEF SteadyDoes
<1>7. CASE c.attached /\ ~c.awaiting /\ m.epoch = c.epoch /\ FrameFollows(c, m)
  <2>1. HandleData(c, m, throws) = IF throws THEN End(d, "failed") ELSE Does(d, receipt)
    BY <1>7 DEF HandleData
  <2>2. FrameFollows(k, m)
    BY <1>7, <1>0 DEF FrameFollows, ClientType
  <2> HIDE DEF k, receipt
  <2>3. ClientOK(d) /\ d.shown >= k.shown
    BY <1>2, <2>2, DispatchedOK
  <2> HIDE DEF d
  <2>4. CASE throws
    <3>1. SteadyDoes(d, End(d, "failed"))
      BY <2>3, EndSteady DEF SubscriptionStates, ClientOK
    <3> QED BY <1>2, <2>1, <2>3, <2>4, <3>1, SteadyIsOK DEF SteadyDoes
  <2>5. CASE ~throws
    BY <1>2, <1>3, <2>1, <2>3, <2>5 DEF Does
  <2> QED BY <2>4, <2>5
<1> QED BY <1>4, <1>5, <1>6, <1>7

-----------------------------------------------------------------------------
(* The gateway's record, one field at a time.                              *)

LEMMA PeerFields ==
    ASSUME NEW p \in PeerType
    PROVE  /\ p.open \in BOOLEAN /\ p.phase \in PeerPhases
           /\ p.epoch \in Nat /\ p.issued \in Nat /\ p.sequence \in Nat
           /\ p.inFlight \in [sequence : Nat, revision : Nat]
           /\ p.inFlight.sequence \in Nat /\ p.inFlight.revision \in Nat
           /\ p.queue \in Seq(Nat) /\ p.drain \in Int
           /\ p.tail \in Nat /\ p.lastDelivered \in Nat /\ p.attempts \in Nat
BY DEF PeerType

\* The phase and the attempts are those of another record.
SameAttempt(p, q) == q \in PeerType /\ q.phase = p.phase /\ q.attempts = p.attempts

LEMMA SameAttemptTwice ==
    ASSUME NEW p, NEW q, NEW r, SameAttempt(p, q), SameAttempt(q, r)
    PROVE  SameAttempt(p, r)
BY DEF SameAttempt

LEMMA SameAttemptOK == ASSUME NEW p, NEW q, PeerOK(p), SameAttempt(p, q) PROVE PeerOK(q)
BY DEF SameAttempt, PeerOK

LEMMA PeerNumbers ==
    ASSUME NEW p \in PeerType, NEW n \in Nat
    PROVE  /\ SameAttempt(p, [p EXCEPT !.epoch = n])
           /\ SameAttempt(p, [p EXCEPT !.issued = n])
           /\ SameAttempt(p, [p EXCEPT !.sequence = n])
           /\ SameAttempt(p, [p EXCEPT !.tail = n])
           /\ SameAttempt(p, [p EXCEPT !.lastDelivered = n])
<1>1. SameAttempt(p, [p EXCEPT !.epoch = n])
  BY DEF PeerType, SameAttempt
<1>2. SameAttempt(p, [p EXCEPT !.issued = n])
  BY DEF PeerType, SameAttempt
<1>3. SameAttempt(p, [p EXCEPT !.sequence = n])
  BY DEF PeerType, SameAttempt
<1>4. SameAttempt(p, [p EXCEPT !.tail = n])
  BY DEF PeerType, SameAttempt
<1>5. SameAttempt(p, [p EXCEPT !.lastDelivered = n])
  BY DEF PeerType, SameAttempt
<1> QED BY <1>1, <1>2, <1>3, <1>4, <1>5

LEMMA PeerDrain ==
    ASSUME NEW p \in PeerType, NEW n \in Int
    PROVE  SameAttempt(p, [p EXCEPT !.drain = n])
BY DEF PeerType, SameAttempt

LEMMA PeerQueue ==
    ASSUME NEW p \in PeerType, NEW q \in Seq(Nat)
    PROVE  SameAttempt(p, [p EXCEPT !.queue = q])
BY DEF PeerType, SameAttempt

LEMMA PeerInFlight ==
    ASSUME NEW p \in PeerType, NEW f \in [sequence : Nat, revision : Nat]
    PROVE  SameAttempt(p, [p EXCEPT !.inFlight = f])
BY DEF PeerType, SameAttempt

LEMMA PeerPhase ==
    ASSUME NEW p \in PeerType, NEW phase \in PeerPhases
    PROVE  LET q == [p EXCEPT !.phase = phase]
           IN  q \in PeerType /\ q.phase = phase /\ q.attempts = p.attempts
BY DEF PeerType

LEMMA PeerAttempts ==
    ASSUME NEW p \in PeerType, NEW n \in Nat
    PROVE  LET q == [p EXCEPT !.attempts = n]
           IN  q \in PeerType /\ q.phase = p.phase /\ q.attempts = n
BY DEF PeerType

LEMMA NothingTyped == Nothing \in [sequence : Nat, revision : Nat]
BY DEF Nothing

LEMMA NoPeerOK == ASSUME NEW n \in Nat PROVE PeerOK(NoPeer(n)) /\ NoPeer(n).phase = "none"
BY NothingTyped DEF NoPeer, PeerOK, PeerType, PeerPhases

LEMMA PeerOpen ==
    ASSUME NEW p, PeerOK(p), NEW x \in BOOLEAN
    PROVE  PeerOK([p EXCEPT !.open = x])
BY DEF PeerOK, PeerType

-----------------------------------------------------------------------------
(* The gateway's methods.                                                  *)

TellsOK(r) ==
    /\ r = [peer |-> r.peer, send |-> r.send]
    /\ PeerOK(r.peer) /\ r.send \in Seq(DownFrame)

LEMMA Told ==
    /\ <<>> \in Seq(DownFrame)
    /\ \A state \in SubscriptionStates, n \in Nat : <<State(state, n)>> \in Seq(DownFrame)
    /\ \A n, k, r \in Nat : <<Data(n, k, r)>> \in Seq(DownFrame)
    /\ \A of \in Asks, result \in Results, n \in Nat : <<Ack(of, result, n)>> \in Seq(DownFrame)
    /\ <<Goodbye>> \in Seq(DownFrame)
<1>1. \A state \in SubscriptionStates, n \in Nat : State(state, n) \in DownFrame
  BY DEF State, StateFrame, DownFrame
<1>2. \A n, k, r \in Nat : Data(n, k, r) \in DownFrame
  BY DEF Data, DataFrame, DownFrame
<1>3. \A of \in Asks, result \in Results, n \in Nat : Ack(of, result, n) \in DownFrame
  BY DEF Ack, AckFrame, DownFrame
<1>4. Goodbye \in DownFrame
  BY DEF DownFrame
<1> QED BY <1>1, <1>2, <1>3, <1>4

LEMMA TellsTyped ==
    ASSUME NEW p, NEW messages, PeerOK(p), messages \in Seq(DownFrame)
    PROVE  TellsOK(Tells(p, messages))
BY DEF TellsOK, Tells

LEMMA ResetSame == ASSUME NEW p \in PeerType PROVE SameAttempt(p, Reset(p))
<1> DEFINE d1 == [p EXCEPT !.queue = <<>>]
           d2 == [d1 EXCEPT !.inFlight = Nothing]
           d3 == [d2 EXCEPT !.drain = 0]
           d4 == [d3 EXCEPT !.tail = 0]
<1>0. Reset(p) = d4
  BY DEF Reset
<1>1. SameAttempt(p, d1) /\ d1 \in PeerType
  BY PeerQueue, <<>> \in Seq(Nat) DEF SameAttempt
<1> HIDE DEF d1
<1>2. SameAttempt(p, d2) /\ d2 \in PeerType
  BY <1>1, PeerInFlight, NothingTyped, SameAttemptTwice DEF SameAttempt
<1> HIDE DEF d2
<1>3. SameAttempt(p, d3) /\ d3 \in PeerType
  BY <1>2, PeerDrain, SameAttemptTwice, 0 \in Int DEF SameAttempt
<1> HIDE DEF d3
<1>4. SameAttempt(p, d4)
  BY <1>3, PeerNumbers, SameAttemptTwice
<1> QED BY <1>0, <1>4

LEMMA BeginAttemptOK ==
    ASSUME NEW p \in PeerType, NEW announce \in BOOLEAN
    PROVE  TellsOK(BeginAttempt(p, announce))
<1> DEFINE r == Reset(p)
           d1 == [r EXCEPT !.phase = "authorizing"]
           d2 == [d1 EXCEPT !.attempts = @ + 1]
           messages == IF announce THEN <<State("authorizing", p.epoch)>> ELSE <<>>
<1>0. BeginAttempt(p, announce) = Tells(d2, messages)
  BY DEF BeginAttempt
<1>1. r \in PeerType
  BY ResetSame DEF SameAttempt
<1> HIDE DEF r
<1>2. d1 \in PeerType /\ d1.attempts \in Nat
  BY <1>1, PeerPhase, PeerFields DEF PeerPhases
<1> HIDE DEF d1
<1>3. PeerOK(d2)
  <2>1. d1.attempts + 1 \in Nat /\ d1.attempts + 1 # 0
    BY <1>2
  <2>2. d2 \in PeerType /\ d2.attempts = d1.attempts + 1
    BY <1>2, <2>1, PeerAttempts
  <2> QED BY <2>1, <2>2 DEF PeerOK
<1>4. messages \in Seq(DownFrame)
  BY Told, PeerFields DEF SubscriptionStates
<1> HIDE DEF d2, messages
<1> QED BY <1>0, <1>3, <1>4, TellsTyped

LEMMA AttemptFailedOK == ASSUME NEW p \in PeerType PROVE TellsOK(AttemptFailed(p))
<1> DEFINE r == Reset(p)
           gone == p.attempts >= MaxSyncAttempts
           phase == IF gone THEN "resync-required" ELSE "backoff"
           d == [r EXCEPT !.phase = phase]
           more == IF gone THEN <<State("resync-required", p.epoch)>> ELSE <<>>
           messages == <<State("stale", p.epoch)>> \o more
<1>0. AttemptFailed(p) = Tells(d, messages)
  BY DEF AttemptFailed
<1>1. r \in PeerType
  BY ResetSame DEF SameAttempt
<1>2. phase \in PeerPhases /\ phase # "authorizing"
  BY DEF PeerPhases
<1>3. more \in Seq(DownFrame) /\ <<State("stale", p.epoch)>> \in Seq(DownFrame)
  BY Told, PeerFields DEF SubscriptionStates
<1> HIDE DEF r, gone, phase, more
<1>4. PeerOK(d)
  BY <1>1, <1>2, PeerPhase DEF PeerOK
<1>5. messages \in Seq(DownFrame)
  BY <1>3
<1> HIDE DEF d, messages
<1> QED BY <1>0, <1>4, <1>5, TellsTyped

LEMMA TransmitOK ==
    ASSUME NEW p, PeerOK(p), NEW revision \in Nat
    PROVE  TellsOK(Transmit(p, revision))
<1> DEFINE d1 == [p EXCEPT !.sequence = p.sequence + 1]
           frame == [sequence |-> p.sequence + 1, revision |-> revision]
           d2 == [d1 EXCEPT !.inFlight = frame]
<1>0. p \in PeerType /\ p.sequence + 1 \in Nat /\ p.epoch \in Nat
  BY PeerFields DEF PeerOK
<1>1. Transmit(p, revision) = Tells(d2, <<Data(p.epoch, p.sequence + 1, revision)>>)
  BY DEF Transmit
<1>2. SameAttempt(p, d1) /\ d1 \in PeerType
  BY <1>0, PeerNumbers DEF SameAttempt
<1>3. frame \in [sequence : Nat, revision : Nat]
  BY <1>0
<1> HIDE DEF d1, frame
<1>4. PeerOK(d2)
  BY <1>2, <1>3, PeerInFlight, SameAttemptTwice, SameAttemptOK
<1>5. <<Data(p.epoch, p.sequence + 1, revision)>> \in Seq(DownFrame)
  BY <1>0, Told
<1> HIDE DEF d2
<1> QED BY <1>1, <1>4, <1>5, TellsTyped

LEMMA PumpOK == ASSUME NEW p, PeerOK(p) PROVE TellsOK(Pump(p))
<1> DEFINE d == [p EXCEPT !.queue = Tail(@)]
<1>0. p \in PeerType /\ p.queue \in Seq(Nat)
  BY PeerFields DEF PeerOK
<1>1. CASE p.inFlight # Nothing \/ p.phase \notin {"draining", "live"} \/ p.queue = <<>>
  BY <1>1, Told, TellsTyped DEF Pump
<1>2. CASE ~(p.inFlight # Nothing \/ p.phase \notin {"draining", "live"} \/ p.queue = <<>>)
  <2>1. Pump(p) = Transmit(d, Head(p.queue))
    BY <1>2 DEF Pump
  <2>2. Tail(p.queue) \in Seq(Nat) /\ Head(p.queue) \in Nat
    BY <1>0, <1>2
  <2>3. SameAttempt(p, d)
    BY <1>0, <2>2, PeerQueue
  <2> HIDE DEF d
  <2> QED BY <2>1, <2>2, <2>3, SameAttemptOK, TransmitOK
<1> QED BY <1>1, <1>2

LEMMA GoLiveOK == ASSUME NEW p \in PeerType PROVE TellsOK(GoLive(p))
<1> DEFINE d1 == [p EXCEPT !.phase = "live"]
           d2 == [d1 EXCEPT !.attempts = 0]
           r == Pump(d2)
<1>1. GoLive(p) = Tells(r.peer, <<State("live", p.epoch)>> \o r.send)
  BY DEF GoLive
<1>2. d1 \in PeerType /\ d1.phase = "live"
  BY PeerPhase DEF PeerPhases
<1> HIDE DEF d1
<1>3. PeerOK(d2)
  BY <1>2, PeerAttempts DEF PeerOK
<1> HIDE DEF d2
<1>4. TellsOK(r)
  BY <1>3, PumpOK
<1> HIDE DEF r
<1>5. <<State("live", p.epoch)>> \in Seq(DownFrame)
  BY Told, PeerFields DEF SubscriptionStates
<1>6. <<State("live", p.epoch)>> \o r.send \in Seq(DownFrame)
  BY <1>4, <1>5 DEF TellsOK
<1> QED BY <1>1, <1>4, <1>6, TellsTyped DEF TellsOK

-----------------------------------------------------------------------------
(* onReceipt, with the filter of the buffer.                               *)

LEMMA FirstNewerExists ==
    ASSUME NEW q \in Seq(Nat), NEW revision \in Nat
    PROVE  FirstNewer(q, revision) \in 1..(Len(q) + 1)
<1> DEFINE T == {i \in 1..(Len(q) + 1) : i <= Len(q) => q[i] > revision}
<1>0. Len(q) \in Nat /\ \A i \in 1..Len(q) : q[i] \in Nat
  OBVIOUS
<1>1. T \subseteq Nat /\ Len(q) + 1 \in T
  BY <1>0
<1>2. PICK n \in T : \A m \in T : ~(<<m, n>> \in OpToRel(<, Nat))
  <2> HIDE DEF T
  <2> QED BY <1>1, NatLessThanWellFounded, WFMin, Zenon
<1>3. \A m \in T : ~(m < n)
  BY <1>1, <1>2 DEF OpToRel
<1>4. \A j \in 1..(n - 1) : q[j] <= revision
  <2> TAKE j \in 1..(n - 1)
  <2>1. j \in 1..Len(q) /\ j < n
    BY <1>0
  <2>2. j \notin T
    BY <1>3, <2>1
  <2> QED BY <1>0, <2>1, <2>2
<1>5. \E i \in 1..(Len(q) + 1) :
         /\ \A j \in 1..(i - 1) : q[j] <= revision
         /\ i <= Len(q) => q[i] > revision
  BY <1>4
<1> QED BY <1>5 DEF FirstNewer

LEMMA NewerTyped ==
    ASSUME NEW q \in Seq(Nat), NEW revision \in Nat
    PROVE  Newer(q, revision) \in Seq(Nat)
<1>1. FirstNewer(q, revision) \in 1..(Len(q) + 1) /\ Len(q) \in Nat
  BY FirstNewerExists
<1> QED BY <1>1, SubSeqProperties DEF Newer

LEMMA BiggerTyped == ASSUME NEW a \in Nat, NEW b \in Nat PROVE Bigger(a, b) \in Nat
BY DEF Bigger

\* The tail of each case of onReceipt: go live, or send the next frame.
LEMMA GoesOn ==
    ASSUME NEW p, NEW live \in BOOLEAN, PeerOK(p)
    PROVE  TellsOK(IF live THEN GoLive(p) ELSE Pump(p))
BY GoLiveOK, PumpOK DEF PeerOK

LEMMA ReceivedOK == ASSUME NEW p, PeerOK(p) PROVE TellsOK(Received(p))
<1> DEFINE delivered == Bigger(p.lastDelivered, p.inFlight.revision)
           r1 == [p EXCEPT !.inFlight = Nothing]
           r == [r1 EXCEPT !.lastDelivered = delivered]
           kept == Newer(p.queue, p.inFlight.revision)
           d1 == [r EXCEPT !.queue = kept]
           d2 == [d1 EXCEPT !.drain = Len(kept)]
           d3 == [d2 EXCEPT !.phase = "draining"]
           e == [r EXCEPT !.drain = @ - 1]
<1>0. /\ p \in PeerType /\ delivered \in Nat /\ kept \in Seq(Nat)
      /\ Len(kept) \in Int
  <2>1. p \in PeerType
    BY DEF PeerOK
  <2>2. /\ p.lastDelivered \in Nat /\ p.inFlight.revision \in Nat
        /\ p.queue \in Seq(Nat)
    BY <2>1, PeerFields
  <2>3. delivered \in Nat
    BY <2>2, BiggerTyped
  <2>4. kept \in Seq(Nat)
    BY <2>2, NewerTyped
  <2> HIDE DEF delivered, kept
  <2> QED BY <2>1, <2>3, <2>4
<1>1. /\ p.phase = "snapshot-sent" => Received(p) = IF kept = <<>> THEN GoLive(d3) ELSE Pump(d3)
      /\ p.phase = "draining" => Received(p) = IF e.drain <= 0 THEN GoLive(e) ELSE Pump(e)
      /\ p.phase \notin {"snapshot-sent", "draining"} => Received(p) = Pump(r)
  <2>1. ASSUME p.phase = "snapshot-sent"
        PROVE  Received(p) = IF kept = <<>> THEN GoLive(d3) ELSE Pump(d3)
    BY <2>1 DEF Received
  <2>2. ASSUME p.phase = "draining"
        PROVE  Received(p) = IF e.drain <= 0 THEN GoLive(e) ELSE Pump(e)
    BY <2>2 DEF Received
  <2>3. ASSUME p.phase \notin {"snapshot-sent", "draining"}
        PROVE  Received(p) = Pump(r)
    BY <2>3 DEF Received
  <2> QED BY <2>1, <2>2, <2>3
<1> HIDE DEF delivered, kept
<1>2. SameAttempt(p, r1) /\ r1 \in PeerType
  BY <1>0, PeerInFlight, NothingTyped DEF SameAttempt
<1> HIDE DEF r1
<1>3. SameAttempt(p, r) /\ r \in PeerType
  BY <1>0, <1>2, PeerNumbers, SameAttemptTwice DEF SameAttempt
<1> HIDE DEF r
<1>4. d1 \in PeerType
  BY <1>0, <1>3, PeerQueue DEF SameAttempt
<1> HIDE DEF d1
<1>5. d2 \in PeerType
  BY <1>0, <1>4, PeerDrain DEF SameAttempt
<1> HIDE DEF d2
<1>6. PeerOK(d3)
  BY <1>5, PeerPhase DEF PeerOK, PeerPhases
<1> HIDE DEF d3
<1>7. PeerOK(e)
  <2>1. r.drain \in Int
    BY <1>3, PeerFields
  <2>2. r.drain - 1 \in Int
    BY <2>1
  <2> QED BY <1>3, <2>2, PeerDrain, SameAttemptTwice, SameAttemptOK
<1>8. PeerOK(r)
  BY <1>3, SameAttemptOK
<1> HIDE DEF e
<1>9. CASE p.phase = "snapshot-sent"
  BY <1>1, <1>6, <1>9, GoLiveOK, PumpOK DEF PeerOK
<1>10. CASE p.phase = "draining"
  BY <1>1, <1>7, <1>10, GoLiveOK, PumpOK DEF PeerOK
<1>11. CASE p.phase \notin {"snapshot-sent", "draining"}
  BY <1>1, <1>8, <1>11, PumpOK
<1> QED BY <1>9, <1>10, <1>11

LEMMA OnReceiptOK == ASSUME NEW p, PeerOK(p), NEW m PROVE TellsOK(OnReceipt(p, m))
<1>1. OnReceipt(p, m) \in {AttemptFailed(p), Received(p), Tells(p, <<>>)}
  <2>1. CASE Violates(p, m)
    BY <2>1 DEF OnReceipt
  <2>2. CASE ~Violates(p, m)
    BY <2>2 DEF OnReceipt
  <2> QED BY <2>1, <2>2
<1> QED BY <1>1, AttemptFailedOK, ReceivedOK, Told, TellsTyped DEF PeerOK

LEMMA AdmitOK == ASSUME NEW p, PeerOK(p), NEW revision \in Nat PROVE TellsOK(Admit(p, revision))
<1> DEFINE d1 == [p EXCEPT !.queue = Append(p.queue, revision)]
           d2 == [d1 EXCEPT !.tail = revision]
<1>1. Admit(p, revision) \in {Pump(d2), Tells(p, <<>>)}
  BY DEF Admit
<1>2. p \in PeerType /\ Append(p.queue, revision) \in Seq(Nat)
  BY PeerFields DEF PeerOK
<1>3. SameAttempt(p, d1) /\ d1 \in PeerType
  BY <1>2, PeerQueue DEF SameAttempt
<1> HIDE DEF d1
<1>4. PeerOK(d2)
  BY <1>3, PeerNumbers, SameAttemptTwice, SameAttemptOK
<1> HIDE DEF d2
<1> QED BY <1>1, <1>4, PumpOK, Told, TellsTyped

LEMMA RequestResyncOK == ASSUME NEW p, PeerOK(p) PROVE TellsOK(RequestResync(p))
<1> DEFINE d == [p EXCEPT !.attempts = 0]
<1>1. RequestResync(p) \in {BeginAttempt(p, TRUE), BeginAttempt(d, TRUE), Tells(p, <<>>)}
  <2>1. CASE p.phase \in {"backoff", "snapshot-sent", "draining"}
    BY <2>1 DEF RequestResync
  <2>2. CASE p.phase \in {"live", "resync-required"}
    BY <2>2 DEF RequestResync
  <2>3. CASE p.phase \notin {"backoff", "snapshot-sent", "draining", "live", "resync-required"}
    BY <2>3 DEF RequestResync
  <2> QED BY <2>1, <2>2, <2>3
<1>2. d \in PeerType /\ p \in PeerType
  BY PeerAttempts DEF PeerOK
<1> HIDE DEF d
<1> QED BY <1>1, <1>2, BeginAttemptOK, Told, TellsTyped

LEMMA DisposeOK == ASSUME NEW p, PeerOK(p) PROVE PeerOK(Dispose(p))
<1>1. p.issued \in Nat /\ p.open \in BOOLEAN
  BY PeerFields DEF PeerOK
<1>2. PeerOK(NoPeer(p.issued))
  BY <1>1, NoPeerOK
<1> QED BY <1>1, <1>2, PeerOpen DEF Dispose

-----------------------------------------------------------------------------
(* What a step does to the parts of the invariant.                         *)

\* What the theorems say of a step.
Keeps == ClientInv' /\ client'.shown >= client.shown

LEMMA UsesOK == ASSUME ClientInv, Uses(1) PROVE faults' \in 0..MaxFaults
BY ClientAssumption DEF ClientInv, Uses

LEMMA ShownIsNumber == ASSUME ClientInv PROVE client.shown \in Nat /\ client \in ClientType
BY ClientFields DEF ClientInv, ClientOK

\* A step of the SDK that shows nothing.
LEMMA ClientSteady ==
    ASSUME ClientInv, Steady(client, client')
    PROVE  ClientOK(client') /\ client'.shown >= client.shown
BY ShownIsNumber, SteadyIsOK DEF ClientInv

LEMMA SendsSteady ==
    ASSUME ClientInv, NEW r, SteadyDoes(client, r), Sends(r)
    PROVE  ClientOK(client') /\ client'.shown >= client.shown /\ up' \in Seq(UpFrame)
<1>1. ClientOK(client') /\ client'.shown >= client.shown
  BY ClientSteady DEF SteadyDoes, Sends
<1>2. up' \in Seq(UpFrame)
  BY DEF Sends, SteadyDoes, ClientInv
<1> QED BY <1>1, <1>2

LEMMA TellOK ==
    ASSUME ClientInv, NEW r, TellsOK(r), Tell(r)
    PROVE  PeerOK(peer') /\ down' \in Seq(DownFrame)
BY DEF ClientInv, TellsOK, Tell

LEMMA FirstOf ==
    ASSUME NEW S, NEW q \in Seq(S), q # <<>>
    PROVE  Head(q) \in S /\ Tail(q) \in Seq(S)
OBVIOUS

LEMMA DownFrameKinds ==
    ASSUME NEW m \in DownFrame
    PROVE  /\ m.kind = "state" => m \in StateFrame
           /\ m.kind = "data" => m \in DataFrame
           /\ m.kind = "ack" => m \in AckFrame
BY DEF DownFrame, StateFrame, DataFrame, AckFrame, Goodbye

-----------------------------------------------------------------------------
(* The SDK's steps.                                                        *)

LEMMA AdoptsStep ==
    ASSUME ClientInv, Adopts, faults' \in 0..MaxFaults
    PROVE  Keeps
<1> DEFINE r == Attach(client)
           c == [r.client EXCEPT !.release = FALSE]
<1>0. client' = c /\ up' = r.send
  BY DEF Adopts
<1>1. SteadyDoes(client, r)
  BY ShownIsNumber, AttachSteady
<1> HIDE DEF r
<1>2. r.client \in ClientType /\ r.send \in Seq(UpFrame)
  BY <1>1 DEF SteadyDoes, Steady
<1>3. Steady(client, c)
  BY <1>1, <1>2, FlagSteady, SteadyTwice DEF SteadyDoes
<1> HIDE DEF c
<1>4. ClientOK(client') /\ client'.shown >= client.shown
  BY <1>0, <1>3, ClientSteady
<1>5. PeerOK(peer')
  BY NoPeerOK, PeerFields DEF ClientInv, PeerOK, Adopts
<1>6. down' \in Seq(DownFrame) /\ followups' \in Seq(AckFrame)
  BY DEF Adopts
<1> QED BY <1>0, <1>2, <1>4, <1>5, <1>6 DEF ClientInv, Keeps, Adopts

LEMMA DropsStep ==
    ASSUME ClientInv, Drops, faults' \in 0..MaxFaults
    PROVE  Keeps
<1> DEFINE d == Detach(client)
           c == [d EXCEPT !.release = FALSE]
           p == NoPeer(peer.issued)
<1>0. client' = c /\ peer' = [p EXCEPT !.open = FALSE]
  BY DEF Drops
<1>1. Steady(client, d) /\ d \in ClientType
  BY ShownIsNumber, DetachSteady DEF Steady
<1>2. PeerOK(p)
  BY NoPeerOK, PeerFields DEF ClientInv, PeerOK
<1> HIDE DEF d, p
<1>3. Steady(client, c)
  BY <1>1, FlagSteady, SteadyTwice
<1> HIDE DEF c
<1>4. ClientOK(client') /\ client'.shown >= client.shown
  BY <1>0, <1>3, ClientSteady
<1>5. PeerOK(peer')
  BY <1>0, <1>2, PeerOpen
<1>6. down' \in Seq(DownFrame) /\ followups' \in Seq(AckFrame) /\ up' \in Seq(UpFrame)
  BY DEF Drops
<1> QED BY <1>4, <1>5, <1>6 DEF ClientInv, Keeps, Drops

LEMMA DeliverStateStep == ASSUME ClientInv, DeliverState PROVE Keeps
<1>1. Head(down) \in StateFrame /\ down' \in Seq(DownFrame)
  BY FirstOf, DownFrameKinds DEF DeliverState, ClientInv
<1>2. ClientOK(client') /\ client'.shown = client.shown
  BY <1>1, HandleStateOK DEF DeliverState, ClientInv
<1> QED BY <1>1, <1>2, ShownIsNumber DEF ClientInv, Keeps, DeliverState

LEMMA DeliverDataStep == ASSUME ClientInv, DeliverData PROVE Keeps
<1>1. Head(down) \in DataFrame /\ down' \in Seq(DownFrame)
  BY FirstOf, DownFrameKinds DEF DeliverData, ClientInv
<1>2. PICK throws \in BOOLEAN : /\ Sends(HandleData(client, Head(down), throws))
                                /\ IF throws THEN Uses(1) ELSE UNCHANGED faults
  BY DEF DeliverData
<1> DEFINE r == HandleData(client, Head(down), throws)
<1>3. ClientOK(r.client) /\ r.client.shown >= client.shown /\ r.send \in Seq(UpFrame)
  BY <1>1, HandleDataOK DEF ClientInv
<1> HIDE DEF r
<1>4. Sends(r)
  BY <1>2 DEF r
<1>5. ClientOK(client') /\ client'.shown >= client.shown /\ up' \in Seq(UpFrame)
  BY <1>3, <1>4 DEF Sends, ClientInv
<1>6. faults' \in 0..MaxFaults
  BY <1>2, UsesOK DEF ClientInv
<1> QED BY <1>1, <1>5, <1>6 DEF ClientInv, Keeps, DeliverData

LEMMA DeliverAckStep == ASSUME ClientInv, DeliverAck PROVE Keeps
<1> DEFINE m == Head(down)
           a == Acknowledged(client, m)
           x == a.release \/ (m.of = "unsubscribe" /\ m.result = "OVERLOADED")
<1>1. m \in AckFrame /\ down' \in Seq(DownFrame)
  BY FirstOf, DownFrameKinds DEF DeliverAck, ClientInv
<1>2. client' = [a EXCEPT !.release = x]
  BY DEF DeliverAck
<1>3. Steady(client, a) /\ a \in ClientType
  BY ShownIsNumber, AcknowledgedSteady DEF Steady
<1>4. x \in BOOLEAN
  OBVIOUS
<1>5. followups' \in Seq(AckFrame)
  BY <1>1 DEF DeliverAck, ClientInv
<1> HIDE DEF a, x
<1>6. ClientOK(client') /\ client'.shown >= client.shown
  BY <1>2, <1>3, <1>4, FlagSteady, SteadyTwice, ClientSteady
<1> QED BY <1>1, <1>5, <1>6 DEF ClientInv, Keeps, DeliverAck

LEMMA FollowUpStep == ASSUME ClientInv, FollowUp PROVE Keeps
<1> DEFINE m == Head(followups)
           r == IF m.of = "subscribe" THEN SubscribeAnswered(client, m.result)
                ELSE ResyncRefused(client, m)
<1>1. SteadyDoes(client, r)
  BY ShownIsNumber, SubscribeAnsweredSteady, ResyncRefusedSteady
<1>2. Sends(r)
  BY DEF FollowUp
<1> HIDE DEF r
<1>3. ClientOK(client') /\ client'.shown >= client.shown /\ up' \in Seq(UpFrame)
  BY <1>1, <1>2, SendsSteady
<1>4. followups' \in Seq(AckFrame)
  BY FirstOf DEF FollowUp, ClientInv
<1> QED BY <1>3, <1>4 DEF ClientInv, Keeps, FollowUp

LEMMA RetryTimerStep == ASSUME ClientInv, RetryTimer PROVE Keeps
<1> DEFINE c == [client EXCEPT !.timer = "none"]
<1>1. \E r \in {Does(c, <<>>), Attach(c), RequestFresh(c)} : Sends(r)
  <2>1. CASE ~c.attached
    BY <2>1 DEF RetryTimer
  <2>2. CASE c.attached /\ client.timer = "subscribe"
    BY <2>2 DEF RetryTimer
  <2>3. CASE c.attached /\ client.timer # "subscribe"
    BY <2>3 DEF RetryTimer
  <2> QED BY <2>1, <2>2, <2>3
<1>2. Steady(client, c) /\ c \in ClientType
  BY ShownIsNumber, TimerSteady DEF Steady
<1> HIDE DEF c
<1>3. /\ SteadyDoes(client, Does(c, <<>>))
      /\ SteadyDoes(client, Attach(c))
      /\ SteadyDoes(client, RequestFresh(c))
  BY <1>2, Sent, DoesSteady, AttachSteady, RequestFreshSteady, SteadyFrom
<1>4. ClientOK(client') /\ client'.shown >= client.shown /\ up' \in Seq(UpFrame)
  BY <1>1, <1>3, SendsSteady
<1> QED BY <1>4 DEF ClientInv, Keeps, RetryTimer

LEMMA ReleaseTimerStep == ASSUME ClientInv, ReleaseTimer PROVE Keeps
<1> DEFINE c == [client EXCEPT !.release = FALSE]
           r == Does(c, <<Request("unsubscribe", 0)>>)
<1>1. SteadyDoes(client, r)
  <2>1. Steady(client, c)
    BY ShownIsNumber, FlagSteady
  <2> HIDE DEF c
  <2> QED BY <2>1, Sent, DoesSteady DEF Asks
<1>2. Sends(r)
  BY DEF ReleaseTimer
<1> HIDE DEF r
<1>3. ClientOK(client') /\ client'.shown >= client.shown /\ up' \in Seq(UpFrame)
  BY <1>1, <1>2, SendsSteady
<1> QED BY <1>3 DEF ClientInv, Keeps, ReleaseTimer

LEMMA UserResyncStep == ASSUME ClientInv, UserResync PROVE Keeps
<1> DEFINE d == [client EXCEPT !.failures = 0]
           c == [d EXCEPT !.gaveUp = FALSE]
<1>1. \E r \in {Does(client, <<>>), RequestFresh(c)} : Sends(r)
  BY DEF UserResync
<1>2. Steady(client, d) /\ d \in ClientType
  BY ShownIsNumber, NumberSteady DEF Steady
<1> HIDE DEF d
<1>3. Steady(client, c) /\ c \in ClientType
  BY <1>2, FlagSteady, SteadyTwice DEF Steady
<1> HIDE DEF c
<1>4. SteadyDoes(client, Does(client, <<>>)) /\ SteadyDoes(client, RequestFresh(c))
  BY <1>3, ShownIsNumber, ClientFields, Sent, DoesSteady, RequestFreshSteady, SteadyFrom
<1>5. ClientOK(client') /\ client'.shown >= client.shown /\ up' \in Seq(UpFrame)
  BY <1>1, <1>4, SendsSteady
<1>6. faults' \in 0..MaxFaults
  BY UsesOK DEF UserResync
<1> QED BY <1>5, <1>6 DEF ClientInv, Keeps, UserResync

LEMMA EndsStep == ASSUME ClientInv, Ends PROVE Keeps
<1>1. PICK state \in {"closed", "failed"} : Sends(End(client, state))
  BY DEF Ends
<1>2. SteadyDoes(client, End(client, state))
  BY ShownIsNumber, EndSteady DEF SubscriptionStates
<1>3. ClientOK(client') /\ client'.shown >= client.shown /\ up' \in Seq(UpFrame)
  BY <1>1, <1>2, SendsSteady
<1>4. faults' \in 0..MaxFaults
  BY UsesOK DEF Ends
<1> QED BY <1>3, <1>4 DEF ClientInv, Keeps, Ends

-----------------------------------------------------------------------------
(* The gateway's steps.                                                    *)

\* The gateway reads its state and its side of the socket, and tells the client.
LEMMA PeerTellsStep ==
    ASSUME ClientInv, NEW r, TellsOK(r), Tell(r),
           up' \in Seq(UpFrame), UNCHANGED <<client, followups>>,
           source' \in [newest : 1..MaxRevision, ready : BOOLEAN], faults' \in 0..MaxFaults
    PROVE  Keeps
<1>1. PeerOK(peer') /\ down' \in Seq(DownFrame)
  BY TellOK
<1> QED BY <1>1, ShownIsNumber DEF ClientInv, Keeps

LEMMA TakesOK ==
    ASSUME ClientInv, NEW kind, Takes(kind)
    PROVE  /\ up' \in Seq(UpFrame) /\ UNCHANGED <<client, followups, source>>
           /\ kind \in Asks => Head(up).kind \in Asks /\ Head(up).replacing \in Nat
<1>1. Head(up) \in UpFrame /\ up' \in Seq(UpFrame)
  BY FirstOf DEF Takes, ClientInv
<1>2. Head(up).kind = kind
  BY DEF Takes
<1> QED BY <1>1, <1>2 DEF Takes, UpFrame, ReceiptFrame, AskFrame, Asks

LEMMA SendsInstead ==
    ASSUME NEW r, r = [peer |-> r.peer, send |-> r.send], NEW b
    PROVE  [r EXCEPT !.send = b] = [peer |-> r.peer, send |-> b]
<1> DEFINE p == r.peer
           s == r.send
<1>1. r = [peer |-> p, send |-> s]
  OBVIOUS
<1> HIDE DEF p, s
<1>2. [[peer |-> p, send |-> s] EXCEPT !.send = b] = [peer |-> p, send |-> b]
  BY SMT
<1> QED BY <1>1, <1>2 DEF p

LEMMA AnswerOK ==
    ASSUME ClientInv, NEW kind \in Asks, Takes(kind), NEW result \in Results,
           NEW r, TellsOK(r), Answer(Head(up), result, r), faults' \in 0..MaxFaults
    PROVE  Keeps
<1> DEFINE m == Head(up)
           a == <<Ack(m.kind, result, m.replacing)>>
           t == [r EXCEPT !.send = a \o @]
<1>1. a \in Seq(DownFrame)
  BY TakesOK, Told
<1>2. Tell(t)
  BY DEF Answer
<1>3. TellsOK(t)
  <2> HIDE DEF a
  <2>0. r = [peer |-> r.peer, send |-> r.send]
    BY DEF TellsOK
  <2> DEFINE b == a \o r.send
  <2>1. t = [peer |-> r.peer, send |-> b]
    <3>1. t = [r EXCEPT !.send = b]
      OBVIOUS
    <3> HIDE DEF b, t
    <3> QED BY <2>0, <3>1, SendsInstead
  <2>2. a \o r.send \in Seq(DownFrame)
    BY <1>1 DEF TellsOK
  <2> HIDE DEF t
  <2> QED BY <2>1, <2>2 DEF TellsOK
<1> HIDE DEF t
<1> QED BY <1>2, <1>3, TakesOK, PeerTellsStep DEF ClientInv

LEMMA PeerTells == ASSUME ClientInv PROVE peer \in PeerType /\ TellsOK(Tells(peer, <<>>))
BY Told, TellsTyped DEF ClientInv, PeerOK

LEMMA TakeSubscribeStep == ASSUME ClientInv, TakeSubscribe PROVE Keeps
<1> DEFINE r == IF Held(peer) THEN Tells(peer, <<>>) ELSE BeginAttempt(peer, FALSE)
<1>1. TellsOK(r)
  BY PeerTells, BeginAttemptOK
<1>2. Takes("subscribe") /\ Answer(Head(up), "ok", r) /\ faults' \in 0..MaxFaults
  BY DEF TakeSubscribe, ClientInv
<1> HIDE DEF r
<1> QED BY <1>1, <1>2, AnswerOK DEF Asks, Results

LEMMA TakeResyncStep == ASSUME ClientInv, TakeResync PROVE Keeps
<1>1. TellsOK(RequestResync(peer)) /\ TellsOK(Tells(peer, <<>>))
  BY PeerTells, RequestResyncOK DEF ClientInv
<1>2. Takes("resync") /\ faults' \in 0..MaxFaults
  BY DEF TakeResync, ClientInv
<1>3. \/ Answer(Head(up), "ok", RequestResync(peer))
      \/ Answer(Head(up), "INVALID_REQUEST", Tells(peer, <<>>))
  BY DEF TakeResync
<1> QED BY <1>1, <1>2, <1>3, AnswerOK DEF Asks, Results

LEMMA TakeUnsubscribeStep == ASSUME ClientInv, TakeUnsubscribe PROVE Keeps
<1>1. TellsOK(Tells(Dispose(peer), <<>>))
  BY DisposeOK, Told, TellsTyped DEF ClientInv
<1>2. Takes("unsubscribe") /\ Answer(Head(up), "ok", Tells(Dispose(peer), <<>>)) /\ faults' \in 0..MaxFaults
  BY DEF TakeUnsubscribe, ClientInv
<1> QED BY <1>1, <1>2, AnswerOK DEF Asks, Results

LEMMA RefusesStep == ASSUME ClientInv, Refuses PROVE Keeps
<1>1. PICK kind \in Asks, result \in Results : Takes(kind) /\ Answer(Head(up), result, Tells(peer, <<>>))
  BY DEF Refuses, Asks, Results
<1>2. faults' \in 0..MaxFaults
  BY UsesOK DEF Refuses
<1> QED BY <1>1, <1>2, PeerTells, AnswerOK

LEMMA TakeReceiptStep == ASSUME ClientInv, TakeReceipt PROVE Keeps
<1>1. TellsOK(OnReceipt(peer, Head(up))) /\ Tell(OnReceipt(peer, Head(up)))
  BY OnReceiptOK DEF ClientInv, TakeReceipt
<1>2. up' \in Seq(UpFrame) /\ UNCHANGED <<client, followups, source, faults>>
  BY TakesOK DEF TakeReceipt
<1> QED BY <1>1, <1>2, PeerTellsStep DEF ClientInv

LEMMA AuthorizedStep == ASSUME ClientInv, Authorized PROVE Keeps
<1> DEFINE d1 == [peer EXCEPT !.phase = "capturing"]
           d2 == [d1 EXCEPT !.epoch = peer.issued + 1]
           d3 == [d2 EXCEPT !.issued = @ + 1]
           d4 == [d3 EXCEPT !.sequence = 0]
           w1 == [peer EXCEPT !.phase = "waiting-source"]
           w2 == [w1 EXCEPT !.attempts = @ - 1]
           captures == Tells(d4, <<State("synchronizing", peer.issued + 1)>>)
           waits == Tells(w2, <<State("stale", peer.epoch)>>)
<1>0. /\ peer \in PeerType /\ peer.epoch \in Nat /\ peer.issued + 1 \in Nat /\ peer.issued \in Nat
      /\ peer.attempts \in Nat /\ peer.attempts # 0 /\ peer.phase = "authorizing"
  BY PeerFields DEF ClientInv, PeerOK, Authorized
<1>1. Tell(captures) \/ Tell(waits)
  <2>1. [peer EXCEPT !.phase = "capturing", !.epoch = peer.issued + 1, !.issued = @ + 1,
                     !.sequence = 0] = d4
    BY <1>0 DEF PeerType
  <2>2. [peer EXCEPT !.phase = "waiting-source", !.attempts = @ - 1] = w2
    OBVIOUS
  <2> HIDE DEF d4, w2
  <2> QED BY <2>1, <2>2 DEF Authorized
<1>2. d1 \in PeerType /\ d1.phase = "capturing" /\ d1.issued = peer.issued
  BY <1>0 DEF PeerType, PeerPhases
<1> HIDE DEF d1
<1>3. d2 \in PeerType /\ d2.phase = "capturing" /\ d2.issued = peer.issued
  BY <1>0, <1>2 DEF PeerType
<1> HIDE DEF d2
<1>4. d3 \in PeerType /\ d3.phase = "capturing"
  BY <1>0, <1>3 DEF PeerType
<1> HIDE DEF d3
<1>5. PeerOK(d4)
  BY <1>4, PeerNumbers DEF SameAttempt, PeerOK
<1> HIDE DEF d4
<1>6. w1 \in PeerType /\ w1.phase = "waiting-source" /\ w1.attempts = peer.attempts
  BY <1>0, PeerPhase DEF PeerPhases
<1> HIDE DEF w1
<1>7. PeerOK(w2)
  <2>1. w1.attempts - 1 \in Nat
    BY <1>0, <1>6
  <2>2. w2 \in PeerType /\ w2.phase = "waiting-source"
    BY <1>6, <2>1, PeerAttempts
  <2> QED BY <2>2 DEF PeerOK
<1> HIDE DEF w2
<1>8. TellsOK(captures) /\ TellsOK(waits)
  BY <1>0, <1>5, <1>7, Told, TellsTyped DEF SubscriptionStates
<1> HIDE DEF captures, waits
<1> QED BY <1>1, <1>8, PeerTellsStep DEF Authorized, ClientInv

LEMMA SnapshotStep == ASSUME ClientInv, Snapshot PROVE Keeps
<1>1. PICK revision \in 1..source.newest :
         /\ IF revision < source.newest THEN Uses(1) ELSE UNCHANGED faults
         /\ Tell(IF revision < peer.lastDelivered THEN AttemptFailed(peer)
                 ELSE Transmit([peer EXCEPT !.phase = "snapshot-sent",
                                            !.tail = Bigger(@, revision)], revision))
  BY DEF Snapshot
<1> DEFINE d1 == [peer EXCEPT !.phase = "snapshot-sent"]
           tail == Bigger(peer.tail, revision)
           d2 == [d1 EXCEPT !.tail = tail]
<1>0. peer \in PeerType /\ peer.tail \in Nat /\ revision \in Nat
  BY PeerFields DEF ClientInv, PeerOK
<1>2. Tell(AttemptFailed(peer)) \/ Tell(Transmit(d2, revision))
  <2>1. [peer EXCEPT !.phase = "snapshot-sent", !.tail = Bigger(@, revision)] = d2
    BY <1>0 DEF PeerType
  <2> HIDE DEF d2
  <2> QED BY <1>1, <2>1
<1>3. d1 \in PeerType /\ d1.phase = "snapshot-sent"
  BY <1>0, PeerPhase DEF PeerPhases
<1>4. tail \in Nat
  BY <1>0, BiggerTyped
<1> HIDE DEF d1, tail
<1>5. PeerOK(d2)
  BY <1>3, <1>4, PeerNumbers DEF SameAttempt, PeerOK
<1> HIDE DEF d2
<1>6. TellsOK(AttemptFailed(peer)) /\ TellsOK(Transmit(d2, revision))
  BY <1>0, <1>5, AttemptFailedOK, TransmitOK
<1>7. faults' \in 0..MaxFaults
  BY <1>1, UsesOK DEF ClientInv
<1> QED BY <1>2, <1>6, <1>7, PeerTellsStep DEF Snapshot, ClientInv

LEMMA AttemptFailsStep == ASSUME ClientInv, AttemptFails PROVE Keeps
<1>1. TellsOK(AttemptFailed(peer)) /\ Tell(AttemptFailed(peer)) /\ faults' \in 0..MaxFaults
  BY PeerTells, AttemptFailedOK, UsesOK DEF AttemptFails
<1> QED BY <1>1, PeerTellsStep DEF AttemptFails, ClientInv

LEMMA BackoffEndsStep == ASSUME ClientInv, BackoffEnds PROVE Keeps
<1>1. TellsOK(BeginAttempt(peer, TRUE)) /\ Tell(BeginAttempt(peer, TRUE))
  BY PeerTells, BeginAttemptOK DEF BackoffEnds
<1> QED BY <1>1, PeerTellsStep DEF BackoffEnds, ClientInv

LEMMA FailsStep == ASSUME ClientInv, Fails PROVE Keeps
<1> DEFINE r == Tells(Dispose(peer), <<State("failed", peer.epoch)>>)
<1>1. peer.epoch \in Nat /\ PeerOK(Dispose(peer))
  BY DisposeOK, PeerFields DEF ClientInv, PeerOK
<1>2. TellsOK(r) /\ Tell(r) /\ faults' \in 0..MaxFaults
  BY <1>1, Told, TellsTyped, UsesOK DEF Fails, SubscriptionStates
<1> HIDE DEF r
<1> QED BY <1>2, PeerTellsStep DEF Fails, ClientInv

LEMMA SessionClosesStep == ASSUME ClientInv, SessionCloses PROVE Keeps
<1> DEFINE p == NoPeer(peer.issued)
<1>1. peer' = [p EXCEPT !.open = FALSE]
  BY DEF SessionCloses
<1>2. PeerOK(p)
  BY NoPeerOK, PeerFields DEF ClientInv, PeerOK
<1> HIDE DEF p
<1>3. PeerOK(peer')
  BY <1>1, <1>2, PeerOpen
<1>4. down' \in Seq(DownFrame) /\ up' \in Seq(UpFrame)
  BY DEF SessionCloses, ClientInv, DownFrame
<1>5. faults' \in 0..MaxFaults
  BY UsesOK DEF SessionCloses
<1> QED BY <1>3, <1>4, <1>5, ShownIsNumber DEF SessionCloses, ClientInv, Keeps

LEMMA SourceDownStep == ASSUME ClientInv, SourceDown PROVE Keeps
<1> DEFINE d == [Reset(peer) EXCEPT !.phase = "waiting-source"]
           leaves == Tells(d, <<State("stale", peer.epoch)>>)
<1>1. Tell(leaves) \/ Tell(Tells(peer, <<>>))
  BY DEF SourceDown
<1>2. Reset(peer) \in PeerType /\ peer.epoch \in Nat
  BY PeerTells, PeerFields, ResetSame DEF SameAttempt
<1>3. PeerOK(d)
  BY <1>2, PeerPhase DEF PeerOK, PeerPhases
<1> HIDE DEF d
<1>4. TellsOK(leaves) /\ TellsOK(Tells(peer, <<>>))
  BY <1>2, <1>3, PeerTells, Told, TellsTyped DEF SubscriptionStates
<1>5. source' \in [newest : 1..MaxRevision, ready : BOOLEAN] /\ faults' \in 0..MaxFaults
  BY UsesOK DEF SourceDown, ClientInv
<1> HIDE DEF leaves
<1> QED BY <1>1, <1>4, <1>5, PeerTellsStep DEF SourceDown, ClientInv

LEMMA SourceUpStep == ASSUME ClientInv, SourceUp PROVE Keeps
<1>1. Tell(BeginAttempt(peer, TRUE)) \/ Tell(Tells(peer, <<>>))
  BY DEF SourceUp
<1>2. TellsOK(BeginAttempt(peer, TRUE)) /\ TellsOK(Tells(peer, <<>>))
  BY PeerTells, BeginAttemptOK
<1>3. source' \in [newest : 1..MaxRevision, ready : BOOLEAN]
  BY DEF SourceUp, ClientInv
<1> QED BY <1>1, <1>2, <1>3, PeerTellsStep DEF SourceUp, ClientInv

LEMMA RecordStep == ASSUME ClientInv, Record PROVE Keeps
<1>1. source.newest + 1 \in 1..MaxRevision
  BY ClientAssumption DEF Record, ClientInv
<1>2. TellsOK(Admit(peer, source.newest + 1)) /\ Tell(Admit(peer, source.newest + 1))
  BY <1>1, AdmitOK DEF Record, ClientInv
<1>3. source' \in [newest : 1..MaxRevision, ready : BOOLEAN]
  BY <1>1 DEF Record, ClientInv
<1> QED BY <1>2, <1>3, PeerTellsStep DEF Record, ClientInv

-----------------------------------------------------------------------------
(* The theorems.                                                           *)

LEMMA ClientStarts == Init => ClientInv
<1> SUFFICES ASSUME Init PROVE ClientInv
  OBVIOUS
<1>1. ClientOK(client)
  BY DEF Init, NewClient, ClientOK, ClientType, InOrder, SubscriptionStates
<1>2. PeerOK(peer)
  BY NoPeerOK, PeerOpen DEF Init
<1>3. /\ followups \in Seq(AckFrame) /\ up \in Seq(UpFrame) /\ down \in Seq(DownFrame)
      /\ source \in [newest : 1..MaxRevision, ready : BOOLEAN] /\ faults \in 0..MaxFaults
  BY ClientAssumption DEF Init
<1> QED BY <1>1, <1>2, <1>3 DEF ClientInv

LEMMA ClientSteps == ClientInv /\ [Next]_vars => Keeps
<1> SUFFICES ASSUME ClientInv, [Next]_vars PROVE Keeps
  OBVIOUS
<1>1. CASE SdkSteps
  <2>1. ASSUME DeliverDisconnect PROVE Keeps
    BY <2>1, DropsStep DEF DeliverDisconnect, ClientInv
  <2> QED BY <1>1, <2>1, DeliverStateStep, DeliverDataStep, DeliverAckStep, FollowUpStep,
             RetryTimerStep, ReleaseTimerStep DEF SdkSteps
<1>2. CASE PeerSteps
  BY <1>2, TakeSubscribeStep, TakeResyncStep, TakeUnsubscribeStep, TakeReceiptStep,
     AuthorizedStep, SnapshotStep, BackoffEndsStep DEF PeerSteps
<1>3. CASE Connects
  BY <1>3, AdoptsStep DEF Connects, ClientInv
<1>4. CASE Refreshes
  BY <1>4, AdoptsStep, UsesOK DEF Refreshes
<1>5. CASE Disconnected
  BY <1>5, DropsStep, UsesOK DEF Disconnected
<1>6. CASE UserResync \/ Ends \/ Refuses \/ AttemptFails \/ Fails \/ SessionCloses
  BY <1>6, UserResyncStep, EndsStep, RefusesStep, AttemptFailsStep, FailsStep, SessionClosesStep
<1>7. CASE SourceDown \/ SourceUp \/ Record
  BY <1>7, SourceDownStep, SourceUpStep, RecordStep
<1>8. CASE UNCHANGED vars
  BY <1>8, ShownIsNumber DEF vars, ClientInv, Keeps
<1> QED BY <1>1, <1>2, <1>3, <1>4, <1>5, <1>6, <1>7, <1>8 DEF Next

\* Both sides and every message between them stay in their types, and the SDK orders
\* what it shows: what the comparisons of handleData rest on.
THEOREM ClientInvariant == Spec => []ClientInv
<1>1. ClientInv /\ [Next]_vars => ClientInv'
  BY ClientSteps DEF Keeps
<1> QED BY <1>1, ClientStarts, PTL DEF Spec

\* subscription.ts, gateway and client: attempts are never given back below zero, and no
\* queue holds what its reader does not expect.
THEOREM ClientTypes == Spec => []ClientTypeOK
<1>1. ClientInv => ClientTypeOK
  <2> SUFFICES ASSUME ClientInv PROVE ClientTypeOK
    OBVIOUS
  <2>1. \A i \in 1..Len(followups) : followups[i].kind = "ack"
    <3>1. \A i \in 1..Len(followups) : followups[i] \in AckFrame
      BY DEF ClientInv
    <3>2. \A m \in AckFrame : m.kind = "ack"
      BY DEF AckFrame
    <3> QED BY <3>1, <3>2
  <2>2. \A i \in 1..Len(up) : up[i] \in UpFrame
    BY DEF ClientInv
  <2>3. \A m \in UpFrame : m.kind \in {"subscribe", "resync", "unsubscribe", "receipt"}
    BY DEF UpFrame, AskFrame, ReceiptFrame, Asks
  <2>4. \A i \in 1..Len(down) : down[i] \in DownFrame
    BY DEF ClientInv
  <2>5. \A m \in DownFrame : m.kind \in {"state", "data", "ack", "disconnect"}
    BY DEF DownFrame, StateFrame, DataFrame, AckFrame, Goodbye
  <2> QED BY <2>1, <2>2, <2>3, <2>4, <2>5 DEF ClientTypeOK, ClientInv, ClientOK, PeerOK
<1> QED BY <1>1, ClientInvariant, PTL

\* handleData's #lastRevision check: whatever is lost, refused, replaced or read from a
\* lagging replica, the listeners are never given something older than before.
THEOREM ViewNeverGoesBack == Spec => DeliveryNeverRegresses
<1>1. ClientInv /\ [Next]_vars => [client'.shown >= client.shown]_vars
  BY ClientSteps DEF Keeps
<1> QED BY <1>1, ClientInvariant, PTL DEF Spec, DeliveryNeverRegresses

=============================================================================
