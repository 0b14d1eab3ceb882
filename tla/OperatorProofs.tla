---------------------------- MODULE OperatorProofs ----------------------------
(***************************************************************************)
(* Proofs about the operator service, for any operations, incidents, plans *)
(* and number of restarts.                                                 *)
(*                                                                         *)
(* Three invariants, each about one thing the service relies on between    *)
(* its awaits: a job at the head of the failure chain runs alone, what an  *)
(* operation answered agrees with the journal, and a plan that was claimed *)
(* is nobody else's.                                                       *)
(***************************************************************************)
EXTENDS OperatorProperties, SequenceTheorems, FiniteSetTheorems, TLAPS

-----------------------------------------------------------------------------
(* Types.                                                                  *)

Kinds == {"none", "redrive", "retry", "reassess", "reopen", "retire"}
Places == {"none", "queued", "resuming", "settling", "evidence", "redriving", "acted"}
Result == Endings \cup {"none"}
Subject == Incidents \cup {NoRequest.on}

Request == [kind : Kinds, on : Subject, number : Nat, revision : Nat]
Operation == [state : {"none", "pending", "completed", "unknown"}, request : Request, result : Result]
Call == [pc : Places, request : Request, outcome : Result, waits : SUBSET (Ids \cup Incidents)]
Evaluation == [phase : {"none", "running", "ended", "issued"}, on : Subject, revision : Nat,
               advanced : BOOLEAN]
History == [acted : [Ids -> Nat], told : [Ids -> SUBSET Result], spent : [Evaluations -> Nat]]

\* As OperatorTypeOK, whether or not the source has an incident, and with the rest.
Typed ==
    /\ incidents \in [Incidents -> IncidentType]
    /\ circuit \in [open : BOOLEAN, revision : Nat]
    /\ boundary \in [number : Nat, inForce : BOOLEAN, revision : Nat, covers : SUBSET Incidents]
    /\ operations \in [of : [Ids -> Operation], finished : Seq(Ids)]
    /\ calls \in [Ids -> Call]
    /\ plans \subseteq Evaluations
    /\ evaluations \in [Evaluations -> Evaluation]
    /\ host \in [state : {"running", "stopping"}, boundary : Nat, paused : BOOLEAN]
    /\ chain \in Seq(Ids \cup Incidents)
    /\ history \in History
    /\ errors \in 0..MaxErrors

-----------------------------------------------------------------------------
(* The failure chain: whoever is asking, advancing or resuming is first.   *)

Asking(f) == incidents[f].recovery = "guard-pending"
Advancing(f) == incidents[f].progress = "advance-pending"

ChainInv ==
    /\ \A f \in Incidents : Asking(f) => incidents[f].progress = "held"
    /\ \A f \in Incidents : Asking(f) \/ Advancing(f) => Turn(f)
    /\ \A id \in Ids : calls[id].pc = "resuming" => Turn(id)
    /\ NeverRetriesUnderAdvance

-----------------------------------------------------------------------------
(* What an operation did, answered and journaled.                          *)

Fresh == {"queued", "resuming", "evidence", "redriving"}

\* An answer that says what an operation did.
Fits(answer, acted) ==
    /\ answer = "completed" => acted = 1
    /\ answer \in {"refused", "failed"} => acted = 0

Agrees(op, call, told, acted) ==
    /\ op.state \in {"none", "pending"} => op.result = "none"
    /\ op.state = "completed" =>
          op.result \in {"completed", "refused", "failed"} /\ told \subseteq {op.result}
    /\ op.state = "unknown" => op.result \in {"none", "unknown"}
    /\ call.pc # "none" => op.state = "pending" /\ told = {}
    /\ call.pc \in Fresh => acted = 0
    /\ call.pc = "settling" => acted = 1
    /\ call.pc = "acted" => call.outcome \in Endings /\ Fits(call.outcome, acted)
    /\ acted \in {0, 1} /\ Fits(op.result, acted)
    /\ \A answer \in told : Fits(answer, acted)
    /\ \E o \in Result : told \subseteq {"unknown", o}

\* The finished operations are listed once each, so that the oldest can make room.
Listed ==
    /\ \A id \in Ids :
          operations.of[id].state \in {"completed", "unknown"} <=>
          \E i \in 1..Len(operations.finished) : operations.finished[i] = id
    /\ \A i, j \in 1..Len(operations.finished) :
          operations.finished[i] = operations.finished[j] => i = j

\* An operation of which no more is said.
Judged(o) ==
    /\ o.acted \in {0, 1}
    /\ \A answer \in o.told : Fits(answer, o.acted)
    /\ \E a \in Result : o.told \subseteq {"unknown", a}
FormerAgree == \A o \in former : Judged(o)

AnswersInv ==
    /\ \A id \in Ids : Agrees(operations.of[id], calls[id], history.told[id], history.acted[id])
    /\ Listed
    /\ FormerAgree

-----------------------------------------------------------------------------
(* Plans.                                                                  *)

Claims(call, e) == call.pc \in {"evidence", "redriving"} /\ call.request.number = e

\* A plan nobody has claimed: issued, or still to be issued.
Free(e) == e \in plans \/ evaluations[e].phase \in {"none", "running"}

PlansInv ==
    /\ \A e \in Evaluations : Free(e) => history.spent[e] = 0 /\ \A id \in Ids : ~Claims(calls[id], e)
    /\ \A id \in Ids : calls[id].pc \in {"evidence", "redriving"} =>
          calls[id].request.number \in Evaluations /\ history.spent[calls[id].request.number] = 0
    /\ \A i, j \in Ids : \A e \in Evaluations : Claims(calls[i], e) /\ Claims(calls[j], e) => i = j
    /\ PlanUsedOnce

OperatorInv == Typed /\ ChainInv /\ AnswersInv /\ PlansInv

-----------------------------------------------------------------------------
(* What the helpers give.                                                  *)

LEMMA NotedKeeps ==
    ASSUME incidents \in [Incidents -> IncidentType], NEW f, NEW ok \in BOOLEAN
    PROVE  /\ Noted(f, ok) \in [Incidents -> IncidentType]
           /\ \A g \in Incidents : /\ Noted(f, ok)[g].recovery = incidents[g].recovery
                                   /\ Noted(f, ok)[g].progress = incidents[g].progress
<1> DEFINE n == incidents[f].revision + 1
<1> DEFINE x == [incidents[f] EXCEPT !.revision = n]
<1>1. Noted(f, ok) = incidents \/ Noted(f, ok) = [incidents EXCEPT ![f] = x]
  BY DEF Noted
<1>2. CASE f \in Incidents
  <2>1. incidents[f] \in IncidentType /\ n \in Nat
    BY <1>2 DEF IncidentType
  <2> HIDE DEF n
  <2>2. x \in IncidentType /\ x.recovery = incidents[f].recovery
        /\ x.progress = incidents[f].progress
    BY <2>1 DEF IncidentType
  <2> HIDE DEF x
  <2> QED BY <1>1, <1>2, <2>2
<1>3. CASE f \notin Incidents
  <2> HIDE DEF x
  <2>1. [incidents EXCEPT ![f] = x] = incidents
    BY <1>3
  <2> QED BY <1>1, <2>1
<1> QED BY <1>2, <1>3

LEMMA UpdatedGives ==
    ASSUME incidents \in [Incidents -> IncidentType], NEW f \in Incidents,
           NEW progress \in Open \cup {"processed", "advanced"},
           NEW recovery \in {"none", "held", "denied", "guard-pending"}
    PROVE  /\ Updated(f, progress, recovery) \in [Incidents -> IncidentType]
           /\ Updated(f, progress, recovery)[f].progress = progress
           /\ Updated(f, progress, recovery)[f].recovery = recovery
           /\ \A g \in Incidents \ {f} : Updated(f, progress, recovery)[g] = incidents[g]
BY DEF Updated, IncidentType

\* A call as it stands after one of its steps.
LEMMA ActsGives ==
    ASSUME calls \in [Ids -> Call], NEW id \in Ids, NEW outcome \in Result, Acts(id, outcome)
    PROVE  /\ calls' \in [Ids -> Call]
           /\ calls'[id].pc = "acted" /\ calls'[id].outcome = outcome
           /\ calls'[id].request = calls[id].request
           /\ \A i \in Ids \ {id} : calls'[i] = calls[i]
<1> DEFINE call == [calls[id] EXCEPT !.pc = "acted", !.outcome = outcome]
<1>1. /\ call \in Call /\ call.pc = "acted" /\ call.outcome = outcome
      /\ call.request = calls[id].request
  BY DEF Call, Places
<1>2. calls' = [calls EXCEPT ![id] = call]
  BY DEF Acts
<1> HIDE DEF call
<1> QED BY <1>1, <1>2

LEMMA HeadStays ==
    ASSUME NEW S, NEW c \in Seq(S), c # <<>>, NEW x \in S
    PROVE  Append(c, x) # <<>> /\ Head(Append(c, x)) = Head(c)
BY AppendProperties, HeadTailProperties, EmptySeq

LEMMA TailIsSeq ==
    ASSUME NEW S, NEW c \in Seq(S), c # <<>>
    PROVE  Tail(c) \in Seq(S)
BY HeadTailProperties

-----------------------------------------------------------------------------
(* Who is first in the chain is alone.                                     *)

LEMMA JobAlone ==
    ASSUME ChainInv, NEW id \in Ids, Turn(id)
    PROVE  /\ \A f \in Incidents : ~Asking(f) /\ ~Advancing(f)
           /\ \A i \in Ids \ {id} : calls[i].pc # "resuming"
BY OperatorAssumption DEF ChainInv, Turn, Ids

LEMMA DispositionAlone ==
    ASSUME ChainInv, NEW f \in Incidents, Turn(f)
    PROVE  /\ \A i \in Ids : calls[i].pc # "resuming"
           /\ \A g \in Incidents \ {f} : ~Asking(g) /\ ~Advancing(g)
BY OperatorAssumption DEF ChainInv, Turn, Ids

\* A step that takes nothing from the chain: records under retry may settle, jobs may queue.
LEMMA ChainWaits ==
    ASSUME Typed, ChainInv,
           \A f \in Incidents :
              /\ incidents'[f].recovery = incidents[f].recovery
              /\ \/ incidents'[f].progress = incidents[f].progress
                 \/ /\ incidents[f].progress = "retrying"
                    /\ incidents'[f].progress \in {"processed", "held"},
           chain' = chain \/ \E x \in Ids \cup Incidents : chain' = Append(chain, x),
           \A i \in Ids : calls'[i].pc = "resuming" => calls[i].pc = "resuming"
    PROVE  ChainInv'
<1>1. ASSUME NEW x, Turn(x) PROVE Turn(x)'
  <2>1. chain \in Seq(Ids \cup Incidents) /\ chain # <<>> /\ Head(chain) = x
    BY <1>1 DEF Turn, Typed
  <2>2. ASSUME NEW y \in Ids \cup Incidents
        PROVE  Append(chain, y) # <<>> /\ Head(Append(chain, y)) = Head(chain)
    BY <2>1, HeadStays
  <2> QED BY <2>1, <2>2 DEF Turn
<1>2. \A f \in Incidents : Asking(f)' => Asking(f) /\ incidents'[f].progress = "held"
  BY DEF Asking, ChainInv
<1>3. \A f \in Incidents : Advancing(f)' => Advancing(f)
  BY DEF Advancing
<1>4. \A f \in Incidents : incidents'[f].progress \in Unsettled =>
                              incidents'[f].progress = incidents[f].progress
  BY DEF Unsettled
<1>5. NeverRetriesUnderAdvance'
  BY <1>4 DEF ChainInv, NeverRetriesUnderAdvance
<1> QED BY <1>1, <1>2, <1>3, <1>5 DEF ChainInv, Asking

\* A job of the operator ends its turn: nothing was asked or advanced meanwhile.
LEMMA ChainPops ==
    ASSUME Typed, ChainInv, NEW id \in Ids, Turn(id),
           \A f \in Incidents : /\ incidents'[f].recovery = incidents[f].recovery
                                /\ incidents'[f].progress \in {incidents[f].progress, "retrying"},
           \A i \in Ids : calls'[i].pc = "resuming" => calls[i].pc = "resuming" /\ i # id
    PROVE  ChainInv'
<1>1. \A f \in Incidents : ~Asking(f)' /\ ~Advancing(f)'
  BY JobAlone DEF Asking, Advancing
<1>2. \A i \in Ids : calls'[i].pc # "resuming"
  BY JobAlone
<1> QED BY <1>1, <1>2 DEF ChainInv, NeverRetriesUnderAdvance

\* A disposition's step: it is the only one that asks or advances.
LEMMA ChainDisposes ==
    ASSUME Typed, ChainInv, NEW f \in Incidents, Turn(f), UNCHANGED calls,
           \A g \in Incidents \ {f} : incidents'[g] = incidents[g],
           Asking(f)' => incidents'[f].progress = "held",
           Asking(f)' \/ Advancing(f)' => chain' = chain
    PROVE  ChainInv'
<1>1. \A g \in Incidents \ {f} : ~Asking(g)' /\ ~Advancing(g)'
  BY DispositionAlone DEF Asking, Advancing
<1>2. \A i \in Ids : calls'[i].pc # "resuming"
  BY DispositionAlone
<1> QED BY <1>1, <1>2 DEF ChainInv, NeverRetriesUnderAdvance, Turn

LEMMA ChainStep ==
    ASSUME Typed, ChainInv, [OperatorNext]_operatorVars
    PROVE  ChainInv'
<1>0. incidents \in [Incidents -> IncidentType] /\ calls \in [Ids -> Call] /\ "refused" \in Result
      /\ "completed" \in Result /\ "failed" \in Result /\ "unknown" \in Result
  BY DEF Typed, Result, Endings
<1>a. ASSUME \A f \in Incidents : /\ incidents'[f].recovery = incidents[f].recovery
                                  /\ incidents'[f].progress = incidents[f].progress,
             chain' = chain \/ \E x \in Ids \cup Incidents : chain' = Append(chain, x),
             \A i \in Ids : calls'[i].pc = "resuming" => calls[i].pc = "resuming"
      PROVE  ChainInv'
  BY <1>a, ChainWaits
<1>b. ASSUME NEW id \in Ids, NEW request, NEW pc \in {"queued", "evidence", "acted"}, NEW outcome,
             MutationBegins(id, request, pc, outcome)
      PROVE  \A i \in Ids : calls'[i].pc = "resuming" => calls[i].pc = "resuming"
  <2> DEFINE call == [NoCall EXCEPT !.pc = pc, !.request = request, !.outcome = outcome]
  <2>1. call.pc = pc
    BY DEF NoCall
  <2>2. calls' = [calls EXCEPT ![id] = call]
    BY <1>b DEF MutationBegins
  <2> HIDE DEF call
  <2> QED BY <1>0, <2>1, <2>2
<1>c. ASSUME NEW id \in Ids, NEW outcome \in Result, Acts(id, outcome)
      PROVE  \A i \in Ids : calls'[i].pc = "resuming" => calls[i].pc = "resuming" /\ i # id
  BY <1>0, <1>c, ActsGives
<1>1. CASE UNCHANGED <<incidents, chain, calls>>
  BY <1>1, <1>a
<1>2. ASSUME NEW id \in Ids, RedriveReads(id) \/ RedriveClaims(id) \/ Queue(id) \/ Finish(id)
      PROVE  ChainInv'
  <2>1. UNCHANGED incidents /\ (chain' = chain \/ chain' = Append(chain, id))
    BY <1>2 DEF RedriveReads, RedriveClaims, Queue, Finish, recordVars
  <2>2. CASE RedriveReads(id)
    <3>1. PICK found \in BOOLEAN :
             LET request == calls[id].request
                 good == found /\ incidents[request.on].revision = request.revision
             IN calls' = [calls EXCEPT ![id] = [@ EXCEPT
                    !.pc = IF good THEN "redriving" ELSE "acted",
                    !.outcome = IF good THEN "none" ELSE "refused"]]
      BY <2>2 DEF RedriveReads
    <3> DEFINE good == found /\ incidents[calls[id].request.on].revision = calls[id].request.revision
    <3> DEFINE call == [calls[id] EXCEPT !.pc = IF good THEN "redriving" ELSE "acted",
                                         !.outcome = IF good THEN "none" ELSE "refused"]
    <3>2. calls' = [calls EXCEPT ![id] = call]
      BY <3>1
    <3> HIDE DEF good
    <3>3. call.pc # "resuming"
      BY <1>0 DEF Call
    <3> HIDE DEF call
    <3> QED BY <1>0, <1>a, <2>1, <3>2, <3>3
  <2>3. CASE Finish(id)
    <3>1. calls' = [calls EXCEPT ![id] = NoCall] /\ NoCall.pc = "none"
      BY <2>3 DEF Finish, NoCall
    <3> QED BY <1>0, <1>a, <2>1, <3>1
  <2>4. CASE RedriveClaims(id) \/ Queue(id)
    <3>1. \E request, outcome : \E pc \in {"queued", "evidence", "acted"} :
             MutationBegins(id, request, pc, outcome)
      BY <2>4 DEF RedriveClaims, Queue
    <3> QED BY <1>a, <1>b, <2>1, <3>1
  <2> QED BY <1>2, <2>2, <2>3, <2>4
<1>3. ASSUME NEW id \in Ids, RedriveEnds(id) PROVE ChainInv'
  <2>1. PICK outcome \in {"failed", "refused", "completed"}, noted \in BOOLEAN :
           /\ calls' = [calls EXCEPT ![id] = [@ EXCEPT !.pc = "acted", !.outcome = outcome]]
           /\ incidents' = Noted(calls[id].request.on, noted)
    BY <1>3 DEF RedriveEnds
  <2>2. Acts(id, outcome) /\ outcome \in Result /\ chain' = chain
    BY <1>3, <2>1 DEF Acts, RedriveEnds, Result, Endings
  <2> QED BY <1>0, <1>a, <1>c, <2>1, <2>2, NotedKeeps
<1>4. ASSUME NEW id \in Ids, RetryChecks(id) PROVE ChainInv'
  <2>1. CASE ~Retriable(calls[id].request)
    BY <1>0, <1>4, <1>c, <2>1, ChainPops DEF RetryChecks, Queued
  <2>2. CASE Retriable(calls[id].request)
    <3>1. PICK noted \in BOOLEAN : /\ incidents' = Noted(calls[id].request.on, noted)
                                   /\ calls' = [calls EXCEPT ![id].pc = "resuming"]
      BY <1>4, <2>2 DEF RetryChecks
    <3>2. Turn(id) /\ chain' = chain
      BY <1>4, <2>2 DEF RetryChecks, Queued
    <3>3. \A f \in Incidents : incidents[f].progress \notin Unsettled
      BY <2>2 DEF Retriable, AnyUnresolved
    <3>4. \A f \in Incidents : /\ incidents'[f].recovery = incidents[f].recovery
                               /\ incidents'[f].progress = incidents[f].progress
      BY <1>0, <3>1, NotedKeeps
    <3>5. \A f \in Incidents : incidents'[f].progress \notin Unsettled /\ ~Asking(f)'
                               /\ ~Advancing(f)'
      BY <3>2, <3>3, <3>4, JobAlone DEF Asking, Advancing
    <3>6. \A i \in Ids \ {id} : calls'[i] = calls[i] /\ calls[i].pc # "resuming"
      BY <1>0, <3>1, <3>2, JobAlone
    <3>7. Turn(id)'
      BY <3>2 DEF Turn
    <3> QED BY <3>5, <3>6, <3>7 DEF ChainInv, NeverRetriesUnderAdvance, Asking
  <2> QED BY <2>1, <2>2
<1>5. ASSUME NEW id \in Ids, RetryResumes(id) PROVE ChainInv'
  <2>1. Turn(id) /\ chain' = Tail(chain)
    BY <1>5 DEF RetryResumes, ChainInv
  <2>2. CASE Acts(id, "refused") /\ UNCHANGED incidents
    BY <1>0, <1>c, <2>1, <2>2, ChainPops
  <2>3. CASE /\ incidents' = [f \in Incidents |->
                    IF incidents[f].progress = "held"
                    THEN Updated(f, "retrying", incidents[f].recovery)[f] ELSE incidents[f]]
             /\ calls' = [calls EXCEPT ![id] = [@ EXCEPT !.pc = "settling",
                                                         !.waits = ToSet(Tail(chain))]]
    <3>1. ASSUME NEW f \in Incidents
          PROVE  /\ incidents'[f].recovery = incidents[f].recovery
                 /\ incidents'[f].progress \in {incidents[f].progress, "retrying"}
      <4>1. incidents[f].recovery \in {"none", "held", "denied", "guard-pending"}
            /\ "retrying" \in Open \cup {"processed", "advanced"}
        BY <1>0 DEF IncidentType, Open
      <4>2. /\ Updated(f, "retrying", incidents[f].recovery)[f].recovery = incidents[f].recovery
            /\ Updated(f, "retrying", incidents[f].recovery)[f].progress = "retrying"
        BY <1>0, <4>1, UpdatedGives
      <4> QED BY <2>3, <4>2
    <3> DEFINE call == [calls[id] EXCEPT !.pc = "settling", !.waits = ToSet(Tail(chain))]
    <3>2. call.pc = "settling"
      BY <1>0 DEF Call
    <3>3. calls' = [calls EXCEPT ![id] = call]
      BY <2>3
    <3> HIDE DEF call
    <3>4. \A i \in Ids : calls'[i].pc = "resuming" => calls[i].pc = "resuming" /\ i # id
      BY <1>0, <3>2, <3>3
    <3> QED BY <2>1, <3>1, <3>4, ChainPops
  <2> QED BY <1>5, <2>2, <2>3 DEF RetryResumes
<1>6. ASSUME NEW id \in Ids, RetrySettles(id) PROVE ChainInv'
  BY <1>0, <1>6, <1>a, <1>c DEF RetrySettles, recordVars
<1>7. ASSUME NEW id \in Ids, ReopenRuns(id) \/ RetireRuns(id) PROVE ChainInv'
  <2>1. Turn(id) /\ UNCHANGED incidents /\ (Acts(id, "completed") \/ Acts(id, "refused"))
    BY <1>7 DEF ReopenRuns, RetireRuns, Queued
  <2> QED BY <1>0, <1>c, <2>1, ChainPops
<1>8. ASSUME NEW id \in Ids, CallThrows(id) PROVE ChainInv'
  <2>1. UNCHANGED incidents /\ Acts(id, "unknown")
    BY <1>8 DEF CallThrows, recordVars
  <2>2. CASE calls[id].pc = "queued"
    BY <1>0, <1>8, <1>c, <2>1, <2>2, ChainPops DEF CallThrows
  <2>3. CASE calls[id].pc # "queued"
    BY <1>0, <1>8, <1>a, <1>c, <2>1, <2>3 DEF CallThrows
  <2> QED BY <2>2, <2>3
<1>9. ASSUME NEW f \in Incidents, DispositionStarts(f) PROVE ChainInv'
  <2>1. PICK decision \in {"hold", "trip", "guard"} :
           /\ incidents' = Updated(f, "held", IF decision = "guard" THEN "guard-pending" ELSE "held")
           /\ chain' = IF decision = "guard" THEN chain ELSE Tail(chain)
    BY <1>9 DEF DispositionStarts
  <2> DEFINE recovery == IF decision = "guard" THEN "guard-pending" ELSE "held"
  <2>2. recovery \in {"none", "held", "denied", "guard-pending"}
        /\ "held" \in Open \cup {"processed", "advanced"}
        /\ (recovery = "guard-pending" => decision = "guard")
    BY DEF Open
  <2>3. incidents' = Updated(f, "held", recovery)
    BY <2>1
  <2> HIDE DEF recovery
  <2>4. /\ incidents'[f].progress = "held" /\ incidents'[f].recovery = recovery
        /\ \A g \in Incidents \ {f} : incidents'[g] = incidents[g]
    BY <1>0, <2>2, <2>3, UpdatedGives
  <2>5. Asking(f)' \/ Advancing(f)' => chain' = chain
    BY <2>1, <2>2, <2>4 DEF Asking, Advancing
  <2>6. UNCHANGED calls /\ Turn(f)
    BY <1>9 DEF DispositionStarts, Disposes, serviceVars
  <2> QED BY <2>4, <2>5, <2>6, ChainDisposes
<1>10. ASSUME NEW f \in Incidents, DispositionGuarded(f) PROVE ChainInv'
  <2>1. UNCHANGED calls /\ Turn(f)
    BY <1>10 DEF DispositionGuarded, Disposes, serviceVars
  <2>2. CASE incidents' = Updated(f, "held", "denied")
    <3>1. "held" \in Open /\ "denied" \in {"none", "held", "denied", "guard-pending"}
      BY DEF Open
    <3>2. /\ incidents'[f].progress = "held" /\ incidents'[f].recovery = "denied"
          /\ \A g \in Incidents \ {f} : incidents'[g] = incidents[g]
      BY <1>0, <2>2, <3>1, UpdatedGives
    <3> QED BY <2>1, <3>2, ChainDisposes DEF Asking, Advancing
  <2>3. CASE incidents' = Updated(f, "advance-pending", "none") /\ UNCHANGED chain
    <3>1. "advance-pending" \in Open /\ "none" \in {"none", "held", "denied", "guard-pending"}
      BY DEF Open, Unsettled
    <3>2. /\ incidents'[f].progress = "advance-pending" /\ incidents'[f].recovery = "none"
          /\ \A g \in Incidents \ {f} : incidents'[g] = incidents[g]
      BY <1>0, <2>3, <3>1, UpdatedGives
    <3> QED BY <2>1, <2>3, <3>2, ChainDisposes DEF Asking, Advancing
  <2> QED BY <1>10, <2>2, <2>3 DEF DispositionGuarded
<1>11. ASSUME NEW f \in Incidents, AdvanceEnds(f) PROVE ChainInv'
  <2>1. PICK progress \in {"advanced", "uncertain"} : incidents' = Updated(f, progress, "none")
    BY <1>11 DEF AdvanceEnds
  <2>2. progress \in Open \cup {"processed", "advanced"}
        /\ "none" \in {"none", "held", "denied", "guard-pending"}
    BY DEF Open, Unsettled
  <2>3. /\ incidents'[f].progress = progress /\ incidents'[f].recovery = "none"
        /\ \A g \in Incidents \ {f} : incidents'[g] = incidents[g]
    BY <1>0, <2>1, <2>2, UpdatedGives
  <2>4. UNCHANGED calls /\ Turn(f) /\ ~Asking(f)' /\ ~Advancing(f)'
    BY <1>11, <2>3 DEF AdvanceEnds, Disposes, serviceVars, Asking, Advancing
  <2> QED BY <2>3, <2>4, ChainDisposes
<1>12. ASSUME NEW f \in Incidents, RecordProcesses(f) PROVE ChainInv'
  <2>1. /\ incidents[f].recovery \in {"none", "held", "denied", "guard-pending"}
        /\ incidents[f].progress = "retrying"
        /\ incidents' = Updated(f, "processed", incidents[f].recovery)
        /\ "processed" \in Open \cup {"processed", "advanced"}
    BY <1>0, <1>12 DEF RecordProcesses, Retrying, IncidentType
  <2>2. /\ incidents'[f].progress = "processed" /\ incidents'[f].recovery = incidents[f].recovery
        /\ \A g \in Incidents \ {f} : incidents'[g] = incidents[g]
    BY <1>0, <2>1, UpdatedGives
  <2> QED BY <1>12, <2>1, <2>2, ChainWaits DEF RecordProcesses, serviceVars
<1>13. ASSUME NEW f \in Incidents, RecordFails(f) PROVE ChainInv'
  <2>1. ASSUME NEW g \in Incidents
        PROVE  /\ incidents'[g].recovery = incidents[g].recovery
               /\ \/ incidents'[g].progress = incidents[g].progress
                  \/ incidents[g].progress = "retrying" /\ incidents'[g].progress = "held"
    <3>1. incidents[g].recovery \in {"none", "held", "denied", "guard-pending"}
          /\ "held" \in Open \cup {"processed", "advanced"}
      BY <1>0 DEF IncidentType, Open
    <3>2. /\ Updated(g, "held", incidents[g].recovery)[g].recovery = incidents[g].recovery
          /\ Updated(g, "held", incidents[g].recovery)[g].progress = "held"
      BY <1>0, <3>1, UpdatedGives
    <3>3. incidents'[g] = IF g # f /\ incidents[g].progress = "retrying"
                          THEN Updated(g, "held", incidents[g].recovery)[g] ELSE incidents[g]
      BY <1>13 DEF RecordFails
    <3> QED BY <3>2, <3>3
  <2>2. chain' = Append(chain, f) /\ UNCHANGED calls
    BY <1>13 DEF RecordFails, serviceVars
  <2> QED BY <2>1, <2>2, ChainWaits
<1>14. CASE HostRestarts
  <2>1. \A i \in Ids : calls'[i].pc = "none"
    BY <1>14 DEF HostRestarts, NoCall
  <2>2. PICK advanced \in BOOLEAN :
           incidents' = [f \in Incidents |->
              CASE incidents[f].progress \in {"held", "retrying"} -> Updated(f, "retrying", "held")[f]
                [] incidents[f].progress \in Unsettled ->
                       Updated(f, IF advanced THEN "advanced" ELSE "uncertain", "none")[f]
                [] OTHER -> incidents[f]]
    BY <1>14 DEF HostRestarts
  <2>3. ASSUME NEW f \in Incidents PROVE ~Asking(f)' /\ ~Advancing(f)'
    <3> DEFINE progress == IF advanced THEN "advanced" ELSE "uncertain"
    <3>1. /\ progress \in Open \cup {"processed", "advanced"} /\ progress # "advance-pending"
          /\ "retrying" \in Open \cup {"processed", "advanced"}
          /\ {"none", "held"} \subseteq {"none", "held", "denied", "guard-pending"}
      BY DEF Open, Unsettled
    <3>2. incidents'[f] = CASE incidents[f].progress \in {"held", "retrying"} ->
                                 Updated(f, "retrying", "held")[f]
                            [] incidents[f].progress \in Unsettled -> Updated(f, progress, "none")[f]
                            [] OTHER -> incidents[f]
      BY <2>2
    <3> HIDE DEF progress
    <3>3. /\ Updated(f, "retrying", "held")[f].progress = "retrying"
          /\ Updated(f, "retrying", "held")[f].recovery = "held"
          /\ Updated(f, progress, "none")[f].progress = progress
          /\ Updated(f, progress, "none")[f].recovery = "none"
      BY <1>0, <3>1, UpdatedGives
    <3>4. CASE incidents[f].progress \in {"held", "retrying"}
      <4>1. incidents'[f] = Updated(f, "retrying", "held")[f]
        BY <3>2, <3>4 DEF Unsettled
      <4> QED BY <3>3, <4>1 DEF Asking, Advancing
    <3>5. CASE incidents[f].progress \in Unsettled
      <4>1. incidents'[f] = Updated(f, progress, "none")[f]
        BY <3>2, <3>5 DEF Unsettled
      <4> QED BY <3>1, <3>3, <4>1 DEF Asking, Advancing
    <3>6. CASE incidents[f].progress \notin {"held", "retrying"} \cup Unsettled
      <4>1. incidents'[f] = incidents[f] /\ incidents[f].progress \notin {"held", "advance-pending"}
        BY <3>2, <3>6 DEF Unsettled
      <4> QED BY <4>1 DEF Asking, Advancing, ChainInv
    <3> QED BY <3>4, <3>5, <3>6
  <2> QED BY <2>1, <2>3 DEF ChainInv, NeverRetriesUnderAdvance
<1>15. ASSUME NEW f \in Incidents, Evaluate(f) PROVE UNCHANGED <<incidents, chain, calls>>
  BY <1>15 DEF Evaluate, recordVars
<1>16. ASSUME NEW e \in Evaluations, EvaluationEnds(e) \/ PlanExpires(e)
       PROVE  UNCHANGED <<incidents, chain, calls>>
  BY <1>16 DEF EvaluationEnds, PlanExpires, recordVars
<1>17. ASSUME NEW id \in Redrives, Replay(id) \/ ReplayRefused(id)
       PROVE  UNCHANGED <<incidents, chain, calls>>
  BY <1>17 DEF Replay, ReplayRefused, recordVars
<1>18. StopBegins => UNCHANGED <<incidents, chain, calls>>
  BY DEF StopBegins, recordVars, serviceVars
<1>19. UNCHANGED operatorVars => UNCHANGED <<incidents, chain, calls>>
  BY DEF operatorVars
<1>20. Redrives \subseteq Ids /\ Others \subseteq Ids
  BY DEF Ids
<1> QED
  BY <1>1, <1>2, <1>3, <1>4, <1>5, <1>6, <1>7, <1>8, <1>9, <1>10, <1>11, <1>12, <1>13, <1>14,
     <1>15, <1>16, <1>17, <1>18, <1>19, <1>20
     DEF OperatorNext, CallMoves, DispositionMoves

-----------------------------------------------------------------------------
(* The types are kept.                                                     *)

LEMMA FaultsCounted ==
    ASSUME errors \in 0..MaxErrors, Sound \/ \E ok \in BOOLEAN : Write(ok)
    PROVE  errors' \in 0..MaxErrors
BY OperatorAssumption DEF Sound, Write

\* The incidents are updated one by one.
LEMMA EachUpdated ==
    ASSUME incidents \in [Incidents -> IncidentType], NEW new,
           \A f \in Incidents :
              \/ new[f] = incidents[f]
              \/ \E progress \in Open \cup {"processed", "advanced"},
                    recovery \in {"none", "held", "denied", "guard-pending"} :
                       new[f] = Updated(f, progress, recovery)[f],
           new = [f \in Incidents |-> new[f]]
    PROVE  new \in [Incidents -> IncidentType]
<1>1. ASSUME NEW f \in Incidents PROVE new[f] \in IncidentType
  <2>1. ASSUME NEW progress \in Open \cup {"processed", "advanced"},
               NEW recovery \in {"none", "held", "denied", "guard-pending"}
        PROVE  Updated(f, progress, recovery)[f] \in IncidentType
    BY UpdatedGives
  <2> QED BY <2>1
<1> QED BY <1>1

\* An operation begins: there is room, or one that has finished makes it.
LEMMA RoomIsMade ==
    ASSUME Typed, Listed, HasRoom, Cardinality(Stored) >= MaxOperations
    PROVE  operations.finished # <<>>
<1> SUFFICES ASSUME operations.finished = <<>> PROVE FALSE
  OBVIOUS
<1> DEFINE P == {i \in Ids : operations.of[i].state = "pending"}
<1>1. ASSUME NEW i \in Ids PROVE operations.of[i].state \in {"none", "pending"}
  <2>1. operations.of[i].state \in {"none", "pending", "completed", "unknown"}
    BY DEF Typed, Operation
  <2>2. Len(operations.finished) = 0
    OBVIOUS
  <2>3. operations.of[i].state \notin {"completed", "unknown"}
    BY <2>2 DEF Listed
  <2> QED BY <2>1, <2>3
<1>2. Stored = P
  BY <1>1 DEF Stored
<1>3. IsFiniteSet(P)
  <2>1. IsFiniteSet(Ids)
    BY OperatorAssumption, FS_Union DEF Ids
  <2> QED BY <2>1, FS_Subset
<1>4. Cardinality(P) \in Nat
  BY <1>3, FS_CardinalityType
<1>5. Cardinality(P) < MaxOperations /\ MaxOperations \in Nat
  BY OperatorAssumption DEF HasRoom
<1> QED BY <1>2, <1>4, <1>5

LEMMA BeginsTyped ==
    ASSUME Typed, Listed, NEW id \in Ids, NEW request \in Request,
           NEW pc \in {"queued", "evidence", "acted"}, NEW outcome \in {"none", "refused"},
           MutationBegins(id, request, pc, outcome)
    PROVE  /\ operations' \in [of : [Ids -> Operation], finished : Seq(Ids)]
           /\ calls' \in [Ids -> Call]
           /\ history' \in History
<1>1. NoOperation \in Operation /\ [NoOperation EXCEPT !.state = "pending", !.request = request] \in Operation
  BY DEF NoOperation, NoRequest, Operation, Request, Kinds, Subject, Result
<1>2. operations.of \in [Ids -> Operation] /\ operations.finished \in Seq(Ids)
  BY DEF Typed
<1>3. operations' = Begun(id, request)
  BY DEF MutationBegins
<1>4. operations' \in [of : [Ids -> Operation], finished : Seq(Ids)]
  <2> DEFINE full == Cardinality(Stored) >= MaxOperations
  <2> DEFINE out == IF full THEN {Head(operations.finished)} ELSE {}
  <2> DEFINE op == [NoOperation EXCEPT !.state = "pending", !.request = request]
  <2> DEFINE of == [i \in Ids |-> IF i = id THEN op ELSE IF i \in out THEN NoOperation
                                  ELSE operations.of[i]]
  <2> DEFINE finished == IF full THEN Tail(operations.finished) ELSE operations.finished
  <2>1. operations' = [of |-> of, finished |-> finished]
    BY <1>3 DEF Begun
  <2>2. finished \in Seq(Ids)
    <3>1. full => operations.finished # <<>>
      BY RoomIsMade DEF MutationBegins
    <3>2. full => Tail(operations.finished) \in Seq(Ids)
      BY <1>2, <3>1, TailIsSeq
    <3> QED BY <1>2, <3>2
  <2> HIDE DEF out, finished, op
  <2>3. of \in [Ids -> Operation]
    BY <1>1, <1>2 DEF op
  <2> QED BY <2>1, <2>2, <2>3
<1>5. calls' \in [Ids -> Call]
  <2> DEFINE call == [NoCall EXCEPT !.pc = pc, !.request = request, !.outcome = outcome]
  <2>1. call \in Call
    BY DEF NoCall, NoRequest, Call, Places, Result, Endings
  <2>2. calls' = [calls EXCEPT ![id] = call]
    BY DEF MutationBegins
  <2> HIDE DEF call
  <2> QED BY <2>1, <2>2 DEF Typed
<1>6. history' \in History
  <2> DEFINE mid == [history EXCEPT !.acted[id] = 0]
  <2>1. mid \in History
    BY DEF Typed, History
  <2>2. history' = [mid EXCEPT !.told[id] = {}]
    BY DEF MutationBegins
  <2> HIDE DEF mid
  <2> QED BY <2>1, <2>2 DEF History
<1> QED BY <1>4, <1>5, <1>6

\* What SetToSeqs gives: each element of a finite set, once.
LEMMA OrderLists ==
    ASSUME NEW S, IsFiniteSet(S), NEW order \in SetToSeqs(S)
    PROVE  /\ order \in Seq(S) /\ Len(order) = Cardinality(S)
           /\ \A i, j \in 1..Len(order) : order[i] = order[j] => i = j
           /\ \A x \in S : \E i \in 1..Len(order) : order[i] = x
<1> DEFINE n == Cardinality(S)
<1> DEFINE D == 1..n
<1>1. n \in Nat
  BY FS_CardinalityType
<1>2. order \in [D -> S] /\ \A i, j \in D : i # j => order[i] # order[j]
  BY DEF SetToSeqs
<1>3. order \in Seq(S) /\ Len(order) = n
  BY <1>1, <1>2
<1>4. IsFiniteSet(D) /\ Cardinality(D) = n
  BY <1>1, FS_Interval
<1>5. order \in Injection(D, S)
  BY <1>2 DEF Injection, IsInjective
<1>6. order \in Surjection(D, S)
  BY <1>4, <1>5, FS_Injection
<1>7. \A x \in S : \E i \in D : order[i] = x
  BY <1>6 DEF Surjection
<1> QED BY <1>2, <1>3, <1>7

LEMMA RequestsTyped ==
    ASSUME Typed
    PROVE  RedriveRequests \subseteq Request /\ SourceRequests \subseteq Request
<1>1. /\ \A e \in Evaluations : evaluations[e].revision \in Nat /\ e \in Nat
      /\ \A f \in Incidents : incidents[f].revision \in Nat
      /\ circuit.revision \in Nat /\ boundary.revision \in Nat /\ boundary.number \in Nat
  <2>1. \A e \in Evaluations : e \in Nat
    BY OperatorAssumption DEF Evaluations
  <2>2. \A e \in Evaluations : evaluations[e].revision \in Nat
    BY DEF Typed, Evaluation
  <2>3. \A f \in Incidents : incidents[f].revision \in Nat
    BY DEF Typed, IncidentType
  <2>4. circuit.revision \in Nat /\ boundary.revision \in Nat /\ boundary.number \in Nat
    BY DEF Typed
  <2> QED BY <2>1, <2>2, <2>3, <2>4
<1>2. RedriveRequests \subseteq Request
  BY <1>1 DEF RedriveRequests, Request, Kinds, Subject
<1>3. ASSUME NEW k \in {"retry", "reassess"}, NEW f \in Incidents
      PROVE  [kind |-> k, on |-> f, number |-> 0, revision |-> incidents[f].revision] \in Request
  BY <1>1 DEF Request, Kinds, Subject
<1>4. /\ [NoRequest EXCEPT !.kind = "reopen", !.revision = circuit.revision] \in Request
      /\ [NoRequest EXCEPT !.kind = "retire", !.number = boundary.number,
                           !.revision = boundary.revision] \in Request
  BY <1>1 DEF NoRequest, Request, Kinds, Subject
<1>5. SourceRequests \subseteq Request
  BY <1>3, <1>4 DEF SourceRequests
<1> QED BY <1>2, <1>5

LEMMA ActedTyped ==
    ASSUME history \in History, NEW id \in Ids
    PROVE  [history EXCEPT !.acted[id] = @ + 1] \in History
BY DEF History

LEMMA HistoryTyped ==
    ASSUME history \in History, NEW id \in Ids, NEW answer \in Result, NEW e
    PROVE  /\ [history EXCEPT !.acted[id] = @ + 1] \in History
           /\ [history EXCEPT !.acted[id] = @ + 1, !.spent[e] = @ + 1] \in History
           /\ [history EXCEPT !.told[id] = @ \cup {answer}] \in History
<1> DEFINE mid == [history EXCEPT !.acted[id] = @ + 1]
<1>1. mid \in History
  BY ActedTyped
<1>2. [history EXCEPT !.acted[id] = @ + 1, !.spent[e] = @ + 1] = [mid EXCEPT !.spent[e] = @ + 1]
  OBVIOUS
<1> HIDE DEF mid
<1>3. [mid EXCEPT !.spent[e] = @ + 1] \in History
  <2> DEFINE n == mid.spent[e] + 1
  <2>1. e \in Evaluations => n \in Nat
    BY <1>1 DEF History
  <2>2. [mid EXCEPT !.spent[e] = @ + 1] = [mid EXCEPT !.spent[e] = n]
    OBVIOUS
  <2> HIDE DEF n
  <2> QED BY <1>1, <2>1, <2>2 DEF History
<1>4. [history EXCEPT !.told[id] = @ \cup {answer}] \in History
  BY DEF History
<1> QED BY <1>1, <1>2, <1>3, <1>4 DEF mid

\* The steps of a call.
LEMMA CallTyped ==
    ASSUME Typed, ChainInv, Listed, NEW id \in Ids, CallMoves(id) \/ CallThrows(id)
    PROVE  Typed'
<1>0. /\ incidents \in [Incidents -> IncidentType] /\ calls \in [Ids -> Call]
      /\ history \in History /\ chain \in Seq(Ids \cup Incidents)
      /\ circuit \in [open : BOOLEAN, revision : Nat]
      /\ boundary \in [number : Nat, inForce : BOOLEAN, revision : Nat, covers : SUBSET Incidents]
      /\ host \in [state : {"running", "stopping"}, boundary : Nat, paused : BOOLEAN]
      /\ {"refused", "completed", "failed", "unknown", "none"} \subseteq Result
  BY DEF Typed, Result, Endings
<1>a. errors' \in 0..MaxErrors
  <2>1. errors \in 0..MaxErrors
    BY DEF Typed
  <2>2. Sound \/ \E ok \in BOOLEAN : Write(ok)
    BY DEF CallMoves, CallThrows, RedriveReads, RedriveEnds, RetryChecks, RetryResumes,
           RetrySettles, ReopenRuns, RetireRuns, Finish
  <2> QED BY <2>1, <2>2, FaultsCounted
<1>b. ASSUME NEW x, Turn(x) PROVE Tail(chain) \in Seq(Ids \cup Incidents)
  BY <1>0, <1>b, TailIsSeq DEF Turn
<1>c. ASSUME NEW f, NEW ok \in BOOLEAN PROVE Noted(f, ok) \in [Incidents -> IncidentType]
  BY <1>0, NotedKeeps
<1>d. ASSUME NEW outcome \in Result, Acts(id, outcome) PROVE calls' \in [Ids -> Call]
  BY <1>0, <1>d, ActsGives
<1>1. CASE RedriveReads(id)
  <2>1. calls' \in [Ids -> Call]
    <3>1. PICK good \in BOOLEAN :
             calls' = [calls EXCEPT ![id] = [@ EXCEPT
                    !.pc = IF good THEN "redriving" ELSE "acted",
                    !.outcome = IF good THEN "none" ELSE "refused"]]
      BY <1>1 DEF RedriveReads
    <3> DEFINE call == [calls[id] EXCEPT !.pc = IF good THEN "redriving" ELSE "acted",
                                         !.outcome = IF good THEN "none" ELSE "refused"]
    <3>2. calls' = [calls EXCEPT ![id] = call]
      BY <3>1
    <3>3. call \in Call
      BY <1>0 DEF Call, Places
    <3> HIDE DEF call
    <3> QED BY <1>0, <3>2, <3>3
  <2> QED BY <1>1, <1>a, <2>1 DEF RedriveReads, recordVars, Typed
<1>2. CASE RedriveEnds(id)
  <2>1. PICK outcome \in {"failed", "refused", "completed"}, noted \in BOOLEAN :
          /\ calls' = [calls EXCEPT ![id] = [@ EXCEPT !.pc = "acted", !.outcome = outcome]]
          /\ history' = IF outcome # "completed" THEN history
                        ELSE [history EXCEPT !.acted[id] = @ + 1,
                                             !.spent[calls[id].request.number] = @ + 1]
          /\ incidents' = Noted(calls[id].request.on, noted)
    BY <1>2 DEF RedriveEnds
  <2>2. history' \in History
    BY <1>0, <2>1, HistoryTyped
  <2>3. calls' \in [Ids -> Call]
    BY <1>0, <1>d, <2>1 DEF Acts
  <2>4. incidents' \in [Incidents -> IncidentType]
    BY <1>c, <2>1
  <2> QED BY <1>2, <1>a, <2>2, <2>3, <2>4 DEF RedriveEnds, Typed
<1>3. CASE RetryChecks(id)
  <2>1. incidents' \in [Incidents -> IncidentType]
    BY <1>0, <1>3, <1>c DEF RetryChecks
  <2>2. calls' \in [Ids -> Call]
    <3>1. [calls EXCEPT ![id].pc = "resuming"] \in [Ids -> Call]
      BY <1>0 DEF Call, Places
    <3> QED BY <1>0, <1>3, <1>d, <3>1 DEF RetryChecks
  <2>3. chain' \in Seq(Ids \cup Incidents)
    BY <1>0, <1>3, <1>b DEF RetryChecks, Queued
  <2> QED BY <1>3, <1>a, <2>1, <2>2, <2>3 DEF RetryChecks, Typed
<1>4. CASE RetryResumes(id)
  <2>1. chain' \in Seq(Ids \cup Incidents) /\ chain' = Tail(chain)
    BY <1>4, <1>b DEF RetryResumes, ChainInv
  <2>2. CASE Acts(id, "refused") /\ UNCHANGED <<incidents, history, host>>
    BY <1>0, <1>4, <1>a, <1>d, <2>1, <2>2 DEF RetryResumes, Typed
  <2>3. CASE /\ incidents' = [f \in Incidents |->
                    IF incidents[f].progress = "held"
                    THEN Updated(f, "retrying", incidents[f].recovery)[f] ELSE incidents[f]]
             /\ history' = [history EXCEPT !.acted[id] = @ + 1]
             /\ host' = [host EXCEPT !.paused = FALSE]
             /\ calls' = [calls EXCEPT ![id] = [@ EXCEPT !.pc = "settling",
                                                         !.waits = ToSet(Tail(chain))]]
    <3>1. ASSUME NEW f \in Incidents
          PROVE  /\ incidents[f].recovery \in {"none", "held", "denied", "guard-pending"}
                 /\ "retrying" \in Open \cup {"processed", "advanced"}
      BY <1>0 DEF IncidentType, Open
    <3>2. incidents' \in [Incidents -> IncidentType]
      BY <1>0, <2>3, <3>1, EachUpdated
    <3>3. history' \in History
      BY <1>0, <2>3, ActedTyped
    <3>4. calls' \in [Ids -> Call]
      <4> DEFINE waits == ToSet(Tail(chain))
      <4> DEFINE call == [calls[id] EXCEPT !.pc = "settling", !.waits = waits]
      <4>1. waits \subseteq Ids \cup Incidents
        BY <2>1, LenProperties, ElementOfSeq DEF ToSet
      <4>2. calls' = [calls EXCEPT ![id] = call]
        BY <2>3
      <4> HIDE DEF waits
      <4>3. call \in Call
        BY <1>0, <4>1 DEF Call, Places
      <4> HIDE DEF call
      <4> QED BY <1>0, <4>2, <4>3
    <3>5. host' \in [state : {"running", "stopping"}, boundary : Nat, paused : BOOLEAN]
      BY <2>3 DEF Typed
    <3> QED BY <1>4, <1>a, <2>1, <3>2, <3>3, <3>4, <3>5 DEF RetryResumes, Typed
  <2> QED BY <1>4, <2>2, <2>3 DEF RetryResumes
<1>5. CASE RetrySettles(id)
  BY <1>0, <1>5, <1>a, <1>d DEF RetrySettles, recordVars, Typed
<1>6. CASE ReopenRuns(id)
  <2>1. chain' \in Seq(Ids \cup Incidents)
    BY <1>6, <1>b DEF ReopenRuns, Queued
  <2>2. calls' \in [Ids -> Call]
    BY <1>0, <1>6, <1>d DEF ReopenRuns
  <2>3. history' \in History
    <3>1. history' = history \/ history' = [history EXCEPT !.acted[id] = @ + 1]
      BY <1>6 DEF ReopenRuns
    <3>2. history \in History
      BY <1>0
    <3> QED BY <3>1, <3>2, ActedTyped
  <2>4. circuit' \in [open : BOOLEAN, revision : Nat]
    <3>1. [open |-> FALSE, revision |-> circuit.revision + 1] \in [open : BOOLEAN, revision : Nat]
      BY <1>0
    <3> QED BY <1>0, <1>6, <3>1 DEF ReopenRuns
  <2> QED BY <1>6, <1>a, <2>1, <2>2, <2>3, <2>4 DEF ReopenRuns, Typed
<1>7. CASE RetireRuns(id)
  <2>1. chain' \in Seq(Ids \cup Incidents)
    BY <1>7, <1>b DEF RetireRuns, Queued
  <2>2. calls' \in [Ids -> Call]
    BY <1>0, <1>7, <1>d DEF RetireRuns
  <2>3. history' \in History
    <3>1. history' = history \/ history' = [history EXCEPT !.acted[id] = @ + 1]
      BY <1>7 DEF RetireRuns
    <3>2. history \in History
      BY <1>0
    <3> QED BY <3>1, <3>2, ActedTyped
  <2>4. boundary' \in [number : Nat, inForce : BOOLEAN, revision : Nat, covers : SUBSET Incidents]
    <3> DEFINE n == boundary.revision + 1
    <3> DEFINE new == [boundary EXCEPT !.inForce = FALSE, !.revision = n]
    <3>1. boundary' = boundary \/ boundary' = new
      BY <1>7 DEF RetireRuns
    <3>2. n \in Nat
      BY <1>0
    <3> HIDE DEF n
    <3>3. new \in [number : Nat, inForce : BOOLEAN, revision : Nat, covers : SUBSET Incidents]
      <4> DEFINE mid == [boundary EXCEPT !.inForce = FALSE]
      <4>1. mid \in [number : Nat, inForce : BOOLEAN, revision : Nat, covers : SUBSET Incidents]
        BY <1>0
      <4>2. new = [mid EXCEPT !.revision = n]
        OBVIOUS
      <4> HIDE DEF mid, new
      <4> QED BY <3>2, <4>1, <4>2
    <3> HIDE DEF new
    <3> QED BY <1>0, <3>1, <3>3
  <2>5. host' \in [state : {"running", "stopping"}, boundary : Nat, paused : BOOLEAN]
    <3>1. host' = host \/ host' = [host EXCEPT !.boundary = 0]
      BY <1>7 DEF RetireRuns
    <3> QED BY <1>0, <3>1
  <2> QED BY <1>7, <1>a, <2>1, <2>2, <2>3, <2>4, <2>5 DEF RetireRuns, Typed
<1>8. CASE Finish(id)
  <2>1. operations' \in [of : [Ids -> Operation], finished : Seq(Ids)]
    <3> DEFINE state == IF calls[id].outcome = "unknown" THEN "unknown" ELSE "completed"
    <3> DEFINE op == [operations.of[id] EXCEPT !.state = state, !.result = calls[id].outcome]
    <3>1. operations' = operations \/
             operations' = [of |-> [operations.of EXCEPT ![id] = op],
                            finished |-> Append(operations.finished, id)]
      BY <1>8 DEF Finish
    <3>2. operations.of \in [Ids -> Operation] /\ operations.finished \in Seq(Ids)
          /\ operations \in [of : [Ids -> Operation], finished : Seq(Ids)]
      BY DEF Typed
    <3>3. op \in Operation
      <4> DEFINE result == calls[id].outcome
      <4>1. state \in {"none", "pending", "completed", "unknown"} /\ result \in Result
        BY <1>0 DEF Call
      <4> HIDE DEF state, result
      <4>2. [operations.of[id] EXCEPT !.state = state, !.result = result] \in Operation
        BY <3>2, <4>1 DEF Operation
      <4> QED BY <4>2 DEF result
    <3>4. Append(operations.finished, id) \in Seq(Ids)
      BY <3>2, AppendProperties
    <3> HIDE DEF op
    <3> QED BY <3>1, <3>2, <3>3, <3>4
  <2>2. history' \in History
    <3>1. calls[id].outcome \in Result
      BY <1>0 DEF Call
    <3> QED BY <1>0, <1>8, <3>1, HistoryTyped DEF Finish
  <2>3. calls' \in [Ids -> Call]
    <3>1. NoCall \in Call
      BY DEF NoCall, NoRequest, Call, Places, Request, Kinds, Subject, Result, Endings
    <3> QED BY <1>0, <1>8, <3>1 DEF Finish
  <2> QED BY <1>8, <1>a, <2>1, <2>2, <2>3 DEF Finish, recordVars, Typed
<1>9. CASE CallThrows(id)
  <2>1. chain' \in Seq(Ids \cup Incidents)
    BY <1>0, <1>9, <1>b DEF CallThrows
  <2>2. calls' \in [Ids -> Call]
    BY <1>0, <1>9, <1>d DEF CallThrows
  <2> QED BY <1>9, <1>a, <2>1, <2>2 DEF CallThrows, recordVars, Typed
<1> QED BY <1>1, <1>2, <1>3, <1>4, <1>5, <1>6, <1>7, <1>8, <1>9 DEF CallMoves

\* The steps of the source, its records and their dispositions.
LEMMA SourceTyped ==
    ASSUME Typed, NEW f \in Incidents,
           DispositionMoves(f) \/ RecordProcesses(f) \/ RecordFails(f)
    PROVE  Typed'
<1>0. /\ incidents \in [Incidents -> IncidentType]
      /\ circuit \in [open : BOOLEAN, revision : Nat]
      /\ boundary \in [number : Nat, inForce : BOOLEAN, revision : Nat, covers : SUBSET Incidents]
      /\ host \in [state : {"running", "stopping"}, boundary : Nat, paused : BOOLEAN]
      /\ chain \in Seq(Ids \cup Incidents)
      /\ {"held", "advance-pending", "uncertain", "advanced", "processed"} \subseteq
            Open \cup {"processed", "advanced"}
  BY DEF Typed, Open, Unsettled
<1>a. Turn(f) => Tail(chain) \in Seq(Ids \cup Incidents)
  BY <1>0, TailIsSeq DEF Turn
<1>b. ASSUME NEW progress \in Open \cup {"processed", "advanced"},
             NEW recovery \in {"none", "held", "denied", "guard-pending"}
      PROVE  Updated(f, progress, recovery) \in [Incidents -> IncidentType]
  BY <1>0, UpdatedGives
<1>c. [host EXCEPT !.paused = TRUE] \in
         [state : {"running", "stopping"}, boundary : Nat, paused : BOOLEAN]
  BY <1>0
<1>1. CASE DispositionStarts(f)
  <2>1. PICK decision \in {"hold", "trip", "guard"} :
          /\ incidents' = Updated(f, "held", IF decision = "guard" THEN "guard-pending" ELSE "held")
          /\ circuit' = IF decision = "trip" THEN [open |-> TRUE, revision |-> circuit.revision + 1]
                        ELSE circuit
          /\ chain' = IF decision = "guard" THEN chain ELSE Tail(chain)
    BY <1>1 DEF DispositionStarts
  <2>2. incidents' \in [Incidents -> IncidentType]
    BY <1>0, <1>b, <2>1
  <2>3. circuit' \in [open : BOOLEAN, revision : Nat]
    <3>1. [open |-> TRUE, revision |-> circuit.revision + 1] \in [open : BOOLEAN, revision : Nat]
      BY <1>0
    <3> QED BY <1>0, <2>1, <3>1
  <2>4. chain' \in Seq(Ids \cup Incidents)
    BY <1>0, <1>1, <1>a, <2>1 DEF DispositionStarts, Disposes
  <2> QED BY <1>1, <2>2, <2>3, <2>4 DEF DispositionStarts, serviceVars, Typed, Sound
<1>2. CASE DispositionGuarded(f)
  <2>1. CASE /\ incidents' = Updated(f, "held", "denied")
             /\ chain' = Tail(chain)
             /\ UNCHANGED <<boundary, host>>
    <3>1. incidents' \in [Incidents -> IncidentType] /\ chain' \in Seq(Ids \cup Incidents)
      BY <1>0, <1>2, <1>a, <1>b, <2>1 DEF DispositionGuarded, Disposes
    <3> QED BY <1>2, <2>1, <3>1 DEF DispositionGuarded, serviceVars, Typed, Sound
  <2>2. CASE /\ incidents' = Updated(f, "advance-pending", "none")
             /\ boundary' = [number |-> boundary.number + 1, inForce |-> TRUE, revision |-> 1,
                             covers |-> {f} \cup IF boundary.inForce THEN boundary.covers ELSE {}]
             /\ host' = [host EXCEPT !.boundary = boundary'.number]
             /\ UNCHANGED chain
    <3>1. incidents' \in [Incidents -> IncidentType]
      BY <1>0, <1>b, <2>2
    <3> DEFINE covers == {f} \cup IF boundary.inForce THEN boundary.covers ELSE {}
    <3>2. covers \subseteq Incidents /\ boundary.number + 1 \in Nat
      BY <1>0
    <3>3. boundary' = [number |-> boundary.number + 1, inForce |-> TRUE, revision |-> 1,
                       covers |-> covers]
      BY <2>2
    <3> HIDE DEF covers
    <3>4. boundary' \in [number : Nat, inForce : BOOLEAN, revision : Nat, covers : SUBSET Incidents]
      BY <3>2, <3>3
    <3>5. host' \in [state : {"running", "stopping"}, boundary : Nat, paused : BOOLEAN]
      BY <1>0, <2>2, <3>4
    <3> QED BY <1>2, <2>2, <3>1, <3>4, <3>5 DEF DispositionGuarded, serviceVars, Typed, Sound
  <2> QED BY <1>2, <2>1, <2>2 DEF DispositionGuarded
<1>3. CASE AdvanceEnds(f)
  <2>1. PICK confirmed \in BOOLEAN :
          /\ incidents' = Updated(f, IF confirmed THEN "advanced" ELSE "uncertain", "none")
          /\ host' = [host EXCEPT !.paused = ~confirmed]
    BY <1>3 DEF AdvanceEnds
  <2>2. incidents' \in [Incidents -> IncidentType]
    BY <1>0, <1>b, <2>1
  <2>3. host' \in [state : {"running", "stopping"}, boundary : Nat, paused : BOOLEAN]
    <3> DEFINE p == ~confirmed
    <3>1. p \in BOOLEAN
      OBVIOUS
    <3>2. host' = [host EXCEPT !.paused = p]
      BY <2>1
    <3> HIDE DEF p
    <3> QED BY <1>0, <3>1, <3>2
  <2>4. chain' \in Seq(Ids \cup Incidents)
    BY <1>3, <1>a DEF AdvanceEnds, Disposes
  <2> QED BY <1>3, <2>2, <2>3, <2>4 DEF AdvanceEnds, serviceVars, Typed, Sound
<1>4. CASE RecordProcesses(f)
  <2>1. incidents[f].recovery \in {"none", "held", "denied", "guard-pending"}
    BY <1>0 DEF IncidentType
  <2>2. incidents' \in [Incidents -> IncidentType]
    BY <1>0, <1>4, <1>b, <2>1 DEF RecordProcesses
  <2> QED BY <1>4, <2>2 DEF RecordProcesses, serviceVars, Typed, Sound
<1>5. CASE RecordFails(f)
  <2>1. incidents' = [g \in Incidents |->
           IF g # f /\ incidents[g].progress = "retrying"
           THEN Updated(g, "held", incidents[g].recovery)[g] ELSE incidents[g]]
    BY <1>5 DEF RecordFails
  <2>2. \A g \in Incidents : incidents[g].recovery \in {"none", "held", "denied", "guard-pending"}
    BY <1>0 DEF IncidentType
  <2>3. incidents' \in [Incidents -> IncidentType]
    BY <1>0, <2>1, <2>2, EachUpdated
  <2>4. chain' \in Seq(Ids \cup Incidents)
    BY <1>0, <1>5, AppendProperties DEF RecordFails
  <2> QED BY <1>5, <1>c, <2>3, <2>4 DEF RecordFails, serviceVars, Typed, Sound
<1> QED BY <1>1, <1>2, <1>3, <1>4, <1>5 DEF DispositionMoves

LEMMA EvaluationsTyped ==
    ASSUME Typed,
           \/ \E f \in Incidents : Evaluate(f)
           \/ \E e \in Evaluations : EvaluationEnds(e) \/ PlanExpires(e)
    PROVE  Typed'
<1>0. evaluations \in [Evaluations -> Evaluation] /\ plans \subseteq Evaluations
      /\ incidents \in [Incidents -> IncidentType]
  BY DEF Typed
<1>1. ASSUME NEW f \in Incidents, Evaluate(f) PROVE Typed'
  <2>1. PICK e \in Evaluations :
           evaluations' = [evaluations EXCEPT ![e] =
                 [phase |-> "running", on |-> f, revision |-> incidents[f].revision,
                  advanced |-> incidents[f].progress = "advanced"]]
    BY <1>1 DEF Evaluate
  <2> DEFINE advanced == incidents[f].progress = "advanced"
  <2>2. incidents[f].revision \in Nat /\ advanced \in BOOLEAN
    BY <1>0 DEF IncidentType
  <2>3. evaluations' = [evaluations EXCEPT ![e] =
                 [phase |-> "running", on |-> f, revision |-> incidents[f].revision,
                  advanced |-> advanced]]
    BY <2>1
  <2> HIDE DEF advanced
  <2>4. [phase |-> "running", on |-> f, revision |-> incidents[f].revision,
         advanced |-> advanced] \in Evaluation
    BY <2>2 DEF Evaluation, Subject
  <2>5. evaluations' \in [Evaluations -> Evaluation]
    BY <1>0, <2>3, <2>4
  <2> QED BY <1>1, <2>5 DEF Evaluate, recordVars, Typed, Sound
<1>2. ASSUME NEW e \in Evaluations, EvaluationEnds(e) PROVE Typed'
  <2>1. PICK issues \in BOOLEAN :
           /\ evaluations' = [evaluations EXCEPT ![e].phase = IF issues THEN "issued" ELSE "ended"]
           /\ plans' = IF issues THEN Issue(e) ELSE plans
    BY <1>2 DEF EvaluationEnds
  <2>2. evaluations' \in [Evaluations -> Evaluation]
    BY <1>0, <2>1 DEF Evaluation
  <2>3. plans' \subseteq Evaluations
    BY <1>0, <2>1 DEF Issue
  <2> QED BY <1>2, <2>2, <2>3 DEF EvaluationEnds, recordVars, Typed, Sound
<1>3. ASSUME NEW e \in Evaluations, PlanExpires(e) PROVE Typed'
  BY <1>0, <1>3 DEF PlanExpires, recordVars, Typed, Sound
<1> QED BY <1>1, <1>2, <1>3

\* What a restart makes of an incident.
LEMMA RestartUpdates ==
    ASSUME incidents \in [Incidents -> IncidentType], HostRestarts
    PROVE  incidents' \in [Incidents -> IncidentType]
<1>1. PICK advanced \in BOOLEAN :
         incidents' = [f \in Incidents |->
              CASE incidents[f].progress \in {"held", "retrying"} -> Updated(f, "retrying", "held")[f]
                [] incidents[f].progress \in Unsettled ->
                       Updated(f, IF advanced THEN "advanced" ELSE "uncertain", "none")[f]
                [] OTHER -> incidents[f]]
  BY DEF HostRestarts
<1> DEFINE progress == IF advanced THEN "advanced" ELSE "uncertain"
<1>2. /\ progress \in Open \cup {"processed", "advanced"}
      /\ "retrying" \in Open \cup {"processed", "advanced"}
      /\ {"none", "held"} \subseteq {"none", "held", "denied", "guard-pending"}
  BY DEF Open, Unsettled
<1>3. incidents' = [f \in Incidents |->
              CASE incidents[f].progress \in {"held", "retrying"} -> Updated(f, "retrying", "held")[f]
                [] incidents[f].progress \in Unsettled -> Updated(f, progress, "none")[f]
                [] OTHER -> incidents[f]]
  BY <1>1
<1> HIDE DEF progress
<1>4. ASSUME NEW f \in Incidents
      PROVE  \/ incidents'[f] = incidents[f]
             \/ incidents'[f] = Updated(f, "retrying", "held")[f]
             \/ incidents'[f] = Updated(f, progress, "none")[f]
  BY <1>3
<1>5. incidents' = [f \in Incidents |-> incidents'[f]]
  BY <1>3
<1> QED BY <1>2, <1>4, <1>5, EachUpdated

\* What a restart makes of the operations that were pending.
LEMMA RestartLists ==
    ASSUME operations \in [of : [Ids -> Operation], finished : Seq(Ids)], HostRestarts
    PROVE  \E order \in SetToSeqs({i \in Ids : operations.of[i].state = "pending"}) :
              /\ IsFiniteSet({i \in Ids : operations.of[i].state = "pending"})
              /\ operations' = [of |-> operations'.of, finished |-> operations.finished \o order]
              /\ order \in Seq(Ids)
              /\ operations'.of \in [Ids -> Operation]
              /\ \A i \in Ids : operations'.of[i] =
                    IF operations.of[i].state = "pending"
                    THEN [operations.of[i] EXCEPT !.state = "unknown"] ELSE operations.of[i]
<1> DEFINE P == {i \in Ids : operations.of[i].state = "pending"}
<1>1. IsFiniteSet(P)
  <2>1. IsFiniteSet(Ids)
    BY OperatorAssumption, FS_Union DEF Ids
  <2> QED BY <2>1, FS_Subset
<1>2. PICK order \in SetToSeqs(P) :
         operations' = [of |-> [i \in Ids |-> IF operations.of[i].state = "pending"
                                              THEN [operations.of[i] EXCEPT !.state = "unknown"]
                                              ELSE operations.of[i]],
                        finished |-> operations.finished \o order]
  BY DEF HostRestarts
<1>3. order \in Seq(P) /\ P \subseteq Ids
  BY <1>1, OrderLists
<1>4. order \in Seq(Ids)
  BY <1>3
<1>5. ASSUME NEW i \in Ids
      PROVE  operations.of[i] \in Operation
             /\ [operations.of[i] EXCEPT !.state = "unknown"] \in Operation
  BY DEF Operation
<1>6. operations'.of \in [Ids -> Operation]
  BY <1>2, <1>5
<1>7. \A i \in Ids : operations'.of[i] =
         IF operations.of[i].state = "pending"
         THEN [operations.of[i] EXCEPT !.state = "unknown"] ELSE operations.of[i]
  BY <1>2
<1>8. operations' = [of |-> operations'.of, finished |-> operations.finished \o order]
  BY <1>2
<1> QED BY <1>1, <1>4, <1>6, <1>7, <1>8

LEMMA HostTyped ==
    ASSUME Typed, StopBegins \/ HostRestarts
    PROVE  Typed'
<1>0. /\ operations \in [of : [Ids -> Operation], finished : Seq(Ids)]
      /\ incidents \in [Incidents -> IncidentType]
      /\ evaluations \in [Evaluations -> Evaluation]
      /\ boundary \in [number : Nat, inForce : BOOLEAN, revision : Nat, covers : SUBSET Incidents]
      /\ host \in [state : {"running", "stopping"}, boundary : Nat, paused : BOOLEAN]
      /\ errors \in 0..MaxErrors
  BY DEF Typed
<1>1. CASE StopBegins
  <2>1. host' \in [state : {"running", "stopping"}, boundary : Nat, paused : BOOLEAN]
    BY <1>0, <1>1 DEF StopBegins
  <2> QED BY <1>1, <2>1 DEF StopBegins, recordVars, serviceVars, Typed, Sound
<1>2. CASE HostRestarts
  <2>1. incidents' \in [Incidents -> IncidentType]
    BY <1>0, <1>2, RestartUpdates
  <2>2. operations' \in [of : [Ids -> Operation], finished : Seq(Ids)]
    <3>1. PICK order \in Seq(Ids) :
             /\ operations' = [of |-> operations'.of, finished |-> operations.finished \o order]
             /\ operations'.of \in [Ids -> Operation]
      BY <1>0, <1>2, RestartLists
    <3>2. operations.finished \o order \in Seq(Ids)
      BY <1>0, ConcatProperties
    <3> DEFINE of == operations'.of
    <3> DEFINE finished == operations.finished \o order
    <3>3. operations' = [of |-> of, finished |-> finished]
      BY <3>1
    <3>4. of \in [Ids -> Operation] /\ finished \in Seq(Ids)
      BY <3>1, <3>2
    <3> HIDE DEF of, finished
    <3> QED BY <3>3, <3>4
  <2>3. calls' \in [Ids -> Call]
    <3>1. NoCall \in Call
      BY DEF NoCall, NoRequest, Call, Places, Request, Kinds, Subject, Result, Endings
    <3> QED BY <1>2, <3>1 DEF HostRestarts
  <2>4. evaluations' \in [Evaluations -> Evaluation]
    <3>1. ASSUME NEW e \in Evaluations
          PROVE  evaluations[e] \in Evaluation
                 /\ [evaluations[e] EXCEPT !.phase = "ended"] \in Evaluation
      BY <1>0 DEF Evaluation
    <3>2. evaluations' = [e \in Evaluations |->
             IF e \in Started THEN [evaluations[e] EXCEPT !.phase = "ended"] ELSE evaluations[e]]
      BY <1>2 DEF HostRestarts
    <3> QED BY <3>1, <3>2
  <2>5. host' \in [state : {"running", "stopping"}, boundary : Nat, paused : BOOLEAN]
    <3> DEFINE p == \E f \in Incidents : incidents'[f].progress = "uncertain"
    <3> DEFINE n == IF boundary.inForce THEN boundary.number ELSE 0
    <3>1. host' = [state |-> "running", boundary |-> n, paused |-> p]
      BY <1>2 DEF HostRestarts
    <3>2. p \in BOOLEAN /\ n \in Nat
      BY <1>0
    <3> HIDE DEF p, n
    <3> QED BY <3>1, <3>2
  <2>6. errors' \in 0..MaxErrors
    BY <1>0, <1>2, FaultsCounted DEF HostRestarts
  <2>7. plans' = {} /\ chain' = <<>> /\ UNCHANGED <<circuit, boundary, history>>
    BY <1>2 DEF HostRestarts
  <2>8. chain' \in Seq(Ids \cup Incidents)
    BY <2>7, EmptySeq
  <2> QED BY <2>1, <2>2, <2>3, <2>4, <2>5, <2>6, <2>7, <2>8 DEF Typed
<1> QED BY <1>1, <1>2

\* The steps of whoever calls the service.
LEMMA RequestsKeepTypes ==
    ASSUME Typed, Listed, NEW id \in Ids,
           RedriveClaims(id) \/ Replay(id) \/ ReplayRefused(id) \/ Queue(id)
    PROVE  Typed'
<1>0. plans \subseteq Evaluations /\ chain \in Seq(Ids \cup Incidents) /\ history \in History
      /\ operations.of \in [Ids -> Operation]
  BY DEF Typed
<1>1. CASE RedriveClaims(id)
  <2>1. PICK request \in RedriveRequests :
           IF PlanClaimable(request)
           THEN /\ MutationBegins(id, request, "evidence", "none")
                /\ plans' = {p \in plans : evaluations[p].on # request.on}
           ELSE MutationBegins(id, request, "acted", "refused") /\ UNCHANGED plans
    BY <1>1 DEF RedriveClaims
  <2>2. request \in Request
    BY RequestsTyped
  <2>3. /\ operations' \in [of : [Ids -> Operation], finished : Seq(Ids)]
        /\ calls' \in [Ids -> Call] /\ history' \in History
    BY <2>1, <2>2, BeginsTyped
  <2>4. plans' \subseteq Evaluations
    BY <1>0, <2>1
  <2> QED BY <1>1, <2>3, <2>4 DEF RedriveClaims, recordVars, Typed, Sound
<1>2. CASE Replay(id)
  <2> DEFINE answer == IF operations.of[id].result = "none" THEN "unknown" ELSE operations.of[id].result
  <2>1. answer \in Result
    BY <1>0 DEF Operation, Result, Endings
  <2>2. history' = [history EXCEPT !.told[id] = @ \cup {answer}]
    BY <1>2 DEF Replay, Recorded
  <2> HIDE DEF answer
  <2>3. history' \in History
    BY <1>0, <2>1, <2>2, HistoryTyped
  <2> QED BY <1>2, <2>3 DEF Replay, recordVars, Typed, Sound
<1>3. CASE Queue(id)
  <2>1. PICK request \in SourceRequests : MutationBegins(id, request, "queued", "none")
    BY <1>3 DEF Queue
  <2>2. request \in Request
    BY RequestsTyped
  <2>3. /\ operations' \in [of : [Ids -> Operation], finished : Seq(Ids)]
        /\ calls' \in [Ids -> Call] /\ history' \in History
    BY <2>1, <2>2, BeginsTyped
  <2>4. chain' \in Seq(Ids \cup Incidents)
    BY <1>0, <1>3, AppendProperties DEF Queue
  <2> QED BY <1>3, <2>3, <2>4 DEF Queue, recordVars, Typed, Sound
<1>4. CASE ReplayRefused(id)
  BY <1>4 DEF ReplayRefused, recordVars, Typed
<1> QED BY <1>1, <1>2, <1>3, <1>4

LEMMA TypedStep ==
    ASSUME Typed, ChainInv, Listed, [OperatorNext]_operatorVars
    PROVE  Typed'
<1>1. UNCHANGED operatorVars => Typed'
  BY DEF operatorVars, Typed
<1>2. Redrives \subseteq Ids /\ Others \subseteq Ids
  BY DEF Ids
<1> QED BY <1>1, <1>2, CallTyped, SourceTyped, EvaluationsTyped, HostTyped, RequestsKeepTypes
        DEF OperatorNext

-----------------------------------------------------------------------------
(* What an operation answers agrees with what it did.                      *)

\* A call takes a step: it answers nothing yet, and says "refused" only if it did nothing.
LEMMA CallAgrees ==
    ASSUME Typed, AnswersInv, UNCHANGED operations, NEW id \in Ids, calls[id].pc # "none",
           \A i \in Ids \ {id} : calls'[i] = calls[i] /\ history'.acted[i] = history.acted[i],
           history'.told = history.told,
           calls'[id].pc # "none",
           history'.acted[id] \in {0, 1}, UNCHANGED former,
           calls'[id].pc \in Fresh => history'.acted[id] = 0,
           calls'[id].pc = "settling" => history'.acted[id] = 1,
           calls'[id].pc = "acted" => /\ calls'[id].outcome \in Endings
                                      /\ Fits(calls'[id].outcome, history'.acted[id])
    PROVE  AnswersInv'
<1>1. operations.of[id].state = "pending" /\ operations.of[id].result = "none"
      /\ history.told[id] = {}
  BY DEF AnswersInv, Agrees
<1>2. Agrees(operations.of[id], calls'[id], history'.told[id], history'.acted[id])
  <2>1. \E o \in Result : history.told[id] \subseteq {"unknown", o}
    BY DEF AnswersInv, Agrees
  <2> QED BY <1>1, <2>1 DEF Agrees, Fits
<1>3. ASSUME NEW i \in Ids \ {id}
      PROVE  Agrees(operations.of[i], calls'[i], history'.told[i], history'.acted[i])
  <2>1. /\ calls'[i] = calls[i] /\ history'.acted[i] = history.acted[i]
        /\ history'.told[i] = history.told[i]
    OBVIOUS
  <2>2. Agrees(operations.of[i], calls[i], history.told[i], history.acted[i])
    BY DEF AnswersInv
  <2> QED BY <2>1, <2>2
<1>4. Listed' /\ FormerAgree'
  BY DEF AnswersInv, Listed, FormerAgree, Judged
<1> QED BY <1>2, <1>3, <1>4 DEF AnswersInv

LEMMA CallAnswers ==
    ASSUME Typed, AnswersInv, NEW id \in Ids,
           RedriveReads(id) \/ RedriveEnds(id) \/ RetryChecks(id) \/ RetryResumes(id)
             \/ RetrySettles(id) \/ ReopenRuns(id) \/ RetireRuns(id) \/ CallThrows(id)
    PROVE  AnswersInv'
<1>0. /\ calls \in [Ids -> Call] /\ history \in History
      /\ {"refused", "completed", "failed", "unknown"} \subseteq Result
      /\ {"refused", "completed", "failed", "unknown"} \subseteq Endings
  BY DEF Typed, Result, Endings
<1>1. /\ calls[id].pc \in Fresh => history.acted[id] = 0
      /\ calls[id].pc = "settling" => history.acted[id] = 1
      /\ history.acted[id] \in {0, 1}
  BY DEF AnswersInv, Agrees
<1>2. UNCHANGED <<operations, former>>
  BY DEF RedriveReads, RedriveEnds, RetryChecks, RetryResumes, RetrySettles, ReopenRuns, RetireRuns,
         CallThrows
<1>a. ASSUME NEW outcome \in {"refused", "completed", "failed", "unknown"}, Acts(id, outcome)
      PROVE  /\ \A i \in Ids \ {id} : calls'[i] = calls[i]
             /\ calls'[id].pc = "acted" /\ calls'[id].outcome = outcome
  BY <1>0, <1>a, ActsGives
<1>b. ASSUME \/ history' = [history EXCEPT !.acted[id] = @ + 1]
             \/ \E e : history' = [history EXCEPT !.acted[id] = @ + 1, !.spent[e] = @ + 1]
      PROVE  /\ history'.told = history.told
             /\ history'.acted[id] = history.acted[id] + 1
             /\ \A i \in Ids : i # id => history'.acted[i] = history.acted[i]
  BY <1>0, <1>b DEF History
<1>c. ASSUME UNCHANGED history, NEW outcome \in {"refused", "failed", "unknown"}, Acts(id, outcome),
             calls[id].pc \in Fresh
      PROVE  AnswersInv'
  BY <1>0, <1>1, <1>2, <1>a, <1>c, CallAgrees DEF Fresh, Fits
<1>d. ASSUME Acts(id, "completed"), calls[id].pc \in Fresh,
             \/ history' = [history EXCEPT !.acted[id] = @ + 1]
             \/ \E e : history' = [history EXCEPT !.acted[id] = @ + 1, !.spent[e] = @ + 1]
      PROVE  AnswersInv'
  <2>1. history.acted[id] = 0
    BY <1>d DEF AnswersInv, Agrees
  <2>2. /\ history'.told = history.told
        /\ history'.acted[id] = 1
        /\ \A i \in Ids : i # id => history'.acted[i] = history.acted[i]
    <3>1. /\ history'.told = history.told
          /\ history'.acted[id] = history.acted[id] + 1
          /\ \A i \in Ids : i # id => history'.acted[i] = history.acted[i]
      BY <1>b, <1>d
    <3> QED BY <2>1, <3>1
  <2>3. /\ \A i \in Ids \ {id} : calls'[i] = calls[i]
        /\ calls'[id].pc = "acted" /\ calls'[id].outcome = "completed"
    BY <1>a, <1>d
  <2>4. calls[id].pc # "none" /\ calls'[id].pc # "none"
        /\ calls'[id].pc \notin Fresh /\ calls'[id].pc # "settling"
    BY <1>d, <2>3 DEF Fresh
  <2>5. "completed" \in Endings /\ Fits("completed", 1)
    BY <1>0 DEF Fits
  <2> QED BY <1>0, <1>1, <1>2, <2>2, <2>3, <2>4, <2>5, CallAgrees
<1>e. ASSUME UNCHANGED history, NEW outcome \in {"completed", "unknown"}, Acts(id, outcome),
             calls[id].pc = "settling"
      PROVE  AnswersInv'
  BY <1>0, <1>1, <1>2, <1>a, <1>e, CallAgrees DEF Fresh, Fits
<1>3. CASE RedriveReads(id)
  <2>1. PICK good \in BOOLEAN :
           calls' = [calls EXCEPT ![id] = [@ EXCEPT
                  !.pc = IF good THEN "redriving" ELSE "acted",
                  !.outcome = IF good THEN "none" ELSE "refused"]]
    BY <1>3 DEF RedriveReads
  <2> DEFINE call == [calls[id] EXCEPT !.pc = IF good THEN "redriving" ELSE "acted",
                                       !.outcome = IF good THEN "none" ELSE "refused"]
  <2>2. calls' = [calls EXCEPT ![id] = call]
    BY <2>1
  <2>3. call.pc = "redriving" \/ (call.pc = "acted" /\ call.outcome = "refused")
    BY <1>0 DEF Call
  <2> HIDE DEF call
  <2>4. calls[id].pc = "evidence" /\ UNCHANGED history
    BY <1>3 DEF RedriveReads
  <2>5. /\ \A i \in Ids \ {id} : calls'[i] = calls[i]
        /\ calls'[id] = call
    BY <1>0, <2>2
  <2> QED BY <1>0, <1>1, <1>2, <2>3, <2>4, <2>5, CallAgrees DEF Fresh, Fits
<1>4. CASE RedriveEnds(id)
  <2>1. PICK outcome \in {"failed", "refused", "completed"} :
          /\ calls' = [calls EXCEPT ![id] = [@ EXCEPT !.pc = "acted", !.outcome = outcome]]
          /\ history' = IF outcome # "completed" THEN history
                        ELSE [history EXCEPT !.acted[id] = @ + 1,
                                             !.spent[calls[id].request.number] = @ + 1]
    BY <1>4 DEF RedriveEnds
  <2>2. Acts(id, outcome) /\ calls[id].pc = "redriving"
    BY <1>4, <2>1 DEF Acts, RedriveEnds
  <2>3. CASE outcome \in {"refused", "failed"}
    BY <1>c, <2>1, <2>2, <2>3 DEF Fresh
  <2>4. CASE outcome = "completed"
    BY <1>d, <2>1, <2>2, <2>4 DEF Fresh
  <2> QED BY <2>3, <2>4
<1>5. CASE RetryChecks(id)
  <2>1. calls[id].pc = "queued" /\ UNCHANGED history
    BY <1>5 DEF RetryChecks, Queued
  <2>2. CASE Acts(id, "refused")
    BY <1>c, <2>1, <2>2 DEF Fresh
  <2>3. CASE calls' = [calls EXCEPT ![id].pc = "resuming"]
    <3>1. calls'[id].pc = "resuming" /\ \A i \in Ids \ {id} : calls'[i] = calls[i]
      BY <1>0, <2>3 DEF Call
    <3> QED BY <1>1, <1>2, <2>1, <3>1, CallAgrees DEF Fresh
  <2> QED BY <1>5, <2>2, <2>3 DEF RetryChecks
<1>6. CASE RetryResumes(id)
  <2>1. calls[id].pc = "resuming"
    BY <1>6 DEF RetryResumes
  <2>2. CASE Acts(id, "refused") /\ UNCHANGED history
    BY <1>c, <2>1, <2>2 DEF Fresh
  <2>3. CASE /\ history' = [history EXCEPT !.acted[id] = @ + 1]
             /\ calls' = [calls EXCEPT ![id] = [@ EXCEPT !.pc = "settling",
                                                         !.waits = ToSet(Tail(chain))]]
    <3> DEFINE call == [calls[id] EXCEPT !.pc = "settling", !.waits = ToSet(Tail(chain))]
    <3>1. call.pc = "settling"
      BY <1>0 DEF Call
    <3>2. calls' = [calls EXCEPT ![id] = call]
      BY <2>3
    <3> HIDE DEF call
    <3>3. calls'[id].pc = "settling" /\ \A i \in Ids \ {id} : calls'[i] = calls[i]
      BY <1>0, <3>1, <3>2
    <3> QED BY <1>1, <1>2, <1>b, <2>1, <2>3, <3>3, CallAgrees DEF Fresh
  <2> QED BY <1>6, <2>2, <2>3 DEF RetryResumes
<1>7. CASE RetrySettles(id)
  BY <1>7, <1>e DEF RetrySettles
<1>8. CASE ReopenRuns(id) \/ RetireRuns(id)
  <2>1. calls[id].pc = "queued"
    BY <1>8 DEF ReopenRuns, RetireRuns, Queued
  <2>2. \/ Acts(id, "refused") /\ UNCHANGED history
        \/ Acts(id, "completed") /\ history' = [history EXCEPT !.acted[id] = @ + 1]
    BY <1>8 DEF ReopenRuns, RetireRuns
  <2> QED BY <1>c, <1>d, <2>1, <2>2 DEF Fresh
<1>9. CASE CallThrows(id)
  BY <1>9, <1>c, <1>e DEF CallThrows, Fresh
<1> QED BY <1>3, <1>4, <1>5, <1>6, <1>7, <1>8, <1>9

\* An operation begins: the oldest finished one makes room, and nothing else is touched.
LEMMA BeginsAnswers ==
    ASSUME Typed, AnswersInv, NEW id \in Ids, NEW request,
           NEW pc \in {"queued", "evidence", "acted"}, NEW outcome \in {"none", "refused"},
           MutationBegins(id, request, pc, outcome), pc = "acted" => outcome = "refused"
    PROVE  AnswersInv'
<1> DEFINE F == operations.finished
<1> DEFINE full == Cardinality(Stored) >= MaxOperations
<1> DEFINE out == IF full THEN {Head(F)} ELSE {}
<1> DEFINE op == [NoOperation EXCEPT !.state = "pending", !.request = request]
<1> DEFINE call == [NoCall EXCEPT !.pc = pc, !.request = request, !.outcome = outcome]
<1>0. /\ calls \in [Ids -> Call] /\ history \in History /\ F \in Seq(Ids)
      /\ operations.of \in [Ids -> Operation]
      /\ Listed /\ HasRoom /\ operations.of[id].state = "none"
  BY DEF Typed, AnswersInv, MutationBegins
<1>1. op.state = "pending" /\ op.result = "none"
  BY DEF NoOperation
<1>2. call.pc = pc /\ call.outcome = outcome
  BY DEF NoCall
<1>3. /\ operations'.of = [i \in Ids |-> IF i = id THEN op ELSE IF i \in out THEN NoOperation
                                         ELSE operations.of[i]]
      /\ operations'.finished = IF full THEN Tail(F) ELSE F
  BY DEF MutationBegins, Begun
<1>4. /\ calls'[id] = call /\ \A i \in Ids \ {id} : calls'[i] = calls[i]
  <2>1. calls' = [calls EXCEPT ![id] = call]
    BY DEF MutationBegins
  <2> HIDE DEF call
  <2> QED BY <1>0, <2>1
<1>5. /\ history'.acted[id] = 0 /\ history'.told[id] = {}
      /\ \A i \in Ids \ {id} : history'.acted[i] = history.acted[i] /\ history'.told[i] = history.told[i]
  <2>1. history' = [history EXCEPT !.acted[id] = 0, !.told[id] = {}]
    BY DEF MutationBegins
  <2> QED BY <1>0, <2>1 DEF History
<1>6. /\ Len(F) \in Nat /\ \A i \in 1..Len(F) : F[i] \in Ids
  BY <1>0, LenProperties, ElementOfSeq
<1>7. full => /\ F # <<>> /\ Len(F) > 0 /\ Head(F) = F[1]
              /\ Len(Tail(F)) = Len(F) - 1
              /\ \A i \in 1..Len(F) - 1 : Tail(F)[i] = F[i + 1]
  <2>1. full => F # <<>>
    BY <1>0, RoomIsMade
  <2>2. F # <<>> => Len(F) > 0
    BY <1>0, EmptySeq
  <2>3. F # <<>> => /\ Len(Tail(F)) = Len(F) - 1
                    /\ \A i \in 1..Len(F) - 1 : Tail(F)[i] = F[i + 1]
    BY <1>0
  <2> QED BY <2>1, <2>2, <2>3
<1>8. \A i \in out : i \in Ids /\ operations.of[i].state \in {"completed", "unknown"}
  BY <1>0, <1>6, <1>7 DEF Listed
<1> HIDE DEF op, call
<1>9. ASSUME NEW i \in Ids
      PROVE  Agrees(operations'.of[i], calls'[i], history'.told[i], history'.acted[i])
  <2>1. CASE i = id
    <3>1. operations'.of[i] = op
      BY <1>3, <2>1
    <3>2. "none" \in Result
      BY DEF Result
    <3> QED BY <1>1, <1>2, <1>4, <1>5, <2>1, <3>1, <3>2 DEF Agrees, Endings, Fits, Fresh
  <2>2. CASE i # id /\ i \in out
    <3>1. operations'.of[i].state = "none" /\ operations'.of[i].result = "none"
      BY <1>3, <2>2 DEF NoOperation
    <3>2. Agrees(operations.of[i], calls[i], history.told[i], history.acted[i])
          /\ operations.of[i].state \in {"completed", "unknown"}
      BY <1>8, <2>2 DEF AnswersInv
    <3>3. calls[i].pc = "none"
      BY <3>2 DEF Agrees
    <3> QED BY <1>4, <1>5, <2>2, <3>1, <3>2, <3>3 DEF Agrees, Fresh, Fits
  <2>3. CASE i # id /\ i \notin out
    <3>1. operations'.of[i] = operations.of[i] /\ calls'[i] = calls[i]
          /\ history'.acted[i] = history.acted[i] /\ history'.told[i] = history.told[i]
      BY <1>3, <1>4, <1>5, <2>3
    <3>2. Agrees(operations.of[i], calls[i], history.told[i], history.acted[i])
      BY DEF AnswersInv
    <3> QED BY <3>1, <3>2
  <2> QED BY <2>1, <2>2, <2>3
<1>10. Listed'
  <2>1. CASE ~full
    <3>1. operations'.finished = F
      BY <1>3, <2>1
    <3>2. ASSUME NEW i \in Ids
          PROVE  operations'.of[i].state \in {"completed", "unknown"} <=>
                 operations.of[i].state \in {"completed", "unknown"}
      BY <1>0, <1>1, <1>3, <2>1
    <3> QED BY <1>0, <3>1, <3>2 DEF Listed
  <2>2. CASE full
    <3>1. /\ operations'.finished = Tail(F) /\ Len(operations'.finished) = Len(F) - 1
          /\ \A i \in 1..Len(F) - 1 : operations'.finished[i] = F[i + 1]
      BY <1>3, <1>7, <2>2
    <3>2. ASSUME NEW i \in Ids
          PROVE  operations'.of[i].state \in {"completed", "unknown"} <=>
                 operations.of[i].state \in {"completed", "unknown"} /\ i # Head(F)
      BY <1>0, <1>1, <1>3, <1>7, <1>8, <2>2 DEF NoOperation
    <3>3. ASSUME NEW i \in Ids
          PROVE  (\E k \in 1..Len(F) - 1 : F[k + 1] = i) <=> (\E k \in 1..Len(F) : F[k] = i) /\ i # Head(F)
      <4>1. ASSUME NEW k \in 1..Len(F) - 1, F[k + 1] = i PROVE k + 1 \in 1..Len(F) /\ i # Head(F)
        BY <1>0, <1>6, <1>7, <2>2, <4>1 DEF Listed
      <4>2. ASSUME NEW k \in 1..Len(F), F[k] = i, i # Head(F)
            PROVE  k - 1 \in 1..Len(F) - 1 /\ F[(k - 1) + 1] = i
        BY <1>6, <1>7, <2>2, <4>2
      <4> QED BY <4>1, <4>2
    <3>4. \A i \in Ids : operations'.of[i].state \in {"completed", "unknown"} <=>
             \E k \in 1..Len(operations'.finished) : operations'.finished[k] = i
      BY <1>0, <3>1, <3>2, <3>3 DEF Listed
    <3>5. ASSUME NEW i \in 1..Len(operations'.finished), NEW j \in 1..Len(operations'.finished),
                 operations'.finished[i] = operations'.finished[j]
          PROVE  i = j
      <4>1. i + 1 \in 1..Len(F) /\ j + 1 \in 1..Len(F) /\ F[i + 1] = F[j + 1]
        BY <1>6, <3>1, <3>5
      <4> QED BY <1>0, <4>1 DEF Listed
    <3> QED BY <3>4, <3>5 DEF Listed
  <2> QED BY <2>1, <2>2
<1>11. FormerAgree'
  <2>1. Agrees(operations.of[id], calls[id], history.told[id], history.acted[id])
    BY DEF AnswersInv
  <2> DEFINE o == [acted |-> history.acted[id], told |-> history.told[id]]
  <2>2. Judged(o)
    BY <2>1 DEF Agrees, Judged
  <2>3. former' = former \cup {o}
    BY DEF MutationBegins
  <2> HIDE DEF o
  <2>4. \A p \in former : Judged(p)
    BY DEF AnswersInv, FormerAgree
  <2> QED BY <2>2, <2>3, <2>4 DEF FormerAgree, Judged
<1> QED BY <1>9, <1>10, <1>11 DEF AnswersInv

\* The call answers, and its result is recorded, or could not be.
LEMMA FinishAnswers ==
    ASSUME Typed, AnswersInv, NEW id \in Ids, Finish(id)
    PROVE  AnswersInv'
<1> DEFINE F == operations.finished
<1> DEFINE outcome == calls[id].outcome
<1> DEFINE state == IF outcome = "unknown" THEN "unknown" ELSE "completed"
<1> DEFINE op == [operations.of[id] EXCEPT !.state = state, !.result = outcome]
<1>0. /\ calls \in [Ids -> Call] /\ history \in History /\ F \in Seq(Ids)
      /\ operations.of \in [Ids -> Operation] /\ Listed
  BY DEF Typed, AnswersInv
<1>1. /\ operations.of[id].state = "pending" /\ operations.of[id].result = "none"
      /\ history.told[id] = {} /\ outcome \in Endings
      /\ Fits(outcome, history.acted[id]) /\ history.acted[id] \in {0, 1}
  BY DEF Finish, AnswersInv, Agrees
<1>2. op.state = state /\ op.result = outcome
  BY <1>0 DEF Operation
<1>3. calls'[id].pc = "none" /\ \A i \in Ids \ {id} : calls'[i] = calls[i]
  BY <1>0 DEF Finish, NoCall
<1>4. /\ history'.acted = history.acted /\ history'.told[id] = {outcome}
      /\ \A i \in Ids \ {id} : history'.told[i] = history.told[i]
  <2>1. history' = [history EXCEPT !.told[id] = @ \cup {outcome}]
    BY DEF Finish
  <2> HIDE DEF outcome
  <2> QED BY <1>0, <1>1, <2>1 DEF History
<1>5. \/ operations' = operations
      \/ operations' = [of |-> [operations.of EXCEPT ![id] = op], finished |-> Append(F, id)]
  BY DEF Finish
<1>6. outcome \in Result /\ "unknown" \in Result
  BY <1>1 DEF Result, Endings
<1> HIDE DEF op
<1>7. Agrees(operations'.of[id], calls'[id], history'.told[id], history'.acted[id])
  <2>1. CASE operations' = operations
    BY <1>1, <1>3, <1>4, <1>6, <2>1 DEF Agrees, Fresh, Fits
  <2>2. CASE operations' = [of |-> [operations.of EXCEPT ![id] = op], finished |-> Append(F, id)]
    <3>1. operations'.of[id] = op
      BY <1>0, <2>2
    <3>2. CASE outcome = "unknown"
      BY <1>1, <1>2, <1>3, <1>4, <1>6, <3>1, <3>2 DEF Agrees, Fresh, Fits
    <3>3. CASE outcome # "unknown"
      BY <1>1, <1>2, <1>3, <1>4, <1>6, <3>1, <3>3 DEF Agrees, Fresh, Endings
    <3> QED BY <3>2, <3>3
  <2> QED BY <1>5, <2>1, <2>2
<1>8. ASSUME NEW i \in Ids \ {id}
      PROVE  Agrees(operations'.of[i], calls'[i], history'.told[i], history'.acted[i])
  <2>1. operations'.of[i] = operations.of[i]
    BY <1>0, <1>5
  <2>2. Agrees(operations.of[i], calls[i], history.told[i], history.acted[i])
    BY DEF AnswersInv
  <2> QED BY <1>3, <1>4, <2>1, <2>2
<1>9. Listed'
  <2>1. CASE operations' = operations
    BY <1>0, <2>1 DEF Listed
  <2>2. CASE operations' = [of |-> [operations.of EXCEPT ![id] = op], finished |-> Append(F, id)]
    <3>1. /\ Len(F) \in Nat /\ operations'.finished = Append(F, id)
          /\ Len(operations'.finished) = Len(F) + 1
          /\ \A k \in 1..Len(F) : operations'.finished[k] = F[k]
          /\ operations'.finished[Len(F) + 1] = id
      BY <1>0, <2>2, AppendProperties, LenProperties
    <3>2. \A k \in 1..Len(F) : F[k] # id
      BY <1>0, <1>1 DEF Listed
    <3>3. ASSUME NEW i \in Ids
          PROVE  operations'.of[i].state \in {"completed", "unknown"} <=>
                 operations.of[i].state \in {"completed", "unknown"} \/ i = id
      <4>1. CASE i = id
        <5>1. operations'.of[i] = op
          BY <1>0, <2>2, <4>1
        <5> QED BY <1>2, <4>1, <5>1
      <4>2. CASE i # id
        BY <1>0, <2>2, <4>2
      <4> QED BY <4>1, <4>2
    <3>4. ASSUME NEW i \in Ids
          PROVE  (\E k \in 1..Len(F) + 1 : operations'.finished[k] = i) <=>
                 (\E k \in 1..Len(F) : F[k] = i) \/ i = id
      <4>1. \A k \in 1..Len(F) + 1 : k \in 1..Len(F) \/ k = Len(F) + 1
        BY <3>1
      <4>2. \A k \in 1..Len(F) : k \in 1..Len(F) + 1
        BY <3>1
      <4>3. Len(F) + 1 \in 1..Len(F) + 1
        BY <3>1
      <4> QED BY <3>1, <4>1, <4>2, <4>3
    <3>5. \A i \in Ids : operations'.of[i].state \in {"completed", "unknown"} <=>
             \E k \in 1..Len(operations'.finished) : operations'.finished[k] = i
      BY <1>0, <3>1, <3>3, <3>4 DEF Listed
    <3>6. ASSUME NEW i \in 1..Len(operations'.finished), NEW j \in 1..Len(operations'.finished),
                 operations'.finished[i] = operations'.finished[j]
          PROVE  i = j
      <4>1. (i \in 1..Len(F) \/ i = Len(F) + 1) /\ (j \in 1..Len(F) \/ j = Len(F) + 1)
        BY <3>1
      <4> QED BY <1>0, <3>1, <3>2, <3>6, <4>1 DEF Listed
    <3> QED BY <3>5, <3>6 DEF Listed
  <2> QED BY <1>5, <2>1, <2>2
<1>10. FormerAgree'
  BY DEF Finish, AnswersInv, FormerAgree, Judged
<1> QED BY <1>7, <1>8, <1>9, <1>10 DEF AnswersInv

\* The caller is answered again, from the journal.
LEMMA ReplayAnswers ==
    ASSUME Typed, AnswersInv, NEW id \in Ids, Replay(id)
    PROVE  AnswersInv'
<1> DEFINE op == operations.of[id]
<1> DEFINE answer == IF op.result = "none" THEN "unknown" ELSE op.result
<1>0. history \in History
  BY DEF Typed
<1>1. UNCHANGED <<operations, calls>> /\ op.state \in {"completed", "unknown"}
  BY DEF Replay
<1>2. Agrees(op, calls[id], history.told[id], history.acted[id])
  BY DEF AnswersInv
<1>3. /\ history'.acted = history.acted /\ history'.told[id] = history.told[id] \cup {answer}
      /\ \A i \in Ids \ {id} : history'.told[i] = history.told[i]
  <2>1. history' = [history EXCEPT !.told[id] = @ \cup {answer}]
    BY DEF Replay, Recorded
  <2> HIDE DEF answer
  <2> QED BY <1>0, <2>1 DEF History
<1>4. Agrees(op, calls[id], history'.told[id], history'.acted[id])
  <2>1. calls[id].pc = "none"
    BY <1>1, <1>2 DEF Agrees
  <2>2. CASE op.state = "completed"
    <3>1. answer = op.result /\ op.result \in {"completed", "refused", "failed"}
      BY <1>2, <2>2 DEF Agrees
    <3>2. history'.told[id] \subseteq {op.result}
      BY <1>2, <1>3, <2>2, <3>1 DEF Agrees
    <3>3. op.result \in Result
      BY <3>1 DEF Result, Endings
    <3> HIDE DEF op
    <3> QED BY <1>2, <1>3, <2>1, <2>2, <3>1, <3>2, <3>3 DEF Agrees, Fresh
  <2>3. CASE op.state = "unknown"
    <3>1. answer = "unknown" /\ op.result \in {"none", "unknown"}
      BY <1>2, <2>3 DEF Agrees
    <3>2. \A o : history.told[id] \subseteq {"unknown", o} => history'.told[id] \subseteq {"unknown", o}
      BY <1>3, <3>1
    <3> HIDE DEF op
    <3> QED BY <1>2, <1>3, <2>1, <2>3, <3>1, <3>2 DEF Agrees, Fresh, Fits
  <2> QED BY <1>1, <2>2, <2>3
<1>5. ASSUME NEW i \in Ids \ {id}
      PROVE  Agrees(operations'.of[i], calls'[i], history'.told[i], history'.acted[i])
  <2>1. Agrees(operations.of[i], calls[i], history.told[i], history.acted[i])
    BY DEF AnswersInv
  <2> QED BY <1>1, <1>3, <2>1
<1>6. Listed' /\ FormerAgree'
  BY <1>1 DEF AnswersInv, Listed, Replay, FormerAgree, Judged
<1> QED BY <1>1, <1>4, <1>5, <1>6 DEF AnswersInv

\* A restart: no call goes on, and what was pending has an unknown result.
LEMMA RestartAnswers ==
    ASSUME Typed, AnswersInv, HostRestarts
    PROVE  AnswersInv'
<1> DEFINE F == operations.finished
<1> DEFINE P == {i \in Ids : operations.of[i].state = "pending"}
<1>0. operations \in [of : [Ids -> Operation], finished : Seq(Ids)] /\ F \in Seq(Ids) /\ Listed
      /\ operations.of \in [Ids -> Operation]
  BY DEF Typed, AnswersInv
<1>1. PICK order \in SetToSeqs(P) :
         /\ IsFiniteSet(P)
         /\ operations' = [of |-> operations'.of, finished |-> F \o order]
         /\ order \in Seq(Ids)
         /\ \A i \in Ids : operations'.of[i] =
               IF operations.of[i].state = "pending"
               THEN [operations.of[i] EXCEPT !.state = "unknown"] ELSE operations.of[i]
  BY <1>0, RestartLists
<1>2. (\A i \in Ids : calls'[i].pc = "none") /\ UNCHANGED history
  BY DEF HostRestarts, NoCall
<1>3. ASSUME NEW i \in Ids
      PROVE  /\ operations'.of[i].result = operations.of[i].result
             /\ operations'.of[i].state = IF operations.of[i].state = "pending" THEN "unknown"
                                          ELSE operations.of[i].state
  BY <1>0, <1>1 DEF Operation
<1>4. ASSUME NEW i \in Ids
      PROVE  Agrees(operations'.of[i], calls'[i], history'.told[i], history'.acted[i])
  <2>1. Agrees(operations.of[i], calls[i], history.told[i], history.acted[i])
    BY DEF AnswersInv
  <2> QED BY <1>2, <1>3, <2>1 DEF Agrees, Fresh
<1>5. Listed'
  <2> DEFINE n == Len(F)
  <2> DEFINE m == Len(order)
  <2> DEFINE G == operations'.finished
  <2>1. /\ n \in Nat /\ m \in Nat /\ G = F \o order /\ Len(G) = n + m
        /\ \A k \in 1..n : G[k] = F[k]
        /\ \A k \in 1..m : G[n + k] = order[k]
    <3>1. G = F \o order
      BY <1>1
    <3>2. n \in Nat /\ m \in Nat
      BY <1>0, <1>1, LenProperties
    <3>3. Len(F \o order) = n + m
          /\ \A k \in 1..n + m : (F \o order)[k] = IF k <= n THEN F[k] ELSE order[k - n]
      BY <1>0, <1>1, ConcatProperties
    <3>4. \A k \in 1..n : (F \o order)[k] = F[k]
      BY <3>2, <3>3
    <3>5. ASSUME NEW k \in 1..m PROVE (F \o order)[n + k] = order[k]
      <4>1. n + k \in 1..n + m /\ ~(n + k <= n) /\ (n + k) - n = k
        BY <3>2
      <4> QED BY <3>3, <4>1
    <3> QED BY <3>1, <3>2, <3>3, <3>4, <3>5
  <2>2. /\ \A i, j \in 1..m : order[i] = order[j] => i = j
        /\ \A i \in P : \E k \in 1..m : order[k] = i
        /\ \A k \in 1..m : order[k] \in P
    <3>1. order \in Seq(P)
      BY <1>1, OrderLists
    <3>2. \A k \in 1..m : order[k] \in P
      BY <3>1, ElementOfSeq
    <3>3. order \in SetToSeqs(P) /\ IsFiniteSet(P)
      BY <1>1
    <3>4. /\ \A i, j \in 1..m : order[i] = order[j] => i = j
          /\ \A i \in P : \E k \in 1..m : order[k] = i
      <4> HIDE DEF P
      <4> QED BY <3>3, OrderLists, Zenon
    <3> QED BY <3>2, <3>4
  <2>3. \A k \in 1..n : F[k] \in Ids /\ operations.of[F[k]].state \in {"completed", "unknown"}
    BY <1>0, ElementOfSeq DEF Listed
  <2> HIDE DEF n, m, G
  <2>4. ASSUME NEW k \in 1..n + m PROVE k \in 1..n \/ \E l \in 1..m : k = n + l
    <3>1. k \in 1..n \/ (k - n \in 1..m /\ k = n + (k - n))
      BY <2>1
    <3> QED BY <3>1
  <2>5. /\ \A k \in 1..n : k \in 1..n + m
        /\ \A l \in 1..m : n + l \in 1..n + m
    BY <2>1
  <2>6. ASSUME NEW i \in Ids
        PROVE  operations'.of[i].state \in {"completed", "unknown"} <=> \E k \in 1..n + m : G[k] = i
    <3>1. operations'.of[i].state \in {"completed", "unknown"} <=>
             operations.of[i].state \in {"completed", "unknown"} \/ i \in P
      BY <1>3
    <3>2. operations.of[i].state \in {"completed", "unknown"} <=> \E k \in 1..n : F[k] = i
      BY <1>0 DEF Listed, n
    <3>3. i \in P <=> \E l \in 1..m : order[l] = i
      BY <2>2
    <3>4. (\E k \in 1..n + m : G[k] = i) <=>
             (\E k \in 1..n : F[k] = i) \/ \E l \in 1..m : order[l] = i
      <4>1. ASSUME NEW k \in 1..n + m, G[k] = i
            PROVE  (\E l \in 1..n : F[l] = i) \/ \E l \in 1..m : order[l] = i
        BY <2>1, <2>4, <4>1
      <4>2. ASSUME NEW k \in 1..n, F[k] = i PROVE \E l \in 1..n + m : G[l] = i
        BY <2>1, <2>5, <4>2
      <4>3. ASSUME NEW l \in 1..m, order[l] = i PROVE \E k \in 1..n + m : G[k] = i
        BY <2>1, <2>5, <4>3
      <4> QED BY <4>1, <4>2, <4>3
    <3> QED BY <3>1, <3>2, <3>3, <3>4
  <2>7. ASSUME NEW i \in 1..n + m, NEW j \in 1..n + m, G[i] = G[j]
        PROVE  i = j
    <3>1. CASE i \in 1..n /\ j \in 1..n
      BY <1>0, <2>1, <2>7, <3>1 DEF Listed, n
    <3>2. ASSUME NEW k \in 1..n, NEW l \in 1..m PROVE G[k] # G[n + l]
      <4>1. operations.of[F[k]].state # "pending" /\ operations.of[order[l]].state = "pending"
        BY <2>2, <2>3
      <4> QED BY <2>1, <4>1
    <3>3. ASSUME NEW k \in 1..m, NEW l \in 1..m, i = n + k, j = n + l
          PROVE  i = j
      <4>1. G[n + k] = order[k] /\ G[n + l] = order[l]
        BY <2>1
      <4>2. order[k] = order[l]
        BY <2>7, <3>3, <4>1
      <4>3. k = l
        BY <2>2, <4>2
      <4> QED BY <3>3, <4>3
    <3>4. CASE i \in 1..n /\ j \notin 1..n
      <4>1. PICK l \in 1..m : j = n + l
        BY <2>4, <3>4
      <4> QED BY <2>7, <3>2, <3>4, <4>1
    <3>5. CASE i \notin 1..n /\ j \in 1..n
      <4>1. PICK l \in 1..m : i = n + l
        BY <2>4, <3>5
      <4> QED BY <2>7, <3>2, <3>5, <4>1
    <3>6. CASE i \notin 1..n /\ j \notin 1..n
      <4>1. PICK k \in 1..m : i = n + k
        BY <2>4, <3>6
      <4>2. PICK l \in 1..m : j = n + l
        BY <2>4, <3>6
      <4> QED BY <3>3, <4>1, <4>2
    <3> QED BY <3>1, <3>4, <3>5, <3>6
  <2> QED BY <2>1, <2>6, <2>7 DEF Listed, G
<1>6. FormerAgree'
  BY DEF HostRestarts, AnswersInv, FormerAgree, Judged
<1> QED BY <1>4, <1>5, <1>6 DEF AnswersInv

LEMMA AnswersStep ==
    ASSUME Typed, AnswersInv, [OperatorNext]_operatorVars
    PROVE  AnswersInv'
<1>1. ASSUME UNCHANGED <<operations, calls, history, former>> PROVE AnswersInv'
  BY <1>1 DEF AnswersInv, Listed, FormerAgree, Judged
<1>2. ASSUME NEW id \in Ids, CallMoves(id) \/ CallThrows(id) PROVE AnswersInv'
  BY <1>2, CallAnswers, FinishAnswers DEF CallMoves
<1>3. ASSUME NEW id \in Ids, RedriveClaims(id) \/ Queue(id) PROVE AnswersInv'
  <2>1. \E request : \/ MutationBegins(id, request, "evidence", "none")
                     \/ MutationBegins(id, request, "acted", "refused")
                     \/ MutationBegins(id, request, "queued", "none")
    BY <1>3 DEF RedriveClaims, Queue
  <2> QED BY <2>1, BeginsAnswers
<1>4. ASSUME NEW f \in Incidents,
             DispositionMoves(f) \/ Evaluate(f) \/ RecordProcesses(f) \/ RecordFails(f)
      PROVE  UNCHANGED <<operations, calls, history, former>>
  BY <1>4 DEF DispositionMoves, DispositionStarts, DispositionGuarded, AdvanceEnds, Evaluate,
     RecordProcesses, RecordFails, serviceVars
<1>5. ASSUME NEW e \in Evaluations, EvaluationEnds(e) \/ PlanExpires(e)
      PROVE  UNCHANGED <<operations, calls, history, former>>
  BY <1>5 DEF EvaluationEnds, PlanExpires
<1>6. StopBegins \/ UNCHANGED operatorVars => UNCHANGED <<operations, calls, history, former>>
  BY DEF StopBegins, serviceVars, operatorVars
<1>7. ASSUME NEW id \in Redrives, ReplayRefused(id)
      PROVE  UNCHANGED <<operations, calls, history, former>>
  BY <1>7 DEF ReplayRefused
<1>8. Redrives \subseteq Ids /\ Others \subseteq Ids
  BY DEF Ids
<1> QED BY <1>1, <1>2, <1>3, <1>4, <1>5, <1>6, <1>7, <1>8, ReplayAnswers, RestartAnswers DEF OperatorNext

LEMMA AnswersGive ==
    ASSUME AnswersInv
    PROVE  AnswersAgree
<1>1. ASSUME NEW o, Judged(o)
      PROVE  /\ o.acted <= 1
             /\ "completed" \in o.told => o.acted = 1
             /\ o.told \cap {"refused", "failed"} # {} => o.acted = 0
             /\ Cardinality(o.told \ {"unknown"}) <= 1
  <2>1. PICK a \in Result : o.told \subseteq {"unknown", a}
    BY <1>1 DEF Judged
  <2>2. o.told \ {"unknown"} \subseteq {a}
    BY <2>1
  <2>3. IsFiniteSet({a}) /\ Cardinality({a}) = 1
    BY FS_Singleton
  <2>4. Cardinality(o.told \ {"unknown"}) <= 1
    BY <2>2, <2>3, FS_Subset
  <2>5. o.acted <= 1
    BY <1>1 DEF Judged
  <2>6. \A answer \in o.told : Fits(answer, o.acted)
    BY <1>1 DEF Judged
  <2> QED BY <2>4, <2>5, <2>6 DEF Fits
<1>2. ASSUME NEW id \in Ids
      PROVE  Judged([acted |-> history.acted[id], told |-> history.told[id]])
  <2>1. Agrees(operations.of[id], calls[id], history.told[id], history.acted[id])
    BY DEF AnswersInv
  <2> QED BY <2>1 DEF Agrees, Judged
<1>3. \A o \in Operations : Judged(o)
  BY <1>2 DEF Operations, AnswersInv, FormerAgree
<1> QED BY <1>1, <1>3 DEF AnswersAgree

-----------------------------------------------------------------------------
(* A plan approves one redrive.                                            *)

\* Nobody claims, nothing is admitted, and no plan comes free again.
LEMMA PlansKept ==
    ASSUME PlansInv, history'.spent = history.spent,
           \A e \in Evaluations : Free(e)' => Free(e),
           \A id \in Ids : calls'[id].pc \in {"evidence", "redriving"} =>
              /\ calls[id].pc \in {"evidence", "redriving"}
              /\ calls'[id].request = calls[id].request
    PROVE  PlansInv'
<1>1. \A id \in Ids : \A e \in Evaluations : Claims(calls'[id], e) => Claims(calls[id], e)
  BY DEF Claims
<1>2. \A e \in Evaluations : Free(e)' => history'.spent[e] = 0 /\ \A id \in Ids : ~Claims(calls'[id], e)
  BY <1>1 DEF PlansInv
<1>3. \A id \in Ids : calls'[id].pc \in {"evidence", "redriving"} =>
         calls'[id].request.number \in Evaluations /\ history'.spent[calls'[id].request.number] = 0
  BY DEF PlansInv
<1>4. \A i, j \in Ids : \A e \in Evaluations : Claims(calls'[i], e) /\ Claims(calls'[j], e) => i = j
  BY <1>1 DEF PlansInv
<1>5. PlanUsedOnce'
  BY DEF PlansInv, PlanUsedOnce
<1> QED BY <1>2, <1>3, <1>4, <1>5 DEF PlansInv

LEMMA ClaimTakesThePlan ==
    ASSUME Typed, PlansInv, NEW id \in Ids, RedriveClaims(id)
    PROVE  PlansInv'
<1>0. calls \in [Ids -> Call] /\ history \in History /\ evaluations \in [Evaluations -> Evaluation]
      /\ plans \subseteq Evaluations
  BY DEF Typed
<1>1. PICK request \in RedriveRequests :
         IF PlanClaimable(request)
         THEN /\ MutationBegins(id, request, "evidence", "none")
              /\ plans' = {p \in plans : evaluations[p].on # request.on}
         ELSE MutationBegins(id, request, "acted", "refused") /\ UNCHANGED plans
  BY DEF RedriveClaims
<1>2. PICK pc \in {"evidence", "acted"}, outcome \in {"none", "refused"} :
         MutationBegins(id, request, pc, outcome) /\ (pc = "evidence" => PlanClaimable(request))
         /\ (pc = "evidence" => plans' = {p \in plans : evaluations[p].on # request.on})
  BY <1>1
<1> DEFINE call == [NoCall EXCEPT !.pc = pc, !.request = request, !.outcome = outcome]
<1>3. call.pc = pc /\ call.request = request
  BY DEF NoCall
<1>4. calls'[id] = call /\ \A i \in Ids \ {id} : calls'[i] = calls[i]
  <2>1. calls' = [calls EXCEPT ![id] = call]
    BY <1>2 DEF MutationBegins
  <2> HIDE DEF call
  <2> QED BY <1>0, <2>1
<1>5. history'.spent = history.spent
  BY <1>0, <1>2 DEF MutationBegins, History
<1>6. UNCHANGED evaluations /\ plans' \subseteq plans
  BY <1>1 DEF RedriveClaims
<1>7. \A e \in Evaluations : Free(e)' => Free(e)
  BY <1>6 DEF Free
<1> HIDE DEF call
<1>8. CASE pc = "acted"
  <2>1. \A i \in Ids : calls'[i].pc \in {"evidence", "redriving"} => calls'[i] = calls[i]
    BY <1>3, <1>4, <1>8
  <2> QED BY <1>5, <1>7, <2>1, PlansKept
<1>9. CASE pc = "evidence"
  <2> DEFINE e == request.number
  <2>1. /\ e \in plans /\ e \in Evaluations /\ evaluations[e].on = request.on
        /\ evaluations[e].phase = "issued"
    BY <1>0, <1>2, <1>9 DEF PlanClaimable, RedriveRequests
  <2>2. history.spent[e] = 0 /\ \A i \in Ids : ~Claims(calls[i], e)
    BY <2>1 DEF PlansInv, Free
  <2>3. ~Free(e)'
    BY <1>2, <1>6, <1>9, <2>1 DEF Free
  <2>4. Claims(calls'[id], e) /\ \A g \in Evaluations \ {e} : ~Claims(calls'[id], g)
    BY <1>3, <1>4, <1>9 DEF Claims
  <2>5. ASSUME NEW g \in Evaluations, Free(g)'
        PROVE  history'.spent[g] = 0 /\ \A i \in Ids : ~Claims(calls'[i], g)
    BY <1>4, <1>5, <1>7, <2>3, <2>4, <2>5 DEF PlansInv
  <2>6. ASSUME NEW i \in Ids, calls'[i].pc \in {"evidence", "redriving"}
        PROVE  calls'[i].request.number \in Evaluations
               /\ history'.spent[calls'[i].request.number] = 0
    <3>1. CASE i = id
      BY <1>3, <1>4, <1>5, <2>1, <2>2, <3>1
    <3>2. CASE i # id
      BY <1>4, <1>5, <2>6, <3>2 DEF PlansInv
    <3> QED BY <3>1, <3>2
  <2>7. ASSUME NEW i \in Ids, NEW j \in Ids, NEW g \in Evaluations,
               Claims(calls'[i], g), Claims(calls'[j], g)
        PROVE  i = j
    <3>1. CASE g = e
      BY <1>4, <2>2, <2>7, <3>1
    <3>2. CASE g # e
      BY <1>4, <2>4, <2>7, <3>2 DEF PlansInv
    <3> QED BY <3>1, <3>2
  <2>8. PlanUsedOnce'
    BY <1>5 DEF PlansInv, PlanUsedOnce
  <2> QED BY <2>5, <2>6, <2>7, <2>8 DEF PlansInv
<1> QED BY <1>8, <1>9

LEMMA RedriveSpendsThePlan ==
    ASSUME Typed, PlansInv, NEW id \in Ids, RedriveEnds(id)
    PROVE  PlansInv'
<1> DEFINE e == calls[id].request.number
<1>0. calls \in [Ids -> Call] /\ history \in History /\ calls[id].pc = "redriving"
      /\ {"failed", "refused", "completed"} \subseteq Result
  BY DEF Typed, RedriveEnds, Result, Endings
<1>1. e \in Evaluations /\ history.spent[e] = 0 /\ Claims(calls[id], e)
  BY <1>0 DEF PlansInv, Claims
<1>2. PICK outcome \in {"failed", "refused", "completed"} :
          /\ Acts(id, outcome)
          /\ history' = IF outcome # "completed" THEN history
                        ELSE [history EXCEPT !.acted[id] = @ + 1, !.spent[e] = @ + 1]
  BY DEF RedriveEnds, Acts
<1>3. calls'[id].pc = "acted" /\ \A i \in Ids \ {id} : calls'[i] = calls[i]
  BY <1>0, <1>2, ActsGives
<1>4. UNCHANGED <<plans, evaluations>>
  BY DEF RedriveEnds
<1>5. /\ history'.spent[e] \in {0, 1}
      /\ \A g \in Evaluations \ {e} : history'.spent[g] = history.spent[g]
  <2>1. CASE outcome # "completed"
    BY <1>1, <1>2, <2>1
  <2>2. CASE outcome = "completed"
    <3> DEFINE mid == [history EXCEPT !.acted[id] = @ + 1]
    <3>1. mid.spent = history.spent /\ mid \in History
      BY <1>0 DEF History
    <3>2. history' = [mid EXCEPT !.spent[e] = @ + 1]
      BY <1>2, <2>2
    <3> HIDE DEF mid, e
    <3> QED BY <1>1, <3>1, <3>2 DEF History
  <2> QED BY <2>1, <2>2
<1>6. \A i \in Ids : \A g \in Evaluations : Claims(calls'[i], g) => Claims(calls[i], g) /\ i # id
  BY <1>3 DEF Claims
<1>7. \A i \in Ids \ {id} : ~Claims(calls[i], e)
  BY <1>1 DEF PlansInv
<1>8. \A g \in Evaluations : Free(g)' => Free(g) /\ g # e
  BY <1>1, <1>4 DEF Free, PlansInv
<1> HIDE DEF e
<1>9. ASSUME NEW g \in Evaluations, Free(g)'
      PROVE  history'.spent[g] = 0 /\ \A i \in Ids : ~Claims(calls'[i], g)
  BY <1>5, <1>6, <1>8, <1>9 DEF PlansInv
<1>10. ASSUME NEW i \in Ids, calls'[i].pc \in {"evidence", "redriving"}
       PROVE  calls'[i].request.number \in Evaluations
              /\ history'.spent[calls'[i].request.number] = 0
  <2>1. i # id /\ calls'[i] = calls[i]
    BY <1>3, <1>10
  <2>2. calls[i].request.number \in Evaluations /\ history.spent[calls[i].request.number] = 0
    BY <1>10, <2>1 DEF PlansInv
  <2>3. calls[i].request.number # e
    BY <1>7, <1>10, <2>1 DEF Claims
  <2> QED BY <1>5, <2>1, <2>2, <2>3
<1>11. ASSUME NEW i \in Ids, NEW j \in Ids, NEW g \in Evaluations,
              Claims(calls'[i], g), Claims(calls'[j], g)
       PROVE  i = j
  BY <1>6, <1>11 DEF PlansInv
<1>12. ASSUME NEW g \in Evaluations PROVE history'.spent[g] <= 1
  <2>1. history.spent[g] <= 1
    BY DEF PlansInv, PlanUsedOnce
  <2> QED BY <1>5, <2>1
<1> QED BY <1>9, <1>10, <1>11, <1>12 DEF PlansInv, PlanUsedOnce

LEMMA PlansStep ==
    ASSUME Typed, PlansInv, [OperatorNext]_operatorVars
    PROVE  PlansInv'
<1>0. /\ calls \in [Ids -> Call] /\ history \in History /\ plans \subseteq Evaluations
      /\ evaluations \in [Evaluations -> Evaluation]
      /\ {"refused", "completed", "failed", "unknown"} \subseteq Result
  BY DEF Typed, Result, Endings
<1>a. UNCHANGED <<plans, evaluations>> => \A e \in Evaluations : Free(e)' => Free(e)
  BY DEF Free
<1>b. ASSUME UNCHANGED <<plans, evaluations>>, history'.spent = history.spent,
             NEW id \in Ids, NEW call,
             calls' = [calls EXCEPT ![id] = call],
             \/ call.pc \notin {"evidence", "redriving"}
             \/ call.request = calls[id].request /\ calls[id].pc = "evidence"
      PROVE  PlansInv'
  <2>1. calls'[id] = call /\ \A i \in Ids \ {id} : calls'[i] = calls[i]
    BY <1>0, <1>b
  <2> QED BY <1>a, <1>b, <2>1, PlansKept
<1>c. ASSUME UNCHANGED <<plans, evaluations>>, history'.spent = history.spent,
             NEW id \in Ids, NEW outcome \in {"refused", "completed", "failed", "unknown"},
             Acts(id, outcome)
      PROVE  PlansInv'
  <2>1. calls'[id].pc = "acted" /\ \A i \in Ids \ {id} : calls'[i] = calls[i]
    BY <1>0, <1>c, ActsGives
  <2> QED BY <1>a, <1>c, <2>1, PlansKept
<1>d. ASSUME NEW id \in Ids,
             \/ UNCHANGED history \/ history' = [history EXCEPT !.acted[id] = @ + 1]
             \/ \E answers : history' = [history EXCEPT !.told[id] = answers]
      PROVE  history'.spent = history.spent
  BY <1>0, <1>d DEF History
<1>1. ASSUME NEW id \in Ids, RedriveReads(id) PROVE PlansInv'
  <2>1. PICK good \in BOOLEAN :
           calls' = [calls EXCEPT ![id] = [@ EXCEPT
                  !.pc = IF good THEN "redriving" ELSE "acted",
                  !.outcome = IF good THEN "none" ELSE "refused"]]
    BY <1>1 DEF RedriveReads
  <2> DEFINE call == [calls[id] EXCEPT !.pc = IF good THEN "redriving" ELSE "acted",
                                       !.outcome = IF good THEN "none" ELSE "refused"]
  <2>2. calls' = [calls EXCEPT ![id] = call]
    BY <2>1
  <2>3. call.request = calls[id].request
    BY <1>0 DEF Call
  <2> HIDE DEF call
  <2> QED BY <1>1, <1>b, <2>2, <2>3 DEF RedriveReads
<1>2. ASSUME NEW id \in Ids, RetryChecks(id) PROVE PlansInv'
  <2>1. UNCHANGED <<plans, evaluations, history>>
    BY <1>2 DEF RetryChecks
  <2>2. CASE Acts(id, "refused")
    BY <1>c, <2>1, <2>2
  <2>3. CASE calls' = [calls EXCEPT ![id].pc = "resuming"]
    <3> DEFINE call == [calls[id] EXCEPT !.pc = "resuming"]
    <3>1. calls' = [calls EXCEPT ![id] = call]
      BY <2>3
    <3>2. call.pc = "resuming"
      BY <1>0 DEF Call
    <3> HIDE DEF call
    <3> QED BY <1>b, <2>1, <3>1, <3>2
  <2> QED BY <1>2, <2>2, <2>3 DEF RetryChecks
<1>3. ASSUME NEW id \in Ids, RetryResumes(id) PROVE PlansInv'
  <2>1. UNCHANGED <<plans, evaluations>> /\ history'.spent = history.spent
    BY <1>3, <1>d DEF RetryResumes
  <2>2. CASE Acts(id, "refused")
    BY <1>c, <2>1, <2>2
  <2>3. CASE calls' = [calls EXCEPT ![id] = [@ EXCEPT !.pc = "settling",
                                                      !.waits = ToSet(Tail(chain))]]
    <3> DEFINE call == [calls[id] EXCEPT !.pc = "settling", !.waits = ToSet(Tail(chain))]
    <3>1. calls' = [calls EXCEPT ![id] = call]
      BY <2>3
    <3>2. call.pc = "settling"
      BY <1>0 DEF Call
    <3> HIDE DEF call
    <3> QED BY <1>b, <2>1, <3>1, <3>2
  <2> QED BY <1>3, <2>2, <2>3 DEF RetryResumes
<1>4. ASSUME NEW id \in Ids, RetrySettles(id) \/ ReopenRuns(id) \/ RetireRuns(id) \/ CallThrows(id)
      PROVE  PlansInv'
  <2>1. UNCHANGED <<plans, evaluations>> /\ history'.spent = history.spent
    BY <1>4, <1>d DEF RetrySettles, ReopenRuns, RetireRuns, CallThrows
  <2>2. Acts(id, "completed") \/ Acts(id, "refused") \/ Acts(id, "unknown")
    BY <1>4 DEF RetrySettles, ReopenRuns, RetireRuns, CallThrows
  <2> QED BY <1>c, <2>1, <2>2
<1>5. ASSUME NEW id \in Ids, Finish(id) PROVE PlansInv'
  <2>1. UNCHANGED <<plans, evaluations>> /\ history'.spent = history.spent
    BY <1>5, <1>d DEF Finish
  <2>2. calls' = [calls EXCEPT ![id] = NoCall] /\ NoCall.pc = "none"
    BY <1>5 DEF Finish, NoCall
  <2> QED BY <1>b, <2>1, <2>2
<1>6. ASSUME NEW id \in Ids, Queue(id) PROVE PlansInv'
  <2>1. PICK request : MutationBegins(id, request, "queued", "none")
    BY <1>6 DEF Queue
  <2> DEFINE call == [NoCall EXCEPT !.pc = "queued", !.request = request, !.outcome = "none"]
  <2>2. calls' = [calls EXCEPT ![id] = call]
    BY <2>1 DEF MutationBegins
  <2>3. call.pc = "queued"
    BY DEF NoCall
  <2> HIDE DEF call
  <2>4. history'.spent = history.spent
    BY <1>0, <2>1 DEF MutationBegins, History
  <2>5. UNCHANGED <<plans, evaluations>>
    BY <1>6 DEF Queue
  <2> QED BY <1>b, <2>2, <2>3, <2>4, <2>5
<1>7. ASSUME NEW id \in Redrives, Replay(id) PROVE PlansInv'
  <2>1. UNCHANGED <<plans, evaluations, calls>>
    BY <1>7 DEF Replay
  <2>2. history'.spent = history.spent
    BY <1>0, <1>7 DEF Replay, History
  <2> QED BY <1>a, <2>1, <2>2, PlansKept
<1>16. ASSUME NEW id \in Redrives, ReplayRefused(id) PROVE PlansInv'
  <2>1. UNCHANGED <<calls, plans, evaluations, history>>
    BY <1>16 DEF ReplayRefused
  <2> QED BY <1>a, <2>1, PlansKept
<1>8. ASSUME NEW f \in Incidents, DispositionMoves(f) \/ RecordProcesses(f) \/ RecordFails(f)
      PROVE  PlansInv'
  <2>1. UNCHANGED <<calls, plans, evaluations, history>>
    BY <1>8 DEF DispositionMoves, DispositionStarts, DispositionGuarded, AdvanceEnds, RecordProcesses,
       RecordFails, serviceVars
  <2> QED BY <1>a, <2>1, PlansKept
<1>9. ASSUME NEW f \in Incidents, Evaluate(f) PROVE PlansInv'
  <2>1. PICK e \in Evaluations \ Started :
           \E x : evaluations' = [evaluations EXCEPT ![e] = x]
    BY <1>9 DEF Evaluate
  <2>2. evaluations[e].phase = "none"
    BY <2>1 DEF Started
  <2>3. UNCHANGED <<calls, plans, history>>
    BY <1>9 DEF Evaluate
  <2>4. ASSUME NEW g \in Evaluations, Free(g)' PROVE Free(g)
    BY <1>0, <2>1, <2>2, <2>3, <2>4 DEF Free
  <2> QED BY <2>3, <2>4, PlansKept
<1>10. ASSUME NEW e \in Evaluations, EvaluationEnds(e) PROVE PlansInv'
  <2>1. PICK phase \in {"issued", "ended"} :
           evaluations' = [evaluations EXCEPT ![e].phase = phase]
    BY <1>10 DEF EvaluationEnds
  <2>2. plans' \subseteq plans \cup {e} /\ evaluations[e].phase = "running"
    BY <1>10 DEF EvaluationEnds, Issue
  <2>3. UNCHANGED <<calls, history>>
    BY <1>10 DEF EvaluationEnds
  <2>4. ASSUME NEW g \in Evaluations, Free(g)' PROVE Free(g)
    BY <1>0, <2>1, <2>2, <2>4 DEF Free, Evaluation
  <2> QED BY <2>3, <2>4, PlansKept
<1>11. ASSUME NEW e \in Evaluations, PlanExpires(e) PROVE PlansInv'
  <2>1. \A g \in Evaluations : Free(g)' => Free(g)
    BY <1>11 DEF PlanExpires, Free
  <2> QED BY <1>11, <2>1, PlansKept DEF PlanExpires
<1>12. ASSUME HostRestarts PROVE PlansInv'
  <2>1. \A id \in Ids : calls'[id].pc = "none"
    BY <1>12 DEF HostRestarts, NoCall
  <2>2. plans' = {} /\ UNCHANGED history
    BY <1>12 DEF HostRestarts
  <2>3. ASSUME NEW e \in Evaluations, Free(e)' PROVE Free(e)
    <3>1. evaluations' = [g \in Evaluations |->
             IF g \in Started THEN [evaluations[g] EXCEPT !.phase = "ended"] ELSE evaluations[g]]
      BY <1>12 DEF HostRestarts
    <3>2. evaluations'[e].phase \in {"none", "running"}
      BY <2>2, <2>3 DEF Free
    <3>3. evaluations'[e] = evaluations[e]
      BY <1>0, <3>1, <3>2 DEF Evaluation
    <3> QED BY <3>2, <3>3 DEF Free
  <2> QED BY <2>1, <2>2, <2>3, PlansKept
<1>13. StopBegins => PlansInv'
  <2>1. StopBegins => UNCHANGED <<calls, plans, evaluations, history>>
    BY DEF StopBegins, serviceVars
  <2> QED BY <1>a, <2>1, PlansKept
<1>14. UNCHANGED operatorVars => PlansInv'
  <2>1. UNCHANGED operatorVars => UNCHANGED <<calls, plans, evaluations, history>>
    BY DEF operatorVars
  <2> QED BY <1>a, <2>1, PlansKept
<1>15. Redrives \subseteq Ids /\ Others \subseteq Ids
  BY DEF Ids
<1> QED BY <1>1, <1>2, <1>3, <1>4, <1>5, <1>6, <1>7, <1>8, <1>9, <1>10, <1>11, <1>12, <1>13, <1>14,
           <1>15, <1>16, ClaimTakesThePlan, RedriveSpendsThePlan
        DEF OperatorNext, CallMoves

-----------------------------------------------------------------------------
(* The theorems.                                                           *)

LEMMA OperatorStarts ==
    ASSUME OperatorInit
    PROVE  OperatorInv
<1>1. PICK held \in {{}} \cup {{f} : f \in Incidents} :
         /\ incidents = [f \in Incidents |->
                [progress |-> IF f \in held THEN "held" ELSE "advanced", revision |-> 1,
                 recovery |-> IF f \in held THEN "held" ELSE "none"]]
         /\ boundary = [number |-> 1, inForce |-> TRUE, revision |-> 1, covers |-> Incidents \ held]
         /\ host = [state |-> "running", boundary |-> 1, paused |-> held # {}]
  BY DEF OperatorInit
<1>2. /\ circuit \in [open : BOOLEAN, revision : {1}]
      /\ operations = [of |-> [i \in Ids |-> NoOperation], finished |-> <<>>]
      /\ calls = [i \in Ids |-> NoCall]
      /\ plans = {} /\ chain = <<>> /\ errors = 0
      /\ evaluations = [e \in Evaluations |->
             [phase |-> "none", on |-> NoRequest.on, revision |-> 0, advanced |-> FALSE]]
      /\ history = [acted |-> [i \in Ids |-> 0], told |-> [i \in Ids |-> {}],
                    spent |-> [e \in Evaluations |-> 0]]
      /\ former = {}
  BY DEF OperatorInit
<1>3. NoRequest \in Request /\ NoOperation \in Operation /\ NoCall \in Call
  BY DEF NoRequest, NoOperation, NoCall, Request, Operation, Call, Places, Kinds, Subject, Result
<1>4. Typed
  <2>1. incidents \in [Incidents -> IncidentType]
    BY <1>1 DEF IncidentType, Open
  <2>2. boundary \in [number : Nat, inForce : BOOLEAN, revision : Nat, covers : SUBSET Incidents]
    BY <1>1
  <2>3. host \in [state : {"running", "stopping"}, boundary : Nat, paused : BOOLEAN]
    <3> DEFINE p == held # {}
    <3>1. host = [state |-> "running", boundary |-> 1, paused |-> p] /\ p \in BOOLEAN
      BY <1>1
    <3> HIDE DEF p
    <3> QED BY <3>1
  <2>4. /\ operations \in [of : [Ids -> Operation], finished : Seq(Ids)]
        /\ calls \in [Ids -> Call]
    BY <1>2, <1>3, EmptySeq
  <2>5. evaluations \in [Evaluations -> Evaluation]
    BY <1>2 DEF Evaluation, Subject
  <2>6. history \in History
    BY <1>2 DEF History
  <2>7. circuit \in [open : BOOLEAN, revision : Nat] /\ chain \in Seq(Ids \cup Incidents)
        /\ plans \subseteq Evaluations /\ errors \in 0..MaxErrors
    BY <1>2, OperatorAssumption, EmptySeq
  <2> QED BY <2>1, <2>2, <2>3, <2>4, <2>5, <2>6, <2>7 DEF Typed
<1>5. ChainInv
  <2>1. \A f \in Incidents : ~Asking(f) /\ ~Advancing(f)
    BY <1>1 DEF Asking, Advancing
  <2>2. \A id \in Ids : calls[id].pc = "none"
    BY <1>2 DEF NoCall
  <2> QED BY <2>1, <2>2 DEF ChainInv, NeverRetriesUnderAdvance
<1>6. AnswersInv
  <2>1. ASSUME NEW id \in Ids
        PROVE  Agrees(operations.of[id], calls[id], history.told[id], history.acted[id])
    <3>1. /\ operations.of[id].state = "none" /\ operations.of[id].result = "none"
          /\ calls[id].pc = "none" /\ history.told[id] = {} /\ history.acted[id] = 0
      BY <1>2 DEF NoOperation, NoCall
    <3>2. "none" \in Result
      BY DEF Result
    <3> QED BY <3>1, <3>2 DEF Agrees, Fresh, Fits
  <2>2. Listed
    <3>1. operations.finished = <<>> /\ \A id \in Ids : operations.of[id].state = "none"
      BY <1>2 DEF NoOperation
    <3>2. Len(operations.finished) = 0
      BY <3>1
    <3> QED BY <3>1, <3>2 DEF Listed
  <2> QED BY <1>2, <2>1, <2>2 DEF AnswersInv, FormerAgree
<1>7. PlansInv
  <2>1. \A id \in Ids : calls[id].pc = "none"
    BY <1>2 DEF NoCall
  <2>2. \A e \in Evaluations : history.spent[e] = 0
    BY <1>2
  <2> QED BY <2>1, <2>2 DEF PlansInv, PlanUsedOnce, Claims
<1> QED BY <1>4, <1>5, <1>6, <1>7 DEF OperatorInv

\* The invariant of the proofs, whatever the operations, the plans and the number of restarts.
LEMMA OperatorKeeps == OperatorSpec => []OperatorInv
<1>1. OperatorInit => OperatorInv
  BY OperatorStarts
<1>2. OperatorInv /\ [OperatorNext]_operatorVars => OperatorInv'
  BY TypedStep, ChainStep, AnswersStep, PlansStep DEF OperatorInv, AnswersInv
<1> QED BY <1>1, <1>2, PTL DEF OperatorSpec

\* Answers (service.ts #mutate, replay): across retries, unrecorded results and restarts, an
\* operation acts at most once, it is given one answer or "unknown", and "completed" means that it
\* acted, "refused" and "failed" that it did not; so of the operations that left the journal too.
THEOREM AnswersAlwaysAgree == OperatorSpec => []AnswersAgree
<1>1. OperatorInv => AnswersAgree
  BY AnswersGive DEF OperatorInv
<1> QED BY <1>1, OperatorKeeps, PTL

\* Plans (service.ts redrive): whatever redrives race for a plan, it admits one.
THEOREM APlanApprovesOneRedrive == OperatorSpec => []PlanUsedOnce
<1>1. OperatorInv => PlanUsedOnce
  BY DEF OperatorInv, PlansInv
<1> QED BY <1>1, OperatorKeeps, PTL

\* The failure chain (service.ts #redeliver): a source is never being resumed while a guard is
\* asked or an advance of its record is unresolved.
THEOREM NoRetryUnderAdvance == OperatorSpec => []NeverRetriesUnderAdvance
<1>1. OperatorInv => NeverRetriesUnderAdvance
  BY DEF OperatorInv, ChainInv
<1> QED BY <1>1, OperatorKeeps, PTL

\* Types, for a source that has an incident to name.
THEOREM OperatorTypes ==
    ASSUME Incidents # {}
    PROVE  OperatorSpec => []OperatorTypeOK
<1>1. NoRequest.on \in Incidents
  BY DEF NoRequest
<1>2. Subject = Incidents
  BY <1>1 DEF Subject
<1>3. /\ Operation = OperationType /\ Call = CallType /\ Evaluation = EvaluationType
  <2>1. Request = RequestType
    BY <1>2 DEF Request, RequestType, Kinds
  <2> QED BY <1>2, <2>1 DEF Operation, OperationType, Call, CallType, Evaluation, EvaluationType,
                Result, Places
<1>4. OperatorInv => OperatorTypeOK
  <2>1. Typed => operations.of \in [Ids -> Operation]
    BY DEF Typed
  <2> QED BY <1>3, <2>1 DEF OperatorInv, Typed, OperatorTypeOK
<1> QED BY <1>4, OperatorKeeps, PTL

=============================================================================
