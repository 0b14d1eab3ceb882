------------------------------ MODULE Quarantine ------------------------------
(***************************************************************************)
(* The quarantine topic (failures/quarantine.ts): the writer that copies    *)
(* failed records to it, and the reader that fetches one copy back with an  *)
(* admin client and a consumer in a throwaway group, one read at a time.    *)
(*                                                                         *)
(* Any call to Kafka may be answered, refused or never answered.  A failure *)
(* stands for its evidence: a copy of another failure does not verify.      *)
(***************************************************************************)
EXTENDS Integers, Sequences, FiniteSets

CONSTANTS
    Failure,
    Partition,
    Read,            \* calls of read()
    NoFailure,
    MaxExpired,      \* bound: records of a partition that retention removes
    Published        \* what the writer did: the partition and the outcome of each write, in order

\* publish: what the broker refused is not appended, and after a lost response a copy may be
\* there whose coordinates nobody knows.
Outcomes == {"acknowledged", "lost", "failed"}

ASSUME QuarantineAssumption ==
    /\ IsFiniteSet(Read) /\ MaxExpired \in Nat /\ NoFailure \notin Failure
    /\ Published \in Seq([failure : Failure, partition : Partition, outcome : Outcomes])
    /\ \A i, j \in DOMAIN Published : Published[i].failure = Published[j].failure => i = j

VARIABLES
    low,        \* the earliest retained offset of each partition
    reads,      \* the calls of read() and their attempts
    queue,      \* the reads in the order they were asked for
    reader      \* the reader: stopping, and the grace period after it

quarantineVars == <<low, reads, queue, reader>>

Appended(p) == SelectSeq(Published, LAMBDA write : write.outcome # "failed" /\ write.partition = p)
log == [p \in Partition |-> [i \in DOMAIN Appended(p) |-> Appended(p)[i].failure]]

\* The coordinates an acknowledgement confirmed.
Acknowledged == {Published[i].failure : i \in {j \in DOMAIN Published : Published[j].outcome = "acknowledged"}}
copies ==
    [f \in Acknowledged |->
        CHOOSE copy \in [partition : Partition, offset : 0..(Len(Published) - 1)] :
            copy.offset < Len(log[copy.partition]) /\ log[copy.partition][copy.offset + 1] = f]

Answers == {"none", "found", "expired", "mismatch", "unavailable"}
Works == {"none", "admin", "offsets", "consumer", "waiting", "settled"}
Stages == {"none", "settle", "leave", "delete", "sweep", "released"}

\* `work` is the await the attempt is in; `run` the consumer's run(), `group` the broker's view
\* of the throwaway group.  `pass` counts the closes.  `outlived` and `leaks` are history: a
\* close gave up on a call in flight; a call will open connections after the last close.
ReadType ==
    [pc : {"new", "queued", "running", "finished", "answered"}, failure : Failure \cup {NoFailure},
     answer : Answers, free : BOOLEAN, work : Works, result : Answers, consumer : BOOLEAN,
     run : {"none", "flight", "settled"}, groupInUse : BOOLEAN,
     group : {"absent", "member", "empty"}, stage : Stages, pass : 1..2,
     warned : BOOLEAN, outlived : BOOLEAN, leaks : BOOLEAN]

NoRead ==
    [pc |-> "new", failure |-> NoFailure, answer |-> "none", free |-> FALSE, work |-> "none",
     result |-> "none", consumer |-> FALSE, run |-> "none", groupInUse |-> FALSE,
     group |-> "absent", stage |-> "none", pass |-> 1, warned |-> FALSE, outlived |-> FALSE,
     leaks |-> FALSE]

Copy(r) == copies[reads[r].failure]
Becomes(r, read) == reads' = [reads EXCEPT ![r] = read]
ReadOnly == UNCHANGED <<low, queue, reader>>

\* The broker removes the oldest record of a partition.
Expires(p) ==
    /\ low[p] < Len(log[p]) /\ low[p] < MaxExpired /\ low' = [low EXCEPT ![p] = @ + 1]
    /\ UNCHANGED <<reads, queue, reader>>

-----------------------------------------------------------------------------
(* read: waiting for the previous reads, within the read's own deadline.   *)

Request(r) ==
    /\ reads[r].pc = "new" /\ \E f \in Acknowledged :
        /\ IF reader = "open"
           THEN Becomes(r, [reads[r] EXCEPT !.pc = "queued", !.failure = f]) /\ queue' = Append(queue, r)
           ELSE Becomes(r, [reads[r] EXCEPT !.pc = "answered", !.failure = f, !.answer = "unavailable"])
                /\ UNCHANGED queue
    /\ UNCHANGED <<low, reader>>

\* Settles with the slot of every read before it.
Position(r) == CHOOSE i \in DOMAIN queue : queue[i] = r

Turn(r) == \A i \in 1..(Position(r) - 1) : reads[queue[i]].free

\* The attempt begins: its admin client connects.
Begin(r) ==
    /\ reads[r].pc = "queued" /\ reader = "open" /\ Turn(r)
    /\ Becomes(r, [reads[r] EXCEPT !.pc = "running", !.work = "admin"]) /\ ReadOnly

Unavailable(read) == [read EXCEPT !.pc = "answered", !.answer = "unavailable"]

\* The deadline passes while it waits: it frees its slot.
WaitsTooLong(r) ==
    /\ reads[r].pc = "queued"
    /\ Becomes(r, [Unavailable(reads[r]) EXCEPT !.free = TRUE]) /\ ReadOnly

\* abandon: the wait for the record ends; a call in flight goes on.
Abandoned(read) ==
    [read EXCEPT !.work = IF @ = "waiting" THEN "settled" ELSE @,
                 !.result = IF read.pc = "finished" THEN @ ELSE "none"]

\* close begins: with a consumer it first waits for its run() to settle.
CloseBegins(read) ==
    [Abandoned(read) EXCEPT !.stage = IF read.consumer THEN "settle" ELSE "leave"]

\* The work settled in time: its clients are closed before the value is returned.
Finishes(r) ==
    /\ reads[r].pc = "running" /\ reads[r].work = "settled"
    /\ Becomes(r, CloseBegins([reads[r] EXCEPT !.pc = "finished"])) /\ ReadOnly

\* The deadline cuts it off: it returns at once and is closed in the background.
CutOff(r) ==
    /\ reads[r].pc = "running"
    /\ Becomes(r, CloseBegins(Unavailable(reads[r]))) /\ ReadOnly

-----------------------------------------------------------------------------
(* QuarantineReadAttempt.#run: one Kafka call after another, each refused   *)
(* once the attempt is abandoned.                                          *)

InFlight(read) == read.work \in {"admin", "offsets", "consumer"}
Open(read) == read.stage = "none"
Settled(read, result) == [read EXCEPT !.work = "settled", !.result = result]

\* It is refused, or the attempt was abandoned and goes no further.
CallFails(r) ==
    /\ InFlight(reads[r])
    /\ Becomes(r, Settled(reads[r], IF Open(reads[r]) THEN "unavailable" ELSE "none")) /\ ReadOnly

AdminConnects(r) ==
    /\ reads[r].work = "admin" /\ Open(reads[r])
    /\ Becomes(r, [reads[r] EXCEPT !.work = "offsets"]) /\ ReadOnly

\* A copy below the earliest retained offset has expired; otherwise a consumer connects.
OffsetsArrive(r) ==
    /\ reads[r].work = "offsets" /\ Open(reads[r])
    /\ Becomes(r, IF Copy(r).offset < low[Copy(r).partition]
                  THEN Settled(reads[r], "expired")
                  ELSE [reads[r] EXCEPT !.work = "consumer", !.consumer = TRUE])
    /\ ReadOnly

\* connect and subscribe are done: run() joins the throwaway group.
ConsumerConnects(r) ==
    /\ reads[r].work = "consumer" /\ Open(reads[r])
    /\ Becomes(r, [reads[r] EXCEPT !.work = "waiting", !.groupInUse = TRUE, !.run = "flight"])
    /\ ReadOnly

Joins(r) ==
    /\ reads[r].run = "flight"
    /\ Becomes(r, [reads[r] EXCEPT !.run = "settled", !.group = "member"])
    /\ ReadOnly

JoinFails(r) ==
    /\ reads[r].run = "flight"
    /\ LET read == [reads[r] EXCEPT !.run = "settled"]
       IN  Becomes(r, IF read.work = "waiting" THEN Settled(read, "unavailable") ELSE read)
    /\ ReadOnly

Takes(r, p) == p = Copy(r).partition

\* verifyQuarantineRecord, at the offset asked for.  When retention has removed it meanwhile,
\* the consumer goes to the end and is handed a later record.
Verdict(r, p) ==
    LET copy == Copy(r)
    IN  IF p = copy.partition /\ copy.offset >= low[p] /\ log[p][copy.offset + 1] = reads[r].failure
        THEN "found" ELSE "mismatch"

MessageArrives(r) ==
    /\ reads[r].work = "waiting" /\ reads[r].group = "member"
    /\ \E p \in Partition :
        /\ low[p] < Len(log[p]) /\ Takes(r, p)
        /\ Becomes(r, Settled(reads[r], Verdict(r, p)))
    /\ ReadOnly

-----------------------------------------------------------------------------
(* QuarantineReadAttempt.close, run twice: once for what is open, and again *)
(* when the calls still in flight have settled.                            *)

\* The join is over, or its limit or the hurry after a stop ends the wait for it.
Settles(r) ==
    /\ reads[r].stage = "settle"
    /\ Becomes(r, [reads[r] EXCEPT !.stage = "leave", !.outlived = @ \/ reads[r].run = "flight"])
    /\ ReadOnly

\* A slot is freed by the second close, or a grace period after the first; a value that was
\* read is returned then.
Freed(read) ==
    [read EXCEPT !.free = TRUE, !.pc = "answered", !.result = "none",
                 !.answer = IF read.pc = "finished" THEN read.result ELSE @]

\* What a released read leaves: a call in flight will still open a connection or join.  One
\* that outlived its close is not followed further.
Released(read) ==
    LET left == IF read.outlived
                THEN [NoRead EXCEPT !.outlived = TRUE]
                ELSE [NoRead EXCEPT !.group = IF read.run = "flight" THEN "member" ELSE read.group,
                                    !.warned = read.warned, !.leaks = InFlight(read)]
    IN  [left EXCEPT !.pc = "answered", !.failure = read.failure, !.answer = Freed(read).answer,
                     !.free = TRUE, !.stage = "released"]

\* Mistake: one close is enough.
ClosedOnce(read) == Released(read)

\* The admin client is disconnected and what is still open destroyed.
Closed(read) == IF read.pass = 1 THEN [read EXCEPT !.stage = "sweep"] ELSE Released(read)

\* disconnect: the member leaves, or its leave is lost.
Leaves(r) ==
    /\ reads[r].stage = "leave"
    /\ \E group \in {reads[r].group, IF reads[r].group = "member" THEN "empty" ELSE reads[r].group} :
        LET left == [reads[r] EXCEPT !.group = group]
        IN  Becomes(r, IF left.groupInUse THEN [left EXCEPT !.stage = "delete"] ELSE Closed(left))
    /\ ReadOnly

\* The broker forgets a member whose consumer is gone.
SessionExpires(r) ==
    /\ reads[r].group = "member" /\ reads[r].stage \in {"delete", "sweep"}
    /\ Becomes(r, [reads[r] EXCEPT !.group = "empty"]) /\ ReadOnly

\* #deleteGroup: a group with a member is tried again until its session is over; a deletion
\* that cannot be done, or not in time, is logged.
Deletes(r) ==
    /\ reads[r].stage = "delete"
    /\ \/ /\ reads[r].group # "member"
          /\ Becomes(r, Closed([reads[r] EXCEPT !.group = "absent", !.groupInUse = FALSE]))
       \/ Becomes(r, Closed([reads[r] EXCEPT !.warned = TRUE]))
    /\ ReadOnly

GraceEnds(r) ==
    /\ reads[r].pass = 1 /\ reads[r].stage = "sweep" /\ ~reads[r].free
    /\ Becomes(r, Freed(reads[r])) /\ ReadOnly

\* The work has settled, or READ_SETTLE_LIMIT_MS or the hurry ends the wait for it.
Sweeps(r) ==
    /\ reads[r].stage = "sweep"
    /\ Becomes(r, CloseBegins([reads[r] EXCEPT !.pass = 2, !.outlived = @ \/ InFlight(reads[r])]))
    /\ ReadOnly

-----------------------------------------------------------------------------
(* stop: the read in progress and those that wait are answered; it returns  *)
(* when every read has been closed.                                        *)

Stop ==
    /\ reader = "open" /\ reader' = "stopping"
    /\ reads' = [r \in Read |->
         CASE reads[r].pc = "running" -> CloseBegins(Unavailable(reads[r]))
           [] reads[r].pc = "queued" -> [Unavailable(reads[r]) EXCEPT !.free = TRUE]
           [] OTHER -> reads[r]]
    /\ UNCHANGED <<low, queue>>

Idle == \A i \in DOMAIN queue : reads[queue[i]].free /\ reads[queue[i]].stage \in {"none", "released"}

StopReturns ==
    /\ reader = "stopping" /\ Idle /\ reader' = "stopped"
    /\ UNCHANGED <<low, reads, queue>>

-----------------------------------------------------------------------------

QuarantineInit ==
    /\ reader = "open" /\ queue = <<>>
    /\ low = [p \in Partition |-> 0] /\ reads = [r \in Read |-> NoRead]

Reads(r) == Request(r) \/ Begin(r) \/ WaitsTooLong(r) \/ Finishes(r) \/ CutOff(r)
Calls(r) ==
    \/ CallFails(r) \/ AdminConnects(r) \/ OffsetsArrive(r)
    \/ ConsumerConnects(r) \/ Joins(r) \/ JoinFails(r) \/ MessageArrives(r) \/ SessionExpires(r)
Closes(r) == Settles(r) \/ Leaves(r) \/ Deletes(r) \/ GraceEnds(r) \/ Sweeps(r)

QuarantineNext ==
    \/ \E p \in Partition : Expires(p)
    \/ Stop \/ StopReturns
    \/ \E r \in Read : Reads(r) \/ Calls(r) \/ Closes(r)

QuarantineSpec == QuarantineInit /\ [][QuarantineNext]_quarantineVars

=============================================================================
