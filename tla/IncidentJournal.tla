---------------------------- MODULE IncidentJournal ----------------------------
(***************************************************************************)
(* The failure journal on disk (failures/journal.ts): the processes that    *)
(* create, open, own, use and close it (gateways, `streamotter init         *)
(* --failures`, `streamotter sources rebaseline`), their races on           *)
(* journal.lock, and the transactions that keep its contents consistent     *)
(* with the generation of every source.                                    *)
(*                                                                         *)
(* A process stands for its pid; the runs of one pid differ in startedAt.  *)
(* An incident is one record of a source's generation.                     *)
(***************************************************************************)
EXTENDS Integers, FiniteSets

CONSTANTS
    Process,
    Contained,     \* the processes in a pid namespace of their own
    Source,
    Generation,
    NoGeneration,  \* a source that is not configured, not recorded, without a boundary
    Configs,       \* bound: the configured generations of a start, by source
    MaxFaults      \* bound: crashes, and refusals that another start may not meet

ASSUME JournalAssumption ==
    /\ Contained \subseteq Process /\ IsFiniteSet(Source)
    /\ NoGeneration \notin Generation
    /\ Configs \subseteq [Source -> Generation \cup {NoGeneration}]
    /\ MaxFaults \in Nat

VARIABLES
    file,      \* journal.sqlite
    lock,      \* journal.lock: whose it is, or NoLock
    holders,   \* the processes that hold SQLite's exclusive lock
    procs,     \* the state of every process
    data,      \* what the journal's last commit says
    work,      \* the writes of a transaction that has not committed, by process
    mishaps

journalVars == <<file, lock, holders, procs, data, work, mishaps>>

NoLock == [pid |-> "none", startedAt |-> 0]
Config == [Source -> Generation \cup {NoGeneration}]
Incident == Source \X Generation
\* An open incident's progress: held or retrying; advance-pending or uncertain.
OpenStates == {"held", "unresolved"}
DataType ==
    [recorded : Config, boundary : Config,
     incidents : [Incident -> {"closed"} \cup OpenStates]]
ProcType ==
    [pc : {"off", "creating", "locking", "exists", "judged", "locked", "inspecting", "claiming",
           "naming", "running", "closing", "rebaselining", "releasing", "unlinking"},
     startedAt : 0..2, replaced : BOOLEAN, config : Config]

Off == [pc |-> "off", startedAt |-> 0, replaced |-> FALSE,
        config |-> [s \in Source |-> NoGeneration]]
Empty == [recorded |-> [s \in Source |-> NoGeneration], boundary |-> [s \in Source |-> NoGeneration],
          incidents |-> [i \in Incident |-> "closed"]]

Mine(p) == [pid |-> p, startedAt |-> procs[p].startedAt]
At(p, pc) == procs[p].pc = pc
Goes(p, pc) == procs' = [procs EXCEPT ![p].pc = pc]
Left(p) == procs' = [procs EXCEPT ![p] = Off]
OpenIn(d, s) == {g \in Generation : d.incidents[<<s, g>>] \in OpenStates}

-----------------------------------------------------------------------------
(* Starting, and journal.lock.                                             *)

\* The run's startedAt differs from the one in a lock that an earlier run of the pid left.
\* openJournal refuses a missing file, initJournal an existing one.
Begins(p) ==
    /\ At(p, "off")
    /\ procs' = [procs EXCEPT ![p] = [@ EXCEPT
           !.pc = IF file = "absent" THEN "creating" ELSE "locking",
           !.startedAt = IF lock = [pid |-> p, startedAt |-> 1] THEN 2 ELSE 1]]
    /\ UNCHANGED <<file, lock, holders, data, work, mishaps>>

\* link() of the complete lock succeeds, or the lock exists.
Links(p) ==
    /\ At(p, "locking")
    /\ IF lock = NoLock THEN lock' = Mine(p) /\ Goes(p, "locked")
       ELSE UNCHANGED lock /\ Goes(p, "exists")
    /\ UNCHANGED <<file, holders, data, work, mishaps>>

\* ownerAlive: process.kill(pid, 0) reaches only this pid namespace.
OwnerAlive(p, q) == {p, q} \cap Contained = {} /\ ~At(q, "off")
\* A lock that names this pid is not this run's: a process opens its journal once at a time.
Refuses(p, q) == (p # q /\ OwnerAlive(p, q)) \/ procs[p].replaced

\* The lock is read, its owner judged, and the database probed.
Judges(p) ==
    /\ At(p, "exists")
    /\ IF lock = NoLock THEN Goes(p, "locking")
       ELSE IF Refuses(p, lock.pid) \/ holders # {} THEN Left(p)
       ELSE Goes(p, "judged")
    /\ UNCHANGED <<file, lock, holders, data, work, mishaps>>

\* The lock there is now is unlinked, whoever wrote it, and the next attempt begins.
Unlinks(p) ==
    /\ At(p, "judged")
    /\ lock' = NoLock
    /\ procs' = [procs EXCEPT ![p] = [@ EXCEPT !.pc = "locking", !.replaced = TRUE]]
    /\ UNCHANGED <<file, holders, data, work, mishaps>>

\* releaseLock reads the lock, and unlinks it if it is this run's.
Releases(p) ==
    /\ At(p, "releasing")
    /\ IF lock = Mine(p) THEN Goes(p, "unlinking") ELSE Left(p)
    /\ UNCHANGED <<file, lock, holders, data, work, mishaps>>
ReleaseEnds(p) ==
    /\ At(p, "unlinking")
    /\ lock' = NoLock
    /\ Left(p)
    /\ UNCHANGED <<file, holders, data, work, mishaps>>

-----------------------------------------------------------------------------
(* The database: inspect, and initJournal.                                 *)

\* Mistake: the handle's lock is released after each read.
TakesDatabaseShared(p) ==
    /\ At(p, "locked")
    /\ holders' = holders \cup {p} /\ Goes(p, "inspecting")
    /\ UNCHANGED <<file, lock, data, work, mishaps>>

\* The first read of a handle in exclusive mode takes the lock for the handle's life, or is BUSY.
TakesDatabase(p) ==
    /\ At(p, "locked")
    /\ IF holders = {} THEN holders' = {p} /\ Goes(p, "inspecting")
       ELSE UNCHANGED holders /\ Goes(p, "releasing")
    /\ UNCHANGED <<file, lock, data, work, mishaps>>

\* The file is an intact journal of this project that this build can read, and the process, a
\* gateway or the tool, goes on with its configuration; the tool names one configured source.
\* A file that initJournal has not filled is not a journal.
Inspects(p) ==
    /\ At(p, "inspecting") /\ file = "journal"
    /\ \E pc \in {"claiming", "naming"}, config \in Configs :
          /\ pc = "naming" => Cardinality({s \in Source : config[s] # NoGeneration}) = 1
          /\ procs' = [procs EXCEPT ![p] = [@ EXCEPT !.pc = pc, !.config = config]]
    /\ UNCHANGED <<file, lock, holders, data, work, mishaps>>
InspectRefuses(p) ==
    /\ At(p, "inspecting")
    /\ IF file = "journal" THEN mishaps < MaxFaults /\ mishaps' = mishaps + 1 ELSE UNCHANGED mishaps
    /\ holders' = holders \ {p} /\ Goes(p, "releasing")
    /\ UNCHANGED <<file, lock, data, work>>

\* openSync "wx", and the handle's lock.
Creates(p) ==
    /\ At(p, "creating") /\ p \notin holders
    /\ IF file = "absent" /\ holders = {} THEN file' = "empty" /\ holders' = {p} /\ UNCHANGED procs
       ELSE Left(p) /\ UNCHANGED <<file, holders>>
    /\ UNCHANGED <<lock, data, work, mishaps>>

\* The schema and the sources commit, or the new file is removed.
CreateEnds(p) ==
    /\ At(p, "creating") /\ p \in holders
    /\ \/ /\ file' = "journal" /\ UNCHANGED mishaps
          /\ \E config \in Configs : data' = [Empty EXCEPT !.recorded = config]
       \/ mishaps < MaxFaults /\ mishaps' = mishaps + 1 /\ file' = "absent" /\ UNCHANGED data
    /\ holders' = holders \ {p} /\ Left(p)
    /\ UNCHANGED <<lock, work>>

-----------------------------------------------------------------------------
(* claim: the configured generations against the recorded ones.            *)

\* Mistake: only a removed source is looked at.
ClaimableRemoved(d, config) == \A s \in Source : OpenIn(d, s) # {} => config[s] # NoGeneration

\* No source with open incidents is removed or changes its generation.
Claimable(d, config) == \A s \in Source : OpenIn(d, s) # {} => d.recorded[s] = config[s]

\* A removed source stays recorded; a changed generation ends the boundary in force.
Claimed(d, config) ==
    [d EXCEPT !.recorded = [s \in Source |-> IF config[s] = NoGeneration THEN @[s] ELSE config[s]],
              !.boundary = [s \in Source |->
                 IF config[s] \in {NoGeneration, d.boundary[s]} THEN @[s] ELSE NoGeneration]]

\* #startFailures: the gateway claims its sources and starts, or closes the journal.
Claims(p) ==
    /\ At(p, "claiming")
    /\ IF Claimable(data, procs[p].config)
       THEN data' = Claimed(data, procs[p].config) /\ Goes(p, "running")
       ELSE UNCHANGED data /\ Goes(p, "closing")
    /\ UNCHANGED <<file, lock, holders, work, mishaps>>

-----------------------------------------------------------------------------
(* A running gateway: each call is one transaction.                        *)

\* How the failure service moves an incident: observed (again), processed, advanced past or
\* found not to be.
Moves == {<<"closed", "held">>, <<"held", "closed">>, <<"unresolved", "closed">>, <<"unresolved", "held">>}

\* observe and update.
Updates(p) ==
    /\ At(p, "running")
    /\ \E s \in Source : \E to \in OpenStates \cup {"closed"} :
          LET i == <<s, procs[p].config[s]>>
          IN /\ i \in Incident /\ <<data.incidents[i], to>> \in Moves
             /\ data' = [data EXCEPT !.incidents[i] = to]
    /\ UNCHANGED <<file, lock, holders, procs, work, mishaps>>

\* prepareAdvance: an incident of the recorded generation, and the boundary that supersedes
\* the one in force.
PreparesAdvance(p) ==
    /\ At(p, "running")
    /\ \E s \in Source :
          LET g == procs[p].config[s]
          IN /\ <<s, g>> \in Incident /\ data.incidents[<<s, g>>] = "held" /\ data.recorded[s] = g
             /\ data' = [data EXCEPT !.incidents[<<s, g>>] = "unresolved", !.boundary[s] = g]
    /\ UNCHANGED <<file, lock, holders, procs, work, mishaps>>

\* retireBoundary: none of the boundary's incidents is unresolved (a held one may lie outside it).
RetiresBoundary(p) ==
    /\ At(p, "running")
    /\ \E s \in Source :
          LET g == data.boundary[s]
          IN /\ g # NoGeneration
             /\ data.incidents[<<s, g>>] # "unresolved"
             /\ data' = [data EXCEPT !.boundary[s] = NoGeneration]
    /\ UNCHANGED <<file, lock, holders, procs, work, mishaps>>

\* close: the database first, then the lock.
Stops(p) ==
    /\ At(p, "running")
    /\ Goes(p, "closing")
    /\ UNCHANGED <<file, lock, holders, data, work, mishaps>>
Closes(p) ==
    /\ At(p, "closing")
    /\ holders' = holders \ {p}
    /\ procs' = [procs EXCEPT ![p] = [@ EXCEPT !.pc = "releasing", !.config = Off.config]]
    /\ UNCHANGED <<file, lock, data, work, mishaps>>

-----------------------------------------------------------------------------
(* rebaselineSource: one transaction around the store's calls.             *)

Stale(d, s, g) == OpenIn(d, s) \ {g}
NothingToRebaseline(d, s, g) == Stale(d, s, g) = {} /\ d.boundary[s] \in {g, NoGeneration}
TheSource(p) == CHOOSE s \in Source : procs[p].config[s] # NoGeneration

\* With nothing of an earlier generation the tool is refused.
RebaselineBegins(p) ==
    LET s == TheSource(p)
    IN /\ At(p, "naming")
       /\ IF NothingToRebaseline(data, s, procs[p].config[s]) THEN UNCHANGED work /\ Goes(p, "closing")
          ELSE work' = [work EXCEPT ![p] = data] /\ Goes(p, "rebaselining")
       /\ UNCHANGED <<file, lock, holders, data, mishaps>>

\* Mistake: every call of the store commits by itself.
ClosesStaleAtOnce(p) ==
    LET s == TheSource(p)
    IN /\ At(p, "rebaselining")
       /\ \E g \in Stale(work[p], s, procs[p].config[s]) :
             /\ work' = [work EXCEPT ![p].incidents[<<s, g>>] = "closed"]
             /\ data' = [data EXCEPT !.incidents[<<s, g>>] = "closed"]
       /\ UNCHANGED <<file, lock, holders, procs, mishaps>>

\* A stale incident closes, in the transaction.
ClosesStale(p) ==
    LET s == TheSource(p)
    IN /\ At(p, "rebaselining")
       /\ \E g \in Stale(work[p], s, procs[p].config[s]) :
             work' = [work EXCEPT ![p].incidents[<<s, g>>] = "closed"]
       /\ UNCHANGED <<file, lock, holders, procs, data, mishaps>>

\* claim of this source, the others as recorded; the transaction commits or rolls back.
RebaselineCommits(p) ==
    LET s == TheSource(p)
        stored == {t \in Source : data.recorded[t] # NoGeneration}
        config == [t \in Source |-> IF t = s /\ t \in stored THEN procs[p].config[s]
                                    ELSE work[p].recorded[t]]
    IN /\ At(p, "rebaselining") /\ Stale(work[p], s, procs[p].config[s]) = {}
       /\ data' = IF Claimable(work[p], config) THEN Claimed(work[p], config) ELSE data
       /\ work' = [work EXCEPT ![p] = Empty] /\ Goes(p, "closing")
       /\ UNCHANGED <<file, lock, holders, mishaps>>

-----------------------------------------------------------------------------
\* The process dies: the system drops its database lock, the next open rolls its
\* transaction back, and journal.lock stays.
Crash(p) ==
    /\ ~At(p, "off") /\ mishaps < MaxFaults
    /\ mishaps' = mishaps + 1
    /\ Left(p)
    /\ holders' = holders \ {p} /\ work' = [work EXCEPT ![p] = Empty]
    /\ UNCHANGED <<file, lock, data>>

\* A file that a dead initJournal left empty is moved aside by the operator.
MovesAside ==
    /\ file = "empty" /\ holders = {} /\ \A p \in Process : At(p, "off")
    /\ file' = "absent"
    /\ UNCHANGED <<lock, holders, procs, data, work, mishaps>>

JournalInit ==
    /\ file = "absent" /\ lock = NoLock /\ holders = {}
    /\ procs = [p \in Process |-> Off]
    /\ data = Empty /\ work = [p \in Process |-> Empty]
    /\ mishaps = 0

Opening(p) ==
    \/ Begins(p) \/ Links(p) \/ Judges(p) \/ Unlinks(p) \/ TakesDatabase(p)
    \/ Inspects(p) \/ InspectRefuses(p) \/ Creates(p) \/ CreateEnds(p)
Using(p) ==
    \/ Claims(p) \/ Updates(p) \/ PreparesAdvance(p) \/ RetiresBoundary(p) \/ Stops(p)
    \/ RebaselineBegins(p) \/ ClosesStale(p) \/ RebaselineCommits(p)
Ending(p) == Closes(p) \/ Releases(p) \/ ReleaseEnds(p) \/ Crash(p)

JournalNext == MovesAside \/ \E p \in Process : Opening(p) \/ Using(p) \/ Ending(p)

JournalSpec == JournalInit /\ [][JournalNext]_journalVars

=============================================================================
