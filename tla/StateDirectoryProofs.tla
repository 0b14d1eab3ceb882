------------------------- MODULE StateDirectoryProofs -------------------------
(***************************************************************************)
(* Proofs about the files of the state directory, for any number of         *)
(* processes, sources, generations, gateways, callers and crashes.          *)
(*                                                                         *)
(* Everything the journal needs follows from who holds the database: what a *)
(* process that has it open relies on is changed by holders only, and there *)
(* is at most one.                                                         *)
(***************************************************************************)
EXTENDS JournalProperties, SocketProperties, FiniteSetTheorems, TLAPS

-----------------------------------------------------------------------------
(* The journal: what each process relies on.                               *)

Pcs == {"off", "creating", "locking", "exists", "judged", "locked", "inspecting", "claiming",
        "naming", "running", "closing", "rebaselining", "releasing", "unlinking"}

\* Where a process has the database; past inspection it knows it for a journal.
Owning == {"claiming", "naming", "running", "closing", "rebaselining"}

\* OpenIsCurrent of any contents.
IsCurrent(d) ==
    \A s \in Source : /\ OpenIn(d, s) \subseteq {d.recorded[s]}
                      /\ d.boundary[s] \in {NoGeneration, d.recorded[s]}

\* Exactly one source is configured.
NamesOne(config) ==
    \E s \in Source : /\ config[s] # NoGeneration
                      /\ \A t \in Source : config[t] # NoGeneration => t = s

\* A transaction of the rebaseline has closed stale incidents of the named source only.
WorkOf(config, d, w) ==
    /\ w.recorded = d.recorded /\ w.boundary = d.boundary
    /\ \A s \in Source, g \in Generation :
          \/ w.incidents[<<s, g>>] = d.incidents[<<s, g>>]
          \/ w.incidents[<<s, g>>] = "closed" /\ config[s] \notin {NoGeneration, g}

\* What one process relies on: the database is its own, it is a journal, a running gateway's
\* generations are the recorded ones, and a rebaseline started from what is committed.
Relies(proc, holds, f, d, w) ==
    /\ proc.pc # "creating" => (holds <=> proc.pc \in Owning \cup {"inspecting"})
    /\ proc.pc \in Owning => f = "journal"
    /\ proc.pc = "creating" /\ holds => f = "empty"
    /\ proc.pc = "running" =>
          \A s \in Source : proc.config[s] # NoGeneration => proc.config[s] = d.recorded[s]
    /\ proc.pc \in {"naming", "rebaselining"} => NamesOne(proc.config)
    /\ proc.pc = "rebaselining" => WorkOf(proc.config, d, w)

NothingOpen(d) == \A s \in Source : OpenIn(d, s) = {}

\* The inductive invariant.
JournalInv ==
    /\ JournalTypeOK
    /\ holders \subseteq Process
    /\ \A p, q \in holders : p = q
    /\ IsCurrent(data)
    /\ file # "journal" => NothingOpen(data)
    /\ \A q \in Process : Relies(procs[q], q \in holders, file, data, work[q])

\* A process that has nothing open relies on nothing.
LEMMA RestsEasy ==
    ASSUME NEW proc, NEW holds, NEW f, NEW d, NEW w,
           proc.pc \notin Owning \cup {"inspecting"}, ~holds
    PROVE  Relies(proc, holds, f, d, w)
BY DEF Relies, Owning

\* What a process that takes no part in a step keeps relying on.
LEMMA OthersRely ==
    ASSUME JournalInv, NEW p \in Process,
           \A q \in Process \ {p} :
              /\ procs'[q] = procs[q] /\ work'[q] = work[q]
              /\ q \in holders' <=> q \in holders,
           UNCHANGED <<file, data>> \/ p \in holders \/ holders = {}
    PROVE  \A q \in Process \ {p} : Relies(procs'[q], q \in holders', file', data', work'[q])
<1> SUFFICES ASSUME NEW q \in Process \ {p}
             PROVE  Relies(procs'[q], q \in holders', file', data', work'[q])
  OBVIOUS
<1>1. Relies(procs[q], q \in holders, file, data, work[q])
  BY DEF JournalInv
<1>2. CASE UNCHANGED <<file, data>>
  BY <1>1, <1>2
<1>3. CASE p \in holders \/ holders = {}
  <2>1. q \notin holders /\ q \notin holders'
    BY <1>3 DEF JournalInv
  <2>2. procs[q].pc \notin Owning \cup {"inspecting"}
    BY <1>1, <2>1 DEF Relies, Owning
  <2>3. Relies(procs[q], q \in holders', file', data', work'[q])
    BY <2>1, <2>2, RestsEasy
  <2> QED BY <2>3
<1> QED BY <1>2, <1>3

\* A step of p keeps the invariant if it keeps what p relies on, and the contents.
LEMMA StepOf ==
    ASSUME JournalInv, NEW p \in Process, JournalTypeOK',
           \A q \in Process \ {p} :
              /\ procs'[q] = procs[q] /\ work'[q] = work[q]
              /\ q \in holders' <=> q \in holders,
           holders' \subseteq Process,
           p \in holders' => p \in holders \/ holders = {},
           UNCHANGED <<file, data>> \/ p \in holders \/ holders = {},
           IsCurrent(data'),
           file' # "journal" => NothingOpen(data'),
           Relies(procs'[p], p \in holders', file', data', work'[p])
    PROVE  JournalInv'
<1>1. \A q \in Process \ {p} : Relies(procs'[q], q \in holders', file', data', work'[q])
  BY OthersRely
<1>2. \A q, r \in holders' : q = r
  BY DEF JournalInv
<1> QED BY <1>1, <1>2 DEF JournalInv, IsCurrent, NothingOpen, OpenIn

LEMMA GoesFacts ==
    ASSUME procs \in [Process -> ProcType], NEW p \in Process, NEW pc \in Pcs, Goes(p, pc)
    PROVE  /\ procs' \in [Process -> ProcType]
           /\ procs'[p].pc = pc /\ procs'[p].config = procs[p].config
           /\ \A q \in Process \ {p} : procs'[q] = procs[q]
<1> DEFINE new == [procs[p] EXCEPT !.pc = pc]
<1>1. new \in ProcType /\ new.pc = pc /\ new.config = procs[p].config
  BY DEF ProcType, Pcs
<1>2. procs' = [procs EXCEPT ![p] = new]
  BY DEF Goes
<1> HIDE DEF new
<1> QED BY <1>1, <1>2

LEMMA LeftFacts ==
    ASSUME procs \in [Process -> ProcType], NEW p \in Process, Left(p)
    PROVE  /\ procs' \in [Process -> ProcType]
           /\ procs'[p].pc = "off"
           /\ \A q \in Process \ {p} : procs'[q] = procs[q]
<1>1. Off \in ProcType /\ Off.pc = "off"
  BY DEF Off, ProcType, Config
<1> QED BY <1>1 DEF Left

\* A step of p that leaves the journal and every transaction alone.
LEMMA QuietStep ==
    ASSUME JournalInv, NEW p \in Process, UNCHANGED <<file, data, work>>,
           procs' \in [Process -> ProcType],
           \A q \in Process \ {p} : procs'[q] = procs[q],
           \/ holders' = holders
           \/ holders' = holders \ {p}
           \/ holders = {} /\ holders' = {p},
           mishaps' \in 0..MaxFaults,
           Relies(procs'[p], p \in holders', file', data', work'[p])
    PROVE  JournalInv'
<1>1. JournalTypeOK'
  BY DEF JournalInv, JournalTypeOK
<1>2. \A q \in Process \ {p} :
         /\ procs'[q] = procs[q] /\ work'[q] = work[q]
         /\ q \in holders' <=> q \in holders
  BY DEF JournalInv
<1>3. holders' \subseteq Process /\ (p \in holders' => p \in holders \/ holders = {})
  BY DEF JournalInv
<1>4. IsCurrent(data') /\ (file' # "journal" => NothingOpen(data'))
  BY DEF JournalInv
<1> QED BY <1>1, <1>2, <1>3, <1>4, StepOf

\* A step of p from one state without the database to another.
LEMMA IdleStep ==
    ASSUME JournalInv, NEW p \in Process, UNCHANGED <<file, data, work, holders, mishaps>>,
           procs' \in [Process -> ProcType],
           \A q \in Process \ {p} : procs'[q] = procs[q],
           procs'[p].pc \notin Owning \cup {"inspecting"}, p \notin holders
    PROVE  JournalInv'
<1>1. Relies(procs'[p], p \in holders', file', data', work'[p])
  BY RestsEasy
<1>2. mishaps' \in 0..MaxFaults
  BY DEF JournalInv, JournalTypeOK
<1> QED BY <1>1, <1>2, QuietStep

\* Opening, until the database is taken.
LEMMA BeginsKeeps == ASSUME JournalInv, NEW p \in Process, Begins(p) PROVE JournalInv'
<1> DEFINE pc == IF file = "absent" THEN "creating" ELSE "locking"
           started == IF lock = [pid |-> p, startedAt |-> 1] THEN 2 ELSE 1
           new == [procs[p] EXCEPT !.pc = pc, !.startedAt = started]
<1>1. procs[p] \in ProcType /\ procs \in [Process -> ProcType]
  BY DEF JournalInv, JournalTypeOK
<1>2. started \in 0..2 /\ pc \in Pcs
  BY DEF Pcs
<1> HIDE DEF started
<1>3. new \in ProcType /\ new.pc = pc
  BY <1>1, <1>2 DEF ProcType, Pcs
<1>4. procs' = [procs EXCEPT ![p] = new]
  BY DEF Begins, started
<1> HIDE DEF new
<1>5. procs' \in [Process -> ProcType] /\ procs'[p].pc = pc /\ \A q \in Process \ {p} : procs'[q] = procs[q]
  BY <1>1, <1>3, <1>4
<1>6. procs[p].pc = "off"
  BY DEF Begins, At
<1>7. p \notin holders
  BY <1>6 DEF JournalInv, Relies, Owning
<1>8. pc \in {"creating", "locking"}
  OBVIOUS
<1> HIDE DEF pc
<1> QED BY <1>5, <1>7, <1>8, IdleStep DEF Begins, Owning

Aside == {"off", "locking", "exists", "judged", "locked", "releasing", "unlinking"}

\* Who is aside of the database does not hold it; one that uses it does.
LEMMA HolderFacts ==
    ASSUME JournalInv, NEW p \in Process
    PROVE  /\ procs \in [Process -> ProcType] /\ procs[p] \in ProcType
           /\ data \in DataType /\ work \in [Process -> DataType] /\ mishaps \in 0..MaxFaults
           /\ procs[p].pc \in Aside => p \notin holders
           /\ procs[p].pc \in Owning => p \in holders /\ file = "journal"
BY DEF JournalInv, JournalTypeOK, Relies, Owning, Aside

\* journal.lock changes, and nothing else.
LEMMA LockStep ==
    ASSUME JournalInv, NEW p \in Process, UNCHANGED <<file, holders, data, work, mishaps>>,
           procs[p].pc \in Aside,
           procs' \in [Process -> ProcType], procs'[p].pc \in Aside,
           \A q \in Process \ {p} : procs'[q] = procs[q]
    PROVE  JournalInv'
<1>1. procs'[p].pc \notin Owning \cup {"inspecting"}
  BY DEF Owning, Aside
<1>2. p \notin holders
  BY HolderFacts
<1> QED BY <1>1, <1>2, IdleStep

LEMMA LinksKeeps == ASSUME JournalInv, NEW p \in Process, Links(p) PROVE JournalInv'
<1>1. procs[p].pc \in Aside /\ UNCHANGED <<file, holders, data, work, mishaps>>
  BY DEF Links, At, Aside
<1>2. PICK pc \in {"locked", "exists"} : Goes(p, pc)
  BY DEF Links
<1>3. pc \in Pcs /\ pc \in Aside
  BY DEF Pcs, Aside
<1> QED BY <1>1, <1>2, <1>3, GoesFacts, HolderFacts, LockStep

LEMMA JudgesKeeps == ASSUME JournalInv, NEW p \in Process, Judges(p) PROVE JournalInv'
<1>1. procs[p].pc \in Aside /\ UNCHANGED <<file, holders, data, work, mishaps>>
  BY DEF Judges, At, Aside
<1>2. Left(p) \/ \E pc \in {"locking", "judged"} : Goes(p, pc)
  BY DEF Judges
<1>3. CASE Left(p)
  <2>1. "off" \in Aside
    BY DEF Aside
  <2> QED BY <1>1, <1>3, <2>1, LeftFacts, HolderFacts, LockStep
<1>4. CASE \E pc \in {"locking", "judged"} : Goes(p, pc)
  <2>1. PICK pc \in {"locking", "judged"} : Goes(p, pc)
    BY <1>4
  <2>2. pc \in Pcs /\ pc \in Aside
    BY DEF Pcs, Aside
  <2> QED BY <1>1, <2>1, <2>2, GoesFacts, HolderFacts, LockStep
<1> QED BY <1>2, <1>3, <1>4

LEMMA UnlinksKeeps == ASSUME JournalInv, NEW p \in Process, Unlinks(p) PROVE JournalInv'
<1> DEFINE new == [procs[p] EXCEPT !.pc = "locking", !.replaced = TRUE]
<1>1. new \in ProcType /\ new.pc \in Aside
  BY HolderFacts DEF ProcType, Aside
<1>2. procs' = [procs EXCEPT ![p] = new]
  BY DEF Unlinks
<1> HIDE DEF new
<1>3. /\ procs' \in [Process -> ProcType] /\ procs'[p] = new
      /\ \A q \in Process \ {p} : procs'[q] = procs[q]
  BY <1>1, <1>2, HolderFacts
<1>4. procs[p].pc \in Aside /\ UNCHANGED <<file, holders, data, work, mishaps>>
  BY DEF Unlinks, At, Aside
<1> QED BY <1>1, <1>3, <1>4, LockStep

LEMMA ReleasesKeeps == ASSUME JournalInv, NEW p \in Process, Releases(p) PROVE JournalInv'
<1>1. procs[p].pc \in Aside /\ UNCHANGED <<file, holders, data, work, mishaps>>
  BY DEF Releases, At, Aside
<1>2. CASE Left(p)
  <2>1. "off" \in Aside
    BY DEF Aside
  <2> QED BY <1>1, <1>2, <2>1, LeftFacts, HolderFacts, LockStep
<1>3. CASE Goes(p, "unlinking")
  <2>1. PICK pc : pc = "unlinking"
    OBVIOUS
  <2>2. pc \in Pcs /\ pc \in Aside /\ Goes(p, pc)
    BY <1>3, <2>1 DEF Pcs, Aside
  <2> QED BY <1>1, <2>2, GoesFacts, HolderFacts, LockStep
<1> QED BY <1>2, <1>3 DEF Releases

LEMMA ReleaseEndsKeeps == ASSUME JournalInv, NEW p \in Process, ReleaseEnds(p) PROVE JournalInv'
<1>1. /\ procs[p].pc \in Aside /\ UNCHANGED <<file, holders, data, work, mishaps>>
      /\ Left(p)
  BY DEF ReleaseEnds, At, Aside
<1>2. "off" \in Aside
  BY DEF Aside
<1> QED BY <1>1, <1>2, LeftFacts, HolderFacts, LockStep

LEMMA TakesDatabaseKeeps == ASSUME JournalInv, NEW p \in Process, TakesDatabase(p) PROVE JournalInv'
<1>1. procs[p].pc \in Aside /\ UNCHANGED <<file, data, work, mishaps>>
  BY DEF TakesDatabase, At, Aside
<1>2. CASE holders = {}
  <2>1. PICK pc : pc = "inspecting"
    OBVIOUS
  <2>2. holders' = {p} /\ Goes(p, pc) /\ pc \in Pcs
    BY <1>2, <2>1 DEF TakesDatabase, Pcs
  <2>3. procs'[p].pc = pc /\ procs' \in [Process -> ProcType] /\ \A q \in Process \ {p} : procs'[q] = procs[q]
    BY <2>2, GoesFacts, HolderFacts
  <2>4. Relies(procs'[p], p \in holders', file', data', work'[p])
    BY <2>1, <2>2, <2>3 DEF Relies, Owning
  <2> QED BY <1>1, <1>2, <2>2, <2>3, <2>4, HolderFacts, QuietStep
<1>3. CASE holders # {}
  <2>1. PICK pc : pc = "releasing"
    OBVIOUS
  <2>2. UNCHANGED holders /\ Goes(p, pc) /\ pc \in Pcs /\ pc \in Aside
    BY <1>3, <2>1 DEF TakesDatabase, Pcs, Aside
  <2> QED BY <1>1, <2>2, GoesFacts, HolderFacts, LockStep
<1> QED BY <1>2, <1>3

\* The tool names exactly one source.
LEMMA InspectsKeeps == ASSUME JournalInv, NEW p \in Process, Inspects(p) PROVE JournalInv'
<1>1. PICK pc \in {"claiming", "naming"}, config \in Configs :
         /\ pc = "naming" => Cardinality({s \in Source : config[s] # NoGeneration}) = 1
         /\ procs' = [procs EXCEPT ![p] = [@ EXCEPT !.pc = pc, !.config = config]]
  BY DEF Inspects
<1> DEFINE new == [procs[p] EXCEPT !.pc = pc, !.config = config]
<1>2. procs[p] \in ProcType /\ procs \in [Process -> ProcType] /\ config \in Config
  BY HolderFacts, JournalAssumption DEF Config
<1>3. new \in ProcType /\ new.pc = pc /\ new.config = config
  BY <1>2 DEF ProcType
<1>4. procs' = [procs EXCEPT ![p] = new]
  BY <1>1
<1> HIDE DEF new
<1>5. procs' \in [Process -> ProcType] /\ procs'[p] = new /\ \A q \in Process \ {p} : procs'[q] = procs[q]
  BY <1>2, <1>3, <1>4
<1>6. p \in holders /\ UNCHANGED <<file, data, work, holders, mishaps>> /\ file = "journal"
  BY DEF Inspects, At, JournalInv, Relies
<1>7. pc = "naming" => NamesOne(config)
  <2> SUFFICES ASSUME pc = "naming" PROVE NamesOne(config)
    OBVIOUS
  <2> DEFINE named == {s \in Source : config[s] # NoGeneration}
  <2>1. Cardinality(named) = 1
    BY <1>1
  <2>2. IsFiniteSet(named)
    BY JournalAssumption, FS_Subset
  <2> HIDE DEF named
  <2>3. PICK s : named = {s}
    BY <2>1, <2>2, FS_Singleton
  <2> USE DEF named
  <2>4. s \in Source /\ config[s] # NoGeneration /\ \A t \in Source : config[t] # NoGeneration => t = s
    BY <2>3
  <2> QED BY <2>4 DEF NamesOne
<1>8. Relies(procs'[p], p \in holders', file', data', work'[p])
  BY <1>1, <1>3, <1>5, <1>6, <1>7 DEF Relies, Owning
<1> QED BY <1>5, <1>6, <1>8, HolderFacts, QuietStep

LEMMA InspectRefusesKeeps == ASSUME JournalInv, NEW p \in Process, InspectRefuses(p) PROVE JournalInv'
<1>1. PICK pc : pc = "releasing"
  OBVIOUS
<1>2. holders' = holders \ {p} /\ Goes(p, pc) /\ pc \in Pcs /\ UNCHANGED <<file, data, work>>
  BY <1>1 DEF InspectRefuses, Pcs
<1>3. mishaps' \in 0..MaxFaults
  BY HolderFacts, JournalAssumption DEF InspectRefuses
<1>4. procs'[p].pc = pc /\ procs' \in [Process -> ProcType] /\ \A q \in Process \ {p} : procs'[q] = procs[q]
  BY <1>2, GoesFacts, HolderFacts
<1>5. Relies(procs'[p], p \in holders', file', data', work'[p])
  BY <1>1, <1>2, <1>4, RestsEasy DEF Owning
<1> QED BY <1>2, <1>3, <1>4, <1>5, QuietStep

LEMMA StopsKeeps == ASSUME JournalInv, NEW p \in Process, Stops(p) PROVE JournalInv'
<1>1. PICK pc : pc = "closing"
  OBVIOUS
<1>2. Goes(p, pc) /\ pc \in Pcs /\ UNCHANGED <<file, holders, data, work, mishaps>>
  BY <1>1 DEF Stops, Pcs
<1>3. procs[p].pc \in Owning
  BY DEF Stops, At, Owning
<1>4. p \in holders /\ file = "journal"
  BY <1>3, HolderFacts
<1>5. procs'[p].pc = pc /\ procs' \in [Process -> ProcType] /\ \A q \in Process \ {p} : procs'[q] = procs[q]
  BY <1>2, GoesFacts, HolderFacts
<1>6. Relies(procs'[p], p \in holders', file', data', work'[p])
  BY <1>1, <1>2, <1>4, <1>5 DEF Relies, Owning
<1> QED BY <1>2, <1>5, <1>6, HolderFacts, QuietStep

LEMMA ClosesKeeps == ASSUME JournalInv, NEW p \in Process, Closes(p) PROVE JournalInv'
<1> DEFINE new == [procs[p] EXCEPT !.pc = "releasing", !.config = Off.config]
<1>1. procs[p] \in ProcType /\ procs \in [Process -> ProcType] /\ Off.config \in Config
  BY HolderFacts DEF Off, Config
<1>2. new \in ProcType /\ new.pc = "releasing"
  BY <1>1 DEF ProcType
<1>3. procs' = [procs EXCEPT ![p] = new]
  BY DEF Closes
<1> HIDE DEF new
<1>4. procs' \in [Process -> ProcType] /\ procs'[p] = new /\ \A q \in Process \ {p} : procs'[q] = procs[q]
  BY <1>1, <1>2, <1>3
<1>5. UNCHANGED <<file, data, work, mishaps>> /\ holders' = holders \ {p}
  BY DEF Closes
<1>6. Relies(procs'[p], p \in holders', file', data', work'[p])
  BY <1>2, <1>4, <1>5, RestsEasy DEF Owning
<1> QED BY <1>4, <1>5, <1>6, HolderFacts, QuietStep

LEMMA CreatesKeeps == ASSUME JournalInv, NEW p \in Process, Creates(p) PROVE JournalInv'
<1>0. procs[p].pc = "creating" /\ p \notin holders /\ UNCHANGED <<data, work, mishaps>>
  BY DEF Creates, At
<1>1. CASE file = "absent" /\ holders = {}
  <2>1. file' = "empty" /\ holders' = {p} /\ UNCHANGED procs
    BY <1>1 DEF Creates
  <2>2. JournalTypeOK'
    BY <1>0, <2>1 DEF JournalInv, JournalTypeOK
  <2>3. \A q \in Process \ {p} :
           /\ procs'[q] = procs[q] /\ work'[q] = work[q]
           /\ q \in holders' <=> q \in holders
    BY <1>0, <1>1, <2>1
  <2>4. IsCurrent(data') /\ NothingOpen(data')
    BY <1>0, <1>1 DEF JournalInv
  <2>5. Relies(procs'[p], p \in holders', file', data', work'[p])
    BY <1>0, <2>1 DEF Relies, Owning
  <2> QED BY <1>1, <2>1, <2>2, <2>3, <2>4, <2>5, StepOf
<1>2. CASE ~(file = "absent" /\ holders = {})
  <2>1. Left(p) /\ UNCHANGED <<file, holders>>
    BY <1>2 DEF Creates
  <2>2. procs' \in [Process -> ProcType] /\ procs'[p].pc = "off" /\ \A q \in Process \ {p} : procs'[q] = procs[q]
    BY <2>1, HolderFacts, LeftFacts
  <2> QED BY <1>0, <2>1, <2>2, IdleStep DEF Owning
<1> QED BY <1>1, <1>2

\* The journal is filled with the sources, or removed.
LEMMA CreateEndsKeeps == ASSUME JournalInv, NEW p \in Process, CreateEnds(p) PROVE JournalInv'
<1>0. procs[p].pc = "creating" /\ p \in holders /\ file = "empty"
  BY DEF CreateEnds, At, JournalInv, Relies
<1>1. Left(p) /\ holders' = holders \ {p} /\ UNCHANGED work
  BY DEF CreateEnds
<1>2. procs' \in [Process -> ProcType] /\ procs'[p].pc = "off" /\ \A q \in Process \ {p} : procs'[q] = procs[q]
  BY <1>1, HolderFacts, LeftFacts
<1>3. Relies(procs'[p], p \in holders', file', data', work'[p])
  BY <1>1, <1>2, RestsEasy DEF Owning
<1>4. data' \in DataType /\ IsCurrent(data') /\ NothingOpen(data') /\ mishaps' \in 0..MaxFaults
  <2>1. CASE \E config \in Configs : data' = [Empty EXCEPT !.recorded = config]
    <3>1. PICK config \in Configs : data' = [Empty EXCEPT !.recorded = config]
      BY <2>1
    <3>2. config \in Config
      BY JournalAssumption DEF Config
    <3>3. data' \in DataType
      BY <3>1, <3>2 DEF DataType, Empty, Config, Incident
    <3>4. \A s \in Source : data'.boundary[s] = NoGeneration
      BY <3>1 DEF Empty
    <3>5. \A i \in Incident : data'.incidents[i] = "closed"
      BY <3>1 DEF Empty
    <3>6. \A s \in Source : OpenIn(data', s) = {}
      BY <3>5 DEF OpenIn, OpenStates, Incident
    <3>7. mishaps' \in 0..MaxFaults
      BY HolderFacts, JournalAssumption DEF CreateEnds
    <3> QED BY <3>3, <3>4, <3>6, <3>7 DEF IsCurrent, NothingOpen
  <2>2. CASE UNCHANGED data
    <3>1. mishaps' \in 0..MaxFaults
      BY HolderFacts, JournalAssumption DEF CreateEnds
    <3> QED BY <1>0, <2>2, <3>1 DEF JournalInv, JournalTypeOK
  <2> QED BY <2>1, <2>2 DEF CreateEnds
<1>5. JournalTypeOK'
  BY <1>1, <1>2, <1>4 DEF JournalInv, JournalTypeOK
<1>6. \A q \in Process \ {p} :
         /\ procs'[q] = procs[q] /\ work'[q] = work[q]
         /\ q \in holders' <=> q \in holders
  BY <1>1, <1>2
<1>7. holders' \subseteq Process /\ p \notin holders'
  BY <1>1 DEF JournalInv
<1> QED BY <1>0, <1>3, <1>4, <1>5, <1>6, <1>7, StepOf

LEMMA CrashKeeps == ASSUME JournalInv, NEW p \in Process, Crash(p) PROVE JournalInv'
<1>1. /\ Left(p) /\ holders' = holders \ {p} /\ work' = [work EXCEPT ![p] = Empty]
      /\ UNCHANGED <<file, data>>
  BY DEF Crash
<1>2. procs' \in [Process -> ProcType] /\ procs'[p].pc = "off" /\ \A q \in Process \ {p} : procs'[q] = procs[q]
  BY <1>1, HolderFacts, LeftFacts
<1>3. Empty \in DataType
  BY DEF DataType, Empty, Config
<1>4. /\ work' \in [Process -> DataType] /\ \A q \in Process \ {p} : work'[q] = work[q]
      /\ mishaps' \in 0..MaxFaults
  BY <1>1, <1>3, HolderFacts, JournalAssumption DEF Crash
<1>5. JournalTypeOK' /\ IsCurrent(data') /\ (file' # "journal" => NothingOpen(data'))
  BY <1>1, <1>2, <1>4 DEF JournalInv, JournalTypeOK
<1>6. Relies(procs'[p], p \in holders', file', data', work'[p])
  BY <1>1, <1>2, RestsEasy DEF Owning
<1>7. holders' \subseteq Process /\ p \notin holders' /\ \A q \in Process \ {p} : q \in holders' <=> q \in holders
  BY <1>1 DEF JournalInv
<1> QED BY <1>1, <1>2, <1>4, <1>5, <1>6, <1>7, StepOf

LEMMA MovesAsideKeeps == ASSUME JournalInv, MovesAside PROVE JournalInv'
<1>1. /\ file = "empty" /\ file' = "absent" /\ holders = {}
      /\ UNCHANGED <<lock, holders, procs, data, work, mishaps>> /\ \A p \in Process : procs[p].pc = "off"
  BY DEF MovesAside, At
<1>2. \A q \in Process : Relies(procs'[q], q \in holders', file', data', work'[q])
  BY <1>1 DEF Relies, Owning
<1> QED BY <1>1, <1>2 DEF JournalInv, JournalTypeOK, IsCurrent, NothingOpen, OpenIn

-----------------------------------------------------------------------------
(* The transactions of the process that has the journal.                   *)

LEMMA OwnerStep ==
    ASSUME JournalInv, NEW p \in Process, procs[p].pc \in Owning,
           UNCHANGED <<file, holders, mishaps>>,
           data' \in DataType, IsCurrent(data'),
           procs' \in [Process -> ProcType], work' \in [Process -> DataType],
           \A q \in Process \ {p} : procs'[q] = procs[q] /\ work'[q] = work[q],
           procs'[p].pc \in Owning,
           procs'[p].pc = "running" =>
              \A s \in Source : procs'[p].config[s] # NoGeneration
                                   => procs'[p].config[s] = data'.recorded[s],
           procs'[p].pc \in {"naming", "rebaselining"} => NamesOne(procs'[p].config),
           procs'[p].pc = "rebaselining" => WorkOf(procs'[p].config, data', work'[p])
    PROVE  JournalInv'
<1>1. p \in holders /\ file = "journal" /\ file' = "journal" /\ p \in holders'
  BY HolderFacts
<1>2. JournalTypeOK'
  BY HolderFacts DEF JournalTypeOK
<1>3. Relies(procs'[p], p \in holders', file', data', work'[p])
  BY <1>1 DEF Relies, Owning
<1>4. holders' \subseteq Process /\ \A q \in Process \ {p} : q \in holders' <=> q \in holders
  BY DEF JournalInv
<1> QED BY <1>1, <1>2, <1>3, <1>4, StepOf

\* A transaction of a running gateway.
LEMMA GatewayStep ==
    ASSUME JournalInv, NEW p \in Process, procs[p].pc = "running",
           UNCHANGED <<file, holders, procs, work, mishaps>>,
           data' \in DataType, IsCurrent(data'), data'.recorded = data.recorded
    PROVE  JournalInv'
<1>1. procs[p].pc \in Owning
  BY DEF Owning
<1>2. \A s \in Source : procs[p].config[s] # NoGeneration => procs[p].config[s] = data.recorded[s]
  BY DEF JournalInv, Relies
<1> QED BY <1>1, <1>2, HolderFacts, OwnerStep

LEMMA UpdatesKeeps == ASSUME JournalInv, NEW p \in Process, Updates(p) PROVE JournalInv'
<1>1. PICK s \in Source, to \in OpenStates \cup {"closed"} :
         /\ <<s, procs[p].config[s]>> \in Incident
         /\ data' = [data EXCEPT !.incidents[<<s, procs[p].config[s]>>] = to]
  BY DEF Updates
<1> DEFINE g == procs[p].config[s]
<1>2. procs[p].pc = "running" /\ UNCHANGED <<file, holders, procs, work, mishaps>>
  BY DEF Updates, At
<1>3. g \in Generation /\ g # NoGeneration /\ g = data.recorded[s]
  BY <1>1, <1>2, JournalAssumption DEF Incident, JournalInv, Relies
<1>4. data \in DataType
  BY HolderFacts
<1>5. data' \in DataType /\ data'.recorded = data.recorded /\ data'.boundary = data.boundary
  BY <1>1, <1>4 DEF DataType
<1>6. \A i \in Incident : i # <<s, g>> => data'.incidents[i] = data.incidents[i]
  BY <1>1, <1>4 DEF DataType
<1> HIDE DEF g
<1>7. \A t \in Source : OpenIn(data', t) \subseteq {data.recorded[t]}
  <2> SUFFICES ASSUME NEW t \in Source, NEW h \in OpenIn(data', t) PROVE h = data.recorded[t]
    OBVIOUS
  <2>1. h \in Generation /\ <<t, h>> \in Incident
    BY DEF OpenIn, Incident
  <2>2. CASE <<t, h>> = <<s, g>>
    BY <1>3, <2>2
  <2>3. CASE <<t, h>> # <<s, g>>
    <3>1. h \in OpenIn(data, t)
      BY <1>6, <2>1, <2>3 DEF OpenIn
    <3> QED BY <3>1 DEF JournalInv, IsCurrent
  <2> QED BY <2>2, <2>3
<1>8. IsCurrent(data')
  BY <1>5, <1>7 DEF JournalInv, IsCurrent
<1> QED BY <1>2, <1>5, <1>8, GatewayStep

LEMMA PreparesAdvanceKeeps ==
    ASSUME JournalInv, NEW p \in Process, PreparesAdvance(p) PROVE JournalInv'
<1>1. PICK s \in Source :
         /\ <<s, procs[p].config[s]>> \in Incident
         /\ data.recorded[s] = procs[p].config[s]
         /\ data' = [data EXCEPT !.incidents[<<s, procs[p].config[s]>>] = "unresolved",
                                 !.boundary[s] = procs[p].config[s]]
  BY DEF PreparesAdvance
<1> DEFINE g == procs[p].config[s]
<1>2. procs[p].pc = "running" /\ UNCHANGED <<file, holders, procs, work, mishaps>>
  BY DEF PreparesAdvance, At
<1>3. g \in Generation /\ g = data.recorded[s] /\ data \in DataType
  BY <1>1, HolderFacts DEF Incident
<1>5. data' \in DataType /\ data'.recorded = data.recorded
  BY <1>1, <1>3 DEF DataType, OpenStates, Config
<1>6. \A i \in Incident : i # <<s, g>> => data'.incidents[i] = data.incidents[i]
  BY <1>1, <1>3 DEF DataType
<1>7. \A t \in Source : data'.boundary[t] = IF t = s THEN g ELSE data.boundary[t]
  BY <1>1, <1>3 DEF DataType, Config
<1> HIDE DEF g
<1>8. \A t \in Source : OpenIn(data', t) \subseteq {data.recorded[t]}
  <2> SUFFICES ASSUME NEW t \in Source, NEW h \in OpenIn(data', t) PROVE h = data.recorded[t]
    OBVIOUS
  <2>1. h \in Generation /\ <<t, h>> \in Incident
    BY DEF OpenIn, Incident
  <2>2. CASE <<t, h>> = <<s, g>>
    BY <1>3, <2>2
  <2>3. CASE <<t, h>> # <<s, g>>
    <3>1. h \in OpenIn(data, t)
      BY <1>6, <2>1, <2>3 DEF OpenIn
    <3> QED BY <3>1 DEF JournalInv, IsCurrent
  <2> QED BY <2>2, <2>3
<1>9. IsCurrent(data')
  BY <1>3, <1>5, <1>7, <1>8 DEF JournalInv, IsCurrent
<1> QED BY <1>2, <1>5, <1>9, GatewayStep

LEMMA RetiresBoundaryKeeps ==
    ASSUME JournalInv, NEW p \in Process, RetiresBoundary(p) PROVE JournalInv'
<1>1. PICK s \in Source : data' = [data EXCEPT !.boundary[s] = NoGeneration]
  BY DEF RetiresBoundary
<1>2. procs[p].pc = "running" /\ UNCHANGED <<file, holders, procs, work, mishaps>>
  BY DEF RetiresBoundary, At
<1>3. data \in DataType
  BY HolderFacts
<1>4. data' \in DataType /\ data'.recorded = data.recorded /\ data'.incidents = data.incidents
  BY <1>1, <1>3 DEF DataType, Config
<1>5. \A t \in Source : data'.boundary[t] \in {NoGeneration, data.boundary[t]}
  BY <1>1, <1>3 DEF DataType, Config
<1>6. IsCurrent(data')
  BY <1>4, <1>5 DEF JournalInv, IsCurrent, OpenIn
<1> QED BY <1>2, <1>4, <1>6, GatewayStep

\* claim: what it records, and that nothing open is left behind.
LEMMA ClaimedFacts ==
    ASSUME NEW d \in DataType, NEW config \in Config, Claimable(d, config), IsCurrent(d)
    PROVE  /\ Claimed(d, config) \in DataType
           /\ IsCurrent(Claimed(d, config))
           /\ Claimed(d, config).incidents = d.incidents
           /\ \A s \in Source : Claimed(d, config).recorded[s]
                                   = IF config[s] = NoGeneration THEN d.recorded[s] ELSE config[s]
<1> DEFINE recorded == [s \in Source |-> IF config[s] = NoGeneration THEN d.recorded[s] ELSE config[s]]
           boundary == [s \in Source |-> IF config[s] \in {NoGeneration, d.boundary[s]}
                                         THEN d.boundary[s] ELSE NoGeneration]
           new == Claimed(d, config)
<1>1. recorded \in Config /\ boundary \in Config
  BY DEF Config, DataType
<1>2. new = [d EXCEPT !.recorded = recorded, !.boundary = boundary]
  BY DEF Claimed
<1>3. \A s \in Source :
         /\ recorded[s] = IF config[s] = NoGeneration THEN d.recorded[s] ELSE config[s]
         /\ boundary[s] = IF config[s] \in {NoGeneration, d.boundary[s]} THEN d.boundary[s] ELSE NoGeneration
  OBVIOUS
<1> HIDE DEF recorded, boundary
<1>4. /\ new.recorded = recorded /\ new.boundary = boundary /\ new.incidents = d.incidents
      /\ new \in DataType
  BY <1>1, <1>2 DEF DataType
<1> HIDE DEF new
<1>5. ASSUME NEW s \in Source
      PROVE  /\ OpenIn(new, s) \subseteq {new.recorded[s]}
             /\ new.boundary[s] \in {NoGeneration, new.recorded[s]}
  <2>1. OpenIn(new, s) = OpenIn(d, s)
    BY <1>4 DEF OpenIn
  <2>2. /\ OpenIn(d, s) \subseteq {d.recorded[s]}
        /\ d.boundary[s] \in {NoGeneration, d.recorded[s]}
    BY DEF IsCurrent
  <2>3. OpenIn(d, s) # {} => recorded[s] = d.recorded[s]
    BY <1>3 DEF Claimable
  <2>4. OpenIn(new, s) \subseteq {new.recorded[s]}
    BY <1>4, <2>1, <2>2, <2>3
  <2>5. boundary[s] \in {NoGeneration, recorded[s]}
    BY <1>3, <2>2
  <2> QED BY <1>4, <2>4, <2>5
<1>6. IsCurrent(new)
  BY <1>5 DEF IsCurrent
<1> QED BY <1>3, <1>4, <1>6 DEF new

LEMMA ClaimsKeeps == ASSUME JournalInv, NEW p \in Process, Claims(p) PROVE JournalInv'
<1>1. procs[p].pc \in Owning /\ UNCHANGED <<file, lock, holders, work, mishaps>>
  BY DEF Claims, At, Owning
<1>2. PICK config : config = procs[p].config
  OBVIOUS
<1>3. config \in Config /\ data \in DataType /\ IsCurrent(data)
  BY <1>2, HolderFacts DEF ProcType, JournalInv
<1>4. CASE Claimable(data, config)
  <2>1. PICK pc : pc = "running"
    OBVIOUS
  <2>2. data' = Claimed(data, config) /\ Goes(p, pc) /\ pc \in Pcs /\ pc \in Owning
    BY <1>2, <1>4, <2>1 DEF Claims, Pcs, Owning
  <2>3. /\ procs' \in [Process -> ProcType] /\ procs'[p].pc = pc /\ procs'[p].config = config
        /\ \A q \in Process \ {p} : procs'[q] = procs[q]
    BY <1>2, <2>2, GoesFacts, HolderFacts
  <2>4. /\ data' \in DataType /\ IsCurrent(data')
        /\ \A s \in Source : config[s] # NoGeneration => config[s] = data'.recorded[s]
    BY <1>3, <1>4, <2>2, ClaimedFacts
  <2> QED BY <1>1, <2>1, <2>2, <2>3, <2>4, HolderFacts, OwnerStep
<1>5. CASE ~Claimable(data, config)
  <2>1. PICK pc : pc = "closing"
    OBVIOUS
  <2>2. UNCHANGED data /\ Goes(p, pc) /\ pc \in Pcs /\ pc \in Owning
    BY <1>2, <1>5, <2>1 DEF Claims, Pcs, Owning
  <2>3. /\ procs' \in [Process -> ProcType] /\ procs'[p].pc = pc
        /\ \A q \in Process \ {p} : procs'[q] = procs[q]
    BY <2>2, GoesFacts, HolderFacts
  <2> QED BY <1>1, <1>3, <2>1, <2>2, <2>3, HolderFacts, OwnerStep
<1> QED BY <1>4, <1>5

-----------------------------------------------------------------------------
(* The rebaseline's transaction.                                           *)

\* The source the tool names is a source, and it is configured.
LEMMA TheSourceFacts ==
    ASSUME NEW p \in Process, NamesOne(procs[p].config)
    PROVE  TheSource(p) \in Source /\ procs[p].config[TheSource(p)] # NoGeneration
BY DEF NamesOne, TheSource

\* What the writes under way say is as current as what they started from.
LEMMA WorkIsCurrent ==
    ASSUME NEW config, NEW d, NEW w, WorkOf(config, d, w), IsCurrent(d)
    PROVE  IsCurrent(w) /\ \A s \in Source : OpenIn(w, s) \subseteq OpenIn(d, s)
<1>1. ASSUME NEW s \in Source, NEW g \in OpenIn(w, s)
      PROVE  g \in OpenIn(d, s)
  <2>1. g \in Generation /\ w.incidents[<<s, g>>] \in OpenStates
    BY DEF OpenIn
  <2>2. w.incidents[<<s, g>>] = d.incidents[<<s, g>>]
    BY <2>1 DEF WorkOf, OpenStates
  <2> QED BY <2>1, <2>2 DEF OpenIn
<1>2. w.recorded = d.recorded /\ w.boundary = d.boundary
  BY DEF WorkOf
<1> QED BY <1>1, <1>2 DEF IsCurrent

LEMMA RebaselineBeginsKeeps ==
    ASSUME JournalInv, NEW p \in Process, RebaselineBegins(p) PROVE JournalInv'
<1>1. procs[p].pc = "naming" /\ procs[p].pc \in Owning /\ UNCHANGED <<file, lock, holders, data, mishaps>>
  BY DEF RebaselineBegins, At, Owning
<1>2. NamesOne(procs[p].config) /\ data \in DataType /\ IsCurrent(data)
  BY <1>1, HolderFacts DEF JournalInv, Relies
<1>3. CASE UNCHANGED work /\ Goes(p, "closing")
  <2>1. PICK pc : pc = "closing"
    OBVIOUS
  <2>2. Goes(p, pc) /\ pc \in Pcs /\ pc \in Owning
    BY <1>3, <2>1 DEF Pcs, Owning
  <2>3. /\ procs' \in [Process -> ProcType] /\ procs'[p].pc = pc
        /\ \A q \in Process \ {p} : procs'[q] = procs[q]
    BY <2>2, GoesFacts, HolderFacts
  <2> QED BY <1>1, <1>2, <1>3, <2>1, <2>2, <2>3, HolderFacts, OwnerStep
<1>4. CASE work' = [work EXCEPT ![p] = data] /\ Goes(p, "rebaselining")
  <2>1. PICK pc : pc = "rebaselining"
    OBVIOUS
  <2>2. Goes(p, pc) /\ pc \in Pcs /\ pc \in Owning
    BY <1>4, <2>1 DEF Pcs, Owning
  <2>3. /\ procs' \in [Process -> ProcType] /\ procs'[p].pc = pc /\ procs'[p].config = procs[p].config
        /\ \A q \in Process \ {p} : procs'[q] = procs[q]
    BY <2>2, GoesFacts, HolderFacts
  <2>4. /\ work' \in [Process -> DataType] /\ work'[p] = data
        /\ \A q \in Process \ {p} : work'[q] = work[q]
    BY <1>2, <1>4, HolderFacts
  <2>5. WorkOf(procs'[p].config, data', work'[p])
    BY <1>1, <2>4 DEF WorkOf
  <2> QED BY <1>1, <1>2, <2>1, <2>2, <2>3, <2>4, <2>5, OwnerStep
<1> QED BY <1>3, <1>4 DEF RebaselineBegins

LEMMA ClosesStaleKeeps == ASSUME JournalInv, NEW p \in Process, ClosesStale(p) PROVE JournalInv'
<1>1. /\ procs[p].pc = "rebaselining" /\ procs[p].pc \in Owning
      /\ UNCHANGED <<file, lock, holders, procs, data, mishaps>>
  BY DEF ClosesStale, At, Owning
<1>2. /\ NamesOne(procs[p].config) /\ WorkOf(procs[p].config, data, work[p])
      /\ data \in DataType /\ IsCurrent(data) /\ work[p] \in DataType
  BY <1>1, HolderFacts DEF JournalInv, Relies
<1>3. PICK s : s = TheSource(p)
  OBVIOUS
<1>4. s \in Source /\ procs[p].config[s] # NoGeneration
  BY <1>2, <1>3, TheSourceFacts
<1>5. PICK g \in Stale(work[p], s, procs[p].config[s]) :
         work' = [work EXCEPT ![p].incidents[<<s, g>>] = "closed"]
  BY <1>3 DEF ClosesStale
<1>6. g \in Generation /\ procs[p].config[s] \notin {NoGeneration, g}
  BY <1>4, <1>5 DEF Stale, OpenIn
<1> DEFINE w == [work[p] EXCEPT !.incidents[<<s, g>>] = "closed"]
<1>7. w \in DataType /\ w.recorded = work[p].recorded /\ w.boundary = work[p].boundary
  BY <1>2 DEF DataType
<1>8. \A t \in Source, h \in Generation :
         w.incidents[<<t, h>>] = IF t = s /\ h = g THEN "closed" ELSE work[p].incidents[<<t, h>>]
  BY <1>2, <1>4, <1>6 DEF DataType, Incident
<1>9. work' = [work EXCEPT ![p] = w]
  BY <1>5
<1> HIDE DEF w
<1>10. /\ work' \in [Process -> DataType] /\ work'[p] = w
       /\ \A q \in Process \ {p} : work'[q] = work[q]
  BY <1>7, <1>9, HolderFacts
<1>11. WorkOf(procs[p].config, data, w)
  BY <1>2, <1>6, <1>7, <1>8 DEF WorkOf
<1> QED BY <1>1, <1>2, <1>10, <1>11, HolderFacts, OwnerStep

\* The configuration with which the rebaseline claims its source.
Rebaselined(p) ==
    [t \in Source |-> IF t = TheSource(p) /\ data.recorded[t] # NoGeneration
                      THEN procs[p].config[t] ELSE work[p].recorded[t]]

LEMMA RebaselineCommitsKeeps ==
    ASSUME JournalInv, NEW p \in Process, RebaselineCommits(p) PROVE JournalInv'
<1>1. /\ procs[p].pc = "rebaselining" /\ procs[p].pc \in Owning
      /\ UNCHANGED <<file, lock, holders, mishaps>> /\ work' = [work EXCEPT ![p] = Empty]
  BY DEF RebaselineCommits, At, Owning
<1>2. /\ NamesOne(procs[p].config) /\ WorkOf(procs[p].config, data, work[p])
      /\ data \in DataType /\ IsCurrent(data) /\ work[p] \in DataType
  BY <1>1, HolderFacts DEF JournalInv, Relies
<1>3. PICK config : config = Rebaselined(p)
  OBVIOUS
<1>4. config \in Config
  BY <1>2, <1>3, HolderFacts DEF Rebaselined, Config, DataType, ProcType
<1>5. data' = IF Claimable(work[p], config) THEN Claimed(work[p], config) ELSE data
  <2>1. config = [t \in Source |-> IF t = TheSource(p) /\ t \in {u \in Source : data.recorded[u] # NoGeneration}
                                   THEN procs[p].config[TheSource(p)] ELSE work[p].recorded[t]]
    BY <1>3 DEF Rebaselined
  <2> QED BY <2>1 DEF RebaselineCommits
<1>6. IsCurrent(work[p])
  BY <1>2, WorkIsCurrent
<1>7. data' \in DataType /\ IsCurrent(data')
  BY <1>2, <1>4, <1>5, <1>6, ClaimedFacts
<1>8. PICK pc : pc = "closing"
  OBVIOUS
<1>9. Goes(p, pc) /\ pc \in Pcs /\ pc \in Owning
  BY <1>8 DEF RebaselineCommits, Pcs, Owning
<1>10. /\ procs' \in [Process -> ProcType] /\ procs'[p].pc = pc
       /\ \A q \in Process \ {p} : procs'[q] = procs[q]
  BY <1>9, GoesFacts, HolderFacts
<1>11. Empty \in DataType
  BY DEF DataType, Empty, Config
<1>12. work' \in [Process -> DataType] /\ \A q \in Process \ {p} : work'[q] = work[q]
  BY <1>1, <1>11, HolderFacts
<1> QED BY <1>1, <1>7, <1>8, <1>9, <1>10, <1>12, OwnerStep

-----------------------------------------------------------------------------
(* The invariant, and what it says of the journal.                         *)

LEMMA JournalStarts == JournalInit => JournalInv
<1> SUFFICES ASSUME JournalInit PROVE JournalInv
  OBVIOUS
<1>1. Empty \in DataType /\ Off \in ProcType /\ Off.pc = "off"
  BY DEF Empty, Off, DataType, ProcType, Config
<1>2. JournalTypeOK
  BY <1>1, JournalAssumption DEF JournalInit, JournalTypeOK
<1>3. \A s \in Source : Empty.boundary[s] = NoGeneration /\ OpenIn(Empty, s) = {}
  BY DEF Empty, OpenIn, OpenStates, Incident
<1>4. IsCurrent(data) /\ NothingOpen(data)
  BY <1>3 DEF JournalInit, IsCurrent, NothingOpen
<1>5. holders = {} /\ file = "absent" /\ \A q \in Process : procs[q] = Off
  BY DEF JournalInit
<1>6. \A q \in Process : Relies(procs[q], q \in holders, file, data, work[q])
  BY <1>1, <1>5 DEF Relies, Owning
<1> QED BY <1>2, <1>4, <1>5, <1>6 DEF JournalInv

LEMMA JournalSteps == JournalInv /\ [JournalNext]_journalVars => JournalInv'
<1> SUFFICES ASSUME JournalInv, [JournalNext]_journalVars PROVE JournalInv'
  OBVIOUS
<1>1. CASE UNCHANGED journalVars
  BY <1>1 DEF journalVars, JournalInv, JournalTypeOK, IsCurrent, NothingOpen, OpenIn, Relies, WorkOf
<1>2. CASE MovesAside
  BY <1>2, MovesAsideKeeps
<1>3. ASSUME NEW p \in Process, Opening(p) PROVE JournalInv'
  BY <1>3, BeginsKeeps, LinksKeeps, JudgesKeeps, UnlinksKeeps, TakesDatabaseKeeps, InspectsKeeps,
     InspectRefusesKeeps, CreatesKeeps, CreateEndsKeeps DEF Opening
<1>4. ASSUME NEW p \in Process, Using(p) PROVE JournalInv'
  BY <1>4, ClaimsKeeps, UpdatesKeeps, PreparesAdvanceKeeps, RetiresBoundaryKeeps, StopsKeeps,
     RebaselineBeginsKeeps, ClosesStaleKeeps, RebaselineCommitsKeeps DEF Using
<1>5. ASSUME NEW p \in Process, Ending(p) PROVE JournalInv'
  BY <1>5, ClosesKeeps, ReleasesKeeps, ReleaseEndsKeeps, CrashKeeps DEF Ending
<1> QED BY <1>1, <1>2, <1>3, <1>4, <1>5 DEF JournalNext

\* The invariant of the journal's files: one holder of the database, and what each process
\* relies on between its calls of journal.ts.
THEOREM JournalInvariant == JournalSpec => []JournalInv
<1>1. JournalInit => JournalInv
  BY JournalStarts
<1>2. JournalInv /\ [JournalNext]_journalVars => JournalInv'
  BY JournalSteps
<1> QED BY <1>1, <1>2, PTL DEF JournalSpec

\* journal.ts:530-531: whatever the interleaving of starts, crashes and the takeovers of
\* journal.lock, at most one process has the journal open.
THEOREM JournalHasOneOwner == JournalSpec => []OneOwner
<1>1. JournalInv => OneOwner
  <2> SUFFICES ASSUME JournalInv PROVE OneOwner
    OBVIOUS
  <2> DEFINE open == {p \in Process : HasOpen(p)}
  <2>1. \A p \in open : p \in holders
    BY DEF HasOpen, JournalInv, Relies, Owning
  <2>2. \A p, q \in open : p = q
    BY <2>1 DEF JournalInv
  <2> HIDE DEF open
  <2>3. CASE open = {}
    BY <2>3, FS_EmptySet DEF open, OneOwner
  <2>4. CASE open # {}
    <3>1. PICK p : open = {p}
      BY <2>2, <2>4
    <3>2. Cardinality(open) = 1
      BY <3>1, FS_Singleton
    <3> QED BY <3>2 DEF open, OneOwner
  <2> QED BY <2>3, <2>4
<1> QED BY <1>1, JournalInvariant, PTL

\* journal.ts:784-788: no claim, removal, advance, rebaseline or crash leaves an open incident
\* or a boundary in force for a generation that is not the recorded one.
THEOREM OpenStaysCurrent == JournalSpec => []OpenIsCurrent
<1>1. JournalInv => OpenIsCurrent
  BY DEF JournalInv, IsCurrent, OpenIsCurrent
<1> QED BY <1>1, JournalInvariant, PTL

\* What the rebaseline's commit does to an incident that was open.
LEMMA CommitIsWhole ==
    ASSUME JournalInv, NEW p \in Process, RebaselineCommits(p),
           NEW s \in Source, NEW g \in OpenIn(data, s) \ OpenIn(data', s)
    PROVE  OpenIn(data', s) = {} /\ data.recorded[s] = g /\ data'.recorded[s] # g
<1>1. procs[p].pc = "rebaselining"
  BY DEF RebaselineCommits, At
<1>2. /\ NamesOne(procs[p].config) /\ WorkOf(procs[p].config, data, work[p])
      /\ IsCurrent(data) /\ work[p] \in DataType /\ data \in DataType
  BY <1>1, HolderFacts DEF JournalInv, Relies
<1>3. PICK config : config = Rebaselined(p)
  OBVIOUS
<1>4. config \in Config
  BY <1>2, <1>3, HolderFacts DEF Rebaselined, Config, DataType, ProcType
<1>5. data' = IF Claimable(work[p], config) THEN Claimed(work[p], config) ELSE data
  <2>1. config = [t \in Source |-> IF t = TheSource(p) /\ t \in {u \in Source : data.recorded[u] # NoGeneration}
                                   THEN procs[p].config[TheSource(p)] ELSE work[p].recorded[t]]
    BY <1>3 DEF Rebaselined
  <2> QED BY <2>1 DEF RebaselineCommits
<1>6. IsCurrent(work[p]) /\ OpenIn(work[p], s) \subseteq OpenIn(data, s)
  BY <1>2, WorkIsCurrent
<1>7. Claimable(work[p], config) /\ data' = Claimed(work[p], config)
  BY <1>5
<1>8. /\ data'.incidents = work[p].incidents
      /\ data'.recorded[s] = IF config[s] = NoGeneration THEN work[p].recorded[s] ELSE config[s]
  BY <1>2, <1>4, <1>6, <1>7, ClaimedFacts
<1>9. OpenIn(data', s) = OpenIn(work[p], s)
  BY <1>8 DEF OpenIn
<1>10. g \in Generation /\ data.recorded[s] = g /\ OpenIn(data, s) = {g} /\ g # NoGeneration
  BY <1>2, JournalAssumption DEF IsCurrent, OpenIn
<1>11. OpenIn(data', s) = {}
  BY <1>6, <1>9, <1>10
<1>12. work[p].incidents[<<s, g>>] # data.incidents[<<s, g>>]
  BY <1>9, <1>10 DEF OpenIn
<1>13. procs[p].config[s] \notin {NoGeneration, g}
  BY <1>2, <1>10, <1>12 DEF WorkOf
<1>14. TheSource(p) = s
  BY <1>2, <1>13, TheSourceFacts DEF NamesOne
<1>15. config[s] = procs[p].config[s]
  BY <1>3, <1>10, <1>14 DEF Rebaselined
<1>16. data'.recorded[s] # g
  BY <1>8, <1>13, <1>15
<1> QED BY <1>10, <1>11, <1>16

\* rebaseline.ts:36: an open incident is closed by the gateway of its generation, or leaves
\* with the whole generation, when the tool records another.
THEOREM RebaselinesAreWhole == JournalSpec => RebaselineIsWhole
<1> DEFINE Whole ==
       \A s \in Source : \A g \in OpenIn(data, s) \ OpenIn(data', s) :
          \/ \E p \in Process : procs[p].pc = "running" /\ procs[p].config[s] = g
          \/ OpenIn(data', s) = {} /\ data.recorded[s] = g /\ data'.recorded[s] # g
<1>1. JournalInv /\ [JournalNext]_journalVars => Whole
  <2> SUFFICES ASSUME JournalInv, [JournalNext]_journalVars,
                      NEW s \in Source, NEW g \in OpenIn(data, s) \ OpenIn(data', s)
               PROVE  \/ \E p \in Process : procs[p].pc = "running" /\ procs[p].config[s] = g
                      \/ OpenIn(data', s) = {} /\ data.recorded[s] = g /\ data'.recorded[s] # g
    OBVIOUS
  <2>1. data' # data /\ data'.incidents # data.incidents
    BY DEF OpenIn
  <2>2. PICK p \in Process : CreateEnds(p) \/ Claims(p) \/ Updates(p) \/ PreparesAdvance(p)
                             \/ RetiresBoundary(p) \/ RebaselineCommits(p)
    BY <2>1 DEF journalVars, JournalNext, Opening, Using, Ending, MovesAside, Begins, Links, Judges,
                Unlinks, TakesDatabase, Inspects, InspectRefuses, Creates, Stops, RebaselineBegins,
                ClosesStale, Closes, Releases, ReleaseEnds, Crash
  <2>3. CASE CreateEnds(p)
    <3>1. file # "journal"
      BY <2>3 DEF CreateEnds, At, JournalInv, Relies
    <3> QED BY <3>1 DEF JournalInv, NothingOpen
  <2>4. CASE Claims(p)
    <3>1. PICK config : config = procs[p].config
      OBVIOUS
    <3>2. Claimable(data, config) /\ data' = Claimed(data, config)
      BY <2>1, <2>4, <3>1 DEF Claims
    <3>3. data'.incidents = data.incidents
      BY <3>1, <3>2, HolderFacts, ClaimedFacts DEF ProcType, JournalInv
    <3> QED BY <2>1, <3>3
  <2>5. CASE Updates(p)
    <3>1. procs[p].pc = "running" /\ data \in DataType
      BY <2>5, HolderFacts DEF Updates, At
    <3>2. PICK t \in Source, to \in OpenStates \cup {"closed"} :
             data' = [data EXCEPT !.incidents[<<t, procs[p].config[t]>>] = to]
      BY <2>5 DEF Updates
    <3>3. g \in Generation /\ <<s, g>> \in Incident /\ data'.incidents[<<s, g>>] # data.incidents[<<s, g>>]
      BY DEF OpenIn, Incident
    <3>4. <<s, g>> = <<t, procs[p].config[t]>>
      BY <3>1, <3>2, <3>3 DEF DataType
    <3> QED BY <3>1, <3>4
  <2>6. CASE PreparesAdvance(p)
    <3>1. data \in DataType
      BY HolderFacts
    <3>2. PICK t \in Source :
             data' = [data EXCEPT !.incidents[<<t, procs[p].config[t]>>] = "unresolved",
                                  !.boundary[t] = procs[p].config[t]]
      BY <2>6 DEF PreparesAdvance
    <3>3. \A i \in Incident : data'.incidents[i] \in {data.incidents[i], "unresolved"}
      BY <3>1, <3>2 DEF DataType
    <3> QED BY <3>3 DEF OpenIn, OpenStates, Incident
  <2>7. CASE RetiresBoundary(p)
    BY <2>1, <2>7, HolderFacts DEF RetiresBoundary, DataType
  <2>8. CASE RebaselineCommits(p)
    BY <2>8, CommitIsWhole
  <2> QED BY <2>2, <2>3, <2>4, <2>5, <2>6, <2>7, <2>8
<1>2. JournalInv /\ [JournalNext]_journalVars => [Whole]_journalVars
  BY <1>1
<1> QED BY <1>2, JournalInvariant, PTL DEF JournalSpec, RebaselineIsWhole

-----------------------------------------------------------------------------
(* The socket: which gateway the files lead to, and what a caller knows.   *)

GatewayPhases == {"new", "starting", "listening", "closing", "drained", "closed"}

\* A gateway that starts or listens owns the files; so at most one does.
FilesAreItsOwn ==
    \A g \in Gateways :
       /\ gateways[g] = "starting" => files = [socket |-> None, token |-> g]
       /\ gateways[g] = "listening" => files = [socket |-> g, token |-> g]

\* A request has not run while its connection waits, or when its answer is a refusal; and once
\* its caller was refused there is nothing left that could run it.
HoldsTogether(caller, conn) ==
    /\ caller.pc \in {"new", "connecting"} => conn = NoConn
    /\ conn.phase \in {"none", "pending", "open"} => ~conn.ran /\ conn.reply = "none"
    /\ conn.reply = "refused" => ~conn.ran
    /\ caller.outcome = "refused" =>
          caller.pc = "done" /\ ~conn.ran /\ conn.phase \notin {"pending", "open"}

\* The inductive invariant.
SocketInv ==
    /\ SocketTypeOK
    /\ gateways \in [Gateways -> GatewayPhases]
    /\ FilesAreItsOwn
    /\ \A c \in Callers : HoldsTogether(callers[c], conns[c])

\* No gateway has the number that stands for no file.
LEMMA NoneIsNoGateway == None \notin Gateways
BY SocketAssumption DEF None, Gateways

LEMMA DestroyedHolds ==
    ASSUME NEW caller \in CallerType, NEW conn \in ConnType, HoldsTogether(caller, conn),
           conn.counted \/ conn.phase # "none"
    PROVE  Destroyed(conn) \in ConnType /\ HoldsTogether(caller, Destroyed(conn))
<1> DEFINE new == Destroyed(conn)
<1>1. /\ new \in ConnType /\ new.phase = "destroyed"
      /\ new.ran = conn.ran /\ new.reply = conn.reply
  BY DEF Destroyed, ConnType
<1>2. caller.pc \notin {"new", "connecting"}
  BY DEF HoldsTogether, NoConn
<1> HIDE DEF new
<1>3. HoldsTogether(caller, new)
  BY <1>1, <1>2 DEF HoldsTogether
<1> QED BY <1>1, <1>3 DEF new

LEMMA RefusalHolds ==
    ASSUME NEW caller \in CallerType, NEW conn \in ConnType, HoldsTogether(caller, conn),
           conn.phase \in {"pending", "open"}, NEW linger \in BOOLEAN
    PROVE  /\ Replying(conn, "refused", linger) \in ConnType
           /\ HoldsTogether(caller, Replying(conn, "refused", linger))
<1> DEFINE new == Replying(conn, "refused", linger)
<1>1. /\ new \in ConnType /\ new.phase = "replying" /\ new.reply = "refused"
      /\ new.ran = conn.ran
  BY DEF Replying, ConnType
<1>2. caller.pc \notin {"new", "connecting"} /\ ~conn.ran
  BY DEF HoldsTogether, NoConn
<1> HIDE DEF new
<1>3. HoldsTogether(caller, new)
  BY <1>1, <1>2 DEF HoldsTogether
<1> QED BY <1>1, <1>3 DEF new

LEMMA CallFacts ==
    ASSUME SocketInv
    PROVE  /\ callers \in [Callers -> CallerType] /\ conns \in [Callers -> ConnType]
           /\ \A c \in Callers : /\ callers[c] \in CallerType /\ conns[c] \in ConnType
                               /\ HoldsTogether(callers[c], conns[c])
BY DEF SocketInv, SocketTypeOK

\* A step of one connection.
LEMMA ConnStep ==
    ASSUME SocketInv, NEW c \in Callers, NEW conn \in ConnType, NEW caller \in CallerType,
           UNCHANGED <<gateways, files>>,
           conns' = [conns EXCEPT ![c] = conn], callers' = [callers EXCEPT ![c] = caller],
           HoldsTogether(caller, conn)
    PROVE  SocketInv'
<1>1. callers \in [Callers -> CallerType] /\ conns \in [Callers -> ConnType]
  BY CallFacts
<1>2. callers' \in [Callers -> CallerType] /\ conns' \in [Callers -> ConnType]
  BY <1>1
<1>3. ASSUME NEW e \in Callers PROVE HoldsTogether(callers'[e], conns'[e])
  <2>1. CASE e = c
    BY <1>1, <2>1
  <2>2. CASE e # c
    <3>1. callers'[e] = callers[e] /\ conns'[e] = conns[e]
      BY <1>1, <2>2
    <3> QED BY <3>1, CallFacts
  <2> QED BY <2>1, <2>2
<1> QED BY <1>2, <1>3 DEF SocketInv, SocketTypeOK, FilesAreItsOwn

\* A step of one connection that its caller does not see.
LEMMA ServerStep ==
    ASSUME SocketInv, NEW c \in Callers, NEW conn \in ConnType,
           UNCHANGED <<gateways, files, callers>>,
           conns' = [conns EXCEPT ![c] = conn],
           HoldsTogether(callers[c], conn)
    PROVE  SocketInv'
<1>1. callers' = [callers EXCEPT ![c] = callers[c]]
  BY CallFacts
<1> QED BY <1>1, CallFacts, ConnStep

\* A step of one gateway, and what it does to every connection.
LEMMA GatewayMoves ==
    ASSUME SocketInv, NEW g \in Gateways, UNCHANGED callers,
           NEW phase \in GatewayPhases, gateways' = [gateways EXCEPT ![g] = phase],
           files' \in [socket : Gateways \cup {None}, token : Gateways \cup {None}],
           FilesAreItsOwn',
           conns' \in [Callers -> ConnType],
           \A c \in Callers : HoldsTogether(callers[c], conns'[c])
    PROVE  SocketInv'
BY DEF SocketInv, SocketTypeOK

\* The files stay their owner's while no gateway begins to start or to listen.
LEMMA OthersFiles ==
    ASSUME SocketInv, NEW g \in Gateways, NEW phase \in {"closing", "drained", "closed"},
           gateways' = [gateways EXCEPT ![g] = phase],
           \A h \in Gateways \ {g} : files = [socket |-> h, token |-> h]
                                     \/ files = [socket |-> None, token |-> h] => files' = files
    PROVE  FilesAreItsOwn'
<1>1. gateways \in [Gateways -> GatewayPhases]
  BY DEF SocketInv
<1>2. gateways'[g] = phase /\ \A h \in Gateways \ {g} : gateways'[h] = gateways[h]
  BY <1>1
<1> QED BY <1>2 DEF SocketInv, FilesAreItsOwn

LEMMA FilesType ==
    ASSUME SocketInv
    PROVE  /\ files \in [socket : Gateways \cup {None}, token : Gateways \cup {None}]
           /\ gateways \in [Gateways -> GatewayPhases]
BY DEF SocketInv, SocketTypeOK

\* A start that is refused changes no file; one that goes on finds nobody listening.
LEMMA StartKeeps == ASSUME SocketInv, NEW g \in Gateways, Start(g) PROVE SocketInv'
<1>1. UNCHANGED <<callers, conns>> /\ \A h \in Gateways : gateways[h] # "starting"
  BY DEF Start
<1>2. CASE Listening(files.socket)
  <2>1. PICK phase : phase = "closed"
    OBVIOUS
  <2>2. /\ gateways' = [gateways EXCEPT ![g] = phase] /\ UNCHANGED files
        /\ phase \in {"closing", "drained", "closed"}
    BY <1>2, <2>1 DEF Start
  <2>3. FilesAreItsOwn'
    BY <2>2, OthersFiles
  <2> QED BY <1>1, <2>2, <2>3, CallFacts, FilesType, GatewayMoves DEF GatewayPhases
<1>3. CASE ~Listening(files.socket)
  <2>1. PICK phase : phase = "starting"
    OBVIOUS
  <2>2. /\ gateways' = [gateways EXCEPT ![g] = phase] /\ files' = [socket |-> None, token |-> g]
        /\ phase \in GatewayPhases
    BY <1>3, <2>1 DEF Start, GatewayPhases
  <2>3. \A h \in Gateways : gateways[h] # "listening"
    BY <1>3, NoneIsNoGateway DEF Listening, SocketInv, FilesAreItsOwn
  <2>4. gateways'[g] = "starting" /\ \A h \in Gateways \ {g} : gateways'[h] \notin {"starting", "listening"}
    BY <1>1, <2>1, <2>2, <2>3, FilesType
  <2>5. FilesAreItsOwn'
    BY <2>2, <2>4 DEF FilesAreItsOwn
  <2> QED BY <1>1, <2>2, <2>5, CallFacts, GatewayMoves
<1> QED BY <1>2, <1>3

\* Only the one that starts owns the token, so nobody else listens.
LEMMA ListenKeeps == ASSUME SocketInv, NEW g \in Gateways, Listen(g) PROVE SocketInv'
<1>1. UNCHANGED <<callers, conns>> /\ gateways[g] = "starting"
  BY DEF Listen
<1>2. files = [socket |-> None, token |-> g]
  BY <1>1 DEF SocketInv, FilesAreItsOwn
<1>3. \A h \in Gateways \ {g} : gateways[h] \notin {"starting", "listening"}
  BY <1>2 DEF SocketInv, FilesAreItsOwn
<1>4. CASE /\ gateways' = [gateways EXCEPT ![g] = "listening"]
           /\ files' = [files EXCEPT !.socket = g]
  <2>1. PICK phase : phase = "listening"
    OBVIOUS
  <2>2. gateways' = [gateways EXCEPT ![g] = phase] /\ phase \in GatewayPhases
    BY <1>4, <2>1 DEF GatewayPhases
  <2>3. files' = [socket |-> g, token |-> g]
    BY <1>2, <1>4
  <2>4. gateways'[g] = "listening" /\ \A h \in Gateways \ {g} : gateways'[h] \notin {"starting", "listening"}
    BY <1>3, <2>1, <2>2, FilesType
  <2>5. FilesAreItsOwn'
    BY <2>3, <2>4 DEF FilesAreItsOwn
  <2> QED BY <1>1, <2>2, <2>3, <2>5, CallFacts, GatewayMoves
<1>5. CASE /\ gateways' = [gateways EXCEPT ![g] = "closed"]
           /\ files' = [files EXCEPT !.token = IF @ = g THEN None ELSE @]
  <2>1. PICK phase : phase = "closed"
    OBVIOUS
  <2>2. gateways' = [gateways EXCEPT ![g] = phase] /\ phase \in GatewayPhases
    BY <1>5, <2>1 DEF GatewayPhases
  <2>3. files' = [socket |-> None, token |-> None]
    BY <1>2, <1>5
  <2>4. \A h \in Gateways : gateways'[h] \notin {"starting", "listening"}
    BY <1>3, <2>1, <2>2, FilesType
  <2>5. FilesAreItsOwn'
    BY <2>4 DEF FilesAreItsOwn
  <2> QED BY <1>1, <2>2, <2>3, <2>5, CallFacts, GatewayMoves
<1> QED BY <1>4, <1>5 DEF Listen

\* What the socket's end does to a connection.
LEMMA CloseKeeps == ASSUME SocketInv, NEW g \in Gateways, Close(g) PROVE SocketInv'
<1>1. PICK phase : phase = "closing"
  OBVIOUS
<1>2. /\ gateways' = [gateways EXCEPT ![g] = phase] /\ phase \in GatewayPhases
      /\ phase \in {"closing", "drained", "closed"}
      /\ UNCHANGED callers
      /\ files' = [files EXCEPT !.socket = IF @ = g THEN None ELSE @]
  BY <1>1 DEF Close, GatewayPhases
<1>3. files' \in [socket : Gateways \cup {None}, token : Gateways \cup {None}]
  BY <1>2, FilesType
<1>4. \A h \in Gateways \ {g} : files = [socket |-> h, token |-> h]
                                \/ files = [socket |-> None, token |-> h] => files' = files
  BY <1>2, NoneIsNoGateway
<1>5. FilesAreItsOwn'
  BY <1>2, <1>4, OthersFiles
<1>6. ASSUME NEW c \in Callers
      PROVE  conns'[c] \in ConnType /\ HoldsTogether(callers[c], conns'[c])
  <2>1. conns'[c] = IF c \in Lingering(g) THEN Destroyed(conns[c])
                    ELSE IF c \in Counted(g) /\ conns[c].phase = "open"
                    THEN Replying(conns[c], "refused", FALSE) ELSE conns[c]
    BY DEF Close
  <2>2. CASE c \in Lingering(g)
    BY <2>1, <2>2, CallFacts, DestroyedHolds DEF Lingering
  <2>3. CASE c \notin Lingering(g) /\ c \in Counted(g) /\ conns[c].phase = "open"
    BY <2>1, <2>3, CallFacts, RefusalHolds
  <2>4. CASE c \notin Lingering(g) /\ ~(c \in Counted(g) /\ conns[c].phase = "open")
    BY <2>1, <2>4, CallFacts
  <2> QED BY <2>2, <2>3, <2>4
<1>7. conns' \in [Callers -> ConnType]
  BY <1>6 DEF Close
<1> QED BY <1>2, <1>3, <1>5, <1>6, <1>7, GatewayMoves

LEMMA DrainsKeeps == ASSUME SocketInv, NEW g \in Gateways, Drains(g) PROVE SocketInv'
<1>1. PICK phase : phase = "drained"
  OBVIOUS
<1>2. /\ gateways' = [gateways EXCEPT ![g] = phase] /\ phase \in GatewayPhases
      /\ phase \in {"closing", "drained", "closed"} /\ UNCHANGED <<files, callers>>
  BY <1>1 DEF Drains, GatewayPhases
<1>3. FilesAreItsOwn'
  BY <1>2, OthersFiles
<1>4. ASSUME NEW c \in Callers
      PROVE  conns'[c] \in ConnType /\ HoldsTogether(callers[c], conns'[c])
  <2>1. conns'[c] = IF c \in Counted(g) THEN Destroyed(conns[c]) ELSE conns[c]
    BY DEF Drains
  <2>2. CASE c \in Counted(g)
    BY <2>1, <2>2, CallFacts, DestroyedHolds DEF Counted
  <2>3. CASE c \notin Counted(g)
    BY <2>1, <2>3, CallFacts
  <2> QED BY <2>2, <2>3
<1>5. conns' \in [Callers -> ConnType]
  BY <1>4 DEF Drains
<1> QED BY <1>2, <1>3, <1>4, <1>5, FilesType, GatewayMoves

LEMMA CloseEndsKeeps == ASSUME SocketInv, NEW g \in Gateways, CloseEnds(g) PROVE SocketInv'
<1>1. PICK phase : phase = "closed"
  OBVIOUS
<1>2. /\ gateways' = [gateways EXCEPT ![g] = phase] /\ phase \in GatewayPhases
      /\ phase \in {"closing", "drained", "closed"} /\ UNCHANGED <<callers, conns>>
      /\ files' = [socket |-> IF files.socket = g THEN None ELSE files.socket,
                   token |-> IF files.token = g THEN None ELSE files.token]
  BY <1>1 DEF CloseEnds, GatewayPhases
<1>3. files' \in [socket : Gateways \cup {None}, token : Gateways \cup {None}]
  BY <1>2, FilesType
<1>4. \A h \in Gateways \ {g} : files = [socket |-> h, token |-> h]
                                \/ files = [socket |-> None, token |-> h] => files' = files
  BY <1>2, NoneIsNoGateway
<1>5. FilesAreItsOwn'
  BY <1>2, <1>4, OthersFiles
<1> QED BY <1>2, <1>3, <1>5, CallFacts, GatewayMoves

LEMMA GatewayDiesKeeps == ASSUME SocketInv, NEW g \in Gateways, GatewayDies(g) PROVE SocketInv'
<1>1. PICK phase : phase = "closed"
  OBVIOUS
<1>2. /\ gateways' = [gateways EXCEPT ![g] = phase] /\ phase \in GatewayPhases
      /\ phase \in {"closing", "drained", "closed"} /\ UNCHANGED <<files, callers>>
  BY <1>1 DEF GatewayDies, GatewayPhases
<1>3. FilesAreItsOwn'
  BY <1>2, OthersFiles
<1>4. ASSUME NEW c \in Callers
      PROVE  conns'[c] \in ConnType /\ HoldsTogether(callers[c], conns'[c])
  <2>1. conns'[c] = IF c \in Alive(g) THEN Destroyed(conns[c]) ELSE conns[c]
    BY DEF GatewayDies
  <2>2. CASE c \in Alive(g)
    BY <2>1, <2>2, CallFacts, DestroyedHolds DEF Alive
  <2>3. CASE c \notin Alive(g)
    BY <2>1, <2>3, CallFacts
  <2> QED BY <2>2, <2>3
<1>5. conns' \in [Callers -> ConnType]
  BY <1>4 DEF GatewayDies
<1> QED BY <1>2, <1>3, <1>4, <1>5, FilesType, GatewayMoves

-----------------------------------------------------------------------------
(* One connection, and its caller.                                         *)

LEMMA ServeKeeps == ASSUME SocketInv, NEW c \in Callers, Serve(c) PROVE SocketInv'
<1>1. conns[c].phase = "pending" /\ UNCHANGED <<gateways, files, callers>>
  BY DEF Serve
<1>2. conns[c] \in ConnType /\ callers[c] \in CallerType /\ HoldsTogether(callers[c], conns[c])
  BY CallFacts
<1>3. CASE conns' = [conns EXCEPT ![c] = Replying(@, "refused", TRUE)]
  <2> DEFINE new == Replying(conns[c], "refused", TRUE)
  <2>1. new \in ConnType /\ HoldsTogether(callers[c], new)
    BY <1>1, <1>2, RefusalHolds
  <2>2. conns' = [conns EXCEPT ![c] = new]
    BY <1>3
  <2> HIDE DEF new
  <2> QED BY <1>1, <2>1, <2>2, ServerStep
<1>4. CASE conns' = [conns EXCEPT ![c] = [@ EXCEPT !.phase = "open", !.counted = TRUE]]
  <2> DEFINE new == [conns[c] EXCEPT !.phase = "open", !.counted = TRUE]
  <2>1. /\ new \in ConnType /\ new.phase = "open" /\ new.ran = conns[c].ran
        /\ new.reply = conns[c].reply
    BY <1>2 DEF ConnType
  <2>2. conns' = [conns EXCEPT ![c] = new]
    BY <1>4
  <2>3. callers[c].pc \notin {"new", "connecting"} /\ callers[c].outcome # "refused"
    BY <1>1, <1>2 DEF HoldsTogether, NoConn
  <2> HIDE DEF new
  <2>4. HoldsTogether(callers[c], new)
    BY <1>1, <1>2, <2>1, <2>3 DEF HoldsTogether
  <2> QED BY <1>1, <2>1, <2>2, <2>4, ServerStep
<1> QED BY <1>3, <1>4 DEF Serve

LEMMA LineArrivesKeeps == ASSUME SocketInv, NEW c \in Callers, LineArrives(c) PROVE SocketInv'
<1>1. conns[c].phase = "open" /\ UNCHANGED <<gateways, files, callers>>
  BY DEF LineArrives
<1>2. conns[c] \in ConnType /\ callers[c] \in CallerType /\ HoldsTogether(callers[c], conns[c])
  BY CallFacts
<1>3. ASSUME NEW oversize \in BOOLEAN, conns' = [conns EXCEPT ![c] = Replying(@, "refused", oversize)]
      PROVE  SocketInv'
  <2> DEFINE new == Replying(conns[c], "refused", oversize)
  <2>1. new \in ConnType /\ HoldsTogether(callers[c], new)
    BY <1>1, <1>2, RefusalHolds
  <2>2. conns' = [conns EXCEPT ![c] = new]
    BY <1>3
  <2> HIDE DEF new
  <2> QED BY <1>1, <2>1, <2>2, ServerStep
<1>4. CASE conns' = [conns EXCEPT ![c] = [@ EXCEPT !.phase = "running", !.ran = TRUE]]
  <2> DEFINE new == [conns[c] EXCEPT !.phase = "running", !.ran = TRUE]
  <2>1. new \in ConnType /\ new.phase = "running" /\ new.reply = conns[c].reply
    BY <1>2 DEF ConnType
  <2>2. conns' = [conns EXCEPT ![c] = new]
    BY <1>4
  <2>3. /\ callers[c].pc \notin {"new", "connecting"} /\ callers[c].outcome # "refused"
        /\ conns[c].reply = "none"
    BY <1>1, <1>2 DEF HoldsTogether, NoConn
  <2> HIDE DEF new
  <2>4. HoldsTogether(callers[c], new)
    BY <2>1, <2>3 DEF HoldsTogether
  <2> QED BY <1>1, <2>1, <2>2, <2>4, ServerStep
<1>5. PICK bad \in BOOLEAN, oversize \in BOOLEAN :
         conns' = [conns EXCEPT ![c] =
            IF bad \/ oversize \/ callers[c].token # conns[c].gateway
            THEN Replying(@, "refused", oversize) ELSE [@ EXCEPT !.phase = "running", !.ran = TRUE]]
  BY DEF LineArrives
<1>6. CASE bad \/ oversize \/ callers[c].token # conns[c].gateway
  <2>1. conns' = [conns EXCEPT ![c] = Replying(@, "refused", oversize)]
    BY <1>5, <1>6
  <2> QED BY <1>3, <2>1
<1>7. CASE ~(bad \/ oversize \/ callers[c].token # conns[c].gateway)
  <2>1. conns' = [conns EXCEPT ![c] = [@ EXCEPT !.phase = "running", !.ran = TRUE]]
    BY <1>5, <1>7
  <2> QED BY <1>4, <2>1
<1> QED BY <1>6, <1>7

\* The connection is over, whatever it was doing.
LEMMA DestroyStep ==
    ASSUME SocketInv, NEW c \in Callers, conns[c].phase # "none",
           UNCHANGED <<gateways, files, callers>>,
           conns' = [conns EXCEPT ![c] = Destroyed(@)]
    PROVE  SocketInv'
<1> DEFINE new == Destroyed(conns[c])
<1>1. new \in ConnType /\ HoldsTogether(callers[c], new)
  BY CallFacts, DestroyedHolds
<1>2. conns' = [conns EXCEPT ![c] = new]
  OBVIOUS
<1> HIDE DEF new
<1> QED BY <1>1, <1>2, ServerStep

LEMMA IdleEndsKeeps == ASSUME SocketInv, NEW c \in Callers, IdleEnds(c) PROVE SocketInv'
BY DestroyStep DEF IdleEnds

LEMMA LingerEndsKeeps == ASSUME SocketInv, NEW c \in Callers, LingerEnds(c) PROVE SocketInv'
BY DestroyStep DEF LingerEnds

LEMMA OperatorAnswersKeeps ==
    ASSUME SocketInv, NEW c \in Callers, OperatorAnswers(c) PROVE SocketInv'
<1>1. conns[c].phase = "running" /\ UNCHANGED <<gateways, files, callers>>
  BY DEF OperatorAnswers
<1>2. conns[c] \in ConnType /\ callers[c] \in CallerType /\ HoldsTogether(callers[c], conns[c])
  BY CallFacts
<1> DEFINE new == Replying(conns[c], "data", FALSE)
<1>3. /\ new \in ConnType /\ new.phase = "replying" /\ new.reply = "data" /\ new.ran = conns[c].ran
  BY <1>2 DEF Replying, ConnType
<1>4. conns' = [conns EXCEPT ![c] = new]
  BY DEF OperatorAnswers
<1>5. callers[c].pc \notin {"new", "connecting"}
  BY <1>1, <1>2 DEF HoldsTogether, NoConn
<1> HIDE DEF new
<1>6. HoldsTogether(callers[c], new)
  BY <1>2, <1>3, <1>5 DEF HoldsTogether
<1> QED BY <1>1, <1>3, <1>4, <1>6, ServerStep

LEMMA FlushedKeeps == ASSUME SocketInv, NEW c \in Callers, Flushed(c) PROVE SocketInv'
<1>1. conns[c].phase = "replying" /\ UNCHANGED <<gateways, files>>
  BY DEF Flushed
<1>2. conns[c] \in ConnType /\ callers[c] \in CallerType /\ HoldsTogether(callers[c], conns[c])
  BY CallFacts
<1>3. PICK conn : /\ conns' = [conns EXCEPT ![c] = conn] /\ conn \in ConnType
                  /\ conn.phase \in {"lingering", "destroyed"}
                  /\ conn.ran = conns[c].ran /\ conn.reply = conns[c].reply
  <2> DEFINE lingers == [conns[c] EXCEPT !.phase = "lingering", !.counted = FALSE]
             ended == Destroyed(conns[c])
  <2>1. /\ lingers \in ConnType /\ lingers.phase = "lingering"
        /\ lingers.ran = conns[c].ran /\ lingers.reply = conns[c].reply
    BY <1>2 DEF ConnType
  <2>2. /\ ended \in ConnType /\ ended.phase = "destroyed"
        /\ ended.ran = conns[c].ran /\ ended.reply = conns[c].reply
    BY <1>2 DEF ConnType, Destroyed
  <2>3. conns' = [conns EXCEPT ![c] = lingers] \/ conns' = [conns EXCEPT ![c] = ended]
    BY DEF Flushed
  <2> HIDE DEF lingers, ended
  <2> QED BY <2>1, <2>2, <2>3
<1>4. callers[c].pc \notin {"new", "connecting"}
  BY <1>1, <1>2 DEF HoldsTogether, NoConn
<1>5. CASE UNCHANGED callers
  <2>1. HoldsTogether(callers[c], conn)
    BY <1>2, <1>3, <1>4 DEF HoldsTogether
  <2> QED BY <1>1, <1>3, <1>5, <2>1, ServerStep
<1>6. CASE Told(c, conns[c].reply)
  <2> DEFINE told == [callers[c] EXCEPT !.pc = "done", !.outcome = conns[c].reply]
  <2>1. conns[c].reply \in {"none", "data", "refused", "no-answer"}
    BY <1>2 DEF ConnType
  <2>2. told \in CallerType /\ told.pc = "done" /\ told.outcome = conns[c].reply
    BY <1>2, <2>1 DEF CallerType
  <2>3. callers' = [callers EXCEPT ![c] = told]
    BY <1>6 DEF Told
  <2> HIDE DEF told
  <2>4. HoldsTogether(told, conn)
    BY <1>2, <1>3, <2>2 DEF HoldsTogether
  <2> QED BY <1>1, <1>3, <2>2, <2>3, <2>4, ConnStep
<1> QED BY <1>5, <1>6 DEF Flushed, ToldInTime

\* A step of a caller that leaves its connection alone.
LEMMA CallerStep ==
    ASSUME SocketInv, NEW c \in Callers, NEW caller \in CallerType,
           UNCHANGED <<gateways, files, conns>>,
           callers' = [callers EXCEPT ![c] = caller],
           HoldsTogether(caller, conns[c])
    PROVE  SocketInv'
<1>1. conns' = [conns EXCEPT ![c] = conns[c]]
  BY CallFacts
<1> QED BY <1>1, CallFacts, ConnStep

\* A caller that has no connection is refused: nothing can run its request.
LEMMA RefusedUnsent ==
    ASSUME SocketInv, NEW c \in Callers, callers[c].pc \in {"new", "connecting"},
           UNCHANGED <<gateways, files, conns>>, Told(c, "refused")
    PROVE  SocketInv'
<1> DEFINE told == [callers[c] EXCEPT !.pc = "done", !.outcome = "refused"]
<1>1. conns[c] = NoConn /\ callers[c] \in CallerType
  BY CallFacts DEF HoldsTogether
<1>2. told \in CallerType /\ told.pc = "done" /\ told.outcome = "refused"
  BY <1>1 DEF CallerType
<1>3. callers' = [callers EXCEPT ![c] = told]
  BY DEF Told
<1> HIDE DEF told
<1>4. HoldsTogether(told, conns[c])
  BY <1>1, <1>2 DEF HoldsTogether, NoConn
<1> QED BY <1>2, <1>3, <1>4, CallerStep

LEMMA CallKeeps == ASSUME SocketInv, NEW c \in Callers, Call(c) PROVE SocketInv'
<1>1. callers[c].pc = "new" /\ UNCHANGED <<gateways, files, conns>>
  BY DEF Call
<1>2. callers[c] \in CallerType /\ conns[c] = NoConn /\ HoldsTogether(callers[c], conns[c])
  BY <1>1, CallFacts DEF HoldsTogether
<1>3. CASE Told(c, "refused")
  BY <1>1, <1>3, RefusedUnsent
<1>4. CASE callers' = [callers EXCEPT ![c] = [@ EXCEPT !.pc = "connecting", !.token = files.token]]
  <2> DEFINE caller == [callers[c] EXCEPT !.pc = "connecting", !.token = files.token]
  <2>1. files.token \in Gateways \cup {None}
    BY FilesType
  <2>2. caller \in CallerType /\ caller.pc = "connecting" /\ caller.outcome = callers[c].outcome
    BY <1>2, <2>1 DEF CallerType
  <2>3. callers' = [callers EXCEPT ![c] = caller]
    BY <1>4
  <2> HIDE DEF caller
  <2>4. callers[c].outcome # "refused"
    BY <1>1, <1>2 DEF HoldsTogether
  <2>5. HoldsTogether(caller, conns[c])
    BY <1>2, <2>2, <2>4 DEF HoldsTogether, NoConn
  <2> QED BY <1>1, <2>2, <2>3, <2>5, CallerStep
<1> QED BY <1>3, <1>4 DEF Call

LEMMA ConnectKeeps == ASSUME SocketInv, NEW c \in Callers, Connect(c) PROVE SocketInv'
<1>1. callers[c].pc = "connecting" /\ UNCHANGED <<gateways, files>>
  BY DEF Connect
<1>2. callers[c] \in CallerType /\ conns[c] = NoConn /\ HoldsTogether(callers[c], conns[c])
  BY <1>1, CallFacts DEF HoldsTogether
<1>3. CASE Told(c, "refused") /\ UNCHANGED conns
  BY <1>1, <1>3, RefusedUnsent
<1>4. CASE /\ Listening(files.socket)
           /\ callers' = [callers EXCEPT ![c].pc = "sent"]
           /\ conns' = [conns EXCEPT ![c] = [@ EXCEPT !.phase = "pending", !.gateway = files.socket]]
  <2> DEFINE caller == [callers[c] EXCEPT !.pc = "sent"]
             conn == [conns[c] EXCEPT !.phase = "pending", !.gateway = files.socket]
  <2>1. files.socket \in Gateways \cup {None} /\ conns[c] \in ConnType
    BY FilesType, CallFacts
  <2>2. caller \in CallerType /\ caller.pc = "sent" /\ caller.outcome = callers[c].outcome
    BY <1>2 DEF CallerType
  <2>3. conn \in ConnType /\ conn.phase = "pending" /\ conn.ran = FALSE /\ conn.reply = "none"
    <3>1. conns[c].ran = FALSE /\ conns[c].reply = "none"
      BY <1>2 DEF NoConn
    <3>2. conn.phase = "pending" /\ conn.ran = conns[c].ran /\ conn.reply = conns[c].reply
      BY <2>1 DEF ConnType
    <3>3. conn \in ConnType
      BY <2>1 DEF ConnType
    <3> QED BY <3>1, <3>2, <3>3
  <2>4. callers' = [callers EXCEPT ![c] = caller] /\ conns' = [conns EXCEPT ![c] = conn]
    BY <1>4
  <2> HIDE DEF caller, conn
  <2>5. callers[c].outcome # "refused"
    BY <1>1, <1>2 DEF HoldsTogether
  <2>6. HoldsTogether(caller, conn)
    BY <2>2, <2>3, <2>5 DEF HoldsTogether
  <2> QED BY <1>1, <2>2, <2>3, <2>4, <2>6, ConnStep
<1> QED BY <1>3, <1>4 DEF Connect

LEMMA TimesOutKeeps == ASSUME SocketInv, NEW c \in Callers, TimesOut(c) PROVE SocketInv'
<1>1. /\ callers[c].pc \in {"connecting", "sent"} /\ UNCHANGED <<gateways, files>>
      /\ Told(c, IF callers[c].pc = "sent" THEN "no-answer" ELSE "refused")
      /\ conns' = [conns EXCEPT ![c] = IF @.phase \in {"none", "running"} THEN @ ELSE Destroyed(@)]
  BY DEF TimesOut
<1>2. /\ callers[c] \in CallerType /\ conns[c] \in ConnType /\ HoldsTogether(callers[c], conns[c])
      /\ conns \in [Callers -> ConnType]
  BY CallFacts
<1>3. CASE callers[c].pc = "connecting"
  <2>1. conns[c].phase = "none"
    BY <1>2, <1>3 DEF HoldsTogether, NoConn
  <2>2. UNCHANGED conns /\ Told(c, "refused")
    BY <1>1, <1>2, <1>3, <2>1
  <2> QED BY <1>1, <1>3, <2>2, RefusedUnsent
<1>4. CASE callers[c].pc = "sent"
  <2> DEFINE told == [callers[c] EXCEPT !.pc = "done", !.outcome = "no-answer"]
             conn == IF conns[c].phase \in {"none", "running"} THEN conns[c] ELSE Destroyed(conns[c])
  <2>1. told \in CallerType /\ told.pc = "done" /\ told.outcome = "no-answer"
    BY <1>2 DEF CallerType
  <2>2. callers' = [callers EXCEPT ![c] = told] /\ conns' = [conns EXCEPT ![c] = conn]
    BY <1>1, <1>4 DEF Told
  <2>3. conn \in ConnType /\ HoldsTogether(callers[c], conn)
    BY <1>2, DestroyedHolds
  <2> HIDE DEF told, conn
  <2>4. HoldsTogether(told, conn)
    BY <1>2, <2>1, <2>3 DEF HoldsTogether
  <2> QED BY <1>1, <2>1, <2>2, <2>3, <2>4, ConnStep
<1> QED BY <1>1, <1>3, <1>4

LEMMA ConnectionLostKeeps ==
    ASSUME SocketInv, NEW c \in Callers, ConnectionLost(c) PROVE SocketInv'
<1>1. UNCHANGED <<gateways, files, conns>> /\ Told(c, "no-answer")
  BY DEF ConnectionLost
<1>2. callers[c] \in CallerType /\ HoldsTogether(callers[c], conns[c])
  BY CallFacts
<1> DEFINE told == [callers[c] EXCEPT !.pc = "done", !.outcome = "no-answer"]
<1>3. told \in CallerType /\ told.pc = "done" /\ told.outcome = "no-answer"
  BY <1>2 DEF CallerType
<1>4. callers' = [callers EXCEPT ![c] = told]
  BY <1>1 DEF Told
<1> HIDE DEF told
<1>5. HoldsTogether(told, conns[c])
  BY <1>2, <1>3 DEF HoldsTogether
<1> QED BY <1>1, <1>3, <1>4, <1>5, CallerStep

-----------------------------------------------------------------------------
(* The invariant, and what it says to callers.                             *)

LEMMA SocketStarts == SocketInit => SocketInv
<1> SUFFICES ASSUME SocketInit PROVE SocketInv
  OBVIOUS
<1>1. NoConn \in ConnType /\ NoConn.phase = "none" /\ NoConn.ran = FALSE /\ NoConn.reply = "none"
  BY DEF NoConn, ConnType
<1>2. SocketTypeOK /\ gateways \in [Gateways -> GatewayPhases]
  BY <1>1 DEF SocketInit, SocketTypeOK, CallerType, GatewayPhases
<1>3. FilesAreItsOwn
  BY DEF SocketInit, FilesAreItsOwn
<1>4. \A c \in Callers : HoldsTogether(callers[c], conns[c])
  BY <1>1 DEF SocketInit, HoldsTogether
<1> QED BY <1>2, <1>3, <1>4 DEF SocketInv

LEMMA SocketSteps == SocketInv /\ [SocketNext]_socketVars => SocketInv'
<1> SUFFICES ASSUME SocketInv, [SocketNext]_socketVars PROVE SocketInv'
  OBVIOUS
<1>1. CASE UNCHANGED socketVars
  BY <1>1 DEF socketVars, SocketInv, SocketTypeOK, FilesAreItsOwn
<1>2. ASSUME NEW g \in Gateways,
             Start(g) \/ Listen(g) \/ Close(g) \/ Drains(g) \/ CloseEnds(g) \/ GatewayDies(g)
      PROVE  SocketInv'
  BY <1>2, StartKeeps, ListenKeeps, CloseKeeps, DrainsKeeps, CloseEndsKeeps, GatewayDiesKeeps
<1>3. ASSUME NEW c \in Callers, Serve(c) \/ LineArrives(c) \/ IdleEnds(c) \/ OperatorAnswers(c)
                                \/ Flushed(c) \/ LingerEnds(c)
      PROVE  SocketInv'
  BY <1>3, ServeKeeps, LineArrivesKeeps, IdleEndsKeeps, OperatorAnswersKeeps, FlushedKeeps, LingerEndsKeeps
<1>4. ASSUME NEW c \in Callers, Call(c) \/ Connect(c) \/ TimesOut(c) \/ ConnectionLost(c)
      PROVE  SocketInv'
  BY <1>4, CallKeeps, ConnectKeeps, TimesOutKeeps, ConnectionLostKeeps
<1> QED BY <1>1, <1>2, <1>3, <1>4 DEF SocketNext

\* The invariant of the socket's files and connections (operator/ipc.ts).
THEOREM SocketInvariant == SocketSpec => []SocketInv
<1>1. SocketInit => SocketInv
  BY SocketStarts
<1>2. SocketInv /\ [SocketNext]_socketVars => SocketInv'
  BY SocketSteps
<1> QED BY <1>1, <1>2, PTL DEF SocketSpec

\* ipc.ts:69-70, 584-586: a caller that was refused, by whom and at whatever moment of a start,
\* a close or a crash, knows that its request did not run and will not.
THEOREM RefusalsAreTrue == SocketSpec => []RefusedNeverRan
<1>1. SocketInv => RefusedNeverRan
  BY DEF SocketInv, RefusedNeverRan, HoldsTogether
<1> QED BY <1>1, SocketInvariant, PTL

\* ipc.ts:153: a gateway that closes late, or fails to start, leaves the listening gateway's
\* socket and token alone.
THEOREM ListenersAreReachable == SocketSpec => []ListenerIsReachable
<1>1. SocketInv => ListenerIsReachable
  BY DEF SocketInv, FilesAreItsOwn, ListenerIsReachable, Listening
<1> QED BY <1>1, SocketInvariant, PTL

=============================================================================
