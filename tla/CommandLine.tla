---------------------------- MODULE CommandLine ----------------------------
(***************************************************************************)
(* The commands of the CLI (cli.ts, operator.ts), each a process of its    *)
(* own: those that write files, those that run a gateway until a signal,   *)
(* and those that send one request to a running gateway.  A step ends      *)
(* where the code awaits; the other processes and the signals come there.  *)
(*                                                                         *)
(* The gateway of a process and the operator service behind the socket are *)
(* modules of their own: here they settle as their promises allow.         *)
(***************************************************************************)
EXTENDS Integers, Sequences

CONSTANTS
    Command,            \* processes
    Invocations,        \* what they are called with
    Path,               \* files
    Scaffold,           \* the files of init, in the order it writes them
    GeneratedFiles,     \* the files of generate
    ExportFile,         \* what every `failures export` here names with --out
    User, Nobody        \* the author of other files; no author

GatewayCommands == {"dev", "start"}
Mutations == {"retryCurrent", "reassess", "reopenCircuit", "retireBoundary", "redrive"}
OperatorCommands == Mutations \cup {"status", "listFailures", "showFailure", "exportFailure", "evaluate"}
OfflineCommands == {"validate", "init --failures", "rebaseline"}
CommandNames == GatewayCommands \cup OperatorCommands \cup OfflineCommands \cup {"init", "generate", "unknown"}

(* flags: those of the command, with every required one, or not.  repeats: *)
(* a redrive names with --operation-id an operation that was sent before.  *)
InvocationType ==
    [name : CommandNames, flags : {"own", "foreign", "missing"}, stateDir : BOOLEAN, socket : BOOLEAN,
     confirmed : BOOLEAN, config : {"valid", "invalid"}, handlers : {"valid", "refused", "throws"}, options : BOOLEAN,
     repeats : BOOLEAN]

ASSUME CommandAssumption ==
    /\ Invocations \subseteq InvocationType
    /\ Scaffold \in Seq(Path) /\ GeneratedFiles \in Seq(Path) /\ ExportFile \in Path
    /\ User \notin Command /\ Nobody \notin Command \cup {User}

(* A command has a file to write, no two the same; and no file that init   *)
(* or an export creates is a generated one, which generate would replace.  *)
ASSUME FileAssumption ==
    /\ Scaffold # <<>> /\ GeneratedFiles # <<>>
    /\ \A m, n \in DOMAIN Scaffold : Scaffold[m] = Scaffold[n] => m = n
    /\ \A n \in DOMAIN GeneratedFiles :
          /\ GeneratedFiles[n] # ExportFile
          /\ \A m \in DOMAIN Scaffold : Scaffold[m] # GeneratedFiles[n]

EXIT == [ok |-> 0, runtime |-> 1, invalid |-> 2, refused |-> 3, unknown |-> 4]

NoExit == 9

VARIABLES
    commands,    \* commands[c], of CommandType
    disk,        \* disk[p]: who wrote the file, and whether it was written to its end and closed
    left,        \* history: left[c], files of c that could not be closed or removed
    taken,       \* history: taken[c], files of c that the rollback of another command removed
    served,      \* served[c]: the gateway that c runs
    wire         \* wire[c]: c's operator request: whether it was sent, what the gateway
                 \* answers, whether the answer came, and whether its operation changed anything
fileVars == <<disk, left, taken>>
commandVars == <<commands, disk, left, taken, served, wire>>

\* exit: the code the command ends with; open: the file after those of made is being written.
CommandType ==
    [pc : {"idle", "config", "handlers", "starting", "reporting", "managing", "serving", "stopping",
           "sending", "waiting", "writing", "removing", "exited"},
     run : InvocationType, exit : 0..4 \cup {NoExit}, made : Seq(Path), open : BOOLEAN, signals : 0..2]

Absent == [by |-> Nobody, whole |-> FALSE]

Is(c, pc) == commands[c].pc = pc
Called(c) == commands[c].run
Enters(c, pc) == commands' = [commands EXCEPT ![c].pc = pc]
Ends(c, code) == commands' = [commands EXCEPT ![c].pc = "exited", ![c].exit = code]
Ending(c, pc, code) == commands' = [commands EXCEPT ![c].pc = pc, ![c].exit = code]

FilesOf(name) == CASE name = "init" -> Scaffold [] name = "generate" -> GeneratedFiles [] OTHER -> <<ExportFile>>

(***************************************************************************)
(* runCli, runOperatorCommand: what is refused before the first await      *)
(***************************************************************************)
Misused(i) ==
    \/ i.name = "unknown" \/ i.flags = "foreign"
    \/ i.socket /\ ~i.stateDir
    \/ i.flags = "missing" /\ i.name \in OperatorCommands \cup {"init"}
    \/ i.name \in OperatorCommands /\ ~i.stateDir
    \/ i.name = "retireBoundary" /\ ~i.confirmed

(* commandInit looks at all its files, and the export at its one file.     *)
Occupied(i) ==
    i.name \in {"init", "exportFailure"} /\ \E n \in DOMAIN FilesOf(i.name) : disk[FilesOf(i.name)[n]].by # Nobody

First(i) == CASE i.name = "init" -> "writing" [] i.name \in OperatorCommands -> "sending" [] OTHER -> "config"

Invoke(c) ==
    /\ Is(c, "idle")
    /\ \E i \in Invocations :
          LET refused == Misused(i) \/ Occupied(i) IN
          commands' = [commands EXCEPT ![c].run = i, ![c].pc = IF refused THEN "exited" ELSE First(i),
                                       ![c].exit = IF refused THEN EXIT.invalid ELSE NoExit]
    /\ UNCHANGED <<fileVars, served, wire>>

(***************************************************************************)
(* Signals: the first one is io.shutdownSignal, whether the command waits  *)
(* for it or not; nothing handles a second one.                            *)
(***************************************************************************)
Signal(c) ==
    /\ commands[c].pc \notin {"idle", "exited"}
    /\ IF commands[c].signals = 0
       THEN commands' = [commands EXCEPT ![c].signals = 1] /\ UNCHANGED served
       ELSE /\ commands' = [commands EXCEPT ![c].signals = 2, ![c].pc = "exited"]
            /\ served' = [served EXCEPT ![c] = "none"]
    /\ UNCHANGED <<fileVars, wire>>

Killed(c) == commands[c].signals = 2
Signalled(c) == commands[c].signals > 0

(***************************************************************************)
(* validate, generate, init --failures, rebaseline                         *)
(***************************************************************************)

(* A generated file starts with GENERATED_MARKER once it is written.       *)
Blocked == \E n \in DOMAIN GeneratedFiles :
    LET file == disk[GeneratedFiles[n]] IN file.by # Nobody /\ (file.by = User \/ ~file.whole)

(* What the journal answers to the offline commands: done, refused (3), a  *)
(* request or a configuration it does not accept (2), or an error.  For    *)
(* init --failures every error is invalid input.                           *)
OfflineExits(name) ==
    CASE name = "validate" -> {EXIT.ok}
      [] name = "init --failures" -> {EXIT.ok, EXIT.invalid}
      [] OTHER -> {EXIT.ok, EXIT.refused, EXIT.invalid, EXIT.runtime}

Unacceptable(i) ==
    \/ i.config = "invalid"
    \/ i.name # "validate" /\ i.flags = "missing"
    \/ i.name \in {"init --failures", "rebaseline"} /\ ~i.stateDir
    \/ i.name = "rebaseline" /\ ~i.confirmed
    \/ i.name = "generate" /\ Blocked

ConfigLoads(c) ==
    /\ Is(c, "config")
    /\ LET name == Called(c).name IN
       \/ Unacceptable(Called(c)) /\ Ends(c, EXIT.invalid)
       \/ /\ ~Unacceptable(Called(c))
          /\ \/ name = "generate" /\ Enters(c, "writing")
             \/ name \in GatewayCommands /\ Enters(c, "handlers")
             \/ name \in OfflineCommands /\ \E code \in OfflineExits(name) : Ends(c, code)
    /\ UNCHANGED <<fileVars, served, wire>>

(***************************************************************************)
(* Files: init and export create them and never overwrite one (wx);        *)
(* generate replaces its own.  A file is there before it is written.       *)
(***************************************************************************)
NextFile(c) == FilesOf(Called(c).name)[Len(commands[c].made) + 1]

Exclusive(c) == Called(c).name \in {"init", "exportFailure"}

Creates(c) ==
    /\ Is(c, "writing") /\ ~commands[c].open
    /\ Exclusive(c) => disk[NextFile(c)].by = Nobody
    /\ disk' = [disk EXCEPT ![NextFile(c)] = [by |-> c, whole |-> FALSE]]
    /\ commands' = [commands EXCEPT ![c].open = TRUE]
    /\ UNCHANGED <<left, taken, served, wire>>

(* A file that was removed since it was opened is written all the same.    *)
Written(c) ==
    /\ Is(c, "writing") /\ commands[c].open
    /\ disk' = IF Exclusive(c) /\ disk[NextFile(c)].by # c THEN disk
               ELSE [disk EXCEPT ![NextFile(c)] = [by |-> c, whole |-> TRUE]]
    /\ LET made == Append(commands[c].made, NextFile(c))
           last == Len(made) = Len(FilesOf(Called(c).name))
       IN commands' = [commands EXCEPT ![c].made = made, ![c].open = FALSE,
                                       ![c].pc = IF last THEN "exited" ELSE @, ![c].exit = IF last THEN EXIT.ok ELSE @]
    /\ UNCHANGED <<left, taken, served, wire>>

\* Mistake: the file whose write failed is not listed.
WithoutFailed(c) == {commands[c].made}

(* What the rollback may be given: a write that fails has created its      *)
(* file.  init lists it even when the open failed, unless the file was     *)
(* there (EEXIST) or its directory could not be made.                      *)
WithFailed(c) ==
    LET made == commands[c].made
        listed == Append(made, NextFile(c))
    IN IF commands[c].open THEN {listed}
       ELSE IF Called(c).name = "init" THEN {made, listed} ELSE {made}

FailedExit(c) == IF Called(c).name = "init" \/ ~commands[c].open THEN EXIT.invalid ELSE EXIT.runtime

(* The file, or its directory, is not created, or its write fails.         *)
WriteFails(c) ==
    /\ Is(c, "writing")
    /\ IF Exclusive(c)
       THEN \E made \in WithFailed(c) :
               commands' = [commands EXCEPT ![c].made = made, ![c].pc = "removing", ![c].exit = FailedExit(c)]
       ELSE Ends(c, EXIT.runtime)
    /\ UNCHANGED <<fileVars, served, wire>>

(* renderExport: file.close() throws, after the write or before the rm.    *)
CloseFails(c) ==
    /\ Is(c, "writing") /\ Called(c).name = "exportFailure" /\ commands[c].open
    /\ left' = [left EXCEPT ![c] = @ \cup {NextFile(c)}]
    /\ Ends(c, EXIT.runtime)
    /\ UNCHANGED <<disk, taken, served, wire>>

(* The last file of the list first, whoever created what is there now.  A  *)
(* failing unlink is ignored; a failing rm ends the export all the same.   *)
Removes(c) ==
    /\ Is(c, "removing")
    /\ LET made == commands[c].made
           path == made[Len(made)]
           owner == disk[path].by
       IN \/ made = <<>> /\ Enters(c, "exited") /\ UNCHANGED fileVars
          \/ /\ made # <<>>
             /\ commands' = [commands EXCEPT ![c].made = SubSeq(made, 1, Len(made) - 1)]
             /\ \/ /\ disk' = [disk EXCEPT ![path] = Absent]
                   /\ taken' = IF owner \in Command \ {c} THEN [taken EXCEPT ![owner] = @ \cup {path}] ELSE taken
                   /\ UNCHANGED left
                \/ left' = [left EXCEPT ![c] = @ \cup {path}] /\ UNCHANGED <<disk, taken>>
    /\ UNCHANGED <<served, wire>>

(***************************************************************************)
(* dev, start                                                              *)
(***************************************************************************)

(* loadHandlers, then the ports and createGateway, without an await.       *)
HandlersLoad(c) ==
    /\ Is(c, "handlers") /\ ~Signalled(c)
    /\ LET i == Called(c) IN
       \/ i.handlers = "throws" /\ Ends(c, EXIT.runtime) /\ UNCHANGED served
       \/ (i.handlers = "refused" \/ (i.handlers = "valid" /\ ~i.options)) /\ Ends(c, EXIT.invalid) /\ UNCHANGED served
       \/ i.handlers = "valid" /\ i.options /\ Enters(c, "starting") /\ served' = [served EXCEPT ![c] = "starting"]
    /\ UNCHANGED <<fileVars, wire>>

(* unlessSignalled, runUntilSignal: the signal settles the wait at once.   *)
StopsForSignal(c) ==
    /\ Signalled(c)
    /\ \/ Is(c, "handlers") /\ Ends(c, EXIT.ok) /\ UNCHANGED served
       \/ commands[c].pc \in {"starting", "serving"} /\ Ending(c, "stopping", EXIT.ok) /\ UNCHANGED served
    /\ UNCHANGED <<fileVars, wire>>

GatewayStarts(c) ==
    /\ Is(c, "starting") /\ ~Signalled(c)
    /\ served' = [served EXCEPT ![c] = "running"]
    /\ Enters(c, IF Called(c).name = "dev" THEN "managing" ELSE "serving")
    /\ UNCHANGED <<fileVars, wire>>

(* reportStartupFailure: CONFIG_INVALID or any other error.                *)
GatewayFails(c) ==
    /\ Is(c, "starting") /\ ~Signalled(c)
    /\ served' = [served EXCEPT ![c] = "failed"]
    /\ \E code \in {EXIT.invalid, EXIT.runtime} : Ending(c, "reporting", code)
    /\ UNCHANGED <<fileVars, wire>>

(* checkAllSources has settled, either way.                                *)
Reported(c) == Is(c, "reporting") /\ Enters(c, "stopping") /\ UNCHANGED <<fileVars, served, wire>>

ManagementServer(c) ==
    /\ Is(c, "managing")
    /\ Enters(c, "serving") \/ Ending(c, "stopping", EXIT.runtime)
    /\ UNCHANGED <<fileVars, served, wire>>

(* gateway.stop resolves, by its deadline.  A stop that finds the gateway  *)
(* starting may give up on the start, which then goes on until the process *)
(* ends (GatewayLifecycle: overtaken).                                     *)
StopEnds(c) ==
    /\ Is(c, "stopping")
    /\ \/ served' = [served EXCEPT ![c] = "stopped"]
       \/ served[c] = "starting" /\ served' = [served EXCEPT ![c] = "overtaken"]
    /\ Enters(c, "exited")
    /\ UNCHANGED <<fileVars, wire>>

(***************************************************************************)
(* Operator commands: one request over the socket                          *)
(***************************************************************************)
Unsent == [sent |-> FALSE, answer |-> "none", came |-> FALSE, applied |-> FALSE]

(* callOperator fails before anything was sent, or sends the request.      *)
Sends(c) ==
    /\ Is(c, "sending")
    /\ \/ Ends(c, EXIT.runtime) /\ UNCHANGED wire
       \/ Enters(c, "waiting") /\ wire' = [wire EXCEPT ![c].sent = TRUE]
    /\ UNCHANGED <<fileVars, served>>

(* The gateway runs the request, even of a command that has ended.  It     *)
(* refuses only what it did not do, unless the request repeats the ID of   *)
(* an operation: one that is still running, or that acted and whose result *)
(* could not be recorded, is refused (OperatorService: ReplayRefused).     *)
MayAnswer(name) == IF name \in Mutations THEN {"completed", "refused", "failed", "unknown", "INVALID_REQUEST", "error"}
                   ELSE {"completed", "INVALID_REQUEST", "error"}

Repeats(c) == Called(c).name = "redrive" /\ Called(c).repeats

GatewayRuns(c) ==
    /\ wire[c].sent /\ wire[c].answer = "none"
    /\ \E answer \in MayAnswer(Called(c).name), applied \in BOOLEAN :
          /\ applied => /\ Called(c).name \in Mutations /\ answer # "INVALID_REQUEST"
                        /\ answer = "refused" => Repeats(c)
          /\ answer = "completed" /\ Called(c).name \in Mutations => applied
          /\ wire' = [wire EXCEPT ![c].answer = answer, ![c].applied = applied]
    /\ UNCHANGED <<commands, fileVars, served>>

(* operationExitCode, and the code of an error.                            *)
ExitOf(answer) ==
    CASE answer = "completed" -> EXIT.ok
      [] answer = "refused" -> EXIT.refused
      [] answer = "unknown" -> EXIT.unknown
      [] answer = "INVALID_REQUEST" -> EXIT.invalid
      [] OTHER -> EXIT.runtime

AnswerComes(c) ==
    /\ Is(c, "waiting") /\ wire[c].answer # "none"
    /\ wire' = [wire EXCEPT ![c].came = TRUE]
    /\ IF Called(c).name = "exportFailure" /\ wire[c].answer = "completed" THEN Enters(c, "writing")
       ELSE Ends(c, ExitOf(wire[c].answer))
    /\ UNCHANGED <<fileVars, served>>

(* A timeout, a dropped connection or an unreadable answer: NO_ANSWER.     *)
LostExit(name) == IF name \in Mutations THEN EXIT.unknown ELSE EXIT.runtime

AnswerLost(c) ==
    /\ Is(c, "waiting")
    /\ Ends(c, LostExit(Called(c).name))
    /\ UNCHANGED <<fileVars, served, wire>>

CommandInit ==
    /\ commands = [c \in Command |->
          [pc |-> "idle", run |-> CHOOSE i \in Invocations : TRUE, exit |-> NoExit, made |-> <<>>, open |-> FALSE, signals |-> 0]]
    /\ disk \in {[p \in Path |-> IF p \in there THEN [by |-> User, whole |-> TRUE] ELSE Absent] :
                    there \in {{}} \cup {{p} : p \in Path}}
    /\ left = [c \in Command |-> {}] /\ taken = [c \in Command |-> {}]
    /\ served = [c \in Command |-> "none"]
    /\ wire = [c \in Command |-> Unsent]

CommandNext == \E c \in Command :
    \/ Invoke(c) \/ Signal(c) \/ ConfigLoads(c)
    \/ Creates(c) \/ Written(c) \/ WriteFails(c) \/ CloseFails(c) \/ Removes(c)
    \/ HandlersLoad(c) \/ StopsForSignal(c) \/ GatewayStarts(c) \/ GatewayFails(c)
    \/ Reported(c) \/ ManagementServer(c) \/ StopEnds(c)
    \/ Sends(c) \/ GatewayRuns(c) \/ AnswerComes(c) \/ AnswerLost(c)

CommandSpec == CommandInit /\ [][CommandNext]_commandVars
=============================================================================
