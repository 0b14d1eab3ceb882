--------------------------- MODULE StateDirectory ---------------------------
(***************************************************************************)
(* What a gateway keeps in its state directory: the file of the failure    *)
(* journal with its lock, the incidents and boundaries the failure service *)
(* writes there, the operations the operator service records there, and    *)
(* the operator socket with its token.                                     *)
(*                                                                         *)
(* A gateway holds the journal for as long as the two services and the     *)
(* socket exist, and each of the four modules has of the others what it    *)
(* needs of them, so a behaviour follows what one of them keeps.           *)
(***************************************************************************)
EXTENDS JournalProperties, SocketProperties, FailureProperties, OperatorProperties

VARIABLE kept
directoryVars == <<kept, journalVars, socketVars, vars, operatorVars>>

DirectoryInit ==
    /\ kept \in {"journal", "socket", "incidents", "operations", "redrives"}
    /\ JournalInit /\ SocketInit /\ Init
    \* Which incidents are held is chosen where it matters.
    /\ OperatorInit
    /\ kept \notin {"operations", "redrives"} => host.paused /\ circuit.open

\* Bounds: redrives race one another and the reopening of the circuit, with every incident
\* written, or one goes beside any mutation of the source, with writes that fail.
OneRedrive == Cardinality(Stored \cap Redrives) <= 1
OnlyReopens == \A id \in Others : calls[id].request.kind \in {"none", "reopen"}

DirectoryNext ==
    \/ kept = "journal" /\ JournalNext /\ UNCHANGED <<kept, socketVars, vars, operatorVars>>
    \/ kept = "socket" /\ SocketNext /\ UNCHANGED <<kept, journalVars, vars, operatorVars>>
    \/ kept = "incidents" /\ Next /\ UNCHANGED <<kept, journalVars, socketVars, operatorVars>>
    \/ kept = "operations" /\ OperatorNext /\ OneRedrive'
          /\ UNCHANGED <<kept, journalVars, socketVars, vars>>
    \/ kept = "redrives" /\ OperatorNext /\ OnlyReopens' /\ errors' = 0
          /\ UNCHANGED <<kept, journalVars, socketVars, vars>>

\* Two redrives differ in their ID alone.
RedriveSymmetry == Permutations(Redrives)

DirectorySpec == DirectoryInit /\ [][DirectoryNext]_directoryVars
=============================================================================
