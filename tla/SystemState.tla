----------------------------- MODULE SystemState -----------------------------
(***************************************************************************)
(* SystemStateTracker: the state of the whole system, derived from the     *)
(* states of the required participants.  It is not a function of these     *)
(* alone: it depends on the previous system state and on the participant   *)
(* whose status arrived last.  Every participant keeps a tracker of its    *)
(* own (in its SystemMonitor), fed by the status messages of all others.   *)
(***************************************************************************)
EXTENDS Integers, Sequences

(* States in which a participant starts, runs and stops, in this order. *)
StartingStates ==
  {"ServicesCreated", "CommunicationInitializing", "CommunicationInitialized", "ReadyToRun"}

ParticipantStates ==
  StartingStates \cup {"Invalid", "Running", "Paused", "Stopping", "Stopped",
                       "ShuttingDown", "Shutdown", "Error", "Aborting"}

(* Those of all participants that have not reported a status yet. *)
NoStatus == "none"

(* Mutant: one required participant suffices. *)
MutAnyIn(cache, required, states) == \E r \in required : cache[r] \in states

(* cache: the last reported states, NoStatus where there is none. *)
AllIn(cache, required, states) == \A r \in required : cache[r] \in states

(* The system states a status may lead to, each with the participant states  *)
(* that are accepted for it, in the order in which they are tried.           *)
Candidates(newState) ==
  CASE newState = "ServicesCreated" ->
         << <<"ServicesCreated", StartingStates \cup {"Running"}>> >>
    [] newState = "CommunicationInitializing" ->
         << <<"CommunicationInitializing",
              (StartingStates \ {"ServicesCreated"}) \cup {"Running"}>> >>
    [] newState = "CommunicationInitialized" ->
         << <<"CommunicationInitialized",
              {"CommunicationInitialized", "ReadyToRun", "Running"}>> >>
    [] newState = "ReadyToRun" -> << <<"ReadyToRun", {"ReadyToRun", "Running"}>> >>
    [] newState = "Running" ->
         << <<"Running", {"Running"}>>,
            <<"Stopping", {"Running", "Stopping"}>>,
            <<"Stopped", {"Running", "Stopped"}>>,
            <<"ShuttingDown", {"Running", "Stopped", "ShuttingDown"}>>,
            <<"Shutdown", {"Running", "Stopped", "ShuttingDown", "Shutdown"}>> >>
    [] newState = "Paused" ->
         << <<"Paused", {"Running", "Paused"}>>,
            <<"Stopping", {"Running", "Paused", "Stopping"}>>,
            <<"Stopped", {"Running", "Paused", "Stopped"}>>,
            <<"ShuttingDown", {"Running", "Paused", "Stopped", "ShuttingDown"}>>,
            <<"Shutdown", {"Running", "Paused", "Stopped", "ShuttingDown", "Shutdown"}>> >>
    [] newState = "Stopping" ->
         << <<"Stopping", {"Running", "Paused", "Stopping", "Stopped",
                           "ShuttingDown", "Shutdown"}>> >>
    [] newState = "Stopped" -> << <<"Stopped", {"Stopped", "ShuttingDown", "Shutdown"}>> >>
    [] newState = "ShuttingDown" ->
         << <<"ShuttingDown", {"Stopped", "ShuttingDown", "Shutdown", "Error",
                               "ServicesCreated", "ReadyToRun"}>> >>
    [] newState = "Shutdown" -> << <<"Shutdown", {"Shutdown"}>> >>
    [] newState \in {"Aborting", "Error"} -> << <<newState, ParticipantStates \cup {NoStatus}>> >>
    [] OTHER -> << >>

(* Without any participant left the old state is kept, finished or reset. *)
StateOfNobody(old) ==
  CASE old \in {"Error", "Shutdown"} -> old
    [] old = "ShuttingDown" -> "Shutdown"
    [] OTHER -> "Invalid"

ComputeSystemState(cache, required, old, newState) ==
  LET list == Candidates(newState)
      accepted == {i \in DOMAIN list : AllIn(cache, required, list[i][2])}
      first == CHOOSE i \in accepted : \A j \in accepted : i <= j
  IN IF accepted # {} THEN list[first][1]
     ELSE IF \A p \in DOMAIN cache : cache[p] = NoStatus THEN StateOfNobody(old)
     ELSE old
=============================================================================
