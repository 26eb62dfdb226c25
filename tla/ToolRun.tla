------------------------------ MODULE ToolRun -------------------------------
(***************************************************************************)
(* run_tool (subprocess_runner.py): one vendor tool, run to its end, to    *)
(* its deadline or to a Ctrl-C, and the tree of processes it consists of.  *)
(*                                                                         *)
(* The tools of the CubeIDE and CubeMX installations are launchers: the    *)
(* direct child starts a JVM that does the work.  The two share a process  *)
(* group (start_new_session) and the pipes run_tool reads, so communicate  *)
(* comes back only when both are gone; what they do is external.           *)
(*                                                                         *)
(* Every call in Calls is made once (CubeIDEBuild makes it twice, for its  *)
(* retry).  timeout_s=None is not modelled: no operation that changes      *)
(* anything uses it.                                                       *)
(***************************************************************************)
EXTENDS Naturals

CONSTANTS
    Calls,        \* calls of run_tool, each with a process tree of its own
    MaxFaults     \* bound: Ctrl-Cs and crashes of the caller

ASSUME FaultsAssumption == MaxFaults \in Nat

VARIABLES
    at,           \* where the call is
    cause,        \* why it gave up on the tool: "none", "timeout", "interrupt"
    launcher,     \* Popen's child, leader of the process group
    jvm,          \* the launcher's own child
    code,         \* what the tool's exit code (and output) will say
    escaped,      \* history: the call ended without signalling the tree
    faults        \* bound on Ctrl-Cs and crashes

tool == <<at, cause, launcher, jvm, code, escaped, faults>>

Codes == {"zero", "exists", "failed"}

ToolInit ==
    /\ at = [c \in Calls |-> "idle"] /\ cause = [c \in Calls |-> "none"]
    /\ launcher = [c \in Calls |-> "none"] /\ jvm = [c \in Calls |-> "none"]
    /\ code = [c \in Calls |-> "none"] /\ escaped = [c \in Calls |-> FALSE]
    /\ faults = 0

-----------------------------------------------------------------------------
(* run_tool.                                                               *)

Spawn(c) ==
    /\ at' = [at EXCEPT ![c] = "communicate"]
    /\ launcher' = [launcher EXCEPT ![c] = "alive"]
    /\ jvm' = [jvm EXCEPT ![c] = "none"]
    /\ code' = [code EXCEPT ![c] = "none"]
    /\ UNCHANGED <<cause, escaped, faults>>

\* communicate: both pipes at their end, the launcher reaped.
Communicated(c) ==
    /\ at[c] = "communicate" /\ launcher[c] = "zombie" /\ jvm[c] # "alive"
    /\ at' = [at EXCEPT ![c] = "over"]
    /\ launcher' = [launcher EXCEPT ![c] = "reaped"]
    /\ UNCHANGED <<cause, jvm, code, escaped, faults>>

NoDeadline == FALSE                           \* mutant: timeout not handed on
HasDeadline == TRUE

Deadline(c) ==
    /\ at[c] = "communicate" /\ HasDeadline
    /\ at' = [at EXCEPT ![c] = "poll"]
    /\ cause' = [cause EXCEPT ![c] = "timeout"]
    /\ UNCHANGED <<launcher, jvm, code, escaped, faults>>

\* Ctrl-C while communicating terminates the tree; in the middle of _terminate
\* it goes straight through.
Interrupt(c) ==
    /\ faults < MaxFaults /\ faults' = faults + 1
    /\ cause' = [cause EXCEPT ![c] = "interrupt"]
    /\ \/ at[c] = "communicate" /\ at' = [at EXCEPT ![c] = "poll"]
          /\ UNCHANGED escaped
       \/ at[c] \in {"poll", "grace"} /\ at' = [at EXCEPT ![c] = "over"]
          /\ escaped' = [escaped EXCEPT ![c] = TRUE]
    /\ UNCHANGED <<launcher, jvm, code>>

\* _terminate does nothing when the launcher has exited, whatever its child does.
LauncherGone(c) ==
    /\ at[c] = "poll" /\ launcher[c] = "zombie"
    /\ at' = [at EXCEPT ![c] = "over"]
    /\ launcher' = [launcher EXCEPT ![c] = "reaped"]
    /\ escaped' = [escaped EXCEPT ![c] = TRUE]
    /\ UNCHANGED <<cause, jvm, code, faults>>

\* killpg(SIGTERM): each of the two may heed it.
SigTerm(c) ==
    /\ at[c] = "poll" /\ launcher[c] = "alive"
    /\ at' = [at EXCEPT ![c] = "grace"]
    /\ \E l \in {"alive", "zombie"}, j \in {jvm[c], "dead"} :
          /\ launcher' = [launcher EXCEPT ![c] = l]
          /\ jvm' = [jvm EXCEPT ![c] = j]
    /\ code' = [code EXCEPT ![c] = "failed"]
    /\ UNCHANGED <<cause, escaped, faults>>

\* killpg(SIGKILL) whatever became of the leader, then the reaping wait.
SweptLauncher(c) == jvm[c]                    \* mutant: the direct child only
SweptTree(c) == "dead"

SigKill(c) ==
    /\ at[c] = "grace"
    /\ at' = [at EXCEPT ![c] = "over"]
    /\ launcher' = [launcher EXCEPT ![c] = "reaped"]
    /\ jvm' = [jvm EXCEPT ![c] = SweptTree(c)]
    /\ UNCHANGED <<cause, code, escaped, faults>>

RunToolStep(c) == Communicated(c) \/ Deadline(c) \/ LauncherGone(c) \/ SigTerm(c) \/ SigKill(c)

-----------------------------------------------------------------------------
(* The tool (external).                                                    *)

StartJvm(c) ==
    /\ launcher[c] = "alive" /\ jvm[c] = "none"
    /\ jvm' = [jvm EXCEPT ![c] = "alive"]
    /\ UNCHANGED <<at, cause, launcher, code, escaped, faults>>

\* The launcher passes on the JVM's exit code if it lives to see it.
JvmExits(c, result) ==
    /\ jvm[c] = "alive"
    /\ jvm' = [jvm EXCEPT ![c] = "dead"]
    /\ code' = [code EXCEPT ![c] = IF launcher[c] = "alive" THEN result ELSE @]
    /\ UNCHANGED <<at, cause, launcher, escaped, faults>>

LauncherExits(c) ==
    /\ launcher[c] = "alive"
    /\ launcher' = [launcher EXCEPT ![c] = "zombie"]
    /\ code' = [code EXCEPT ![c] = IF @ = "none" THEN "failed" ELSE @]
    /\ UNCHANGED <<at, cause, jvm, escaped, faults>>

-----------------------------------------------------------------------------
ToolNext ==
    \E c \in Calls :
       \/ at[c] = "idle" /\ Spawn(c)
       \/ RunToolStep(c) \/ Interrupt(c)
       \/ StartJvm(c) \/ LauncherExits(c) \/ \E r \in Codes : JvmExits(c, r)

ToolSpec == ToolInit /\ [][ToolNext]_tool

-----------------------------------------------------------------------------
(* Properties.                                                             *)

ToolTypeOK ==
    /\ at \in [Calls -> {"idle", "communicate", "poll", "grace", "over"}]
    /\ cause \in [Calls -> {"none", "timeout", "interrupt"}]
    /\ launcher \in [Calls -> {"none", "alive", "zombie", "reaped"}]
    /\ jvm \in [Calls -> {"none", "alive", "dead"}]
    /\ code \in [Calls -> Codes \cup {"none"}]
    /\ escaped \in [Calls -> BOOLEAN] /\ faults \in 0..MaxFaults

\* run_tool leaves nothing of the tool alive, however it ends, unless it gave up
\* on a launcher that had already exited or was interrupted while terminating.
TreeGone ==
    \A c \in Calls : at[c] = "over" /\ ~escaped[c] =>
        launcher[c] = "reaped" /\ jvm[c] # "alive"

\* What _terminate says of itself: "terminate proc AND its descendants".
NoneSurvives == \A c \in Calls : at[c] = "over" => jvm[c] # "alive"
=============================================================================
