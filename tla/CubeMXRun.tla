------------------------------ MODULE CubeMXRun ------------------------------
(***************************************************************************)
(* run_cubemx (cubemx/runner.py): STM32CubeMX generates a project and does *)
(* not say when it is done.  The loop looks, in this order, for the marker *)
(* file, for activity in CubeMX's log, for the launcher's exit and at its  *)
(* deadline; the first that decides wins, while the launcher and its JVM   *)
(* go on.  After an exit a loop of its own waits for a late marker.        *)
(*                                                                         *)
(* Times are two facts: whether the deadline being watched has passed, and *)
(* whether the last log activity seen is recent.                           *)
(***************************************************************************)
EXTENDS Naturals

CONSTANT MaxExtensions       \* of the deadline, and again of the grace period
ASSUME ExtensionAssumption == MaxExtensions \in Nat

VARIABLES
    at,            \* where run_cubemx is
    marker,        \* "none", "old": from an earlier generation, "new"
    existed,       \* marker_existed
    launcher, jvm, \* the processes
    exit,          \* how the launcher exited
    log,           \* "written" by CubeMX since the loop last looked, or "quiet"
    activity,      \* the last the loop saw is "recent" (within the threshold) or "old"
    deadline,      \* the one watched, of the loop or of its grace period: "ahead", "passed"
    extensions,    \* extensions_used
    grace,         \* grace_extensions
    verdict,       \* "none", "success", "terminated" (and a success), "timed_out"
    script,        \* the temporary script file: "none", "there"
    sweep          \* history: the tree kill was "skipped" (or is "due", as far as it goes)

tree   == <<launcher, jvm, exit>>
clocks == <<log, activity, deadline>>
vars   == <<at, marker, existed, tree, clocks, extensions, grace, verdict, script, sweep>>

Init ==
    /\ at = "spawn" /\ marker \in {"none", "old"} /\ existed = (marker = "old")
    /\ launcher = "none" /\ jvm = "none" /\ exit = "none"
    /\ log = "quiet" /\ activity = "recent" /\ deadline = "ahead"
    /\ extensions = 0 /\ grace = 0
    /\ verdict = "none" /\ script = "none" /\ sweep = "due"

-----------------------------------------------------------------------------
(* The loop.                                                               *)

\* A failing spawn closes the log but leaves the script.
Spawn ==
    /\ at = "spawn" /\ script' = "there"
    /\ \/ at' = "marker" /\ launcher' = "alive"
       \/ at' = "raised" /\ UNCHANGED launcher
    /\ UNCHANGED <<marker, existed, jvm, exit, clocks, extensions, grace, verdict, sweep>>

AppearedAtAll == marker # "none"              \* mutant: a bare is_file()
Appeared == marker = "new" \/ (~existed /\ marker # "none")

\* (a)
LookForMarker ==
    /\ at = "marker"
    /\ IF Appeared
         THEN IF launcher = "alive" THEN at' = "poll" /\ verdict' = "terminated"
                                    ELSE at' = "settle" /\ verdict' = "success"
         ELSE at' = "log" /\ UNCHANGED verdict
    /\ UNCHANGED <<marker, existed, tree, clocks, extensions, grace, script, sweep>>

\* (b)
Sample == activity' = (IF log = "written" THEN "recent" ELSE activity) /\ log' = "quiet"

LookAtLog ==
    /\ at = "log" /\ at' = "exit" /\ Sample
    /\ UNCHANGED <<marker, existed, tree, deadline, extensions, grace, verdict, script, sweep>>

\* (c) An exit code of 0 over any marker counts: regeneration may change nothing.
LookForExit ==
    /\ at = "exit"
    /\ IF launcher = "alive"
         THEN at' = "deadline" /\ UNCHANGED <<verdict, deadline>>
         ELSE IF exit = "zero" /\ marker # "none"
                THEN at' = "settle" /\ verdict' = "success" /\ UNCHANGED deadline
                ELSE at' = "grace" /\ deadline' = "ahead" /\ UNCHANGED verdict
    /\ UNCHANGED <<marker, existed, tree, log, activity, extensions, grace, script, sweep>>

\* The grace period: marker, log, end of the period, which activity puts off.
GraceSucceeds ==
    /\ at = "grace" /\ Appeared
    /\ at' = "settle" /\ verdict' = "success"
    /\ UNCHANGED <<marker, existed, tree, clocks, extensions, grace, script, sweep>>

GraceLooks ==
    /\ at = "grace" /\ ~Appeared /\ Sample
    /\ at' = "grace_end"
    /\ UNCHANGED <<marker, existed, tree, deadline, extensions, grace, verdict, script, sweep>>

GraceAnyway == TRUE                           \* mutant: activity alone decides
GraceLeft == grace < MaxExtensions

GraceEnds ==
    /\ at = "grace_end"
    /\ IF deadline = "ahead" THEN at' = "grace" /\ UNCHANGED <<deadline, grace>>
       ELSE IF activity = "recent" /\ GraceLeft
              THEN /\ at' = "grace" /\ deadline' = "ahead"
                   /\ grace' = IF grace < MaxExtensions THEN grace + 1 ELSE grace
              ELSE at' = "settle" /\ UNCHANGED <<deadline, grace>>
    /\ UNCHANGED <<marker, existed, tree, log, activity, extensions, verdict, script, sweep>>

\* (d)
Extends == activity = "recent" /\ extensions < MaxExtensions

LookAtDeadline ==
    /\ at = "deadline"
    /\ IF deadline = "ahead" THEN at' = "marker" /\ UNCHANGED <<deadline, extensions, verdict>>
       ELSE IF Extends
              THEN /\ at' = "marker" /\ deadline' = "ahead"
                   /\ extensions' = extensions + 1 /\ UNCHANGED verdict
              ELSE at' = "poll" /\ verdict' = "timed_out" /\ UNCHANGED <<deadline, extensions>>
    /\ UNCHANGED <<marker, existed, tree, log, activity, grace, script, sweep>>

-----------------------------------------------------------------------------
(* _terminate_proc and the tree kill; then the exit code and the clean-up. *)

LauncherGone ==
    /\ at = "poll" /\ launcher = "exited"
    /\ at' = "settle" /\ sweep' = "skipped"
    /\ UNCHANGED <<marker, existed, tree, clocks, extensions, grace, verdict, script>>

SigTerm ==
    /\ at = "poll" /\ launcher = "alive" /\ at' = "kill"
    /\ UNCHANGED <<launcher, exit>> \/ (launcher' = "exited" /\ exit' = "failed")
    /\ jvm' \in {jvm, "dead"}
    /\ UNCHANGED <<marker, existed, clocks, extensions, grace, verdict, script, sweep>>

SweptLauncher == jvm                          \* mutant: the launcher only (IMP-08)
SweptTree == "dead"

SigKill ==
    /\ at = "kill" /\ at' = "settle"
    /\ launcher' = "exited" /\ jvm' = SweptTree
    /\ exit' = IF launcher = "alive" THEN "failed" ELSE exit
    /\ UNCHANGED <<marker, existed, clocks, extensions, grace, verdict, script, sweep>>

ScriptAfterRaise == "none"

Settle ==
    /\ at = "settle" /\ at' = "done" /\ script' = "none"
    /\ UNCHANGED <<marker, existed, tree, clocks, extensions, grace, verdict, sweep>>

\* Ctrl-C, or an on_progress that raises: the finally block, and no more.
Raise ==
    /\ at \notin {"spawn", "done", "raised"}
    /\ at' = "raised" /\ script' = ScriptAfterRaise /\ sweep' = "skipped"
    /\ UNCHANGED <<marker, existed, tree, clocks, extensions, grace, verdict>>

RunStep ==
    \/ LookForMarker \/ LookAtLog \/ LookForExit \/ GraceSucceeds \/ GraceLooks \/ GraceEnds
    \/ LookAtDeadline \/ LauncherGone \/ SigTerm \/ SigKill \/ Settle

-----------------------------------------------------------------------------
(* CubeMX and the clock (external).                                        *)

run == <<at, existed, extensions, grace, verdict, script, sweep>>

StartJvm ==
    /\ launcher = "alive" /\ jvm = "none" /\ jvm' = "alive"
    /\ UNCHANGED <<run, marker, launcher, exit, clocks>>

WriteMarker ==
    /\ jvm = "alive" /\ marker' = "new"
    /\ UNCHANGED <<run, tree, clocks>>

WriteLog ==
    /\ jvm = "alive" /\ log' = "written"
    /\ UNCHANGED <<run, marker, tree, activity, deadline>>

JvmExits ==
    /\ jvm = "alive" /\ jvm' = "dead"
    /\ UNCHANGED <<run, marker, launcher, exit, clocks>>

LauncherExits ==
    /\ launcher = "alive" /\ launcher' = "exited" /\ exit' \in {"zero", "failed"}
    /\ UNCHANGED <<run, marker, jvm, clocks>>

\* The clock is read at the top of an iteration, and throughout the grace period.
ClockRead == at \in {"marker", "grace", "grace_end"}

DeadlinePasses ==
    /\ ClockRead /\ deadline = "ahead" /\ deadline' = "passed"
    /\ UNCHANGED <<run, marker, tree, log, activity>>

Lull ==
    /\ ClockRead /\ activity = "recent" /\ activity' = "old"
    /\ UNCHANGED <<run, marker, tree, log, deadline>>

-----------------------------------------------------------------------------
Next ==
    \/ Spawn \/ RunStep \/ Raise
    \/ StartJvm \/ WriteMarker \/ WriteLog \/ JvmExits \/ LauncherExits \/ DeadlinePasses \/ Lull

\* The loop goes on and deadlines pass; CubeMX owes nothing.
Fairness ==
    /\ WF_vars(RunStep)
    /\ SF_vars(DeadlinePasses)

Spec == Init /\ [][Next]_vars /\ Fairness

-----------------------------------------------------------------------------
(* Properties.                                                             *)

\* Types, with the number of extensions.
TypeOK ==
    /\ at \in {"spawn", "marker", "log", "exit", "grace", "grace_end", "deadline", "poll", "kill",
               "settle", "done", "raised"}
    /\ marker \in {"none", "old", "new"} /\ existed \in BOOLEAN
    /\ launcher \in {"none", "alive", "exited"} /\ jvm \in {"none", "alive", "dead"}
    /\ exit \in {"none", "zero", "failed"} /\ log \in {"quiet", "written"}
    /\ activity \in {"recent", "old"} /\ deadline \in {"ahead", "passed"}
    /\ extensions \in 0..MaxExtensions /\ grace \in 0..MaxExtensions
    /\ verdict \in {"none", "success", "terminated", "timed_out"}
    /\ script \in {"none", "there"} /\ sweep \in {"due", "skipped"}

\* A failed regeneration is never reported as a success because of the marker
\* an earlier one left.
SuccessIsFresh ==
    at = "done" /\ verdict \in {"success", "terminated"} =>
        marker = "new" \/ (marker = "old" /\ exit = "zero")

\* After a verdict that says the tree was terminated nobody writes the output
\* any more, unless the launcher went just before it was looked at.
NoLateWriter ==
    at = "done" /\ verdict \in {"timed_out", "terminated"} /\ sweep = "due" => jvm # "alive"

\* A run that got as far as spawning its launcher leaves no script behind.
ScriptGone == at \in {"done", "raised"} /\ launcher # "none" => script = "none"

\* The loop ends, however long CubeMX keeps its log busy.
RunEnds == at = "marker" ~> at \in {"done", "raised"}
=============================================================================
