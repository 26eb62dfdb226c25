---------------------------- MODULE DebugRecipe ----------------------------
(***************************************************************************)
(* One `stm32 debug ...` command (cli/_debug.py): a fresh session, a fixed *)
(* program of session methods, and a close on every path.  The read        *)
(* recipes (read-registers, read-peripheral, read-memory, callstack,       *)
(* snapshot, decode-hardfault) attach to the running target and halt it in *)
(* place; the check recipes (check-variable, check-register) reset it, arm *)
(* a breakpoint and run into it.  A script is the library's user: a `with` *)
(* block over start_session that calls one method, whichever.              *)
(***************************************************************************)
EXTENDS DebugSession

VARIABLES
    recipe,      \* "read", "check" or "script"
    at           \* how far the recipe is

recipevars == <<allvars, recipe, at>>

RecipeInit == SessionInit /\ recipe \in {"read", "check", "script"} /\ at = "new"

\* A step of the session inside the method in progress.
Inside(step) == step /\ UNCHANGED <<recipe, at>>
\* A step of the session that takes the recipe further.
Moves(from, step, to) == at = from /\ step /\ at' = to /\ UNCHANGED recipe

-----------------------------------------------------------------------------
\* halt=reset: of the recipes only the checks reset the target (A-003).
ResetAlways == {"start"}                             \* mutant: halt=True
Entry == CASE recipe = "read"   -> {"attach"}
           [] recipe = "check"  -> {"start"}
           [] recipe = "script" -> {"start", "attach"}

Open ==
    \/ Moves("new", Start /\ op' \in Entry, "opening")
    \/ Moves("opening", Connected \/ Started, "open")
    \/ Moves("opening", StartFails, "closed")

\* Halt the attached target.  A refused halt is taken for a target that the
\* attach has already stopped.
HaltRefused ==
    /\ Back("halt", {"error"}) /\ Finish
    /\ target_halted' = TRUE
    /\ UNCHANGED <<believes_running, breakpoints, upset>>

HaltInPlace ==
    \/ recipe = "read" /\ ~target_halted /\ Moves("open", Halt, "halting")
    \/ Moves("halting", HaltDone \/ HaltRefused, "ready")
    \/ call.pc # "error" /\ Moves("halting", Fail, "raised")

Arm ==
    \/ recipe = "check" /\ Moves("open", SetBreakpoint, "arming")
    \/ Moves("arming", SetDone, "armed")
    \/ Moves("arming", Fail, "raised")

\* Anything but a breakpoint stop is reported as a breakpoint not hit.
BreakpointHitAny == call.answer.class \in Stops      \* mutant: any stop will do
BreakpointHit == call.answer.class = "breakpoint"

RunToBreakpoint ==
    \/ Moves("armed", RunUntilBreakpoint, "running")
    \/ BreakpointHit /\ Moves("running", RunStopped, "ready")
    \/ ~BreakpointHit /\ Moves("running", RunStopped, "raised")
    \/ Moves("running", RunTimedOut \/ Fail, "raised")

\* The reads of the recipe; a check reads what it compares.
Fetch ==
    \/ Moves("ready", Read, "fetching")
    \/ recipe = "read" /\ Moves("ready", TakeSnapshot, "fetching")
    \/ Moves("fetching", ReadDone /\ op' = "idle", "done")
    \/ Moves("fetching", SnapNext /\ op' = "idle", "done")
    \/ Moves("fetching", Fail, "raised")

\* The body of a script: a method, from its call to its return.
AMethod ==
    \/ Halt \/ Resume \/ Reset \/ SendMonitor \/ Read \/ TakeSnapshot
    \/ SetBreakpoint \/ RunUntilBreakpoint

ItsReturn ==
    \/ HaltDone \/ ResumeDone \/ ResetDone \/ MonitorDone \/ SetDone
    \/ (ReadDone \/ SnapNext) /\ op' = "idle"
    \/ RunStopped \/ RunTimedOut

Script ==
    /\ recipe = "script"
    /\ \/ Moves("open", AMethod, "calling")
       \/ Moves("calling", ItsReturn, "done")
       \/ Moves("calling", Fail, "raised")

CloseOnReturn == Moves("done", Close, "closed")       \* mutant: no finally
CloseAlways == \E ending \in {"done", "raised"} : Moves(ending, Close, "closed")

RecipeStep == Open \/ HaltInPlace \/ Arm \/ RunToBreakpoint \/ Fetch \/ Script
              \/ CloseAlways

Within ==
    \/ StartReset \/ StartMonitorReset \/ ResetGoDone \/ ResetResume
    \/ RunStarted \/ RunWait \/ RunNoStop \/ RunInterrupt
    \/ SnapRegisters \/ SnapLeg \/ ReadMore
    \/ ReadDone /\ op' # "idle"
    \/ SnapNext /\ op' # "idle"

RecipeNext ==
    \/ RecipeStep
    \/ Inside(Within)
    \/ Inside((ClientStep \/ Environment) /\ UNCHANGED session)

RecipeSpec == RecipeInit /\ [][RecipeNext]_recipevars

\* The command is one thread that runs on; its reads give up (PollReturns), a
\* clock that runs brings every deadline, and what a snapshot has to read is a
\* finite list.
FairRecipe ==
    /\ RecipeSpec
    /\ WF_recipevars(RecipeStep) /\ WF_recipevars(Inside(Within))
    /\ WF_recipevars(Inside(ClientStep /\ UNCHANGED session))
    /\ SF_recipevars(RecipeStep /\ SnapEnds)

-----------------------------------------------------------------------------
\* A check compares what it reads at its breakpoint: from the hit to the end
\* the core stands where the run that this recipe started has stopped it, no
\* matter which stops were queued before.
ComparesAtHit ==
    recipe = "check" /\ at \in {"ready", "fetching", "done"} =>
        core = "halted" /\ ~runs /\ resumes = 1 /\ target_halted

\* No read recipe lets the target go on or resets it: what it reads is the
\* state the attach found (A-003).  Only a call that failed can have left an
\* interrupt behind.
LiveStateKept ==
    recipe = "read" =>
        /\ resumes = 0
        /\ \A i \in 1..Len(stdin) : stdin[i].verb \notin {"reset", "continue"}

\* Every recipe and every `with` block ends with its session closed, whichever
\* method it calls and even against a gdb that never says another word.
RecipeCloses == <>(at = "closed" \/ token = MaxToken)
=============================================================================
