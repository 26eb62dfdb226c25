---------------------------- MODULE DebugSession ----------------------------
(***************************************************************************)
(* A debug session (debug/session.py) from the connection made by          *)
(* spawn_gdb and start_session to its close: each public method is a short *)
(* program of MI calls, `op` says which method runs and where it is, and   *)
(* the session's two opinions about the target (target_halted and          *)
(* _gdb_believes_running) change only where a method returns.              *)
(*                                                                         *)
(* The methods run one at a time, on the caller's thread.  A method that   *)
(* raises leaves the session open: the caller may go on using it.          *)
(* CubeProgrammer.reset / halt / resume route through the same methods     *)
(* while the session is live (send_monitor("reset"), halt, resume).        *)
(***************************************************************************)
EXTENDS GdbMI

VARIABLES
    op,                \* the method in progress, "idle", or "closed"
    target_halted,     \* DebugSession.target_halted
    believes_running,  \* DebugSession._gdb_believes_running
    breakpoints,       \* _breakpoints holds the breakpoint
    upset              \* history: a call timed out, or a stop was taken for
                       \* that of a later resume

session == <<op, target_halted, believes_running, breakpoints, upset>>
allvars == <<vars, session>>

Starting == {"start", "attach", "start_reset"}   \* spawn_gdb, start_session
Running  == {"run", "run_wait", "run_stop"}      \* run_until_breakpoint
Snapshot == {"snap_regs", "snap_rest"}           \* snapshot
Methods  == Starting \cup Running \cup Snapshot \cup
            {"halt", "resume", "reset", "reset_go", "mon_reset", "mon_halt",
             "read", "disasm", "set_bp", "del_bp"}

SessionInit ==
    /\ Init
    /\ op = "new" /\ target_halted = FALSE /\ believes_running = FALSE
    /\ breakpoints = FALSE /\ upset = FALSE

-----------------------------------------------------------------------------
Opinions == <<target_halted, believes_running, breakpoints>>

\* A method enters: it makes its first MI call.
Enter(method, verb) == SendMi(verb) /\ op' = method /\ UNCHANGED <<Opinions, upset>>

\* The method's MI call has come back with an outcome; the caller resumes.
Back(method, outcomes) == op = method /\ call.pc \in outcomes /\ Return
Finish == op' = "idle"

\* The outcomes that raise: ^error, the deadline, the loss of gdb.
Raises == {"error", "timeout", "lost"}

Note == upset' = (upset \/ call.pc = "timeout")

-----------------------------------------------------------------------------
(* start_session: connect, reset the target unless attaching to it.  The   *)
(* `-gdb-set mi-async on` before the connect is left out: the connect is    *)
(* sent only once it has been answered, and its failure is the connect's.   *)

Start == op = "new" /\ (Enter("start", "select") \/ Enter("attach", "select"))

\* The connection's outcome.  Any failure closes gdb and gdbserver.
ConnectedHalted ==                            \* mutant: constructor's default
    /\ Back("attach", {"done"}) /\ Finish     \*         left in place
    /\ target_halted' = TRUE
    /\ UNCHANGED <<believes_running, breakpoints, upset>>

Connected ==
    /\ Back("attach", {"done"}) /\ Finish
    /\ target_halted' = FALSE
    /\ UNCHANGED <<believes_running, breakpoints, upset>>

StartReset ==
    /\ op = "start" /\ call.pc = "done"
    /\ op' = "start_go" /\ Return
    /\ UNCHANGED <<Opinions, upset>>

StartMonitorReset == op = "start_go" /\ Enter("start_reset", "reset")

Started ==
    /\ Back("start_reset", {"done"}) /\ Finish
    /\ target_halted' = TRUE
    /\ UNCHANGED <<believes_running, breakpoints, upset>>

StartFails ==
    /\ \E m \in Starting : Back(m, Raises)
    /\ op' = "closed" /\ Note /\ UNCHANGED Opinions

-----------------------------------------------------------------------------
(* halt, resume, reset, send_monitor.                                      *)

\* The mechanism follows what gdb is believed to think (RES-041).
InterruptAlways == "interrupt"                \* mutant: no monitor halt
HaltVerb == IF believes_running THEN "interrupt" ELSE "halt"

Halt == op = "idle" /\ Enter("halt", HaltVerb)

HaltDone ==
    /\ Back("halt", {"done"}) /\ Finish
    /\ target_halted' = TRUE
    /\ believes_running' = (believes_running /\ call.verb # "interrupt")
    /\ UNCHANGED <<breakpoints, upset>>

Resume == op = "idle" /\ Enter("resume", "continue")

ResumeKeepsBelief ==                          \* mutant: flag not raised
    /\ Back("resume", {"done"}) /\ Finish
    /\ target_halted' = FALSE
    /\ UNCHANGED <<believes_running, breakpoints, upset>>

\* resume() itself, and the resume() that ends reset(halt_after=False).
ResumeDone ==
    /\ Back("resume", {"done"}) /\ Finish
    /\ target_halted' = FALSE /\ believes_running' = TRUE
    /\ UNCHANGED <<breakpoints, upset>>

Reset == op = "idle" /\ (Enter("reset", "reset") \/ Enter("reset_go", "reset"))

ResetDone ==
    /\ Back("reset", {"done"}) /\ Finish
    /\ target_halted' = TRUE
    /\ UNCHANGED <<believes_running, breakpoints, upset>>

ResetGoDone ==
    /\ Back("reset_go", {"done"}) /\ op' = "reset_resume"
    /\ target_halted' = TRUE
    /\ UNCHANGED <<believes_running, breakpoints, upset>>

ResetResume == op = "reset_resume" /\ Enter("resume", "continue")

\* send_monitor: the opinion follows the command's name.
SendMonitor ==
    /\ op = "idle"
    /\ \/ Enter("mon_reset", "reset")
       \/ Enter("mon_halt", "halt")
       \/ Enter("disasm", "other")

MonitorDone ==
    /\ \E m \in {"mon_reset", "mon_halt"} : Back(m, {"done"})
    /\ Finish /\ target_halted' = TRUE
    /\ UNCHANGED <<believes_running, breakpoints, upset>>

-----------------------------------------------------------------------------
(* Reads.  A method that reads requires target_halted and may issue several *)
(* commands; snapshot goes on past the failure of all but the registers.    *)

Read == op = "idle" /\ target_halted /\ Enter("read", "data")

ReadDone ==
    /\ \/ Back("read", {"done"})
       \/ Back("disasm", {"done"})
    /\ op' \in {"idle"} \cup (IF op = "read" THEN {"read_more"} ELSE {})
    /\ UNCHANGED <<Opinions, upset>>

ReadMore == op = "read_more" /\ Enter("read", "data")

TakeSnapshot == op = "idle" /\ target_halted /\ Enter("snap_regs", "data")

SnapRegisters ==
    /\ Back("snap_regs", {"done"}) /\ op' = "snap_next"
    /\ UNCHANGED <<Opinions, upset>>

\* callstack, disassembly, peripherals, until the list or the budget is spent.
SnapEnds ==
    /\ op = "snap_next" /\ Finish
    /\ UNCHANGED <<vars, Opinions, upset>>

SnapNext ==
    \/ op = "snap_next" /\ (Enter("snap_rest", "data") \/ Enter("snap_rest", "other"))
    \/ SnapEnds

SnapLeg ==
    /\ Back("snap_rest", {"done"} \cup Raises) /\ op' = "snap_next"
    /\ Note /\ UNCHANGED Opinions

-----------------------------------------------------------------------------
(* Breakpoints and run_until_breakpoint.                                    *)

SetBreakpoint == op = "idle" /\ ~breakpoints /\ Enter("set_bp", "insert")

SetDone ==
    /\ Back("set_bp", {"done"}) /\ Finish
    /\ breakpoints' = TRUE
    /\ UNCHANGED <<target_halted, believes_running, upset>>

RemoveBreakpoint == op = "idle" /\ breakpoints /\ Enter("del_bp", "delete")

RemoveDoneKeeps ==                            \* mutant: entry not popped
    /\ Back("del_bp", {"done"}) /\ Finish
    /\ UNCHANGED <<Opinions, upset>>

RemoveDone ==
    /\ Back("del_bp", {"done"}) /\ Finish
    /\ breakpoints' = FALSE
    /\ UNCHANGED <<target_halted, believes_running, upset>>

RunUntilBreakpoint == op = "idle" /\ Enter("run", "continue")

RunStarted ==
    /\ Back("run", {"done"}) /\ op' = "run_go"
    /\ target_halted' = FALSE /\ believes_running' = TRUE
    /\ UNCHANGED <<breakpoints, upset>>

RunWait ==
    /\ op = "run_go" /\ WaitForStopped /\ op' = "run_wait"
    /\ UNCHANGED <<Opinions, upset>>

RunStopped ==
    /\ Back("run_wait", {"stopped"}) /\ Finish
    /\ target_halted' = TRUE /\ believes_running' = FALSE
    /\ upset' = (upset \/ call.answer.of # resumes)
    /\ UNCHANGED breakpoints

\* Nothing stopped in time: interrupt, and report a timeout whatever comes of
\* it (except GDBError: pass, which covers the loss of gdb).
RunNoStop ==
    /\ Back("run_wait", {"nostop"}) /\ op' = "run_halt"
    /\ UNCHANGED <<Opinions, upset>>

RunInterrupt == op = "run_halt" /\ Enter("run_stop", "interrupt")

RunTimedOut ==
    /\ Back("run_stop", {"done"} \cup Raises) /\ Finish
    /\ IF call.pc = "done"
         THEN target_halted' = TRUE /\ believes_running' = FALSE
         ELSE UNCHANGED <<target_halted, believes_running>>
    /\ Note /\ UNCHANGED breakpoints

-----------------------------------------------------------------------------
\* A method raises: nothing it would have recorded is recorded.
Fail ==
    /\ \E m \in Methods \ (Starting \cup {"snap_rest", "run_stop"}) :
          Back(m, Raises)
    /\ Finish /\ Note /\ UNCHANGED Opinions

\* close(): the client stops reading; what becomes of the processes is the
\* subject of DebugLifecycle.
Close ==
    /\ op = "idle" /\ op' = "closed"
    /\ UNCHANGED <<vars, Opinions, upset>>

Method ==
    \/ Start \/ StartMonitorReset
    \/ Halt \/ Resume \/ Reset \/ ResetResume \/ SendMonitor
    \/ Read \/ ReadMore \/ TakeSnapshot \/ SnapNext
    \/ SetBreakpoint \/ RemoveBreakpoint
    \/ RunUntilBreakpoint \/ RunWait \/ RunInterrupt

Continuation ==
    \/ Connected \/ StartReset \/ Started \/ StartFails
    \/ HaltDone \/ ResumeDone \/ ResetDone \/ ResetGoDone \/ MonitorDone
    \/ ReadDone \/ SnapRegisters \/ SnapLeg
    \/ SetDone \/ RemoveDone
    \/ RunStarted \/ RunStopped \/ RunNoStop \/ RunTimedOut
    \/ Fail

SessionNext ==
    \/ Method \/ Continuation \/ Close
    \/ (ClientStep \/ Environment) /\ UNCHANGED session

SessionSpec == SessionInit /\ [][SessionNext]_allvars

-----------------------------------------------------------------------------
(* What the caller sees of it all is a RemoteTarget: the commands owed are  *)
(* those in the pipe, the verdict on a command is its result under way, and *)
(* the stops nobody was told of are those the client has not handed out.    *)

Owed == [i \in 1..Len(stdin) |-> stdin[i].verb]

Verdicts == {r \in Results : \E i \in 1..Len(stdout) :
                /\ call.pc = "reading" /\ stdout[i].class = r /\ stdout[i].of = call.id}
Verdict == IF Verdicts = {} THEN "none" ELSE CHOOSE r \in Results : r \in Verdicts

StopIn(lines, n) == \E i \in 1..Len(lines) : lines[i].class \in Stops /\ lines[i].of = n
Untold == {n \in 0..resumes : StopIn(async_queue, n) \/ StopIn(stdout, n)}

Remote == INSTANCE RemoteTarget WITH
    phase <- call.pc, verdict <- Verdict, owed <- Owed, untold <- Untold,
    alive <- (life = "up")

-----------------------------------------------------------------------------
(* Properties.                                                             *)

\* Types of the session's variables.
SessionTypeOK ==
    /\ TypeOK
    /\ op \in Methods \cup {"new", "idle", "closed", "start_go", "reset_resume",
                             "read_more", "snap_next", "run_go", "run_halt"}
    /\ target_halted \in BOOLEAN /\ believes_running \in BOOLEAN
    /\ breakpoints \in BOOLEAN /\ upset \in BOOLEAN

\* Between methods, and while nothing has upset the session (no call timed
\* out, no old stop was taken for a new one), target_halted is never a lie:
\* the core is halted, or the interrupt that will halt it is with gdb.
HaltedIsTrue ==
    op = "idle" /\ target_halted /\ ~upset => core = "halted" \/ interrupted

\* A *stopped gdb has written and no wait_for_stopped has returned.
Unread == \E i \in 1..Len(async_queue \o stdout) :
             (async_queue \o stdout)[i].class \in Stops

\* _gdb_believes_running follows gdb's own state as far as the records read
\* allow: gdb never runs the target behind its back, and when gdb has stopped
\* while the flag still says running the *stopped is there to be read.
BeliefTracksGdb ==
    op = "idle" /\ ~upset =>
        /\ runs => believes_running \/ interrupted
        /\ believes_running => runs \/ Unread

\* run_until_breakpoint gives up only on a run that has not stopped, or whose
\* *stopped has not been read yet: no stop is read and passed over.
NoStopMissed ==
    op = "run_wait" /\ call.pc = "nostop" /\ ~runs =>
        \E i \in 1..Len(stdout) : /\ stdout[i].class \in Stops
                                  /\ stdout[i].of = resumes

\* The breakpoint table agrees with gdb's between methods until a call has
\* timed out (set_breakpoint, remove_breakpoint record after the answer).
TablesAgree == op = "idle" /\ ~upset => breakpoints = inserted

\* To its caller a session is a RemoteTarget, through every timeout, late answer
\* and loss: a command is carried out once at most and in its turn, a call's
\* verdict is that on its own command and comes after the deed, a call is lost
\* only if its command was not carried out, and stops are told once, in order.
CallsAtMostOnce == Remote!Spec

\* What run_until_breakpoint reports (RunResult with target_halted=True and a
\* reason): when its wait returns a *stopped, the core it started is halted.
StopMeansHalted == op = "run_wait" /\ call.pc = "stopped" => core = "halted"
=============================================================================
