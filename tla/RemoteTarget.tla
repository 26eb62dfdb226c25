---------------------------- MODULE RemoteTarget ----------------------------
(***************************************************************************)
(* What the calls of debug/gdb.py promise about the target they are for,   *)
(* and nothing of how: one caller asks for commands and waits for stops.   *)
(* There are no pipes here, no tokens, no records, no buffers.             *)
(*                                                                         *)
(* Commands are carried out one at a time, in the order in which they were *)
(* given, each once at most.  A call returns the verdict on its own        *)
(* command, after it was carried out or refused.  A call that gives up     *)
(* leaves its command owed, with at most an interrupt behind it: it may     *)
(* still be carried out, much later.  Every stop is told once at most,     *)
(* the oldest first, and none is passed over.                              *)
(***************************************************************************)
EXTENDS Integers, Sequences

VARIABLES
    phase,        \* the call: "idle", "reading" for a verdict, "waiting" for a
                  \* stop, or its outcome
    verdict,      \* on the command of the call that is reading, "none" so far
    owed,         \* commands given and not yet carried out or refused; until the
                  \* verdict the last one is that of the call
    untold,       \* stops no call was told of, by the number of resumes before
    alive,        \* the debugger lives
    runs, core, interrupted, inserted, resumes   \* the debugger and the target

target == <<runs, core, interrupted, inserted, resumes>>
caller == <<phase, verdict, owed>>
vars   == <<caller, untold, alive, target>>

Init ==
    /\ phase = "idle" /\ verdict = "none" /\ owed = <<>> /\ untold = {} /\ alive = TRUE
    /\ runs = FALSE /\ core \in {"running", "halted"}
    /\ interrupted = FALSE /\ inserted = FALSE /\ resumes = 0

-----------------------------------------------------------------------------
(* The caller.                                                             *)

Ask(command) ==
    /\ phase = "idle" /\ phase' = "reading"
    /\ owed' = Append(owed, command)
    /\ UNCHANGED <<verdict, untold, alive, target>>

\* The debugger is gone: the command was not carried out, and no stop is untold.
Lose ==
    /\ ~alive /\ phase' = "lost"
    /\ \/ phase = "idle"
       \/ phase = "reading" /\ verdict = "none"
       \/ phase = "waiting" /\ untold = {}
    /\ UNCHANGED <<verdict, owed, untold, alive, target>>

Answer ==
    /\ phase = "reading" /\ verdict # "none"
    /\ phase' = verdict /\ verdict' = "none"
    /\ UNCHANGED <<owed, untold, alive, target>>

GiveUp ==
    /\ phase = "reading" /\ phase' = "timeout" /\ verdict' = "none"
    /\ owed' \in {owed, Append(owed, "interrupt")}
    /\ UNCHANGED <<untold, alive, target>>

Wait ==
    /\ phase = "idle" /\ phase' = "waiting"
    /\ UNCHANGED <<verdict, owed, untold, alive, target>>

Tell ==
    /\ phase \in {"idle", "waiting"} /\ phase' = "stopped"
    /\ \E n \in untold : untold' = untold \ {n} /\ \A k \in untold : n <= k
    /\ UNCHANGED <<verdict, owed, alive, target>>

NoStop ==
    /\ phase = "waiting" /\ phase' = "nostop"
    /\ UNCHANGED <<verdict, owed, untold, alive, target>>

Return ==
    /\ phase \in {"done", "error", "timeout", "lost", "stopped", "nostop"}
    /\ phase' = "idle"
    /\ UNCHANGED <<verdict, owed, untold, alive, target>>

-----------------------------------------------------------------------------
(* The debugger and the target.                                            *)

\* What carrying a command out does.  Connecting may report a stop.
Effect(command) ==
    \/ /\ command = "select" /\ untold' \in {untold, untold \cup {resumes}}
       /\ UNCHANGED target
    \/ /\ command = "data" /\ UNCHANGED <<untold, target>>
    \/ /\ command \in {"insert", "delete"} /\ inserted' = (command = "insert")
       /\ UNCHANGED <<untold, runs, core, interrupted, resumes>>
    \/ /\ command = "continue" /\ ~runs
       /\ runs' = TRUE /\ core' = "running" /\ resumes' = resumes + 1
       /\ UNCHANGED <<untold, interrupted, inserted>>
    \/ /\ command = "interrupt" /\ interrupted' = (interrupted \/ runs)
       /\ UNCHANGED <<untold, runs, core, inserted, resumes>>
    \/ /\ command \in {"reset", "halt", "other"} /\ ~runs
       /\ core' = IF command = "other" THEN core ELSE "halted"
       /\ UNCHANGED <<untold, runs, interrupted, inserted, resumes>>

Perform ==
    /\ alive /\ owed # <<>> /\ owed' = Tail(owed)
    /\ \E said \in {"done", "error"} :
          /\ verdict' = IF phase = "reading" /\ Len(owed) = 1 THEN said ELSE verdict
          /\ IF said = "done" THEN Effect(Head(owed)) ELSE UNCHANGED <<untold, target>>
    /\ UNCHANGED <<phase, alive>>

Stop ==
    /\ alive /\ runs
    /\ runs' = FALSE /\ core' = "halted" /\ interrupted' = FALSE
    /\ untold' = untold \cup {resumes}
    /\ UNCHANGED <<caller, alive, inserted, resumes>>

Die == alive /\ ~alive' /\ UNCHANGED <<caller, untold, target>>

-----------------------------------------------------------------------------
Next ==
    \/ \E command \in {"select", "data", "insert", "delete", "continue", "interrupt",
                       "reset", "halt", "other"} : Ask(command)
    \/ Lose \/ Answer \/ GiveUp \/ Wait \/ Tell \/ NoStop \/ Return
    \/ Perform \/ Stop \/ Die

Spec == Init /\ [][Next]_vars
=============================================================================
