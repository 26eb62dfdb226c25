------------------------ MODULE DebugSession_proofs ------------------------
(***************************************************************************)
(* Proofs about the debug session of DebugSession, for every bound         *)
(* MaxToken: the session is a user of the MI client, so the client's       *)
(* theorems hold of it, and its two opinions and its breakpoint table are  *)
(* right whenever no call has timed out.                                   *)
(*                                                                         *)
(* To its caller it is a RemoteTarget, whether calls time out or not: the  *)
(* refinement is proved action by action.                                  *)
(*                                                                         *)
(* The last part is about the commands of DebugRecipe, which are users of  *)
(* the session that write target_halted in one place themselves: what the  *)
(* session believes is then no longer the session's word, what the client  *)
(* has sent and read still is.                                             *)
(***************************************************************************)
EXTENDS DebugRecipe, GdbMI_proofs

-----------------------------------------------------------------------------
(* The inductive invariant.                                                *)

\* Which call a method is in.
Between == {"new", "idle", "closed", "start_go", "reset_resume", "read_more",
            "snap_next", "run_go", "run_halt"}

CallsOfMethods ==
    /\ op \in Between => call.pc = "idle"
    /\ op \in Methods => call.pc # "idle"
    /\ op # "run_wait" => call.pc \notin {"waiting", "stopped", "nostop"}
    /\ op = "run_wait" => call.pc \in {"waiting", "stopped", "nostop", "lost"}
    /\ op \in {"start_reset", "reset", "reset_go", "mon_reset"} => call.verb = "reset"
    /\ op = "mon_halt" => call.verb = "halt"
    /\ op = "halt" => call.verb = HaltVerb
    /\ op \in {"resume", "run"} => call.verb = "continue"
    /\ op = "run_stop" => call.verb = "interrupt"
    /\ op = "set_bp" => call.verb = "insert"
    /\ op = "del_bp" => call.verb = "delete"
    /\ op \in {"start", "attach", "read", "disasm", "snap_regs", "snap_rest"} =>
          call.verb \in {"select", "data", "other"}
    /\ op \in {"run_go", "run_wait", "run_halt", "run_stop"} =>
          believes_running /\ ~target_halted

\* A *stopped tells of a run that is past, and of the last one only when gdb
\* has not resumed since; a breakpoint is hit by a run, never by a connection.
PastAt(r, n, running) ==
    r.class \in Stops =>
        /\ r.of <= n /\ (r.of = n /\ n > 0 => ~running)
        /\ r.class = "breakpoint" => r.of > 0
Past(r) == PastAt(r, resumes, runs)

StopsPast ==
    /\ \A i \in 1..Len(stdout) : Past(stdout[i])
    /\ \A i \in 1..Len(async_queue) : Past(async_queue[i])
    /\ call.pc = "stopped" => call.answer.class \in Stops /\ Past(call.answer)
    /\ resumes > 0 /\ ~runs => core = "halted"
    /\ runs => resumes > 0

\* The end of file is the last thing a gdb that is not up has written.
EofLast == \A i \in 1..Len(stdout) : stdout[i].class = "eof" =>
              i = Len(stdout) /\ life # "up"

\* The call in progress is the last command written.
CallIsLast ==
    call.pc = "reading" =>
        /\ call.id = Len(sent)
        /\ \A i \in 1..Len(stdin) : stdin[i].id = call.id => stdin[i].verb = call.verb

ResultOfCall(i) == stdout[i].class \in Results /\ stdout[i].of = call.id

\* Once the -exec-continue of run_until_breakpoint has succeeded gdb runs the
\* target, or the *stopped of that run is still to be read.
StopAfter(n) == \E i \in 1..Len(stdout) :
                    i > n /\ stdout[i].class \in Stops /\ stdout[i].of = resumes

Awaiting ==
    \/ op = "run" /\ call.pc = "done"
    \/ op = "run_go"
    \/ op = "run_wait" /\ call.pc \in {"waiting", "nostop"}

RunAwaited ==
    /\ op = "run" /\ call.pc = "reading" =>
          \A i \in 1..Len(stdout) :
              ResultOfCall(i) /\ stdout[i].class = "done" => runs \/ StopAfter(i)
    /\ Awaiting => stdin = <<>> /\ (runs \/ StopAfter(0))

\* The session is right about gdb and the core ...
TableRight  == breakpoints = inserted
HaltRight   == target_halted => core = "halted" \/ interrupted
BeliefRight == runs => believes_running \/ interrupted
RunKnown    == believes_running => resumes > 0 /\ (runs \/ Unread)

Right == TableRight /\ HaltRight /\ BeliefRight /\ RunKnown

\* ... or will be as soon as it takes note of what its command has done.
RightAfter(verb) ==
    /\ RunKnown
    /\ verb \notin {"insert", "delete"} => TableRight
    /\ verb = "insert" => inserted
    /\ verb = "delete" => ~inserted
    /\ verb # "continue" => HaltRight /\ BeliefRight
    /\ verb = "continue" => resumes > 0 /\ (runs \/ Unread)
    /\ verb \in {"reset", "halt"} => core = "halted"
    /\ verb = "interrupt" => (runs => interrupted)

\* Nothing was ever abandoned.
Calm == ~upset /\ call.pc # "timeout"

NothingLeft ==
    life = "up" =>
        /\ call.pc # "reading" => stdin = <<>>
        /\ Len(stdin) <= 1 /\ \A i \in 1..Len(stdin) : stdin[i].id = call.id

\* What the call in progress has brought about.
Outcomes ==
    /\ call.pc \in {"idle", "error", "lost", "waiting", "nostop"} => Right
    /\ call.pc = "reading" /\ (\A i \in 1..Len(stdout) : ~ResultOfCall(i)) => Right
    /\ call.pc = "reading" => \A i \in 1..Len(stdout) : ResultOfCall(i) =>
          IF stdout[i].class = "done" THEN RightAfter(call.verb) ELSE Right
    /\ call.pc = "done" => RightAfter(call.verb)
    /\ call.pc = "stopped" =>
          TableRight /\ HaltRight /\ BeliefRight /\ resumes > 0

Undisturbed == NothingLeft /\ Outcomes

SessionInv ==
    /\ CallsOfMethods /\ StopsPast /\ EofLast /\ CallIsLast /\ RunAwaited
    /\ Calm => Undisturbed

-----------------------------------------------------------------------------
(* The session is a user of the client.                                    *)

\* Every step of the session is a step of the client or leaves it alone.
LEMMA SessionStepIsClients == [SessionNext]_allvars => [Next]_vars
<1> SUFFICES ASSUME [SessionNext]_allvars PROVE [Next]_vars
  OBVIOUS
<1>1. ASSUME NEW m, NEW v \in Verbs, Enter(m, v) PROVE Next
  BY <1>1 DEF Enter, Next
<1>2. ASSUME NEW m, NEW out, Back(m, out) PROVE Next
  BY <1>2 DEF Back, Next
<1>3. CASE Method
  <2>1. CASE RunWait
    BY <2>1 DEF RunWait, Next
  <2>2. CASE SnapEnds
    BY <2>2 DEF SnapEnds
  <2>3. {"select", "reset", "interrupt", "halt", "continue", "other", "data",
         "insert", "delete"} = Verbs
    BY DEF Verbs, Console
  <2>4. HaltVerb \in Verbs
    BY <2>3 DEF HaltVerb
  <2>. QED
    BY <1>1, <1>3, <2>1, <2>2, <2>3, <2>4
       DEF Method, Start, StartMonitorReset, Halt, Resume, Reset, ResetResume,
           SendMonitor, Read, ReadMore, TakeSnapshot, SnapNext, SetBreakpoint,
           RemoveBreakpoint, RunUntilBreakpoint, RunInterrupt
<1>4. CASE Continuation
  <2>1. CASE StartReset
    BY <2>1 DEF StartReset, Next
  <2>. QED
    BY <1>2, <1>4, <2>1
       DEF Continuation, Connected, Started, StartFails, HaltDone, ResumeDone,
           ResetDone, ResetGoDone, MonitorDone, ReadDone, SnapRegisters, SnapLeg,
           SetDone, RemoveDone, RunStarted, RunStopped, RunNoStop, RunTimedOut, Fail
<1>5. CASE Close
  BY <1>5 DEF Close
<1>6. CASE ClientStep \/ Environment
  BY <1>6 DEF Next
<1>7. CASE UNCHANGED allvars
  BY <1>7 DEF allvars
<1>. QED
  BY <1>3, <1>4, <1>5, <1>6, <1>7 DEF SessionNext

LEMMA SessionIsClient == SessionSpec => Spec
<1>1. SessionInit => Init
  BY DEF SessionInit
<1>. QED
  BY <1>1, SessionStepIsClients, PTL DEF SessionSpec, Spec

\* The variables of the session keep their types, and those of its client.
THEOREM SessionTypes == SessionSpec => []SessionTypeOK
<1> DEFINE Types == /\ op \in Methods \cup Between
                    /\ target_halted \in BOOLEAN /\ believes_running \in BOOLEAN
                    /\ breakpoints \in BOOLEAN /\ upset \in BOOLEAN
<1>1. SessionInit => Types
  BY DEF SessionInit, Between
<1>2. Types /\ [SessionNext]_allvars => Types'
  <2> SUFFICES ASSUME Types, [SessionNext]_allvars PROVE Types'
    OBVIOUS
  <2>1. ASSUME NEW m \in Methods, NEW v, Enter(m, v) PROVE Types'
    BY <2>1 DEF Enter, Opinions
  <2>2. CASE Method
    BY <2>1, <2>2
       DEF Method, Start, StartMonitorReset, Halt, Resume, Reset, ResetResume,
           SendMonitor, Read, ReadMore, TakeSnapshot, SnapNext, SnapEnds,
           SetBreakpoint, RemoveBreakpoint, RunUntilBreakpoint, RunWait,
           RunInterrupt, Methods, Starting, Running, Snapshot, Finish, Between, Opinions
  <2>3. CASE Continuation
    <3>1. CASE Connected \/ StartReset \/ Started \/ StartFails
      BY <3>1 DEF Connected, StartReset, Started, StartFails, Finish, Note, Between, Opinions
    <3>2. CASE HaltDone \/ ResumeDone \/ ResetDone \/ ResetGoDone \/ MonitorDone
      BY <3>2 DEF HaltDone, ResumeDone, ResetDone, ResetGoDone, MonitorDone, Finish, Between
    <3>3. CASE ReadDone \/ SnapRegisters \/ SnapLeg
      BY <3>3 DEF ReadDone, SnapRegisters, SnapLeg, Note, Between, Opinions
    <3>4. CASE SetDone \/ RemoveDone \/ RunStarted \/ RunStopped \/ RunNoStop
      BY <3>4 DEF SetDone, RemoveDone, RunStarted, RunStopped, RunNoStop, Finish, Between, Opinions
    <3>5. CASE RunTimedOut \/ Fail
      BY <3>5 DEF RunTimedOut, Fail, Finish, Note, Between, Opinions
    <3>. QED
      BY <2>3, <3>1, <3>2, <3>3, <3>4, <3>5 DEF Continuation
  <2>4. CASE Close
    BY <2>4 DEF Close, Between, Opinions
  <2>5. CASE UNCHANGED session
    BY <2>5 DEF session
  <2>. QED
    BY <2>2, <2>3, <2>4, <2>5 DEF SessionNext, allvars
<1>3. Types /\ TypeOK => SessionTypeOK
  BY DEF SessionTypeOK, Between
<1>. QED
  BY SessionIsClient, TypeCorrect, <1>1, <1>2, <1>3, PTL DEF SessionSpec

-----------------------------------------------------------------------------
(* What one step does to the pipes, line by line.                          *)

\* Taking the first element of a sequence.
LEMMA Popped ==
    ASSUME NEW S, NEW s \in Seq(S), s # <<>>
    PROVE  /\ Len(s) \in Nat \ {0} /\ 1 \in 1..Len(s)
           /\ Head(s) = s[1] /\ Head(s) \in S
           /\ Tail(s) \in Seq(S) /\ Len(Tail(s)) = Len(s) - 1
           /\ \A i \in 1..Len(Tail(s)) : i + 1 \in 1..Len(s) /\ Tail(s)[i] = s[i + 1]
BY HeadTailProperties

\* Dropping the first elements of a sequence.
LEMMA Dropped ==
    ASSUME NEW S, NEW s \in Seq(S), NEW i \in 1..Len(s)
    PROVE  /\ Len(SubSeq(s, i + 1, Len(s))) = Len(s) - i
           /\ \A j \in 1..Len(SubSeq(s, i + 1, Len(s))) :
                 j + i \in 1..Len(s) /\ SubSeq(s, i + 1, Len(s))[j] = s[j + i]
<1> DEFINE t == SubSeq(s, i + 1, Len(s))
<1>1. Len(s) \in Nat /\ i + 1 \in 1..(Len(s) + 1) /\ Len(s) \in ((i + 1) - 1)..Len(s)
  OBVIOUS
<1>2. Len(t) = Len(s) - i
  BY <1>1, SubSeqProperties
<1>3. \A j \in 1..(Len(s) - i) : t[j] = s[(i + 1) + j - 1]
  BY <1>1, SubSeqProperties
<1>4. \A j \in 1..(Len(s) - i) : j + i \in 1..Len(s) /\ (i + 1) + j - 1 = j + i
  BY <1>1
<1>. QED
  BY <1>2, <1>3, <1>4

\* The lines that were there stay, the others are the new ones.
LEMMA PushedOne ==
    ASSUME NEW S, NEW s \in Seq(S), NEW a \in S
    PROVE  /\ Len(s \o <<a>>) = Len(s) + 1 /\ Len(s) \in Nat
           /\ \A i \in 1..Len(s) : (s \o <<a>>)[i] = s[i]
           /\ \A i \in 1..(Len(s) + 1) : i > Len(s) => (s \o <<a>>)[i] = a
OBVIOUS

LEMMA PushedTwo ==
    ASSUME NEW S, NEW s \in Seq(S), NEW a \in S, NEW b \in S
    PROVE  /\ Len(s \o <<a, b>>) = Len(s) + 2 /\ Len(s) \in Nat
           /\ \A i \in 1..Len(s) : (s \o <<a, b>>)[i] = s[i]
           /\ (s \o <<a, b>>)[Len(s) + 1] = a /\ (s \o <<a, b>>)[Len(s) + 2] = b
           /\ \A i \in 1..(Len(s) + 2) : i > Len(s) => (s \o <<a, b>>)[i] \in {a, b}
<1> DEFINE t == s \o <<a, b>>
<1>1. <<a, b>> \in Seq(S) /\ Len(<<a, b>>) = 2 /\ <<a, b>>[1] = a /\ <<a, b>>[2] = b
  OBVIOUS
<1>2. Len(t) = Len(s) + 2 /\ Len(s) \in Nat
  BY <1>1, ConcatProperties
<1>3. \A i \in 1..Len(s) : t[i] = s[i]
  BY <1>1, <1>2, ConcatProperties
<1>4. t[Len(s) + 1] = a /\ t[Len(s) + 2] = b
  BY <1>1, <1>2, ConcatProperties
<1>5. \A i \in 1..(Len(s) + 2) : i > Len(s) => i = Len(s) + 1 \/ i = Len(s) + 2
  BY <1>2
<1>. QED
  BY <1>2, <1>3, <1>4, <1>5

\* What a command that gdb carries out does to the target.
Did(c) ==
    \/ c.verb \in {"select", "data"} /\ UNCHANGED target
    \/ /\ c.verb \in {"insert", "delete"} /\ inserted' = (c.verb = "insert")
       /\ UNCHANGED <<runs, core, interrupted, resumes>>
    \/ /\ c.verb = "continue" /\ ~runs /\ runs' = TRUE /\ core' = "running"
       /\ resumes' = resumes + 1 /\ UNCHANGED <<interrupted, inserted>>
    \/ /\ c.verb = "interrupt" /\ interrupted' = (interrupted \/ runs)
       /\ UNCHANGED <<runs, core, inserted, resumes>>
    \/ /\ c.verb \in Console /\ ~runs
       /\ core' = IF c.verb \in {"reset", "halt"} THEN "halted" ELSE core
       /\ UNCHANGED <<runs, interrupted, inserted, resumes>>

\* A line gdb writes while it executes command c.
LineOf(c, r) ==
    /\ r.class \in Results => r.of = c.id
    /\ r.class \in Stops => r.of = 0
    /\ r.class # "eof" /\ r.class # "breakpoint"

\* gdb refuses the command and reports no success, or carries it out and
\* reports no failure.
LEMMA ExecuteFacts ==
    ASSUME TypeOK, GdbExecute
    PROVE  /\ stdin # <<>> /\ stdin' = Tail(stdin) /\ life = "up"
           /\ Head(stdin) \in Command
           /\ UNCHANGED <<token, async_queue, stream_buffer, call, life, sent, consumed>>
           /\ Len(stdout) \in Nat /\ Len(stdout') \in Nat /\ Len(stdout) <= Len(stdout')
           /\ \A i \in 1..Len(stdout) : stdout'[i] = stdout[i]
           /\ \A i \in 1..Len(stdout') : i > Len(stdout) => LineOf(Head(stdin), stdout'[i])
           /\ \/ /\ UNCHANGED target
                 /\ \A i \in 1..Len(stdout') : i > Len(stdout) => stdout'[i].class # "done"
              \/ /\ Did(Head(stdin))
                 /\ \A i \in 1..Len(stdout') : i > Len(stdout) => stdout'[i].class # "error"
                 /\ \E i \in 1..Len(stdout') : i > Len(stdout) /\ stdout'[i].class = "done"
<1> DEFINE c == Head(stdin)
           Good(ok) ==
              /\ Len(stdout) \in Nat /\ Len(stdout') \in Nat /\ Len(stdout) <= Len(stdout')
              /\ \A i \in 1..Len(stdout) : stdout'[i] = stdout[i]
              /\ \A i \in 1..Len(stdout') : i > Len(stdout) =>
                    LineOf(c, stdout'[i]) /\ stdout'[i].class # ok
           Shown == \E i \in 1..Len(stdout') : i > Len(stdout) /\ stdout'[i].class = "done"
<1>1. /\ stdin # <<>> /\ stdin' = Tail(stdin) /\ life = "up"
      /\ UNCHANGED <<token, async_queue, stream_buffer, call, life, sent, consumed>>
      /\ c \in Command /\ resumes \in Nat /\ stdout \in Seq(Line)
  BY TailInSeq DEF GdbExecute, TypeOK, PipesTypeOK, TargetTypeOK
<1>2. /\ Result(c, "done") \in Line /\ Result(c, "error") \in Line
      /\ Text(c) \in Line /\ Stop("connect", 0) \in Line
      /\ Record("running", 0, resumes + 1) \in Line
  BY <1>1, RecordType DEF Result, Text, Stop, Command, Classes, Results, Async, Stops
<1>3. /\ \A r \in {Result(c, "done"), Text(c), Stop("connect", 0), Record("running", 0, resumes + 1)} :
            LineOf(c, r) /\ r.class # "error"
      /\ Result(c, "done").class = "done"
  BY DEF LineOf, Result, Text, Stop, Record, Results, Stops
<1>4. LineOf(c, Result(c, "error")) /\ Result(c, "error").class # "done" /\ Text(c).class # "done"
  BY DEF LineOf, Result, Text, Record, Results, Stops
<1>5. ASSUME NEW a \in Line, NEW ok, LineOf(c, a), a.class # ok, Emit(<<a>>)
      PROVE  Good(ok) /\ (a.class = "done" => Shown)
  <2>1. /\ Len(stdout') = Len(stdout) + 1 /\ Len(stdout) \in Nat
        /\ \A i \in 1..Len(stdout) : stdout'[i] = stdout[i]
        /\ \A i \in 1..(Len(stdout) + 1) : i > Len(stdout) => stdout'[i] = a
    BY <1>1, <1>5, PushedOne DEF Emit
  <2>2. Len(stdout') \in 1..Len(stdout') /\ Len(stdout') > Len(stdout)
    BY <2>1
  <2>. QED
    BY <1>5, <2>1, <2>2
<1>6. ASSUME NEW a \in Line, NEW b \in Line, NEW ok, LineOf(c, a), LineOf(c, b),
             a.class # ok, b.class # ok, Emit(<<a, b>>)
      PROVE  Good(ok) /\ (a.class = "done" \/ b.class = "done" => Shown)
  <2>1. /\ Len(stdout') = Len(stdout) + 2 /\ Len(stdout) \in Nat
        /\ \A i \in 1..Len(stdout) : stdout'[i] = stdout[i]
        /\ \A i \in 1..(Len(stdout) + 2) : i > Len(stdout) => stdout'[i] \in {a, b}
        /\ stdout'[Len(stdout) + 1] = a /\ stdout'[Len(stdout) + 2] = b
    BY <1>1, <1>6, PushedTwo DEF Emit
  <2>2. /\ Len(stdout) + 1 \in 1..Len(stdout') /\ Len(stdout) + 1 > Len(stdout)
        /\ Len(stdout) + 2 \in 1..Len(stdout') /\ Len(stdout) + 2 > Len(stdout)
    BY <2>1
  <2>. QED
    BY <1>6, <2>1, <2>2
<1>. HIDE DEF c, Good, Shown
<1>7. \/ UNCHANGED target /\ Good("done")
      \/ Did(c) /\ Good("error") /\ Shown
  <2>1. CASE GdbRefuse(c)
    BY <2>1, <1>2, <1>3, <1>4, <1>5, <1>6 DEF GdbRefuse
  <2>2. CASE GdbSelect(c)
    BY <2>2, <1>2, <1>3, <1>5, <1>6 DEF GdbSelect, Did
  <2>3. CASE GdbData(c)
    BY <2>3, <1>2, <1>3, <1>5 DEF GdbData, Did
  <2>4. CASE GdbBreakpoint(c)
    BY <2>4, <1>2, <1>3, <1>5 DEF GdbBreakpoint, Did
  <2>5. CASE GdbContinue(c)
    BY <2>5, <1>2, <1>3, <1>6 DEF GdbContinue, Did
  <2>6. CASE GdbInterrupt(c)
    BY <2>6, <1>2, <1>3, <1>5 DEF GdbInterrupt, Did
  <2>7. CASE GdbConsole(c)
    BY <2>7, <1>2, <1>3, <1>6 DEF GdbConsole, Did
  <2>. QED
    BY <2>1, <2>2, <2>3, <2>4, <2>5, <2>6, <2>7 DEF GdbExecute, c
<1>. QED
  BY <1>1, <1>7 DEF c, Good, Shown

\* The steps by which gdb writes a line nobody asked for.
LEMMA StopFacts ==
    ASSUME TypeOK, GdbStop
    PROVE  /\ Len(stdout') = Len(stdout) + 1 /\ Len(stdout) \in Nat
           /\ \A i \in 1..Len(stdout) : stdout'[i] = stdout[i]
           /\ \A i \in 1..Len(stdout') : i > Len(stdout) =>
                 stdout'[i].class \in Stops /\ stdout'[i].of = resumes
           /\ life = "up" /\ runs /\ ~runs' /\ core' = "halted"
           /\ UNCHANGED <<token, async_queue, stream_buffer, call, stdin, life,
                          inserted, resumes, sent, consumed>>
<1>1. PICK why \in {"breakpoint", "signal"} : Emit(<<Stop(why, resumes)>>)
  BY DEF GdbStop
<1>2. Stop(why, resumes) \in Line
  BY RecordType DEF Stop, Classes, Async, Stops, TypeOK, TargetTypeOK
<1>3. Stop(why, resumes).class \in Stops /\ Stop(why, resumes).of = resumes
  BY DEF Stop, Record, Stops
<1>4. stdout \in Seq(Line)
  BY DEF TypeOK, PipesTypeOK
<1>. QED
  BY <1>1, <1>2, <1>3, <1>4, PushedOne DEF GdbStop, Emit

LEMMA CloseFacts ==
    ASSUME TypeOK, GdbClose
    PROVE  /\ Len(stdout') = Len(stdout) + 1 /\ Len(stdout) \in Nat
           /\ \A i \in 1..Len(stdout) : stdout'[i] = stdout[i]
           /\ \A i \in 1..Len(stdout') : i > Len(stdout) => stdout'[i].class = "eof"
           /\ life = "up" /\ life' = "closing"
           /\ UNCHANGED <<token, async_queue, stream_buffer, call, stdin, target, sent, consumed>>
<1>1. Record("eof", 0, 0) \in Line
  BY RecordType DEF Classes
<1>2. Record("eof", 0, 0).class = "eof"
  BY DEF Record
<1>3. stdout \in Seq(Line)
  BY DEF TypeOK, PipesTypeOK
<1>. QED
  BY <1>1, <1>2, <1>3, PushedOne DEF GdbClose, Emit

\* A line is read: what is left was there, one place further on.
LEMMA ReadFacts ==
    ASSUME TypeOK, stdout # <<>>, stdout' = Tail(stdout)
    PROVE  /\ Len(stdout) \in Nat \ {0} /\ 1 \in 1..Len(stdout)
           /\ Head(stdout) = stdout[1] /\ Head(stdout) \in Line
           /\ Len(stdout') = Len(stdout) - 1
           /\ \A i \in 1..Len(stdout') : i + 1 \in 1..Len(stdout) /\ stdout'[i] = stdout[i + 1]
BY Popped DEF TypeOK, PipesTypeOK

\* A line that is put aside goes to the end of the queue or nowhere near it.
LEMMA ClassifyFacts ==
    ASSUME TypeOK, NEW r \in Line, Classify(r)
    PROVE  /\ Len(async_queue) \in Nat /\ Len(async_queue') \in Nat
           /\ Len(async_queue) <= Len(async_queue')
           /\ \A i \in 1..Len(async_queue) : async_queue'[i] = async_queue[i]
           /\ \A i \in 1..Len(async_queue') : i > Len(async_queue) => async_queue'[i] = r
           /\ r.class \in Stops => /\ Len(async_queue') = Len(async_queue) + 1
                                   /\ async_queue'[Len(async_queue) + 1] = r
<1>1. async_queue \in Seq(Line)
  BY DEF TypeOK, ClientTypeOK
<1>2. Stops \subseteq Async
  BY DEF Async
<1>3. /\ Len(Append(async_queue, r)) = Len(async_queue) + 1 /\ Len(async_queue) \in Nat
      /\ \A i \in 1..Len(async_queue) : Append(async_queue, r)[i] = async_queue[i]
      /\ Append(async_queue, r)[Len(async_queue) + 1] = r
  BY <1>1
<1>. QED
  BY <1>1, <1>2, <1>3 DEF Classify

-----------------------------------------------------------------------------
(* The invariants that are the client's own.                               *)

\* While the target is left alone a line that tells of the past goes on doing so.
LEMMA PastStays ==
    UNCHANGED target => \A r : PastAt(r, resumes', runs') = Past(r)
BY DEF Past, target

\* A *stopped is never about a run to come.
LEMMA StopsStep ==
    ASSUME TypeOK, StopsPast, [Next]_vars
    PROVE  StopsPast'
<1>1. /\ \A i \in 1..Len(stdout) : Past(stdout[i])
      /\ \A i \in 1..Len(async_queue) : Past(async_queue[i])
      /\ call.pc = "stopped" => call.answer.class \in Stops /\ Past(call.answer)
      /\ resumes > 0 /\ ~runs => core = "halted"
      /\ runs => resumes > 0
  BY DEF StopsPast, Past
<1>2. call \in Calls /\ async_queue \in Seq(Line) /\ resumes \in Nat
  BY DEF TypeOK, ClientTypeOK, TargetTypeOK
<1>3. ASSUME UNCHANGED target
      PROVE  (resumes > 0 /\ ~runs => core = "halted")' /\ (runs => resumes > 0)'
  BY <1>1, <1>3 DEF target
<1>4. CASE UNCHANGED <<target, stdout, async_queue>> /\ (UNCHANGED call \/ call'.pc # "stopped")
  BY <1>1, <1>3, <1>4, PastStays DEF StopsPast, Past
<1>5. ASSUME NEW v \in Verbs, SendMi(v) PROVE StopsPast'
  <2>1. call'.pc \in {"lost", "reading"}
    BY <1>5 DEF SendMi, NoCall
  <2>. QED
    BY <1>4, <1>5, <2>1 DEF SendMi
<1>6. CASE WaitForStopped
  <2>1. UNCHANGED <<stdout, target>>
    BY <1>6 DEF WaitForStopped, pipes
  <2>2. CASE async_queue' = <<>> /\ call' = [NoCall EXCEPT !.pc = "waiting"]
    BY <1>1, <1>3, <2>1, <2>2, PastStays DEF StopsPast, Past, NoCall
  <2>3. ASSUME NEW i \in 1..Len(async_queue), IsStop(async_queue[i]),
               async_queue' = SubSeq(async_queue, i + 1, Len(async_queue)),
               call' = [NoCall EXCEPT !.pc = "stopped", !.answer = async_queue[i]]
        PROVE  StopsPast'
    <3>1. /\ Len(async_queue') = Len(async_queue) - i
          /\ \A j \in 1..Len(async_queue') :
                j + i \in 1..Len(async_queue) /\ async_queue'[j] = async_queue[j + i]
      BY <1>2, <2>3, Dropped
    <3>2. call'.answer = async_queue[i] /\ call'.answer.class \in Stops
      BY <2>3 DEF NoCall, IsStop
    <3>. QED
      BY <1>1, <1>3, <2>1, <2>3, <3>1, <3>2, PastStays DEF StopsPast, Past
  <2>. QED
    BY <1>6, <2>2, <2>3 DEF WaitForStopped
<1>7. ASSUME stdout # <<>>, stdout' = Tail(stdout), UNCHANGED target,
             UNCHANGED async_queue \/ Classify(Head(stdout)),
             \/ UNCHANGED call \/ call'.pc # "stopped"
             \/ IsStop(Head(stdout)) /\ call'.answer = Head(stdout)
      PROVE  StopsPast'
  <2>1. \A i \in 1..Len(stdout') : PastAt(stdout'[i], resumes', runs')
    BY <1>1, <1>7, ReadFacts, PastStays
  <2>2. PastAt(Head(stdout), resumes', runs') /\ Past(Head(stdout))
    BY <1>1, <1>7, ReadFacts, PastStays
  <2>3. \A i \in 1..Len(async_queue') : PastAt(async_queue'[i], resumes', runs')
    <3>1. CASE UNCHANGED async_queue
      BY <1>1, <1>7, <3>1, PastStays
    <3>2. CASE Classify(Head(stdout))
      <4>1. \A i \in 1..Len(async_queue') :
               i \in 1..Len(async_queue) \/ async_queue'[i] = Head(stdout)
        BY <1>7, <3>2, ReadFacts, ClassifyFacts
      <4>. QED
        BY <1>1, <1>7, <2>2, <3>2, <4>1, ReadFacts, ClassifyFacts, PastStays
    <3>. QED
      BY <1>7, <3>1, <3>2
  <2>4. call'.pc = "stopped" => call'.answer.class \in Stops /\ PastAt(call'.answer, resumes', runs')
    BY <1>1, <1>7, <2>2, PastStays DEF IsStop
  <2>. QED
    BY <1>3, <1>7, <2>1, <2>3, <2>4 DEF StopsPast, Past
<1>8. CASE ReadAnswer
  <2>1. call'.pc # "stopped"
    BY <1>2, <1>8 DEF ReadAnswer, Answers, Calls, Results
  <2>2. stdout # <<>> /\ stdout' = Tail(stdout) /\ UNCHANGED <<target, async_queue>>
    BY <1>8 DEF ReadAnswer
  <2>. QED
    BY <1>7, <2>1, <2>2
<1>9. CASE ReadOther
  BY <1>7, <1>9 DEF ReadOther
<1>10. CASE ReadEof
  BY <1>2, <1>4, <1>10 DEF ReadEof, pipes, Calls
<1>11. CASE WaitRead
  <2>1. \/ UNCHANGED call
        \/ IsStop(Head(stdout)) /\ call'.answer = Head(stdout)
    BY <1>2, <1>11 DEF WaitRead, Calls
  <2>2. /\ stdout # <<>> /\ stdout' = Tail(stdout) /\ UNCHANGED target
        /\ UNCHANGED async_queue \/ Classify(Head(stdout))
    BY <1>11 DEF WaitRead
  <2>. QED
    BY <1>7, <2>1, <2>2
<1>12. CASE TimeOut
  BY <1>2, <1>4, <1>12 DEF TimeOut, Calls
<1>13. CASE WaitTimeOut
  BY <1>2, <1>4, <1>13 DEF WaitTimeOut, pipes, Calls
<1>14. CASE Return
  BY <1>4, <1>14 DEF Return, pipes, NoCall
<1>15. CASE GdbExecute
  <2>1. UNCHANGED <<call, async_queue>>
    BY <1>15, ExecuteFacts
  <2>2. \A i \in 1..Len(stdout') : i > Len(stdout) =>
           /\ stdout'[i].class \in Stops => stdout'[i].of = 0
           /\ stdout'[i].class # "breakpoint"
    BY <1>15, ExecuteFacts DEF LineOf
  <2>3. /\ resumes' \in Nat /\ resumes <= resumes'
        /\ runs' = runs \/ resumes' = resumes + 1
        /\ resumes' # resumes => resumes' = resumes + 1 /\ runs'
        /\ resumes' > 0 /\ ~runs' => core' = "halted"
        /\ runs' => resumes' > 0
    <3>1. UNCHANGED target \/ Did(Head(stdin))
      BY <1>15, ExecuteFacts
    <3>. QED
      BY <1>1, <1>2, <3>1 DEF Did, target
  <2>4. \A r \in Line : Past(r) => PastAt(r, resumes', runs')
    BY <1>2, <2>3 DEF Past, PastAt, Line
  <2>5. \A i \in 1..Len(stdout') : PastAt(stdout'[i], resumes', runs')
    <3>1. stdout \in Seq(Line)
      BY DEF TypeOK, PipesTypeOK
    <3>2. ASSUME NEW i \in 1..Len(stdout'), i > Len(stdout) PROVE PastAt(stdout'[i], resumes', runs')
      BY <2>2, <2>3, <3>2 DEF PastAt
    <3>3. ASSUME NEW i \in 1..Len(stdout) PROVE PastAt(stdout'[i], resumes', runs')
      <4>1. stdout'[i] = stdout[i] /\ stdout[i] \in Line
        BY <1>15, <3>1, ExecuteFacts
      <4>. QED
        BY <1>1, <2>4, <4>1
    <3>4. \A i \in 1..Len(stdout') : i \in 1..Len(stdout) \/ i > Len(stdout)
      BY <1>15, ExecuteFacts
    <3>. QED
      BY <3>2, <3>3, <3>4
  <2>6. \A i \in 1..Len(async_queue') : PastAt(async_queue'[i], resumes', runs')
    BY <1>1, <1>2, <2>1, <2>4
  <2>7. call'.pc = "stopped" => call'.answer.class \in Stops /\ PastAt(call'.answer, resumes', runs')
    <3>1. call.answer \in Line
      BY <1>2 DEF Calls
    <3>. QED
      BY <1>1, <2>1, <2>4, <3>1
  <2>. QED
    BY <2>3, <2>5, <2>6, <2>7 DEF StopsPast, Past
<1>16. CASE GdbStop
  <2>1. \A r : Past(r) => PastAt(r, resumes', runs')
    BY <1>16, StopFacts DEF Past, PastAt
  <2>2. \A i \in 1..Len(stdout') : PastAt(stdout'[i], resumes', runs')
    <3>1. ASSUME NEW i \in 1..Len(stdout'), i > Len(stdout) PROVE PastAt(stdout'[i], resumes', runs')
      <4>1. stdout'[i].of = resumes /\ resumes' = resumes /\ ~runs'
        BY <1>16, <3>1, StopFacts
      <4>2. resumes > 0
        BY <1>1, <1>16, StopFacts
      <4>. QED
        BY <1>2, <4>1, <4>2 DEF PastAt
    <3>. QED
      BY <1>1, <1>16, <2>1, <3>1, StopFacts
  <2>. QED
    BY <1>1, <1>16, <2>1, <2>2, StopFacts DEF StopsPast, Past
<1>17. CASE GdbClose
  <2>1. \A i \in 1..Len(stdout') : i > Len(stdout) => PastAt(stdout'[i], resumes', runs')
    BY <1>17, CloseFacts DEF PastAt, Stops
  <2>. QED
    BY <1>1, <1>3, <1>17, <2>1, CloseFacts, PastStays DEF StopsPast, Past
<1>18. CASE GdbExit
  BY <1>4, <1>18 DEF GdbExit, pipes
<1>19. CASE UNCHANGED vars
  BY <1>4, <1>19 DEF vars, pipes
<1>. QED
  BY <1>5, <1>6, <1>8, <1>9, <1>10, <1>11, <1>12, <1>13, <1>14, <1>15, <1>16,
     <1>17, <1>18, <1>19 DEF Next, ClientStep, ClientRead, Environment

\* Nothing follows the end of file, which a gdb that is up has not written.
LEMMA EofStep ==
    ASSUME TypeOK, EofLast, [Next]_vars
    PROVE  EofLast'
<1>1. \A i \in 1..Len(stdout) : stdout[i].class = "eof" => i = Len(stdout) /\ life # "up"
  BY DEF EofLast
<1>2. CASE UNCHANGED <<stdout, life>>
  BY <1>1, <1>2 DEF EofLast
<1>3. ASSUME stdout # <<>>, stdout' = Tail(stdout), UNCHANGED life PROVE EofLast'
  <2> SUFFICES ASSUME NEW i \in 1..Len(stdout'), stdout'[i].class = "eof"
               PROVE  i = Len(stdout') /\ life' # "up"
    BY DEF EofLast
  <2>1. /\ i + 1 \in 1..Len(stdout) /\ stdout'[i] = stdout[i + 1]
        /\ Len(stdout) \in Nat \ {0} /\ Len(stdout') = Len(stdout) - 1
    BY <1>3, ReadFacts
  <2>2. i + 1 = Len(stdout) /\ life # "up"
    BY <1>1, <2>1
  <2>3. i = Len(stdout')
    BY <2>1, <2>2
  <2>. QED
    BY <1>3, <2>2, <2>3
<1>4. CASE GdbExecute
  <2>1. \A i \in 1..Len(stdout') : i > Len(stdout) => stdout'[i].class # "eof"
    BY <1>4, ExecuteFacts DEF LineOf
  <2>2. \A i \in 1..Len(stdout) : stdout'[i].class # "eof"
    BY <1>1, <1>4, ExecuteFacts
  <2>3. \A i \in 1..Len(stdout') : i \in 1..Len(stdout) \/ i > Len(stdout)
    BY <1>4, ExecuteFacts
  <2>. QED
    BY <2>1, <2>2, <2>3 DEF EofLast
<1>5. CASE GdbStop
  <2>1. \A i \in 1..Len(stdout') : i > Len(stdout) => stdout'[i].class # "eof"
    BY <1>5, StopFacts DEF Stops
  <2>2. \A i \in 1..Len(stdout) : stdout'[i].class # "eof"
    BY <1>1, <1>5, StopFacts
  <2>3. \A i \in 1..Len(stdout') : i \in 1..Len(stdout) \/ i > Len(stdout)
    BY <1>5, StopFacts
  <2>. QED
    BY <2>1, <2>2, <2>3 DEF EofLast
<1>6. CASE GdbClose
  <2>1. life' # "up" /\ \A i \in 1..Len(stdout) : stdout'[i].class # "eof"
    BY <1>1, <1>6, CloseFacts
  <2>2. \A i \in 1..Len(stdout') : i \in 1..Len(stdout) \/ i = Len(stdout')
    BY <1>6, CloseFacts
  <2>. QED
    BY <2>1, <2>2 DEF EofLast
<1>7. CASE GdbExit
  BY <1>1, <1>7 DEF GdbExit, EofLast, pipes
<1>8. CASE ClientStep
  BY <1>2, <1>3, <1>8
     DEF ClientStep, ClientRead, ReadAnswer, ReadOther, ReadEof, WaitRead, TimeOut,
         WaitTimeOut, pipes
<1>9. CASE WaitForStopped \/ Return \/ UNCHANGED vars
  BY <1>2, <1>9 DEF WaitForStopped, Return, vars, pipes
<1>10. ASSUME NEW v \in Verbs, SendMi(v) PROVE EofLast'
  BY <1>2, <1>10 DEF SendMi
<1>. QED
  BY <1>4, <1>5, <1>6, <1>7, <1>8, <1>9, <1>10 DEF Next, Environment

\* A call reads on behalf of the command written last.
LEMMA LastStep ==
    ASSUME TypeOK, Ordered, CallIsLast, [Next]_vars
    PROVE  CallIsLast'
<1>1. call \in Calls /\ stdin \in Seq(Command) /\ sent \in Seq(Nat)
  BY DEF TypeOK, ClientTypeOK, PipesTypeOK
<1>2. CASE call'.pc # "reading"
  BY <1>2 DEF CallIsLast
<1>3. CASE UNCHANGED <<call, sent, stdin>>
  BY <1>3 DEF CallIsLast
<1>4. ASSUME NEW v \in Verbs, SendMi(v) PROVE CallIsLast'
  <2>1. CASE Write(token + 1, v) /\ call'.id = Len(sent) + 1 /\ call'.verb = v
    <3>1. /\ Len(sent') = Len(sent) + 1 /\ Len(stdin') = Len(stdin) + 1
          /\ \A i \in 1..Len(stdin) : stdin'[i] = stdin[i]
          /\ stdin'[Len(stdin) + 1].verb = v /\ Len(stdin) \in Nat
      BY <1>1, <2>1 DEF Write
    <3>2. \A i \in 1..Len(stdin) : stdin'[i].id # Len(sent) + 1
      <4>1. \A i \in 1..Len(stdin) : stdin[i].id <= Len(sent) /\ stdin[i].id \in Nat
        BY OrderTypes DEF Ordered, PipesOrdered, StdinOrdered
      <4>. QED
        BY <1>1, <3>1, <4>1
    <3>3. \A i \in 1..Len(stdin') : i \in 1..Len(stdin) \/ i = Len(stdin) + 1
      BY <3>1
    <3>. QED
      BY <2>1, <3>1, <3>2, <3>3 DEF CallIsLast
  <2>2. \/ call'.pc # "reading"
        \/ Write(token + 1, v) /\ call'.id = Len(sent) + 1 /\ call'.verb = v
    BY <1>4 DEF SendMi, NoCall
  <2>. QED
    BY <1>2, <2>1, <2>2
<1>5. CASE WaitForStopped
  <2>1. call'.pc \in {"waiting", "stopped"}
    BY <1>5 DEF WaitForStopped, NoCall
  <2>. QED
    BY <1>2, <2>1
<1>6. CASE ReadAnswer
  <2>1. call'.pc # "reading"
    BY <1>1, <1>6 DEF ReadAnswer, Answers, Calls, Results
  <2>. QED
    BY <1>2, <2>1
<1>7. CASE ReadOther
  BY <1>3, <1>7 DEF ReadOther
<1>8. CASE ReadEof
  BY <1>1, <1>2, <1>8 DEF ReadEof, Calls
<1>9. CASE WaitRead
  BY <1>1, <1>2, <1>9 DEF WaitRead, Calls
<1>10. CASE TimeOut
  BY <1>1, <1>2, <1>10 DEF TimeOut, Calls
<1>11. CASE WaitTimeOut
  BY <1>1, <1>2, <1>11 DEF WaitTimeOut, Calls
<1>12. CASE Return
  BY <1>2, <1>12 DEF Return, NoCall
<1>13. CASE GdbExecute
  <2>1. /\ UNCHANGED <<call, sent>>
        /\ \A i \in 1..Len(stdin') : i + 1 \in 1..Len(stdin) /\ stdin'[i] = stdin[i + 1]
    BY <1>1, <1>13, Popped DEF GdbExecute
  <2>. QED
    BY <2>1 DEF CallIsLast
<1>14. CASE GdbStop \/ GdbClose \/ GdbExit \/ UNCHANGED vars
  BY <1>3, <1>14 DEF GdbStop, GdbClose, GdbExit, vars, pipes
<1>. QED
  BY <1>4, <1>5, <1>6, <1>7, <1>8, <1>9, <1>10, <1>11, <1>12, <1>13, <1>14
     DEF Next, ClientStep, ClientRead, Environment

\* What the client guarantees the session, at every moment.
ClientInv ==
    TypeOK /\ Correlated /\ Ordered /\ StopsPast /\ EofLast /\ CallIsLast

LEMMA ClientAlways == Spec => []ClientInv
<1> DEFINE Here == StopsPast /\ EofLast /\ CallIsLast
<1>1. Init => Here
  BY DEF Init, NoCall, StopsPast, EofLast, CallIsLast
<1>2. TypeOK /\ Ordered /\ Here /\ [Next]_vars => Here'
  BY StopsStep, EofStep, LastStep
<1>3. TypeOK /\ Correlated /\ Ordered /\ Here => ClientInv
  BY DEF ClientInv
<1>. QED
  BY TypeCorrect, CorrelatedAlways, OrderedAlways, <1>1, <1>2, <1>3, PTL DEF Spec

-----------------------------------------------------------------------------
(* The session's steps, as the invariant sees them.                        *)

\* A method's call has been written, or lost because gdb is gone.
LEMMA EnterFacts ==
    ASSUME NEW m, NEW v, Enter(m, v)
    PROVE  /\ call.pc = "idle" /\ op' = m
           /\ call'.pc \in {"lost", "reading"} /\ call'.verb = v
           /\ UNCHANGED <<target_halted, believes_running, breakpoints, upset,
                          stdout, async_queue, life, target>>
BY DEF Enter, SendMi, NoCall, Opinions

\* A method's call has been taken note of.
LEMMA BackFacts ==
    ASSUME NEW m, NEW out, Back(m, out)
    PROVE  /\ op = m /\ call.pc \in out /\ call'.pc = "idle"
           /\ UNCHANGED <<stdin, stdout, async_queue, life, target>>
BY DEF Back, Return, NoCall, pipes

\* The client at work changes how far the call is and nothing else about it.
LEMMA WorkFacts ==
    ASSUME TypeOK, ClientStep \/ Environment
    PROVE  /\ call'.verb = call.verb /\ call'.id = call.id
           /\ \/ call'.pc = call.pc
              \/ call.pc = "reading" /\ call'.pc \in {"done", "error", "lost", "timeout"}
              \/ call.pc = "waiting" /\ call'.pc \in {"stopped", "nostop", "lost"}
<1>1. call \in Calls
  BY DEF TypeOK, ClientTypeOK
<1>2. CASE ReadAnswer
  BY <1>1, <1>2 DEF ReadAnswer, Answers, Calls, Results
<1>3. CASE ReadEof
  BY <1>1, <1>3 DEF ReadEof, Calls
<1>4. CASE WaitRead
  BY <1>1, <1>4 DEF WaitRead, Calls
<1>5. CASE TimeOut
  BY <1>1, <1>5 DEF TimeOut, Calls
<1>6. CASE WaitTimeOut
  BY <1>1, <1>6 DEF WaitTimeOut, Calls
<1>7. CASE ReadOther \/ Environment
  BY <1>7 DEF ReadOther, Environment, GdbExecute, GdbStop, GdbClose, GdbExit
<1>. QED
  BY <1>2, <1>3, <1>4, <1>5, <1>6, <1>7 DEF ClientStep, ClientRead

\* Each method makes its own calls, and no two are made at once.
LEMMA MethodsStep ==
    ASSUME TypeOK, SessionTypeOK, CallsOfMethods, [SessionNext]_allvars
    PROVE  CallsOfMethods'
<1>1. CASE Method
  <2>1. CASE Start \/ StartMonitorReset
    BY <2>1, EnterFacts DEF Start, StartMonitorReset, CallsOfMethods, Between, Methods,
       Starting, Running, Snapshot
  <2>2. CASE Halt
    BY <2>2, EnterFacts DEF Halt, CallsOfMethods, Between, HaltVerb
  <2>3. CASE Resume \/ Reset \/ ResetResume
    BY <2>3, EnterFacts DEF Resume, Reset, ResetResume, CallsOfMethods, Between
  <2>4. CASE SendMonitor
    BY <2>4, EnterFacts DEF SendMonitor, CallsOfMethods, Between
  <2>5. CASE Read \/ ReadMore \/ TakeSnapshot
    BY <2>5, EnterFacts DEF Read, ReadMore, TakeSnapshot, CallsOfMethods, Between
  <2>6. CASE SnapNext
    <3>1. CASE SnapEnds
      BY <3>1 DEF SnapEnds, Finish, CallsOfMethods, Between, Methods, Starting, Running,
         Snapshot, vars
    <3>2. CASE Enter("snap_rest", "data") \/ Enter("snap_rest", "other")
      BY <3>2, EnterFacts DEF CallsOfMethods, Between
    <3>. QED
      BY <2>6, <3>1, <3>2 DEF SnapNext
  <2>7. CASE SetBreakpoint \/ RemoveBreakpoint
    BY <2>7, EnterFacts DEF SetBreakpoint, RemoveBreakpoint, CallsOfMethods, Between
  <2>8. CASE RunUntilBreakpoint
    BY <2>8, EnterFacts DEF RunUntilBreakpoint, CallsOfMethods, Between
  <2>9. CASE RunInterrupt
    <3>1. op = "run_halt" /\ Enter("run_stop", "interrupt")
      BY <2>9 DEF RunInterrupt
    <3>2. believes_running /\ ~target_halted
      BY <3>1 DEF CallsOfMethods
    <3>3. /\ op' = "run_stop" /\ call'.pc \in {"lost", "reading"} /\ call'.verb = "interrupt"
          /\ believes_running' /\ ~target_halted'
      BY <3>1, <3>2, EnterFacts
    <3>. QED
      BY <3>3 DEF CallsOfMethods, Between
  <2>10. CASE RunWait
    <3>1. call'.pc \in {"waiting", "stopped"}
      BY <2>10 DEF RunWait, WaitForStopped, NoCall
    <3>. QED
      BY <2>10, <3>1 DEF RunWait, Opinions, CallsOfMethods, Between
  <2>. QED
    BY <1>1, <2>1, <2>2, <2>3, <2>4, <2>5, <2>6, <2>7, <2>8, <2>9, <2>10 DEF Method
<1>2. CASE Continuation
  <2>1. ASSUME call'.pc = "idle", op' \in Between,
               op' \in {"run_go", "run_halt"} => believes_running' /\ ~target_halted'
        PROVE  CallsOfMethods'
    BY <2>1 DEF CallsOfMethods, Between, Methods, Starting, Running, Snapshot
  <2>2. CASE Connected \/ StartReset \/ Started \/ StartFails
    BY <2>1, <2>2, BackFacts
       DEF Connected, StartReset, Started, StartFails, Finish, Return, NoCall, Between
  <2>3. CASE HaltDone \/ ResumeDone \/ ResetDone \/ ResetGoDone \/ MonitorDone
    BY <2>1, <2>3, BackFacts
       DEF HaltDone, ResumeDone, ResetDone, ResetGoDone, MonitorDone, Finish, Between
  <2>4. CASE ReadDone \/ SnapRegisters \/ SnapLeg
    BY <2>1, <2>4, BackFacts DEF ReadDone, SnapRegisters, SnapLeg, Between
  <2>5. CASE SetDone \/ RemoveDone \/ RunStopped \/ RunTimedOut \/ Fail
    BY <2>1, <2>5, BackFacts DEF SetDone, RemoveDone, RunStopped, RunTimedOut, Fail, Finish, Between
  <2>6. CASE RunStarted
    BY <2>1, <2>6, BackFacts DEF RunStarted, Between
  <2>7. CASE RunNoStop
    <3>1. believes_running /\ ~target_halted
      BY <2>7, BackFacts DEF RunNoStop, CallsOfMethods
    <3>. QED
      BY <2>1, <2>7, <3>1, BackFacts DEF RunNoStop, Between, Opinions
  <2>. QED
    BY <1>2, <2>2, <2>3, <2>4, <2>5, <2>6, <2>7 DEF Continuation
<1>3. CASE Close
  BY <1>3 DEF Close, CallsOfMethods, Between, Methods, Starting, Running, Snapshot, vars
<1>4. CASE (ClientStep \/ Environment) /\ UNCHANGED session
  <2>1. UNCHANGED <<op, target_halted, believes_running, breakpoints>>
    BY <1>4 DEF session
  <2>. QED
    BY <1>4, <2>1, WorkFacts DEF CallsOfMethods, Between, HaltVerb
<1>5. CASE UNCHANGED allvars
  BY <1>5 DEF allvars, vars, session, CallsOfMethods, HaltVerb
<1>. QED
  BY <1>1, <1>2, <1>3, <1>4, <1>5 DEF SessionNext

-----------------------------------------------------------------------------
(* The run that run_until_breakpoint waits for.                            *)

LEMMA PopStop ==
    ASSUME TypeOK, stdout # <<>>, stdout' = Tail(stdout), UNCHANGED resumes,
           NEW n \in Nat, StopAfter(n + 1)
    PROVE  StopAfter(n)'
<1>1. PICK i \in 1..Len(stdout) : /\ i > n + 1
                                  /\ stdout[i].class \in Stops /\ stdout[i].of = resumes
  BY DEF StopAfter
<1>2. Len(stdout) \in Nat \ {0} /\ Len(stdout') = Len(stdout) - 1
  BY ReadFacts
<1>3. i - 1 \in 1..Len(stdout') /\ i - 1 > n /\ (i - 1) + 1 = i
  BY <1>1, <1>2
<1>4. stdout'[i - 1] = stdout[i]
  BY <1>3, ReadFacts
<1>. QED
  BY <1>1, <1>3, <1>4 DEF StopAfter

LEMMA GrowStop ==
    ASSUME TypeOK, Len(stdout) <= Len(stdout'), Len(stdout') \in Nat, UNCHANGED resumes,
           \A i \in 1..Len(stdout) : stdout'[i] = stdout[i],
           NEW n, StopAfter(n)
    PROVE  StopAfter(n)'
<1>1. Len(stdout) \in Nat
  BY OrderTypes
<1>2. PICK i \in 1..Len(stdout) : /\ i > n
                                  /\ stdout[i].class \in Stops /\ stdout[i].of = resumes
  BY DEF StopAfter
<1>3. i \in 1..Len(stdout') /\ stdout'[i] = stdout[i]
  BY <1>1, <1>2
<1>. QED
  BY <1>2, <1>3 DEF StopAfter

\* A result of the call in progress is under way only when gdb has no command
\* left; a command that was never written has none.
LEMMA ResultsOfCall ==
    ASSUME ClientInv, call.pc = "reading", NEW i \in 1..Len(stdout), ResultOfCall(i)
    PROVE  stdin = <<>>
<1>1. /\ call.id = Len(sent) /\ stdout[i].of = call.id /\ stdout[i].class \in Own
      /\ TypeOK /\ StdoutBetween /\ StdinOrdered
  BY DEF ClientInv, CallIsLast, ResultOfCall, Own, Ordered, PipesOrdered
<1>2. \A j \in 1..Len(stdin) : stdout[i].of < stdin[j].id /\ stdin[j].id <= Len(sent)
  BY <1>1 DEF StdoutBetween, StdinOrdered
<1>3. ~ \E j \in 1..Len(stdin) : TRUE
  BY <1>1, <1>2, OrderTypes
<1>4. stdin \in Seq(Command) /\ Len(stdin) \in Nat
  BY <1>1 DEF TypeOK, PipesTypeOK
<1>5. Len(stdin) = 0
  BY <1>3, <1>4
<1>. QED
  BY <1>4, <1>5

LEMMA NoResultYet ==
    ASSUME ClientInv, NEW i \in 1..Len(stdout), stdout[i].class \in Results
    PROVE  stdout[i].of <= Len(sent) /\ stdout[i].of # Len(sent) + 1
<1>1. TypeOK /\ StdoutBetween /\ stdout[i].class \in Own
  BY DEF ClientInv, Ordered, PipesOrdered, Own
<1>2. stdout[i].of <= Len(sent)
  BY <1>1 DEF StdoutBetween
<1>. QED
  BY <1>1, <1>2, OrderTypes

\* The command that is executed is not the call's when an answer to that is
\* under way, and the call's has the call's verb.
LEMMA ExecutedOfCall ==
    ASSUME ClientInv, stdin # <<>>, call.pc = "reading", Head(stdin).id = call.id
    PROVE  /\ Head(stdin).verb = call.verb
           /\ \A i \in 1..Len(stdout) : ~ResultOfCall(i)
<1>1. stdin \in Seq(Command) /\ CallIsLast
  BY DEF ClientInv, TypeOK, PipesTypeOK
<1>2. Head(stdin) = stdin[1] /\ 1 \in 1..Len(stdin)
  BY <1>1, Popped
<1>. QED
  BY <1>1, <1>2, ResultsOfCall DEF CallIsLast

\* The answer the call takes is its own, the first line under way.
LEMMA AnswerOfCall ==
    ASSUME ClientInv, ClientInv', ReadAnswer
    PROVE  /\ 1 \in 1..Len(stdout) /\ ResultOfCall(1) /\ Head(stdout) = stdout[1]
           /\ call'.pc = stdout[1].class /\ call'.pc \in Results /\ call.pc = "reading"
<1>1. call \in Calls /\ TypeOK
  BY DEF ClientInv, TypeOK, ClientTypeOK
<1>2. /\ Head(stdout) = stdout[1] /\ 1 \in 1..Len(stdout)
  BY <1>1, ReadFacts DEF ReadAnswer
<1>3. /\ call'.pc = Head(stdout).class /\ call'.answer = Head(stdout) /\ call'.id = call.id
      /\ Head(stdout).class \in Results
  BY <1>1 DEF ReadAnswer, Calls, Answers
<1>4. AnswerIsOwn'
  BY DEF ClientInv, Correlated
<1>5. Head(stdout).of = call.id
  BY <1>3, <1>4 DEF AnswerIsOwn
<1>. QED
  BY <1>2, <1>3, <1>5 DEF ResultOfCall, ReadAnswer

\* The stop that run_until_breakpoint waits for is never lost on the way.
LEMMA AwaitedStep ==
    ASSUME ClientInv, ClientInv', SessionTypeOK, CallsOfMethods, CallsOfMethods',
           RunAwaited, [SessionNext]_allvars
    PROVE  RunAwaited'
<1> DEFINE UnderWay(i) == ResultOfCall(i) /\ stdout[i].class = "done"
<1>1. /\ TypeOK /\ stdout \in Seq(Line) /\ Len(stdout) \in Nat /\ call \in Calls
      /\ stdin \in Seq(Command) /\ stdin' \in Seq(Command) /\ resumes \in Nat
  BY OrderTypes DEF ClientInv, TypeOK, ClientTypeOK, PipesTypeOK, TargetTypeOK
<1>2. /\ op = "run" /\ call.pc = "reading" =>
            \A i \in 1..Len(stdout) : UnderWay(i) => runs \/ StopAfter(i)
      /\ Awaiting => stdin = <<>> /\ (runs \/ StopAfter(0))
  BY DEF RunAwaited
<1>3. ASSUME op' \notin {"run", "run_go", "run_wait"} PROVE RunAwaited'
  BY <1>3 DEF RunAwaited, Awaiting
<1>4. ASSUME op' \in {"run_go", "run_wait"}, Awaiting, UNCHANGED <<stdin, stdout, target>>
      PROVE  RunAwaited'
  BY <1>2, <1>4 DEF RunAwaited, StopAfter, target
<1>5. CASE Method
  <2>1. CASE RunUntilBreakpoint
    <3>1. Enter("run", "continue") /\ op' = "run"
      BY <2>1 DEF RunUntilBreakpoint, Enter
    <3>2. stdout' = stdout /\ call'.pc \in {"lost", "reading"}
      BY <3>1, EnterFacts
    <3>3. call'.pc = "reading" => call'.id = Len(sent) + 1
      BY <3>1 DEF Enter, SendMi, NoCall
    <3>4. call'.pc = "reading" => \A i \in 1..Len(stdout') : ~ResultOfCall(i)'
      BY <3>2, <3>3, NoResultYet DEF ResultOfCall
    <3>. QED
      BY <3>1, <3>2, <3>4 DEF RunAwaited, Awaiting
  <2>2. CASE RunWait
    <3>1. op = "run_go" /\ op' = "run_wait" /\ UNCHANGED <<stdin, stdout, target>>
      BY <2>2 DEF RunWait, WaitForStopped, pipes
    <3>. QED
      BY <1>4, <3>1 DEF Awaiting
  <2>3. CASE SnapEnds
    BY <1>3, <2>3 DEF SnapEnds, Finish
  <2>4. ASSUME NEW m \in Methods \ {"run", "run_wait"}, NEW v, Enter(m, v) PROVE RunAwaited'
    BY <1>3, <2>4, EnterFacts DEF Methods, Starting, Running, Snapshot
  <2>5. {"start", "attach", "start_reset", "halt", "resume", "reset", "reset_go", "mon_reset",
         "mon_halt", "disasm", "read", "snap_regs", "snap_rest", "set_bp", "del_bp", "run_stop"}
        \subseteq Methods \ {"run", "run_wait"}
    BY DEF Methods, Starting, Running, Snapshot
  <2>. QED
    BY <1>5, <2>1, <2>2, <2>3, <2>4, <2>5
       DEF Method, Start, StartMonitorReset, Halt, Resume, Reset, ResetResume,
           SendMonitor, Read, ReadMore, TakeSnapshot, SnapNext, SetBreakpoint,
           RemoveBreakpoint, RunInterrupt
<1>6. CASE Continuation
  <2>1. CASE RunStarted
    <3>1. op = "run" /\ call.pc = "done" /\ op' = "run_go" /\ UNCHANGED <<stdin, stdout, target>>
      BY <2>1, BackFacts DEF RunStarted
    <3>. QED
      BY <1>4, <3>1 DEF Awaiting
  <2>2. CASE Connected \/ StartReset \/ Started \/ StartFails
    BY <1>3, <2>2 DEF Connected, StartReset, Started, StartFails, Finish
  <2>3. CASE HaltDone \/ ResumeDone \/ ResetDone \/ ResetGoDone \/ MonitorDone
    BY <1>3, <2>3 DEF HaltDone, ResumeDone, ResetDone, ResetGoDone, MonitorDone, Finish
  <2>4. CASE ReadDone \/ SnapRegisters \/ SnapLeg
    BY <1>3, <2>4 DEF ReadDone, SnapRegisters, SnapLeg
  <2>5. CASE SetDone \/ RemoveDone \/ RunStopped \/ RunTimedOut \/ Fail \/ RunNoStop
    BY <1>3, <2>5 DEF SetDone, RemoveDone, RunStopped, RunTimedOut, Fail, RunNoStop, Finish
  <2>. QED
    BY <1>6, <2>1, <2>2, <2>3, <2>4, <2>5 DEF Continuation
<1>7. CASE Close
  BY <1>3, <1>7 DEF Close
<1>8. ASSUME UNCHANGED <<op, call, stdin, stdout, target>> PROVE RunAwaited'
  BY <1>2, <1>8 DEF RunAwaited, Awaiting, ResultOfCall, StopAfter, target
<1>9. CASE ClientStep /\ UNCHANGED session
  <2>0. op' = op /\ UNCHANGED target /\ resumes' = resumes /\ runs' = runs
    BY <1>9 DEF session, ClientStep, ClientRead, ReadAnswer, ReadOther, ReadEof, WaitRead,
       TimeOut, WaitTimeOut, target
  <2>1. CASE op = "run" /\ ReadAnswer
    <3>1. /\ 1 \in 1..Len(stdout) /\ ResultOfCall(1) /\ call.pc = "reading"
          /\ call'.pc = stdout[1].class /\ call'.pc \in Results
      BY <2>1, AnswerOfCall
    <3>2. CASE call'.pc = "done"
      <4>1. stdin = <<>> /\ stdin' = stdin
        BY <2>1, <3>1, ResultsOfCall DEF ReadAnswer
      <4>2. runs \/ StopAfter(1)
        BY <1>2, <2>1, <3>1, <3>2
      <4>3. StopAfter(1) => StopAfter(0)'
        <5>1. stdout # <<>> /\ stdout' = Tail(stdout)
          BY <2>1 DEF ReadAnswer
        <5>. QED
          BY <1>1, <2>0, <5>1, PopStop
      <4>. QED
        BY <2>0, <2>1, <3>2, <4>1, <4>2, <4>3 DEF RunAwaited
    <3>3. CASE call'.pc # "done"
      BY <2>0, <2>1, <3>1, <3>3 DEF RunAwaited, Awaiting, Results
    <3>. QED
      BY <3>2, <3>3
  <2>2. CASE op = "run" /\ ReadOther
    <3>1. stdout # <<>> /\ stdout' = Tail(stdout) /\ call' = call /\ call.pc = "reading"
      BY <2>2 DEF ReadOther
    <3>2. ASSUME NEW i \in 1..Len(stdout'), UnderWay(i)' PROVE runs \/ StopAfter(i)'
      <4>1. i + 1 \in 1..Len(stdout) /\ stdout'[i] = stdout[i + 1] /\ i \in Nat
        BY <1>1, <3>1, ReadFacts
      <4>2. UnderWay(i + 1)
        BY <3>1, <3>2, <4>1 DEF ResultOfCall
      <4>3. runs \/ StopAfter(i + 1)
        BY <1>2, <2>2, <3>1, <4>1, <4>2
      <4>. QED
        BY <1>1, <2>0, <3>1, <4>1, <4>3, PopStop
    <3>. QED
      BY <2>0, <2>2, <3>1, <3>2 DEF RunAwaited, Awaiting
  <2>3. CASE op = "run_wait" /\ WaitRead
    <3>1. stdout # <<>> /\ stdout' = Tail(stdout) /\ stdin' = stdin /\ call.pc = "waiting"
      BY <2>3 DEF WaitRead
    <3>2. CASE IsStop(Head(stdout))
      <4>1. call'.pc = "stopped"
        BY <1>1, <2>3, <3>2 DEF WaitRead, Calls
      <4>. QED
        BY <2>0, <2>3, <4>1 DEF RunAwaited, Awaiting
    <3>3. CASE ~IsStop(Head(stdout))
      <4>1. stdin = <<>> /\ (runs \/ StopAfter(0))
        BY <1>2, <2>3, <3>1 DEF Awaiting
      <4>2. StopAfter(0) => StopAfter(0 + 1)
        <5>1. stdout[1].class \notin Stops
          BY <1>1, <3>1, <3>3, ReadFacts DEF IsStop
        <5>. QED
          BY <5>1 DEF StopAfter
      <4>3. StopAfter(0 + 1) => StopAfter(0)'
        BY <1>1, <2>0, <3>1, PopStop
      <4>. QED
        BY <2>0, <2>3, <3>1, <4>1, <4>2, <4>3 DEF RunAwaited
    <3>. QED
      BY <3>2, <3>3
  <2>4. CASE op = "run_wait" /\ WaitTimeOut
    <3>1. call.pc = "waiting" /\ UNCHANGED <<stdin, stdout>>
      BY <2>4 DEF WaitTimeOut, pipes
    <3>. QED
      BY <1>4, <2>0, <2>4, <3>1 DEF Awaiting
  <2>5. CASE op \in {"run", "run_wait"} /\ (ReadEof \/ TimeOut)
    <3>1. call'.pc \in {"lost", "timeout"}
      BY <1>1, <2>5 DEF ReadEof, TimeOut, Calls
    <3>. QED
      BY <3>1, <2>0, <2>5 DEF RunAwaited, Awaiting
  <2>6. op \in {"run", "run_wait", "run_go"} =>
           \/ op = "run" /\ (ReadAnswer \/ ReadOther \/ ReadEof \/ TimeOut)
           \/ op = "run_wait" /\ (WaitRead \/ ReadEof \/ WaitTimeOut)
    BY <1>9 DEF ClientStep, ClientRead, ReadAnswer, ReadOther, ReadEof, TimeOut, WaitRead,
       WaitTimeOut, CallsOfMethods, Between
  <2>. QED
    BY <1>3, <2>0, <2>1, <2>2, <2>3, <2>4, <2>5, <2>6
<1>10. CASE Environment /\ UNCHANGED session
  <2>0. op' = op /\ call' = call
    BY <1>10 DEF session, Environment, GdbExecute, GdbStop, GdbClose, GdbExit
  <2>1. CASE GdbExecute
    <3>1. ~Awaiting /\ ~Awaiting'
      BY <1>2, <2>0, <2>1 DEF GdbExecute, Awaiting
    <3>2. ASSUME op = "run", call.pc = "reading", NEW i \in 1..Len(stdout'), UnderWay(i)'
          PROVE  runs' \/ StopAfter(i)'
      <4>1. ~ i \in 1..Len(stdout)
        <5>1. ASSUME i \in 1..Len(stdout) PROVE FALSE
          <6>1. stdout'[i] = stdout[i]
            BY <1>1, <2>1, <5>1, ExecuteFacts
          <6>2. ResultOfCall(i)
            BY <2>0, <3>2, <6>1 DEF ResultOfCall
          <6>3. stdin = <<>>
            BY <3>2, <5>1, <6>2, ResultsOfCall
          <6>. QED
            BY <2>1, <6>3 DEF GdbExecute
        <5>. QED
          BY <5>1
      <4>2. /\ i > Len(stdout) /\ stdin # <<>>
            /\ stdout'[i].class = "done" /\ stdout'[i].of = call.id
            /\ LineOf(Head(stdin), stdout'[i])
            /\ Did(Head(stdin))
        BY <1>1, <2>0, <2>1, <3>2, <4>1, ExecuteFacts DEF ResultOfCall
      <4>3. Head(stdin).id = call.id
        BY <4>2 DEF LineOf, Results
      <4>4. Head(stdin).verb = "continue"
        BY <3>2, <4>2, <4>3, ExecutedOfCall DEF CallsOfMethods
      <4>. QED
        BY <4>2, <4>4 DEF Did, Console
    <3>. QED
      BY <2>0, <3>1, <3>2 DEF RunAwaited
  <2>2. CASE GdbStop
    <3>1. /\ Len(stdout') = Len(stdout) + 1 /\ stdin' = stdin /\ resumes' = resumes
          /\ stdout'[Len(stdout')].class \in Stops /\ stdout'[Len(stdout')].of = resumes
          /\ Len(stdout') \in 1..Len(stdout')
      BY <1>1, <2>2, StopFacts
    <3>2. \A n : n < Len(stdout') => StopAfter(n)'
      BY <3>1 DEF StopAfter
    <3>3. \A i \in 1..Len(stdout') : UnderWay(i)' => i < Len(stdout')
      <4>1. \A i \in 1..Len(stdout') : i < Len(stdout') \/ i = Len(stdout')
        BY <1>1, <3>1
      <4>. QED
        BY <3>1, <4>1 DEF ResultOfCall, Results, Stops
    <3>4. StopAfter(0)'
      BY <1>1, <3>1, <3>2
    <3>. QED
      BY <1>2, <2>0, <3>1, <3>2, <3>3, <3>4 DEF RunAwaited, Awaiting
  <2>3. CASE GdbClose
    <3>1. /\ UNCHANGED <<stdin, target, resumes, runs>>
          /\ \A n : StopAfter(n) => StopAfter(n)'
      BY <1>1, <2>3, CloseFacts, GrowStop DEF target
    <3>2. \A i \in 1..Len(stdout') : UnderWay(i)' => i \in 1..Len(stdout) /\ UnderWay(i)
      <4>1. \A i \in 1..Len(stdout') : i \in 1..Len(stdout) \/ i > Len(stdout)
        BY <1>1, <2>3, CloseFacts
      <4>2. \A i \in 1..Len(stdout) : stdout'[i] = stdout[i]
        BY <1>1, <2>3, CloseFacts
      <4>3. \A i \in 1..Len(stdout') : i > Len(stdout) => stdout'[i].class = "eof"
        BY <1>1, <2>3, CloseFacts
      <4>. QED
        BY <2>0, <4>1, <4>2, <4>3 DEF ResultOfCall, Results
    <3>. QED
      BY <1>2, <2>0, <3>1, <3>2 DEF RunAwaited, Awaiting
  <2>4. CASE GdbExit
    BY <1>8, <2>0, <2>4 DEF GdbExit, pipes
  <2>. QED
    BY <1>10, <2>1, <2>2, <2>3, <2>4 DEF Environment
<1>11. CASE UNCHANGED allvars
  BY <1>8, <1>11 DEF allvars, vars, session, pipes
<1>. QED
  BY <1>5, <1>6, <1>7, <1>9, <1>10, <1>11 DEF SessionNext

-----------------------------------------------------------------------------
(* The session's opinions.                                                 *)

\* A *stopped not read yet is in the queue or in the pipe.
Told(q) == \E i \in 1..Len(q) : q[i].class \in Stops

LEMMA ToldOnce ==
    ASSUME NEW a \in Seq(Line), NEW b \in Seq(Line)
    PROVE  (\E i \in 1..Len(a \o b) : (a \o b)[i].class \in Stops) <=> Told(a) \/ Told(b)
<1>1. /\ Len(a) \in Nat /\ Len(b) \in Nat /\ Len(a \o b) = Len(a) + Len(b)
      /\ \A i \in 1..Len(a) : (a \o b)[i] = a[i]
      /\ \A i \in 1..Len(b) : (a \o b)[Len(a) + i] = b[i]
  BY ConcatProperties
<1>2. ASSUME NEW i \in 1..Len(a \o b), (a \o b)[i].class \in Stops PROVE Told(a) \/ Told(b)
  <2>1. CASE i \in 1..Len(a)
    BY <1>1, <1>2, <2>1 DEF Told
  <2>2. CASE i > Len(a)
    <3>1. i - Len(a) \in 1..Len(b) /\ Len(a) + (i - Len(a)) = i
      BY <1>1, <2>2
    <3>2. (a \o b)[i] = b[i - Len(a)]
      BY <1>1, <3>1
    <3>. QED
      BY <1>2, <3>1, <3>2 DEF Told
  <2>. QED
    BY <1>1, <2>1, <2>2
<1>3. ASSUME NEW i \in 1..Len(a), a[i].class \in Stops
      PROVE  \E k \in 1..Len(a \o b) : (a \o b)[k].class \in Stops
  BY <1>1, <1>3
<1>4. ASSUME NEW i \in 1..Len(b), b[i].class \in Stops
      PROVE  \E k \in 1..Len(a \o b) : (a \o b)[k].class \in Stops
  <2>1. Len(a) + i \in 1..Len(a \o b) /\ (a \o b)[Len(a) + i] = b[i]
    BY <1>1
  <2>. QED
    BY <1>4, <2>1
<1>. QED
  BY <1>2, <1>3, <1>4 DEF Told

LEMMA UnreadIs == TypeOK => (Unread <=> Told(async_queue) \/ Told(stdout))
BY ToldOnce DEF TypeOK, ClientTypeOK, PipesTypeOK, Unread

LEMMA UnreadThen == TypeOK' => (Unread' <=> Told(async_queue') \/ Told(stdout'))
BY ToldOnce DEF TypeOK, ClientTypeOK, PipesTypeOK, Unread

\* Reading a line that is no *stopped, or putting it aside, loses none.
LEMMA UnreadRead ==
    ASSUME TypeOK, TypeOK', stdout # <<>>, stdout' = Tail(stdout),
           \/ Classify(Head(stdout))
           \/ UNCHANGED async_queue /\ Head(stdout).class \notin Stops,
           Unread
    PROVE  Unread'
<1>1. /\ Len(stdout) \in Nat \ {0} /\ Head(stdout) = stdout[1] /\ Head(stdout) \in Line
      /\ Len(stdout') = Len(stdout) - 1
      /\ \A i \in 1..Len(stdout') : i + 1 \in 1..Len(stdout) /\ stdout'[i] = stdout[i + 1]
  BY ReadFacts
<1>2. CASE Told(async_queue)
  <2>1. PICK i \in 1..Len(async_queue) : async_queue[i].class \in Stops
    BY <1>2 DEF Told
  <2>2. CASE UNCHANGED async_queue
    BY <2>1, <2>2, UnreadThen DEF Told
  <2>3. CASE Classify(Head(stdout))
    <3>1. i \in 1..Len(async_queue') /\ async_queue'[i] = async_queue[i]
      BY <1>1, <2>1, <2>3, ClassifyFacts
    <3>. QED
      BY <2>1, <3>1, UnreadThen DEF Told
  <2>. QED
    BY <2>2, <2>3
<1>3. CASE Told(stdout)
  <2>1. PICK i \in 1..Len(stdout) : stdout[i].class \in Stops
    BY <1>3 DEF Told
  <2>2. CASE i = 1
    <3>1. Classify(Head(stdout)) /\ Head(stdout).class \in Stops
      BY <1>1, <2>1, <2>2
    <3>2. /\ Len(async_queue) \in Nat /\ Len(async_queue') = Len(async_queue) + 1
          /\ async_queue'[Len(async_queue) + 1] = Head(stdout)
      BY <1>1, <3>1, ClassifyFacts
    <3>3. Len(async_queue) + 1 \in 1..Len(async_queue')
      BY <3>2
    <3>. QED
      BY <3>1, <3>2, <3>3, UnreadThen DEF Told
  <2>3. CASE i # 1
    <3>1. i - 1 \in 1..Len(stdout') /\ (i - 1) + 1 = i
      BY <1>1, <2>3
    <3>2. stdout'[i - 1] = stdout[i]
      BY <1>1, <3>1
    <3>. QED
      BY <2>1, <3>1, <3>2, UnreadThen DEF Told
  <2>. QED
    BY <2>2, <2>3
<1>. QED
  BY <1>2, <1>3, UnreadIs

\* Nor does a line written.
LEMMA UnreadGrows ==
    ASSUME TypeOK, TypeOK', UNCHANGED async_queue,
           \A i \in 1..Len(stdout) : stdout'[i] = stdout[i],
           Len(stdout) <= Len(stdout'), Unread
    PROVE  Unread'
<1>1. Len(stdout) \in Nat /\ Len(stdout') \in Nat
  BY OrderTypes DEF TypeOK, PipesTypeOK
<1>2. Told(stdout) => Told(stdout')
  BY <1>1 DEF Told
<1>. QED
  BY <1>2, UnreadIs, UnreadThen

\* While the target and the opinions are left alone what is right stays right.
LEMMA RightStays ==
    ASSUME UNCHANGED <<target_halted, believes_running, breakpoints, target>>,
           Unread => Unread'
    PROVE  /\ Right => Right'
           /\ call'.verb = call.verb /\ RightAfter(call.verb) => RightAfter(call.verb)'
BY DEF Right, RightAfter, TableRight, HaltRight, BeliefRight, RunKnown, target

\* The target's stopping makes nothing wrong.
LEMMA RightStopped ==
    ASSUME UNCHANGED <<target_halted, believes_running, breakpoints, inserted, resumes>>,
           ~runs', core' = "halted", Unread'
    PROVE  /\ Right => Right'
           /\ call'.verb = call.verb /\ RightAfter(call.verb) => RightAfter(call.verb)'
BY DEF Right, RightAfter, TableRight, HaltRight, BeliefRight, RunKnown

\* A call is abandoned or an old stop taken for a new one only once: a session
\* that is calm after a step was so before it.
LEMMA CalmBefore ==
    ASSUME TypeOK, CallsOfMethods, [SessionNext]_allvars, Calm'
    PROVE  Calm
<1>1. CASE Method
  <2>1. ASSUME NEW m, NEW v, Enter(m, v) PROVE Calm
    BY <2>1, EnterFacts DEF Calm
  <2>2. CASE RunWait
    BY <2>2 DEF RunWait, WaitForStopped, Calm
  <2>3. CASE SnapEnds
    BY <2>3 DEF SnapEnds, Calm, CallsOfMethods, Between
  <2>. QED
    BY <1>1, <2>1, <2>2, <2>3
       DEF Method, Start, StartMonitorReset, Halt, Resume, Reset, ResetResume,
           SendMonitor, Read, ReadMore, TakeSnapshot, SnapNext, SetBreakpoint,
           RemoveBreakpoint, RunUntilBreakpoint, RunInterrupt
<1>2. CASE Continuation
  <2>0. ASSUME upset => upset', call.pc = "timeout" => upset' PROVE Calm
    BY <2>0 DEF Calm
  <2>1. CASE Connected \/ StartReset \/ Started \/ StartFails
    BY <2>0, <2>1 DEF Connected, StartReset, Started, StartFails, Back, Note
  <2>2. CASE HaltDone \/ ResumeDone \/ ResetDone \/ ResetGoDone \/ MonitorDone
    BY <2>0, <2>2 DEF HaltDone, ResumeDone, ResetDone, ResetGoDone, MonitorDone, Back
  <2>3. CASE ReadDone \/ SnapRegisters \/ SnapLeg
    BY <2>0, <2>3 DEF ReadDone, SnapRegisters, SnapLeg, Back, Note
  <2>4. CASE SetDone \/ RemoveDone \/ RunStarted \/ RunStopped \/ RunNoStop
    BY <2>0, <2>4 DEF SetDone, RemoveDone, RunStarted, RunStopped, RunNoStop, Back
  <2>5. CASE RunTimedOut \/ Fail
    BY <2>0, <2>5 DEF RunTimedOut, Fail, Note
  <2>. QED
    BY <1>2, <2>1, <2>2, <2>3, <2>4, <2>5 DEF Continuation
<1>3. CASE Close
  BY <1>3 DEF Close, Calm, CallsOfMethods, Between
<1>4. CASE (ClientStep \/ Environment) /\ UNCHANGED session
  BY <1>4, WorkFacts DEF session, Calm
<1>5. CASE UNCHANGED allvars
  BY <1>5 DEF allvars, vars, session, Calm
<1>. QED
  BY <1>1, <1>2, <1>3, <1>4, <1>5 DEF SessionNext

\* A result of the call in progress carries its token, so that the call takes it.
LEMMA ResultIsTaken ==
    ASSUME ClientInv, call.pc = "reading", NEW i \in 1..Len(stdout), ResultOfCall(i)
    PROVE  Answers(stdout[i])
<1>1. /\ stdout \in Seq(SoundLines) /\ CallIsLatest
  BY DEF ClientInv, Correlated
<1>2. stdout[i] \in SoundLines /\ stdout[i].class \in Results /\ stdout[i].of = call.id
  BY <1>1 DEF ResultOfCall
<1>. QED
  BY <1>1, <1>2 DEF SoundLines, CallIsLatest, Answers

\* While nothing is abandoned gdb has at most the call's own command to execute.
LEMMA NothingLeftStep ==
    ASSUME ClientInv, ClientInv', CallsOfMethods, NothingLeft, Calm', [SessionNext]_allvars
    PROVE  NothingLeft'
<1>1. /\ TypeOK /\ call \in Calls /\ stdin \in Seq(Command) /\ EofLast
      /\ Len(stdin) \in Nat /\ Len(stdin') \in Nat
  BY OrderTypes DEF ClientInv, TypeOK, ClientTypeOK, PipesTypeOK
<1>2. ASSUME UNCHANGED <<stdin, life>>, call.pc # "reading", call'.pc # "reading"
      PROVE  NothingLeft'
  BY <1>2 DEF NothingLeft
<1>3. ASSUME NEW m, NEW v, Enter(m, v) PROVE NothingLeft'
  <2>1. call.pc = "idle" /\ UNCHANGED life
    BY <1>3, EnterFacts
  <2>2. CASE life # "up"
    BY <2>1, <2>2 DEF NothingLeft
  <2>3. CASE life = "up"
    <3>1. /\ call'.pc = "reading" /\ call'.id = Len(sent) + 1 /\ stdin = <<>>
          /\ stdin' = Append(stdin, [id |-> Len(sent) + 1, token |-> token + 1, verb |-> v])
      BY <1>3, <2>1, <2>3 DEF Enter, SendMi, Write, NoCall, NothingLeft
    <3>2. Len(stdin') = 1 /\ stdin'[1].id = Len(sent) + 1
      BY <3>1
    <3>. QED
      BY <3>1, <3>2 DEF NothingLeft
  <2>. QED
    BY <2>2, <2>3
<1>4. ASSUME NEW m, NEW out, Back(m, out) PROVE NothingLeft'
  <2>1. call.pc \in Outcome /\ call'.pc = "idle" /\ UNCHANGED <<stdin, life>>
    BY <1>4, BackFacts DEF Back, Return
  <2>. QED
    BY <1>2, <2>1 DEF Outcome
<1>5. CASE Method
  <2>1. CASE RunWait
    <3>1. call.pc = "idle" /\ call'.pc \in {"waiting", "stopped"} /\ UNCHANGED <<stdin, life>>
      BY <2>1 DEF RunWait, WaitForStopped, NoCall, pipes
    <3>. QED
      BY <1>2, <3>1
  <2>2. CASE SnapEnds
    <3>1. UNCHANGED <<stdin, life, call>> /\ call.pc = "idle"
      BY <2>2 DEF SnapEnds, vars, pipes, CallsOfMethods, Between
    <3>. QED
      BY <1>2, <3>1
  <2>. QED
    BY <1>3, <1>5, <2>1, <2>2
       DEF Method, Start, StartMonitorReset, Halt, Resume, Reset, ResetResume,
           SendMonitor, Read, ReadMore, TakeSnapshot, SnapNext, SetBreakpoint,
           RemoveBreakpoint, RunUntilBreakpoint, RunInterrupt
<1>6. CASE Continuation
  <2>1. CASE StartReset
    <3>1. call.pc = "done" /\ call'.pc = "idle" /\ UNCHANGED <<stdin, life>>
      BY <2>1 DEF StartReset, Return, NoCall, pipes
    <3>. QED
      BY <1>2, <3>1
  <2>2. CASE Connected \/ Started \/ StartFails \/ HaltDone \/ ResumeDone
    BY <1>4, <2>2 DEF Connected, Started, StartFails, HaltDone, ResumeDone
  <2>3. CASE ResetDone \/ ResetGoDone \/ MonitorDone \/ ReadDone \/ SnapRegisters \/ SnapLeg
    BY <1>4, <2>3 DEF ResetDone, ResetGoDone, MonitorDone, ReadDone, SnapRegisters, SnapLeg
  <2>4. CASE SetDone \/ RemoveDone \/ RunStarted \/ RunStopped \/ RunNoStop \/ RunTimedOut \/ Fail
    BY <1>4, <2>4 DEF SetDone, RemoveDone, RunStarted, RunStopped, RunNoStop, RunTimedOut, Fail
  <2>. QED
    BY <1>6, <2>1, <2>2, <2>3, <2>4 DEF Continuation
<1>7. CASE Close
  BY <1>7 DEF Close, NothingLeft, vars, pipes
<1>8. CASE ClientStep
  <2>1. CASE ReadAnswer
    <3>1. stdin = <<>> /\ call'.pc # "reading"
      BY <2>1, AnswerOfCall, ResultsOfCall DEF Results
    <3>2. stdin' = stdin
      BY <2>1 DEF ReadAnswer
    <3>. QED
      BY <3>1, <3>2 DEF NothingLeft
  <2>2. CASE ReadOther
    BY <2>2 DEF ReadOther, NothingLeft
  <2>3. CASE ReadEof
    <3>1. Head(stdout) = stdout[1] /\ 1 \in 1..Len(stdout) /\ stdout[1].class = "eof"
      BY <1>1, <2>3, Popped DEF ReadEof, TypeOK, PipesTypeOK
    <3>2. life # "up" /\ life' = life
      BY <1>1, <2>3, <3>1 DEF ReadEof, EofLast
    <3>. QED
      BY <3>2 DEF NothingLeft
  <2>4. CASE WaitRead
    <3>1. call.pc = "waiting" /\ call'.pc \in {"waiting", "stopped"} /\ UNCHANGED <<stdin, life>>
      BY <1>1, <2>4 DEF WaitRead, Calls
    <3>. QED
      BY <1>2, <3>1
  <2>5. CASE TimeOut
    BY <1>1, <2>5 DEF TimeOut, Calls, Calm
  <2>6. CASE WaitTimeOut
    <3>1. call.pc = "waiting" /\ call'.pc = "nostop" /\ UNCHANGED <<stdin, life>>
      BY <1>1, <2>6 DEF WaitTimeOut, Calls, pipes
    <3>. QED
      BY <1>2, <3>1
  <2>. QED
    BY <1>8, <2>1, <2>2, <2>3, <2>4, <2>5, <2>6 DEF ClientStep, ClientRead
<1>9. CASE Environment
  <2>1. CASE GdbExecute
    <3>1. /\ stdin # <<>> /\ stdin' = Tail(stdin) /\ life = "up" /\ call' = call
      BY <1>1, <2>1, ExecuteFacts
    <3>2. Len(stdin) <= 1
      BY <3>1 DEF NothingLeft
    <3>3. Len(stdin) \in Nat \ {0} /\ Len(stdin') = Len(stdin) - 1 /\ stdin' \in Seq(Command)
      BY <1>1, <3>1, Popped
    <3>4. Len(stdin') = 0 /\ stdin' = <<>>
      BY <3>2, <3>3
    <3>. QED
      BY <3>4 DEF NothingLeft
  <2>2. CASE GdbStop \/ GdbClose \/ GdbExit
    BY <2>2 DEF GdbStop, GdbClose, GdbExit, NothingLeft, pipes
  <2>. QED
    BY <1>9, <2>1, <2>2 DEF Environment
<1>10. CASE UNCHANGED allvars
  BY <1>10 DEF allvars, vars, pipes, NothingLeft
<1>. QED
  BY <1>5, <1>6, <1>7, <1>8, <1>9, <1>10 DEF SessionNext

\* A call that begins finds everything right, and has no result yet.
LEMMA EnterOutcomes ==
    ASSUME ClientInv, Outcomes, NEW m, NEW v, Enter(m, v)
    PROVE  Outcomes'
<1>1. /\ call.pc = "idle" /\ call'.pc \in {"lost", "reading"}
      /\ UNCHANGED <<target_halted, believes_running, breakpoints, target, stdout, async_queue>>
  BY EnterFacts
<1>2. call'.pc = "reading" => call'.id = Len(sent) + 1
  BY DEF Enter, SendMi, NoCall
<1>3. Right'
  <2>1. Right
    BY <1>1 DEF Outcomes
  <2>2. Unread => Unread'
    BY <1>1 DEF Unread
  <2>. QED
    BY <1>1, <2>1, <2>2, RightStays
<1>4. call'.pc = "reading" => \A i \in 1..Len(stdout') : ~ResultOfCall(i)'
  BY <1>1, <1>2, NoResultYet DEF ResultOfCall
<1>. QED
  BY <1>1, <1>3, <1>4 DEF Outcomes

\* A method that takes note of its call leaves the session right.
LEMMA BackOutcomes ==
    ASSUME ClientInv, SessionTypeOK, SessionTypeOK', CallsOfMethods, Outcomes, Calm, Calm',
           Continuation
    PROVE  Right'
<1>1. /\ call.pc \in {"error", "lost", "nostop"} => Right
      /\ call.pc = "done" => RightAfter(call.verb)
      /\ call.pc = "stopped" => TableRight /\ HaltRight /\ BeliefRight /\ resumes > 0
      /\ call.pc # "timeout"
  BY DEF Outcomes, Calm
<1>2. /\ breakpoints \in BOOLEAN /\ inserted \in BOOLEAN /\ runs \in BOOLEAN
      /\ resumes > 0 /\ ~runs => core = "halted"
  BY DEF SessionTypeOK, TypeOK, TargetTypeOK, ClientInv, StopsPast
<1>3. ASSUME NEW m, NEW out, Back(m, out) PROVE UNCHANGED <<stdout, async_queue, target>>
  BY <1>3, BackFacts
<1>4. ASSUME UNCHANGED <<stdout, async_queue>> PROVE Unread' = Unread
  BY <1>4 DEF Unread
<1>5. ASSUME NEW m, Back(m, {"done"}) PROVE RightAfter(call.verb) /\ op = m /\ call.pc = "done"
  BY <1>1, <1>5 DEF Back
<1>6. ASSUME NEW m, Back(m, Raises) PROVE Right
  BY <1>1, <1>6 DEF Back, Raises
<1>7. ASSUME Right, UNCHANGED <<Opinions, stdout, async_queue, target>> PROVE Right'
  BY <1>4, <1>7, RightStays DEF Opinions
<1>8. ASSUME call.verb \in {"select", "data", "other"}, RightAfter(call.verb) PROVE Right
  BY <1>8 DEF RightAfter, Right
<1>9. ASSUME core = "halted", RunKnown, TableRight, BeliefRight,
             UNCHANGED <<believes_running, breakpoints, stdout, async_queue, target>>
      PROVE  Right'
  BY <1>4, <1>9 DEF Right, RunKnown, TableRight, BeliefRight, HaltRight, target
<1>10. CASE Connected
  <2>1. Right
    BY <1>5, <1>8, <1>10 DEF Connected, CallsOfMethods
  <2>2. UNCHANGED <<believes_running, breakpoints, stdout, async_queue, target>> /\ ~target_halted'
    BY <1>3, <1>10 DEF Connected
  <2>. QED
    BY <1>4, <2>1, <2>2 DEF Right, RunKnown, TableRight, BeliefRight, HaltRight, target
<1>11. CASE StartReset
  <2>1. op = "start" /\ call.pc = "done" /\ UNCHANGED <<Opinions, stdout, async_queue, target>>
    BY <1>11 DEF StartReset, Return, pipes
  <2>2. Right
    BY <1>1, <1>8, <2>1 DEF CallsOfMethods
  <2>. QED
    BY <1>7, <2>1, <2>2
<1>12. CASE Started \/ ResetDone \/ ResetGoDone
  <2>1. /\ call.verb = "reset" /\ RightAfter(call.verb)
        /\ UNCHANGED <<believes_running, breakpoints, stdout, async_queue, target>>
    BY <1>3, <1>5, <1>12 DEF Started, ResetDone, ResetGoDone, CallsOfMethods
  <2>. QED
    BY <1>9, <2>1 DEF RightAfter
<1>13. CASE MonitorDone
  <2>1. PICK m \in {"mon_reset", "mon_halt"} : Back(m, {"done"})
    BY <1>13 DEF MonitorDone
  <2>2. /\ call.verb \in {"reset", "halt"} /\ RightAfter(call.verb)
        /\ UNCHANGED <<stdout, async_queue, target>>
    BY <1>3, <1>5, <2>1 DEF CallsOfMethods
  <2>3. UNCHANGED <<believes_running, breakpoints>>
    BY <1>13 DEF MonitorDone
  <2>. QED
    BY <1>9, <2>2, <2>3 DEF RightAfter
<1>14. ASSUME call.verb = "interrupt", RightAfter(call.verb), believes_running,
              target_halted', ~believes_running',
              UNCHANGED <<breakpoints, stdout, async_queue, target>>
       PROVE  Right'
  <2>1. TableRight /\ (runs => interrupted) /\ (runs \/ core = "halted")
    BY <1>2, <1>14 DEF RightAfter, RunKnown
  <2>. QED
    BY <1>14, <2>1 DEF Right, RunKnown, TableRight, BeliefRight, HaltRight, target
<1>15. CASE HaltDone
  <2>1. /\ call.verb = HaltVerb /\ RightAfter(call.verb)
        /\ UNCHANGED <<breakpoints, stdout, async_queue, target>>
        /\ target_halted' /\ believes_running' = (believes_running /\ call.verb # "interrupt")
    BY <1>3, <1>5, <1>15 DEF HaltDone, CallsOfMethods
  <2>2. CASE believes_running
    BY <1>14, <2>1, <2>2 DEF HaltVerb
  <2>3. CASE ~believes_running
    <3>1. call.verb = "halt" /\ ~believes_running'
      BY <2>1, <2>3 DEF HaltVerb
    <3>2. core = "halted" /\ TableRight /\ BeliefRight
      BY <2>1, <3>1 DEF RightAfter
    <3>. QED
      BY <2>1, <2>3, <3>1, <3>2 DEF Right, RunKnown, TableRight, BeliefRight, HaltRight, target
  <2>. QED
    BY <2>2, <2>3
<1>16. CASE ResumeDone \/ RunStarted
  <2>1. /\ call.verb = "continue" /\ RightAfter(call.verb)
        /\ UNCHANGED <<breakpoints, stdout, async_queue, target>>
        /\ ~target_halted' /\ believes_running'
    BY <1>3, <1>5, <1>16 DEF ResumeDone, RunStarted, CallsOfMethods
  <2>2. TableRight /\ resumes > 0 /\ (runs \/ Unread)
    BY <2>1 DEF RightAfter
  <2>. QED
    BY <1>4, <2>1, <2>2 DEF Right, RunKnown, TableRight, BeliefRight, HaltRight, target
<1>17. CASE ReadDone
  <2>1. /\ call.verb \in {"select", "data", "other"} /\ RightAfter(call.verb)
        /\ UNCHANGED <<stdout, async_queue, target>>
    BY <1>3, <1>5, <1>17 DEF ReadDone, CallsOfMethods
  <2>. QED
    BY <1>7, <1>8, <1>17, <2>1 DEF ReadDone
<1>18. CASE SnapRegisters
  <2>1. /\ call.verb \in {"select", "data", "other"} /\ RightAfter(call.verb)
        /\ UNCHANGED <<stdout, async_queue, target>>
    BY <1>3, <1>5, <1>18 DEF SnapRegisters, CallsOfMethods
  <2>. QED
    BY <1>7, <1>8, <1>18, <2>1 DEF SnapRegisters
<1>19. CASE SnapLeg
  <2>1. op = "snap_rest" /\ call.pc \in {"done"} \cup Raises /\ UNCHANGED <<stdout, async_queue, target>>
    BY <1>19, <1>3 DEF SnapLeg, Back
  <2>2. Right
    <3>1. CASE call.pc = "done"
      BY <1>1, <1>8, <2>1, <3>1 DEF CallsOfMethods
    <3>2. CASE call.pc \in {"error", "lost"}
      BY <1>1, <3>2
    <3>. QED
      BY <1>1, <2>1, <3>1, <3>2 DEF Raises
  <2>. QED
    BY <1>7, <1>19, <2>1, <2>2 DEF SnapLeg
<1>20. CASE SetDone
  <2>1. /\ call.verb = "insert" /\ RightAfter(call.verb)
        /\ UNCHANGED <<target_halted, believes_running, stdout, async_queue, target>>
        /\ breakpoints' = TRUE
    BY <1>3, <1>5, <1>20 DEF SetDone, CallsOfMethods
  <2>2. RunKnown /\ inserted /\ HaltRight /\ BeliefRight
    BY <2>1 DEF RightAfter
  <2>. QED
    BY <1>2, <1>4, <2>1, <2>2 DEF Right, RunKnown, TableRight, BeliefRight, HaltRight, target
<1>21. CASE RemoveDone
  <2>1. /\ call.verb = "delete" /\ RightAfter(call.verb)
        /\ UNCHANGED <<target_halted, believes_running, stdout, async_queue, target>>
        /\ breakpoints' = FALSE
    BY <1>3, <1>5, <1>21 DEF RemoveDone, CallsOfMethods
  <2>2. RunKnown /\ ~inserted /\ HaltRight /\ BeliefRight
    BY <2>1 DEF RightAfter
  <2>. QED
    BY <1>2, <1>4, <2>1, <2>2 DEF Right, RunKnown, TableRight, BeliefRight, HaltRight, target
<1>22. CASE RunStopped
  <2>1. /\ call.pc = "stopped" /\ call.answer.of = resumes
        /\ UNCHANGED <<breakpoints, stdout, async_queue, target>>
        /\ target_halted' /\ ~believes_running'
    BY <1>3, <1>22 DEF RunStopped, Back, Calm
  <2>2. call.answer.class \in Stops /\ Past(call.answer)
    BY <2>1 DEF ClientInv, StopsPast
  <2>3. ~runs /\ core = "halted" /\ TableRight
    BY <1>1, <1>2, <2>1, <2>2 DEF Past, PastAt
  <2>. QED
    BY <2>1, <2>3 DEF Right, RunKnown, TableRight, BeliefRight, HaltRight, target
<1>23. CASE RunNoStop
  <2>1. call.pc = "nostop" /\ UNCHANGED <<stdout, async_queue, target>>
    BY <1>3, <1>23 DEF RunNoStop, Back
  <2>. QED
    BY <1>1, <1>7, <1>23, <2>1 DEF RunNoStop
<1>24. CASE RunTimedOut
  <2>1. /\ op = "run_stop" /\ call.pc \in {"done"} \cup Raises
        /\ UNCHANGED <<breakpoints, stdout, async_queue, target>>
    BY <1>3, <1>24 DEF RunTimedOut, Back
  <2>2. CASE call.pc = "done"
    <3>1. call.verb = "interrupt" /\ RightAfter(call.verb) /\ believes_running
      BY <1>1, <2>1, <2>2 DEF CallsOfMethods
    <3>2. target_halted' /\ ~believes_running'
      BY <1>24, <2>2 DEF RunTimedOut
    <3>. QED
      BY <1>14, <2>1, <3>1, <3>2
  <2>3. CASE call.pc # "done"
    <3>1. Right
      BY <1>1, <2>1, <2>3 DEF Raises
    <3>2. UNCHANGED <<target_halted, believes_running>>
      BY <1>24, <2>3 DEF RunTimedOut
    <3>. QED
      BY <1>7, <2>1, <3>1, <3>2 DEF Opinions
  <2>. QED
    BY <2>2, <2>3
<1>25. CASE StartFails
  <2>1. PICK m \in Starting : Back(m, Raises)
    BY <1>25 DEF StartFails
  <2>. QED
    BY <1>3, <1>6, <1>7, <1>25, <2>1 DEF StartFails
<1>26. CASE Fail
  <2>1. PICK m \in Methods \ (Starting \cup {"snap_rest", "run_stop"}) : Back(m, Raises)
    BY <1>26 DEF Fail
  <2>. QED
    BY <1>3, <1>6, <1>7, <1>26, <2>1 DEF Fail
<1>. QED
  BY <1>10, <1>11, <1>12, <1>13, <1>15, <1>16, <1>17, <1>18, <1>19, <1>20, <1>21,
     <1>22, <1>23, <1>24, <1>25, <1>26 DEF Continuation

\* Reading brings the call its own result, and loses nothing it stands for.
LEMMA ClientOutcomes ==
    ASSUME ClientInv, ClientInv', CallsOfMethods, Outcomes, Calm', ClientStep,
           UNCHANGED session
    PROVE  Outcomes'
<1>1. /\ TypeOK /\ TypeOK' /\ call \in Calls /\ stdout \in Seq(Line) /\ EofLast
      /\ UNCHANGED <<op, target_halted, believes_running, breakpoints>>
      /\ call'.verb = call.verb /\ call'.id = call.id
  BY WorkFacts DEF ClientInv, TypeOK, ClientTypeOK, PipesTypeOK, session
<1>2. UNCHANGED target
  BY DEF ClientStep, ClientRead, ReadAnswer, ReadOther, ReadEof, WaitRead, TimeOut, WaitTimeOut
<1>3. ASSUME Unread => Unread'
      PROVE  (Right => Right') /\ (RightAfter(call.verb) => RightAfter(call.verb)')
  BY <1>1, <1>2, <1>3, RightStays
<1>4. ASSUME UNCHANGED <<stdout, async_queue>> PROVE Unread => Unread'
  BY <1>4 DEF Unread
<1>5. CASE ReadAnswer
  <2>1. /\ 1 \in 1..Len(stdout) /\ ResultOfCall(1) /\ call.pc = "reading"
        /\ Head(stdout) = stdout[1] /\ call'.pc = stdout[1].class /\ call'.pc \in Results
    BY <1>5, AnswerOfCall
  <2>2. Unread => Unread'
    <3>1. stdout # <<>> /\ stdout' = Tail(stdout) /\ UNCHANGED async_queue
      BY <1>5 DEF ReadAnswer
    <3>2. Head(stdout).class \notin Stops
      BY <2>1 DEF Results, Stops
    <3>. QED
      BY <1>1, <3>1, <3>2, UnreadRead
  <2>3. IF stdout[1].class = "done" THEN RightAfter(call.verb) ELSE Right
    BY <2>1 DEF Outcomes
  <2>4. IF call'.pc = "done" THEN RightAfter(call.verb)' ELSE Right'
    BY <1>3, <2>1, <2>2, <2>3
  <2>. QED
    BY <2>1, <2>4 DEF Outcomes, Results
<1>6. CASE ReadOther
  <2>1. /\ stdout # <<>> /\ stdout' = Tail(stdout) /\ Classify(Head(stdout))
        /\ call' = call /\ call.pc = "reading" /\ ~Answers(Head(stdout))
    BY <1>6 DEF ReadOther
  <2>2. (Right => Right') /\ (RightAfter(call.verb) => RightAfter(call.verb)')
    BY <1>1, <1>3, <2>1, UnreadRead
  <2>3. /\ Len(stdout) \in Nat \ {0} /\ 1 \in 1..Len(stdout) /\ Head(stdout) = stdout[1]
        /\ Len(stdout') = Len(stdout) - 1
        /\ \A i \in 1..Len(stdout') : i + 1 \in 1..Len(stdout) /\ stdout'[i] = stdout[i + 1]
    BY <1>1, <2>1, ReadFacts
  <2>4. ~ResultOfCall(1)
    BY <2>1, <2>3, ResultIsTaken
  <2>5. \A i \in 1..Len(stdout') :
           i + 1 \in 1..Len(stdout) /\ stdout'[i] = stdout[i + 1]
           /\ (ResultOfCall(i)' <=> ResultOfCall(i + 1))
    BY <2>1, <2>3 DEF ResultOfCall
  <2>6. ASSUME \A i \in 1..Len(stdout') : ~ResultOfCall(i)'
        PROVE  Right'
    <3>1. ASSUME NEW j \in 1..Len(stdout) PROVE ~ResultOfCall(j)
      <4>1. CASE j = 1
        BY <2>4, <4>1
      <4>2. CASE j # 1
        <5>1. j - 1 \in 1..Len(stdout') /\ (j - 1) + 1 = j
          BY <2>3, <4>2
        <5>. QED
          BY <2>5, <2>6, <5>1
      <4>. QED
        BY <4>1, <4>2
    <3>. QED
      BY <2>1, <2>2, <3>1 DEF Outcomes
  <2>7. ASSUME NEW i \in 1..Len(stdout'), ResultOfCall(i)'
        PROVE  IF stdout'[i].class = "done" THEN RightAfter(call.verb)' ELSE Right'
    <3>1. i + 1 \in 1..Len(stdout) /\ stdout'[i] = stdout[i + 1] /\ ResultOfCall(i + 1)
      BY <2>5, <2>7
    <3>2. IF stdout[i + 1].class = "done" THEN RightAfter(call.verb) ELSE Right
      BY <2>1, <3>1 DEF Outcomes
    <3>. QED
      BY <2>2, <3>1, <3>2
  <2>. QED
    BY <2>1, <2>6, <2>7 DEF Outcomes
<1>7. CASE ReadEof
  <2>1. /\ call.pc \in {"reading", "waiting"} /\ call'.pc = "lost"
        /\ stdout # <<>> /\ Head(stdout).class = "eof" /\ UNCHANGED <<stdout, async_queue>>
    BY <1>1, <1>7 DEF ReadEof, Calls, pipes
  <2>2. Right
    <3>1. CASE call.pc = "waiting"
      BY <3>1 DEF Outcomes
    <3>2. CASE call.pc = "reading"
      <4>1. Head(stdout) = stdout[1] /\ 1 \in 1..Len(stdout)
        BY <1>1, <2>1, Popped
      <4>2. 1 = Len(stdout)
        BY <1>1, <2>1, <4>1 DEF EofLast
      <4>3. \A i \in 1..Len(stdout) : i = 1
        <5>1. \A i \in 1..1 : i = 1
          OBVIOUS
        <5>. QED
          BY <4>2, <5>1
      <4>4. \A i \in 1..Len(stdout) : ~ResultOfCall(i)
        BY <2>1, <4>1, <4>3 DEF ResultOfCall, Results
      <4>. QED
        BY <3>2, <4>4 DEF Outcomes
    <3>. QED
      BY <2>1, <3>1, <3>2
  <2>3. Right'
    BY <1>3, <1>4, <2>1, <2>2
  <2>. QED
    BY <2>1, <2>3 DEF Outcomes
<1>8. CASE WaitRead
  <2>1. call.pc = "waiting" /\ Right /\ stdout # <<>> /\ stdout' = Tail(stdout)
    BY <1>8 DEF WaitRead, Outcomes
  <2>2. CASE IsStop(Head(stdout))
    <3>1. call'.pc = "stopped"
      BY <1>1, <1>8, <2>2 DEF WaitRead, Calls
    <3>2. believes_running
      BY <2>1 DEF CallsOfMethods
    <3>3. TableRight' /\ HaltRight' /\ BeliefRight' /\ resumes' > 0
      BY <1>1, <1>2, <2>1, <3>2 DEF Right, TableRight, HaltRight, BeliefRight, RunKnown, target
    <3>. QED
      BY <3>1, <3>3 DEF Outcomes
  <2>3. CASE ~IsStop(Head(stdout))
    <3>1. call' = call /\ Classify(Head(stdout))
      BY <1>8, <2>3 DEF WaitRead
    <3>2. Right'
      BY <1>1, <1>3, <2>1, <3>1, UnreadRead
    <3>. QED
      BY <2>1, <3>1, <3>2 DEF Outcomes
  <2>. QED
    BY <2>2, <2>3
<1>9. CASE TimeOut
  BY <1>1, <1>9 DEF TimeOut, Calls, Calm
<1>10. CASE WaitTimeOut
  <2>1. call.pc = "waiting" /\ call'.pc = "nostop" /\ UNCHANGED <<stdout, async_queue>>
    BY <1>1, <1>10 DEF WaitTimeOut, Calls, pipes
  <2>2. Right'
    BY <1>3, <1>4, <2>1 DEF Outcomes
  <2>. QED
    BY <2>1, <2>2 DEF Outcomes
<1>. QED
  BY <1>5, <1>6, <1>7, <1>8, <1>9, <1>10 DEF ClientStep, ClientRead

\* gdb's own steps change what is right only by executing the call's command,
\* and then a result that says so is under way.
LEMMA EnvironmentOutcomes ==
    ASSUME ClientInv, ClientInv', NothingLeft, Outcomes, Environment, UNCHANGED session
    PROVE  Outcomes'
<1>1. /\ TypeOK /\ TypeOK' /\ call' = call /\ stdin \in Seq(Command) /\ resumes \in Nat
      /\ Len(stdout) \in Nat /\ Len(stdout') \in Nat
      /\ runs \in BOOLEAN /\ inserted \in BOOLEAN /\ interrupted \in BOOLEAN
      /\ UNCHANGED <<target_halted, believes_running, breakpoints>>
  BY WorkFacts, OrderTypes DEF ClientInv, TypeOK, PipesTypeOK, TargetTypeOK, session,
     Environment, GdbExecute, GdbStop, GdbClose, GdbExit
<1>2. ASSUME /\ (Right => Right') /\ (RightAfter(call.verb) => RightAfter(call.verb)')
             /\ (TableRight => TableRight') /\ (HaltRight => HaltRight')
             /\ (BeliefRight => BeliefRight') /\ resumes' = resumes,
             Len(stdout) <= Len(stdout'),
             \A i \in 1..Len(stdout) : stdout'[i] = stdout[i],
             \A i \in 1..Len(stdout') : i > Len(stdout) => stdout'[i].class \notin Results
      PROVE  Outcomes'
  <2>1. \A i \in 1..Len(stdout) : i \in 1..Len(stdout') /\ (ResultOfCall(i)' <=> ResultOfCall(i))
    BY <1>1, <1>2 DEF ResultOfCall
  <2>2. \A i \in 1..Len(stdout') : ResultOfCall(i)' => i \in 1..Len(stdout)
    <3>1. \A i \in 1..Len(stdout') : i \in 1..Len(stdout) \/ i > Len(stdout)
      BY <1>1
    <3>. QED
      BY <1>2, <3>1 DEF ResultOfCall
  <2>3. (\A i \in 1..Len(stdout') : ~ResultOfCall(i)') => \A i \in 1..Len(stdout) : ~ResultOfCall(i)
    BY <2>1
  <2>4. ASSUME call.pc = "reading", NEW i \in 1..Len(stdout'), ResultOfCall(i)'
        PROVE  IF stdout'[i].class = "done" THEN RightAfter(call.verb)' ELSE Right'
    <3>1. i \in 1..Len(stdout) /\ ResultOfCall(i) /\ stdout'[i] = stdout[i]
      BY <1>2, <2>1, <2>2, <2>4
    <3>2. IF stdout[i].class = "done" THEN RightAfter(call.verb) ELSE Right
      BY <2>4, <3>1 DEF Outcomes
    <3>. QED
      BY <1>2, <3>1, <3>2
  <2>. QED
    BY <1>1, <1>2, <2>3, <2>4 DEF Outcomes
<1>3. CASE GdbExecute
  <2> DEFINE c == Head(stdin)
  <2>1. /\ stdin # <<>> /\ life = "up" /\ UNCHANGED async_queue
        /\ Len(stdout) <= Len(stdout')
        /\ \A i \in 1..Len(stdout) : stdout'[i] = stdout[i]
        /\ \A i \in 1..Len(stdout') : i > Len(stdout) => LineOf(c, stdout'[i])
        /\ \/ /\ UNCHANGED target
              /\ \A i \in 1..Len(stdout') : i > Len(stdout) => stdout'[i].class # "done"
           \/ /\ Did(c)
              /\ \A i \in 1..Len(stdout') : i > Len(stdout) => stdout'[i].class # "error"
              /\ \E i \in 1..Len(stdout') : i > Len(stdout) /\ stdout'[i].class = "done"
    BY <1>1, <1>3, ExecuteFacts
  <2>2. call.pc = "reading" /\ c.id = call.id
    BY <1>1, <2>1, Popped DEF NothingLeft
  <2>3. c.verb = call.verb /\ \A i \in 1..Len(stdout) : ~ResultOfCall(i)
    BY <2>1, <2>2, ExecutedOfCall
  <2>4. Right
    BY <2>2, <2>3 DEF Outcomes
  <2>5. Unread => Unread'
    BY <1>1, <2>1, UnreadGrows
  <2>6. \A i \in 1..Len(stdout') : ResultOfCall(i)' => i > Len(stdout)
    <3>1. \A i \in 1..Len(stdout') : i \in 1..Len(stdout) \/ i > Len(stdout)
      BY <1>1
    <3>2. \A i \in 1..Len(stdout) : ~ResultOfCall(i)'
      BY <1>1, <2>1, <2>3 DEF ResultOfCall
    <3>. QED
      BY <3>1, <3>2
  <2>7. CASE /\ UNCHANGED target
             /\ \A i \in 1..Len(stdout') : i > Len(stdout) => stdout'[i].class # "done"
    <3>1. Right'
      BY <1>1, <2>4, <2>5, <2>7, RightStays
    <3>. QED
      BY <1>1, <2>2, <2>6, <2>7, <3>1 DEF Outcomes
  <2>8. CASE /\ Did(c)
             /\ \A i \in 1..Len(stdout') : i > Len(stdout) => stdout'[i].class # "error"
             /\ \E i \in 1..Len(stdout') : i > Len(stdout) /\ stdout'[i].class = "done"
    <3>1. RightAfter(call.verb)'
      <4>1. TableRight /\ HaltRight /\ BeliefRight /\ RunKnown
        BY <2>4 DEF Right
      <4>2. CASE call.verb \in {"select", "data"}
        BY <1>1, <2>3, <2>5, <2>8, <4>1, <4>2
           DEF Did, target, Console, RightAfter, TableRight, HaltRight, BeliefRight, RunKnown
      <4>3. CASE call.verb \in {"insert", "delete"}
        BY <1>1, <2>3, <2>5, <2>8, <4>1, <4>3
           DEF Did, Console, RightAfter, TableRight, HaltRight, BeliefRight, RunKnown
      <4>4. CASE call.verb = "continue"
        BY <1>1, <2>3, <2>5, <2>8, <4>1, <4>4
           DEF Did, Console, RightAfter, TableRight, HaltRight, BeliefRight, RunKnown
      <4>5. CASE call.verb = "interrupt"
        <5>1. (runs \/ interrupted => interrupted') /\ UNCHANGED <<runs, core, inserted, resumes>>
          BY <1>1, <2>3, <2>8, <4>5 DEF Did, Console
        <5>. QED
          BY <1>1, <2>5, <4>1, <4>5, <5>1
             DEF RightAfter, TableRight, HaltRight, BeliefRight, RunKnown
      <4>6. CASE call.verb \in Console
        BY <1>1, <2>3, <2>5, <2>8, <4>1, <4>6
           DEF Did, Console, RightAfter, TableRight, HaltRight, BeliefRight, RunKnown
      <4>. QED
        BY <2>3, <2>8, <4>2, <4>3, <4>4, <4>5, <4>6 DEF Did
    <3>2. \A i \in 1..Len(stdout') : ResultOfCall(i)' => stdout'[i].class = "done"
      BY <2>6, <2>8 DEF ResultOfCall, Results
    <3>3. \E i \in 1..Len(stdout') : ResultOfCall(i)'
      BY <1>1, <2>1, <2>2, <2>8 DEF ResultOfCall, Results, LineOf
    <3>. QED
      BY <1>1, <2>2, <3>1, <3>2, <3>3 DEF Outcomes
  <2>. QED
    BY <2>1, <2>7, <2>8
<1>4. CASE GdbStop
  <2>1. /\ Len(stdout') = Len(stdout) + 1
        /\ \A i \in 1..Len(stdout) : stdout'[i] = stdout[i]
        /\ \A i \in 1..Len(stdout') : i > Len(stdout) => stdout'[i].class \in Stops
        /\ ~runs' /\ core' = "halted" /\ UNCHANGED <<inserted, resumes, async_queue>>
    BY <1>1, <1>4, StopFacts
  <2>2. Unread'
    <3>1. Len(stdout') \in 1..Len(stdout') /\ Len(stdout') > Len(stdout)
      BY <1>1, <2>1
    <3>. QED
      BY <1>1, <2>1, <3>1, UnreadThen DEF Told
  <2>3. /\ (Right => Right') /\ (RightAfter(call.verb) => RightAfter(call.verb)')
    BY <1>1, <2>1, <2>2, RightStopped
  <2>4. /\ (TableRight => TableRight') /\ (HaltRight => HaltRight') /\ (BeliefRight => BeliefRight')
    BY <1>1, <2>1 DEF TableRight, HaltRight, BeliefRight
  <2>5. \A i \in 1..Len(stdout') : i > Len(stdout) => stdout'[i].class \notin Results
    BY <2>1 DEF Stops, Results
  <2>. QED
    BY <1>1, <1>2, <2>1, <2>3, <2>4, <2>5
<1>5. CASE GdbClose
  <2>1. /\ Len(stdout') = Len(stdout) + 1
        /\ \A i \in 1..Len(stdout) : stdout'[i] = stdout[i]
        /\ \A i \in 1..Len(stdout') : i > Len(stdout) => stdout'[i].class = "eof"
        /\ UNCHANGED <<target, async_queue>>
    BY <1>1, <1>5, CloseFacts
  <2>2. Unread => Unread'
    BY <1>1, <2>1, UnreadGrows
  <2>3. /\ (Right => Right') /\ (RightAfter(call.verb) => RightAfter(call.verb)')
    BY <1>1, <2>1, <2>2, RightStays
  <2>4. /\ (TableRight => TableRight') /\ (HaltRight => HaltRight') /\ (BeliefRight => BeliefRight')
        /\ resumes' = resumes
    BY <1>1, <2>1 DEF TableRight, HaltRight, BeliefRight, target
  <2>5. \A i \in 1..Len(stdout') : i > Len(stdout) => stdout'[i].class \notin Results
    BY <2>1 DEF Results
  <2>. QED
    BY <1>1, <1>2, <2>1, <2>3, <2>4, <2>5
<1>6. CASE GdbExit
  <2>1. UNCHANGED <<target, async_queue, stdout>>
    BY <1>6 DEF GdbExit, pipes
  <2>2. Unread => Unread'
    BY <2>1 DEF Unread
  <2>3. /\ (Right => Right') /\ (RightAfter(call.verb) => RightAfter(call.verb)')
    BY <1>1, <2>1, <2>2, RightStays
  <2>4. /\ (TableRight => TableRight') /\ (HaltRight => HaltRight') /\ (BeliefRight => BeliefRight')
        /\ resumes' = resumes
    BY <1>1, <2>1 DEF TableRight, HaltRight, BeliefRight, target
  <2>. QED
    BY <1>1, <1>2, <2>1, <2>3, <2>4
<1>. QED
  BY <1>3, <1>4, <1>5, <1>6 DEF Environment

\* While nothing was ever abandoned, what the session holds true of gdb and the
\* core is true, or becomes so with the result under way.
LEMMA UndisturbedStep ==
    ASSUME ClientInv, ClientInv', SessionTypeOK, SessionTypeOK', CallsOfMethods,
           CallsOfMethods', Calm => Undisturbed, [SessionNext]_allvars
    PROVE  (Calm => Undisturbed)'
<1> SUFFICES ASSUME Calm' PROVE Undisturbed'
  OBVIOUS
<1>1. TypeOK /\ Calm
  BY CalmBefore DEF ClientInv
<1>2. NothingLeft /\ Outcomes
  BY <1>1 DEF Undisturbed
<1>3. NothingLeft'
  BY <1>2, NothingLeftStep
<1>4. ASSUME UNCHANGED <<call, stdout, async_queue, target,
                         target_halted, believes_running, breakpoints>>
      PROVE  Outcomes'
  <2>1. Unread' = Unread
    BY <1>4 DEF Unread
  <2>. QED
    BY <1>2, <1>4, <2>1 DEF Outcomes, Right, RightAfter, TableRight, HaltRight, BeliefRight,
       RunKnown, ResultOfCall, target
<1>5. CASE Method
  <2>1. CASE RunWait
    <3>1. /\ op = "run_go" /\ call.pc = "idle" /\ call'.pc \in {"waiting", "stopped"}
          /\ stdout' = stdout
          /\ runs' = runs /\ core' = core /\ interrupted' = interrupted
          /\ inserted' = inserted /\ resumes' = resumes /\ target_halted' = target_halted
          /\ believes_running' = believes_running /\ breakpoints' = breakpoints
      <4>1. op = "run_go" /\ WaitForStopped /\ UNCHANGED Opinions
        BY <2>1 DEF RunWait
      <4>2. call.pc = "idle" /\ stdout' = stdout /\ UNCHANGED target
        BY <4>1 DEF WaitForStopped, pipes
      <4>3. call'.pc \in {"waiting", "stopped"}
        BY <4>1 DEF WaitForStopped, NoCall
      <4>. QED
        BY <4>1, <4>2, <4>3 DEF Opinions, target
    <3>2. Right /\ believes_running
      BY <1>2, <3>1 DEF Outcomes, CallsOfMethods
    <3>3. CASE call'.pc = "stopped"
      <4>1. TableRight' /\ HaltRight' /\ BeliefRight' /\ resumes' > 0
        BY <3>1, <3>2 DEF Right, TableRight, HaltRight, BeliefRight, RunKnown
      <4>. QED
        BY <1>3, <3>3, <4>1 DEF Outcomes, Undisturbed
    <3>4. CASE call'.pc = "waiting"
      <4>1. ~Told(async_queue)
        <5>1. WaitForStopped
          BY <2>1 DEF RunWait
        <5>2. {i \in 1..Len(async_queue) : IsStop(async_queue[i])} = {}
          <6>1. ASSUME NEW i, call' = [NoCall EXCEPT !.pc = "stopped", !.answer = async_queue[i]]
                PROVE  FALSE
            BY <3>4, <6>1 DEF NoCall
          <6>. QED
            BY <5>1, <6>1 DEF WaitForStopped
        <5>. QED
          BY <5>2 DEF IsStop, Told
      <4>2. Unread => Unread'
        <5>1. Told(stdout) => Told(stdout')
          BY <3>1 DEF Told
        <5>. QED
          BY <1>1, <4>1, <5>1, UnreadIs, UnreadThen DEF ClientInv
      <4>3. Right'
        BY <3>1, <3>2, <4>2 DEF Right, TableRight, HaltRight, BeliefRight, RunKnown
      <4>. QED
        BY <1>3, <3>4, <4>3 DEF Outcomes, Undisturbed
    <3>. QED
      BY <3>1, <3>3, <3>4
  <2>2. CASE SnapEnds
    BY <1>3, <1>4, <2>2 DEF SnapEnds, vars, pipes, Opinions, Undisturbed
  <2>3. ASSUME NEW m, NEW v, Enter(m, v) PROVE Undisturbed'
    BY <1>2, <1>3, <2>3, EnterOutcomes DEF Undisturbed
  <2>. QED
    BY <1>5, <2>1, <2>2, <2>3
       DEF Method, Start, StartMonitorReset, Halt, Resume, Reset, ResetResume,
           SendMonitor, Read, ReadMore, TakeSnapshot, SnapNext, SetBreakpoint,
           RemoveBreakpoint, RunUntilBreakpoint, RunInterrupt
<1>6. CASE Continuation
  <2>1. Right'
    BY <1>1, <1>2, <1>6, BackOutcomes
  <2>2. call'.pc = "idle"
    <3>1. Return
      BY <1>6 DEF Continuation, Connected, StartReset, Started, StartFails, HaltDone, ResumeDone,
         ResetDone, ResetGoDone, MonitorDone, ReadDone, SnapRegisters, SnapLeg, SetDone,
         RemoveDone, RunStarted, RunStopped, RunNoStop, RunTimedOut, Fail, Back
    <3>. QED
      BY <3>1 DEF Return, NoCall
  <2>3. Outcomes'
    BY <2>1, <2>2 DEF Outcomes
  <2>. QED
    BY <1>3, <2>3 DEF Undisturbed
<1>7. CASE Close
  BY <1>3, <1>4, <1>7 DEF Close, vars, pipes, Opinions, Undisturbed
<1>8. CASE ClientStep /\ UNCHANGED session
  BY <1>2, <1>3, <1>8, ClientOutcomes DEF Undisturbed
<1>9. CASE Environment /\ UNCHANGED session
  BY <1>2, <1>3, <1>9, EnvironmentOutcomes DEF Undisturbed
<1>10. CASE UNCHANGED allvars
  BY <1>3, <1>4, <1>10 DEF allvars, vars, pipes, session, Undisturbed
<1>. QED
  BY <1>5, <1>6, <1>7, <1>8, <1>9, <1>10 DEF SessionNext

\* The invariant holds from the start and survives every step.
LEMMA SessionAlways == SessionSpec => [](ClientInv /\ SessionTypeOK /\ SessionInv)
<1> DEFINE Here == CallsOfMethods /\ RunAwaited /\ (Calm => Undisturbed)
<1>1. SessionInit => Here
  <2> SUFFICES ASSUME SessionInit PROVE Here
    OBVIOUS
  <2>1. /\ op = "new" /\ call.pc = "idle" /\ stdin = <<>> /\ stdout = <<>>
        /\ ~runs /\ ~inserted /\ ~target_halted /\ ~believes_running /\ ~breakpoints
        /\ inserted = breakpoints
    BY DEF SessionInit, Init, NoCall
  <2>2. CallsOfMethods
    BY <2>1 DEF CallsOfMethods, Between, Methods, Starting, Running, Snapshot
  <2>3. RunAwaited
    BY <2>1 DEF RunAwaited, Awaiting
  <2>4. Right
    BY <2>1 DEF Right, TableRight, HaltRight, BeliefRight, RunKnown
  <2>5. Undisturbed
    BY <2>1, <2>4 DEF Undisturbed, NothingLeft, Outcomes
  <2>. QED
    BY <2>2, <2>3, <2>5
<1>2. /\ ClientInv /\ ClientInv' /\ SessionTypeOK /\ SessionTypeOK' /\ Here
      /\ [SessionNext]_allvars
      => Here'
  <2> SUFFICES ASSUME ClientInv, ClientInv', SessionTypeOK, SessionTypeOK', Here,
                      [SessionNext]_allvars
               PROVE  Here'
    OBVIOUS
  <2>1. CallsOfMethods'
    BY MethodsStep DEF ClientInv
  <2>. QED
    BY <2>1, AwaitedStep, UndisturbedStep
<1>3. ClientInv /\ Here => SessionInv
  BY DEF ClientInv, SessionInv
<1>4. SessionSpec => []ClientInv
  BY SessionIsClient, ClientAlways, PTL
<1>. QED
  BY SessionTypes, <1>1, <1>2, <1>3, <1>4, PTL DEF SessionSpec

-----------------------------------------------------------------------------
(* What it comes to between two methods.                                   *)

LEMMA IdleIsRight ==
    ASSUME SessionInv, op = "idle", ~upset
    PROVE  Right
<1>1. call.pc = "idle"
  BY DEF SessionInv, CallsOfMethods, Between
<1>2. Outcomes
  BY <1>1 DEF SessionInv, Calm, Undisturbed
<1>. QED
  BY <1>1, <1>2 DEF Outcomes

\* target_halted is never a lie while no call has timed out and no old stop was
\* taken for a new one: the reads it lets through find a halted core, or one
\* whose interrupt gdb holds.
THEOREM HaltedIsHalted == SessionSpec => []HaltedIsTrue
<1>1. SessionInv => HaltedIsTrue
  BY IdleIsRight DEF HaltedIsTrue, Right, HaltRight
<1>. QED
  BY SessionAlways, <1>1, PTL

\* _gdb_believes_running, which chooses how halt() stops the core, is gdb's own
\* state up to a *stopped that is still there to be read.
THEOREM BeliefIsGdbs == SessionSpec => []BeliefTracksGdb
<1>1. SessionInv => BeliefTracksGdb
  BY IdleIsRight DEF BeliefTracksGdb, Right, BeliefRight, RunKnown
<1>. QED
  BY SessionAlways, <1>1, PTL

\* run_until_breakpoint reads past no stop of the run it waits for.
THEOREM StopIsAwaited == SessionSpec => []NoStopMissed
<1>1. SessionInv => NoStopMissed
  BY DEF SessionInv, RunAwaited, Awaiting, StopAfter, NoStopMissed
<1>. QED
  BY SessionAlways, <1>1, PTL

\* The breakpoint table is gdb's.
THEOREM TableIsGdbs == SessionSpec => []TablesAgree
<1>1. SessionInv => TablesAgree
  BY IdleIsRight DEF TablesAgree, Right, TableRight
<1>. QED
  BY SessionAlways, <1>1, PTL

-----------------------------------------------------------------------------
(* The session as its caller sees it: RemoteTarget.                        *)

NoStops(q) == \A i \in 1..Len(q) : q[i].class \notin Stops
Rising(q)  == \A i, j \in 1..Len(q) :
                  i < j /\ q[i].class \in Stops /\ q[j].class \in Stops => q[i].of < q[j].of
InOrder(p, q) == \A i \in 1..Len(p), j \in 1..Len(q) :
                     p[i].class \in Stops /\ q[j].class \in Stops => p[i].of < q[j].of

\* The connection, whose stop carries no run, is the first command of all.
Connecting == op = "new" \/ \E i \in 1..Len(stdin) : stdin[i].verb = "select"

ConnectsFirst ==
    /\ op = "new" => sent = <<>>
    /\ \A i \in 1..Len(stdin) : stdin[i].verb = "select" => stdin[i].id = 1
    /\ Connecting => resumes = 0 /\ NoStops(async_queue) /\ NoStops(stdout)

\* Stops are told in the order in which they happened.
StopsInOrder ==
    /\ Rising(async_queue) /\ Rising(stdout) /\ InOrder(async_queue, stdout)
    /\ call.pc = "waiting" => NoStops(async_queue)

\* The command of the call in progress is still to be executed, or its result
\* is under way.
CallIsOwed ==
    call.pc = "reading" /\ life = "up" =>
        \/ \E i \in 1..Len(stdout) : ResultOfCall(i)
        \/ stdin # <<>> /\ stdin[Len(stdin)].id = call.id

RemoteInv == ConnectsFirst /\ StopsInOrder /\ CallIsOwed

\* What is owed, as commands are written and executed.
LEMMA VerbsOf ==
    ASSUME NEW q \in Seq(Command), NEW o, o = [i \in 1..Len(q) |-> q[i].verb]
    PROVE  /\ o \in Seq(Verbs) /\ Len(o) = Len(q) /\ Len(q) \in Nat
           /\ \A i \in 1..Len(q) : o[i] = q[i].verb
<1>1. \A i \in 1..Len(q) : q[i] \in Command
  OBVIOUS
<1>2. \A i \in 1..Len(q) : q[i].verb \in Verbs
  BY <1>1 DEF Command
<1>. QED
  BY <1>2

LEMMA OwedWritten ==
    ASSUME TypeOK, NEW t \in Nat, NEW v \in Verbs, Write(t, v)
    PROVE  Owed' = Append(Owed, v)
<1> DEFINE c == [id |-> Len(sent) + 1, token |-> t, verb |-> v]
<1>1. stdin \in Seq(Command) /\ c \in Command /\ c.verb = v /\ stdin' = Append(stdin, c)
  BY OrderTypes DEF TypeOK, PipesTypeOK, Write, Command
<1>2. /\ stdin' \in Seq(Command) /\ Len(stdin') = Len(stdin) + 1 /\ Len(stdin) \in Nat
      /\ stdin'[Len(stdin) + 1] = c /\ \A i \in 1..Len(stdin) : stdin'[i] = stdin[i]
  BY <1>1, AppendProperties
<1>3. /\ Owed \in Seq(Verbs) /\ Len(Owed) = Len(stdin)
      /\ \A i \in 1..Len(stdin) : Owed[i] = stdin[i].verb
  BY <1>1, VerbsOf DEF Owed
<1>4. /\ Owed' \in Seq(Verbs) /\ Len(Owed') = Len(stdin')
      /\ \A i \in 1..Len(stdin') : Owed'[i] = stdin'[i].verb
  BY <1>2, VerbsOf DEF Owed
<1>5. /\ Append(Owed, v) \in Seq(Verbs) /\ Len(Append(Owed, v)) = Len(stdin) + 1
      /\ \A i \in 1..Len(stdin) : Append(Owed, v)[i] = stdin[i].verb
      /\ Append(Owed, v)[Len(stdin) + 1] = v
  BY <1>3, AppendProperties
<1>6. \A i \in 1..Len(stdin') : i \in 1..Len(stdin) \/ i = Len(stdin) + 1
  BY <1>2
<1>7. \A i \in 1..Len(Owed') : Owed'[i] = Append(Owed, v)[i]
  BY <1>1, <1>2, <1>4, <1>5, <1>6
<1>. QED
  BY <1>2, <1>4, <1>5, <1>7, SeqEqual

LEMMA OwedExecuted ==
    ASSUME TypeOK, stdin # <<>>, stdin' = Tail(stdin)
    PROVE  /\ Owed # <<>> /\ Owed' = Tail(Owed) /\ Head(Owed) = Head(stdin).verb
           /\ Len(Owed) = Len(stdin)
<1>1. stdin \in Seq(Command)
  BY DEF TypeOK, PipesTypeOK
<1>2. /\ Len(stdin) \in Nat \ {0} /\ Len(stdin') = Len(stdin) - 1 /\ Head(stdin) = stdin[1]
      /\ 1 \in 1..Len(stdin) /\ stdin' \in Seq(Command)
      /\ \A i \in 1..Len(stdin') : i + 1 \in 1..Len(stdin) /\ stdin'[i] = stdin[i + 1]
  BY <1>1, Popped
<1>3. /\ Owed \in Seq(Verbs) /\ Len(Owed) = Len(stdin)
      /\ \A i \in 1..Len(stdin) : Owed[i] = stdin[i].verb
  BY <1>1, VerbsOf DEF Owed
<1>4. /\ Owed' \in Seq(Verbs) /\ Len(Owed') = Len(stdin')
      /\ \A i \in 1..Len(stdin') : Owed'[i] = stdin'[i].verb
  BY <1>2, VerbsOf DEF Owed
<1>5. Owed # <<>>
  BY <1>2, <1>3
<1>6. /\ Tail(Owed) \in Seq(Verbs) /\ Len(Tail(Owed)) = Len(Owed) - 1 /\ Head(Owed) = Owed[1]
      /\ \A i \in 1..Len(Tail(Owed)) : Tail(Owed)[i] = Owed[i + 1]
  BY <1>3, <1>5, Popped
<1>7. \A i \in 1..Len(Owed') : Owed'[i] = Tail(Owed)[i]
  BY <1>2, <1>3, <1>4, <1>6
<1>8. Owed' = Tail(Owed)
  BY <1>2, <1>3, <1>4, <1>6, <1>7, SeqEqual
<1>. QED
  BY <1>2, <1>3, <1>5, <1>6, <1>8

-----------------------------------------------------------------------------
\* The verdict is the result under way: there is at most one.
LEMMA NoVerdict ==
    ASSUME \A i \in 1..Len(stdout) : call.pc = "reading" => ~ResultOfCall(i)
    PROVE  Verdict = "none"
BY DEF Verdict, Verdicts, ResultOfCall

LEMMA VerdictIs ==
    ASSUME ClientInv, call.pc = "reading", NEW i \in 1..Len(stdout), ResultOfCall(i)
    PROVE  Verdict = stdout[i].class /\ Verdict \in Results
<1>1. /\ stdout[i].class \in Results /\ stdout[i].of = call.id
      /\ TypeOK /\ StdoutOrdered /\ Results \subseteq Own
  BY DEF ClientInv, ResultOfCall, Own, Ordered, PipesOrdered
<1>2. ASSUME NEW j \in 1..Len(stdout), ResultOfCall(j) PROVE j = i
  <2>1. stdout[j].class \in Results /\ stdout[j].of = stdout[i].of /\ stdout[i].of \in Nat
    BY <1>1, <1>2, OrderTypes DEF ResultOfCall
  <2>2. ~(i < j) /\ ~(j < i)
    BY <1>1, <2>1 DEF StdoutOrdered
  <2>. QED
    BY <1>1, <2>2, OrderTypes
<1>3. Verdicts = {stdout[i].class}
  BY <1>1, <1>2 DEF Verdicts, ResultOfCall
<1>. QED
  BY <1>1, <1>3 DEF Verdict

\* The lines that gdb adds bring a verdict only with the result of the call.
LEMMA VerdictKept ==
    ASSUME UNCHANGED call, Len(stdout) \in Nat, Len(stdout') \in Nat, Len(stdout) <= Len(stdout'),
           \A i \in 1..Len(stdout) : stdout'[i] = stdout[i],
           call.pc = "reading" =>
              \A i \in 1..Len(stdout') : i > Len(stdout) => ~ResultOfCall(i)'
    PROVE  Verdict' = Verdict
<1>1. ASSUME call.pc = "reading", NEW r \in Results
      PROVE  (\E i \in 1..Len(stdout') : stdout'[i].class = r /\ stdout'[i].of = call.id)
             <=> (\E i \in 1..Len(stdout) : stdout[i].class = r /\ stdout[i].of = call.id)
  <2>1. \A i \in 1..Len(stdout') : i \in 1..Len(stdout) \/ i > Len(stdout)
    OBVIOUS
  <2>2. \A i \in 1..Len(stdout) : i \in 1..Len(stdout')
    OBVIOUS
  <2>. QED
    BY <1>1, <2>1, <2>2 DEF ResultOfCall
<1>2. Verdicts' = Verdicts
  BY <1>1 DEF Verdicts, Results
<1>. QED
  BY <1>2 DEF Verdict

\* Reading another line than the call's own result leaves the verdict alone.
LEMMA VerdictRead ==
    ASSUME TypeOK, UNCHANGED call, stdout # <<>>, stdout' = Tail(stdout),
           call.pc = "reading" => ~ResultOfCall(1)
    PROVE  Verdict' = Verdict
<1>1. /\ Len(stdout) \in Nat \ {0} /\ Len(stdout') = Len(stdout) - 1
      /\ \A i \in 1..Len(stdout') : i + 1 \in 1..Len(stdout) /\ stdout'[i] = stdout[i + 1]
  BY ReadFacts
<1>2. \A i \in 1..Len(stdout) : i = 1 \/ (i - 1 \in 1..Len(stdout') /\ (i - 1) + 1 = i)
  BY <1>1
<1>3. ASSUME call.pc = "reading", NEW r \in Results
      PROVE  (\E i \in 1..Len(stdout') : stdout'[i].class = r /\ stdout'[i].of = call.id)
             <=> (\E i \in 1..Len(stdout) : stdout[i].class = r /\ stdout[i].of = call.id)
  <2>1. ASSUME NEW i \in 1..Len(stdout), stdout[i].class = r, stdout[i].of = call.id
        PROVE  \E j \in 1..Len(stdout') : stdout'[j].class = r /\ stdout'[j].of = call.id
    <3>1. i # 1
      BY <1>3, <2>1 DEF ResultOfCall
    <3>2. i - 1 \in 1..Len(stdout') /\ stdout'[i - 1] = stdout[i]
      BY <1>1, <1>2, <3>1
    <3>. QED
      BY <2>1, <3>2
  <2>. QED
    BY <1>1, <2>1
<1>4. Verdicts' = Verdicts
  BY <1>3 DEF Verdicts, Results
<1>. QED
  BY <1>4 DEF Verdict

\* The verdict on the call in progress after a step.
VerdictRight ==
    ClientInv /\ call.pc = "reading" =>
        \A i \in 1..Len(stdout) : ResultOfCall(i) => Verdict = stdout[i].class

LEMMA VerdictThen == VerdictRight'
<1>1. VerdictRight
  BY VerdictIs DEF VerdictRight
<1>. QED
  BY <1>1, PTL

-----------------------------------------------------------------------------
\* The stops nobody was told of, as lines come and go.
UntoldAre ==
    ClientInv => \A n : n \in Untold <=> StopIn(async_queue, n) \/ StopIn(stdout, n)

LEMMA UntoldNow == UntoldAre
<1> SUFFICES ASSUME ClientInv, NEW n, StopIn(async_queue, n) \/ StopIn(stdout, n)
             PROVE  n \in 0..resumes
  BY DEF UntoldAre, Untold
<1>1. resumes \in Nat /\ async_queue \in Seq(Line) /\ stdout \in Seq(Line) /\ StopsPast
  BY DEF ClientInv, TypeOK, ClientTypeOK, PipesTypeOK, TargetTypeOK
<1>2. ASSUME NEW r \in Line, r.class \in Stops, r.of = n, Past(r) PROVE n \in 0..resumes
  BY <1>1, <1>2 DEF Past, PastAt, Line
<1>3. CASE StopIn(async_queue, n)
  <2>1. PICK i \in 1..Len(async_queue) : async_queue[i].class \in Stops /\ async_queue[i].of = n
    BY <1>3 DEF StopIn
  <2>2. async_queue[i] \in Line /\ Past(async_queue[i])
    BY <1>1 DEF StopsPast
  <2>. QED
    BY <1>2, <2>1, <2>2
<1>4. CASE StopIn(stdout, n)
  <2>1. PICK i \in 1..Len(stdout) : stdout[i].class \in Stops /\ stdout[i].of = n
    BY <1>4 DEF StopIn
  <2>2. stdout[i] \in Line /\ Past(stdout[i])
    BY <1>1 DEF StopsPast
  <2>. QED
    BY <1>2, <2>1, <2>2
<1>. QED
  BY <1>3, <1>4

LEMMA UntoldNext == UntoldAre'
BY UntoldNow, PTL

\* A line taken off the head of a pipe, and one put at the end.
LEMMA StopTaken ==
    ASSUME NEW s \in Seq(Line), s # <<>>
    PROVE  /\ Head(s) \in Line
           /\ \A n : StopIn(s, n) <=> \/ Head(s).class \in Stops /\ Head(s).of = n
                                      \/ StopIn(Tail(s), n)
<1>1. /\ Len(s) \in Nat \ {0} /\ Head(s) = s[1] /\ Head(s) \in Line /\ 1 \in 1..Len(s)
      /\ Len(Tail(s)) = Len(s) - 1
      /\ \A i \in 1..Len(Tail(s)) : i + 1 \in 1..Len(s) /\ Tail(s)[i] = s[i + 1]
  BY Popped
<1>2. \A i \in 1..Len(s) : i = 1 \/ (i - 1 \in 1..Len(Tail(s)) /\ (i - 1) + 1 = i)
  BY <1>1
<1>3. \A i \in 1..Len(s) : i = 1 \/ (i - 1 \in 1..Len(Tail(s)) /\ Tail(s)[i - 1] = s[i])
  BY <1>1, <1>2
<1>4. ASSUME NEW n, StopIn(s, n)
      PROVE  (Head(s).class \in Stops /\ Head(s).of = n) \/ StopIn(Tail(s), n)
  BY <1>1, <1>3, <1>4 DEF StopIn
<1>5. ASSUME NEW n, (Head(s).class \in Stops /\ Head(s).of = n) \/ StopIn(Tail(s), n)
      PROVE  StopIn(s, n)
  BY <1>1, <1>5 DEF StopIn
<1>. QED
  BY <1>1, <1>4, <1>5

LEMMA StopAdded ==
    ASSUME NEW s \in Seq(Line), NEW a \in Line
    PROVE  /\ \A n : StopIn(s \o <<a>>, n) <=> StopIn(s, n) \/ (a.class \in Stops /\ a.of = n)
           /\ \A n : StopIn(Append(s, a), n) <=> StopIn(s, n) \/ (a.class \in Stops /\ a.of = n)
<1>1. /\ Len(s \o <<a>>) = Len(s) + 1 /\ Len(s) \in Nat /\ Append(s, a) = s \o <<a>>
      /\ \A i \in 1..Len(s) : (s \o <<a>>)[i] = s[i]
      /\ (s \o <<a>>)[Len(s) + 1] = a
  BY PushedOne, AppendIsConcat
<1>2. \A i \in 1..Len(s \o <<a>>) : i \in 1..Len(s) \/ i = Len(s) + 1
  BY <1>1
<1>3. \A i \in 1..Len(s) : i \in 1..Len(s \o <<a>>)
  BY <1>1
<1>4. Len(s) + 1 \in 1..Len(s \o <<a>>)
  BY <1>1
<1>. QED
  BY <1>1, <1>2, <1>3, <1>4 DEF StopIn

LEMMA StopAddedTwo ==
    ASSUME NEW s \in Seq(Line), NEW a \in Line, NEW b \in Line
    PROVE  \A n : StopIn(s \o <<a, b>>, n) <=> \/ StopIn(s, n)
                                               \/ a.class \in Stops /\ a.of = n
                                               \/ b.class \in Stops /\ b.of = n
<1>1. /\ Len(s \o <<a, b>>) = Len(s) + 2 /\ Len(s) \in Nat
      /\ \A i \in 1..Len(s) : (s \o <<a, b>>)[i] = s[i]
      /\ (s \o <<a, b>>)[Len(s) + 1] = a /\ (s \o <<a, b>>)[Len(s) + 2] = b
  BY PushedTwo
<1>2. \A i \in 1..Len(s \o <<a, b>>) : i \in 1..Len(s) \/ i = Len(s) + 1 \/ i = Len(s) + 2
  BY <1>1
<1>3. \A i \in 1..Len(s) : i \in 1..Len(s \o <<a, b>>)
  BY <1>1
<1>4. Len(s) + 1 \in 1..Len(s \o <<a, b>>) /\ Len(s) + 2 \in 1..Len(s \o <<a, b>>)
  BY <1>1
<1>. QED
  BY <1>1, <1>2, <1>3, <1>4 DEF StopIn

\* Two sets of stops are equal when the pipes hold the same.
LEMMA UntoldKept ==
    ASSUME ClientInv, ClientInv',
           \A n : StopIn(async_queue, n)' \/ StopIn(stdout, n)'
                  <=> StopIn(async_queue, n) \/ StopIn(stdout, n)
    PROVE  Untold' = Untold
<1>1. \A n : n \in Untold' <=> StopIn(async_queue, n)' \/ StopIn(stdout, n)'
  BY UntoldNext DEF UntoldAre
<1>2. \A n : n \in Untold <=> StopIn(async_queue, n) \/ StopIn(stdout, n)
  BY UntoldNow DEF UntoldAre
<1>. QED
  BY <1>1, <1>2

-----------------------------------------------------------------------------
(* The invariant behind it.                                                *)

\* Only a connection makes gdb report a stop while it executes a command.
Quietly == \A i \in 1..Len(stdout') : i > Len(stdout) => stdout'[i].class \notin Stops

LEMMA ExecuteStops ==
    ASSUME TypeOK, GdbExecute
    PROVE  \/ Quietly
           \/ /\ Head(stdin).verb = "select" /\ UNCHANGED target
              /\ Len(stdout') = Len(stdout) + 2 /\ stdout'[Len(stdout) + 1].of = 0
              /\ stdout'[Len(stdout) + 2].class = "done"
<1> DEFINE c == Head(stdin)
<1>1. /\ c \in Command /\ resumes \in Nat /\ stdout \in Seq(Line) /\ Len(stdout) \in Nat
  BY TailInSeq DEF GdbExecute, TypeOK, PipesTypeOK, TargetTypeOK
<1>2. /\ Result(c, "done") \in Line /\ Result(c, "error") \in Line
      /\ Text(c) \in Line /\ Stop("connect", 0) \in Line
      /\ Record("running", 0, resumes + 1) \in Line
  BY <1>1, RecordType DEF Result, Text, Stop, Command, Classes, Results, Async, Stops
<1>3. /\ \A r \in {Result(c, "done"), Result(c, "error"), Text(c), Record("running", 0, resumes + 1)} :
            r.class \notin Stops
      /\ Stop("connect", 0).of = 0 /\ Result(c, "done").class = "done"
  BY DEF Result, Text, Stop, Record, Stops
<1>4. ASSUME NEW a \in Line, Emit(<<a>>), a.class \notin Stops PROVE Quietly
  BY <1>1, <1>4, PushedOne DEF Emit, Quietly
<1>5. ASSUME NEW a \in Line, NEW b \in Line, Emit(<<a, b>>)
      PROVE  /\ Len(stdout') = Len(stdout) + 2
             /\ stdout'[Len(stdout) + 1] = a /\ stdout'[Len(stdout) + 2] = b
             /\ a.class \notin Stops /\ b.class \notin Stops => Quietly
  BY <1>1, <1>5, PushedTwo DEF Emit, Quietly
<1>. HIDE DEF c
<1>6. CASE GdbData(c) \/ GdbBreakpoint(c) \/ GdbInterrupt(c)
  BY <1>6, <1>2, <1>3, <1>4 DEF GdbData, GdbBreakpoint, GdbInterrupt
<1>7. CASE GdbRefuse(c) \/ GdbContinue(c) \/ GdbConsole(c)
  BY <1>7, <1>2, <1>3, <1>4, <1>5 DEF GdbRefuse, GdbContinue, GdbConsole
<1>8. CASE GdbSelect(c)
  <2>1. CASE Emit(<<Result(c, "done")>>)
    BY <2>1, <1>2, <1>3, <1>4
  <2>2. CASE Emit(<<Stop("connect", 0), Result(c, "done")>>)
    <3>1. /\ Len(stdout') = Len(stdout) + 2 /\ stdout'[Len(stdout) + 1].of = 0
          /\ stdout'[Len(stdout) + 2].class = "done"
      BY <2>2, <1>2, <1>3, <1>5
    <3>. QED
      BY <1>8, <3>1 DEF GdbSelect, c
  <2>. QED
    BY <1>8, <2>1, <2>2 DEF GdbSelect
<1>. QED
  BY <1>6, <1>7, <1>8 DEF GdbExecute, c

\* A command at the head of the pipe that is the connection is the only one.
LEMMA SelectIsOnly ==
    ASSUME ClientInv, ConnectsFirst, stdin # <<>>, stdin' = Tail(stdin),
           NEW j \in 1..Len(stdin')
    PROVE  stdin'[j].verb # "select"
<1>1. /\ stdin \in Seq(Command) /\ StdinOrdered /\ TypeOK
  BY DEF ClientInv, TypeOK, PipesTypeOK, Ordered, PipesOrdered
<1>2. /\ j + 1 \in 1..Len(stdin) /\ stdin'[j] = stdin[j + 1] /\ 1 \in 1..Len(stdin) /\ j \in Nat
      /\ 1 < j + 1
  BY <1>1, Popped
<1>3. stdin[1].id < stdin[j + 1].id /\ consumed < stdin[1].id
  BY <1>1, <1>2 DEF StdinOrdered
<1>4. consumed \in Nat /\ stdin[1].id \in Nat /\ stdin[j + 1].id \in Nat
  BY <1>1, <1>2, OrderTypes
<1>5. stdin[j + 1].id # 1
  BY <1>3, <1>4
<1>. QED
  BY <1>2, <1>5 DEF ConnectsFirst

\* Writing: the verb that comes in is at the end.
LEMMA WriteVerbs ==
    ASSUME TypeOK, NEW t, NEW v, Write(t, v)
    PROVE  /\ Len(stdin) \in Nat /\ Len(stdin') = Len(stdin) + 1
           /\ \A i \in 1..Len(stdin') : i \in 1..Len(stdin) \/ i = Len(stdin) + 1
           /\ \A i \in 1..Len(stdin) : stdin'[i] = stdin[i]
           /\ stdin'[Len(stdin) + 1].verb = v /\ stdin'[Len(stdin) + 1].id = Len(sent) + 1
BY DEF TypeOK, PipesTypeOK, Write

LEMMA ConnectsStep ==
    ASSUME ClientInv, SessionTypeOK, CallsOfMethods, ConnectsFirst, [SessionNext]_allvars
    PROVE  ConnectsFirst'
<1>1. /\ TypeOK /\ StopsPast /\ call \in Calls /\ stdin \in Seq(Command) /\ sent \in Seq(Nat)
      /\ async_queue \in Seq(Line) /\ stdout \in Seq(Line) /\ resumes \in Nat
      /\ Len(stdin) \in Nat /\ Len(stdout) \in Nat
  BY DEF ClientInv, TypeOK, ClientTypeOK, PipesTypeOK, TargetTypeOK
<1>2. /\ op = "new" => sent = <<>>
      /\ \A i \in 1..Len(stdin) : stdin[i].verb = "select" => stdin[i].id = 1
      /\ Connecting => resumes = 0 /\ NoStops(async_queue) /\ NoStops(stdout)
  BY DEF ConnectsFirst
<1>3. ASSUME UNCHANGED <<stdin, stdout, async_queue, resumes>>, op' # "new" PROVE ConnectsFirst'
  BY <1>2, <1>3 DEF ConnectsFirst, Connecting, NoStops
<1>4. ASSUME NEW m \in Methods, NEW v, Enter(m, v), op = "new" \/ v # "select" PROVE ConnectsFirst'
  <2>1. /\ op' = m /\ op' # "new" /\ UNCHANGED <<stdout, async_queue, resumes>>
        /\ UNCHANGED stdin \/ \E t \in Nat : Write(t, v)
    <3>1. op' = m /\ op' # "new"
      BY <1>4 DEF Enter, Methods, Starting, Running, Snapshot
    <3>2. token + 1 \in Nat
      BY <1>1, TokenAssumption DEF TypeOK, ClientTypeOK
    <3>3. UNCHANGED stdin \/ Write(token + 1, v)
      BY <1>4 DEF Enter, SendMi
    <3>4. UNCHANGED <<stdout, async_queue, resumes>>
      BY <1>4 DEF Enter, SendMi, target
    <3>. QED
      BY <3>1, <3>2, <3>3, <3>4
  <2>2. CASE UNCHANGED stdin
    BY <1>3, <2>1, <2>2
  <2>3. ASSUME NEW t \in Nat, Write(t, v) PROVE ConnectsFirst'
    <3>1. /\ \A i \in 1..Len(stdin') : i \in 1..Len(stdin) \/ i = Len(stdin) + 1
          /\ \A i \in 1..Len(stdin) : stdin'[i] = stdin[i]
          /\ stdin'[Len(stdin) + 1].verb = v /\ stdin'[Len(stdin) + 1].id = Len(sent) + 1
      BY <1>1, <2>3, WriteVerbs
    <3>2. op = "new" => Len(sent) + 1 = 1
      BY <1>2
    <3>3. \A i \in 1..Len(stdin') : stdin'[i].verb = "select" => stdin'[i].id = 1
      BY <1>2, <1>4, <3>1, <3>2
    <3>4. Connecting' => Connecting
      BY <1>4, <2>1, <3>1 DEF Connecting
    <3>. QED
      BY <1>2, <2>1, <3>3, <3>4 DEF ConnectsFirst, NoStops
  <2>. QED
    BY <2>1, <2>2, <2>3
<1>5. CASE Method
  <2>1. CASE Start
    BY <1>4, <2>1 DEF Start, Methods, Starting
  <2>2. CASE RunWait
    <3>1. op' # "new" /\ UNCHANGED <<stdin, stdout, resumes>>
      BY <2>2 DEF RunWait, WaitForStopped, pipes, target
    <3>2. NoStops(async_queue) => NoStops(async_queue')
      <4>1. CASE async_queue' = <<>>
        BY <4>1 DEF NoStops
      <4>2. ASSUME NEW i \in 1..Len(async_queue),
                   async_queue' = SubSeq(async_queue, i + 1, Len(async_queue)), NoStops(async_queue)
            PROVE  NoStops(async_queue')
        <5>1. \A j \in 1..Len(async_queue') :
                 j + i \in 1..Len(async_queue) /\ async_queue'[j] = async_queue[j + i]
          BY <1>1, <4>2, Dropped
        <5>. QED
          BY <4>2, <5>1 DEF NoStops
      <4>. QED
        BY <2>2, <4>1, <4>2 DEF RunWait, WaitForStopped
    <3>3. Connecting' => Connecting
      BY <3>1 DEF Connecting
    <3>. QED
      BY <1>2, <3>1, <3>2, <3>3 DEF ConnectsFirst, NoStops
  <2>3. CASE SnapEnds
    BY <1>3, <2>3 DEF SnapEnds, Finish, vars, pipes, target
  <2>4. {"start_reset", "halt", "resume", "reset", "reset_go", "mon_reset", "mon_halt", "disasm",
         "read", "snap_regs", "snap_rest", "set_bp", "del_bp", "run", "run_stop"} \subseteq Methods
    BY DEF Methods, Starting, Running, Snapshot
  <2>. QED
    BY <1>4, <1>5, <2>1, <2>2, <2>3, <2>4
       DEF Method, StartMonitorReset, Halt, HaltVerb, Resume, Reset, ResetResume,
           SendMonitor, Read, ReadMore, TakeSnapshot, SnapNext, SetBreakpoint,
           RemoveBreakpoint, RunUntilBreakpoint, RunInterrupt
<1>6. CASE Continuation
  <2>1. UNCHANGED <<stdin, stdout, async_queue, resumes>>
    BY <1>6, BackFacts
       DEF Continuation, Connected, StartReset, Started, StartFails, HaltDone, ResumeDone,
           ResetDone, ResetGoDone, MonitorDone, ReadDone, SnapRegisters, SnapLeg,
           SetDone, RemoveDone, RunStarted, RunStopped, RunNoStop, RunTimedOut, Fail,
           Return, pipes, target
  <2>2. op' # "new"
    BY <1>6
       DEF Continuation, Connected, StartReset, Started, StartFails, HaltDone, ResumeDone,
           ResetDone, ResetGoDone, MonitorDone, ReadDone, SnapRegisters, SnapLeg,
           SetDone, RemoveDone, RunStarted, RunStopped, RunNoStop, RunTimedOut, Fail, Finish
  <2>. QED
    BY <1>3, <2>1, <2>2
<1>7. CASE Close
  BY <1>3, <1>7 DEF Close, vars, pipes, target
<1>8. CASE ClientStep /\ UNCHANGED session
  <2>1. op # "new" /\ op' = op
    BY <1>8 DEF session, CallsOfMethods, Between, ClientStep, ClientRead, ReadAnswer, ReadOther,
       ReadEof, WaitRead, TimeOut, WaitTimeOut
  <2>2. CASE ReadAnswer \/ ReadOther \/ WaitRead
    <3>1. /\ stdout # <<>> /\ stdout' = Tail(stdout) /\ UNCHANGED <<stdin, resumes>>
          /\ UNCHANGED async_queue \/ Classify(Head(stdout))
      BY <2>2 DEF ReadAnswer, ReadOther, WaitRead, target
    <3>2. NoStops(stdout) => NoStops(stdout') /\ Head(stdout).class \notin Stops
      BY <1>1, <3>1, ReadFacts DEF NoStops
    <3>3. NoStops(stdout) /\ NoStops(async_queue) => NoStops(async_queue')
      <4>1. CASE Classify(Head(stdout))
        <5>1. Head(stdout) \in Line
          BY <1>1, <3>1, ReadFacts
        <5>2. \A i \in 1..Len(async_queue') :
                 \/ i \in 1..Len(async_queue) /\ async_queue'[i] = async_queue[i]
                 \/ async_queue'[i] = Head(stdout)
          BY <1>1, <4>1, <5>1, ClassifyFacts
        <5>. QED
          BY <3>2, <5>2 DEF NoStops
      <4>. QED
        BY <3>1, <4>1 DEF NoStops
    <3>4. Connecting' => Connecting
      BY <2>1, <3>1 DEF Connecting
    <3>. QED
      BY <1>2, <2>1, <3>1, <3>2, <3>3, <3>4 DEF ConnectsFirst, NoStops
  <2>3. CASE TimeOut
    <3>1. UNCHANGED <<stdout, async_queue, resumes>>
      BY <2>3 DEF TimeOut, target
    <3>2. UNCHANGED stdin \/ Write(InterruptToken, "interrupt")
      BY <2>3 DEF TimeOut, InterruptSilently
    <3>3. CASE Write(InterruptToken, "interrupt")
      <4>1. /\ \A i \in 1..Len(stdin') : i \in 1..Len(stdin) \/ i = Len(stdin) + 1
            /\ \A i \in 1..Len(stdin) : stdin'[i] = stdin[i]
            /\ stdin'[Len(stdin) + 1].verb = "interrupt"
        BY <1>1, <3>3, WriteVerbs
      <4>2. \A i \in 1..Len(stdin') : stdin'[i].verb = "select" =>
               i \in 1..Len(stdin) /\ stdin[i].verb = "select" /\ stdin'[i] = stdin[i]
        BY <4>1
      <4>3. Connecting' => Connecting
        BY <2>1, <4>2 DEF Connecting
      <4>. QED
        BY <1>2, <2>1, <3>1, <4>2, <4>3 DEF ConnectsFirst, NoStops
    <3>. QED
      BY <1>3, <2>1, <3>1, <3>2, <3>3
  <2>4. CASE ReadEof \/ WaitTimeOut
    BY <1>3, <2>1, <2>4 DEF ReadEof, WaitTimeOut, pipes, target
  <2>. QED
    BY <1>8, <2>2, <2>3, <2>4 DEF ClientStep, ClientRead
<1>9. CASE Environment /\ UNCHANGED session
  <2>0. op' = op
    BY <1>9 DEF session
  <2>1. CASE GdbExecute
    <3>1. /\ stdin # <<>> /\ stdin' = Tail(stdin) /\ UNCHANGED <<sent, async_queue>>
      BY <1>1, <2>1, ExecuteFacts
    <3>2. \A i \in 1..Len(stdin') : stdin'[i].verb # "select"
      BY <3>1, SelectIsOnly
    <3>3. op # "new"
      <4>1. 1 \in 1..Len(stdin) /\ stdin[1].id <= Len(sent) /\ 0 < stdin[1].id
        BY <1>1, <3>1, Popped, OrderTypes DEF ClientInv, Ordered, PipesOrdered, StdinOrdered
      <4>2. Len(sent) # 0
        BY <1>1, <4>1, OrderTypes
      <4>. QED
        BY <1>2, <4>2
    <3>. QED
      BY <2>0, <3>2, <3>3 DEF ConnectsFirst, Connecting
  <2>2. CASE GdbStop
    <3>1. resumes > 0 /\ UNCHANGED <<stdin, sent>>
      BY <1>1, <2>2, StopFacts DEF StopsPast
    <3>2. ~Connecting
      BY <1>1, <1>2, <3>1
    <3>. QED
      BY <1>2, <2>0, <3>1, <3>2 DEF ConnectsFirst, Connecting
  <2>3. CASE GdbClose
    <3>1. /\ UNCHANGED <<stdin, sent, async_queue, resumes>>
      BY <1>1, <2>3, CloseFacts DEF target
    <3>2. NoStops(stdout) => NoStops(stdout')
      <4>1. \A i \in 1..Len(stdout') : i \in 1..Len(stdout) \/ i > Len(stdout)
        BY <1>1, <2>3, CloseFacts
      <4>. QED
        BY <1>1, <2>3, <4>1, CloseFacts DEF NoStops, Stops
    <3>. QED
      BY <1>2, <2>0, <3>1, <3>2 DEF ConnectsFirst, Connecting, NoStops
  <2>4. CASE GdbExit
    BY <1>2, <2>0, <2>4 DEF GdbExit, pipes, target, ConnectsFirst, Connecting, NoStops
  <2>. QED
    BY <1>9, <2>1, <2>2, <2>3, <2>4 DEF Environment
<1>10. CASE UNCHANGED allvars
  BY <1>2, <1>10 DEF allvars, vars, pipes, target, session, ConnectsFirst, Connecting, NoStops
<1>. QED
  BY <1>5, <1>6, <1>7, <1>8, <1>9, <1>10 DEF SessionNext

\* A line that is read leaves the pipe, for the queue if it is a record.
LEMMA OrderRead ==
    ASSUME ClientInv, StopsInOrder, stdout # <<>>, stdout' = Tail(stdout),
           UNCHANGED async_queue \/ Classify(Head(stdout)),
           call'.pc = "waiting" => call.pc = "waiting" /\ Head(stdout).class \notin Stops
    PROVE  StopsInOrder'
<1>1. /\ TypeOK /\ Rising(async_queue) /\ Rising(stdout) /\ InOrder(async_queue, stdout)
      /\ call.pc = "waiting" => NoStops(async_queue)
  BY DEF StopsInOrder, ClientInv
<1>2. /\ Len(stdout) \in Nat \ {0} /\ 1 \in 1..Len(stdout) /\ Head(stdout) = stdout[1]
      /\ Head(stdout) \in Line /\ Len(stdout') = Len(stdout) - 1
      /\ \A i \in 1..Len(stdout') : i + 1 \in 1..Len(stdout) /\ stdout'[i] = stdout[i + 1]
  BY <1>1, ReadFacts
<1>3. Rising(stdout')
  <2> SUFFICES ASSUME NEW i \in 1..Len(stdout'), NEW j \in 1..Len(stdout'), i < j,
                      stdout'[i].class \in Stops, stdout'[j].class \in Stops
               PROVE  stdout'[i].of < stdout'[j].of
    BY DEF Rising
  <2>1. i + 1 \in 1..Len(stdout) /\ j + 1 \in 1..Len(stdout) /\ i + 1 < j + 1
    BY <1>2
  <2>. QED
    BY <1>1, <1>2, <2>1 DEF Rising
<1>4. \A j \in 1..Len(stdout') : stdout'[j].class \in Stops /\ Head(stdout).class \in Stops =>
         Head(stdout).of < stdout'[j].of
  <2> SUFFICES ASSUME NEW j \in 1..Len(stdout'), stdout'[j].class \in Stops,
                      Head(stdout).class \in Stops
               PROVE  Head(stdout).of < stdout'[j].of
    OBVIOUS
  <2>1. j + 1 \in 1..Len(stdout) /\ 1 < j + 1
    BY <1>2
  <2>. QED
    BY <1>1, <1>2, <2>1 DEF Rising
<1>5. InOrder(async_queue, stdout')
  BY <1>1, <1>2 DEF InOrder
<1>6. CASE UNCHANGED async_queue
  BY <1>1, <1>3, <1>5, <1>6 DEF StopsInOrder
<1>7. CASE Classify(Head(stdout))
  <2>1. /\ Len(async_queue) \in Nat /\ Len(async_queue') \in Nat
        /\ \A i \in 1..Len(async_queue) : async_queue'[i] = async_queue[i]
        /\ \A i \in 1..Len(async_queue') : i > Len(async_queue) => async_queue'[i] = Head(stdout)
        /\ Head(stdout).class \in Stops => Len(async_queue') = Len(async_queue) + 1
    BY <1>1, <1>2, <1>7, ClassifyFacts
  <2>2. \A i \in 1..Len(async_queue') : i \in 1..Len(async_queue) \/ i > Len(async_queue)
    BY <2>1
  <2>3. \A i \in 1..Len(async_queue) : async_queue[i].class \in Stops /\ Head(stdout).class \in Stops =>
           async_queue[i].of < Head(stdout).of
    BY <1>1, <1>2 DEF InOrder
  <2>4. Rising(async_queue')
    <3> SUFFICES ASSUME NEW i \in 1..Len(async_queue'), NEW j \in 1..Len(async_queue'), i < j,
                        async_queue'[i].class \in Stops, async_queue'[j].class \in Stops
                 PROVE  async_queue'[i].of < async_queue'[j].of
      BY DEF Rising
    <3>1. CASE j \in 1..Len(async_queue)
      <4>1. i \in 1..Len(async_queue)
        BY <2>1, <3>1
      <4>. QED
        BY <1>1, <2>1, <3>1, <4>1 DEF Rising
    <3>2. CASE j > Len(async_queue)
      <4>1. async_queue'[j] = Head(stdout) /\ Len(async_queue') = Len(async_queue) + 1
        BY <2>1, <3>2
      <4>2. i \in 1..Len(async_queue)
        BY <2>1, <4>1
      <4>. QED
        BY <2>1, <2>3, <4>1, <4>2
    <3>. QED
      BY <2>2, <3>1, <3>2
  <2>5. InOrder(async_queue', stdout')
    <3> SUFFICES ASSUME NEW i \in 1..Len(async_queue'), NEW j \in 1..Len(stdout'),
                        async_queue'[i].class \in Stops, stdout'[j].class \in Stops
                 PROVE  async_queue'[i].of < stdout'[j].of
      BY DEF InOrder
    <3>1. CASE i \in 1..Len(async_queue)
      BY <1>5, <2>1, <3>1 DEF InOrder
    <3>2. CASE i > Len(async_queue)
      BY <1>4, <2>1, <3>2
    <3>. QED
      BY <2>2, <3>1, <3>2
  <2>6. call'.pc = "waiting" => NoStops(async_queue')
    BY <1>1, <2>1, <2>2 DEF NoStops
  <2>. QED
    BY <1>3, <2>4, <2>5, <2>6 DEF StopsInOrder
<1>. QED
  BY <1>6, <1>7

\* Lines are written: the stop among them, if there is one, is the latest.
LEMMA OrderWritten ==
    ASSUME ClientInv, StopsInOrder, UNCHANGED <<async_queue, call>>,
           Len(stdout') \in Nat, Len(stdout) <= Len(stdout'),
           \A i \in 1..Len(stdout) : stdout'[i] = stdout[i],
           \A i, j \in 1..Len(stdout') : Len(stdout) < i /\ i < j =>
               stdout'[i].class \notin Stops \/ stdout'[j].class \notin Stops,
           \A i \in 1..Len(stdout') : Len(stdout) < i /\ stdout'[i].class \in Stops =>
               /\ \A j \in 1..Len(stdout) : stdout[j].class \in Stops =>
                     stdout[j].of < stdout'[i].of
               /\ \A j \in 1..Len(async_queue) : async_queue[j].class \in Stops =>
                     async_queue[j].of < stdout'[i].of
    PROVE  StopsInOrder'
<1>1. /\ Rising(async_queue) /\ Rising(stdout) /\ InOrder(async_queue, stdout)
      /\ call.pc = "waiting" => NoStops(async_queue)
      /\ Len(stdout) \in Nat
  BY OrderTypes DEF StopsInOrder, ClientInv
<1>2. \A i \in 1..Len(stdout') : i \in 1..Len(stdout) \/ Len(stdout) < i
  BY <1>1
<1>3. Rising(stdout')
  <2> SUFFICES ASSUME NEW i \in 1..Len(stdout'), NEW j \in 1..Len(stdout'), i < j,
                      stdout'[i].class \in Stops, stdout'[j].class \in Stops
               PROVE  stdout'[i].of < stdout'[j].of
    BY DEF Rising
  <2>1. CASE j \in 1..Len(stdout)
    <3>1. i \in 1..Len(stdout)
      BY <1>1, <2>1
    <3>. QED
      BY <1>1, <2>1, <3>1 DEF Rising
  <2>2. CASE Len(stdout) < j
    <3>1. i \in 1..Len(stdout)
      BY <1>2, <2>2
    <3>. QED
      BY <2>2, <3>1
  <2>. QED
    BY <1>2, <2>1, <2>2
<1>4. InOrder(async_queue, stdout')
  <2> SUFFICES ASSUME NEW i \in 1..Len(async_queue), NEW j \in 1..Len(stdout'),
                      async_queue[i].class \in Stops, stdout'[j].class \in Stops
               PROVE  async_queue[i].of < stdout'[j].of
    BY DEF InOrder
  <2>. QED
    BY <1>1, <1>2 DEF InOrder
<1>. QED
  BY <1>1, <1>3, <1>4 DEF StopsInOrder

LEMMA OrderStep ==
    ASSUME ClientInv, ConnectsFirst, StopsInOrder, [Next]_vars
    PROVE  StopsInOrder'
<1>1. /\ TypeOK /\ StopsPast /\ call \in Calls /\ stdin \in Seq(Command)
      /\ async_queue \in Seq(Line) /\ stdout \in Seq(Line) /\ resumes \in Nat
      /\ Len(async_queue) \in Nat /\ Len(stdout) \in Nat
  BY DEF ClientInv, TypeOK, ClientTypeOK, PipesTypeOK, TargetTypeOK
<1>2. /\ Rising(async_queue) /\ Rising(stdout) /\ InOrder(async_queue, stdout)
      /\ call.pc = "waiting" => NoStops(async_queue)
  BY DEF StopsInOrder
<1>3. ASSUME UNCHANGED <<stdout, async_queue>>, call'.pc = "waiting" => call.pc = "waiting"
      PROVE  StopsInOrder'
  BY <1>2, <1>3 DEF StopsInOrder
<1>4. ASSUME NEW v \in Verbs, SendMi(v) PROVE StopsInOrder'
  BY <1>3, <1>4 DEF SendMi, NoCall
<1>5. CASE WaitForStopped
  <2>1. UNCHANGED stdout
    BY <1>5 DEF WaitForStopped, pipes
  <2>2. CASE async_queue' = <<>>
    BY <1>2, <2>1, <2>2 DEF StopsInOrder, Rising, InOrder, NoStops
  <2>3. ASSUME NEW i \in 1..Len(async_queue), call'.pc # "waiting",
               async_queue' = SubSeq(async_queue, i + 1, Len(async_queue))
        PROVE  StopsInOrder'
    <3>1. \A j \in 1..Len(async_queue') :
             j + i \in 1..Len(async_queue) /\ async_queue'[j] = async_queue[j + i]
      BY <1>1, <2>3, Dropped
    <3>2. Rising(async_queue')
      <4> SUFFICES ASSUME NEW j \in 1..Len(async_queue'), NEW k \in 1..Len(async_queue'), j < k,
                          async_queue'[j].class \in Stops, async_queue'[k].class \in Stops
                   PROVE  async_queue'[j].of < async_queue'[k].of
        BY DEF Rising
      <4>1. j + i \in 1..Len(async_queue) /\ k + i \in 1..Len(async_queue) /\ j + i < k + i
        BY <3>1
      <4>. QED
        BY <1>2, <3>1, <4>1 DEF Rising
    <3>3. InOrder(async_queue', stdout')
      BY <1>2, <2>1, <3>1 DEF InOrder
    <3>. QED
      BY <1>2, <2>1, <2>3, <3>2, <3>3 DEF StopsInOrder
  <2>. QED
    BY <1>5, <2>2, <2>3 DEF WaitForStopped, NoCall
<1>6. CASE ReadAnswer
  <2>1. call'.pc # "waiting"
    BY <1>1, <1>6 DEF ReadAnswer, Answers, Calls, Results
  <2>. QED
    BY <1>6, <2>1, OrderRead DEF ReadAnswer
<1>7. CASE ReadOther
  BY <1>7, OrderRead DEF ReadOther
<1>8. CASE WaitRead
  <2>1. call'.pc = "waiting" => Head(stdout).class \notin Stops
    BY <1>1, <1>8 DEF WaitRead, Calls, IsStop
  <2>. QED
    BY <1>8, <2>1, OrderRead DEF WaitRead
<1>9. CASE ReadEof \/ TimeOut \/ WaitTimeOut \/ Return
  <2>1. call'.pc # "waiting" /\ UNCHANGED <<stdout, async_queue>>
    BY <1>1, <1>9 DEF ReadEof, TimeOut, WaitTimeOut, Return, NoCall, pipes, Calls
  <2>. QED
    BY <1>3, <2>1
<1>10. CASE GdbExecute
  <2>1. /\ UNCHANGED <<call, async_queue>> /\ stdin # <<>> /\ Head(stdin) = stdin[1]
        /\ 1 \in 1..Len(stdin)
        /\ Len(stdout') \in Nat /\ Len(stdout) <= Len(stdout')
        /\ \A i \in 1..Len(stdout) : stdout'[i] = stdout[i]
    BY <1>1, <1>10, ExecuteFacts, Popped
  <2>2. CASE Quietly
    BY <2>1, <2>2, OrderWritten DEF Quietly
  <2>3. CASE /\ Head(stdin).verb = "select" /\ Len(stdout') = Len(stdout) + 2
             /\ stdout'[Len(stdout) + 2].class = "done"
    <3>1. NoStops(async_queue) /\ NoStops(stdout)
      BY <2>1, <2>3 DEF ConnectsFirst, Connecting
    <3>2. \A i, j \in 1..Len(stdout') : Len(stdout) < i /\ i < j => j = Len(stdout) + 2
      BY <1>1, <2>3
    <3>. QED
      BY <2>1, <2>3, <3>1, <3>2, OrderWritten DEF NoStops, Stops
  <2>. QED
    BY <1>1, <1>10, <2>2, <2>3, ExecuteStops
<1>11. CASE GdbStop
  <2>1. /\ UNCHANGED <<call, async_queue>> /\ runs
        /\ Len(stdout') = Len(stdout) + 1
        /\ \A i \in 1..Len(stdout) : stdout'[i] = stdout[i]
        /\ \A i \in 1..Len(stdout') : Len(stdout) < i => stdout'[i].of = resumes
    BY <1>1, <1>11, StopFacts
  <2>2. ASSUME NEW r \in Line, r.class \in Stops, Past(r) PROVE r.of < resumes
    BY <1>1, <2>1, <2>2 DEF StopsPast, Past, PastAt, Line
  <2>3. \A j \in 1..Len(stdout) : stdout[j].class \in Stops => stdout[j].of < resumes
    BY <1>1, <2>2 DEF StopsPast
  <2>4. \A j \in 1..Len(async_queue) : async_queue[j].class \in Stops => async_queue[j].of < resumes
    BY <1>1, <2>2 DEF StopsPast
  <2>5. \A i, j \in 1..Len(stdout') : ~(Len(stdout) < i /\ i < j)
    BY <1>1, <2>1
  <2>. QED
    BY <1>1, <2>1, <2>3, <2>4, <2>5, OrderWritten
<1>12. CASE GdbClose
  <2>1. /\ UNCHANGED <<call, async_queue>> /\ Len(stdout') = Len(stdout) + 1
        /\ \A i \in 1..Len(stdout) : stdout'[i] = stdout[i]
        /\ \A i \in 1..Len(stdout') : Len(stdout) < i => stdout'[i].class \notin Stops
    BY <1>1, <1>12, CloseFacts DEF Stops
  <2>. QED
    BY <1>1, <2>1, OrderWritten
<1>13. CASE GdbExit \/ UNCHANGED vars
  BY <1>3, <1>13 DEF GdbExit, vars, pipes
<1>. QED
  BY <1>4, <1>5, <1>6, <1>7, <1>8, <1>9, <1>10, <1>11, <1>12, <1>13
     DEF Next, ClientStep, ClientRead, Environment

\* Whatever becomes of a command gdb executes, it writes one result of it.
LEMMA ExecuteResults ==
    ASSUME TypeOK, GdbExecute
    PROVE  \E i \in 1..Len(stdout') : /\ i > Len(stdout)
                                      /\ stdout'[i].class \in Results
                                      /\ stdout'[i].of = Head(stdin).id
<1> DEFINE c == Head(stdin)
           Shown == \E i \in 1..Len(stdout') : /\ i > Len(stdout)
                                               /\ stdout'[i].class \in Results
                                               /\ stdout'[i].of = c.id
<1>1. /\ c \in Command /\ resumes \in Nat /\ stdout \in Seq(Line) /\ Len(stdout) \in Nat
  BY TailInSeq DEF GdbExecute, TypeOK, PipesTypeOK, TargetTypeOK
<1>2. /\ Result(c, "done") \in Line /\ Result(c, "error") \in Line
      /\ Text(c) \in Line /\ Stop("connect", 0) \in Line
      /\ Record("running", 0, resumes + 1) \in Line
  BY <1>1, RecordType DEF Result, Text, Stop, Command, Classes, Results, Async, Stops
<1>3. \A said \in Results : Result(c, said).class = said /\ Result(c, said).of = c.id
  BY DEF Result, Record
<1>4. ASSUME NEW a \in Line, Emit(<<a>>)
      PROVE  Len(stdout') = Len(stdout) + 1 /\ stdout'[Len(stdout) + 1] = a
  BY <1>1, <1>4, PushedOne DEF Emit
<1>5. ASSUME NEW a \in Line, NEW b \in Line, Emit(<<a, b>>)
      PROVE  /\ Len(stdout') = Len(stdout) + 2
             /\ stdout'[Len(stdout) + 1] = a /\ stdout'[Len(stdout) + 2] = b
  BY <1>1, <1>5, PushedTwo DEF Emit
<1>6. ASSUME NEW said \in Results,
             \/ Len(stdout') = Len(stdout) + 1 /\ stdout'[Len(stdout) + 1] = Result(c, said)
             \/ Len(stdout') = Len(stdout) + 2 /\ stdout'[Len(stdout) + 1] = Result(c, said)
             \/ Len(stdout') = Len(stdout) + 2 /\ stdout'[Len(stdout) + 2] = Result(c, said)
      PROVE  Shown
  <2>1. PICK i \in {Len(stdout) + 1, Len(stdout) + 2} :
           i \in 1..Len(stdout') /\ stdout'[i] = Result(c, said)
    BY <1>1, <1>6
  <2>2. i > Len(stdout)
    BY <1>1, <2>1
  <2>. QED
    BY <1>3, <2>1, <2>2
<1>7. "done" \in Results /\ "error" \in Results
  BY DEF Results
<1>. HIDE DEF c, Shown
<1>8. ASSUME GdbData(c) \/ GdbBreakpoint(c) \/ GdbInterrupt(c) PROVE Shown
  BY <1>8, <1>2, <1>4, <1>6, <1>7 DEF GdbData, GdbBreakpoint, GdbInterrupt
<1>9. ASSUME GdbRefuse(c) \/ GdbContinue(c) \/ GdbConsole(c) PROVE Shown
  BY <1>9, <1>2, <1>4, <1>5, <1>6, <1>7 DEF GdbRefuse, GdbContinue, GdbConsole
<1>10. ASSUME GdbSelect(c) PROVE Shown
  BY <1>10, <1>2, <1>4, <1>5, <1>6, <1>7 DEF GdbSelect
<1>11. Shown
  BY <1>8, <1>9, <1>10 DEF GdbExecute, c
<1>. QED
  BY <1>11 DEF Shown, c

\* The command of a call that reads is owed until its result is written.
LEMMA OwedStep ==
    ASSUME ClientInv, ClientInv', CallIsOwed, [Next]_vars
    PROVE  CallIsOwed'
<1>1. /\ TypeOK /\ call \in Calls /\ stdin \in Seq(Command) /\ EofLast /\ CallIsLast
      /\ sent \in Seq(Nat) /\ Len(stdin) \in Nat /\ Len(stdout) \in Nat
  BY OrderTypes DEF ClientInv, TypeOK, ClientTypeOK, PipesTypeOK
<1>2. CASE call'.pc # "reading" \/ life' # "up"
  BY <1>2 DEF CallIsOwed
<1>3. ASSUME UNCHANGED <<call, stdin, life>>, Len(stdout') \in Nat, Len(stdout) <= Len(stdout'),
             \A i \in 1..Len(stdout) : stdout'[i] = stdout[i]
      PROVE  CallIsOwed'
  <2>1. \A i \in 1..Len(stdout) : i \in 1..Len(stdout') /\ (ResultOfCall(i) => ResultOfCall(i)')
    BY <1>1, <1>3 DEF ResultOfCall
  <2>. QED
    BY <1>3, <2>1 DEF CallIsOwed
<1>4. ASSUME NEW v \in Verbs, SendMi(v) PROVE CallIsOwed'
  <2>1. CASE Write(token + 1, v) /\ call'.id = Len(sent) + 1
    <3>1. Len(stdin') = Len(stdin) + 1 /\ stdin'[Len(stdin) + 1].id = Len(sent) + 1
      BY <1>1, <2>1, WriteVerbs
    <3>2. stdin' # <<>>
      BY <1>1, <3>1
    <3>. QED
      BY <2>1, <3>1, <3>2 DEF CallIsOwed
  <2>2. call'.pc = "reading" => Write(token + 1, v) /\ call'.id = Len(sent) + 1
    BY <1>4 DEF SendMi, NoCall
  <2>. QED
    BY <1>2, <2>1, <2>2
<1>5. CASE ReadOther
  <2>1. /\ stdout # <<>> /\ stdout' = Tail(stdout) /\ UNCHANGED <<call, stdin, life>>
        /\ ~Answers(Head(stdout)) /\ call.pc = "reading"
    BY <1>5 DEF ReadOther
  <2>2. /\ 1 \in 1..Len(stdout) /\ Head(stdout) = stdout[1] /\ Len(stdout') = Len(stdout) - 1
        /\ \A i \in 1..Len(stdout') : stdout'[i] = stdout[i + 1]
    BY <1>1, <2>1, ReadFacts
  <2>3. ~ResultOfCall(1)
    BY <2>1, <2>2, ResultIsTaken
  <2>4. ASSUME NEW i \in 1..Len(stdout), ResultOfCall(i)
        PROVE  \E j \in 1..Len(stdout') : ResultOfCall(j)'
    <3>1. i - 1 \in 1..Len(stdout') /\ (i - 1) + 1 = i
      BY <1>1, <2>2, <2>3, <2>4
    <3>2. stdout'[i - 1] = stdout[i]
      BY <2>2, <3>1
    <3>. QED
      BY <2>1, <2>4, <3>1, <3>2 DEF ResultOfCall
  <2>. QED
    BY <2>1, <2>4 DEF CallIsOwed
<1>6. CASE GdbExecute
  <2> SUFFICES ASSUME call.pc = "reading", life = "up", ~ \E i \in 1..Len(stdout') : ResultOfCall(i)'
               PROVE  stdin' # <<>> /\ stdin'[Len(stdin')].id = call.id
    BY <1>6, ExecuteFacts, <1>1 DEF CallIsOwed
  <2>1. /\ UNCHANGED call /\ stdin # <<>> /\ stdin' = Tail(stdin)
        /\ Len(stdout') \in Nat /\ Len(stdout) <= Len(stdout')
        /\ \A i \in 1..Len(stdout) : stdout'[i] = stdout[i]
    BY <1>1, <1>6, ExecuteFacts
  <2>2. ~ \E i \in 1..Len(stdout) : ResultOfCall(i)
    BY <1>1, <2>1 DEF ResultOfCall
  <2>3. stdin[Len(stdin)].id = call.id
    BY <2>2 DEF CallIsOwed
  <2>4. /\ Len(stdin') = Len(stdin) - 1 /\ Len(stdin) \in Nat \ {0}
        /\ \A i \in 1..Len(stdin') : stdin'[i] = stdin[i + 1] /\ stdin' \in Seq(Command)
    BY <1>1, <2>1, Popped
  <2>5. Len(stdin) # 1
    <3> SUFFICES ASSUME Len(stdin) = 1 PROVE FALSE
      OBVIOUS
    <3>1. Head(stdin).id = call.id
      BY <1>1, <2>1, <2>3, Popped
    <3>2. \E i \in 1..Len(stdout') : stdout'[i].class \in Results /\ stdout'[i].of = Head(stdin).id
      BY <1>1, <1>6, ExecuteResults
    <3>. QED
      BY <2>1, <3>1, <3>2 DEF ResultOfCall
  <2>6. Len(stdin') \in 1..Len(stdin') /\ Len(stdin') + 1 = Len(stdin)
    BY <2>4, <2>5
  <2>7. stdin' # <<>>
    BY <2>4, <2>6
  <2>. QED
    BY <2>3, <2>4, <2>6, <2>7
<1>7. CASE GdbStop
  BY <1>1, <1>3, <1>7, StopFacts
<1>8. CASE GdbClose \/ GdbExit
  BY <1>2, <1>8 DEF GdbClose, GdbExit
<1>9. CASE TimeOut \/ ReadEof \/ WaitTimeOut \/ Return
  <2>1. call'.pc # "reading"
    BY <1>1, <1>9 DEF TimeOut, ReadEof, WaitTimeOut, Return, NoCall, Calls
  <2>. QED
    BY <1>2, <2>1
<1>13. CASE WaitForStopped
  <2>1. call'.pc # "reading"
    BY <1>13 DEF WaitForStopped, NoCall
  <2>. QED
    BY <1>2, <2>1
<1>11. CASE ReadAnswer
  <2>1. call'.pc # "reading"
    BY <1>1, <1>11 DEF ReadAnswer, Calls, Answers, Results
  <2>. QED
    BY <1>2, <2>1
<1>12. CASE WaitRead
  <2>1. call'.pc # "reading"
    BY <1>1, <1>12 DEF WaitRead, Calls
  <2>. QED
    BY <1>2, <2>1
<1>10. CASE UNCHANGED vars
  BY <1>1, <1>3, <1>10 DEF vars, pipes
<1>. QED
  BY <1>4, <1>5, <1>6, <1>7, <1>8, <1>9, <1>10, <1>11, <1>12, <1>13
     DEF Next, ClientStep, ClientRead, Environment

LEMMA RemoteAlways ==
    SessionSpec => [](ClientInv /\ SessionTypeOK /\ SessionInv /\ RemoteInv)
<1> DEFINE Known == ClientInv /\ SessionTypeOK /\ SessionInv
<1>1. SessionInit => RemoteInv
  <2> SUFFICES ASSUME SessionInit PROVE RemoteInv
    OBVIOUS
  <2>1. /\ op = "new" /\ sent = <<>> /\ stdin = <<>> /\ stdout = <<>> /\ async_queue = <<>>
        /\ resumes = 0 /\ call.pc = "idle"
    BY DEF SessionInit, Init, NoCall
  <2>. QED
    BY <2>1 DEF RemoteInv, ConnectsFirst, StopsInOrder, CallIsOwed, NoStops, Rising, InOrder
<1>2. [SessionNext]_allvars => [Next]_vars
  BY SessionStepIsClients
<1>3. Known /\ Known' /\ RemoteInv /\ [SessionNext]_allvars => RemoteInv'
  BY <1>2, ConnectsStep, OrderStep, OwedStep DEF SessionInv, RemoteInv
<1>. QED
  BY SessionAlways, <1>1, <1>3, PTL DEF SessionSpec

-----------------------------------------------------------------------------
(* Every step of the client is a step of the remote target.                *)

LEMMA VerdictOnlyReading == call.pc # "reading" => Verdict = "none"
BY DEF Verdict, Verdicts

LEMMA VerdictOnlyReadingThen == call'.pc # "reading" => Verdict' = "none"
BY DEF Verdict, Verdicts

\* A call that neither ends nor begins, while nothing else is seen to happen.
RemoteStep == [Remote!Next]_(Remote!vars)

LEMMA NothingSeen ==
    ASSUME UNCHANGED <<call.pc, stdin, target>>, Verdict' = Verdict, Untold' = Untold,
           (life = "up") = (life' = "up")
    PROVE  RemoteStep
<1>1. Owed' = Owed
  BY DEF Owed
<1>. QED
  BY <1>1 DEF RemoteStep, Remote!vars, Remote!caller, Remote!target, target

LEMMA AskRefines ==
    ASSUME ClientInv, ClientInv', NEW v \in Verbs, SendMi(v)
    PROVE  RemoteStep
<1>1. /\ TypeOK /\ call.pc = "idle" /\ UNCHANGED <<async_queue, stdout, life, target>>
  BY DEF SendMi, ClientInv
<1>2. /\ Verdict = "none" /\ Untold' = Untold
  BY <1>1, VerdictOnlyReading DEF Untold, target
<1>3. CASE call'.pc = "lost" /\ life # "up" /\ UNCHANGED stdin
  <2>1. Verdict' = "none" /\ Owed' = Owed
    BY <1>3, VerdictOnlyReadingThen DEF Owed
  <2>. QED
    BY <1>1, <1>2, <1>3, <2>1 DEF RemoteStep, Remote!Next, Remote!Lose, Remote!target, target
<1>4. CASE call'.pc = "reading" /\ call'.id = Len(sent) + 1 /\ Write(token + 1, v)
  <2>1. token + 1 \in Nat
    BY <1>1, TokenAssumption DEF TypeOK, ClientTypeOK
  <2>2. Owed' = Append(Owed, v)
    BY <1>1, <1>4, <2>1, OwedWritten
  <2>3. \A i \in 1..Len(stdout') : ~ResultOfCall(i)'
    BY <1>1, <1>4, NoResultYet DEF ResultOfCall
  <2>4. Verdict' = "none"
    BY <2>3 DEF Verdict, Verdicts, ResultOfCall
  <2>5. Remote!Ask(v)
    BY <1>1, <1>2, <1>4, <2>2, <2>4 DEF Remote!Ask, Remote!target, target
  <2>6. v \in {"select", "data", "insert", "delete", "continue", "interrupt", "reset", "halt", "other"}
    BY DEF Verbs, Console
  <2>. QED
    BY <2>5, <2>6 DEF RemoteStep, Remote!Next
<1>. QED
  BY <1>3, <1>4 DEF SendMi, NoCall

\* A stop is told: it was the oldest.
LEMMA ToldIsOldest ==
    ASSUME ClientInv, ClientInv', NEW n, StopIn(async_queue, n) \/ StopIn(stdout, n),
           \A k : StopIn(async_queue, k)' \/ StopIn(stdout, k)'
                  <=> k # n /\ (StopIn(async_queue, k) \/ StopIn(stdout, k)),
           \A k : StopIn(async_queue, k) \/ StopIn(stdout, k) => n <= k
    PROVE  \E m \in Untold : Untold' = Untold \ {m} /\ \A k \in Untold : m <= k
<1>1. \A k : k \in Untold' <=> StopIn(async_queue, k)' \/ StopIn(stdout, k)'
  BY UntoldNext DEF UntoldAre
<1>2. \A k : k \in Untold <=> StopIn(async_queue, k) \/ StopIn(stdout, k)
  BY UntoldNow DEF UntoldAre
<1>3. Untold' = Untold \ {n}
  BY <1>1, <1>2
<1>. QED
  BY <1>2, <1>3

LEMMA TellRefines ==
    ASSUME UNCHANGED <<stdin, life, target>>, call.pc \in {"idle", "waiting"},
           call'.pc = "stopped",
           \E m \in Untold : Untold' = Untold \ {m} /\ \A k \in Untold : m <= k
    PROVE  RemoteStep
<1>1. Verdict = "none" /\ Verdict' = "none" /\ Owed' = Owed
  BY VerdictOnlyReading, VerdictOnlyReadingThen DEF Owed
<1>. QED
  BY <1>1 DEF RemoteStep, Remote!Next, Remote!Tell, Remote!target, target

LEMMA WaitRefines ==
    ASSUME ClientInv, ClientInv', StopsInOrder, WaitForStopped
    PROVE  RemoteStep
<1>1. /\ call.pc = "idle" /\ UNCHANGED <<stdin, stdout, life, target>>
      /\ async_queue \in Seq(Line) /\ stdout \in Seq(Line) /\ Len(async_queue) \in Nat
  <2>1. call.pc = "idle" /\ UNCHANGED <<stdin, stdout, life, target>>
    BY DEF WaitForStopped, pipes
  <2>2. TypeOK
    BY DEF ClientInv
  <2>3. async_queue \in Seq(Line) /\ stdout \in Seq(Line)
    BY <2>2 DEF TypeOK, ClientTypeOK, PipesTypeOK
  <2>. QED
    BY <2>1, <2>3
<1>2. ASSUME NoStops(async_queue), async_queue' = <<>>, call'.pc = "waiting"
      PROVE  RemoteStep
  <2>1. \A n : ~StopIn(async_queue, n) /\ ~StopIn(async_queue, n)'
               /\ (StopIn(stdout, n)' <=> StopIn(stdout, n))
    BY <1>1, <1>2 DEF StopIn, NoStops
  <2>2. Untold' = Untold
    BY <2>1, UntoldKept
  <2>3. Verdict = "none" /\ Verdict' = "none" /\ Owed' = Owed
    BY <1>1, <1>2, VerdictOnlyReading, VerdictOnlyReadingThen DEF Owed
  <2>. QED
    BY <1>1, <1>2, <2>2, <2>3 DEF RemoteStep, Remote!Next, Remote!Wait, Remote!target, target
<1>3. ASSUME NEW i \in 1..Len(async_queue), async_queue[i].class \in Stops,
             \A j \in 1..Len(async_queue) : async_queue[j].class \in Stops => i <= j,
             async_queue' = SubSeq(async_queue, i + 1, Len(async_queue)),
             call'.pc = "stopped"
      PROVE  RemoteStep
  <2> DEFINE n == async_queue[i].of
  <2>1. Rising(async_queue) /\ InOrder(async_queue, stdout)
    BY DEF StopsInOrder
  <2>2. /\ Len(async_queue') = Len(async_queue) - i
        /\ \A j \in 1..Len(async_queue') :
              j + i \in 1..Len(async_queue) /\ async_queue'[j] = async_queue[j + i]
    BY <1>1, <1>3, Dropped
  <2>3. n \in Nat /\ StopIn(async_queue, n)
    <3>1. async_queue[i] \in Line
      BY <1>1
    <3>. QED
      BY <1>3, <3>1 DEF StopIn, Line
  <2>4. \A j \in 1..Len(async_queue) : i < j /\ async_queue[j].class \in Stops =>
           n < async_queue[j].of
    BY <1>3, <2>1 DEF Rising
  <2>5. \A j \in 1..Len(stdout) : stdout[j].class \in Stops => n < stdout[j].of
    BY <1>3, <2>1 DEF InOrder
  <2>6. ASSUME NEW k, StopIn(async_queue, k) \/ StopIn(stdout, k) PROVE k \in Nat
    <3>1. \A j \in 1..Len(async_queue) : async_queue[j] \in Line
      BY <1>1
    <3>2. \A j \in 1..Len(stdout) : stdout[j] \in Line
      BY <1>1
    <3>. QED
      BY <2>6, <3>1, <3>2 DEF StopIn, Line
  <2>8. ASSUME NEW k, StopIn(async_queue, k)
        PROVE  k = n \/ (n < k /\ StopIn(async_queue', k))
    <3>1. PICK j \in 1..Len(async_queue) : async_queue[j].class \in Stops /\ async_queue[j].of = k
      BY <2>8 DEF StopIn
    <3>2. CASE j = i
      BY <3>1, <3>2
    <3>3. CASE i < j
      <4>1. j - i \in 1..Len(async_queue') /\ (j - i) + i = j
        BY <1>1, <2>2, <3>3
      <4>2. async_queue'[j - i] = async_queue[j]
        BY <2>2, <4>1
      <4>. QED
        BY <2>4, <3>1, <3>3, <4>1, <4>2 DEF StopIn
    <3>. QED
      BY <1>3, <3>1, <3>2, <3>3
  <2>9. ASSUME NEW k, StopIn(async_queue', k) PROVE n < k /\ StopIn(async_queue, k)
    <3>1. PICK j \in 1..Len(async_queue') : async_queue'[j].class \in Stops /\ async_queue'[j].of = k
      BY <2>9 DEF StopIn
    <3>2. j + i \in 1..Len(async_queue) /\ async_queue'[j] = async_queue[j + i] /\ i < j + i
      BY <2>2
    <3>. QED
      BY <2>4, <3>1, <3>2 DEF StopIn
  <2>10. ASSUME NEW k, StopIn(stdout, k) PROVE n < k /\ StopIn(stdout', k)
    BY <1>1, <2>5, <2>10 DEF StopIn
  <2>11. ASSUME NEW k, StopIn(stdout', k) PROVE n < k /\ StopIn(stdout, k)
    BY <1>1, <2>5, <2>11 DEF StopIn
  <2>. HIDE DEF n
  <2>12. \A k : StopIn(async_queue, k)' <=> StopIn(async_queue', k)
    BY DEF StopIn
  <2>13. \A k : StopIn(stdout, k)' <=> StopIn(stdout', k)
    BY DEF StopIn
  <2>14. \A k : n < k => k # n
    BY <2>3
  <2>15. \A k : StopIn(async_queue, k) \/ StopIn(stdout, k) => n <= k
    BY <2>3, <2>6, <2>8, <2>10
  <2>17. \A k : StopIn(async_queue, k)' \/ StopIn(stdout, k)'
                <=> k # n /\ (StopIn(async_queue, k) \/ StopIn(stdout, k))
    BY <2>8, <2>9, <2>10, <2>11, <2>12, <2>13, <2>14
  <2>18. \E m \in Untold : Untold' = Untold \ {m} /\ \A k \in Untold : m <= k
    BY <2>3, <2>15, <2>17, ToldIsOldest
  <2>. QED
    BY <1>1, <1>3, <2>18, TellRefines
<1>. QED
  <2>1. CASE {i \in 1..Len(async_queue) : IsStop(async_queue[i])} = {}
    <3>1. NoStops(async_queue)
      BY <2>1 DEF NoStops, IsStop
    <3>. QED
      BY <1>2, <2>1, <3>1 DEF WaitForStopped, NoCall
  <2>2. CASE \E i \in {j \in 1..Len(async_queue) : IsStop(async_queue[j])} :
                /\ \A j \in {k \in 1..Len(async_queue) : IsStop(async_queue[k])} : i <= j
                /\ async_queue' = SubSeq(async_queue, i + 1, Len(async_queue))
                /\ call' = [NoCall EXCEPT !.pc = "stopped", !.answer = async_queue[i]]
    BY <1>3, <2>2 DEF IsStop, NoCall
  <2>. QED
    BY <2>1, <2>2 DEF WaitForStopped

\* The line at the head of the pipe is read: what it says of stops.
LEMMA HeadRead ==
    ASSUME TypeOK, stdout # <<>>, stdout' = Tail(stdout)
    PROVE  /\ Head(stdout) \in Line /\ Head(stdout) = stdout[1] /\ 1 \in 1..Len(stdout)
           /\ \A n : StopIn(stdout, n) <=> \/ Head(stdout).class \in Stops /\ Head(stdout).of = n
                                           \/ StopIn(stdout', n)
<1>1. stdout \in Seq(Line)
  BY DEF TypeOK, PipesTypeOK
<1>. QED
  BY <1>1, StopTaken, ReadFacts

LEMMA ClassifyStops ==
    ASSUME TypeOK, NEW r \in Line, Classify(r)
    PROVE  \A n : StopIn(async_queue', n) <=> \/ StopIn(async_queue, n)
                                              \/ r.class \in Stops /\ r.of = n
<1>1. async_queue \in Seq(Line) /\ Stops \subseteq Async
  BY DEF TypeOK, ClientTypeOK, Async
<1>2. CASE r.class \in Async
  BY <1>1, <1>2, StopAdded DEF Classify
<1>3. CASE r.class \notin Async
  BY <1>1, <1>3 DEF Classify
<1>. QED
  BY <1>2, <1>3

\* A line put aside takes its stop along.
LEMMA PutAside ==
    ASSUME ClientInv, ClientInv', stdout # <<>>, stdout' = Tail(stdout), Classify(Head(stdout))
    PROVE  Untold' = Untold
<1>1. /\ Head(stdout) \in Line
      /\ \A n : StopIn(stdout, n) <=> \/ Head(stdout).class \in Stops /\ Head(stdout).of = n
                                      \/ StopIn(stdout', n)
  BY HeadRead DEF ClientInv
<1>2. \A n : StopIn(async_queue', n) <=> \/ StopIn(async_queue, n)
                                         \/ Head(stdout).class \in Stops /\ Head(stdout).of = n
  BY <1>1, ClassifyStops DEF ClientInv
<1>3. \A n : /\ StopIn(async_queue, n)' <=> StopIn(async_queue', n)
             /\ StopIn(stdout, n)' <=> StopIn(stdout', n)
  BY DEF StopIn
<1>. QED
  BY <1>1, <1>2, <1>3, UntoldKept

LEMMA AnswerRefines ==
    ASSUME ClientInv, ClientInv', ReadAnswer
    PROVE  RemoteStep
<1>1. /\ TypeOK /\ stdout # <<>> /\ stdout' = Tail(stdout)
      /\ UNCHANGED <<async_queue, stdin, life, target>>
  BY DEF ReadAnswer, ClientInv
<1>2. /\ 1 \in 1..Len(stdout) /\ ResultOfCall(1) /\ Head(stdout) = stdout[1]
      /\ call'.pc = stdout[1].class /\ call'.pc \in Results /\ call.pc = "reading"
  BY AnswerOfCall
<1>3. Verdict = call'.pc /\ Verdict # "none" /\ call'.pc # "reading"
  BY <1>2, VerdictIs DEF Results
<1>4. Head(stdout).class \notin Stops
  BY <1>2 DEF Results, Stops
<1>5. \A n : StopIn(stdout, n)' <=> StopIn(stdout, n)
  <2>1. \A n : StopIn(stdout, n)' <=> StopIn(stdout', n)
    BY DEF StopIn
  <2>. QED
    BY <1>1, <1>4, <2>1, HeadRead
<1>6. \A n : StopIn(async_queue, n)' <=> StopIn(async_queue, n)
  BY <1>1 DEF StopIn
<1>7. Untold' = Untold
  BY <1>5, <1>6, UntoldKept
<1>8. Verdict' = "none" /\ Owed' = Owed
  BY <1>1, <1>3, VerdictOnlyReadingThen DEF Owed
<1>. QED
  BY <1>1, <1>2, <1>3, <1>7, <1>8 DEF RemoteStep, Remote!Next, Remote!Answer, Remote!target, target

LEMMA OtherRefines ==
    ASSUME ClientInv, ClientInv', ReadOther
    PROVE  RemoteStep
<1>1. /\ stdout # <<>> /\ stdout' = Tail(stdout) /\ Classify(Head(stdout))
      /\ UNCHANGED <<call, stdin, life, target>> /\ TypeOK
      /\ call.pc = "reading" /\ ~Answers(Head(stdout))
  BY DEF ReadOther, ClientInv
<1>2. ~ResultOfCall(1)
  BY <1>1, HeadRead, ResultIsTaken
<1>3. Verdict' = Verdict
  BY <1>1, <1>2, VerdictRead
<1>4. Untold' = Untold
  BY <1>1, PutAside
<1>. QED
  BY <1>1, <1>3, <1>4, NothingSeen

\* The end of file is reached with no verdict and no stop before it.
LEMMA EofRefines ==
    ASSUME ClientInv, ClientInv', StopsInOrder, ReadEof
    PROVE  RemoteStep
<1>1. /\ TypeOK /\ EofLast /\ call \in Calls /\ call.pc \in {"reading", "waiting"}
      /\ stdout # <<>> /\ Head(stdout).class = "eof"
      /\ call' = [call EXCEPT !.pc = "lost"]
      /\ UNCHANGED <<async_queue, stdin, stdout, life, target>>
  BY DEF ReadEof, ClientInv, TypeOK, ClientTypeOK, pipes
<1>2. 1 \in 1..Len(stdout) /\ Head(stdout) = stdout[1]
  BY <1>1, Popped DEF TypeOK, PipesTypeOK
<1>3. Len(stdout) = 1 /\ life # "up"
  BY <1>1, <1>2 DEF EofLast
<1>4. \A i \in 1..Len(stdout) : stdout[i].class = "eof"
  BY <1>1, <1>2, <1>3
<1>5. Verdict = "none"
  BY <1>4 DEF Verdict, Verdicts, Results
<1>6. call'.pc = "lost"
  BY <1>1 DEF Calls
<1>7. Verdict' = "none" /\ Owed' = Owed /\ Untold' = Untold
  BY <1>1, <1>6, VerdictOnlyReadingThen DEF Owed, Untold, target
<1>8. ASSUME call.pc = "waiting" PROVE Untold = {}
  BY <1>4, <1>8 DEF Untold, StopIn, StopsInOrder, NoStops, Stops
<1>. QED
  BY <1>1, <1>3, <1>5, <1>6, <1>7, <1>8
     DEF RemoteStep, Remote!Next, Remote!Lose, Remote!target, target

LEMMA WaitReadRefines ==
    ASSUME ClientInv, ClientInv', StopsInOrder, WaitRead
    PROVE  RemoteStep
<1>1. /\ TypeOK /\ call \in Calls /\ call.pc = "waiting"
      /\ stdout # <<>> /\ stdout' = Tail(stdout) /\ UNCHANGED <<stdin, life, target>>
  BY DEF WaitRead, ClientInv, TypeOK, ClientTypeOK
<1>2. /\ Head(stdout) \in Line /\ Head(stdout) = stdout[1] /\ 1 \in 1..Len(stdout)
      /\ \A n : StopIn(stdout, n) <=> \/ Head(stdout).class \in Stops /\ Head(stdout).of = n
                                      \/ StopIn(stdout', n)
  BY <1>1, HeadRead
<1>3. CASE ~IsStop(Head(stdout))
  <2>1. Classify(Head(stdout)) /\ UNCHANGED call
    BY <1>3 DEF WaitRead
  <2>2. Untold' = Untold /\ Verdict = "none" /\ Verdict' = "none"
    BY <1>1, <2>1, PutAside, VerdictOnlyReading, VerdictOnlyReadingThen
  <2>. QED
    BY <1>1, <2>1, <2>2, NothingSeen
<1>4. CASE IsStop(Head(stdout))
  <2> DEFINE n == Head(stdout).of
  <2>1. call'.pc = "stopped" /\ UNCHANGED async_queue
    BY <1>1, <1>4 DEF WaitRead, Calls
  <2>2. Rising(stdout) /\ NoStops(async_queue) /\ Head(stdout).class \in Stops
    BY <1>1, <1>4 DEF StopsInOrder, IsStop
  <2>3. \A k : ~StopIn(async_queue, k) /\ ~StopIn(async_queue, k)'
    BY <2>1, <2>2 DEF StopIn, NoStops
  <2>4. ASSUME NEW k, StopIn(stdout', k) PROVE n < k /\ k \in Nat
    <3>1. PICK j \in 1..Len(stdout') : stdout'[j].class \in Stops /\ stdout'[j].of = k
      BY <2>4 DEF StopIn
    <3>2. j + 1 \in 1..Len(stdout) /\ stdout'[j] = stdout[j + 1] /\ 1 < j + 1
      BY <1>1, ReadFacts
    <3>3. stdout[j + 1] \in Line
      BY <1>1, <3>2 DEF TypeOK, PipesTypeOK
    <3>. QED
      BY <1>2, <2>2, <3>1, <3>2, <3>3 DEF Rising, Line
  <2>5. n \in Nat
    BY <1>2 DEF Line
  <2>. HIDE DEF n
  <2>6. \A k : StopIn(stdout, k) <=> k = n \/ StopIn(stdout', k)
    BY <1>2, <2>2 DEF n
  <2>7. \A k : StopIn(stdout, k)' <=> StopIn(stdout', k)
    BY DEF StopIn
  <2>8. \A k : StopIn(async_queue, k) \/ StopIn(stdout, k) => n <= k
    BY <2>3, <2>4, <2>5, <2>6
  <2>9. ~StopIn(stdout', n)
    BY <2>4, <2>5
  <2>10. \A k : StopIn(async_queue, k)' \/ StopIn(stdout, k)'
                <=> k # n /\ (StopIn(async_queue, k) \/ StopIn(stdout, k))
    BY <2>3, <2>6, <2>7, <2>9
  <2>11. \E m \in Untold : Untold' = Untold \ {m} /\ \A k \in Untold : m <= k
    BY <2>6, <2>8, <2>10, ToldIsOldest
  <2>. QED
    BY <1>1, <2>1, <2>11, TellRefines
<1>. QED
  BY <1>3, <1>4

LEMMA TimeOutRefines ==
    ASSUME ClientInv, ClientInv', TimeOut
    PROVE  RemoteStep
<1>1. /\ TypeOK /\ call \in Calls /\ call.pc = "reading"
      /\ call' = [call EXCEPT !.pc = "timeout"]
      /\ UNCHANGED <<async_queue, stdout, life, target>>
  BY DEF TimeOut, ClientInv, TypeOK, ClientTypeOK
<1>2. call'.pc = "timeout"
  BY <1>1 DEF Calls
<1>3. Verdict' = "none" /\ Untold' = Untold
  BY <1>1, <1>2, VerdictOnlyReadingThen DEF Untold, target
<1>4. Owed' \in {Owed, Append(Owed, "interrupt")}
  <2>1. UNCHANGED stdin \/ Write(InterruptToken, "interrupt")
    BY DEF TimeOut, InterruptSilently
  <2>2. UNCHANGED stdin => Owed' = Owed
    BY DEF Owed
  <2>3. "interrupt" \in Verbs
    BY DEF Verbs
  <2>. QED
    BY <1>1, <2>1, <2>2, <2>3, OwedWritten, TokenAssumption
<1>. QED
  BY <1>1, <1>2, <1>3, <1>4 DEF RemoteStep, Remote!Next, Remote!GiveUp, Remote!target, target

LEMMA EndRefines ==
    ASSUME ClientInv, ClientInv', WaitTimeOut \/ Return
    PROVE  RemoteStep
<1>1. /\ call \in Calls /\ UNCHANGED <<async_queue, stdin, stdout, life, target>>
  BY DEF WaitTimeOut, Return, ClientInv, TypeOK, ClientTypeOK, pipes
<1>2. Owed' = Owed /\ Untold' = Untold
  BY <1>1 DEF Owed, Untold, target
<1>3. CASE WaitTimeOut
  <2>1. call.pc = "waiting" /\ call'.pc = "nostop"
    BY <1>1, <1>3 DEF WaitTimeOut, Calls
  <2>2. Verdict = "none" /\ Verdict' = "none"
    BY <2>1, VerdictOnlyReading, VerdictOnlyReadingThen
  <2>. QED
    BY <1>1, <1>2, <2>1, <2>2 DEF RemoteStep, Remote!Next, Remote!NoStop, Remote!target, target
<1>4. CASE Return
  <2>1. call.pc \in {"done", "error", "timeout", "lost", "stopped", "nostop"} /\ call'.pc = "idle"
    BY <1>4 DEF Return, Outcome, NoCall
  <2>2. Verdict = "none" /\ Verdict' = "none"
    BY <2>1, VerdictOnlyReading, VerdictOnlyReadingThen
  <2>. QED
    BY <1>1, <1>2, <2>1, <2>2 DEF RemoteStep, Remote!Next, Remote!Return, Remote!target, target
<1>. QED
  BY <1>3, <1>4

\* Lines are written: the stops under way are the old ones and those among them.
LEMMA StopsWritten ==
    ASSUME Len(stdout) \in Nat, Len(stdout') \in Nat, Len(stdout) <= Len(stdout'),
           \A i \in 1..Len(stdout) : stdout'[i] = stdout[i], UNCHANGED async_queue
    PROVE  \A n : /\ StopIn(async_queue, n)' <=> StopIn(async_queue, n)
                  /\ StopIn(stdout, n)' <=>
                        \/ StopIn(stdout, n)
                        \/ \E i \in 1..Len(stdout') : /\ i > Len(stdout)
                                                      /\ stdout'[i].class \in Stops
                                                      /\ stdout'[i].of = n
<1>1. \A i \in 1..Len(stdout') : i \in 1..Len(stdout) \/ i > Len(stdout)
  OBVIOUS
<1>2. \A i \in 1..Len(stdout) : i \in 1..Len(stdout')
  OBVIOUS
<1>. QED
  BY <1>1, <1>2 DEF StopIn

\* Without a stop among them none is added; with one of number n just that.
LEMMA UntoldQuiet ==
    ASSUME ClientInv, ClientInv', UNCHANGED async_queue, Quietly,
           Len(stdout) <= Len(stdout'), \A i \in 1..Len(stdout) : stdout'[i] = stdout[i]
    PROVE  Untold' = Untold
<1>1. Len(stdout) \in Nat /\ Len(stdout') \in Nat
  BY OrderTypes DEF ClientInv, TypeOK, PipesTypeOK
<1>. QED
  BY <1>1, StopsWritten, UntoldKept DEF Quietly

LEMMA UntoldGrows ==
    ASSUME ClientInv, ClientInv', UNCHANGED async_queue,
           Len(stdout) <= Len(stdout'), \A i \in 1..Len(stdout) : stdout'[i] = stdout[i],
           NEW n, \E i \in 1..Len(stdout') : i > Len(stdout) /\ stdout'[i].class \in Stops,
           \A i \in 1..Len(stdout') : i > Len(stdout) /\ stdout'[i].class \in Stops =>
              stdout'[i].of = n
    PROVE  Untold' = Untold \cup {n}
<1>1. Len(stdout) \in Nat /\ Len(stdout') \in Nat
  BY OrderTypes DEF ClientInv, TypeOK, PipesTypeOK
<1>2. \A k : k \in Untold' <=> StopIn(async_queue, k)' \/ StopIn(stdout, k)'
  BY UntoldNext DEF UntoldAre
<1>3. \A k : k \in Untold <=> StopIn(async_queue, k) \/ StopIn(stdout, k)
  BY UntoldNow DEF UntoldAre
<1>4. \A k : k \in Untold' <=> k \in Untold \/ k = n
  BY <1>1, <1>2, <1>3, StopsWritten
<1>. QED
  BY <1>4

LEMMA StopRefines ==
    ASSUME ClientInv, ClientInv', GdbStop
    PROVE  RemoteStep
<1>1. /\ TypeOK /\ Len(stdout') = Len(stdout) + 1 /\ Len(stdout) \in Nat
      /\ \A i \in 1..Len(stdout) : stdout'[i] = stdout[i]
      /\ \A i \in 1..Len(stdout') : i > Len(stdout) =>
            stdout'[i].class \in Stops /\ stdout'[i].of = resumes
      /\ life = "up" /\ runs /\ ~runs' /\ core' = "halted"
      /\ UNCHANGED <<async_queue, call, stdin, life, inserted, resumes>>
  BY StopFacts DEF ClientInv
<1>2. runs' = FALSE /\ interrupted' = FALSE
  BY DEF GdbStop
<1>3. Len(stdout') \in 1..Len(stdout') /\ Len(stdout') > Len(stdout)
  BY <1>1
<1>4. Untold' = Untold \cup {resumes}
  <2>1. /\ \E i \in 1..Len(stdout') : i > Len(stdout) /\ stdout'[i].class \in Stops
        /\ \A i \in 1..Len(stdout') : i > Len(stdout) /\ stdout'[i].class \in Stops =>
              stdout'[i].of = resumes
    BY <1>1, <1>3
  <2>2. Len(stdout) <= Len(stdout')
    BY <1>1
  <2>. QED
    BY <1>1, <2>1, <2>2, UntoldGrows
<1>5. Verdict' = Verdict
  <2>1. \A i \in 1..Len(stdout') : i > Len(stdout) => ~ResultOfCall(i)'
    BY <1>1 DEF ResultOfCall, Results, Stops
  <2>. QED
    BY <1>1, <2>1, VerdictKept
<1>6. Owed' = Owed
  BY <1>1 DEF Owed
<1>. QED
  BY <1>1, <1>2, <1>4, <1>5, <1>6 DEF RemoteStep, Remote!Next, Remote!Stop, Remote!caller

LEMMA DieRefines ==
    ASSUME ClientInv, ClientInv', GdbClose \/ GdbExit
    PROVE  RemoteStep
<1>1. CASE GdbClose
  <2>1. /\ TypeOK /\ Len(stdout') = Len(stdout) + 1 /\ Len(stdout) \in Nat
        /\ \A i \in 1..Len(stdout) : stdout'[i] = stdout[i]
        /\ \A i \in 1..Len(stdout') : i > Len(stdout) => stdout'[i].class = "eof"
        /\ life = "up" /\ life' = "closing"
        /\ UNCHANGED <<async_queue, call, stdin, target>>
    BY <1>1, CloseFacts DEF ClientInv
  <2>2. Verdict' = Verdict
    <3>1. \A i \in 1..Len(stdout') : i > Len(stdout) => ~ResultOfCall(i)'
      BY <2>1 DEF ResultOfCall, Results
    <3>. QED
      BY <2>1, <3>1, VerdictKept
  <2>3. Untold' = Untold
    BY <2>1, UntoldQuiet DEF Quietly, Stops
  <2>4. Owed' = Owed
    BY <2>1 DEF Owed
  <2>. QED
    BY <2>1, <2>2, <2>3, <2>4 DEF RemoteStep, Remote!Next, Remote!Die, Remote!caller,
       Remote!target, target
<1>2. CASE GdbExit
  <2>1. life # "up" /\ life' # "up" /\ UNCHANGED <<async_queue, call, stdin, stdout, target>>
    BY <1>2 DEF GdbExit, pipes
  <2>2. Verdict' = Verdict /\ Untold' = Untold
    BY <2>1 DEF Verdict, Verdicts, Untold, target
  <2>. QED
    BY <2>1, <2>2, NothingSeen
<1>. QED
  BY <1>1, <1>2

\* The verdict after a command was executed: the call's own if it was the last.
LEMMA VerdictExecuted ==
    ASSUME ClientInv, ClientInv', CallIsOwed, GdbExecute, NEW said \in Results,
           \E i \in 1..Len(stdout') : /\ i > Len(stdout) /\ stdout'[i].class = said
                                      /\ stdout'[i].of = Head(stdin).id
    PROVE  Verdict' = IF call.pc = "reading" /\ Len(stdin) = 1 THEN said ELSE Verdict
<1>1. /\ TypeOK /\ stdin # <<>> /\ stdin' = Tail(stdin) /\ life = "up" /\ UNCHANGED call
      /\ Len(stdout) \in Nat /\ Len(stdout') \in Nat /\ Len(stdout) <= Len(stdout')
      /\ \A i \in 1..Len(stdout) : stdout'[i] = stdout[i]
      /\ \A i \in 1..Len(stdout') : i > Len(stdout) => LineOf(Head(stdin), stdout'[i])
  BY ExecuteFacts DEF ClientInv
<1>2. /\ stdin \in Seq(Command) /\ Head(stdin) = stdin[1] /\ Len(stdin) \in Nat \ {0}
      /\ 1 \in 1..Len(stdin)
  BY <1>1, Popped DEF TypeOK, PipesTypeOK
<1>3. ASSUME call.pc = "reading" PROVE stdin[Len(stdin)].id = call.id
  BY <1>1, <1>3, ResultsOfCall DEF CallIsOwed
<1>4. CASE call.pc = "reading" /\ Len(stdin) = 1
  <2>1. PICK i \in 1..Len(stdout') : stdout'[i].class = said /\ stdout'[i].of = Head(stdin).id
    OBVIOUS
  <2>2. ResultOfCall(i)'
    BY <1>1, <1>2, <1>3, <1>4, <2>1 DEF ResultOfCall
  <2>3. Verdict' = stdout'[i].class
    BY <1>1, <1>4, <2>2, VerdictThen DEF VerdictRight
  <2>. QED
    BY <1>4, <2>1, <2>3
<1>5. CASE ~(call.pc = "reading" /\ Len(stdin) = 1)
  <2>1. ASSUME call.pc = "reading", NEW i \in 1..Len(stdout'), i > Len(stdout)
        PROVE  ~ResultOfCall(i)'
    <3>0. Len(stdin) # 1
      BY <1>5, <2>1
    <3>1. Len(stdin) \in 1..Len(stdin) /\ 1 < Len(stdin)
      <4>1. \A n \in Nat \ {0} : n # 1 => n \in 1..n /\ 1 < n
        OBVIOUS
      <4>. QED
        BY <1>2, <3>0, <4>1
    <3>2. stdin[1].id < stdin[Len(stdin)].id
      BY <1>2, <3>1 DEF ClientInv, Ordered, PipesOrdered, StdinOrdered
    <3>3. stdin[1].id # call.id
      <4>1. stdin[1] \in Command /\ stdin[Len(stdin)] \in Command
        BY <1>2, <3>1
      <4>2. stdin[1].id \in Nat /\ stdin[Len(stdin)].id \in Nat
        BY <4>1 DEF Command
      <4>. QED
        BY <1>3, <2>1, <3>2, <4>2
    <3>. QED
      BY <1>1, <1>2, <2>1, <3>3 DEF ResultOfCall, LineOf
  <2>2. Verdict' = Verdict
    BY <1>1, <2>1, VerdictKept
  <2>. QED
    BY <1>5, <2>2
<1>. QED
  BY <1>4, <1>5

\* A command is executed: it has its effect, or is refused and has none.
LEMMA PerformRefines ==
    ASSUME ClientInv, ClientInv', ConnectsFirst, CallIsOwed, GdbExecute
    PROVE  RemoteStep
<1> DEFINE c == Head(stdin)
<1>1. /\ TypeOK /\ stdin # <<>> /\ stdin' = Tail(stdin) /\ life = "up"
      /\ UNCHANGED <<async_queue, call, life>>
      /\ Len(stdout) \in Nat /\ Len(stdout') \in Nat /\ Len(stdout) <= Len(stdout')
      /\ \A i \in 1..Len(stdout) : stdout'[i] = stdout[i]
  BY ExecuteFacts DEF ClientInv
<1>2. \/ /\ UNCHANGED target
         /\ \A i \in 1..Len(stdout') : i > Len(stdout) => stdout'[i].class # "done"
      \/ /\ Did(c)
         /\ \A i \in 1..Len(stdout') : i > Len(stdout) => stdout'[i].class # "error"
  BY <1>1, ExecuteFacts
<1>3. PICK r \in 1..Len(stdout') : /\ r > Len(stdout) /\ stdout'[r].class \in Results
                                   /\ stdout'[r].of = Head(stdin).id
  BY <1>1, ExecuteResults
<1>4. \/ Quietly
      \/ /\ c.verb = "select" /\ UNCHANGED target
         /\ Len(stdout') = Len(stdout) + 2 /\ stdout'[Len(stdout) + 1].of = 0
         /\ stdout'[Len(stdout) + 2].class = "done"
  BY <1>1, ExecuteStops
<1>5. /\ Owed # <<>> /\ Owed' = Tail(Owed) /\ Head(Owed) = c.verb /\ Len(Owed) = Len(stdin)
  BY <1>1, OwedExecuted
<1>6. ASSUME NEW said \in Results, stdout'[r].class = said
      PROVE  Verdict' = IF call.pc = "reading" /\ Len(Owed) = 1 THEN said ELSE Verdict
  BY <1>3, <1>5, <1>6, VerdictExecuted
<1>7. Quietly => Untold' = Untold
  BY <1>1, UntoldQuiet
<1>8. c.verb \in Verbs
  <2>1. c \in Command
    BY <1>1, Popped DEF TypeOK, PipesTypeOK
  <2>. QED
    BY <2>1 DEF Command
<1>. HIDE DEF c
<1>9. ASSUME NEW said \in {"done", "error"}, stdout'[r].class = said,
             IF said = "done" THEN Remote!Effect(c.verb) ELSE UNCHANGED <<Untold, target>>
      PROVE  RemoteStep
  <2>1. Verdict' = IF call.pc = "reading" /\ Len(Owed) = 1 THEN said ELSE Verdict
    BY <1>6, <1>9 DEF Results
  <2>2. IF said = "done" THEN Remote!Effect(Head(Owed)) ELSE UNCHANGED <<Untold, Remote!target>>
    BY <1>5, <1>9 DEF Remote!target, target
  <2>3. Remote!Perform
    BY <1>1, <1>5, <2>1, <2>2 DEF Remote!Perform
  <2>. QED
    BY <2>3 DEF RemoteStep, Remote!Next
<1>10. CASE /\ UNCHANGED target
            /\ \A i \in 1..Len(stdout') : i > Len(stdout) => stdout'[i].class # "done"
  <2>1. stdout'[r].class = "error"
    BY <1>3, <1>10 DEF Results
  <2>2. Quietly
    <3>1. Len(stdout') = Len(stdout) + 2 =>
             Len(stdout) + 2 \in 1..Len(stdout') /\ Len(stdout) + 2 > Len(stdout)
      BY <1>1
    <3>. QED
      BY <1>4, <1>10, <3>1
  <2>. QED
    BY <1>7, <1>9, <1>10, <2>1, <2>2
<1>11. CASE /\ Did(c)
            /\ \A i \in 1..Len(stdout') : i > Len(stdout) => stdout'[i].class # "error"
  <2>1. stdout'[r].class = "done"
    BY <1>3, <1>11 DEF Results
  <2>2. CASE Quietly
    <3>1. Untold' = Untold
      BY <1>7, <2>2
    <3>2. Remote!Effect(c.verb)
      BY <1>11, <3>1 DEF Did, Remote!Effect, Remote!target, target, Console
    <3>. QED
      BY <1>9, <2>1, <3>2
  <2>3. CASE ~Quietly
    <3>1. /\ c.verb = "select" /\ UNCHANGED target
          /\ Len(stdout') = Len(stdout) + 2 /\ stdout'[Len(stdout) + 1].of = 0
          /\ stdout'[Len(stdout) + 2].class = "done"
      BY <1>4, <2>3
    <3>2. \A i \in 1..Len(stdout') : i > Len(stdout) =>
             i = Len(stdout) + 1 \/ i = Len(stdout) + 2
      BY <1>1, <3>1
    <3>3. \A i \in 1..Len(stdout') : i > Len(stdout) /\ stdout'[i].class \in Stops =>
             stdout'[i].of = 0
      BY <3>1, <3>2 DEF Stops
    <3>4. Untold' = Untold \cup {0}
      BY <1>1, <2>3, <3>3, UntoldGrows DEF Quietly
    <3>5. resumes = 0
      <4>1. 1 \in 1..Len(stdin) /\ stdin[1].verb = "select"
        BY <1>1, <3>1, Popped DEF c, TypeOK, PipesTypeOK
      <4>. QED
        BY <4>1 DEF ConnectsFirst, Connecting
    <3>6. Remote!Effect(c.verb)
      BY <3>1, <3>4, <3>5 DEF Remote!Effect, Remote!target, target
    <3>. QED
      BY <1>9, <2>1, <3>6
  <2>. QED
    BY <2>2, <2>3
<1>. QED
  BY <1>2, <1>10, <1>11

-----------------------------------------------------------------------------
\* A debug session is a remote target to its caller: whatever times out, comes
\* late or is lost, each command is carried out once at most and in its turn, a
\* call reports the verdict on its own command and only after the deed, and
\* every stop is told once at most, the oldest first.
THEOREM SessionIsRemote == SessionSpec => CallsAtMostOnce
<1>1. SessionInit => Remote!Init
  <2> SUFFICES ASSUME SessionInit PROVE Remote!Init
    OBVIOUS
  <2>1. /\ call.pc = "idle" /\ stdin = <<>> /\ stdout = <<>> /\ async_queue = <<>>
        /\ life = "up" /\ runs = FALSE /\ core \in {"running", "halted"}
        /\ interrupted = FALSE /\ inserted = FALSE /\ resumes = 0
    BY DEF SessionInit, Init, NoCall
  <2>2. Verdict = "none" /\ Untold = {}
    BY <2>1, VerdictOnlyReading DEF Untold, StopIn
  <2>3. Owed = <<>>
    BY <2>1 DEF Owed
  <2>. QED
    BY <2>1, <2>2, <2>3 DEF Remote!Init
<1>2. ASSUME ClientInv, ClientInv', RemoteInv, [Next]_vars
      PROVE  [Remote!Next]_(Remote!vars)
  <2>1. StopsInOrder /\ ConnectsFirst /\ CallIsOwed
    BY <1>2 DEF RemoteInv
  <2>2. ASSUME UNCHANGED vars PROVE RemoteStep
    <3>1. UNCHANGED <<call, stdin, stdout, async_queue, life, target>>
      BY <2>2 DEF vars, pipes
    <3>2. Verdict' = Verdict /\ Untold' = Untold
      BY <3>1 DEF Verdict, Verdicts, Untold, target
    <3>. QED
      BY <3>1, <3>2, NothingSeen
  <2>3. RemoteStep
    BY <1>2, <2>1, <2>2, AskRefines, WaitRefines, AnswerRefines, OtherRefines, EofRefines,
       WaitReadRefines, TimeOutRefines, EndRefines, PerformRefines, StopRefines, DieRefines
       DEF Next, ClientStep, ClientRead, Environment
  <2>. QED
    BY <2>3 DEF RemoteStep
<1>3. [SessionNext]_allvars => [Next]_vars
  BY SessionStepIsClients
<1>. QED
  BY RemoteAlways, <1>1, <1>2, <1>3, PTL DEF SessionSpec, CallsAtMostOnce, Remote!Spec

-----------------------------------------------------------------------------
(* The recipes: which method each of them is in.                           *)

\* Where a recipe stands between two methods.
Resting == {"open", "armed", "ready", "done", "raised"}
\* How far a check is before it runs.
Before == {"new", "opening", "open", "arming", "armed"}

Fetching == {"read", "read_more", "snap_regs", "snap_next", "snap_rest"}
RunsIn == {"run", "run_go", "run_wait", "run_halt", "run_stop"}

\* No method starts but where the recipe calls it.
OpAt ==
    /\ at \in Resting \cup {"new", "opening", "halting", "arming", "running",
                            "fetching", "calling", "closed"}
    /\ at \in Resting => op = "idle"
    /\ at = "new" => op = "new"
    /\ at = "opening" => op \in IF recipe = "read" THEN {"attach"}
                                ELSE IF recipe = "check" THEN {"start", "start_go", "start_reset"}
                                ELSE {"attach", "start", "start_go", "start_reset"}
    /\ at = "halting" => recipe = "read" /\ op = "halt"
    /\ at = "arming" => recipe = "check" /\ op = "set_bp"
    /\ at = "armed" => recipe = "check"
    /\ at = "running" => recipe = "check" /\ op \in RunsIn
    /\ at = "fetching" => op \in IF recipe = "read" THEN Fetching ELSE {"read", "read_more"}
    /\ at = "calling" => recipe = "script"
    /\ at = "closed" => op = "closed"

-----------------------------------------------------------------------------
(* What is on its way to gdb.                                              *)

Unsent(verbs) == \A i \in 1..Len(stdin) : stdin[i].verb \notin verbs
OneContinue == \A i, j \in 1..Len(stdin) :
                  stdin[i].verb = "continue" /\ stdin[j].verb = "continue" => i = j

\* A read recipe makes the target do nothing.
ReadOnly == recipe = "read" => resumes = 0 /\ Unsent({"reset", "continue"})

\* A check runs the target once, from where it is armed.
RunOnce ==
    recipe = "check" =>
        /\ at \in Before => resumes = 0 /\ Unsent({"continue"})
        /\ resumes = 0 \/ (resumes = 1 /\ Unsent({"continue"}))
        /\ OneContinue

RecipeInv == OpAt /\ ReadOnly /\ RunOnce /\ ComparesAtHit

-----------------------------------------------------------------------------
(* The commands are users of the client too.                               *)

LEMMA EnterIsNext ==
    ASSUME NEW m, NEW v \in Verbs, Enter(m, v)
    PROVE  Next
BY DEF Enter, Next

LEMMA BackIsNext ==
    ASSUME NEW m, NEW out, Back(m, out)
    PROVE  Next
BY DEF Back, Next

\* Every step inside a method is a step of the client or leaves it alone.
LEMMA WithinIsNext == Within => Next \/ UNCHANGED vars
<1>1. {"select", "reset", "interrupt", "halt", "continue", "other", "data",
       "insert", "delete"} = Verbs
  BY DEF Verbs, Console
<1>2. CASE RunWait
  BY <1>2 DEF RunWait, Next
<1>3. CASE SnapEnds
  BY <1>3 DEF SnapEnds
<1>4. CASE StartReset
  BY <1>4 DEF StartReset, Next
<1>5. CASE StartMonitorReset \/ ResetResume \/ RunInterrupt \/ ReadMore
  BY <1>1, <1>5, EnterIsNext DEF StartMonitorReset, ResetResume, RunInterrupt, ReadMore
<1>6. CASE SnapNext
  BY <1>1, <1>3, <1>6, EnterIsNext DEF SnapNext
<1>7. CASE ResetGoDone \/ RunStarted \/ RunNoStop \/ SnapRegisters \/ SnapLeg \/ ReadDone
  BY <1>7, BackIsNext
     DEF ResetGoDone, RunStarted, RunNoStop, SnapRegisters, SnapLeg, ReadDone
<1>. QED
  BY <1>2, <1>3, <1>4, <1>5, <1>6, <1>7 DEF Within

\* So is every step from one to the next.
LEMMA RecipeStepIsNext == RecipeStep => Next \/ UNCHANGED vars
<1>1. {"select", "reset", "interrupt", "halt", "continue", "other", "data",
       "insert", "delete"} = Verbs
  BY DEF Verbs, Console
<1>2. HaltVerb \in Verbs
  BY <1>1 DEF HaltVerb
<1>3. CASE Start \/ Halt \/ Resume \/ Reset \/ SendMonitor \/ Read \/ TakeSnapshot
           \/ SetBreakpoint \/ RunUntilBreakpoint
  BY <1>1, <1>2, <1>3, EnterIsNext
     DEF Start, Halt, Resume, Reset, SendMonitor, Read, TakeSnapshot, SetBreakpoint,
         RunUntilBreakpoint
<1>4. CASE \/ Connected \/ Started \/ StartFails \/ HaltDone \/ HaltRefused \/ ResumeDone
           \/ ResetDone \/ MonitorDone \/ SetDone \/ ReadDone \/ RunStopped \/ RunTimedOut \/ Fail
  BY <1>4, BackIsNext
     DEF Connected, Started, StartFails, HaltDone, HaltRefused, ResumeDone, ResetDone,
         MonitorDone, SetDone, ReadDone, RunStopped, RunTimedOut, Fail
<1>5. CASE SnapNext
  BY <1>1, <1>5, EnterIsNext DEF SnapNext, SnapEnds
<1>6. CASE Close
  BY <1>6 DEF Close
<1>7. CASE Open \/ HaltInPlace \/ Arm
  BY <1>3, <1>4, <1>7 DEF Open, HaltInPlace, Arm, Moves
<1>8. CASE RunToBreakpoint \/ Fetch
  BY <1>3, <1>4, <1>5, <1>8 DEF RunToBreakpoint, Fetch, Moves
<1>9. CASE Script
  BY <1>3, <1>4, <1>5, <1>9 DEF Script, AMethod, ItsReturn, Moves
<1>10. CASE CloseAlways
  BY <1>6, <1>10 DEF CloseAlways, Moves
<1>. QED
  BY <1>7, <1>8, <1>9, <1>10 DEF RecipeStep

\* What holds of the client holds of it under every command.
LEMMA RecipeIsClient == RecipeSpec => Spec
<1>1. RecipeInit => Init
  BY DEF RecipeInit, SessionInit
<1>2. [RecipeNext]_recipevars => [Next]_vars
  BY WithinIsNext, RecipeStepIsNext DEF RecipeNext, Inside, Next, recipevars, allvars
<1>. QED
  BY <1>1, <1>2, PTL DEF RecipeSpec, Spec

-----------------------------------------------------------------------------
(* The invariants of the recipes, one at a time.                           *)

\* The recipe calls one method after the other.
LEMMA OpStep ==
    ASSUME OpAt, [RecipeNext]_recipevars
    PROVE  OpAt' /\ UNCHANGED recipe
<1>1. ASSUME NEW m, NEW v, Enter(m, v) PROVE op' = m
  BY <1>1 DEF Enter
<1>2. ASSUME NEW m, NEW out, Back(m, out) PROVE op = m
  BY <1>2 DEF Back
<1>3. CASE Open
  BY <1>3, <1>1, <1>2
     DEF Open, Moves, Start, Connected, Started, StartFails, Finish, Entry, Starting, OpAt,
         Resting
<1>4. CASE HaltInPlace
  BY <1>4, <1>1, <1>2
     DEF HaltInPlace, Moves, Halt, HaltDone, HaltRefused, Fail, Finish, OpAt, Resting
<1>5. CASE Arm
  BY <1>5, <1>1, <1>2 DEF Arm, Moves, SetBreakpoint, SetDone, Fail, Finish, OpAt, Resting
<1>6. CASE RunToBreakpoint
  BY <1>6, <1>1, <1>2
     DEF RunToBreakpoint, Moves, RunUntilBreakpoint, RunStopped, RunTimedOut, Fail, Finish,
         OpAt, Resting, RunsIn
<1>7. CASE Fetch
  BY <1>7, <1>1, <1>2
     DEF Fetch, Moves, Read, TakeSnapshot, Fail, Finish, OpAt, Resting, Fetching
<1>8. CASE Script
  BY <1>8 DEF Script, Moves, ItsReturn, HaltDone, ResumeDone, ResetDone, MonitorDone,
     SetDone, RunStopped, RunTimedOut, Fail, Finish, OpAt, Resting
<1>9. CASE CloseAlways
  BY <1>9 DEF CloseAlways, Moves, Close, OpAt, Resting
<1>10. CASE Inside(Within)
  <2>1. UNCHANGED <<recipe, at>> /\ Within
    BY <1>10 DEF Inside
  <2>2. CASE StartReset \/ StartMonitorReset
    BY <2>1, <2>2, <1>1
       DEF StartReset, StartMonitorReset, OpAt, Resting, RunsIn, Fetching
  <2>3. CASE ResetGoDone \/ ResetResume
    BY <2>1, <2>3, <1>1, <1>2 DEF ResetGoDone, ResetResume, OpAt, Resting, RunsIn, Fetching
  <2>4. CASE RunStarted \/ RunWait \/ RunNoStop \/ RunInterrupt
    BY <2>1, <2>4, <1>1, <1>2
       DEF RunStarted, RunWait, RunNoStop, RunInterrupt, OpAt, Resting, RunsIn, Fetching
  <2>5. CASE SnapRegisters \/ SnapLeg \/ ReadMore
    BY <2>1, <2>5, <1>1, <1>2
       DEF SnapRegisters, SnapLeg, ReadMore, OpAt, Resting, RunsIn, Fetching
  <2>6. CASE ReadDone /\ op' # "idle"
    BY <2>1, <2>6, <1>2 DEF ReadDone, OpAt, Resting, RunsIn, Fetching
  <2>7. CASE SnapNext /\ op' # "idle"
    BY <2>1, <2>7, <1>1 DEF SnapNext, SnapEnds, Finish, OpAt, Resting, RunsIn, Fetching
  <2>. QED
    BY <2>1, <2>2, <2>3, <2>4, <2>5, <2>6, <2>7 DEF Within
<1>11. CASE UNCHANGED <<session, recipe, at>>
  BY <1>11 DEF session, OpAt
<1>. QED
  BY <1>3, <1>4, <1>5, <1>6, <1>7, <1>8, <1>9, <1>10, <1>11
     DEF RecipeNext, RecipeStep, Inside, recipevars, allvars

-----------------------------------------------------------------------------
(* What a step may do to the commands under way and to the target.         *)

\* At most a command is written, of one verb.
Grows(v) ==
    \A i \in 1..Len(stdin') :
        \/ i \in 1..Len(stdin) /\ stdin'[i] = stdin[i]
        \/ i = Len(stdin) + 1 /\ stdin'[i].verb = v

\* gdb takes the first.
Shrinks ==
    /\ 1 \in 1..Len(stdin) /\ Head(stdin) = stdin[1]
    /\ \A i \in 1..Len(stdin') : i + 1 \in 1..Len(stdin) /\ stdin'[i] = stdin[i + 1]

Asks(v) == Grows(v) /\ UNCHANGED <<target, target_halted>>
Notes   == UNCHANGED <<stdin, target>>

LEMMA WriteGrows ==
    ASSUME TypeOK, NEW v, \/ UNCHANGED stdin
                          \/ \E tok : Write(tok, v)
    PROVE  Grows(v)
<1>1. stdin \in Seq(Command)
  BY DEF TypeOK, PipesTypeOK
<1>2. ASSUME NEW c, stdin' = Append(stdin, c), c.verb = v PROVE Grows(v)
  BY <1>1, <1>2 DEF Grows
<1>. QED
  BY <1>1, <1>2 DEF Write, Grows

LEMMA EnterAsks ==
    ASSUME TypeOK, NEW m, NEW v, Enter(m, v)
    PROVE  Asks(v)
<1>1. UNCHANGED stdin \/ \E tok : Write(tok, v)
  BY DEF Enter, SendMi
<1>. QED
  BY <1>1, WriteGrows, EnterFacts DEF Asks

\* The client at work writes interrupts only; gdb carries a command out or
\* leaves the target alone, and the target stops by itself.
LEMMA WorkMoves ==
    ASSUME TypeOK, ClientStep \/ Environment
    PROVE  \/ Grows("interrupt") /\ UNCHANGED target
           \/ Shrinks /\ (UNCHANGED target \/ Did(Head(stdin)))
           \/ UNCHANGED <<stdin, resumes>> /\ runs /\ ~runs' /\ core' = "halted"
<1>1. CASE TimeOut
  BY <1>1, WriteGrows DEF TimeOut, InterruptSilently
<1>2. CASE ClientRead \/ WaitTimeOut \/ GdbClose \/ GdbExit
  <2>1. UNCHANGED <<stdin, target>>
    BY <1>2 DEF ClientRead, ReadAnswer, ReadOther, ReadEof, WaitRead, WaitTimeOut, GdbClose,
       GdbExit, pipes
  <2>. QED
    BY <2>1, WriteGrows
<1>3. CASE GdbExecute
  <2>1. stdin \in Seq(Command)
    BY DEF TypeOK, PipesTypeOK
  <2>2. stdin # <<>> /\ stdin' = Tail(stdin) /\ (UNCHANGED target \/ Did(Head(stdin)))
    BY <1>3, ExecuteFacts
  <2>. QED
    BY <2>1, <2>2, Popped DEF Shrinks
<1>4. CASE GdbStop
  BY <1>4, StopFacts
<1>. QED
  BY <1>1, <1>2, <1>3, <1>4 DEF ClientStep, Environment

\* Where a recipe compares or shows what it has read.
Hit == {"ready", "fetching", "done"}

\* A step of a command writes to gdb, or it does not, or it is the client's.
\* Of the recipes only a check resumes the target, where it is armed, and its
\* reads begin at a breakpoint.
LEMMA RecipeMoves ==
    ASSUME TypeOK, OpAt, [RecipeNext]_recipevars
    PROVE  \/ \E v \in Verbs :
              /\ Asks(v)
              /\ recipe = "read" => v \notin {"reset", "continue"}
              /\ recipe = "check" =>
                    /\ v = "continue" => at = "armed" /\ at' \notin Before
                    /\ at' \in Hit => at \in Hit
                    /\ at' \in Before => at \in Before
           \/ /\ Notes
              /\ recipe = "check" =>
                    /\ at' \in Before => at \in Before
                    /\ at' \in Hit =>
                          \/ at \in Hit /\ UNCHANGED target_halted
                          \/ call.pc = "stopped" /\ BreakpointHit /\ target_halted'
           \/ (ClientStep \/ Environment) /\ UNCHANGED <<at, target_halted>>
<1> DEFINE Suits(v) == recipe = "check" =>
                          /\ v = "continue" => at = "armed" /\ at' \notin Before
                          /\ at' \in Hit => at \in Hit
                          /\ at' \in Before => at \in Before
           Asked == \E v \in Verbs :
              /\ Asks(v)
              /\ recipe = "read" => v \notin {"reset", "continue"}
              /\ Suits(v)
           Noted ==
              /\ Notes
              /\ recipe = "check" =>
                    /\ at' \in Before => at \in Before
                    /\ at' \in Hit =>
                          \/ at \in Hit /\ UNCHANGED target_halted
                          \/ call.pc = "stopped" /\ BreakpointHit /\ target_halted'
<1>1. \A m, v : Enter(m, v) => Asks(v) /\ op' = m
  BY EnterAsks DEF Enter
<1>2. \A m, out : Back(m, out) => Notes /\ op = m /\ call.pc \in out
  BY BackFacts DEF Notes
<1>3. {"select", "reset", "interrupt", "halt", "continue", "other", "data",
       "insert", "delete"} = Verbs
  BY DEF Verbs, Console
<1>4. HaltVerb \in {"interrupt", "halt"}
  BY DEF HaltVerb
<1>5. Notes <=> UNCHANGED <<stdin, target>>
  BY DEF Notes
<1>6. vars' = vars => Notes
  BY <1>5 DEF vars, pipes
<1>7. Return => Notes
  BY <1>5 DEF Return, pipes
<1>8. CASE Open
  <2>1. CASE Moves("new", Start /\ op' \in Entry, "opening")
    BY <1>1, <1>3, <2>1 DEF Moves, Start, Before, Hit
  <2>2. CASE Moves("opening", Connected \/ Started, "open")
    BY <1>2, <2>2 DEF Moves, Connected, Started, Before, Hit
  <2>3. CASE Moves("opening", StartFails, "closed")
    BY <1>2, <2>3 DEF Moves, StartFails, Before, Hit
  <2>. QED
    BY <1>8, <2>1, <2>2, <2>3 DEF Open
<1>9. CASE HaltInPlace
  <2>1. recipe = "read"
    BY <1>9 DEF HaltInPlace, Moves, OpAt
  <2>. QED
    BY <1>1, <1>2, <1>3, <1>4, <1>9, <2>1
       DEF HaltInPlace, Moves, Halt, HaltDone, HaltRefused, Fail
<1>10. CASE Arm
  <2>1. CASE recipe = "check" /\ Moves("open", SetBreakpoint, "arming")
    BY <1>1, <1>3, <2>1 DEF Moves, SetBreakpoint, Before, Hit
  <2>2. CASE Moves("arming", SetDone, "armed") \/ Moves("arming", Fail, "raised")
    BY <1>2, <2>2 DEF Moves, SetDone, Fail, Before, Hit
  <2>. QED
    BY <1>10, <2>1, <2>2 DEF Arm
<1>11. CASE RunToBreakpoint
  <2>1. CASE Moves("armed", RunUntilBreakpoint, "running")
    <3>1. recipe = "check"
      BY <2>1 DEF Moves, OpAt
    <3>. QED
      BY <1>1, <1>3, <2>1, <3>1 DEF Moves, RunUntilBreakpoint, Before, Hit
  <2>2. CASE BreakpointHit /\ Moves("running", RunStopped, "ready")
    BY <1>2, <2>2 DEF Moves, RunStopped, Before, Hit
  <2>3. CASE ~BreakpointHit /\ Moves("running", RunStopped, "raised")
    BY <1>2, <2>3 DEF Moves, RunStopped, Before, Hit
  <2>4. CASE Moves("running", RunTimedOut \/ Fail, "raised")
    BY <1>2, <2>4 DEF Moves, RunTimedOut, Fail, Before, Hit
  <2>. QED
    BY <1>11, <2>1, <2>2, <2>3, <2>4 DEF RunToBreakpoint
<1>12. CASE Fetch
  <2>1. CASE Moves("ready", Read, "fetching") \/ (recipe = "read" /\ Moves("ready", TakeSnapshot, "fetching"))
    BY <1>1, <1>3, <2>1 DEF Moves, Read, TakeSnapshot, Before, Hit
  <2>2. CASE Moves("fetching", ReadDone /\ op' = "idle", "done")
    BY <1>2, <2>2 DEF Moves, ReadDone, Before, Hit, Opinions
  <2>3. CASE Moves("fetching", SnapNext /\ op' = "idle", "done")
    <3>1. CASE SnapEnds
      BY <1>6, <2>3, <3>1 DEF Moves, SnapEnds, Before, Hit, Opinions
    <3>2. CASE Enter("snap_rest", "data") \/ Enter("snap_rest", "other")
      BY <1>1, <2>3, <3>2 DEF Moves
    <3>. QED
      BY <2>3, <3>1, <3>2 DEF Moves, SnapNext
  <2>4. CASE Moves("fetching", Fail, "raised")
    BY <1>2, <2>4 DEF Moves, Fail, Before, Hit
  <2>. QED
    BY <1>12, <2>1, <2>2, <2>3, <2>4 DEF Fetch
<1>13. CASE Script
  <2>1. recipe = "script"
    BY <1>13 DEF Script
  <2>2. CASE AMethod
    BY <1>1, <1>3, <1>4, <2>1, <2>2
       DEF AMethod, Halt, Resume, Reset, SendMonitor, Read, TakeSnapshot, SetBreakpoint,
           RunUntilBreakpoint
  <2>3. CASE ItsReturn \/ Fail
    <3>1. CASE SnapNext /\ op' = "idle"
      BY <1>1, <1>6, <2>1, <3>1 DEF SnapNext, SnapEnds
    <3>. QED
      BY <1>2, <2>1, <2>3, <3>1
         DEF ItsReturn, HaltDone, ResumeDone, ResetDone, MonitorDone, SetDone, ReadDone,
             RunStopped, RunTimedOut, Fail
  <2>. QED
    BY <1>13, <2>2, <2>3 DEF Script, Moves
<1>14. CASE CloseAlways
  BY <1>6, <1>14 DEF CloseAlways, Moves, Close, Opinions, Before, Hit
<1>15. CASE Inside(Within)
  <2>1. UNCHANGED <<recipe, at>> /\ Within
    BY <1>15 DEF Inside
  <2>2. CASE StartReset
    BY <1>7, <2>1, <2>2 DEF StartReset, Opinions
  <2>3. CASE StartMonitorReset
    <3>1. op = "start_go" /\ Asks("reset")
      BY <1>1, <2>3 DEF StartMonitorReset
    <3>2. recipe # "read"
      BY <3>1 DEF OpAt, Resting, Fetching
    <3>. QED
      BY <1>3, <2>1, <3>1, <3>2
  <2>4. CASE ResetGoDone \/ ResetResume
    <3>1. op \in {"reset_go", "reset_resume"}
      BY <1>2, <2>4 DEF ResetGoDone, ResetResume
    <3>2. recipe = "script"
      BY <3>1 DEF OpAt, Resting, Fetching, RunsIn
    <3>. QED
      BY <1>1, <1>2, <1>3, <2>1, <2>4, <3>2 DEF ResetGoDone, ResetResume
  <2>5. CASE RunStarted
    <3>1. op = "run" /\ Notes
      BY <1>2, <2>5 DEF RunStarted
    <3>2. recipe = "check" => at \notin Hit
      BY <3>1 DEF OpAt, Resting, Hit
    <3>. QED
      BY <2>1, <3>1, <3>2
  <2>6. CASE RunWait
    <3>1. Notes /\ UNCHANGED target_halted
      BY <1>5, <2>6 DEF RunWait, WaitForStopped, pipes, Opinions
    <3>. QED
      BY <2>1, <3>1
  <2>7. CASE RunNoStop \/ SnapRegisters \/ SnapLeg \/ ReadDone
    <3>1. Notes /\ UNCHANGED target_halted
      BY <1>2, <2>7 DEF RunNoStop, SnapRegisters, SnapLeg, ReadDone, Opinions
    <3>. QED
      BY <2>1, <3>1
  <2>8. CASE RunInterrupt \/ ReadMore
    BY <1>1, <1>3, <2>1, <2>8 DEF RunInterrupt, ReadMore
  <2>9. CASE SnapNext
    <3>1. CASE SnapEnds
      BY <1>6, <2>1, <3>1 DEF SnapEnds, Opinions
    <3>. QED
      BY <1>1, <1>3, <2>1, <2>9, <3>1 DEF SnapNext
  <2>. QED
    BY <2>1, <2>2, <2>3, <2>4, <2>5, <2>6, <2>7, <2>8, <2>9 DEF Within
<1>16. CASE Inside((ClientStep \/ Environment) /\ UNCHANGED session)
  BY <1>16 DEF Inside, session
<1>17. CASE UNCHANGED recipevars
  BY <1>6, <1>17 DEF recipevars, allvars, session
<1>18. \/ Asked \/ Noted
       \/ (ClientStep \/ Environment) /\ UNCHANGED <<at, target_halted>>
  BY <1>8, <1>9, <1>10, <1>11, <1>12, <1>13, <1>14, <1>15, <1>16, <1>17
     DEF RecipeNext, RecipeStep
<1>. QED
  BY <1>18

LEMMA ReadOnlyStep ==
    ASSUME TypeOK, OpAt, ReadOnly, [RecipeNext]_recipevars
    PROVE  ReadOnly'
<1>1. SUFFICES ASSUME recipe = "read", UNCHANGED recipe
               PROVE  resumes' = 0 /\ Unsent({"reset", "continue"})'
  BY OpStep DEF ReadOnly
<1>2. resumes = 0 /\ \A i \in 1..Len(stdin) : stdin[i].verb \notin {"reset", "continue"}
  BY <1>1 DEF ReadOnly, Unsent
<1>3. ASSUME NEW v, v \notin {"reset", "continue"}, Grows(v), UNCHANGED target
      PROVE  resumes' = 0 /\ Unsent({"reset", "continue"})'
  BY <1>2, <1>3 DEF Grows, Unsent, target
<1>4. CASE Notes
  BY <1>2, <1>4 DEF Notes, Unsent, target
<1>5. CASE ClientStep \/ Environment
  <2>1. CASE Shrinks /\ (UNCHANGED target \/ Did(Head(stdin)))
    <3>1. Head(stdin).verb # "continue"
      BY <1>2, <2>1 DEF Shrinks
    <3>2. resumes' = resumes
      BY <2>1, <3>1 DEF Did, target
    <3>. QED
      BY <1>2, <2>1, <3>2 DEF Shrinks, Unsent
  <2>2. CASE UNCHANGED <<stdin, resumes>>
    BY <1>2, <2>2 DEF Unsent
  <2>. QED
    BY <1>3, <1>5, <2>1, <2>2, WorkMoves
<1>. QED
  BY <1>1, <1>3, <1>4, <1>5, RecipeMoves DEF Asks

LEMMA RunOnceStep ==
    ASSUME TypeOK, OpAt, RunOnce, [RecipeNext]_recipevars
    PROVE  RunOnce'
<1> DEFINE None == \A i \in 1..Len(stdin) : stdin[i].verb # "continue"
           NoneThen == \A i \in 1..Len(stdin') : stdin'[i].verb # "continue"
           OneThen == \A i, j \in 1..Len(stdin') :
                  stdin'[i].verb = "continue" /\ stdin'[j].verb = "continue" => i = j
<1>1. SUFFICES ASSUME recipe = "check", UNCHANGED recipe
               PROVE  /\ at' \in Before => resumes' = 0 /\ NoneThen
                      /\ resumes' = 0 \/ (resumes' = 1 /\ NoneThen)
                      /\ OneThen
  BY OpStep DEF RunOnce, Unsent, OneContinue
<1>2. /\ at \in Before => resumes = 0 /\ None
      /\ resumes = 0 \/ (resumes = 1 /\ None)
      /\ \A i, j \in 1..Len(stdin) :
            stdin[i].verb = "continue" /\ stdin[j].verb = "continue" => i = j
  BY <1>1 DEF RunOnce, Unsent, OneContinue
<1>3. ASSUME NEW v, v # "continue", Grows(v) PROVE OneThen /\ (None => NoneThen)
  BY <1>2, <1>3 DEF Grows
<1>4. ASSUME UNCHANGED stdin PROVE OneThen /\ (None => NoneThen)
  BY <1>2, <1>4
<1>5. CASE \E v \in Verbs : /\ Asks(v)
                            /\ v = "continue" => at = "armed" /\ at' \notin Before
                            /\ at' \in Before => at \in Before
  <2>1. PICK v \in Verbs : /\ Grows(v) /\ UNCHANGED resumes
                           /\ v = "continue" => at = "armed" /\ at' \notin Before
                           /\ at' \in Before => at \in Before
    BY <1>5 DEF Asks, target
  <2>2. CASE v = "continue"
    <3>1. resumes = 0 /\ None
      BY <1>2, <2>1, <2>2 DEF Before
    <3>2. \A i \in 1..Len(stdin') : stdin'[i].verb = "continue" => i = Len(stdin) + 1
      BY <2>1, <3>1 DEF Grows
    <3>. QED
      BY <2>1, <2>2, <3>1, <3>2
  <2>. QED
    BY <1>2, <1>3, <2>1, <2>2
<1>6. CASE Notes /\ (at' \in Before => at \in Before)
  BY <1>2, <1>4, <1>6 DEF Notes, target
<1>7. CASE (ClientStep \/ Environment) /\ UNCHANGED at
  <2>1. CASE Grows("interrupt") /\ UNCHANGED target
    BY <1>2, <1>3, <1>7, <2>1 DEF target
  <2>2. CASE Shrinks /\ (UNCHANGED target \/ Did(Head(stdin)))
    <3>1. OneThen /\ (None => NoneThen)
      <4>1. ASSUME NEW i \in 1..Len(stdin'), NEW j \in 1..Len(stdin'),
                   stdin'[i].verb = "continue", stdin'[j].verb = "continue"
            PROVE  i = j
        <5>1. i + 1 = j + 1
          BY <1>2, <2>2, <4>1 DEF Shrinks
        <5>. QED
          BY <5>1
      <4>. QED
        BY <2>2, <4>1 DEF Shrinks
    <3>2. CASE Head(stdin).verb = "continue"
      <4>1. ~None
        BY <2>2, <3>2 DEF Shrinks
      <4>2. at \notin Before /\ resumes = 0
        BY <1>2, <4>1
      <4>3. resumes' = 0 \/ resumes' = 1
        BY <2>2, <3>2, <4>2 DEF Did, target, Console
      <4>4. ASSUME NEW i \in 1..Len(stdin') PROVE stdin'[i].verb # "continue"
        <5>1. i + 1 \in 1..Len(stdin) /\ stdin'[i] = stdin[i + 1] /\ i + 1 # 1
          BY <2>2 DEF Shrinks
        <5>. QED
          BY <1>2, <2>2, <3>2, <5>1 DEF Shrinks
      <4>. QED
        BY <1>7, <3>1, <4>2, <4>3, <4>4
    <3>3. CASE Head(stdin).verb # "continue"
      <4>1. resumes' = resumes
        BY <2>2, <3>3 DEF Did, target
      <4>. QED
        BY <1>2, <1>7, <3>1, <4>1
    <3>. QED
      BY <3>2, <3>3
  <2>3. CASE UNCHANGED <<stdin, resumes>>
    BY <1>2, <1>4, <1>7, <2>3
  <2>. QED
    BY <1>7, <2>1, <2>2, <2>3, WorkMoves
<1>. QED
  BY <1>1, <1>5, <1>6, <1>7, RecipeMoves

LEMMA HitStep ==
    ASSUME TypeOK, OpAt, StopsPast, RunOnce, ComparesAtHit, [RecipeNext]_recipevars
    PROVE  ComparesAtHit'
<1> DEFINE Here == core = "halted" /\ ~runs /\ resumes = 1
<1>1. SUFFICES ASSUME recipe = "check", UNCHANGED recipe, at' \in Hit
               PROVE  core' = "halted" /\ ~runs' /\ resumes' = 1 /\ target_halted'
  BY OpStep DEF ComparesAtHit, Hit
<1>2. at \in Hit => Here /\ target_halted
  BY <1>1 DEF ComparesAtHit, Hit
<1>3. CASE \E v \in Verbs : Asks(v) /\ at \in Hit
  BY <1>2, <1>3 DEF Asks, target
<1>4. CASE Notes /\ at \in Hit /\ UNCHANGED target_halted
  BY <1>2, <1>4 DEF Notes, target
<1>5. CASE Notes /\ call.pc = "stopped" /\ BreakpointHit /\ target_halted'
  <2>1. call.answer.class = "breakpoint" /\ call.answer.class \in Stops
    BY <1>5 DEF BreakpointHit, Stops
  <2>2. PastAt(call.answer, resumes, runs) /\ (resumes > 0 /\ ~runs => core = "halted")
    BY <1>5 DEF StopsPast, Past
  <2>3. call.answer.of \in Nat /\ resumes \in Nat
    BY DEF TypeOK, ClientTypeOK, TargetTypeOK, Calls, Line
  <2>4. call.answer.of > 0 /\ call.answer.of <= resumes
    BY <2>1, <2>2 DEF PastAt
  <2>5. resumes = 1
    BY <1>1, <2>3, <2>4 DEF RunOnce
  <2>6. call.answer.of = resumes
    BY <2>3, <2>4, <2>5
  <2>7. Here
    BY <2>1, <2>2, <2>5, <2>6 DEF PastAt
  <2>. QED
    BY <1>5, <2>7 DEF Notes, target
<1>6. CASE (ClientStep \/ Environment) /\ UNCHANGED <<at, target_halted>>
  <2>1. Here /\ target_halted
    BY <1>1, <1>2, <1>6
  <2>2. \A i \in 1..Len(stdin) : stdin[i].verb # "continue"
    BY <1>1, <2>1 DEF RunOnce, Unsent
  <2>3. CASE UNCHANGED target
    BY <1>6, <2>1, <2>3 DEF target
  <2>4. CASE Shrinks /\ Did(Head(stdin))
    <3>1. Head(stdin).verb # "continue"
      BY <2>2, <2>4 DEF Shrinks
    <3>. QED
      BY <1>6, <2>1, <2>4, <3>1 DEF Did, target
  <2>. QED
    BY <1>6, <2>1, <2>3, <2>4, WorkMoves
<1>. QED
  BY <1>1, <1>3, <1>4, <1>5, <1>6, RecipeMoves

LEMMA RecipeAlways == RecipeSpec => []RecipeInv
<1>1. RecipeInit => RecipeInv
  BY DEF RecipeInit, SessionInit, Init, RecipeInv, OpAt, Resting, ReadOnly, RunOnce, Unsent,
     OneContinue, ComparesAtHit
<1>2. ClientInv /\ RecipeInv /\ [RecipeNext]_recipevars => RecipeInv'
  BY OpStep, ReadOnlyStep, RunOnceStep, HitStep DEF ClientInv, RecipeInv
<1>. QED
  BY RecipeIsClient, ClientAlways, <1>1, <1>2, PTL DEF RecipeSpec

\* A check compares what it reads at its breakpoint: whatever *stopped records a
\* connection, a signal or a late answer has left in the queue, only the one of
\* the run this command started counts as a hit, and nothing moves the core
\* afterwards.
THEOREM ComparesWhereItStopped == RecipeSpec => []ComparesAtHit
<1>1. RecipeInv => ComparesAtHit
  BY DEF RecipeInv
<1>. QED
  BY RecipeAlways, <1>1, PTL

\* No read recipe resumes or resets the target it attached to, nor has it a
\* command under way that will.
THEOREM ReadsLiveState == RecipeSpec => []LiveStateKept
<1>1. RecipeInv => LiveStateKept
  BY DEF RecipeInv, ReadOnly, Unsent, LiveStateKept
<1>. QED
  BY RecipeAlways, <1>1, PTL
=============================================================================
