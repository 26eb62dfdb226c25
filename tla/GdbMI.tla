------------------------------- MODULE GdbMI -------------------------------
(***************************************************************************)
(* The GDB/MI client of debug/gdb.py and, at the other end of its two      *)
(* pipes, the arm-none-eabi-gdb process it drives.                         *)
(*                                                                         *)
(* The client is single-threaded: one call of send_mi, send_console or     *)
(* wait_for_stopped is outstanding at a time (`call`).  gdb reads commands *)
(* from `stdin` and writes records to `stdout`; between them both pipes    *)
(* may hold records the client no longer waits for, because a call that    *)
(* reached its deadline is abandoned and not withdrawn.  `stdout` stands   *)
(* for the operating-system pipe followed by the queue of the              *)
(* PipeLineReader thread: two FIFOs in series, the second fed line by line *)
(* by one thread, are one FIFO.                                            *)
(*                                                                         *)
(* gdb and the core behind it are not part of the repository; the actions  *)
(* named Gdb... are an external model, as weak as the code's own comments  *)
(* allow (gdb may refuse, stay silent, stop at any time or exit).          *)
(***************************************************************************)
EXTENDS Integers, Sequences

CONSTANTS
    MaxToken,        \* bound: tagged commands one client sends
    InterruptToken   \* the literal token of _interrupt_silently (99999)

\* send_mi numbers its commands from 1; the out-of-band interrupt uses a
\* fixed number, taken to be larger than any token a session reaches.
ASSUME TokenAssumption == /\ MaxToken \in Nat
                          /\ InterruptToken \in Nat
                          /\ MaxToken < InterruptToken

VARIABLES
    token,           \* GDBClient._token
    async_queue,     \* GDBClient._async_queue
    stream_buffer,   \* GDBClient._stream_buffer
    call,            \* the method call in progress and its outcome
    stdin,           \* commands written and not yet read by gdb
    stdout,          \* records written by gdb and not yet read
    life,            \* the gdb process: "up", "closing" (pipes shut), "exited"
    runs,            \* gdb's own state machine says the target runs
    core,            \* the core itself: "running" or "halted"
    interrupted,     \* gdb asked the running target to stop
    inserted,        \* gdb holds a breakpoint
    resumes,         \* history: number of -exec-continue gdb has executed
    sent,            \* history: the token of every command ever written
    consumed         \* history: the last command whose result was read

pipes  == <<stdin, stdout>>
target == <<runs, core, interrupted, inserted, resumes>>
vars   == <<token, async_queue, stream_buffer, call, pipes, life, target,
            sent, consumed>>

-----------------------------------------------------------------------------
Console == {"reset", "halt", "other"}            \* sent by send_console
Verbs   == Console \cup {"select", "data", "insert", "delete", "continue",
                         "interrupt"}
Stops   == {"connect", "breakpoint", "signal"}   \* reasons of *stopped
Async   == Stops \cup {"running"}
Results == {"done", "error"}                     \* ^done, ^running, ^connected
Classes == Results \cup Async \cup {"text", "eof", "none"}
Outcome == {"done", "error", "timeout", "lost", "stopped", "nostop"}
PCs     == Outcome \cup {"idle", "reading", "waiting"}

\* A line of gdb's output.  `of` is history: the command a result or a text
\* belongs to, or the number of resumes before an async record.
Record(class, tok, of) == [class |-> class, token |-> tok, of |-> of]
Nothing  == Record("none", 0, 0)
NoCall   == [pc |-> "idle", verb |-> "none", id |-> 0, base |-> 0,
             answer |-> Nothing, output |-> <<>>]

Init ==
    /\ token = 0 /\ async_queue = <<>> /\ stream_buffer = <<>>
    /\ call = NoCall
    /\ stdin = <<>> /\ stdout = <<>>
    /\ life = "up" /\ runs = FALSE /\ core \in {"running", "halted"}
    /\ interrupted = FALSE /\ inserted = FALSE /\ resumes = 0
    /\ sent = <<>> /\ consumed = 0

-----------------------------------------------------------------------------
(* The client.                                                             *)

Write(tok, verb) ==
    /\ stdin' = Append(stdin, [id |-> Len(sent) + 1, token |-> tok, verb |-> verb])
    /\ sent' = Append(sent, tok)

\* What the stream buffer holds when a call's read loop begins.
Uncleared(verb) == stream_buffer              \* mutant: no clear
Cleared(verb) == IF verb \in Console THEN <<>> ELSE stream_buffer

\* send_mi up to its read loop; a console verb goes through send_console,
\* which first empties the stream buffer.  A dead gdb is noticed by poll() or
\* by the broken pipe.
SendMi(verb) ==
    /\ call.pc = "idle"
    /\ stream_buffer' = Cleared(verb)
    /\ LET begun == [NoCall EXCEPT !.verb = verb, !.base = consumed] IN
       \/ /\ life = "exited"
          /\ call' = [begun EXCEPT !.pc = "lost"]
          /\ UNCHANGED <<token, stdin, sent>>
       \/ /\ life # "exited" /\ token < MaxToken
          /\ token' = token + 1
          /\ \/ /\ Write(token + 1, verb)
                /\ call' = [begun EXCEPT !.pc = "reading", !.id = Len(sent) + 1]
             \/ /\ life = "closing"
                /\ call' = [begun EXCEPT !.pc = "lost"]
                /\ UNCHANGED <<stdin, sent>>
    /\ UNCHANGED <<async_queue, stdout, life, target, consumed>>

\* What happens to a record nobody waits for.
ClassifyInFront(r) ==                         \* mutant: the newest record first
    /\ async_queue'   = IF r.class \in Async THEN <<r>> \o async_queue ELSE async_queue
    /\ stream_buffer' = IF r.class = "text" THEN Append(stream_buffer, r) ELSE stream_buffer

Classify(r) ==
    /\ async_queue'   = IF r.class \in Async THEN Append(async_queue, r) ELSE async_queue
    /\ stream_buffer' = IF r.class = "text" THEN Append(stream_buffer, r) ELSE stream_buffer

Consume(r) == consumed' = IF r.class \in Results THEN r.of ELSE consumed

\* The record that ends the call in progress: the result with its token.
AnswersAnyToken(r)  == r.class \in Results    \* mutant: token not compared
Answers(r) == r.class \in Results /\ r.token = token

\* send_mi returns or raises on ^error; after ^done send_console hands over
\* the texts gathered and empties the buffer again.
ReadAnswer ==
    /\ call.pc = "reading" /\ stdout # <<>> /\ Answers(Head(stdout))
    /\ stdout' = Tail(stdout)
    /\ Consume(Head(stdout))
    /\ LET r == Head(stdout)
           collects == call.verb \in Console /\ r.class = "done" IN
       /\ call' = [call EXCEPT !.pc = r.class, !.answer = r,
                               !.output = IF collects THEN stream_buffer ELSE <<>>]
       /\ stream_buffer' = IF collects THEN <<>> ELSE stream_buffer
    /\ UNCHANGED <<token, async_queue, stdin, life, target, sent>>

ReadOther ==
    /\ call.pc = "reading" /\ stdout # <<>>
    /\ Head(stdout).class # "eof" /\ ~Answers(Head(stdout))
    /\ stdout' = Tail(stdout)
    /\ Classify(Head(stdout)) /\ Consume(Head(stdout))
    /\ UNCHANGED <<token, call, stdin, life, target, sent>>

\* A read gives up after its poll quantum, line or no line, so that the loops
\* come back to their deadline check on a silent gdb (A-011).
BlockingRead == stdout # <<>>                 \* mutant: a bare readline()
PollReturns == TRUE

\* PipeLineReader latches the end of file: every later read meets it again.
ReadEof ==
    /\ call.pc \in {"reading", "waiting"} /\ stdout # <<>>
    /\ Head(stdout).class = "eof"
    /\ call' = [call EXCEPT !.pc = "lost"]
    /\ UNCHANGED <<token, async_queue, stream_buffer, pipes, life, target, sent, consumed>>

\* An interrupt nobody will wait for; a write error is swallowed.
InterruptSilently ==
    \/ life # "exited" /\ Write(InterruptToken, "interrupt")
    \/ life # "up" /\ UNCHANGED <<stdin, sent>>

\* The deadline is looked at before every read, so it may cut the call off
\* with its answer already in the pipe.
TimeOut ==
    /\ call.pc = "reading" /\ PollReturns
    /\ call' = [call EXCEPT !.pc = "timeout"]
    /\ InterruptSilently
    /\ UNCHANGED <<token, async_queue, stream_buffer, stdout, life, target, consumed>>

\* The records wait_for_stopped waits for.
IsBreakpoint(r) == r.class = "breakpoint"     \* mutant: other reasons ignored
IsStop(r) == r.class \in Stops

\* wait_for_stopped, first half: records queued earlier come first, and those
\* that are not *stopped are thrown away on the way.
WaitForStopped ==
    /\ call.pc = "idle"
    /\ LET stops == {i \in 1..Len(async_queue) : IsStop(async_queue[i])} IN
       \/ /\ stops = {}
          /\ async_queue' = <<>>
          /\ call' = [NoCall EXCEPT !.pc = "waiting"]
       \/ \E i \in stops :
          /\ \A j \in stops : i <= j
          /\ async_queue' = SubSeq(async_queue, i + 1, Len(async_queue))
          /\ call' = [NoCall EXCEPT !.pc = "stopped", !.answer = async_queue[i]]
    /\ UNCHANGED <<token, stream_buffer, pipes, life, target, sent, consumed>>

\* Second half: fresh records, until a *stopped or the deadline.
WaitRead ==
    /\ call.pc = "waiting" /\ stdout # <<>> /\ Head(stdout).class # "eof"
    /\ stdout' = Tail(stdout)
    /\ Consume(Head(stdout))
    /\ IF IsStop(Head(stdout))
         THEN /\ call' = [call EXCEPT !.pc = "stopped", !.answer = Head(stdout)]
              /\ UNCHANGED <<async_queue, stream_buffer>>
         ELSE Classify(Head(stdout)) /\ UNCHANGED call
    /\ UNCHANGED <<token, stdin, life, target, sent>>

WaitTimeOut ==
    /\ call.pc = "waiting" /\ PollReturns
    /\ call' = [call EXCEPT !.pc = "nostop"]
    /\ UNCHANGED <<token, async_queue, stream_buffer, pipes, life, target, sent, consumed>>

\* The caller takes the outcome.
Return ==
    /\ call.pc \in Outcome
    /\ call' = NoCall
    /\ UNCHANGED <<token, async_queue, stream_buffer, pipes, life, target, sent, consumed>>

-----------------------------------------------------------------------------
(* gdb and the target (external).                                          *)

Emit(rs)  == stdout' = stdout \o rs
Result(c, class) == Record(class, c.token, c.id)
Text(c)   == Record("text", 0, c.id)
Stop(why, n) == Record(why, 0, n)

\* Any command may be refused; while the target runs, all but an interrupt
\* and the breakpoint table are.  A console command may have written something
\* by then.
GdbRefuse(c) ==
    /\ \/ Emit(<<Result(c, "error")>>)
       \/ c.verb \in Console /\ Emit(<<Text(c), Result(c, "error")>>)
    /\ UNCHANGED target

GdbSelect(c) ==
    /\ c.verb = "select"
    /\ \/ Emit(<<Result(c, "done")>>)
       \/ Emit(<<Stop("connect", 0), Result(c, "done")>>)
    /\ UNCHANGED target

GdbData(c) ==
    /\ c.verb = "data" /\ ~runs
    /\ Emit(<<Result(c, "done")>>)
    /\ UNCHANGED target

GdbBreakpoint(c) ==
    /\ c.verb \in {"insert", "delete"}
    /\ inserted' = (c.verb = "insert")
    /\ Emit(<<Result(c, "done")>>)
    /\ UNCHANGED <<runs, core, interrupted, resumes>>

GdbContinue(c) ==
    /\ c.verb = "continue" /\ ~runs
    /\ runs' = TRUE /\ core' = "running" /\ resumes' = resumes + 1
    /\ Emit(<<Result(c, "done"), Record("running", 0, resumes + 1)>>)
    /\ UNCHANGED <<interrupted, inserted>>

GdbInterrupt(c) ==
    /\ c.verb = "interrupt"
    /\ Emit(<<Result(c, "done")>>)
    /\ interrupted' = (interrupted \/ runs)
    /\ UNCHANGED <<runs, core, inserted, resumes>>

GdbConsole(c) ==
    /\ c.verb \in Console /\ ~runs
    /\ core' = IF c.verb \in {"reset", "halt"} THEN "halted" ELSE core
    /\ Emit(<<Text(c), Result(c, "done")>>)
    /\ UNCHANGED <<runs, interrupted, inserted, resumes>>

GdbExecute ==
    /\ life = "up" /\ stdin # <<>>
    /\ stdin' = Tail(stdin)
    /\ LET c == Head(stdin) IN
       \/ GdbRefuse(c) \/ GdbSelect(c) \/ GdbData(c) \/ GdbBreakpoint(c)
       \/ GdbContinue(c) \/ GdbInterrupt(c) \/ GdbConsole(c)
    /\ UNCHANGED <<token, async_queue, stream_buffer, call, life, sent, consumed>>

\* The target stops: at the breakpoint, on a fault, or because of an interrupt.
GdbStop ==
    /\ life = "up" /\ runs
    /\ runs' = FALSE /\ core' = "halted" /\ interrupted' = FALSE
    /\ \E why \in {"breakpoint", "signal"} :
          /\ why = "breakpoint" => inserted
          /\ Emit(<<Stop(why, resumes)>>)
    /\ UNCHANGED <<token, async_queue, stream_buffer, call, stdin, life,
                   inserted, resumes, sent, consumed>>

\* gdb dies: its pipes are shut before poll() sees it gone.
GdbClose ==
    /\ life = "up" /\ life' = "closing"
    /\ Emit(<<Record("eof", 0, 0)>>)
    /\ UNCHANGED <<token, async_queue, stream_buffer, call, stdin, target, sent, consumed>>

GdbExit ==
    /\ life = "closing" /\ life' = "exited"
    /\ UNCHANGED <<token, async_queue, stream_buffer, call, pipes, target, sent, consumed>>

-----------------------------------------------------------------------------
ClientRead  == ReadAnswer \/ ReadOther \/ ReadEof \/ WaitRead
ClientStep  == ClientRead \/ TimeOut \/ WaitTimeOut
Environment == GdbExecute \/ GdbStop \/ GdbClose \/ GdbExit

Next ==
    \/ \E v \in Verbs : SendMi(v)
    \/ WaitForStopped
    \/ ClientStep
    \/ Return
    \/ Environment

Spec == Init /\ [][Next]_vars

-----------------------------------------------------------------------------
(* Properties.                                                             *)

Command  == [id : Nat, token : Nat, verb : Verbs]
Line     == [class : Classes, token : Nat, of : Nat]

Calls    == [pc : PCs, verb : Verbs \cup {"none"}, id : Nat, base : Nat,
             answer : Line, output : Seq(Line)]

ClientTypeOK ==
    /\ token \in 0..MaxToken
    /\ async_queue \in Seq(Line) /\ stream_buffer \in Seq(Line)
    /\ call \in Calls /\ consumed \in Nat

PipesTypeOK ==
    /\ stdin \in Seq(Command) /\ stdout \in Seq(Line) /\ sent \in Seq(Nat)

TargetTypeOK ==
    /\ life \in {"up", "closing", "exited"}
    /\ runs \in BOOLEAN /\ core \in {"running", "halted"}
    /\ interrupted \in BOOLEAN /\ inserted \in BOOLEAN
    /\ resumes \in Nat

\* Types of all variables.
TypeOK == ClientTypeOK /\ PipesTypeOK /\ TargetTypeOK

\* send_mi never takes another command's result for its own, however many
\* earlier calls were abandoned with their answers still under way.
AnswerIsOwn == call.pc \in Results => call.answer.of = call.id

\* Why: a result under way carries the token its command was written with, no
\* two commands share a token below InterruptToken, and the call in progress
\* waits for the last one issued.
SentCommands == {c \in Command : c.id \in 1..Len(sent) /\ c.token = sent[c.id]}
SoundLines   == {r \in Line : r.class \in Results =>
                                 r.of \in 1..Len(sent) /\ r.token = sent[r.of]}

TokensUnique ==
    /\ \A i \in 1..Len(sent) : sent[i] <= token \/ sent[i] = InterruptToken
    /\ \A i, j \in 1..Len(sent) :
          sent[i] = sent[j] /\ sent[i] # InterruptToken => i = j

CallIsLatest == call.pc = "reading" => call.id \in 1..Len(sent) /\ sent[call.id] = token

Correlated ==
    /\ TokensUnique
    /\ stdin \in Seq(SentCommands) /\ stdout \in Seq(SoundLines)
    /\ CallIsLatest
    /\ AnswerIsOwn

\* send_console returns no text of a command whose result the client had read
\* before the call began: the clear at its start leaves no leftovers, whoever
\* read them into the buffer.
OutputIsFresh ==
    \A i \in 1..Len(call.output) : call.output[i].of > call.base

\* Why: the pipes are first-in first-out and gdb executes one command at a time,
\* so what is still under way belongs to later commands than any result read.
Own == Results \cup {"text"}     \* records that belong to one command

StdinOrdered ==
    /\ consumed <= Len(sent)
    /\ \A i \in 1..Len(stdin) : consumed < stdin[i].id /\ stdin[i].id <= Len(sent)
    /\ \A i, j \in 1..Len(stdin) : i < j => stdin[i].id < stdin[j].id

StdoutBetween ==
    \A i \in 1..Len(stdout) : stdout[i].class \in Own =>
        /\ consumed < stdout[i].of /\ stdout[i].of <= Len(sent)
        /\ \A j \in 1..Len(stdin) : stdout[i].of < stdin[j].id

StdoutOrdered ==
    \A i, j \in 1..Len(stdout) :
        i < j /\ stdout[i].class \in Results /\ stdout[j].class \in Own =>
            stdout[i].of < stdout[j].of

PipesOrdered == StdinOrdered /\ StdoutBetween /\ StdoutOrdered

BufferFresh ==
    call.pc = "reading" /\ call.verb \in Console =>
        /\ call.base <= consumed
        /\ \A i \in 1..Len(stream_buffer) : stream_buffer[i].of > call.base

Ordered == PipesOrdered /\ BufferFresh /\ OutputIsFresh

=============================================================================
