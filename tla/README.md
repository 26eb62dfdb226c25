# stm32-substrate: models and proofs

`stm32-substrate` (Python, `src/src/embedagents/stm32/`) drives the STM32 vendor tools for agents
and for a command line: ST-LINK gdbserver and gdb, STM32CubeProgrammer, the signing tool, CubeIDE,
CubeMX, and the board's serial port. Almost all of its difficulty lies in what it does *around*
those tools: processes that may hang, exit or outlive their caller, answers that arrive after their
deadline, a probe that only one program can hold, files that several processes rewrite, and boards
that come and go. This directory holds TLA+ models of those parts, the TLC runs that check them on
small instances, and proofs checked by TLAPS.

`PROJECT.json` lists components, runs, mutants, the source lines of every definition, findings,
hazards and theorems. Source paths below are relative to `src/src/embedagents/stm32/`.

## 1. Inventory

| Component | Source | State it keeps | Operations | Modelled by |
|---|---|---|---|---|
| GDB/MI client | `debug/gdb.py`, `debug/pipereader.py` | token counter, async queue, stream buffer, two pipes | `send_mi`, `send_console`, `wait_for_stopped`, silent interrupt, line reader | `GdbMI` |
| Debug session | `debug/session.py`, `debug/client.py` | `target_halted`, `_gdb_believes_running`, breakpoint table | halt, resume, reset, monitor, reads, snapshot, breakpoints, run | `DebugSession`, to its caller `RemoteTarget` |
| Debug recipes | `cli/_debug.py` | none of their own | one session per command, a fixed program of session methods; a script's `with` block | `DebugRecipe` |
| Debug lifecycle | `debug/gdbserver.py`, `debug/gdb.py`, `debug/client.py` | two processes, the active-session slot | start_session, port walk, handshake, close, cleanup | `DebugLifecycle` |
| VCP reader | `vcp/*.py` | cached reader, drain thread, line buffer, serial handle | tail, follow, send_and_read, reconnect, close | `VcpReader`, abstractly `LineChannel` |
| CubeIDE build | `cubeide/client.py`, `workspace.py`, `headless.py` | workspace, two lock files | build, import decision, retry, reset | `CubeIDEBuild` |
| `.cproject` edits | `cubeide/cproject.py`, `client.py`, `presets.py` | file, backup, in-memory tree | snapshot, edits, questions back, copies, write and validate, rollback | `CProjectEdits`; the protocol among several builds: `CubeIDEBuild` |
| CubeMX runner | `cubemx/runner.py` | launcher and JVM, marker, log, deadline, extensions | generate | `CubeMXRun` |
| CubeProgrammer | `cubeprogrammer/client.py`, `diagnose.py` | none; reads the session slot | some forty verbs, each one tool run; pairs, gates, SWO tail, diagnose ladder | `Programmer` |
| Signing tool | `signing/client.py` | none | sign_binary | `Programmer` |
| Tool subprocesses | `subprocess_runner.py`, `platform/process.py` | one child tree | run_tool, terminate | `ToolRun` |
| Locks, paths | `platform/locking.py`, `paths.py` | advisory locks | acquire, probe | `CubeIDEBuild` (Linux) |
| Parsers | `debug/parsers.py`, `svd.py`, `cubeprogrammer/parsers.py` | none | text to records | no: pure functions over vendor text, covered by transcripts in the repository's tests |
| Context, configuration | `context.py`, `resolution.py`, `_jsonc.py`, the resolving half of `cubeide/client.py` | immutable after construction, but for the two slots and `default_probe_sn` | find, load and validate; project, configuration and workspace of a call | `Configuration` (the slots are modelled where they are used) |
| Build command line | `cli/_build.py` | none | one library call per command | `Configuration` |
| Results, errors, logging, progress, other CLI | — | none | data and output | no |

How they interact. A `SubstrateContext` carries two slots: the active debug session and the cached
VCP reader. `DebugSession` calls `GdbMI`, which talks to gdb over two pipes; gdb talks to the
gdbserver, which holds the probe. `CubeProgrammer.reset/halt/resume` go through the session when the
slot is set, and start a tool of their own otherwise. `VCP._resolve_port` asks CubeProgrammer which
board hangs on which probe. `flash_signed_pair` calls the signing tool. Everything but the session's
two processes, the SWO tail and CubeMX goes through `run_tool`. CubeIDE builds exclude one another by
a lock file inside the workspace that they wipe.

What is hard, and what makes each part correct:

* **Late answers.** A command that reaches its deadline is abandoned, not withdrawn. No later call
  may take its result; the target's state must still be known afterwards.
* **Two opinions about the target.** The session's flags, gdb's own state machine and the core are
  three things that must agree where the code relies on it.
* **Processes.** Whatever fails while a session is opened, and whoever interrupts it, no gdbserver may
  be left holding the probe; every wait must end.
* **Two threads and a cable.** Serial lines must come out complete and in order while a thread fills
  the buffer and the board is reset under it; a reader that is dead must not look alive.
* **Files shared with vendor tools**: one build per workspace, never a wiped live workspace,
  never a lost `.cproject`; a regenerated project is told from a stale one.
* **Edits of a user's project**: all that were asked for or none, in the project and configuration that
  were meant and nowhere else, and again without harm after a build that failed.
* **Irreversible commands**: consent before the first irreversible step, and a truthful
  report of what is on the device when a sequence stops half way.

## 2. Plan

Done, in this order: `GdbMI` → `DebugSession` (extends it) → `DebugRecipe` (extends that) →
`DebugLifecycle` → `VcpReader` → `ToolRun` → `CubeIDEBuild` (extends `ToolRun`) → `CubeMXRun` →
`Programmer` → `LineChannel` (abstract, implemented by `VcpReader`) → `Configuration` → `CProjectEdits` (extends it) →
`RemoteTarget` (abstract, implemented by `DebugSession`); the proofs of `GdbMI`, `DebugSession` with `DebugRecipe`, `DebugLifecycle`, `VcpReader`, `CubeIDEBuild`, `CubeMXRun`, `Programmer` and `CProjectEdits`. Every invariant
and action property of the runs is now proved but `NeverStuck`, and the two refinements are. Open:

1. A target that is halted, resumed and reset atomically, which `DebugSession` should implement as long as no call times out:
   `RemoteTarget` is about calls, and says nothing of the session's flags.
2. Bytes in `VcpReader`: the unterminated fragment that survives a reconnect.

## 3. The modules

### GdbMI — the MI client and gdb

One variable per field of `GDBClient` (`token`, `async_queue`, `stream_buffer`), the call in progress
(`call`: which verb, where it is, its outcome), the two pipes as sequences, and gdb with the core
behind it (external). `send_mi` is `SendMi` up to its loop, then one action per record read:
`ReadAnswer` for the result with the awaited token, `ReadOther` for all others (filed by `Classify`),
`ReadEof`, and `TimeOut`, which sends the silent interrupt. `stdout` stands for the OS pipe followed by
the `PipeLineReader` queue. gdb may refuse any command (a console command also after it has printed something), never answer, stop the target at any time or
exit. Payloads are absent: a record is its class, its token and, as history, the command it belongs to.

### DebugSession — methods as programs of MI calls

`op` names the method in progress and its place. A method's flags change where the code sets them, so a
method that raises changes nothing (`Fail`); `snapshot` goes on past failing legs, and
`run_until_breakpoint` ends its timeout path with an interrupt whose failure it swallows. All register,
memory, SVD and symbol reads are one verb, `data`. `upset` is history: a call has timed out, or a stop was
taken for that of another resume. After that the code makes no promise about its flags, and the
invariants say so explicitly instead of quietly excluding those behaviours: the violation run
shows what then happens.

`RemoteTarget` is what the session's calls promise about the target all the same, timeouts included: one caller, commands that are carried out one at a time in the
order they were given and each once at most, a verdict that is about the call's own command and comes after the deed, and stops that are told once, the oldest first. There are no pipes
in it, no tokens, no records and no buffers. The refinement mapping (`Remote`, at the end of `DebugSession`) finds all that in the pipes: `owed <- Owed`, the verbs gdb has yet to read; `verdict <- Verdict`,
the class of the result under way for the command of the call; `untold <- Untold`, the resumes whose `*stopped` is in the pipe or in `_async_queue`; and `phase <- call.pc`. gdb's execution is `Perform`, reading the
answer is `Answer`, taking a stop is `Tell`, a deadline is `GiveUp` (which may add the silent interrupt to what is owed), and filing a record, buffering a text or moving through a method must be a stutter.

### DebugRecipe — the `stm32 debug` commands

A recipe is a fixed order of session methods between a fresh start and a close (`_with_fresh_session`),
expressed by `at` and the session's own actions, so every failure of the session is a failure in the
middle of a recipe. A *script* is the user of the library instead of the command line: a `with` block over
`start_session` that calls one method, whichever, so that `RecipeCloses` is about every method of the session.

### DebugLifecycle — the processes

Processes are records (kind, alive, killed, what it printed, its port, its peer). Each caller walks through
`start_session`: the port walk, the gdbserver handshake (ready, port busy, probe missing, exit, deadline), gdb, connect,
reset, open, and the three-step close of each process. A `KeyboardInterrupt` may strike in every place where the
code waits; `Unwinds` says which handler it meets there. `SIGTERM` and `-gdb-exit` may be ignored, `SIGKILL` may not.

`Intrude` is another program's gdbserver on one of the ports, there before the walk: the handshake must not take its
listening for that of the server just spawned.

Three things the model shows that no property forbids: an interrupt in the gdbserver's handshake leaves it
running with the probe, because that loop has no handler of its own; `__enter__` on a closed session registers it again
and nothing clears the slot afterwards (`Reenter`), and a second interrupt inside a cleanup abandons the process being cleaned up.

### VcpReader — drain thread, buffer, boards

The drain thread has four places (loop head, read, extraction, dead), the call its own program counter down to
the lock, the clear of the event and the bounded wait of `_pop_one`. Boards sit on device nodes, go away and
come back anywhere; the handle is lost with its board. Bytes are counted in whole lines, lines are numbered
modulo `Wrap`; fragments and encodings are left out. `tail()` is a generator: the model runs it to its end or drops it,
and does not interleave other calls with a suspended one.

`LineChannel` is what all this is for: a queue of lines that comes in at one end and is handed out at the other, by one reading
call at a time. There is no thread in it, no event and no port. A line is lost only when the `Capacity` lines after it came in before it was asked for,
or when a call gives it up together with all older ones. The refinement mapping puts the backlog a follow took over before the buffer:
`held <- call.backlog \o buffer`, `out <- call.last`, `reading <- Reading`. `ChannelSafe` is the channel's specification, and `ChannelServed` its
fairness: what is there while a call goes on reading is handed out. The drain thread's append is `Put`, `_pop_one`'s pop and the yields of a backlog are
`Take`, and everything else (`_line_event`, the takeover of the backlog, reconnects) must be a stutter.

### ToolRun and CubeIDEBuild — builds, their files and their processes

`ToolRun` is `run_tool`: spawn, `communicate`, deadline or Ctrl-C, and the termination ladder, over a launcher and its JVM. `communicate`
returns only when both ends of the pipes are closed, which is why a launcher that exits early does not end the call. `CubeIDEBuild`
puts two of these calls (the build and its retry) at the end of `build()`. `pc` is the place in `build()`, `local` what a build
remembers; `End` leaves the `with` statement, releasing the lock. Lock files are inodes: `sublock` and `guilock` name the file at
each path, `held` and `grip` the file a process has locked, so a removed file leaves its holder with a lock nobody finds. The
workspace is what the code reads from it: whether the substrate owns it, whether the project lies in it, what Eclipse's binary
tree knows and what `.location` says. `.cproject` is the set of builds whose edits it holds, or `Torn` while it is being written;
backups are named by the second they were made in. `Validate` may end in an OSError that nobody catches: the edit stays in `.cproject`,
neither committed nor rolled back, and the next build starts from it. Eclipse (GUI and headless) and the user are external.

### Configuration and CProjectEdits — what a call is about, and what it does to the project

`Configuration` has operators only. A host is its files and what those say; `FromEnvironment` builds the context from them, with the three searches
(`FindProject` in one directory, `FindToolsLocal` and `FindRuntimeDefaults` upwards), the tool chain (`ResolveOneTool`) and all reasons to raise in
`ContextRaises`. `ResolveProject` turns an argument or the descriptor into a project, `Discover` a folder or a name; `CallOf` is the call that a `stm32 build`
command line makes. Paths are sequences of names, so "inside" and "upwards" are prefixes.

`CProjectEdits` follows one call through all of it: `Load`, `Resolve`, `Snapshot`, then one `EditOption` for each edit of `Ops` (presets, aliases, symbols,
include paths, libraries, in the code's order), with `Decide` for every question `on_conflict` is asked, one `AddSource` per source with the four answers of `on_existing`,
`Write`/`Written` (the file is torn in between) and `Rollback`/`Restored`, and the headless build at the end. A document is a sequence of configurations, each
a sequence of options (of the C compiler, the C++ compiler, the linker) with a value and a list, in document order, because the code's record of an edit
depends on the order: `OldValue` is the list of the option matched last. `content` says of every file where it came from. `Again` makes the same call once more,
after whatever end. Regular expressions over option classes are the classes; a symbol is its name and its value. `Text` is the set
of strings; what hosts, calls, documents and numbered siblings are made of is said by `HostsAssumption`, `CallsAssumption`, `DocumentsAssumption`
and `NumberedAssumption`, types with next to nothing else (the files of a machine are finitely many, a name has a word, a project is a directory with the file). A source that is
itself a `.cproject` or `.project` is left out: copying it makes no project.

Things the model shows that no property forbids: a named configuration edits every configuration whose last words match it (`Debug` and `App.Debug`), although the
docstring of `_enumerate_cconfigurations` says that the exact name wins; several projects with exactly the name searched for do not count as ambiguous; a relative `--target` of
`add-source` is the destination file and, if it is a directory, that directory's name is un-excluded instead of the file's; the copies of `add_sources` outlive
the rollback; an OSError of the re-read after the write (`unread`) is caught by nobody, for `write_and_validate` catches only `ParseError` there (cproject.py:290-298) and `_apply_settings` only
`CProjectEditError` (client.py:841): the caller gets the raw error, the edit stays in place, whole, and is not rolled back, although the docstring says that a failure of either step
"triggers rollback in the caller" (cproject.py:234-235); OSErrors of the parse and of the prolog's read come through raw as well, but with the file untouched; `skip` also drops an entry that was there before the call in another list; a missing headless script is found out after the edits
are committed.

### CubeMXRun — a tool that does not say when it is done

`at` is the place in `run_cubemx`: the four looks of the loop in their order (`marker`, `log`, `exit`, `deadline`), the grace period
after an exit, the termination (`poll`, `kill`) and the return. `marker` and `existed` are what `_marker_appeared` compares; the log's mtime is `log`
(written since the last look) and `activity` (the last activity seen is within `liveness_threshold_s`), and `deadline` says whether the one being
watched has passed. The loop reads the clock once per iteration, so both change only where it is read (`ClockRead`). `verdict` joins
`success`, `timed_out` and `terminated_after_marker`. `Raise` is an exception in any of its places: the `finally` block runs and nobody
stops the launcher. The launcher, its JVM, what they write and when they exit are external.

### Programmer — vendor runs over a device and its files

Every method of `CubeProgrammer` is a sequence of tool runs, and a run (`Run`) ends well, fails or is interrupted (or killed at its deadline)
when it has done nothing, a part or all of its work; `Done` says what is there afterwards. `call` is the method in progress and stays, with what
its caller was told, until the next one. The device is two flash regions (`flash`, one per leg of a pair) and the read-out protection, of which only level 2
matters; firmware is the build it was compiled from, plain or signed, so that a stale signature can be told from a fresh one. A run works only
if nothing else holds the probe: a debug session in the slot (`session`), or the child of a `tail_swo` generator (`swo`), which lives on while the
generator is suspended between two records. `Route` is the one place where the slot is looked at. One thread makes the calls; between them the
user rebuilds the firmware and deletes signed files, and nobody rewrites an input while a call reads it.

`swo.gen` is the place of the `tail_swo` generator, `swo.child` the process it reads from, `swo.end` what its consumer sees. At the end of the output the generator is
`waiting`, two seconds at most, for the child's exit code (`ExitTold`); its `finally` clause sends SIGTERM (`closing`) and, if the child is still there
half a second later, SIGKILL (`killing`). It is `over` when that clause has run to its end, and `abandoned` when a Ctrl-C cut it off before SIGKILL, for `_terminate_swo` does not catch it.

Things the model shows that no property forbids: a Ctrl-C in the half second after SIGTERM (client.py:1616) skips the kill, so a child that ignores SIGTERM keeps the probe
(`SwoEnds` is about tails that are `over`); a child still alive two seconds after the end of its output has no exit code to raise and ends the stream like a drained one
(`outlived`), whatever becomes of it; a run that sets RDP level 2 and then fails, or is stopped, is told as a failure although the device is locked (`WrittenLockTold` is about runs that succeed);
a malformed application address raises after the bootloader has been written; a signing
that fails may leave a file that makes every retry refuse; and a suspended tail makes all other runs fail.

## 4. Runs

| Run | Instance | Shows |
|---|---|---|
| `debug_session` | 3 MI commands, any method sequence | the session implements `RemoteTarget` (`CallsAtMostOnce`); no call takes another's result or an older command's text; `HaltedIsTrue`, `BeliefTracksGdb`, `NoStopMissed`, `TablesAgree` |
| `debug_recipe` | 6 commands, fair | a check compares only at its own breakpoint; reads do not disturb the target; every recipe and every `with` block closes its session, also on a silent gdb |
| `debug_lifecycle` | 1 caller against other programs' servers, 2 ports, 3 processes, 1 interrupt, fair | a session talks to its own gdbserver; no orphan but after an interrupt in the places named `Unguarded`; every call ends; the probe comes free |
| `vcp_lines` | 1 board, capacity 2, 1 unplugging, fair | the reader implements `LineChannel` and serves it in spite of lost wake-ups; no dead reader used, deadlines kept against an endless stream |
| `vcp_probe` | 2 boards, 2 ports, 2 unpluggings | a known probe is the one attached and reconnected to |
| `stale_stop` (violation) | 4 commands | `run_until_breakpoint` may report a stop that is not its run's |
| `cubeide_build` | 2 builds, 1 fault, 2 seconds | one build at a time; no Eclipse loses a workspace it held; committed edits, links and a way back to `.cproject` are kept; no process is left; a build never waits for its tool alone |
| `source_deleted` (violation) | 1 build | a configured workspace that contains the project: the purge deletes the project |
| `cubemx_run` | 2 extensions of each deadline, fair | an old marker makes no success of a failed generation; a terminated tree writes no more; the loop ends however busy the log is |
| `project_edits` | 5 projects, 11 machines (a sound one with 86 calls, one with a project inside another, one whose descriptor asks for every configuration, eight ailing), each call made twice, 1 fault | a call makes all its edits or none, whatever fails but a rollback and short of a Ctrl-C, and reports no success without them; it changes and builds only what it was asked to; repeating it changes nothing |
| `symbol_conflict` (violation) | the same | a symbol defined with another value in an earlier list is added without asking |
| `programmer` | 2 calls, 2 builds of each firmware, 3 rungs | nothing irreversible without consent; what a pair reports is what the device holds; a lock is told as done exactly if its write run succeeded; no leftover of a signing is flashed; a tail leaves no child behind unless a Ctrl-C cut off its clean-up |

Bounds, and why they are enough. `MaxToken` counts MI commands of one client, of which the connection is the first: three allow an abandoned command,
its late answer and a command that could take it; the longest method (reset with resume, a run with its interrupt) takes two. The silent interrupts come on top.
`stale_stop` takes four. With four the refinement of `debug_session` holds as well (almost 6 million states), but takes longer than a run should.
Two builds let one run into the lock, the leftovers, the backups and the orphans of the other, and two seconds separate or confuse their backups; one fault is the crash that leaves something behind.
Two calls let one leave what the next trips over (a torn or an old signed file, a locked port), two builds tell a fresh signature from an old one; the ladder's twenty rungs are a counter, and one tail contends with the calls.
The projects of `project_edits` lie at the search depths 1, 2 (twice, with similar names) and 3 and in a hidden directory; the option lists differ between the two compilers and the
two configurations in every way that matters to one symbol (absent, there, there with two other values); each ailing machine lacks one thing. One fault is a failed copy, write, restore or a
Ctrl-C, and a call made twice shows what the first one left. With bounds this small a second fault can only make the restore fail too, which `AllOrNothing` excludes anyway.
Two extensions tell the first from the last; everything else in `CubeMXRun` is finite by itself.
The recipes need connect, reset, insert, continue, interrupt and a read: six. Three processes are a session plus
another's server or an orphan; two ports make both outcomes of the port walk happen, and its exhaustion. To a caller, another caller is a process
on a port like another program's, so one caller is enough for the liveness properties; the theorems are about any number. One unplugging covers a reader
that dies and recovers, two let boards trade places. A buffer of two overflows, and line numbers modulo four tell every gap of up to three lines.
`CHECK_DEADLOCK FALSE` is set because the systems do stop: at the command bound, when a session is closed and, for the VCP, when nothing is plugged in.

Fairness. The library's threads run on, its loops poll (`read_line` has a quantum, every `wait` a timeout, serial reads
a timeout) and clocks bring deadlines, so weak fairness of its own steps is justified; `SnapEnds` gets strong fairness because a
snapshot's list is finite. The caller owes nothing: no fairness on starting methods. The steps of
`run_cubemx` are fair, its deadline strongly so (it can pass only where the clock is read, which the loop does again and again), and CubeMX owes nothing. gdb and boards owe nothing, but that SIGKILL kills. A build's end needs no fairness to be discussed: its own steps are counted down
(`BuildsRunOut`, proved), so `NeverStuck`, which says that it always has one, is all that could fail. `RecipeCloses` is modulo `token = MaxToken`, the bound. `CProjectEdits` has no loop and no fairness.

## 5. Proofs

`GdbMI_proofs.tla` proves, for every `MaxToken` and every `InterruptToken` above it (`TokenAssumption`), pipes of any length and any number of abandoned calls:

* `TypeCorrect`: the type invariant.
* `ResultIsOwn`: `AnswerIsOwn`, no call takes another's result. It is not inductive. `Correlated` is: tokens below the
  interrupt's are unique among the commands sent (`TokensUnique`), every command in `stdin` and every result in `stdout` carries
  the token its command was sent with, and the call in progress waits for the last token issued.
* `OutputIsNotStale`: `OutputIsFresh`, a console call returns no text of a command whose result had been read before it began.
  It needs `Ordered`: pipes are first-in first-out and gdb executes one command at a time, so texts and results still under way
  belong to commands after the last one whose result was read (`StdinOrdered`, `StdoutBetween`, `StdoutOrdered`), and while a console call
  reads, the stream buffer holds only texts later than its start (`BufferFresh`).

`DebugSession_proofs.tla` extends both. A session is a user of the client (`SessionIsClient`), so it inherits everything above; on top of that, and again for any
number of commands, refusals, timeouts and spontaneous stops, it proves:

* `SessionTypes`: the types.
* `HaltedIsHalted` (`HaltedIsTrue`), `BeliefIsGdbs` (`BeliefTracksGdb`) and `TableIsGdbs` (`TablesAgree`): the flags and the breakpoint table are right between methods.
  None of them is inductive, because in the middle of a method they are wrong: gdb has executed what the session has yet to hear of. The invariant `SessionInv` says what the
  flags will be then. While nothing has upset the session (`Calm`), gdb has at most the one command of the call to execute (`NothingLeft`), and either the flags are right
  now (`Right`), or they are once the result under way has been noted (`RightAfter` that verb): `Outcomes`, by the place of the call. It rests on facts of the client's own: a
  call in progress is the last command sent (`CallIsLast`), the loss of the pipe is the last thing in it (`EofLast`), and no stop is older than its resume (`StopsPast`).
* `StopIsAwaited` (`NoStopMissed`): the stop a run waits for is in the pipe, in every state, upset or not (`RunAwaited`).
* `ComparesWhereItStopped` (`ComparesAtHit`) and `ReadsLiveState` (`LiveStateKept`), about the commands of `DebugRecipe`: a check compares where its own run stopped, and a reading
  command never resets or resumes the target. `OpAt` says which method runs at each place of a recipe, `ReadOnly` that a reading recipe has sent nothing that resumes the core, and `RunOnce` that a
  check's run is the only resume of its session: whatever stop ends it is the one the comparison is for.

* `SessionIsRemote` (`CallsAtMostOnce`): the refinement of `RemoteTarget`, for every sequence of methods, timeouts, late answers, refusals and deaths of gdb, upset or not. Initial
  states map to initial states, and there is one lemma per action that says which step of `RemoteTarget` it is, or that it is a stutter. The inductive invariant it needs is `RemoteInv`. `CallIsOwed`: while gdb lives, the command of a
  reading call is the last one owed, or its result is under way, never neither; that is why the verdict comes with the last command owed and with no other. `StopsInOrder`: the resumes that the stops in `_async_queue` and then in the pipe tell of
  increase strictly, so that the first one found is the oldest and taking one takes no other. `ConnectsFirst`: `-target-select` is the first command ever sent and there is no second, because its
  stop, the only one not due to a resume, would otherwise be told twice. That the result under way is unique is `ResultIsOwn`'s correlation of tokens. And behind the end of
  file there is nothing in the pipe (`EofLast`), so that a call that is lost has no result under way and a wait that is lost no stop untold.

`DebugLifecycle_proofs.tla` proves, for any callers, ports, processes and interrupts (`LifecycleAssumption`), `LifecycleTypes` and

* `PeersAreOwn` (`PeerIsOwn`): one gdbserver at a time listens, because the probe is one (`OneListens`); past its handshake a caller's own server, while alive,
  listens on the port tried last (`Paired`); so whoever answers there is that server.
* `NoneIsOrphaned` (`NoOrphan`): the invariant names what a caller holds at each place (`HandsOf`), that no process is in two hands (`Apart`; a signal to another's process
  could otherwise undo a kill), and where what it lets go of is dead or killed (`Stopped`). It is void after an interrupt in one of the places of `Unguarded`, as the property is.

Each proof has an initial step, one lemma per action for the step, and a temporal QED. `CubeIDEBuild_proofs.tla` proves, for any finite set of builds, seconds and faults (`BuildAssumption`, `FaultsAssumption`):

* `MutualExclusion`: `OneBuild`. The invariant is `HoldsThePath`: a build inside the `with` statement holds the lock of the very file
  at the lock's path, and nobody else holds one. The step it must survive is `Reset`.
* `NoTreeLeft`: `TreeGone`, inductive together with the types of `ToolRun`.

The second half of the module goes on from there to what the builds do to the files, under the same assumptions; all of it rests on the invariant of `MutualExclusion`, which makes every
step inside the lock that of the only build there:

* `BuildTyping`: `BuildTypeOK`, in which the new inode of a lock file is the point: there must always be a free one.
* `CommitsStay` (`EditsKept`) and `TornHasBackup` (`Recoverable`): a build in the middle of its edits still has what it started from, in the tree it parsed and in its
  backup (`Own`), so a rollback brings back the last commit. That no set of edits can be taken for a torn file is the assumption that no build is called `"torn"` or `"none"` (`TornIsNoEdit`).
* `LinksStay` (`LinksKept`): Eclipse drops the links when it opens a project it knows whose folders are gone. `Linked` says that the folders of a known project are there while a
  build is past its import decision or a tool runs (`About`), and that a build purges only what Eclipse knows elsewhere.
* `NoEclipseHarmed` (`EclipseSpared`): an Eclipse of before the build either still holds the very lock that the probe is going to try, or is gone for good by the time anything is wiped (`Spared`, `Lasts`).
* `BuildsRunOut` (`OnlyForward`): a build ends. `StepsLeft` counts the steps of its own that it has left, at most 19: by its place in `build()`, and while a tool runs by the place in `run_tool`, with as
  many again while `needs_import` allows for the retry. Every step of its own takes one away and no other step gives one back. It rests on `Abreast`: a build is running exactly while its call of `run_tool` is under way.
* `AlwaysReady`: the other half, that it always has such a step. It is `NeverStuck` with the guards written out (`Ready`) in the place of ENABLED: `.location` is always one of those the decision knows, and a
  call that looks at its launcher always finds one to reap or to signal. On the instance of `cubeide_build` TLC finds `Ready` and ENABLED to be the same.

`CubeMXRun_proofs.tla` proves the safety of `run_cubemx` for any number of extensions (`ExtensionAssumption`), from one inductive invariant `Inv`:
`Typed`, `SuccessFresh`, `WriterGone` and `NoScriptLeft`. `SuccessHasReason` says why a success was reported, in every state from
the report on; `TerminationCarriedOut` says that a decision to terminate is followed by the two signals before `run_cubemx` returns.

`Programmer_proofs.tla` proves all six properties of the run `programmer` for any number of calls and builds and any length of the ladder
(`ProgrammerAssumption`): `TypesHold`, `ConsentIsFirst`, `PairIsTold`, `SignaturesAreSound`, `WrittenLockIsTold` and `TailEnds`. The last two say no more than their properties do:
nothing of a run that fails after its lock took, nothing of a tail whose clean-up was cut off by a Ctrl-C, and no exit code of a child that outlived the end of its output by two seconds. The properties
speak of a call that is over; the inductive invariant `Inv` says what holds on the way there. `Places`: which verbs can be where, so that only an
approved erase or write reaches the tool (`Consented`). `PairGoesOn`: a pair that still runs has touched nothing, or written its first leg
whole. `SourcesFresh`: while a call runs its inputs are those it began with, and a signed file it has taken up is of that input or gone.
`SigningGoesOn`: which legs are through signing and what the first one already holds. `ReadsBackOpen`: a write that is being read back left the port
open. `ReturnInv`, `GoInv` and `NextLegInv` treat once what many methods do, and the actions follow from them.

`CProjectEdits_proofs.tla` proves the three properties of `project_edits` for any machines, calls, documents, numbers of repetitions and faults that the assumptions of `CProjectEdits` allow:

* `EditsTyped`: the inductive invariant `EditsInv`. The properties speak of a call that is over; `EditsInv` says what a call has before that. `ControlInv`, `SettingsInv`: from the snapshot on there
  is a backup of what the call began with, the file is what it was, torn, or what the editor holds, and where the call is tells which. `MeantInv`: it has resolved to a project its caller can mean, which is where
  `ResolvesToMeant` and `FoundBySearch` go through the descriptor, the path and the search. `TreeInv`: the document in memory is alongside the former one and differs only in what was asked for.
  `DoneInv`: every edit that is no longer `Left` is in every option in scope. `SourcesInv`: every source that was added is there and un-excluded. `ContentInv`: no file of the user's was overwritten without leave.
* `MakesAllOrNothing` (`AllOrNothing`) and `ChangesOnlyAsked` (`OnlyAsked`) follow from it. The former says that an edit is whole or not there, not that every failure is rolled back: one whose re-read failed stays.
* `RepeatIsHarmless` (`RepeatChangesNothing`) needs `RepeatInv` as well. An edit, once made, is `Settled`: its value or entry is in all the options it is about and no symbol clashes with it, or one does and
  `on_conflict` says "skip", so that what the edit would add again would be dropped again. No later edit of the call undoes that: they are `Apart`, because a call's edits of one class agree and
  because it defines each symbol once - without that, the second value conflicts with the first for ever. So a call that succeeded leaves a document in which all it asks for is settled (`EarlierInv`),
  and when it is made again the document in memory never differs from it but between a question of `on_conflict` and its answer (`SameInv`).

The document is edited by `FlattenSeq`, a recursive function, over lists of any length: what it does to the elements of a list (`Flattening`) is proved by `SetInduction`, induction over a set of numbers
from the library's `WFMin`, since no prover here instantiates an induction theorem's predicate. The tables of presets and the resolution of names are finite and proved by cases.

`VcpReader_proofs.tla` proves, for any set of boards, any ports, any buffer capacity and any bounds (the assumptions of `VcpReader`):

* `TypeCorrect`: the types, and that the buffer keeps to its capacity.
* `ReaderIsChannel`: `ChannelSafe`, the refinement of `LineChannel`. Initial states map to initial states (the buffer and the backlog are empty) and every step to a step
  of the channel or a stutter: one lemma per action, each with the channel step it is. It needs the inductive invariant of `Inductive`: outside a follow's yields the backlog
  is empty, and outside a reading nothing has been handed out, so that what a call takes is the head of what the channel holds.

* `DeadIsRecycled` (`DeadNotUsed`): a drain thread records its failure before it is gone (`DeadOK`), which is what `is_alive` looks at.
* `ProbeIsKept` (`SameProbe`): what the context knows of the probe changes only while there is no reader, and a reader carries a copy of it to every reconnect (`ProbeOK`).

Only model-checked: `NeverStuck` of `CubeIDEBuild` as it stands (the prover has no ENABLED; `AlwaysReady` is what can be said without) and all liveness (it has no fairness reasoning either): `RecipeCloses`, `CallEnds`, `ProbeFreed`, `CallReturns`, `ChannelServed`
and `RunEnds`. The three properties expected to be violated are of course not proved.

## 6. Limits

gdb, the gdbserver, boards and the operating system are external models, as permissive as the code's comments allow. Time is
abstract: a deadline may pass at any moment, so durations, budgets and their sums are not checked. Payloads, formatting,
logging and parsing (of MI records, SVD files and tool output) are left out; so are the schemas' contents and, in `CProjectEdits`, another program that saves `.cproject`
between the parse and the write, which would be overwritten. Hazards with a note in `PROJECT.json` name what no property covers and why. Windows-only
code paths (taskkill, msvcrt locks) are not modelled.
