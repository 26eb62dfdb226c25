------------------------------ MODULE VcpReader ------------------------------
(***************************************************************************)
(* The serial reader of vcp/reader.py and its owner, vcp/client.py: one    *)
(* cached reader per context, a drain thread that moves lines from the     *)
(* serial handle to a bounded buffer, and the calls that take them out     *)
(* again while boards are reset, unplugged and enumerated anew.            *)
(*                                                                         *)
(* Bytes are counted in whole lines, and a line is its number in the order *)
(* of extraction, modulo Wrap.  A board is identified with the serial      *)
(* number of its ST-LINK.  One call is made at a time, on one thread; a    *)
(* generator that tail() returned is run to its end or dropped.            *)
(***************************************************************************)
EXTENDS Integers, Sequences

CONSTANTS
    Boards,      \* the boards that may be plugged in
    Ports,       \* number of device nodes
    Capacity,    \* line_buffer_capacity
    MaxWire,     \* bound: lines waiting in the operating system's buffer
    Wrap,        \* bound: lines are numbered modulo Wrap
    MaxUnplugs   \* bound: resets and unpluggings

ASSUME VcpAssumption ==
    /\ Ports \in Nat /\ MaxWire \in Nat /\ MaxUnplugs \in Nat
    /\ Capacity \in Nat \ {0} /\ Wrap \in Nat /\ Wrap > Capacity + 1
    /\ "none" \notin Boards /\ "lost" \notin Boards

VARIABLES
    where,         \* each board's device node, 0 while it is not enumerated
    unplugs,       \* how often a board has gone away
    default_sn,    \* ctx.default_probe_sn
    board,         \* firmware.board: the board the project descriptor names
    active,        \* ctx.session_state.active_vcp_reader is set
    reader,        \* the reader's scalar fields
    drain,         \* the drain thread: "none", "top", "read", "extract", "dead"
    serial,        \* the board the handle is connected to, "lost", or "none"
    wire,          \* lines received by the system and not yet read
    pending,       \* lines in _pending
    buffer,        \* _buffer
    next,          \* number of the next line
    call           \* the call in progress and its locals

env  == <<where, unplugs, default_sn, board>>
data == <<wire, pending, buffer, next>>
vars == <<env, active, reader, drain, serial, data, call>>

\* meant: history, the board whose port the discovery picked.
NewReader(port, sn) == [port |-> port, sn |-> sn, open |-> FALSE, failed |-> FALSE,
                        stop |-> FALSE, event |-> FALSE, meant |-> "none"]

\* port: the argument; to, found: where discovery points; late: the deadline
\* has passed; timed: there is one; got: a line was taken; last: history, the
\* line taken last, Wrap before the first.
NoCall == [kind |-> "none", pc |-> "idle", port |-> 0, to |-> 0, found |-> "none",
           late |-> FALSE, timed |-> TRUE, got |-> FALSE, backlog |-> <<>>,
           last |-> Wrap]

Init ==
    /\ where \in [Boards -> 0..Ports] /\ unplugs = 0
    /\ \A b, c \in Boards : where[b] = where[c] /\ where[b] # 0 => b = c
    /\ default_sn \in {"none"} \cup Boards /\ board \in {"none"} \cup Boards
    /\ active = FALSE /\ reader = NewReader(0, "none")
    /\ drain = "none" /\ serial = "none"
    /\ wire = 0 /\ pending = 0 /\ buffer = <<>> /\ next = 0
    /\ call = NoCall

-----------------------------------------------------------------------------
(* The drain thread.                                                       *)

DrainTop ==
    /\ drain = "top"
    /\ drain' = IF reader.stop THEN "none" ELSE "read"
    /\ UNCHANGED <<env, active, reader, serial, data, call>>

\* A read brings what there is, or nothing within its timeout, or an error.
DrainRead ==
    /\ drain = "read"
    /\ \/ /\ serial # "lost" /\ drain' = "top"
          /\ UNCHANGED <<wire, pending, reader>>
       \/ \E k \in 1..wire :
          /\ wire' = wire - k /\ pending' = pending + k /\ drain' = "extract"
          /\ UNCHANGED reader
       \/ /\ serial = "lost" /\ drain' = "dead"
          /\ reader' = [reader EXCEPT !.failed = TRUE, !.event = TRUE]
          /\ UNCHANGED <<wire, pending>>
    /\ UNCHANGED <<env, active, serial, buffer, next, call>>

\* A full buffer loses its oldest line.
Unbounded(b) == b                             \* mutant: no maxlen
MakeRoom(b) == IF Len(b) = Capacity THEN Tail(b) ELSE b

DrainExtract ==
    /\ drain = "extract"
    /\ \/ /\ pending > 0 /\ pending' = pending - 1
          /\ buffer' = Append(MakeRoom(buffer), next)
          /\ next' = (next + 1) % Wrap
          /\ UNCHANGED <<drain, reader>>
       \/ /\ pending = 0 /\ drain' = "top"
          /\ reader' = [reader EXCEPT !.event = TRUE]
          /\ UNCHANGED <<pending, buffer, next>>
    /\ UNCHANGED <<env, active, serial, wire, call>>

DrainStep == DrainTop \/ DrainRead \/ DrainExtract

-----------------------------------------------------------------------------
(* Attaching: _ensure_reader, reconnect, close.                            *)

At(pc) == call.pc = pc
Goto(pc) == call' = [call EXCEPT !.pc = pc]
End == call' = NoCall
BoardAt(p) == {b \in Boards : where[b] = p}

\* discover_vcp_ports
Candidates(sn) == {b \in Boards : where[b] # 0 /\ sn \in {"none", b}}

Kinds == {"tail", "follow", "send", "reconnect"}

Call(kind, port, timed) ==
    /\ At("idle") /\ (kind = "follow" \/ timed)
    /\ call' = [NoCall EXCEPT !.kind = kind, !.port = port, !.timed = timed,
                  !.pc = IF kind = "reconnect" /\ active THEN "recycle" ELSE "ensure"]
    /\ UNCHANGED <<env, active, reader, drain, serial, data>>

AliveByPath ==                                \* mutant: the port is there
    reader.open /\ BoardAt(reader.port) # {}
IsAlive == reader.open /\ ~reader.failed /\ BoardAt(reader.port) # {}

\* What a call does once it has its reader.
Begin == CASE call.kind = "send"      -> "flush"
           [] call.kind = "follow"    -> "backlog"
           [] call.kind = "tail"      -> "turn"
           [] call.kind = "reconnect" -> "idle"
Started == IF Begin = "idle" THEN NoCall
           ELSE [NoCall EXCEPT !.kind = call.kind, !.timed = call.timed, !.pc = Begin]

\* A cached reader: refused for another port, used if alive, else recycled.
EnsureCached ==
    /\ At("ensure") /\ active
    /\ IF call.port \notin {0, reader.port} THEN End
       ELSE IF IsAlive THEN call' = Started
       ELSE Goto("recycle")
    /\ UNCHANGED <<env, active, reader, drain, serial, data>>

\* No reader: the port asked for, or the only candidate, or, among several,
\* the board the project names, whose serial number is then kept.
Attach(port, found, sn) ==
    /\ call' = [call EXCEPT !.pc = "attach", !.to = port, !.found = found]
    /\ default_sn' = sn

EnsureNew ==
    /\ At("ensure") /\ ~active
    /\ LET seen == Candidates(default_sn) IN
       \/ call.port # 0 /\ Attach(call.port, "none", default_sn)
       \/ /\ call.port = 0 /\ \E b \in seen : seen = {b} /\ Attach(where[b], b, default_sn)
       \/ /\ call.port = 0 /\ board \in seen /\ seen # {board}
          /\ Attach(where[board], board, board)
       \/ /\ call.port = 0 /\ \A b \in seen : seen # {b}
          /\ seen = {} /\ call.kind = "reconnect" => call.late
          /\ End /\ UNCHANGED default_sn
    /\ UNCHANGED <<where, unplugs, board, active, reader, drain, serial, data>>

\* open(): by whatever is on the port by now; it may be busy or gone.
Opened(r, to) == [r EXCEPT !.port = to, !.open = TRUE, !.failed = FALSE, !.stop = FALSE,
                           !.meant = call.found]

SnBeforeLatch == IF call.found = board THEN "none" ELSE default_sn    \* mutant
SnOfReader == default_sn

OpenNew ==
    /\ At("attach")
    /\ \/ \E b \in BoardAt(call.to) :
          /\ reader' = Opened(NewReader(call.to, SnOfReader), call.to)
          /\ active' = TRUE /\ serial' = b /\ drain' = "top"
          /\ wire' = 0 /\ pending' = 0 /\ buffer' = <<>>
          /\ call' = Started
       \/ End /\ UNCHANGED <<active, reader, serial, drain, wire, pending, buffer>>
    /\ UNCHANGED <<env, next>>

\* close() of an open reader: stop the thread, join it, close the handle.
StopDrain(then) ==
    /\ reader' = [reader EXCEPT !.stop = TRUE, !.event = TRUE]
    /\ Goto(then)

Join(then) ==
    /\ drain \in {"none", "dead"} /\ drain' = "none"
    /\ serial' = "none" /\ wire' = 0
    /\ reader' = [reader EXCEPT !.open = FALSE]
    /\ call' = then

\* _VcpReader.reconnect; the wait for the probe has a deadline of its own.
Polling == [call EXCEPT !.pc = "poll", !.late = FALSE]

Recycle ==
    /\ \/ /\ At("recycle") /\ reader.open /\ StopDrain("join")
          /\ UNCHANGED <<drain, serial, wire>>
       \/ /\ At("recycle") /\ ~reader.open /\ call' = Polling
          /\ UNCHANGED <<reader, drain, serial, wire>>
       \/ At("join") /\ Join(Polling)
    /\ UNCHANGED <<env, active, pending, buffer, next>>

Poll ==
    /\ At("poll")
    /\ \/ call.late /\ End
       \/ /\ ~call.late /\ \E b \in Candidates(reader.sn) :
             call' = [call EXCEPT !.pc = "reopen", !.to = where[b], !.found = b]
    /\ UNCHANGED <<env, active, reader, drain, serial, data>>

\* open() again: _pending and _buffer are what they were.
Reopen ==
    /\ At("reopen")
    /\ \/ \E b \in BoardAt(call.to) :
          /\ reader' = Opened(reader, call.to)
          /\ serial' = b /\ drain' = "top" /\ wire' = 0
          /\ call' = Started
       \/ /\ reader' = [reader EXCEPT !.port = call.to]
          /\ End /\ UNCHANGED <<serial, drain, wire>>
    /\ UNCHANGED <<env, active, pending, buffer, next>>

Close ==
    /\ \/ /\ At("idle") /\ active /\ reader.open /\ StopDrain("release")
          /\ UNCHANGED <<active, drain, serial, wire>>
       \/ /\ At("idle") /\ active /\ ~reader.open /\ active' = FALSE
          /\ UNCHANGED <<reader, drain, serial, wire, call>>
       \/ At("release") /\ Join(NoCall) /\ active' = FALSE
    /\ UNCHANGED <<env, pending, buffer, next>>

-----------------------------------------------------------------------------
(* Reading: read_lines, read_lines_with_idle, _pop_one.                    *)

\* A line goes to the caller.
Takes(line, pc) == [call EXCEPT !.got = TRUE, !.last = line, !.pc = pc]

\* send_and_read: throw away what is buffered, then write.
Flush ==
    /\ At("flush") /\ buffer' = <<>> /\ Goto("write")
    /\ UNCHANGED <<env, active, reader, drain, serial, wire, pending, next>>

WriteLine ==
    /\ At("write")
    /\ \/ Goto("look")
       \/ serial = "lost" /\ End
    /\ UNCHANGED <<env, active, reader, drain, serial, data>>

\* Follow first takes the buffer over, all of it and at once (IMP-19), and
\* hands out its last lines, unless it is asked for none.
LeavesAll(b) == b                             \* mutant: snapshot, no clear
LeavesBehind(b) == <<>>

TakeBacklog ==
    /\ At("backlog")
    /\ \/ \E n \in 0..(Len(buffer) - 1) :
          /\ call' = [call EXCEPT !.backlog = SubSeq(buffer, n + 1, Len(buffer)),
                                  !.pc = "yield"]
          /\ buffer' = LeavesBehind(buffer)
       \/ Goto("turn") /\ UNCHANGED buffer      \* last_n = 0, or no line
    /\ UNCHANGED <<env, active, reader, drain, serial, wire, pending, next>>

YieldBacklog ==
    /\ At("yield")
    /\ \/ /\ call.backlog # <<>>
          /\ call' = [Takes(Head(call.backlog), "yield") EXCEPT !.backlog = Tail(@)]
       \/ call.backlog = <<>> /\ Goto("turn")
    /\ UNCHANGED <<env, active, reader, drain, serial, data>>

\* The head of the reading loop: the wall budget bounds the whole collection,
\* also while lines keep coming (A-016).
IdleGapOnly == call.late /\ call.kind # "send"   \* mutant: only the idle gap
BudgetSpent == call.late

Turn ==
    /\ At("turn") /\ IF BudgetSpent THEN End ELSE Goto("look")
    /\ UNCHANGED <<env, active, reader, drain, serial, data>>

\* Under the lock: the oldest line, or none.  A call gives up empty-handed at
\* its deadline, send_and_read after the idle gap as well, and follow goes
\* round its loop.
Look ==
    /\ At("look")
    /\ \/ /\ buffer # <<>> /\ buffer' = Tail(buffer)
          /\ call' = Takes(Head(buffer), "turn")
       \/ /\ buffer = <<>> /\ UNCHANGED buffer
          /\ \/ call.late \/ (call.kind = "send" /\ call.got)
             \/ call.kind = "follow"
          /\ IF call.kind = "follow" THEN Goto("turn") ELSE End
       \/ /\ buffer = <<>> /\ ~call.late /\ UNCHANGED buffer
          /\ Goto("clear")
    /\ UNCHANGED <<env, active, reader, drain, serial, wire, pending, next>>

\* The event is cleared after the look, so a line may come in between: the
\* wait is never longer than 0.1 s.
ClearEvent ==
    /\ At("clear") /\ reader' = [reader EXCEPT !.event = FALSE] /\ Goto("wait")
    /\ UNCHANGED <<env, active, drain, serial, data>>

WaitsForEvent == FALSE                        \* mutant: wait() without timeout
WaitExpires == TRUE

Wait ==
    /\ At("wait") /\ (reader.event \/ WaitExpires) /\ Goto("look")
    /\ UNCHANGED <<env, active, reader, drain, serial, data>>

\* The caller has enough: last_n lines of a tail, Ctrl-C in a follow, also
\* amid the backlog, whose other lines are gone with the generator.
Enough ==
    /\ call.kind \in {"tail", "follow"} /\ call.got
    /\ At("turn") \/ At("yield")
    /\ End
    /\ UNCHANGED <<env, active, reader, drain, serial, data>>

Deadline ==
    /\ ~At("idle") /\ (call.timed \/ At("poll")) /\ ~call.late
    /\ call' = [call EXCEPT !.late = TRUE]
    /\ UNCHANGED <<env, active, reader, drain, serial, data>>

CallStep ==
    \/ EnsureCached \/ EnsureNew \/ OpenNew \/ Recycle \/ Poll \/ Reopen
    \/ Flush \/ WriteLine \/ TakeBacklog \/ YieldBacklog
    \/ Turn \/ Look \/ ClearEvent \/ Wait
    \/ ~At("idle") /\ Close

-----------------------------------------------------------------------------
(* The boards (external).                                                  *)

Emit ==
    /\ serial \in Boards /\ wire < MaxWire /\ wire' = wire + 1
    /\ UNCHANGED <<env, active, reader, drain, serial, pending, buffer, next, call>>

\* A reset of the probe or a pulled cable; the handle is lost with it.
Unplug(b) ==
    /\ where[b] # 0 /\ unplugs < MaxUnplugs
    /\ where' = [where EXCEPT ![b] = 0] /\ unplugs' = unplugs + 1
    /\ serial' = IF serial = b THEN "lost" ELSE serial
    /\ wire' = IF serial = b THEN 0 ELSE wire
    /\ UNCHANGED <<default_sn, board, active, reader, drain, pending, buffer, next, call>>

Plug(b, p) ==
    /\ where[b] = 0 /\ BoardAt(p) = {}
    /\ where' = [where EXCEPT ![b] = p]
    /\ UNCHANGED <<unplugs, default_sn, board, active, reader, drain, serial, data, call>>

Next ==
    \/ \E kind \in Kinds, port \in 0..Ports, timed \in BOOLEAN : Call(kind, port, timed)
    \/ CallStep \/ Enough \/ Deadline \/ (At("idle") /\ Close)
    \/ DrainStep
    \/ Emit
    \/ \E b \in Boards : Unplug(b) \/ \E p \in 1..Ports : Plug(b, p)

Spec == Init /\ [][Next]_vars

\* Both threads run on, the drain thread's reads have a timeout, and clocks
\* bring deadlines.  The board owes nothing.
FairSpec == Spec /\ WF_vars(CallStep) /\ WF_vars(DrainStep) /\ WF_vars(Deadline)

-----------------------------------------------------------------------------
(* Properties.                                                             *)

PCs == {"idle", "ensure", "recycle", "attach", "join", "release", "poll", "reopen",
        "flush", "write", "backlog", "yield", "turn", "look", "clear", "wait"}
Lines == 0..(Wrap - 1)

ReaderType ==
    [port : 0..Ports, sn : {"none"} \cup Boards, open : BOOLEAN, failed : BOOLEAN,
     stop : BOOLEAN, event : BOOLEAN, meant : {"none"} \cup Boards]

CallType ==
    [kind : Kinds \cup {"none"}, pc : PCs, port : 0..Ports, to : 0..Ports,
     found : {"none"} \cup Boards, late : BOOLEAN, timed : BOOLEAN,
     got : BOOLEAN, backlog : Seq(Lines), last : 0..Wrap]

\* Types of all variables; the buffer keeps to its capacity.
TypeOK ==
    /\ where \in [Boards -> 0..Ports] /\ unplugs \in 0..MaxUnplugs
    /\ default_sn \in {"none"} \cup Boards /\ board \in {"none"} \cup Boards
    /\ active \in BOOLEAN /\ reader \in ReaderType
    /\ drain \in {"none", "top", "read", "extract", "dead"}
    /\ serial \in {"none", "lost"} \cup Boards
    /\ wire \in 0..MaxWire /\ pending \in 0..MaxWire /\ next \in Lines
    /\ buffer \in Seq(Lines) /\ Len(buffer) <= Capacity
    /\ call \in CallType

\* The reader as a channel: what is on its way to the caller is the backlog a
\* follow took over and then the buffer.
ReadingPCs == {"write", "yield", "turn", "look", "clear", "wait"}
Reading == call.pc \in ReadingPCs

Channel == INSTANCE LineChannel WITH held <- call.backlog \o buffer,
                                     out <- call.last, reading <- Reading

\* The reader implements the channel: lines are handed out in the order in
\* which they came, each once, within a call and from one call to the next,
\* over reconnects too; the drain thread filling the buffer under a follow that
\* takes it over loses none (IMP-19) but the oldest of a full buffer.
ChannelSafe == Channel!Spec

\* A reader whose drain thread has died is never used as it is: the call that
\* finds it reconnects first (SB-002, IMP-17).
DeadNotUsed ==
    [][At("ensure") /\ call'.pc \in {"flush", "backlog", "turn"} => drain # "dead"]_vars

\* Whenever the probe is known (configured, or latched by the match with the
\* project's board), discovery picks that probe's port, at the first attach
\* and at every reconnect.
SameProbe ==
    default_sn # "none" /\ reader.open /\ reader.meant # "none" => reader.meant = default_sn

\* A call with a deadline comes back, even from a board that never stops
\* sending (A-016) or never comes back.
CallReturns == (~At("idle") /\ call.timed) ~> At("idle")

\* A call that reads while a line is there hands one out or ends, also when the
\* wake-up was lost between its look and its clear.
ChannelServed == Channel!Served
=============================================================================
