--------------------------- MODULE DebugLifecycle ---------------------------
(***************************************************************************)
(* The two processes of a debug session, from start_session to close:      *)
(* debug/gdbserver.py (spawn, handshake, close), the process side of       *)
(* debug/gdb.py (spawn_gdb, close), the port walk and the cleanup paths of *)
(* Debug.start_session, and the context's active_debug_session slot.       *)
(*                                                                         *)
(* Several callers (one SubstrateContext each: two `stm32 debug` commands, *)
(* or a command and a script) and other programs compete for the gdb ports *)
(* and for the one ST-LINK probe.  A KeyboardInterrupt may strike a caller *)
(* wherever it waits.  What is said over gdb's pipes is the subject of GdbMI.          *)
(***************************************************************************)
EXTENDS Integers

CONSTANTS
    Callers,        \* contexts that open sessions
    Ports,          \* length of the gdb port fallback range
    MaxProcs,       \* bound: processes alive or held at the same time
    MaxInterrupts   \* bound: KeyboardInterrupts

ASSUME LifecycleAssumption ==
    Ports \in Nat /\ MaxProcs \in Nat /\ MaxInterrupts \in Nat

VARIABLES
    procs,      \* the processes
    me,         \* each caller: its place in the code and its locals
    slot,       \* ctx.session_state.active_debug_session is set
    cut         \* history: KeyboardInterrupts so far, and whether one struck
                \* where no handler waits for it

vars == <<procs, me, slot, cut>>

Pids == 1..MaxProcs

\* said: what a gdbserver has printed; port: where it listens; peer: the
\* server a gdb is connected to; killed: SIGKILL has been sent.  -gdb-exit and
\* SIGTERM leave no trace: a process may obey them, or end at any other time.
Process(kind, port) == [kind |-> kind, live |-> TRUE, killed |-> FALSE,
                        said |-> "none", port |-> port, peer |-> 0]
NoProcess == [kind |-> "none", live |-> FALSE, killed |-> FALSE,
              said |-> "none", port |-> 0, peer |-> 0]

\* srv, gdb: the caller's processes; tried: ports tried; after: what follows a
\* failed handshake; via: the try block a cleanup runs in.
Resting == [pc |-> "idle", srv |-> 0, gdb |-> 0, tried |-> 0,
            after |-> "raise", via |-> "none"]

Init ==
    /\ procs = [p \in Pids |-> NoProcess]
    /\ me = [c \in Callers |-> Resting]
    /\ slot = [c \in Callers |-> FALSE]
    /\ cut = [count |-> 0, unguarded |-> FALSE]

-----------------------------------------------------------------------------
(* The steps of a caller.                                                  *)

At(c, place) == me[c].pc = place
Srv(c) == procs[me[c].srv]
Gdb(c) == procs[me[c].gdb]

Goto(c, place) == me' = [me EXCEPT ![c].pc = place]

\* The call is over: its locals go, and with them what a dead process said.
End(c) ==
    /\ me' = [me EXCEPT ![c] = [Resting EXCEPT !.via = me[c].via]]
    /\ procs' = [p \in Pids |-> IF p = me[c].srv /\ ~procs[p].live
                                THEN NoProcess ELSE procs[p]]

Held(p) == \E c \in Callers : p \in {me[c].srv, me[c].gdb}
Free == {p \in Pids : ~procs[p].live /\ ~Held(p)}
Spawn(p, kind, port) ==
    /\ p \in Free /\ \A q \in Free : p <= q
    /\ procs' = [procs EXCEPT ![p] = Process(kind, port)]

\* Every wait for a process has a timeout.
WaitsForever == FALSE                         \* mutant: a bare wait()
WaitReturns == TRUE

Signal(p, sig) == procs' = [procs EXCEPT ![p].killed = (sig = "kill")]

\* start_session: refused while the slot is taken.
StartSession(c) ==
    /\ At(c, "idle") /\ ~slot[c]
    /\ me' = [me EXCEPT ![c] = [Resting EXCEPT !.pc = "walk"]]
    /\ UNCHANGED <<procs, slot, cut>>

PortsLeft(c) == me[c].tried < Ports

\* The next port of the range, or an error: the budget is spent, the binary
\* missing, or no port left.
Walk(c) ==
    /\ At(c, "walk")
    /\ \/ \E p \in Pids :
          /\ PortsLeft(c) /\ Spawn(p, "server", me[c].tried + 1)
          /\ me' = [me EXCEPT ![c].srv = p, ![c].tried = @ + 1, ![c].pc = "handshake"]
       \/ End(c)
    /\ UNCHANGED <<slot, cut>>

\* One turn of the handshake loop: poll, then read a line.
AnnouncedAnything(p) == p.live /\ p.said # "none"   \* mutant: any line will do
Announced(p) == p.live /\ p.said = "ready"

HandshakeDone(c) ==
    /\ At(c, "handshake") /\ Announced(Srv(c))
    /\ Goto(c, "spawn_gdb")
    /\ UNCHANGED <<procs, slot, cut>>

\* The server is gone: another port if its output says the port was busy.
HandshakeExited(c) ==
    /\ At(c, "handshake") /\ ~Srv(c).live
    /\ IF Srv(c).said = "port-busy" THEN Goto(c, "walk") /\ UNCHANGED procs ELSE End(c)
    /\ UNCHANGED <<slot, cut>>

\* An error line of a server that stays, or the handshake deadline: SIGTERM.
HandshakeFails(c) ==
    /\ At(c, "handshake")
    /\ \E why \in {"next", "raise"} :
          /\ why = "next" => Srv(c).live /\ Srv(c).said = "port-busy"
          /\ me' = [me EXCEPT ![c].after = why, ![c].pc = "hs_term"]
    /\ Signal(me[c].srv, "term")
    /\ UNCHANGED <<slot, cut>>

AfterHandshake(c) ==
    IF me[c].after = "next"
      THEN me' = [me EXCEPT ![c].after = "raise", ![c].pc = "walk"] /\ UNCHANGED procs
      ELSE End(c)

\* wait(1.0) after SIGTERM, then SIGKILL and a reap that gives up after 1 s.
HandshakeReap(c) ==
    /\ \/ At(c, "hs_term") /\ ~Srv(c).live /\ AfterHandshake(c)
       \/ At(c, "hs_term") /\ WaitReturns /\ Signal(me[c].srv, "kill") /\ Goto(c, "hs_kill")
       \/ At(c, "hs_kill") /\ WaitReturns /\ AfterHandshake(c)
    /\ UNCHANGED <<slot, cut>>

\* spawn_gdb: the process first.  If it cannot be spawned the server is closed.
SpawnGdb(c) ==
    /\ At(c, "spawn_gdb")
    /\ \/ \E p \in Pids :
          /\ Spawn(p, "gdb", 0)
          /\ me' = [me EXCEPT ![c].gdb = p, ![c].pc = "connect"]
       \/ Goto(c, "srv_close") /\ UNCHANGED procs
    /\ UNCHANGED <<slot, cut>>

\* Then the connect, to whoever listens on the port.
Connect(c) ==
    /\ At(c, "connect") /\ Gdb(c).live
    /\ \E p \in Pids :
          /\ procs[p].said = "ready" /\ procs[p].live /\ procs[p].port = me[c].tried
          /\ procs' = [procs EXCEPT ![me[c].gdb].peer = p]
    /\ Goto(c, "reset")
    /\ UNCHANGED <<slot, cut>>

\* ^error, a timeout or the loss of gdb: close what there is.
StartFails(c) ==
    /\ me[c].pc \in {"connect", "reset"}
    /\ me' = [me EXCEPT ![c].via = me[c].pc, ![c].pc = "gdb_close"]
    /\ UNCHANGED <<procs, slot, cut>>

\* The target has been reset (or is not to be); the session is registered.
Open(c) ==
    /\ At(c, "reset") /\ Goto(c, "open")
    /\ slot' = [slot EXCEPT ![c] = TRUE]
    /\ UNCHANGED <<procs, cut>>

Close(c) ==
    /\ At(c, "open")
    /\ slot' = [slot EXCEPT ![c] = FALSE]
    /\ me' = [me EXCEPT ![c].via = "close", ![c].pc = "gdb_close"]
    /\ UNCHANGED <<procs, cut>>

\* GDBClient.close: -gdb-exit and wait, SIGTERM and wait, SIGKILL.
GdbClose(c) ==
    /\ \/ /\ me[c].pc \in {"gdb_close", "gdb_exit", "gdb_term"} /\ ~Gdb(c).live
          /\ Goto(c, "srv_close") /\ UNCHANGED procs
       \/ At(c, "gdb_close") /\ Gdb(c).live /\ Signal(me[c].gdb, "exit") /\ Goto(c, "gdb_exit")
       \/ At(c, "gdb_exit") /\ WaitReturns /\ Signal(me[c].gdb, "term") /\ Goto(c, "gdb_term")
       \/ At(c, "gdb_term") /\ WaitReturns /\ Signal(me[c].gdb, "kill") /\ Goto(c, "srv_close")
    /\ UNCHANGED <<slot, cut>>

\* GDBServerProcess.close: SIGTERM and wait, SIGKILL and wait.
StopAtTerm == "term"                          \* mutant: the grace is all there is
LastSignal == "kill"

ServerClose(c) ==
    /\ \/ me[c].pc \in {"srv_close", "srv_term", "srv_kill"} /\ ~Srv(c).live /\ End(c)
       \/ At(c, "srv_close") /\ Srv(c).live /\ Signal(me[c].srv, "term") /\ Goto(c, "srv_term")
       \/ At(c, "srv_term") /\ WaitReturns /\ Signal(me[c].srv, LastSignal) /\ Goto(c, "srv_kill")
       \/ At(c, "srv_kill") /\ WaitReturns /\ End(c)
    /\ UNCHANGED <<slot, cut>>

\* __enter__ on the session closed last registers it again; its __exit__ finds
\* it closed and leaves the slot alone.
Reenter(c) ==
    /\ At(c, "idle") /\ me[c].via = "close"
    /\ slot' = [slot EXCEPT ![c] = TRUE]
    /\ UNCHANGED <<procs, me, cut>>

-----------------------------------------------------------------------------
(* A KeyboardInterrupt, by the place it strikes.                           *)

CatchesErrorsOnly == "idle"                   \* mutant: except GDBError
CatchesAll == "gdb_close"                     \* except BaseException; finally

\* Where the exception leads: the handshake and a server's close have no
\* handler; a gdb close is inside spawn_gdb's (whose caller then closes the
\* server), inside start_session's own, or inside close()'s finally.
Unwinds(c) ==
    CASE me[c].pc \in {"connect", "reset", "open"} -> CatchesAll
      [] me[c].pc = "spawn_gdb"                    -> "srv_close"
      [] me[c].pc \in {"gdb_exit", "gdb_term"} /\ me[c].via # "reset" -> "srv_close"
      [] OTHER                                     -> "idle"

Waiting == {"handshake", "hs_term", "hs_kill", "spawn_gdb", "connect", "reset",
            "open", "gdb_exit", "gdb_term", "srv_term", "srv_kill"}

\* In these places the exception leaves a process that has not been killed.
Unguarded == {"handshake", "hs_term", "gdb_exit", "gdb_term", "srv_term"}

KeyboardInterrupt(c) ==
    /\ me[c].pc \in Waiting /\ cut.count < MaxInterrupts
    /\ cut' = [count |-> cut.count + 1,
                unguarded |-> cut.unguarded \/ me[c].pc \in Unguarded]
    /\ IF Unwinds(c) = "idle"
         THEN End(c)
         ELSE /\ me' = [me EXCEPT ![c].pc = Unwinds(c),
                      ![c].via = CASE me[c].pc \in {"connect", "reset"} -> me[c].pc
                                   [] At(c, "open") -> "close"
                                   [] OTHER -> @]
              /\ UNCHANGED procs
    /\ slot' = [slot EXCEPT ![c] = @ /\ ~At(c, "open")]

-----------------------------------------------------------------------------
(* The processes (external).                                               *)

Listening(p) == procs[p].live /\ procs[p].said = "ready"
Says(p, line) ==
    \E lives \in BOOLEAN : procs' = [procs EXCEPT ![p].said = line, ![p].live = lives]

\* A gdbserver announces itself if port and probe are free, and complains
\* otherwise; after the complaint it exits or hangs.  It may also stay silent.
ServerSpeaks(p) ==
    /\ procs[p].kind = "server" /\ procs[p].live /\ procs[p].said = "none"
    /\ \/ /\ ~\E q \in Pids : Listening(q)
          /\ procs' = [procs EXCEPT ![p].said = "ready"]
       \/ /\ \E q \in Pids : Listening(q) /\ procs[q].port = procs[p].port
          /\ Says(p, "port-busy")
       \/ Says(p, "probe-not-found")
    /\ UNCHANGED <<me, slot, cut>>

\* Another program's gdbserver takes a port and the probe.
Intrude(p, port) ==
    /\ p \in Free /\ \A q \in Free : p <= q
    /\ ~\E q \in Pids : Listening(q)
    /\ procs' = [procs EXCEPT ![p] = [Process("other", port) EXCEPT !.said = "ready"]]
    /\ UNCHANGED <<me, slot, cut>>

\* A process ends by itself, as it is told to, or because it is killed.  Only
\* the handshake looks at what a dead server said.
Dies(p) ==
    /\ procs[p].live
    /\ procs' = [procs EXCEPT ![p] = IF \E c \in Callers : me[c].srv = p /\ At(c, "handshake")
                                       THEN [NoProcess EXCEPT !.said = procs[p].said]
                                       ELSE NoProcess]
    /\ UNCHANGED <<me, slot, cut>>

-----------------------------------------------------------------------------
CallerStep(c) ==
    \/ Walk(c) \/ HandshakeDone(c) \/ HandshakeExited(c) \/ HandshakeFails(c)
    \/ HandshakeReap(c) \/ SpawnGdb(c) \/ Connect(c) \/ StartFails(c) \/ Open(c)
    \/ GdbClose(c) \/ ServerClose(c)

Next ==
    \/ \E c \in Callers : \/ StartSession(c) \/ CallerStep(c) \/ Close(c)
                          \/ Reenter(c) \/ KeyboardInterrupt(c)
    \/ \E p \in Pids : \/ ServerSpeaks(p) \/ Dies(p)
                       \/ \E port \in 1..Ports : Intrude(p, port)

Spec == Init /\ [][Next]_vars

\* A caller's code runs on, its waits are bounded; SIGKILL kills.
FairSpec ==
    /\ Spec
    /\ \A c \in Callers : WF_vars(CallerStep(c))
    /\ \A p \in Pids : WF_vars(procs[p].killed /\ Dies(p))

-----------------------------------------------------------------------------
(* Properties.                                                             *)

\* Types of all variables.
TypeOK ==
    /\ procs \in [Pids -> [kind : {"none", "server", "gdb", "other"}, live : BOOLEAN,
                           killed : BOOLEAN,
                           said : {"none", "ready", "port-busy", "probe-not-found"},
                           port : 0..Ports, peer : {0} \cup Pids]]
    /\ me \in [Callers -> [pc : Waiting \cup {"idle", "walk", "gdb_close", "srv_close"},
                           srv : {0} \cup Pids, gdb : {0} \cup Pids, tried : 0..Ports,
                           after : {"next", "raise"},
                           via : {"none", "connect", "reset", "close"}]]
    /\ slot \in [Callers -> BOOLEAN] /\ cut \in [count : 0..MaxInterrupts, unguarded : BOOLEAN]

\* A process of a caller's, and one that nobody is left to stop: not killed,
\* and held by no caller.
OfCaller(p) == procs[p].live /\ procs[p].kind # "other"
Orphan(p) == OfCaller(p) /\ ~procs[p].killed /\ ~Held(p)

\* Whatever fails, no gdb and no gdbserver is left behind, unless an interrupt
\* strikes during the handshake or during the cleanup itself (IMP-11).
NoOrphan == ~cut.unguarded => \A p \in Pids : ~Orphan(p)

\* A session talks to its own gdbserver: another's is never taken for it while
\* its own is alive, whatever ports were busy.
PeerIsOwn ==
    \A c \in Callers :
        At(c, "open") /\ Gdb(c).live /\ Srv(c).live => Gdb(c).peer = me[c].srv

\* start_session and close come to an end, however the processes behave.
CallEnds ==
    \A c \in Callers : me[c].pc \notin {"idle", "open"} ~> me[c].pc \in {"idle", "open"}

\* Once every caller is done, their processes are gone and the probe is free.
Done == \A c \in Callers : At(c, "idle")
ProbeFreed == (Done /\ ~cut.unguarded) ~> (~Done \/ \A p \in Pids : ~OfCaller(p))
=============================================================================
