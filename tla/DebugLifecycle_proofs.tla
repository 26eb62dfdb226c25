------------------------ MODULE DebugLifecycle_proofs ------------------------
(***************************************************************************)
(* PeerIsOwn and NoOrphan for any callers, ports, processes and            *)
(* interrupts.  A process is held by one caller at most, in one role, until *)
(* that caller is done with it; what it must be by then depends on the      *)
(* place in the code.  Fairness plays no part.                              *)
(***************************************************************************)
EXTENDS DebugLifecycle, TLAPS

\* The places of start_session and close by what the caller has in its hands.
Shaking == {"handshake", "hs_term", "hs_kill"}
Talking == {"connect", "reset", "open", "gdb_close", "gdb_exit", "gdb_term"}
Stopping == {"srv_close", "srv_term", "srv_kill"}
WithServer == Shaking \cup {"spawn_gdb"} \cup Talking \cup Stopping

\* A caller has a gdbserver from its spawn to the end of the call, a gdb from
\* spawn_gdb on, and neither while it is idle.
HandsOf(m) ==
    /\ m.pc = "idle" => m.srv = 0
    /\ m.pc \in WithServer => m.srv \in Pids
    /\ m.pc \in {"idle", "walk", "spawn_gdb"} \cup Shaking => m.gdb = 0
    /\ m.pc \in Talking => m.gdb \in Pids

\* No process is in two hands.
Apart == \A c, d \in Callers :
    /\ me[c].srv # 0 => me[c].srv # me[d].gdb
    /\ c # d /\ me[c].srv # 0 => me[c].srv # me[d].srv
    /\ c # d /\ me[c].gdb # 0 => me[c].gdb # me[d].gdb

\* One gdbserver at a time has the probe.
OneListens == \A p, q \in Pids : Listening(p) /\ Listening(q) => p = q

\* The gdbserver of a caller, if it is alive, has the port the caller tried
\* last; after the handshake it listens there, and gdb is connected to it.
Paired(c) ==
    me[c].srv # 0 /\ Srv(c).live =>
      /\ me[c].pc \in WithServer => Srv(c).port = me[c].tried
      /\ me[c].pc \in {"spawn_gdb", "connect", "reset", "open"} => Listening(me[c].srv)
      /\ me[c].pc \in {"reset", "open"} /\ Gdb(c).live => Gdb(c).peer = me[c].srv

\* A process the caller may let go of: dead, or dying by SIGKILL.
Gone(p) == p = 0 \/ ~procs[p].live \/ procs[p].killed

\* Where the caller lets go of a process, that process is gone.
Stopped(c) ==
    /\ me[c].pc \in {"walk", "hs_kill", "srv_kill"} => Gone(me[c].srv)
    /\ me[c].pc \in Stopping => Gone(me[c].gdb)

Hands == TypeOK /\ (\A c \in Callers : HandsOf(me[c])) /\ Apart
Pairs == OneListens /\ \A c \in Callers : Paired(c)
Orderly == ~cut.unguarded => NoOrphan /\ \A c \in Callers : Stopped(c)
LifecycleInv == Hands /\ Pairs /\ Orderly

-----------------------------------------------------------------------------
(* A step of one caller changes that caller, its own processes and at most *)
(* one process that nobody held.                                           *)

ProcType == [kind : {"none", "server", "gdb", "other"}, live : BOOLEAN, killed : BOOLEAN,
             said : {"none", "ready", "port-busy", "probe-not-found"},
             port : 0..Ports, peer : {0} \cup Pids]
CallerType == [pc : Waiting \cup {"idle", "walk", "gdb_close", "srv_close"},
               srv : {0} \cup Pids, gdb : {0} \cup Pids, tried : 0..Ports,
               after : {"next", "raise"}, via : {"none", "connect", "reset", "close"}]

LEMMA Typed ==
    TypeOK <=> /\ procs \in [Pids -> ProcType] /\ me \in [Callers -> CallerType]
               /\ slot \in [Callers -> BOOLEAN]
               /\ cut \in [count : 0..MaxInterrupts, unguarded : BOOLEAN]
<1>. QED
  BY DEF TypeOK, ProcType, CallerType

LEMMA Positive == 0 \notin Pids
<1>. QED
  BY DEF Pids

Frame(c, m, f) ==
    /\ me' = [me EXCEPT ![c] = m]
    /\ f = 0 \/ (f \in Pids /\ ~Held(f))
    /\ \A p \in Pids : p \notin {me[c].srv, me[c].gdb, f} => procs'[p] = procs[p]

\* What the caller holds afterwards, it held before or has just spawned.
Takes(c, m, f) ==
    /\ m.srv \in {0, me[c].srv, f} /\ m.gdb \in {0, me[c].gdb, f}
    /\ m.srv # 0 => m.srv # m.gdb
    /\ HandsOf(m)

LEMMA TurnHands ==
    ASSUME Hands, NEW c \in Callers, NEW m \in CallerType, NEW f, Frame(c, m, f), Takes(c, m, f),
           procs' \in [Pids -> ProcType], slot' \in [Callers -> BOOLEAN],
           cut' \in [count : 0..MaxInterrupts, unguarded : BOOLEAN]
    PROVE  Hands'
<1>1. me \in [Callers -> CallerType]
  BY Typed DEF Hands
<1>2. me' \in [Callers -> CallerType] /\ me'[c] = m /\ \A d \in Callers : d # c => me'[d] = me[d]
  BY <1>1 DEF Frame
<1>3. TypeOK'
  BY <1>2, Typed DEF TypeOK, ProcType, CallerType
<1>4. \A d \in Callers : HandsOf(me'[d])
  BY <1>2 DEF Hands, Takes
<1>5. \A d \in Callers : HandsOf(me[d])'
  BY <1>4 DEF HandsOf, Pids
<1>6. \A d \in Callers : f # 0 => f # me[d].srv /\ f # me[d].gdb
  BY DEF Frame, Held
<1>7. Apart'
  <2>. SUFFICES ASSUME NEW a \in Callers, NEW b \in Callers
                PROVE  /\ me'[a].srv # 0 => me'[a].srv # me'[b].gdb
                       /\ a # b /\ me'[a].srv # 0 => me'[a].srv # me'[b].srv
                       /\ a # b /\ me'[a].gdb # 0 => me'[a].gdb # me'[b].gdb
    BY DEF Apart
  <2>1. CASE a # c /\ b # c
    BY <2>1, <1>2 DEF Hands, Apart
  <2>2. CASE a = c /\ b # c
    BY <2>2, <1>2, <1>6 DEF Hands, Apart, Takes
  <2>3. CASE a # c /\ b = c
    BY <2>3, <1>2, <1>6 DEF Hands, Apart, Takes
  <2>4. CASE a = c /\ b = c
    BY <2>4, <1>2 DEF Takes
  <2>. QED
    BY <2>1, <2>2, <2>3, <2>4
<1>. QED
  BY <1>3, <1>5, <1>7 DEF Hands

\* No process starts to listen, and only the caller's own gdb is connected anew.
Quiet(c, f) ==
    \A p \in Pids : procs'[p].live /\ p # f =>
        /\ procs[p].live /\ procs'[p].said = procs[p].said /\ procs'[p].port = procs[p].port

LEMMA TurnPairs ==
    ASSUME Hands, Pairs, NEW c \in Callers, NEW m \in CallerType, NEW f, Frame(c, m, f),
           Quiet(c, f), f # 0 => ~Listening(f)', Paired(c)'
    PROVE  Pairs'
<1>1. me \in [Callers -> CallerType] /\ \A d \in Callers : d # c => me'[d] = me[d]
  BY Typed DEF Hands, Frame
<1>2. \A p \in Pids : Listening(p)' => Listening(p)
  BY Positive DEF Quiet, Listening
<1>3. OneListens'
  BY <1>2 DEF Pairs, OneListens, Pids
<1>4. ASSUME NEW d \in Callers, d # c PROVE Paired(d)'
  <2>. DEFINE s == me[d].srv  g == me[d].gdb
  <2>1. s # 0 => s \in Pids /\ s # me[c].srv /\ s # me[c].gdb /\ s # f
    BY <1>1, <1>4 DEF Hands, Apart, CallerType, Frame, Held
  <2>2. s # 0 => procs'[s] = procs[s]
    BY <2>1 DEF Frame
  <2>3. me[d].pc \in {"reset", "open"} => procs'[g] = procs[g]
    <3>1. SUFFICES ASSUME me[d].pc \in {"reset", "open"} PROVE procs'[g] = procs[g]
      OBVIOUS
    <3>2. g \in Pids
      BY <3>1 DEF Hands, HandsOf, Talking
    <3>3. g # me[c].srv /\ g # me[c].gdb /\ g # f
      BY <3>2, <1>4, Positive DEF Hands, Apart, Frame, Held
    <3>. QED
      BY <3>2, <3>3 DEF Frame
  <2>. QED
    BY <1>1, <1>4, <2>2, <2>3 DEF Pairs, Paired, Srv, Gdb, Listening
<1>. QED
  BY <1>3, <1>4 DEF Pairs

\* What the caller lets go of is gone.
LetsGo(c, m, f) ==
    \A p \in Pids : p \in {me[c].srv, me[c].gdb, f} => p \in {m.srv, m.gdb} \/ Gone(p)'

LEMMA TurnOrderly ==
    ASSUME Hands, Orderly, NEW c \in Callers, NEW m \in CallerType, NEW f, Frame(c, m, f),
           cut.unguarded \in BOOLEAN, cut.unguarded => cut'.unguarded,
           ~cut'.unguarded => LetsGo(c, m, f) /\ Stopped(c)'
    PROVE  Orderly'
<1>1. me \in [Callers -> CallerType] /\ me'[c] = m /\ \A d \in Callers : d # c => me'[d] = me[d]
  BY Typed DEF Hands, Frame
<1>2. SUFFICES ASSUME ~cut'.unguarded PROVE NoOrphan' /\ \A d \in Callers : Stopped(d)'
  BY DEF Orderly
<1>3. /\ \A p \in Pids : ~Orphan(p)
      /\ \A d \in Callers : Stopped(d)
      /\ LetsGo(c, m, f) /\ Stopped(c)'
  BY <1>2 DEF Orderly, NoOrphan
<1>4. ASSUME NEW p \in Pids PROVE ~Orphan(p)'
  <2>1. CASE p \in {m.srv, m.gdb}
    BY <2>1, <1>1 DEF Orphan, Held
  <2>2. CASE p \notin {m.srv, m.gdb} /\ p \in {me[c].srv, me[c].gdb, f}
    BY <2>2, <1>3, Positive DEF LetsGo, Gone, Orphan, OfCaller
  <2>3. CASE p \notin {me[c].srv, me[c].gdb, f}
    <3>1. procs'[p] = procs[p]
      BY <2>3 DEF Frame
    <3>2. ~OfCaller(p) \/ procs[p].killed \/ \E d \in Callers : d # c /\ p \in {me[d].srv, me[d].gdb}
      BY <1>3, <2>3 DEF Orphan, Held
    <3>3. (\E d \in Callers : d # c /\ p \in {me[d].srv, me[d].gdb}) => Held(p)'
      BY <1>1 DEF Held
    <3>. QED
      BY <3>1, <3>2, <3>3 DEF Orphan, OfCaller
  <2>. QED
    BY <2>1, <2>2, <2>3
<1>5. ASSUME NEW d \in Callers, d # c PROVE Stopped(d)'
  <2>1. ASSUME NEW p \in Pids, p \in {me[d].srv, me[d].gdb} PROVE procs'[p] = procs[p]
    <3>1. p \notin {me[c].srv, me[c].gdb, f}
      BY <2>1, <1>5, Positive DEF Hands, Apart, Frame, Held
    <3>. QED
      BY <3>1 DEF Frame
  <2>2. me[d].srv \in {0} \cup Pids /\ me[d].gdb \in {0} \cup Pids
    BY <1>1 DEF CallerType
  <2>3. Gone(me[d].srv) => Gone(me[d].srv)'
    BY <2>1, <2>2, <1>1, <1>5 DEF Gone
  <2>4. Gone(me[d].gdb) => Gone(me[d].gdb)'
    BY <2>1, <2>2, <1>1, <1>5 DEF Gone
  <2>. QED
    BY <1>1, <1>3, <1>5, <2>3, <2>4 DEF Stopped
<1>. QED
  BY <1>3, <1>4, <1>5 DEF NoOrphan

LEMMA Turn ==
    ASSUME LifecycleInv, NEW c \in Callers, NEW m \in CallerType, NEW f, Frame(c, m, f),
           Takes(c, m, f), procs' \in [Pids -> ProcType], slot' \in [Callers -> BOOLEAN],
           cut' \in [count : 0..MaxInterrupts, unguarded : BOOLEAN],
           Quiet(c, f), f # 0 => ~Listening(f)', Paired(c)',
           cut.unguarded => cut'.unguarded, ~cut'.unguarded => LetsGo(c, m, f) /\ Stopped(c)'
    PROVE  LifecycleInv'
<1>1. Hands'
  BY TurnHands DEF LifecycleInv
<1>2. Pairs'
  BY TurnPairs DEF LifecycleInv
<1>3. cut.unguarded \in BOOLEAN
  BY Typed DEF LifecycleInv, Hands
<1>4. Orderly'
  BY <1>3, TurnOrderly DEF LifecycleInv
<1>. QED
  BY <1>1, <1>2, <1>4 DEF LifecycleInv

LEMMA TypedInv == LifecycleInv => procs \in [Pids -> ProcType]
<1>. QED
  BY Typed DEF LifecycleInv, Hands

LEMMA State ==
    ASSUME LifecycleInv, NEW c \in Callers
    PROVE  /\ procs \in [Pids -> ProcType] /\ me \in [Callers -> CallerType]
           /\ slot \in [Callers -> BOOLEAN]
           /\ cut \in [count : 0..MaxInterrupts, unguarded : BOOLEAN]
           /\ me[c] \in CallerType /\ HandsOf(me[c]) /\ Paired(c)
           /\ me[c].srv # 0 => me[c].srv # me[c].gdb
           /\ ~cut.unguarded => Stopped(c)
<1>. QED
  BY Typed DEF LifecycleInv, Hands, Pairs, Orderly, Apart

\* The end of a call: everything it held is gone, or an interrupt has struck
\* where nothing waits for it.
LEMMA EndInv ==
    ASSUME LifecycleInv, NEW c \in Callers, End(c), slot' \in [Callers -> BOOLEAN],
           cut' \in [count : 0..MaxInterrupts, unguarded : BOOLEAN],
           cut.unguarded => cut'.unguarded,
           ~cut'.unguarded => Gone(me[c].srv) /\ Gone(me[c].gdb)
    PROVE  LifecycleInv'
<1>. DEFINE m == [Resting EXCEPT !.via = me[c].via]
<1>1. m \in CallerType /\ m.pc = "idle" /\ m.srv = 0 /\ m.gdb = 0
  BY State, LifecycleAssumption DEF CallerType, Resting
<1>2. procs' \in [Pids -> ProcType]
  <2>1. NoProcess \in ProcType
    BY LifecycleAssumption DEF NoProcess, ProcType
  <2>. QED
    BY <2>1, State DEF End
<1>3. \A p \in Pids : p # me[c].srv => procs'[p] = procs[p]
  BY DEF End
<1>4. \A p \in Pids : procs'[p] = procs[p] \/ (~procs[p].live /\ ~procs'[p].live)
  BY DEF End, NoProcess
<1>5. Frame(c, m, 0)
  BY <1>3 DEF Frame, End
<1>6. Takes(c, m, 0)
  BY <1>1 DEF Takes, HandsOf, WithServer, Shaking, Talking, Stopping
<1>7. Quiet(c, 0)
  BY <1>4 DEF Quiet
<1>8. me'[c] = m
  BY State DEF End
<1>9. Paired(c)'
  BY <1>1, <1>8 DEF Paired
<1>10. ~cut'.unguarded => LetsGo(c, m, 0)
  BY <1>4, Positive DEF LetsGo, Gone
<1>11. Stopped(c)'
  BY <1>1, <1>8 DEF Stopped, Gone
<1>. HIDE DEF m
<1>. QED
  BY <1>1, <1>2, <1>5, <1>6, <1>7, <1>9, <1>10, <1>11, Turn

\* A step that only goes to another place in the code.
LEMMA GotoInv ==
    ASSUME LifecycleInv, NEW c \in Callers, NEW m \in CallerType,
           me' = [me EXCEPT ![c] = m], UNCHANGED procs, slot' \in [Callers -> BOOLEAN],
           cut' \in [count : 0..MaxInterrupts, unguarded : BOOLEAN],
           cut.unguarded => cut'.unguarded, m.srv = me[c].srv, m.gdb = me[c].gdb,
           HandsOf(m), Paired(c)', ~cut'.unguarded => Stopped(c)'
    PROVE  LifecycleInv'
<1>1. Frame(c, m, 0) /\ Quiet(c, 0)
  BY DEF Frame, Quiet
<1>2. Takes(c, m, 0)
  BY State DEF Takes
<1>3. LetsGo(c, m, 0)
  BY Positive DEF LetsGo
<1>4. procs' \in [Pids -> ProcType]
  BY State
<1>. QED
  BY <1>1, <1>2, <1>3, <1>4, Turn

\* A signal to one of the caller's own processes.
LEMMA SignalInv ==
    ASSUME LifecycleInv, NEW c \in Callers, NEW m \in CallerType, NEW p \in Pids, NEW sig,
           me' = [me EXCEPT ![c] = m], me[c].pc \in WithServer, p \in {me[c].srv, me[c].gdb}, Signal(p, sig),
           UNCHANGED <<slot, cut>>, m.srv = me[c].srv, m.gdb = me[c].gdb, m.tried = me[c].tried,
           m.pc \in {"hs_term", "hs_kill", "gdb_exit", "gdb_term"} \cup Stopping,
           HandsOf(m), ~cut.unguarded => Stopped(c)'
    PROVE  LifecycleInv'
<1>1. \A q \in Pids : /\ q # p => procs'[q] = procs[q]
                      /\ procs'[q].live = procs[q].live /\ procs'[q].said = procs[q].said
                      /\ procs'[q].port = procs[q].port
  BY State DEF Signal, ProcType
<1>2. procs' \in [Pids -> ProcType]
  <2>1. (sig = "kill") \in BOOLEAN
    OBVIOUS
  <2>. DEFINE k == sig = "kill"
  <2>2. procs' = [procs EXCEPT ![p].killed = k] /\ k \in BOOLEAN
    BY <2>1 DEF Signal
  <2>. HIDE DEF k
  <2>. QED
    BY <2>2, State DEF ProcType
<1>3. Frame(c, m, 0) /\ Quiet(c, 0)
  BY <1>1 DEF Frame, Quiet
<1>4. Takes(c, m, 0)
  BY State DEF Takes
<1>5. LetsGo(c, m, 0)
  BY Positive DEF LetsGo
<1>6. me'[c] = m
  BY State
<1>7. Paired(c)'
  BY <1>1, <1>6, State DEF Paired, Srv, CallerType, Stopping
<1>. QED
  BY <1>2, <1>3, <1>4, <1>5, <1>7, Turn, State

-----------------------------------------------------------------------------
(* start_session, as far as the handshake.                                 *)

LEMMA StartSessionInv ==
    ASSUME LifecycleInv, NEW c \in Callers, StartSession(c) PROVE LifecycleInv'
<1>. DEFINE m == [Resting EXCEPT !.pc = "walk"]
<1>1. m \in CallerType /\ m.pc = "walk" /\ m.srv = 0 /\ m.gdb = 0
  BY LifecycleAssumption DEF CallerType, Resting
<1>2. me[c].srv = 0 /\ me[c].gdb = 0
  BY State DEF StartSession, At, HandsOf
<1>3. me' = [me EXCEPT ![c] = m]
  BY DEF StartSession
<1>. HIDE DEF m
<1>4. HandsOf(m)
  BY <1>1 DEF HandsOf, WithServer, Shaking, Talking, Stopping
<1>5. me'[c] = m
  BY <1>3, State
<1>6. Paired(c)' /\ Stopped(c)'
  BY <1>1, <1>5 DEF Paired, Stopped, Gone, Stopping
<1>. QED
  BY <1>1, <1>2, <1>3, <1>4, <1>6, GotoInv, State DEF StartSession

LEMMA WalkInv ==
    ASSUME LifecycleInv, NEW c \in Callers, Walk(c) PROVE LifecycleInv'
<1>1. CASE End(c)
  <2>1. me[c].gdb = 0 /\ (~cut.unguarded => Gone(me[c].srv))
    BY State DEF Walk, At, HandsOf, Stopped
  <2>. QED
    BY <1>1, <2>1, EndInv, State DEF Walk, Gone
<1>2. ASSUME NEW p \in Pids, PortsLeft(c), Spawn(p, "server", me[c].tried + 1),
             me' = [me EXCEPT ![c].srv = p, ![c].tried = @ + 1, ![c].pc = "handshake"]
      PROVE  LifecycleInv'
  <2>. DEFINE m == [me[c] EXCEPT !.srv = p, !.tried = @ + 1, !.pc = "handshake"]
  <2>1. me[c].tried + 1 \in 0..Ports
    BY <1>2, State, LifecycleAssumption DEF PortsLeft, CallerType
  <2>2. /\ m \in CallerType /\ m.pc = "handshake" /\ m.srv = p /\ m.gdb = me[c].gdb
        /\ m.tried = me[c].tried + 1
    BY <2>1, State DEF CallerType, Waiting
  <2>3. me' = [me EXCEPT ![c] = m]
    BY <1>2, State DEF CallerType
  <2>. HIDE DEF m
  <2>4. me'[c] = m
    BY <2>3, State
  <2>5. me[c].gdb = 0 /\ (~cut.unguarded => Gone(me[c].srv))
    BY State DEF Walk, At, HandsOf, Stopped
  <2>6. HandsOf(m) /\ p # 0
    BY <2>2, <2>5, Positive DEF HandsOf, WithServer, Shaking, Talking, Stopping
  <2>7. Process("server", me[c].tried + 1) \in ProcType
    BY <2>1 DEF Process, ProcType
  <2>8. /\ procs' \in [Pids -> ProcType] /\ procs'[p] = Process("server", me[c].tried + 1)
        /\ \A q \in Pids : q # p => procs'[q] = procs[q]
    BY <1>2, <2>7, State DEF Spawn
  <2>9. ~Held(p) /\ p # me[c].srv
    BY <1>2 DEF Spawn, Free, Held
  <2>10. Frame(c, m, p)
    BY <2>3, <2>8, <2>9 DEF Frame
  <2>11. Takes(c, m, p)
    BY <2>2, <2>5, <2>6 DEF Takes
  <2>12. Quiet(c, p) /\ ~Listening(p)'
    BY <2>8 DEF Quiet, Listening, Process
  <2>13. Paired(c)'
    BY <2>2, <2>4, <2>8 DEF Paired, Srv, Process
  <2>14. Stopped(c)'
    BY <2>2, <2>4 DEF Stopped, Stopping
  <2>15. ~cut.unguarded => LetsGo(c, m, p)
    BY <2>2, <2>5, <2>8, <2>9, Positive DEF LetsGo, Gone
  <2>. QED
    BY <2>2, <2>8, <2>10, <2>11, <2>12, <2>13, <2>14, <2>15, Turn, State DEF Walk
<1>. QED
  BY <1>1, <1>2 DEF Walk

\* Going from one place to another with the processes as they are.
LEMMA GoesInv ==
    ASSUME LifecycleInv, NEW c \in Callers,
           NEW place \in Waiting \cup {"walk", "gdb_close", "srv_close"},
           NEW via \in {"none", "connect", "reset", "close"}, NEW after \in {"next", "raise"},
           me' = [me EXCEPT ![c] = [me[c] EXCEPT !.pc = place, !.via = via, !.after = after]],
           UNCHANGED procs, slot' \in [Callers -> BOOLEAN],
           cut' \in [count : 0..MaxInterrupts, unguarded : BOOLEAN],
           cut.unguarded => cut'.unguarded,
           place \in WithServer \/ ~Srv(c).live, me[c].pc \in WithServer,
           place \in {"walk", "spawn_gdb"} \cup Shaking => me[c].gdb = 0,
           place \in Talking => me[c].pc \in Talking,
           place \in {"spawn_gdb", "connect", "reset", "open"} /\ Srv(c).live => Listening(me[c].srv),
           place \in {"reset", "open"} => me[c].pc \in {"reset", "open"},
           place \in {"walk", "hs_kill", "srv_kill"} => ~Srv(c).live,
           ~cut'.unguarded /\ place \in Stopping => Gone(me[c].gdb)
    PROVE  LifecycleInv'
<1>. DEFINE m == [me[c] EXCEPT !.pc = place, !.via = via, !.after = after]
<1>1. /\ m \in CallerType /\ m.pc = place /\ m.srv = me[c].srv /\ m.gdb = me[c].gdb
      /\ m.tried = me[c].tried
  BY State DEF CallerType
<1>. HIDE DEF m
<1>2. HandsOf(m)
  BY <1>1, State DEF HandsOf, WithServer, Shaking, Talking, Stopping, Waiting
<1>3. me'[c] = m
  BY State DEF m
<1>4. Paired(c)'
  BY <1>1, <1>3, State DEF Paired, Srv, Gdb, Listening
<1>5. ~cut'.unguarded => Stopped(c)'
  BY <1>1, <1>3 DEF Stopped, Gone, Srv
<1>6. me' = [me EXCEPT ![c] = m]
  BY DEF m
<1>. QED
  BY <1>1, <1>2, <1>4, <1>5, <1>6, GotoInv

LEMMA GotoForm ==
    ASSUME LifecycleInv, NEW c \in Callers, NEW place, Goto(c, place)
    PROVE  /\ me' = [me EXCEPT ![c] = [me[c] EXCEPT !.pc = place, !.via = me[c].via,
                                                   !.after = me[c].after]]
           /\ me[c].via \in {"none", "connect", "reset", "close"}
           /\ me[c].after \in {"next", "raise"}
<1>1. me[c] \in CallerType
  BY State
<1>2. [me[c] EXCEPT !.pc = place, !.via = me[c].via, !.after = me[c].after]
        = [me[c] EXCEPT !.pc = place]
  BY <1>1 DEF CallerType
<1>. QED
  BY <1>1, <1>2 DEF Goto, CallerType

LEMMA GoInv ==
    ASSUME LifecycleInv, NEW c \in Callers,
           NEW place \in Waiting \cup {"walk", "gdb_close", "srv_close"}, Goto(c, place),
           UNCHANGED <<procs, cut>>, slot' \in [Callers -> BOOLEAN],
           place \in WithServer \/ ~Srv(c).live, me[c].pc \in WithServer,
           place \in {"walk", "spawn_gdb"} \cup Shaking => me[c].gdb = 0,
           place \in Talking => me[c].pc \in Talking,
           place \in {"spawn_gdb", "connect", "reset", "open"} /\ Srv(c).live => Listening(me[c].srv),
           place \in {"reset", "open"} => me[c].pc \in {"reset", "open"},
           place \in {"walk", "hs_kill", "srv_kill"} => ~Srv(c).live,
           ~cut.unguarded /\ place \in Stopping => Gone(me[c].gdb)
    PROVE  LifecycleInv'
<1>1. /\ cut' = cut /\ procs' = procs
      /\ cut' \in [count : 0..MaxInterrupts, unguarded : BOOLEAN]
  BY State
<1>. DEFINE via == me[c].via  after == me[c].after
<1>2. /\ me' = [me EXCEPT ![c] = [me[c] EXCEPT !.pc = place, !.via = via, !.after = after]]
      /\ via \in {"none", "connect", "reset", "close"} /\ after \in {"next", "raise"}
  BY GotoForm
<1>. HIDE DEF via, after
<1>3. cut.unguarded => cut'.unguarded
  BY <1>1
<1>4. ~cut'.unguarded /\ place \in Stopping => Gone(me[c].gdb)
  BY <1>1
<1>5. UNCHANGED procs
  BY <1>1
<1>. QED
  BY <1>1, <1>2, <1>3, <1>4, <1>5, GoesInv

LEMMA HandshakeInv ==
    ASSUME LifecycleInv, NEW c \in Callers, HandshakeDone(c) \/ HandshakeExited(c)
    PROVE  LifecycleInv'
<1>1. me[c].pc = "handshake" /\ me[c].srv \in Pids /\ me[c].gdb = 0
  BY State DEF HandshakeDone, HandshakeExited, At, HandsOf, WithServer, Shaking
<1>2. slot' = slot /\ cut' = cut /\ slot' \in [Callers -> BOOLEAN]
  BY State DEF HandshakeDone, HandshakeExited
<1>3. CASE HandshakeDone(c)
  <2>1. Goto(c, "spawn_gdb") /\ Listening(me[c].srv) /\ UNCHANGED procs
    BY <1>3 DEF HandshakeDone, Announced, Listening, Srv
  <2>2. "spawn_gdb" \in Waiting /\ "spawn_gdb" \in WithServer /\ me[c].pc \in WithServer
    BY <1>1 DEF Waiting, WithServer, Shaking
  <2>3. "spawn_gdb" \notin Talking \cup Stopping
    BY DEF Talking, Stopping
  <2>. QED
    BY <1>1, <1>2, <2>1, <2>2, <2>3, GoInv
<1>4. CASE HandshakeExited(c)
  <2>1. ~Srv(c).live
    BY <1>4 DEF HandshakeExited
  <2>2. CASE Goto(c, "walk") /\ UNCHANGED procs
    <3>1. me[c].pc \in WithServer /\ "walk" \notin Talking \cup Stopping
      BY <1>1 DEF WithServer, Shaking, Talking, Stopping
    <3>. QED
      BY <1>1, <1>2, <2>1, <2>2, <3>1, GoInv
  <2>3. CASE End(c)
    <3>1. Gone(me[c].srv) /\ Gone(me[c].gdb)
      BY <1>1, <2>1 DEF Gone, Srv
    <3>. QED
      BY <1>2, <2>3, <3>1, EndInv, State
  <2>. QED
    BY <1>4, <2>2, <2>3 DEF HandshakeExited
<1>. QED
  BY <1>3, <1>4

\* The caller signals a process of its own and goes on.
LEMMA SignalsInv ==
    ASSUME LifecycleInv, NEW c \in Callers, NEW p \in {me[c].srv, me[c].gdb}, NEW sig,
           NEW place \in {"hs_term", "hs_kill", "gdb_exit", "gdb_term"} \cup Stopping,
           NEW after \in {"next", "raise"},
           Signal(p, sig), UNCHANGED <<slot, cut>>,
           me' = [me EXCEPT ![c] = [me[c] EXCEPT !.pc = place, !.after = after]],
           me[c].pc \in WithServer, p # 0,
           place \in Shaking => me[c].gdb = 0, place \in Talking => me[c].pc \in Talking,
           place = "hs_kill" => p = me[c].srv /\ sig = "kill",
           place = "srv_kill" => p = me[c].srv /\ sig = "kill" /\ me[c].pc \in Stopping,
           place \in Stopping => (p = me[c].gdb /\ sig = "kill") \/ (p = me[c].srv /\ me[c].pc \in Stopping)
    PROVE  LifecycleInv'
<1>. DEFINE m == [me[c] EXCEPT !.pc = place, !.after = after]
<1>1. /\ m \in CallerType /\ m.pc = place /\ m.srv = me[c].srv /\ m.gdb = me[c].gdb
      /\ m.tried = me[c].tried
  <2>1. place \in Waiting \cup {"srv_close"}
    BY DEF Waiting, Stopping
  <2>. QED
    BY <2>1, State DEF CallerType
<1>2. me' = [me EXCEPT ![c] = m]
  OBVIOUS
<1>. HIDE DEF m
<1>3. HandsOf(m)
  BY <1>1, State DEF HandsOf, WithServer, Shaking, Talking, Stopping, Waiting
<1>4. me'[c] = m
  BY <1>2, State
<1>5. p \in Pids
  BY State DEF CallerType
<1>6. /\ \A q \in Pids : q # p => procs'[q] = procs[q]
      /\ sig = "kill" => procs'[p].killed
  <2>. DEFINE k == sig = "kill"
  <2>1. procs' = [procs EXCEPT ![p].killed = k] /\ (sig = "kill" => k = TRUE)
    BY DEF Signal
  <2>. HIDE DEF k
  <2>. QED
    BY <1>5, <2>1, State DEF ProcType
<1>7. place \in {"hs_kill", "srv_kill"} => Gone(me[c].srv)'
  BY <1>1, <1>4, <1>6 DEF Gone
<1>8. place \in Stopping /\ ~cut.unguarded => Gone(me[c].gdb)'
  <2>1. SUFFICES ASSUME place \in Stopping, ~cut.unguarded
                 PROVE  m.gdb = 0 \/ ~procs'[m.gdb].live \/ procs'[m.gdb].killed
    BY <1>4 DEF Gone
  <2>2. CASE p = me[c].gdb /\ sig = "kill"
    BY <2>2, <1>1, <1>6
  <2>3. CASE p = me[c].srv /\ me[c].pc \in Stopping
    <3>1. Gone(me[c].gdb) /\ me[c].gdb # p /\ me[c].gdb \in {0} \cup Pids
      BY <2>1, <2>3, State DEF Stopped, CallerType
    <3>. QED
      BY <3>1, <1>1, <1>6 DEF Gone
  <2>. QED
    BY <2>1, <2>2, <2>3
<1>9. ~cut.unguarded => Stopped(c)'
  <2>1. me'[c].pc = place /\ place # "walk"
    BY <1>1, <1>4 DEF Stopping
  <2>. QED
    BY <2>1, <1>7, <1>8 DEF Stopped
<1>. QED
  BY <1>1, <1>2, <1>3, <1>5, <1>9, SignalInv

LEMMA HandshakeFailsInv ==
    ASSUME LifecycleInv, NEW c \in Callers, HandshakeFails(c) PROVE LifecycleInv'
<1>1. me[c].pc = "handshake" /\ me[c].srv \in Pids /\ me[c].gdb = 0 /\ me[c].pc \in WithServer
  BY State DEF HandshakeFails, At, HandsOf, WithServer, Shaking
<1>2. PICK why \in {"next", "raise"} :
          me' = [me EXCEPT ![c].after = why, ![c].pc = "hs_term"]
  BY DEF HandshakeFails
<1>3. me' = [me EXCEPT ![c] = [me[c] EXCEPT !.pc = "hs_term", !.after = why]]
  BY <1>2, State DEF CallerType
<1>4. "hs_term" \notin Talking \cup Stopping /\ "hs_term" \in Shaking
  BY DEF Shaking, Talking, Stopping
<1>. QED
  BY <1>1, <1>3, <1>4, SignalsInv, Positive DEF HandshakeFails

LEMMA AfterHandshakeInv ==
    ASSUME LifecycleInv, NEW c \in Callers, me[c].pc \in {"hs_term", "hs_kill"},
           ~cut.unguarded => Gone(me[c].srv), AfterHandshake(c), UNCHANGED <<slot, cut>>
    PROVE  LifecycleInv'
<1>1. me[c].srv \in Pids /\ me[c].gdb = 0
  BY State DEF HandsOf, WithServer, Shaking
<1>2. CASE End(c)
  BY <1>1, <1>2, EndInv, State DEF Gone
<1>3. CASE me' = [me EXCEPT ![c].after = "raise", ![c].pc = "walk"] /\ UNCHANGED procs
  <2>. DEFINE m == [me[c] EXCEPT !.after = "raise", !.pc = "walk"]
  <2>1. m \in CallerType /\ m.pc = "walk" /\ m.srv = me[c].srv /\ m.gdb = 0
    BY <1>1, State DEF CallerType
  <2>2. me' = [me EXCEPT ![c] = m]
    BY <1>3, State DEF CallerType
  <2>. HIDE DEF m
  <2>3. HandsOf(m)
    BY <2>1 DEF HandsOf, WithServer, Shaking, Talking, Stopping
  <2>4. me'[c] = m
    BY <2>2, State
  <2>5. Paired(c)'
    BY <2>1, <2>4 DEF Paired, WithServer, Shaking, Talking, Stopping
  <2>6. ~cut.unguarded => Stopped(c)'
    BY <2>1, <2>4, <1>3 DEF Stopped, Gone, Stopping
  <2>. QED
    BY <1>1, <1>3, <2>1, <2>2, <2>3, <2>5, <2>6, GotoInv, State
<1>. QED
  BY <1>2, <1>3 DEF AfterHandshake

LEMMA HandshakeReapInv ==
    ASSUME LifecycleInv, NEW c \in Callers, HandshakeReap(c) PROVE LifecycleInv'
<1>1. /\ me[c].pc \in {"hs_term", "hs_kill"} /\ me[c].srv \in Pids /\ me[c].gdb = 0
      /\ me[c].pc \in WithServer /\ UNCHANGED <<slot, cut>>
  BY State DEF HandshakeReap, At, HandsOf, WithServer, Shaking
<1>2. CASE At(c, "hs_term") /\ ~Srv(c).live /\ AfterHandshake(c)
  BY <1>1, <1>2, AfterHandshakeInv DEF Gone, Srv
<1>3. CASE Signal(me[c].srv, "kill") /\ Goto(c, "hs_kill")
  <2>1. me' = [me EXCEPT ![c] = [me[c] EXCEPT !.pc = "hs_kill", !.after = me[c].after]]
        /\ me[c].after \in {"next", "raise"}
    BY <1>3, State DEF Goto, CallerType
  <2>2. "hs_kill" \notin Talking \cup Stopping
    BY DEF Talking, Stopping
  <2>. QED
    BY <1>1, <1>3, <2>1, <2>2, SignalsInv, Positive
<1>4. CASE At(c, "hs_kill") /\ AfterHandshake(c)
  <2>1. ~cut.unguarded => Gone(me[c].srv)
    BY <1>4, State DEF At, Stopped
  <2>. QED
    BY <1>1, <1>4, <2>1, AfterHandshakeInv
<1>. QED
  BY <1>2, <1>3, <1>4 DEF HandshakeReap

-----------------------------------------------------------------------------
(* From spawn_gdb to the open session.                                     *)

LEMMA SpawnGdbInv ==
    ASSUME LifecycleInv, NEW c \in Callers, SpawnGdb(c) PROVE LifecycleInv'
<1>1. me[c].pc = "spawn_gdb" /\ me[c].srv \in Pids /\ me[c].gdb = 0 /\ UNCHANGED <<slot, cut>>
  BY State DEF SpawnGdb, At, HandsOf, WithServer
<1>2. CASE Goto(c, "srv_close") /\ UNCHANGED procs
  <2>1. "srv_close" \in WithServer \ Talking /\ me[c].pc \in WithServer
    BY <1>1 DEF WithServer, Talking, Stopping
  <2>2. Gone(me[c].gdb) /\ "srv_close" \notin Shaking
    BY <1>1 DEF Gone, Shaking
  <2>. QED
    BY <1>1, <1>2, <2>1, <2>2, GoInv, State
<1>3. ASSUME NEW p \in Pids, Spawn(p, "gdb", 0),
             me' = [me EXCEPT ![c].gdb = p, ![c].pc = "connect"]
      PROVE  LifecycleInv'
  <2>. DEFINE m == [me[c] EXCEPT !.gdb = p, !.pc = "connect"]
  <2>1. /\ m \in CallerType /\ m.pc = "connect" /\ m.srv = me[c].srv /\ m.gdb = p
        /\ m.tried = me[c].tried
    BY State DEF CallerType, Waiting
  <2>2. me' = [me EXCEPT ![c] = m]
    BY <1>3, State DEF CallerType
  <2>. HIDE DEF m
  <2>3. me'[c] = m
    BY <2>2, State
  <2>4. HandsOf(m) /\ p # 0
    BY <1>1, <2>1, Positive DEF HandsOf, WithServer, Shaking, Talking, Stopping
  <2>5. Process("gdb", 0) \in ProcType
    BY LifecycleAssumption DEF Process, ProcType
  <2>6. /\ procs' \in [Pids -> ProcType] /\ procs'[p] = Process("gdb", 0)
        /\ \A q \in Pids : q # p => procs'[q] = procs[q]
    BY <1>3, <2>5, State DEF Spawn
  <2>7. ~Held(p) /\ p # me[c].srv
    BY <1>3 DEF Spawn, Free, Held
  <2>8. Frame(c, m, p)
    BY <2>2, <2>6, <2>7 DEF Frame
  <2>9. Takes(c, m, p)
    BY <2>1, <2>4, <2>7 DEF Takes
  <2>10. Quiet(c, p) /\ ~Listening(p)'
    BY <2>6 DEF Quiet, Listening, Process
  <2>11. Paired(c)'
    BY <1>1, <2>1, <2>3, <2>6, <2>7, State DEF Paired, Srv, Gdb, Listening, WithServer
  <2>12. Stopped(c)'
    BY <2>1, <2>3 DEF Stopped, Stopping
  <2>13. LetsGo(c, m, p)
    BY <1>1, <2>1, Positive DEF LetsGo
  <2>. QED
    BY <1>1, <2>1, <2>6, <2>8, <2>9, <2>10, <2>11, <2>12, <2>13, Turn, State
<1>. QED
  BY <1>2, <1>3 DEF SpawnGdb

LEMMA ConnectInv ==
    ASSUME LifecycleInv, NEW c \in Callers, Connect(c) PROVE LifecycleInv'
<1>. DEFINE s == me[c].srv  g == me[c].gdb
<1>1. /\ me[c].pc = "connect" /\ s \in Pids /\ g \in Pids /\ s # g /\ Gdb(c).live
      /\ UNCHANGED <<slot, cut>> /\ Goto(c, "reset")
  BY State, Positive DEF Connect, At, HandsOf, WithServer, Talking
<1>2. PICK p \in Pids : /\ Listening(p) /\ procs[p].port = me[c].tried
                        /\ procs' = [procs EXCEPT ![g].peer = p]
  BY DEF Connect, Listening
<1>3. /\ procs' \in [Pids -> ProcType] /\ procs'[g].peer = p
      /\ \A q \in Pids : /\ q # g => procs'[q] = procs[q]
                         /\ procs'[q].live = procs[q].live /\ procs'[q].said = procs[q].said
                         /\ procs'[q].port = procs[q].port
                         /\ procs'[q].killed = procs[q].killed
  BY <1>1, <1>2, State DEF ProcType
<1>. DEFINE m == [me[c] EXCEPT !.pc = "reset"]
<1>4. /\ m \in CallerType /\ m.pc = "reset" /\ m.srv = s /\ m.gdb = g /\ m.tried = me[c].tried
  BY State DEF CallerType, Waiting
<1>5. me' = [me EXCEPT ![c] = m]
  BY <1>1, State DEF Goto, CallerType
<1>. HIDE DEF m
<1>6. me'[c] = m
  BY <1>5, State
<1>7. HandsOf(m)
  BY <1>1, <1>4 DEF HandsOf, Shaking
<1>8. Frame(c, m, 0) /\ Quiet(c, 0) /\ Takes(c, m, 0) /\ LetsGo(c, m, 0)
  BY <1>1, <1>3, <1>4, <1>5, <1>7, Positive DEF Frame, Quiet, Takes, LetsGo
<1>9. procs[s].live => p = s
  BY <1>1, <1>2, State, Positive DEF Paired, Srv, LifecycleInv, Pairs, OneListens
<1>10. Paired(c)'
  <2>1. procs[s].live => procs[s].port = me[c].tried /\ Listening(s)
    BY <1>1, State, Positive DEF Paired, Srv, WithServer, Talking
  <2>. QED
    BY <1>1, <1>3, <1>4, <1>6, <1>9, <2>1 DEF Paired, Srv, Gdb, Listening
<1>11. Stopped(c)'
  BY <1>4, <1>6 DEF Stopped, Stopping
<1>. QED
  BY <1>1, <1>3, <1>4, <1>8, <1>10, <1>11, Turn, State

\* The places before an exception or a close: on to the close of gdb.
LEMMA ToCloseInv ==
    ASSUME LifecycleInv, NEW c \in Callers, me[c].pc \in {"connect", "reset", "open"},
           NEW via \in {"connect", "reset", "close"},
           me' = [me EXCEPT ![c].via = via, ![c].pc = "gdb_close"], UNCHANGED procs,
           slot' \in [Callers -> BOOLEAN],
           cut' \in [count : 0..MaxInterrupts, unguarded : BOOLEAN],
           cut.unguarded => cut'.unguarded
    PROVE  LifecycleInv'
<1>. DEFINE after == me[c].after
<1>1. /\ me' = [me EXCEPT ![c] = [me[c] EXCEPT !.pc = "gdb_close", !.via = via, !.after = after]]
      /\ after \in {"next", "raise"}
  BY State DEF CallerType
<1>2. me[c].pc \in Talking /\ me[c].pc \in WithServer
  BY DEF Talking, WithServer
<1>3. "gdb_close" \in WithServer \ (Shaking \cup Stopping)
  BY DEF Talking, WithServer, Shaking, Stopping
<1>. HIDE DEF after
<1>. QED
  BY <1>1, <1>2, <1>3, GoesInv

LEMMA SessionInv ==
    ASSUME LifecycleInv, NEW c \in Callers, StartFails(c) \/ Open(c) \/ Close(c)
    PROVE  LifecycleInv'
<1>1. slot' \in [Callers -> BOOLEAN] /\ cut' = cut
  BY State DEF StartFails, Open, Close
<1>2. CASE StartFails(c)
  BY <1>1, <1>2, ToCloseInv, State DEF StartFails
<1>3. CASE Open(c)
  <2>1. me[c].pc = "reset" /\ Goto(c, "open") /\ UNCHANGED procs
    BY <1>3 DEF Open, At
  <2>2. /\ "open" \in Waiting /\ "open" \in WithServer \ (Shaking \cup Stopping)
        /\ me[c].pc \in WithServer /\ me[c].pc \in Talking
    BY <2>1 DEF Waiting, WithServer, Shaking, Talking, Stopping
  <2>3. Srv(c).live => Listening(me[c].srv)
    BY <2>1, State, Positive DEF Paired, HandsOf, WithServer, Talking
  <2>. QED
    BY <1>1, <2>1, <2>2, <2>3, GoInv
<1>4. CASE Close(c)
  BY <1>1, <1>4, ToCloseInv, State DEF Close, At
<1>. QED
  BY <1>2, <1>3, <1>4

-----------------------------------------------------------------------------
(* The two closes, a closed session entered again, and the interrupt.      *)

LEMMA GdbCloseInv ==
    ASSUME LifecycleInv, NEW c \in Callers, GdbClose(c) PROVE LifecycleInv'
<1>1. /\ me[c].pc \in {"gdb_close", "gdb_exit", "gdb_term"} /\ UNCHANGED <<slot, cut>>
      /\ me[c].pc \in Talking /\ me[c].pc \in WithServer
  BY DEF GdbClose, At, Talking, WithServer
<1>2. me[c].gdb \in Pids /\ me[c].gdb # 0
  BY <1>1, State, Positive DEF HandsOf
<1>3. /\ {"gdb_exit", "gdb_term"} \subseteq WithServer \ (Shaking \cup Stopping)
      /\ "srv_close" \in WithServer \ (Shaking \cup Talking)
  BY DEF WithServer, Shaking, Talking, Stopping
<1>4. ASSUME NEW place, Goto(c, place)
      PROVE  /\ me' = [me EXCEPT ![c] = [me[c] EXCEPT !.pc = place, !.after = me[c].after]]
             /\ me[c].after \in {"next", "raise"}
  BY <1>4, State DEF Goto, CallerType
<1>5. CASE ~Gdb(c).live /\ Goto(c, "srv_close") /\ UNCHANGED procs
  <2>1. Gone(me[c].gdb)
    BY <1>5 DEF Gone, Gdb
  <2>. QED
    BY <1>1, <1>3, <1>5, <2>1, GoInv, State
<1>6. CASE Signal(me[c].gdb, "exit") /\ Goto(c, "gdb_exit")
  BY <1>1, <1>2, <1>3, <1>4, <1>6, SignalsInv
<1>7. CASE Signal(me[c].gdb, "term") /\ Goto(c, "gdb_term")
  BY <1>1, <1>2, <1>3, <1>4, <1>7, SignalsInv
<1>8. CASE Signal(me[c].gdb, "kill") /\ Goto(c, "srv_close")
  <2>1. "srv_close" \in Stopping
    BY DEF Stopping
  <2>. QED
    BY <1>1, <1>2, <1>3, <1>4, <1>8, <2>1, SignalsInv
<1>. QED
  BY <1>5, <1>6, <1>7, <1>8 DEF GdbClose

LEMMA ServerCloseInv ==
    ASSUME LifecycleInv, NEW c \in Callers, ServerClose(c) PROVE LifecycleInv'
<1>1. /\ me[c].pc \in Stopping /\ me[c].pc \in WithServer /\ UNCHANGED <<slot, cut>>
      /\ me[c].pc \notin {"walk", "hs_kill"}
  BY DEF ServerClose, At, Stopping, WithServer
<1>2. me[c].srv \in Pids /\ me[c].srv # 0 /\ (~cut.unguarded => Gone(me[c].gdb))
  BY <1>1, State, Positive DEF HandsOf, Stopped
<1>3. {"srv_term", "srv_kill"} \subseteq Stopping \ (Shaking \cup Talking)
  BY DEF Shaking, Talking, Stopping
<1>4. ASSUME NEW place, Goto(c, place)
      PROVE  /\ me' = [me EXCEPT ![c] = [me[c] EXCEPT !.pc = place, !.after = me[c].after]]
             /\ me[c].after \in {"next", "raise"}
  BY <1>4, State DEF Goto, CallerType
<1>5. CASE ~Srv(c).live /\ End(c)
  BY <1>1, <1>2, <1>5, EndInv, State DEF Gone, Srv
<1>6. CASE Signal(me[c].srv, "term") /\ Goto(c, "srv_term")
  BY <1>1, <1>2, <1>3, <1>4, <1>6, SignalsInv
<1>7. CASE Signal(me[c].srv, "kill") /\ Goto(c, "srv_kill")
  BY <1>1, <1>2, <1>3, <1>4, <1>7, SignalsInv
<1>8. CASE At(c, "srv_kill") /\ End(c)
  BY <1>1, <1>2, <1>8, EndInv, State DEF Stopped, At
<1>. QED
  BY <1>5, <1>6, <1>7, <1>8 DEF ServerClose, LastSignal

LEMMA ReenterInv ==
    ASSUME LifecycleInv, NEW c \in Callers, Reenter(c) PROVE LifecycleInv'
<1>1. slot' \in [Callers -> BOOLEAN] /\ UNCHANGED <<procs, me, cut>>
  BY State DEF Reenter
<1>2. Hands'
  <2>1. TypeOK'
    BY <1>1 DEF LifecycleInv, Hands, TypeOK, Pids
  <2>. QED
    BY <1>1, <2>1 DEF LifecycleInv, Hands, Apart, HandsOf, Pids
<1>3. Pairs'
  BY <1>1 DEF LifecycleInv, Pairs, OneListens, Paired, Listening, Srv, Gdb, Pids
<1>4. Orderly'
  BY <1>1 DEF LifecycleInv, Orderly, NoOrphan, Orphan, OfCaller, Held, Stopped, Gone, Pids
<1>. QED
  BY <1>2, <1>3, <1>4 DEF LifecycleInv

\* An interrupt either meets a handler, which closes what there is, or ends
\* the call: harmlessly only where the processes have been killed already.
LEMMA InterruptInv ==
    ASSUME LifecycleInv, NEW c \in Callers, KeyboardInterrupt(c) PROVE LifecycleInv'
<1>1. /\ me[c].pc \in Waiting /\ slot' \in [Callers -> BOOLEAN]
      /\ cut' \in [count : 0..MaxInterrupts, unguarded : BOOLEAN]
      /\ cut.unguarded => cut'.unguarded
      /\ me[c].pc \in Unguarded => cut'.unguarded
  <2>1. slot' \in [Callers -> BOOLEAN]
    BY State DEF KeyboardInterrupt
  <2>2. cut.count + 1 \in 0..MaxInterrupts
    BY State, LifecycleAssumption DEF KeyboardInterrupt
  <2>. DEFINE u == cut.unguarded \/ me[c].pc \in Unguarded
  <2>3. u \in BOOLEAN
    OBVIOUS
  <2>4. cut' = [count |-> cut.count + 1, unguarded |-> u]
    BY DEF KeyboardInterrupt
  <2>5. (cut.unguarded => u) /\ (me[c].pc \in Unguarded => u)
    OBVIOUS
  <2>. HIDE DEF u
  <2>. QED
    BY <2>1, <2>2, <2>3, <2>4, <2>5 DEF KeyboardInterrupt
<1>2. CASE me[c].pc \in {"connect", "reset", "open"}
  <2>1. Unwinds(c) = "gdb_close"
    BY <1>2 DEF Unwinds, CatchesAll
  <2>. DEFINE via == IF me[c].pc = "open" THEN "close" ELSE me[c].pc
  <2>2. via \in {"connect", "reset", "close"}
    BY <1>2
  <2>3. UNCHANGED procs
    BY <2>1 DEF KeyboardInterrupt
  <2>4. via = CASE me[c].pc \in {"connect", "reset"} -> me[c].pc
                [] At(c, "open") -> "close"
                [] OTHER -> me[c].via
    BY <1>2 DEF At
  <2>5. me' = [me EXCEPT ![c].pc = Unwinds(c), ![c].via = via]
    BY <2>1, <2>4 DEF KeyboardInterrupt
  <2>6. me' = [me EXCEPT ![c].via = via, ![c].pc = "gdb_close"]
    <3>. HIDE DEF via
    <3>. QED
      BY <2>1, <2>5, State DEF CallerType
  <2>. HIDE DEF via
  <2>. QED
    BY <1>1, <1>2, <2>2, <2>3, <2>6, ToCloseInv
<1>3. CASE Unwinds(c) = "srv_close" /\ me[c].pc \notin {"connect", "reset", "open"}
  <2>1. me[c].pc \in {"spawn_gdb", "gdb_exit", "gdb_term"}
    BY <1>3 DEF Unwinds
  <2>. DEFINE via == me[c].via  after == me[c].after
  <2>2. /\ me' = [me EXCEPT ![c] = [me[c] EXCEPT !.pc = "srv_close", !.via = via, !.after = after]]
        /\ via \in {"none", "connect", "reset", "close"} /\ after \in {"next", "raise"}
        /\ UNCHANGED procs
    <3>1. via = CASE me[c].pc \in {"connect", "reset"} -> me[c].pc
                  [] At(c, "open") -> "close"
                  [] OTHER -> me[c].via
      BY <2>1 DEF At
    <3>2. UNCHANGED procs /\ me' = [me EXCEPT ![c].pc = "srv_close", ![c].via = via]
      BY <1>3, <3>1 DEF KeyboardInterrupt
    <3>3. me[c] \in CallerType /\ via = me[c].via /\ after = me[c].after
      BY State
    <3>. HIDE DEF via, after
    <3>. QED
      BY <3>2, <3>3, State DEF CallerType
  <2>3. ~cut'.unguarded => Gone(me[c].gdb)
    BY <1>1, <2>1, State DEF Unguarded, HandsOf, Gone
  <2>4. "srv_close" \in WithServer \ (Shaking \cup Talking) /\ me[c].pc \in WithServer
    BY <2>1 DEF WithServer, Shaking, Talking, Stopping
  <2>. HIDE DEF via, after
  <2>. QED
    BY <1>1, <2>2, <2>3, <2>4, GoesInv
<1>4. CASE End(c)
  <2>1. CASE me[c].pc \in Unguarded
    BY <1>1, <1>4, <2>1, EndInv
  <2>2. CASE me[c].pc \in {"hs_kill", "srv_kill"}
    <3>1. ~cut.unguarded => Gone(me[c].srv) /\ Gone(me[c].gdb)
      BY <2>2, State DEF Stopped, Stopping, HandsOf, Shaking, Gone
    <3>2. ~cut'.unguarded => ~cut.unguarded
      BY <1>1, State
    <3>. QED
      BY <1>1, <1>4, <3>1, <3>2, EndInv
  <2>3. CASE me[c].pc \in {"connect", "reset", "open"}
    BY <1>2, <2>3
  <2>4. CASE me[c].pc = "spawn_gdb"
    <3>1. Unwinds(c) = "srv_close"
      BY <2>4 DEF Unwinds
    <3>. QED
      BY <1>3, <2>4, <3>1
  <2>. QED
    BY <1>1, <2>1, <2>2, <2>3, <2>4 DEF Waiting, Unguarded
<1>5. Unwinds(c) \in {"idle", "gdb_close", "srv_close"}
      /\ (Unwinds(c) = "gdb_close" => me[c].pc \in {"connect", "reset", "open"})
  BY DEF Unwinds, CatchesAll
<1>6. Unwinds(c) = "idle" => End(c)
  BY DEF KeyboardInterrupt
<1>. QED
  BY <1>2, <1>3, <1>4, <1>5, <1>6

-----------------------------------------------------------------------------
(* The processes by themselves, and the theorems.                          *)

\* A process that nobody's hands touch: who holds what stays as it is.
LEMMA WorldHands ==
    ASSUME LifecycleInv, UNCHANGED <<me, slot, cut>>, procs' \in [Pids -> ProcType] PROVE Hands'
<1>1. TypeOK'
  BY DEF LifecycleInv, Hands, TypeOK, ProcType, Pids
<1>. QED
  BY <1>1 DEF LifecycleInv, Hands, Apart, HandsOf, Pids

LEMMA WorldPairs ==
    ASSUME LifecycleInv, UNCHANGED me, OneListens',
           \A c \in Callers : \A p \in {me[c].srv, me[c].gdb} : p # 0 /\ procs'[p].live =>
              /\ procs[p].live /\ procs'[p].port = procs[p].port /\ procs'[p].peer = procs[p].peer
              /\ Listening(p) => procs'[p].said = "ready"
    PROVE  Pairs'
<1>1. ASSUME NEW c \in Callers PROVE Paired(c)'
  <2>1. Paired(c) /\ (me[c].pc \in {"reset", "open"} => me[c].gdb # 0)
    BY State, Positive DEF HandsOf, Talking
  <2>. QED
    BY <2>1 DEF Paired, Srv, Gdb, Listening
<1>. QED
  BY <1>1 DEF Pairs

LEMMA WorldOrderly ==
    ASSUME LifecycleInv, UNCHANGED <<me, cut>>,
           \A p \in Pids : OfCaller(p)' => OfCaller(p) /\ (procs[p].killed => procs'[p].killed),
           \A c \in Callers : \A p \in {me[c].srv, me[c].gdb} :
              p # 0 /\ procs'[p].live => procs[p].live /\ (procs[p].killed => procs'[p].killed)
    PROVE  Orderly'
<1>1. NoOrphan' \/ ~NoOrphan
  BY DEF NoOrphan, Orphan, Held, Pids
<1>2. ASSUME NEW c \in Callers, Stopped(c) PROVE Stopped(c)'
  BY <1>2 DEF Stopped, Gone
<1>. QED
  BY <1>1, <1>2 DEF LifecycleInv, Orderly

LEMMA ServerSpeaksInv ==
    ASSUME LifecycleInv, NEW p \in Pids, ServerSpeaks(p) PROVE LifecycleInv'
<1>1. UNCHANGED <<me, slot, cut>> /\ procs[p].live /\ procs[p].said = "none"
  BY DEF ServerSpeaks
<1>2. procs \in [Pids -> ProcType]
  BY TypedInv
<1>3. PICK line \in {"ready", "port-busy", "probe-not-found"}, lives \in BOOLEAN :
          /\ procs' = [procs EXCEPT ![p].said = line, ![p].live = lives]
          /\ line = "ready" => ~\E q \in Pids : Listening(q)
  <2>1. CASE /\ ~\E q \in Pids : Listening(q)
             /\ procs' = [procs EXCEPT ![p].said = "ready"]
    <3>1. procs' = [procs EXCEPT ![p].said = "ready", ![p].live = TRUE]
      BY <1>1, <1>2, <2>1 DEF ProcType
    <3>. QED
      BY <2>1, <3>1
  <2>2. CASE Says(p, "port-busy")
    BY <2>2 DEF Says
  <2>3. CASE Says(p, "probe-not-found")
    BY <2>3 DEF Says
  <2>. QED
    BY <2>1, <2>2, <2>3 DEF ServerSpeaks
<1>4. /\ procs' \in [Pids -> ProcType] /\ procs'[p].said = line
      /\ \A q \in Pids : /\ q # p => procs'[q] = procs[q]
                         /\ procs'[q].live => procs[q].live
                         /\ procs'[q].port = procs[q].port /\ procs'[q].peer = procs[q].peer
                         /\ procs'[q].kind = procs[q].kind /\ procs'[q].killed = procs[q].killed
  BY <1>1, <1>2, <1>3 DEF ProcType
<1>5. Hands'
  BY <1>1, <1>4, WorldHands
<1>6. OneListens'
  BY <1>3, <1>4 DEF OneListens, Listening, Pids, LifecycleInv, Pairs
<1>7. \A c \in Callers : me[c].srv \in {0} \cup Pids /\ me[c].gdb \in {0} \cup Pids
  BY State DEF CallerType
<1>8. Pairs'
  BY <1>1, <1>4, <1>6, <1>7, WorldPairs DEF Listening
<1>9. Orderly'
  BY <1>1, <1>4, <1>7, WorldOrderly DEF OfCaller
<1>. QED
  BY <1>5, <1>8, <1>9 DEF LifecycleInv

LEMMA IntrudeInv ==
    ASSUME LifecycleInv, NEW p \in Pids, NEW port \in 1..Ports, Intrude(p, port)
    PROVE  LifecycleInv'
<1>. DEFINE new == [Process("other", port) EXCEPT !.said = "ready"]
<1>1. /\ UNCHANGED <<me, slot, cut>> /\ ~Held(p) /\ ~\E q \in Pids : Listening(q)
      /\ procs' = [procs EXCEPT ![p] = new]
  BY DEF Intrude, Free
<1>2. procs \in [Pids -> ProcType]
  BY TypedInv
<1>3. new \in ProcType /\ new.kind = "other"
  <2>1. Process("other", port) \in ProcType /\ Process("other", port).kind = "other"
    BY LifecycleAssumption DEF Process, ProcType
  <2>. QED
    BY <2>1 DEF ProcType
<1>. HIDE DEF new
<1>4. /\ procs' \in [Pids -> ProcType] /\ procs'[p].kind = "other"
      /\ \A q \in Pids : q # p => procs'[q] = procs[q]
  BY <1>1, <1>2, <1>3
<1>5. Hands'
  BY <1>1, <1>4, WorldHands
<1>6. OneListens'
  BY <1>1, <1>4 DEF OneListens, Listening, Pids
<1>7. \A c \in Callers : \A q \in {me[c].srv, me[c].gdb} : q # 0 => q \in Pids /\ procs'[q] = procs[q]
  BY <1>1, <1>4, State DEF Held, CallerType
<1>8. Pairs'
  BY <1>1, <1>6, <1>7, WorldPairs DEF Listening
<1>9. Orderly'
  BY <1>1, <1>4, <1>7, WorldOrderly DEF OfCaller
<1>. QED
  BY <1>5, <1>8, <1>9 DEF LifecycleInv

LEMMA DiesInv ==
    ASSUME LifecycleInv, NEW p \in Pids, Dies(p) PROVE LifecycleInv'
<1>1. UNCHANGED <<me, slot, cut>>
  BY DEF Dies
<1>2. procs \in [Pids -> ProcType]
  BY TypedInv
<1>3. PICK dead \in ProcType : procs' = [procs EXCEPT ![p] = dead] /\ ~dead.live
  <2>1. /\ NoProcess \in ProcType /\ ~NoProcess.live
        /\ [NoProcess EXCEPT !.said = procs[p].said] \in ProcType
        /\ ~[NoProcess EXCEPT !.said = procs[p].said].live
    <3>1. NoProcess \in ProcType /\ ~NoProcess.live
      BY LifecycleAssumption DEF NoProcess, ProcType
    <3>2. procs[p].said \in {"none", "ready", "port-busy", "probe-not-found"}
      BY <1>2 DEF ProcType
    <3>. QED
      BY <3>1, <3>2 DEF ProcType
  <2>. QED
    BY <2>1 DEF Dies
<1>4. /\ procs' \in [Pids -> ProcType] /\ ~procs'[p].live
      /\ \A q \in Pids : q # p => procs'[q] = procs[q]
  BY <1>2, <1>3
<1>5. Hands'
  BY <1>1, <1>4, WorldHands
<1>6. OneListens'
  BY <1>4 DEF OneListens, Listening, Pids, LifecycleInv, Pairs
<1>7. \A c \in Callers : \A q \in {me[c].srv, me[c].gdb} :
          q # 0 /\ procs'[q].live => q \in Pids /\ procs'[q] = procs[q]
  BY <1>1, <1>4, State DEF CallerType
<1>8. Pairs'
  BY <1>1, <1>6, <1>7, WorldPairs DEF Listening
<1>9. Orderly'
  BY <1>1, <1>4, <1>7, WorldOrderly DEF OfCaller
<1>. QED
  BY <1>5, <1>8, <1>9 DEF LifecycleInv

LEMMA InitInv == Init => LifecycleInv
<1>. SUFFICES ASSUME Init PROVE LifecycleInv
  OBVIOUS
<1>1. \A p \in Pids : procs[p] = NoProcess
  BY DEF Init
<1>2. \A c \in Callers : /\ me[c].pc = "idle" /\ me[c].srv = 0 /\ me[c].gdb = 0
  BY DEF Init, Resting
<1>3. TypeOK
  BY LifecycleAssumption DEF Init, TypeOK, NoProcess, Resting
<1>4. \A c \in Callers : HandsOf(me[c])
  BY <1>2 DEF HandsOf, WithServer, Shaking, Talking, Stopping
<1>5. Apart /\ \A c \in Callers : Paired(c) /\ Stopped(c)
  BY <1>2 DEF Apart, Paired, Stopped, Gone, Stopping
<1>6. OneListens /\ NoOrphan
  BY <1>1 DEF OneListens, Listening, NoOrphan, Orphan, OfCaller, NoProcess
<1>. QED
  BY <1>3, <1>4, <1>5, <1>6 DEF LifecycleInv, Hands, Pairs, Orderly

LEMMA StepInv == LifecycleInv /\ [Next]_vars => LifecycleInv'
<1>. SUFFICES ASSUME LifecycleInv, [Next]_vars PROVE LifecycleInv'
  OBVIOUS
<1>1. ASSUME NEW c \in Callers, StartSession(c) PROVE LifecycleInv'
  BY <1>1, StartSessionInv
<1>2. ASSUME NEW c \in Callers, CallerStep(c) PROVE LifecycleInv'
  <2>1. CASE Walk(c) \/ HandshakeDone(c) \/ HandshakeExited(c)
    BY <2>1, WalkInv, HandshakeInv
  <2>2. CASE HandshakeFails(c) \/ HandshakeReap(c)
    BY <2>2, HandshakeFailsInv, HandshakeReapInv
  <2>3. CASE SpawnGdb(c) \/ Connect(c)
    BY <2>3, SpawnGdbInv, ConnectInv
  <2>4. CASE StartFails(c) \/ Open(c)
    BY <2>4, SessionInv
  <2>5. CASE GdbClose(c) \/ ServerClose(c)
    BY <2>5, GdbCloseInv, ServerCloseInv
  <2>. QED
    BY <1>2, <2>1, <2>2, <2>3, <2>4, <2>5 DEF CallerStep
<1>3. ASSUME NEW c \in Callers, Close(c) PROVE LifecycleInv'
  BY <1>3, SessionInv
<1>4. ASSUME NEW c \in Callers, Reenter(c) PROVE LifecycleInv'
  BY <1>4, ReenterInv
<1>5. ASSUME NEW c \in Callers, KeyboardInterrupt(c) PROVE LifecycleInv'
  BY <1>5, InterruptInv
<1>6. ASSUME NEW p \in Pids, ServerSpeaks(p) PROVE LifecycleInv'
  BY <1>6, ServerSpeaksInv
<1>7. ASSUME NEW p \in Pids, Dies(p) PROVE LifecycleInv'
  BY <1>7, DiesInv
<1>8. ASSUME NEW p \in Pids, NEW port \in 1..Ports, Intrude(p, port) PROVE LifecycleInv'
  BY <1>8, IntrudeInv
<1>9. CASE UNCHANGED vars
  <2>1. TypeOK'
    BY <1>9 DEF vars, LifecycleInv, Hands, TypeOK, Pids
  <2>2. Hands'
    BY <1>9, <2>1 DEF vars, LifecycleInv, Hands, Apart, HandsOf, Pids
  <2>3. Pairs'
    BY <1>9 DEF vars, LifecycleInv, Pairs, OneListens, Paired, Listening, Srv, Gdb, Pids
  <2>4. Orderly'
    BY <1>9 DEF vars, LifecycleInv, Orderly, NoOrphan, Orphan, OfCaller, Held, Stopped, Gone, Pids
  <2>. QED
    BY <2>2, <2>3, <2>4 DEF LifecycleInv
<1>. QED
  BY <1>1, <1>2, <1>3, <1>4, <1>5, <1>6, <1>7, <1>8, <1>9 DEF Next

LEMMA LifecycleAlways == Spec => []LifecycleInv
<1>. QED
  BY InitInv, StepInv, PTL DEF Spec

\* The types of the processes, the callers and the slots.
THEOREM LifecycleTypes == Spec => []TypeOK
<1>1. LifecycleInv => TypeOK
  BY DEF LifecycleInv, Hands
<1>. QED
  BY <1>1, LifecycleAlways, PTL

\* However many callers and other programs compete for the ports and the probe,
\* a session whose gdb and gdbserver are alive has the two connected: the
\* server that listens on its port cannot be another's.
THEOREM PeersAreOwn == Spec => []PeerIsOwn
<1>1. LifecycleInv => PeerIsOwn
  <2>. SUFFICES ASSUME LifecycleInv, NEW c \in Callers, At(c, "open"), Gdb(c).live, Srv(c).live
                PROVE  Gdb(c).peer = me[c].srv
    BY DEF PeerIsOwn
  <2>1. me[c].srv \in Pids
    BY State DEF At, HandsOf, WithServer, Talking
  <2>. QED
    BY <2>1, State, Positive DEF Paired, At
<1>. QED
  BY <1>1, LifecycleAlways, PTL

\* No gdb and no gdbserver outlives its caller unstopped, whichever step of
\* start_session or close fails, and wherever an interrupt strikes but in the
\* places of Unguarded.
THEOREM NoneIsOrphaned == Spec => []NoOrphan
<1>1. LifecycleInv => NoOrphan
  BY DEF LifecycleInv, Orderly, NoOrphan
<1>. QED
  BY <1>1, LifecycleAlways, PTL
=============================================================================
