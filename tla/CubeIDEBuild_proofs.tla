-------------------------- MODULE CubeIDEBuild_proofs ------------------------
(***************************************************************************)
(* The invariants of BuildSpec, for any finite set of builds.              *)
(*                                                                         *)
(* OneBuild, mutual exclusion, is not inductive: that a second build is    *)
(* refused takes that the first one's lock is on the very file the second  *)
(* opens, although the first has wiped the directory the file lies in.     *)
(*                                                                         *)
(* TreeGone, which is inductive once the types of ToolRun are at hand.     *)
(*                                                                         *)
(* What the builds do to the files they share: edits that are committed    *)
(* stay, a torn .cproject has its backup, no Eclipse loses its workspace   *)
(* to a build, and no project outside the workspace its links.             *)
(*                                                                         *)
(* And that a build ends: the steps of its own are counted down.           *)
(***************************************************************************)
EXTENDS CubeIDEBuild, FiniteSetTheorems, TLAPS

LockTypes ==
    /\ pc \in [Builds -> Locked \cup Ended \cup {"lock"}]
    /\ held \in [Builds -> Nat] /\ sublock \in Nat

\* Whoever is in the with statement holds the file at its path, and nobody else
\* holds anything.
HoldsThePath == \A b \in Builds :
    IF pc[b] \in Locked THEN held[b] = sublock /\ sublock # 0 ELSE held[b] = 0

LockInv == LockTypes /\ HoldsThePath /\ OneBuild

-----------------------------------------------------------------------------
(* The three things a step can do to the lock.                             *)

\* Nothing.
LEMMA Rests ==
    ASSUME LockInv, UNCHANGED <<pc, held, sublock>>
    PROVE  LockInv'
  BY DEF LockInv, LockTypes, HoldsThePath, OneBuild

\* A build that is in the with statement goes on in it.
LEMMA GoesOn ==
    ASSUME LockInv, NEW b \in Builds, pc[b] \in Locked, UNCHANGED sublock,
           NEW where \in Locked, NEW mine, Enter(b, where, mine)
    PROVE  LockInv'
  BY DEF LockInv, LockTypes, HoldsThePath, OneBuild, Enter

\* A build leaves it, or never gets into it.
LEMMA Leaves ==
    ASSUME LockInv, NEW b \in Builds, UNCHANGED sublock, NEW how \in Ended, End(b, how)
    PROVE  LockInv'
  BY DEF LockInv, LockTypes, HoldsThePath, OneBuild, End, Ended, Locked

-----------------------------------------------------------------------------
(* Taking the lock.                                                        *)

\* The first lock file, while no lock is held.
LEMMA FirstInode ==
    ASSUME LockTypes, \A b \in Builds : held[b] = 0
    PROVE  NewInode(held) = 1
<1>1. Cardinality(DOMAIN held) \in Nat
  BY BuildAssumption, FS_CardinalityType DEF LockTypes
<1>2. 1 \in 1..Cardinality(DOMAIN held) + 1
  BY <1>1
<1>3. \A i \in 1..Cardinality(DOMAIN held) + 1 :
        (\A n \in 1..i : (n = i) <=> \A e \in DOMAIN held : held[e] # n) <=> i = 1
  BY <1>1 DEF LockTypes
<1>. QED
  BY <1>2, <1>3 DEF NewInode

\* A build gets in only when nobody is: whoever is in holds the file it opens.
LEMMA LockStep ==
    ASSUME LockInv, NEW b \in Builds, Lock(b)
    PROVE  LockInv'
<1>. DEFINE inode == IF sublock = 0 THEN NewInode(held) ELSE sublock
<1>1. sublock = 0 => \A a \in Builds : held[a] = 0 /\ pc[a] \notin Locked
  BY DEF LockInv, HoldsThePath
<1>2. inode \in Nat /\ inode # 0
  BY <1>1, FirstInode DEF LockInv, LockTypes
<1>3. pc[b] = "lock" /\ sublock' = inode
  BY DEF Lock
<1>4. CASE Contended(inode)
  <2>1. sublock # 0 /\ End(b, "refused")
    BY <1>1, <1>2, <1>4 DEF Contended, Lock
  <2>. QED
    BY <1>3, <2>1, Leaves DEF Ended
<1>5. CASE ~Contended(inode)
  <2>1. pc' = [pc EXCEPT ![b] = "probe"] /\ held' = [held EXCEPT ![b] = inode]
    BY <1>5 DEF Lock
  <2>2. \A a \in Builds : pc[a] \notin Locked
    BY <1>1, <1>5 DEF LockInv, HoldsThePath, Contended
  <2>3. LockTypes'
    BY <1>2, <1>3, <2>1 DEF LockInv, LockTypes, Locked
  <2>4. HoldsThePath'
    BY <1>2, <1>3, <2>1, <2>2, <2>3 DEF LockInv, LockTypes, HoldsThePath, Locked
  <2>5. OneBuild'
    BY <1>3, <2>1, <2>2 DEF LockInv, LockTypes, OneBuild
  <2>. QED
    BY <2>3, <2>4, <2>5 DEF LockInv
<1>. QED
  BY <1>4, <1>5

-----------------------------------------------------------------------------
(* The steps under the lock.                                               *)

\* Probe and the import decision.  The reset is the step the lock has to survive:
\* it deletes whatever lies beside the lock file.
LEMMA DecisionStep ==
    ASSUME LockInv, NEW b \in Builds,
           Probe(b) \/ ProbeReleases(b) \/ Reset(b) \/ Fresh(b) \/ Reuse(b) \/ ListStale(b) \/ Purge(b)
    PROVE  LockInv'
<1>1. CASE Probe(b)
  <2>1. pc[b] \in Locked /\ UNCHANGED sublock
    BY <1>1 DEF Probe, others, Locked
  <2>2. End(b, "refused") \/ Goto(b, "decide") \/ Goto(b, "probing")
    BY <1>1 DEF Probe
  <2>. QED
    BY <2>1, <2>2, GoesOn, Leaves DEF Goto, Locked, Ended
<1>2. CASE ProbeReleases(b)
  BY <1>2, GoesOn DEF ProbeReleases, Goto, others, Locked
<1>3. CASE Reset(b)
  BY <1>3, GoesOn DEF Reset, ImportsNext, KeptLock, Locked
<1>4. CASE Fresh(b)
  BY <1>4, GoesOn DEF Fresh, ImportsNext, others, Locked
<1>5. CASE Reuse(b)
  <2>1. pc[b] \in Locked /\ UNCHANGED sublock
    BY <1>5 DEF Reuse, others, Locked
  <2>2. End(b, "refused") \/ Goto(b, "edit")
    BY <1>5 DEF Reuse
  <2>. QED
    BY <2>1, <2>2, GoesOn, Leaves DEF Goto, Locked, Ended
<1>6. CASE ListStale(b)
  BY <1>6, GoesOn DEF ListStale, others, Locked
<1>7. CASE Purge(b)
  BY <1>7, GoesOn DEF Purge, ImportsNext, Locked
<1>. QED
  BY <1>1, <1>2, <1>3, <1>4, <1>5, <1>6, <1>7

\* The edits and the headless run.
LEMMA WorkStep ==
    ASSUME LockInv, NEW b \in Builds,
           \/ NoEdits(b) \/ Snapshot(b) \/ Edit(b) \/ Write(b) \/ Written(b) \/ Validate(b)
           \/ Rollback(b) \/ Restored(b) \/ Run(b) \/ Retry(b) \/ Return(b)
    PROVE  LockInv'
<1>1. pc[b] \in Locked /\ UNCHANGED sublock
  BY DEF NoEdits, Snapshot, Edit, Write, Written, Validate, Rollback, Restored, Run, Retry, Return,
         others, Locked
<1>2. \/ \E where \in Locked : \E mine : Enter(b, where, mine)
      \/ \E how \in Ended : End(b, how)
  <2>1. CASE NoEdits(b)
    BY <2>1 DEF NoEdits, Goto, Locked
  <2>2. CASE Snapshot(b)
    BY <2>2 DEF Snapshot, Locked, Ended
  <2>3. CASE Edit(b)
    BY <2>3 DEF Edit, Goto, Locked, Ended
  <2>4. CASE Write(b)
    BY <2>4 DEF Write, Goto, Locked
  <2>5. CASE Written(b)
    BY <2>5 DEF Written, Caught, Goto, Locked
  <2>6. CASE Validate(b)
    BY <2>6 DEF Validate, Goto, Locked, Ended
  <2>7. CASE Rollback(b)
    BY <2>7 DEF Rollback, Goto, Locked
  <2>8. CASE Restored(b)
    BY <2>8 DEF Restored, Ended
  <2>9. CASE Run(b)
    BY <2>9 DEF Run, Goto, Locked
  <2>10. CASE Retry(b)
    BY <2>10 DEF Retry, Locked
  <2>11. CASE Return(b)
    BY <2>11 DEF Return, Ended
  <2>. QED
    BY <2>1, <2>2, <2>3, <2>4, <2>5, <2>6, <2>7, <2>8, <2>9, <2>10, <2>11
<1>. QED
  BY <1>1, <1>2, GoesOn, Leaves

\* Ctrl-C and crashes release the lock, as the operating system does.
LEMMA FaultStep ==
    ASSUME LockInv, NEW b \in Builds, Stop(b) \/ Crash(b)
    PROVE  LockInv'
<1>1. End(b, "stopped") /\ UNCHANGED sublock
  BY DEF Stop, Crash
<1>. QED
  BY <1>1, Leaves DEF Ended

\* Eclipse, the tools, the user and the clock have no hand in it.
LEMMA OthersStep ==
    ASSUME LockInv,
           \/ \E b \in Builds : ToolMoves(b) \/ JvmTakes(b) \/ JvmWorks(b)
           \/ GuiOpens \/ GuiCloses \/ UserDeletes \/ Tick
    PROVE  LockInv'
<1>1. UNCHANGED <<pc, held, sublock>>
  <2>1. ASSUME NEW b \in Builds, ToolMoves(b) \/ JvmTakes(b) \/ JvmWorks(b)
        PROVE  UNCHANGED <<pc, held, sublock>>
    <3>1. CASE ToolMoves(b)
      BY <3>1 DEF ToolMoves, buildvars, locks
    <3>2. CASE JvmTakes(b)
      BY <3>2 DEF JvmTakes, Take, locks
    <3>3. CASE JvmWorks(b)
      BY <3>3 DEF JvmWorks
    <3>. QED
      BY <2>1, <3>1, <3>2, <3>3
  <2>2. GuiOpens \/ GuiCloses => UNCHANGED <<pc, held, sublock>>
    BY DEF GuiOpens, GuiCloses, Take
  <2>3. UserDeletes \/ Tick => UNCHANGED <<pc, held, sublock>>
    BY DEF UserDeletes, Tick, locks
  <2>. QED
    BY <2>1, <2>2, <2>3
<1>. QED
  BY <1>1, Rests

-----------------------------------------------------------------------------
LEMMA LockAlways == BuildSpec => []LockInv
<1>1. BuildInit => LockInv
  BY DEF BuildInit, LockInv, LockTypes, HoldsThePath, OneBuild, Locked
<1>2. LockInv /\ [BuildNext]_allvars => LockInv'
  <2>. SUFFICES ASSUME LockInv, [BuildNext]_allvars PROVE LockInv'
    OBVIOUS
  <2>1. ASSUME NEW b \in Builds, BuildStep(b) \/ Stop(b) \/ Crash(b) PROVE LockInv'
    BY <2>1, LockStep, DecisionStep, WorkStep, FaultStep DEF BuildStep
  <2>2. CASE UNCHANGED allvars
    BY <2>2, Rests DEF allvars, buildvars, locks
  <2>. QED
    BY <2>1, <2>2, OthersStep DEF BuildNext
<1>. QED
  BY <1>1, <1>2, PTL DEF BuildSpec

\* No two builds are between taking and releasing the lock together, however
\* many there are and whatever they wipe, crash at and leave behind.
THEOREM MutualExclusion == BuildSpec => []OneBuild
<1>1. LockInv => OneBuild
  BY DEF LockInv
<1>. QED
  BY <1>1, LockAlways, PTL

-----------------------------------------------------------------------------
(* The process tree.                                                       *)

ToolInv == ToolTypeOK /\ TreeGone

\* A call begins.
LEMMA SpawnKeeps ==
    ASSUME ToolInv, NEW c \in Calls, Spawn(c)
    PROVE  ToolInv'
  BY DEF ToolInv, ToolTypeOK, TreeGone, Spawn, Codes

\* run_tool ends with an empty tree, or says that it escaped.
LEMMA RunToolKeeps ==
    ASSUME ToolInv, NEW c \in Calls, RunToolStep(c) \/ Interrupt(c)
    PROVE  ToolInv'
<1>1. CASE Communicated(c)
  BY <1>1 DEF ToolInv, ToolTypeOK, TreeGone, Communicated
<1>2. CASE Deadline(c)
  BY <1>2 DEF ToolInv, ToolTypeOK, TreeGone, Deadline
<1>3. CASE LauncherGone(c)
  BY <1>3 DEF ToolInv, ToolTypeOK, TreeGone, LauncherGone
<1>4. CASE SigTerm(c)
  <2>1. PICK l \in {"alive", "zombie"}, j \in {jvm[c], "dead"} :
          launcher' = [launcher EXCEPT ![c] = l] /\ jvm' = [jvm EXCEPT ![c] = j]
    BY <1>4 DEF SigTerm
  <2>2. ToolTypeOK'
    BY <1>4, <2>1 DEF ToolInv, ToolTypeOK, SigTerm, Codes
  <2>3. TreeGone'
    BY <1>4, <2>1 DEF ToolInv, ToolTypeOK, TreeGone, SigTerm
  <2>. QED
    BY <2>2, <2>3 DEF ToolInv
<1>5. CASE SigKill(c)
  BY <1>5 DEF ToolInv, ToolTypeOK, TreeGone, SigKill, SweptTree
<1>6. CASE Interrupt(c)
  <2>1. ToolTypeOK'
    <3>1. faults' \in 0..MaxFaults
      BY <1>6, FaultsAssumption DEF ToolInv, ToolTypeOK, Interrupt
    <3>2. CASE at' = [at EXCEPT ![c] = "poll"] /\ UNCHANGED escaped
      BY <1>6, <3>1, <3>2 DEF ToolInv, ToolTypeOK, Interrupt
    <3>3. CASE at' = [at EXCEPT ![c] = "over"] /\ escaped' = [escaped EXCEPT ![c] = TRUE]
      BY <1>6, <3>1, <3>3 DEF ToolInv, ToolTypeOK, Interrupt
    <3>. QED
      BY <1>6, <3>2, <3>3 DEF Interrupt
  <2>2. TreeGone'
    BY <1>6 DEF ToolInv, ToolTypeOK, TreeGone, Interrupt
  <2>. QED
    BY <2>1, <2>2 DEF ToolInv
<1>. QED
  BY <1>1, <1>2, <1>3, <1>4, <1>5, <1>6 DEF RunToolStep

\* A tree that is gone does not grow again: a JVM needs a live launcher.
LEMMA TreeMoves ==
    ASSUME ToolInv, NEW c \in Calls,
           StartJvm(c) \/ LauncherExits(c) \/ \E r \in Codes : JvmExits(c, r)
    PROVE  ToolInv'
<1>1. CASE StartJvm(c)
  BY <1>1 DEF ToolInv, ToolTypeOK, TreeGone, StartJvm
<1>2. CASE LauncherExits(c)
  BY <1>2 DEF ToolInv, ToolTypeOK, TreeGone, LauncherExits, Codes
<1>3. ASSUME NEW r \in Codes, JvmExits(c, r) PROVE ToolInv'
  BY <1>3 DEF ToolInv, ToolTypeOK, TreeGone, JvmExits
<1>. QED
  BY <1>1, <1>2, <1>3

\* Steps that leave the tool alone.
LEMMA ToolRests == ToolInv /\ UNCHANGED tool => ToolInv'
  BY DEF ToolInv, ToolTypeOK, TreeGone, tool

\* What the build itself does to its tool.
LEMMA BuildKeepsTool ==
    ASSUME ToolInv, NEW b \in Builds, BuildStep(b) \/ Stop(b) \/ Crash(b)
    PROVE  ToolInv'
<1>1. CASE Run(b) \/ Retry(b)
  BY <1>1, SpawnKeeps, BuildAssumption DEF Run, Retry
<1>2. CASE Return(b)
  BY <1>2, BuildAssumption DEF ToolInv, ToolTypeOK, TreeGone, Return
<1>3. CASE Stop(b)
  BY <1>3, FaultsAssumption DEF ToolInv, ToolTypeOK, TreeGone, Stop
<1>4. CASE Crash(b)
  BY <1>4, FaultsAssumption, BuildAssumption DEF ToolInv, ToolTypeOK, TreeGone, Crash
<1>5. ASSUME \/ Lock(b) \/ Probe(b) \/ ProbeReleases(b) \/ Reset(b) \/ Fresh(b) \/ Reuse(b)
             \/ ListStale(b) \/ Purge(b)
      PROVE  UNCHANGED tool
  BY <1>5 DEF Lock, Probe, ProbeReleases, Reset, Fresh, Reuse, ListStale, Purge, others
<1>6. ASSUME \/ NoEdits(b) \/ Snapshot(b) \/ Edit(b) \/ Write(b) \/ Written(b) \/ Validate(b)
             \/ Rollback(b) \/ Restored(b)
      PROVE  UNCHANGED tool
  BY <1>6 DEF NoEdits, Snapshot, Edit, Write, Written, Validate, Rollback, Restored, others
<1>. QED
  BY <1>1, <1>2, <1>3, <1>4, <1>5, <1>6, ToolRests DEF BuildStep

LEMMA ToolAlways == BuildSpec => []ToolInv
<1>1. BuildInit => ToolInv
  BY FaultsAssumption DEF BuildInit, ToolInit, ToolInv, ToolTypeOK, TreeGone, Codes
<1>2. ToolInv /\ [BuildNext]_allvars => ToolInv'
  <2>. SUFFICES ASSUME ToolInv, [BuildNext]_allvars PROVE ToolInv'
    OBVIOUS
  <2>1. ASSUME NEW b \in Builds, BuildStep(b) \/ Stop(b) \/ Crash(b) PROVE ToolInv'
    BY <2>1, BuildKeepsTool
  <2>2. ASSUME NEW b \in Builds, ToolMoves(b) PROVE ToolInv'
    BY <2>2, RunToolKeeps, TreeMoves, BuildAssumption DEF ToolMoves
  <2>3. ASSUME NEW b \in Builds, JvmTakes(b) PROVE ToolInv'
    BY <2>3, TreeMoves, ToolRests, BuildAssumption DEF JvmTakes, Codes
  <2>4. ASSUME NEW b \in Builds, JvmWorks(b) PROVE ToolInv'
    BY <2>4, TreeMoves, BuildAssumption DEF JvmWorks, Codes
  <2>5. CASE GuiOpens \/ GuiCloses \/ UserDeletes \/ Tick
    BY <2>5, ToolRests DEF GuiOpens, GuiCloses, UserDeletes, Tick
  <2>6. CASE UNCHANGED allvars
    BY <2>6, ToolRests DEF allvars
  <2>. QED
    BY <2>1, <2>2, <2>3, <2>4, <2>5, <2>6 DEF BuildNext
<1>. QED
  BY <1>1, <1>2, PTL DEF BuildSpec

\* However a call of run_tool ends, nothing of its tool lives on, but for the two
\* ways out it knows of: a launcher already gone, and a Ctrl-C or crash.
THEOREM NoTreeLeft == BuildSpec => []TreeGone
<1>1. ToolInv => TreeGone
  BY DEF ToolInv
<1>. QED
  BY <1>1, ToolAlways, PTL

-----------------------------------------------------------------------------
(* What the builds do to the files they share.  All of it rests on mutual  *)
(* exclusion (LockInv): while a build is in the with statement, what it    *)
(* looked at is changed by nobody but itself, the Eclipses and the user.   *)

\* What a step of b does to where it is, and to its variables.
Moves(b, where, mine) ==
    pc' = [pc EXCEPT ![b] = where] /\ local' = [local EXCEPT ![b] = mine]

LocalType == [needs_import : BOOLEAN, doomed : BOOLEAN, tree : SUBSET Builds,
              stamp : 0..MaxClock, present : SUBSET Eclipses]

Final(b) == [NoLocals EXCEPT !.needs_import = Told(b)]

LEMMA FinalOK ==
    ASSUME NEW b \in Builds
    PROVE  /\ Final(b) \in LocalType /\ Final(b).present = {}
           /\ \A how : End(b, how) => Moves(b, how, Final(b))
           /\ \A where, mine : Enter(b, where, mine) => Moves(b, where, mine)
<1>1. Told(b) \in BOOLEAN
  BY DEF Told
<1>2. NoLocals \in LocalType
  BY BuildAssumption DEF NoLocals, LocalType
<1>. QED
  BY <1>1, <1>2 DEF Final, NoLocals, LocalType, End, Enter, Moves

-----------------------------------------------------------------------------
(* Types.                                                                  *)

\* There is an inode for a new file: the locks held are on fewer.
LEMMA InodeExists ==
    ASSUME NEW D, IsFiniteSet(D), NEW grips \in [D -> Nat]
    PROVE  NewInode(grips) \in 1..Cardinality(D) + 1
<1>. DEFINE n == Cardinality(D) + 1
            unheld == {i \in 1..n : \A e \in D : grips[e] # i}
            less == OpToRel(<, Nat)
<1>1. n \in Nat /\ n = Cardinality(D) + 1
  BY FS_CardinalityType
<1>2. unheld # {}
  <2>. SUFFICES ASSUME unheld = {} PROVE FALSE
    OBVIOUS
  <2>. DEFINE f == [i \in 1..n |-> CHOOSE e \in D : grips[e] = i]
  <2>1. \A i \in 1..n : f[i] \in D /\ grips[f[i]] = i
    BY DEF unheld
  <2>2. f \in [1..n -> D]
    BY <2>1
  <2>3. IsFiniteSet(1..n) /\ Cardinality(1..n) = n
    BY <1>1, FS_Interval
  <2>. HIDE DEF f, unheld, n
  <2>4. Cardinality(D) < Cardinality(1..n)
    BY <1>1, <2>3, FS_CardinalityType
  <2>5. PICK x \in 1..n, y \in 1..n : x # y /\ f[x] = f[y]
    BY <2>2, <2>3, <2>4, FS_PigeonHole
  <2>. QED
    BY <2>1, <2>5
<1>3. unheld \subseteq Nat
  BY <1>1
<1>. HIDE DEF n, unheld
<1>4. PICK i \in unheld : \A k \in unheld : ~(<<k, i>> \in less)
  <2>. HIDE DEF less
  <2>1. IsWellFoundedOn(less, Nat)
    BY NatLessThanWellFounded, Zenon DEF less
  <2>. QED
    BY <1>2, <1>3, <2>1, WFMin
<1>5. \A k \in unheld : ~(k < i)
  BY <1>3, <1>4 DEF OpToRel
<1>6. i \in 1..n /\ \A m \in 1..i : (m = i) <=> \A e \in D : grips[e] # m
  <2>1. i \in 1..n /\ \A e \in D : grips[e] # i
    BY DEF unheld
  <2>2. ASSUME NEW m \in 1..i, \A e \in D : grips[e] # m PROVE m = i
    <3>1. m \in unheld
      BY <1>1, <2>1, <2>2 DEF unheld
    <3>. QED
      BY <1>1, <1>5, <2>1, <3>1
  <2>. QED
    BY <2>1, <2>2
<1>7. DOMAIN grips = D
  OBVIOUS
<1>. QED
  BY <1>6, <1>7 DEF NewInode, n
StateTypes ==
    /\ local \in [Builds -> LocalType]
    /\ grip \in [Eclipses -> Nat] /\ guilock \in Nat

FileTypes ==
    /\ clock \in 0..MaxClock
    /\ backup \in [0..MaxClock -> (SUBSET Builds) \cup {Torn, NoBackup}]
    /\ cproject \in (SUBSET Builds) \cup {Torn}
    /\ committed \subseteq Builds /\ good \subseteq Builds

\* Three values that are told apart.
LEMMA TornIsNoEdit == Torn \notin SUBSET Builds /\ NoBackup \notin SUBSET Builds /\ Torn # NoBackup
<1>1. Torn \notin SUBSET Builds /\ NoBackup \notin SUBSET Builds
  BY BuildAssumption DEF Torn, NoBackup
<1>2. "torn" \in Torn /\ "torn" \notin NoBackup
  BY DEF Torn, NoBackup
<1>. QED
  BY <1>1, <1>2

\* A step that moves a build on.
LEMMA MovesTyped ==
    ASSUME StateTypes, NEW b \in Builds, NEW where, NEW mine \in LocalType,
           Moves(b, where, mine), UNCHANGED guilock \/ guilock' = 0,
           UNCHANGED grip \/ grip' = [grip EXCEPT ![b] = 0]
    PROVE  StateTypes'
BY DEF StateTypes, Moves

LEMMA EndTyped ==
    ASSUME StateTypes, NEW b \in Builds, NEW how, End(b, how), UNCHANGED <<guilock, grip>>
    PROVE  StateTypes'
<1>1. Final(b) \in LocalType /\ Moves(b, how, Final(b))
  BY FinalOK
<1>. QED
  BY <1>1, MovesTyped

LEMMA EnterTyped ==
    ASSUME StateTypes, NEW b \in Builds, NEW where, NEW mine \in LocalType,
           Enter(b, where, mine), UNCHANGED guilock \/ guilock' = 0,
           UNCHANGED grip \/ grip' = [grip EXCEPT ![b] = 0]
    PROVE  StateTypes'
BY MovesTyped DEF Enter, Moves

LEMMA GotoTyped ==
    ASSUME StateTypes, NEW b \in Builds, NEW where, Goto(b, where),
           UNCHANGED guilock,
           UNCHANGED grip \/ grip' = [grip EXCEPT ![b] = 0]
    PROVE  StateTypes'
<1>1. local[b] \in LocalType
  BY DEF StateTypes
<1>. QED
  BY <1>1, EnterTyped DEF Goto

LEMMA BuildTyped ==
    ASSUME StateTypes, FileTypes, NEW b \in Builds, BuildStep(b) \/ Stop(b) \/ Crash(b)
    PROVE  StateTypes'
<1>0. local[b] \in LocalType /\ Holders(guilock) \subseteq Eclipses
  BY DEF StateTypes, Holders
<1>1. CASE Lock(b)
  <2>1. CASE End(b, "refused")
    BY <1>1, <2>1, EndTyped DEF Lock
  <2>2. CASE local' = [local EXCEPT ![b].present = Holders(guilock)]
    <3>1. UNCHANGED <<grip, guilock>>
      BY <1>1 DEF Lock
    <3>. QED
      BY <1>0, <2>2, <3>1 DEF StateTypes, LocalType
  <2>. QED
    BY <1>1, <2>1, <2>2 DEF Lock
<1>2. CASE Probe(b)
  BY <1>2, EndTyped, GotoTyped DEF Probe, others
<1>3. CASE ProbeReleases(b) \/ NoEdits(b)
  BY <1>3, GotoTyped DEF ProbeReleases, NoEdits, others
<1>4. CASE Reset(b) \/ Fresh(b) \/ Purge(b)
  <2>1. [local[b] EXCEPT !.needs_import = TRUE, !.doomed = FALSE] \in LocalType
    BY <1>0 DEF LocalType
  <2>2. ImportsNext(b) /\ UNCHANGED grip /\ (UNCHANGED guilock \/ guilock' = 0)
    BY <1>4 DEF Reset, Fresh, Purge, others
  <2>. QED
    BY <2>1, <2>2, EnterTyped DEF ImportsNext
<1>5. CASE Reuse(b)
  BY <1>5, EndTyped, GotoTyped DEF Reuse, others
<1>6. CASE ListStale(b)
  <2>1. [local[b] EXCEPT !.doomed = guilock # 0 /\ Holders(guilock) = {}] \in LocalType
    BY <1>0 DEF LocalType
  <2>. QED
    BY <1>6, <2>1, EnterTyped DEF ListStale, others
<1>7. CASE Snapshot(b)
  <2>1. CASE \E how : End(b, how)
    BY <1>7, <2>1, EndTyped DEF Snapshot, others
  <2>2. CASE /\ cproject # Torn
             /\ Enter(b, "editing", [local[b] EXCEPT !.stamp = Second, !.tree = cproject])
    <3>1. [local[b] EXCEPT !.stamp = Second, !.tree = cproject] \in LocalType
      <4>1. cproject \in SUBSET Builds /\ Second \in 0..MaxClock
        BY <2>2 DEF FileTypes, Second
      <4>. QED
        BY <1>0, <4>1 DEF LocalType
    <3>. QED
      BY <1>7, <2>2, <3>1, EnterTyped DEF Snapshot, others
  <2>. QED
    BY <1>7, <2>1, <2>2 DEF Snapshot
<1>8. CASE Edit(b) \/ Write(b) \/ Written(b) \/ Validate(b)
  BY <1>8, EndTyped, GotoTyped DEF Edit, Write, Written, Caught, Validate, others
<1>9. CASE Rollback(b) \/ Restored(b)
  BY <1>9, EndTyped, GotoTyped DEF Rollback, Restored, others
<1>10. CASE Run(b)
  BY <1>10, GotoTyped DEF Run
<1>11. CASE Retry(b)
  <2>1. [local[b] EXCEPT !.needs_import = FALSE] \in LocalType
    BY <1>0 DEF LocalType
  <2>. QED
    BY <1>11, <2>1, EnterTyped DEF Retry
<1>12. CASE Return(b) \/ Stop(b) \/ Crash(b)
  BY <1>12, EndTyped DEF Return, Stop, Crash
<1>. QED
  BY <1>1, <1>2, <1>3, <1>4, <1>5, <1>6, <1>7, <1>8, <1>9, <1>10, <1>11, <1>12 DEF BuildStep

LEMMA TakeTyped ==
    ASSUME StateTypes, NEW e \in Eclipses, Take(e)
    PROVE  grip' \in [Eclipses -> Nat] /\ guilock' \in Nat
<1>1. IsFiniteSet(Eclipses) /\ Cardinality(Eclipses) \in Nat
  BY BuildAssumption, FS_AddElement, FS_CardinalityType DEF Eclipses
<1>2. NewInode(grip) \in Nat
  <2>1. NewInode(grip) \in 1..Cardinality(Eclipses) + 1
    BY <1>1, InodeExists DEF StateTypes
  <2>. QED
    BY <1>1, <2>1
<1>. QED
  BY <1>2 DEF Take, StateTypes

LEMMA WorldTyped ==
    ASSUME StateTypes,
           \/ \E b \in Builds : ToolMoves(b) \/ JvmTakes(b) \/ JvmWorks(b)
           \/ GuiOpens \/ GuiCloses \/ UserDeletes \/ Tick
    PROVE  StateTypes'
<1>1. ASSUME NEW b \in Builds, ToolMoves(b) PROVE StateTypes'
  BY <1>1 DEF ToolMoves, buildvars, locks, StateTypes
<1>2. ASSUME NEW b \in Builds, JvmTakes(b) PROVE StateTypes'
  BY <1>2, TakeTyped DEF JvmTakes, locks, StateTypes, Eclipses
<1>3. ASSUME NEW b \in Builds, JvmWorks(b) PROVE StateTypes'
  BY <1>3 DEF JvmWorks, StateTypes
<1>4. CASE GuiOpens
  BY <1>4, TakeTyped DEF GuiOpens, StateTypes, Eclipses
<1>5. CASE GuiCloses
  <2>1. \A b \in Builds : [local[b] EXCEPT !.present = @ \ {Gui}] \in LocalType
    BY DEF StateTypes, LocalType
  <2>. QED
    BY <1>5, <2>1 DEF GuiCloses, StateTypes
<1>6. CASE UserDeletes \/ Tick
  BY <1>6 DEF UserDeletes, Tick, locks, StateTypes
<1>. QED
  BY <1>1, <1>2, <1>3, <1>4, <1>5, <1>6
-----------------------------------------------------------------------------
(* The .cproject protocol.                                                 *)

Editing == {"editing", "write", "writing", "validate", "rollback", "restoring"}
MayTear == {"writing", "rollback", "restoring"}

\* A build amid its edits has the edits it started from in its tree and in its
\* backup, every committed one among them; what .cproject holds meanwhile goes
\* by where the build is.
Own(b) == pc[b] \in Editing =>
    /\ committed \subseteq local[b].tree /\ backup[local[b].stamp] = local[b].tree
    /\ pc[b] \in {"editing", "write"} => cproject = local[b].tree
    /\ pc[b] \in {"writing", "restoring"} => cproject = Torn
    /\ pc[b] = "validate" => cproject = local[b].tree \cup {b}
    /\ cproject = Torn => good = local[b].tree

Torned == cproject = Torn =>
    /\ mishap # {} \/ \E b \in Builds : pc[b] \in MayTear
    /\ committed \subseteq good
    /\ "same second" \notin mishap => \E s \in 0..MaxClock : backup[s] = good

EditInv == FileTypes /\ (\A b \in Builds : Own(b)) /\ EditsKept /\ Torned

\* A step that leaves the files, and every build amid its edits, alone.
LEMMA FilesRest ==
    ASSUME EditInv, UNCHANGED files,
           \A b \in Builds : pc[b] \in MayTear \/ pc'[b] \in Editing =>
               /\ pc'[b] = pc[b]
               /\ local'[b].tree = local[b].tree /\ local'[b].stamp = local[b].stamp
    PROVE  EditInv'
<1>1. FileTypes' /\ EditsKept'
  BY DEF EditInv, FileTypes, EditsKept, files
<1>2. ASSUME NEW b \in Builds PROVE Own(b)'
  BY DEF EditInv, Own, files
<1>3. Torned'
  BY DEF EditInv, Torned, files
<1>. QED
  BY <1>1, <1>2, <1>3 DEF EditInv

\* The others are not in the with statement, hence not amid their edits.
LEMMA Alone ==
    ASSUME LockInv, NEW b \in Builds, pc[b] \in Locked, NEW where, NEW mine, Moves(b, where, mine)
    PROVE  \A a \in Builds \ {b} : pc[a] \notin Editing /\ pc'[a] = pc[a] /\ local'[a] = local[a]
<1>1. \A a \in Builds \ {b} : pc[a] \notin Editing /\ pc'[a] = pc[a]
  BY DEF LockInv, LockTypes, OneBuild, Editing, Locked, Moves
<1>2. \A a \in Builds \ {b} : local'[a] = local[a]
  BY DEF Moves
<1>. QED
  BY <1>1, <1>2

\* Steps of a build before its edits, and after them.
LEMMA Elsewhere ==
    ASSUME LockInv, EditInv, StateTypes, NEW b \in Builds, NEW where, NEW mine,
           Moves(b, where, mine), UNCHANGED files, pc[b] \notin MayTear,
           where \notin Editing
    PROVE  EditInv'
<1>1. ASSUME NEW a \in Builds, pc[a] \in MayTear \/ pc'[a] \in Editing PROVE a # b
  BY <1>1 DEF LockInv, LockTypes, Moves
<1>2. ASSUME NEW a \in Builds, a # b PROVE pc'[a] = pc[a] /\ local'[a] = local[a]
  BY <1>2 DEF LockInv, LockTypes, StateTypes, Moves
<1>. QED
  BY <1>1, <1>2, FilesRest

\* A step amid the edits: what has to be shown of it.
LEMMA Within ==
    ASSUME LockInv, EditInv, StateTypes, NEW b \in Builds, pc[b] \in Locked,
           NEW where, NEW mine, Moves(b, where, mine),
           FileTypes', Own(b)', EditsKept', Torned'
    PROVE  EditInv'
<1>1. \A a \in Builds \ {b} : pc'[a] \notin Editing
  BY Alone
<1>2. \A a \in Builds \ {b} : Own(a)'
  BY <1>1 DEF Own
<1>. QED
  BY <1>2 DEF EditInv

\* Where the build is after the step.
LEMMA Moved ==
    ASSUME LockInv, StateTypes, NEW b \in Builds, NEW where, NEW mine, Moves(b, where, mine)
    PROVE  pc'[b] = where /\ local'[b] = mine
BY DEF LockInv, LockTypes, StateTypes, Moves

LEMMA SnapshotKeeps ==
    ASSUME LockInv, EditInv, StateTypes, NEW b \in Builds, Snapshot(b)
    PROVE  EditInv'
<1>0. pc[b] = "edit" /\ pc[b] \in Locked /\ clock \in 0..MaxClock
      /\ UNCHANGED <<cproject, clock, committed, good>>
  BY DEF Snapshot, Locked, EditInv, FileTypes
<1>1. CASE ~project.source
  <2>1. End(b, "raised") /\ UNCHANGED files
    BY <1>1 DEF Snapshot, files
  <2>. QED
    BY <1>0, <2>1, FinalOK, Elsewhere DEF Editing, MayTear
<1>2. CASE project.source
  <2>1. /\ backup' = [backup EXCEPT ![clock] = cproject]
        /\ mishap' = mishap \cup (IF backup[clock] # NoBackup THEN {"same second"} ELSE {})
    BY <1>2 DEF Snapshot, Second
  <2>2. FileTypes' /\ EditsKept'
    BY <1>0, <2>1 DEF EditInv, FileTypes, EditsKept
  <2>3. Torned'
    <3>. SUFFICES ASSUME cproject = Torn PROVE Torned'
      BY <1>0 DEF Torned
    <3>1. mishap # {} \/ \E a \in Builds : pc[a] \in MayTear
      BY DEF EditInv, Torned
    <3>2. mishap' # {}
      <4>1. \A a \in Builds : pc[a] \notin MayTear
        BY <1>0 DEF LockInv, OneBuild, MayTear, Locked
      <4>. QED
        BY <2>1, <3>1, <4>1
    <3>3. ASSUME "same second" \notin mishap'
          PROVE  \E s \in 0..MaxClock : backup'[s] = good
      <4>1. "same second" \notin mishap /\ backup[clock] = NoBackup
        BY <2>1, <3>3
      <4>2. PICK s \in 0..MaxClock : backup[s] = good
        BY <4>1 DEF EditInv, Torned
      <4>3. s # clock
        BY <4>1, <4>2, TornIsNoEdit DEF EditInv, FileTypes
      <4>. QED
        BY <2>1, <4>2, <4>3 DEF EditInv, FileTypes
    <3>. QED
      BY <1>0, <3>2, <3>3 DEF EditInv, Torned
  <2>4. CASE cproject = Torn
    <3>1. Moves(b, "raised", Final(b))
      BY <1>2, <2>4, FinalOK DEF Snapshot
    <3>2. pc'[b] = "raised"
      BY <3>1, Moved
    <3>3. Own(b)'
      BY <3>2 DEF Own, Editing
    <3>. QED
      BY <1>0, <2>2, <2>3, <3>1, <3>3, Within
  <2>5. CASE cproject # Torn
    <3>. DEFINE mine == [local[b] EXCEPT !.stamp = Second, !.tree = cproject]
    <3>1. Moves(b, "editing", mine)
      BY <1>2, <2>5, FinalOK DEF Snapshot
    <3>2. mine.stamp = clock /\ mine.tree = cproject
      BY DEF StateTypes, LocalType, Second
    <3>. HIDE DEF mine
    <3>3. pc'[b] = "editing" /\ local'[b] = mine
      BY <3>1, Moved
    <3>4. backup'[clock] = cproject
      BY <1>0, <2>1 DEF EditInv, FileTypes
    <3>5. Own(b)'
      BY <1>0, <2>5, <3>2, <3>3, <3>4 DEF Own, EditInv, EditsKept
    <3>. QED
      BY <1>0, <2>2, <2>3, <3>1, <3>5, Within
  <2>. QED
    BY <2>4, <2>5
<1>. QED
  BY <1>1, <1>2

\* A build that writes: what it started from is good while the file is torn.
LEMMA WriteKeeps ==
    ASSUME LockInv, EditInv, StateTypes, NEW b \in Builds,
           Edit(b) \/ Write(b) \/ Written(b) \/ Validate(b) \/ Rollback(b)
    PROVE  EditInv'
<1>. DEFINE tree == local[b].tree
<1>0. /\ pc[b] \in Editing \ {"restoring"} /\ pc[b] \in Locked /\ tree \subseteq Builds
      /\ local[b].stamp \in 0..MaxClock /\ UNCHANGED <<backup, clock, mishap>>
  BY DEF Edit, Write, Written, Validate, Rollback, Editing, Locked, StateTypes, LocalType, files
<1>1. Own(b) /\ FileTypes /\ EditsKept /\ Torned
  BY DEF EditInv
<1>2. committed \subseteq tree /\ backup[local[b].stamp] = tree /\ tree # Torn
  BY <1>0, <1>1, TornIsNoEdit DEF Own
<1>g. ASSUME NEW where \in Editing \cup {"build", "raised"}, Goto(b, where) \/ End(b, where)
      PROVE  /\ \E mine : Moves(b, where, mine)
             /\ pc'[b] = where
             /\ Goto(b, where) => local'[b] = local[b]
  <2>1. Goto(b, where) => Moves(b, where, local[b])
    BY FinalOK DEF Goto
  <2>2. End(b, where) => Moves(b, where, Final(b))
    BY FinalOK
  <2>. QED
    BY <1>g, <2>1, <2>2, Moved
<1>3. CASE Edit(b)
  <2>1. pc[b] = "editing" /\ cproject = tree /\ UNCHANGED files
    BY <1>1, <1>3 DEF Edit, Own, Editing
  <2>2. FileTypes' /\ EditsKept'
    BY <1>1, <2>1 DEF FileTypes, EditsKept, files
  <2>3. Torned'
    BY <1>2, <2>1 DEF Torned, files
  <2>4. ASSUME NEW where \in {"write", "rollback"}, Goto(b, where) PROVE EditInv'
    <3>1. (\E mine : Moves(b, where, mine)) /\ pc'[b] = where /\ local'[b] = local[b]
      BY <1>g, <2>4 DEF Editing
    <3>2. Own(b)'
      BY <1>2, <2>1, <2>4, <3>1 DEF Own, files
    <3>. QED
      BY <1>0, <2>2, <2>3, <3>1, <3>2, Within
  <2>5. CASE End(b, "raised")
    <3>1. (\E mine : Moves(b, "raised", mine)) /\ pc'[b] = "raised"
      BY <1>g, <2>5
    <3>2. Own(b)'
      BY <3>1 DEF Own, Editing
    <3>. QED
      BY <1>0, <2>2, <2>3, <3>1, <3>2, Within
  <2>. QED
    BY <1>3, <2>4, <2>5 DEF Edit
<1>4. CASE Write(b)
  <2>1. /\ pc[b] = "write" /\ cproject = tree /\ good' = tree /\ cproject' = Torn
        /\ Goto(b, "writing") /\ UNCHANGED committed
    BY <1>1, <1>4 DEF Write, Own, Editing
  <2>2. (\E mine : Moves(b, "writing", mine)) /\ pc'[b] = "writing" /\ local'[b] = local[b]
    BY <1>g, <2>1 DEF Editing
  <2>3. FileTypes' /\ EditsKept'
    BY <1>0, <1>1, <2>1 DEF FileTypes, EditsKept
  <2>4. Torned'
    BY <1>0, <1>2, <2>1, <2>2 DEF Torned, MayTear
  <2>5. Own(b)'
    BY <1>0, <1>2, <2>1, <2>2 DEF Own
  <2>. QED
    BY <1>0, <2>2, <2>3, <2>4, <2>5, Within
<1>5. CASE Written(b)
  <2>1. pc[b] = "writing" /\ cproject = Torn /\ good = tree /\ UNCHANGED committed
    BY <1>1, <1>5 DEF Written, Own, Editing
  <2>2. CASE cproject' = tree \cup {b} /\ good' = {} /\ Goto(b, "validate")
    <3>1. (\E mine : Moves(b, "validate", mine)) /\ pc'[b] = "validate" /\ local'[b] = local[b]
      BY <1>g, <2>2 DEF Editing
    <3>2. FileTypes' /\ EditsKept' /\ cproject' # Torn
      BY <1>0, <1>1, <1>2, <2>1, <2>2, TornIsNoEdit DEF FileTypes, EditsKept
    <3>3. Torned'
      BY <3>2 DEF Torned
    <3>4. Own(b)'
      BY <1>0, <1>2, <2>1, <2>2, <3>1, <3>2 DEF Own
    <3>. QED
      BY <1>0, <3>1, <3>2, <3>3, <3>4, Within
  <2>3. CASE Caught(b) /\ UNCHANGED <<cproject, good>>
    <3>1. (\E mine : Moves(b, "rollback", mine)) /\ pc'[b] = "rollback" /\ local'[b] = local[b]
      BY <1>g, <2>3 DEF Editing, Caught
    <3>2. FileTypes' /\ EditsKept'
      BY <1>0, <1>1, <2>1, <2>3 DEF FileTypes, EditsKept
    <3>3. Torned'
      BY <1>0, <1>1, <1>2, <2>1, <2>3, <3>1 DEF Torned, MayTear
    <3>4. Own(b)'
      BY <1>0, <1>2, <2>1, <2>3, <3>1 DEF Own
    <3>. QED
      BY <1>0, <3>1, <3>2, <3>3, <3>4, Within
  <2>. QED
    BY <1>5, <2>2, <2>3 DEF Written
<1>6. CASE Validate(b)
  <2>1. /\ pc[b] = "validate" /\ cproject = tree \cup {b} /\ cproject # Torn
        /\ UNCHANGED <<cproject, good>>
    BY <1>0, <1>1, <1>6, TornIsNoEdit DEF Validate, Own, Editing
  <2>2. Torned'
    BY <2>1 DEF Torned
  <2>3. CASE Goto(b, "build") /\ committed' = committed \cup {b}
    <3>1. (\E mine : Moves(b, "build", mine)) /\ pc'[b] = "build"
      BY <1>g, <2>3
    <3>2. FileTypes' /\ EditsKept'
      BY <1>0, <1>1, <1>2, <2>1, <2>3 DEF FileTypes, EditsKept
    <3>3. Own(b)'
      BY <3>1 DEF Own, Editing
    <3>. QED
      BY <1>0, <2>2, <3>1, <3>2, <3>3, Within
  <2>4. CASE Goto(b, "rollback") /\ UNCHANGED committed
    <3>1. (\E mine : Moves(b, "rollback", mine)) /\ pc'[b] = "rollback" /\ local'[b] = local[b]
      BY <1>g, <2>4 DEF Editing
    <3>2. FileTypes' /\ EditsKept'
      BY <1>0, <1>1, <2>1, <2>4 DEF FileTypes, EditsKept
    <3>3. Own(b)'
      BY <1>0, <1>2, <2>1, <2>4, <3>1 DEF Own
    <3>. QED
      BY <1>0, <2>2, <3>1, <3>2, <3>3, Within
  <2>5. CASE End(b, "raised") /\ UNCHANGED committed
    <3>1. (\E mine : Moves(b, "raised", mine)) /\ pc'[b] = "raised"
      BY <1>0, <2>5, FinalOK, Moved DEF Ended
    <3>2. FileTypes' /\ EditsKept'
      BY <1>0, <1>1, <2>1, <2>5 DEF FileTypes, EditsKept
    <3>3. Own(b)'
      BY <3>1 DEF Own, Editing
    <3>. QED
      BY <1>0, <2>2, <3>1, <3>2, <3>3, Within
  <2>. QED
    BY <1>6, <2>3, <2>4, <2>5 DEF Validate
<1>7. CASE Rollback(b)
  <2>1. /\ pc[b] = "rollback" /\ cproject' = Torn /\ UNCHANGED committed
        /\ Goto(b, "restoring")
    BY <1>7 DEF Rollback
  <2>2. good' = tree
    BY <1>1, <1>2, <1>7, <2>1 DEF Rollback, Own, Editing
  <2>3. (\E mine : Moves(b, "restoring", mine)) /\ pc'[b] = "restoring" /\ local'[b] = local[b]
    BY <1>g, <2>1 DEF Editing
  <2>4. FileTypes' /\ EditsKept'
    BY <1>0, <1>1, <2>1, <2>2 DEF FileTypes, EditsKept
  <2>5. Torned'
    BY <1>0, <1>2, <2>1, <2>2, <2>3 DEF Torned, MayTear
  <2>6. Own(b)'
    BY <1>0, <1>2, <2>1, <2>2, <2>3 DEF Own
  <2>. QED
    BY <1>0, <2>3, <2>4, <2>5, <2>6, Within
<1>. QED
  BY <1>3, <1>4, <1>5, <1>6, <1>7

\* The last step of a rollback, and a Ctrl-C.
LEMMA LeaveKeeps ==
    ASSUME LockInv, EditInv, StateTypes, NEW b \in Builds, Restored(b) \/ Stop(b)
    PROVE  EditInv'
<1>0. /\ pc[b] \in Locked /\ local[b].stamp \in 0..MaxClock /\ local[b].tree \subseteq Builds
      /\ UNCHANGED <<committed, backup, clock>>
  BY DEF Restored, Stop, Locked, StateTypes, LocalType
<1>1. Own(b) /\ FileTypes /\ EditsKept /\ Torned
  BY DEF EditInv
<1>2. ASSUME NEW how \in Ended, End(b, how)
      PROVE  (\E mine : Moves(b, how, mine)) /\ Own(b)'
  <2>1. Moves(b, how, Final(b)) /\ pc'[b] = how
    BY <1>2, FinalOK, Moved
  <2>. QED
    BY <2>1 DEF Own, Editing, Ended
<1>3. CASE Restored(b)
  <2>1. pc[b] = "restoring" /\ cproject = Torn /\ committed \subseteq local[b].tree
        /\ backup[local[b].stamp] = local[b].tree
    BY <1>1, <1>3 DEF Restored, Own, Editing
  <2>2. CASE cproject' = OwnBackup(b) /\ good' = {} /\ End(b, "rolled_back")
    <3>1. cproject' = local[b].tree
      BY <2>1, <2>2 DEF OwnBackup
    <3>2. FileTypes' /\ EditsKept' /\ Torned'
      BY <1>0, <1>1, <2>1, <2>2, <3>1, TornIsNoEdit DEF FileTypes, EditsKept, Torned
    <3>. QED
      BY <1>0, <1>2, <2>2, <3>2, Within DEF Ended
  <2>3. CASE /\ mishap' = mishap \cup {"restore failed"} /\ End(b, "raised")
             /\ UNCHANGED <<cproject, good>>
    <3>1. FileTypes' /\ EditsKept'
      BY <1>0, <1>1, <2>3 DEF FileTypes, EditsKept
    <3>2. Torned'
      BY <1>0, <1>1, <2>3 DEF Torned
    <3>. QED
      BY <1>0, <1>2, <2>3, <3>1, <3>2, Within DEF Ended
  <2>. QED
    BY <1>3, <2>2, <2>3 DEF Restored
<1>4. CASE Stop(b)
  <2>1. /\ End(b, "stopped") /\ UNCHANGED <<cproject, good>>
        /\ mishap' = mishap \cup (IF cproject = Torn THEN {"stopped"} ELSE {})
    BY <1>4 DEF Stop
  <2>2. FileTypes' /\ EditsKept'
    BY <1>0, <1>1, <2>1 DEF FileTypes, EditsKept
  <2>3. Torned'
    BY <1>0, <1>1, <2>1 DEF Torned
  <2>. QED
    BY <1>0, <1>2, <2>1, <2>2, <2>3, Within DEF Ended
<1>. QED
  BY <1>3, <1>4
\* Steps that are not about .cproject.
LEMMA OtherKeeps ==
    ASSUME LockInv, EditInv, StateTypes, NEW b \in Builds,
           \/ Lock(b) \/ Probe(b) \/ ProbeReleases(b) \/ Reset(b) \/ Fresh(b) \/ Reuse(b)
           \/ ListStale(b) \/ Purge(b) \/ NoEdits(b) \/ Run(b) \/ Retry(b) \/ Return(b) \/ Crash(b)
    PROVE  EditInv'
<1>1. UNCHANGED files /\ pc[b] \notin MayTear
  BY DEF Lock, Probe, ProbeReleases, Reset, Fresh, Reuse, ListStale, Purge, NoEdits, Run, Retry,
         Return, Crash, MayTear
<1>2. CASE Lock(b) /\ ~(\E how : End(b, how))
  <2>1. /\ pc' = [pc EXCEPT ![b] = "probe"]
        /\ local' = [local EXCEPT ![b].present = Holders(guilock)]
    BY <1>2 DEF Lock
  <2>2. Moves(b, "probe", [local[b] EXCEPT !.present = Holders(guilock)])
    BY <2>1 DEF Moves
  <2>. QED
    BY <1>1, <2>2, Elsewhere DEF Editing
<1>3. CASE \E where \in (Locked \ Editing) \cup Ended : End(b, where) \/ \E mine : Enter(b, where, mine)
  <2>1. PICK where \in (Locked \ Editing) \cup Ended : End(b, where) \/ \E mine : Enter(b, where, mine)
    BY <1>3
  <2>2. \E mine : Moves(b, where, mine)
    BY <2>1, FinalOK
  <2>3. where \notin Editing
    BY DEF Ended, Editing
  <2>. QED
    BY <1>1, <2>2, <2>3, Elsewhere
<1>4. \/ Lock(b) /\ ~(\E how : End(b, how))
      \/ \E where \in (Locked \ Editing) \cup Ended : End(b, where) \/ \E mine : Enter(b, where, mine)
  <2>1. Lock(b) => End(b, "refused") \/ ~(\E how : End(b, how))
    <3>. SUFFICES ASSUME Lock(b), NEW how, End(b, how), ~End(b, "refused") PROVE FALSE
      OBVIOUS
    <3>1. held' = [held EXCEPT ![b] = 0] /\ pc[b] = "lock"
      BY DEF End, Lock
    <3>2. \E inode : held' = [held EXCEPT ![b] = inode] /\ inode # 0
      <4>1. sublock = 0 => NewInode(held) = 1
        BY FirstInode DEF LockInv, HoldsThePath
      <4>. QED
        BY <4>1 DEF Lock
    <3>. QED
      BY <3>1, <3>2 DEF LockInv, LockTypes
  <2>2. \A where \in {"refused", "probing", "decide", "edit", "purge", "build", "running",
                      "built", "failed", "raised", "stopped"} :
           where \in (Locked \ Editing) \cup Ended
    BY DEF Locked, Editing, Ended
  <2>3. Probe(b) \/ ProbeReleases(b) \/ Reuse(b) \/ ListStale(b) =>
           \E where \in {"refused", "probing", "decide", "edit", "purge"} :
              End(b, where) \/ \E mine : Enter(b, where, mine)
    BY DEF Probe, ProbeReleases, Reuse, ListStale, Goto
  <2>4. Reset(b) \/ Fresh(b) \/ Purge(b) => \E mine : Enter(b, "edit", mine)
    BY DEF Reset, Fresh, Purge, ImportsNext
  <2>5. NoEdits(b) \/ Run(b) \/ Retry(b) =>
           \E where \in {"build", "running"} : \E mine : Enter(b, where, mine)
    BY DEF NoEdits, Run, Retry, Goto
  <2>6. Return(b) \/ Crash(b) => \E where \in {"built", "failed", "raised", "stopped"} : End(b, where)
    BY DEF Return, Crash
  <2>. QED
    BY <2>1, <2>2, <2>3, <2>4, <2>5, <2>6
<1>. QED
  BY <1>2, <1>3, <1>4

LEMMA WorldKeeps ==
    ASSUME EditInv, StateTypes,
           \/ \E b \in Builds : ToolMoves(b) \/ JvmTakes(b) \/ JvmWorks(b)
           \/ GuiOpens \/ GuiCloses \/ UserDeletes \/ Tick
    PROVE  EditInv'
<1>1. UNCHANGED pc /\ \A b \in Builds : local'[b].tree = local[b].tree /\ local'[b].stamp = local[b].stamp
  <2>1. CASE GuiCloses
    BY <2>1 DEF GuiCloses, StateTypes, LocalType
  <2>2. CASE ~GuiCloses
    BY <2>2 DEF ToolMoves, JvmTakes, JvmWorks, GuiOpens, UserDeletes, Tick, buildvars
  <2>. QED
    BY <2>1, <2>2
<1>2. CASE ~Tick
  <2>1. UNCHANGED files
    BY <1>2 DEF ToolMoves, JvmTakes, JvmWorks, GuiOpens, GuiCloses, UserDeletes, buildvars
  <2>. QED
    BY <1>1, <2>1, FilesRest
<1>3. CASE Tick
  <2>1. clock' \in 0..MaxClock /\ UNCHANGED <<cproject, backup, committed, good, mishap>>
    BY <1>3, BuildAssumption DEF Tick, EditInv, FileTypes
  <2>. QED
    BY <1>1, <2>1 DEF EditInv, FileTypes, Own, EditsKept, Torned
<1>. QED
  BY <1>2, <1>3

FilesInv == StateTypes /\ EditInv

LEMMA FilesAlways == BuildSpec => []FilesInv
<1>1. BuildInit => FilesInv
  <2>. SUFFICES ASSUME BuildInit PROVE FilesInv
    OBVIOUS
  <2>1. NoLocals \in LocalType
    BY BuildAssumption DEF NoLocals, LocalType
  <2>2. StateTypes
    BY <2>1 DEF BuildInit, StateTypes
  <2>3. FileTypes
    BY BuildAssumption DEF BuildInit, FileTypes
  <2>4. {} # Torn
    BY DEF Torn
  <2>. QED
    BY <2>2, <2>3, <2>4 DEF BuildInit, FilesInv, EditInv, Own, EditsKept, Torned, Editing
<1>2. LockInv /\ FilesInv /\ [BuildNext]_allvars => FilesInv'
  <2>. SUFFICES ASSUME LockInv, FilesInv, [BuildNext]_allvars PROVE FilesInv'
    OBVIOUS
  <2>0. StateTypes /\ EditInv /\ FileTypes
    BY DEF FilesInv, EditInv
  <2>1. ASSUME NEW b \in Builds, BuildStep(b) \/ Stop(b) \/ Crash(b) PROVE FilesInv'
    <3>1. StateTypes'
      BY <2>0, <2>1, BuildTyped
    <3>2. EditInv'
      BY <2>0, <2>1, SnapshotKeeps, WriteKeeps, LeaveKeeps, OtherKeeps DEF BuildStep
    <3>. QED
      BY <3>1, <3>2 DEF FilesInv
  <2>2. CASE \/ \E b \in Builds : ToolMoves(b) \/ JvmTakes(b) \/ JvmWorks(b)
             \/ GuiOpens \/ GuiCloses \/ UserDeletes \/ Tick
    BY <2>0, <2>2, WorldTyped, WorldKeeps DEF FilesInv
  <2>3. CASE UNCHANGED allvars
    <3>1. StateTypes'
      BY <2>0, <2>3 DEF StateTypes, allvars, buildvars, locks
    <3>2. EditInv'
      BY <2>0, <2>3, FilesRest DEF allvars, buildvars
    <3>. QED
      BY <3>1, <3>2 DEF FilesInv
  <2>. QED
    BY <2>1, <2>2, <2>3 DEF BuildNext
<1>. QED
  BY <1>1, <1>2, LockAlways, PTL DEF BuildSpec

\* The variables of a build, the locks' inodes and .cproject are what the code
\* can make them; and every lock a build holds is on the one file there is.
THEOREM BuildTyping == BuildSpec => []BuildTypeOK
<1>1. ToolInv /\ LockInv /\ FilesInv => BuildTypeOK
  <2>. SUFFICES ASSUME ToolInv, LockInv, FilesInv PROVE BuildTypeOK
    OBVIOUS
  <2>1. held \in [Builds -> {0, sublock}]
    BY DEF LockInv, LockTypes, HoldsThePath
  <2>. QED
    BY <2>1 DEF BuildTypeOK, ToolInv, LockInv, LockTypes, FilesInv, StateTypes, LocalType,
                EditInv, FileTypes
<1>. QED
  BY <1>1, ToolAlways, LockAlways, FilesAlways, PTL

\* What write_and_validate has committed survives every later build, its
\* failures and its rollbacks: a build restores what it started from, and the
\* lock makes that what the last one committed.
THEOREM CommitsStay == BuildSpec => []EditsKept
<1>1. FilesInv => EditsKept
  BY DEF FilesInv, EditInv
<1>. QED
  BY <1>1, FilesAlways, PTL

\* A .cproject found torn was left so by a Ctrl-C, a crash or a failed restore,
\* and its last whole version is in a backup unless one second named two.
THEOREM TornHasBackup == BuildSpec => []Recoverable
<1>1. FilesInv => Recoverable
  BY DEF FilesInv, EditInv, Torned, Recoverable, MayTear
<1>. QED
  BY <1>1, FilesAlways, PTL
-----------------------------------------------------------------------------
(* The links of a project outside the workspace.  Eclipse drops them when  *)
(* it opens a project it knows whose folders are missing.  Folders go      *)
(* missing only while no build and no tool is about; a build that is past  *)
(* its import decision has found Eclipse not to know the project, or the   *)
(* folders to be there.                                                    *)

Deciding == {"probe", "probing", "decide", "purge"}
About(b) == pc[b] \in Locked \ Deciding \/ "alive" \in {launcher[b], jvm[b]}

LinkTypes ==
    /\ workspace \in [owned : BOOLEAN, inside : BOOLEAN, known : {"none", "here", "else"},
                      location : {"none", "here", "else"}]
    /\ project \in [source : BOOLEAN, folders : BOOLEAN, links : BOOLEAN]

Linked == ~workspace.inside =>
    /\ project.links
    /\ workspace.known = "here" => workspace.location = "here"
    /\ workspace.location = "else" => workspace.known = "else"
    /\ \A b \in Builds : pc[b] = "purge" => workspace.known = "else"
    /\ workspace.known = "here" /\ (\E b \in Builds : About(b)) => project.folders

LinkInv == LinkTypes /\ Linked

LEMMA LinksRest ==
    ASSUME LinkInv, UNCHANGED <<workspace, project>>,
           \A b \in Builds : /\ About(b)' => \E a \in Builds : About(a)
                             /\ pc'[b] = "purge" => pc[b] = "purge"
    PROVE  LinkInv'
BY DEF LinkInv, LinkTypes, Linked

\* A build that was about, and still is or no longer is, decides nothing.
LEMMA AboutRests ==
    ASSUME ToolInv, LockInv, NEW b \in Builds, NEW where, About(b), where # "purge",
           pc' = [pc EXCEPT ![b] = where],
           \A a \in Builds \ {b} : launcher'[a] = launcher[a] /\ jvm'[a] = jvm[a]
    PROVE  \A a \in Builds : /\ About(a)' => \E c \in Builds : About(c)
                             /\ pc'[a] = "purge" => pc[a] = "purge"
BY DEF LockInv, LockTypes, About

LEMMA DecisionLinks ==
    ASSUME ToolInv, LockInv, LinkInv, NEW b \in Builds,
           \/ Lock(b) \/ Probe(b) \/ ProbeReleases(b) \/ Reset(b) \/ Fresh(b) \/ Reuse(b)
           \/ ListStale(b) \/ Purge(b)
    PROVE  LinkInv'
<1>0. /\ pc[b] \in Deciding \cup {"lock"} /\ UNCHANGED <<launcher, jvm>>
      /\ \E where : pc' = [pc EXCEPT ![b] = where]
  BY DEF Lock, Probe, ProbeReleases, Reset, Fresh, Reuse, ListStale, Purge, Deciding, others, tool,
         ImportsNext, Goto, Enter, End
<1>o. \A a \in Builds \ {b} : pc'[a] = pc[a] /\ (About(a)' <=> About(a))
  BY <1>0 DEF LockInv, LockTypes, About
<1>1. ASSUME NEW where \in Deciding \cup Ended, pc' = [pc EXCEPT ![b] = where]
      PROVE  pc'[b] = where /\ (About(b)' => About(b))
  BY <1>0, <1>1 DEF LockInv, LockTypes, About, Deciding, Ended, Locked
<1>2. CASE Lock(b) \/ Probe(b) \/ ProbeReleases(b)
  <2>1. \E where \in {"refused", "probe", "probing", "decide"} : pc' = [pc EXCEPT ![b] = where]
    BY <1>2 DEF Lock, Probe, ProbeReleases, Goto, Enter, End
  <2>2. UNCHANGED <<workspace, project>>
    BY <1>2 DEF Lock, Probe, ProbeReleases
  <2>. QED
    BY <1>o, <1>1, <2>1, <2>2, LinksRest DEF Deciding, Ended
<1>3. CASE Reset(b)
  <2>1. /\ workspace' = [workspace EXCEPT !.known = "none", !.location = "none"]
        /\ UNCHANGED project /\ pc' = [pc EXCEPT ![b] = "edit"] /\ pc[b] \in Locked
    BY <1>3 DEF Reset, ImportsNext, Enter, Locked
  <2>2. \A a \in Builds : pc'[a] # "purge"
    BY <2>1 DEF LockInv, LockTypes, OneBuild, Locked
  <2>. QED
    BY <2>1, <2>2 DEF LinkInv, LinkTypes, Linked
<1>4. CASE Fresh(b)
  <2>1. /\ UNCHANGED <<workspace, project>> /\ pc' = [pc EXCEPT ![b] = "edit"]
        /\ workspace.location = "none"
    BY <1>4 DEF Fresh, ImportsNext, Enter
  <2>2. \A a \in Builds : pc'[a] = "purge" => pc[a] = "purge"
    BY <2>1 DEF LockInv, LockTypes
  <2>. QED
    BY <2>1, <2>2 DEF LinkInv, LinkTypes, Linked
<1>5. CASE Reuse(b)
  <2>1. UNCHANGED <<workspace, project>>
    BY <1>5 DEF Reuse
  <2>2. CASE End(b, "refused")
    <3>1. pc' = [pc EXCEPT ![b] = "refused"] /\ "refused" # "purge"
      BY <2>2 DEF End
    <3>. QED
      BY <1>o, <1>1, <2>1, <3>1, LinksRest DEF Ended
  <2>3. CASE Goto(b, "edit") /\ project.folders
    <3>1. pc' = [pc EXCEPT ![b] = "edit"]
      BY <2>3 DEF Goto, Enter
    <3>2. \A a \in Builds : pc'[a] = "purge" => pc[a] = "purge"
      BY <3>1 DEF LockInv, LockTypes
    <3>. QED
      BY <2>1, <2>3, <3>2 DEF LinkInv, LinkTypes, Linked
  <2>. QED
    BY <1>5, <2>2, <2>3 DEF Reuse, FoldersMissing
<1>6. CASE ListStale(b)
  <2>1. /\ UNCHANGED <<workspace, project>> /\ pc' = [pc EXCEPT ![b] = "purge"]
        /\ workspace.location = "else"
    BY <1>6 DEF ListStale, Enter
  <2>2. \A a \in Builds : About(a)' => About(a)
    BY <1>o, <1>1, <2>1 DEF Deciding
  <2>. QED
    BY <2>1, <2>2 DEF LinkInv, LinkTypes, Linked
<1>7. CASE Purge(b)
  <2>1. /\ workspace' = [workspace EXCEPT !.location = "none"]
        /\ ~workspace.inside => UNCHANGED project
        /\ project' \in [source : BOOLEAN, folders : BOOLEAN, links : BOOLEAN]
        /\ pc' = [pc EXCEPT ![b] = "edit"] /\ pc[b] = "purge"
    BY <1>7 DEF Purge, ImportsNext, Enter, LinkInv, LinkTypes
  <2>2. ~workspace.inside => workspace.known = "else"
    BY <2>1 DEF LinkInv, Linked
  <2>3. /\ workspace'.inside = workspace.inside /\ workspace'.known = workspace.known
        /\ workspace'.location = "none" /\ LinkTypes'
    BY <2>1 DEF LinkInv, LinkTypes
  <2>. QED
    BY <2>1, <2>2, <2>3 DEF LinkInv, Linked
<1>. QED
  BY <1>2, <1>3, <1>4, <1>5, <1>6, <1>7

LEMMA WorkLinks ==
    ASSUME ToolInv, LockInv, LinkInv, NEW b \in Builds,
           \/ NoEdits(b) \/ Snapshot(b) \/ Edit(b) \/ Write(b) \/ Written(b) \/ Validate(b)
           \/ Rollback(b) \/ Restored(b) \/ Run(b) \/ Retry(b) \/ Return(b) \/ Crash(b)
    PROVE  LinkInv'
<1>1. About(b) /\ UNCHANGED <<workspace, project>>
  BY DEF NoEdits, Snapshot, Edit, Write, Written, Validate, Rollback, Restored, Run, Retry, Return,
         Crash, About, Locked, Deciding
<1>2. \E where \in Locked \cup Ended : where # "purge" /\ pc' = [pc EXCEPT ![b] = where]
  <2>1. CASE NoEdits(b) \/ Run(b) \/ Retry(b) \/ Return(b) \/ Crash(b)
    BY <2>1 DEF NoEdits, Run, Retry, Return, Crash, Goto, Enter, End, Locked, Ended
  <2>2. CASE Snapshot(b) \/ Edit(b) \/ Write(b) \/ Written(b)
    BY <2>2 DEF Snapshot, Edit, Write, Written, Caught, Goto, Enter, End, Locked, Ended
  <2>3. CASE Validate(b) \/ Rollback(b) \/ Restored(b)
    BY <2>3 DEF Validate, Rollback, Restored, Goto, Enter, End, Locked, Ended
  <2>. QED
    BY <2>1, <2>2, <2>3
<1>3. \A a \in Builds \ {b} : launcher'[a] = launcher[a] /\ jvm'[a] = jvm[a]
  <2>1. CASE Run(b) \/ Retry(b)
    BY <2>1, BuildAssumption DEF Run, Retry, Spawn, ToolInv, ToolTypeOK
  <2>2. CASE ~(Run(b) \/ Retry(b))
    BY <2>2 DEF NoEdits, Snapshot, Edit, Write, Written, Validate, Rollback, Restored, Return,
                Crash, others, tool
  <2>. QED
    BY <2>1, <2>2
<1>. QED
  BY <1>1, <1>2, <1>3, AboutRests, LinksRest

LEMMA StopLinks ==
    ASSUME ToolInv, LockInv, LinkInv, NEW b \in Builds, Stop(b)
    PROVE  LinkInv'
<1>1. pc' = [pc EXCEPT ![b] = "stopped"] /\ UNCHANGED <<workspace, project, launcher, jvm>>
  BY DEF Stop, End
<1>2. \A a \in Builds : (About(a)' => About(a)) /\ (pc'[a] = "purge" => pc[a] = "purge")
  BY <1>1 DEF LockInv, LockTypes, About, Locked, Deciding
<1>. QED
  BY <1>1, <1>2, LinksRest

\* What Eclipse does.
LEMMA WorksLinks ==
    ASSUME ToolInv, LinkInv, NEW b \in Builds, JvmWorks(b)
    PROVE  LinkInv'
<1>1. /\ UNCHANGED <<pc, launcher>> /\ jvm[b] = "alive"
      /\ jvm' = [jvm EXCEPT ![b] = "dead"]
  BY DEF JvmWorks, JvmExits
<1>2. About(b) /\ \A a \in Builds : About(a)' => About(a)
  BY <1>1, BuildAssumption DEF About, ToolInv, ToolTypeOK
<1>3. CASE UNCHANGED <<workspace, project>>
  BY <1>1, <1>2, <1>3, LinksRest
<1>4. CASE /\ workspace.known = "none"
           /\ workspace' = [workspace EXCEPT !.known = "here",
                              !.location = IF workspace.inside THEN "none" ELSE "here"]
           /\ project' = [project EXCEPT !.folders = TRUE]
  <2>1. /\ workspace'.inside = workspace.inside /\ project'.folders = TRUE
        /\ project'.links = project.links /\ LinkTypes'
        /\ workspace'.location = IF workspace.inside THEN "none" ELSE "here"
    BY <1>4 DEF LinkInv, LinkTypes
  <2>2. ~workspace.inside => \A a \in Builds : pc'[a] # "purge"
    BY <1>1, <1>4 DEF LinkInv, Linked
  <2>. QED
    BY <2>1, <2>2 DEF LinkInv, Linked
<1>5. CASE /\ UNCHANGED workspace
           /\ project' = [project EXCEPT !.links = @ /\ ~(workspace.known = "here" /\ ~project.folders)]
  <2>1. /\ project'.links \in BOOLEAN /\ project'.folders = project.folders
        /\ project'.links <=> project.links /\ ~(workspace.known = "here" /\ ~project.folders)
        /\ LinkTypes'
    BY <1>5 DEF LinkInv, LinkTypes
  <2>2. ~workspace.inside /\ workspace.known = "here" => project.folders
    BY <1>2 DEF LinkInv, Linked
  <2>. QED
    BY <1>1, <1>2, <1>5, <2>1, <2>2 DEF LinkInv, Linked
<1>. QED
  BY <1>3, <1>4, <1>5 DEF JvmWorks

LEMMA WorldLinks ==
    ASSUME ToolInv, LinkInv,
           \/ \E b \in Builds : ToolMoves(b) \/ JvmTakes(b)
           \/ GuiOpens \/ GuiCloses \/ UserDeletes \/ Tick
    PROVE  LinkInv'
<1>1. ASSUME NEW b \in Builds, ToolMoves(b) \/ JvmTakes(b) PROVE LinkInv'
  <2>1. UNCHANGED <<pc, workspace, project>>
    BY <1>1 DEF ToolMoves, JvmTakes, buildvars
  <2>2. \A a \in Builds \ {b} : launcher'[a] = launcher[a] /\ jvm'[a] = jvm[a]
    BY <1>1, BuildAssumption
    DEF ToolMoves, JvmTakes, RunToolStep, Communicated, Deadline, LauncherGone, SigTerm, SigKill,
        Interrupt, StartJvm, LauncherExits, JvmExits, tool, ToolInv, ToolTypeOK
  <2>3. "alive" \in {launcher'[b], jvm'[b]} => "alive" \in {launcher[b], jvm[b]}
    <3>1. CASE JvmTakes(b)
      BY <3>1 DEF JvmTakes
    <3>2. CASE RunToolStep(b) \/ Interrupt(b) \/ StartJvm(b) \/ LauncherExits(b)
      BY <3>2, BuildAssumption
      DEF RunToolStep, Communicated, Deadline, LauncherGone, SigTerm, SigKill, SweptTree,
          Interrupt, StartJvm, LauncherExits, ToolInv, ToolTypeOK
    <3>. QED
      BY <1>1, <3>1, <3>2 DEF ToolMoves
  <2>4. \A a \in Builds : About(a)' => About(a)
    BY <2>1, <2>2, <2>3 DEF About
  <2>. QED
    BY <2>1, <2>4, LinksRest
<1>2. CASE GuiOpens \/ GuiCloses \/ Tick
  <2>1. UNCHANGED <<pc, workspace, project, launcher, jvm>>
    BY <1>2 DEF GuiOpens, GuiCloses, Tick, tool
  <2>. QED
    BY <2>1, LinksRest DEF About
<1>3. CASE UserDeletes
  <2>1. UNCHANGED <<pc, workspace, launcher, jvm>> /\ project' = [project EXCEPT !.folders = FALSE]
    BY <1>3 DEF UserDeletes, tool
  <2>2. \A b \in Builds : ~About(b)'
    BY <1>3, <2>1 DEF UserDeletes, About
  <2>3. project'.links = project.links /\ LinkTypes'
    BY <2>1 DEF LinkInv, LinkTypes
  <2>. QED
    BY <2>1, <2>2, <2>3 DEF LinkInv, Linked
<1>. QED
  BY <1>1, <1>2, <1>3

LEMMA LinksAlways == BuildSpec => []LinkInv
<1>1. BuildInit => LinkInv
  BY BuildAssumption DEF BuildInit, ToolInit, LinkInv, LinkTypes, Linked, About, Locked
<1>2. ToolInv /\ LockInv /\ LinkInv /\ [BuildNext]_allvars => LinkInv'
  <2>. SUFFICES ASSUME ToolInv, LockInv, LinkInv, [BuildNext]_allvars PROVE LinkInv'
    OBVIOUS
  <2>1. ASSUME NEW b \in Builds, BuildStep(b) \/ Stop(b) \/ Crash(b) PROVE LinkInv'
    BY <2>1, DecisionLinks, WorkLinks, StopLinks DEF BuildStep
  <2>2. CASE UNCHANGED allvars
    BY <2>2, LinksRest DEF allvars, buildvars, tool, About
  <2>. QED
    BY <2>1, <2>2, WorksLinks, WorldLinks DEF BuildNext
<1>. QED
  BY <1>1, <1>2, LockAlways, ToolAlways, PTL DEF BuildSpec

\* No headless run drops the links of a project that lies outside its
\* workspace: neither the retry without another look at the folders nor the
\* tool a Ctrl-C has left behind opens it when they are gone.
THEOREM LinksStay == BuildSpec => []LinksKept
<1>1. LinkInv => LinksKept
  BY DEF LinkInv, Linked, LinksKept
<1>. QED
  BY <1>1, LinksAlways, PTL
-----------------------------------------------------------------------------
(* The Eclipses that were in the workspace when a build began.  One that   *)
(* still holds the workspace's lock makes the probe refuse; one that was   *)
(* gone by then stays gone: a JVM's launcher starts no second.             *)

Spared(b) == pc[b] \in Deciding => \A e \in local[b].present :
    IF Holds(e) THEN pc[b] = "probe" /\ grip[e] = guilock /\ guilock # 0
                ELSE e # Gui /\ jvm[e] = "dead"

SpareInv == EclipseSpared /\ \A b \in Builds : Spared(b)

\* An Eclipse keeps its lock, or is gone for good.
Lasts(e) ==
    /\ Holds(e) => \/ Holds(e)' /\ grip'[e] = grip[e]
                   \/ e # Gui /\ jvm'[e] = "dead"
    /\ e # Gui /\ jvm[e] = "dead" => jvm'[e] = "dead"

LEMMA SpareRests ==
    ASSUME SpareInv, UNCHANGED harmed, guilock # 0 => UNCHANGED guilock,
           \A b \in Builds : pc'[b] \in Deciding =>
               /\ pc'[b] = pc[b] /\ local'[b].present \subseteq local[b].present
               /\ \A e \in local'[b].present : Lasts(e)
    PROVE  SpareInv'
<1>1. ASSUME NEW b \in Builds, pc'[b] \in Deciding, NEW e \in local'[b].present
      PROVE  IF Holds(e)' THEN pc'[b] = "probe" /\ grip'[e] = guilock' /\ guilock' # 0
                          ELSE e # Gui /\ jvm'[e] = "dead"
  <2>1. Spared(b) /\ pc'[b] = pc[b] /\ e \in local[b].present /\ Lasts(e)
    BY <1>1 DEF SpareInv
  <2>2. CASE Holds(e)
    <3>1. pc[b] = "probe" /\ grip[e] = guilock /\ guilock # 0 /\ guilock' = guilock
      BY <1>1, <2>1, <2>2 DEF Spared
    <3>2. e # Gui /\ jvm'[e] = "dead" => ~Holds(e)'
      BY DEF Holds
    <3>. QED
      BY <2>1, <2>2, <3>1, <3>2 DEF Lasts
  <2>3. CASE ~Holds(e)
    <3>1. e # Gui /\ jvm'[e] = "dead"
      BY <1>1, <2>1, <2>3 DEF Spared, Lasts
    <3>. QED
      BY <3>1 DEF Holds
  <2>. QED
    BY <2>2, <2>3
<1>. QED
  BY <1>1 DEF SpareInv, Spared, EclipseSpared

\* Nothing happens to the Eclipses, or to the decision of another build.
LEMMA SpareSame ==
    ASSUME SpareInv, UNCHANGED <<harmed, guilock>>,
           \A b \in Builds : pc'[b] \in Deciding => pc'[b] = pc[b] /\ local'[b] = local[b],
           \A e \in Eclipses : Lasts(e), StateTypes
    PROVE  SpareInv'
<1>1. \A b \in Builds : local[b].present \subseteq Eclipses
  BY DEF StateTypes, LocalType
<1>. QED
  BY <1>1, SpareRests

LEMMA StillLasts == ASSUME UNCHANGED <<grip, jvm>> PROVE \A e : Lasts(e)
BY DEF Lasts, Holds

\* A step under the lock is taken while no other build decides.
LEMMA SoleDecision ==
    ASSUME LockInv, NEW b \in Builds, pc[b] \in Locked, NEW where, pc' = [pc EXCEPT ![b] = where]
    PROVE  /\ pc'[b] = where
           /\ \A a \in Builds : pc'[a] \in Deciding => a = b
BY DEF LockInv, LockTypes, OneBuild, Deciding, Locked

LEMMA DecisionSpares ==
    ASSUME LockInv, StateTypes, SpareInv, NEW b \in Builds,
           \/ Lock(b) \/ Probe(b) \/ ProbeReleases(b) \/ Reset(b) \/ Fresh(b) \/ Reuse(b)
           \/ ListStale(b) \/ Purge(b)
    PROVE  SpareInv'
<1>0. UNCHANGED <<grip, jvm>> /\ (\A e : Holds(e)' <=> Holds(e)) /\ (\A e : Lasts(e))
  <2>1. UNCHANGED <<grip, jvm>>
    BY DEF Lock, Probe, ProbeReleases, Reset, Fresh, Reuse, ListStale, Purge, others, tool
  <2>. QED
    BY <2>1, StillLasts DEF Holds
<1>t. local[b] \in LocalType
  BY DEF StateTypes
<1>1. CASE Lock(b)
  <2>1. UNCHANGED <<harmed, guilock>> /\ pc[b] = "lock"
    BY <1>1 DEF Lock
  <2>2. CASE End(b, "refused")
    <3>1. \A a \in Builds : pc'[a] \in Deciding => pc'[a] = pc[a] /\ local'[a] = local[a]
      BY <2>2 DEF End, LockInv, LockTypes, StateTypes, Deciding
    <3>. QED
      BY <1>0, <2>1, <3>1, SpareSame
  <2>3. CASE /\ pc' = [pc EXCEPT ![b] = "probe"]
             /\ local' = [local EXCEPT ![b].present = Holders(guilock)]
    <3>1. local'[b].present = Holders(guilock) /\ pc'[b] = "probe"
      BY <1>t, <2>3 DEF StateTypes, LocalType, LockInv, LockTypes
    <3>2. Spared(b)'
      <4>1. \A e \in Holders(guilock) : Holds(e)' /\ grip'[e] = guilock' /\ guilock' # 0
        BY <1>0, <2>1 DEF Holders, Holds
      <4>. QED
        BY <3>1, <4>1 DEF Spared
    <3>3. \A a \in Builds \ {b} : Spared(a)'
      <4>1. \A a \in Builds \ {b} : pc'[a] = pc[a] /\ local'[a] = local[a]
        BY <2>3 DEF LockInv, LockTypes, StateTypes
      <4>. QED
        BY <1>0, <2>1, <4>1 DEF SpareInv, Spared
    <3>. QED
      BY <2>1, <3>2, <3>3 DEF SpareInv, EclipseSpared
  <2>. QED
    BY <1>1, <2>2, <2>3 DEF Lock
<1>2. CASE Probe(b)
  <2>1. UNCHANGED <<harmed, guilock>> /\ pc[b] = "probe" /\ pc[b] \in Locked
    BY <1>2 DEF Probe, others, Locked
  <2>2. CASE End(b, "refused")
    <3>1. \A a \in Builds : pc'[a] \notin Deciding
      <4>1. pc' = [pc EXCEPT ![b] = "refused"] /\ "refused" \notin Deciding
        BY <2>2 DEF End, Deciding
      <4>. QED
        BY <2>1, <4>1, SoleDecision
    <3>. QED
      BY <2>1, <3>1 DEF SpareInv, Spared, EclipseSpared
  <2>3. ASSUME NEW where \in {"decide", "probing"}, Goto(b, where), Holders(guilock) = {}
        PROVE  SpareInv'
    <3>1. pc' = [pc EXCEPT ![b] = where] /\ local'[b] = local[b]
      BY <2>3 DEF Goto, Enter, StateTypes
    <3>2. \A a \in Builds : pc'[a] \in Deciding => a = b
      BY <2>1, <3>1, SoleDecision
    <3>3. \A e \in local[b].present : ~Holds(e)
      <4>1. \A e \in local[b].present : e \in Eclipses
        BY <1>t DEF LocalType
      <4>. QED
        BY <2>1, <2>3, <4>1 DEF SpareInv, Spared, Holders, Deciding
    <3>4. Spared(b)'
      BY <1>0, <2>1, <3>1, <3>3 DEF SpareInv, Spared, Deciding
    <3>. QED
      BY <2>1, <3>2, <3>4 DEF SpareInv, Spared, EclipseSpared
  <2>. QED
    BY <1>2, <2>2, <2>3 DEF Probe, Sees
<1>3. CASE ProbeReleases(b) \/ ListStale(b)
  <2>1. /\ UNCHANGED <<harmed, guilock>> /\ pc[b] \in {"probing", "decide"} /\ pc[b] \in Locked
        /\ \E where \in {"decide", "purge"} : pc' = [pc EXCEPT ![b] = where]
        /\ local'[b].present = local[b].present
    BY <1>3, <1>t DEF ProbeReleases, ListStale, Goto, Enter, others, Locked, StateTypes, LocalType
  <2>2. \A a \in Builds : pc'[a] \in Deciding => a = b
    BY <2>1, SoleDecision
  <2>3. Spared(b)'
    BY <1>0, <2>1 DEF SpareInv, Spared, Deciding
  <2>. QED
    BY <2>1, <2>2, <2>3 DEF SpareInv, Spared, EclipseSpared
<1>4. CASE Reset(b) \/ Purge(b)
  <2>1. /\ pc[b] \in {"decide", "purge"} /\ pc[b] \in Locked /\ Harms(b)
        /\ pc' = [pc EXCEPT ![b] = "edit"]
    BY <1>4 DEF Reset, Purge, ImportsNext, Enter, Locked
  <2>2. {e \in local[b].present : Holds(e)} = {}
    BY <2>1 DEF SpareInv, Spared, Deciding
  <2>3. harmed' = harmed
    BY <2>1, <2>2 DEF Harms
  <2>4. \A a \in Builds : pc'[a] \notin Deciding
    BY <2>1, SoleDecision DEF Deciding
  <2>. QED
    BY <2>3, <2>4 DEF SpareInv, Spared, EclipseSpared
<1>5. CASE Fresh(b) \/ Reuse(b)
  <2>1. /\ pc[b] \in Locked /\ UNCHANGED harmed
        /\ \E where \in {"edit", "refused"} : pc' = [pc EXCEPT ![b] = where]
    BY <1>5 DEF Fresh, Reuse, ImportsNext, Goto, Enter, End, Locked, others
  <2>2. \A a \in Builds : pc'[a] \notin Deciding
    BY <2>1, SoleDecision DEF Deciding
  <2>. QED
    BY <2>1, <2>2 DEF SpareInv, Spared, EclipseSpared
<1>. QED
  BY <1>1, <1>2, <1>3, <1>4, <1>5

\* The rest of a build comes when nobody decides.
LEMMA WorkSpares ==
    ASSUME LockInv, SpareInv, NEW b \in Builds,
           \/ NoEdits(b) \/ Snapshot(b) \/ Edit(b) \/ Write(b) \/ Written(b) \/ Validate(b)
           \/ Rollback(b) \/ Restored(b) \/ Run(b) \/ Retry(b) \/ Return(b) \/ Crash(b) \/ Stop(b)
    PROVE  SpareInv'
<1>1. UNCHANGED harmed /\ pc[b] \in Locked
  BY DEF NoEdits, Snapshot, Edit, Write, Written, Validate, Rollback, Restored, Run, Retry, Return,
         Crash, Stop, Locked, others
<1>2. \E where : where \notin Deciding /\ pc' = [pc EXCEPT ![b] = where]
  <2>1. CASE NoEdits(b) \/ Run(b) \/ Retry(b) \/ Return(b) \/ Crash(b) \/ Stop(b)
    BY <2>1 DEF NoEdits, Run, Retry, Return, Crash, Stop, Goto, Enter, End, Deciding
  <2>2. CASE Snapshot(b) \/ Edit(b) \/ Write(b) \/ Written(b)
    BY <2>2 DEF Snapshot, Edit, Write, Written, Caught, Goto, Enter, End, Deciding
  <2>3. CASE Validate(b) \/ Rollback(b) \/ Restored(b)
    BY <2>3 DEF Validate, Rollback, Restored, Goto, Enter, End, Deciding
  <2>. QED
    BY <2>1, <2>2, <2>3
<1>3. \A a \in Builds : pc'[a] \notin Deciding
  BY <1>1, <1>2, SoleDecision
<1>. QED
  BY <1>1, <1>3 DEF SpareInv, Spared, EclipseSpared

LEMMA WorldSpares ==
    ASSUME ToolInv, StateTypes, SpareInv,
           \/ \E b \in Builds : ToolMoves(b) \/ JvmTakes(b) \/ JvmWorks(b)
           \/ GuiOpens \/ GuiCloses \/ UserDeletes \/ Tick
    PROVE  SpareInv'
<1>0. /\ \A b \in Builds : local[b] \in LocalType
      /\ grip \in [Eclipses -> Nat] /\ jvm \in [Builds -> {"none", "alive", "dead"}]
      /\ Gui \notin Builds
  BY BuildAssumption DEF StateTypes, ToolInv, ToolTypeOK
<1>1. ASSUME NEW b \in Builds, ToolMoves(b) PROVE SpareInv'
  <2>1. UNCHANGED <<pc, local, grip, guilock, harmed>>
    BY <1>1 DEF ToolMoves, buildvars, locks
  <2>2. \A a \in Builds \ {b} : jvm'[a] = jvm[a]
    BY <1>0, <1>1
    DEF ToolMoves, RunToolStep, Communicated, Deadline, LauncherGone, SigTerm, SigKill,
        Interrupt, StartJvm, LauncherExits
  <2>3. jvm'[b] \in {jvm[b], "dead"} \/ jvm[b] = "none"
    BY <1>0, <1>1
    DEF ToolMoves, RunToolStep, Communicated, Deadline, LauncherGone, SigTerm, SigKill, SweptTree,
        Interrupt, StartJvm, LauncherExits
  <2>4. \A e \in Eclipses : Lasts(e)
    BY <1>0, <2>1, <2>2, <2>3 DEF Lasts, Holds, Eclipses
  <2>. QED
    BY <2>1, <2>4, SpareSame
<1>2. ASSUME NEW b \in Builds, JvmTakes(b) PROVE SpareInv'
  <2>1. UNCHANGED <<pc, local, harmed>> /\ jvm[b] = "alive" /\ grip[b] = 0
    BY <1>2 DEF JvmTakes
  <2>2. CASE Take(b) /\ UNCHANGED tool
    <3>1. guilock # 0 => UNCHANGED guilock
      BY <2>2 DEF Take
    <3>2. \A e \in Eclipses \ {b} : grip'[e] = grip[e]
      BY <1>0, <2>2 DEF Take
    <3>3. \A e \in Eclipses : Lasts(e)
      BY <1>0, <2>1, <2>2, <3>2 DEF Lasts, Holds, Eclipses, tool
    <3>4. \A a \in Builds : local[a].present \subseteq Eclipses
      BY <1>0 DEF LocalType
    <3>. QED
      BY <2>1, <3>1, <3>3, <3>4, SpareRests
  <2>3. CASE JvmExits(b, "failed") /\ UNCHANGED locks
    <3>1. \A e \in Eclipses : Lasts(e)
      BY <1>0, <2>1, <2>3 DEF Lasts, Holds, Eclipses, JvmExits, locks
    <3>. QED
      BY <2>1, <2>3, <3>1, SpareSame DEF locks
  <2>. QED
    BY <1>2, <2>2, <2>3 DEF JvmTakes
<1>3. ASSUME NEW b \in Builds, JvmWorks(b) PROVE SpareInv'
  <2>1. /\ UNCHANGED <<pc, local, harmed, guilock>> /\ grip' = [grip EXCEPT ![b] = 0]
        /\ jvm' = [jvm EXCEPT ![b] = "dead"]
    BY <1>3 DEF JvmWorks, JvmExits
  <2>2. \A e \in Eclipses : Lasts(e)
    BY <1>0, <2>1 DEF Lasts, Holds, Eclipses
  <2>. QED
    BY <2>1, <2>2, SpareSame
<1>4. CASE GuiOpens
  <2>1. /\ UNCHANGED <<pc, local, harmed, jvm>> /\ ~Holds(Gui)
        /\ guilock # 0 => UNCHANGED guilock
        /\ \A e \in Eclipses \ {Gui} : grip'[e] = grip[e]
    BY <1>0, <1>4 DEF GuiOpens, Take, tool
  <2>2. \A e \in Eclipses : Lasts(e)
    BY <1>0, <2>1 DEF Lasts, Holds, Eclipses
  <2>3. \A a \in Builds : local[a].present \subseteq Eclipses
    BY <1>0 DEF LocalType
  <2>. QED
    BY <2>1, <2>2, <2>3, SpareRests
<1>5. CASE GuiCloses
  <2>1. /\ UNCHANGED <<pc, harmed, jvm, guilock>>
        /\ \A e \in Eclipses \ {Gui} : grip'[e] = grip[e]
    BY <1>0, <1>5 DEF GuiCloses, tool
  <2>2. \A a \in Builds : local'[a].present = local[a].present \ {Gui}
    BY <1>0, <1>5 DEF GuiCloses, LocalType
  <2>3. \A e \in Builds : Lasts(e)
    BY <1>0, <2>1 DEF Lasts, Holds, Eclipses
  <2>4. \A a \in Builds : local'[a].present \subseteq Builds
    BY <1>0, <2>2 DEF LocalType, Eclipses
  <2>. QED
    BY <2>1, <2>2, <2>3, <2>4, SpareRests
<1>6. CASE UserDeletes \/ Tick
  <2>1. UNCHANGED <<pc, local, harmed, guilock, grip, jvm>>
    BY <1>6 DEF UserDeletes, Tick, tool, locks
  <2>. QED
    BY <2>1, StillLasts, SpareSame
<1>. QED
  BY <1>1, <1>2, <1>3, <1>4, <1>5, <1>6

\* No build wipes the workspace of an Eclipse, or takes its lock file from it,
\* that was there when the build began: the GUI, or the JVM that an interrupted
\* build has left behind.
THEOREM NoEclipseHarmed == BuildSpec => []EclipseSpared
<1>1. BuildInit => SpareInv
  BY DEF BuildInit, SpareInv, Spared, EclipseSpared, Deciding
<1>2. ToolInv /\ LockInv /\ FilesInv /\ SpareInv /\ [BuildNext]_allvars => SpareInv'
  <2>. SUFFICES ASSUME ToolInv, LockInv, StateTypes, SpareInv, [BuildNext]_allvars PROVE SpareInv'
    BY DEF FilesInv
  <2>1. ASSUME NEW b \in Builds, BuildStep(b) \/ Stop(b) \/ Crash(b) PROVE SpareInv'
    BY <2>1, DecisionSpares, WorkSpares DEF BuildStep
  <2>2. CASE UNCHANGED allvars
    BY <2>2, StillLasts, SpareSame DEF allvars, buildvars, tool, locks
  <2>. QED
    BY <2>1, <2>2, WorldSpares DEF BuildNext
<1>3. SpareInv => EclipseSpared
  BY DEF SpareInv
<1>. QED
  BY <1>1, <1>2, <1>3, LockAlways, ToolAlways, FilesAlways, PTL DEF BuildSpec

-----------------------------------------------------------------------------
(* A build ends.  NeverStuck says that it can go on; that it cannot go on  *)
(* for ever is a matter of counting.                                       *)

\* Steps of its own a build has left, at most: by its place in build(); while a
\* tool runs, by its place in run_tool, and as many again if there may be a retry.
Ahead == [lock |-> 19, probe |-> 18, probing |-> 17, decide |-> 16, purge |-> 15, edit |-> 14,
          editing |-> 13, write |-> 12, writing |-> 11, validate |-> 10, build |-> 9,
          rollback |-> 2, restoring |-> 1]
AheadInTool == [communicate |-> 4, poll |-> 3, grace |-> 2, over |-> 1]
Left(place, inTool, imports) ==
    IF place = "running" THEN AheadInTool[inTool] + (IF imports THEN 4 ELSE 0)
                         ELSE IF place \in DOMAIN Ahead THEN Ahead[place] ELSE 0
StepsLeft(b) == Left(pc[b], at[b], local[b].needs_import)

LEMMA Counts ==
    /\ \A t, i : /\ Left("lock", t, i) = 19 /\ Left("probe", t, i) = 18 /\ Left("probing", t, i) = 17
                 /\ Left("decide", t, i) = 16 /\ Left("purge", t, i) = 15 /\ Left("edit", t, i) = 14
                 /\ Left("editing", t, i) = 13 /\ Left("write", t, i) = 12
                 /\ Left("writing", t, i) = 11 /\ Left("validate", t, i) = 10
                 /\ Left("build", t, i) = 9 /\ Left("rollback", t, i) = 2
                 /\ Left("restoring", t, i) = 1
    /\ \A how \in Ended : \A t, i : Left(how, t, i) = 0
    /\ \A i : /\ Left("running", "communicate", i) = IF i THEN 8 ELSE 4
              /\ Left("running", "poll", i) = IF i THEN 7 ELSE 3
              /\ Left("running", "grace", i) = IF i THEN 6 ELSE 2
              /\ Left("running", "over", i) = IF i THEN 5 ELSE 1
<1>1. \A t, i : /\ Left("lock", t, i) = 19 /\ Left("probe", t, i) = 18 /\ Left("probing", t, i) = 17
                /\ Left("decide", t, i) = 16 /\ Left("purge", t, i) = 15 /\ Left("edit", t, i) = 14
                /\ Left("editing", t, i) = 13
  BY DEF Left, Ahead
<1>2. \A t, i : /\ Left("write", t, i) = 12
                /\ Left("writing", t, i) = 11 /\ Left("validate", t, i) = 10
                /\ Left("build", t, i) = 9 /\ Left("rollback", t, i) = 2
                /\ Left("restoring", t, i) = 1
  BY DEF Left, Ahead
<1>3. \A how \in Ended : \A t, i : Left(how, t, i) = 0
  BY DEF Left, Ahead, Ended
<1>4. \A i : /\ Left("running", "communicate", i) = IF i THEN 8 ELSE 4
             /\ Left("running", "poll", i) = IF i THEN 7 ELSE 3
             /\ Left("running", "grace", i) = IF i THEN 6 ELSE 2
             /\ Left("running", "over", i) = IF i THEN 5 ELSE 1
  BY DEF Left, AheadInTool
<1>. QED
  BY <1>1, <1>2, <1>3, <1>4

InTool == {"communicate", "poll", "grace"}

\* A build is running while, and only while, its call of run_tool has begun; the
\* call looks at a launcher that nobody else has reaped; and no place of build()
\* is left out of the count.
AbreastOf(b) ==
    /\ pc[b] \in DOMAIN Ahead \cup Ended \cup {"running"}
    /\ at[b] \in InTool => pc[b] = "running"
    /\ pc[b] = "running" => at[b] \in InTool \cup {"over"}
    /\ at[b] \in {"communicate", "poll"} => launcher[b] \in {"alive", "zombie"}
Abreast == \A b \in Builds : AbreastOf(b)

CountTypes == ToolTypeOK /\ StateTypes /\ pc \in [Builds -> Locked \cup Ended \cup {"lock"}]

\* What every step of b's own does.
Advances(b) ==
    /\ StepsLeft(b)' < StepsLeft(b)
    /\ AbreastOf(b)'
    /\ \A a \in Builds \ {b} : /\ pc'[a] = pc[a] /\ at'[a] = at[a]
                               /\ local'[a] = local[a] /\ launcher'[a] = launcher[a]

\* It goes from one place in build() to another, or out.
LEMMA PlaceAdvances ==
    ASSUME NEW b \in Builds, CountTypes, AbreastOf(b), UNCHANGED <<at, launcher>>,
           NEW where \in DOMAIN Ahead \cup Ended, NEW mine, Moves(b, where, mine),
           at[b] \notin InTool,
           Left(where, at[b], mine.needs_import) < Left(pc[b], at[b], local[b].needs_import)
    PROVE  Advances(b)
<1>1. pc'[b] = where /\ local'[b] = mine
  BY DEF CountTypes, StateTypes, Moves
<1>2. \A a \in Builds \ {b} : pc'[a] = pc[a] /\ local'[a] = local[a]
  BY DEF CountTypes, StateTypes, Moves
<1>3. where # "running"
  BY DEF Ahead, Ended
<1>4. AbreastOf(b)'
  BY <1>1, <1>3 DEF AbreastOf, InTool
<1>. QED
  BY <1>1, <1>2, <1>4 DEF Advances, StepsLeft

LEMMA StepAdvances ==
    ASSUME NEW b \in Builds, CountTypes, AbreastOf(b), BuildStep(b) \/ Stop(b) \/ Crash(b)
    PROVE  Advances(b)
<1>1. /\ local[b] \in LocalType /\ local[b].needs_import \in BOOLEAN
      /\ Final(b) \in LocalType /\ \A how : End(b, how) => Moves(b, how, Final(b))
      /\ \A where, mine : Enter(b, where, mine) => Moves(b, where, mine)
      /\ \A where : Goto(b, where) => Moves(b, where, local[b])
  BY FinalOK DEF CountTypes, StateTypes, LocalType, Goto
<1>2. /\ DOMAIN Ahead = {"lock", "probe", "probing", "decide", "purge", "edit", "editing", "write",
                         "writing", "validate", "build", "rollback", "restoring"}
      /\ "running" \notin DOMAIN Ahead /\ Ended \cap DOMAIN Ahead = {} /\ "running" \notin Ended
  BY DEF Ahead, Ended
<1>3. ASSUME UNCHANGED <<at, launcher>>, pc[b] \in DOMAIN Ahead,
             NEW how \in Ended, End(b, how)
      PROVE  Advances(b)
  <2>1. at[b] \notin InTool
    BY <1>2, <1>3 DEF AbreastOf
  <2>2. Left(how, at[b], Final(b).needs_import) < Left(pc[b], at[b], local[b].needs_import)
    BY <1>2, <1>3, Counts
  <2>. QED
    BY <1>1, <1>3, <2>1, <2>2, PlaceAdvances
<1>4. ASSUME UNCHANGED <<at, launcher>>, pc[b] \in DOMAIN Ahead,
             NEW where \in DOMAIN Ahead, NEW mine, Moves(b, where, mine),
             \A t, i, k : Left(where, t, i) < Left(pc[b], t, k)
      PROVE  Advances(b)
  <2>1. at[b] \notin InTool
    BY <1>2, <1>4 DEF AbreastOf
  <2>. QED
    BY <1>4, <2>1, PlaceAdvances
<1>5. CASE Lock(b)
  <2>1. UNCHANGED <<at, launcher>> /\ pc[b] = "lock"
    BY <1>5 DEF Lock, tool
  <2>2. CASE End(b, "refused")
    BY <1>2, <1>3, <2>1, <2>2 DEF Ended
  <2>3. CASE Moves(b, "probe", [local[b] EXCEPT !.present = Holders(guilock)])
    BY <1>2, <1>4, <2>1, <2>3, Counts
  <2>. QED
    BY <1>5, <2>2, <2>3 DEF Lock, Moves
<1>6. CASE Probe(b) \/ ProbeReleases(b)
  <2>1. UNCHANGED <<at, launcher>> /\ pc[b] \in {"probe", "probing"}
    BY <1>6 DEF Probe, ProbeReleases, others, tool
  <2>2. \/ End(b, "refused") \/ Moves(b, "decide", local[b])
        \/ pc[b] = "probe" /\ Moves(b, "probing", local[b])
    BY <1>1, <1>6 DEF Probe, ProbeReleases
  <2>. QED
    BY <1>2, <1>3, <1>4, <2>1, <2>2, Counts DEF Ended
<1>7. CASE Reset(b) \/ Fresh(b) \/ Reuse(b) \/ ListStale(b)
  <2>1. UNCHANGED <<at, launcher>> /\ pc[b] = "decide"
    BY <1>7 DEF Reset, Fresh, Reuse, ListStale, others, tool
  <2>2. \/ End(b, "refused")
        \/ \E where \in {"purge", "edit"} : \E mine : Moves(b, where, mine)
    BY <1>1, <1>7 DEF Reset, Fresh, Reuse, ListStale, ImportsNext
  <2>. QED
    BY <1>2, <1>3, <1>4, <2>1, <2>2, Counts DEF Ended
<1>8. CASE Purge(b) \/ NoEdits(b)
  <2>1. UNCHANGED <<at, launcher>>
    BY <1>8 DEF Purge, NoEdits, others, tool
  <2>2. \/ pc[b] = "purge" /\ \E mine : Moves(b, "edit", mine)
        \/ pc[b] = "edit" /\ Moves(b, "build", local[b])
    BY <1>1, <1>8 DEF Purge, NoEdits, ImportsNext
  <2>. QED
    BY <1>2, <1>4, <2>1, <2>2, Counts
<1>9. CASE Snapshot(b)
  <2>0. /\ UNCHANGED others /\ pc[b] = "edit"
        /\ \/ End(b, "raised")
           \/ Enter(b, "editing", [local[b] EXCEPT !.stamp = Second, !.tree = cproject])
    BY <1>9, Zenon DEF Snapshot
  <2>1. UNCHANGED <<at, launcher>>
    BY <2>0 DEF others, tool
  <2>2. End(b, "raised") \/ \E mine : Moves(b, "editing", mine)
    BY <1>1, <2>0
  <2>. QED
    BY <1>2, <1>3, <1>4, <2>0, <2>1, <2>2, Counts DEF Ended
<1>10. CASE Edit(b) \/ Write(b) \/ Written(b) \/ Validate(b)
  <2>1. UNCHANGED <<at, launcher>>
    BY <1>10 DEF Edit, Write, Written, Validate, others, tool
  <2>2. \/ pc[b] \in {"editing", "validate"} /\ End(b, "raised")
        \/ /\ pc[b] \in {"editing", "writing", "validate"}
           /\ Moves(b, "rollback", local[b])
        \/ pc[b] = "editing" /\ Moves(b, "write", local[b])
        \/ pc[b] = "write" /\ Moves(b, "writing", local[b])
        \/ pc[b] = "writing" /\ Moves(b, "validate", local[b])
        \/ pc[b] = "validate" /\ Moves(b, "build", local[b])
    BY <1>1, <1>10 DEF Edit, Write, Written, Caught, Validate
  <2>. QED
    BY <1>2, <1>3, <1>4, <2>1, <2>2, Counts DEF Ended
<1>11. CASE Rollback(b) \/ Restored(b)
  <2>0. /\ UNCHANGED others
        /\ \/ pc[b] = "rollback" /\ Goto(b, "restoring")
           \/ pc[b] = "restoring" /\ (End(b, "rolled_back") \/ End(b, "raised"))
    BY <1>11, Zenon DEF Rollback, Restored
  <2>1. UNCHANGED <<at, launcher>> /\ pc[b] \in {"rollback", "restoring"}
    BY <2>0 DEF others, tool
  <2>2. \/ pc[b] = "rollback" /\ Moves(b, "restoring", local[b])
        \/ End(b, "rolled_back") \/ End(b, "raised")
    BY <1>1, <2>0
  <2>. QED
    BY <1>2, <1>3, <1>4, <2>1, <2>2, Counts DEF Ended
<1>12. CASE Run(b) \/ Retry(b)
  <2>1. /\ b \in Calls /\ at' = [at EXCEPT ![b] = "communicate"]
        /\ launcher' = [launcher EXCEPT ![b] = "alive"]
    BY <1>12, BuildAssumption DEF Run, Retry, Spawn
  <2>2. PICK mine : /\ Moves(b, "running", mine)
                    /\ \/ pc[b] = "build" /\ mine.needs_import \in BOOLEAN
                       \/ /\ pc[b] = "running" /\ at[b] = "over" /\ local[b].needs_import
                          /\ ~mine.needs_import
    <3>1. CASE Run(b)
      BY <1>1, <3>1 DEF Run
    <3>2. CASE Retry(b)
      <4>1. ~[local[b] EXCEPT !.needs_import = FALSE].needs_import
        BY <1>1 DEF LocalType
      <4>. QED
        BY <1>1, <3>2, <4>1 DEF Retry, KnownAlready
    <3>. QED
      BY <1>12, <3>1, <3>2
  <2>3. /\ pc'[b] = "running" /\ local'[b] = mine /\ at'[b] = "communicate" /\ launcher'[b] = "alive"
        /\ \A a \in Builds \ {b} : /\ pc'[a] = pc[a] /\ local'[a] = local[a]
                                   /\ at'[a] = at[a] /\ launcher'[a] = launcher[a]
    BY <2>1, <2>2, BuildAssumption DEF CountTypes, ToolTypeOK, StateTypes, Moves
  <2>4. StepsLeft(b)' = IF mine.needs_import THEN 8 ELSE 4
    BY <2>3, Counts DEF StepsLeft
  <2>5. StepsLeft(b) = IF pc[b] = "build" THEN 9 ELSE 5
    BY <2>2, Counts DEF StepsLeft
  <2>6. AbreastOf(b)'
    BY <2>3 DEF AbreastOf, InTool
  <2>. QED
    BY <2>2, <2>3, <2>4, <2>5, <2>6 DEF Advances
<1>13. CASE Return(b)
  <2>1. UNCHANGED <<at, launcher>> /\ pc[b] = "running" /\ at[b] = "over"
    BY <1>13 DEF Return
  <2>2. PICK how \in {"raised", "built", "failed"} : End(b, how)
    BY <1>13 DEF Return
  <2>3. how \in Ended /\ at[b] \notin InTool
    BY <2>1 DEF Ended, InTool
  <2>4. Left(how, at[b], Final(b).needs_import) < Left(pc[b], at[b], local[b].needs_import)
    BY <2>1, <2>3, Counts
  <2>. QED
    BY <1>1, <2>1, <2>2, <2>3, <2>4, PlaceAdvances
<1>14. CASE Stop(b)
  <2>1. UNCHANGED <<at, launcher>> /\ pc[b] \in DOMAIN Ahead
    BY <1>2, <1>14 DEF Stop, Locked, AbreastOf, Ended
  <2>. QED
    BY <1>3, <1>14, <2>1 DEF Stop, Ended
<1>15. CASE Crash(b)
  <2>1. /\ pc[b] = "running" /\ End(b, "stopped") /\ at' = [at EXCEPT ![b] = "over"]
        /\ UNCHANGED launcher /\ b \in Calls
    BY <1>15, BuildAssumption DEF Crash
  <2>2. /\ pc'[b] = "stopped" /\ at'[b] = "over"
        /\ \A a \in Builds \ {b} : /\ pc'[a] = pc[a] /\ local'[a] = local[a]
                                   /\ at'[a] = at[a] /\ launcher'[a] = launcher[a]
    BY <1>1, <2>1, BuildAssumption DEF CountTypes, ToolTypeOK, StateTypes, Moves
  <2>3. at[b] \in InTool \cup {"over"}
    BY <2>1 DEF AbreastOf
  <2>4. StepsLeft(b)' = 0 /\ StepsLeft(b) \in Nat \ {0}
    BY <1>1, <2>1, <2>2, <2>3, Counts DEF StepsLeft, InTool, Ended
  <2>5. AbreastOf(b)'
    BY <2>2 DEF AbreastOf, InTool, Ended
  <2>. QED
    BY <2>2, <2>4, <2>5 DEF Advances
<1>. QED
  BY <1>5, <1>6, <1>7, <1>8, <1>9, <1>10, <1>11, <1>12, <1>13, <1>14, <1>15 DEF BuildStep

\* The call of run_tool goes on, or is interrupted.
LEMMA CallAdvances ==
    ASSUME NEW b \in Builds, CountTypes, AbreastOf(b), UNCHANGED <<pc, local>>,
           RunToolStep(b) \/ Interrupt(b)
    PROVE  Advances(b)
<1>1. b \in Calls /\ at \in [Builds -> InTool \cup {"idle", "over"}]
  BY BuildAssumption DEF CountTypes, ToolTypeOK, InTool
<1>2. launcher \in [Builds -> {"none", "alive", "zombie", "reaped"}]
  BY BuildAssumption DEF CountTypes, ToolTypeOK
<1>3. PICK here \in InTool, there \in {"poll", "grace", "over"} :
         /\ at[b] = here /\ at' = [at EXCEPT ![b] = there]
         /\ \/ here = "communicate" /\ there \in {"poll", "over"}
            \/ here = "poll" /\ there \in {"grace", "over"}
            \/ here = "grace" /\ there = "over"
         /\ there = "poll" => UNCHANGED launcher
  BY DEF RunToolStep, Communicated, Deadline, LauncherGone, SigTerm, SigKill, Interrupt, InTool
<1>4. \A a \in Builds \ {b} : at'[a] = at[a] /\ launcher'[a] = launcher[a]
  <2>1. UNCHANGED launcher \/ \E l : launcher' = [launcher EXCEPT ![b] = l]
    BY DEF RunToolStep, Communicated, Deadline, LauncherGone, SigTerm, SigKill, Interrupt
  <2>. QED
    BY <1>1, <1>2, <1>3, <2>1
<1>5. pc[b] = "running" /\ pc'[b] = "running" /\ at'[b] = there
  BY <1>1, <1>3 DEF AbreastOf
<1>6. AbreastOf(b)'
  BY <1>3, <1>5 DEF AbreastOf, InTool
<1>7. StepsLeft(b)' < StepsLeft(b)
  <2>1. /\ StepsLeft(b) = Left("running", here, local[b].needs_import)
        /\ StepsLeft(b)' = Left("running", there, local[b].needs_import)
    BY <1>3, <1>5 DEF StepsLeft
  <2>. QED
    BY <1>3, <2>1, Counts DEF InTool
<1>. QED
  BY <1>4, <1>6, <1>7 DEF Advances

\* What others do leaves a build where it is.
Waits(b) ==
    /\ StepsLeft(b)' = StepsLeft(b)
    /\ AbreastOf(b)'

LEMMA Undisturbed ==
    ASSUME NEW b \in Builds, AbreastOf(b), pc'[b] = pc[b], at'[b] = at[b],
           local'[b].needs_import = local[b].needs_import,
           launcher'[b] = launcher[b] \/ launcher'[b] \in {"alive", "zombie"}
    PROVE  Waits(b)
BY DEF Waits, StepsLeft, AbreastOf

LEMMA WorldWaits ==
    ASSUME CountTypes, Abreast,
           \/ \E c \in Builds : JvmTakes(c) \/ JvmWorks(c) \/ (StartJvm(c) /\ UNCHANGED buildvars)
                                \/ (LauncherExits(c) /\ UNCHANGED buildvars)
           \/ GuiOpens \/ GuiCloses \/ UserDeletes \/ Tick \/ UNCHANGED allvars
    PROVE  \A b \in Builds : Waits(b)
<1>1. Builds = Calls /\ \A b \in Builds : local[b] \in LocalType
  BY BuildAssumption DEF CountTypes, StateTypes
<1>2. UNCHANGED <<pc, at>>
  <2>1. ASSUME NEW c \in Builds, JvmTakes(c) PROVE UNCHANGED <<pc, at>>
    BY <2>1 DEF JvmTakes, JvmExits, tool
  <2>2. ASSUME NEW c \in Builds, JvmWorks(c) PROVE UNCHANGED <<pc, at>>
    BY <2>2 DEF JvmWorks, JvmExits
  <2>. QED
    BY <2>1, <2>2 DEF StartJvm, LauncherExits, GuiOpens, GuiCloses, UserDeletes, Tick,
                      allvars, buildvars, tool
<1>3. UNCHANGED launcher \/ \E c \in Builds : launcher' = [launcher EXCEPT ![c] = "zombie"]
  <2>1. ASSUME NEW c \in Builds, JvmTakes(c) \/ JvmWorks(c) PROVE UNCHANGED launcher
    BY <2>1 DEF JvmTakes, JvmWorks, JvmExits, tool
  <2>. QED
    BY <2>1 DEF StartJvm, LauncherExits, GuiOpens, GuiCloses, UserDeletes, Tick, allvars, tool
<1>4. ASSUME NEW b \in Builds PROVE local'[b].needs_import = local[b].needs_import
  <2>1. CASE GuiCloses
    BY <1>1, <2>1 DEF GuiCloses, LocalType
  <2>2. CASE ~GuiCloses
    <3>1. ASSUME NEW c \in Builds, JvmTakes(c) \/ JvmWorks(c) PROVE UNCHANGED local
      BY <3>1 DEF JvmTakes, JvmWorks
    <3>. QED
      BY <2>2, <3>1 DEF GuiOpens, UserDeletes, Tick, allvars, buildvars
  <2>. QED
    BY <2>1, <2>2
<1>5. ASSUME NEW b \in Builds PROVE launcher'[b] = launcher[b] \/ launcher'[b] \in {"alive", "zombie"}
  BY <1>1, <1>3 DEF CountTypes, ToolTypeOK
<1>6. ASSUME NEW b \in Builds PROVE Waits(b)
  BY <1>2, <1>4, <1>5, Undisturbed DEF Abreast
<1>. QED
  BY <1>6

LEMMA CountStep ==
    ASSUME CountTypes, Abreast, [BuildNext]_allvars
    PROVE  /\ Abreast'
           /\ \A b \in Builds : StepsLeft(b)' <= StepsLeft(b)
<1>1. \A b \in Builds : StepsLeft(b) \in Nat
  <2>. SUFFICES ASSUME NEW b \in Builds PROVE StepsLeft(b) \in Nat
    OBVIOUS
  <2>1. AbreastOf(b) /\ local[b].needs_import \in BOOLEAN
    BY DEF Abreast, CountTypes, StateTypes, LocalType
  <2>2. CASE pc[b] = "running"
    BY <2>1, <2>2, Counts DEF AbreastOf, StepsLeft, InTool
  <2>3. CASE pc[b] # "running"
    BY <2>1, <2>3, Counts DEF AbreastOf, StepsLeft, Ahead
  <2>. QED
    BY <2>2, <2>3
<1>2. ASSUME NEW b \in Builds, Advances(b)
      PROVE  \A a \in Builds : AbreastOf(a)' /\ StepsLeft(a)' <= StepsLeft(a)
  <2>1. ASSUME NEW a \in Builds, a # b PROVE Waits(a)
    BY <1>2, <2>1, Undisturbed DEF Advances, Abreast
  <2>2. ASSUME NEW a \in Builds, a # b PROVE AbreastOf(a)' /\ StepsLeft(a)' <= StepsLeft(a)
    BY <1>1, <2>1, <2>2 DEF Waits
  <2>3. AbreastOf(b)' /\ StepsLeft(b)' <= StepsLeft(b)
    <3>1. StepsLeft(b)' \in Nat
      <4>1. pc'[b] \in DOMAIN Ahead \cup Ended \cup {"running"}
        BY <1>2 DEF Advances, AbreastOf
      <4>. QED
        BY <1>2, <4>1, Counts DEF Advances, AbreastOf, StepsLeft, Ahead, InTool
    <3>. QED
      BY <1>1, <1>2, <3>1 DEF Advances
  <2>. QED
    BY <2>2, <2>3
<1>3. ASSUME \A b \in Builds : Waits(b)
      PROVE  \A a \in Builds : AbreastOf(a)' /\ StepsLeft(a)' <= StepsLeft(a)
  BY <1>1, <1>3 DEF Waits
<1>4. ASSUME NEW b \in Builds, BuildStep(b) \/ Stop(b) \/ Crash(b) PROVE Advances(b)
  BY <1>4, StepAdvances DEF Abreast
<1>5. ASSUME NEW b \in Builds, RunToolStep(b) \/ Interrupt(b), UNCHANGED buildvars PROVE Advances(b)
  BY <1>5, CallAdvances DEF Abreast, buildvars
<1>6. \/ \E b \in Builds : Advances(b)
      \/ \A b \in Builds : Waits(b)
  BY <1>4, <1>5, WorldWaits DEF BuildNext, ToolMoves
<1>. QED
  BY <1>2, <1>3, <1>6 DEF Abreast

LEMMA CountAlways == BuildSpec => [](CountTypes /\ Abreast)
<1>1. ToolInv /\ LockInv /\ FilesInv => CountTypes
  BY DEF ToolInv, LockInv, LockTypes, FilesInv, CountTypes
<1>2. BuildInit => Abreast
  <2>. SUFFICES ASSUME BuildInit, NEW b \in Builds PROVE AbreastOf(b)
    BY DEF Abreast
  <2>1. pc[b] = "lock" /\ at[b] = "idle"
    BY BuildAssumption DEF BuildInit, ToolInit
  <2>. QED
    BY <2>1 DEF AbreastOf, InTool, Ahead
<1>3. CountTypes /\ Abreast /\ [BuildNext]_allvars => Abreast'
  BY CountStep
<1>. QED
  BY <1>1, <1>2, <1>3, ToolAlways, LockAlways, FilesAlways, PTL DEF BuildSpec

\* No build goes on for ever: every step of its own uses up one of the at most
\* 19 it has left, and no step of another build, an Eclipse or the user, nor any
\* fault, gives it one back.  In particular a build is retried once at most.
OnlyForward == [][\A b \in Builds : /\ StepsLeft(b) \in 0..19 /\ StepsLeft(b)' <= StepsLeft(b)
                                    /\ OwnStep(b) => StepsLeft(b)' < StepsLeft(b)]_allvars

THEOREM BuildsRunOut == BuildSpec => OnlyForward
<1>1. ASSUME CountTypes, Abreast, [BuildNext]_allvars, NEW b \in Builds
      PROVE  /\ StepsLeft(b) \in 0..19 /\ StepsLeft(b)' <= StepsLeft(b)
             /\ OwnStep(b) => StepsLeft(b)' < StepsLeft(b)
  <2>1. AbreastOf(b) /\ local[b].needs_import \in BOOLEAN
    BY <1>1 DEF Abreast, CountTypes, StateTypes, LocalType
  <2>2. StepsLeft(b) \in 0..19
    BY <2>1, Counts DEF AbreastOf, StepsLeft, Ahead, InTool
  <2>3. OwnStep(b) => Advances(b)
    BY <1>1, <2>1, StepAdvances, CallAdvances DEF OwnStep, buildvars
  <2>. QED
    BY <1>1, <2>2, <2>3, CountStep DEF Advances
<1>2. (CountTypes /\ Abreast) /\ [BuildNext]_allvars =>
         [\A b \in Builds : /\ StepsLeft(b) \in 0..19 /\ StepsLeft(b)' <= StepsLeft(b)
                            /\ OwnStep(b) => StepsLeft(b)' < StepsLeft(b)]_allvars
  BY <1>1
<1>. QED
  BY <1>2, CountAlways, PTL DEF BuildSpec, OnlyForward

\* What NeverStuck says, with the guards of its own steps in the place of ENABLED:
\* a build in the with statement is at one of the places that ask for nothing, or
\* .location says what to do, or its call of run_tool is over, may let the deadline
\* pass, or has a launcher to reap or to signal.
Ready(b) ==
    \/ pc[b] \in {"probe", "probing", "purge", "edit", "editing", "write", "writing", "validate",
                  "rollback", "restoring", "build"}
    \/ pc[b] = "decide" /\ (workspace.owned \/ workspace.location \in {"none", "here", "else"})
    \/ /\ pc[b] = "running"
       /\ \/ at[b] = "communicate" /\ HasDeadline
          \/ at[b] = "poll" /\ launcher[b] \in {"alive", "zombie"}
          \/ at[b] \in {"grace", "over"}

THEOREM AlwaysReady == BuildSpec => [](\A b \in Builds : pc[b] \in Locked => Ready(b))
<1>1. ASSUME Abreast, LinkInv, NEW b \in Builds, pc[b] \in Locked PROVE Ready(b)
  <2>1. AbreastOf(b) /\ workspace.location \in {"none", "here", "else"} /\ pc[b] \notin Ended \cup {"lock"}
    BY <1>1 DEF Abreast, LinkInv, LinkTypes, Locked, Ended
  <2>2. pc[b] \in {"probe", "probing", "decide", "purge", "edit", "editing", "write", "writing",
                   "validate", "build", "rollback", "restoring", "running"}
    BY <2>1 DEF AbreastOf, Ahead
  <2>. QED
    BY <2>1, <2>2 DEF AbreastOf, Ready, InTool, HasDeadline
<1>2. (CountTypes /\ Abreast) /\ LinkInv => \A b \in Builds : pc[b] \in Locked => Ready(b)
  BY <1>1
<1>. QED
  BY <1>2, CountAlways, LinksAlways, PTL

=============================================================================
