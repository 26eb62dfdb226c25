---------------------------- MODULE CubeIDEBuild ----------------------------
(***************************************************************************)
(* CubeIDE.build (cubeide/client.py): builds of one project in one Eclipse *)
(* workspace, each in a process of its own, with the GUI and the user      *)
(* about.  A build takes the substrate's lock, a file inside the workspace *)
(* it then wipes or cleans; looks whether an Eclipse holds the workspace's  *)
(* other lock; decides whether to import; edits .cproject with a backup to *)
(* roll back to; and runs the headless tool, once more without -import if  *)
(* that says the project already exists.                                   *)
(*                                                                         *)
(* Both lock files are inodes: a lock is held on the inode, and removing   *)
(* the file leaves the holder with a lock nobody else will find.  Eclipse  *)
(* (the GUI, and the JVM of each headless run) is external.                *)
(***************************************************************************)
EXTENDS ToolRun, FiniteSets

CONSTANTS
    Builds,       \* calls of build(), each makes its calls of run_tool itself
    Gui,          \* the CubeIDE GUI
    MaxClock      \* bound: seconds, which name the backups

ASSUME BuildAssumption == /\ IsFiniteSet(Builds) /\ Calls = Builds /\ Gui \notin Builds
                          /\ MaxClock \in Nat
                          /\ "torn" \notin Builds /\ "none" \notin Builds

VARIABLES
    pc,           \* where each build is, or how it ended
    sublock,      \* inode at .metadata/.substrate-lock, 0 if none
    held,         \* the inode a build holds its lock on, 0 if none
    guilock,      \* inode at .metadata/.lock
    grip,         \* the inode an Eclipse holds its lock on
    local,        \* a build's variables: needs_import; doomed, that is .lock is on
                  \* cleanup_stale_project's list; the editor's tree, that is the
                  \* edits it was parsed from; the stamp in its backup's name; and,
                  \* for a property, the Eclipses present since it began
    workspace,    \* owned; inside: the project's directory lies in it; what
                  \* Eclipse's tree knows; what .location says
    project,      \* the project's directory, linked folders and links exist
    cproject,     \* .cproject: the edits in it, or Torn
    backup,       \* backups, by the second that names them
    clock,
    committed,    \* history: builds whose edit was committed
    good,         \* history: .cproject before it was last opened for writing
    mishap,       \* history: what may leave .cproject torn, or lose a backup
    harmed        \* history: those whose workspace was wiped or unlocked

locks == <<sublock, held, guilock, grip>>
files == <<cproject, backup, clock, committed, good, mishap>>
buildvars == <<pc, local, locks, workspace, project, files, harmed>>
allvars == <<tool, buildvars>>

Eclipses == Builds \cup {Gui}
Torn == {"torn"}                             \* neither edits nor none
NoBackup == {"none"}
Ended == {"built", "failed", "refused", "raised", "rolled_back", "stopped"}
Locked == {"probe", "probing", "decide", "purge", "edit", "snapshot", "editing", "write",
           "writing", "validate", "rollback", "restoring", "build", "running"}

NoLocals == [needs_import |-> FALSE, doomed |-> FALSE, tree |-> {}, stamp |-> 0, present |-> {}]

BuildInit ==
    /\ ToolInit
    /\ pc = [b \in Builds |-> "lock"]
    /\ sublock = 0 /\ held = [b \in Builds |-> 0]
    /\ guilock = 0 /\ grip = [e \in Eclipses |-> 0]
    /\ local = [b \in Builds |-> NoLocals]
    /\ workspace \in {w \in [owned : BOOLEAN, inside : BOOLEAN, known : {"none", "here", "else"},
                             location : {"none", "here", "else"}] :
                        /\ w.owned => ~w.inside /\ w.known # "else"
                        /\ w.location = IF w.inside /\ w.known = "here" THEN "none" ELSE w.known}
    /\ project = [source |-> TRUE, folders |-> TRUE, links |-> TRUE]
    /\ cproject = {}
    /\ backup = [s \in 0..MaxClock |-> NoBackup] /\ clock = 0
    /\ committed = {} /\ good = {} /\ mishap = {}
    /\ harmed = {}

-----------------------------------------------------------------------------
(* Locks.                                                                  *)

\* A file gets an inode no lock is held on.
NewInode(grips) ==
    CHOOSE i \in 1..Cardinality(DOMAIN grips) + 1 :
        \A n \in 1..i : (n = i) <=> \A e \in DOMAIN grips : grips[e] # n

Holds(e) == grip[e] # 0 /\ IF e = Gui THEN TRUE ELSE jvm[e] = "alive"
Holders(inode) == {e \in Eclipses : Holds(e) /\ grip[e] = inode}

\* What a step of the build proper leaves alone: the locks but its own, and Eclipse.
others == <<tool, sublock, guilock, grip, harmed>>

\* The build goes on, or leaves the with statement: the descriptor is closed and
\* its variables are gone, but for what a tool still about was told.
Told(b) == local[b].needs_import /\ "alive" \in {launcher[b], jvm[b]}
Enter(b, where, mine) ==
    pc' = [pc EXCEPT ![b] = where] /\ local' = [local EXCEPT ![b] = mine] /\ UNCHANGED held
Goto(b, where) == Enter(b, where, local[b])
End(b, how) ==
    /\ pc' = [pc EXCEPT ![b] = how] /\ held' = [held EXCEPT ![b] = 0]
    /\ local' = [local EXCEPT ![b] = [NoLocals EXCEPT !.needs_import = Told(b)]]

\* acquire_workspace_lock: create the file or open it, flock without waiting.
NeverContended(inode) == FALSE                \* mutant: BlockingIOError lost
Contended(inode) == \E b \in Builds : held[b] = inode

Lock(b) ==
    /\ pc[b] = "lock"
    /\ LET inode == IF sublock = 0 THEN NewInode(held) ELSE sublock IN
       /\ sublock' = inode
       /\ IF Contended(inode)
            THEN End(b, "refused")
            ELSE /\ pc' = [pc EXCEPT ![b] = "probe"] /\ held' = [held EXCEPT ![b] = inode]
                 /\ local' = [local EXCEPT ![b].present = Holders(guilock)]
    /\ UNCHANGED <<tool, guilock, grip, workspace, project, files, harmed>>

\* is_lock_held tries for the lock itself, in both of Linux's namespaces;
\* Eclipse's is the second.
SeesFlockOnly(inode) == {}                    \* mutant: one namespace (IMP-07)
Sees(inode) == Holders(inode)

Probe(b) ==
    /\ pc[b] = "probe"
    /\ IF Sees(guilock) # {} THEN End(b, "refused")
                             ELSE Goto(b, IF guilock = 0 THEN "decide" ELSE "probing")
    /\ UNCHANGED <<others, workspace, project, files>>

ProbeReleases(b) ==
    /\ pc[b] = "probing" /\ Goto(b, "decide")
    /\ UNCHANGED <<others, workspace, project, files>>

-----------------------------------------------------------------------------
(* The import decision.                                                    *)

ImportsNext(b) == Enter(b, "edit", [local[b] EXCEPT !.needs_import = TRUE, !.doomed = FALSE])

\* Eclipses that lose the workspace they hold when b takes something from it.
Harms(b) == harmed' = harmed \cup {e \in local[b].present : Holds(e)}

\* reset_workspace_for_import spares the lock file the build itself holds.
WipedLock == 0                                \* mutant: nothing is spared
KeptLock == sublock

Reset(b) ==
    /\ pc[b] = "decide" /\ workspace.owned
    /\ ImportsNext(b) /\ Harms(b)
    /\ workspace' = [workspace EXCEPT !.known = "none", !.location = "none"]
    /\ guilock' = 0 /\ sublock' = KeptLock
    /\ UNCHANGED <<tool, grip, project, files>>

\* A configured workspace: nothing, our project, or its namesake elsewhere.
Fresh(b) ==
    /\ pc[b] = "decide" /\ ~workspace.owned /\ workspace.location = "none"
    /\ ImportsNext(b)
    /\ UNCHANGED <<others, workspace, project, files>>

FoldersIgnored == FALSE                       \* mutant: reuse without a look
FoldersMissing == ~project.folders

Reuse(b) ==
    /\ pc[b] = "decide" /\ ~workspace.owned /\ workspace.location = "here"
    /\ IF FoldersMissing THEN End(b, "refused") ELSE Goto(b, "edit")
    /\ UNCHANGED <<others, workspace, project, files>>

\* cleanup_stale_project lists what it will remove, then removes it: the
\* namesake's metadata, a lock file nobody held, and <workspace>/<name>.
ListStale(b) ==
    /\ pc[b] = "decide" /\ ~workspace.owned /\ workspace.location = "else"
    /\ Enter(b, "purge", [local[b] EXCEPT !.doomed = guilock # 0 /\ Holders(guilock) = {}])
    /\ UNCHANGED <<others, workspace, project, files>>

Purge(b) ==
    /\ pc[b] = "purge" /\ ImportsNext(b) /\ Harms(b)
    /\ workspace' = [workspace EXCEPT !.location = "none"]
    /\ project' = IF workspace.inside
                    THEN [source |-> FALSE, folders |-> FALSE, links |-> FALSE] ELSE project
    /\ guilock' = IF local[b].doomed THEN 0 ELSE guilock
    /\ UNCHANGED <<tool, sublock, grip, files>>

-----------------------------------------------------------------------------
(* The .cproject protocol, CProjectEditor and _apply_settings.             *)

NoEdits(b) ==
    /\ pc[b] = "edit" /\ Goto(b, "build")
    /\ UNCHANGED <<others, workspace, project, files>>

\* The backup's name has the resolution of a second.
OneName == 0                                  \* mutant: no time in the name
Second == clock

\* The constructor wants the file, snapshot copies it and parses it; neither
\* failure is inside the try statement.
Snapshot(b) ==
    /\ pc[b] = "edit"
    /\ IF project.source
         THEN /\ backup' = [backup EXCEPT ![Second] = cproject]
              /\ mishap' = mishap \cup (IF backup[clock] # NoBackup THEN {"same second"} ELSE {})
              /\ IF cproject = Torn
                   THEN End(b, "raised")
                   ELSE Enter(b, "editing", [local[b] EXCEPT !.stamp = Second, !.tree = cproject])
         ELSE End(b, "raised") /\ UNCHANGED <<backup, mishap>>
    /\ UNCHANGED <<others, workspace, project, cproject, clock, committed, good>>

\* The edits, all in memory: done, a CProjectEditError, or another exception.
Edit(b) ==
    /\ pc[b] = "editing"
    /\ Goto(b, "write") \/ Goto(b, "rollback") \/ End(b, "raised")
    /\ UNCHANGED <<others, workspace, project, files>>

\* write_and_validate opens .cproject itself for writing.
Write(b) ==
    /\ pc[b] = "write" /\ Goto(b, "writing")
    /\ good' = cproject /\ cproject' = Torn
    /\ UNCHANGED <<others, workspace, project, backup, clock, committed, mishap>>

Caught(b) == Goto(b, "rollback")

Written(b) ==
    /\ pc[b] = "writing"
    /\ \/ cproject' = local[b].tree \cup {b} /\ good' = {} /\ Goto(b, "validate")
       \/ Caught(b) /\ UNCHANGED <<cproject, good>>
    /\ UNCHANGED <<others, workspace, project, backup, clock, committed, mishap>>

\* The file is read back: good, not well-formed, or an OSError, which nobody catches:
\* the edit stays, neither committed nor rolled back.
Validate(b) ==
    /\ pc[b] = "validate"
    /\ \/ Goto(b, "build") /\ committed' = committed \cup {b}
       \/ (Goto(b, "rollback") \/ End(b, "raised")) /\ UNCHANGED committed
    /\ UNCHANGED <<others, workspace, project, cproject, backup, clock, good, mishap>>

\* rollback copies the backup over .cproject, which is empty meanwhile.
Rollback(b) ==
    /\ pc[b] = "rollback" /\ Goto(b, "restoring")
    /\ good' = IF cproject = Torn THEN good ELSE backup[local[b].stamp]
    /\ cproject' = Torn
    /\ UNCHANGED <<others, workspace, project, backup, clock, committed, mishap>>

FirstBackup(b) == backup[0]                   \* mutant: not the build's own
OwnBackup(b) == backup[local[b].stamp]

Restored(b) ==
    /\ pc[b] = "restoring"
    /\ \/ cproject' = OwnBackup(b) /\ good' = {} /\ End(b, "rolled_back") /\ UNCHANGED mishap
       \/ mishap' = mishap \cup {"restore failed"} /\ End(b, "raised") /\ UNCHANGED <<cproject, good>>
    /\ UNCHANGED <<others, workspace, project, backup, clock, committed>>

-----------------------------------------------------------------------------
(* The headless run.                                                       *)

Run(b) ==
    /\ pc[b] = "build" /\ Goto(b, "running") /\ Spawn(b)
    /\ grip' = [grip EXCEPT ![b] = 0]
    /\ UNCHANGED <<sublock, guilock, workspace, project, files, harmed>>

\* One retry, without -import and without another look at the folders.
KnownAlready(b) == cause[b] = "none" /\ code[b] = "exists" /\ local[b].needs_import

Retry(b) ==
    /\ pc[b] = "running" /\ at[b] = "over" /\ KnownAlready(b)
    /\ Enter(b, "running", [local[b] EXCEPT !.needs_import = FALSE]) /\ Spawn(b)
    /\ grip' = [grip EXCEPT ![b] = 0]
    /\ UNCHANGED <<sublock, guilock, workspace, project, files, harmed>>

Return(b) ==
    /\ pc[b] = "running" /\ at[b] = "over" /\ ~KnownAlready(b)
    /\ End(b, IF cause[b] # "none" THEN "raised" ELSE IF code[b] = "zero" THEN "built" ELSE "failed")
    /\ cause' = [cause EXCEPT ![b] = "none"] /\ code' = [code EXCEPT ![b] = "none"]
    /\ UNCHANGED <<at, launcher, jvm, escaped, faults, sublock, guilock, grip,
                   workspace, project, files, harmed>>

-----------------------------------------------------------------------------
(* Faults: Ctrl-C outside run_tool runs no handler but the lock's; a crash *)
(* in the middle of run_tool leaves the tool to itself.                    *)

Stop(b) ==
    /\ pc[b] \in Locked \ {"running"} /\ faults < MaxFaults /\ faults' = faults + 1
    /\ End(b, "stopped")
    /\ mishap' = mishap \cup (IF cproject = Torn THEN {"stopped"} ELSE {})
    /\ UNCHANGED <<at, cause, launcher, jvm, code, escaped, sublock, guilock, grip,
                   workspace, project, cproject, backup, clock, committed, good, harmed>>

Crash(b) ==
    /\ pc[b] = "running" /\ at[b] # "over" /\ faults < MaxFaults /\ faults' = faults + 1
    /\ End(b, "stopped")
    /\ at' = [at EXCEPT ![b] = "over"] /\ escaped' = [escaped EXCEPT ![b] = TRUE]
    /\ cause' = [cause EXCEPT ![b] = "none"] /\ code' = [code EXCEPT ![b] = "none"]
    /\ UNCHANGED <<launcher, jvm, sublock, guilock, grip,
                   workspace, project, files, harmed>>

-----------------------------------------------------------------------------
(* Eclipse (external).                                                     *)

\* An Eclipse that starts takes the workspace's lock, or gives up; a build
\* that happens to be probing counts as a holder.
Free == guilock = 0 \/ (Holders(guilock) = {} /\ \A b \in Builds : pc[b] # "probing")

Take(e) ==
    /\ Free
    /\ guilock' = IF guilock = 0 THEN NewInode(grip) ELSE guilock
    /\ grip' = [grip EXCEPT ![e] = guilock']
    /\ UNCHANGED <<sublock, held>>

GuiOpens ==
    /\ ~Holds(Gui) /\ Take(Gui)
    /\ UNCHANGED <<tool, pc, local, workspace, project, files, harmed>>
GuiCloses ==
    /\ Holds(Gui) /\ grip' = [grip EXCEPT ![Gui] = 0]
    /\ local' = [b \in Builds |-> [local[b] EXCEPT !.present = @ \ {Gui}]]
    /\ UNCHANGED <<tool, pc, sublock, held, guilock, workspace, project, files, harmed>>

JvmTakes(b) ==
    /\ jvm[b] = "alive" /\ grip[b] = 0
    /\ \/ Take(b) /\ UNCHANGED tool
       \/ ~Free /\ JvmExits(b, "failed") /\ UNCHANGED locks
    /\ UNCHANGED <<pc, local, workspace, project, files, harmed>>

\* The import: refused for a project the tree knows, else it creates the folders.
\* Without one, a known project whose folders are missing loses its links.
JvmWorks(b) ==
    /\ Holds(b) /\ b # Gui
    /\ \/ /\ local[b].needs_import /\ workspace.known # "none"
          /\ JvmExits(b, "exists") /\ UNCHANGED <<workspace, project>>
       \/ /\ local[b].needs_import /\ workspace.known = "none" /\ project.source
          /\ workspace' = [workspace EXCEPT !.known = "here",
                             !.location = IF workspace.inside THEN "none" ELSE "here"]
          /\ project' = [project EXCEPT !.folders = TRUE]
          /\ \E r \in {"zero", "failed"} : JvmExits(b, r)
       \/ /\ ~local[b].needs_import
          /\ project' = [project EXCEPT !.links = @ /\ ~(workspace.known = "here" /\ ~project.folders)]
          /\ \E r \in {"zero", "failed"} : JvmExits(b, r)
          /\ UNCHANGED workspace
       \/ JvmExits(b, "failed") /\ UNCHANGED <<workspace, project>>
    /\ grip' = [grip EXCEPT ![b] = 0]
    /\ UNCHANGED <<pc, sublock, held, guilock, local, files, harmed>>

ToolMoves(b) ==
    /\ RunToolStep(b) \/ Interrupt(b) \/ StartJvm(b) \/ LauncherExits(b)
    /\ UNCHANGED buildvars

\* With no build running, nor the tool of one, the user may delete the folders.
UserDeletes ==
    /\ project.folders /\ \A b \in Builds : pc[b] \notin Locked /\ "alive" \notin {launcher[b], jvm[b]}
    /\ project' = [project EXCEPT !.folders = FALSE]
    /\ UNCHANGED <<tool, pc, locks, local, workspace, files, harmed>>

\* Seconds that name no backup are as good as none.
Tick ==
    /\ clock < MaxClock /\ backup[clock] # NoBackup /\ clock' = clock + 1
    /\ UNCHANGED <<tool, pc, locks, local, workspace, project, cproject, backup, committed, good,
                   mishap, harmed>>

-----------------------------------------------------------------------------
BuildStep(b) ==
    \/ Lock(b) \/ Probe(b) \/ ProbeReleases(b)
    \/ Reset(b) \/ Fresh(b) \/ Reuse(b) \/ ListStale(b) \/ Purge(b)
    \/ NoEdits(b) \/ Snapshot(b) \/ Edit(b) \/ Write(b) \/ Written(b) \/ Validate(b)
    \/ Rollback(b) \/ Restored(b)
    \/ Run(b) \/ Retry(b) \/ Return(b)

BuildNext ==
    \/ \E b \in Builds : BuildStep(b) \/ Stop(b) \/ Crash(b)
                         \/ ToolMoves(b) \/ JvmTakes(b) \/ JvmWorks(b)
    \/ GuiOpens \/ GuiCloses \/ UserDeletes \/ Tick

BuildSpec == BuildInit /\ [][BuildNext]_allvars

-----------------------------------------------------------------------------
(* Properties.                                                             *)

\* Types; and one lock file is all there ever is.
BuildTypeOK ==
    /\ ToolTypeOK
    /\ pc \in [Builds -> Locked \cup Ended \cup {"lock"}]
    /\ held \in [Builds -> {0, sublock}] /\ sublock \in Nat
    /\ guilock \in Nat /\ grip \in [Eclipses -> Nat]
    /\ local \in [Builds -> [needs_import : BOOLEAN, doomed : BOOLEAN, tree : SUBSET Builds,
                             stamp : 0..MaxClock, present : SUBSET Eclipses]]
    /\ cproject \in (SUBSET Builds) \cup {Torn}

\* Two builds are never between taking and releasing the lock together, even
\* though each of them wipes the directory the lock file lies in.
OneBuild == \A a, b \in Builds : pc[a] \in Locked /\ pc[b] \in Locked => a = b

\* A build never wipes, or takes the lock file from, an Eclipse that was in the
\* workspace when the build began: a GUI, or a JVM an earlier build left behind.
EclipseSpared == harmed = {}

\* An edit that was committed stays in .cproject, whatever later builds do,
\* fail at and roll back.
EditsKept == cproject # Torn => committed \subseteq cproject

\* .cproject is left torn only by a Ctrl-C or crash in the middle of a write, or
\* by a restore that failed; and while it is torn some backup holds what it was,
\* unless two builds made theirs in the same second.
Recoverable == cproject = Torn =>
    /\ mishap # {} \/ \E b \in Builds : pc[b] \in {"writing", "rollback", "restoring"}
    /\ "same second" \notin mishap => \E s \in 0..MaxClock : backup[s] = good

\* No headless run costs a project outside the workspace its links.
LinksKept == ~workspace.inside => project.links

\* A build in progress can always go on by itself, whatever its tool does or fails
\* to do: it never waits for a JVM that keeps the pipes of a launcher long gone.
OwnStep(b) == BuildStep(b) \/ (RunToolStep(b) /\ UNCHANGED buildvars)
NeverStuck == \A b \in Builds : pc[b] \in Locked => ENABLED OwnStep(b)

\* "User-configured build.workspace ... NEVER auto-deleted" (client.py:258): no
\* build deletes the project it is asked to build.
SourceKept == project.source
=============================================================================
