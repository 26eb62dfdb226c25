--------------------------- MODULE Configuration ---------------------------
(***************************************************************************)
(* What a call of the CubeIDE client is about: the context built from the  *)
(* environment (context.py), the project, configuration and workspace it   *)
(* resolves to (resolution.py, cubeide/client.py), and the calls the       *)
(* command line makes (cli/_build.py).  All of it reads and nothing here   *)
(* changes a file, so the module has operators and no variables.           *)
(*                                                                         *)
(* A path is the sequence of its names; a path an argument or a file gives *)
(* also says whether it is absolute.  What may be absent is a set of at    *)
(* most one element, and an operator that raises returns the empty set.    *)
(***************************************************************************)
EXTENDS Naturals, FiniteSets, SequencesExt

CONSTANTS
    Tools,        \* the keys of _SCHEMA_KEY_TO_ATTR
    Hidden        \* names that begin with a dot

Only(option) == CHOOSE value \in option : TRUE
OrElse(option, other) == IF option # {} THEN option ELSE other

-----------------------------------------------------------------------------
(* The host's files: the regular ones, and what those say that parse and   *)
(* validate as a descriptor, as defaults or as a list of tools.            *)

DescriptorFile == <<"stm32-project.jsonc">>
DefaultsFile == <<"stm32-runtime-defaults.jsonc">>
ToolsFiles == << <<".claude", "stm32-tools.local.jsonc">>, <<"stm32-tools.local.jsonc">> >>
EclipseFile == <<".project">>
SettingsFile == <<".cproject">>
HeadlessScript == <<"headless-build.sh">>

Exists(host, path) == \E f \in host.files : IsPrefix(path, f)
IsDir(host, path) == Exists(host, path) /\ path \notin host.files
Ancestors(path) == [i \in 1..Len(path) + 1 |-> SubSeq(path, 1, Len(path) + 1 - i)]

FirstFile(host, candidates) ==
    LET found == SelectSeq(candidates, LAMBDA path : path \in host.files)
    IN  IF found = <<>> THEN {} ELSE {Head(found)}

\* coerce_path: a relative path is read against its anchor.
Coerce(path, anchor) == IF path.absolute THEN path.names ELSE anchor \o path.names

-----------------------------------------------------------------------------
(* SubstrateContext.from_environment(project, tools, defaults).            *)

ContextCwd(host, args) ==
    IF args.project = {} THEN host.cwd ELSE Coerce(Only(args.project), host.cwd)

\* A project_path that is a file is the descriptor itself.
FindProject(host, args) ==
    LET here == ContextCwd(host, args)
    IN  IF args.project # {} /\ here \in host.files
          THEN {here}
          ELSE FirstFile(host, <<here \o DescriptorFile>>)

\* The override, else the nearest file up from the context's directory, where a
\* directory's names are tried in order.
FindUpwards(host, override, start, names) ==
    LET parents == Ancestors(start)
        Tried(parent) == [j \in DOMAIN names |-> parent \o names[j]]
    IN  IF override # {}
          THEN {Coerce(Only(override), host.cwd)}
          ELSE FirstFile(host, FlattenSeq([i \in DOMAIN parents |-> Tried(parents[i])]))

FindRuntimeDefaults(host, args) ==
    FindUpwards(host, args.defaults, ContextCwd(host, args), <<DefaultsFile>>)
FindToolsLocal(host, args) ==
    FindUpwards(host, args.tools, ContextCwd(host, args), ToolsFiles)

\* A pin is honoured or refused, never passed over (IMP-20); then the first
\* configured candidate that exists, then PATH.
ResolveOneTool(host, candidates, tool) ==
    OrElse(host.pins[tool],
           LET found == SelectSeq(candidates, LAMBDA path : Exists(host, path))
           IN  IF found # <<>> THEN {Head(found)} ELSE host.which[tool])

ToolCandidates(host, args, tool) ==
    LET file == FindToolsLocal(host, args)
    IN  IF file = {} THEN <<>> ELSE host.tooling[Only(file)].candidates[tool]

\* The reasons to raise, in no order: nothing else has happened by then.
ContextRaises(host, args) ==
    \/ ~host.supported
    \/ args.project # {} /\ ~Exists(host, ContextCwd(host, args))
    \/ ~(FindProject(host, args) \subseteq DOMAIN host.descriptors)
    \/ ~(FindRuntimeDefaults(host, args) \subseteq host.defaults)
    \/ ~(FindToolsLocal(host, args) \subseteq DOMAIN host.tooling)
    \/ \E tool \in Tools : \E pin \in host.pins[tool] : ~Exists(host, pin)

FromEnvironment(host, args) ==
    LET tools == FindToolsLocal(host, args) IN
    [cwd |-> ContextCwd(host, args),
     project |-> {host.descriptors[file] : file \in FindProject(host, args)},
     tools |-> [t \in Tools |-> ResolveOneTool(host, ToolCandidates(host, args, t), t)],
     default_probe_sn |-> OrElse(host.serial, UNION {host.tooling[file].serial : file \in tools})]

-----------------------------------------------------------------------------
(* The project, its configuration and its workspace.                       *)

Configured(ctx, field) == UNION {descriptor[field] : descriptor \in ctx.project}

\* Paths of the descriptor are read against the context's directory.
DescriptorPath(ctx, field) == {Coerce(path, ctx.cwd) : path \in Configured(ctx, field)}

\* An explicit path without .project stands for the descriptor's project if that
\* lies strictly under it.
ExplicitProject(host, ctx, path) ==
    LET explicit == Coerce(path, host.cwd)
        Importable(dir) == dir \o EclipseFile \in host.files
    IN  IF Importable(explicit)
          THEN {explicit}
          ELSE {dir \in DescriptorPath(ctx, "project_path") :
                   Exists(host, explicit) /\ IsStrictPrefix(explicit, dir) /\ Importable(dir)}

ResolveProject(host, ctx, option) ==
    IF option # {} THEN ExplicitProject(host, ctx, Only(option))
                   ELSE DescriptorPath(ctx, "project_path")

ResolveConfiguration(ctx, option) ==
    Only(OrElse(option, OrElse(Configured(ctx, "default_configuration"), {<<"Debug">>})))

ResolveAllConfigurations(ctx, option) ==
    Only(OrElse(option, OrElse(Configured(ctx, "modify_all_configurations"), {FALSE})))

\* A configured workspace inside the project is refused; the default lies in the
\* user's cache, outside every project.
WorkspaceRaises(ctx, project) ==
    \E workspace \in DescriptorPath(ctx, "workspace") : IsPrefix(project, workspace)

\* run_headless_build wants the script beside CubeIDE; from_environment never sets
\* the path that would override it.
ResolveHeadless(host, ctx) ==
    LET install == {IF IsDir(host, path) THEN path ELSE Front(path) :
                        path \in ctx.tools["cubeide"]}
    IN  {dir \o HeadlessScript : dir \in install} \cap host.files

-----------------------------------------------------------------------------
(* find_project: .cproject files at most two levels down, not in hidden    *)
(* directories; by name, exact before similar.                             *)

Walk(host, root) ==
    {Front(f) : f \in {f \in host.files :
        /\ IsPrefix(root, f) /\ Len(f) \in Len(root) + 1 .. Len(root) + 3
        /\ Last(f) = SettingsFile[1]
        /\ \A i \in Len(root) + 1 .. Len(f) - 1 : f[i] \notin Hidden}}

\* A project's name is a sequence of words; one without a .project that says is
\* named for its directory.
ProjectName(host, dir) ==
    IF dir \in DOMAIN host.names THEN host.names[dir] ELSE <<Last(dir)>>

Similar(name, other) ==
    \E i \in 0..Len(other) - Len(name) : SubSeq(other, i + 1, i + Len(name)) = name

\* One candidate needs no choice; several need the callback's, among them.
Pick(candidates, answer) ==
    IF Cardinality(candidates) = 1 THEN candidates ELSE candidates \cap answer

\* Several exact matches need none: the first of the sorted paths is taken, here
\* any of them.
PickNamed(host, candidates, name, answer) ==
    LET exact == {dir \in candidates : ProjectName(host, dir) = name}
    IN  IF exact # {}
          THEN exact
          ELSE Pick({dir \in candidates : Similar(name, ProjectName(host, dir))}, answer)

SearchRoot(host, ctx, folder) ==
    IF folder = {} THEN ctx.cwd ELSE Coerce(Only(folder), host.cwd)

Discover(host, ctx, search, answer) ==
    LET candidates == Walk(host, SearchRoot(host, ctx, search.folder))
    IN  IF search.name = {}
          THEN Pick(candidates, answer)
          ELSE PickNamed(host, candidates, Only(search.name), answer)

-----------------------------------------------------------------------------
(* Calls.  The command line's have no callbacks.                           *)

NoCall ==
    [via |-> "api", args |-> [project |-> {}, tools |-> {}, defaults |-> {}],
     search |-> {}, project |-> {}, configuration |-> {}, all |-> {},
     preset |-> {}, debug_level |-> {}, optimization |-> {},
     symbols |-> <<>>, includes |-> <<>>, libraries |-> <<>>, sources |-> <<>>,
     on_ambiguous |-> {}, on_conflict |-> {}, on_existing |-> {}]

\* --all-configs can only be said, not denied.
CommonKwargs(line) ==
    [NoCall EXCEPT !.via = "cli", !.project = line.project, !.configuration = line.config,
                   !.all = IF line.all_configs THEN {TRUE} ELSE {}]

\* --target pairs each source with one and the same destination.
AddedSources(line) ==
    [i \in DOMAIN line.items |->
        [from |-> line.items[i],
         to |-> IF line.target # {} THEN Only(line.target)
                ELSE [absolute |-> FALSE, names |-> <<Last(line.items[i])>>]]]

CallOf(line) ==
    CASE line.action = "build" ->
            [CommonKwargs(line) EXCEPT !.preset = line.preset, !.debug_level = line.debug_level,
                                       !.optimization = line.optimization]
      [] line.action = "add-symbol" -> [CommonKwargs(line) EXCEPT !.symbols = line.items]
      [] line.action = "add-lib" -> [CommonKwargs(line) EXCEPT !.libraries = line.items]
      [] line.action = "add-include" -> [CommonKwargs(line) EXCEPT !.includes = line.items]
      [] line.action = "add-source" -> [CommonKwargs(line) EXCEPT !.sources = AddedSources(line)]
      [] line.action \in {"in-folder", "named"} ->
            [NoCall EXCEPT !.via = "cli", !.search = {[folder |-> line.folder, name |-> line.name]},
                           !.configuration = line.config]
=============================================================================
