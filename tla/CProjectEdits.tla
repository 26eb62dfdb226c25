--------------------------- MODULE CProjectEdits ---------------------------
(***************************************************************************)
(* The settings edits of CubeIDE.build (cubeide/client.py, cproject.py,    *)
(* presets.py): one caller, in Python or on the command line, whose call   *)
(* is resolved to a project, edits the option lists of its .cproject in    *)
(* memory, asking back about symbols and files that exist, writes the file *)
(* or rolls it back, and builds; then perhaps makes the same call again.   *)
(*                                                                         *)
(* CubeIDEBuild has the same protocol among several builds, with an edit   *)
(* reduced to its build's mark; here is what the edits do.                 *)
(***************************************************************************)
EXTENDS Configuration

CONSTANTS
    Hosts,        \* the machines a call may run on
    CallsOn(_),   \* the calls made on a host
    Documents(_), \* what a host's projects may have in .cproject
    Text,         \* the strings
    FullyFormed,  \* CDT enum values a caller spells out
    Numbered,     \* the numbered siblings of a file's name, for "rename"
    MaxCalls,     \* bound: times the call is made
    MaxFaults     \* bound: failed copies and writes, lost backups, Ctrl-Cs

\* What the values are.  A name cut into words has at least one.
Path == Seq(Text)
Words == Seq(Text) \ {<<>>}
PathArgument == [absolute : BOOLEAN, names : Path]
AtMostOne(option) == \A x, y \in option : x = y
ProjectDescriptor ==
    [project_path : SUBSET PathArgument, workspace : SUBSET PathArgument,
     default_configuration : SUBSET Words, modify_all_configurations : SUBSET BOOLEAN,
     device_family : SUBSET Text]
OptionElement == [class : Text, value : Text, list : Seq(Path)]
ConfigElement == [name : Words, excluding : SUBSET Path, options : Seq(OptionElement)]
Document == [state : {"whole", "torn", "malformed"}, configs : Seq(ConfigElement)]

\* The strings of the tables below, and the default configuration's name, are some of
\* them.
Literals ==
    {"compiler.option.optimization.level", "compiler.option.debuglevel", "compiler.option.otherflags",
     "linker.option.otherflags", "linker.option.usenewlibnano", "managedbuild.option.fpu",
     "managedbuild.option.floatabi", "compiler.option.definedsymbols", "compiler.option.includepaths",
     "linker.option.directories", "linker.option.libraries", "",
     "most", "g1", "size",
     "true", "more", "g3",
     "hard", "fpv5-d16", "fpv4-sp-d16",
     "gnone", "g2", "none",
     "optimize", "debug", "ofast",
     "oz", "-flto", "-Wl,--gc-sections",
     ".cproject", "Debug"}

ASSUME TextAssumption == Literals \subseteq Text

ASSUME HostsAssumption ==
    \A h \in Hosts :
        /\ {"cwd", "files", "names", "descriptors"} \subseteq DOMAIN h
        /\ h.cwd \in Path /\ h.files \subseteq Path \ {<<>>} /\ IsFiniteSet(h.files)
        /\ h.names \in [DOMAIN h.names -> Words]
        /\ h.descriptors \in [DOMAIN h.descriptors -> ProjectDescriptor]

ASSUME CallsAssumption ==
    \A h \in Hosts : \A c \in CallsOn(h) :
        /\ \A search \in c.search :
              /\ search.folder \subseteq PathArgument
              /\ search.name \subseteq Words /\ AtMostOne(search.name)
        /\ c.args.project \cup c.project \subseteq PathArgument /\ c.configuration \subseteq Words
        /\ c.preset \cup c.debug_level \cup c.optimization \subseteq Text
        /\ c.all \subseteq BOOLEAN
        /\ c.symbols \in Seq(Words) /\ c.includes \in Seq(Path) /\ c.libraries \in Seq(Words)
        /\ c.sources \in Seq([from : Path, to : PathArgument])

\* The projects are the directories that have the file.
ASSUME DocumentsAssumption ==
    \A h \in Hosts : \A documents \in Documents(h) :
        /\ documents \in [DOMAIN documents -> Document]
        /\ \A p \in DOMAIN documents : p \in Path /\ p \o SettingsFile \in h.files

ASSUME NumberedAssumption == Numbered \in [DOMAIN Numbered -> Path]

VARIABLES
    host,         \* the machine
    call,         \* the call made
    pc,           \* where it is, or how it ended
    context,      \* the SubstrateContext
    target,       \* the project, configuration and scope it resolved to
    tree,         \* the editor's parsed document
    todo,         \* option edits still to make
    asking,       \* entries on_conflict is still to decide about
    copies,       \* sources still to add
    settings,     \* each project's .cproject
    backup,       \* the editor's copy of it
    content,      \* each file's origin: itself, or the source it was copied from
    built,        \* what the headless tool was told to build
    made, faults, \* bounds
    told,         \* history: what on_conflict was asked and said
    before,       \* history: settings and content when the call began
    earlier       \* history: what the previous call resolved to, if it succeeded

world == <<host, content, settings>>
history == <<told, before, earlier>>
editor == <<tree, todo, asking, copies, backup>>
vars == <<world, history, editor, call, pc, context, target, built, made, faults>>

\* unread: a raw error after the file was written; unrestored: a failed rollback.
Ended == {"result", "substrate_error", "other_error", "unread", "interrupted", "unrestored"}
Whole(configs) == [state |-> "whole", configs |-> configs]
Torn == [state |-> "torn", configs |-> <<>>]
Malformed == [state |-> "malformed", configs |-> <<>>]

Host == [host EXCEPT !.files = DOMAIN content]

-----------------------------------------------------------------------------
(* The option edits a call asks for, in the order they are made.           *)

Edit(kind, class, value, entry) ==
    [kind |-> kind, class |-> class, value |-> value, entry |-> entry]
SetOption(class, value) == Edit("set_value", class, value, <<>>)
SetSoft(class, value) == Edit("set_value_soft", class, value, <<>>)
AppendTo(class, entry) == Edit("append_list", class, "", entry)
RemoveFrom(class, entry) == Edit("remove_list", class, "", entry)

Symbols == "compiler.option.definedsymbols"
AddSymbol(entry) == Edit("add_symbol", Symbols, "", entry)

Presets ==
    [preset \in {"fast", "size", "balanced"} |->
        CASE preset = "fast" ->
                <<SetOption("compiler.option.optimization.level", "most"),
                  SetOption("compiler.option.debuglevel", "g1"),
                  AppendTo("compiler.option.otherflags", <<"-flto">>),
                  AppendTo("linker.option.otherflags", <<"-flto">>)>>
          [] preset = "size" ->
                <<SetOption("compiler.option.optimization.level", "size"),
                  SetOption("compiler.option.debuglevel", "g1"),
                  AppendTo("linker.option.otherflags", <<"-Wl,--gc-sections">>),
                  SetSoft("linker.option.usenewlibnano", "true")>>
          [] preset = "balanced" ->
                <<SetOption("compiler.option.optimization.level", "more"),
                  SetOption("compiler.option.debuglevel", "g3")>>]

\* A family stands for the longest prefix of it in the table; others have no FPU.
FamilyFpu ==
    [family \in {"STM32F3", "STM32F4", "STM32F7", "STM32H7", "STM32L4"} |->
        IF family \in {"STM32F7", "STM32H7"} THEN "fpv5-d16" ELSE "fpv4-sp-d16"]

FpuOps(families) ==
    IF families \cap DOMAIN FamilyFpu = {}
      THEN <<>>
      ELSE <<SetOption("managedbuild.option.fpu", FamilyFpu[Only(families \cap DOMAIN FamilyFpu)]),
             SetOption("managedbuild.option.floatabi", "hard")>>

PresetOps(preset, families) ==
    CASE preset \notin DOMAIN Presets -> <<Edit("unknown_preset", "", "", <<>>)>>
      [] preset = "fast" -> Presets[preset] \o FpuOps(families)
      [] OTHER -> Presets[preset]

DebugLevels ==
    [level \in {"none", "-g1", "-g", "-g3"} |->
        CASE level = "none" -> "gnone" [] level = "-g1" -> "g1"
          [] level = "-g" -> "g2" [] level = "-g3" -> "g3"]
Optimizations ==
    [level \in {"-O0", "-O1", "-O2", "-O3", "-Og", "-Os", "-Ofast", "-Oz"} |->
        CASE level = "-O0" -> "none" [] level = "-O1" -> "optimize" [] level = "-O2" -> "more"
          [] level = "-O3" -> "most" [] level = "-Og" -> "debug" [] level = "-Os" -> "size"
          [] level = "-Ofast" -> "ofast" [] level = "-Oz" -> "oz"]

SetAlias(class, option, aliases) ==
    IF option = {}
      THEN <<>>
      ELSE LET v == Only(option)
           IN  <<SetOption(class, IF v \in DOMAIN aliases THEN aliases[v] ELSE v)>>

\* A library's directory, unless it is the current one, and the library.
LibraryOps(lib) ==
    (IF Len(lib) = 1 THEN <<>> ELSE <<AppendTo("linker.option.directories", Front(lib))>>)
        \o <<AppendTo("linker.option.libraries", <<Last(lib)>>)>>

Ops(c, ctx) ==
    (IF c.preset = {} THEN <<>>
     ELSE PresetOps(Only(c.preset), Configured(ctx, "device_family")))
    \o SetAlias("compiler.option.debuglevel", c.debug_level, DebugLevels)
    \o SetAlias("compiler.option.optimization.level", c.optimization, Optimizations)
    \o [i \in DOMAIN c.symbols |-> AddSymbol(c.symbols[i])]
    \o [i \in DOMAIN c.includes |-> AppendTo("compiler.option.includepaths", c.includes[i])]
    \o FlattenSeq([i \in DOMAIN c.libraries |-> LibraryOps(c.libraries[i])])

EditsRequested(c) ==
    \/ c.preset \cup c.debug_level \cup c.optimization # {}
    \/ \E list \in {c.symbols, c.includes, c.libraries} : list # <<>>
    \/ c.sources # <<>>

\* A preset excludes the options it sets; aliases must be known.
KwargsRaise(c) ==
    \/ c.preset # {} /\ c.debug_level \cup c.optimization # {}
    \/ ~(c.debug_level \subseteq DOMAIN DebugLevels \cup FullyFormed)
    \/ ~(c.optimization \subseteq DOMAIN Optimizations \cup FullyFormed)

-----------------------------------------------------------------------------
(* The document: configurations, in each the options there are, of the C   *)
(* compiler, the C++ compiler and the linker, in document order.           *)

\* A configuration's name is a sequence of words; its last ones name it too.
EveryScope(config) == TRUE                    \* mutant: the name is ignored
Scope(config) == target.all \/ IsSuffix(target.configuration, config.name)

AppendedAgain(list, entry) == Append(list, entry)      \* mutant: no dedupe
Appended(list, entry) == IF Contains(list, entry) THEN list ELSE Append(list, entry)
Removed(list, entry) ==
    FlattenSeq([i \in DOMAIN list |-> IF list[i] = entry THEN <<>> ELSE <<list[i]>>])

EditedOption(option, op) ==
    IF op.class # option.class
      THEN option
      ELSE CASE op.kind \in {"set_value", "set_value_soft"} -> [option EXCEPT !.value = op.value]
             [] op.kind \in {"append_list", "add_symbol"} ->
                   [option EXCEPT !.list = Appended(option.list, op.entry)]
             [] op.kind = "remove_list" -> [option EXCEPT !.list = Removed(option.list, op.entry)]

EditedConfig(config, op) ==
    [config EXCEPT !.options = [i \in DOMAIN config.options |-> EditedOption(config.options[i], op)]]

Edited(configs, op) ==
    [i \in DOMAIN configs |->
        IF Scope(configs[i]) THEN EditedConfig(configs[i], op) ELSE configs[i]]

\* The options of a configuration an edit is about, and the configurations that have
\* some.
About(config, op) == {j \in DOMAIN config.options : config.options[j].class = op.class}
Matched(configs, op) == {i \in DOMAIN configs : Scope(configs[i]) /\ About(configs[i], op) # {}}

\* change.old_value: the list of the option matched last, in document order.
OldValue(configs, op) ==
    LET last == configs[Max(Matched(configs, op))]
    IN  IF Matched(configs, op) = {} THEN <<>> ELSE last.options[Max(About(last, op))].list

\* A symbol is its name, and its value if it has one.
Conflicting(existing, symbol) == existing # symbol /\ Head(existing) = Head(symbol)
Conflicts(old, symbol) ==
    FlattenSeq([i \in DOMAIN old |-> IF Conflicting(old[i], symbol) THEN <<old[i]>> ELSE <<>>])

\* The exclusions of every configuration are searched, whatever the scope.
Unexcluded(configs, name) ==
    [i \in DOMAIN configs |->
        [configs[i] EXCEPT !.excluding = {path \in @ : Last(path) # name}]]

-----------------------------------------------------------------------------
(* A call.                                                                 *)

NoContext == [cwd |-> <<>>, project |-> {}, tools |-> [t \in Tools |-> {}], default_probe_sn |-> {}]
NoTarget == [project |-> <<>>, configuration |-> <<>>, all |-> FALSE]

EditsInit ==
    /\ host \in Hosts /\ call \in CallsOn(host)
    /\ settings \in Documents(host)
    /\ content = [f \in host.files |-> f]
    /\ pc = "load" /\ context = NoContext /\ target = NoTarget
    /\ tree = <<>> /\ todo = <<>> /\ asking = <<>> /\ copies = <<>> /\ backup = {}
    /\ built = {} /\ made = 1 /\ faults = 0
    /\ told = {} /\ earlier = {}
    /\ before = [settings |-> settings, content |-> content]

Goto(where) == pc' = where
Fault == faults < MaxFaults /\ faults' = faults + 1

resolved == <<target, built>>

\* SubstrateContext.from_environment.
Load ==
    /\ pc = "load"
    /\ IF ContextRaises(Host, call.args)
         THEN Goto("substrate_error") /\ UNCHANGED context
         ELSE Goto("resolve") /\ context' = FromEnvironment(Host, call.args)
    /\ UNCHANGED <<world, history, editor, call, target, built, made, faults>>

\* What build() is told: find_project's choice, or the project argument.
Explicit(names) == [absolute |-> TRUE, names |-> names]
ProjectArguments ==
    IF call.search = {}
      THEN {call.project}
      ELSE {{Explicit(dir)} :
               dir \in Discover(Host, context, Only(call.search), call.on_ambiguous)}

\* A symbol without a name fails in the command line's own handler.
Nameless == call.via = "cli" /\ \E i \in DOMAIN call.symbols : Head(call.symbols[i]) = ""

\* The arguments are looked at before the project is; nothing is touched before
\* both are settled.
Resolve ==
    /\ pc = "resolve"
    /\ \/ Nameless /\ Goto("other_error") /\ UNCHANGED target
       \/ ~Nameless /\ ProjectArguments = {} /\ Goto("substrate_error") /\ UNCHANGED target
       \/ ~Nameless /\ ProjectArguments # {} /\ KwargsRaise(call) /\ Goto("other_error") /\ UNCHANGED target
       \/ /\ ~Nameless /\ ~KwargsRaise(call)
          /\ \E argument \in ProjectArguments :
               LET project == ResolveProject(Host, context, argument)
               IN  IF project = {} \/ WorkspaceRaises(context, Only(project))
                     THEN Goto("substrate_error") /\ UNCHANGED target
                     ELSE /\ target' = [project |-> Only(project),
                                        configuration |-> ResolveConfiguration(context, call.configuration),
                                        all |-> ResolveAllConfigurations(context, call.all)]
                          /\ Goto(IF EditsRequested(call) THEN "snapshot" ELSE "build")
    /\ UNCHANGED <<world, history, editor, call, context, built, made, faults>>

\* The constructor wants the file; the copy may fail; then the file is parsed, and an
\* OSError of reading it is not caught.  None of it is inside the try statement.
Snapshot ==
    /\ pc = "snapshot"
    /\ \/ /\ target.project \notin DOMAIN settings
          /\ Goto("substrate_error") /\ UNCHANGED <<editor, faults>>
       \/ /\ target.project \in DOMAIN settings
          /\ Fault /\ (Goto("substrate_error") \/ Goto("other_error")) /\ UNCHANGED editor
       \/ /\ target.project \in DOMAIN settings
          /\ backup' = {settings[target.project]}
          /\ IF settings[target.project].state # "whole"
               THEN Goto("substrate_error") /\ UNCHANGED <<tree, todo, asking, copies>>
               ELSE /\ tree' = settings[target.project].configs
                    /\ todo' = Ops(call, context) /\ copies' = call.sources /\ asking' = <<>>
                    /\ Goto("edit")
          /\ UNCHANGED faults
    /\ UNCHANGED <<world, history, call, context, resolved, made>>

-----------------------------------------------------------------------------
(* The edits, in memory.                                                   *)

\* _edit_option: no configuration in scope, or no option to set, is an error; no
\* list to append to is not.
Impossible(op) ==
    \/ \A i \in DOMAIN tree : ~Scope(tree[i])
    \/ op.kind = "set_value" /\ Matched(tree, op) = {}

EditOption ==
    /\ pc = "edit" /\ todo # <<>>
    /\ LET op == Head(todo) IN
       \/ /\ op.kind = "unknown_preset" /\ Goto("other_error")
          /\ UNCHANGED <<tree, todo, asking>>
       \/ /\ op.kind # "unknown_preset" /\ Impossible(op) /\ Goto("rollback")
          /\ UNCHANGED <<tree, todo, asking>>
       \/ /\ op.kind # "unknown_preset" /\ ~Impossible(op)
          /\ tree' = Edited(tree, op)
          /\ asking' = IF op.kind = "add_symbol" THEN Conflicts(OldValue(tree, op), op.entry) ELSE <<>>
          /\ IF asking' = <<>> THEN Goto("edit") /\ todo' = Tail(todo)
                               ELSE Goto("decide") /\ UNCHANGED todo
    /\ UNCHANGED <<world, history, call, context, resolved, made, faults, copies, backup>>

\* _resolve_symbol_conflict: one question for each entry of the list; replace drops
\* that entry, skip the requested one, in every configuration of the scope.
Decided(removed) ==
    /\ tree' = Edited(tree, RemoveFrom(Symbols, removed))
    /\ asking' = Tail(asking)
    /\ IF asking' = <<>> THEN Goto("edit") /\ todo' = Tail(todo)
                         ELSE Goto("decide") /\ UNCHANGED todo

Decide ==
    /\ pc = "decide"
    /\ LET existing == Head(asking)
           requested == Head(todo).entry
       IN  /\ told' = told \cup {[existing |-> existing, requested |-> requested]}
           /\ \/ call.on_conflict = {"replace"} /\ Decided(existing)
              \/ call.on_conflict = {"skip"} /\ Decided(requested)
              \/ call.on_conflict \in {{}, {"abort"}} /\ Goto("rollback") /\ UNCHANGED <<tree, todo, asking>>
              \/ call.on_conflict = {"invalid"} /\ Goto("other_error") /\ UNCHANGED <<tree, todo, asking>>
    /\ UNCHANGED <<world, before, earlier, call, context, resolved, made, faults, copies, backup>>

-----------------------------------------------------------------------------
(* Sources are copied at once, one by one, before .cproject is written.    *)

Destination(copy) == Coerce(copy.to, target.project)
Taken(path) == Exists(Host, path)

Sibling(path, i) == Append(Front(path), Numbered[Last(path)][i])
FreeNumbers(path) ==
    IF Last(path) \in DOMAIN Numbered
      THEN {i \in DOMAIN Numbered[Last(path)] : ~Taken(Sibling(path, i))}
      ELSE {}

\* on_existing: an existing destination without a callback is an error.
Refuses(path) == Taken(path) /\ call.on_existing = {}
Skips(path) == Taken(path) /\ call.on_existing = {"skip"}
Renames(path) == Taken(path) /\ call.on_existing = {"rename"}

Placed(path) == IF Renames(path) THEN Sibling(path, Min(FreeNumbers(path))) ELSE path

\* shutil.copy2 puts the file into a destination that is a directory.
CopyTo(from, path) ==
    LET place == IF IsDir(Host, path) THEN Append(path, Last(from)) ELSE path
    IN  content' = [f \in DOMAIN content \cup {place} |-> content[IF f = place THEN from ELSE f]]

CannotCopy(from, path) ==
    from \notin DOMAIN content \/ \E f \in DOMAIN content : IsStrictPrefix(f, path)

AddSource ==
    /\ pc = "edit" /\ todo = <<>> /\ copies # <<>>
    /\ LET copy == Head(copies)
           path == Destination(copy)
       IN  \/ /\ Skips(path)
              /\ copies' = Tail(copies) /\ UNCHANGED <<pc, content, tree, faults>>
           \/ /\ Refuses(path) \/ (Renames(path) /\ FreeNumbers(path) = {})
              /\ Goto("rollback") /\ UNCHANGED <<copies, content, tree, faults>>
           \/ /\ Taken(path) /\ call.on_existing = {"invalid"}
              /\ Goto("other_error") /\ UNCHANGED <<copies, content, tree, faults>>
           \/ /\ Taken(path) => call.on_existing = {"replace"} \/ (Renames(path) /\ FreeNumbers(path) # {})
              /\ IF CannotCopy(copy.from, Placed(path))
                   THEN Goto("rollback") /\ UNCHANGED <<copies, content, tree, faults>>
                   ELSE \/ Fault /\ Goto("rollback") /\ UNCHANGED <<copies, content, tree>>
                        \/ /\ CopyTo(copy.from, Placed(path))
                           /\ tree' = Unexcluded(tree, Last(Placed(path)))
                           /\ copies' = Tail(copies) /\ UNCHANGED <<pc, faults>>
    /\ UNCHANGED <<host, settings, history, call, context, resolved, made, todo, asking, backup>>

-----------------------------------------------------------------------------
(* Writing, rollback and the build.                                        *)

Saves(doc) == settings' = [settings EXCEPT ![target.project] = doc]
Unhandled == Goto("substrate_error")          \* mutant: raised past the rollback
Failed == Goto("rollback")

\* The backup is read for its prolog first: an OSError there is not caught.
Write ==
    /\ pc = "edit" /\ todo = <<>> /\ copies = <<>>
    /\ \/ Fault /\ Goto("other_error") /\ UNCHANGED settings
       \/ Saves(Torn) /\ Goto("writing") /\ UNCHANGED faults
    /\ UNCHANGED <<host, content, history, editor, call, context, resolved, made>>

\* A failed write or a file that is not well-formed is a CProjectEditError; an OSError
\* of reading back the file, whole by then, passes every handler.
Written ==
    /\ pc = "writing"
    /\ \/ Fault /\ Failed /\ UNCHANGED settings
       \/ Fault /\ Saves(Whole(tree)) /\ Goto("unread")
       \/ Saves(Whole(tree)) /\ Goto("build") /\ UNCHANGED faults
    /\ UNCHANGED <<host, content, history, editor, call, context, resolved, made>>

\* Without its backup rollback warns and the caller raises; with it, the copy may
\* fail again.
Rollback ==
    /\ pc = "rollback"
    /\ \/ Fault /\ Goto("unrestored") /\ UNCHANGED settings
       \/ Saves(Torn) /\ Goto("restoring") /\ UNCHANGED faults
    /\ UNCHANGED <<host, content, history, editor, call, context, resolved, made>>

Restored ==
    /\ pc = "restoring"
    /\ \/ Fault /\ Goto("unrestored") /\ UNCHANGED settings
       \/ Saves(Only(backup)) /\ Goto("substrate_error") /\ UNCHANGED faults
    /\ UNCHANGED <<host, content, history, editor, call, context, resolved, made>>

\* The tool's path is looked for after the edits; a tool that runs returns a result,
\* be it a failed build, or is stopped at its deadline.
Build ==
    /\ pc = "build"
    /\ IF ResolveHeadless(Host, context) = {}
         THEN Goto("substrate_error") /\ UNCHANGED built
         ELSE /\ built' = built \cup {[project |-> target.project, configuration |-> target.configuration]}
              /\ Goto("result") \/ Goto("substrate_error")
    /\ UNCHANGED <<world, history, editor, call, context, target, made, faults>>

\* A Ctrl-C passes every handler.
Interrupt ==
    /\ pc \notin Ended /\ Fault /\ Goto("interrupted")
    /\ UNCHANGED <<world, history, editor, call, context, resolved, made>>

\* The same call once more.
Again ==
    /\ pc \in Ended /\ made < MaxCalls
    /\ made' = made + 1 /\ Goto("load")
    /\ earlier' = IF pc = "result" THEN {[context |-> context, target |-> target]} ELSE {}
    /\ before' = [settings |-> settings, content |-> content]
    /\ told' = {} /\ backup' = {} /\ target' = NoTarget /\ built' = {} /\ context' = NoContext
    /\ tree' = <<>> /\ todo' = <<>> /\ asking' = <<>> /\ copies' = <<>>
    /\ UNCHANGED <<world, call, faults>>

EditsNext ==
    \/ Load \/ Resolve \/ Snapshot \/ EditOption \/ Decide \/ AddSource
    \/ Write \/ Written \/ Rollback \/ Restored \/ Build \/ Interrupt \/ Again

EditsSpec == EditsInit /\ [][EditsNext]_vars

-----------------------------------------------------------------------------
(* Properties.                                                             *)

Old(p) == before.settings[p].configs
New(p) == settings[p].configs
Requested == ToSet(Ops(call, context))
Sets(op) == op.kind \in {"set_value", "set_value_soft"}

\* Entries on_conflict had dropped: replace the existing ones, skip the requested.
Overruled == {IF call.on_conflict = {"replace"} THEN t.existing ELSE t.requested : t \in told}

\* Every edit the call asks for, in every option it is about.
HasEdit(option, op) ==
    op.class = option.class =>
        IF Sets(op) THEN option.value = op.value ELSE op.entry \in ToSet(option.list) \cup Overruled

HasSources(configs) ==
    call.on_existing = {} => \A copy \in ToSet(call.sources) :
        /\ Destination(copy) \in DOMAIN content /\ content[Destination(copy)] = content[copy.from]
        /\ \A config \in ToSet(configs) : \A path \in config.excluding :
              Last(path) # Last(Destination(copy))

HasEdits(configs) ==
    /\ \A config \in ToSet(configs) : Scope(config) =>
          \A option \in ToSet(config.options) : \A op \in Requested : HasEdit(option, op)
    /\ HasSources(configs)

\* A call that is over has made every edit it was asked for, or none: a result comes
\* with all of them, an error with all or with the file as it was, whatever step of
\* copying, editing, writing or restoring failed; only a Ctrl-C, or a rollback that
\* failed itself, leaves anything else.  It is not that every failure is rolled back:
\* an edit stays, whole, when the build fails after it, and when reading back the
\* written file raises an OSError ("unread"), against the docstring of
\* write_and_validate (cproject.py:234-235).
AllOrNothing ==
    pc \in {"result", "substrate_error", "other_error", "unread"} =>
        \/ settings = before.settings /\ ~(pc = "result" /\ EditsRequested(call))
        \/ /\ pc # "other_error" /\ target.project \in DOMAIN settings
           /\ settings[target.project].state = "whole" /\ HasEdits(New(target.project))

\* A project a search can mean: at most two levels down in the folder, of the name,
\* and picked by the caller if others there are as like it and none has just that
\* name.
Nearby(p) ==
    LET root == SearchRoot(host, context, Only(call.search).folder)
    IN  IsPrefix(root, p) /\ Len(p) <= Len(root) + 2

Alike(p) == Nearby(p) /\ \A name \in Only(call.search).name : Similar(name, ProjectName(host, p))

Found(p) ==
    /\ Alike(p)
    /\ \/ Only(call.search).name = {ProjectName(host, p)}
       \/ p \in call.on_ambiguous
       \/ \A q \in DOMAIN settings : Alike(q) => q = p \/ \E i \in DOMAIN q : q[i] \in Hidden

\* A project the caller can mean: the explicit path or one below it, the descriptor's,
\* or what a search finds, for which, too, the descriptor's project may stand that
\* lies below.
Meant(p) ==
    IF call.search = {}
      THEN IF call.project = {}
             THEN p \in DescriptorPath(context, "project_path")
             ELSE IsPrefix(Coerce(Only(call.project), host.cwd), p)
      ELSE \/ Found(p)
           \/ /\ p \in DescriptorPath(context, "project_path")
              /\ \E n \in 0..Len(p) - 1 : Found(SubSeq(p, 1, n))

AllAsked == TRUE \in OrElse(call.all, Configured(context, "modify_all_configurations"))

\* What may change in an option: what the call asks for in its class, and what
\* on_conflict dropped from it.
ChangedAsAsked(old, new) ==
    /\ new.value # old.value => \E op \in Requested : Sets(op) /\ op.class = old.class
    /\ ToSet(old.list) \ ToSet(new.list) \subseteq Overruled
    /\ \A entry \in ToSet(new.list) \ ToSet(old.list) :
          \E op \in Requested : op.class = old.class /\ op.entry = entry

\* A call changes and builds the project its caller means and no other; in it only
\* the configurations asked for, and in them only the options asked for; no entry of
\* a list is lost but by on_conflict's word, no file of the user's but by on_existing's.
OnlyAsked ==
    /\ \A b \in built : Meant(b.project)
    /\ \A p \in DOMAIN settings : settings[p] # before.settings[p] =>
          /\ p = target.project /\ Meant(p)
          /\ settings[p].state = "whole" => \A i \in DOMAIN New(p) :
                LET old == Old(p)[i]
                    new == New(p)[i]
                IN  IF AllAsked \/ Last(old.name) \in ToSet(target.configuration)
                      THEN \A j \in DOMAIN new.options : ChangedAsAsked(old.options[j], new.options[j])
                      ELSE new.options = old.options
    /\ \A f \in DOMAIN before.content :
          content[f] # before.content[f] => call.on_existing = {"replace"}

\* A call that succeeded can be repeated, unless it was told to rename a file or to
\* define one symbol twice: the second time, if it resolves to the same, it leaves
\* every .cproject as it is.
DefinesOnce == \A i, j \in DOMAIN call.symbols :
                   Head(call.symbols[i]) = Head(call.symbols[j]) => i = j

RepeatChangesNothing ==
    (/\ pc = "result" /\ [context |-> context, target |-> target] \in earlier
     /\ call.on_existing # {"rename"} /\ DefinesOnce) =>
        settings = before.settings

\* "A pre-existing entry with the same symbol name but a different value is a
\* conflict: on_conflict decides ...; no callback raises" (client.py:860-864): no
\* such entry in the scope goes unasked by a call that succeeds.
ConflictsAsked ==
    pc = "result" /\ target.project \in DOMAIN settings =>
        \A config \in ToSet(Old(target.project)) : Scope(config) => \A option \in ToSet(config.options) :
            \A symbol \in ToSet(call.symbols) :
                option.class = Symbols => \A existing \in ToSet(Conflicts(option.list, symbol)) :
                    \E t \in told : t.existing = existing
=============================================================================
