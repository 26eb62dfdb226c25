-------------------------- MODULE MCCProjectEdits ---------------------------
(* Model-checking instance of CProjectEdits: a directory with three         *)
(* projects and one too deep, one hidden; machines that lack a tool, or a   *)
(* valid file; and calls in Python and on the command line.                 *)
EXTENDS CProjectEdits

MCText == STRING

Rel(names) == [absolute |-> FALSE, names |-> names]

App == <<"w", "app">>
Boot == <<"w", "m4", "boot">>
Twin == <<"w", "m7", "boot">>
Deep == <<"w", "a", "b", "c">>
Secret == <<"w", ".trash", "old">>
Inner == <<"w", "app", "inner">>
Projects == {App, Boot, Twin, Deep, Secret}
Ide == <<"opt", "stm32cubeide">>

Descriptor ==
    [project_path |-> {Rel(<<"app">>)}, workspace |-> {}, default_configuration |-> {},
     modify_all_configurations |-> {}, device_family |-> {"STM32F4"}]

NoTools == [candidates |-> [t \in {"cubeide"} |-> <<>>], serial |-> {}]

Bench ==
    [supported |-> TRUE, cwd |-> <<"w">>, serial |-> {},
     files |-> UNION {{p \o EclipseFile, p \o SettingsFile} : p \in Projects}
        \cup {<<"w">> \o DescriptorFile, <<"w">> \o ToolsFiles[1], <<"w", "new.c">>, <<"w", "other.c">>,
              App \o <<"main.c">>, Ide \o <<"stm32cubeide">>, Ide \o HeadlessScript},
     defaults |-> {},
     descriptors |-> (<<"w">> \o DescriptorFile) :> Descriptor,
     tooling |-> (<<"w">> \o ToolsFiles[1]) :>
        [candidates |-> [t \in {"cubeide"} |-> << <<"gone">>, Ide >>], serial |-> {"sn"}],
     pins |-> [t \in {"cubeide"} |-> {}], which |-> [t \in {"cubeide"} |-> {}],
     names |-> (App :> <<"blinky">>) @@ (Twin :> <<"blinky", "boot">>)]

\* The same machine with something amiss.
Unsupported == [Bench EXCEPT !.supported = FALSE]
BadDescriptor == [Bench EXCEPT !.descriptors = <<>>]
BadDefaults == [Bench EXCEPT !.files = @ \cup {DefaultsFile}]
BrokenPin == [Bench EXCEPT !.pins["cubeide"] = {<<"gone">>}]
NoScript == [Bench EXCEPT !.files = @ \ {Ide \o HeadlessScript}]
Nested == [Bench EXCEPT !.descriptors =
              (<<"w">> \o DescriptorFile) :> [Descriptor EXCEPT !.workspace = {Rel(<<"app", "ws">>)}]]
NoImport == [Bench EXCEPT !.files = @ \ {App \o EclipseFile, App \o SettingsFile}]
Above == [Bench EXCEPT !.cwd = <<"w", "a">>, !.files = @ \ {Boot \o EclipseFile}]
\* Machines with a project in another, which cannot be imported, or a descriptor that
\* has every configuration modified.
InnerFiles == {Inner \o EclipseFile, Inner \o SettingsFile}
Wrapped == [Bench EXCEPT !.files = (@ \ {App \o EclipseFile}) \cup InnerFiles,
                         !.descriptors = (<<"w">> \o DescriptorFile) :>
                            [Descriptor EXCEPT !.project_path = {Rel(<<"app", "inner">>)}]]
Everywhere == [Bench EXCEPT !.descriptors =
                  (<<"w">> \o DescriptorFile) :> [Descriptor EXCEPT !.modify_all_configurations = {TRUE}]]
Ailing == {Unsupported, BadDescriptor, BadDefaults, BrokenPin, NoScript, Nested,
           NoImport, Above}
MCHosts == {Bench, Wrapped, Everywhere} \cup Ailing

-----------------------------------------------------------------------------
Option(class, list) == [class |-> class, value |-> "as it was", list |-> list]
L(value) == <<"LEVEL", value>>

Debug(c, cpp) ==
    [name |-> <<"Debug">>, excluding |-> {<<"sub", "new.c">>, <<"main.c">>},
     options |-> <<Option("compiler.option.optimization.level", <<>>),
                   Option("compiler.option.debuglevel", <<>>),
                   Option(Symbols, c), Option(Symbols, cpp),
                   Option("linker.option.libraries", <<>>),
                   Option("linker.option.directories", << <<"lib">> >>)>>]
Release(c, fpu) ==
    [name |-> <<"app", "Release">>, excluding |-> {},
     options |-> <<Option("compiler.option.optimization.level", <<>>),
                   Option("compiler.option.debuglevel", <<>>),
                   Option("linker.option.usenewlibnano", <<>>),
                   Option("linker.option.otherflags", << <<"-flto">> >>),
                   Option(Symbols, c)>>
                \o fpu]
Fpu == <<Option("managedbuild.option.fpu", <<>>), Option("managedbuild.option.floatabi", <<>>)>>

Lists == {<<>>, <<L("1")>>, << <<"USE">>, L("2"), L("3")>>}
Plain == Whole(<<Debug(<<>>, <<>>), Release(<<>>, <<>>)>>)
Varied == {Whole(<<Debug(c, cpp), Release(r, <<>>)>>) : c, cpp, r \in Lists}

AppDocuments(h) ==
    IF h = Bench THEN Varied \cup {Malformed, Whole(<<Debug(<<>>, <<>>), Release(<<>>, Fpu)>>)} ELSE {Plain}

MCDocuments(h) ==
    {[p \in {p \in Projects \cup {Inner} : p \o SettingsFile \in h.files} |-> IF p = App THEN doc ELSE Plain] :
        doc \in AppDocuments(h)}

-----------------------------------------------------------------------------
Line == [action |-> "build", project |-> {}, config |-> {}, all_configs |-> FALSE, preset |-> {},
         debug_level |-> {}, optimization |-> {}, items |-> <<>>, target |-> {}, folder |-> {}, name |-> {}]
Do(action) == [Line EXCEPT !.action = action]

CommandLines ==
    {[Line EXCEPT !.preset = {p}, !.all_configs = a] : p \in {"fast", "size", "balanced", "tiny"}, a \in BOOLEAN}
    \cup {[Line EXCEPT !.preset = {"fast"}, !.config = {<<"Release">>}],
          [Line EXCEPT !.preset = {"size"}, !.optimization = {"-O2"}],
          [Line EXCEPT !.debug_level = {"-g3"}, !.optimization = {"g9"}],
          [Line EXCEPT !.debug_level = {"-g3"}, !.optimization = {"-O2"}, !.config = {<<"none">>}]}
    \cup {[Do("add-symbol") EXCEPT !.items = <<L("1")>>, !.project = p, !.all_configs = a] :
             p \in {{}, {Rel(<<>>)}, {Rel(<<"app">>)}, {Rel(<<"m7">>)}, {Rel(<<"gone">>)}}, a \in BOOLEAN}
    \cup {[Do("add-symbol") EXCEPT !.items = << <<"", "1">> >>],
          [Do("add-lib") EXCEPT !.items = << <<"lib", "libdsp.a">>, <<"libm.a">> >>],
          [Do("add-include") EXCEPT !.items = << <<"inc">> >>]}
    \cup {[Do("add-source") EXCEPT !.items = << <<"w", "new.c">>, <<"w", "other.c">> >>, !.target = t] :
             t \in {{}, {Rel(<<"main.c">>)}, {Rel(<<"new">>)}, {Rel(<<"main.c", "sub">>)}}}
    \cup {[Do("in-folder") EXCEPT !.folder = f] : f \in {{}, {Rel(<<"m4">>)}, {Rel(<<"a">>)}}}
    \cup {[Do("named") EXCEPT !.name = {n}] : n \in {<<"blinky">>, <<"boot">>, <<"none">>}}

SymbolCalls ==
    {[NoCall EXCEPT !.symbols = s, !.all = a, !.on_conflict = d] :
        s \in {<<L("1")>>, <<L("2"), L("1")>>}, a \in {{}, {TRUE}},
        d \in {{}, {"replace"}, {"skip"}, {"abort"}, {"invalid"}}}

SourceCalls ==
    {[NoCall EXCEPT !.sources = <<[from |-> f, to |-> Rel(t)]>>, !.on_existing = d] :
        f \in {<<"w", "new.c">>, <<"w", "gone.c">>}, t \in {<<"main.c">>, <<"sub", "new.c">>},
        d \in {{}, {"replace"}, {"skip"}, {"rename"}, {"invalid"}}}

\* A file copied on from where it has just been put.
ChainedCalls ==
    {[NoCall EXCEPT !.sources = <<[from |-> <<"w", "new.c">>, to |-> Rel(<<"sub", "new.c">>)],
                                  [from |-> App \o <<"sub", "new.c">>, to |-> Rel(<<"sub", "other.c">>)]>>,
                    !.on_existing = d] : d \in {{}, {"replace"}}}

SearchCalls ==
    {[NoCall EXCEPT !.search = {[folder |-> {}, name |-> n]}, !.on_ambiguous = a, !.symbols = <<L("3")>>] :
        n \in {{}, {<<"blinky">>}, {<<"boot">>}}, a \in {{}, {Boot}, {<<"elsewhere">>}}}

BenchCalls == {CallOf(line) : line \in CommandLines} \cup SymbolCalls \cup SourceCalls \cup ChainedCalls
              \cup SearchCalls

MCCallsOn(h) ==
    CASE h = Bench -> BenchCalls
      [] h = Wrapped -> SearchCalls
      [] OTHER -> {CallOf([Do("add-symbol") EXCEPT !.items = <<L("1")>>, !.project = p]) : p \in {{}, {Rel(<<"app">>)}}}
           \cup {[NoCall EXCEPT !.args.project = p, !.symbols = <<L("1")>>] :
                    p \in {{Rel(<<"gone">>)}, {Rel(DescriptorFile)}}}
           \cup {[NoCall EXCEPT !.args[k] = {Rel(f)}, !.symbols = <<L("1")>>] :
                    k \in {"tools", "defaults"}, f \in {<<"gone">>, <<"new.c">>}}

MCNumbered == "main.c" :> <<"main-1.c">> @@ "new.c" :> <<"new-1.c">>
=============================================================================
