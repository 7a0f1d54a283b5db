------------------------------ MODULE Renderer ------------------------------
(***************************************************************************)
(* The files that internal/adapter/gotmpl renders for the contexts of a    *)
(* project under the options o of a configuration: their places, whether   *)
(* they are scaffold-once, what they import, and what their text uses.     *)
(* The text itself is left out, and the layout is the default one.         *)
(*                                                                         *)
(* A directory is the sequence of its names; it is the import path, too,   *)
(* and its last name is the name of the package.  Packages from outside of *)
(* the project are <<path>> where templates name them, and otherwise       *)
(* <<"", selector, path>>.  File names are sequences of words.             *)
(***************************************************************************)
EXTENDS Naturals, Sequences, SequencesExt, FiniteSetsExt, Lists

CONSTANT PathBefore(_, _)   \* the order of paths as strings

\* {context}: the name without a trailing "Context", its words run together.
Slug(name) ==
  LET stem == IF Last(name) = "context" THEN Front(name) ELSE name
  IN  FoldLeft(LAMBDA s, word : s \o word, "", IF stem = <<>> THEN <<"x">> ELSE stem)

Root(c) == <<"internal", Slug(c.name)>>
Domain(c) == Root(c) \o <<"domain">>
PortIn(c, o) == Root(c) \o o.drivingDir
PortOut(c, o) == IF o.repositoryInDomain THEN Domain(c) ELSE Root(c) \o o.drivenDir
UseCases(c) == Root(c) \o <<"app", "usecase">>
Adapters(c, sub) == Root(c) \o <<"adapter">> \o sub

OfClass(c, classes) == Only(c.items, {item \in ToSet(c.items) : item.class \in classes})
NamesOf(c, classes) == {item.name : item \in ToSet(OfClass(c, classes))}

AdapterDir(c, port) ==
  Adapters(c, IF port.kind = "repository" THEN <<"out", "repository">> ELSE <<"out", "gateway">>)
Handlers(c) == Adapters(c, <<"in", "http">>)
-----------------------------------------------------------------------------
(***************************************************************************)
(* Which package a type of the context is in (buildTypeSets).              *)
(***************************************************************************)
Regions(c, o) ==
  <<[dir |-> Domain(c), names |-> NamesOf(c, {"aggregate", "entity", "value", "event", "service"})],
    [dir |-> PortIn(c, o),
     names |-> NamesOf(c, {"in"}) \cup
               UNION {{Append(n, "input"), Append(n, "output")} : n \in NamesOf(c, {"usecase"})}],
    [dir |-> PortOut(c, o), names |-> NamesOf(c, {"out"})]>>

\* What additional-imports knows after mapping: a path that is asked for again
\* is not registered (registerImport), and of one selector the last path counts.
NewPaths(asked) == {i \in DOMAIN asked : \A j \in 1 .. i - 1 : asked[j].path # asked[i].path}
Extern(o, sel) ==
  LET known == {i \in NewPaths(o.imports) : o.imports[i].sel = sel}
  IN  {<<"", sel, o.imports[i].path>> : i \in {k \in known : \A j \in known : j <= k}}

\* The packages of a type: none, or one.
Home(c, o, type) ==
  LET regions == {r \in 1 .. 3 : type.name \in Regions(c, o)[r].names}
  IN  CASE type.sel = "builtin" -> {}
        [] type.sel = "" -> IF regions = {} THEN {} ELSE {Regions(c, o)[Min(regions)].dir}
        [] OTHER -> IF type.import = "" /\ Extern(o, type.sel) # {} THEN Extern(o, type.sel)
                    ELSE {<<"", type.sel, type.import>>}

\* qualify: what a type makes the file of a package import.  Only one prefix
\* is looked through, and no map; packages are compared by name.
Hidden(type) == Len(type.prefix) > 1 \/ type.prefix = <<"map">>

Qualify(c, o, package, type) ==
  CASE Hidden(type) -> {}
    [] ~Hidden(type) /\ type.sel # "" -> IF type.sel = "builtin" THEN {} ELSE Extern(o, type.sel)
    [] OTHER -> {dir \in Home(c, o, type) : Last(dir) # package}

FieldTypes(item) == {item.fields[i].type : i \in DOMAIN item.fields}
MethodTypes(item) ==
  UNION {ToSet(item.methods[i].params) \cup ToSet(item.methods[i].results) : i \in DOMAIN item.methods}
DTOTypes(item) == ToSet(item.input) \cup ToSet(item.output)
-----------------------------------------------------------------------------
(***************************************************************************)
(* The files of a context (renderContext).  `qualified' are the types that *)
(* are qualified for a file, `printed' those that its template prints;     *)
(* `added' are imports that it is given, all of which it uses.             *)
(***************************************************************************)
File(template, dir, base, once) == [template |-> template, path |-> <<dir, base>>, once |-> once]
Depending(file, imports, uses) ==
  [template |-> file.template, path |-> file.path, once |-> file.once, imports |-> imports, uses |-> uses]

Go(c, o, file, qualified, printed, added) ==
  LET dir == Head(file.path)
  IN  Depending(file, added \cup UNION {Qualify(c, o, Last(dir), type) : type \in qualified},
                (added \cup UNION {Home(c, o, type) : type \in printed}) \ {dir})

Struct(c, o, template, item) ==
  Go(c, o, File(template, Domain(c), item.name, FALSE), FieldTypes(item), FieldTypes(item), {})
\* The first two templates of an aggregate print no import but their own.
Factory(c, o, item) == Go(c, o, File("factory", Domain(c), Append(item.name, "factory"), FALSE), {}, {}, {})

EntityFiles(c, o, item) ==
  IF item.class = "aggregate"
    THEN <<Struct(c, o, "aggregate", item), Factory(c, o, item)>>
    ELSE <<Struct(c, o, "entity", item)>>

ServiceFiles(c, o, item) ==
  LET types == MethodTypes(item)
  IN  <<Go(c, o, File("domain_service", Domain(c), item.name, FALSE), types, types, {}),
        Go(c, o, File("domain_service_impl", Domain(c), Append(item.name, "impl"), TRUE), types, types, {<<"errors">>})>>

PortInFile(c, o, port) ==
  LET dtos == UNION {DTOTypes(uc) : uc \in {i \in ToSet(OfClass(c, {"usecase"})) : i.of = port.of}}
      types == MethodTypes(port) \cup dtos
  IN  Go(c, o, File("port_in", PortIn(c, o), port.name, FALSE), types, types, {})

PortOutFile(c, o, port) ==
  Go(c, o, File("port_out", PortOut(c, o), port.name, FALSE), MethodTypes(port), MethodTypes(port), {})

\* Only the methods of the port are printed.
UseCaseFile(c, o, uc) ==
  Go(c, o, File("usecase", UseCases(c), uc.name, TRUE), MethodTypes(uc), MethodTypes(uc),
     {PortIn(c, o), <<"errors">>})

\* Seeded fault: adapters import what they implement only.
AdapterFileBare(c, o, port) ==
  Go(c, o, File("adapter", AdapterDir(c, port), port.name, TRUE), {}, MethodTypes(port), {PortOut(c, o), <<"errors">>})

\* Seeded fault: adapters in full are generated.
AdapterFileFull(c, o, port) ==
  Go(c, o, File("adapter", AdapterDir(c, port), port.name, o.adapters # "full"), MethodTypes(port), MethodTypes(port),
     {PortOut(c, o), <<"errors">>})

AdapterFile(c, o, port) ==
  Go(c, o, File("adapter", AdapterDir(c, port), port.name, TRUE), MethodTypes(port), MethodTypes(port),
     {PortOut(c, o), <<"errors">>})

\* The port is qualified, and its methods are not printed.
HandlerFile(c, o, port) ==
  Go(c, o, File("http_handler", Handlers(c), port.name, TRUE), MethodTypes(port), {},
     {PortIn(c, o), <<"net/http">>})

\* The wire.ProviderSet: constructors of what is rendered, bound to the ports.
Providers(c, o) ==
  (IF o.adapters = "off" THEN {} ELSE {AdapterDir(c, port) : port \in ToSet(OfClass(c, {"out"}))})
  \cup (IF o.adapters # "off" /\ o.ports /\ OfClass(c, {"out"}) # <<>> THEN {PortOut(c, o)} ELSE {})
  \cup (IF o.usecases /\ OfClass(c, {"usecase"}) # <<>> THEN {UseCases(c)} ELSE {})
  \cup (IF o.usecases /\ o.ports /\ OfClass(c, {"usecase"}) # <<>> THEN {PortIn(c, o)} ELSE {})
  \cup (IF o.adapters # "off" /\ OfClass(c, {"in"}) # <<>> THEN {Handlers(c)} ELSE {})
ProvidersFile(c, o) ==
  Go(c, o, File("providers", Root(c), <<"providers">>, FALSE), {}, {}, {<<"wire">>} \cup Providers(c, o))

Mapped(Make(_, _, _), c, o, classes) ==
  LET items == OfClass(c, classes) IN [i \in DOMAIN items |-> Make(c, o, items[i])]
If(condition, list) == IF condition THEN list ELSE <<>>

RenderContext(c, o) ==
  If(o.domain,
     FlattenSeq(Mapped(EntityFiles, c, o, {"aggregate", "entity"}))
     \o Mapped(LAMBDA d, p, item : Struct(d, p, "value_object", item), c, o, {"value"})
     \o If(o.events, Mapped(LAMBDA d, p, item : Struct(d, p, "domain_event", item), c, o, {"event"}))
     \o FlattenSeq(Mapped(ServiceFiles, c, o, {"service"})))
  \o If(o.ports, Mapped(PortInFile, c, o, {"in"}) \o Mapped(PortOutFile, c, o, {"out"}))
  \o If(o.usecases, Mapped(UseCaseFile, c, o, {"usecase"}))
  \o If(o.adapters # "off", Mapped(AdapterFile, c, o, {"out"}) \o Mapped(HandlerFile, c, o, {"in"}))
  \o If(o.di, <<ProvidersFile(c, o)>>)
-----------------------------------------------------------------------------
(***************************************************************************)
(* The binaries (cmd.go).  A group of the configuration names contexts in  *)
(* full or by their slugs; of several with one, the last is taken.         *)
(***************************************************************************)
Called(project, reference) ==
  Only(project, {c \in ToSet(project) :
    IF "slug" \in DOMAIN reference THEN reference.slug = Slug(c.name) ELSE reference.name = c.name})

RenderFails(project, o) ==
  o.cmd = "custom" /\ \E group \in ToSet(o.groups) : \E r \in ToSet(group.contexts) : Called(project, r) = <<>>

Binaries(project, o) ==
  CASE o.cmd = "off" -> <<>>
    [] o.cmd = "mono" -> <<[name |-> o.app, contexts |-> project]>>
    [] o.cmd = "per-context" ->
         [i \in DOMAIN project |-> [name |-> Slug(project[i].name), contexts |-> <<project[i]>>]]
    [] o.cmd = "custom" ->
         [i \in DOMAIN o.groups |->
            [name |-> o.groups[i].name,
             contexts |-> [j \in DOMAIN o.groups[i].contexts |-> Last(Called(project, o.groups[i].contexts[j]))]]]

\* The injector of a context returns its first driving port.
Injectable(b, o) ==
  {c \in ToSet(b.contexts) : o.di /\ o.ports /\ OfClass(c, {"in"}) # <<>>}

BinaryFiles(b, o) ==
  LET main == File("main", <<"cmd", b.name>>, <<"main">>, TRUE)
      wire == File("wire", <<"cmd", b.name>>, <<"wire">>, TRUE)
      toolkit == IF o.di THEN {<<"cobra">>} ELSE {}
      injected == UNION {{Root(c), PortIn(c, o)} : c \in Injectable(b, o)}
  IN  <<Depending(main, {<<"log">>} \cup toolkit, {<<"log">>} \cup toolkit)>>
      \o If(Injectable(b, o) # {}, <<Depending(wire, {<<"wire">>} \cup injected, {<<"wire">>} \cup injected)>>)

ArchLint == Depending(File("arch_lint", <<>>, <<".go-arch-lint">>, FALSE), {}, {})

FilesOf(project, o) ==
  FlattenSeq([i \in DOMAIN project |-> RenderContext(project[i], o)])
  \o FlattenSeq([i \in DOMAIN Binaries(project, o) |-> BinaryFiles(Binaries(project, o)[i], o)])
  \o If(o.importlint, <<ArchLint>>)

ByPath(files) ==
  Arranged(files, {p \in (DOMAIN files) \X (DOMAIN files) : PathBefore(files[p[1]].path, files[p[2]].path)})

Render(project, o) == ByPath(FilesOf(project, o))
=============================================================================
