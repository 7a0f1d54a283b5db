------------------------------ MODULE MCLoadIR ------------------------------
(***************************************************************************)
(* LoadIR for TLC: small models, with containment by memberships, in       *)
(* derived lists and in both forms, and without a package; documents of up *)
(* to two actions; a model with all that is mapped, under six              *)
(* configurations; and files and servers, good and bad.                    *)
(***************************************************************************)
EXTENDS LoadIR, TLC

MCSuffixed(id, suffix) == id \o ":" \o suffix
MCRelationships == {"OwningMembership", "FeatureMembership", "FeatureTyping"}

\* In the order of strings.
Strings ==
  <<"", ".go-arch-lint", "L", "M", "P", "Q", "Q::V", "S", "String", "T", "V", "adapter", "app", "case", "cmd", "core",
    "domain", "error", "f1", "factory", "ft", "ft:dup", "ft:dup:dup", "gateway", "http", "i", "i:dup", "i:dup:dup",
    "id", "impl", "in", "input", "internal", "j", "j:dup", "j:dup:dup", "l", "lib", "m", "m1", "m2", "main", "money",
    "ns", "o", "o:dup", "o:dup:dup", "out", "output", "p", "p:dup", "p:dup:dup", "port", "providers", "q", "r",
    "repo", "repository", "s", "s:dup", "shop", "t", "t:dup", "t:dup:dup", "u", "u:dup", "u:dup:dup", "use",
    "usecase", "v", "v:dup", "v:dup:dup", "wire", "x">>
RankOf == [s \in {Strings[i] : i \in DOMAIN Strings} |-> CHOOSE i \in DOMAIN Strings : Strings[i] = s]
MCRank(s) == RankOf[s]
MCPathBefore(p, q) == Precedes(Head(p) \o Last(p), Head(q) \o Last(q))

MCWords ==
  [L |-> <<"l">>, M |-> <<"m">>, P |-> <<"p">>, Q |-> <<"q">>, S |-> <<"s">>, String |-> <<"string">>,
   T |-> <<"t">>, V |-> <<"v">>, id |-> <<"id">>, repo |-> <<"repo">>]
MCSegments(type) == IF type = "Q::V" THEN <<"Q", "V">> ELSE <<type>>

Money == GoType("money", <<"money">>)
GoTypes ==
  "money.Money" :> Money @@ "*money.Money" :> [Money EXCEPT !.prefix = <<"*">>] @@
  "map[string]money.Money" :> [Money EXCEPT !.prefix = <<"map">>] @@ "m.Cash" :> GoType("m", <<"cash">>)
MCGoTypeOf(type) == GoTypes[type]
MCTypeMapping ==
  <<"Q", "V">> :> [Money EXCEPT !.import = "x"] @@ <<"P", "T">> :> [Money EXCEPT !.import = "x"] @@ <<"L">> :> Builtin("string")

Element(id, kind, name) == [id |-> Str(id), kind |-> Str(kind), declaredName |-> Str(name)]
Plain(id, kind) == [id |-> Str(id), kind |-> Str(kind)]
Owning(ids) == [ownedElement |-> Refs(ids)]
Relating(ids) == [ownedRelationship |-> Refs(ids)]
Related(ids) == [ownedRelatedElement |-> Refs(ids)]

\* P { T { id : V } V }, by memberships and a typing.
Canonical ==
  [elements |->
     <<Element("p", "Package", "P") @@ Relating(<<"m1", "m2">>),
       Plain("m1", "OwningMembership") @@ Related(<<"t">>) @@ [memberElement |-> Obj(1)],
       Element("t", "PartDefinition", "T") @@ Relating(<<"f1">>),
       Plain("f1", "FeatureMembership") @@ Related(<<"i">>),
       Element("i", "AttributeUsage", "id") @@ Relating(<<"ft">>),
       Plain("ft", "FeatureTyping") @@ [type |-> Obj(2)],
       Plain("m2", "OwningMembership") @@ Related(<<"v">>),
       Element("v", "AttributeDefinition", "V")>>,
   objects |-> <<[id |-> Str("t")], [id |-> Str("v")]>>]

\* P { T { id : String } Q { V, o } }, in derived lists, for T in both forms.
Derived ==
  [elements |->
     <<Element("p", "Package", "P") @@ Owning(<<"t", "q">>),
       Element("t", "PartDefinition", "T") @@ Owning(<<"i">>) @@ Relating(<<"f1">>),
       Plain("f1", "FeatureMembership") @@ Related(<<"i">>),
       Element("i", "AttributeUsage", "id") @@ [type |-> Str("String")],
       Element("q", "Package", "Q") @@ Owning(<<"v", "o">>),
       Element("v", "ActionDefinition", "V"),
       Plain("o", "PortDefinition") @@ [name |-> Str("T")]>>,
   objects |-> <<>>]

\* { library S { s { t } } P { T { u } } }
Library ==
  [elements |->
     <<Plain("ns", "Namespace") @@ Owning(<<"lib", "p">>),
       Element("lib", "LibraryPackage", "S") @@ Owning(<<"s">>),
       Element("s", "Package", "Q") @@ Owning(<<"v">>),
       Element("v", "ItemDefinition", "V") @@ [library |-> Bool(TRUE)],
       Element("p", "Package", "P") @@ Owning(<<"t">>),
       Element("t", "PartDefinition", "T") @@ Owning(<<"u">>) @@ [stereotype |-> Str("event")],
       Element("u", "PartUsage", "V") @@ [type |-> Str("V")]>>,
   objects |-> <<>>]

\* T { id Q } V, and an object without identity.
Loose ==
  [elements |->
     <<[elementId |-> Str("t"), kind |-> Str("PartDefinition"), declaredName |-> Str("T")] @@ Owning(<<"i", "j">>),
       Element("i", "AttributeUsage", "id"),
       Element("j", "AttributeUsage", "Q"),
       Element("v", "AttributeDefinition", "V"),
       [kind |-> Str("PartDefinition")]>>,
   objects |-> <<>>]

-----------------------------------------------------------------------------
Test(field, op, value) == [field |-> field, op |-> op, value |-> value]
ByName(n) == {{Test("declaredName", "is", Str(n))}}
ByType(t) == {{Test("kind", "is", Str(t))}}

Nothing == [target |-> {{}}, valid |-> TRUE, remove |-> FALSE, copy |-> "", update |-> None]

\* Actions, whose updates find their object at address a.
MCActions(a) ==
  {[Nothing EXCEPT !.update = [stereotype |-> Str("value-object")]],
   [Nothing EXCEPT !.target = ByName("T") \cup {{Test("kind", "==", Str("Package")), Test("declaredName", "!=", Str("P"))}},
                   !.update = [library |-> Bool(TRUE)]],
   [Nothing EXCEPT !.target = {{Test("kind", "==", Str("AttributeUsage"))}, {Test("type", "exists", Str(""))}},
                   !.update = [type |-> Obj(a)]],
   [Nothing EXCEPT !.target = ByName("id"), !.update = [type |-> Obj(a)]],
   [Nothing EXCEPT !.target = ByName("T"), !.update = Owning(<<"p", "t">>)],
   [Nothing EXCEPT !.target = ByName("T"), !.remove = TRUE],
   [Nothing EXCEPT !.target = ByType("AttributeUsage"), !.remove = TRUE, !.copy = "dup"],
   [Nothing EXCEPT !.target = ByType("OwningMembership"), !.remove = TRUE],
   [Nothing EXCEPT !.target = ByName("T"), !.copy = "dup"],
   [Nothing EXCEPT !.target = ByType("FeatureTyping") \cup ByName("id") \cup ByName("V"), !.copy = "dup"],
   [Nothing EXCEPT !.target = {{Test("kind", "==", Str("Package")), Test("declaredName", "==", Str("P"))}}, !.copy = "dup"],
   Nothing}

\* The objects of the first and the second action.
DocumentObjects == <<[id |-> Str("v")], [id |-> Str("t")]>>

Documents(a) ==
  {<<>>} \cup {<<first>> : first \in MCActions(a + 1)} \cup
  {<<first, second>> : first \in MCActions(a + 1), second \in MCActions(a + 2)}

Default ==
  [domain |-> TRUE, usecases |-> TRUE, ports |-> TRUE, events |-> TRUE, importlint |-> TRUE, adapters |-> "scaffold",
   di |-> FALSE, imports |-> <<>>, cmd |-> "per-context", groups |-> <<>>, app |-> "shop", repositoryInDomain |-> FALSE,
   drivingDir |-> <<"app", "port", "in">>, drivenDir |-> <<"app", "port", "out">>]
Wired == [Default EXCEPT !.di = TRUE, !.cmd = "mono", !.adapters = "full"]
Import(sel, path) == [sel |-> sel, path |-> path]
Grouped ==
  [Default EXCEPT !.di = TRUE, !.imports = <<Import("money", "x"), Import("m", "y")>>, !.cmd = "custom", !.repositoryInDomain = TRUE, !.importlint = FALSE,
     !.groups = <<[name |-> "shop", contexts |-> <<[name |-> <<"p">>]>>], [name |-> "t", contexts |-> <<[slug |-> "p"]>>]>>]
Misspelt == [Grouped EXCEPT !.groups = <<[name |-> "shop", contexts |-> <<[slug |-> "x"]>>]>>]
Few == [Default EXCEPT !.domain = FALSE, !.events = FALSE, !.usecases = FALSE, !.adapters = "off", !.cmd = "off"]
Aliased == [Default EXCEPT !.imports = <<Import("m", "x")>>]
Configurations == {Default, Wired, Grouped, Misspelt, Few, Aliased}

\* P { T { id [0..1] : Q::V; m [*] : V }; service S { action a (in l : T, out r : L) }; V; event M;
\*     driven port repo (in item t : T); driving port Q (in item l : String); action L (in t : T, out v : V) }
Rich ==
  <<Element("p", "Package", "P") @@ Owning(<<"t", "s", "v", "m", "o", "q", "u">>),
    Element("t", "PartDefinition", "T") @@ Owning(<<"i", "j">>),
    Element("i", "AttributeUsage", "id") @@ [type |-> Str("Q::V")] @@ Owning(<<"m1">>),
    Plain("m1", "MultiplicityRange") @@ Owning(<<"f1", "ft">>),
    Plain("f1", "LiteralInteger") @@ [value |-> [int |-> 0]],
    Plain("ft", "LiteralInteger") @@ [value |-> [int |-> 1]],
    Element("j", "PartUsage", "M") @@ [declaredType |-> Str("V"), lowerBound |-> [int |-> 0], upperBound |-> Str("*")],
    Element("s", "PartDefinition", "S") @@ [stereotype |-> Str("domain-service")] @@ Owning(<<"m2">>),
    Plain("m2", "ActionUsage") @@ Owning(<<"ns", "lib">>),
    Element("ns", "ItemUsage", "L") @@ [direction |-> Str("in"), type |-> Str("T")],
    Element("lib", "ParameterUsage", "L") @@ [FeatureDirection |-> Str("out"), type |-> Str("L")],
    Element("v", "AttributeDefinition", "V"),
    Element("m", "PartDefinition", "M") @@ [stereotype |-> Str("event"), goName |-> Str("M")] @@ Owning(<<"r">>),
    Element("r", "AttributeUsage", "L") @@ [goType |-> Str("money.Money"), goTypeImport |-> Str("x")],
    Element("o", "PortDefinition", "repo") @@ Owning(<<"i:dup">>),
    Element("i:dup", "ItemUsage", "L") @@ [direction |-> Str("in"), type |-> Str("T")],
    Element("q", "PortDefinition", "Q") @@ [stereotype |-> Str("driving-port")] @@ Owning(<<"j:dup">>),
    Element("j:dup", "ItemUsage", "L") @@ [direction |-> Str("in"), type |-> Str("String")],
    Element("u", "ActionDefinition", "L") @@ Owning(<<"p:dup", "t:dup">>),
    Element("p:dup", "ItemUsage", "L") @@ [direction |-> Str("in"), type |-> Str("T")],
    Element("t:dup", "ItemUsage", "L") @@ [direction |-> Str("return"), type |-> Str("V")]>>

MCRichActions ==
  {[Nothing EXCEPT !.target = ByType("PortDefinition"), !.update = [stereotype |-> Str("driving-port")]],
   [Nothing EXCEPT !.target = ByType("PortDefinition"), !.update = [stereotype |-> Str("gateway")]],
   [Nothing EXCEPT !.target = ByName("T"), !.update = [stereotype |-> Str("entity")]],
   [Nothing EXCEPT !.target = ByType("AttributeUsage"), !.update = [goType |-> Str("*money.Money")]],
   [Nothing EXCEPT !.target = ByName("id"), !.update = [goType |-> Str("map[string]money.Money")]],
   [Nothing EXCEPT !.target = ByName("id"), !.update = [goType |-> Str("m.Cash")]],
   [Nothing EXCEPT !.target = ByName("id"), !.update = [goType |-> Str("m.Cash"), goTypeImport |-> Str("x")]],
   [Nothing EXCEPT !.target = ByName("id"), !.update = [goType |-> Str("money.Money"), goTypeImport |-> Str("y")]],
   [Nothing EXCEPT !.target = ByType("ItemUsage"), !.remove = TRUE],
   [Nothing EXCEPT !.target = ByName("S"), !.copy = "dup"]}

-----------------------------------------------------------------------------
Bare(els) == [i \in DOMAIN els |-> [element |-> els[i]]]
Enveloped(els) == [i \in DOMAIN els |-> [payload |-> els[i]]]

AFile(doc, els) ==
  [kind |-> "file", doc |-> doc, commit |-> "file", commits |-> <<>>, pages |-> <<>>, content |-> [file |-> els]]
Array(entries) == [form |-> "array", entries |-> entries]
Object(els, content) == [form |-> "object", elements |-> els, content |-> content]

Files ==
  {AFile(Array(Enveloped(Derived.elements)), Derived.elements),
   AFile(Object(Bare(Derived.elements), Bare(Loose.elements)), Derived.elements),
   AFile(Object(<<>>, Enveloped(Derived.elements)), Derived.elements),
   AFile(Object(<<>>, <<>>), <<>>), AFile([form |-> "unreadable"], <<>>)}

\* A server with two commits, whose pages of three are linked by absolute
\* URLs; `links' are those of the newest commit's second and third page.
Link(rel, url) == [rel |-> rel, url |-> url]
Third(els, n) == SubSeq(els, 3 * n - 2, IF 3 * n < Len(els) THEN 3 * n ELSE Len(els))
PageOf(els, n, links) == [elements |-> Third(els, n), links |-> links]

Server(commit, commits, second, third) ==
  LET els == Derived.elements
      first == PageOf(els, 1, <<Link("prev", <<"c2", "3">>), Link("next", <<"c2", "2">>)>>)
  IN  [kind |-> "api", doc |-> None, commit |-> commit, commits |-> commits,
       pages |-> <<"c2">> :> first @@ <<"c2", "1">> :> first @@ <<"c2", "2">> :> PageOf(els, 2, second)
                 @@ <<"c2", "3">> :> PageOf(els, 3, third) @@ <<"c1">> :> PageOf(Loose.elements, 1, <<>>),
       content |-> [c2 |-> els, c1 |-> SubSeq(Loose.elements, 1, 3)]]

Onward == <<Link("next", <<"c2", "3">>)>>
Servers ==
  {Server("", <<"", "c2", "c1">>, Onward, <<>>), Server("c1", <<"c2", "c1">>, Onward, <<>>),
   Server("", <<"", "">>, Onward, <<>>), Server("", <<>>, Onward, <<>>),
   Server("c2", <<>>, <<Link("prev", <<"c2">>)>>, <<>>),                 \* a full page without a next
   Server("c2", <<>>, <<Link("next", <<"c2", "1">>)>>, <<>>),            \* back, under another URL
   Server("c2", <<>>, Onward, <<Link("next", <<"c2", "2">>)>>),          \* back
   Server("c2", <<>>, <<Link("next", <<"c2", "4">>)>>, <<>>)}            \* to nothing

-----------------------------------------------------------------------------
With(configurations, src) == [options |-> configurations] @@ src

Overlaid ==
  UNION {{[source |-> With(IF Len(document) < 2 THEN {Default} ELSE {}, AFile(Array(Bare(model.elements)), model.elements)),
           objects |-> model.objects \o DocumentObjects, actions |-> document] :
            document \in Documents(Len(model.objects))} :
         model \in {Canonical, Derived, Library, Loose}}

MappedInputs ==
  {[source |-> With(Configurations, AFile(Array(Bare(Rich)), Rich)), objects |-> <<>>, actions |-> document] :
     document \in {<<>>} \cup {<<action>> : action \in MCRichActions}}

LoadedFrom ==
  {[source |-> With({}, src), objects |-> <<>>, actions |-> <<>>] : src \in Files \cup Servers}

MCInputs == Overlaid \cup MappedInputs \cup LoadedFrom
=============================================================================
