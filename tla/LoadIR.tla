-------------------------------- MODULE LoadIR --------------------------------
(***************************************************************************)
(* From a model to the files it stands for: internal/app/pipeline.go up to *)
(* the files.  The elements are loaded (Loader), the overlay is applied    *)
(* (Overlay), model.Build makes the graph of what is left (ModelGraph),    *)
(* mapping.go walks it and puts what it makes of each element (Mapping)    *)
(* into a bounded context, and the contexts are rendered (Renderer).       *)
(*                                                                         *)
(* Build visits the elements in the order of a Go map, which is any order. *)
(* The recursion of mapping.go is `todo', the calls that are still to be   *)
(* made, so that walking in circles would show.                            *)
(***************************************************************************)
EXTENDS Loader, Mapping, Renderer, FiniteSets

CONSTANT MaxWalk   \* how far a walk is followed: bounds it in a circle

VARIABLES nodes,       \* Graph.Elements
          unvisited,   \* those whose children are not resolved yet
          owner,       \* Element.Owner
          contained,
          todo,        \* calls
          list,        \* what descendants has collected
          items,       \* of the context that is being made
          contexts,    \* Project.Contexts
          requests,    \* the imports that registerImport has been asked for
          options,     \* of the configuration that the contexts are rendered for
          files        \* the rendered files

graphVars == <<nodes, unvisited, owner, contained>>
mapVars == <<todo, list, items, contexts>>
renderVars == <<requests, options, files>>
buildVars == <<graphVars, mapVars, renderVars>>
inputVars == <<overlayVars, loaderVars>>
vars == <<inputVars, status, buildVars>>

\* What the configuration's schema and its defaults ensure; and that none of
\* its additional imports, each with its selector, are of one path.
ASSUME OptionsAssumption ==
  \A input \in Inputs : \A o \in input.source.options :
    /\ {"drivingDir", "drivenDir", "cmd", "groups", "imports"} \subseteq DOMAIN o
    /\ IsSequence(o.imports) /\ \A i, j \in DOMAIN o.imports : o.imports[i].path = o.imports[j].path => i = j
    /\ IsSequence(o.drivingDir) /\ o.drivingDir # <<>>
    /\ IsSequence(o.drivenDir) /\ o.drivenDir # <<>>
    /\ o.cmd \in {"off", "mono", "per-context", "custom"}
    /\ IsSequence(o.groups) /\ \A i \in DOMAIN o.groups : IsSequence(o.groups[i].contexts)
    /\ o.cmd = "custom" => \A i, j \in DOMAIN o.groups : o.groups[i].name = o.groups[j].name => i = j

Graph == [nodes |-> nodes, objects |-> objects, owner |-> owner]

Init ==
  /\ LoaderInit /\ OverlayInit
  /\ nodes = <<>> /\ unvisited = {} /\ owner = <<>> /\ contained = {}
  /\ todo = <<>> /\ list = <<>> /\ items = <<>> /\ contexts = <<>>
  /\ requests = <<>> /\ options = None /\ files = <<>>
-----------------------------------------------------------------------------
(***************************************************************************)
(* model.Build                                                             *)
(***************************************************************************)
IDs == {ElementID(elements[i]) : i \in DOMAIN elements} \ {""}
WithID(id) == {i \in DOMAIN elements : ElementID(elements[i]) = id}

\* Seeded fault: elements are compared with their neighbours.
DuplicateBeside ==
  \E i, j \in DOMAIN elements : j = i + 1 /\ ElementID(elements[i]) \in IDs \cap {ElementID(elements[j])}
\* A second element with an identity is an error.
Duplicate == \E id \in IDs : Cardinality(WithID(id)) > 1

\* An element without children changes nothing when its turn comes, and has none.
IndexElements ==
  /\ status = "index"
  /\ IF Duplicate
       THEN /\ status' = "failed"
            /\ UNCHANGED graphVars
       ELSE /\ status' = "resolve"
            /\ \E indexed \in {[id \in IDs |-> elements[CHOOSE i \in WithID(id) : TRUE]]} :
                 /\ nodes' = indexed
                 /\ unvisited' = {id \in IDs : ResolveChildren(indexed, objects, id) # <<>>}
            /\ owner' = [id \in IDs |-> None]
            /\ UNCHANGED contained
  /\ UNCHANGED <<inputVars, mapVars, renderVars>>

\* Seeded fault: only children that have been visited already get an owner.
ResolveElementOnce(id) ==
  /\ status = "resolve" /\ id \in unvisited
  /\ \E children \in {ToSet(Owned(Graph, id))} :
       /\ owner' = [c \in DOMAIN nodes |-> IF c \in children \ unvisited THEN id ELSE owner[c]]
       /\ contained' = contained \cup children
  /\ unvisited' = unvisited \ {id}
  /\ UNCHANGED <<inputVars, status, nodes, mapVars, renderVars>>

ResolveElement(id) ==
  /\ status = "resolve" /\ id \in unvisited
  /\ \E children \in {ToSet(Owned(Graph, id))} :
       /\ owner' = [c \in DOMAIN nodes |-> IF c \in children THEN id ELSE owner[c]]
       /\ contained' = contained \cup children
  /\ unvisited' = unvisited \ {id}
  /\ UNCHANGED <<inputVars, status, nodes, mapVars, renderVars>>

Collect(id) == [op |-> "collect", el |-> id]
Visit(id) == [op |-> "visit", el |-> id]
Close(id) == [op |-> "close", el |-> id]
Each(Call(_), ids) == [i \in DOMAIN ids |-> Call(ids[i])]

BuildDone ==
  /\ status = "resolve" /\ unvisited = {}
  /\ status' = "map"
  /\ todo' = Each(Collect, Roots(Graph, contained))
  /\ UNCHANGED <<inputVars, graphVars, list, items, contexts, renderVars>>
-----------------------------------------------------------------------------
(***************************************************************************)
(* Mapper.Build                                                            *)
(***************************************************************************)
Calling(op) == status \in {"map", "default"} /\ todo # <<>> /\ Head(todo).op = op
Callee == Head(todo).el
Continue(calls) == todo' = calls \o Tail(todo)

Packages(ids) == Only(ids, {id \in DOMAIN nodes : Kind(nodes[id]) = "Package"})

\* collectContexts
CollectContexts ==
  /\ Calling("collect")
  /\ \E children \in {Owned(Graph, Callee)} :
       CASE IsLibrary(nodes[Callee]) -> Continue(<<>>)
         [] ~IsLibrary(nodes[Callee]) /\ Kind(nodes[Callee]) = "Package" ->
              Continue(Each(Visit, children) \o <<Close(Callee)>> \o Each(Collect, Packages(children)))
         [] OTHER -> Continue(Each(Collect, children))
  /\ UNCHANGED <<inputVars, status, graphVars, list, items, contexts, renderVars>>

\* Seeded fault: for each child the walk goes on from its parent.
VisitParent ==
  /\ Calling("visit") /\ Len(list) < MaxWalk
  /\ list' = Append(list, Callee)
  /\ \E children \in {Owned(Graph, Callee)} : Continue([i \in DOMAIN children |-> Visit(Callee)])
  /\ UNCHANGED <<inputVars, status, graphVars, items, contexts, renderVars>>

\* descendants, which would not come back from a circle.
VisitDescendant ==
  /\ Calling("visit") /\ Len(list) < MaxWalk
  /\ list' = Append(list, Callee)
  /\ Continue(Each(Visit, Owned(Graph, Callee)))
  /\ UNCHANGED <<inputVars, status, graphVars, items, contexts, renderVars>>

\* classify
Classified(id) ==
  LET classes == Classes(Graph, id) IN [i \in DOMAIN classes |-> Item(Graph, id, classes[i])]

\* The imports registered on the way; a port that comes with its use case asks
\* for none.  A package in a package is passed over.
Requests(id) ==
  LET classes == Classes(Graph, id)
      passed == IsLibrary(nodes[id]) \/ (Kind(nodes[id]) = "Package" /\ Callee # None)
  IN  (IF passed THEN <<>> ELSE Hint(nodes[id]))
      \o (IF classes = <<>> THEN <<>> ELSE AskedFor(Graph, id, Head(classes)))

ClassifyDescendant ==
  /\ Calling("close") /\ list # <<>>
  /\ items' = items \o Classified(Head(list))
  /\ \E asked \in {Requests(Head(list))} : requests' = requests \o asked
  /\ list' = Tail(list)
  /\ UNCHANGED <<inputVars, status, graphVars, todo, contexts, options, files>>

\* A context is kept if there is something in it.
ContextName(package) == IF package = None THEN <<"core">> ELSE GoName(DeclaredName(nodes[package]))
Context(package) == [package |-> package, name |-> ContextName(package), items |-> items]

CloseContext ==
  /\ Calling("close") /\ list = <<>>
  /\ contexts' = IF items = <<>> THEN contexts ELSE Append(contexts, Context(Callee))
  /\ items' = <<>>
  /\ Continue(<<>>)
  /\ UNCHANGED <<inputVars, status, graphVars, list, renderVars>>

\* Without a context, whatever there is under the roots makes one.
Synthesize ==
  /\ status = "map" /\ todo = <<>> /\ contexts = <<>>
  /\ status' = "default"
  /\ todo' = Each(Visit, Roots(Graph, contained)) \o <<Close(None)>>
  /\ UNCHANGED <<inputVars, graphVars, list, items, contexts, renderVars>>

Sorted(parts) ==
  Arranged(parts, {p \in (DOMAIN parts) \X (DOMAIN parts) : Precedes(parts[p[1]].name, parts[p[2]].name)})

SortProject ==
  /\ todo = <<>>
  /\ (status = "map" /\ contexts # <<>>) \/ status = "default"
  /\ status' = "done"
  /\ contexts' = Sorted([i \in DOMAIN contexts |-> [contexts[i] EXCEPT !.items = Sorted(@)]])
  /\ UNCHANGED <<inputVars, graphVars, todo, list, items, renderVars>>

(***************************************************************************)
(* Renderer.Render, if the pipeline is to generate (generate), not only to *)
(* show (validate).                                                        *)
(***************************************************************************)
\* The configurations, as mapping has left them.
Registered(o) == [o EXCEPT !.imports = @ \o requests]
Configured == {Registered(o) : o \in source.options}

RenderProject ==
  /\ status = "done" /\ options = None
  /\ \E o \in Configured :
       /\ options' = o
       /\ IF RenderFails(contexts, o)
            THEN status' = "failed" /\ UNCHANGED files
            ELSE /\ status' = "rendered"
                 /\ \E unsorted \in {FilesOf(contexts, o)} : files' = ByPath(unsorted)
  /\ UNCHANGED <<inputVars, graphVars, mapVars, requests>>

Next ==
  \/ Load /\ UNCHANGED buildVars
  \/ Apply /\ UNCHANGED <<loaderVars, buildVars>>
  \/ IndexElements \/ (\E id \in unvisited : ResolveElement(id)) \/ BuildDone
  \/ CollectContexts \/ VisitDescendant \/ ClassifyDescendant \/ CloseContext
  \/ Synthesize \/ SortProject
  \/ RenderProject

Spec == Init /\ [][Next]_vars

\* One goroutine, which waits for nothing.
FairSpec == Spec /\ WF_vars(Next)
-----------------------------------------------------------------------------
(***************************************************************************)
(* "TestUpdateByFilter: update leaked to non-matching element".  Two       *)
(* elements share an object only where updates have assigned it to both,   *)
(* so that the document is its origin; copies and loaded elements have     *)
(* their own.                                                              *)
(***************************************************************************)
OfDocument ==
  UNION {Addresses(actions[i].update) : i \in {j \in DOMAIN actions : actions[j].update # None}}

SharingComesFromUpdates ==
  LET held == [i \in DOMAIN elements |-> Addresses(elements[i]) \ OfDocument]
  IN  \A i, j \in DOMAIN elements : i < j => held[i] \cap held[j] = {}

(***************************************************************************)
(* So an update changes what it matches, and otherwise only elements that  *)
(* share an object of the document with that.                              *)
(***************************************************************************)
Deep(mem, el) == [k \in DOMAIN el |-> IF IsObj(el[k]) THEN mem[el[k].obj] ELSE el[k]]

UpdatesStayWithin ==
  [][status = "overlay" /\ at' = at + 1 =>
       \A i \in DOMAIN elements :
         Deep(objects', elements'[i]) # Deep(objects, elements[i]) =>
           /\ Doing("update") /\ Matched
           /\ i = at \/ Addresses(elements[i]) \cap Addresses(El) \cap OfDocument # {}]_vars

(***************************************************************************)
(* overlay.go: applyUpdate "recursively merges update into every matched   *)
(* element", and the test's "update leaked to non-matching element".  An   *)
(* update changes what it matches and nothing else.                        *)
(***************************************************************************)
UpdatesTouchMatchesOnly ==
  [][status = "overlay" /\ at' = at + 1 =>
       \A i \in DOMAIN elements :
         Deep(objects', elements'[i]) # Deep(objects, elements[i]) =>
           i = at /\ Doing("update") /\ Matched]_vars

(***************************************************************************)
(* overlay.go, pruneRefs: "so the graph stays consistent".  A remove takes *)
(* what it matches out of the graph that model.Build will find, nothing    *)
(* else, and leaves the other children of each element where they were,    *)
(* whichever form of containment the model has, unless identities are not  *)
(* unique, when Build refuses the model; memberships of elements that stay *)
(* are removed; or the two forms disagree.                                 *)
(***************************************************************************)
Index(els) ==
  [id \in {ElementID(els[i]) : i \in DOMAIN els} \ {""} |->
     els[CHOOSE i \in DOMAIN els : ElementID(els[i]) = id]]

FormsAgree(nds) ==
  \A id \in DOMAIN nds :
    LET derived == RefList(objects, nds[id], "ownedElement")
        hops == Hops(nds, objects, nds[id])
    IN  derived # <<>> /\ hops # <<>> => derived = hops

IdentitiesDiffer(els) ==
  \A i, j \in DOMAIN els : ElementID(els[i]) = ElementID(els[j]) /\ ElementID(els[i]) # "" => i = j

\* What a remove matches.
Gone == {ElementID(elements[i]) : i \in {j \in DOMAIN elements : Match(elements[j], Action.target)}}

MembershipsStay(nds) ==
  \A id \in DOMAIN nds \ Gone : ToSet(RefList(objects, nds[id], "ownedRelationship")) \cap Gone = {}

RemovesKeepTheRest ==
  [][Doing("remove") /\ ~AtElement /\ IdentitiesDiffer(elements) =>
       \A before \in {Index(elements)}, after \in {Index(elements')} :
         /\ DOMAIN after = DOMAIN before \ Gone
         /\ FormsAgree(before) /\ MembershipsStay(before) =>
              \A id \in DOMAIN after :
                ResolveChildren(after, objects, id) = Only(ResolveChildren(before, objects, id), DOMAIN after)]_vars

(***************************************************************************)
(* ARCHIVE.md: "regeneration must be byte-stable".  If no element stands   *)
(* in two others, the types of fields, which are looked up by qualified    *)
(* name along the owners, are those that the containment gives, in         *)
(* whatever order Build has visited the elements.                          *)
(***************************************************************************)
Containers(id) == {p \in DOMAIN nodes : id \in ToSet(Owned(Graph, p))}
IsForest == \A id \in DOMAIN nodes : \A p, q \in Containers(id) : p = q

ByContainment ==
  [Graph EXCEPT !.owner =
     [id \in DOMAIN nodes |-> CHOOSE p \in DOMAIN nodes \cup {None} :
        IF Containers(id) = {} THEN p = None ELSE p \in Containers(id)]]

OutputIsStable ==
  status = "done" /\ IsForest =>
    \A i \in DOMAIN contexts : \A j \in DOMAIN contexts[i].items :
      LET item == contexts[i].items[j]
      IN  item.fields # <<>> => item.fields = BuildFields(ByContainment, item.of)

(***************************************************************************)
(* resolve.go: "duplicate element @id" is an error, and ARCHIVE.md:        *)
(* "Package - always - Context".  Whatever the overlay has left that has   *)
(* an identity and stands in one package is generated as often as it is    *)
(* there, in the context of this package; what stands in none is generated *)
(* if no package has anything to generate, and not otherwise.  Unless      *)
(* elements stand in two others; not for what stands in several packages   *)
(* or in a library, nor for what no root leads to.                         *)
(***************************************************************************)
\* The element and what it stands in.
Lineage(id) ==
  LET up[n \in 0 .. Cardinality(DOMAIN nodes)] ==
        IF n = 0 THEN {id} ELSE UNION {{a, owner[a]} \ {None} : a \in up[n - 1]}
  IN  up[Cardinality(DOMAIN nodes)]
PackagesOf(id) == {a \in Lineage(id) \ {id} : Kind(nodes[a]) = "Package"}
Ordinary(id) ==
  /\ Cardinality(PackagesOf(id)) < 2
  /\ \A a \in Lineage(id) : ~IsLibrary(nodes[a])
  /\ \E a \in Lineage(id) : owner[a] = None /\ Kind(nodes[a]) \notin Relationships

\* The classes of the items made of an element, of each context.
MadeOf(id) ==
  FlattenSeq([i \in DOMAIN contexts |->
    LET own == SelectSeq(contexts[i].items, LAMBDA item : item.of = id)
    IN  [j \in DOMAIN own |-> <<contexts[i].package, own[j].class>>]])

GeneratedOnce ==
  status = "done" /\ IsForest =>
    \A id \in {e \in DOMAIN nodes : Ordinary(e)} :
      LET in == IF PackagesOf(id) = {} THEN None ELSE CHOOSE p \in PackagesOf(id) : TRUE
          classes == Classes(Graph, id)
          dropped == in = None /\ \E c \in ToSet(contexts) : c.package # None
      IN  IF dropped THEN MadeOf(id) = <<>>
          ELSE /\ Len(MadeOf(id)) = Cardinality(WithID(id)) * Len(classes)
               /\ \A k \in DOMAIN classes : <<in, classes[k]>> \in ToSet(MadeOf(id))

(***************************************************************************)
(* renderer.go: imports are resolved "so generated code compiles".  Every  *)
(* file imports the packages that its text uses and no others (handlers    *)
(* can import what their ports mention), if no type has two prefixes or is *)
(* a map, types from outside come with an import or a selector that some   *)
(* import is known by, every path is imported by one selector and every    *)
(* selector stands for one path, and no port's package has the name of     *)
(* another; and what it imports of the project is there, if domain, events *)
(* and ports are generated.                                                *)
(***************************************************************************)
TypesOf(item) == FieldTypes(item) \cup MethodTypes(item) \cup DTOTypes(item)
TypesArePlain ==
  \A c \in ToSet(contexts) : \A item \in ToSet(c.items) : \A type \in TypesOf(item) :
    /\ ~Hidden(type)
    /\ type.sel \in {"", "builtin"} \/ type.import # "" \/ \E i \in DOMAIN options.imports : options.imports[i].sel = type.sel

\* Of all that the configuration and the model ask for.
ImportsAgree ==
  \A i, j \in DOMAIN options.imports :
    options.imports[i].sel = options.imports[j].sel <=> options.imports[i].path = options.imports[j].path

PortDirs(c, o) == {Domain(c), PortIn(c, o), PortOut(c, o)}
AppDirs(c) == {UseCases(c), Handlers(c)} \cup {Adapters(c, <<"out", kind>>) : kind \in {"repository", "gateway"}}
PackagesDiffer ==
  \A c \in ToSet(contexts) : \A dir \in PortDirs(c, options) :
    /\ dir \notin AppDirs(c)
    /\ \A other \in PortDirs(c, options) \cup AppDirs(c) : Last(dir) = Last(other) => dir = other

Dirs == {Head(files[i].path) : i \in DOMAIN files}

ImportsFit ==
  status = "rendered" =>
    \A f \in ToSet(files) :
      /\ TypesArePlain /\ ImportsAgree /\ PackagesDiffer =>
           f.uses \subseteq f.imports /\ (f.imports \subseteq f.uses \/ f.template = "http_handler")
      /\ options.domain /\ options.events /\ options.ports =>
           \A dir \in f.imports : Head(dir) = "internal" => dir \in Dirs

(***************************************************************************)
(* README.md: scaffold-once files are "never overwritten".  No file of a   *)
(* rendering has the path of another, and none that a user may have edited *)
(* is generated by another configuration: where contexts have slugs of     *)
(* their own, and what stands in one package names of its own, of which    *)
(* none is another's with Factory or Impl at its end; where the directory  *)
(* of the driving ports is not that of other types, and none of ports that *)
(* of adapters or use cases.                                               *)
(***************************************************************************)
NamesDiffer(c, classes) ==
  \A i, j \in DOMAIN c.items :
    {c.items[i].class, c.items[j].class} \subseteq classes /\ c.items[i].name = c.items[j].name => i = j

\* The classes that can stand in the package of the domain.
InDomain == {"aggregate", "entity", "value", "event", "service", "out"}

NamesAreClear ==
  /\ \A i, j \in DOMAIN contexts : Slug(contexts[i].name) = Slug(contexts[j].name) => i = j
  /\ \A c \in ToSet(contexts) :
       /\ NamesDiffer(c, InDomain) /\ NamesDiffer(c, {"usecase"}) /\ NamesDiffer(c, {"in"})
       /\ \A v, w \in NamesOf(c, InDomain) : v \notin {Append(w, "factory"), Append(w, "impl")}

LayoutIsClear(o) ==
  \A c \in ToSet(contexts) :
    PortIn(c, o) \notin {Domain(c), PortOut(c, o)} /\ PortDirs(c, o) \cap AppDirs(c) = {}

FilesKeepApart ==
  status = "rendered" /\ NamesAreClear /\ LayoutIsClear(options) =>
    /\ \A i, j \in DOMAIN files : files[i].path = files[j].path => i = j
    /\ \A o \in Configured :
         LayoutIsClear(o) /\ ~RenderFails(contexts, o) =>
           \A f \in ToSet(files), g \in ToSet(Render(contexts, o)) : f.path = g.path => f.once = g.once

(***************************************************************************)
(* Loading ends, whatever the document did to the graph, unless the walk   *)
(* comes to an element that stands below itself: "descendants returns all  *)
(* transitive children of e", which are then without end.                  *)
(***************************************************************************)
Circular(id) ==
  LET down[n \in 1 .. Cardinality(DOMAIN nodes)] ==
        IF n = 1 THEN ToSet(Owned(Graph, id))
        ELSE UNION {{c} \cup ToSet(Owned(Graph, c)) : c \in down[n - 1]}
  IN  id \in down[Cardinality(DOMAIN nodes)]

Ends == <>(status \in {"done", "failed"} \/ (Calling("visit") /\ Circular(Callee)))
=============================================================================
