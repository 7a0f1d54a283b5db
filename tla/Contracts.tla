------------------------------ MODULE Contracts ------------------------------
(***************************************************************************)
(* The OpenAPI contract of an analyzed workspace: the emitter              *)
(* (internal/adapter/openapi), the document and the transport adapter that *)
(* gen/contracts makes of the elements of package engine, and what         *)
(* oapi-codegen and the Go compiler make of them.                          *)
(*                                                                         *)
(* A symbol has, besides what module Names says, its `kind', `keywords'    *)
(* and `annotations' [name, values].  Values are what unquote makes of     *)
(* them; a path is the sequence of its segments.                           *)
(***************************************************************************)
EXTENDS Analyze

CONSTANTS Letters(_),  \* how a name is spelt: a sequence of characters
          Capital(_),  \* the upper case of a character
          Separators   \* the characters at which oapi-codegen ends a word

ASSUME LettersAssumption ==
  \A w \in Workspaces : \A i \in DOMAIN w : \A k \in DOMAIN w[i] :
    w[i][k].what = "symbol" => IsSequence(Letters(w[i][k].name))
ASSUME SeparatorsAssumption == \A c \in Separators : Capital(c) \in Separators

VARIABLE document   \* what the emitter returns: [status |-> "none"] before

contractVars == <<vars, document>>
-----------------------------------------------------------------------------
(***************************************************************************)
(* engine.Element: a view of a symbol of the analyzed tree.                *)
(***************************************************************************)
Element(e) == Node(Tree, e)

Direction(e) ==
  LET directions == Only(Element(e).keywords, {"in", "out", "inout"})
  IN  IF directions = <<>> THEN "" ELSE Head(directions)

Annotated(e, name) == \E i \in DOMAIN Element(e).annotations : Element(e).annotations[i].name = name
\* The values of the first annotation of that name.
Metadata(e, name) ==
  LET annotations == Element(e).annotations
  IN  annotations[Min({i \in DOMAIN annotations : annotations[i].name = name})].values

QualifiedName(e) ==
  LET qn[s \in Symbols(Tree)] ==
        IF s = Root THEN <<>> ELSE Append(qn[ParentOf(Tree, s)], Element(s).name)
  IN  qn[e]

Performed(e) ==
  LET refs == Element(e).refs
  IN  FirstOf([j \in DOMAIN refs |-> IF refs[j].kind = "performs" THEN targets[<<e, "ref", j>>] ELSE None])

\* attributes
Usages(e) == Only(Children(Tree, e), {c \in ToSet(Children(Tree, e)) : Element(c).kind = "Usage"})

\* attributeType: the target of the first feature typing; None if there is none.
TypeOf(e) ==
  LET rels == Element(e).rels
      typings == {n \in DOMAIN rels : rels[n].kind = "typed"}
  IN  IF typings = {} THEN None ELSE targets[<<e, "rel", Min(typings)>>]
-----------------------------------------------------------------------------
Scalar == {<<"ScalarValues", n>> : n \in {"String", "Boolean", "Real", "Integer", "Natural"}}
IsScalar(t) == QualifiedName(t) \in Scalar

Bundled == {"ScalarValues", "Base", "RESTProfile", "TemporalProfile"}

\* What walk visits below the root, but for the bundled packages.
UserElements == Only(Scopes(Tree), {e \in Symbols(Tree) \ {Root} : Head(QualifiedName(e)) \notin Bundled})

IsOperation(e) == Annotated(e, "REST")
IsSchemaDefinition(e) == Element(e).kind = "Definition" /\ ~IsOperation(e) /\ Usages(e) # <<>>

(***************************************************************************)
(* mapping.go.                                                             *)
(***************************************************************************)
\* Seeded fault: a stack where the queue is, the farthest first.
EnqueueInFront(queue, more) == more \o queue

Enqueue(queue, more) == queue \o more

\* allSupertypes: the queue, and what has come out of it.
AllSupertypes(def) ==
  LET flatten[queue, out \in Seq(Symbols(Tree))] ==
        LET st == Head(queue)
            old == QualifiedName(st) \in {QualifiedName(d) : d \in {def} \cup ToSet(out)}
        IN  IF queue = <<>> THEN out
            ELSE IF old THEN flatten[Tail(queue), out]
            ELSE flatten[Enqueue(Tail(queue), SupersOf(supers, st)), Append(out, st)]
  IN  flatten[SupersOf(supers, def), <<>>]

Schema(type) == [type |-> type, properties |-> [n \in {} |-> {}]]

\* schemaForObject and addProperty: the first attribute of a name counts, and
\* a type that is being expanded is not expanded again.
SchemaFor[def \in Symbols(Tree), active \in SUBSET {QualifiedName(s) : s \in Symbols(Tree)}] ==
  LET expanding == active \cup {QualifiedName(def)}
      flattened == <<def>> \o AllSupertypes(def)
      all == FlattenSeq([i \in DOMAIN flattened |-> Usages(flattened[i])])
      names == {Element(a).name : a \in ToSet(all)} \ {NoName}
      First(n) == all[Min({i \in DOMAIN all : Element(all[i]).name = n})]
      Property(t) == CASE t = None -> Schema("any")
                       [] t # None /\ IsScalar(t) -> Schema("scalar")
                       [] t # None /\ ~IsScalar(t) /\ QualifiedName(t) \in expanding -> Schema("object")
                       [] OTHER -> SchemaFor[t, expanding]
  IN  [type |-> "object", properties |-> [n \in names |-> Property(TypeOf(First(n)))]]
-----------------------------------------------------------------------------
(***************************************************************************)
(* openapi.go and errors.go.                                               *)
(***************************************************************************)
ValueOr(e, key, fallback) ==
  LET values == Metadata(e, "REST") IN IF key \in DOMAIN values THEN values[key] ELSE fallback

Slots == {"GET", "PUT", "POST", "PATCH", "DELETE"}
\* PathItem.set
Slot(method) == IF method \in Slots THEN method ELSE "GET"
Place(e) == <<ValueOr(e, "path", <<Element(e).name>>), Slot(ValueOr(e, "method", "GET"))>>
Status(e) == ValueOr(e, "successStatus", "200")

ProblemDetails == <<"ProblemDetails">>
UsesDefault(e) ==
  Annotated(e, "ErrorModel") =>
    LET values == Metadata(e, "ErrorModel")
    IN  "schemaRef" \in DOMAIN values => values["schemaRef"] = <<>>
ErrorSchemaRef(e) == IF UsesDefault(e) THEN ProblemDetails ELSE Metadata(e, "ErrorModel")["schemaRef"]

\* paramSchemaType: the definition a parameter is typed by, None for others.
ParamSchemaType(p) ==
  IF TypeOf(p) = None THEN None
  ELSE IF ~IsScalar(TypeOf(p)) /\ Element(TypeOf(p)).kind = "Definition" THEN TypeOf(p) ELSE None

Directed(e, dir) == Only(Usages(e), {p \in ToSet(Usages(e)) : Direction(p) = dir})
Params(e, dir) == Only(Directed(e, dir), {p \in ToSet(Directed(e, dir)) : ParamSchemaType(p) # None})

\* A Go map after the assignments m[keys[i]] = values[i]: of two to one key the last.
Assigned(keys, values) == [k \in Range(keys) |-> values[Max({i \in DOMAIN keys : keys[i] = k})]]

\* No schema, the reference, or an object that wraps a reference for each
\* parameter.
BodySchema(e, dir) ==
  LET params == Params(e, dir)
      names == [i \in DOMAIN params |-> Element(params[i]).name]
      refs == [i \in DOMAIN params |-> QualifiedName(ParamSchemaType(params[i]))]
  IN  [form |-> CASE Len(params) = 0 -> "none" [] Len(params) = 1 -> "ref" [] Len(params) > 1 -> "object",
       refs |-> Assigned(names, refs)]

Operation(e) ==
  [id |-> Element(e).name, status |-> Status(e), request |-> BodySchema(e, "in"),
   response |-> BodySchema(e, "out"), error |-> ErrorSchemaRef(e)]

Operations == Only(UserElements, {e \in ToSet(UserElements) : IsOperation(e)})
Definitions == Only(UserElements, {e \in ToSet(UserElements) : IsSchemaDefinition(e)})

Paths ==
  Assigned([i \in DOMAIN Operations |-> Place(Operations[i])],
           [i \in DOMAIN Operations |-> Operation(Operations[i])])
Components ==
  Assigned([i \in DOMAIN Definitions |-> QualifiedName(Definitions[i])],
           [i \in DOMAIN Definitions |-> SchemaFor[Definitions[i], {}]])

\* Seeded fault: the last operation decides.
NeedProblemDetailsLast == Operations # <<>> /\ UsesDefault(Last(Operations))

NeedProblemDetails == \E e \in ToSet(Operations) : UsesDefault(e)

Schemas ==
  IF NeedProblemDetails THEN With(Components, {ProblemDetails}, LAMBDA c : Schema("object")) ELSE Components

(***************************************************************************)
(* adapter.go: the methods of the adapter, and those of the domain port.   *)
(* Names are spelt with the characters of identifiers; those in quotes are *)
(* left out.                                                               *)
(***************************************************************************)
\* exported
Exported(name) ==
  LET letters == Letters(name)
  IN  [i \in DOMAIN letters |-> IF i = 1 THEN Capital(letters[1]) ELSE letters[i]]

\* goModelType: the segments of the qualified name, run together.
GoModelType(qualified) == FlattenSeq([i \in DOMAIN qualified |-> Letters(qualified[i])])

\* The Go type of a body: None for no body.
BodyType(e, dir) ==
  IF Len(Directed(e, dir)) = 1 /\ Len(Params(e, dir)) = 1
    THEN GoModelType(QualifiedName(ParamSchemaType(Head(Params(e, dir))))) ELSE None

\* Seeded fault: parameters that are no definitions do not matter.
BoundLax(e, dir) == Len(Params(e, dir)) <= 1
Bound(e, dir) == Len(Directed(e, dir)) <= 1 /\ Len(Params(e, dir)) = Len(Directed(e, dir))

RestOp(e) ==
  [id |-> Element(e).name, status |-> Status(e), in |-> BodyType(e, "in"), out |-> BodyType(e, "out"),
   domain |-> IF Performed(e) = None THEN NoName ELSE Element(Performed(e)).name,
   wired |-> Bound(e, "in") /\ Bound(e, "out") /\ Performed(e) # None
             /\ Element(Performed(e)).name # NoName]

\* A method for each domain action.  Its types are those of one operation, the
\* first by name, that performs it.
DomainPort(ops) ==
  LET wired == {op \in ops : op.wired}
      One(d) == CHOOSE op \in wired : op.domain = d
  IN  [d \in {op.domain : op \in wired} |-> <<One(d).in, One(d).out>>]

RestOps == [i \in DOMAIN Operations |-> RestOp(Operations[i])]

BuildDocument ==
  [status |-> "emitted", paths |-> Paths, schemas |-> Schemas,
   adapter |-> RestOps, port |-> DomainPort(ToSet(RestOps))]
-----------------------------------------------------------------------------
\* Emit, or `sysgo gen openapi': any diagnostic refuses the model.
Emit ==
  /\ pass = "done" /\ document.status = "none"
  /\ document' = IF diagnostics # <<>> THEN [status |-> "refused"] ELSE BuildDocument
  /\ UNCHANGED vars

ContractInit == Init /\ document = [status |-> "none"]
ContractNext == (Next /\ UNCHANGED document) \/ Emit
ContractSpec == ContractInit /\ [][ContractNext]_contractVars /\ Fairness

Emitted == document.status = "emitted"
-----------------------------------------------------------------------------
(***************************************************************************)
(* What an operation in the document refers to is a component of the       *)
(* document, unless paramSchemaType took a definition that "becomes" none: *)
(* one without usages, one that is an operation, or a bundled one.  So is  *)
(* the schema in which it reports its errors, whatever the operations      *)
(* after it do, unless @ErrorModel names it, be it by the default's name.  *)
(***************************************************************************)
BecomesNone(t) == Usages(t) = <<>> \/ IsOperation(t) \/ Head(QualifiedName(t)) \in Bundled
References(op) == Range(op.request.refs) \cup Range(op.response.refs)

ReferencesResolve ==
  Emitted =>
    \A op \in Range(document.paths) :
      /\ \A c \in References(op) \ DOMAIN document.schemas :
           \E t \in Symbols(Tree) : QualifiedName(t) = c /\ BecomesNone(t)
      /\ op.error \in DOMAIN document.schemas
         \/ \E e \in ToSet(Operations) : ~UsesDefault(e) /\ op.error = ErrorSchemaRef(e)

(***************************************************************************)
(* "Attributes inherited through the specialization chain (flattened)" and *)
(* "own attribute wins": the schema of a definition has a property for     *)
(* each name of its attributes and of those it can inherit, the one at the *)
(* shortest way along the supertypes, in whatever circles they run; and    *)
(* an attribute of another definition has the properties of that one.  But *)
(* the default of error schemas takes the place of its namesake.           *)
(***************************************************************************)
AttributesOf(t) == UNION {ToSet(Usages(a)) : a \in {t} \cup Ancestors(supers, t)}
NamesOf(attributes) == {Element(a).name : a \in attributes} \ {NoName}

Distance(t, a) ==
  LET level[k \in 0 .. Len(scopes)] ==
        IF k = 0 THEN {t} ELSE UNION {SuperSet(supers, s) : s \in level[k - 1]}
  IN  Min({k \in 0 .. Len(scopes) : a \in level[k]})

Nearest(t, n) ==
  LET named == {a \in AttributesOf(t) : Element(a).name = n}
      Far(a) == Distance(t, ParentOf(Tree, a))
  IN  {a \in named : \A b \in named : Far(a) <= Far(b)}

Describes(schema, t, type) ==
  CASE type = None -> schema.type = "any"
    [] type # None /\ IsScalar(type) -> schema.type = "scalar"
    [] OTHER -> /\ schema.type = "object"
                /\ DOMAIN schema.properties = IF type = t THEN {} ELSE NamesOf(AttributesOf(type))

UniqueNames ==
  LET types == {t \in Symbols(Tree) \ {Root} : Element(t).kind \in {"Definition", "TypeDecl"}}
  IN  \A s, t \in types : QualifiedName(s) = QualifiedName(t) => s = t

NearestAttributesWin ==
  Emitted /\ UniqueNames =>
    \A t \in {e \in ToSet(Definitions) : QualifiedName(e) = ProblemDetails => ~NeedProblemDetails} :
      LET properties == document.schemas[QualifiedName(t)].properties
      IN  /\ DOMAIN properties = NamesOf(AttributesOf(t))
          /\ \A n \in DOMAIN properties :
               \E a \in Nearest(t, n) : Describes(properties[n], t, TypeOf(a))

(***************************************************************************)
(* oapi-codegen.                                                           *)
(***************************************************************************)
\* Words begin with a capital, and what ends them is left out.
CamelCase(name) ==
  LET letters == Letters(name)
      words == [i \in DOMAIN letters |->
                  IF i = 1 \/ letters[i - 1] \in Separators THEN Capital(letters[i]) ELSE letters[i]]
  IN  Only(words, ToSet(words) \ Separators)

\* Of a schema.  The dots between its segments are separators.
TypeName(component) == FlattenSeq([i \in DOMAIN component |-> CamelCase(component[i])])

(***************************************************************************)
(* It accepts a document whose references resolve, whose operationIds, if  *)
(* given, are unique, and in which schemas of one type name are the same;  *)
(* and no component takes a name that the adapter declares.  (That none    *)
(* takes one that the server declares besides is supposed.)                *)
(***************************************************************************)
OwnNames == {<<"Adapter">>, <<"NewAdapter">>, <<"Domain">>}

Accepted ==
  LET schemas == document.schemas
      paths == document.paths
  IN  /\ \A op \in Range(paths) : References(op) \cup {op.error} \subseteq DOMAIN schemas
      /\ \A p, q \in DOMAIN paths : paths[p].id = paths[q].id => p = q \/ paths[p].id = NoName
      /\ \A c, d \in DOMAIN schemas : TypeName(c) = TypeName(d) => schemas[c] = schemas[d]
      /\ \A c \in DOMAIN schemas, n \in OwnNames : TypeName(c) # TypeName(n)

\* The type of a body as oapi-codegen names it, and as the adapter does.
Fits(body, type) ==
  CASE body.form = "none" -> type = None
    [] body.form = "ref" -> {type} = {TypeName(c) : c \in Range(body.refs)}
    [] body.form = "object" -> FALSE

\* What the Go compiler asks of the two in one package.  (An operation without
\* a name is a method without a name, which does not even parse.)
Compiles ==
  LET methods == document.adapter
      port == document.port
      server == Range(document.paths)
  IN  /\ \A i, j \in DOMAIN methods : Exported(methods[i].id) = Exported(methods[j].id) => i = j
      /\ {Exported(m.id) : m \in ToSet(methods)} = {CamelCase(op.id) : op \in server}
      /\ \A m \in ToSet(methods) : Exported(m.id) # <<>>
      /\ \A d, e \in DOMAIN port : Exported(d) = Exported(e) => d = e
      /\ \A m \in ToSet(methods), op \in server :
           m.wired /\ Exported(m.id) = CamelCase(op.id) =>
             /\ m.status = op.status
             /\ Fits(op.request, m.in) /\ Fits(op.response, m.out)
             /\ port[m.domain] = <<m.in, m.out>>

(***************************************************************************)
(* GenerateServer and GenerateAdapter in one package: if oapi-codegen      *)
(* accepts the document, the adapter implements the interface that is      *)
(* generated from it, and its calls fit the domain port, unless            *)
(*  - two operations stand in one place, of which the document keeps one;  *)
(*  - two perform domain actions of one name with other bodies;            *)
(*  - or names do not fit: the adapter upper-cases the first letter of an  *)
(*    operation or domain action (`buy' and `Buy' are one method) and runs *)
(*    the segments of a definition together (`api::Order' is apiOrder),    *)
(*    where oapi-codegen makes PlaceOrder of place_order, and ApiOrder.    *)
(***************************************************************************)
PlacesDiffer ==
  \A i, j \in DOMAIN Operations : Place(Operations[i]) = Place(Operations[j]) => i = j
PortsAgree ==
  \A a, b \in ToSet(RestOps) : a.wired /\ b.wired /\ a.domain = b.domain => a.in = b.in /\ a.out = b.out

MethodsFit ==
  LET name == [i \in DOMAIN Operations |-> Element(Operations[i]).name]
  IN  /\ \A i, j \in DOMAIN Operations : Exported(name[i]) = Exported(name[j]) => i = j
      /\ \A i \in DOMAIN Operations : Exported(name[i]) = CamelCase(name[i]) /\ Exported(name[i]) # <<>>
ActionsFit ==
  \A a, b \in ToSet(RestOps) : a.wired /\ b.wired /\ Exported(a.domain) = Exported(b.domain) => a.domain = b.domain
Bodies(e) == {QualifiedName(ParamSchemaType(p)) : p \in ToSet(Params(e, "in")) \cup ToSet(Params(e, "out"))}
TypesFit ==
  \A e \in ToSet(Operations) : RestOp(e).wired => \A c \in Bodies(e) : GoModelType(c) = TypeName(c)

AdapterFitsServer ==
  Emitted /\ Accepted => (Compiles <=> PlacesDiffer /\ PortsAgree /\ MethodsFit /\ ActionsFit /\ TypesFit)
=============================================================================
