------------------------------ MODULE Mapping ------------------------------
(***************************************************************************)
(* What internal/core/mapping makes of one element: names, Go types,       *)
(* fields with their multiplicity, methods, ports and use cases (mapping.go*)
(* and helpers.go), as operators on the graph.                             *)
(*                                                                         *)
(* A Go name is the sequence of its words in lower case, which is what     *)
(* GoName and snake (gotmpl) keep of a declared name.  A Go type has       *)
(* prefixes ("*", "[]", "map" for a map by strings, and no "*" behind     *)
(* that), the selector of a package ("" for a generated type of the        *)
(* project), a name, and the path to import, "" if none has been given.    *)
(***************************************************************************)
EXTENDS ModelGraph, Lists

CONSTANTS Words,            \* of names that have any: their words
          GoTypeOf(_),      \* the Go type that a string x-go-type stands for
          TypeMapping,      \* type-mapping: from qualified or simple names to Go types
          RepositoryNames   \* names that contain "repo"

ASSUME WordsAssumption == \A name \in DOMAIN Words : IsSequence(Words[name])

SplitWords(name) == IF name \in DOMAIN Words THEN Words[name] ELSE <<>>
GoName(name) == IF SplitWords(name) = <<>> THEN <<"x">> ELSE SplitWords(name)
NameOf(el) == IF StrOf(el, "goName") # "" THEN SplitWords(StrOf(el, "goName")) ELSE GoName(DeclaredName(el))

\* Sorted by name, that is word by word.
Precedes(v, w) ==
  \E i \in 1 .. Len(w) :
    /\ \A j \in 1 .. i - 1 : j <= Len(v) /\ v[j] = w[j]
    /\ i = Len(v) + 1 \/ (i <= Len(v) /\ Rank(v[i]) < Rank(w[i]))

-----------------------------------------------------------------------------
ScalarMap ==
  [Real |-> "float64", Rational |-> "float64", Number |-> "float64", Integer |-> "int64",
   Natural |-> "uint64", Boolean |-> "bool", String |-> "string", Complex |-> "complex128",
   ScalarValue |-> "string"]

GoType(sel, name) == [prefix |-> <<>>, sel |-> sel, name |-> name, import |-> ""]
Builtin(name) == GoType("builtin", <<name>>)
Sibling(name) == GoType("", name)

\* x-go-type with x-go-type-import.
Hinted(el) == [GoTypeOf(StrOf(el, "goType")) EXCEPT !.import = StrOf(el, "goTypeImport")]

\* x-go-type, the type mapping by qualified name and by name, scalars, and a
\* type of the project, in this order.
ResolveGoType(g, u) ==
  LET el == g.nodes[u]
      type == TypeName(g, el)
      base == Last(type)
      mapped == SelectSeq(<<type, <<base>>>>, LAMBDA name : name \in DOMAIN TypeMapping)
  IN  CASE StrOf(el, "goType") # "" -> Hinted(el)
        [] StrOf(el, "goType") = "" /\ type = <<>> -> Builtin("any")
        [] OTHER -> IF mapped # <<>> THEN TypeMapping[Head(mapped)]
                    ELSE IF base \in DOMAIN ScalarMap THEN Builtin(ScalarMap[base])
                    ELSE Sibling(GoName(base))

\* The import that is registered with a type, and with the hints of an element.
Ask(type) ==
  IF type.sel \in {"", "builtin"} \/ type.import = "" THEN <<>>
  ELSE <<[sel |-> type.sel, path |-> type.import]>>
Hint(el) == IF StrOf(el, "goType") = "" THEN <<>> ELSE Ask(Hinted(el))
Asks(g, features) ==
  CHOOSE asks \in {FlattenSeq(asked) :
    asked \in {[i \in DOMAIN fs |-> Ask(ResolveGoType(g, fs[i]))] : fs \in {features}}} : TRUE
-----------------------------------------------------------------------------
(***************************************************************************)
(* Fields.                                                                 *)
(***************************************************************************)
IntOf(el, k) == IF k \in DOMAIN el /\ "int" \in DOMAIN el[k] THEN el[k].int ELSE 0

Infinity == -1

\* The literals under a MultiplicityRange, through two elements in between.
Bounds(g, range) ==
  LET literals[depth \in 0 .. 2, id \in DOMAIN g.nodes] ==
        LET owned == Owned(g, id)
        IN  FlattenSeq([i \in DOMAIN owned |->
              CASE Kind(g.nodes[owned[i]]) = "LiteralInfinity" -> <<Infinity>>
                [] Kind(g.nodes[owned[i]]) = "LiteralInteger" -> <<IntOf(g.nodes[owned[i]], "value")>>
                [] OTHER -> IF depth < 2 THEN literals[depth + 1, owned[i]] ELSE <<>>])
  IN  literals[0, range]

\* The first MultiplicityRange decides; one bound is the upper one.
Ranges(g, u) == SelectSeq(Owned(g, u), LAMBDA c : Kind(g.nodes[c]) = "MultiplicityRange")
LowerIsZero(g, u) ==
  LET bounds == Bounds(g, Head(Ranges(g, u))) IN Len(bounds) > 1 /\ Head(bounds) = 0
UpperIsMany(g, u) ==
  LET bounds == Bounds(g, Head(Ranges(g, u))) IN bounds # <<>> /\ (Last(bounds) = Infinity \/ Last(bounds) > 1)

IsOptional(g, u) ==
  LET el == g.nodes[u]
  IN  \/ BoolOf(el, "optional") \/ BoolOf(el, "isOptional")
      \/ Ranges(g, u) # <<>> /\ LowerIsZero(g, u)
      \/ Ranges(g, u) = <<>> /\ "lowerBound" \in DOMAIN el /\ IntOf(el, "lowerBound") = 0

IsMany(g, u) ==
  LET el == g.nodes[u]
  IN  \/ BoolOf(el, "many") \/ BoolOf(el, "isMany")
      \/ Ranges(g, u) # <<>> /\ UpperIsMany(g, u)
      \/ Ranges(g, u) = <<>> /\ (StrOf(el, "upperBound") = "*" \/ IntOf(el, "upperBound") \notin 0 .. 1)

Prefixed(prefix, type) ==
  [prefix |-> prefix \o type.prefix, sel |-> type.sel, name |-> type.name, import |-> type.import]

BuildField(g, u) ==
  LET optional == IsOptional(g, u)
      pointer == optional /\ ~IsMany(g, u) /\ ~BoolOf(g.nodes[u], "skipOptionalPointer")
      prefix == CASE IsMany(g, u) -> <<"[]">> [] pointer -> <<"*">> [] OTHER -> <<>>
  IN  [of |-> u, optional |-> optional, type |-> Prefixed(prefix, ResolveGoType(g, u))]

Usages(g, id) ==
  Only(Owned(g, id), {c \in DOMAIN g.nodes :
    Kind(g.nodes[c]) \in {"AttributeUsage", "PartUsage", "ItemUsage", "ReferenceUsage"}})
BuildFields(g, id) == LET usages == Usages(g, id) IN [i \in DOMAIN usages |-> BuildField(g, usages[i])]
-----------------------------------------------------------------------------
(***************************************************************************)
(* Methods: the types of their parameters and results.                     *)
(***************************************************************************)
IsResult(el) == FirstOf(StrOf(el, "direction"), StrOf(el, "FeatureDirection")) \in {"out", "return"}

DirectedFeatures(g, id) ==
  Only(Owned(g, id), {c \in DOMAIN g.nodes :
    \/ Kind(g.nodes[c]) = "ParameterUsage"
    \/ /\ Kind(g.nodes[c]) \in {"AttributeUsage", "ItemUsage", "PartUsage", "ReferenceUsage"}
       /\ "direction" \in DOMAIN g.nodes[c]})
Items(g, id) ==
  Only(Owned(g, id), {c \in DOMAIN g.nodes :
    /\ Kind(g.nodes[c]) \in {"ItemUsage", "AttributeUsage", "ReferenceUsage", "PortUsage"}
    /\ "direction" \in DOMAIN g.nodes[c]})

Types(g, features) == [i \in DOMAIN features |-> ResolveGoType(g, features[i])]
Given(g, features) == Types(g, Only(features, {c \in DOMAIN g.nodes : ~IsResult(g.nodes[c])}))
Results(g, features) == Types(g, Only(features, {c \in DOMAIN g.nodes : IsResult(g.nodes[c])}))

Method(g, features) ==
  [params |-> Given(g, features), results |-> Append(Results(g, features), Builtin("error"))]

\* An element without operations is one itself.
Operations(g, id) ==
  LET operations == Only(Owned(g, id), {c \in DOMAIN g.nodes :
                      Kind(g.nodes[c]) \in {"ActionUsage", "OperationUsage", "ActionDefinition"}})
  IN  IF operations = <<>> THEN <<id>> ELSE operations
BuildMethods(g, id) ==
  LET operations == Operations(g, id)
  IN  [i \in DOMAIN operations |-> Method(g, DirectedFeatures(g, operations[i]))]

PortKind(el) ==
  CASE Stereotype(el) \in {"driving-port", "driving", "in"} -> "usecase"
    [] Stereotype(el) \in {"repository", "repo"} -> "repository"
    [] Stereotype(el) = "gateway" -> "gateway"
    [] OTHER -> IF DeclaredName(el) \in RepositoryNames THEN "repository" ELSE "gateway"

\* What a use case is called with, and what it returns.
InputOf(name) == Append(name, "input")
OutputOf(name) == Append(name, "output")
UseCaseMethod(name) ==
  [params |-> <<Sibling(InputOf(name))>>, results |-> <<Sibling(OutputOf(name)), Builtin("error")>>]

(***************************************************************************)
(* An element as a part of a context.  A use case comes with its port;     *)
(* input and output are the fields of its DTOs.                            *)
(***************************************************************************)
Structs == {"value", "aggregate", "entity", "event"}

Item(g, id, class) ==
  LET el == g.nodes[id]
      name == NameOf(el)
      isUseCase == Kind(el) = "ActionDefinition"
  IN  [of |-> id, class |-> class,
       name |-> IF class = "in" /\ isUseCase THEN name \o <<"use", "case">> ELSE name,
       kind |-> IF class \in {"in", "out"} /\ ~isUseCase THEN PortKind(el) ELSE "usecase",
       fields |-> IF class \in Structs THEN BuildFields(g, id) ELSE <<>>,
       methods |-> CASE class = "service" -> BuildMethods(g, id)
                     [] class \in {"in", "out"} /\ ~isUseCase -> <<Method(g, Items(g, id))>>
                     [] isUseCase -> <<UseCaseMethod(name)>>
                     [] OTHER -> <<>>,
       input |-> IF isUseCase THEN Given(g, DirectedFeatures(g, id)) ELSE <<>>,
       output |-> IF isUseCase THEN Results(g, DirectedFeatures(g, id)) ELSE <<>>]

\* The imports that are registered while it is made.
AskedFor(g, id, class) ==
  CASE class \in Structs -> Asks(g, Usages(g, id))
    [] class = "service" ->
         LET operations == Operations(g, id)
         IN  FlattenSeq([i \in DOMAIN operations |->
               Hint(g.nodes[operations[i]]) \o Asks(g, DirectedFeatures(g, operations[i]))])
    [] class \in {"in", "out"} -> Asks(g, Items(g, id))
    [] OTHER -> Asks(g, DirectedFeatures(g, id))
=============================================================================
