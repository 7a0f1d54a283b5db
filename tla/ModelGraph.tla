------------------------------ MODULE ModelGraph ------------------------------
(***************************************************************************)
(* The element graph of internal/core/model (resolve.go, model.go) and     *)
(* what internal/core/mapping (helpers.go) reads off it, as operators on a *)
(* graph g: its elements, g.nodes, a function from identities to JSON      *)
(* objects; the memory g.objects behind them; and the owner, g.owner, that *)
(* Build has given to each.                                                *)
(***************************************************************************)
EXTENDS Overlay

CONSTANTS Rank(_),        \* the place of a string in the order of strings
          Relationships,  \* element types that isRelationshipType accepts
          Segments(_)     \* the names in a type that is given as a string

FirstOf(s, t) == IF s # "" THEN s ELSE t

ElementID(el) == FirstOf(StrOf(el, "id"), StrOf(el, "elementId"))
DeclaredName(el) == FirstOf(StrOf(el, "declaredName"), StrOf(el, "name"))
Kind(el) == StrOf(el, "kind")
BoolOf(el, k) == k \in DOMAIN el /\ "bool" \in DOMAIN el[k] /\ el[k].bool

\* A reference is a bare identity or an object with one; "" is none.
RefID(mem, v) ==
  CASE IsStr(v) -> v.str
    [] IsObj(v) -> StrOf(mem[v.obj], "id")
    [] OTHER -> ""
\* A field with a list of references, or a single one.
RefList(mem, el, k) ==
  CASE k \notin DOMAIN el -> <<>>
    [] k \in DOMAIN el /\ "refs" \in DOMAIN el[k] -> el[k].refs
    [] OTHER -> IF RefID(mem, el[k]) = "" THEN <<>> ELSE <<RefID(mem, el[k])>>

Once(ids) ==
  FlattenSeq([i \in DOMAIN ids |-> IF \E j \in 1 .. i - 1 : ids[j] = ids[i] THEN <<>> ELSE <<ids[i]>>])

\* What the relationships of el lead to: membership hops.
Reached(mem, rel) ==
  RefList(mem, rel, "ownedRelatedElement") \o
  (IF "memberElement" \in DOMAIN rel THEN <<RefID(mem, rel.memberElement)>> ELSE <<>>)
Hops(nodes, mem, el) ==
  LET rels == Only(RefList(mem, el, "ownedRelationship"), DOMAIN nodes)
  IN  CHOOSE hops \in {FlattenSeq([i \in DOMAIN ids |-> Reached(mem, nodes[ids[i]])]) : ids \in {rels}} : TRUE

\* resolveChildren: the derived list where there is one, or else the hops.
ResolveChildren(nodes, mem, id) ==
  LET el == nodes[id]
      derived == RefList(mem, el, "ownedElement")
      listed == IF derived # <<>> THEN derived ELSE Hops(nodes, mem, el)
  IN  CHOOSE children \in {Once(found) : found \in {Only(ids, DOMAIN nodes) : ids \in {listed}}} : TRUE

Owned(g, id) == ResolveChildren(g.nodes, g.objects, id)

Roots(g, contained) ==
  LET roots == {id \in DOMAIN g.nodes : id \notin contained /\ Kind(g.nodes[id]) \notin Relationships}
      Before(i, j) ==
        LET n == Rank(DeclaredName(g.nodes[i]))
            m == Rank(DeclaredName(g.nodes[j]))
        IN  n < m \/ (n = m /\ Rank(i) < Rank(j))
  IN  CHOOSE sorted \in {Arranged(found, {p \in (DOMAIN found) \X (DOMAIN found) : Before(found[p[1]], found[p[2]])}) :
                         found \in {SetToSeq(roots)}} : TRUE

QualifiedName(g, id) ==
  LET name[i \in DOMAIN g.nodes] ==
        LET own == DeclaredName(g.nodes[i])
        IN  IF g.owner[i] = None \/ DeclaredName(g.nodes[g.owner[i]]) = "" THEN <<own>>
            ELSE Append(name[g.owner[i]], own)
  IN  name[id]
-----------------------------------------------------------------------------
(***************************************************************************)
(* helpers.go.                                                             *)
(***************************************************************************)
IsLibrary(el) == Kind(el) = "LibraryPackage" \/ BoolOf(el, "library")

\* typeName: a type given as a string, or the target of the first
\* FeatureTyping that leads somewhere.
Typings(g, el) ==
  LET rels == SelectSeq(RefList(g.objects, el, "ownedRelationship"),
                        LAMBDA id : id \in DOMAIN g.nodes /\ Kind(g.nodes[id]) = "FeatureTyping")
      target(i) ==
        LET rel == g.nodes[rels[i]]
        IN  IF "type" \in DOMAIN rel THEN RefID(g.objects, rel.type) ELSE ""
  IN  SelectSeq([i \in DOMAIN rels |-> target(i)], LAMBDA id : id \in DOMAIN g.nodes)

TypeName(g, el) ==
  LET given == FirstOf(StrOf(el, "type"), StrOf(el, "declaredType"))
  IN  CASE given # "" -> Segments(given)
        [] given = "" /\ Typings(g, el) # <<>> -> QualifiedName(g, Head(Typings(g, el)))
        [] OTHER -> <<>>

HasIdentity(g, id) ==
  \/ BoolOf(g.nodes[id], "aggregate")
  \/ \E c \in ToSet(Owned(g, id)) :
       /\ Kind(g.nodes[c]) \in {"AttributeUsage", "ReferenceUsage"}
       /\ \/ BoolOf(g.nodes[c], "identity")
          \/ DeclaredName(g.nodes[c]) \in {"id", "identifier", "uuid", "guid"}

Stereotype(el) == StrOf(el, "stereotype")

\* Parts: the stereotype, or else whether there is an identity.
PartClass(g, id) ==
  LET stereotype == Stereotype(g.nodes[id])
  IN  CASE stereotype \in {"value-object", "value", "valueobject"} -> "value"
        [] stereotype \in {"domain-service", "service"} -> "service"
        [] stereotype \in {"event", "domain-event"} -> "event"
        [] stereotype \in {"aggregate", "entity"} -> stereotype
        [] OTHER -> IF HasIdentity(g, id) THEN "aggregate" ELSE "value"

\* Ports: only the stereotype makes one driving.
PortClass(g, id) ==
  IF Stereotype(g.nodes[id]) \in {"driving-port", "driving", "in"} THEN "in" ELSE "out"

\* What classify adds to a context for an element.
Classes(g, id) ==
  LET kind == Kind(g.nodes[id])
  IN  CASE IsLibrary(g.nodes[id]) -> <<>>
        [] ~IsLibrary(g.nodes[id]) /\ kind = "PartDefinition" -> <<PartClass(g, id)>>
        [] ~IsLibrary(g.nodes[id]) /\ kind \in {"AttributeDefinition", "ItemDefinition"} -> <<"value">>
        [] ~IsLibrary(g.nodes[id]) /\ kind = "PortDefinition" -> <<PortClass(g, id)>>
        [] ~IsLibrary(g.nodes[id]) /\ kind = "ActionDefinition" -> <<"usecase", "in">>
        [] OTHER -> <<>>
=============================================================================
