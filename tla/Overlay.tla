------------------------------- MODULE Overlay -------------------------------
(***************************************************************************)
(* The overlay engine of internal/adapter/overlay (overlay.go, matcher.go) *)
(* on the JSON of a model: a document's actions update, remove and copy    *)
(* elements, one action after the other.                                   *)
(*                                                                         *)
(* A JSON object is a function from its fields to values; a value is a     *)
(* string, a truth value, a list of references, or the address of another  *)
(* object.  Go's maps are references: `objects' is the memory with the     *)
(* objects that stand in a field of an element or of an update, and two    *)
(* fields with one address share the object.  Objects in a field hold      *)
(* strings only ({"@id": ...}).                                            *)
(*                                                                         *)
(* Field names: id is @id, kind is @type, stereotype is x-ddd-stereotype,  *)
(* goType is x-go-type, library is isLibraryElement, identity is           *)
(* isIdentity; the others have their own names.                            *)
(***************************************************************************)
EXTENDS Lists

CONSTANTS Inputs,          \* sources of models, and documents
          Suffixed(_, _),  \* the identity of a copy
          None             \* no update, no owner

Str(s) == [str |-> s]
Bool(t) == [bool |-> t]
Refs(ids) == [refs |-> ids]
Obj(a) == [obj |-> a]

IsStr(v) == "str" \in DOMAIN v
IsObj(v) == "obj" \in DOMAIN v
ObjFields(o) == {k \in DOMAIN o : IsObj(o[k])}
Addresses(o) == {o[k].obj : k \in ObjFields(o)}

\* The object `new' laid over `old'.
Over(new, old) == [k \in DOMAIN new \cup DOMAIN old |-> IF k \in DOMAIN new THEN new[k] ELSE old[k]]

VARIABLES elements,  \* the array of elements
          objects,   \* the memory
          actions,   \* the document
          act, at,   \* the action, and the element that it has come to
          kept,      \* of a remove: the elements that stay
          removed,   \* and the identities of those that do not
          dupes,     \* of a copy: the copies
          status     \* the stage; "overlay" while actions are applied

actionVars == <<at, kept, removed, dupes>>
overlayVars == <<elements, objects, actions, act, actionVars>>

OverlayInit ==
  /\ act = 1 /\ at = 1
  /\ kept = <<>> /\ removed = {} /\ dupes = <<>>
-----------------------------------------------------------------------------
(***************************************************************************)
(* A target is a disjunction of conjunctions of comparisons (parseExpr);   *)
(* "$" is {{}}, byName:n and byType:t are one comparison "is".             *)
(***************************************************************************)
Truthy(v) ==
  CASE "bool" \in DOMAIN v -> v.bool
    [] "str" \in DOMAIN v -> v.str # ""
    [] OTHER -> TRUE

HasID(el) == "id" \in DOMAIN el /\ IsStr(el.id)
StrOf(o, k) == IF k \in DOMAIN o /\ IsStr(o[k]) THEN o[k].str ELSE ""

Compare(el, c) ==
  LET has == c.field \in DOMAIN el
  IN  CASE c.op = "exists" -> has /\ Truthy(el[c.field])
        [] c.op = "==" -> has /\ el[c.field] = c.value
        [] c.op = "!=" -> ~has \/ el[c.field] # c.value
        [] c.op = "is" -> StrOf(el, c.field) = c.value.str

Match(el, target) == \E clause \in target : \A c \in clause : Compare(el, c)

Action == actions[act]
\* What an action does, if several are asked for.
Op(action) ==
  CASE ~action.valid -> "fail"
    [] action.remove -> "remove"
    [] action.copy # "" -> "copy"
    [] action.update # None -> "update"
    [] OTHER -> "fail"

Doing(op) == status = "overlay" /\ act <= Len(actions) /\ Op(Action) = op
AtElement == at <= Len(elements)
El == elements[at]
Matched == Match(El, Action.target)
-----------------------------------------------------------------------------
(***************************************************************************)
(* mergeInto: a field that holds an object on both sides is merged in      *)
(* place, wherever else that object is used; any other is assigned, and an *)
(* object that is assigned is the document's own.                          *)
(***************************************************************************)
Merged(dst, src) == ObjFields(dst) \cap ObjFields(src)

MergeFields(dst, src) ==
  [k \in DOMAIN dst \cup DOMAIN src |->
     IF k \in DOMAIN src /\ k \notin Merged(dst, src) THEN src[k] ELSE dst[k]]

MergeObjects(mem, dst, src) ==
  [a \in DOMAIN mem |->
     IF \E k \in Merged(dst, src) : dst[k].obj = a
       THEN LET k == CHOOSE k \in Merged(dst, src) : dst[k].obj = a
            IN  Over(mem[src[k].obj], mem[a])
       ELSE mem[a]]

UpdateElement ==
  /\ Doing("update") /\ AtElement
  /\ IF Matched
       THEN /\ elements' = [elements EXCEPT ![at] = MergeFields(@, Action.update)]
            /\ objects' = MergeObjects(objects, El, Action.update)
       ELSE UNCHANGED <<elements, objects>>
  /\ at' = at + 1
  /\ UNCHANGED <<actions, act, kept, removed, dupes, status>>

RemoveElement ==
  /\ Doing("remove") /\ AtElement
  /\ IF Matched
       THEN /\ removed' = removed \cup (IF HasID(El) THEN {El.id.str} ELSE {})
            /\ UNCHANGED kept
       ELSE kept' = Append(kept, El) /\ UNCHANGED removed
  /\ at' = at + 1
  /\ UNCHANGED <<elements, objects, actions, act, dupes, status>>

\* Seeded fault: a shallow copy.
CopyShallow(el) == el

\* deepCopy, at new addresses.
CopyObjects(el) ==
  LET fields == SetToSeq(ObjFields(el))
  IN  [i \in DOMAIN fields |-> objects[el[fields[i]].obj]]
CopyFields(el) ==
  LET fields == SetToSeq(ObjFields(el))
  IN  [k \in DOMAIN el |->
         IF k \in ObjFields(el)
           THEN Obj(Len(objects) + CHOOSE i \in DOMAIN fields : fields[i] = k)
           ELSE el[k]]
Renamed(el, suffix) ==
  IF HasID(el)
    THEN LET id == Str(Suffixed(el.id.str, suffix))
         IN  Over([id |-> id, elementId |-> id], el)
    ELSE el

CopyElement ==
  /\ Doing("copy") /\ AtElement
  /\ IF Matched
       THEN /\ dupes' = Append(dupes, Renamed(CopyFields(El), Action.copy))
            /\ objects' = objects \o CopyObjects(El)
       ELSE UNCHANGED <<dupes, objects>>
  /\ at' = at + 1
  /\ UNCHANGED <<elements, actions, act, kept, removed, status>>

\* Seeded fault: the lists are cut at the first reference that goes.
PrunedTail(el) ==
  [k \in DOMAIN el |->
     IF k \in {"ownedRelationship", "ownedElement", "ownedRelatedElement"} /\ "refs" \in DOMAIN el[k]
       THEN LET ids == el[k].refs
                stay == {n \in 0 .. Len(ids) : \A i \in 1 .. n : ids[i] \notin removed}
            IN  Refs(SubSeq(ids, 1, CHOOSE n \in stay : \A m \in stay : m <= n))
       ELSE el[k]]

\* pruneRefs, in the lists of references.
Pruned(el) ==
  [k \in DOMAIN el |->
     IF k \in {"ownedRelationship", "ownedElement", "ownedRelatedElement"} /\ "refs" \in DOMAIN el[k]
       THEN Refs(Only(el[k].refs, ToSet(el[k].refs) \ removed))
       ELSE el[k]]

NextAction ==
  /\ \/ Doing("update") /\ UNCHANGED elements
     \/ Doing("remove") /\ elements' = [i \in DOMAIN kept |-> Pruned(kept[i])]
     \/ Doing("copy") /\ elements' = elements \o dupes
  /\ ~AtElement
  /\ act' = act + 1 /\ at' = 1 /\ kept' = <<>> /\ removed' = {} /\ dupes' = <<>>
  /\ UNCHANGED <<objects, actions, status>>

\* A target that does not parse, or nothing to do.
ActionFails ==
  /\ Doing("fail")
  /\ status' = "failed"
  /\ UNCHANGED overlayVars

ApplyDone ==
  /\ status = "overlay" /\ act > Len(actions)
  /\ status' = "index"
  /\ UNCHANGED overlayVars

Apply ==
  \/ UpdateElement \/ RemoveElement \/ CopyElement
  \/ NextAction \/ ActionFails \/ ApplyDone
=============================================================================
