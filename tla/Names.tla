-------------------------------- MODULE Names --------------------------------
(***************************************************************************)
(* The symbol tree of engine/hir (symbol.go) and the lookup of names in it *)
(* (resolve.go): members, imports, enclosing scopes.                       *)
(*                                                                         *)
(* A parsed file is the sequence of its members in the order in which      *)
(* buildMember visits them: symbols (packages, declarations, control       *)
(* nodes) and imports.  A member is known by its file and its position;    *)
(* `up' is the position of the member it stands in, 0 at the top of the    *)
(* file, where the members of all files meet in the root namespace.        *)
(*                                                                         *)
(* A tree t has the parsed files, t.files; the symbols built so far in the *)
(* order in which they were built, t.scopes, the root first; and for each  *)
(* symbol those that stand in it, t.children, and its imports, t.imports.  *)
(***************************************************************************)
EXTENDS Lists, FiniteSetsExt

CONSTANTS NoName,  \* the name of an anonymous declaration, and of the root
          None     \* no symbol: Go's nil

Root == <<0, 0>>
RootNode == [what |-> "symbol", up |-> 0, kind |-> "Root", name |-> NoName, rels |-> <<>>, refs |-> <<>>]

Node(t, m) == IF m = Root THEN RootNode ELSE t.files[m[1]][m[2]]
ParentOf(t, m) == IF Node(t, m).up = 0 THEN Root ELSE <<m[1], Node(t, m).up>>

\* Nil has no members.
Children(t, s) == IF s \in DOMAIN t.children THEN t.children[s] ELSE <<>>
ImportsOf(t, s) == t.imports[s]

\* The root and the symbols in preorder, as the passes visit them.
Scopes(t) == t.scopes
Symbols(t) == ToSet(Scopes(t))

\* The first of some symbols that is not nil.  (TLC computes what a variable is
\* bound to once.)
FirstAmong(ms) ==
  LET found == {i \in DOMAIN ms : ms[i] # None} IN IF found = {} THEN None ELSE ms[Min(found)]
FirstOf(ms) == CHOOSE m \in {FirstAmong(s) : s \in {ms}} : TRUE

\* Those of the name, with nil for the others.
Named(t, ms, n) == [i \in DOMAIN ms |-> IF Node(t, ms[i]).name = n THEN ms[i] ELSE None]

\* The first declaration of a name wins.
Member(t, s, n) == FirstOf(Named(t, Children(t, s), n))

\* From s, segment by segment.
Descend(t, s, path) == FoldLeft(LAMBDA m, n : Member(t, m, n), s, path)
Absolute(t, path) == Descend(t, Root, path)

\* What `import base::**' finds: a member of base before anything deeper, and
\* then whatever the first member with a match in its tree finds.
FindRecursive(t, base, n) ==
  LET find[s \in Symbols(t)] ==
        LET below == Children(t, s)
        IN  FirstOf(Named(t, below, n) \o [i \in DOMAIN below |-> find[below[i]]])
  IN  find[base]

Offer(t, imp, n) ==
  LET base == Absolute(t, imp.path)
  IN  CASE base = None -> None
        [] base # None /\ imp.mode = "deep" -> FindRecursive(t, base, n)
        [] base # None /\ imp.mode = "all" -> Member(t, base, n)
        [] OTHER -> IF Node(t, base).name = n THEN base ELSE None

ViaImports(t, s, n) ==
  LET imports == ImportsOf(t, s)
  IN  FirstOf([i \in DOMAIN imports |-> Offer(t, Node(t, imports[i]), n)])

\* The scopes from s outward; each asks its members, then its imports.
ResolveSimple(t, scope, n) ==
  LET outward[s \in Symbols(t)] ==
        FirstOf(<<Member(t, s, n), ViaImports(t, s, n),
                  IF s = Root THEN None ELSE outward[ParentOf(t, s)]>>)
  IN  outward[scope]

Resolve(t, scope, path) == Descend(t, ResolveSimple(t, scope, Head(path)), Tail(path))
=============================================================================
