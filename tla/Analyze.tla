------------------------------- MODULE Analyze -------------------------------
(***************************************************************************)
(* AnalyzeUnits of engine/hir (resolve.go): the units are parsed each in a *)
(* goroutine of its own, then one goroutine builds the symbol tree of all  *)
(* of them and runs over it pass by pass: imports, supertypes,             *)
(* relationship clauses, and the references in action bodies.              *)
(*                                                                         *)
(* A symbol has relationship clauses `rels' [kind, path], and `refs'       *)
(* [kind, path], the references of its body, whose kind is the pass that   *)
(* resolves them.  Neither has an empty path.                              *)
(***************************************************************************)
EXTENDS Names, FiniteSets, TLC

CONSTANTS Workspaces,  \* sequences of units, as they will be when parsed
          Cap          \* runtime.GOMAXPROCS(0)

ASSUME CapAssumption == Cap \in Nat \ {0}
ASSUME NoneAssumption == None # Root
\* Files of parsed members, each in a symbol before it; no path is empty.
ASSUME WorkspacesAssumption ==
  \A w \in Workspaces : IsSequence(w) /\ \A i \in DOMAIN w :
    /\ IsSequence(w[i])
    /\ \A k \in DOMAIN w[i] :
         LET m == w[i][k]
         IN  /\ m.what \in {"symbol", "import"}
             /\ m.up \in 0 .. k - 1 /\ (m.up = 0 \/ w[i][m.up].what = "symbol")
             /\ m.what = "import" => IsSequence(m.path) /\ m.path # <<>>
             /\ m.what = "symbol" =>
                  /\ IsSequence(m.rels) /\ \A n \in DOMAIN m.rels : IsSequence(m.rels[n].path) /\ m.rels[n].path # <<>>
                  /\ IsSequence(m.refs) /\ \A n \in DOMAIN m.refs : IsSequence(m.refs[n].path) /\ m.refs[n].path # <<>>

VARIABLES units, files,      \* the units, and what has been parsed of them
          built,             \* how many members have been built, and what of them:
          scopes, children, specs,  \* the symbols, their symbols and their imports
          spawned, sem, wg,  \* parseUnits: units started, slots in use, WaitGroup
          worker,            \* its goroutines
          pass, at, nth,     \* the pass, the scope it is at, the clause of that scope
          supers,            \* supertypes, scope by scope
          walk, seen,        \* InheritedMember: its recursion, and what it has visited
          targets,           \* what the references were resolved to, None for nil
          diagnostics        \* references that were reported

treeVars == <<built, scopes, children, specs>>
parseVars == <<spawned, sem, wg, worker>>
walkVars == <<walk, seen>>
passVars == <<at, nth, supers, walkVars, targets, diagnostics>>
vars == <<units, files, treeVars, parseVars, pass, passVars>>

RefPasses == {"performs", "successions", "accepts", "transitions", "loops"}
Following ==
  [imports |-> "supers", supers |-> "relations", relations |-> "performs",
   performs |-> "successions", successions |-> "accepts", accepts |-> "transitions",
   transitions |-> "loops", loops |-> "done"]
Passes == {"parse", "build", "done"} \cup DOMAIN Following

Tree == [files |-> files, scopes |-> scopes, children |-> children, imports |-> specs]
Unparsed == <<>>

Init ==
  /\ units \in Workspaces
  /\ files = [i \in DOMAIN units |-> Unparsed]
  /\ built = 0 /\ scopes = <<Root>>
  /\ children = [s \in {Root} |-> <<>>] /\ specs = [s \in {Root} |-> <<>>]
  /\ spawned = 0 /\ sem = 0 /\ wg = 0
  /\ worker = [i \in DOMAIN units |-> "none"]
  /\ pass = "parse" /\ at = 1 /\ nth = 1
  /\ supers = [s \in {} |-> <<>>]
  /\ walk = <<>> /\ seen = {}
  /\ targets = [r \in {} |-> None] /\ diagnostics = <<>>
-----------------------------------------------------------------------------
(***************************************************************************)
(* parseUnits.                                                             *)
(***************************************************************************)
ParseOnly ==
  /\ pass = "parse" /\ Len(units) = 1
  /\ files' = units /\ pass' = "build"
  /\ UNCHANGED <<units, treeVars, parseVars, passVars>>

\* wg.Add, a slot of the semaphore, and the goroutine.
Spawn ==
  /\ pass = "parse" /\ Len(units) # 1 /\ spawned < Len(units) /\ sem < Cap
  /\ spawned' = spawned + 1 /\ sem' = sem + 1 /\ wg' = wg + 1
  /\ worker' = [worker EXCEPT ![spawned + 1] = "parsing"]
  /\ UNCHANGED <<units, files, treeVars, pass, passVars>>

Parse(i) ==
  /\ worker[i] = "parsing"
  /\ files' = [files EXCEPT ![i] = units[i]]
  /\ worker' = [worker EXCEPT ![i] = "parsed"]
  /\ UNCHANGED <<units, treeVars, spawned, sem, wg, pass, passVars>>

\* The deferred calls run last in, first out.
Release(i) ==
  /\ worker[i] = "parsed"
  /\ sem' = sem - 1
  /\ worker' = [worker EXCEPT ![i] = "released"]
  /\ UNCHANGED <<units, files, treeVars, spawned, wg, pass, passVars>>

\* Seeded fault: the goroutine that is done leaves its count in the group.
FinishUncounted(i) ==
  /\ worker[i] = "released"
  /\ worker' = [worker EXCEPT ![i] = "done"]
  /\ UNCHANGED <<units, files, treeVars, spawned, sem, wg, pass, passVars>>

Finish(i) ==
  /\ worker[i] = "released"
  /\ wg' = wg - 1
  /\ worker' = [worker EXCEPT ![i] = "done"]
  /\ UNCHANGED <<units, files, treeVars, spawned, sem, pass, passVars>>

Work(i) == Parse(i) \/ Release(i) \/ Finish(i)

\* Seeded fault: a free slot for each unit passes for the end of the group.
WaitForSlots ==
  /\ pass = "parse" /\ Len(units) # 1 /\ spawned = Len(units) /\ sem < Cap
  /\ pass' = "build"
  /\ UNCHANGED <<units, files, treeVars, parseVars, passVars>>

Wait ==
  /\ pass = "parse" /\ Len(units) # 1 /\ spawned = Len(units) /\ wg = 0
  /\ pass' = "build"
  /\ UNCHANGED <<units, files, treeVars, parseVars, passVars>>

(***************************************************************************)
(* buildMember, for the members of all files in turn.                      *)
(***************************************************************************)
Declared == FlattenSeq([i \in DOMAIN files |-> [k \in DOMAIN files[i] |-> <<i, k>>]])
NextMember == Declared[built + 1]

\* f, with new values for the arguments in S.
With(f, S, Val(_)) == [x \in DOMAIN f \cup S |-> IF x \in S THEN Val(x) ELSE f[x]]

\* newSymbol.
NewSymbol(m) ==
  /\ scopes' = Append(scopes, m)
  /\ children' = With([children EXCEPT ![ParentOf(Tree, m)] = Append(@, m)], {m}, LAMBDA s : <<>>)
  /\ specs' = With(specs, {m}, LAMBDA s : <<>>)

AddImport(m) ==
  /\ specs' = [specs EXCEPT ![ParentOf(Tree, m)] = Append(@, m)]
  /\ UNCHANGED <<scopes, children>>

Build ==
  /\ pass = "build" /\ built < Len(Declared)
  /\ built' = built + 1
  /\ IF Node(Tree, NextMember).what = "symbol" THEN NewSymbol(NextMember) ELSE AddImport(NextMember)
  /\ UNCHANGED <<units, files, parseVars, pass, passVars>>

EndBuild ==
  /\ pass = "build" /\ built = Len(Declared)
  /\ pass' = "imports"
  /\ UNCHANGED <<units, files, treeVars, parseVars, passVars>>

(***************************************************************************)
(* The passes go over the tree scope by scope, those over relationship     *)
(* clauses clause by clause.                                               *)
(***************************************************************************)
AtScope == at <= Len(Scopes(Tree))
Scope == Scopes(Tree)[at]

ResolveImports ==
  /\ pass = "imports" /\ AtScope
  /\ LET imports == ImportsOf(Tree, Scope)
         refs == [i \in DOMAIN imports |-> <<imports[i], "import", 1>>]
         Target(r) == Absolute(Tree, Node(Tree, r[1]).path)
     IN  /\ targets' = With(targets, ToSet(refs), Target)
         /\ diagnostics' = diagnostics \o SelectSeq(refs, LAMBDA r : Target(r) = None)
  /\ at' = at + 1
  /\ UNCHANGED <<units, files, treeVars, parseVars, pass, nth, supers, walkVars>>

Rels == Node(Tree, Scope).rels
Rel == Rels[nth]
RelRef == <<Scope, "rel", nth>>
MoreRels == nth <= Len(Rels)
AtRel(p) == pass = p /\ AtScope /\ MoreRels

NextScope ==
  /\ pass \in {"supers", "relations"} /\ AtScope /\ ~MoreRels
  /\ at' = at + 1 /\ nth' = 1
  /\ UNCHANGED <<units, files, treeVars, parseVars, pass, supers, walkVars, targets, diagnostics>>

\* Seeded fault: only what has been built before s is found.
LexicalBackwards(t, s, rel) ==
  LET target == Resolve(t, ParentOf(t, s), rel.path)
      Position(m) == CHOOSE i \in DOMAIN Scopes(t) : Scopes(t)[i] = m
  IN  IF target # None /\ Position(target) > Position(s) THEN None ELSE target

\* A relationship clause of s is looked up in the scope around s.
Lexical(t, s, rel) == Resolve(t, ParentOf(t, s), rel.path)

\* Symbol.Supertypes, empty at first.
SupersOf(sup, s) == IF s \in DOMAIN sup THEN sup[s] ELSE <<>>

BuildSupertype ==
  /\ AtRel("supers")
  /\ LET target == Lexical(Tree, Scope, Rel)
         Extended(s) == Append(SupersOf(supers, s), target)
     IN  supers' = IF Rel.kind = "specializes" /\ target \in Symbols(Tree)
                     THEN With(supers, {Scope}, Extended) ELSE supers
  /\ nth' = nth + 1
  /\ UNCHANGED <<units, files, treeVars, parseVars, pass, at, walkVars, targets, diagnostics>>

MayInherit(rel) == rel.kind \in {"redefines", "subsets"} /\ Len(rel.path) = 1

Record(target) ==
  /\ targets' = With(targets, {RelRef}, LAMBDA r : target)
  /\ diagnostics' = IF target = None THEN Append(diagnostics, RelRef) ELSE diagnostics
  /\ nth' = nth + 1
  /\ walk' = <<>> /\ seen' = {}
  /\ UNCHANGED <<units, files, treeVars, parseVars, pass, at, supers>>

ResolveRelation ==
  /\ AtRel("relations") /\ walk = <<>>
  /\ Lexical(Tree, Scope, Rel) # None \/ ~MayInherit(Rel)
  /\ Record(Lexical(Tree, Scope, Rel))

(***************************************************************************)
(* InheritedMember walks from the enclosing type along the supertypes,     *)
(* into each type at most once.                                            *)
(***************************************************************************)
StartWalk ==
  /\ AtRel("relations") /\ walk = <<>>
  /\ Lexical(Tree, Scope, Rel) = None /\ MayInherit(Rel)
  /\ walk' = <<[type |-> ParentOf(Tree, Scope), next |-> 1]>>
  /\ seen' = {ParentOf(Tree, Scope)}
  /\ UNCHANGED <<units, files, treeVars, parseVars, pass, at, nth, supers, targets, diagnostics>>

Top == walk[Len(walk)]
Below == SubSeq(walk, 1, Len(walk) - 1)
Walking == AtRel("relations") /\ walk # <<>>
MoreSupers == Walking /\ Top.next <= Len(SupersOf(supers, Top.type))
Super == SupersOf(supers, Top.type)[Top.next]
Inherited == Member(Tree, Super, Rel.path[1])

WalkFound ==
  /\ MoreSupers /\ Inherited # None
  /\ Record(Inherited)

Advanced == Append(Below, [Top EXCEPT !.next = @ + 1])

WalkInto ==
  /\ MoreSupers /\ Inherited = None /\ Super \notin seen
  /\ walk' = Append(Advanced, [type |-> Super, next |-> 1])
  /\ seen' = seen \cup {Super}
  /\ UNCHANGED <<units, files, treeVars, parseVars, pass, at, nth, supers, targets, diagnostics>>

\* Seeded fault: a type seen before ends the walk of the one that names it.
WalkPastGivesUp ==
  /\ MoreSupers /\ Inherited = None /\ Super \in seen
  /\ walk' = Append(Below, [Top EXCEPT !.next = Len(SupersOf(supers, Top.type)) + 1])
  /\ UNCHANGED <<units, files, treeVars, parseVars, pass, at, nth, supers, seen, targets, diagnostics>>

WalkPast ==
  /\ MoreSupers /\ Inherited = None /\ Super \in seen
  /\ walk' = Advanced
  /\ UNCHANGED <<units, files, treeVars, parseVars, pass, at, nth, supers, seen, targets, diagnostics>>

WalkUp ==
  /\ Walking /\ ~MoreSupers
  /\ IF Len(walk) = 1
       THEN Record(None)
       ELSE /\ walk' = Below
            /\ UNCHANGED <<units, files, treeVars, parseVars, pass, at, nth, supers, seen,
                           targets, diagnostics>>

\* resolvePerforms, -Successions, -Accepts, -Transitions and -Loops: in the
\* scope itself, and nothing is reported.
ResolveRefs ==
  /\ pass \in RefPasses /\ AtScope
  /\ LET refs == Node(Tree, Scope).refs
         own == {j \in DOMAIN refs : refs[j].kind = pass}
     IN  targets' = With(targets, {<<Scope, "ref", j>> : j \in own},
                         LAMBDA r : Resolve(Tree, Scope, refs[r[3]].path))
  /\ at' = at + 1
  /\ UNCHANGED <<units, files, treeVars, parseVars, pass, nth, supers, walkVars, diagnostics>>

NextPass ==
  /\ pass \in DOMAIN Following /\ ~AtScope
  /\ pass' = Following[pass] /\ at' = 1
  /\ UNCHANGED <<units, files, treeVars, parseVars, nth, supers, walkVars, targets, diagnostics>>

Main ==
  \/ ParseOnly \/ Spawn \/ Wait \/ Build \/ EndBuild
  \/ ResolveImports \/ BuildSupertype
  \/ ResolveRelation \/ NextScope
  \/ StartWalk \/ WalkFound \/ WalkInto \/ WalkPast \/ WalkUp
  \/ ResolveRefs \/ NextPass

Next == Main \/ \E i \in DOMAIN units : Work(i)

Spec == Init /\ [][Next]_vars

\* Go runs every goroutine that can run.  Workspaces may differ in size.
MaxUnits == CHOOSE n \in {Len(w) : w \in Workspaces} : \A w \in Workspaces : Len(w) <= n
Fairness ==
  /\ WF_vars(Main)
  /\ \A i \in 1 .. MaxUnits : WF_vars(i \in DOMAIN units /\ Work(i))

FairSpec == Spec /\ Fairness
-----------------------------------------------------------------------------
(***************************************************************************)
(* parseUnits, "in parallel and order-preserving": when the symbol tree is *)
(* being built, every unit has been parsed into the place it was given in, *)
(* in whatever order the goroutines ran; and never do more of them parse   *)
(* at once than there are processors.                                      *)
(***************************************************************************)
UnitsAreParsed ==
  /\ pass # "parse" => files = units
  /\ Cardinality({i \in DOMAIN units : worker[i] = "parsing"}) <= Cap

(***************************************************************************)
(* The types that t can inherit from: the smallest set of types that holds *)
(* t's supertypes and the supertypes of its members.                       *)
(***************************************************************************)
SuperSet(sup, t) == ToSet(SupersOf(sup, t))
Ancestors(sup, t) ==
  LET all == UNION {SuperSet(sup, s) : s \in DOMAIN sup}
  IN  {a \in all : \A C \in SUBSET all :
         SuperSet(sup, t) \subseteq C /\ (\A c \in C : SuperSet(sup, c) \subseteq C) => a \in C}

(***************************************************************************)
(* InheritedMember, "walking the specialization chain transitively.  It is *)
(* cycle-safe": what a clause is resolved to is what the finished tree has *)
(* for its name around the scope or else, for redefinitions and subsetting *)
(* of a single name, a member that the enclosing type inherits; it is nil  *)
(* only if there is neither, however the supertypes are knotted.           *)
(***************************************************************************)
InheritedBy(t, sup, owner, n) == {Member(t, a, n) : a \in Ancestors(sup, owner)} \ {None}

RelationOK(t, sup, s, rel, target) ==
  IF Lexical(t, s, rel) # None \/ ~MayInherit(rel)
    THEN target = Lexical(t, s, rel)
    ELSE LET inherited == InheritedBy(t, sup, ParentOf(t, s), rel.path[1])
         IN  IF inherited = {} THEN target = None ELSE target \in inherited

RelationsAreSound ==
  \A r \in DOMAIN targets :
    r[2] = "rel" => RelationOK(Tree, supers, r[1], Node(Tree, r[1]).rels[r[3]], targets[r])

(***************************************************************************)
(* AnalyzeUnits ends, whatever cycles the models have.                     *)
(***************************************************************************)
Terminates == <>(pass = "done")
=============================================================================
