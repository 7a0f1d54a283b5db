---------------------------- MODULE AnalyzeProofs ----------------------------
(***************************************************************************)
(* Proofs about Analyze and Contracts, for any workspace and any number of *)
(* processors: the units are parsed when the tree is built, relationship   *)
(* clauses are resolved to what they mean, however the supertypes are      *)
(* knotted, the transport adapter fits the server of the contract, and the *)
(* contract describes what it refers to.                                   *)
(***************************************************************************)
EXTENDS Contracts, ListFacts

(***************************************************************************)
(* parseUnits.  The units up to `spawned' have been started, in order;     *)
(* `sem' counts the goroutines that hold a slot and `wg' those that have   *)
(* not ended.  So when wg is 0 every goroutine has done its work.          *)
(***************************************************************************)
States == {"none", "parsing", "parsed", "released", "done"}
Holding == {i \in DOMAIN units : worker[i] \in {"parsing", "parsed"}}
Running == {i \in DOMAIN units : worker[i] \in {"parsing", "parsed", "released"}}

ParseInv ==
  /\ units \in Workspaces
  /\ files = [i \in DOMAIN units |-> files[i]]
  /\ spawned \in 0 .. Len(units)
  /\ worker \in [DOMAIN units -> States]
  /\ \A i \in DOMAIN units : worker[i] = "none" <=> i > spawned
  /\ \A i \in DOMAIN units : worker[i] \in {"parsed", "released", "done"} => files[i] = units[i]
  /\ sem = Cardinality(Holding) /\ sem <= Cap
  /\ wg = Cardinality(Running)
  /\ Len(units) = 1 => spawned = 0
  /\ pass \in Passes
  /\ pass # "parse" => files = units /\ \A i \in DOMAIN units : worker[i] \in {"none", "done"}

(***************************************************************************)
(* The passes.  Supertypes come before relationship clauses, and neither   *)
(* before the tree is complete.                                            *)
(***************************************************************************)
SupersInv ==
  /\ pass \in {"parse", "build", "imports"} => DOMAIN supers = {}
  /\ \A s \in DOMAIN supers : supers[s] \in Seq(Symbols(Tree))

OrderInv ==
  /\ pass \in {"parse", "build", "imports", "supers"} => \A r \in DOMAIN targets : r[2] # "rel"
  /\ walk # <<>> => AtRel("relations") /\ Lexical(Tree, Scope, Rel) = None /\ MayInherit(Rel)

(***************************************************************************)
(* InheritedMember.  The types seen are the enclosing one and ancestors of *)
(* it.  The supertypes that a type has behind it have been seen too, and   *)
(* none of them has the member; a type that is not on the stack any more   *)
(* has all of its supertypes behind it.                                    *)
(***************************************************************************)
Owner == ParentOf(Tree, Scope)

Behind(t, n) ==
  \A i \in 1 .. n : i <= Len(SupersOf(supers, t)) =>
    /\ SupersOf(supers, t)[i] \in seen
    /\ Member(Tree, SupersOf(supers, t)[i], Rel.path[1]) = None

OnStack(t) == \E j \in 1 .. Len(walk) : walk[j].type = t

WalkInv ==
  /\ walk \in Seq([type : seen, next : Nat \ {0}])
  /\ walk # <<>> =>
       /\ Owner \in seen
       /\ seen \subseteq {Owner} \cup Ancestors(supers, Owner)
       /\ \A j \in 1 .. Len(walk) : Behind(walk[j].type, walk[j].next - 1)
       /\ \A t \in seen : OnStack(t) \/ Behind(t, Len(SupersOf(supers, t)))

ResolveInv == SupersInv /\ OrderInv /\ WalkInv /\ RelationsAreSound
-----------------------------------------------------------------------------
LEMMA UnitsAreSequences ==
  ASSUME units \in Workspaces
  PROVE  /\ Len(units) \in Nat
         /\ DOMAIN units = 1 .. Len(units)
         /\ units = [i \in DOMAIN units |-> units[i]]
         /\ IsFiniteSet(DOMAIN units)
  <1>1. units \in Seq(ToSet(units)) BY WorkspacesAssumption DEF IsSequence
  <1>2. Len(units) \in Nat /\ DOMAIN units = 1 .. Len(units) BY <1>1
  <1>3. units = [i \in DOMAIN units |-> units[i]] BY <1>1
  <1>4. IsFiniteSet(1 .. Len(units)) BY <1>2, FS_Interval
  <1> QED BY <1>2, <1>3, <1>4

\* The counts stay within the number of units.
LEMMA Counted ==
  ASSUME units \in Workspaces, NEW S \in SUBSET DOMAIN units
  PROVE  IsFiniteSet(S) /\ Cardinality(S) \in Nat
  BY UnitsAreSequences, FS_Subset, FS_CardinalityType

LEMMA ParseInit ==
  ASSUME Init
  PROVE  ParseInv
  <1> USE DEF Init
  <1>1. Len(units) \in Nat /\ DOMAIN units = 1 .. Len(units) BY UnitsAreSequences
  <1>2. Holding = {} /\ Running = {} BY DEF Holding, Running
  <1>3. sem = Cardinality(Holding) /\ wg = Cardinality(Running) BY <1>2, FS_EmptySet
  <1>4. sem <= Cap BY CapAssumption
  <1> QED BY <1>1, <1>3, <1>4 DEF ParseInv, States, Passes

-----------------------------------------------------------------------------
LEMMA ParseOnlyParses ==
  ASSUME ParseInv, ParseOnly
  PROVE  ParseInv'
  <1> USE DEF ParseInv, ParseOnly, parseVars, treeVars
  <1>1. Len(units) \in Nat /\ DOMAIN units = 1 .. Len(units) /\ units = [i \in DOMAIN units |-> units[i]]
    BY UnitsAreSequences
  <1>2. \A i \in DOMAIN units : worker[i] = "none" BY <1>1
  <1>3. files' = [i \in DOMAIN units' |-> files'[i]] BY <1>1
  <1>4. Holding' = Holding /\ Running' = Running BY DEF Holding, Running
  <1> QED BY <1>1, <1>2, <1>3, <1>4 DEF Passes

LEMMA SpawnParses ==
  ASSUME ParseInv, Spawn
  PROVE  ParseInv'
  <1> DEFINE n == spawned + 1
  <1> USE DEF ParseInv, Spawn
  <1>1. Len(units) \in Nat /\ DOMAIN units = 1 .. Len(units) BY UnitsAreSequences
  <1>2. n \in DOMAIN units /\ worker[n] = "none" BY <1>1
  <1>3. n \notin Holding /\ Holding' = Holding \cup {n}
        /\ n \notin Running /\ Running' = Running \cup {n}
    BY <1>1, <1>2 DEF Holding, Running
  <1>4. Holding \in SUBSET DOMAIN units /\ Running \in SUBSET DOMAIN units BY DEF Holding, Running
  <1>5. sem' = Cardinality(Holding') /\ wg' = Cardinality(Running')
    BY <1>3, <1>4, Counted, FS_AddElement
  <1>6. sem' <= Cap BY <1>4, Counted, CapAssumption
  <1>7. worker' \in [DOMAIN units' -> States] BY <1>2 DEF States
  <1>8. \A i \in DOMAIN units : worker'[i] = "none" <=> i > spawned' BY <1>1, <1>2
  <1>9. \A i \in DOMAIN units : worker'[i] \in {"parsed", "released", "done"} => files'[i] = units[i]
    BY <1>2
  <1> QED BY <1>1, <1>2, <1>5, <1>6, <1>7, <1>8, <1>9

LEMMA ParseParses ==
  ASSUME ParseInv, NEW i \in DOMAIN units, Parse(i)
  PROVE  ParseInv'
  <1> USE DEF ParseInv, Parse
  <1>1. pass = "parse" OBVIOUS
  <1>2. Holding' = Holding /\ Running' = Running BY DEF Holding, Running
  <1>3. worker' \in [DOMAIN units' -> States] BY DEF States
  <1>4. \A j \in DOMAIN units : worker'[j] = "none" <=> j > spawned OBVIOUS
  <1>5. \A j \in DOMAIN units : worker'[j] \in {"parsed", "released", "done"} => files'[j] = units[j]
    OBVIOUS
  <1>6. files' = [j \in DOMAIN units' |-> files'[j]] OBVIOUS
  <1> QED BY <1>1, <1>2, <1>3, <1>4, <1>5, <1>6

LEMMA ReleaseParses ==
  ASSUME ParseInv, NEW i \in DOMAIN units, Release(i)
  PROVE  ParseInv'
  <1> USE DEF ParseInv, Release
  <1>1. pass = "parse" OBVIOUS
  <1>2. i \in Holding /\ Holding' = Holding \ {i} /\ Running' = Running BY DEF Holding, Running
  <1>3. Holding \in SUBSET DOMAIN units BY DEF Holding
  <1>4. sem' = Cardinality(Holding') BY <1>2, <1>3, Counted, FS_RemoveElement
  <1>5. sem' <= Cap BY <1>3, Counted, CapAssumption
  <1>6. worker' \in [DOMAIN units' -> States] BY DEF States
  <1>7. \A j \in DOMAIN units : worker'[j] = "none" <=> j > spawned OBVIOUS
  <1>8. \A j \in DOMAIN units : worker'[j] \in {"parsed", "released", "done"} => files'[j] = units[j]
    OBVIOUS
  <1> QED BY <1>1, <1>2, <1>4, <1>5, <1>6, <1>7, <1>8

LEMMA FinishParses ==
  ASSUME ParseInv, NEW i \in DOMAIN units, Finish(i)
  PROVE  ParseInv'
  <1> USE DEF ParseInv, Finish
  <1>1. pass = "parse" OBVIOUS
  <1>2. i \in Running /\ Running' = Running \ {i} /\ Holding' = Holding BY DEF Holding, Running
  <1>3. Running \in SUBSET DOMAIN units BY DEF Running
  <1>4. wg' = Cardinality(Running') BY <1>2, <1>3, Counted, FS_RemoveElement
  <1>5. worker' \in [DOMAIN units' -> States] BY DEF States
  <1>6. \A j \in DOMAIN units : worker'[j] = "none" <=> j > spawned OBVIOUS
  <1>7. \A j \in DOMAIN units : worker'[j] \in {"parsed", "released", "done"} => files'[j] = units[j]
    OBVIOUS
  <1> QED BY <1>1, <1>2, <1>4, <1>5, <1>6, <1>7

\* All have been started and none is running, so all are done.
LEMMA WaitParses ==
  ASSUME ParseInv, Wait
  PROVE  ParseInv'
  <1> USE DEF ParseInv, Wait, parseVars, treeVars
  <1>1. Len(units) \in Nat /\ DOMAIN units = 1 .. Len(units) /\ units = [i \in DOMAIN units |-> units[i]]
    BY UnitsAreSequences
  <1>2. Running \in SUBSET DOMAIN units BY DEF Running
  <1>3. Running = {} BY <1>2, Counted, FS_EmptySet
  <1>4. \A i \in DOMAIN units : worker[i] = "done" BY <1>1, <1>3 DEF Running, States
  <1>5. files = units BY <1>1, <1>4
  <1>6. Holding' = Holding /\ Running' = Running BY DEF Holding, Running
  <1> QED BY <1>4, <1>5, <1>6 DEF Passes

LEMMA PassesParse ==
  ASSUME ParseInv, pass # "parse", pass' # "parse", pass' \in Passes, UNCHANGED <<units, files, parseVars>>
  PROVE  ParseInv'
  <1>1. Holding' = Holding /\ Running' = Running BY DEF Holding, Running, parseVars, treeVars
  <1> QED BY <1>1 DEF ParseInv, parseVars, treeVars

LEMMA ParseNext ==
  ASSUME ParseInv, [Next]_vars
  PROVE  ParseInv'
  <1>1. CASE ParseOnly BY <1>1, ParseOnlyParses
  <1>2. CASE Spawn BY <1>2, SpawnParses
  <1>3. CASE Wait BY <1>3, WaitParses
  <1>4. ASSUME NEW i \in DOMAIN units, Work(i)
        PROVE  ParseInv'
    BY <1>4, ParseParses, ReleaseParses, FinishParses DEF Work
  <1>5. CASE Build \/ EndBuild BY <1>5, PassesParse DEF Build, EndBuild, Passes, Following, ParseInv
  <1>6. CASE ResolveImports BY <1>6, PassesParse DEF ResolveImports, ParseInv
  <1>7. CASE BuildSupertype BY <1>7, PassesParse DEF BuildSupertype, AtRel, ParseInv
  <1>8. CASE ResolveRelation BY <1>8, PassesParse DEF ResolveRelation, Record, AtRel, ParseInv
  <1>9. CASE NextScope BY <1>9, PassesParse DEF NextScope, ParseInv
  <1>10. CASE StartWalk BY <1>10, PassesParse DEF StartWalk, AtRel, ParseInv
  <1>11. CASE WalkFound BY <1>11, PassesParse DEF WalkFound, Record, MoreSupers, Walking, AtRel, ParseInv
  <1>12. CASE WalkInto BY <1>12, PassesParse DEF WalkInto, MoreSupers, Walking, AtRel, ParseInv
  <1>13. CASE WalkPast BY <1>13, PassesParse DEF WalkPast, MoreSupers, Walking, AtRel, ParseInv
  <1>14. CASE WalkUp BY <1>14, PassesParse DEF WalkUp, Record, Walking, AtRel, ParseInv
  <1>15. CASE ResolveRefs BY <1>15, PassesParse DEF ResolveRefs, RefPasses, ParseInv
  <1>16. CASE NextPass
    <2>1. pass # "parse" /\ pass' # "parse" /\ pass' \in Passes
      BY <1>16 DEF NextPass, Following, Passes
    <2> QED BY <1>16, <2>1, PassesParse DEF NextPass
  <1>17. CASE UNCHANGED vars
    <2>1. Holding' = Holding /\ Running' = Running BY <1>17 DEF Holding, Running, vars, parseVars, treeVars
    <2> QED BY <1>17, <2>1 DEF ParseInv, vars, parseVars, treeVars
  <1> QED
    BY <1>1, <1>2, <1>3, <1>4, <1>5, <1>6, <1>7, <1>8, <1>9, <1>10, <1>11, <1>12, <1>13, <1>14, <1>15,
       <1>16, <1>17 DEF Next, Main

LEMMA ParseInvHolds == Spec => []ParseInv
  <1>1. Init => ParseInv BY ParseInit
  <1>2. ParseInv /\ [Next]_vars => ParseInv' BY ParseNext
  <1> QED BY <1>1, <1>2, PTL DEF Spec

(***************************************************************************)
(* In whatever order the goroutines run, every unit is in its place before *)
(* the symbol tree is built, and no more than Cap of them parse at once.   *)
(***************************************************************************)
THEOREM UnitsParsed == Spec => []UnitsAreParsed
  <1>1. ASSUME ParseInv
        PROVE  UnitsAreParsed
    <2> USE <1>1
    <2> DEFINE Parsing == {i \in DOMAIN units : worker[i] = "parsing"}
    <2>1. units \in Workspaces /\ sem = Cardinality(Holding) /\ sem <= Cap BY DEF ParseInv
    <2>2. Parsing \in SUBSET Holding /\ Holding \in SUBSET DOMAIN units BY DEF Holding
    <2>3. IsFiniteSet(Holding) /\ Cardinality(Holding) \in Nat BY <2>1, <2>2, Counted
    <2>4. Cardinality(Parsing) <= Cardinality(Holding) /\ Cardinality(Parsing) \in Nat
      BY <2>2, <2>3, FS_Subset, FS_CardinalityType
    <2>5. Cardinality(Parsing) <= Cap BY <2>1, <2>3, <2>4, CapAssumption
    <2> QED BY <2>5 DEF UnitsAreParsed, ParseInv
  <1> QED BY <1>1, ParseInvHolds, PTL

-----------------------------------------------------------------------------
(***************************************************************************)
(* What can be inherited is closed under supertypes, and is not more than  *)
(* any set that holds the supertypes of the owner and is closed.           *)
(***************************************************************************)
LEMMA AncestorsClosed ==
  ASSUME NEW sup, NEW o, NEW t \in {o} \cup Ancestors(sup, o), NEW s \in SuperSet(sup, t)
  PROVE  s \in Ancestors(sup, o)
  <1> DEFINE all == UNION {SuperSet(sup, x) : x \in DOMAIN sup}
  <1>1. t \in DOMAIN sup BY DEF SuperSet, SupersOf, ToSet
  <1>2. s \in all BY <1>1
  <1>3. ASSUME NEW C \in SUBSET all, SuperSet(sup, o) \subseteq C,
               \A c \in C : SuperSet(sup, c) \subseteq C
        PROVE  s \in C
    <2>1. CASE t = o BY <2>1, <1>3
    <2>2. CASE t \in Ancestors(sup, o)
      <3>1. t \in C BY <2>2, <1>3 DEF Ancestors
      <3> QED BY <3>1, <1>3
    <2> QED BY <2>1, <2>2
  <1> QED BY <1>2, <1>3 DEF Ancestors

LEMMA AncestorsWithin ==
  ASSUME NEW sup, NEW o, NEW S,
         SuperSet(sup, o) \subseteq S, \A c \in S : SuperSet(sup, c) \subseteq S
  PROVE  Ancestors(sup, o) \subseteq S
  <1> DEFINE all == UNION {SuperSet(sup, x) : x \in DOMAIN sup}
             C == S \cap all
  <1>1. ASSUME NEW c
        PROVE  SuperSet(sup, c) \subseteq all
    BY DEF SuperSet, SupersOf, ToSet
  <1>2. C \in SUBSET all /\ SuperSet(sup, o) \subseteq C /\ \A c \in C : SuperSet(sup, c) \subseteq C
    BY <1>1
  <1>3. Ancestors(sup, o) \subseteq C BY <1>2 DEF Ancestors
  <1> QED BY <1>3

\* The supertypes of a symbol are a sequence.
LEMMA SupersAreSequences ==
  ASSUME SupersInv, NEW s
  PROVE  SupersOf(supers, s) \in Seq(Symbols(Tree))
  BY DEF SupersInv, SupersOf

-----------------------------------------------------------------------------
LEMMA ResolveInit ==
  ASSUME Init
  PROVE  ResolveInv
  BY DEF Init, ResolveInv, SupersInv, OrderInv, WalkInv, RelationsAreSound

\* What was resolved before keeps its meaning.
LEMMA RelationsKept ==
  ASSUME RelationsAreSound, UNCHANGED <<files, treeVars, supers>>,
         \A r \in DOMAIN targets' : r[2] = "rel" => r \in DOMAIN targets /\ targets'[r] = targets[r]
  PROVE  RelationsAreSound'
  <1>1. Tree' = Tree BY DEF Tree, treeVars
  <1> QED BY <1>1 DEF RelationsAreSound

\* Between two walks.
LEMMA NoWalk ==
  ASSUME walk' = <<>>,
         pass' \in {"parse", "build", "imports", "supers"} => \A r \in DOMAIN targets' : r[2] # "rel"
  PROVE  OrderInv' /\ WalkInv'
  BY DEF OrderInv, WalkInv

LEMMA WalksOnlyRelations ==
  ASSUME OrderInv, pass # "relations" \/ ~AtScope \/ ~MoreRels
  PROVE  walk = <<>>
  BY DEF OrderInv, AtRel

LEMMA BeforeImports ==
  ASSUME ResolveInv, pass \in {"parse", "build"}, pass' \in {"parse", "build", "imports"},
         UNCHANGED passVars
  PROVE  ResolveInv'
  <1> USE DEF ResolveInv, passVars, walkVars
  <1>1. walk' = <<>> BY WalksOnlyRelations
  <1>2. DOMAIN supers' = {} /\ \A r \in DOMAIN targets' : r[2] # "rel" BY DEF SupersInv, OrderInv
  <1>3. SupersInv' BY <1>2 DEF SupersInv
  <1>4. RelationsAreSound' BY <1>2 DEF RelationsAreSound
  <1> QED BY <1>1, <1>2, <1>3, <1>4, NoWalk

LEMMA ImportsResolve ==
  ASSUME ResolveInv, ResolveImports
  PROVE  ResolveInv'
  <1> USE DEF ResolveInv, ResolveImports, walkVars
  <1>1. walk' = <<>> BY WalksOnlyRelations
  <1>2. \A r \in DOMAIN targets' : r[2] # "rel"
    <2>1. \A r \in DOMAIN targets : r[2] # "rel" BY DEF OrderInv
    <2>2. PICK imports : imports = ImportsOf(Tree, Scope) OBVIOUS
    <2>3. DOMAIN targets' = DOMAIN targets \cup ToSet([i \in DOMAIN imports |-> <<imports[i], "import", 1>>])
      BY <2>2 DEF With
    <2> QED BY <2>1, <2>3 DEF ToSet
  <1>3. SupersInv' BY DEF SupersInv, Tree, treeVars
  <1>4. RelationsAreSound' BY <1>2 DEF RelationsAreSound
  <1> QED BY <1>1, <1>2, <1>3, <1>4, NoWalk

LEMMA SupertypesResolve ==
  ASSUME ResolveInv, BuildSupertype
  PROVE  ResolveInv'
  <1> USE DEF ResolveInv, BuildSupertype, AtRel, walkVars
  <1>1. walk' = <<>> BY WalksOnlyRelations
  <1>2. \A r \in DOMAIN targets' : r[2] # "rel" BY DEF OrderInv
  <1>3. SupersInv'
    <2>1. PICK target : target = Lexical(Tree, Scope, Rel) OBVIOUS
    <2>2. CASE supers' = supers BY <2>2 DEF SupersInv, Tree, treeVars
    <2>3. CASE target \in Symbols(Tree) /\ supers' = [x \in DOMAIN supers \cup {Scope} |->
                 IF x \in {Scope} THEN Append(SupersOf(supers, x), target) ELSE supers[x]]
      <3>1. ASSUME NEW s \in DOMAIN supers'
            PROVE  supers'[s] \in Seq(Symbols(Tree))
        <4>1. CASE s = Scope
          <5>1. SupersOf(supers, s) \in Seq(Symbols(Tree)) BY SupersAreSequences
          <5>2. supers'[s] = Append(SupersOf(supers, s), target) BY <2>3, <4>1
          <5>3. PICK q : q = SupersOf(supers, s) OBVIOUS
          <5>4. Append(q, target) \in Seq(Symbols(Tree)) BY <2>3, <5>1, <5>3, AppendProperties
          <5> QED BY <5>2, <5>3, <5>4
        <4>2. CASE s # Scope BY <2>3, <3>1, <4>2 DEF SupersInv
        <4> QED BY <4>1, <4>2
      <3>2. Tree' = Tree BY DEF Tree, treeVars
      <3> QED BY <3>1, <3>2 DEF SupersInv
    <2> QED BY <2>1, <2>2, <2>3 DEF With
  <1>4. RelationsAreSound' BY <1>2 DEF RelationsAreSound
  <1> QED BY <1>1, <1>2, <1>3, <1>4, NoWalk

LEMMA ScopePasses ==
  ASSUME ResolveInv, NextScope
  PROVE  ResolveInv'
  <1> USE DEF ResolveInv, NextScope, walkVars
  <1>1. walk' = <<>> BY WalksOnlyRelations
  <1>2. OrderInv' /\ WalkInv' BY <1>1, NoWalk DEF OrderInv
  <1>3. SupersInv' BY DEF SupersInv, Tree, treeVars
  <1> QED BY <1>2, <1>3, RelationsKept

LEMMA RefsResolve ==
  ASSUME ResolveInv, ResolveRefs
  PROVE  ResolveInv'
  <1> USE DEF ResolveInv, ResolveRefs, walkVars, RefPasses
  <1>1. walk' = <<>> BY WalksOnlyRelations
  <1>2. OrderInv' /\ WalkInv' BY <1>1, NoWalk
  <1>3. SupersInv' BY DEF SupersInv, Tree, treeVars
  <1>4. \A r \in DOMAIN targets' : r[2] = "rel" => r \in DOMAIN targets /\ targets'[r] = targets[r]
    <2>1. PICK refs : refs = Node(Tree, Scope).refs OBVIOUS
    <2>2. PICK own : own = {j \in DOMAIN refs : refs[j].kind = pass} OBVIOUS
    <2>3. targets' = With(targets, {<<Scope, "ref", j>> : j \in own},
                          LAMBDA r : Resolve(Tree, Scope, refs[r[3]].path))
      BY <2>1, <2>2
    <2> QED BY <2>3 DEF With
  <1> QED BY <1>2, <1>3, <1>4, RelationsKept

LEMMA PassPasses ==
  ASSUME ResolveInv, NextPass
  PROVE  ResolveInv'
  <1> USE DEF ResolveInv, NextPass, walkVars
  <1>1. walk' = <<>> BY WalksOnlyRelations
  <1>2. pass' \in {"parse", "build", "imports", "supers"} => pass = "imports" BY DEF Following
  <1>3. OrderInv' /\ WalkInv' BY <1>1, <1>2, NoWalk DEF OrderInv
  <1>4. SupersInv'
    <2>1. pass' \notin {"parse", "build", "imports"} BY DEF Following
    <2> QED BY <2>1 DEF SupersInv, Tree, treeVars
  <1> QED BY <1>3, <1>4, RelationsKept

-----------------------------------------------------------------------------
\* A clause is recorded with what it means.
LEMMA RecordSound ==
  ASSUME ResolveInv, AtRel("relations"), NEW target, Record(target),
         RelationOK(Tree, supers, Scope, Rel, target)
  PROVE  ResolveInv'
  <1> USE DEF ResolveInv, Record, AtRel
  <1>1. OrderInv' /\ WalkInv' BY NoWalk
  <1>2. SupersInv' BY DEF SupersInv, Tree, treeVars
  <1>3. Tree' = Tree BY DEF Tree, treeVars
  <1>4. \A r \in DOMAIN targets' :
          \/ r = RelRef /\ targets'[r] = target
          \/ r \in DOMAIN targets /\ targets'[r] = targets[r]
    BY DEF With
  <1>5. RelationsAreSound'
    <2> SUFFICES ASSUME NEW r \in DOMAIN targets', r[2] = "rel"
                 PROVE  RelationOK(Tree, supers, r[1], Node(Tree, r[1]).rels[r[3]], targets'[r])
      BY <1>3 DEF RelationsAreSound
    <2>1. CASE r = RelRef /\ targets'[r] = target BY <2>1 DEF RelRef, Rel, Rels
    <2>2. CASE r \in DOMAIN targets /\ targets'[r] = targets[r] BY <2>2 DEF RelationsAreSound
    <2> QED BY <1>4, <2>1, <2>2
  <1> QED BY <1>1, <1>2, <1>5

LEMMA RelationResolves ==
  ASSUME ResolveInv, ResolveRelation
  PROVE  ResolveInv'
  <1>1. PICK target : target = Lexical(Tree, Scope, Rel) OBVIOUS
  <1>2. RelationOK(Tree, supers, Scope, Rel, target) BY <1>1 DEF RelationOK, ResolveRelation
  <1> QED BY <1>1, <1>2, RecordSound DEF ResolveRelation

\* A step of the walk changes only the stack and what has been seen.
LEMMA WalkGoesOn ==
  ASSUME ResolveInv, AtRel("relations"), Lexical(Tree, Scope, Rel) = None, MayInherit(Rel),
         UNCHANGED <<files, treeVars, pass, at, nth, supers, targets>>
  PROVE  /\ Tree' = Tree /\ Owner' = Owner /\ Rel' = Rel
         /\ SupersInv' /\ OrderInv' /\ RelationsAreSound'
  <1> USE DEF ResolveInv
  <1>1. Tree' = Tree BY DEF Tree, treeVars
  <1>2. Scope' = Scope /\ AtScope' = AtScope BY <1>1 DEF Scope, AtScope
  <1>3. Owner' = Owner BY <1>1, <1>2 DEF Owner
  <1>4. Rels' = Rels BY <1>1, <1>2 DEF Rels
  <1>5. Rel' = Rel /\ MoreRels' = MoreRels BY <1>4 DEF Rel, MoreRels
  <1>6. OrderInv'
    <2>1. AtRel("relations")' BY <1>2, <1>5 DEF AtRel
    <2>2. (Lexical(Tree, Scope, Rel) = None)' BY <1>1, <1>2, <1>5
    <2>3. MayInherit(Rel)' BY <1>5
    <2>4. pass' = "relations" BY DEF AtRel
    <2> QED BY <2>1, <2>2, <2>3, <2>4 DEF OrderInv
  <1>7. SupersInv' BY <1>1 DEF SupersInv
  <1> QED BY <1>1, <1>3, <1>5, <1>6, <1>7, RelationsKept

LEMMA WalkStarts ==
  ASSUME ResolveInv, StartWalk
  PROVE  ResolveInv'
  <1> USE DEF StartWalk
  <1>1. Owner' = Owner /\ SupersInv' /\ OrderInv' /\ RelationsAreSound' BY WalkGoesOn
  <1>2. walk' = <<[type |-> Owner, next |-> 1]>> /\ seen' = {Owner} BY DEF Owner
  <1>3. WalkInv'
    <2>1. walk' \in Seq([type : seen', next : Nat \ {0}]) BY <1>2
    <2>2. \A j \in 1 .. Len(walk') : walk'[j].next - 1 = 0 BY <1>2
    <2>3. (\A j \in 1 .. Len(walk) : Behind(walk[j].type, walk[j].next - 1))' BY <2>2 DEF Behind
    <2>4. (\A u \in seen : OnStack(u))' BY <1>2 DEF OnStack
    <2>5. Owner' \in seen' /\ seen' \subseteq ({Owner} \cup Ancestors(supers, Owner))' BY <1>1, <1>2
    <2> QED BY <2>1, <2>3, <2>4, <2>5 DEF WalkInv
  <1> QED BY <1>1, <1>3 DEF ResolveInv

\* The innermost frame.
LEMMA TopFrame ==
  ASSUME ResolveInv, Walking
  PROVE  /\ Len(walk) \in Nat \ {0}
         /\ Top = walk[Len(walk)] /\ Top \in [type : seen, next : Nat \ {0}]
         /\ Len(SupersOf(supers, Top.type)) \in Nat
         /\ AtRel("relations") /\ Lexical(Tree, Scope, Rel) = None /\ MayInherit(Rel)
  <1>1. walk \in Seq([type : seen, next : Nat \ {0}]) /\ walk # <<>>
    BY DEF ResolveInv, WalkInv, Walking
  <1>2. Len(walk) \in Nat \ {0} BY <1>1
  <1>3. Top = walk[Len(walk)] BY DEF Top
  <1>4. walk[Len(walk)] \in [type : seen, next : Nat \ {0}]
    <2>1. PICK S : S = [type : seen, next : Nat \ {0}] OBVIOUS
    <2>2. walk \in Seq(S) /\ Len(walk) \in 1 .. Len(walk) BY <1>1, <1>2, <2>1
    <2>3. walk[Len(walk)] \in S BY <2>2, ElementOfSeq
    <2> QED BY <2>1, <2>3
  <1>5. Len(SupersOf(supers, Top.type)) \in Nat BY SupersAreSequences DEF ResolveInv
  <1> QED BY <1>1, <1>2, <1>3, <1>4, <1>5 DEF ResolveInv, OrderInv

\* The next supertype of the innermost frame is an ancestor of the owner.
LEMMA SuperIsAncestor ==
  ASSUME ResolveInv, MoreSupers
  PROVE  Super \in Ancestors(supers, Owner)
  <1>1. Walking /\ Top.next <= Len(SupersOf(supers, Top.type)) BY DEF MoreSupers
  <1>2. Top.type \in seen /\ Top.next \in Nat \ {0} BY <1>1, TopFrame
  <1>3. Top.type \in {Owner} \cup Ancestors(supers, Owner) BY <1>1, <1>2 DEF ResolveInv, WalkInv, Walking
  <1>4. SupersOf(supers, Top.type) \in Seq(Symbols(Tree)) BY SupersAreSequences DEF ResolveInv
  <1>5. Super \in SuperSet(supers, Top.type) BY <1>1, <1>2, <1>4 DEF Super, SuperSet, ToSet
  <1> QED BY <1>3, <1>5, AncestorsClosed

(***************************************************************************)
(* Replacing and popping the innermost frame.                              *)
(***************************************************************************)
LEMMA FramesBelow ==
  ASSUME ResolveInv, Walking
  PROVE  /\ Below \in Seq([type : seen, next : Nat \ {0}])
         /\ Len(Below) = Len(walk) - 1
         /\ \A j \in 1 .. Len(walk) - 1 : Below[j] = walk[j]
  <1>1. PICK S : S = [type : seen, next : Nat \ {0}] OBVIOUS
  <1>2. walk \in Seq(S) /\ Len(walk) \in Nat \ {0} BY <1>1, TopFrame DEF ResolveInv, WalkInv
  <1>3. PICK w : w = walk OBVIOUS
  <1>4. w \in Seq(S) /\ Len(w) \in Nat \ {0} BY <1>2, <1>3
  <1>5. /\ SubSeq(w, 1, Len(w) - 1) \in Seq(S)
        /\ Len(SubSeq(w, 1, Len(w) - 1)) = Len(w) - 1
        /\ \A j \in 1 .. Len(w) - 1 : SubSeq(w, 1, Len(w) - 1)[j] = w[j]
    <2>1. PICK m : m = Len(w) - 1 /\ m \in Nat BY <1>4
    <2>2. \A i \in 1 .. m : w[i] \in S BY <1>4, <2>1
    <2>3. /\ SubSeq(w, 1, m) \in Seq(S)
          /\ Len(SubSeq(w, 1, m)) = (IF 1 <= m THEN m - 1 + 1 ELSE 0)
          /\ \A i \in 1 .. m - 1 + 1 : SubSeq(w, 1, m)[i] = w[1 + i - 1]
      BY <2>1, <2>2, SubSeqProperties
    <2>4. Len(SubSeq(w, 1, m)) = m /\ \A i \in 1 .. m : SubSeq(w, 1, m)[i] = w[i] BY <2>1, <2>3
    <2> QED BY <2>1, <2>3, <2>4
  <1> QED BY <1>1, <1>3, <1>5 DEF Below

LEMMA FramesAdvanced ==
  ASSUME ResolveInv, MoreSupers
  PROVE  /\ Advanced \in Seq([type : seen, next : Nat \ {0}])
         /\ Len(Advanced) = Len(walk)
         /\ \A j \in 1 .. Len(walk) - 1 : Advanced[j] = walk[j]
         /\ Advanced[Len(walk)] = [type |-> Top.type, next |-> Top.next + 1]
  <1>1. Walking BY DEF MoreSupers
  <1>2. Top \in [type : seen, next : Nat \ {0}] /\ Len(walk) \in Nat \ {0} BY <1>1, TopFrame
  <1>3. PICK S, b, f : /\ S = [type : seen, next : Nat \ {0}] /\ b = Below
                       /\ f = [type |-> Top.type, next |-> Top.next + 1]
    OBVIOUS
  <1>4. f \in S /\ Advanced = Append(b, f) BY <1>2, <1>3 DEF Advanced
  <1>5. b \in Seq(S) /\ Len(b) = Len(walk) - 1 /\ \A j \in 1 .. Len(walk) - 1 : b[j] = walk[j]
    BY <1>1, <1>3, FramesBelow
  <1>6. /\ Append(b, f) \in Seq(S) /\ Len(Append(b, f)) = Len(b) + 1
        /\ \A j \in 1 .. Len(b) : Append(b, f)[j] = b[j]
        /\ Append(b, f)[Len(b) + 1] = f
    BY <1>4, <1>5, AppendProperties
  <1> QED BY <1>2, <1>3, <1>4, <1>5, <1>6

LEMMA WalkDescends ==
  ASSUME ResolveInv, WalkInto
  PROVE  ResolveInv'
  <1>1. Walking /\ Top.next <= Len(SupersOf(supers, Top.type)) BY DEF WalkInto, MoreSupers
  <1>2. /\ Top = walk[Len(walk)] /\ Top \in [type : seen, next : Nat \ {0}] /\ Len(walk) \in Nat \ {0}
        /\ AtRel("relations") /\ Lexical(Tree, Scope, Rel) = None /\ MayInherit(Rel)
    BY <1>1, TopFrame
  <1>3. Tree' = Tree /\ Owner' = Owner /\ Rel' = Rel /\ SupersInv' /\ OrderInv' /\ RelationsAreSound'
    BY <1>2, WalkGoesOn DEF WalkInto
  <1>4. WalkInv /\ walk # <<>> BY <1>1 DEF ResolveInv, Walking
  <1>5. PICK T, a, s, n : T = [type : seen', next : Nat \ {0}] /\ a = Advanced /\ s = Super /\ n = Len(walk)
    OBVIOUS
  <1>6. /\ a \in Seq([type : seen, next : Nat \ {0}]) /\ Len(a) = n
        /\ \A j \in 1 .. n - 1 : a[j] = walk[j]
        /\ a[n] = [type |-> Top.type, next |-> Top.next + 1]
    BY <1>5, FramesAdvanced DEF WalkInto
  <1>7. a \in Seq(T)
    <2>1. [type : seen, next : Nat \ {0}] \subseteq T BY <1>5 DEF WalkInto
    <2>2. PICK S : S = [type : seen, next : Nat \ {0}] OBVIOUS
    <2>3. a \in Seq(S) /\ S \subseteq T BY <1>6, <2>1, <2>2
    <2> QED BY <2>3
  <1>8. [type |-> s, next |-> 1] \in T BY <1>5 DEF WalkInto
  <1>9. /\ walk' \in Seq(T) /\ Len(walk') = n + 1
        /\ \A j \in 1 .. n : walk'[j] = a[j]
        /\ walk'[n + 1] = [type |-> s, next |-> 1]
    <2>1. PICK f : f = [type |-> s, next |-> 1] OBVIOUS
    <2>2. walk' = Append(a, f) BY <1>5, <2>1 DEF WalkInto
    <2>3. /\ Append(a, f) \in Seq(T) /\ Len(Append(a, f)) = Len(a) + 1
          /\ \A j \in 1 .. Len(a) : Append(a, f)[j] = a[j]
          /\ Append(a, f)[Len(a) + 1] = f
      BY <1>7, <1>8, <2>1, AppendProperties
    <2> QED BY <1>6, <2>1, <2>2, <2>3
  <1> n \in Nat \ {0} BY <1>2, <1>5
  <1>10. seen' \subseteq ({Owner} \cup Ancestors(supers, Owner))' /\ Owner' \in seen'
    BY <1>3, <1>4, SuperIsAncestor DEF WalkInv, WalkInto
  <1>11. (\A j \in 1 .. Len(walk) : Behind(walk[j].type, walk[j].next - 1))'
    <2> DEFINE BehindNow(t, m) ==
          \A i \in 1 .. m : i <= Len(SupersOf(supers, t)) =>
            /\ SupersOf(supers, t)[i] \in seen'
            /\ Member(Tree, SupersOf(supers, t)[i], Rel.path[1]) = None
    <2>1. ASSUME NEW t, NEW m, Behind(t, m)
          PROVE  BehindNow(t, m)
      BY <2>1 DEF Behind, WalkInto
    <2>2. ASSUME NEW j \in 1 .. n + 1
          PROVE  BehindNow(walk'[j].type, walk'[j].next - 1)
      <3>1. CASE j < n
        <4>1. walk'[j] = walk[j] BY <1>6, <1>9, <3>1
        <4>2. Behind(walk[j].type, walk[j].next - 1) BY <1>2, <1>4, <1>5, <3>1 DEF WalkInv
        <4> QED BY <2>1, <4>1, <4>2
      <3>2. CASE j = n
        <4>1. walk'[j] = [type |-> Top.type, next |-> Top.next + 1] BY <1>6, <1>9, <3>2
        <4>2. Behind(Top.type, Top.next - 1) BY <1>2, <1>4 DEF WalkInv
        <4>3. BehindNow(Top.type, Top.next - 1) BY <2>1, <4>2
        <4>4. SupersOf(supers, Top.type)[Top.next] \in seen'
              /\ Member(Tree, SupersOf(supers, Top.type)[Top.next], Rel.path[1]) = None
          BY DEF WalkInto, Super, Inherited
        <4>5. BehindNow(Top.type, Top.next) BY <1>2, <4>3, <4>4
        <4>6. walk'[j].type = Top.type /\ walk'[j].next - 1 = Top.next BY <1>2, <4>1
        <4> QED BY <4>5, <4>6
      <3>3. CASE j = n + 1
        <4>1. walk'[j] = [type |-> s, next |-> 1] BY <1>9, <3>3
        <4>2. walk'[j].next - 1 = 0 BY <4>1
        <4> QED BY <4>2
      <3> QED BY <1>2, <1>5, <3>1, <3>2, <3>3
    <2> QED BY <1>3, <1>9, <2>2 DEF Behind, WalkInto
  <1>12. (\A u \in seen : OnStack(u) \/ Behind(u, Len(SupersOf(supers, u))))'
    <2> SUFFICES ASSUME NEW u \in seen'
                 PROVE  (OnStack(u) \/ Behind(u, Len(SupersOf(supers, u))))'
      OBVIOUS
    <2>1. CASE u = s BY <1>2, <1>5, <1>9, <2>1 DEF OnStack
    <2>2. CASE u \in seen /\ OnStack(u)
      <3>1. PICK j \in 1 .. n : walk[j].type = u BY <1>5, <2>2 DEF OnStack
      <3>2. walk'[j] = a[j] /\ j \in 1 .. Len(walk') BY <1>9
      <3>3. a[j].type = u
        <4>1. CASE j < n BY <1>6, <3>1, <4>1
        <4>2. CASE j = n BY <1>2, <1>5, <1>6, <3>1, <4>2
        <4> QED BY <4>1, <4>2
      <3> QED BY <3>2, <3>3 DEF OnStack
    <2>3. CASE u \in seen /\ Behind(u, Len(SupersOf(supers, u))) BY <1>3, <2>3 DEF Behind, WalkInto
    <2> QED BY <1>4, <1>5, <2>1, <2>2, <2>3 DEF WalkInv, WalkInto
  <1> QED BY <1>3, <1>5, <1>9, <1>10, <1>11, <1>12 DEF ResolveInv, WalkInv

LEMMA WalkPasses ==
  ASSUME ResolveInv, WalkPast
  PROVE  ResolveInv'
  <1>1. Walking /\ Top.next <= Len(SupersOf(supers, Top.type)) BY DEF WalkPast, MoreSupers
  <1>2. /\ Top = walk[Len(walk)] /\ Top \in [type : seen, next : Nat \ {0}] /\ Len(walk) \in Nat \ {0}
        /\ AtRel("relations") /\ Lexical(Tree, Scope, Rel) = None /\ MayInherit(Rel)
    BY <1>1, TopFrame
  <1>3. Tree' = Tree /\ Owner' = Owner /\ Rel' = Rel /\ SupersInv' /\ OrderInv' /\ RelationsAreSound'
    BY <1>2, WalkGoesOn DEF WalkPast
  <1>4. WalkInv /\ walk # <<>> BY <1>1 DEF ResolveInv, Walking
  <1>5. PICK n : n = Len(walk) OBVIOUS
  <1> n \in Nat \ {0} BY <1>2, <1>5
  <1>6. /\ walk' \in Seq([type : seen, next : Nat \ {0}]) /\ Len(walk') = n
        /\ \A j \in 1 .. n - 1 : walk'[j] = walk[j]
        /\ walk'[n] = [type |-> Top.type, next |-> Top.next + 1]
    BY <1>5, FramesAdvanced DEF WalkPast
  <1>7. seen' = seen /\ supers' = supers BY DEF WalkPast
  <1>8. (\A j \in 1 .. Len(walk) : Behind(walk[j].type, walk[j].next - 1))'
    <2>1. ASSUME NEW j \in 1 .. n
          PROVE  Behind(walk'[j].type, walk'[j].next - 1)
      <3>1. CASE j < n
        <4>1. walk'[j] = walk[j] BY <1>6, <3>1
        <4>2. Behind(walk[j].type, walk[j].next - 1) BY <1>4, <1>5, <3>1 DEF WalkInv
        <4> QED BY <4>1, <4>2
      <3>2. CASE j = n
        <4>1. walk'[j].type = Top.type /\ walk'[j].next - 1 = Top.next BY <1>2, <1>6, <3>2
        <4>2. Behind(Top.type, Top.next - 1) BY <1>2, <1>4 DEF WalkInv
        <4>3. SupersOf(supers, Top.type)[Top.next] \in seen
              /\ Member(Tree, SupersOf(supers, Top.type)[Top.next], Rel.path[1]) = None
          BY DEF WalkPast, Super, Inherited
        <4>4. Behind(Top.type, Top.next) BY <1>2, <4>2, <4>3 DEF Behind
        <4> QED BY <4>1, <4>4
      <3> QED BY <3>1, <3>2
    <2> QED BY <1>3, <1>6, <1>7, <2>1 DEF Behind
  <1>9. (\A u \in seen : OnStack(u) \/ Behind(u, Len(SupersOf(supers, u))))'
    <2> SUFFICES ASSUME NEW u \in seen
                 PROVE  (OnStack(u) \/ Behind(u, Len(SupersOf(supers, u))))'
      BY <1>7
    <2>1. CASE OnStack(u)
      <3>1. PICK j \in 1 .. n : walk[j].type = u BY <1>5, <2>1 DEF OnStack
      <3>2. walk'[j].type = u
        <4>1. CASE j < n BY <1>6, <3>1, <4>1
        <4>2. CASE j = n BY <1>2, <1>5, <1>6, <3>1, <4>2
        <4> QED BY <4>1, <4>2
      <3> QED BY <1>6, <3>2 DEF OnStack
    <2>2. CASE Behind(u, Len(SupersOf(supers, u))) BY <1>3, <1>7, <2>2 DEF Behind
    <2> QED BY <1>4, <2>1, <2>2 DEF WalkInv
  <1>10. seen' \subseteq ({Owner} \cup Ancestors(supers, Owner))' /\ Owner' \in seen'
    BY <1>3, <1>4, <1>7 DEF WalkInv
  <1> QED BY <1>3, <1>6, <1>7, <1>8, <1>9, <1>10 DEF ResolveInv, WalkInv

\* A type is left when all of its supertypes are behind it.
LEMMA TopIsBehind ==
  ASSUME ResolveInv, Walking, ~MoreSupers
  PROVE  Behind(Top.type, Len(SupersOf(supers, Top.type)))
  <1>1. /\ Top = walk[Len(walk)] /\ Top \in [type : seen, next : Nat \ {0}] /\ Len(walk) \in Nat \ {0}
        /\ Len(SupersOf(supers, Top.type)) \in Nat
    BY TopFrame
  <1>2. Behind(Top.type, Top.next - 1) BY <1>1 DEF ResolveInv, WalkInv, Walking
  <1>3. Len(SupersOf(supers, Top.type)) <= Top.next - 1 BY <1>1 DEF MoreSupers
  <1> QED BY <1>1, <1>2, <1>3 DEF Behind

LEMMA WalkReturns ==
  ASSUME ResolveInv, WalkUp, Len(walk) # 1
  PROVE  ResolveInv'
  <1>1. Walking /\ ~MoreSupers BY DEF WalkUp
  <1>2. /\ Top = walk[Len(walk)] /\ Top \in [type : seen, next : Nat \ {0}] /\ Len(walk) \in Nat \ {0}
        /\ AtRel("relations") /\ Lexical(Tree, Scope, Rel) = None /\ MayInherit(Rel)
    BY <1>1, TopFrame
  <1>3. Tree' = Tree /\ Owner' = Owner /\ Rel' = Rel /\ SupersInv' /\ OrderInv' /\ RelationsAreSound'
    BY <1>2, WalkGoesOn DEF WalkUp
  <1>4. WalkInv /\ walk # <<>> BY <1>1 DEF ResolveInv, Walking
  <1>5. PICK n : n = Len(walk) OBVIOUS
  <1> n \in Nat \ {0} BY <1>2, <1>5
  <1>6. /\ walk' \in Seq([type : seen, next : Nat \ {0}]) /\ Len(walk') = n - 1
        /\ \A j \in 1 .. n - 1 : walk'[j] = walk[j]
    BY <1>1, <1>5, FramesBelow DEF WalkUp
  <1>7. seen' = seen /\ supers' = supers BY DEF WalkUp
  <1>8. (\A j \in 1 .. Len(walk) : Behind(walk[j].type, walk[j].next - 1))'
    <2>1. ASSUME NEW j \in 1 .. n - 1
          PROVE  Behind(walk'[j].type, walk'[j].next - 1)
      <3>1. j \in 1 .. Len(walk) /\ walk'[j] = walk[j]
        <4>1. j \in 1 .. n
          OBVIOUS
        <4>2. walk'[j] = walk[j]
          BY <1>6
        <4> QED BY <1>5, <4>1, <4>2
      <3>2. Behind(walk[j].type, walk[j].next - 1)
        BY <1>4, <3>1 DEF WalkInv
      <3> QED BY <3>1, <3>2
    <2> QED BY <1>3, <1>6, <1>7, <2>1 DEF Behind
  <1>9. (\A u \in seen : OnStack(u) \/ Behind(u, Len(SupersOf(supers, u))))'
    <2> SUFFICES ASSUME NEW u \in seen
                 PROVE  (OnStack(u) \/ Behind(u, Len(SupersOf(supers, u))))'
      BY <1>7
    <2>1. CASE OnStack(u)
      <3>1. PICK j \in 1 .. n : walk[j].type = u BY <1>5, <2>1 DEF OnStack
      <3>2. CASE j < n BY SMTT(60), <1>6, <3>1, <3>2 DEF OnStack
      <3>3. CASE j = n
        <4>1. Behind(u, Len(SupersOf(supers, u))) BY <1>1, <1>2, <1>5, <3>1, <3>3, TopIsBehind
        <4> QED BY <1>3, <1>7, <4>1 DEF Behind
      <3> QED BY <3>2, <3>3
    <2>2. CASE Behind(u, Len(SupersOf(supers, u))) BY <1>3, <1>7, <2>2 DEF Behind
    <2> QED BY <1>4, <2>1, <2>2 DEF WalkInv
  <1>10. seen' \subseteq ({Owner} \cup Ancestors(supers, Owner))' /\ Owner' \in seen'
    BY <1>3, <1>4, <1>7 DEF WalkInv
  <1> QED BY <1>3, <1>6, <1>7, <1>8, <1>9, <1>10 DEF ResolveInv, WalkInv

\* The walk ends at the owner: no ancestor has the member.
LEMMA WalkFails ==
  ASSUME ResolveInv, WalkUp, Len(walk) = 1
  PROVE  ResolveInv'
  <1> DEFINE S == {u \in seen : Member(Tree, u, Rel.path[1]) = None}
  <1>1. Walking /\ ~MoreSupers /\ Record(None) BY DEF WalkUp
  <1>2. /\ Top = walk[Len(walk)]
        /\ AtRel("relations") /\ Lexical(Tree, Scope, Rel) = None /\ MayInherit(Rel)
    BY <1>1, TopFrame
  <1>3. WalkInv /\ walk # <<>> BY <1>1 DEF ResolveInv, Walking
  <1>4. ASSUME NEW u \in seen
        PROVE  SuperSet(supers, u) \subseteq S
    <2>1. Behind(u, Len(SupersOf(supers, u)))
      <3>1. CASE OnStack(u)
        <4>1. u = Top.type BY <1>2, <3>1 DEF OnStack
        <4> QED BY <1>1, <4>1, TopIsBehind
      <3> QED BY <1>3, <3>1 DEF WalkInv
    <2>2. SupersOf(supers, u) \in Seq(Symbols(Tree)) BY SupersAreSequences DEF ResolveInv
    <2> QED BY <2>1, <2>2 DEF Behind, SuperSet, ToSet
  <1>5. Owner \in seen BY <1>3 DEF WalkInv
  <1>6. Ancestors(supers, Owner) \subseteq S
    <2>1. SuperSet(supers, Owner) \subseteq S BY <1>4, <1>5
    <2>2. \A c \in S : SuperSet(supers, c) \subseteq S BY <1>4
    <2> HIDE DEF S
    <2> QED BY <2>1, <2>2, AncestorsWithin
  <1>7. InheritedBy(Tree, supers, Owner, Rel.path[1]) = {} BY <1>6 DEF InheritedBy
  <1>8. RelationOK(Tree, supers, Scope, Rel, None) BY <1>2, <1>7 DEF RelationOK, Owner
  <1> QED BY <1>1, <1>2, <1>8, RecordSound

LEMMA WalkSucceeds ==
  ASSUME ResolveInv, WalkFound
  PROVE  ResolveInv'
  <1>1. Walking /\ MoreSupers /\ Inherited # None BY DEF WalkFound, MoreSupers
  <1>2. AtRel("relations") /\ Lexical(Tree, Scope, Rel) = None /\ MayInherit(Rel) BY <1>1, TopFrame
  <1>3. PICK target : target = Inherited OBVIOUS
  <1>4. target \in InheritedBy(Tree, supers, Owner, Rel.path[1])
    BY <1>1, <1>3, SuperIsAncestor DEF InheritedBy, Inherited
  <1>5. RelationOK(Tree, supers, Scope, Rel, target) BY <1>2, <1>4 DEF RelationOK, Owner
  <1> QED BY <1>2, <1>3, <1>5, RecordSound DEF WalkFound

-----------------------------------------------------------------------------
LEMMA ResolveNext ==
  ASSUME ParseInv, ResolveInv, [Next]_vars
  PROVE  ResolveInv'
  <1>1. CASE ParseOnly BY <1>1, BeforeImports DEF ParseOnly
  <1>2. CASE Spawn BY <1>2, BeforeImports DEF Spawn
  <1>3. CASE Wait BY <1>3, BeforeImports DEF Wait
  <1>4. ASSUME NEW i \in DOMAIN units, Work(i)
        PROVE  ResolveInv'
    <2>1. pass = "parse" BY <1>4 DEF ParseInv, Work, Parse, Release, Finish
    <2> QED BY <1>4, <2>1, BeforeImports DEF Work, Parse, Release, Finish
  <1>5. CASE Build \/ EndBuild BY <1>5, BeforeImports DEF Build, EndBuild
  <1>6. CASE ResolveImports BY <1>6, ImportsResolve
  <1>7. CASE BuildSupertype BY <1>7, SupertypesResolve
  <1>8. CASE ResolveRelation BY <1>8, RelationResolves
  <1>9. CASE NextScope BY <1>9, ScopePasses
  <1>10. CASE StartWalk BY <1>10, WalkStarts
  <1>11. CASE WalkFound BY <1>11, WalkSucceeds
  <1>12. CASE WalkInto BY <1>12, WalkDescends
  <1>13. CASE WalkPast BY <1>13, WalkPasses
  <1>14. CASE WalkUp BY <1>14, WalkReturns, WalkFails
  <1>15. CASE ResolveRefs BY <1>15, RefsResolve
  <1>16. CASE NextPass BY <1>16, PassPasses
  <1>17. CASE UNCHANGED vars
    <2> USE <1>17 DEF ResolveInv, vars, passVars, walkVars
    <2>1. Tree' = Tree BY DEF Tree, treeVars
    <2>2. Scope' = Scope /\ AtScope' = AtScope /\ Rels' = Rels BY <2>1 DEF Scope, AtScope, Rels
    <2>3. Rel' = Rel /\ MoreRels' = MoreRels /\ Owner' = Owner BY <2>1, <2>2 DEF Rel, MoreRels, Owner
    <2>4. OrderInv'
      <3>1. AtRel("relations")' = AtRel("relations") BY <2>2, <2>3 DEF AtRel
      <3>2. (Lexical(Tree, Scope, Rel) = None)' <=> Lexical(Tree, Scope, Rel) = None BY <2>1, <2>2, <2>3
      <3>3. MayInherit(Rel)' <=> MayInherit(Rel) BY <2>3
      <3> QED BY <3>1, <3>2, <3>3 DEF OrderInv
    <2>5. SupersInv' BY <2>1 DEF SupersInv
    <2>6. WalkInv' BY <2>1, <2>3 DEF WalkInv, Behind, OnStack
    <2> QED BY <2>4, <2>5, <2>6, RelationsKept
  <1> QED
    BY <1>1, <1>2, <1>3, <1>4, <1>5, <1>6, <1>7, <1>8, <1>9, <1>10, <1>11, <1>12, <1>13, <1>14, <1>15,
       <1>16, <1>17 DEF Next, Main

(***************************************************************************)
(* However the supertypes are knotted, a relationship clause is resolved   *)
(* to what its name means in the finished tree, or to a member that the    *)
(* enclosing type inherits, and to nothing only if there is neither.       *)
(***************************************************************************)
THEOREM RelationsSound == Spec => []RelationsAreSound
  <1>1. Init => ResolveInv BY ResolveInit
  <1>2. ParseInv /\ ResolveInv /\ [Next]_vars => ResolveInv' BY ResolveNext
  <1>3. ResolveInv => RelationsAreSound BY DEF ResolveInv
  <1> QED BY <1>1, <1>2, <1>3, ParseInvHolds, PTL DEF Spec
-----------------------------------------------------------------------------
(***************************************************************************)
(* The symbol tree.  What has been built are members of the files, and a   *)
(* symbol's children stand in it; in the end every symbol has been built.  *)
(***************************************************************************)
IsMember(m) == \E i \in DOMAIN files : \E k \in DOMAIN files[i] : m = <<i, k>>
IsSymbol(m) == IsMember(m) /\ Node(Tree, m).what = "symbol"

ChildrenStand ==
  \A s \in DOMAIN children :
    IsSequence(children[s]) /\ \A c \in ToSet(children[s]) : c \in ToSet(scopes) \ {Root} /\ ParentOf(Tree, c) = s
SpecsStand ==
  \A s \in DOMAIN specs :
    IsSequence(specs[s]) /\ \A m \in ToSet(specs[s]) : IsMember(m) /\ Node(Tree, m).what # "symbol"

TreeInv ==
  /\ built \in Nat
  /\ pass \notin {"parse", "build"} => built = Len(Declared)
  /\ IsSequence(scopes) /\ DOMAIN children = ToSet(scopes) /\ DOMAIN specs = ToSet(scopes)
  /\ Root \in ToSet(scopes) /\ \A s \in ToSet(scopes) : s = Root \/ IsSymbol(s)
  /\ \A j \in 1 .. built : Node(Tree, Declared[j]).what = "symbol" => Declared[j] \in ToSet(scopes)
  /\ ChildrenStand /\ SpecsStand
  /\ pass = "parse" => /\ built = 0 /\ scopes = <<Root>>
                       /\ children = [s \in {Root} |-> <<>>] /\ specs = [s \in {Root} |-> <<>>]

LEMMA AppendRange ==
  ASSUME NEW s, NEW e, IsSequence(s)
  PROVE  IsSequence(Append(s, e)) /\ ToSet(Append(s, e)) = ToSet(s) \cup {e}
<1>1. PICK n \in Nat : n = Len(s) /\ DOMAIN s = 1 .. n
  BY SequenceFacts
<1>2. PICK t : t = Append(s, e)
  OBVIOUS
<1>3. /\ IsSequence(t) /\ Len(t) = n + 1 /\ t[n + 1] = e
      /\ \A i \in 1 .. n : t[i] = s[i]
  BY <1>1, <1>2, AppendFacts
<1>4. DOMAIN t = 1 .. n + 1
  BY <1>3, SequenceFacts
<1>5. ToSet(t) = {t[i] : i \in 1 .. n + 1} /\ ToSet(s) = {s[i] : i \in 1 .. n}
  BY <1>1, <1>4 DEF ToSet
<1>6. \A i \in 1 .. n + 1 : i \in 1 .. n \/ i = n + 1
  BY <1>1
<1>7. n + 1 \in 1 .. n + 1 /\ \A i \in 1 .. n : i \in 1 .. n + 1
  BY <1>1
<1> QED BY <1>2, <1>3, <1>5, <1>6, <1>7

\* Before anything has been built.
LEMMA EmptyTree ==
  ASSUME built = 0, scopes = <<Root>>, children = [s \in {Root} |-> <<>>], specs = [s \in {Root} |-> <<>>],
         pass \in {"parse", "build"}
  PROVE  TreeInv
<1>1. IsSequence(scopes) /\ ToSet(scopes) = {Root}
  BY SingleFacts, SmallRanges
<1>2. IsSequence(<<>>) /\ ToSet(<<>>) = {}
  BY EmptyIsSequence, SmallRanges
<1>3. ChildrenStand /\ SpecsStand
  BY <1>2 DEF ChildrenStand, SpecsStand
<1>4. 1 .. built = {} /\ built \in Nat
  OBVIOUS
<1> QED BY <1>1, <1>3, <1>4 DEF TreeInv

\* The members that are declared.
LEMMA DeclaredAre ==
  ASSUME ParseInv, pass # "parse"
  PROVE  IsSequence(Declared) /\ \A m : m \in ToSet(Declared) <=> IsMember(m)
<1>1. IsSequence(files) /\ \A i \in DOMAIN files : IsSequence(files[i])
  BY WorkspacesAssumption DEF ParseInv
<1> DEFINE Of(i) == [k \in DOMAIN files[i] |-> <<i, k>>]
           blocks == [i \in DOMAIN files |-> Of(i)]
<1>2. ASSUME NEW i \in DOMAIN files
      PROVE  IsSequence(Of(i)) /\ ToSet(Of(i)) = {<<i, k>> : k \in DOMAIN files[i]}
  <2>1. Of(i) = [k \in DOMAIN files[i] |-> Of(i)[k]] /\ DOMAIN Of(i) = DOMAIN files[i] /\ \A k \in DOMAIN files[i] : Of(i)[k] = <<i, k>>
    OBVIOUS
  <2>2. PICK f : f = Of(i)
    OBVIOUS
  <2>3. IsSequence(f)
    BY <1>1, <2>1, <2>2, MappedFacts
  <2> QED BY <2>1, <2>2, <2>3 DEF ToSet
<1>3. blocks = [i \in DOMAIN files |-> blocks[i]] /\ DOMAIN blocks = DOMAIN files /\ \A i \in DOMAIN files : blocks[i] = Of(i)
  OBVIOUS
<1>4. Declared = FlattenSeq(blocks)
  BY DEF Declared
<1> HIDE DEF blocks, Of
<1>5. IsSequence(blocks)
  BY <1>1, <1>3, MappedFacts
<1>6. IsSequence(Declared) /\ ToSet(Declared) = UNION {ToSet(blocks[i]) : i \in DOMAIN blocks}
  BY <1>2, <1>3, <1>4, <1>5, FlattenRange
<1>7. \A m : m \in ToSet(Declared) <=> \E i \in DOMAIN files : m \in {<<i, k>> : k \in DOMAIN files[i]}
  BY <1>2, <1>3, <1>6
<1> QED BY <1>6, <1>7 DEF IsMember

\* What leaves the tree as it is.
LEMMA TreeKept ==
  ASSUME TreeInv, UNCHANGED <<files, treeVars>>, pass' # "parse" \/ pass = "parse", pass \in {"parse", "build"} => pass' \in {"parse", "build"}
  PROVE  TreeInv'
<1> USE DEF treeVars
<1>1. Tree' = Tree /\ Declared' = Declared
  BY DEF Tree, Declared
<1>2. \A m : IsMember(m)' <=> IsMember(m)
  BY DEF IsMember
<1>3. ChildrenStand' /\ SpecsStand'
  BY <1>1, <1>2 DEF ChildrenStand, SpecsStand, TreeInv
<1> QED BY <1>1, <1>2, <1>3 DEF TreeInv, IsSymbol

LEMMA ParsingKeepsTree ==
  ASSUME TreeInv, pass = "parse", UNCHANGED treeVars, pass' \in {"parse", "build"}
  PROVE  TreeInv'
<1>1. built' = 0 /\ scopes' = <<Root>> /\ children' = [s \in {Root} |-> <<>>] /\ specs' = [s \in {Root} |-> <<>>]
  BY DEF treeVars, TreeInv
<1>2. IsSequence(<<Root>>) /\ ToSet(<<Root>>) = {Root}
  BY SingleFacts, SmallRanges
<1>3. IsSequence(<<>>) /\ ToSet(<<>>) = {}
  BY EmptyIsSequence, SmallRanges
<1>4. ChildrenStand' /\ SpecsStand'
  BY <1>1, <1>3 DEF ChildrenStand, SpecsStand
<1>5. 1 .. 0 = {}
  OBVIOUS
<1> QED BY <1>1, <1>2, <1>4, <1>5 DEF TreeInv

LEMMA BuildKeepsTree ==
  ASSUME ParseInv, TreeInv, Build
  PROVE  TreeInv'
<1>1. PICK m : m = NextMember
  OBVIOUS
<1>2. IsMember(m) /\ m # Root /\ Tree'.files = Tree.files /\ files' = files
  <2>1. IsSequence(Declared) /\ built \in Nat /\ built < Len(Declared)
    BY DeclaredAre DEF Build, TreeInv
  <2>2. built + 1 \in DOMAIN Declared
    BY <2>1, SequenceFacts
  <2>3. m \in ToSet(Declared)
    BY <1>1, <2>2 DEF NextMember, ToSet
  <2>4. IsMember(m)
    BY <2>3, DeclaredAre DEF Build
  <2>5. DOMAIN files = DOMAIN units /\ DOMAIN units = 1 .. Len(units)
    BY UnitsAreSequences DEF ParseInv
  <2>6. m # Root
    BY <2>4, <2>5 DEF IsMember, Root
  <2> QED BY <2>4, <2>6 DEF Build, Tree
<1>3. Declared' = Declared /\ \A x : /\ Node(Tree, x)' = Node(Tree, x) /\ ParentOf(Tree, x)' = ParentOf(Tree, x)
                                     /\ IsMember(x)' <=> IsMember(x)
  BY <1>2 DEF Declared, Node, ParentOf, IsMember
<1>4. /\ built' = built + 1 /\ built \in Nat /\ pass = "build" /\ pass' = "build"
      /\ IF Node(Tree, m).what = "symbol" THEN NewSymbol(m) ELSE AddImport(m)
  BY <1>1 DEF Build, TreeInv
<1>5. IsSequence(<<>>) /\ ToSet(<<>>) = {}
  BY EmptyIsSequence, SmallRanges
<1>6. PICK p : p = ParentOf(Tree, m)
  OBVIOUS
<1>7. /\ IsSequence(scopes) /\ DOMAIN children = ToSet(scopes) /\ DOMAIN specs = ToSet(scopes)
      /\ Root \in ToSet(scopes) /\ \A s \in ToSet(scopes) : s = Root \/ IsSymbol(s)
      /\ ChildrenStand /\ SpecsStand
      /\ \A j \in 1 .. built : Node(Tree, Declared[j]).what = "symbol" => Declared[j] \in ToSet(scopes)
  BY DEF TreeInv
<1>8. \A j \in 1 .. built + 1 : j \in 1 .. built \/ j = built + 1
  BY <1>4
<1>9. CASE Node(Tree, m).what = "symbol"
  <2>1. /\ scopes' = Append(scopes, m)
        /\ children' = [x \in DOMAIN children \cup {m} |-> IF x \in {m} THEN <<>> ELSE [children EXCEPT ![p] = Append(@, m)][x]]
        /\ specs' = [x \in DOMAIN specs \cup {m} |-> IF x \in {m} THEN <<>> ELSE specs[x]]
    BY <1>4, <1>6, <1>9 DEF NewSymbol, With
  <2>2. IsSequence(scopes') /\ ToSet(scopes') = ToSet(scopes) \cup {m}
    BY <1>7, <2>1, AppendRange
  <2>3. DOMAIN children' = ToSet(scopes') /\ DOMAIN specs' = ToSet(scopes') /\ Root \in ToSet(scopes')
    BY <1>7, <2>1, <2>2
  <2>4. \A s \in ToSet(scopes') : s = Root \/ IsSymbol(s)'
    BY <1>2, <1>3, <1>7, <1>9, <2>2 DEF IsSymbol
  <2>5. \A j \in 1 .. built' : Node(Tree, Declared[j])'.what = "symbol" => Declared'[j] \in ToSet(scopes')
    BY <1>1, <1>3, <1>4, <1>7, <1>8, <2>2 DEF NextMember
  <2>6. ASSUME NEW s \in DOMAIN children'
        PROVE  IsSequence(children'[s]) /\ \A c \in ToSet(children'[s]) : c \in ToSet(scopes') \ {Root} /\ ParentOf(Tree, c)' = s
    <3>1. CASE s = m
      BY <1>5, <2>1, <3>1
    <3>2. CASE s # m /\ s = p
      <4>1. s \in DOMAIN children /\ children'[s] = Append(children[s], m)
        BY <2>1, <3>2
      <4>2. IsSequence(children[s]) /\ \A c \in ToSet(children[s]) : c \in ToSet(scopes) \ {Root} /\ ParentOf(Tree, c) = s
        BY <1>7, <4>1 DEF ChildrenStand
      <4>3. IsSequence(children'[s]) /\ ToSet(children'[s]) = ToSet(children[s]) \cup {m}
        BY <4>1, <4>2, AppendRange
      <4> QED BY <1>2, <1>3, <1>6, <2>2, <3>2, <4>2, <4>3
    <3>3. CASE s # m /\ s # p
      <4>1. s \in DOMAIN children /\ children'[s] = children[s]
        BY <2>1, <3>3
      <4> QED BY <1>3, <1>7, <2>2, <4>1 DEF ChildrenStand
    <3> QED BY <3>1, <3>2, <3>3
  <2>7. ASSUME NEW s \in DOMAIN specs'
        PROVE  IsSequence(specs'[s]) /\ \A x \in ToSet(specs'[s]) : IsMember(x)' /\ Node(Tree, x)'.what # "symbol"
    <3>1. CASE s = m
      BY <1>5, <2>1, <3>1
    <3>2. CASE s # m
      <4>1. s \in DOMAIN specs /\ specs'[s] = specs[s]
        BY <2>1, <3>2
      <4> QED BY <1>3, <1>7, <4>1 DEF SpecsStand
    <3> QED BY <3>1, <3>2
  <2>8. ChildrenStand' /\ SpecsStand'
    BY <2>6, <2>7 DEF ChildrenStand, SpecsStand
  <2> QED BY <1>4, <2>2, <2>3, <2>4, <2>5, <2>8 DEF TreeInv
<1>10. CASE Node(Tree, m).what # "symbol"
  <2>1. specs' = [specs EXCEPT ![p] = Append(@, m)] /\ scopes' = scopes /\ children' = children
    BY <1>4, <1>6, <1>10 DEF AddImport
  <2>2. \A s \in ToSet(scopes') : s = Root \/ IsSymbol(s)'
    BY <1>3, <1>7, <2>1 DEF IsSymbol
  <2>3. \A j \in 1 .. built' : Node(Tree, Declared[j])'.what = "symbol" => Declared'[j] \in ToSet(scopes')
    BY <1>1, <1>3, <1>4, <1>7, <1>8, <1>10, <2>1 DEF NextMember
  <2>4. ASSUME NEW s \in DOMAIN specs'
        PROVE  IsSequence(specs'[s]) /\ \A x \in ToSet(specs'[s]) : IsMember(x)' /\ Node(Tree, x)'.what # "symbol"
    <3>1. s \in DOMAIN specs /\ IsSequence(specs[s]) /\ \A x \in ToSet(specs[s]) : IsMember(x) /\ Node(Tree, x).what # "symbol"
      BY <1>7, <2>1 DEF SpecsStand
    <3>2. CASE s = p
      <4>1. specs'[s] = Append(specs[s], m)
        BY <2>1, <3>1, <3>2
      <4>2. IsSequence(specs'[s]) /\ ToSet(specs'[s]) = ToSet(specs[s]) \cup {m}
        BY <3>1, <4>1, AppendRange
      <4> QED BY <1>2, <1>3, <1>10, <3>1, <4>2
    <3>3. CASE s # p
      BY <1>3, <2>1, <3>1, <3>3
    <3> QED BY <3>2, <3>3
  <2>5. ChildrenStand' /\ SpecsStand'
    BY <1>3, <1>7, <2>1, <2>4 DEF ChildrenStand, SpecsStand
  <2> QED BY <1>4, <1>7, <2>1, <2>2, <2>3, <2>5 DEF TreeInv
<1> QED BY <1>9, <1>10

LEMMA TreeNext ==
  ASSUME ParseInv, TreeInv, [Next]_vars
  PROVE  TreeInv'
<1>1. CASE ParseOnly \/ Spawn \/ Wait
  BY <1>1, ParsingKeepsTree DEF ParseOnly, Spawn, Wait
<1>2. ASSUME NEW i \in DOMAIN units, Work(i)
      PROVE  TreeInv'
  <2>1. pass = "parse" /\ pass' = "parse" /\ UNCHANGED treeVars
    BY <1>2 DEF ParseInv, Work, Parse, Release, Finish
  <2> QED BY <2>1, ParsingKeepsTree
<1>3. CASE Build
  BY <1>3, BuildKeepsTree
<1>4. CASE EndBuild
  <2> USE <1>4 DEF EndBuild, treeVars
  <2>1. Tree' = Tree /\ Declared' = Declared
    BY DEF Tree, Declared
  <2>2. \A m : IsMember(m)' <=> IsMember(m)
    BY DEF IsMember
  <2>3. ChildrenStand' /\ SpecsStand'
    BY <2>1, <2>2 DEF ChildrenStand, SpecsStand, TreeInv
  <2> QED BY <2>1, <2>2, <2>3 DEF TreeInv, IsSymbol
<1>5. CASE \/ ResolveImports \/ BuildSupertype \/ ResolveRelation \/ NextScope \/ StartWalk
           \/ WalkFound \/ WalkInto \/ WalkPast \/ WalkUp \/ ResolveRefs
  <2>1. pass' = pass /\ UNCHANGED <<files, treeVars>>
    BY <1>5 DEF ResolveImports, BuildSupertype, ResolveRelation, NextScope, StartWalk, WalkFound, WalkInto,
                WalkPast, WalkUp, ResolveRefs, Record
  <2>2. pass' # "parse" \/ pass = "parse"
    BY <2>1
  <2> QED BY <2>1, <2>2, TreeKept
<1>6. CASE NextPass
  <2>1. pass' \notin {"parse", "build"} /\ pass \notin {"parse", "build"} /\ UNCHANGED <<files, treeVars>>
    BY <1>6 DEF NextPass, Following
  <2> QED BY <2>1, TreeKept
<1>7. CASE UNCHANGED vars
  <2>1. pass' = pass /\ UNCHANGED <<files, treeVars>>
    BY <1>7 DEF vars
  <2> QED BY <2>1, TreeKept
<1> QED
  BY <1>1, <1>2, <1>3, <1>4, <1>5, <1>6, <1>7 DEF Next, Main

LEMMA TreeInvHolds == Spec => []TreeInv
<1>1. Init => TreeInv
  BY EmptyTree DEF Init
<1>2. ParseInv /\ TreeInv /\ [Next]_vars => TreeInv'
  BY TreeNext
<1> QED BY <1>1, <1>2, ParseInvHolds, PTL DEF Spec
-----------------------------------------------------------------------------
(***************************************************************************)
(* The contract.  It is emitted when the analysis is done, and then        *)
(* nothing changes any more: it remains what the model makes of it.        *)
(***************************************************************************)
Issued ==
  /\ document.paths = Paths /\ DOMAIN document.schemas = DOMAIN Schemas
  /\ document.adapter = RestOps /\ document.port = DomainPort(ToSet(RestOps))

IssuedInv == Emitted => pass = "done" /\ Issued

LEMMA DoneStays ==
  ASSUME ParseInv, pass = "done", [Next]_vars
  PROVE  UNCHANGED vars
<1>1. ~Main
  <2>1. ~AtRel("supers") /\ ~AtRel("relations") /\ ~Walking /\ ~MoreSupers
    BY DEF AtRel, Walking, MoreSupers
  <2>2. ~(ParseOnly \/ Spawn \/ Wait \/ Build \/ EndBuild \/ ResolveImports \/ NextScope)
    BY DEF ParseOnly, Spawn, Wait, Build, EndBuild, ResolveImports, NextScope
  <2>3. ~(BuildSupertype \/ ResolveRelation \/ StartWalk \/ WalkFound \/ WalkInto \/ WalkPast \/ WalkUp)
    BY <2>1 DEF BuildSupertype, ResolveRelation, StartWalk, WalkFound, WalkInto, WalkPast, WalkUp
  <2>4. ~(ResolveRefs \/ NextPass)
    BY DEF ResolveRefs, NextPass, RefPasses, Following
  <2> QED BY <2>2, <2>3, <2>4 DEF Main
<1>2. ASSUME NEW i \in DOMAIN units
      PROVE  ~Work(i)
  <2>1. worker[i] \in {"none", "done"}
    BY DEF ParseInv
  <2> QED BY <2>1 DEF Work, Parse, Release, Finish
<1> QED BY <1>1, <1>2 DEF Next

LEMMA SameDocument ==
  ASSUME UNCHANGED vars
  PROVE  Paths' = Paths /\ (DOMAIN Schemas)' = DOMAIN Schemas /\ RestOps' = RestOps
<1>1. Tree' = Tree /\ Symbols(Tree)' = Symbols(Tree) /\ supers' = supers /\ targets' = targets /\ Scopes(Tree)' = Scopes(Tree)
  BY DEF vars, treeVars, passVars, Tree
<1>2. \A e : Element(e)' = Element(e)
  BY <1>1 DEF Element
<1>3. \A e : Direction(e)' = Direction(e)
  BY <1>2 DEF Direction
<1>4. \A e, name : Annotated(e, name)' <=> Annotated(e, name)
  BY <1>2 DEF Annotated
<1>5. \A e, name : Metadata(e, name)' = Metadata(e, name)
  BY <1>2 DEF Metadata
<1>6. \A e : QualifiedName(e)' = QualifiedName(e)
  BY <1>1, <1>2 DEF QualifiedName
<1>7. \A e : Performed(e)' = Performed(e)
  BY <1>1, <1>2 DEF Performed
<1>8. \A e : Children(Tree, e)' = Children(Tree, e)
  BY <1>1
<1>9. \A e : Usages(e)' = Usages(e)
  <2> TAKE e
  <2>1. {c \in ToSet(Children(Tree, e)) : Element(c).kind = "Usage"}' = {c \in ToSet(Children(Tree, e)) : Element(c).kind = "Usage"}
    BY <1>2, <1>8
  <2> QED BY <1>8, <2>1 DEF Usages
<1>10. \A e : TypeOf(e)' = TypeOf(e)
  BY <1>1, <1>2 DEF TypeOf
<1>11. \A t : IsScalar(t)' <=> IsScalar(t)
  BY <1>6 DEF IsScalar
<1>12. UserElements' = UserElements
  BY <1>1, <1>6 DEF UserElements
<1>13. \A e : (IsOperation(e)' <=> IsOperation(e)) /\ (IsSchemaDefinition(e)' <=> IsSchemaDefinition(e))
  BY <1>2, <1>4, <1>9 DEF IsOperation, IsSchemaDefinition
<1>16. \A e, key, fallback : ValueOr(e, key, fallback)' = ValueOr(e, key, fallback)
  BY <1>5 DEF ValueOr
<1>17. \A e : Place(e)' = Place(e) /\ Status(e)' = Status(e)
  BY <1>2, <1>16 DEF Place, Status
<1>18. \A e : UsesDefault(e)' <=> UsesDefault(e)
  BY <1>4, <1>5 DEF UsesDefault
<1>19. \A e : ErrorSchemaRef(e)' = ErrorSchemaRef(e)
  BY <1>5, <1>18 DEF ErrorSchemaRef
<1>20. \A p : ParamSchemaType(p)' = ParamSchemaType(p)
  BY <1>2, <1>10, <1>11 DEF ParamSchemaType
<1>21. \A e, dir : Directed(e, dir)' = Directed(e, dir)
  BY <1>3, <1>9 DEF Directed
<1>22. \A e, dir : Params(e, dir)' = Params(e, dir)
  BY <1>20, <1>21 DEF Params
<1>23. \A e, dir : BodySchema(e, dir)' = BodySchema(e, dir)
  BY <1>2, <1>6, <1>20, <1>22 DEF BodySchema
<1>24. \A e : Operation(e)' = Operation(e)
  BY <1>2, <1>17, <1>19, <1>23 DEF Operation
<1>25. Operations' = Operations /\ Definitions' = Definitions
  BY <1>12, <1>13 DEF Operations, Definitions
<1>26. Paths' = Paths
  BY <1>17, <1>24, <1>25 DEF Paths
<1>27. (DOMAIN Components)' = DOMAIN Components
  BY <1>6, <1>25 DEF Components, Assigned
<1>28. (NeedProblemDetails' <=> NeedProblemDetails) /\ (DOMAIN Schemas)' = DOMAIN Schemas
  BY <1>18, <1>25, <1>27 DEF NeedProblemDetails, Schemas, With
<1>29. \A e, dir : BodyType(e, dir)' = BodyType(e, dir) /\ (Bound(e, dir)' <=> Bound(e, dir))
  BY <1>6, <1>20, <1>21, <1>22 DEF BodyType, Bound, GoModelType
<1>30. \A e : RestOp(e)' = RestOp(e)
  BY <1>2, <1>7, <1>17, <1>29 DEF RestOp
<1>31. RestOps' = RestOps
  BY <1>25, <1>30 DEF RestOps
<1> QED BY <1>26, <1>28, <1>31
-----------------------------------------------------------------------------
LEMMA IssuedNext ==
  ASSUME ParseInv, IssuedInv, [ContractNext]_contractVars
  PROVE  IssuedInv'
<1>1. CASE Emit
  <2>1. UNCHANGED vars /\ pass = "done"
    BY <1>1 DEF Emit
  <2>2. pass' = "done" /\ Paths' = Paths /\ (DOMAIN Schemas)' = DOMAIN Schemas /\ RestOps' = RestOps
    BY <2>1, SameDocument DEF vars
  <2>3. Emitted' => document' = BuildDocument
    BY <1>1 DEF Emit, Emitted
  <2> QED BY <2>2, <2>3 DEF IssuedInv, Issued, BuildDocument, DomainPort
<1>2. CASE (Next /\ UNCHANGED document) \/ UNCHANGED contractVars
  <2> SUFFICES ASSUME Emitted
               PROVE  (pass = "done" /\ Issued)'
    BY <1>2 DEF IssuedInv, Emitted, contractVars
  <2>1. pass = "done" /\ Issued /\ [Next]_vars /\ document' = document
    BY <1>2 DEF IssuedInv, contractVars
  <2>2. UNCHANGED vars
    BY <2>1, DoneStays
  <2>3. pass' = "done" /\ Paths' = Paths /\ (DOMAIN Schemas)' = DOMAIN Schemas /\ RestOps' = RestOps
    BY <2>1, <2>2, SameDocument DEF vars
  <2> QED BY <2>1, <2>3 DEF Issued, DomainPort
<1> QED BY <1>1, <1>2 DEF ContractNext

LEMMA ContractAnalyzes == ContractSpec => Spec
<1>1. ContractInit => Init
  BY DEF ContractInit
<1>2. [ContractNext]_contractVars => [Next]_vars
  BY DEF ContractNext, contractVars, Emit
<1> QED BY <1>1, <1>2, PTL DEF ContractSpec, Spec

LEMMA IssuedHolds == ContractSpec => []IssuedInv
<1>1. ContractInit => IssuedInv
  BY DEF ContractInit, IssuedInv, Emitted
<1>2. ParseInv /\ IssuedInv /\ [ContractNext]_contractVars => IssuedInv'
  BY IssuedNext
<1> QED BY <1>1, <1>2, ContractAnalyzes, ParseInvHolds, PTL DEF ContractSpec
-----------------------------------------------------------------------------
(***************************************************************************)
(* The lists of the contract.                                              *)
(***************************************************************************)
LEMMA UsagesAreSequences ==
  ASSUME TreeInv, NEW e
  PROVE  /\ IsSequence(Usages(e))
         /\ \A dir : IsSequence(Directed(e, dir)) /\ IsSequence(Params(e, dir))
<1>1. IsSequence(Children(Tree, e))
  BY EmptyIsSequence DEF Children, Tree, TreeInv, ChildrenStand
<1>2. IsSequence(Usages(e))
  BY <1>1, OnlyFacts DEF Usages
<1>3. \A dir : IsSequence(Directed(e, dir))
  BY <1>2, OnlyFacts DEF Directed
<1>4. \A dir : IsSequence(Params(e, dir))
  BY <1>3, OnlyFacts DEF Params
<1> QED BY <1>2, <1>3, <1>4

LEMMA ElementsAreSequences ==
  ASSUME TreeInv
  PROVE  /\ IsSequence(UserElements) /\ ToSet(UserElements) = {e \in Symbols(Tree) \ {Root} : Head(QualifiedName(e)) \notin Bundled}
         /\ IsSequence(Operations) /\ ToSet(Operations) = {e \in ToSet(UserElements) : IsOperation(e)}
         /\ IsSequence(Definitions) /\ ToSet(Definitions) = {e \in ToSet(UserElements) : IsSchemaDefinition(e)}
<1> DEFINE U == {e \in Symbols(Tree) \ {Root} : Head(QualifiedName(e)) \notin Bundled}
<1>1. IsSequence(Scopes(Tree)) /\ ToSet(Scopes(Tree)) = Symbols(Tree)
  BY DEF TreeInv, Scopes, Symbols, Tree
<1>2. U \subseteq Symbols(Tree) /\ UserElements = Only(Scopes(Tree), U)
  BY DEF UserElements
<1> HIDE DEF U
<1>3. IsSequence(UserElements) /\ ToSet(UserElements) = U
  BY <1>1, <1>2, OnlyFacts
<1>4. IsSequence(Operations) /\ ToSet(Operations) = ToSet(UserElements) \cap {e \in ToSet(UserElements) : IsOperation(e)}
  BY <1>3, OnlyFacts DEF Operations
<1>5. IsSequence(Definitions) /\ ToSet(Definitions) = ToSet(UserElements) \cap {e \in ToSet(UserElements) : IsSchemaDefinition(e)}
  BY <1>3, OnlyFacts DEF Definitions
<1> QED BY <1>3, <1>4, <1>5 DEF U

\* What is under a key has been assigned to it last.
LEMMA AssignedFacts ==
  ASSUME NEW n \in Nat, NEW keys, NEW values, DOMAIN keys = 1 .. n
  PROVE  /\ DOMAIN Assigned(keys, values) = Range(keys)
         /\ \A k \in DOMAIN Assigned(keys, values) :
              \E i \in 1 .. n : /\ keys[i] = k /\ Assigned(keys, values)[k] = values[i]
                                /\ \A j \in 1 .. n : keys[j] = k => j <= i
<1>1. DOMAIN Assigned(keys, values) = Range(keys) /\ Range(keys) = {keys[i] : i \in 1 .. n}
  BY DEF Assigned, Range
<1>2. ASSUME NEW k \in Range(keys)
      PROVE  \E i \in 1 .. n : /\ keys[i] = k /\ Assigned(keys, values)[k] = values[i]
                               /\ \A j \in 1 .. n : keys[j] = k => j <= i
  <2> DEFINE S == {i \in DOMAIN keys : keys[i] = k}
  <2>1. S \in SUBSET (1 .. n) /\ S # {}
    BY <1>1
  <2>2. Max(S) \in S /\ \A j \in S : j <= Max(S)
    <3> HIDE DEF S
    <3> QED BY <2>1, GreatestExists
  <2>3. Assigned(keys, values)[k] = values[Max(S)]
    BY <1>1, <1>2 DEF Assigned
  <2> QED BY <2>2, <2>3
<1> QED BY <1>1, <1>2

(***************************************************************************)
(* A body that the adapter binds has the type that the document gives it,  *)
(* if its two names are the same.                                          *)
(***************************************************************************)
BodyFits(e, dir) ==
  \A p \in ToSet(Params(e, dir)) :
    GoModelType(QualifiedName(ParamSchemaType(p))) = TypeName(QualifiedName(ParamSchemaType(p)))

LEMMA BoundFits ==
  ASSUME TreeInv, NEW e, NEW dir, Bound(e, dir)
  PROVE  Fits(BodySchema(e, dir), BodyType(e, dir)) <=> BodyFits(e, dir)
<1>1. PICK params : params = Params(e, dir)
  OBVIOUS
<1>2. PICK n \in Nat : n = Len(params) /\ DOMAIN params = 1 .. n
  BY <1>1, UsagesAreSequences, SequenceFacts
<1>3. n = Len(Directed(e, dir)) /\ n <= 1
  BY <1>1, <1>2 DEF Bound
<1>4. CASE n = 0
  <2>1. BodyType(e, dir) = None
    BY <1>3, <1>4 DEF BodyType
  <2>2. BodySchema(e, dir).form = "none"
    BY <1>1, <1>2, <1>4 DEF BodySchema
  <2>3. ToSet(params) = {}
    BY <1>2, <1>4 DEF ToSet
  <2> QED BY <1>1, <2>1, <2>2, <2>3 DEF Fits, BodyFits
<1>5. CASE n = 1
  <2>1. BodyType(e, dir) = GoModelType(QualifiedName(ParamSchemaType(Head(params))))
    BY <1>1, <1>2, <1>3, <1>5 DEF BodyType
  <2>2. Head(params) = params[1]
    BY <1>1, <1>2, <1>5, UsagesAreSequences, HeadAndTail, EmptyIsSequence
  <2> DEFINE names == [i \in DOMAIN params |-> Element(params[i]).name]
             refs == [i \in DOMAIN params |-> QualifiedName(ParamSchemaType(params[i]))]
  <2>3. BodySchema(e, dir).form = "ref" /\ BodySchema(e, dir).refs = Assigned(names, refs)
    BY <1>1, <1>2, <1>5 DEF BodySchema
  <2>4. DOMAIN names = 1 .. n /\ refs[1] = QualifiedName(ParamSchemaType(params[1])) /\ 1 .. n = {1}
    BY <1>2, <1>5
  <2> HIDE DEF names, refs
  <2>5. /\ DOMAIN Assigned(names, refs) = {names[i] : i \in 1 .. n}
        /\ \A k \in DOMAIN Assigned(names, refs) : \E i \in 1 .. n : Assigned(names, refs)[k] = refs[i]
    <3>1. /\ DOMAIN Assigned(names, refs) = Range(names)
          /\ \A k \in DOMAIN Assigned(names, refs) :
               \E i \in 1 .. n : /\ names[i] = k /\ Assigned(names, refs)[k] = refs[i]
                                 /\ \A j \in 1 .. n : names[j] = k => j <= i
      BY <2>4, AssignedFacts
    <3> QED BY <1>5, <2>4, <3>1 DEF Range
  <2>6. Range(Assigned(names, refs)) = {refs[1]}
    BY <2>4, <2>5 DEF Range
  <2>7. ToSet(params) = {params[1]}
    BY <1>2, <1>5 DEF ToSet
  <2>8. BodyFits(e, dir) <=> GoModelType(refs[1]) = TypeName(refs[1])
    BY <1>1, <2>4, <2>7 DEF BodyFits
  <2>9. {TypeName(c) : c \in Range(BodySchema(e, dir).refs)} = {TypeName(refs[1])}
    BY <2>3, <2>6
  <2>10. Fits(BodySchema(e, dir), BodyType(e, dir)) <=> {GoModelType(refs[1])} = {TypeName(refs[1])}
    BY <2>1, <2>2, <2>3, <2>4, <2>9 DEF Fits
  <2> QED BY <2>8, <2>10
<1>6. n = 0 \/ n = 1
  BY <1>3
<1> QED BY <1>4, <1>5, <1>6

\* The port has the types of some operation that performs the action.
LEMMA PortFacts ==
  ASSUME NEW ops, NEW m \in ops, m.wired
  PROVE  \E op \in ops : op.wired /\ op.domain = m.domain /\ DomainPort(ops)[m.domain] = <<op.in, op.out>>
<1> DEFINE wired == {op \in ops : op.wired}
           One(d) == CHOOSE op \in wired : op.domain = d
<1>1. m \in wired
  OBVIOUS
<1>2. One(m.domain) \in wired /\ One(m.domain).domain = m.domain
  BY <1>1
<1>3. DomainPort(ops)[m.domain] = <<One(m.domain).in, One(m.domain).out>>
  BY <1>1 DEF DomainPort
<1> QED BY <1>2, <1>3
-----------------------------------------------------------------------------
(***************************************************************************)
(* The document has the last operation of each place, the adapter all.     *)
(***************************************************************************)
LastAt(i) == \A j \in DOMAIN Operations : Place(Operations[j]) = Place(Operations[i]) => j <= i

LEMMA PathsFacts ==
  ASSUME TreeInv
  PROVE  /\ DOMAIN Paths = {Place(Operations[i]) : i \in DOMAIN Operations}
         /\ \A p \in DOMAIN Paths :
              \E i \in DOMAIN Operations : Place(Operations[i]) = p /\ Paths[p] = Operation(Operations[i]) /\ LastAt(i)
<1>1. PICK n \in Nat : DOMAIN Operations = 1 .. n
  BY ElementsAreSequences, SequenceFacts
<1> DEFINE keys == [i \in DOMAIN Operations |-> Place(Operations[i])]
           values == [i \in DOMAIN Operations |-> Operation(Operations[i])]
<1>2. DOMAIN keys = 1 .. n /\ Paths = Assigned(keys, values)
  BY <1>1 DEF Paths
<1>3. \A i \in 1 .. n : keys[i] = Place(Operations[i]) /\ values[i] = Operation(Operations[i])
  BY <1>1
<1> HIDE DEF keys, values
<1>4. /\ DOMAIN Assigned(keys, values) = Range(keys)
      /\ \A k \in DOMAIN Assigned(keys, values) :
           \E i \in 1 .. n : /\ keys[i] = k /\ Assigned(keys, values)[k] = values[i]
                             /\ \A j \in 1 .. n : keys[j] = k => j <= i
  BY <1>2, AssignedFacts
<1> QED BY <1>1, <1>2, <1>3, <1>4 DEF LastAt, Range

LEMMA AdaptersAre ==
  ASSUME Emitted, Issued
  PROVE  /\ DOMAIN document.adapter = DOMAIN Operations
         /\ \A i \in DOMAIN Operations : document.adapter[i] = RestOp(Operations[i])
         /\ ToSet(document.adapter) = {RestOp(Operations[i]) : i \in DOMAIN Operations}
         /\ ToSet(document.adapter) = ToSet(RestOps)
BY DEF Issued, RestOps, ToSet

LEMMA PortOf ==
  ASSUME Issued, PortsAgree, NEW m \in ToSet(RestOps), m.wired
  PROVE  document.port[m.domain] = <<m.in, m.out>>
<1>1. PICK op \in ToSet(RestOps) : op.wired /\ op.domain = m.domain /\ DomainPort(ToSet(RestOps))[m.domain] = <<op.in, op.out>>
  BY PortFacts
<1> QED BY <1>1 DEF Issued, PortsAgree

\* TypesFit, of one operation.
LEMMA TypesFitBodies ==
  ASSUME NEW i \in DOMAIN Operations
  PROVE  (\A c \in Bodies(Operations[i]) : GoModelType(c) = TypeName(c))
           <=> BodyFits(Operations[i], "in") /\ BodyFits(Operations[i], "out")
BY DEF Bodies, BodyFits

LEMMA WiredFits ==
  ASSUME TreeInv, NEW i \in DOMAIN Operations, RestOp(Operations[i]).wired
  PROVE  /\ Fits(Operation(Operations[i]).request, RestOp(Operations[i]).in) <=> BodyFits(Operations[i], "in")
         /\ Fits(Operation(Operations[i]).response, RestOp(Operations[i]).out) <=> BodyFits(Operations[i], "out")
<1>1. Bound(Operations[i], "in") /\ Bound(Operations[i], "out")
  BY DEF RestOp
<1>2. /\ Operation(Operations[i]).request = BodySchema(Operations[i], "in")
      /\ Operation(Operations[i]).response = BodySchema(Operations[i], "out")
  BY DEF Operation
<1>3. RestOp(Operations[i]).in = BodyType(Operations[i], "in") /\ RestOp(Operations[i]).out = BodyType(Operations[i], "out")
  BY DEF RestOp
<1> QED BY <1>1, <1>2, <1>3, BoundFits

LEMMA SameNames ==
  ASSUME NEW i \in DOMAIN Operations
  PROVE  /\ Operation(Operations[i]).id = Element(Operations[i]).name
         /\ RestOp(Operations[i]).id = Element(Operations[i]).name
         /\ Operation(Operations[i]).status = RestOp(Operations[i]).status
BY DEF Operation, RestOp

\* An operation that has its place for itself is in the document, with what the
\* adapter has of it.
LEMMA GoodContractsCompile ==
  ASSUME TreeInv, Emitted, Issued, PlacesDiffer, PortsAgree, MethodsFit, ActionsFit, TypesFit
  PROVE  Compiles
<1> DEFINE Name(i) == Element(Operations[i]).name
<1>1. DOMAIN Paths = {Place(Operations[i]) : i \in DOMAIN Operations}
      /\ \A i \in DOMAIN Operations : Paths[Place(Operations[i])] = Operation(Operations[i])
  BY PathsFacts DEF PlacesDiffer
<1>2. document.paths = Paths /\ Range(document.paths) = {Operation(Operations[i]) : i \in DOMAIN Operations}
  BY <1>1 DEF Issued, Range
<1>3. /\ \A i, j \in DOMAIN Operations : Exported(Name(i)) = Exported(Name(j)) => i = j
      /\ \A i \in DOMAIN Operations : Exported(Name(i)) = CamelCase(Name(i)) /\ Exported(Name(i)) # <<>>
  BY DEF MethodsFit
<1>4. /\ \A i \in DOMAIN Operations : Operation(Operations[i]).id = Name(i) /\ RestOp(Operations[i]).id = Name(i)
      /\ \A i \in DOMAIN Operations : Operation(Operations[i]).status = RestOp(Operations[i]).status
  BY SameNames
<1> HIDE DEF Name
<1>5. \A i, j \in DOMAIN document.adapter : Exported(document.adapter[i].id) = Exported(document.adapter[j].id) => i = j
  BY <1>3, <1>4, AdaptersAre
<1>6. /\ {Exported(m.id) : m \in ToSet(document.adapter)} = {CamelCase(op.id) : op \in Range(document.paths)}
      /\ \A m \in ToSet(document.adapter) : Exported(m.id) # <<>>
  <2>1. {Exported(m.id) : m \in ToSet(document.adapter)} = {Exported(Name(i)) : i \in DOMAIN Operations}
    BY <1>4, AdaptersAre
  <2>2. {CamelCase(op.id) : op \in Range(document.paths)} = {CamelCase(Name(i)) : i \in DOMAIN Operations}
    BY <1>2, <1>4
  <2>3. {Exported(Name(i)) : i \in DOMAIN Operations} = {CamelCase(Name(i)) : i \in DOMAIN Operations}
    BY <1>3
  <2>4. \A m \in ToSet(document.adapter) : Exported(m.id) # <<>>
    BY <1>3, <1>4, AdaptersAre
  <2> QED BY <2>1, <2>2, <2>3, <2>4
<1>7. \A d, e \in DOMAIN document.port : Exported(d) = Exported(e) => d = e
  <2>1. \A d \in DOMAIN document.port : \E a \in ToSet(RestOps) : a.wired /\ a.domain = d
    BY DEF Issued, DomainPort
  <2> QED BY <2>1 DEF ActionsFit
<1>8. ASSUME NEW m \in ToSet(document.adapter), NEW op \in Range(document.paths), m.wired, Exported(m.id) = CamelCase(op.id)
      PROVE  /\ m.status = op.status
             /\ Fits(op.request, m.in) /\ Fits(op.response, m.out)
             /\ document.port[m.domain] = <<m.in, m.out>>
  <2>1. PICK i \in DOMAIN Operations : m = RestOp(Operations[i])
    BY <1>8, AdaptersAre
  <2>2. PICK j \in DOMAIN Operations : op = Operation(Operations[j])
    BY <1>2, <1>8
  <2>3. i = j
    BY <1>3, <1>4, <1>8, <2>1, <2>2
  <2>4. m.status = op.status
    BY <1>4, <2>1, <2>2, <2>3
  <2>5. BodyFits(Operations[i], "in") /\ BodyFits(Operations[i], "out")
    <3>1. Operations[i] \in ToSet(Operations)
      BY DEF ToSet
    <3> QED BY <1>8, <2>1, <3>1, TypesFitBodies DEF TypesFit
  <2>6. Fits(op.request, m.in) /\ Fits(op.response, m.out)
    BY <1>8, <2>1, <2>2, <2>3, <2>5, WiredFits
  <2>7. document.port[m.domain] = <<m.in, m.out>>
    BY <1>8, AdaptersAre, PortOf
  <2> QED BY <2>4, <2>6, <2>7
<1> QED BY <1>5, <1>6, <1>7, <1>8 DEF Compiles
-----------------------------------------------------------------------------
(***************************************************************************)
(* oapi-codegen makes no name with a separator in it; and of a name that   *)
(* has none, what the adapter makes of it.                                 *)
(***************************************************************************)
LEMMA CamelCaseFacts ==
  ASSUME NEW name, IsSequence(Letters(name))
  PROVE  /\ ToSet(CamelCase(name)) \cap Separators = {}
         /\ ToSet(Exported(name)) \cap Separators = {} => CamelCase(name) = Exported(name)
<1>1. PICK letters : letters = Letters(name)
  OBVIOUS
<1>2. PICK words : words = [i \in DOMAIN letters |->
                              IF i = 1 \/ letters[i - 1] \in Separators THEN Capital(letters[i]) ELSE letters[i]]
  OBVIOUS
<1>3. PICK n \in Nat : DOMAIN letters = 1 .. n
  BY <1>1, SequenceFacts
<1>4. IsSequence(words)
  BY <1>2, <1>3, SequenceOf
<1>5. CamelCase(name) = Only(words, ToSet(words) \ Separators)
  BY <1>1, <1>2 DEF CamelCase
<1>6. ToSet(CamelCase(name)) \cap Separators = {}
  BY <1>4, <1>5, OnlyFacts
<1>7. ASSUME ToSet(Exported(name)) \cap Separators = {}
      PROVE  CamelCase(name) = Exported(name)
  <2>1. /\ Exported(name) = [i \in 1 .. n |-> IF i = 1 THEN Capital(letters[1]) ELSE letters[i]]
        /\ words = [i \in 1 .. n |-> IF i = 1 \/ letters[i - 1] \in Separators THEN Capital(letters[i]) ELSE letters[i]]
    BY <1>1, <1>2, <1>3 DEF Exported
  <2>2. \A i \in 1 .. n : Exported(name)[i] \notin Separators
    BY <1>7, <2>1 DEF ToSet
  <2>3. \A i \in 1 .. n : letters[i] \notin Separators
    BY <2>1, <2>2, SeparatorsAssumption
  <2>4. \A i \in 1 .. n : i = 1 \/ letters[i - 1] \notin Separators
    BY <2>3
  <2>5. words = Exported(name)
    BY <2>1, <2>4
  <2> QED BY <1>4, <1>5, <1>7, <2>5, OnlyAll
<1> QED BY <1>6, <1>7

LEMMA NamesAreSpelt ==
  ASSUME ParseInv, TreeInv, pass = "done", NEW i \in DOMAIN Operations
  PROVE  IsSequence(Letters(Element(Operations[i]).name))
<1>1. PICK e : e = Operations[i] /\ e \in ToSet(Operations)
  BY DEF ToSet
<1>2. e \in Symbols(Tree) \ {Root}
  BY <1>1, ElementsAreSequences
<1>3. IsSymbol(e)
  BY <1>2 DEF TreeInv, Symbols, Scopes, Tree
<1>4. PICK f \in DOMAIN files : \E k \in DOMAIN files[f] : e = <<f, k>>
  BY <1>3 DEF IsSymbol, IsMember
<1>5. PICK k \in DOMAIN files[f] : e = <<f, k>>
  BY <1>4
<1>6. Element(e) = files[f][k]
  BY <1>2, <1>5 DEF Element, Node, Tree
<1>7. files \in Workspaces
  BY DEF ParseInv
<1>8. files[f][k].what = "symbol"
  BY <1>3, <1>6 DEF IsSymbol, Element
<1> QED BY <1>1, <1>6, <1>7, <1>8, LettersAssumption

\* An operation that is not the last of its place has no method in the interface.
LEMMA CompilingContractsAreGood ==
  ASSUME ParseInv, TreeInv, pass = "done", Emitted, Issued, Compiles
  PROVE  PlacesDiffer /\ PortsAgree /\ MethodsFit /\ ActionsFit /\ TypesFit
<1> DEFINE Name(i) == Element(Operations[i]).name
<1>1. document.paths = Paths
  BY DEF Issued
<1>2. \A op \in Range(document.paths) : \E i \in DOMAIN Operations : op = Operation(Operations[i]) /\ LastAt(i)
  BY <1>1, PathsFacts DEF Range
<1>3. \A i \in DOMAIN Operations : Operation(Operations[i]).id = Name(i) /\ RestOp(Operations[i]).id = Name(i)
  BY SameNames
<1>4. /\ \A i, j \in DOMAIN Operations : Exported(Name(i)) = Exported(Name(j)) => i = j
      /\ \A i \in DOMAIN Operations : Exported(Name(i)) # <<>>
  BY <1>3, AdaptersAre DEF Compiles
<1>5. \A i \in DOMAIN Operations :
        ToSet(CamelCase(Name(i))) \cap Separators = {}
        /\ (ToSet(Exported(Name(i))) \cap Separators = {} => CamelCase(Name(i)) = Exported(Name(i)))
  BY NamesAreSpelt, CamelCaseFacts
<1> HIDE DEF Name
\* Each operation has a method in the interface, of an operation of the document.
<1>6. ASSUME NEW i \in DOMAIN Operations
      PROVE  \E k \in DOMAIN Operations :
               /\ Exported(Name(i)) = CamelCase(Name(k)) /\ LastAt(k)
               /\ Operation(Operations[k]) \in Range(document.paths)
  <2>1. PICK m : m = RestOp(Operations[i]) /\ m \in ToSet(document.adapter)
    BY AdaptersAre
  <2>2. PICK op \in Range(document.paths) : CamelCase(op.id) = Exported(m.id)
    <3>1. Exported(m.id) \in {Exported(a.id) : a \in ToSet(document.adapter)}
      BY <2>1
    <3>2. {Exported(a.id) : a \in ToSet(document.adapter)} = {CamelCase(op.id) : op \in Range(document.paths)}
      BY DEF Compiles
    <3> QED BY <3>1, <3>2
  <2>3. PICK k \in DOMAIN Operations : op = Operation(Operations[k]) /\ LastAt(k)
    BY <1>2
  <2> QED BY <1>3, <2>1, <2>2, <2>3
<1>7. \A i \in DOMAIN Operations : Exported(Name(i)) = CamelCase(Name(i))
  <2> TAKE i \in DOMAIN Operations
  <2>1. PICK k \in DOMAIN Operations : Exported(Name(i)) = CamelCase(Name(k))
    BY <1>6
  <2> QED BY <1>5, <2>1
<1>8. \A i \in DOMAIN Operations : LastAt(i) /\ Operation(Operations[i]) \in Range(document.paths)
  <2> TAKE i \in DOMAIN Operations
  <2>1. PICK k \in DOMAIN Operations :
          /\ Exported(Name(i)) = CamelCase(Name(k)) /\ LastAt(k)
          /\ Operation(Operations[k]) \in Range(document.paths)
    BY <1>6
  <2>2. k = i
    BY <1>4, <1>7, <2>1
  <2> QED BY <2>1, <2>2
<1>9. PlacesDiffer
  <2>1. PICK n \in Nat : DOMAIN Operations = 1 .. n
    BY ElementsAreSequences, SequenceFacts
  <2> QED BY <1>8, <2>1 DEF PlacesDiffer, LastAt
<1>10. MethodsFit
  BY <1>4, <1>7 DEF MethodsFit, Name
<1>11. ASSUME NEW i \in DOMAIN Operations, RestOp(Operations[i]).wired
       PROVE  LET m == RestOp(Operations[i])
                  op == Operation(Operations[i])
              IN  Fits(op.request, m.in) /\ Fits(op.response, m.out) /\ document.port[m.domain] = <<m.in, m.out>>
  <2>1. PICK m : m = RestOp(Operations[i]) /\ m \in ToSet(document.adapter)
    BY AdaptersAre
  <2>2. PICK op \in Range(document.paths) : op = Operation(Operations[i])
    BY <1>8
  <2>3. m.wired /\ Exported(m.id) = CamelCase(op.id)
    BY <1>3, <1>7, <1>11, <2>1, <2>2
  <2>4. Fits(op.request, m.in) /\ Fits(op.response, m.out) /\ document.port[m.domain] = <<m.in, m.out>>
    BY <2>1, <2>2, <2>3 DEF Compiles
  <2> QED BY <2>1, <2>2, <2>4
<1>12. ToSet(RestOps) = {RestOp(Operations[i]) : i \in DOMAIN Operations}
  BY AdaptersAre
<1>13. PortsAgree
  <2>1. \A m \in ToSet(RestOps) : m.wired => document.port[m.domain] = <<m.in, m.out>>
    BY <1>11, <1>12
  <2> QED BY <2>1 DEF PortsAgree
<1>14. ActionsFit
  <2>1. \A a \in ToSet(RestOps) : a.wired => a.domain \in DOMAIN document.port
    BY DEF Issued, DomainPort
  <2>2. \A d, e \in DOMAIN document.port : Exported(d) = Exported(e) => d = e
    BY DEF Compiles
  <2> QED BY <2>1, <2>2 DEF ActionsFit
<1>15. TypesFit
  <2> SUFFICES ASSUME NEW i \in DOMAIN Operations, RestOp(Operations[i]).wired
               PROVE  \A c \in Bodies(Operations[i]) : GoModelType(c) = TypeName(c)
    BY DEF TypesFit, ToSet
  <2>1. BodyFits(Operations[i], "in") /\ BodyFits(Operations[i], "out")
    BY <1>11, WiredFits
  <2> QED BY <2>1, TypesFitBodies
<1> QED BY <1>9, <1>10, <1>13, <1>14, <1>15

(***************************************************************************)
(* For any workspace: if the code generator accepts the document, the      *)
(* adapter implements the server interface and its calls fit the domain    *)
(* port exactly when no two operations stand in one place, no two perform  *)
(* domain actions of one name with other bodies, and the adapter and the   *)
(* code generator make the same Go names of operations and definitions,    *)
(* and different ones of different operations and domain actions.          *)
(***************************************************************************)
THEOREM AdapterAlwaysFits == ContractSpec => []AdapterFitsServer
<1>1. ParseInv /\ TreeInv /\ IssuedInv => AdapterFitsServer
  BY GoodContractsCompile, CompilingContractsAreGood DEF AdapterFitsServer, IssuedInv
<1> QED BY <1>1, ContractAnalyzes, ParseInvHolds, TreeInvHolds, IssuedHolds, PTL
-----------------------------------------------------------------------------
(***************************************************************************)
(* Looking names up.  In a whole tree the children of a symbol are behind  *)
(* it, its parent is before it, and whatever a name is looked up from, it  *)
(* is a symbol of the tree or nothing.                                     *)
(***************************************************************************)
IsTree(t) ==
  /\ Root \in Symbols(t) /\ DOMAIN t.children = Symbols(t)
  /\ \A s \in Symbols(t) :
       /\ s[2] \in Nat
       /\ IsSequence(t.children[s]) /\ \A c \in ToSet(t.children[s]) : c \in Symbols(t) /\ s[2] < c[2]
       /\ s # Root => ParentOf(t, s) \in Symbols(t) /\ ParentOf(t, s)[2] < s[2]
       /\ IsSequence(ImportsOf(t, s)) /\ \A m \in ToSet(ImportsOf(t, s)) : IsSequence(Node(t, m).path)
  /\ \E n \in Nat : \A s \in Symbols(t) : s[2] <= n

Results(t) == Symbols(t) \cup {None}

LEMMA FirstIs ==
  ASSUME NEW ms, IsSequence(ms)
  PROVE  FirstOf(ms) = None \/ \E i \in DOMAIN ms : FirstOf(ms) = ms[i]
<1>1. FirstOf(ms) = FirstAmong(ms)
  BY DEF FirstOf
<1> DEFINE found == {i \in DOMAIN ms : ms[i] # None}
<1>2. found \in SUBSET Nat
  BY SequenceFacts
<1>3. found # {} => Min(found) \in found
  <2> HIDE DEF found
  <2> QED BY <1>2, LeastIs
<1> QED BY <1>1, <1>3 DEF FirstAmong

\* The first of some results is one.
LEMMA FirstResult ==
  ASSUME NEW t, NEW ms, IsSequence(ms), \A i \in DOMAIN ms : ms[i] \in Results(t)
  PROVE  FirstOf(ms) \in Results(t)
BY FirstIs DEF Results

LEMMA ChildrenAre ==
  ASSUME NEW t, IsTree(t), NEW s
  PROVE  /\ IsSequence(Children(t, s)) /\ ToSet(Children(t, s)) \subseteq Symbols(t)
         /\ s \in Symbols(t) => \A c \in ToSet(Children(t, s)) : s[2] < c[2]
<1>1. CASE s \in Symbols(t)
  BY <1>1 DEF IsTree, Children
<1>2. CASE s \notin Symbols(t)
  BY <1>2, EmptyIsSequence, SmallRanges DEF IsTree, Children
<1> QED BY <1>1, <1>2

LEMMA NamedAre ==
  ASSUME NEW t, IsTree(t), NEW s, NEW n
  PROVE  /\ IsSequence(Named(t, Children(t, s), n)) /\ DOMAIN Named(t, Children(t, s), n) = DOMAIN Children(t, s)
         /\ Len(Named(t, Children(t, s), n)) = Len(Children(t, s))
         /\ \A i \in DOMAIN Children(t, s) : Named(t, Children(t, s), n)[i] \in Results(t)
<1>1. PICK below : below = Children(t, s)
  OBVIOUS
<1>2. IsSequence(below) /\ ToSet(below) \subseteq Symbols(t)
  BY <1>1, ChildrenAre
<1>3. PICK ms : ms = Named(t, below, n)
  OBVIOUS
<1>4. ms = [i \in DOMAIN below |-> ms[i]]
  BY <1>3 DEF Named
<1>5. IsSequence(ms) /\ DOMAIN ms = DOMAIN below /\ Len(ms) = Len(below)
  BY <1>2, <1>4, MappedFacts
<1>6. \A i \in DOMAIN below : ms[i] \in Results(t)
  BY <1>2, <1>3 DEF Named, Results, ToSet
<1> QED BY <1>1, <1>3, <1>5, <1>6

LEMMA MemberIs ==
  ASSUME NEW t, IsTree(t), NEW s, NEW n
  PROVE  Member(t, s, n) \in Results(t)
BY NamedAre, FirstResult DEF Member

-----------------------------------------------------------------------------
\* Descend: the function of the fold, and what it makes of a beginning.
IsDescent(g, t, x, n, path) ==
  g = [S \in SUBSET (1 .. n) |-> IF S = {} THEN x ELSE Member(t, g[S \ {Max(S)}], path[Max(S)])]

LEMMA DescentExists ==
  ASSUME NEW t, NEW x, NEW path
  PROVE  \A n \in Nat : \E g : IsDescent(g, t, x, n, path)
<1> DEFINE T == {n \in Nat : ~\E g : IsDescent(g, t, x, n, path)}
<1> SUFFICES ASSUME T # {}
             PROVE  FALSE
  OBVIOUS
<1>1. T \in SUBSET Nat
  OBVIOUS
<1>2. PICK m \in T : \A n \in T : m <= n
  BY <1>1, LeastElement
<1>3. m \in Nat /\ ~\E g : IsDescent(g, t, x, m, path)
  OBVIOUS
<1>4. CASE m = 0
  <2> DEFINE g == [S \in SUBSET (1 .. 0) |-> x]
  <2>1. \A S \in SUBSET (1 .. 0) : S = {}
    OBVIOUS
  <2>2. IsDescent(g, t, x, 0, path)
    BY <2>1 DEF IsDescent
  <2> QED BY <1>3, <1>4, <2>2
<1>5. CASE m # 0
  <2>1. m - 1 \in Nat /\ ~(m <= m - 1)
    BY <1>3, <1>5
  <2>2. m - 1 \notin T
    BY <1>2, <2>1
  <2>3. PICK k \in Nat : k = m - 1 /\ \E g : IsDescent(g, t, x, k, path)
    BY <2>1, <2>2
  <2>4. PICK h : IsDescent(h, t, x, k, path)
    BY <2>3
  <2>5. m = k + 1
    BY <1>3, <2>3
  <2> DEFINE g == [S \in SUBSET (1 .. m) |-> IF m \in S THEN Member(t, h[S \ {m}], path[m]) ELSE h[S]]
  <2>6. ASSUME NEW S \in SUBSET (1 .. m)
        PROVE  g[S] = IF S = {} THEN x ELSE Member(t, g[S \ {Max(S)}], path[Max(S)])
    <3>1. CASE m \in S
      <4>1. Max(S) = m
        <5>1. S \in SUBSET Int /\ \A i \in S : i <= m
          BY <1>3
        <5> QED BY <3>1, <5>1, GreatestIs
      <4>2. S \ {m} \in SUBSET (1 .. m) /\ m \notin S \ {m}
        OBVIOUS
      <4>3. g[S \ {m}] = h[S \ {m}]
        BY <4>2
      <4>4. g[S] = Member(t, h[S \ {m}], path[m])
        BY <3>1
      <4> QED BY <3>1, <4>1, <4>3, <4>4
    <3>2. CASE m \notin S
      <4>1. S \in SUBSET (1 .. k)
        <5>1. \A i \in S : i \in 1 .. m /\ i # m
          BY <3>2
        <5>2. \A i \in 1 .. m : i # m => i \in 1 .. k
          BY <2>5
        <5> QED BY <5>1, <5>2
      <4>2. h[S] = IF S = {} THEN x ELSE Member(t, h[S \ {Max(S)}], path[Max(S)])
        BY <2>4, <4>1 DEF IsDescent
      <4>3. S \ {Max(S)} \in SUBSET (1 .. m) /\ m \notin S \ {Max(S)}
        BY <3>2
      <4>4. g[S] = h[S] /\ g[S \ {Max(S)}] = h[S \ {Max(S)}]
        BY <3>2, <4>3
      <4> QED BY <4>2, <4>4
    <3> QED BY <3>1, <3>2
  <2>7. IsDescent(g, t, x, m, path)
    <3>1. g = [S \in SUBSET (1 .. m) |-> g[S]]
      OBVIOUS
    <3> HIDE DEF g
    <3> QED BY <2>6, <3>1 DEF IsDescent
  <2> QED BY <1>3, <2>7
<1> QED BY <1>4, <1>5

LEMMA DescendIs ==
  ASSUME NEW t, IsTree(t), NEW s \in Results(t), NEW path, IsSequence(path)
  PROVE  Descend(t, s, path) \in Results(t)
<1>1. PICK n \in Nat : n = Len(path) /\ DOMAIN path = 1 .. n
  BY SequenceFacts
<1> DEFINE g == CHOOSE g : IsDescent(g, t, s, n, path)
<1>2. IsDescent(g, t, s, n, path)
  BY DescentExists
<1>3. Descend(t, s, path) = g[1 .. n]
  BY <1>1 DEF Descend, FoldLeft, MapThenFoldSet, IsDescent
<1> HIDE DEF g
<1>4. \A S \in SUBSET (1 .. n) : g[S] = IF S = {} THEN s ELSE Member(t, g[S \ {Max(S)}], path[Max(S)])
  BY <1>2 DEF IsDescent
<1>5. \A S \in SUBSET (1 .. n) : g[S] \in Results(t)
  BY <1>4, MemberIs
<1> QED BY <1>3, <1>5
-----------------------------------------------------------------------------
(***************************************************************************)
(* findRecursive: what the recursive function makes of a symbol, given     *)
(* what it makes of the symbol's children.                                 *)
(***************************************************************************)
Found(t, f, n, s) ==
  FirstOf(Named(t, Children(t, s), n) \o [i \in DOMAIN Children(t, s) |-> f[Children(t, s)[i]]])
IsFind(f, t, n, S) == f = [s \in S |-> Found(t, f, n, s)]

\* The symbols that stand fewer than k members before the last, at b.
Within(t, b, k) == {s \in Symbols(t) : b - s[2] < k}
Bounds(t, b) == \A s \in Symbols(t) : s[2] <= b

LEMMA FoundAgree ==
  ASSUME NEW t, NEW f, NEW g, NEW n, NEW s, \A c \in ToSet(Children(t, s)) : f[c] = g[c]
  PROVE  Found(t, f, n, s) = Found(t, g, n, s)
<1>1. \A i \in DOMAIN Children(t, s) : f[Children(t, s)[i]] = g[Children(t, s)[i]]
  BY DEF ToSet
<1>2. [i \in DOMAIN Children(t, s) |-> f[Children(t, s)[i]]] = [i \in DOMAIN Children(t, s) |-> g[Children(t, s)[i]]]
  BY <1>1
<1> QED BY <1>2 DEF Found

LEMMA FoundIs ==
  ASSUME NEW t, IsTree(t), NEW f, NEW n, NEW s, \A c \in ToSet(Children(t, s)) : f[c] \in Results(t)
  PROVE  Found(t, f, n, s) \in Results(t)
<1>1. PICK below : below = Children(t, s)
  OBVIOUS
<1>2. PICK ms : ms = Named(t, below, n)
  OBVIOUS
<1>3. PICK deeper : deeper = [i \in DOMAIN below |-> f[below[i]]]
  OBVIOUS
<1>4. PICK k \in Nat : k = Len(below) /\ DOMAIN below = 1 .. k
  BY <1>1, ChildrenAre, SequenceFacts
<1>5. IsSequence(ms) /\ Len(ms) = k /\ \A i \in 1 .. k : ms[i] \in Results(t)
  BY <1>1, <1>2, <1>4, NamedAre
<1>6. IsSequence(deeper) /\ Len(deeper) = k /\ \A i \in 1 .. k : deeper[i] \in Results(t)
  <2>1. deeper = [i \in DOMAIN below |-> deeper[i]]
    BY <1>3
  <2>2. IsSequence(deeper) /\ Len(deeper) = k
    BY <1>1, <1>4, <2>1, ChildrenAre, MappedFacts
  <2> QED BY <1>1, <1>3, <1>4, <2>2 DEF ToSet
<1>7. PICK all : all = ms \o deeper
  OBVIOUS
<1>8. /\ IsSequence(all) /\ Len(all) = k + k
      /\ \A i \in 1 .. k + k : all[i] = IF i <= k THEN ms[i] ELSE deeper[i - k]
  BY <1>5, <1>6, <1>7, ConcatFacts
<1>9. DOMAIN all = 1 .. k + k
  BY <1>8, SequenceFacts
<1>10. \A i \in DOMAIN all : all[i] \in Results(t)
  BY <1>5, <1>6, <1>8, <1>9
<1> QED BY <1>1, <1>2, <1>3, <1>7, <1>8, <1>10, FirstResult DEF Found

LEMMA FindExists ==
  ASSUME NEW t, IsTree(t), NEW b \in Nat, Bounds(t, b), NEW n
  PROVE  \A k \in Nat : \E f : IsFind(f, t, n, Within(t, b, k))
<1>a. \A s \in Symbols(t) : s[2] \in Nat /\ s[2] <= b
  BY DEF IsTree, Bounds
<1> DEFINE T == {k \in Nat : ~\E f : IsFind(f, t, n, Within(t, b, k))}
<1> SUFFICES ASSUME T # {}
             PROVE  FALSE
  OBVIOUS
<1>1. T \in SUBSET Nat
  OBVIOUS
<1>2. PICK m \in T : \A k \in T : m <= k
  BY <1>1, LeastElement
<1>3. m \in Nat /\ ~\E f : IsFind(f, t, n, Within(t, b, m))
  OBVIOUS
<1>4. CASE m = 0
  <2> DEFINE f == [s \in Within(t, b, 0) |-> Root]
  <2>1. Within(t, b, 0) = {}
    BY <1>a DEF Within
  <2>2. IsFind(f, t, n, Within(t, b, 0))
    BY <2>1 DEF IsFind
  <2> QED BY <1>3, <1>4, <2>2
<1>5. CASE m # 0
  <2>1. PICK k \in Nat : k = m - 1 /\ m = k + 1 /\ ~(m <= k)
    BY <1>3, <1>5
  <2>2. k \notin T
    BY <1>2, <2>1
  <2>3. PICK f : IsFind(f, t, n, Within(t, b, k))
    BY <2>1, <2>2
  <2> HIDE DEF T
  <2> DEFINE S == Within(t, b, m)
             g == [s \in S |-> IF s \in Within(t, b, k) THEN f[s] ELSE Found(t, f, n, s)]
  <2>4. Within(t, b, k) \subseteq S
    BY <1>a, <2>1 DEF Within
  <2>5. ASSUME NEW s \in S
        PROVE  \A c \in ToSet(Children(t, s)) : c \in Within(t, b, k)
    <3>1. s \in Symbols(t) /\ b - s[2] < m
      BY DEF Within
    <3> TAKE c \in ToSet(Children(t, s))
    <3>2. c \in Symbols(t) /\ s[2] < c[2]
      BY <3>1, ChildrenAre
    <3>3. b - c[2] < k
      BY <1>a, <2>1, <3>1, <3>2
    <3> QED BY <3>2, <3>3 DEF Within
  <2>6. \A s \in Within(t, b, k) : g[s] = f[s]
    BY <2>4
  <2>7. \A s \in Within(t, b, k) : f[s] = Found(t, f, n, s)
    BY <2>3 DEF IsFind
  <2>8. \A s \in S : g[s] = Found(t, f, n, s)
    BY <2>7
  <2>9. g = [s \in S |-> g[s]]
    OBVIOUS
  <2> HIDE DEF g, S
  <2>10. \A s \in S : Found(t, f, n, s) = Found(t, g, n, s)
    <3> TAKE s \in S
    <3>1. \A c \in ToSet(Children(t, s)) : f[c] = g[c]
      BY <2>5, <2>6
    <3> QED BY <3>1, FoundAgree
  <2>11. IsFind(g, t, n, S)
    BY <2>8, <2>9, <2>10 DEF IsFind
  <2> QED BY <1>3, <2>11 DEF S
<1> QED BY <1>4, <1>5

LEMMA FindIs ==
  ASSUME NEW t, IsTree(t), NEW base \in Symbols(t), NEW n
  PROVE  FindRecursive(t, base, n) \in Results(t)
<1>1. PICK b \in Nat : Bounds(t, b)
  BY DEF IsTree, Bounds
<1>a. \A s \in Symbols(t) : s[2] \in Nat /\ s[2] <= b
  BY <1>1 DEF IsTree, Bounds
<1> DEFINE f == CHOOSE f : IsFind(f, t, n, Symbols(t))
<1>2. IsFind(f, t, n, Symbols(t))
  <2>1. b + 1 \in Nat /\ Within(t, b, b + 1) = Symbols(t)
    BY <1>a DEF Within
  <2>2. \E g : IsFind(g, t, n, Symbols(t))
    BY <1>1, <2>1, FindExists
  <2> QED BY <2>2
<1>3. FindRecursive(t, base, n) = f[base]
  BY DEF FindRecursive, IsFind, Found
<1> HIDE DEF f
<1>4. \A s \in Symbols(t) : f[s] = Found(t, f, n, s)
  BY <1>2 DEF IsFind
<1> DEFINE T == {k \in Nat : \E s \in Symbols(t) : b - s[2] = k /\ f[s] \notin Results(t)}
<1>5. T = {}
  <2> SUFFICES ASSUME T # {}
               PROVE  FALSE
    OBVIOUS
  <2>1. T \in SUBSET Nat
    OBVIOUS
  <2>2. PICK m \in T : \A k \in T : m <= k
    BY <2>1, LeastElement
  <2>3. PICK s \in Symbols(t) : b - s[2] = m /\ f[s] \notin Results(t)
    BY <2>2
  <2>4. \A c \in ToSet(Children(t, s)) : f[c] \in Results(t)
    <3> TAKE c \in ToSet(Children(t, s))
    <3>1. c \in Symbols(t) /\ s[2] < c[2]
      BY ChildrenAre
    <3>2. b - c[2] \in Nat /\ b - c[2] < m
      BY <1>a, <2>3, <3>1
    <3>3. b - c[2] \notin T
      BY <2>2, <3>2
    <3> QED BY <3>1, <3>2, <3>3
  <2> QED BY <1>4, <2>3, <2>4, FoundIs
<1>6. b - base[2] \in Nat
  BY <1>a
<1> QED BY <1>3, <1>5, <1>6

-----------------------------------------------------------------------------
LEMMA OfferIs ==
  ASSUME NEW t, IsTree(t), NEW imp, IsSequence(imp.path), NEW n
  PROVE  Offer(t, imp, n) \in Results(t)
<1>1. PICK base : base = Absolute(t, imp.path)
  OBVIOUS
<1>2. base \in Results(t)
  BY <1>1, DescendIs DEF Absolute, IsTree, Results
<1>3. base # None => FindRecursive(t, base, n) \in Results(t)
  BY <1>2, FindIs DEF Results
<1>4. Member(t, base, n) \in Results(t) /\ None \in Results(t)
  BY MemberIs DEF Results
<1> QED BY <1>1, <1>2, <1>3, <1>4 DEF Offer

LEMMA ViaImportsIs ==
  ASSUME NEW t, IsTree(t), NEW s \in Symbols(t), NEW n
  PROVE  ViaImports(t, s, n) \in Results(t)
<1>1. PICK imports : imports = ImportsOf(t, s)
  OBVIOUS
<1>2. IsSequence(imports) /\ \A m \in ToSet(imports) : IsSequence(Node(t, m).path)
  BY <1>1 DEF IsTree
<1>3. PICK ms : ms = [i \in DOMAIN imports |-> Offer(t, Node(t, imports[i]), n)]
  OBVIOUS
<1>4. IsSequence(ms) /\ DOMAIN ms = DOMAIN imports
  BY <1>2, <1>3, MappedFacts
<1>5. \A i \in DOMAIN imports : ms[i] \in Results(t)
  <2> TAKE i \in DOMAIN imports
  <2>1. IsSequence(Node(t, imports[i]).path)
    BY <1>2 DEF ToSet
  <2> QED BY <1>3, <2>1, OfferIs
<1> QED BY <1>1, <1>3, <1>4, <1>5, FirstResult DEF ViaImports

(***************************************************************************)
(* resolveSimple: what the recursive function makes of a scope, given what *)
(* it makes of the scope around it.                                        *)
(***************************************************************************)
Sought(t, f, n, s) ==
  FirstOf(<<Member(t, s, n), ViaImports(t, s, n), IF s = Root THEN None ELSE f[ParentOf(t, s)]>>)
IsSearch(f, t, n, S) == f = [s \in S |-> Sought(t, f, n, s)]
Before(t, k) == {s \in Symbols(t) : s[2] < k}

LEMMA SearchExists ==
  ASSUME NEW t, IsTree(t), NEW n
  PROVE  \A k \in Nat : \E f : IsSearch(f, t, n, Before(t, k))
<1>a. \A s \in Symbols(t) : s[2] \in Nat /\ (s # Root => ParentOf(t, s) \in Symbols(t) /\ ParentOf(t, s)[2] \in Nat /\ ParentOf(t, s)[2] < s[2])
  BY DEF IsTree
<1> DEFINE T == {k \in Nat : ~\E f : IsSearch(f, t, n, Before(t, k))}
<1> SUFFICES ASSUME T # {}
             PROVE  FALSE
  OBVIOUS
<1>1. T \in SUBSET Nat
  OBVIOUS
<1>2. PICK m \in T : \A k \in T : m <= k
  BY <1>1, LeastElement
<1>3. m \in Nat /\ ~\E f : IsSearch(f, t, n, Before(t, m))
  OBVIOUS
<1>4. CASE m = 0
  <2> DEFINE f == [s \in Before(t, 0) |-> Root]
  <2>1. Before(t, 0) = {}
    BY <1>a DEF Before
  <2>2. IsSearch(f, t, n, Before(t, 0))
    BY <2>1 DEF IsSearch
  <2> QED BY <1>3, <1>4, <2>2
<1>5. CASE m # 0
  <2>1. PICK k \in Nat : k = m - 1 /\ m = k + 1 /\ ~(m <= k)
    BY <1>3, <1>5
  <2>2. k \notin T
    BY <1>2, <2>1
  <2>3. PICK f : IsSearch(f, t, n, Before(t, k))
    BY <2>1, <2>2
  <2> HIDE DEF T
  <2> DEFINE S == Before(t, m)
             g == [s \in S |-> IF s \in Before(t, k) THEN f[s] ELSE Sought(t, f, n, s)]
  <2>4. Before(t, k) \subseteq S
    BY <1>a, <2>1 DEF Before
  <2>5. \A s \in S : s # Root => ParentOf(t, s) \in Before(t, k)
    BY <1>a, <2>1 DEF Before
  <2>6. \A s \in Before(t, k) : g[s] = f[s]
    BY <2>4
  <2>7. \A s \in Before(t, k) : f[s] = Sought(t, f, n, s)
    BY <2>3 DEF IsSearch
  <2>8. \A s \in S : g[s] = Sought(t, f, n, s)
    BY <2>7
  <2>9. g = [s \in S |-> g[s]]
    OBVIOUS
  <2> HIDE DEF g, S
  <2>10. \A s \in S : Sought(t, f, n, s) = Sought(t, g, n, s)
    BY <2>5, <2>6 DEF Sought
  <2>11. IsSearch(g, t, n, S)
    BY <2>8, <2>9, <2>10 DEF IsSearch
  <2> QED BY <1>3, <2>11 DEF S
<1> QED BY <1>4, <1>5

LEMMA TripleIs ==
  ASSUME NEW x, NEW y, NEW z
  PROVE  IsSequence(<<x, y, z>>) /\ \A i \in DOMAIN <<x, y, z>> : <<x, y, z>>[i] \in {x, y, z}
<1>1. <<x, y, z>> \in Seq({x, y, z})
  OBVIOUS
<1>2. \A i \in DOMAIN <<x, y, z>> : <<x, y, z>>[i] \in {x, y, z}
  BY <1>1
<1> QED BY <1>1, <1>2, SeqIsSequence

LEMMA SoughtIs ==
  ASSUME NEW t, IsTree(t), NEW s \in Symbols(t), NEW f, NEW n, s # Root => f[ParentOf(t, s)] \in Results(t)
  PROVE  Sought(t, f, n, s) \in Results(t)
<1>1. PICK x, y, z : x = Member(t, s, n) /\ y = ViaImports(t, s, n) /\ z = IF s = Root THEN None ELSE f[ParentOf(t, s)]
  OBVIOUS
<1>2. x \in Results(t) /\ y \in Results(t) /\ z \in Results(t)
  BY <1>1, MemberIs, ViaImportsIs DEF Results
<1>3. PICK ms : ms = <<x, y, z>>
  OBVIOUS
<1>4. IsSequence(ms) /\ \A i \in DOMAIN ms : ms[i] \in Results(t)
  BY <1>2, <1>3, TripleIs
<1> QED BY <1>1, <1>3, <1>4, FirstResult DEF Sought

LEMMA ResolveSimpleIs ==
  ASSUME NEW t, IsTree(t), NEW scope \in Symbols(t), NEW n
  PROVE  ResolveSimple(t, scope, n) \in Results(t)
<1>a. \A s \in Symbols(t) : s[2] \in Nat /\ (s # Root => ParentOf(t, s) \in Symbols(t) /\ ParentOf(t, s)[2] \in Nat /\ ParentOf(t, s)[2] < s[2])
  BY DEF IsTree
<1> DEFINE f == CHOOSE f : IsSearch(f, t, n, Symbols(t))
<1>1. IsSearch(f, t, n, Symbols(t))
  <2>1. PICK b \in Nat : \A s \in Symbols(t) : s[2] <= b
    BY DEF IsTree
  <2>2. b + 1 \in Nat /\ Before(t, b + 1) = Symbols(t)
    BY <1>a, <2>1 DEF Before
  <2>3. \E g : IsSearch(g, t, n, Symbols(t))
    BY <2>2, SearchExists
  <2> QED BY <2>3
<1>2. ResolveSimple(t, scope, n) = f[scope]
  BY DEF ResolveSimple, IsSearch, Sought
<1> HIDE DEF f
<1>3. \A s \in Symbols(t) : f[s] = Sought(t, f, n, s)
  BY <1>1 DEF IsSearch
<1> DEFINE T == {k \in Nat : \E s \in Symbols(t) : s[2] = k /\ f[s] \notin Results(t)}
<1>4. T = {}
  <2> SUFFICES ASSUME T # {}
               PROVE  FALSE
    OBVIOUS
  <2>1. T \in SUBSET Nat
    OBVIOUS
  <2>2. PICK m \in T : \A k \in T : m <= k
    BY <2>1, LeastElement
  <2>3. PICK s \in Symbols(t) : s[2] = m /\ f[s] \notin Results(t)
    BY <2>2
  <2>4. s # Root => f[ParentOf(t, s)] \in Results(t)
    <3> SUFFICES ASSUME s # Root
                 PROVE  f[ParentOf(t, s)] \in Results(t)
      OBVIOUS
    <3>1. PICK p \in Symbols(t) : p = ParentOf(t, s) /\ p[2] \in Nat /\ p[2] < m
      BY <1>a, <2>3
    <3>2. p[2] \notin T
      BY <2>2, <3>1
    <3> QED BY <3>1, <3>2
  <2> QED BY <1>3, <2>3, <2>4, SoughtIs
<1>5. scope[2] \in Nat
  BY <1>a
<1> QED BY <1>2, <1>4, <1>5

\* Whatever is resolved in a scope is a symbol of the tree or nothing.
LEMMA ResolveIs ==
  ASSUME NEW t, IsTree(t), NEW scope \in Symbols(t), NEW path, IsSequence(path), path # <<>>
  PROVE  Resolve(t, scope, path) \in Results(t)
BY ResolveSimpleIs, DescendIs, HeadAndTail DEF Resolve
-----------------------------------------------------------------------------
(***************************************************************************)
(* The tree that has been built is whole.                                  *)
(***************************************************************************)
\* The numbers of a sequence have a bound.
LEMMA BoundExists ==
  ASSUME NEW f
  PROVE  \A n \in Nat : (\A i \in 1 .. n : f[i] \in Nat) => \E b \in Nat : \A i \in 1 .. n : f[i] <= b
<1> DEFINE T == {n \in Nat : (\A i \in 1 .. n : f[i] \in Nat) /\ ~\E b \in Nat : \A i \in 1 .. n : f[i] <= b}
<1> SUFFICES ASSUME T # {}
             PROVE  FALSE
  OBVIOUS
<1>1. T \in SUBSET Nat
  OBVIOUS
<1>2. PICK m \in T : \A n \in T : m <= n
  BY <1>1, LeastElement
<1>3. m \in Nat /\ (\A i \in 1 .. m : f[i] \in Nat) /\ ~\E b \in Nat : \A i \in 1 .. m : f[i] <= b
  OBVIOUS
<1>4. m # 0
  <2> SUFFICES ASSUME m = 0
               PROVE  FALSE
    OBVIOUS
  <2>1. \A i \in 1 .. m : f[i] <= 0
    OBVIOUS
  <2> QED BY <1>3, <2>1
<1>5. PICK k \in Nat : k = m - 1 /\ m = k + 1 /\ ~(m <= k)
  BY <1>3, <1>4
<1>6. k \notin T
  BY <1>2, <1>5
<1>7. \A i \in 1 .. k : f[i] \in Nat
  BY <1>3, <1>5
<1>8. PICK b \in Nat : \A i \in 1 .. k : f[i] <= b
  BY <1>6, <1>7
<1>9. PICK l \in Nat : l = f[m]
  BY <1>3, <1>4
<1>10. PICK c \in Nat : b <= c /\ l <= c
  <2>1. PICK c : c = b + l
    OBVIOUS
  <2>2. c \in Nat /\ b <= c /\ l <= c
    BY <2>1
  <2> QED BY <2>2
<1>11. \A i \in 1 .. m : f[i] <= c
  <2> TAKE i \in 1 .. m
  <2>1. CASE i = m
    BY <1>9, <1>10, <2>1
  <2>2. CASE i # m
    <3>1. i \in 1 .. k
      BY <1>5, <2>2
    <3>2. f[i] \in Nat /\ f[i] <= b
      BY <1>7, <1>8, <3>1
    <3> QED BY <1>10, <3>2
  <2> QED BY <2>1, <2>2
<1> QED BY <1>3, <1>11

\* A member of a file stands in a symbol before it.
LEMMA MembersStand ==
  ASSUME ParseInv, pass # "parse", NEW m, IsMember(m)
  PROVE  /\ m # Root /\ m[2] \in Nat \ {0}
         /\ ParentOf(Tree, m) = Root \/ (IsSymbol(ParentOf(Tree, m)) /\ ParentOf(Tree, m)[2] \in Nat /\ ParentOf(Tree, m)[2] < m[2])
         /\ Node(Tree, m).what \in {"symbol", "import"}
         /\ Node(Tree, m).what = "import" => IsSequence(Node(Tree, m).path)
         /\ Node(Tree, m).what = "symbol" =>
              IsSequence(Node(Tree, m).rels)
              /\ \A n \in DOMAIN Node(Tree, m).rels : IsSequence(Node(Tree, m).rels[n].path) /\ Node(Tree, m).rels[n].path # <<>>
<1>1. files \in Workspaces
  BY DEF ParseInv
<1>a. PICK i \in DOMAIN files : \E k \in DOMAIN files[i] : m = <<i, k>>
  BY DEF IsMember
<1>2. PICK k \in DOMAIN files[i] : m = <<i, k>>
  BY <1>a
<1>3. IsSequence(files) /\ IsSequence(files[i])
  BY <1>1, <1>2, WorkspacesAssumption
<1>4. i \in Nat \ {0} /\ k \in Nat \ {0} /\ DOMAIN files[i] = 1 .. Len(files[i]) /\ Len(files[i]) \in Nat /\ k <= Len(files[i])
  BY <1>2, <1>3, SequenceFacts
<1>5. PICK node : node = files[i][k]
  OBVIOUS
<1>6. /\ node.what \in {"symbol", "import"}
      /\ node.up \in 0 .. k - 1 /\ (node.up = 0 \/ files[i][node.up].what = "symbol")
      /\ node.what = "import" => IsSequence(node.path) /\ node.path # <<>>
      /\ node.what = "symbol" =>
           /\ IsSequence(node.rels) /\ \A n \in DOMAIN node.rels : IsSequence(node.rels[n].path) /\ node.rels[n].path # <<>>
  BY <1>1, <1>2, <1>5, WorkspacesAssumption
<1>7. m # Root /\ m[1] = i /\ m[2] = k
  BY <1>2, <1>4 DEF Root
<1>8. Node(Tree, m) = node
  BY <1>5, <1>7 DEF Node, Tree
<1>9. CASE node.up = 0
  BY <1>4, <1>6, <1>7, <1>8, <1>9 DEF ParentOf
<1>10. CASE node.up # 0
  <2>1. PICK u : u = node.up
    OBVIOUS
  <2>2. u \in Nat /\ u < k /\ u \in DOMAIN files[i] /\ u # 0 /\ files[i][u].what = "symbol"
    BY <1>4, <1>6, <1>10, <2>1
  <2>3. ParentOf(Tree, m) = <<i, u>>
    BY <1>7, <1>8, <1>10, <2>1 DEF ParentOf
  <2>4. PICK p : p = <<i, u>>
    OBVIOUS
  <2>5. p[1] = i /\ p[2] = u /\ p # Root /\ IsMember(p)
    BY <1>2, <1>4, <2>2, <2>4 DEF Root, IsMember
  <2>6. IsSymbol(p)
    BY <2>2, <2>5 DEF IsSymbol, Node, Tree
  <2> QED BY <1>4, <1>6, <1>7, <1>8, <2>2, <2>3, <2>4, <2>5, <2>6
<1> QED BY <1>9, <1>10

LEMMA WholeTree ==
  ASSUME ParseInv, TreeInv, pass \notin {"parse", "build"}
  PROVE  /\ IsTree(Tree) /\ Symbols(Tree) = ToSet(scopes)
         /\ \A s \in Symbols(Tree) \ {Root} : IsSymbol(s)
<1>1. /\ IsSequence(scopes) /\ DOMAIN children = ToSet(scopes) /\ DOMAIN specs = ToSet(scopes)
      /\ Root \in ToSet(scopes) /\ \A s \in ToSet(scopes) : s = Root \/ IsSymbol(s)
      /\ ChildrenStand /\ SpecsStand /\ built = Len(Declared)
      /\ \A j \in 1 .. built : Node(Tree, Declared[j]).what = "symbol" => Declared[j] \in ToSet(scopes)
  BY DEF TreeInv
<1>2. Symbols(Tree) = ToSet(scopes) /\ Tree.children = children /\ Tree.imports = specs
  BY DEF Symbols, Scopes, Tree
<1>3. Root[2] = 0
  BY DEF Root
<1>4. \A s : IsSymbol(s) => s \in ToSet(scopes)
  <2> TAKE s
  <2> SUFFICES ASSUME IsSymbol(s)
               PROVE  s \in ToSet(scopes)
    OBVIOUS
  <2>1. IsSequence(Declared) /\ s \in ToSet(Declared)
    BY DeclaredAre DEF IsSymbol
  <2>2. PICK j \in DOMAIN Declared : s = Declared[j]
    BY <2>1 DEF ToSet
  <2>3. j \in 1 .. built
    BY <1>1, <2>1, SequenceFacts
  <2> QED BY <1>1, <2>2, <2>3 DEF IsSymbol
<1>5. ASSUME NEW s \in ToSet(scopes)
      PROVE  s[2] \in Nat /\ (s # Root => ParentOf(Tree, s) \in ToSet(scopes) /\ ParentOf(Tree, s)[2] < s[2])
  <2>1. CASE s = Root
    BY <1>3, <2>1
  <2>2. CASE s # Root
    <3>1. IsSymbol(s) /\ IsMember(s)
      BY <1>1, <2>2 DEF IsSymbol
    <3>2. /\ s[2] \in Nat \ {0}
          /\ ParentOf(Tree, s) = Root \/ (IsSymbol(ParentOf(Tree, s)) /\ ParentOf(Tree, s)[2] \in Nat /\ ParentOf(Tree, s)[2] < s[2])
      BY <3>1, MembersStand
    <3> QED BY <1>1, <1>3, <1>4, <3>2
  <2> QED BY <2>1, <2>2
<1>6. ASSUME NEW s \in ToSet(scopes)
      PROVE  /\ IsSequence(children[s]) /\ \A c \in ToSet(children[s]) : c \in ToSet(scopes) /\ s[2] < c[2]
             /\ IsSequence(specs[s]) /\ \A m \in ToSet(specs[s]) : IsSequence(Node(Tree, m).path)
  <2>1. IsSequence(children[s]) /\ \A c \in ToSet(children[s]) : c \in ToSet(scopes) \ {Root} /\ ParentOf(Tree, c) = s
    BY <1>1 DEF ChildrenStand
  <2>2. IsSequence(specs[s]) /\ \A m \in ToSet(specs[s]) : IsMember(m) /\ Node(Tree, m).what # "symbol"
    BY <1>1 DEF SpecsStand
  <2>3. \A m \in ToSet(specs[s]) : IsSequence(Node(Tree, m).path)
    BY <2>2, MembersStand
  <2> QED BY <1>5, <2>1, <2>2, <2>3
<1>7. \E b \in Nat : \A s \in ToSet(scopes) : s[2] <= b
  <2>1. Len(scopes) \in Nat /\ DOMAIN scopes = 1 .. Len(scopes)
    BY <1>1, SequenceFacts
  <2>2. PICK f : f = [i \in DOMAIN scopes |-> scopes[i][2]]
    OBVIOUS
  <2>3. \A i \in 1 .. Len(scopes) : f[i] \in Nat
    BY <1>5, <2>1, <2>2 DEF ToSet
  <2>4. PICK b \in Nat : \A i \in 1 .. Len(scopes) : f[i] <= b
    BY <2>1, <2>3, BoundExists
  <2> QED BY <2>1, <2>2, <2>4 DEF ToSet
<1>8. IsTree(Tree)
  BY <1>1, <1>2, <1>5, <1>6, <1>7 DEF IsTree, ImportsOf
<1> QED BY <1>1, <1>2, <1>8
-----------------------------------------------------------------------------
(***************************************************************************)
(* resolveRelationships leaves out no clause.                              *)
(***************************************************************************)
Known(s) == \A n \in DOMAIN Node(Tree, s).rels : <<s, "rel", n>> \in DOMAIN targets

KnownInv ==
  /\ at \in Nat \ {0} /\ nth \in Nat \ {0}
  /\ nth # 1 => pass \in {"supers", "relations"} /\ AtScope
  /\ pass = "relations" =>
       /\ \A j \in 1 .. at - 1 : j \in DOMAIN scopes => Known(scopes[j])
       /\ \A n \in 1 .. nth - 1 : <<Scope, "rel", n>> \in DOMAIN targets
  /\ pass \in RefPasses \cup {"done"} => \A s \in Symbols(Tree) : Known(s)

\* What takes no clause from the known ones.
LEMMA KnownKept ==
  ASSUME KnownInv, UNCHANGED <<files, treeVars, at, nth, pass>>, DOMAIN targets \subseteq DOMAIN targets'
  PROVE  KnownInv'
<1> USE DEF treeVars
<1>1. Tree' = Tree /\ Scope' = Scope /\ (AtScope' <=> AtScope) /\ Symbols(Tree)' = Symbols(Tree) /\ scopes' = scopes
  BY DEF Tree, Scope, AtScope
<1>2. \A s : Known(s) => Known(s)'
  BY <1>1 DEF Known
<1> QED BY <1>1, <1>2 DEF KnownInv

LEMMA Recorded ==
  ASSUME KnownInv, AtRel("relations"), NEW target, Record(target)
  PROVE  KnownInv'
<1>1. /\ UNCHANGED <<files, treeVars, at, pass>> /\ nth' = nth + 1 /\ pass = "relations"
      /\ DOMAIN targets' = DOMAIN targets \cup {<<Scope, "rel", nth>>}
  BY DEF Record, AtRel, With, RelRef
<1>2. Tree' = Tree /\ Scope' = Scope /\ AtScope' /\ scopes' = scopes
  BY <1>1 DEF Tree, Scope, AtScope, AtRel, treeVars
<1>3. \A s : Known(s) => Known(s)'
  BY <1>1, <1>2 DEF Known
<1>4. at \in Nat \ {0} /\ nth \in Nat \ {0}
  BY DEF KnownInv
<1>5. \A j \in 1 .. at' - 1 : j \in DOMAIN scopes' => Known(scopes[j])'
  BY <1>1, <1>2, <1>3 DEF KnownInv
<1>6. \A n \in 1 .. nth' - 1 : <<Scope', "rel", n>> \in DOMAIN targets'
  <2> TAKE n \in 1 .. nth' - 1
  <2>1. n \in 1 .. nth - 1 \/ n = nth
    BY <1>1, <1>4
  <2> QED BY <1>1, <1>2, <2>1 DEF KnownInv
<1>7. "relations" \notin RefPasses \cup {"done"}
  BY DEF RefPasses
<1> QED BY <1>1, <1>2, <1>4, <1>5, <1>6, <1>7 DEF KnownInv

LEMMA ScopeKnown ==
  ASSUME ParseInv, TreeInv, KnownInv, NextScope
  PROVE  KnownInv'
<1>1. /\ UNCHANGED <<files, treeVars, pass, targets>> /\ nth' = 1 /\ at' = at + 1
      /\ pass \in {"supers", "relations"} /\ AtScope /\ ~MoreRels
  BY DEF NextScope
<1>2. Tree' = Tree /\ scopes' = scopes /\ at \in Nat \ {0} /\ nth \in Nat \ {0}
  BY <1>1 DEF Tree, treeVars, KnownInv
<1>3. \A s : Known(s) => Known(s)'
  BY <1>1, <1>2 DEF Known
<1>4. pass = "relations" => Known(scopes[at])
  <2> SUFFICES ASSUME pass = "relations"
               PROVE  Known(scopes[at])
    OBVIOUS
  <2>1. Scope = scopes[at] /\ at \in 1 .. Len(scopes) /\ Len(scopes) \in Nat
    <3>1. Len(scopes) \in Nat
      BY SequenceFacts DEF TreeInv
    <3> QED BY <1>1, <1>2, <3>1 DEF Scope, AtScope, Scopes, Tree
  <2>2. IsSequence(Rels)
    <3>1. Scope \in ToSet(scopes)
      BY <2>1, SequenceFacts DEF TreeInv, ToSet
    <3>2. CASE Scope = Root
      BY <3>2, EmptyIsSequence DEF Rels, Node, RootNode
    <3>3. CASE Scope # Root
      <4>1. IsSymbol(Scope)
        BY <3>1, <3>3 DEF TreeInv
      <4> QED BY <4>1, MembersStand DEF IsSymbol, Rels
    <3> QED BY <3>2, <3>3
  <2>3. \A n \in DOMAIN Rels : n \in 1 .. nth - 1
    <3>1. Len(Rels) \in Nat /\ DOMAIN Rels = 1 .. Len(Rels)
      BY <2>2, SequenceFacts
    <3> QED BY <1>1, <1>2, <3>1 DEF MoreRels
  <2> QED BY <2>1, <2>3 DEF KnownInv, Known, Rels
<1>5. pass = "relations" => \A j \in 1 .. at' - 1 : j \in DOMAIN scopes => Known(scopes[j])'
  <2> SUFFICES ASSUME pass = "relations", NEW j \in 1 .. at' - 1, j \in DOMAIN scopes
               PROVE  Known(scopes[j])'
    OBVIOUS
  <2>1. j \in 1 .. at - 1 \/ j = at
    BY <1>1, <1>2
  <2>2. Known(scopes[j])
    BY <1>4, <2>1 DEF KnownInv
  <2> QED BY <1>2, <1>3, <2>2
<1>6. pass \notin RefPasses \cup {"done"}
  BY <1>1 DEF RefPasses
<1>7. 1 .. nth' - 1 = {}
  BY <1>1
<1> QED BY <1>1, <1>2, <1>5, <1>6, <1>7 DEF KnownInv

LEMMA PassKnown ==
  ASSUME TreeInv, KnownInv, NextPass
  PROVE  KnownInv'
<1>1. /\ UNCHANGED <<files, treeVars, nth, targets>> /\ at' = 1
      /\ pass \in DOMAIN Following /\ pass' = Following[pass] /\ ~AtScope
  BY DEF NextPass
<1>2. Tree' = Tree /\ scopes' = scopes /\ at \in Nat \ {0} /\ nth = 1 /\ Symbols(Tree)' = Symbols(Tree)
  BY <1>1 DEF Tree, treeVars, KnownInv
<1>3. \A s : Known(s) => Known(s)'
  BY <1>1, <1>2 DEF Known
<1>4. pass = "relations" => \A s \in Symbols(Tree) : Known(s)
  <2> SUFFICES ASSUME pass = "relations", NEW s \in Symbols(Tree)
               PROVE  Known(s)
    OBVIOUS
  <2>1. PICK j \in DOMAIN scopes : s = scopes[j]
    BY DEF Symbols, Scopes, Tree, ToSet
  <2>2. Len(scopes) \in Nat /\ DOMAIN scopes = 1 .. Len(scopes)
    BY SequenceFacts DEF TreeInv
  <2>3. j \in 1 .. at - 1
    BY <1>1, <1>2, <2>1, <2>2 DEF AtScope, Scopes, Tree
  <2> QED BY <2>1, <2>3 DEF KnownInv
<1>5. pass' \in RefPasses \cup {"done"} => pass = "relations" \/ pass \in RefPasses \cup {"done"}
  BY <1>1 DEF Following, RefPasses
<1>6. pass' \in RefPasses \cup {"done"} => \A s \in Symbols(Tree) : Known(s)'
  BY <1>3, <1>4, <1>5 DEF KnownInv
<1>7. 1 .. nth' - 1 = {} /\ 1 .. at' - 1 = {}
  BY <1>1, <1>2
<1> QED BY <1>1, <1>2, <1>6, <1>7 DEF KnownInv

LEMMA KnownNext ==
  ASSUME ParseInv, TreeInv, KnownInv, [Next]_vars
  PROVE  KnownInv'
<1> DEFINE Early == pass \in {"parse", "build"} /\ pass' \in {"parse", "build", "imports"} /\ UNCHANGED <<at, nth>>
<1>1. Early => KnownInv'
  BY DEF KnownInv, RefPasses
<1>2. CASE ParseOnly \/ Spawn \/ Wait \/ Build \/ EndBuild
  BY <1>1, <1>2 DEF ParseOnly, Spawn, Wait, Build, EndBuild, passVars
<1>3. ASSUME NEW i \in DOMAIN units, Work(i)
      PROVE  KnownInv'
  <2>1. pass = "parse" /\ pass' = "parse" /\ UNCHANGED passVars
    BY <1>3 DEF ParseInv, Work, Parse, Release, Finish
  <2> QED BY <1>1, <2>1 DEF passVars
<1>4. CASE ResolveImports
  <2>1. pass = "imports" /\ pass' = "imports" /\ at' = at + 1 /\ nth' = nth
    BY <1>4 DEF ResolveImports
  <2> QED BY <2>1 DEF KnownInv, RefPasses
<1>5. CASE BuildSupertype
  <2>1. pass = "supers" /\ pass' = "supers" /\ at' = at /\ nth' = nth + 1 /\ AtScope /\ UNCHANGED <<files, treeVars>>
    BY <1>5 DEF BuildSupertype, AtRel
  <2>2. AtScope'
    BY <2>1 DEF AtScope, Tree, treeVars
  <2> QED BY <2>1, <2>2 DEF KnownInv, RefPasses
<1>6. CASE ResolveRelation
  BY <1>6, Recorded DEF ResolveRelation
<1>7. CASE NextScope
  BY <1>7, ScopeKnown
<1>8. CASE StartWalk \/ WalkInto \/ WalkPast
  <2>1. UNCHANGED <<files, treeVars, at, nth, pass, targets>>
    BY <1>8 DEF StartWalk, WalkInto, WalkPast
  <2> QED BY <2>1, KnownKept
<1>9. CASE WalkFound
  BY <1>9, Recorded DEF WalkFound, MoreSupers, Walking
<1>10. CASE WalkUp
  <2>1. CASE Len(walk) = 1
    BY <1>10, <2>1, Recorded DEF WalkUp, Walking
  <2>2. CASE Len(walk) # 1
    <3>1. UNCHANGED <<files, treeVars, at, nth, pass, targets>>
      BY <1>10, <2>2 DEF WalkUp
    <3> QED BY <3>1, KnownKept
  <2> QED BY <2>1, <2>2
<1>11. CASE ResolveRefs
  <2>1. pass \in RefPasses /\ pass' = pass /\ at' = at + 1 /\ nth' = nth /\ UNCHANGED <<files, treeVars>>
    BY <1>11 DEF ResolveRefs
  <2>2. DOMAIN targets \subseteq DOMAIN targets'
    BY <1>11 DEF ResolveRefs, With
  <2>3. Tree' = Tree /\ Symbols(Tree)' = Symbols(Tree) /\ pass \notin {"supers", "relations"}
    BY <2>1 DEF Tree, treeVars, RefPasses
  <2>4. \A s : Known(s) => Known(s)'
    BY <2>2, <2>3 DEF Known
  <2> QED BY <2>1, <2>3, <2>4 DEF KnownInv
<1>12. CASE NextPass
  BY <1>12, PassKnown
<1>13. CASE UNCHANGED vars
  <2>1. UNCHANGED <<files, treeVars, at, nth, pass, targets>>
    BY <1>13 DEF vars, passVars
  <2> QED BY <2>1, KnownKept
<1> QED
  BY <1>2, <1>3, <1>4, <1>5, <1>6, <1>7, <1>8, <1>9, <1>10, <1>11, <1>12, <1>13 DEF Next, Main

LEMMA KnownInvHolds == Spec => []KnownInv
<1>1. Init => KnownInv
  BY DEF Init, KnownInv, RefPasses
<1>2. ParseInv /\ TreeInv /\ KnownInv /\ [Next]_vars => KnownInv'
  BY KnownNext
<1> QED BY <1>1, <1>2, ParseInvHolds, TreeInvHolds, PTL DEF Spec

LEMMA ResolveInvHolds == Spec => []ResolveInv
<1>1. Init => ResolveInv
  BY ResolveInit
<1>2. ParseInv /\ ResolveInv /\ [Next]_vars => ResolveInv'
  BY ResolveNext
<1> QED BY <1>1, <1>2, ParseInvHolds, PTL DEF Spec

\* In the end each clause of a symbol has been resolved to a symbol or to nothing.
LEMMA ClausesResolve ==
  ASSUME ParseInv, TreeInv, KnownInv, RelationsAreSound, pass = "done",
         NEW s \in Symbols(Tree), NEW n \in DOMAIN Node(Tree, s).rels
  PROVE  targets[<<s, "rel", n>>] \in Results(Tree)
<1>1. IsTree(Tree) /\ Symbols(Tree) = ToSet(scopes) /\ \A x \in Symbols(Tree) \ {Root} : IsSymbol(x)
  BY WholeTree
<1>2. s # Root
  BY EmptyIsSequence DEF Node, RootNode
<1>3. PICK rel : rel = Node(Tree, s).rels[n]
  OBVIOUS
<1>4. IsSequence(rel.path) /\ rel.path # <<>>
  BY <1>1, <1>2, <1>3, MembersStand DEF IsSymbol
<1>5. ParentOf(Tree, s) \in Symbols(Tree)
  BY <1>1, <1>2 DEF IsTree
<1>6. Lexical(Tree, s, rel) \in Results(Tree)
  BY <1>1, <1>4, <1>5, ResolveIs DEF Lexical
<1>7. <<s, "rel", n>> \in DOMAIN targets
  BY DEF KnownInv, Known
<1>a. PICK r : r = <<s, "rel", n>>
  OBVIOUS
<1>8. r = <<s, "rel", n>> /\ r[1] = s /\ r[2] = "rel" /\ r[3] = n
  BY <1>a
<1>9. RelationOK(Tree, supers, s, rel, targets[r])
  BY <1>3, <1>7, <1>8 DEF RelationsAreSound
<1>10. \A m \in InheritedBy(Tree, supers, ParentOf(Tree, s), rel.path[1]) : m \in Results(Tree)
  BY <1>1, MemberIs DEF InheritedBy
<1> QED BY <1>6, <1>8, <1>9, <1>10 DEF RelationOK, Results
-----------------------------------------------------------------------------
(***************************************************************************)
(* What a document refers to.                                              *)
(***************************************************************************)
LEMMA TypesAreSymbols ==
  ASSUME ParseInv, TreeInv, KnownInv, RelationsAreSound, pass = "done", NEW p \in Symbols(Tree)
  PROVE  TypeOf(p) \in Results(Tree)
<1>1. PICK rels : rels = Node(Tree, p).rels
  OBVIOUS
<1>2. IsSequence(rels)
  <2>1. CASE p = Root
    BY <1>1, <2>1, EmptyIsSequence DEF Node, RootNode
  <2>2. CASE p # Root
    <3>1. IsSymbol(p)
      BY <2>2, WholeTree
    <3> QED BY <1>1, <3>1, MembersStand DEF IsSymbol
  <2> QED BY <2>1, <2>2
<1> DEFINE typings == {n \in DOMAIN rels : rels[n].kind = "typed"}
<1>3. CASE typings = {}
  BY <1>1, <1>3 DEF TypeOf, Element, Results
<1>4. CASE typings # {}
  <2>1. typings \in SUBSET Nat
    BY <1>2, SequenceFacts
  <2>2. Min(typings) \in typings
    <3> HIDE DEF typings
    <3> QED BY <1>4, <2>1, LeastIs
  <2>3. Min(typings) \in DOMAIN Node(Tree, p).rels
    BY <1>1, <2>2
  <2>4. TypeOf(p) = targets[<<p, "rel", Min(typings)>>]
    BY <1>1, <1>4 DEF TypeOf, Element
  <2> QED BY <2>3, <2>4, ClausesResolve
<1> QED BY <1>3, <1>4

\* A definition that becomes something is a component.
LEMMA DefinitionsAreComponents ==
  ASSUME TreeInv, NEW t \in Symbols(Tree), Element(t).kind = "Definition", ~BecomesNone(t)
  PROVE  QualifiedName(t) \in DOMAIN Schemas
<1>1. t # Root
  BY DEF Element, Node, RootNode
<1>2. t \in ToSet(UserElements)
  BY <1>1, ElementsAreSequences DEF BecomesNone
<1>3. IsSchemaDefinition(t)
  BY DEF IsSchemaDefinition, BecomesNone
<1>4. t \in ToSet(Definitions)
  BY <1>2, <1>3, ElementsAreSequences
<1>5. PICK i \in DOMAIN Definitions : t = Definitions[i]
  BY <1>4 DEF ToSet
<1>6. DOMAIN Components = {QualifiedName(Definitions[j]) : j \in DOMAIN Definitions}
  BY DEF Components, Assigned, Range
<1>7. QualifiedName(t) \in DOMAIN Components
  BY <1>5, <1>6
<1> QED BY <1>7 DEF Schemas, With

LEMMA BodiesRefer ==
  ASSUME ParseInv, TreeInv, KnownInv, RelationsAreSound, pass = "done", NEW e, NEW dir,
         NEW c \in Range(BodySchema(e, dir).refs)
  PROVE  \E t \in Symbols(Tree) : Element(t).kind = "Definition" /\ QualifiedName(t) = c
<1>1. PICK params : params = Params(e, dir)
  OBVIOUS
<1>2. PICK n \in Nat : DOMAIN params = 1 .. n
  BY <1>1, UsagesAreSequences, SequenceFacts
<1> DEFINE names == [i \in DOMAIN params |-> Element(params[i]).name]
           refs == [i \in DOMAIN params |-> QualifiedName(ParamSchemaType(params[i]))]
<1>3. BodySchema(e, dir).refs = Assigned(names, refs) /\ DOMAIN names = 1 .. n
  BY <1>1, <1>2 DEF BodySchema
<1>4. \A i \in 1 .. n : refs[i] = QualifiedName(ParamSchemaType(params[i]))
  BY <1>2
<1> HIDE DEF names, refs
<1>5. PICK k \in DOMAIN Assigned(names, refs) : c = Assigned(names, refs)[k]
  BY <1>3 DEF Range
<1>6. PICK i \in 1 .. n : c = refs[i]
  <2>1. \A x \in DOMAIN Assigned(names, refs) :
          \E i \in 1 .. n : /\ names[i] = x /\ Assigned(names, refs)[x] = refs[i]
                            /\ \A j \in 1 .. n : names[j] = x => j <= i
    BY <1>3, AssignedFacts
  <2> QED BY <1>5, <2>1
<1>7. PICK p : p = params[i] /\ p \in ToSet(params)
  BY <1>2 DEF ToSet
<1>8. p \in Symbols(Tree) /\ ParamSchemaType(p) # None
  <2>1. IsTree(Tree)
    BY WholeTree
  <2>2. IsSequence(Children(Tree, e)) /\ ToSet(Children(Tree, e)) \subseteq Symbols(Tree)
    BY <2>1, ChildrenAre
  <2>3. ToSet(Usages(e)) \subseteq Symbols(Tree) /\ IsSequence(Usages(e))
    BY <2>2, OnlyFacts DEF Usages
  <2>4. ToSet(Directed(e, dir)) \subseteq Symbols(Tree) /\ IsSequence(Directed(e, dir))
    BY <2>3, OnlyFacts DEF Directed
  <2>5. ToSet(Params(e, dir)) = ToSet(Directed(e, dir)) \cap {x \in ToSet(Directed(e, dir)) : ParamSchemaType(x) # None}
    BY <2>4, OnlyFacts DEF Params
  <2> QED BY <1>1, <1>7, <2>4, <2>5
<1>9. PICK t : t = TypeOf(p)
  OBVIOUS
<1>10. t # None /\ ParamSchemaType(p) = t /\ Element(t).kind = "Definition"
  BY <1>8, <1>9 DEF ParamSchemaType
<1>11. t \in Symbols(Tree)
  BY <1>8, <1>9, <1>10, TypesAreSymbols DEF Results
<1> QED BY <1>4, <1>6, <1>7, <1>10, <1>11

(***************************************************************************)
(* For any workspace, whatever its signatures and error models: what an    *)
(* operation in the document refers to is described in the document,       *)
(* unless a parameter's definition becomes no component, and so is its     *)
(* error schema, unless @ErrorModel names it.                              *)
(***************************************************************************)
THEOREM ReferencesAlwaysResolve == ContractSpec => []ReferencesResolve
<1>1. ASSUME ParseInv, TreeInv, KnownInv, ResolveInv, IssuedInv
      PROVE  ReferencesResolve
  <2> SUFFICES ASSUME Emitted, NEW op \in Range(document.paths)
               PROVE  /\ \A c \in References(op) \ DOMAIN document.schemas :
                           \E t \in Symbols(Tree) : QualifiedName(t) = c /\ BecomesNone(t)
                      /\ op.error \in DOMAIN document.schemas
                         \/ \E e \in ToSet(Operations) : ~UsesDefault(e) /\ op.error = ErrorSchemaRef(e)
    BY DEF ReferencesResolve
  <2>1. pass = "done" /\ document.paths = Paths /\ DOMAIN document.schemas = DOMAIN Schemas /\ RelationsAreSound
    BY <1>1 DEF IssuedInv, Issued, ResolveInv
  <2>2. PICK e \in ToSet(Operations) : op = Operation(e)
    BY <1>1, <2>1, PathsFacts DEF Range, ToSet
  <2>3. ASSUME NEW c \in References(op), c \notin DOMAIN Schemas
        PROVE  \E t \in Symbols(Tree) : QualifiedName(t) = c /\ BecomesNone(t)
    <3>1. PICK dir : c \in Range(BodySchema(e, dir).refs)
      BY <2>2 DEF References, Operation
    <3>2. PICK t \in Symbols(Tree) : Element(t).kind = "Definition" /\ QualifiedName(t) = c
      BY <1>1, <2>1, <3>1, BodiesRefer
    <3> QED BY <1>1, <2>3, <3>2, DefinitionsAreComponents
  <2>4. op.error \in DOMAIN Schemas \/ \E x \in ToSet(Operations) : ~UsesDefault(x) /\ op.error = ErrorSchemaRef(x)
    <3>1. op.error = ErrorSchemaRef(e)
      BY <2>2 DEF Operation
    <3>2. CASE UsesDefault(e)
      <4>1. NeedProblemDetails /\ op.error = ProblemDetails
        BY <3>1, <3>2 DEF NeedProblemDetails, ErrorSchemaRef
      <4> QED BY <4>1 DEF Schemas, With
    <3> QED BY <3>1, <3>2
  <2> QED BY <2>1, <2>3, <2>4
<1> QED BY <1>1, ContractAnalyzes, ParseInvHolds, TreeInvHolds, KnownInvHolds, ResolveInvHolds, IssuedHolds, PTL
=============================================================================
