------------------------------- MODULE Symbols -------------------------------
(***************************************************************************)
(* What engine/hir makes of one parsed file before any name is resolved    *)
(* (resolve.go: buildMember; symbol.go): the sequence of its members as    *)
(* module Names has it, in the order in which they are built, and for      *)
(* every declaration what its keywords, annotations and clauses say.       *)
(***************************************************************************)
EXTENDS Ast

NoName == <<>>

\* The last segment of a name.
DeclName(n) ==
  Default(Name(n), LAMBDA q : IF Path(q) = <<>> THEN NoName ELSE Last(Path(q)), NoName)

RelKind ==
  (":>" :> "specializes") @@ ("specializes" :> "specializes") @@ ("subsets" :> "subsets") @@
  (":>>" :> "redefines") @@ ("redefines" :> "redefines") @@ (":" :> "typed") @@
  ("~" :> "conjugates") @@ ("conjugates" :> "conjugates")
RelKindOf(op) ==
  LET named == {r \in DOMAIN RelKind : op = <<r>> \/ (r \in DOMAIN Spelling /\ op = Spelling[r])}
  IN  {RelKind[r] : r \in named}

HasPath(spec) == spec.path # <<>>

\* Seeded fault: names without a segment are kept.
RelSpecsUnchecked(d) ==
  LET specs(r) == Each(Targets(r), LAMBDA t : [kind |-> CHOOSE k \in RelKindOf(Operator(r)) : TRUE,
                                               path |-> Path(t)])
      known == SelectSeq(Relationships(d), LAMBDA r : RelKindOf(Operator(r)) # {})
  IN  FlattenSeq(Each(known, specs))

RelSpecs(d) ==
  LET specs(r) == Each(Targets(r), LAMBDA t : [kind |-> CHOOSE k \in RelKindOf(Operator(r)) : TRUE,
                                               path |-> Path(t)])
      known == SelectSeq(Relationships(d), LAMBDA r : RelKindOf(Operator(r)) # {})
  IN  SelectSeq(FlattenSeq(Each(known, specs)), HasPath)

\* Keys in the order in which they first occur; the last value counts.
AnnotationOf(a) ==
  LET keys == Each(Assignments(a), LAMBDA asn : asn.name)
      first == {i \in DOMAIN keys : \A j \in 1 .. i - 1 : keys[j] # keys[i]}
      last(k) == Max({i \in DOMAIN keys : keys[i] = k})
  IN  [name |-> AnnotationName(a),
       keys |-> Each(SetToSortSeq(first, <), LAMBDA i : keys[i]),
       values |-> [k \in ToSet(keys) |-> Assignments(a)[last(k)].value]]

PathOf(names) == Default(names, Path, <<>>)

PerformSpecs(d) ==
  SelectSeq(Each(Performs(d), LAMBDA p : [name |-> PerformName(p), path |-> PathOf(PerformTarget(p))]), HasPath)
SuccessionSpecs(d) ==
  LET specs == Each(Successions(d), LAMBDA s : [source |-> PathOf(SuccessionSource(s)),
                                                path |-> PathOf(SuccessionTarget(s)),
                                                guard |-> SuccessionGuard(s)])
  IN  SelectSeq(specs, HasPath)
AcceptSpecs(d) ==
  Each(Accepts(d), LAMBDA a : [mode |-> AcceptMode(a), ref |-> AcceptRef(a), path |-> PathOf(AcceptTarget(a))])
TransitionSpecs(d) ==
  Each(Transitions(d),
       LAMBDA t : [name |-> Default(TransitionName(t), String, <<>>), source |-> PathOf(TransitionSource(t)),
                   path |-> PathOf(TransitionTarget(t)), trigger |-> PathOf(TransitionTrigger(t)),
                   ref |-> TriggerText(t), effect |-> PathOf(TransitionEffect(t)),
                   guard |-> TransitionGuard(t)])
LoopSpecs(d) == Each(Loops(d), LAMBDA l : [count |-> LoopCount(l), path |-> PathOf(LoopTarget(l))])
-----------------------------------------------------------------------------
\* The references that the passes after the relationship clauses resolve.
Refs(s) ==
  LET refs(kind, specs, f(_)) ==
        FlattenSeq(Each(specs, LAMBDA spec : Each(f(spec), LAMBDA path : [kind |-> kind, path |-> path])))
      path(spec) == <<spec.path>>
      edge(spec) == <<spec.path, spec.source>>
      parts(spec) == <<spec.source, spec.path, spec.trigger, spec.effect>>
  IN  SelectSeq(refs("performs", s.performs, path) \o refs("successions", s.successions, edge) \o
                refs("accepts", s.accepts, path) \o refs("transitions", s.transitions, parts) \o
                refs("loops", s.loops, path), HasPath)

\* newSymbol, in the scope at position `up' of the file, 0 for the root.
NewSymbol(kind, name, up) ==
  [what |-> "symbol", kind |-> kind, name |-> name, up |-> up, rels |-> <<>>, annotations |-> <<>>,
   keywords |-> <<>>, control |-> <<>>, performs |-> <<>>, successions |-> <<>>, accepts |-> <<>>,
   transitions |-> <<>>, loops |-> <<>>]

DeclKind(d) == CASE d.kind = "Def" -> "Definition" [] d.kind = "Usage" -> "Usage" [] OTHER -> "TypeDecl"

DeclarationSymbol(d, up) ==
  [NewSymbol(DeclKind(d), DeclName(d), up) EXCEPT
     !.rels = RelSpecs(d), !.annotations = Each(Annotations(d), AnnotationOf), !.keywords = Keywords(d),
     !.performs = PerformSpecs(d), !.successions = SuccessionSpecs(d), !.accepts = AcceptSpecs(d),
     !.transitions = TransitionSpecs(d), !.loops = LoopSpecs(d)]

ControlSymbol(c, up) == [NewSymbol("Usage", ControlName(c), up) EXCEPT !.control = ControlKind(c)]

\* importSpecOf: an import without a name is none.
ImportSpecs(i, up) ==
  LET spec(in) == [what |-> "import", up |-> up, path |-> Segments(in),
                   mode |-> IF IsRecursive(in) THEN "deep" ELSE IF IsWildcard(in) THEN "all" ELSE "single"]
  IN  SelectSeq(Each(ImportName(i), spec), HasPath)

\* buildMember: a symbol, those of its body, and then its control nodes.
RECURSIVE Built(_, _, _)
Built(file, up, m) ==
  LET at == Len(file) + 1
      inside(symbol) == FoldLeft(LAMBDA f, c : Built(f, at, c), Append(file, symbol), Members(m))
  IN  CASE m.kind = "Package" -> inside(NewSymbol("Package", DeclName(m), up))
        [] m.kind = "Import" -> file \o ImportSpecs(m, up)
        [] OTHER -> inside(DeclarationSymbol(m, up)) \o Each(ControlNodes(m), LAMBDA c : ControlSymbol(c, at))

FileOf(sourceFile) == FoldLeft(LAMBDA f, m : Built(f, 0, m), <<>>, MembersOf(sourceFile))
=============================================================================
