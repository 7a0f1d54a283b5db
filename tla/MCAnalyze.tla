------------------------------ MODULE MCAnalyze ------------------------------
(***************************************************************************)
(* Analyze and Contracts for TLC.  A workspace has one generated file of two members:    *)
(* two symbols, alone or before two files that inherit from them and from  *)
(* each other in circles; or a symbol and an import, behind a file that    *)
(* declares the names it imports; or a package with REST operations, or    *)
(* with definitions that inherit attributes, behind the bundled ones.      *)
(***************************************************************************)
EXTENDS Contracts

Decl(up, kind, name, rels, keywords, annotations, refs) ==
  [what |-> "symbol", up |-> up, kind |-> kind, name |-> name, rels |-> rels, keywords |-> keywords,
   annotations |-> annotations, refs |-> refs]
Sym(up, name, rels, refs) == Decl(up, "Definition", name, rels, <<>>, <<>>, refs)
Imp(up, path, mode) == [what |-> "import", up |-> up, path |-> path, mode |-> mode]
Clause(kind, path) == [kind |-> kind, path |-> path]

Specializations == {<<>>} \cup {<<Clause("specializes", path)>> : path \in {<<"A">>, <<"B">>, <<"B", "A">>}}
Clauses == Specializations \cup {<<Clause("redefines", path)>> : path \in {<<"A">>, <<"B">>, <<"B", "A">>}}

SymbolsAt(ups, clauses) ==
  {Sym(up, name, rels, <<>>) : up \in ups, name \in {"A", "B"}, rels \in clauses}
ImportsAt(ups) ==
  {Imp(up, path, mode) : up \in ups, path \in {<<"A">>, <<"B">>}, mode \in {"single", "all", "deep"}}

Pairs == {<<first, second>> : first \in SymbolsAt({0}, Specializations), second \in SymbolsAt({0, 1}, Clauses)}
Importing == {<<first, second>> : first \in SymbolsAt({0}, Specializations), second \in ImportsAt({0, 1})}

\* B { A :> B { C } }
Nested ==
  <<Sym(0, "B", <<>>, <<>>), Sym(1, "A", <<Clause("specializes", <<"B">>)>>, <<>>),
    Sym(2, "C", <<>>, <<>>)>>
\* C :> A, D { :>> X, subsets B; perform A; loop D::B }
User ==
  <<Sym(0, "C", <<Clause("specializes", <<"A">>), Clause("specializes", <<"D">>)>>, <<>>),
    Sym(1, NoName, <<Clause("redefines", <<"X">>), Clause("subsets", <<"B">>)>>,
        <<Clause("performs", <<"A">>), Clause("loops", <<"D", "B">>)>>)>>
\* D :> C, E { }   E { X, B }
Circle ==
  <<Sym(0, "D", <<Clause("specializes", <<"C">>), Clause("specializes", <<"E">>)>>, <<>>),
    Sym(0, "E", <<>>, <<>>), Sym(2, "X", <<>>, <<>>), Sym(2, "B", <<>>, <<>>)>>

\* A tree for recursive imports: A { B { D { C } } E { C } }.
Deep ==
  <<Sym(0, "A", <<>>, <<>>), Sym(1, "B", <<>>, <<>>), Sym(2, "D", <<>>, <<>>), Sym(3, "C", <<>>, <<>>),
    Sym(1, "E", <<>>, <<>>), Sym(5, "C", <<>>, <<>>)>>
Importer == <<Sym(0, "F", <<>>, <<Clause("performs", <<"C">>)>>), Imp(1, <<"A">>, "deep")>>

NamesOnly ==
  {<<g>> : g \in Pairs} \cup {<<Nested, g>> : g \in Importing} \cup {<<g, User, Circle>> : g \in Pairs} \cup
  {<<Importer, Deep, Circle>>, <<Deep, User, Importer>>}
-----------------------------------------------------------------------------
\* The bundled packages, as far as the contracts know them.
Package(name) == Decl(0, "Package", name, <<>>, <<>>, <<>>, <<>>)
Typed(path) == <<Clause("typed", path)>>
Attribute(up, name, rels) == Decl(up, "Usage", name, rels, <<"attribute">>, <<>>, <<>>)
Library == <<Package("ScalarValues"), Decl(1, "TypeDecl", "String", <<>>, <<>>, <<>>, <<>>)>>
Profile ==
  <<Package("RESTProfile"), Sym(1, "ErrorModel", <<>>, <<>>),
    Attribute(2, "schemaRef", Typed(<<"ScalarValues", "String">>))>>

\* An operation at a position of the file, with directed parameters [keyword, name, path].
Operate(position, op) ==
  <<Decl(3, "Usage", op.name, <<>>, <<"action">>, <<[name |-> "REST", values |-> op.rest]>> \o op.error, op.performs)>> \o
  [i \in DOMAIN op.params |->
     Decl(position, "Usage", op.params[i][2], Typed(op.params[i][3]), <<op.params[i][1], "item">>, <<>>, <<>>)]
Op(name, rest, error, params, performs) ==
  [name |-> name, rest |-> rest, error |-> error, params |-> params, performs |-> performs]

Items(package) ==
  <<Package("Sales"), Sym(1, "buy", <<>>, <<>>),
    Package(package), Imp(3, <<"ScalarValues">>, "all"), Sym(3, "Order", <<>>, <<>>),
    Attribute(5, "id", Typed(<<"String">>)), Sym(3, "Receipt", <<Clause("specializes", <<"Order">>)>>, <<>>),
    Attribute(7, "of", Typed(<<"Order">>)), Sym(3, "Empty", <<Clause("specializes", <<"Order">>)>>, <<>>),
    Sym(3, "buy", <<>>, <<>>), Sym(3, "Buy", <<>>, <<>>)>>
Serve(package, first, second) ==
  LET upToFirst == Items(package) \o Operate(Len(Items(package)) + 1, first)
  IN  <<Library, Profile, upToFirst \o Operate(Len(upToFirst) + 1, second)>>
API(first, second) == Serve("API", first, second)

At(path, method) == "path" :> path @@ "method" :> method
Ordered == <<<<"in", "order", <<"Order">>>>>>
Answered == Append(Ordered, <<"out", "receipt", <<"Receipt">>>>)
Signatures ==
  {<<>>, Ordered, Answered, <<<<"in", "text", <<"String">>>>>>, <<<<"inout", "order", <<"Order">>>>>>,
   <<<<"in", "empty", <<"Empty">>>>>>, <<<<"out", "errors", <<"RESTProfile", "ErrorModel">>>>>>,
   Append(Ordered, <<"in", "text", <<"String">>>>), Append(Ordered, <<"in", "receipt", <<"Receipt">>>>)}
Mine == <<[name |-> "ErrorModel", values |-> "schemaRef" :> <<"API", "Receipt">>]>>
Unsaid == <<[name |-> "ErrorModel", values |-> "schemaRef" :> <<>>]>>
Default == <<[name |-> "ErrorModel", values |-> "schemaRef" :> ProblemDetails]>>
OwnDefault == <<Sym(0, "ProblemDetails", <<>>, <<>>), Attribute(1, "title", Typed(<<"ScalarValues", "String">>))>>
Buy == <<Clause("performs", <<"buy">>)>>
Big == <<Clause("performs", <<"Buy">>)>>
SellBuy == <<Clause("performs", <<"Sales", "buy">>)>>

MCContracts ==
  {API(Op("place", At(<<"a">>, "POST"), error, params, Buy), Op("show", [k \in {} |-> ""], <<>>, <<>>, <<>>)) :
     params \in Signatures, error \in {<<>>, Mine}} \cup
  {API(Op("place", At(<<"a">>, "GET"), <<>>, Ordered, Buy), Op(name, At(path, method), error, <<>>, <<>>)) :
     name \in {"place", "show"}, path \in {<<"a">>, <<"b">>}, method \in {"GET", "HEAD", "PUT"},
     error \in {Mine, Unsaid}} \cup
  {API(Op("place", At(<<"a">>, "POST"), <<>>, Ordered, Buy), Op("show", At(<<"a">>, "GET"), <<>>, params, performs)) :
     params \in {<<>>, Ordered, Answered}, performs \in {<<>>, Buy, SellBuy}} \cup
  {more \o API(Op("place", At(<<"a">>, "POST"), Default, Ordered, <<>>), Op("show", At(<<"b">>, "GET"), error, <<>>, <<>>)) :
     more \in {<<>>, <<OwnDefault>>}, error \in {Default, <<>>}} \cup
  {Serve(package, Op("place", At(<<"a">>, "POST"), <<>>, Ordered, Buy), Op(name, At(<<"b">>, "GET"), <<>>, <<>>, performs)) :
     package \in {"API", "api", "A_PI"}, name \in {"Place", "show_all", NoName}, performs \in {<<>>, Big}} \cup
  {Serve(package, Op(name, At(<<"a">>, "POST"), <<>>, params, Buy), Op("show", At(<<"b">>, "GET"), <<>>, Ordered, performs)) :
     package \in {"API", "api", "A_PI"}, name \in {"place", "_place"}, params \in {<<>>, Ordered}, performs \in {Buy, Big}}

\* D { m : B } :> B, C (or the other way round), B :> A { n, k : D }, A :> D if circular.
Attributes(up, types) == [i \in DOMAIN types |-> Attribute(up, "n", types[i])]
Diamond(supersOfD, supersOfA, b, c, d) ==
  LET General(path) == Clause("specializes", path)
      upToA == <<Package("API"), Sym(1, "A", [i \in DOMAIN supersOfA |-> General(supersOfA[i])], <<>>),
                 Attribute(2, "n", Typed(<<"ScalarValues", "String">>)), Attribute(2, "k", Typed(<<"D">>))>>
      upToB == upToA \o <<Sym(1, "B", <<General(<<"A">>)>>, <<>>)>> \o Attributes(5, b)
      upToC == upToB \o <<Sym(1, "C", <<>>, <<>>)>> \o Attributes(Len(upToB) + 1, c)
  IN  <<Library, upToC \o <<Sym(1, "D", [i \in DOMAIN supersOfD |-> General(supersOfD[i])], <<>>)>>
                       \o <<Attribute(Len(upToC) + 1, "m", Typed(<<"B">>))>> \o Attributes(Len(upToC) + 1, d)>>
MCDiamonds ==
  {Diamond(supersOfD, supersOfA, b, c, d) :
     supersOfD \in {<<<<"B">>, <<"C">>>>, <<<<"C">>, <<"B">>>>}, supersOfA \in {<<>>, <<<<"D">>>>},
     b \in {<<>>, <<Typed(<<"C">>)>>}, c \in {<<>>, <<<<>>>>}, d \in {<<>>, <<Typed(<<"A">>)>>}}

\* How names are spelt.
MCLetters(name) == IF name = NoName THEN <<>> ELSE [i \in 1 .. Len(name) |-> SubSeq(name, i, i)]
MCCapital(c) ==
  LET small == "abcdefghijklmnopqrstuvwxyz"
      found == {i \in 1 .. Len(small) : SubSeq(small, i, i) = c}
  IN  IF found = {} THEN c ELSE SubSeq("ABCDEFGHIJKLMNOPQRSTUVWXYZ", Min(found), Min(found))

MCWorkspaces == NamesOnly \cup MCContracts \cup MCDiamonds

(***************************************************************************)
(* The lookup of names in the same files, given in another order.          *)
(***************************************************************************)
Reordered(order) ==
  FlattenSeq([i \in DOMAIN order |-> [k \in DOMAIN units[order[i]] |-> <<order[i], k>>]])
Other(order) ==
  LET members == Reordered(order)
      parsed == [files |-> units]
      ordered == <<Root>> \o SelectSeq(members, LAMBDA m : Node(parsed, m).what = "symbol")
      In(s, what) == SelectSeq(members, LAMBDA m : Node(parsed, m).what = what /\ ParentOf(parsed, m) = s)
  IN  [files |-> units, scopes |-> ordered,
       children |-> [s \in ToSet(ordered) |-> In(s, "symbol")],
       imports |-> [s \in ToSet(ordered) |-> In(s, "import")]]

TopLevel(i, what) == {k \in DOMAIN units[i] : units[i][k].what = what /\ units[i][k].up = 0}
TopNames(i) == {units[i][k].name : k \in TopLevel(i, "symbol")} \ {NoName}
Unambiguous ==
  \A i, j \in DOMAIN units : i # j =>
    TopNames(i) \cap TopNames(j) = {} /\ {} \in {TopLevel(i, "import"), TopLevel(j, "import")}

(***************************************************************************)
(* "The combined model is deterministic": unless two files declare the     *)
(* same top-level name or both have top-level imports, what a reference    *)
(* means does not depend on the order of the files, nor on whether it      *)
(* comes before or after what it names.                                    *)
(***************************************************************************)
FileOrderDoesNotMatter ==
  pass = "done" /\ Unambiguous =>
    \A order \in Permutations(DOMAIN units), r \in DOMAIN targets :
      LET node == Node(Tree, r[1])
          target == CASE r[2] = "import" -> Absolute(Other(order), node.path)
                      [] r[2] = "rel" -> Resolve(Other(order), ParentOf(Tree, r[1]), node.rels[r[3]].path)
                      [] r[2] = "ref" -> Resolve(Other(order), r[1], node.refs[r[3]].path)
      IN  IF target = None /\ r[2] = "rel" /\ MayInherit(node.rels[r[3]])
            THEN RelationOK(Tree, supers, r[1], node.rels[r[3]], targets[r])
            ELSE targets[r] = target
=============================================================================
