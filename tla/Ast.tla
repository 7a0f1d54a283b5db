--------------------------------- MODULE Ast ---------------------------------
(***************************************************************************)
(* The typed views of engine/ast over the nodes of a tree (Green's Red).   *)
(* What Go returns with an `ok' is a sequence here, empty or of one        *)
(* element; a path is the sequence of the texts of a name's segments, and  *)
(* the text of anything is a sequence of characters.                       *)
(***************************************************************************)
EXTENDS Lexer

ChildNodes(n) == SelectSeq(n.children, LAMBDA c : ~c.leaf)
OfKind(n, kind) == SelectSeq(ChildNodes(n), LAMBDA c : c.kind = kind)
FirstOfKind(n, kind) == SubSeq(OfKind(n, kind), 1, Min({1, Len(OfKind(n, kind))}))
Tokens(n) == SelectSeq(n.children, LAMBDA c : c.leaf /\ ~IsTrivia(c))
FirstToken(n) == IF Tokens(n) = <<>> THEN <<>> ELSE Head(Tokens(n)).text

\* f for each of some views (TLC evaluates what is concatenated only once),
\* and its value for one that may be missing.
Each(views, f(_)) == <<>> \o [i \in DOMAIN views |-> f(views[i])]
Default(views, f(_), otherwise) == IF views = <<>> THEN otherwise ELSE f(Head(views))

\* strings.TrimSpace: comments stay.
Trim(s) ==
  LET kept == {i \in DOMAIN s : s[i] \notin Blanks \cup Breaks}
  IN  IF kept = {} THEN <<>> ELSE SubSeq(s, Min(kept), Max(kept))
TrimmedText(n) == Trim(n.text)

Path(qn) == Each(OfKind(qn, "Name"), FirstToken)
\* QualifiedName.String.
String(qn) ==
  FoldLeft(LAMBDA s, segment : IF s = <<>> THEN segment ELSE s \o Spelling["::"] \o segment, <<>>, Path(qn))
Names(n) == OfKind(n, "QualifiedName")
Expr(n) == FirstOfKind(n, "Expr")

(***************************************************************************)
(* Members: packages, imports and declarations; statements are none.       *)
(***************************************************************************)
MemberKinds == {"Package", "Import", "Def", "Usage", "TypeDecl"}
MembersOf(n) == SelectSeq(ChildNodes(n), LAMBDA c : c.kind \in MemberKinds)
Body(n) == FirstOfKind(n, "Body")
Members(n) == Default(Body(n), MembersOf, <<>>)

Name(n) == FirstOfKind(n, "QualifiedName")
Visibility(n) == Default(FirstOfKind(n, "Visibility"), FirstToken, <<>>)

ImportName(i) == FirstOfKind(i, "ImportName")
Segments(in) == Each(OfKind(in, "Name"), FirstToken)
Stars(in) == Len(SelectSeq(in.children, LAMBDA c : c.leaf /\ c.kind = "*"))
IsWildcard(in) == Stars(in) > 0
IsRecursive(in) == Stars(in) >= 2

Relationships(d) == OfKind(d, "Relationship")
Operator(r) == FirstToken(r)
Targets(r) == OfKind(r, "QualifiedName")
Multiplicity(d) == Default(FirstOfKind(d, "Multiplicity"), TrimmedText, <<>>)
FeatureValue(d) == FirstOfKind(d, "FeatureValue")
IsDefault(v) == \E j \in DOMAIN v.children : v.children[j].leaf /\ v.children[j].kind = ":="
ValueText(v) == Default(Expr(v), TrimmedText, <<>>)

\* The identifiers in front of the name, or of whatever else comes first.
Keywords(d) ==
  LET parts == SelectSeq(d.children, LAMBDA c :
                           ~(c.leaf /\ IsTrivia(c)) /\ c.kind \notin {"Visibility", "Annotation"})
      end == Min({i \in DOMAIN parts : parts[i].kind # "Ident"} \cup {Len(parts) + 1})
  IN  Each(SubSeq(parts, 1, end - 1), LAMBDA t : t.text)

Annotations(d) == OfKind(d, "Annotation")
AnnotationName(a) == Default(Name(a), String, <<>>)
\* Declarations with a name, and their values.
Assignments(a) ==
  LET named == SelectSeq(Members(a), LAMBDA m : m.kind \in {"Def", "Usage", "TypeDecl"} /\ Name(m) # <<>>)
  IN  Each(named, LAMBDA m : [name |-> String(Head(Name(m))),
                              value |-> Default(FeatureValue(m), ValueText, <<>>)])

(***************************************************************************)
(* The statements of an action or state body.                              *)
(***************************************************************************)
StatementsOf(d, kind) == Default(Body(d), LAMBDA body : OfKind(body, kind), <<>>)
Performs(d) == StatementsOf(d, "Perform")
Successions(d) == StatementsOf(d, "Succession")
ControlNodes(d) == StatementsOf(d, "ControlNode")
Accepts(d) == StatementsOf(d, "Accept")
Transitions(d) == StatementsOf(d, "Transition")
Loops(d) == StatementsOf(d, "Loop")

\* `perform x : Target' or `perform Target'.
PerformTarget(p) ==
  LET typing == Default(FirstOfKind(p, "Relationship"), Name, <<>>)
  IN  IF typing # <<>> THEN typing ELSE Name(p)
PerformName(p) == IF FirstOfKind(p, "Relationship") = <<>> THEN <<>> ELSE Default(Name(p), String, <<>>)

HasFirst(s) == \E j \in DOMAIN Tokens(s) : Tokens(s)[j].kind = "Ident" /\ Tokens(s)[j].text = <<"first">>
SuccessionSource(s) == IF HasFirst(s) /\ Len(Names(s)) >= 2 THEN <<Head(Names(s))>> ELSE <<>>
SuccessionTarget(s) == IF Names(s) = <<>> THEN <<>> ELSE <<Last(Names(s))>>
SuccessionGuard(s) == Default(Expr(s), TrimmedText, <<>>)

ControlKind(c) == FirstToken(c)
ControlName(c) == Default(Name(c), String, <<>>)

AcceptMode(a) ==
  LET after == SelectSeq(Tokens(a), LAMBDA t : ~(t.kind = "Ident" /\ t.text = <<"accept">>))
  IN  IF after # <<>> /\ Head(after).kind = "Ident" /\ Head(after).text \in {<<"after">>, <<"at">>}
        THEN Head(after).text ELSE <<"signal">>
AcceptTarget(a) == Name(a)
AcceptRef(a) == IF Name(a) # <<>> THEN String(Head(Name(a))) ELSE Default(Expr(a), TrimmedText, <<>>)

\* A count and an activity; a sole name is the activity.
LoopCount(l) ==
  IF Expr(l) # <<>> THEN TrimmedText(Head(Expr(l)))
  ELSE IF Len(Names(l)) >= 2 THEN String(Head(Names(l))) ELSE <<>>
LoopTarget(l) == IF Names(l) = <<>> THEN <<>> ELSE <<Last(Names(l))>>

(***************************************************************************)
(* Transition.parts: the last keyword in front of a name or an expression  *)
(* says what that is; of two for one part the last one is taken.           *)
(***************************************************************************)
Clauses == {"first", "accept", "if", "do", "then"}
\* Seeded fault: the first keyword is not superseded.
ClauseFirst(t, j) ==
  LET keywords == {i \in 1 .. j : /\ t.children[i].leaf /\ t.children[i].kind = "Ident"
                                  /\ Len(t.children[i].text) = 1 /\ t.children[i].text[1] \in Clauses}
  IN  IF keywords = {} THEN "name" ELSE t.children[Min(keywords)].text[1]

Clause(t, j) ==
  LET keywords == {i \in 1 .. j : /\ t.children[i].leaf /\ t.children[i].kind = "Ident"
                                  /\ Len(t.children[i].text) = 1 /\ t.children[i].text[1] \in Clauses}
  IN  IF keywords = {} THEN "name" ELSE t.children[Max(keywords)].text[1]

Part(t, kind, clause) ==
  LET found == {j \in DOMAIN t.children :
                  ~t.children[j].leaf /\ t.children[j].kind = kind /\ Clause(t, j) = clause}
  IN  IF found = {} THEN <<>> ELSE <<t.children[Max(found)]>>

TransitionName(t) == Part(t, "QualifiedName", "name")
TransitionSource(t) == Part(t, "QualifiedName", "first")
TransitionTarget(t) == Part(t, "QualifiedName", "then")
TransitionTrigger(t) == Part(t, "QualifiedName", "accept")
TriggerText(t) ==
  IF TransitionTrigger(t) # <<>> THEN String(Head(TransitionTrigger(t)))
                                 ELSE Default(Part(t, "Expr", "accept"), TrimmedText, <<>>)
TransitionEffect(t) == Part(t, "QualifiedName", "do")
TransitionGuard(t) == Default(Part(t, "Expr", "if"), TrimmedText, <<>>)
=============================================================================
