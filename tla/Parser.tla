-------------------------------- MODULE Parser --------------------------------
(***************************************************************************)
(* Parse of engine/parser (parser.go): the lexer makes tokens of the       *)
(* source, then the recursive-descent parser builds a green tree of them.  *)
(* Keywords are identifiers that are recognized by their text.             *)
(*                                                                         *)
(* The functions of the parser are sequences of instructions; `todo' is    *)
(* what the functions on Go's stack have still to do.  Each step does its  *)
(* first instruction, which looks at significant tokens only.              *)
(***************************************************************************)
EXTENDS Green, Lexer, FiniteSets, Lists

CONSTANT Sources   \* the texts that may be parsed

\* They are sequences of characters; "" and "EOF" stand for there being none.
ASSUME SourcesAssumption == \A s \in Sources : IsSequence(s) /\ {"", "EOF"} \cap ToSet(s) = {}

VARIABLES source,       \* the text
          tokens, pos,  \* what has been lexed, and the next token of the parser
          todo,         \* instructions
          marks,        \* checkpoints of declarations, and the kinds they get
          b             \* the builder

vars == <<source, tokens, pos, todo, marks, b>>

Literals == {"Int", "Real", "String"}
Visibilities == {"public", "private", "protected"}
TypeKeywords ==
  {"namespace", "type", "classifier", "class", "struct", "datatype", "feature", "behavior", "function"}
SysmlKinds ==
  {"part", "attribute", "item", "action", "port", "connection", "interface", "metadata", "enum",
   "constraint", "requirement", "state", "calc", "occurrence", "view", "viewpoint", "flow",
   "allocation", "binding", "succession", "rendering", "concern"}
Modifiers ==
  {"abstract", "ref", "in", "out", "inout", "readonly", "derived", "end", "composite", "portion",
   "variation", "individual", "snapshot", "timeslice"}
ControlNodes == {"fork", "join", "merge", "decide"}
Statements ==
  {"import", "package", "perform", "first", "then", "succession", "accept", "transition", "loop"}
RelationshipWords == {"specializes", "subsets", "redefines", "conjugates"}
DeclKeywords == TypeKeywords \cup SysmlKinds \cup Modifiers
NameKinds == {"Ident", "QuotedIdent"}

MemberStarts == {"@", "#"} \cup Visibilities \cup Statements \cup ControlNodes \cup DeclKeywords

EOF == [kind |-> "EOF", text |-> <<>>]
Keyword(t) == IF t.kind = "Ident" /\ Len(t.text) = 1 THEN t.text[1] ELSE ""

\* What the parser tests tokens for: sets of kinds and keywords.  A single
\* one stands for itself.
Class ==
  [NAME |-> NameKinds, ANNOTATION |-> {"@", "#"}, VISIBILITY |-> Visibilities, MODIFIER |-> Modifiers,
   TYPE |-> TypeKeywords, SYSML |-> SysmlKinds, LITERAL |-> Literals, VALUE |-> {"=", ":="},
   RELATIONSHIP |-> {":>", ":>>", ":", "~"} \cup RelationshipWords,
   WHEN |-> {"after", "at"},
   GUARDEND |-> {"}", ";", "then"}, TRIGGEREND |-> {"}", ";", "do", "then"},
   MEMBEREND |-> MemberStarts \cup {"}", ";"}]
ClassOf(c) == IF c \in DOMAIN Class THEN Class[c] ELSE {c}
Is(t, c) == {t.kind, Keyword(t)} \cap ClassOf(c) # {}
-----------------------------------------------------------------------------
(***************************************************************************)
(* The instructions.                                                       *)
(***************************************************************************)
Lex == [op |-> "lex"]
Bump == [op |-> "bump"]
EmitTrivia == [op |-> "trivia"]
Open(kind) == [op |-> "open", kind |-> kind]
Close == [op |-> "close"]
If(c, yes, no) == [op |-> "if", class |-> c, yes |-> yes, no |-> no]
Opt(c, yes) == If(c, yes, <<>>)
\* Loops end at EOF at the latest; `last' is where the last round began.
While(c, body) == [op |-> "while", class |-> c, body |-> body, last |-> 0]
Until(c, body) == [op |-> "until", class |-> c, body |-> body, last |-> 0]
Member == [op |-> "member"]
\* Finish the node of the function, and return from it.
Return == [op |-> "return"]
\* A checkpoint, the kind its node will have, and the node.
Mark == [op |-> "mark"]
Label(kind) == [op |-> "label", kind |-> kind]
Wrap == [op |-> "wrap"]

Node(kind, body) == <<Open(kind)>> \o body \o <<Close>>

(***************************************************************************)
(* The functions of the parser.                                            *)
(***************************************************************************)
NameSegment ==
  <<If("NAME", Node("Name", <<Bump>>), Node("ErrorNode", <<If("EOF", <<>>, <<Bump>>)>>))>>
QualifiedName == Node("QualifiedName", NameSegment \o <<While("::", <<Bump>> \o NameSegment)>>)
NameOpt == <<Opt("NAME", QualifiedName)>>
SemiOpt == <<Opt(";", <<Bump>>)>>

Relationships ==
  <<While("RELATIONSHIP",
          Node("Relationship", <<Bump>> \o QualifiedName \o <<While(",", <<Bump>> \o QualifiedName)>>))>>
MultiplicityOpt ==
  <<Opt("[", Node("Multiplicity", <<Bump, Until("]", <<Bump>>), Opt("]", <<Bump>>)>>))>>
Literal == <<Opt("LITERAL", <<Bump>>)>>
FeatureValueOpt ==
  <<Opt("VALUE", Node("FeatureValue",
          <<Bump>> \o Node("Expr", <<If("NAME", QualifiedName, Literal)>>)))>>

\* Seeded fault: the stray token is left for the next member.
ErrorMemberLazy == Node("ErrorNode", <<Until("MEMBEREND", <<Bump>>)>> \o SemiOpt)

ErrorMember == Node("ErrorNode", <<Bump, Until("MEMBEREND", <<Bump>>)>> \o SemiOpt)

Assignment ==
  <<Mark, Label("Usage")>> \o QualifiedName \o Relationships \o FeatureValueOpt \o SemiOpt \o <<Wrap>>
AnnotationBody ==
  Node("Body", <<Bump, Until("}", <<If("NAME", Assignment, ErrorMember)>>), Opt("}", <<Bump>>)>>)
Prefix ==
  <<While("ANNOTATION", Node("Annotation", <<Bump>> \o NameOpt \o <<Opt("{", AnnotationBody)>>)),
    Opt("VISIBILITY", Node("Visibility", <<Bump>>))>>

\* Seeded fault: a body that is not closed is not finished.
BodyUnfinished == <<Open("Body"), Bump, Until("}", <<Member>>), Opt("}", <<Bump, Close>>)>>

Body == Node("Body", <<Bump, Until("}", <<Member>>), Opt("}", <<Bump>>)>>)
BodyOrSemi == <<If("{", Body, SemiOpt)>>

Package == Node("Package", Prefix \o <<Bump>> \o NameOpt \o BodyOrSemi)

Star == <<Bump, Opt("*", <<Bump>>)>>
ImportName ==
  Node("ImportName",
       <<If("NAME",
            NameSegment \o
            <<While("::", <<Bump, If("NAME", NameSegment, <<Opt("*", Star), Return>>)>>)>>,
            <<Opt("*", Star)>>)>>)
Import == Node("Import", Prefix \o <<Bump>> \o ImportName \o SemiOpt)

KindKeyword == <<Bump, Opt("def", <<Bump, Label("Def")>>)>>
Declaration ==
  <<Mark, Label("Usage")>> \o Prefix \o
  <<While("MODIFIER", <<Bump>>),
    If("TYPE", <<Label("TypeDecl")>> \o KindKeyword, <<Opt("SYSML", KindKeyword)>>)>> \o
  NameOpt \o Relationships \o MultiplicityOpt \o FeatureValueOpt \o BodyOrSemi \o <<Wrap>>

Guard(end) == Node("Expr", <<Until(end, <<Bump>>)>>)
Reference == <<If("NAME", QualifiedName, <<Opt("LITERAL", Node("Expr", <<Bump>>))>>)>>
Event == <<Bump, Opt("WHEN", <<Bump>>)>> \o Reference \o Relationships

Perform == Node("Perform", <<Bump, Opt("action", <<Bump>>)>> \o NameOpt \o Relationships \o SemiOpt)
Accept == Node("Accept", Event \o SemiOpt)
ControlNode == Node("ControlNode", <<Bump>> \o NameOpt \o SemiOpt)
Loop ==
  Node("Loop", <<Bump, If("Int", Node("Expr", <<Bump>>), NameOpt), Opt("times", <<Bump>>)>> \o
               NameOpt \o SemiOpt)
Succession ==
  Node("Succession",
       <<Opt("succession", <<Bump>>), Opt("first", <<Bump>> \o NameOpt),
         Opt("if", <<Bump>> \o Guard("GUARDEND")), Opt("then", <<Bump>> \o NameOpt)>> \o SemiOpt)
Transition ==
  Node("Transition",
       <<Bump, If("first", <<>>, NameOpt), Opt("first", <<Bump>> \o NameOpt), Opt("accept", Event),
         Opt("if", <<Bump>> \o Guard("TRIGGEREND")), Opt("do", <<Bump>> \o NameOpt),
         Opt("then", <<Bump>> \o NameOpt)>> \o SemiOpt)

MemberOf(keyword) ==
  CASE keyword = "import" -> Import
    [] keyword = "package" -> Package
    [] keyword = "perform" -> Perform
    [] keyword \in {"first", "then", "succession"} -> Succession
    [] keyword \in ControlNodes -> ControlNode
    [] keyword = "accept" -> Accept
    [] keyword = "transition" -> Transition
    [] keyword = "loop" -> Loop
    [] keyword \in DeclKeywords \ {"succession"} -> Declaration
    [] OTHER -> ErrorMember

SourceFile == Node("SourceFile", <<Until("EOF", <<Member>>), EmitTrivia>>)
-----------------------------------------------------------------------------
(***************************************************************************)
(* Looking ahead.                                                          *)
(***************************************************************************)
BeforeSignificant ==
  Min({n \in pos .. Len(tokens) : ~IsTrivia(tokens[n])} \cup {Len(tokens) + 1}) - 1
At(s, i) == IF i \in DOMAIN s THEN s[i] ELSE EOF
Current == At(tokens, BeforeSignificant + 1)
Significant == SelectSeq(SubSeq(tokens, pos, Len(tokens)), LAMBDA t : ~IsTrivia(t))

\* Past the group of balanced braces that starts at i, or at EOF.
PastBraces(s, i) ==
  LET occurrences(kind, j) == Cardinality({k \in i .. j : s[k].kind = kind})
      closed == {j \in i .. Len(s) : occurrences("{", j) = occurrences("}", j)}
  IN  IF closed = {} THEN Len(s) + 1 ELSE Min(closed) + 1

\* Past the segments of a name of which i is the first after a segment.
PastSegments(s, i) ==
  LET past[j \in 1 .. Len(s) + 1] ==
        IF At(s, j).kind # "::" THEN j ELSE past[IF Is(At(s, j + 1), "NAME") THEN j + 2 ELSE j + 1]
  IN  past[i]

PastAnnotations(s) ==
  LET name(i) == IF Is(At(s, i), "NAME") THEN PastSegments(s, i + 1) ELSE i
      body(i) == IF At(s, i).kind = "{" THEN PastBraces(s, i) ELSE i
      past[i \in 1 .. Len(s) + 1] ==
        IF Is(At(s, i), "ANNOTATION") THEN past[body(name(i + 1))] ELSE i
  IN  past[1]

LookaheadMemberKeyword ==
  LET i == PastAnnotations(Significant)
  IN  Keyword(At(Significant, IF Is(At(Significant, i), "VISIBILITY") THEN i + 1 ELSE i))
-----------------------------------------------------------------------------
Init ==
  /\ source \in Sources
  /\ tokens = <<>> /\ pos = 1
  /\ todo = <<Lex>> \o SourceFile
  /\ marks = <<>>
  /\ b = NewBuilder

Doing(op) == todo # <<>> /\ Head(todo).op = op
Proceed(instructions) == todo' = instructions \o Tail(todo)
StandStill == UNCHANGED <<source, tokens, pos>>

TextOf(ts) == FlattenSeq([i \in DOMAIN ts |-> ts[i].text])
Unlexed == SubSeq(source, Len(TextOf(tokens)) + 1, Len(source))

LexToken ==
  /\ Doing("lex") /\ Unlexed # <<>>
  /\ tokens' = Append(tokens, NextToken(Unlexed))
  /\ UNCHANGED <<source, pos, todo, marks, b>>

LexEOF ==
  /\ Doing("lex") /\ Unlexed = <<>>
  /\ Proceed(<<>>)
  /\ StandStill /\ UNCHANGED <<marks, b>>

\* Emit the tokens up to the n-th.
Emit(n) ==
  /\ b' = FoldLeft(Token, b, SubSeq(tokens, pos, n))
  /\ pos' = n + 1
  /\ UNCHANGED <<source, tokens, marks>>

\* Seeded fault: leading trivia are skipped.
BumpSignificant ==
  /\ Doing("bump")
  /\ Proceed(<<>>)
  /\ LET n == Min({BeforeSignificant + 1, Len(tokens)})
     IN  /\ b' = IF pos <= n THEN Token(b, tokens[n]) ELSE b
         /\ pos' = n + 1
  /\ UNCHANGED <<source, tokens, marks>>

\* EOF is never emitted.
DoBump == Doing("bump") /\ Proceed(<<>>) /\ Emit(Min({BeforeSignificant + 1, Len(tokens)}))

DoEmitTrivia == Doing("trivia") /\ Proceed(<<>>) /\ Emit(BeforeSignificant)

DoStartNode ==
  /\ Doing("open")
  /\ b' = StartNode(b, Head(todo).kind)
  /\ Proceed(<<>>)
  /\ StandStill /\ UNCHANGED marks

DoFinishNode ==
  /\ Doing("close")
  /\ b' = FinishNode(b)
  /\ Proceed(<<>>)
  /\ StandStill /\ UNCHANGED marks

Choose ==
  /\ Doing("if")
  /\ Proceed(IF Is(Current, Head(todo).class) THEN Head(todo).yes ELSE Head(todo).no)
  /\ StandStill /\ UNCHANGED <<marks, b>>

AtLoop == Doing("while") \/ Doing("until")
GoesOn(loop) ==
  /\ Current # EOF
  /\ Is(Current, loop.class) = (loop.op = "while")

Iterate ==
  /\ AtLoop
  /\ Proceed(IF GoesOn(Head(todo)) THEN Append(Head(todo).body, [Head(todo) EXCEPT !.last = pos])
                                   ELSE <<>>)
  /\ StandStill /\ UNCHANGED <<marks, b>>

ReturnEarly ==
  /\ Doing("return")
  /\ LET end == Min({i \in DOMAIN todo : todo[i].op = "close"})
     IN  todo' = SubSeq(todo, end, Len(todo))
  /\ StandStill /\ UNCHANGED <<marks, b>>

ParseMember ==
  /\ Doing("member")
  /\ Proceed(MemberOf(LookaheadMemberKeyword))
  /\ StandStill /\ UNCHANGED <<marks, b>>

TakeCheckpoint ==
  /\ Doing("mark")
  /\ marks' = Append(marks, [cp |-> Checkpoint(b), kind |-> "Usage"])
  /\ Proceed(<<>>)
  /\ StandStill /\ UNCHANGED b

ChooseKind ==
  /\ Doing("label")
  /\ marks' = [marks EXCEPT ![Len(marks)].kind = Head(todo).kind]
  /\ Proceed(<<>>)
  /\ StandStill /\ UNCHANGED b

\* StartNodeAt and FinishNode.
WrapMarked ==
  /\ Doing("wrap")
  /\ b' = FinishNode(StartNodeAt(b, Last(marks).cp, Last(marks).kind))
  /\ marks' = Front(marks)
  /\ Proceed(<<>>)
  /\ StandStill

Next ==
  \/ LexToken \/ LexEOF
  \/ DoBump \/ DoEmitTrivia \/ DoStartNode \/ DoFinishNode
  \/ Choose \/ Iterate \/ ReturnEarly \/ ParseMember
  \/ TakeCheckpoint \/ ChooseKind \/ WrapMarked

Spec == Init /\ [][Next]_vars
-----------------------------------------------------------------------------
Parsed == todo = <<>>
Root == Top(b).children[1].at

\* Parse never panics: the builder is asked to finish only a node that was
\* started, to wrap only children of the open node, and in the end has
\* exactly one tree (builder.go FinishNode, StartNodeAt, Finish).
NeverPanics ==
  /\ Doing("close") => MayFinishNode(b)
  /\ Doing("wrap") => MayStartNodeAt(b, Last(marks).cp)
  /\ Parsed => MayFinish(b)

\* Whatever the input, the text of the nodes built so far is the source up
\* to where the parser stands, trivia included, and in the end the tree is
\* printed as the source (the contract of Parse, and of ast.Format).
Lossless ==
  /\ FlattenSeq([i \in DOMAIN b.stack |-> ChildrenText(b, b.stack[i].children)])
       = TextOf(SubSeq(tokens, 1, pos - 1))
  /\ TextOf(tokens) \o Unlexed = source
  /\ Parsed => Texts(b)[Root] = source

\* A cursor's range in the source (red.go Range) is where its text stands.
CursorsSlice ==
  Parsed =>
    \A c \in Cursors(b, Root, 0) :
      Texts(b)[c.node] = SubSeq(source, c.offset + 1, c.offset + b.nodes[c.node].width)

\* No loop of the parser starts a round where the one before it started: so
\* every member, statement and stray token is consumed by whoever is
\* dispatched on it (parseErrorMember: "at least one token, so progress is
\* guaranteed").
LoopsProgress == AtLoop /\ GoesOn(Head(todo)) => Head(todo).last < pos
=============================================================================
