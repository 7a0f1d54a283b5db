------------------------------ MODULE MCParser ------------------------------
(***************************************************************************)
(* Parser for TLC, with what the symbol builder makes of its trees.  The   *)
(* sources are short strings of characters and of tokens over small        *)
(* alphabets, and the text of members written from what they mean.         *)
(***************************************************************************)
EXTENDS Parser

Syntax == INSTANCE Symbols

Strings(alphabet, n) == UNION {[1 .. k -> alphabet] : k \in 0 .. n}

(***************************************************************************)
(* Writing tokens: as tight as they may stand, or each behind a comment.   *)
(***************************************************************************)
Characters(t) ==
  CASE t \in DOMAIN Spelling -> Spelling[t]
    [] t = "string" -> <<"\"", "s", "\"">>
    [] OTHER -> <<t>>
Solid == {"{", "}", "[", "]", ";", ",", "@", "#", "*", "::"}
Tight == <<>>
Commented == <<"/", "*", "x", "*", "/">>
Layouts == {Tight, Commented}

Write(ts, layout) ==
  LET gap(i) == CASE layout # Tight -> layout
                  [] i > 1 /\ {ts[i - 1], ts[i]} \cap Solid = {} -> <<" ">>
                  [] OTHER -> <<>>
  IN  FlattenSeq([i \in DOMAIN ts |-> gap(i) \o Characters(ts[i])])
\* The text of an expression is what is written, without the blanks around it.
Written(ts) == Syntax!Trim(Write(ts, Tight))

\* A text is to be without the trivia around it (nodes.go), comments are trivia
\* (kind.go), and the code keeps them: parts with a text come without comments.
Textual(layout, parts) == IF layout = Tight THEN parts ELSE {}

-----------------------------------------------------------------------------
(***************************************************************************)
(* Well-formed text with its meaning: the parts of members.                *)
(***************************************************************************)
Part(text, means) == [text |-> text, means |-> means]
Nothing == Part(<<>>, <<>>)
Name(n) == Part(<<n>>, <<<<n>>>>)
QName(m, n) == Part(<<m, "::", n>>, <<<<m>>, <<n>>>>)
Cat(parts) == FlattenSeq([i \in DOMAIN parts |-> parts[i].text])
Meanings(parts) == [i \in DOMAIN parts |-> parts[i].means]

Rel(op, kind, name) == Part(<<op>> \o name.text, [kind |-> kind, path |-> name.means])
Value(op, ts) == Part(<<op>> \o ts, Written(ts))

Note == Part(<<"@", "A">>, [name |-> <<"A">>, keys |-> <<>>, values |-> <<>>])
NoteWithBody ==
  Part(<<"#", "A", "::", "B", "{", "x", "=", "1", ";", "B", "=", "A", ";", "x", ":=", "string", ";", "}">>,
       [name |-> <<"A", ":", ":", "B">>, keys |-> <<<<"x">>, <<"B">>>>,
        values |-> (<<"x">> :> Written(<<"string">>)) @@ (<<"B">> :> Written(<<"A">>))])
Notes(l) == {<<>>, <<Note>>} \cup Textual(l, {<<NoteWithBody>>, <<NoteWithBody, Note>>})
Shown == {Nothing, Part(<<"private">>, <<"private">>)}

\* A symbol that stands in the first member.
Inside(kind, name) == Syntax!NewSymbol(kind, name, 1)
Guards(l) == {Nothing} \cup Textual(l, {Part(<<"if", "x", ">", "1">>, Written(<<"x", ">", "1">>))})

(***************************************************************************)
(* Statements, with the clauses they should be.                            *)
(***************************************************************************)
Performing ==
  {Part(<<"perform", "action", "x", ":", "A", ";">>, [name |-> <<"x">>, path |-> <<<<"A">>>>]),
   Part(<<"perform", "A", "::", "B", ";">>, [name |-> <<>>, path |-> <<<<"A">>, <<"B">>>>])}
Succeeding(l) ==
  {Part(s \o f.text \o g.text \o <<"then", "B", ";">>,
        [source |-> f.means, path |-> <<<<"B">>>>, guard |-> g.means]) :
     s \in {<<"succession">>}, f \in {Nothing, Part(<<"first", "A">>, <<<<"A">>>>)}, g \in Guards(l)} \cup
  {Part(<<"first", "A">> \o g.text \o <<"then", "B", ";">>,
        [source |-> <<<<"A">>>>, path |-> <<<<"B">>>>, guard |-> g.means]) : g \in Guards(l)} \cup
  {Part(<<"then", "B", ";">>, [source |-> <<>>, path |-> <<<<"B">>>>, guard |-> <<>>])}
Accepting(l) ==
  {Part(<<"accept", "A", ";">>, [mode |-> <<"signal">>, ref |-> <<"A">>, path |-> <<<<"A">>>>]),
   Part(<<"accept", "at", "x", ";">>, [mode |-> <<"at">>, ref |-> <<"x">>, path |-> <<<<"x">>>>])} \cup
  Textual(l, {Part(<<"accept", "after", "1", ";">>, [mode |-> <<"after">>, ref |-> Written(<<"1">>), path |-> <<>>])})
Triggers(l) ==
  {Part(<<>>, [path |-> <<>>, ref |-> <<>>]), Part(<<"accept", "A">>, [path |-> <<<<"A">>>>, ref |-> <<"A">>])} \cup
  Textual(l, {Part(<<"accept", "after", "1">>, [path |-> <<>>, ref |-> Written(<<"1">>)])})
Moving(l) ==
  {Part(<<"transition">> \o n.text \o <<"first", "A">> \o a.text \o g.text \o d.text \o <<"then", "B", ";">>,
        [name |-> n.means, source |-> <<<<"A">>>>, path |-> <<<<"B">>>>, trigger |-> a.means.path,
         ref |-> a.means.ref, effect |-> d.means, guard |-> g.means]) :
     n \in {Nothing, Part(<<"x">>, <<"x">>)}, a \in Triggers(l), g \in Guards(l),
     d \in {Nothing, Part(<<"do", "x">>, <<<<"x">>>>)}}
Looping(l) ==
  {Part(<<"loop", "x", "times", "A", ";">>, [count |-> <<"x">>, path |-> <<<<"A">>>>])} \cup
  Textual(l, {Part(<<"loop", "1", "times", "A", ";">>, [count |-> Written(<<"1">>), path |-> <<<<"A">>>>])})
Controlling ==
  {Part(<<c, "x", ";">>, [Inside("Usage", <<"x">>) EXCEPT !.control = <<c>>]) : c \in {"fork", "merge"}}
Nesting == {Part(<<"in", "item", "x", ";">>, [Inside("Usage", <<"x">>) EXCEPT !.keywords = <<<<"in">>, <<"item">>>>])}

Tagged(kind, parts) == {[kind |-> kind, part |-> p] : p \in parts}
Sentences(l) ==
  Tagged("performs", Performing) \cup Tagged("successions", Succeeding(l)) \cup
  Tagged("accepts", Accepting(l)) \cup Tagged("transitions", Moving(l)) \cup Tagged("loops", Looping(l)) \cup
  Tagged("control", Controlling) \cup Tagged("member", Nesting)

\* What the statements of a body say, by their kind.
Said(body, kind) ==
  LET own == SelectSeq(body, LAMBDA s : s.kind = kind)
  IN  [i \in DOMAIN own |-> own[i].part.means]
Block(body) == <<"{">> \o FlattenSeq([i \in DOMAIN body |-> body[i].part.text]) \o <<"}">>

ActionDef(l, body) ==
  [text |-> <<"action", "def", "A">> \o Block(body), layout |-> l,
   file |-> <<[Syntax!NewSymbol("Definition", <<"A">>, 0) EXCEPT
                 !.keywords = <<<<"action">>, <<"def">>>>,
                 !.performs = Said(body, "performs"), !.successions = Said(body, "successions"),
                 !.accepts = Said(body, "accepts"), !.transitions = Said(body, "transitions"),
                 !.loops = Said(body, "loops")]>> \o Said(body, "member") \o Said(body, "control"),
   visibility |-> <<>>, multiplicity |-> <<>>, value |-> <<>>, default |-> FALSE]

Few == {s \in Sentences(Tight) : Len(s.part.text) <= 5}
Actions ==
  UNION {{ActionDef(l, <<s>>) : s \in Sentences(l)} : l \in Layouts} \cup
  {ActionDef(Tight, <<s, t>>) : s, t \in Few}

(***************************************************************************)
(* Declarations, packages and imports.                                     *)
(***************************************************************************)
Ends == {Part(<<";">>, <<>>), Part(<<"{", "}">>, <<>>),
         Part(<<"{", "package", "B", ";", "}">>, <<Inside("Package", <<"B">>)>>)}

Declared(l, symbol, notes, shown, words, rels, bounds, value, end) ==
  [text |-> Cat(notes) \o shown.text \o words \o <<"A">> \o Cat(rels) \o bounds.text \o value.text \o end.text,
   layout |-> l,
   file |-> <<[Syntax!NewSymbol(symbol, <<"A">>, 0) EXCEPT
                 !.annotations = Meanings(notes), !.rels = Meanings(rels),
                 !.keywords = [i \in DOMAIN words |-> <<words[i]>>]]>> \o end.means,
   visibility |-> shown.means, multiplicity |-> bounds.means, value |-> value.means,
   default |-> value # Nothing /\ value.text[1] = ":="]

Bounds(l) == {Nothing} \cup Textual(l, {Part(<<"[", "1", "]">>, Written(<<"[", "1", "]">>))})
Values(l) == {Nothing} \cup Textual(l, {Value("=", <<"1">>), Value(":=", <<"x">>)})
Rels(l) ==
  {<<>>, <<Rel(":>", "specializes", QName("A", "B"))>>,
   <<Rel(":", "typed", Name("B")), Rel("subsets", "subsets", Name("x"))>>}

Declarations(l) ==
  {Declared(l, "Definition", a, v, <<"part", "def">>, r, Nothing, Nothing, e) :
     a \in Notes(l), v \in Shown, r \in Rels(l), e \in Ends} \cup
  {Declared(l, "Usage", a, v, <<"in", "item">>, r, m, w, e) :
     a \in {<<>>, <<Note>>}, v \in Shown, r \in Rels(l), m \in Bounds(l), w \in Values(l), e \in {Part(<<";">>, <<>>)}} \cup
  {Declared(l, "TypeDecl", a, v, <<"class">>, <<Rel(":>>", "redefines", Name("B"))>>, Nothing, Nothing, e) :
     a \in Notes(l), v \in Shown, e \in Ends}

Plain(l, text, file, shown) ==
  [text |-> text, layout |-> l, file |-> file, visibility |-> shown.means,
   multiplicity |-> <<>>, value |-> <<>>, default |-> FALSE]
Packages(l) ==
  {Plain(l, Cat(a) \o v.text \o <<"package", "A">> \o e.text,
         <<Syntax!NewSymbol("Package", <<"A">>, 0)>> \o e.means, v) : a \in Notes(l), v \in Shown, e \in Ends}
Imports(l) ==
  {Plain(l, Cat(a) \o v.text \o <<"import", "A">> \o tail.text \o <<";">>,
         <<[what |-> "import", up |-> 0, path |-> <<<<"A">>>>, mode |-> tail.means]>>, v) :
     a \in Notes(l), v \in Shown,
     tail \in {Part(<<>>, "single"), Part(<<"::", "*">>, "all"), Part(<<"::", "*", "*">>, "deep")}}

Members == Actions \cup UNION {Declarations(l) \cup Packages(l) \cup Imports(l) : l \in Layouts}
\* All of them tight, and the shorter ones with comments.
MaxCommented == 20
WellFormed ==
  {[source |-> Write(p.text, p.layout), means |-> p] :
     p \in {q \in Members : q.layout = Tight \/ Len(q.text) <= MaxCommented}}
WrittenSources == {w.source : w \in WellFormed}

\* What TLC binds it evaluates once.
Trees == {Red(b)[Root]}

(***************************************************************************)
(* A member that was written from a meaning is given that meaning by the   *)
(* lexer, the parser, the typed views and the symbol builder together,     *)
(* whatever optional parts it has, and statements in whatever order (the   *)
(* tests of parser, ast and hir, for all combinations of the parts); and   *)
(* with comments in all places, unless a part has a text (Textual).        *)
(***************************************************************************)
MeaningRoundTrips ==
  Parsed /\ source \in WrittenSources =>
    \A tree \in Trees : \A w \in WellFormed : w.source = source =>
      LET p == w.means
          member == Head(Syntax!MembersOf(tree))
          value == Syntax!FeatureValue(member)
      IN  /\ Syntax!FileOf(tree) = p.file
          /\ Syntax!Visibility(member) = p.visibility
          /\ Syntax!Multiplicity(member) = p.multiplicity
          /\ Syntax!Default(value, Syntax!ValueText, <<>>) = p.value
          /\ (\E v \in ToSet(value) : Syntax!IsDefault(v)) = p.default

(***************************************************************************)
(* Whatever the text, the analyzer can work on the file (Analyze.tla):     *)
(* members stand in symbols before them, and no clause, reference or       *)
(* import has an empty name (the checks of len(segs) in resolve.go).       *)
(***************************************************************************)
FilesCanBeAnalyzed ==
  LET Scope(file, k) == k = 0 \/ file[k].what = "symbol"
      Usable(path) == path # <<>> /\ \A i \in DOMAIN path : path[i] # <<>>
  IN  Parsed =>
        \A tree \in Trees : \A file \in {Syntax!FileOf(tree)} : \A k \in DOMAIN file :
          /\ file[k].up \in 0 .. k - 1 /\ Scope(file, file[k].up)
          /\ file[k].what = "import" => Usable(file[k].path)
          /\ file[k].what = "symbol" =>
               \A r \in ToSet(file[k].rels) \cup ToSet(Syntax!Refs(file[k])) : Usable(r.path)
-----------------------------------------------------------------------------
(***************************************************************************)
(* Tokens by what they are rather than by how they are scanned: s is all   *)
(* of a token of some kind.                                                *)
(***************************************************************************)
In(s, C) == \A i \in DOMAIN s : s[i] \in C
Unescaped(s, i) ==
  Cardinality({j \in 2 .. i - 1 : \A k \in j .. i - 1 : s[k] = Escape}) % 2 = 0
Closes(s, i) == i > 1 /\ s[i] = s[1] /\ Unescaped(s, i)
Integral(s) == s # <<>> /\ In(s, Digits)
Fractional(s) ==
  Integral(s) \/ \E i \in DOMAIN s : s[i] = "." /\ Integral(SubSeq(s, 1, i - 1)) /\ Integral(SubSeq(s, i + 1, Len(s)))
Unsigned(s) == IF s # <<>> /\ Head(s) \in Signs THEN Tail(s) ELSE s
Exponential(s) ==
  \E i \in DOMAIN s : s[i] \in Exponents /\ Fractional(SubSeq(s, 1, i - 1)) /\ Integral(Unsigned(SubSeq(s, i + 1, Len(s))))

IsToken(kind, s) ==
  CASE kind = "Whitespace" -> In(s, Blanks)
    [] kind = "Newline" -> s \in {<<"\n">>, <<"\r">>, <<"\r", "\n">>}
    [] kind = "LineComment" -> IsPrefix(<<"/", "/">>, s) /\ \A i \in DOMAIN s : s[i] \notin Breaks
    [] kind = "BlockComment" ->
         /\ Len(s) >= 4 /\ IsPrefix(<<"/", "*">>, s) /\ IsSuffix(<<"*", "/">>, s)
         /\ \A i \in 4 .. Len(s) - 1 : <<s[i - 1], s[i]>> # <<"*", "/">>
    [] kind \in {"String", "QuotedIdent"} ->
         /\ s[1] \in DOMAIN QuoteKind /\ QuoteKind[s[1]] = kind
         /\ Closes(s, Len(s))
         /\ \A i \in 1 .. Len(s) - 1 : ~Closes(s, i) /\ (s[i] \in Breaks => ~Unescaped(s, i))
    [] kind = "Int" -> Integral(s)
    [] kind = "Real" -> (Fractional(s) \/ Exponential(s)) /\ ~Integral(s)
    [] kind = "Ident" -> IsLetter(s[1]) /\ \A i \in DOMAIN s : IsIdentContinue(s[i])
    [] kind \in DOMAIN Spelling -> s = Spelling[kind]
    [] OTHER -> FALSE
Kinds == TriviaKinds \cup NameKinds \cup Literals \cup DOMAIN Spelling

\* What is opened and not closed: "an unterminated run ends at a line break
\* or EOF but still emits kind".
Opened(rest) ==
  CASE IsPrefix(<<"/", "*">>, rest) -> {"BlockComment"}
    [] rest[1] \in DOMAIN QuoteKind -> {QuoteKind[rest[1]]}
    [] OTHER -> {}
Unclosed(kind, s, rest) ==
  LET goesOn == {i \in Len(s) + 1 .. Len(rest) : kind = "BlockComment" \/ rest[i] \notin Breaks}
  IN  /\ Len(s) + 1 \notin goesOn
      /\ kind # "BlockComment" => \A i \in DOMAIN s : s[i] \in Breaks => ~Unescaped(s, i)

(***************************************************************************)
(* The lexer takes the longest token that the source begins with, or, if   *)
(* that is opened and not closed, all that could be in it; a character     *)
(* that begins no token is an error of its own (Lex).                      *)
(***************************************************************************)
TokensAreLongest ==
  Doing("lex") /\ tokens # <<>> =>
    LET t == Last(tokens)
        rest == t.text \o Unlexed
        lengths(kinds) == {n \in DOMAIN rest : \E kind \in kinds : IsToken(kind, SubSeq(rest, 1, n))}
    IN  /\ t.text # <<>>
        /\ CASE lengths(Kinds) = {} /\ Opened(rest) = {} -> t.kind = "Error" /\ Len(t.text) = 1
             [] Opened(rest) # {} /\ lengths(Opened(rest)) = {} ->
                  t.kind \in Opened(rest) /\ Unclosed(t.kind, t.text, rest)
             [] OTHER -> IsToken(t.kind, t.text) /\ Len(t.text) = Max(lengths(Kinds))
-----------------------------------------------------------------------------
Behind(ts, alphabet, n) == {ts \o s : s \in Strings(alphabet, n)}
Gibberish ==
  Strings({"@", "A", "{", "}", "part", ";"}, 4) \cup
  Strings({"import", "A", "::", "*", "private"}, 4) \cup
  Behind(<<"transition">>, {"first", "if", "do", "A", "}"}, 3) \cup
  Behind(<<"part">>, {":", ",", "::", "A", "[", "="}, 3) \cup
  Behind(<<"@", "{">>, {"x", ":", "}", "import"}, 4) \cup
  {s \o <<"}">> : s \in Behind(<<"action", "A", "{">>, {"loop", "::", "then", "x", ":"}, 3)}
Scribble ==
  Strings({"/", "*", "\n", "A"}, 5) \cup Strings({"1", ".", "e", "+"}, 5) \cup
  Strings({":", ">", "=", "-"}, 4) \cup Strings({"\"", "\\", "\n", "A", "'"}, 4) \cup
  Strings({" ", "\r", "\n", "digit", "A", "$"}, 3)

MCSources == WrittenSources \cup {Write(ts, Tight) : ts \in Gibberish} \cup Scribble

\* A statement with a prefix, which parseMember looks past.
MCPrefixed ==
  {Write(p \o s, Tight) : p \in {<<"@", "A">>, <<"private">>},
                          s \in {<<"package", "B", ";">>, <<"first", "A", "then", "B", ";">>}}
=============================================================================
