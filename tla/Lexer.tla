-------------------------------- MODULE Lexer --------------------------------
(***************************************************************************)
(* The lexer of engine/parser (lexer.go): the token at the head of a       *)
(* source, which is a sequence of characters.  A word, such as `part', is  *)
(* one letter here: letters are all the characters that are not named      *)
(* below.  Kinds of punctuation are named by their text, the others as in  *)
(* kind.go.                                                                *)
(***************************************************************************)
EXTENDS Integers, Sequences, SequencesExt, FiniteSetsExt

Blanks == {" ", "\t"}
Breaks == {"\n", "\r"}
Digits == {"0", "1", "2"}
Signs == {"+", "-"}
QuoteKind == [q \in {"\"", "'"} |-> IF q = "'" THEN "QuotedIdent" ELSE "String"]
Escape == "\\"
Exponents == {"e", "E"}
\* Digits for unicode.IsDigit only, and what is no part of any other token.
OtherDigits == {"digit"}
Strange == {Escape, "$"} \cup OtherDigits
Single ==
  {"(", ")", "{", "}", "[", "]", ";", ",", ".", ":", "=", "*", "+", "-", "/", "~", "@", "#", "?",
   "<", ">", "&", "|", "!", "%", "^"}
Spelling ==
  [p \in Single \cup {"..", "->", "::", ":=", ":>", ":>>"} |->
     CASE p = ".." -> <<".", ".">>
       [] p = "->" -> <<"-", ">">>
       [] p = "::" -> <<":", ":">>
       [] p = ":=" -> <<":", "=">>
       [] p = ":>" -> <<":", ">">>
       [] p = ":>>" -> <<":", ">", ">">>
       [] OTHER -> <<p>>]

\* unicode.IsLetter and '_'.
IsLetter(c) == c \notin Blanks \cup Breaks \cup Digits \cup DOMAIN QuoteKind \cup Strange \cup Single \cup {""}
IsIdentContinue(c) == IsLetter(c) \/ c \in Digits \cup OtherDigits

TriviaKinds == {"Whitespace", "Newline", "LineComment", "BlockComment"}
IsTrivia(t) == t.kind \in TriviaKinds
-----------------------------------------------------------------------------
\* The character at i, "" past the end; the end of the run of characters
\* from i on that are in C.
CharAt(s, i) == IF i \in DOMAIN s THEN s[i] ELSE ""
EndOfRun(s, i, C) == Min({j \in i .. Len(s) : s[j] \notin C} \cup {Len(s) + 1}) - 1

\* "*/" closes a comment that "/*" has opened, EOF one that is not closed.
EndOfComment(s) ==
  Min({j \in 4 .. Len(s) : s[j - 1] = "*" /\ s[j] = "/"} \cup {Len(s)})

\* A quoted run ends at its quote, or before a line break, or at EOF.
EndOfQuoted(s) ==
  LET end[i \in 2 .. Len(s) + 2] ==
        CASE i > Len(s) -> Len(s)
          [] CharAt(s, i) = Escape -> end[i + 2]
          [] CharAt(s, i) = s[1] -> i
          [] CharAt(s, i) \in Breaks -> i - 1
          [] OTHER -> end[i + 1]
  IN  end[2]

\* Seeded fault: a dot after digits always begins a fraction.
EndOfFractionGreedy(s, i) == IF CharAt(s, i + 1) = "." THEN EndOfRun(s, i + 2, Digits) ELSE i

\* A dot begins a fraction, and an `e' an exponent, only if a digit follows.
EndOfFraction(s, i) ==
  IF CharAt(s, i + 1) = "." /\ CharAt(s, i + 2) \in Digits THEN EndOfRun(s, i + 2, Digits) ELSE i
EndOfExponent(s, i) ==
  LET digits == IF CharAt(s, i + 2) \in Signs THEN i + 3 ELSE i + 2
  IN  IF CharAt(s, i + 1) \in Exponents /\ CharAt(s, digits) \in Digits
        THEN EndOfRun(s, digits, Digits) ELSE i

Number(s) ==
  LET int == EndOfRun(s, 1, Digits)
      end == EndOfExponent(s, EndOfFraction(s, int))
  IN  [kind |-> IF end = int THEN "Int" ELSE "Real", end |-> end]

EndOfIdent(s) == Min({j \in DOMAIN s : ~IsIdentContinue(s[j])} \cup {Len(s) + 1}) - 1

\* The longest punctuation.
Punctuation(s) ==
  LET fits == {p \in DOMAIN Spelling : IsPrefix(Spelling[p], s)}
  IN  CHOOSE p \in fits : \A q \in fits : Len(Spelling[q]) <= Len(Spelling[p])

Scan(s) ==
  LET c == s[1]
      Is(kind, end) == [kind |-> kind, end |-> end]
  IN  CASE c \in Blanks -> Is("Whitespace", EndOfRun(s, 1, Blanks))
        [] c = "\n" -> Is("Newline", 1)
        [] c = "\r" -> Is("Newline", IF CharAt(s, 2) = "\n" THEN 2 ELSE 1)
        [] c = "/" /\ CharAt(s, 2) = "/" ->
             Is("LineComment", Min({j \in DOMAIN s : s[j] \in Breaks} \cup {Len(s) + 1}) - 1)
        [] c = "/" /\ CharAt(s, 2) = "*" -> Is("BlockComment", EndOfComment(s))
        [] c \in DOMAIN QuoteKind -> Is(QuoteKind[c], EndOfQuoted(s))
        [] c \in Digits -> Number(s)
        [] IsLetter(c) -> Is("Ident", EndOfIdent(s))
        [] c \in Strange -> Is("Error", 1)
        [] OTHER -> Is(Punctuation(s), Len(Spelling[Punctuation(s)]))

\* The token at the head of a source that is not empty.
NextToken(s) == [kind |-> Scan(s).kind, text |-> SubSeq(s, 1, Scan(s).end)]
=============================================================================
