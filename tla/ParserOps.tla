------------------------------- MODULE ParserOps -------------------------------
(***************************************************************************)
(* QueryParser::parse as the recursive descent it is: what a caller gets    *)
(* for a whole text.  The loader takes it as a parameter; the instances for *)
(* TLC get it from here.  Parser has the same function step by step.        *)
(*                                                                         *)
(* A parse from token i gives << >> for a runtime_error, or what was read   *)
(* and the place after it.                                                 *)
(***************************************************************************)
EXTENDS Lexer

IsAt(s, i, type) == i <= Len(s) /\ s[i].type = type

RECURSIVE TermAt(_, _), TermsAt(_, _)

(* The rest of an activation goes on where a part of it ended. *)
Then(parsed, Continue(_, _)) == IF parsed = << >> THEN << >> ELSE Continue(parsed[1], parsed[2])

(* One term or more, separated by commas. *)
TermsAt(s, i) ==
    Then(TermAt(s, i), LAMBDA t, j :
        IF IsAt(s, j, "COMMA")
        THEN Then(TermsAt(s, j + 1), LAMBDA ts, k : << <<t>> \o ts, k>>)
        ELSE << <<t>>, j>>)

(* consume, as the last thing an activation does. *)
Closed(s, i, type, value) == IF IsAt(s, i, type) THEN <<value, i + 1>> ELSE << >>

(* The cons cells over the elements, from the back. *)
Cells(elements, tail) == FoldRight(ConsCell, elements, tail)

(* parseList, from its opening bracket. *)
ListAt(s, i) ==
    IF IsAt(s, i + 1, "RBRACKET") THEN <<EmptyList, i + 2>>
    ELSE Then(TermsAt(s, i + 1), LAMBDA elements, j :
             IF IsAt(s, j, "PIPE")
             THEN Then(TermAt(s, j + 1), LAMBDA tail, k :
                      Closed(s, k, "RBRACKET", Cells(elements, tail)))
             ELSE Closed(s, j, "RBRACKET", Cells(elements, EmptyList)))

(* parseCompoundOrAtom, on an identifier. *)
CompoundAt(s, i) ==
    CASE ~IsAt(s, i + 1, "LPAREN") -> <<Constant(s[i].value), i + 1>>
      [] IsAt(s, i + 1, "LPAREN") /\ IsAt(s, i + 2, "RPAREN") -> <<Compound(s[i].value, << >>), i + 3>>
      [] OTHER -> Then(TermsAt(s, i + 2), LAMBDA args, j :
                      Closed(s, j, "RPAREN", Compound(s[i].value, args)))

(* parseTermInternal *)
TermAt(s, i) ==
    CASE IsAt(s, i, "LBRACKET") -> ListAt(s, i)
      [] IsAt(s, i, "VARIABLE") -> <<Variable(s[i].value), i + 1>>
      [] IsAt(s, i, "NUMBER") -> <<Number(s[i].value), i + 1>>
      [] IsAt(s, i, "IDENTIFIER") -> CompoundAt(s, i)
      [] OTHER -> << >>

(* The loop over the terms of a fact: a comma may come before its end. *)
RECURSIVE ArgumentsAt(_, _)
ArgumentsAt(s, i) ==
    IF i > Len(s) \/ IsAt(s, i, "RPAREN") THEN << << >>, i>>
    ELSE Then(TermAt(s, i), LAMBDA t, j :
             IF j <= Len(s) /\ ~IsAt(s, j, "RPAREN") /\ ~IsAt(s, j, "COMMA") THEN << >>
             ELSE Then(ArgumentsAt(s, IF IsAt(s, j, "COMMA") THEN j + 1 ELSE j),
                       LAMBDA ts, k : << <<t>> \o ts, k>>))

(* A mutant: the text must end with the fact. *)
ParseTokensToEnd(s) ==
    IF ~IsAt(s, 1, "IDENTIFIER") \/ ~IsAt(s, 2, "LPAREN") THEN << >>
    ELSE Then(ArgumentsAt(s, 3), LAMBDA terms, j :
             IF IsAt(s, j, "RPAREN") /\ j = Len(s) THEN <<Literal(s[1].value, terms)>> ELSE << >>)

(***************************************************************************)
(* parse: << >> or <<fact>>.  What follows the fact is not looked at.       *)
(***************************************************************************)
ParseTokens(s) ==
    IF ~IsAt(s, 1, "IDENTIFIER") \/ ~IsAt(s, 2, "LPAREN") THEN << >>
    ELSE Then(ArgumentsAt(s, 3), LAMBDA terms, j :
             IF IsAt(s, j, "RPAREN") THEN <<Literal(s[1].value, terms)>> ELSE << >>)

ParseText(text, mode) == ParseTokens(Tokenize(text, mode))

================================================================================
