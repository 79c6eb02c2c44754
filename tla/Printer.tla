-------------------------------- MODULE Printer --------------------------------
(***************************************************************************)
(* Term::toString and Fact::toString, by the tokens they write, read in     *)
(* mode.                                                                   *)
(***************************************************************************)
EXTENDS Lexer

RECURSIVE TermTokens(_, _), ListTokens(_, _), JoinedTokens(_, _)

(* A mutant: the tail is always printed as an element. *)
ListTokensNoBar(t, mode) ==
    CASE IsConsList(t) -> <<Comma>> \o TermTokens(t.args[1], mode) \o ListTokens(t.args[2], mode)
      [] IsEmptyList(t) -> << >>
      [] OTHER -> <<Comma>> \o TermTokens(t, mode)

(* The loop over the cells of a list, after its first element. *)
ListTokens(t, mode) ==
    CASE IsConsList(t) -> <<Comma>> \o TermTokens(t.args[1], mode) \o ListTokens(t.args[2], mode)
      [] IsEmptyList(t) -> << >>
      [] OTHER -> <<Pipe>> \o TermTokens(t, mode)

JoinedTokens(s, mode) ==
    IF s = << >> THEN << >>
    ELSE IF Len(s) = 1 THEN TermTokens(s[1], mode)
    ELSE TermTokens(s[1], mode) \o <<Comma>> \o JoinedTokens(Tail(s), mode)

TermTokens(t, mode) ==
    CASE IsVariable(t) -> <<AddToken(<<"?">> \o t.value, mode)>>
      [] IsConstant(t) \/ IsNumber(t) -> <<AddToken(t.value, mode)>>
      [] IsCompound(t) -> <<AddToken(t.value, mode), LParen>> \o JoinedTokens(t.args, mode) \o <<RParen>>
      [] IsEmptyList(t) -> <<LBracket, RBracket>>
      [] IsConsList(t) -> <<LBracket>> \o TermTokens(t.args[1], mode)
                              \o ListTokens(t.args[2], mode) \o <<RBracket>>

FactTokens(f, mode) == <<AddToken(f.predicate, mode), LParen>> \o JoinedTokens(f.terms, mode) \o <<RParen>>

================================================================================
