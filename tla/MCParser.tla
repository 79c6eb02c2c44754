------------------------------- MODULE MCParser --------------------------------
(***************************************************************************)
(* All inputs over four words: an identifier, a number, a word that is a    *)
(* variable in rule mode only, and one that is a variable in query mode     *)
(* only.                                                                   *)
(***************************************************************************)
EXTENDS Parser, ParserOps, Printer

MCWords == {<<"a">>, <<"1">>, <<"X">>, <<"?", "X">>}

(***************************************************************************)
(* The function that the loader runs on a text is the parser's: what it     *)
(* gives for the tokens read, whatever follows, is how the call ended.      *)
(***************************************************************************)
AgreesWithFunction ==
    Ended /\ pc # "idle" =>
        LET read == IF look = EndOfInput THEN consumed ELSE Append(consumed, look)
        IN  CASE pc = "rejected" ->
                    (IF entry = "parse" THEN ParseTokens(read) ELSE TermAt(read, 1)) = << >>
              [] pc = "accepted" /\ entry = "parse" -> ParseTokens(read) = <<fact>>
              [] OTHER -> TermAt(read, 1) = <<term, Len(consumed) + 1>>

(* A name that toString prints like a variable. *)
RECURSIVE Ambiguous(_)
Ambiguous(t) ==
    \/ \E i \in DOMAIN t.args : Ambiguous(t.args[i])
    \/ (IsConstant(t) \/ IsCompound(t)) /\ t.value[1] = "?"

AmbiguousFact(f) == f.predicate[1] = "?" \/ \E i \in DOMAIN f.terms : Ambiguous(f.terms[i])

(***************************************************************************)
(* What toString prints of a fact, read in query mode, spells that fact,    *)
(* whichever mode it was first read in.                                    *)
(***************************************************************************)
PrintsBack ==
    pc = "accepted" /\ entry = "parse" /\ ~AmbiguousFact(fact) =>
        <<FALSE, "parse", FactTokens(fact, FALSE), fact>> \in Sentences

==============================================================================
