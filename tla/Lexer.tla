--------------------------------- MODULE Lexer ---------------------------------
(***************************************************************************)
(* What the parser and the loader see of a text.                           *)
(*                                                                         *)
(* The tokenizer cuts a text at blanks and at the six punctuation marks;    *)
(* what is left are words, which the mode makes variables, numbers or       *)
(* identifiers.  A text is a sequence of words and marks, a word a text of  *)
(* Terms: <<"?", "X">> is ?X.  A carriage return is a mark too: it is blank  *)
(* to the tokenizer, but not to everything that cuts lines and goals.       *)
(***************************************************************************)
EXTENDS Terms, SequencesExt

CONSTANTS
    Words,          \* the words an input may hold
    Uppercase,      \* the letters that std::isupper accepts
    Digits          \* the digits

ASSUME WordsAssumption == \A w \in Words : w \in Seq(STRING) /\ w # << >>

Token(type, value) == [value |-> value, type |-> type]

Mark(type) == Token(type, EmptyText)
LParen == Mark("LPAREN")
RParen == Mark("RPAREN")
LBracket == Mark("LBRACKET")
RBracket == Mark("RBRACKET")
Comma == Mark("COMMA")
Pipe == Mark("PIPE")

Punctuation == {LParen, RParen, Comma, LBracket, RBracket, Pipe}

EndOfInput == Mark("END")

(***************************************************************************)
(* addToken: what a word is depends on its first character and the mode.    *)
(***************************************************************************)
AddToken(w, mode) ==
    CASE ~mode /\ w[1] = "?" -> Token("VARIABLE", Tail(w))
      [] mode /\ w[1] \in Uppercase \cup {"_"} -> Token("VARIABLE", w)
      [] w[1] \in Digits \/ (w[1] = "-" /\ Len(w) > 1 /\ w[2] \in Digits) -> Token("NUMBER", w)
      [] OTHER -> Token("IDENTIFIER", w)

Tokens(mode) == {AddToken(w, mode) : w \in Words} \cup Punctuation

--------------------------------------------------------------------------------
(* Texts *)

Word(w) == Token("WORD", w)
CarriageReturn == Mark("CR")

IsBlank(lexeme) == lexeme = CarriageReturn

(* tokenize, on a text without a neck. *)
Tokenize(text, mode) ==
    LET visible == SelectSeq(text, LAMBDA x : ~IsBlank(x))
    IN  [i \in DOMAIN visible |->
            IF visible[i].type = "WORD" THEN AddToken(visible[i].value, mode) ELSE visible[i]]

================================================================================
