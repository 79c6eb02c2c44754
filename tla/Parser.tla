-------------------------------- MODULE Parser ---------------------------------
(***************************************************************************)
(* QueryParser::parse as a step machine.                                   *)
(*                                                                         *)
(* The code is a recursive descent: parse reads the predicate and calls     *)
(* parseTermInternal for every term, which calls parseList or               *)
(* parseCompoundOrAtom, which call it again.  The activations are the       *)
(* frames of `stack', top last.  Every decision looks at one token only,    *)
(* tokens_[current_]; so the input need not be chosen in advance: `look' is *)
(* that token, and the one after it is chosen when the parser advances.     *)
(***************************************************************************)
EXTENDS Grammar

CONSTANT MaxTokens      \* bound on the tokens the parser advances over

ASSUME MaxTokensAssumption == MaxTokens \in Nat \ {0}

VARIABLES
    ruleMode,   \* ruleMode_
    entry,      \* the function called: "parse" or "parseTerm"
    pc,         \* "idle": no call yet; "frame": the top activation goes on;
                \* "term": parseTermInternal is called; "return": it returns `term';
                \* "accepted" or "rejected": how the last call ended
    stack,      \* the activations
    look,       \* tokens_[current_]
    consumed,   \* history: the tokens the parser has advanced over
    term,       \* what is returned
    fact        \* the result of the last call, if it was accepted

vars == <<ruleMode, entry, pc, stack, look, consumed, term, fact>>

NoTerm == EmptyList
NoFact == Literal(EmptyText, << >>)

Ended == pc \in {"idle", "accepted", "rejected"}

Init ==
    /\ ruleMode = FALSE
    /\ entry = "parse"
    /\ pc = "idle"
    /\ stack = << >>
    /\ look = EndOfInput
    /\ consumed = << >>
    /\ term = NoTerm
    /\ fact = NoFact

(***************************************************************************)
(* An activation: the name it has read, the terms it has collected and, for *)
(* a list, the tail (<< >> if there is none); `at' is where it waits.       *)
(***************************************************************************)
Frame(fn, name, at) == [fn |-> fn, name |-> name, terms |-> << >>, tail |-> << >>, at |-> at]

(* setRuleMode, and what both entries begin with: tokenize, current_ = 0. *)
Begin(mode) ==
    /\ Ended
    /\ ruleMode' = mode
    /\ look' \in Tokens(mode) \cup {EndOfInput}
    /\ consumed' = << >>
    /\ term' = NoTerm /\ fact' = NoFact

Parse(mode) ==
    /\ Begin(mode)
    /\ entry' = "parse"
    /\ pc' = "frame"
    /\ stack' = <<Frame("parse", EmptyText, "predicate")>>

ParseTerm(mode) ==
    /\ Begin(mode)
    /\ entry' = "parseTerm"
    /\ pc' = "term"
    /\ stack' = << >>

--------------------------------------------------------------------------------
(* Control *)

Top == stack[Len(stack)]

SetTop(frame) == [stack EXCEPT ![Len(stack)] = frame]

Popped == SubSeq(stack, 1, Len(stack) - 1)

Waits(fn, at) == pc = "frame" /\ Top.fn = fn /\ Top.at = at

Sees(types) == look.type \in types

Advance ==
    /\ consumed' = Append(consumed, look)
    /\ look' \in (IF Len(consumed) + 1 < MaxTokens THEN Tokens(ruleMode) ELSE {}) \cup {EndOfInput}

Stay == UNCHANGED <<look, consumed>>

GoOn(frames) == pc' = "frame" /\ stack' = frames /\ UNCHANGED <<ruleMode, entry, term, fact>>

CallTerm(frames) == pc' = "term" /\ stack' = frames /\ UNCHANGED <<ruleMode, entry, term, fact>>

ReturnTerm(frames, t) ==
    pc' = "return" /\ stack' = frames /\ term' = t /\ UNCHANGED <<ruleMode, entry, fact>>

(* A runtime_error leaves parse at once; nothing is read of the parser's    *)
(* state before the next call sets it.                                     *)
Reject ==
    /\ pc' = "rejected"
    /\ stack' = << >>
    /\ UNCHANGED <<ruleMode, entry, look, consumed, term, fact>>

--------------------------------------------------------------------------------
(* parse *)

Predicate ==
    /\ Waits("parse", "predicate")
    /\ \/ Sees({"IDENTIFIER"}) /\ Advance
          /\ GoOn(SetTop([Top EXCEPT !.name = look.value, !.at = "open"]))
       \/ ~Sees({"IDENTIFIER"}) /\ Reject

Open ==
    /\ Waits("parse", "open")
    /\ \/ Sees({"LPAREN"}) /\ Advance /\ GoOn(SetTop([Top EXCEPT !.at = "loop"]))
       \/ ~Sees({"LPAREN"}) /\ Reject

(* The head of the loop over the terms. *)
NextTerm ==
    /\ Waits("parse", "loop")
    /\ ~Sees({"END", "RPAREN"})
    /\ Stay /\ CallTerm(stack)

(* After a term: a comma, unless the loop is about to end. *)
Separator ==
    /\ Waits("parse", "separator")
    /\ \/ Sees({"END", "RPAREN"}) /\ Stay /\ GoOn(SetTop([Top EXCEPT !.at = "loop"]))
       \/ Sees({"COMMA"}) /\ Advance /\ GoOn(SetTop([Top EXCEPT !.at = "loop"]))
       \/ ~Sees({"END", "RPAREN", "COMMA"}) /\ Reject

(* The closing parenthesis; what follows it is not looked at. *)
Close ==
    /\ Waits("parse", "loop")
    /\ \/ /\ Sees({"RPAREN"}) /\ Advance
          /\ pc' = "accepted"
          /\ stack' = << >>
          /\ fact' = Literal(Top.name, Top.terms)
          /\ UNCHANGED <<ruleMode, entry, term>>
       \/ Sees({"END"}) /\ Reject

--------------------------------------------------------------------------------
(* parseTermInternal and the first token of parseList, parseCompoundOrAtom *)

Atomic == IF look.type = "NUMBER" THEN Number(look.value) ELSE Variable(look.value)

Term ==
    /\ pc = "term"
    /\ \/ Sees({"LBRACKET"}) /\ Advance
          /\ GoOn(Append(stack, Frame("parseList", EmptyText, "first")))
       \/ Sees({"VARIABLE", "NUMBER"}) /\ Advance /\ ReturnTerm(stack, Atomic)
       \/ Sees({"IDENTIFIER"}) /\ Advance
          /\ GoOn(Append(stack, Frame("parseCompoundOrAtom", look.value, "name")))
       \/ ~Sees({"LBRACKET", "VARIABLE", "NUMBER", "IDENTIFIER"}) /\ Reject

(* A term is returned to the activation that called for it, or by parseTerm. *)
TermParsed ==
    /\ pc = "return" /\ stack = << >>
    /\ pc' = "accepted"
    /\ UNCHANGED <<ruleMode, entry, stack, look, consumed, term, fact>>

(* A mutant: the tail is read but not kept. *)
ReturnedTailLost ==
    /\ pc = "return" /\ stack # << >>
    /\ Stay
    /\ \/ Top.at = "tail" /\ GoOn(SetTop([Top EXCEPT !.at = "end"]))
       \/ /\ Top.at # "tail"
          /\ GoOn(SetTop([Top EXCEPT !.terms = Append(@, term),
                                     !.at = IF Top.fn = "parse" THEN "separator" ELSE "rest"]))

Returned ==
    /\ pc = "return" /\ stack # << >>
    /\ Stay
    /\ \/ Top.at = "tail" /\ GoOn(SetTop([Top EXCEPT !.tail = <<term>>, !.at = "end"]))
       \/ /\ Top.at # "tail"
          /\ GoOn(SetTop([Top EXCEPT !.terms = Append(@, term),
                                     !.at = IF Top.fn = "parse" THEN "separator" ELSE "rest"]))

--------------------------------------------------------------------------------
(* parseList *)

EmptyBrackets ==
    /\ Waits("parseList", "first")
    /\ \/ Sees({"RBRACKET"}) /\ Advance /\ ReturnTerm(Popped, EmptyList)
       \/ ~Sees({"RBRACKET"}) /\ Stay /\ CallTerm(stack)

(* A mutant: the elements end up in reverse order. *)
ListReversed(elements, tail) == FoldLeft(LAMBDA acc, e : ConsCell(e, acc), tail, elements)

(* The cons cells over the elements, from the back. *)
ListOf(elements, tail) == FoldRight(ConsCell, elements, tail)

ListRest ==
    /\ Waits("parseList", "rest")
    /\ \/ Sees({"COMMA"}) /\ Advance /\ CallTerm(stack)
       \/ Sees({"PIPE"}) /\ Advance /\ CallTerm(SetTop([Top EXCEPT !.at = "tail"]))
       \/ Sees({"RBRACKET"}) /\ Advance /\ ReturnTerm(Popped, ListOf(Top.terms, EmptyList))
       \/ ~Sees({"COMMA", "PIPE", "RBRACKET"}) /\ Reject

ListEnd ==
    /\ Waits("parseList", "end")
    /\ \/ Sees({"RBRACKET"}) /\ Advance /\ ReturnTerm(Popped, ListOf(Top.terms, Top.tail[1]))
       \/ ~Sees({"RBRACKET"}) /\ Reject

--------------------------------------------------------------------------------
(* parseCompoundOrAtom, after an identifier *)

Name ==
    /\ Waits("parseCompoundOrAtom", "name")
    /\ \/ Sees({"LPAREN"}) /\ Advance /\ GoOn(SetTop([Top EXCEPT !.at = "first"]))
       \/ ~Sees({"LPAREN"}) /\ Stay /\ ReturnTerm(Popped, Constant(Top.name))

(* A mutant: an empty argument list is not expected. *)
FirstArgumentRequired ==
    /\ Waits("parseCompoundOrAtom", "first")
    /\ Stay /\ CallTerm(stack)

FirstArgument ==
    /\ Waits("parseCompoundOrAtom", "first")
    /\ \/ Sees({"RPAREN"}) /\ Advance /\ ReturnTerm(Popped, Compound(Top.name, << >>))
       \/ ~Sees({"RPAREN"}) /\ Stay /\ CallTerm(stack)

(* A mutant: the comma is seen but not consumed. *)
ArgumentsStuck ==
    /\ Waits("parseCompoundOrAtom", "rest")
    /\ \/ Sees({"COMMA"}) /\ Stay /\ GoOn(stack)
       \/ Sees({"RPAREN"}) /\ Advance /\ ReturnTerm(Popped, Compound(Top.name, Top.terms))
       \/ ~Sees({"COMMA", "RPAREN"}) /\ Reject

Arguments ==
    /\ Waits("parseCompoundOrAtom", "rest")
    /\ \/ Sees({"COMMA"}) /\ Advance /\ CallTerm(stack)
       \/ Sees({"RPAREN"}) /\ Advance /\ ReturnTerm(Popped, Compound(Top.name, Top.terms))
       \/ ~Sees({"COMMA", "RPAREN"}) /\ Reject

--------------------------------------------------------------------------------

Descend ==
    \/ Predicate \/ Open \/ NextTerm \/ Separator \/ Close
    \/ Term \/ TermParsed \/ Returned
    \/ EmptyBrackets \/ ListRest \/ ListEnd
    \/ Name \/ FirstArgument \/ Arguments

Next == (\E mode \in BOOLEAN : Parse(mode) \/ ParseTerm(mode)) \/ Descend

(* parse runs on the caller's thread to its end. *)
Spec == Init /\ [][Next]_vars /\ WF_vars(Descend)

--------------------------------------------------------------------------------
(* Properties *)

(* The places where an activation waits. *)
Places == [parse |-> {"predicate", "open", "loop", "separator"},
           parseList |-> {"first", "rest", "tail", "end"},
           parseCompoundOrAtom |-> {"name", "first", "rest"}]

FrameOK(f) ==
    /\ f = [fn |-> f.fn, name |-> f.name, terms |-> f.terms, tail |-> f.tail, at |-> f.at]
    /\ f.fn \in DOMAIN Places /\ f.at \in Places[f.fn]
    /\ f.at = "end" => Len(f.tail) = 1

(***************************************************************************)
(* The calls in progress fit together: below the top every activation is    *)
(* at a place where it has called for a term, and so is the top while a     *)
(* term is being read or returned.  A term is never handed to an activation *)
(* that did not ask for one.                                               *)
(***************************************************************************)
Calls == [parse |-> {"loop"},
          parseList |-> {"first", "rest", "tail"},
          parseCompoundOrAtom |-> {"first", "rest"}]

AwaitsTerm(f) == f.at \in Calls[f.fn]

CallsNest ==
    \A i \in DOMAIN stack : i < Len(stack) \/ pc \in {"term", "return"} => AwaitsTerm(stack[i])

TypeOK ==
    /\ ruleMode \in BOOLEAN
    /\ entry \in {"parse", "parseTerm"}
    /\ pc \in {"idle", "frame", "term", "return", "accepted", "rejected"}
    /\ look \in Tokens(ruleMode) \cup {EndOfInput}
    /\ consumed \in Seq(Tokens(ruleMode)) /\ Len(consumed) <= MaxTokens
    /\ \A i \in DOMAIN stack : FrameOK(stack[i]) /\ (stack[i].fn = "parse" => i = 1)
    /\ pc = "frame" => stack # << >>
    /\ Ended => stack = << >>
    /\ CallsNest

(***************************************************************************)
(* All sentences of up to MaxTokens tokens: the mode, the function that     *)
(* reads them, the tokens and the result; and what sentences begin with.    *)
(***************************************************************************)
Tagged(mode, function, spellings) == {<<mode, function, s.tokens, s.meaning>> : s \in spellings}

Sentences ==
    UNION {Tagged(mode, "parse", FactSpellings(MaxTokens, mode))
               \cup Tagged(mode, "parseTerm", TermSpellings(MaxTokens, mode)) : mode \in BOOLEAN}

Whole == {<<s[1], s[2], s[3]>> : s \in Sentences}

Beginnings ==
    UNION {{<<s[1], s[2], SubSeq(s[3], 1, n)>> : n \in 0..Len(s[3])} : s \in Sentences}

Result == IF entry = "parse" THEN fact ELSE term

(***************************************************************************)
(* What is accepted is a sentence, and the result is what it spells: no     *)
(* token is lost, moved or read twice on the way through the recursion.     *)
(***************************************************************************)
AcceptsRight == pc = "accepted" => <<ruleMode, entry, consumed, Result>> \in Sentences

(***************************************************************************)
(* An input is only rejected at a token after which nothing can make a      *)
(* sentence of it, or at its end when it is not a sentence: no form the     *)
(* grammar allows is refused.                                              *)
(***************************************************************************)
RejectsRight ==
    pc = "rejected" =>
        IF look = EndOfInput
        THEN <<ruleMode, entry, consumed>> \notin Whole
        ELSE <<ruleMode, entry, Append(consumed, look)>> \notin Beginnings

(***************************************************************************)
(* How many steps a call can still take: one token is good for six of them, *)
(* whatever the nesting, and the steps between two tokens come in a fixed   *)
(* order.  That every step uses one up is why the loops over elements and   *)
(* arguments end.                                                          *)
(***************************************************************************)
Rank ==
    IF Ended THEN 0
    ELSE IF pc = "term" THEN 1
    ELSE IF pc = "return" THEN 4
    ELSE IF Top.at = "name" THEN 5
    ELSE IF Top.at = "separator" THEN 3
    ELSE 2

StepsLeft == 6 * (MaxTokens - Len(consumed)) + Rank

StepsRunOut == [][Descend => StepsLeft' < StepsLeft]_vars

(* Every call returns or throws. *)
ParsesEnd == ~Ended ~> Ended

================================================================================
