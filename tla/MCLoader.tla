-------------------------------- MODULE MCLoader --------------------------------
(***************************************************************************)
(* Files of a few lines: clauses written in several layouts, lines that say *)
(* nothing, and lines that cannot be parsed.                               *)
(***************************************************************************)
EXTENDS LoaderRefinement, QueryMeaning, ParserOps

X == Variable(<<"X">>)
Y == Variable(<<"Y">>)
Z == Variable(<<"Z">>)
a == Constant(<<"a">>)
b == Constant(<<"b">>)
c == Constant(<<"c">>)

e(t, u) == Literal(<<"e">>, <<t, u>>)
p(t, u) == Literal(<<"p">>, <<t, u>>)
q(t) == Literal(<<"q">>, <<t>>)

Names == {"e", "p", "q", "a", "b", "c", "X", "Y", "Z"}
MCWords == {<<n>> : n \in Names \cup {"%", ".", ":-"}} \cup {<<"?", "X">>, <<"?", "Y">>}
MCUppercase == {"X", "Y", "Z"}

--------------------------------------------------------------------------------
(* How clauses are written, in either mode. *)

RECURSIVE Written(_, _), WrittenAll(_, _), WrittenRest(_, _)

Joined(first, rest, separator) == IF rest = << >> THEN first ELSE first \o <<separator>> \o rest

WrittenAll(s, mode) ==
    IF s = << >> THEN << >> ELSE Joined(Written(Head(s), mode), WrittenAll(Tail(s), mode), Comma)

WrittenRest(t, mode) ==
    CASE IsConsList(t) -> <<Comma>> \o Written(t.args[1], mode) \o WrittenRest(t.args[2], mode)
      [] IsEmptyList(t) -> << >>
      [] OTHER -> <<Pipe>> \o Written(t, mode)

Written(t, mode) ==
    CASE IsVariable(t) -> <<Word(IF mode THEN t.value ELSE <<"?">> \o t.value)>>
      [] IsConsList(t) ->
             <<LBracket>> \o Written(t.args[1], mode) \o WrittenRest(t.args[2], mode) \o <<RBracket>>
      [] IsEmptyList(t) -> <<LBracket, RBracket>>
      [] IsCompound(t) -> <<Word(t.value), LParen>> \o WrittenAll(t.args, mode) \o <<RParen>>
      [] OTHER -> <<Word(t.value)>>

WrittenFact(f, mode) == <<Word(f.predicate), LParen>> \o WrittenAll(f.terms, mode) \o <<RParen>>

RECURSIVE WrittenGoals(_)
WrittenGoals(goals) ==
    IF goals = << >> THEN << >>
    ELSE Joined(WrittenFact(Head(goals), RuleMode), WrittenGoals(Tail(goals)), Comma)

WrittenRule(r) == WrittenFact(r.head, RuleMode) \o <<Neck>> \o WrittenGoals(r.body)

(* With and without a period, in a file with CRLF lines, before a remark. *)
Layouts(text) ==
    {text, Append(text, Period), text \o <<Period, CarriageReturn>>,
     text \o <<Period, Word(<<"%">>), Word(<<"a">>)>>}

--------------------------------------------------------------------------------
(* Lines and what they say: facts and rules. *)

Saying(text, factsSaid, rulesSaid) == [text |-> text, factsSaid |-> factsSaid, rulesSaid |-> rulesSaid]

Base == Rule(p(X, Y), <<e(X, Y)>>)
Step == Rule(p(X, Z), <<e(X, Y), p(Y, Z)>>)
Nested == Rule(p(X, Y), <<q(ConsCell(X, ConsCell(Y, EmptyList))), e(X, Compound(<<"a">>, <<X, Y>>)), q(X)>>)
NoBody == Rule(p(X, Y), << >>)

WrittenFacts == {e(a, b), e(b, c), q(ConsCell(X, ConsCell(a, Y)))}
WrittenRules == {Base, Step, Nested}

MCRules == WrittenRules \cup {NoBody}

Silent ==
    {<< >>, <<Word(<<"%">>), Word(<<"a">>), Neck>>, WrittenRule(NoBody), Append(WrittenRule(NoBody), Period)}

Sayings ==
    UNION {{Saying(t, <<f>>, << >>) : t \in Layouts(WrittenFact(f, RuleMode))} : f \in WrittenFacts}
        \cup UNION {{Saying(t, << >>, <<r>>) : t \in Layouts(WrittenRule(r))} : r \in WrittenRules}
        \cup {Saying(t, << >>, << >>) : t \in Silent}

Garbled ==
    {<<Word(<<"e">>), LParen, Word(<<"a">>), Word(<<"b">>), RParen>>,
     WrittenRule(Base) \o <<Comma, Word(<<"p">>), LParen, Word(<<"X">>), Period>>,
     <<Neck>> \o WrittenFact(e(a, b), RuleMode),
     <<Period>>}

OneLine == {s.text : s \in Sayings} \cup Garbled

(* The lines that are tried in every combination of two. *)
Plain ==
    {WrittenFact(e(a, b), RuleMode), Append(WrittenFact(e(b, c), RuleMode), Period), WrittenRule(Nested)}
        \cup {Append(WrittenRule(r), Period) : r \in MCRules} \cup {<< >>} \cup Garbled

MCFiles == {<<l>> : l \in OneLine} \cup {<<l, m>> : l, m \in Plain}

Said(line) == CHOOSE s \in Sayings : s.text = line

(* The store holds the clauses that the lines say, in their order. *)
StoreSays(lines) ==
    /\ \A i \in DOMAIN lines : \E s \in Sayings : s.text = lines[i]
    /\ facts = FlattenSeq([i \in DOMAIN lines |-> Said(lines[i]).factsSaid])
    /\ rules = FlattenSeq([i \in DOMAIN lines |-> Said(lines[i]).rulesSaid])

--------------------------------------------------------------------------------
(***************************************************************************)
(* A program in several files, one of which ends with an exception and is   *)
(* loaded again, or overlaps with another; queries in between.             *)
(***************************************************************************)
Orders(lines) == {s \in [1..Cardinality(lines) -> lines] : ToSet(s) = lines}

FactLineOf(f) == Append(WrittenFact(f, RuleMode), Period)
RuleLineOf(r) == Append(WrittenRule(r), Period)

ProgramFiles ==
    Orders({FactLineOf(e(a, b)), RuleLineOf(Base), <<Period>>})
        \cup Orders({FactLineOf(e(b, c)), RuleLineOf(Step)})
        \cup {<<FactLineOf(e(a, b)), FactLineOf(e(b, c)), RuleLineOf(Base), RuleLineOf(Step)>>}

Goals == {p(a, X), p(X, Y), p(a, c), e(X, X)}

ProgramQueries == {WrittenFact(g, QueryMode) : g \in Goals}

MCIndividuals == {a, b, c}

AskedText == CHOOSE g \in Goals : ParseText(WrittenFact(g, QueryMode), QueryMode) = asked

(* What follows from what the lines say. *)
Following(lines) ==
    LeastModel(UNION {ToSet(Said(l).factsSaid) : l \in ToSet(lines)},
               UNION {ToSet(Said(l).rulesSaid) : l \in ToSet(lines)}, MCIndividuals)

--------------------------------------------------------------------------------
(* A program whose clauses are set off by a blank line, with CRLF ends of line. *)
BlankFiles ==
    {<<WrittenFact(e(a, b), RuleMode) \o <<Period, CarriageReturn>>, <<CarriageReturn>>,
       WrittenRule(Base) \o <<Period, CarriageReturn>> >>}

(***************************************************************************)
(* Empty lines are skipped: a load only ends with an exception at a line    *)
(* that has something on it.                                               *)
(* (The blank line of a file with CRLF ends of line ends it; see README.)    *)
(***************************************************************************)
BlankLinesSkipped == [][LineFails => \E i \in DOMAIN Head(file) : ~IsBlank(Head(file)[i])]_<<vars, loaderVars>>

==============================================================================
