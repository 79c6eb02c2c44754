-------------------------------- MODULE Grammar --------------------------------
(***************************************************************************)
(* The language of QueryParser, independently of how it is parsed: which    *)
(* token sequences spell which terms and which facts, by length.  The rules *)
(* are those of the class comment of query_parser.h, and two leniencies of  *)
(* the code: compounds and facts may have no terms, and a comma may follow  *)
(* the last term of a fact.                                                *)
(***************************************************************************)
EXTENDS Lexer

(* A sequence of tokens and what it spells. *)
Spelling(tokens, meaning) == [tokens |-> tokens, meaning |-> meaning]

Identifiers(mode) == {t \in Tokens(mode) : t.type = "IDENTIFIER"}

AtomSpellings(mode) ==
    {Spelling(<<t>>, Constant(t.value)) : t \in Identifiers(mode)}
        \cup {Spelling(<<t>>, Number(t.value)) : t \in {t \in Tokens(mode) : t.type = "NUMBER"}}
        \cup {Spelling(<<t>>, Variable(t.value)) : t \in {t \in Tokens(mode) : t.type = "VARIABLE"}}

(* f(s), s between brackets, "t, s" in a term list, and "t, s" or "t | s" in a list. *)
Compounds(identifiers, lists) ==
    {Spelling(<<f, LParen>> \o s.tokens \o <<RParen>>, Compound(f.value, s.meaning)) :
        f \in identifiers, s \in lists}

Bracketed(inner) == {Spelling(<<LBracket>> \o s.tokens \o <<RBracket>>, s.meaning) : s \in inner}

JoinedTerms(terms, lists) ==
    {Spelling(t.tokens \o <<Comma>> \o s.tokens, <<t.meaning>> \o s.meaning) :
        t \in terms, s \in lists}

JoinedCells(terms, mark, tails) ==
    {Spelling(t.tokens \o <<mark>> \o s.tokens, ConsCell(t.meaning, s.meaning)) :
        t \in terms, s \in tails}

(***************************************************************************)
(* The spellings of length n of terms, of term lists t, ..., t and of what  *)
(* may stand between the brackets of a non-empty list, from a table of the  *)
(* shorter ones.                                                           *)
(***************************************************************************)
Shorter(table, kind, k) == IF k \in DOMAIN table THEN table[k][kind] ELSE {}

TermRow(table, n, mode) ==
    (IF n = 1 THEN AtomSpellings(mode) ELSE {})
        \cup (IF n = 2 THEN {Spelling(<<LBracket, RBracket>>, EmptyList)} ELSE {})
        \cup {Spelling(<<f, LParen, RParen>>, Compound(f.value, << >>)) :
                  f \in IF n = 3 THEN Identifiers(mode) ELSE {}}
        \cup Compounds(Identifiers(mode), Shorter(table, "items", n - 3))
        \cup Bracketed(Shorter(table, "inner", n - 2))

ItemsRow(terms, table, n) ==
    {Spelling(t.tokens, <<t.meaning>>) : t \in terms}
        \cup UNION {JoinedTerms(Shorter(table, "terms", k), Shorter(table, "items", n - 1 - k)) :
                        k \in 1..(n - 2)}

InnerRow(terms, table, n) ==
    {Spelling(t.tokens, ConsCell(t.meaning, EmptyList)) : t \in terms}
        \cup UNION {JoinedCells(Shorter(table, "terms", k), Pipe, Shorter(table, "terms", n - 1 - k))
                        \cup JoinedCells(Shorter(table, "terms", k), Comma, Shorter(table, "inner", n - 1 - k)) :
                        k \in 1..(n - 2)}

Row(table, n, mode) ==
    LET terms == TermRow(table, n, mode)
    IN  [terms |-> terms, items |-> ItemsRow(terms, table, n), inner |-> InnerRow(terms, table, n)]

(* The rows from 1 to N. *)
Table(N, mode) ==
    LET rows[n \in 0..N] ==
            IF n = 0 THEN << >>
            ELSE LET shorter == rows[n - 1] IN Append(shorter, Row(shorter, n, mode))
    IN  rows[N]

TermSpellings(N, mode) == LET table == Table(N, mode) IN UNION {table[n].terms : n \in 1..N}

(* What may stand between the parentheses of a fact of up to N tokens. *)
FactItems(N, mode) ==
    LET table == Table(N, mode)
    IN  {Spelling(<< >>, << >>)}
            \cup UNION {table[n].items \cup {Spelling(Append(s.tokens, Comma), s.meaning) : s \in table[n].items} :
                            n \in 1..(N - 3)}

FactsOf(identifiers, items) ==
    {Spelling(<<p, LParen>> \o l.tokens \o <<RParen>>, Literal(p.value, l.meaning)) :
        p \in identifiers, l \in items}

FactSpellings(N, mode) ==
    {s \in FactsOf(Identifiers(mode), FactItems(N, mode)) : Len(s.tokens) <= N}

================================================================================
