--------------------------------- MODULE Loader ---------------------------------
(***************************************************************************)
(* The text interface of KnowledgeBase: loadFromFile, which reads clauses   *)
(* line by line into the store, and query on a text.                        *)
(*                                                                         *)
(* A line is a text of Lexer; the neck, the period and the percent sign are *)
(* words of their own.  loadFromFile is synchronous; a step reads one line, *)
(* and a line is stored whole or not at all, but an exception leaves what   *)
(* the lines before it have stored.  The parser is a parameter (ParserOps). *)
(***************************************************************************)
EXTENDS KnowledgeBase, Lexer, Integers

CONSTANTS
    ParseFact(_, _),    \* QueryParser::parse of a text in a mode: << >> or <<fact>>
    Files,              \* the files a client may load: sequences of lines
    QueryTexts,         \* the queries a client may ask
    MaxLoads            \* bound on the files loaded

ASSUME MaxLoadsAssumption == MaxLoads \in Nat

VARIABLES
    load,   \* "none"; "reading": loadFromFile runs; how the last call ended:
            \* "loaded", or "failed" by an exception
    file,   \* the lines it has still to read
    loads,  \* number of files so far
    read    \* history: the lines that it has read without an exception

loaderVars == <<load, file, loads, read>>

LoaderInit == load = "none" /\ file = << >> /\ loads = 0 /\ read = << >>

--------------------------------------------------------------------------------
(* Lines *)

RuleMode == TRUE
QueryMode == FALSE

Neck == Word(<<":-">>)
Period == Word(<<".">>)

IsComment(line) == line # << >> /\ line[1].type = "WORD" /\ line[1].value[1] = "%"

IsSkipped(line) == line = << >> \/ IsComment(line)

(* Trailing blanks and then one period are removed; a line with nothing but *)
(* blanks that are not spaces or tabs is left alone.                        *)
Prepared(line) ==
    LET solid == {i \in DOMAIN line : ~IsBlank(line[i])}
        last == IF solid = {} THEN Len(line) ELSE Max(solid)
        kept == SubSeq(line, 1, last)
    IN  IF last > 0 /\ kept[last] = Period THEN Front(kept) ELSE kept

IsRule(line) == Contains(line, Neck)

NeckAt(line) == SelectInSeq(line, LAMBDA x : x = Neck)

HeadText(line) == SubSeq(line, 1, NeckAt(line) - 1)
BodyText(line) == SubSeq(line, NeckAt(line) + 1, Len(line))

(* A mutant: nothing is nested. *)
NestingNone(x, opening, closing) == 0

(* By how much a character changes a depth. *)
Nesting(x, opening, closing) ==
    CASE x = opening -> 1 [] x = closing -> -1 [] OTHER -> 0

(* A mutant: what was read is not cleared after a comma. *)
CutKeepsCurrent(body, counted) ==
    LET Read(split, x) ==
            LET depth == split.depth + Nesting(x, LParen, RParen) + Nesting(x, LBracket, RBracket)
            IN  IF x = Comma /\ depth = 0
                THEN [split EXCEPT !.goals = Append(@, split.current)]
                ELSE [depth |-> depth, goals |-> split.goals, current |-> Append(split.current, x)]
    IN  FoldLeft(Read, [depth |-> 0, goals |-> << >>, current |-> << >>], body)

(* The body cut at the commas where both depths are zero, up to the last.    *)
Cut(body, counted) ==
    LET Read(split, x) ==
            LET parens == split.parens + Nesting(x, LParen, RParen)
                brackets == split.brackets
                                + IF counted THEN Nesting(x, LBracket, RBracket) ELSE 0
            IN  IF x = Comma /\ parens = 0 /\ brackets = 0
                THEN [split EXCEPT !.goals = Append(@, split.current), !.current = << >>]
                ELSE [parens |-> parens, brackets |-> brackets, goals |-> split.goals,
                      current |-> Append(split.current, x)]
    IN  FoldLeft(Read, [parens |-> 0, brackets |-> 0, goals |-> << >>, current |-> << >>], body)

NotEmpty(text) == text # << >>

(***************************************************************************)
(* The texts of the goals of a body; empty ones are dropped.  The REPL has  *)
(* a copy of this loop that does not count brackets.                       *)
(***************************************************************************)
GoalTexts(body, counted) ==
    SelectSeq(Append(Cut(body, counted).goals, Cut(body, counted).current), NotEmpty)

(* All texts as facts, or << >> if one of them cannot be parsed. *)
ParseAll(texts) ==
    IF \E i \in DOMAIN texts : ParseFact(texts[i], RuleMode) = << >> THEN << >>
    ELSE << [i \in DOMAIN texts |-> ParseFact(texts[i], RuleMode)[1]] >>

(* A rule from its text: << >> or <<rule>>. *)
ParseRule(text, counted) ==
    LET head == ParseFact(HeadText(text), RuleMode)
        body == ParseAll(GoalTexts(BodyText(text), counted))
    IN  IF head = << >> \/ body = << >> THEN << >>
        ELSE << [head |-> head[1], body |-> body[1]] >>

--------------------------------------------------------------------------------
(* addFact and addRule, with what they do to what they do not accept. *)

StoreFact(f) == IF f.predicate # << >> THEN AddFact(f) ELSE UNCHANGED vars

(* A mutant: a rule without a body is stored. *)
StoreRuleUnchecked(r) ==
    /\ rules' = Append(rules, r)
    /\ asked' = << >> /\ answers' = << >>
    /\ UNCHANGED <<facts, varCounter, pc, evaluation, queries>>

StoreRule(r) == IF IsValid(r) THEN AddRule(r) ELSE UNCHANGED vars

--------------------------------------------------------------------------------
(* loadFromFile *)

Calling == pc = "client" /\ load # "reading"

Load(lines) ==
    /\ Calling
    /\ loads < MaxLoads
    /\ loads' = loads + 1
    /\ load' = "reading" /\ file' = lines
    /\ UNCHANGED <<vars, read>>

CannotOpen ==
    /\ Calling
    /\ loads < MaxLoads
    /\ loads' = loads + 1
    /\ load' = "failed" /\ file' = << >>
    /\ UNCHANGED <<vars, read>>

AtLine == load = "reading" /\ file # << >>

Line == Prepared(Head(file))

NextLine ==
    /\ file' = Tail(file)
    /\ read' = Append(read, Head(file))
    /\ UNCHANGED <<load, loads>>

SkipLine == AtLine /\ IsSkipped(Head(file)) /\ NextLine /\ UNCHANGED vars

FactLine ==
    /\ AtLine /\ ~IsSkipped(Head(file)) /\ ~IsRule(Line)
    /\ ParseFact(Line, RuleMode) # << >>
    /\ StoreFact(ParseFact(Line, RuleMode)[1])
    /\ NextLine

RuleLine ==
    /\ AtLine /\ ~IsSkipped(Head(file)) /\ IsRule(Line)
    /\ ParseRule(Line, TRUE) # << >>
    /\ StoreRule(ParseRule(Line, TRUE)[1])
    /\ NextLine

IsBad(line) == IF IsRule(line) THEN ParseRule(line, TRUE) = << >> ELSE ParseFact(line, RuleMode) = << >>

(* A mutant: the line is reported and loading goes on. *)
LineReported ==
    /\ AtLine /\ ~IsSkipped(Head(file)) /\ IsBad(Line)
    /\ NextLine
    /\ UNCHANGED vars

(* An exception: the lines before this one have been stored. *)
LineFails ==
    /\ AtLine /\ ~IsSkipped(Head(file)) /\ IsBad(Line)
    /\ load' = "failed" /\ file' = << >>
    /\ UNCHANGED <<vars, loads, read>>

EndOfFile ==
    /\ load = "reading" /\ file = << >>
    /\ load' = "loaded"
    /\ UNCHANGED <<vars, file, loads, read>>

ReadFile == SkipLine \/ FactLine \/ RuleLine \/ LineFails \/ EndOfFile

--------------------------------------------------------------------------------
(* query on a text; if it cannot be parsed the caller gets an exception. *)

CanAsk(text) == ParseFact(text, QueryMode) # << >>

QueryText(text) ==
    /\ Calling
    /\ CanAsk(text)
    /\ Query(ParseFact(text, QueryMode)[1])
    /\ UNCHANGED loaderVars

LoaderNext ==
    \/ \E lines \in Files : Load(lines)
    \/ CannotOpen
    \/ ReadFile
    \/ \E text \in QueryTexts : QueryText(text)
    \/ Evaluate /\ UNCHANGED loaderVars

(* loadFromFile and query run on the caller's thread to their end. *)
LoaderSpec ==
    /\ Init /\ LoaderInit
    /\ [][LoaderNext]_<<vars, loaderVars>>
    /\ WF_<<vars, loaderVars>>(ReadFile) /\ Fairness

================================================================================
