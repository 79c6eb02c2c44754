-------------------------------- MODULE MCBodies --------------------------------
(***************************************************************************)
(* Rule lines with every body that can be made of short goals, and with     *)
(* those bodies after one word or mark was dropped or written twice.        *)
(***************************************************************************)
EXTENDS Loader, TermOps, Grammar, ParserOps

CONSTANTS
    MaxGoal,    \* tokens of a goal, in bodies of two goals
    MaxShort    \* tokens of a goal, in bodies of three

MCWords == {<<"q">>, <<"X">>}

Unread(tokens) == [i \in DOMAIN tokens |-> IF tokens[i] \in Punctuation THEN tokens[i]
                                           ELSE Word(tokens[i].value)]

HeadOf == Literal(<<"q">>, << >>)
RuleLineOf(body) == <<Word(<<"q">>), LParen, RParen, Neck>> \o body

(* A body: its text and its goals. *)
Body(text, goals) == [text |-> text, goals |-> goals]

GoalBodies(n) == {Body(Unread(s.tokens), <<s.meaning>>) : s \in FactSpellings(n, RuleMode)}

Both(first, second) == Body(first.text \o <<Comma>> \o second.text, first.goals \o second.goals)

Pairings(n) == {Both(g, h) : g, h \in GoalBodies(n)}

(* An empty goal is passed over. *)
WithGaps(bodies) == {Body(<<Comma>> \o x.text \o <<Comma>>, x.goals) : x \in bodies}

Bodies ==
    GoalBodies(MaxGoal) \cup Pairings(MaxGoal)
        \cup {Both(g, x) : g \in GoalBodies(MaxShort), x \in Pairings(MaxShort)}
        \cup WithGaps(Pairings(MaxShort))

WholeFiles == {<<RuleLineOf(x.text)>> : x \in Bodies}

Meanings == {<<RuleLineOf(x.text), Rule(HeadOf, x.goals)>> : x \in Bodies}

(***************************************************************************)
(* A body that is written as goals separated by commas is stored, as those  *)
(* goals: no comma inside a compound or a list, however nested, cuts a goal *)
(* in two, and no goal is lost.                                            *)
(***************************************************************************)
BodiesKept ==
    [][AtLine /\ file \in WholeFiles =>
           Len(rules') = 1 /\ <<Head(file), rules'[1]>> \in Meanings]_<<vars, loaderVars>>

--------------------------------------------------------------------------------
(* Bodies of two goals with one mistake. *)

Dropped(text) == {RemoveAt(text, i) : i \in DOMAIN text}
Doubled(text) == {InsertAt(text, i, text[i]) : i \in DOMAIN text}

GarbledBodies == UNION {Dropped(x.text) \cup Doubled(x.text) : x \in Pairings(MaxShort)}

GarbledFiles == {<<RuleLineOf(text)>> : text \in GarbledBodies}

(* Files without a rule: a fact, a blank line. *)
OtherFiles == {<<SubSeq(RuleLineOf(<< >>), 1, 3)>>, << << >> >>}

BodyFiles == WholeFiles \cup GarbledFiles \cup OtherFiles

(* One file is loaded, and nothing is asked. *)
BodiesNext == (\E lines \in Files : Load(lines)) \/ ReadFile

BodiesInit == Init /\ LoaderInit

BodiesSpec ==
    /\ BodiesInit
    /\ [][BodiesNext]_<<vars, loaderVars>>
    /\ WF_<<vars, loaderVars>>(ReadFile)

GoalSpellings == {Body(Unread(s.tokens), s.meaning) : s \in FactSpellings(MaxGoal, RuleMode)}

(* The goals are spelled by text, from place i on, one after the other. *)
RECURSIVE SpelledFrom(_, _, _)
SpelledFrom(goals, text, i) ==
    \/ goals = << >>
    \/ \E j \in i..Len(text) : \E s \in GoalSpellings :
           /\ s.goals = Head(goals)
           /\ j + Len(s.text) - 1 <= Len(text)
           /\ SubSeq(text, j, j + Len(s.text) - 1) = s.text
           /\ SpelledFrom(Tail(goals), text, j + Len(s.text))

(***************************************************************************)
(* Whatever a body looks like, the goals that are stored are written in it, *)
(* one after the other: none is made of parts of two, none is read twice.   *)
(***************************************************************************)
GoalsAreWritten ==
    \A i \in DOMAIN rules : SpelledFrom(rules[i].body, BodyText(Prepared(read[i])), 1)

==============================================================================
