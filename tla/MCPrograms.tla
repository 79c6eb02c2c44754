------------------------------- MODULE MCPrograms -------------------------------
(***************************************************************************)
(* What drives a knowledge base by text, side by side: a client that loads  *)
(* files in many layouts, one that loads a program in parts and queries it, *)
(* sessions of the REPL, and runs of simple_query.                         *)
(***************************************************************************)
EXTENDS Repl, SimpleQuery, MCLoader

VARIABLE running    \* which of them a behaviour is about

(* What is typed into the REPL, well and badly. *)
MCAssertions == {FactLineOf(e(a, b)), WrittenFact(e(b, c), RuleMode), <<Word(<<"e">>), LParen, Word(<<"a">>)>>}

MCRuleTexts ==
    {WrittenRule(Base), RuleLineOf(Step), RuleLineOf(Nested), WrittenRule(NoBody),
     WrittenFact(e(a, b), RuleMode),
     WrittenRule(Base) \o <<Comma, Word(<<"e">>), LParen, Word(<<"X">>)>>}

SessionFiles == {<<FactLineOf(e(a, b)), <<Period>>, RuleLineOf(Base)>>, <<RuleLineOf(Base), FactLineOf(e(b, c))>>}

MainFiles == Orders({FactLineOf(e(a, b)), FactLineOf(e(b, c)), RuleLineOf(Base), RuleLineOf(Step)})
                 \cup Orders({FactLineOf(e(a, b)), RuleLineOf(Base), <<Period>>})
                 \cup Orders({FactLineOf(e(b, c)), <<Word(<<"e">>)>>})

MCQueryTexts == ProgramQueries \cup {<<Word(<<"p">>)>>}

Uses(files, maxLoads, maxQueries) == [files |-> files, loads |-> maxLoads, queries |-> maxQueries]

Usages ==
    [layouts      |-> Uses(MCFiles, 2, 0),
     reloads      |-> Uses(ProgramFiles, 2, 2),
     repl         |-> Uses(SessionFiles, 1, 1),
     simple_query |-> Uses(MainFiles, 1, 1)]

AllFiles == UNION {Usages[u].files : u \in DOMAIN Usages}

Within(usage) ==
    /\ loads <= usage.loads /\ queries <= usage.queries
    /\ file # << >> => file \in UNION {{SubSeq(lines, i, Len(lines)) : i \in DOMAIN lines} : lines \in usage.files}

ProgramsNext ==
    \/ running \in {"layouts", "reloads"} /\ LoaderNext /\ UNCHANGED <<replVars, mainVars>>
    \/ running = "repl" /\ ReplNext /\ UNCHANGED mainVars
    \/ running = "simple_query" /\ MainNext /\ UNCHANGED replVars

ProgramsInit == ReplInit /\ MainInit /\ running \in DOMAIN Usages

ProgramsSpec ==
    /\ ProgramsInit
    /\ [][UNCHANGED running /\ ProgramsNext /\ Within(Usages[running])']_<<allVars, mainVars, running>>

(* All that has been said so far, as the lines of a file. *)
SaidSoFar == IF running = "repl" THEN typed ELSE read

(***************************************************************************)
(* After any number of loads and commands, those included that an exception *)
(* has ended, the store holds the clauses that were written so far, each    *)
(* once for every time it was read, in that order, and nothing else; no     *)
(* line that cannot be parsed is passed over, and the copy of the splitter  *)
(* that the REPL has reads rules as the loader does.                       *)
(***************************************************************************)
StoreIsWhatIsWritten == StoreSays(SaidSoFar)

(* What the last query asks of the least model of what was written. *)
TrueInstances == GroundInstances(AskedText, MCIndividuals) \cap Following(SaidSoFar)

(***************************************************************************)
(* From text to answers: what the answers to a query assert is exactly what *)
(* its text asks of the least model of the text read so far, also after a   *)
(* load that failed half way and was done again.                           *)
(***************************************************************************)
AnswersWhatIsWritten ==
    Answered => UNION {Asserted(answers[i]) : i \in DOMAIN answers} = TrueInstances

(***************************************************************************)
(* What the REPL prints for a query is the truth: "false." if no instance   *)
(* of it follows from what was typed and loaded, "true." or bindings if one *)
(* does.                                                                   *)
(***************************************************************************)
PrintsTheTruth ==
    report \in {"true", "false", "bindings"} =>
        /\ report = "false" <=> TrueInstances = {}
        /\ report = "true" => TrueInstances = {AskedText}

==============================================================================
