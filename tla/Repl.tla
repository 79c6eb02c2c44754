---------------------------------- MODULE Repl ----------------------------------
(***************************************************************************)
(* The main loop of examples/repl.cpp over one KnowledgeBase.               *)
(*                                                                         *)
(* A command is what the user typed after its keyword, trimmed.  What the   *)
(* REPL prints is abstracted to `report'.  An exception of a command is      *)
(* caught and reported, and the loop goes on.  The commands that only print *)
(* (help, facts, rules, a blank or unknown line) change nothing but the     *)
(* report.  The engine of line 40 is never used.                           *)
(***************************************************************************)
EXTENDS Loader

CONSTANTS
    Assertions,     \* texts a user may assert
    RuleTexts,      \* texts a user may enter as rules
    MaxCommands     \* bound on assert and rule commands

ASSUME MaxCommandsAssumption == MaxCommands \in Nat

(* What may be typed gives clauses that are inputs of KnowledgeBase. *)
ASSUME CommandsAssumption ==
    /\ \A text \in Assertions :
           ParseFact(text, RuleMode) # << >> => ParseFact(text, RuleMode)[1] \in FactInputs
    /\ \A text \in RuleTexts :
           IsRule(text) /\ ParseRule(text, FALSE) # << >> => ParseRule(text, FALSE)[1] \in RuleInputs

VARIABLES
    report,     \* what was printed last: "" at a command that still runs; "ready";
                \* "asserted", "added", "loaded"; "syntax" (a rule without a neck),
                \* "error" (an exception); "true", "false", "bindings"; "shown";
                \* "bye" once the loop has ended
    commands,   \* number of assert and rule commands so far
    typed       \* history: the lines of a file that would say what the commands said

replVars == <<report, commands, typed>>
allVars == <<vars, loaderVars, replVars>>

(* The initial file is loaded before the loop; the user may name none. *)
ReplInit == Init /\ LoaderInit /\ report = "ready" /\ commands = 0 /\ typed = << >>

Waiting == report \notin {"", "bye"}

Quiet == UNCHANGED <<vars, loaderVars>>

--------------------------------------------------------------------------------
(* load *)

LoadCommand(lines) ==
    /\ Waiting
    /\ Load(lines) \/ CannotOpen
    /\ report' = (IF load' = "failed" THEN "error" ELSE "")
    /\ UNCHANGED <<commands, typed>>

LoadGoesOn ==
    /\ ReadFile
    /\ report' = (CASE load' = "loaded" -> "loaded" [] load' = "failed" -> "error" [] OTHER -> "")
    /\ typed' = (IF read' # read THEN Append(typed, Head(file)) ELSE typed)
    /\ UNCHANGED commands

--------------------------------------------------------------------------------
(* assert *)

Counted == Waiting /\ commands < MaxCommands /\ commands' = commands + 1

AssertFact(text) ==
    /\ Counted
    /\ ParseFact(text, RuleMode) # << >>
    /\ StoreFact(ParseFact(text, RuleMode)[1])
    /\ report' = "asserted"
    /\ typed' = Append(typed, text)
    /\ UNCHANGED loaderVars

AssertUnparsable(text) ==
    /\ Counted
    /\ ParseFact(text, RuleMode) = << >>
    /\ report' = "error"
    /\ Quiet /\ UNCHANGED typed

--------------------------------------------------------------------------------
(* rule *)

NoNeck(text) ==
    /\ Counted
    /\ ~IsRule(text)
    /\ report' = "syntax"
    /\ Quiet /\ UNCHANGED typed

(* A mutant: the goals before the error are kept. *)
AddRuleEarly(text) ==
    /\ Counted
    /\ IsRule(text)
    /\ LET head == ParseFact(HeadText(text), RuleMode)
           goals == SelectSeq(GoalTexts(BodyText(text), FALSE),
                              LAMBDA goal : ParseFact(goal, RuleMode) # << >>)
       IN  /\ head # << >>
           /\ StoreRule([head |-> head[1], body |-> ParseAll(goals)[1]])
    /\ report' = IF ParseRule(text, FALSE) = << >> THEN "error" ELSE "added"
    /\ typed' = IF ParseRule(text, FALSE) = << >> THEN typed ELSE Append(typed, text)
    /\ UNCHANGED loaderVars

(* "Added rule" is printed whether or not addRule accepts the rule. *)
EnterRule(text) ==
    /\ Counted
    /\ IsRule(text)
    /\ ParseRule(text, FALSE) # << >>
    /\ StoreRule(ParseRule(text, FALSE)[1])
    /\ report' = "added"
    /\ typed' = Append(typed, text)
    /\ UNCHANGED loaderVars

RuleUnparsable(text) ==
    /\ Counted
    /\ IsRule(text)
    /\ ParseRule(text, FALSE) = << >>
    /\ report' = "error"
    /\ Quiet /\ UNCHANGED typed

--------------------------------------------------------------------------------
(* ?- *)

Ask(text) ==
    /\ Waiting
    /\ QueryText(text)
    /\ report' = ""
    /\ UNCHANGED <<commands, typed>>

AskFails(text) ==
    /\ Waiting
    /\ ~CanAsk(text)
    /\ report' = "error"
    /\ Quiet /\ UNCHANGED <<commands, typed>>

(* A line for every answer; it is "true." if the answer binds nothing. *)
Printed(results) ==
    CASE results = << >> -> "false"
      [] results # << >> /\ results[1] = NoBindingSet -> "true"
      [] OTHER -> "bindings"

QueryGoesOn ==
    /\ Evaluate
    /\ report' = IF pc' = "client" THEN Printed(answers') ELSE ""
    /\ UNCHANGED <<loaderVars, commands, typed>>

--------------------------------------------------------------------------------

Show == Waiting /\ report' = "shown" /\ Quiet /\ UNCHANGED <<commands, typed>>

Quit == Waiting /\ report' = "bye" /\ Quiet /\ UNCHANGED <<commands, typed>>

ReplNext ==
    \/ \E lines \in Files : LoadCommand(lines)
    \/ LoadGoesOn
    \/ \E text \in Assertions : AssertFact(text) \/ AssertUnparsable(text)
    \/ \E text \in RuleTexts : NoNeck(text) \/ EnterRule(text) \/ RuleUnparsable(text)
    \/ \E text \in QueryTexts : Ask(text) \/ AskFails(text)
    \/ QueryGoesOn
    \/ Show \/ Quit

ReplSpec == ReplInit /\ [][ReplNext]_allVars /\ WF_allVars(LoadGoesOn) /\ Fairness

================================================================================
