---------------------------- MODULE LoaderRefinement ----------------------------
(***************************************************************************)
(* Loader, seen from the clause store and the evaluator, is KnowledgeBase   *)
(* with some client.                                                       *)
(***************************************************************************)
EXTENDS Loader

(***************************************************************************)
(* The clauses and goals that the texts give are inputs of KnowledgeBase.   *)
(***************************************************************************)
AllLines == UNION {ToSet(lines) : lines \in Files}

FactInputsOK(line) ==
    ~IsRule(line) /\ ParseFact(line, RuleMode) # << >> => ParseFact(line, RuleMode)[1] \in FactInputs

RuleInputsOK(line) ==
    IsRule(line) /\ ParseRule(line, TRUE) # << >> => ParseRule(line, TRUE)[1] \in RuleInputs

ASSUME TextsAssumption ==
    /\ \A lines \in Files : lines \in Seq(AllLines)
    /\ \A line \in AllLines :
           ~IsSkipped(line) => FactInputsOK(Prepared(line)) /\ RuleInputsOK(Prepared(line))
    /\ \A text \in QueryTexts : CanAsk(text) => ParseFact(text, QueryMode)[1] \in QueryInputs

(***************************************************************************)
(* Loading and asking by text does nothing to the clause store and the      *)
(* evaluator but what KnowledgeBase lets its clients do: no line, however   *)
(* it is written, stores an invalid rule, changes a clause or disturbs a    *)
(* query, and nothing is loaded while one runs.                            *)
(***************************************************************************)
DrivesKnowledgeBase == Init /\ [][Next]_vars

LoaderTypeOK ==
    /\ load \in {"none", "reading", "loaded", "failed"}
    /\ file \in Seq(AllLines) /\ read \in Seq(AllLines)
    /\ loads \in 0..MaxLoads
    /\ load = "reading" => pc = "client"

================================================================================
