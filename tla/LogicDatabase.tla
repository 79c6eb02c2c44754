----------------------------- MODULE LogicDatabase -----------------------------
(***************************************************************************)
(* What a knowledge base promises whoever uses it.  There is a set of facts *)
(* and a set of rules, which grow, and a question is answered in one step:  *)
(* with results that all follow from the clauses and that miss nothing the  *)
(* clauses derive.  In which order clauses were added, which names a rule   *)
(* is given, which goals are tried, cut off or found to fail is not to be   *)
(* seen; all that may come between question and answer is a stack overflow. *)
(***************************************************************************)
EXTENDS Naturals

CONSTANTS
    Facts, Rules, Questions,
    Worlds,             \* say which literals are true and what variables stand for
    TrueIn(_, _),       \* whether a world makes a literal true
    RuleTrue(_, _),     \* whether a rule is true in it, under whatever names
    Solves(_, _),       \* whether it solves a result
    Valuations,         \* say what variables stand for
    Meaning(_, _),      \* the ground literal that a literal then is
    Derivations,        \* functions from ground literals to heights
    Matches(_, _, _),   \* whether a valuation of a question is one under a result
    Said(_, _)          \* what a client is told of a result of a question: a set

VARIABLES
    known, implied,     \* the facts and the rules
    status,             \* "ready", "asked", "found" or "crashed"
    question,           \* the last question, as <<goal>>; << >> once the clauses have changed
    results,            \* what was found and is about to be told
    answers             \* what was told

databaseVars == <<known, implied, status, question, results, answers>>

DatabaseInit ==
    /\ known = {} /\ implied = {}
    /\ status = "ready"
    /\ question = << >>
    /\ results = {} /\ answers = {}

Tell ==
    /\ status = "ready"
    /\ \/ \E f \in Facts : known' = known \cup {f} /\ UNCHANGED implied
       \/ \E r \in Rules : implied' = implied \cup {r} /\ UNCHANGED known
    /\ question' = << >> /\ answers' = {}
    /\ UNCHANGED <<status, results>>

Ask ==
    /\ status = "ready"
    /\ \E q \in Questions : question' = <<q>>
    /\ status' = "asked"
    /\ answers' = {}
    /\ UNCHANGED <<known, implied, results>>

--------------------------------------------------------------------------------
ClausesTrue(w) == (\A f \in known : TrueIn(w, f)) /\ (\A r \in implied : RuleTrue(w, r))

(* Wherever the clauses are true and the result is solved, the question is true. *)
Follows(result) ==
    \A w \in Worlds : ClausesTrue(w) /\ Solves(w, result) => TrueIn(w, question[1])

(* A fact without variables, or a rule and literals of smaller height. *)
GivenBy(l) == \E f \in known : \A v \in Valuations : Meaning(v, f) = l

InferredFrom(m, l) ==
    \E r \in implied : \E v \in Valuations :
        /\ Meaning(v, r.head) = l
        /\ \A j \in DOMAIN r.body :
               Meaning(v, r.body[j]) \in DOMAIN m /\ m[Meaning(v, r.body[j])] < m[l]

Derived(m) == \A l \in DOMAIN m : GivenBy(l) \/ InferredFrom(m, l)

(* What is derived and is an instance of the question is one under a result. *)
Exhausts(found) ==
    \A m \in Derivations : Derived(m) =>
        \A v \in Valuations : Meaning(v, question[1]) \in DOMAIN m =>
            \E c \in found : Matches(v, question[1], c)

Find ==
    /\ status = "asked"
    /\ status' = "found"
    /\ \A c \in results' : Follows(c)
    /\ Exhausts(results')
    /\ UNCHANGED <<known, implied, question, answers>>

Crash ==
    /\ status = "asked"
    /\ status' = "crashed"
    /\ UNCHANGED <<known, implied, question, results, answers>>

Reply ==
    /\ status = "found"
    /\ status' = "ready"
    /\ answers' = UNION {Said(question[1], c) : c \in results}
    /\ results' = {}
    /\ UNCHANGED <<known, implied, question>>

DatabaseNext == Tell \/ Ask \/ Find \/ Crash \/ Reply

DatabaseSpec == DatabaseInit /\ [][DatabaseNext]_databaseVars

================================================================================
