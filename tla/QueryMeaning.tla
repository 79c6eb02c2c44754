----------------------------- MODULE QueryMeaning -----------------------------
(***************************************************************************)
(* What the answers of query() must have to do with the clauses stored.     *)
(***************************************************************************)
EXTENDS KnowledgeBase, Herbrand

CONSTANT Individuals    \* the ground terms that variables stand for

Answered == pc = "client" /\ asked # << >>

Model == LeastModel(ToSet(facts), ToSet(rules), Individuals)

(* The ground literals that an answer asserts. *)
Asserted(answer) == GroundInstances(LiteralInstance(asked[1], answer), Individuals)

(***************************************************************************)
(* Everything an answer asserts follows from the facts and rules.           *)
(***************************************************************************)
Sound == Answered => UNION {Asserted(answers[i]) : i \in DOMAIN answers} \subseteq Model

(***************************************************************************)
(* Every instance of the query that follows from the facts and rules is     *)
(* covered by an answer, whatever the order of the clauses, and although    *)
(* goals already under evaluation are cut off.                             *)
(***************************************************************************)
Complete ==
    Answered =>
        \A l \in GroundInstances(asked[1], Individuals) \cap Model :
            \E i \in DOMAIN answers : l \in Asserted(answers[i])

================================================================================
