---------------------------- MODULE ConstraintStore ----------------------------
(***************************************************************************)
(* What class Unifier promises a derivation, whatever terms and bindings    *)
(* are: a set of the worlds that are still possible.  Every question        *)
(* accepted leaves exactly the worlds in which it holds, and a question is  *)
(* only refused if it holds in none of those that are left.                 *)
(***************************************************************************)

CONSTANTS
    Worlds,         \* the ways the variables may be understood
    Questions,      \* what may be asked to be unified
    Holds(_, _)     \* whether a question holds in a world

VARIABLES
    worlds,     \* those that the derivation has left
    question,   \* the last question
    status,     \* "idle", or "unify" while it is open
    answer      \* "none" yet, "bindings" or "nullopt"

storeVars == <<worlds, question, status, answer>>

StoreInit ==
    /\ worlds = Worlds
    /\ question \in Questions
    /\ status = "idle"
    /\ answer = "none"

Ask ==
    /\ status = "idle"
    /\ status' = "unify"
    /\ question' \in Questions
    /\ answer' = "none"
    /\ UNCHANGED worlds

Possible(q) == \E w \in worlds : Holds(w, q)

RefuseAtOnce ==
    /\ status = "idle"
    /\ UNCHANGED status
    /\ question' \in Questions
    /\ answer' = "nullopt"
    /\ ~Possible(question')
    /\ UNCHANGED worlds

Accept ==
    /\ status = "unify"
    /\ status' = "idle"
    /\ answer' = "bindings"
    /\ worlds' = {w \in worlds : Holds(w, question)}
    /\ UNCHANGED question

Refuse ==
    /\ status = "unify"
    /\ ~Possible(question)
    /\ status' = "idle"
    /\ answer' = "nullopt"
    /\ UNCHANGED <<worlds, question>>

StoreNext == Ask \/ RefuseAtOnce \/ Accept \/ Refuse

StoreSpec == StoreInit /\ [][StoreNext]_storeVars

================================================================================
