------------------------------ MODULE Unification ------------------------------
(***************************************************************************)
(* Unifier::unify as a step machine: the steps of UnifierSteps, run from    *)
(* the call to its return, and call after call.                            *)
(*                                                                         *)
(* The caller (KnowledgeBase::evaluateGoal) keeps the binding set it passed *)
(* in by const reference; it goes on with the returned set on success and   *)
(* with its own on nullopt.  `held' is that set, along one branch of a      *)
(* derivation: it grows by every successful call.                          *)
(***************************************************************************)
EXTENDS Interpretations

CONSTANTS
    Literals,   \* the goals and facts that are unified, over Universe
    Interp,     \* interpretations of Universe (see IsInterpretation)
    MaxCalls    \* bound on the calls of Unifier::unify along a branch

ASSUME LiteralsAssumption ==
    /\ Literals # {}
    /\ \A l \in Literals : l = Literal(l.predicate, l.terms) /\ l.terms \in Seq(Universe)

ASSUME InterpAssumption == \A I \in Interp : IsInterpretation(I)

ASSUME MaxCallsAssumption == MaxCalls \in Nat

VARIABLES
    held,       \* the binding set of the caller
    goal, fact, \* the arguments of the current or last call
    pc,         \* "idle": no call is active; "unify": a call is running
    pending,    \* the pairs the call has still to unify, in order
    bindings,   \* the binding set the call has built so far
    result,     \* what the last call returned: "none" yet, "bindings" or "nullopt"
    accepted,   \* history: the <<goal, fact>> pairs of the successful calls
    calls       \* number of calls so far

(* What goal and fact hold before the first call; nothing reads it. *)
AnyLiteral == CHOOSE l \in Literals : TRUE

vars == <<held, goal, fact, pc, pending, bindings, result, accepted, calls>>

Init ==
    /\ held = NoBindings
    /\ goal = AnyLiteral /\ fact = AnyLiteral
    /\ pc = "idle"
    /\ pending = << >>
    /\ bindings = NoBindings
    /\ result = "none"
    /\ accepted = {}
    /\ calls = 0

(***************************************************************************)
(* Unifier::unify and the head of unifyTerms.                              *)
(***************************************************************************)
Call(g, f) ==
    /\ pc = "idle"
    /\ calls < MaxCalls
    /\ calls' = calls + 1
    /\ goal' = g
    /\ fact' = f
    /\ \/ /\ SameSignature(g, f)
          /\ pc' = "unify"
          /\ pending' = Pairs(g.terms, f.terms)
          /\ bindings' = held
          /\ result' = "none"
       \/ /\ ~SameSignature(g, f)
          /\ result' = "nullopt"
          /\ UNCHANGED <<pc, pending, bindings>>
    /\ UNCHANGED <<held, accepted>>

--------------------------------------------------------------------------------
(* One activation after the other. *)

Running == pc = "unify" /\ UNCHANGED <<held, goal, fact, pc, result, accepted, calls>>

ReturnNullopt ==
    /\ pc' = "idle"
    /\ result' = "nullopt"
    /\ pending' = << >>
    /\ bindings' = held
    /\ UNCHANGED <<held, goal, fact, accepted, calls>>

Matches == Running /\ Match(pending, bindings, pending', bindings')
FollowsVar == Running /\ FollowVar(pending, bindings, pending', bindings')
FollowsOther == Running /\ FollowOther(pending, bindings, pending', bindings')
Binds == Running /\ Bind(pending, bindings, pending', bindings')
Decomposes == Running /\ Decompose(pending, bindings, pending', bindings')

FailsOccurs == pc = "unify" /\ FailOccurs(pending, bindings) /\ ReturnNullopt
Clashes == pc = "unify" /\ Clash(pending) /\ ReturnNullopt

(* A mutant: the caller goes on with the bindings it had. *)
ReturnUnheeded ==
    /\ pc = "unify"
    /\ pending = << >>
    /\ pc' = "idle"
    /\ result' = "bindings"
    /\ accepted' = accepted \cup {<<goal, fact>>}
    /\ UNCHANGED <<held, goal, fact, pending, bindings, calls>>

Return ==
    /\ pc = "unify"
    /\ pending = << >>
    /\ pc' = "idle"
    /\ result' = "bindings"
    /\ held' = bindings
    /\ accepted' = accepted \cup {<<goal, fact>>}
    /\ UNCHANGED <<goal, fact, pending, bindings, calls>>

Step == Matches \/ FollowsVar \/ FollowsOther \/ FailsOccurs \/ Binds \/ Decomposes \/ Clashes \/ Return

Next == Step \/ \E g, f \in Literals : Call(g, f)

(***************************************************************************)
(* The call is synchronous: the thread that made it runs it to its end.     *)
(***************************************************************************)
Fairness == WF_vars(Step)

Spec == Init /\ [][Next]_vars /\ Fairness

--------------------------------------------------------------------------------
(* Properties *)

TypeOK ==
    /\ held \in BindingSet
    /\ goal \in Literals /\ fact \in Literals
    /\ pc \in {"idle", "unify"}
    /\ pending \in Seq(Universe \X Universe)
    /\ bindings \in BindingSet
    /\ result \in {"none", "bindings", "nullopt"}
    /\ accepted \subseteq Literals \X Literals
    /\ calls \in 0..MaxCalls
    /\ pc = "unify" => SameSignature(goal, fact)

(***************************************************************************)
(* No binding set ever leads from a variable back to itself.  resolveTerm   *)
(* and occursCheck follow bindings without a visited set, so they end only  *)
(* because of this; the occurs check of unifyVariable is what must keep it, *)
(* over a whole sequence of calls.                                         *)
(***************************************************************************)
BindingsAcyclic == Acyclic(held) /\ Acyclic(bindings)

(***************************************************************************)
(* While a call runs, the bindings built and the pairs left have exactly    *)
(* the solutions that the caller's bindings and the two literals have: no   *)
(* step loses a solution and none admits a new one.                         *)
(***************************************************************************)
SolutionsPreserved ==
    pc = "unify" =>
        \A I \in Interp :
            SolvesBindings(I, bindings) /\ SolvesPairs(I, pending)
                <=> SolvesBindings(I, held) /\ Unifies(I, goal, fact)

(***************************************************************************)
(* The bindings the caller ends up with have exactly the solutions of all   *)
(* the goal-fact pairs that were unified on the way: the returned set is a  *)
(* unifier, and a most general one.                                        *)
(***************************************************************************)
MostGeneral ==
    \A I \in Interp :
        SolvesBindings(I, held) <=> \A e \in accepted : Unifies(I, e[1], e[2])

(***************************************************************************)
(* nullopt is only returned when goal and fact have no common instance      *)
(* under the bindings of the caller.                                       *)
(***************************************************************************)
NulloptIsRight ==
    result = "nullopt" =>
        \A I \in Interp : ~(SolvesBindings(I, held) /\ Unifies(I, goal, fact))

(***************************************************************************)
(* No call undoes or overwrites a binding the caller had, even though       *)
(* BindingSet::add would overwrite silently.                               *)
(***************************************************************************)
BindingsOnlyGrow ==
    [][\A v \in DOMAIN held : v \in DOMAIN held' /\ held'[v] = held[v]]_vars

Given(C) == BindsWithin(held, C) /\ TermsWithin(goal, C) /\ TermsWithin(fact, C)

(***************************************************************************)
(* Unification makes no terms and draws no names: what a successful call    *)
(* adds to the caller's bindings lies in every set, closed under arguments, *)
(* that holds those bindings and the terms of the two literals.             *)
(***************************************************************************)
KeepsToTheGiven ==
    [][\A C \in SUBSET Universe : ArgsClosed(C) /\ Given(C) => BindsWithin(held', C)]_vars

(***************************************************************************)
(* Every call returns: following bound variables and decomposing terms ends. *)
(***************************************************************************)
CallsReturn == pc = "unify" ~> pc = "idle"

================================================================================
