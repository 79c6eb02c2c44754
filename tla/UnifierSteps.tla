----------------------------- MODULE UnifierSteps -----------------------------
(***************************************************************************)
(* What the recursion behind Unifier::unify does, one activation at a time. *)
(*                                                                         *)
(* unifyTerms walks two argument vectors, calls unifyImpl on each pair and  *)
(* threads the binding set through; unifyImpl calls unifyVariable, itself   *)
(* on the arguments of compounds, or itself on the head and the tail of     *)
(* lists.  Here the pairs the recursion has still to visit are a sequence   *)
(* p, leftmost pair first, and b is the binding set built so far; a step    *)
(* leads from p and b to q and c, and is what one activation of unifyImpl   *)
(* and unifyVariable does before it recurses or returns.  A nullopt         *)
(* propagates to the caller at once: every call site returns it unchanged.  *)
(***************************************************************************)
EXTENDS Terms, FiniteSets

CONSTANT
    Universe    \* a set of terms closed under taking arguments

Vars == {t \in Universe : IsVariable(t)}

ASSUME UniverseAssumption ==
    /\ \A v, w \in Vars : v.value = w.value => v = w
    /\ \A t \in Universe :
        /\ t.type \in TermType
        /\ t.args \in Seq(Universe)
        /\ t.type \in {"VARIABLE", "CONSTANT", "NUMBER"} => t.args = << >>
        /\ IsList(t) => Len(t.args) \in {0, 2}

(***************************************************************************)
(* The variables that occur in a term: those of every set that contains the *)
(* term and is closed under arguments.                                     *)
(***************************************************************************)
ArgsClosed(C) == \A t \in C : \A i \in DOMAIN t.args : t.args[i] \in C

VarsOf == [t \in Universe |->
              {v \in Vars : \A C \in SUBSET Universe :
                                t \in C /\ ArgsClosed(C) => v \in C}]

(***************************************************************************)
(* The binding sets over the universe.                                     *)
(***************************************************************************)
BindingSet == UNION {[S -> Universe] : S \in SUBSET Vars}

(* Mutants of the occurs check: it does not follow bindings; any variable counts. *)
OccursCheckShallow(var, t, b) == var \in VarsOf[t]
OccursCheckEager(var, t, b) == VarsOf[t] # {}

(***************************************************************************)
(* occursCheck: the recursion goes from a term to its variables and from a  *)
(* bound variable to its value; var occurs in t iff it is in every set of   *)
(* variables that holds those of t and is closed under following bindings.  *)
(***************************************************************************)
OccursCheck(var, t, b) ==
    \A C \in SUBSET Vars :
        (VarsOf[t] \subseteq C /\ \A w \in C \cap DOMAIN b : VarsOf[b[w]] \subseteq C)
            => var \in C

--------------------------------------------------------------------------------
(* The pair under unification: the arguments of the activation of unifyImpl. *)
LeftOf(p) == p[1][1]
RightOf(p) == p[1][2]

(* A mutant: the sides are not swapped. *)
VarUnswapped(p) == LeftOf(p)

(***************************************************************************)
(* What unifyVariable gets: the left side if it is a variable, else the     *)
(* right one with the sides swapped.                                       *)
(***************************************************************************)
Var(p) == IF IsVariable(LeftOf(p)) THEN LeftOf(p) ELSE RightOf(p)
Other(p) == IF IsVariable(LeftOf(p)) THEN RightOf(p) ELSE LeftOf(p)

Differ(p) == p # << >> /\ ~Identical(LeftOf(p), RightOf(p))

AtVariable(p) == Differ(p) /\ (IsVariable(LeftOf(p)) \/ IsVariable(RightOf(p)))

AtTerms(p) == Differ(p) /\ ~IsVariable(LeftOf(p)) /\ ~IsVariable(RightOf(p))

--------------------------------------------------------------------------------
(* The ways an activation goes on: q is what is left of p, and c what b becomes. *)

Match(p, b, q, c) ==
    /\ p # << >> /\ Identical(LeftOf(p), RightOf(p))
    /\ q = Tail(p) /\ c = b

(* A mutant: a bound variable counts as unified. *)
FollowVarBlindly(p, b, q, c) ==
    /\ AtVariable(p) /\ Var(p) \in DOMAIN b
    /\ q = Tail(p) /\ c = b

FollowVar(p, b, q, c) ==
    /\ AtVariable(p) /\ Var(p) \in DOMAIN b
    /\ q = << <<b[Var(p)], Other(p)>> >> \o Tail(p) /\ c = b

FollowOther(p, b, q, c) ==
    /\ AtVariable(p) /\ Var(p) \notin DOMAIN b /\ Other(p) \in DOMAIN b
    /\ q = << <<Var(p), b[Other(p)]>> >> \o Tail(p) /\ c = b

(* A mutant: only the other side is tested for a binding. *)
AtUnboundOther(p, b) == AtVariable(p) /\ Other(p) \notin DOMAIN b

AtUnbound(p, b) == AtVariable(p) /\ Var(p) \notin DOMAIN b /\ Other(p) \notin DOMAIN b

Bind(p, b, q, c) ==
    /\ AtUnbound(p, b) /\ ~OccursCheck(Var(p), Other(p), b)
    /\ q = Tail(p) /\ c = AddBinding(b, Var(p), Other(p))

Decompose(p, b, q, c) ==
    /\ AtTerms(p) /\ Decomposable(LeftOf(p), RightOf(p))
    /\ q = Pairs(LeftOf(p).args, RightOf(p).args) \o Tail(p) /\ c = b

GoesOn(p, b, q, c) ==
    \/ Match(p, b, q, c) \/ FollowVar(p, b, q, c) \/ FollowOther(p, b, q, c)
    \/ Bind(p, b, q, c) \/ Decompose(p, b, q, c)

(* The ways it returns nullopt. *)

FailOccurs(p, b) == AtUnbound(p, b) /\ OccursCheck(Var(p), Other(p), b)

Clash(p) == AtTerms(p) /\ ~Decomposable(LeftOf(p), RightOf(p))

Fails(p, b) == FailOccurs(p, b) \/ Clash(p)

--------------------------------------------------------------------------------
(* A whole call. *)

Configurations == Seq(Universe \X Universe) \X BindingSet

ClosedUnderSteps(S) ==
    \A s \in S : \A e \in Configurations : GoesOn(s[1], s[2], e[1], e[2]) => e \in S

(* Steps lead from s to e: it is in all that contains s and is closed under steps. *)
LeadsTo(s, e) ==
    /\ e \in Configurations
    /\ \A S \in SUBSET Configurations : s \in S /\ ClosedUnderSteps(S) => e \in S

(***************************************************************************)
(* Unifier::unify, given a goal, a fact and b, returns r: << >> for nullopt,*)
(* <<c>> for the binding set c.  A call that does not end returns nothing.  *)
(***************************************************************************)
UnifyReturns(goal, fact, b, r) ==
    \/ ~SameSignature(goal, fact) /\ r = << >>
    \/ /\ SameSignature(goal, fact)
       /\ \E e \in Configurations :
              /\ LeadsTo(<<Pairs(goal.terms, fact.terms), b>>, e)
              /\ \/ e[1] = << >> /\ r = <<e[2]>>
                 \/ Fails(e[1], e[2]) /\ r = << >>

================================================================================
