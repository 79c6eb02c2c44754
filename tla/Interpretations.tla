---------------------------- MODULE Interpretations ----------------------------
(***************************************************************************)
(* What unification is about: the trees that terms denote, and when they    *)
(* solve a binding set.                                                    *)
(***************************************************************************)
EXTENDS UnifierSteps

(***************************************************************************)
(* No binding set ever leads from a variable back to itself: every          *)
(* non-empty set of bound variables has a member whose value mentions none  *)
(* of the set.                                                             *)
(***************************************************************************)
Acyclic(b) ==
    \A S \in SUBSET DOMAIN b : S # {} => \E v \in S : VarsOf[b[v]] \cap S = {}

(***************************************************************************)
(* No term is among its own parts, however deep: every non-empty set of     *)
(* terms has a member none of whose arguments is in it.  (A Term holds its  *)
(* arguments by value.)                                                    *)
(***************************************************************************)
TermsAreFinite ==
    \A T \in SUBSET Universe :
        T # {} => \E t \in T : \A i \in DOMAIN t.args : t.args[i] \notin T

(* Where resolveTerm and occursCheck go on from t: its arguments, or the value of a bound variable. *)
PartsUnder(t, b) == {t.args[i] : i \in DOMAIN t.args} \cup {b[v] : v \in {t} \cap DOMAIN b}

(***************************************************************************)
(* An interpretation gives every term a finite tree: val is the tree, size  *)
(* its number of nodes or any other measure that decreases from a term to   *)
(* its arguments.  Two terms that are not variables denote the same tree    *)
(* iff they have the same shape and their arguments denote the same trees.  *)
(***************************************************************************)
SameShape(t, u) ==
    /\ t.type = u.type
    /\ IsList(t) \/ t.value = u.value
    /\ Len(t.args) = Len(u.args)

IsInterpretation(I) ==
    /\ \A t \in Universe :
        /\ I.size[t] \in Nat
        /\ \A i \in DOMAIN t.args : I.size[t.args[i]] < I.size[t]
    /\ \A t, u \in Universe : I.val[t] = I.val[u] => I.size[t] = I.size[u]
    /\ \A t, u \in Universe \ Vars :
        I.val[t] = I.val[u] <=>
            SameShape(t, u) /\ \A i \in DOMAIN t.args : I.val[t.args[i]] = I.val[u.args[i]]

(***************************************************************************)
(* An interpretation solves a binding set, a sequence of pairs, or a goal   *)
(* and a fact, if it makes the two sides of each of them equal.             *)
(***************************************************************************)
SolvesBindings(I, b) == \A v \in DOMAIN b : I.val[v] = I.val[b[v]]

SolvesPairs(I, p) == \A k \in DOMAIN p : I.val[p[k][1]] = I.val[p[k][2]]

Unifies(I, g, f) ==
    SameSignature(g, f) /\ \A k \in DOMAIN g.terms : I.val[g.terms[k]] = I.val[f.terms[k]]

(* All terms in a binding set, a sequence of pairs, or a literal are in C. *)
BindsWithin(b, C) == \A v \in DOMAIN b : v \in C /\ b[v] \in C

PairsWithin(p, C) == \A k \in DOMAIN p : p[k][1] \in C /\ p[k][2] \in C

TermsWithin(l, C) == \A k \in DOMAIN l.terms : l.terms[k] \in C

--------------------------------------------------------------------------------
(* Literals over the universe, and what is done with them. *)

HasTerms(l) == l.terms \in Seq(Universe)

(* The variables of a literal, and those that a binding set binds or mentions. *)
VarsOfLiteral(l) == UNION {VarsOf[l.terms[i]] : i \in DOMAIN l.terms}

VarsOfBindings(b) == DOMAIN b \cup UNION {VarsOf[b[v]] : v \in DOMAIN b}

AcyclicBindings == {b \in BindingSet : Acyclic(b)}

(* One interpretation makes of a literal what another makes of another. *)
SameTrees(I, l, J, m) ==
    /\ l.predicate = m.predicate /\ Len(l.terms) = Len(m.terms)
    /\ \A i \in DOMAIN l.terms : I.val[l.terms[i]] = J.val[m.terms[i]]

(* From the same parts both build the same tree. *)
BuildAlike(I, J) ==
    \A t, u \in Universe \ Vars :
        SameShape(t, u) /\ (\A i \in DOMAIN t.args : I.val[t.args[i]] = J.val[u.args[i]])
            => I.val[t] = J.val[u]

(***************************************************************************)
(* A way to replace the variables in terms: all else is rebuilt as it was.  *)
(* renameVariables replaces variables by variables, resolveTerm a bound     *)
(* variable by what its value becomes.                                     *)
(***************************************************************************)
Rebuilds(new) ==
    /\ new \in [Universe -> Universe]
    /\ \A t \in Universe \ Vars :
           /\ new[t] \in Universe \ Vars /\ SameShape(t, new[t])
           /\ \A i \in DOMAIN t.args : new[t].args[i] = new[t.args[i]]

Renames(new) == Rebuilds(new) /\ \A x \in Vars : new[x] \in Vars

Resolves(new, b) ==
    Rebuilds(new) /\ \A x \in Vars : new[x] = IF x \in DOMAIN b THEN new[b[x]] ELSE x

Replaced(new, l, m) ==
    /\ m.predicate = l.predicate /\ Len(m.terms) = Len(l.terms)
    /\ \A i \in DOMAIN l.terms : m.terms[i] = new[l.terms[i]]

(* Terms with the same shape and the same arguments are one term. *)
ToldByParts ==
    \A t, u \in Universe \ Vars :
        SameShape(t, u) /\ (\A i \in DOMAIN t.args : t.args[i] = u.args[i]) => t = u

(* Both literals become the same under new, with no variable left that b binds. *)
MadeAlike(new, g, f, b) ==
    /\ SameSignature(g, f)
    /\ \A i \in DOMAIN g.terms :
           /\ new[g.terms[i]] = new[f.terms[i]]
           /\ VarsOf[new[g.terms[i]]] \cap DOMAIN b = {}

================================================================================
