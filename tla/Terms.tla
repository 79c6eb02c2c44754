--------------------------------- MODULE Terms ---------------------------------
(***************************************************************************)
(* The data of the logic engine: terms and literals (src/common/fact.h).    *)
(*                                                                         *)
(* A term is a record with the fields of struct Term.  The C++ struct keeps *)
(* the text of a variable, atom or number in `value' and the functor of a   *)
(* compound in `functor'; only one of them is ever in use, so here `value'  *)
(* holds either.  A text is a sequence: << >> is the empty string, <<"X">>  *)
(* the name X, and <<"X", 7>> the text X_7 (a name that ends in _7).        *)
(***************************************************************************)
EXTENDS Naturals, Sequences

TermType == {"VARIABLE", "CONSTANT", "NUMBER", "COMPOUND", "LIST"}

EmptyText == << >>

Variable(name) == [args |-> << >>, value |-> name, type |-> "VARIABLE"]
Constant(name) == [args |-> << >>, value |-> name, type |-> "CONSTANT"]
Number(digits) == [args |-> << >>, value |-> digits, type |-> "NUMBER"]
Compound(functor, args) == [args |-> args, value |-> functor, type |-> "COMPOUND"]
EmptyList == [args |-> << >>, value |-> EmptyText, type |-> "LIST"]
ConsCell(head, tail) == [args |-> <<head, tail>>, value |-> EmptyText, type |-> "LIST"]

IsVariable(t) == t.type = "VARIABLE"
IsConstant(t) == t.type = "CONSTANT"
IsNumber(t) == t.type = "NUMBER"
IsCompound(t) == t.type = "COMPOUND"
IsList(t) == t.type = "LIST"
IsEmptyList(t) == IsList(t) /\ t.args = << >>
IsConsList(t) == IsList(t) /\ Len(t.args) = 2

(***************************************************************************)
(* class Fact: a predicate applied to terms; goals and rule heads are Facts *)
(* too.                                                                    *)
(***************************************************************************)
Literal(predicate, terms) == [predicate |-> predicate, terms |-> terms]

(***************************************************************************)
(* The pairs of corresponding elements of two sequences of equal length.    *)
(***************************************************************************)
Pairs(s, t) == [i \in DOMAIN s |-> <<s[i], t[i]>>]

(***************************************************************************)
(* A binding set maps variables to terms.  The code keys it by the name of  *)
(* the variable; here a variable term stands for its name.  BindingSet::add *)
(* overwrites, like operator[] = does.                                      *)
(***************************************************************************)
NoBindings == [v \in {} |-> v]

AddBinding(b, var, t) ==
    [v \in DOMAIN b \cup {var} |-> IF v = var THEN t ELSE b[v]]

(***************************************************************************)
(* unifyImpl's first test: the same atom, number, variable, or both [].     *)
(***************************************************************************)
Identical(s, t) ==
    /\ s.type = t.type
    /\ \/ (IsConstant(s) \/ IsNumber(s) \/ IsVariable(s)) /\ s.value = t.value
       \/ IsEmptyList(s) /\ IsEmptyList(t)

(* Compounds with the same functor and arity, or two cons cells. *)
Decomposable(s, t) ==
    \/ IsCompound(s) /\ IsCompound(t) /\ s.value = t.value /\ Len(s.args) = Len(t.args)
    \/ IsConsList(s) /\ IsConsList(t)

(* What Unifier::unify and unifyTerms ask for before they look at terms. *)
SameSignature(g, f) == g.predicate = f.predicate /\ Len(g.terms) = Len(f.terms)

================================================================================
