----------------------------- MODULE UnifierProofs -----------------------------
(***************************************************************************)
(* What the steps of the unifier keep, and what a call of it returns, for   *)
(* every universe of terms and every interpretation.                       *)
(***************************************************************************)
EXTENDS Interpretations, FiniteSetTheorems, WellFoundedInduction, TLAPS

(* Lemmas about the data *)

LEMMA PairsType ==
    ASSUME NEW s \in Seq(Universe), NEW t \in Seq(Universe), Len(s) = Len(t)
    PROVE  /\ Pairs(s, t) \in Seq(Universe \X Universe)
           /\ Len(Pairs(s, t)) = Len(s)
           /\ \A i \in DOMAIN s : Pairs(s, t)[i] = <<s[i], t[i]>>
BY DEF Pairs

LEMMA PendingType ==
    ASSUME NEW p \in Seq(Universe \X Universe), p # << >>
    PROVE  /\ p[1][1] \in Universe /\ p[1][2] \in Universe
           /\ Tail(p) \in Seq(Universe \X Universe)
OBVIOUS

LEMMA BindingType ==
    ASSUME NEW b \in BindingSet
    PROVE  /\ DOMAIN b \subseteq Vars
           /\ \A v \in DOMAIN b : b[v] \in Universe
BY DEF BindingSet

LEMMA AddBindingType ==
    ASSUME NEW b \in BindingSet, NEW v \in Vars, NEW t \in Universe
    PROVE  /\ AddBinding(b, v, t) \in BindingSet
           /\ DOMAIN AddBinding(b, v, t) = DOMAIN b \cup {v}
           /\ AddBinding(b, v, t)[v] = t
           /\ \A w \in DOMAIN b : w # v => AddBinding(b, v, t)[w] = b[w]
<1>1. DOMAIN b \subseteq Vars /\ \A w \in DOMAIN b : b[w] \in Universe
  BY BindingType
<1>2. AddBinding(b, v, t) \in [DOMAIN b \cup {v} -> Universe]
  BY <1>1 DEF AddBinding
<1>3. DOMAIN b \cup {v} \in SUBSET Vars
  BY <1>1
<1> QED
  BY <1>2, <1>3 DEF AddBinding, BindingSet

LEMMA NoBindingsType == NoBindings \in BindingSet /\ DOMAIN NoBindings = {}
<1>1. NoBindings \in [{} -> Universe]
  BY DEF NoBindings
<1> QED
  BY <1>1 DEF BindingSet

LEMMA ArgsType ==
    ASSUME NEW t \in Universe
    PROVE  /\ t.type \in TermType
           /\ t.args \in Seq(Universe)
           /\ t \in Vars => t.args = << >>
           /\ \A i \in DOMAIN t.args : t.args[i] \in Universe
BY UniverseAssumption DEF Vars, IsVariable

LEMMA DecomposedType ==
    ASSUME NEW t \in Universe, NEW u \in Universe, Decomposable(t, u)
    PROVE  /\ Len(t.args) = Len(u.args)
           /\ Pairs(t.args, u.args) \in Seq(Universe \X Universe)
<1>1. Len(t.args) = Len(u.args)
  BY DEF Decomposable, IsConsList
<1> QED
  BY <1>1, ArgsType, PairsType

--------------------------------------------------------------------------------
(* The pair under unification *)

IsPending(p) == p \in Seq(Universe \X Universe)

LEMMA FirstPair ==
    ASSUME NEW p, IsPending(p), p # << >>
    PROVE  /\ LeftOf(p) \in Universe /\ RightOf(p) \in Universe
           /\ IsPending(Tail(p))
BY PendingType DEF IsPending, LeftOf, RightOf

(***************************************************************************)
(* The arguments of unifyVariable are a variable and a term.                *)
(***************************************************************************)
LEMMA VariableType ==
    ASSUME NEW p, IsPending(p), AtVariable(p)
    PROVE  /\ Var(p) \in Vars /\ Other(p) \in Universe
           /\ {Var(p), Other(p)} = {LeftOf(p), RightOf(p)}
           /\ Var(p) # Other(p)
<1>1. LeftOf(p) \in Universe /\ RightOf(p) \in Universe
  BY FirstPair DEF AtVariable, Differ
<1>2. Var(p) \in Vars /\ Other(p) \in Universe /\ {Var(p), Other(p)} = {LeftOf(p), RightOf(p)}
  BY <1>1 DEF AtVariable, Var, Other, Vars
<1>3. LeftOf(p) # RightOf(p)
  BY DEF AtVariable, Differ, Identical
<1> QED
  BY <1>2, <1>3

LEMMA TermsType ==
    ASSUME NEW p, IsPending(p), AtTerms(p)
    PROVE  LeftOf(p) \in Universe \ Vars /\ RightOf(p) \in Universe \ Vars
BY FirstPair DEF AtTerms, Differ, Vars

LEMMA MorePending ==
    ASSUME NEW p, IsPending(p), p # << >>, NEW q \in Seq(Universe \X Universe)
    PROVE  IsPending(q \o Tail(p))
<1>1. Tail(p) \in Seq(Universe \X Universe)
  BY FirstPair DEF IsPending
<1> QED
  BY <1>1 DEF IsPending

LEMMA OnePending ==
    ASSUME NEW t \in Universe, NEW u \in Universe
    PROVE  << <<t, u>> >> \in Seq(Universe \X Universe)
OBVIOUS

(* A step leads to pairs of terms and a binding set. *)
LEMMA StepTypes ==
    ASSUME NEW p, IsPending(p), NEW b \in BindingSet, NEW q, NEW c, GoesOn(p, b, q, c)
    PROVE  IsPending(q) /\ c \in BindingSet
<1>1. CASE Match(p, b, q, c)
  BY <1>1, FirstPair DEF Match
<1>2. CASE FollowVar(p, b, q, c)
  <2>1. b[Var(p)] \in Universe /\ Other(p) \in Universe /\ p # << >>
    BY <1>2, VariableType, BindingType DEF FollowVar, AtVariable, Differ
  <2> QED
    BY <1>2, <2>1, OnePending, MorePending DEF FollowVar
<1>3. CASE FollowOther(p, b, q, c)
  <2>1. Var(p) \in Universe /\ b[Other(p)] \in Universe /\ p # << >>
    BY <1>3, VariableType, BindingType DEF FollowOther, AtVariable, Differ, Vars
  <2> QED
    BY <1>3, <2>1, OnePending, MorePending DEF FollowOther
<1>4. CASE Bind(p, b, q, c)
  <2>1. AtVariable(p) /\ p # << >>
    BY <1>4 DEF Bind, AtUnbound, AtVariable, Differ
  <2>2. AddBinding(b, Var(p), Other(p)) \in BindingSet
    BY <2>1, VariableType, AddBindingType
  <2> QED
    BY <1>4, <2>1, <2>2, FirstPair DEF Bind
<1>5. CASE Decompose(p, b, q, c)
  <2>1. p # << >> /\ Decomposable(LeftOf(p), RightOf(p))
    BY <1>5 DEF Decompose, AtTerms, Differ
  <2>2. Pairs(LeftOf(p).args, RightOf(p).args) \in Seq(Universe \X Universe)
    BY <2>1, FirstPair, DecomposedType
  <2> QED
    BY <1>5, <2>1, <2>2, MorePending DEF Decompose
<1> QED
  BY <1>1, <1>2, <1>3, <1>4, <1>5 DEF GoesOn

(* A step adds bindings and replaces none. *)
LEMMA StepExtends ==
    ASSUME NEW p, NEW b, NEW q, NEW c, GoesOn(p, b, q, c)
    PROVE  \A v \in DOMAIN b : v \in DOMAIN c /\ c[v] = b[v]
<1>1. CASE c = b
  BY <1>1
<1>2. CASE Bind(p, b, q, c)
  BY <1>2 DEF Bind, AtUnbound, AddBinding
<1> QED
  BY <1>1, <1>2 DEF GoesOn, Match, FollowVar, FollowOther, Decompose

--------------------------------------------------------------------------------
(* The bindings stay acyclic *)

(***************************************************************************)
(* The heart of the argument: if var does not occur in t under b, some      *)
(* closed set C of variables holds those of t and not var.  A set S of      *)
(* bound variables that contains var either misses C, and then var's new    *)
(* value mentions none of S, or the part of S inside C has a member whose   *)
(* value stays inside C and mentions none of that part.                    *)
(***************************************************************************)
LEMMA AddBindingAcyclic ==
    ASSUME NEW b \in BindingSet, Acyclic(b),
           NEW v \in Vars, v \notin DOMAIN b,
           NEW t \in Universe, ~OccursCheck(v, t, b)
    PROVE  Acyclic(AddBinding(b, v, t))
<1> DEFINE n == AddBinding(b, v, t)
<1>1. /\ DOMAIN n = DOMAIN b \cup {v}
      /\ n[v] = t
      /\ \A w \in DOMAIN b : n[w] = b[w]
  BY DEF AddBinding
<1>2. PICK C \in SUBSET Vars :
          /\ VarsOf[t] \subseteq C
          /\ \A w \in C \cap DOMAIN b : VarsOf[b[w]] \subseteq C
          /\ v \notin C
  BY DEF OccursCheck
<1> SUFFICES ASSUME NEW S \in SUBSET DOMAIN n, S # {}
             PROVE  \E w \in S : VarsOf[n[w]] \cap S = {}
  BY DEF Acyclic
<1> HIDE DEF n
<1>3. CASE v \notin S
  <2>1. S \in SUBSET DOMAIN b
    BY <1>1, <1>3
  <2>2. PICK w \in S : VarsOf[b[w]] \cap S = {}
    BY <2>1 DEF Acyclic
  <2> QED
    BY <1>1, <2>1, <2>2
<1>4. CASE v \in S /\ S \cap C = {}
  BY <1>1, <1>2, <1>4
<1>5. CASE v \in S /\ S \cap C # {}
  <2>1. S \cap C \in SUBSET DOMAIN b
    BY <1>1, <1>2
  <2>2. PICK w \in S \cap C : VarsOf[b[w]] \cap (S \cap C) = {}
    BY <1>5, <2>1 DEF Acyclic
  <2>3. VarsOf[b[w]] \subseteq C
    BY <1>2, <2>1, <2>2
  <2>4. VarsOf[n[w]] \cap S = {}
    BY <1>1, <2>1, <2>2, <2>3
  <2> QED
    BY <2>4
<1> QED
  BY <1>3, <1>4, <1>5

LEMMA StepAcyclic ==
    ASSUME NEW p, IsPending(p), NEW b \in BindingSet, Acyclic(b), NEW q, NEW c, GoesOn(p, b, q, c)
    PROVE  Acyclic(c)
<1>1. CASE c = b
  BY <1>1
<1>2. CASE Bind(p, b, q, c)
  BY <1>2, VariableType, AddBindingAcyclic DEF Bind, AtUnbound
<1> QED
  BY <1>1, <1>2 DEF GoesOn, Match, FollowVar, FollowOther, Decompose

--------------------------------------------------------------------------------
(* What is at hand stays within what was given. *)

InHand(p, b, C) == BindsWithin(b, C) /\ PairsWithin(p, C)

LEMMA ConcatWithin ==
    ASSUME NEW C, NEW p \in Seq(Universe \X Universe), NEW q \in Seq(Universe \X Universe),
           PairsWithin(p, C), PairsWithin(q, C)
    PROVE  PairsWithin(p \o q, C)
<1> SUFFICES ASSUME NEW k \in DOMAIN (p \o q)
             PROVE  (p \o q)[k][1] \in C /\ (p \o q)[k][2] \in C
  BY DEF PairsWithin
<1>1. CASE k \in DOMAIN p
  BY <1>1 DEF PairsWithin
<1>2. CASE k \notin DOMAIN p
  <2>1. k - Len(p) \in DOMAIN q /\ (p \o q)[k] = q[k - Len(p)]
    BY <1>2
  <2> QED
    BY <2>1 DEF PairsWithin
<1> QED
  BY <1>1, <1>2

(* The pair under unification, and the pairs after it. *)
LEMMA PairWithin ==
    ASSUME NEW p, IsPending(p), p # << >>, NEW C, PairsWithin(p, C)
    PROVE  LeftOf(p) \in C /\ RightOf(p) \in C /\ PairsWithin(Tail(p), C)
<1>1. 1 \in DOMAIN p /\ p \in Seq(Universe \X Universe)
  BY DEF IsPending
<1> QED
  BY <1>1 DEF PairsWithin, LeftOf, RightOf

LEMMA RestWithin ==
    ASSUME NEW p, IsPending(p), p # << >>, NEW C, PairsWithin(p, C),
           NEW q \in Seq(Universe \X Universe), PairsWithin(q, C)
    PROVE  PairsWithin(q \o Tail(p), C)
<1>1. Tail(p) \in Seq(Universe \X Universe)
  BY FirstPair DEF IsPending
<1> QED
  BY <1>1, PairWithin, ConcatWithin

LEMMA OneWithin ==
    ASSUME NEW C, NEW t \in C, NEW u \in C
    PROVE  PairsWithin(<< <<t, u>> >>, C)
BY DEF PairsWithin

LEMMA StepWithin ==
    ASSUME NEW p, IsPending(p), NEW b \in BindingSet, NEW q, NEW c, GoesOn(p, b, q, c),
           NEW C \in SUBSET Universe, ArgsClosed(C), InHand(p, b, C)
    PROVE  InHand(q, c, C)
<1>0. p # << >>
  BY DEF GoesOn, Match, FollowVar, FollowOther, Bind, Decompose, AtUnbound, AtVariable, AtTerms,
         Differ
<1>1. /\ LeftOf(p) \in C /\ RightOf(p) \in C /\ PairsWithin(Tail(p), C)
      /\ BindsWithin(b, C)
  BY <1>0, PairWithin DEF InHand
<1>2. Var(p) \in C /\ Other(p) \in C
  BY <1>1 DEF Var, Other
<1>3. CASE Match(p, b, q, c)
  BY <1>1, <1>3 DEF Match, InHand
<1>4. CASE FollowVar(p, b, q, c)
  <2>1. b[Var(p)] \in C
    BY <1>1, <1>4 DEF FollowVar, BindsWithin
  <2>2. PairsWithin(<< <<b[Var(p)], Other(p)>> >> \o Tail(p), C)
    BY <1>0, <1>2, <2>1, OneWithin, OnePending, RestWithin DEF InHand
  <2> QED
    BY <1>1, <1>4, <2>2 DEF FollowVar, InHand
<1>5. CASE FollowOther(p, b, q, c)
  <2>1. b[Other(p)] \in C
    BY <1>1, <1>5 DEF FollowOther, BindsWithin
  <2>2. PairsWithin(<< <<Var(p), b[Other(p)]>> >> \o Tail(p), C)
    BY <1>0, <1>2, <2>1, OneWithin, OnePending, RestWithin DEF InHand
  <2> QED
    BY <1>1, <1>5, <2>2 DEF FollowOther, InHand
<1>6. CASE Bind(p, b, q, c)
  <2>1. BindsWithin(AddBinding(b, Var(p), Other(p)), C)
    BY <1>1, <1>2 DEF BindsWithin, AddBinding
  <2> QED
    BY <1>1, <1>6, <2>1 DEF Bind, InHand
<1>7. CASE Decompose(p, b, q, c)
  <2> DEFINE t == LeftOf(p)
             u == RightOf(p)
  <2>1. t \in Universe /\ u \in Universe /\ Decomposable(t, u) /\ t \in C /\ u \in C
    BY <1>0, <1>1, <1>7, FirstPair DEF Decompose
  <2>2. q = Pairs(t.args, u.args) \o Tail(p) /\ c = b
    BY <1>7 DEF Decompose
  <2> HIDE DEF t, u
  <2>3. Pairs(t.args, u.args) \in Seq(Universe \X Universe) /\ Len(t.args) = Len(u.args)
    BY <2>1, DecomposedType
  <2>4. \A k \in DOMAIN t.args : k \in DOMAIN u.args
    BY <2>1, <2>3, ArgsType
  <2>5. PairsWithin(Pairs(t.args, u.args), C)
    BY <2>1, <2>4 DEF PairsWithin, Pairs, ArgsClosed
  <2>6. PairsWithin(Pairs(t.args, u.args) \o Tail(p), C)
    BY <1>0, <2>3, <2>5, RestWithin DEF InHand
  <2> QED
    BY <1>1, <2>2, <2>6 DEF InHand
<1> QED
  BY <1>3, <1>4, <1>5, <1>6, <1>7 DEF GoesOn

--------------------------------------------------------------------------------
(* No solution is lost, none is admitted *)

LEMMA SolvesPairsConcat ==
    ASSUME NEW I, NEW p \in Seq(Universe \X Universe), NEW q \in Seq(Universe \X Universe)
    PROVE  SolvesPairs(I, p \o q) <=> SolvesPairs(I, p) /\ SolvesPairs(I, q)
<1>1. ASSUME SolvesPairs(I, p \o q) PROVE SolvesPairs(I, p)
  <2>1. \A k \in DOMAIN p : k \in DOMAIN (p \o q) /\ (p \o q)[k] = p[k]
    OBVIOUS
  <2> QED
    BY <1>1, <2>1 DEF SolvesPairs
<1>2. ASSUME SolvesPairs(I, p \o q) PROVE SolvesPairs(I, q)
  <2>1. \A k \in DOMAIN q : Len(p) + k \in DOMAIN (p \o q) /\ (p \o q)[Len(p) + k] = q[k]
    OBVIOUS
  <2> QED
    BY <1>2, <2>1 DEF SolvesPairs
<1>3. ASSUME SolvesPairs(I, p), SolvesPairs(I, q) PROVE SolvesPairs(I, p \o q)
  <2> SUFFICES ASSUME NEW k \in DOMAIN (p \o q)
               PROVE  I.val[(p \o q)[k][1]] = I.val[(p \o q)[k][2]]
    BY DEF SolvesPairs
  <2>1. CASE k \in DOMAIN p
    <3>1. (p \o q)[k] = p[k]
      BY <2>1
    <3> QED
      BY <1>3, <2>1, <3>1 DEF SolvesPairs
  <2>2. CASE k \notin DOMAIN p
    <3>1. k - Len(p) \in DOMAIN q /\ (p \o q)[k] = q[k - Len(p)]
      BY <2>2
    <3> QED
      BY <1>3, <3>1 DEF SolvesPairs
  <2> QED
    BY <2>1, <2>2
<1> QED
  BY <1>1, <1>2, <1>3

(* The pair under unification is the first of the pending ones. *)
LEMMA SolvesFirst ==
    ASSUME NEW I, NEW p, IsPending(p), p # << >>
    PROVE  SolvesPairs(I, p) <=> I.val[LeftOf(p)] = I.val[RightOf(p)] /\ SolvesPairs(I, Tail(p))
<1> DEFINE rest == Tail(p)
<1>1. /\ p \in Seq(Universe \X Universe) /\ Len(p) >= 1
      /\ rest \in Seq(Universe \X Universe) /\ Len(rest) = Len(p) - 1
      /\ \A k \in DOMAIN rest : k + 1 \in DOMAIN p /\ rest[k] = p[k + 1]
      /\ \A k \in DOMAIN p : k = 1 \/ (k - 1 \in DOMAIN rest /\ p[k] = rest[k - 1])
  BY DEF IsPending
<1>2. 1 \in DOMAIN p
  BY <1>1
<1> HIDE DEF rest
<1>3. ASSUME SolvesPairs(I, p) PROVE I.val[LeftOf(p)] = I.val[RightOf(p)] /\ SolvesPairs(I, rest)
  BY <1>1, <1>2, <1>3 DEF SolvesPairs, LeftOf, RightOf
<1>4. ASSUME I.val[LeftOf(p)] = I.val[RightOf(p)], SolvesPairs(I, rest) PROVE SolvesPairs(I, p)
  BY <1>1, <1>4 DEF SolvesPairs, LeftOf, RightOf
<1> QED
  BY <1>3, <1>4 DEF rest

(***************************************************************************)
(* A variable of t is t itself or has a smaller tree than t.                *)
(***************************************************************************)
LEMMA VarsSmaller ==
    ASSUME NEW I, IsInterpretation(I), NEW t \in Universe, NEW v \in VarsOf[t]
    PROVE  v \in Vars /\ (v = t \/ I.size[v] < I.size[t])
<1> DEFINE D == {u \in Universe : u = t \/ I.size[u] < I.size[t]}
<1>1. t \in D
  OBVIOUS
<1>2. ArgsClosed(D)
  <2> SUFFICES ASSUME NEW u \in D, NEW i \in DOMAIN u.args PROVE u.args[i] \in D
    BY DEF ArgsClosed
  <2>1. u.args[i] \in Universe
    BY ArgsType
  <2>2. /\ I.size[u.args[i]] \in Nat /\ I.size[u] \in Nat /\ I.size[t] \in Nat
        /\ I.size[u.args[i]] < I.size[u]
    BY <2>1 DEF IsInterpretation
  <2>3. I.size[u.args[i]] < I.size[t]
    BY <2>2
  <2> QED
    BY <2>1, <2>3
<1>3. D \in SUBSET Universe
  OBVIOUS
<1> HIDE DEF D
<1>4. v \in Vars /\ v \in D
  BY <1>1, <1>2, <1>3 DEF VarsOf
<1> QED
  BY <1>4 DEF D

(***************************************************************************)
(* If var occurs in the other term, no solution of the bindings makes the   *)
(* two equal: the variables with a tree smaller than that of the other term *)
(* hold all of its variables and are closed under following bindings.       *)
(***************************************************************************)
LEMMA OccursMeansNoSolution ==
    ASSUME NEW I, IsInterpretation(I),
           NEW b \in BindingSet, SolvesBindings(I, b),
           NEW v \in Vars, NEW t \in Universe, v # t, t \notin DOMAIN b,
           OccursCheck(v, t, b)
    PROVE  I.val[v] # I.val[t]
<1>0. ASSUME NEW u \in Universe PROVE I.size[u] \in Nat
  BY DEF IsInterpretation
<1>1. CASE t \in Vars
  <2>1. VarsOf[t] \subseteq {t}
    <3>1. ArgsClosed({t}) /\ {t} \in SUBSET Universe
      BY <1>1, ArgsType DEF ArgsClosed
    <3> QED
      BY <3>1 DEF VarsOf
  <2>2. {t} \in SUBSET Vars /\ {t} \cap DOMAIN b = {}
    BY <1>1
  <2>3. v \in {t}
    BY <2>1, <2>2 DEF OccursCheck
  <2> QED
    BY <2>3
<1>2. CASE t \notin Vars
  <2> SUFFICES ASSUME I.val[v] = I.val[t] PROVE FALSE
    OBVIOUS
  <2> DEFINE C == {w \in Vars : I.size[w] < I.size[t]}
  <2>1. C \in SUBSET Vars
    OBVIOUS
  <2>2. VarsOf[t] \subseteq C
    BY <1>2, VarsSmaller
  <2>3. ASSUME NEW w \in C \cap DOMAIN b PROVE VarsOf[b[w]] \subseteq C
    <3>1. b[w] \in Universe /\ w \in Universe
      BY BindingType DEF Vars
    <3>2. I.size[b[w]] = I.size[w]
      BY <3>1 DEF IsInterpretation, SolvesBindings
    <3>3. ASSUME NEW u \in VarsOf[b[w]] PROVE u \in C
      <4>1. u \in Vars /\ (u = b[w] \/ I.size[u] < I.size[b[w]])
        BY <3>1, VarsSmaller
      <4>2. I.size[u] \in Nat /\ I.size[w] \in Nat /\ I.size[t] \in Nat
        BY <1>0, <3>1, <4>1 DEF Vars
      <4> QED
        BY <3>2, <4>1, <4>2
    <3> QED
      BY <3>3
  <2> HIDE DEF C
  <2>4. v \in C
    BY <2>1, <2>2, <2>3 DEF OccursCheck
  <2>5. I.size[v] < I.size[t]
    BY <2>4 DEF C
  <2>6. I.size[v] = I.size[t]
    BY DEF IsInterpretation, Vars
  <2> QED
    BY <1>0, <2>5, <2>6 DEF Vars
<1> QED
  BY <1>1, <1>2

(* When do two terms that are not variables denote the same tree? *)

LEMMA IdenticalSame ==
    ASSUME NEW I, IsInterpretation(I), NEW t \in Universe, NEW u \in Universe, Identical(t, u)
    PROVE  I.val[t] = I.val[u]
<1>1. CASE IsVariable(t)
  <2>1. t \in Vars /\ u \in Vars /\ t.value = u.value
    BY <1>1 DEF Identical, Vars, IsVariable, IsConstant, IsNumber, IsEmptyList, IsList
  <2>2. t = u
    BY <2>1, UniverseAssumption
  <2> QED
    BY <2>2
<1>2. CASE ~IsVariable(t)
  <2>1. t \in Universe \ Vars /\ u \in Universe \ Vars
    BY <1>2 DEF Identical, Vars, IsVariable
  <2>2. t.args = << >> /\ u.args = << >> /\ SameShape(t, u)
    BY <1>2, UniverseAssumption
       DEF Identical, SameShape, IsVariable, IsConstant, IsNumber, IsEmptyList
  <2> QED
    BY <2>1, <2>2 DEF IsInterpretation
<1> QED
  BY <1>1, <1>2

LEMMA DecomposableSame ==
    ASSUME NEW I, IsInterpretation(I),
           NEW t \in Universe \ Vars, NEW u \in Universe \ Vars, Decomposable(t, u)
    PROVE  I.val[t] = I.val[u] <=> SolvesPairs(I, Pairs(t.args, u.args))
<1>1. SameShape(t, u)
  BY DecomposedType DEF Decomposable, SameShape, IsCompound, IsConsList, IsList
<1>2. I.val[t] = I.val[u] <=> \A i \in DOMAIN t.args : I.val[t.args[i]] = I.val[u.args[i]]
  BY <1>1 DEF IsInterpretation
<1> QED
  BY <1>2 DEF SolvesPairs, Pairs

LEMMA EmptyByLength == \A S : \A s \in Seq(S) : Len(s) = 0 => s = << >>
OBVIOUS

LEMMA ClashDiffers ==
    ASSUME NEW I, IsInterpretation(I),
           NEW t \in Universe \ Vars, NEW u \in Universe \ Vars,
           ~Identical(t, u), ~Decomposable(t, u)
    PROVE  I.val[t] # I.val[u]
<1> SUFFICES ASSUME I.val[t] = I.val[u] PROVE FALSE
  OBVIOUS
<1>1. SameShape(t, u)
  BY DEF IsInterpretation
<1>2. t.args \in Seq(Universe) /\ u.args \in Seq(Universe) /\ t.type \in TermType
  BY ArgsType
<1>3. CASE IsConstant(t) \/ IsNumber(t)
  BY <1>1, <1>3 DEF SameShape, Identical, IsConstant, IsNumber, IsList
<1>4. CASE IsCompound(t)
  BY <1>1, <1>4 DEF SameShape, Decomposable, IsCompound, IsList
<1>5. CASE IsList(t)
  <2>1. IsList(u) /\ Len(t.args) = Len(u.args) /\ Len(t.args) \in {0, 2}
    BY <1>1, <1>5, UniverseAssumption DEF SameShape, IsList
  <2>2. CASE Len(t.args) = 0
    <3>1. t.args = << >> /\ u.args = << >>
      BY <1>2, <2>1, <2>2, EmptyByLength
    <3> QED
      BY <1>5, <2>1, <3>1 DEF Identical, IsEmptyList, IsList
  <2>3. CASE Len(t.args) = 2
    BY <1>5, <2>1, <2>3 DEF Decomposable, IsConsList
  <2> QED
    BY <2>1, <2>2, <2>3
<1>6. ~IsVariable(t)
  BY DEF Vars
<1> QED
  BY <1>2, <1>3, <1>4, <1>5, <1>6
     DEF TermType, IsVariable, IsConstant, IsNumber, IsCompound, IsList

LEMMA OnePair ==
    ASSUME NEW I, NEW t \in Universe, NEW u \in Universe
    PROVE  /\ << <<t, u>> >> \in Seq(Universe \X Universe)
           /\ SolvesPairs(I, << <<t, u>> >>) <=> I.val[t] = I.val[u]
BY DEF SolvesPairs

(***************************************************************************)
(* An activation that goes on replaces the pair at hand by bindings and     *)
(* pairs with the same solutions.                                          *)
(***************************************************************************)
LEMMA GoOnSolutions ==
    ASSUME NEW I, NEW p, IsPending(p), p # << >>, NEW b, NEW c,
           NEW front \in Seq(Universe \X Universe), NEW q, q = front \o Tail(p),
           SolvesBindings(I, b) /\ I.val[LeftOf(p)] = I.val[RightOf(p)]
               <=> SolvesBindings(I, c) /\ SolvesPairs(I, front)
    PROVE  SolvesBindings(I, b) /\ SolvesPairs(I, p)
               <=> SolvesBindings(I, c) /\ SolvesPairs(I, q)
<1>1. Tail(p) \in Seq(Universe \X Universe)
  BY FirstPair DEF IsPending
<1>2. SolvesPairs(I, front \o Tail(p)) <=> SolvesPairs(I, front) /\ SolvesPairs(I, Tail(p))
  BY <1>1, SolvesPairsConcat
<1> QED
  BY <1>2, SolvesFirst

LEMMA StepSolutions ==
    ASSUME NEW I, IsInterpretation(I),
           NEW p, IsPending(p), NEW b \in BindingSet, NEW q, NEW c, GoesOn(p, b, q, c)
    PROVE  SolvesBindings(I, b) /\ SolvesPairs(I, p) <=> SolvesBindings(I, c) /\ SolvesPairs(I, q)
<1>0. p # << >>
  BY DEF GoesOn, Match, FollowVar, FollowOther, Bind, Decompose, AtUnbound, AtVariable, AtTerms,
         Differ
<1>1. LeftOf(p) \in Universe /\ RightOf(p) \in Universe
  BY <1>0, FirstPair
<1>2. CASE Match(p, b, q, c)
  <2>1. I.val[LeftOf(p)] = I.val[RightOf(p)]
    BY <1>1, <1>2, IdenticalSame DEF Match
  <2> QED
    BY <1>0, <1>2, <2>1, SolvesFirst DEF Match
<1>3. CASE FollowVar(p, b, q, c)
  <2>1. /\ Var(p) \in Vars /\ Other(p) \in Universe /\ {Var(p), Other(p)} = {LeftOf(p), RightOf(p)}
        /\ Var(p) \in DOMAIN b /\ b[Var(p)] \in Universe
    BY <1>3, VariableType, BindingType DEF FollowVar
  <2>2. SolvesBindings(I, b) /\ I.val[LeftOf(p)] = I.val[RightOf(p)]
            <=> SolvesBindings(I, b) /\ I.val[b[Var(p)]] = I.val[Other(p)]
    BY <2>1 DEF SolvesBindings
  <2>3. q = << <<b[Var(p)], Other(p)>> >> \o Tail(p) /\ c = b
    BY <1>3 DEF FollowVar
  <2>4. I.val[b[Var(p)]] = I.val[Other(p)] <=> SolvesPairs(I, << <<b[Var(p)], Other(p)>> >>)
    BY <2>1, OnePair
  <2> DEFINE front == << <<b[Var(p)], Other(p)>> >>
  <2>5. front \in Seq(Universe \X Universe)
    BY <2>1, OnePending
  <2>6. SolvesBindings(I, b) /\ I.val[LeftOf(p)] = I.val[RightOf(p)]
            <=> SolvesBindings(I, b) /\ SolvesPairs(I, front)
    BY <2>2, <2>4
  <2>7. q = front \o Tail(p) /\ c = b
    BY <2>3
  <2> HIDE DEF front
  <2> QED
    BY <1>0, <2>5, <2>6, <2>7, GoOnSolutions
<1>4. CASE FollowOther(p, b, q, c)
  <2>1. /\ Var(p) \in Universe /\ {Var(p), Other(p)} = {LeftOf(p), RightOf(p)}
        /\ Other(p) \in DOMAIN b /\ b[Other(p)] \in Universe
    BY <1>4, VariableType, BindingType DEF FollowOther, Vars
  <2>2. SolvesBindings(I, b) /\ I.val[LeftOf(p)] = I.val[RightOf(p)]
            <=> SolvesBindings(I, b) /\ I.val[Var(p)] = I.val[b[Other(p)]]
    BY <2>1 DEF SolvesBindings
  <2>3. q = << <<Var(p), b[Other(p)]>> >> \o Tail(p) /\ c = b
    BY <1>4 DEF FollowOther
  <2>4. I.val[Var(p)] = I.val[b[Other(p)]] <=> SolvesPairs(I, << <<Var(p), b[Other(p)]>> >>)
    BY <2>1, OnePair
  <2> DEFINE front == << <<Var(p), b[Other(p)]>> >>
  <2>5. front \in Seq(Universe \X Universe)
    BY <2>1, OnePending
  <2>6. SolvesBindings(I, b) /\ I.val[LeftOf(p)] = I.val[RightOf(p)]
            <=> SolvesBindings(I, b) /\ SolvesPairs(I, front)
    BY <2>2, <2>4
  <2>7. q = front \o Tail(p) /\ c = b
    BY <2>3
  <2> HIDE DEF front
  <2> QED
    BY <1>0, <2>5, <2>6, <2>7, GoOnSolutions
<1>5. CASE Bind(p, b, q, c)
  <2>1. /\ Var(p) \in Vars /\ Other(p) \in Universe /\ {Var(p), Other(p)} = {LeftOf(p), RightOf(p)}
        /\ Var(p) \notin DOMAIN b
    BY <1>5, VariableType DEF Bind, AtUnbound
  <2>2. SolvesBindings(I, b) /\ I.val[Var(p)] = I.val[Other(p)]
            <=> SolvesBindings(I, AddBinding(b, Var(p), Other(p)))
    BY <2>1 DEF SolvesBindings, AddBinding
  <2>3. I.val[LeftOf(p)] = I.val[RightOf(p)] <=> I.val[Var(p)] = I.val[Other(p)]
    BY <2>1
  <2>4. q = Tail(p) /\ c = AddBinding(b, Var(p), Other(p))
    BY <1>5 DEF Bind
  <2> QED
    BY <1>0, <2>2, <2>3, <2>4, SolvesFirst
<1>6. CASE Decompose(p, b, q, c)
  <2>1. LeftOf(p) \in Universe \ Vars /\ RightOf(p) \in Universe \ Vars
    BY <1>6, TermsType DEF Decompose
  <2>2. Decomposable(LeftOf(p), RightOf(p))
    BY <1>6 DEF Decompose
  <2>3. I.val[LeftOf(p)] = I.val[RightOf(p)]
            <=> SolvesPairs(I, Pairs(LeftOf(p).args, RightOf(p).args))
    BY <2>1, <2>2, DecomposableSame
  <2>4. Pairs(LeftOf(p).args, RightOf(p).args) \in Seq(Universe \X Universe)
    BY <2>1, <2>2, DecomposedType
  <2>5. q = Pairs(LeftOf(p).args, RightOf(p).args) \o Tail(p) /\ c = b
    BY <1>6 DEF Decompose
  <2> DEFINE front == Pairs(LeftOf(p).args, RightOf(p).args)
  <2>6. /\ front \in Seq(Universe \X Universe) /\ q = front \o Tail(p) /\ c = b
        /\ I.val[LeftOf(p)] = I.val[RightOf(p)] <=> SolvesPairs(I, front)
    BY <2>3, <2>4, <2>5
  <2> HIDE DEF front
  <2> QED
    BY <1>0, <2>6, GoOnSolutions
<1> QED
  BY <1>2, <1>3, <1>4, <1>5, <1>6 DEF GoesOn

(***************************************************************************)
(* An activation that returns nullopt had no solution left.                 *)
(***************************************************************************)
LEMMA FailureHasNoSolution ==
    ASSUME NEW I, IsInterpretation(I),
           NEW p, IsPending(p), NEW b \in BindingSet, Fails(p, b)
    PROVE  ~(SolvesBindings(I, b) /\ SolvesPairs(I, p))
<1>1. p # << >>
  BY DEF Fails, FailOccurs, Clash, AtUnbound, AtVariable, AtTerms, Differ
<1> SUFFICES ASSUME SolvesBindings(I, b) PROVE I.val[LeftOf(p)] # I.val[RightOf(p)]
  BY <1>1, SolvesFirst
<1>2. CASE FailOccurs(p, b)
  <2>1. /\ Var(p) \in Vars /\ Other(p) \in Universe /\ Var(p) # Other(p)
        /\ {Var(p), Other(p)} = {LeftOf(p), RightOf(p)}
        /\ Other(p) \notin DOMAIN b /\ OccursCheck(Var(p), Other(p), b)
    BY <1>2, VariableType DEF FailOccurs, AtUnbound
  <2>2. I.val[Var(p)] # I.val[Other(p)]
    BY <2>1, OccursMeansNoSolution
  <2> QED
    BY <2>1, <2>2
<1>3. CASE Clash(p)
  <2>1. LeftOf(p) \in Universe \ Vars /\ RightOf(p) \in Universe \ Vars
    BY <1>3, TermsType DEF Clash
  <2> QED
    BY <1>3, <2>1, ClashDiffers DEF Clash, AtTerms, Differ
<1> QED
  BY <1>2, <1>3 DEF Fails

--------------------------------------------------------------------------------
(* A whole call *)

LEMMA LeadsInto ==
    ASSUME NEW s, NEW e, LeadsTo(s, e),
           NEW S \in SUBSET Configurations, s \in S, ClosedUnderSteps(S)
    PROVE  e \in S
BY DEF LeadsTo

LEMMA LeadsFromItself ==
    ASSUME NEW s \in Configurations PROVE LeadsTo(s, s)
BY DEF LeadsTo

LEMMA LeadsOn ==
    ASSUME NEW s, NEW e, LeadsTo(s, e),
           NEW n \in Configurations, GoesOn(e[1], e[2], n[1], n[2])
    PROVE  LeadsTo(s, n)
<1> SUFFICES ASSUME NEW S \in SUBSET Configurations, s \in S, ClosedUnderSteps(S) PROVE n \in S
  BY DEF LeadsTo
<1>1. e \in S
  BY LeadsInto
<1> QED
  BY <1>1 DEF ClosedUnderSteps

LEMMA ConfigurationParts ==
    ASSUME NEW e \in Configurations
    PROVE  IsPending(e[1]) /\ e[2] \in BindingSet
BY DEF Configurations, IsPending

LEMMA CallStarts ==
    ASSUME NEW g, NEW f, HasTerms(g), HasTerms(f), SameSignature(g, f), NEW b \in BindingSet
    PROVE  /\ <<Pairs(g.terms, f.terms), b>> \in Configurations
           /\ \A I : SolvesPairs(I, Pairs(g.terms, f.terms)) <=> Unifies(I, g, f)
           /\ \A C : TermsWithin(g, C) /\ TermsWithin(f, C) => PairsWithin(Pairs(g.terms, f.terms), C)
<1>1. Pairs(g.terms, f.terms) \in Seq(Universe \X Universe)
  BY PairsType DEF HasTerms, SameSignature
<1>2. \A I : SolvesPairs(I, Pairs(g.terms, f.terms)) <=> Unifies(I, g, f)
  BY DEF SolvesPairs, Pairs, Unifies
<1>3. \A k \in DOMAIN g.terms : k \in DOMAIN f.terms
  BY DEF HasTerms, SameSignature
<1>4. \A C : TermsWithin(g, C) /\ TermsWithin(f, C) => PairsWithin(Pairs(g.terms, f.terms), C)
  BY <1>3 DEF TermsWithin, PairsWithin, Pairs
<1> QED
  BY <1>1, <1>2, <1>4 DEF Configurations

(* What a call ends with has the solutions it began with. *)
LEMMA CallSolutions ==
    ASSUME NEW I, IsInterpretation(I),
           NEW s \in Configurations, NEW e, LeadsTo(s, e)
    PROVE  SolvesBindings(I, e[2]) /\ SolvesPairs(I, e[1])
               <=> SolvesBindings(I, s[2]) /\ SolvesPairs(I, s[1])
<1> DEFINE S == {d \in Configurations :
                    SolvesBindings(I, d[2]) /\ SolvesPairs(I, d[1])
                        <=> SolvesBindings(I, s[2]) /\ SolvesPairs(I, s[1])}
<1>1. ASSUME NEW d \in S, NEW n \in Configurations, GoesOn(d[1], d[2], n[1], n[2])
      PROVE  n \in S
  <2>1. d \in Configurations
    OBVIOUS
  <2>2. SolvesBindings(I, d[2]) /\ SolvesPairs(I, d[1])
            <=> SolvesBindings(I, n[2]) /\ SolvesPairs(I, n[1])
    BY <1>1, <2>1, ConfigurationParts, StepSolutions
  <2> QED
    BY <2>2
<1>2. ClosedUnderSteps(S)
  BY <1>1 DEF ClosedUnderSteps
<1>3. e \in S
  <2>1. S \in SUBSET Configurations /\ s \in S
    OBVIOUS
  <2> HIDE DEF S
  <2> QED
    BY <1>2, <2>1, LeadsInto
<1> QED
  BY <1>3

(* Nor is a cycle made, a binding replaced, or a term made. *)
LEMMA CallAcyclic ==
    ASSUME NEW s \in Configurations, Acyclic(s[2]), NEW e, LeadsTo(s, e)
    PROVE  Acyclic(e[2])
<1> DEFINE S == {d \in Configurations : Acyclic(d[2])}
<1>1. ASSUME NEW d \in S, NEW n \in Configurations, GoesOn(d[1], d[2], n[1], n[2])
      PROVE  n \in S
  BY <1>1, ConfigurationParts, StepAcyclic
<1>2. ClosedUnderSteps(S)
  BY <1>1 DEF ClosedUnderSteps
<1>3. e \in S
  <2>1. S \in SUBSET Configurations /\ s \in S
    OBVIOUS
  <2> HIDE DEF S
  <2> QED
    BY <1>2, <2>1, LeadsInto
<1> QED
  BY <1>3

LEMMA CallWithin ==
    ASSUME NEW C \in SUBSET Universe, ArgsClosed(C),
           NEW s \in Configurations, InHand(s[1], s[2], C), NEW e, LeadsTo(s, e)
    PROVE  InHand(e[1], e[2], C)
<1> DEFINE S == {d \in Configurations : InHand(d[1], d[2], C)}
<1>1. ASSUME NEW d \in S, NEW n \in Configurations, GoesOn(d[1], d[2], n[1], n[2])
      PROVE  n \in S
  BY <1>1, ConfigurationParts, StepWithin
<1>2. ClosedUnderSteps(S)
  BY <1>1 DEF ClosedUnderSteps
<1>3. e \in S
  <2>1. S \in SUBSET Configurations /\ s \in S
    OBVIOUS
  <2> HIDE DEF S
  <2> QED
    BY <1>2, <2>1, LeadsInto
<1> QED
  BY <1>3

(***************************************************************************)
(* What Unifier::unify returns has exactly the solutions of the bindings    *)
(* and the literals it was given; it returns nullopt only if there are      *)
(* none.  (unify, unifyTerms, unifyImpl and unifyVariable together.)        *)
(***************************************************************************)
THEOREM UnifyReturnsUnifier ==
    ASSUME NEW goal, NEW fact, HasTerms(goal), HasTerms(fact), NEW b \in BindingSet,
           NEW r, UnifyReturns(goal, fact, b, r),
           NEW I, IsInterpretation(I)
    PROVE  \/ r = << >> /\ ~(SolvesBindings(I, b) /\ Unifies(I, goal, fact))
           \/ \E c \in BindingSet :
                 r = <<c>> /\ (SolvesBindings(I, c) <=> SolvesBindings(I, b) /\ Unifies(I, goal, fact))
<1>1. CASE ~SameSignature(goal, fact)
  BY <1>1 DEF UnifyReturns, Unifies
<1>2. CASE SameSignature(goal, fact)
  <2> DEFINE s == <<Pairs(goal.terms, fact.terms), b>>
  <2>1. PICK e \in Configurations :
            /\ LeadsTo(s, e)
            /\ \/ e[1] = << >> /\ r = <<e[2]>>
               \/ Fails(e[1], e[2]) /\ r = << >>
    BY <1>2 DEF UnifyReturns
  <2>2. /\ s \in Configurations /\ s[2] = b
        /\ SolvesPairs(I, s[1]) <=> Unifies(I, goal, fact)
    BY <1>2, CallStarts
  <2> HIDE DEF s
  <2>3. SolvesBindings(I, e[2]) /\ SolvesPairs(I, e[1])
            <=> SolvesBindings(I, b) /\ Unifies(I, goal, fact)
    BY <2>1, <2>2, CallSolutions
  <2>4. CASE e[1] = << >> /\ r = <<e[2]>>
    <3>1. SolvesPairs(I, e[1])
      BY <2>4 DEF SolvesPairs
    <3> QED
      BY <2>3, <2>4, <3>1, ConfigurationParts
  <2>5. CASE Fails(e[1], e[2]) /\ r = << >>
    BY <2>3, <2>5, ConfigurationParts, FailureHasNoSolution
  <2> QED
    BY <2>1, <2>4, <2>5
<1> QED
  BY <1>1, <1>2

(***************************************************************************)
(* It binds no variable to a term that leads back to it, and makes no term  *)
(* and draws no name: what it binds lies in every set, closed under         *)
(* arguments, that holds what it was given.                                *)
(***************************************************************************)
THEOREM UnifyKeepsToTheGiven ==
    ASSUME NEW goal, NEW fact, HasTerms(goal), HasTerms(fact), NEW b \in BindingSet,
           NEW c, UnifyReturns(goal, fact, b, <<c>>)
    PROVE  /\ Acyclic(b) => Acyclic(c)
           /\ \A C \in SUBSET Universe :
                  ArgsClosed(C) /\ BindsWithin(b, C) /\ TermsWithin(goal, C) /\ TermsWithin(fact, C)
                      => BindsWithin(c, C)
<1> DEFINE s == <<Pairs(goal.terms, fact.terms), b>>
<1>1. <<c>> # << >> /\ \A d : <<c>> = <<d>> => c = d
  OBVIOUS
<1>2. SameSignature(goal, fact)
  BY <1>1 DEF UnifyReturns
<1>3. PICK e \in Configurations : LeadsTo(s, e) /\ c = e[2]
  BY <1>1 DEF UnifyReturns
<1>4. s \in Configurations /\ s[1] = Pairs(goal.terms, fact.terms) /\ s[2] = b
  BY <1>2, CallStarts
<1> HIDE DEF s
<1>5. Acyclic(b) => Acyclic(c)
  BY <1>3, <1>4, CallAcyclic
<1>6. ASSUME NEW C \in SUBSET Universe, ArgsClosed(C), BindsWithin(b, C),
             TermsWithin(goal, C), TermsWithin(fact, C)
      PROVE  BindsWithin(c, C)
  <2>1. InHand(s[1], s[2], C)
    BY <1>2, <1>4, <1>6, CallStarts DEF InHand
  <2>2. InHand(e[1], e[2], C)
    BY <1>3, <1>4, <1>6, <2>1, CallWithin
  <2> QED
    BY <1>3, <2>2 DEF InHand
<1> QED
  BY <1>5, <1>6

--------------------------------------------------------------------------------
(* Induction over the numbers, with a set for the predicate. *)

Below == {p \in Nat \X Nat : p[1] < p[2]}

LEMMA BelowWF == IsWellFoundedOn(Below, Nat)
<1>1. OpToRel(<, Nat) = Below
  BY DEF OpToRel, Below
<1> QED
  BY <1>1, NatLessThanWellFounded

LEMMA SetInduction ==
    ASSUME NEW S, 0 \in S, \A n \in Nat : n \in S => n + 1 \in S
    PROVE  Nat \subseteq S
<1> DEFINE T == Nat \ S
<1> SUFFICES ASSUME T # {} PROVE FALSE
  OBVIOUS
<1>1. PICK x \in T : \A y \in T : <<y, x>> \notin Below
  <2>1. T \subseteq Nat
    OBVIOUS
  <2> HIDE DEF T
  <2> QED
    BY <2>1, BelowWF, WFMin
<1>2. x # 0 /\ x \in Nat
  OBVIOUS
<1>3. x - 1 \in Nat /\ x - 1 < x /\ x - 1 + 1 = x
  BY <1>2
<1>4. x - 1 \in T
  BY <1>2, <1>3
<1>5. <<x - 1, x>> \in Below
  BY <1>2, <1>3 DEF Below
<1> QED
  BY <1>1, <1>4, <1>5

(* Of any terms some are smallest. *)
LEMMA SmallestTerm ==
    ASSUME NEW I, IsInterpretation(I), NEW T \in SUBSET Universe, T # {}
    PROVE  \E t \in T : \A u \in Universe : I.size[u] < I.size[t] => u \notin T
<1> DEFINE N == {I.size[t] : t \in T}
<1>1. N \subseteq Nat /\ N # {}
  BY DEF IsInterpretation
<1>2. \A t \in T : I.size[t] \in N
  OBVIOUS
<1> HIDE DEF N
<1>3. PICK n \in N : \A k \in N : <<k, n>> \notin Below
  BY <1>1, BelowWF, WFMin
<1>4. PICK t \in T : I.size[t] = n
  BY <1>3 DEF N
<1>5. ASSUME NEW u \in T, I.size[u] < n PROVE FALSE
  BY <1>1, <1>2, <1>3, <1>5 DEF Below
<1> QED
  BY <1>4, <1>5

--------------------------------------------------------------------------------
(* Variables replaced *)

LEMMA ArgsVars ==
    ASSUME NEW t \in Universe, NEW i \in DOMAIN t.args
    PROVE  t.args[i] \in Universe /\ VarsOf[t.args[i]] \subseteq VarsOf[t]
<1>1. t.args[i] \in Universe
  BY ArgsType
<1>2. \A C : t \in C /\ ArgsClosed(C) => t.args[i] \in C
  BY DEF ArgsClosed
<1> QED
  BY <1>1, <1>2 DEF VarsOf

LEMMA VarOfItself ==
    ASSUME NEW x \in Vars
    PROVE  x \in Universe /\ VarsOf[x] = {x}
<1>1. x \in Universe
  BY DEF Vars
<1>2. ArgsClosed({x}) /\ {x} \in SUBSET Universe
  BY <1>1, ArgsType DEF ArgsClosed
<1> QED
  BY <1>1, <1>2 DEF VarsOf

(* The variables of a renamed term are the new names of its variables. *)
LEMMA RenamedVars ==
    ASSUME NEW new, Renames(new), NEW t \in Universe
    PROVE  new[t] \in Universe /\ VarsOf[new[t]] \subseteq {new[x] : x \in VarsOf[t]}
<1>1. \A u \in Universe : new[u] \in Universe
  BY DEF Renames, Rebuilds
<1> DEFINE Parts == {s \in Universe : \A C \in SUBSET Universe : t \in C /\ ArgsClosed(C) => s \in C}
           D == {new[s] : s \in Parts}
<1>2. t \in Parts /\ Parts \subseteq Universe
  OBVIOUS
<1>3. \A s \in Parts : \A i \in DOMAIN s.args : s.args[i] \in Parts
  BY ArgsType DEF ArgsClosed
<1>4. Parts \cap Vars = VarsOf[t]
  BY DEF VarsOf, Vars
<1> HIDE DEF Parts
<1>5. D \in SUBSET Universe /\ new[t] \in D
  BY <1>1, <1>2
<1>6. ArgsClosed(D)
  <2> SUFFICES ASSUME NEW s \in Parts, NEW i \in DOMAIN new[s].args PROVE new[s].args[i] \in D
    BY DEF ArgsClosed
  <2>1. s \in Universe /\ new[s] \in Universe
    BY <1>1, <1>2
  <2>2. CASE s \in Vars
    BY <2>1, <2>2, ArgsType DEF Renames
  <2>3. CASE s \notin Vars
    <3>1. SameShape(s, new[s]) /\ \A k \in DOMAIN s.args : new[s].args[k] = new[s.args[k]]
      BY <2>1, <2>3 DEF Renames, Rebuilds
    <3>2. i \in DOMAIN s.args
      BY <2>1, <3>1, ArgsType DEF SameShape
    <3> QED
      BY <1>3, <3>1, <3>2
  <2> QED
    BY <2>2, <2>3
<1>7. ASSUME NEW y \in VarsOf[new[t]] PROVE \E x \in VarsOf[t] : y = new[x]
  <2>1. y \in Vars /\ y \in D
    BY <1>1, <1>5, <1>6 DEF VarsOf
  <2>2. PICK s \in Parts : y = new[s]
    BY <2>1
  <2>3. s \in Vars
    BY <1>2, <2>1, <2>2 DEF Renames, Rebuilds
  <2> QED
    BY <1>4, <2>2, <2>3
<1> QED
  BY <1>1, <1>7

(* A term rebuilt over variables that stand for the same is the same. *)
LEMMA RebuiltTree ==
    ASSUME NEW new, Rebuilds(new), NEW I, NEW J, IsInterpretation(I), BuildAlike(I, J),
           NEW t \in Universe, \A x \in VarsOf[t] : I.val[x] = J.val[new[x]]
    PROVE  I.val[t] = J.val[new[t]]
<1> DEFINE Alike(u) == \A x \in VarsOf[u] : I.val[x] = J.val[new[x]]
           T == {u \in Universe : Alike(u) /\ I.val[u] # J.val[new[u]]}
<1> SUFFICES ASSUME T # {} PROVE FALSE
  OBVIOUS
<1>1. T \in SUBSET Universe
  OBVIOUS
<1>2. PICK u \in T : \A s \in Universe : I.size[s] < I.size[u] => s \notin T
  <2> HIDE DEF T
  <2> QED
    BY <1>1, SmallestTerm
<1>3. u \in Universe /\ Alike(u) /\ I.val[u] # J.val[new[u]]
  OBVIOUS
<1>4. u \notin Vars
  BY <1>3, VarOfItself
<1>5. ASSUME NEW i \in DOMAIN u.args PROVE I.val[u.args[i]] = J.val[new[u].args[i]]
  <2>1. u.args[i] \in Universe /\ Alike(u.args[i]) /\ I.size[u.args[i]] < I.size[u]
    BY <1>3, ArgsVars DEF IsInterpretation
  <2>2. I.val[u.args[i]] = J.val[new[u.args[i]]]
    BY <1>2, <2>1
  <2> QED
    BY <1>3, <1>4, <2>2 DEF Rebuilds
<1>6. new[u] \in Universe \ Vars /\ SameShape(u, new[u])
  BY <1>3, <1>4 DEF Rebuilds
<1> QED
  BY <1>3, <1>4, <1>5, <1>6 DEF BuildAlike

(***************************************************************************)
(* Where the bindings are solved, a term is the same as what resolving it   *)
(* makes of it.  Take a smallest term that is not: it is a bound variable,  *)
(* and its value is another; but the bindings have no cycle.                *)
(***************************************************************************)
LEMMA ResolvedTree ==
    ASSUME NEW b \in BindingSet, Acyclic(b), NEW new, Resolves(new, b),
           NEW I, IsInterpretation(I), SolvesBindings(I, b), NEW t \in Universe
    PROVE  I.val[t] = I.val[new[t]]
<1> DEFINE T == {u \in Universe : I.val[u] # I.val[new[u]]}
<1> SUFFICES ASSUME T # {} PROVE FALSE
  OBVIOUS
<1>1. T \in SUBSET Universe
  OBVIOUS
<1>2. PICK u \in T : \A s \in Universe : I.size[s] < I.size[u] => s \notin T
  <2> HIDE DEF T
  <2> QED
    BY <1>1, SmallestTerm
<1> DEFINE S == {v \in T : I.size[v] = I.size[u]}
<1>3. ASSUME NEW v \in S PROVE v \in DOMAIN b /\ b[v] \in S
  <2>1. v \in Universe /\ I.val[v] # I.val[new[v]] /\ I.size[v] = I.size[u]
    OBVIOUS
  <2>2. v \in Vars
    <3> SUFFICES ASSUME v \notin Vars PROVE FALSE
      OBVIOUS
    <3>1. ASSUME NEW i \in DOMAIN v.args PROVE I.val[v.args[i]] = I.val[new[v].args[i]]
      <4>1. v.args[i] \in Universe /\ I.size[v.args[i]] < I.size[u]
        BY <2>1, ArgsType DEF IsInterpretation
      <4>2. I.val[v.args[i]] = I.val[new[v.args[i]]]
        BY <1>2, <4>1
      <4> QED
        BY <2>1, <4>2 DEF Resolves, Rebuilds
    <3>2. new[v] \in Universe \ Vars /\ SameShape(v, new[v])
      BY <2>1 DEF Resolves, Rebuilds
    <3> QED
      BY <2>1, <3>1, <3>2 DEF IsInterpretation
  <2>3. v \in DOMAIN b /\ new[v] = new[b[v]]
    BY <2>1, <2>2 DEF Resolves
  <2>4. b[v] \in Universe /\ I.val[v] = I.val[b[v]]
    BY <2>3, BindingType DEF SolvesBindings
  <2>5. I.size[b[v]] = I.size[v]
    BY <2>1, <2>4 DEF IsInterpretation
  <2> QED
    BY <2>1, <2>3, <2>4, <2>5
<1>4. u \in S
  OBVIOUS
<1> HIDE DEF S, T
<1>5. S \in SUBSET DOMAIN b /\ S # {} /\ S \subseteq Vars
  BY <1>3, <1>4, BindingType
<1>6. PICK v \in S : VarsOf[b[v]] \cap S = {}
  BY <1>5 DEF Acyclic
<1> QED
  BY <1>3, <1>5, <1>6, VarOfItself

--------------------------------------------------------------------------------
(* Following terms down to their arguments and variables to their values ends. *)

LEMMA InterpretedTermsFinite ==
    ASSUME NEW I, IsInterpretation(I) PROVE TermsAreFinite
<1> SUFFICES ASSUME NEW T \in SUBSET Universe, T # {}
             PROVE  \E t \in T : \A i \in DOMAIN t.args : t.args[i] \notin T
  BY DEF TermsAreFinite
<1>1. PICK t \in T : \A u \in Universe : I.size[u] < I.size[t] => u \notin T
  BY SmallestTerm
<1>2. \A i \in DOMAIN t.args : t.args[i] \in Universe /\ I.size[t.args[i]] < I.size[t]
  BY ArgsType DEF IsInterpretation
<1> QED
  BY <1>1, <1>2

LEMMA PartsType ==
    ASSUME NEW t \in Universe, NEW b \in BindingSet
    PROVE  /\ PartsUnder(t, b) \subseteq Universe
           /\ \A i \in DOMAIN t.args : t.args[i] \in PartsUnder(t, b)
           /\ t \in DOMAIN b => b[t] \in PartsUnder(t, b)
BY ArgsType, BindingType DEF PartsUnder

(***************************************************************************)
(* resolveTerm and occursCheck end: no walk from terms to their arguments   *)
(* and from bound variables to their values goes on for ever.              *)
(***************************************************************************)
THEOREM FollowingEnds ==
    ASSUME TermsAreFinite, NEW b \in BindingSet, Acyclic(b),
           NEW T \in SUBSET Universe, T # {}
    PROVE  \E t \in T : PartsUnder(t, b) \cap T = {}
<1> DEFINE V == T \cap DOMAIN b
<1>1. CASE V = {}
  <2>1. PICK t \in T : \A i \in DOMAIN t.args : t.args[i] \notin T
    BY DEF TermsAreFinite
  <2> QED
    BY <1>1, <2>1 DEF PartsUnder
<1>2. CASE V # {}
  <2>1. PICK v \in V : VarsOf[b[v]] \cap V = {}
    BY <1>2 DEF Acyclic
  <2>2. v \in T /\ v \in DOMAIN b /\ v \in Vars /\ b[v] \in Universe
    BY BindingType
  <2> DEFINE U == {t \in T : VarsOf[t] \cap V = {}}
  <2>3. CASE b[v] \notin T
    <3>1. v.args = << >>
      BY <2>2, ArgsType
    <3>2. PartsUnder(v, b) = {b[v]}
      BY <2>2, <3>1 DEF PartsUnder
    <3> QED
      BY <2>2, <2>3, <3>2
  <2>4. CASE b[v] \in T
    <3>1. U # {} /\ U \in SUBSET Universe
      BY <2>1, <2>4
    <3> HIDE DEF U
    <3>2. PICK t \in U : \A i \in DOMAIN t.args : t.args[i] \notin U
      BY <3>1 DEF TermsAreFinite
    <3>3. t \in T /\ t \in Universe /\ VarsOf[t] \cap V = {}
      BY <3>2 DEF U
    <3>4. \A i \in DOMAIN t.args : t.args[i] \notin T
      <4> SUFFICES ASSUME NEW i \in DOMAIN t.args, t.args[i] \in T PROVE FALSE
        OBVIOUS
      <4>1. VarsOf[t.args[i]] \subseteq VarsOf[t]
        BY <3>3, ArgsVars
      <4>2. t.args[i] \in U
        BY <3>3, <4>1 DEF U
      <4> QED
        BY <3>2, <4>2
    <3>5. t \notin DOMAIN b
      <4> SUFFICES ASSUME t \in DOMAIN b PROVE FALSE
        OBVIOUS
      <4>1. t \in V /\ t \in Vars
        BY <3>3, BindingType
      <4> QED
        BY <3>3, <4>1, VarOfItself
    <3> QED
      BY <3>3, <3>4, <3>5 DEF PartsUnder
  <2> QED
    BY <2>3, <2>4
<1> QED
  BY <1>1, <1>2

--------------------------------------------------------------------------------
(* A call that has come to its end, and one that comes to it. *)

Final(e) == e[1] = << >> \/ Fails(e[1], e[2])

EndsFrom(p, b) == \E e \in Configurations : LeadsTo(<<p, b>>, e) /\ Final(e)

LEMMA FinalEnds ==
    ASSUME NEW p, IsPending(p), NEW b \in BindingSet, p = << >> \/ Fails(p, b)
    PROVE  EndsFrom(p, b)
<1> DEFINE e == <<p, b>>
<1>1. e \in Configurations /\ e[1] = p /\ e[2] = b
  BY DEF Configurations, IsPending
<1> HIDE DEF e
<1>2. LeadsTo(e, e) /\ Final(e)
  BY <1>1, LeadsFromItself DEF Final
<1> QED
  BY <1>1, <1>2 DEF EndsFrom, e

LEMMA EndsAfter ==
    ASSUME NEW p, IsPending(p), NEW b \in BindingSet, NEW q, NEW c, GoesOn(p, b, q, c), EndsFrom(q, c)
    PROVE  EndsFrom(p, b)
<1> DEFINE s == <<p, b>>
           n == <<q, c>>
<1>1. n \in Configurations /\ s[1] = p /\ s[2] = b /\ n[1] = q /\ n[2] = c
  BY StepTypes DEF Configurations, IsPending
<1>2. PICK e \in Configurations : LeadsTo(n, e) /\ Final(e)
  BY DEF EndsFrom
<1> HIDE DEF s, n
<1>3. LeadsTo(s, e)
  <2> SUFFICES ASSUME NEW S \in SUBSET Configurations, s \in S, ClosedUnderSteps(S) PROVE e \in S
    BY DEF LeadsTo
  <2>1. n \in S
    BY <1>1 DEF ClosedUnderSteps
  <2> QED
    BY <1>2, <2>1, LeadsInto
<1> QED
  BY <1>2, <1>3 DEF EndsFrom, s

--------------------------------------------------------------------------------
(* Sets of terms that a call does not leave. *)

ClosedUnder(C, b) == \A t \in C : PartsUnder(t, b) \subseteq C

Unbound(C, b) == (C \cap Vars) \ DOMAIN b

(* Whatever is bound to whatever in C, the rest of the call ends. *)
BindingEnds(C, b) ==
    \A v \in Unbound(C, b), t \in C : \A q :
        ~OccursCheck(v, t, b) /\ IsPending(q) /\ PairsWithin(q, C)
            => EndsFrom(q, AddBinding(b, v, t))

(* A call that would end still does if it has another pair to unify first. *)
Cat(s, t) == s \o t

First(t, u, q) == Cat(<< <<t, u>> >>, q)

LooksAt(p, t, u, q) == p # << >> /\ LeftOf(p) = t /\ RightOf(p) = u /\ Tail(p) = q

PairEnds(C, b, t, u) ==
    \A q : IsPending(q) /\ PairsWithin(q, C) /\ EndsFrom(q, b) => EndsFrom(First(t, u, q), b)

FrontEnds(C, b) ==
    \A front \in Seq(Universe \X Universe) : \A q :
        PairsWithin(front, C) /\ (\A k \in DOMAIN front : PairEnds(C, b, front[k][1], front[k][2])) =>
            (IsPending(q) /\ PairsWithin(q, C) /\ EndsFrom(q, b) => EndsFrom(Cat(front, q), b))

BothEnd(C, b, t, u) == PairEnds(C, b, t, u) /\ PairEnds(C, b, u, t)

LEMMA SameSequences ==
    ASSUME NEW S, NEW s \in Seq(S), NEW t \in Seq(S), Len(s) = Len(t), \A i \in 1..Len(s) : s[i] = t[i]
    PROVE  s = t
OBVIOUS

IsCat(r, s, t, S) ==
    /\ r \in Seq(S) /\ Len(r) = Len(s) + Len(t) /\ Len(s) \in Nat /\ Len(t) \in Nat
    /\ \A i \in 1..(Len(s) + Len(t)) : r[i] = IF i <= Len(s) THEN s[i] ELSE t[i - Len(s)]

LEMMA CatParts ==
    ASSUME NEW S, NEW s, s \in Seq(S), NEW t, t \in Seq(S)
    PROVE  IsCat(Cat(s, t), s, t, S)
BY DEF Cat, IsCat

LEMMA FirstFacts ==
    ASSUME NEW C \in SUBSET Universe, NEW t \in C, NEW u \in C, NEW q, IsPending(q), PairsWithin(q, C)
    PROVE  /\ IsPending(First(t, u, q)) /\ PairsWithin(First(t, u, q), C)
           /\ LooksAt(First(t, u, q), t, u, q)
<1> DEFINE h == << <<t, u>> >>
           p == First(t, u, q)
           S == Universe \X Universe
<1>1. h \in Seq(S) /\ q \in Seq(S) /\ Len(h) = 1 /\ h[1] = <<t, u>>
  BY DEF IsPending
<1>2. PairsWithin(h, C)
  BY OneWithin
<1>3. p = Cat(h, q)
  BY DEF First
<1>s. S = Universe \X Universe
  OBVIOUS
<1> HIDE DEF h, p, S
<1>4. /\ p \in Seq(S) /\ Len(p) = 1 + Len(q) /\ Len(q) \in Nat
      /\ \A i \in 1..(1 + Len(q)) : p[i] = IF i <= 1 THEN h[i] ELSE q[i - 1]
  <2>1. IsCat(p, h, q, S)
    BY <1>1, <1>3, CatParts
  <2> QED
    BY <1>1, <2>1 DEF IsCat
<1>5. p[1] = <<t, u>>
  BY <1>1, <1>4
<1>6. ASSUME NEW i \in 1..Len(q) PROVE p[i + 1] = q[i]
  <2>1. i + 1 \in 1..(1 + Len(q)) /\ ~(i + 1 <= 1) /\ i + 1 - 1 = i
    BY <1>4
  <2> QED
    BY <1>4, <2>1
<1>7. p # << >>
  BY <1>4
<1>8. Tail(p) \in Seq(S) /\ Len(Tail(p)) = Len(q) /\ \A i \in 1..Len(q) : Tail(p)[i] = p[i + 1]
  BY <1>4, <1>7
<1>9. Tail(p) = q
  BY <1>1, <1>6, <1>8, SameSequences
<1>10. PairsWithin(p, C)
  BY <1>1, <1>2, <1>3, <1>s, ConcatWithin DEF Cat
<1> QED
  BY <1>4, <1>5, <1>7, <1>9, <1>10, <1>s DEF p, IsPending, LeftOf, RightOf, LooksAt

PartsEnd(C, b, t, u) ==
    /\ \A t1 \in PartsUnder(t, b) : BothEnd(C, b, t1, u)
    /\ \A u1 \in PartsUnder(u, b) : BothEnd(C, b, t, u1)
    /\ \A t1 \in PartsUnder(t, b), u1 \in PartsUnder(u, b) : BothEnd(C, b, t1, u1)

LEMMA PairEndsIfPartsDo ==
    ASSUME NEW C \in SUBSET Universe, NEW b \in BindingSet, ClosedUnder(C, b), BindingEnds(C, b),
           NEW t \in C, NEW u \in C,
           PartsEnd(C, b, t, u), FrontEnds(C, b)
    PROVE  PairEnds(C, b, t, u)
<1>0. \A q : IsPending(q) /\ PairsWithin(q, C) =>
          /\ IsPending(First(t, u, q)) /\ PairsWithin(First(t, u, q), C)
          /\ LooksAt(First(t, u, q), t, u, q)
  BY FirstFacts
<1> SUFFICES ASSUME NEW q, IsPending(q), PairsWithin(q, C), EndsFrom(q, b),
                    NEW p, p = First(t, u, q)
             PROVE  EndsFrom(p, b)
  BY DEF PairEnds
<1>1. /\ IsPending(p) /\ PairsWithin(p, C) /\ p # << >>
      /\ LeftOf(p) = t /\ RightOf(p) = u /\ Tail(p) = q
  BY <1>0 DEF LooksAt
<1>2. CASE Fails(p, b)
  BY <1>1, <1>2, FinalEnds
<1>3. CASE Match(p, b, q, b)
  BY <1>1, <1>3, EndsAfter DEF GoesOn
<1>4. CASE AtVariable(p)
  <2>1. /\ Var(p) \in Vars /\ Var(p) \in C /\ Other(p) \in C
        /\ \/ Var(p) = t /\ Other(p) = u
           \/ Var(p) = u /\ Other(p) = t /\ t \notin Vars
    <3>1. Var(p) \in Vars
      BY <1>1, <1>4, VariableType
    <3> QED
      BY <1>1, <1>4, <3>1 DEF Var, Other, Vars
  <2>2. CASE Var(p) \in DOMAIN b
    <3> DEFINE v == Var(p)
               n == First(b[v], Other(p), q)
    <3>1. b[v] \in PartsUnder(v, b)
      BY <2>2 DEF PartsUnder
    <3>2. PairEnds(C, b, b[v], Other(p))
      BY <2>1, <3>1 DEF PartsEnd, BothEnd
    <3>3. EndsFrom(n, b)
      BY <3>2 DEF PairEnds
    <3>4. GoesOn(p, b, n, b)
      BY <1>1, <1>4, <2>2 DEF GoesOn, FollowVar, First, Cat
    <3> QED
      BY <1>1, <3>3, <3>4, EndsAfter
  <2>3. CASE Var(p) \notin DOMAIN b /\ Other(p) \in DOMAIN b
    <3> DEFINE v == Var(p)
               o == Other(p)
               n == First(v, b[o], q)
    <3>1. b[o] \in PartsUnder(o, b) /\ o \in Vars
      BY <2>3, BindingType DEF PartsUnder
    <3>2. PairEnds(C, b, v, b[o])
      BY <2>1, <3>1 DEF PartsEnd, BothEnd
    <3>3. EndsFrom(n, b)
      BY <3>2 DEF PairEnds
    <3>4. GoesOn(p, b, n, b)
      BY <1>1, <1>4, <2>3 DEF GoesOn, FollowOther, First, Cat
    <3> QED
      BY <1>1, <3>3, <3>4, EndsAfter
  <2>4. CASE AtUnbound(p, b) /\ ~OccursCheck(Var(p), Other(p), b)
    <3>1. Var(p) \in Unbound(C, b)
      BY <2>1, <2>4 DEF Unbound, AtUnbound
    <3>2. EndsFrom(q, AddBinding(b, Var(p), Other(p)))
      BY <2>1, <2>4, <3>1 DEF BindingEnds
    <3>3. GoesOn(p, b, q, AddBinding(b, Var(p), Other(p)))
      BY <1>1, <2>4 DEF GoesOn, Bind
    <3> QED
      BY <1>1, <3>2, <3>3, EndsAfter
  <2> QED
    BY <1>2, <1>4, <2>2, <2>3, <2>4 DEF Fails, FailOccurs, AtUnbound
<1>5. CASE AtTerms(p) /\ Decomposable(t, u)
  <2> DEFINE front == Pairs(t.args, u.args)
             n == Cat(front, q)
  <2>1. t \in Universe /\ u \in Universe
    OBVIOUS
  <2>2. /\ front \in Seq(Universe \X Universe) /\ t.args \in Seq(Universe) /\ u.args \in Seq(Universe)
        /\ DOMAIN t.args = DOMAIN u.args
    BY <1>5, <2>1, DecomposedType, ArgsType
  <2>3. /\ DOMAIN front = DOMAIN t.args
        /\ \A k \in DOMAIN front : front[k][1] = t.args[k] /\ front[k][2] = u.args[k]
    BY DEF Pairs
  <2> HIDE DEF front
  <2>4. ASSUME NEW k \in DOMAIN front
        PROVE  /\ front[k][1] \in C /\ front[k][2] \in C
               /\ PairEnds(C, b, front[k][1], front[k][2])
    <3>1. t.args[k] \in PartsUnder(t, b) /\ u.args[k] \in PartsUnder(u, b)
      BY <2>2, <2>3 DEF PartsUnder
    <3> QED
      BY <2>3, <3>1 DEF PartsEnd, BothEnd, ClosedUnder
  <2>5. PairsWithin(front, C)
    BY <2>4 DEF PairsWithin
  <2>6. EndsFrom(n, b)
    BY <2>2, <2>4, <2>5 DEF FrontEnds
  <2>7. GoesOn(p, b, n, b)
    BY <1>1, <1>5 DEF GoesOn, Decompose, front, Cat
  <2> QED
    BY <1>1, <2>6, <2>7, EndsAfter
<1>6. Fails(p, b) \/ Match(p, b, q, b) \/ AtVariable(p) \/ (AtTerms(p) /\ Decomposable(t, u))
  BY <1>1 DEF Match, AtVariable, AtTerms, Differ, Fails, Clash
<1> QED
  BY <1>2, <1>3, <1>4, <1>5, <1>6

--------------------------------------------------------------------------------
(* Pairs that end one by one end one after the other. *)

IsRest(rest, front, q) ==
    /\ rest \in Seq(Universe \X Universe) /\ Len(rest) = Len(front) - 1
    /\ \A k \in DOMAIN rest : k + 1 \in DOMAIN front /\ rest[k] = front[k + 1]
    /\ 1 \in DOMAIN front
    /\ Cat(front, q) = First(front[1][1], front[1][2], Cat(rest, q))

LEMMA FirstOfFront ==
    ASSUME NEW front, front \in Seq(Universe \X Universe), Len(front) # 0, NEW q, IsPending(q)
    PROVE  \E rest : IsRest(rest, front, q)
<1> DEFINE S == Universe \X Universe
           rest == Tail(front)
           h == << <<front[1][1], front[1][2]>> >>
<1>1. /\ front \in Seq(S) /\ q \in Seq(S) /\ Len(front) \in Nat \ {0} /\ DOMAIN front = 1..Len(front)
  BY DEF IsPending
<1>2. 1 \in DOMAIN front /\ front[1] \in S
  BY <1>1
<1>3. front[1] = <<front[1][1], front[1][2]>>
  BY <1>2
<1>4. h \in Seq(S) /\ Len(h) = 1 /\ h[1] = front[1]
  BY <1>2, <1>3
<1>s. S = Universe \X Universe /\ First(front[1][1], front[1][2], Cat(rest, q)) = Cat(h, Cat(rest, q))
  BY DEF First
<1> HIDE DEF S, h
<1>5. rest \in Seq(S) /\ Len(rest) = Len(front) - 1 /\ \A k \in 1..(Len(front) - 1) : rest[k] = front[k + 1]
  BY <1>1
<1> HIDE DEF rest
<1>6. \A k \in DOMAIN rest : k + 1 \in DOMAIN front /\ rest[k] = front[k + 1]
  <2>1. DOMAIN rest = 1..(Len(front) - 1)
    BY <1>5
  <2> QED
    BY <1>1, <1>5, <2>1
<1>7. /\ Cat(front, q) \in Seq(S) /\ Len(Cat(front, q)) = Len(front) + Len(q) /\ Len(q) \in Nat
      /\ \A i \in 1..(Len(front) + Len(q)) :
             Cat(front, q)[i] = IF i <= Len(front) THEN front[i] ELSE q[i - Len(front)]
  <2>1. IsCat(Cat(front, q), front, q, S)
    BY <1>1, CatParts
  <2> QED
    BY <2>1 DEF IsCat
<1>8. /\ Cat(rest, q) \in Seq(S) /\ Len(Cat(rest, q)) = Len(rest) + Len(q)
      /\ \A i \in 1..(Len(rest) + Len(q)) :
             Cat(rest, q)[i] = IF i <= Len(rest) THEN rest[i] ELSE q[i - Len(rest)]
  <2>1. IsCat(Cat(rest, q), rest, q, S)
    BY <1>1, <1>5, CatParts
  <2> QED
    BY <2>1 DEF IsCat
<1> DEFINE all == Cat(h, Cat(rest, q))
<1>9. /\ all \in Seq(S) /\ Len(all) = Len(h) + Len(Cat(rest, q))
      /\ \A i \in 1..(Len(h) + Len(Cat(rest, q))) :
             all[i] = IF i <= Len(h) THEN h[i] ELSE Cat(rest, q)[i - Len(h)]
  <2>1. IsCat(all, h, Cat(rest, q), S)
    BY <1>4, <1>8, CatParts
  <2> HIDE DEF all
  <2> QED
    BY <2>1 DEF IsCat
<1> HIDE DEF all
<1>10. Len(all) = Len(Cat(front, q))
  BY <1>1, <1>4, <1>5, <1>7, <1>8, <1>9
<1>11. ASSUME NEW i \in 1..Len(all) PROVE all[i] = Cat(front, q)[i]
  <2>1. CASE i = 1
    BY <1>1, <1>4, <1>7, <1>8, <1>9, <1>5, <2>1
  <2>2. CASE i # 1 /\ i <= Len(front)
    <3>1. all[i] = Cat(rest, q)[i - 1]
      BY <1>4, <1>9, <2>2
    <3>2. i - 1 \in 1..(Len(front) - 1) /\ i - 1 + 1 = i /\ i - 1 <= Len(rest)
      BY <1>1, <1>5, <2>2
    <3>3. Cat(rest, q)[i - 1] = rest[i - 1]
      BY <1>5, <1>7, <1>8, <3>2
    <3>4. rest[i - 1] = front[i]
      BY <1>5, <3>2
    <3>5. Cat(front, q)[i] = front[i]
      BY <1>1, <1>7, <2>2
    <3> QED
      BY <3>1, <3>3, <3>4, <3>5
  <2>3. CASE i > Len(front)
    <3>0. i \in 1..(Len(front) + Len(q)) /\ i # 1 /\ ~(i <= Len(front))
      BY <1>1, <1>7, <1>10, <2>3
    <3>1. all[i] = Cat(rest, q)[i - 1]
      BY <1>1, <1>4, <1>9, <2>3, <3>0
    <3>2. /\ i - 1 \in 1..(Len(rest) + Len(q)) /\ ~(i - 1 <= Len(rest))
          /\ i - 1 - Len(rest) = i - Len(front)
      BY <1>1, <1>5, <1>7, <3>0
    <3>3. Cat(rest, q)[i - 1] = q[i - Len(front)]
      BY <1>8, <3>2
    <3>4. Cat(front, q)[i] = q[i - Len(front)]
      BY <1>7, <3>0
    <3> QED
      BY <3>1, <3>3, <3>4
  <2> QED
    BY <1>1, <2>1, <2>2, <2>3
<1>12. all = Cat(front, q)
  BY <1>7, <1>9, <1>10, <1>11, SameSequences
<1> QED
  BY <1>1, <1>2, <1>5, <1>6, <1>12, <1>s DEF IsRest, all

FrontEndsToo(C, b, front) ==
    PairsWithin(front, C) /\ (\A k \in DOMAIN front : PairEnds(C, b, front[k][1], front[k][2])) =>
        \A q : IsPending(q) /\ PairsWithin(q, C) /\ EndsFrom(q, b) =>
                  /\ IsPending(Cat(front, q)) /\ PairsWithin(Cat(front, q), C)
                  /\ EndsFrom(Cat(front, q), b)

LEMMA FrontsEnd ==
    ASSUME NEW C \in SUBSET Universe, NEW b \in BindingSet
    PROVE  FrontEnds(C, b)
<1> DEFINE L == {n \in Nat : \A front \in Seq(Universe \X Universe) :
                                  Len(front) = n => FrontEndsToo(C, b, front)}
<1>1. 0 \in L
  <2> SUFFICES ASSUME NEW front \in Seq(Universe \X Universe), Len(front) = 0,
                      NEW q, IsPending(q), PairsWithin(q, C), EndsFrom(q, b)
               PROVE  IsPending(Cat(front, q)) /\ PairsWithin(Cat(front, q), C) /\ EndsFrom(Cat(front, q), b)
    BY DEF FrontEndsToo
  <2>1. Cat(front, q) = q
    BY DEF Cat, IsPending
  <2> QED
    BY <2>1
<1>2. ASSUME NEW n \in Nat, n \in L PROVE n + 1 \in L
  <2> SUFFICES ASSUME NEW front \in Seq(Universe \X Universe), Len(front) = n + 1,
                      PairsWithin(front, C),
                      \A k \in DOMAIN front : PairEnds(C, b, front[k][1], front[k][2]),
                      NEW q, IsPending(q), PairsWithin(q, C), EndsFrom(q, b)
               PROVE  IsPending(Cat(front, q)) /\ PairsWithin(Cat(front, q), C) /\ EndsFrom(Cat(front, q), b)
    BY DEF FrontEndsToo
  <2>0. PICK rest : IsRest(rest, front, q)
    <3>1. Len(front) # 0
      OBVIOUS
    <3> QED
      BY <3>1, FirstOfFront
  <2>1. /\ rest \in Seq(Universe \X Universe) /\ Len(rest) = Len(front) - 1
        /\ \A k \in DOMAIN rest : k + 1 \in DOMAIN front /\ rest[k] = front[k + 1]
        /\ 1 \in DOMAIN front
        /\ Cat(front, q) = First(front[1][1], front[1][2], Cat(rest, q))
    BY <2>0 DEF IsRest
  <2>2. Len(rest) = n
    BY <2>1
  <2>3. PairsWithin(rest, C) /\ \A k \in DOMAIN rest : PairEnds(C, b, rest[k][1], rest[k][2])
    BY <2>1 DEF PairsWithin
  <2>4. IsPending(Cat(rest, q)) /\ PairsWithin(Cat(rest, q), C) /\ EndsFrom(Cat(rest, q), b)
    <3>1. FrontEndsToo(C, b, rest)
      BY <1>2, <2>1, <2>2
    <3> QED
      BY <2>3, <3>1 DEF FrontEndsToo
  <2>5. front[1][1] \in C /\ front[1][2] \in C /\ PairEnds(C, b, front[1][1], front[1][2])
    BY <2>1 DEF PairsWithin
  <2>6. /\ IsPending(First(front[1][1], front[1][2], Cat(rest, q)))
        /\ PairsWithin(First(front[1][1], front[1][2], Cat(rest, q)), C)
    BY <2>4, <2>5, FirstFacts
  <2>7. EndsFrom(First(front[1][1], front[1][2], Cat(rest, q)), b)
    BY <2>4, <2>5 DEF PairEnds
  <2> QED
    BY <2>1, <2>6, <2>7
<1> HIDE DEF L
<1>3. Nat \subseteq L
  BY <1>1, <1>2, SetInduction
<1>4. ASSUME NEW front \in Seq(Universe \X Universe) PROVE FrontEndsToo(C, b, front)
  <2>1. Len(front) \in L
    BY <1>3
  <2> QED
    BY <2>1 DEF L
<1>5. ASSUME NEW front \in Seq(Universe \X Universe), NEW q, PairsWithin(front, C),
             \A k \in DOMAIN front : PairEnds(C, b, front[k][1], front[k][2]),
             IsPending(q), PairsWithin(q, C), EndsFrom(q, b)
      PROVE  EndsFrom(Cat(front, q), b)
  <2>1. FrontEndsToo(C, b, front)
    BY <1>4
  <2> QED
    BY <1>5, <2>1 DEF FrontEndsToo
<1> QED
  BY <1>5 DEF FrontEnds

--------------------------------------------------------------------------------
(* Following bindings ends, so every pair does, and any number of them.  *)

LEMMA AllPairsEnd ==
    ASSUME TermsAreFinite, NEW C \in SUBSET Universe, NEW b \in BindingSet, Acyclic(b),
           ClosedUnder(C, b), BindingEnds(C, b)
    PROVE  \A t, u \in C : PairEnds(C, b, t, u)
<1> DEFINE S == {t \in C : \E u \in C : ~BothEnd(C, b, t, u)}
<1>1. S = {}
  <2> SUFFICES ASSUME S # {} PROVE FALSE
    OBVIOUS
  <2>1. S \in SUBSET Universe
    OBVIOUS
  <2> HIDE DEF S
  <2>2. PICK t \in S : PartsUnder(t, b) \cap S = {}
    BY <2>1, FollowingEnds
  <2>3. t \in C /\ t \in Universe /\ PartsUnder(t, b) \subseteq C
    BY <2>2 DEF S, ClosedUnder
  <2> DEFINE U == {u \in C : ~BothEnd(C, b, t, u)}
  <2>4. U # {} /\ U \in SUBSET Universe
    BY <2>2 DEF S
  <2> HIDE DEF U
  <2>5. PICK u \in U : PartsUnder(u, b) \cap U = {}
    BY <2>4, FollowingEnds
  <2>6. u \in C /\ u \in Universe /\ PartsUnder(u, b) \subseteq C /\ ~BothEnd(C, b, t, u)
    BY <2>5 DEF U, ClosedUnder
  <2>7. \A t1 \in PartsUnder(t, b) : \A w \in C : BothEnd(C, b, t1, w)
    BY <2>2, <2>3 DEF S
  <2>8. \A u1 \in PartsUnder(u, b) : BothEnd(C, b, t, u1)
    BY <2>5, <2>6 DEF U
  <2>9. PartsEnd(C, b, t, u)
    BY <2>6, <2>7, <2>8 DEF PartsEnd
  <2>10. PartsEnd(C, b, u, t)
    BY <2>9 DEF PartsEnd, BothEnd
  <2>11. PairEnds(C, b, t, u)
    BY <2>3, <2>6, <2>9, FrontsEnd, PairEndsIfPartsDo
  <2>12. PairEnds(C, b, u, t)
    BY <2>3, <2>6, <2>10, FrontsEnd, PairEndsIfPartsDo
  <2> QED
    BY <2>6, <2>11, <2>12 DEF BothEnd
<1> QED
  BY <1>1 DEF BothEnd

LEMMA EndsIfBindingDoes ==
    ASSUME TermsAreFinite, NEW C \in SUBSET Universe, NEW b \in BindingSet, Acyclic(b),
           ClosedUnder(C, b), BindingEnds(C, b), NEW p, IsPending(p), PairsWithin(p, C)
    PROVE  EndsFrom(p, b)
<1>1. p \in Seq(Universe \X Universe)
  BY DEF IsPending
<1>2. IsPending(<< >>) /\ PairsWithin(<< >>, C)
  BY DEF IsPending, PairsWithin
<1>3. EndsFrom(<< >>, b)
  BY <1>2, FinalEnds
<1>4. \A k \in DOMAIN p : PairEnds(C, b, p[k][1], p[k][2])
  BY AllPairsEnd DEF PairsWithin
<1>5. EndsFrom(Cat(p, << >>), b)
  BY <1>1, <1>2, <1>3, <1>4, FrontsEnd DEF FrontEnds
<1>6. Cat(p, << >>) = p
  BY <1>1 DEF Cat
<1> QED
  BY <1>5, <1>6

(* Each binding leaves one variable fewer to bind. *)
LEMMA BoundOnce ==
    ASSUME NEW C \in SUBSET Universe, NEW b \in BindingSet, ClosedUnder(C, b),
           NEW v \in Unbound(C, b), NEW t \in C
    PROVE  /\ AddBinding(b, v, t) \in BindingSet
           /\ ClosedUnder(C, AddBinding(b, v, t))
           /\ Unbound(C, AddBinding(b, v, t)) = Unbound(C, b) \ {v}
<1> DEFINE c == AddBinding(b, v, t)
<1>1. v \in Vars /\ v \in C /\ v \notin DOMAIN b
  BY DEF Unbound
<1>2. /\ c \in BindingSet /\ DOMAIN c = DOMAIN b \cup {v} /\ c[v] = t
      /\ \A w \in DOMAIN b : w # v => c[w] = b[w]
  BY <1>1, AddBindingType
<1> HIDE DEF c
<1>3. ASSUME NEW u \in C PROVE PartsUnder(u, c) \subseteq C
  <2>1. PartsUnder(u, b) \subseteq C
    BY DEF ClosedUnder
  <2>2. u \in DOMAIN c => c[u] \in C
    BY <1>1, <1>2, <2>1 DEF PartsUnder
  <2> QED
    BY <2>1, <2>2 DEF PartsUnder
<1>4. ClosedUnder(C, c)
  BY <1>3 DEF ClosedUnder
<1>5. Unbound(C, c) = Unbound(C, b) \ {v}
  BY <1>2 DEF Unbound
<1> QED
  BY <1>2, <1>4, <1>5 DEF c

Remain(C, b, n) == IsFiniteSet(Unbound(C, b)) /\ Cardinality(Unbound(C, b)) = n

EndsWith(C, n) ==
    \A b \in BindingSet : \A p :
        Acyclic(b) /\ ClosedUnder(C, b) /\ Remain(C, b, n) =>
            (IsPending(p) /\ PairsWithin(p, C) => EndsFrom(p, b))

LEMMA EndsWhateverIsUnbound ==
    ASSUME TermsAreFinite, NEW C \in SUBSET Universe
    PROVE  \A n \in Nat : EndsWith(C, n)
<1> DEFINE L == {n \in Nat : EndsWith(C, n)}
<1>1. 0 \in L
  <2> SUFFICES ASSUME NEW b \in BindingSet, NEW p, Acyclic(b), ClosedUnder(C, b),
                      Remain(C, b, 0),
                      IsPending(p), PairsWithin(p, C)
               PROVE  EndsFrom(p, b)
    BY DEF EndsWith
  <2>1. Unbound(C, b) = {}
    BY FS_EmptySet DEF Remain
  <2>2. BindingEnds(C, b)
    BY <2>1 DEF BindingEnds
  <2> QED
    BY <2>2, EndsIfBindingDoes
<1>2. ASSUME NEW n \in Nat, n \in L PROVE n + 1 \in L
  <2> SUFFICES ASSUME NEW b \in BindingSet, NEW p, Acyclic(b), ClosedUnder(C, b),
                      Remain(C, b, n + 1),
                      IsPending(p), PairsWithin(p, C)
               PROVE  EndsFrom(p, b)
    BY DEF EndsWith
  <2>1. ASSUME NEW v \in Unbound(C, b), NEW t \in C, NEW q, ~OccursCheck(v, t, b),
               IsPending(q), PairsWithin(q, C)
        PROVE  EndsFrom(q, AddBinding(b, v, t))
    <3> SUFFICES ASSUME NEW c, c = AddBinding(b, v, t) PROVE EndsFrom(q, c)
      OBVIOUS
    <3>1. v \in Vars /\ v \notin DOMAIN b /\ t \in Universe
      BY DEF Unbound
    <3>2. c \in BindingSet /\ ClosedUnder(C, c) /\ Unbound(C, c) = Unbound(C, b) \ {v}
      BY BoundOnce
    <3>3. Acyclic(c)
      BY <2>1, <3>1, AddBindingAcyclic
    <3>4. IsFiniteSet(Unbound(C, b) \ {v}) /\ Cardinality(Unbound(C, b) \ {v}) = n + 1 - 1
      <4>1. IsFiniteSet(Unbound(C, b)) /\ Cardinality(Unbound(C, b)) = n + 1
        BY DEF Remain
      <4>2. v \in Unbound(C, b)
        OBVIOUS
      <4> HIDE DEF Unbound
      <4>3. /\ IsFiniteSet(Unbound(C, b) \ {v})
            /\ Cardinality(Unbound(C, b) \ {v}) = Cardinality(Unbound(C, b)) - 1
        BY <4>1, <4>2, FS_RemoveElement
      <4> QED
        BY <4>1, <4>3
    <3>5. Remain(C, c, n)
      BY <3>2, <3>4 DEF Remain
    <3> QED
      BY <1>2, <2>1, <3>2, <3>3, <3>5 DEF EndsWith
  <2>2. BindingEnds(C, b)
    BY <2>1 DEF BindingEnds
  <2> QED
    BY <2>2, EndsIfBindingDoes
<1> HIDE DEF L
<1>3. Nat \subseteq L
  BY <1>1, <1>2, SetInduction
<1> QED
  BY <1>3 DEF L

--------------------------------------------------------------------------------
(* Every call has such a set, with finitely many variables left to bind. *)

Confined(C, b) == C \subseteq Universe /\ ClosedUnder(C, b) /\ IsFiniteSet(Unbound(C, b))

LEMMA ConfinedTogether ==
    ASSUME NEW b \in BindingSet, NEW C, Confined(C, b), NEW D, Confined(D, b)
    PROVE  Confined(C \cup D, b)
<1>1. Unbound(C \cup D, b) = Unbound(C, b) \cup Unbound(D, b)
  BY DEF Unbound
<1>2. IsFiniteSet(Unbound(C, b) \cup Unbound(D, b))
  BY FS_Union DEF Confined
<1> QED
  BY <1>1, <1>2 DEF Confined, ClosedUnder

LEMMA NothingConfined ==
    ASSUME NEW b \in BindingSet PROVE Confined({}, b)
<1>1. Unbound({}, b) = {}
  BY DEF Unbound
<1> QED
  BY <1>1, FS_EmptySet DEF Confined, ClosedUnder

LEMMA ConfinedOneByOne ==
    ASSUME NEW b \in BindingSet, NEW s \in Seq(Universe),
           \A i \in DOMAIN s : \E C : Confined(C, b) /\ s[i] \in C
    PROVE  \E C : Confined(C, b) /\ \A i \in DOMAIN s : s[i] \in C
<1> DEFINE Within(C, n) == Confined(C, b) /\ \A i \in 1..n : s[i] \in C
           L == {n \in Nat : n <= Len(s) => \E C : Within(C, n)}
<1>1. 0 \in L
  <2>1. Within({}, 0)
    BY NothingConfined
  <2> QED
    BY <2>1
<1>2. ASSUME NEW n \in Nat, n \in L PROVE n + 1 \in L
  <2> SUFFICES ASSUME n + 1 <= Len(s) PROVE \E C : Within(C, n + 1)
    OBVIOUS
  <2>1. PICK C : Within(C, n)
    BY <1>2
  <2>2. PICK D : Confined(D, b) /\ s[n + 1] \in D
    OBVIOUS
  <2>3. Confined(C \cup D, b)
    BY <2>1, <2>2, ConfinedTogether
  <2>4. Within(C \cup D, n + 1)
    BY <2>1, <2>2, <2>3
  <2> QED
    BY <2>4
<1> HIDE DEF L
<1>3. Nat \subseteq L
  BY <1>1, <1>2, SetInduction
<1>4. Len(s) \in L
  BY <1>3
<1>5. PICK C : Within(C, Len(s))
  BY <1>4 DEF L
<1> QED
  BY <1>5

LEMMA EveryTermConfined ==
    ASSUME TermsAreFinite, NEW b \in BindingSet, Acyclic(b)
    PROVE  \A t \in Universe : \E C : Confined(C, b) /\ t \in C
<1> DEFINE S == {t \in Universe : ~\E C : Confined(C, b) /\ t \in C}
<1> SUFFICES ASSUME S # {} PROVE FALSE
  OBVIOUS
<1>1. S \in SUBSET Universe
  OBVIOUS
<1> HIDE DEF S
<1>2. PICK t \in S : PartsUnder(t, b) \cap S = {}
  BY <1>1, FollowingEnds
<1>3. t \in Universe /\ ~\E C : Confined(C, b) /\ t \in C
  BY <1>2 DEF S
<1>4. ASSUME NEW u \in PartsUnder(t, b) PROVE \E C : Confined(C, b) /\ u \in C
  BY <1>2, <1>3, PartsType DEF S
<1>5. t.args \in Seq(Universe) /\ \A i \in DOMAIN t.args : t.args[i] \in PartsUnder(t, b)
  BY <1>3, ArgsType, PartsType
<1>6. PICK A : Confined(A, b) /\ \A i \in DOMAIN t.args : t.args[i] \in A
  BY <1>4, <1>5, ConfinedOneByOne
<1>7. PICK B : Confined(B, b) /\ (t \in DOMAIN b => b[t] \in B)
  <2>1. CASE t \in DOMAIN b
    BY <1>3, <1>4, <2>1, PartsType
  <2>2. CASE t \notin DOMAIN b
    BY <2>2, NothingConfined
  <2> QED
    BY <2>1, <2>2
<1> DEFINE P == A \cup B
<1>8. Confined(P, b) /\ PartsUnder(t, b) \subseteq P
  BY <1>6, <1>7, ConfinedTogether DEF PartsUnder
<1> HIDE DEF P
<1>9. Unbound(P \cup {t}, b) \subseteq Unbound(P, b) \cup {t}
  BY DEF Unbound
<1>10. IsFiniteSet(Unbound(P \cup {t}, b))
  <2>1. IsFiniteSet(Unbound(P, b) \cup {t})
    BY <1>8, FS_AddElement DEF Confined
  <2> QED
    BY <1>9, <2>1, FS_Subset
<1>11. Confined(P \cup {t}, b)
  BY <1>3, <1>8, <1>10 DEF Confined, ClosedUnder
<1> QED
  BY <1>3, <1>11

(***************************************************************************)
(* Given the unifier's own binding sets, a call of unify returns: no order  *)
(* of the pairs and no chain of bindings keeps unifyImpl going for ever.    *)
(***************************************************************************)
THEOREM UnifyEnds ==
    ASSUME TermsAreFinite, NEW goal, HasTerms(goal), NEW fact, HasTerms(fact),
           NEW b \in BindingSet, Acyclic(b)
    PROVE  \E r : UnifyReturns(goal, fact, b, r)
<1>1. CASE ~SameSignature(goal, fact)
  BY <1>1 DEF UnifyReturns
<1>2. CASE SameSignature(goal, fact)
  <2> DEFINE p == Pairs(goal.terms, fact.terms)
  <2>1. /\ goal.terms \in Seq(Universe) /\ fact.terms \in Seq(Universe)
        /\ Len(goal.terms) = Len(fact.terms)
    BY <1>2 DEF HasTerms, SameSignature
  <2>2. PICK C : Confined(C, b) /\ \A i \in DOMAIN goal.terms : goal.terms[i] \in C
    BY <2>1, EveryTermConfined, ConfinedOneByOne
  <2>3. PICK D : Confined(D, b) /\ \A i \in DOMAIN fact.terms : fact.terms[i] \in D
    BY <2>1, EveryTermConfined, ConfinedOneByOne
  <2> DEFINE K == C \cup D
  <2>4. Confined(K, b)
    BY <2>2, <2>3, ConfinedTogether
  <2>5. IsPending(p) /\ PairsWithin(p, K)
    BY <2>1, <2>2, <2>3, PairsType DEF IsPending, PairsWithin, Pairs
  <2>6. K \in SUBSET Universe /\ ClosedUnder(K, b) /\ IsFiniteSet(Unbound(K, b))
    BY <2>4 DEF Confined
  <2> HIDE DEF K, p
  <2> DEFINE n == Cardinality(Unbound(K, b))
  <2>7. n \in Nat /\ Remain(K, b, n)
    BY <2>6, FS_CardinalityType DEF Remain
  <2>8. EndsWith(K, n)
    BY <2>6, <2>7, EndsWhateverIsUnbound
  <2>9. EndsFrom(p, b)
    BY <2>5, <2>6, <2>7, <2>8 DEF EndsWith
  <2>10. PICK e \in Configurations : LeadsTo(<<p, b>>, e) /\ Final(e)
    BY <2>9 DEF EndsFrom
  <2> QED
    BY <1>2, <2>10 DEF UnifyReturns, Final, p
<1> QED
  BY <1>1, <1>2

--------------------------------------------------------------------------------
(* At most one activation is next, and none after the last: what a call returns is one result. *)

LEMMA OneWayOn ==
    ASSUME NEW p, NEW b, NEW q1, NEW c1, NEW q2, NEW c2, GoesOn(p, b, q1, c1), GoesOn(p, b, q2, c2)
    PROVE  q1 = q2 /\ c1 = c2
BY DEF GoesOn, Match, FollowVar, FollowOther, Bind, Decompose, AtUnbound, AtVariable, AtTerms, Differ

LEMMA NoWayOn ==
    ASSUME NEW e, Final(e), NEW q, NEW c PROVE ~GoesOn(e[1], e[2], q, c)
BY DEF Final, Fails, FailOccurs, Clash, GoesOn, Match, FollowVar, FollowOther, Bind, Decompose,
       AtUnbound, AtVariable, AtTerms, Differ

LEMMA LastIsOne ==
    ASSUME NEW s \in Configurations, NEW e1, NEW e2,
           LeadsTo(s, e1), Final(e1), LeadsTo(s, e2), Final(e2)
    PROVE  e1 = e2
<1>0. e1 \in Configurations /\ e2 \in Configurations
  BY DEF LeadsTo
<1> DEFINE S == {d \in Configurations : LeadsTo(d, e1)}
<1>1. s \in S /\ S \in SUBSET Configurations
  OBVIOUS
<1>2. ASSUME NEW d \in S, NEW n \in Configurations, GoesOn(d[1], d[2], n[1], n[2]) PROVE n \in S
  <2>1. d \in Configurations /\ LeadsTo(d, e1) /\ d # e1
    BY <1>2, NoWayOn
  <2> SUFFICES ASSUME NEW T \in SUBSET Configurations, n \in T, ClosedUnderSteps(T) PROVE e1 \in T
    BY <1>0 DEF LeadsTo
  <2>2. ASSUME NEW m \in Configurations, GoesOn(d[1], d[2], m[1], m[2]) PROVE m = n
    <3>1. m[1] = n[1] /\ m[2] = n[2]
      BY <1>2, <2>2, OneWayOn
    <3> QED
      BY <3>1 DEF Configurations
  <2>3. ClosedUnderSteps(T \cup {d})
    BY <2>2 DEF ClosedUnderSteps
  <2>4. e1 \in T \cup {d}
    BY <2>1, <2>3 DEF LeadsTo
  <2> QED
    BY <2>1, <2>4
<1>3. ClosedUnderSteps(S)
  <2> HIDE DEF S
  <2> QED
    BY <1>2 DEF ClosedUnderSteps
<1>4. e2 \in S
  <2> HIDE DEF S
  <2> QED
    BY <1>1, <1>3, LeadsInto
<1>5. {e2} \in SUBSET Configurations /\ ClosedUnderSteps({e2})
  BY <1>0, NoWayOn DEF ClosedUnderSteps
<1>6. e1 \in {e2}
  BY <1>4, <1>5 DEF LeadsTo
<1> QED
  BY <1>6

(***************************************************************************)
(* What a call of unify returns is settled by its arguments: two runs of    *)
(* the same call do not end differently.                                   *)
(***************************************************************************)
THEOREM UnifyReturnsOne ==
    ASSUME NEW goal, HasTerms(goal), NEW fact, HasTerms(fact), NEW b \in BindingSet,
           NEW r1, UnifyReturns(goal, fact, b, r1), NEW r2, UnifyReturns(goal, fact, b, r2)
    PROVE  r1 = r2
<1>1. CASE ~SameSignature(goal, fact)
  BY <1>1 DEF UnifyReturns
<1>2. CASE SameSignature(goal, fact)
  <2> DEFINE s == <<Pairs(goal.terms, fact.terms), b>>
  <2>1. s \in Configurations
    BY <1>2, PairsType DEF HasTerms, SameSignature, Configurations
  <2>2. PICK e1 \in Configurations :
            /\ LeadsTo(s, e1)
            /\ \/ e1[1] = << >> /\ r1 = <<e1[2]>>
               \/ Fails(e1[1], e1[2]) /\ r1 = << >>
    BY <1>2 DEF UnifyReturns
  <2>3. PICK e2 \in Configurations :
            /\ LeadsTo(s, e2)
            /\ \/ e2[1] = << >> /\ r2 = <<e2[2]>>
               \/ Fails(e2[1], e2[2]) /\ r2 = << >>
    BY <1>2 DEF UnifyReturns
  <2> HIDE DEF s
  <2>4. e1 = e2
    BY <2>1, <2>2, <2>3, LastIsOne DEF Final
  <2>5. Fails(e1[1], e1[2]) => e1[1] # << >>
    BY DEF Fails, FailOccurs, Clash, AtUnbound, AtVariable, AtTerms, Differ
  <2> QED
    BY <2>2, <2>3, <2>4, <2>5
<1> QED
  BY <1>1, <1>2

(***************************************************************************)
(* A call has one result for its arguments, and it always has one.          *)
(***************************************************************************)
WhatUnifyReturns(goal, fact, b) == CHOOSE r : UnifyReturns(goal, fact, b, r)

THEOREM UnifyIsAFunction ==
    ASSUME TermsAreFinite, NEW goal, HasTerms(goal), NEW fact, HasTerms(fact),
           NEW b \in BindingSet, Acyclic(b), NEW r
    PROVE  UnifyReturns(goal, fact, b, r) <=> r = WhatUnifyReturns(goal, fact, b)
<1>1. \E s : UnifyReturns(goal, fact, b, s)
  BY UnifyEnds
<1>2. UnifyReturns(goal, fact, b, WhatUnifyReturns(goal, fact, b))
  BY <1>1 DEF WhatUnifyReturns
<1> QED
  BY <1>2, UnifyReturnsOne

--------------------------------------------------------------------------------
(* Unifiers in the sense of textbooks: substitutions that make terms the same. *)

LEMMA SameLength ==
    \A s, r \in Seq(Universe) : Len(s) = Len(r) => DOMAIN s = DOMAIN r
OBVIOUS

(* Terms resolved are an interpretation: what a term denotes is what it resolves to. *)
LEMMA ResolvingInterprets ==
    ASSUME ToldByParts, NEW J, IsInterpretation(J), NEW b \in BindingSet, NEW new, Resolves(new, b)
    PROVE  LET I == [val |-> new, size |-> [t \in Universe |-> J.size[new[t]]]]
           IN  IsInterpretation(I) /\ SolvesBindings(I, b)
<1> DEFINE I == [val |-> new, size |-> [t \in Universe |-> J.size[new[t]]]]
<1>1. /\ \A t \in Universe : new[t] \in Universe
      /\ \A t \in Universe \ Vars :
            /\ new[t] \in Universe \ Vars /\ SameShape(t, new[t])
            /\ \A i \in DOMAIN t.args : new[t].args[i] = new[t.args[i]]
  BY DEF Resolves, Rebuilds
<1>2. I.val = new /\ \A t \in Universe : I.size[t] = J.size[new[t]]
  OBVIOUS
<1> HIDE DEF I
<1>3. ASSUME NEW t \in Universe
      PROVE  I.size[t] \in Nat /\ \A i \in DOMAIN t.args : I.size[t.args[i]] < I.size[t]
  <2>1. I.size[t] \in Nat
    BY <1>1, <1>2 DEF IsInterpretation
  <2>2. ASSUME NEW i \in DOMAIN t.args PROVE I.size[t.args[i]] < I.size[t]
    <3>1. t.args[i] \in Universe /\ t \notin Vars
      BY ArgsType
    <3>2. new[t] \in Universe /\ i \in DOMAIN new[t].args /\ new[t].args[i] = new[t.args[i]]
      <4>1. new[t] \in Universe /\ SameShape(t, new[t]) /\ new[t].args[i] = new[t.args[i]]
        BY <1>1, <3>1
      <4> QED
        BY <4>1, ArgsType DEF SameShape
    <3>3. J.size[new[t].args[i]] < J.size[new[t]]
      BY <3>2 DEF IsInterpretation
    <3> QED
      BY <1>2, <3>1, <3>2, <3>3
  <2> QED
    BY <2>1, <2>2
<1>4. \A t, u \in Universe : I.val[t] = I.val[u] => I.size[t] = I.size[u]
  BY <1>2
<1>5. ASSUME NEW t \in Universe \ Vars, NEW u \in Universe \ Vars
      PROVE  new[t] = new[u] <=>
                 SameShape(t, u) /\ \A i \in DOMAIN t.args : new[t.args[i]] = new[u.args[i]]
  <2>1. /\ new[t] \in Universe \ Vars /\ new[u] \in Universe \ Vars
        /\ SameShape(t, new[t]) /\ SameShape(u, new[u])
        /\ \A i \in DOMAIN t.args : new[t].args[i] = new[t.args[i]]
        /\ \A i \in DOMAIN u.args : new[u].args[i] = new[u.args[i]]
    BY <1>1
  <2>2. /\ t.args \in Seq(Universe) /\ u.args \in Seq(Universe)
        /\ new[t].args \in Seq(Universe) /\ new[u].args \in Seq(Universe)
    BY <2>1, ArgsType
  <2>3. SameShape(t, u) => DOMAIN t.args = DOMAIN u.args /\ DOMAIN t.args = DOMAIN new[t].args
    <3>1. DOMAIN t.args = DOMAIN new[t].args
      BY <2>1, <2>2, SameLength DEF SameShape
    <3>2. SameShape(t, u) => DOMAIN t.args = DOMAIN u.args
      BY <2>2, SameLength DEF SameShape
    <3> QED
      BY <3>1, <3>2
  <2>4. ASSUME new[t] = new[u]
        PROVE  SameShape(t, u) /\ \A i \in DOMAIN t.args : new[t.args[i]] = new[u.args[i]]
    <3>1. SameShape(t, u)
      BY <2>1, <2>4 DEF SameShape, IsList
    <3> QED
      BY <2>1, <2>3, <2>4, <3>1
  <2>5. ASSUME SameShape(t, u), \A i \in DOMAIN t.args : new[t.args[i]] = new[u.args[i]]
        PROVE  new[t] = new[u]
    <3>1. SameShape(new[t], new[u])
      BY <2>1, <2>5 DEF SameShape, IsList
    <3>2. \A i \in DOMAIN new[t].args : new[t].args[i] = new[u].args[i]
      BY <2>1, <2>3, <2>5
    <3> QED
      BY <2>1, <3>1, <3>2 DEF ToldByParts
  <2> QED
    BY <2>4, <2>5
<1>6. IsInterpretation(I)
  BY <1>2, <1>3, <1>4, <1>5 DEF IsInterpretation
<1>7. SolvesBindings(I, b)
  BY <1>2, BindingType DEF SolvesBindings, Resolves
<1> QED
  BY <1>6, <1>7 DEF I

LEMMA PartsVars ==
    ASSUME NEW t \in Universe \ Vars, NEW V, \A i \in DOMAIN t.args : VarsOf[t.args[i]] \cap V = {}
    PROVE  VarsOf[t] \cap V = {}
<1> DEFINE D == {d \in Universe : VarsOf[d] \cap V = {}} \cup {t}
<1>1. D \in SUBSET Universe /\ t \in D
  OBVIOUS
<1>2. ArgsClosed(D)
  BY ArgsVars DEF ArgsClosed
<1>3. VarsOf[t] \subseteq D /\ VarsOf[t] \subseteq Vars
  BY <1>1, <1>2 DEF VarsOf
<1> QED
  BY <1>3, VarOfItself

LEMMA ResolvedThroughout ==
    ASSUME TermsAreFinite, NEW b \in BindingSet, Acyclic(b), NEW new, Resolves(new, b)
    PROVE  \A t \in Universe : VarsOf[new[t]] \cap DOMAIN b = {}
<1> DEFINE T == {t \in Universe : VarsOf[new[t]] \cap DOMAIN b # {}}
<1> SUFFICES ASSUME T # {} PROVE FALSE
  OBVIOUS
<1>1. T \in SUBSET Universe
  OBVIOUS
<1> HIDE DEF T
<1>2. PICK t \in T : PartsUnder(t, b) \cap T = {}
  BY <1>1, FollowingEnds
<1>3. /\ t \in Universe /\ VarsOf[new[t]] \cap DOMAIN b # {}
      /\ \A u \in PartsUnder(t, b) : u \in Universe /\ VarsOf[new[u]] \cap DOMAIN b = {}
  BY <1>2, PartsType DEF T
<1>4. CASE t \in Vars
  <2>1. t \in DOMAIN b
    BY <1>3, <1>4, VarOfItself DEF Resolves
  <2> QED
    BY <1>3, <1>4, <2>1, PartsType DEF Resolves
<1>5. CASE t \notin Vars
  <2>1. /\ new[t] \in Universe \ Vars /\ SameShape(t, new[t])
        /\ \A i \in DOMAIN t.args : new[t].args[i] = new[t.args[i]]
    BY <1>3, <1>5 DEF Resolves, Rebuilds
  <2>2. DOMAIN new[t].args = DOMAIN t.args
    BY <1>3, <2>1, ArgsType DEF SameShape
  <2>3. \A i \in DOMAIN new[t].args : VarsOf[new[t].args[i]] \cap DOMAIN b = {}
    BY <1>3, <2>1, <2>2, PartsType
  <2> QED
    BY <1>3, <2>1, <2>3, PartsVars
<1> QED
  BY <1>4, <1>5

(***************************************************************************)
(* Under the bindings that a call returns, resolveTerm makes the goal and   *)
(* the fact the same literal and leaves no bound variable in it; and it is  *)
(* the most general substitution that does, for it changes no term in the   *)
(* eyes of whoever solves the question.                                    *)
(***************************************************************************)
THEOREM UnifierMakesAlike ==
    ASSUME ToldByParts, NEW J, IsInterpretation(J),
           NEW goal, NEW fact, HasTerms(goal), HasTerms(fact), NEW b \in BindingSet, Acyclic(b),
           NEW c \in BindingSet, UnifyReturns(goal, fact, b, <<c>>), NEW new, Resolves(new, c)
    PROVE  /\ MadeAlike(new, goal, fact, c)
           /\ \A I : IsInterpretation(I) /\ SolvesBindings(I, b) /\ Unifies(I, goal, fact) =>
                  \A t \in Universe : I.val[t] = I.val[new[t]]
<1>1. <<c>> # << >> /\ \A d : <<c>> = <<d>> => c = d
  OBVIOUS
<1>2. Acyclic(c)
  BY UnifyKeepsToTheGiven
<1>3. \A I : IsInterpretation(I) =>
          (SolvesBindings(I, c) <=> SolvesBindings(I, b) /\ Unifies(I, goal, fact))
  BY <1>1, UnifyReturnsUnifier
<1>4. \A I : IsInterpretation(I) /\ SolvesBindings(I, b) /\ Unifies(I, goal, fact) =>
          \A t \in Universe : I.val[t] = I.val[new[t]]
  BY <1>2, <1>3, ResolvedTree
<1> DEFINE I == [val |-> new, size |-> [t \in Universe |-> J.size[new[t]]]]
<1>5. IsInterpretation(I) /\ SolvesBindings(I, c)
  BY ResolvingInterprets
<1>6. I.val = new
  OBVIOUS
<1> HIDE DEF I
<1>7. Unifies(I, goal, fact)
  BY <1>3, <1>5
<1>8. \A i \in DOMAIN goal.terms : goal.terms[i] \in Universe
  BY DEF HasTerms
<1>9. \A t \in Universe : VarsOf[new[t]] \cap DOMAIN c = {}
  BY <1>2, InterpretedTermsFinite, ResolvedThroughout
<1>10. MadeAlike(new, goal, fact, c)
  BY <1>6, <1>7, <1>8, <1>9 DEF MadeAlike, Unifies
<1> QED
  BY <1>4, <1>10

================================================================================
