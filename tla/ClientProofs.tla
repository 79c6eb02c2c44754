------------------------------ MODULE ClientProofs ------------------------------
(***************************************************************************)
(* Theorems about the knowledge base as its clients see it: it implements   *)
(* LogicDatabase, and the programs that use it by text, Loader, the REPL    *)
(* and simple_query, are clients of it, so what is proved of the clause     *)
(* store and the evaluator is true of them, whatever the parser does,       *)
(* whatever is typed and whatever fails.                                   *)
(***************************************************************************)
EXTENDS Repl, SimpleQuery, LoaderRefinement, DatabaseRefinement,
        ConsequenceProofs, CompletenessProofs

(* Concatenation, and what it holds. *)
LEMMA ConcatSet ==
    ASSUME NEW s, NEW t, IsSequence(s), IsSequence(t)
    PROVE  IsSequence(s \o t) /\ ToSet(s \o t) = ToSet(s) \cup ToSet(t)
<1> DEFINE S == ToSet(s) \cup ToSet(t)
           u == s \o t
<1>1. s \in Seq(S) /\ t \in Seq(S)
  BY DEF IsSequence, ToSet
<1>0. DOMAIN s = 1..Len(s) /\ DOMAIN t = 1..Len(t) /\ Len(s) \in Nat /\ Len(t) \in Nat
  BY StackBasics
<1> HIDE DEF S
<1>2. /\ u \in Seq(S) /\ Len(u) = Len(s) + Len(t) /\ DOMAIN u = 1..(Len(s) + Len(t))
      /\ \A i \in 1..(Len(s) + Len(t)) : u[i] = IF i <= Len(s) THEN s[i] ELSE t[i - Len(s)]
  BY <1>1
<1>3. IsSequence(u)
  BY <1>2, AnySequence
<1> HIDE DEF u
<1>4. ASSUME NEW i \in DOMAIN s PROVE s[i] \in ToSet(u)
  BY <1>2, <1>0 DEF ToSet
<1>5. ASSUME NEW i \in DOMAIN t PROVE t[i] \in ToSet(u)
  <2>1. Len(s) + i \in DOMAIN u /\ u[Len(s) + i] = t[i]
    BY <1>2, <1>0
  <2> QED
    BY <2>1 DEF ToSet
<1>6. ASSUME NEW i \in DOMAIN u PROVE u[i] \in S
  <2>1. CASE i <= Len(s)
    BY <1>0, <1>2, <2>1 DEF ToSet, S
  <2>2. CASE ~(i <= Len(s))
    <3>1. i - Len(s) \in DOMAIN t /\ u[i] = t[i - Len(s)]
      BY <1>0, <1>2, <2>2
    <3> QED
      BY <3>1 DEF ToSet, S
  <2> QED
    BY <2>1, <2>2
<1>7. ToSet(u) = S
  BY <1>4, <1>5, <1>6 DEF ToSet, S
<1> QED
  BY <1>3, <1>7 DEF u, S

(* The recursion of FlattenSeq, for any number of its steps. *)
Flattens(f, s, n) ==
    f = [i \in 1..n |-> IF i = 1 THEN s[i] ELSE f[i - 1] \o s[i]]

LEMMA FlattenExists ==
    ASSUME NEW s
    PROVE  \A n \in Nat : \E f : Flattens(f, s, n)
<1> DEFINE S == {n \in Nat : \E f : Flattens(f, s, n)}
<1>1. 0 \in S
  <2>1. Flattens([i \in 1..0 |-> 0], s, 0)
    BY DEF Flattens
  <2> QED
    BY <2>1
<1>2. ASSUME NEW n \in Nat, n \in S PROVE n + 1 \in S
  <2>1. PICK f : Flattens(f, s, n)
    BY <1>2
  <2> DEFINE last == IF n = 0 THEN s[1] ELSE f[n] \o s[n + 1]
             g == [i \in 1..(n + 1) |-> IF i <= n THEN f[i] ELSE last]
  <2> HIDE DEF last
  <2>2. \A i \in 1..n : f[i] = IF i = 1 THEN s[i] ELSE f[i - 1] \o s[i]
    BY <2>1 DEF Flattens
  <2>3. ASSUME NEW i \in 1..(n + 1) PROVE g[i] = IF i = 1 THEN s[i] ELSE g[i - 1] \o s[i]
    <3>1. CASE i <= n
      <4>1. g[i] = f[i] /\ i \in 1..n /\ (i # 1 => g[i - 1] = f[i - 1])
        BY <3>1
      <4> HIDE DEF g
      <4> QED
        BY <2>2, <4>1
    <3>2. CASE ~(i <= n)
      <4>1. i = n + 1 /\ g[i] = last /\ (i = 1 <=> n = 0)
        BY <3>2
      <4>2. n # 0 => g[i - 1] = f[n]
        BY <4>1
      <4> HIDE DEF g
      <4> QED
        BY <4>1, <4>2 DEF last
    <3> QED
      BY <3>1, <3>2
  <2>4. DOMAIN g = 1..(n + 1) /\ g = [i \in 1..(n + 1) |-> g[i]]
    OBVIOUS
  <2> HIDE DEF g
  <2>5. Flattens(g, s, n + 1)
    BY <2>3, <2>4 DEF Flattens
  <2> QED
    BY <2>5
<1> HIDE DEF S
<1>3. Nat \subseteq S
  BY <1>1, <1>2, SetInduction
<1> QED
  BY <1>3 DEF S

HeldBy(s, n) == UNION {ToSet(s[i]) : i \in 1..n}

AllSequences(s, n) == \A i \in 1..n : IsSequence(s[i])

LEMMA HeldByNext ==
    ASSUME NEW s, NEW n \in Nat
    PROVE  HeldBy(s, 0) = {} /\ HeldBy(s, n + 1) = HeldBy(s, n) \cup ToSet(s[n + 1])
<1>1. 1..0 = {} /\ 1..(n + 1) = 1..n \cup {n + 1}
  OBVIOUS
<1>2. HeldBy(s, 0) = {}
  BY <1>1, Zenon DEF HeldBy
<1>3. HeldBy(s, n + 1) = HeldBy(s, n) \cup ToSet(s[n + 1])
  BY <1>1, Zenon DEF HeldBy
<1> QED
  BY <1>2, <1>3

FlattenGood(f, s, n) == IsSequence(f[n]) /\ ToSet(f[n]) = HeldBy(s, n)

LEMMA FlattenHolds ==
    ASSUME NEW s, NEW m \in Nat, NEW f, Flattens(f, s, m), AllSequences(s, m)
    PROVE  \A n \in Nat : n \in 1..m => FlattenGood(f, s, n)
<1> DEFINE S == {n \in Nat : n \in 1..m => FlattenGood(f, s, n)}
<1>0. \A i \in 1..m : f[i] = IF i = 1 THEN s[i] ELSE f[i - 1] \o s[i]
  BY DEF Flattens
<1>1. 0 \in S
  OBVIOUS
<1>2. ASSUME NEW n \in Nat, n \in S PROVE n + 1 \in S
  <2> SUFFICES ASSUME n + 1 \in 1..m PROVE FlattenGood(f, s, n + 1)
    OBVIOUS
  <2>0. f[n + 1] = IF n + 1 = 1 THEN s[n + 1] ELSE f[n + 1 - 1] \o s[n + 1]
    BY <1>0
  <2>1. IsSequence(s[n + 1])
    BY DEF AllSequences
  <2>2. CASE n = 0
    <3>1. f[n + 1] = s[n + 1]
      BY <1>0, <2>2
    <3>2. HeldBy(s, n) = {} /\ HeldBy(s, n + 1) = HeldBy(s, n) \cup ToSet(s[n + 1])
      BY <2>2, HeldByNext
    <3> QED
      BY <2>1, <3>1, <3>2 DEF FlattenGood
  <2>3. CASE n # 0
    <3>1. n \in 1..m /\ n + 1 - 1 = n /\ n + 1 # 1
      BY <2>3
    <3>2. FlattenGood(f, s, n)
      BY <1>2, <3>1
    <3>3. f[n + 1] = f[n] \o s[n + 1]
      BY <2>0, <3>1, Zenon
    <3>4. IsSequence(f[n + 1]) /\ ToSet(f[n + 1]) = ToSet(f[n]) \cup ToSet(s[n + 1])
      BY <2>1, <3>2, <3>3, ConcatSet DEF FlattenGood
    <3> QED
      BY <3>2, <3>4, HeldByNext DEF FlattenGood
  <2> QED
    BY <2>2, <2>3
<1> HIDE DEF S
<1>3. Nat \subseteq S
  BY <1>1, <1>2, SetInduction
<1> QED
  BY <1>3 DEF S

Flattened(s) == CHOOSE f : Flattens(f, s, Len(s))

LEMMA FlattenNone == ASSUME NEW s, Len(s) = 0 PROVE FlattenSeq(s) = s
BY DEF FlattenSeq

LEMMA FlattenSome == ASSUME NEW s, Len(s) # 0 PROVE FlattenSeq(s) = Flattened(s)[Len(s)]
BY Zenon DEF FlattenSeq, Flattened, Flattens

(* What flattening a sequence of sequences holds. *)
LEMMA FlattenMembers ==
    ASSUME NEW s, IsSequence(s), \A i \in DOMAIN s : IsSequence(s[i])
    PROVE  ToSet(FlattenSeq(s)) = UNION {ToSet(s[i]) : i \in DOMAIN s}
<1>0. Len(s) \in Nat /\ DOMAIN s = 1..Len(s)
  BY StackBasics
<1>1. CASE Len(s) = 0
  <2>1. FlattenSeq(s) = s /\ DOMAIN s = {}
    BY <1>0, <1>1, FlattenNone
  <2>2. ToSet(s) = {} /\ UNION {ToSet(s[i]) : i \in DOMAIN s} = {}
    BY <2>1 DEF ToSet
  <2> QED
    BY <2>1, <2>2
<1>2. CASE Len(s) # 0
  <2> DEFINE f == Flattened(s)
  <2>1. FlattenSeq(s) = f[Len(s)]
    BY <1>2, FlattenSome
  <2>2. Flattens(f, s, Len(s))
    BY <1>0, FlattenExists DEF Flattened
  <2> HIDE DEF f
  <2>3. AllSequences(s, Len(s)) /\ Len(s) \in 1..Len(s)
    BY <1>0, <1>2 DEF AllSequences
  <2>4. FlattenGood(f, s, Len(s))
    BY <1>0, <2>2, <2>3, FlattenHolds
  <2> QED
    BY <1>0, <2>1, <2>4 DEF FlattenGood, HeldBy
<1> QED
  BY <1>1, <1>2

--------------------------------------------------------------------------------
(* KnowledgeBase implements LogicDatabase. *)

DatabaseInv == FollowInv /\ AccountsInv

EvaluationExact == EvaluationSound /\ EvaluationRight /\ KeysTellMeanings /\ Meanings

LEMMA DatabaseInvStep ==
    ASSUME InputsNamed, EvaluationExact, DatabaseInv, [Next]_vars
    PROVE  DatabaseInv'
BY FollowStep, AccountsStep DEF DatabaseInv, EvaluationExact

LEMMA DatabaseInvGives ==
    ASSUME InputsNamed, EvaluationExact, DatabaseInv
    PROVE  ResultsFollow /\ ResultsComplete
BY FollowInvGivesResults, AccountsSettled DEF DatabaseInv, EvaluationExact

(* What a step of the evaluator but the last of a query leaves alone. *)
LEMMA QuietStep ==
    ASSUME Evaluate, ~QueryReturn
    PROVE  /\ UNCHANGED <<facts, rules, asked, answers>>
           /\ pc \in {"goal", "run", "return"} /\ ~ReturnsToQuery
           /\ pc' \in {"goal", "run", "return", "crashed"}
BY DEF Evaluate, GoalVisited, GoalEnter, StackOverflow, TryFact, AtFact, SkipRule, RuleFails,
       RuleBody, AtRule, FactsTried, RuleReturned, GoalReturn, OnlyGoalReturned,
       FirstGoalReturned, NextResult, RestReturned, ConjunctionReturn, Unchanged, store,
       ReturnToCaller, ResumeTop, CallConjunction, CallGoal, InGoal, InConjunction,
       ReturnsToQuery

LEMMA AppendMembers ==
    ASSUME NEW s, IsSequence(s), NEW e
    PROVE  ToSet(Append(s, e)) = ToSet(s) \cup {e}
<1> DEFINE t == Append(s, e)
<1>1. /\ IsSequence(t) /\ Len(t) = Len(s) + 1
      /\ \A i \in DOMAIN s : t[i] = s[i]
      /\ t[Len(s) + 1] = e
  BY AppendFacts
<1>2. Len(s) \in Nat /\ DOMAIN s = 1..Len(s) /\ DOMAIN t = 1..Len(t)
  BY <1>1, StackBasics
<1> HIDE DEF t
<1>3. DOMAIN t = DOMAIN s \cup {Len(s) + 1}
  BY <1>1, <1>2
<1>4. ToSet(t) = ToSet(s) \cup {e}
  BY <1>1, <1>3 DEF ToSet
<1> QED
  BY <1>4 DEF t

(* Clauses are told, and questions asked, one at a time. *)
LEMMA ClientTells ==
    ASSUME Inv,
           \/ \E f \in FactInputs : AddFact(f)
           \/ \E r \in RuleInputs : AddRule(r)
           \/ \E g \in QueryInputs : Query(g)
    PROVE  Database!DatabaseNext
<1>0. IsSequence(facts) /\ IsSequence(rules) /\ ToSet(<< >>) = {}
  BY AnySequence DEF Inv, TypeOK, ToSet
<1>1. ASSUME NEW f \in FactInputs, AddFact(f) PROVE Database!Tell
  <2>1. /\ pc = "client" /\ facts' = Append(facts, f) /\ asked' = << >> /\ answers' = << >>
        /\ UNCHANGED <<rules, pc, stack, ret>>
    BY <1>1 DEF AddFact, evaluation
  <2>2. ToSet(facts)' = ToSet(facts) \cup {f} /\ ToSet(answers)' = {} /\ ToSet(rules)' = ToSet(rules)
    BY <1>0, <2>1, AppendMembers
  <2>3. StatusNow = "ready" /\ StatusNow' = "ready" /\ ResultsNow = {} /\ ResultsNow' = {}
    BY <2>1 DEF StatusNow, ResultsNow, ReturnsToQuery
  <2> QED
    BY <2>1, <2>2, <2>3 DEF Database!Tell
<1>2. ASSUME NEW r \in RuleInputs, AddRule(r) PROVE Database!Tell
  <2>1. /\ pc = "client" /\ rules' = Append(rules, r) /\ asked' = << >> /\ answers' = << >>
        /\ UNCHANGED <<facts, pc, stack, ret>>
    BY <1>2 DEF AddRule, evaluation
  <2>2. ToSet(rules)' = ToSet(rules) \cup {r} /\ ToSet(answers)' = {} /\ ToSet(facts)' = ToSet(facts)
    BY <1>0, <2>1, AppendMembers
  <2>3. StatusNow = "ready" /\ StatusNow' = "ready" /\ ResultsNow = {} /\ ResultsNow' = {}
    BY <2>1 DEF StatusNow, ResultsNow, ReturnsToQuery
  <2> QED
    BY <2>1, <2>2, <2>3 DEF Database!Tell
<1>3. ASSUME NEW g \in QueryInputs, Query(g) PROVE Database!Ask
  <2>1. /\ pc = "client" /\ pc' = "goal" /\ asked' = <<g>> /\ answers' = << >>
        /\ UNCHANGED <<facts, rules>>
    BY <1>3 DEF Query, store
  <2>2. ToSet(rules)' = ToSet(rules) /\ ToSet(answers)' = {} /\ ToSet(facts)' = ToSet(facts)
    BY <1>0, <2>1
  <2>3. StatusNow = "ready" /\ StatusNow' = "asked" /\ ResultsNow = {} /\ ResultsNow' = {}
    BY <2>1 DEF StatusNow, ResultsNow, ReturnsToQuery
  <2> QED
    BY <2>1, <2>2, <2>3 DEF Database!Ask
<1> QED
  BY <1>1, <1>2, <1>3 DEF Database!DatabaseNext

(* A result that follows from the clauses, under whatever names, follows from them. *)
LEMMA FollowsFromClauses ==
    ASSUME Inv, ResultsFollow, ReturnsToQuery, RulesNamedAlike, NEW c \in ToSet(ret)
    PROVE  Database!Follows(c)
<1> SUFFICES ASSUME NEW w \in Worlds, Database!ClausesTrue(w), Solves(w, c)
             PROVE  Holds(w, asked[1])
  BY DEF Database!Follows
<1>1. AllHold(w, facts)
  BY DEF AllHold, Database!ClausesTrue, ToSet
<1>2. ASSUME NEW i \in DOMAIN rules, NEW n \in 0..varCounter PROVE RuleHolds(w, Rename(rules[i], n))
  <2>1. rules[i] \in RuleInputs /\ rules[i] \in ToSet(rules) /\ n \in Nat
    BY DEF Inv, TypeOK, ToSet
  <2>2. RuleTrue(w, rules[i])
    BY <2>1 DEF Database!ClausesTrue
  <2> QED
    BY <2>1, <2>2 DEF RulesNamedAlike, NamedAlike
<1>3. ClausesHold(w)
  BY <1>1, <1>2 DEF ClausesHold
<1>4. PICK i \in DOMAIN ret : c = ret[i]
  BY DEF ToSet
<1>5. AllHold(w, asked)
  BY <1>3, <1>4 DEF ResultsFollow, ReturnsToQuery, Justifies
<1>6. PICK g \in QueryInputs : asked = <<g>>
  BY DEF Inv, TypeOK, ReturnsToQuery
<1> QED
  BY <1>5, <1>6 DEF AllHold

LEMMA ExhaustsDerivations ==
    ASSUME ResultsComplete, ReturnsToQuery, StartsFree
    PROVE  Database!Exhausts(ToSet(ret))
<1> SUFFICES ASSUME NEW m \in Derivations, Database!Derived(m),
                    NEW v \in Valuations, Meaning(v, asked[1]) \in DOMAIN m
             PROVE  \E c \in ToSet(ret) : MatchesQuestion(v, asked[1], c)
  BY DEF Database!Exhausts
<1>1. Supported(m)
  <2> SUFFICES ASSUME NEW l \in DOMAIN m
               PROVE  \/ \E i \in DOMAIN facts : GroundFact(l, facts[i])
                      \/ \E i \in DOMAIN rules : Derives(rules[i], m, l)
    BY DEF Supported
  <2>1. CASE Database!GivenBy(l)
    BY <2>1 DEF Database!GivenBy, GroundFact, ToSet
  <2>2. CASE Database!InferredFrom(m, l)
    <3>1. PICK r \in ToSet(rules) : Derives(r, m, l)
      BY <2>2 DEF Database!InferredFrom, Derives
    <3> QED
      BY <3>1 DEF ToSet
  <2> QED
    BY <2>1, <2>2 DEF Database!Derived
<1>2. PICK i \in DOMAIN ret : Reaches(v, LiteralVars(asked[1]), ret[i])
  BY <1>1 DEF ResultsComplete, ReturnsToQuery, StartsFree
<1> QED
  BY <1>2 DEF MatchesQuestion, ToSet

(* What is told is told of the results, each of them. *)
LEMMA QueryReplies ==
    ASSUME NamesInv, QueryReturn, AnswersListed(BindingSets)
    PROVE  Database!Reply
<1>1. /\ ReturnsToQuery /\ pc' = "client" /\ UNCHANGED <<facts, rules, asked>>
      /\ answers' = FlattenSeq([i \in DOMAIN ret |-> Answer(asked[1], ret[i])])
  BY DEF QueryReturn, ReturnsToQuery, store
<1>2. /\ IsSequence(ret) /\ \A i \in DOMAIN ret : ret[i] \in BindingSets
      /\ asked[1] \in QueryInputs
  <2>1. ResultsNamed(ret, varCounter) /\ pc # "client"
    BY <1>1 DEF NamesInv, NamesOK, ReturnsToQuery
  <2>2. \E g \in QueryInputs : asked = <<g>>
    BY <2>1 DEF NamesInv, Inv, TypeOK
  <2> QED
    BY <2>1, <2>2 DEF ResultsNamed, BindingsNamed
<1> DEFINE told == [i \in DOMAIN ret |-> Answer(asked[1], ret[i])]
<1>3. IsSequence(told)
  <2>1. Len(ret) \in Nat /\ DOMAIN ret = 1..Len(ret)
    BY <1>2, StackBasics
  <2>2. told \in Seq({told[i] : i \in DOMAIN told})
    BY <2>1
  <2> QED
    BY <2>2 DEF IsSequence
<1>4. DOMAIN told = DOMAIN ret /\ \A i \in DOMAIN ret : told[i] = Answer(asked[1], ret[i])
  OBVIOUS
<1> HIDE DEF told
<1>5. \A i \in DOMAIN told : IsSequence(told[i])
  BY <1>2, <1>4, AnySequence DEF AnswersListed
<1>6. ToSet(answers') = UNION {ToSet(told[i]) : i \in DOMAIN told}
  BY <1>1, <1>3, <1>5, FlattenMembers DEF told
<1>7. UNION {ToSet(told[i]) : i \in DOMAIN told} = UNION {SaidOf(asked[1], c) : c \in ToSet(ret)}
  <2>1. ASSUME NEW i \in DOMAIN told
        PROVE  ret[i] \in ToSet(ret) /\ ToSet(told[i]) = SaidOf(asked[1], ret[i])
    BY <1>4 DEF SaidOf, ToSet
  <2>2. ASSUME NEW c \in ToSet(ret)
        PROVE  \E i \in DOMAIN told : SaidOf(asked[1], c) = ToSet(told[i])
    <3>1. PICK i \in DOMAIN ret : c = ret[i]
      BY DEF ToSet
    <3> QED
      BY <1>4, <2>1, <3>1
  <2> QED
    BY <2>1, <2>2, Zenon
<1>8. /\ StatusNow = "found" /\ StatusNow' = "ready"
      /\ ResultsNow = ToSet(ret) /\ ResultsNow' = {}
  BY <1>1 DEF StatusNow, ResultsNow, ReturnsToQuery
<1> QED
  BY <1>1, <1>6, <1>7, <1>8 DEF Database!Reply

(* What query() is about to be given is what a logic database may find. *)
FoundRight ==
    ReturnsToQuery =>
        (\A c \in ToSet(ret) : Database!Follows(c)) /\ Database!Exhausts(ToSet(ret))

LEMMA DatabaseInvFinds ==
    ASSUME InputsNamed, EvaluationExact, RulesNamedAlike, StartsFree, DatabaseInv
    PROVE  FoundRight
<1>1. ResultsFollow /\ ResultsComplete /\ Inv
  BY DatabaseInvGives DEF DatabaseInv, FollowInv, NamesInv
<1>2. ASSUME ReturnsToQuery PROVE Database!Exhausts(ToSet(ret))
  BY <1>1, <1>2, ExhaustsDerivations
<1>3. ASSUME ReturnsToQuery, NEW c \in ToSet(ret) PROVE Database!Follows(c)
  BY <1>1, <1>3, FollowsFromClauses
<1> QED
  BY <1>2, <1>3 DEF FoundRight

(* The evaluator's other steps find the results, overflow the stack, or cannot be seen. *)
LEMMA EvaluatorUnseen ==
    ASSUME FoundRight', Evaluate, ~QueryReturn
    PROVE  [Database!DatabaseNext]_(Database!databaseVars)
<1>1. /\ UNCHANGED <<facts, rules, asked, answers>>
      /\ pc \in {"goal", "run", "return"} /\ ~ReturnsToQuery
      /\ pc' \in {"goal", "run", "return", "crashed"}
  BY QuietStep
<1>2. /\ ToSet(facts)' = ToSet(facts) /\ ToSet(rules)' = ToSet(rules)
      /\ ToSet(answers)' = ToSet(answers)
  BY <1>1
<1>3. StatusNow = "asked" /\ ResultsNow = {}
  BY <1>1 DEF StatusNow, ResultsNow
<1>4. CASE pc' = "crashed"
  <2>1. StatusNow' = "crashed" /\ ResultsNow' = {}
    BY <1>4 DEF StatusNow, ResultsNow, ReturnsToQuery
  <2> QED
    BY <1>1, <1>2, <1>3, <2>1 DEF Database!Crash, Database!DatabaseNext
<1>5. CASE pc' # "crashed" /\ ~ReturnsToQuery'
  <2>1. StatusNow' = "asked" /\ ResultsNow' = {}
    BY <1>1, <1>5 DEF StatusNow, ResultsNow
  <2> QED
    BY <1>1, <1>2, <1>3, <2>1 DEF Database!databaseVars
<1>6. CASE ReturnsToQuery'
  <2>1. StatusNow' = "found" /\ ResultsNow' = ToSet(ret)'
    BY <1>6 DEF StatusNow, ResultsNow, ReturnsToQuery
  <2>2. (\A c \in ToSet(ret)' : Database!Follows(c)') /\ Database!Exhausts(ToSet(ret))'
    BY <1>6 DEF FoundRight
  <2>3. ASSUME NEW c \in ToSet(ret)' PROVE Database!Follows(c)
    <3>1. Database!Follows(c)'
      BY <2>2
    <3>2. ASSUME NEW w \in Worlds PROVE Database!ClausesTrue(w) <=> Database!ClausesTrue(w)'
      BY <1>2 DEF Database!ClausesTrue
    <3> QED
      BY <1>1, <3>1, <3>2, Zenon DEF Database!Follows
  <2>4. Database!Exhausts(ToSet(ret)')
    <3>1. ASSUME NEW m \in Derivations PROVE Database!Derived(m) <=> Database!Derived(m)'
      BY <1>2 DEF Database!Derived, Database!GivenBy, Database!InferredFrom
    <3> QED
      BY <1>1, <2>2, <3>1, Zenon DEF Database!Exhausts
  <2>5. Database!Find
    BY <1>1, <1>2, <1>3, <2>1, <2>3, <2>4 DEF Database!Find
  <2> QED
    BY <2>5 DEF Database!DatabaseNext
<1> QED
  BY <1>4, <1>5, <1>6

LEMMA ClientsSeeDatabase ==
    ASSUME InputsNamed, EvaluationExact, RulesNamedAlike, StartsFree, AnswersListed(BindingSets)
    PROVE  DrivesKnowledgeBase => ImplementsDatabase
<1>1. Init => DatabaseInv /\ Database!DatabaseInit
  <2> SUFFICES ASSUME Init PROVE DatabaseInv /\ Database!DatabaseInit
    OBVIOUS
  <2>1. DatabaseInv
    BY FollowInit, AccountsInit DEF DatabaseInv
  <2>2. StatusNow = "ready" /\ ResultsNow = {} /\ ToSet(<< >>) = {}
    BY DEF Init, StatusNow, ResultsNow, ReturnsToQuery, ToSet
  <2> QED
    BY <2>1, <2>2 DEF Init, Database!DatabaseInit
<1>2. DatabaseInv /\ [Next]_vars => DatabaseInv'
  BY DatabaseInvStep
<1>3. DatabaseInv => FoundRight
  BY DatabaseInvFinds
<1>4. DatabaseInv /\ FoundRight' /\ [Next]_vars => [Database!DatabaseNext]_(Database!databaseVars)
  <2> SUFFICES ASSUME DatabaseInv, FoundRight', [Next]_vars
               PROVE  [Database!DatabaseNext]_(Database!databaseVars)
    OBVIOUS
  <2>0. NamesInv /\ Inv
    BY DEF DatabaseInv, FollowInv, NamesInv
  <2>1. CASE Next /\ ~Evaluate
    BY <2>0, <2>1, ClientTells DEF Next
  <2>2. CASE QueryReturn
    BY <2>0, <2>2, QueryReplies DEF Database!DatabaseNext
  <2>3. CASE Evaluate /\ ~QueryReturn
    BY <2>3, EvaluatorUnseen
  <2>4. CASE UNCHANGED vars
    <3>1. /\ StatusNow' = StatusNow /\ ResultsNow' = ResultsNow
          /\ ToSet(facts)' = ToSet(facts) /\ ToSet(rules)' = ToSet(rules)
          /\ ToSet(answers)' = ToSet(answers)
      BY <2>4 DEF vars, StatusNow, ResultsNow, ReturnsToQuery
    <3> QED
      BY <2>4, <3>1 DEF vars, Database!databaseVars
  <2> QED
    BY <2>1, <2>2, <2>3, <2>4 DEF Next
<1> QED
  BY <1>1, <1>2, <1>3, <1>4, PTL DEF DrivesKnowledgeBase, ImplementsDatabase, Database!DatabaseSpec

(***************************************************************************)
(* The evaluator under any client is a logic database: every question is    *)
(* answered from all that follows from the clauses stored, and from nothing *)
(* else, or the stack overflows.                                           *)
(***************************************************************************)
THEOREM KnowledgeBaseImplementsDatabase ==
    ASSUME InputsNamed, EvaluationExact, RulesNamedAlike, StartsFree, AnswersListed(BindingSets)
    PROVE  Spec => ImplementsDatabase
<1>1. DrivesKnowledgeBase => ImplementsDatabase
  BY ClientsSeeDatabase
<1> QED
  BY <1>1, PTL DEF DrivesKnowledgeBase, Spec

--------------------------------------------------------------------------------
(* The loader. *)

LoaderState == <<vars, loaderVars>>

LEMMA LoaderTypeInit == Init /\ LoaderInit => LoaderTypeOK
BY MaxLoadsAssumption DEF Init, LoaderInit, LoaderTypeOK

(* What is read off the front of the file. *)
LEMMA HeadOfFile ==
    ASSUME LoaderTypeOK, file # << >>
    PROVE  /\ Head(file) \in AllLines /\ Tail(file) \in Seq(AllLines)
           /\ Append(read, Head(file)) \in Seq(AllLines)
<1>1. file \in Seq(AllLines) /\ read \in Seq(AllLines)
  BY DEF LoaderTypeOK
<1> HIDE DEF AllLines
<1>2. Head(file) \in AllLines /\ Tail(file) \in Seq(AllLines)
  BY <1>1
<1> QED
  BY <1>1, <1>2

LEMMA NextLineTypes ==
    ASSUME LoaderTypeOK, file # << >>, NextLine
    PROVE  /\ load' = load /\ loads' = loads
           /\ file' \in Seq(AllLines) /\ read' \in Seq(AllLines)
BY HeadOfFile DEF NextLine

(* A clause read from a line is stored as a client would, or not at all. *)
LEMMA StoreSteps ==
    ASSUME LoaderTypeOK, FactLine \/ RuleLine
    PROVE  [Next]_vars /\ (pc = "client" => pc' = "client")
<1>1. /\ file # << >> /\ ~IsSkipped(Head(file))
      /\ Head(file) \in AllLines /\ Line = Prepared(Head(file))
  BY HeadOfFile DEF FactLine, RuleLine, AtLine, Line
<1>2. FactInputsOK(Line) /\ RuleInputsOK(Line)
  BY <1>1, TextsAssumption
<1>3. CASE FactLine
  <2> DEFINE f == ParseFact(Line, RuleMode)[1]
  <2>1. StoreFact(f) /\ f \in FactInputs
    BY <1>2, <1>3 DEF FactLine, FactInputsOK
  <2> HIDE DEF f
  <2> QED
    BY <2>1 DEF StoreFact, AddFact, Next, vars
<1>4. CASE RuleLine
  <2> DEFINE r == ParseRule(Line, TRUE)[1]
  <2>1. StoreRule(r) /\ r \in RuleInputs
    BY <1>2, <1>4 DEF RuleLine, RuleInputsOK
  <2> HIDE DEF r
  <2> QED
    BY <2>1 DEF StoreRule, AddRule, Next, vars
<1> QED
  BY <1>3, <1>4

LEMMA EvaluateRuns == ASSUME Evaluate PROVE pc # "client"
BY DEF Evaluate, GoalVisited, GoalEnter, StackOverflow, TryFact, AtFact, SkipRule, RuleFails,
       RuleBody, AtRule, FactsTried, RuleReturned, GoalReturn, OnlyGoalReturned,
       FirstGoalReturned, NextResult, RestReturned, ConjunctionReturn, QueryReturn

(* Every step is a step of KnowledgeBase or leaves it alone, and keeps the types. *)
LEMMA LoaderStep ==
    ASSUME LoaderTypeOK, [LoaderNext]_LoaderState
    PROVE  LoaderTypeOK' /\ [Next]_vars
<1>0. /\ load \in {"none", "reading", "loaded", "failed"}
      /\ file \in Seq(AllLines) /\ read \in Seq(AllLines)
      /\ loads \in 0..MaxLoads /\ MaxLoads \in Nat
      /\ load = "reading" => pc = "client"
  BY MaxLoadsAssumption DEF LoaderTypeOK
<1>1. CASE UNCHANGED LoaderState
  BY <1>0, <1>1 DEF LoaderState, loaderVars, vars, LoaderTypeOK
<1>2. ASSUME NEW lines \in Files, Load(lines) PROVE LoaderTypeOK' /\ [Next]_vars
  <2>1. /\ pc = "client" /\ loads < MaxLoads /\ loads' = loads + 1
        /\ load' = "reading" /\ file' = lines /\ read' = read /\ UNCHANGED vars
    BY <1>2 DEF Load, Calling
  <2>2. lines \in Seq(AllLines) /\ pc' = pc
    BY <2>1, TextsAssumption DEF vars
  <2> QED
    BY <1>0, <2>1, <2>2 DEF LoaderTypeOK
<1>3. CASE CannotOpen
  <2>1. /\ loads < MaxLoads /\ loads' = loads + 1
        /\ load' = "failed" /\ file' = << >> /\ read' = read /\ UNCHANGED vars
    BY <1>3 DEF CannotOpen
  <2> QED
    BY <1>0, <2>1 DEF LoaderTypeOK
<1>4. CASE SkipLine
  <2>1. file # << >> /\ NextLine /\ UNCHANGED vars
    BY <1>4 DEF SkipLine, AtLine
  <2> QED
    BY <1>0, <2>1, NextLineTypes DEF LoaderTypeOK, vars
<1>5. CASE FactLine \/ RuleLine
  <2>1. file # << >> /\ NextLine /\ load = "reading"
    BY <1>5 DEF FactLine, RuleLine, AtLine
  <2> QED
    BY <1>0, <1>5, <2>1, NextLineTypes, StoreSteps DEF LoaderTypeOK
<1>6. CASE LineFails
  <2>1. load' = "failed" /\ file' = << >> /\ UNCHANGED vars /\ UNCHANGED <<loads, read>>
    BY <1>6 DEF LineFails
  <2> QED
    BY <1>0, <2>1 DEF LoaderTypeOK
<1>7. CASE EndOfFile
  <2>1. load' = "loaded" /\ UNCHANGED vars /\ UNCHANGED <<file, loads, read>>
    BY <1>7 DEF EndOfFile
  <2> QED
    BY <1>0, <2>1 DEF LoaderTypeOK
<1>8. ASSUME NEW text \in QueryTexts, QueryText(text) PROVE LoaderTypeOK' /\ [Next]_vars
  <2> DEFINE g == ParseFact(text, QueryMode)[1]
  <2>1. load # "reading" /\ Query(g) /\ g \in QueryInputs /\ UNCHANGED <<load, file, loads, read>>
    BY <1>8, TextsAssumption DEF QueryText, Calling, loaderVars
  <2> HIDE DEF g
  <2> QED
    BY <1>0, <2>1 DEF LoaderTypeOK, Next
<1>9. CASE Evaluate /\ UNCHANGED loaderVars
  <2>1. load # "reading"
    BY <1>0, <1>9, EvaluateRuns
  <2> QED
    BY <1>0, <1>9, <2>1 DEF LoaderTypeOK, loaderVars, Next
<1> QED
  BY <1>1, <1>2, <1>3, <1>4, <1>5, <1>6, <1>7, <1>8, <1>9 DEF LoaderNext, ReadFile

(***************************************************************************)
(* The loader keeps its types, and never runs while a query does.           *)
(***************************************************************************)
THEOREM LoaderTypeCorrect == LoaderSpec => []LoaderTypeOK
BY LoaderTypeInit, LoaderStep, PTL DEF LoaderSpec, LoaderState

(***************************************************************************)
(* Every behaviour of loading and asking by text is a behaviour of the      *)
(* clause store and the evaluator under some client.                       *)
(***************************************************************************)
THEOREM LoaderDrivesKnowledgeBase == LoaderSpec => DrivesKnowledgeBase
BY LoaderTypeInit, LoaderStep, PTL DEF LoaderSpec, LoaderState, DrivesKnowledgeBase

--------------------------------------------------------------------------------
(* The REPL. *)

(***************************************************************************)
(* While a file is read nothing else is typed, and the REPL only asks and   *)
(* asserts when no query runs.                                             *)
(***************************************************************************)
LEMMA TypedClauses ==
    ASSUME LoaderTypeOK,
           \/ \E text \in Assertions : AssertFact(text)
           \/ \E text \in RuleTexts : EnterRule(text)
    PROVE  [Next]_vars /\ LoaderTypeOK'
<1>1. ASSUME NEW text \in Assertions, AssertFact(text) PROVE [Next]_vars /\ LoaderTypeOK'
  <2> DEFINE f == ParseFact(text, RuleMode)[1]
  <2>1. StoreFact(f) /\ f \in FactInputs /\ UNCHANGED loaderVars
    BY <1>1, CommandsAssumption DEF AssertFact
  <2> HIDE DEF f
  <2>2. [Next]_vars /\ pc' = pc
    BY <2>1 DEF StoreFact, AddFact, Next, vars
  <2> QED
    BY <2>1, <2>2 DEF LoaderTypeOK, loaderVars
<1>2. ASSUME NEW text \in RuleTexts, EnterRule(text) PROVE [Next]_vars /\ LoaderTypeOK'
  <2> DEFINE r == ParseRule(text, FALSE)[1]
  <2>1. StoreRule(r) /\ r \in RuleInputs /\ UNCHANGED loaderVars
    BY <1>2, CommandsAssumption DEF EnterRule
  <2> HIDE DEF r
  <2>2. [Next]_vars /\ pc' = pc
    BY <2>1 DEF StoreRule, AddRule, Next, vars
  <2> QED
    BY <2>1, <2>2 DEF LoaderTypeOK, loaderVars
<1> QED
  BY <1>1, <1>2

(* The other commands are steps of the loader, or leave it alone. *)
LEMMA OtherCommands ==
    ASSUME \/ \E lines \in Files : LoadCommand(lines)
           \/ LoadGoesOn
           \/ \E text \in Assertions : AssertUnparsable(text)
           \/ \E text \in RuleTexts : NoNeck(text) \/ RuleUnparsable(text)
           \/ \E text \in QueryTexts : Ask(text) \/ AskFails(text)
           \/ QueryGoesOn
           \/ Show \/ Quit
    PROVE  [LoaderNext]_LoaderState
<1>1. ASSUME NEW lines \in Files, LoadCommand(lines) PROVE LoaderNext
  BY <1>1 DEF LoadCommand, LoaderNext
<1>2. CASE LoadGoesOn
  BY <1>2 DEF LoadGoesOn, LoaderNext
<1>3. ASSUME NEW text \in QueryTexts, Ask(text) PROVE LoaderNext
  BY <1>3 DEF Ask, LoaderNext
<1>4. CASE QueryGoesOn
  BY <1>4 DEF QueryGoesOn, LoaderNext
<1>5. CASE Show \/ Quit
  BY <1>5 DEF Show, Quit, Quiet, LoaderState
<1>6. ASSUME NEW text, AssertUnparsable(text) \/ NoNeck(text) \/ RuleUnparsable(text) \/ AskFails(text)
      PROVE  UNCHANGED LoaderState
  BY <1>6 DEF AssertUnparsable, NoNeck, RuleUnparsable, AskFails, Quiet, LoaderState
<1> QED
  BY <1>1, <1>2, <1>3, <1>4, <1>5, <1>6

LEMMA ReplStep ==
    ASSUME LoaderTypeOK, [ReplNext]_allVars
    PROVE  LoaderTypeOK' /\ [Next]_vars
<1>1. CASE UNCHANGED allVars
  <2>1. UNCHANGED LoaderState
    BY <1>1 DEF allVars, LoaderState
  <2> QED
    BY <2>1, LoaderStep
<1>2. CASE ReplNext
  <2>1. \/ \E text \in Assertions : AssertFact(text)
        \/ \E text \in RuleTexts : EnterRule(text)
        \/ [LoaderNext]_LoaderState
    BY <1>2, OtherCommands DEF ReplNext
  <2> QED
    BY <2>1, TypedClauses, LoaderStep
<1> QED
  BY <1>1, <1>2

(***************************************************************************)
(* No session of the REPL does to the clause store or the evaluator what a  *)
(* client of KnowledgeBase could not.                                      *)
(***************************************************************************)
THEOREM ReplDrivesKnowledgeBase == ReplSpec => DrivesKnowledgeBase
BY LoaderTypeInit, ReplStep, PTL DEF ReplSpec, ReplInit, DrivesKnowledgeBase

--------------------------------------------------------------------------------
(* simple_query. *)

MainState == <<vars, loaderVars, mainVars>>

(* Every step is one of the loader's, or leaves it alone. *)
LEMMA MainStep == ASSUME [MainNext]_MainState PROVE [LoaderNext]_LoaderState
<1>1. CASE Usage \/ UNCHANGED MainState
  BY <1>1 DEF Usage, MainState, LoaderState
<1>2. CASE ConstructFails
  BY <1>2 DEF ConstructFails, LoaderNext
<1>3. CASE Constructs
  BY <1>3 DEF Constructs, LoaderNext
<1>4. CASE Executes
  BY <1>4 DEF Executes, LoaderNext
<1>5. ASSUME NEW lines \in Files, Construct(lines) PROVE [LoaderNext]_LoaderState
  BY <1>5 DEF Construct, LoaderNext
<1>6. ASSUME NEW text \in QueryTexts, Execute(text) PROVE [LoaderNext]_LoaderState
  BY <1>6 DEF Execute, LoaderNext, LoaderState
<1> QED
  BY <1>1, <1>2, <1>3, <1>4, <1>5, <1>6 DEF MainNext

(***************************************************************************)
(* simple_query does nothing to the clause store and the evaluator but what *)
(* a client of KnowledgeBase may.                                          *)
(***************************************************************************)
THEOREM MainDrivesKnowledgeBase == MainSpec => DrivesKnowledgeBase
BY LoaderTypeInit, LoaderStep, MainStep, PTL DEF MainSpec, MainInit, MainState, DrivesKnowledgeBase

MainInv ==
    /\ LoaderTypeOK
    /\ main = "arguments" => read = << >> /\ asked = << >>
    /\ WholeFileRead

LEMMA SplitLater ==
    ASSUME NEW S, NEW r \in Seq(S), NEW f \in Seq(S), f # << >>
    PROVE  Append(r, Head(f)) \o Tail(f) = r \o f
OBVIOUS

LEMMA ArgumentsStep ==
    ASSUME MainInv, [MainNext]_MainState
    PROVE  (main = "arguments" => read = << >> /\ asked = << >>)'
BY DEF MainInv, MainNext, MainState, vars, loaderVars, mainVars, Usage, Construct, ConstructFails,
       Constructs, Execute, Executes

LEMMA WholeFileStep == ASSUME MainInv, [MainNext]_MainState PROVE WholeFileRead'
<1>0. read \in Seq(AllLines) /\ file \in Seq(AllLines)
  BY DEF MainInv, LoaderTypeOK
<1> USE DEF MainInv, WholeFileRead
<1>1. CASE UNCHANGED MainState
  BY <1>1 DEF MainState, vars, loaderVars, mainVars
<1>2. CASE Usage
  BY <1>2 DEF Usage, vars, loaderVars
<1>3. ASSUME NEW lines \in Files, Construct(lines) PROVE WholeFileRead'
  <2>1. /\ main = "arguments" /\ main' = "constructing" /\ program' = lines
        /\ load' = "reading" /\ file' = lines /\ read' = read
    BY <1>3 DEF Construct, Load
  <2>2. lines \in Seq(AllLines)
    BY TextsAssumption
  <2> QED
    BY <2>1, <2>2
<1>4. CASE ConstructFails
  BY <1>4 DEF ConstructFails
<1>5. CASE Constructs
  <2>1. main = "constructing" /\ ReadFile /\ program' = program
        /\ load = "reading" /\ read \o file = program
    BY <1>5 DEF Constructs
  <2>2. CASE file # << >> /\ NextLine
    <3>1. load' = "reading" /\ read' \o file' = program'
      BY <1>0, <2>1, <2>2, SplitLater DEF NextLine
    <3>2. main' = "constructing"
      BY <1>5, <2>1, <3>1 DEF Constructs
    <3> QED
      BY <3>1, <3>2
  <2>3. CASE LineFails
    <3>1. main' = "exit 1"
      BY <1>5, <2>3 DEF Constructs, LineFails
    <3> QED
      BY <3>1
  <2>4. CASE EndOfFile
    <3>1. main' = "constructed" /\ read' = read /\ file = << >>
      BY <1>5, <2>4 DEF Constructs, EndOfFile
    <3>2. read = program
      BY <1>0, <2>1, <3>1
    <3> QED
      BY <2>1, <3>1, <3>2
  <2> QED
    BY <2>1, <2>2, <2>3, <2>4 DEF ReadFile, SkipLine, FactLine, RuleLine, AtLine
<1>6. ASSUME NEW text \in QueryTexts, Execute(text) PROVE WholeFileRead'
  <2>1. main = "constructed" /\ program' = program /\ read' = read /\ main' \in {"executing", "exit 1"}
    BY <1>6 DEF Execute, QueryText, loaderVars
  <2> QED
    BY <2>1
<1>7. CASE Executes
  BY <1>7 DEF Executes, loaderVars
<1> QED
  BY <1>1, <1>2, <1>3, <1>4, <1>5, <1>6, <1>7 DEF MainNext

(***************************************************************************)
(* simple_query answers from the whole file or not at all: main only        *)
(* returns 0 with results for a file that was read to its end.              *)
(***************************************************************************)
THEOREM MainReadsTheWholeFile == MainSpec => []WholeFileRead
<1>1. MainInit => MainInv
  BY LoaderTypeInit DEF MainInit, MainInv, WholeFileRead, Init, LoaderInit
<1>2. MainInv /\ [MainNext]_MainState => MainInv'
  BY LoaderStep, MainStep, ArgumentsStep, WholeFileStep DEF MainInv
<1>3. MainInv => WholeFileRead
  BY DEF MainInv
<1> QED
  BY <1>1, <1>2, <1>3, PTL DEF MainSpec, MainState

--------------------------------------------------------------------------------
(* What is true of all three, as of every client. *)

UsedByText == LoaderSpec \/ ReplSpec \/ MainSpec

LEMMA TextClients == UsedByText => DrivesKnowledgeBase
BY LoaderDrivesKnowledgeBase, ReplDrivesKnowledgeBase, MainDrivesKnowledgeBase, PTL DEF UsedByText

(***************************************************************************)
(* The recursion guard is exact for every program that is loaded, and       *)
(* whatever is typed between the queries.                                  *)
(***************************************************************************)
THEOREM TextGuardExact == UsedByText => [](TypeOK /\ GuardExact)
BY TextClients, InvInit, InvStep, PTL DEF DrivesKnowledgeBase, Inv

(***************************************************************************)
(* The results of every query asked by text follow from the clauses that    *)
(* were loaded and typed before it, also after a load that failed half way. *)
(***************************************************************************)
THEOREM TextResultsFollow ==
    ASSUME InputsNamed, EvaluationSound
    PROVE  UsedByText => []ResultsFollow
<1>1. FollowInv /\ [Next]_vars => FollowInv'
  BY FollowStep
<1> QED
  BY <1>1, TextClients, FollowInit, FollowInvGivesResults, PTL DEF DrivesKnowledgeBase

(***************************************************************************)
(* No query asked by text has a variable captured, provided that no text    *)
(* names a variable as the renaming would, and none misses an answer that   *)
(* those clauses derive from ground facts and rules.                       *)
(***************************************************************************)
THEOREM TextRenamedApart ==
    ASSUME InputsNamed, RenamingNamed, RenamingFresh, UnifierKeepsNames
    PROVE  UsedByText => []RenamedApart
<1>1. NamesInv /\ [Next]_vars => NamesInv'
  BY NamesStep
<1>2. NamesInv => RenamedApart
  BY NamedApart
<1> QED
  BY <1>1, <1>2, TextClients, NamesInit, PTL DEF DrivesKnowledgeBase

THEOREM TextMissesNoAnswer ==
    ASSUME InputsNamed, EvaluationRight, KeysTellMeanings, Meanings
    PROVE  UsedByText => []ResultsComplete
<1>1. AccountsInv /\ [Next]_vars => AccountsInv'
  BY AccountsStep
<1>2. AccountsInv => ResultsComplete
  BY AccountsSettled
<1> QED
  BY <1>1, <1>2, TextClients, AccountsInit, PTL DEF DrivesKnowledgeBase

(***************************************************************************)
(* The refinement for the programs: what is loaded and typed is told, what  *)
(* is asked by text is asked, and nothing else that the loader, the REPL or *)
(* simple_query does changes what the knowledge base answers.               *)
(***************************************************************************)
THEOREM TextImplementsDatabase ==
    ASSUME InputsNamed, EvaluationExact, RulesNamedAlike, StartsFree, AnswersListed(BindingSets)
    PROVE  UsedByText => ImplementsDatabase
<1>1. DrivesKnowledgeBase => ImplementsDatabase
  BY ClientsSeeDatabase
<1> QED
  BY <1>1, TextClients, PTL

--------------------------------------------------------------------------------
(***************************************************************************)
(* The evaluator of the code.  What it takes from class Unifier and from    *)
(* the renaming of rules is as the steps and the replacements of variables  *)
(* in UnifierSteps and Interpretations say; worlds and valuations let the   *)
(* variables stand for trees; and no two goals print alike.                 *)
(***************************************************************************)
OfTerms ==
    /\ OverTerms /\ UnifiesBySteps /\ RenamesByTerms /\ SubstitutesByTerms
    /\ WorldsOfTrees /\ ValuationsOfTrees /\ ValuationsFree
    /\ HeightsNatural /\ ReachesMeans
    /\ KeysTellGoals

LEMMA OfTermsIsExact ==
    ASSUME InputsNamed, OfTerms
    PROVE  EvaluationExact /\ RenamingFresh /\ StartsFree
<1>1. /\ OverTerms /\ UnifiesBySteps /\ RenamesByTerms /\ SubstitutesByTerms
      /\ WorldsOfTrees /\ ValuationsOfTrees /\ ValuationsFree
      /\ HeightsNatural /\ ReachesMeans /\ KeysTellGoals
  BY DEF OfTerms
<1>2. RenamingNamed /\ RenamingFresh /\ UnifierKeepsNames
  BY <1>1, RenamingByTermsIsFresh, UnifyingByStepsKeepsNames
<1>3. UnifierSound /\ UnifierComplete /\ RenamingRenames /\ KeysTellMeanings
  BY <1>1, UnifyingByStepsIsSound, UnifyingByStepsIsComplete, RenamingByTermsRenames, KeysOfTermsTell
<1>4. Meanings
  BY <1>1, TreesAreLocal DEF Meanings
<1>5. StartsFree
  <2>1. NoBindingSet \in BindingSets /\ BindingVars(NoBindingSet) = {}
    BY DEF InputsNamed
  <2>2. DOMAIN NoBindingSet = {}
    BY <1>1, <2>1 DEF OverTerms, VarsOfBindings
  <2> QED
    BY <1>1, <2>1, <2>2 DEF StartsFree, ValuationsOfTrees, SolvesBindings
<1> QED
  BY <1>2, <1>3, <1>4, <1>5 DEF EvaluationExact, EvaluationSound, EvaluationRight

(***************************************************************************)
(* The evaluator, run with Unifier::unify as the step machine has it, is a  *)
(* logic database, for its clients in C++ and for the programs that use it  *)
(* by text: unification, renaming, the bookkeeping of the evaluator and the *)
(* recursion guard together, for all terms, clauses and queries.            *)
(***************************************************************************)
THEOREM EvaluatorOfTermsIsDatabase ==
    ASSUME InputsNamed, OfTerms, RulesNamedAlike, AnswersListed(BindingSets)
    PROVE  (Spec => ImplementsDatabase) /\ (UsedByText => ImplementsDatabase)
<1>1. EvaluationExact /\ StartsFree
  BY OfTermsIsExact
<1>2. DrivesKnowledgeBase => ImplementsDatabase
  BY <1>1, ClientsSeeDatabase
<1> QED
  BY <1>2, TextClients, PTL DEF DrivesKnowledgeBase, Spec

================================================================================
