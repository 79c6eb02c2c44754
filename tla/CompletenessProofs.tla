--------------------------- MODULE CompletenessProofs ---------------------------
(***************************************************************************)
(* The results of the evaluator miss nothing that the clauses derive, for   *)
(* all clauses, queries and derivations, if its unifier finds a unifier     *)
(* where there is one, and the recursion guard costs no answer.             *)
(***************************************************************************)
EXTENDS Completeness, KnowledgeBaseProofs

(***************************************************************************)
(* What a literal means, and whether a binding set is solved, depends on    *)
(* what its own variables stand for; heights are numbers.                   *)
(***************************************************************************)
ValuationsLocal ==
    \A w \in Valuations, v \in Valuations :
        /\ \A l \in Literals : Agree(w, v, LiteralVars(l)) => Meaning(w, l) = Meaning(v, l)
        /\ \A b \in BindingSets :
               Agree(w, v, BindingVars(b)) /\ SolvedBy(w, b) => SolvedBy(v, b)

HeightsNatural == \A m \in Derivations : \A l \in DOMAIN m : m[l] \in Nat

(* Literals that mean the same have the same predicate. *)
PredicatesTold ==
    \A w \in Valuations, v \in Valuations, g \in Literals, h \in Literals :
        Meaning(w, g) = Meaning(v, h) => g.predicate = h.predicate

(***************************************************************************)
(* unify finds a unifier if a solution of the caller's bindings makes goal  *)
(* and clause the same, and loses no such solution.                        *)
(***************************************************************************)
UnifierComplete ==
    \A goal \in Literals, fact \in Literals, b \in BindingSets, w \in Valuations :
        SolvedBy(w, b) /\ Meaning(w, goal) = Meaning(w, fact) =>
            \E c \in BindingSets : Unify(goal, fact, b) = <<c>> /\ SolvedBy(w, c)

(***************************************************************************)
(* A renamed rule says what the rule does: whatever the rule's variables    *)
(* may stand for, the new ones may, without a change to those in use.       *)
(***************************************************************************)
SaysTheSame(r, n) ==
    LET new == Rename(r, n)
    IN  /\ r.head \in Literals /\ DOMAIN new.body = DOMAIN r.body
        /\ \A u \in Valuations, w \in Valuations :
               \E v \in Valuations :
                   /\ Agree(w, v, NamesBefore(n))
                   /\ Meaning(v, new.head) = Meaning(u, r.head)
                   /\ \A j \in DOMAIN r.body : Meaning(v, new.body[j]) = Meaning(u, r.body[j])

RenamingRenames == \A r \in RuleInputs, n \in Nat : IsValid(r) => SaysTheSame(r, n)

(* Goals that print alike under their bindings mean the same where both are solved. *)
KeysTellMeanings ==
    \A g \in Literals, h \in Literals, b \in BindingSets, c \in BindingSets, w \in Valuations :
        KeyOf(g, b) = KeyOf(h, c) /\ SolvedBy(w, b) /\ SolvedBy(w, c) =>
            Meaning(w, g) = Meaning(w, h)

(* A result is reached by the valuations that agree with one of its solutions. *)
ReachesMeans ==
    \A w \in Valuations, v \in Valuations, b \in BindingSets, l \in Literals :
        Agree(w, v, LiteralVars(l)) /\ SolvedBy(v, b) => Reaches(w, LiteralVars(l), b)

Meanings == ValuationsLocal /\ HeightsNatural /\ PredicatesTold /\ ReachesMeans

--------------------------------------------------------------------------------
(* Lemmas about what agrees. *)

LEMMA AgreeFacts ==
    ASSUME NEW w, NEW v, NEW u, NEW V, NEW U
    PROVE  /\ Agree(w, w, V)
           /\ Agree(w, v, V) => Agree(v, w, V)
           /\ Agree(w, v, V) /\ Agree(v, u, V) => Agree(w, u, V)
           /\ Agree(w, v, V) /\ U \subseteq V => Agree(w, v, U)
BY DEF Agree

Kinds == {"evaluateGoal", "evaluateConjunction"}

AllKinds(s) == \A i \in DOMAIN s : s[i].fn \in Kinds

SameTask(f, g) == g.fn = f.fn /\ g.bindings = f.bindings /\ TaskOf(g) = TaskOf(f)

SameBelow(s, t, k) == \A i \in 1..k : SameTask(s[i], t[i]) /\ s[i].fn \in Kinds

LEMMA SameTaskVars ==
    ASSUME NEW f, NEW g, SameTask(f, g), f.fn \in Kinds
    PROVE  FrameVars(g) = FrameVars(f) /\ (f.fn = "evaluateGoal" => g.goal = f.goal)
<1>1. CASE f.fn = "evaluateGoal"
  <2>1. g.goal = f.goal
    BY <1>1 DEF SameTask, TaskOf
  <2> QED
    BY <1>1, <2>1 DEF SameTask, FrameVars
<1>2. CASE f.fn = "evaluateConjunction"
  <2>1. g.goals = f.goals
    BY <1>2 DEF SameTask, TaskOf
  <2> QED
    BY <1>2, <2>1 DEF SameTask, FrameVars
<1> QED
  BY <1>1, <1>2 DEF Kinds

(* What is owed to activations depends on their tasks only. *)
LEMMA SameOwed ==
    ASSUME NEW m, NEW s, NEW t, NEW q, NEW k \in Nat, SameBelow(s, t, k)
    PROVE  /\ VarsBelow(t, q, k) = VarsBelow(s, q, k)
           /\ \A w, goals, b : OwedBy(m, w, t, k, goals, b) <=> OwedBy(m, w, s, k, goals, b)
           /\ \A goals, b : HandedDown(m, t, q, k, goals, b) = HandedDown(m, s, q, k, goals, b)
<1>1. \A i \in 1..k : /\ FrameVars(t[i]) = FrameVars(s[i])
                      /\ t[i].fn = s[i].fn /\ t[i].bindings = s[i].bindings
                      /\ s[i].fn = "evaluateGoal" => t[i].goal = s[i].goal
  BY SameTaskVars DEF SameBelow, SameTask
<1>2. VarsBelow(t, q, k) = VarsBelow(s, q, k)
  BY <1>1 DEF VarsBelow
<1>3. \A w, goals, b : OwedBy(m, w, t, k, goals, b) <=> OwedBy(m, w, s, k, goals, b)
  BY <1>1 DEF OwedBy
<1>4. \A goals, b : HandedDown(m, t, q, k, goals, b) = HandedDown(m, s, q, k, goals, b)
  BY <1>2, <1>3 DEF HandedDown
<1> QED
  BY <1>2, <1>3, <1>4

LEMMA VarsGrow ==
    ASSUME NEW s, NEW q, NEW k \in Nat, NEW j \in Nat, j <= k
    PROVE  /\ VarsBelow(s, q, j) \subseteq VarsBelow(s, q, k)
           /\ \A i \in 1..k : FrameVars(s[i]) \subseteq VarsBelow(s, q, k)
           /\ LiteralVars(q) \subseteq VarsBelow(s, q, k)
<1>1. 1..j \subseteq 1..k
  OBVIOUS
<1> QED
  BY <1>1 DEF VarsBelow

LEMMA MorePaid ==
    ASSUME NEW m, NEW w, NEW f, NEW V, NEW P, NEW R, NEW p,
           Accounted(m, w, f, V, P, p), P \subseteq R
    PROVE  Accounted(m, w, f, V, R, p)
BY DEF Accounted

--------------------------------------------------------------------------------
(* Lemmas about stacks: a call, a step of the topmost activation, a return. *)

(***************************************************************************)
(* Two stacks with the same tasks at the first j places.  If the callee of  *)
(* each of them pays at least what it did, their accounts are kept.         *)
(***************************************************************************)
LEMMA BelowAccounts ==
    ASSUME NEW m, NEW q, NEW P, NEW R, NEW p, NEW s, NEW t, NEW j \in Nat,
           NEW k \in Nat, 1 <= k, k <= j, k \in DOMAIN s, t[k] = s[k],
           SameBelow(s, t, j), Accounts(m, s, q, P, p),
           Paid(m, s, q, k, P) \subseteq Paid(m, t, q, k, R),
           NEW w \in Valuations, OwedBy(m, w, t, k - 1, TaskOf(t[k]), t[k].bindings)
    PROVE  Accounted(m, w, t[k], VarsBelow(t, q, k), Paid(m, t, q, k, R), p)
<1>1. k - 1 \in Nat /\ SameBelow(s, t, k - 1) /\ SameBelow(s, t, k)
  BY DEF SameBelow
<1>2. OwedBy(m, w, s, k - 1, TaskOf(s[k]), s[k].bindings)
  BY <1>1, SameOwed
<1>3. VarsBelow(t, q, k) = VarsBelow(s, q, k)
  BY <1>1, SameOwed
<1>4. Accounted(m, w, s[k], VarsBelow(s, q, k), Paid(m, s, q, k, P), p)
  BY <1>2 DEF Accounts
<1> QED
  BY <1>3, <1>4, MorePaid

LEMMA BelowPaid ==
    ASSUME NEW m, NEW q, NEW P, NEW R, NEW s, NEW t, NEW j \in Nat,
           NEW k \in Nat, k <= j, SameBelow(s, t, j), k # Len(s), k # Len(t),
           TaskOf(t[k + 1]) = TaskOf(s[k + 1]), t[k + 1].bindings = s[k + 1].bindings
    PROVE  Paid(m, t, q, k, R) = Paid(m, s, q, k, P)
<1>1. SameBelow(s, t, k)
  BY DEF SameBelow
<1>2. Paid(m, t, q, k, R) = HandedDown(m, t, q, k, TaskOf(s[k + 1]), s[k + 1].bindings)
  BY DEF Paid
<1>3. Paid(m, s, q, k, P) = HandedDown(m, s, q, k, TaskOf(s[k + 1]), s[k + 1].bindings)
  BY DEF Paid
<1>4. HandedDown(m, t, q, k, TaskOf(s[k + 1]), s[k + 1].bindings)
        = HandedDown(m, s, q, k, TaskOf(s[k + 1]), s[k + 1].bindings)
  BY <1>1, SameOwed
<1> QED
  BY <1>2, <1>3, <1>4

(* A new activation owes what its task is owed, when it has just begun. *)
Begins(m, s, q, f, R, p) ==
    \A w \in Valuations : OwedBy(m, w, s, Len(s), TaskOf(f), f.bindings) =>
        Accounted(m, w, f, VarsBelow(s, q, Len(s)) \cup FrameVars(f), R, p)

LEMMA PushAccounts ==
    ASSUME NEW m, NEW q, NEW P, NEW R, NEW p,
           NEW s, IsSequence(s), AllKinds(s), Accounts(m, s, q, P, p), NEW f, f.fn \in Kinds,
           P \subseteq HandedDown(m, s, q, Len(s), TaskOf(f), f.bindings),
           Begins(m, s, q, f, R, p)
    PROVE  Accounts(m, Append(s, f), q, R, p)
<1> DEFINE t == Append(s, f)
           n == Len(s)
<1>1. /\ n \in Nat /\ DOMAIN s = 1..n
      /\ Len(t) = n + 1 /\ DOMAIN t = 1..(n + 1)
      /\ \A i \in 1..n : t[i] = s[i]
      /\ t[n + 1] = f
  BY AppendFacts, StackBasics
<1>n. Len(s) = n
  OBVIOUS
<1> HIDE DEF t, n
<1>2. SameBelow(s, t, n)
  BY <1>1 DEF SameBelow, SameTask, AllKinds
<1>3. ASSUME NEW k \in Nat, k <= n
      PROVE  Paid(m, s, q, k, P) \subseteq Paid(m, t, q, k, R)
  <2>1. CASE k = n
    <3>1. Paid(m, t, q, k, R) = HandedDown(m, t, q, n, TaskOf(f), f.bindings)
      <4>1. k # Len(t) /\ t[k + 1] = f
        BY <1>1, <2>1
      <4> QED
        BY <2>1, <4>1 DEF Paid
    <3>2. HandedDown(m, t, q, n, TaskOf(f), f.bindings)
            = HandedDown(m, s, q, n, TaskOf(f), f.bindings)
      BY <1>1, <1>2, SameOwed
    <3>3. Paid(m, s, q, k, P) = P
      BY <1>n, <2>1 DEF Paid
    <3> QED
      BY <1>n, <3>1, <3>2, <3>3
  <2>2. CASE k # n
    <3>1. k + 1 \in 1..n /\ k # Len(s) /\ k # Len(t)
      BY <1>1, <1>n, <1>3, <2>2
    <3>2. t[k + 1] = s[k + 1]
      BY <1>1, <3>1
    <3> QED
      BY <1>1, <1>2, <1>3, <3>1, <3>2, BelowPaid
  <2> QED
    BY <2>1, <2>2
<1>4. ASSUME NEW w \in Valuations, SolvedBy(w, NoBindingSet), Meaning(w, q) \in DOMAIN m
      PROVE  w \in Paid(m, t, q, 0, R)
  <2>1. w \in Paid(m, s, q, 0, P)
    BY <1>4 DEF Accounts
  <2>2. 0 \in Nat /\ 0 <= n
    BY <1>1
  <2> QED
    BY <1>3, <2>1, <2>2
<1>5. ASSUME NEW k \in DOMAIN t, NEW w \in Valuations,
             OwedBy(m, w, t, k - 1, TaskOf(t[k]), t[k].bindings)
      PROVE  Accounted(m, w, t[k], VarsBelow(t, q, k), Paid(m, t, q, k, R), p)
  <2>0. k \in Nat /\ 1 <= k /\ k <= n + 1
    BY <1>1
  <2>1. CASE k <= n
    <3>1. k \in DOMAIN s /\ t[k] = s[k]
      BY <1>1, <2>0, <2>1
    <3>2. Paid(m, s, q, k, P) \subseteq Paid(m, t, q, k, R)
      BY <1>3, <2>0, <2>1
    <3> QED
      BY <1>1, <1>2, <1>5, <2>0, <2>1, <3>1, <3>2, BelowAccounts
  <2>2. CASE k = n + 1
    <3>1. Paid(m, t, q, k, R) = R /\ t[k] = f /\ k - 1 = n
      BY <1>1, <2>2 DEF Paid
    <3>2. OwedBy(m, w, s, n, TaskOf(f), f.bindings)
      BY <1>1, <1>2, <1>5, <3>1, SameOwed
    <3>3. Accounted(m, w, f, VarsBelow(s, q, n) \cup FrameVars(f), R, p)
      BY <1>n, <3>2 DEF Begins
    <3>4. VarsBelow(t, q, k) = VarsBelow(s, q, n) \cup FrameVars(f)
      <4>1. VarsBelow(t, q, n) = VarsBelow(s, q, n)
        BY <1>1, <1>2, SameOwed
      <4>2. VarsBelow(t, q, k) = VarsBelow(t, q, n) \cup FrameVars(t[k])
        <5>1. 1..k = 1..n \cup {k}
          BY <1>1, <2>2
        <5> HIDE DEF t
        <5> QED
          BY <5>1 DEF VarsBelow
      <4> QED
        BY <3>1, <4>1, <4>2
    <3> QED
      BY <3>1, <3>3, <3>4
  <2> QED
    BY <1>1, <2>0, <2>1, <2>2
<1>6. Accounts(m, t, q, R, p)
  BY <1>4, <1>5 DEF Accounts
<1> QED
  BY <1>6 DEF t

(* A step of the topmost activation settles nothing that is still owed. *)
Goes(m, s, q, f, P, g, R, p) ==
    \A w \in Valuations :
        /\ OwedBy(m, w, s, Len(s) - 1, TaskOf(f), f.bindings)
        /\ Accounted(m, w, f, VarsBelow(s, q, Len(s)), P, p)
        => Accounted(m, w, g, VarsBelow(s, q, Len(s)), R, p)

LEMMA SetTopAccounts ==
    ASSUME NEW m, NEW q, NEW P, NEW R, NEW p,
           NEW s, IsSequence(s), s # << >>, AllKinds(s), Accounts(m, s, q, P, p),
           NEW f, f = s[Len(s)], NEW g, SameTask(f, g), Goes(m, s, q, f, P, g, R, p)
    PROVE  /\ Accounts(m, [s EXCEPT ![Len(s)] = g], q, R, p)
           /\ SameBelow(s, [s EXCEPT ![Len(s)] = g], Len(s))
<1> DEFINE t == [s EXCEPT ![Len(s)] = g]
           n == Len(s)
<1>1. /\ n \in Nat /\ 1 <= n /\ DOMAIN s = 1..n
      /\ Len(t) = n /\ DOMAIN t = 1..n
      /\ t[n] = g /\ s[n] = f
      /\ \A i \in 1..n : i # n => t[i] = s[i]
  BY SetTopFacts, StackBasics
<1>n. Len(s) = n
  OBVIOUS
<1> HIDE DEF t, n
<1>2. \A i \in 1..n : SameTask(s[i], t[i]) /\ s[i].fn \in Kinds
  BY <1>1 DEF SameTask, AllKinds
<1>3. SameBelow(s, t, n)
  BY <1>2 DEF SameBelow
<1>4. ASSUME NEW k \in Nat, k <= n, k # n
      PROVE  Paid(m, t, q, k, R) = Paid(m, s, q, k, P)
  <2>1. k + 1 \in 1..n /\ k # Len(s) /\ k # Len(t)
    BY <1>1, <1>n, <1>4
  <2>2. TaskOf(t[k + 1]) = TaskOf(s[k + 1]) /\ t[k + 1].bindings = s[k + 1].bindings
    BY <1>2, <2>1 DEF SameTask
  <2> QED
    BY <1>1, <1>3, <1>4, <2>1, <2>2, BelowPaid
<1>5. ASSUME NEW w \in Valuations, SolvedBy(w, NoBindingSet), Meaning(w, q) \in DOMAIN m
      PROVE  w \in Paid(m, t, q, 0, R)
  <2>1. w \in Paid(m, s, q, 0, P)
    BY <1>5 DEF Accounts
  <2>2. 0 \in Nat /\ 0 <= n /\ 0 # n
    BY <1>1
  <2> QED
    BY <1>4, <2>1, <2>2
<1>6. ASSUME NEW k \in DOMAIN t, NEW w \in Valuations,
             OwedBy(m, w, t, k - 1, TaskOf(t[k]), t[k].bindings)
      PROVE  Accounted(m, w, t[k], VarsBelow(t, q, k), Paid(m, t, q, k, R), p)
  <2>0. k \in Nat /\ 1 <= k /\ k <= n /\ k \in DOMAIN s
    BY <1>1
  <2>1. CASE k # n
    <3>1. t[k] = s[k] /\ Paid(m, s, q, k, P) \subseteq Paid(m, t, q, k, R)
      BY <1>1, <1>4, <2>0, <2>1
    <3> QED
      BY <1>1, <1>3, <1>6, <2>0, <3>1, BelowAccounts
  <2>2. CASE k = n
    <3>1. Paid(m, s, q, n, P) = P /\ Paid(m, t, q, n, R) = R
      BY <1>1, <1>n DEF Paid
    <3>2. SameBelow(s, t, n - 1) /\ n - 1 \in Nat
      BY <1>1, <1>3 DEF SameBelow
    <3>3. OwedBy(m, w, s, n - 1, TaskOf(g), g.bindings)
      BY <1>1, <1>6, <2>2, <3>2, SameOwed
    <3>4. OwedBy(m, w, s, n - 1, TaskOf(f), f.bindings)
      BY <3>3 DEF SameTask
    <3>5. Accounted(m, w, f, VarsBelow(s, q, n), P, p)
      BY <1>1, <3>1, <3>4 DEF Accounts
    <3>6. Accounted(m, w, g, VarsBelow(s, q, n), R, p)
      BY <1>n, <3>4, <3>5 DEF Goes
    <3>7. VarsBelow(t, q, n) = VarsBelow(s, q, n)
      BY <1>1, <1>3, SameOwed
    <3> QED
      BY <1>1, <2>2, <3>1, <3>6, <3>7
  <2> QED
    BY <2>1, <2>2
<1>7. Accounts(m, t, q, R, p)
  BY <1>5, <1>6 DEF Accounts
<1> QED
  BY <1>3, <1>7, <1>n DEF t

(* Results on which the topmost activation settles all that it owes. *)
Settles(m, s, q, f, P, results, p) ==
    \A w \in Valuations :
        /\ OwedBy(m, w, s, Len(s) - 1, TaskOf(f), f.bindings)
        /\ Accounted(m, w, f, VarsBelow(s, q, Len(s)), P, p)
        => w \in FoundIn(results, VarsBelow(s, q, Len(s)))

LEMMA PopAccounts ==
    ASSUME NEW m, NEW q, NEW P, NEW p, NEW results,
           NEW s, IsSequence(s), s # << >>, AllKinds(s), Accounts(m, s, q, P, p),
           NEW f, f = s[Len(s)], Settles(m, s, q, f, P, results, p)
    PROVE  LET t == SubSeq(s, 1, Len(s) - 1)
           IN  Accounts(m, t, q, FoundIn(results, VarsBelow(t, q, Len(t))), p)
<1> DEFINE t == SubSeq(s, 1, Len(s) - 1)
           n == Len(s)
           l == n - 1
           R == FoundIn(results, VarsBelow(t, q, Len(t)))
<1>1. /\ n \in Nat /\ l \in Nat /\ l < n /\ n = l + 1 /\ DOMAIN s = 1..n /\ s[n] = f
      /\ Len(t) = l /\ DOMAIN t = 1..l
      /\ \A i \in 1..l : t[i] = s[i]
  BY PopFacts, StackBasics
<1>n. Len(s) = n /\ Len(s) - 1 = l
  OBVIOUS
<1> HIDE DEF t, n, l
<1>2. SameBelow(s, t, l)
  BY <1>1 DEF SameBelow, SameTask, AllKinds
<1>3. VarsBelow(t, q, l) = VarsBelow(s, q, l) /\ VarsBelow(s, q, l) \subseteq VarsBelow(s, q, n)
  <2>1. VarsBelow(t, q, l) = VarsBelow(s, q, l)
    BY <1>1, <1>2, SameOwed
  <2>2. l <= n
    BY <1>1
  <2>3. VarsBelow(s, q, l) \subseteq VarsBelow(s, q, n)
    BY <1>1, <2>2, VarsGrow
  <2> QED
    BY <2>1, <2>3
<1>4. ASSUME NEW w \in Paid(m, s, q, l, P) PROVE w \in R
  <2>1. w \in HandedDown(m, s, q, l, TaskOf(f), f.bindings)
    <3>1. l # Len(s) /\ s[l + 1] = f
      BY <1>1, <1>n
    <3> QED
      BY <1>4, <3>1 DEF Paid
  <2>2. PICK v \in Valuations : /\ Agree(w, v, VarsBelow(s, q, l))
                                /\ OwedBy(m, v, s, l, TaskOf(f), f.bindings)
    BY <2>1 DEF HandedDown
  <2>3. Accounted(m, v, s[n], VarsBelow(s, q, n), Paid(m, s, q, n, P), p)
    <3>1. n \in DOMAIN s /\ n - 1 = l
      BY <1>1
    <3> QED
      BY <1>1, <2>2, <3>1 DEF Accounts
  <2>4. Paid(m, s, q, n, P) = P
    BY <1>n DEF Paid
  <2>5. v \in FoundIn(results, VarsBelow(s, q, n))
    BY <1>1, <1>n, <2>2, <2>3, <2>4 DEF Settles
  <2>6. PICK i \in DOMAIN results, u \in Valuations :
            Agree(v, u, VarsBelow(s, q, n)) /\ SolvedBy(u, results[i])
    BY <2>5 DEF FoundIn
  <2>7. Agree(v, u, VarsBelow(s, q, l))
    BY <1>3, <2>6, AgreeFacts
  <2>8. Agree(w, u, VarsBelow(t, q, Len(t)))
    BY <1>1, <1>3, <2>2, <2>7, AgreeFacts
  <2>9. w \in Valuations
    BY <2>1 DEF HandedDown
  <2> QED
    BY <2>6, <2>8, <2>9 DEF FoundIn
<1>5. Paid(m, t, q, l, R) = R
  BY <1>1 DEF Paid
<1> HIDE DEF R
<1>6. ASSUME NEW k \in Nat, k <= l
      PROVE  Paid(m, s, q, k, P) \subseteq Paid(m, t, q, k, R)
  <2>1. CASE k = l
    BY <1>4, <1>5, <2>1
  <2>2. CASE k # l
    <3>1. k + 1 \in 1..l /\ k # Len(s) /\ k # Len(t)
      BY <1>1, <1>n, <1>6, <2>2
    <3>2. t[k + 1] = s[k + 1]
      BY <1>1, <3>1
    <3> QED
      BY <1>1, <1>2, <1>6, <3>1, <3>2, BelowPaid
  <2> QED
    BY <2>1, <2>2
<1>7. ASSUME NEW w \in Valuations, SolvedBy(w, NoBindingSet), Meaning(w, q) \in DOMAIN m
      PROVE  w \in Paid(m, t, q, 0, R)
  <2>1. w \in Paid(m, s, q, 0, P)
    BY <1>7 DEF Accounts
  <2>2. 0 \in Nat /\ 0 <= l
    BY <1>1
  <2> QED
    BY <1>6, <2>1, <2>2
<1>8. ASSUME NEW k \in DOMAIN t, NEW w \in Valuations,
             OwedBy(m, w, t, k - 1, TaskOf(t[k]), t[k].bindings)
      PROVE  Accounted(m, w, t[k], VarsBelow(t, q, k), Paid(m, t, q, k, R), p)
  <2>1. k \in Nat /\ 1 <= k /\ k <= l /\ k \in DOMAIN s /\ t[k] = s[k]
    BY <1>1
  <2>2. Paid(m, s, q, k, P) \subseteq Paid(m, t, q, k, R)
    BY <1>6, <2>1
  <2> QED
    BY <1>1, <1>2, <1>8, <2>1, <2>2, BelowAccounts
<1>9. Accounts(m, t, q, R, p)
  BY <1>7, <1>8 DEF Accounts
<1>10. R = FoundIn(results, VarsBelow(t, q, Len(t)))
  BY DEF R
<1>11. Accounts(m, t, q, FoundIn(results, VarsBelow(t, q, Len(t))), p)
  BY <1>9, <1>10
<1> QED
  BY <1>11 DEF t

--------------------------------------------------------------------------------
(* What the three ways of changing the stack make of the accounts. *)

Kept == UNCHANGED <<facts, rules, asked>>

LEMMA TopBasics ==
    ASSUME NamesInv
    PROVE  /\ IsSequence(stack) /\ AllKinds(stack) /\ Len(stack) \in Nat
           /\ DOMAIN stack = 1..Len(stack) /\ varCounter \in Nat
           /\ stack # << >> => /\ Top = stack[Len(stack)] /\ Len(stack) \in DOMAIN stack
                               /\ FrameNamed(Top, varCounter) /\ FrameOK(Top, Len(rules))
<1>1. StackOK(stack, Len(rules)) /\ varCounter \in Nat
  BY InvStack DEF NamesInv, Inv, TypeOK
<1>2. AllKinds(stack)
  BY <1>1 DEF StackOK, AllKinds, Kinds, FrameOK
<1> QED
  BY <1>1, <1>2, StackBasics DEF StackOK, Top, NamesInv, NamesOK, AllNamed

LEMMA KeptProgram == ASSUME Kept PROVE Program' = Program /\ asked'[1] = asked[1]
BY DEF Kept, Program

LEMMA ResumesAccounts ==
    ASSUME NamesInv, Kept, stack # << >>, NEW m, AccountsNow(m), NEW g, ResumeTop(g),
           SameTask(Top, g), Goes(m, stack, asked[1], Top, PaidNow(m), g, {}, Program)
    PROVE  AccountsNow(m)'
<1>1. stack' = [stack EXCEPT ![Len(stack)] = g] /\ pc' = "run"
  BY DEF ResumeTop
<1>2. PaidNow(m)' = {}
  BY <1>1 DEF PaidNow
<1>3. Accounts(m, [stack EXCEPT ![Len(stack)] = g], asked[1], {}, Program)
  BY TopBasics, SetTopAccounts DEF AccountsNow
<1>4. Accounts(m, stack', asked'[1], PaidNow(m)', Program')
  BY <1>1, <1>2, <1>3, KeptProgram
<1> QED
  BY <1>4 DEF AccountsNow

LEMMA PopsAccounts ==
    ASSUME NamesInv, Kept, stack # << >>, NEW m, AccountsNow(m),
           NEW results, PopFrame, ReturnToCaller(results),
           Settles(m, stack, asked[1], Top, PaidNow(m), results, Program)
    PROVE  AccountsNow(m)'
<1> DEFINE t == SubSeq(stack, 1, Len(stack) - 1)
<1>1. stack' = t /\ pc' = "return" /\ ret' = results
  BY DEF PopFrame, ReturnToCaller
<1>2. Accounts(m, t, asked[1], FoundIn(results, VarsBelow(t, asked[1], Len(t))), Program)
  BY TopBasics, PopAccounts DEF AccountsNow
<1> HIDE DEF t
<1>3. PaidNow(m)' = FoundIn(results, VarsBelow(t, asked[1], Len(t)))
  <2>1. PaidNow(m)' = FoundIn(ret', VarsBelow(stack', asked'[1], Len(stack')))
    BY <1>1 DEF PaidNow
  <2> QED
    BY <1>1, <2>1, KeptProgram
<1>4. Accounts(m, stack', asked'[1], PaidNow(m)', Program')
  BY <1>1, <1>2, <1>3, KeptProgram
<1> QED
  BY <1>4 DEF AccountsNow

(* The first of several goals is owed what they all are. *)
LEMMA FirstOwed ==
    ASSUME NEW m, NEW s, IsSequence(s), NEW f, f.fn # "evaluateGoal",
           NEW w, NEW goals, NEW b, IsSequence(goals), goals # << >>,
           OwedBy(m, w, s, Len(s), goals, b)
    PROVE  OwedBy(m, w, Append(s, f), Len(s) + 1, <<goals[1]>>, b)
<1> DEFINE t == Append(s, f)
           n == Len(s)
           one == <<goals[1]>>
<1>1. /\ n \in Nat /\ \A i \in 1..n : t[i] = s[i]
      /\ t[n + 1] = f
  BY AppendFacts, StackBasics
<1>2. 1 \in DOMAIN goals /\ DOMAIN one = {1} /\ one[1] = goals[1]
  BY TailFacts
<1>3. OwedBy(m, w, s, n, goals, b)
  OBVIOUS
<1> HIDE DEF t, n, one
<1>4. ASSUME NEW i \in 1..(n + 1), t[i].fn = "evaluateGoal" PROVE i \in 1..n /\ t[i] = s[i]
  <2>1. i # n + 1
    BY <1>1, <1>4
  <2> QED
    BY <1>1, <2>1
<1>5. \A j \in DOMAIN one : j = 1 /\ one[j] = goals[1]
  BY <1>2
<1>6. OwedBy(m, w, t, n + 1, one, b)
  BY <1>2, <1>3, <1>4, <1>5 DEF OwedBy
<1> QED
  BY <1>6 DEF t, n, one

LEMMA CallsAccounts ==
    ASSUME NamesInv, Kept, stack # << >>, NEW m, AccountsNow(m),
           NEW g, SameTask(Top, g), NEW goals, IsSequence(goals), goals # << >>, NEW b,
           CallConjunction([stack EXCEPT ![Len(stack)] = g], goals, b),
           Goes(m, stack, asked[1], Top, PaidNow(m), g,
                HandedDown(m, stack, asked[1], Len(stack), goals, b), Program)
    PROVE  AccountsNow(m)'
<1> DEFINE under == [stack EXCEPT ![Len(stack)] = g]
           q == asked[1]
           n == Len(stack)
           f == ConjunctionFrame(goals, b)
           P == HandedDown(m, stack, q, n, goals, b)
           R == HandedDown(m, stack', q, n + 1, <<goals[1]>>, b)
<1>1. /\ stack' = Append(under, f) /\ pc' = "goal"
      /\ call'.goal = goals[1] /\ call'.bindings = b
  BY DEF CallConjunction, CallGoal
<1>2. /\ Accounts(m, under, q, P, Program)
      /\ SameBelow(stack, under, n)
      /\ IsSequence(under) /\ Len(under) = n /\ n \in Nat
  <2>1. /\ IsSequence(stack) /\ AllKinds(stack) /\ n \in Nat /\ Top = stack[n]
        /\ Accounts(m, stack, q, PaidNow(m), Program)
        /\ Goes(m, stack, q, Top, PaidNow(m), g, P, Program)
    BY TopBasics DEF AccountsNow
  <2> HIDE DEF P, q
  <2>2. IsSequence(under) /\ Len(under) = n
    BY <2>1, SetTopFacts
  <2>3. Accounts(m, under, q, P, Program) /\ SameBelow(stack, under, n)
    BY <2>1, SetTopAccounts
  <2> QED
    BY <2>1, <2>2, <2>3
<1>3. f.fn = "evaluateConjunction" /\ f.goals = goals /\ f.bindings = b
  BY DEF ConjunctionFrame
<1>4. TaskOf(f) = goals /\ f.fn \in Kinds
  BY <1>3 DEF TaskOf, Kinds
<1>5. AllKinds(under)
  <2>1. DOMAIN under = 1..n /\ DOMAIN stack = 1..n
    BY <1>2, TopBasics, StackBasics
  <2> QED
    BY <1>2, <2>1 DEF AllKinds, SameBelow, SameTask
<1>6. P = HandedDown(m, under, q, Len(under), TaskOf(f), f.bindings)
  BY <1>2, <1>3, <1>4, SameOwed
<1>7. stack' = Append(under, f) /\ Len(stack') = n + 1 /\ f.fn # "evaluateGoal"
  BY <1>1, <1>2, <1>3, AppendFacts
<1>e. /\ goals = TaskOf(f) /\ b = f.bindings /\ Len(under) = n
      /\ R = HandedDown(m, stack', q, n + 1, <<goals[1]>>, b)
  BY <1>2, <1>3, <1>4
<1>p. PaidNow(m)' = R
  <2>1. PaidNow(m)' = HandedDown(m, stack', asked'[1], Len(stack'), <<call'.goal>>, call'.bindings)
    BY <1>1 DEF PaidNow
  <2> QED
    BY <1>1, <1>7, <2>1, KeptProgram
<1> HIDE DEF under, f, P, R, n
<1>8. Begins(m, under, q, f, R, Program)
  <2> SUFFICES ASSUME NEW w \in Valuations, OwedBy(m, w, under, n, goals, b)
               PROVE  w \in R
    BY <1>e DEF Begins, Accounted
  <2>1. OwedBy(m, w, stack', n + 1, <<goals[1]>>, b)
    BY <1>2, <1>7, FirstOwed
  <2>2. Agree(w, w, VarsBelow(stack', q, n + 1))
    BY AgreeFacts
  <2> QED
    BY <1>e, <2>1, <2>2 DEF HandedDown
<1>9. Accounts(m, Append(under, f), q, R, Program)
  <2>1. P \subseteq HandedDown(m, under, q, Len(under), TaskOf(f), f.bindings)
    BY <1>6
  <2> QED
    BY <1>2, <1>4, <1>5, <1>8, <2>1, PushAccounts
<1>10. Accounts(m, stack', asked'[1], PaidNow(m)', Program')
  BY <1>7, <1>9, <1>p, KeptProgram
<1> QED
  BY <1>10 DEF AccountsNow

--------------------------------------------------------------------------------
(* What agrees on the variables of the stack owes and solves alike. *)

LEMMA OwedMoves ==
    ASSUME NamesInv, ValuationsLocal, stack # << >>, NEW m,
           NEW w \in Valuations, NEW v \in Valuations,
           Agree(w, v, VarsBelow(stack, asked[1], Len(stack))),
           OwedBy(m, w, stack, Len(stack) - 1, TaskOf(Top), Top.bindings)
    PROVE  /\ OwedBy(m, v, stack, Len(stack) - 1, TaskOf(Top), Top.bindings)
           /\ \A j \in DOMAIN TaskOf(Top) :
                  Meaning(v, TaskOf(Top)[j]) = Meaning(w, TaskOf(Top)[j])
<1> DEFINE k == Len(stack)
           q == asked[1]
<1>1. k \in Nat /\ k - 1 \in Nat /\ k \in 1..k /\ 1..(k - 1) \subseteq 1..k
      /\ 1..k \subseteq DOMAIN stack /\ Top = stack[k]
  BY TopBasics
<1>0. Agree(w, v, VarsBelow(stack, q, k))
  OBVIOUS
<1> HIDE DEF k, q
<1>2. \A i \in 1..k : FrameNamed(stack[i], varCounter) /\ stack[i].fn \in Kinds
  BY <1>1, TopBasics DEF AllKinds, NamesInv, NamesOK, AllNamed
<1>3. \A i \in 1..k : Agree(w, v, FrameVars(stack[i]))
  BY <1>0, <1>1, VarsGrow, AgreeFacts
<1>4. \A i \in 1..k : SolvedBy(w, stack[i].bindings) => SolvedBy(v, stack[i].bindings)
  <2> TAKE i \in 1..k
  <2>1. BindingVars(stack[i].bindings) \subseteq FrameVars(stack[i])
    BY DEF FrameVars
  <2>2. Agree(w, v, BindingVars(stack[i].bindings))
    BY <1>3, <2>1, AgreeFacts
  <2>3. stack[i].bindings \in BindingSets
    BY <1>2 DEF FrameNamed, BindingsNamed
  <2> QED
    BY <2>2, <2>3 DEF ValuationsLocal
<1>5. ASSUME NEW i \in 1..k, NEW j \in DOMAIN TaskOf(stack[i])
      PROVE  Meaning(v, TaskOf(stack[i])[j]) = Meaning(w, TaskOf(stack[i])[j])
  <2>1. CASE stack[i].fn = "evaluateGoal"
    <3>1. TaskOf(stack[i])[j] = stack[i].goal
      BY <2>1 DEF TaskOf
    <3>2. stack[i].goal \in Literals /\ LiteralVars(stack[i].goal) \subseteq FrameVars(stack[i])
      BY <1>2, <2>1 DEF FrameNamed, GoalNamed, FrameVars
    <3>3. Agree(w, v, LiteralVars(stack[i].goal))
      BY <1>3, <3>2, AgreeFacts
    <3> QED
      BY <3>1, <3>2, <3>3 DEF ValuationsLocal
  <2>2. CASE stack[i].fn = "evaluateConjunction"
    <3>1. j \in DOMAIN stack[i].goals /\ TaskOf(stack[i])[j] = stack[i].goals[j]
      BY <2>2 DEF TaskOf
    <3>2. /\ stack[i].goals[j] \in Literals
          /\ LiteralVars(stack[i].goals[j]) \subseteq FrameVars(stack[i])
      BY <1>2, <2>2, <3>1 DEF FrameNamed, GoalsNamed, GoalNamed, FrameVars
    <3>3. Agree(w, v, LiteralVars(stack[i].goals[j]))
      BY <1>3, <3>2, AgreeFacts
    <3> QED
      BY <3>1, <3>2, <3>3 DEF ValuationsLocal
  <2> QED
    BY <1>2, <2>1, <2>2 DEF Kinds
<1>6. \A i \in 1..k : stack[i].fn = "evaluateGoal" =>
          Meaning(v, stack[i].goal) = Meaning(w, stack[i].goal)
  <2> SUFFICES ASSUME NEW i \in 1..k, stack[i].fn = "evaluateGoal"
               PROVE  Meaning(v, stack[i].goal) = Meaning(w, stack[i].goal)
    OBVIOUS
  <2>1. TaskOf(stack[i]) = <<stack[i].goal>>
    BY DEF TaskOf
  <2>2. 1 \in DOMAIN TaskOf(stack[i]) /\ TaskOf(stack[i])[1] = stack[i].goal
    BY <2>1
  <2> QED
    BY <1>5, <2>2
<1> DEFINE goals == TaskOf(stack[k])
           b == stack[k].bindings
<1>7. \A j \in DOMAIN goals : Meaning(v, goals[j]) = Meaning(w, goals[j])
  BY <1>1, <1>5
<1>8. SolvedBy(w, b) => SolvedBy(v, b)
  BY <1>1, <1>4
<1>9. OwedBy(m, w, stack, k - 1, goals, b)
  BY <1>1 DEF k
<1> HIDE DEF goals, b
<1>10. OwedBy(m, v, stack, k - 1, goals, b)
  BY <1>1, <1>4, <1>6, <1>7, <1>8, <1>9 DEF OwedBy
<1> QED
  BY <1>1, <1>7, <1>10 DEF goals, b, k

LEMMA AskedNamed ==
    ASSUME InputsNamed, NamesInv, stack # << >> \/ pc = "return"
    PROVE  asked[1] \in Literals /\ LiteralVars(asked[1]) \subseteq NamesBefore(varCounter)
<1>1. PICK g \in QueryInputs : asked = <<g>>
  BY DEF NamesInv, Inv, TypeOK, IdleClean
<1>2. GoalNamed(g, varCounter)
  BY OwnNames, TopBasics DEF InputsNamed
<1> QED
  BY <1>1, <1>2 DEF GoalNamed

(* What the goal on top owes. *)
LEMMA GoalOwed ==
    ASSUME NamesInv, stack # << >>, Top.fn = "evaluateGoal", NEW m, NEW w,
           OwedBy(m, w, stack, Len(stack) - 1, TaskOf(Top), Top.bindings)
    PROVE  /\ SolvedBy(w, Top.bindings) /\ Meaning(w, Top.goal) \in DOMAIN m
           /\ TaskOf(Top) = <<Top.goal>>
           /\ Top.goal \in Literals /\ Top.bindings \in BindingSets
<1>1. TaskOf(Top) = <<Top.goal>>
  BY DEF TaskOf
<1>2. 1 \in DOMAIN <<Top.goal>> /\ <<Top.goal>>[1] = Top.goal
  OBVIOUS
<1>3. SolvedBy(w, Top.bindings) /\ Meaning(w, Top.goal) \in DOMAIN m
  BY <1>1, <1>2 DEF OwedBy
<1> QED
  BY <1>1, <1>3, TopBasics DEF FrameNamed, GoalNamed, BindingsNamed

LEMMA FoundMore ==
    ASSUME NEW s, NEW t, IsSequence(s), IsSequence(t), NEW V
    PROVE  FoundIn(s, V) \cup FoundIn(t, V) \subseteq FoundIn(Joined(s, t), V)
BY JoinedFacts DEF FoundIn

LEMMA FoundOne ==
    ASSUME NEW w \in Valuations, NEW V, NEW c, SolvedBy(w, c)
    PROVE  w \in FoundIn(<<c>>, V)
<1> DEFINE one == <<c>>
<1>1. 1 \in DOMAIN one /\ one[1] = c
  OBVIOUS
<1>2. Agree(w, w, V)
  BY AgreeFacts
<1> HIDE DEF one
<1>3. w \in FoundIn(one, V)
  BY <1>1, <1>2 DEF FoundIn
<1> QED
  BY <1>3 DEF one

--------------------------------------------------------------------------------
(* The steps of evaluateGoal. *)

(***************************************************************************)
(* A fact that is the goal unifies with it; the others are still ahead.     *)
(***************************************************************************)
LEMMA TryFactAccounts ==
    ASSUME InputsNamed, UnifierKeepsNames, UnifierComplete, Meanings, NamesInv, TryFact,
           NEW m, AccountsNow(m)
    PROVE  AccountsNow(m)'
<1> DEFINE g == [Top EXCEPT !.results = Top.results \o FactUnifier, !.fact = Top.fact + 1]
           V == VarsBelow(stack, asked[1], Len(stack))
           fact == facts[Top.fact]
<1>1. AtFact /\ ResumeTop(g) /\ Kept /\ pc = "run" /\ PaidNow(m) = {}
  BY DEF TryFact, AtFact, Unchanged, store, Kept, PaidNow
<1>2. /\ fact \in FactInputs /\ Top.fact \in DOMAIN facts
      /\ FrameOK(Top, Len(rules)) /\ Top.fn = "evaluateGoal" /\ stack # << >>
  BY <1>1, CurrentFactOK DEF NamesInv
<1>3. fact \in Literals /\ FrameNamed(Top, varCounter)
  BY <1>2, TopBasics DEF InputsNamed, OwnName
<1>4. /\ g.fn = Top.fn /\ g.goal = Top.goal /\ g.bindings = Top.bindings
      /\ g.results = Joined(Top.results, FactUnifier) /\ g.fact = Top.fact + 1 /\ g.next = Top.next
  BY <1>2, GoalFrameFields DEF Joined
<1>5. \A i \in DOMAIN facts : i >= Top.fact => i = Top.fact \/ i >= Top.fact + 1
  BY <1>2 DEF FrameOK, NamesInv, Inv, TypeOK
<1>6. IsSequence(Top.results) /\ IsSequence(FactUnifier)
  <2>1. FactUnifier = << >> \/ \E c \in BindingSets : FactUnifier = <<c>>
    BY <1>2, <1>3 DEF UnifierKeepsNames, FactUnifier, FrameNamed, GoalNamed, BindingsNamed
  <2> QED
    BY <1>3, <2>1, EmptyIsSequence, OneIsSequence DEF FrameNamed, ResultsNamed
<1> HIDE DEF g
<1>7. SameTask(Top, g)
  BY <1>2, <1>4 DEF SameTask, TaskOf
<1>8. ASSUME NEW w \in Valuations, OwedBy(m, w, stack, Len(stack) - 1, TaskOf(Top), Top.bindings),
             Accounted(m, w, Top, V, {}, Program)
      PROVE  Accounted(m, w, g, V, {}, Program)
  <2>1. w \in FoundIn(Top.results, V) \/ Ahead(m, w, Top, Program)
    BY <1>2, <1>8 DEF Accounted
  <2>2. CASE w \in FoundIn(Top.results, V)
    <3>1. w \in FoundIn(g.results, V)
      BY <1>4, <1>6, <2>2, FoundMore
    <3> QED
      BY <1>2, <1>4, <3>1 DEF Accounted
  <2>3. CASE GroundFact(Meaning(w, Top.goal), fact)
    <3>1. Meaning(w, Top.goal) = Meaning(w, fact)
      BY <2>3 DEF GroundFact
    <3>2. /\ SolvedBy(w, Top.bindings) /\ Top.goal \in Literals /\ Top.bindings \in BindingSets
      BY <1>2, <1>8, GoalOwed
    <3>3. fact.predicate = Top.goal.predicate
      BY <1>3, <3>1, <3>2 DEF Meanings, PredicatesTold
    <3>4. FactUnifier = Unify(Top.goal, fact, Top.bindings)
      BY <3>3 DEF FactUnifier
    <3>5. PICK c : FactUnifier = <<c>> /\ SolvedBy(w, c)
      BY <1>3, <3>1, <3>2, <3>4 DEF UnifierComplete
    <3>6. w \in FoundIn(FactUnifier, V)
      BY <3>5, FoundOne
    <3>7. w \in FoundIn(g.results, V)
      BY <1>4, <1>6, <3>6, FoundMore
    <3> QED
      BY <1>2, <1>4, <3>7 DEF Accounted
  <2>4. CASE ~GroundFact(Meaning(w, Top.goal), fact) /\ Ahead(m, w, Top, Program)
    <3>1. Ahead(m, w, g, Program)
      BY <1>4, <1>5, <2>4 DEF Ahead, Program
    <3> QED
      BY <1>2, <1>4, <3>1 DEF Accounted
  <2> QED
    BY <2>1, <2>2, <2>3, <2>4
<1>9. Goes(m, stack, asked[1], Top, PaidNow(m), g, {}, Program)
  BY <1>1, <1>8 DEF Goes
<1> QED
  BY <1>1, <1>2, <1>7, <1>9, ResumesAccounts

(* What is known of the rule under way, and of a solution that it derives. *)
LEMMA RuleDerives ==
    ASSUME InputsNamed, RenamingNamed, RenamingRenames, UnifierComplete, Meanings,
           NamesInv, AtRule, NEW m, NEW w \in Valuations,
           OwedBy(m, w, stack, Len(stack) - 1, TaskOf(Top), Top.bindings),
           Derives(CurrentRule, m, Meaning(w, Top.goal))
    PROVE  /\ CurrentRule.head.predicate = Top.goal.predicate
           /\ \E v \in Valuations : \E c :
                  /\ HeadUnifier = <<c>> /\ SolvedBy(v, c)
                  /\ Agree(w, v, VarsBelow(stack, asked[1], Len(stack)))
                  /\ \A j \in DOMAIN RenamedRule.body :
                         /\ Meaning(v, RenamedRule.body[j]) \in DOMAIN m
                         /\ m[Meaning(v, RenamedRule.body[j])] < m[Meaning(w, Top.goal)]
                  /\ OwedBy(m, v, stack, Len(stack) - 1, TaskOf(Top), Top.bindings)
                  /\ Meaning(v, Top.goal) = Meaning(w, Top.goal)
<1> DEFINE V == VarsBelow(stack, asked[1], Len(stack))
           l == Meaning(w, Top.goal)
<1>1. /\ CurrentRule \in RuleInputs /\ IsValid(CurrentRule) /\ varCounter \in Nat
      /\ Top.fn = "evaluateGoal" /\ stack # << >>
  BY CurrentRuleOK DEF NamesInv
<1>2. PICK u \in Valuations :
          /\ Meaning(u, CurrentRule.head) = l
          /\ \A j \in DOMAIN CurrentRule.body :
                 /\ Meaning(u, CurrentRule.body[j]) \in DOMAIN m
                 /\ m[Meaning(u, CurrentRule.body[j])] < m[l]
  BY DEF Derives
<1>3. CurrentRule.head \in Literals /\ DOMAIN RenamedRule.body = DOMAIN CurrentRule.body
  BY <1>1, <1>2 DEF RenamingRenames, SaysTheSame, RenamedRule
<1>4. PICK v \in Valuations :
          /\ Agree(w, v, NamesBefore(varCounter))
          /\ Meaning(v, RenamedRule.head) = Meaning(u, CurrentRule.head)
          /\ \A j \in DOMAIN CurrentRule.body :
                 Meaning(v, RenamedRule.body[j]) = Meaning(u, CurrentRule.body[j])
  BY <1>1, <1>2 DEF RenamingRenames, SaysTheSame, RenamedRule
<1>5. /\ Top.goal \in Literals /\ Top.bindings \in BindingSets
      /\ SolvedBy(w, Top.bindings) /\ TaskOf(Top) = <<Top.goal>>
  BY <1>1, GoalOwed
<1>6. CurrentRule.head.predicate = Top.goal.predicate
  BY <1>2, <1>3, <1>5 DEF Meanings, PredicatesTold
<1>7. Agree(w, v, V)
  <2>1. \A i \in DOMAIN stack : FrameVars(stack[i]) \subseteq NamesBefore(varCounter)
    BY StackVarsNamed
  <2>2. LiteralVars(asked[1]) \subseteq NamesBefore(varCounter)
    BY <1>1, AskedNamed
  <2>3. V \subseteq NamesBefore(varCounter)
    BY <2>1, <2>2, TopBasics DEF VarsBelow
  <2> QED
    BY <1>4, <2>3, AgreeFacts
<1>8. /\ OwedBy(m, v, stack, Len(stack) - 1, TaskOf(Top), Top.bindings)
      /\ \A j \in DOMAIN TaskOf(Top) : Meaning(v, TaskOf(Top)[j]) = Meaning(w, TaskOf(Top)[j])
  BY <1>1, <1>7, OwedMoves DEF Meanings
<1>9. Meaning(v, Top.goal) = l
  <2>1. 1 \in DOMAIN <<Top.goal>> /\ <<Top.goal>>[1] = Top.goal
    OBVIOUS
  <2> QED
    BY <1>5, <1>8, <2>1
<1>10. SolvedBy(v, Top.bindings)
  BY <1>1, <1>8, GoalOwed
<1>11. RenamedRule.head \in Literals
  BY <1>1 DEF RenamingNamed, NamedAs, RenamedRule
<1>12. PICK c : HeadUnifier = <<c>> /\ SolvedBy(v, c)
  BY <1>2, <1>4, <1>5, <1>9, <1>10, <1>11 DEF UnifierComplete, HeadUnifier
<1>13. \A j \in DOMAIN RenamedRule.body :
           /\ Meaning(v, RenamedRule.body[j]) \in DOMAIN m
           /\ m[Meaning(v, RenamedRule.body[j])] < m[l]
  BY <1>2, <1>3, <1>4
<1> QED
  BY <1>6, <1>7, <1>8, <1>9, <1>12, <1>13

(* The loop over the rules goes on: only the rule under way is behind it then. *)
LEMMA RuleAhead ==
    ASSUME NamesInv, AtRule, NEW m, NEW w, NEW V, NEW R,
           Accounted(m, w, Top, V, {}, Program),
           ~Derives(CurrentRule, m, Meaning(w, Top.goal))
    PROVE  Accounted(m, w, NextRule, V, R, Program)
<1>1. /\ Top.next \in DOMAIN rules /\ Top.fn = "evaluateGoal" /\ FrameOK(Top, Len(rules))
  BY CurrentRuleOK DEF NamesInv
<1>2. /\ NextRule.fn = Top.fn /\ NextRule.goal = Top.goal /\ NextRule.bindings = Top.bindings
      /\ NextRule.results = Top.results /\ NextRule.fact = Top.fact
      /\ NextRule.next = Top.next + 1
  BY <1>1, GoalFrameFields DEF NextRule
<1>3. \A i \in DOMAIN rules : i >= Top.next => i = Top.next \/ i >= Top.next + 1
  BY <1>1 DEF NamesInv, Inv, TypeOK
<1>4. w \in FoundIn(Top.results, V) \/ Ahead(m, w, Top, Program)
  BY <1>1 DEF Accounted
<1>5. CASE w \in FoundIn(Top.results, V)
  BY <1>1, <1>2, <1>5 DEF Accounted
<1>6. CASE Ahead(m, w, Top, Program)
  <2>1. Ahead(m, w, NextRule, Program)
    BY <1>2, <1>3, <1>6 DEF Ahead, Program, CurrentRule
  <2> QED
    BY <1>1, <1>2, <2>1 DEF Accounted
<1> QED
  BY <1>4, <1>5, <1>6

LEMMA NextRuleSameTask ==
    ASSUME NamesInv, AtRule
    PROVE  SameTask(Top, NextRule)
<1>1. Top.fn = "evaluateGoal" /\ FrameOK(Top, Len(rules))
  BY CurrentRuleOK DEF NamesInv
<1>2. NextRule.fn = Top.fn /\ NextRule.goal = Top.goal /\ NextRule.bindings = Top.bindings
  BY <1>1, GoalFrameFields DEF NextRule
<1> QED
  BY <1>1, <1>2 DEF SameTask, TaskOf

(***************************************************************************)
(* A rule passed over, or whose head does not unify, derives no solution.   *)
(***************************************************************************)
LEMMA SkippedRuleAccounts ==
    ASSUME InputsNamed, RenamingNamed, RenamingRenames, UnifierComplete, Meanings, NamesInv,
           SkipRule \/ RuleFails, NEW m, AccountsNow(m)
    PROVE  AccountsNow(m)'
<1>1. /\ AtRule /\ ResumeTop(NextRule) /\ Kept /\ pc = "run" /\ PaidNow(m) = {}
      /\ CurrentRule.head.predicate # Top.goal.predicate \/ HeadUnifier = << >>
  BY DEF SkipRule, RuleFails, AtRule, FactsTried, Unchanged, store, Kept, PaidNow
<1>2. ASSUME NEW w \in Valuations,
             OwedBy(m, w, stack, Len(stack) - 1, TaskOf(Top), Top.bindings)
      PROVE  ~Derives(CurrentRule, m, Meaning(w, Top.goal))
  <2> SUFFICES ASSUME Derives(CurrentRule, m, Meaning(w, Top.goal)) PROVE FALSE
    OBVIOUS
  <2>1. /\ CurrentRule.head.predicate = Top.goal.predicate
        /\ \E c : HeadUnifier = <<c>>
    BY <1>1, <1>2, RuleDerives
  <2>2. HeadUnifier # << >>
    BY <2>1
  <2> QED
    BY <1>1, <2>1, <2>2
<1>3. Goes(m, stack, asked[1], Top, PaidNow(m), NextRule, {}, Program)
  BY <1>1, <1>2, RuleAhead DEF Goes
<1>4. stack # << >> /\ SameTask(Top, NextRule)
  BY <1>1, NextRuleSameTask, CurrentRuleOK DEF NamesInv
<1> QED
  BY <1>1, <1>3, <1>4, ResumesAccounts

(***************************************************************************)
(* The body of a rule is called with what the rule derives.                 *)
(***************************************************************************)
LEMMA RuleBodyAccounts ==
    ASSUME InputsNamed, RenamingNamed, RenamingRenames, UnifierComplete, Meanings, NamesInv,
           RuleBody, NEW m \in Derivations, AccountsNow(m)
    PROVE  AccountsNow(m)'
<1> DEFINE body == RenamedRule.body
           b == HeadUnifier[1]
           n == Len(stack)
           q == asked[1]
           R == HandedDown(m, stack, q, n, body, b)
<1>1. /\ AtRule /\ Kept /\ pc = "run" /\ PaidNow(m) = {}
      /\ CallConjunction([stack EXCEPT ![Len(stack)] = NextRule], body, b)
  BY DEF RuleBody, AtRule, FactsTried, Unchanged, store, Kept, PaidNow
<1>2. /\ Top.fn = "evaluateGoal" /\ stack # << >> /\ IsSequence(body) /\ body # << >>
      /\ n \in Nat /\ n \in 1..n /\ Top = stack[n]
  BY <1>1, RenamedRuleNamed, TopBasics DEF GoalsNamed
<1>R. R = HandedDown(m, stack, asked[1], Len(stack), RenamedRule.body, HeadUnifier[1])
      /\ n = Len(stack) /\ body = RenamedRule.body
  OBVIOUS
<1> HIDE DEF R, n, body, b
<1>3. ASSUME NEW w \in Valuations,
             OwedBy(m, w, stack, Len(stack) - 1, TaskOf(Top), Top.bindings),
             Derives(CurrentRule, m, Meaning(w, Top.goal))
      PROVE  w \in R
  <2>0. PICK v \in Valuations : \E c :
            /\ HeadUnifier = <<c>> /\ SolvedBy(v, c)
            /\ Agree(w, v, VarsBelow(stack, q, Len(stack)))
            /\ \A j \in DOMAIN RenamedRule.body :
                   /\ Meaning(v, RenamedRule.body[j]) \in DOMAIN m
                   /\ m[Meaning(v, RenamedRule.body[j])] < m[Meaning(w, Top.goal)]
            /\ OwedBy(m, v, stack, Len(stack) - 1, TaskOf(Top), Top.bindings)
            /\ Meaning(v, Top.goal) = Meaning(w, Top.goal)
    BY <1>1, <1>3, RuleDerives
  <2>1. PICK c :
            /\ HeadUnifier = <<c>> /\ SolvedBy(v, c)
            /\ Agree(w, v, VarsBelow(stack, q, Len(stack)))
            /\ \A j \in DOMAIN RenamedRule.body :
                   /\ Meaning(v, RenamedRule.body[j]) \in DOMAIN m
                   /\ m[Meaning(v, RenamedRule.body[j])] < m[Meaning(w, Top.goal)]
            /\ OwedBy(m, v, stack, Len(stack) - 1, TaskOf(Top), Top.bindings)
            /\ Meaning(v, Top.goal) = Meaning(w, Top.goal)
    BY <2>0
  <2>2. /\ SolvedBy(v, Top.bindings) /\ Meaning(v, Top.goal) \in DOMAIN m
        /\ TaskOf(Top) = <<Top.goal>>
    BY <1>2, <2>1, GoalOwed
  <2>3. b = c
    BY <2>1 DEF b
  <2>4. ASSUME NEW i \in 1..n, stack[i].fn = "evaluateGoal"
        PROVE  /\ SolvedBy(v, stack[i].bindings)
               /\ Meaning(v, stack[i].goal) \in DOMAIN m
               /\ m[Meaning(v, Top.goal)] <= m[Meaning(v, stack[i].goal)]
    <3>1. CASE i = n
      <4>1. stack[i] = Top /\ m[Meaning(v, Top.goal)] \in Nat
        BY <1>2, <2>2, <3>1 DEF Meanings, HeightsNatural
      <4> QED
        BY <2>2, <4>1
    <3>2. CASE i # n
      <4>1. i \in 1..(Len(stack) - 1)
        BY <1>2, <1>R, <3>2
      <4>2. 1 \in DOMAIN TaskOf(Top) /\ TaskOf(Top)[1] = Top.goal
        BY <2>2
      <4>3. /\ SolvedBy(v, stack[i].bindings)
            /\ Meaning(v, stack[i].goal) \in DOMAIN m
            /\ m[Meaning(v, Top.goal)] < m[Meaning(v, stack[i].goal)]
        BY <2>1, <2>4, <4>1, <4>2 DEF OwedBy
      <4>4. m[Meaning(v, Top.goal)] \in Nat /\ m[Meaning(v, stack[i].goal)] \in Nat
        BY <2>2, <4>3 DEF Meanings, HeightsNatural
      <4> QED
        BY <4>3, <4>4
    <3> QED
      BY <3>1, <3>2
  <2>5. ASSUME NEW i \in 1..n, stack[i].fn = "evaluateGoal", NEW j \in DOMAIN body
        PROVE  m[Meaning(v, body[j])] < m[Meaning(v, stack[i].goal)]
    <3>1. /\ Meaning(v, body[j]) \in DOMAIN m
          /\ m[Meaning(v, body[j])] < m[Meaning(v, Top.goal)]
      BY <1>R, <2>1
    <3>2. /\ Meaning(v, stack[i].goal) \in DOMAIN m
          /\ m[Meaning(v, Top.goal)] <= m[Meaning(v, stack[i].goal)]
      BY <2>4, <2>5
    <3>3. /\ m[Meaning(v, body[j])] \in Nat /\ m[Meaning(v, Top.goal)] \in Nat
          /\ m[Meaning(v, stack[i].goal)] \in Nat
      BY <2>2, <3>1, <3>2 DEF Meanings, HeightsNatural
    <3> QED
      BY <3>1, <3>2, <3>3
  <2>6. \A j \in DOMAIN body : Meaning(v, body[j]) \in DOMAIN m
    BY <1>R, <2>1
  <2>7. SolvedBy(v, b)
    BY <2>1, <2>3
  <2>8. OwedBy(m, v, stack, n, body, b)
    BY <2>4, <2>5, <2>6, <2>7 DEF OwedBy
  <2>9. w \in HandedDown(m, stack, q, n, body, b)
    BY <1>R, <2>1, <2>8 DEF HandedDown
  <2> QED
    BY <2>9 DEF R
<1>4. Goes(m, stack, q, Top, PaidNow(m), NextRule, R, Program)
  <2> SUFFICES ASSUME NEW w \in Valuations,
                      OwedBy(m, w, stack, Len(stack) - 1, TaskOf(Top), Top.bindings),
                      Accounted(m, w, Top, VarsBelow(stack, q, Len(stack)), {}, Program)
               PROVE  Accounted(m, w, NextRule, VarsBelow(stack, q, Len(stack)), R, Program)
    BY <1>1 DEF Goes
  <2>1. CASE Derives(CurrentRule, m, Meaning(w, Top.goal))
    BY <1>3, <2>1 DEF Accounted
  <2>2. CASE ~Derives(CurrentRule, m, Meaning(w, Top.goal))
    BY <1>1, <2>2, RuleAhead
  <2> QED
    BY <2>1, <2>2
<1>5. SameTask(Top, NextRule)
  BY <1>1, NextRuleSameTask
<1>6. Goes(m, stack, asked[1], Top, PaidNow(m), NextRule,
           HandedDown(m, stack, asked[1], Len(stack), body, b), Program)
  BY <1>4, <1>R DEF R
<1> QED
  BY <1>1, <1>2, <1>5, <1>6, CallsAccounts

(***************************************************************************)
(* A goal that is entered has all its clauses ahead of it.                  *)
(***************************************************************************)
LEMMA GoalEnterAccounts ==
    ASSUME NamesInv, GoalEnter, NEW m, Supported(m), AccountsNow(m)
    PROVE  AccountsNow(m)'
<1> DEFINE f == GoalFrame(call.goal, call.bindings, KeyOf(call.goal, call.bindings))
           q == asked[1]
           P == HandedDown(m, stack, q, Len(stack), <<call.goal>>, call.bindings)
<1>1. pc = "goal" /\ pc' = "run" /\ stack' = Append(stack, f) /\ Kept
  BY DEF GoalEnter, Unchanged, store, Kept
<1>2. /\ f.fn = "evaluateGoal" /\ f.goal = call.goal /\ f.bindings = call.bindings
      /\ f.fact = 1 /\ f.next = 1
  BY DEF GoalFrame
<1>3. PaidNow(m) = P /\ PaidNow(m)' = {}
  BY <1>1 DEF PaidNow
<1>4. TaskOf(f) = <<call.goal>> /\ f.fn \in Kinds
  BY <1>2 DEF TaskOf, Kinds
<1>5. P = HandedDown(m, stack, q, Len(stack), TaskOf(f), f.bindings)
  BY <1>2, <1>4
<1> HIDE DEF f, P
<1>6. Begins(m, stack, q, f, {}, Program)
  <2> SUFFICES ASSUME NEW w \in Valuations,
                      OwedBy(m, w, stack, Len(stack), TaskOf(f), f.bindings)
               PROVE  Ahead(m, w, f, Program)
    BY <1>2 DEF Begins, Accounted
  <2> DEFINE l == Meaning(w, f.goal)
  <2>1. l \in DOMAIN m
    <3>1. 1 \in DOMAIN <<call.goal>> /\ <<call.goal>>[1] = call.goal
      OBVIOUS
    <3> QED
      BY <1>2, <1>4, <3>1 DEF OwedBy
  <2> HIDE DEF l
  <2>2. CASE \E i \in DOMAIN facts : GroundFact(l, facts[i])
    <3>1. PICK i \in DOMAIN facts : GroundFact(l, facts[i])
      BY <2>2
    <3>2. i >= f.fact
      BY <1>2 DEF NamesInv, Inv, TypeOK
    <3> QED
      BY <3>1, <3>2 DEF Ahead, Program, l
  <2>3. CASE \E i \in DOMAIN rules : Derives(rules[i], m, l)
    <3>1. PICK i \in DOMAIN rules : Derives(rules[i], m, l)
      BY <2>3
    <3>2. i >= f.next
      BY <1>2 DEF NamesInv, Inv, TypeOK
    <3> QED
      BY <3>1, <3>2 DEF Ahead, Program, l
  <2> QED
    BY <2>1, <2>2, <2>3 DEF Supported
<1>7. Accounts(m, Append(stack, f), q, {}, Program)
  BY <1>3, <1>4, <1>5, <1>6, TopBasics, PushAccounts DEF AccountsNow
<1>8. Accounts(m, stack', asked'[1], PaidNow(m)', Program')
  BY <1>1, <1>3, <1>7, KeptProgram
<1> QED
  BY <1>8 DEF AccountsNow

(***************************************************************************)
(* A goal already under evaluation is owed nothing: it would have to be     *)
(* derived lower down than itself.                                         *)
(***************************************************************************)
LEMMA GoalVisitedAccounts ==
    ASSUME KeysTellMeanings, Meanings, NamesInv, GoalVisited, NEW m \in Derivations, AccountsNow(m)
    PROVE  AccountsNow(m)'
<1> DEFINE P == HandedDown(m, stack, asked[1], Len(stack), <<call.goal>>, call.bindings)
<1>1. /\ pc = "goal" /\ pc' = "return" /\ ret' = << >> /\ stack' = stack /\ Kept
      /\ KeyOf(call.goal, call.bindings) \in visited
  BY DEF GoalVisited, ReturnToCaller, Unchanged, store, Kept
<1>2. PaidNow(m) = P
  BY <1>1 DEF PaidNow
<1>3. P = {}
  <2> SUFFICES ASSUME NEW v \in Valuations,
                      OwedBy(m, v, stack, Len(stack), <<call.goal>>, call.bindings)
               PROVE  FALSE
    BY DEF HandedDown
  <2>1. PICK i \in GoalFrames(stack) : stack[i].key = KeyOf(call.goal, call.bindings)
    BY <1>1 DEF NamesInv, Inv, GuardExact, Guards
  <2>2. /\ i \in 1..Len(stack) /\ stack[i].fn = "evaluateGoal"
        /\ FrameNamed(stack[i], varCounter)
    BY <2>1, TopBasics DEF GoalFrames, NamesInv, NamesOK, AllNamed
  <2>3. 1 \in DOMAIN <<call.goal>> /\ <<call.goal>>[1] = call.goal
    OBVIOUS
  <2>4. /\ SolvedBy(v, call.bindings) /\ SolvedBy(v, stack[i].bindings)
        /\ Meaning(v, stack[i].goal) \in DOMAIN m
        /\ m[Meaning(v, call.goal)] < m[Meaning(v, stack[i].goal)]
    BY <2>2, <2>3 DEF OwedBy
  <2>5. /\ stack[i].goal \in Literals /\ stack[i].bindings \in BindingSets
        /\ call.goal \in Literals /\ call.bindings \in BindingSets
    BY <1>1, <2>2 DEF FrameNamed, GoalNamed, BindingsNamed, NamesInv, NamesOK
  <2>6. KeyOf(stack[i].goal, stack[i].bindings) = KeyOf(call.goal, call.bindings)
    BY <2>1, <2>2 DEF FrameNamed
  <2>7. Meaning(v, stack[i].goal) = Meaning(v, call.goal)
    BY <2>4, <2>5, <2>6 DEF KeysTellMeanings
  <2>8. m[Meaning(v, stack[i].goal)] \in Nat
    BY <2>4 DEF Meanings, HeightsNatural
  <2> QED
    BY <2>4, <2>7, <2>8
<1>4. PaidNow(m)' = {}
  <2>1. PaidNow(m)' = FoundIn(<< >>, VarsBelow(stack', asked'[1], Len(stack')))
    BY <1>1 DEF PaidNow
  <2> QED
    BY <2>1 DEF FoundIn
<1>5. Accounts(m, stack', asked'[1], PaidNow(m)', Program')
  BY <1>1, <1>2, <1>3, <1>4, KeptProgram DEF AccountsNow
<1> QED
  BY <1>5 DEF AccountsNow

(* What the caller on top has just been paid. *)
LEMMA PaidReturn ==
    ASSUME pc = "return", NEW m
    PROVE  PaidNow(m) = FoundIn(ret, VarsBelow(stack, asked[1], Len(stack)))
BY DEF PaidNow

LEMMA RuleReturnedAccounts ==
    ASSUME InputsNamed, NamesInv, RuleReturned, NEW m, AccountsNow(m)
    PROVE  AccountsNow(m)'
<1> DEFINE g == [Top EXCEPT !.results = Top.results \o ret]
           V == VarsBelow(stack, asked[1], Len(stack))
<1>1. /\ pc = "return" /\ Top.fn = "evaluateGoal" /\ stack # << >> /\ ResumeTop(g) /\ Kept
  BY DEF RuleReturned, InGoal, Unchanged, store, Kept
<1>2. FrameOK(Top, Len(rules)) /\ IsSequence(Top.results) /\ IsSequence(ret)
  BY <1>1, TopBasics DEF FrameNamed, ResultsNamed, NamesInv, NamesOK
<1>3. /\ g.fn = Top.fn /\ g.goal = Top.goal /\ g.bindings = Top.bindings
      /\ g.results = Joined(Top.results, ret) /\ g.fact = Top.fact /\ g.next = Top.next
  BY <1>1, <1>2, GoalFrameFields DEF Joined
<1>4. PaidNow(m) = FoundIn(ret, V)
  BY <1>1, PaidReturn
<1> HIDE DEF g, V
<1>5. SameTask(Top, g)
  BY <1>1, <1>3 DEF SameTask, TaskOf
<1>6. FoundIn(Top.results, V) \cup FoundIn(ret, V) \subseteq FoundIn(g.results, V)
  BY <1>2, <1>3, FoundMore
<1>7. \A w \in Valuations : Accounted(m, w, Top, V, PaidNow(m), Program) =>
          Accounted(m, w, g, V, {}, Program)
  BY <1>1, <1>3, <1>4, <1>6 DEF Accounted, Ahead
<1>8. Goes(m, stack, asked[1], Top, PaidNow(m), g, {}, Program)
  BY <1>7 DEF Goes, V
<1> QED
  BY <1>1, <1>5, <1>8, ResumesAccounts

(* A goal returns when no clause is ahead of it any more. *)
LEMMA GoalReturnAccounts ==
    ASSUME NamesInv, GoalReturn, NEW m, AccountsNow(m)
    PROVE  AccountsNow(m)'
<1>1. /\ pc = "run" /\ Top.fn = "evaluateGoal" /\ stack # << >>
      /\ Top.fact > Len(facts) /\ Top.next > Len(rules)
      /\ PopFrame /\ ReturnToCaller(Top.results) /\ Kept /\ PaidNow(m) = {}
  BY DEF GoalReturn, FactsTried, InGoal, Unchanged, store, Kept, PaidNow
<1>2. FrameOK(Top, Len(rules))
  BY <1>1, TopBasics
<1>3. /\ \A i \in DOMAIN facts : ~(i >= Top.fact)
      /\ \A i \in DOMAIN rules : ~(i >= Top.next)
  <2>1. /\ facts \in Seq(FactInputs) /\ rules \in Seq(RuleInputs)
        /\ Top.fact \in Nat /\ Top.next \in Nat
    BY <1>1, <1>2 DEF FrameOK, NamesInv, Inv, TypeOK
  <2> QED
    BY <1>1, <2>1
<1>4. \A w \in Valuations : ~Ahead(m, w, Top, Program)
  BY <1>3 DEF Ahead, Program
<1>5. Settles(m, stack, asked[1], Top, PaidNow(m), Top.results, Program)
  BY <1>1, <1>4 DEF Settles, Accounted
<1> QED
  BY <1>1, <1>5, PopsAccounts

--------------------------------------------------------------------------------
(* The steps of evaluateConjunction. *)

LEMMA ConjunctionReturnAccounts ==
    ASSUME NamesInv, ConjunctionReturn, NEW m, AccountsNow(m)
    PROVE  AccountsNow(m)'
<1>1. /\ pc = "run" /\ Top.fn = "evaluateConjunction" /\ stack # << >> /\ Top.todo = << >>
      /\ PopFrame /\ ReturnToCaller(Top.results) /\ Kept /\ PaidNow(m) = {}
  BY DEF ConjunctionReturn, InConjunction, Unchanged, store, Kept, PaidNow
<1>2. \A V : FoundIn(Top.todo, V) = {}
  BY <1>1 DEF FoundIn
<1>3. Settles(m, stack, asked[1], Top, PaidNow(m), Top.results, Program)
  BY <1>1, <1>2 DEF Settles, Accounted
<1> QED
  BY <1>1, <1>3, PopsAccounts

LEMMA OnlyGoalReturnedAccounts ==
    ASSUME InputsNamed, NamesInv, OnlyGoalReturned, NEW m, AccountsNow(m)
    PROVE  AccountsNow(m)'
<1>1. /\ pc = "return" /\ InConjunction /\ Len(Top.goals) = 1
      /\ PopFrame /\ ReturnToCaller(ret) /\ Kept
  BY DEF OnlyGoalReturned, Unchanged, store, Kept
<1>2. Top.fn = "evaluateConjunction" /\ stack # << >> /\ Top.at # "rest"
  BY <1>1, TopConjunctionNamed
<1>3. Settles(m, stack, asked[1], Top, PaidNow(m), ret, Program)
  BY <1>1, <1>2, PaidReturn DEF Settles, Accounted
<1> QED
  BY <1>1, <1>2, <1>3, PopsAccounts

LEMMA FirstGoalReturnedAccounts ==
    ASSUME InputsNamed, NamesInv, FirstGoalReturned, NEW m, AccountsNow(m)
    PROVE  AccountsNow(m)'
<1> DEFINE g == [Top EXCEPT !.at = "rest", !.todo = ret]
           V == VarsBelow(stack, asked[1], Len(stack))
<1>1. /\ pc = "return" /\ InConjunction /\ Top.at = "first" /\ ResumeTop(g) /\ Kept
  BY DEF FirstGoalReturned, Unchanged, store, Kept
<1>2. Top.fn = "evaluateConjunction" /\ stack # << >> /\ FrameOK(Top, Len(rules))
  BY <1>1, TopConjunctionNamed
<1>3. /\ g.fn = Top.fn /\ g.goals = Top.goals /\ g.bindings = Top.bindings
      /\ g.at = "rest" /\ g.todo = ret
  BY <1>2, ConjunctionFrameFields
<1>4. PaidNow(m) = FoundIn(ret, V)
  BY <1>1, PaidReturn
<1> HIDE DEF g, V
<1>5. SameTask(Top, g)
  BY <1>2, <1>3 DEF SameTask, TaskOf
<1>6. \A w \in Valuations : Accounted(m, w, Top, V, PaidNow(m), Program) =>
          Accounted(m, w, g, V, {}, Program)
  BY <1>1, <1>2, <1>3, <1>4 DEF Accounted
<1>7. Goes(m, stack, asked[1], Top, PaidNow(m), g, {}, Program)
  BY <1>6 DEF Goes, V
<1> QED
  BY <1>1, <1>2, <1>5, <1>7, ResumesAccounts

LEMMA RestReturnedAccounts ==
    ASSUME InputsNamed, NamesInv, RestReturned, NEW m, AccountsNow(m)
    PROVE  AccountsNow(m)'
<1> DEFINE g == [Top EXCEPT !.results = Top.results \o ret]
           V == VarsBelow(stack, asked[1], Len(stack))
<1>1. /\ pc = "return" /\ InConjunction /\ ResumeTop(g) /\ Kept
  BY DEF RestReturned, Unchanged, store, Kept
<1>2. /\ Top.fn = "evaluateConjunction" /\ stack # << >> /\ FrameOK(Top, Len(rules))
      /\ IsSequence(Top.results) /\ IsSequence(ret) /\ Top.at = "rest"
  BY <1>1, TopConjunctionNamed DEF RestReturned, ResultsNamed, NamesInv, NamesOK
<1>3. /\ g.fn = Top.fn /\ g.goals = Top.goals /\ g.bindings = Top.bindings
      /\ g.at = Top.at /\ g.todo = Top.todo /\ g.results = Joined(Top.results, ret)
  BY <1>2, ConjunctionFrameFields DEF Joined
<1>4. PaidNow(m) = FoundIn(ret, V)
  BY <1>1, PaidReturn
<1> HIDE DEF g, V
<1>5. SameTask(Top, g)
  BY <1>2, <1>3 DEF SameTask, TaskOf
<1>6. FoundIn(Top.results, V) \cup FoundIn(ret, V) \subseteq FoundIn(g.results, V)
  BY <1>2, <1>3, FoundMore
<1>7. \A w \in Valuations : Accounted(m, w, Top, V, PaidNow(m), Program) =>
          Accounted(m, w, g, V, {}, Program)
  BY <1>2, <1>3, <1>4, <1>6 DEF Accounted
<1>8. Goes(m, stack, asked[1], Top, PaidNow(m), g, {}, Program)
  BY <1>7 DEF Goes, V
<1> QED
  BY <1>1, <1>2, <1>5, <1>8, ResumesAccounts

(***************************************************************************)
(* The rest of the goals is called under the next result of the first: the  *)
(* solutions of that result are handed down, those of the others stay.      *)
(***************************************************************************)
LEMMA NextResultAccounts ==
    ASSUME InputsNamed, Meanings, NamesInv, NextResult, NEW m, AccountsNow(m)
    PROVE  AccountsNow(m)'
<1> DEFINE g == [Top EXCEPT !.todo = Tail(Top.todo)]
           n == Len(stack)
           q == asked[1]
           V == VarsBelow(stack, q, n)
           rest == Tail(Top.goals)
           b == Head(Top.todo)
           R == HandedDown(m, stack, q, n, rest, b)
<1>1. /\ pc = "run" /\ InConjunction /\ Top.todo # << >> /\ PaidNow(m) = {} /\ Kept
      /\ CallConjunction([stack EXCEPT ![Len(stack)] = g], rest, b)
  BY DEF NextResult, Unchanged, store, Kept, PaidNow
<1>2. /\ Top.fn = "evaluateConjunction" /\ stack # << >> /\ FrameOK(Top, Len(rules))
      /\ IsSequence(Top.todo) /\ IsSequence(Top.goals) /\ Top.goals # << >>
      /\ GoalsNamed(Top.goals, varCounter) /\ Top.at = "rest" /\ Len(Top.goals) # 1
  BY <1>1, TopConjunctionNamed DEF ResultsNamed, GoalsNamed
<1>3. /\ g.fn = Top.fn /\ g.goals = Top.goals /\ g.bindings = Top.bindings
      /\ g.at = Top.at /\ g.todo = Tail(Top.todo) /\ g.results = Top.results
  BY <1>2, ConjunctionFrameFields
<1>4. IsSequence(rest) /\ rest # << >>
  BY <1>2, LessGoals DEF GoalsNamed
<1>5. \A j \in DOMAIN rest : j + 1 \in DOMAIN Top.goals /\ rest[j] = Top.goals[j + 1]
  BY <1>2, TailFacts
<1>6. \A i \in DOMAIN Top.todo :
          \/ i = 1 /\ Top.todo[i] = b
          \/ i - 1 \in DOMAIN g.todo /\ g.todo[i - 1] = Top.todo[i]
  <2>1. b = Top.todo[1]
    BY <1>2 DEF IsSequence
  <2>2. \A i \in DOMAIN Top.todo : i # 1 =>
            i - 1 \in DOMAIN Tail(Top.todo) /\ Tail(Top.todo)[i - 1] = Top.todo[i]
    BY <1>1, <1>2, TailFacts
  <2> QED
    BY <1>3, <2>1, <2>2
<1>7. SameTask(Top, g)
  BY <1>2, <1>3 DEF SameTask, TaskOf
<1>8. n \in Nat /\ Top = stack[n] /\ n \in 1..n /\ TaskOf(Top) = Top.goals
  BY <1>2, TopBasics DEF TaskOf
<1>R. /\ R = HandedDown(m, stack, asked[1], Len(stack), rest, b)
      /\ n = Len(stack) /\ V = VarsBelow(stack, asked[1], Len(stack))
  OBVIOUS
<1> HIDE DEF g, n, V, rest, b, R
<1>9. ASSUME NEW w \in Valuations,
             OwedBy(m, w, stack, Len(stack) - 1, TaskOf(Top), Top.bindings),
             NEW v \in Valuations, Agree(w, v, V), SolvedBy(v, b)
      PROVE  w \in R
  <2>1. OwedBy(m, v, stack, Len(stack) - 1, TaskOf(Top), Top.bindings)
    BY <1>2, <1>9, <1>R, OwedMoves DEF Meanings
  <2>2. OwedBy(m, v, stack, n - 1, Top.goals, Top.bindings)
    BY <1>8, <1>R, <2>1
  <2>3. \A i \in 1..n : stack[i].fn = "evaluateGoal" => i \in 1..(n - 1)
    BY <1>2, <1>8
  <2>4. OwedBy(m, v, stack, n, rest, b)
    BY <1>5, <1>9, <2>2, <2>3 DEF OwedBy
  <2> QED
    BY <1>9, <1>R, <2>4 DEF HandedDown
<1>10. ASSUME NEW w \in Valuations,
              OwedBy(m, w, stack, Len(stack) - 1, TaskOf(Top), Top.bindings),
              Accounted(m, w, Top, V, {}, Program)
       PROVE  Accounted(m, w, g, V, R, Program)
  <2>1. CASE w \in FoundIn(Top.results, V)
    BY <1>2, <1>3, <2>1 DEF Accounted
  <2>2. CASE w \in FoundIn(Top.todo, V)
    <3>1. PICK i \in DOMAIN Top.todo, v \in Valuations :
              Agree(w, v, V) /\ SolvedBy(v, Top.todo[i])
      BY <2>2 DEF FoundIn
    <3>2. CASE Top.todo[i] = b
      BY <1>9, <1>10, <3>1, <3>2 DEF Accounted
    <3>3. CASE i - 1 \in DOMAIN g.todo /\ g.todo[i - 1] = Top.todo[i]
      <4>1. w \in FoundIn(g.todo, V)
        BY <3>1, <3>3 DEF FoundIn
      <4> QED
        BY <1>2, <1>3, <4>1 DEF Accounted
    <3> QED
      BY <1>6, <3>2, <3>3
  <2> QED
    BY <1>2, <1>10, <2>1, <2>2 DEF Accounted
<1>11. Goes(m, stack, asked[1], Top, PaidNow(m), g,
            HandedDown(m, stack, asked[1], Len(stack), rest, b), Program)
  BY <1>1, <1>10, <1>R DEF Goes
<1> QED
  BY <1>1, <1>2, <1>4, <1>7, <1>11, CallsAccounts

--------------------------------------------------------------------------------
(* The whole of a query. *)

EvaluationRight == UnifierKeepsNames /\ UnifierComplete /\ RenamingNamed /\ RenamingRenames

LEMMA EvaluateAccounts ==
    ASSUME InputsNamed, EvaluationRight, KeysTellMeanings, Meanings, NamesInv,
           Evaluate, pc' \in {"goal", "run", "return"},
           NEW m \in Derivations, Supported(m), AccountsNow(m)
    PROVE  AccountsNow(m)'
<1>1. ~StackOverflow /\ ~QueryReturn
  BY DEF StackOverflow, QueryReturn
<1> QED
  BY <1>1, GoalVisitedAccounts, GoalEnterAccounts, TryFactAccounts, SkippedRuleAccounts,
     RuleBodyAccounts, RuleReturnedAccounts, GoalReturnAccounts, OnlyGoalReturnedAccounts,
     FirstGoalReturnedAccounts, NextResultAccounts, RestReturnedAccounts,
     ConjunctionReturnAccounts
     DEF Evaluate, EvaluationRight

(* The query itself is what query() is owed. *)
LEMMA QueryAccounts ==
    ASSUME NamesInv, NEW g \in QueryInputs, Query(g), NEW m
    PROVE  AccountsNow(m)'
<1> DEFINE one == <<g>>
           P == HandedDown(m, << >>, g, 0, one, NoBindingSet)
<1>1. /\ pc' = "goal" /\ stack' = << >> /\ asked' = <<g>>
      /\ call'.goal = g /\ call'.bindings = NoBindingSet
  BY DEF Query, evaluation, NamesInv, Inv, IdleClean
<1>2. one = <<g>> /\ 1 \in DOMAIN one /\ one[1] = g /\ DOMAIN one = {1}
  OBVIOUS
<1>3. PaidNow(m)' = P
  <2>1. PaidNow(m)' = HandedDown(m, stack', asked'[1], Len(stack'), <<call'.goal>>, call'.bindings)
    BY <1>1 DEF PaidNow
  <2>2. asked'[1] = g /\ Len(stack') = 0
    BY <1>1
  <2> QED
    BY <1>1, <2>1, <2>2
<1> HIDE DEF one
<1>4. ASSUME NEW w \in Valuations, SolvedBy(w, NoBindingSet), Meaning(w, g) \in DOMAIN m
      PROVE  w \in P
  <2>1. \A j \in DOMAIN one : Meaning(w, one[j]) \in DOMAIN m
    BY <1>2, <1>4
  <2>2. OwedBy(m, w, << >>, 0, one, NoBindingSet)
    BY <1>4, <2>1 DEF OwedBy
  <2>3. Agree(w, w, VarsBelow(<< >>, g, 0))
    BY AgreeFacts
  <2> QED
    BY <2>2, <2>3 DEF HandedDown
<1> HIDE DEF P
<1>5. Paid(m, << >>, g, 0, P) = P
  BY DEF Paid
<1>6. Accounts(m, << >>, g, P, Program')
  BY <1>4, <1>5 DEF Accounts
<1>7. asked'[1] = g
  BY <1>1
<1>8. Accounts(m, stack', asked'[1], PaidNow(m)', Program')
  BY <1>1, <1>3, <1>6, <1>7
<1> QED
  BY <1>8 DEF AccountsNow

AccountsInv == NamesInv /\ NothingForgotten

LEMMA AccountsInit == Init => AccountsInv
<1> SUFFICES ASSUME Init PROVE NothingForgotten
  BY NamesInit DEF AccountsInv
<1>1. pc = "client"
  BY DEF Init
<1> QED
  BY <1>1 DEF NothingForgotten

LEMMA AccountsStep ==
    ASSUME InputsNamed, EvaluationRight, KeysTellMeanings, Meanings, AccountsInv, [Next]_vars
    PROVE  AccountsInv'
<1>1. NamesInv'
  BY NamesStep DEF AccountsInv, EvaluationRight
<1> SUFFICES ASSUME pc' \in {"goal", "run", "return"}, NEW m \in Derivations, Supported(m)'
             PROVE  AccountsNow(m)'
  BY <1>1 DEF AccountsInv, NothingForgotten
<1>2. CASE Evaluate
  <2>1. Kept
    BY <1>2, EvaluateKeeps DEF AccountsInv, NamesInv, Kept
  <2>2. Supported(m)
    BY <2>1 DEF Supported, Derives, GroundFact, Kept
  <2>3. pc \in {"goal", "run", "return"}
    BY <1>2 DEF Evaluate, GoalVisited, GoalEnter, StackOverflow, TryFact, AtFact, SkipRule,
       RuleFails, RuleBody, AtRule, FactsTried, RuleReturned, GoalReturn, OnlyGoalReturned,
       FirstGoalReturned, NextResult, RestReturned, ConjunctionReturn, QueryReturn
  <2>4. AccountsNow(m)
    BY <2>2, <2>3 DEF AccountsInv, NothingForgotten
  <2> QED
    BY <1>2, <2>2, <2>4, EvaluateAccounts DEF AccountsInv
<1>3. CASE \E g \in QueryInputs : Query(g)
  BY <1>3, QueryAccounts DEF AccountsInv
<1>4. CASE (\E f \in FactInputs : AddFact(f)) \/ (\E r \in RuleInputs : AddRule(r))
  BY <1>4 DEF AddFact, AddRule
<1>5. CASE UNCHANGED vars
  <2>1. Supported(m) /\ pc \in {"goal", "run", "return"}
    BY <1>5 DEF Supported, Derives, GroundFact, vars
  <2>2. AccountsNow(m)
    BY <2>1 DEF AccountsInv, NothingForgotten
  <2>3. PaidNow(m)' = PaidNow(m) /\ Program' = Program
    BY <1>5 DEF PaidNow, Program, vars
  <2> QED
    BY <1>5, <2>2, <2>3 DEF AccountsNow, vars
<1> QED
  BY <1>2, <1>3, <1>4, <1>5 DEF Next

(***************************************************************************)
(* Nothing that is owed is ever forgotten: at every point of a query, every *)
(* solution that an activation owes its caller is among its results, under *)
(* a clause that it has not come to, or owed by the activation it called.   *)
(***************************************************************************)
THEOREM NeverForgets ==
    ASSUME InputsNamed, EvaluationRight, KeysTellMeanings, Meanings
    PROVE  Spec => []NothingForgotten
<1>1. AccountsInv /\ [Next]_vars => AccountsInv'
  BY AccountsStep
<1>2. AccountsInv => NothingForgotten
  BY DEF AccountsInv
<1> QED
  BY <1>1, <1>2, AccountsInit, PTL DEF Spec

(* At the end query() has been paid all that it is owed. *)
LEMMA AccountsSettled ==
    ASSUME InputsNamed, Meanings, AccountsInv
    PROVE  ResultsComplete
<1> SUFFICES ASSUME pc = "return", stack = << >>, NEW m \in Derivations, Supported(m),
                    NEW w \in Valuations, SolvedBy(w, NoBindingSet),
                    Meaning(w, asked[1]) \in DOMAIN m
             PROVE  \E i \in DOMAIN ret : Reaches(w, LiteralVars(asked[1]), ret[i])
  BY DEF ResultsComplete
<1> DEFINE q == asked[1]
           V == VarsBelow(stack, q, Len(stack))
<1>1. AccountsNow(m)
  BY DEF AccountsInv, NothingForgotten
<1>2. w \in Paid(m, stack, q, 0, PaidNow(m))
  BY <1>1 DEF AccountsNow, Accounts
<1>3. Len(stack) = 0
  OBVIOUS
<1>4. w \in FoundIn(ret, V)
  BY <1>2, <1>3, PaidReturn DEF Paid
<1>5. PICK i \in DOMAIN ret, v \in Valuations : Agree(w, v, V) /\ SolvedBy(v, ret[i])
  BY <1>4 DEF FoundIn
<1>6. LiteralVars(q) \subseteq V
  BY DEF VarsBelow
<1>7. Agree(w, v, LiteralVars(q))
  BY <1>5, <1>6, AgreeFacts
<1>8. ret[i] \in BindingSets
  BY <1>5 DEF AccountsInv, NamesInv, NamesOK, ResultsNamed, BindingsNamed
<1>9. q \in Literals
  BY AskedNamed DEF AccountsInv
<1> QED
  BY <1>5, <1>7, <1>8, <1>9 DEF Meanings, ReachesMeans

(***************************************************************************)
(* query() misses no answer: when the evaluation ends, every instance of    *)
(* the query that the clauses derive, from ground facts and rules, is an    *)
(* instance under one of its results.                                      *)
(***************************************************************************)
THEOREM MissesNoAnswer ==
    ASSUME InputsNamed, EvaluationRight, KeysTellMeanings, Meanings
    PROVE  Spec => []ResultsComplete
<1>1. AccountsInv /\ [Next]_vars => AccountsInv'
  BY AccountsStep
<1>2. AccountsInv => ResultsComplete
  BY AccountsSettled
<1> QED
  BY <1>1, <1>2, AccountsInit, PTL DEF Spec

--------------------------------------------------------------------------------
(***************************************************************************)
(* Valuations by trees: they solve what their trees solve, literals mean    *)
(* the same if they have the same predicate and the same trees, and all     *)
(* build terms alike.                                                      *)
(***************************************************************************)
ValuationsOfTrees ==
    /\ \A w \in Valuations :
           /\ IsInterpretation(TreesOf(w))
           /\ \A b \in BindingSets : SolvedBy(w, b) <=> SolvesBindings(TreesOf(w), b)
    /\ \A w, v \in Valuations :
           /\ BuildAlike(TreesOf(w), TreesOf(v))
           /\ \A x \in Vars : Value(w, x) = Value(v, x) <=> TreesOf(w).val[x] = TreesOf(v).val[x]
           /\ \A g, h \in Literals :
                  Meaning(w, g) = Meaning(v, h) <=> SameTrees(TreesOf(w), g, TreesOf(v), h)

(* Other variables may stand for what some variables do. *)
TellsApart(new, V) ==
    /\ \A x \in V : new[x] \in Vars
    /\ \A x, y \in V : new[x] = new[y] => x = y

OthersThan(new, V) == {y \in Vars : \A x \in V : y # new[x]}

ValuationsFree ==
    \A w, u \in Valuations : \A V \in SUBSET Vars : \A new \in [Universe -> Universe] :
        TellsApart(new, V) =>
            \E v \in Valuations :
                /\ \A x \in V : TreesOf(v).val[new[x]] = TreesOf(u).val[x]
                /\ Agree(w, v, OthersThan(new, V))

(* substitute resolves the terms of a literal. *)
SubstitutesByTerms ==
    \A b \in BindingSets : \E new \in [Universe -> Universe] :
        Resolves(new, b) /\ \A l \in Literals : Replaced(new, l, Substituted(l, b))

(***************************************************************************)
(* The steps of Unifier::unify find a unifier where a valuation that solves *)
(* the bindings makes goal and clause the same, and keep that valuation.    *)
(***************************************************************************)
THEOREM UnifyingByStepsIsComplete ==
    ASSUME OverTerms, UnifiesBySteps, ValuationsOfTrees
    PROVE  UnifierComplete
<1> SUFFICES ASSUME NEW goal \in Literals, NEW fact \in Literals,
                    NEW b \in BindingSets, NEW w \in Valuations,
                    SolvedBy(w, b), Meaning(w, goal) = Meaning(w, fact)
             PROVE  \E c \in BindingSets : Unify(goal, fact, b) = <<c>> /\ SolvedBy(w, c)
  BY DEF UnifierComplete
<1> DEFINE I == TreesOf(w)
<1>1. /\ HasTerms(goal) /\ HasTerms(fact) /\ b \in BindingSet /\ Acyclic(b)
      /\ UnifyReturns(goal, fact, b, Unify(goal, fact, b))
  BY DEF OverTerms, AcyclicBindings, UnifiesBySteps
<1>2. IsInterpretation(I) /\ SolvesBindings(I, b) /\ SameTrees(I, goal, I, fact)
  BY DEF ValuationsOfTrees
<1>3. \A c \in BindingSets : SolvedBy(w, c) <=> SolvesBindings(I, c)
  BY DEF ValuationsOfTrees
<1> HIDE DEF I
<1>4. Unifies(I, goal, fact)
  BY <1>2 DEF Unifies, SameSignature, SameTrees
<1>5. PICK c \in BindingSet : Unify(goal, fact, b) = <<c>> /\ SolvesBindings(I, c)
  BY <1>1, <1>2, <1>4, UnifyReturnsUnifier
<1>6. Acyclic(c)
  BY <1>1, <1>5, UnifyKeepsToTheGiven
<1>7. c \in BindingSets
  BY <1>5, <1>6 DEF OverTerms, AcyclicBindings
<1> QED
  BY <1>3, <1>5, <1>7

(* The same trees over the same variables. *)
LEMMA TreesLocal ==
    ASSUME OverTerms, ValuationsOfTrees, NEW w \in Valuations, NEW v \in Valuations,
           NEW t \in Universe, Agree(w, v, VarsOf[t])
    PROVE  TreesOf(w).val[t] = TreesOf(v).val[t]
<1> DEFINE same == [u \in Universe |-> u]
<1>1. \A u \in Universe : same[u] = u
  OBVIOUS
<1>2. Rebuilds(same)
  BY ArgsType DEF Rebuilds, SameShape
<1> HIDE DEF same
<1>3. \A x \in VarsOf[t] : x \in Vars /\ x \in Universe
  BY DEF VarsOf, Vars
<1>4. \A x \in VarsOf[t] : TreesOf(w).val[x] = TreesOf(v).val[same[x]]
  BY <1>1, <1>3 DEF Agree, ValuationsOfTrees
<1>5. TreesOf(w).val[t] = TreesOf(v).val[same[t]]
  BY <1>2, <1>4, RebuiltTree DEF ValuationsOfTrees
<1> QED
  BY <1>1, <1>5

LEMMA TreesAreLocal ==
    ASSUME OverTerms, ValuationsOfTrees
    PROVE  ValuationsLocal /\ PredicatesTold
<1>1. PredicatesTold
  BY DEF PredicatesTold, ValuationsOfTrees, SameTrees
<1> SUFFICES ASSUME NEW w \in Valuations, NEW v \in Valuations
             PROVE  /\ \A l \in Literals : Agree(w, v, LiteralVars(l)) => Meaning(w, l) = Meaning(v, l)
                    /\ \A b \in BindingSets :
                           Agree(w, v, BindingVars(b)) /\ SolvedBy(w, b) => SolvedBy(v, b)
  BY <1>1 DEF ValuationsLocal
<1>2. ASSUME NEW l \in Literals, Agree(w, v, LiteralVars(l)) PROVE Meaning(w, l) = Meaning(v, l)
  <2>1. HasTerms(l) /\ LiteralVars(l) = VarsOfLiteral(l)
    BY DEF OverTerms
  <2>2. ASSUME NEW i \in DOMAIN l.terms
        PROVE  TreesOf(w).val[l.terms[i]] = TreesOf(v).val[l.terms[i]]
    <3>1. l.terms[i] \in Universe /\ Agree(w, v, VarsOf[l.terms[i]])
      BY <1>2, <2>1 DEF HasTerms, Agree, VarsOfLiteral
    <3> QED
      BY <3>1, TreesLocal
  <2>3. SameTrees(TreesOf(w), l, TreesOf(v), l)
    BY <2>2 DEF SameTrees
  <2> QED
    BY <2>3 DEF ValuationsOfTrees
<1>3. ASSUME NEW b \in BindingSets, Agree(w, v, BindingVars(b)), SolvedBy(w, b)
      PROVE  SolvedBy(v, b)
  <2>1. b \in BindingSet /\ BindingVars(b) = VarsOfBindings(b)
    BY DEF OverTerms, AcyclicBindings
  <2>2. SolvesBindings(TreesOf(w), b)
    BY <1>3 DEF ValuationsOfTrees
  <2>3. ASSUME NEW x \in DOMAIN b PROVE TreesOf(v).val[x] = TreesOf(v).val[b[x]]
    <3>1. /\ x \in Vars /\ b[x] \in Universe
          /\ Agree(w, v, {x}) /\ Agree(w, v, VarsOf[b[x]])
      BY <1>3, <2>1, BindingType DEF Agree, VarsOfBindings
    <3>2. TreesOf(w).val[b[x]] = TreesOf(v).val[b[x]]
      BY <3>1, TreesLocal
    <3>3. TreesOf(w).val[x] = TreesOf(v).val[x]
      BY <3>1 DEF Agree, ValuationsOfTrees
    <3> QED
      BY <2>2, <3>2, <3>3 DEF SolvesBindings
  <2>4. SolvesBindings(TreesOf(v), b)
    BY <2>3 DEF SolvesBindings
  <2> QED
    BY <2>4 DEF ValuationsOfTrees
<1> QED
  BY <1>2, <1>3

(* A replaced literal means what the literal does if its terms do. *)
LEMMA ReplacedMeans ==
    ASSUME NEW new, NEW I, NEW J, NEW l, HasTerms(l), NEW m, HasTerms(m), Replaced(new, l, m),
           \A i \in DOMAIN l.terms : I.val[l.terms[i]] = J.val[new[l.terms[i]]]
    PROVE  SameTrees(I, l, J, m)
BY DEF SameTrees, Replaced

(***************************************************************************)
(* A renamed rule says what the rule does: its new variables, which nothing *)
(* else uses, may stand for whatever the old ones do.                      *)
(***************************************************************************)
THEOREM RenamingByTermsRenames ==
    ASSUME OverTerms, RenamesByTerms, ValuationsOfTrees, ValuationsFree
    PROVE  RenamingRenames
<1> SUFFICES ASSUME NEW r \in RuleInputs, NEW n \in Nat, IsValid(r)
             PROVE  SaysTheSame(r, n)
  BY DEF RenamingRenames
<1> DEFINE copy == Rename(r, n)
           V == ClauseVars(r)
<1>1. RuleOfLiterals(r) /\ RuleOfLiterals(copy)
  BY DEF RenamesByTerms, RenamesApart
<1>2. PICK new \in [Universe -> Universe] : RenamedBy(new, r, n)
  BY DEF RenamesByTerms, RenamesApart
<1>3. /\ Renames(new) /\ Rebuilds(new)
      /\ Replaced(new, r.head, copy.head)
      /\ DOMAIN copy.body = DOMAIN r.body
      /\ \A j \in DOMAIN r.body : Replaced(new, r.body[j], copy.body[j])
      /\ \A x, y \in V : new[x] = new[y] => x = y
      /\ \A x \in V : new[x] \notin NamesBefore(n)
  BY <1>2 DEF RenamedBy, Renames
<1>4. /\ r.head \in Literals /\ copy.head \in Literals
      /\ \A j \in DOMAIN r.body : r.body[j] \in Literals
      /\ \A j \in DOMAIN copy.body : copy.body[j] \in Literals
  BY <1>1 DEF RuleOfLiterals
<1>5. /\ LiteralVars(r.head) \subseteq V
      /\ \A j \in DOMAIN r.body : LiteralVars(r.body[j]) \subseteq V
  BY DEF ClauseVars
<1>6. V \in SUBSET Vars
  <2>1. ASSUME NEW l \in Literals PROVE LiteralVars(l) \subseteq Vars
    <3>1. \A i \in DOMAIN l.terms : VarsOf[l.terms[i]] \subseteq Vars
      BY DEF OverTerms, HasTerms, VarsOf
    <3> QED
      BY <3>1 DEF OverTerms, VarsOfLiteral
  <2> QED
    BY <1>4, <2>1 DEF ClauseVars
<1> HIDE DEF copy, V
<1>7. ASSUME NEW u \in Valuations, NEW w \in Valuations
      PROVE  \E v \in Valuations :
                /\ Agree(w, v, NamesBefore(n))
                /\ Meaning(v, copy.head) = Meaning(u, r.head)
                /\ \A j \in DOMAIN r.body : Meaning(v, copy.body[j]) = Meaning(u, r.body[j])
  <2>1. PICK v \in Valuations :
            /\ \A x \in V : TreesOf(v).val[new[x]] = TreesOf(u).val[x]
            /\ Agree(w, v, OthersThan(new, V))
    <3>1. TellsApart(new, V)
      BY <1>3, <1>6 DEF TellsApart, Renames
    <3> QED
      BY <1>6, <3>1 DEF ValuationsFree
  <2>2. NamesBefore(n) \subseteq OthersThan(new, V)
    BY <1>3 DEF RenamesByTerms, OthersThan
  <2>3. Agree(w, v, NamesBefore(n))
    BY <2>1, <2>2 DEF Agree
  <2>4. ASSUME NEW l \in Literals, LiteralVars(l) \subseteq V,
               NEW m \in Literals, Replaced(new, l, m)
        PROVE  Meaning(v, m) = Meaning(u, l)
    <3>1. HasTerms(l) /\ HasTerms(m) /\ LiteralVars(l) = VarsOfLiteral(l)
      BY DEF OverTerms
    <3>2. ASSUME NEW i \in DOMAIN l.terms
          PROVE  TreesOf(u).val[l.terms[i]] = TreesOf(v).val[new[l.terms[i]]]
      <4>1. l.terms[i] \in Universe /\ VarsOf[l.terms[i]] \subseteq V
        BY <2>4, <3>1 DEF HasTerms, VarsOfLiteral
      <4>2. IsInterpretation(TreesOf(u)) /\ BuildAlike(TreesOf(u), TreesOf(v))
        BY DEF ValuationsOfTrees
      <4>3. \A x \in VarsOf[l.terms[i]] : TreesOf(u).val[x] = TreesOf(v).val[new[x]]
        BY <2>1, <4>1
      <4> QED
        BY <1>3, <4>1, <4>2, <4>3, RebuiltTree
    <3>3. SameTrees(TreesOf(u), l, TreesOf(v), m)
      BY <2>4, <3>1, <3>2, ReplacedMeans
    <3> QED
      BY <3>3 DEF ValuationsOfTrees
  <2>5. Meaning(v, copy.head) = Meaning(u, r.head)
    BY <1>3, <1>4, <1>5, <2>4
  <2>6. \A j \in DOMAIN r.body : Meaning(v, copy.body[j]) = Meaning(u, r.body[j])
    BY <1>3, <1>4, <1>5, <2>4
  <2> QED
    BY <2>3, <2>5, <2>6
<1> QED
  BY <1>3, <1>4, <1>7 DEF SaysTheSame, copy

(***************************************************************************)
(* Goals with the same key mean the same wherever both binding sets are     *)
(* solved, if no two goals print alike: the cut costs no answer.            *)
(***************************************************************************)
THEOREM KeysOfTermsTell ==
    ASSUME OverTerms, ValuationsOfTrees, SubstitutesByTerms, KeysTellGoals
    PROVE  KeysTellMeanings
<1>1. ASSUME NEW g \in Literals, NEW b \in BindingSets, NEW w \in Valuations, SolvedBy(w, b)
      PROVE  SameTrees(TreesOf(w), g, TreesOf(w), Substituted(g, b))
  <2>1. PICK new : Resolves(new, b) /\ Replaced(new, g, Substituted(g, b))
    BY DEF SubstitutesByTerms
  <2>2. /\ HasTerms(g) /\ b \in BindingSet /\ Acyclic(b)
        /\ IsInterpretation(TreesOf(w)) /\ SolvesBindings(TreesOf(w), b)
    BY <1>1 DEF OverTerms, AcyclicBindings, ValuationsOfTrees
  <2>3. ASSUME NEW i \in DOMAIN g.terms
        PROVE  TreesOf(w).val[g.terms[i]] = TreesOf(w).val[new[g.terms[i]]]
    BY <2>1, <2>2, ResolvedTree DEF HasTerms
  <2> QED
    BY <2>1, <2>3 DEF SameTrees, Replaced
<1> SUFFICES ASSUME NEW g \in Literals, NEW h \in Literals,
                    NEW b \in BindingSets, NEW c \in BindingSets, NEW w \in Valuations,
                    KeyOf(g, b) = KeyOf(h, c), SolvedBy(w, b), SolvedBy(w, c)
             PROVE  Meaning(w, g) = Meaning(w, h)
  BY DEF KeysTellMeanings
<1>2. Substituted(g, b) = Substituted(h, c)
  BY DEF KeysTellGoals
<1>3. /\ SameTrees(TreesOf(w), g, TreesOf(w), Substituted(g, b))
      /\ SameTrees(TreesOf(w), h, TreesOf(w), Substituted(g, b))
      /\ HasTerms(g) /\ HasTerms(h)
  BY <1>1, <1>2 DEF OverTerms
<1>4. SameTrees(TreesOf(w), g, TreesOf(w), h)
  BY <1>3 DEF SameTrees, HasTerms
<1> QED
  BY <1>4 DEF ValuationsOfTrees

================================================================================
