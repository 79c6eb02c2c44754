--------------------------- MODULE ConsequenceProofs ---------------------------
(***************************************************************************)
(* The results of the evaluator follow from the clauses, for all clauses,   *)
(* queries and worlds, if its unifier does what UnificationProofs shows of  *)
(* the one in Unification.                                                 *)
(***************************************************************************)
EXTENDS Consequence, KnowledgeBaseProofs

(***************************************************************************)
(* A binding set that unify returns is solved only where the caller's is,   *)
(* and where goal and clause are equally true.                             *)
(***************************************************************************)
UnifierSound ==
    \A goal \in Literals, fact \in Literals, b \in BindingSets, c \in BindingSets, w \in Worlds :
        Unify(goal, fact, b) = <<c>> /\ Solves(w, c) =>
            Solves(w, b) /\ (Holds(w, goal) <=> Holds(w, fact))

(***************************************************************************)
(* What soundness takes.  That renamed rules have fresh names is not among  *)
(* it, so NamesBefore(n) may be all names: capture costs answers, and adds  *)
(* none.                                                                   *)
(***************************************************************************)
EvaluationSound == RenamingNamed /\ UnifierKeepsNames /\ UnifierSound

--------------------------------------------------------------------------------
(* The invariant of one world: EvaluationFollows, and that lists are lists. *)

FrameLists(frame) ==
    /\ IsSequence(frame.results)
    /\ frame.fn = "evaluateConjunction" =>
           IsSequence(frame.todo) /\ IsSequence(frame.goals) /\ frame.goals # << >>

WorldInv(w) ==
    /\ EvaluationFollows(w)
    /\ \A i \in DOMAIN stack : FrameLists(stack[i])
    /\ pc = "return" => IsSequence(ret)

FollowInv == NamesInv /\ \A w \in Worlds : ClausesHold(w) => WorldInv(w)

--------------------------------------------------------------------------------
(* Lemmas about lists of goals and of results. *)

LEMMA OneGoal == ASSUME NEW w, NEW g PROVE AllHold(w, <<g>>) <=> Holds(w, g)
BY DEF AllHold

LEMMA SingleGoal ==
    ASSUME NEW w, NEW goals, IsSequence(goals), Len(goals) = 1
    PROVE  AllHold(w, goals) <=> AllHold(w, <<goals[1]>>)
<1>1. DOMAIN goals = {1}
  BY StackBasics
<1> QED
  BY <1>1, OneGoal DEF AllHold

(* The first goal and the rest are the conjunction. *)
LEMMA FirstAndRest ==
    ASSUME NEW w, NEW goals, IsSequence(goals), goals # << >>,
           AllHold(w, <<goals[1]>>), AllHold(w, Tail(goals))
    PROVE  AllHold(w, goals)
<1>1. Holds(w, goals[1])
  BY OneGoal
<1>2. ASSUME NEW i \in DOMAIN goals PROVE Holds(w, goals[i])
  <2>1. CASE i = 1
    BY <1>1, <2>1
  <2>2. CASE i # 1
    BY <2>2, TailFacts DEF AllHold
  <2> QED
    BY <2>1, <2>2
<1> QED
  BY <1>2 DEF AllHold

LEMMA ConcatJustified ==
    ASSUME NEW w, NEW d, NEW s, NEW t, IsSequence(s), IsSequence(t),
           AllJustified(w, s, d), AllJustified(w, t, d)
    PROVE  AllJustified(w, s \o t, d)
BY ConcatFacts DEF AllJustified

(* Results are passed on to whoever is served by them. *)
LEMMA PassedOn ==
    ASSUME NEW w, NEW results, NEW goals, NEW b, NEW d,
           AllJustified(w, results, Demand(goals, b)), Serves(w, goals, b, d)
    PROVE  AllJustified(w, results, d)
BY DEF AllJustified, Justifies, Serves, Demand

--------------------------------------------------------------------------------
(* Lemmas about stacks. *)

Follows(w, s, q) == StackFollows(w, s, q) /\ \A i \in DOMAIN s : FrameLists(s[i])

FrameGood(w, f) == FrameFollows(w, f) /\ FrameLists(f)

LEMMA EmptyFollows ==
    ASSUME NEW w, NEW q
    PROVE  Follows(w, << >>, q) /\ DemandAt(<< >>, Len(<< >>), q) = Demand(q, NoBindingSet)
BY DEF Follows, StackFollows, DemandAt

LEMMA PushFollows ==
    ASSUME NEW w, NEW q, NEW s, IsSequence(s), Follows(w, s, q),
           NEW f, FrameGood(w, f),
           Serves(w, Task(f), f.bindings, DemandAt(s, Len(s), q))
    PROVE  /\ Follows(w, Append(s, f), q)
           /\ DemandAt(Append(s, f), Len(Append(s, f)), q) = Demand(Wanted(f), f.bindings)
<1> DEFINE t == Append(s, f)
<1>1. /\ Len(s) \in Nat /\ DOMAIN s = 1..Len(s)
      /\ IsSequence(t) /\ Len(t) = Len(s) + 1 /\ DOMAIN t = 1..(Len(s) + 1)
      /\ \A i \in DOMAIN s : t[i] = s[i]
      /\ t[Len(s) + 1] = f
  BY AppendFacts, StackBasics
<1> HIDE DEF t
<1>2. \A i \in 0..Len(s) : DemandAt(t, i, q) = DemandAt(s, i, q)
  BY <1>1 DEF DemandAt
<1>3. ASSUME NEW i \in DOMAIN t
      PROVE  /\ FrameGood(w, t[i])
             /\ Serves(w, Task(t[i]), t[i].bindings, DemandAt(t, i - 1, q))
  <2>1. DemandAt(t, i - 1, q) = DemandAt(s, i - 1, q)
    BY <1>1, <1>2
  <2>2. CASE i \in DOMAIN s
    BY <1>1, <2>1, <2>2 DEF Follows, StackFollows, FrameGood
  <2>3. CASE i = Len(s) + 1
    BY <1>1, <2>1, <2>3
  <2> QED
    BY <1>1, <2>2, <2>3
<1>4. DemandAt(t, Len(t), q) = Demand(Wanted(f), f.bindings)
  BY <1>1 DEF DemandAt
<1> QED
  BY <1>3, <1>4 DEF Follows, StackFollows, FrameGood, t

LEMMA SetTopFollows ==
    ASSUME NEW w, NEW q, NEW s, IsSequence(s), s # << >>, Follows(w, s, q),
           NEW f, FrameGood(w, f), f.bindings = s[Len(s)].bindings, Task(f) = Task(s[Len(s)])
    PROVE  /\ Follows(w, [s EXCEPT ![Len(s)] = f], q)
           /\ DemandAt([s EXCEPT ![Len(s)] = f], Len([s EXCEPT ![Len(s)] = f]), q)
                 = Demand(Wanted(f), f.bindings)
<1> DEFINE t == [s EXCEPT ![Len(s)] = f]
<1>1. /\ Len(s) \in Nat /\ Len(s) \in DOMAIN s /\ DOMAIN s = 1..Len(s)
      /\ Len(t) = Len(s) /\ DOMAIN t = DOMAIN s
      /\ t[Len(s)] = f
      /\ \A i \in DOMAIN s : i # Len(s) => t[i] = s[i]
  BY SetTopFacts, StackBasics
<1> HIDE DEF t
<1>2. \A i \in 0..(Len(s) - 1) : DemandAt(t, i, q) = DemandAt(s, i, q)
  BY <1>1 DEF DemandAt
<1>3. ASSUME NEW i \in DOMAIN t
      PROVE  /\ FrameGood(w, t[i])
             /\ Serves(w, Task(t[i]), t[i].bindings, DemandAt(t, i - 1, q))
  <2>1. DemandAt(t, i - 1, q) = DemandAt(s, i - 1, q)
    BY <1>1, <1>2
  <2>2. Serves(w, Task(s[i]), s[i].bindings, DemandAt(t, i - 1, q))
    BY <1>1, <2>1 DEF Follows, StackFollows
  <2>3. CASE i # Len(s)
    BY <1>1, <2>2, <2>3 DEF Follows, StackFollows, FrameGood
  <2>4. CASE i = Len(s)
    BY <1>1, <2>2, <2>4
  <2> QED
    BY <2>3, <2>4
<1>4. DemandAt(t, Len(t), q) = Demand(Wanted(f), f.bindings)
  BY <1>1 DEF DemandAt
<1> QED
  BY <1>3, <1>4 DEF Follows, StackFollows, FrameGood, t

LEMMA PopFollows ==
    ASSUME NEW w, NEW q, NEW s, IsSequence(s), s # << >>, Follows(w, s, q)
    PROVE  /\ Follows(w, SubSeq(s, 1, Len(s) - 1), q)
           /\ DemandAt(SubSeq(s, 1, Len(s) - 1), Len(SubSeq(s, 1, Len(s) - 1)), q)
                 = DemandAt(s, Len(s) - 1, q)
<1> DEFINE t == SubSeq(s, 1, Len(s) - 1)
<1>1. /\ Len(s) \in Nat /\ Len(s) >= 1 /\ DOMAIN s = 1..Len(s)
      /\ Len(t) = Len(s) - 1 /\ DOMAIN t = 1..(Len(s) - 1)
      /\ \A i \in 1..(Len(s) - 1) : t[i] = s[i]
  BY PopFacts, StackBasics
<1> HIDE DEF t
<1>2. \A i \in 0..(Len(s) - 1) : DemandAt(t, i, q) = DemandAt(s, i, q)
  BY <1>1 DEF DemandAt
<1>3. ASSUME NEW i \in DOMAIN t
      PROVE  /\ FrameGood(w, t[i])
             /\ Serves(w, Task(t[i]), t[i].bindings, DemandAt(t, i - 1, q))
  <2>1. i \in DOMAIN s /\ t[i] = s[i] /\ DemandAt(t, i - 1, q) = DemandAt(s, i - 1, q)
    BY <1>1, <1>2
  <2> QED
    BY <2>1 DEF Follows, StackFollows, FrameGood
<1>4. DemandAt(t, Len(t), q) = DemandAt(s, Len(s) - 1, q)
  BY <1>1, <1>2
<1> QED
  BY <1>3, <1>4 DEF Follows, StackFollows, FrameGood, t

(* What is known of the top frame. *)
LEMMA TopFollows ==
    ASSUME NEW w, NEW q, NEW s, IsSequence(s), s # << >>, Follows(w, s, q)
    PROVE  /\ FrameGood(w, s[Len(s)])
           /\ Serves(w, Task(s[Len(s)]), s[Len(s)].bindings, DemandAt(s, Len(s) - 1, q))
           /\ DemandAt(s, Len(s), q) = Demand(Wanted(s[Len(s)]), s[Len(s)].bindings)
<1>1. Len(s) \in DOMAIN s /\ Len(s) # 0
  BY StackBasics
<1> QED
  BY <1>1 DEF Follows, StackFollows, FrameGood, DemandAt

--------------------------------------------------------------------------------
(* Lemmas about frames: what the loops leave alone, and what they add. *)

(* A goal's frame, with more results or further on in the clauses. *)
LEMMA GoalFrameGood ==
    ASSUME NEW w, NEW f, f.fn = "evaluateGoal", IsSequence(f.results),
           AllJustified(w, f.results, Demand(<<f.goal>>, f.bindings))
    PROVE  FrameGood(w, f) /\ Task(f) = <<f.goal>> /\ Wanted(f) = <<f.goal>>
BY DEF FrameGood, FrameFollows, FrameLists, Task, Wanted

LEMMA NewConjunctionGood ==
    ASSUME NEW w, NEW goals, IsSequence(goals), goals # << >>, NEW b
    PROVE  LET f == ConjunctionFrame(goals, b)
           IN  /\ FrameGood(w, f) /\ Task(f) = goals /\ Wanted(f) = <<goals[1]>>
               /\ f.bindings = b
BY EmptyIsSequence
   DEF ConjunctionFrame, FrameGood, FrameFollows, FrameLists, Task, Wanted, AllJustified

--------------------------------------------------------------------------------
(* The ways a step keeps the invariant of a world. *)

LEMMA StackNow ==
    ASSUME NEW w, Inv, WorldInv(w)
    PROVE  IsSequence(stack) /\ Follows(w, stack, asked)
BY InvStack DEF StackOK, WorldInv, EvaluationFollows, Follows

LEMMA ResumesFollow ==
    ASSUME NEW w, Inv, WorldInv(w), Unchanged, stack # << >>,
           NEW f, FrameGood(w, f), f.bindings = Top.bindings, Task(f) = Task(Top),
           ResumeTop(f)
    PROVE  WorldInv(w)'
<1>1. stack' = [stack EXCEPT ![Len(stack)] = f] /\ pc' = "run" /\ asked' = asked
  BY DEF ResumeTop, Unchanged
<1>2. Follows(w, stack', asked')
  BY <1>1, StackNow, SetTopFollows DEF Top
<1> QED
  BY <1>1, <1>2 DEF WorldInv, EvaluationFollows, Follows, StackFollows

LEMMA CallsFollow ==
    ASSUME NEW w, Inv, WorldInv(w), Unchanged, stack # << >>,
           NEW f, FrameGood(w, f), f.bindings = Top.bindings, Task(f) = Task(Top),
           NEW goals, IsSequence(goals), goals # << >>, NEW b,
           Serves(w, goals, b, Demand(Wanted(f), f.bindings)),
           CallConjunction([stack EXCEPT ![Len(stack)] = f], goals, b)
    PROVE  WorldInv(w)'
<1> DEFINE under == [stack EXCEPT ![Len(stack)] = f]
           frame == ConjunctionFrame(goals, b)
<1>1. /\ stack' = Append(under, frame) /\ pc' = "goal" /\ asked' = asked
      /\ call' = [goal |-> goals[1], bindings |-> b]
  BY DEF CallConjunction, CallGoal, Unchanged
<1>2. /\ IsSequence(under) /\ Follows(w, under, asked)
      /\ DemandAt(under, Len(under), asked) = Demand(Wanted(f), f.bindings)
  BY StackNow, SetTopFacts, SetTopFollows DEF Top
<1>3. /\ FrameGood(w, frame) /\ Task(frame) = goals /\ Wanted(frame) = <<goals[1]>>
      /\ frame.bindings = b
  BY NewConjunctionGood
<1> HIDE DEF under, frame
<1>4. /\ Follows(w, stack', asked')
      /\ DemandAt(stack', Len(stack'), asked') = Demand(<<goals[1]>>, b)
  BY <1>1, <1>2, <1>3, PushFollows
<1>5. Serves(w, <<call'.goal>>, call'.bindings, DemandAt(stack', Len(stack'), asked'))
  BY <1>1, <1>4 DEF Serves, Demand
<1> QED
  BY <1>1, <1>4, <1>5 DEF WorldInv, EvaluationFollows, Follows, StackFollows

LEMMA PopsFollow ==
    ASSUME NEW w, Inv, WorldInv(w), Unchanged, stack # << >>,
           NEW results, IsSequence(results),
           AllJustified(w, results, Demand(Task(Top), Top.bindings)),
           PopFrame, ReturnToCaller(results)
    PROVE  WorldInv(w)'
<1>1. /\ stack' = SubSeq(stack, 1, Len(stack) - 1) /\ pc' = "return" /\ ret' = results
      /\ asked' = asked
  BY DEF PopFrame, ReturnToCaller, Unchanged
<1>2. /\ Follows(w, stack', asked')
      /\ DemandAt(stack', Len(stack'), asked') = DemandAt(stack, Len(stack) - 1, asked)
  BY <1>1, StackNow, PopFollows
<1>3. Serves(w, Task(Top), Top.bindings, DemandAt(stack, Len(stack) - 1, asked))
  BY StackNow, TopFollows DEF Top
<1>4. AllJustified(w, ret', DemandAt(stack', Len(stack'), asked'))
  BY <1>1, <1>2, <1>3, PassedOn
<1> QED
  BY <1>1, <1>2, <1>4 DEF WorldInv, EvaluationFollows, Follows, StackFollows

--------------------------------------------------------------------------------
(* The steps of evaluateGoal. *)

LEMMA TopGoal ==
    ASSUME NEW w, Inv, WorldInv(w), InGoal
    PROVE  /\ FrameOK(Top, Len(rules)) /\ Top.fn = "evaluateGoal" /\ stack # << >>
           /\ IsSequence(Top.results)
           /\ AllJustified(w, Top.results, Demand(<<Top.goal>>, Top.bindings))
           /\ Task(Top) = <<Top.goal>> /\ Wanted(Top) = <<Top.goal>>
           /\ DemandAt(stack, Len(stack), asked) = Demand(<<Top.goal>>, Top.bindings)
<1>1. stack # << >> /\ Top.fn = "evaluateGoal"
  BY DEF InGoal
<1>2. FrameOK(Top, Len(rules))
  BY <1>1, InvStack
<1>3. /\ FrameGood(w, Top)
      /\ DemandAt(stack, Len(stack), asked) = Demand(Wanted(Top), Top.bindings)
  BY <1>1, StackNow, TopFollows DEF Top
<1> QED
  BY <1>1, <1>2, <1>3 DEF FrameGood, FrameFollows, FrameLists, Task, Wanted

(* A goal under evaluation is a literal, under a binding set. *)
LEMMA TopNamed ==
    ASSUME NamesInv, InGoal
    PROVE  Top.goal \in Literals /\ Top.bindings \in BindingSets
<1>1. Top.fn = "evaluateGoal" /\ stack # << >>
  BY DEF InGoal
<1>2. FrameNamed(Top, varCounter)
  BY <1>1, InvStack, StackBasics DEF NamesInv, NamesOK, AllNamed, StackOK, Top
<1> QED
  BY <1>1, <1>2 DEF FrameNamed, GoalNamed, BindingsNamed

LEMMA TryFactFollows ==
    ASSUME InputsNamed, EvaluationSound,
           NEW w \in Worlds, ClausesHold(w), Inv, NamesInv, WorldInv(w), TryFact
    PROVE  WorldInv(w)'
<1> DEFINE fact == facts[Top.fact]
           new == FactUnifier
           f == [Top EXCEPT !.results = Top.results \o new, !.fact = Top.fact + 1]
<1>1. InGoal /\ Top.fact <= Len(facts) /\ Unchanged /\ ResumeTop(f)
  BY DEF TryFact, AtFact
<1>2. \/ new = << >>
      \/ \E c : /\ new = <<c>>
                /\ Solves(w, c) => Solves(w, Top.bindings) /\ (Holds(w, Top.goal) <=> Holds(w, fact))
  <2>1. Top.goal \in Literals /\ Top.bindings \in BindingSets /\ fact \in Literals
    BY <1>1, TopNamed, CurrentFactOK DEF TryFact, NamesInv, InputsNamed, OwnName
  <2>2. \/ new = << >>
        \/ \E c \in BindingSets : new = <<c>>
    BY <2>1 DEF EvaluationSound, UnifierKeepsNames, FactUnifier
  <2> QED
    BY <2>1, <2>2 DEF EvaluationSound, UnifierSound, FactUnifier
<1>3. IsSequence(new)
  BY <1>2, EmptyIsSequence, OneIsSequence
<1>4. Holds(w, fact)
  <2>1. AtFact
    BY DEF TryFact
  <2> QED
    BY <2>1, CurrentFactOK DEF ClausesHold, AllHold, NamesInv
<1> HIDE DEF fact
<1>5. AllJustified(w, new, Demand(<<Top.goal>>, Top.bindings))
  <2>1. CASE new = << >>
    BY <2>1 DEF AllJustified
  <2>2. CASE new # << >>
    <3>1. PICK c : new = <<c>> /\ (Solves(w, c) => Solves(w, Top.bindings) /\ Holds(w, Top.goal))
      BY <1>2, <1>4, <2>2
    <3>2. Justifies(w, c, <<Top.goal>>, Top.bindings)
      BY <3>1, OneGoal DEF Justifies
    <3>3. DOMAIN new = {1} /\ new[1] = c
      BY <3>1
    <3> QED
      BY <3>2, <3>3 DEF AllJustified, Demand
  <2> QED
    BY <2>1, <2>2
<1> HIDE DEF new
<1>6. /\ IsSequence(Top.results \o new)
      /\ AllJustified(w, Top.results \o new, Demand(<<Top.goal>>, Top.bindings))
  BY <1>1, <1>3, <1>5, TopGoal, ConcatFacts, ConcatJustified
<1>7. /\ f.fn = "evaluateGoal" /\ f.goal = Top.goal /\ f.bindings = Top.bindings
      /\ f.results = Top.results \o new
  BY <1>1, TopGoal, GoalFrameFields
<1> HIDE DEF f
<1>8. FrameGood(w, f) /\ Task(f) = Task(Top)
  BY <1>1, <1>6, <1>7, TopGoal, GoalFrameGood
<1> QED
  BY <1>1, <1>7, <1>8, TopGoal, ResumesFollow

(* The next rule, and what is known of the current one. *)
LEMMA RuleFollows ==
    ASSUME EvaluationSound, NEW w \in Worlds, ClausesHold(w), Inv, NamesInv, WorldInv(w), AtRule
    PROVE  /\ InGoal
           /\ FrameGood(w, NextRule) /\ Task(NextRule) = Task(Top)
           /\ NextRule.bindings = Top.bindings /\ Wanted(NextRule) = <<Top.goal>>
           /\ RuleHolds(w, RenamedRule)
           /\ IsSequence(RenamedRule.body) /\ RenamedRule.body # << >>
           /\ RenamedRule.head \in Literals
<1>1. InGoal /\ Top.next <= Len(rules)
  BY DEF AtRule, FactsTried
<1>2. /\ NextRule.fn = "evaluateGoal" /\ NextRule.goal = Top.goal
      /\ NextRule.bindings = Top.bindings /\ NextRule.results = Top.results
  BY <1>1, TopGoal, GoalFrameFields DEF NextRule
<1>3. /\ FrameGood(w, NextRule) /\ Task(NextRule) = Task(Top)
      /\ Wanted(NextRule) = <<Top.goal>>
  BY <1>1, <1>2, TopGoal, GoalFrameGood
<1>5. Top.next \in DOMAIN rules /\ CurrentRule \in RuleInputs /\ IsValid(CurrentRule)
      /\ varCounter \in Nat
  BY CurrentRuleOK DEF NamesInv
<1>6. RuleHolds(w, RenamedRule)
  <2>1. varCounter \in 0..varCounter
    BY <1>5
  <2> QED
    BY <1>5, <2>1 DEF ClausesHold, RenamedRule, CurrentRule
<1>7. /\ IsSequence(RenamedRule.body) /\ RenamedRule.body # << >>
      /\ RenamedRule.head \in Literals
  BY <1>5 DEF EvaluationSound, RenamingNamed, NamedAs, RenamedRule
<1> QED
  BY <1>1, <1>2, <1>3, <1>6, <1>7

LEMMA RuleBodyFollows ==
    ASSUME InputsNamed, EvaluationSound,
           NEW w \in Worlds, ClausesHold(w), Inv, NamesInv, WorldInv(w), RuleBody
    PROVE  WorldInv(w)'
<1>1. /\ AtRule /\ HeadUnifier # << >> /\ Unchanged
      /\ CallConjunction([stack EXCEPT ![Len(stack)] = NextRule], RenamedRule.body,
                         HeadUnifier[1])
  BY DEF RuleBody
<1>2. PICK c : /\ HeadUnifier = <<c>>
               /\ Solves(w, c) => Solves(w, Top.bindings)
                                  /\ (Holds(w, Top.goal) <=> Holds(w, RenamedRule.head))
  <2>1. Top.goal \in Literals /\ Top.bindings \in BindingSets /\ RenamedRule.head \in Literals
    BY <1>1, TopNamed, RuleFollows
  <2>2. \E c \in BindingSets : HeadUnifier = <<c>>
    BY <1>1, <2>1 DEF EvaluationSound, UnifierKeepsNames, HeadUnifier
  <2> QED
    BY <2>1, <2>2 DEF EvaluationSound, UnifierSound, HeadUnifier
<1>3. HeadUnifier[1] = c
  BY <1>2
<1>4. Serves(w, RenamedRule.body, HeadUnifier[1], Demand(Wanted(NextRule), NextRule.bindings))
  <2>1. Wanted(NextRule) = <<Top.goal>> /\ NextRule.bindings = Top.bindings
        /\ RuleHolds(w, RenamedRule)
    BY <1>1, RuleFollows
  <2> QED
    BY <1>2, <1>3, <2>1, OneGoal DEF Serves, Demand, RuleHolds
<1>5. stack # << >>
  BY <1>1 DEF AtRule, FactsTried, InGoal
<1> QED
  BY <1>1, <1>4, <1>5, RuleFollows, CallsFollow

LEMMA RuleReturnedFollows ==
    ASSUME NEW w, Inv, WorldInv(w), RuleReturned
    PROVE  WorldInv(w)'
<1> DEFINE f == [Top EXCEPT !.results = Top.results \o ret]
<1>1. InGoal /\ pc = "return" /\ Unchanged /\ ResumeTop(f)
  BY DEF RuleReturned
<1>2. IsSequence(ret) /\ AllJustified(w, ret, Demand(<<Top.goal>>, Top.bindings))
  BY <1>1, TopGoal DEF WorldInv, EvaluationFollows
<1>3. /\ IsSequence(Top.results \o ret)
      /\ AllJustified(w, Top.results \o ret, Demand(<<Top.goal>>, Top.bindings))
  BY <1>1, <1>2, TopGoal, ConcatFacts, ConcatJustified
<1>4. /\ f.fn = "evaluateGoal" /\ f.goal = Top.goal /\ f.bindings = Top.bindings
      /\ f.results = Top.results \o ret
  BY <1>1, TopGoal, GoalFrameFields
<1> HIDE DEF f
<1>5. FrameGood(w, f) /\ Task(f) = Task(Top)
  BY <1>1, <1>3, <1>4, TopGoal, GoalFrameGood
<1> QED
  BY <1>1, <1>4, <1>5, TopGoal, ResumesFollow

LEMMA GoalEnterFollows ==
    ASSUME NEW w, Inv, WorldInv(w), GoalEnter
    PROVE  WorldInv(w)'
<1> DEFINE f == GoalFrame(call.goal, call.bindings, KeyOf(call.goal, call.bindings))
<1>1. pc = "goal" /\ pc' = "run" /\ stack' = Append(stack, f) /\ asked' = asked
  BY DEF GoalEnter, Unchanged
<1>2. f.fn = "evaluateGoal" /\ f.goal = call.goal /\ f.bindings = call.bindings
      /\ f.results = << >>
  BY DEF GoalFrame
<1> HIDE DEF f
<1>3. FrameGood(w, f) /\ Task(f) = <<call.goal>>
  <2>1. AllJustified(w, << >>, Demand(<<f.goal>>, f.bindings))
    BY DEF AllJustified
  <2> QED
    BY <1>2, <2>1, EmptyIsSequence, GoalFrameGood
<1>4. Serves(w, Task(f), f.bindings, DemandAt(stack, Len(stack), asked))
  BY <1>1, <1>2, <1>3 DEF WorldInv, EvaluationFollows
<1>5. Follows(w, stack', asked')
  BY <1>1, <1>3, <1>4, StackNow, PushFollows
<1> QED
  BY <1>1, <1>5 DEF WorldInv, EvaluationFollows, Follows, StackFollows

--------------------------------------------------------------------------------
(* The steps of evaluateConjunction. *)

LEMMA TopConjunction ==
    ASSUME NEW w, Inv, WorldInv(w), InConjunction
    PROVE  /\ FrameOK(Top, Len(rules)) /\ Top.fn = "evaluateConjunction" /\ stack # << >>
           /\ IsSequence(Top.results) /\ IsSequence(Top.todo)
           /\ IsSequence(Top.goals) /\ Top.goals # << >>
           /\ AllJustified(w, Top.results, Demand(Top.goals, Top.bindings))
           /\ AllJustified(w, Top.todo, Demand(<<Top.goals[1]>>, Top.bindings))
           /\ Top.at \in {"first", "rest"}
           /\ Top.todo # << >> => Top.at = "rest" /\ Len(Top.goals) # 1
           /\ Task(Top) = Top.goals
           /\ DemandAt(stack, Len(stack), asked)
                 = Demand(IF Top.at = "first" THEN <<Top.goals[1]>> ELSE Top.goals, Top.bindings)
<1>1. stack # << >> /\ Top.fn = "evaluateConjunction"
  BY DEF InConjunction
<1>2. FrameOK(Top, Len(rules))
  BY <1>1, InvStack
<1>3. /\ FrameGood(w, Top)
      /\ DemandAt(stack, Len(stack), asked) = Demand(Wanted(Top), Top.bindings)
  BY <1>1, StackNow, TopFollows DEF Top
<1>4. Task(Top) = Top.goals
  BY <1>1 DEF Task
<1> QED
  BY <1>1, <1>2, <1>3, <1>4 DEF FrameGood, FrameFollows, FrameLists, Wanted

LEMMA ConjunctionFrameGood ==
    ASSUME NEW w, NEW f, f.fn = "evaluateConjunction",
           IsSequence(f.results), IsSequence(f.todo), IsSequence(f.goals), f.goals # << >>,
           f.at \in {"first", "rest"}, f.todo # << >> => f.at = "rest" /\ Len(f.goals) # 1,
           AllJustified(w, f.results, Demand(f.goals, f.bindings)),
           AllJustified(w, f.todo, Demand(<<f.goals[1]>>, f.bindings))
    PROVE  /\ FrameGood(w, f) /\ Task(f) = f.goals
           /\ f.at = "rest" => Wanted(f) = f.goals
BY DEF FrameGood, FrameFollows, FrameLists, Task, Wanted

LEMMA OnlyGoalReturnedFollows ==
    ASSUME NEW w, Inv, WorldInv(w), OnlyGoalReturned
    PROVE  WorldInv(w)'
<1>1. /\ InConjunction /\ pc = "return" /\ Len(Top.goals) = 1
      /\ Unchanged /\ PopFrame /\ ReturnToCaller(ret)
  BY DEF OnlyGoalReturned
<1>2. /\ IsSequence(ret)
      /\ AllJustified(w, ret, DemandAt(stack, Len(stack), asked))
  BY <1>1 DEF WorldInv, EvaluationFollows
<1>3. AllHold(w, Top.goals) <=> AllHold(w, <<Top.goals[1]>>)
  BY <1>1, TopConjunction, SingleGoal
<1>4. AllJustified(w, ret, Demand(Top.goals, Top.bindings))
  BY <1>1, <1>2, <1>3, TopConjunction DEF AllJustified, Justifies, Demand
<1> QED
  BY <1>1, <1>2, <1>4, TopConjunction, PopsFollow

LEMMA FirstGoalReturnedFollows ==
    ASSUME NEW w, Inv, WorldInv(w), FirstGoalReturned
    PROVE  WorldInv(w)'
<1> DEFINE f == [Top EXCEPT !.at = "rest", !.todo = ret]
<1>1. /\ InConjunction /\ pc = "return" /\ Len(Top.goals) # 1 /\ Top.at = "first"
      /\ Unchanged /\ ResumeTop(f)
  BY DEF FirstGoalReturned
<1>2. IsSequence(ret) /\ AllJustified(w, ret, Demand(<<Top.goals[1]>>, Top.bindings))
  BY <1>1, TopConjunction DEF WorldInv, EvaluationFollows
<1>3. /\ f.fn = Top.fn /\ f.goals = Top.goals /\ f.bindings = Top.bindings
      /\ f.at = "rest" /\ f.todo = ret /\ f.results = Top.results
  BY <1>1, TopConjunction, ConjunctionFrameFields
<1> HIDE DEF f
<1>4. FrameGood(w, f) /\ Task(f) = Task(Top)
  BY <1>1, <1>2, <1>3, TopConjunction, ConjunctionFrameGood
<1> QED
  BY <1>1, <1>3, <1>4, TopConjunction, ResumesFollow

LEMMA NextResultFollows ==
    ASSUME NEW w, Inv, WorldInv(w), NextResult
    PROVE  WorldInv(w)'
<1> DEFINE f == [Top EXCEPT !.todo = Tail(Top.todo)]
           result == Head(Top.todo)
           rest == Tail(Top.goals)
<1>1. /\ InConjunction /\ pc = "run" /\ Top.todo # << >> /\ Unchanged
      /\ CallConjunction([stack EXCEPT ![Len(stack)] = f], rest, result)
  BY DEF NextResult
<1>2. /\ f.fn = Top.fn /\ f.goals = Top.goals /\ f.bindings = Top.bindings
      /\ f.at = Top.at /\ f.todo = Tail(Top.todo) /\ f.results = Top.results
  BY <1>1, TopConjunction, ConjunctionFrameFields
<1>3. IsSequence(Tail(Top.todo))
      /\ AllJustified(w, Tail(Top.todo), Demand(<<Top.goals[1]>>, Top.bindings))
  BY <1>1, TopConjunction, TailFacts DEF AllJustified
<1>4. Justifies(w, result, <<Top.goals[1]>>, Top.bindings)
  <2>1. 1 \in DOMAIN Top.todo /\ result = Top.todo[1]
    BY <1>1, TopConjunction, TailFacts
  <2> QED
    BY <1>1, <2>1, TopConjunction DEF AllJustified, Demand
<1>5. IsSequence(rest) /\ rest # << >>
  <2>1. IsSequence(rest) /\ Len(rest) = Len(Top.goals) - 1 /\ Len(Top.goals) \in Nat
        /\ Len(Top.goals) # 1
    BY <1>1, TopConjunction, TailFacts, StackBasics
  <2> HIDE DEF rest
  <2>2. Len(rest) # 0
    BY <2>1
  <2>3. rest # << >>
    BY <2>2
  <2> QED
    BY <2>1, <2>3
<1> HIDE DEF f
<1>6. FrameGood(w, f) /\ Task(f) = Task(Top) /\ Wanted(f) = Top.goals
  BY <1>1, <1>2, <1>3, TopConjunction, ConjunctionFrameGood
<1>7. Serves(w, rest, result, Demand(Wanted(f), f.bindings))
  BY <1>1, <1>2, <1>4, <1>6, TopConjunction, FirstAndRest DEF Serves, Justifies, Demand
<1> HIDE DEF result, rest
<1> QED
  BY <1>1, <1>2, <1>5, <1>6, <1>7, TopConjunction, CallsFollow

LEMMA RestReturnedFollows ==
    ASSUME NEW w, Inv, WorldInv(w), RestReturned
    PROVE  WorldInv(w)'
<1> DEFINE f == [Top EXCEPT !.results = Top.results \o ret]
<1>1. InConjunction /\ pc = "return" /\ Top.at = "rest" /\ Unchanged /\ ResumeTop(f)
  BY DEF RestReturned
<1>2. IsSequence(ret) /\ AllJustified(w, ret, Demand(Top.goals, Top.bindings))
  BY <1>1, TopConjunction DEF WorldInv, EvaluationFollows
<1>3. /\ IsSequence(Top.results \o ret)
      /\ AllJustified(w, Top.results \o ret, Demand(Top.goals, Top.bindings))
  BY <1>1, <1>2, TopConjunction, ConcatFacts, ConcatJustified
<1>4. /\ f.fn = Top.fn /\ f.goals = Top.goals /\ f.bindings = Top.bindings
      /\ f.at = Top.at /\ f.todo = Top.todo /\ f.results = Top.results \o ret
  BY <1>1, TopConjunction, ConjunctionFrameFields
<1> HIDE DEF f
<1>5. FrameGood(w, f) /\ Task(f) = Task(Top)
  BY <1>1, <1>3, <1>4, TopConjunction, ConjunctionFrameGood
<1> QED
  BY <1>1, <1>4, <1>5, TopConjunction, ResumesFollow

--------------------------------------------------------------------------------
(* The induction. *)

LEMMA EvaluateFollows ==
    ASSUME InputsNamed, EvaluationSound,
           NEW w \in Worlds, ClausesHold(w), Inv, NamesInv, WorldInv(w), Evaluate
    PROVE  WorldInv(w)'
<1>1. ASSUME UNCHANGED <<stack, asked>>, pc' \notin {"goal", "return"} PROVE WorldInv(w)'
  BY <1>1 DEF WorldInv, EvaluationFollows, StackFollows
<1>2. CASE GoalVisited
  <2>1. UNCHANGED <<stack, asked>> /\ pc' = "return" /\ ret' = << >>
    BY <1>2 DEF GoalVisited, ReturnToCaller, Unchanged
  <2>2. AllJustified(w, ret', DemandAt(stack, Len(stack), asked))
    BY <2>1 DEF AllJustified
  <2> QED
    BY <2>1, <2>2, EmptyIsSequence DEF WorldInv, EvaluationFollows, StackFollows
<1>3. CASE StackOverflow
  BY <1>1, <1>3 DEF StackOverflow, Unchanged, evaluation
<1>4. CASE SkipRule \/ RuleFails
  <2>1. AtRule /\ ResumeTop(NextRule) /\ Unchanged /\ stack # << >>
    BY <1>4 DEF SkipRule, RuleFails, AtRule, FactsTried, InGoal
  <2> QED
    BY <2>1, RuleFollows, ResumesFollow
<1>5. CASE GoalReturn
  <2>1. InGoal /\ Unchanged /\ PopFrame /\ ReturnToCaller(Top.results)
    BY <1>5 DEF GoalReturn, FactsTried
  <2> QED
    BY <2>1, TopGoal, PopsFollow
<1>6. CASE ConjunctionReturn
  <2>1. InConjunction /\ Unchanged /\ PopFrame /\ ReturnToCaller(Top.results)
    BY <1>6 DEF ConjunctionReturn
  <2> QED
    BY <2>1, TopConjunction, PopsFollow
<1>7. CASE QueryReturn
  BY <1>1, <1>7 DEF QueryReturn
<1> QED
  BY <1>2, <1>3, <1>4, <1>5, <1>6, <1>7, GoalEnterFollows, TryFactFollows, RuleBodyFollows,
     RuleReturnedFollows, OnlyGoalReturnedFollows, FirstGoalReturnedFollows,
     NextResultFollows, RestReturnedFollows
     DEF Evaluate

(* While a query runs, the clauses only ever mean more. *)
LEMMA ClausesHeld ==
    ASSUME Inv, Evaluate, NEW w, ClausesHold(w)'
    PROVE  ClausesHold(w)
<1>1. 0..varCounter \subseteq 0..varCounter'
  BY EvaluateKeeps
<1> QED
  BY <1>1, EvaluateKeeps DEF ClausesHold, AllHold

LEMMA FollowInit == Init => FollowInv
<1> SUFFICES ASSUME Init PROVE FollowInv
  OBVIOUS
<1>1. pc = "client" /\ stack = << >>
  BY DEF Init
<1>2. ASSUME NEW w PROVE WorldInv(w)
  BY <1>1, EmptyFollows DEF WorldInv, EvaluationFollows, Follows
<1> QED
  BY <1>2, NamesInit DEF FollowInv

LEMMA FollowStep ==
    ASSUME InputsNamed, EvaluationSound, FollowInv, [Next]_vars
    PROVE  FollowInv'
<1>1. NamesInv /\ NamesInv' /\ Inv
  BY NamesStep DEF FollowInv, EvaluationSound, NamesInv
<1>2. ASSUME NEW w \in Worlds, ClausesHold(w)' PROVE WorldInv(w)'
  <2>1. CASE Evaluate
    BY <1>1, <1>2, <2>1, ClausesHeld, EvaluateFollows DEF FollowInv
  <2>2. CASE UNCHANGED vars
    <3>1. ClausesHold(w)
      BY <1>2, <2>2 DEF vars, ClausesHold, AllHold
    <3>2. WorldInv(w)
      BY <3>1 DEF FollowInv
    <3> QED
      BY <2>2, <3>2 DEF vars, WorldInv, EvaluationFollows, StackFollows
  <2>3. CASE Next /\ ~Evaluate
    <3>1. pc = "client" /\ stack = << >> /\ stack' = stack
      BY <1>1, <2>3 DEF Next, AddFact, AddRule, Query, evaluation, Inv, IdleClean
    <3>2. CASE pc' = "client"
      BY <3>1, <3>2, EmptyFollows DEF WorldInv, EvaluationFollows, Follows
    <3>3. CASE pc' # "client"
      <4>1. PICK g \in QueryInputs : Query(g)
        BY <2>3, <3>1, <3>3 DEF Next, AddFact, AddRule
      <4>2. /\ asked' = <<g>> /\ pc' = "goal"
            /\ call'.goal = g /\ call'.bindings = NoBindingSet
        BY <4>1 DEF Query
      <4>3. /\ Follows(w, stack', asked')
            /\ DemandAt(stack', Len(stack'), asked') = Demand(asked', NoBindingSet)
        BY <3>1, EmptyFollows
      <4>4. Serves(w, <<call'.goal>>, call'.bindings, DemandAt(stack', Len(stack'), asked'))
        BY <4>2, <4>3 DEF Serves, Demand
      <4> QED
        BY <4>2, <4>3, <4>4, <3>1 DEF WorldInv, EvaluationFollows, Follows
    <3> QED
      BY <3>2, <3>3
  <2> QED
    BY <2>1, <2>2, <2>3
<1> QED
  BY <1>1, <1>2 DEF FollowInv

LEMMA FollowInvGivesResults == FollowInv => ResultsFollow /\ EvaluationsFollow
<1> SUFFICES ASSUME FollowInv PROVE ResultsFollow /\ EvaluationsFollow
  OBVIOUS
<1>1. EvaluationsFollow
  BY DEF FollowInv, WorldInv, EvaluationsFollow
<1>2. ASSUME pc = "return", stack = << >>, NEW w \in Worlds, ClausesHold(w)
      PROVE  \A i \in DOMAIN ret : Justifies(w, ret[i], asked, NoBindingSet)
  <2>1. AllJustified(w, ret, DemandAt(stack, Len(stack), asked))
    BY <1>2 DEF FollowInv, WorldInv, EvaluationFollows
  <2>2. DemandAt(stack, Len(stack), asked) = Demand(asked, NoBindingSet)
    BY <1>2, EmptyFollows
  <2> QED
    BY <2>1, <2>2 DEF AllJustified, Demand
<1> QED
  BY <1>1, <1>2 DEF ResultsFollow

(***************************************************************************)
(* With a sound unifier the evaluator is sound: every result of a query     *)
(* follows from the clauses stored, in every world, for all clauses and     *)
(* queries, however deep the evaluation and whatever it cuts off.           *)
(***************************************************************************)
THEOREM ResultsAlwaysFollow ==
    ASSUME InputsNamed, EvaluationSound
    PROVE  Spec => []ResultsFollow
<1>1. FollowInv /\ [Next]_vars => FollowInv'
  BY FollowStep
<1> QED
  BY <1>1, FollowInit, FollowInvGivesResults, PTL DEF Spec

(***************************************************************************)
(* At every moment, what each activation has found and has been promised is *)
(* justified by the clauses, and proves what its caller waits for.          *)
(***************************************************************************)
THEOREM EvaluationsAlwaysFollow ==
    ASSUME InputsNamed, EvaluationSound
    PROVE  Spec => []EvaluationsFollow
<1>1. FollowInv /\ [Next]_vars => FollowInv'
  BY FollowStep
<1> QED
  BY <1>1, FollowInit, FollowInvGivesResults, PTL DEF Spec

--------------------------------------------------------------------------------
(***************************************************************************)
(* Worlds whose variables stand for trees: they solve what their trees      *)
(* solve, and what they make true depends on the trees.                    *)
(***************************************************************************)
WorldsOfTrees ==
    \A w \in Worlds :
        /\ IsInterpretation(TreesOf(w))
        /\ \A b \in BindingSets : Solves(w, b) <=> SolvesBindings(TreesOf(w), b)
        /\ \A g, h \in Literals :
               SameTrees(TreesOf(w), g, TreesOf(w), h) => (Holds(w, g) <=> Holds(w, h))

(***************************************************************************)
(* The steps of Unifier::unify are sound: what they bind is solved only     *)
(* where the bindings they were given are, and goal and clause are the same. *)
(***************************************************************************)
THEOREM UnifyingByStepsIsSound ==
    ASSUME OverTerms, UnifiesBySteps, WorldsOfTrees
    PROVE  UnifierSound
<1> SUFFICES ASSUME NEW goal \in Literals, NEW fact \in Literals,
                    NEW b \in BindingSets, NEW c \in BindingSets, NEW w \in Worlds,
                    Unify(goal, fact, b) = <<c>>, Solves(w, c)
             PROVE  Solves(w, b) /\ (Holds(w, goal) <=> Holds(w, fact))
  BY DEF UnifierSound
<1> DEFINE I == TreesOf(w)
<1>1. /\ HasTerms(goal) /\ HasTerms(fact) /\ b \in BindingSet
      /\ UnifyReturns(goal, fact, b, <<c>>)
  BY DEF OverTerms, AcyclicBindings, UnifiesBySteps
<1>2. IsInterpretation(I) /\ SolvesBindings(I, c)
  BY DEF WorldsOfTrees
<1> HIDE DEF I
<1>3. <<c>> # << >> /\ \A d : <<c>> = <<d>> => c = d
  OBVIOUS
<1>4. SolvesBindings(I, b) /\ Unifies(I, goal, fact)
  BY <1>1, <1>2, <1>3, UnifyReturnsUnifier
<1>5. SameTrees(I, goal, I, fact)
  BY <1>4 DEF Unifies, SameSignature, SameTrees
<1> QED
  BY <1>4, <1>5 DEF WorldsOfTrees, I

================================================================================
