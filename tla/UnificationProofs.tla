--------------------------- MODULE UnificationProofs ---------------------------
(***************************************************************************)
(* Theorems about Unification, for every universe of terms, every set of    *)
(* literals, every set of interpretations and every number of calls; and    *)
(* that Unification implements ConstraintStore.                            *)
(***************************************************************************)
EXTENDS UnificationRefinement, UnifierProofs

(* The actions are the steps of UnifierSteps. *)

GoingOn == Matches \/ FollowsVar \/ FollowsOther \/ Binds \/ Decomposes

Failing == FailsOccurs \/ Clashes

LEMMA GoingOnStep ==
    GoingOn => /\ pc = "unify" /\ UNCHANGED <<held, goal, fact, pc, result, accepted, calls>>
               /\ GoesOn(pending, bindings, pending', bindings')
BY DEF GoingOn, Matches, FollowsVar, FollowsOther, Binds, Decomposes, Running, GoesOn

LEMMA FailingStep ==
    Failing => /\ pc = "unify" /\ pc' = "idle" /\ result' = "nullopt"
               /\ pending' = << >> /\ bindings' = held
               /\ UNCHANGED <<held, goal, fact, accepted, calls>>
               /\ Fails(pending, bindings)
BY DEF Failing, FailsOccurs, Clashes, ReturnNullopt, Fails

LEMMA NextSteps ==
    [Next]_vars =>
        \/ \E g, f \in Literals : Call(g, f)
        \/ GoingOn \/ Failing \/ Return \/ UNCHANGED vars
BY DEF Next, Step, GoingOn, Failing

LEMMA LiteralTerms == \A l \in Literals : HasTerms(l)
BY LiteralsAssumption DEF HasTerms

--------------------------------------------------------------------------------
(* Type correctness *)

LEMMA TypeInit == Init => TypeOK
<1> SUFFICES ASSUME Init PROVE TypeOK
  OBVIOUS
<1>1. AnyLiteral \in Literals
  BY LiteralsAssumption DEF AnyLiteral
<1>2. << >> \in Seq(Universe \X Universe)
  OBVIOUS
<1> QED
  BY <1>1, <1>2, NoBindingsType, MaxCallsAssumption DEF Init, TypeOK

LEMMA TypeStep == TypeOK /\ [Next]_vars => TypeOK'
<1> SUFFICES ASSUME TypeOK, [Next]_vars PROVE TypeOK'
  OBVIOUS
<1>1. ASSUME NEW g \in Literals, NEW f \in Literals, Call(g, f) PROVE TypeOK'
  <2>1. calls' \in 0..MaxCalls
    BY <1>1, MaxCallsAssumption DEF Call, TypeOK
  <2>2. CASE SameSignature(g, f)
    <3>1. Pairs(g.terms, f.terms) \in Seq(Universe \X Universe)
      BY <2>2, PairsType, LiteralsAssumption DEF SameSignature
    <3> QED
      BY <1>1, <2>1, <2>2, <3>1 DEF Call, TypeOK, SameSignature
  <2>3. CASE ~SameSignature(g, f)
    BY <1>1, <2>1, <2>3 DEF Call, TypeOK
  <2> QED
    BY <2>2, <2>3
<1>2. CASE GoingOn
  <2>1. pending' \in Seq(Universe \X Universe) /\ bindings' \in BindingSet
    BY <1>2, GoingOnStep, StepTypes DEF TypeOK, IsPending
  <2> QED
    BY <1>2, <2>1, GoingOnStep DEF TypeOK, SameSignature
<1>3. CASE Failing
  <2>1. << >> \in Seq(Universe \X Universe)
    OBVIOUS
  <2> QED
    BY <1>3, <2>1, FailingStep DEF TypeOK
<1>4. CASE Return
  BY <1>4 DEF Return, TypeOK
<1>5. CASE UNCHANGED vars
  BY <1>5 DEF vars, TypeOK
<1> QED
  BY <1>1, <1>2, <1>3, <1>4, <1>5, NextSteps

(***************************************************************************)
(* Every run of Unifier::unify keeps the variables in their types.          *)
(***************************************************************************)
THEOREM TypeCorrect == Spec => []TypeOK
BY TypeInit, TypeStep, PTL DEF Spec

--------------------------------------------------------------------------------
(* The bindings stay acyclic *)

LEMMA AcyclicInit == Init => BindingsAcyclic
BY NoBindingsType DEF Init, BindingsAcyclic, Acyclic

LEMMA AcyclicStep == TypeOK /\ BindingsAcyclic /\ [Next]_vars => BindingsAcyclic'
<1> SUFFICES ASSUME TypeOK, BindingsAcyclic, [Next]_vars PROVE BindingsAcyclic'
  OBVIOUS
<1>1. ASSUME NEW g \in Literals, NEW f \in Literals, Call(g, f) PROVE BindingsAcyclic'
  BY <1>1 DEF Call, BindingsAcyclic, Acyclic
<1>2. CASE GoingOn
  <2>1. Acyclic(bindings')
    BY <1>2, GoingOnStep, StepAcyclic DEF TypeOK, IsPending, BindingsAcyclic
  <2> QED
    BY <1>2, <2>1, GoingOnStep DEF BindingsAcyclic, Acyclic
<1>3. CASE Failing
  BY <1>3, FailingStep DEF BindingsAcyclic, Acyclic
<1>4. CASE Return
  BY <1>4 DEF Return, BindingsAcyclic, Acyclic
<1>5. CASE UNCHANGED vars
  BY <1>5 DEF vars, BindingsAcyclic, Acyclic
<1> QED
  BY <1>1, <1>2, <1>3, <1>4, <1>5, NextSteps

(***************************************************************************)
(* Neither the caller's bindings nor those under construction ever lead     *)
(* from a variable back to itself, so resolveTerm and occursCheck, which    *)
(* follow them, come to an end.                                            *)
(***************************************************************************)
THEOREM AlwaysAcyclic == Spec => []BindingsAcyclic
BY TypeInit, TypeStep, AcyclicInit, AcyclicStep, PTL DEF Spec

--------------------------------------------------------------------------------
(* No binding is overwritten *)

(***************************************************************************)
(* While a call runs, the set it builds extends the caller's; between calls *)
(* `bindings' is not used.                                                 *)
(***************************************************************************)
ExtendsHeld ==
    pc = "unify" => \A v \in DOMAIN held : v \in DOMAIN bindings /\ bindings[v] = held[v]

LEMMA ExtendsStep == TypeOK /\ ExtendsHeld /\ [Next]_vars => ExtendsHeld'
<1> SUFFICES ASSUME TypeOK, ExtendsHeld, [Next]_vars PROVE ExtendsHeld'
  OBVIOUS
<1>1. ASSUME NEW g \in Literals, NEW f \in Literals, Call(g, f) PROVE ExtendsHeld'
  BY <1>1 DEF Call, ExtendsHeld
<1>2. CASE GoingOn
  <2>1. \A v \in DOMAIN bindings : v \in DOMAIN bindings' /\ bindings'[v] = bindings[v]
    BY <1>2, GoingOnStep, StepExtends
  <2> QED
    BY <1>2, <2>1, GoingOnStep DEF ExtendsHeld
<1>3. CASE Failing \/ Return
  BY <1>3, FailingStep DEF Return, ExtendsHeld
<1>4. CASE UNCHANGED vars
  BY <1>4 DEF vars, ExtendsHeld
<1> QED
  BY <1>1, <1>2, <1>3, <1>4, NextSteps

(* Only a call that succeeds changes what the caller holds. *)
LEMMA OnlyReturnChanges == [Next]_vars => Return \/ held' = held
BY NextSteps, GoingOnStep, FailingStep DEF Call, vars

(***************************************************************************)
(* A successful call only adds bindings to the caller's set.               *)
(***************************************************************************)
THEOREM NeverOverwritten == Spec => BindingsOnlyGrow
<1> DEFINE Grow == \A v \in DOMAIN held : v \in DOMAIN held' /\ held'[v] = held[v]
<1>1. Init => ExtendsHeld
  BY DEF Init, ExtendsHeld
<1>2. ExtendsHeld /\ [Next]_vars => [Grow]_vars
  <2> SUFFICES ASSUME ExtendsHeld, Next PROVE Grow
    OBVIOUS
  <2>1. CASE Return
    BY <2>1 DEF Return, ExtendsHeld
  <2>2. CASE held' = held
    BY <2>2
  <2> QED
    BY <2>1, <2>2, OnlyReturnChanges
<1> QED
  BY TypeInit, TypeStep, <1>1, ExtendsStep, <1>2, PTL DEF Spec, BindingsOnlyGrow

--------------------------------------------------------------------------------
(* What is at hand while a call runs lies within what the call was given. *)

StaysWithin ==
    pc = "unify" => \A C \in SUBSET Universe :
                        ArgsClosed(C) /\ Given(C) => InHand(pending, bindings, C)

LEMMA WithinStep == TypeOK /\ StaysWithin /\ [Next]_vars => StaysWithin'
<1> SUFFICES ASSUME TypeOK, StaysWithin, [Next]_vars, pc' = "unify",
                    NEW C \in SUBSET Universe, ArgsClosed(C), Given(C)'
             PROVE  InHand(pending', bindings', C)
  BY DEF StaysWithin, InHand, BindsWithin, PairsWithin
<1>1. ASSUME NEW g \in Literals, NEW f \in Literals, Call(g, f)
      PROVE  InHand(pending', bindings', C)
  <2>1. /\ SameSignature(g, f) /\ pending' = Pairs(g.terms, f.terms)
        /\ bindings' = held /\ held' = held /\ goal' = g /\ fact' = f
    BY <1>1 DEF Call
  <2>2. TermsWithin(g, C) /\ TermsWithin(f, C) /\ BindsWithin(bindings', C)
    BY <2>1 DEF Given, TermsWithin, BindsWithin
  <2>3. PairsWithin(Pairs(g.terms, f.terms), C)
    BY <2>1, <2>2, CallStarts, LiteralTerms DEF TypeOK
  <2> QED
    BY <2>1, <2>2, <2>3 DEF InHand
<1>2. CASE GoingOn
  <2>1. Given(C) /\ pc = "unify"
    BY <1>2, GoingOnStep DEF Given, BindsWithin, TermsWithin
  <2>2. InHand(pending, bindings, C)
    BY <2>1 DEF StaysWithin
  <2> QED
    BY <1>2, <2>2, GoingOnStep, StepWithin DEF TypeOK, IsPending
<1>3. CASE Failing \/ Return
  BY <1>3, FailingStep DEF Return
<1>4. CASE UNCHANGED vars
  <2>1. Given(C) /\ pc = "unify"
    BY <1>4 DEF Given, BindsWithin, TermsWithin, vars
  <2> QED
    BY <1>4, <2>1 DEF StaysWithin, vars
<1> QED
  BY <1>1, <1>2, <1>3, <1>4, NextSteps

(***************************************************************************)
(* A call makes no term and draws no name: what it adds to the caller's     *)
(* bindings is found in them and in the two literals.                      *)
(***************************************************************************)
THEOREM AlwaysKeepsToTheGiven == Spec => KeepsToTheGiven
<1> DEFINE Keeps == \A C \in SUBSET Universe :
                        ArgsClosed(C) /\ Given(C) => BindsWithin(held', C)
<1>1. Init => StaysWithin
  BY DEF Init, StaysWithin
<1>2. StaysWithin /\ [Next]_vars => [Keeps]_vars
  <2> SUFFICES ASSUME StaysWithin, Next, NEW C \in SUBSET Universe, ArgsClosed(C), Given(C)
               PROVE  BindsWithin(held', C)
    OBVIOUS
  <2>1. CASE Return
    BY <2>1 DEF Return, StaysWithin, InHand
  <2>2. CASE held' = held
    BY <2>2 DEF Given
  <2> QED
    BY <2>1, <2>2, OnlyReturnChanges
<1> QED
  BY <1>1, <1>2, TypeInit, TypeStep, WithinStep, PTL DEF Spec, KeepsToTheGiven

--------------------------------------------------------------------------------
(* Unifiers are most general and nullopt is right *)

SolutionInv == SolutionsPreserved /\ MostGeneral /\ NulloptIsRight

LEMMA SolutionInit == Init => SolutionInv
BY NoBindingsType
   DEF Init, SolutionInv, SolutionsPreserved, MostGeneral, NulloptIsRight, SolvesBindings

(* An activation that returns nullopt closes a call that has no answer. *)
LEMMA FailingIsRight ==
    ASSUME TypeOK, SolutionsPreserved, Failing, NEW I \in Interp
    PROVE  ~(SolvesBindings(I, held) /\ Unifies(I, goal, fact))
BY FailingStep, FailureHasNoSolution, InterpAssumption
   DEF SolutionsPreserved, TypeOK, IsPending

(* The bindings of a call that succeeds are a most general answer to it. *)
LEMMA ReturnIsRight ==
    ASSUME SolutionsPreserved, Return, NEW I \in Interp
    PROVE  SolvesBindings(I, bindings) <=> SolvesBindings(I, held) /\ Unifies(I, goal, fact)
BY DEF Return, SolutionsPreserved, SolvesPairs

LEMMA SolutionStep == TypeOK /\ SolutionInv /\ [Next]_vars => SolutionInv'
<1> SUFFICES ASSUME TypeOK, SolutionInv, [Next]_vars PROVE SolutionInv'
  OBVIOUS
<1> USE DEF SolutionInv
<1>1. ASSUME NEW g \in Literals, NEW f \in Literals, Call(g, f) PROVE SolutionInv'
  <2>1. UNCHANGED <<held, accepted>> /\ goal' = g /\ fact' = f /\ pc = "idle"
    BY <1>1 DEF Call
  <2>2. MostGeneral'
    BY <2>1 DEF MostGeneral, SolvesBindings, Unifies
  <2>3. CASE SameSignature(g, f)
    <3>1. pending' = Pairs(g.terms, f.terms) /\ bindings' = held /\ result' = "none"
      BY <1>1, <2>3 DEF Call
    <3>2. \A I : SolvesPairs(I, Pairs(g.terms, f.terms)) <=> Unifies(I, g, f)
      BY <2>3, CallStarts, LiteralTerms DEF TypeOK
    <3> QED
      BY <2>1, <2>2, <3>1, <3>2 DEF SolutionsPreserved, NulloptIsRight, SolvesBindings,
                                   SolvesPairs, Unifies
  <2>4. CASE ~SameSignature(g, f)
    <3>1. pc' = "idle"
      BY <1>1, <2>4 DEF Call
    <3>2. \A I : ~Unifies(I, g, f)
      BY <2>4 DEF Unifies
    <3> QED
      BY <2>1, <2>2, <3>1, <3>2 DEF SolutionsPreserved, NulloptIsRight, Unifies
  <2> QED
    BY <2>3, <2>4
<1>2. CASE GoingOn
  <2>1. MostGeneral' /\ NulloptIsRight'
    BY <1>2, GoingOnStep DEF MostGeneral, NulloptIsRight, SolvesBindings, Unifies
  <2>2. ASSUME NEW I \in Interp
        PROVE  SolvesBindings(I, bindings) /\ SolvesPairs(I, pending)
                   <=> SolvesBindings(I, bindings') /\ SolvesPairs(I, pending')
    BY <1>2, GoingOnStep, StepSolutions, InterpAssumption DEF TypeOK, IsPending
  <2>3. SolutionsPreserved'
    BY <1>2, <2>2, GoingOnStep DEF SolutionsPreserved, SolvesBindings, SolvesPairs, Unifies
  <2> QED
    BY <2>1, <2>3
<1>3. CASE Failing
  <2>1. MostGeneral' /\ SolutionsPreserved'
    BY <1>3, FailingStep DEF MostGeneral, SolutionsPreserved, SolvesBindings, Unifies
  <2>2. NulloptIsRight'
    BY <1>3, FailingStep, FailingIsRight DEF NulloptIsRight, SolvesBindings, Unifies
  <2> QED
    BY <2>1, <2>2
<1>4. CASE Return
  <2>1. /\ UNCHANGED <<goal, fact>>
        /\ pc = "unify" /\ pc' = "idle" /\ result' = "bindings"
        /\ held' = bindings
        /\ accepted' = accepted \cup {<<goal, fact>>}
    BY <1>4 DEF Return
  <2>2. ASSUME NEW I \in Interp
        PROVE  SolvesBindings(I, bindings) <=> \A e \in accepted' : Unifies(I, e[1], e[2])
    <3>1. <<goal, fact>>[1] = goal /\ <<goal, fact>>[2] = fact
      OBVIOUS
    <3>2. (\A e \in accepted' : Unifies(I, e[1], e[2]))
              <=> (\A e \in accepted : Unifies(I, e[1], e[2])) /\ Unifies(I, goal, fact)
      BY <2>1, <3>1, Zenon
    <3>3. SolvesBindings(I, held) <=> \A e \in accepted : Unifies(I, e[1], e[2])
      BY DEF MostGeneral
    <3> QED
      BY <1>4, <3>2, <3>3, ReturnIsRight
  <2>3. MostGeneral'
    BY <2>1, <2>2 DEF MostGeneral, SolvesBindings
  <2> QED
    BY <2>1, <2>3 DEF SolutionsPreserved, NulloptIsRight
<1>5. CASE UNCHANGED vars
  BY <1>5 DEF vars, SolutionsPreserved, MostGeneral, NulloptIsRight, SolvesBindings,
              SolvesPairs, Unifies
<1> QED
  BY <1>1, <1>2, <1>3, <1>4, <1>5, NextSteps

(***************************************************************************)
(* While a call runs, the bindings and the pairs left have exactly the      *)
(* solutions of the question that was asked.                                *)
(***************************************************************************)
THEOREM NoSolutionLostOrAdmitted == Spec => []SolutionsPreserved
BY TypeInit, TypeStep, SolutionInit, SolutionStep, PTL DEF Spec, SolutionInv

(***************************************************************************)
(* The bindings a derivation holds are a most general unifier of all the    *)
(* goal-fact pairs it has unified.                                         *)
(***************************************************************************)
THEOREM UnifierMostGeneral == Spec => []MostGeneral
BY TypeInit, TypeStep, SolutionInit, SolutionStep, PTL DEF Spec, SolutionInv

(***************************************************************************)
(* Unifier::unify answers nullopt only if there is nothing to unify.        *)
(***************************************************************************)
THEOREM NulloptJustified == Spec => []NulloptIsRight
BY TypeInit, TypeStep, SolutionInit, SolutionStep, PTL DEF Spec, SolutionInv

--------------------------------------------------------------------------------
(* The machine and the call as a relation *)

(***************************************************************************)
(* A call that runs has come, by steps, from what it was given.             *)
(***************************************************************************)
UnderWay ==
    pc = "unify" => LeadsTo(<<Pairs(goal.terms, fact.terms), held>>, <<pending, bindings>>)

LEMMA UnderWayStep == TypeOK /\ UnderWay /\ [Next]_vars => UnderWay'
<1> SUFFICES ASSUME TypeOK, UnderWay, [Next]_vars, pc' = "unify"
             PROVE  LeadsTo(<<Pairs(goal'.terms, fact'.terms), held'>>, <<pending', bindings'>>)
  BY DEF UnderWay
<1>1. ASSUME NEW g \in Literals, NEW f \in Literals, Call(g, f)
      PROVE  LeadsTo(<<Pairs(goal'.terms, fact'.terms), held'>>, <<pending', bindings'>>)
  <2>1. /\ SameSignature(g, f) /\ pending' = Pairs(g.terms, f.terms)
        /\ bindings' = held /\ held' = held /\ goal' = g /\ fact' = f
    BY <1>1 DEF Call
  <2>2. <<Pairs(g.terms, f.terms), held>> \in Configurations
    BY <2>1, CallStarts, LiteralTerms DEF TypeOK
  <2> QED
    BY <2>1, <2>2, LeadsFromItself
<1>2. CASE GoingOn
  <2> DEFINE s == <<Pairs(goal.terms, fact.terms), held>>
             e == <<pending, bindings>>
             n == <<pending', bindings'>>
  <2>1. LeadsTo(s, e) /\ GoesOn(pending, bindings, pending', bindings')
    BY <1>2, GoingOnStep DEF UnderWay
  <2>2. n \in Configurations
    <3>1. IsPending(pending') /\ bindings' \in BindingSet
      BY <2>1, StepTypes DEF TypeOK, IsPending
    <3> QED
      BY <3>1 DEF Configurations, IsPending
  <2>3. e[1] = pending /\ e[2] = bindings /\ n[1] = pending' /\ n[2] = bindings'
    OBVIOUS
  <2>4. UNCHANGED <<goal, fact, held>>
    BY <1>2, GoingOnStep
  <2> HIDE DEF s, e, n
  <2>5. LeadsTo(s, n)
    BY <2>1, <2>2, <2>3, LeadsOn
  <2> QED
    BY <2>4, <2>5 DEF s, n
<1>3. CASE Failing \/ Return
  BY <1>3, FailingStep DEF Return
<1>4. CASE UNCHANGED vars
  BY <1>4 DEF UnderWay, vars
<1> QED
  BY <1>1, <1>2, <1>3, <1>4, NextSteps

(***************************************************************************)
(* A step that leaves the machine idle ends a call; it returns what         *)
(* UnifyReturns says, given the bindings of the caller.                    *)
(***************************************************************************)
ReturnsAsTheRelation ==
    [][pc' = "idle" =>
           UnifyReturns(goal', fact', held, IF result' = "bindings" THEN <<held'>> ELSE << >>)]_vars

LEMMA ReturnsStep ==
    ASSUME TypeOK, UnderWay, Next, pc' = "idle"
    PROVE  UnifyReturns(goal', fact', held, IF result' = "bindings" THEN <<held'>> ELSE << >>)
<1> DEFINE s == <<Pairs(goal.terms, fact.terms), held>>
           e == <<pending, bindings>>
<1>1. e \in Configurations /\ e[1] = pending /\ e[2] = bindings
  BY DEF Configurations, TypeOK
<1>2. pc = "unify" => LeadsTo(s, e) /\ SameSignature(goal, fact)
  BY DEF UnderWay, TypeOK
<1> HIDE DEF e
<1>3. ASSUME NEW g \in Literals, NEW f \in Literals, Call(g, f)
      PROVE  UnifyReturns(goal', fact', held, IF result' = "bindings" THEN <<held'>> ELSE << >>)
  <2>1. ~SameSignature(g, f) /\ goal' = g /\ fact' = f /\ result' = "nullopt"
    BY <1>3 DEF Call
  <2> QED
    BY <2>1 DEF UnifyReturns
<1>4. CASE Failing
  <2>1. UnifyReturns(goal, fact, held, << >>)
    BY <1>1, <1>2, <1>4, FailingStep DEF UnifyReturns
  <2> QED
    BY <1>4, <2>1, FailingStep
<1>5. CASE Return
  <2>1. /\ pending = << >> /\ pc = "unify" /\ result' = "bindings" /\ held' = bindings
        /\ UNCHANGED <<goal, fact>>
    BY <1>5 DEF Return
  <2>2. UnifyReturns(goal, fact, held, <<bindings>>)
    BY <1>1, <1>2, <2>1 DEF UnifyReturns
  <2> QED
    BY <2>1, <2>2
<1>6. CASE GoingOn
  BY <1>6, GoingOnStep
<1>7. Next => (\E g, f \in Literals : Call(g, f)) \/ GoingOn \/ Failing \/ Return
  BY DEF Next, Step, GoingOn, Failing
<1> QED
  BY <1>3, <1>4, <1>5, <1>6, <1>7

(***************************************************************************)
(* The relation UnifyReturns, which the evaluator's theorems speak of, is   *)
(* what the machine does: every call that ends returns what it relates to   *)
(* the goal, the fact and the bindings of the caller.                       *)
(***************************************************************************)
THEOREM MachineReturnsAsTheRelation == Spec => ReturnsAsTheRelation
<1> DEFINE Returns ==
        pc' = "idle" =>
            UnifyReturns(goal', fact', held, IF result' = "bindings" THEN <<held'>> ELSE << >>)
<1>1. Init => UnderWay
  BY DEF Init, UnderWay
<1>2. TypeOK /\ UnderWay /\ [Next]_vars => [Returns]_vars
  BY ReturnsStep
<1> QED
  BY <1>1, <1>2, TypeInit, TypeStep, UnderWayStep, PTL DEF Spec, ReturnsAsTheRelation

(***************************************************************************)
(* A call that returns bindings makes its goal and its fact alike: whatever  *)
(* resolves terms under the returned bindings turns both into one literal   *)
(* without bound variables.                                                *)
(***************************************************************************)
ReturnsMakeAlike ==
    [][pc' = "idle" /\ result' = "bindings" =>
           \A new : Resolves(new, held') => MadeAlike(new, goal', fact', held')]_vars

THEOREM ReturnedBindingsMakeAlike ==
    ASSUME ToldByParts, NEW J, IsInterpretation(J)
    PROVE  Spec => ReturnsMakeAlike
<1> DEFINE Alike ==
        pc' = "idle" /\ result' = "bindings" =>
            \A new : Resolves(new, held') => MadeAlike(new, goal', fact', held')
<1>1. ASSUME TypeOK, BindingsAcyclic, UnderWay, Next, pc' = "idle", result' = "bindings",
             NEW new, Resolves(new, held')
      PROVE  MadeAlike(new, goal', fact', held')
  <2>1. UnifyReturns(goal', fact', held, <<held'>>)
    BY <1>1, ReturnsStep
  <2>2. TypeOK'
    BY <1>1, TypeStep
  <2>3. HasTerms(goal') /\ HasTerms(fact') /\ held' \in BindingSet
    BY <2>2, LiteralTerms DEF TypeOK
  <2>4. held \in BindingSet /\ Acyclic(held)
    BY <1>1 DEF TypeOK, BindingsAcyclic
  <2> QED
    BY <1>1, <2>1, <2>3, <2>4, UnifierMakesAlike
<1>2. TypeOK /\ BindingsAcyclic /\ UnderWay /\ [Next]_vars => [Alike]_vars
  BY <1>1
<1>3. Init => UnderWay
  BY DEF Init, UnderWay
<1> QED
  BY <1>2, <1>3, TypeInit, TypeStep, AcyclicInit, AcyclicStep, UnderWayStep, PTL
     DEF Spec, ReturnsMakeAlike

--------------------------------------------------------------------------------
(* The refinement *)

LEMMA StoreStart == Init => Store!StoreInit
<1> SUFFICES ASSUME Init PROVE Store!StoreInit
  OBVIOUS
<1>1. WorldsLeft = Interp
  BY NoBindingsType DEF Init, WorldsLeft, SolvesBindings
<1>2. AnyLiteral \in Literals
  BY LiteralsAssumption DEF AnyLiteral
<1> QED
  BY <1>1, <1>2 DEF Init, Store!StoreInit

(***************************************************************************)
(* A call opens a question, or refuses one that no world answers.           *)
(***************************************************************************)
LEMMA CallAsks ==
    ASSUME NEW g \in Literals, NEW f \in Literals, Call(g, f)
    PROVE  Store!StoreNext
<1> DEFINE q == <<g, f>>
<1>1. /\ pc = "idle" /\ <<goal, fact>>' = q /\ q \in Literals \X Literals
      /\ held' = held
  BY DEF Call
<1>2. WorldsLeft' = WorldsLeft
  BY <1>1 DEF WorldsLeft, SolvesBindings
<1>3. CASE SameSignature(g, f)
  <2>1. pc' = "unify" /\ result' = "none"
    BY <1>3 DEF Call
  <2>2. Store!Ask
    BY <1>1, <1>2, <2>1 DEF Store!Ask
  <2> QED
    BY <1>1, <2>2 DEF Store!StoreNext
<1>4. CASE ~SameSignature(g, f)
  <2>1. pc' = pc /\ result' = "nullopt"
    BY <1>4 DEF Call
  <2>2. ~Store!Possible(<<goal, fact>>')
    BY <1>1, <1>2, <1>4 DEF Store!Possible, HoldsIn, Unifies
  <2>3. Store!RefuseAtOnce
    BY <1>1, <1>2, <2>1, <2>2 DEF Store!RefuseAtOnce
  <2> QED
    BY <1>1, <2>3 DEF Store!StoreNext
<1> QED
  BY <1>3, <1>4

(* What happens inside a call cannot be seen. *)
LEMMA InsideUnseen ==
    ASSUME GoingOn PROVE UNCHANGED Store!storeVars
<1>1. WorldsLeft' = WorldsLeft
  BY GoingOnStep DEF WorldsLeft, SolvesBindings
<1> QED
  BY <1>1, GoingOnStep DEF Store!storeVars

LEMMA FailureRefuses ==
    ASSUME TypeOK, SolutionInv, Failing
    PROVE  Store!Refuse
<1>1. WorldsLeft' = WorldsLeft
  BY FailingStep DEF WorldsLeft, SolvesBindings
<1>2. ~Store!Possible(<<goal, fact>>)
  BY FailingIsRight DEF SolutionInv, Store!Possible, HoldsIn, WorldsLeft
<1> QED
  BY <1>1, <1>2, FailingStep DEF Store!Refuse

LEMMA SuccessAccepts ==
    ASSUME SolutionInv, Return
    PROVE  Store!Accept
<1>1. /\ UNCHANGED <<goal, fact>>
      /\ pc = "unify" /\ pc' = "idle" /\ result' = "bindings" /\ held' = bindings
  BY DEF Return
<1>2. WorldsLeft' = {I \in Interp : SolvesBindings(I, bindings)}
  BY <1>1 DEF WorldsLeft, SolvesBindings
<1>3. WorldsLeft' = {I \in WorldsLeft : HoldsIn(I, <<goal, fact>>)}
  BY <1>2, ReturnIsRight DEF WorldsLeft, HoldsIn, SolutionInv
<1> QED
  BY <1>1, <1>3 DEF Store!Accept

LEMMA StoreStep == TypeOK /\ SolutionInv /\ [Next]_vars => [Store!StoreNext]_(Store!storeVars)
<1> SUFFICES ASSUME TypeOK, SolutionInv, [Next]_vars
             PROVE  [Store!StoreNext]_(Store!storeVars)
  OBVIOUS
<1>1. ASSUME NEW g \in Literals, NEW f \in Literals, Call(g, f) PROVE Store!StoreNext
  BY <1>1, CallAsks
<1>2. CASE GoingOn
  BY <1>2, InsideUnseen
<1>3. CASE Failing
  BY <1>3, FailureRefuses DEF Store!StoreNext
<1>4. CASE Return
  BY <1>4, SuccessAccepts DEF Store!StoreNext
<1>5. CASE UNCHANGED vars
  <2>1. UNCHANGED <<held, goal, fact, pc, result>>
    BY <1>5 DEF vars
  <2>2. WorldsLeft' = WorldsLeft
    BY <2>1 DEF WorldsLeft, SolvesBindings
  <2> QED
    BY <2>1, <2>2 DEF Store!storeVars
<1> QED
  BY <1>1, <1>2, <1>3, <1>4, <1>5, NextSteps

(***************************************************************************)
(* Unifier::unify, called any number of times along a derivation, keeps     *)
(* exactly the solutions a constraint store would, and refuses only what    *)
(* such a store may refuse.                                                *)
(***************************************************************************)
THEOREM UnificationImplementsStore == Spec => ImplementsStore
<1>1. Spec => [](TypeOK /\ SolutionInv)
  BY TypeInit, TypeStep, SolutionInit, SolutionStep, PTL DEF Spec
<1> QED
  BY <1>1, StoreStart, StoreStep, PTL DEF Spec, ImplementsStore, Store!StoreSpec

================================================================================
