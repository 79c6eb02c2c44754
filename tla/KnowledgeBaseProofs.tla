-------------------------- MODULE KnowledgeBaseProofs --------------------------
(***************************************************************************)
(* Theorems about KnowledgeBase, for all clauses, all queries, any depth of *)
(* the C++ stack and whatever unification, printing and renaming do; and    *)
(* that nothing is captured and only repetitions are cut off, for all       *)
(* clauses and queries whose variables are not named as the renaming would. *)
(***************************************************************************)
EXTENDS Scoping, UnifierProofs

--------------------------------------------------------------------------------
(* Lemmas about stacks: nothing is known of what the frames hold. *)

IsSequence(s) == s \in Seq({s[i] : i \in DOMAIN s})

StackOK(s, n) == IsSequence(s) /\ \A i \in DOMAIN s : FrameOK(s[i], n)

LEMMA EmptyStack == ASSUME NEW n PROVE StackOK(<< >>, n) /\ GoalFrames(<< >>) = {}
BY DEF StackOK, IsSequence, GoalFrames

LEMMA StackBasics ==
    ASSUME NEW s, IsSequence(s)
    PROVE  /\ Len(s) \in Nat /\ DOMAIN s = 1..Len(s)
           /\ s # << >> => Len(s) \in DOMAIN s
BY DEF IsSequence

LEMMA AnySequence ==
    ASSUME NEW S, NEW s \in Seq(S)
    PROVE  IsSequence(s)
<1>1. /\ Len(s) \in Nat /\ DOMAIN s = 1..Len(s)
      /\ s = [i \in 1..Len(s) |-> s[i]]
  OBVIOUS
<1>2. s \in [1..Len(s) -> {s[i] : i \in DOMAIN s}]
  BY <1>1
<1> QED
  BY <1>1, <1>2 DEF IsSequence

LEMMA AppendFacts ==
    ASSUME NEW s, IsSequence(s), NEW e
    PROVE  /\ IsSequence(Append(s, e))
           /\ Len(Append(s, e)) = Len(s) + 1
           /\ \A i \in DOMAIN s : Append(s, e)[i] = s[i]
           /\ Append(s, e)[Len(s) + 1] = e
<1> DEFINE S == {s[i] : i \in DOMAIN s} \cup {e}
<1>1. s \in Seq(S) /\ e \in S
  BY DEF IsSequence
<1> HIDE DEF S
<1>2. /\ Append(s, e) \in Seq(S) /\ Len(Append(s, e)) = Len(s) + 1
      /\ \A i \in DOMAIN s : Append(s, e)[i] = s[i]
      /\ Append(s, e)[Len(s) + 1] = e
  BY <1>1
<1>3. IsSequence(Append(s, e))
  BY <1>2, AnySequence
<1> QED
  BY <1>2, <1>3

LEMMA PopFacts ==
    ASSUME NEW s, IsSequence(s), s # << >>
    PROVE  /\ IsSequence(SubSeq(s, 1, Len(s) - 1))
           /\ Len(SubSeq(s, 1, Len(s) - 1)) = Len(s) - 1
           /\ \A i \in 1..(Len(s) - 1) : SubSeq(s, 1, Len(s) - 1)[i] = s[i]
<1> DEFINE S == {s[i] : i \in DOMAIN s}
           p == SubSeq(s, 1, Len(s) - 1)
<1>1. s \in Seq(S)
  BY DEF IsSequence
<1> HIDE DEF S
<1>0. Len(s) \in Nat /\ Len(s) >= 1 /\ DOMAIN s = 1..Len(s)
  BY <1>1
<1>2. /\ p \in Seq(S) /\ Len(p) = Len(s) - 1
      /\ \A i \in 1..(Len(s) - 1) : p[i] = s[i]
  BY <1>0, <1>1
<1>3. IsSequence(p)
  BY <1>2, AnySequence
<1> QED
  BY <1>2, <1>3

LEMMA SetTopFacts ==
    ASSUME NEW s, IsSequence(s), s # << >>, NEW e
    PROVE  /\ IsSequence([s EXCEPT ![Len(s)] = e])
           /\ Len([s EXCEPT ![Len(s)] = e]) = Len(s)
           /\ [s EXCEPT ![Len(s)] = e][Len(s)] = e
           /\ \A i \in DOMAIN s : i # Len(s) => [s EXCEPT ![Len(s)] = e][i] = s[i]
<1> DEFINE S == {s[i] : i \in DOMAIN s} \cup {e}
           p == [s EXCEPT ![Len(s)] = e]
<1>1. s \in Seq(S) /\ e \in S /\ Len(s) \in DOMAIN s
  BY StackBasics DEF IsSequence
<1> HIDE DEF S
<1>2. /\ p \in Seq(S) /\ Len(p) = Len(s)
      /\ p[Len(s)] = e
      /\ \A i \in DOMAIN s : i # Len(s) => p[i] = s[i]
  BY <1>1
<1>3. IsSequence(p)
  BY <1>2, AnySequence
<1> QED
  BY <1>2, <1>3

--------------------------------------------------------------------------------
(* Lemmas about lists of goals and of results. *)

LEMMA EmptyIsSequence == IsSequence(<< >>)
BY DEF IsSequence

LEMMA OneIsSequence == ASSUME NEW c PROVE IsSequence(<<c>>)
<1>1. <<c>> \in Seq({c})
  OBVIOUS
<1> QED
  BY <1>1, AnySequence

LEMMA TailFacts ==
    ASSUME NEW s, IsSequence(s), s # << >>
    PROVE  /\ IsSequence(Tail(s))
           /\ Len(Tail(s)) = Len(s) - 1
           /\ \A i \in DOMAIN Tail(s) : i + 1 \in DOMAIN s /\ Tail(s)[i] = s[i + 1]
           /\ \A i \in DOMAIN s : i # 1 => i - 1 \in DOMAIN Tail(s) /\ Tail(s)[i - 1] = s[i]
           /\ 1 \in DOMAIN s
<1> DEFINE S == {s[i] : i \in DOMAIN s}
           t == Tail(s)
<1>1. s \in Seq(S)
  BY DEF IsSequence
<1> HIDE DEF S
<1>2. /\ t \in Seq(S) /\ Len(t) = Len(s) - 1 /\ Len(s) \in Nat /\ Len(s) >= 1
      /\ DOMAIN s = 1..Len(s) /\ DOMAIN t = 1..(Len(s) - 1)
      /\ \A i \in 1..(Len(s) - 1) : t[i] = s[i + 1]
  BY <1>1
<1>3. IsSequence(t)
  BY <1>2, AnySequence
<1> HIDE DEF t
<1>4. \A i \in DOMAIN t : i + 1 \in DOMAIN s /\ t[i] = s[i + 1]
  BY <1>2
<1>5. \A i \in DOMAIN s : i # 1 => i - 1 \in DOMAIN t /\ t[i - 1] = s[i]
  BY <1>2
<1> QED
  BY <1>2, <1>3, <1>4, <1>5 DEF t

LEMMA ConcatFacts ==
    ASSUME NEW s, NEW t, IsSequence(s), IsSequence(t)
    PROVE  /\ IsSequence(s \o t)
           /\ \A i \in DOMAIN (s \o t) : \/ i \in DOMAIN s /\ (s \o t)[i] = s[i]
                                         \/ \E j \in DOMAIN t : (s \o t)[i] = t[j]
<1> DEFINE S == {s[i] : i \in DOMAIN s} \cup {t[i] : i \in DOMAIN t}
           st == s \o t
<1>1. s \in Seq(S) /\ t \in Seq(S)
  <2>1. s \in Seq({s[i] : i \in DOMAIN s}) /\ t \in Seq({t[i] : i \in DOMAIN t})
    BY DEF IsSequence
  <2> QED
    BY <2>1
<1> HIDE DEF S
<1>2. /\ st \in Seq(S) /\ Len(st) = Len(s) + Len(t) /\ Len(s) \in Nat /\ Len(t) \in Nat
      /\ DOMAIN s = 1..Len(s) /\ DOMAIN t = 1..Len(t) /\ DOMAIN st = 1..(Len(s) + Len(t))
      /\ \A i \in 1..(Len(s) + Len(t)) : st[i] = IF i <= Len(s) THEN s[i] ELSE t[i - Len(s)]
  BY <1>1
<1>3. IsSequence(st)
  BY <1>2, AnySequence
<1> HIDE DEF st
<1>4. ASSUME NEW i \in DOMAIN st
      PROVE  (i \in DOMAIN s /\ st[i] = s[i]) \/ \E j \in DOMAIN t : st[i] = t[j]
  <2>1. CASE i <= Len(s)
    BY <1>2, <2>1
  <2>2. CASE ~(i <= Len(s))
    <3>1. i - Len(s) \in DOMAIN t /\ st[i] = t[i - Len(s)]
      BY <1>2, <2>2
    <3> QED
      BY <3>1
  <2> QED
    BY <2>1, <2>2
<1> QED
  BY <1>3, <1>4 DEF st

(* Nothing is lost when results are added to results. *)
Joined(s, t) == s \o t

LEMMA JoinedFacts ==
    ASSUME NEW s, NEW t, IsSequence(s), IsSequence(t)
    PROVE  /\ \A i \in DOMAIN s : i \in DOMAIN Joined(s, t) /\ Joined(s, t)[i] = s[i]
           /\ \A j \in DOMAIN t : \E i \in DOMAIN Joined(s, t) : Joined(s, t)[i] = t[j]
<1> DEFINE S == {s[i] : i \in DOMAIN s} \cup {t[i] : i \in DOMAIN t}
           st == s \o t
<1>1. s \in Seq(S) /\ t \in Seq(S)
  <2>1. s \in Seq({s[i] : i \in DOMAIN s}) /\ t \in Seq({t[i] : i \in DOMAIN t})
    BY DEF IsSequence
  <2> QED
    BY <2>1
<1> HIDE DEF S
<1>2. /\ st \in Seq(S) /\ Len(st) = Len(s) + Len(t) /\ Len(s) \in Nat /\ Len(t) \in Nat
      /\ DOMAIN s = 1..Len(s) /\ DOMAIN t = 1..Len(t) /\ DOMAIN st = 1..(Len(s) + Len(t))
      /\ \A i \in 1..(Len(s) + Len(t)) : st[i] = IF i <= Len(s) THEN s[i] ELSE t[i - Len(s)]
  BY <1>1
<1> HIDE DEF st
<1>3. \A i \in DOMAIN s : i \in DOMAIN st /\ st[i] = s[i]
  BY <1>2
<1>4. ASSUME NEW j \in DOMAIN t PROVE \E i \in DOMAIN st : st[i] = t[j]
  <2>1. Len(s) + j \in DOMAIN st /\ st[Len(s) + j] = t[j]
    BY <1>2
  <2> QED
    BY <2>1
<1>5. Joined(s, t) = st
  BY DEF Joined, st
<1> QED
  BY <1>3, <1>4, <1>5

--------------------------------------------------------------------------------
(* Lemmas about frames and what the guard makes of them. *)

LEMMA NewFrames ==
    ASSUME NEW n \in Nat, NEW g, NEW b, NEW k
    PROVE  /\ FrameOK(GoalFrame(g, b, k), n)
           /\ GoalFrame(g, b, k).fn = "evaluateGoal" /\ GoalFrame(g, b, k).key = k
           /\ FrameOK(ConjunctionFrame(g, b), n)
           /\ ConjunctionFrame(g, b).fn = "evaluateConjunction"
BY DEF FrameOK, GoalFrame, ConjunctionFrame

LEMMA GoalFrameUpdates ==
    ASSUME NEW n \in Nat, NEW f, FrameOK(f, n), f.fn = "evaluateGoal", NEW rs
    PROVE  /\ FrameOK([f EXCEPT !.results = rs], n)
           /\ [f EXCEPT !.results = rs].fn = f.fn /\ [f EXCEPT !.results = rs].key = f.key
           /\ FrameOK([f EXCEPT !.results = rs, !.fact = f.fact + 1], n)
           /\ [f EXCEPT !.results = rs, !.fact = f.fact + 1].fn = f.fn
           /\ [f EXCEPT !.results = rs, !.fact = f.fact + 1].key = f.key
           /\ f.next <= n => /\ FrameOK([f EXCEPT !.next = f.next + 1], n)
                             /\ [f EXCEPT !.next = f.next + 1].fn = f.fn
                             /\ [f EXCEPT !.next = f.next + 1].key = f.key
<1> DEFINE frame(results, fact, next) ==
               [fn |-> "evaluateGoal", goal |-> f.goal, bindings |-> f.bindings,
                key |-> f.key, results |-> results, fact |-> fact, next |-> next]
<1>1. f = frame(f.results, f.fact, f.next) /\ f.fact \in Nat \ {0} /\ f.next \in 1..(n + 1)
  BY DEF FrameOK
<1>2. [f EXCEPT !.results = rs] = frame(rs, f.fact, f.next)
  BY <1>1
<1>3. [f EXCEPT !.results = rs, !.fact = f.fact + 1] = frame(rs, f.fact + 1, f.next)
  <2> DEFINE g == [f EXCEPT !.results = rs]
  <2>1. g = frame(rs, f.fact, f.next)
    BY <1>1
  <2>2. [f EXCEPT !.results = rs, !.fact = f.fact + 1] = [g EXCEPT !.fact = f.fact + 1]
    OBVIOUS
  <2> HIDE DEF g
  <2> QED
    BY <2>1, <2>2
<1>4. [f EXCEPT !.next = f.next + 1] = frame(f.results, f.fact, f.next + 1)
  BY <1>1
<1> QED
  BY <1>1, <1>2, <1>3, <1>4 DEF FrameOK

LEMMA ConjunctionFrameUpdates ==
    ASSUME NEW n \in Nat, NEW f, FrameOK(f, n), f.fn = "evaluateConjunction", NEW rs, NEW c
    PROVE  /\ FrameOK([f EXCEPT !.results = rs], n)
           /\ [f EXCEPT !.results = rs].fn = f.fn
           /\ FrameOK([f EXCEPT !.todo = rs], n)
           /\ [f EXCEPT !.todo = rs].fn = f.fn
           /\ FrameOK([f EXCEPT !.at = c, !.todo = rs], n)
           /\ [f EXCEPT !.at = c, !.todo = rs].fn = f.fn
<1>1. f = [fn |-> "evaluateConjunction", goals |-> f.goals, bindings |-> f.bindings,
           at |-> f.at, todo |-> f.todo, results |-> f.results]
  BY DEF FrameOK
<1>2. [f EXCEPT !.results = rs]
          = [fn |-> "evaluateConjunction", goals |-> f.goals, bindings |-> f.bindings,
             at |-> f.at, todo |-> f.todo, results |-> rs]
  BY <1>1
<1>3. [f EXCEPT !.todo = rs]
          = [fn |-> "evaluateConjunction", goals |-> f.goals, bindings |-> f.bindings,
             at |-> f.at, todo |-> rs, results |-> f.results]
  BY <1>1
<1>4. [f EXCEPT !.at = c, !.todo = rs]
          = [fn |-> "evaluateConjunction", goals |-> f.goals, bindings |-> f.bindings,
             at |-> c, todo |-> rs, results |-> f.results]
  <2> DEFINE g == [f EXCEPT !.at = c]
  <2>1. g = [fn |-> "evaluateConjunction", goals |-> f.goals, bindings |-> f.bindings,
             at |-> c, todo |-> f.todo, results |-> f.results]
    BY <1>1
  <2>2. [f EXCEPT !.at = c, !.todo = rs] = [g EXCEPT !.todo = rs]
    OBVIOUS
  <2> HIDE DEF g
  <2> QED
    BY <2>1, <2>2
<1> QED
  BY <1>1, <1>2, <1>3, <1>4 DEF FrameOK

(* The loops leave the rest of a frame alone. *)
LEMMA GoalFrameFields ==
    ASSUME NEW n, NEW f, FrameOK(f, n), f.fn = "evaluateGoal", NEW rs, NEW k
    PROVE  /\ LET g == [f EXCEPT !.results = rs]
              IN  /\ g.fn = f.fn /\ g.goal = f.goal /\ g.bindings = f.bindings /\ g.key = f.key
                  /\ g.results = rs /\ g.fact = f.fact /\ g.next = f.next
           /\ LET g == [f EXCEPT !.results = rs, !.fact = k]
              IN  /\ g.fn = f.fn /\ g.goal = f.goal /\ g.bindings = f.bindings /\ g.key = f.key
                  /\ g.results = rs /\ g.fact = k /\ g.next = f.next
           /\ LET g == [f EXCEPT !.next = k]
              IN  /\ g.fn = f.fn /\ g.goal = f.goal /\ g.bindings = f.bindings /\ g.key = f.key
                  /\ g.results = f.results /\ g.fact = f.fact /\ g.next = k
<1> DEFINE frame(results, fact, next) ==
               [fn |-> "evaluateGoal", goal |-> f.goal, bindings |-> f.bindings,
                key |-> f.key, results |-> results, fact |-> fact, next |-> next]
           g == [f EXCEPT !.results = rs]
<1>1. f = frame(f.results, f.fact, f.next)
  BY DEF FrameOK
<1>2. g = frame(rs, f.fact, f.next)
  BY <1>1
<1>3. [f EXCEPT !.results = rs, !.fact = k] = [g EXCEPT !.fact = k]
  OBVIOUS
<1>4. [f EXCEPT !.next = k] = frame(f.results, f.fact, k)
  BY <1>1
<1> HIDE DEF g
<1>5. [g EXCEPT !.fact = k] = frame(rs, k, f.next)
  BY <1>2
<1> QED
  BY <1>1, <1>2, <1>3, <1>4, <1>5 DEF g

LEMMA ConjunctionFrameFields ==
    ASSUME NEW n, NEW f, FrameOK(f, n), f.fn = "evaluateConjunction", NEW rs, NEW c
    PROVE  /\ LET g == [f EXCEPT !.results = rs]
              IN  /\ g.fn = f.fn /\ g.goals = f.goals /\ g.bindings = f.bindings
                  /\ g.at = f.at /\ g.todo = f.todo /\ g.results = rs
           /\ LET g == [f EXCEPT !.todo = rs]
              IN  /\ g.fn = f.fn /\ g.goals = f.goals /\ g.bindings = f.bindings
                  /\ g.at = f.at /\ g.todo = rs /\ g.results = f.results
           /\ LET g == [f EXCEPT !.at = c, !.todo = rs]
              IN  /\ g.fn = f.fn /\ g.goals = f.goals /\ g.bindings = f.bindings
                  /\ g.at = c /\ g.todo = rs /\ g.results = f.results
<1> DEFINE frame(at, todo, results) ==
               [fn |-> "evaluateConjunction", goals |-> f.goals, bindings |-> f.bindings,
                at |-> at, todo |-> todo, results |-> results]
           g == [f EXCEPT !.at = c]
<1>1. f = frame(f.at, f.todo, f.results)
  BY DEF FrameOK
<1>2. g = frame(c, f.todo, f.results)
  BY <1>1
<1>3. [f EXCEPT !.at = c, !.todo = rs] = [g EXCEPT !.todo = rs]
  OBVIOUS
<1>4. [f EXCEPT !.results = rs] = frame(f.at, f.todo, rs)
  BY <1>1
<1>5. [f EXCEPT !.todo = rs] = frame(f.at, rs, f.results)
  BY <1>1
<1> HIDE DEF g
<1>6. [g EXCEPT !.todo = rs] = frame(c, rs, f.results)
  BY <1>2
<1> QED
  BY <1>1, <1>3, <1>4, <1>5, <1>6

(* A goal whose key is new may be entered. *)
LEMMA PushGoal ==
    ASSUME NEW n, NEW s, StackOK(s, n), NEW keys, Guards(keys, s),
           NEW f, FrameOK(f, n), f.fn = "evaluateGoal", f.key \notin keys
    PROVE  StackOK(Append(s, f), n) /\ Guards(keys \cup {f.key}, Append(s, f))
<1> DEFINE t == Append(s, f)
<1>1. /\ IsSequence(t) /\ Len(s) \in Nat
      /\ DOMAIN s = 1..Len(s) /\ DOMAIN t = DOMAIN s \cup {Len(s) + 1}
      /\ Len(s) + 1 \notin DOMAIN s
      /\ \A i \in DOMAIN s : t[i] = s[i]
      /\ t[Len(s) + 1] = f
  BY AppendFacts, StackBasics DEF StackOK
<1> HIDE DEF t
<1>2. GoalFrames(t) = GoalFrames(s) \cup {Len(s) + 1}
  BY <1>1 DEF GoalFrames
<1>3. \A i \in GoalFrames(s) : t[i].key = s[i].key /\ i # Len(s) + 1
  BY <1>1 DEF GoalFrames
<1>4. Guards(keys \cup {f.key}, t)
  BY <1>1, <1>2, <1>3 DEF Guards
<1>5. StackOK(t, n)
  BY <1>1 DEF StackOK
<1> QED
  BY <1>4, <1>5 DEF t

LEMMA PushConjunction ==
    ASSUME NEW n, NEW s, StackOK(s, n), NEW keys, Guards(keys, s),
           NEW f, FrameOK(f, n), f.fn = "evaluateConjunction"
    PROVE  StackOK(Append(s, f), n) /\ Guards(keys, Append(s, f))
<1> DEFINE t == Append(s, f)
<1>1. /\ IsSequence(t) /\ Len(s) \in Nat
      /\ DOMAIN s = 1..Len(s) /\ DOMAIN t = DOMAIN s \cup {Len(s) + 1}
      /\ \A i \in DOMAIN s : t[i] = s[i]
      /\ t[Len(s) + 1] = f
  BY AppendFacts, StackBasics DEF StackOK
<1> HIDE DEF t
<1>2. GoalFrames(t) = GoalFrames(s)
  BY <1>1 DEF GoalFrames
<1>3. \A i \in GoalFrames(s) : t[i] = s[i]
  BY <1>1 DEF GoalFrames
<1>4. Guards(keys, t)
  BY <1>2, <1>3 DEF Guards
<1>5. StackOK(t, n)
  BY <1>1 DEF StackOK
<1> QED
  BY <1>4, <1>5 DEF t

LEMMA SetTop ==
    ASSUME NEW n, NEW s, StackOK(s, n), s # << >>, NEW keys, Guards(keys, s),
           NEW f, FrameOK(f, n), f.fn = s[Len(s)].fn,
           f.fn = "evaluateGoal" => f.key = s[Len(s)].key
    PROVE  /\ StackOK([s EXCEPT ![Len(s)] = f], n)
           /\ Guards(keys, [s EXCEPT ![Len(s)] = f])
<1> DEFINE t == [s EXCEPT ![Len(s)] = f]
<1>1. /\ IsSequence(t)
      /\ Len(s) \in DOMAIN s /\ DOMAIN t = DOMAIN s
      /\ t[Len(s)] = f
      /\ \A i \in DOMAIN s : i # Len(s) => t[i] = s[i]
  BY SetTopFacts, StackBasics DEF StackOK
<1> HIDE DEF t
<1>2. GoalFrames(t) = GoalFrames(s)
  BY <1>1 DEF GoalFrames
<1>3. \A i \in GoalFrames(s) : t[i].key = s[i].key
  BY <1>1 DEF GoalFrames
<1>4. Guards(keys, t)
  BY <1>2, <1>3 DEF Guards
<1>5. StackOK(t, n)
  BY <1>1 DEF StackOK
<1> QED
  BY <1>4, <1>5 DEF t

LEMMA Pop ==
    ASSUME NEW n, NEW s, StackOK(s, n), s # << >>, NEW keys, Guards(keys, s)
    PROVE  /\ StackOK(SubSeq(s, 1, Len(s) - 1), n)
           /\ s[Len(s)].fn = "evaluateGoal"
                  => Guards(keys \ {s[Len(s)].key}, SubSeq(s, 1, Len(s) - 1))
           /\ s[Len(s)].fn # "evaluateGoal" => Guards(keys, SubSeq(s, 1, Len(s) - 1))
<1> DEFINE t == SubSeq(s, 1, Len(s) - 1)
<1>1. /\ IsSequence(t)
      /\ Len(s) \in DOMAIN s /\ DOMAIN t = DOMAIN s \ {Len(s)}
      /\ \A i \in DOMAIN t : t[i] = s[i]
  BY PopFacts, StackBasics DEF StackOK
<1> HIDE DEF t
<1>2. StackOK(t, n)
  BY <1>1 DEF StackOK
<1>3. GoalFrames(t) = GoalFrames(s) \ {Len(s)}
  BY <1>1 DEF GoalFrames
<1>4. \A i \in GoalFrames(t) : t[i].key = s[i].key
  BY <1>1 DEF GoalFrames
<1>5. CASE s[Len(s)].fn = "evaluateGoal"
  <2>1. Len(s) \in GoalFrames(s)
    BY <1>1, <1>5 DEF GoalFrames
  <2>2. Guards(keys \ {s[Len(s)].key}, t)
    BY <1>3, <1>4, <2>1 DEF Guards
  <2> QED
    BY <1>2, <1>5, <2>2 DEF t
<1>6. CASE s[Len(s)].fn # "evaluateGoal"
  <2>1. GoalFrames(t) = GoalFrames(s)
    BY <1>3, <1>6 DEF GoalFrames
  <2>2. Guards(keys, t)
    BY <1>4, <2>1 DEF Guards
  <2> QED
    BY <1>2, <1>6, <2>2 DEF t
<1> QED
  BY <1>5, <1>6

--------------------------------------------------------------------------------
(* The invariant, and the four ways a step of the evaluation keeps it. *)

(* Between queries nothing is left of an evaluation. *)
IdleClean == pc = "client" => stack = << >> /\ visited = {}

Inv == TypeOK /\ GuardExact /\ IdleClean

LEMMA InvStack ==
    ASSUME Inv
    PROVE  /\ StackOK(stack, Len(rules)) /\ Guards(visited, stack)
           /\ Len(rules) \in Nat
           /\ stack # << >> => FrameOK(Top, Len(rules))
<1>1. StackOK(stack, Len(rules)) /\ Guards(visited, stack) /\ Len(rules) \in Nat
  BY DEF Inv, TypeOK, GuardExact, StackOK, IsSequence
<1> QED
  BY <1>1, StackBasics DEF StackOK, Top

(* What remains to be shown of a step that leaves the clauses and the query alone. *)
LEMMA InvNext ==
    ASSUME Inv, Unchanged, pc # "client",
           StackOK(stack', Len(rules)), Guards(visited', stack'),
           varCounter' \in Nat,
           pc' \in {"goal", "run", "return", "crashed"},
           pc' = "run" => stack' # << >>
    PROVE  Inv'
<1>1. TypeOK'
  BY DEF Inv, Unchanged, store, TypeOK, StackOK, IsSequence, IsValid
<1>2. GuardExact' /\ IdleClean'
  BY DEF GuardExact, IdleClean, Guards, GoalFrames
<1> QED
  BY <1>1, <1>2 DEF Inv

LEMMA Resumes ==
    ASSUME Inv, Unchanged, UNCHANGED visited, varCounter' \in Nat,
           pc \in {"run", "return"}, stack # << >>,
           NEW f, FrameOK(f, Len(rules)), f.fn = Top.fn,
           f.fn = "evaluateGoal" => f.key = Top.key,
           ResumeTop(f)
    PROVE  Inv'
<1>1. stack' = [stack EXCEPT ![Len(stack)] = f] /\ pc' = "run"
  BY DEF ResumeTop
<1>2. StackOK(stack', Len(rules)) /\ Guards(visited, stack')
  BY <1>1, InvStack, SetTop DEF Top
<1>3. stack' # << >>
  <2>1. Len(stack') = Len(stack) /\ Len(stack) # 0
    BY <1>1, InvStack, SetTopFacts, StackBasics DEF StackOK
  <2> QED
    BY <2>1
<1> QED
  BY <1>1, <1>2, <1>3, InvNext

LEMMA CallsConjunction ==
    ASSUME Inv, Unchanged, UNCHANGED visited, varCounter' \in Nat,
           pc = "run", stack # << >>,
           NEW f, FrameOK(f, Len(rules)), f.fn = Top.fn,
           f.fn = "evaluateGoal" => f.key = Top.key,
           NEW goals, NEW b,
           CallConjunction([stack EXCEPT ![Len(stack)] = f], goals, b)
    PROVE  Inv'
<1> DEFINE under == [stack EXCEPT ![Len(stack)] = f]
<1>1. StackOK(under, Len(rules)) /\ Guards(visited, under)
  BY InvStack, SetTop DEF Top
<1>2. stack' = Append(under, ConjunctionFrame(goals, b)) /\ pc' = "goal"
  BY DEF CallConjunction, CallGoal
<1> HIDE DEF under
<1>3. StackOK(stack', Len(rules)) /\ Guards(visited, stack')
  BY <1>1, <1>2, InvStack, NewFrames, PushConjunction
<1> QED
  BY <1>2, <1>3, InvNext

LEMMA Pops ==
    ASSUME Inv, Unchanged, UNCHANGED varCounter,
           pc \in {"run", "return"}, stack # << >>,
           NEW results, PopFrame, ReturnToCaller(results),
           visited' = IF Top.fn = "evaluateGoal" THEN visited \ {Top.key} ELSE visited
    PROVE  Inv'
<1>1. stack' = SubSeq(stack, 1, Len(stack) - 1) /\ pc' = "return"
  BY DEF PopFrame, ReturnToCaller
<1>2. StackOK(stack', Len(rules)) /\ Guards(visited', stack')
  BY <1>1, InvStack, Pop DEF Top
<1> QED
  BY <1>1, <1>2, InvNext DEF Inv, TypeOK

LEMMA ClientStep ==
    ASSUME Inv,
           \/ \E f \in FactInputs : AddFact(f)
           \/ \E r \in RuleInputs : AddRule(r)
           \/ \E g \in QueryInputs : Query(g)
    PROVE  Inv'
<1>0. pc = "client" /\ stack = << >> /\ visited = {}
  BY DEF AddFact, AddRule, Query, Inv, IdleClean
<1>1. ASSUME NEW n \in Nat, stack' = << >>, visited' = {}
      PROVE  /\ GuardExact' /\ IdleClean'
             /\ stack' \in Seq({stack'[i] : i \in DOMAIN stack'})
             /\ \A i \in DOMAIN stack' : FrameOK(stack'[i], n)
  BY <1>1, EmptyStack DEF GuardExact, IdleClean, Guards, GoalFrames
<1>2. ASSUME NEW f \in FactInputs, AddFact(f) PROVE Inv'
  <2>1. /\ facts' = Append(facts, f) /\ Len(facts) < MaxFacts
        /\ stack' = << >> /\ visited' = {}
        /\ UNCHANGED <<rules, varCounter, pc, queries>> /\ asked' = << >>
    BY <1>0, <1>2 DEF AddFact, evaluation
  <2>2. facts \in Seq(FactInputs) /\ Len(rules) \in Nat
    BY DEF Inv, TypeOK
  <2>3. facts' \in Seq(FactInputs) /\ Len(facts') <= MaxFacts
    BY <2>1, <2>2, BoundsAssumption
  <2> QED
    BY <1>0, <1>1, <2>1, <2>2, <2>3 DEF Inv, TypeOK, IsValid
<1>3. ASSUME NEW r \in RuleInputs, AddRule(r) PROVE Inv'
  <2>1. /\ rules' = Append(rules, r) /\ IsValid(r)
        /\ stack' = << >> /\ visited' = {}
        /\ UNCHANGED <<facts, varCounter, pc, queries>> /\ asked' = << >>
    BY <1>0, <1>3 DEF AddRule, evaluation
  <2>2. rules' \in Seq(RuleInputs) /\ Len(rules') <= MaxRules /\ Len(rules') \in Nat
    BY <1>3, <2>1, BoundsAssumption DEF AddRule, Inv, TypeOK
  <2>3. \A i \in DOMAIN rules' : IsValid(rules'[i])
    BY <2>1 DEF Inv, TypeOK
  <2>4. \A i \in DOMAIN rules' : IsValid(rules[i])'
    BY <2>3 DEF IsValid
  <2> QED
    BY <1>0, <1>1, <2>1, <2>2, <2>4 DEF Inv, TypeOK
<1>4. ASSUME NEW g \in QueryInputs, Query(g) PROVE Inv'
  <2>1. /\ UNCHANGED <<facts, rules, varCounter>>
        /\ stack' = << >> /\ visited' = {} /\ Len(rules) \in Nat
        /\ queries' \in 0..MaxQueries /\ asked' = <<g>> /\ pc' = "goal"
    BY <1>0, <1>4, BoundsAssumption DEF Query, store, Inv, TypeOK
  <2> QED
    BY <1>1, <2>1 DEF Inv, TypeOK, IsValid
<1> QED
  BY <1>2, <1>3, <1>4

(* What the loops over facts and rules look at. *)
LEMMA CurrentFactOK ==
    ASSUME Inv, AtFact
    PROVE  /\ Top.fact \in DOMAIN facts /\ facts[Top.fact] \in FactInputs
           /\ FrameOK(Top, Len(rules)) /\ Top.fn = "evaluateGoal" /\ stack # << >>
<1>1. /\ FrameOK(Top, Len(rules)) /\ Top.fn = "evaluateGoal" /\ stack # << >>
      /\ facts \in Seq(FactInputs) /\ Top.fact <= Len(facts)
  BY InvStack DEF AtFact, InGoal, Inv, TypeOK
<1>2. Top.fact \in Nat \ {0}
  BY <1>1 DEF FrameOK
<1> QED
  BY <1>1, <1>2

LEMMA CurrentRuleOK ==
    ASSUME Inv, AtRule
    PROVE  /\ Top.next \in DOMAIN rules
           /\ CurrentRule \in RuleInputs /\ IsValid(CurrentRule) /\ varCounter \in Nat
           /\ FrameOK(Top, Len(rules)) /\ Top.fn = "evaluateGoal" /\ stack # << >>
<1>1. /\ FrameOK(Top, Len(rules)) /\ Top.fn = "evaluateGoal" /\ stack # << >>
      /\ rules \in Seq(RuleInputs) /\ Top.next <= Len(rules)
  BY InvStack DEF AtRule, FactsTried, InGoal, Inv, TypeOK
<1>2. Top.next \in DOMAIN rules
  BY <1>1 DEF FrameOK
<1> QED
  BY <1>1, <1>2 DEF CurrentRule, Inv, TypeOK

(* The renaming of the current rule advances the counter. *)
LEMMA CounterAdvances ==
    ASSUME Inv, AtRule
    PROVE  /\ varCounter + Advance(CurrentRule) \in Nat
           /\ varCounter <= varCounter + Advance(CurrentRule)
<1>1. Advance(CurrentRule) \in Nat /\ varCounter \in Nat
  BY CurrentRuleOK, AdvanceAssumption
<1> QED
  BY <1>1

LEMMA NextRuleOK ==
    ASSUME Inv, AtRule
    PROVE  /\ FrameOK(NextRule, Len(rules))
           /\ NextRule.fn = Top.fn /\ NextRule.key = Top.key
           /\ pc = "run" /\ stack # << >>
<1>1. FrameOK(Top, Len(rules)) /\ Top.fn = "evaluateGoal" /\ Len(rules) \in Nat
      /\ Top.next <= Len(rules) /\ pc = "run" /\ stack # << >>
  BY InvStack DEF AtRule, FactsTried, InGoal
<1> QED
  BY <1>1, GoalFrameUpdates DEF NextRule

LEMMA EvaluateStep == ASSUME Inv, Evaluate PROVE Inv'
<1>0. varCounter \in Nat
  BY DEF Inv, TypeOK
<1>1. CASE GoalVisited
  <2>1. UNCHANGED <<stack, visited, varCounter>> /\ pc' = "return" /\ pc = "goal" /\ Unchanged
    BY <1>1 DEF GoalVisited, ReturnToCaller
  <2> QED
    BY <1>0, <2>1, InvStack, InvNext
<1>2. CASE GoalEnter
  <2> DEFINE key == KeyOf(call.goal, call.bindings)
             frame == GoalFrame(call.goal, call.bindings, key)
  <2>1. /\ key \notin visited /\ visited' = visited \cup {key}
        /\ stack' = Append(stack, frame)
        /\ pc = "goal" /\ pc' = "run" /\ Unchanged /\ varCounter' = varCounter
    BY <1>2 DEF GoalEnter
  <2>2. FrameOK(frame, Len(rules)) /\ frame.fn = "evaluateGoal" /\ frame.key = key
    BY InvStack, NewFrames
  <2> HIDE DEF frame
  <2>3. StackOK(stack', Len(rules)) /\ Guards(visited', stack')
    BY <2>1, <2>2, InvStack, PushGoal
  <2>4. stack' # << >>
    <3>1. Len(stack') = Len(stack) + 1 /\ Len(stack) \in Nat
      BY <2>1, InvStack, AppendFacts, StackBasics DEF StackOK
    <3> QED
      BY <3>1
  <2> QED
    BY <1>0, <2>1, <2>3, <2>4, InvNext
<1>3. CASE StackOverflow
  <2>1. UNCHANGED <<stack, visited, varCounter>> /\ pc' = "crashed" /\ pc = "goal" /\ Unchanged
    BY <1>3 DEF StackOverflow, evaluation
  <2> QED
    BY <1>0, <2>1, InvStack, InvNext
<1>4. CASE SkipRule
  BY <1>0, <1>4, NextRuleOK, Resumes DEF SkipRule
<1>5. CASE RuleFails
  <2>1. AtRule /\ ResumeTop(NextRule) /\ Unchanged /\ UNCHANGED visited
        /\ varCounter' = varCounter + Advance(CurrentRule)
    BY <1>5 DEF RuleFails
  <2> QED
    BY <2>1, CounterAdvances, NextRuleOK, Resumes
<1>6. CASE RuleBody
  <2>1. /\ AtRule /\ Unchanged /\ UNCHANGED visited
        /\ varCounter' = varCounter + Advance(CurrentRule)
        /\ CallConjunction([stack EXCEPT ![Len(stack)] = NextRule], RenamedRule.body,
                           HeadUnifier[1])
    BY <1>6 DEF RuleBody
  <2> QED
    BY <2>1, CounterAdvances, NextRuleOK, CallsConjunction
<1>7. CASE RuleReturned
  <2>1. FrameOK(Top, Len(rules)) /\ Top.fn = "evaluateGoal" /\ Len(rules) \in Nat
    BY <1>7, InvStack DEF RuleReturned, InGoal
  <2> DEFINE f == [Top EXCEPT !.results = Top.results \o ret]
  <2>2. FrameOK(f, Len(rules)) /\ f.fn = Top.fn /\ f.key = Top.key
    BY <2>1, GoalFrameUpdates
  <2>3. /\ ResumeTop(f) /\ Unchanged /\ UNCHANGED <<varCounter, visited>>
        /\ pc = "return" /\ stack # << >>
    BY <1>7 DEF RuleReturned, InGoal
  <2> HIDE DEF f
  <2> QED
    BY <1>0, <2>2, <2>3, Resumes
<1>16. CASE TryFact
  <2> DEFINE f == [Top EXCEPT !.results = Top.results \o FactUnifier, !.fact = Top.fact + 1]
  <2>1. FrameOK(Top, Len(rules)) /\ Top.fn = "evaluateGoal" /\ Len(rules) \in Nat
        /\ stack # << >> /\ pc = "run"
    BY <1>16, InvStack DEF TryFact, AtFact, InGoal
  <2>2. FrameOK(f, Len(rules)) /\ f.fn = Top.fn /\ f.key = Top.key
    BY <2>1, GoalFrameUpdates
  <2>3. ResumeTop(f) /\ Unchanged /\ UNCHANGED <<varCounter, visited>>
    BY <1>16 DEF TryFact
  <2> HIDE DEF f
  <2> QED
    BY <1>0, <2>1, <2>2, <2>3, Resumes
<1>8. CASE GoalReturn
  <2>1. /\ pc = "run" /\ stack # << >> /\ Top.fn = "evaluateGoal"
        /\ visited' = visited \ {Top.key}
        /\ PopFrame /\ ReturnToCaller(Top.results) /\ Unchanged /\ UNCHANGED varCounter
    BY <1>8 DEF GoalReturn, FactsTried, InGoal
  <2> QED
    BY <2>1, Pops
<1>9. CASE OnlyGoalReturned
  <2>1. /\ pc = "return" /\ stack # << >> /\ Top.fn # "evaluateGoal"
        /\ PopFrame /\ ReturnToCaller(ret) /\ Unchanged /\ UNCHANGED <<varCounter, visited>>
    BY <1>9 DEF OnlyGoalReturned, InConjunction
  <2> QED
    BY <2>1, Pops
<1>10. CASE ConjunctionReturn
  <2>1. /\ pc = "run" /\ stack # << >> /\ Top.fn # "evaluateGoal"
        /\ PopFrame /\ ReturnToCaller(Top.results) /\ Unchanged
        /\ UNCHANGED <<varCounter, visited>>
    BY <1>10 DEF ConjunctionReturn, InConjunction
  <2> QED
    BY <2>1, Pops
<1>11. ASSUME InConjunction
       PROVE  FrameOK(Top, Len(rules)) /\ Top.fn = "evaluateConjunction" /\ Len(rules) \in Nat
              /\ stack # << >>
  BY <1>11, InvStack DEF InConjunction
<1>12. CASE FirstGoalReturned
  <2> DEFINE f == [Top EXCEPT !.at = "rest", !.todo = ret]
  <2>1. /\ InConjunction /\ pc = "return" /\ ResumeTop(f)
        /\ Unchanged /\ UNCHANGED <<varCounter, visited>>
    BY <1>12 DEF FirstGoalReturned
  <2>2. FrameOK(f, Len(rules)) /\ f.fn = Top.fn
    BY <1>11, <2>1, ConjunctionFrameUpdates
  <2> HIDE DEF f
  <2> QED
    BY <1>0, <1>11, <2>1, <2>2, Resumes
<1>13. CASE RestReturned
  <2> DEFINE f == [Top EXCEPT !.results = Top.results \o ret]
  <2>1. /\ InConjunction /\ pc = "return" /\ ResumeTop(f)
        /\ Unchanged /\ UNCHANGED <<varCounter, visited>>
    BY <1>13 DEF RestReturned
  <2>2. FrameOK(f, Len(rules)) /\ f.fn = Top.fn
    BY <1>11, <2>1, ConjunctionFrameUpdates
  <2> HIDE DEF f
  <2> QED
    BY <1>0, <1>11, <2>1, <2>2, Resumes
<1>14. CASE NextResult
  <2> DEFINE f == [Top EXCEPT !.todo = Tail(Top.todo)]
  <2>1. /\ InConjunction /\ pc = "run"
        /\ CallConjunction([stack EXCEPT ![Len(stack)] = f], Tail(Top.goals), Head(Top.todo))
        /\ Unchanged /\ UNCHANGED <<varCounter, visited>>
    BY <1>14 DEF NextResult
  <2>2. FrameOK(f, Len(rules)) /\ f.fn = Top.fn
    BY <1>11, <2>1, ConjunctionFrameUpdates
  <2> HIDE DEF f
  <2> QED
    BY <1>0, <1>11, <2>1, <2>2, CallsConjunction
<1>15. CASE QueryReturn
  <2>1. /\ UNCHANGED <<facts, rules, varCounter, asked, queries, stack, visited>>
        /\ pc' = "client" /\ stack = << >>
    BY <1>15 DEF QueryReturn, store
  <2>2. visited = {}
    BY <2>1, EmptyStack, InvStack DEF Guards
  <2> QED
    <3>1. TypeOK'
      BY <2>1 DEF Inv, TypeOK, IsValid
    <3>2. GuardExact' /\ IdleClean'
      BY <2>1, <2>2 DEF Inv, GuardExact, IdleClean, Guards, GoalFrames
    <3> QED
      BY <3>1, <3>2 DEF Inv
<1> QED
  BY <1>1, <1>2, <1>3, <1>4, <1>5, <1>6, <1>7, <1>8, <1>9, <1>10, <1>12, <1>13, <1>14, <1>15,
     <1>16
     DEF Evaluate

(* While a query runs the clauses stay, and the counter only advances. *)
LEMMA EvaluateKeeps ==
    ASSUME Inv, Evaluate
    PROVE  /\ UNCHANGED <<facts, rules, asked>>
           /\ varCounter \in Nat /\ varCounter' \in Nat /\ varCounter <= varCounter'
<1>1. UNCHANGED <<facts, rules, asked>>
  BY DEF Evaluate, GoalVisited, GoalEnter, StackOverflow, TryFact, SkipRule, RuleFails, RuleBody,
         RuleReturned, GoalReturn, OnlyGoalReturned, FirstGoalReturned, NextResult,
         RestReturned, ConjunctionReturn, QueryReturn, Unchanged, store
<1>2. varCounter \in Nat
  BY DEF Inv, TypeOK
<1>3. CASE RuleFails \/ RuleBody
  <2>1. AtRule /\ varCounter' = varCounter + Advance(CurrentRule)
    BY <1>3 DEF RuleFails, RuleBody
  <2> QED
    BY <1>1, <1>2, <2>1, CounterAdvances
<1>4. CASE ~(RuleFails \/ RuleBody)
  <2>1. varCounter' = varCounter
    BY <1>4 DEF Evaluate, GoalVisited, GoalEnter, StackOverflow, TryFact, SkipRule,
                RuleReturned, GoalReturn, OnlyGoalReturned, FirstGoalReturned, NextResult,
                RestReturned, ConjunctionReturn, QueryReturn, evaluation
  <2> QED
    BY <1>1, <1>2, <2>1
<1> QED
  BY <1>3, <1>4

LEMMA InvInit == Init => Inv
<1> SUFFICES ASSUME Init PROVE Inv
  OBVIOUS
<1>1. stack = << >> /\ visited = {} /\ facts = << >> /\ rules = << >>
  BY DEF Init
<1>2. StackOK(stack, 0) /\ GoalFrames(stack) = {}
  BY <1>1, EmptyStack
<1>3. GuardExact /\ IdleClean
  BY <1>1, <1>2 DEF GuardExact, IdleClean, Guards
<1>4. TypeOK
  BY <1>1, <1>2, BoundsAssumption DEF Init, TypeOK, StackOK, IsSequence
<1> QED
  BY <1>3, <1>4 DEF Inv

LEMMA InvStep == Inv /\ [Next]_vars => Inv'
<1> SUFFICES ASSUME Inv, [Next]_vars PROVE Inv'
  OBVIOUS
<1>1. CASE Evaluate
  BY <1>1, EvaluateStep
<1>2. CASE UNCHANGED vars
  BY <1>2 DEF vars, Inv, TypeOK, GuardExact, IdleClean, Guards, GoalFrames, IsValid
<1>3. CASE Next /\ ~Evaluate
  BY <1>3, ClientStep DEF Next
<1> QED
  BY <1>1, <1>2, <1>3

(***************************************************************************)
(* The clause store, the counter and the frames keep their types.           *)
(***************************************************************************)
THEOREM TypeCorrect == Spec => []TypeOK
BY InvInit, InvStep, PTL DEF Spec, Inv

(***************************************************************************)
(* At every moment the visited set holds the keys of exactly the goals      *)
(* under evaluation, and no key twice: a goal is never entered again below  *)
(* itself under the same key, and finished goals do not block later ones.   *)
(***************************************************************************)
THEOREM GuardAlwaysExact == Spec => []GuardExact
BY InvInit, InvStep, PTL DEF Spec, Inv

--------------------------------------------------------------------------------
(* What renaming and the recursion guard are for. *)

CONSTANTS
    Literals,       \* the literals that a program is about
    BindingSets,    \* the binding sets
    NamesBefore(_), \* the variables that may be in use when the counter has a value
    TreesOf(_)      \* what terms denote in a world, or under a valuation: an interpretation

(***************************************************************************)
(* Clauses and queries are made of literals, with names of their own.       *)
(***************************************************************************)
OwnName(l) == l \in Literals /\ LiteralVars(l) \subseteq NamesBefore(0)

InputsNamed ==
    /\ \A f \in FactInputs : OwnName(f)
    /\ \A g \in QueryInputs : OwnName(g)
    /\ NoBindingSet \in BindingSets /\ BindingVars(NoBindingSet) = {}
    /\ \A n \in Nat : \A k \in Nat : n <= k => NamesBefore(n) \subseteq NamesBefore(k)

(***************************************************************************)
(* renameVariables makes a rule of literals, and the names it gives them    *)
(* are in use once the counter has advanced.                               *)
(***************************************************************************)
NamedAs(r, n) ==
    LET new == Rename(r, n)
    IN  /\ new.head \in Literals
        /\ IsSequence(new.body) /\ new.body # << >>
        /\ \A i \in DOMAIN new.body : new.body[i] \in Literals
        /\ ClauseVars(new) \subseteq NamesBefore(n + Advance(r))

RenamingNamed == \A r \in RuleInputs : \A n \in Nat : IsValid(r) => NamedAs(r, n)

(* They are not in use before. *)
NamedAnew(r, n) == ClauseVars(Rename(r, n)) \cap NamesBefore(n) = {}

RenamingFresh == \A r \in RuleInputs : \A n \in Nat : IsValid(r) => NamedAnew(r, n)

(* The result of unification mentions no variable but those it was given. *)
UnifierKeepsNames ==
    \A goal \in Literals, fact \in Literals, b \in BindingSets :
        \/ Unify(goal, fact, b) = << >>
        \/ \E c \in BindingSets :
              /\ Unify(goal, fact, b) = <<c>>
              /\ BindingVars(c) \subseteq BindingVars(b) \cup LiteralVars(goal) \cup LiteralVars(fact)

(* Goals that print alike under their bindings are alike. *)
KeysTellGoals ==
    \A g \in Literals, h \in Literals, b \in BindingSets, c \in BindingSets :
        KeyOf(g, b) = KeyOf(h, c) => Substituted(g, b) = Substituted(h, c)

--------------------------------------------------------------------------------
(* The inductive invariant: all that an evaluation holds is made of literals *)
(* and binding sets over the names used so far.                              *)

GoalNamed(l, n) == l \in Literals /\ LiteralVars(l) \subseteq NamesBefore(n)
BindingsNamed(b, n) == b \in BindingSets /\ BindingVars(b) \subseteq NamesBefore(n)

GoalsNamed(goals, n) == IsSequence(goals) /\ \A i \in DOMAIN goals : GoalNamed(goals[i], n)
ResultsNamed(results, n) ==
    IsSequence(results) /\ \A i \in DOMAIN results : BindingsNamed(results[i], n)

FrameNamed(f, n) ==
    /\ BindingsNamed(f.bindings, n) /\ ResultsNamed(f.results, n)
    /\ f.fn = "evaluateGoal" =>
           GoalNamed(f.goal, n) /\ f.key = KeyOf(f.goal, f.bindings)
    /\ f.fn = "evaluateConjunction" =>
           /\ GoalsNamed(f.goals, n) /\ f.goals # << >> /\ ResultsNamed(f.todo, n)
           /\ f.at = "rest" => Len(f.goals) # 1
           /\ f.at = "first" => f.todo = << >>
           /\ f.at \in {"first", "rest"}

AllNamed(s, n) == \A i \in DOMAIN s : FrameNamed(s[i], n)

NamesOK ==
    /\ AllNamed(stack, varCounter)
    /\ pc = "goal" => GoalNamed(call.goal, varCounter) /\ BindingsNamed(call.bindings, varCounter)
    /\ pc = "return" => ResultsNamed(ret, varCounter)

NamesInv == Inv /\ NamesOK

--------------------------------------------------------------------------------
(* Lemmas: names stay in use, and lists are lists of what they are made of. *)

LEMMA NamesKept ==
    ASSUME InputsNamed, NEW n \in Nat, NEW k \in Nat, n <= k
    PROVE  /\ \A l : GoalNamed(l, n) => GoalNamed(l, k)
           /\ \A b : BindingsNamed(b, n) => BindingsNamed(b, k)
           /\ \A results : ResultsNamed(results, n) => ResultsNamed(results, k)
           /\ \A f : FrameNamed(f, n) => FrameNamed(f, k)
           /\ \A s : AllNamed(s, n) => AllNamed(s, k)
<1>1. NamesBefore(n) \subseteq NamesBefore(k)
  BY DEF InputsNamed
<1>2. \A l : GoalNamed(l, n) => GoalNamed(l, k)
  BY <1>1 DEF GoalNamed
<1>3. \A b : BindingsNamed(b, n) => BindingsNamed(b, k)
  BY <1>1 DEF BindingsNamed
<1>4. \A results : ResultsNamed(results, n) => ResultsNamed(results, k)
  BY <1>3 DEF ResultsNamed
<1>5. \A f : FrameNamed(f, n) => FrameNamed(f, k)
  BY <1>2, <1>3, <1>4 DEF FrameNamed, GoalsNamed
<1>6. \A s : AllNamed(s, n) => AllNamed(s, k)
  BY <1>5 DEF AllNamed
<1> QED
  BY <1>2, <1>3, <1>4, <1>5, <1>6

LEMMA OwnNames ==
    ASSUME InputsNamed, NEW l, OwnName(l), NEW n \in Nat
    PROVE  GoalNamed(l, n)
<1>1. GoalNamed(l, 0) /\ 0 \in Nat /\ 0 <= n
  BY DEF OwnName, GoalNamed
<1> QED
  BY <1>1, NamesKept

LEMMA NoResults == ASSUME NEW n PROVE ResultsNamed(<< >>, n)
BY EmptyIsSequence DEF ResultsNamed

LEMMA MoreResults ==
    ASSUME NEW n, NEW s, NEW t, ResultsNamed(s, n), ResultsNamed(t, n)
    PROVE  ResultsNamed(s \o t, n)
<1> DEFINE st == s \o t
<1>1. IsSequence(s) /\ IsSequence(t)
  BY DEF ResultsNamed
<1>2. /\ IsSequence(st)
      /\ \A i \in DOMAIN st : \/ i \in DOMAIN s /\ st[i] = s[i]
                             \/ \E j \in DOMAIN t : st[i] = t[j]
  BY <1>1, ConcatFacts
<1> HIDE DEF st
<1>3. ResultsNamed(st, n)
  BY <1>2 DEF ResultsNamed
<1> QED
  BY <1>3 DEF st

LEMMA LessResults ==
    ASSUME NEW n, NEW s, ResultsNamed(s, n), s # << >>
    PROVE  ResultsNamed(Tail(s), n) /\ BindingsNamed(Head(s), n)
<1>1. Head(s) = s[1]
  BY DEF ResultsNamed, IsSequence
<1> QED
  BY <1>1, TailFacts DEF ResultsNamed

LEMMA LessGoals ==
    ASSUME NEW n, NEW goals, GoalsNamed(goals, n), goals # << >>, Len(goals) # 1
    PROVE  GoalsNamed(Tail(goals), n) /\ Tail(goals) # << >>
<1>1. /\ GoalsNamed(Tail(goals), n)
      /\ Len(Tail(goals)) = Len(goals) - 1 /\ Len(goals) \in Nat
  BY TailFacts, StackBasics DEF GoalsNamed
<1>2. Len(Tail(goals)) # 0
  BY <1>1
<1> QED
  BY <1>1, <1>2

--------------------------------------------------------------------------------
(* Lemmas about stacks and the ways a step changes them. *)

LEMMA PushNamed ==
    ASSUME NEW n, NEW s, IsSequence(s), AllNamed(s, n), NEW f, FrameNamed(f, n)
    PROVE  AllNamed(Append(s, f), n)
<1> DEFINE t == Append(s, f)
<1>1. /\ Len(s) \in Nat /\ DOMAIN s = 1..Len(s)
      /\ IsSequence(t) /\ Len(t) = Len(s) + 1 /\ DOMAIN t = 1..(Len(s) + 1)
      /\ \A i \in DOMAIN s : t[i] = s[i]
      /\ t[Len(s) + 1] = f
  BY AppendFacts, StackBasics
<1> HIDE DEF t
<1>2. \A i \in DOMAIN t : i \in DOMAIN s \/ i = Len(s) + 1
  BY <1>1
<1>3. AllNamed(t, n)
  BY <1>1, <1>2 DEF AllNamed
<1> QED
  BY <1>3 DEF t

LEMMA SetTopNamed ==
    ASSUME NEW n, NEW s, IsSequence(s), s # << >>, AllNamed(s, n), NEW f, FrameNamed(f, n)
    PROVE  AllNamed([s EXCEPT ![Len(s)] = f], n)
<1> DEFINE t == [s EXCEPT ![Len(s)] = f]
<1>1. /\ DOMAIN t = DOMAIN s /\ t[Len(s)] = f
      /\ \A i \in DOMAIN s : i # Len(s) => t[i] = s[i]
  BY SetTopFacts, StackBasics
<1> HIDE DEF t
<1>2. AllNamed(t, n)
  BY <1>1 DEF AllNamed
<1> QED
  BY <1>2 DEF t

LEMMA PopNamed ==
    ASSUME NEW n, NEW s, IsSequence(s), s # << >>, AllNamed(s, n)
    PROVE  AllNamed(SubSeq(s, 1, Len(s) - 1), n)
<1> DEFINE t == SubSeq(s, 1, Len(s) - 1)
<1>1. /\ Len(s) \in Nat /\ DOMAIN s = 1..Len(s)
      /\ Len(t) = Len(s) - 1 /\ DOMAIN t = 1..(Len(s) - 1)
      /\ \A i \in 1..(Len(s) - 1) : t[i] = s[i]
  BY PopFacts, StackBasics
<1> HIDE DEF t
<1>2. AllNamed(t, n)
  BY <1>1 DEF AllNamed
<1> QED
  BY <1>2 DEF t

LEMMA NamesNow ==
    ASSUME InputsNamed, NamesInv, varCounter' \in Nat, varCounter <= varCounter'
    PROVE  /\ IsSequence(stack) /\ varCounter \in Nat
           /\ AllNamed(stack, varCounter')
           /\ stack # << >> => FrameNamed(Top, varCounter') /\ FrameNamed(Top, varCounter)
                               /\ FrameOK(Top, Len(rules))
<1>1. IsSequence(stack) /\ varCounter \in Nat /\ (stack # << >> => FrameOK(Top, Len(rules)))
  BY InvStack DEF StackOK, NamesInv, Inv, TypeOK
<1>2. AllNamed(stack, varCounter') /\ AllNamed(stack, varCounter)
  BY <1>1, NamesKept DEF NamesInv, NamesOK
<1> QED
  BY <1>1, <1>2, StackBasics DEF AllNamed, Top

LEMMA ResumesNamed ==
    ASSUME InputsNamed, NamesInv, varCounter' \in Nat, varCounter <= varCounter',
           stack # << >>, NEW f, FrameNamed(f, varCounter'), ResumeTop(f)
    PROVE  NamesOK'
<1>1. stack' = [stack EXCEPT ![Len(stack)] = f] /\ pc' = "run"
  BY DEF ResumeTop
<1>2. AllNamed(stack', varCounter')
  BY <1>1, NamesNow, SetTopNamed
<1> QED
  BY <1>1, <1>2 DEF NamesOK, AllNamed

LEMMA CallsNamed ==
    ASSUME InputsNamed, NamesInv, varCounter' \in Nat, varCounter <= varCounter',
           stack # << >>, NEW f, FrameNamed(f, varCounter'),
           NEW goals, GoalsNamed(goals, varCounter'), goals # << >>,
           NEW b, BindingsNamed(b, varCounter'),
           CallConjunction([stack EXCEPT ![Len(stack)] = f], goals, b)
    PROVE  NamesOK'
<1> DEFINE under == [stack EXCEPT ![Len(stack)] = f]
           frame == ConjunctionFrame(goals, b)
<1>1. /\ stack' = Append(under, frame) /\ pc' = "goal"
      /\ call'.goal = goals[1] /\ call'.bindings = b
  BY DEF CallConjunction, CallGoal
<1>2. IsSequence(under) /\ AllNamed(under, varCounter')
  BY NamesNow, SetTopFacts, SetTopNamed
<1>3. FrameNamed(frame, varCounter')
  <2>1. /\ frame.fn = "evaluateConjunction" /\ frame.goals = goals /\ frame.bindings = b
        /\ frame.at = "first" /\ frame.todo = << >> /\ frame.results = << >>
    BY DEF ConjunctionFrame
  <2> HIDE DEF frame
  <2> QED
    BY <2>1, NoResults DEF FrameNamed
<1> HIDE DEF under, frame
<1>4. AllNamed(stack', varCounter')
  BY <1>1, <1>2, <1>3, PushNamed
<1>5. GoalNamed(goals[1], varCounter')
  BY TailFacts DEF GoalsNamed
<1> QED
  BY <1>1, <1>4, <1>5 DEF NamesOK, AllNamed

LEMMA PopsNamed ==
    ASSUME InputsNamed, NamesInv, UNCHANGED varCounter, stack # << >>,
           NEW results, ResultsNamed(results, varCounter),
           PopFrame, ReturnToCaller(results)
    PROVE  NamesOK'
<1>1. stack' = SubSeq(stack, 1, Len(stack) - 1) /\ pc' = "return" /\ ret' = results
  BY DEF PopFrame, ReturnToCaller
<1>2. AllNamed(stack', varCounter')
  <2>1. IsSequence(stack) /\ AllNamed(stack, varCounter)
    BY InvStack DEF StackOK, NamesInv, NamesOK
  <2> QED
    BY <1>1, <2>1, PopNamed
<1> QED
  BY <1>1, <1>2 DEF NamesOK, AllNamed

--------------------------------------------------------------------------------
(* The steps. *)

LEMMA TryFactNamed ==
    ASSUME InputsNamed, UnifierKeepsNames, NamesInv, TryFact
    PROVE  NamesOK'
<1> DEFINE f == [Top EXCEPT !.results = Top.results \o FactUnifier, !.fact = Top.fact + 1]
<1>1. AtFact /\ ResumeTop(f) /\ varCounter' = varCounter /\ varCounter \in Nat
  BY DEF TryFact, NamesInv, Inv, TypeOK
<1>2. /\ facts[Top.fact] \in FactInputs
      /\ FrameOK(Top, Len(rules)) /\ Top.fn = "evaluateGoal" /\ stack # << >>
  BY <1>1, CurrentFactOK DEF NamesInv
<1>3. FrameNamed(Top, varCounter)
  BY <1>1, <1>2, NamesNow
<1>4. GoalNamed(facts[Top.fact], varCounter) /\ GoalNamed(Top.goal, varCounter)
      /\ BindingsNamed(Top.bindings, varCounter) /\ ResultsNamed(Top.results, varCounter)
  <2>1. OwnName(facts[Top.fact])
    BY <1>2 DEF InputsNamed
  <2> QED
    BY <1>1, <1>2, <1>3, <2>1, OwnNames DEF FrameNamed
<1>5. ResultsNamed(FactUnifier, varCounter)
  <2>1. CASE FactUnifier = << >>
    BY <2>1, NoResults
  <2>2. CASE FactUnifier # << >>
    <3>1. PICK c \in BindingSets :
              /\ FactUnifier = <<c>>
              /\ BindingVars(c) \subseteq BindingVars(Top.bindings) \cup LiteralVars(Top.goal)
                                              \cup LiteralVars(facts[Top.fact])
      BY <1>4, <2>2 DEF UnifierKeepsNames, FactUnifier, GoalNamed, BindingsNamed
    <3>2. BindingsNamed(c, varCounter)
      BY <1>4, <3>1 DEF GoalNamed, BindingsNamed
    <3> QED
      BY <3>1, <3>2, OneIsSequence DEF ResultsNamed
  <2> QED
    BY <2>1, <2>2
<1>6. ResultsNamed(Top.results \o FactUnifier, varCounter)
  BY <1>4, <1>5, MoreResults
<1>7. /\ f.fn = Top.fn /\ f.goal = Top.goal /\ f.bindings = Top.bindings /\ f.key = Top.key
      /\ f.results = Top.results \o FactUnifier
  BY <1>2, GoalFrameFields
<1> HIDE DEF f
<1>8. FrameNamed(f, varCounter)
  BY <1>2, <1>3, <1>6, <1>7 DEF FrameNamed
<1> QED
  BY <1>1, <1>2, <1>8, ResumesNamed

(* What is known of the current rule once it is renamed. *)
LEMMA RenamedRuleNamed ==
    ASSUME InputsNamed, RenamingNamed, NamesInv, AtRule
    PROVE  LET n == varCounter + Advance(CurrentRule)
           IN  /\ varCounter \in Nat /\ n \in Nat /\ varCounter <= n
               /\ GoalNamed(RenamedRule.head, n)
               /\ GoalsNamed(RenamedRule.body, n) /\ RenamedRule.body # << >>
               /\ FrameNamed(NextRule, n) /\ FrameNamed(NextRule, varCounter)
               /\ FrameNamed(Top, n) /\ FrameNamed(Top, varCounter)
               /\ Top.fn = "evaluateGoal" /\ stack # << >>
<1> DEFINE n == varCounter + Advance(CurrentRule)
<1>1. /\ CurrentRule \in RuleInputs /\ IsValid(CurrentRule) /\ varCounter \in Nat
      /\ FrameOK(Top, Len(rules)) /\ Top.fn = "evaluateGoal" /\ stack # << >>
  BY CurrentRuleOK DEF NamesInv
<1>2. n \in Nat /\ varCounter <= n
  BY CounterAdvances DEF NamesInv
<1> HIDE DEF n
<1>3. FrameNamed(Top, varCounter) /\ FrameNamed(Top, n)
  <2>1. FrameNamed(Top, varCounter)
    BY <1>1, InvStack, StackBasics DEF NamesInv, NamesOK, AllNamed, StackOK, Top
  <2> QED
    BY <1>1, <1>2, <2>1, NamesKept
<1>4. /\ NextRule.fn = Top.fn /\ NextRule.goal = Top.goal /\ NextRule.bindings = Top.bindings
      /\ NextRule.key = Top.key /\ NextRule.results = Top.results
  BY <1>1, GoalFrameFields DEF NextRule
<1>5. FrameNamed(NextRule, n) /\ FrameNamed(NextRule, varCounter)
  BY <1>1, <1>3, <1>4 DEF FrameNamed
<1>6. /\ RenamedRule.head \in Literals
      /\ IsSequence(RenamedRule.body) /\ RenamedRule.body # << >>
      /\ \A i \in DOMAIN RenamedRule.body : RenamedRule.body[i] \in Literals
      /\ ClauseVars(RenamedRule) \subseteq NamesBefore(n)
  BY <1>1 DEF RenamingNamed, NamedAs, RenamedRule, n
<1>7. GoalNamed(RenamedRule.head, n) /\ GoalsNamed(RenamedRule.body, n)
  BY <1>6 DEF GoalNamed, GoalsNamed, ClauseVars
<1> QED
  BY <1>1, <1>2, <1>3, <1>5, <1>6, <1>7 DEF n

LEMMA RuleBodyNamed ==
    ASSUME InputsNamed, RenamingNamed, UnifierKeepsNames, NamesInv, RuleBody
    PROVE  NamesOK'
<1> DEFINE n == varCounter + Advance(CurrentRule)
<1>1. /\ AtRule /\ HeadUnifier # << >> /\ varCounter' = n
      /\ CallConjunction([stack EXCEPT ![Len(stack)] = NextRule], RenamedRule.body,
                         HeadUnifier[1])
  BY DEF RuleBody
<1>2. /\ varCounter \in Nat /\ n \in Nat /\ varCounter <= n
      /\ GoalNamed(RenamedRule.head, n)
      /\ GoalsNamed(RenamedRule.body, n) /\ RenamedRule.body # << >>
      /\ FrameNamed(NextRule, n) /\ FrameNamed(Top, n)
      /\ Top.fn = "evaluateGoal" /\ stack # << >>
  BY <1>1, RenamedRuleNamed
<1> HIDE DEF n
<1>3. PICK c \in BindingSets :
          /\ HeadUnifier = <<c>>
          /\ BindingVars(c) \subseteq BindingVars(Top.bindings) \cup LiteralVars(Top.goal)
                                          \cup LiteralVars(RenamedRule.head)
  BY <1>1, <1>2 DEF UnifierKeepsNames, HeadUnifier, FrameNamed, GoalNamed, BindingsNamed
<1>4. BindingsNamed(HeadUnifier[1], n)
  <2>1. BindingsNamed(c, n)
    BY <1>2, <1>3 DEF FrameNamed, GoalNamed, BindingsNamed
  <2> QED
    BY <1>3, <2>1
<1> QED
  BY <1>1, <1>2, <1>4, CallsNamed

LEMMA SkippedRuleNamed ==
    ASSUME InputsNamed, RenamingNamed, NamesInv, SkipRule \/ RuleFails
    PROVE  NamesOK'
<1>1. AtRule /\ ResumeTop(NextRule)
  BY DEF SkipRule, RuleFails
<1>2. CASE varCounter' = varCounter
  BY <1>1, <1>2, RenamedRuleNamed, ResumesNamed
<1>3. CASE varCounter' = varCounter + Advance(CurrentRule)
  BY <1>1, <1>3, RenamedRuleNamed, ResumesNamed
<1> QED
  BY <1>2, <1>3 DEF SkipRule, RuleFails

(* What is known of a conjunction that goes on or that is returned to. *)
LEMMA TopConjunctionNamed ==
    ASSUME InputsNamed, NamesInv, InConjunction
    PROVE  /\ FrameOK(Top, Len(rules)) /\ Top.fn = "evaluateConjunction" /\ stack # << >>
           /\ FrameNamed(Top, varCounter) /\ varCounter \in Nat /\ varCounter <= varCounter
           /\ ResultsNamed(Top.results, varCounter) /\ ResultsNamed(Top.todo, varCounter)
           /\ GoalsNamed(Top.goals, varCounter) /\ Top.goals # << >>
           /\ Top.at \in {"first", "rest"}
           /\ Top.at = "rest" => Len(Top.goals) # 1
           /\ Top.at = "first" => Top.todo = << >>
<1>1. stack # << >> /\ Top.fn = "evaluateConjunction"
  BY DEF InConjunction
<1>2. FrameOK(Top, Len(rules)) /\ varCounter \in Nat /\ varCounter <= varCounter
      /\ Len(stack) \in DOMAIN stack
  BY <1>1, InvStack, StackBasics DEF NamesInv, Inv, TypeOK, StackOK
<1>3. FrameNamed(Top, varCounter)
  BY <1>2 DEF NamesInv, NamesOK, AllNamed, Top
<1> QED
  BY <1>1, <1>2, <1>3 DEF FrameNamed

LEMMA ReturnedNamed ==
    ASSUME InputsNamed, NamesInv, RuleReturned \/ FirstGoalReturned \/ RestReturned
    PROVE  NamesOK'
<1>1. /\ pc = "return" /\ stack # << >> /\ varCounter' = varCounter
      /\ varCounter \in Nat /\ varCounter <= varCounter'
  BY DEF RuleReturned, FirstGoalReturned, RestReturned, InGoal, InConjunction, NamesInv, Inv, TypeOK
<1>2. FrameNamed(Top, varCounter) /\ FrameOK(Top, Len(rules)) /\ ResultsNamed(ret, varCounter)
  BY <1>1, NamesNow DEF NamesInv, NamesOK
<1>3. CASE RuleReturned
  <2> DEFINE f == [Top EXCEPT !.results = Top.results \o ret]
  <2>1. ResumeTop(f) /\ Top.fn = "evaluateGoal"
    BY <1>3 DEF RuleReturned, InGoal
  <2>2. /\ f.fn = Top.fn /\ f.goal = Top.goal /\ f.bindings = Top.bindings /\ f.key = Top.key
        /\ f.results = Top.results \o ret
    BY <1>2, <2>1, GoalFrameFields
  <2>3. ResultsNamed(Top.results \o ret, varCounter)
    BY <1>2, MoreResults DEF FrameNamed
  <2> HIDE DEF f
  <2>4. FrameNamed(f, varCounter)
    BY <1>2, <2>1, <2>2, <2>3 DEF FrameNamed
  <2> QED
    BY <1>1, <2>1, <2>4, ResumesNamed
<1>4. CASE FirstGoalReturned
  <2> DEFINE f == [Top EXCEPT !.at = "rest", !.todo = ret]
  <2>1. ResumeTop(f) /\ Top.fn = "evaluateConjunction" /\ Len(Top.goals) # 1
    BY <1>4 DEF FirstGoalReturned, InConjunction
  <2>2. /\ f.fn = Top.fn /\ f.goals = Top.goals /\ f.bindings = Top.bindings
        /\ f.at = "rest" /\ f.todo = ret /\ f.results = Top.results
    BY <1>2, <2>1, ConjunctionFrameFields
  <2> HIDE DEF f
  <2>3. FrameNamed(f, varCounter)
    BY <1>2, <2>1, <2>2 DEF FrameNamed
  <2> QED
    BY <1>1, <2>1, <2>3, ResumesNamed
<1>5. CASE RestReturned
  <2> DEFINE f == [Top EXCEPT !.results = Top.results \o ret]
  <2>1. ResumeTop(f) /\ Top.fn = "evaluateConjunction"
    BY <1>5 DEF RestReturned, InConjunction
  <2>2. /\ f.fn = Top.fn /\ f.goals = Top.goals /\ f.bindings = Top.bindings
        /\ f.at = Top.at /\ f.todo = Top.todo /\ f.results = Top.results \o ret
    BY <1>2, <2>1, ConjunctionFrameFields
  <2>3. ResultsNamed(Top.results \o ret, varCounter)
    BY <1>2, MoreResults DEF FrameNamed
  <2> HIDE DEF f
  <2>4. FrameNamed(f, varCounter)
    BY <1>2, <2>1, <2>2, <2>3 DEF FrameNamed
  <2> QED
    BY <1>1, <2>1, <2>4, ResumesNamed
<1> QED
  BY <1>3, <1>4, <1>5

LEMMA NextResultNamed ==
    ASSUME InputsNamed, NamesInv, NextResult
    PROVE  NamesOK'
<1> DEFINE f == [Top EXCEPT !.todo = Tail(Top.todo)]
<1>1. /\ InConjunction /\ pc = "run" /\ Top.todo # << >> /\ varCounter' = varCounter
      /\ CallConjunction([stack EXCEPT ![Len(stack)] = f], Tail(Top.goals), Head(Top.todo))
  BY DEF NextResult
<1>2. /\ f.fn = Top.fn /\ f.goals = Top.goals /\ f.bindings = Top.bindings
      /\ f.at = Top.at /\ f.todo = Tail(Top.todo) /\ f.results = Top.results
  BY <1>1, TopConjunctionNamed, ConjunctionFrameFields
<1>3. ResultsNamed(Tail(Top.todo), varCounter) /\ BindingsNamed(Head(Top.todo), varCounter)
  BY <1>1, TopConjunctionNamed, LessResults
<1>4. Top.at = "rest"
  BY <1>1, TopConjunctionNamed
<1>5. GoalsNamed(Tail(Top.goals), varCounter) /\ Tail(Top.goals) # << >>
  BY <1>1, <1>4, TopConjunctionNamed, LessGoals
<1> HIDE DEF f
<1>6. FrameNamed(f, varCounter)
  BY <1>1, <1>2, <1>3, <1>4, TopConjunctionNamed DEF FrameNamed
<1> QED
  BY <1>1, <1>3, <1>5, <1>6, TopConjunctionNamed, CallsNamed

LEMMA GoalEnterNamed ==
    ASSUME InputsNamed, NamesInv, GoalEnter
    PROVE  NamesOK'
<1> DEFINE f == GoalFrame(call.goal, call.bindings, KeyOf(call.goal, call.bindings))
<1>1. pc = "goal" /\ pc' = "run" /\ stack' = Append(stack, f) /\ varCounter' = varCounter
  BY DEF GoalEnter
<1>2. /\ f.fn = "evaluateGoal" /\ f.goal = call.goal /\ f.bindings = call.bindings
      /\ f.key = KeyOf(call.goal, call.bindings) /\ f.results = << >>
  BY DEF GoalFrame
<1> HIDE DEF f
<1>3. FrameNamed(f, varCounter)
  BY <1>1, <1>2, NoResults DEF NamesInv, NamesOK, FrameNamed
<1>4. AllNamed(stack', varCounter')
  BY <1>1, <1>3, InvStack, PushNamed DEF NamesInv, NamesOK, StackOK
<1> QED
  BY <1>1, <1>4 DEF NamesOK, AllNamed

LEMMA PoppedNamed ==
    ASSUME InputsNamed, NamesInv, GoalReturn \/ OnlyGoalReturned \/ ConjunctionReturn
    PROVE  NamesOK'
<1>1. stack # << >> /\ varCounter' = varCounter /\ varCounter \in Nat /\ varCounter <= varCounter'
  BY DEF GoalReturn, OnlyGoalReturned, ConjunctionReturn, FactsTried, InGoal, InConjunction,
         NamesInv, Inv, TypeOK
<1>2. FrameNamed(Top, varCounter)
  BY <1>1, NamesNow
<1>3. CASE GoalReturn \/ ConjunctionReturn
  <2>1. PopFrame /\ ReturnToCaller(Top.results)
    BY <1>3 DEF GoalReturn, ConjunctionReturn
  <2>2. ResultsNamed(Top.results, varCounter)
    BY <1>2 DEF FrameNamed
  <2> QED
    BY <1>1, <2>1, <2>2, PopsNamed
<1>4. CASE OnlyGoalReturned
  <2>1. PopFrame /\ ReturnToCaller(ret) /\ pc = "return"
    BY <1>4 DEF OnlyGoalReturned
  <2>2. ResultsNamed(ret, varCounter)
    BY <2>1 DEF NamesInv, NamesOK
  <2> QED
    BY <1>1, <2>1, <2>2, PopsNamed
<1> QED
  BY <1>3, <1>4

LEMMA EvaluateNamed ==
    ASSUME InputsNamed, RenamingNamed, UnifierKeepsNames, NamesInv, Evaluate
    PROVE  NamesOK'
<1>1. CASE GoalVisited
  <2>1. UNCHANGED <<stack, varCounter>> /\ pc' = "return" /\ ret' = << >>
    BY <1>1 DEF GoalVisited, ReturnToCaller
  <2> QED
    BY <2>1, NoResults DEF NamesInv, NamesOK, AllNamed
<1>2. CASE StackOverflow
  BY <1>2 DEF StackOverflow, evaluation, NamesInv, NamesOK, AllNamed
<1>3. CASE QueryReturn
  BY <1>3 DEF QueryReturn, NamesInv, NamesOK, AllNamed
<1> QED
  BY <1>1, <1>2, <1>3, TryFactNamed, RuleBodyNamed, SkippedRuleNamed, ReturnedNamed,
     NextResultNamed, GoalEnterNamed, PoppedNamed
     DEF Evaluate

LEMMA NamesInit == Init => NamesInv
<1> SUFFICES ASSUME Init PROVE NamesOK
  BY InvInit DEF NamesInv
<1>1. stack = << >> /\ pc = "client"
  BY DEF Init
<1>2. AllNamed(<< >>, varCounter)
  BY DEF AllNamed
<1> QED
  BY <1>1, <1>2 DEF NamesOK

LEMMA NamesStep ==
    ASSUME InputsNamed, RenamingNamed, UnifierKeepsNames, NamesInv, [Next]_vars
    PROVE  NamesInv'
<1>1. Inv'
  BY InvStep DEF NamesInv
<1>2. CASE Evaluate
  BY <1>1, <1>2, EvaluateNamed DEF NamesInv
<1>3. CASE UNCHANGED vars
  BY <1>1, <1>3 DEF vars, NamesInv, NamesOK, AllNamed
<1>4. CASE Next /\ ~Evaluate
  <2>1. stack = << >> /\ stack' = stack /\ pc' # "return" /\ varCounter' = varCounter
    BY <1>4 DEF Next, AddFact, AddRule, Query, evaluation, NamesInv, Inv, IdleClean
  <2>2. AllNamed(stack', varCounter')
    BY <2>1 DEF AllNamed
  <2>3. pc' = "goal" => \E g \in QueryInputs : call' = [goal |-> g, bindings |-> NoBindingSet]
    BY <1>4 DEF Next, AddFact, AddRule, Query, NamesInv, Inv, IdleClean
  <2>4. varCounter \in Nat
    BY DEF NamesInv, Inv, TypeOK
  <2>5. \A g \in QueryInputs : GoalNamed(g, varCounter)
    BY <2>4, OwnNames DEF InputsNamed
  <2>6. BindingsNamed(NoBindingSet, varCounter)
    BY DEF InputsNamed, BindingsNamed
  <2> QED
    BY <1>1, <2>1, <2>2, <2>3, <2>5, <2>6 DEF NamesInv, NamesOK, AllNamed
<1> QED
  BY <1>2, <1>3, <1>4

--------------------------------------------------------------------------------
LEMMA FrameVarsNamed ==
    ASSUME NEW f, NEW n, FrameNamed(f, n), f.fn \in {"evaluateGoal", "evaluateConjunction"}
    PROVE  FrameVars(f) \subseteq NamesBefore(n)
<1>1. CASE f.fn = "evaluateGoal"
  BY <1>1 DEF FrameVars, FrameNamed, GoalNamed, BindingsNamed
<1>2. CASE f.fn = "evaluateConjunction"
  BY <1>2 DEF FrameVars, FrameNamed, GoalsNamed, GoalNamed, BindingsNamed
<1> QED
  BY <1>1, <1>2

(* All that the stack mentions is named already. *)
LEMMA StackVarsNamed ==
    ASSUME NamesInv, NEW i \in DOMAIN stack
    PROVE  FrameVars(stack[i]) \subseteq NamesBefore(varCounter)
<1>1. FrameNamed(stack[i], varCounter) /\ FrameOK(stack[i], Len(rules))
  BY InvStack DEF NamesInv, NamesOK, AllNamed, StackOK
<1> QED
  BY <1>1, FrameVarsNamed DEF FrameOK

LEMMA NamedApart == ASSUME RenamingFresh, NamesInv PROVE RenamedApart
<1> SUFFICES ASSUME AtRule, NEW i \in DOMAIN stack
             PROVE  ClauseVars(RenamedRule) \cap FrameVars(stack[i]) = {}
  BY DEF RenamedApart
<1>1. CurrentRule \in RuleInputs /\ IsValid(CurrentRule) /\ varCounter \in Nat
  BY CurrentRuleOK DEF NamesInv
<1>2. ClauseVars(RenamedRule) \cap NamesBefore(varCounter) = {}
  BY <1>1 DEF RenamingFresh, NamedAnew, RenamedRule
<1> QED
  BY <1>2, StackVarsNamed

(***************************************************************************)
(* Nothing is ever captured: for all clauses and queries whose variables    *)
(* are named by their authors, a rule about to be unified shares no         *)
(* variable with any goal or binding of the derivation.                     *)
(***************************************************************************)
THEOREM AlwaysRenamedApart ==
    ASSUME InputsNamed, RenamingNamed, RenamingFresh, UnifierKeepsNames
    PROVE  Spec => []RenamedApart
<1>1. NamesInv /\ [Next]_vars => NamesInv'
  BY NamesStep
<1>2. NamesInv => RenamedApart
  BY NamedApart
<1> QED
  BY <1>1, <1>2, NamesInit, PTL DEF Spec

(***************************************************************************)
(* The recursion guard cuts off nothing but repetitions: if goals that      *)
(* print alike are alike, a goal is only passed over while that very goal   *)
(* is under evaluation.                                                    *)
(***************************************************************************)
THEOREM AlwaysCutsOnlyRepeats ==
    ASSUME InputsNamed, RenamingNamed, UnifierKeepsNames, KeysTellGoals
    PROVE  Spec => []CutsOnlyRepeats
<1>1. NamesInv /\ [Next]_vars => NamesInv'
  BY NamesStep
<1>2. NamesInv => CutsOnlyRepeats
  <2> SUFFICES ASSUME NamesInv, pc = "goal", KeyOf(call.goal, call.bindings) \in visited
               PROVE  \E i \in GoalFrames(stack) :
                          Substituted(stack[i].goal, stack[i].bindings)
                              = Substituted(call.goal, call.bindings)
    BY DEF CutsOnlyRepeats
  <2>1. PICK i \in GoalFrames(stack) : stack[i].key = KeyOf(call.goal, call.bindings)
    BY DEF NamesInv, Inv, GuardExact, Guards
  <2>2. FrameNamed(stack[i], varCounter) /\ stack[i].fn = "evaluateGoal"
    BY <2>1 DEF GoalFrames, NamesInv, NamesOK, AllNamed
  <2>3. KeyOf(stack[i].goal, stack[i].bindings) = KeyOf(call.goal, call.bindings)
    BY <2>1, <2>2 DEF FrameNamed
  <2> QED
    BY <2>1, <2>2, <2>3
       DEF KeysTellGoals, FrameNamed, GoalNamed, BindingsNamed, NamesInv, NamesOK
<1> QED
  BY <1>1, <1>2, NamesInit, PTL DEF Spec

--------------------------------------------------------------------------------
(***************************************************************************)
(* The evaluator over terms.  The theorems above take it that unification   *)
(* keeps to its names and that renaming makes new ones; for literals over   *)
(* the terms of UnifierSteps, unified by its steps, that is so.             *)
(***************************************************************************)

OverTerms ==
    /\ \A l \in Literals : HasTerms(l) /\ LiteralVars(l) = VarsOfLiteral(l)
    /\ BindingSets = AcyclicBindings
    /\ \A b \in BindingSets : BindingVars(b) = VarsOfBindings(b)

(* Unify returns what the steps of Unifier::unify lead to. *)
UnifiesBySteps ==
    \A goal \in Literals, fact \in Literals, b \in BindingSets :
        UnifyReturns(goal, fact, b, Unify(goal, fact, b))

(* That says what Unify is: the steps lead somewhere, and to one end only. *)
THEOREM UnifyIsWhatTheStepsReturn ==
    ASSUME OverTerms, TermsAreFinite
    PROVE  UnifiesBySteps <=>
               \A goal \in Literals, fact \in Literals, b \in BindingSets :
                   Unify(goal, fact, b) = WhatUnifyReturns(goal, fact, b)
<1>1. \A goal \in Literals, fact \in Literals, b \in BindingSets :
          HasTerms(goal) /\ HasTerms(fact) /\ b \in BindingSet /\ Acyclic(b)
  BY DEF OverTerms, AcyclicBindings
<1>2. \A goal \in Literals, fact \in Literals, b \in BindingSets : \A r :
          UnifyReturns(goal, fact, b, r) <=> r = WhatUnifyReturns(goal, fact, b)
  BY <1>1, UnifyIsAFunction
<1> QED
  BY <1>2 DEF UnifiesBySteps

(***************************************************************************)
(* renameVariables replaces the variables of a rule, different ones by      *)
(* different ones, that are in use from then on and were not before.        *)
(***************************************************************************)
RenamedBy(new, r, n) ==
    LET copy == Rename(r, n)
    IN  /\ Renames(new)
        /\ Replaced(new, r.head, copy.head)
        /\ DOMAIN copy.body = DOMAIN r.body
        /\ \A j \in DOMAIN r.body : Replaced(new, r.body[j], copy.body[j])
        /\ \A x, y \in ClauseVars(r) : new[x] = new[y] => x = y
        /\ \A x \in ClauseVars(r) : new[x] \in NamesBefore(n + Advance(r)) \ NamesBefore(n)

RuleOfLiterals(r) ==
    /\ r.head \in Literals
    /\ IsSequence(r.body) /\ \A j \in DOMAIN r.body : r.body[j] \in Literals

RenamesApart(r, n) ==
    /\ RuleOfLiterals(r) /\ RuleOfLiterals(Rename(r, n))
    /\ \E new \in [Universe -> Universe] : RenamedBy(new, r, n)

RenamesByTerms ==
    \A n \in Nat :
        /\ NamesBefore(n) \subseteq Vars
        /\ \A r \in RuleInputs : IsValid(r) => RenamesApart(r, n)

LEMMA RenamedLiteralVars ==
    ASSUME NEW new, Renames(new), NEW l, HasTerms(l), NEW m, HasTerms(m), Replaced(new, l, m)
    PROVE  VarsOfLiteral(m) \subseteq {new[x] : x \in VarsOfLiteral(l)}
<1> SUFFICES ASSUME NEW i \in DOMAIN m.terms
             PROVE  VarsOf[m.terms[i]] \subseteq {new[x] : x \in VarsOfLiteral(l)}
  BY DEF VarsOfLiteral
<1>1. i \in DOMAIN l.terms /\ l.terms[i] \in Universe /\ m.terms[i] = new[l.terms[i]]
  BY DEF HasTerms, Replaced
<1>2. VarsOf[new[l.terms[i]]] \subseteq {new[x] : x \in VarsOf[l.terms[i]]}
  BY <1>1, RenamedVars
<1> QED
  BY <1>1, <1>2 DEF VarsOfLiteral

LEMMA RenamedClauseVars ==
    ASSUME OverTerms, NEW r, NEW n, RuleOfLiterals(r), RuleOfLiterals(Rename(r, n)),
           NEW new, RenamedBy(new, r, n)
    PROVE  ClauseVars(Rename(r, n)) \subseteq {new[x] : x \in ClauseVars(r)}
<1> DEFINE copy == Rename(r, n)
           Image == {new[x] : x \in ClauseVars(r)}
<1>1. /\ Renames(new) /\ Replaced(new, r.head, copy.head)
      /\ DOMAIN copy.body = DOMAIN r.body
      /\ \A j \in DOMAIN r.body : Replaced(new, r.body[j], copy.body[j])
  BY DEF RenamedBy
<1>2. /\ r.head \in Literals /\ copy.head \in Literals
      /\ \A j \in DOMAIN r.body : r.body[j] \in Literals
      /\ \A j \in DOMAIN copy.body : copy.body[j] \in Literals
  BY DEF RuleOfLiterals
<1> HIDE DEF copy
<1>3. LiteralVars(copy.head) \subseteq {new[x] : x \in LiteralVars(r.head)}
  BY <1>1, <1>2, RenamedLiteralVars DEF OverTerms
<1>4. ASSUME NEW j \in DOMAIN copy.body
      PROVE  LiteralVars(copy.body[j]) \subseteq {new[x] : x \in LiteralVars(r.body[j])}
  BY <1>1, <1>2, RenamedLiteralVars DEF OverTerms
<1>5. LiteralVars(copy.head) \subseteq Image
  BY <1>3 DEF ClauseVars
<1>6. ASSUME NEW j \in DOMAIN copy.body PROVE LiteralVars(copy.body[j]) \subseteq Image
  BY <1>1, <1>4 DEF ClauseVars
<1> HIDE DEF Image
<1>7. ClauseVars(copy) \subseteq Image
  BY <1>5, <1>6 DEF ClauseVars
<1> QED
  BY <1>7 DEF copy, Image

(***************************************************************************)
(* The names of a renamed rule are new, and in use once it has been made.   *)
(***************************************************************************)
THEOREM RenamingByTermsIsFresh ==
    ASSUME OverTerms, RenamesByTerms
    PROVE  RenamingNamed /\ RenamingFresh
<1> SUFFICES ASSUME NEW r \in RuleInputs, NEW n \in Nat, IsValid(r)
             PROVE  NamedAs(r, n) /\ NamedAnew(r, n)
  BY DEF RenamingNamed, RenamingFresh
<1>1. RuleOfLiterals(r) /\ RuleOfLiterals(Rename(r, n))
  BY DEF RenamesByTerms, RenamesApart
<1>2. PICK new : RenamedBy(new, r, n)
  BY DEF RenamesByTerms, RenamesApart
<1>3. ClauseVars(Rename(r, n)) \subseteq {new[x] : x \in ClauseVars(r)}
  BY <1>1, <1>2, RenamedClauseVars
<1>4. \A x \in ClauseVars(r) : new[x] \in NamesBefore(n + Advance(r)) \ NamesBefore(n)
  BY <1>2 DEF RenamedBy
<1>5. ClauseVars(Rename(r, n)) \subseteq NamesBefore(n + Advance(r)) \ NamesBefore(n)
  BY <1>3, <1>4
<1>6. Rename(r, n).body # << >>
  <2>1. DOMAIN Rename(r, n).body = DOMAIN r.body /\ r.body # << >>
    BY <1>2 DEF RenamedBy, IsValid
  <2>2. DOMAIN r.body # {}
    BY <1>1, <2>1, StackBasics DEF RuleOfLiterals
  <2> QED
    BY <2>1, <2>2
<1> QED
  BY <1>1, <1>5, <1>6 DEF NamedAs, NamedAnew, RuleOfLiterals

(***************************************************************************)
(* What unification binds, it finds in what it was given.                   *)
(***************************************************************************)
THEOREM UnifyingByStepsKeepsNames ==
    ASSUME OverTerms, UnifiesBySteps
    PROVE  UnifierKeepsNames
<1> SUFFICES ASSUME NEW goal \in Literals, NEW fact \in Literals, NEW b \in BindingSets,
                    Unify(goal, fact, b) # << >>
             PROVE  \E c \in BindingSets :
                        /\ Unify(goal, fact, b) = <<c>>
                        /\ BindingVars(c) \subseteq
                               BindingVars(b) \cup LiteralVars(goal) \cup LiteralVars(fact)
  BY DEF UnifierKeepsNames
<1>1. /\ HasTerms(goal) /\ HasTerms(fact)
      /\ b \in BindingSet /\ Acyclic(b)
      /\ UnifyReturns(goal, fact, b, Unify(goal, fact, b))
  BY DEF OverTerms, AcyclicBindings, UnifiesBySteps
<1>2. PICK c \in BindingSet : Unify(goal, fact, b) = <<c>>
  BY <1>1, ConfigurationParts DEF UnifyReturns
<1>3. /\ Acyclic(c)
      /\ \A C \in SUBSET Universe :
             ArgsClosed(C) /\ BindsWithin(b, C) /\ TermsWithin(goal, C) /\ TermsWithin(fact, C)
                 => BindsWithin(c, C)
  BY <1>1, <1>2, UnifyKeepsToTheGiven
<1> DEFINE V == VarsOfBindings(b) \cup VarsOfLiteral(goal) \cup VarsOfLiteral(fact)
           C == {t \in Universe : VarsOf[t] \subseteq V}
<1>4. C \in SUBSET Universe /\ ArgsClosed(C)
  BY ArgsVars DEF ArgsClosed
<1>5. TermsWithin(goal, C) /\ TermsWithin(fact, C)
  BY <1>1 DEF TermsWithin, HasTerms, VarsOfLiteral
<1>6. BindsWithin(b, C)
  BY <1>1, BindingType, VarOfItself DEF BindsWithin, VarsOfBindings
<1>7. BindsWithin(c, C)
  BY <1>3, <1>4, <1>5, <1>6
<1>8. VarsOfBindings(c) \subseteq V
  <2>1. \A v \in DOMAIN c : v \in Vars /\ VarsOf[v] \subseteq V /\ VarsOf[c[v]] \subseteq V
    BY <1>2, <1>7, BindingType DEF BindsWithin
  <2> HIDE DEF V
  <2>2. \A v \in DOMAIN c : v \in V
    BY <2>1, VarOfItself
  <2> QED
    BY <2>1, <2>2 DEF VarsOfBindings
<1> QED
  BY <1>2, <1>3, <1>8 DEF OverTerms, AcyclicBindings

================================================================================
