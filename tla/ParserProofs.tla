------------------------------ MODULE ParserProofs ------------------------------
(***************************************************************************)
(* Theorems about QueryParser's step machine, for any words, any lengths    *)
(* of input and both modes.  First: its calls nest as the recursion of the  *)
(* code does, nothing is read past the end of the input, and every step     *)
(* uses up some of a number of steps fixed by the input's length.  Then:    *)
(* what the machine accepts and rejects is what the grammar says.           *)
(*                                                                         *)
(* The second rests on the first.  Each place of each activation has a      *)
(* language of its own, what is still to be read there (Rest); a plan for   *)
(* the whole input is what the activation at the top reads, followed by     *)
(* what those below it read once they are given its value (Plan).  The      *)
(* invariant is that the whole input spells r if, and only if, there is a   *)
(* plan for what is still to come that makes r (ReadsOn).                  *)
(***************************************************************************)
EXTENDS Parser, SequenceTheorems, WellFoundedInduction, TLAPS

--------------------------------------------------------------------------------
(* Places in a sequence of length n. *)
LEMMA Indices ==
    \A n \in Nat :
        /\ \A i \in 1..(n - 1) : i \in 1..n /\ i # n
        /\ \A i \in 1..n : i # n => i \in 1..(n - 1)
        /\ \A i \in 1..(n + 1) : i # n + 1 => i \in 1..n
        /\ n # 0 => n >= 1 /\ n \in 1..n /\ n - 1 \in Nat
        /\ n >= 1 => n # 0
        /\ n + 1 # 0
OBVIOUS

LEMMA EmptyHasLengthZero == Len(<< >>) = 0
BY EmptySeq

--------------------------------------------------------------------------------
(* Stacks of activations *)

(* A stack whose activations below the top all await a term. *)
WellNested(s) ==
    /\ \E S : s \in Seq(S)
    /\ \A i \in DOMAIN s : FrameOK(s[i]) /\ (s[i].fn = "parse" => i = 1)
    /\ \A i \in 1..(Len(s) - 1) : AwaitsTerm(s[i])

WithTop(s, f) == [s EXCEPT ![Len(s)] = f]

WithoutTop(s) == SubSeq(s, 1, Len(s) - 1)

(* A stack that is not empty has a top, and it is an activation. *)
LEMMA TopOfStack ==
    ASSUME NEW s, WellNested(s), s # << >>
    PROVE  Len(s) \in Nat /\ Len(s) >= 1 /\ DOMAIN s = 1..Len(s)
           /\ FrameOK(Last(s)) /\ (Last(s).fn = "parse" => Len(s) = 1)
<1>1. PICK S : s \in Seq(S)
  BY DEF WellNested
<1>2. Len(s) \in Nat /\ DOMAIN s = 1..Len(s)
  BY <1>1, LenProperties
<1>3. Len(s) >= 1
  BY <1>1, <1>2, EmptySeq, SMT
<1>4. Len(s) \in DOMAIN s
  BY <1>2, <1>3, SMT
<1> QED
  BY <1>2, <1>3, <1>4 DEF WellNested, Last

(* Replacing the top by an activation of the same function. *)
LEMMA TopReplaced ==
    ASSUME NEW s, WellNested(s), s # << >>, NEW f, FrameOK(f), f.fn = Last(s).fn
    PROVE  WellNested(WithTop(s, f)) /\ WithTop(s, f) # << >>
           /\ Last(WithTop(s, f)) = f /\ Len(WithTop(s, f)) = Len(s)
<1>1. PICK S : s \in Seq(S)
  BY DEF WellNested
<1> DEFINE T == S \cup {f}
           q == WithTop(s, f)
<1>2. s \in Seq(T) /\ f \in T
  BY <1>1, SeqMonotonic
<1>3. Len(s) \in Nat /\ Len(s) >= 1 /\ Len(s) \in 1..Len(s)
      /\ (Last(s).fn = "parse" => Len(s) = 1) /\ DOMAIN s = 1..Len(s)
  BY TopOfStack, SMT
<1>4. /\ q \in Seq(T) /\ Len(q) = Len(s)
      /\ \A j \in 1..Len(s) : q[j] = IF j = Len(s) THEN f ELSE s[j]
  BY <1>2, <1>3, ExceptSeq DEF WithTop
<1>5. DOMAIN q = 1..Len(s)
  BY <1>4, LenProperties
<1> HIDE DEF q
<1>6. \A i \in DOMAIN q : FrameOK(q[i]) /\ (q[i].fn = "parse" => i = 1)
  <2> SUFFICES ASSUME NEW i \in 1..Len(s)
               PROVE  FrameOK(q[i]) /\ (q[i].fn = "parse" => i = 1)
    BY <1>5
  <2>1. CASE i = Len(s)
    BY <2>1, <1>3, <1>4
  <2>2. CASE i # Len(s)
    <3>1. q[i] = s[i]
      BY <2>2, <1>4
    <3>2. i \in DOMAIN s
      BY <1>3
    <3> QED
      BY <3>1, <3>2 DEF WellNested
  <2> QED
    BY <2>1, <2>2
<1>7. \A i \in 1..(Len(q) - 1) : AwaitsTerm(q[i])
  <2> SUFFICES ASSUME NEW i \in 1..(Len(s) - 1)
               PROVE  AwaitsTerm(q[i])
    BY <1>4
  <2>1. i \in 1..Len(s) /\ i # Len(s)
    BY <1>3, Indices, Zenon
  <2>2. q[i] = s[i]
    BY <2>1, <1>4
  <2> QED
    BY <2>2 DEF WellNested
<1>8. q # << >>
  <2>1. Len(q) # 0
    BY <1>3, <1>4, Indices, Zenon
  <2> QED
    BY <2>1, EmptyHasLengthZero, Zenon
<1>9. q[Len(q)] = f
  BY <1>3, <1>4
<1>10. WellNested(q)
  BY <1>4, <1>6, <1>7 DEF WellNested
<1> QED
  BY <1>4, <1>8, <1>9, <1>10 DEF q, Last

(* A call: a new activation over one that awaits a term. *)
LEMMA CallPushed ==
    ASSUME NEW s, WellNested(s), s # << >> => AwaitsTerm(Last(s)),
           NEW f, FrameOK(f), f.fn # "parse"
    PROVE  WellNested(Append(s, f)) /\ Append(s, f) # << >> /\ Last(Append(s, f)) = f
<1>1. PICK S : s \in Seq(S)
  BY DEF WellNested
<1> DEFINE T == S \cup {f}
           q == Append(s, f)
<1>2. s \in Seq(T) /\ f \in T
  BY <1>1, SeqMonotonic
<1>3. Len(s) \in Nat /\ DOMAIN s = 1..Len(s)
  BY <1>2, LenProperties
<1>4. q \in Seq(T) /\ Len(q) = Len(s) + 1 /\ q[Len(s) + 1] = f
      /\ \A j \in 1..Len(s) : q[j] = s[j]
  BY <1>2, SMT
<1>5. DOMAIN q = 1..(Len(s) + 1)
  BY <1>4, LenProperties
<1> HIDE DEF q
<1>6. \A i \in DOMAIN q : FrameOK(q[i]) /\ (q[i].fn = "parse" => i = 1)
  <2> SUFFICES ASSUME NEW i \in 1..(Len(s) + 1)
               PROVE  FrameOK(q[i]) /\ (q[i].fn = "parse" => i = 1)
    BY <1>5
  <2>1. CASE i = Len(s) + 1
    BY <2>1, <1>4
  <2>2. CASE i # Len(s) + 1
    <3>1. i \in 1..Len(s)
      BY <2>2, <1>3, SMT
    <3>2. q[i] = s[i] /\ i \in DOMAIN s
      BY <3>1, <1>3, <1>4
    <3> QED
      BY <3>2 DEF WellNested
  <2> QED
    BY <2>1, <2>2
<1>7. \A i \in 1..(Len(q) - 1) : AwaitsTerm(q[i])
  <2> SUFFICES ASSUME NEW i \in 1..Len(s)
               PROVE  AwaitsTerm(q[i])
    BY <1>3, <1>4, SMT
  <2>1. q[i] = s[i]
    BY <1>4
  <2>2. CASE i = Len(s)
    <3>1. s # << >>
      BY <2>2, <1>3, EmptySeq, SMT
    <3> QED
      BY <3>1, <2>1, <2>2 DEF Last
  <2>3. CASE i # Len(s)
    <3>1. i \in 1..(Len(s) - 1)
      BY <2>3, <1>3, Indices, Zenon
    <3> QED
      BY <3>1, <2>1 DEF WellNested
  <2> QED
    BY <2>2, <2>3
<1>8. q # << >> /\ q[Len(q)] = f
  BY <1>3, <1>4, EmptySeq, SMT
<1>9. WellNested(q)
  BY <1>4, <1>6, <1>7 DEF WellNested
<1> QED
  BY <1>8, <1>9 DEF q, Last

(* A return: the activation below awaits the term. *)
LEMMA CallReturned ==
    ASSUME NEW s, WellNested(s), s # << >>
    PROVE  WellNested(WithoutTop(s))
           /\ (WithoutTop(s) # << >> => AwaitsTerm(Last(WithoutTop(s))))
<1>1. PICK S : s \in Seq(S)
  BY DEF WellNested
<1> DEFINE q == WithoutTop(s)
           n == Len(s) - 1
<1>2. Len(s) \in Nat /\ Len(s) >= 1 /\ DOMAIN s = 1..Len(s)
  BY TopOfStack
<1>3. n \in Nat /\ \A i \in 1..n : i \in 1..Len(s)
  BY <1>2, SMT
<1>4. \A i \in 1..n : s[i] \in S
  BY <1>1, <1>3, ElementOfSeq
<1>5. /\ q \in Seq(S) /\ Len(q) = IF 1 <= n THEN n - 1 + 1 ELSE 0
      /\ \A i \in 1..(n - 1 + 1) : q[i] = s[1 + i - 1]
  BY <1>3, <1>4, SubSeqProperties, 1 \in Int, n \in Int DEF WithoutTop
<1>6. Len(q) = n /\ \A i \in 1..n : q[i] = s[i]
  <2>1. \A m \in Nat : (IF 1 <= m THEN m - 1 + 1 ELSE 0) = m /\ m - 1 + 1 = m
    OBVIOUS
  <2>2. \A i \in 1..n : 1 + i - 1 = i
    BY <1>3
  <2> HIDE DEF q, n
  <2> QED
    BY <1>3, <1>5, <2>1, <2>2, Zenon
<1>7. DOMAIN q = 1..n
  BY <1>5, <1>6, LenProperties
<1> HIDE DEF q
<1>8. \A i \in DOMAIN q : FrameOK(q[i]) /\ (q[i].fn = "parse" => i = 1)
  <2> SUFFICES ASSUME NEW i \in 1..n
               PROVE  FrameOK(q[i]) /\ (q[i].fn = "parse" => i = 1)
    BY <1>7
  <2>1. q[i] = s[i] /\ i \in DOMAIN s
    BY <1>2, <1>3, <1>6
  <2> QED
    BY <2>1 DEF WellNested
<1>9. \A i \in 1..n : AwaitsTerm(q[i])
  BY <1>6 DEF WellNested
<1>10. \A i \in 1..(n - 1) : i \in 1..n
  BY <1>3, SMT
<1>11. WellNested(q)
  BY <1>5, <1>6, <1>8, <1>9, <1>10 DEF WellNested
<1>12. q # << >> => Len(q) \in 1..n
  BY <1>3, <1>5, <1>6, EmptySeq, SMT
<1> QED
  BY <1>9, <1>11, <1>12 DEF q, Last

--------------------------------------------------------------------------------
(* Activations *)

LEMMA PlacesAndCalls ==
    /\ DOMAIN Places = {"parse", "parseList", "parseCompoundOrAtom"}
    /\ Places["parse"] = {"predicate", "open", "loop", "separator"}
    /\ Places["parseList"] = {"first", "rest", "tail", "end"}
    /\ Places["parseCompoundOrAtom"] = {"name", "first", "rest"}
    /\ Calls["parse"] = {"loop"}
    /\ Calls["parseList"] = {"first", "rest", "tail"}
    /\ Calls["parseCompoundOrAtom"] = {"first", "rest"}
BY DEF Places, Calls

LEMMA NewFrame ==
    ASSUME NEW fn \in DOMAIN Places, NEW name, NEW at \in Places[fn], at # "end"
    PROVE  FrameOK(Frame(fn, name, at)) /\ Frame(fn, name, at).fn = fn /\ Frame(fn, name, at).at = at
BY DEF FrameOK, Frame

LEMMA FrameMoved ==
    ASSUME NEW f, FrameOK(f), NEW at \in Places[f.fn], at # "end"
    PROVE  /\ FrameOK([f EXCEPT !.at = at])
           /\ [f EXCEPT !.at = at].fn = f.fn
           /\ [f EXCEPT !.at = at].at = at
BY DEF FrameOK

Named(f, name, at) == [f EXCEPT !.name = name, !.at = at]
GivenTerms(f, terms, at) == [f EXCEPT !.terms = terms, !.at = at]

LEMMA FrameNamed ==
    ASSUME NEW f, FrameOK(f), NEW name, NEW at \in Places[f.fn], at # "end"
    PROVE  /\ FrameOK(Named(f, name, at))
           /\ Named(f, name, at).fn = f.fn
           /\ Named(f, name, at).at = at
<1> DEFINE g == [f EXCEPT !.name = name]
<1>1. FrameOK(g) /\ g.fn = f.fn
  BY DEF FrameOK
<1>2. Named(f, name, at) = [g EXCEPT !.at = at]
  BY DEF Named
<1> HIDE DEF g
<1> QED
  BY <1>1, <1>2, FrameMoved

LEMMA FrameGivenTerms ==
    ASSUME NEW f, FrameOK(f), NEW terms, NEW at \in Places[f.fn], at # "end"
    PROVE  /\ FrameOK(GivenTerms(f, terms, at))
           /\ GivenTerms(f, terms, at).fn = f.fn
           /\ GivenTerms(f, terms, at).at = at
<1> DEFINE g == [f EXCEPT !.terms = terms]
<1>1. FrameOK(g) /\ g.fn = f.fn
  BY DEF FrameOK
<1>2. GivenTerms(f, terms, at) = [g EXCEPT !.at = at]
  BY DEF GivenTerms
<1> HIDE DEF g
<1> QED
  BY <1>1, <1>2, FrameMoved

LEMMA FrameEnds ==
    ASSUME NEW f, FrameOK(f), "end" \in Places[f.fn], Len(f.tail) = 1
    PROVE  /\ FrameOK([f EXCEPT !.at = "end"])
           /\ [f EXCEPT !.at = "end"].fn = f.fn
           /\ [f EXCEPT !.at = "end"].at = "end"
BY DEF FrameOK

LEMMA FrameGivenTail ==
    ASSUME NEW f, FrameOK(f), "end" \in Places[f.fn], NEW t
    PROVE  /\ FrameOK([f EXCEPT !.tail = <<t>>, !.at = "end"])
           /\ [f EXCEPT !.tail = <<t>>, !.at = "end"].fn = f.fn
           /\ [f EXCEPT !.tail = <<t>>, !.at = "end"].at = "end"
<1> DEFINE g == [f EXCEPT !.tail = <<t>>]
<1>1. FrameOK(g) /\ g.fn = f.fn /\ Len(g.tail) = 1
  BY DEF FrameOK
<1>2. [f EXCEPT !.tail = <<t>>, !.at = "end"] = [g EXCEPT !.at = "end"]
  OBVIOUS
<1> HIDE DEF g
<1> QED
  BY <1>1, <1>2, FrameEnds

--------------------------------------------------------------------------------
(* The invariant *)

(* The input: nothing is read past its end, nor past its bound. *)
InputOK ==
    /\ ruleMode \in BOOLEAN
    /\ look \in Tokens(ruleMode) \cup {EndOfInput}
    /\ consumed \in Seq(Tokens(ruleMode)) /\ Len(consumed) <= MaxTokens
    /\ look # EndOfInput => Len(consumed) < MaxTokens

ControlOK ==
    /\ entry \in {"parse", "parseTerm"}
    /\ pc \in {"idle", "frame", "term", "return", "accepted", "rejected"}
    /\ WellNested(stack)
    /\ pc = "frame" => stack # << >>
    /\ pc \in {"term", "return"} /\ stack # << >> => AwaitsTerm(Last(stack))
    /\ Ended => stack = << >>

ParserInv == InputOK /\ ControlOK

LEMMA InvIsTyped == ASSUME ParserInv PROVE TypeOK
<1>1. CASE stack = << >>
  <2>1. DOMAIN stack = {}
    BY <1>1
  <2> QED
    BY <1>1, <2>1 DEF ParserInv, InputOK, ControlOK, TypeOK, CallsNest
<1>2. CASE stack # << >>
  <2>1. Len(stack) \in Nat /\ DOMAIN stack = 1..Len(stack)
    BY <1>2, TopOfStack DEF ParserInv, ControlOK
  <2>2. CallsNest
    <3> SUFFICES ASSUME NEW i \in 1..Len(stack), i < Len(stack) \/ pc \in {"term", "return"}
                 PROVE  AwaitsTerm(stack[i])
      BY <2>1 DEF CallsNest
    <3>1. CASE i = Len(stack)
      <4>1. pc \in {"term", "return"}
        BY <3>1, <2>1
      <4> QED
        BY <3>1, <4>1, <1>2 DEF ParserInv, ControlOK, Last
    <3>2. CASE i # Len(stack)
      <4>1. i \in 1..(Len(stack) - 1)
        BY <3>2, <2>1, Indices, Zenon
      <4> QED
        BY <4>1 DEF ParserInv, ControlOK, WellNested
    <3> QED
      BY <3>1, <3>2
  <2>3. \A i \in DOMAIN stack : FrameOK(stack[i]) /\ (stack[i].fn = "parse" => i = 1)
    BY DEF ParserInv, ControlOK, WellNested
  <2> QED
    BY <2>2, <2>3 DEF ParserInv, InputOK, ControlOK, TypeOK
<1> QED
  BY <1>1, <1>2

LEMMA EmptyStackNested == WellNested(<< >>)
<1>1. << >> \in Seq({}) /\ Len(<< >>) = 0 /\ DOMAIN << >> = {}
  BY EmptySeq, LenProperties
<1>2. 1..(0 - 1) = {}
  OBVIOUS
<1> QED
  BY <1>1, <1>2 DEF WellNested

--------------------------------------------------------------------------------
(* What a step does to the input, and where it leaves the control *)

LEMMA AdvanceInput ==
    ASSUME InputOK, Advance, look # EndOfInput, ruleMode' = ruleMode
    PROVE  InputOK' /\ Len(consumed') = Len(consumed) + 1
<1>1. look \in Tokens(ruleMode) /\ consumed \in Seq(Tokens(ruleMode)) /\ Len(consumed) < MaxTokens
  BY DEF InputOK
<1>2. Len(consumed) \in Nat /\ MaxTokens \in Nat
  BY <1>1, LenProperties, MaxTokensAssumption
<1>3. consumed' \in Seq(Tokens(ruleMode)) /\ Len(consumed') = Len(consumed) + 1
  BY <1>1 DEF Advance
<1>4. look' \in Tokens(ruleMode) \cup {EndOfInput}
      /\ (look' # EndOfInput => Len(consumed) + 1 < MaxTokens)
  BY DEF Advance
<1>5. \A n, m \in Nat : n < m => n + 1 <= m
  OBVIOUS
<1>6. Len(consumed') <= MaxTokens
  BY <1>1, <1>2, <1>3, <1>5
<1>7. EndOfInput' = EndOfInput /\ Tokens(ruleMode)' = Tokens(ruleMode)
  BY DEF EndOfInput, Mark, Token, Tokens, Punctuation, AddToken, LParen, RParen, Comma, LBracket, RBracket, Pipe
<1> QED
  BY <1>3, <1>4, <1>6, <1>7 DEF InputOK

LEMMA StayInput ==
    ASSUME InputOK, Stay, ruleMode' = ruleMode
    PROVE  InputOK' /\ consumed' = consumed
BY DEF InputOK, Stay

LEMMA SeesAToken ==
    ASSUME NEW types, Sees(types), "END" \notin types
    PROVE  look # EndOfInput
BY DEF Sees, EndOfInput, Mark, Token

LEMMA GoesOn ==
    ASSUME ControlOK, entry' = entry, pc' = "frame", WellNested(stack'), stack' # << >>
    PROVE  ControlOK'
BY DEF ControlOK, Ended

LEMMA CallsOrReturns ==
    ASSUME ControlOK, entry' = entry, pc' \in {"term", "return"}, WellNested(stack'),
           stack' # << >> => AwaitsTerm(Last(stack'))
    PROVE  ControlOK'
BY DEF ControlOK, Ended

LEMMA Ends ==
    ASSUME ControlOK, entry' = entry, pc' \in {"accepted", "rejected"}, stack' = << >>
    PROVE  ControlOK'
BY EmptyStackNested DEF ControlOK, Ended

LEMMA Ranks == Rank \in 0..5 /\ (~Ended => Rank >= 1)
BY DEF Rank

(* A step of a call, told by what it does to the input. *)
LEMMA StepTaken ==
    ASSUME ParserInv, ControlOK', ruleMode' = ruleMode, ~Ended,
           \/ Stay /\ Rank' < Rank
           \/ Advance /\ look # EndOfInput
    PROVE  ParserInv' /\ StepsLeft' < StepsLeft
<1>1. InputOK /\ Len(consumed) \in Nat /\ MaxTokens \in Nat /\ Len(consumed) <= MaxTokens
  BY LenProperties, MaxTokensAssumption DEF ParserInv, InputOK
<1>2. Rank \in 0..5 /\ Rank >= 1 /\ Rank' \in 0..5
  BY Ranks, Ranks' DEF Rank
<1>3. CASE Stay /\ Rank' < Rank
  <2>1. InputOK' /\ Len(consumed') = Len(consumed)
    BY <1>1, <1>3, StayInput
  <2>2. \A m, n, r, s \in Int : r < s => 6 * (m - n) + r < 6 * (m - n) + s
    OBVIOUS
  <2>3. StepsLeft' = 6 * (MaxTokens - Len(consumed)) + Rank'
    BY <2>1 DEF StepsLeft
  <2>4. StepsLeft' < StepsLeft
    BY <1>1, <1>2, <1>3, <2>2, <2>3 DEF StepsLeft
  <2> QED
    BY <2>1, <2>4 DEF ParserInv
<1>4. CASE Advance /\ look # EndOfInput
  <2>1. InputOK' /\ Len(consumed') = Len(consumed) + 1
    BY <1>1, <1>4, AdvanceInput
  <2>2. \A m, n \in Int : \A r \in 0..5, s \in 1..5 : 6 * (m - (n + 1)) + r < 6 * (m - n) + s
    OBVIOUS
  <2>3. StepsLeft' = 6 * (MaxTokens - (Len(consumed) + 1)) + Rank'
    BY <2>1 DEF StepsLeft
  <2>4. StepsLeft' < StepsLeft
    BY <1>1, <1>2, <2>2, <2>3 DEF StepsLeft
  <2> QED
    BY <2>1, <2>4 DEF ParserInv
<1> QED
  BY <1>3, <1>4

(* What is known of an activation that goes on at some place. *)
LEMMA AtPlace ==
    ASSUME ParserInv, NEW fn, NEW at, Waits(fn, at)
    PROVE  /\ ~Ended /\ pc = "frame" /\ WellNested(stack) /\ stack # << >>
           /\ Top = Last(stack) /\ FrameOK(Top) /\ Top.fn = fn /\ Top.at = at
           /\ fn \in DOMAIN Places
           /\ fn = "parse" => Len(stack) = 1
           /\ Rank = IF at = "name" THEN 5 ELSE IF at = "separator" THEN 3 ELSE 2
<1>1. pc = "frame" /\ Top.fn = fn /\ Top.at = at
  BY DEF Waits
<1>2. WellNested(stack) /\ stack # << >> /\ ~Ended
  BY <1>1 DEF ParserInv, ControlOK, Ended
<1>3. Top = Last(stack) /\ FrameOK(Top) /\ (fn = "parse" => Len(stack) = 1)
  BY <1>1, <1>2, TopOfStack DEF Top, Last
<1>4. fn \in DOMAIN Places
  BY <1>1, <1>3 DEF FrameOK
<1>5. Rank = IF at = "name" THEN 5 ELSE IF at = "separator" THEN 3 ELSE 2
  BY <1>1, <1>2 DEF Rank
<1> QED
  BY <1>1, <1>2, <1>3, <1>4, <1>5

LEMMA StepRejects ==
    ASSUME ParserInv, ~Ended, Reject
    PROVE  ParserInv' /\ StepsLeft' < StepsLeft
<1>1. ControlOK'
  BY Ends DEF Reject, ParserInv
<1>2. Stay /\ Rank' = 0
  BY DEF Reject, Stay, Rank, Ended
<1>3. Rank \in 0..5 /\ Rank >= 1
  BY Ranks
<1> QED
  BY <1>1, <1>2, <1>3, StepTaken DEF Reject

(* The top activation goes on at another place. *)
LEMMA StepMoves ==
    ASSUME ParserInv, NEW fn, NEW at, Waits(fn, at),
           NEW STATE f, FrameOK(f), f.fn = Top.fn, GoOn(SetTop(f)),
           \/ Stay /\ at = "separator" /\ f.at = "loop"
           \/ Advance /\ look # EndOfInput
    PROVE  ParserInv' /\ StepsLeft' < StepsLeft
<1>1. /\ ~Ended /\ WellNested(stack) /\ stack # << >> /\ Top = Last(stack)
      /\ at = "separator" => Rank = 3
  BY AtPlace
<1>2. stack' = WithTop(stack, f) /\ pc' = "frame" /\ entry' = entry /\ ruleMode' = ruleMode
  BY DEF GoOn, SetTop, WithTop
<1>3. WellNested(stack') /\ stack' # << >> /\ Last(stack') = f
  BY <1>1, <1>2, TopReplaced
<1>4. ControlOK'
  BY <1>2, <1>3, GoesOn DEF ParserInv
<1>5. CASE Advance /\ look # EndOfInput
  BY <1>1, <1>2, <1>4, <1>5, StepTaken
<1>6. CASE Stay /\ at = "separator" /\ f.at = "loop"
  <2>1. Top' = f
    BY <1>3 DEF Top, Last
  <2>2. Rank' = 2
    BY <1>2, <1>6, <2>1 DEF Rank, Ended
  <2> QED
    BY <1>1, <1>2, <1>4, <1>6, <2>2, StepTaken
<1> QED
  BY <1>5, <1>6

(* The top activation calls for a term. *)
LEMMA StepCalls ==
    ASSUME ParserInv, NEW fn, NEW at, Waits(fn, at),
           NEW STATE f, FrameOK(f), f.fn = Top.fn, AwaitsTerm(f),
           CallTerm(SetTop(f)) \/ (CallTerm(stack) /\ f = Top),
           Stay \/ (Advance /\ look # EndOfInput)
    PROVE  ParserInv' /\ StepsLeft' < StepsLeft
<1>1. /\ ~Ended /\ WellNested(stack) /\ stack # << >> /\ Top = Last(stack)
      /\ Rank > 1
  BY AtPlace
<1>2. pc' = "term" /\ entry' = entry /\ ruleMode' = ruleMode
      /\ (stack' = WithTop(stack, f) \/ (stack' = stack /\ f = Top))
  BY DEF CallTerm, SetTop, WithTop
<1>3. WellNested(stack') /\ Last(stack') = f
  BY <1>1, <1>2, TopReplaced
<1>4. ControlOK'
  BY <1>2, <1>3, CallsOrReturns DEF ParserInv
<1>5. Rank' = 1
  BY <1>2 DEF Rank, Ended
<1> QED
  BY <1>1, <1>2, <1>4, <1>5, StepTaken

(* The top activation returns a term to the one below. *)
LEMMA StepReturns ==
    ASSUME ParserInv, NEW fn, NEW at, Waits(fn, at), NEW STATE t, ReturnTerm(Popped, t),
           (Stay /\ at = "name") \/ (Advance /\ look # EndOfInput)
    PROVE  ParserInv' /\ StepsLeft' < StepsLeft
<1>1. /\ ~Ended /\ WellNested(stack) /\ stack # << >>
      /\ at = "name" => Rank = 5
  BY AtPlace
<1>2. stack' = WithoutTop(stack) /\ pc' = "return" /\ entry' = entry /\ ruleMode' = ruleMode
  BY DEF ReturnTerm, Popped, WithoutTop
<1>3. WellNested(stack') /\ (stack' # << >> => AwaitsTerm(Last(stack')))
  BY <1>1, <1>2, CallReturned
<1>4. ControlOK'
  BY <1>2, <1>3, CallsOrReturns DEF ParserInv
<1>5. Rank' = 4
  BY <1>2 DEF Rank, Ended
<1> QED
  BY <1>1, <1>2, <1>4, <1>5, StepTaken

--------------------------------------------------------------------------------
(* Every action *)

LEMMA ParseSteps ==
    ASSUME ParserInv, Predicate \/ Open \/ NextTerm \/ Separator \/ Close
    PROVE  ParserInv' /\ StepsLeft' < StepsLeft
<1>1. CASE Predicate
  <2> USE <1>1 DEF Predicate
  <2>1. CASE Reject
    BY <2>1, AtPlace, StepRejects
  <2>2. CASE /\ Sees({"IDENTIFIER"}) /\ Advance
             /\ GoOn(SetTop([Top EXCEPT !.name = look.value, !.at = "open"]))
    <3>1. FrameOK(Top) /\ "open" \in Places[Top.fn]
      BY AtPlace, PlacesAndCalls
    <3> DEFINE f == Named(Top, look.value, "open")
    <3>2. FrameOK(f) /\ f.fn = Top.fn
      BY <3>1, FrameNamed
    <3>3. look # EndOfInput
      BY <2>2, SeesAToken
    <3>4. Advance /\ GoOn(SetTop(f))
      BY <2>2 DEF Named
    <3> HIDE DEF f
    <3> QED
      BY <3>2, <3>3, <3>4, StepMoves
  <2> QED
    BY <2>1, <2>2
<1>2. CASE Open
  <2> USE <1>2 DEF Open
  <2>1. CASE Reject
    BY <2>1, AtPlace, StepRejects
  <2>2. CASE Sees({"LPAREN"}) /\ Advance /\ GoOn(SetTop([Top EXCEPT !.at = "loop"]))
    <3>1. FrameOK(Top) /\ "loop" \in Places[Top.fn]
      BY AtPlace, PlacesAndCalls
    <3>2. FrameOK([Top EXCEPT !.at = "loop"]) /\ [Top EXCEPT !.at = "loop"].fn = Top.fn
      BY <3>1, FrameMoved
    <3>3. look # EndOfInput
      BY <2>2, SeesAToken
    <3> QED
      BY <2>2, <3>2, <3>3, StepMoves
  <2> QED
    BY <2>1, <2>2
<1>3. CASE NextTerm
  <2>1. Waits("parse", "loop") /\ Stay /\ CallTerm(stack)
    BY <1>3 DEF NextTerm
  <2>2. FrameOK(Top) /\ AwaitsTerm(Top)
    BY <2>1, AtPlace, PlacesAndCalls DEF AwaitsTerm
  <2> QED
    BY <2>1, <2>2, StepCalls
<1>4. CASE Separator
  <2> USE <1>4 DEF Separator
  <2>1. CASE Reject
    BY <2>1, AtPlace, StepRejects
  <2>2. FrameOK(Top) /\ "loop" \in Places[Top.fn]
    BY AtPlace, PlacesAndCalls
  <2>3. /\ FrameOK([Top EXCEPT !.at = "loop"]) /\ [Top EXCEPT !.at = "loop"].fn = Top.fn
        /\ [Top EXCEPT !.at = "loop"].at = "loop"
    BY <2>2, FrameMoved
  <2>4. CASE Stay /\ GoOn(SetTop([Top EXCEPT !.at = "loop"]))
    BY <2>3, <2>4, StepMoves
  <2>5. CASE Sees({"COMMA"}) /\ Advance /\ GoOn(SetTop([Top EXCEPT !.at = "loop"]))
    <3>1. look # EndOfInput
      BY <2>5, SeesAToken
    <3> QED
      BY <2>3, <2>5, <3>1, StepMoves
  <2> QED
    BY <2>1, <2>4, <2>5
<1>5. CASE Close
  <2> USE <1>5 DEF Close
  <2>1. CASE Reject
    BY <2>1, AtPlace, StepRejects
  <2>2. CASE Sees({"RPAREN"}) /\ Advance /\ pc' = "accepted" /\ stack' = << >>
             /\ UNCHANGED <<ruleMode, entry>>
    <3>1. look # EndOfInput
      BY <2>2, SeesAToken
    <3>2. ControlOK'
      BY <2>2, Ends DEF ParserInv
    <3> QED
      BY <2>2, <3>1, <3>2, AtPlace, StepTaken
  <2> QED
    BY <2>1, <2>2
<1> QED
  BY <1>1, <1>2, <1>3, <1>4, <1>5

LEMMA TermSteps ==
    ASSUME ParserInv, Term \/ TermParsed \/ Returned
    PROVE  ParserInv' /\ StepsLeft' < StepsLeft
<1>1. CASE Term
  <2> USE <1>1 DEF Term
  <2>1. pc = "term" /\ ~Ended /\ WellNested(stack) /\ (stack # << >> => AwaitsTerm(Last(stack)))
    BY DEF ParserInv, ControlOK, Ended
  <2>2. CASE Reject
    BY <2>1, <2>2, StepRejects
  <2>3. CASE /\ Advance /\ look # EndOfInput
             /\ \E f : FrameOK(f) /\ f.fn # "parse" /\ GoOn(Append(stack, f))
    <3>1. PICK f : FrameOK(f) /\ f.fn # "parse" /\ GoOn(Append(stack, f))
      BY <2>3
    <3>2. pc' = "frame" /\ stack' = Append(stack, f) /\ entry' = entry /\ ruleMode' = ruleMode
      BY <3>1 DEF GoOn
    <3>3. WellNested(Append(stack, f)) /\ Append(stack, f) # << >>
      BY <2>1, <3>1, CallPushed
    <3>4. ControlOK'
      BY <3>2, <3>3, GoesOn DEF ParserInv
    <3> QED
      BY <2>1, <2>3, <3>2, <3>4, StepTaken
  <2>4. CASE Sees({"LBRACKET"}) /\ Advance
             /\ GoOn(Append(stack, Frame("parseList", EmptyText, "first")))
    <3>1. /\ FrameOK(Frame("parseList", EmptyText, "first"))
          /\ Frame("parseList", EmptyText, "first").fn # "parse"
      BY NewFrame, PlacesAndCalls
    <3>2. look # EndOfInput
      BY <2>4, SeesAToken
    <3> QED
      BY <2>3, <2>4, <3>1, <3>2
  <2>5. CASE Sees({"IDENTIFIER"}) /\ Advance
             /\ GoOn(Append(stack, Frame("parseCompoundOrAtom", look.value, "name")))
    <3>1. /\ FrameOK(Frame("parseCompoundOrAtom", look.value, "name"))
          /\ Frame("parseCompoundOrAtom", look.value, "name").fn # "parse"
      BY NewFrame, PlacesAndCalls
    <3>2. look # EndOfInput
      BY <2>5, SeesAToken
    <3> QED
      BY <2>3, <2>5, <3>1, <3>2
  <2>6. CASE Sees({"VARIABLE", "NUMBER"}) /\ Advance /\ ReturnTerm(stack, Atomic)
    <3>1. look # EndOfInput
      BY <2>6, SeesAToken
    <3>2. pc' = "return" /\ stack' = stack /\ entry' = entry /\ ruleMode' = ruleMode
      BY <2>6 DEF ReturnTerm
    <3>3. ControlOK'
      BY <2>1, <3>2, CallsOrReturns DEF ParserInv
    <3> QED
      BY <2>1, <2>6, <3>1, <3>2, <3>3, StepTaken
  <2> QED
    BY <2>2, <2>4, <2>5, <2>6
<1>2. CASE TermParsed
  <2>1. /\ ~Ended /\ pc' = "accepted" /\ stack' = << >>
        /\ UNCHANGED <<ruleMode, entry, look, consumed>>
    BY <1>2 DEF TermParsed, Ended
  <2>2. ControlOK'
    BY <2>1, Ends DEF ParserInv
  <2>3. Stay /\ Rank' = 0 /\ Rank = 4
    BY <1>2, <2>1 DEF TermParsed, Stay, Rank, Ended
  <2> QED
    BY <2>1, <2>2, <2>3, StepTaken
<1>3. CASE Returned
  <2>1. pc = "return" /\ stack # << >> /\ Stay /\ ~Ended
    BY <1>3 DEF Returned, Ended
  <2>2. /\ WellNested(stack) /\ FrameOK(Top) /\ AwaitsTerm(Top) /\ Top = Last(stack)
    BY <2>1, TopOfStack DEF ParserInv, ControlOK, Top, Last
  <2>3. Rank = 4
    BY <2>1 DEF Rank, Ended
  <2>4. CASE \E f : FrameOK(f) /\ f.fn = Top.fn /\ f.at # "name" /\ GoOn(SetTop(f))
    <3>1. PICK f : FrameOK(f) /\ f.fn = Top.fn /\ f.at # "name" /\ GoOn(SetTop(f))
      BY <2>4
    <3>2. pc' = "frame" /\ stack' = WithTop(stack, f) /\ entry' = entry /\ ruleMode' = ruleMode
      BY <3>1 DEF GoOn, SetTop, WithTop
    <3>3. WellNested(stack') /\ stack' # << >> /\ Last(stack') = f
      BY <2>1, <2>2, <3>1, <3>2, TopReplaced
    <3>4. ControlOK'
      BY <3>2, <3>3, GoesOn DEF ParserInv
    <3>5. Rank' < 4
      <4>1. Top' = f
        BY <3>3 DEF Top, Last
      <4> QED
        BY <3>1, <3>2, <4>1 DEF Rank, Ended
    <3> QED
      BY <2>1, <2>3, <3>2, <3>4, <3>5, StepTaken
  <2>5. CASE Top.at = "tail" /\ GoOn(SetTop([Top EXCEPT !.tail = <<term>>, !.at = "end"]))
    <3>1. "end" \in Places[Top.fn]
      BY <2>2, <2>5, PlacesAndCalls DEF FrameOK
    <3>2. /\ FrameOK([Top EXCEPT !.tail = <<term>>, !.at = "end"])
          /\ [Top EXCEPT !.tail = <<term>>, !.at = "end"].fn = Top.fn
          /\ [Top EXCEPT !.tail = <<term>>, !.at = "end"].at = "end"
      BY <2>2, <3>1, FrameGivenTail
    <3> QED
      BY <2>4, <2>5, <3>2, Zenon
  <2>6. CASE /\ Top.at # "tail"
             /\ GoOn(SetTop([Top EXCEPT !.terms = Append(@, term),
                                        !.at = IF Top.fn = "parse" THEN "separator" ELSE "rest"]))
    <3> DEFINE terms == Append(Top.terms, term)
               at == IF Top.fn = "parse" THEN "separator" ELSE "rest"
    <3>1. at \in Places[Top.fn] /\ at # "end" /\ at # "name"
      BY <2>2, PlacesAndCalls DEF FrameOK
    <3>2. GoOn(SetTop(GivenTerms(Top, terms, at)))
      BY <2>6 DEF GivenTerms
    <3> HIDE DEF terms, at
    <3>3. /\ FrameOK(GivenTerms(Top, terms, at))
          /\ GivenTerms(Top, terms, at).fn = Top.fn
          /\ GivenTerms(Top, terms, at).at = at
      BY <2>2, <3>1, FrameGivenTerms
    <3> QED
      BY <2>4, <3>1, <3>2, <3>3, Zenon
  <2> QED
    BY <1>3, <2>5, <2>6 DEF Returned
<1> QED
  BY <1>1, <1>2, <1>3

LEMMA ListSteps ==
    ASSUME ParserInv, EmptyBrackets \/ ListRest \/ ListEnd
    PROVE  ParserInv' /\ StepsLeft' < StepsLeft
<1>1. CASE EmptyBrackets
  <2> USE <1>1 DEF EmptyBrackets
  <2>1. CASE Sees({"RBRACKET"}) /\ Advance /\ ReturnTerm(Popped, EmptyList)
    <3>1. look # EndOfInput
      BY <2>1, SeesAToken
    <3> QED
      BY <2>1, <3>1, StepReturns
  <2>2. CASE Stay /\ CallTerm(stack)
    <3>1. FrameOK(Top) /\ AwaitsTerm(Top)
      BY AtPlace, PlacesAndCalls DEF AwaitsTerm
    <3> QED
      BY <2>2, <3>1, StepCalls
  <2> QED
    BY <2>1, <2>2
<1>2. CASE ListRest
  <2> USE <1>2 DEF ListRest
  <2>1. FrameOK(Top) /\ AwaitsTerm(Top) /\ "tail" \in Places[Top.fn] /\ "tail" \in Calls[Top.fn]
    BY AtPlace, PlacesAndCalls DEF AwaitsTerm
  <2>2. CASE Reject
    BY <2>2, AtPlace, StepRejects
  <2>3. CASE Sees({"COMMA"}) /\ Advance /\ CallTerm(stack)
    <3>1. look # EndOfInput
      BY <2>3, SeesAToken
    <3> QED
      BY <2>1, <2>3, <3>1, StepCalls
  <2>4. CASE Sees({"PIPE"}) /\ Advance /\ CallTerm(SetTop([Top EXCEPT !.at = "tail"]))
    <3>1. look # EndOfInput
      BY <2>4, SeesAToken
    <3>2. /\ FrameOK([Top EXCEPT !.at = "tail"]) /\ [Top EXCEPT !.at = "tail"].fn = Top.fn
          /\ [Top EXCEPT !.at = "tail"].at = "tail"
      BY <2>1, FrameMoved
    <3>3. AwaitsTerm([Top EXCEPT !.at = "tail"])
      BY <2>1, <3>2 DEF AwaitsTerm
    <3> QED
      BY <2>4, <3>1, <3>2, <3>3, StepCalls
  <2>5. CASE Sees({"RBRACKET"}) /\ Advance /\ ReturnTerm(Popped, ListOf(Top.terms, EmptyList))
    <3>1. look # EndOfInput
      BY <2>5, SeesAToken
    <3> QED
      BY <2>5, <3>1, StepReturns
  <2> QED
    BY <2>2, <2>3, <2>4, <2>5
<1>3. CASE ListEnd
  <2> USE <1>3 DEF ListEnd
  <2>1. CASE Reject
    BY <2>1, AtPlace, StepRejects
  <2>2. CASE Sees({"RBRACKET"}) /\ Advance /\ ReturnTerm(Popped, ListOf(Top.terms, Top.tail[1]))
    <3>1. look # EndOfInput
      BY <2>2, SeesAToken
    <3> QED
      BY <2>2, <3>1, StepReturns
  <2> QED
    BY <2>1, <2>2
<1> QED
  BY <1>1, <1>2, <1>3

LEMMA CompoundSteps ==
    ASSUME ParserInv, Name \/ FirstArgument \/ Arguments
    PROVE  ParserInv' /\ StepsLeft' < StepsLeft
<1>1. CASE Name
  <2> USE <1>1 DEF Name
  <2>1. CASE Sees({"LPAREN"}) /\ Advance /\ GoOn(SetTop([Top EXCEPT !.at = "first"]))
    <3>1. look # EndOfInput
      BY <2>1, SeesAToken
    <3>2. FrameOK(Top) /\ "first" \in Places[Top.fn]
      BY AtPlace, PlacesAndCalls
    <3>3. FrameOK([Top EXCEPT !.at = "first"]) /\ [Top EXCEPT !.at = "first"].fn = Top.fn
      BY <3>2, FrameMoved
    <3> QED
      BY <2>1, <3>1, <3>3, StepMoves
  <2>2. CASE Stay /\ ReturnTerm(Popped, Constant(Top.name))
    BY <2>2, StepReturns
  <2> QED
    BY <2>1, <2>2
<1>2. CASE FirstArgument
  <2> USE <1>2 DEF FirstArgument
  <2>1. CASE Sees({"RPAREN"}) /\ Advance /\ ReturnTerm(Popped, Compound(Top.name, << >>))
    <3>1. look # EndOfInput
      BY <2>1, SeesAToken
    <3> QED
      BY <2>1, <3>1, StepReturns
  <2>2. CASE Stay /\ CallTerm(stack)
    <3>1. FrameOK(Top) /\ AwaitsTerm(Top)
      BY AtPlace, PlacesAndCalls DEF AwaitsTerm
    <3> QED
      BY <2>2, <3>1, StepCalls
  <2> QED
    BY <2>1, <2>2
<1>3. CASE Arguments
  <2> USE <1>3 DEF Arguments
  <2>1. CASE Reject
    BY <2>1, AtPlace, StepRejects
  <2>2. CASE Sees({"COMMA"}) /\ Advance /\ CallTerm(stack)
    <3>1. look # EndOfInput
      BY <2>2, SeesAToken
    <3>2. FrameOK(Top) /\ AwaitsTerm(Top)
      BY AtPlace, PlacesAndCalls DEF AwaitsTerm
    <3> QED
      BY <2>2, <3>1, <3>2, StepCalls
  <2>3. CASE Sees({"RPAREN"}) /\ Advance /\ ReturnTerm(Popped, Compound(Top.name, Top.terms))
    <3>1. look # EndOfInput
      BY <2>3, SeesAToken
    <3> QED
      BY <2>3, <3>1, StepReturns
  <2> QED
    BY <2>1, <2>2, <2>3
<1> QED
  BY <1>1, <1>2, <1>3

LEMMA DescendStep ==
    ASSUME ParserInv, Descend
    PROVE  ParserInv' /\ StepsLeft' < StepsLeft
BY ParseSteps, TermSteps, ListSteps, CompoundSteps DEF Descend

(* A call begins with a stack of at most one activation, that of parse. *)
LEMMA CallBegins ==
    ASSUME ParserInv, NEW mode \in BOOLEAN, Parse(mode) \/ ParseTerm(mode)
    PROVE  ParserInv'
<1>1. InputOK'
  <2>1. ruleMode' = mode /\ look' \in Tokens(mode) \cup {EndOfInput} /\ consumed' = << >>
    BY DEF Parse, ParseTerm, Begin
  <2>2. << >> \in Seq(Tokens(mode)) /\ Len(<< >>) = 0
    BY EmptySeq
  <2>3. 0 < MaxTokens /\ 0 <= MaxTokens
    BY MaxTokensAssumption
  <2> QED
    BY <2>1, <2>2, <2>3 DEF InputOK
<1>2. ControlOK'
  <2>1. CASE Parse(mode)
    <3> DEFINE f == Frame("parse", EmptyText, "predicate")
    <3>1. FrameOK(f)
      BY NewFrame, PlacesAndCalls
    <3> HIDE DEF f
    <3>2. <<f>> \in Seq({f}) /\ Len(<<f>>) = 1 /\ <<f>>[1] = f
      OBVIOUS
    <3>3. DOMAIN <<f>> = 1..1
      BY <3>2, LenProperties
    <3>4. 1..(1 - 1) = {} /\ 1..1 = {1} /\ <<f>> # << >>
      OBVIOUS
    <3>5. stack' = <<f>> /\ pc' = "frame" /\ entry' = "parse"
      BY <2>1 DEF Parse, f
    <3> DEFINE s == <<f>>
    <3>6. s \in Seq({f}) /\ Len(s) = 1 /\ s[1] = f /\ DOMAIN s = {1} /\ s # << >>
      BY <3>2, <3>3, <3>4
    <3> HIDE DEF s
    <3>7. \A i \in DOMAIN s : FrameOK(s[i]) /\ (s[i].fn = "parse" => i = 1)
      BY <3>1, <3>6
    <3>8. \A i \in 1..(Len(s) - 1) : AwaitsTerm(s[i])
      BY <3>4, <3>6
    <3>9. WellNested(s)
      BY <3>6, <3>7, <3>8 DEF WellNested
    <3> QED
      BY <3>5, <3>6, <3>9 DEF ControlOK, Ended, s
  <2>2. CASE ParseTerm(mode)
    BY <2>2, EmptyStackNested DEF ParseTerm, ControlOK, Ended
  <2> QED
    BY <2>1, <2>2
<1> QED
  BY <1>1, <1>2 DEF ParserInv

LEMMA InvInitially == ASSUME Init PROVE ParserInv
<1>1. << >> \in Seq(Tokens(FALSE)) /\ Len(<< >>) = 0
  BY EmptySeq
<1>2. 0 <= MaxTokens
  BY MaxTokensAssumption
<1> QED
  BY <1>1, <1>2, EmptyStackNested DEF Init, ParserInv, InputOK, ControlOK, Ended

LEMMA InvKept == ASSUME ParserInv, [Next]_vars PROVE ParserInv'
<1>1. CASE UNCHANGED vars
  BY <1>1 DEF vars, ParserInv, InputOK, ControlOK, Ended
<1>2. CASE Next
  BY <1>2, CallBegins, DescendStep DEF Next
<1> QED
  BY <1>1, <1>2

--------------------------------------------------------------------------------
(***************************************************************************)
(* In every reachable state the parser's state is well formed, and its      *)
(* calls nest: a term read is returned to an activation that has called for *)
(* one and has a place for it; and the parser never advances past the end   *)
(* of the input, whatever the words, the nesting and the length.           *)
(***************************************************************************)
THEOREM ParserTypeCorrect == Spec => []TypeOK
<1>1. Spec => []ParserInv
  BY InvInitially, InvKept, PTL DEF Spec
<1>2. ParserInv => TypeOK
  BY InvIsTyped
<1> QED
  BY <1>1, <1>2, PTL

(***************************************************************************)
(* Every step of a call leaves fewer steps than there were: a call on at    *)
(* most MaxTokens tokens takes no more than 6 * MaxTokens + 2 of them.  It  *)
(* is the safety half of ParsesEnd: what remains is that the thread goes on *)
(* and is never stuck, which is model-checked.                             *)
(***************************************************************************)
THEOREM ParserStepsRunOut == Spec => StepsRunOut
<1>1. Spec => []ParserInv
  BY InvInitially, InvKept, PTL DEF Spec
<1>2. ParserInv /\ [Next]_vars => [Descend => StepsLeft' < StepsLeft]_vars
  BY DescendStep
<1> QED
  BY <1>1, <1>2, PTL DEF Spec, StepsRunOut

(* The number of steps left is never negative. *)
THEOREM StepsLeftCounts == Spec => [](StepsLeft \in Nat)
<1>1. Spec => []ParserInv
  BY InvInitially, InvKept, PTL DEF Spec
<1>2. ParserInv => StepsLeft \in Nat
  <2> SUFFICES ASSUME ParserInv PROVE StepsLeft \in Nat
    OBVIOUS
  <2>1. Len(consumed) \in Nat /\ MaxTokens \in Nat /\ Len(consumed) <= MaxTokens
    BY LenProperties, MaxTokensAssumption DEF ParserInv, InputOK
  <2>2. \A n, m \in Nat : \A r \in 0..5 : n <= m => 6 * (m - n) + r \in Nat
    OBVIOUS
  <2> QED
    BY <2>1, <2>2, Ranks DEF StepsLeft
<1> QED
  BY <1>1, <1>2, PTL

--------------------------------------------------------------------------------
(***************************************************************************)
(* Sequences, the lists that parseList builds, and the table of spellings. *)
(***************************************************************************)

(* Induction over the numbers, with a set for the predicate. *)

Below == {p \in Nat \X Nat : p[1] < p[2]}

LEMMA BelowWF == IsWellFoundedOn(Below, Nat)
<1>1. OpToRel(<, Nat) = Below
  BY DEF OpToRel, Below
<1> QED
  BY <1>1, NatLessThanWellFounded

(* Induction over the numbers, for a set of them. *)
LEMMA SetInduction ==
    ASSUME NEW S, 0 \in S, \A n \in Nat : n \in S => n + 1 \in S
    PROVE  Nat \subseteq S
<1> DEFINE T == Nat \ S
<1> SUFFICES ASSUME T # {} PROVE FALSE
  OBVIOUS
<1>1. PICK x \in T : \A y \in T : <<y, x>> \notin Below
  <2>1. T \subseteq Nat
    OBVIOUS
  <2> HIDE DEF T
  <2> QED
    BY <2>1, BelowWF, WFMin
<1>2. x # 0 /\ x \in Nat
  OBVIOUS
<1>3. x - 1 \in Nat /\ x - 1 < x /\ x - 1 + 1 = x
  BY <1>2
<1>4. x - 1 \in T
  BY <1>2, <1>3
<1>5. <<x - 1, x>> \in Below
  BY <1>2, <1>3 DEF Below
<1> QED
  BY <1>1, <1>4, <1>5

--------------------------------------------------------------------------------
(* Sequences of anything *)

IsSeq(s) == \E S : s \in Seq(S)

(* What there is to know of a sequence, of two equal ones and of a concatenation. *)
LEMMA SeqFacts ==
    ASSUME NEW s, IsSeq(s)
    PROVE  /\ Len(s) \in Nat /\ DOMAIN s = 1..Len(s)
           /\ Len(s) = 0 <=> s = << >>
           /\ s \o << >> = s /\ << >> \o s = s
<1>1. PICK S : s \in Seq(S)
  BY DEF IsSeq
<1> QED
  BY <1>1, LenProperties, EmptySeq, ConcatEmptySeq

LEMMA SeqSame ==
    ASSUME NEW s, IsSeq(s), NEW t, IsSeq(t), Len(s) = Len(t), \A i \in 1..Len(s) : s[i] = t[i]
    PROVE  s = t
<1>1. PICK S : s \in Seq(S)
  BY DEF IsSeq
<1>2. PICK T : t \in Seq(T)
  BY DEF IsSeq
<1>3. s \in Seq(S \cup T) /\ t \in Seq(S \cup T)
  BY <1>1, <1>2, SeqMonotonic
<1> QED
  BY <1>3, SeqEqual

LEMMA CatFacts ==
    ASSUME NEW s, IsSeq(s), NEW t, IsSeq(t)
    PROVE  /\ IsSeq(s \o t) /\ Len(s \o t) = Len(s) + Len(t)
           /\ \A i \in 1..Len(s) : (s \o t)[i] = s[i]
           /\ \A i \in 1..Len(t) : (s \o t)[Len(s) + i] = t[i]
<1>1. PICK S : s \in Seq(S)
  BY DEF IsSeq
<1>2. PICK T : t \in Seq(T)
  BY DEF IsSeq
<1>3. s \in Seq(S \cup T) /\ t \in Seq(S \cup T)
  BY <1>1, <1>2, SeqMonotonic
<1>4. Len(s) \in Nat /\ Len(t) \in Nat
  BY <1>3, LenProperties
<1>5. /\ s \o t \in Seq(S \cup T) /\ Len(s \o t) = Len(s) + Len(t)
      /\ \A i \in 1..(Len(s) + Len(t)) : (s \o t)[i] = IF i <= Len(s) THEN s[i] ELSE t[i - Len(s)]
  BY <1>3, ConcatProperties
<1>6. \A i \in 1..Len(s) : (s \o t)[i] = s[i]
  BY <1>4, <1>5
<1>7. \A i \in 1..Len(t) : (s \o t)[Len(s) + i] = t[i]
  BY <1>4, <1>5
<1> QED
  BY <1>5, <1>6, <1>7 DEF IsSeq

LEMMA CatAssoc ==
    ASSUME NEW s, IsSeq(s), NEW t, IsSeq(t), NEW u, IsSeq(u)
    PROVE  (s \o t) \o u = s \o (t \o u)
<1>1. PICK S : s \in Seq(S)
  BY DEF IsSeq
<1>2. PICK T : t \in Seq(T)
  BY DEF IsSeq
<1>3. PICK U : u \in Seq(U)
  BY DEF IsSeq
<1>4. s \in Seq(S \cup T \cup U) /\ t \in Seq(S \cup T \cup U) /\ u \in Seq(S \cup T \cup U)
  BY <1>1, <1>2, <1>3, SeqMonotonic
<1> QED
  BY <1>4, ConcatAssociative

LEMMA OneFacts == \A x : IsSeq(<<x>>) /\ Len(<<x>>) = 1 /\ <<x>>[1] = x
<1> SUFFICES ASSUME NEW x PROVE IsSeq(<<x>>) /\ Len(<<x>>) = 1 /\ <<x>>[1] = x
  OBVIOUS
<1>1. <<x>> \in Seq({x})
  OBVIOUS
<1> QED
  BY <1>1 DEF IsSeq

LEMMA AppendIsCat ==
    ASSUME NEW s, IsSeq(s), NEW x
    PROVE  Append(s, x) = s \o <<x>> /\ IsSeq(Append(s, x))
<1>1. PICK S : s \in Seq(S)
  BY DEF IsSeq
<1>2. s \in Seq(S \cup {x}) /\ x \in S \cup {x}
  BY <1>1, SeqMonotonic
<1> QED
  BY <1>2, AppendIsConcat, AppendProperties DEF IsSeq

(* A sequence begins with its first element. *)
LEMMA FirstAndRest ==
    ASSUME NEW s, IsSeq(s), s # << >>
    PROVE  \E t : IsSeq(t) /\ s = <<s[1]>> \o t
<1>1. PICK S : s \in Seq(S)
  BY DEF IsSeq
<1>2. Len(s) \in Nat /\ Len(s) # 0
  BY <1>1, SeqFacts
<1>3. SubSeq(s, 1, Len(s)) = s /\ 1 \in 1..Len(s) /\ Len(s) \in 1..Len(s)
  BY <1>1, <1>2, SubSeqFull
<1>4. s = <<s[1]>> \o SubSeq(s, 1 + 1, Len(s))
  BY <1>1, <1>3, SubSeqRecursiveFirst
<1>5. \A i \in (1 + 1)..Len(s) : s[i] \in S
  BY <1>1, <1>2, LenProperties
<1>6. SubSeq(s, 1 + 1, Len(s)) \in Seq(S)
  BY <1>2, <1>5, SubSeqProperties, 1 + 1 \in Int, Len(s) \in Int
<1> QED
  BY <1>4, <1>6 DEF IsSeq

LEMMA SameFirst ==
    ASSUME NEW s, IsSeq(s), NEW t, IsSeq(t), NEW x, NEW y, <<x>> \o s = <<y>> \o t
    PROVE  x = y /\ s = t
<1>1. /\ IsSeq(<<x>>) /\ Len(<<x>>) = 1 /\ <<x>>[1] = x
      /\ IsSeq(<<y>>) /\ Len(<<y>>) = 1 /\ <<y>>[1] = y
  BY OneFacts
<1>2. Len(s) \in Nat /\ Len(t) \in Nat
  BY SeqFacts
<1>3. /\ (<<x>> \o s)[1] = x /\ Len(<<x>> \o s) = 1 + Len(s)
      /\ \A i \in 1..Len(s) : (<<x>> \o s)[1 + i] = s[i]
  <2>1. 1 \in 1..1
    OBVIOUS
  <2> QED
    BY <1>1, <2>1, CatFacts
<1>4. /\ (<<y>> \o t)[1] = y /\ Len(<<y>> \o t) = 1 + Len(t)
      /\ \A i \in 1..Len(t) : (<<y>> \o t)[1 + i] = t[i]
  <2>1. 1 \in 1..1
    OBVIOUS
  <2> QED
    BY <1>1, <2>1, CatFacts
<1>5. Len(s) = Len(t)
  BY <1>2, <1>3, <1>4
<1>6. \A i \in 1..Len(s) : s[i] = t[i]
  BY <1>3, <1>4, <1>5
<1> QED
  BY <1>3, <1>4, <1>5, <1>6, SeqSame

--------------------------------------------------------------------------------
(* The cells of a list.  ListOf folds over the sets of places that are left. *)

SmallestOf(s) == CHOOSE i \in s : \A j \in s : i <= j

FoldStep(g, es, l, s) == IF s = {} THEN l ELSE ConsCell(es[SmallestOf(s)], g[s \ {SmallestOf(s)}])

FoldsOver(g, es, l, D) == g = [s \in SUBSET D |-> FoldStep(g, es, l, s)]

TheFold(es, l) == CHOOSE g : FoldsOver(g, es, l, DOMAIN es)

(* ListOf, one cell at a time from the end. *)
LEMMA ListOfIsFold == ASSUME NEW es, NEW l PROVE ListOf(es, l) = TheFold(es, l)[DOMAIN es]
BY Zenon DEF ListOf, FoldRight, MapThenFoldSet, TheFold, FoldsOver, FoldStep, SmallestOf, Min

LEMMA SmallestIsThere ==
    ASSUME NEW n \in Nat, NEW s \in SUBSET (1..n), s # {}
    PROVE  SmallestOf(s) \in s /\ \A j \in s : SmallestOf(s) <= j
<1>1. \E i \in s : \A j \in s : i <= j
  <2>1. PICK x \in s : \A y \in s : <<y, x>> \notin Below
    <3>1. s \subseteq Nat
      OBVIOUS
    <3> QED
      BY <3>1, BelowWF, WFMin
  <2>0. \A y \in s : y \in Nat
    OBVIOUS
  <2>2. ASSUME NEW y \in s PROVE y \in Nat /\ x \in Nat /\ ~(y < x)
    <3>1. y \in Nat /\ x \in Nat
      BY <2>0
    <3>2. <<y, x>> \notin Below
      BY <2>1
    <3> QED
      BY <3>1, <3>2 DEF Below
  <2>3. \A a, b \in Nat : ~(b < a) => a <= b
    OBVIOUS
  <2> QED
    BY <2>2, <2>3
<1> QED
  BY <1>1 DEF SmallestOf

(* Without the smallest, those above it are left. *)
LEMMA AboveSmallest ==
    ASSUME NEW n \in Nat, NEW k \in 1..n, NEW s \in SUBSET (k..n), s # {}
    PROVE  s \ {SmallestOf(s)} \in SUBSET ((k + 1)..n) /\ SmallestOf(s) \in k..n
<1>1. s \in SUBSET (1..n)
  OBVIOUS
<1>2. SmallestOf(s) \in s /\ \A j \in s : SmallestOf(s) <= j
  BY <1>1, SmallestIsThere
<1>3. ASSUME NEW j \in s, j # SmallestOf(s) PROVE j \in (k + 1)..n
  <2>1. j \in k..n /\ SmallestOf(s) \in k..n /\ SmallestOf(s) <= j
    BY <1>2
  <2>2. \A a, b \in k..n : a <= b /\ b # a => b \in (k + 1)..n
    OBVIOUS
  <2> QED
    BY <1>3, <2>1, <2>2
<1> QED
  BY <1>2, <1>3

LEMMA SmallestOfInterval ==
    ASSUME NEW n \in Nat, NEW k \in 1..n
    PROVE  SmallestOf(k..n) = k /\ (k..n) \ {k} = (k + 1)..n /\ k..n # {}
<1>1. k..n \in SUBSET (1..n) /\ k \in k..n /\ (k..n) \ {k} = (k + 1)..n
  OBVIOUS
<1>2. SmallestOf(k..n) \in k..n /\ \A j \in k..n : SmallestOf(k..n) <= j
  BY <1>1, SmallestIsThere
<1>3. \A a \in k..n : a <= k => a = k
  OBVIOUS
<1> QED
  BY <1>1, <1>2, <1>3

LEMMA FoldStepSame ==
    ASSUME NEW g, NEW h, NEW es, NEW l, NEW s, s # {} => g[s \ {SmallestOf(s)}] = h[s \ {SmallestOf(s)}]
    PROVE  FoldStep(g, es, l, s) = FoldStep(h, es, l, s)
BY DEF FoldStep

LEMMA FoldValues ==
    ASSUME NEW g, NEW es, NEW l, NEW D, FoldsOver(g, es, l, D)
    PROVE  \A s \in SUBSET D : g[s] = FoldStep(g, es, l, s)
BY DEF FoldsOver

LEMMA FoldExtends ==
    ASSUME NEW n \in Nat, NEW k \in 1..n, NEW es, NEW l, NEW g, FoldsOver(g, es, l, (k + 1)..n)
    PROVE  \E h : FoldsOver(h, es, l, k..n)
<1> DEFINE h == [s \in SUBSET (k..n) |-> FoldStep(g, es, l, s)]
<1>1. \A s \in SUBSET ((k + 1)..n) : g[s] = FoldStep(g, es, l, s)
  BY FoldValues
<1>2. \A s \in SUBSET (k..n) : h[s] = FoldStep(g, es, l, s)
  OBVIOUS
<1>3. \A s \in SUBSET ((k + 1)..n) : s \in SUBSET (k..n)
  <2>1. \A i \in (k + 1)..n : i \in k..n
    OBVIOUS
  <2> QED
    BY <2>1
<1>4. h = [s \in SUBSET (k..n) |-> h[s]]
  OBVIOUS
<1> HIDE DEF h
<1>5. ASSUME NEW s \in SUBSET (k..n) PROVE h[s] = FoldStep(h, es, l, s)
  <2>1. ASSUME s # {} PROVE g[s \ {SmallestOf(s)}] = h[s \ {SmallestOf(s)}]
    BY <1>1, <1>2, <1>3, <2>1, AboveSmallest
  <2> QED
    BY <1>2, <2>1, FoldStepSame
<1>6. FoldsOver(h, es, l, k..n)
  BY <1>4, <1>5, Zenon DEF FoldsOver
<1> QED
  BY <1>6

LEMMA FoldExists ==
    ASSUME NEW n \in Nat, NEW es, NEW l
    PROVE  \E g : FoldsOver(g, es, l, 1..n)
<1> DEFINE Part(j) == (n - j + 1)..n
           S == {j \in Nat : j <= n => \E g : FoldsOver(g, es, l, Part(j))}
<1>1. 0 \in S
  <2>1. Part(0) = {}
    OBVIOUS
  <2> DEFINE h == [s \in SUBSET {} |-> l]
  <2>2. FoldsOver(h, es, l, {})
    <3>1. \A s \in SUBSET {} : s = {}
      OBVIOUS
    <3>2. \A s \in SUBSET {} : FoldStep(h, es, l, s) = l
      BY <3>1 DEF FoldStep
    <3> QED
      BY <3>2, Zenon DEF FoldsOver
  <2> QED
    BY <2>1, <2>2
<1>2. ASSUME NEW j \in Nat, j \in S PROVE j + 1 \in S
  <2> SUFFICES ASSUME j + 1 <= n PROVE \E g : FoldsOver(g, es, l, Part(j + 1))
    OBVIOUS
  <2> DEFINE k == n - j
  <2>1. k \in 1..n /\ k + 1 = n - j + 1 /\ k = n - (j + 1) + 1 /\ j <= n
    OBVIOUS
  <2>2. PICK g : FoldsOver(g, es, l, Part(j))
    BY <1>2, <2>1
  <2> HIDE DEF k
  <2>3. FoldsOver(g, es, l, (k + 1)..n)
    BY <2>1, <2>2
  <2>4. \E h : FoldsOver(h, es, l, k..n)
    BY <2>1, <2>3, FoldExtends
  <2> QED
    BY <2>1, <2>4
<1>3. n \in S
  <2> HIDE DEF S
  <2> QED
    BY <1>1, <1>2, SetInduction
<1>4. Part(n) = 1..n
  BY n - n + 1 = 1
<1> QED
  BY <1>3, <1>4

LEMMA TheFoldFolds ==
    ASSUME NEW es, IsSeq(es), NEW l
    PROVE  /\ DOMAIN es = 1..Len(es) /\ Len(es) \in Nat
           /\ \A s \in SUBSET (1..Len(es)) : TheFold(es, l)[s] = FoldStep(TheFold(es, l), es, l, s)
<1>1. DOMAIN es = 1..Len(es) /\ Len(es) \in Nat
  BY SeqFacts
<1>2. FoldsOver(TheFold(es, l), es, l, 1..Len(es))
  BY <1>1, FoldExists, Zenon DEF TheFold
<1> QED
  BY <1>1, <1>2, FoldValues

LEMMA FoldAtInterval ==
    ASSUME NEW es, IsSeq(es), NEW l, NEW k \in 1..Len(es)
    PROVE  TheFold(es, l)[k..Len(es)] = ConsCell(es[k], TheFold(es, l)[(k + 1)..Len(es)])
<1>1. Len(es) \in Nat /\ TheFold(es, l)[k..Len(es)] = FoldStep(TheFold(es, l), es, l, k..Len(es))
  <2>1. k..Len(es) \in SUBSET (1..Len(es))
    OBVIOUS
  <2> QED
    BY <2>1, TheFoldFolds
<1> QED
  BY <1>1, SmallestOfInterval DEF FoldStep

LEMMA ListOfNone == ASSUME NEW l PROVE ListOf(<< >>, l) = l
<1>1. IsSeq(<< >>) /\ Len(<< >>) = 0 /\ 1..0 = {}
  BY EmptySeq DEF IsSeq
<1>2. ListOf(<< >>, l) = FoldStep(TheFold(<< >>, l), << >>, l, {})
  BY <1>1, TheFoldFolds, ListOfIsFold
<1> QED
  BY <1>2 DEF FoldStep

(* An element more is a cell around the tail. *)
LEMMA ListOfAppend ==
    ASSUME NEW es, IsSeq(es), NEW m, NEW l
    PROVE  ListOf(Append(es, m), l) = ListOf(es, ConsCell(m, l))
<1> DEFINE n == Len(es)
           more == Append(es, m)
           cell == ConsCell(m, l)
<1>1. n \in Nat /\ IsSeq(more) /\ Len(more) = n + 1 /\ more[n + 1] = m
      /\ (\A i \in 1..n : more[i] = es[i]) /\ DOMAIN es = 1..n /\ DOMAIN more = 1..(n + 1)
  <2>1. more = es \o <<m>> /\ IsSeq(more)
    BY AppendIsCat
  <2>2. IsSeq(<<m>>) /\ Len(<<m>>) = 1 /\ <<m>>[1] = m /\ 1 \in 1..1
    BY OneFacts
  <2>3. n \in Nat /\ DOMAIN es = 1..n /\ DOMAIN more = 1..Len(more)
    BY <2>1, SeqFacts
  <2> QED
    BY <2>1, <2>2, <2>3, CatFacts
<1> HIDE DEF n, more
<1> DEFINE S == {j \in Nat : j <= n =>
                    TheFold(more, l)[(n + 1 - j)..(n + 1)] = TheFold(es, cell)[(n + 1 - j)..n]}
<1>2. 0 \in S
  <2>1. (n + 1 - 0)..(n + 1) = (n + 1)..(n + 1) /\ (n + 1 - 0)..n = {} /\ (n + 1 + 1)..(n + 1) = {}
        /\ n + 1 \in 1..(n + 1)
    BY <1>1
  <2>2. TheFold(more, l)[(n + 1)..(n + 1)] = ConsCell(m, TheFold(more, l)[{}])
    <3>1. TheFold(more, l)[(n + 1)..Len(more)] = ConsCell(more[n + 1], TheFold(more, l)[(n + 1 + 1)..Len(more)])
      BY <1>1, <2>1, FoldAtInterval
    <3> QED
      BY <1>1, <2>1, <3>1
  <2>3. TheFold(more, l)[{}] = l
    <3>1. TheFold(more, l)[{}] = FoldStep(TheFold(more, l), more, l, {})
      BY <1>1, TheFoldFolds
    <3> QED
      BY <3>1 DEF FoldStep
  <2>4. TheFold(es, cell)[{}] = cell
    <3>1. TheFold(es, cell)[{}] = FoldStep(TheFold(es, cell), es, cell, {})
      BY TheFoldFolds
    <3> QED
      BY <3>1 DEF FoldStep
  <2> QED
    BY <2>1, <2>2, <2>3, <2>4
<1>3. ASSUME NEW j \in Nat, j \in S PROVE j + 1 \in S
  <2> SUFFICES ASSUME j + 1 <= n
               PROVE  TheFold(more, l)[(n + 1 - (j + 1))..(n + 1)] = TheFold(es, cell)[(n + 1 - (j + 1))..n]
    OBVIOUS
  <2> DEFINE k == n - j
  <2>1. k \in 1..n /\ k \in 1..(n + 1) /\ k + 1 = n + 1 - j /\ k = n + 1 - (j + 1) /\ j <= n
    BY <1>1
  <2>2. TheFold(more, l)[(n + 1 - j)..(n + 1)] = TheFold(es, cell)[(n + 1 - j)..n]
    BY <1>3, <2>1
  <2> HIDE DEF k, cell
  <2>3. TheFold(more, l)[k..(n + 1)] = ConsCell(more[k], TheFold(more, l)[(k + 1)..(n + 1)])
    <3>1. IsSeq(more) /\ k \in 1..Len(more) /\ Len(more) = n + 1
      BY <1>1, <2>1
    <3> HIDE DEF S
    <3> QED
      BY <3>1, FoldAtInterval
  <2>4. TheFold(es, cell)[k..n] = ConsCell(es[k], TheFold(es, cell)[(k + 1)..n])
    BY <2>1, FoldAtInterval DEF n
  <2>5. more[k] = es[k]
    BY <1>1, <2>1
  <2> QED
    BY <2>1, <2>2, <2>3, <2>4, <2>5
<1>4. n \in S
  <2> HIDE DEF S
  <2> QED
    BY <1>1, <1>2, <1>3, SetInduction
<1>5. TheFold(more, l)[1..(n + 1)] = TheFold(es, cell)[1..n]
  <2>1. n + 1 - n = 1
    BY <1>1
  <2> QED
    BY <1>1, <1>4, <2>1
<1> QED
  BY <1>1, <1>5, ListOfIsFold DEF more, cell

--------------------------------------------------------------------------------
(* The table of the language *)

RowsStep(f, n, mode) == IF n = 0 THEN << >> ELSE Append(f[n - 1], Row(f[n - 1], n, mode))

RowsBuilt(f, N, mode) == f = [n \in 0..N |-> RowsStep(f, n, mode)]

Rows(N, mode) == CHOOSE f : RowsBuilt(f, N, mode)

(* The rows of the table are a function that exists. *)
LEMMA TableIsLastRows == ASSUME NEW N, NEW mode PROVE Table(N, mode) = Rows(N, mode)[N]
BY Zenon DEF Table, Rows, RowsBuilt, RowsStep

LEMMA RowsExist == ASSUME NEW N \in Nat, NEW mode PROVE \E f : RowsBuilt(f, N, mode)
<1> DEFINE S == {n \in Nat : \E f : RowsBuilt(f, n, mode)}
<1>1. 0 \in S
  <2> DEFINE h == [n \in 0..0 |-> << >>]
  <2>1. \A n \in 0..0 : n = 0
    OBVIOUS
  <2>2. \A n \in 0..0 : RowsStep(h, n, mode) = << >>
    BY <2>1 DEF RowsStep
  <2>3. h = [n \in 0..0 |-> RowsStep(h, n, mode)]
    <3> HIDE DEF h
    <3>1. [n \in 0..0 |-> RowsStep(h, n, mode)] = [n \in 0..0 |-> << >>]
      BY <2>2, Zenon
    <3> QED
      BY <3>1 DEF h
  <2> HIDE DEF h
  <2> QED
    BY <2>3 DEF RowsBuilt
<1>2. ASSUME NEW n \in Nat, n \in S PROVE n + 1 \in S
  <2>1. PICK f : RowsBuilt(f, n, mode)
    BY <1>2
  <2>2. \A k \in 0..n : f[k] = RowsStep(f, k, mode)
    BY <2>1 DEF RowsBuilt
  <2> DEFINE h == [k \in 0..(n + 1) |-> RowsStep(f, k, mode)]
  <2>3. \A k \in 0..n : h[k] = f[k]
    <3>1. \A k \in 0..n : k \in 0..(n + 1)
      OBVIOUS
    <3> QED
      BY <2>2, <3>1
  <2>4. \A k \in 0..(n + 1) : h[k] = RowsStep(f, k, mode)
    OBVIOUS
  <2>5. h = [k \in 0..(n + 1) |-> h[k]]
    OBVIOUS
  <2> HIDE DEF h
  <2>6. ASSUME NEW k \in 0..(n + 1) PROVE h[k] = RowsStep(h, k, mode)
    <3>1. CASE k = 0
      BY <2>4, <3>1 DEF RowsStep
    <3>2. CASE k # 0
      <4>1. k - 1 \in 0..n
        BY <3>2
      <4>2. h[k - 1] = f[k - 1]
        BY <2>3, <4>1
      <4> QED
        BY <2>4, <3>2, <4>2 DEF RowsStep
    <3> QED
      BY <3>1, <3>2
  <2>7. RowsBuilt(h, n + 1, mode)
    BY <2>5, <2>6, Zenon DEF RowsBuilt
  <2> QED
    BY <2>7
<1> HIDE DEF S
<1>3. N \in S
  BY <1>1, <1>2, SetInduction
<1> QED
  BY <1>3 DEF S

LEMMA RowsValues ==
    ASSUME NEW N \in Nat, NEW mode
    PROVE  \A n \in 0..N : Rows(N, mode)[n] = RowsStep(Rows(N, mode), n, mode)
<1>1. RowsBuilt(Rows(N, mode), N, mode)
  BY RowsExist, Zenon DEF Rows
<1> HIDE DEF Rows
<1> QED
  BY <1>1 DEF RowsBuilt

LEMMA AppendFacts ==
    ASSUME NEW s, IsSeq(s), NEW x
    PROVE  /\ IsSeq(Append(s, x)) /\ Len(Append(s, x)) = Len(s) + 1
           /\ Append(s, x)[Len(s) + 1] = x
           /\ \A i \in 1..Len(s) : Append(s, x)[i] = s[i]
<1>1. Append(s, x) = s \o <<x>> /\ IsSeq(Append(s, x))
  BY AppendIsCat
<1>2. IsSeq(<<x>>) /\ Len(<<x>>) = 1 /\ <<x>>[1] = x /\ 1 \in 1..1
  BY OneFacts
<1> QED
  BY <1>1, <1>2, CatFacts

(* The rows of the first numbers stay as they are when more are added. *)
LEMMA RowsGrow ==
    ASSUME NEW N \in Nat, NEW mode
    PROVE  \A n \in 0..N :
               /\ IsSeq(Rows(N, mode)[n]) /\ Len(Rows(N, mode)[n]) = n
               /\ \A k \in 1..n : Rows(N, mode)[n][k] = Row(Rows(N, mode)[k - 1], k, mode)
<1> DEFINE r == Rows(N, mode)
           Good(n) == /\ IsSeq(r[n]) /\ Len(r[n]) = n
                      /\ \A k \in 1..n : r[n][k] = Row(r[k - 1], k, mode)
           S == {n \in Nat : n <= N => Good(n)}
<1>0. \A n \in 0..N : r[n] = RowsStep(r, n, mode)
  BY RowsValues
<1> HIDE DEF r
<1>1. 0 \in S
  <2>1. r[0] = << >> /\ Len(<< >>) = 0 /\ IsSeq(<< >>) /\ 1..0 = {}
    BY <1>0, EmptySeq DEF RowsStep, IsSeq
  <2> QED
    BY <2>1
<1>2. ASSUME NEW n \in Nat, n \in S PROVE n + 1 \in S
  <2> SUFFICES ASSUME n + 1 <= N PROVE Good(n + 1)
    OBVIOUS
  <2>1. Good(n) /\ n + 1 \in 0..N /\ n + 1 # 0 /\ n + 1 - 1 = n
    BY <1>2
  <2>2. r[n + 1] = Append(r[n], Row(r[n], n + 1, mode))
    <3>1. r[n + 1] = RowsStep(r, n + 1, mode)
      BY <1>0, <2>1
    <3> HIDE DEF S
    <3>2. RowsStep(r, n + 1, mode) = Append(r[n + 1 - 1], Row(r[n + 1 - 1], n + 1, mode))
      <4>1. n + 1 # 0
        OBVIOUS
      <4> QED
        BY <4>1 DEF RowsStep
    <3>3. n + 1 - 1 = n
      BY <2>1
    <3> QED
      BY <3>1, <3>2, <3>3
  <2>3. /\ IsSeq(r[n + 1]) /\ Len(r[n + 1]) = n + 1
        /\ r[n + 1][n + 1] = Row(r[n], n + 1, mode)
        /\ \A i \in 1..n : r[n + 1][i] = r[n][i]
    BY <2>1, <2>2, AppendFacts
  <2>4. ASSUME NEW k \in 1..(n + 1) PROVE r[n + 1][k] = Row(r[k - 1], k, mode)
    <3>1. CASE k = n + 1
      BY <2>1, <2>3, <3>1
    <3>2. CASE k # n + 1
      <4>1. k \in 1..n
        BY <3>2
      <4> QED
        BY <2>1, <2>3, <4>1
    <3> QED
      BY <3>1, <3>2
  <2> QED
    BY <2>3, <2>4
<1> HIDE DEF S
<1>3. Nat \subseteq S
  BY <1>1, <1>2, SetInduction
<1> QED
  BY <1>3 DEF S, r

(* Row n of the table is made of the rows before it. *)
LEMMA TableRows ==
    ASSUME NEW N \in Nat, NEW mode, NEW n \in 1..N
    PROVE  \E shorter :
               /\ Table(N, mode)[n] = Row(shorter, n, mode)
               /\ DOMAIN shorter = 1..(n - 1)
               /\ \A k \in 1..(n - 1) : shorter[k] = Table(N, mode)[k]
<1> DEFINE shorter == Rows(N, mode)[n - 1]
<1>1. n - 1 \in 0..N /\ N \in 0..N /\ n \in 1..N /\ \A k \in 1..(n - 1) : k \in 1..N
  OBVIOUS
<1>2. IsSeq(shorter) /\ Len(shorter) = n - 1
      /\ \A k \in 1..(n - 1) : shorter[k] = Row(Rows(N, mode)[k - 1], k, mode)
  BY <1>1, RowsGrow
<1>3. \A k \in 1..N : Table(N, mode)[k] = Row(Rows(N, mode)[k - 1], k, mode)
  BY <1>1, RowsGrow, TableIsLastRows
<1>4. DOMAIN shorter = 1..(n - 1)
  BY <1>2, SeqFacts
<1> QED
  BY <1>1, <1>2, <1>3, <1>4

Entry(kind, k, mode) ==
    IF k \in 1..MaxTokens THEN Table(MaxTokens, mode)[k][kind] ELSE {}

Kinds == {"terms", "items", "inner"}

(* What a row of the table holds, kind by kind. *)
LEMMA EntryOfRow ==
    ASSUME NEW mode, NEW n \in 1..MaxTokens
    PROVE  \E sh :
               /\ Entry("terms", n, mode) = TermRow(sh, n, mode)
               /\ Entry("items", n, mode) = ItemsRow(TermRow(sh, n, mode), sh, n)
               /\ Entry("inner", n, mode) = InnerRow(TermRow(sh, n, mode), sh, n)
               /\ \A k \in Int : k < n =>
                      \A kind \in Kinds : Shorter(sh, kind, k) = Entry(kind, k, mode)
<1>1. MaxTokens \in Nat
  BY MaxTokensAssumption
<1>2. PICK sh : /\ Table(MaxTokens, mode)[n] = Row(sh, n, mode)
                /\ DOMAIN sh = 1..(n - 1)
                /\ \A k \in 1..(n - 1) : sh[k] = Table(MaxTokens, mode)[k]
  BY <1>1, TableRows
<1>3. /\ Row(sh, n, mode).terms = TermRow(sh, n, mode)
      /\ Row(sh, n, mode).items = ItemsRow(TermRow(sh, n, mode), sh, n)
      /\ Row(sh, n, mode).inner = InnerRow(TermRow(sh, n, mode), sh, n)
  BY DEF Row
<1>4. /\ Entry("terms", n, mode) = TermRow(sh, n, mode)
      /\ Entry("items", n, mode) = ItemsRow(TermRow(sh, n, mode), sh, n)
      /\ Entry("inner", n, mode) = InnerRow(TermRow(sh, n, mode), sh, n)
  BY <1>2, <1>3 DEF Entry
<1>5. ASSUME NEW k \in Int, k < n, NEW kind \in Kinds
      PROVE  Shorter(sh, kind, k) = Entry(kind, k, mode)
  <2>1. k \in 1..(n - 1) <=> k \in 1..MaxTokens
    BY <1>1, <1>5
  <2> QED
    BY <1>2, <2>1 DEF Shorter, Entry
<1> QED
  BY <1>4, <1>5

(* What the sets of the grammar hold. *)
LEMMA CompoundsHold ==
    ASSUME NEW F, NEW L, NEW x
    PROVE  x \in Compounds(F, L) <=>
               \E f \in F, s \in L :
                   x = Spelling(<<f, LParen>> \o s.tokens \o <<RParen>>, Compound(f.value, s.meaning))
BY SMT DEF Compounds

LEMMA BracketedHold ==
    ASSUME NEW L, NEW x
    PROVE  x \in Bracketed(L) <=>
               \E s \in L : x = Spelling(<<LBracket>> \o s.tokens \o <<RBracket>>, s.meaning)
BY SMT DEF Bracketed

LEMMA JoinedTermsHold ==
    ASSUME NEW A, NEW B, NEW x
    PROVE  x \in JoinedTerms(A, B) <=>
               \E t \in A, s \in B :
                   x = Spelling(t.tokens \o <<Comma>> \o s.tokens, <<t.meaning>> \o s.meaning)
BY SMT DEF JoinedTerms

LEMMA JoinedCellsHold ==
    ASSUME NEW A, NEW mark, NEW B, NEW x
    PROVE  x \in JoinedCells(A, mark, B) <=>
               \E t \in A, s \in B :
                   x = Spelling(t.tokens \o <<mark>> \o s.tokens, ConsCell(t.meaning, s.meaning))
BY SMT DEF JoinedCells

LEMMA AtomsHold ==
    ASSUME NEW mode, NEW x
    PROVE  x \in AtomSpellings(mode) <=>
               \E t \in Tokens(mode) :
                   \/ t.type = "IDENTIFIER" /\ x = Spelling(<<t>>, Constant(t.value))
                   \/ t.type = "NUMBER" /\ x = Spelling(<<t>>, Number(t.value))
                   \/ t.type = "VARIABLE" /\ x = Spelling(<<t>>, Variable(t.value))
<1>1. x \in {Spelling(<<t>>, Constant(t.value)) : t \in Identifiers(mode)}
          <=> \E t \in Tokens(mode) : t.type = "IDENTIFIER" /\ x = Spelling(<<t>>, Constant(t.value))
  BY DEF Identifiers
<1>2. x \in {Spelling(<<t>>, Number(t.value)) : t \in {t \in Tokens(mode) : t.type = "NUMBER"}}
          <=> \E t \in Tokens(mode) : t.type = "NUMBER" /\ x = Spelling(<<t>>, Number(t.value))
  OBVIOUS
<1>3. x \in {Spelling(<<t>>, Variable(t.value)) : t \in {t \in Tokens(mode) : t.type = "VARIABLE"}}
          <=> \E t \in Tokens(mode) : t.type = "VARIABLE" /\ x = Spelling(<<t>>, Variable(t.value))
  OBVIOUS
<1> QED
  BY <1>1, <1>2, <1>3, Zenon DEF AtomSpellings

LEMMA TermEntry ==
    ASSUME NEW mode, NEW n \in 1..MaxTokens, NEW x
    PROVE  x \in Entry("terms", n, mode) <=>
               \/ n = 1 /\ x \in AtomSpellings(mode)
               \/ n = 2 /\ x = Spelling(<<LBracket, RBracket>>, EmptyList)
               \/ n = 3 /\ \E f \in Identifiers(mode) :
                               x = Spelling(<<f, LParen, RParen>>, Compound(f.value, << >>))
               \/ x \in Compounds(Identifiers(mode), Entry("items", n - 3, mode))
               \/ x \in Bracketed(Entry("inner", n - 2, mode))
<1>1. PICK sh : /\ Entry("terms", n, mode) = TermRow(sh, n, mode)
                /\ \A k \in Int : k < n =>
                      \A kind \in Kinds : Shorter(sh, kind, k) = Entry(kind, k, mode)
  BY EntryOfRow
<1>2. n - 3 \in Int /\ n - 3 < n /\ n - 2 \in Int /\ n - 2 < n
  OBVIOUS
<1>3. /\ Shorter(sh, "items", n - 3) = Entry("items", n - 3, mode)
      /\ Shorter(sh, "inner", n - 2) = Entry("inner", n - 2, mode)
  BY <1>1, <1>2 DEF Kinds
<1>4. x \in TermRow(sh, n, mode) <=>
               \/ n = 1 /\ x \in AtomSpellings(mode)
               \/ n = 2 /\ x = Spelling(<<LBracket, RBracket>>, EmptyList)
               \/ n = 3 /\ \E f \in Identifiers(mode) :
                               x = Spelling(<<f, LParen, RParen>>, Compound(f.value, << >>))
               \/ x \in Compounds(Identifiers(mode), Shorter(sh, "items", n - 3))
               \/ x \in Bracketed(Shorter(sh, "inner", n - 2))
  BY Zenon DEF TermRow
<1> QED
  BY <1>1, <1>3, <1>4, Zenon

LEMMA ItemsEntry ==
    ASSUME NEW mode, NEW n \in 1..MaxTokens, NEW x
    PROVE  x \in Entry("items", n, mode) <=>
               \/ \E t \in Entry("terms", n, mode) : x = Spelling(t.tokens, <<t.meaning>>)
               \/ \E k \in 1..(n - 2) :
                      x \in JoinedTerms(Entry("terms", k, mode), Entry("items", n - 1 - k, mode))
<1>1. PICK sh : /\ Entry("terms", n, mode) = TermRow(sh, n, mode)
                /\ Entry("items", n, mode) = ItemsRow(TermRow(sh, n, mode), sh, n)
                /\ \A k \in Int : k < n =>
                      \A kind \in Kinds : Shorter(sh, kind, k) = Entry(kind, k, mode)
  BY EntryOfRow
<1>2. \A k \in 1..(n - 2) : k \in Int /\ k < n /\ n - 1 - k \in Int /\ n - 1 - k < n
  OBVIOUS
<1>3. \A k \in 1..(n - 2) : /\ Shorter(sh, "terms", k) = Entry("terms", k, mode)
                            /\ Shorter(sh, "items", n - 1 - k) = Entry("items", n - 1 - k, mode)
  BY <1>1, <1>2 DEF Kinds
<1>4. x \in ItemsRow(TermRow(sh, n, mode), sh, n) <=>
               \/ \E t \in TermRow(sh, n, mode) : x = Spelling(t.tokens, <<t.meaning>>)
               \/ \E k \in 1..(n - 2) :
                      x \in JoinedTerms(Shorter(sh, "terms", k), Shorter(sh, "items", n - 1 - k))
  BY Zenon DEF ItemsRow
<1> QED
  BY <1>1, <1>3, <1>4, Zenon

LEMMA InnerEntry ==
    ASSUME NEW mode, NEW n \in 1..MaxTokens, NEW x
    PROVE  x \in Entry("inner", n, mode) <=>
               \/ \E t \in Entry("terms", n, mode) : x = Spelling(t.tokens, ConsCell(t.meaning, EmptyList))
               \/ \E k \in 1..(n - 2) :
                      \/ x \in JoinedCells(Entry("terms", k, mode), Pipe, Entry("terms", n - 1 - k, mode))
                      \/ x \in JoinedCells(Entry("terms", k, mode), Comma, Entry("inner", n - 1 - k, mode))
<1>1. PICK sh : /\ Entry("terms", n, mode) = TermRow(sh, n, mode)
                /\ Entry("inner", n, mode) = InnerRow(TermRow(sh, n, mode), sh, n)
                /\ \A k \in Int : k < n =>
                      \A kind \in Kinds : Shorter(sh, kind, k) = Entry(kind, k, mode)
  BY EntryOfRow
<1>2. \A k \in 1..(n - 2) : k \in Int /\ k < n /\ n - 1 - k \in Int /\ n - 1 - k < n
  OBVIOUS
<1>3. \A k \in 1..(n - 2) : /\ Shorter(sh, "terms", k) = Entry("terms", k, mode)
                            /\ Shorter(sh, "terms", n - 1 - k) = Entry("terms", n - 1 - k, mode)
                            /\ Shorter(sh, "inner", n - 1 - k) = Entry("inner", n - 1 - k, mode)
  BY <1>1, <1>2 DEF Kinds
<1> DEFINE A(k) == JoinedCells(Shorter(sh, "terms", k), Pipe, Shorter(sh, "terms", n - 1 - k))
           B(k) == JoinedCells(Shorter(sh, "terms", k), Comma, Shorter(sh, "inner", n - 1 - k))
           C == {Spelling(t.tokens, ConsCell(t.meaning, EmptyList)) : t \in TermRow(sh, n, mode)}
<1>4. InnerRow(TermRow(sh, n, mode), sh, n) = C \cup UNION {A(k) \cup B(k) : k \in 1..(n - 2)}
  BY DEF InnerRow
<1>5. x \in C <=> \E t \in TermRow(sh, n, mode) : x = Spelling(t.tokens, ConsCell(t.meaning, EmptyList))
  OBVIOUS
<1> HIDE DEF C
<1> DEFINE F(k) == A(k) \cup B(k)
<1>8. x \in UNION {F(k) : k \in 1..(n - 2)} <=> \E k \in 1..(n - 2) : x \in F(k)
  <2> HIDE DEF F
  <2> QED
    BY Zenon
<1>6. x \in InnerRow(TermRow(sh, n, mode), sh, n) <=>
               \/ \E t \in TermRow(sh, n, mode) : x = Spelling(t.tokens, ConsCell(t.meaning, EmptyList))
               \/ \E k \in 1..(n - 2) : x \in A(k) \/ x \in B(k)
  <2>1. \A k \in 1..(n - 2) : x \in F(k) <=> x \in A(k) \/ x \in B(k)
    OBVIOUS
  <2>2. InnerRow(TermRow(sh, n, mode), sh, n) = C \cup UNION {F(k) : k \in 1..(n - 2)}
    BY <1>4
  <2> HIDE DEF A, B, F
  <2> QED
    BY <1>5, <1>8, <2>1, <2>2, Zenon
<1>7. \A k \in 1..(n - 2) :
               /\ A(k) = JoinedCells(Entry("terms", k, mode), Pipe, Entry("terms", n - 1 - k, mode))
               /\ B(k) = JoinedCells(Entry("terms", k, mode), Comma, Entry("inner", n - 1 - k, mode))
  BY <1>3
<1> HIDE DEF A, B
<1> QED
  BY <1>1, <1>6, <1>7, Zenon

--------------------------------------------------------------------------------
(* What is in the table are sequences of tokens, as long as the row says. *)

LEMMA Marks ==
    ASSUME NEW mode
    PROVE  /\ LParen \in Tokens(mode) /\ RParen \in Tokens(mode) /\ LBracket \in Tokens(mode)
           /\ RBracket \in Tokens(mode) /\ Comma \in Tokens(mode) /\ Pipe \in Tokens(mode)
           /\ Identifiers(mode) \subseteq Tokens(mode)
BY DEF Tokens, Punctuation, Identifiers

LEMMA OneToken == ASSUME NEW T, NEW a \in T PROVE <<a>> \in Seq(T) /\ Len(<<a>>) = 1
OBVIOUS

LEMMA TwoTokens ==
    ASSUME NEW T, NEW a \in T, NEW b \in T
    PROVE  <<a, b>> \in Seq(T) /\ Len(<<a, b>>) = 2
OBVIOUS

LEMMA ThreeTokens ==
    ASSUME NEW T, NEW a \in T, NEW b \in T, NEW c \in T
    PROVE  <<a, b, c>> \in Seq(T) /\ Len(<<a, b, c>>) = 3
OBVIOUS

LEMMA Enclosed ==
    ASSUME NEW T, NEW a \in Seq(T), NEW s \in Seq(T), NEW b \in Seq(T)
    PROVE  /\ a \o s \o b \in Seq(T)
           /\ Len(a \o s \o b) = Len(a) + Len(s) + Len(b)
           /\ a \o s \o b = a \o (s \o b)
BY ConcatProperties, ConcatAssociative

WellSpelled(x, n, mode) ==
    /\ x = Spelling(x.tokens, x.meaning)
    /\ x.tokens \in Seq(Tokens(mode)) /\ Len(x.tokens) = n

RowWell(n, mode) ==
    /\ \A x \in Entry("terms", n, mode) : WellSpelled(x, n, mode)
    /\ \A x \in Entry("inner", n, mode) : WellSpelled(x, n, mode)
    /\ \A x \in Entry("items", n, mode) : WellSpelled(x, n, mode) /\ IsSeq(x.meaning)

LEMMA SpellingParts ==
    ASSUME NEW s, NEW m
    PROVE  Spelling(s, m).tokens = s /\ Spelling(s, m).meaning = m
           /\ \A n, mode : s \in Seq(Tokens(mode)) /\ Len(s) = n => WellSpelled(Spelling(s, m), n, mode)
BY DEF Spelling, WellSpelled

LEMMA JoinedWell ==
    ASSUME NEW mode, NEW n \in Nat, NEW k \in Nat, NEW mark \in Tokens(mode),
           NEW a \in Seq(Tokens(mode)), NEW b \in Seq(Tokens(mode)), Len(a) = k, Len(b) = n - 1 - k,
           NEW m, NEW x, x = Spelling(a \o <<mark>> \o b, m)
    PROVE  WellSpelled(x, n, mode) /\ x.meaning = m
<1>1. <<mark>> \in Seq(Tokens(mode)) /\ Len(<<mark>>) = 1
  BY OneToken
<1> DEFINE c == a \o <<mark>> \o b
<1>2. c \in Seq(Tokens(mode)) /\ Len(c) = k + 1 + (n - 1 - k)
  <2> DEFINE T == Tokens(mode)
             d == <<mark>>
  <2>1. a \in Seq(T) /\ d \in Seq(T) /\ b \in Seq(T) /\ Len(d) = 1 /\ c = a \o d \o b
    BY <1>1
  <2> HIDE DEF c, d, T
  <2>2. c \in Seq(T) /\ Len(c) = Len(a) + Len(d) + Len(b)
    <3>1. a \in Seq(T) /\ d \in Seq(T) /\ b \in Seq(T)
      BY <2>1
    <3>2. a \o d \o b \in Seq(T)
      BY <3>1, Enclosed
    <3>3. Len(a \o d \o b) = Len(a) + Len(d) + Len(b)
      <4>1. a \o d \in Seq(T) /\ Len(a \o d) = Len(a) + Len(d)
        BY <3>1, ConcatProperties
      <4>2. Len((a \o d) \o b) = Len(a \o d) + Len(b)
        BY <3>1, <4>1, ConcatProperties
      <4> QED
        BY <4>1, <4>2
    <3> QED
      BY <2>1, <3>2, <3>3
  <2>3. Len(a) + Len(d) + Len(b) = k + 1 + (n - 1 - k)
    BY <2>1
  <2>4. c \in Seq(Tokens(mode))
    BY <2>2 DEF T
  <2> QED
    BY <2>2, <2>3, <2>4, Zenon
<1>3. Len(c) = n
  BY <1>2
<1>4. x = Spelling(c, m)
  OBVIOUS
<1> HIDE DEF c
<1> QED
  BY <1>2, <1>3, <1>4, SpellingParts

LEMMA WellSpelling ==
    ASSUME NEW n, NEW mode, NEW s \in Seq(Tokens(mode)), Len(s) = n, NEW m
    PROVE  WellSpelled(Spelling(s, m), n, mode)
BY SpellingParts

LEMMA AtomsWell == ASSUME NEW mode, NEW x \in AtomSpellings(mode) PROVE WellSpelled(x, 1, mode)
<1>1. PICK t \in Tokens(mode) :
          \/ t.type = "IDENTIFIER" /\ x = Spelling(<<t>>, Constant(t.value))
          \/ t.type = "NUMBER" /\ x = Spelling(<<t>>, Number(t.value))
          \/ t.type = "VARIABLE" /\ x = Spelling(<<t>>, Variable(t.value))
  BY AtomsHold
<1> DEFINE d == <<t>>
<1>2. d \in Seq(Tokens(mode)) /\ Len(d) = 1
  BY OneToken
<1>3. x = Spelling(d, Constant(t.value)) \/ x = Spelling(d, Number(t.value)) \/ x = Spelling(d, Variable(t.value))
  BY <1>1
<1> HIDE DEF d
<1> QED
  BY <1>2, <1>3, WellSpelling, Zenon

(* A spelling of length n has n tokens, all of the mode. *)
LEMMA RowsWell ==
    ASSUME NEW mode, NEW n \in 1..MaxTokens, \A k \in 1..(n - 1) : RowWell(k, mode)
    PROVE  RowWell(n, mode)
<1> DEFINE T == Tokens(mode)
<1>1. MaxTokens \in Nat /\ n \in Nat
  BY MaxTokensAssumption
<1>2. \A k \in Int : k < n => RowWell(k, mode)
  <2> SUFFICES ASSUME NEW k \in Int, k < n, k \notin 1..(n - 1) PROVE RowWell(k, mode)
    OBVIOUS
  <2>1. k \notin 1..MaxTokens
    BY <1>1
  <2> QED
    BY <2>1 DEF RowWell, Entry
<1>3. ASSUME NEW x \in Entry("terms", n, mode) PROVE WellSpelled(x, n, mode)
  <2>1. CASE n = 1 /\ x \in AtomSpellings(mode)
    BY <2>1, AtomsWell
  <2>2. CASE n = 2 /\ x = Spelling(<<LBracket, RBracket>>, EmptyList)
    BY <2>2, Marks, TwoTokens, SpellingParts, Zenon
  <2>3. CASE n = 3 /\ \E f \in Identifiers(mode) :
                          x = Spelling(<<f, LParen, RParen>>, Compound(f.value, << >>))
    <3>1. PICK f \in T : x = Spelling(<<f, LParen, RParen>>, Compound(f.value, << >>))
      BY <2>3, Marks
    <3> QED
      BY <2>3, <3>1, Marks, ThreeTokens, SpellingParts, Zenon
  <2>4. CASE x \in Compounds(Identifiers(mode), Entry("items", n - 3, mode))
    <3>1. PICK f \in Identifiers(mode), s \in Entry("items", n - 3, mode) :
                 x = Spelling(<<f, LParen>> \o s.tokens \o <<RParen>>, Compound(f.value, s.meaning))
      BY <2>4, CompoundsHold
    <3>2. s.tokens \in Seq(T) /\ Len(s.tokens) = n - 3
      BY <1>1, <1>2 DEF RowWell, WellSpelled
    <3>3. /\ <<f, LParen>> \in Seq(T) /\ Len(<<f, LParen>>) = 2
          /\ <<RParen>> \in Seq(T) /\ Len(<<RParen>>) = 1
      BY Marks, OneToken, TwoTokens
    <3>4. /\ <<f, LParen>> \o s.tokens \o <<RParen>> \in Seq(T)
          /\ Len(<<f, LParen>> \o s.tokens \o <<RParen>>) = 2 + (n - 3) + 1
      BY <3>2, <3>3, Enclosed
    <3>5. 2 + (n - 3) + 1 = n
      BY <1>1
    <3> HIDE DEF T
    <3> QED
      BY <3>1, <3>4, <3>5, SpellingParts DEF T
  <2>5. CASE x \in Bracketed(Entry("inner", n - 2, mode))
    <3>1. PICK s \in Entry("inner", n - 2, mode) :
                 x = Spelling(<<LBracket>> \o s.tokens \o <<RBracket>>, s.meaning)
      BY <2>5, BracketedHold
    <3>2. s.tokens \in Seq(T) /\ Len(s.tokens) = n - 2
      BY <1>1, <1>2 DEF RowWell, WellSpelled
    <3>3. /\ <<LBracket>> \in Seq(T) /\ Len(<<LBracket>>) = 1
          /\ <<RBracket>> \in Seq(T) /\ Len(<<RBracket>>) = 1
      BY Marks, OneToken
    <3>4. /\ <<LBracket>> \o s.tokens \o <<RBracket>> \in Seq(T)
          /\ Len(<<LBracket>> \o s.tokens \o <<RBracket>>) = 1 + (n - 2) + 1
      BY <3>2, <3>3, Enclosed
    <3>5. 1 + (n - 2) + 1 = n
      BY <1>1
    <3> QED
      BY <3>1, <3>4, <3>5, SpellingParts
  <2> QED
    BY <2>1, <2>2, <2>3, <2>4, <2>5, TermEntry
<1>4. ASSUME NEW k \in 1..(n - 2), NEW t, NEW s, NEW mark \in {Comma, Pipe}, NEW m, NEW x,
             WellSpelled(t, k, mode), WellSpelled(s, n - 1 - k, mode),
             x = Spelling(t.tokens \o <<mark>> \o s.tokens, m)
      PROVE  WellSpelled(x, n, mode) /\ x.meaning = m
  <2>1. mark \in T /\ k \in Nat
    BY Marks
  <2>2. /\ t.tokens \in Seq(Tokens(mode)) /\ Len(t.tokens) = k
        /\ s.tokens \in Seq(Tokens(mode)) /\ Len(s.tokens) = n - 1 - k
    BY <1>4 DEF WellSpelled
  <2> DEFINE a == t.tokens
             b == s.tokens
  <2>3. a \in Seq(Tokens(mode)) /\ Len(a) = k /\ b \in Seq(Tokens(mode)) /\ Len(b) = n - 1 - k
    BY <2>2
  <2>4. x = Spelling(a \o <<mark>> \o b, m) /\ mark \in Tokens(mode)
    BY <1>4, <2>1
  <2> HIDE DEF a, b
  <2> QED
    BY <1>1, <2>1, <2>3, <2>4, JoinedWell
<1>5. \A k \in 1..(n - 2) : k \in Int /\ k < n /\ n - 1 - k \in Int /\ n - 1 - k < n
  BY <1>1
<1>6. ASSUME NEW x \in Entry("inner", n, mode) PROVE WellSpelled(x, n, mode)
  <2>1. CASE \E t \in Entry("terms", n, mode) : x = Spelling(t.tokens, ConsCell(t.meaning, EmptyList))
    <3>1. PICK t \in Entry("terms", n, mode) : x = Spelling(t.tokens, ConsCell(t.meaning, EmptyList))
      BY <2>1
    <3>2. t.tokens \in Seq(Tokens(mode)) /\ Len(t.tokens) = n
      BY <1>3 DEF WellSpelled
    <3> QED
      BY <3>1, <3>2, SpellingParts
  <2>2. ASSUME NEW k \in 1..(n - 2),
               x \in JoinedCells(Entry("terms", k, mode), Pipe, Entry("terms", n - 1 - k, mode))
        PROVE  WellSpelled(x, n, mode)
    <3>1. PICK t \in Entry("terms", k, mode), s \in Entry("terms", n - 1 - k, mode) :
              x = Spelling(t.tokens \o <<Pipe>> \o s.tokens, ConsCell(t.meaning, s.meaning))
      BY <2>2, JoinedCellsHold
    <3>2. WellSpelled(t, k, mode) /\ WellSpelled(s, n - 1 - k, mode)
      BY <1>2, <1>5 DEF RowWell
    <3> QED
      BY <1>4, <3>1, <3>2
  <2>3. ASSUME NEW k \in 1..(n - 2),
               x \in JoinedCells(Entry("terms", k, mode), Comma, Entry("inner", n - 1 - k, mode))
        PROVE  WellSpelled(x, n, mode)
    <3>1. PICK t \in Entry("terms", k, mode), s \in Entry("inner", n - 1 - k, mode) :
              x = Spelling(t.tokens \o <<Comma>> \o s.tokens, ConsCell(t.meaning, s.meaning))
      BY <2>3, JoinedCellsHold
    <3>2. WellSpelled(t, k, mode) /\ WellSpelled(s, n - 1 - k, mode)
      BY <1>2, <1>5 DEF RowWell
    <3> QED
      BY <1>4, <3>1, <3>2
  <2> QED
    BY <2>1, <2>2, <2>3, InnerEntry, Zenon
<1>7. ASSUME NEW x \in Entry("items", n, mode) PROVE WellSpelled(x, n, mode) /\ IsSeq(x.meaning)
  <2>1. CASE \E t \in Entry("terms", n, mode) : x = Spelling(t.tokens, <<t.meaning>>)
    <3>1. PICK t \in Entry("terms", n, mode) : x = Spelling(t.tokens, <<t.meaning>>)
      BY <2>1
    <3>2. t.tokens \in Seq(Tokens(mode)) /\ Len(t.tokens) = n
      BY <1>3 DEF WellSpelled
    <3>3. IsSeq(<<t.meaning>>)
      BY OneFacts
    <3> QED
      BY <3>1, <3>2, <3>3, SpellingParts
  <2>2. ASSUME NEW k \in 1..(n - 2),
               x \in JoinedTerms(Entry("terms", k, mode), Entry("items", n - 1 - k, mode))
        PROVE  WellSpelled(x, n, mode) /\ IsSeq(x.meaning)
    <3>1. PICK t \in Entry("terms", k, mode), s \in Entry("items", n - 1 - k, mode) :
              x = Spelling(t.tokens \o <<Comma>> \o s.tokens, <<t.meaning>> \o s.meaning)
      BY <2>2, JoinedTermsHold
    <3>2. WellSpelled(t, k, mode) /\ WellSpelled(s, n - 1 - k, mode) /\ IsSeq(s.meaning)
      BY <1>2, <1>5 DEF RowWell
    <3>3. IsSeq(<<t.meaning>> \o s.meaning)
      BY <3>2, OneFacts, CatFacts
    <3> DEFINE m == <<t.meaning>> \o s.meaning
    <3>4. x = Spelling(t.tokens \o <<Comma>> \o s.tokens, m) /\ IsSeq(m)
      BY <3>1, <3>3
    <3> HIDE DEF m
    <3>5. WellSpelled(x, n, mode) /\ x.meaning = m
      BY <1>4, <3>2, <3>4
    <3> QED
      BY <3>4, <3>5
  <2> QED
    BY <2>1, <2>2, ItemsEntry, Zenon
<1> QED
  BY <1>3, <1>6, <1>7 DEF RowWell

LEMMA TableWell == ASSUME NEW mode, NEW n \in 1..MaxTokens PROVE RowWell(n, mode)
<1> DEFINE S == {k \in Nat : \A j \in 1..k : j <= MaxTokens => RowWell(j, mode)}
<1>1. MaxTokens \in Nat
  BY MaxTokensAssumption
<1>2. 0 \in S
  OBVIOUS
<1>3. ASSUME NEW k \in Nat, k \in S PROVE k + 1 \in S
  <2>1. ASSUME NEW j \in 1..(k + 1), j <= MaxTokens PROVE RowWell(j, mode)
    <3>1. CASE j \in 1..k
      BY <1>3, <2>1, <3>1
    <3>2. CASE j \notin 1..k
      <4>1. j = k + 1 /\ j \in 1..MaxTokens /\ \A i \in 1..(j - 1) : i \in 1..k /\ i <= MaxTokens
        BY <1>1, <2>1, <3>2
      <4>2. \A i \in 1..(j - 1) : RowWell(i, mode)
        BY <1>3, <4>1
      <4> QED
        BY <4>1, <4>2, RowsWell
    <3> QED
      BY <3>1, <3>2
  <2> QED
    BY <2>1
<1>4. Nat \subseteq S
  <2> HIDE DEF S
  <2> QED
    BY <1>2, <1>3, SetInduction
<1>5. n \in S /\ n \in 1..n /\ n <= MaxTokens
  BY <1>1, <1>4
<1> QED
  BY <1>5

--------------------------------------------------------------------------------
(***************************************************************************)
(* The grammar as rules: a text is a term, a term list, the inside of a list*)
(* or a fact if, and only if, it has one of the forms the rules give.      *)
(***************************************************************************)

(* Texts: sequences of the tokens of a mode *)

Texts(mode) == Seq(Tokens(mode))

One(t) == <<t>>
Cat(s, t) == s \o t

LEMMA TextsAreSeqs == ASSUME NEW mode, NEW s \in Texts(mode) PROVE IsSeq(s)
BY DEF Texts, IsSeq

(* Texts are closed under concatenation, which cancels on the left. *)
LEMMA TextFacts ==
    ASSUME NEW mode
    PROVE  /\ << >> \in Texts(mode) /\ Len(<< >>) = 0
           /\ \A t \in Tokens(mode) : One(t) \in Texts(mode) /\ Len(One(t)) = 1
           /\ \A s \in Texts(mode) : Len(s) \in Nat /\ (Len(s) = 0 <=> s = << >>)
           /\ \A s \in Texts(mode) : Cat(<< >>, s) = s /\ Cat(s, << >>) = s
           /\ \A s, t \in Texts(mode) : Cat(s, t) \in Texts(mode) /\ Len(Cat(s, t)) = Len(s) + Len(t)
           /\ \A s, t, u \in Texts(mode) : Cat(Cat(s, t), u) = Cat(s, Cat(t, u))
<1>1. << >> \in Texts(mode) /\ Len(<< >>) = 0
  BY EmptySeq DEF Texts
<1>2. \A t \in Tokens(mode) : One(t) \in Texts(mode) /\ Len(One(t)) = 1
  BY OneToken DEF One, Texts
<1>3. \A s \in Texts(mode) : Len(s) \in Nat /\ (Len(s) = 0 <=> s = << >>)
  BY TextsAreSeqs, SeqFacts
<1>4. \A s \in Texts(mode) : Cat(<< >>, s) = s /\ Cat(s, << >>) = s
  BY TextsAreSeqs, SeqFacts DEF Cat
<1>5. \A s, t \in Texts(mode) : Cat(s, t) \in Texts(mode) /\ Len(Cat(s, t)) = Len(s) + Len(t)
  BY ConcatProperties DEF Cat, Texts
<1>6. \A s, t, u \in Texts(mode) : Cat(Cat(s, t), u) = Cat(s, Cat(t, u))
  BY TextsAreSeqs, CatAssoc DEF Cat
<1> QED
  BY <1>1, <1>2, <1>3, <1>4, <1>5, <1>6

LEMMA CatInTexts ==
    ASSUME NEW mode, NEW s \in Texts(mode), NEW t \in Texts(mode)
    PROVE  Cat(s, t) \in Texts(mode)
BY TextFacts

LEMMA CatTexts ==
    ASSUME NEW mode, NEW s \in Texts(mode), NEW t \in Texts(mode), NEW u \in Texts(mode)
    PROVE  Cat(Cat(s, t), u) = Cat(s, Cat(t, u))
BY TextFacts

(* A text that is not empty is a token and a text. *)
LEMMA FirstOfText ==
    ASSUME NEW mode, NEW s \in Texts(mode), s # << >>
    PROVE  s[1] \in Tokens(mode) /\ \E t \in Texts(mode) : s = Cat(One(s[1]), t)
<1>1. PICK t : IsSeq(t) /\ s = <<s[1]>> \o t
  BY TextsAreSeqs, FirstAndRest
<1>2. Len(s) \in Nat /\ Len(s) # 0
  BY TextFacts
<1>3. 1 \in 1..Len(s) /\ s[1] \in Tokens(mode) /\ \A i \in 1..Len(s) : s[i] \in Tokens(mode)
  <2>1. 1 \in 1..Len(s)
    BY <1>2
  <2>2. \A i \in 1..Len(s) : s[i] \in Tokens(mode)
    BY ElementOfSeq DEF Texts
  <2> QED
    BY <2>1, <2>2
<1>4. /\ Len(t) \in Nat /\ Len(s) = 1 + Len(t) /\ DOMAIN t = 1..Len(t)
      /\ \A i \in 1..Len(t) : s[1 + i] = t[i]
  <2> DEFINE x == <<s[1]>>
  <2>1. IsSeq(x) /\ Len(x) = 1 /\ s = x \o t /\ IsSeq(t)
    BY <1>1, OneFacts
  <2> HIDE DEF x
  <2>2. Len(x \o t) = Len(x) + Len(t) /\ \A i \in 1..Len(t) : (x \o t)[Len(x) + i] = t[i]
    <3>1. IsSeq(x) /\ IsSeq(t)
      BY <2>1
    <3> QED
      BY <3>1, CatFacts
  <2>3. Len(s) = 1 + Len(t) /\ \A i \in 1..Len(t) : s[1 + i] = t[i]
    <3>1. Len(s) = Len(x) + Len(t) /\ \A i \in 1..Len(t) : s[Len(x) + i] = t[i]
      BY <2>1, <2>2, Zenon
    <3> QED
      BY <2>1, <3>1, Zenon
  <2> QED
    BY <2>1, <2>3, SeqFacts
<1>5. \A i \in 1..Len(t) : t[i] \in Tokens(mode)
  BY <1>3, <1>4
<1>6. t \in Texts(mode)
  <2>1. PICK S : t \in Seq(S)
    BY <1>1 DEF IsSeq
  <2>2. t = [i \in 1..Len(t) |-> t[i]]
    BY <2>1, <1>4
  <2> DEFINE n == Len(t)
  <2>3. n \in Nat /\ t \in [1..n -> Tokens(mode)]
    BY <1>4, <1>5, <2>2
  <2> HIDE DEF n
  <2> QED
    BY <2>3 DEF Texts
<1> QED
  BY <1>1, <1>3, <1>6 DEF Cat, One

LEMMA FirstsSame ==
    ASSUME NEW mode, NEW s \in Texts(mode), NEW t \in Texts(mode), NEW x, NEW y,
           Cat(One(x), s) = Cat(One(y), t)
    PROVE  x = y /\ s = t
BY TextsAreSeqs, SameFirst DEF Cat, One

LEMMA FirstOfCat ==
    ASSUME NEW mode, NEW s \in Texts(mode), NEW x \in Tokens(mode)
    PROVE  Cat(One(x), s) # << >> /\ Cat(One(x), s)[1] = x
<1>1. Len(Cat(One(x), s)) # 0 /\ Cat(One(x), s) \in Texts(mode)
  <2>1. One(x) \in Texts(mode) /\ Len(One(x)) = 1 /\ Len(s) \in Nat
    BY TextFacts
  <2>2. Cat(One(x), s) \in Texts(mode) /\ Len(Cat(One(x), s)) = Len(One(x)) + Len(s)
    BY <2>1, TextFacts
  <2> QED
    BY <2>1, <2>2
<1>2. Cat(One(x), s) # << >>
  BY <1>1, TextFacts
<1>3. 1 \in 1..Len(<<x>>) /\ IsSeq(<<x>>) /\ <<x>>[1] = x
  BY OneFacts
<1>4. (<<x>> \o s)[1] = x
  <2>1. IsSeq(s)
    BY TextsAreSeqs
  <2> QED
    BY <1>3, <2>1, CatFacts
<1> QED
  BY <1>2, <1>4 DEF Cat, One

--------------------------------------------------------------------------------
(* What a text is as a term, as a term list and between the brackets of a list. *)

Spells(kind, s, m, mode) == \E n \in 1..MaxTokens : Spelling(s, m) \in Entry(kind, n, mode)

IsTerm(s, m, mode) == Spells("terms", s, m, mode)
IsItems(s, m, mode) == Spells("items", s, m, mode)
IsInner(s, m, mode) == Spells("inner", s, m, mode)

(* The length of a text says where in the table it is. *)
LEMMA SpelledByLength ==
    ASSUME NEW kind \in Kinds, NEW mode, NEW s, NEW m, Spells(kind, s, m, mode)
    PROVE  /\ s \in Texts(mode) /\ Len(s) \in 1..MaxTokens
           /\ Spelling(s, m) \in Entry(kind, Len(s), mode)
           /\ kind = "items" => IsSeq(m)
<1>1. PICK n \in 1..MaxTokens : Spelling(s, m) \in Entry(kind, n, mode)
  BY DEF Spells
<1>2. WellSpelled(Spelling(s, m), n, mode) /\ (kind = "items" => IsSeq(Spelling(s, m).meaning))
  BY <1>1, TableWell DEF RowWell, Kinds
<1>3. s \in Seq(Tokens(mode)) /\ Len(s) = n
  BY <1>2, SpellingParts DEF WellSpelled
<1>4. kind = "items" => IsSeq(m)
  BY <1>2, SpellingParts
<1> QED
  BY <1>1, <1>3, <1>4 DEF Texts

(* What is in the table is spelled, by its own length. *)
LEMMA EntryIsSpelled ==
    ASSUME NEW kind \in Kinds, NEW k, NEW mode, NEW x \in Entry(kind, k, mode)
    PROVE  /\ k \in 1..MaxTokens /\ x = Spelling(x.tokens, x.meaning)
           /\ x.tokens \in Texts(mode) /\ Len(x.tokens) = k
           /\ Spells(kind, x.tokens, x.meaning, mode)
<1>1. k \in 1..MaxTokens
  BY DEF Entry
<1>2. WellSpelled(x, k, mode)
  BY <1>1, TableWell DEF RowWell, Kinds
<1> QED
  BY <1>1, <1>2 DEF WellSpelled, Texts, Spells

LEMMA SpellingSame ==
    ASSUME NEW s, NEW m, NEW t, NEW l, Spelling(s, m) = Spelling(t, l)
    PROVE  s = t /\ m = l
<1>1. Spelling(s, m).tokens = s /\ Spelling(s, m).meaning = m
  BY SpellingParts
<1>2. Spelling(t, l).tokens = t /\ Spelling(t, l).meaning = l
  BY SpellingParts
<1> QED
  BY <1>1, <1>2, Zenon

LEMMA TuplesAreCats ==
    ASSUME NEW a, NEW b, NEW c
    PROVE  <<a, b>> = <<a>> \o <<b>> /\ <<a, b, c>> = <<a, b>> \o <<c>>
<1> DEFINE two == <<a, b>>
           three == <<a, b, c>>
           x == <<a>>
           y == <<b>>
           z == <<c>>
<1>1. /\ two \in Seq({a, b, c}) /\ Len(two) = 2 /\ two[1] = a /\ two[2] = b
      /\ three \in Seq({a, b, c}) /\ Len(three) = 3 /\ three[1] = a /\ three[2] = b /\ three[3] = c
      /\ x \in Seq({a, b, c}) /\ Len(x) = 1 /\ x[1] = a
      /\ y \in Seq({a, b, c}) /\ Len(y) = 1 /\ y[1] = b
      /\ z \in Seq({a, b, c}) /\ Len(z) = 1 /\ z[1] = c
  OBVIOUS
<1> HIDE DEF two, three, x, y, z
<1>2. IsSeq(two) /\ IsSeq(three) /\ IsSeq(x) /\ IsSeq(y) /\ IsSeq(z)
  BY <1>1 DEF IsSeq
<1>3. two = x \o y
  <2>0. /\ IsSeq(x \o y) /\ Len(x \o y) = Len(x) + Len(y)
        /\ \A i \in 1..Len(x) : (x \o y)[i] = x[i]
        /\ \A i \in 1..Len(y) : (x \o y)[Len(x) + i] = y[i]
    BY <1>2, CatFacts
  <2>1. /\ IsSeq(x \o y) /\ Len(x \o y) = 1 + 1
        /\ \A i \in 1..1 : (x \o y)[i] = x[i]
        /\ \A i \in 1..1 : (x \o y)[1 + i] = y[i]
    BY <1>1, <2>0, Zenon
  <2>2. (x \o y)[1] = a /\ (x \o y)[2] = b /\ Len(x \o y) = 2
    BY <1>1, <2>1
  <2>3. \A i \in 1..2 : two[i] = (x \o y)[i]
    BY <1>1, <2>2
  <2> QED
    BY <1>1, <1>2, <2>1, <2>2, <2>3, SeqSame
<1>4. three = two \o z
  <2>0. /\ IsSeq(two \o z) /\ Len(two \o z) = Len(two) + Len(z)
        /\ \A i \in 1..Len(two) : (two \o z)[i] = two[i]
        /\ \A i \in 1..Len(z) : (two \o z)[Len(two) + i] = z[i]
    BY <1>2, CatFacts
  <2>1. /\ IsSeq(two \o z) /\ Len(two \o z) = 2 + 1
        /\ \A i \in 1..2 : (two \o z)[i] = two[i]
        /\ \A i \in 1..1 : (two \o z)[2 + i] = z[i]
    BY <1>1, <2>0, Zenon
  <2>2. (two \o z)[1] = a /\ (two \o z)[2] = b /\ (two \o z)[3] = c /\ Len(two \o z) = 3
    BY <1>1, <2>1
  <2>3. \A i \in 1..3 : three[i] = (two \o z)[i]
    BY <1>1, <2>2
  <2> QED
    BY <1>1, <1>2, <2>1, <2>2, <2>3, SeqSame
<1> QED
  BY <1>3, <1>4 DEF two, three, x, y, z

LEMMA TwoShape == ASSUME NEW a, NEW b PROVE <<a, b>> = Cat(One(a), One(b))
BY TuplesAreCats DEF Cat, One

LEMMA OneInTexts == ASSUME NEW mode, NEW t \in Tokens(mode) PROVE One(t) \in Texts(mode) /\ Len(One(t)) = 1
BY TextFacts

LEMMA Prefixed ==
    ASSUME NEW mode, NEW t \in Tokens(mode), NEW s \in Texts(mode)
    PROVE  Cat(One(t), s) \in Texts(mode) /\ Len(Cat(One(t), s)) = Len(s) + 1 /\ Len(s) \in Nat
<1>1. One(t) \in Texts(mode) /\ Len(One(t)) = 1 /\ Len(s) \in Nat
  BY TextFacts
<1>2. Cat(One(t), s) \in Texts(mode) /\ Len(Cat(One(t), s)) = Len(One(t)) + Len(s)
  BY <1>1, TextFacts
<1> QED
  BY <1>1, <1>2

LEMMA Suffixed ==
    ASSUME NEW mode, NEW t \in Tokens(mode), NEW s \in Texts(mode)
    PROVE  Cat(s, One(t)) \in Texts(mode) /\ Len(Cat(s, One(t))) = Len(s) + 1 /\ Len(s) \in Nat
<1>1. One(t) \in Texts(mode) /\ Len(One(t)) = 1 /\ Len(s) \in Nat
  BY TextFacts
<1>2. Cat(s, One(t)) \in Texts(mode) /\ Len(Cat(s, One(t))) = Len(s) + Len(One(t))
  BY <1>1, TextFacts
<1> QED
  BY <1>1, <1>2

LEMMA ThreeShape ==
    ASSUME NEW mode, NEW a \in Tokens(mode), NEW b \in Tokens(mode), NEW c \in Tokens(mode)
    PROVE  <<a, b, c>> = Cat(One(a), Cat(One(b), One(c)))
<1>1. <<a, b, c>> = <<a, b>> \o <<c>> /\ <<a, b>> = Cat(One(a), One(b))
  BY TuplesAreCats, TwoShape
<1>2. <<a, b, c>> = Cat(<<a, b>>, One(c))
  BY <1>1 DEF Cat, One
<1>3. One(a) \in Texts(mode) /\ One(b) \in Texts(mode) /\ One(c) \in Texts(mode)
  BY OneInTexts
<1> QED
  BY <1>1, <1>2, <1>3, CatTexts

LEMMA BetweenShape ==
    ASSUME NEW mode, NEW a \in Tokens(mode), NEW s \in Texts(mode), NEW c \in Tokens(mode)
    PROVE  /\ <<a>> \o s \o <<c>> = Cat(One(a), Cat(s, One(c)))
           /\ Cat(One(a), Cat(s, One(c))) \in Texts(mode)
           /\ Len(Cat(One(a), Cat(s, One(c)))) = Len(s) + 2
<1>1. <<a>> \o s \o <<c>> = Cat(Cat(One(a), s), One(c))
  BY DEF Cat, One
<1>2. One(a) \in Texts(mode) /\ One(c) \in Texts(mode)
  BY OneInTexts
<1>3. <<a>> \o s \o <<c>> = Cat(One(a), Cat(s, One(c)))
  BY <1>1, <1>2, CatTexts
<1>4. Cat(s, One(c)) \in Texts(mode) /\ Len(Cat(s, One(c))) = Len(s) + 1 /\ Len(s) \in Nat
  BY Suffixed
<1>5. Cat(One(a), Cat(s, One(c))) \in Texts(mode) /\ Len(Cat(One(a), Cat(s, One(c)))) = Len(s) + 1 + 1
  BY <1>4, Prefixed
<1> QED
  BY <1>3, <1>4, <1>5

LEMMA AppliedShape ==
    ASSUME NEW mode, NEW a \in Tokens(mode), NEW b \in Tokens(mode), NEW s \in Texts(mode), NEW c \in Tokens(mode)
    PROVE  /\ <<a, b>> \o s \o <<c>> = Cat(One(a), Cat(One(b), Cat(s, One(c))))
           /\ Cat(One(a), Cat(One(b), Cat(s, One(c)))) \in Texts(mode)
           /\ Len(Cat(One(a), Cat(One(b), Cat(s, One(c))))) = Len(s) + 3
<1> DEFINE x == One(a)
           y == One(b)
           z == One(c)
<1>1. x \in Texts(mode) /\ y \in Texts(mode) /\ z \in Texts(mode)
  BY OneInTexts
<1>2. <<a, b>> \o s \o <<c>> = Cat(Cat(Cat(x, y), s), z)
  BY TwoShape DEF Cat, One
<1> HIDE DEF x, y, z
<1>3. Cat(y, s) \in Texts(mode) /\ Cat(x, y) \in Texts(mode)
  BY <1>1, TextFacts
<1>4. Cat(Cat(x, y), s) = Cat(x, Cat(y, s))
  BY <1>1, CatTexts
<1>5. Cat(Cat(x, Cat(y, s)), z) = Cat(x, Cat(Cat(y, s), z))
  BY <1>1, <1>3, CatTexts
<1>6. Cat(Cat(y, s), z) = Cat(y, Cat(s, z))
  BY <1>1, CatTexts
<1>7. <<a, b>> \o s \o <<c>> = Cat(x, Cat(y, Cat(s, z)))
  BY <1>2, <1>4, <1>5, <1>6, Zenon
<1>8. Cat(y, Cat(s, z)) \in Texts(mode) /\ Len(Cat(y, Cat(s, z))) = Len(s) + 2 /\ Len(s) \in Nat
  <2>1. /\ Cat(One(b), Cat(s, One(c))) \in Texts(mode)
        /\ Len(Cat(One(b), Cat(s, One(c)))) = Len(s) + 2
    BY BetweenShape
  <2> QED
    BY <2>1, TextFacts DEF y, z
<1>9. Cat(x, Cat(y, Cat(s, z))) \in Texts(mode) /\ Len(Cat(x, Cat(y, Cat(s, z)))) = Len(s) + 2 + 1
  BY <1>8, Prefixed DEF x
<1>10. Len(Cat(x, Cat(y, Cat(s, z)))) = Len(s) + 3
  BY <1>8, <1>9
<1> QED
  BY <1>7, <1>9, <1>10 DEF x, y, z

LEMMA JoinedShape ==
    ASSUME NEW mode, NEW s \in Texts(mode), NEW a \in Tokens(mode), NEW t \in Texts(mode)
    PROVE  /\ Cat(Cat(s, One(a)), t) = Cat(s, Cat(One(a), t))
           /\ Cat(s, Cat(One(a), t)) \in Texts(mode)
           /\ Len(Cat(s, Cat(One(a), t))) = Len(s) + 1 + Len(t)
           /\ Len(s) \in Nat /\ Len(t) \in Nat
<1>2. One(a) \in Texts(mode)
  BY OneInTexts
<1>3. Cat(Cat(s, One(a)), t) = Cat(s, Cat(One(a), t))
  BY <1>2, CatTexts
<1>4. Cat(One(a), t) \in Texts(mode) /\ Len(Cat(One(a), t)) = Len(t) + 1 /\ Len(t) \in Nat /\ Len(s) \in Nat
  BY Prefixed, TextFacts
<1>5. Cat(s, Cat(One(a), t)) \in Texts(mode) /\ Len(Cat(s, Cat(One(a), t))) = Len(s) + (Len(t) + 1)
  <2> DEFINE u == Cat(One(a), t)
  <2>1. u \in Texts(mode) /\ Len(u) = Len(t) + 1
    BY <1>4
  <2> HIDE DEF u
  <2>2. Cat(s, u) \in Texts(mode) /\ Len(Cat(s, u)) = Len(s) + Len(u)
    BY <2>1, TextFacts
  <2> QED
    BY <2>1, <2>2, Zenon DEF u
<1> QED
  BY <1>3, <1>4, <1>5

--------------------------------------------------------------------------------
(* The rules of the grammar *)

AtomOf(t, m) ==
    \/ t.type = "IDENTIFIER" /\ m = Constant(t.value)
    \/ t.type = "NUMBER" /\ m = Number(t.value)
    \/ t.type = "VARIABLE" /\ m = Variable(t.value)

NoArguments(s, m, mode) ==
    \E f \in Identifiers(mode) :
        s = Cat(One(f), Cat(One(LParen), One(RParen))) /\ m = Compound(f.value, << >>)

WithArguments(s, m, mode) ==
    \E f \in Identifiers(mode), l \in Texts(mode) : \E ms :
        /\ IsItems(l, ms, mode)
        /\ s = Cat(One(f), Cat(One(LParen), Cat(l, One(RParen)))) /\ m = Compound(f.value, ms)

InBrackets(s, m, mode) ==
    \E i \in Texts(mode) : IsInner(i, m, mode) /\ s = Cat(One(LBracket), Cat(i, One(RBracket)))

TermShape(s, m, mode) ==
    \/ \E t \in Tokens(mode) : s = One(t) /\ AtomOf(t, m)
    \/ s = Cat(One(LBracket), One(RBracket)) /\ m = EmptyList
    \/ NoArguments(s, m, mode)
    \/ WithArguments(s, m, mode)
    \/ InBrackets(s, m, mode)

(* Each rule, as what is in the table and as what is written. *)
LEMMA AtomRule ==
    ASSUME NEW s, NEW m, NEW mode
    PROVE  Spelling(s, m) \in AtomSpellings(mode) <=> \E t \in Tokens(mode) : s = One(t) /\ AtomOf(t, m)
<1>1. ASSUME NEW t, NEW l PROVE Spelling(s, m) = Spelling(t, l) <=> s = t /\ m = l
  BY SpellingSame
<1>2. ASSUME NEW t
      PROVE  (\/ t.type = "IDENTIFIER" /\ Spelling(s, m) = Spelling(<<t>>, Constant(t.value))
              \/ t.type = "NUMBER" /\ Spelling(s, m) = Spelling(<<t>>, Number(t.value))
              \/ t.type = "VARIABLE" /\ Spelling(s, m) = Spelling(<<t>>, Variable(t.value)))
             <=> s = One(t) /\ AtomOf(t, m)
  BY <1>1 DEF One, AtomOf
<1> QED
  BY <1>2, AtomsHold, Zenon

LEMMA EmptyRule ==
    ASSUME NEW s, NEW m
    PROVE  Spelling(s, m) = Spelling(<<LBracket, RBracket>>, EmptyList)
               <=> s = Cat(One(LBracket), One(RBracket)) /\ m = EmptyList
<1> DEFINE t == <<LBracket, RBracket>>
<1>1. t = Cat(One(LBracket), One(RBracket))
  BY TwoShape
<1> HIDE DEF t
<1>2. Spelling(s, m) = Spelling(t, EmptyList) <=> s = t /\ m = EmptyList
  BY SpellingSame
<1> QED
  BY <1>1, <1>2 DEF t

LEMMA NoArgumentsRule ==
    ASSUME NEW s, NEW m, NEW mode
    PROVE  (\E f \in Identifiers(mode) : Spelling(s, m) = Spelling(<<f, LParen, RParen>>, Compound(f.value, << >>)))
               <=> NoArguments(s, m, mode)
<1>1. ASSUME NEW f \in Identifiers(mode)
      PROVE  Spelling(s, m) = Spelling(<<f, LParen, RParen>>, Compound(f.value, << >>))
                 <=> s = Cat(One(f), Cat(One(LParen), One(RParen))) /\ m = Compound(f.value, << >>)
  <2> DEFINE t == <<f, LParen, RParen>>
             l == Compound(f.value, << >>)
  <2>1. t = Cat(One(f), Cat(One(LParen), One(RParen)))
    <3>1. f \in Tokens(mode) /\ LParen \in Tokens(mode) /\ RParen \in Tokens(mode)
      BY Marks
    <3> QED
      BY <3>1, ThreeShape
  <2> HIDE DEF t, l
  <2>2. Spelling(s, m) = Spelling(t, l) <=> s = t /\ m = l
    BY SpellingSame
  <2> QED
    BY <2>1, <2>2 DEF t, l
<1> QED
  BY <1>1, Zenon DEF NoArguments

LEMMA ArgumentsRule ==
    ASSUME NEW s, NEW m, NEW mode, NEW n \in Int,
           Spelling(s, m) \in Compounds(Identifiers(mode), Entry("items", n - 3, mode))
    PROVE  WithArguments(s, m, mode)
<1>1. PICK f \in Identifiers(mode), l \in Entry("items", n - 3, mode) :
          Spelling(s, m) = Spelling(<<f, LParen>> \o l.tokens \o <<RParen>>, Compound(f.value, l.meaning))
  BY CompoundsHold
<1> DEFINE t == <<f, LParen>> \o l.tokens \o <<RParen>>
           c == Compound(f.value, l.meaning)
<1>2. s = t /\ m = c
  <2>1. Spelling(s, m) = Spelling(t, c)
    BY <1>1
  <2> HIDE DEF t, c
  <2> QED
    BY <2>1, SpellingSame
<1>3. l.tokens \in Texts(mode) /\ IsItems(l.tokens, l.meaning, mode)
  BY EntryIsSpelled DEF Kinds, IsItems
<1>4. t = Cat(One(f), Cat(One(LParen), Cat(l.tokens, One(RParen))))
  <2>1. f \in Tokens(mode) /\ LParen \in Tokens(mode) /\ RParen \in Tokens(mode)
    BY Marks
  <2> DEFINE k == l.tokens
  <2>2. k \in Texts(mode)
    BY <1>3
  <2> HIDE DEF k
  <2>3. <<f, LParen>> \o k \o <<RParen>> = Cat(One(f), Cat(One(LParen), Cat(k, One(RParen))))
    BY <2>1, <2>2, AppliedShape
  <2> QED
    BY <2>3 DEF k
<1> HIDE DEF t
<1> QED
  BY <1>2, <1>3, <1>4 DEF WithArguments

LEMMA BracketsRule ==
    ASSUME NEW s, NEW m, NEW mode, NEW n \in Int,
           Spelling(s, m) \in Bracketed(Entry("inner", n - 2, mode))
    PROVE  InBrackets(s, m, mode)
<1>1. PICK i \in Entry("inner", n - 2, mode) :
          Spelling(s, m) = Spelling(<<LBracket>> \o i.tokens \o <<RBracket>>, i.meaning)
  BY BracketedHold
<1> DEFINE k == i.tokens
           t == <<LBracket>> \o k \o <<RBracket>>
           c == i.meaning
<1>2. s = t /\ m = c
  <2>1. Spelling(s, m) = Spelling(t, c)
    BY <1>1
  <2> HIDE DEF t, c
  <2> QED
    BY <2>1, SpellingSame
<1>3. k \in Texts(mode) /\ IsInner(k, c, mode)
  BY EntryIsSpelled DEF Kinds, IsInner
<1>4. t = Cat(One(LBracket), Cat(k, One(RBracket)))
  <2>1. LBracket \in Tokens(mode) /\ RBracket \in Tokens(mode) /\ k \in Texts(mode)
    BY <1>3, Marks
  <2> HIDE DEF k
  <2> QED
    BY <2>1, BetweenShape
<1> HIDE DEF t, k, c
<1> QED
  BY <1>2, <1>3, <1>4 DEF InBrackets

(* Only what the rules give is a term. *)
LEMMA TermIsShape ==
    ASSUME NEW s, NEW m, NEW mode, IsTerm(s, m, mode)
    PROVE  TermShape(s, m, mode)
<1> DEFINE n == Len(s)
           x == Spelling(s, m)
<1>1. n \in 1..MaxTokens /\ x \in Entry("terms", n, mode)
  BY SpelledByLength DEF Kinds, IsTerm
<1>2. n \in Int
  BY <1>1
<1>3. \/ n = 1 /\ x \in AtomSpellings(mode)
      \/ n = 2 /\ x = Spelling(<<LBracket, RBracket>>, EmptyList)
      \/ n = 3 /\ \E f \in Identifiers(mode) : x = Spelling(<<f, LParen, RParen>>, Compound(f.value, << >>))
      \/ x \in Compounds(Identifiers(mode), Entry("items", n - 3, mode))
      \/ x \in Bracketed(Entry("inner", n - 2, mode))
  <2> HIDE DEF n, x
  <2> QED
    BY <1>1, TermEntry, Zenon
<1>4. CASE x \in AtomSpellings(mode)
  BY <1>4, AtomRule DEF TermShape
<1>5. CASE x = Spelling(<<LBracket, RBracket>>, EmptyList)
  BY <1>5, EmptyRule DEF TermShape
<1>6. CASE \E f \in Identifiers(mode) : x = Spelling(<<f, LParen, RParen>>, Compound(f.value, << >>))
  BY <1>6, NoArgumentsRule DEF TermShape
<1>7. CASE x \in Compounds(Identifiers(mode), Entry("items", n - 3, mode))
  <2> HIDE DEF n
  <2> QED
    BY <1>2, <1>7, ArgumentsRule DEF TermShape
<1>8. CASE x \in Bracketed(Entry("inner", n - 2, mode))
  <2> HIDE DEF n
  <2> QED
    BY <1>2, <1>8, BracketsRule DEF TermShape
<1> HIDE DEF n, x
<1> QED
  BY <1>3, <1>4, <1>5, <1>6, <1>7, <1>8

(* What a rule gives is in the table, if it is short enough. *)
LEMMA ArgumentsRuleBack ==
    ASSUME NEW s, NEW m, NEW mode, WithArguments(s, m, mode)
    PROVE  /\ Len(s) - 3 \in 1..MaxTokens
           /\ Spelling(s, m) \in Compounds(Identifiers(mode), Entry("items", Len(s) - 3, mode))
<1>1. PICK f \in Identifiers(mode), l \in Texts(mode) : \E ms :
          /\ IsItems(l, ms, mode)
          /\ s = Cat(One(f), Cat(One(LParen), Cat(l, One(RParen)))) /\ m = Compound(f.value, ms)
  BY DEF WithArguments
<1>2. PICK ms :
          /\ IsItems(l, ms, mode)
          /\ s = Cat(One(f), Cat(One(LParen), Cat(l, One(RParen)))) /\ m = Compound(f.value, ms)
  BY <1>1
<1>3. f \in Tokens(mode) /\ LParen \in Tokens(mode) /\ RParen \in Tokens(mode)
  BY Marks
<1>4. s = <<f, LParen>> \o l \o <<RParen>> /\ Len(s) = Len(l) + 3
  BY <1>2, <1>3, AppliedShape
<1>5. Spelling(l, ms) \in Entry("items", Len(l), mode) /\ Len(l) \in 1..MaxTokens
  BY <1>2, SpelledByLength DEF Kinds, IsItems
<1>6. Len(s) - 3 = Len(l)
  BY <1>4, <1>5
<1> DEFINE p == Spelling(l, ms)
<1>7. p.tokens = l /\ p.meaning = ms
  BY SpellingParts
<1>8. Spelling(s, m) = Spelling(<<f, LParen>> \o p.tokens \o <<RParen>>, Compound(f.value, p.meaning))
  BY <1>2, <1>4, <1>7
<1>9. p \in Entry("items", Len(s) - 3, mode)
  BY <1>5, <1>6
<1> HIDE DEF p
<1>10. Spelling(s, m) \in Compounds(Identifiers(mode), Entry("items", Len(s) - 3, mode))
  BY <1>8, <1>9, CompoundsHold
<1> QED
  BY <1>5, <1>6, <1>10

LEMMA BracketsRuleBack ==
    ASSUME NEW s, NEW m, NEW mode, InBrackets(s, m, mode)
    PROVE  /\ Len(s) - 2 \in 1..MaxTokens
           /\ Spelling(s, m) \in Bracketed(Entry("inner", Len(s) - 2, mode))
<1>1. PICK i \in Texts(mode) : IsInner(i, m, mode) /\ s = Cat(One(LBracket), Cat(i, One(RBracket)))
  BY DEF InBrackets
<1>2. LBracket \in Tokens(mode) /\ RBracket \in Tokens(mode)
  BY Marks
<1>3. s = <<LBracket>> \o i \o <<RBracket>> /\ Len(s) = Len(i) + 2
  BY <1>1, <1>2, BetweenShape
<1>4. Spelling(i, m) \in Entry("inner", Len(i), mode) /\ Len(i) \in 1..MaxTokens
  BY <1>1, SpelledByLength DEF Kinds, IsInner
<1>5. Len(s) - 2 = Len(i)
  BY <1>3, <1>4
<1> DEFINE p == Spelling(i, m)
<1>6. p.tokens = i /\ p.meaning = m
  BY SpellingParts
<1>7. Spelling(s, m) = Spelling(<<LBracket>> \o p.tokens \o <<RBracket>>, p.meaning)
  BY <1>3, <1>6
<1>8. p \in Entry("inner", Len(s) - 2, mode)
  BY <1>4, <1>5
<1> HIDE DEF p
<1>9. Spelling(s, m) \in Bracketed(Entry("inner", Len(s) - 2, mode))
  BY <1>7, <1>8, BracketedHold
<1> QED
  BY <1>4, <1>5, <1>9

(* All the rules give is a term. *)
LEMMA ShapeIsTerm ==
    ASSUME NEW mode, NEW s \in Texts(mode), Len(s) <= MaxTokens, NEW m, TermShape(s, m, mode)
    PROVE  IsTerm(s, m, mode)
<1> DEFINE n == Len(s)
           x == Spelling(s, m)
<1>1. MaxTokens \in Nat /\ n \in Nat
  BY MaxTokensAssumption, TextFacts
<1>2. ASSUME n \in 1..MaxTokens,
             \/ n = 1 /\ x \in AtomSpellings(mode)
             \/ n = 2 /\ x = Spelling(<<LBracket, RBracket>>, EmptyList)
             \/ n = 3 /\ \E f \in Identifiers(mode) : x = Spelling(<<f, LParen, RParen>>, Compound(f.value, << >>))
             \/ x \in Compounds(Identifiers(mode), Entry("items", n - 3, mode))
             \/ x \in Bracketed(Entry("inner", n - 2, mode))
      PROVE  IsTerm(s, m, mode)
  <2>1. x \in Entry("terms", n, mode)
    <3> HIDE DEF x, n
    <3> QED
      BY <1>2, TermEntry, Zenon
  <2> HIDE DEF n
  <2> QED
    BY <1>2, <2>1 DEF IsTerm, Spells
<1>3. CASE \E t \in Tokens(mode) : s = One(t) /\ AtomOf(t, m)
  <2>1. n = 1
    BY <1>3, OneInTexts
  <2>2. x \in AtomSpellings(mode)
    BY <1>3, AtomRule
  <2>3. n \in 1..MaxTokens
    BY <1>1, <2>1
  <2> QED
    BY <1>2, <2>1, <2>2, <2>3
<1>4. CASE s = Cat(One(LBracket), One(RBracket)) /\ m = EmptyList
  <2>1. n = 2
    <3>1. LBracket \in Tokens(mode) /\ RBracket \in Tokens(mode)
      BY Marks
    <3>2. One(RBracket) \in Texts(mode) /\ Len(One(RBracket)) = 1
      BY <3>1, OneInTexts
    <3>3. Len(Cat(One(LBracket), One(RBracket))) = Len(One(RBracket)) + 1
      BY <3>1, <3>2, Prefixed
    <3> QED
      BY <1>4, <3>2, <3>3
  <2>2. x = Spelling(<<LBracket, RBracket>>, EmptyList)
    BY <1>4, EmptyRule
  <2>3. n \in 1..MaxTokens
    BY <1>1, <2>1
  <2> HIDE DEF x, n
  <2> QED
    BY <1>2, <2>1, <2>2, <2>3
<1>5. CASE NoArguments(s, m, mode)
  <2>1. n = 3
    <3>1. PICK f \in Identifiers(mode) : s = Cat(One(f), Cat(One(LParen), One(RParen)))
      BY <1>5 DEF NoArguments
    <3>2. LParen \in Tokens(mode) /\ RParen \in Tokens(mode) /\ f \in Tokens(mode)
      BY Marks
    <3>3. One(RParen) \in Texts(mode) /\ Len(One(RParen)) = 1
      BY <3>2, OneInTexts
    <3>4. Len(Cat(One(f), Cat(One(LParen), One(RParen)))) = 3
      <4> DEFINE u == Cat(One(LParen), One(RParen))
      <4>1. u \in Texts(mode) /\ Len(u) = Len(One(RParen)) + 1
        BY <3>2, <3>3, Prefixed
      <4> HIDE DEF u
      <4>2. Len(Cat(One(f), u)) = Len(u) + 1
        BY <3>2, <4>1, Prefixed
      <4>3. Len(Cat(One(f), u)) = 3
        BY <3>3, <4>1, <4>2
      <4> QED
        BY <4>3 DEF u
    <3> QED
      BY <3>1, <3>4
  <2>2. \E f \in Identifiers(mode) : x = Spelling(<<f, LParen, RParen>>, Compound(f.value, << >>))
    BY <1>5, NoArgumentsRule
  <2>3. n \in 1..MaxTokens
    BY <1>1, <2>1
  <2> HIDE DEF x, n
  <2> QED
    BY <1>2, <2>1, <2>2, <2>3, Zenon
<1>6. CASE WithArguments(s, m, mode)
  <2>1. n - 3 \in 1..MaxTokens /\ x \in Compounds(Identifiers(mode), Entry("items", n - 3, mode))
    BY <1>6, ArgumentsRuleBack
  <2>2. n \in 1..MaxTokens
    BY <1>1, <2>1
  <2> HIDE DEF x, n
  <2> QED
    BY <1>2, <2>1, <2>2, Zenon
<1>7. CASE InBrackets(s, m, mode)
  <2>1. n - 2 \in 1..MaxTokens /\ x \in Bracketed(Entry("inner", n - 2, mode))
    BY <1>7, BracketsRuleBack
  <2>2. n \in 1..MaxTokens
    BY <1>1, <2>1
  <2> HIDE DEF x, n
  <2> QED
    BY <1>2, <2>1, <2>2, Zenon
<1> QED
  BY <1>3, <1>4, <1>5, <1>6, <1>7 DEF TermShape

ItemsJoined(s, ms, mode) ==
    \E a \in Texts(mode), b \in Texts(mode) : \E m, ns :
        /\ IsTerm(a, m, mode) /\ IsItems(b, ns, mode)
        /\ s = Cat(a, Cat(One(Comma), b)) /\ ms = Cat(One(m), ns)

ItemsShape(s, ms, mode) ==
    \/ \E m : IsTerm(s, m, mode) /\ ms = One(m)
    \/ ItemsJoined(s, ms, mode)

CellsJoined(s, v, mode) ==
    \E a \in Texts(mode), b \in Texts(mode) : \E m, l :
        /\ IsTerm(a, m, mode)
        /\ \/ IsTerm(b, l, mode) /\ s = Cat(a, Cat(One(Pipe), b))
           \/ IsInner(b, l, mode) /\ s = Cat(a, Cat(One(Comma), b))
        /\ v = ConsCell(m, l)

InnerShape(s, v, mode) ==
    \/ \E m : IsTerm(s, m, mode) /\ v = ConsCell(m, EmptyList)
    \/ CellsJoined(s, v, mode)

(* A term list is a term, or a term, a comma and a term list. *)
LEMMA ItemsIsShape ==
    ASSUME NEW s, NEW ms, NEW mode, IsItems(s, ms, mode)
    PROVE  ItemsShape(s, ms, mode)
<1> DEFINE n == Len(s)
           x == Spelling(s, ms)
<1>1. n \in 1..MaxTokens /\ x \in Entry("items", n, mode)
  BY SpelledByLength DEF Kinds, IsItems
<1>2. \/ \E t \in Entry("terms", n, mode) : x = Spelling(t.tokens, <<t.meaning>>)
      \/ \E k \in 1..(n - 2) :
             x \in JoinedTerms(Entry("terms", k, mode), Entry("items", n - 1 - k, mode))
  <2> HIDE DEF n, x
  <2> QED
    BY <1>1, ItemsEntry, Zenon
<1>3. CASE \E t \in Entry("terms", n, mode) : x = Spelling(t.tokens, <<t.meaning>>)
  <2>1. PICK t \in Entry("terms", n, mode) : x = Spelling(t.tokens, <<t.meaning>>)
    BY <1>3
  <2> DEFINE c == <<t.meaning>>
             k == t.tokens
  <2>2. s = k /\ ms = c
    <3>1. Spelling(s, ms) = Spelling(k, c)
      BY <2>1
    <3> HIDE DEF c, k
    <3> QED
      BY <3>1, SpellingSame
  <2>3. IsTerm(k, t.meaning, mode)
    BY EntryIsSpelled DEF Kinds, IsTerm
  <2> HIDE DEF k
  <2> QED
    BY <2>2, <2>3 DEF ItemsShape, One
<1>4. CASE \E k \in 1..(n - 2) :
             x \in JoinedTerms(Entry("terms", k, mode), Entry("items", n - 1 - k, mode))
  <2> HIDE DEF n
  <2>1. PICK k \in 1..(n - 2) :
             x \in JoinedTerms(Entry("terms", k, mode), Entry("items", n - 1 - k, mode))
    BY <1>4
  <2>2. PICK t \in Entry("terms", k, mode), u \in Entry("items", n - 1 - k, mode) :
             x = Spelling(t.tokens \o <<Comma>> \o u.tokens, <<t.meaning>> \o u.meaning)
    BY <2>1, JoinedTermsHold
  <2> DEFINE a == t.tokens
             b == u.tokens
             c == Cat(One(t.meaning), u.meaning)
             d == a \o <<Comma>> \o b
  <2>3. s = d /\ ms = c
    <3>1. Spelling(s, ms) = Spelling(d, c)
      BY <2>2 DEF Cat, One
    <3> HIDE DEF c, d
    <3> QED
      BY <3>1, SpellingSame
  <2>4. a \in Texts(mode) /\ IsTerm(a, t.meaning, mode)
    BY EntryIsSpelled DEF Kinds, IsTerm
  <2>5. b \in Texts(mode) /\ IsItems(b, u.meaning, mode)
    BY EntryIsSpelled DEF Kinds, IsItems
  <2> HIDE DEF a, b
  <2>6. d = Cat(a, Cat(One(Comma), b))
    <3>1. Comma \in Tokens(mode) /\ a \in Texts(mode) /\ b \in Texts(mode)
      BY <2>4, <2>5, Marks
    <3>2. d = Cat(Cat(a, One(Comma)), b)
      BY DEF Cat, One
    <3> HIDE DEF d
    <3> QED
      BY <3>1, <3>2, JoinedShape
  <2> HIDE DEF d
  <2> QED
    BY <2>3, <2>4, <2>5, <2>6 DEF ItemsShape, ItemsJoined
<1> HIDE DEF n, x
<1> QED
  BY <1>2, <1>3, <1>4

(* The inside of a list ends at a term, or at a tail after a bar. *)
LEMMA InnerIsShape ==
    ASSUME NEW s, NEW v, NEW mode, IsInner(s, v, mode)
    PROVE  InnerShape(s, v, mode)
<1> DEFINE n == Len(s)
           x == Spelling(s, v)
<1>1. n \in 1..MaxTokens /\ x \in Entry("inner", n, mode)
  BY SpelledByLength DEF Kinds, IsInner
<1>2. \/ \E t \in Entry("terms", n, mode) : x = Spelling(t.tokens, ConsCell(t.meaning, EmptyList))
      \/ \E k \in 1..(n - 2) :
             \/ x \in JoinedCells(Entry("terms", k, mode), Pipe, Entry("terms", n - 1 - k, mode))
             \/ x \in JoinedCells(Entry("terms", k, mode), Comma, Entry("inner", n - 1 - k, mode))
  <2> HIDE DEF n, x
  <2> QED
    BY <1>1, InnerEntry, Zenon
<1>3. CASE \E t \in Entry("terms", n, mode) : x = Spelling(t.tokens, ConsCell(t.meaning, EmptyList))
  <2>1. PICK t \in Entry("terms", n, mode) : x = Spelling(t.tokens, ConsCell(t.meaning, EmptyList))
    BY <1>3
  <2> DEFINE c == ConsCell(t.meaning, EmptyList)
             k == t.tokens
  <2>2. s = k /\ v = c
    <3>1. Spelling(s, v) = Spelling(k, c)
      BY <2>1
    <3> HIDE DEF c, k
    <3> QED
      BY <3>1, SpellingSame
  <2>3. IsTerm(k, t.meaning, mode)
    BY EntryIsSpelled DEF Kinds, IsTerm
  <2> HIDE DEF k
  <2> QED
    BY <2>2, <2>3 DEF InnerShape
<1>4. ASSUME NEW k \in 1..(n - 2), NEW mark \in {Comma, Pipe}, NEW kind \in Kinds,
             x \in JoinedCells(Entry("terms", k, mode), mark, Entry(kind, n - 1 - k, mode))
      PROVE  \E a \in Texts(mode), b \in Texts(mode) : \E m, l :
                 /\ IsTerm(a, m, mode) /\ Spells(kind, b, l, mode)
                 /\ s = Cat(a, Cat(One(mark), b)) /\ v = ConsCell(m, l)
  <2> HIDE DEF n
  <2>1. PICK t \in Entry("terms", k, mode), u \in Entry(kind, n - 1 - k, mode) :
             x = Spelling(t.tokens \o <<mark>> \o u.tokens, ConsCell(t.meaning, u.meaning))
    BY <1>4, JoinedCellsHold
  <2> DEFINE a == t.tokens
             b == u.tokens
             c == ConsCell(t.meaning, u.meaning)
             d == a \o <<mark>> \o b
  <2>2. s = d /\ v = c
    <3>1. Spelling(s, v) = Spelling(d, c)
      BY <2>1
    <3> HIDE DEF c, d
    <3> QED
      BY <3>1, SpellingSame
  <2>3. a \in Texts(mode) /\ IsTerm(a, t.meaning, mode)
    BY EntryIsSpelled DEF Kinds, IsTerm
  <2>4. b \in Texts(mode) /\ Spells(kind, b, u.meaning, mode)
    BY EntryIsSpelled
  <2> HIDE DEF a, b
  <2>5. d = Cat(a, Cat(One(mark), b))
    <3>1. mark \in Tokens(mode) /\ a \in Texts(mode) /\ b \in Texts(mode)
      BY <2>3, <2>4, Marks
    <3>2. d = Cat(Cat(a, One(mark)), b)
      BY DEF Cat, One
    <3> HIDE DEF d
    <3> QED
      BY <3>1, <3>2, JoinedShape
  <2> HIDE DEF d
  <2> QED
    BY <2>2, <2>3, <2>4, <2>5
<1>5. ASSUME NEW k \in 1..(n - 2),
             x \in JoinedCells(Entry("terms", k, mode), Pipe, Entry("terms", n - 1 - k, mode))
      PROVE  CellsJoined(s, v, mode)
  <2> HIDE DEF n, x
  <2> QED
    BY <1>4, <1>5 DEF CellsJoined, IsTerm, Kinds
<1>6. ASSUME NEW k \in 1..(n - 2),
             x \in JoinedCells(Entry("terms", k, mode), Comma, Entry("inner", n - 1 - k, mode))
      PROVE  CellsJoined(s, v, mode)
  <2> HIDE DEF n, x
  <2> QED
    BY <1>4, <1>6 DEF CellsJoined, IsInner, Kinds
<1> HIDE DEF n, x
<1> QED
  BY <1>2, <1>3, <1>5, <1>6 DEF InnerShape

(* And back, for both. *)
LEMMA ShapeIsItems ==
    ASSUME NEW mode, NEW s \in Texts(mode), Len(s) <= MaxTokens, NEW ms, ItemsShape(s, ms, mode)
    PROVE  IsItems(s, ms, mode)
<1> DEFINE n == Len(s)
           x == Spelling(s, ms)
<1>1. MaxTokens \in Nat /\ n \in Nat
  BY MaxTokensAssumption, TextFacts
<1>2. ASSUME n \in 1..MaxTokens,
             \/ \E t \in Entry("terms", n, mode) : x = Spelling(t.tokens, <<t.meaning>>)
             \/ \E k \in 1..(n - 2) :
                    x \in JoinedTerms(Entry("terms", k, mode), Entry("items", n - 1 - k, mode))
      PROVE  IsItems(s, ms, mode)
  <2>1. x \in Entry("items", n, mode)
    <3> HIDE DEF x, n
    <3> QED
      BY <1>2, ItemsEntry, Zenon
  <2> HIDE DEF n
  <2> QED
    BY <1>2, <2>1 DEF IsItems, Spells
<1>3. CASE \E m : IsTerm(s, m, mode) /\ ms = One(m)
  <2>1. PICK m : IsTerm(s, m, mode) /\ ms = One(m)
    BY <1>3
  <2> DEFINE p == Spelling(s, m)
  <2>2. p \in Entry("terms", n, mode) /\ n \in 1..MaxTokens
    BY <2>1, SpelledByLength DEF Kinds, IsTerm
  <2>3. p.tokens = s /\ p.meaning = m
    BY SpellingParts
  <2>4. x = Spelling(p.tokens, <<p.meaning>>)
    BY <2>1, <2>3 DEF One
  <2> HIDE DEF p, x, n
  <2> QED
    BY <1>2, <2>2, <2>4
<1>4. CASE ItemsJoined(s, ms, mode)
  <2>1. PICK a \in Texts(mode), b \in Texts(mode) : \E m, ns :
            /\ IsTerm(a, m, mode) /\ IsItems(b, ns, mode)
            /\ s = Cat(a, Cat(One(Comma), b)) /\ ms = Cat(One(m), ns)
    BY <1>4 DEF ItemsJoined
  <2>2. PICK m, ns :
            /\ IsTerm(a, m, mode) /\ IsItems(b, ns, mode)
            /\ s = Cat(a, Cat(One(Comma), b)) /\ ms = Cat(One(m), ns)
    BY <2>1
  <2> DEFINE p == Spelling(a, m)
             q == Spelling(b, ns)
  <2>3. p \in Entry("terms", Len(a), mode) /\ Len(a) \in 1..MaxTokens
    BY <2>2, SpelledByLength DEF Kinds, IsTerm
  <2>4. q \in Entry("items", Len(b), mode) /\ Len(b) \in 1..MaxTokens
    BY <2>2, SpelledByLength DEF Kinds, IsItems
  <2>5. p.tokens = a /\ p.meaning = m /\ q.tokens = b /\ q.meaning = ns
    BY SpellingParts
  <2>6. s = a \o <<Comma>> \o b /\ n = Len(a) + 1 + Len(b)
    <3>1. Comma \in Tokens(mode)
      BY Marks
    <3>2. /\ Cat(Cat(a, One(Comma)), b) = Cat(a, Cat(One(Comma), b))
          /\ Len(Cat(a, Cat(One(Comma), b))) = Len(a) + 1 + Len(b)
      BY <3>1, JoinedShape
    <3>3. a \o <<Comma>> \o b = Cat(Cat(a, One(Comma)), b)
      BY DEF Cat, One
    <3> QED
      BY <2>2, <3>2, <3>3, Zenon
  <2>7. x = Spelling(p.tokens \o <<Comma>> \o q.tokens, <<p.meaning>> \o q.meaning)
    BY <2>2, <2>5, <2>6 DEF Cat, One
  <2>8. Len(a) \in 1..(n - 2) /\ n - 1 - Len(a) = Len(b) /\ n \in 1..MaxTokens
    BY <1>1, <2>3, <2>4, <2>6
  <2> HIDE DEF p, q, x, n
  <2>9. x \in JoinedTerms(Entry("terms", Len(a), mode), Entry("items", Len(b), mode))
    BY <2>3, <2>4, <2>7, JoinedTermsHold
  <2> QED
    BY <1>2, <2>8, <2>9
<1> QED
  BY <1>3, <1>4 DEF ItemsShape

LEMMA ShapeIsInner ==
    ASSUME NEW mode, NEW s \in Texts(mode), Len(s) <= MaxTokens, NEW v, InnerShape(s, v, mode)
    PROVE  IsInner(s, v, mode)
<1> DEFINE n == Len(s)
           x == Spelling(s, v)
<1>1. MaxTokens \in Nat /\ n \in Nat
  BY MaxTokensAssumption, TextFacts
<1>2. ASSUME n \in 1..MaxTokens,
             \/ \E t \in Entry("terms", n, mode) : x = Spelling(t.tokens, ConsCell(t.meaning, EmptyList))
             \/ \E k \in 1..(n - 2) :
                    \/ x \in JoinedCells(Entry("terms", k, mode), Pipe, Entry("terms", n - 1 - k, mode))
                    \/ x \in JoinedCells(Entry("terms", k, mode), Comma, Entry("inner", n - 1 - k, mode))
      PROVE  IsInner(s, v, mode)
  <2>1. x \in Entry("inner", n, mode)
    <3> HIDE DEF x, n
    <3> QED
      BY <1>2, InnerEntry, Zenon
  <2> HIDE DEF n
  <2> QED
    BY <1>2, <2>1 DEF IsInner, Spells
<1>3. CASE \E m : IsTerm(s, m, mode) /\ v = ConsCell(m, EmptyList)
  <2>1. PICK m : IsTerm(s, m, mode) /\ v = ConsCell(m, EmptyList)
    BY <1>3
  <2> DEFINE p == Spelling(s, m)
  <2>2. p \in Entry("terms", n, mode) /\ n \in 1..MaxTokens
    BY <2>1, SpelledByLength DEF Kinds, IsTerm
  <2>3. p.tokens = s /\ p.meaning = m
    BY SpellingParts
  <2>4. x = Spelling(p.tokens, ConsCell(p.meaning, EmptyList))
    BY <2>1, <2>3
  <2> HIDE DEF p, x, n
  <2> QED
    BY <1>2, <2>2, <2>4
<1>4. ASSUME NEW a \in Texts(mode), NEW b \in Texts(mode), NEW m, NEW l, NEW mark \in {Comma, Pipe},
             NEW kind \in Kinds,
             IsTerm(a, m, mode), Spells(kind, b, l, mode),
             s = Cat(a, Cat(One(mark), b)), v = ConsCell(m, l)
      PROVE  n \in 1..MaxTokens /\ \E k \in 1..(n - 2) :
                 x \in JoinedCells(Entry("terms", k, mode), mark, Entry(kind, n - 1 - k, mode))
  <2> DEFINE p == Spelling(a, m)
             q == Spelling(b, l)
  <2>1. p \in Entry("terms", Len(a), mode) /\ Len(a) \in 1..MaxTokens
    BY <1>4, SpelledByLength DEF Kinds, IsTerm
  <2>2. q \in Entry(kind, Len(b), mode) /\ Len(b) \in 1..MaxTokens
    BY <1>4, SpelledByLength
  <2>3. p.tokens = a /\ p.meaning = m /\ q.tokens = b /\ q.meaning = l
    BY SpellingParts
  <2>4. s = a \o <<mark>> \o b /\ n = Len(a) + 1 + Len(b)
    <3>1. mark \in Tokens(mode)
      BY Marks
    <3>2. /\ Cat(Cat(a, One(mark)), b) = Cat(a, Cat(One(mark), b))
          /\ Len(Cat(a, Cat(One(mark), b))) = Len(a) + 1 + Len(b)
      BY <3>1, JoinedShape
    <3>3. a \o <<mark>> \o b = Cat(Cat(a, One(mark)), b)
      BY DEF Cat, One
    <3> QED
      BY <1>4, <3>2, <3>3, Zenon
  <2>5. x = Spelling(p.tokens \o <<mark>> \o q.tokens, ConsCell(p.meaning, q.meaning))
    BY <1>4, <2>3, <2>4
  <2>6. Len(a) \in 1..(n - 2) /\ n - 1 - Len(a) = Len(b) /\ n \in 1..MaxTokens
    BY <1>1, <2>1, <2>2, <2>4
  <2> HIDE DEF p, q, x, n
  <2>7. x \in JoinedCells(Entry("terms", Len(a), mode), mark, Entry(kind, Len(b), mode))
    BY <2>1, <2>2, <2>5, JoinedCellsHold
  <2> QED
    BY <2>6, <2>7
<1>5. CASE CellsJoined(s, v, mode)
  <2>1. PICK a \in Texts(mode), b \in Texts(mode) : \E m, l :
            /\ IsTerm(a, m, mode)
            /\ \/ IsTerm(b, l, mode) /\ s = Cat(a, Cat(One(Pipe), b))
               \/ IsInner(b, l, mode) /\ s = Cat(a, Cat(One(Comma), b))
            /\ v = ConsCell(m, l)
    BY <1>5 DEF CellsJoined
  <2>2. PICK m, l :
            /\ IsTerm(a, m, mode)
            /\ \/ IsTerm(b, l, mode) /\ s = Cat(a, Cat(One(Pipe), b))
               \/ IsInner(b, l, mode) /\ s = Cat(a, Cat(One(Comma), b))
            /\ v = ConsCell(m, l)
    BY <2>1
  <2>3. CASE IsTerm(b, l, mode) /\ s = Cat(a, Cat(One(Pipe), b))
    <3>1. Spells("terms", b, l, mode) /\ "terms" \in Kinds /\ Pipe \in {Comma, Pipe}
      BY <2>3 DEF IsTerm, Kinds
    <3> HIDE DEF n, x
    <3>2. n \in 1..MaxTokens /\ \E k \in 1..(n - 2) :
             x \in JoinedCells(Entry("terms", k, mode), Pipe, Entry("terms", n - 1 - k, mode))
      BY <1>4, <2>2, <2>3, <3>1
    <3> QED
      BY <1>2, <3>2
  <2>4. CASE IsInner(b, l, mode) /\ s = Cat(a, Cat(One(Comma), b))
    <3>1. Spells("inner", b, l, mode) /\ "inner" \in Kinds /\ Comma \in {Comma, Pipe}
      BY <2>4 DEF IsInner, Kinds
    <3> HIDE DEF n, x
    <3>2. n \in 1..MaxTokens /\ \E k \in 1..(n - 2) :
             x \in JoinedCells(Entry("terms", k, mode), Comma, Entry("inner", n - 1 - k, mode))
      BY <1>4, <2>2, <2>4, <3>1
    <3> QED
      BY <1>2, <3>2
  <2> QED
    BY <2>2, <2>3, <2>4
<1> QED
  BY <1>3, <1>5 DEF InnerShape

(* What may stand between the parentheses of a fact, and what a fact is. *)
IsArgs(l, ms, mode) ==
    \/ l = << >> /\ ms = << >>
    \/ IsItems(l, ms, mode)
    \/ \E k \in Texts(mode) : IsItems(k, ms, mode) /\ l = Cat(k, One(Comma))

IsFact(s, m, mode) ==
    \E p \in Identifiers(mode), l \in Texts(mode) : \E ms :
        /\ IsArgs(l, ms, mode)
        /\ s = Cat(One(p), Cat(One(LParen), Cat(l, One(RParen)))) /\ m = Literal(p.value, ms)

(* TermSpellings and FactSpellings, by the table. *)
LEMMA TermSpellingsAre ==
    ASSUME NEW mode, NEW x
    PROVE  x \in TermSpellings(MaxTokens, mode) <=> \E n \in 1..MaxTokens : x \in Entry("terms", n, mode)
<1> DEFINE F(n) == Table(MaxTokens, mode)[n].terms
<1>1. TermSpellings(MaxTokens, mode) = UNION {F(n) : n \in 1..MaxTokens}
  BY DEF TermSpellings
<1>2. \A n \in 1..MaxTokens : F(n) = Entry("terms", n, mode)
  BY DEF Entry
<1> HIDE DEF F
<1>3. x \in UNION {F(n) : n \in 1..MaxTokens} <=> \E n \in 1..MaxTokens : x \in F(n)
  BY Zenon
<1> QED
  BY <1>1, <1>2, <1>3, Zenon

LEMMA FactItemsAre ==
    ASSUME NEW mode, NEW x
    PROVE  x \in FactItems(MaxTokens, mode) <=>
               \/ x = Spelling(<< >>, << >>)
               \/ \E n \in 1..(MaxTokens - 3) :
                      \/ x \in Entry("items", n, mode)
                      \/ \E y \in Entry("items", n, mode) : x = Spelling(Append(y.tokens, Comma), y.meaning)
<1> DEFINE R(n) == Table(MaxTokens, mode)[n].items
           E(n) == {Spelling(Append(s.tokens, Comma), s.meaning) : s \in R(n)}
           F(n) == R(n) \cup E(n)
<1>1. FactItems(MaxTokens, mode) = {Spelling(<< >>, << >>)} \cup UNION {F(n) : n \in 1..(MaxTokens - 3)}
  BY DEF FactItems
<1>2. \A n \in 1..(MaxTokens - 3) : R(n) = Entry("items", n, mode)
  <2>1. \A n \in 1..(MaxTokens - 3) : n \in 1..MaxTokens
    BY MaxTokensAssumption
  <2> QED
    BY <2>1 DEF Entry
<1>3. \A n \in 1..(MaxTokens - 3) :
          x \in E(n) <=> \E y \in R(n) : x = Spelling(Append(y.tokens, Comma), y.meaning)
  BY Zenon
<1>4. \A n \in 1..(MaxTokens - 3) : x \in F(n) <=> x \in R(n) \/ x \in E(n)
  BY Zenon
<1> HIDE DEF R, E, F
<1>5. x \in UNION {F(n) : n \in 1..(MaxTokens - 3)} <=> \E n \in 1..(MaxTokens - 3) : x \in F(n)
  BY Zenon
<1>6. x \in {Spelling(<< >>, << >>)} <=> x = Spelling(<< >>, << >>)
  BY Zenon
<1>7. x \in FactItems(MaxTokens, mode) <=>
          \/ x = Spelling(<< >>, << >>)
          \/ \E n \in 1..(MaxTokens - 3) : x \in F(n)
  BY <1>1, <1>5, <1>6, Zenon
<1> QED
  BY <1>2, <1>3, <1>4, <1>7, Zenon

LEMMA FactsHold ==
    ASSUME NEW F, NEW L, NEW x
    PROVE  x \in FactsOf(F, L) <=>
               \E p \in F, l \in L :
                   x = Spelling(<<p, LParen>> \o l.tokens \o <<RParen>>, Literal(p.value, l.meaning))
BY SMT DEF FactsOf

LEMMA FactsAreSpellings ==
    ASSUME NEW N, NEW mode, NEW x \in FactSpellings(N, mode)
    PROVE  x = Spelling(x.tokens, x.meaning)
<1>1. x \in FactsOf(Identifiers(mode), FactItems(N, mode))
  BY DEF FactSpellings
<1>2. PICK p \in Identifiers(mode), l \in FactItems(N, mode) :
          x = Spelling(<<p, LParen>> \o l.tokens \o <<RParen>>, Literal(p.value, l.meaning))
  BY <1>1, FactsHold
<1> DEFINE t == <<p, LParen>> \o l.tokens \o <<RParen>>
           c == Literal(p.value, l.meaning)
<1>3. x = Spelling(t, c)
  BY <1>2
<1> HIDE DEF t, c
<1> QED
  BY <1>3, SpellingParts

LEMMA FactItemsAreArgs ==
    ASSUME NEW mode, NEW x \in FactItems(MaxTokens, mode)
    PROVE  x = Spelling(x.tokens, x.meaning) /\ x.tokens \in Texts(mode) /\ IsArgs(x.tokens, x.meaning, mode)
<1>1. CASE x = Spelling(<< >>, << >>)
  <2>1. x.tokens = << >> /\ x.meaning = << >>
    BY <1>1, SpellingParts
  <2>2. << >> \in Texts(mode)
    BY TextFacts
  <2> QED
    BY <1>1, <2>1, <2>2 DEF IsArgs
<1>2. ASSUME NEW n \in 1..(MaxTokens - 3), x \in Entry("items", n, mode)
      PROVE  x = Spelling(x.tokens, x.meaning) /\ x.tokens \in Texts(mode) /\ IsArgs(x.tokens, x.meaning, mode)
  BY <1>2, EntryIsSpelled DEF Kinds, IsItems, IsArgs
<1>3. ASSUME NEW n \in 1..(MaxTokens - 3), NEW y \in Entry("items", n, mode),
             x = Spelling(Append(y.tokens, Comma), y.meaning)
      PROVE  x = Spelling(x.tokens, x.meaning) /\ x.tokens \in Texts(mode) /\ IsArgs(x.tokens, x.meaning, mode)
  <2> DEFINE k == y.tokens
             c == y.meaning
  <2>1. k \in Texts(mode) /\ IsItems(k, c, mode)
    BY EntryIsSpelled DEF Kinds, IsItems
  <2>2. Append(k, Comma) = Cat(k, One(Comma))
    <3> HIDE DEF k
    <3>1. IsSeq(k)
      BY <2>1, TextsAreSeqs
    <3>2. Append(k, Comma) = k \o <<Comma>>
      BY <3>1, AppendIsCat
    <3> QED
      BY <3>2 DEF Cat, One
  <2>3. x = Spelling(Cat(k, One(Comma)), c)
    BY <1>3, <2>2
  <2> HIDE DEF k, c
  <2>4. x.tokens = Cat(k, One(Comma)) /\ x.meaning = c
    BY <2>3, SpellingParts
  <2>5. Cat(k, One(Comma)) \in Texts(mode)
    BY <2>1, Marks, Suffixed
  <2> QED
    BY <2>1, <2>3, <2>4, <2>5 DEF IsArgs
<1> QED
  BY <1>1, <1>2, <1>3, FactItemsAre, Zenon

LEMMA FactIsFact ==
    ASSUME NEW mode, NEW s, NEW m, Spelling(s, m) \in FactSpellings(MaxTokens, mode)
    PROVE  s \in Texts(mode) /\ Len(s) <= MaxTokens /\ IsFact(s, m, mode)
<1>1. Spelling(s, m) \in FactsOf(Identifiers(mode), FactItems(MaxTokens, mode)) /\ Len(Spelling(s, m).tokens) <= MaxTokens
  BY DEF FactSpellings
<1>2. PICK p \in Identifiers(mode), l \in FactItems(MaxTokens, mode) :
          Spelling(s, m) = Spelling(<<p, LParen>> \o l.tokens \o <<RParen>>, Literal(p.value, l.meaning))
  BY <1>1, FactsHold
<1> DEFINE t == <<p, LParen>> \o l.tokens \o <<RParen>>
           c == Literal(p.value, l.meaning)
<1>3. s = t /\ m = c
  <2>1. Spelling(s, m) = Spelling(t, c)
    BY <1>2
  <2> HIDE DEF t, c
  <2> QED
    BY <2>1, SpellingSame
<1>4. l.tokens \in Texts(mode) /\ IsArgs(l.tokens, l.meaning, mode)
  BY FactItemsAreArgs
<1>5. t = Cat(One(p), Cat(One(LParen), Cat(l.tokens, One(RParen)))) /\ t \in Texts(mode)
  <2>1. p \in Tokens(mode) /\ LParen \in Tokens(mode) /\ RParen \in Tokens(mode)
    BY Marks
  <2> DEFINE k == l.tokens
  <2>2. k \in Texts(mode)
    BY <1>4
  <2> HIDE DEF k
  <2>3. <<p, LParen>> \o k \o <<RParen>> = Cat(One(p), Cat(One(LParen), Cat(k, One(RParen))))
        /\ Cat(One(p), Cat(One(LParen), Cat(k, One(RParen)))) \in Texts(mode)
    BY <2>1, <2>2, AppliedShape
  <2> QED
    BY <2>3 DEF k
<1>6. Len(s) <= MaxTokens
  BY <1>1, SpellingParts
<1> HIDE DEF t
<1> QED
  BY <1>3, <1>4, <1>5, <1>6 DEF IsFact

LEMMA FactIsSpelled ==
    ASSUME NEW mode, NEW s \in Texts(mode), Len(s) <= MaxTokens, NEW m, IsFact(s, m, mode)
    PROVE  Spelling(s, m) \in FactSpellings(MaxTokens, mode)
<1>1. PICK p \in Identifiers(mode), l \in Texts(mode) : \E ms :
        /\ IsArgs(l, ms, mode)
        /\ s = Cat(One(p), Cat(One(LParen), Cat(l, One(RParen)))) /\ m = Literal(p.value, ms)
  BY DEF IsFact
<1>2. PICK ms :
        /\ IsArgs(l, ms, mode)
        /\ s = Cat(One(p), Cat(One(LParen), Cat(l, One(RParen)))) /\ m = Literal(p.value, ms)
  BY <1>1
<1>3. p \in Tokens(mode) /\ LParen \in Tokens(mode) /\ RParen \in Tokens(mode)
  BY Marks
<1>4. s = <<p, LParen>> \o l \o <<RParen>> /\ Len(s) = Len(l) + 3
  BY <1>2, <1>3, AppliedShape
<1>5. MaxTokens \in Nat /\ Len(l) \in Nat /\ Len(l) <= MaxTokens - 3
  BY <1>4, MaxTokensAssumption, TextFacts
<1> DEFINE q == Spelling(l, ms)
<1>6. q \in FactItems(MaxTokens, mode)
  <2>1. CASE l = << >> /\ ms = << >>
    BY <2>1, FactItemsAre
  <2>2. CASE IsItems(l, ms, mode)
    <3>1. q \in Entry("items", Len(l), mode) /\ Len(l) \in 1..MaxTokens
      BY <2>2, SpelledByLength DEF Kinds, IsItems
    <3>2. Len(l) \in 1..(MaxTokens - 3)
      BY <1>5, <3>1
    <3> HIDE DEF q
    <3> QED
      BY <3>1, <3>2, FactItemsAre, Zenon
  <2>3. CASE \E k \in Texts(mode) : IsItems(k, ms, mode) /\ l = Cat(k, One(Comma))
    <3>1. PICK k \in Texts(mode) : IsItems(k, ms, mode) /\ l = Cat(k, One(Comma))
      BY <2>3
    <3> DEFINE y == Spelling(k, ms)
    <3>2. y \in Entry("items", Len(k), mode) /\ Len(k) \in 1..MaxTokens
      BY <3>1, SpelledByLength DEF Kinds, IsItems
    <3>3. Len(l) = Len(k) + 1
      BY <3>1, Marks, Suffixed
    <3>4. Len(k) \in 1..(MaxTokens - 3)
      BY <1>5, <3>2, <3>3
    <3>5. y.tokens = k /\ y.meaning = ms
      BY SpellingParts
    <3>6. Append(k, Comma) = Cat(k, One(Comma))
      <4>1. IsSeq(k)
        BY TextsAreSeqs
      <4>2. Append(k, Comma) = k \o <<Comma>>
        BY <4>1, AppendIsCat
      <4> QED
        BY <4>2 DEF Cat, One
    <3>7. q = Spelling(Append(y.tokens, Comma), y.meaning)
      BY <3>1, <3>5, <3>6
    <3> HIDE DEF q, y
    <3> QED
      BY <3>2, <3>4, <3>7, FactItemsAre, Zenon
  <2> QED
    BY <1>2, <2>1, <2>2, <2>3 DEF IsArgs
<1>7. q.tokens = l /\ q.meaning = ms
  BY SpellingParts
<1>8. Spelling(s, m) = Spelling(<<p, LParen>> \o q.tokens \o <<RParen>>, Literal(p.value, q.meaning))
  BY <1>2, <1>4, <1>7
<1> HIDE DEF q
<1>9. Spelling(s, m) \in FactsOf(Identifiers(mode), FactItems(MaxTokens, mode))
  BY <1>6, <1>8, FactsHold
<1>10. Spelling(s, m).tokens = s
  BY SpellingParts
<1> QED
  BY <1>9, <1>10 DEF FactSpellings

--------------------------------------------------------------------------------
(* The sentences *)

IsSentence(mode, function, s, m) ==
    \/ function = "parse" /\ IsFact(s, m, mode)
    \/ function = "parseTerm" /\ IsTerm(s, m, mode)

(* Sentences are the facts and the terms of the rules. *)
LEMMA SentencesAre ==
    ASSUME NEW mode \in BOOLEAN, NEW function, NEW s \in Texts(mode), Len(s) <= MaxTokens, NEW m
    PROVE  <<mode, function, s, m>> \in Sentences <=> IsSentence(mode, function, s, m)
<1>1. ASSUME <<mode, function, s, m>> \in Sentences PROVE IsSentence(mode, function, s, m)
  <2>1. PICK b \in BOOLEAN :
            \/ <<mode, function, s, m>> \in Tagged(b, "parse", FactSpellings(MaxTokens, b))
            \/ <<mode, function, s, m>> \in Tagged(b, "parseTerm", TermSpellings(MaxTokens, b))
    BY <1>1, SMT DEF Sentences
  <2>2. CASE <<mode, function, s, m>> \in Tagged(b, "parse", FactSpellings(MaxTokens, b))
    <3>1. PICK x \in FactSpellings(MaxTokens, b) : <<mode, function, s, m>> = <<b, "parse", x.tokens, x.meaning>>
      BY <2>2 DEF Tagged
    <3>2. mode = b /\ function = "parse" /\ s = x.tokens /\ m = x.meaning
      BY <3>1
    <3>3. x = Spelling(x.tokens, x.meaning)
      BY FactsAreSpellings
    <3> QED
      BY <3>2, <3>3, FactIsFact DEF IsSentence
  <2>3. CASE <<mode, function, s, m>> \in Tagged(b, "parseTerm", TermSpellings(MaxTokens, b))
    <3>1. PICK x \in TermSpellings(MaxTokens, b) : <<mode, function, s, m>> = <<b, "parseTerm", x.tokens, x.meaning>>
      BY <2>3 DEF Tagged
    <3>2. mode = b /\ function = "parseTerm" /\ s = x.tokens /\ m = x.meaning
      BY <3>1
    <3>3. PICK n \in 1..MaxTokens : x \in Entry("terms", n, mode)
      BY <3>2, TermSpellingsAre
    <3>4. Spells("terms", x.tokens, x.meaning, mode)
      BY <3>3, EntryIsSpelled DEF Kinds
    <3> QED
      BY <3>2, <3>4 DEF IsSentence, IsTerm
  <2> QED
    BY <2>1, <2>2, <2>3
<1>2. ASSUME NEW x, x.tokens = s, x.meaning = m,
             \/ function = "parse" /\ x \in FactSpellings(MaxTokens, mode)
             \/ function = "parseTerm" /\ x \in TermSpellings(MaxTokens, mode)
      PROVE  <<mode, function, s, m>> \in Sentences
  <2>1. \/ <<mode, function, s, m>> \in Tagged(mode, "parse", FactSpellings(MaxTokens, mode))
        \/ <<mode, function, s, m>> \in Tagged(mode, "parseTerm", TermSpellings(MaxTokens, mode))
    BY <1>2 DEF Tagged
  <2> QED
    BY <2>1, SMT DEF Sentences
<1>3. ASSUME IsSentence(mode, function, s, m) PROVE <<mode, function, s, m>> \in Sentences
  <2> DEFINE x == Spelling(s, m)
  <2>1. x.tokens = s /\ x.meaning = m
    BY SpellingParts
  <2>2. CASE function = "parse" /\ IsFact(s, m, mode)
    <3>1. x \in FactSpellings(MaxTokens, mode)
      BY <2>2, FactIsSpelled
    <3> HIDE DEF x
    <3> QED
      BY <1>2, <2>1, <2>2, <3>1
  <2>3. CASE function = "parseTerm" /\ IsTerm(s, m, mode)
    <3>1. x \in TermSpellings(MaxTokens, mode)
      BY <2>3, TermSpellingsAre DEF IsTerm, Spells
    <3> HIDE DEF x
    <3> QED
      BY <1>2, <2>1, <2>3, <3>1
  <2> QED
    BY <1>3, <2>2, <2>3 DEF IsSentence
<1> QED
  BY <1>1, <1>3

(* Whatever is a sentence is a text of its mode and within the bound. *)
LEMMA SentenceIsText ==
    ASSUME NEW x \in Sentences
    PROVE  \E mode \in BOOLEAN : \E s, m, function :
               /\ x = <<mode, function, s, m>> /\ s \in Texts(mode) /\ Len(s) <= MaxTokens
               /\ IsSentence(mode, function, s, m)
<1>1. PICK b \in BOOLEAN :
          \/ x \in Tagged(b, "parse", FactSpellings(MaxTokens, b))
          \/ x \in Tagged(b, "parseTerm", TermSpellings(MaxTokens, b))
  BY SMT DEF Sentences
<1>2. CASE x \in Tagged(b, "parse", FactSpellings(MaxTokens, b))
  <2>1. PICK y \in FactSpellings(MaxTokens, b) : x = <<b, "parse", y.tokens, y.meaning>>
    BY <1>2 DEF Tagged
  <2>2. y = Spelling(y.tokens, y.meaning)
    BY FactsAreSpellings
  <2>3. y.tokens \in Texts(b) /\ Len(y.tokens) <= MaxTokens /\ IsFact(y.tokens, y.meaning, b)
    BY <2>2, FactIsFact
  <2> QED
    BY <2>1, <2>3 DEF IsSentence
<1>3. CASE x \in Tagged(b, "parseTerm", TermSpellings(MaxTokens, b))
  <2>1. PICK y \in TermSpellings(MaxTokens, b) : x = <<b, "parseTerm", y.tokens, y.meaning>>
    BY <1>3 DEF Tagged
  <2>2. PICK n \in 1..MaxTokens : y \in Entry("terms", n, b)
    BY TermSpellingsAre
  <2>3. /\ y.tokens \in Texts(b) /\ Len(y.tokens) = n
        /\ Spells("terms", y.tokens, y.meaning, b)
    BY <2>2, EntryIsSpelled DEF Kinds
  <2>4. n <= MaxTokens
    BY MaxTokensAssumption
  <2> QED
    BY <2>1, <2>3, <2>4 DEF IsSentence, IsTerm
<1> QED
  BY <1>1, <1>2, <1>3

--------------------------------------------------------------------------------
(* Tokens are told apart by their types. *)

WordTypes == {"VARIABLE", "NUMBER", "IDENTIFIER"}
MarkTypes == {"LPAREN", "RPAREN", "LBRACKET", "RBRACKET", "COMMA", "PIPE"}

(* What a term may begin with, and what may follow one. *)
FirstTypes == WordTypes \cup {"LBRACKET"}
AfterTypes == {"RPAREN", "RBRACKET", "COMMA", "PIPE"}

LEMMA MarkTypesAre ==
    /\ LParen.type = "LPAREN" /\ RParen.type = "RPAREN" /\ LBracket.type = "LBRACKET"
    /\ RBracket.type = "RBRACKET" /\ Comma.type = "COMMA" /\ Pipe.type = "PIPE" /\ EndOfInput.type = "END"
BY DEF LParen, RParen, LBracket, RBracket, Comma, Pipe, EndOfInput, Mark, Token

LEMMA WordToken == ASSUME NEW w, NEW mode PROVE AddToken(w, mode).type \in WordTypes
<1>1. AddToken(w, mode) \in {Token("VARIABLE", Tail(w)), Token("VARIABLE", w), Token("NUMBER", w), Token("IDENTIFIER", w)}
  BY Zenon DEF AddToken
<1>2. \A type, value : Token(type, value).type = type
  BY DEF Token
<1> QED
  BY <1>1, <1>2 DEF WordTypes

LEMMA TokenTypes ==
    ASSUME NEW mode, NEW t \in Tokens(mode)
    PROVE  /\ t.type \in WordTypes \cup MarkTypes
           /\ t.type # "END" /\ t # EndOfInput
           /\ t.type = "LPAREN" => t = LParen
           /\ t.type = "RPAREN" => t = RParen
           /\ t.type = "LBRACKET" => t = LBracket
           /\ t.type = "RBRACKET" => t = RBracket
           /\ t.type = "COMMA" => t = Comma
           /\ t.type = "PIPE" => t = Pipe
<1>1. CASE t \in Punctuation
  BY <1>1, MarkTypesAre DEF Punctuation, WordTypes, MarkTypes
<1>2. CASE \E w \in Words : t = AddToken(w, mode)
  <2>1. t.type \in WordTypes
    BY <1>2, WordToken
  <2> QED
    BY <2>1, MarkTypesAre DEF WordTypes
<1> QED
  BY <1>1, <1>2 DEF Tokens

--------------------------------------------------------------------------------
(* Putting texts together *)

LEMMA CatLengths ==
    ASSUME NEW mode, NEW s \in Texts(mode), NEW t \in Texts(mode)
    PROVE  Len(s) <= Len(Cat(s, t)) /\ Len(t) <= Len(Cat(s, t)) /\ Len(s) \in Nat /\ Len(t) \in Nat
<1>1. Len(s) \in Nat /\ Len(t) \in Nat /\ Len(Cat(s, t)) = Len(s) + Len(t)
  BY TextFacts
<1> QED
  BY <1>1

LEMMA ClosedJoin ==
    ASSUME NEW mode, NEW a \in Texts(mode), NEW b \in Texts(mode), NEW t \in Tokens(mode), NEW z \in Tokens(mode)
    PROVE  /\ Cat(Cat(a, Cat(One(t), b)), One(z)) = Cat(a, Cat(One(t), Cat(b, One(z))))
           /\ Cat(b, One(z)) \in Texts(mode)
           /\ Cat(One(t), Cat(b, One(z))) \in Texts(mode)
           /\ Cat(a, Cat(One(t), b)) \in Texts(mode)
           /\ Cat(One(t), b) \in Texts(mode)
<1> DEFINE x == One(t)
           y == One(z)
<1>1. x \in Texts(mode) /\ y \in Texts(mode)
  BY OneInTexts
<1> HIDE DEF x, y
<1>2. Cat(x, b) \in Texts(mode) /\ Cat(b, y) \in Texts(mode)
  BY <1>1, CatInTexts
<1>3. Cat(a, Cat(x, b)) \in Texts(mode) /\ Cat(x, Cat(b, y)) \in Texts(mode)
  BY <1>1, <1>2, CatInTexts
<1>4. Cat(Cat(a, Cat(x, b)), y) = Cat(a, Cat(Cat(x, b), y))
  BY <1>1, <1>2, CatTexts
<1>5. Cat(Cat(x, b), y) = Cat(x, Cat(b, y))
  BY <1>1, CatTexts
<1> QED
  BY <1>2, <1>3, <1>4, <1>5 DEF x, y

LEMMA ClosedLength ==
    ASSUME NEW mode, NEW s \in Texts(mode), NEW z \in Tokens(mode), Len(Cat(s, One(z))) <= MaxTokens
    PROVE  Len(s) <= MaxTokens
BY OneInTexts, CatLengths, MaxTokensAssumption

--------------------------------------------------------------------------------
(* What terms, term lists and the insides of lists begin with *)

Begins(s, types, mode) ==
    \E t \in Tokens(mode), u \in Texts(mode) : t.type \in types /\ s = Cat(One(t), u)

(* What a text begins with does not change with what follows it. *)
LEMMA BeginsFurther ==
    ASSUME NEW mode, NEW types, NEW s \in Texts(mode), Begins(s, types, mode), NEW t \in Texts(mode)
    PROVE  Begins(Cat(s, t), types, mode)
<1>1. PICK a \in Tokens(mode), u \in Texts(mode) : a.type \in types /\ s = Cat(One(a), u)
  BY DEF Begins
<1>2. Cat(s, t) = Cat(One(a), Cat(u, t)) /\ Cat(u, t) \in Texts(mode)
  BY <1>1, OneInTexts, CatTexts, CatInTexts
<1> QED
  BY <1>1, <1>2 DEF Begins

LEMMA BeginsOnce ==
    ASSUME NEW mode, NEW types, NEW s \in Texts(mode), Begins(s, types, mode)
    PROVE  s # << >> /\ s[1].type \in types /\ s[1] \in Tokens(mode)
<1>1. PICK a \in Tokens(mode), u \in Texts(mode) : a.type \in types /\ s = Cat(One(a), u)
  BY DEF Begins
<1> QED
  BY <1>1, FirstOfCat

(* A term, and so a term list and the inside of a list, begins with a word or a bracket. *)
LEMMA TermBegins ==
    ASSUME NEW mode, NEW s, NEW m, IsTerm(s, m, mode)
    PROVE  Begins(s, FirstTypes, mode) /\ s \in Texts(mode)
<1>1. TermShape(s, m, mode) /\ s \in Texts(mode)
  BY TermIsShape, SpelledByLength DEF IsTerm, Kinds
<1>2. \A t \in Tokens(mode) : One(t) = Cat(One(t), << >>) /\ One(t) \in Texts(mode)
  BY TextFacts
<1>3. << >> \in Texts(mode)
  BY TextFacts
<1>4. CASE \E t \in Tokens(mode) : s = One(t) /\ AtomOf(t, m)
  <2>1. PICK t \in Tokens(mode) : s = One(t) /\ AtomOf(t, m)
    BY <1>4
  <2>2. t.type \in FirstTypes
    BY <2>1 DEF AtomOf, FirstTypes, WordTypes
  <2> QED
    BY <1>1, <1>2, <1>3, <2>1, <2>2 DEF Begins
<1>5. CASE s = Cat(One(LBracket), One(RBracket)) /\ m = EmptyList
  <2>1. LBracket \in Tokens(mode) /\ One(RBracket) \in Texts(mode) /\ LBracket.type \in FirstTypes
    BY Marks, MarkTypesAre, OneInTexts DEF FirstTypes
  <2> QED
    BY <1>1, <1>5, <2>1 DEF Begins
<1>6. \A f \in Identifiers(mode) : f \in Tokens(mode) /\ f.type \in FirstTypes
  BY DEF Identifiers, FirstTypes, WordTypes
<1>7. CASE NoArguments(s, m, mode)
  <2>1. PICK f \in Identifiers(mode) : s = Cat(One(f), Cat(One(LParen), One(RParen)))
    BY <1>7 DEF NoArguments
  <2>2. Cat(One(LParen), One(RParen)) \in Texts(mode)
    <3>1. One(LParen) \in Texts(mode) /\ One(RParen) \in Texts(mode)
      BY Marks, OneInTexts
    <3> QED
      BY <3>1, CatInTexts
  <2> QED
    BY <1>1, <1>6, <2>1, <2>2 DEF Begins
<1>8. CASE WithArguments(s, m, mode)
  <2>1. PICK f \in Identifiers(mode), l \in Texts(mode) : s = Cat(One(f), Cat(One(LParen), Cat(l, One(RParen))))
    BY <1>8 DEF WithArguments
  <2>2. Cat(One(LParen), Cat(l, One(RParen))) \in Texts(mode)
    BY Marks, BetweenShape
  <2> QED
    BY <1>1, <1>6, <2>1, <2>2 DEF Begins
<1>9. CASE InBrackets(s, m, mode)
  <2>1. PICK i \in Texts(mode) : s = Cat(One(LBracket), Cat(i, One(RBracket)))
    BY <1>9 DEF InBrackets
  <2>2. LBracket \in Tokens(mode) /\ Cat(i, One(RBracket)) \in Texts(mode) /\ LBracket.type \in FirstTypes
    BY Marks, MarkTypesAre, Suffixed DEF FirstTypes
  <2> QED
    BY <1>1, <2>1, <2>2 DEF Begins
<1> QED
  BY <1>1, <1>4, <1>5, <1>7, <1>8, <1>9 DEF TermShape

LEMMA ItemsBegin ==
    ASSUME NEW mode, NEW s, NEW ms, IsItems(s, ms, mode)
    PROVE  Begins(s, FirstTypes, mode) /\ s \in Texts(mode)
<1>1. ItemsShape(s, ms, mode) /\ s \in Texts(mode)
  BY ItemsIsShape, SpelledByLength DEF IsItems, Kinds
<1>2. CASE \E m : IsTerm(s, m, mode)
  BY <1>1, <1>2, TermBegins
<1>3. CASE ItemsJoined(s, ms, mode)
  <2>1. PICK a \in Texts(mode), b \in Texts(mode) : \E m : IsTerm(a, m, mode) /\ s = Cat(a, Cat(One(Comma), b))
    BY <1>3 DEF ItemsJoined
  <2>2. Begins(a, FirstTypes, mode)
    BY <2>1, TermBegins
  <2>3. Cat(One(Comma), b) \in Texts(mode)
    BY Marks, Prefixed
  <2> QED
    BY <1>1, <2>1, <2>2, <2>3, BeginsFurther
<1> QED
  BY <1>1, <1>2, <1>3 DEF ItemsShape

LEMMA InnerBegins ==
    ASSUME NEW mode, NEW s, NEW v, IsInner(s, v, mode)
    PROVE  Begins(s, FirstTypes, mode) /\ s \in Texts(mode)
<1>1. InnerShape(s, v, mode) /\ s \in Texts(mode)
  BY InnerIsShape, SpelledByLength DEF IsInner, Kinds
<1>2. CASE \E m : IsTerm(s, m, mode)
  BY <1>1, <1>2, TermBegins
<1>3. CASE CellsJoined(s, v, mode)
  <2>1. PICK a \in Texts(mode), b \in Texts(mode) :
            /\ \E m : IsTerm(a, m, mode)
            /\ s = Cat(a, Cat(One(Pipe), b)) \/ s = Cat(a, Cat(One(Comma), b))
    BY <1>3 DEF CellsJoined
  <2>2. Begins(a, FirstTypes, mode)
    BY <2>1, TermBegins
  <2>3. Cat(One(Comma), b) \in Texts(mode) /\ Cat(One(Pipe), b) \in Texts(mode)
    BY Marks, Prefixed
  <2> QED
    BY <1>1, <2>1, <2>2, <2>3, BeginsFurther
<1> QED
  BY <1>1, <1>2, <1>3 DEF InnerShape

--------------------------------------------------------------------------------
(***************************************************************************)
(* The grammar by places: what each place of each function reads, and that *)
(* the whole of a function, told by its places, is its rule.               *)
(***************************************************************************)

(* What is still to be read at a place, and what it then gives *)

AtLoop(name, terms, e, v, mode) ==
    \E l \in Texts(mode) : \E ms :
        IsArgs(l, ms, mode) /\ e = Cat(l, One(RParen)) /\ v = Literal(name, Cat(terms, ms))

AtSeparator(name, terms, e, v, mode) ==
    \/ e = One(RParen) /\ v = Literal(name, terms)
    \/ \E d \in Texts(mode) : e = Cat(One(Comma), d) /\ AtLoop(name, terms, d, v, mode)

AtOpen(name, terms, e, v, mode) ==
    \E d \in Texts(mode) : e = Cat(One(LParen), d) /\ AtLoop(name, terms, d, v, mode)

AtPredicate(terms, e, v, mode) ==
    \E p \in Identifiers(mode), d \in Texts(mode) :
        e = Cat(One(p), d) /\ AtOpen(p.value, terms, d, v, mode)

AtInner(terms, e, v, mode) ==
    \E i \in Texts(mode) : \E l :
        IsInner(i, l, mode) /\ e = Cat(i, One(RBracket)) /\ v = ListOf(terms, l)

AtListFirst(terms, e, v, mode) ==
    \/ e = One(RBracket) /\ v = EmptyList
    \/ AtInner(terms, e, v, mode)

AtTail(terms, e, v, mode) ==
    \E s \in Texts(mode) : \E l :
        IsTerm(s, l, mode) /\ e = Cat(s, One(RBracket)) /\ v = ListOf(terms, l)

AtListRest(terms, e, v, mode) ==
    \/ e = One(RBracket) /\ v = ListOf(terms, EmptyList)
    \/ \E d \in Texts(mode) : e = Cat(One(Comma), d) /\ AtInner(terms, d, v, mode)
    \/ \E d \in Texts(mode) : e = Cat(One(Pipe), d) /\ AtTail(terms, d, v, mode)

AtItems(name, terms, e, v, mode) ==
    \E l \in Texts(mode) : \E ms :
        IsItems(l, ms, mode) /\ e = Cat(l, One(RParen)) /\ v = Compound(name, Cat(terms, ms))

AtArgsFirst(name, terms, e, v, mode) ==
    \/ e = One(RParen) /\ v = Compound(name, << >>)
    \/ AtItems(name, terms, e, v, mode)

AtArgsRest(name, terms, e, v, mode) ==
    \/ e = One(RParen) /\ v = Compound(name, terms)
    \/ \E d \in Texts(mode) : e = Cat(One(Comma), d) /\ AtItems(name, terms, d, v, mode)

AtName(name, terms, e, v, mode) ==
    \/ e = << >> /\ v = Constant(name)
    \/ \E d \in Texts(mode) : e = Cat(One(LParen), d) /\ AtArgsFirst(name, terms, d, v, mode)

(* The same, once the next term is known. *)
InnerTold(terms, e, v, mode) ==
    \E s \in Texts(mode), d \in Texts(mode) : \E m :
        IsTerm(s, m, mode) /\ e = Cat(s, d) /\ AtListRest(Append(terms, m), d, v, mode)

ItemsTold(name, terms, e, v, mode) ==
    \E s \in Texts(mode), d \in Texts(mode) : \E m :
        IsTerm(s, m, mode) /\ e = Cat(s, d) /\ AtArgsRest(name, Append(terms, m), d, v, mode)

LoopTold(name, terms, e, v, mode) ==
    \E s \in Texts(mode), d \in Texts(mode) : \E m :
        IsTerm(s, m, mode) /\ e = Cat(s, d) /\ AtSeparator(name, Append(terms, m), d, v, mode)

--------------------------------------------------------------------------------
(* The inside of a list *)

(* The inside of a list is a term and what may follow it in a list. *)
LEMMA InnerIsTold ==
    ASSUME NEW mode, NEW e \in Texts(mode), NEW terms, IsSeq(terms), NEW v, AtInner(terms, e, v, mode)
    PROVE  InnerTold(terms, e, v, mode)
<1>1. PICK i \in Texts(mode) : \E l :
          IsInner(i, l, mode) /\ e = Cat(i, One(RBracket)) /\ v = ListOf(terms, l)
  BY DEF AtInner
<1>2. PICK c : IsInner(i, c, mode) /\ e = Cat(i, One(RBracket)) /\ v = ListOf(terms, c)
  BY <1>1
<1>3. InnerShape(i, c, mode)
  BY <1>2, InnerIsShape
<1>4. RBracket \in Tokens(mode) /\ Pipe \in Tokens(mode) /\ Comma \in Tokens(mode)
  BY Marks
<1>5. One(RBracket) \in Texts(mode)
  BY <1>4, OneInTexts
<1>6. CASE \E m : IsTerm(i, m, mode) /\ c = ConsCell(m, EmptyList)
  <2>1. PICK m : IsTerm(i, m, mode) /\ c = ConsCell(m, EmptyList)
    BY <1>6
  <2>2. v = ListOf(Append(terms, m), EmptyList)
    BY <1>2, <2>1, ListOfAppend
  <2>3. AtListRest(Append(terms, m), One(RBracket), v, mode)
    BY <2>2 DEF AtListRest
  <2> QED
    BY <1>2, <1>5, <2>1, <2>3 DEF InnerTold
<1>7. CASE CellsJoined(i, c, mode)
  <2>1. PICK a \in Texts(mode), b \in Texts(mode) : \E m, l :
            /\ IsTerm(a, m, mode)
            /\ \/ IsTerm(b, l, mode) /\ i = Cat(a, Cat(One(Pipe), b))
               \/ IsInner(b, l, mode) /\ i = Cat(a, Cat(One(Comma), b))
            /\ c = ConsCell(m, l)
    BY <1>7 DEF CellsJoined
  <2>2. PICK m, l :
            /\ IsTerm(a, m, mode)
            /\ \/ IsTerm(b, l, mode) /\ i = Cat(a, Cat(One(Pipe), b))
               \/ IsInner(b, l, mode) /\ i = Cat(a, Cat(One(Comma), b))
            /\ c = ConsCell(m, l)
    BY <2>1
  <2>3. v = ListOf(Append(terms, m), l)
    BY <1>2, <2>2, ListOfAppend
  <2> DEFINE d == Cat(b, One(RBracket))
  <2>4. d \in Texts(mode)
    BY <1>4, Suffixed
  <2>5. CASE IsTerm(b, l, mode) /\ i = Cat(a, Cat(One(Pipe), b))
    <3>1. e = Cat(a, Cat(One(Pipe), d)) /\ Cat(One(Pipe), d) \in Texts(mode)
      BY <1>2, <1>4, <2>5, ClosedJoin
    <3>2. AtTail(Append(terms, m), d, v, mode)
      BY <2>3, <2>5 DEF AtTail
    <3> HIDE DEF d
    <3>3. AtListRest(Append(terms, m), Cat(One(Pipe), d), v, mode)
      BY <2>4, <3>2 DEF AtListRest
    <3> QED
      BY <2>2, <3>1, <3>3 DEF InnerTold
  <2>6. CASE IsInner(b, l, mode) /\ i = Cat(a, Cat(One(Comma), b))
    <3>1. e = Cat(a, Cat(One(Comma), d)) /\ Cat(One(Comma), d) \in Texts(mode)
      BY <1>2, <1>4, <2>6, ClosedJoin
    <3>2. AtInner(Append(terms, m), d, v, mode)
      BY <2>3, <2>6 DEF AtInner
    <3> HIDE DEF d
    <3>3. AtListRest(Append(terms, m), Cat(One(Comma), d), v, mode)
      BY <2>4, <3>2 DEF AtListRest
    <3> QED
      BY <2>2, <3>1, <3>3 DEF InnerTold
  <2> QED
    BY <2>2, <2>5, <2>6
<1> QED
  BY <1>3, <1>6, <1>7 DEF InnerShape

LEMMA ToldIsInner ==
    ASSUME NEW mode, NEW e \in Texts(mode), Len(e) <= MaxTokens, NEW terms, IsSeq(terms), NEW v,
           InnerTold(terms, e, v, mode)
    PROVE  AtInner(terms, e, v, mode)
<1>1. PICK s \in Texts(mode), d \in Texts(mode) : \E m :
          IsTerm(s, m, mode) /\ e = Cat(s, d) /\ AtListRest(Append(terms, m), d, v, mode)
  BY DEF InnerTold
<1>2. PICK m : IsTerm(s, m, mode) /\ e = Cat(s, d) /\ AtListRest(Append(terms, m), d, v, mode)
  BY <1>1
<1>3. RBracket \in Tokens(mode) /\ Pipe \in Tokens(mode) /\ Comma \in Tokens(mode)
  BY Marks
<1>4. ASSUME NEW i \in Texts(mode), NEW c, InnerShape(i, c, mode), e = Cat(i, One(RBracket)), v = ListOf(terms, c)
      PROVE  AtInner(terms, e, v, mode)
  <2>1. Len(i) <= MaxTokens
    BY <1>3, <1>4, ClosedLength
  <2>2. IsInner(i, c, mode)
    BY <1>4, <2>1, ShapeIsInner
  <2> QED
    BY <1>4, <2>2 DEF AtInner
<1>5. CASE d = One(RBracket) /\ v = ListOf(Append(terms, m), EmptyList)
  <2>1. v = ListOf(terms, ConsCell(m, EmptyList))
    BY <1>5, ListOfAppend
  <2>2. InnerShape(s, ConsCell(m, EmptyList), mode)
    BY <1>2 DEF InnerShape
  <2> QED
    BY <1>2, <1>4, <1>5, <2>1, <2>2
<1>6. ASSUME NEW t \in Tokens(mode), NEW b \in Texts(mode), NEW l,
             d = Cat(One(t), Cat(b, One(RBracket))), v = ListOf(Append(terms, m), l),
             (t = Pipe /\ IsTerm(b, l, mode)) \/ (t = Comma /\ IsInner(b, l, mode))
      PROVE  AtInner(terms, e, v, mode)
  <2> DEFINE i == Cat(s, Cat(One(t), b))
  <2>1. i \in Texts(mode) /\ e = Cat(i, One(RBracket))
    <3>1. e = Cat(s, Cat(One(t), Cat(b, One(RBracket))))
      BY <1>2, <1>6
    <3>2. i \in Texts(mode) /\ Cat(i, One(RBracket)) = Cat(s, Cat(One(t), Cat(b, One(RBracket))))
      BY <1>3, ClosedJoin
    <3> HIDE DEF i
    <3> QED
      BY <3>1, <3>2
  <2>2. v = ListOf(terms, ConsCell(m, l))
    BY <1>6, ListOfAppend
  <2>3. CellsJoined(i, ConsCell(m, l), mode)
    <3>1. \/ IsTerm(b, l, mode) /\ i = Cat(s, Cat(One(Pipe), b))
          \/ IsInner(b, l, mode) /\ i = Cat(s, Cat(One(Comma), b))
      BY <1>6
    <3> HIDE DEF i
    <3> QED
      BY <1>2, <3>1 DEF CellsJoined
  <2>4. InnerShape(i, ConsCell(m, l), mode)
    BY <2>3 DEF InnerShape
  <2> HIDE DEF i
  <2> QED
    BY <1>4, <2>1, <2>2, <2>4
<1>7. CASE \E x \in Texts(mode) : d = Cat(One(Comma), x) /\ AtInner(Append(terms, m), x, v, mode)
  <2>1. PICK x \in Texts(mode) : d = Cat(One(Comma), x) /\ AtInner(Append(terms, m), x, v, mode)
    BY <1>7
  <2>2. PICK b \in Texts(mode) : \E l :
            IsInner(b, l, mode) /\ x = Cat(b, One(RBracket)) /\ v = ListOf(Append(terms, m), l)
    BY <2>1 DEF AtInner
  <2>3. PICK l : IsInner(b, l, mode) /\ x = Cat(b, One(RBracket)) /\ v = ListOf(Append(terms, m), l)
    BY <2>2
  <2>4. d = Cat(One(Comma), Cat(b, One(RBracket)))
    BY <2>1, <2>3
  <2> QED
    BY <1>3, <1>6, <2>3, <2>4
<1>8. CASE \E x \in Texts(mode) : d = Cat(One(Pipe), x) /\ AtTail(Append(terms, m), x, v, mode)
  <2>1. PICK x \in Texts(mode) : d = Cat(One(Pipe), x) /\ AtTail(Append(terms, m), x, v, mode)
    BY <1>8
  <2>2. PICK b \in Texts(mode) : \E l :
            IsTerm(b, l, mode) /\ x = Cat(b, One(RBracket)) /\ v = ListOf(Append(terms, m), l)
    BY <2>1 DEF AtTail
  <2>3. PICK l : IsTerm(b, l, mode) /\ x = Cat(b, One(RBracket)) /\ v = ListOf(Append(terms, m), l)
    BY <2>2
  <2>4. d = Cat(One(Pipe), Cat(b, One(RBracket)))
    BY <2>1, <2>3
  <2> QED
    BY <1>3, <1>6, <2>3, <2>4
<1> QED
  BY <1>2, <1>5, <1>7, <1>8 DEF AtListRest

--------------------------------------------------------------------------------
(* The arguments of a compound *)

LEMMA CatSeqs ==
    ASSUME NEW s, IsSeq(s), NEW t, IsSeq(t), NEW u, IsSeq(u)
    PROVE  Cat(Cat(s, t), u) = Cat(s, Cat(t, u)) /\ IsSeq(Cat(s, t))
<1>1. Cat(Cat(s, t), u) = Cat(s, Cat(t, u))
  BY CatAssoc DEF Cat
<1>2. IsSeq(Cat(s, t))
  BY CatFacts DEF Cat
<1> QED
  BY <1>1, <1>2

LEMMA OneIsSeq == \A x : IsSeq(One(x))
BY OneFacts DEF One

LEMMA TermsMore ==
    ASSUME NEW terms, IsSeq(terms), NEW m, NEW ns, IsSeq(ns)
    PROVE  /\ Append(terms, m) = Cat(terms, One(m)) /\ IsSeq(Append(terms, m))
           /\ Cat(terms, Cat(One(m), ns)) = Cat(Append(terms, m), ns)
           /\ IsSeq(Cat(One(m), ns))
<1>1. IsSeq(One(m))
  BY OneIsSeq
<1>2. Append(terms, m) = Cat(terms, One(m)) /\ IsSeq(Append(terms, m))
  BY AppendIsCat DEF Cat, One
<1>3. Cat(Cat(terms, One(m)), ns) = Cat(terms, Cat(One(m), ns)) /\ IsSeq(Cat(One(m), ns))
  BY <1>1, CatSeqs
<1> QED
  BY <1>2, <1>3

(* A term list is a term and what may follow it between parentheses. *)
LEMMA ItemsIsTold ==
    ASSUME NEW mode, NEW e \in Texts(mode), NEW name, NEW terms, IsSeq(terms), NEW v,
           AtItems(name, terms, e, v, mode)
    PROVE  ItemsTold(name, terms, e, v, mode)
<1>1. PICK l \in Texts(mode) : \E ms :
          IsItems(l, ms, mode) /\ e = Cat(l, One(RParen)) /\ v = Compound(name, Cat(terms, ms))
  BY DEF AtItems
<1>2. PICK ms : IsItems(l, ms, mode) /\ e = Cat(l, One(RParen)) /\ v = Compound(name, Cat(terms, ms))
  BY <1>1
<1>3. ItemsShape(l, ms, mode)
  BY <1>2, ItemsIsShape
<1>4. RParen \in Tokens(mode) /\ Comma \in Tokens(mode)
  BY Marks
<1>5. One(RParen) \in Texts(mode)
  BY <1>4, OneInTexts
<1>6. CASE \E m : IsTerm(l, m, mode) /\ ms = One(m)
  <2>1. PICK m : IsTerm(l, m, mode) /\ ms = One(m)
    BY <1>6
  <2>2. v = Compound(name, Append(terms, m))
    <3>1. Append(terms, m) = Cat(terms, One(m))
      BY TermsMore
    <3> QED
      BY <1>2, <2>1, <3>1
  <2>3. AtArgsRest(name, Append(terms, m), One(RParen), v, mode)
    BY <2>2 DEF AtArgsRest
  <2> QED
    BY <1>2, <1>5, <2>1, <2>3 DEF ItemsTold
<1>7. CASE ItemsJoined(l, ms, mode)
  <2>1. PICK a \in Texts(mode), b \in Texts(mode) : \E m, ns :
            /\ IsTerm(a, m, mode) /\ IsItems(b, ns, mode)
            /\ l = Cat(a, Cat(One(Comma), b)) /\ ms = Cat(One(m), ns)
    BY <1>7 DEF ItemsJoined
  <2>2. PICK m, ns :
            /\ IsTerm(a, m, mode) /\ IsItems(b, ns, mode)
            /\ l = Cat(a, Cat(One(Comma), b)) /\ ms = Cat(One(m), ns)
    BY <2>1
  <2>3. v = Compound(name, Cat(Append(terms, m), ns))
    <3>1. IsSeq(ns)
      BY <2>2, SpelledByLength DEF IsItems, Kinds
    <3>2. Cat(terms, Cat(One(m), ns)) = Cat(Append(terms, m), ns)
      BY <3>1, TermsMore
    <3> QED
      BY <1>2, <2>2, <3>2
  <2> DEFINE d == Cat(b, One(RParen))
  <2>4. d \in Texts(mode)
    BY <1>4, Suffixed
  <2>5. e = Cat(a, Cat(One(Comma), d)) /\ Cat(One(Comma), d) \in Texts(mode)
    BY <1>2, <1>4, <2>2, ClosedJoin
  <2>6. AtItems(name, Append(terms, m), d, v, mode)
    BY <2>2, <2>3 DEF AtItems
  <2> HIDE DEF d
  <2>7. AtArgsRest(name, Append(terms, m), Cat(One(Comma), d), v, mode)
    BY <2>4, <2>6 DEF AtArgsRest
  <2> QED
    BY <2>2, <2>5, <2>7 DEF ItemsTold
<1> QED
  BY <1>3, <1>6, <1>7 DEF ItemsShape

LEMMA ToldIsItems ==
    ASSUME NEW mode, NEW e \in Texts(mode), Len(e) <= MaxTokens, NEW name, NEW terms, IsSeq(terms), NEW v,
           ItemsTold(name, terms, e, v, mode)
    PROVE  AtItems(name, terms, e, v, mode)
<1>1. PICK s \in Texts(mode), d \in Texts(mode) : \E m :
          IsTerm(s, m, mode) /\ e = Cat(s, d) /\ AtArgsRest(name, Append(terms, m), d, v, mode)
  BY DEF ItemsTold
<1>2. PICK m : IsTerm(s, m, mode) /\ e = Cat(s, d) /\ AtArgsRest(name, Append(terms, m), d, v, mode)
  BY <1>1
<1>3. RParen \in Tokens(mode) /\ Comma \in Tokens(mode)
  BY Marks
<1>4. ASSUME NEW l \in Texts(mode), NEW ms, ItemsShape(l, ms, mode), e = Cat(l, One(RParen)),
             v = Compound(name, Cat(terms, ms))
      PROVE  AtItems(name, terms, e, v, mode)
  <2>1. Len(l) <= MaxTokens
    BY <1>3, <1>4, ClosedLength
  <2>2. IsItems(l, ms, mode)
    BY <1>4, <2>1, ShapeIsItems
  <2> QED
    BY <1>4, <2>2 DEF AtItems
<1>5. CASE d = One(RParen) /\ v = Compound(name, Append(terms, m))
  <2>1. v = Compound(name, Cat(terms, One(m)))
    <3>1. Append(terms, m) = Cat(terms, One(m))
      BY TermsMore
    <3> QED
      BY <1>5, <3>1
  <2>2. ItemsShape(s, One(m), mode)
    BY <1>2 DEF ItemsShape
  <2> QED
    BY <1>2, <1>4, <1>5, <2>1, <2>2
<1>6. CASE \E x \in Texts(mode) : d = Cat(One(Comma), x) /\ AtItems(name, Append(terms, m), x, v, mode)
  <2>1. PICK x \in Texts(mode) : d = Cat(One(Comma), x) /\ AtItems(name, Append(terms, m), x, v, mode)
    BY <1>6
  <2>2. PICK b \in Texts(mode) : \E ns :
            IsItems(b, ns, mode) /\ x = Cat(b, One(RParen)) /\ v = Compound(name, Cat(Append(terms, m), ns))
    BY <2>1 DEF AtItems
  <2>3. PICK ns : IsItems(b, ns, mode) /\ x = Cat(b, One(RParen)) /\ v = Compound(name, Cat(Append(terms, m), ns))
    BY <2>2
  <2> DEFINE i == Cat(s, Cat(One(Comma), b))
             ms == Cat(One(m), ns)
  <2>4. v = Compound(name, Cat(terms, ms))
    <3>1. IsSeq(ns)
      BY <2>3, SpelledByLength DEF IsItems, Kinds
    <3>2. Cat(terms, Cat(One(m), ns)) = Cat(Append(terms, m), ns)
      BY <3>1, TermsMore
    <3> QED
      BY <2>3, <3>2
  <2>5. i \in Texts(mode) /\ e = Cat(i, One(RParen))
    <3>1. e = Cat(s, Cat(One(Comma), Cat(b, One(RParen))))
      BY <1>2, <2>1, <2>3
    <3>2. i \in Texts(mode) /\ Cat(i, One(RParen)) = Cat(s, Cat(One(Comma), Cat(b, One(RParen))))
      BY <1>3, ClosedJoin
    <3> HIDE DEF i
    <3> QED
      BY <3>1, <3>2
  <2>6. ItemsJoined(i, ms, mode)
    BY <1>2, <2>3 DEF ItemsJoined
  <2>7. ItemsShape(i, ms, mode)
    BY <2>6 DEF ItemsShape
  <2> HIDE DEF i, ms
  <2> QED
    BY <1>4, <2>4, <2>5, <2>7
<1> QED
  BY <1>2, <1>5, <1>6 DEF AtArgsRest

--------------------------------------------------------------------------------
(* The terms of a fact *)

ArgsJoined(l, ms, mode) ==
    \E s \in Texts(mode), b \in Texts(mode) : \E m, ns :
        /\ IsTerm(s, m, mode) /\ IsArgs(b, ns, mode) /\ IsSeq(ns)
        /\ l = Cat(s, Cat(One(Comma), b)) /\ ms = Cat(One(m), ns)

ArgsShape(l, ms, mode) ==
    \/ l = << >> /\ ms = << >>
    \/ \E m : IsTerm(l, m, mode) /\ ms = One(m)
    \/ ArgsJoined(l, ms, mode)

(* What parse reads between parentheses: nothing, or a term and what may follow it. *)
LEMMA ArgsIsShape ==
    ASSUME NEW mode, NEW l \in Texts(mode), NEW ms, IsArgs(l, ms, mode)
    PROVE  ArgsShape(l, ms, mode)
<1>1. CASE l = << >> /\ ms = << >>
  BY <1>1 DEF ArgsShape
<1>2. Comma \in Tokens(mode) /\ << >> \in Texts(mode)
  BY Marks, TextFacts
<1>3. CASE IsItems(l, ms, mode)
  <2>1. ItemsShape(l, ms, mode)
    BY <1>3, ItemsIsShape
  <2>2. CASE \E m : IsTerm(l, m, mode) /\ ms = One(m)
    BY <2>2 DEF ArgsShape
  <2>3. CASE ItemsJoined(l, ms, mode)
    <3>1. PICK a \in Texts(mode), b \in Texts(mode) : \E m, ns :
              /\ IsTerm(a, m, mode) /\ IsItems(b, ns, mode)
              /\ l = Cat(a, Cat(One(Comma), b)) /\ ms = Cat(One(m), ns)
      BY <2>3 DEF ItemsJoined
    <3>2. PICK m, ns :
              /\ IsTerm(a, m, mode) /\ IsItems(b, ns, mode)
              /\ l = Cat(a, Cat(One(Comma), b)) /\ ms = Cat(One(m), ns)
      BY <3>1
    <3>3. IsArgs(b, ns, mode) /\ IsSeq(ns)
      BY <3>2, SpelledByLength DEF IsArgs, IsItems, Kinds
    <3>4. ArgsJoined(l, ms, mode)
      BY <3>2, <3>3 DEF ArgsJoined
    <3> QED
      BY <3>4 DEF ArgsShape
  <2> QED
    BY <2>1, <2>2, <2>3 DEF ItemsShape
<1>4. CASE \E k \in Texts(mode) : IsItems(k, ms, mode) /\ l = Cat(k, One(Comma))
  <2>1. PICK k \in Texts(mode) : IsItems(k, ms, mode) /\ l = Cat(k, One(Comma))
    BY <1>4
  <2>2. ItemsShape(k, ms, mode)
    BY <2>1, ItemsIsShape
  <2>3. CASE \E m : IsTerm(k, m, mode) /\ ms = One(m)
    <3>1. PICK m : IsTerm(k, m, mode) /\ ms = One(m)
      BY <2>3
    <3>2. One(Comma) = Cat(One(Comma), << >>) /\ One(m) = Cat(One(m), << >>) /\ IsSeq(<< >>)
      <4>1. IsSeq(One(Comma)) /\ IsSeq(One(m))
        BY OneFacts DEF One
      <4> QED
        BY <1>2, <4>1, SeqFacts, TextsAreSeqs DEF Cat
    <3>3. IsArgs(<< >>, << >>, mode)
      BY DEF IsArgs
    <3>4. ArgsJoined(l, ms, mode)
      BY <1>2, <2>1, <3>1, <3>2, <3>3 DEF ArgsJoined
    <3> QED
      BY <3>4 DEF ArgsShape
  <2>4. CASE ItemsJoined(k, ms, mode)
    <3>1. PICK a \in Texts(mode), b \in Texts(mode) : \E m, ns :
              /\ IsTerm(a, m, mode) /\ IsItems(b, ns, mode)
              /\ k = Cat(a, Cat(One(Comma), b)) /\ ms = Cat(One(m), ns)
      BY <2>4 DEF ItemsJoined
    <3>2. PICK m, ns :
              /\ IsTerm(a, m, mode) /\ IsItems(b, ns, mode)
              /\ k = Cat(a, Cat(One(Comma), b)) /\ ms = Cat(One(m), ns)
      BY <3>1
    <3> DEFINE c == Cat(b, One(Comma))
    <3>3. c \in Texts(mode)
      BY <1>2, Suffixed
    <3>4. IsArgs(c, ns, mode) /\ IsSeq(ns)
      BY <3>2, SpelledByLength DEF IsArgs, IsItems, Kinds
    <3>5. l = Cat(a, Cat(One(Comma), c))
      BY <1>2, <2>1, <3>2, ClosedJoin
    <3> HIDE DEF c
    <3>6. ArgsJoined(l, ms, mode)
      BY <3>2, <3>3, <3>4, <3>5 DEF ArgsJoined
    <3> QED
      BY <3>6 DEF ArgsShape
  <2> QED
    BY <2>2, <2>3, <2>4 DEF ItemsShape
<1> QED
  BY <1>1, <1>3, <1>4 DEF IsArgs

LEMMA ShapeIsArgs ==
    ASSUME NEW mode, NEW l \in Texts(mode), Len(l) <= MaxTokens, NEW ms, ArgsShape(l, ms, mode)
    PROVE  IsArgs(l, ms, mode)
<1>1. CASE l = << >> /\ ms = << >>
  BY <1>1 DEF IsArgs
<1>2. Comma \in Tokens(mode) /\ << >> \in Texts(mode)
  BY Marks, TextFacts
<1>3. ASSUME NEW k \in Texts(mode), Len(k) <= MaxTokens, NEW ns, ItemsShape(k, ns, mode)
      PROVE  IsItems(k, ns, mode)
  BY <1>3, ShapeIsItems
<1>4. CASE \E m : IsTerm(l, m, mode) /\ ms = One(m)
  <2>1. ItemsShape(l, ms, mode)
    BY <1>4 DEF ItemsShape
  <2> QED
    BY <1>3, <2>1 DEF IsArgs
<1>5. CASE ArgsJoined(l, ms, mode)
  <2>1. PICK s \in Texts(mode), b \in Texts(mode) : \E m, ns :
            /\ IsTerm(s, m, mode) /\ IsArgs(b, ns, mode) /\ IsSeq(ns)
            /\ l = Cat(s, Cat(One(Comma), b)) /\ ms = Cat(One(m), ns)
    BY <1>5 DEF ArgsJoined
  <2>2. PICK m, ns :
            /\ IsTerm(s, m, mode) /\ IsArgs(b, ns, mode) /\ IsSeq(ns)
            /\ l = Cat(s, Cat(One(Comma), b)) /\ ms = Cat(One(m), ns)
    BY <2>1
  <2>3. CASE b = << >> /\ ns = << >>
    <3>1. l = Cat(s, One(Comma)) /\ ms = One(m)
      <4>1. IsSeq(One(Comma)) /\ IsSeq(One(m))
        BY OneFacts DEF One
      <4>2. One(Comma) = Cat(One(Comma), << >>) /\ One(m) = Cat(One(m), << >>)
        BY <4>1, SeqFacts DEF Cat
      <4> QED
        BY <2>2, <2>3, <4>2
    <3>2. Len(s) <= MaxTokens
      BY <1>2, <3>1, ClosedLength
    <3>3. ItemsShape(s, ms, mode)
      BY <2>2, <3>1 DEF ItemsShape
    <3> QED
      BY <1>3, <3>1, <3>2, <3>3 DEF IsArgs
  <2>4. CASE IsItems(b, ns, mode)
    <3>1. ItemsJoined(l, ms, mode)
      BY <2>2, <2>4 DEF ItemsJoined
    <3>2. ItemsShape(l, ms, mode)
      BY <3>1 DEF ItemsShape
    <3> QED
      BY <1>3, <3>2 DEF IsArgs
  <2>5. CASE \E k \in Texts(mode) : IsItems(k, ns, mode) /\ b = Cat(k, One(Comma))
    <3>1. PICK k \in Texts(mode) : IsItems(k, ns, mode) /\ b = Cat(k, One(Comma))
      BY <2>5
    <3> DEFINE i == Cat(s, Cat(One(Comma), k))
    <3>2. i \in Texts(mode) /\ l = Cat(i, One(Comma))
      <4>1. l = Cat(s, Cat(One(Comma), Cat(k, One(Comma))))
        BY <2>2, <3>1
      <4>2. i \in Texts(mode) /\ Cat(i, One(Comma)) = Cat(s, Cat(One(Comma), Cat(k, One(Comma))))
        BY <1>2, ClosedJoin
      <4> HIDE DEF i
      <4> QED
        BY <4>1, <4>2
    <3>3. ItemsJoined(i, ms, mode)
      BY <2>2, <3>1 DEF ItemsJoined
    <3>4. ItemsShape(i, ms, mode)
      BY <3>3 DEF ItemsShape
    <3> HIDE DEF i
    <3>5. Len(i) <= MaxTokens
      BY <1>2, <3>2, ClosedLength
    <3> QED
      BY <1>3, <3>2, <3>4, <3>5 DEF IsArgs
  <2> QED
    BY <2>2, <2>3, <2>4, <2>5 DEF IsArgs
<1> QED
  BY <1>1, <1>4, <1>5 DEF ArgsShape

--------------------------------------------------------------------------------
(* The loop over the terms of a fact *)

(* The loop of parse is left at the parenthesis, or goes on with a term. *)
LEMMA LoopIsTold ==
    ASSUME NEW mode, NEW e \in Texts(mode), NEW name, NEW terms, IsSeq(terms), NEW v,
           AtLoop(name, terms, e, v, mode)
    PROVE  \/ e = One(RParen) /\ v = Literal(name, terms)
           \/ LoopTold(name, terms, e, v, mode)
<1>1. PICK l \in Texts(mode) : \E ms :
          IsArgs(l, ms, mode) /\ e = Cat(l, One(RParen)) /\ v = Literal(name, Cat(terms, ms))
  BY DEF AtLoop
<1>2. PICK ms : IsArgs(l, ms, mode) /\ e = Cat(l, One(RParen)) /\ v = Literal(name, Cat(terms, ms))
  BY <1>1
<1>3. ArgsShape(l, ms, mode)
  BY <1>2, ArgsIsShape
<1>4. RParen \in Tokens(mode) /\ Comma \in Tokens(mode)
  BY Marks
<1>5. One(RParen) \in Texts(mode)
  BY <1>4, OneInTexts
<1>6. CASE l = << >> /\ ms = << >>
  <2>1. Cat(<< >>, One(RParen)) = One(RParen)
    BY <1>5, TextFacts
  <2>2. Cat(terms, << >>) = terms
    BY SeqFacts DEF Cat
  <2> QED
    BY <1>2, <1>6, <2>1, <2>2
<1>7. CASE \E m : IsTerm(l, m, mode) /\ ms = One(m)
  <2>1. PICK m : IsTerm(l, m, mode) /\ ms = One(m)
    BY <1>7
  <2>2. v = Literal(name, Append(terms, m))
    <3>1. IsSeq(<< >>)
      BY TextFacts, TextsAreSeqs
    <3>2. Append(terms, m) = Cat(terms, One(m))
      BY <3>1, TermsMore
    <3> QED
      BY <1>2, <2>1, <3>2
  <2>3. AtSeparator(name, Append(terms, m), One(RParen), v, mode)
    BY <2>2 DEF AtSeparator
  <2> QED
    BY <1>2, <1>5, <2>1, <2>3 DEF LoopTold
<1>8. CASE ArgsJoined(l, ms, mode)
  <2>1. PICK a \in Texts(mode), b \in Texts(mode) : \E m, ns :
            /\ IsTerm(a, m, mode) /\ IsArgs(b, ns, mode) /\ IsSeq(ns)
            /\ l = Cat(a, Cat(One(Comma), b)) /\ ms = Cat(One(m), ns)
    BY <1>8 DEF ArgsJoined
  <2>2. PICK m, ns :
            /\ IsTerm(a, m, mode) /\ IsArgs(b, ns, mode) /\ IsSeq(ns)
            /\ l = Cat(a, Cat(One(Comma), b)) /\ ms = Cat(One(m), ns)
    BY <2>1
  <2>3. v = Literal(name, Cat(Append(terms, m), ns))
    <3>1. Cat(terms, Cat(One(m), ns)) = Cat(Append(terms, m), ns)
      BY <2>2, TermsMore
    <3> QED
      BY <1>2, <2>2, <3>1
  <2> DEFINE d == Cat(b, One(RParen))
  <2>4. d \in Texts(mode)
    BY <1>4, Suffixed
  <2>5. e = Cat(a, Cat(One(Comma), d)) /\ Cat(One(Comma), d) \in Texts(mode)
    BY <1>2, <1>4, <2>2, ClosedJoin
  <2>6. AtLoop(name, Append(terms, m), d, v, mode)
    BY <2>2, <2>3 DEF AtLoop
  <2> HIDE DEF d
  <2>7. AtSeparator(name, Append(terms, m), Cat(One(Comma), d), v, mode)
    BY <2>4, <2>6 DEF AtSeparator
  <2> QED
    BY <2>2, <2>5, <2>7 DEF LoopTold
<1> QED
  BY <1>3, <1>6, <1>7, <1>8 DEF ArgsShape

LEMMA ClosedIsLoop ==
    ASSUME NEW mode, NEW name, NEW terms, IsSeq(terms)
    PROVE  AtLoop(name, terms, One(RParen), Literal(name, terms), mode)
<1>1. << >> \in Texts(mode) /\ One(RParen) \in Texts(mode)
  BY TextFacts, Marks
<1>2. Cat(<< >>, One(RParen)) = One(RParen) /\ Cat(terms, << >>) = terms
  BY <1>1, TextFacts, SeqFacts DEF Cat
<1>3. IsArgs(<< >>, << >>, mode)
  BY DEF IsArgs
<1> QED
  BY <1>1, <1>2, <1>3 DEF AtLoop

LEMMA ToldIsLoop ==
    ASSUME NEW mode, NEW e \in Texts(mode), Len(e) <= MaxTokens, NEW name, NEW terms, IsSeq(terms), NEW v,
           LoopTold(name, terms, e, v, mode)
    PROVE  AtLoop(name, terms, e, v, mode)
<1>1. PICK s \in Texts(mode), d \in Texts(mode) : \E m :
          IsTerm(s, m, mode) /\ e = Cat(s, d) /\ AtSeparator(name, Append(terms, m), d, v, mode)
  BY DEF LoopTold
<1>2. PICK m : IsTerm(s, m, mode) /\ e = Cat(s, d) /\ AtSeparator(name, Append(terms, m), d, v, mode)
  BY <1>1
<1>3. RParen \in Tokens(mode) /\ Comma \in Tokens(mode)
  BY Marks
<1>4. ASSUME NEW l \in Texts(mode), NEW ms, ArgsShape(l, ms, mode), e = Cat(l, One(RParen)),
             v = Literal(name, Cat(terms, ms))
      PROVE  AtLoop(name, terms, e, v, mode)
  <2>1. Len(l) <= MaxTokens
    BY <1>3, <1>4, ClosedLength
  <2>2. IsArgs(l, ms, mode)
    BY <1>4, <2>1, ShapeIsArgs
  <2> QED
    BY <1>4, <2>2 DEF AtLoop
<1>5. CASE d = One(RParen) /\ v = Literal(name, Append(terms, m))
  <2>1. v = Literal(name, Cat(terms, One(m)))
    <3>1. IsSeq(<< >>)
      BY TextFacts, TextsAreSeqs
    <3>2. Append(terms, m) = Cat(terms, One(m))
      BY <3>1, TermsMore
    <3> QED
      BY <1>5, <3>2
  <2>2. ArgsShape(s, One(m), mode)
    BY <1>2 DEF ArgsShape
  <2> QED
    BY <1>2, <1>4, <1>5, <2>1, <2>2
<1>6. CASE \E x \in Texts(mode) : d = Cat(One(Comma), x) /\ AtLoop(name, Append(terms, m), x, v, mode)
  <2>1. PICK x \in Texts(mode) : d = Cat(One(Comma), x) /\ AtLoop(name, Append(terms, m), x, v, mode)
    BY <1>6
  <2>2. PICK b \in Texts(mode) : \E ns :
            IsArgs(b, ns, mode) /\ x = Cat(b, One(RParen)) /\ v = Literal(name, Cat(Append(terms, m), ns))
    BY <2>1 DEF AtLoop
  <2>3. PICK ns : IsArgs(b, ns, mode) /\ x = Cat(b, One(RParen)) /\ v = Literal(name, Cat(Append(terms, m), ns))
    BY <2>2
  <2> DEFINE i == Cat(s, Cat(One(Comma), b))
             ms == Cat(One(m), ns)
  <2>0. IsSeq(ns)
    <3>1. IsSeq(<< >>)
      BY TextFacts, TextsAreSeqs
    <3> QED
      BY <2>3, <3>1, SpelledByLength DEF IsArgs, IsItems, Kinds
  <2>4. v = Literal(name, Cat(terms, ms))
    <3>1. Cat(terms, Cat(One(m), ns)) = Cat(Append(terms, m), ns)
      BY <2>0, TermsMore
    <3> QED
      BY <2>3, <3>1
  <2>5. i \in Texts(mode) /\ e = Cat(i, One(RParen))
    <3>1. e = Cat(s, Cat(One(Comma), Cat(b, One(RParen))))
      BY <1>2, <2>1, <2>3
    <3>2. i \in Texts(mode) /\ Cat(i, One(RParen)) = Cat(s, Cat(One(Comma), Cat(b, One(RParen))))
      BY <1>3, ClosedJoin
    <3> HIDE DEF i
    <3> QED
      BY <3>1, <3>2
  <2>6. ArgsJoined(i, ms, mode)
    BY <1>2, <2>0, <2>3 DEF ArgsJoined
  <2>7. ArgsShape(i, ms, mode)
    BY <2>6 DEF ArgsShape
  <2> HIDE DEF i, ms
  <2> QED
    BY <1>4, <2>4, <2>5, <2>7
<1> QED
  BY <1>2, <1>5, <1>6 DEF AtSeparator

--------------------------------------------------------------------------------
(* What is still to be read of an activation, of all, and of the whole input *)

(* The activation that awaited a term and is given it. *)
GivenFrame(f, t) ==
    IF f.at = "tail"
    THEN [f EXCEPT !.tail = <<t>>, !.at = "end"]
    ELSE [f EXCEPT !.terms = Append(f.terms, t), !.at = IF f.fn = "parse" THEN "separator" ELSE "rest"]

Rest(f, e, v, mode) ==
    \/ f.fn = "parse" /\ f.at = "predicate" /\ AtPredicate(f.terms, e, v, mode)
    \/ f.fn = "parse" /\ f.at = "open" /\ AtOpen(f.name, f.terms, e, v, mode)
    \/ f.fn = "parse" /\ f.at = "loop" /\ AtLoop(f.name, f.terms, e, v, mode)
    \/ f.fn = "parse" /\ f.at = "separator" /\ AtSeparator(f.name, f.terms, e, v, mode)
    \/ f.fn = "parseList" /\ f.at = "first" /\ AtListFirst(f.terms, e, v, mode)
    \/ f.fn = "parseList" /\ f.at = "rest" /\ AtListRest(f.terms, e, v, mode)
    \/ f.fn = "parseList" /\ f.at = "end" /\ e = One(RBracket) /\ v = ListOf(f.terms, f.tail[1])
    \/ f.fn = "parseCompoundOrAtom" /\ f.at = "name" /\ AtName(f.name, f.terms, e, v, mode)
    \/ f.fn = "parseCompoundOrAtom" /\ f.at = "first" /\ AtArgsFirst(f.name, f.terms, e, v, mode)
    \/ f.fn = "parseCompoundOrAtom" /\ f.at = "rest" /\ AtArgsRest(f.name, f.terms, e, v, mode)

(* A term, and then what the activation that awaits it reads. *)
Asked(f, e, v, mode) ==
    \E s \in Texts(mode), d \in Texts(mode) : \E m :
        IsTerm(s, m, mode) /\ e = Cat(s, d) /\ Rest(GivenFrame(f, m), d, v, mode)

(* What is read next: the rest of an activation, a term it asked for, or nothing. *)
Way(how, f, e, v, mode) ==
    \/ how = "frame" /\ Rest(f, e, v, mode)
    \/ how = "asked" /\ Asked(f, e, v, mode)
    \/ how = "term" /\ IsTerm(e, v, mode)
    \/ how = "given" /\ e = << >> /\ v = f

(* The activations below read w and make r of the value v. *)
LeftFrom(left, val, stk, mode) ==
    \A i \in 1..Len(stk) :
        \E e \in Texts(mode) :
            left[i] = Cat(e, left[i - 1]) /\ Rest(GivenFrame(stk[i], val[i]), e, val[i - 1], mode)

Left(stk, w, v, r, mode) ==
    \E left \in [0..Len(stk) -> Texts(mode)] : \E val :
        /\ left[0] = << >> /\ val[0] = r /\ left[Len(stk)] = w /\ val[Len(stk)] = v
        /\ LeftFrom(left, val, stk, mode)

Plan(how, f, stk, w, r, mode) ==
    \E e \in Texts(mode), u \in Texts(mode) : \E x :
        w = Cat(e, u) /\ Way(how, f, e, x, mode) /\ Left(stk, u, x, r, mode)

(* With no activation below, nothing is left. *)
LEMMA LeftOfNone ==
    ASSUME NEW mode, NEW w, NEW v, NEW r
    PROVE  Left(<< >>, w, v, r, mode) <=> w = << >> /\ v = r
<1> DEFINE none == << >>
<1>1. Len(none) = 0 /\ none \in Texts(mode)
  BY TextFacts
<1>2. ASSUME w = none, v = r PROVE Left(none, w, v, r, mode)
  <2> DEFINE left == [i \in 0..0 |-> none]
             val == [i \in 0..0 |-> r]
  <2>1. left \in [0..0 -> Texts(mode)] /\ left[0] = none /\ val[0] = r
    BY <1>1
  <2> HIDE DEF left, val
  <2>2. LeftFrom(left, val, none, mode)
    BY <1>1 DEF LeftFrom
  <2> QED
    BY <1>1, <1>2, <2>1, <2>2 DEF Left
<1>3. ASSUME Left(none, w, v, r, mode) PROVE w = none /\ v = r
  BY <1>1, <1>3 DEF Left
<1> QED
  BY <1>2, <1>3

LEMMA Pushed ==
    ASSUME NEW s, IsSeq(s), NEW f
    PROVE  /\ Len(s) \in Nat /\ Len(Append(s, f)) = Len(s) + 1
           /\ Append(s, f)[Len(s) + 1] = f
           /\ \A i \in 1..Len(s) : Append(s, f)[i] = s[i]
<1>1. PICK S : s \in Seq(S)
  BY DEF IsSeq
<1>2. s \in Seq(S \cup {f}) /\ f \in S \cup {f}
  BY <1>1, SeqMonotonic
<1> QED
  BY <1>2, AppendProperties, LenProperties

LEMMA LeftFromPushed ==
    ASSUME NEW mode, NEW s, IsSeq(s), NEW f, NEW left, NEW val, NEW e \in Texts(mode),
           LeftFrom(left, val, s, mode),
           left[Len(s) + 1] = Cat(e, left[Len(s)]),
           Rest(GivenFrame(f, val[Len(s) + 1]), e, val[Len(s)], mode)
    PROVE  LeftFrom(left, val, Append(s, f), mode)
<1> DEFINE n == Len(s)
           q == Append(s, f)
<1>1. n \in Nat /\ Len(q) = n + 1 /\ q[n + 1] = f /\ \A i \in 1..n : q[i] = s[i]
  BY Pushed
<1>2. n + 1 - 1 = n
  BY <1>1
<1> HIDE DEF n, q
<1> SUFFICES ASSUME NEW i \in 1..(n + 1)
             PROVE  \E d \in Texts(mode) :
                        left[i] = Cat(d, left[i - 1]) /\ Rest(GivenFrame(q[i], val[i]), d, val[i - 1], mode)
  BY <1>1 DEF LeftFrom, q
<1>3. CASE i = n + 1
  <2>1. i - 1 = n /\ q[i] = f
    BY <1>1, <1>2, <1>3
  <2>2. left[i] = Cat(e, left[i - 1])
    BY <1>3, <2>1 DEF n
  <2>3. Rest(GivenFrame(q[i], val[i]), e, val[i - 1], mode)
    BY <1>3, <2>1 DEF n
  <2> QED
    BY <2>2, <2>3
<1>4. CASE i # n + 1
  <2>1. i \in 1..n
    BY <1>1, <1>4
  <2>2. q[i] = s[i]
    BY <1>1, <2>1
  <2> QED
    BY <2>1, <2>2 DEF LeftFrom, n
<1> QED
  BY <1>3, <1>4

(* The activation pushed last reads first, and what it returns goes to the one below it. *)
LEMMA LeftOfPushed ==
    ASSUME NEW mode, NEW s, IsSeq(s), NEW f, NEW w, NEW v, NEW r
    PROVE  Left(Append(s, f), w, v, r, mode)
               <=> \E e \in Texts(mode), u \in Texts(mode) : \E x :
                       w = Cat(e, u) /\ Rest(GivenFrame(f, v), e, x, mode) /\ Left(s, u, x, r, mode)
<1> DEFINE n == Len(s)
           q == Append(s, f)
<1>1. n \in Nat /\ Len(q) = n + 1 /\ q[n + 1] = f /\ \A i \in 1..n : q[i] = s[i]
  BY Pushed
<1>2. n + 1 - 1 = n /\ n + 1 \in 1..(n + 1) /\ n + 1 \in 0..(n + 1) /\ n \in 0..n
      /\ (\A i \in 0..n : i # n + 1) /\ 0 \in 0..n
  BY <1>1
<1>3. ASSUME Left(q, w, v, r, mode)
      PROVE  \E e \in Texts(mode), u \in Texts(mode) : \E x :
                 w = Cat(e, u) /\ Rest(GivenFrame(f, v), e, x, mode) /\ Left(s, u, x, r, mode)
  <2> HIDE DEF n, q
  <2>1. PICK left \in [0..(n + 1) -> Texts(mode)] : \E val :
            /\ left[0] = << >> /\ val[0] = r /\ left[n + 1] = w /\ val[n + 1] = v
            /\ LeftFrom(left, val, q, mode)
    BY <1>1, <1>3 DEF Left
  <2>2. PICK val :
            /\ left[0] = << >> /\ val[0] = r /\ left[n + 1] = w /\ val[n + 1] = v
            /\ LeftFrom(left, val, q, mode)
    BY <2>1
  <2>3. \A i \in 1..(n + 1) :
            \E e \in Texts(mode) :
                left[i] = Cat(e, left[i - 1]) /\ Rest(GivenFrame(q[i], val[i]), e, val[i - 1], mode)
    BY <1>1, <2>2 DEF LeftFrom
  <2>4. PICK e \in Texts(mode) :
            left[n + 1] = Cat(e, left[n]) /\ Rest(GivenFrame(f, val[n + 1]), e, val[n], mode)
    BY <1>1, <1>2, <2>3
  <2> DEFINE lower == [i \in 0..n |-> left[i]]
  <2>5. lower \in [0..n -> Texts(mode)] /\ \A i \in 0..n : lower[i] = left[i]
    BY <1>1
  <2>6. \A i \in 1..n : i \in 1..(n + 1) /\ i \in 0..n /\ i - 1 \in 0..n
    BY <1>1
  <2> HIDE DEF lower
  <2>7. LeftFrom(lower, val, s, mode)
    <3> SUFFICES ASSUME NEW i \in 1..n
                 PROVE  \E d \in Texts(mode) :
                            lower[i] = Cat(d, lower[i - 1])
                            /\ Rest(GivenFrame(s[i], val[i]), d, val[i - 1], mode)
      BY DEF LeftFrom, n
    <3>1. lower[i] = left[i] /\ lower[i - 1] = left[i - 1] /\ q[i] = s[i] /\ i \in 1..(n + 1)
      BY <1>1, <2>5, <2>6
    <3> QED
      BY <2>3, <3>1
  <2>8. Left(s, left[n], val[n], r, mode)
    <3>1. lower[0] = << >> /\ lower[n] = left[n]
      BY <1>2, <2>2, <2>5
    <3> QED
      BY <2>2, <2>5, <2>7, <3>1 DEF Left, n
  <2>9. left[n] \in Texts(mode)
    BY <1>2, <2>5
  <2> QED
    BY <2>2, <2>4, <2>8, <2>9
<1>4. ASSUME NEW e \in Texts(mode), NEW u \in Texts(mode), NEW x,
             w = Cat(e, u), Rest(GivenFrame(f, v), e, x, mode), Left(s, u, x, r, mode)
      PROVE  Left(q, w, v, r, mode)
  <2> HIDE DEF n, q
  <2>1. PICK low \in [0..n -> Texts(mode)] : \E was :
            /\ low[0] = << >> /\ was[0] = r /\ low[n] = u /\ was[n] = x
            /\ LeftFrom(low, was, s, mode)
    BY <1>4 DEF Left, n
  <2>2. PICK was :
            /\ low[0] = << >> /\ was[0] = r /\ low[n] = u /\ was[n] = x
            /\ LeftFrom(low, was, s, mode)
    BY <2>1
  <2> DEFINE left == [i \in 0..(n + 1) |-> IF i = n + 1 THEN w ELSE low[i]]
             val == [i \in 0..(n + 1) |-> IF i = n + 1 THEN v ELSE was[i]]
  <2>3. w \in Texts(mode)
    BY <1>4, CatInTexts
  <2>4. \A i \in 0..(n + 1) : i = n + 1 \/ i \in 0..n
    BY <1>1
  <2>5. left \in [0..(n + 1) -> Texts(mode)]
    BY <2>3, <2>4
  <2>6. left[n + 1] = w /\ val[n + 1] = v /\ \A i \in 0..n : left[i] = low[i] /\ val[i] = was[i]
    BY <1>1, <1>2
  <2> HIDE DEF left, val
  <2>7. \A i \in 1..n : i \in 0..n /\ i - 1 \in 0..n
    BY <1>1
  <2>8. LeftFrom(left, val, s, mode)
    <3> SUFFICES ASSUME NEW i \in 1..n
                 PROVE  \E d \in Texts(mode) :
                            left[i] = Cat(d, left[i - 1])
                            /\ Rest(GivenFrame(s[i], val[i]), d, val[i - 1], mode)
      BY DEF LeftFrom, n
    <3>1. left[i] = low[i] /\ left[i - 1] = low[i - 1] /\ val[i] = was[i] /\ val[i - 1] = was[i - 1]
      BY <2>6, <2>7
    <3> QED
      BY <2>2, <3>1 DEF LeftFrom, n
  <2>9. left[0] = << >> /\ val[0] = r /\ left[n] = u /\ val[n] = x
    BY <1>2, <2>2, <2>6
  <2>10. left[n + 1] = Cat(e, left[n]) /\ Rest(GivenFrame(f, val[n + 1]), e, val[n], mode)
    BY <1>4, <2>6, <2>9
  <2>11. LeftFrom(left, val, q, mode)
    BY <2>8, <2>10, LeftFromPushed DEF n, q
  <2> QED
    BY <1>1, <2>5, <2>6, <2>9, <2>11 DEF Left
<1> HIDE DEF q
<1>5. Left(q, w, v, r, mode)
          <=> \E e \in Texts(mode), u \in Texts(mode) : \E x :
                  w = Cat(e, u) /\ Rest(GivenFrame(f, v), e, x, mode) /\ Left(s, u, x, r, mode)
  BY <1>3, <1>4
<1> QED
  BY <1>5 DEF q

--------------------------------------------------------------------------------
(* Activations given the term they awaited *)

LEMMA GivenTail ==
    ASSUME NEW f, FrameOK(f), f.at = "tail", NEW t
    PROVE  LET g == GivenFrame(f, t)
           IN  g.fn = f.fn /\ g.name = f.name /\ g.terms = f.terms /\ g.tail = <<t>> /\ g.at = "end"
<1> DEFINE x == <<t>>
           h == [f EXCEPT !.tail = x]
<1> HIDE DEF x
<1>1. h.fn = f.fn /\ h.name = f.name /\ h.terms = f.terms /\ h.tail = x /\ "at" \in DOMAIN h
      /\ "fn" \in DOMAIN h /\ "name" \in DOMAIN h /\ "terms" \in DOMAIN h /\ "tail" \in DOMAIN h
  BY DEF FrameOK
<1>2. GivenFrame(f, t) = [h EXCEPT !.at = "end"]
  BY DEF GivenFrame, x
<1> HIDE DEF h
<1> QED
  BY <1>1, <1>2 DEF x

LEMMA GivenElement ==
    ASSUME NEW f, FrameOK(f), f.at # "tail", NEW t
    PROVE  LET g == GivenFrame(f, t)
           IN  g.fn = f.fn /\ g.name = f.name /\ g.terms = Append(f.terms, t) /\ g.tail = f.tail
               /\ g.at = IF f.fn = "parse" THEN "separator" ELSE "rest"
<1> DEFINE x == Append(f.terms, t)
           h == [f EXCEPT !.terms = x]
<1> HIDE DEF x
<1>1. h.fn = f.fn /\ h.name = f.name /\ h.terms = x /\ h.tail = f.tail /\ "at" \in DOMAIN h
      /\ "fn" \in DOMAIN h /\ "name" \in DOMAIN h /\ "terms" \in DOMAIN h /\ "tail" \in DOMAIN h
  BY DEF FrameOK
<1>2. GivenFrame(f, t) = [h EXCEPT !.at = IF f.fn = "parse" THEN "separator" ELSE "rest"]
  BY DEF GivenFrame, x
<1> HIDE DEF h
<1> QED
  BY <1>1, <1>2 DEF x

LEMMA RestAfterTerm ==
    ASSUME NEW f, FrameOK(f), f.fn = "parse", NEW t, NEW e, NEW v, NEW mode
    PROVE  Rest(GivenFrame(f, t), e, v, mode) <=> AtSeparator(f.name, Append(f.terms, t), e, v, mode)
<1> DEFINE g == GivenFrame(f, t)
<1>1. f.at # "tail"
  BY PlacesAndCalls DEF FrameOK
<1>2. g.fn = "parse" /\ g.name = f.name /\ g.terms = Append(f.terms, t) /\ g.at = "separator"
  BY <1>1, GivenElement
<1> HIDE DEF g
<1>3. Rest(g, e, v, mode) <=> AtSeparator(f.name, Append(f.terms, t), e, v, mode)
  BY <1>2 DEF Rest
<1> QED
  BY <1>3 DEF g

LEMMA RestAfterElement ==
    ASSUME NEW f, FrameOK(f), f.fn = "parseList", f.at # "tail", NEW t, NEW e, NEW v, NEW mode
    PROVE  Rest(GivenFrame(f, t), e, v, mode) <=> AtListRest(Append(f.terms, t), e, v, mode)
<1> DEFINE g == GivenFrame(f, t)
<1>2. g.fn = "parseList" /\ g.terms = Append(f.terms, t) /\ g.at = "rest"
  BY GivenElement
<1> HIDE DEF g
<1>3. Rest(g, e, v, mode) <=> AtListRest(Append(f.terms, t), e, v, mode)
  BY <1>2 DEF Rest
<1> QED
  BY <1>3 DEF g

LEMMA RestAfterTail ==
    ASSUME NEW f, FrameOK(f), f.fn = "parseList", f.at = "tail", NEW t, NEW e, NEW v, NEW mode
    PROVE  Rest(GivenFrame(f, t), e, v, mode) <=> e = One(RBracket) /\ v = ListOf(f.terms, t)
<1> DEFINE g == GivenFrame(f, t)
<1>1. <<t>>[1] = t
  OBVIOUS
<1>2. g.fn = "parseList" /\ g.terms = f.terms /\ g.tail[1] = t /\ g.at = "end"
  BY <1>1, GivenTail
<1> HIDE DEF g
<1>3. Rest(g, e, v, mode) <=> e = One(RBracket) /\ v = ListOf(f.terms, t)
  BY <1>2 DEF Rest
<1> QED
  BY <1>3 DEF g

LEMMA RestAfterArgument ==
    ASSUME NEW f, FrameOK(f), f.fn = "parseCompoundOrAtom", NEW t, NEW e, NEW v, NEW mode
    PROVE  Rest(GivenFrame(f, t), e, v, mode) <=> AtArgsRest(f.name, Append(f.terms, t), e, v, mode)
<1> DEFINE g == GivenFrame(f, t)
<1>1. f.at # "tail"
  BY PlacesAndCalls DEF FrameOK
<1>2. g.fn = "parseCompoundOrAtom" /\ g.name = f.name /\ g.terms = Append(f.terms, t) /\ g.at = "rest"
  BY <1>1, GivenElement
<1> HIDE DEF g
<1>3. Rest(g, e, v, mode) <=> AtArgsRest(f.name, Append(f.terms, t), e, v, mode)
  BY <1>2 DEF Rest
<1> QED
  BY <1>3 DEF g

LEMMA AskedOfFact ==
    ASSUME NEW f, FrameOK(f), f.fn = "parse", NEW e, NEW v, NEW mode
    PROVE  Asked(f, e, v, mode) <=> LoopTold(f.name, f.terms, e, v, mode)
BY RestAfterTerm DEF Asked, LoopTold

LEMMA AskedOfList ==
    ASSUME NEW f, FrameOK(f), f.fn = "parseList", f.at # "tail", NEW e, NEW v, NEW mode
    PROVE  Asked(f, e, v, mode) <=> InnerTold(f.terms, e, v, mode)
BY RestAfterElement DEF Asked, InnerTold

LEMMA AskedOfTail ==
    ASSUME NEW f, FrameOK(f), f.fn = "parseList", f.at = "tail", NEW e, NEW v, NEW mode
    PROVE  Asked(f, e, v, mode) <=> AtTail(f.terms, e, v, mode)
<1>1. One(RBracket) \in Texts(mode)
  BY Marks, OneInTexts
<1>2. \A d, t : Rest(GivenFrame(f, t), d, v, mode) <=> d = One(RBracket) /\ v = ListOf(f.terms, t)
  BY RestAfterTail
<1>3. Asked(f, e, v, mode) => AtTail(f.terms, e, v, mode)
  BY <1>2 DEF Asked, AtTail
<1>4. AtTail(f.terms, e, v, mode) => Asked(f, e, v, mode)
  BY <1>1, <1>2 DEF Asked, AtTail
<1> QED
  BY <1>3, <1>4

LEMMA AskedOfCompound ==
    ASSUME NEW f, FrameOK(f), f.fn = "parseCompoundOrAtom", NEW e, NEW v, NEW mode
    PROVE  Asked(f, e, v, mode) <=> ItemsTold(f.name, f.terms, e, v, mode)
BY RestAfterArgument DEF Asked, ItemsTold

--------------------------------------------------------------------------------
(* What follows a term *)

LEMMA AfterMarks ==
    ASSUME NEW mode, NEW t \in Tokens(mode), t \in {RParen, RBracket, Comma, Pipe}
    PROVE  /\ Begins(One(t), AfterTypes, mode)
           /\ \A d \in Texts(mode) : Begins(Cat(One(t), d), AfterTypes, mode)
<1>1. t.type \in AfterTypes
  BY MarkTypesAre DEF AfterTypes
<1>2. One(t) = Cat(One(t), << >>) /\ << >> \in Texts(mode)
  BY TextFacts
<1> QED
  BY <1>1, <1>2 DEF Begins

(* What an activation reads after a term cannot begin another: it is a mark. *)
LEMMA RestBegins ==
    ASSUME NEW f, FrameOK(f), NEW t, NEW mode, NEW e \in Texts(mode), NEW v,
           Rest(GivenFrame(f, t), e, v, mode)
    PROVE  Begins(e, AfterTypes, mode)
<1>1. f.fn \in {"parse", "parseList", "parseCompoundOrAtom"}
  BY PlacesAndCalls DEF FrameOK
<1>2. /\ RParen \in Tokens(mode) /\ RBracket \in Tokens(mode)
      /\ Comma \in Tokens(mode) /\ Pipe \in Tokens(mode)
  BY Marks
<1>3. CASE f.fn = "parse"
  <2>1. AtSeparator(f.name, Append(f.terms, t), e, v, mode)
    BY <1>3, RestAfterTerm
  <2> QED
    BY <1>2, <2>1, AfterMarks DEF AtSeparator
<1>4. CASE f.fn = "parseList" /\ f.at # "tail"
  <2>1. AtListRest(Append(f.terms, t), e, v, mode)
    BY <1>4, RestAfterElement
  <2> QED
    BY <1>2, <2>1, AfterMarks DEF AtListRest
<1>5. CASE f.fn = "parseList" /\ f.at = "tail"
  <2>1. e = One(RBracket)
    BY <1>5, RestAfterTail
  <2> QED
    BY <1>2, <2>1, AfterMarks
<1>6. CASE f.fn = "parseCompoundOrAtom"
  <2>1. AtArgsRest(f.name, Append(f.terms, t), e, v, mode)
    BY <1>6, RestAfterArgument
  <2> QED
    BY <1>2, <2>1, AfterMarks DEF AtArgsRest
<1> QED
  BY <1>1, <1>3, <1>4, <1>5, <1>6

(* So is what all the activations below begin with. *)
LEMMA LeftBegins ==
    ASSUME NEW mode, NEW stk, Len(stk) \in Nat, \A i \in 1..Len(stk) : FrameOK(stk[i]),
           NEW w \in Texts(mode), NEW v, NEW r, Left(stk, w, v, r, mode)
    PROVE  w = << >> \/ Begins(w, AfterTypes, mode)
<1> DEFINE n == Len(stk)
<1>1. n \in Nat
  OBVIOUS
<1> HIDE DEF n
<1>2. PICK left \in [0..n -> Texts(mode)] : \E val :
          /\ left[0] = << >> /\ left[n] = w
          /\ LeftFrom(left, val, stk, mode)
  BY DEF Left, n
<1>3. PICK val : left[0] = << >> /\ left[n] = w /\ LeftFrom(left, val, stk, mode)
  BY <1>2
<1>4. CASE n # 0
  <2>1. n \in 1..n /\ n - 1 \in 0..n
    BY <1>1, <1>4
  <2>2. PICK e \in Texts(mode) :
            w = Cat(e, left[n - 1]) /\ Rest(GivenFrame(stk[n], val[n]), e, val[n - 1], mode)
    BY <1>3, <2>1 DEF LeftFrom, n
  <2>3. FrameOK(stk[n]) /\ left[n - 1] \in Texts(mode)
    BY <1>2, <2>1 DEF n
  <2>4. Begins(e, AfterTypes, mode)
    BY <2>2, <2>3, RestBegins
  <2> QED
    BY <2>2, <2>3, <2>4, BeginsFurther
<1> QED
  BY <1>3, <1>4

--------------------------------------------------------------------------------
(* Steps of a plan *)

(* A text that may come when the parser sees t. *)
StartsWith(w, t) == w = << >> \/ (t # EndOfInput /\ w[1] = t)

(* What is read next starts with the token that is seen. *)
LEMMA PartStarts ==
    ASSUME NEW mode, NEW e \in Texts(mode), NEW u \in Texts(mode), NEW t, StartsWith(Cat(e, u), t)
    PROVE  StartsWith(e, t)
<1>1. CASE e = << >>
  BY <1>1 DEF StartsWith
<1>2. CASE e # << >>
  <2>1. PICK d \in Texts(mode) : e = Cat(One(e[1]), d)
    BY <1>2, FirstOfText
  <2>2. e[1] \in Tokens(mode)
    BY <1>2, FirstOfText
  <2>3. Cat(e, u) = Cat(One(e[1]), Cat(d, u)) /\ Cat(d, u) \in Texts(mode)
    <3>1. One(e[1]) \in Texts(mode)
      BY <2>2, OneInTexts
    <3>2. Cat(Cat(One(e[1]), d), u) = Cat(One(e[1]), Cat(d, u)) /\ Cat(d, u) \in Texts(mode)
      BY <3>1, CatTexts, CatInTexts
    <3> QED
      BY <2>1, <3>2
  <2>4. Cat(e, u) # << >> /\ Cat(e, u)[1] = e[1]
    BY <2>2, <2>3, FirstOfCat
  <2> QED
    BY <2>4 DEF StartsWith
<1> QED
  BY <1>1, <1>2

(* A step that reads nothing: a plan of the old place is one of the new. *)
LEMMA PlanSame ==
    ASSUME NEW mode, NEW t, NEW w \in Texts(mode), StartsWith(w, t), Len(w) <= MaxTokens,
           NEW how, NEW f, NEW how2, NEW g, NEW stk, NEW r,
           \A e \in Texts(mode) : StartsWith(e, t) /\ Len(e) <= MaxTokens =>
               \A v : Way(how, f, e, v, mode) <=> Way(how2, g, e, v, mode)
    PROVE  Plan(how, f, stk, w, r, mode) <=> Plan(how2, g, stk, w, r, mode)
<1>1. ASSUME NEW e \in Texts(mode), NEW u \in Texts(mode), w = Cat(e, u)
      PROVE  \A v : Way(how, f, e, v, mode) <=> Way(how2, g, e, v, mode)
  <2>1. StartsWith(e, t)
    BY <1>1, PartStarts
  <2>2. Len(e) <= MaxTokens
    BY <1>1, CatLengths, MaxTokensAssumption
  <2> QED
    BY <2>1, <2>2
<1> QED
  BY <1>1 DEF Plan

(* A step that reads a token: a plan for it and w becomes one for w. *)
LEMMA PlanAdvances ==
    ASSUME NEW mode, NEW a \in Tokens(mode), NEW w \in Texts(mode), Len(Cat(One(a), w)) <= MaxTokens,
           NEW how, NEW f, NEW how2, NEW g, NEW r,
           NEW stk, Len(stk) \in Nat, \A i \in 1..Len(stk) : FrameOK(stk[i]),
           a.type \notin AfterTypes \/ \A v : ~Way(how, f, << >>, v, mode),
           \A e \in Texts(mode) : Len(Cat(One(a), e)) <= MaxTokens =>
               \A v : Way(how, f, Cat(One(a), e), v, mode) <=> Way(how2, g, e, v, mode)
    PROVE  Plan(how, f, stk, Cat(One(a), w), r, mode) <=> Plan(how2, g, stk, w, r, mode)
<1> DEFINE x == One(a)
<1>1. x \in Texts(mode)
  BY OneInTexts
<1>2. ASSUME NEW e \in Texts(mode), NEW u \in Texts(mode), w = Cat(e, u)
      PROVE  /\ Cat(x, w) = Cat(Cat(x, e), u) /\ Cat(x, e) \in Texts(mode)
             /\ Len(Cat(x, e)) <= MaxTokens
  <2>1. Cat(Cat(x, e), u) = Cat(x, Cat(e, u)) /\ Cat(x, e) \in Texts(mode)
    BY <1>1, CatTexts, CatInTexts
  <2>2. Len(Cat(x, e)) <= Len(Cat(Cat(x, e), u)) /\ Len(Cat(x, e)) \in Nat /\ Len(u) \in Nat
        /\ Len(Cat(Cat(x, e), u)) = Len(Cat(x, e)) + Len(u)
    BY <2>1, CatLengths, TextFacts
  <2>3. Len(Cat(Cat(x, e), u)) <= MaxTokens
    BY <1>2, <2>1
  <2>4. \A l, m, n \in Nat : l <= m /\ m <= n => l <= n
    OBVIOUS
  <2> QED
    BY <1>2, <2>1, <2>2, <2>3, MaxTokensAssumption
<1>3. ASSUME Plan(how2, g, stk, w, r, mode)
      PROVE  Plan(how, f, stk, Cat(x, w), r, mode)
  <2>1. PICK e \in Texts(mode), u \in Texts(mode) : \E v :
            w = Cat(e, u) /\ Way(how2, g, e, v, mode) /\ Left(stk, u, v, r, mode)
    BY <1>3 DEF Plan
  <2>2. PICK v : w = Cat(e, u) /\ Way(how2, g, e, v, mode) /\ Left(stk, u, v, r, mode)
    BY <2>1
  <2>3. Way(how, f, Cat(x, e), v, mode)
    BY <1>2, <2>2
  <2>4. Cat(x, w) = Cat(Cat(x, e), u) /\ Cat(x, e) \in Texts(mode)
    BY <1>2, <2>2
  <2> HIDE DEF x
  <2> QED
    BY <2>2, <2>3, <2>4 DEF Plan
<1>4. ASSUME Plan(how, f, stk, Cat(x, w), r, mode)
      PROVE  Plan(how2, g, stk, w, r, mode)
  <2>1. PICK e \in Texts(mode), u \in Texts(mode) : \E v :
            Cat(x, w) = Cat(e, u) /\ Way(how, f, e, v, mode) /\ Left(stk, u, v, r, mode)
    BY <1>4 DEF Plan
  <2>2. PICK v : Cat(x, w) = Cat(e, u) /\ Way(how, f, e, v, mode) /\ Left(stk, u, v, r, mode)
    BY <2>1
  <2>3. Cat(x, w) # << >> /\ Cat(x, w)[1] = a
    BY FirstOfCat
  <2>4. e # << >>
    <3> SUFFICES ASSUME e = << >> PROVE FALSE
      OBVIOUS
    <3>1. u = Cat(x, w)
      BY <2>2, TextFacts
    <3>2. u # << >> /\ u[1] = a
      BY <2>3, <3>1
    <3>3. Begins(u, AfterTypes, mode)
      BY <2>2, <3>2, LeftBegins
    <3>4. a.type \in AfterTypes
      BY <3>2, <3>3, BeginsOnce
    <3> QED
      BY <2>2, <3>4
  <2>5. PICK d \in Texts(mode) : e = Cat(One(e[1]), d)
    BY <2>4, FirstOfText
  <2>6. e[1] \in Tokens(mode)
    BY <2>4, FirstOfText
  <2>7. Cat(d, u) \in Texts(mode) /\ Cat(e, u) = Cat(One(e[1]), Cat(d, u))
    <3>1. One(e[1]) \in Texts(mode)
      BY <2>6, OneInTexts
    <3>2. Cat(Cat(One(e[1]), d), u) = Cat(One(e[1]), Cat(d, u)) /\ Cat(d, u) \in Texts(mode)
      BY <3>1, CatTexts, CatInTexts
    <3> QED
      BY <2>5, <3>2
  <2>8. e[1] = a /\ w = Cat(d, u)
    BY <2>2, <2>7, FirstsSame
  <2>9. Way(how, f, Cat(x, d), v, mode) /\ Len(Cat(x, d)) <= MaxTokens
    BY <1>2, <2>2, <2>5, <2>8
  <2>10. Way(how2, g, d, v, mode)
    BY <2>9
  <2> QED
    BY <2>2, <2>8, <2>10 DEF Plan
<1> QED
  BY <1>3, <1>4

(* A term is asked for. *)
LEMMA PlanOfAsked ==
    ASSUME NEW mode, NEW s, IsSeq(s), NEW f, NEW g, NEW w \in Texts(mode), NEW r
    PROVE  Plan("term", g, Append(s, f), w, r, mode) <=> Plan("asked", f, s, w, r, mode)
<1>1. ASSUME Plan("term", g, Append(s, f), w, r, mode)
      PROVE  Plan("asked", f, s, w, r, mode)
  <2>1. PICK e \in Texts(mode), u \in Texts(mode) : \E x :
            w = Cat(e, u) /\ Way("term", g, e, x, mode) /\ Left(Append(s, f), u, x, r, mode)
    BY <1>1 DEF Plan
  <2>2. PICK x : w = Cat(e, u) /\ Way("term", g, e, x, mode) /\ Left(Append(s, f), u, x, r, mode)
    BY <2>1
  <2>3. PICK d \in Texts(mode), b \in Texts(mode) : \E y :
            u = Cat(d, b) /\ Rest(GivenFrame(f, x), d, y, mode) /\ Left(s, b, y, r, mode)
    BY <2>2, LeftOfPushed
  <2>4. PICK y : u = Cat(d, b) /\ Rest(GivenFrame(f, x), d, y, mode) /\ Left(s, b, y, r, mode)
    BY <2>3
  <2>5. IsTerm(e, x, mode)
    BY <2>2 DEF Way
  <2> DEFINE c == Cat(e, d)
  <2>6. c \in Texts(mode) /\ w = Cat(c, b)
    BY <2>2, <2>4, CatTexts, CatInTexts
  <2>7. Asked(f, c, y, mode)
    BY <2>4, <2>5 DEF Asked
  <2> HIDE DEF c
  <2>8. Way("asked", f, c, y, mode)
    BY <2>7 DEF Way
  <2> QED
    BY <2>4, <2>6, <2>8 DEF Plan
<1>2. ASSUME Plan("asked", f, s, w, r, mode)
      PROVE  Plan("term", g, Append(s, f), w, r, mode)
  <2>1. PICK c \in Texts(mode), b \in Texts(mode) : \E y :
            w = Cat(c, b) /\ Way("asked", f, c, y, mode) /\ Left(s, b, y, r, mode)
    BY <1>2 DEF Plan
  <2>2. PICK y : w = Cat(c, b) /\ Way("asked", f, c, y, mode) /\ Left(s, b, y, r, mode)
    BY <2>1
  <2>3. Asked(f, c, y, mode)
    BY <2>2 DEF Way
  <2>4. PICK e \in Texts(mode), d \in Texts(mode) : \E x :
            IsTerm(e, x, mode) /\ c = Cat(e, d) /\ Rest(GivenFrame(f, x), d, y, mode)
    BY <2>3 DEF Asked
  <2>5. PICK x : IsTerm(e, x, mode) /\ c = Cat(e, d) /\ Rest(GivenFrame(f, x), d, y, mode)
    BY <2>4
  <2> DEFINE u == Cat(d, b)
  <2>6. u \in Texts(mode) /\ w = Cat(e, u)
    BY <2>2, <2>5, CatTexts, CatInTexts
  <2>7. Left(Append(s, f), u, x, r, mode)
    BY <2>2, <2>5, LeftOfPushed
  <2> HIDE DEF u
  <2>8. Way("term", g, e, x, mode)
    BY <2>5 DEF Way
  <2> QED
    BY <2>6, <2>7, <2>8 DEF Plan
<1> QED
  BY <1>1, <1>2

(* A term is given to the activation that awaits it. *)
LEMMA PlanOfGivenNow ==
    ASSUME NEW mode, NEW t, NEW stk, NEW w \in Texts(mode), NEW r
    PROVE  Plan("given", t, stk, w, r, mode) <=> Left(stk, w, t, r, mode)
<1>1. << >> \in Texts(mode) /\ \A u \in Texts(mode) : Cat(<< >>, u) = u
  BY TextFacts
<1>2. \A e, v : Way("given", t, e, v, mode) <=> e = << >> /\ v = t
  BY DEF Way
<1>3. Plan("given", t, stk, w, r, mode) => Left(stk, w, t, r, mode)
  BY <1>1, <1>2 DEF Plan
<1>4. Left(stk, w, t, r, mode) => Plan("given", t, stk, w, r, mode)
  <2> DEFINE none == << >>
  <2>1. none \in Texts(mode) /\ w = Cat(none, w) /\ Way("given", t, none, t, mode)
    BY <1>1, <1>2
  <2> HIDE DEF none
  <2> QED
    BY <2>1 DEF Plan
<1> QED
  BY <1>3, <1>4

LEMMA PlanOfGiven ==
    ASSUME NEW mode, NEW s, IsSeq(s), NEW f, NEW t, NEW w \in Texts(mode), NEW r
    PROVE  Plan("given", t, Append(s, f), w, r, mode) <=> Plan("frame", GivenFrame(f, t), s, w, r, mode)
<1>1. \A g, e, v : Way("frame", g, e, v, mode) <=> Rest(g, e, v, mode)
  BY DEF Way
<1>2. Plan("frame", GivenFrame(f, t), s, w, r, mode)
          <=> \E e \in Texts(mode), u \in Texts(mode) : \E x :
                  w = Cat(e, u) /\ Rest(GivenFrame(f, t), e, x, mode) /\ Left(s, u, x, r, mode)
  BY <1>1 DEF Plan
<1> QED
  BY <1>2, PlanOfGivenNow, LeftOfPushed

--------------------------------------------------------------------------------
(* What each place begins with *)

LEMMA SeenFirst ==
    ASSUME NEW mode, NEW types, NEW a \in Tokens(mode), NEW e \in Texts(mode),
           Begins(Cat(One(a), e), types, mode)
    PROVE  a.type \in types
<1> DEFINE x == Cat(One(a), e)
<1>1. x \in Texts(mode)
  BY Prefixed
<1>2. x # << >> /\ x[1] = a
  BY FirstOfCat
<1> HIDE DEF x
<1>3. x[1].type \in types
  BY <1>1, BeginsOnce DEF x
<1> QED
  BY <1>2, <1>3

LEMMA SeenAhead ==
    ASSUME NEW mode, NEW types, NEW t, NEW e \in Texts(mode), StartsWith(e, t), Begins(e, types, mode)
    PROVE  t.type \in types /\ t # EndOfInput /\ e # << >> /\ e[1] = t
BY BeginsOnce DEF StartsWith

LEMMA MarkAhead ==
    ASSUME NEW mode, NEW z \in Tokens(mode), NEW types, z.type \in types
    PROVE  /\ Begins(One(z), types, mode)
           /\ \A d \in Texts(mode) : Begins(Cat(One(z), d), types, mode)
<1>2. One(z) = Cat(One(z), << >>) /\ << >> \in Texts(mode)
  BY TextFacts
<1> QED
  BY <1>2 DEF Begins

LEMMA MoreBegin ==
    ASSUME NEW mode, NEW types, NEW wider, types \subseteq wider, NEW e, Begins(e, types, mode)
    PROVE  Begins(e, wider, mode)
BY DEF Begins

LEMMA OneIsFirst ==
    ASSUME NEW mode, NEW a \in Tokens(mode), NEW z \in Tokens(mode), NEW e \in Texts(mode)
    PROVE  Cat(One(a), e) = One(z) <=> a = z /\ e = << >>
<1>1. One(z) = Cat(One(z), << >>) /\ << >> \in Texts(mode)
  BY TextFacts
<1>2. Cat(One(a), e) = One(z) => a = z /\ e = << >>
  BY <1>1, FirstsSame
<1> QED
  BY <1>1, <1>2

LEMMA InnerAhead ==
    ASSUME NEW mode, NEW terms, NEW e \in Texts(mode), NEW v, AtInner(terms, e, v, mode)
    PROVE  Begins(e, FirstTypes, mode)
<1>1. PICK i \in Texts(mode) : \E l : IsInner(i, l, mode) /\ e = Cat(i, One(RBracket))
  BY DEF AtInner
<1>2. One(RBracket) \in Texts(mode)
  BY Marks, OneInTexts
<1>3. Begins(i, FirstTypes, mode)
  BY <1>1, InnerBegins
<1> QED
  BY <1>1, <1>2, <1>3, BeginsFurther

LEMMA ItemsAhead ==
    ASSUME NEW mode, NEW name, NEW terms, NEW e \in Texts(mode), NEW v, AtItems(name, terms, e, v, mode)
    PROVE  Begins(e, FirstTypes, mode)
<1>1. PICK i \in Texts(mode) : \E l : IsItems(i, l, mode) /\ e = Cat(i, One(RParen))
  BY DEF AtItems
<1>2. One(RParen) \in Texts(mode)
  BY Marks, OneInTexts
<1>3. Begins(i, FirstTypes, mode)
  BY <1>1, ItemsBegin
<1> QED
  BY <1>1, <1>2, <1>3, BeginsFurther

LEMMA LoopToldAhead ==
    ASSUME NEW mode, NEW name, NEW terms, NEW e \in Texts(mode), NEW v, LoopTold(name, terms, e, v, mode)
    PROVE  Begins(e, FirstTypes, mode)
<1>1. PICK s \in Texts(mode), d \in Texts(mode) : \E m : IsTerm(s, m, mode) /\ e = Cat(s, d)
  BY DEF LoopTold
<1> QED
  BY <1>1, TermBegins, BeginsFurther

LEMMA LoopAsked ==
    ASSUME NEW mode, NEW e \in Texts(mode), Len(e) <= MaxTokens, NEW name, NEW terms, IsSeq(terms), NEW v
    PROVE  AtLoop(name, terms, e, v, mode)
               <=> \/ e = One(RParen) /\ v = Literal(name, terms)
                   \/ LoopTold(name, terms, e, v, mode)
<1>1. e = One(RParen) /\ v = Literal(name, terms) => AtLoop(name, terms, e, v, mode)
  BY ClosedIsLoop
<1> QED
  BY <1>1, LoopIsTold, ToldIsLoop

LEMMA InnerAsked ==
    ASSUME NEW mode, NEW e \in Texts(mode), Len(e) <= MaxTokens, NEW terms, IsSeq(terms), NEW v
    PROVE  AtInner(terms, e, v, mode) <=> InnerTold(terms, e, v, mode)
BY InnerIsTold, ToldIsInner

LEMMA ItemsAsked ==
    ASSUME NEW mode, NEW e \in Texts(mode), Len(e) <= MaxTokens, NEW name, NEW terms, IsSeq(terms), NEW v
    PROVE  AtItems(name, terms, e, v, mode) <=> ItemsTold(name, terms, e, v, mode)
BY ItemsIsTold, ToldIsItems

LEMMA PredicateAhead ==
    ASSUME NEW mode, NEW terms, NEW e, NEW v, AtPredicate(terms, e, v, mode)
    PROVE  Begins(e, {"IDENTIFIER"}, mode)
BY DEF AtPredicate, Identifiers, Begins

LEMMA OpenAhead ==
    ASSUME NEW mode, NEW name, NEW terms, NEW e, NEW v, AtOpen(name, terms, e, v, mode)
    PROVE  Begins(e, {"LPAREN"}, mode)
BY Marks, MarkTypesAre DEF AtOpen, Begins

LEMMA LoopAhead ==
    ASSUME NEW mode, NEW name, NEW terms, IsSeq(terms), NEW e \in Texts(mode), NEW v,
           AtLoop(name, terms, e, v, mode)
    PROVE  Begins(e, FirstTypes \cup {"RPAREN"}, mode)
<1>1. CASE e = One(RParen)
  BY <1>1, Marks, MarkTypesAre, MarkAhead
<1>2. CASE LoopTold(name, terms, e, v, mode)
  BY <1>2, LoopToldAhead, MoreBegin
<1> QED
  BY <1>1, <1>2, LoopIsTold

LEMMA SeparatorAhead ==
    ASSUME NEW mode, NEW name, NEW terms, NEW e, NEW v, AtSeparator(name, terms, e, v, mode)
    PROVE  Begins(e, {"RPAREN", "COMMA"}, mode)
<1>1. /\ RParen \in Tokens(mode) /\ RParen.type \in {"RPAREN", "COMMA"}
      /\ Comma \in Tokens(mode) /\ Comma.type \in {"RPAREN", "COMMA"}
  BY Marks, MarkTypesAre
<1> QED
  BY <1>1, MarkAhead DEF AtSeparator

LEMMA ListRestAhead ==
    ASSUME NEW mode, NEW terms, NEW e, NEW v, AtListRest(terms, e, v, mode)
    PROVE  Begins(e, {"RBRACKET", "COMMA", "PIPE"}, mode)
<1>1. /\ RBracket \in Tokens(mode) /\ RBracket.type \in {"RBRACKET", "COMMA", "PIPE"}
      /\ Comma \in Tokens(mode) /\ Comma.type \in {"RBRACKET", "COMMA", "PIPE"}
      /\ Pipe \in Tokens(mode) /\ Pipe.type \in {"RBRACKET", "COMMA", "PIPE"}
  BY Marks, MarkTypesAre
<1> QED
  BY <1>1, MarkAhead DEF AtListRest

LEMMA ArgsRestAhead ==
    ASSUME NEW mode, NEW name, NEW terms, NEW e, NEW v, AtArgsRest(name, terms, e, v, mode)
    PROVE  Begins(e, {"RPAREN", "COMMA"}, mode)
<1>1. /\ RParen \in Tokens(mode) /\ RParen.type \in {"RPAREN", "COMMA"}
      /\ Comma \in Tokens(mode) /\ Comma.type \in {"RPAREN", "COMMA"}
  BY Marks, MarkTypesAre
<1> QED
  BY <1>1, MarkAhead DEF AtArgsRest

LEMMA ListFirstAhead ==
    ASSUME NEW mode, NEW terms, NEW e \in Texts(mode), NEW v, AtListFirst(terms, e, v, mode)
    PROVE  Begins(e, FirstTypes \cup {"RBRACKET"}, mode)
<1>1. CASE e = One(RBracket)
  BY <1>1, Marks, MarkTypesAre, MarkAhead
<1>2. CASE AtInner(terms, e, v, mode)
  BY <1>2, InnerAhead, MoreBegin
<1> QED
  BY <1>1, <1>2 DEF AtListFirst

LEMMA ArgsFirstAhead ==
    ASSUME NEW mode, NEW name, NEW terms, NEW e \in Texts(mode), NEW v, AtArgsFirst(name, terms, e, v, mode)
    PROVE  Begins(e, FirstTypes \cup {"RPAREN"}, mode)
<1>1. CASE e = One(RParen)
  BY <1>1, Marks, MarkTypesAre, MarkAhead
<1>2. CASE AtItems(name, terms, e, v, mode)
  BY <1>2, ItemsAhead, MoreBegin
<1> QED
  BY <1>1, <1>2 DEF AtArgsFirst

--------------------------------------------------------------------------------
(* What a token read at a place leaves to be read *)

LEMMA ReadPredicate ==
    ASSUME NEW mode, NEW a \in Tokens(mode), a.type = "IDENTIFIER", NEW terms, NEW e \in Texts(mode), NEW v
    PROVE  AtPredicate(terms, Cat(One(a), e), v, mode) <=> AtOpen(a.value, terms, e, v, mode)
<1> DEFINE w == Cat(One(a), e)
<1>1. ASSUME NEW p, NEW d \in Texts(mode), w = Cat(One(p), d) PROVE p = a /\ d = e
  BY <1>1, FirstsSame
<1>2. a \in Identifiers(mode)
  BY DEF Identifiers
<1>3. AtOpen(a.value, terms, e, v, mode) => AtPredicate(terms, w, v, mode)
  BY <1>2 DEF AtPredicate
<1> HIDE DEF w
<1>4. AtPredicate(terms, w, v, mode) => AtOpen(a.value, terms, e, v, mode)
  BY <1>1 DEF AtPredicate
<1> QED
  BY <1>3, <1>4 DEF w

LEMMA ReadOpen ==
    ASSUME NEW mode, NEW name, NEW terms, NEW e \in Texts(mode), NEW v
    PROVE  AtOpen(name, terms, Cat(One(LParen), e), v, mode) <=> AtLoop(name, terms, e, v, mode)
<1> DEFINE w == Cat(One(LParen), e)
<1>1. ASSUME NEW d \in Texts(mode), w = Cat(One(LParen), d) PROVE d = e
  BY <1>1, FirstsSame
<1>3. AtLoop(name, terms, e, v, mode) => AtOpen(name, terms, w, v, mode)
  BY DEF AtOpen
<1> HIDE DEF w
<1>4. AtOpen(name, terms, w, v, mode) => AtLoop(name, terms, e, v, mode)
  BY <1>1 DEF AtOpen
<1> QED
  BY <1>3, <1>4 DEF w

LEMMA ReadComma ==
    ASSUME NEW mode, NEW name, NEW terms, NEW e \in Texts(mode), NEW v
    PROVE  /\ AtSeparator(name, terms, Cat(One(Comma), e), v, mode) <=> AtLoop(name, terms, e, v, mode)
           /\ AtArgsRest(name, terms, Cat(One(Comma), e), v, mode) <=> AtItems(name, terms, e, v, mode)
           /\ AtListRest(terms, Cat(One(Comma), e), v, mode) <=> AtInner(terms, e, v, mode)
<1> DEFINE w == Cat(One(Comma), e)
<1>1. ASSUME NEW d \in Texts(mode), w = Cat(One(Comma), d) PROVE d = e
  BY <1>1, FirstsSame
<1>2. Comma # RParen /\ Comma # RBracket /\ Comma # Pipe
  BY MarkTypesAre
<1>3. w # One(RParen) /\ w # One(RBracket)
  <2>1. Comma \in Tokens(mode) /\ RParen \in Tokens(mode) /\ RBracket \in Tokens(mode)
    BY Marks
  <2> QED
    BY <1>2, <2>1, OneIsFirst
<1>4. \A d \in Texts(mode) : w # Cat(One(Pipe), d)
  BY <1>2, FirstsSame
<1>5. e \in Texts(mode) /\ w = Cat(One(Comma), e)
  OBVIOUS
<1> HIDE DEF w
<1>6. AtSeparator(name, terms, w, v, mode) <=> AtLoop(name, terms, e, v, mode)
  BY <1>1, <1>3, <1>5 DEF AtSeparator
<1>7. AtArgsRest(name, terms, w, v, mode) <=> AtItems(name, terms, e, v, mode)
  BY <1>1, <1>3, <1>5 DEF AtArgsRest
<1>8. AtListRest(terms, w, v, mode) <=> AtInner(terms, e, v, mode)
  BY <1>1, <1>3, <1>4, <1>5 DEF AtListRest
<1> QED
  BY <1>6, <1>7, <1>8 DEF w

LEMMA ReadPipe ==
    ASSUME NEW mode, NEW terms, NEW e \in Texts(mode), NEW v
    PROVE  AtListRest(terms, Cat(One(Pipe), e), v, mode) <=> AtTail(terms, e, v, mode)
<1> DEFINE w == Cat(One(Pipe), e)
<1>1. ASSUME NEW d \in Texts(mode), w = Cat(One(Pipe), d) PROVE d = e
  BY <1>1, FirstsSame
<1>2. Pipe # RBracket /\ Pipe # Comma
  BY MarkTypesAre
<1>3. w # One(RBracket)
  <2>1. Pipe \in Tokens(mode) /\ RBracket \in Tokens(mode)
    BY Marks
  <2> QED
    BY <1>2, <2>1, OneIsFirst
<1>4. \A d \in Texts(mode) : w # Cat(One(Comma), d)
  BY <1>2, FirstsSame
<1>5. e \in Texts(mode) /\ w = Cat(One(Pipe), e)
  OBVIOUS
<1> HIDE DEF w
<1>6. AtListRest(terms, w, v, mode) <=> AtTail(terms, e, v, mode)
  BY <1>1, <1>3, <1>4, <1>5 DEF AtListRest
<1> QED
  BY <1>6 DEF w

(* The closing marks end a function and leave nothing. *)
LEMMA RParenAlone ==
    ASSUME NEW mode, NEW e \in Texts(mode)
    PROVE  /\ Cat(One(RParen), e) \in Texts(mode) /\ ~Begins(Cat(One(RParen), e), FirstTypes, mode)
           /\ Cat(One(RParen), e) = One(RParen) <=> e = << >>
           /\ \A d \in Texts(mode) : Cat(One(RParen), e) # Cat(One(Comma), d)
<1>1. RParen \in Tokens(mode) /\ RParen.type \notin FirstTypes /\ RParen # Comma
  BY Marks, MarkTypesAre DEF FirstTypes, WordTypes
<1>2. Cat(One(RParen), e) \in Texts(mode) /\ ~Begins(Cat(One(RParen), e), FirstTypes, mode)
  BY <1>1, Prefixed, SeenFirst
<1>3. Cat(One(RParen), e) = One(RParen) <=> e = << >>
  BY <1>1, OneIsFirst
<1>4. \A d \in Texts(mode) : Cat(One(RParen), e) # Cat(One(Comma), d)
  BY <1>1, FirstsSame
<1> QED
  BY <1>2, <1>3, <1>4

LEMMA RBracketAlone ==
    ASSUME NEW mode, NEW e \in Texts(mode)
    PROVE  /\ Cat(One(RBracket), e) \in Texts(mode) /\ ~Begins(Cat(One(RBracket), e), FirstTypes, mode)
           /\ Cat(One(RBracket), e) = One(RBracket) <=> e = << >>
           /\ \A d \in Texts(mode) : Cat(One(RBracket), e) # Cat(One(Comma), d) /\ Cat(One(RBracket), e) # Cat(One(Pipe), d)
<1>1. RBracket \in Tokens(mode) /\ RBracket.type \notin FirstTypes /\ RBracket # Comma /\ RBracket # Pipe
  BY Marks, MarkTypesAre DEF FirstTypes, WordTypes
<1>2. Cat(One(RBracket), e) \in Texts(mode) /\ ~Begins(Cat(One(RBracket), e), FirstTypes, mode)
  BY <1>1, Prefixed, SeenFirst
<1>3. Cat(One(RBracket), e) = One(RBracket) <=> e = << >>
  BY <1>1, OneIsFirst
<1>4. \A d \in Texts(mode) : Cat(One(RBracket), e) # Cat(One(Comma), d) /\ Cat(One(RBracket), e) # Cat(One(Pipe), d)
  BY <1>1, FirstsSame
<1> QED
  BY <1>2, <1>3, <1>4

LEMMA LoopClosed ==
    ASSUME NEW mode, NEW name, NEW terms, IsSeq(terms), NEW e \in Texts(mode), NEW v
    PROVE  AtLoop(name, terms, Cat(One(RParen), e), v, mode) <=> e = << >> /\ v = Literal(name, terms)
<1> DEFINE w == Cat(One(RParen), e)
<1>1. w \in Texts(mode) /\ ~Begins(w, FirstTypes, mode) /\ (w = One(RParen) <=> e = << >>)
      /\ \A d \in Texts(mode) : w # Cat(One(Comma), d)
  BY RParenAlone
<1> HIDE DEF w
<1>2. AtLoop(name, terms, w, v, mode) <=> e = << >> /\ v = Literal(name, terms)
  BY <1>1, LoopIsTold, LoopToldAhead, ClosedIsLoop
<1> QED
  BY <1>2 DEF w

LEMMA NoArgumentsRead ==
    ASSUME NEW mode, NEW name, NEW terms, NEW e \in Texts(mode), NEW v
    PROVE  AtArgsFirst(name, terms, Cat(One(RParen), e), v, mode) <=> e = << >> /\ v = Compound(name, << >>)
<1> DEFINE w == Cat(One(RParen), e)
<1>1. w \in Texts(mode) /\ ~Begins(w, FirstTypes, mode) /\ (w = One(RParen) <=> e = << >>)
      /\ \A d \in Texts(mode) : w # Cat(One(Comma), d)
  BY RParenAlone
<1> HIDE DEF w
<1>2. AtArgsFirst(name, terms, w, v, mode) <=> e = << >> /\ v = Compound(name, << >>)
  BY <1>1, ItemsAhead DEF AtArgsFirst
<1> QED
  BY <1>2 DEF w

LEMMA ArgumentsClosed ==
    ASSUME NEW mode, NEW name, NEW terms, NEW e \in Texts(mode), NEW v
    PROVE  AtArgsRest(name, terms, Cat(One(RParen), e), v, mode) <=> e = << >> /\ v = Compound(name, terms)
<1> DEFINE w == Cat(One(RParen), e)
<1>1. w \in Texts(mode) /\ ~Begins(w, FirstTypes, mode) /\ (w = One(RParen) <=> e = << >>)
      /\ \A d \in Texts(mode) : w # Cat(One(Comma), d)
  BY RParenAlone
<1> HIDE DEF w
<1>2. AtArgsRest(name, terms, w, v, mode) <=> e = << >> /\ v = Compound(name, terms)
  BY <1>1 DEF AtArgsRest
<1> QED
  BY <1>2 DEF w

LEMMA NoElementsRead ==
    ASSUME NEW mode, NEW terms, NEW e \in Texts(mode), NEW v
    PROVE  AtListFirst(terms, Cat(One(RBracket), e), v, mode) <=> e = << >> /\ v = EmptyList
<1> DEFINE w == Cat(One(RBracket), e)
<1>1. w \in Texts(mode) /\ ~Begins(w, FirstTypes, mode) /\ (w = One(RBracket) <=> e = << >>)
      /\ \A d \in Texts(mode) : w # Cat(One(Comma), d) /\ w # Cat(One(Pipe), d)
  BY RBracketAlone
<1> HIDE DEF w
<1>2. AtListFirst(terms, w, v, mode) <=> e = << >> /\ v = EmptyList
  BY <1>1, InnerAhead DEF AtListFirst
<1> QED
  BY <1>2 DEF w

LEMMA ListClosed ==
    ASSUME NEW mode, NEW terms, NEW e \in Texts(mode), NEW v
    PROVE  AtListRest(terms, Cat(One(RBracket), e), v, mode) <=> e = << >> /\ v = ListOf(terms, EmptyList)
<1> DEFINE w == Cat(One(RBracket), e)
<1>1. w \in Texts(mode) /\ ~Begins(w, FirstTypes, mode) /\ (w = One(RBracket) <=> e = << >>)
      /\ \A d \in Texts(mode) : w # Cat(One(Comma), d) /\ w # Cat(One(Pipe), d)
  BY RBracketAlone
<1> HIDE DEF w
<1>2. AtListRest(terms, w, v, mode) <=> e = << >> /\ v = ListOf(terms, EmptyList)
  BY <1>1 DEF AtListRest
<1> QED
  BY <1>2 DEF w

LEMMA ReadName ==
    ASSUME NEW mode, NEW name, NEW terms, NEW e \in Texts(mode), NEW v
    PROVE  AtName(name, terms, Cat(One(LParen), e), v, mode) <=> AtArgsFirst(name, terms, e, v, mode)
<1> DEFINE w == Cat(One(LParen), e)
<1>1. ASSUME NEW d \in Texts(mode), w = Cat(One(LParen), d) PROVE d = e
  BY <1>1, FirstsSame
<1>2. w # << >>
  BY Marks, FirstOfCat
<1>3. w = Cat(One(LParen), e)
  OBVIOUS
<1> HIDE DEF w
<1>4. AtName(name, terms, w, v, mode) <=> AtArgsFirst(name, terms, e, v, mode)
  BY <1>1, <1>2, <1>3 DEF AtName
<1> QED
  BY <1>4 DEF w

LEMMA NameAlone ==
    ASSUME NEW mode, NEW name, NEW terms, NEW e \in Texts(mode), NEW v, NEW t, t.type # "LPAREN", StartsWith(e, t)
    PROVE  AtName(name, terms, e, v, mode) <=> e = << >> /\ v = Constant(name)
<1>1. LParen \in Tokens(mode) /\ LParen.type = "LPAREN"
  BY Marks, MarkTypesAre
<1>2. ASSUME NEW d \in Texts(mode), e = Cat(One(LParen), d) PROVE FALSE
  <2>1. e # << >> /\ e[1] = LParen
    BY <1>1, <1>2, FirstOfCat
  <2> QED
    BY <1>1, <2>1 DEF StartsWith
<1> QED
  BY <1>2 DEF AtName

--------------------------------------------------------------------------------
(* What the first token of a term leaves to be read *)

LEMMA AtomFirst ==
    ASSUME NEW mode, NEW a \in Tokens(mode), NEW e \in Texts(mode), NEW v
    PROVE  (\E t \in Tokens(mode) : Cat(One(a), e) = One(t) /\ AtomOf(t, v)) <=> e = << >> /\ AtomOf(a, v)
BY OneIsFirst

LEMMA EmptyListFirst ==
    ASSUME NEW mode, NEW a \in Tokens(mode), NEW e \in Texts(mode)
    PROVE  Cat(One(a), e) = Cat(One(LBracket), One(RBracket)) <=> a = LBracket /\ e = One(RBracket)
<1>1. One(RBracket) \in Texts(mode)
  BY Marks, OneInTexts
<1> QED
  BY <1>1, FirstsSame

(* What a compound and a list begin with, and what their first token leaves. *)
LEMMA NoArgumentsFirst ==
    ASSUME NEW mode, NEW a \in Tokens(mode), NEW e \in Texts(mode), NEW v
    PROVE  NoArguments(Cat(One(a), e), v, mode)
               <=> /\ a.type = "IDENTIFIER" /\ e = Cat(One(LParen), One(RParen))
                   /\ v = Compound(a.value, << >>)
<1> DEFINE w == Cat(One(a), e)
           c == Cat(One(LParen), One(RParen))
<1>1. c \in Texts(mode)
  <2>1. One(LParen) \in Texts(mode) /\ One(RParen) \in Texts(mode)
    BY Marks, OneInTexts
  <2> QED
    BY <2>1, CatInTexts
<1> HIDE DEF c
<1>2. \A f : w = Cat(One(f), c) <=> f = a /\ c = e
  BY <1>1, FirstsSame
<1> HIDE DEF w
<1>3. NoArguments(w, v, mode) <=> \E f \in Identifiers(mode) : w = Cat(One(f), c) /\ v = Compound(f.value, << >>)
  BY DEF NoArguments, c
<1>4. a \in Identifiers(mode) <=> a.type = "IDENTIFIER"
  BY DEF Identifiers
<1>5. NoArguments(w, v, mode) <=> a.type = "IDENTIFIER" /\ e = c /\ v = Compound(a.value, << >>)
  BY <1>2, <1>3, <1>4
<1> QED
  BY <1>5 DEF w, c

LEMMA WithArgumentsFirst ==
    ASSUME NEW mode, NEW a \in Tokens(mode), NEW e \in Texts(mode), NEW v
    PROVE  WithArguments(Cat(One(a), e), v, mode)
               <=> /\ a.type = "IDENTIFIER"
                   /\ \E l \in Texts(mode) : \E ms :
                          /\ IsItems(l, ms, mode) /\ e = Cat(One(LParen), Cat(l, One(RParen)))
                          /\ v = Compound(a.value, ms)
<1> DEFINE w == Cat(One(a), e)
           C(l) == Cat(One(LParen), Cat(l, One(RParen)))
<1>1. \A l \in Texts(mode) : C(l) \in Texts(mode)
  BY Marks, BetweenShape
<1> HIDE DEF C
<1>2. \A f : \A l \in Texts(mode) : w = Cat(One(f), C(l)) <=> f = a /\ e = C(l)
  BY <1>1, FirstsSame
<1> HIDE DEF w
<1>3. WithArguments(w, v, mode)
          <=> \E f \in Identifiers(mode), l \in Texts(mode) : \E ms :
                  IsItems(l, ms, mode) /\ w = Cat(One(f), C(l)) /\ v = Compound(f.value, ms)
  BY DEF WithArguments, C
<1>4. a \in Identifiers(mode) <=> a.type = "IDENTIFIER"
  BY DEF Identifiers
<1>5. WithArguments(w, v, mode)
          => /\ a.type = "IDENTIFIER"
             /\ \E l \in Texts(mode) : \E ms : IsItems(l, ms, mode) /\ e = C(l) /\ v = Compound(a.value, ms)
  BY <1>2, <1>3, <1>4
<1>6. ASSUME a.type = "IDENTIFIER", NEW l \in Texts(mode), NEW ms, IsItems(l, ms, mode), e = C(l),
             v = Compound(a.value, ms)
      PROVE  WithArguments(w, v, mode)
  <2>1. w = Cat(One(a), C(l)) /\ a \in Identifiers(mode)
    BY <1>2, <1>4, <1>6
  <2> QED
    BY <1>3, <1>6, <2>1
<1>7. WithArguments(w, v, mode)
          <=> /\ a.type = "IDENTIFIER"
              /\ \E l \in Texts(mode) : \E ms : IsItems(l, ms, mode) /\ e = C(l) /\ v = Compound(a.value, ms)
  BY <1>5, <1>6
<1> QED
  BY <1>7 DEF w, C

LEMMA InBracketsFirst ==
    ASSUME NEW mode, NEW a \in Tokens(mode), NEW e \in Texts(mode), NEW v
    PROVE  InBrackets(Cat(One(a), e), v, mode)
               <=> /\ a = LBracket
                   /\ \E i \in Texts(mode) : IsInner(i, v, mode) /\ e = Cat(i, One(RBracket))
<1> DEFINE w == Cat(One(a), e)
           C(i) == Cat(i, One(RBracket))
<1>1. \A i \in Texts(mode) : C(i) \in Texts(mode)
  BY Marks, Suffixed
<1> HIDE DEF C
<1>2. \A i \in Texts(mode) : w = Cat(One(LBracket), C(i)) <=> a = LBracket /\ e = C(i)
  BY <1>1, FirstsSame
<1> HIDE DEF w
<1>3. InBrackets(w, v, mode)
          <=> \E i \in Texts(mode) : IsInner(i, v, mode) /\ w = Cat(One(LBracket), C(i))
  BY DEF InBrackets, C
<1>4. InBrackets(w, v, mode)
          <=> a = LBracket /\ \E i \in Texts(mode) : IsInner(i, v, mode) /\ e = C(i)
  BY <1>2, <1>3
<1> QED
  BY <1>4 DEF w, C

LEMMA TermAsShape ==
    ASSUME NEW mode, NEW s \in Texts(mode), Len(s) <= MaxTokens, NEW v
    PROVE  IsTerm(s, v, mode) <=> TermShape(s, v, mode)
BY TermIsShape, ShapeIsTerm

LEMMA TermOfFirst ==
    ASSUME NEW mode, NEW a \in Tokens(mode), NEW e \in Texts(mode), Len(Cat(One(a), e)) <= MaxTokens, NEW v
    PROVE  IsTerm(Cat(One(a), e), v, mode)
               <=> \/ e = << >> /\ AtomOf(a, v)
                   \/ a = LBracket /\ e = One(RBracket) /\ v = EmptyList
                   \/ NoArguments(Cat(One(a), e), v, mode)
                   \/ WithArguments(Cat(One(a), e), v, mode)
                   \/ InBrackets(Cat(One(a), e), v, mode)
<1> DEFINE w == Cat(One(a), e)
<1>1. w \in Texts(mode)
  BY Prefixed
<1>2. (\E t \in Tokens(mode) : w = One(t) /\ AtomOf(t, v)) <=> e = << >> /\ AtomOf(a, v)
  BY AtomFirst
<1>3. w = Cat(One(LBracket), One(RBracket)) <=> a = LBracket /\ e = One(RBracket)
  BY EmptyListFirst
<1>4. Len(w) <= MaxTokens
  OBVIOUS
<1> HIDE DEF w
<1>5. IsTerm(w, v, mode) <=> TermShape(w, v, mode)
  BY <1>1, <1>4, TermAsShape
<1>6. IsTerm(w, v, mode)
          <=> \/ e = << >> /\ AtomOf(a, v)
              \/ a = LBracket /\ e = One(RBracket) /\ v = EmptyList
              \/ NoArguments(w, v, mode)
              \/ WithArguments(w, v, mode)
              \/ InBrackets(w, v, mode)
  BY <1>2, <1>3, <1>5 DEF TermShape
<1> QED
  BY <1>6 DEF w

LEMMA ReadAtom ==
    ASSUME NEW mode, NEW a \in Tokens(mode), a.type \in {"VARIABLE", "NUMBER"},
           NEW e \in Texts(mode), Len(Cat(One(a), e)) <= MaxTokens, NEW v
    PROVE  IsTerm(Cat(One(a), e), v, mode)
               <=> e = << >> /\ v = (IF a.type = "NUMBER" THEN Number(a.value) ELSE Variable(a.value))
<1>1. a # LBracket /\ a.type # "IDENTIFIER"
  BY MarkTypesAre
<1>2. /\ ~NoArguments(Cat(One(a), e), v, mode) /\ ~WithArguments(Cat(One(a), e), v, mode)
      /\ ~InBrackets(Cat(One(a), e), v, mode)
  BY <1>1, NoArgumentsFirst, WithArgumentsFirst, InBracketsFirst
<1>3. AtomOf(a, v) <=> v = (IF a.type = "NUMBER" THEN Number(a.value) ELSE Variable(a.value))
  BY DEF AtomOf
<1> QED
  BY <1>1, <1>2, <1>3, TermOfFirst

LEMMA ReadBracket ==
    ASSUME NEW mode, NEW e \in Texts(mode), Len(Cat(One(LBracket), e)) <= MaxTokens, NEW v
    PROVE  IsTerm(Cat(One(LBracket), e), v, mode) <=> AtListFirst(<< >>, e, v, mode)
<1> DEFINE a == LBracket
           w == Cat(One(a), e)
<1>1. a \in Tokens(mode) /\ a.type = "LBRACKET" /\ a = LBracket
  BY Marks, MarkTypesAre
<1>2. Len(w) <= MaxTokens
  OBVIOUS
<1> HIDE DEF a
<1>3. ~NoArguments(w, v, mode) /\ ~WithArguments(w, v, mode) /\ ~AtomOf(a, v)
  BY <1>1, NoArgumentsFirst, WithArgumentsFirst DEF AtomOf
<1>4. InBrackets(w, v, mode) <=> \E i \in Texts(mode) : IsInner(i, v, mode) /\ e = Cat(i, One(RBracket))
  BY <1>1, InBracketsFirst
<1>5. IsTerm(w, v, mode) <=> (e = One(RBracket) /\ v = EmptyList) \/ InBrackets(w, v, mode)
  BY <1>1, <1>2, <1>3, TermOfFirst
<1>6. AtInner(<< >>, e, v, mode) <=> \E i \in Texts(mode) : IsInner(i, v, mode) /\ e = Cat(i, One(RBracket))
  BY ListOfNone DEF AtInner
<1> HIDE DEF w
<1>7. IsTerm(w, v, mode) <=> AtListFirst(<< >>, e, v, mode)
  BY <1>4, <1>5, <1>6 DEF AtListFirst
<1> QED
  BY <1>7 DEF w, a

LEMMA ArgumentsFirst ==
    ASSUME NEW mode, NEW name, NEW d \in Texts(mode), NEW v
    PROVE  AtArgsFirst(name, << >>, d, v, mode)
               <=> \/ d = One(RParen) /\ v = Compound(name, << >>)
                   \/ \E l \in Texts(mode) : \E ms :
                          IsItems(l, ms, mode) /\ d = Cat(l, One(RParen)) /\ v = Compound(name, ms)
<1>1. \A l, ms : IsItems(l, ms, mode) => IsSeq(ms)
  BY SpelledByLength DEF IsItems, Kinds
<1>2. \A l, ms : IsItems(l, ms, mode) => Cat(<< >>, ms) = ms
  BY <1>1, SeqFacts DEF Cat
<1>3. AtItems(name, << >>, d, v, mode)
          <=> \E l \in Texts(mode) : \E ms :
                  IsItems(l, ms, mode) /\ d = Cat(l, One(RParen)) /\ v = Compound(name, ms)
  BY <1>2 DEF AtItems
<1> QED
  BY <1>3 DEF AtArgsFirst

LEMMA ReadIdentifier ==
    ASSUME NEW mode, NEW a \in Tokens(mode), a.type = "IDENTIFIER",
           NEW e \in Texts(mode), Len(Cat(One(a), e)) <= MaxTokens, NEW v
    PROVE  IsTerm(Cat(One(a), e), v, mode) <=> AtName(a.value, << >>, e, v, mode)
<1> DEFINE w == Cat(One(a), e)
           name == a.value
<1>1. a # LBracket
  BY MarkTypesAre
<1>2. AtomOf(a, v) <=> v = Constant(name)
  BY DEF AtomOf
<1>3. ~InBrackets(w, v, mode)
  BY <1>1, InBracketsFirst
<1>4. NoArguments(w, v, mode) <=> e = Cat(One(LParen), One(RParen)) /\ v = Compound(name, << >>)
  BY NoArgumentsFirst
<1>5. WithArguments(w, v, mode)
          <=> \E l \in Texts(mode) : \E ms :
                  /\ IsItems(l, ms, mode) /\ e = Cat(One(LParen), Cat(l, One(RParen)))
                  /\ v = Compound(name, ms)
  BY WithArgumentsFirst
<1>6. IsTerm(w, v, mode)
          <=> (e = << >> /\ v = Constant(name)) \/ NoArguments(w, v, mode) \/ WithArguments(w, v, mode)
  BY <1>1, <1>2, <1>3, TermOfFirst
<1>7. One(RParen) \in Texts(mode) /\ \A l \in Texts(mode) : Cat(l, One(RParen)) \in Texts(mode)
  BY Marks, OneInTexts, Suffixed
<1> HIDE DEF w, name
<1>8. NoArguments(w, v, mode) \/ WithArguments(w, v, mode)
          <=> \E d \in Texts(mode) : e = Cat(One(LParen), d) /\ AtArgsFirst(name, << >>, d, v, mode)
  <2>1. NoArguments(w, v, mode)
            => \E d \in Texts(mode) : e = Cat(One(LParen), d) /\ AtArgsFirst(name, << >>, d, v, mode)
    BY <1>4, <1>7, ArgumentsFirst
  <2>2. WithArguments(w, v, mode)
            => \E d \in Texts(mode) : e = Cat(One(LParen), d) /\ AtArgsFirst(name, << >>, d, v, mode)
    BY <1>5, <1>7, ArgumentsFirst
  <2>3. ASSUME NEW d \in Texts(mode), e = Cat(One(LParen), d), AtArgsFirst(name, << >>, d, v, mode)
        PROVE  NoArguments(w, v, mode) \/ WithArguments(w, v, mode)
    BY <1>4, <1>5, <2>3, ArgumentsFirst
  <2> QED
    BY <2>1, <2>2, <2>3
<1>9. IsTerm(w, v, mode) <=> AtName(name, << >>, e, v, mode)
  BY <1>6, <1>8 DEF AtName
<1> QED
  BY <1>9 DEF w, name

--------------------------------------------------------------------------------
(* A fact, from its first token *)

LEMMA FactFromPredicate ==
    ASSUME NEW mode, NEW s \in Texts(mode), NEW m
    PROVE  IsFact(s, m, mode) <=> AtPredicate(<< >>, s, m, mode)
<1>0. RParen \in Tokens(mode) /\ LParen \in Tokens(mode)
  BY Marks
<1>1. \A l \in Texts(mode) : /\ Cat(l, One(RParen)) \in Texts(mode)
                             /\ Cat(One(LParen), Cat(l, One(RParen))) \in Texts(mode)
  BY <1>0, Suffixed, BetweenShape
<1>2. \A l, ms : IsArgs(l, ms, mode) => IsSeq(ms)
  <2>1. IsSeq(<< >>)
    BY TextFacts, TextsAreSeqs
  <2> QED
    BY <2>1, SpelledByLength DEF IsArgs, IsItems, Kinds
<1>3. \A l, ms : IsArgs(l, ms, mode) => Cat(<< >>, ms) = ms
  BY <1>2, SeqFacts DEF Cat
<1>4. ASSUME IsFact(s, m, mode) PROVE AtPredicate(<< >>, s, m, mode)
  <2>1. PICK p \in Identifiers(mode), l \in Texts(mode) : \E ms :
            /\ IsArgs(l, ms, mode)
            /\ s = Cat(One(p), Cat(One(LParen), Cat(l, One(RParen)))) /\ m = Literal(p.value, ms)
    BY <1>4 DEF IsFact
  <2> DEFINE d == Cat(l, One(RParen))
             c == Cat(One(LParen), d)
  <2>2. d \in Texts(mode) /\ c \in Texts(mode) /\ s = Cat(One(p), c)
    BY <1>1, <2>1
  <2>3. AtLoop(p.value, << >>, d, m, mode)
    BY <1>3, <2>1 DEF AtLoop
  <2> HIDE DEF d
  <2>4. AtOpen(p.value, << >>, c, m, mode)
    BY <2>2, <2>3 DEF AtOpen
  <2> HIDE DEF c
  <2> QED
    BY <2>2, <2>4 DEF AtPredicate
<1>5. ASSUME AtPredicate(<< >>, s, m, mode) PROVE IsFact(s, m, mode)
  <2>1. PICK p \in Identifiers(mode), c \in Texts(mode) :
            s = Cat(One(p), c) /\ AtOpen(p.value, << >>, c, m, mode)
    BY <1>5 DEF AtPredicate
  <2>2. PICK d \in Texts(mode) : c = Cat(One(LParen), d) /\ AtLoop(p.value, << >>, d, m, mode)
    BY <2>1 DEF AtOpen
  <2>3. PICK l \in Texts(mode) : \E ms :
            IsArgs(l, ms, mode) /\ d = Cat(l, One(RParen)) /\ m = Literal(p.value, Cat(<< >>, ms))
    BY <2>2 DEF AtLoop
  <2>4. PICK ms : IsArgs(l, ms, mode) /\ d = Cat(l, One(RParen)) /\ m = Literal(p.value, Cat(<< >>, ms))
    BY <2>3
  <2>5. m = Literal(p.value, ms)
    BY <1>3, <2>4
  <2>6. s = Cat(One(p), Cat(One(LParen), Cat(l, One(RParen))))
    BY <2>1, <2>2, <2>4
  <2> QED
    BY <2>4, <2>5, <2>6 DEF IsFact
<1> QED
  BY <1>4, <1>5

--------------------------------------------------------------------------------
(***************************************************************************)
(* The invariant, and that every action keeps it.                          *)
(***************************************************************************)

(* What is still to come *)

(* The parser makes r of what it has read and of w, if w comes next. *)
PlanNow(w, r) ==
    \/ pc = "frame" /\ Plan("frame", Top, Popped, w, r, ruleMode)
    \/ pc = "term" /\ Plan("term", NoTerm, stack, w, r, ruleMode)
    \/ pc = "return" /\ Plan("given", term, stack, w, r, ruleMode)
    \/ pc = "accepted" /\ Plan("given", Result, << >>, w, r, ruleMode)

(* That is so if, and only if, all of it is a sentence that spells r. *)
ReadsOn ==
    \A w \in Texts(ruleMode) :
        StartsWith(w, look) /\ Len(Cat(consumed, w)) <= MaxTokens =>
            \A r : IsSentence(ruleMode, entry, Cat(consumed, w), r) <=> PlanNow(w, r)

(* The terms read so far are sequences; parse is below if, and only if, it was called. *)
TermsInOrder(stk) == \A i \in 1..Len(stk) : IsSeq(stk[i].terms)

ReadsFact(stk) == \E i \in 1..Len(stk) : stk[i].fn = "parse"

EntryKnown == ~Ended => (entry = "parse" <=> ReadsFact(stack))

LanguageInv == ParserInv /\ TermsInOrder(stack) /\ EntryKnown /\ (pc # "idle" => ReadsOn)

(* A stack, seen as its top and what is below. *)
OnStack(s, f) ==
    /\ IsSeq(s) /\ Len(s) \in Nat
    /\ \A i \in 1..Len(s) : FrameOK(s[i]) /\ IsSeq(s[i].terms)
    /\ stack = Append(s, f) /\ f = Top /\ s = Popped
    /\ FrameOK(f) /\ IsSeq(f.terms)
    /\ \A g : SetTop(g) = Append(s, g)
    /\ Len(stack) = Len(s) + 1

(* The stack is its top and what is below it. *)
LEMMA BelowTop ==
    ASSUME NEW s, WellNested(s), s # << >>
    PROVE  LET b == WithoutTop(s)
           IN  /\ IsSeq(b) /\ Len(b) \in Nat /\ Len(s) = Len(b) + 1
               /\ \A i \in 1..Len(b) : b[i] = s[i]
<1>1. PICK S : s \in Seq(S)
  BY DEF WellNested
<1> DEFINE q == WithoutTop(s)
           n == Len(s) - 1
<1>2. Len(s) \in Nat /\ Len(s) >= 1
  BY TopOfStack
<1>3. n \in Nat /\ (\A i \in 1..n : i \in 1..Len(s)) /\ Len(s) = n + 1
  BY <1>2, SMT
<1>4. \A i \in 1..n : s[i] \in S
  BY <1>1, <1>3, ElementOfSeq
<1>5. /\ q \in Seq(S) /\ Len(q) = IF 1 <= n THEN n - 1 + 1 ELSE 0
      /\ \A i \in 1..(n - 1 + 1) : q[i] = s[1 + i - 1]
  BY <1>3, <1>4, SubSeqProperties, 1 \in Int, n \in Int DEF WithoutTop
<1>6. Len(q) = n /\ \A i \in 1..n : q[i] = s[i]
  <2>1. \A m \in Nat : (IF 1 <= m THEN m - 1 + 1 ELSE 0) = m /\ m - 1 + 1 = m
    OBVIOUS
  <2>2. \A i \in 1..n : 1 + i - 1 = i
    BY <1>3
  <2> HIDE DEF q, n
  <2> QED
    BY <1>3, <1>5, <2>1, <2>2, Zenon
<1>7. IsSeq(q)
  BY <1>5 DEF IsSeq
<1> HIDE DEF q, n
<1>8. IsSeq(q) /\ Len(q) \in Nat /\ Len(s) = Len(q) + 1 /\ \A i \in 1..Len(q) : q[i] = s[i]
  BY <1>3, <1>6, <1>7
<1> QED
  BY <1>8 DEF q

LEMMA SameButTop ==
    ASSUME NEW s, IsSeq(s), NEW q, IsSeq(q), NEW f, Len(q) = Len(s) + 1,
           \A i \in 1..Len(s) : q[i] = s[i], q[Len(s) + 1] = f
    PROVE  q = Append(s, f)
<1> DEFINE t == Append(s, f)
<1>1. IsSeq(t)
  BY AppendIsCat
<1>2. Len(t) = Len(s) + 1 /\ t[Len(s) + 1] = f /\ Len(s) \in Nat /\ \A i \in 1..Len(s) : t[i] = s[i]
  BY Pushed
<1> HIDE DEF t
<1>3. \A i \in 1..Len(q) : q[i] = t[i]
  <2>1. \A i \in 1..(Len(s) + 1) : i \in 1..Len(s) \/ i = Len(s) + 1
    BY <1>2
  <2> QED
    BY <1>2, <2>1
<1>4. q = t
  BY <1>1, <1>2, <1>3, SeqSame
<1> QED
  BY <1>4 DEF t

LEMMA TopAndBelow ==
    ASSUME ParserInv, TermsInOrder(stack), stack # << >>
    PROVE  \E s, f : OnStack(s, f)
<1> DEFINE s == WithoutTop(stack)
           f == Last(stack)
<1>1. WellNested(stack) /\ IsSeq(stack)
  BY DEF ParserInv, ControlOK, WellNested, IsSeq
<1>2. /\ Len(stack) \in Nat /\ Len(stack) >= 1 /\ DOMAIN stack = 1..Len(stack)
      /\ FrameOK(f)
  BY <1>1, TopOfStack
<1>3. IsSeq(s) /\ Len(s) \in Nat /\ Len(stack) = Len(s) + 1 /\ \A i \in 1..Len(s) : s[i] = stack[i]
  BY <1>1, BelowTop
<1>4. f = Top /\ s = Popped
  BY DEF Top, Last, Popped, WithoutTop
<1>5. f = stack[Len(s) + 1]
  BY <1>3 DEF Last
<1> HIDE DEF s, f
<1>6. \A i \in 1..(Len(s) + 1) : FrameOK(stack[i]) /\ IsSeq(stack[i].terms)
  BY <1>1, <1>2, <1>3 DEF WellNested, TermsInOrder
<1>7. (\A i \in 1..Len(s) : i \in 1..(Len(s) + 1)) /\ Len(s) + 1 \in 1..(Len(s) + 1)
  BY <1>3
<1>8. \A i \in 1..Len(s) : FrameOK(s[i]) /\ IsSeq(s[i].terms)
  BY <1>3, <1>6, <1>7
<1>9. stack = Append(s, f)
  BY <1>1, <1>3, <1>5, SameButTop
<1>10. ASSUME NEW g PROVE SetTop(g) = Append(s, g)
  <2> DEFINE q == SetTop(g)
  <2>1. PICK S : stack \in Seq(S)
    BY <1>1 DEF IsSeq
  <2> DEFINE T == S \cup {g}
  <2>2. stack \in Seq(T) /\ g \in T /\ Len(stack) \in 1..Len(stack)
    BY <1>2, <2>1, SeqMonotonic
  <2>3. /\ q \in Seq(T) /\ Len(q) = Len(stack)
        /\ \A j \in 1..Len(stack) : q[j] = IF j = Len(stack) THEN g ELSE stack[j]
    BY <2>2, ExceptSeq DEF SetTop
  <2>4. IsSeq(q)
    BY <2>3 DEF IsSeq
  <2> HIDE DEF q
  <2>5. \A i \in 1..Len(s) : i # Len(s) + 1
    BY <1>3
  <2>6. Len(q) = Len(s) + 1 /\ q[Len(s) + 1] = g /\ \A i \in 1..Len(s) : q[i] = s[i]
    BY <1>3, <1>7, <2>3, <2>5
  <2>7. q = Append(s, g)
    BY <1>3, <2>4, <2>6, SameButTop
  <2> QED
    BY <2>7 DEF q
<1>11. IsSeq(f.terms)
  BY <1>5, <1>6, <1>7
<1>12. OnStack(s, f)
  BY <1>2, <1>3, <1>4, <1>8, <1>9, <1>10, <1>11 DEF OnStack
<1> QED
  BY <1>12

--------------------------------------------------------------------------------
(* How a step keeps ReadsOn *)

LEMMA PartLength ==
    ASSUME NEW mode, NEW s \in Texts(mode), NEW t \in Texts(mode), Len(Cat(s, t)) <= MaxTokens
    PROVE  Len(t) <= MaxTokens
<1>1. Len(s) \in Nat /\ Len(t) \in Nat /\ Len(Cat(s, t)) = Len(s) + Len(t)
  BY TextFacts
<1> QED
  BY <1>1, MaxTokensAssumption

(* The whole text stays the same when its next token is read: from plans to ReadsOn. *)
LEMMA ReadsOnAdvanced ==
    ASSUME InputOK, ReadsOn, Advance, look \in Tokens(ruleMode), ruleMode' = ruleMode, entry' = entry,
           \A w \in Texts(ruleMode) : Len(Cat(One(look), w)) <= MaxTokens =>
               \A r : PlanNow(Cat(One(look), w), r) <=> PlanNow(w, r)'
    PROVE  ReadsOn'
<1>1. consumed \in Texts(ruleMode) /\ One(look) \in Texts(ruleMode)
  BY OneInTexts DEF InputOK, Texts
<1>2. consumed' = Cat(consumed, One(look))
  BY <1>1, TextsAreSeqs, AppendIsCat DEF Advance, Cat, One
<1> SUFFICES ASSUME NEW w \in Texts(ruleMode), StartsWith(w, look'), Len(Cat(consumed', w)) <= MaxTokens, NEW r
             PROVE  IsSentence(ruleMode, entry, Cat(consumed', w), r) <=> PlanNow(w, r)'
  BY DEF ReadsOn
<1> DEFINE x == Cat(One(look), w)
<1>3. x \in Texts(ruleMode) /\ Cat(consumed', w) = Cat(consumed, x)
  BY <1>1, <1>2, CatTexts, CatInTexts
<1>4. StartsWith(x, look)
  BY TokenTypes, FirstOfCat DEF StartsWith
<1>5. Len(Cat(consumed, x)) <= MaxTokens
  BY <1>3
<1>6. Len(x) <= MaxTokens
  BY <1>1, <1>3, <1>5, PartLength
<1>7. PlanNow(x, r) <=> PlanNow(w, r)'
  BY <1>6
<1> HIDE DEF x
<1>8. IsSentence(ruleMode, entry, Cat(consumed, x), r) <=> PlanNow(x, r)
  BY <1>3, <1>4, <1>5 DEF ReadsOn
<1> QED
  BY <1>3, <1>7, <1>8

(* And when nothing is read. *)
LEMMA ReadsOnStayed ==
    ASSUME InputOK, ReadsOn, Stay, ruleMode' = ruleMode, entry' = entry,
           \A w \in Texts(ruleMode) : StartsWith(w, look) /\ Len(w) <= MaxTokens =>
               \A r : PlanNow(w, r) <=> PlanNow(w, r)'
    PROVE  ReadsOn'
<1>1. consumed \in Texts(ruleMode) /\ look' = look /\ consumed' = consumed
  BY DEF InputOK, Texts, Stay
<1> SUFFICES ASSUME NEW w \in Texts(ruleMode), StartsWith(w, look), Len(Cat(consumed, w)) <= MaxTokens, NEW r
             PROVE  IsSentence(ruleMode, entry, Cat(consumed, w), r) <=> PlanNow(w, r)'
  BY <1>1 DEF ReadsOn
<1>2. Len(w) <= MaxTokens
  BY <1>1, PartLength
<1>3. PlanNow(w, r) <=> PlanNow(w, r)'
  BY <1>2
<1>4. IsSentence(ruleMode, entry, Cat(consumed, w), r) <=> PlanNow(w, r)
  BY DEF ReadsOn
<1> QED
  BY <1>3, <1>4

(* A step from one way of reading on to another, over the same activations. *)
LEMMA AdvancesTo ==
    ASSUME InputOK, ReadsOn, Advance, look \in Tokens(ruleMode), ruleMode' = ruleMode, entry' = entry,
           NEW how, NEW f, NEW how2, NEW g, NEW s, Len(s) \in Nat, \A i \in 1..Len(s) : FrameOK(s[i]),
           \A w \in Texts(ruleMode) : \A r : PlanNow(w, r) <=> Plan(how, f, s, w, r, ruleMode),
           \A w \in Texts(ruleMode) : \A r : PlanNow(w, r)' <=> Plan(how2, g, s, w, r, ruleMode),
           look.type \notin AfterTypes \/ \A v : ~Way(how, f, << >>, v, ruleMode),
           \A e \in Texts(ruleMode) : Len(Cat(One(look), e)) <= MaxTokens =>
               \A v : Way(how, f, Cat(One(look), e), v, ruleMode) <=> Way(how2, g, e, v, ruleMode)
    PROVE  ReadsOn'
<1>1. ASSUME NEW w \in Texts(ruleMode), Len(Cat(One(look), w)) <= MaxTokens, NEW r
      PROVE  PlanNow(Cat(One(look), w), r) <=> PlanNow(w, r)'
  <2> DEFINE x == Cat(One(look), w)
  <2>1. x \in Texts(ruleMode)
    BY Prefixed
  <2>2. Plan(how, f, s, x, r, ruleMode) <=> Plan(how2, g, s, w, r, ruleMode)
    BY <1>1, PlanAdvances
  <2> HIDE DEF x
  <2>3. PlanNow(x, r) <=> PlanNow(w, r)'
    BY <2>1, <2>2
  <2> QED
    BY <2>3 DEF x
<1> QED
  BY <1>1, ReadsOnAdvanced

(* The same for a step that reads nothing. *)
LEMMA StaysAt ==
    ASSUME InputOK, ReadsOn, Stay, ruleMode' = ruleMode, entry' = entry,
           NEW how, NEW f, NEW how2, NEW g, NEW s,
           \A w \in Texts(ruleMode) : \A r : PlanNow(w, r) <=> Plan(how, f, s, w, r, ruleMode),
           \A w \in Texts(ruleMode) : \A r : PlanNow(w, r)' <=> Plan(how2, g, s, w, r, ruleMode),
           \A e \in Texts(ruleMode) : StartsWith(e, look) /\ Len(e) <= MaxTokens =>
               \A v : Way(how, f, e, v, ruleMode) <=> Way(how2, g, e, v, ruleMode)
    PROVE  ReadsOn'
<1>1. ASSUME NEW w \in Texts(ruleMode), StartsWith(w, look), Len(w) <= MaxTokens, NEW r
      PROVE  PlanNow(w, r) <=> PlanNow(w, r)'
  <2>1. Plan(how, f, s, w, r, ruleMode) <=> Plan(how2, g, s, w, r, ruleMode)
    BY <1>1, PlanSame
  <2> QED
    BY <2>1
<1> QED
  BY <1>1, ReadsOnStayed

(* Nothing that may come is read. *)
LEMMA StopsAt ==
    ASSUME InputOK, ReadsOn, Reject,
           NEW how, NEW f, NEW s,
           \A w \in Texts(ruleMode) : \A r : PlanNow(w, r) <=> Plan(how, f, s, w, r, ruleMode),
           \A e \in Texts(ruleMode) : StartsWith(e, look) /\ Len(e) <= MaxTokens =>
               \A v : ~Way(how, f, e, v, ruleMode)
    PROVE  ReadsOn'
<1>1. Stay /\ ruleMode' = ruleMode /\ entry' = entry
  BY DEF Reject, Stay
<1>2. \A w, r : ~PlanNow(w, r)'
  BY DEF Reject, PlanNow
<1>3. ASSUME NEW w \in Texts(ruleMode), StartsWith(w, look), Len(w) <= MaxTokens, NEW r
      PROVE  PlanNow(w, r) <=> PlanNow(w, r)'
  <2>1. \A e \in Texts(ruleMode) : StartsWith(e, look) /\ Len(e) <= MaxTokens =>
            \A v : Way(how, f, e, v, ruleMode) <=> Way("none", f, e, v, ruleMode)
    BY DEF Way
  <2>2. Plan(how, f, s, w, r, ruleMode) <=> Plan("none", f, s, w, r, ruleMode)
    BY <1>3, <2>1, PlanSame
  <2>3. ~Plan("none", f, s, w, r, ruleMode)
    BY DEF Plan, Way
  <2> QED
    BY <1>2, <2>2, <2>3
<1> QED
  BY <1>1, <1>3, ReadsOnStayed

--------------------------------------------------------------------------------
(* What comes next, by where the parser is *)

LEMMA PlanAtFrame ==
    ASSUME pc = "frame", NEW s, NEW f, OnStack(s, f)
    PROVE  \A w \in Texts(ruleMode) : \A r : PlanNow(w, r) <=> Plan("frame", f, s, w, r, ruleMode)
BY DEF PlanNow, OnStack

(* A plan at the three ways to go on, now and after a step. *)
LEMMA PlanAtTerm ==
    ASSUME pc = "term"
    PROVE  \A w \in Texts(ruleMode) : \A r : PlanNow(w, r) <=> Plan("term", NoTerm, stack, w, r, ruleMode)
BY DEF PlanNow

LEMMA PlanAtReturn ==
    ASSUME pc = "return"
    PROVE  \A w \in Texts(ruleMode) : \A r : PlanNow(w, r) <=> Plan("given", term, stack, w, r, ruleMode)
BY DEF PlanNow

LEMMA TopOfPushed ==
    ASSUME NEW s, IsSeq(s), NEW g
    PROVE  LET q == Append(s, g) IN q[Len(q)] = g /\ SubSeq(q, 1, Len(q) - 1) = s
<1> DEFINE q == Append(s, g)
           b == SubSeq(q, 1, Len(q) - 1)
<1>1. PICK S : s \in Seq(S)
  BY DEF IsSeq
<1>2. s \in Seq(S \cup {g}) /\ g \in S \cup {g}
  BY <1>1, SeqMonotonic
<1>3. q \in Seq(S \cup {g}) /\ Len(q) = Len(s) + 1 /\ q[Len(s) + 1] = g /\ Len(s) \in Nat
      /\ \A i \in 1..Len(s) : q[i] = s[i]
  BY <1>2, AppendProperties, LenProperties
<1>4. Len(q) - 1 = Len(s)
  BY <1>3
<1> HIDE DEF q
<1>5. \A i \in 1..Len(s) : q[i] \in S \cup {g}
  BY <1>2, <1>3, ElementOfSeq
<1>6. /\ b \in Seq(S \cup {g}) /\ Len(b) = IF 1 <= Len(s) THEN Len(s) - 1 + 1 ELSE 0
      /\ \A i \in 1..(Len(s) - 1 + 1) : b[i] = q[1 + i - 1]
  BY <1>3, <1>4, <1>5, SubSeqProperties, 1 \in Int, Len(s) \in Int
<1>7. Len(b) = Len(s) /\ \A i \in 1..Len(s) : b[i] = s[i]
  <2>1. \A m \in Nat : (IF 1 <= m THEN m - 1 + 1 ELSE 0) = m /\ m - 1 + 1 = m
    OBVIOUS
  <2>2. \A i \in 1..Len(s) : 1 + i - 1 = i
    BY <1>3
  <2> HIDE DEF b
  <2>3. \A i \in 1..Len(s) : b[i] = q[1 + i - 1]
    BY <1>3, <1>6, <2>1
  <2>4. \A i \in 1..Len(s) : b[i] = q[i]
    BY <2>2, <2>3
  <2> QED
    BY <1>3, <1>6, <2>1, <2>4
<1>8. IsSeq(b)
  BY <1>6 DEF IsSeq
<1> HIDE DEF b
<1>9. b = s
  BY <1>7, <1>8, SeqSame
<1>10. q[Len(q)] = g
  BY <1>3, <1>4
<1> QED
  BY <1>9, <1>10 DEF b, q

LEMMA PlanNextFrame ==
    ASSUME pc' = "frame", NEW s, IsSeq(s), NEW g, stack' = Append(s, g), ruleMode' = ruleMode
    PROVE  \A w \in Texts(ruleMode) : \A r : PlanNow(w, r)' <=> Plan("frame", g, s, w, r, ruleMode)
<1>1. Top' = g /\ Popped' = s
  BY TopOfPushed DEF Top, Popped
<1> QED
  BY <1>1 DEF PlanNow

LEMMA PlanNextTerm ==
    ASSUME pc' = "term", NEW s, IsSeq(s), NEW g, stack' = Append(s, g), ruleMode' = ruleMode
    PROVE  \A w \in Texts(ruleMode) : \A r : PlanNow(w, r)' <=> Plan("asked", g, s, w, r, ruleMode)
<1>1. \A w, r : PlanNow(w, r)' <=> Plan("term", NoTerm, Append(s, g), w, r, ruleMode)
  BY DEF PlanNow
<1> QED
  BY <1>1, PlanOfAsked

LEMMA PlanNextReturn ==
    ASSUME pc' = "return", NEW s, stack' = s, NEW t, term' = t, ruleMode' = ruleMode
    PROVE  \A w \in Texts(ruleMode) : \A r : PlanNow(w, r)' <=> Plan("given", t, s, w, r, ruleMode)
BY DEF PlanNow

LEMMA PlanNextAccepted ==
    ASSUME pc' = "accepted", NEW t, Result' = t, ruleMode' = ruleMode
    PROVE  \A w \in Texts(ruleMode) : \A r : PlanNow(w, r)' <=> Plan("given", t, << >>, w, r, ruleMode)
BY DEF PlanNow

--------------------------------------------------------------------------------
(* The kinds of steps of an activation *)

LEMMA PushedStack ==
    ASSUME NEW s, IsSeq(s), \A i \in 1..Len(s) : IsSeq(s[i].terms), NEW g, IsSeq(g.terms)
    PROVE  /\ TermsInOrder(Append(s, g))
           /\ ReadsFact(Append(s, g)) <=> ReadsFact(s) \/ g.fn = "parse"
<1> DEFINE q == Append(s, g)
           n == Len(s)
<1>1. n \in Nat /\ Len(q) = n + 1 /\ q[n + 1] = g /\ \A i \in 1..n : q[i] = s[i]
  BY Pushed
<1>2. (\A i \in 1..(n + 1) : i \in 1..n \/ i = n + 1) /\ (\A i \in 1..n : i \in 1..(n + 1)) /\ n + 1 \in 1..(n + 1)
  BY <1>1
<1> HIDE DEF q
<1>3. TermsInOrder(q)
  BY <1>1, <1>2 DEF TermsInOrder, n
<1>4. ReadsFact(s) <=> \E i \in 1..n : s[i].fn = "parse"
  BY DEF ReadsFact, n
<1>5. ReadsFact(q) <=> \E i \in 1..(n + 1) : q[i].fn = "parse"
  BY <1>1 DEF ReadsFact
<1> HIDE DEF n
<1>6. ReadsFact(q) <=> ReadsFact(s) \/ g.fn = "parse"
  BY <1>1, <1>2, <1>4, <1>5
<1> QED
  BY <1>3, <1>6 DEF q

(* A step of the language's invariant, but for the parser's own. *)
LanguageStep == ReadsOn' /\ TermsInOrder(stack)' /\ EntryKnown'

(* What a step does to the stack keeps TermsInOrder and EntryKnown. *)
LEMMA StackKnown ==
    ASSUME EntryKnown, ~Ended, entry' = entry, NEW s, NEW f, OnStack(s, f)
    PROVE  /\ \A g : stack' = Append(s, g) /\ g.fn = f.fn /\ IsSeq(g.terms) =>
                  TermsInOrder(stack)' /\ EntryKnown'
           /\ stack' = s /\ f.fn # "parse" => TermsInOrder(stack)' /\ EntryKnown'
<1>1. IsSeq(s) /\ (\A i \in 1..Len(s) : IsSeq(s[i].terms)) /\ stack = Append(s, f) /\ IsSeq(f.terms)
  BY DEF OnStack
<1>2. entry = "parse" <=> ReadsFact(s) \/ f.fn = "parse"
  BY <1>1, PushedStack DEF EntryKnown
<1>3. ASSUME NEW g, stack' = Append(s, g), g.fn = f.fn, IsSeq(g.terms)
      PROVE  TermsInOrder(stack)' /\ EntryKnown'
  <2>1. TermsInOrder(Append(s, g)) /\ (ReadsFact(Append(s, g)) <=> ReadsFact(s) \/ g.fn = "parse")
    BY <1>1, <1>3, PushedStack
  <2>2. TermsInOrder(stack') /\ (ReadsFact(stack') <=> ReadsFact(s) \/ f.fn = "parse")
    BY <1>3, <2>1
  <2> QED
    BY <1>2, <2>2 DEF EntryKnown
<1>4. ASSUME stack' = s, f.fn # "parse"
      PROVE  TermsInOrder(stack)' /\ EntryKnown'
  BY <1>1, <1>2, <1>4 DEF EntryKnown, TermsInOrder
<1> QED
  BY <1>3, <1>4

(* What a place leaves to be read is not empty, but for a name. *)
NotEmptyAt(f, mode) == \A v : ~Rest(f, << >>, v, mode)

(* An activation moves to another of its places over a token. *)
LEMMA MovesOn ==
    ASSUME LanguageInv, pc = "frame", NEW s, NEW f, OnStack(s, f), NEW g, GoOn(Append(s, g)), Advance,
           look \in Tokens(ruleMode), g.fn = f.fn, IsSeq(g.terms),
           look.type \notin AfterTypes \/ NotEmptyAt(f, ruleMode),
           \A e \in Texts(ruleMode) : Len(Cat(One(look), e)) <= MaxTokens =>
               \A v : Rest(f, Cat(One(look), e), v, ruleMode) <=> Rest(g, e, v, ruleMode)
    PROVE  LanguageStep
<1>1. InputOK /\ ReadsOn /\ EntryKnown /\ ~Ended
  BY DEF LanguageInv, ParserInv, Ended
<1>2. pc' = "frame" /\ stack' = Append(s, g) /\ ruleMode' = ruleMode /\ entry' = entry
  BY DEF GoOn
<1>3. IsSeq(s) /\ Len(s) \in Nat /\ \A i \in 1..Len(s) : FrameOK(s[i])
  BY DEF OnStack
<1>4. \A h, e, v : Way("frame", h, e, v, ruleMode) <=> Rest(h, e, v, ruleMode)
  BY DEF Way
<1>5. \A w \in Texts(ruleMode) : \A r : PlanNow(w, r) <=> Plan("frame", f, s, w, r, ruleMode)
  BY PlanAtFrame
<1>6. \A w \in Texts(ruleMode) : \A r : PlanNow(w, r)' <=> Plan("frame", g, s, w, r, ruleMode)
  BY <1>2, <1>3, PlanNextFrame
<1>7. look.type \notin AfterTypes \/ \A v : ~Way("frame", f, << >>, v, ruleMode)
  BY <1>4 DEF NotEmptyAt
<1>8. \A e \in Texts(ruleMode) : Len(Cat(One(look), e)) <= MaxTokens =>
          \A v : Way("frame", f, Cat(One(look), e), v, ruleMode) <=> Way("frame", g, e, v, ruleMode)
  BY <1>4
<1>9. ReadsOn'
  BY <1>1, <1>2, <1>3, <1>5, <1>6, <1>7, <1>8, AdvancesTo
<1>10. TermsInOrder(stack)' /\ EntryKnown'
  BY <1>1, <1>2, StackKnown
<1> QED
  BY <1>9, <1>10 DEF LanguageStep

(* An activation moves to another of its places without reading. *)
LEMMA MovesStill ==
    ASSUME LanguageInv, pc = "frame", NEW s, NEW f, OnStack(s, f), NEW g, GoOn(Append(s, g)), Stay,
           g.fn = f.fn, IsSeq(g.terms),
           \A e \in Texts(ruleMode) : StartsWith(e, look) /\ Len(e) <= MaxTokens =>
               \A v : Rest(f, e, v, ruleMode) <=> Rest(g, e, v, ruleMode)
    PROVE  LanguageStep
<1>1. InputOK /\ ReadsOn /\ EntryKnown /\ ~Ended
  BY DEF LanguageInv, ParserInv, Ended
<1>2. pc' = "frame" /\ stack' = Append(s, g) /\ ruleMode' = ruleMode /\ entry' = entry
  BY DEF GoOn
<1>3. IsSeq(s)
  BY DEF OnStack
<1>4. \A h, e, v : Way("frame", h, e, v, ruleMode) <=> Rest(h, e, v, ruleMode)
  BY DEF Way
<1>5. \A w \in Texts(ruleMode) : \A r : PlanNow(w, r) <=> Plan("frame", f, s, w, r, ruleMode)
  BY PlanAtFrame
<1>6. \A w \in Texts(ruleMode) : \A r : PlanNow(w, r)' <=> Plan("frame", g, s, w, r, ruleMode)
  BY <1>2, <1>3, PlanNextFrame
<1>7. \A e \in Texts(ruleMode) : StartsWith(e, look) /\ Len(e) <= MaxTokens =>
          \A v : Way("frame", f, e, v, ruleMode) <=> Way("frame", g, e, v, ruleMode)
  BY <1>4
<1>8. ReadsOn'
  BY <1>1, <1>2, <1>5, <1>6, <1>7, StaysAt
<1>9. TermsInOrder(stack)' /\ EntryKnown'
  BY <1>1, <1>2, StackKnown
<1> QED
  BY <1>8, <1>9 DEF LanguageStep

(* An activation asks for a term, over a token. *)
LEMMA AsksOn ==
    ASSUME LanguageInv, pc = "frame", NEW s, NEW f, OnStack(s, f), NEW g, CallTerm(Append(s, g)), Advance,
           look \in Tokens(ruleMode), g.fn = f.fn, IsSeq(g.terms),
           NotEmptyAt(f, ruleMode),
           \A e \in Texts(ruleMode) : Len(Cat(One(look), e)) <= MaxTokens =>
               \A v : Rest(f, Cat(One(look), e), v, ruleMode) <=> Asked(g, e, v, ruleMode)
    PROVE  LanguageStep
<1>1. InputOK /\ ReadsOn /\ EntryKnown /\ ~Ended
  BY DEF LanguageInv, ParserInv, Ended
<1>2. pc' = "term" /\ stack' = Append(s, g) /\ ruleMode' = ruleMode /\ entry' = entry
  BY DEF CallTerm
<1>3. IsSeq(s) /\ Len(s) \in Nat /\ \A i \in 1..Len(s) : FrameOK(s[i])
  BY DEF OnStack
<1>4. \A h, e, v : /\ Way("frame", h, e, v, ruleMode) <=> Rest(h, e, v, ruleMode)
                   /\ Way("asked", h, e, v, ruleMode) <=> Asked(h, e, v, ruleMode)
  BY DEF Way
<1>5. \A w \in Texts(ruleMode) : \A r : PlanNow(w, r) <=> Plan("frame", f, s, w, r, ruleMode)
  BY PlanAtFrame
<1>6. \A w \in Texts(ruleMode) : \A r : PlanNow(w, r)' <=> Plan("asked", g, s, w, r, ruleMode)
  BY <1>2, <1>3, PlanNextTerm
<1>7. \A v : ~Way("frame", f, << >>, v, ruleMode)
  BY <1>4 DEF NotEmptyAt
<1>8. \A e \in Texts(ruleMode) : Len(Cat(One(look), e)) <= MaxTokens =>
          \A v : Way("frame", f, Cat(One(look), e), v, ruleMode) <=> Way("asked", g, e, v, ruleMode)
  BY <1>4
<1>9. ReadsOn'
  BY <1>1, <1>2, <1>3, <1>5, <1>6, <1>7, <1>8, AdvancesTo
<1>10. TermsInOrder(stack)' /\ EntryKnown'
  BY <1>1, <1>2, StackKnown
<1> QED
  BY <1>9, <1>10 DEF LanguageStep

(* An activation asks for a term, without reading. *)
LEMMA AsksStill ==
    ASSUME LanguageInv, pc = "frame", NEW s, NEW f, OnStack(s, f), CallTerm(stack), Stay,
           \A e \in Texts(ruleMode) : StartsWith(e, look) /\ Len(e) <= MaxTokens =>
               \A v : Rest(f, e, v, ruleMode) <=> Asked(f, e, v, ruleMode)
    PROVE  LanguageStep
<1>1. InputOK /\ ReadsOn /\ EntryKnown /\ ~Ended
  BY DEF LanguageInv, ParserInv, Ended
<1>3. IsSeq(s) /\ stack = Append(s, f) /\ IsSeq(f.terms)
  BY DEF OnStack
<1>2. pc' = "term" /\ stack' = Append(s, f) /\ ruleMode' = ruleMode /\ entry' = entry
  BY <1>3 DEF CallTerm
<1>4. \A h, e, v : /\ Way("frame", h, e, v, ruleMode) <=> Rest(h, e, v, ruleMode)
                   /\ Way("asked", h, e, v, ruleMode) <=> Asked(h, e, v, ruleMode)
  BY DEF Way
<1>5. \A w \in Texts(ruleMode) : \A r : PlanNow(w, r) <=> Plan("frame", f, s, w, r, ruleMode)
  BY PlanAtFrame
<1>6. \A w \in Texts(ruleMode) : \A r : PlanNow(w, r)' <=> Plan("asked", f, s, w, r, ruleMode)
  BY <1>2, <1>3, PlanNextTerm
<1>7. \A e \in Texts(ruleMode) : StartsWith(e, look) /\ Len(e) <= MaxTokens =>
          \A v : Way("frame", f, e, v, ruleMode) <=> Way("asked", f, e, v, ruleMode)
  BY <1>4
<1>8. ReadsOn'
  BY <1>1, <1>2, <1>5, <1>6, <1>7, StaysAt
<1>9. TermsInOrder(stack)' /\ EntryKnown'
  BY <1>1, <1>2, <1>3, StackKnown
<1> QED
  BY <1>8, <1>9 DEF LanguageStep

(* An activation returns, over a token. *)
LEMMA ReturnsOn ==
    ASSUME LanguageInv, pc = "frame", NEW s, NEW f, OnStack(s, f), f.fn # "parse",
           NEW t, ReturnTerm(s, t), Advance, look \in Tokens(ruleMode),
           NotEmptyAt(f, ruleMode),
           \A e \in Texts(ruleMode) : Len(Cat(One(look), e)) <= MaxTokens =>
               \A v : Rest(f, Cat(One(look), e), v, ruleMode) <=> e = << >> /\ v = t
    PROVE  LanguageStep
<1>1. InputOK /\ ReadsOn /\ EntryKnown /\ ~Ended
  BY DEF LanguageInv, ParserInv, Ended
<1>2. pc' = "return" /\ stack' = s /\ term' = t /\ ruleMode' = ruleMode /\ entry' = entry
  BY DEF ReturnTerm
<1>3. Len(s) \in Nat /\ \A i \in 1..Len(s) : FrameOK(s[i])
  BY DEF OnStack
<1>4. \A h, e, v : /\ Way("frame", h, e, v, ruleMode) <=> Rest(h, e, v, ruleMode)
                   /\ Way("given", h, e, v, ruleMode) <=> e = << >> /\ v = h
  BY DEF Way
<1>5. \A w \in Texts(ruleMode) : \A r : PlanNow(w, r) <=> Plan("frame", f, s, w, r, ruleMode)
  BY PlanAtFrame
<1>6. \A w \in Texts(ruleMode) : \A r : PlanNow(w, r)' <=> Plan("given", t, s, w, r, ruleMode)
  BY <1>2, PlanNextReturn
<1>7. \A v : ~Way("frame", f, << >>, v, ruleMode)
  BY <1>4 DEF NotEmptyAt
<1>8. \A e \in Texts(ruleMode) : Len(Cat(One(look), e)) <= MaxTokens =>
          \A v : Way("frame", f, Cat(One(look), e), v, ruleMode) <=> Way("given", t, e, v, ruleMode)
  BY <1>4
<1>9. ReadsOn'
  BY <1>1, <1>2, <1>3, <1>5, <1>6, <1>7, <1>8, AdvancesTo
<1>10. TermsInOrder(stack)' /\ EntryKnown'
  BY <1>1, <1>2, StackKnown
<1> QED
  BY <1>9, <1>10 DEF LanguageStep

(* An activation returns, without reading. *)
LEMMA ReturnsStill ==
    ASSUME LanguageInv, pc = "frame", NEW s, NEW f, OnStack(s, f), f.fn # "parse",
           NEW t, ReturnTerm(s, t), Stay,
           \A e \in Texts(ruleMode) : StartsWith(e, look) /\ Len(e) <= MaxTokens =>
               \A v : Rest(f, e, v, ruleMode) <=> e = << >> /\ v = t
    PROVE  LanguageStep
<1>1. InputOK /\ ReadsOn /\ EntryKnown /\ ~Ended
  BY DEF LanguageInv, ParserInv, Ended
<1>2. pc' = "return" /\ stack' = s /\ term' = t /\ ruleMode' = ruleMode /\ entry' = entry
  BY DEF ReturnTerm
<1>4. \A h, e, v : /\ Way("frame", h, e, v, ruleMode) <=> Rest(h, e, v, ruleMode)
                   /\ Way("given", h, e, v, ruleMode) <=> e = << >> /\ v = h
  BY DEF Way
<1>5. \A w \in Texts(ruleMode) : \A r : PlanNow(w, r) <=> Plan("frame", f, s, w, r, ruleMode)
  BY PlanAtFrame
<1>6. \A w \in Texts(ruleMode) : \A r : PlanNow(w, r)' <=> Plan("given", t, s, w, r, ruleMode)
  BY <1>2, PlanNextReturn
<1>7. \A e \in Texts(ruleMode) : StartsWith(e, look) /\ Len(e) <= MaxTokens =>
          \A v : Way("frame", f, e, v, ruleMode) <=> Way("given", t, e, v, ruleMode)
  BY <1>4
<1>8. ReadsOn'
  BY <1>1, <1>2, <1>5, <1>6, <1>7, StaysAt
<1>9. TermsInOrder(stack)' /\ EntryKnown'
  BY <1>1, <1>2, StackKnown
<1> QED
  BY <1>8, <1>9 DEF LanguageStep

LEMMA RejectedStack ==
    ASSUME Reject
    PROVE  TermsInOrder(stack)' /\ EntryKnown'
<1>1. stack' = << >> /\ Ended' /\ Len(<< >>) = 0
  BY EmptySeq DEF Reject, Ended
<1> QED
  BY <1>1 DEF EntryKnown, TermsInOrder

(* A token that no plan begins with is rejected. *)
LEMMA RejectsAt ==
    ASSUME LanguageInv, pc = "frame", NEW s, NEW f, OnStack(s, f), Reject,
           \A e \in Texts(ruleMode) : StartsWith(e, look) /\ Len(e) <= MaxTokens =>
               \A v : ~Rest(f, e, v, ruleMode)
    PROVE  LanguageStep
<1>1. InputOK /\ ReadsOn
  BY DEF LanguageInv, ParserInv
<1>4. \A h, e, v : Way("frame", h, e, v, ruleMode) <=> Rest(h, e, v, ruleMode)
  BY DEF Way
<1>5. \A w \in Texts(ruleMode) : \A r : PlanNow(w, r) <=> Plan("frame", f, s, w, r, ruleMode)
  BY PlanAtFrame
<1>6. \A e \in Texts(ruleMode) : StartsWith(e, look) /\ Len(e) <= MaxTokens =>
          \A v : ~Way("frame", f, e, v, ruleMode)
  BY <1>4
<1>7. ReadsOn'
  BY <1>1, <1>5, <1>6, StopsAt
<1> QED
  BY <1>7, RejectedStack DEF LanguageStep

--------------------------------------------------------------------------------
(* Where the parser waits *)

LEMMA PlaceKnown ==
    ASSUME LanguageInv, NEW fn, NEW at, Waits(fn, at)
    PROVE  /\ pc = "frame" /\ (fn = "parse" => Len(stack) = 1)
           /\ look \in Tokens(ruleMode) \cup {EndOfInput}
           /\ \E s, f : OnStack(s, f) /\ f.fn = fn /\ f.at = at
<1>1. ParserInv /\ TermsInOrder(stack) /\ InputOK
  BY DEF LanguageInv, ParserInv
<1>2. stack # << >> /\ Top.fn = fn /\ Top.at = at /\ pc = "frame" /\ (fn = "parse" => Len(stack) = 1)
  BY <1>1, AtPlace
<1>3. PICK s, f : OnStack(s, f)
  BY <1>1, <1>2, TopAndBelow
<1>4. f = Top
  BY <1>3 DEF OnStack
<1> QED
  BY <1>1, <1>2, <1>3, <1>4 DEF InputOK

(* The token that is seen is one of the mode. *)
LEMMA SeenToken ==
    ASSUME look \in Tokens(ruleMode) \cup {EndOfInput}, NEW types, Sees(types), "END" \notin types
    PROVE  look \in Tokens(ruleMode) /\ look.type \in types
BY SeesAToken DEF Sees

(* What is left at each place, and what it begins with. *)
LEMMA RestAtPlace ==
    ASSUME NEW f, NEW e, NEW v, NEW mode
    PROVE  /\ f.fn = "parse" /\ f.at = "predicate" =>
                  (Rest(f, e, v, mode) <=> AtPredicate(f.terms, e, v, mode))
           /\ f.fn = "parse" /\ f.at = "open" =>
                  (Rest(f, e, v, mode) <=> AtOpen(f.name, f.terms, e, v, mode))
           /\ f.fn = "parse" /\ f.at = "loop" =>
                  (Rest(f, e, v, mode) <=> AtLoop(f.name, f.terms, e, v, mode))
           /\ f.fn = "parse" /\ f.at = "separator" =>
                  (Rest(f, e, v, mode) <=> AtSeparator(f.name, f.terms, e, v, mode))
           /\ f.fn = "parseList" /\ f.at = "first" =>
                  (Rest(f, e, v, mode) <=> AtListFirst(f.terms, e, v, mode))
           /\ f.fn = "parseList" /\ f.at = "rest" =>
                  (Rest(f, e, v, mode) <=> AtListRest(f.terms, e, v, mode))
           /\ f.fn = "parseList" /\ f.at = "end" =>
                  (Rest(f, e, v, mode) <=> e = One(RBracket) /\ v = ListOf(f.terms, f.tail[1]))
           /\ f.fn = "parseCompoundOrAtom" /\ f.at = "name" =>
                  (Rest(f, e, v, mode) <=> AtName(f.name, f.terms, e, v, mode))
           /\ f.fn = "parseCompoundOrAtom" /\ f.at = "first" =>
                  (Rest(f, e, v, mode) <=> AtArgsFirst(f.name, f.terms, e, v, mode))
           /\ f.fn = "parseCompoundOrAtom" /\ f.at = "rest" =>
                  (Rest(f, e, v, mode) <=> AtArgsRest(f.name, f.terms, e, v, mode))
BY DEF Rest

AheadOf(f, types, mode) ==
    \A e \in Texts(mode) : \A v : Rest(f, e, v, mode) => Begins(e, types, mode)

LEMMA PredicateBegins ==
    ASSUME NEW f, f.fn = "parse", f.at = "predicate", NEW mode
    PROVE  AheadOf(f, {"IDENTIFIER"}, mode)
BY RestAtPlace, PredicateAhead DEF AheadOf

LEMMA OpenBegins ==
    ASSUME NEW f, f.fn = "parse", f.at = "open", NEW mode
    PROVE  AheadOf(f, {"LPAREN"}, mode)
BY RestAtPlace, OpenAhead DEF AheadOf

LEMMA LoopBegins ==
    ASSUME NEW f, f.fn = "parse", f.at = "loop", IsSeq(f.terms), NEW mode
    PROVE  AheadOf(f, FirstTypes \cup {"RPAREN"}, mode)
BY RestAtPlace, LoopAhead DEF AheadOf

LEMMA SeparatorBegins ==
    ASSUME NEW f, f.fn = "parse", f.at = "separator", NEW mode
    PROVE  AheadOf(f, {"RPAREN", "COMMA"}, mode)
BY RestAtPlace, SeparatorAhead DEF AheadOf

LEMMA ListFirstBegins ==
    ASSUME NEW f, f.fn = "parseList", f.at = "first", NEW mode
    PROVE  AheadOf(f, FirstTypes \cup {"RBRACKET"}, mode)
BY RestAtPlace, ListFirstAhead DEF AheadOf

LEMMA ListRestBegins ==
    ASSUME NEW f, f.fn = "parseList", f.at = "rest", NEW mode
    PROVE  AheadOf(f, {"RBRACKET", "COMMA", "PIPE"}, mode)
BY RestAtPlace, ListRestAhead DEF AheadOf

LEMMA ListEndBegins ==
    ASSUME NEW f, f.fn = "parseList", f.at = "end", NEW mode
    PROVE  AheadOf(f, {"RBRACKET"}, mode)
<1>1. RBracket \in Tokens(mode) /\ RBracket.type \in {"RBRACKET"}
  BY Marks, MarkTypesAre
<1>2. Begins(One(RBracket), {"RBRACKET"}, mode)
  BY <1>1, MarkAhead
<1> QED
  BY <1>2, RestAtPlace DEF AheadOf

LEMMA ArgsFirstBegins ==
    ASSUME NEW f, f.fn = "parseCompoundOrAtom", f.at = "first", NEW mode
    PROVE  AheadOf(f, FirstTypes \cup {"RPAREN"}, mode)
BY RestAtPlace, ArgsFirstAhead DEF AheadOf

LEMMA ArgsRestBegins ==
    ASSUME NEW f, f.fn = "parseCompoundOrAtom", f.at = "rest", NEW mode
    PROVE  AheadOf(f, {"RPAREN", "COMMA"}, mode)
BY RestAtPlace, ArgsRestAhead DEF AheadOf

LEMMA NotEmptyThere ==
    ASSUME NEW f, NEW types, NEW mode, AheadOf(f, types, mode)
    PROVE  NotEmptyAt(f, mode)
<1>1. << >> \in Texts(mode)
  BY TextFacts
<1>2. ~Begins(<< >>, types, mode)
  BY <1>1, BeginsOnce
<1> QED
  BY <1>1, <1>2 DEF AheadOf, NotEmptyAt

(* Nothing that begins with a token no text of the place begins with can be read there. *)
LEMMA Refused ==
    ASSUME NEW f, NEW types, NEW mode, AheadOf(f, types, mode), NEW t, t.type \notin types
    PROVE  \A e \in Texts(mode) : StartsWith(e, t) => \A v : ~Rest(f, e, v, mode)
BY SeenAhead DEF AheadOf

(* An activation that goes on elsewhere. *)
LEMMA MovedFields ==
    ASSUME NEW f, FrameOK(f), NEW at
    PROVE  LET g == [f EXCEPT !.at = at]
           IN  g.fn = f.fn /\ g.name = f.name /\ g.terms = f.terms /\ g.tail = f.tail /\ g.at = at
BY DEF FrameOK

LEMMA NamedFields ==
    ASSUME NEW f, FrameOK(f), NEW name, NEW at
    PROVE  LET g == [f EXCEPT !.name = name, !.at = at]
           IN  g.fn = f.fn /\ g.name = name /\ g.terms = f.terms /\ g.at = at
<1> DEFINE h == [f EXCEPT !.name = name]
<1>1. h.fn = f.fn /\ h.name = name /\ h.terms = f.terms /\ "at" \in DOMAIN h
      /\ "fn" \in DOMAIN h /\ "name" \in DOMAIN h /\ "terms" \in DOMAIN h
  BY DEF FrameOK
<1>2. [f EXCEPT !.name = name, !.at = at] = [h EXCEPT !.at = at]
  OBVIOUS
<1> HIDE DEF h
<1> QED
  BY <1>1, <1>2

--------------------------------------------------------------------------------
(* The steps of parse *)

LEMMA PredicateReads == ASSUME LanguageInv, Predicate PROVE LanguageStep
<1>1. Waits("parse", "predicate")
  BY DEF Predicate
<1>2. /\ pc = "frame" /\ look \in Tokens(ruleMode) \cup {EndOfInput}
      /\ \E s, f : OnStack(s, f) /\ f.fn = "parse" /\ f.at = "predicate"
  BY <1>1, PlaceKnown
<1>3. PICK s, f : OnStack(s, f) /\ f.fn = "parse" /\ f.at = "predicate"
  BY <1>2
<1>4. FrameOK(f) /\ IsSeq(f.terms) /\ f = Top /\ \A g : SetTop(g) = Append(s, g)
  BY <1>3 DEF OnStack
<1>5. AheadOf(f, {"IDENTIFIER"}, ruleMode)
  BY <1>3, PredicateBegins
<1>6. CASE Sees({"IDENTIFIER"}) /\ Advance /\ GoOn(SetTop([Top EXCEPT !.name = look.value, !.at = "open"]))
  <2> DEFINE g == [f EXCEPT !.name = look.value, !.at = "open"]
  <2>1. GoOn(Append(s, g))
    BY <1>4, <1>6
  <2>2. g.fn = "parse" /\ g.name = look.value /\ g.terms = f.terms /\ g.at = "open"
    BY <1>3, <1>4, NamedFields
  <2>3. look \in Tokens(ruleMode) /\ look.type = "IDENTIFIER"
    BY <1>2, <1>6, SeenToken
  <2> HIDE DEF g
  <2>4. \A e \in Texts(ruleMode) : \A v :
            Rest(f, Cat(One(look), e), v, ruleMode) <=> Rest(g, e, v, ruleMode)
    <3> TAKE e \in Texts(ruleMode)
    <3> TAKE v
    <3> DEFINE x == Cat(One(look), e)
    <3>1. AtPredicate(f.terms, x, v, ruleMode) <=> AtOpen(look.value, f.terms, e, v, ruleMode)
      BY <2>3, ReadPredicate
    <3> HIDE DEF x
    <3>2. Rest(f, x, v, ruleMode) <=> AtPredicate(f.terms, x, v, ruleMode)
      BY <1>3, RestAtPlace
    <3>3. Rest(g, e, v, ruleMode) <=> AtOpen(look.value, f.terms, e, v, ruleMode)
      BY <2>2, RestAtPlace
    <3> QED
      BY <3>1, <3>2, <3>3 DEF x
  <2>5. NotEmptyAt(f, ruleMode)
    BY <1>5, NotEmptyThere
  <2> QED
    BY <1>2, <1>3, <1>4, <1>6, <2>1, <2>2, <2>3, <2>4, <2>5, MovesOn
<1>7. CASE ~Sees({"IDENTIFIER"}) /\ Reject
  <2>1. look.type \notin {"IDENTIFIER"}
    BY <1>7 DEF Sees
  <2>2. \A e \in Texts(ruleMode) : StartsWith(e, look) => \A v : ~Rest(f, e, v, ruleMode)
    BY <1>5, <2>1, Refused
  <2> QED
    BY <1>2, <1>3, <1>7, <2>2, RejectsAt
<1> QED
  BY <1>6, <1>7 DEF Predicate

LEMMA OpenReads == ASSUME LanguageInv, Open PROVE LanguageStep
<1>1. Waits("parse", "open")
  BY DEF Open
<1>2. /\ pc = "frame" /\ look \in Tokens(ruleMode) \cup {EndOfInput}
      /\ \E s, f : OnStack(s, f) /\ f.fn = "parse" /\ f.at = "open"
  BY <1>1, PlaceKnown
<1>3. PICK s, f : OnStack(s, f) /\ f.fn = "parse" /\ f.at = "open"
  BY <1>2
<1>4. FrameOK(f) /\ IsSeq(f.terms) /\ f = Top /\ \A g : SetTop(g) = Append(s, g)
  BY <1>3 DEF OnStack
<1>5. AheadOf(f, {"LPAREN"}, ruleMode)
  BY <1>3, OpenBegins
<1>6. CASE Sees({"LPAREN"}) /\ Advance /\ GoOn(SetTop([Top EXCEPT !.at = "loop"]))
  <2> DEFINE g == [f EXCEPT !.at = "loop"]
  <2>1. GoOn(Append(s, g))
    BY <1>4, <1>6
  <2>2. g.fn = "parse" /\ g.name = f.name /\ g.terms = f.terms /\ g.at = "loop"
    BY <1>3, <1>4, MovedFields
  <2>3. look \in Tokens(ruleMode) /\ look = LParen
    BY <1>2, <1>6, SeenToken, TokenTypes
  <2> HIDE DEF g
  <2>4. \A e \in Texts(ruleMode) : \A v :
            Rest(f, Cat(One(look), e), v, ruleMode) <=> Rest(g, e, v, ruleMode)
    <3> TAKE e \in Texts(ruleMode)
    <3> TAKE v
    <3> DEFINE x == Cat(One(look), e)
    <3>1. AtOpen(f.name, f.terms, x, v, ruleMode) <=> AtLoop(f.name, f.terms, e, v, ruleMode)
      BY <2>3, ReadOpen
    <3> HIDE DEF x
    <3>2. Rest(f, x, v, ruleMode) <=> AtOpen(f.name, f.terms, x, v, ruleMode)
      BY <1>3, RestAtPlace
    <3>3. Rest(g, e, v, ruleMode) <=> AtLoop(f.name, f.terms, e, v, ruleMode)
      BY <2>2, RestAtPlace
    <3> QED
      BY <3>1, <3>2, <3>3 DEF x
  <2>5. NotEmptyAt(f, ruleMode)
    BY <1>5, NotEmptyThere
  <2> QED
    BY <1>2, <1>3, <1>4, <1>6, <2>1, <2>2, <2>3, <2>4, <2>5, MovesOn
<1>7. CASE ~Sees({"LPAREN"}) /\ Reject
  <2>1. look.type \notin {"LPAREN"}
    BY <1>7 DEF Sees
  <2>2. \A e \in Texts(ruleMode) : StartsWith(e, look) => \A v : ~Rest(f, e, v, ruleMode)
    BY <1>5, <2>1, Refused
  <2> QED
    BY <1>2, <1>3, <1>7, <2>2, RejectsAt
<1> QED
  BY <1>6, <1>7 DEF Open

(* A text that comes when another mark is not seen does not begin with it. *)
LEMMA NotSeen ==
    ASSUME NEW mode, NEW z \in Tokens(mode), NEW e \in Texts(mode), NEW t, StartsWith(e, t), t.type # z.type
    PROVE  e # One(z)
<1>1. One(z) = Cat(One(z), << >>) /\ << >> \in Texts(mode)
  BY TextFacts
<1>2. One(z) # << >> /\ One(z)[1] = z
  BY <1>1, FirstOfCat
<1> QED
  BY <1>2 DEF StartsWith

LEMMA NextTermReads == ASSUME LanguageInv, NextTerm PROVE LanguageStep
<1>1. Waits("parse", "loop") /\ ~Sees({"END", "RPAREN"}) /\ Stay /\ CallTerm(stack)
  BY DEF NextTerm
<1>2. /\ pc = "frame" /\ look \in Tokens(ruleMode) \cup {EndOfInput}
      /\ \E s, f : OnStack(s, f) /\ f.fn = "parse" /\ f.at = "loop"
  BY <1>1, PlaceKnown
<1>3. PICK s, f : OnStack(s, f) /\ f.fn = "parse" /\ f.at = "loop"
  BY <1>2
<1>4. FrameOK(f) /\ IsSeq(f.terms)
  BY <1>3 DEF OnStack
<1>5. RParen \in Tokens(ruleMode) /\ look.type # RParen.type
  BY <1>1, Marks, MarkTypesAre DEF Sees
<1>6. ASSUME NEW e \in Texts(ruleMode), StartsWith(e, look), Len(e) <= MaxTokens, NEW v
      PROVE  Rest(f, e, v, ruleMode) <=> Asked(f, e, v, ruleMode)
  <2>1. Rest(f, e, v, ruleMode) <=> AtLoop(f.name, f.terms, e, v, ruleMode)
    BY <1>3, RestAtPlace
  <2>2. Asked(f, e, v, ruleMode) <=> LoopTold(f.name, f.terms, e, v, ruleMode)
    BY <1>3, <1>4, AskedOfFact
  <2>3. e # One(RParen)
    BY <1>5, <1>6, NotSeen
  <2> QED
    BY <1>4, <1>6, <2>1, <2>2, <2>3, LoopAsked
<1> QED
  BY <1>1, <1>2, <1>3, <1>6, AsksStill

LEMMA SeparatorReads == ASSUME LanguageInv, Separator PROVE LanguageStep
<1>1. Waits("parse", "separator")
  BY DEF Separator
<1>2. /\ pc = "frame" /\ look \in Tokens(ruleMode) \cup {EndOfInput}
      /\ \E s, f : OnStack(s, f) /\ f.fn = "parse" /\ f.at = "separator"
  BY <1>1, PlaceKnown
<1>3. PICK s, f : OnStack(s, f) /\ f.fn = "parse" /\ f.at = "separator"
  BY <1>2
<1>4. FrameOK(f) /\ IsSeq(f.terms) /\ f = Top /\ \A g : SetTop(g) = Append(s, g)
  BY <1>3 DEF OnStack
<1>5. AheadOf(f, {"RPAREN", "COMMA"}, ruleMode)
  BY <1>3, SeparatorBegins
<1> DEFINE g == [f EXCEPT !.at = "loop"]
<1>6. g.fn = "parse" /\ g.name = f.name /\ g.terms = f.terms /\ g.at = "loop"
  BY <1>3, <1>4, MovedFields
<1>7. SetTop([Top EXCEPT !.at = "loop"]) = Append(s, g)
  BY <1>4
<1> HIDE DEF g
<1>8. \A e, v : /\ Rest(f, e, v, ruleMode) <=> AtSeparator(f.name, f.terms, e, v, ruleMode)
                /\ Rest(g, e, v, ruleMode) <=> AtLoop(f.name, f.terms, e, v, ruleMode)
  BY <1>3, <1>6, RestAtPlace
<1>9. CASE Sees({"END", "RPAREN"}) /\ Stay /\ GoOn(SetTop([Top EXCEPT !.at = "loop"]))
  <2>1. /\ Comma \in Tokens(ruleMode) /\ look.type # Comma.type
        /\ look.type \notin FirstTypes
    BY <1>9, Marks, MarkTypesAre DEF Sees, FirstTypes, WordTypes
  <2>2. ASSUME NEW e \in Texts(ruleMode), StartsWith(e, look), Len(e) <= MaxTokens, NEW v
        PROVE  Rest(f, e, v, ruleMode) <=> Rest(g, e, v, ruleMode)
    <3>1. \A d \in Texts(ruleMode) : e # Cat(One(Comma), d)
      BY <2>1, <2>2, FirstOfCat DEF StartsWith
    <3>2. AtSeparator(f.name, f.terms, e, v, ruleMode) <=> e = One(RParen) /\ v = Literal(f.name, f.terms)
      BY <3>1 DEF AtSeparator
    <3>3. ~LoopTold(f.name, f.terms, e, v, ruleMode)
      BY <2>1, <2>2, LoopToldAhead, SeenAhead
    <3> QED
      BY <1>4, <1>8, <2>2, <3>2, <3>3, LoopAsked
  <2> QED
    BY <1>2, <1>3, <1>4, <1>6, <1>7, <1>9, <2>2, MovesStill
<1>10. CASE Sees({"COMMA"}) /\ Advance /\ GoOn(SetTop([Top EXCEPT !.at = "loop"]))
  <2>1. look \in Tokens(ruleMode) /\ look = Comma
    BY <1>2, <1>10, SeenToken, TokenTypes
  <2>2. \A e \in Texts(ruleMode) : \A v :
            Rest(f, Cat(One(look), e), v, ruleMode) <=> Rest(g, e, v, ruleMode)
    <3> TAKE e \in Texts(ruleMode)
    <3> TAKE v
    <3> DEFINE x == Cat(One(look), e)
    <3>1. AtSeparator(f.name, f.terms, x, v, ruleMode) <=> AtLoop(f.name, f.terms, e, v, ruleMode)
      BY <2>1, ReadComma
    <3> HIDE DEF x
    <3>2. Rest(f, x, v, ruleMode) <=> Rest(g, e, v, ruleMode)
      BY <1>8, <3>1
    <3> QED
      BY <3>2 DEF x
  <2>3. NotEmptyAt(f, ruleMode)
    BY <1>5, NotEmptyThere
  <2> QED
    BY <1>2, <1>3, <1>4, <1>6, <1>7, <1>10, <2>1, <2>2, <2>3, MovesOn
<1>11. CASE ~Sees({"END", "RPAREN", "COMMA"}) /\ Reject
  <2>1. look.type \notin {"RPAREN", "COMMA"}
    BY <1>11 DEF Sees
  <2>2. \A e \in Texts(ruleMode) : StartsWith(e, look) => \A v : ~Rest(f, e, v, ruleMode)
    BY <1>5, <2>1, Refused
  <2> QED
    BY <1>2, <1>3, <1>11, <2>2, RejectsAt
<1> QED
  BY <1>9, <1>10, <1>11 DEF Separator

LEMMA EndedStack ==
    ASSUME stack' = << >>, Ended'
    PROVE  TermsInOrder(stack)' /\ EntryKnown'
<1>1. Len(<< >>) = 0
  BY EmptySeq
<1> QED
  BY <1>1 DEF EntryKnown, TermsInOrder

LEMMA CloseReads == ASSUME LanguageInv, Close PROVE LanguageStep
<1>1. Waits("parse", "loop")
  BY DEF Close
<1>2. /\ pc = "frame" /\ Len(stack) = 1 /\ look \in Tokens(ruleMode) \cup {EndOfInput}
      /\ \E s, f : OnStack(s, f) /\ f.fn = "parse" /\ f.at = "loop"
  BY <1>1, PlaceKnown
<1>3. PICK s, f : OnStack(s, f) /\ f.fn = "parse" /\ f.at = "loop"
  BY <1>2
<1>4. /\ FrameOK(f) /\ IsSeq(f.terms) /\ f = Top /\ IsSeq(s) /\ Len(s) \in Nat
      /\ Len(stack) = Len(s) + 1 /\ stack = Append(s, f) /\ \A i \in 1..Len(s) : FrameOK(s[i]) /\ IsSeq(s[i].terms)
  BY <1>3 DEF OnStack
<1>5. AheadOf(f, FirstTypes \cup {"RPAREN"}, ruleMode)
  BY <1>3, <1>4, LoopBegins
<1>6. ASSUME Sees({"RPAREN"}), Advance, pc' = "accepted", stack' = << >>, fact' = Literal(Top.name, Top.terms),
             UNCHANGED <<ruleMode, entry, term>>
      PROVE  LanguageStep
  <2>1. look \in Tokens(ruleMode) /\ look = RParen
    BY <1>2, <1>6, SeenToken, TokenTypes
  <2>2. s = << >>
    <3>1. Len(s) = 0
      BY <1>2, <1>4
    <3>2. PICK S : s \in Seq(S)
      BY <1>4 DEF IsSeq
    <3> QED
      BY <3>1, <3>2, EmptySeq
  <2>3. entry = "parse"
    <3>1. ReadsFact(Append(s, f))
      BY <1>3, <1>4, PushedStack
    <3> QED
      BY <1>2, <1>4, <3>1 DEF LanguageInv, EntryKnown, Ended
  <2> DEFINE t == Literal(f.name, f.terms)
  <2>4. Result' = t
    BY <1>4, <1>6, <2>3 DEF Result
  <2> HIDE DEF t
  <2>5. \A w \in Texts(ruleMode) : \A r : PlanNow(w, r)' <=> Plan("given", t, s, w, r, ruleMode)
    BY <1>6, <2>2, <2>4, PlanNextAccepted
  <2>6. \A w \in Texts(ruleMode) : \A r : PlanNow(w, r) <=> Plan("frame", f, s, w, r, ruleMode)
    BY <1>2, <1>3, PlanAtFrame
  <2>7. \A e, v : /\ Way("frame", f, e, v, ruleMode) <=> Rest(f, e, v, ruleMode)
                  /\ Way("given", t, e, v, ruleMode) <=> e = << >> /\ v = t
    BY DEF Way
  <2>8. \A v : ~Way("frame", f, << >>, v, ruleMode)
    BY <1>5, <2>7, NotEmptyThere DEF NotEmptyAt
  <2>9. \A e \in Texts(ruleMode) : \A v :
            Way("frame", f, Cat(One(look), e), v, ruleMode) <=> Way("given", t, e, v, ruleMode)
    <3> TAKE e \in Texts(ruleMode)
    <3> TAKE v
    <3> DEFINE x == Cat(One(look), e)
    <3>1. AtLoop(f.name, f.terms, x, v, ruleMode) <=> e = << >> /\ v = Literal(f.name, f.terms)
      BY <1>4, <2>1, LoopClosed
    <3> HIDE DEF x
    <3>2. Rest(f, x, v, ruleMode) <=> e = << >> /\ v = t
      BY <1>3, <3>1, RestAtPlace DEF t
    <3>3. Way("frame", f, x, v, ruleMode) <=> Way("given", t, e, v, ruleMode)
      BY <2>7, <3>2
    <3> QED
      BY <3>3 DEF x
  <2>10. InputOK /\ ReadsOn
    BY <1>2 DEF LanguageInv, ParserInv
  <2>11. ReadsOn'
    BY <1>4, <1>6, <2>1, <2>5, <2>6, <2>8, <2>9, <2>10, AdvancesTo
  <2>12. TermsInOrder(stack)' /\ EntryKnown'
    BY <1>6, EndedStack DEF Ended
  <2> QED
    BY <2>11, <2>12 DEF LanguageStep
<1>7. CASE Sees({"END"}) /\ Reject
  <2>1. look.type \notin FirstTypes \cup {"RPAREN"}
    BY <1>7 DEF Sees, FirstTypes, WordTypes
  <2>2. \A e \in Texts(ruleMode) : StartsWith(e, look) => \A v : ~Rest(f, e, v, ruleMode)
    BY <1>5, <2>1, Refused
  <2> QED
    BY <1>2, <1>3, <1>7, <2>2, RejectsAt
<1> QED
  BY <1>6, <1>7 DEF Close

--------------------------------------------------------------------------------
(* Terms *)

LEMMA StackShape ==
    ASSUME LanguageInv
    PROVE  /\ IsSeq(stack) /\ Len(stack) \in Nat
           /\ \A i \in 1..Len(stack) : FrameOK(stack[i]) /\ IsSeq(stack[i].terms)
<1>1. WellNested(stack) /\ TermsInOrder(stack)
  BY DEF LanguageInv, ParserInv, ControlOK
<1>2. PICK S : stack \in Seq(S)
  BY <1>1 DEF WellNested
<1>3. Len(stack) \in Nat /\ DOMAIN stack = 1..Len(stack)
  BY <1>2, LenProperties
<1> QED
  BY <1>1, <1>2, <1>3 DEF WellNested, TermsInOrder, IsSeq

LEMMA NoTextIsTerm == ASSUME NEW mode, NEW v PROVE ~IsTerm(<< >>, v, mode)
<1>1. ~Begins(<< >>, FirstTypes, mode)
  BY TextFacts, BeginsOnce
<1> QED
  BY <1>1, TermBegins

LEMMA BeginsActivation ==
    ASSUME NEW fn, NEW name, NEW at
    PROVE  LET g == Frame(fn, name, at)
           IN  g.fn = fn /\ g.name = name /\ g.terms = << >> /\ g.at = at
BY DEF Frame

(* A term begins with an activation of its own. *)
LEMMA TermDescends ==
    ASSUME LanguageInv, pc = "term", NEW g, GoOn(Append(stack, g)), Advance, look \in Tokens(ruleMode),
           g.fn # "parse", g.terms = << >>,
           \A e \in Texts(ruleMode) : Len(Cat(One(look), e)) <= MaxTokens =>
               \A v : IsTerm(Cat(One(look), e), v, ruleMode) <=> Rest(g, e, v, ruleMode)
    PROVE  LanguageStep
<1>1. InputOK /\ ReadsOn /\ EntryKnown /\ ~Ended
  BY DEF LanguageInv, ParserInv, Ended
<1>2. pc' = "frame" /\ stack' = Append(stack, g) /\ ruleMode' = ruleMode /\ entry' = entry
  BY DEF GoOn
<1>3. /\ IsSeq(stack) /\ Len(stack) \in Nat
      /\ \A i \in 1..Len(stack) : FrameOK(stack[i]) /\ IsSeq(stack[i].terms)
  BY StackShape
<1>4. \A h, e, v : /\ Way("term", h, e, v, ruleMode) <=> IsTerm(e, v, ruleMode)
                   /\ Way("frame", h, e, v, ruleMode) <=> Rest(h, e, v, ruleMode)
  BY DEF Way
<1>5. \A w \in Texts(ruleMode) : \A r : PlanNow(w, r) <=> Plan("term", NoTerm, stack, w, r, ruleMode)
  BY PlanAtTerm
<1>6. \A w \in Texts(ruleMode) : \A r : PlanNow(w, r)' <=> Plan("frame", g, stack, w, r, ruleMode)
  BY <1>2, <1>3, PlanNextFrame
<1>7. \A v : ~Way("term", NoTerm, << >>, v, ruleMode)
  BY <1>4, NoTextIsTerm
<1>8. \A e \in Texts(ruleMode) : Len(Cat(One(look), e)) <= MaxTokens =>
          \A v : Way("term", NoTerm, Cat(One(look), e), v, ruleMode) <=> Way("frame", g, e, v, ruleMode)
  BY <1>4
<1>9. ReadsOn'
  BY <1>1, <1>2, <1>3, <1>5, <1>6, <1>7, <1>8, AdvancesTo
<1>10. TermsInOrder(Append(stack, g)) /\ (ReadsFact(Append(stack, g)) <=> ReadsFact(stack) \/ g.fn = "parse")
  <2>1. IsSeq(g.terms)
    BY TextFacts, TextsAreSeqs
  <2> QED
    BY <1>3, <2>1, PushedStack
<1>11. TermsInOrder(stack') /\ EntryKnown'
  BY <1>1, <1>2, <1>10 DEF EntryKnown
<1> QED
  BY <1>9, <1>11 DEF LanguageStep

LEMMA TermIsAtom ==
    ASSUME LanguageInv, pc = "term", Sees({"VARIABLE", "NUMBER"}), Advance, ReturnTerm(stack, Atomic)
    PROVE  LanguageStep
<1> DEFINE t == Atomic
<1>1. InputOK /\ ReadsOn /\ EntryKnown /\ ~Ended /\ TermsInOrder(stack)
  BY DEF LanguageInv, ParserInv, Ended
<1>2. pc' = "return" /\ stack' = stack /\ term' = t /\ ruleMode' = ruleMode /\ entry' = entry
  BY DEF ReturnTerm
<1>3. /\ Len(stack) \in Nat /\ \A i \in 1..Len(stack) : FrameOK(stack[i])
  BY StackShape
<1>4. look \in Tokens(ruleMode) /\ look.type \in {"VARIABLE", "NUMBER"}
  BY <1>1, SeenToken DEF InputOK
<1>5. t = (IF look.type = "NUMBER" THEN Number(look.value) ELSE Variable(look.value))
  BY DEF Atomic
<1> HIDE DEF t
<1>6. \A h, e, v : /\ Way("term", h, e, v, ruleMode) <=> IsTerm(e, v, ruleMode)
                   /\ Way("given", h, e, v, ruleMode) <=> e = << >> /\ v = h
  BY DEF Way
<1>7. \A w \in Texts(ruleMode) : \A r : PlanNow(w, r) <=> Plan("term", NoTerm, stack, w, r, ruleMode)
  BY PlanAtTerm
<1>8. \A w \in Texts(ruleMode) : \A r : PlanNow(w, r)' <=> Plan("given", t, stack, w, r, ruleMode)
  BY <1>2, PlanNextReturn
<1>9. \A v : ~Way("term", NoTerm, << >>, v, ruleMode)
  BY <1>6, NoTextIsTerm
<1>10. \A e \in Texts(ruleMode) : Len(Cat(One(look), e)) <= MaxTokens =>
          \A v : Way("term", NoTerm, Cat(One(look), e), v, ruleMode) <=> Way("given", t, e, v, ruleMode)
  BY <1>4, <1>5, <1>6, ReadAtom
<1>11. ReadsOn'
  BY <1>1, <1>2, <1>3, <1>4, <1>7, <1>8, <1>9, <1>10, AdvancesTo
<1>12. TermsInOrder(stack)' /\ EntryKnown'
  BY <1>1, <1>2 DEF EntryKnown, TermsInOrder
<1> QED
  BY <1>11, <1>12 DEF LanguageStep

LEMMA TermReads == ASSUME LanguageInv, Term PROVE LanguageStep
<1>1. pc = "term"
  BY DEF Term
<1>2. InputOK /\ ReadsOn /\ look \in Tokens(ruleMode) \cup {EndOfInput}
  BY <1>1 DEF LanguageInv, ParserInv, InputOK
<1>3. ASSUME Sees({"LBRACKET"}), Advance, GoOn(Append(stack, Frame("parseList", EmptyText, "first")))
      PROVE  LanguageStep
  <2> DEFINE g == Frame("parseList", EmptyText, "first")
  <2>1. g.fn = "parseList" /\ g.terms = << >> /\ g.at = "first"
    BY BeginsActivation
  <2>2. GoOn(Append(stack, g))
    BY <1>3
  <2>3. look \in Tokens(ruleMode) /\ look = LBracket
    BY <1>2, <1>3, SeenToken, TokenTypes
  <2> HIDE DEF g
  <2>4. \A e, v : Rest(g, e, v, ruleMode) <=> AtListFirst(<< >>, e, v, ruleMode)
    BY <2>1, RestAtPlace
  <2>5. \A e \in Texts(ruleMode) : Len(Cat(One(look), e)) <= MaxTokens =>
            \A v : IsTerm(Cat(One(look), e), v, ruleMode) <=> Rest(g, e, v, ruleMode)
    BY <2>3, <2>4, ReadBracket
  <2> QED
    BY <1>1, <1>3, <2>1, <2>2, <2>3, <2>5, TermDescends
<1>4. CASE Sees({"VARIABLE", "NUMBER"}) /\ Advance /\ ReturnTerm(stack, Atomic)
  BY <1>1, <1>4, TermIsAtom
<1>5. ASSUME Sees({"IDENTIFIER"}), Advance,
             GoOn(Append(stack, Frame("parseCompoundOrAtom", look.value, "name")))
      PROVE  LanguageStep
  <2> DEFINE g == Frame("parseCompoundOrAtom", look.value, "name")
  <2>1. g.fn = "parseCompoundOrAtom" /\ g.name = look.value /\ g.terms = << >> /\ g.at = "name"
    BY BeginsActivation
  <2>2. GoOn(Append(stack, g))
    BY <1>5
  <2>3. look \in Tokens(ruleMode) /\ look.type = "IDENTIFIER"
    BY <1>2, <1>5, SeenToken
  <2> HIDE DEF g
  <2>4. \A e, v : Rest(g, e, v, ruleMode) <=> AtName(look.value, << >>, e, v, ruleMode)
    BY <2>1, RestAtPlace
  <2>5. \A e \in Texts(ruleMode) : Len(Cat(One(look), e)) <= MaxTokens =>
            \A v : IsTerm(Cat(One(look), e), v, ruleMode) <=> Rest(g, e, v, ruleMode)
    BY <2>3, <2>4, ReadIdentifier
  <2> QED
    BY <1>1, <1>5, <2>1, <2>2, <2>3, <2>5, TermDescends
<1>6. ASSUME ~Sees({"LBRACKET", "VARIABLE", "NUMBER", "IDENTIFIER"}), Reject
      PROVE  LanguageStep
  <2>1. look.type \notin FirstTypes
    BY <1>6 DEF Sees, FirstTypes, WordTypes
  <2>2. \A h, e, v : Way("term", h, e, v, ruleMode) <=> IsTerm(e, v, ruleMode)
    BY DEF Way
  <2>3. \A e \in Texts(ruleMode) : StartsWith(e, look) /\ Len(e) <= MaxTokens =>
            \A v : ~Way("term", NoTerm, e, v, ruleMode)
    BY <2>1, <2>2, TermBegins, SeenAhead
  <2>4. \A w \in Texts(ruleMode) : \A r : PlanNow(w, r) <=> Plan("term", NoTerm, stack, w, r, ruleMode)
    BY <1>1, PlanAtTerm
  <2>5. ReadsOn'
    BY <1>2, <1>6, <2>3, <2>4, StopsAt
  <2> QED
    BY <1>6, <2>5, RejectedStack DEF LanguageStep
<1> QED
  BY <1>3, <1>4, <1>5, <1>6 DEF Term

LEMMA TermParsedReads == ASSUME LanguageInv, TermParsed PROVE LanguageStep
<1>1. /\ pc = "return" /\ stack = << >> /\ pc' = "accepted" /\ stack' = << >> /\ Stay
      /\ ruleMode' = ruleMode /\ entry' = entry /\ term' = term /\ fact' = fact
  BY DEF TermParsed, Stay
<1>2. InputOK /\ ReadsOn /\ EntryKnown /\ ~Ended
  BY <1>1 DEF LanguageInv, ParserInv, Ended
<1>3. ~ReadsFact(<< >>)
  <2>1. Len(<< >>) = 0
    BY EmptySeq
  <2> QED
    BY <2>1 DEF ReadsFact
<1>4. entry # "parse"
  BY <1>1, <1>2, <1>3 DEF EntryKnown
<1>5. Result' = term
  BY <1>1, <1>4 DEF Result
<1>6. \A w \in Texts(ruleMode) : \A r : PlanNow(w, r) <=> Plan("given", term, << >>, w, r, ruleMode)
  BY <1>1, PlanAtReturn
<1>7. \A w \in Texts(ruleMode) : \A r : PlanNow(w, r)' <=> Plan("given", term, << >>, w, r, ruleMode)
  BY <1>1, <1>5, PlanNextAccepted
<1>8. ReadsOn'
  BY <1>1, <1>2, <1>6, <1>7, ReadsOnStayed
<1>9. TermsInOrder(stack)' /\ EntryKnown'
  BY <1>1, EndedStack DEF Ended
<1> QED
  BY <1>8, <1>9 DEF LanguageStep

LEMMA ReturnedReads == ASSUME LanguageInv, Returned PROVE LanguageStep
<1>1. pc = "return" /\ stack # << >> /\ Stay
  BY DEF Returned
<1>2. InputOK /\ ReadsOn /\ EntryKnown /\ ~Ended /\ ParserInv /\ TermsInOrder(stack)
  BY <1>1 DEF LanguageInv, ParserInv, Ended
<1>3. PICK s, f : OnStack(s, f)
  BY <1>1, <1>2, TopAndBelow
<1>4. /\ FrameOK(f) /\ IsSeq(f.terms) /\ f = Top /\ IsSeq(s) /\ stack = Append(s, f)
      /\ \A h : SetTop(h) = Append(s, h)
  BY <1>3 DEF OnStack
<1> DEFINE g == GivenFrame(f, term)
<1>5. GoOn(Append(s, g))
  BY <1>4 DEF Returned, GivenFrame
<1>6. g.fn = f.fn /\ IsSeq(g.terms)
  <2>1. IsSeq(Append(f.terms, term))
    BY <1>4, AppendIsCat
  <2> HIDE DEF g
  <2>2. CASE f.at = "tail"
    BY <1>4, <2>2, GivenTail DEF g
  <2>3. CASE f.at # "tail"
    BY <1>4, <2>1, <2>3, GivenElement DEF g
  <2> QED
    BY <2>2, <2>3
<1>7. \A w \in Texts(ruleMode) : \A r :
          Plan("given", term, Append(s, f), w, r, ruleMode) <=> Plan("frame", g, s, w, r, ruleMode)
  BY <1>4, PlanOfGiven
<1> HIDE DEF g
<1>8. pc' = "frame" /\ stack' = Append(s, g) /\ ruleMode' = ruleMode /\ entry' = entry
  BY <1>5 DEF GoOn
<1>9. \A w \in Texts(ruleMode) : \A r : PlanNow(w, r) <=> Plan("given", term, Append(s, f), w, r, ruleMode)
  BY <1>1, <1>4, PlanAtReturn
<1>10. \A w \in Texts(ruleMode) : \A r : PlanNow(w, r)' <=> Plan("frame", g, s, w, r, ruleMode)
  BY <1>4, <1>8, PlanNextFrame
<1>11. ReadsOn'
  BY <1>1, <1>2, <1>7, <1>8, <1>9, <1>10, ReadsOnStayed
<1>12. TermsInOrder(stack)' /\ EntryKnown'
  BY <1>2, <1>3, <1>6, <1>8, StackKnown
<1> QED
  BY <1>11, <1>12 DEF LanguageStep

--------------------------------------------------------------------------------
(* Lists *)

LEMMA FirstElementAsked ==
    ASSUME NEW f, FrameOK(f), IsSeq(f.terms), f.fn = "parseList", f.at # "tail",
           NEW mode, NEW e \in Texts(mode), Len(e) <= MaxTokens, NEW v
    PROVE  Asked(f, e, v, mode) <=> AtInner(f.terms, e, v, mode)
BY AskedOfList, InnerAsked

LEMMA FirstArgumentAsked ==
    ASSUME NEW f, FrameOK(f), IsSeq(f.terms), f.fn = "parseCompoundOrAtom",
           NEW mode, NEW e \in Texts(mode), Len(e) <= MaxTokens, NEW v
    PROVE  Asked(f, e, v, mode) <=> AtItems(f.name, f.terms, e, v, mode)
BY AskedOfCompound, ItemsAsked

LEMMA ShorterText ==
    ASSUME NEW mode, NEW a \in Tokens(mode), NEW e \in Texts(mode), Len(Cat(One(a), e)) <= MaxTokens
    PROVE  Len(e) <= MaxTokens
<1>1. One(a) \in Texts(mode)
  BY OneInTexts
<1> QED
  BY <1>1, PartLength

LEMMA EmptyBracketsReads == ASSUME LanguageInv, EmptyBrackets PROVE LanguageStep
<1>1. Waits("parseList", "first")
  BY DEF EmptyBrackets
<1>2. /\ pc = "frame" /\ look \in Tokens(ruleMode) \cup {EndOfInput}
      /\ \E s, f : OnStack(s, f) /\ f.fn = "parseList" /\ f.at = "first"
  BY <1>1, PlaceKnown
<1>3. PICK s, f : OnStack(s, f) /\ f.fn = "parseList" /\ f.at = "first"
  BY <1>2
<1>4. FrameOK(f) /\ IsSeq(f.terms) /\ f = Top /\ s = Popped
  BY <1>3 DEF OnStack
<1>5. NotEmptyAt(f, ruleMode)
  BY <1>3, ListFirstBegins, NotEmptyThere
<1>6. \A e, v : Rest(f, e, v, ruleMode) <=> AtListFirst(f.terms, e, v, ruleMode)
  BY <1>3, RestAtPlace
<1>7. CASE Sees({"RBRACKET"}) /\ Advance /\ ReturnTerm(Popped, EmptyList)
  <2>1. look \in Tokens(ruleMode) /\ look = RBracket
    BY <1>2, <1>7, SeenToken, TokenTypes
  <2>2. \A e \in Texts(ruleMode) : \A v :
            Rest(f, Cat(One(look), e), v, ruleMode) <=> e = << >> /\ v = EmptyList
    <3>1. ASSUME NEW e \in Texts(ruleMode), NEW v
          PROVE  AtListFirst(f.terms, Cat(One(look), e), v, ruleMode) <=> e = << >> /\ v = EmptyList
      <4>1. AtListFirst(f.terms, Cat(One(RBracket), e), v, ruleMode) <=> e = << >> /\ v = EmptyList
        BY NoElementsRead
      <4> QED
        BY <2>1, <4>1
    <3> QED
      BY <1>6, <3>1
  <2>3. ReturnTerm(s, EmptyList) /\ f.fn # "parse"
    BY <1>3, <1>4, <1>7
  <2> QED
    BY <1>2, <1>3, <1>5, <1>7, <2>1, <2>2, <2>3, ReturnsOn
<1>8. CASE ~Sees({"RBRACKET"}) /\ Stay /\ CallTerm(stack)
  <2>1. RBracket \in Tokens(ruleMode) /\ look.type # RBracket.type
    BY <1>8, Marks, MarkTypesAre DEF Sees
  <2>2. ASSUME NEW e \in Texts(ruleMode), StartsWith(e, look), Len(e) <= MaxTokens, NEW v
        PROVE  Rest(f, e, v, ruleMode) <=> Asked(f, e, v, ruleMode)
    <3>1. e # One(RBracket)
      BY <2>1, <2>2, NotSeen
    <3>2. AtListFirst(f.terms, e, v, ruleMode) <=> AtInner(f.terms, e, v, ruleMode)
      BY <3>1 DEF AtListFirst
    <3>3. Asked(f, e, v, ruleMode) <=> AtInner(f.terms, e, v, ruleMode)
      BY <1>3, <1>4, <2>2, FirstElementAsked
    <3> QED
      BY <1>6, <3>2, <3>3
  <2> QED
    BY <1>2, <1>3, <1>8, <2>2, AsksStill
<1> QED
  BY <1>7, <1>8 DEF EmptyBrackets

LEMMA ListRestReads == ASSUME LanguageInv, ListRest PROVE LanguageStep
<1>1. Waits("parseList", "rest")
  BY DEF ListRest
<1>2. /\ pc = "frame" /\ look \in Tokens(ruleMode) \cup {EndOfInput}
      /\ \E s, f : OnStack(s, f) /\ f.fn = "parseList" /\ f.at = "rest"
  BY <1>1, PlaceKnown
<1>3. PICK s, f : OnStack(s, f) /\ f.fn = "parseList" /\ f.at = "rest"
  BY <1>2
<1>4. /\ FrameOK(f) /\ IsSeq(f.terms) /\ f = Top /\ s = Popped /\ stack = Append(s, f)
      /\ \A g : SetTop(g) = Append(s, g)
  BY <1>3 DEF OnStack
<1>5. AheadOf(f, {"RBRACKET", "COMMA", "PIPE"}, ruleMode) /\ NotEmptyAt(f, ruleMode)
  BY <1>3, ListRestBegins, NotEmptyThere
<1>6. \A e, v : Rest(f, e, v, ruleMode) <=> AtListRest(f.terms, e, v, ruleMode)
  BY <1>3, RestAtPlace
<1>7. CASE Sees({"COMMA"}) /\ Advance /\ CallTerm(stack)
  <2>1. look \in Tokens(ruleMode) /\ look = Comma
    BY <1>2, <1>7, SeenToken, TokenTypes
  <2>2. ASSUME NEW e \in Texts(ruleMode), Len(Cat(One(look), e)) <= MaxTokens, NEW v
        PROVE  Rest(f, Cat(One(look), e), v, ruleMode) <=> Asked(f, e, v, ruleMode)
    <3>1. Len(e) <= MaxTokens
      BY <2>1, <2>2, ShorterText
    <3>2. Asked(f, e, v, ruleMode) <=> AtInner(f.terms, e, v, ruleMode)
      BY <1>3, <1>4, <3>1, FirstElementAsked
    <3>3. AtListRest(f.terms, Cat(One(look), e), v, ruleMode) <=> AtInner(f.terms, e, v, ruleMode)
      BY <2>1, ReadComma
    <3> QED
      BY <1>6, <3>2, <3>3
  <2>3. CallTerm(Append(s, f))
    BY <1>4, <1>7
  <2> QED
    BY <1>2, <1>3, <1>4, <1>5, <1>7, <2>1, <2>2, <2>3, AsksOn
<1>8. CASE Sees({"PIPE"}) /\ Advance /\ CallTerm(SetTop([Top EXCEPT !.at = "tail"]))
  <2> DEFINE g == [f EXCEPT !.at = "tail"]
  <2>1. look \in Tokens(ruleMode) /\ look = Pipe
    BY <1>2, <1>8, SeenToken, TokenTypes
  <2>2. CallTerm(Append(s, g))
    BY <1>4, <1>8
  <2>3. g.fn = "parseList" /\ g.terms = f.terms /\ g.at = "tail"
    BY <1>3, <1>4, MovedFields
  <2>4. FrameOK(g)
    <3>1. "tail" \in Places[f.fn] /\ "tail" # "end"
      BY <1>3, PlacesAndCalls
    <3> QED
      BY <1>4, <3>1, FrameMoved
  <2> HIDE DEF g
  <2>5. ASSUME NEW e \in Texts(ruleMode), NEW v
        PROVE  Rest(f, Cat(One(look), e), v, ruleMode) <=> Asked(g, e, v, ruleMode)
    <3>1. Asked(g, e, v, ruleMode) <=> AtTail(f.terms, e, v, ruleMode)
      BY <2>3, <2>4, AskedOfTail
    <3>2. AtListRest(f.terms, Cat(One(look), e), v, ruleMode) <=> AtTail(f.terms, e, v, ruleMode)
      BY <2>1, ReadPipe
    <3> QED
      BY <1>6, <3>1, <3>2
  <2> QED
    BY <1>2, <1>3, <1>4, <1>5, <1>8, <2>1, <2>2, <2>3, <2>5, AsksOn
<1>9. CASE Sees({"RBRACKET"}) /\ Advance /\ ReturnTerm(Popped, ListOf(Top.terms, EmptyList))
  <2> DEFINE t == ListOf(f.terms, EmptyList)
  <2>1. look \in Tokens(ruleMode) /\ look = RBracket
    BY <1>2, <1>9, SeenToken, TokenTypes
  <2>2. \A e \in Texts(ruleMode) : \A v :
            Rest(f, Cat(One(look), e), v, ruleMode) <=> e = << >> /\ v = t
    BY <1>6, <2>1, ListClosed
  <2>3. ReturnTerm(s, t) /\ f.fn # "parse"
    BY <1>3, <1>4, <1>9
  <2> HIDE DEF t
  <2> QED
    BY <1>2, <1>3, <1>5, <1>9, <2>1, <2>2, <2>3, ReturnsOn
<1>10. CASE ~Sees({"COMMA", "PIPE", "RBRACKET"}) /\ Reject
  <2>1. look.type \notin {"RBRACKET", "COMMA", "PIPE"}
    BY <1>10 DEF Sees
  <2>2. \A e \in Texts(ruleMode) : StartsWith(e, look) => \A v : ~Rest(f, e, v, ruleMode)
    BY <1>5, <2>1, Refused
  <2> QED
    BY <1>2, <1>3, <1>10, <2>2, RejectsAt
<1> QED
  BY <1>7, <1>8, <1>9, <1>10 DEF ListRest

LEMMA ListEndReads == ASSUME LanguageInv, ListEnd PROVE LanguageStep
<1>1. Waits("parseList", "end")
  BY DEF ListEnd
<1>2. /\ pc = "frame" /\ look \in Tokens(ruleMode) \cup {EndOfInput}
      /\ \E s, f : OnStack(s, f) /\ f.fn = "parseList" /\ f.at = "end"
  BY <1>1, PlaceKnown
<1>3. PICK s, f : OnStack(s, f) /\ f.fn = "parseList" /\ f.at = "end"
  BY <1>2
<1>4. FrameOK(f) /\ IsSeq(f.terms) /\ f = Top /\ s = Popped
  BY <1>3 DEF OnStack
<1>5. AheadOf(f, {"RBRACKET"}, ruleMode) /\ NotEmptyAt(f, ruleMode)
  BY <1>3, ListEndBegins, NotEmptyThere
<1> DEFINE t == ListOf(f.terms, f.tail[1])
<1>6. \A e, v : Rest(f, e, v, ruleMode) <=> e = One(RBracket) /\ v = t
  BY <1>3, RestAtPlace
<1>7. CASE Sees({"RBRACKET"}) /\ Advance /\ ReturnTerm(Popped, ListOf(Top.terms, Top.tail[1]))
  <2>1. look \in Tokens(ruleMode) /\ look = RBracket
    BY <1>2, <1>7, SeenToken, TokenTypes
  <2>2. ReturnTerm(s, t) /\ f.fn # "parse"
    BY <1>3, <1>4, <1>7
  <2> HIDE DEF t
  <2>3. \A e \in Texts(ruleMode) : Cat(One(look), e) = One(RBracket) <=> e = << >>
    BY <2>1, RBracketAlone
  <2>4. \A e \in Texts(ruleMode) : \A v :
            Rest(f, Cat(One(look), e), v, ruleMode) <=> e = << >> /\ v = t
    BY <1>6, <2>3
  <2> QED
    BY <1>2, <1>3, <1>5, <1>7, <2>1, <2>2, <2>4, ReturnsOn
<1>8. CASE ~Sees({"RBRACKET"}) /\ Reject
  <2>1. look.type \notin {"RBRACKET"}
    BY <1>8 DEF Sees
  <2>2. \A e \in Texts(ruleMode) : StartsWith(e, look) => \A v : ~Rest(f, e, v, ruleMode)
    BY <1>5, <2>1, Refused
  <2> QED
    BY <1>2, <1>3, <1>8, <2>2, RejectsAt
<1> QED
  BY <1>7, <1>8 DEF ListEnd

--------------------------------------------------------------------------------
(* Names and compounds *)

LEMMA NameReads == ASSUME LanguageInv, Name PROVE LanguageStep
<1>1. Waits("parseCompoundOrAtom", "name")
  BY DEF Name
<1>2. /\ pc = "frame" /\ look \in Tokens(ruleMode) \cup {EndOfInput}
      /\ \E s, f : OnStack(s, f) /\ f.fn = "parseCompoundOrAtom" /\ f.at = "name"
  BY <1>1, PlaceKnown
<1>3. PICK s, f : OnStack(s, f) /\ f.fn = "parseCompoundOrAtom" /\ f.at = "name"
  BY <1>2
<1>4. /\ FrameOK(f) /\ IsSeq(f.terms) /\ f = Top /\ s = Popped
      /\ \A g : SetTop(g) = Append(s, g)
  BY <1>3 DEF OnStack
<1>5. \A e, v : Rest(f, e, v, ruleMode) <=> AtName(f.name, f.terms, e, v, ruleMode)
  BY <1>3, RestAtPlace
<1>6. CASE Sees({"LPAREN"}) /\ Advance /\ GoOn(SetTop([Top EXCEPT !.at = "first"]))
  <2> DEFINE g == [f EXCEPT !.at = "first"]
  <2>1. look \in Tokens(ruleMode) /\ look = LParen /\ look.type \notin AfterTypes
    BY <1>2, <1>6, SeenToken, TokenTypes, MarkTypesAre DEF AfterTypes
  <2>2. GoOn(Append(s, g))
    BY <1>4, <1>6
  <2>3. g.fn = "parseCompoundOrAtom" /\ g.name = f.name /\ g.terms = f.terms /\ g.at = "first"
    BY <1>3, <1>4, MovedFields
  <2> HIDE DEF g
  <2>4. \A e, v : Rest(g, e, v, ruleMode) <=> AtArgsFirst(f.name, f.terms, e, v, ruleMode)
    BY <2>3, RestAtPlace
  <2>5. \A e \in Texts(ruleMode) : \A v :
            AtName(f.name, f.terms, Cat(One(look), e), v, ruleMode) <=> AtArgsFirst(f.name, f.terms, e, v, ruleMode)
    BY <2>1, ReadName
  <2>6. \A e \in Texts(ruleMode) : \A v :
            Rest(f, Cat(One(look), e), v, ruleMode) <=> Rest(g, e, v, ruleMode)
    BY <1>5, <2>4, <2>5
  <2> QED
    BY <1>2, <1>3, <1>4, <1>6, <2>1, <2>2, <2>3, <2>6, MovesOn
<1>7. CASE ~Sees({"LPAREN"}) /\ Stay /\ ReturnTerm(Popped, Constant(Top.name))
  <2> DEFINE t == Constant(f.name)
  <2>1. look.type # "LPAREN"
    BY <1>7 DEF Sees
  <2>2. \A e \in Texts(ruleMode) : StartsWith(e, look) =>
            \A v : Rest(f, e, v, ruleMode) <=> e = << >> /\ v = t
    BY <1>5, <2>1, NameAlone
  <2>3. ReturnTerm(s, t) /\ f.fn # "parse"
    BY <1>3, <1>4, <1>7
  <2> HIDE DEF t
  <2> QED
    BY <1>2, <1>3, <1>7, <2>2, <2>3, ReturnsStill
<1> QED
  BY <1>6, <1>7 DEF Name

LEMMA FirstArgumentReads == ASSUME LanguageInv, FirstArgument PROVE LanguageStep
<1>1. Waits("parseCompoundOrAtom", "first")
  BY DEF FirstArgument
<1>2. /\ pc = "frame" /\ look \in Tokens(ruleMode) \cup {EndOfInput}
      /\ \E s, f : OnStack(s, f) /\ f.fn = "parseCompoundOrAtom" /\ f.at = "first"
  BY <1>1, PlaceKnown
<1>3. PICK s, f : OnStack(s, f) /\ f.fn = "parseCompoundOrAtom" /\ f.at = "first"
  BY <1>2
<1>4. FrameOK(f) /\ IsSeq(f.terms) /\ f = Top /\ s = Popped
  BY <1>3 DEF OnStack
<1>5. NotEmptyAt(f, ruleMode)
  BY <1>3, ArgsFirstBegins, NotEmptyThere
<1>6. \A e, v : Rest(f, e, v, ruleMode) <=> AtArgsFirst(f.name, f.terms, e, v, ruleMode)
  BY <1>3, RestAtPlace
<1>7. CASE Sees({"RPAREN"}) /\ Advance /\ ReturnTerm(Popped, Compound(Top.name, << >>))
  <2> DEFINE t == Compound(f.name, << >>)
  <2>1. look \in Tokens(ruleMode) /\ look = RParen
    BY <1>2, <1>7, SeenToken, TokenTypes
  <2>2. \A e \in Texts(ruleMode) : \A v :
            Rest(f, Cat(One(look), e), v, ruleMode) <=> e = << >> /\ v = t
    <3>1. ASSUME NEW e \in Texts(ruleMode), NEW v
          PROVE  AtArgsFirst(f.name, f.terms, Cat(One(look), e), v, ruleMode) <=> e = << >> /\ v = t
      <4>1. AtArgsFirst(f.name, f.terms, Cat(One(RParen), e), v, ruleMode) <=> e = << >> /\ v = t
        BY <1>4, NoArgumentsRead
      <4> QED
        BY <2>1, <4>1
    <3> HIDE DEF t
    <3> QED
      BY <1>6, <3>1
  <2>3. ReturnTerm(s, t) /\ f.fn # "parse"
    BY <1>3, <1>4, <1>7
  <2> HIDE DEF t
  <2> QED
    BY <1>2, <1>3, <1>5, <1>7, <2>1, <2>2, <2>3, ReturnsOn
<1>8. CASE ~Sees({"RPAREN"}) /\ Stay /\ CallTerm(stack)
  <2>1. RParen \in Tokens(ruleMode) /\ look.type # RParen.type
    BY <1>8, Marks, MarkTypesAre DEF Sees
  <2>2. ASSUME NEW e \in Texts(ruleMode), StartsWith(e, look), Len(e) <= MaxTokens, NEW v
        PROVE  Rest(f, e, v, ruleMode) <=> Asked(f, e, v, ruleMode)
    <3>1. e # One(RParen)
      BY <2>1, <2>2, NotSeen
    <3>2. AtArgsFirst(f.name, f.terms, e, v, ruleMode) <=> AtItems(f.name, f.terms, e, v, ruleMode)
      BY <3>1 DEF AtArgsFirst
    <3>3. Asked(f, e, v, ruleMode) <=> AtItems(f.name, f.terms, e, v, ruleMode)
      BY <1>3, <1>4, <2>2, FirstArgumentAsked
    <3> QED
      BY <1>6, <3>2, <3>3
  <2> QED
    BY <1>2, <1>3, <1>8, <2>2, AsksStill
<1> QED
  BY <1>7, <1>8 DEF FirstArgument

LEMMA ArgumentsReads == ASSUME LanguageInv, Arguments PROVE LanguageStep
<1>1. Waits("parseCompoundOrAtom", "rest")
  BY DEF Arguments
<1>2. /\ pc = "frame" /\ look \in Tokens(ruleMode) \cup {EndOfInput}
      /\ \E s, f : OnStack(s, f) /\ f.fn = "parseCompoundOrAtom" /\ f.at = "rest"
  BY <1>1, PlaceKnown
<1>3. PICK s, f : OnStack(s, f) /\ f.fn = "parseCompoundOrAtom" /\ f.at = "rest"
  BY <1>2
<1>4. FrameOK(f) /\ IsSeq(f.terms) /\ f = Top /\ s = Popped /\ stack = Append(s, f)
  BY <1>3 DEF OnStack
<1>5. AheadOf(f, {"RPAREN", "COMMA"}, ruleMode) /\ NotEmptyAt(f, ruleMode)
  BY <1>3, ArgsRestBegins, NotEmptyThere
<1>6. \A e, v : Rest(f, e, v, ruleMode) <=> AtArgsRest(f.name, f.terms, e, v, ruleMode)
  BY <1>3, RestAtPlace
<1>7. CASE Sees({"COMMA"}) /\ Advance /\ CallTerm(stack)
  <2>1. look \in Tokens(ruleMode) /\ look = Comma
    BY <1>2, <1>7, SeenToken, TokenTypes
  <2>2. ASSUME NEW e \in Texts(ruleMode), Len(Cat(One(look), e)) <= MaxTokens, NEW v
        PROVE  Rest(f, Cat(One(look), e), v, ruleMode) <=> Asked(f, e, v, ruleMode)
    <3>1. Len(e) <= MaxTokens
      BY <2>1, <2>2, ShorterText
    <3>2. Asked(f, e, v, ruleMode) <=> AtItems(f.name, f.terms, e, v, ruleMode)
      BY <1>3, <1>4, <3>1, FirstArgumentAsked
    <3>3. AtArgsRest(f.name, f.terms, Cat(One(look), e), v, ruleMode) <=> AtItems(f.name, f.terms, e, v, ruleMode)
      BY <2>1, ReadComma
    <3> QED
      BY <1>6, <3>2, <3>3
  <2>3. CallTerm(Append(s, f))
    BY <1>4, <1>7
  <2> QED
    BY <1>2, <1>3, <1>4, <1>5, <1>7, <2>1, <2>2, <2>3, AsksOn
<1>8. CASE Sees({"RPAREN"}) /\ Advance /\ ReturnTerm(Popped, Compound(Top.name, Top.terms))
  <2> DEFINE t == Compound(f.name, f.terms)
  <2>1. look \in Tokens(ruleMode) /\ look = RParen
    BY <1>2, <1>8, SeenToken, TokenTypes
  <2>2. \A e \in Texts(ruleMode) : \A v :
            Rest(f, Cat(One(look), e), v, ruleMode) <=> e = << >> /\ v = t
    <3>1. ASSUME NEW e \in Texts(ruleMode), NEW v
          PROVE  AtArgsRest(f.name, f.terms, Cat(One(look), e), v, ruleMode) <=> e = << >> /\ v = t
      <4>1. AtArgsRest(f.name, f.terms, Cat(One(RParen), e), v, ruleMode) <=> e = << >> /\ v = t
        BY <1>4, ArgumentsClosed
      <4> QED
        BY <2>1, <4>1
    <3> HIDE DEF t
    <3> QED
      BY <1>6, <3>1
  <2>3. ReturnTerm(s, t) /\ f.fn # "parse"
    BY <1>3, <1>4, <1>8
  <2> HIDE DEF t
  <2> QED
    BY <1>2, <1>3, <1>5, <1>8, <2>1, <2>2, <2>3, ReturnsOn
<1>9. CASE ~Sees({"COMMA", "RPAREN"}) /\ Reject
  <2>1. look.type \notin {"RPAREN", "COMMA"}
    BY <1>9 DEF Sees
  <2>2. \A e \in Texts(ruleMode) : StartsWith(e, look) => \A v : ~Rest(f, e, v, ruleMode)
    BY <1>5, <2>1, Refused
  <2> QED
    BY <1>2, <1>3, <1>9, <2>2, RejectsAt
<1> QED
  BY <1>7, <1>8, <1>9 DEF Arguments

--------------------------------------------------------------------------------
(* The language's invariant *)

LEMMA DescendReads ==
    ASSUME LanguageInv, Descend
    PROVE  LanguageStep
BY PredicateReads, OpenReads, NextTermReads, SeparatorReads, CloseReads, TermReads, TermParsedReads,
   ReturnedReads, EmptyBracketsReads, ListRestReads, ListEndReads, NameReads, FirstArgumentReads, ArgumentsReads
   DEF Descend

(* Over no activation, what is read is all there is. *)
LEMMA PlanAlone ==
    ASSUME NEW mode, NEW how, NEW f, NEW w \in Texts(mode), NEW r
    PROVE  Plan(how, f, << >>, w, r, mode) <=> Way(how, f, w, r, mode)
<1>1. \A u, x : Left(<< >>, u, x, r, mode) <=> u = << >> /\ x = r
  BY LeftOfNone
<1>2. << >> \in Texts(mode) /\ \A e \in Texts(mode) : Cat(e, << >>) = e
  BY TextFacts
<1>3. Plan(how, f, << >>, w, r, mode) => Way(how, f, w, r, mode)
  BY <1>1, <1>2 DEF Plan
<1>4. ASSUME Way(how, f, w, r, mode) PROVE Plan(how, f, << >>, w, r, mode)
  <2> DEFINE none == << >>
  <2>1. none \in Texts(mode) /\ w = Cat(w, none) /\ Left(none, none, r, r, mode)
    BY <1>1, <1>2
  <2>2. Plan(how, f, none, w, r, mode)
    <3> HIDE DEF none
    <3> QED
      BY <1>4, <2>1 DEF Plan
  <2> QED
    BY <2>2
<1> QED
  BY <1>3, <1>4

LEMMA EmptyStack == IsSeq(<< >>) /\ TermsInOrder(<< >>) /\ ~ReadsFact(<< >>)
<1>1. Len(<< >>) = 0 /\ << >> \in Seq({})
  BY EmptySeq
<1> QED
  BY <1>1 DEF IsSeq, TermsInOrder, ReadsFact

LEMMA ParseReads == ASSUME NEW mode, Parse(mode) PROVE LanguageStep
<1> DEFINE g == Frame("parse", EmptyText, "predicate")
           none == << >>
<1>1. /\ ruleMode' = mode /\ consumed' = << >> /\ entry' = "parse" /\ pc' = "frame"
      /\ stack' = <<g>>
  BY DEF Parse, Begin
<1>2. g.fn = "parse" /\ g.at = "predicate" /\ g.terms = << >>
  BY BeginsActivation
<1>3. <<g>> = Append(<< >>, g)
  OBVIOUS
<1> HIDE DEF g
<1>4. IsSeq(none) /\ TermsInOrder(none) /\ Len(none) = 0
  BY EmptyStack, EmptySeq
<1>5. stack' = Append(none, g)
  BY <1>1, <1>3
<1> HIDE DEF none
<1>6. Top' = g /\ Popped' = none
  BY <1>4, <1>5, TopOfPushed DEF Top, Popped
<1>7. \A w, r : PlanNow(w, r)' <=> Plan("frame", g, none, w, r, mode)
  BY <1>1, <1>6 DEF PlanNow
<1>8. ReadsOn'
  <2> SUFFICES ASSUME NEW w \in Texts(mode), NEW r
               PROVE  IsSentence(mode, "parse", Cat(none, w), r) <=> PlanNow(w, r)'
    BY <1>1 DEF ReadsOn, none
  <2>1. Cat(none, w) = w
    BY TextFacts DEF none
  <2>2. IsSentence(mode, "parse", w, r) <=> AtPredicate(<< >>, w, r, mode)
    BY FactFromPredicate DEF IsSentence
  <2>3. Rest(g, w, r, mode) <=> AtPredicate(<< >>, w, r, mode)
    BY <1>2, RestAtPlace
  <2>4. Plan("frame", g, none, w, r, mode) <=> Way("frame", g, w, r, mode)
    BY PlanAlone DEF none
  <2>5. Way("frame", g, w, r, mode) <=> Rest(g, w, r, mode)
    BY DEF Way
  <2> QED
    BY <1>7, <2>1, <2>2, <2>3, <2>4, <2>5
<1>9. TermsInOrder(stack') /\ ReadsFact(stack')
  <2>1. IsSeq(g.terms)
    BY <1>2, EmptyStack
  <2>2. \A i \in 1..Len(none) : IsSeq(none[i].terms)
    BY <1>4 DEF TermsInOrder
  <2>3. TermsInOrder(Append(none, g)) /\ ReadsFact(Append(none, g))
    BY <1>2, <1>4, <2>1, <2>2, PushedStack
  <2> QED
    BY <1>5, <2>3
<1>10. TermsInOrder(stack)' /\ EntryKnown'
  BY <1>1, <1>9 DEF EntryKnown
<1> QED
  BY <1>8, <1>10 DEF LanguageStep

LEMMA ParseTermReads == ASSUME NEW mode, ParseTerm(mode) PROVE LanguageStep
<1> DEFINE none == << >>
<1>1. /\ ruleMode' = mode /\ consumed' = none /\ entry' = "parseTerm" /\ pc' = "term"
      /\ stack' = none
  BY DEF ParseTerm, Begin
<1>2. TermsInOrder(none) /\ ~ReadsFact(none)
  BY EmptyStack
<1>3. \A w \in Texts(mode) : Cat(none, w) = w
  BY TextFacts
<1>4. \A w \in Texts(mode) : \A r : Plan("term", NoTerm, none, w, r, mode) <=> Way("term", NoTerm, w, r, mode)
  BY PlanAlone
<1> HIDE DEF none
<1>5. \A w, r : PlanNow(w, r)' <=> Plan("term", NoTerm, none, w, r, mode)
  BY <1>1 DEF PlanNow
<1>6. ReadsOn'
  <2> SUFFICES ASSUME NEW w \in Texts(mode), NEW r
               PROVE  IsSentence(mode, "parseTerm", Cat(none, w), r) <=> PlanNow(w, r)'
    BY <1>1 DEF ReadsOn
  <2>1. IsSentence(mode, "parseTerm", w, r) <=> IsTerm(w, r, mode)
    BY DEF IsSentence
  <2>2. Way("term", NoTerm, w, r, mode) <=> IsTerm(w, r, mode)
    BY DEF Way
  <2> QED
    BY <1>3, <1>4, <1>5, <2>1, <2>2
<1>7. TermsInOrder(stack)' /\ EntryKnown'
  BY <1>1, <1>2 DEF EntryKnown
<1> QED
  BY <1>6, <1>7 DEF LanguageStep

(* The invariant holds at first, and every step keeps it. *)
LEMMA LanguageInitially == ASSUME Init PROVE LanguageInv
<1>1. pc = "idle" /\ stack = << >>
  BY DEF Init
<1> QED
  BY <1>1, InvInitially, EmptyStack DEF LanguageInv, EntryKnown, Ended

LEMMA LanguageKept == ASSUME LanguageInv, [Next]_vars PROVE LanguageInv'
<1>1. ParserInv'
  BY InvKept DEF LanguageInv
<1>2. CASE UNCHANGED vars
  <2>1. /\ ruleMode' = ruleMode /\ entry' = entry /\ pc' = pc /\ stack' = stack /\ look' = look
        /\ consumed' = consumed /\ term' = term /\ fact' = fact
    BY <1>2 DEF vars
  <2>2. TermsInOrder(stack)' /\ EntryKnown'
    BY <2>1 DEF LanguageInv, EntryKnown, Ended
  <2>3. \A w, r : PlanNow(w, r)' <=> PlanNow(w, r)
    BY <2>1 DEF PlanNow, Top, Popped, Result
  <2>4. pc' # "idle" => ReadsOn'
    BY <2>1, <2>3 DEF LanguageInv, ReadsOn
  <2> QED
    BY <1>1, <2>2, <2>4 DEF LanguageInv
<1>3. CASE Next
  <2>1. LanguageStep
    BY <1>3, ParseReads, ParseTermReads, DescendReads DEF Next
  <2> QED
    BY <1>1, <2>1 DEF LanguageStep, LanguageInv
<1> QED
  BY <1>2, <1>3

--------------------------------------------------------------------------------
(* What it says of a call that has ended *)

LEMMA AcceptedIsSentence == ASSUME LanguageInv PROVE AcceptsRight
<1> SUFFICES ASSUME pc = "accepted" PROVE <<ruleMode, entry, consumed, Result>> \in Sentences
  BY DEF AcceptsRight
<1>1. InputOK /\ ReadsOn
  BY DEF LanguageInv, ParserInv
<1>2. consumed \in Texts(ruleMode) /\ Len(consumed) <= MaxTokens /\ ruleMode \in BOOLEAN
  BY <1>1 DEF InputOK, Texts
<1> DEFINE none == << >>
<1>3. none \in Texts(ruleMode) /\ Cat(consumed, none) = consumed /\ StartsWith(none, look)
  BY <1>2, TextFacts DEF StartsWith
<1>4. Plan("given", Result, none, none, Result, ruleMode)
  <2>1. Way("given", Result, none, Result, ruleMode)
    BY DEF Way
  <2> QED
    BY <1>3, <2>1, PlanAlone
<1> HIDE DEF none
<1>5. PlanNow(none, Result)
  BY <1>4 DEF PlanNow, none
<1>6. IsSentence(ruleMode, entry, consumed, Result)
  BY <1>1, <1>2, <1>3, <1>5 DEF ReadsOn
<1> QED
  BY <1>2, <1>6, SentencesAre

(* A beginning of a text, and the rest of it. *)
LEMMA SplitText ==
    ASSUME NEW mode, NEW s \in Texts(mode), NEW n \in 0..Len(s)
    PROVE  \E d \in Texts(mode) : s = Cat(SubSeq(s, 1, n), d) /\ SubSeq(s, 1, n) \in Texts(mode)
<1> DEFINE a == SubSeq(s, 1, n)
           m == Len(s)
           d == SubSeq(s, n + 1, m)
<1>1. s \in Seq(Tokens(mode)) /\ m \in Nat /\ n \in Nat /\ n <= m /\ m \in Int /\ n \in Int /\ n + 1 \in Int
  BY LenProperties DEF Texts
<1>2. \A i \in 1..m : s[i] \in Tokens(mode)
  BY <1>1, ElementOfSeq
<1> HIDE DEF m
<1>3. (\A i \in 1..n : i \in 1..m) /\ (\A i \in (n + 1)..m : i \in 1..m)
  BY <1>1
<1>4. a \in Seq(Tokens(mode)) /\ d \in Seq(Tokens(mode))
  BY <1>1, <1>2, <1>3, SubSeqProperties, 1 \in Int
<1>5. s = a \o d
  <2>1. SubSeq(s, 1, m) = s
    BY <1>1, SubSeqFull DEF m
  <2>2. SubSeq(s, 1, n) \o SubSeq(s, n + 1, m) = SubSeq(s, 1, m)
    <3>1. 1 \in 1..(m + 1) /\ n \in (1 - 1)..m /\ m \in n..m
      BY <1>1
    <3> QED
      BY <1>1, <3>1, ConcatAdjacentSubSeq DEF m
  <2> QED
    BY <2>1, <2>2
<1> QED
  BY <1>4, <1>5 DEF Texts, Cat

(* Of a text that was rejected there is no plan, so it begins no sentence. *)
LEMMA RejectedIsNone == ASSUME LanguageInv PROVE RejectsRight
<1> SUFFICES ASSUME pc = "rejected"
             PROVE  IF look = EndOfInput
                    THEN <<ruleMode, entry, consumed>> \notin Whole
                    ELSE <<ruleMode, entry, Append(consumed, look)>> \notin Beginnings
  BY DEF RejectsRight
<1>1. InputOK /\ ReadsOn
  BY DEF LanguageInv, ParserInv
<1>2. /\ consumed \in Texts(ruleMode) /\ Len(consumed) <= MaxTokens
      /\ look \in Tokens(ruleMode) \cup {EndOfInput}
  BY <1>1 DEF InputOK, Texts
<1>3. ASSUME NEW w \in Texts(ruleMode), StartsWith(w, look), Len(Cat(consumed, w)) <= MaxTokens, NEW r
      PROVE  ~IsSentence(ruleMode, entry, Cat(consumed, w), r)
  <2>1. ~PlanNow(w, r)
    BY DEF PlanNow
  <2> QED
    BY <1>1, <1>3, <2>1 DEF ReadsOn
<1>4. ASSUME <<ruleMode, entry, consumed>> \in Whole PROVE FALSE
  <2>1. PICK x \in Sentences : <<ruleMode, entry, consumed>> = <<x[1], x[2], x[3]>>
    BY <1>4 DEF Whole
  <2>2. PICK mode \in BOOLEAN : \E s, m, function :
            /\ x = <<mode, function, s, m>> /\ s \in Texts(mode) /\ Len(s) <= MaxTokens
            /\ IsSentence(mode, function, s, m)
    BY SentenceIsText
  <2>3. PICK s, m, function :
            /\ x = <<mode, function, s, m>> /\ s \in Texts(mode) /\ Len(s) <= MaxTokens
            /\ IsSentence(mode, function, s, m)
    BY <2>2
  <2>4. mode = ruleMode /\ function = entry /\ s = consumed
    BY <2>1, <2>3
  <2> DEFINE none == << >>
  <2>5. none \in Texts(ruleMode) /\ Cat(consumed, none) = consumed /\ StartsWith(none, look)
    BY <1>2, TextFacts DEF StartsWith
  <2> HIDE DEF none
  <2> QED
    BY <1>2, <1>3, <2>3, <2>4, <2>5
<1>5. ASSUME look # EndOfInput, <<ruleMode, entry, Append(consumed, look)>> \in Beginnings PROVE FALSE
  <2>0. \E x \in Sentences : \E n \in 0..Len(x[3]) :
            <<ruleMode, entry, Append(consumed, look)>> = <<x[1], x[2], SubSeq(x[3], 1, n)>>
    BY <1>5, SMT DEF Beginnings
  <2>1. PICK x \in Sentences : \E n \in 0..Len(x[3]) :
            <<ruleMode, entry, Append(consumed, look)>> = <<x[1], x[2], SubSeq(x[3], 1, n)>>
    BY <2>0
  <2>2. PICK mode \in BOOLEAN : \E s, m, function :
            /\ x = <<mode, function, s, m>> /\ s \in Texts(mode) /\ Len(s) <= MaxTokens
            /\ IsSentence(mode, function, s, m)
    BY SentenceIsText
  <2>3. PICK s, m, function :
            /\ x = <<mode, function, s, m>> /\ s \in Texts(mode) /\ Len(s) <= MaxTokens
            /\ IsSentence(mode, function, s, m)
    BY <2>2
  <2>4. x[1] = mode /\ x[2] = function /\ x[3] = s
    BY <2>3
  <2>5. PICK n \in 0..Len(s) :
            <<ruleMode, entry, Append(consumed, look)>> = <<mode, function, SubSeq(s, 1, n)>>
    BY <2>1, <2>4
  <2>6. mode = ruleMode /\ function = entry /\ SubSeq(s, 1, n) = Append(consumed, look)
    BY <2>5
  <2>7. PICK d \in Texts(ruleMode) : s = Cat(Append(consumed, look), d)
    <3>1. s \in Texts(ruleMode)
      BY <2>3, <2>6
    <3>2. PICK d \in Texts(ruleMode) : s = Cat(SubSeq(s, 1, n), d)
      BY <3>1, SplitText
    <3> QED
      BY <2>6, <3>2
  <2>8. look \in Tokens(ruleMode) /\ One(look) \in Texts(ruleMode)
    BY <1>2, <1>5, OneInTexts
  <2>9. Append(consumed, look) = Cat(consumed, One(look))
    BY <1>2, TextsAreSeqs, AppendIsCat DEF Cat, One
  <2> DEFINE w == Cat(One(look), d)
  <2>10. w \in Texts(ruleMode) /\ s = Cat(consumed, w)
    BY <1>2, <2>7, <2>8, <2>9, CatTexts, CatInTexts
  <2>11. StartsWith(w, look)
    BY <1>5, <2>8, FirstOfCat DEF StartsWith
  <2> HIDE DEF w
  <2> QED
    BY <1>3, <2>3, <2>6, <2>10, <2>11
<1> QED
  BY <1>4, <1>5

(***************************************************************************)
(* Whatever the words, the nesting and the length: what parse or parseTerm  *)
(* accepts is a sentence of the grammar, and what it returns is what that   *)
(* sentence spells.                                                        *)
(***************************************************************************)
THEOREM ParserAcceptsRight == Spec => []AcceptsRight
<1>1. Spec => []LanguageInv
  BY LanguageInitially, LanguageKept, PTL DEF Spec
<1>2. LanguageInv => AcceptsRight
  BY AcceptedIsSentence
<1> QED
  BY <1>1, <1>2, PTL

(***************************************************************************)
(* No sentence is refused: a call ends in a runtime_error only at a token   *)
(* that no sentence has there, or at the end of what is not a sentence.     *)
(***************************************************************************)
THEOREM ParserRejectsRight == Spec => []RejectsRight
<1>1. Spec => []LanguageInv
  BY LanguageInitially, LanguageKept, PTL DEF Spec
<1>2. LanguageInv => RejectsRight
  BY RejectedIsNone
<1> QED
  BY <1>1, <1>2, PTL

================================================================================
