-------------------------------- MODULE MCLists --------------------------------
(***************************************************************************)
(* The list programs of the tests, member and append, against what they     *)
(* mean for sequences.  The individuals are two atoms and the lists over    *)
(* them of length at most two.                                             *)
(***************************************************************************)
EXTENDS MCQuery

H == Variable(<<"H">>)
L == Variable(<<"L">>)
T == Variable(<<"T">>)
U == Variable(<<"U">>)
R == Variable(<<"R">>)
Underscore == Variable(<<"_">>)

RECURSIVE ListOf(_)
ListOf(s) == IF s = << >> THEN EmptyList ELSE ConsCell(Head(s), ListOf(Tail(s)))

member(t, l) == Literal(<<"member">>, <<t, l>>)
append(k, l, m) == Literal(<<"append">>, <<k, l, m>>)

ListFacts == {member(X, ConsCell(X, Underscore)), append(EmptyList, L, L)}
ListRules == {Rule(member(X, ConsCell(Underscore, T)), <<member(X, T)>>),
              Rule(append(ConsCell(H, T), L, ConsCell(H, U)), <<append(T, L, U)>>)}

ListQueries ==
    {member(X, ListOf(<<a, b>>)), member(Y, ListOf(<<b, a>>)), member(b, ListOf(<<a, b>>)),
     member(b, ListOf(<<a, a>>)),
     append(X, Y, ListOf(<<a, b>>)), append(ListOf(<<a>>), ListOf(<<b>>), R),
     append(X, ListOf(<<b>>), ListOf(<<a, b>>)), append(X, X, ListOf(<<a, a>>))}

Sequences == UNION {[1..n -> {a, b}] : n \in 0..2}

ListIndividuals == {a, b} \cup {ListOf(s) : s \in Sequences}

(* The meaning of the two predicates. *)
Holds(l) ==
    \/ /\ l.predicate = <<"member">>
       /\ \E s \in Sequences : l.terms[2] = ListOf(s) /\ l.terms[1] \in ToSet(s)
    \/ /\ l.predicate = <<"append">>
       /\ \E s, t \in Sequences :
              /\ l.terms[1] = ListOf(s) /\ l.terms[2] = ListOf(t)
              /\ l.terms[3] = ListOf(s \o t)

Loaded == ToSet(facts) = ListFacts /\ ToSet(rules) = ListRules

(***************************************************************************)
(* Once both programs are loaded, in any order, the answers to a query are  *)
(* its true instances, each of them once.                                  *)
(***************************************************************************)
ListAnswersRight ==
    Answered /\ Loaded =>
        /\ UNION {Asserted(answers[i]) : i \in DOMAIN answers}
               = {l \in GroundInstances(asked[1], ListIndividuals) : Holds(l)}
        /\ \A i, j \in DOMAIN answers : answers[i] = answers[j] => i = j

==============================================================================
