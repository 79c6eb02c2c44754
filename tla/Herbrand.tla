------------------------------- MODULE Herbrand -------------------------------
(***************************************************************************)
(* What facts and rules mean, independently of how the code evaluates them: *)
(* the least set of ground literals that holds every ground instance of     *)
(* every fact and, with the body of a ground instance of a rule, its head.  *)
(* A variable of a clause stands for every individual.                     *)
(***************************************************************************)
EXTENDS TermOps

RECURSIVE InstanceOf(_, _)
InstanceOf(t, s) ==
    IF IsVariable(t) THEN IF t \in DOMAIN s THEN s[t] ELSE t
    ELSE [t EXCEPT !.args = [i \in DOMAIN t.args |-> InstanceOf(t.args[i], s)]]

LiteralInstance(l, s) == [l EXCEPT !.terms = [i \in DOMAIN @ |-> InstanceOf(@[i], s)]]

GroundInstances(l, individuals) ==
    {LiteralInstance(l, s) : s \in [VarsIn(l) -> individuals]}

Consequences(M, ruleSet, individuals) ==
    UNION {{LiteralInstance(r.head, s) :
                s \in {s \in [RuleVars(r) -> individuals] :
                           \A i \in DOMAIN r.body : LiteralInstance(r.body[i], s) \in M}} :
           r \in ruleSet}

RECURSIVE Closure(_, _, _)
Closure(M, ruleSet, individuals) ==
    LET new == M \cup Consequences(M, ruleSet, individuals)
    IN  IF new = M THEN M ELSE Closure(new, ruleSet, individuals)

LeastModel(factSet, ruleSet, individuals) ==
    Closure(UNION {GroundInstances(f, individuals) : f \in factSet}, ruleSet, individuals)

================================================================================
