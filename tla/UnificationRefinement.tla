------------------------- MODULE UnificationRefinement -------------------------
(***************************************************************************)
(* Unification implements ConstraintStore.  The worlds are interpretations; *)
(* those that are left are the ones that make every binding of the caller   *)
(* true.                                                                   *)
(***************************************************************************)
EXTENDS Unification

WorldsLeft == {I \in Interp : SolvesBindings(I, held)}

HoldsIn(I, q) == Unifies(I, q[1], q[2])

Store == INSTANCE ConstraintStore WITH
             Worlds <- Interp, Questions <- Literals \X Literals, Holds <- HoldsIn,
             worlds <- WorldsLeft, question <- <<goal, fact>>, status <- pc, answer <- result

(***************************************************************************)
(* Every call of Unifier::unify does to the solutions of a derivation what  *)
(* ConstraintStore says, in one step at its end; the steps before it change *)
(* nothing that can be seen from outside.                                  *)
(***************************************************************************)
ImplementsStore == Store!StoreSpec

================================================================================
