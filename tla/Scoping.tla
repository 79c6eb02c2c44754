-------------------------------- MODULE Scoping --------------------------------
(***************************************************************************)
(* What the renaming of rules and the recursion guard are for, for any      *)
(* terms: nothing is captured, and only repetitions are cut off.            *)
(***************************************************************************)
EXTENDS KnowledgeBase

CONSTANTS
    LiteralVars(_),     \* the variables of a literal
    BindingVars(_),     \* the variables that a binding set binds or mentions
    Substituted(_, _)   \* a goal with its variables resolved

(* The variables that an activation still refers to. *)
FrameVars(frame) ==
    BindingVars(frame.bindings)
        \cup IF frame.fn = "evaluateGoal" THEN LiteralVars(frame.goal)
             ELSE UNION {LiteralVars(frame.goals[i]) : i \in DOMAIN frame.goals}

ClauseVars(rule) ==
    LiteralVars(rule.head) \cup UNION {LiteralVars(rule.body[i]) : i \in DOMAIN rule.body}

(***************************************************************************)
(* A rule about to be unified with a goal shares no variable with any goal  *)
(* or binding of the derivation: nothing is captured.                      *)
(***************************************************************************)
RenamedApart ==
    AtRule /\ CurrentRule.head.predicate = Top.goal.predicate =>
        \A i \in DOMAIN stack : ClauseVars(RenamedRule) \cap FrameVars(stack[i]) = {}

(***************************************************************************)
(* A goal is cut off only if the very same goal is under evaluation: keys   *)
(* are printed goals, and no two goals that meet print alike.               *)
(***************************************************************************)
CutsOnlyRepeats ==
    pc = "goal" /\ KeyOf(call.goal, call.bindings) \in visited =>
        \E i \in GoalFrames(stack) :
            Substituted(stack[i].goal, stack[i].bindings) = Substituted(call.goal, call.bindings)

================================================================================
