---------------------------- MODULE MCPlanExecution -----------------------------
(***************************************************************************)
(* Plans as the planner may return them: nothing checks their shape.       *)
(***************************************************************************)
EXTENDS PlanExecution

Step(id, deps, priority) == [id |-> id, deps |-> deps, priority |-> priority]

CONSTANTS a, b, c, d, ghost

AllTasks == {a, b, c, d, ghost}

\* One plan of each shape: independent steps, a join, a diamond, a chain with
\* priorities against it, a cycle, a dependency nobody adds, a repeated id.
OnePlan ==
  [free  |-> <<Step(a, {}, 1), Step(b, {}, 0), Step(c, {}, 1), Step(d, {}, 0)>>,
   join  |-> <<Step(c, {a, b}, 0), Step(a, {}, 1), Step(b, {}, 1)>>,
   diamond |-> <<Step(d, {b, c}, 0), Step(b, {a}, 1), Step(c, {a}, 0), Step(a, {}, 1)>>,
   chain |-> <<Step(a, {}, 1), Step(b, {a}, 0), Step(c, {b}, 0)>>,
   cycle |-> <<Step(a, {}, 1), Step(b, {c}, 0), Step(c, {b}, 0)>>,
   open  |-> <<Step(a, {}, 1), Step(b, {ghost}, 0), Step(c, {a}, 0)>>,
   twice |-> <<Step(a, {}, 1), Step(b, {a}, 0), Step(a, {}, 0)>>]

OnePlanIds == DOMAIN OnePlan

\* Two plans whose planner numbered the first step alike.
TwoPlans ==
  [first  |-> <<Step(a, {}, 0), Step(b, {a}, 0)>>,
   second |-> <<Step(a, {}, 0), Step(c, {}, 0)>>]

\* Two plans that have nothing in common.
ApartPlans ==
  [left  |-> <<Step(a, {}, 0), Step(b, {a}, 0)>>,
   right |-> <<Step(c, {}, 0), Step(d, {}, 0)>>]

ApartPlanIds == DOMAIN ApartPlans

ThreeTasks == {a, b, c}

FourTasks == {a, b, c, d}

TwoPlanIds == DOMAIN TwoPlans
===============================================================================
