\* The planner's alignment over a grid of sizes and tuning values.
CONSTANTS
    Widths = {6, 64, 1922}
    Heights = {64, 961}
    Den = 4
    CenterNums = {0, 1, 2, 4}
    ShiftNums = {0, 2}
    EdgeRatios = {1, 2}
SPECIFICATION Spec
INVARIANT PlanDefined
