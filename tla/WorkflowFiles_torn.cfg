\* The display family alone: two strings that are joined and a value that
\* contains what joins them.
CONSTANTS
    RouteNames <- Routes
    WholeSeconds <- Durations
    Inputs <- DisplayInputs
    Names <- FileNames
    Trees <- TwoTrees
    Foreign <- OthersPaths
SPECIFICATION FilesSpec
INVARIANT PlanHidesInterpolation
CHECK_DEADLOCK FALSE
