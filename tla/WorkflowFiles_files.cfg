\* Small documents in five families; outputs installed while another process
\* creates paths in the same output directory.
CONSTANTS
    RouteNames <- Routes
    WholeSeconds <- Durations
    Inputs <- AllInputs
    Names <- FileNames
    Trees <- TwoTrees
    Foreign <- OthersPaths
SPECIFICATION FilesSpec
INVARIANTS ExpansionExact TargetByPrecedence DocumentShowsNoInterpolation PlanShowsNoInterpolation PlanShowsNoValue RequestFollowsDocument InstalledWhole CollisionsExplained
PROPERTIES NothingReplaced
CHECK_DEADLOCK FALSE
