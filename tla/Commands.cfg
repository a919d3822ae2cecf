SPECIFICATION Spec
CONSTANTS
    Upper <- MCUpper
    UnsafeKeys = {"../x"}
    Inherit = Inherit
    NoFilter = "all"
    Invocations = {"main", "other"}
    NoOne = NoOne
    Configs <- MCConfigs
    Setups <- MCSetups
    Latest = 2
INVARIANTS ExitIsTrue OneCategoryStopsNoOther RefusedLeavesNoTrace
INVARIANTS ValidatedIsRunnable WorksOnItsSchema DaysNeverShareAPath
CONSTRAINT VariantsRunAlone
CHECK_DEADLOCK FALSE
