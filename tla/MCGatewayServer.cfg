SPECIFICATION FairSpec
CONSTANTS
    Reloaders = {r1, r2}
    Viewers = {v1}
    Requests = {q1, q2}
    Kinds = {"fine", "broken", "restart"}
    Capacity = 1
    MaxReloads = 2
INVARIANTS NothingLeaks ServedRuntimeRuns ViewsConsistent SlotsPerRuntime
           GracefulStopReleasesAll RestartFieldsFixed
PROPERTIES ReplacedGetsClosed StopCompletes
CHECK_DEADLOCK FALSE
