SPECIFICATION Spec
CONSTANTS
    Reloaders = {r1}
    Viewers = {v1}
    Requests = {q1}
    Kinds = {"fine", "clash"}
    Capacity = 1
    MaxReloads = 1
INVARIANT NothingLeaks
CHECK_DEADLOCK FALSE
