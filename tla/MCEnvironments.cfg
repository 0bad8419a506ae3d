CONSTANTS
    MaxEnvs = 3
    MaxDepth = 2
    MaxBindings = 2
SPECIFICATION Spec
INVARIANTS EnvironmentTypeOK NothingFreedIsHeld ClosuresKeepScopes NothingLeaks
CHECK_DEADLOCK FALSE
