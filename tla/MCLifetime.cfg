CONSTANTS
    Tasks = {e1, e2, v1, v2}
    Capturing = {e1, e2}
    Workers = {w1, w2}
    Main = main
    NoTask = notask
    NoThread = nothread
SYMMETRY Symmetry
SPECIFICATION Spec
INVARIANTS LifetimeTypeOK FirstSlicesKeepPool DestroyedByMain NoUseAfterFree NothingRunsAfterRepl
CHECK_DEADLOCK FALSE
