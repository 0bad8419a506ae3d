CONSTANTS
    Tasks = {t1, t2, t3}
    Capturing = {t1, t2, t3}
    Workers = {w1, w2}
    Main = main
    NoTask = notask
    NoThread = nothread
SPECIFICATION Spec
INVARIANTS JoinedThenDestroyedByMain
CHECK_DEADLOCK FALSE
