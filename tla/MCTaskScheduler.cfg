CONSTANTS
    Tasks = {t1, t2}
    Workers = {w1, w2}
    Main = main
    NoTask = notask
    NoThread = nothread
    Budget = 2
SYMMETRY Symmetry
SPECIFICATION Spec
INVARIANTS TypeOK OneHolder BodyRunsOnce StatusBeforePromise OneJoiner NoLostWakeup DestructorDrains
PROPERTIES FinalStatusStays ImplementsContract
CHECK_DEADLOCK FALSE
