CONSTANTS
    a = a
    a1 = a1
    a2 = a2
    b = b
    b1 = b1
    b2 = b2
    Tasks = {a, a1, a2, b, b1, b2}
    Looping = {}
    Workers = {w1, w2}
    Main = main
    NoTask = notask
    NoThread = nothread
    Budget = 1
    Parent <- SpawnTree
SPECIFICATION StructuredSpec
PROPERTIES ProgramEnds
CHECK_DEADLOCK FALSE
