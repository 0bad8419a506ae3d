CONSTANTS
    t1 = t1
    t2 = t2
    sum = sum
    fetch = fetch
    get = get
    norm = norm
    last = last
    Calls = {t1, t2, sum}
    Root = root
    Caller <- CallerOf
    Kind <- KindOf
    Sort <- SortOf
    Throwing = {}
    OnVM = TRUE
    Workers = {w1, w2}
    Main = main
SYMMETRY Symmetry
SPECIFICATION Spec
INVARIANTS AwaitGetsTask
CHECK_DEADLOCK FALSE
