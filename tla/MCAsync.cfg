CONSTANTS
    t1 = t1
    t2 = t2
    sum = sum
    fetch = fetch
    get = get
    norm = norm
    last = last
    Calls = {t1, t2, sum, fetch, get, norm, last}
    Root = root
    Caller <- CallerOf
    Kind <- KindOf
    Sort <- SortOf
    Throwing = {fetch, get}
    OnVM = FALSE
    Workers = {w1, w2}
    Main = main
SYMMETRY Symmetry
SPECIFICATION Spec
INVARIANTS AsyncTypeOK AwaitGetsTask FlagsOfCurrentTask TopLevelGetsTasks
CHECK_DEADLOCK FALSE
