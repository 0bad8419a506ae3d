CONSTANTS
    Objects = {o1, o2}
    Runs = {r1, r2, r3}
    NoObject = noobject
    NoRun = norun
    Files = 2
SPECIFICATION Spec
INVARIANTS ThreadsTypeOK SingleRunsJoined AwaitDelivers TeardownMeetsLiveObjects
 
CHECK_DEADLOCK FALSE
