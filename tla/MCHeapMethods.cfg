CONSTANTS
    Objects = {method, default}
    Nil = nil
    Unlisted = {method}
SPECIFICATION Spec
INVARIANTS NoLiveFreed
