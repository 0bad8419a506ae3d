CONSTANTS
    Objects = {a, b, c}
    Nil = nil
    Unlisted = {}
SPECIFICATION Spec
INVARIANTS GcTypeOK ListIsHeap SweepIsExact
PROPERTIES ImplementsHeap CollectionEnds
