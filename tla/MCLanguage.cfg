CONSTANTS
    Programs <- MCPrograms
    TreeOf <- MCTreeOf
    StrippedOf <- MCStrippedOf
    EvaluationOf <- MCEvaluationOf
    CompiledOf <- MCCompiledOf
    StackSize = 40
    MaxInstructions = 600
    BuiltinNames <- MCBuiltins
SPECIFICATION Spec
INVARIANTS LanguageTypeOK RoundTrip BytecodeWellFormed StackBalanced OutputParity
CHECK_DEADLOCK FALSE
