------------------------------ MODULE StrictFold ------------------------------
(* FoldLeft, in as many steps as there are elements.  The result of a step  *)
(* is an element of a set, so that TLC has it before it begins the next.    *)
LOCAL INSTANCE Naturals
LOCAL INSTANCE Sequences

Fold(op(_, _), base, seq) ==
    LET f[i \in 0..Len(seq)] ==
            IF i = 0 THEN base
            ELSE CHOOSE r \in {op(acc, seq[i]) : acc \in {f[i - 1]}} : TRUE
    IN  f[Len(seq)]
=============================================================================
