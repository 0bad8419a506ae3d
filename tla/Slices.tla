-------------------------------- MODULE Slices --------------------------------
(***************************************************************************)
(* Which elements of a list a slice takes: newSubList of the evaluator and  *)
(* vm_new_sub_list of the machine are the same algorithm, written twice.    *)
(* Left out: steps so large that the loop's counter overflows.              *)
(***************************************************************************)
EXTENDS Integers

INT_MAX == 2147483647

(* A bound inside the list; a negative one counts from its end.             *)
Clamped(i, max) ==
    IF i < -max THEN 0 ELSE IF i < 0 THEN i + max ELSE IF i > max THEN max ELSE i

First(max, i, step) ==
    IF i = INT_MAX \/ (step < 0 /\ i >= max) THEN max - 1 ELSE Clamped(i, max)
Limit(max, i, step) ==
    IF i = -INT_MAX \/ (step < 0 /\ i < -max) THEN -1 ELSE Clamped(i, max)

(* The positions, from 0, of a list of max elements, in their order.  The   *)
(* limit is not one of them; a step of zero takes none.                     *)
Positions(max, i1, i2, step) ==
    LET first == First(max, i1, step)
        distance == IF step > 0 THEN Limit(max, i2, step) - first
                    ELSE first - Limit(max, i2, step)
        stride == IF step > 0 THEN step ELSE -step
        count == (distance + stride - 1) \div stride
    IN  IF step = 0 \/ distance <= 0 \/ (step < 0 /\ i1 < -max) THEN <<>>
        ELSE [k \in 1..count |-> first + (k - 1) * step]

(* What stands for a bound that is missing: the ends of the list, the other *)
(* way round for a negative step.                                           *)
DefaultStart(max, endMissing, step) ==
    IF step > 0 THEN 0 ELSE IF endMissing THEN max - 1 ELSE INT_MAX
DefaultEnd(max, step) == IF step > 0 THEN max ELSE -INT_MAX
=============================================================================
