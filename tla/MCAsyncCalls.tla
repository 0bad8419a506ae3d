---------------------------- MODULE MCAsyncCalls ----------------------------
(* A program for AsyncCalls: parallel_delay_spawn_async_mix.ad, in which t1 *)
(* and t2 are spawned and t2 awaits the async sum; and fetch, an async       *)
(* function that awaits the async method get, which makes a plain call; last *)
(* is a second async call of the top-level program.                          *)
EXTENDS AsyncCalls, TLC

CONSTANTS t1, t2, sum, fetch, get, norm, last

CallerOf ==
    [c \in Calls |->
        CASE c = sum -> t2 [] c = get -> fetch [] c = norm -> get [] OTHER -> Root]

KindOf ==
    [c \in Calls |->
        CASE c \in {t1, t2} -> "spawn" [] c = norm -> "plain" [] OTHER -> "async"]

SortOf == [c \in Calls |-> IF c = get THEN "method" ELSE "function"]

Symmetry == Permutations(Workers)
=============================================================================
