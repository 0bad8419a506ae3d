-------------------------- MODULE SymbolTableProofs --------------------------
(***************************************************************************)
(* Proofs about the compiler's symbol tables, step by step: what holds of    *)
(* them before an operation holds after it, and a name leads to the place    *)
(* that it has lexically.                                                    *)
(***************************************************************************)
EXTENDS SymbolTable, TLAPS, WellFoundedInduction

Symbols == [name : STRING,
            scope : {"GLOBAL", "LOCAL", "CLASS", "BUILTIN", "FUNCTION", "FREE"},
            index : Nat]

Table == [store : UNION {[names -> Symbols] : names \in SUBSET STRING},
          numDefinitions : Nat,
          freeSymbols : Seq(Symbols)]

\* The scopes whose index is a place of its own.
Slotted == {"GLOBAL", "LOCAL", "CLASS"}

\* What a function can take over from the one around it.
Capturable == {"LOCAL", "FUNCTION", "FREE"}

(* A name has its own symbol, places are numbered below numDefinitions, and *)
(* no two names share one.                                                  *)
SlotsFit(table) ==
    LET slotted == {n \in DOMAIN table.store : table.store[n].scope \in Slotted}
    IN  /\ \A n \in DOMAIN table.store : table.store[n].name = n
        /\ \A n \in slotted : table.store[n].index < table.numDefinitions
        /\ \A m, n \in slotted : table.store[m].index = table.store[n].index => m = n

(* The free symbols are what the names of scope FREE stand for, each once.  *)
FreeFit(table) ==
    /\ \A n \in DOMAIN table.store : table.store[n].scope = "FREE" =>
          /\ table.store[n].index + 1 \in DOMAIN table.freeSymbols
          /\ table.freeSymbols[table.store[n].index + 1].name = n
    /\ \A i \in DOMAIN table.freeSymbols :
          LET n == table.freeSymbols[i].name
          IN  n \in DOMAIN table.store /\ table.store[n] = Symbol(n, "FREE", i - 1)

(* Each free symbol of a function is what the function around it has under  *)
(* that name: where the closure is made, it can be loaded.                  *)
CapturesFit(inner, outer) ==
    \A i \in DOMAIN inner.freeSymbols :
        LET n == inner.freeSymbols[i].name
        IN  /\ n \in DOMAIN outer.store /\ outer.store[n] = inner.freeSymbols[i]
            /\ inner.freeSymbols[i].scope \in Capturable

WellFormedTables(tables) ==
    /\ tables \in Seq(Table) /\ tables # <<>>
    /\ \A n \in DOMAIN tables[1].store : tables[1].store[n].scope \in {"GLOBAL", "BUILTIN"}
    /\ \A k \in DOMAIN tables : SlotsFit(tables[k]) /\ FreeFit(tables[k])
    /\ \A k \in DOMAIN tables : k > 1 => CapturesFit(tables[k], tables[k - 1])

\* The name is new to the innermost table, or has a place there: it is not one
\* that the function has used as a captured name, nor a builtin's or its own.
\* (define would keep the number that one of those has, symbol_table.cpp 33.)
Definable(tables, name) ==
    Defines(Top(tables), name) => Defined(tables, name).scope \in Slotted

\* What the compiler does to the tables, one call at a time: enter_scope,
\* leave_scope, define, define_function_name at the start of a function's
\* scope, resolve, and define_builtin before anything is compiled.
Compiles(tables, then) ==
    \/ then = Append(tables, EmptyTable)
    \/ Len(tables) > 1 /\ then = SubSeq(tables, 1, Len(tables) - 1)
    \/ \E name \in STRING :
          \/ Definable(tables, name) /\ then = Define(tables, name)
          \/ ~IsRoot(tables) /\ Definable(tables, name) /\ then = DefineField(tables, name)
          \/ ~IsRoot(tables) /\ Top(tables) = EmptyTable /\ then = DefineFunctionName(tables, name)
          \/ then = Resolve(tables, name).tables
    \/ \E name \in STRING, index \in Nat :
          /\ IsRoot(tables) /\ ~Defines(Top(tables), name)
          /\ then = DefineBuiltin(tables, index, name)

-----------------------------------------------------------------------------
(* Numbers.                                                                 *)

LEMMA Least ==
    ASSUME NEW T \in SUBSET Nat, T # {}
    PROVE  \E m \in T : \A y \in T : m <= y
<1> DEFINE R == OpToRel(<, Nat)
<1>1. IsWellFoundedOn(R, Nat)
  BY NatLessThanWellFounded
<1>2. \A x, y \in Nat : <<x, y>> \in R <=> x < y
  BY DEF OpToRel
<1> HIDE DEF R
<1>3. PICK m \in T : \A y \in T : ~(<<y, m>> \in R)
  BY ONLY T # {}, T \subseteq Nat, <1>1, WFMin
<1>4. \A y \in T : m <= y
  <2> TAKE y \in T
  <2>1. m \in Nat /\ y \in Nat
    OBVIOUS
  <2>2. ~(y < m)
    BY <1>2, <1>3, <2>1, Zenon
  <2> QED BY <2>1, <2>2
<1> QED BY <1>4

(* A set of numbers up to a bound has a greatest.                           *)
LEMMA Greatest ==
    ASSUME NEW N \in Nat, NEW S \in SUBSET (0..N), S # {}
    PROVE  \E x \in S : \A y \in S : y <= x
<1> DEFINE T == {N - x : x \in S}
<1>1. \A x \in S : N - x \in Nat
  OBVIOUS
<1>2. T \subseteq Nat /\ T # {}
  BY <1>1
<1>3. PICK m \in T : \A y \in T : m <= y
  <2> HIDE DEF T
  <2> QED BY <1>2, Least
<1>4. PICK x \in S : m = N - x
  BY <1>3
<1>5. \A y \in S : y <= x
  <2> TAKE y \in S
  <2>1. N - x <= N - y
    BY <1>3, <1>4
  <2> QED BY <2>1
<1> QED BY <1>5

-----------------------------------------------------------------------------
(* One table.                                                               *)

LEMMA TableFacts ==
    ASSUME NEW t \in Table
    PROVE  /\ DOMAIN t.store \in SUBSET STRING
           /\ t.store \in [DOMAIN t.store -> Symbols]
           /\ t.numDefinitions \in Nat
           /\ t.freeSymbols \in Seq(Symbols)
  BY DEF Table

LEMMA StoreFacts ==
    ASSUME NEW t \in Table, NEW name \in STRING, NEW symbol \in Symbols
    PROVE  LET u == Store(t, name, symbol)
           IN  /\ u \in Table
               /\ DOMAIN u.store = DOMAIN t.store \union {name}
               /\ u.store[name] = symbol
               /\ \A n \in DOMAIN t.store \ {name} : u.store[n] = t.store[n]
               /\ u.numDefinitions = t.numDefinitions
               /\ u.freeSymbols = t.freeSymbols
<1> DEFINE f == [n \in DOMAIN t.store \union {name} |-> IF n = name THEN symbol ELSE t.store[n]]
<1>1. Store(t, name, symbol) = [t EXCEPT !.store = f]
  BY DEF Store
<1>2. f \in [DOMAIN t.store \union {name} -> Symbols]
  BY TableFacts
<1>3. (DOMAIN t.store \union {name}) \in SUBSET STRING
  BY TableFacts
<1>4. /\ DOMAIN f = DOMAIN t.store \union {name}
      /\ f[name] = symbol
      /\ \A n \in DOMAIN t.store \ {name} : f[n] = t.store[n]
  OBVIOUS
<1> HIDE DEF f
<1>5. f \in UNION {[names -> Symbols] : names \in SUBSET STRING}
  BY <1>2, <1>3
<1> QED BY <1>1, <1>4, <1>5 DEF Table

LEMMA DefineFacts ==
    ASSUME NEW t \in Table, NEW name \in STRING, NEW scope \in Slotted
    PROVE  LET u == DefineInTable(t, name, scope)
               index == IF Defines(t, name) THEN t.store[name].index ELSE t.numDefinitions
           IN  /\ u \in Table
               /\ DOMAIN u.store = DOMAIN t.store \union {name}
               /\ u.store[name] = Symbol(name, scope, index)
               /\ \A n \in DOMAIN t.store \ {name} : u.store[n] = t.store[n]
               /\ u.numDefinitions = t.numDefinitions + 1
               /\ u.freeSymbols = t.freeSymbols
<1> DEFINE index == IF Defines(t, name) THEN t.store[name].index ELSE t.numDefinitions
           symbol == Symbol(name, scope, index)
           v == Store(t, name, symbol)
<1>1. symbol \in Symbols
  BY TableFacts DEF Symbol, Symbols, Slotted, Defines
<1>2. DefineInTable(t, name, scope) = [v EXCEPT !.numDefinitions = @ + 1]
  BY DEF DefineInTable
<1>3. /\ v \in Table
      /\ DOMAIN v.store = DOMAIN t.store \union {name}
      /\ v.store[name] = symbol
      /\ \A n \in DOMAIN t.store \ {name} : v.store[n] = t.store[n]
      /\ v.numDefinitions = t.numDefinitions
      /\ v.freeSymbols = t.freeSymbols
  <2> HIDE DEF symbol
  <2> QED BY <1>1, StoreFacts
<1> HIDE DEF v
<1> QED BY <1>2, <1>3 DEF Table

LEMMA FreeFacts ==
    ASSUME NEW t \in Table, NEW original \in Symbols
    PROVE  LET u == DefineFree(t, original)
               name == original.name
           IN  /\ u \in Table
               /\ DOMAIN u.store = DOMAIN t.store \union {name}
               /\ u.store[name] = Symbol(name, "FREE", Len(t.freeSymbols))
               /\ \A n \in DOMAIN t.store \ {name} : u.store[n] = t.store[n]
               /\ u.numDefinitions = t.numDefinitions
               /\ u.freeSymbols = Append(t.freeSymbols, original)
<1> DEFINE name == original.name
           symbol == Symbol(name, "FREE", Len(t.freeSymbols))
           v == Store(t, name, symbol)
<1>1. symbol \in Symbols /\ name \in STRING
  BY TableFacts DEF Symbol, Symbols
<1>2. DefineFree(t, original) = [v EXCEPT !.freeSymbols = Append(@, original)]
  BY DEF DefineFree
<1>3. /\ v \in Table
      /\ DOMAIN v.store = DOMAIN t.store \union {name}
      /\ v.store[name] = symbol
      /\ \A n \in DOMAIN t.store \ {name} : v.store[n] = t.store[n]
      /\ v.numDefinitions = t.numDefinitions
      /\ v.freeSymbols = t.freeSymbols
  <2> HIDE DEF symbol, name
  <2> QED BY <1>1, StoreFacts
<1>4. Append(t.freeSymbols, original) \in Seq(Symbols)
  BY TableFacts
<1> HIDE DEF v
<1> QED BY <1>2, <1>3, <1>4 DEF Table

LEMMA EmptyFits ==
    /\ EmptyTable \in Table /\ SlotsFit(EmptyTable) /\ FreeFit(EmptyTable)
    /\ DOMAIN EmptyTable.store = {} /\ EmptyTable.freeSymbols = <<>>
<1>1. NoSymbols \in [{} -> Symbols] /\ DOMAIN NoSymbols = {}
  BY DEF NoSymbols
<1>2. NoSymbols \in UNION {[names -> Symbols] : names \in SUBSET STRING}
  BY <1>1
<1>3. EmptyTable \in Table /\ DOMAIN EmptyTable.store = {} /\ EmptyTable.freeSymbols = <<>>
  BY <1>1, <1>2 DEF EmptyTable, Table
<1> QED BY <1>3 DEF SlotsFit, FreeFit

(* A definition takes the next place, or keeps the one the name has.        *)
LEMMA DefineFits ==
    ASSUME NEW t \in Table, SlotsFit(t), FreeFit(t), NEW name \in STRING, NEW scope \in Slotted,
           Defines(t, name) => t.store[name].scope \in Slotted
    PROVE  SlotsFit(DefineInTable(t, name, scope)) /\ FreeFit(DefineInTable(t, name, scope))
<1> DEFINE u == DefineInTable(t, name, scope)
           index == IF Defines(t, name) THEN t.store[name].index ELSE t.numDefinitions
<1>1. /\ u \in Table
      /\ DOMAIN u.store = DOMAIN t.store \union {name}
      /\ u.store[name] = Symbol(name, scope, index)
      /\ \A n \in DOMAIN t.store \ {name} : u.store[n] = t.store[n]
      /\ u.numDefinitions = t.numDefinitions + 1
      /\ u.freeSymbols = t.freeSymbols
  BY DefineFacts
<1>2. /\ t.numDefinitions \in Nat
      /\ \A n \in DOMAIN t.store : t.store[n].index \in Nat
      /\ t.freeSymbols \in Seq(Symbols)
  BY TableFacts DEF Symbols
<1>3. index \in Nat /\ index < u.numDefinitions
  BY <1>1, <1>2 DEF SlotsFit, Defines
<1>4. \A n \in DOMAIN t.store \ {name} :
         t.store[n].scope \in Slotted => t.store[n].index # index
  BY <1>2 DEF SlotsFit, Defines
<1>5. u.store[name].name = name /\ u.store[name].scope \in Slotted /\ u.store[name].index = index
  BY <1>1 DEF Symbol
<1> HIDE DEF u, index
<1>6. SlotsFit(u)
  <2>1. \A n \in DOMAIN u.store : u.store[n].name = n
    BY <1>1, <1>5 DEF SlotsFit
  <2>2. \A n \in DOMAIN u.store : u.store[n].scope \in Slotted => u.store[n].index < u.numDefinitions
    BY <1>1, <1>2, <1>3, <1>5 DEF SlotsFit
  <2>3. \A m, n \in DOMAIN u.store :
           /\ u.store[m].scope \in Slotted /\ u.store[n].scope \in Slotted
           /\ u.store[m].index = u.store[n].index
           => m = n
    BY <1>1, <1>4, <1>5 DEF SlotsFit
  <2> QED BY <2>1, <2>2, <2>3 DEF SlotsFit
<1>7. FreeFit(u)
  <2>1. ASSUME NEW n \in DOMAIN u.store, u.store[n].scope = "FREE"
        PROVE  n \in DOMAIN t.store \ {name} /\ u.store[n] = t.store[n]
    BY <1>1, <1>5, <2>1 DEF Slotted
  <2>2. ASSUME NEW i \in DOMAIN t.freeSymbols
        PROVE  t.freeSymbols[i].name # name
    <3> DEFINE n == t.freeSymbols[i].name
    <3>1. n \in DOMAIN t.store /\ t.store[n] = Symbol(n, "FREE", i - 1)
      BY <2>2 DEF FreeFit
    <3> HIDE DEF n
    <3>2. t.store[n].scope = "FREE"
      BY <3>1 DEF Symbol
    <3>3. n # name
      BY <3>1, <3>2 DEF Slotted, Defines
    <3> QED BY <3>3 DEF n
  <2> QED BY <1>1, <2>1, <2>2 DEF FreeFit
<1> QED BY <1>6, <1>7 DEF u

(* A builtin's or a function's own name takes no place.                     *)
LEMMA StoreFits ==
    ASSUME NEW t \in Table, SlotsFit(t), FreeFit(t), NEW name \in STRING, ~Defines(t, name),
           NEW scope \in {"BUILTIN", "FUNCTION"}, NEW index \in Nat
    PROVE  LET u == Store(t, name, Symbol(name, scope, index))
           IN  /\ u \in Table /\ SlotsFit(u) /\ FreeFit(u)
               /\ u.freeSymbols = t.freeSymbols
               /\ DOMAIN u.store = DOMAIN t.store \union {name}
               /\ u.store[name].scope = scope
               /\ \A n \in DOMAIN t.store : u.store[n] = t.store[n]
<1> DEFINE symbol == Symbol(name, scope, index)
           u == Store(t, name, symbol)
<1>1. symbol \in Symbols /\ symbol.name = name /\ symbol.scope = scope
  BY DEF Symbol, Symbols
<1>2. /\ u \in Table
      /\ DOMAIN u.store = DOMAIN t.store \union {name}
      /\ u.store[name] = symbol
      /\ \A n \in DOMAIN t.store \ {name} : u.store[n] = t.store[n]
      /\ u.numDefinitions = t.numDefinitions
      /\ u.freeSymbols = t.freeSymbols
  <2> HIDE DEF symbol
  <2> QED BY <1>1, StoreFacts
<1> HIDE DEF u, symbol
<1>3. SlotsFit(u)
  BY <1>1, <1>2 DEF SlotsFit, Slotted, Defines
<1>4. FreeFit(u)
  BY <1>1, <1>2 DEF FreeFit, Defines
<1>5. \A n \in DOMAIN t.store : u.store[n] = t.store[n]
  BY <1>2 DEF Defines
<1> QED BY <1>1, <1>2, <1>3, <1>4, <1>5 DEF u, symbol

(* A captured name takes no place, and is the last of the free symbols.     *)
LEMMA FreeFits ==
    ASSUME NEW t \in Table, SlotsFit(t), FreeFit(t),
           NEW original \in Symbols, ~Defines(t, original.name)
    PROVE  SlotsFit(DefineFree(t, original)) /\ FreeFit(DefineFree(t, original))
<1> DEFINE u == DefineFree(t, original)
           name == original.name
           free == t.freeSymbols
<1>1. /\ DOMAIN u.store = DOMAIN t.store \union {name}
      /\ u.store[name] = Symbol(name, "FREE", Len(free))
      /\ \A n \in DOMAIN t.store \ {name} : u.store[n] = t.store[n]
      /\ u.numDefinitions = t.numDefinitions
      /\ u.freeSymbols = Append(free, original)
  BY FreeFacts
<1>2. /\ free \in Seq(Symbols) /\ name \notin DOMAIN t.store
      /\ \A n \in DOMAIN t.store : t.store[n].index \in Nat
  BY TableFacts DEF Defines, Symbols
<1>3. /\ u.store[name].name = name /\ u.store[name].scope = "FREE"
      /\ u.store[name].index = Len(free)
  BY <1>1 DEF Symbol
<1> HIDE DEF u, name, free
<1>4. SlotsFit(u)
  BY <1>1, <1>2, <1>3 DEF SlotsFit, Slotted
<1>5. /\ DOMAIN Append(free, original) = DOMAIN free \union {Len(free) + 1}
      /\ \A i \in DOMAIN free : Append(free, original)[i] = free[i]
      /\ Append(free, original)[Len(free) + 1] = original
  BY <1>2
<1>6. FreeFit(u)
  <2>1. ASSUME NEW n \in DOMAIN u.store, u.store[n].scope = "FREE"
        PROVE  /\ u.store[n].index + 1 \in DOMAIN u.freeSymbols
               /\ u.freeSymbols[u.store[n].index + 1].name = n
    <3>1. CASE n = name
      BY <1>1, <1>3, <1>5, <3>1 DEF name
    <3>2. CASE n # name
      BY <1>1, <1>5, <2>1, <3>2 DEF FreeFit, free
    <3> QED BY <3>1, <3>2
  <2>2. ASSUME NEW i \in DOMAIN u.freeSymbols
        PROVE  LET n == u.freeSymbols[i].name
               IN  n \in DOMAIN u.store /\ u.store[n] = Symbol(n, "FREE", i - 1)
    <3>1. CASE i = Len(free) + 1
      <4>1. u.freeSymbols[i].name = name /\ i - 1 = Len(free)
        BY <1>1, <1>2, <1>5, <3>1 DEF name
      <4> QED BY <1>1, <4>1
    <3>2. CASE i \in DOMAIN free
      <4>1. u.freeSymbols[i] = free[i]
        BY <1>1, <1>5, <3>2
      <4>2. /\ free[i].name \in DOMAIN t.store
            /\ t.store[free[i].name] = Symbol(free[i].name, "FREE", i - 1)
        BY <3>2 DEF FreeFit, free
      <4> QED BY <1>1, <1>2, <4>1, <4>2
    <3> QED BY <1>1, <1>5, <2>2, <3>1, <3>2
  <2> QED BY <2>1, <2>2 DEF FreeFit
<1> QED BY <1>4, <1>6 DEF u

-----------------------------------------------------------------------------
(* The chain of tables.                                                     *)

LEMMA ChainFacts ==
    ASSUME NEW tables, WellFormedTables(tables)
    PROVE  /\ Len(tables) \in Nat \ {0}
           /\ DOMAIN tables = 1..Len(tables)
           /\ \A k \in DOMAIN tables :
                 tables[k] \in Table /\ SlotsFit(tables[k]) /\ FreeFit(tables[k])
           /\ Top(tables) = tables[Len(tables)] /\ Len(tables) \in DOMAIN tables
  BY DEF WellFormedTables, Top

(* The innermost table may change as long as what it captures stays.        *)
LEMMA TopChanges ==
    ASSUME NEW tables, WellFormedTables(tables), NEW u \in Table, SlotsFit(u), FreeFit(u),
           u.freeSymbols = Top(tables).freeSymbols,
           IsRoot(tables) => \A n \in DOMAIN u.store : u.store[n].scope \in {"GLOBAL", "BUILTIN"}
    PROVE  WellFormedTables([tables EXCEPT ![Len(tables)] = u])
<1> DEFINE last == Len(tables)
           then == [tables EXCEPT ![last] = u]
<1>1. /\ last \in Nat \ {0} /\ DOMAIN tables = 1..last
      /\ Top(tables) = tables[last] /\ last \in DOMAIN tables
      /\ \A k \in DOMAIN tables : SlotsFit(tables[k]) /\ FreeFit(tables[k])
  BY ChainFacts
<1>2. then \in Seq(Table) /\ DOMAIN then = DOMAIN tables /\ then # <<>>
  BY <1>1 DEF WellFormedTables
<1>3. then[last] = u /\ \A k \in DOMAIN tables \ {last} : then[k] = tables[k]
  BY <1>1
<1> HIDE DEF then, last
<1>4. \A n \in DOMAIN then[1].store : then[1].store[n].scope \in {"GLOBAL", "BUILTIN"}
  BY <1>1, <1>3 DEF WellFormedTables, IsRoot, last
<1>5. \A k \in DOMAIN then : SlotsFit(then[k]) /\ FreeFit(then[k])
  BY <1>1, <1>2, <1>3
<1>6. ASSUME NEW k \in DOMAIN then, k > 1
      PROVE  CapturesFit(then[k], then[k - 1])
  <2>1. CapturesFit(tables[k], tables[k - 1])
    BY <1>2, <1>6 DEF WellFormedTables
  <2>2. then[k - 1] = tables[k - 1]
    BY <1>1, <1>2, <1>3, <1>6
  <2>3. then[k].freeSymbols = tables[k].freeSymbols
    BY <1>1, <1>2, <1>3 DEF last
  <2> QED BY <2>1, <2>2, <2>3 DEF CapturesFit
<1> QED BY <1>2, <1>4, <1>5, <1>6 DEF WellFormedTables, then, last

LEMMA EnterKeeps ==
    ASSUME NEW tables, WellFormedTables(tables)
    PROVE  WellFormedTables(Append(tables, EmptyTable))
<1> DEFINE then == Append(tables, EmptyTable)
           last == Len(tables)
<1>1. /\ last \in Nat \ {0} /\ DOMAIN tables = 1..last /\ tables \in Seq(Table)
      /\ \A k \in DOMAIN tables : SlotsFit(tables[k]) /\ FreeFit(tables[k])
  BY ChainFacts DEF WellFormedTables
<1>2. /\ then \in Seq(Table) /\ then # <<>> /\ DOMAIN then = 1..(last + 1)
      /\ then[last + 1] = EmptyTable /\ \A k \in 1..last : then[k] = tables[k]
  BY <1>1, EmptyFits
<1> HIDE DEF then, last
<1>3. \A n \in DOMAIN then[1].store : then[1].store[n].scope \in {"GLOBAL", "BUILTIN"}
  BY <1>1, <1>2 DEF WellFormedTables
<1>4. \A k \in DOMAIN then : SlotsFit(then[k]) /\ FreeFit(then[k])
  BY <1>1, <1>2, EmptyFits
<1>5. ASSUME NEW k \in DOMAIN then, k > 1
      PROVE  CapturesFit(then[k], then[k - 1])
  <2>1. CASE k = last + 1
    BY <1>2, <2>1, EmptyFits DEF CapturesFit
  <2>2. CASE k \in 1..last
    <3>1. then[k] = tables[k] /\ then[k - 1] = tables[k - 1]
      BY <1>1, <1>2, <1>5, <2>2
    <3> QED BY <1>1, <1>5, <2>2, <3>1 DEF WellFormedTables
  <2> QED BY <1>1, <1>2, <2>1, <2>2
<1> QED BY <1>2, <1>3, <1>4, <1>5 DEF WellFormedTables, then

LEMMA LeaveKeeps ==
    ASSUME NEW tables, WellFormedTables(tables), Len(tables) > 1
    PROVE  WellFormedTables(SubSeq(tables, 1, Len(tables) - 1))
<1> DEFINE then == SubSeq(tables, 1, Len(tables) - 1)
           last == Len(tables)
<1>1. /\ last \in Nat \ {0} /\ DOMAIN tables = 1..last /\ tables \in Seq(Table)
      /\ \A k \in DOMAIN tables : SlotsFit(tables[k]) /\ FreeFit(tables[k])
  BY ChainFacts DEF WellFormedTables
<1>2. /\ then \in Seq(Table) /\ DOMAIN then = 1..(last - 1)
      /\ \A k \in 1..(last - 1) : then[k] = tables[k]
  BY <1>1
<1>3. then # <<>> /\ 1 \in DOMAIN then
  BY <1>1, <1>2
<1> HIDE DEF then
<1>4. \A n \in DOMAIN then[1].store : then[1].store[n].scope \in {"GLOBAL", "BUILTIN"}
  BY <1>1, <1>2, <1>3 DEF WellFormedTables
<1>5. \A k \in DOMAIN then : SlotsFit(then[k]) /\ FreeFit(then[k])
  BY <1>1, <1>2
<1>6. ASSUME NEW k \in DOMAIN then, k > 1
      PROVE  CapturesFit(then[k], then[k - 1])
  <2>1. then[k] = tables[k] /\ then[k - 1] = tables[k - 1] /\ k \in DOMAIN tables
    BY <1>1, <1>2, <1>6
  <2> QED BY <1>6, <2>1 DEF WellFormedTables
<1> QED BY <1>2, <1>3, <1>4, <1>5, <1>6 DEF WellFormedTables, then

LEMMA DefineKeeps ==
    ASSUME NEW tables, WellFormedTables(tables), NEW name \in STRING, Definable(tables, name)
    PROVE  /\ WellFormedTables(Define(tables, name))
           /\ ~IsRoot(tables) => WellFormedTables(DefineField(tables, name))
<1> DEFINE t == Top(tables)
<1>1. t \in Table /\ SlotsFit(t) /\ FreeFit(t) /\ t = tables[Len(tables)]
  BY ChainFacts
<1>2. Defines(t, name) => t.store[name].scope \in Slotted
  BY DEF Definable, Defined
<1>3. ASSUME NEW scope \in Slotted, IsRoot(tables) => scope = "GLOBAL"
      PROVE  WellFormedTables([tables EXCEPT ![Len(tables)] = DefineInTable(@, name, scope)])
  <2> DEFINE u == DefineInTable(t, name, scope)
  <2>1. SlotsFit(u) /\ FreeFit(u)
    <3> HIDE DEF t
    <3> QED BY <1>1, <1>2, DefineFits
  <2>2. /\ u \in Table /\ u.freeSymbols = t.freeSymbols
        /\ DOMAIN u.store = DOMAIN t.store \union {name}
        /\ u.store[name].scope = scope
        /\ \A n \in DOMAIN t.store \ {name} : u.store[n] = t.store[n]
    <3> DEFINE index == IF Defines(t, name) THEN t.store[name].index ELSE t.numDefinitions
    <3> HIDE DEF t
    <3>1. /\ u \in Table /\ u.freeSymbols = t.freeSymbols
          /\ DOMAIN u.store = DOMAIN t.store \union {name}
          /\ u.store[name] = Symbol(name, scope, index)
          /\ \A n \in DOMAIN t.store \ {name} : u.store[n] = t.store[n]
      BY <1>1, DefineFacts
    <3> HIDE DEF u, index
    <3> QED BY <3>1 DEF Symbol
  <2>3. IsRoot(tables) => \A n \in DOMAIN u.store : u.store[n].scope \in {"GLOBAL", "BUILTIN"}
    <3> HIDE DEF u
    <3> QED BY <1>1, <1>3, <2>2 DEF WellFormedTables, IsRoot
  <2>4. WellFormedTables([tables EXCEPT ![Len(tables)] = u])
    <3> HIDE DEF u
    <3> QED BY <2>1, <2>2, <2>3, TopChanges
  <2>5. [tables EXCEPT ![Len(tables)] = DefineInTable(@, name, scope)]
            = [tables EXCEPT ![Len(tables)] = u]
    BY <1>1
  <2> QED BY <2>4, <2>5
<1>4. WellFormedTables(Define(tables, name))
  BY <1>3 DEF Define, Slotted
<1>5. ~IsRoot(tables) => WellFormedTables(DefineField(tables, name))
  BY <1>3 DEF DefineField, Slotted
<1> QED BY <1>4, <1>5

LEMMA OwnNameKeeps ==
    ASSUME NEW tables, WellFormedTables(tables), NEW name \in STRING, ~Defines(Top(tables), name)
    PROVE  /\ ~IsRoot(tables) => WellFormedTables(DefineFunctionName(tables, name))
           /\ \A index \in Nat : IsRoot(tables) => WellFormedTables(DefineBuiltin(tables, index, name))
<1> DEFINE t == Top(tables)
<1>1. t \in Table /\ SlotsFit(t) /\ FreeFit(t) /\ t = tables[Len(tables)]
  BY ChainFacts
<1>2. ASSUME NEW scope \in {"BUILTIN", "FUNCTION"}, NEW index \in Nat,
             IsRoot(tables) => scope = "BUILTIN"
      PROVE  WellFormedTables([tables EXCEPT
                 ![Len(tables)] = Store(@, name, Symbol(name, scope, index))])
  <2> DEFINE u == Store(t, name, Symbol(name, scope, index))
  <2>1. /\ u \in Table /\ SlotsFit(u) /\ FreeFit(u)
        /\ u.freeSymbols = t.freeSymbols
        /\ DOMAIN u.store = DOMAIN t.store \union {name}
        /\ u.store[name].scope = scope
        /\ \A n \in DOMAIN t.store : u.store[n] = t.store[n]
    <3> HIDE DEF t
    <3>1. ~Defines(t, name)
      BY DEF t
    <3> QED BY <1>1, <3>1, StoreFits
  <2>2. IsRoot(tables) => \A n \in DOMAIN u.store : u.store[n].scope \in {"GLOBAL", "BUILTIN"}
    <3> HIDE DEF u
    <3> QED BY <1>1, <1>2, <2>1 DEF WellFormedTables, IsRoot
  <2>3. WellFormedTables([tables EXCEPT ![Len(tables)] = u])
    <3> HIDE DEF u
    <3> QED BY <2>1, <2>2, TopChanges
  <2>4. [tables EXCEPT ![Len(tables)] = Store(@, name, Symbol(name, scope, index))]
            = [tables EXCEPT ![Len(tables)] = u]
    BY <1>1
  <2> QED BY <2>3, <2>4
<1>3. ~IsRoot(tables) => WellFormedTables(DefineFunctionName(tables, name))
  BY <1>2 DEF DefineFunctionName
<1>4. ASSUME NEW index \in Nat, IsRoot(tables)
      PROVE  WellFormedTables(DefineBuiltin(tables, index, name))
  BY <1>2, <1>4 DEF DefineBuiltin
<1> QED BY <1>3, <1>4

-----------------------------------------------------------------------------
(* Resolving a name.                                                        *)

(* The owner is the innermost table that has the name.                      *)
LEMMA OwnerFacts ==
    ASSUME NEW tables, WellFormedTables(tables), NEW name, Owners(tables, name) # {}
    PROVE  LET owner == OwnerOf(tables, name)
           IN  /\ owner \in DOMAIN tables /\ Defines(tables[owner], name)
               /\ \A k \in DOMAIN tables : k > owner => ~Defines(tables[k], name)
<1> DEFINE S == Owners(tables, name)
           N == Len(tables)
           owner == OwnerOf(tables, name)
<1>1. N \in Nat /\ DOMAIN tables = 1..N
  BY ChainFacts
<1>2. S \in SUBSET (0..N) /\ S # {} /\ S \subseteq 1..N
  BY <1>1 DEF Owners
<1>3. \E x \in S : \A y \in S : y <= x
  <2> HIDE DEF S, N
  <2> QED BY <1>1, <1>2, Greatest
<1>4. owner \in S /\ \A y \in S : y <= owner
  BY <1>3 DEF OwnerOf
<1>5. owner \in 1..N /\ Defines(tables[owner], name)
  BY <1>1, <1>4 DEF Owners
<1>6. ASSUME NEW k \in DOMAIN tables, k > owner
      PROVE  ~Defines(tables[k], name)
  <2>1. k \notin S
    BY <1>1, <1>4, <1>5, <1>6
  <2> QED BY <2>1 DEF Owners
<1> QED BY <1>1, <1>5, <1>6

(* A name that is captured: what the tables of the functions between become. *)
LEMMA CaptureFacts ==
    ASSUME NEW tables, WellFormedTables(tables), NEW name \in STRING, Owners(tables, name) # {},
           tables[OwnerOf(tables, name)].store[name].scope \notin PassedOn
    PROVE  LET owner == OwnerOf(tables, name)
               then == Resolve(tables, name).tables
           IN  /\ then \in Seq(Table) /\ DOMAIN then = DOMAIN tables
               /\ \A k \in DOMAIN tables : k <= owner => then[k] = tables[k]
               /\ \A k \in DOMAIN tables : k >= owner =>
                     /\ name \in DOMAIN then[k].store
                     /\ then[k].store[name] \in Symbols
                     /\ then[k].store[name].name = name
                     /\ then[k].store[name].scope \in Capturable
               /\ \A k \in DOMAIN tables : k > owner =>
                     /\ then[k] = DefineFree(tables[k], then[k - 1].store[name])
                     /\ then[k].store[name] = Symbol(name, "FREE", Len(tables[k].freeSymbols))
               /\ Resolve(tables, name).symbol = then[Len(tables)].store[name]
<1> DEFINE owner == OwnerOf(tables, name)
           found == tables[owner].store[name]
           Seen(k) == IF k = owner THEN found
                      ELSE Symbol(name, "FREE", Len(tables[k].freeSymbols))
           captured == [k \in DOMAIN tables |->
                           IF k <= owner THEN tables[k] ELSE DefineFree(tables[k], Seen(k - 1))]
           N == Len(tables)
<1>1. /\ N \in Nat \ {0} /\ DOMAIN tables = 1..N
      /\ \A k \in DOMAIN tables : tables[k] \in Table /\ SlotsFit(tables[k])
  BY ChainFacts
<1>2. /\ owner \in 1..N /\ Defines(tables[owner], name)
      /\ \A k \in DOMAIN tables : k > owner => ~Defines(tables[k], name)
  BY <1>1, OwnerFacts
<1>3. Resolve(tables, name) = [tables |-> captured, symbol |-> Seen(N)]
  BY DEF Resolve
<1> HIDE DEF owner, N
<1>4. ASSUME NEW k \in 1..N, k >= owner
      PROVE  Seen(k) \in Symbols /\ Seen(k).name = name /\ Seen(k).scope \in Capturable
  <2>1. tables[k] \in Table
    BY <1>1
  <2>2. CASE k = owner
    <3>1. found \in Symbols /\ found.name = name
      BY <1>1, <1>2, TableFacts DEF Defines, SlotsFit
    <3>2. found.scope \in Capturable
      BY <3>1 DEF Symbols, PassedOn, Capturable, owner
    <3> QED BY <2>2, <3>1, <3>2
  <2>3. CASE k # owner
    <3>1. Len(tables[k].freeSymbols) \in Nat
      BY <2>1, TableFacts
    <3> QED BY <2>3, <3>1 DEF Symbol, Symbols, Capturable
  <2> QED BY <2>2, <2>3
<1> HIDE DEF Seen
<1>5. ASSUME NEW k \in 1..N, k > owner
      PROVE  /\ captured[k] = DefineFree(tables[k], Seen(k - 1))
             /\ captured[k] \in Table
             /\ name \in DOMAIN captured[k].store
             /\ captured[k].store[name] = Symbol(name, "FREE", Len(tables[k].freeSymbols))
             /\ captured[k].store[name] = Seen(k)
  <2>1. k - 1 \in 1..N /\ k - 1 >= owner
    BY <1>1, <1>2, <1>5
  <2>2. Seen(k - 1) \in Symbols /\ Seen(k - 1).name = name
    BY <1>4, <2>1
  <2>3. captured[k] = DefineFree(tables[k], Seen(k - 1))
    BY <1>1, <1>2, <1>5
  <2>4. /\ captured[k] \in Table
        /\ DOMAIN captured[k].store = DOMAIN tables[k].store \union {name}
        /\ captured[k].store[name] = Symbol(name, "FREE", Len(tables[k].freeSymbols))
    <3> HIDE DEF captured
    <3>1. tables[k] \in Table
      BY <1>1
    <3> QED BY <2>2, <2>3, <3>1, FreeFacts
  <2>5. Seen(k) = Symbol(name, "FREE", Len(tables[k].freeSymbols))
    BY <1>2, <1>5 DEF Seen
  <2> QED BY <2>3, <2>4, <2>5
<1>6. /\ captured[owner] = tables[owner] /\ Seen(owner) = captured[owner].store[name]
      /\ name \in DOMAIN captured[owner].store
  BY <1>1, <1>2 DEF Seen, Defines
<1>7. ASSUME NEW k \in 1..N, k <= owner
      PROVE  captured[k] = tables[k] /\ captured[k] \in Table
  BY <1>1, <1>7
<1>8. captured \in Seq(Table) /\ DOMAIN captured = 1..N
  <2>1. DOMAIN captured = 1..N
    BY <1>1
  <2>2. \A k \in 1..N : captured[k] \in Table
    BY <1>1, <1>2, <1>5, <1>7
  <2>3. captured = [k \in 1..N |-> captured[k]]
    BY <1>1
  <2> HIDE DEF captured
  <2> QED BY <1>1, <2>1, <2>2, <2>3
<1> HIDE DEF captured
<1>9. \A k \in 1..N : k >= owner =>
         name \in DOMAIN captured[k].store /\ captured[k].store[name] = Seen(k)
  BY <1>1, <1>2, <1>5, <1>6
<1>10. \A k \in 1..N : k > owner =>
          /\ captured[k] = DefineFree(tables[k], captured[k - 1].store[name])
          /\ captured[k].store[name] = Symbol(name, "FREE", Len(tables[k].freeSymbols))
  BY <1>1, <1>2, <1>5, <1>9
<1>11. N \in 1..N /\ N >= owner
  BY <1>1, <1>2
<1> QED BY <1>1, <1>2, <1>3, <1>4, <1>7, <1>8, <1>9, <1>10, <1>11 DEF owner, N

(* Resolving keeps the chain, also when it makes captures at every level.   *)
LEMMA ResolveKeeps ==
    ASSUME NEW tables, WellFormedTables(tables), NEW name \in STRING
    PROVE  WellFormedTables(Resolve(tables, name).tables)
<1> DEFINE owner == OwnerOf(tables, name)
           then == Resolve(tables, name).tables
<1>1. CASE \/ Owners(tables, name) = {}
           \/ tables[owner].store[name].scope \in PassedOn
  <2>1. then = tables
    BY <1>1 DEF Resolve
  <2> HIDE DEF then
  <2> QED BY <2>1 DEF then
<1>2. CASE /\ Owners(tables, name) # {}
           /\ tables[owner].store[name].scope \notin PassedOn
  <2>0. /\ Len(tables) \in Nat \ {0} /\ DOMAIN tables = 1..Len(tables)
        /\ \A k \in DOMAIN tables :
              tables[k] \in Table /\ SlotsFit(tables[k]) /\ FreeFit(tables[k])
    BY ChainFacts
  <2>1. /\ owner \in DOMAIN tables /\ Defines(tables[owner], name)
        /\ \A k \in DOMAIN tables : k > owner => ~Defines(tables[k], name)
    BY <1>2, OwnerFacts
  <2>2. /\ then \in Seq(Table) /\ DOMAIN then = DOMAIN tables
        /\ \A k \in DOMAIN tables : k <= owner => then[k] = tables[k]
        /\ \A k \in DOMAIN tables : k >= owner =>
              /\ name \in DOMAIN then[k].store
              /\ then[k].store[name] \in Symbols
              /\ then[k].store[name].name = name
              /\ then[k].store[name].scope \in Capturable
        /\ \A k \in DOMAIN tables : k > owner =>
              then[k] = DefineFree(tables[k], then[k - 1].store[name])
    BY <1>2, CaptureFacts
  <2> HIDE DEF then, owner
  <2>3. ASSUME NEW k \in DOMAIN tables, k > owner
        PROVE  /\ k - 1 \in DOMAIN tables /\ k - 1 >= owner
               /\ SlotsFit(then[k]) /\ FreeFit(then[k])
               /\ then[k].freeSymbols = Append(tables[k].freeSymbols, then[k - 1].store[name])
               /\ \A n \in DOMAIN tables[k].store :
                     n \in DOMAIN then[k].store /\ then[k].store[n] = tables[k].store[n]
    <3> DEFINE original == then[k - 1].store[name]
    <3>1. k - 1 \in DOMAIN tables /\ k - 1 >= owner
      BY <2>0, <2>1, <2>3
    <3>2. original \in Symbols /\ original.name = name
      BY <2>2, <3>1
    <3>3. then[k] = DefineFree(tables[k], original)
      BY <2>2, <2>3
    <3>4. tables[k] \in Table /\ SlotsFit(tables[k]) /\ FreeFit(tables[k])
      BY <2>0
    <3>5. ~Defines(tables[k], original.name) /\ name \notin DOMAIN tables[k].store
      BY <2>1, <2>3, <3>2 DEF Defines
    <3> HIDE DEF original
    <3>6. SlotsFit(then[k]) /\ FreeFit(then[k])
      BY <3>2, <3>3, <3>4, <3>5, FreeFits
    <3>7. /\ DOMAIN then[k].store = DOMAIN tables[k].store \union {name}
          /\ \A n \in DOMAIN tables[k].store \ {name} : then[k].store[n] = tables[k].store[n]
          /\ then[k].freeSymbols = Append(tables[k].freeSymbols, original)
      BY <3>2, <3>3, <3>4, FreeFacts
    <3> QED BY <3>1, <3>5, <3>6, <3>7 DEF original
  <2>4. \A k \in DOMAIN tables : SlotsFit(then[k]) /\ FreeFit(then[k])
    BY <2>0, <2>1, <2>2, <2>3
  <2>5. \A k \in DOMAIN tables : \A n \in DOMAIN tables[k].store :
           n \in DOMAIN then[k].store /\ then[k].store[n] = tables[k].store[n]
    BY <2>0, <2>1, <2>2, <2>3
  <2>6. \A n \in DOMAIN then[1].store : then[1].store[n].scope \in {"GLOBAL", "BUILTIN"}
    <3>1. then[1] = tables[1]
      BY <2>0, <2>1, <2>2
    <3> QED BY <3>1 DEF WellFormedTables
  <2>7. ASSUME NEW k \in DOMAIN tables, k > 1
        PROVE  CapturesFit(then[k], then[k - 1])
    <3>0. k - 1 \in DOMAIN tables
      BY <2>0, <2>7
    <3>1. \A i \in DOMAIN tables[k].freeSymbols :
             LET n == tables[k].freeSymbols[i].name
             IN  /\ n \in DOMAIN tables[k - 1].store
                 /\ tables[k - 1].store[n] = tables[k].freeSymbols[i]
                 /\ tables[k].freeSymbols[i].scope \in Capturable
      BY <2>7 DEF WellFormedTables, CapturesFit
    <3>2. \A i \in DOMAIN tables[k].freeSymbols :
             LET n == tables[k].freeSymbols[i].name
             IN  /\ n \in DOMAIN then[k - 1].store
                 /\ then[k - 1].store[n] = tables[k].freeSymbols[i]
                 /\ tables[k].freeSymbols[i].scope \in Capturable
      BY <2>5, <3>0, <3>1
    <3>3. CASE k <= owner
      <4>1. then[k] = tables[k]
        BY <2>2, <3>3
      <4> QED BY <3>2, <4>1 DEF CapturesFit
    <3>4. CASE k > owner
      <4> DEFINE original == then[k - 1].store[name]
                 free == tables[k].freeSymbols
      <4>1. then[k].freeSymbols = Append(free, original)
        BY <2>3, <3>4
      <4>2. /\ original.name = name /\ original.scope \in Capturable
            /\ name \in DOMAIN then[k - 1].store
        BY <2>2, <2>3, <3>4
      <4>3. free \in Seq(Symbols)
        BY <2>0, TableFacts
      <4> HIDE DEF original, free
      <4>4. \A i \in DOMAIN then[k].freeSymbols :
               \/ i \in DOMAIN free /\ then[k].freeSymbols[i] = free[i]
               \/ then[k].freeSymbols[i] = original
        BY <4>1, <4>3
      <4>5. ASSUME NEW i \in DOMAIN then[k].freeSymbols
            PROVE  LET n == then[k].freeSymbols[i].name
                   IN  /\ n \in DOMAIN then[k - 1].store
                       /\ then[k - 1].store[n] = then[k].freeSymbols[i]
                       /\ then[k].freeSymbols[i].scope \in Capturable
        <5>1. CASE i \in DOMAIN free /\ then[k].freeSymbols[i] = free[i]
          BY <3>2, <5>1 DEF free
        <5>2. CASE then[k].freeSymbols[i] = original
          BY <4>2, <5>2 DEF original
        <5> QED BY <4>4, <5>1, <5>2
      <4> QED BY <4>5 DEF CapturesFit
    <3> QED BY <2>0, <2>1, <3>3, <3>4
  <2>8. then # <<>>
    BY <2>0, <2>2
  <2> QED BY <2>2, <2>4, <2>6, <2>7, <2>8 DEF WellFormedTables, then
<1> QED BY <1>1, <1>2

-----------------------------------------------------------------------------
(* Whatever the compiler enters, leaves, defines and resolves, in any order *)
(* and at any depth: locals, globals and fields have places of their own    *)
(* below the number that the frame gets (num_locals), and every free symbol *)
(* of an open scope is what the scope around it has under that name, a local *)
(* or a captured one, when it makes the closure.  The premise is that no    *)
(* function defines a name that it has used as a captured one, a builtin or *)
(* its own name.                                                            *)
THEOREM TablesStayWellFormed ==
    ASSUME NEW tables, WellFormedTables(tables), NEW then, Compiles(tables, then)
    PROVE  WellFormedTables(then)
<1>1. Top(tables) = EmptyTable => \A name \in STRING : ~Defines(Top(tables), name)
  BY EmptyFits DEF Defines
<1> QED BY <1>1, EnterKeeps, LeaveKeeps, DefineKeeps, OwnNameKeeps, ResolveKeeps DEF Compiles

(* The table a compiler starts with.                                        *)
LEMMA FirstTableIsWellFormed == WellFormedTables(<<EmptyTable>>)
  BY EmptyFits DEF WellFormedTables

\* The function (or class, or program) that a name belongs to at the innermost
\* one: those between have it only as a captured name, if at all.
Belongs(tables, name, home) ==
    /\ Defines(tables[home], name) /\ tables[home].store[name].scope # "FREE"
    /\ \A k \in DOMAIN tables :
          k > home /\ Defines(tables[k], name) => tables[k].store[name].scope = "FREE"

\* Free symbols lead from the innermost function to home, one function at a time.
LeadsTo(tables, name, home) ==
    \A k \in DOMAIN tables : k > home =>
        LET symbol == tables[k].store[name]
        IN  /\ Defines(tables[k], name) /\ symbol.scope = "FREE"
            /\ tables[k].freeSymbols[symbol.index + 1] = tables[k - 1].store[name]

(* A table that has a name as a captured one: what it captures is what the  *)
(* next table outside has under that name.                                  *)
LEMMA CaptureLeads ==
    ASSUME NEW tables, WellFormedTables(tables), NEW name, NEW k \in DOMAIN tables,
           Defines(tables[k], name), tables[k].store[name].scope = "FREE"
    PROVE  /\ k > 1 /\ k - 1 \in DOMAIN tables /\ Defines(tables[k - 1], name)
           /\ tables[k - 1].store[name].scope \in Capturable
           /\ tables[k].freeSymbols[tables[k].store[name].index + 1] = tables[k - 1].store[name]
<1> DEFINE free == tables[k].freeSymbols
           i == tables[k].store[name].index + 1
<1>1. DOMAIN tables = 1..Len(tables) /\ Len(tables) \in Nat /\ FreeFit(tables[k])
  BY ChainFacts
<1>2. k > 1 /\ k - 1 \in DOMAIN tables
  <2>1. k # 1
    BY DEF WellFormedTables, Defines
  <2> QED BY <1>1, <2>1
<1>3. i \in DOMAIN free /\ free[i].name = name
  BY <1>1 DEF FreeFit, Defines
<1>4. CapturesFit(tables[k], tables[k - 1])
  BY <1>2 DEF WellFormedTables
<1> HIDE DEF i
<1>5. /\ name \in DOMAIN tables[k - 1].store /\ tables[k - 1].store[name] = free[i]
      /\ free[i].scope \in Capturable
  BY <1>3, <1>4 DEF CapturesFit
<1> QED BY <1>2, <1>5 DEF i, Defines

(* A name that some table has belongs to one, and all from there to its     *)
(* owner have captured it.                                                  *)
LEMMA HomeExists ==
    ASSUME NEW tables, WellFormedTables(tables), NEW name, Owners(tables, name) # {}
    PROVE  \E home \in DOMAIN tables :
              /\ home <= OwnerOf(tables, name)
              /\ Defines(tables[home], name) /\ tables[home].store[name].scope # "FREE"
              /\ \A k \in DOMAIN tables : k > home /\ k <= OwnerOf(tables, name) =>
                    Defines(tables[k], name) /\ tables[k].store[name].scope = "FREE"
<1> DEFINE owner == OwnerOf(tables, name)
           Captured(k) == Defines(tables[k], name) /\ tables[k].store[name].scope = "FREE"
           S == {k \in 1..owner : ~Captured(k)}
<1>1. /\ DOMAIN tables = 1..Len(tables) /\ Len(tables) \in Nat
      /\ owner \in DOMAIN tables /\ Defines(tables[owner], name)
  BY ChainFacts, OwnerFacts
<1> HIDE DEF owner
<1>2. ASSUME NEW k \in DOMAIN tables, Captured(k)
      PROVE  k > 1 /\ Defines(tables[k - 1], name)
  BY <1>2, CaptureLeads
<1>3. 1 \in S
  <2>1. ~Captured(1)
    BY <1>1, <1>2
  <2> QED BY <1>1, <2>1
<1>4. PICK h \in S : \A y \in S : y <= h
  <2>1. S \in SUBSET (0..owner) /\ S # {} /\ owner \in Nat
    BY <1>1, <1>3
  <2> HIDE DEF S
  <2> QED BY <2>1, Greatest
<1> HIDE DEF Captured
<1>5. h \in DOMAIN tables /\ h <= owner /\ ~Captured(h)
  BY <1>1
<1>6. ASSUME NEW k \in DOMAIN tables, k > h, k <= owner PROVE Captured(k)
  <2>1. k \in 1..owner /\ ~(k <= h)
    BY <1>1, <1>5, <1>6
  <2> QED BY <1>4, <2>1
<1>7. Defines(tables[h], name)
  <2>1. CASE h = owner
    BY <1>1, <2>1
  <2>2. CASE h # owner
    <3>1. h + 1 \in DOMAIN tables /\ h + 1 > h /\ h + 1 <= owner /\ h + 1 - 1 = h
      BY <1>1, <1>5, <2>2
    <3> QED BY <1>2, <1>6, <3>1
  <2> QED BY <2>1, <2>2
<1> QED BY <1>5, <1>6, <1>7 DEF Captured, owner

(* resolve finds a name exactly if some table has it, and then the name     *)
(* belongs to one of them.                                                  *)
THEOREM EveryNameHasAHome ==
    ASSUME NEW tables, WellFormedTables(tables), NEW name
    PROVE  IF \E k \in DOMAIN tables : Defines(tables[k], name)
           THEN \E home \in DOMAIN tables : Belongs(tables, name, home)
           ELSE Resolve(tables, name) = [tables |-> tables, symbol |-> Unresolved]
<1>1. CASE \E k \in DOMAIN tables : Defines(tables[k], name)
  <2>1. Owners(tables, name) # {}
    BY <1>1 DEF Owners
  <2>2. PICK home \in DOMAIN tables :
           /\ home <= OwnerOf(tables, name)
           /\ Defines(tables[home], name) /\ tables[home].store[name].scope # "FREE"
           /\ \A k \in DOMAIN tables : k > home /\ k <= OwnerOf(tables, name) =>
                 Defines(tables[k], name) /\ tables[k].store[name].scope = "FREE"
    BY <2>1, HomeExists
  <2>3. /\ OwnerOf(tables, name) \in DOMAIN tables
        /\ \A k \in DOMAIN tables : k > OwnerOf(tables, name) => ~Defines(tables[k], name)
    BY <2>1, OwnerFacts
  <2>4. DOMAIN tables = 1..Len(tables) /\ Len(tables) \in Nat
    BY ChainFacts
  <2>5. Belongs(tables, name, home)
    BY <2>2, <2>3, <2>4 DEF Belongs
  <2> QED BY <1>1, <2>5
<1>2. CASE ~(\E k \in DOMAIN tables : Defines(tables[k], name))
  BY <1>2 DEF Owners, Resolve
<1> QED BY <1>1, <1>2

(* Lexical scoping: the symbol that resolve gives for a name is that of the *)
(* innermost function (or class, or program) that has a variable of that    *)
(* name, or a free symbol from which the functions' captures lead there one *)
(* by one, skipping none.  So lookup by slot and index finds the variable    *)
(* that a lookup by name through enclosing environments would.              *)
THEOREM ResolveIsLexical ==
    ASSUME NEW tables, WellFormedTables(tables), NEW name \in STRING,
           NEW home \in DOMAIN tables, Belongs(tables, name, home)
    PROVE  LET r == Resolve(tables, name)
           IN  /\ r.tables[home] = tables[home]
               /\ IF tables[home].store[name].scope \in PassedOn
                  THEN r.tables = tables /\ r.symbol = tables[home].store[name]
                  ELSE /\ LeadsTo(r.tables, name, home)
                       /\ r.symbol = Defined(r.tables, name)
<1> DEFINE owner == OwnerOf(tables, name)
           r == Resolve(tables, name)
           then == r.tables
           homely == tables[home].store[name]
<1>0. Owners(tables, name) # {}
  BY DEF Owners, Belongs
<1>1. /\ DOMAIN tables = 1..Len(tables) /\ Len(tables) \in Nat \ {0}
      /\ Len(tables) \in DOMAIN tables
  BY ChainFacts
<1>2. /\ owner \in DOMAIN tables /\ Defines(tables[owner], name)
      /\ \A k \in DOMAIN tables : k > owner => ~Defines(tables[k], name)
  BY <1>0, OwnerFacts
<1>3. home <= owner
  BY <1>1, <1>2 DEF Belongs
<1>4. PICK h \in DOMAIN tables :
         /\ h <= owner
         /\ Defines(tables[h], name) /\ tables[h].store[name].scope # "FREE"
         /\ \A k \in DOMAIN tables : k > h /\ k <= owner =>
               Defines(tables[k], name) /\ tables[k].store[name].scope = "FREE"
  BY <1>0, HomeExists
<1> HIDE DEF owner
<1>5. h = home
  <2>1. ~(home > h)
    BY <1>3, <1>4 DEF Belongs
  <2>2. ~(h > home)
    BY <1>4 DEF Belongs
  <2> QED BY <1>1, <2>1, <2>2
<1>6. ASSUME NEW k \in DOMAIN tables, k > home, k <= owner
      PROVE  /\ Defines(tables[k], name) /\ tables[k].store[name].scope = "FREE"
             /\ k - 1 \in DOMAIN tables /\ tables[k - 1].store[name].scope \in Capturable
             /\ tables[k].freeSymbols[tables[k].store[name].index + 1] = tables[k - 1].store[name]
  <2>1. Defines(tables[k], name) /\ tables[k].store[name].scope = "FREE"
    BY <1>4, <1>5, <1>6
  <2> QED BY <2>1, CaptureLeads
<1>7. CASE homely.scope \in PassedOn
  <2>1. owner = home
    <3> SUFFICES ASSUME owner # home PROVE FALSE
      OBVIOUS
    <3> HIDE DEF r, then
    <3>1. \E k \in 1..owner : k = home + 1
      BY <1>1, <1>2, <1>3
    <3>2. PICK k \in DOMAIN tables : k > home /\ k <= owner /\ k - 1 = home
      BY <1>1, <1>2, <3>1
    <3>3. tables[k - 1].store[name].scope \in Capturable
      BY <1>6, <3>2
    <3> QED BY <1>7, <3>2, <3>3 DEF PassedOn, Capturable
  <2>2. r = [tables |-> tables, symbol |-> homely]
    BY <1>0, <1>7, <2>1 DEF Resolve, owner
  <2> HIDE DEF r
  <2> QED BY <1>7, <2>2 DEF r
<1>8. CASE homely.scope \notin PassedOn
  <2>1. tables[owner].store[name].scope \notin PassedOn
    <3>1. CASE owner = home
      BY <1>8, <3>1
    <3>2. CASE owner # home
      BY <1>1, <1>2, <1>3, <1>6, <3>2 DEF PassedOn
    <3> QED BY <3>1, <3>2
  <2>2. /\ DOMAIN then = DOMAIN tables
        /\ \A k \in DOMAIN tables : k <= owner => then[k] = tables[k]
        /\ \A k \in DOMAIN tables : k >= owner =>
              /\ name \in DOMAIN then[k].store
              /\ then[k].store[name] \in Symbols
              /\ then[k].store[name].name = name
        /\ \A k \in DOMAIN tables : k > owner =>
              /\ then[k] = DefineFree(tables[k], then[k - 1].store[name])
              /\ then[k].store[name] = Symbol(name, "FREE", Len(tables[k].freeSymbols))
        /\ r.symbol = then[Len(tables)].store[name] /\ then \in Seq(Table)
    BY <1>0, <2>1, CaptureFacts DEF owner
  <2> HIDE DEF then, r
  <2>3. ASSUME NEW k \in DOMAIN then, k > home
        PROVE  /\ Defines(then[k], name) /\ then[k].store[name].scope = "FREE"
               /\ then[k].freeSymbols[then[k].store[name].index + 1] = then[k - 1].store[name]
    <3>1. CASE k <= owner
      <4>1. k - 1 <= owner /\ k - 1 \in DOMAIN tables
        BY <1>1, <1>2, <1>6, <2>2, <2>3, <3>1
      <4> QED BY <1>6, <2>2, <2>3, <3>1, <4>1
    <3>2. CASE k > owner
      <4> DEFINE original == then[k - 1].store[name]
                 free == tables[k].freeSymbols
      <4>1. k - 1 \in DOMAIN tables /\ k - 1 >= owner /\ tables[k] \in Table
        BY <1>1, <1>2, <2>2, <2>3, <3>2, ChainFacts
      <4>2. original \in Symbols /\ then[k] = DefineFree(tables[k], original)
        BY <2>2, <2>3, <3>2, <4>1
      <4>3. then[k].freeSymbols = Append(free, original) /\ free \in Seq(Symbols)
        <5> HIDE DEF original
        <5> QED BY <4>1, <4>2, FreeFacts, TableFacts
      <4>4. then[k].store[name].scope = "FREE" /\ then[k].store[name].index = Len(free)
        <5>1. then[k].store[name] = Symbol(name, "FREE", Len(free))
          BY <2>2, <2>3, <3>2
        <5> QED BY <5>1 DEF Symbol
      <4>5. Defines(then[k], name)
        BY <1>1, <1>2, <2>2, <2>3, <3>2 DEF Defines
      <4> HIDE DEF original, free
      <4>6. Append(free, original)[Len(free) + 1] = original
        BY <4>3
      <4> QED BY <4>3, <4>4, <4>5, <4>6 DEF original
    <3> QED BY <1>1, <1>2, <2>2, <2>3, <3>1, <3>2
  <2>4. LeadsTo(then, name, home)
    BY <2>3 DEF LeadsTo
  <2>5. then[home] = tables[home]
    BY <1>3, <2>2
  <2>6. Defined(then, name) = then[Len(tables)].store[name]
    <3>1. Len(then) = Len(tables)
      BY <1>1, <2>2
    <3> QED BY <3>1 DEF Defined, Top
  <2> QED BY <1>8, <2>2, <2>4, <2>5, <2>6 DEF then, r
<1> QED BY <1>7, <1>8
=============================================================================
