----------------------------- MODULE SymbolTable ----------------------------
(***************************************************************************)
(* The symbol tables of the compiler (vm/symbol_table.cpp): the chain from  *)
(* the table of the innermost function to that of the program is a sequence *)
(* with the program's first.  The table of a class holds its fields.        *)
(***************************************************************************)
EXTENDS Naturals, Sequences

Symbol(name, scope, index) == [name |-> name, scope |-> scope, index |-> index]

(* resolve's null pointer.                                                  *)
Unresolved == Symbol("", "UNRESOLVED", 0)

NoSymbols == [s \in {} |-> Unresolved]
EmptyTable == [store |-> NoSymbols, numDefinitions |-> 0, freeSymbols |-> <<>>]

Top(tables) == tables[Len(tables)]
IsRoot(tables) == Len(tables) = 1
Defines(table, name) == name \in DOMAIN table.store

Store(table, name, symbol) ==
    [table EXCEPT !.store = [n \in DOMAIN @ \union {name} |-> IF n = name THEN symbol ELSE @[n]]]

(* Every definition takes a number, but a name that is there already keeps  *)
(* its index, whatever the scope it was an index of.                        *)
DefineInTable(table, name, scope) ==
    LET index == IF Defines(table, name) THEN table.store[name].index ELSE table.numDefinitions
    IN  [Store(table, name, Symbol(name, scope, index)) EXCEPT !.numDefinitions = @ + 1]

Define(tables, name) ==
    [tables EXCEPT ![Len(tables)] =
        DefineInTable(@, name, IF IsRoot(tables) THEN "GLOBAL" ELSE "LOCAL")]

(* In the table of a class, which is never the root.                        *)
DefineField(tables, name) == [tables EXCEPT ![Len(tables)] = DefineInTable(@, name, "CLASS")]

Defined(tables, name) == Top(tables).store[name]

DefineBuiltin(tables, index, name) ==
    [tables EXCEPT ![Len(tables)] = Store(@, name, Symbol(name, "BUILTIN", index))]

(* The name of the function itself, inside it; it takes no slot.            *)
DefineFunctionName(tables, name) ==
    [tables EXCEPT ![Len(tables)] = Store(@, name, Symbol(name, "FUNCTION", 0))]

DefineFree(table, original) ==
    LET symbol == Symbol(original.name, "FREE", Len(table.freeSymbols))
    IN  [Store(table, original.name, symbol) EXCEPT !.freeSymbols = Append(@, original)]

\* The table that a name is found in, the innermost that has it.
Owners(tables, name) == {k \in DOMAIN tables : Defines(tables[k], name)}
OwnerOf(tables, name) ==
    CHOOSE k \in Owners(tables, name) : \A j \in Owners(tables, name) : j <= k

PassedOn == {"GLOBAL", "BUILTIN", "CLASS"}

(* resolve asks the tables outside in turn.  The name of an enclosing       *)
(* function becomes a free symbol of every function between, from the       *)
(* outside in, each taking what the one around it has; a global or a field  *)
(* is passed on as it is.  The tables are part of the result.               *)
Resolve(tables, name) ==
    LET owner == OwnerOf(tables, name)
        found == tables[owner].store[name]
        Seen(k) == IF k = owner THEN found
                   ELSE Symbol(name, "FREE", Len(tables[k].freeSymbols))
        captured == [k \in DOMAIN tables |->
                        IF k <= owner THEN tables[k] ELSE DefineFree(tables[k], Seen(k - 1))]
    IN  IF Owners(tables, name) = {} THEN [tables |-> tables, symbol |-> Unresolved]
        ELSE IF found.scope \in PassedOn THEN [tables |-> tables, symbol |-> found]
        ELSE [tables |-> captured, symbol |-> Seen(Len(tables))]
=============================================================================
