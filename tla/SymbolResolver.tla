---------------------------- MODULE SymbolResolver ----------------------------
(***************************************************************************)
(* SymbolResolver (src/src/address_space.cc): two tables of exported       *)
(* addresses, by (library, name) and by (library, ordinal), filled one     *)
(* export at a time.  An export without a name has name NoName and is      *)
(* found by its ordinal only.                                              *)
(***************************************************************************)
EXTENDS Naturals

NoName == ""

NoTables == [named |-> [k \in {} |-> 0], ordinal |-> [k \in {} |-> 0]]

\* std::map::emplace: an entry that exists is kept.
Emplace(table, key, value) ==
    [k \in DOMAIN table \cup {key} |->
        IF k \in DOMAIN table THEN table[k] ELSE value]

IsDuplicate(tables, library, symbol) ==
    \/ symbol.name # NoName /\ <<library, symbol.name>> \in DOMAIN tables.named
    \/ <<library, symbol.ordinal>> \in DOMAIN tables.ordinal

\* The tables after an export that is not a duplicate.
WithExport(tables, library, symbol) ==
    [named   |-> IF symbol.name = NoName THEN tables.named
                 ELSE Emplace(tables.named, <<library, symbol.name>>,
                              symbol.address),
     ordinal |-> Emplace(tables.ordinal, <<library, symbol.ordinal>>,
                         symbol.address)]

\* resolve: the address found, as a set of at most one.  A name that is not
\* found falls through to the ordinal.
Resolve(tables, library, name, ordinal) ==
    IF name # NoName /\ <<library, name>> \in DOMAIN tables.named
    THEN {tables.named[<<library, name>>]}
    ELSE IF <<library, ordinal>> \in DOMAIN tables.ordinal
         THEN {tables.ordinal[<<library, ordinal>>]}
         ELSE {}
===============================================================================
