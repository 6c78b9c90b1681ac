---------------------------- MODULE SymbolTable ----------------------------
(***************************************************************************)
(* semantic/symbol_table.cpp: a stack of scopes that map original names,   *)
(* a counter for each name, and the symbols of the whole unit by unique    *)
(* name.  A scope holds a copy of the symbol as it was declared; the later *)
(* passes read and change only the copy in allSymbols.                     *)
(*                                                                         *)
(* A unique name is <<base>> or <<base, count>> (printed "base.count").    *)
(***************************************************************************)
EXTENDS Naturals, Sequences

NoType == "no type"
Symbol(name, original, linkage) ==
  [name |-> name, original |-> original, linkage |-> linkage, type |-> NoType,
   duration |-> "automatic", initial |-> "none", constant |-> "missing", defined |-> FALSE]

HasLinkage(info)        == info.linkage # "none"
HasStaticDuration(info) == info.duration = "static"

\* The order of the enumeration InitialValue, which the code compares.
InitialRank(initial) == CASE initial = "none" -> 0 [] initial = "tentative" -> 1
                          [] initial = "initial" -> 2

\* A map with one more entry, or another one for the key.
Insert(map, key, value) ==
  [k \in DOMAIN map \cup {key} |-> IF k = key THEN value ELSE map[k]]

EmptyTable == [scopes |-> <<>>, nameCounters |-> <<>>, allSymbols |-> <<>>]

EnterScope(table) == [table EXCEPT !.scopes = Append(@, <<>>)]
ExitScope(table)  ==
  [table EXCEPT !.scopes = IF @ = <<>> THEN @ ELSE SubSeq(@, 1, Len(@) - 1)]

IsInFileScope(table) == Len(table.scopes) = 1

IsInCurrentScope(table, name) ==
  /\ table.scopes # <<>>
  /\ name \in DOMAIN table.scopes[Len(table.scopes)]

DeclaringScopes(table, name) == {k \in DOMAIN table.scopes : name \in DOMAIN table.scopes[k]}
IsVisible(table, name) == DeclaringScopes(table, name) # {}
Lookup(table, name) ==
  LET innermost == CHOOSE k \in DeclaringScopes(table, name) :
                     \A other \in DeclaringScopes(table, name) : other <= k
  IN  table.scopes[innermost][name]

Declare(table, name, info) ==
  IF IsInCurrentScope(table, name) THEN table
  ELSE [table EXCEPT !.scopes[Len(table.scopes)] = Insert(@, name, info),
                     !.allSymbols = Insert(@, info.name, info)]

\* Mutant: names are told apart by the depth of their scope.
ScopeDepth(table, base) == Len(table.scopes)

NameCount(table, base) ==
  IF base \in DOMAIN table.nameCounters THEN table.nameCounters[base] ELSE 0

\* GenerateUniqueName: the name, and the table with the name counted.
UniqueName(table, base) ==
  IF IsInFileScope(table) THEN <<base>> ELSE <<base, NameCount(table, base)>>
CountName(table, base) ==
  [table EXCEPT !.nameCounters = Insert(@, base, NameCount(table, base) + 1)]

\* FindByUniqueName and the passes that change what it returns.
IsKnown(table, name) == name \in DOMAIN table.allSymbols
Update(table, name, info) == [table EXCEPT !.allSymbols[name] = info]
=============================================================================
