------------------------------- MODULE Scopes -------------------------------
(***************************************************************************)
(* semantic/symbol_resolver.cpp: the first pass over a translation unit.   *)
(* It gives every declarator and every use of a name a unique name; all    *)
(* later passes and the generated code know objects by these names only.   *)
(*                                                                         *)
(* The unit is built as it is visited: each action is the visit of one     *)
(* more item, or of the end of a compound statement.  An item records the  *)
(* items that enclose it (path), which is the shape of the syntax tree,    *)
(* and the unique names the resolver gave it.  The second half states what *)
(* C's scoping rules say of the same unit, from the paths alone.           *)
(***************************************************************************)
EXTENDS SymbolTable, SequencesExt

CONSTANTS Names,            \* identifiers
          FunctionNames,    \* identifiers that may be declared as functions
          Storages,         \* storage classes written in declarations
          Initializers,     \* "none", "constant", or a name that is read
          ParameterLists,   \* sequences of parameter names
          MaxItems,         \* bound on the items of all units
          MaxDepth          \* bound on how deep they enclose one another
ASSUME NamesAssumption == /\ Names # {} /\ FunctionNames # {} /\ ParameterLists \subseteq Seq(Names)
                          /\ MaxItems \in Nat \ {0} /\ MaxDepth \in Nat
ASSUME StoragesAssumption == Storages \subseteq {"none", "static", "extern"}
ASSUME InitializersAssumption == /\ Initializers \subseteq Names \cup {"none", "constant"}
                                 /\ {"none", "constant"} \cap Names = {}

VARIABLES table,      \* the symbol table
          suppress,   \* suppress_next_compound_scope_
          unit,       \* the items visited so far
          nesting,    \* positions in unit of the items being visited
          rejected,   \* an error was reported
          budget      \* how many more items there may be (a bound, not in the code)
scopeVars == <<table, suppress, unit, nesting, rejected, budget>>

Nobody == <<>>        \* the id of an item that names nothing

Item(kind, name, storage, initializer, parameters) ==
  [kind |-> kind, name |-> name, storage |-> storage, initializer |-> initializer,
   parameters |-> parameters, path |-> nesting,
   id |-> Nobody, parameterIds |-> <<>>, usedId |-> Nobody, suppressed |-> FALSE]

-----------------------------------------------------------------------------
\* The visits.  Each returns the table, the unique name and whether it reported nothing.

VisitIdExpression(t, name) ==
  IF IsVisible(t, name) THEN [table |-> t, id |-> Lookup(t, name).name, ok |-> TRUE]
                        ELSE [table |-> t, id |-> Nobody, ok |-> FALSE]

Conflicts(existing, hasLinkage) == ~hasLinkage \/ ~HasLinkage(existing)

VisitIdentifierDeclarator(t, name, storage) ==
  LET hasLinkage == IsInFileScope(t) \/ storage = "extern"
      id         == IF hasLinkage THEN <<name>> ELSE UniqueName(t, name)
      counted    == IF hasLinkage THEN t ELSE CountName(t, name)
      info       == Symbol(id, name, IF hasLinkage THEN "external" ELSE "none")
  IN  IF IsInCurrentScope(t, name)
      THEN [table |-> t, id |-> <<name>>,
            ok |-> ~Conflicts(Lookup(t, name), hasLinkage)]
      ELSE [table |-> Declare(counted, name, info), id |-> id, ok |-> TRUE]

\* The initializer is visited when the name is already declared.
VisitInitializer(declared, initializer) ==
  IF declared.ok /\ initializer \in Names
  THEN VisitIdExpression(declared.table, initializer)
  ELSE [declared EXCEPT !.id = Nobody]

\* The parameters are declared one after the other.
VisitParameters(t, parameters) ==
  LET visited[k \in 0 .. Len(parameters)] ==
        IF k = 0 THEN [table |-> t, ids |-> <<>>, ok |-> TRUE]
        ELSE LET before == visited[k - 1]
                 visit  == VisitIdentifierDeclarator(before.table, parameters[k], "none")
             IN  [table |-> visit.table, ids |-> Append(before.ids, visit.id),
                  ok |-> before.ok /\ visit.ok]
  IN  visited[Len(parameters)]

\* What a function's declarator and its definition both do with its name.
DeclareFunction(t, name) ==
  IF IsInCurrentScope(t, name)
  THEN [table |-> t, ok |-> Lookup(t, name).linkage = "external"]
  ELSE [table |-> Declare(t, name, Symbol(<<name>>, name, "external")), ok |-> TRUE]

Record(item) == unit' = Append(unit, item) /\ budget' = budget - 1

Innermost == unit[Last(nesting)].kind
InStatement == nesting # <<>> /\ Innermost = "compound"
CanGrow == ~rejected /\ budget > 0

Init ==
  /\ table = EnterScope(EmptyTable)
  /\ suppress = FALSE
  /\ unit = <<>> /\ nesting = <<>>
  /\ rejected = FALSE /\ budget = MaxItems

VisitFunctionDefinition(name, storage, parameters) ==
  /\ CanGrow /\ nesting = <<>>
  /\ LET declared == DeclareFunction(table, name)
         visited  == VisitParameters(EnterScope(declared.table), parameters)
     IN  IF declared.ok
         THEN /\ table' = visited.table
              /\ suppress' = TRUE
              /\ nesting' = Append(nesting, Len(unit) + 1)
              /\ Record([Item("function", name, storage, "none", parameters)
                           EXCEPT !.id = <<name>>, !.parameterIds = visited.ids])
              /\ rejected' = ~visited.ok
         ELSE /\ Record(Item("function", name, storage, "none", parameters))
              /\ rejected' = TRUE
              /\ UNCHANGED <<table, suppress, nesting>>

VisitVariable(name, storage, initializer) ==
  /\ CanGrow /\ (nesting = <<>> \/ InStatement)
  /\ LET declared == VisitIdentifierDeclarator(table, name, storage)
         visited  == VisitInitializer(declared, initializer)
     IN  /\ table' = visited.table
         /\ Record([Item("variable", name, storage, initializer, <<>>)
                      EXCEPT !.id = declared.id, !.usedId = visited.id])
         /\ rejected' = ~visited.ok
  /\ UNCHANGED <<suppress, nesting>>

\* A FunctionDeclarator that is not a definition.
VisitPrototype(name, storage, parameters) ==
  /\ CanGrow /\ (nesting = <<>> \/ InStatement)
  /\ LET declared == DeclareFunction(table, name)
         visited  == VisitParameters(EnterScope(declared.table), parameters)
         allowed  == storage = "static" => IsInFileScope(table)
         item     == Item("prototype", name, storage, "none", parameters)
     IN  IF allowed /\ declared.ok
         THEN /\ table' = ExitScope(visited.table)
              /\ Record([item EXCEPT !.id = <<name>>, !.parameterIds = visited.ids])
              /\ rejected' = ~visited.ok
         ELSE /\ Record(item)
              /\ rejected' = TRUE
              /\ UNCHANGED table
  /\ UNCHANGED <<suppress, nesting>>

\* A for statement up to its body; the header may declare a variable.
VisitFor(name, storage, initializer) ==
  /\ CanGrow /\ InStatement /\ Len(nesting) + 1 < MaxDepth
  /\ LET declared == VisitIdentifierDeclarator(EnterScope(table), name, storage)
         visited  == VisitInitializer(declared, initializer)
     IN  /\ table' = visited.table
         /\ Record([Item("for", name, storage, initializer, <<>>)
                      EXCEPT !.id = declared.id, !.usedId = visited.id])
         /\ rejected' = ~visited.ok
  /\ nesting' = Append(nesting, Len(unit) + 1)
  /\ UNCHANGED suppress

\* The body of a function or for statement comes with it and is not counted.
VisitCompound ==
  /\ ~rejected /\ nesting # <<>>
  /\ Innermost = "compound" => CanGrow /\ Len(nesting) < MaxDepth
  /\ table' = IF suppress THEN table ELSE EnterScope(table)
  /\ suppress' = FALSE
  /\ nesting' = Append(nesting, Len(unit) + 1)
  /\ unit' = Append(unit, [Item("compound", "none", "none", "none", <<>>)
                             EXCEPT !.suppressed = suppress])
  /\ budget' = IF Innermost = "compound" THEN budget - 1 ELSE budget
  /\ UNCHANGED rejected

VisitUse(name) ==
  /\ CanGrow /\ nesting # <<>> /\ Innermost # "function"
  /\ LET visited == VisitIdExpression(table, name)
     IN  /\ Record([Item("use", name, "none", "none", <<>>) EXCEPT !.usedId = visited.id])
         /\ rejected' = ~visited.ok
  /\ UNCHANGED <<table, suppress, nesting>>

\* The end of a compound statement is also the end of the statement whose body it is.
EndCompound ==
  /\ ~rejected /\ InStatement
  /\ LET outside == Front(nesting)
         isBody  == outside # <<>> /\ unit[Last(outside)].kind # "compound"
         left    == IF unit[Last(nesting)].suppressed THEN table ELSE ExitScope(table)
     IN  /\ table' = IF isBody THEN ExitScope(left) ELSE left
         /\ nesting' = IF isBody THEN Front(outside) ELSE outside
  /\ UNCHANGED <<suppress, unit, rejected, budget>>

Resolve ==
  \/ \E name \in FunctionNames, storage \in Storages, parameters \in ParameterLists :
       \/ storage # "extern" /\ VisitFunctionDefinition(name, storage, parameters)
       \/ VisitPrototype(name, storage, parameters)
  \/ \E name \in Names, storage \in Storages, initializer \in Initializers :
       \/ VisitVariable(name, storage, initializer)
       \/ VisitFor(name, storage, initializer)
  \/ VisitCompound
  \/ \E name \in Names \cup FunctionNames : VisitUse(name)
  \/ EndCompound

-----------------------------------------------------------------------------
(* C's rules of scope (C11 6.2.1), from the shape of the unit.             *)

\* A scope is the set of the items that open it and the scopes around it; a
\* function's body does not open one, it is in the scope of the parameters.
FunctionBody(o) == /\ unit[o].kind = "compound"
                   /\ unit[o].path # <<>> /\ unit[Last(unit[o].path)].kind = "function"
ScopeWithin(path) == {o \in Range(path) : ~FunctionBody(o)}

DeclarationOf(i, name, scope, linked, index, id) ==
  [name |-> name, at |-> i, scope |-> scope, linked |-> linked, index |-> index, id |-> id]

DeclaredBy(i) ==
  LET item == unit[i]
      here == ScopeWithin(item.path)
      parameters(scope) == {DeclarationOf(i, item.parameters[k], scope, FALSE, k,
                              IF k <= Len(item.parameterIds) THEN item.parameterIds[k] ELSE Nobody)
                            : k \in DOMAIN item.parameters}
  IN  CASE item.kind = "variable" ->
             {DeclarationOf(i, item.name, here, here = {} \/ item.storage = "extern", 0, item.id)}
        [] item.kind = "for" ->
             {DeclarationOf(i, item.name, here \cup {i}, item.storage = "extern", 0, item.id)}
        [] item.kind \in {"function", "prototype"} ->
             {DeclarationOf(i, item.name, here, TRUE, 0, item.id)} \cup parameters(here \cup {i})
        [] OTHER -> {}
Declarations == UNION {DeclaredBy(i) : i \in DOMAIN unit}

\* Names that are read: in statements, and in initializers inside the scope they initialize.
UsedBy(i) ==
  LET item == unit[i]
      here == ScopeWithin(item.path)
      used(name, scope) == {[name |-> name, at |-> i, scope |-> scope, id |-> item.usedId]}
  IN  CASE item.kind = "use" -> used(item.name, here)
        [] item.kind = "variable" /\ item.initializer \in Names -> used(item.initializer, here)
        [] item.kind = "for" /\ item.initializer \in Names ->
             used(item.initializer, here \cup {i})
        [] OTHER -> {}
Uses == UNION {UsedBy(i) : i \in DOMAIN unit}

VisibleAt(name, at, scope) ==
  LET before == {d \in Declarations :
                   d.name = name /\ d.at <= at /\ d.scope \subseteq scope}
  IN  {d \in before : \A e \in before : e.scope \subseteq d.scope}

\* A name with linkage denotes one thing in the unit, any other its own object.
Entity(d) == IF d.linked THEN [name |-> d.name, at |-> 0, index |-> 0]
                         ELSE [name |-> d.name, at |-> d.at, index |-> d.index]
Denoted(use) == {Entity(d) : d \in VisibleAt(use.name, use.at, use.scope)}

Redeclared == \E d, e \in Declarations :
  /\ d # e /\ d.name = e.name /\ d.scope = e.scope
  /\ ~(d.linked /\ e.linked)
Undeclared == \E use \in Uses : Denoted(use) = {}
LocalStaticFunction == \E i \in DOMAIN unit :
  unit[i].kind = "prototype" /\ unit[i].storage = "static" /\ unit[i].path # <<>>

-----------------------------------------------------------------------------
(* Two occurrences of names get the same unique name exactly if they       *)
(* denote the same thing by the rules of C, through parameters, bodies,    *)
(* blocks, for headers, extern declarations in blocks and initializers     *)
(* that name what they initialize.                                         *)
SameNameSameEntity ==
  ~rejected =>
    LET occurrences == {<<d.id, {Entity(d)}>> : d \in Declarations}
                       \cup {<<use.id, Denoted(use)>> : use \in Uses}
    IN  \A a, b \in occurrences : a[1] = b[1] <=> a[2] = b[2]

\* The errors the resolver has to report.
ScopeErrors == Redeclared \/ Undeclared \/ LocalStaticFunction
=============================================================================
