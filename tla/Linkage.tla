------------------------------ MODULE Linkage -------------------------------
(***************************************************************************)
(* What becomes of declarations after names are resolved: the declaration  *)
(* type checker gives symbols their type, linkage, duration and initial    *)
(* value (declaration_type_checker.cpp), the expression type checker the   *)
(* constant (expression_type_checker.cpp), TACVisitor::AddStaticVariables  *)
(* defines and exports what is left, and the system linker joins several   *)
(* units.  The second half states what C says of the same declarations.    *)
(***************************************************************************)
EXTENDS Scopes

CONSTANT MaxUnits           \* bound on the units that are linked
ASSUME UnitsAssumption == MaxUnits \in Nat \ {0}

VARIABLES phase,      \* the pass that is next
          objects     \* what was generated for the units so far, and what C says of them
passVars == <<phase, objects>>
vars == <<scopeVars, passVars>>

InFileScope(i) == unit[i].path = <<>>     \* in_file_scope_ when item i is visited
HasInitializer(item) == item.initializer # "none"
Reported(t) == [table |-> t, ok |-> FALSE]
Bound(t, name, info) == [table |-> Update(t, name, info), ok |-> TRUE]

-----------------------------------------------------------------------------
\* DeclarationTypeChecker.

\* Mutant: a second definition is not noticed.
FunctionMayBeDefinedAgain(info, newLinkage, isDefinition) ==
  \/ info.type # "function"
  \/ newLinkage = "internal" /\ info.linkage = "external"

FunctionConflicts(info, newLinkage, isDefinition) ==
  \/ info.type # "function"
  \/ newLinkage = "internal" /\ info.linkage = "external"
  \/ isDefinition /\ info.defined

BindFunction(t, item, isDefinition) ==
  LET info       == t.allSymbols[item.id]
      newLinkage == IF item.storage = "static" THEN "internal" ELSE "external"
      bound      == IF info.type = NoType
                    THEN [info EXCEPT !.type = "function", !.linkage = newLinkage] ELSE info
  IN  IF info.type # NoType /\ FunctionConflicts(info, newLinkage, isDefinition)
      THEN Reported(t)
      ELSE Bound(t, item.id, [bound EXCEPT !.defined = @ \/ isDefinition])

\* Mutant: the last declaration decides the initial value.
LastInitial(info, newInitial) == TRUE

ReplacesInitial(info, newInitial) ==
  info.type = NoType \/ InitialRank(newInitial) > InitialRank(info.initial)

BindFileScopeObject(t, item) ==
  LET info       == t.allSymbols[item.id]
      newInitial == IF HasInitializer(item) THEN "initial"
                    ELSE IF item.storage = "extern" THEN "none" ELSE "tentative"
      declared   == IF item.storage = "static" THEN "internal" ELSE "external"
      newLinkage == IF info.type # NoType /\ item.storage = "extern" THEN info.linkage
                                                                     ELSE declared
      conflict   == \/ info.type # "object"
                    \/ item.storage # "extern" /\ info.linkage # newLinkage
                    \/ info.initial = "initial" /\ newInitial = "initial"
      bound      == [info EXCEPT !.type = "object", !.linkage = newLinkage,
                                 !.duration = "static"]
  IN  IF info.type # NoType /\ conflict THEN Reported(t)
      ELSE Bound(t, item.id,
             IF ReplacesInitial(info, newInitial)
             THEN [bound EXCEPT !.initial = newInitial, !.constant = "missing"]
             ELSE bound)

\* Mutant: a local static without initializer gets no constant.
LeftConstant(info, item) == info.constant

LocalStaticConstant(info, item) == IF HasInitializer(item) THEN info.constant ELSE "zero"

BindBlockScopeObject(t, item) ==
  LET info  == t.allSymbols[item.id]
      typed == [info EXCEPT !.type = "object"]
  IN  CASE item.storage = "extern" ->
             IF HasInitializer(item) \/ info.type \notin {NoType, "object"} THEN Reported(t)
             ELSE Bound(t, item.id,
                    IF info.type = NoType
                    THEN [typed EXCEPT !.initial = "none", !.duration = "static"] ELSE info)
        [] item.storage = "static" ->
             Bound(t, item.id, [typed EXCEPT !.initial = "initial", !.duration = "static",
                                  !.constant = LocalStaticConstant(info, item)])
        [] OTHER -> Bound(t, item.id, [typed EXCEPT !.duration = "automatic"])

\* ParameterDeclaration: a parameter of a definition gets its type once.
BindParameter(before, id) ==
  LET info == before.table.allSymbols[id]
  IN  IF info.type # NoType THEN Reported(before.table)
      ELSE [before EXCEPT !.table = Update(@, id, [info EXCEPT !.type = "object"])]

BindParameters(t, ids) ==
  LET bound[k \in 0 .. Len(ids)] ==
        IF k = 0 THEN [table |-> t, ok |-> TRUE] ELSE BindParameter(bound[k - 1], ids[k])
  IN  bound[Len(ids)]

VisitDeclaration(t, i) ==
  LET item     == unit[i]
      function == BindFunction(t, item, TRUE)
  IN  CASE item.kind = "function" ->
             IF function.ok THEN BindParameters(function.table, item.parameterIds) ELSE function
        [] item.kind = "prototype" -> BindFunction(t, item, FALSE)
        [] item.kind = "variable" ->
             IF t.allSymbols[item.id].type = "function" THEN Reported(t)
             ELSE IF InFileScope(i) THEN BindFileScopeObject(t, item)
             ELSE BindBlockScopeObject(t, item)
        [] item.kind = "for" ->
             IF item.storage # "none" THEN Reported(t) ELSE BindBlockScopeObject(t, item)
        [] OTHER -> [table |-> t, ok |-> TRUE]

\* ExpressionTypeChecker::CheckInitializerForObject: a static object needs a constant.
CheckInitializer(t, i) ==
  LET item == unit[i]
      info == t.allSymbols[item.id]
  IN  IF item.kind \notin {"variable", "for"} \/ ~HasInitializer(item) \/ ~HasStaticDuration(info)
      THEN [table |-> t, ok |-> TRUE]
      ELSE IF item.initializer # "constant" THEN Reported(t)
      ELSE Bound(t, item.id, [info EXCEPT !.constant = "given"])

-----------------------------------------------------------------------------
\* Code generation: what the assembly of the unit defines, exports and refers to.

StaticVariables(t) ==
  {name \in DOMAIN t.allSymbols :
     HasStaticDuration(t.allSymbols[name]) /\ t.allSymbols[name].initial # "none"}

\* Mutant: every static variable is exported.
AllGlobal(info) == TRUE

IsGlobal(info) == info.linkage # "internal"

AddStaticVariables(t) ==
  [name \in StaticVariables(t) |->
     LET info == t.allSymbols[name]
     IN  [global |-> IsGlobal(info),
          value  |-> IF info.initial = "initial" THEN info.constant ELSE "zero"]]

DefinedFunctions == {unit[i].id : i \in {k \in DOMAIN unit : unit[k].kind = "function"}}
DefineFunctions(t) ==
  [name \in DefinedFunctions |->
     [global |-> IsGlobal(t.allSymbols[name]), value |-> "code"]]

DefinedSymbols(t) ==
  LET variables == AddStaticVariables(t)
      functions == DefineFunctions(t)
  IN  [name \in DOMAIN variables \cup DOMAIN functions |->
         IF name \in DOMAIN variables THEN variables[name] ELSE functions[name]]

UsedIds == {unit[i].usedId : i \in DOMAIN unit} \ {Nobody}
References(t) == {id \in UsedIds : \/ HasStaticDuration(t.allSymbols[id])
                                   \/ t.allSymbols[id].type = "function"}

-----------------------------------------------------------------------------
(* What C says (C11 6.2.2, 6.7, 6.9) of the declarations of the unit.      *)

LinkedAt(i) == {d \in DeclaredBy(i) : d.linked}
PriorLinkage(linkageBefore, i, name) ==
  LET seen  == {d \in Declarations : /\ d.name = name /\ d.at < i
                                     /\ d.scope \subseteq ScopeWithin(unit[i].path)}
      inner == {d \in seen : \A e \in seen : e.scope \subseteq d.scope}
      prior == {d \in inner : d.linked}
  IN  IF prior = {} THEN "external"
      ELSE linkageBefore[CHOOSE k \in {d.at : d \in prior} : \A d \in prior : d.at <= k]
\* The linkage each item gives the name it declares, as a sequence over the items.
Inherits(item) == item.storage = "extern" \/ item.kind # "variable"
GivenLinkage(linkageBefore, i) ==
  CASE LinkedAt(i) = {} -> "none"
    [] LinkedAt(i) # {} /\ unit[i].storage = "static" -> "internal"
    [] LinkedAt(i) # {} /\ unit[i].storage # "static" ->
         IF Inherits(unit[i]) THEN PriorLinkage(linkageBefore, i, unit[i].name) ELSE "external"
LinkageOfItems ==
  LET linkage[i \in DOMAIN unit] == GivenLinkage(linkage, i)
  IN  linkage

SameLinked(i, j) == /\ unit[i].name = unit[j].name
                    /\ LinkedAt(i) # {} /\ LinkedAt(j) # {}
IsFunction(i) == unit[i].kind \in {"function", "prototype"}
Defines(i) == \/ unit[i].kind = "function"
              \/ unit[i].kind = "variable" /\ InFileScope(i) /\ HasInitializer(unit[i])

Redefined == \E i, j \in DOMAIN unit : i # j /\ SameLinked(i, j) /\ Defines(i) /\ Defines(j)
KindConflict(sameScope) == \E i, j \in DOMAIN unit :
  /\ SameLinked(i, j) /\ IsFunction(i) /\ ~IsFunction(j)
  /\ sameScope => ScopeWithin(unit[i].path) = ScopeWithin(unit[j].path)
InitializedLocalExtern == \E i \in DOMAIN unit :
  /\ unit[i].kind = "variable" /\ ~InFileScope(i)
  /\ unit[i].storage = "extern" /\ HasInitializer(unit[i])
StorageInForHeader == \E i \in DOMAIN unit : unit[i].kind = "for" /\ unit[i].storage # "none"
VariableStaticInitializer == \E i \in DOMAIN unit :
  /\ unit[i].kind = "variable" /\ (InFileScope(i) \/ unit[i].storage = "static")
  /\ unit[i].initializer \in Names
MixedLinkage == \E i, j \in DOMAIN unit :
  SameLinked(i, j) /\ LinkageOfItems[i] # LinkageOfItems[j]

MustBeRejected ==
  \/ ScopeErrors
  \/ Redefined \/ KindConflict(TRUE) \/ InitializedLocalExtern
  \/ StorageInForHeader \/ VariableStaticInitializer
Undefined == MixedLinkage \/ KindConflict(FALSE)

\* The things the unit defines, and those it uses, by unique name.
CDefinitions ==
  LET file(i) == LinkedAt(i) # {} /\ InFileScope(i)
      tentative(i) == /\ file(i) /\ unit[i].kind = "variable" /\ unit[i].storage # "extern"
                      /\ ~\E j \in DOMAIN unit : SameLinked(i, j) /\ Defines(j)
      localStatic(i) == /\ unit[i].kind = "variable" /\ ~InFileScope(i)
                        /\ unit[i].storage = "static"
      thing(i, linkage, value) == [id |-> unit[i].id, linkage |-> linkage, value |-> value]
  IN  {thing(i, LinkageOfItems[i], IF IsFunction(i) THEN "code" ELSE "given") :
         i \in {k \in DOMAIN unit : Defines(k)}}
      \cup {thing(i, LinkageOfItems[i], "zero") : i \in {k \in DOMAIN unit : tentative(k)}}
      \cup {thing(i, "none", IF HasInitializer(unit[i]) THEN "given" ELSE "zero") :
              i \in {k \in DOMAIN unit : localStatic(k)}}
CUses ==
  UNION {{[id |-> use.id, linkage |-> IF d.linked THEN LinkageOfItems[d.at] ELSE "none"] :
            d \in {d \in VisibleAt(use.name, use.at, use.scope) :
                     \/ d.linked
                     \/ unit[d.at].kind = "variable" /\ unit[d.at].storage = "static"}} : use \in Uses}

\* A constraint that no pass checks (6.9p3): what is used with internal linkage is defined.
UsedButUndefined == \E use \in CUses :
  use.linkage = "internal" /\ \A d \in CDefinitions : d.id # use.id

-----------------------------------------------------------------------------
\* Each unit is compiled by a process of its own.
BeginUnit ==
  /\ table' = EnterScope(EmptyTable)
  /\ suppress' = FALSE /\ unit' = <<>> /\ nesting' = <<>> /\ rejected' = FALSE
  /\ phase' = IF Len(objects') < MaxUnits THEN "resolving" ELSE "linking"
  /\ UNCHANGED budget

LInit == Init /\ phase = "resolving" /\ objects = <<>>

ResolveItem == phase = "resolving" /\ Resolve /\ UNCHANGED passVars

EndUnit ==
  /\ phase = "resolving" /\ ~rejected /\ nesting = <<>> /\ unit # <<>>
  /\ phase' = "declaring"
  /\ UNCHANGED <<scopeVars, objects>>

\* The two visitors over the unit: nothing is visited after an error.
DeclarationsVisited ==
  LET visited[i \in 0 .. Len(unit)] ==
        IF i = 0 THEN [table |-> table, ok |-> TRUE]
        ELSE IF visited[i - 1].ok THEN VisitDeclaration(visited[i - 1].table, i)
        ELSE visited[i - 1]
  IN  visited[Len(unit)]
ExpressionsVisited ==
  LET visited[i \in 0 .. Len(unit)] ==
        IF i = 0 THEN [table |-> table, ok |-> TRUE]
        ELSE IF visited[i - 1].ok THEN CheckInitializer(visited[i - 1].table, i)
        ELSE visited[i - 1]
  IN  visited[Len(unit)]

\* SemanticAnalyzer::RunPass: the next pass only runs if this one reported nothing.
RunPass(pass, visited, next) ==
  /\ phase = pass /\ ~rejected
  /\ table' = visited.table /\ rejected' = ~visited.ok
  /\ phase' = IF rejected' THEN phase ELSE next
  /\ UNCHANGED <<suppress, unit, nesting, budget, objects>>

CheckDeclarations == RunPass("declaring", DeclarationsVisited, "checking")
CheckExpressions  == RunPass("checking", ExpressionsVisited, "generating")

ObjectFile == [symbols |-> DefinedSymbols(table),
               references |-> References(table),
               definitions |-> CDefinitions, uses |-> CUses]

\* Only units whose behaviour C defines are linked.
Generate ==
  /\ phase = "generating" /\ ~Undefined /\ ~UsedButUndefined
  /\ objects' = Append(objects, ObjectFile)
  /\ BeginUnit

LNext == ResolveItem \/ EndUnit \/ CheckDeclarations \/ CheckExpressions \/ Generate

LSpec == LInit /\ [][LNext]_vars

-----------------------------------------------------------------------------
(* The linker, and the same program in C.                                  *)

Units == DOMAIN objects
Defined(k) == DOMAIN objects[k].symbols
Exported(k) == {name \in Defined(k) : objects[k].symbols[name].global}
\* Where the linker takes the name from that unit k refers to.
Bindings(k, name) ==
  IF name \in Defined(k) THEN {<<k, objects[k].symbols[name].value>>}
  ELSE {<<l, objects[l].symbols[name].value>> : l \in {m \in Units : name \in Exported(m)}}
Clashes == {name \in UNION {Exported(k) : k \in Units} :
              \E k, l \in Units : k # l /\ name \in Exported(k) \cap Exported(l)}
Unresolved == \E k \in Units : \E name \in objects[k].references : Bindings(k, name) = {}
Links == Clashes = {} /\ ~Unresolved

\* The definitions in C of what unit k knows by this name and linkage.
CBindings(k, use) ==
  LET among == IF use.linkage = "external" THEN Units ELSE {k}
      matching(l) == {d \in objects[l].definitions : d.id = use.id /\ d.linkage = use.linkage}
  IN  UNION {{<<l, d.value>> : d \in matching(l)} : l \in among}
External(k) == {d.id : d \in {e \in objects[k].definitions : e.linkage = "external"}}
CLinks ==
  /\ \A k, l \in Units : k # l => External(k) \cap External(l) = {}
  /\ \A k \in Units : \A use \in objects[k].uses : CBindings(k, use) # {}
BetweenUnits == unit = <<>>
LocalStatics(k) == {d.id : d \in {e \in objects[k].definitions : e.linkage = "none"}}

(* The three passes together reject every unit that breaks one of the      *)
(* rules in MustBeRejected, whatever the order of its declarations, and    *)
(* reject no valid unit.                                                   *)
AcceptsExactlyValidUnits ==
  /\ rejected => MustBeRejected \/ Undefined
  /\ phase = "generating" => ~MustBeRejected

(* A symbol AddStaticVariables defines as initialized has its constant by  *)
(* then, and a name that is used has a symbol with a type, though both are *)
(* set by other passes and often by another declaration.                   *)
SymbolsAreComplete ==
  phase = "generating" =>
    /\ \A name \in StaticVariables(table) :
         table.allSymbols[name].initial = "initial" => table.allSymbols[name].constant # "missing"
    /\ \A id \in UsedIds : table.allSymbols[id].type # NoType

(* In units that link, a use of a function or of an object with static     *)
(* duration reaches the definition, in the right unit and with the right   *)
(* initial value, that C says it denotes.                                  *)
UsesReachTheirDefinition ==
  BetweenUnits /\ Links => \A k \in Units : \A use \in objects[k].uses :
             Bindings(k, use.id) = CBindings(k, use)

(* Units link exactly if C's rules for definitions across units hold, but  *)
(* for local static objects of the same name in two units.                 *)
OnlyLocalStaticsClash ==
  BetweenUnits =>
    (Links <=> /\ CLinks
               /\ \A k, l \in Units : k # l => LocalStatics(k) \cap LocalStatics(l) = {})

(* README.md:73-78, 113: units that are each compiled with -c link when C  *)
(* says they form a program; a local static object belongs to its function.*)
ValidProgramsLink == BetweenUnits /\ CLinks => Links
=============================================================================
