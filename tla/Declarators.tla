------------------------------ MODULE Declarators ------------------------------
(***************************************************************************)
(* The type of a declared name.  The parser builds a declarator from the   *)
(* inside out (parser.y); TypeResolver makes a type of it, keeping         *)
(* pointers and one function and nothing else, and DeclarationTypeChecker  *)
(* compares the type with the one the name has.  Beside it, the entity C   *)
(* declares by the same text.  One name at file scope, no storage class:   *)
(* linkage is Linkage's subject.                                           *)
(***************************************************************************)
EXTENDS TypeSpecifiers, Sequences, SequencesExt

CONSTANTS ParameterLists,  \* the parameter lists a function declarator may have
          MaxModifiers,    \* bound on the modifiers of all declarators together
          MaxDeclarations  \* bound on the declarations of the name

VARIABLES base,        \* the type the specifiers named: the code's and C's
          declarator,  \* its modifiers, the outermost first, around the name
          symbol,      \* the SymbolInfo of the name
          entity,      \* what the name is in C
          verdict,     \* of the last declaration
          history      \* how many declarations and modifiers there were

vars == <<specifiers, base, declarator, symbol, entity, verdict, history>>

-----------------------------------------------------------------------------
(* Types and declarators.                                                  *)

Primitive(type)     == <<type>>
Pointer(type)       == <<"pointer", type>>
Array(type)         == <<"array", type>>
Function(ret, pars) == <<"function", ret, pars>>
NoType              == <<>>

\* Type::Equals: structural, whatever object holds the type.
Equals(type, other) == type = other

IsFunction(type) == type # NoType /\ type[1] = "function"

\* A modifier is [kind, params]; params is <<>> but for a function. A
\* parameter is [base, declarator], base a type of C.
Is(kind, modifiers, k) == modifiers[k].kind = kind

\* FindFunctionDeclarator, in its three copies: the function nearest to the
\* outside (0: none).
FoundFunction(modifiers) ==
  SelectInSeq(modifiers, LAMBDA m : m.kind = "function")

\* ResolveObjectType: arrays are pointers, functions leave no trace.
ObjectType(type, modifiers) ==
  FoldLeft(LAMBDA t, m : IF m.kind = "function" THEN t ELSE Pointer(t), type, modifiers)

\* Mutant: parameters take the type of the specifiers, whatever their declarator.
FunctionTypeBareParameters(type, modifiers) ==
  LET f == FoundFunction(modifiers)
  IN  Function(ObjectType(type, SubSeq(modifiers, 1, f - 1)),
               [k \in DOMAIN modifiers[f].params |->
                  Primitive(Representation(modifiers[f].params[k].base))])

\* ResolveFunctionType: what is inside the function is not looked at.
FunctionType(type, modifiers) ==
  LET f == FoundFunction(modifiers)
  IN  Function(ObjectType(type, SubSeq(modifiers, 1, f - 1)),
               [k \in DOMAIN modifiers[f].params |->
                  LET p == modifiers[f].params[k]
                  IN  ObjectType(Primitive(Representation(p.base)), p.declarator)])

DeclaredType(type, modifiers) ==
  IF FoundFunction(modifiers) > 0 THEN FunctionType(type, modifiers)
  ELSE ObjectType(type, modifiers)

RECURSIVE Depth(_), Innermost(_)
Depth(type)     == IF type[1] = "pointer" THEN 1 + Depth(type[2]) ELSE 0
Innermost(type) == IF type[1] = "pointer" THEN Innermost(type[2]) ELSE type

\* Mutant: unsigned long is named by its first word.
BuildShortTypeName(type) ==
  LET b == Innermost(type)
      One(s) == [NoSpecifiers.counts EXCEPT ![s] = 1]
  IN  IF IsFunction(b) THEN <<>>
      ELSE << CASE b[1] = "int"                -> One("int")
                [] b[1] = "long"               -> One("long")
                [] b[1] \in {"uint", "ulong"}  -> One("unsigned")
                [] b[1] = "double"             -> One("double"),
              [k \in 1..Depth(type) |-> [kind |-> "pointer", params |-> <<>>]] >>

\* BuildTypeName: the type name of a cast the checker inserts, or nullptr.
BuildTypeName(type) ==
  LET b == Innermost(type)
      One(s) == [NoSpecifiers.counts EXCEPT ![s] = 1]
  IN  IF IsFunction(b) THEN <<>>
      ELSE << CASE b[1] = "int"    -> One("int")
                [] b[1] = "long"   -> One("long")
                [] b[1] = "uint"   -> One("unsigned")
                [] b[1] = "ulong"  -> [One("unsigned") EXCEPT !["long"] = 1]
                [] b[1] = "double" -> One("double"),
              [k \in 1..Depth(type) |-> [kind |-> "pointer", params |-> <<>>]] >>

\* ResolveTypeName: the grammar has no function among the abstract declarators.
ResolveTypeName(name) == ObjectType(Primitive(ResolveType(name[1])), name[2])

-----------------------------------------------------------------------------
(* What DeclarationTypeChecker reports, for the name with symbol.type.     *)

\* Visit(FunctionDeclarator) of the function found, Visit(IdentifierDeclarator).
DeclaratorReported(modifiers) ==
  LET f == FoundFunction(modifiers)
  IN  IF f > 0
      THEN \/ f < Len(modifiers) /\ Is("function", modifiers, f + 1)
           \/ symbol.type # NoType /\ ~IsFunction(symbol.type)
      ELSE IsFunction(symbol.type)

\* Visit(ParameterDeclaration), for the parameters of a definition only.
ParametersReported(modifiers) ==
  \E p \in Range(modifiers[FoundFunction(modifiers)].params) :
     LET f == FoundFunction(p.declarator)
     IN  f > 0 /\ (f = 1 \/ (f < Len(p.declarator) /\ Is("function", p.declarator, f + 1)))

\* Mutant: the types are not compared.
BindReportedIfDefined(type, defines) ==
  symbol.type # NoType /\ defines /\ symbol.defined

\* BindFunction and BindFileScopeObject, with the type they compare.
BindReported(type, defines) ==
  /\ symbol.type # NoType
  /\ ~Equals(symbol.type, type) \/ (defines /\ symbol.defined)

-----------------------------------------------------------------------------
(* The entity of C (C11 6.7.6).                                            *)

Modified(type, modifier, pars) ==
  CASE modifier.kind = "pointer"  -> Pointer(type)
    [] modifier.kind = "array"    -> Array(type)
    [] modifier.kind = "function" -> Function(type, pars)

RECURSIVE TypeInC(_, _), ParametersInC(_)
TypeInC(type, modifiers) ==
  FoldLeft(LAMBDA t, m : Modified(t, m, ParametersInC(m.params)), type, modifiers)

Adjusted(type) == CASE type[1] = "array"    -> Pointer(type[2])
                    [] type[1] = "function" -> Pointer(type)
                    [] OTHER                -> type

ParametersInC(params) ==
  [k \in DOMAIN params |->
     Adjusted(TypeInC(Primitive(Representation(params[k].base)), params[k].declarator))]

\* No function returns a function or an array, no array has functions in it.
RECURSIVE ValidInC(_)
ValidInC(modifiers) ==
  /\ \A k \in 1 .. Len(modifiers) - 1 :
        /\ Is("function", modifiers, k + 1) => Is("pointer", modifiers, k)
        /\ Is("array", modifiers, k + 1) => ~Is("function", modifiers, k)
  /\ \A m \in Range(modifiers) : \A p \in Range(m.params) : ValidInC(p.declarator)

\* C and the code agree about declarators of this shape: pointers, around them
\* at most one function that directly holds the name, with parameters that are
\* pointers, or an array once adjusted.
PlainParameter(p) ==
  \A k \in DOMAIN p.declarator :
     \/ Is("pointer", p.declarator, k)
     \/ Is("array", p.declarator, k) /\ k = Len(p.declarator)

Plain(modifiers) ==
  \A k \in DOMAIN modifiers :
     \/ Is("pointer", modifiers, k)
     \/ /\ Is("function", modifiers, k) /\ k = Len(modifiers)
        /\ \A p \in Range(modifiers[k].params) : PlainParameter(p)

-----------------------------------------------------------------------------
(* Parsing: the specifiers, then the declarator around its name.           *)

NoBase     == [code |-> Thrown, c |-> "none"]
NoVerdict  == [outcome |-> "none", form |-> "none"]
NoSymbol   == [type |-> NoType, defined |-> FALSE]
Parsing    == verdict.outcome = "none"
InProgress == Parsing /\ base # NoBase

Init ==
  /\ specifiers = NoSpecifiers /\ base = NoBase /\ declarator = <<>>
  /\ symbol = NoSymbol /\ entity = NoSymbol /\ verdict = NoVerdict
  /\ history = [declarations |-> 0, modifiers |-> 0]

Specify ==
  /\ Parsing /\ base = NoBase /\ history.declarations = 0 /\ AddSpecifier
  /\ UNCHANGED <<base, declarator, symbol, entity, verdict, history>>

Named(counts) == CHOOSE type \in CType : counts \in CSpecifiers(type)

\* declaration_specifiers is reduced: the constructor may throw, and nothing
\* catches what it throws.
ReduceSpecifiers ==
  LET type == ResolveType(specifiers.counts)
  IN  /\ Parsing /\ base = NoBase /\ specifiers # NoSpecifiers
      /\ IF Thrown \in {type, ResolveStorageClass(specifiers.storage)}
         THEN verdict' = [outcome |-> "aborted", form |-> "specifiers"] /\ UNCHANGED base
         ELSE /\ specifiers.storage = {}
              /\ base' = [code |-> type, c |-> Named(specifiers.counts)]
              /\ UNCHANGED verdict
      /\ specifiers' = IF verdict' = verdict THEN NoSpecifiers ELSE specifiers
      /\ UNCHANGED <<declarator, symbol, entity, history>>

\* The name is declared again, its specifiers one of C's lists.
DeclareAgain ==
  /\ verdict.outcome = "accepted" /\ verdict.form # "type name"
  /\ history.declarations < MaxDeclarations
  /\ \E type \in CType : \E counts \in CSpecifiers(type) :
       /\ ResolveType(counts) # Thrown
       /\ base' = [code |-> ResolveType(counts), c |-> type]
  /\ declarator' = <<>> /\ verdict' = NoVerdict
  /\ UNCHANGED <<specifiers, symbol, entity, history>>

Wrap(modifier) ==
  /\ InProgress /\ history.modifiers < MaxModifiers
  /\ declarator' = <<modifier>> \o declarator
  /\ history' = [history EXCEPT !.modifiers = @ + 1]
  /\ UNCHANGED <<specifiers, base, symbol, entity, verdict>>

WrapInPointer  == Wrap([kind |-> "pointer", params |-> <<>>])
WrapInArray    == Wrap([kind |-> "array", params |-> <<>>])
WrapInFunction == \E params \in ParameterLists :
                    Wrap([kind |-> "function", params |-> params])

-----------------------------------------------------------------------------
(* The complete declaration is checked.                                    *)

EntityType == TypeInC(Primitive(Representation(base.c)), declarator)

Settle(outcome, form, type, defines) ==
  /\ verdict' = [outcome |-> outcome, form |-> form]
  /\ symbol' = IF outcome = "accepted"      \* of a type that is no other already
               THEN [type |-> type, defined |-> symbol.defined \/ defines] ELSE symbol
  /\ entity' = IF outcome = "accepted"
               THEN [type |-> IF entity.type = NoType THEN EntityType ELSE entity.type,
                     defined |-> entity.defined \/ defines]
               ELSE entity
  /\ history' = [history EXCEPT !.declarations = @ + 1]
  /\ UNCHANGED <<specifiers, base, declarator>>

\* Visit(Declaration), after the parser's SetInitializer, which throws in a
\* FunctionDeclarator.
CheckDeclaration(initialized) ==
  LET type == DeclaredType(Primitive(base.code), declarator)
      form == IF initialized THEN "initialized" ELSE "declaration"
  IN  /\ InProgress
      /\ IF initialized /\ FoundFunction(declarator) > 0
         THEN Settle("aborted", form, type, FALSE)
         ELSE IF DeclaratorReported(declarator) \/ BindReported(type, initialized)
         THEN Settle("reported", form, type, FALSE)
         ELSE Settle("accepted", form, type, initialized)

\* Visit(FunctionDefinition).
CheckDefinition ==
  LET type == DeclaredType(Primitive(base.code), declarator)
  IN  /\ InProgress
      /\ IF \/ FoundFunction(declarator) = 0 \/ DeclaratorReported(declarator)
            \/ BindReported(type, TRUE) \/ ParametersReported(declarator)
         THEN Settle("reported", "definition", type, FALSE)
         ELSE Settle("accepted", "definition", type, TRUE)

\* The specifiers and the abstract declarator are those of a type name instead.
CheckTypeName ==
  /\ InProgress /\ symbol = NoSymbol /\ FoundFunction(declarator) = 0
  /\ Settle("accepted", "type name", ObjectType(Primitive(base.code), declarator), FALSE)

Done == /\ \/ verdict.outcome \in {"aborted", "reported"} \/ verdict.form = "type name"
           \/ verdict.outcome = "accepted" /\ history.declarations = MaxDeclarations
        /\ UNCHANGED vars

Next == \/ Specify \/ ReduceSpecifiers \/ DeclareAgain
        \/ WrapInPointer \/ WrapInArray \/ WrapInFunction
        \/ \E initialized \in BOOLEAN : CheckDeclaration(initialized)
        \/ CheckDefinition \/ CheckTypeName \/ Done

DeclaratorSpec == Init /\ [][Next]_vars

-----------------------------------------------------------------------------
\* An accepted name has the type C gives it, long long being long, exactly when
\* its declarator is plain. Otherwise it has another: arrays have become
\* pointers, and of nested functions only the outermost is left
\* (TypeResolver, declarator_utils).
DeclaredTypesAreThoseOfC ==
  verdict.outcome = "accepted" /\ history.declarations = 1 =>
    (symbol.type = entity.type <=> Plain(declarator))

\* A plain declaration is accepted exactly when C accepts it after the ones
\* before it: it is a function if it is defined with a body and none if it is
\* initialised, has the type it had, and is not defined twice. A refusal is a
\* report, or an abort in the parser (DeclarationTypeChecker, BindFunction,
\* BindFileScopeObject).
VerdictsAreThoseOfC ==
  [][\A f \in {"declaration", "initialized", "definition"} :
       history'.declarations > history.declarations /\ verdict'.form = f
         /\ Plain(declarator) /\ symbol.type = entity.type =>
       ( verdict'.outcome = "accepted" <=>
         /\ ValidInC(declarator)
         /\ f = "definition" => IsFunction(EntityType)
         /\ f = "initialized" => ~IsFunction(EntityType)
         /\ symbol.type # NoType => entity.type = EntityType
         /\ ~(f # "declaration" /\ entity.defined) )]_vars

\* The cast the checker inserts to a type names that type again
\* (TypeResolver::BuildTypeName and ResolveTypeName).
TypeNamesRoundTrip ==
  symbol.type # NoType /\ ~IsFunction(symbol.type) =>
    ResolveTypeName(BuildTypeName(symbol.type)) = symbol.type
=============================================================================
