------------------------- MODULE Declarations_proofs -------------------------
(***************************************************************************)
(* Four results about declarations, for any names and any number of them.  *)
(*                                                                         *)
(* The type of a declaration: ResolveType for every multiset of            *)
(* specifiers, however large.                                              *)
(*                                                                         *)
(* The names it declares: SymbolResolver gives every use of a name what C's *)
(* rules of scope and linkage say, and refuses exactly the units those     *)
(* rules refuse.  The rules are stated over the items of the unit, the     *)
(* resolver works with a stack of maps, so the proof relates the two:      *)
(*   - Holds(t, open, D): the scopes of the table t, from the outermost    *)
(*     in, map exactly the names the declarations D make in the open       *)
(*     scopes;                                                             *)
(*   - Core: the table holds the declarations of the items resolved so     *)
(*     far, in the scopes around the next one, and what each declaration   *)
(*     and each use resolved to is an entry of its own for each entity.    *)
(* Each action's lemma shows that its item keeps Core when the visit does  *)
(* not throw, and that the unit has a scope error when it does.            *)
(*                                                                         *)
(* The units that are accepted: the passes over the resolved unit report   *)
(* an error only in a unit C does not define, and in every unit that       *)
(* breaks a rule.  Passed(A, n, B) is what the symbols A say after n items *)
(* were visited, as facts about those items rather than about the order of *)
(* the visits; Given(E, A, n) is the same of the initializers, and         *)
(* PassesInv says which of them holds before each pass.                    *)
(*                                                                         *)
(* The program they form: UnitRight(o) says that the symbols and           *)
(* references of an object file are C's definitions and uses in the unit;  *)
(* what the linker does with right object files is what C says.            *)
(***************************************************************************)
EXTENDS Linkage, TypeSpecifiers, NaturalsBySets

-----------------------------------------------------------------------------
\* The specifiers of a declaration.

Counts       == [TypeSpecifier -> Nat]
SpecifiersOK == specifiers \in [counts : Counts, storage : SUBSET StorageClassSpecifier]

\* However many specifiers a declaration has, the counters stay natural numbers
\* and the storage classes a set of the two words.
LEMMA SpecifiersTyped == Spec => []SpecifiersOK
<1>1. specifiers = NoSpecifiers => SpecifiersOK
  BY DEF SpecifiersOK, NoSpecifiers, Counts
<1>2. SpecifiersOK /\ [AddSpecifier]_specifiers => SpecifiersOK'
  <2> SUFFICES ASSUME SpecifiersOK, [AddSpecifier]_specifiers PROVE SpecifiersOK'
    OBVIOUS
  <2>1. ASSUME NEW s \in TypeSpecifier, AddTypeSpecifier(s) PROVE SpecifiersOK'
    BY <2>1 DEF SpecifiersOK, AddTypeSpecifier, Counts
  <2>2. ASSUME NEW s \in StorageClassSpecifier, AddStorageClass(s) PROVE SpecifiersOK'
    BY <2>2 DEF SpecifiersOK, AddStorageClass
  <2>3. CASE UNCHANGED specifiers
    BY <2>3 DEF SpecifiersOK
  <2> QED BY <2>1, <2>2, <2>3 DEF AddSpecifier
<1> QED BY <1>1, <1>2, PTL DEF Spec

\* A multiset over the five words is known from its five counters.
LEMMA CountsAreWords ==
  ASSUME NEW counts \in Counts
  PROVE  \E i, l, s, u, d \in Nat : counts = Words(i, l, s, u, d)
<1>1. \A x \in TypeSpecifier : counts[x] \in Nat
  BY DEF Counts
<1>2. counts = [x \in TypeSpecifier |-> counts[x]]
  BY DEF Counts
<1>3. \A x \in TypeSpecifier :
        counts[x] = IF x = "int" THEN counts["int"] ELSE IF x = "long" THEN counts["long"]
                    ELSE IF x = "signed" THEN counts["signed"]
                    ELSE IF x = "unsigned" THEN counts["unsigned"] ELSE counts["double"]
  BY DEF TypeSpecifier
<1>4. counts = Words(counts["int"], counts["long"], counts["signed"],
                     counts["unsigned"], counts["double"])
  BY <1>2, <1>3 DEF Words
<1> QED BY <1>1, <1>4 DEF TypeSpecifier

\* The counters of a multiset given by them.
LEMMA WordsCount ==
  ASSUME NEW i, NEW l, NEW s, NEW u, NEW d
  PROVE  LET w == Words(i, l, s, u, d)
         IN  /\ w["int"] = i /\ w["long"] = l /\ w["signed"] = s
             /\ w["unsigned"] = u /\ w["double"] = d
  BY DEF Words, TypeSpecifier

\* Multisets are equal exactly if their counters are.
LEMMA WordsDiffer ==
  ASSUME NEW i, NEW l, NEW s, NEW u, NEW d, NEW i2, NEW l2, NEW s2, NEW u2, NEW d2
  PROVE  Words(i, l, s, u, d) = Words(i2, l2, s2, u2, d2)
           <=> i = i2 /\ l = l2 /\ s = s2 /\ u = u2 /\ d = d2
  BY WordsCount

\* The type the compiler has for each type of C.
LEMMA RepresentationOfTypes ==
  /\ Representation("int") = "int" /\ Representation("uint") = "uint"
  /\ Representation("long") = "long" /\ Representation("ulong") = "ulong"
  /\ Representation("long long") = "long"
  /\ Representation("unsigned long long") = "ulong"
  /\ Representation("double") = "double"
  /\ Representation("long double") = "thrown"
  BY DEF Representation, Thrown

\* ResolveType gives every multiset of counters the type it is listed under, or throws.
LEMMA ResolvesAsListed ==
  ASSUME NEW i \in Nat, NEW l \in Nat, NEW s \in Nat, NEW u \in Nat, NEW d \in Nat
  PROVE  LET w == Words(i, l, s, u, d)
         IN  /\ \A type \in CType :
                  w \in CSpecifiers(type) => ResolveType(w) = Representation(type)
             /\ (\A type \in CType : w \notin CSpecifiers(type)) => ResolveType(w) = Thrown
<1> DEFINE w == Words(i, l, s, u, d)
<1>3. /\ w \in CSpecifiers("int") <=>
           l = 0 /\ u = 0 /\ d = 0 /\ i <= 1 /\ s <= 1 /\ (i = 1 \/ s = 1)
      /\ w \in CSpecifiers("uint") <=> l = 0 /\ s = 0 /\ d = 0 /\ i <= 1 /\ u = 1
      /\ w \in CSpecifiers("long") <=> l = 1 /\ u = 0 /\ d = 0 /\ i <= 1 /\ s <= 1
      /\ w \in CSpecifiers("ulong") <=> l = 1 /\ s = 0 /\ d = 0 /\ i <= 1 /\ u = 1
      /\ w \in CSpecifiers("long long") <=>
           l = 2 /\ u = 0 /\ d = 0 /\ i <= 1 /\ s <= 1
      /\ w \in CSpecifiers("unsigned long long") <=>
           l = 2 /\ s = 0 /\ d = 0 /\ i <= 1 /\ u = 1
      /\ w \in CSpecifiers("double") <=>
           i = 0 /\ l = 0 /\ s = 0 /\ u = 0 /\ d = 1
      /\ w \in CSpecifiers("long double") <=>
           i = 0 /\ l = 1 /\ s = 0 /\ u = 0 /\ d = 1
  BY WordsDiffer DEF CSpecifiers
<1>5. /\ w["int"] = i /\ w["long"] = l /\ w["signed"] = s
      /\ w["unsigned"] = u /\ w["double"] = d
  BY WordsCount
<1> HIDE DEF w
<1>6. (\E x \in TypeSpecifier \ {"long"} : w[x] > 1) <=> i > 1 \/ s > 1 \/ u > 1 \/ d > 1
  BY <1>5 DEF TypeSpecifier
<1>7. (\E x \in TypeSpecifier \ {"double"} : w[x] > 0) <=> i > 0 \/ l > 0 \/ s > 0 \/ u > 0
  BY <1>5 DEF TypeSpecifier
<1> DEFINE bad == \/ i > 1 \/ s > 1 \/ u > 1 \/ d > 1 \/ l > 2
                  \/ d > 0 /\ (i > 0 \/ l > 0 \/ s > 0 \/ u > 0)
                  \/ u > 0 /\ s > 0
<1>4. /\ bad => ResolveType(w) = "thrown"
      /\ ~bad /\ u > 0 /\ l > 0 => ResolveType(w) = "ulong"
      /\ ~bad /\ u > 0 /\ ~(l > 0) => ResolveType(w) = "uint"
      /\ ~bad /\ ~(u > 0) /\ l > 0 => ResolveType(w) = "long"
      /\ ~bad /\ ~(u > 0) /\ ~(l > 0) /\ (s > 0 \/ i > 0) => ResolveType(w) = "int"
      /\ ~bad /\ ~(u > 0) /\ ~(l > 0) /\ ~(s > 0 \/ i > 0) /\ d > 0
           => ResolveType(w) = "double"
      /\ ~(u > 0) /\ ~(l > 0) /\ ~(s > 0 \/ i > 0) /\ ~(d > 0) => ResolveType(w) = "thrown"
  BY <1>5, <1>6, <1>7 DEF ResolveType, Thrown
<1>1. ASSUME NEW type \in CType, w \in CSpecifiers(type)
      PROVE  ResolveType(w) = Representation(type)
  <2>1. CASE type = "int"
    <3>1. l = 0 /\ u = 0 /\ d = 0 /\ i <= 1 /\ s <= 1 /\ (i = 1 \/ s = 1)
      BY <1>1, <1>3, <2>1
    <3>2. ResolveType(w) = "int"
      BY <3>1, <1>4
    <3> QED BY <2>1, <3>2, RepresentationOfTypes
  <2>2. CASE type = "uint"
    <3>1. l = 0 /\ s = 0 /\ d = 0 /\ i <= 1 /\ u = 1
      BY <1>1, <1>3, <2>2
    <3>2. ResolveType(w) = "uint"
      BY <3>1, <1>4
    <3> QED BY <2>2, <3>2, RepresentationOfTypes
  <2>3. CASE type = "long"
    <3>1. l = 1 /\ u = 0 /\ d = 0 /\ i <= 1 /\ s <= 1
      BY <1>1, <1>3, <2>3
    <3>2. ResolveType(w) = "long"
      BY <3>1, <1>4
    <3> QED BY <2>3, <3>2, RepresentationOfTypes
  <2>4. CASE type = "ulong"
    <3>1. l = 1 /\ s = 0 /\ d = 0 /\ i <= 1 /\ u = 1
      BY <1>1, <1>3, <2>4
    <3>2. ResolveType(w) = "ulong"
      BY <3>1, <1>4
    <3> QED BY <2>4, <3>2, RepresentationOfTypes
  <2>5. CASE type = "long long"
    <3>1. l = 2 /\ u = 0 /\ d = 0 /\ i <= 1 /\ s <= 1
      BY <1>1, <1>3, <2>5
    <3>2. ResolveType(w) = "long"
      BY <3>1, <1>4
    <3> QED BY <2>5, <3>2, RepresentationOfTypes
  <2>6. CASE type = "unsigned long long"
    <3>1. l = 2 /\ s = 0 /\ d = 0 /\ i <= 1 /\ u = 1
      BY <1>1, <1>3, <2>6
    <3>2. ResolveType(w) = "ulong"
      BY <3>1, <1>4
    <3> QED BY <2>6, <3>2, RepresentationOfTypes
  <2>7. CASE type = "double"
    <3>1. i = 0 /\ l = 0 /\ s = 0 /\ u = 0 /\ d = 1
      BY <1>1, <1>3, <2>7
    <3>2. ResolveType(w) = "double"
      BY <3>1, <1>4
    <3> QED BY <2>7, <3>2, RepresentationOfTypes
  <2>8. CASE type = "long double"
    <3>1. i = 0 /\ l = 1 /\ s = 0 /\ u = 0 /\ d = 1
      BY <1>1, <1>3, <2>8
    <3>2. ResolveType(w) = "thrown"
      BY <3>1, <1>4
    <3> QED BY <2>8, <3>2, RepresentationOfTypes
  <2> QED BY <2>1, <2>2, <2>3, <2>4, <2>5, <2>6, <2>7, <2>8 DEF CType
<1>2. ASSUME \A type \in CType : w \notin CSpecifiers(type)
      PROVE  ResolveType(w) = "thrown"
  <2>1. /\ w \notin CSpecifiers("int") /\ w \notin CSpecifiers("uint")
        /\ w \notin CSpecifiers("long") /\ w \notin CSpecifiers("ulong")
        /\ w \notin CSpecifiers("long long") /\ w \notin CSpecifiers("unsigned long long")
        /\ w \notin CSpecifiers("double")
    BY <1>2 DEF CType
  <2>2. CASE bad
    BY <1>4, <2>2
  <2>3. CASE ~bad
    <3>1. /\ i <= 1 /\ s <= 1 /\ u <= 1 /\ d <= 1 /\ l <= 2
          /\ d = 0 \/ (i = 0 /\ l = 0 /\ s = 0 /\ u = 0)
          /\ u = 0 \/ s = 0
      BY <2>3
    <3>2. /\ ~(l = 0 /\ u = 0 /\ d = 0 /\ i <= 1 /\ s <= 1 /\ (i = 1 \/ s = 1))
          /\ ~(l = 0 /\ s = 0 /\ d = 0 /\ i <= 1 /\ u = 1)
          /\ ~(i = 0 /\ l = 0 /\ s = 0 /\ u = 0 /\ d = 1)
      BY <1>3, <2>1
    <3>3. /\ ~(l = 1 /\ u = 0 /\ d = 0 /\ i <= 1 /\ s <= 1)
          /\ ~(l = 1 /\ s = 0 /\ d = 0 /\ i <= 1 /\ u = 1)
      BY <1>3, <2>1
    <3>4. /\ ~(l = 2 /\ u = 0 /\ d = 0 /\ i <= 1 /\ s <= 1)
          /\ ~(l = 2 /\ s = 0 /\ d = 0 /\ i <= 1 /\ u = 1)
      BY <1>3, <2>1
    <3>5. u = 0
      BY <3>1, <3>2, <3>3, <3>4
    <3>6. l = 0
      BY <3>1, <3>3, <3>4, <3>5
    <3>7. s = 0 /\ i = 0
      BY <3>1, <3>2, <3>5, <3>6
    <3>8. d = 0
      BY <3>1, <3>2, <3>5, <3>6, <3>7
    <3> QED BY <1>4, <3>5, <3>6, <3>7, <3>8
  <2> QED BY <2>2, <2>3
<1> QED BY <1>1, <1>2 DEF w, Thrown

\* Whatever specifiers a declaration has, it gets the type of C or is refused.
THEOREM SpecifiersResolved == Spec => []SpecifiersMeanWhatCSays
<1>1. SpecifiersOK => SpecifiersMeanWhatCSays
  BY CountsAreWords, ResolvesAsListed DEF SpecifiersOK, SpecifiersMeanWhatCSays
<1> QED BY <1>1, SpecifiersTyped, PTL

-----------------------------------------------------------------------------
\* The names of a unit.

\* The names, the unique names made from them, and the tables over both.
Ident == Names \cup FunctionNames
Ids   == {<<n>> : n \in Ident} \cup {<<n, c>> : n \in Ident, c \in Nat}
Map(K, V) == UNION {[S -> V] : S \in SUBSET K}
Infos == {Symbol(id, n, l) : id \in Ids, n \in Ident, l \in {"external", "none"}}
Tables == [scopes : Seq(Map(Ident, Infos)), nameCounters : Map(Ident, Nat),
           allSymbols : Map(Ids, Infos)]

-----------------------------------------------------------------------------
\* The operations of the symbol table.

\* A map stays one of its type when an entry is inserted.
LEMMA Inserted ==
  ASSUME NEW K, NEW V, NEW f \in Map(K, V), NEW k \in K, NEW v \in V
  PROVE  Insert(f, k, v) \in Map(K, V)
<1>1. PICK S \in SUBSET K : f \in [S -> V]
  BY DEF Map
<1>2. Insert(f, k, v) \in [S \cup {k} -> V]
  BY <1>1 DEF Insert
<1>3. S \cup {k} \in SUBSET K
  OBVIOUS
<1> QED BY <1>1, <1>2, <1>3 DEF Map

\* The empty map is of every type.
LEMMA EmptyMap == ASSUME NEW K, NEW V PROVE <<>> \in Map(K, V) /\ DOMAIN <<>> = {}
<1>1. <<>> = [x \in {} |-> x]
  OBVIOUS
<1>2. <<>> \in [{} -> V]
  BY <1>1
<1> QED BY <1>2 DEF Map

\* The keys and the values of a map.
LEMMA Mapped ==
  ASSUME NEW K, NEW V, NEW f \in Map(K, V)
  PROVE  DOMAIN f \subseteq K /\ \A k \in DOMAIN f : f[k] \in V
BY DEF Map

\* The entries the resolver makes are entries.
LEMMA Infos_ ==
  ASSUME NEW id \in Ids, NEW n \in Ident, NEW l \in {"external", "none"}
  PROVE  /\ Symbol(id, n, l) \in Infos
         /\ Symbol(id, n, l).name = id
         /\ Symbol(id, n, l).linkage = l
<1>1. Symbol(id, n, l) \in Infos
  BY DEF Infos
<1> QED BY <1>1 DEF Symbol

\* EnterScope adds an empty innermost map.
LEMMA EnterTable ==
  ASSUME NEW t \in Tables
  PROVE  LET e == EnterScope(t)
         IN  /\ e \in Tables
             /\ e.scopes = Append(t.scopes, <<>>)
             /\ Len(e.scopes) = Len(t.scopes) + 1
             /\ \A k \in 1 .. Len(t.scopes) : e.scopes[k] = t.scopes[k]
             /\ e.scopes[Len(t.scopes) + 1] = <<>>
             /\ e.nameCounters = t.nameCounters
             /\ e.allSymbols = t.allSymbols
<1>1. <<>> \in Map(Ident, Infos)
  BY EmptyMap
<1> QED BY <1>1 DEF EnterScope, Tables

\* ExitScope drops the innermost map.
LEMMA ExitTable ==
  ASSUME NEW t \in Tables, Len(t.scopes) > 0
  PROVE  LET e == ExitScope(t)
         IN  /\ e \in Tables
             /\ Len(e.scopes) = Len(t.scopes) - 1
             /\ \A k \in 1 .. Len(t.scopes) - 1 : e.scopes[k] = t.scopes[k]
             /\ e.nameCounters = t.nameCounters
             /\ e.allSymbols = t.allSymbols
<1>1. t.scopes \in Seq(Map(Ident, Infos)) /\ t.scopes # <<>>
  BY DEF Tables
<1> DEFINE s == SubSeq(t.scopes, 1, Len(t.scopes) - 1)
<1>2. s \in Seq(Map(Ident, Infos)) /\ Len(s) = Len(t.scopes) - 1
  BY <1>1
<1>3. \A k \in 1 .. Len(t.scopes) - 1 : s[k] = t.scopes[k]
  BY <1>1
<1>4. ExitScope(t) = [t EXCEPT !.scopes = s]
  BY <1>1 DEF ExitScope
<1> HIDE DEF s
<1> QED BY <1>2, <1>3, <1>4 DEF Tables

\* GenerateUniqueName counts the one name.
LEMMA CountTable ==
  ASSUME NEW t \in Tables, NEW name \in Ident
  PROVE  LET c == CountName(t, name)
         IN  /\ c \in Tables
             /\ c.scopes = t.scopes /\ c.allSymbols = t.allSymbols
             /\ \A n \in Ident : NameCount(t, n) \in Nat
             /\ \A n \in Ident :
                  NameCount(c, n) = IF n = name THEN NameCount(t, n) + 1 ELSE NameCount(t, n)
<1>1. t.nameCounters \in Map(Ident, Nat)
  BY DEF Tables
<1>2. \A n \in Ident : NameCount(t, n) \in Nat
  BY <1>1, Mapped DEF NameCount
<1>3. NameCount(t, name) + 1 \in Nat
  BY <1>2
<1> DEFINE i == Insert(t.nameCounters, name, NameCount(t, name) + 1)
<1>4. /\ i \in Map(Ident, Nat) /\ DOMAIN i = DOMAIN t.nameCounters \cup {name}
      /\ i[name] = NameCount(t, name) + 1
      /\ \A j \in DOMAIN t.nameCounters : j # name => i[j] = t.nameCounters[j]
  <2>1. i \in Map(Ident, Nat)
    BY <1>1, <1>3, Inserted
  <2>2. DOMAIN i = DOMAIN t.nameCounters \cup {name}
    BY DEF Insert
  <2>3. i[name] = NameCount(t, name) + 1
    BY DEF Insert
  <2>4. \A j \in DOMAIN t.nameCounters : j # name => i[j] = t.nameCounters[j]
    BY DEF Insert
  <2> QED BY <2>1, <2>2, <2>3, <2>4
<1> HIDE DEF i
<1>5. CountName(t, name) = [t EXCEPT !.nameCounters = i]
  BY DEF CountName, i
<1>6. /\ CountName(t, name) \in Tables /\ CountName(t, name).scopes = t.scopes
      /\ CountName(t, name).nameCounters = i /\ CountName(t, name).allSymbols = t.allSymbols
  BY <1>4, <1>5 DEF Tables
<1>7. \A n \in Ident : NameCount(CountName(t, name), n)
                         = IF n = name THEN NameCount(t, n) + 1 ELSE NameCount(t, n)
  BY <1>4, <1>6 DEF NameCount
<1> QED BY <1>2, <1>6, <1>7

\* Declare adds the entry to the innermost map only.
LEMMA DeclareTable ==
  ASSUME NEW t \in Tables, NEW name \in Ident, NEW info \in Infos, info.name \in Ids,
         Len(t.scopes) > 0, ~IsInCurrentScope(t, name)
  PROVE  LET e == Declare(t, name, info)
             n == Len(t.scopes)
         IN  /\ e \in Tables
             /\ Len(e.scopes) = n
             /\ \A k \in 1 .. n - 1 : e.scopes[k] = t.scopes[k]
             /\ DOMAIN e.scopes[n] = DOMAIN t.scopes[n] \cup {name}
             /\ e.scopes[n][name] = info
             /\ \A j \in DOMAIN t.scopes[n] : e.scopes[n][j] = t.scopes[n][j]
             /\ e.nameCounters = t.nameCounters
             /\ e.allSymbols = Insert(t.allSymbols, info.name, info)
<1> DEFINE n == Len(t.scopes)
           i == Insert(t.scopes[n], name, info)
           s == Insert(t.allSymbols, info.name, info)
<1>0. /\ t.scopes \in Seq(Map(Ident, Infos)) /\ t.allSymbols \in Map(Ids, Infos)
      /\ n \in 1 .. Len(t.scopes) /\ t.scopes[n] \in Map(Ident, Infos)
  BY DEF Tables
<1>1. /\ i \in Map(Ident, Infos) /\ DOMAIN i = DOMAIN t.scopes[n] \cup {name} /\ i[name] = info
      /\ \A j \in DOMAIN t.scopes[n] : j # name => i[j] = t.scopes[n][j]
  <2>1. i \in Map(Ident, Infos)
    BY <1>0, Inserted
  <2>2. DOMAIN i = DOMAIN t.scopes[n] \cup {name}
    BY DEF Insert
  <2>3. i[name] = info
    BY DEF Insert
  <2>4. \A j \in DOMAIN t.scopes[n] : j # name => i[j] = t.scopes[n][j]
    BY DEF Insert
  <2> QED BY <2>1, <2>2, <2>3, <2>4
<1>2. s \in Map(Ids, Infos)
  BY <1>0, Inserted
<1>3. name \notin DOMAIN t.scopes[n]
  BY <1>0 DEF IsInCurrentScope
<1>4. Declare(t, name, info) = [t EXCEPT !.scopes[n] = i, !.allSymbols = s]
  BY DEF Declare
<1> HIDE DEF i, s
<1>5. /\ Declare(t, name, info).scopes = [t.scopes EXCEPT ![n] = i]
      /\ Declare(t, name, info).nameCounters = t.nameCounters
      /\ Declare(t, name, info).allSymbols = s
  BY <1>4 DEF Tables
<1>6. [t.scopes EXCEPT ![n] = i] \in Seq(Map(Ident, Infos))
  BY <1>0, <1>1
<1>7. Declare(t, name, info) \in Tables
  BY <1>2, <1>4, <1>6 DEF Tables
<1> QED BY <1>0, <1>1, <1>3, <1>5, <1>7 DEF s

\* Lookup finds a name in the innermost map that has it.
LEMMA Innermost_ ==
  ASSUME NEW t \in Tables, NEW name, DeclaringScopes(t, name) # {}
  PROVE  \E k \in DeclaringScopes(t, name) :
           /\ \A other \in DeclaringScopes(t, name) : other <= k
           /\ Lookup(t, name) = t.scopes[k][name]
<1> DEFINE W == DeclaringScopes(t, name)
           n == Len(t.scopes)
           T == {n - k : k \in W}
<1>1. n \in Nat /\ W \subseteq 1 .. n
  BY DEF DeclaringScopes, Tables
<1>2. T \in SUBSET Nat /\ T # {}
  BY <1>1
<1>3. PICK m \in T : \A j \in T : m <= j
  BY <1>2, LeastNatural
<1>4. PICK k \in W : m = n - k
  BY <1>3
<1>5. ASSUME NEW other \in W PROVE other <= k
  <2>1. n - other \in T
    OBVIOUS
  <2>2. m <= n - other
    BY <1>3, <2>1
  <2> QED BY <1>1, <1>4, <2>2
<1> DEFINE c == CHOOSE j \in W : \A other \in W : other <= j
<1>6. c \in W /\ \A other \in W : other <= c
  BY <1>4, <1>5
<1>7. Lookup(t, name) = t.scopes[c][name]
  BY DEF Lookup
<1> QED BY <1>6, <1>7

\* A name of the current scope is looked up there.
LEMMA CurrentLookup ==
  ASSUME NEW t \in Tables, NEW name, IsInCurrentScope(t, name)
  PROVE  Lookup(t, name) = t.scopes[Len(t.scopes)][name]
<1>1. Len(t.scopes) \in DeclaringScopes(t, name) /\ DeclaringScopes(t, name) \subseteq 1 .. Len(t.scopes)
  BY DEF DeclaringScopes, Tables, IsInCurrentScope
<1>2. PICK k \in DeclaringScopes(t, name) :
           /\ \A other \in DeclaringScopes(t, name) : other <= k
           /\ Lookup(t, name) = t.scopes[k][name]
  BY <1>1, Innermost_
<1>3. k = Len(t.scopes)
  BY <1>1, <1>2 DEF Tables
<1> QED BY <1>2, <1>3

-----------------------------------------------------------------------------
(* A table against the declarations of the unit: open lists the scopes     *)
(* that are open, the file scope first.                                    *)

\* The open scopes, from the outermost in, as sets of the items that open them.
Opens(open) == /\ open \in Seq(SUBSET Nat) /\ open # <<>>
               /\ \A j, k \in DOMAIN open : open[j] = open[k] => j = k
Here(open)  == open[Len(open)]

\* The linkage the resolver records for a declaration.
LinkageOf(d) == IF d.linked THEN "external" ELSE "none"

\* Each map of the table has exactly the declarations of its scope.
ScopesHold(t, open, D) ==
  /\ Len(t.scopes) = Len(open)
  /\ \A k \in 1 .. Len(open) : \A n \in Ident :
       n \in DOMAIN t.scopes[k] <=> \E d \in D : d.scope = open[k] /\ d.name = n
  /\ \A k \in 1 .. Len(open) : \A d \in D : d.scope = open[k] =>
       /\ t.scopes[k][d.name].name = d.id
       /\ t.scopes[k][d.name].linkage = LinkageOf(d)

\* A name without linkage is made unique by a number its counter has passed.
Numbered(t, d) == \E c \in Nat : c < NameCount(t, d.name) /\ d.id = <<d.name, c>>

\* The unique names of the declarations are those the table's counters could give.
NamesHold(t, D) ==
  \A d \in D : /\ d.name \in Ident /\ d.linked \in BOOLEAN
               /\ d.linked => d.id = <<d.name>>
               /\ ~d.linked => Numbered(t, d)

\* Two declarations C forbids in one scope.
Collide(d, e)  == /\ d.name = e.name /\ d.scope = e.scope /\ ~(d.linked /\ e.linked)
\* Two declarations without linkage that could be mistaken for one another.
SameThing(d, e) == /\ ~d.linked /\ ~e.linked
                   /\ d.id = e.id \/ (d.at = e.at /\ d.index = e.index)

\* No two declarations collide, and objects without linkage have names of their own.
Distinct(D) == \A d, e \in D : Collide(d, e) \/ SameThing(d, e) => d = e

\* The symbols of the unit are those of the declarations, as they were declared.
SymbolsHold(t, D) == /\ DOMAIN t.allSymbols = {d.id : d \in D}
                     /\ \A d \in D : t.allSymbols[d.id] = Symbol(d.id, d.name, LinkageOf(d))

\* The table represents the declarations D seen from the open scopes.
Holds(t, open, D) == /\ t \in Tables /\ Opens(open)
                     /\ ScopesHold(t, open, D) /\ NamesHold(t, D) /\ Distinct(D)
                     /\ SymbolsHold(t, D)

\* There is an innermost open scope.
LEMMA OpenFacts ==
  ASSUME NEW t, NEW open, NEW D, Holds(t, open, D)
  PROVE  /\ Len(open) \in Nat \ {0} /\ Len(t.scopes) = Len(open)
         /\ Len(open) \in 1 .. Len(open) /\ Len(open) \in DOMAIN open
         /\ DOMAIN open = 1 .. Len(open)
         /\ Here(open) \in SUBSET Nat
         /\ t.scopes # <<>>
         /\ \A k \in 1 .. Len(open) : open[k] = Here(open) => k = Len(open)
<1>1. Len(open) \in Nat /\ DOMAIN open = 1 .. Len(open) /\ Len(open) # 0
  BY DEF Holds, Opens
<1>2. Len(t.scopes) = Len(open)
  BY DEF Holds, ScopesHold
<1>3. Here(open) \in SUBSET Nat
  BY <1>1 DEF Holds, Opens, Here
<1>0. Len(open) \in Nat \ {0} /\ Len(open) \in 1 .. Len(open)
  BY <1>1
<1>4. ASSUME NEW k \in 1 .. Len(open), open[k] = Here(open) PROVE k = Len(open)
  <2>1. \A j, m \in DOMAIN open : open[j] = open[m] => j = m
    BY DEF Holds, Opens
  <2>2. k \in DOMAIN open /\ Len(open) \in DOMAIN open
    BY <1>0, <1>1
  <2> QED BY <1>4, <2>1, <2>2 DEF Here
<1>5. t.scopes # <<>>
  BY <1>1, <1>2 DEF Holds, Tables
<1> QED BY <1>0, <1>1, <1>2, <1>3, <1>4, <1>5

\* The current scope knows exactly the names declared in it, with their entries.
LEMMA CurrentFacts ==
  ASSUME NEW t, NEW open, NEW D, Holds(t, open, D), NEW name \in Ident
  PROVE  /\ IsInCurrentScope(t, name) <=> \E e \in D : e.scope = Here(open) /\ e.name = name
         /\ \A e \in D : e.scope = Here(open) /\ e.name = name =>
              /\ Lookup(t, name).name = e.id
              /\ Lookup(t, name).linkage = LinkageOf(e)
<1>1. t \in Tables /\ ScopesHold(t, open, D)
  BY DEF Holds
<1>2. IsInCurrentScope(t, name) <=> name \in DOMAIN t.scopes[Len(open)]
  BY OpenFacts DEF IsInCurrentScope
<1>3. IsInCurrentScope(t, name) <=> \E e \in D : e.scope = Here(open) /\ e.name = name
  BY <1>1, <1>2, OpenFacts DEF ScopesHold, Here
<1>4. ASSUME NEW e \in D, e.scope = Here(open), e.name = name
      PROVE  /\ Lookup(t, name).name = e.id
             /\ Lookup(t, name).linkage = LinkageOf(e)
  <2>1. Lookup(t, name) = t.scopes[Len(open)][name]
    BY <1>1, <1>3, <1>4, CurrentLookup, OpenFacts
  <2> QED BY <1>1, <1>4, <2>1, OpenFacts DEF ScopesHold, Here
<1> QED BY <1>3, <1>4

\* A further declaration with linkage needs no entry.
LEMMA DeclaredAgain ==
  ASSUME NEW t, NEW open, NEW D, Holds(t, open, D),
         NEW d, d.name \in Ident, d.linked = TRUE, d.id = <<d.name>>, d.scope = Here(open),
         \E e \in D : e.scope = Here(open) /\ e.name = d.name /\ e.linked
  PROVE  Holds(t, open, D \cup {d})
<1>1. PICK e \in D : e.scope = Here(open) /\ e.name = d.name /\ e.linked
  OBVIOUS
<1>2. e.id = d.id /\ LinkageOf(e) = "external" /\ LinkageOf(d) = "external"
  BY <1>1 DEF Holds, NamesHold, LinkageOf
<1>3. ScopesHold(t, open, D \cup {d})
  <2>1. ASSUME NEW k \in 1 .. Len(open), d.scope = open[k]
        PROVE  /\ t.scopes[k][d.name].name = d.id
               /\ t.scopes[k][d.name].linkage = LinkageOf(d)
    BY <1>1, <1>2, <2>1 DEF Holds, ScopesHold
  <2>2. ASSUME NEW k \in 1 .. Len(open), NEW n \in Ident
        PROVE  n \in DOMAIN t.scopes[k] <=> \E x \in D \cup {d} : x.scope = open[k] /\ x.name = n
    BY <1>1, <2>2 DEF Holds, ScopesHold
  <2> QED BY <2>1, <2>2, SMTT(30) DEF Holds, ScopesHold
<1>4. NamesHold(t, D \cup {d})
  BY DEF Holds, NamesHold
<1>5. ASSUME NEW x \in D, Collide(x, d) PROVE FALSE
  <2>1. ~x.linked /\ x.name = e.name /\ x.scope = e.scope
    BY <1>1, <1>5 DEF Collide
  <2>2. x = e
    BY <2>1 DEF Holds, Distinct, Collide
  <2> QED BY <1>1, <2>1, <2>2
<1>6. Distinct(D \cup {d})
  <2>1. \A x \in D : ~SameThing(x, d) /\ ~SameThing(d, x) /\ ~Collide(x, d) /\ ~Collide(d, x)
    BY <1>5 DEF SameThing, Collide
  <2> QED BY <2>1 DEF Holds, Distinct
<1>7. SymbolsHold(t, D \cup {d})
  <2>1. d.name = e.name /\ SymbolsHold(t, D)
    BY <1>1, <1>2 DEF Holds
  <2> QED BY <1>2, <2>1, <1>1 DEF SymbolsHold
<1> QED BY <1>3, <1>4, <1>6, <1>7 DEF Holds

\* The entry of a name's first declaration in its scope represents it.
LEMMA DeclaredFirst ==
  ASSUME NEW t, NEW open, NEW D, Holds(t, open, D), NEW c \in Tables,
         c.scopes = t.scopes, c.allSymbols = t.allSymbols,
         NEW d, d.name \in Ident, d.linked \in BOOLEAN, d.scope = Here(open), d.id \in Ids,
         ~IsInCurrentScope(t, d.name),
         \A n \in Ident : NameCount(t, n) <= NameCount(c, n) /\ NameCount(c, n) \in Nat
                          /\ NameCount(t, n) \in Nat,
         d.linked => d.id = <<d.name>>,
         ~d.linked => /\ Numbered(c, d)
                      /\ d.id = <<d.name, NameCount(t, d.name)>>
                      /\ \A e \in D : ~(e.at = d.at /\ e.index = d.index)
  PROVE  Holds(Declare(c, d.name, Symbol(d.id, d.name, LinkageOf(d))), open, D \cup {d})
<1> DEFINE info == Symbol(d.id, d.name, LinkageOf(d))
           r == Declare(c, d.name, info)
           n == Len(open)
<1>0. /\ ~IsInCurrentScope(c, d.name) /\ Len(c.scopes) > 0 /\ Len(c.scopes) = n /\ n \in Nat \ {0}
  BY OpenFacts DEF IsInCurrentScope
<1>1. info \in Infos /\ info.name = d.id /\ info.linkage = LinkageOf(d)
  BY Infos_ DEF LinkageOf
<1> HIDE DEF info
<1>2. /\ r \in Tables
      /\ Len(r.scopes) = n
      /\ \A k \in 1 .. n - 1 : r.scopes[k] = c.scopes[k]
      /\ DOMAIN r.scopes[n] = DOMAIN c.scopes[n] \cup {d.name}
      /\ r.scopes[n][d.name] = info
      /\ \A j \in DOMAIN c.scopes[n] : r.scopes[n][j] = c.scopes[n][j]
      /\ r.nameCounters = c.nameCounters
      /\ r.allSymbols = Insert(t.allSymbols, d.id, info)
  BY <1>0, <1>1, DeclareTable
<1> HIDE DEF r
<1>3. \A e \in D : ~(e.scope = Here(open) /\ e.name = d.name)
  BY CurrentFacts
<1>4. ScopesHold(r, open, D \cup {d})
  <2>1. ASSUME NEW k \in 1 .. n, NEW m \in Ident
        PROVE  m \in DOMAIN r.scopes[k] <=> \E x \in D \cup {d} : x.scope = open[k] /\ x.name = m
    <3>1. m \in DOMAIN t.scopes[k] <=> \E x \in D : x.scope = open[k] /\ x.name = m
      BY DEF Holds, ScopesHold
    <3>2. CASE k = n
      BY <1>2, <3>1, <3>2 DEF Here
    <3>3. CASE k # n
      <4>1. k \in 1 .. n - 1 /\ open[k] # d.scope
        BY <1>0, <3>3, OpenFacts
      <4> QED BY <1>2, <3>1, <4>1
    <3> QED BY <3>2, <3>3
  <2>2. ASSUME NEW k \in 1 .. n, NEW x \in D, x.scope = open[k]
        PROVE  /\ r.scopes[k][x.name].name = x.id
               /\ r.scopes[k][x.name].linkage = LinkageOf(x)
    <3>1. /\ t.scopes[k][x.name].name = x.id
          /\ t.scopes[k][x.name].linkage = LinkageOf(x)
      BY <2>2 DEF Holds, ScopesHold
    <3>2. x.name \in Ident
      BY DEF Holds, NamesHold
    <3>3. x.name \in DOMAIN t.scopes[k]
      BY <2>2, <3>2 DEF Holds, ScopesHold
    <3>4. CASE k = n
      BY <1>2, <3>1, <3>3, <3>4
    <3>5. CASE k # n
      <4>1. k \in 1 .. n - 1
        BY <1>0, <3>5
      <4> QED BY <1>2, <3>1, <4>1
    <3> QED BY <3>4, <3>5
  <2>3. ASSUME NEW k \in 1 .. n, d.scope = open[k]
        PROVE  /\ r.scopes[k][d.name].name = d.id
               /\ r.scopes[k][d.name].linkage = LinkageOf(d)
    <3>1. k = n
      BY <2>3, OpenFacts
    <3> QED BY <1>1, <1>2, <3>1
  <2> QED BY <1>2, <2>1, <2>2, <2>3 DEF ScopesHold
<1>5. \A m : NameCount(r, m) = NameCount(c, m)
  BY <1>2 DEF NameCount
<1>6. ASSUME NEW x \in D, ~x.linked PROVE Numbered(r, x)
  <2>1. PICK k \in Nat : k < NameCount(t, x.name) /\ x.id = <<x.name, k>>
    BY <1>6 DEF Holds, NamesHold, Numbered
  <2>2. x.name \in Ident
    BY DEF Holds, NamesHold
  <2>3. k < NameCount(r, x.name)
    BY <1>5, <2>1, <2>2
  <2> QED BY <2>1, <2>3 DEF Numbered
<1>7. ~d.linked => Numbered(r, d)
  BY <1>5 DEF Numbered
<1>8. NamesHold(r, D \cup {d})
  BY <1>6, <1>7 DEF Holds, NamesHold
<1>9. ASSUME NEW x \in D, SameThing(x, d) \/ SameThing(d, x) PROVE FALSE
  <2>1. ~x.linked /\ ~d.linked /\ x.id = d.id
    BY <1>9 DEF SameThing
  <2>2. PICK k \in Nat : k < NameCount(t, x.name) /\ x.id = <<x.name, k>>
    BY <2>1 DEF Holds, NamesHold, Numbered
  <2>3. x.name = d.name /\ k = NameCount(t, d.name)
    BY <2>1, <2>2
  <2> QED BY <2>2, <2>3
<1>10. Distinct(D \cup {d})
  <2>1. \A x \in D : ~Collide(x, d) /\ ~Collide(d, x)
    BY <1>3 DEF Collide
  <2> QED BY <1>9, <2>1 DEF Holds, Distinct
<1>12. SymbolsHold(r, D \cup {d})
  <2>1. /\ DOMAIN t.allSymbols = {x.id : x \in D}
        /\ \A x \in D : t.allSymbols[x.id] = Symbol(x.id, x.name, LinkageOf(x))
    BY DEF Holds, SymbolsHold
  <2>2. /\ DOMAIN r.allSymbols = DOMAIN t.allSymbols \cup {d.id}
        /\ r.allSymbols[d.id] = info
        /\ \A y \in DOMAIN t.allSymbols : y # d.id => r.allSymbols[y] = t.allSymbols[y]
    BY <1>2 DEF Insert
  <2>3. ASSUME NEW x \in D, x.id = d.id
        PROVE  x.name = d.name /\ LinkageOf(x) = LinkageOf(d)
    <3>1. x.linked \in BOOLEAN /\ x.name \in Ident
      BY DEF Holds, NamesHold
    <3>2. CASE x.linked /\ d.linked
      BY <2>3, <3>2 DEF Holds, NamesHold, LinkageOf
    <3>3. CASE ~x.linked /\ ~d.linked
      BY <1>9, <2>3, <3>3 DEF SameThing
    <3>4. CASE x.linked /\ ~d.linked
      <4>1. x.id = <<x.name>> /\ d.id = <<d.name, NameCount(t, d.name)>>
        BY <3>4 DEF Holds, NamesHold
      <4>2. <<x.name>> # <<d.name, NameCount(t, d.name)>>
        OBVIOUS
      <4> QED BY <2>3, <4>1, <4>2, Zenon
    <3>5. CASE ~x.linked /\ d.linked
      <4>1. PICK k \in Nat : x.id = <<x.name, k>>
        BY <3>5 DEF Holds, NamesHold, Numbered
      <4>2. d.id = <<d.name>>
        BY <3>5
      <4>3. <<d.name>> # <<x.name, k>>
        OBVIOUS
      <4> QED BY <2>3, <4>1, <4>2, <4>3, Zenon
    <3> QED BY <3>1, <3>2, <3>3, <3>4, <3>5
  <2>4. info = Symbol(d.id, d.name, LinkageOf(d))
    BY DEF info
  <2>5. \A x \in D : r.allSymbols[x.id] = Symbol(x.id, x.name, LinkageOf(x))
    <3> TAKE x \in D
    <3>1. CASE x.id = d.id
      BY <2>2, <2>3, <2>4, <3>1
    <3>2. CASE x.id # d.id
      BY <2>1, <2>2, <3>2
    <3> QED BY <3>1, <3>2
  <2> QED BY <2>1, <2>2, <2>4, <2>5 DEF SymbolsHold
<1>11. Holds(r, open, D \cup {d})
  BY <1>2, <1>4, <1>8, <1>10, <1>12 DEF Holds
<1> QED BY <1>11 DEF r, info

-----------------------------------------------------------------------------
\* The visits keep a table in agreement with what was declared.

\* The declarator has not been visited yet.
NotThere(D, i, index) == \A e \in D : ~(e.at = i /\ e.index = index)

\* The visit of an object's declarator represents it, or it collides.
LEMMA DeclaratorVisited ==
  ASSUME NEW t, NEW open, NEW D, Holds(t, open, D), NEW name \in Ident, NEW storage,
         NEW i, NEW index, NotThere(D, i, index)
  PROVE  LET v      == VisitIdentifierDeclarator(t, name, storage)
             linked == Len(open) = 1 \/ storage = "extern"
             d      == DeclarationOf(i, name, Here(open), linked, index, v.id)
         IN  /\ v.ok \in BOOLEAN /\ v.id \in Ids
             /\ v.ok => Holds(v.table, open, D \cup {d})
             /\ ~v.ok => \E e \in D : Collide(e, d)
<1> DEFINE v      == VisitIdentifierDeclarator(t, name, storage)
           linked == Len(open) = 1 \/ storage = "extern"
           d      == DeclarationOf(i, name, Here(open), linked, index, v.id)
           id     == IF linked THEN <<name>> ELSE UniqueName(t, name)
           counted == IF linked THEN t ELSE CountName(t, name)
           info   == Symbol(id, name, IF linked THEN "external" ELSE "none")
<1>1. /\ d.at = i /\ d.name = name /\ d.scope = Here(open) /\ d.linked = linked
      /\ d.index = index /\ d.id = v.id
  BY DEF DeclarationOf
<1>2. linked <=> (IsInFileScope(t) \/ storage = "extern")
  BY OpenFacts DEF IsInFileScope
<1>3. t \in Tables
  BY DEF Holds
<1>4. CASE IsInCurrentScope(t, name)
  <2>1. v = [table |-> t, id |-> <<name>>, ok |-> ~Conflicts(Lookup(t, name), linked)]
    BY <1>2, <1>4 DEF VisitIdentifierDeclarator
  <2>2. v.table = t /\ v.id = <<name>> /\ v.ok = ~Conflicts(Lookup(t, name), linked)
    BY <2>1
  <2>3. PICK e \in D : e.scope = Here(open) /\ e.name = name
    BY <1>4, CurrentFacts
  <2>4. Lookup(t, name).linkage = LinkageOf(e) /\ e.linked \in BOOLEAN
    BY <2>3, CurrentFacts DEF Holds, NamesHold
  <2>5. v.ok <=> linked /\ e.linked
    BY <2>2, <2>4 DEF Conflicts, HasLinkage, LinkageOf
  <2>6. v.ok \in BOOLEAN /\ v.id \in Ids
    BY <2>2 DEF Ids, Conflicts, HasLinkage
  <2>7. v.ok => Holds(v.table, open, D \cup {d})
    <3> HIDE DEF d, v, linked
    <3> SUFFICES ASSUME v.ok PROVE Holds(t, open, D \cup {d})
      BY <2>2
    <3>1. d.linked = TRUE /\ d.id = <<d.name>> /\ d.name \in Ident /\ d.scope = Here(open)
      BY <1>1, <2>2, <2>5 DEF linked
    <3> QED BY <1>1, <2>3, <2>5, <3>1, DeclaredAgain
  <2>8. ~v.ok => \E x \in D : Collide(x, d)
    BY <1>1, <2>3, <2>5 DEF Collide
  <2> QED BY <2>6, <2>7, <2>8
<1>5. CASE ~IsInCurrentScope(t, name)
  <2>1. v = [table |-> Declare(counted, name, info), id |-> id, ok |-> TRUE]
    BY <1>2, <1>5 DEF VisitIdentifierDeclarator
  <2>2. v.table = Declare(counted, name, info) /\ v.id = id /\ v.ok = TRUE
    BY <2>1
  <2>3. /\ counted \in Tables /\ counted.scopes = t.scopes /\ counted.allSymbols = t.allSymbols
        /\ \A n \in Ident : NameCount(t, n) <= NameCount(counted, n)
                            /\ NameCount(counted, n) \in Nat /\ NameCount(t, n) \in Nat
        /\ ~linked => NameCount(counted, name) = NameCount(t, name) + 1
    BY <1>3, CountTable
  <2>4. ~linked => id = <<name, NameCount(t, name)>>
    BY <1>2 DEF UniqueName
  <2>5. linked => id = <<name>>
    OBVIOUS
  <2>6. id \in Ids
    <3> DEFINE c == NameCount(t, name)
    <3>1. c \in Nat
      BY <2>3
    <3> HIDE DEF c
    <3>2. <<name>> \in Ids /\ <<name, c>> \in Ids
      BY <3>1 DEF Ids
    <3> HIDE DEF linked, id
    <3> QED BY <2>4, <2>5, <3>2 DEF c
  <2>7. info = Symbol(d.id, d.name, LinkageOf(d))
    BY <1>1, <2>2 DEF LinkageOf
  <2>8. ~d.linked => Numbered(counted, d)
    <3> HIDE DEF d, v, id, counted, info, linked
    <3> SUFFICES ASSUME ~d.linked PROVE Numbered(counted, d)
      OBVIOUS
    <3>1. d.name = name /\ d.id = <<d.name, NameCount(t, name)>>
      BY <1>1, <2>2, <2>4
    <3>2. NameCount(t, name) \in Nat /\ NameCount(t, name) < NameCount(counted, name)
      BY <1>1, <2>3
    <3> QED BY <3>1, <3>2 DEF Numbered
  <2>9. d.linked \in BOOLEAN
    BY <1>1
  <2> HIDE DEF d, v, id, counted, info, linked
  <2>10. Holds(Declare(counted, d.name, Symbol(d.id, d.name, LinkageOf(d))), open, D \cup {d})
    BY <1>1, <1>5, <2>2, <2>3, <2>4, <2>5, <2>6, <2>8, <2>9, DeclaredFirst DEF NotThere
  <2>11. Holds(v.table, open, D \cup {d})
    BY <1>1, <2>2, <2>7, <2>10
  <2> QED BY <2>2, <2>6, <2>11 DEF d, v, linked
<1> QED BY <1>4, <1>5

\* The visit of a function's declarator represents it, or it collides.
LEMMA FunctionDeclared ==
  ASSUME NEW t, NEW open, NEW D, Holds(t, open, D), NEW name \in Ident, NEW i
  PROVE  LET v == DeclareFunction(t, name)
             d == DeclarationOf(i, name, Here(open), TRUE, 0, <<name>>)
         IN  /\ v.ok \in BOOLEAN
             /\ v.ok => Holds(v.table, open, D \cup {d})
             /\ ~v.ok => v.table = t /\ \E e \in D : Collide(e, d)
<1> DEFINE v    == DeclareFunction(t, name)
           d    == DeclarationOf(i, name, Here(open), TRUE, 0, <<name>>)
<1>1. /\ d.name = name /\ d.scope = Here(open) /\ d.linked = TRUE /\ d.id = <<name>>
  BY DEF DeclarationOf
<1> HIDE DEF d
<1>2. t \in Tables /\ <<name>> \in Ids
  BY DEF Holds, Ids
<1>3. CASE IsInCurrentScope(t, name)
  <2>1. v.table = t /\ v.ok = (Lookup(t, name).linkage = "external")
    BY <1>3 DEF DeclareFunction
  <2>2. PICK e \in D : e.scope = Here(open) /\ e.name = name
    BY <1>3, CurrentFacts
  <2>3. v.ok <=> e.linked
    <3>1. Lookup(t, name).linkage = LinkageOf(e) /\ e.linked \in BOOLEAN
      BY <2>2, CurrentFacts DEF Holds, NamesHold
    <3> QED BY <2>1, <3>1 DEF LinkageOf
  <2>4. v.ok => Holds(v.table, open, D \cup {d})
    BY <1>1, <2>1, <2>2, <2>3, DeclaredAgain
  <2>5. ~v.ok => \E x \in D : Collide(x, d)
    BY <1>1, <2>2, <2>3 DEF Collide
  <2>6. v.ok \in BOOLEAN
    BY <2>1
  <2> QED BY <2>1, <2>4, <2>5, <2>6 DEF d
<1>4. CASE ~IsInCurrentScope(t, name)
  <2>1. v.table = Declare(t, name, Symbol(<<name>>, name, "external")) /\ v.ok = TRUE
    BY <1>4 DEF DeclareFunction
  <2>2. \A n \in Ident : NameCount(t, n) <= NameCount(t, n) /\ NameCount(t, n) \in Nat
    BY <1>2, CountTable
  <2>3. Holds(Declare(t, d.name, Symbol(d.id, d.name, LinkageOf(d))), open, D \cup {d})
    BY <1>1, <1>2, <1>4, <2>2, DeclaredFirst
  <2>4. Holds(v.table, open, D \cup {d})
    BY <1>1, <2>1, <2>3 DEF LinkageOf
  <2> QED BY <2>1, <2>4 DEF d
<1> QED BY <1>3, <1>4

\* A scope no declaration was made in.
NewScope(open, D, s) == /\ \A k \in 1 .. Len(open) : open[k] # s
                        /\ \A d \in D : d.scope # s

\* Entering a scope keeps the representation.
LEMMA Entered ==
  ASSUME NEW t, NEW open, NEW D, Holds(t, open, D), NEW s \in SUBSET Nat,
         NewScope(open, D, s)
  PROVE  /\ Holds(EnterScope(t), Append(open, s), D)
         /\ Here(Append(open, s)) = s
         /\ Len(Append(open, s)) = Len(open) + 1
<1> DEFINE e == EnterScope(t)
           o == Append(open, s)
           n == Len(open)
<1>1. t \in Tables /\ n \in Nat \ {0} /\ Len(t.scopes) = n
  BY OpenFacts DEF Holds
<1>2. /\ e \in Tables
      /\ Len(e.scopes) = n + 1
      /\ \A k \in 1 .. n : e.scopes[k] = t.scopes[k]
      /\ e.scopes[n + 1] = <<>>
      /\ e.nameCounters = t.nameCounters /\ e.allSymbols = t.allSymbols
  BY <1>1, EnterTable
<1> HIDE DEF e
<1>3. /\ o \in Seq(SUBSET Nat) /\ Len(o) = n + 1 /\ o[n + 1] = s /\ o # <<>>
      /\ \A k \in 1 .. n : o[k] = open[k]
  BY <1>1 DEF Holds, Opens
<1> HIDE DEF o
<1>4. Opens(o)
  <2> SUFFICES ASSUME NEW j \in 1 .. n + 1, NEW k \in 1 .. n + 1, o[j] = o[k] PROVE j = k
    BY <1>3 DEF Opens
  <2>0. \A a \in 1 .. n : open[a] # s
    BY DEF NewScope
  <2>1. \A a, b \in 1 .. n : open[a] = open[b] => a = b
    BY OpenFacts DEF Holds, Opens
  <2>2. \A a \in 1 .. n + 1 : a \in 1 .. n \/ a = n + 1
    BY <1>1
  <2> QED BY <1>3, <2>0, <2>1, <2>2
<1>a. \A d \in D : d.scope # s
  BY DEF NewScope
<1>5. ScopesHold(e, o, D)
  <2>1. ASSUME NEW k \in 1 .. n + 1, NEW m \in Ident
        PROVE  m \in DOMAIN e.scopes[k] <=> \E d \in D : d.scope = o[k] /\ d.name = m
    <3>1. CASE k = n + 1
      <4>1. m \notin DOMAIN e.scopes[k]
        BY <1>2, <3>1
      <4> QED BY <1>3, <1>a, <3>1, <4>1
    <3>2. CASE k # n + 1
      <4>1. k \in 1 .. n
        BY <1>1, <3>2
      <4> QED BY <1>2, <1>3, <4>1 DEF Holds, ScopesHold
    <3> QED BY <3>1, <3>2
  <2>2. ASSUME NEW k \in 1 .. n + 1, NEW d \in D, d.scope = o[k]
        PROVE  /\ e.scopes[k][d.name].name = d.id
               /\ e.scopes[k][d.name].linkage = LinkageOf(d)
    <3>1. k # n + 1
      BY <1>3, <1>a, <2>2
    <3>2. k \in 1 .. n
      BY <1>1, <3>1
    <3> QED BY <1>2, <1>3, <2>2, <3>2 DEF Holds, ScopesHold
  <2> QED BY <1>2, <1>3, <2>1, <2>2 DEF ScopesHold
<1>6. NamesHold(e, D)
  BY <1>2 DEF Holds, NamesHold, Numbered, NameCount
<1>8. SymbolsHold(e, D)
  BY <1>2 DEF Holds, SymbolsHold
<1>7. Holds(e, o, D)
  BY <1>2, <1>4, <1>5, <1>6, <1>8 DEF Holds
<1> QED BY <1>3, <1>7 DEF e, o, Here

\* Leaving a scope keeps the representation of the ones that stay open.
LEMMA Exited ==
  ASSUME NEW t, NEW open, NEW D, Holds(t, open, D), Len(open) > 1,
         NEW o, o \in Seq(SUBSET Nat), Len(o) = Len(open) - 1,
         \A k \in 1 .. Len(open) - 1 : o[k] = open[k]
  PROVE  Holds(ExitScope(t), o, D)
<1> DEFINE e == ExitScope(t)
           n == Len(open)
<1>1. t \in Tables /\ n \in Nat \ {0} /\ Len(t.scopes) = n
  BY OpenFacts DEF Holds
<1>2. /\ e \in Tables
      /\ Len(e.scopes) = n - 1
      /\ \A k \in 1 .. n - 1 : e.scopes[k] = t.scopes[k]
      /\ e.nameCounters = t.nameCounters /\ e.allSymbols = t.allSymbols
  BY <1>1, ExitTable
<1> HIDE DEF e
<1>3. \A k \in 1 .. n - 1 : k \in 1 .. n
  BY <1>1
<1>4. Opens(o)
  <2>1. \A a, b \in 1 .. n : open[a] = open[b] => a = b
    BY OpenFacts DEF Holds, Opens
  <2>2. DOMAIN o = 1 .. n - 1 /\ o # <<>>
    BY <1>1
  <2> QED BY <1>3, <2>1, <2>2 DEF Opens
<1>5. ScopesHold(e, o, D)
  <2>1. ASSUME NEW k \in 1 .. n - 1, NEW m \in Ident
        PROVE  m \in DOMAIN e.scopes[k] <=> \E d \in D : d.scope = o[k] /\ d.name = m
    <3>1. m \in DOMAIN t.scopes[k] <=> \E d \in D : d.scope = open[k] /\ d.name = m
      BY <1>3 DEF Holds, ScopesHold
    <3>2. e.scopes[k] = t.scopes[k] /\ o[k] = open[k]
      BY <1>2
    <3> QED BY <3>1, <3>2
  <2>2. ASSUME NEW k \in 1 .. n - 1, NEW d \in D, d.scope = o[k]
        PROVE  /\ e.scopes[k][d.name].name = d.id
               /\ e.scopes[k][d.name].linkage = LinkageOf(d)
    BY <1>2, <1>3, <2>2 DEF Holds, ScopesHold
  <2> QED BY <1>2, <2>1, <2>2 DEF ScopesHold
<1>6. NamesHold(e, D)
  BY <1>2 DEF Holds, NamesHold, Numbered, NameCount
<1>7. SymbolsHold(e, D)
  BY <1>2 DEF Holds, SymbolsHold
<1> QED BY <1>2, <1>4, <1>5, <1>6, <1>7 DEF Holds, e

\* A name is resolved to its declaration in the innermost open scope that has one.
LEMMA ExpressionVisited ==
  ASSUME NEW t, NEW open, NEW D, Holds(t, open, D), NEW name \in Ident
  PROVE  LET v == VisitIdExpression(t, name)
         IN  /\ v.table = t /\ v.ok \in BOOLEAN
             /\ v.ok => \E k \in 1 .. Len(open) : \E d \in D :
                  /\ d.name = name /\ d.scope = open[k] /\ v.id = d.id
                  /\ \A j \in 1 .. Len(open) : \A e \in D :
                       e.name = name /\ e.scope = open[j] => j <= k
             /\ ~v.ok => /\ v.id = Nobody
                         /\ \A k \in 1 .. Len(open) : \A d \in D :
                              ~(d.name = name /\ d.scope = open[k])
<1> DEFINE v == VisitIdExpression(t, name)
           n == Len(open)
<1>1. t \in Tables /\ n \in Nat \ {0} /\ Len(t.scopes) = n
  BY OpenFacts DEF Holds
<1>2. DeclaringScopes(t, name) = {k \in 1 .. n : name \in DOMAIN t.scopes[k]}
  BY <1>1 DEF DeclaringScopes, Tables
<1>3. \A k \in 1 .. n : k \in DeclaringScopes(t, name)
                          <=> \E d \in D : d.scope = open[k] /\ d.name = name
  BY <1>2 DEF Holds, ScopesHold
<1>4. CASE DeclaringScopes(t, name) = {}
  <2>1. v.table = t /\ v.ok = FALSE /\ v.id = Nobody
    BY <1>4 DEF VisitIdExpression, IsVisible
  <2> QED BY <1>3, <1>4, <2>1
<1>5. CASE DeclaringScopes(t, name) # {}
  <2>1. v.table = t /\ v.ok = TRUE /\ v.id = Lookup(t, name).name
    BY <1>5 DEF VisitIdExpression, IsVisible
  <2>2. PICK k \in DeclaringScopes(t, name) :
           /\ \A other \in DeclaringScopes(t, name) : other <= k
           /\ Lookup(t, name) = t.scopes[k][name]
    BY <1>1, <1>5, Innermost_
  <2>3. k \in 1 .. n
    BY <1>2
  <2>4. PICK d \in D : d.scope = open[k] /\ d.name = name
    BY <1>3, <2>3
  <2>5. v.id = d.id
    BY <2>1, <2>2, <2>3, <2>4 DEF Holds, ScopesHold
  <2>6. \A j \in 1 .. n : \A e \in D : e.name = name /\ e.scope = open[j] => j <= k
    BY <1>3, <2>2
  <2> QED BY <2>1, <2>3, <2>4, <2>5, <2>6
<1> QED BY <1>4, <1>5

\* The visit of a declarator leaves a table, also when it reports an error.
LEMMA AnyDeclarator ==
  ASSUME NEW t \in Tables, t.scopes # <<>>, NEW name \in Ident, NEW storage
  PROVE  LET v == VisitIdentifierDeclarator(t, name, storage)
         IN  /\ v.ok \in BOOLEAN /\ v.id \in Ids
             /\ v.table \in Tables /\ v.table.scopes # <<>>
<1> DEFINE v      == VisitIdentifierDeclarator(t, name, storage)
           linked == IsInFileScope(t) \/ storage = "extern"
           id     == IF linked THEN <<name>> ELSE UniqueName(t, name)
           counted == IF linked THEN t ELSE CountName(t, name)
           info   == Symbol(id, name, IF linked THEN "external" ELSE "none")
<1>1. <<name>> \in Ids
  BY DEF Ids
<1>2. CASE IsInCurrentScope(t, name)
  <2>1. v.table = t /\ v.id = <<name>> /\ v.ok = ~Conflicts(Lookup(t, name), linked)
    BY <1>2 DEF VisitIdentifierDeclarator
  <2> QED BY <1>1, <2>1 DEF Conflicts
<1>3. CASE ~IsInCurrentScope(t, name)
  <2>1. v.table = Declare(counted, name, info) /\ v.id = id /\ v.ok = TRUE
    BY <1>3 DEF VisitIdentifierDeclarator
  <2>2. counted \in Tables /\ counted.scopes = t.scopes /\ NameCount(t, name) \in Nat
    BY CountTable
  <2>3. id \in Ids
    <3>1. \A c \in Nat : <<name, c>> \in Ids
      BY DEF Ids
    <3> QED BY <1>1, <2>2, <3>1 DEF UniqueName
  <2> HIDE DEF id, counted
  <2>4. info \in Infos /\ info.name = id
    BY <2>3, Infos_
  <2>5. Len(counted.scopes) > 0 /\ ~IsInCurrentScope(counted, name)
    BY <1>3, <2>2 DEF IsInCurrentScope, Tables
  <2> HIDE DEF info
  <2>6. v.table \in Tables /\ Len(v.table.scopes) = Len(counted.scopes)
    BY <2>1, <2>2, <2>3, <2>4, <2>5, DeclareTable
  <2>7. v.table.scopes # <<>>
    BY <2>5, <2>6
  <2> HIDE DEF v
  <2> QED BY <2>1, <2>3, <2>6, <2>7 DEF v
<1> QED BY <1>2, <1>3

\* The declarations of the first n parameters of item i.
ParametersDeclared(i, parameters, scope, ids, n) ==
  {DeclarationOf(i, parameters[k], scope, FALSE, k, ids[k]) : k \in 1 .. n}

\* A parameter list that has one name twice.
Repeated(parameters) == \E j, k \in DOMAIN parameters : j # k /\ parameters[j] = parameters[k]
\* The parameters of item i have not been visited, and theirs is a new scope.
NoParameters(D, i, scope) == \A e \in D : (e.at = i => e.index = 0) /\ e.scope # scope

\* Visiting the parameters represents them all, or one name is repeated.
LEMMA ParametersVisited ==
  ASSUME NEW t, NEW open, NEW D, Holds(t, open, D), Len(open) > 1,
         NEW parameters \in Seq(Names), NEW i,
         NoParameters(D, i, Here(open))
  PROVE  LET v == VisitParameters(t, parameters)
         IN  /\ v.table \in Tables /\ v.table.scopes # <<>>
             /\ v.ok \in BOOLEAN /\ v.ids \in Seq(Ids) /\ Len(v.ids) = Len(parameters)
             /\ v.ok => Holds(v.table, open,
                              D \cup ParametersDeclared(i, parameters, Here(open), v.ids, Len(parameters)))
             /\ ~v.ok => Repeated(parameters)
<1> DEFINE N == Len(parameters)
           base == [table |-> t, ids |-> <<>>, ok |-> TRUE]
           Declared(r, k) == VisitIdentifierDeclarator(r.table, parameters[k], "none")
           Step(r, k) == [table |-> Declared(r, k).table, ids |-> Append(r.ids, Declared(r, k).id),
                          ok |-> r.ok /\ Declared(r, k).ok]
           Rule(g, n) == g = [k \in 0 .. n |-> IF k = 0 THEN base ELSE Step(g[k - 1], k)]
           S == {n \in Nat : \E g : Rule(g, n)}
           Twice == Repeated(parameters)
           Visited(n, r) ==
             /\ r.table \in Tables /\ r.table.scopes # <<>>
             /\ r.ok \in BOOLEAN /\ r.ids \in Seq(Ids) /\ Len(r.ids) = n
             /\ r.ok => Holds(r.table, open, D \cup ParametersDeclared(i, parameters, Here(open), r.ids, n))
             /\ ~r.ok => Twice
<1>1. N \in Nat /\ DOMAIN parameters = 1 .. N /\ \A k \in 1 .. N : parameters[k] \in Ident
  BY DEF Ident
<1>2. 0 \in S
  <2>1. Rule([k \in 0 .. 0 |-> base], 0)
    OBVIOUS
  <2> QED BY <2>1
<1>3. ASSUME NEW n \in Nat, n \in S PROVE n + 1 \in S
  <2>1. PICK g : Rule(g, n)
    BY <1>3
  <2> DEFINE h == [k \in 0 .. n + 1 |-> IF k = n + 1 THEN Step(g[n], n + 1) ELSE g[k]]
  <2>2. \A k \in 0 .. n : h[k] = g[k]
    OBVIOUS
  <2>3. ASSUME NEW k \in 0 .. n + 1
        PROVE  h[k] = IF k = 0 THEN base ELSE Step(h[k - 1], k)
    <3> HIDE DEF Step, base
    <3>1. CASE k = n + 1
      BY <2>2, <3>1
    <3>2. CASE k \in 1 .. n
      <4>1. h[k] = g[k] /\ h[k - 1] = g[k - 1]
        BY <2>2, <3>2
      <4> QED BY <2>1, <3>2, <4>1
    <3>3. CASE k = 0
      BY <2>1, <2>2, <3>3
    <3> QED BY <3>1, <3>2, <3>3
  <2>4. h = [k \in 0 .. n + 1 |-> h[k]]
    OBVIOUS
  <2> HIDE DEF h, Step, base
  <2>5. Rule(h, n + 1)
    BY <2>3, <2>4
  <2> QED BY <2>5
<1>4. \A n \in Nat : n \in S
  BY <1>2, <1>3, SetInduction
<1>5. \E r : Rule(r, N)
  BY <1>1, <1>4
<1>6. VisitParameters(t, parameters) = (CHOOSE r : Rule(r, N))[N]
  BY DEF VisitParameters
<1>7. PICK g : Rule(g, N) /\ VisitParameters(t, parameters) = g[N]
  BY <1>5, <1>6
<1> DEFINE T == {n \in Nat : n <= N => Visited(n, g[n])}
<1>8. Visited(0, base)
  <2>1. ParametersDeclared(i, parameters, Here(open), <<>>, 0) = {}
    BY DEF ParametersDeclared
  <2>2. D \cup {} = D
    OBVIOUS
  <2>3. base.table = t /\ base.ids = <<>> /\ base.ok = TRUE
    OBVIOUS
  <2>4. t \in Tables /\ t.scopes # <<>>
    BY OpenFacts DEF Holds
  <2>5. <<>> \in Seq(Ids) /\ Len(<<>>) = 0
    OBVIOUS
  <2> HIDE DEF Twice, base
  <2> QED BY <2>1, <2>2, <2>3, <2>4, <2>5
<1>9. ASSUME NEW n \in Nat, n + 1 <= N, NEW r, Visited(n, r) PROVE Visited(n + 1, Step(r, n + 1))
  <2> DEFINE v == Declared(r, n + 1)
             ids == Append(r.ids, v.id)
             Before(m, l) == ParametersDeclared(i, parameters, Here(open), l, m)
  <2>1. /\ Step(r, n + 1).table = v.table /\ Step(r, n + 1).ids = ids
        /\ Step(r, n + 1).ok = (r.ok /\ v.ok)
    OBVIOUS
  <2>2. n + 1 \in DOMAIN parameters /\ parameters[n + 1] \in Ident
    BY <1>1, <1>9
  <2>3. v.ok \in BOOLEAN /\ v.id \in Ids /\ v.table \in Tables /\ v.table.scopes # <<>>
    BY <1>9, <2>2, AnyDeclarator
  <2>4. ids \in Seq(Ids) /\ Len(ids) = n + 1 /\ ids[n + 1] = v.id
        /\ \A k \in 1 .. n : ids[k] = r.ids[k]
    BY <1>9, <2>3
  <2>5. CASE ~r.ok
    BY <1>9, <2>1, <2>3, <2>4, <2>5
  <2>6. CASE r.ok
    <3> DEFINE E == D \cup Before(n, r.ids)
               d == DeclarationOf(i, parameters[n + 1], Here(open), FALSE, n + 1, v.id)
    <3>1. Holds(r.table, open, E)
      BY <1>9, <2>6
    <3>2. ASSUME NEW e \in E PROVE ~(e.at = i /\ e.index = n + 1)
      <4>1. CASE e \in D
        BY <4>1 DEF NoParameters
      <4>2. CASE e \in Before(n, r.ids)
        <5>1. PICK k \in 1 .. n : e = DeclarationOf(i, parameters[k], Here(open), FALSE, k, r.ids[k])
          BY <4>2 DEF ParametersDeclared
        <5>2. e.index = k
          BY <5>1 DEF DeclarationOf
        <5> QED BY <5>2
      <4> QED BY <4>1, <4>2
    <3>3. (Len(open) = 1 \/ "none" = "extern") = FALSE
      BY OpenFacts
    <3>4. /\ v.ok => Holds(v.table, open, E \cup {d})
          /\ ~v.ok => \E e \in E : Collide(e, d)
      <4> HIDE DEF E
      <4> QED BY <2>2, <3>1, <3>2, <3>3, DeclaratorVisited DEF NotThere
    <3>5. E \cup {d} = D \cup Before(n + 1, ids)
      <4>1. Before(n + 1, ids) = Before(n, r.ids) \cup {d}
        <5>1. 1 .. n + 1 = (1 .. n) \cup {n + 1}
          OBVIOUS
        <5> HIDE DEF ids, v
        <5> QED BY <2>4, <5>1 DEF ParametersDeclared
      <4> QED BY <4>1
    <3>6. ASSUME NEW e \in E, Collide(e, d) PROVE Twice
      <4>1. e.scope = Here(open) /\ e.name = parameters[n + 1]
        BY <3>6 DEF Collide, DeclarationOf
      <4>2. e \in Before(n, r.ids)
        BY <4>1 DEF NoParameters
      <4>3. PICK k \in 1 .. n : e = DeclarationOf(i, parameters[k], Here(open), FALSE, k, r.ids[k])
        BY <4>2 DEF ParametersDeclared
      <4>4. e.name = parameters[k]
        BY <4>3 DEF DeclarationOf
      <4>5. k \in DOMAIN parameters /\ k # n + 1
        BY <1>1, <1>9
      <4> QED BY <2>2, <4>1, <4>4, <4>5 DEF Repeated
    <3> HIDE DEF E, d, Before, Twice, v, ids
    <3>7. v.ok => Holds(v.table, open, D \cup Before(n + 1, ids))
      BY <3>4, <3>5
    <3>8. ~v.ok => Twice
      BY <3>4, <3>6
    <3> QED BY <2>1, <2>3, <2>4, <2>6, <3>7, <3>8 DEF Before
  <2> QED BY <1>9, <2>5, <2>6
<1>10. \A n \in Nat : n \in T
  <2> HIDE DEF Visited, Step, base
  <2>1. \A k \in 0 .. N : g[k] = IF k = 0 THEN base ELSE Step(g[k - 1], k)
    BY <1>7
  <2>2. 0 \in T
    BY <1>1, <1>8, <2>1
  <2>3. ASSUME NEW n \in Nat, n \in T PROVE n + 1 \in T
    <3>1. CASE n + 1 <= N
      <4>1. g[n + 1] = Step(g[n], n + 1)
        BY <1>1, <2>1, <3>1
      <4>2. Visited(n, g[n])
        BY <1>1, <2>3, <3>1
      <4> QED BY <1>9, <3>1, <4>1, <4>2
    <3>2. CASE ~(n + 1 <= N)
      BY <3>2
    <3> QED BY <3>1, <3>2
  <2> QED BY <2>2, <2>3, SetInduction
<1>11. Visited(N, g[N])
  <2> HIDE DEF Visited, N
  <2>1. N \in T /\ N <= N
    BY <1>1, <1>10
  <2> QED BY <2>1
<1>12. PICK w : w = VisitParameters(t, parameters) /\ w = g[N]
  BY <1>7
<1>13. Visited(N, w)
  BY <1>11, <1>12
<1> HIDE DEF Twice
<1> QED BY <1>12, <1>13 DEF Twice

-----------------------------------------------------------------------------
(* The unit while it is resolved.                                          *)

\* The items of a unit, and the shape their paths give it.
Kinds == {"function", "prototype", "variable", "for", "compound", "use"}
Items == [kind : Kinds, name : Ident \cup {"none"}, storage : Storages \cup {"none"},
          initializer : Initializers \cup {"none"}, parameters : Seq(Names), path : Seq(Nat),
          id : Ids \cup {Nobody}, parameterIds : Seq(Ids), usedId : Ids \cup {Nobody},
          suppressed : BOOLEAN]

UnitOK == /\ unit \in Seq(Items)
          /\ \A i \in DOMAIN unit : unit[i].path \in Seq(1 .. i - 1)

\* What the j-th item around the next one can be: a function, its body, and statements.
Encloses(j) ==
  LET o == nesting[j]
  IN  /\ j = 1 => unit[o].kind = "function"
      /\ j = 2 => unit[o].kind = "compound"
      /\ j > 2 => \/ unit[o].kind = "compound"
                  \/ unit[o].kind = "for" /\ unit[nesting[j - 1]].kind = "compound"
      /\ FunctionBody(o) <=> j = 2
      /\ unit[o].kind = "compound" => (unit[o].suppressed <=> j = 2)

\* The items and the nesting are those of a syntax tree.
Shape == /\ UnitOK
         /\ nesting \in Seq(DOMAIN unit)
         /\ suppress \in BOOLEAN /\ (suppress <=> Len(nesting) = 1)
         /\ \A j, k \in DOMAIN nesting : j < k => nesting[j] < nesting[k]
         /\ \A j \in DOMAIN nesting : Encloses(j)

\* The scopes open at the next item: a function's body, the second of the nesting, adds none.
Depth     == IF Len(nesting) = 0 THEN 1 ELSE IF Len(nesting) = 1 THEN 2 ELSE Len(nesting)
Opened(k) == IF k = 1 THEN {} ELSE {nesting[j] : j \in (1 .. k) \ {2}}
Open      == [k \in 1 .. Depth |-> Opened(k)]

\* A scope is inside another exactly if it was opened after it.
Chain(open) == \A j, k \in 1 .. Len(open) : open[j] \subseteq open[k] <=> j <= k

\* The positions of the nesting are positions of the unit.
LEMMA ShapeFacts ==
  ASSUME Shape
  PROVE  /\ Len(nesting) \in Nat /\ DOMAIN nesting = 1 .. Len(nesting)
         /\ Len(unit) \in Nat /\ DOMAIN unit = 1 .. Len(unit)
         /\ \A j \in 1 .. Len(nesting) : nesting[j] \in 1 .. Len(unit)
         /\ \A j, k \in 1 .. Len(nesting) : nesting[j] = nesting[k] => j = k
         /\ Depth \in Nat \ {0}
<1>1. /\ Len(nesting) \in Nat /\ DOMAIN nesting = 1 .. Len(nesting)
      /\ Len(unit) \in Nat /\ DOMAIN unit = 1 .. Len(unit)
      /\ \A j \in 1 .. Len(nesting) : nesting[j] \in 1 .. Len(unit)
  BY DEF Shape, UnitOK
<1>2. ASSUME NEW j \in 1 .. Len(nesting), NEW k \in 1 .. Len(nesting), nesting[j] = nesting[k]
      PROVE  j = k
  <2>1. ~(j < k) /\ ~(k < j)
    BY <1>1, <1>2, SMTT(30) DEF Shape
  <2> QED BY <1>1, <2>1
<1> QED BY <1>1, <1>2 DEF Depth

\* The open scopes are a chain whose innermost is the scope around the next item.
LEMMA OpenShape ==
  ASSUME Shape
  PROVE  /\ Open \in Seq(SUBSET Nat) /\ Len(Open) = Depth /\ Opens(Open)
         /\ \A k \in 1 .. Depth : Open[k] = Opened(k) /\ Open[k] \subseteq DOMAIN unit
         /\ Chain(Open)
         /\ Here(Open) = ScopeWithin(nesting)
         /\ Here(Open) = {} <=> Len(Open) = 1
         /\ Len(Open) = 1 <=> nesting = <<>>
<1> DEFINE n == Len(nesting)
<1>1. \A k \in 1 .. Depth : \A j \in (1 .. k) \ {2} : k # 1 => j \in 1 .. n
  BY ShapeFacts DEF Depth
<1>2. \A k \in 1 .. Depth : Opened(k) \subseteq DOMAIN unit /\ Opened(k) \in SUBSET Nat
  <2> SUFFICES ASSUME NEW k \in 1 .. Depth PROVE Opened(k) \subseteq 1 .. Len(unit)
    BY ShapeFacts
  <2>1. CASE k = 1
    BY <2>1 DEF Opened
  <2>2. CASE k # 1
    BY <1>1, <2>2, ShapeFacts DEF Opened
  <2> QED BY <2>1, <2>2
<1>3. /\ Open \in Seq(SUBSET Nat) /\ Len(Open) = Depth /\ Open # <<>>
      /\ \A k \in 1 .. Depth : Open[k] = Opened(k)
  <2>1. Depth \in Nat /\ Depth # 0
    BY ShapeFacts
  <2>2. Open \in [1 .. Depth -> SUBSET Nat]
    BY <1>2 DEF Open
  <2>3. \A k \in 1 .. Depth : Open[k] = Opened(k)
    BY DEF Open
  <2> QED BY <2>1, <2>2, <2>3
<1>4. ASSUME NEW j \in 1 .. Depth, NEW k \in 1 .. Depth
      PROVE  Opened(j) \subseteq Opened(k) <=> j <= k
  <2>1. CASE j <= k
    <3>1. Opened(j) \subseteq Opened(k)
      <4>1. CASE j = 1
        BY <4>1 DEF Opened
      <4>2. CASE j # 1
        <5>1. k # 1 /\ (1 .. j) \ {2} \subseteq (1 .. k) \ {2}
          BY <2>1, <4>2, ShapeFacts
        <5> QED BY <4>2, <5>1 DEF Opened
      <4> QED BY <4>1, <4>2
    <3> QED BY <2>1, <3>1
  <2>2. CASE k < j
    <3> DEFINE m == IF j = 2 THEN 1 ELSE j
    <3>1. j # 1 /\ m \in (1 .. j) \ {2} /\ m \in 1 .. n
      BY <1>1, <2>2, ShapeFacts
    <3>2. nesting[m] \in Opened(j)
      BY <3>1 DEF Opened
    <3>3. nesting[m] \notin Opened(k)
      <4>1. CASE k = 1
        BY <4>1 DEF Opened
      <4>2. CASE k # 1
        <5>1. j # 2 /\ m = j
          BY <2>2, <4>2, ShapeFacts
        <5>2. \A l \in (1 .. k) \ {2} : l \in 1 .. n /\ l # m
          BY <1>1, <2>2, <4>2, <5>1, ShapeFacts
        <5> QED BY <3>1, <4>2, <5>2, ShapeFacts DEF Opened
      <4> QED BY <4>1, <4>2
    <3> QED BY <2>2, <3>2, <3>3, ShapeFacts
  <2> QED BY <2>1, <2>2, ShapeFacts
<1>5. Chain(Open)
  BY <1>3, <1>4 DEF Chain
<1>6. Opens(Open)
  <2>1. DOMAIN Open = 1 .. Depth
    BY DEF Open
  <2>2. ASSUME NEW j \in 1 .. Depth, NEW k \in 1 .. Depth, Open[j] = Open[k] PROVE j = k
    <3>1. j <= k /\ k <= j
      BY <1>3, <1>4, <2>2
    <3> QED BY <3>1, ShapeFacts
  <2> QED BY <1>3, <2>1, <2>2 DEF Opens
<1>7. ScopeWithin(nesting) = Opened(Depth)
  <2>1. ScopeWithin(nesting) = {nesting[j] : j \in (1 .. n) \ {2}}
    <3>1. \A j \in 1 .. n : FunctionBody(nesting[j]) <=> j = 2
      BY ShapeFacts DEF Shape, Encloses
    <3> QED BY <3>1, ShapeFacts DEF ScopeWithin, Range
  <2>2. CASE n = 0
    BY <2>1, <2>2 DEF Opened, Depth
  <2>3. CASE n = 1
    <3>1. (1 .. 1) \ {2} = (1 .. 2) \ {2}
      OBVIOUS
    <3> QED BY <2>1, <2>3, <3>1 DEF Opened, Depth
  <2>4. CASE n > 1
    BY <2>1, <2>4, ShapeFacts DEF Opened, Depth
  <2> QED BY <2>2, <2>3, <2>4, ShapeFacts
<1>8. Here(Open) = Opened(Depth)
  BY <1>3, ShapeFacts DEF Here
<1>9. Opened(Depth) = {} <=> Depth = 1
  <2>1. Depth # 1 => nesting[1] \in Opened(Depth)
    <3>1. 1 \in (1 .. Depth) \ {2}
      BY ShapeFacts
    <3> QED BY <3>1 DEF Opened
  <2> QED BY <2>1 DEF Opened
<1>10. Depth = 1 <=> nesting = <<>>
  BY ShapeFacts DEF Depth, Shape
<1> QED BY <1>2, <1>3, <1>5, <1>6, <1>7, <1>8, <1>9, <1>10

-----------------------------------------------------------------------------
\* What is visible, of any set of declarations.

\* The declarations of a name in scope at a place, and the innermost of them.
Before(D, name, at, scope) == {d \in D : d.name = name /\ d.at <= at /\ d.scope \subseteq scope}
Visible(D, name, at, scope) ==
  {d \in Before(D, name, at, scope) :
     \A e \in Before(D, name, at, scope) : e.scope \subseteq d.scope}

\* The declarations visible here were made in the scopes that are open.
Inside(D, open) == \A d \in D : d.scope \subseteq Here(open) =>
                     \E k \in 1 .. Len(open) : d.scope = open[k]

\* A name is resolved to a declaration C says is visible, and fails only if there is none.
LEMMA SeenFromHere ==
  ASSUME NEW t, NEW open, NEW D, Holds(t, open, D), Chain(open), Inside(D, open),
         NEW at, \A d \in D : d.at <= at, NEW name \in Ident
  PROVE  LET v == VisitIdExpression(t, name)
         IN  /\ v.ok => \E d \in Visible(D, name, at, Here(open)) : v.id = d.id
             /\ ~v.ok => Visible(D, name, at, Here(open)) = {}
<1> DEFINE v == VisitIdExpression(t, name)
           n == Len(open)
           B == Before(D, name, at, Here(open))
<1>1. n \in Nat \ {0} /\ n \in 1 .. n
  BY OpenFacts
<1>2. ASSUME NEW d \in B PROVE d \in D /\ d.name = name /\ \E k \in 1 .. n : d.scope = open[k]
  BY DEF Before, Inside
<1>3. ASSUME NEW d \in D, d.name = name, NEW k \in 1 .. n, d.scope = open[k] PROVE d \in B
  <2>1. open[k] \subseteq Here(open)
    BY <1>1 DEF Chain, Here
  <2> QED BY <1>3, <2>1 DEF Before
<1> HIDE DEF B
<1>4. ASSUME v.ok PROVE \E d \in Visible(D, name, at, Here(open)) : v.id = d.id
  <2>1. PICK k \in 1 .. n : \E d \in D :
          /\ d.name = name /\ d.scope = open[k] /\ v.id = d.id
          /\ \A j \in 1 .. n : \A e \in D : e.name = name /\ e.scope = open[j] => j <= k
    BY <1>4, ExpressionVisited
  <2>2. PICK d \in D :
          /\ d.name = name /\ d.scope = open[k] /\ v.id = d.id
          /\ \A j \in 1 .. n : \A e \in D : e.name = name /\ e.scope = open[j] => j <= k
    BY <2>1
  <2>3. d \in B
    BY <1>3, <2>2
  <2>4. ASSUME NEW e \in B PROVE e.scope \subseteq d.scope
    <3>1. PICK j \in 1 .. n : e \in D /\ e.name = name /\ e.scope = open[j]
      BY <1>2
    <3>2. j <= k
      BY <2>2, <3>1
    <3> QED BY <2>2, <3>1, <3>2 DEF Chain
  <2> QED BY <2>2, <2>3, <2>4 DEF Visible, B
<1>5. ASSUME ~v.ok PROVE Visible(D, name, at, Here(open)) = {}
  <2>1. \A k \in 1 .. n : \A d \in D : ~(d.name = name /\ d.scope = open[k])
    BY <1>5, ExpressionVisited
  <2>2. B = {}
    BY <1>2, <2>1
  <2> QED BY <2>2 DEF Visible, B
<1> QED BY <1>4, <1>5

\* Declarations that come after a place.
After(N, at) == \A d \in N : ~(d.at <= at)

\* What a use sees does not change by later declarations.
LEMMA SeenForGood ==
  ASSUME NEW D, NEW N, NEW name, NEW at, NEW scope, After(N, at)
  PROVE  Visible(D \cup N, name, at, scope) = Visible(D, name, at, scope)
<1>1. Before(D \cup N, name, at, scope) = Before(D, name, at, scope)
  BY DEF Before, After
<1> QED BY <1>1 DEF Visible

\* The declarations a use sees declare one entity.
LEMMA OneEntitySeen ==
  ASSUME NEW D, Distinct(D), NEW name, NEW at, NEW scope,
         NEW d \in Visible(D, name, at, scope), NEW e \in Visible(D, name, at, scope)
  PROVE  d \in D /\ e \in D /\ Entity(d) = Entity(e)
<1>1. d \in D /\ e \in D /\ d.name = name /\ e.name = name /\ d.scope = e.scope
  BY DEF Visible, Before
<1>2. (d.linked /\ e.linked) \/ d = e
  BY <1>1 DEF Distinct, Collide
<1> QED BY <1>1, <1>2 DEF Entity

\* Unique names are names of entities.
LEMMA OneIdPerEntity ==
  ASSUME NEW t, NEW D, t \in Tables, NamesHold(t, D), Distinct(D), \A d \in D : d.at # 0,
         NEW d \in D, NEW e \in D
  PROVE  d.id = e.id <=> Entity(d) = Entity(e)
<1>0. d.linked \in BOOLEAN /\ e.linked \in BOOLEAN
  BY DEF NamesHold
<1>1. CASE d.linked /\ e.linked
  <2>1. d.id = <<d.name>> /\ e.id = <<e.name>>
    BY <1>1 DEF NamesHold
  <2>2. d.id = e.id <=> d.name = e.name
    BY <2>1
  <2>3. Entity(d) = Entity(e) <=> d.name = e.name
    BY <1>1 DEF Entity
  <2> QED BY <2>2, <2>3
<1>2. CASE ~d.linked /\ ~e.linked
  <2>1. d.id = e.id => d = e
    BY <1>2 DEF Distinct, SameThing
  <2>2. Entity(d) = Entity(e) => d = e
    <3>1. Entity(d) = Entity(e) => d.at = e.at /\ d.index = e.index
      BY <1>2 DEF Entity
    <3> QED BY <1>2, <3>1 DEF Distinct, SameThing
  <2> QED BY <2>1, <2>2
<1>3. ASSUME NEW x \in D, NEW y \in D, x.linked, ~y.linked
      PROVE  x.id # y.id /\ Entity(x) # Entity(y)
  <2>1. PICK c \in Nat : y.id = <<y.name, c>>
    BY <1>3 DEF NamesHold, Numbered
  <2>2. x.id = <<x.name>>
    BY <1>3 DEF NamesHold
  <2>3. Len(<<x.name>>) = 1 /\ Len(<<y.name, c>>) = 2
    OBVIOUS
  <2>4. x.id # y.id
    BY <2>1, <2>2, <2>3
  <2>5. Entity(x).at = 0 /\ Entity(y).at = y.at
    BY <1>3 DEF Entity
  <2> QED BY <2>4, <2>5
<1> QED BY <1>0, <1>1, <1>2, <1>3

-----------------------------------------------------------------------------
\* One more item.

\* Declarations are in scopes that items of the unit open.
LEMMA DeclaredWhere ==
  ASSUME UnitOK, NEW d \in Declarations
  PROVE  d.at \in DOMAIN unit /\ d.scope \subseteq DOMAIN unit
<1>1. PICK i \in DOMAIN unit : d \in DeclaredBy(i)
  BY DEF Declarations
<1> DEFINE here == ScopeWithin(unit[i].path)
<1>2. Len(unit) \in Nat /\ DOMAIN unit = 1 .. Len(unit) /\ unit[i].path \in Seq(1 .. i - 1)
  BY DEF UnitOK
<1>3. Range(unit[i].path) \subseteq 1 .. i - 1
  BY <1>2 DEF Range
<1>4. here \subseteq DOMAIN unit /\ here \cup {i} \subseteq DOMAIN unit
  BY <1>2, <1>3 DEF ScopeWithin
<1> HIDE DEF here
<1>5. d.at = i /\ (d.scope = here \/ d.scope = here \cup {i})
  BY <1>1 DEF DeclaredBy, DeclarationOf, here
<1> QED BY <1>4, <1>5

\* One more item adds its declarations and uses and changes no other.
LEMMA Grown ==
  ASSUME UnitOK, nesting \in Seq(DOMAIN unit),
         NEW item \in Items, item.path = nesting, unit' = Append(unit, item),
         NEW i, i = Len(unit) + 1
  PROVE  /\ i \in Nat \ {0} /\ DOMAIN unit = 1 .. i - 1 /\ DOMAIN unit' = 1 .. i
         /\ Len(unit') = i
         /\ UnitOK'
         /\ unit'[i] = item /\ \A j \in 1 .. i - 1 : unit'[j] = unit[j]
         /\ \A j \in DOMAIN unit : FunctionBody(j)' <=> FunctionBody(j)
         /\ Declarations' = Declarations \cup DeclaredBy(i)'
         /\ Uses' = Uses \cup UsedBy(i)'
<1>1. /\ i \in Nat \ {0} /\ DOMAIN unit = 1 .. i - 1 /\ DOMAIN unit' = 1 .. i
      /\ Len(unit') = i
      /\ unit'[i] = item /\ \A j \in 1 .. i - 1 : unit'[j] = unit[j]
      /\ unit' \in Seq(Items)
  BY DEF UnitOK
<1>2. UnitOK'
  <2>1. \A j \in 1 .. i : unit'[j].path \in Seq(1 .. j - 1)
    <3> TAKE j \in 1 .. i
    <3>1. CASE j = i
      BY <1>1, <3>1
    <3>2. CASE j # i
      <4>1. j \in 1 .. i - 1
        BY <1>1, <3>2
      <4> QED BY <1>1, <4>1 DEF UnitOK
    <3> QED BY <3>1, <3>2
  <2> QED BY <1>1, <2>1 DEF UnitOK
<1>3. ASSUME NEW j \in DOMAIN unit
      PROVE  Range(unit[j].path) \subseteq DOMAIN unit
  <2>1. unit[j].path \in Seq(1 .. j - 1)
    BY DEF UnitOK
  <2> QED BY <1>1, <2>1 DEF Range
<1>4. \A j \in DOMAIN unit : FunctionBody(j)' <=> FunctionBody(j)
  <2> TAKE j \in DOMAIN unit
  <2>1. unit'[j] = unit[j]
    BY <1>1
  <2>2. unit[j].path # <<>> => Last(unit[j].path) \in DOMAIN unit
    <3>1. unit[j].path \in Seq(1 .. j - 1)
      BY DEF UnitOK
    <3> QED BY <1>1, <3>1 DEF Last
  <2>3. unit[j].path # <<>> => unit'[Last(unit[j].path)] = unit[Last(unit[j].path)]
    BY <1>1, <2>2
  <2> QED BY <2>1, <2>3 DEF FunctionBody
<1>5. ASSUME NEW j \in DOMAIN unit
      PROVE  DeclaredBy(j)' = DeclaredBy(j) /\ UsedBy(j)' = UsedBy(j)
  <2>1. unit'[j] = unit[j]
    BY <1>1
  <2>2. ScopeWithin(unit[j].path)' = ScopeWithin(unit[j].path)
    BY <1>3, <1>4, <2>1 DEF ScopeWithin
  <2>3. DeclaredBy(j)' = DeclaredBy(j)
    BY <2>1, <2>2 DEF DeclaredBy
  <2>4. UsedBy(j)' = UsedBy(j)
    BY <2>1, <2>2 DEF UsedBy
  <2> QED BY <2>3, <2>4
<1>6. DOMAIN unit' = DOMAIN unit \cup {i}
  BY <1>1
<1>7. Declarations' = Declarations \cup DeclaredBy(i)'
  BY <1>5, <1>6 DEF Declarations
<1>8. Uses' = Uses \cup UsedBy(i)'
  BY <1>5, <1>6 DEF Uses
<1> QED BY <1>1, <1>2, <1>4, <1>7, <1>8

\* The declarations and the use that item i makes.
ParametersOf(i, item, scope) ==
  {DeclarationOf(i, item.parameters[k], scope, FALSE, k,
                 IF k <= Len(item.parameterIds) THEN item.parameterIds[k] ELSE Nobody)
     : k \in DOMAIN item.parameters}
UseOf(i, name, scope, id) == [name |-> name, at |-> i, scope |-> scope, id |-> id]

\* The declarations and the uses of the new item, by its kind.
LEMMA NewItem ==
  ASSUME UnitOK, nesting \in Seq(DOMAIN unit),
         NEW item \in Items, item.path = nesting, unit' = Append(unit, item),
         NEW i, i = Len(unit) + 1
  PROVE  LET here == ScopeWithin(nesting)
         IN  /\ item.kind = "variable" =>
                  /\ DeclaredBy(i)' = {DeclarationOf(i, item.name, here,
                                         here = {} \/ item.storage = "extern", 0, item.id)}
                  /\ UsedBy(i)' = IF item.initializer \in Names
                                  THEN {UseOf(i, item.initializer, here, item.usedId)} ELSE {}
             /\ item.kind = "for" =>
                  /\ DeclaredBy(i)' = {DeclarationOf(i, item.name, here \cup {i},
                                         item.storage = "extern", 0, item.id)}
                  /\ UsedBy(i)' = IF item.initializer \in Names
                                  THEN {UseOf(i, item.initializer, here \cup {i}, item.usedId)}
                                  ELSE {}
             /\ item.kind \in {"function", "prototype"} =>
                  /\ DeclaredBy(i)' = {DeclarationOf(i, item.name, here, TRUE, 0, item.id)}
                                      \cup ParametersOf(i, item, here \cup {i})
                  /\ UsedBy(i)' = {}
             /\ item.kind = "use" => /\ DeclaredBy(i)' = {}
                                     /\ UsedBy(i)' = {UseOf(i, item.name, here, item.usedId)}
             /\ item.kind = "compound" => DeclaredBy(i)' = {} /\ UsedBy(i)' = {}
<1> DEFINE here == ScopeWithin(nesting)
<1>1. unit'[i] = item
  BY Grown
<1>2. Range(nesting) \subseteq DOMAIN unit
  BY DEF Range
<1>3. \A j \in DOMAIN unit : FunctionBody(j)' <=> FunctionBody(j)
  BY Grown
<1>4. ScopeWithin(unit[i].path)' = here
  BY <1>1, <1>2, <1>3 DEF ScopeWithin
<1> HIDE DEF here
<1>5. item.kind = "variable" =>
        /\ DeclaredBy(i)' = {DeclarationOf(i, item.name, here,
                               here = {} \/ item.storage = "extern", 0, item.id)}
        /\ UsedBy(i)' = IF item.initializer \in Names
                        THEN {UseOf(i, item.initializer, here, item.usedId)} ELSE {}
  BY <1>1, <1>4 DEF DeclaredBy, UsedBy, UseOf
<1>6. item.kind = "for" =>
        /\ DeclaredBy(i)' = {DeclarationOf(i, item.name, here \cup {i},
                               item.storage = "extern", 0, item.id)}
        /\ UsedBy(i)' = IF item.initializer \in Names
                        THEN {UseOf(i, item.initializer, here \cup {i}, item.usedId)}
                        ELSE {}
  BY <1>1, <1>4 DEF DeclaredBy, UsedBy, UseOf
<1>7. item.kind \in {"function", "prototype"} =>
        /\ DeclaredBy(i)' = {DeclarationOf(i, item.name, here, TRUE, 0, item.id)}
                            \cup ParametersOf(i, item, here \cup {i})
        /\ UsedBy(i)' = {}
  BY <1>1, <1>4 DEF DeclaredBy, UsedBy, UseOf, ParametersOf
<1>8. item.kind = "use" => /\ DeclaredBy(i)' = {}
                           /\ UsedBy(i)' = {UseOf(i, item.name, here, item.usedId)}
  BY <1>1, <1>4 DEF DeclaredBy, UsedBy, UseOf
<1>9. item.kind = "compound" => DeclaredBy(i)' = {} /\ UsedBy(i)' = {}
  BY <1>1 DEF DeclaredBy, UsedBy
<1> QED BY <1>5, <1>6, <1>7, <1>8, <1>9 DEF here

-----------------------------------------------------------------------------
(* The invariant: the table holds the declarations of the unit, and every  *)
(* use so far was resolved to what it denotes.                             *)

\* A use has the name of a declaration it sees.
Resolved(u) == \E d \in Visible(Declarations, u.name, u.at, u.scope) : u.id = d.id

\* What holds between two visits while nothing was reported.
Core == /\ Shape
        /\ Holds(table, Open, Declarations)
        /\ Inside(Declarations, Open)
        /\ \A u \in Uses : u.at \in DOMAIN unit /\ Resolved(u)
        /\ ~LocalStaticFunction

\* Inside is kept by declarations in the current scope or in the one that is opened.
LEMMA InsideGrown ==
  ASSUME NEW D, NEW N, NEW open, open \in Seq(SUBSET Nat), open # <<>>, Inside(D, open),
         NEW i \in Nat, \A d \in D : i \notin d.scope, i \notin Here(open),
         \A d \in N : d.scope = Here(open) \/ d.scope = Here(open) \cup {i}
  PROVE  /\ Inside(D \cup N, open)
         /\ Inside(D \cup N, Append(open, Here(open) \cup {i}))
<1> DEFINE n == Len(open)
           o == Append(open, Here(open) \cup {i})
<1>1. n \in Nat \ {0} /\ n \in 1 .. n /\ Here(open) \in SUBSET Nat
  BY DEF Here
<1>2. Here(open) \cup {i} \in SUBSET Nat
  BY <1>1
<1>3. /\ Len(o) = n + 1 /\ Here(o) = Here(open) \cup {i}
      /\ \A k \in 1 .. n : o[k] = open[k] /\ k \in 1 .. n + 1
      /\ o[n + 1] = Here(open) \cup {i} /\ n + 1 \in 1 .. n + 1
  BY <1>1, <1>2 DEF Here
<1> HIDE DEF o
<1>4. ASSUME NEW d \in D \cup N, d.scope \subseteq Here(open)
      PROVE  \E k \in 1 .. n : d.scope = open[k]
  <2>1. CASE d \in D
    BY <1>4, <2>1 DEF Inside
  <2>2. CASE d \in N
    <3>1. d.scope = Here(open)
      BY <1>4, <2>2
    <3> QED BY <1>1, <3>1 DEF Here
  <2> QED BY <2>1, <2>2
<1>5. ASSUME NEW d \in D \cup N, d.scope \subseteq Here(o)
      PROVE  \E k \in 1 .. n + 1 : d.scope = o[k]
  <2>1. CASE d.scope = Here(open) \cup {i}
    BY <1>3, <2>1
  <2>2. CASE d.scope # Here(open) \cup {i}
    <3>1. d.scope \subseteq Here(open)
      BY <1>3, <1>5, <2>2
    <3> QED BY <1>3, <1>4, <3>1
  <2> QED BY <2>1, <2>2
<1>6. Inside(D \cup N, open)
  BY <1>4 DEF Inside
<1>7. Inside(D \cup N, o)
  BY <1>3, <1>5 DEF Inside
<1> QED BY <1>6, <1>7 DEF o

\* The next position is new, so the scope it opens is.
LEMMA Fresh ==
  ASSUME Core, NEW i, i = Len(unit) + 1
  PROVE  /\ i \in Nat /\ i \notin Here(Open)
         /\ \A d \in Declarations : i \notin d.scope /\ d.at # i /\ d.at < i
         /\ Here(Open) \cup {i} \in SUBSET Nat
         /\ \A k \in 1 .. Len(Open) : Open[k] # Here(Open) \cup {i}
         /\ \A d \in Declarations : d.scope # Here(Open) \cup {i}
<1>1. Shape /\ UnitOK
  BY DEF Core, Shape
<1>2. i \in Nat /\ i \notin DOMAIN unit /\ DOMAIN unit = 1 .. i - 1
  BY <1>1, ShapeFacts
<1>3. \A k \in 1 .. Len(Open) : Open[k] \subseteq DOMAIN unit
  BY <1>1, OpenShape
<1>4. Here(Open) \subseteq DOMAIN unit
  BY <1>1, <1>3, OpenShape, ShapeFacts DEF Here
<1>5. \A d \in Declarations : d.at \in DOMAIN unit /\ d.scope \subseteq DOMAIN unit
  BY <1>1, DeclaredWhere
<1> QED BY <1>2, <1>3, <1>4, <1>5

\* An item that encloses nothing keeps the shape and the open scopes.
LEMMA Kept ==
  ASSUME Shape, NEW item \in Items, item.path = nesting, unit' = Append(unit, item),
         nesting' = nesting, suppress' = suppress
  PROVE  Shape' /\ Open' = Open
<1>1. PICK i : i = Len(unit) + 1
  OBVIOUS
<1>2. nesting \in Seq(DOMAIN unit) /\ UnitOK
  BY DEF Shape
<1>3. /\ UnitOK' /\ DOMAIN unit = 1 .. i - 1 /\ DOMAIN unit' = 1 .. i /\ i \in Nat
      /\ \A j \in 1 .. i - 1 : unit'[j] = unit[j]
      /\ \A j \in DOMAIN unit : FunctionBody(j)' <=> FunctionBody(j)
  BY <1>1, <1>2, Grown
<1>4. nesting \in Seq(DOMAIN unit')
  BY <1>2, <1>3
<1>5. \A j \in DOMAIN nesting : Encloses(j)'
  <2> TAKE j \in DOMAIN nesting
  <2>1. nesting[j] \in DOMAIN unit /\ (j > 2 => nesting[j - 1] \in DOMAIN unit)
    BY ShapeFacts
  <2>2. FunctionBody(nesting[j])' <=> FunctionBody(nesting[j])
    BY <1>3, <2>1
  <2>3. unit'[nesting[j]] = unit[nesting[j]] /\ (j > 2 => unit'[nesting[j - 1]] = unit[nesting[j - 1]])
    BY <1>3, <2>1
  <2>4. Encloses(j)
    BY DEF Shape
  <2> QED BY <2>2, <2>3, <2>4 DEF Encloses
<1>6. Shape'
  BY <1>3, <1>4, <1>5 DEF Shape
<1>7. Open' = Open
  BY DEF Open, Opened, Depth
<1> QED BY <1>6, <1>7

\* Append, in the form the proofs on the nesting use.
LEMMA Appended ==
  ASSUME NEW S, NEW s \in Seq(S), NEW x \in S
  PROVE  /\ Append(s, x) \in Seq(S) /\ Len(Append(s, x)) = Len(s) + 1
         /\ Append(s, x)[Len(s) + 1] = x
         /\ \A k \in 1 .. Len(s) : Append(s, x)[k] = s[k]
         /\ Append(s, x) = [k \in 1 .. Len(s) + 1 |-> Append(s, x)[k]]
<1> DEFINE a == Append(s, x)
<1>1. a \in Seq(S) /\ Len(a) = Len(s) + 1 /\ a[Len(s) + 1] = x
  OBVIOUS
<1>2. \A k \in 1 .. Len(s) : a[k] = s[k]
  OBVIOUS
<1>3. DOMAIN a = 1 .. Len(s) + 1
  BY <1>1
<1> HIDE DEF a
<1>4. a = [k \in 1 .. Len(s) + 1 |-> a[k]]
  BY <1>1, <1>3
<1> QED BY <1>1, <1>2, <1>4 DEF a

\* An item that may enclose the ones after it, and the flag it leaves.
Encloser(item) ==
  /\ Len(nesting) = 0 => item.kind = "function" /\ suppress' = TRUE
  /\ Len(nesting) = 1 => item.kind = "compound" /\ item.suppressed /\ suppress' = FALSE
  /\ Len(nesting) > 1 => /\ \/ item.kind = "compound" /\ ~item.suppressed
                            \/ item.kind = "for" /\ Innermost = "compound"
                         /\ suppress' = FALSE

\* An item that encloses the next ones opens a scope, unless it is a function's body.
LEMMA Pushed ==
  ASSUME Shape, NEW item \in Items, item.path = nesting, unit' = Append(unit, item),
         NEW i, i = Len(unit) + 1, nesting' = Append(nesting, i), Encloser(item)
  PROVE  /\ Shape'
         /\ Open' = IF Len(nesting) = 1 THEN Open ELSE Append(Open, Here(Open) \cup {i})
<1>1. nesting \in Seq(DOMAIN unit) /\ UnitOK
  BY DEF Shape
<1>n. PICK n : n = Len(nesting)
  OBVIOUS
<1>d. PICK depth : depth = Depth
  OBVIOUS
<1>2. /\ UnitOK' /\ DOMAIN unit = 1 .. i - 1 /\ DOMAIN unit' = 1 .. i /\ i \in Nat
      /\ unit'[i] = item /\ \A j \in 1 .. i - 1 : unit'[j] = unit[j]
      /\ \A j \in DOMAIN unit : FunctionBody(j)' <=> FunctionBody(j)
  BY <1>1, Grown
<1>3. n \in Nat /\ DOMAIN nesting = 1 .. n /\ \A j \in 1 .. n : nesting[j] \in 1 .. i - 1
  BY <1>2, <1>n, ShapeFacts
<1>4. /\ nesting' \in Seq(DOMAIN unit') /\ Len(nesting') = n + 1
      /\ nesting'[n + 1] = i /\ \A j \in 1 .. n : nesting'[j] = nesting[j]
      /\ DOMAIN nesting' = 1 .. n + 1
  <2>1. nesting \in Seq(DOMAIN unit') /\ i \in DOMAIN unit'
    BY <1>1, <1>2
  <2> QED BY <1>3, <1>n, <2>1
<1>5. \A j, k \in 1 .. n + 1 : j < k => nesting'[j] < nesting'[k]
  <2> TAKE j, k \in 1 .. n + 1
  <2> HAVE j < k
  <2>1. j \in 1 .. n
    BY <1>3
  <2>2. CASE k = n + 1
    BY <1>2, <1>3, <1>4, <2>1, <2>2
  <2>3. CASE k \in 1 .. n
    BY <1>3, <1>4, <2>1, <2>3 DEF Shape
  <2> QED BY <1>3, <2>2, <2>3
<1>6. ASSUME NEW j \in 1 .. n PROVE Encloses(j)'
  <2>1. nesting[j] \in DOMAIN unit /\ (j > 2 => nesting[j - 1] \in DOMAIN unit /\ j - 1 \in 1 .. n)
    BY <1>2, <1>3
  <2>2. nesting'[j] = nesting[j] /\ (j > 2 => nesting'[j - 1] = nesting[j - 1])
    BY <1>4, <2>1
  <2>3. FunctionBody(nesting[j])' <=> FunctionBody(nesting[j])
    <3>1. PICK o \in DOMAIN unit : o = nesting[j]
      BY <2>1
    <3>2. FunctionBody(o)' <=> FunctionBody(o)
      BY <1>2
    <3>3. FunctionBody(nesting[j])' <=> FunctionBody(o)'
      BY <2>2, <3>1 DEF FunctionBody
    <3> QED BY <3>1, <3>2, <3>3
  <2>4. unit'[nesting[j]] = unit[nesting[j]] /\ (j > 2 => unit'[nesting[j - 1]] = unit[nesting[j - 1]])
    BY <1>2, <2>1
  <2>5. Encloses(j)
    BY <1>3 DEF Shape
  <2> QED BY <2>2, <2>3, <2>4, <2>5 DEF Encloses
<1>7. FunctionBody(i)' <=> item.kind = "compound" /\ n = 1
  <2>1. n # 0 => nesting[n] \in DOMAIN unit /\ unit'[nesting[n]] = unit[nesting[n]]
    BY <1>2, <1>3
  <2>2. n # 0 => (unit[nesting[n]].kind = "function" <=> n = 1)
    <3>1. n # 0 => Encloses(n)
      BY <1>3 DEF Shape
    <3> QED BY <1>3, <3>1 DEF Encloses
  <2>3. nesting # <<>> <=> n # 0
    BY <1>1, <1>3, <1>n
  <2>4. n # 0 => Last(nesting) = nesting[n]
    BY <1>n DEF Last
  <2> QED BY <1>2, <1>3, <2>1, <2>2, <2>3, <2>4 DEF FunctionBody
<1>8. Encloses(n + 1)'
  <2>1. n > 1 => nesting'[n] = nesting[n] /\ unit'[nesting[n]] = unit[nesting[n]] /\ n + 1 - 1 = n
    BY <1>2, <1>3, <1>4
  <2>2. n > 1 /\ item.kind = "for" => unit[nesting[n]].kind = "compound"
    <3>1. n > 1 => Last(nesting) = nesting[n]
      BY <1>n DEF Last
    <3>2. n > 1 /\ item.kind = "for" => Innermost = "compound"
      BY <1>n DEF Encloser
    <3> QED BY <3>1, <3>2 DEF Innermost
  <2>3. PICK o : o = i
    OBVIOUS
  <2>4. nesting'[n + 1] = o /\ unit'[o] = item /\ (FunctionBody(o)' <=> item.kind = "compound" /\ n = 1)
    BY <1>2, <1>4, <1>7, <2>3
  <2>5. FunctionBody(nesting[n + 1])' <=> n = 1
    <3>1. FunctionBody(nesting[n + 1])' <=> FunctionBody(o)'
      BY <2>4 DEF FunctionBody
    <3>2. n = 1 => item.kind = "compound"
      BY <1>n DEF Encloser
    <3> QED BY <2>4, <3>1, <3>2
  <2>6. n = 0 => item.kind = "function"
    BY <1>n DEF Encloser
  <2>7. n = 1 => item.kind = "compound" /\ item.suppressed = TRUE
    BY <1>n DEF Encloser, Items
  <2>8. n > 1 => item.kind = "for" \/ (item.kind = "compound" /\ item.suppressed = FALSE)
    <3>1. item.suppressed \in BOOLEAN
      BY DEF Items
    <3>2. n > 1 => item.kind = "for" \/ (item.kind = "compound" /\ ~item.suppressed)
      BY <1>n DEF Encloser
    <3> QED BY <3>1, <3>2
  <2>9. unit'[nesting'[n + 1]] = item
    BY <2>4
  <2>10. /\ n + 1 = 1 => item.kind = "function"
         /\ n + 1 = 2 => item.kind = "compound"
         /\ n + 1 > 2 => \/ item.kind = "compound"
                         \/ item.kind = "for" /\ unit'[nesting'[n + 1 - 1]].kind = "compound"
    BY <1>3, <2>1, <2>2, <2>6, <2>7, <2>8
  <2>11. item.kind = "compound" => (item.suppressed <=> n + 1 = 2)
    <3>1. CASE n = 0
      BY <2>6, <3>1
    <3>2. CASE n = 1
      BY <2>7, <3>2
    <3>3. CASE n > 1
      BY <1>3, <2>8, <3>3
    <3> QED BY <1>3, <3>1, <3>2, <3>3
  <2>12. FunctionBody(nesting[n + 1])' <=> n + 1 = 2
    BY <1>3, <2>5
  <2>13. PICK j : j = n + 1
    OBVIOUS
  <2>14. /\ j = 1 => unit'[nesting'[j]].kind = "function"
         /\ j = 2 => unit'[nesting'[j]].kind = "compound"
         /\ j > 2 => \/ unit'[nesting'[j]].kind = "compound"
                     \/ /\ unit'[nesting'[j]].kind = "for"
                        /\ unit'[nesting'[j - 1]].kind = "compound"
    <3>0. j - 1 = n + 1 - 1 /\ j - 1 = n
      BY <1>3, <2>13
    <3>1. unit'[nesting'[j]] = item
      BY <2>9, <2>13
    <3>2. /\ j = 1 => item.kind = "function"
          /\ j = 2 => item.kind = "compound"
          /\ j > 2 => \/ item.kind = "compound"
                      \/ item.kind = "for" /\ unit'[nesting'[j - 1]].kind = "compound"
      BY <1>3, <2>10, <2>13, <3>0
    <3> QED BY <3>1, <3>2
  <2>15. FunctionBody(nesting[j])' <=> j = 2
    BY <2>12, <2>13
  <2>16. unit'[nesting'[j]].kind = "compound" => (unit'[nesting'[j]].suppressed <=> j = 2)
    BY <2>9, <2>11, <2>13
  <2>17. Encloses(j)'
    BY <2>14, <2>15, <2>16 DEF Encloses
  <2> QED BY <2>13, <2>17
<1>9. \A j \in DOMAIN nesting' : Encloses(j)'
  <2>1. \A j \in 1 .. n + 1 : j \in 1 .. n \/ j = n + 1
    BY <1>3
  <2> QED BY <1>4, <1>6, <1>8, <2>1
<1>10. suppress' \in BOOLEAN /\ (suppress' <=> n + 1 = 1)
  <2>1. n = 0 => suppress' = TRUE
    BY <1>n DEF Encloser
  <2>2. n = 1 => suppress' = FALSE
    BY <1>n DEF Encloser
  <2>3. n > 1 => suppress' = FALSE
    BY <1>n DEF Encloser
  <2>4. (n = 0 \/ n = 1 \/ n > 1) /\ (n + 1 = 1 <=> n = 0) /\ ~(n = 0 /\ n = 1) /\ ~(n = 0 /\ n > 1)
    BY <1>3
  <2>5. CASE n = 0
    BY <2>1, <2>4, <2>5
  <2>6. CASE n # 0
    BY <2>2, <2>3, <2>4, <2>6
  <2> QED BY <2>5, <2>6
<1>11. Shape'
  BY <1>2, <1>4, <1>5, <1>9, <1>10 DEF Shape
<1>12. /\ depth = IF n = 0 THEN 1 ELSE IF n = 1 THEN 2 ELSE n
       /\ Depth' = IF n = 1 THEN depth ELSE depth + 1
       /\ depth \in Nat
  <2>1. depth = IF n = 0 THEN 1 ELSE IF n = 1 THEN 2 ELSE n
    BY <1>n, <1>d DEF Depth
  <2>2. Depth' = IF n + 1 = 0 THEN 1 ELSE IF n + 1 = 1 THEN 2 ELSE n + 1
    BY <1>4 DEF Depth
  <2> QED BY <1>3, <2>1, <2>2
<1>13. ASSUME NEW k \in 1 .. depth PROVE Opened(k)' = Opened(k)
  <2>1. k # 1 => \A j \in (1 .. k) \ {2} : j \in 1 .. n
    BY <1>3, <1>12
  <2> QED BY <1>4, <2>1 DEF Opened
<1>14. ASSUME n # 1 PROVE Opened(depth + 1)' = Opened(depth) \cup {i}
  <2>1. CASE n = 0
    <3>1. (1 .. depth + 1) \ {2} = {1} /\ depth = 1 /\ depth + 1 # 1
      BY <1>12, <2>1
    <3>2. Opened(depth + 1)' = {nesting'[1]}
      BY <3>1 DEF Opened
    <3>3. Opened(depth) = {}
      BY <3>1 DEF Opened
    <3> QED BY <1>4, <2>1, <3>2, <3>3
  <2>2. CASE n > 1
    <3>1. depth = n /\ depth # 1 /\ depth + 1 # 1
      BY <1>12, <1>3, <2>2
    <3>2. (1 .. n + 1) \ {2} = ((1 .. n) \ {2}) \cup {n + 1}
      BY <1>3, <2>2
    <3>3. Opened(n + 1)' = {nesting'[j] : j \in ((1 .. n) \ {2}) \cup {n + 1}}
      BY <3>1, <3>2 DEF Opened
    <3>4. Opened(n + 1)' = {nesting[j] : j \in (1 .. n) \ {2}} \cup {i}
      <4>1. \A j \in (1 .. n) \ {2} : nesting'[j] = nesting[j]
        BY <1>4
      <4> DEFINE A == (1 .. n) \ {2}
      <4>2. {nesting'[j] : j \in A \cup {n + 1}} = {nesting'[j] : j \in A} \cup {nesting'[n + 1]}
        OBVIOUS
      <4>3. PICK f, g : f = nesting /\ g = nesting'
        OBVIOUS
      <4>4. \A j \in A : g[j] = f[j]
        BY <4>1, <4>3
      <4> HIDE DEF A
      <4>5. {g[j] : j \in A} = {f[j] : j \in A}
        BY <4>4, Zenon
      <4>6. {nesting'[j] : j \in A} = {nesting[j] : j \in A}
        BY <4>3, <4>5, Zenon
      <4> QED BY <1>4, <3>3, <4>2, <4>6 DEF A
    <3>5. Opened(n) = {nesting[j] : j \in (1 .. n) \ {2}}
      BY <3>1 DEF Opened
    <3> QED BY <3>1, <3>4, <3>5
  <2> QED BY <1>3, <1>14, <2>1, <2>2
<1>15. Open' = IF n = 1 THEN Open ELSE Append(Open, Here(Open) \cup {i})
  <2>1. CASE n = 1
    BY <1>12, <1>13, <1>d, <2>1 DEF Open
  <2>2. CASE n # 1
    <3>1. Open' = [k \in 1 .. depth + 1 |-> Opened(k)']
      BY <1>12, <2>2 DEF Open
    <3>2. Here(Open) = Opened(depth) /\ Here(Open) \in SUBSET Nat
      <4>1. Depth \in 1 .. Depth
        BY ShapeFacts
      <4>2. Opens(Open) /\ Open[Depth] = Opened(Depth) /\ Len(Open) = Depth
        BY <4>1, OpenShape
      <4>3. Here(Open) = Opened(depth)
        BY <1>d, <4>2 DEF Here
      <4> QED BY <4>1, <4>2, <4>3 DEF Opens, Here
    <3>3. Opened(depth + 1)' = Here(Open) \cup {i}
      BY <1>14, <2>2, <3>2
    <3>4. /\ Open \in Seq(SUBSET Nat) /\ Len(Open) = depth
          /\ \A k \in 1 .. depth : Open[k] = Opened(k)
      BY <1>d, OpenShape
    <3> DEFINE a == Append(Open, Here(Open) \cup {i})
    <3>5. /\ a = [k \in 1 .. depth + 1 |-> a[k]] /\ a[depth + 1] = Here(Open) \cup {i}
          /\ \A k \in 1 .. depth : a[k] = Open[k]
      <4>1. Here(Open) \cup {i} \in SUBSET Nat
        BY <1>2, <3>2
      <4> QED BY <3>4, <4>1, Appended
    <3> HIDE DEF a
    <3>7. ASSUME NEW k \in 1 .. depth + 1 PROVE a[k] = Opened(k)'
      <4>1. CASE k = depth + 1
        BY <3>3, <3>5, <4>1
      <4>2. CASE k \in 1 .. depth
        BY <1>13, <3>4, <3>5, <4>2
      <4> QED BY <1>12, <4>1, <4>2
    <3>8. a = Open'
      BY <3>1, <3>5, <3>7
    <3> QED BY <2>2, <3>8 DEF a
  <2> QED BY <2>1, <2>2
<1> QED BY <1>n, <1>11, <1>15

-----------------------------------------------------------------------------
\* What the lemmas on tables need to know of the open scopes.
OpenFits == /\ Chain(Open) /\ Here(Open) = ScopeWithin(nesting)
            /\ Open \in Seq(SUBSET Nat) /\ Open # <<>>
            /\ Here(Open) = {} <=> Len(Open) = 1

\* The open scopes of a shape are as the tables need them.
LEMMA ShapeOpens == Shape => OpenFits
BY OpenShape DEF OpenFits, Opens

\* The same of the next state.
LEMMA NextOpens == Shape' => OpenFits'
BY ShapeOpens, PTL

\* The unique names of represented declarations are unique names.
LEMMA IdsHeld ==
  ASSUME NEW t \in Tables, NEW D, NamesHold(t, D), NEW d \in D
  PROVE  d.id \in Ids
<1>1. d.name \in Ident /\ d.linked \in BOOLEAN
  BY DEF NamesHold
<1>2. CASE d.linked
  <2>1. d.id = <<d.name>>
    BY <1>2 DEF NamesHold
  <2> QED BY <1>1, <2>1 DEF Ids
<1>3. CASE ~d.linked
  <2>1. PICK c \in Nat : d.id = <<d.name, c>>
    BY <1>3 DEF NamesHold, Numbered
  <2> QED BY <1>1, <2>1 DEF Ids
<1> QED BY <1>1, <1>2, <1>3

\* Item i declares in the scope around it or in the one it opens.
DeclaredHere(i) == \A d \in DeclaredBy(i)' :
  d.at = i /\ (d.scope = Here(Open) \/ d.scope = Here(Open) \cup {i})
\* Item i opens a scope or none.
Pushes(i) == Open' = Open \/ Open' = Append(Open, Here(Open) \cup {i})

\* The declarations after one more item.
LEMMA ItemAdded ==
  ASSUME Core, NEW item \in Items, item.path = nesting, unit' = Append(unit, item),
         NEW i, i = Len(unit) + 1, Pushes(i)
  PROVE  /\ DeclaredHere(i)
         /\ Inside(Declarations', Open')
         /\ \A d \in Declarations' : d.at <= i
         /\ Declarations' = Declarations \cup DeclaredBy(i)'
<1>1. nesting \in Seq(DOMAIN unit) /\ UnitOK /\ Shape
  BY DEF Core, Shape
<1>2. Here(Open) = ScopeWithin(nesting) /\ Open \in Seq(SUBSET Nat) /\ Open # <<>>
  BY <1>1, ShapeOpens DEF OpenFits
<1>3. PICK here : here = Here(Open)
  OBVIOUS
<1>4. \A d \in DeclaredBy(i)' : d.at = i /\ (d.scope = here \/ d.scope = here \cup {i})
  <2>1. ScopeWithin(nesting) = here
    BY <1>2, <1>3
  <2>2. CASE item.kind = "variable"
    <3>1. DeclaredBy(i)' = {DeclarationOf(i, item.name, here, here = {} \/ item.storage = "extern",
                                          0, item.id)}
      BY <1>1, <2>1, <2>2, NewItem
    <3> QED BY <3>1 DEF DeclarationOf
  <2>3. CASE item.kind = "for"
    <3>1. DeclaredBy(i)' = {DeclarationOf(i, item.name, here \cup {i}, item.storage = "extern",
                                          0, item.id)}
      BY <1>1, <2>1, <2>3, NewItem
    <3> QED BY <3>1 DEF DeclarationOf
  <2>4. CASE item.kind \in {"function", "prototype"}
    <3>1. DeclaredBy(i)' = {DeclarationOf(i, item.name, here, TRUE, 0, item.id)}
                           \cup ParametersOf(i, item, here \cup {i})
      BY <1>1, <2>1, <2>4, NewItem
    <3> QED BY <3>1 DEF DeclarationOf, ParametersOf
  <2>5. CASE item.kind \in {"compound", "use"}
    <3>1. DeclaredBy(i)' = {}
      BY <1>1, <2>1, <2>5, NewItem
    <3> QED BY <3>1
  <2> QED BY <2>2, <2>3, <2>4, <2>5 DEF Items, Kinds
<1>5. Declarations' = Declarations \cup DeclaredBy(i)'
  BY <1>1, Grown
<1>6. Inside(Declarations', Open')
  <2>1. PICK N : N = DeclaredBy(i)'
    OBVIOUS
  <2>2. PICK D : D = Declarations
    OBVIOUS
  <2>3. PICK open : open = Open
    OBVIOUS
  <2>4. /\ i \in Nat /\ i \notin Here(open) /\ Inside(D, open)
        /\ \A d \in D : i \notin d.scope
    BY <2>2, <2>3, Fresh DEF Core
  <2>5. \A d \in N : d.scope = Here(open) \/ d.scope = Here(open) \cup {i}
    BY <1>3, <1>4, <2>1, <2>3
  <2>6. open \in Seq(SUBSET Nat) /\ open # <<>>
    BY <1>2, <2>3
  <2>7. /\ Inside(D \cup N, open)
        /\ Inside(D \cup N, Append(open, Here(open) \cup {i}))
    BY <2>4, <2>5, <2>6, InsideGrown
  <2>8. Declarations' = D \cup N
    BY <1>5, <2>1, <2>2
  <2>9. Open' = open \/ Open' = Append(open, Here(open) \cup {i})
    BY <2>3 DEF Pushes
  <2> QED BY <2>7, <2>8, <2>9
<1>7. \A d \in Declarations' : d.at <= i
  <2>1. \A d \in Declarations : d.at < i /\ d.at \in Nat
    <3>1. \A d \in Declarations : d.at < i /\ d.at \in DOMAIN unit
      BY <1>1, Fresh, DeclaredWhere
    <3> QED BY <1>1, <3>1, ShapeFacts
  <2>2. i \in Nat
    BY Fresh
  <2> QED BY <1>4, <1>5, <2>1, <2>2
<1> QED BY <1>3, <1>4, <1>5, <1>6, <1>7 DEF DeclaredHere

\* The uses item i makes are resolved.
NewUsesResolved(i) == \A u \in UsedBy(i)' : u.at = i /\ Resolved(u)'

\* Core after a visit follows from what the visit did to the table and to its uses.
LEMMA CoreGrown ==
  ASSUME Core, NEW item \in Items, item.path = nesting, unit' = Append(unit, item),
         NEW i, i = Len(unit) + 1, Pushes(i),
         Shape', Holds(table', Open', Declarations'),
         NewUsesResolved(i),
         ~(item.kind = "prototype" /\ item.storage = "static" /\ nesting # <<>>)
  PROVE  Core'
<1>1. nesting \in Seq(DOMAIN unit) /\ UnitOK
  BY DEF Core, Shape
<1>2. /\ DeclaredHere(i)
      /\ Inside(Declarations', Open')
      /\ Declarations' = Declarations \cup DeclaredBy(i)'
  BY ItemAdded
<1>3. /\ DOMAIN unit = 1 .. i - 1 /\ DOMAIN unit' = 1 .. i /\ i \in Nat \ {0}
      /\ unit'[i] = item /\ \A j \in 1 .. i - 1 : unit'[j] = unit[j]
      /\ Uses' = Uses \cup UsedBy(i)'
  BY <1>1, Grown
<1>4. ASSUME NEW u \in Uses PROVE u.at \in DOMAIN unit' /\ Resolved(u)'
  <2>1. u.at \in 1 .. i - 1 /\ Resolved(u)
    BY <1>3 DEF Core
  <2>2. PICK N : N = DeclaredBy(i)'
    OBVIOUS
  <2>3. PICK D : D = Declarations
    OBVIOUS
  <2>4. After(N, u.at)
    BY <1>2, <1>3, <2>1, <2>2 DEF DeclaredHere, After
  <2>5. Visible(D \cup N, u.name, u.at, u.scope) = Visible(D, u.name, u.at, u.scope)
    BY <2>4, SeenForGood
  <2>6. PICK d \in Visible(D, u.name, u.at, u.scope) : u.id = d.id
    BY <2>1, <2>3 DEF Resolved
  <2>7. Declarations' = D \cup N
    BY <1>2, <2>2, <2>3
  <2>8. d \in Visible(Declarations', u.name, u.at, u.scope)
    BY <2>5, <2>6, <2>7
  <2>9. Resolved(u)'
    BY <2>6, <2>8 DEF Resolved
  <2> QED BY <1>3, <2>1, <2>9
<1>5. ~LocalStaticFunction'
  <2> SUFFICES ASSUME NEW j \in 1 .. i
               PROVE  ~(/\ unit'[j].kind = "prototype" /\ unit'[j].storage = "static"
                        /\ unit'[j].path # <<>>)
    BY <1>3 DEF LocalStaticFunction
  <2>1. CASE j = i
    BY <1>3, <2>1
  <2>2. CASE j # i
    <3>1. j \in 1 .. i - 1
      BY <1>3, <2>2
    <3> QED BY <1>3, <3>1 DEF Core, LocalStaticFunction
  <2> QED BY <2>1, <2>2
<1>6. \A u \in Uses' : u.at \in DOMAIN unit' /\ Resolved(u)'
  BY <1>3, <1>4 DEF NewUsesResolved
<1> QED BY <1>2, <1>5, <1>6 DEF Core

-----------------------------------------------------------------------------
(* The actions.  Each visits one more item; if nothing is reported the     *)
(* invariant holds again, and if something is, C forbids the unit.         *)

\* Declarations that are not after a place.
UpTo(D, at) == \A d \in D : d.at <= at

\* Resolved, among the declarations D.
ResolvedIn(D, u) == \E d \in Visible(D, u.name, u.at, u.scope) : u.id = d.id

\* The visit of a name resolves the use, or the use sees no declaration.
LEMMA UseSeen ==
  ASSUME NEW t, NEW open, NEW D, Holds(t, open, D), Chain(open), Inside(D, open),
         NEW i, UpTo(D, i), NEW name \in Ident
  PROVE  LET v == VisitIdExpression(t, name)
             u == UseOf(i, name, Here(open), v.id)
         IN  /\ v.table = t /\ v.ok \in BOOLEAN /\ v.id \in Ids \cup {Nobody}
             /\ v.ok => ResolvedIn(D, u)
             /\ ~v.ok => Visible(D, u.name, u.at, u.scope) = {}
<1> DEFINE v == VisitIdExpression(t, name)
           u == UseOf(i, name, Here(open), v.id)
<1>1. u.name = name /\ u.at = i /\ u.scope = Here(open) /\ u.id = v.id
  BY DEF UseOf
<1>2. \A d \in D : d.at <= i
  BY DEF UpTo
<1>3. /\ v.ok => \E d \in Visible(D, name, i, Here(open)) : v.id = d.id
      /\ ~v.ok => Visible(D, name, i, Here(open)) = {}
  BY <1>2, SeenFromHere
<1>4. v.table = t /\ v.ok \in BOOLEAN /\ (~v.ok => v.id = Nobody)
  BY ExpressionVisited
<1>5. v.ok => v.id \in Ids
  <2>1. t \in Tables /\ NamesHold(t, D)
    BY DEF Holds
  <2>2. \A d \in Visible(D, name, i, Here(open)) : d \in D
    BY DEF Visible, Before
  <2> QED BY <1>3, <2>1, <2>2, IdsHeld
<1> HIDE DEF v, u
<1>6. v.ok => ResolvedIn(D, u)
  BY <1>1, <1>3 DEF ResolvedIn
<1>7. ~v.ok => Visible(D, u.name, u.at, u.scope) = {}
  BY <1>1, <1>3
<1> QED BY <1>4, <1>5, <1>6, <1>7 DEF v, u

\* A use that sees no declaration is an error of the unit.
LEMMA ForbiddenUse ==
  ASSUME NEW u \in Uses', Visible(Declarations', u.name, u.at, u.scope) = {}
  PROVE  Undeclared'
<1>1. VisibleAt(u.name, u.at, u.scope)' = {}
  BY DEF VisibleAt, Visible, Before
<1>2. Denoted(u)' = {}
  BY <1>1 DEF Denoted
<1> QED BY <1>2 DEF Undeclared

\* Two declarations that collide are an error of the unit.
LEMMA ForbiddenDeclaration ==
  ASSUME NEW d \in Declarations', NEW e \in Declarations', d # e, Collide(d, e)
  PROVE  Redeclared'
BY DEF Redeclared, Collide

\* An item stays one when the resolver fills in names.
LEMMA ItemsKept ==
  ASSUME NEW item \in Items, NEW s \in Ids \cup {Nobody}, NEW u \in Ids \cup {Nobody}
  PROVE  [item EXCEPT !.id = s, !.usedId = u] \in Items
BY DEF Items

\* The item of the visit, field by field.
ItemOf(kind, name, storage, initializer, parameters, id, ids, used, suppressed) ==
  [kind |-> kind, name |-> name, storage |-> storage, initializer |-> initializer,
   parameters |-> parameters, path |-> nesting,
   id |-> id, parameterIds |-> ids, usedId |-> used, suppressed |-> suppressed]

ItemIs(item, kind, name, storage, initializer, parameters, id, ids, used, suppressed) ==
  /\ item \in Items /\ item.path = nesting /\ item.kind = kind /\ item.name = name
  /\ item.storage = storage /\ item.initializer = initializer
  /\ item.parameters = parameters /\ item.id = id /\ item.parameterIds = ids
  /\ item.usedId = used /\ item.suppressed = suppressed

\* The item of the visit has the fields it is made of.
LEMMA ItemMade ==
  ASSUME Shape, NEW kind \in Kinds, NEW name \in Ident \cup {"none"},
         NEW storage \in Storages \cup {"none"}, NEW initializer \in Initializers \cup {"none"},
         NEW parameters \in Seq(Names), NEW id \in Ids \cup {Nobody}, NEW ids \in Seq(Ids),
         NEW used \in Ids \cup {Nobody}, NEW suppressed \in BOOLEAN
  PROVE  ItemIs(ItemOf(kind, name, storage, initializer, parameters, id, ids, used, suppressed),
                kind, name, storage, initializer, parameters, id, ids, used, suppressed)
<1>1. nesting \in Seq(Nat)
  BY ShapeFacts DEF Shape
<1> QED BY <1>1 DEF ItemOf, ItemIs, Items

\* What each visit does: it keeps the invariant or reports an error the unit has.
Sound == /\ rejected' \in BOOLEAN
         /\ ~rejected' => Core'
         /\ rejected' => ScopeErrors'

\* Visiting a use of a name.
LEMMA UseKeeps ==
  ASSUME Core, NEW name \in Ident, VisitUse(name)
  PROVE  Sound
<1>v. PICK v : v = VisitIdExpression(table, name)
  OBVIOUS
<1>i. PICK item : item = [Item("use", name, "none", "none", <<>>) EXCEPT !.usedId = v.id]
  OBVIOUS
<1>n. PICK i : i = Len(unit) + 1
  OBVIOUS
<1>1. /\ unit' = Append(unit, item) /\ rejected' = ~v.ok
      /\ table' = table /\ nesting' = nesting /\ suppress' = suppress
  BY <1>v, <1>i DEF VisitUse, Record
<1>2. /\ Shape /\ Holds(table, Open, Declarations) /\ Inside(Declarations, Open)
      /\ UnitOK /\ nesting \in Seq(DOMAIN unit)
  BY DEF Core, Shape
<1>3. Chain(Open) /\ Here(Open) = ScopeWithin(nesting)
  BY <1>2, ShapeOpens DEF OpenFits
<1>u. PICK u : u = UseOf(i, name, Here(Open), v.id)
  OBVIOUS
<1>4. /\ v.ok \in BOOLEAN /\ v.id \in Ids \cup {Nobody}
      /\ v.ok => ResolvedIn(Declarations, u)
      /\ ~v.ok => Visible(Declarations, u.name, u.at, u.scope) = {}
  <2>1. UpTo(Declarations, i)
    <3>1. \A d \in Declarations : d.at < i /\ d.at \in DOMAIN unit
      BY <1>2, <1>n, Fresh, DeclaredWhere
    <3> QED BY <1>2, <1>n, <3>1, ShapeFacts DEF UpTo
  <2> QED BY <1>v, <1>u, <1>2, <1>3, <2>1, UseSeen
<1>5. /\ item \in Items /\ item.path = nesting /\ item.kind = "use"
      /\ item.name = name /\ item.usedId = v.id
  <2>1. item = ItemOf("use", name, "none", "none", <<>>, Nobody, <<>>, v.id, FALSE)
    BY <1>i DEF Item, ItemOf
  <2>2. "use" \in Kinds /\ <<>> \in Seq(Names) /\ <<>> \in Seq(Ids)
    BY DEF Kinds
  <2>3. /\ name \in Ident \cup {"none"} /\ "none" \in Storages \cup {"none"}
        /\ "none" \in Initializers \cup {"none"} /\ Nobody \in Ids \cup {Nobody}
        /\ FALSE \in BOOLEAN
    OBVIOUS
  <2>4. Shape
    BY <1>2
  <2> HIDE DEF Kinds
  <2>5. ItemIs(item, "use", name, "none", "none", <<>>, Nobody, <<>>, v.id, FALSE)
    BY <1>4, <2>1, <2>2, <2>3, <2>4, ItemMade
  <2> QED BY <2>5 DEF ItemIs
<1>6. Shape' /\ Open' = Open /\ Pushes(i)
  BY <1>1, <1>2, <1>5, Kept DEF Pushes
<1>7. DeclaredBy(i)' = {} /\ UsedBy(i)' = {u}
  BY <1>1, <1>2, <1>3, <1>5, <1>n, <1>u, NewItem
<1>8. Declarations' = Declarations /\ Uses' = Uses \cup {u}
  BY <1>1, <1>2, <1>5, <1>7, <1>n, Grown
<1>9. v.ok => Core'
  <2> SUFFICES ASSUME v.ok PROVE Core'
    OBVIOUS
  <2>1. Resolved(u)'
    BY <1>4, <1>8 DEF Resolved, ResolvedIn
  <2>2. NewUsesResolved(i)
    BY <1>7, <1>u, <2>1 DEF NewUsesResolved, UseOf
  <2>3. Holds(table', Open', Declarations')
    BY <1>1, <1>2, <1>6, <1>8
  <2> QED BY <1>1, <1>5, <1>6, <1>n, <2>2, <2>3, CoreGrown
<1>10. ~v.ok => ScopeErrors'
  BY <1>4, <1>8, ForbiddenUse DEF ScopeErrors
<1> QED BY <1>1, <1>4, <1>9, <1>10 DEF Sound

-----------------------------------------------------------------------------
\* Variables, in a for header or not, and their initializers.

\* What visiting a declarator returns is a record of three fields.
LEMMA DeclaratorFields ==
  ASSUME NEW t, NEW name, NEW storage
  PROVE  LET v == VisitIdentifierDeclarator(t, name, storage)
         IN  v = [table |-> v.table, id |-> v.id, ok |-> v.ok]
BY DEF VisitIdentifierDeclarator

\* What visiting a name returns is a unique name or none.
LEMMA UsedId ==
  ASSUME NEW t, NEW open, NEW D, Holds(t, open, D), NEW name \in Ident
  PROVE  VisitIdExpression(t, name).id \in Ids \cup {Nobody}
<1> DEFINE v == VisitIdExpression(t, name)
<1>1. v.ok \in BOOLEAN
  BY ExpressionVisited
<1>2. ~v.ok => v.id = Nobody
  BY ExpressionVisited
<1>3. ASSUME v.ok PROVE v.id \in Ids
  <2>1. \E k \in 1 .. Len(open) : \E d \in D :
          /\ d.name = name /\ d.scope = open[k] /\ v.id = d.id
          /\ \A j \in 1 .. Len(open) : \A e \in D : e.name = name /\ e.scope = open[j] => j <= k
    BY <1>3, ExpressionVisited
  <2>2. PICK d \in D : v.id = d.id
    BY <2>1
  <2>3. t \in Tables /\ NamesHold(t, D)
    BY DEF Holds
  <2> QED BY <2>2, <2>3, IdsHeld
<1> QED BY <1>1, <1>2, <1>3

\* The outcome of visiting a declarator.
IsDeclared(declared, open, D) ==
  /\ declared = [table |-> declared.table, id |-> declared.id, ok |-> declared.ok]
  /\ declared.ok \in BOOLEAN
  /\ declared.ok => Holds(declared.table, open, D)

\* Visiting an initializer leaves the table and keeps an earlier error.
LEMMA InitializerFields ==
  ASSUME NEW declared, NEW open, NEW D, IsDeclared(declared, open, D), NEW initializer
  PROVE  LET v == VisitInitializer(declared, initializer)
         IN  /\ v.ok \in BOOLEAN /\ v.id \in Ids \cup {Nobody}
             /\ v.ok => declared.ok /\ v.table = declared.table
             /\ declared.ok /\ ~v.ok => initializer \in Names
<1> DEFINE v == VisitInitializer(declared, initializer)
           e == VisitIdExpression(declared.table, initializer)
<1>1. CASE declared.ok /\ initializer \in Names
  <2>1. v = e
    BY <1>1 DEF VisitInitializer
  <2>2. initializer \in Ident /\ Holds(declared.table, open, D)
    BY <1>1 DEF Ident, IsDeclared
  <2>3. e.id \in Ids \cup {Nobody} /\ e.table = declared.table /\ e.ok \in BOOLEAN
    BY <2>2, UsedId, ExpressionVisited
  <2> QED BY <1>1, <2>1, <2>3
<1>2. CASE ~(declared.ok /\ initializer \in Names)
  <2>1. v = [declared EXCEPT !.id = Nobody]
    BY <1>2 DEF VisitInitializer
  <2>2. v.table = declared.table /\ v.ok = declared.ok /\ v.id = Nobody
    BY <2>1 DEF IsDeclared
  <2> QED BY <1>2, <2>2 DEF IsDeclared
<1> QED BY <1>1, <1>2

\* The name in an initializer is resolved among the declarations up to its own.
LEMMA InitializerSeen ==
  ASSUME NEW declared, NEW open, NEW D, IsDeclared(declared, open, D), Chain(open),
         Inside(D, open), NEW i, UpTo(D, i), NEW initializer \in Names, declared.ok
  PROVE  LET v == VisitInitializer(declared, initializer)
             u == UseOf(i, initializer, Here(open), v.id)
         IN  /\ v.ok => ResolvedIn(D, u)
             /\ ~v.ok => Visible(D, u.name, u.at, u.scope) = {}
<1>1. VisitInitializer(declared, initializer) = VisitIdExpression(declared.table, initializer)
  BY DEF VisitInitializer
<1>2. initializer \in Ident /\ Holds(declared.table, open, D)
  BY DEF Ident, IsDeclared
<1> QED BY <1>1, <1>2, UseSeen

\* An item with a declarator and its initializer, in whatever scope it declares.
LEMMA DeclaringItem ==
  ASSUME Core, NEW item \in Items, item.path = nesting, unit' = Append(unit, item),
         NEW i, i = Len(unit) + 1, Pushes(i), Shape', item.kind \in {"variable", "for"},
         NEW d, DeclaredBy(i)' = {d},
         UsedBy(i)' = IF item.initializer \in Names
                      THEN {UseOf(i, item.initializer, Here(Open'), item.usedId)} ELSE {},
         NEW declared, IsDeclared(declared, Open', Declarations \cup {d}),
         ~declared.ok => \E e \in Declarations : Collide(e, d),
         NEW v, v = VisitInitializer(declared, item.initializer),
         item.usedId = v.id, table' = v.table, rejected' = ~v.ok
  PROVE  Sound
<1>1. /\ DeclaredHere(i) /\ Inside(Declarations', Open')
      /\ UpTo(Declarations', i) /\ Declarations' = Declarations \cup {d}
  BY ItemAdded DEF UpTo
<1>2. Uses' = Uses \cup UsedBy(i)'
  BY Grown DEF Core, Shape
<1>3. Chain(Open')
  BY NextOpens DEF OpenFits
<1>4. /\ v.ok \in BOOLEAN
      /\ v.ok => declared.ok /\ v.table = declared.table
      /\ declared.ok /\ ~v.ok => item.initializer \in Names
  BY InitializerFields
<1>u. PICK u : u = UseOf(i, item.initializer, Here(Open'), v.id)
  OBVIOUS
<1>5. ASSUME item.initializer \in Names, declared.ok
      PROVE  /\ v.ok => ResolvedIn(Declarations', u)
             /\ ~v.ok => Visible(Declarations', u.name, u.at, u.scope) = {}
  <2>1. PICK D : D = Declarations'
    OBVIOUS
  <2>2. PICK open : open = Open'
    OBVIOUS
  <2>3. /\ IsDeclared(declared, open, D) /\ Chain(open) /\ Inside(D, open) /\ UpTo(D, i)
        /\ u = UseOf(i, item.initializer, Here(open), v.id)
    BY <1>1, <1>3, <1>u, <2>1, <2>2
  <2>4. PICK initializer \in Names : initializer = item.initializer
    BY <1>5
  <2>5. /\ v.ok => ResolvedIn(D, u)
        /\ ~v.ok => Visible(D, u.name, u.at, u.scope) = {}
    BY <1>5, <2>3, <2>4, InitializerSeen
  <2> QED BY <2>1, <2>5
<1>6. ASSUME v.ok PROVE Core'
  <2>1. Holds(table', Open', Declarations')
    BY <1>1, <1>4, <1>6 DEF IsDeclared
  <2>2. ASSUME item.initializer \in Names PROVE u.at = i /\ Resolved(u)'
    <3>1. ResolvedIn(Declarations', u)
      BY <1>4, <1>5, <1>6, <2>2
    <3> QED BY <1>u, <3>1 DEF Resolved, ResolvedIn, UseOf
  <2>3. NewUsesResolved(i)
    BY <1>u, <2>2 DEF NewUsesResolved
  <2> QED BY <2>1, <2>3, CoreGrown
<1>7. ASSUME ~v.ok PROVE ScopeErrors'
  <2>1. CASE declared.ok
    <3>1. item.initializer \in Names
      BY <1>4, <1>7, <2>1
    <3>2. u \in Uses'
      BY <1>2, <1>u, <3>1
    <3> QED BY <1>5, <1>7, <2>1, <3>1, <3>2, ForbiddenUse DEF ScopeErrors
  <2>2. CASE ~declared.ok
    <3>1. PICK e \in Declarations : Collide(e, d)
      BY <2>2
    <3>2. d.at = i /\ e.at < i /\ i \in Nat
      BY <1>1, Fresh DEF DeclaredHere
    <3>3. e # d
      BY <3>2
    <3> QED BY <1>1, <3>1, <3>3, ForbiddenDeclaration DEF ScopeErrors
  <2> QED BY <2>1, <2>2 DEF IsDeclared
<1> QED BY <1>4, <1>6, <1>7 DEF Sound

\* Visiting a declaration of an object.
LEMMA VariableKeeps ==
  ASSUME Core, NEW name \in Names, NEW storage \in Storages, NEW initializer \in Initializers,
         VisitVariable(name, storage, initializer)
  PROVE  Sound
<1>r. PICK declared : declared = VisitIdentifierDeclarator(table, name, storage)
  OBVIOUS
<1>v. PICK v : v = VisitInitializer(declared, initializer)
  OBVIOUS
<1>i. PICK item : item = [Item("variable", name, storage, initializer, <<>>)
                            EXCEPT !.id = declared.id, !.usedId = v.id]
  OBVIOUS
<1>n. PICK i : i = Len(unit) + 1
  OBVIOUS
<1>1. /\ unit' = Append(unit, item) /\ rejected' = ~v.ok
      /\ table' = v.table /\ nesting' = nesting /\ suppress' = suppress
  BY <1>r, <1>v, <1>i DEF VisitVariable, Record
<1>2. /\ Shape /\ Holds(table, Open, Declarations)
      /\ UnitOK /\ nesting \in Seq(DOMAIN unit)
  BY DEF Core, Shape
<1>3. Here(Open) = ScopeWithin(nesting) /\ (Here(Open) = {} <=> Len(Open) = 1)
  BY <1>2, ShapeOpens DEF OpenFits
<1>d. PICK d : d = DeclarationOf(i, name, Here(Open), Len(Open) = 1 \/ storage = "extern", 0, declared.id)
  OBVIOUS
<1>4. /\ declared.ok \in BOOLEAN /\ declared.id \in Ids
      /\ declared.ok => Holds(declared.table, Open, Declarations \cup {d})
      /\ ~declared.ok => \E e \in Declarations : Collide(e, d)
  <2>1. NotThere(Declarations, i, 0)
    BY <1>n, Fresh DEF NotThere
  <2>2. name \in Ident
    BY DEF Ident
  <2> QED BY <1>2, <1>r, <1>d, <2>1, <2>2, DeclaratorVisited
<1>5. IsDeclared(declared, Open, Declarations \cup {d})
  BY <1>r, <1>4, DeclaratorFields DEF IsDeclared
<1>6. v.id \in Ids \cup {Nobody}
  BY <1>v, <1>5, InitializerFields
<1>7. ItemIs(item, "variable", name, storage, initializer, <<>>, declared.id, <<>>, v.id, FALSE)
  <2>1. item = ItemOf("variable", name, storage, initializer, <<>>, declared.id, <<>>, v.id, FALSE)
    BY <1>i DEF Item, ItemOf
  <2>2. /\ "variable" \in Kinds /\ <<>> \in Seq(Names) /\ <<>> \in Seq(Ids)
        /\ name \in Ident \cup {"none"} /\ storage \in Storages \cup {"none"}
        /\ initializer \in Initializers \cup {"none"} /\ declared.id \in Ids \cup {Nobody}
        /\ FALSE \in BOOLEAN
    BY <1>4 DEF Kinds, Ident
  <2> QED BY <1>2, <1>6, <2>1, <2>2, ItemMade
<1>8. Shape' /\ Open' = Open /\ Pushes(i)
  BY <1>1, <1>2, <1>7, Kept DEF Pushes, ItemIs
<1>9. /\ DeclaredBy(i)' = {d}
      /\ UsedBy(i)' = IF initializer \in Names
                      THEN {UseOf(i, initializer, Here(Open), v.id)} ELSE {}
  <2>1. (Here(Open) = {} \/ storage = "extern") = (Len(Open) = 1 \/ storage = "extern")
    BY <1>3
  <2>2. /\ item \in Items /\ item.path = nesting /\ item.kind = "variable" /\ item.name = name
        /\ item.storage = storage /\ item.initializer = initializer
        /\ item.id = declared.id /\ item.usedId = v.id
    BY <1>7 DEF ItemIs
  <2>3. /\ DeclaredBy(i)' = {DeclarationOf(i, item.name, Here(Open),
                               Here(Open) = {} \/ item.storage = "extern", 0, item.id)}
        /\ UsedBy(i)' = IF item.initializer \in Names
                        THEN {UseOf(i, item.initializer, Here(Open), item.usedId)} ELSE {}
    BY <1>1, <1>2, <1>3, <1>n, <2>2, NewItem
  <2> QED BY <1>d, <2>1, <2>2, <2>3
<1>10. item.initializer = initializer /\ item.usedId = v.id /\ item \in Items
       /\ item.path = nesting /\ item.kind = "variable"
  BY <1>7 DEF ItemIs
<1>11. IsDeclared(declared, Open', Declarations \cup {d})
  BY <1>5, <1>8
<1>12. UsedBy(i)' = IF item.initializer \in Names
                    THEN {UseOf(i, item.initializer, Here(Open'), item.usedId)} ELSE {}
  BY <1>8, <1>9, <1>10
<1>13. v = VisitInitializer(declared, item.initializer)
  BY <1>v, <1>10
<1> QED BY <1>1, <1>4, <1>8, <1>9, <1>10, <1>11, <1>12, <1>13, <1>n, DeclaringItem

\* Visiting a for statement with its declaration, in the scope it opens.
LEMMA ForKeeps ==
  ASSUME Core, NEW name \in Names, NEW storage \in Storages, NEW initializer \in Initializers,
         VisitFor(name, storage, initializer)
  PROVE  Sound
<1>r. PICK declared : declared = VisitIdentifierDeclarator(EnterScope(table), name, storage)
  OBVIOUS
<1>v. PICK v : v = VisitInitializer(declared, initializer)
  OBVIOUS
<1>i. PICK item : item = [Item("for", name, storage, initializer, <<>>)
                            EXCEPT !.id = declared.id, !.usedId = v.id]
  OBVIOUS
<1>n. PICK i : i = Len(unit) + 1
  OBVIOUS
<1>1. /\ unit' = Append(unit, item) /\ rejected' = ~v.ok
      /\ table' = v.table /\ nesting' = Append(nesting, i) /\ suppress' = suppress
      /\ nesting # <<>> /\ Innermost = "compound"
  BY <1>r, <1>v, <1>i, <1>n DEF VisitFor, Record, InStatement
<1>2. /\ Shape /\ Holds(table, Open, Declarations)
      /\ UnitOK /\ nesting \in Seq(DOMAIN unit)
  BY DEF Core, Shape
<1>3. Here(Open) = ScopeWithin(nesting) /\ Open \in Seq(SUBSET Nat) /\ Open # <<>>
  BY <1>2, ShapeOpens DEF OpenFits
<1>s. PICK s : s = Here(Open) \cup {i}
  OBVIOUS
<1>o. PICK open : open = Append(Open, s)
  OBVIOUS
<1>4. Holds(EnterScope(table), open, Declarations) /\ Here(open) = s /\ Len(open) = Len(Open) + 1
      /\ Len(open) # 1
  <2>1. /\ s \in SUBSET Nat
        /\ NewScope(Open, Declarations, s)
    BY <1>n, <1>s, Fresh DEF NewScope
  <2>2. /\ Holds(EnterScope(table), open, Declarations) /\ Here(open) = s
        /\ Len(open) = Len(Open) + 1
    BY <1>2, <1>o, <2>1, Entered
  <2> QED BY <1>3, <2>2
<1>d. PICK d : d = DeclarationOf(i, name, s, storage = "extern", 0, declared.id)
  OBVIOUS
<1>5. /\ declared.ok \in BOOLEAN /\ declared.id \in Ids
      /\ declared.ok => Holds(declared.table, open, Declarations \cup {d})
      /\ ~declared.ok => \E e \in Declarations : Collide(e, d)
  <2>1. NotThere(Declarations, i, 0)
    BY <1>n, Fresh DEF NotThere
  <2>2. name \in Ident
    BY DEF Ident
  <2>3. (Len(open) = 1 \/ storage = "extern") = (storage = "extern")
    BY <1>4
  <2>4. d = DeclarationOf(i, name, Here(open), Len(open) = 1 \/ storage = "extern", 0, declared.id)
    BY <1>4, <1>d, <2>3
  <2> QED BY <1>4, <1>r, <2>1, <2>2, <2>4, DeclaratorVisited
<1>6. IsDeclared(declared, open, Declarations \cup {d})
  BY <1>r, <1>5, DeclaratorFields DEF IsDeclared
<1>7. v.id \in Ids \cup {Nobody}
  BY <1>v, <1>6, InitializerFields
<1>8. ItemIs(item, "for", name, storage, initializer, <<>>, declared.id, <<>>, v.id, FALSE)
  <2>1. item = ItemOf("for", name, storage, initializer, <<>>, declared.id, <<>>, v.id, FALSE)
    BY <1>i DEF Item, ItemOf
  <2>2. /\ "for" \in Kinds /\ <<>> \in Seq(Names) /\ <<>> \in Seq(Ids)
        /\ name \in Ident \cup {"none"} /\ storage \in Storages \cup {"none"}
        /\ initializer \in Initializers \cup {"none"} /\ declared.id \in Ids \cup {Nobody}
        /\ FALSE \in BOOLEAN
    BY <1>5 DEF Kinds, Ident
  <2> QED BY <1>2, <1>7, <2>1, <2>2, ItemMade
<1>9. /\ item \in Items /\ item.path = nesting /\ item.kind = "for" /\ item.name = name
      /\ item.storage = storage /\ item.initializer = initializer
      /\ item.id = declared.id /\ item.usedId = v.id
  BY <1>8 DEF ItemIs
<1>10. Len(nesting) # 0 /\ Len(nesting) # 1 /\ suppress' = FALSE
  <2>1. Len(nesting) \in Nat /\ Len(nesting) # 0
    BY <1>1, <1>2
  <2>2. Len(nesting) # 1
    <3> SUFFICES ASSUME Len(nesting) = 1 PROVE FALSE
      OBVIOUS
    <3>1. unit[nesting[1]].kind = "function"
      <4>1. 1 \in DOMAIN nesting
        BY <1>2, ShapeFacts
      <4> QED BY <1>2, <4>1 DEF Shape, Encloses
    <3> QED BY <1>1, <3>1 DEF Innermost, Last
  <2>3. suppress \in BOOLEAN /\ (suppress <=> Len(nesting) = 1)
    BY <1>2 DEF Shape
  <2>4. suppress = FALSE
    BY <2>2, <2>3
  <2> QED BY <1>1, <2>1, <2>2, <2>4
<1>11. Encloser(item)
  <2> QED BY <1>1, <1>9, <1>10 DEF Encloser
<1>12. Shape' /\ Open' = open /\ Pushes(i)
  BY <1>1, <1>2, <1>9, <1>10, <1>11, <1>n, <1>o, <1>s, Pushed DEF Pushes
<1>13. /\ DeclaredBy(i)' = {d}
       /\ UsedBy(i)' = IF initializer \in Names
                       THEN {UseOf(i, initializer, s, v.id)} ELSE {}
  <2>3. /\ DeclaredBy(i)' = {DeclarationOf(i, item.name, s, item.storage = "extern", 0, item.id)}
        /\ UsedBy(i)' = IF item.initializer \in Names
                        THEN {UseOf(i, item.initializer, s, item.usedId)} ELSE {}
    <3>1. s = ScopeWithin(nesting) \cup {i}
      BY <1>3, <1>s
    <3>2. unit' = Append(unit, item)
      BY <1>1
    <3> QED BY <1>2, <1>n, <1>9, <3>1, <3>2, NewItem
  <2> QED BY <1>d, <1>9, <2>3
<1>14. IsDeclared(declared, Open', Declarations \cup {d})
  BY <1>6, <1>12
<1>15. UsedBy(i)' = IF item.initializer \in Names
                    THEN {UseOf(i, item.initializer, Here(Open'), item.usedId)} ELSE {}
  BY <1>4, <1>9, <1>12, <1>13
<1>16. v = VisitInitializer(declared, item.initializer)
  BY <1>v, <1>9
<1> QED BY <1>1, <1>5, <1>9, <1>12, <1>13, <1>14, <1>15, <1>16, <1>n, DeclaringItem

-----------------------------------------------------------------------------
\* Functions and their parameters.

\* The scope of a function's parameters.
Enters(i, s, open) == s = Here(Open) \cup {i} /\ open = Append(Open, s)

\* The outcome of visiting a function's declarator and its parameters.
Outcome(declared, v, d, i, s, open, parameters) ==
  /\ declared.ok \in BOOLEAN
  /\ ~declared.ok => declared.table = table /\ \E e \in Declarations : Collide(e, d)
  /\ declared.ok =>
       /\ v.ok \in BOOLEAN /\ v.ids \in Seq(Ids) /\ Len(v.ids) = Len(parameters)
       /\ ~v.ok => Repeated(parameters)
       /\ v.ok => Holds(v.table, open, (Declarations \cup {d})
                    \cup ParametersDeclared(i, parameters, s, v.ids, Len(parameters)))
  /\ Len(open) > 1

\* Visiting a function's declarator and its parameters.
LEMMA FunctionVisited ==
  ASSUME Core, NEW i, i = Len(unit) + 1, NEW name \in Ident, NEW parameters \in Seq(Names),
         NEW s, NEW open, Enters(i, s, open),
         NEW declared, declared = DeclareFunction(table, name),
         NEW v, v = VisitParameters(EnterScope(declared.table), parameters),
         NEW d, d = DeclarationOf(i, name, Here(Open), TRUE, 0, <<name>>)
  PROVE  Outcome(declared, v, d, i, s, open, parameters)
<1>1. Shape /\ Holds(table, Open, Declarations)
  BY DEF Core
<1>2. /\ declared.ok \in BOOLEAN
      /\ declared.ok => Holds(declared.table, Open, Declarations \cup {d})
      /\ ~declared.ok => declared.table = table /\ \E e \in Declarations : Collide(e, d)
  BY <1>1, FunctionDeclared
<1>3. /\ s \in SUBSET Nat /\ i \in Nat
      /\ \A k \in 1 .. Len(Open) : Open[k] # s
      /\ \A e \in Declarations : e.scope # s /\ e.at # i
      /\ i \notin Here(Open)
  BY Fresh DEF Enters
<1>4. Len(open) > 1
  <2>1. Open \in Seq(SUBSET Nat) /\ Open # <<>>
    BY <1>1, ShapeOpens DEF OpenFits
  <2> QED BY <1>3, <2>1 DEF Enters
<1>5. ASSUME declared.ok
      PROVE  /\ v.ok \in BOOLEAN /\ v.ids \in Seq(Ids) /\ Len(v.ids) = Len(parameters)
             /\ ~v.ok => Repeated(parameters)
             /\ v.ok => Holds(v.table, open, (Declarations \cup {d})
                          \cup ParametersDeclared(i, parameters, s, v.ids, Len(parameters)))
  <2>1. PICK D : D = Declarations \cup {d}
    OBVIOUS
  <2>2. d.scope = Here(Open) /\ d.index = 0
    BY DEF DeclarationOf
  <2>3. \A e \in D : e.scope # s
    BY <1>3, <2>1, <2>2 DEF Enters
  <2>4. Holds(declared.table, Open, D)
    BY <1>2, <1>5, <2>1
  <2>5. /\ Holds(EnterScope(declared.table), open, D)
        /\ Here(open) = s
    <3>1. NewScope(Open, D, s)
      BY <1>3, <2>3 DEF NewScope
    <3>2. PICK t : t = declared.table
      OBVIOUS
    <3>3. s \in SUBSET Nat /\ Holds(t, Open, D)
      BY <1>3, <2>4, <3>2
    <3>4. Holds(EnterScope(t), Append(Open, s), D) /\ Here(Append(Open, s)) = s
      BY <3>1, <3>3, Entered
    <3> QED BY <3>2, <3>4 DEF Enters
  <2>6. NoParameters(D, i, Here(open))
    BY <1>3, <2>1, <2>2, <2>3, <2>5 DEF NoParameters
  <2>7. /\ v.ok \in BOOLEAN /\ v.ids \in Seq(Ids) /\ Len(v.ids) = Len(parameters)
        /\ v.ok => Holds(v.table, open,
                         D \cup ParametersDeclared(i, parameters, Here(open), v.ids, Len(parameters)))
        /\ ~v.ok => Repeated(parameters)
    BY <1>4, <2>5, <2>6, ParametersVisited
  <2> QED BY <2>1, <2>5, <2>7
<1> QED BY <1>2, <1>4, <1>5 DEF Outcome

\* The declarations of a function or a prototype.
LEMMA FunctionItem ==
  ASSUME Core, NEW item \in Items, item.path = nesting, unit' = Append(unit, item),
         NEW i, i = Len(unit) + 1, item.kind \in {"function", "prototype"}
  PROVE  /\ DeclaredBy(i)' = {DeclarationOf(i, item.name, Here(Open), TRUE, 0, item.id)}
                             \cup ParametersOf(i, item, Here(Open) \cup {i})
         /\ UsedBy(i)' = {}
         /\ Declarations' = Declarations \cup DeclaredBy(i)'
<1>1. nesting \in Seq(DOMAIN unit) /\ UnitOK /\ Shape
  BY DEF Core, Shape
<1>2. Here(Open) = ScopeWithin(nesting)
  BY <1>1, ShapeOpens DEF OpenFits
<1>3. /\ DeclaredBy(i)' = {DeclarationOf(i, item.name, ScopeWithin(nesting), TRUE, 0, item.id)}
                          \cup ParametersOf(i, item, ScopeWithin(nesting) \cup {i})
      /\ UsedBy(i)' = {}
  BY <1>1, NewItem
<1>4. Declarations' = Declarations \cup DeclaredBy(i)'
  BY <1>1, Grown
<1> QED BY <1>2, <1>3, <1>4

\* The declarations of the parameters that were all visited.
LEMMA ParametersAre ==
  ASSUME NEW i, NEW item, NEW scope, item.parameters \in Seq(Names),
         Len(item.parameterIds) = Len(item.parameters)
  PROVE  ParametersOf(i, item, scope)
           = ParametersDeclared(i, item.parameters, scope, item.parameterIds, Len(item.parameters))
<1>1. \A k \in DOMAIN item.parameters : k <= Len(item.parameterIds)
  OBVIOUS
<1>2. DOMAIN item.parameters = 1 .. Len(item.parameters)
  OBVIOUS
<1> QED BY <1>1, <1>2 DEF ParametersOf, ParametersDeclared

\* A repeated parameter is an error of the unit.
LEMMA ForbiddenParameters ==
  ASSUME Core, NEW item \in Items, item.path = nesting, unit' = Append(unit, item),
         NEW i, i = Len(unit) + 1, item.kind \in {"function", "prototype"},
         Repeated(item.parameters)
  PROVE  ScopeErrors'
<1>1. PICK j, k \in DOMAIN item.parameters : j # k /\ item.parameters[j] = item.parameters[k]
  BY DEF Repeated
<1> DEFINE P(l) == DeclarationOf(i, item.parameters[l], Here(Open) \cup {i}, FALSE, l,
                     IF l <= Len(item.parameterIds) THEN item.parameterIds[l] ELSE Nobody)
<1>2. P(j) \in ParametersOf(i, item, Here(Open) \cup {i}) /\ P(k) \in ParametersOf(i, item, Here(Open) \cup {i})
  BY DEF ParametersOf
<1>3. P(j) \in Declarations' /\ P(k) \in Declarations'
  <2> HIDE DEF P
  <2> QED BY <1>2, FunctionItem, ZenonT(60)
<1>4. P(j) # P(k) /\ Collide(P(j), P(k))
  <2>1. P(j).index = j /\ P(k).index = k
    BY DEF DeclarationOf
  <2>2. Collide(P(j), P(k))
    BY <1>1 DEF DeclarationOf, Collide
  <2> QED BY <1>1, <2>1, <2>2
<1> HIDE DEF P
<1> QED BY <1>3, <1>4, ForbiddenDeclaration DEF ScopeErrors

\* A function's name that collides is an error of the unit.
LEMMA ForbiddenFunction ==
  ASSUME Core, NEW item \in Items, item.path = nesting, unit' = Append(unit, item),
         NEW i, i = Len(unit) + 1, item.kind \in {"function", "prototype"},
         NEW d, d = DeclarationOf(i, item.name, Here(Open), TRUE, 0, <<item.name>>),
         NEW e \in Declarations, Collide(e, d)
  PROVE  ScopeErrors'
<1>d. PICK x : x = DeclarationOf(i, item.name, Here(Open), TRUE, 0, item.id)
  OBVIOUS
<1>1. x \in Declarations' /\ e \in Declarations'
  BY <1>d, FunctionItem, ZenonT(60)
<1>2. x.at = i /\ e.at # i
  BY <1>d, Fresh DEF DeclarationOf
<1>3. Collide(e, x)
  BY <1>d DEF Collide, DeclarationOf
<1> QED BY <1>1, <1>2, <1>3, ForbiddenDeclaration DEF ScopeErrors

\* The item of a function, field by field.
LEMMA FunctionFields ==
  ASSUME NEW kind, NEW name, NEW storage, NEW parameters, NEW id, NEW ids, NEW item,
         item = [Item(kind, name, storage, "none", parameters) EXCEPT !.id = id, !.parameterIds = ids]
  PROVE  item = ItemOf(kind, name, storage, "none", parameters, id, ids, Nobody, FALSE)
BY DEF Item, ItemOf

\* The items of functions and prototypes are items.
LEMMA FunctionIs ==
  ASSUME Shape, NEW kind \in {"function", "prototype"}, NEW name \in Ident,
         NEW storage \in Storages, NEW parameters \in Seq(Names), NEW ids \in Seq(Ids)
  PROVE  /\ ItemIs([Item(kind, name, storage, "none", parameters)
                      EXCEPT !.id = <<name>>, !.parameterIds = ids],
                   kind, name, storage, "none", parameters, <<name>>, ids, Nobody, FALSE)
         /\ ItemIs(Item(kind, name, storage, "none", parameters),
                   kind, name, storage, "none", parameters, Nobody, <<>>, Nobody, FALSE)
<1>1. [Item(kind, name, storage, "none", parameters) EXCEPT !.id = <<name>>, !.parameterIds = ids]
        = ItemOf(kind, name, storage, "none", parameters, <<name>>, ids, Nobody, FALSE)
  <2>1. \A a, b : [Item(kind, name, storage, "none", parameters) EXCEPT !.id = a, !.parameterIds = b]
                     = ItemOf(kind, name, storage, "none", parameters, a, b, Nobody, FALSE)
    BY FunctionFields
  <2> QED BY <2>1
<1>2. Item(kind, name, storage, "none", parameters)
        = ItemOf(kind, name, storage, "none", parameters, Nobody, <<>>, Nobody, FALSE)
  BY DEF Item, ItemOf
<1>3. /\ kind \in Kinds /\ <<>> \in Seq(Ids) /\ name \in Ident \cup {"none"}
      /\ storage \in Storages \cup {"none"} /\ "none" \in Initializers \cup {"none"}
      /\ <<name>> \in Ids \cup {Nobody} /\ Nobody \in Ids \cup {Nobody} /\ FALSE \in BOOLEAN
  BY DEF Kinds, Ids
<1>4. ItemIs(ItemOf(kind, name, storage, "none", parameters, <<name>>, ids, Nobody, FALSE),
             kind, name, storage, "none", parameters, <<name>>, ids, Nobody, FALSE)
  BY <1>3, ItemMade
<1>5. ItemIs(ItemOf(kind, name, storage, "none", parameters, Nobody, <<>>, Nobody, FALSE),
             kind, name, storage, "none", parameters, Nobody, <<>>, Nobody, FALSE)
  BY <1>3, ItemMade
<1> QED BY <1>1, <1>2, <1>4, <1>5

\* Core after a function or a prototype.
LEMMA FunctionAdded ==
  ASSUME Core, NEW item \in Items, item.path = nesting, unit' = Append(unit, item),
         NEW i, i = Len(unit) + 1, item.kind \in {"function", "prototype"},
         item.kind = "prototype" /\ item.storage = "static" => nesting = <<>>,
         Pushes(i), Shape', NEW D,
         D = (Declarations \cup {DeclarationOf(i, item.name, Here(Open), TRUE, 0, item.id)})
             \cup ParametersOf(i, item, Here(Open) \cup {i}),
         Holds(table', Open', D)
  PROVE  Core'
<1>1. Declarations' = D /\ UsedBy(i)' = {}
  BY FunctionItem
<1>2. NewUsesResolved(i)
  BY <1>1 DEF NewUsesResolved
<1>3. Holds(table', Open', Declarations')
  BY <1>1
<1>4. ~(item.kind = "prototype" /\ item.storage = "static" /\ nesting # <<>>)
  OBVIOUS
<1> QED BY <1>2, <1>3, <1>4, CoreGrown

\* Visiting a function definition, whose parameters' scope stays open for its body.
LEMMA FunctionKeeps ==
  ASSUME Core, NEW name \in FunctionNames, NEW storage \in Storages, NEW parameters \in Seq(Names),
         VisitFunctionDefinition(name, storage, parameters)
  PROVE  Sound
<1>r. PICK declared : declared = DeclareFunction(table, name)
  OBVIOUS
<1>v. PICK v : v = VisitParameters(EnterScope(declared.table), parameters)
  OBVIOUS
<1>n. PICK i : i = Len(unit) + 1
  OBVIOUS
<1>s. PICK s : s = Here(Open) \cup {i}
  OBVIOUS
<1>o. PICK open : open = Append(Open, s)
  OBVIOUS
<1>d. PICK d : d = DeclarationOf(i, name, Here(Open), TRUE, 0, <<name>>)
  OBVIOUS
<1>1. Shape /\ nesting = <<>> /\ name \in Ident
  BY DEF Core, VisitFunctionDefinition, Ident
<1>2. /\ declared.ok \in BOOLEAN
      /\ ~declared.ok => declared.table = table /\ \E e \in Declarations : Collide(e, d)
      /\ declared.ok =>
           /\ v.ok \in BOOLEAN /\ v.ids \in Seq(Ids) /\ Len(v.ids) = Len(parameters)
           /\ ~v.ok => Repeated(parameters)
           /\ v.ok => Holds(v.table, open, (Declarations \cup {d})
                        \cup ParametersDeclared(i, parameters, s, v.ids, Len(parameters)))
  <2>1. Enters(i, s, open)
    BY <1>s, <1>o DEF Enters
  <2>2. Outcome(declared, v, d, i, s, open, parameters)
    BY <1>1, <1>r, <1>v, <1>n, <1>d, <2>1, FunctionVisited
  <2> QED BY <2>2 DEF Outcome
<1>3. CASE declared.ok
  <2>i. PICK item : item = [Item("function", name, storage, "none", parameters)
                              EXCEPT !.id = <<name>>, !.parameterIds = v.ids]
    OBVIOUS
  <2>1. /\ table' = v.table /\ suppress' = TRUE /\ nesting' = Append(nesting, i)
        /\ unit' = Append(unit, item) /\ rejected' = ~v.ok
    BY <1>r, <1>v, <1>n, <1>3, <2>i DEF VisitFunctionDefinition, Record
  <2>2. ItemIs(item, "function", name, storage, "none", parameters, <<name>>, v.ids, Nobody, FALSE)
    BY <1>1, <1>2, <1>3, <2>i, FunctionIs
  <2>3. /\ item \in Items /\ item.path = nesting /\ item.kind = "function" /\ item.name = name
        /\ item.parameters = parameters /\ item.id = <<name>> /\ item.parameterIds = v.ids
    BY <2>2 DEF ItemIs
  <2>4. CASE v.ok
    <3>1. Encloser(item)
      <4>1. Len(nesting) = 0
        BY <1>1
      <4> QED BY <2>1, <2>3, <4>1 DEF Encloser
    <3>2. Shape' /\ Open' = open /\ Pushes(i)
      <4>1. Len(nesting) # 1
        BY <1>1
      <4>2. /\ Shape'
            /\ Open' = IF Len(nesting) = 1 THEN Open ELSE Append(Open, Here(Open) \cup {i})
        BY <1>1, <1>n, <2>1, <2>3, <3>1, Pushed
      <4> QED BY <1>s, <1>o, <4>1, <4>2 DEF Pushes
    <3>3. ParametersOf(i, item, s) = ParametersDeclared(i, parameters, s, v.ids, Len(parameters))
      BY <1>2, <1>3, <2>3, ParametersAre
    <3>4. Holds(table', Open', (Declarations \cup {DeclarationOf(i, item.name, Here(Open), TRUE, 0, item.id)})
                               \cup ParametersOf(i, item, Here(Open) \cup {i}))
      BY <1>2, <1>3, <1>s, <1>d, <2>1, <2>3, <2>4, <3>2, <3>3
    <3>5. Core'
      BY <1>n, <2>1, <2>3, <3>2, <3>4, FunctionAdded
    <3> QED BY <2>1, <2>4, <3>5 DEF Sound
  <2>5. CASE ~v.ok
    <3>1. Repeated(item.parameters)
      BY <1>2, <1>3, <2>3, <2>5
    <3>2. ScopeErrors'
      BY <1>n, <2>1, <2>3, <3>1, ForbiddenParameters
    <3> QED BY <2>1, <2>5, <3>2 DEF Sound
  <2> QED BY <2>4, <2>5
<1>4. CASE ~declared.ok
  <2>i. PICK item : item = Item("function", name, storage, "none", parameters)
    OBVIOUS
  <2>1. unit' = Append(unit, item) /\ rejected' = TRUE
    BY <1>r, <1>4, <2>i DEF VisitFunctionDefinition, Record
  <2>2. ItemIs(item, "function", name, storage, "none", parameters, Nobody, <<>>, Nobody, FALSE)
    <3>1. <<>> \in Seq(Ids)
      OBVIOUS
    <3> QED BY <1>1, <2>i, <3>1, FunctionIs
  <2>3. item \in Items /\ item.path = nesting /\ item.kind = "function" /\ item.name = name
    BY <2>2 DEF ItemIs
  <2>4. PICK e \in Declarations : Collide(e, d)
    BY <1>2, <1>4
  <2>5. ScopeErrors'
    BY <1>n, <1>d, <2>1, <2>3, <2>4, ForbiddenFunction
  <2> QED BY <2>1, <2>5 DEF Sound
<1> QED BY <1>3, <1>4

\* Visiting a prototype, whose parameters' scope is left at once.
LEMMA PrototypeKeeps ==
  ASSUME Core, NEW name \in FunctionNames, NEW storage \in Storages, NEW parameters \in Seq(Names),
         VisitPrototype(name, storage, parameters)
  PROVE  Sound
<1>r. PICK declared : declared = DeclareFunction(table, name)
  OBVIOUS
<1>v. PICK v : v = VisitParameters(EnterScope(declared.table), parameters)
  OBVIOUS
<1>a. PICK allowed : allowed = (storage = "static" => IsInFileScope(table))
  OBVIOUS
<1>n. PICK i : i = Len(unit) + 1
  OBVIOUS
<1>s. PICK s : s = Here(Open) \cup {i}
  OBVIOUS
<1>o. PICK open : open = Append(Open, s)
  OBVIOUS
<1>d. PICK d : d = DeclarationOf(i, name, Here(Open), TRUE, 0, <<name>>)
  OBVIOUS
<1>1. Shape /\ name \in Ident /\ Holds(table, Open, Declarations)
  BY DEF Core, Ident
<1>2. /\ declared.ok \in BOOLEAN
      /\ ~declared.ok => declared.table = table /\ \E e \in Declarations : Collide(e, d)
      /\ declared.ok =>
           /\ v.ok \in BOOLEAN /\ v.ids \in Seq(Ids) /\ Len(v.ids) = Len(parameters)
           /\ ~v.ok => Repeated(parameters)
           /\ v.ok => Holds(v.table, open, (Declarations \cup {d})
                        \cup ParametersDeclared(i, parameters, s, v.ids, Len(parameters)))
      /\ Len(open) > 1
  <2>1. Enters(i, s, open)
    BY <1>s, <1>o DEF Enters
  <2>2. Outcome(declared, v, d, i, s, open, parameters)
    BY <1>1, <1>r, <1>v, <1>n, <1>d, <2>1, FunctionVisited
  <2> QED BY <2>2 DEF Outcome
<1>3. IsInFileScope(table) <=> nesting = <<>>
  <2>1. Len(table.scopes) = Len(Open)
    BY <1>1, OpenFacts
  <2>2. Len(Open) = 1 <=> nesting = <<>>
    BY <1>1, OpenShape
  <2> QED BY <2>1, <2>2 DEF IsInFileScope
<1>4. CASE allowed /\ declared.ok
  <2>i. PICK item : item = [Item("prototype", name, storage, "none", parameters)
                              EXCEPT !.id = <<name>>, !.parameterIds = v.ids]
    OBVIOUS
  <2>1. /\ table' = ExitScope(v.table) /\ suppress' = suppress /\ nesting' = nesting
        /\ unit' = Append(unit, item) /\ rejected' = ~v.ok
    BY <1>r, <1>v, <1>a, <1>4, <2>i DEF VisitPrototype, Record
  <2>2. ItemIs(item, "prototype", name, storage, "none", parameters, <<name>>, v.ids, Nobody, FALSE)
    BY <1>1, <1>2, <1>4, <2>i, FunctionIs
  <2>3. /\ item \in Items /\ item.path = nesting /\ item.kind = "prototype" /\ item.name = name
        /\ item.parameters = parameters /\ item.id = <<name>> /\ item.parameterIds = v.ids
        /\ item.storage = storage
    BY <2>2 DEF ItemIs
  <2>4. CASE v.ok
    <3>2. Shape' /\ Open' = Open /\ Pushes(i)
      BY <1>1, <2>1, <2>3, Kept DEF Pushes
    <3>3. ParametersOf(i, item, s) = ParametersDeclared(i, parameters, s, v.ids, Len(parameters))
      BY <1>2, <1>4, <2>3, ParametersAre
    <3>D. PICK D : D = (Declarations \cup {DeclarationOf(i, item.name, Here(Open), TRUE, 0, item.id)})
                       \cup ParametersOf(i, item, Here(Open) \cup {i})
      OBVIOUS
    <3>4. Holds(v.table, open, D)
      BY <1>2, <1>4, <1>s, <1>d, <2>3, <2>4, <3>3, <3>D
    <3>5. Holds(ExitScope(v.table), Open, D)
      <4>1. Open \in Seq(SUBSET Nat)
        BY <1>1, ShapeOpens DEF OpenFits
      <4>2. s \in SUBSET Nat
        BY <1>n, <1>s, Fresh
      <4>3. /\ Len(open) = Len(Open) + 1
            /\ \A k \in 1 .. Len(Open) : open[k] = Open[k]
        BY <1>o, <4>1, <4>2, Appended
      <4>4. Len(Open) = Len(open) - 1 /\ \A k \in 1 .. Len(open) - 1 : Open[k] = open[k]
        BY <4>1, <4>3
      <4> QED BY <1>2, <3>4, <4>1, <4>4, Exited
    <3>6. item.kind = "prototype" /\ item.storage = "static" => nesting = <<>>
      BY <1>3, <1>4, <1>a, <2>3
    <3>7. Core'
      BY <1>n, <2>1, <2>3, <3>2, <3>D, <3>5, <3>6, FunctionAdded
    <3> QED BY <2>1, <2>4, <3>7 DEF Sound
  <2>5. CASE ~v.ok
    <3>1. Repeated(item.parameters)
      BY <1>2, <1>4, <2>3, <2>5
    <3>2. ScopeErrors'
      BY <1>n, <2>1, <2>3, <3>1, ForbiddenParameters
    <3> QED BY <2>1, <2>5, <3>2 DEF Sound
  <2> QED BY <2>4, <2>5
<1>5. CASE ~(allowed /\ declared.ok)
  <2>i. PICK item : item = Item("prototype", name, storage, "none", parameters)
    OBVIOUS
  <2>1. unit' = Append(unit, item) /\ rejected' = TRUE
    BY <1>r, <1>a, <1>5, <2>i DEF VisitPrototype, Record
  <2>2. ItemIs(item, "prototype", name, storage, "none", parameters, Nobody, <<>>, Nobody, FALSE)
    <3>1. <<>> \in Seq(Ids)
      OBVIOUS
    <3> QED BY <1>1, <2>i, <3>1, FunctionIs
  <2>3. /\ item \in Items /\ item.path = nesting /\ item.kind = "prototype" /\ item.name = name
        /\ item.storage = storage
    BY <2>2 DEF ItemIs
  <2>4. CASE ~declared.ok
    <3>1. PICK e \in Declarations : Collide(e, d)
      BY <1>2, <2>4
    <3>2. ScopeErrors'
      BY <1>n, <1>d, <2>1, <2>3, <3>1, ForbiddenFunction
    <3> QED BY <2>1, <3>2 DEF Sound
  <2>5. CASE ~allowed
    <3>1. storage = "static" /\ nesting # <<>>
      BY <1>3, <1>a, <2>5
    <3>2. i \in DOMAIN unit' /\ unit'[i] = item
      BY <1>n, <2>1, <2>3, Grown DEF Core, Shape
    <3>3. LocalStaticFunction'
      BY <2>3, <3>1, <3>2 DEF LocalStaticFunction
    <3> QED BY <2>1, <3>3 DEF Sound, ScopeErrors
  <2> QED BY <1>5, <2>4, <2>5
<1> QED BY <1>4, <1>5

-----------------------------------------------------------------------------
\* Compound statements open a scope, except the body of a function.

\* Visiting a compound statement, which opens no scope as a function's body.
LEMMA CompoundKeeps ==
  ASSUME Core, rejected \in BOOLEAN, VisitCompound
  PROVE  Sound
<1>i. PICK item : item = [Item("compound", "none", "none", "none", <<>>) EXCEPT !.suppressed = suppress]
  OBVIOUS
<1>n. PICK i : i = Len(unit) + 1
  OBVIOUS
<1>s. PICK s : s = Here(Open) \cup {i}
  OBVIOUS
<1>1. /\ unit' = Append(unit, item) /\ nesting' = Append(nesting, i) /\ nesting # <<>>
      /\ suppress' = FALSE
      /\ table' = IF suppress THEN table ELSE EnterScope(table)
      /\ rejected' = rejected /\ ~rejected
  BY <1>i, <1>n DEF VisitCompound
<1>2. /\ Shape /\ Holds(table, Open, Declarations)
      /\ UnitOK /\ nesting \in Seq(DOMAIN unit)
  BY DEF Core, Shape
<1>3. suppress \in BOOLEAN /\ (suppress <=> Len(nesting) = 1) /\ Len(nesting) # 0
  BY <1>1, <1>2 DEF Shape
<1>4. ItemIs(item, "compound", "none", "none", "none", <<>>, Nobody, <<>>, Nobody, suppress)
  <2>1. item = ItemOf("compound", "none", "none", "none", <<>>, Nobody, <<>>, Nobody, suppress)
    BY <1>i DEF Item, ItemOf
  <2>2. /\ "compound" \in Kinds /\ <<>> \in Seq(Names) /\ <<>> \in Seq(Ids)
        /\ "none" \in Ident \cup {"none"} /\ "none" \in Storages \cup {"none"}
        /\ "none" \in Initializers \cup {"none"} /\ Nobody \in Ids \cup {Nobody}
    BY DEF Kinds
  <2> QED BY <1>2, <1>3, <2>1, <2>2, ItemMade
<1>5. /\ item \in Items /\ item.path = nesting /\ item.kind = "compound"
      /\ item.suppressed = suppress
  BY <1>4 DEF ItemIs
<1>6. Encloser(item)
  <2>1. Len(nesting) = 1 => item.suppressed
    BY <1>3, <1>5
  <2>2. Len(nesting) > 1 => ~item.suppressed
    <3>1. Len(nesting) > 1 => Len(nesting) # 1
      <4>1. Len(nesting) \in Nat
        BY <1>2, ShapeFacts
      <4> QED BY <4>1
    <3> QED BY <1>3, <1>5, <3>1
  <2> QED BY <1>1, <1>3, <1>5, <2>1, <2>2 DEF Encloser
<1>7. /\ Shape'
      /\ Open' = IF Len(nesting) = 1 THEN Open ELSE Append(Open, Here(Open) \cup {i})
  BY <1>1, <1>2, <1>5, <1>6, <1>n, Pushed
<1>8. Pushes(i)
  BY <1>7 DEF Pushes
<1>9. DeclaredBy(i)' = {} /\ UsedBy(i)' = {}
  BY <1>1, <1>2, <1>5, <1>n, NewItem
<1>10. Declarations' = Declarations
  <2>1. Declarations' = Declarations \cup DeclaredBy(i)'
    BY <1>1, <1>2, <1>5, <1>n, Grown
  <2> QED BY <1>9, <2>1
<1>11. Holds(table', Open', Declarations')
  <2>1. CASE Len(nesting) = 1
    <3>1. table' = table /\ Open' = Open
      BY <1>1, <1>3, <1>7, <2>1
    <3> QED BY <1>2, <1>10, <3>1
  <2>2. CASE Len(nesting) # 1
    <3>1. table' = EnterScope(table) /\ Open' = Append(Open, s)
      BY <1>1, <1>3, <1>7, <1>s, <2>2
    <3>2. s \in SUBSET Nat /\ NewScope(Open, Declarations, s)
      BY <1>n, <1>s, Fresh DEF NewScope
    <3>3. Holds(EnterScope(table), Append(Open, s), Declarations)
      BY <1>2, <3>2, Entered
    <3> QED BY <1>10, <3>1, <3>3
  <2> QED BY <2>1, <2>2
<1>12. NewUsesResolved(i)
  BY <1>9 DEF NewUsesResolved
<1>13. Core'
  BY <1>1, <1>5, <1>7, <1>8, <1>11, <1>12, <1>n, CoreGrown
<1> QED BY <1>1, <1>13 DEF Sound

\* Inside is kept when scopes are left.
LEMMA InsideShrunk ==
  ASSUME NEW D, NEW open, Inside(D, open), Chain(open), NEW o,
         NEW m, Len(open) \in Nat, m \in Nat \ {0}, m <= Len(open), Len(o) = m,
         \A k \in 1 .. m : o[k] = open[k]
  PROVE  Inside(D, o)
<1> SUFFICES ASSUME NEW d \in D, d.scope \subseteq Here(o)
             PROVE  \E k \in 1 .. m : d.scope = o[k]
  BY DEF Inside
<1>1. Here(o) = open[m] /\ m \in 1 .. Len(open) /\ Len(open) \in 1 .. Len(open)
  BY DEF Here
<1>2. open[m] \subseteq Here(open)
  BY <1>1 DEF Chain, Here
<1>3. PICK k \in 1 .. Len(open) : d.scope = open[k]
  BY <1>1, <1>2 DEF Inside
<1>4. k <= m
  BY <1>1, <1>3 DEF Chain
<1> QED BY <1>3, <1>4

\* The shape and the open scopes after the end of a compound statement.
LEMMA Popped ==
  ASSUME Shape, NEW m \in Nat, m <= Len(nesting), m # 1,
         unit' = unit, suppress' = FALSE, nesting' \in Seq(DOMAIN unit), Len(nesting') = m,
         \A j \in 1 .. m : nesting'[j] = nesting[j]
  PROVE  /\ Shape'
         /\ Len(Open') = IF m = 0 THEN 1 ELSE m
         /\ Open' \in Seq(SUBSET Nat)
         /\ \A k \in 1 .. Len(Open') : Open'[k] = Open[k]
<1>1. /\ Len(nesting) \in Nat /\ DOMAIN nesting = 1 .. Len(nesting)
      /\ \A j \in 1 .. m : j \in 1 .. Len(nesting)
  BY ShapeFacts
<1>2. DOMAIN nesting' = 1 .. m
  OBVIOUS
<1>3. UnitOK'
  BY DEF Shape, UnitOK
<1>4. \A j, k \in DOMAIN nesting' : j < k => nesting'[j] < nesting'[k]
  BY <1>1, <1>2 DEF Shape
<1>5. ASSUME NEW j \in 1 .. m PROVE Encloses(j)'
  <2>1. nesting'[j] = nesting[j] /\ (j > 2 => nesting'[j - 1] = nesting[j - 1])
    <3>1. j > 2 => j - 1 \in 1 .. m
      OBVIOUS
    <3> QED BY <3>1
  <2>2. PICK o : o = nesting[j]
    OBVIOUS
  <2>3. FunctionBody(o)' <=> FunctionBody(o)
    BY DEF FunctionBody
  <2>4. FunctionBody(nesting[j])' <=> FunctionBody(nesting[j])
    BY <2>1, <2>2 DEF FunctionBody
  <2>5. Encloses(j)
    BY <1>1 DEF Shape
  <2> QED BY <2>1, <2>4, <2>5 DEF Encloses
<1>6. suppress' \in BOOLEAN /\ (suppress' <=> Len(nesting') = 1)
  OBVIOUS
<1>7. Shape'
  BY <1>2, <1>3, <1>4, <1>5, <1>6 DEF Shape
<1>8. Depth' = IF m = 0 THEN 1 ELSE m
  BY DEF Depth
<1>p. PICK p : p = IF m = 0 THEN 1 ELSE m
  OBVIOUS
<1>9. Open' = [k \in 1 .. p |-> Opened(k)']
  BY <1>8, <1>p DEF Open
<1>10. Open' \in Seq(SUBSET Nat) /\ Len(Open') = p
  <2>1. Open' \in Seq(SUBSET Nat)
    BY <1>7, NextOpens DEF OpenFits
  <2>2. DOMAIN Open' = 1 .. p /\ p \in Nat
    BY <1>9, <1>p
  <2> QED BY <2>1, <2>2
<1>11. ASSUME NEW k \in 1 .. p PROVE Open'[k] = Open[k]
  <2>1. Opened(k)' = Opened(k)
    <3>1. k # 1 => \A j \in (1 .. k) \ {2} : j \in 1 .. m
      BY <1>p
    <3> QED BY <3>1 DEF Opened
  <2>2. k \in 1 .. Depth
    BY <1>1, <1>p DEF Depth
  <2>3. Open[k] = Opened(k)
    BY <2>2 DEF Open
  <2> QED BY <1>9, <2>1, <2>3
<1> QED BY <1>7, <1>10, <1>11, <1>p

\* Front and Last of a sequence that is not empty.
LEMMA FrontOf ==
  ASSUME NEW S, NEW q \in Seq(S), q # <<>>
  PROVE  /\ Front(q) \in Seq(S) /\ Len(Front(q)) = Len(q) - 1
         /\ \A j \in 1 .. Len(q) - 1 : Front(q)[j] = q[j]
         /\ Last(q) = q[Len(q)]
BY DEF Front, Last

\* Core is kept when scopes are left.
LEMMA Ended ==
  ASSUME Core, Shape', unit' = unit, Open' \in Seq(SUBSET Nat),
         NEW m \in Nat \ {0}, Len(Open') = m, m <= Len(Open),
         \A k \in 1 .. m : Open'[k] = Open[k],
         Holds(table', Open', Declarations)
  PROVE  Core'
<1>1. Declarations' = Declarations /\ Uses' = Uses
  BY DEF Declarations, Uses, DeclaredBy, UsedBy, ScopeWithin, FunctionBody
<1>2. Inside(Declarations', Open')
  <2>1. PICK D : D = Declarations
    OBVIOUS
  <2>2. PICK open : open = Open
    OBVIOUS
  <2>3. PICK o : o = Open'
    OBVIOUS
  <2>4. /\ Inside(D, open) /\ Chain(open) /\ Len(open) \in Nat /\ m <= Len(open) /\ Len(o) = m
        /\ \A k \in 1 .. m : o[k] = open[k]
    BY <2>1, <2>2, <2>3, ShapeOpens DEF Core, OpenFits
  <2>5. Inside(D, o)
    BY <2>4, InsideShrunk
  <2> QED BY <1>1, <2>1, <2>3, <2>5
<1>3. \A u \in Uses : Resolved(u)' <=> Resolved(u)
  BY <1>1 DEF Resolved
<1>4. ~LocalStaticFunction'
  BY DEF Core, LocalStaticFunction
<1>5. \A u \in Uses' : u.at \in DOMAIN unit' /\ Resolved(u)'
  BY <1>1, <1>3 DEF Core
<1> QED BY <1>1, <1>2, <1>4, <1>5 DEF Core

\* The end of a compound statement, of the for around it or of a function.
LEMMA EndKeeps ==
  ASSUME Core, rejected \in BOOLEAN, EndCompound
  PROVE  Sound
<1>n. PICK n : n = Len(nesting)
  OBVIOUS
<1>o. PICK outside : outside = Front(nesting)
  OBVIOUS
<1>l. PICK left : left = IF unit[Last(nesting)].suppressed THEN table ELSE ExitScope(table)
  OBVIOUS
<1>b. PICK isBody : isBody = (outside # <<>> /\ unit[Last(outside)].kind # "compound")
  OBVIOUS
<1>1. /\ nesting # <<>> /\ Innermost = "compound"
      /\ table' = IF isBody THEN ExitScope(left) ELSE left
      /\ nesting' = IF isBody THEN Front(outside) ELSE outside
      /\ suppress' = suppress /\ unit' = unit /\ rejected' = rejected /\ ~rejected
  BY <1>o, <1>l, <1>b DEF EndCompound, InStatement
<1>2. /\ Shape /\ Holds(table, Open, Declarations)
      /\ UnitOK /\ nesting \in Seq(DOMAIN unit)
  BY DEF Core, Shape
<1>3. /\ n \in Nat /\ n # 0 /\ DOMAIN nesting = 1 .. n
      /\ \A j \in 1 .. n : Encloses(j)
  BY <1>1, <1>2, <1>n, ShapeFacts DEF Shape
<1>4. /\ outside \in Seq(DOMAIN unit) /\ Len(outside) = n - 1
      /\ \A j \in 1 .. n - 1 : outside[j] = nesting[j]
      /\ Last(nesting) = nesting[n]
  <2>1. /\ Front(nesting) \in Seq(DOMAIN unit) /\ Len(Front(nesting)) = Len(nesting) - 1
        /\ \A j \in 1 .. Len(nesting) - 1 : Front(nesting)[j] = nesting[j]
        /\ Last(nesting) = nesting[Len(nesting)]
    BY <1>1, <1>2, FrontOf
  <2> QED BY <1>n, <1>o, <2>1
<1>5. n > 1 /\ unit[nesting[n]].kind = "compound" /\ (unit[nesting[n]].suppressed <=> n = 2)
  <2>1. unit[nesting[n]].kind = "compound"
    BY <1>1, <1>4 DEF Innermost
  <2>2. n # 1
    <3>1. Encloses(1)
      BY <1>3
    <3>2. unit[nesting[1]].kind = "function"
      BY <3>1 DEF Encloses
    <3> QED BY <2>1, <3>2
  <2>3. n \in 1 .. n
    BY <1>3
  <2>4. Encloses(n)
    BY <1>3, <2>3
  <2>5. unit[nesting[n]].suppressed <=> n = 2
    BY <2>1, <2>4 DEF Encloses
  <2>6. n > 1
    BY <1>3, <2>2
  <2> QED BY <2>1, <2>5, <2>6
<1>6. outside # <<>> /\ Last(outside) = nesting[n - 1]
  <2>1. outside # <<>>
    BY <1>3, <1>4, <1>5
  <2>2. Last(outside) = outside[n - 1]
    BY <1>4, <2>1, FrontOf
  <2> QED BY <1>3, <1>4, <1>5, <2>2
<1>7. isBody <=> unit[nesting[n - 1]].kind # "compound"
  BY <1>b, <1>6
<1>8. /\ Front(outside) \in Seq(DOMAIN unit) /\ Len(Front(outside)) = n - 2
      /\ \A j \in 1 .. n - 2 : Front(outside)[j] = nesting[j]
  <2>1. /\ Front(outside) \in Seq(DOMAIN unit) /\ Len(Front(outside)) = Len(outside) - 1
        /\ \A j \in 1 .. Len(outside) - 1 : Front(outside)[j] = outside[j]
    BY <1>4, <1>6, FrontOf
  <2>2. n - 1 - 1 = n - 2 /\ \A j \in 1 .. n - 2 : j \in 1 .. n - 1
    BY <1>3
  <2> QED BY <1>4, <2>1, <2>2
<1>9. suppress' = FALSE
  <2>1. n # 1
    BY <1>3, <1>5
  <2>2. suppress \in BOOLEAN /\ (suppress <=> n = 1)
    BY <1>2, <1>n DEF Shape
  <2> QED BY <1>1, <2>1, <2>2
<1>10. Len(Open) = n /\ Open \in Seq(SUBSET Nat)
  <2>1. Len(Open) = Depth /\ Open \in Seq(SUBSET Nat)
    BY <1>2, OpenShape
  <2>2. Depth = n
    BY <1>n, <1>3, <1>5 DEF Depth
  <2> QED BY <2>1, <2>2
<1>11. CASE n = 2
  <2>1. isBody = TRUE /\ left = table
    <3>1. Encloses(1) /\ n - 1 = 1
      BY <1>3, <1>11
    <3>2. unit[nesting[1]].kind = "function"
      BY <3>1 DEF Encloses
    <3>3. unit[nesting[n - 1]].kind # "compound"
      BY <3>1, <3>2
    <3>4. left = table
      BY <1>l, <1>4, <1>5, <1>11
    <3> QED BY <1>b, <1>7, <3>3, <3>4
  <2>2. table' = ExitScope(table) /\ nesting' = Front(outside)
    BY <1>1, <2>1
  <2>3. nesting' \in Seq(DOMAIN unit) /\ Len(nesting') = 0 /\ \A j \in 1 .. 0 : nesting'[j] = nesting[j]
    BY <1>8, <1>11, <2>2
  <2>4. /\ Shape' /\ Len(Open') = 1 /\ Open' \in Seq(SUBSET Nat)
        /\ \A k \in 1 .. Len(Open') : Open'[k] = Open[k]
    <3>1. 0 <= Len(nesting) /\ 0 # 1 /\ 0 \in Nat
      BY <1>n, <1>3
    <3> QED BY <1>1, <1>2, <1>9, <2>3, <3>1, Popped
  <2>5. Holds(table', Open', Declarations)
    <3>1. PICK o : o = Open'
      OBVIOUS
    <3>2. /\ o \in Seq(SUBSET Nat) /\ Len(o) = Len(Open) - 1 /\ Len(Open) > 1
          /\ \A k \in 1 .. Len(Open) - 1 : o[k] = Open[k]
      BY <1>10, <1>11, <2>4, <3>1
    <3>3. Holds(ExitScope(table), o, Declarations)
      BY <1>2, <3>2, Exited
    <3> QED BY <2>2, <3>1, <3>3
  <2>6. Core'
    BY <1>1, <1>10, <1>11, <2>4, <2>5, Ended
  <2> QED BY <1>1, <2>6 DEF Sound
<1>12. CASE n # 2 /\ ~isBody
  <2>1. left = ExitScope(table)
    BY <1>l, <1>4, <1>5, <1>12
  <2>2. table' = ExitScope(table) /\ nesting' = outside
    BY <1>1, <1>12, <2>1
  <2>m. PICK m : m = n - 1
    OBVIOUS
  <2>3. /\ m \in Nat /\ m <= n /\ m # 1 /\ m # 0
        /\ nesting' \in Seq(DOMAIN unit) /\ Len(nesting') = m
        /\ \A j \in 1 .. m : nesting'[j] = nesting[j]
    BY <1>3, <1>4, <1>5, <1>12, <2>2, <2>m
  <2>4. /\ Shape' /\ Len(Open') = m /\ Open' \in Seq(SUBSET Nat)
        /\ \A k \in 1 .. Len(Open') : Open'[k] = Open[k]
    BY <1>1, <1>2, <1>9, <1>n, <2>3, Popped
  <2>5. Holds(table', Open', Declarations)
    <3>1. PICK o : o = Open'
      OBVIOUS
    <3>2. /\ o \in Seq(SUBSET Nat) /\ Len(o) = Len(Open) - 1 /\ Len(Open) > 1
          /\ \A k \in 1 .. Len(Open) - 1 : o[k] = Open[k]
      BY <1>5, <1>10, <2>4, <2>m, <3>1
    <3>3. Holds(ExitScope(table), o, Declarations)
      BY <1>2, <3>2, Exited
    <3> QED BY <2>2, <3>1, <3>3
  <2>6. Core'
    BY <1>1, <1>10, <2>3, <2>4, <2>5, Ended
  <2> QED BY <1>1, <2>6 DEF Sound
<1>13. CASE n # 2 /\ isBody
  <2>1. left = ExitScope(table)
    BY <1>l, <1>4, <1>5, <1>13
  <2>2. table' = ExitScope(ExitScope(table)) /\ nesting' = Front(outside)
    BY <1>1, <1>13, <2>1
  <2>m. PICK m : m = n - 2
    OBVIOUS
  <2>a. n # 3
    <3> SUFFICES ASSUME n = 3 PROVE FALSE
      OBVIOUS
    <3>1. n - 1 = 2 /\ 2 \in 1 .. n
      OBVIOUS
    <3>2. Encloses(2)
      BY <1>3, <3>1
    <3>3. unit[nesting[2]].kind = "compound"
      BY <3>2 DEF Encloses
    <3>4. unit[nesting[n - 1]].kind = "compound"
      BY <3>1, <3>3
    <3> QED BY <1>7, <1>13, <3>4
  <2>3. /\ m \in Nat /\ m <= n /\ m # 1 /\ m # 0
        /\ nesting' \in Seq(DOMAIN unit) /\ Len(nesting') = m
        /\ \A j \in 1 .. m : nesting'[j] = nesting[j]
    BY <1>3, <1>5, <1>8, <1>13, <2>2, <2>a, <2>m
  <2>4. /\ Shape' /\ Len(Open') = m /\ Open' \in Seq(SUBSET Nat)
        /\ \A k \in 1 .. Len(Open') : Open'[k] = Open[k]
    BY <1>1, <1>2, <1>9, <1>n, <2>3, Popped
  <2>5. Holds(table', Open', Declarations)
    <3>1. PICK o : o = Open'
      OBVIOUS
    <3>2. PICK p : p = Front(Open)
      OBVIOUS
    <3>3. /\ p \in Seq(SUBSET Nat) /\ Len(p) = Len(Open) - 1 /\ Len(Open) > 1
          /\ \A k \in 1 .. Len(Open) - 1 : p[k] = Open[k]
      <4>1. Open # <<>>
        BY <1>5, <1>10
      <4> QED BY <1>5, <1>10, <3>2, <4>1, FrontOf
    <3>4. Holds(ExitScope(table), p, Declarations)
      BY <1>2, <3>3, Exited
    <3>5. /\ o \in Seq(SUBSET Nat) /\ Len(o) = Len(p) - 1 /\ Len(p) > 1
          /\ \A k \in 1 .. Len(p) - 1 : o[k] = p[k]
      BY <1>3, <1>5, <1>10, <2>3, <2>4, <2>m, <3>1, <3>3
    <3>6. Holds(ExitScope(ExitScope(table)), o, Declarations)
      BY <3>4, <3>5, Exited
    <3> QED BY <2>2, <3>1, <3>6
  <2>6. Core'
    BY <1>1, <1>10, <2>3, <2>4, <2>5, Ended
  <2> QED BY <1>1, <2>6 DEF Sound
<1> QED BY <1>11, <1>12, <1>13

-----------------------------------------------------------------------------
(* The invariant holds of an empty unit and implies the properties.        *)

\* No item of the unit has been visited.
EmptyUnit == /\ table = EnterScope(EmptyTable) /\ suppress = FALSE
             /\ unit = <<>> /\ nesting = <<>>

\* Core holds of an empty unit.
LEMMA EmptyCore == EmptyUnit => Core
<1> SUFFICES ASSUME EmptyUnit PROVE Core
  OBVIOUS
<1>1. /\ unit = <<>> /\ nesting = <<>> /\ suppress = FALSE
      /\ table = EnterScope(EmptyTable)
  BY DEF EmptyUnit
<1>2. Shape
  <2>1. UnitOK
    BY <1>1 DEF UnitOK
  <2>2. nesting \in Seq(DOMAIN unit) /\ Len(nesting) = 0 /\ DOMAIN nesting = {}
    BY <1>1
  <2>3. suppress \in BOOLEAN /\ (suppress <=> Len(nesting) = 1)
    <3>1. Len(nesting) # 1
      BY <2>2
    <3>2. suppress = FALSE
      BY <1>1
    <3> QED BY <3>1, <3>2
  <2>4. /\ \A j, k \in DOMAIN nesting : j < k => nesting[j] < nesting[k]
        /\ \A j \in DOMAIN nesting : Encloses(j)
    BY <2>2
  <2> QED BY <2>1, <2>2, <2>3, <2>4 DEF Shape
<1>3. EmptyTable \in Tables /\ EmptyTable.scopes = <<>>
  <2>1. <<>> \in Map(Ident, Nat) /\ <<>> \in Map(Ids, Infos)
    BY EmptyMap
  <2>2. <<>> \in Seq(Map(Ident, Infos))
    OBVIOUS
  <2> QED BY <2>1, <2>2 DEF EmptyTable, Tables
<1>4. /\ table \in Tables /\ Len(table.scopes) = 1 /\ table.scopes[1] = <<>>
      /\ table.allSymbols = <<>>
  <2>1. Len(EmptyTable.scopes) = 0
    BY <1>3
  <2>2. LET e == EnterScope(EmptyTable)
        IN  /\ e \in Tables
            /\ Len(e.scopes) = Len(EmptyTable.scopes) + 1
            /\ e.scopes[Len(EmptyTable.scopes) + 1] = <<>>
            /\ e.allSymbols = EmptyTable.allSymbols
    BY <1>3, EnterTable
  <2>3. EmptyTable.allSymbols = <<>>
    BY DEF EmptyTable
  <2> QED BY <1>1, <2>1, <2>2, <2>3
<1>5. Declarations = {} /\ Uses = {}
  BY <1>1 DEF Declarations, Uses
<1>6. Len(Open) = 1 /\ Opens(Open)
  BY <1>1, <1>2, OpenShape
<1>7. Holds(table, Open, Declarations)
  <2>1. ScopesHold(table, Open, {})
    BY <1>4, <1>6, EmptyMap DEF ScopesHold
  <2>2. NamesHold(table, {}) /\ Distinct({})
    BY DEF NamesHold, Distinct
  <2>3. SymbolsHold(table, {})
    BY <1>4, EmptyMap DEF SymbolsHold
  <2> QED BY <1>4, <1>5, <1>6, <2>1, <2>2, <2>3 DEF Holds
<1>8. Inside(Declarations, Open)
  BY <1>5 DEF Inside
<1>9. ~LocalStaticFunction
  BY <1>1 DEF LocalStaticFunction
<1> QED BY <1>2, <1>5, <1>7, <1>8, <1>9 DEF Core

\* The same of the next state.
LEMMA NextEmptyCore == EmptyUnit' => Core'
BY EmptyCore, PTL

\* A unique name and the entity C says the name denotes.
Denotes(a) == \E d \in Declarations : a[1] = d.id /\ a[2] = {Entity(d)}

\* A use has the unique name of the one entity it denotes.
LEMMA UseDenotes ==
  ASSUME Core, NEW use \in Uses
  PROVE  Denotes(<<use.id, Denoted(use)>>)
<1>1. PICK d \in Visible(Declarations, use.name, use.at, use.scope) : use.id = d.id
  BY DEF Core, Resolved
<1>2. VisibleAt(use.name, use.at, use.scope) = Visible(Declarations, use.name, use.at, use.scope)
  BY DEF VisibleAt, Visible, Before
<1>3. d \in Declarations
  BY <1>1 DEF Visible, Before
<1>4. Distinct(Declarations)
  BY DEF Core, Holds
<1>5. \A e \in Visible(Declarations, use.name, use.at, use.scope) : Entity(e) = Entity(d)
  BY <1>1, <1>4, OneEntitySeen
<1>6. Denoted(use) = {Entity(d)}
  BY <1>1, <1>2, <1>5 DEF Denoted
<1> QED BY <1>1, <1>3, <1>6 DEF Denotes

\* Core is what SameNameSameEntity needs.
LEMMA NamesAgree == Core => SameNameSameEntity
<1> SUFFICES ASSUME Core PROVE SameNameSameEntity
  OBVIOUS
<1> DEFINE occurrences == {<<d.id, {Entity(d)}>> : d \in Declarations}
                          \cup {<<use.id, Denoted(use)>> : use \in Uses}
<1>1. ASSUME NEW a \in occurrences PROVE Denotes(a)
  <2>1. CASE a \in {<<d.id, {Entity(d)}>> : d \in Declarations}
    BY <2>1 DEF Denotes
  <2>2. CASE a \in {<<use.id, Denoted(use)>> : use \in Uses}
    BY <2>2, UseDenotes
  <2> QED BY <2>1, <2>2
<1>2. /\ table \in Tables /\ NamesHold(table, Declarations) /\ Distinct(Declarations)
      /\ \A d \in Declarations : d.at # 0
  <2>1. \A d \in Declarations : d.at \in DOMAIN unit
    BY DeclaredWhere DEF Core, Shape
  <2>2. 0 \notin DOMAIN unit
    BY DEF Core, Shape, UnitOK
  <2> QED BY <2>1, <2>2 DEF Core, Holds
<1>3. ASSUME NEW a \in occurrences, NEW b \in occurrences
      PROVE  a[1] = b[1] <=> a[2] = b[2]
  <2>1. PICK d \in Declarations : a[1] = d.id /\ a[2] = {Entity(d)}
    BY <1>1 DEF Denotes
  <2>2. PICK e \in Declarations : b[1] = e.id /\ b[2] = {Entity(e)}
    BY <1>1 DEF Denotes
  <2>3. d.id = e.id <=> Entity(d) = Entity(e)
    BY <1>2, OneIdPerEntity
  <2> QED BY <2>1, <2>2, <2>3
<1> QED BY <1>3 DEF SameNameSameEntity

\* The same of the next state.
LEMMA NamesAgreeNext == Core' => SameNameSameEntity'
BY NamesAgree, PTL

\* A unit with Core has no error of scope.
LEMMA NoErrors == Core => ~ScopeErrors
<1> SUFFICES ASSUME Core PROVE ~ScopeErrors
  OBVIOUS
<1>1. ~Redeclared
  <2>1. Distinct(Declarations)
    BY DEF Core, Holds
  <2> QED BY <2>1 DEF Redeclared, Distinct, Collide
<1>2. ~Undeclared
  <2> SUFFICES ASSUME NEW use \in Uses PROVE Denoted(use) # {}
    BY DEF Undeclared
  <2>1. Denotes(<<use.id, Denoted(use)>>)
    BY UseDenotes
  <2> QED BY <2>1 DEF Denotes
<1> QED BY <1>1, <1>2 DEF ScopeErrors, Core

-----------------------------------------------------------------------------
\* The steps.

\* Every visit of the resolver.
LEMMA ResolveKeeps ==
  ASSUME Core, rejected \in BOOLEAN, Resolve
  PROVE  Sound
<1>1. ASSUME NEW name \in FunctionNames, NEW storage \in Storages, NEW parameters \in ParameterLists,
             VisitFunctionDefinition(name, storage, parameters) \/ VisitPrototype(name, storage, parameters)
      PROVE  Sound
  <2>1. parameters \in Seq(Names)
    BY NamesAssumption
  <2> QED BY <1>1, <2>1, FunctionKeeps, PrototypeKeeps
<1>2. ASSUME NEW name \in Names, NEW storage \in Storages, NEW initializer \in Initializers,
             VisitVariable(name, storage, initializer) \/ VisitFor(name, storage, initializer)
      PROVE  Sound
  BY <1>2, VariableKeeps, ForKeeps
<1>3. ASSUME NEW name \in Names \cup FunctionNames, VisitUse(name)
      PROVE  Sound
  BY <1>3, UseKeeps DEF Ident
<1>4. CASE VisitCompound
  BY <1>4, CompoundKeeps
<1>5. CASE EndCompound
  BY <1>5, EndKeeps
<1> QED BY <1>1, <1>2, <1>3, <1>4, <1>5 DEF Resolve

\* While a unit is resolved, nothing was reported and Core holds, or the unit has an error.
Resolving == phase = "resolving" => /\ ~rejected => Core
                                    /\ rejected => ScopeErrors
\* The inductive invariant; after the resolver the unit and its names no longer change.
IInv == rejected \in BOOLEAN /\ Resolving /\ SameNameSameEntity

\* The invariant holds at the start.
LEMMA StartResolves == LInit => IInv
<1> SUFFICES ASSUME LInit PROVE IInv
  OBVIOUS
<1>1. EmptyUnit /\ rejected = FALSE
  BY DEF LInit, Init, EmptyUnit
<1>2. Core /\ SameNameSameEntity
  BY <1>1, EmptyCore, NamesAgree
<1> QED BY <1>1, <1>2 DEF IInv, Resolving

\* The names of a unit stay right while it does not change.
LEMMA UnitUnchanged ==
  ASSUME unit' = unit, SameNameSameEntity, ~rejected
  PROVE  SameNameSameEntity'
<1>1. Declarations' = Declarations /\ Uses' = Uses
  BY DEF Declarations, Uses, DeclaredBy, UsedBy, ScopeWithin, FunctionBody
<1>2. ASSUME NEW use \in Uses PROVE Denoted(use)' = Denoted(use)
  BY <1>1 DEF Denoted, VisibleAt
<1>3. {<<use.id, Denoted(use)>> : use \in Uses}' = {<<use.id, Denoted(use)>> : use \in Uses}
  BY <1>1, <1>2
<1> QED BY <1>1, <1>3 DEF SameNameSameEntity

\* Core and the errors are about the resolver's variables only.
LEMMA Unchanged ==
  ASSUME unit' = unit, table' = table, nesting' = nesting, suppress' = suppress
  PROVE  (Core' <=> Core) /\ (ScopeErrors' <=> ScopeErrors)
<1>1. Declarations' = Declarations /\ Uses' = Uses
  BY DEF Declarations, Uses, DeclaredBy, UsedBy, ScopeWithin, FunctionBody
<1>2. Shape' <=> Shape
  BY DEF Shape, UnitOK, Encloses, FunctionBody
<1>3. Open' = Open
  BY DEF Open, Opened, Depth
<1>4. \A u \in Uses : Resolved(u)' <=> Resolved(u)
  BY <1>1 DEF Resolved
<1>5. LocalStaticFunction' <=> LocalStaticFunction
  BY DEF LocalStaticFunction
<1>6. ASSUME NEW use \in Uses PROVE Denoted(use)' = Denoted(use)
  BY <1>1 DEF Denoted, VisibleAt
<1>7. Core' <=> Core
  BY <1>1, <1>2, <1>3, <1>4, <1>5 DEF Core
<1>8. ScopeErrors' <=> ScopeErrors
  BY <1>1, <1>5, <1>6 DEF ScopeErrors, Redeclared, Undeclared
<1> QED BY <1>7, <1>8

\* The passes after the resolver keep the invariant.
LEMMA PassKeeps ==
  ASSUME IInv, NEW pass, NEW visited, NEW next, RunPass(pass, visited, next),
         pass # "resolving", next # "resolving"
  PROVE  IInv'
<1>1. /\ ~rejected /\ rejected' = ~visited.ok /\ unit' = unit
      /\ phase' = IF rejected' THEN phase ELSE next
      /\ phase = pass
  BY DEF RunPass
<1>2. rejected' \in BOOLEAN
  BY <1>1
<1>3. phase' # "resolving"
  BY <1>1
<1>4. SameNameSameEntity'
  BY <1>1, UnitUnchanged DEF IInv
<1> QED BY <1>2, <1>3, <1>4 DEF IInv, Resolving

\* Every step keeps the invariant.
LEMMA StepResolves == IInv /\ [LNext]_vars => IInv'
<1> SUFFICES ASSUME IInv, [LNext]_vars PROVE IInv'
  OBVIOUS
<1>1. CASE ResolveItem
  <2>1. phase = "resolving" /\ phase' = "resolving" /\ Resolve
    BY <1>1 DEF ResolveItem, passVars
  <2>2. ~rejected
    BY <2>1 DEF Resolve, VisitFunctionDefinition, VisitPrototype, VisitVariable, VisitFor,
                VisitCompound, VisitUse, EndCompound, CanGrow
  <2>3. Core /\ rejected \in BOOLEAN
    BY <2>1, <2>2 DEF IInv, Resolving
  <2>4. Sound
    BY <2>1, <2>3, ResolveKeeps
  <2>5. SameNameSameEntity'
    <3>1. CASE rejected'
      BY <3>1 DEF SameNameSameEntity
    <3>2. CASE ~rejected'
      BY <2>4, <3>2, NamesAgreeNext DEF Sound
    <3> QED BY <3>1, <3>2
  <2> QED BY <2>4, <2>5 DEF IInv, Resolving, Sound
<1>2. CASE EndUnit
  <2>1. unit' = unit /\ rejected' = rejected /\ ~rejected /\ phase' = "declaring"
    BY <1>2 DEF EndUnit, scopeVars
  <2>2. SameNameSameEntity'
    BY <2>1, UnitUnchanged DEF IInv
  <2> QED BY <2>1, <2>2 DEF IInv, Resolving
<1>3. CASE CheckDeclarations
  <2>1. PICK visited : RunPass("declaring", visited, "checking")
    BY <1>3 DEF CheckDeclarations
  <2> QED BY <2>1, PassKeeps
<1>4. CASE CheckExpressions
  <2>1. PICK visited : RunPass("checking", visited, "generating")
    BY <1>4 DEF CheckExpressions
  <2> QED BY <2>1, PassKeeps
<1>5. CASE Generate
  <2>1. EmptyUnit' /\ rejected' = FALSE
    BY <1>5 DEF Generate, BeginUnit, EmptyUnit
  <2>2. Core' /\ SameNameSameEntity'
    BY <2>1, NextEmptyCore, NamesAgreeNext
  <2> QED BY <2>1, <2>2 DEF IInv, Resolving
<1>6. CASE UNCHANGED vars
  <2>1. /\ unit' = unit /\ rejected' = rejected /\ phase' = phase
        /\ table' = table /\ nesting' = nesting /\ suppress' = suppress
    BY <1>6 DEF vars, scopeVars, passVars
  <2>2. Core' <=> Core
    BY <2>1, Unchanged
  <2>3. SameNameSameEntity'
    BY <2>1, UnitUnchanged DEF IInv, SameNameSameEntity
  <2>4. ScopeErrors' <=> ScopeErrors
    BY <2>1, Unchanged
  <2> QED BY <2>1, <2>2, <2>3, <2>4 DEF IInv, Resolving
<1> QED BY <1>1, <1>2, <1>3, <1>4, <1>5, <1>6 DEF LNext

\* Whatever the names, storage classes and parameter lists, and however many and
\* deep the items: in every unit two names get one unique name exactly if they
\* denote one entity (SymbolResolver).
THEOREM NamesResolved == LSpec => []SameNameSameEntity
<1>1. IInv => SameNameSameEntity
  BY DEF IInv
<1> QED BY <1>1, StartResolves, StepResolves, PTL DEF LSpec

(* The first pass reports an error exactly if the unit breaks one of C's   *)
(* rules of scope: a name declared twice in a scope, used where none of    *)
(* its declarations is visible, or a function declared static in a block.  *)
ReportsScopeErrors == phase = "resolving" => (rejected <=> ScopeErrors)

\* The resolver reports an error exactly if what it has visited of the unit has
\* one: a name redeclared, a name used undeclared, or a static function in a block.
THEOREM ScopeErrorsReported == LSpec => []ReportsScopeErrors
<1>1. IInv => ReportsScopeErrors
  BY NoErrors DEF IInv, Resolving, ReportsScopeErrors
<1> QED BY <1>1, StartResolves, StepResolves, PTL DEF LSpec

-----------------------------------------------------------------------------
(* What the passes after the resolver rely on.                             *)

\* An item with a declarator.
Named(i) == unit[i].kind \in {"function", "prototype", "variable", "for"}
\* An item with an expression that may read a name.
Reads(item) == \/ item.kind = "use"
               \/ item.kind \in {"variable", "for"} /\ item.initializer \in Names

\* Items are enclosed by a function and by statements, and their names are all filled in.
Placed(i) == LET path == unit[i].path
             IN  /\ path # <<>> => unit[path[1]].kind = "function"
                 /\ \A k \in DOMAIN path : unit[path[k]].kind \in {"function", "compound", "for"}
Filled(item) == /\ item.kind \in {"function", "prototype"}
                     => Len(item.parameterIds) = Len(item.parameters)
                /\ item.usedId # Nobody => Reads(item)
Made == \A i \in DOMAIN unit : Placed(i) /\ Filled(unit[i])

\* One more item is enclosed like the others.
LEMMA MadeGrown ==
  ASSUME Shape, Made, NEW item, item.path = nesting, Filled(item), unit' = Append(unit, item)
  PROVE  Made'
<1>1. PICK n : n = Len(unit)
  OBVIOUS
<1>2. /\ n \in Nat /\ DOMAIN unit = 1 .. n /\ DOMAIN unit' = 1 .. n + 1
      /\ unit'[n + 1] = item /\ \A j \in 1 .. n : unit'[j] = unit[j]
  BY <1>1 DEF Shape, UnitOK
<1>3. ASSUME NEW j \in 1 .. n PROVE Placed(j)' /\ Filled(unit[j])
  <2>1. Placed(j) /\ Filled(unit[j])
    BY <1>2 DEF Made
  <2>2. unit[j].path \in Seq(1 .. j - 1)
    BY <1>2 DEF Shape, UnitOK
  <2>3. \A k \in DOMAIN unit[j].path : unit[j].path[k] \in 1 .. n
    BY <1>2, <2>2
  <2>4. unit[j].path # <<>> => 1 \in DOMAIN unit[j].path
    BY <2>2
  <2>5. unit'[j] = unit[j]
    BY <1>2
  <2>6. \A k \in DOMAIN unit[j].path : unit'[unit[j].path[k]] = unit[unit[j].path[k]]
    BY <1>2, <2>3
  <2> QED BY <2>1, <2>4, <2>5, <2>6, ZenonT(60) DEF Placed
<1>4. Placed(n + 1)'
  <2>1. \A k \in DOMAIN nesting : nesting[k] \in 1 .. n /\ Encloses(k)
    BY <1>1, <1>2, ShapeFacts DEF Shape
  <2>2. nesting # <<>> => 1 \in DOMAIN nesting
    BY ShapeFacts DEF Shape
  <2>3. \A k \in DOMAIN nesting : unit[nesting[k]].kind \in {"function", "compound", "for"}
    <3> TAKE k \in DOMAIN nesting
    <3>1. k = 1 \/ k = 2 \/ k > 2
      BY ShapeFacts
    <3> QED BY <2>1, <3>1 DEF Encloses
  <2>4. nesting # <<>> => unit[nesting[1]].kind = "function"
    BY <2>1, <2>2 DEF Encloses
  <2> QED BY <1>2, <2>1, <2>2, <2>3, <2>4 DEF Placed
<1>5. \A j \in 1 .. n + 1 : j \in 1 .. n \/ j = n + 1
  BY <1>2
<1> QED BY <1>2, <1>3, <1>4, <1>5 DEF Made

\* A declarator's initializer reads a name only if it is one.
LEMMA InitializerReads ==
  ASSUME NEW t, NEW name, NEW storage, NEW initializer,
         NEW v, v = VisitIdentifierDeclarator(t, name, storage)
  PROVE  VisitInitializer(v, initializer).id # Nobody => initializer \in Names
<1>1. v = [table |-> v.table, id |-> v.id, ok |-> v.ok]
  BY DeclaratorFields
<1>2. initializer \notin Names => VisitInitializer(v, initializer).id = Nobody
  BY <1>1 DEF VisitInitializer
<1> QED BY <1>2

\* The visit of an object's declaration fills in its item.
LEMMA ObjectFilled ==
  ASSUME NEW kind \in {"variable", "for"}, NEW name, NEW storage, NEW initializer,
         NEW id, NEW used, used # Nobody => initializer \in Names, NEW item,
         item = ItemOf(kind, name, storage, initializer, <<>>, id, <<>>, used, FALSE)
  PROVE  item.path = nesting /\ Filled(item)
BY DEF ItemOf, Filled, Reads

\* The visit of a function fills in its item, unless it reports an error.
LEMMA FunctionFilled ==
  ASSUME Core, NEW kind \in {"function", "prototype"}, NEW name \in Ident, NEW storage,
         NEW parameters \in Seq(Names), NEW declared, declared = DeclareFunction(table, name),
         declared.ok, NEW item,
         item = [Item(kind, name, storage, "none", parameters)
                   EXCEPT !.id = <<name>>,
                          !.parameterIds = VisitParameters(EnterScope(declared.table), parameters).ids]
  PROVE  item.path = nesting /\ Filled(item)
<1>1. PICK v : v = VisitParameters(EnterScope(declared.table), parameters)
  OBVIOUS
<1>2. PICK i : i = Len(unit) + 1
  OBVIOUS
<1>3. PICK s, open : s = Here(Open) \cup {i} /\ open = Append(Open, s)
  OBVIOUS
<1>4. PICK d : d = DeclarationOf(i, name, Here(Open), TRUE, 0, <<name>>)
  OBVIOUS
<1>5. Len(v.ids) = Len(parameters)
  <2>1. Enters(i, s, open)
    BY <1>3 DEF Enters
  <2>2. Outcome(declared, v, d, i, s, open, parameters)
    BY <1>1, <1>2, <1>4, <2>1, FunctionVisited
  <2> QED BY <2>2 DEF Outcome
<1>6. item = [Item(kind, name, storage, "none", parameters) EXCEPT !.id = <<name>>, !.parameterIds = v.ids]
  BY <1>1
<1> QED BY <1>5, <1>6 DEF Item, Filled

\* Every visit that reports nothing keeps the items so.
LEMMA MadeKept ==
  ASSUME Core, Made, Resolve, ~rejected'
  PROVE  Made'
<1>1. Shape
  BY DEF Core
<1>2. ASSUME NEW name \in FunctionNames, NEW storage \in Storages, NEW parameters \in ParameterLists,
             VisitFunctionDefinition(name, storage, parameters)
      PROVE  Made'
  <2>1. parameters \in Seq(Names) /\ name \in Ident
    BY NamesAssumption DEF Ident
  <2>2. PICK declared : declared = DeclareFunction(table, name)
    OBVIOUS
  <2>3. PICK item : item = [Item("function", name, storage, "none", parameters)
                   EXCEPT !.id = <<name>>,
                          !.parameterIds = VisitParameters(EnterScope(declared.table), parameters).ids]
    OBVIOUS
  <2>4. declared.ok /\ unit' = Append(unit, item)
    BY <1>2, <2>2, <2>3 DEF VisitFunctionDefinition, Record
  <2>5. item.path = nesting /\ Filled(item)
    BY <2>1, <2>2, <2>3, <2>4, FunctionFilled
  <2> QED BY <1>1, <2>4, <2>5, MadeGrown
<1>3. ASSUME NEW name \in FunctionNames, NEW storage \in Storages, NEW parameters \in ParameterLists,
             VisitPrototype(name, storage, parameters)
      PROVE  Made'
  <2>1. parameters \in Seq(Names) /\ name \in Ident
    BY NamesAssumption DEF Ident
  <2>2. PICK declared : declared = DeclareFunction(table, name)
    OBVIOUS
  <2>3. PICK item : item = [Item("prototype", name, storage, "none", parameters)
                   EXCEPT !.id = <<name>>,
                          !.parameterIds = VisitParameters(EnterScope(declared.table), parameters).ids]
    OBVIOUS
  <2>4. declared.ok /\ unit' = Append(unit, item)
    BY <1>3, <2>2, <2>3 DEF VisitPrototype, Record
  <2>5. item.path = nesting /\ Filled(item)
    BY <2>1, <2>2, <2>3, <2>4, FunctionFilled
  <2> QED BY <1>1, <2>4, <2>5, MadeGrown
<1>4. ASSUME NEW name \in Names, NEW storage \in Storages, NEW initializer \in Initializers,
             VisitVariable(name, storage, initializer)
      PROVE  Made'
  <2>1. PICK declared : declared = VisitIdentifierDeclarator(table, name, storage)
    OBVIOUS
  <2>u. PICK used : used = VisitInitializer(declared, initializer).id
    OBVIOUS
  <2>2. PICK item : item = [Item("variable", name, storage, initializer, <<>>)
                              EXCEPT !.id = declared.id, !.usedId = used]
    OBVIOUS
  <2>i. item = ItemOf("variable", name, storage, initializer, <<>>, declared.id, <<>>, used, FALSE)
    BY <2>2 DEF Item, ItemOf
  <2>3. unit' = Append(unit, item)
    BY <1>4, <2>1, <2>2, <2>u DEF VisitVariable, Record
  <2>4. used # Nobody => initializer \in Names
    BY <2>1, <2>u, InitializerReads
  <2>5. item.path = nesting /\ Filled(item)
    BY <2>i, <2>4, ObjectFilled
  <2> QED BY <1>1, <2>3, <2>5, MadeGrown
<1>5. ASSUME NEW name \in Names, NEW storage \in Storages, NEW initializer \in Initializers,
             VisitFor(name, storage, initializer)
      PROVE  Made'
  <2>1. PICK declared : declared = VisitIdentifierDeclarator(EnterScope(table), name, storage)
    OBVIOUS
  <2>u. PICK used : used = VisitInitializer(declared, initializer).id
    OBVIOUS
  <2>2. PICK item : item = [Item("for", name, storage, initializer, <<>>)
                              EXCEPT !.id = declared.id, !.usedId = used]
    OBVIOUS
  <2>i. item = ItemOf("for", name, storage, initializer, <<>>, declared.id, <<>>, used, FALSE)
    BY <2>2 DEF Item, ItemOf
  <2>3. unit' = Append(unit, item)
    BY <1>5, <2>1, <2>2, <2>u DEF VisitFor, Record
  <2>4. used # Nobody => initializer \in Names
    BY <2>1, <2>u, InitializerReads
  <2>5. item.path = nesting /\ Filled(item)
    BY <2>i, <2>4, ObjectFilled
  <2> QED BY <1>1, <2>3, <2>5, MadeGrown
<1>6. CASE VisitCompound
  <2>1. PICK item : item = [Item("compound", "none", "none", "none", <<>>) EXCEPT !.suppressed = suppress]
    OBVIOUS
  <2>2. unit' = Append(unit, item)
    BY <1>6, <2>1 DEF VisitCompound
  <2>3. item.path = nesting /\ Filled(item)
    BY <2>1 DEF Item, Filled
  <2> QED BY <1>1, <2>2, <2>3, MadeGrown
<1>7. ASSUME NEW name \in Names \cup FunctionNames, VisitUse(name)
      PROVE  Made'
  <2>1. PICK item : item = [Item("use", name, "none", "none", <<>>)
                              EXCEPT !.usedId = VisitIdExpression(table, name).id]
    OBVIOUS
  <2>2. unit' = Append(unit, item)
    BY <1>7, <2>1 DEF VisitUse, Record
  <2>3. item.path = nesting /\ Filled(item)
    BY <2>1 DEF Item, Filled, Reads
  <2> QED BY <1>1, <2>2, <2>3, MadeGrown
<1>8. CASE EndCompound
  BY <1>8 DEF EndCompound, Made, Placed
<1> QED BY <1>2, <1>3, <1>4, <1>5, <1>6, <1>7, <1>8 DEF Resolve

-----------------------------------------------------------------------------
\* The unique names in the items.

Linked(i) == LinkedAt(i) # {}
HasParameters(i) == unit[i].kind \in {"function", "prototype"}
\* The items of each name with linkage, and what its declarations say of it.
Linkable(i) == \/ HasParameters(i)
               \/ unit[i].kind = "variable" /\ (InFileScope(i) \/ unit[i].storage = "extern")
               \/ unit[i].kind = "for" /\ unit[i].storage = "extern"

\* The declaration of the name itself, and those of the parameters.
IsHead(d, i) == /\ d.at = i /\ d.index = 0 /\ d.name = unit[i].name /\ d.id = unit[i].id
                /\ d.linked = Linkable(i)
IsParameter(d, i, k) == /\ d.at = i /\ d.index = k /\ d.linked = FALSE
                        /\ d.id = unit[i].parameterIds[k] /\ d.name = unit[i].parameters[k]
                        /\ d.scope = ScopeWithin(unit[i].path) \cup {i}

\* The fields of an item.
LEMMA ItemTyped ==
  ASSUME UnitOK, NEW i \in DOMAIN unit
  PROVE  /\ unit[i] \in Items /\ i \in Nat \ {0} /\ DOMAIN unit = 1 .. Len(unit) /\ Len(unit) \in Nat
         /\ unit[i].parameterIds \in Seq(Ids) /\ unit[i].parameters \in Seq(Names)
         /\ unit[i].path \in Seq(1 .. i - 1)
         /\ unit[i].storage \in {"none", "static", "extern"}
         /\ unit[i].initializer \in Names \cup {"none", "constant"}
<1>1. unit[i] \in Items /\ i \in Nat \ {0} /\ DOMAIN unit = 1 .. Len(unit) /\ Len(unit) \in Nat
  BY DEF UnitOK
<1>2. PICK item \in Items : item = unit[i]
  BY <1>1
<1>3. /\ item.parameterIds \in Seq(Ids) /\ item.parameters \in Seq(Names)
      /\ item.storage \in Storages \cup {"none"} /\ item.initializer \in Initializers \cup {"none"}
  BY DEF Items
<1>4. unit[i].path \in Seq(1 .. i - 1)
  BY DEF UnitOK
<1> QED BY <1>1, <1>2, <1>3, <1>4, StoragesAssumption, InitializersAssumption

\* An item is outside of every scope exactly if it is outside of every function.
LEMMA FileScopeIs ==
  ASSUME UnitOK, Made, NEW i \in DOMAIN unit
  PROVE  ScopeWithin(unit[i].path) = {} <=> InFileScope(i)
<1> DEFINE path == unit[i].path
<1>1. path \in Seq(1 .. i - 1) /\ DOMAIN unit = 1 .. Len(unit) /\ Len(unit) \in Nat
  BY DEF UnitOK
<1>2. CASE path = <<>>
  BY <1>2 DEF ScopeWithin, Range, InFileScope
<1>3. CASE path # <<>>
  <2>1. 1 \in DOMAIN path
    BY <1>1, <1>3
  <2>2. unit[path[1]].kind = "function"
    BY <1>3 DEF Made, Placed
  <2>3. path[1] \in Range(path) /\ ~FunctionBody(path[1])
    BY <2>1, <2>2 DEF Range, FunctionBody
  <2> QED BY <1>3, <2>3 DEF ScopeWithin, InFileScope
<1> QED BY <1>2, <1>3

\* The name of an item is declared once by it, with or without linkage.
LEMMA HeadDeclared ==
  ASSUME UnitOK, Made, NEW i \in DOMAIN unit, Named(i)
  PROVE  /\ \E d \in DeclaredBy(i) : IsHead(d, i)
         /\ Linked(i) <=> Linkable(i)
         /\ Linkable(i) \in BOOLEAN
<1> DEFINE here == ScopeWithin(unit[i].path)
<1>1. here = {} <=> InFileScope(i)
  BY FileScopeIs
<1>2. Linkable(i) \in BOOLEAN
  BY DEF Linkable
<1>3. CASE unit[i].kind = "variable"
  <2> DEFINE d == DeclarationOf(i, unit[i].name, here, here = {} \/ unit[i].storage = "extern", 0,
                                unit[i].id)
  <2>1. DeclaredBy(i) = {d}
    BY <1>3 DEF DeclaredBy
  <2>2. IsHead(d, i)
    BY <1>1, <1>3 DEF IsHead, DeclarationOf, Linkable, HasParameters
  <2> HIDE DEF d
  <2> QED BY <1>2, <2>1, <2>2 DEF Linked, LinkedAt, IsHead
<1>4. CASE unit[i].kind = "for"
  <2> DEFINE d == DeclarationOf(i, unit[i].name, here \cup {i}, unit[i].storage = "extern", 0,
                                unit[i].id)
  <2>1. DeclaredBy(i) = {d}
    BY <1>4 DEF DeclaredBy
  <2>2. IsHead(d, i)
    BY <1>4 DEF IsHead, DeclarationOf, Linkable, HasParameters
  <2> HIDE DEF d
  <2> QED BY <1>2, <2>1, <2>2 DEF Linked, LinkedAt, IsHead
<1>5. CASE HasParameters(i)
  <2> DEFINE d == DeclarationOf(i, unit[i].name, here, TRUE, 0, unit[i].id)
  <2>1. d \in DeclaredBy(i)
    BY <1>5 DEF DeclaredBy, HasParameters
  <2>2. IsHead(d, i) /\ d.linked
    BY <1>5 DEF IsHead, DeclarationOf, Linkable
  <2> HIDE DEF d
  <2> QED BY <1>2, <1>5, <2>1, <2>2 DEF Linked, LinkedAt, Linkable
<1> QED BY <1>3, <1>4, <1>5 DEF Named, HasParameters

\* The parameters of a function are declared by its item.
LEMMA ParameterDeclared ==
  ASSUME UnitOK, Made, NEW i \in DOMAIN unit, HasParameters(i), NEW k \in DOMAIN unit[i].parameterIds
  PROVE  \E d \in DeclaredBy(i) : IsParameter(d, i, k)
<1>1. Len(unit[i].parameterIds) = Len(unit[i].parameters)
  BY DEF Made, Filled, HasParameters
<1>2. unit[i].parameterIds \in Seq(Ids) /\ unit[i].parameters \in Seq(Names)
  BY ItemTyped
<1>3. k \in DOMAIN unit[i].parameters /\ k <= Len(unit[i].parameterIds)
  BY <1>1, <1>2
<1> DEFINE d == DeclarationOf(i, unit[i].parameters[k], ScopeWithin(unit[i].path) \cup {i}, FALSE, k,
                   IF k <= Len(unit[i].parameterIds) THEN unit[i].parameterIds[k] ELSE Nobody)
<1>4. d \in DeclaredBy(i)
  BY <1>3 DEF DeclaredBy, HasParameters
<1>5. IsParameter(d, i, k)
  BY <1>3 DEF IsParameter, DeclarationOf
<1> QED BY <1>4, <1>5

\* An item declares nothing else.
LEMMA DeclaredIs ==
  ASSUME UnitOK, Made, NEW i \in DOMAIN unit, NEW d \in DeclaredBy(i)
  PROVE  /\ Named(i) /\ d.at = i
         /\ \/ IsHead(d, i)
            \/ HasParameters(i) /\ \E k \in DOMAIN unit[i].parameterIds : IsParameter(d, i, k)
<1> DEFINE here == ScopeWithin(unit[i].path)
<1>1. here = {} <=> InFileScope(i)
  BY FileScopeIs
<1>2. CASE unit[i].kind = "variable"
  <2>1. d = DeclarationOf(i, unit[i].name, here, here = {} \/ unit[i].storage = "extern", 0, unit[i].id)
    BY <1>2 DEF DeclaredBy
  <2>2. Linkable(i) = (here = {} \/ unit[i].storage = "extern")
    BY <1>1, <1>2 DEF Linkable, HasParameters
  <2>3. IsHead(d, i)
    BY <2>1, <2>2 DEF DeclarationOf, IsHead
  <2> QED BY <1>2, <2>3 DEF IsHead, Named
<1>3. CASE unit[i].kind = "for"
  <2>1. d = DeclarationOf(i, unit[i].name, here \cup {i}, unit[i].storage = "extern", 0, unit[i].id)
    BY <1>3 DEF DeclaredBy
  <2>2. Linkable(i) = (unit[i].storage = "extern")
    BY <1>3 DEF Linkable, HasParameters
  <2>3. IsHead(d, i)
    BY <2>1, <2>2 DEF DeclarationOf, IsHead
  <2> QED BY <1>3, <2>3 DEF IsHead, Named
<1>4. CASE HasParameters(i)
  <2>1. Len(unit[i].parameterIds) = Len(unit[i].parameters)
    BY <1>4 DEF Made, Filled, HasParameters
  <2>2. unit[i].parameterIds \in Seq(Ids) /\ unit[i].parameters \in Seq(Names)
    BY ItemTyped
  <2>3. CASE d = DeclarationOf(i, unit[i].name, here, TRUE, 0, unit[i].id)
    <3>1. Linkable(i) = TRUE
      BY <1>4 DEF Linkable
    <3>2. IsHead(d, i)
      BY <2>3, <3>1 DEF DeclarationOf, IsHead
    <3> QED BY <1>4, <3>2 DEF IsHead, HasParameters, Named
  <2>4. CASE d # DeclarationOf(i, unit[i].name, here, TRUE, 0, unit[i].id)
    <3>1. PICK k \in DOMAIN unit[i].parameters :
             d = DeclarationOf(i, unit[i].parameters[k], here \cup {i}, FALSE, k,
                   IF k <= Len(unit[i].parameterIds) THEN unit[i].parameterIds[k] ELSE Nobody)
      BY <1>4, <2>4 DEF DeclaredBy, HasParameters
    <3>2. k \in DOMAIN unit[i].parameterIds /\ k <= Len(unit[i].parameterIds)
      BY <2>1, <2>2
    <3>3. IsParameter(d, i, k)
      BY <3>1, <3>2 DEF IsParameter, DeclarationOf
    <3>4. d.at = i
      BY <3>3 DEF IsParameter
    <3> QED BY <1>4, <3>2, <3>3, <3>4 DEF HasParameters, Named
  <2> QED BY <2>3, <2>4
<1>5. unit[i].kind \in {"variable", "for", "function", "prototype"}
  BY DEF DeclaredBy
<1> QED BY <1>2, <1>3, <1>4, <1>5 DEF HasParameters

\* A unique name that belongs to one declarator only.
Numeral(id) == \E n, c : id = <<n, c>>

\* The unique names in the items: one for each name with linkage and each object.
NamesOK ==
  /\ \A i \in DOMAIN unit : Named(i) =>
       /\ unit[i].id \in Ids
       /\ IF Linkable(i) THEN unit[i].id = <<unit[i].name>> ELSE Numeral(unit[i].id)
  /\ \A i, j \in DOMAIN unit :
       Named(i) /\ Named(j) /\ ~Linkable(i) /\ unit[i].id = unit[j].id => i = j
  /\ \A i, j \in DOMAIN unit : HasParameters(i) /\ Named(j) =>
       \A k \in DOMAIN unit[i].parameterIds : unit[i].parameterIds[k] # unit[j].id
  /\ \A i, j \in DOMAIN unit : HasParameters(i) /\ HasParameters(j) =>
       \A k \in DOMAIN unit[i].parameterIds, l \in DOMAIN unit[j].parameterIds :
         unit[i].parameterIds[k] = unit[j].parameterIds[l] => i = j /\ k = l

\* A name without linkage is that of one declaration.
LEMMA OwnId ==
  ASSUME NEW t, NEW D, NamesHold(t, D), Distinct(D), NEW d \in D, NEW e \in D,
         ~d.linked, d.id = e.id
  PROVE  d = e
<1>1. e.linked \in BOOLEAN
  BY DEF NamesHold
<1>2. CASE ~e.linked
  BY <1>2 DEF Distinct, SameThing
<1>3. CASE e.linked
  <2>1. PICK c \in Nat : d.id = <<d.name, c>>
    BY DEF NamesHold, Numbered
  <2>2. e.id = <<e.name>>
    BY <1>3 DEF NamesHold
  <2>3. <<e.name>> # <<d.name, c>>
    OBVIOUS
  <2> QED BY <2>1, <2>2, <2>3, Zenon
<1> QED BY <1>1, <1>2, <1>3

\* The resolver leaves the unit's names so.
LEMMA NamesMade == Core /\ Made => NamesOK
<1> SUFFICES ASSUME Core, Made PROVE NamesOK
  OBVIOUS
<1>1. UnitOK
  BY DEF Core, Shape
<1>2. PICK t, D : t = table /\ D = Declarations
  OBVIOUS
<1>3. NamesHold(t, D) /\ Distinct(D) /\ t \in Tables
  BY <1>2 DEF Core, Holds
<1>4. \A i \in DOMAIN unit : \A d \in DeclaredBy(i) : d \in D
  BY <1>2 DEF Declarations
<1>5. ASSUME NEW i \in DOMAIN unit, Named(i)
      PROVE  /\ unit[i].id \in Ids
             /\ IF Linkable(i) THEN unit[i].id = <<unit[i].name>> ELSE Numeral(unit[i].id)
  <2>1. PICK d \in D : IsHead(d, i)
    BY <1>1, <1>4, <1>5, HeadDeclared
  <2>2. d.id \in Ids
    BY <1>3, IdsHeld
  <2>3. d.linked = Linkable(i) /\ d.id = unit[i].id /\ d.name = unit[i].name
    BY <2>1 DEF IsHead
  <2>4. CASE Linkable(i)
    BY <1>3, <2>2, <2>3, <2>4 DEF NamesHold
  <2>5. CASE ~Linkable(i)
    <3>1. PICK c \in Nat : d.id = <<d.name, c>>
      BY <1>3, <2>3, <2>5 DEF NamesHold, Numbered
    <3>2. Numeral(unit[i].id)
      BY <2>3, <3>1 DEF Numeral
    <3> QED BY <2>2, <2>3, <2>5, <3>2
  <2> QED BY <2>4, <2>5
<1>6. ASSUME NEW i \in DOMAIN unit, NEW j \in DOMAIN unit, Named(i), Named(j),
             ~Linkable(i), unit[i].id = unit[j].id
      PROVE  i = j
  <2>1. PICK d \in D : IsHead(d, i)
    BY <1>1, <1>4, <1>6, HeadDeclared
  <2>2. PICK e \in D : IsHead(e, j)
    BY <1>1, <1>4, <1>6, HeadDeclared
  <2>3. d = e
    BY <1>3, <1>6, <2>1, <2>2, OwnId DEF IsHead
  <2> QED BY <2>1, <2>2, <2>3 DEF IsHead
<1>7. ASSUME NEW i \in DOMAIN unit, NEW j \in DOMAIN unit, HasParameters(i), Named(j),
             NEW k \in DOMAIN unit[i].parameterIds, unit[i].parameterIds[k] = unit[j].id
      PROVE  FALSE
  <2>1. PICK d \in D : IsParameter(d, i, k)
    BY <1>1, <1>4, <1>7, ParameterDeclared
  <2>2. PICK e \in D : IsHead(e, j)
    BY <1>1, <1>4, <1>7, HeadDeclared
  <2>3. d = e
    BY <1>3, <1>7, <2>1, <2>2, OwnId DEF IsHead, IsParameter
  <2>4. k # 0
    <3>1. unit[i].parameterIds \in Seq(Ids)
      BY <1>1, ItemTyped
    <3> QED BY <3>1
  <2> QED BY <2>1, <2>2, <2>3, <2>4 DEF IsHead, IsParameter
<1>8. ASSUME NEW i \in DOMAIN unit, NEW j \in DOMAIN unit, HasParameters(i), HasParameters(j),
             NEW k \in DOMAIN unit[i].parameterIds, NEW l \in DOMAIN unit[j].parameterIds,
             unit[i].parameterIds[k] = unit[j].parameterIds[l]
      PROVE  i = j /\ k = l
  <2>1. PICK d \in D : IsParameter(d, i, k)
    BY <1>1, <1>4, <1>8, ParameterDeclared
  <2>2. PICK e \in D : IsParameter(e, j, l)
    BY <1>1, <1>4, <1>8, ParameterDeclared
  <2>3. d = e
    BY <1>3, <1>8, <2>1, <2>2, OwnId DEF IsParameter
  <2> QED BY <2>1, <2>2, <2>3 DEF IsParameter
<1> QED BY <1>5, <1>6, <1>7, <1>8 DEF NamesOK

-----------------------------------------------------------------------------
\* The linkage C gives the items.

\* A nonempty set of positions has a last one.
LEMMA LastOf ==
  ASSUME NEW n \in Nat, NEW S \in SUBSET (1 .. n), S # {}
  PROVE  \E k \in S : \A j \in S : j <= k
<1> DEFINE T == {n - k : k \in S}
<1>1. \A k \in S : k \in 1 .. n /\ n - k \in Nat
  OBVIOUS
<1>2. T \in SUBSET Nat /\ T # {}
  BY <1>1
<1>3. PICK m \in T : \A j \in T : m <= j
  BY <1>2, LeastNatural
<1>4. PICK k \in S : m = n - k
  BY <1>3
<1>5. ASSUME NEW j \in S PROVE j <= k
  <2>1. n - j \in T
    OBVIOUS
  <2>2. m <= n - j
    BY <1>3, <2>1
  <2> QED BY <1>4, <2>2
<1> QED BY <1>5

\* The linkage of an item depends on those before it only.
LEMMA PriorOnly ==
  ASSUME UnitOK, NEW i \in DOMAIN unit, NEW g, NEW h, \A k \in 1 .. i - 1 : g[k] = h[k]
  PROVE  GivenLinkage(g, i) = GivenLinkage(h, i)
<1> DEFINE name  == unit[i].name
           seen  == {d \in Declarations : /\ d.name = name /\ d.at < i
                                          /\ d.scope \subseteq ScopeWithin(unit[i].path)}
           inner == {d \in seen : \A e \in seen : e.scope \subseteq d.scope}
           prior == {d \in inner : d.linked}
           S == {d.at : d \in prior}
           last == CHOOSE k \in S : \A d \in prior : d.at <= k
<1>1. i \in Nat \ {0}
  BY ItemTyped
<1>2. \A d \in prior : d.at \in 1 .. i - 1
  <2> SUFFICES ASSUME NEW d \in Declarations, d.at < i PROVE d.at \in 1 .. i - 1
    OBVIOUS
  <2>1. d.at \in DOMAIN unit
    BY DeclaredWhere
  <2>2. d.at \in Nat \ {0}
    BY <2>1, ItemTyped
  <2> QED BY <1>1, <2>2
<1>3. prior # {} => last \in 1 .. i - 1
  <2> HIDE DEF prior
  <2> SUFFICES ASSUME prior # {} PROVE last \in 1 .. i - 1
    OBVIOUS
  <2>1. i - 1 \in Nat /\ S \in SUBSET (1 .. i - 1) /\ S # {}
    BY <1>1, <1>2
  <2>2. \E k \in S : \A j \in S : j <= k
    BY <2>1, LastOf
  <2>3. \E k \in S : \A d \in prior : d.at <= k
    BY <2>2
  <2>4. last \in S
    BY <2>3
  <2> QED BY <2>1, <2>4
<1>4. PriorLinkage(g, i, name) = IF prior = {} THEN "external" ELSE g[last]
  BY DEF PriorLinkage
<1>5. PriorLinkage(h, i, name) = IF prior = {} THEN "external" ELSE h[last]
  BY DEF PriorLinkage
<1> HIDE DEF prior, last
<1>6. PriorLinkage(g, i, name) = PriorLinkage(h, i, name)
  BY <1>3, <1>4, <1>5
<1> QED BY <1>6 DEF GivenLinkage

\* The linkages are given one after the other.
LEMMA LinkagesGiven ==
  ASSUME UnitOK
  PROVE  \A i \in DOMAIN unit : LinkageOfItems[i] = GivenLinkage(LinkageOfItems, i)
<1> DEFINE N == Len(unit)
           Rule(g, n) == g = [i \in 1 .. n |-> GivenLinkage(g, i)]
           S == {n \in Nat : n <= N => \E g : Rule(g, n)}
<1>1. N \in Nat /\ DOMAIN unit = 1 .. N
  BY DEF UnitOK
<1>2. 0 \in S
  <2>1. Rule([i \in 1 .. 0 |-> 0], 0)
    OBVIOUS
  <2> QED BY <2>1
<1>3. ASSUME NEW n \in Nat, n \in S PROVE n + 1 \in S
  <2> SUFFICES ASSUME n + 1 <= N PROVE \E h : Rule(h, n + 1)
    OBVIOUS
  <2>1. PICK g : Rule(g, n)
    BY <1>1, <1>3
  <2> DEFINE h == [i \in 1 .. n + 1 |-> IF i = n + 1 THEN GivenLinkage(g, n + 1) ELSE g[i]]
  <2>2. \A i \in 1 .. n : h[i] = g[i]
    OBVIOUS
  <2>3. h[n + 1] = GivenLinkage(g, n + 1)
    OBVIOUS
  <2>4. h = [i \in 1 .. n + 1 |-> h[i]]
    OBVIOUS
  <2> HIDE DEF h
  <2>5. ASSUME NEW i \in 1 .. n + 1 PROVE h[i] = GivenLinkage(h, i)
    <3>1. i \in DOMAIN unit /\ i \in Nat /\ n + 1 \in DOMAIN unit
      BY <1>1
    <3>2. \A k \in 1 .. i - 1 : g[k] = h[k]
      BY <2>2
    <3>3. GivenLinkage(g, i) = GivenLinkage(h, i)
      BY <3>1, <3>2, PriorOnly
    <3>4. CASE i = n + 1
      BY <2>3, <3>3, <3>4
    <3>5. CASE i # n + 1
      <4>1. i \in 1 .. n
        BY <3>5
      <4>2. g[i] = GivenLinkage(g, i)
        BY <2>1, <4>1
      <4> QED BY <2>2, <3>3, <4>1, <4>2
    <3> QED BY <3>4, <3>5
  <2>6. h = [i \in 1 .. n + 1 |-> GivenLinkage(h, i)]
    BY <2>4, <2>5
  <2> QED BY <2>6
<1>4. \A n \in Nat : n \in S
  <2> HIDE DEF S
  <2> QED BY <1>2, <1>3, SetInduction
<1>5. \E g : g = [i \in DOMAIN unit |-> GivenLinkage(g, i)]
  <2>1. N \in S
    BY <1>1, <1>4
  <2>2. \E g : Rule(g, N)
    BY <1>1, <2>1
  <2> QED BY <1>1, <2>2
<1>6. LinkageOfItems = [i \in DOMAIN unit |-> GivenLinkage(LinkageOfItems, i)]
  BY <1>5 DEF LinkageOfItems
<1> QED BY <1>6

\* The first declaration of a name with linkage has the linkage its storage class says.
LEMMA FirstLinkage ==
  ASSUME UnitOK, Made, NEW i \in DOMAIN unit, Named(i), Linkable(i),
         \A k \in 1 .. i - 1 : Named(k) /\ Linkable(k) => unit[k].name # unit[i].name
  PROVE  LinkageOfItems[i] = IF unit[i].storage = "static" THEN "internal" ELSE "external"
<1>1. LinkedAt(i) # {}
  BY HeadDeclared DEF Linked
<1>2. PriorLinkage(LinkageOfItems, i, unit[i].name) = "external"
  <2> SUFFICES ASSUME NEW d \in Declarations, d.name = unit[i].name, d.at < i, d.linked
               PROVE  FALSE
    BY DEF PriorLinkage
  <2>1. PICK k \in DOMAIN unit : d \in DeclaredBy(k)
    BY DEF Declarations
  <2>2. Named(k) /\ d.at = k /\ IsHead(d, k)
    BY <2>1, DeclaredIs DEF IsParameter
  <2>3. Linkable(k) /\ unit[k].name = unit[i].name
    BY <2>2 DEF IsHead
  <2>4. k \in 1 .. i - 1
    BY <2>2, ItemTyped
  <2> QED BY <2>2, <2>3, <2>4
<1>3. LinkageOfItems[i] = GivenLinkage(LinkageOfItems, i)
  BY LinkagesGiven
<1> QED BY <1>1, <1>2, <1>3 DEF GivenLinkage

-----------------------------------------------------------------------------
(* The declaration type checker.  Between two items, the symbols say what  *)
(* the items before them declare; n counts those, and B holds the unique   *)
(* names of the parameters that have a type by then.                       *)

\* Symbols with the values the passes give them, and the tables that hold them.
SymbolInfos == [name : Ids, original : Ident, linkage : {"external", "internal", "none"},
                type : {NoType, "function", "object"}, duration : {"automatic", "static"},
                initial : {"none", "tentative", "initial"},
                constant : {"missing", "zero", "given"}, defined : BOOLEAN]
TypedTables == [scopes : Seq(Map(Ident, Infos)), nameCounters : Map(Ident, Nat),
                allSymbols : Map(Ids, SymbolInfos)]

DeclaredIds  == {d.id : d \in Declarations}
ParameterIds == {d.id : d \in {e \in Declarations : e.index # 0}}

\* A symbol as the resolver made it, and those of parameters and of objects without linkage.
Blank(id, info) == /\ info.type = NoType /\ info.duration = "automatic" /\ info.initial = "none"
                   /\ info.constant = "missing" /\ ~info.defined
                   /\ info.linkage = IF Numeral(id) THEN "none" ELSE "external"
Bare(info) == info.type = "object" /\ info.duration = "automatic" /\ info.initial = "none"
Own(info, i) ==
  /\ info.type = "object" /\ info.linkage = "none"
  /\ IF unit[i].storage = "static"
     THEN /\ info.duration = "static" /\ info.initial = "initial"
          /\ info.constant = IF HasInitializer(unit[i]) THEN "missing" ELSE "zero"
     ELSE Bare(info)

\* The two kinds of declarations of an object that define it.
GivesValue(k) == unit[k].kind = "variable" /\ InFileScope(k) /\ HasInitializer(unit[k])
IsTentative(k) == /\ unit[k].kind = "variable" /\ InFileScope(k) /\ ~HasInitializer(unit[k])
                  /\ unit[k].storage # "extern"

\* The items up to n that declare the name with linkage, and the symbol they share.
Sharing(id, n) == {k \in 1 .. n : Named(k) /\ Linkable(k) /\ unit[k].id = id}
Typed(info, T)    == \A k \in T : info.type = IF IsFunction(k) THEN "function" ELSE "object"
Stored(info)      == IF info.type = "object" THEN info.duration = "static"
                     ELSE info.duration = "automatic" /\ info.initial = "none"
DefinedBy(info, T) == info.defined <=> \E k \in T : unit[k].kind = "function"
Initialized(info, T) ==
  /\ info.initial = "initial" <=> \E k \in T : GivesValue(k)
  /\ info.initial = "none" <=> \A k \in T : ~GivesValue(k) /\ ~IsTentative(k)
DefinedOnce(T)    == \A k, l \in T : Defines(k) /\ Defines(l) => k = l
LinkedAs(info, T) == /\ info.linkage \in {"internal", "external"}
                     /\ ~MixedLinkage => \A k \in T : info.linkage = LinkageOfItems[k]
Shared(info, T) == /\ Typed(info, T) /\ Stored(info) /\ DefinedBy(info, T)
                   /\ Initialized(info, T) /\ DefinedOnce(T) /\ LinkedAs(info, T)

\* What the pass refuses in an item by itself.
Permitted(k) == /\ unit[k].kind = "for" => unit[k].storage = "none"
                /\ ~(/\ unit[k].kind = "variable" /\ ~InFileScope(k)
                     /\ unit[k].storage = "extern" /\ HasInitializer(unit[k]))

Untouched(A, n, B) ==
  \A id \in DOMAIN A :
    id \notin B /\ (\A k \in 1 .. n : Named(k) => unit[k].id # id) => Blank(id, A[id])
Touched(A, n, k) ==
  IF Linkable(k)
  THEN /\ Shared(A[unit[k].id], Sharing(unit[k].id, n)) /\ A[unit[k].id].constant = "missing"
  ELSE Own(A[unit[k].id], k)
Passed(A, n, B) ==
  /\ A \in Map(Ids, SymbolInfos) /\ DOMAIN A = DeclaredIds
  /\ B \subseteq ParameterIds
  /\ Untouched(A, n, B)
  /\ \A id \in B : Bare(A[id])
  /\ \A k \in 1 .. n : Named(k) => Touched(A, n, k)
  /\ \A k \in 1 .. n : Permitted(k)

\* What the pass relies on, once the resolver has finished the unit.
Ready == UnitOK /\ Made /\ NamesOK

\* What is wrong with a unit that is refused.
Bad == MustBeRejected \/ Undefined

\* Every name of an item is a symbol, and none is that of a parameter.
LEMMA NamesOfItems ==
  ASSUME Ready, NEW i \in DOMAIN unit, Named(i)
  PROVE  /\ unit[i].id \in DeclaredIds /\ unit[i].id \in Ids /\ unit[i].id \notin ParameterIds
         /\ Linkable(i) \in BOOLEAN
<1>1. PICK d \in DeclaredBy(i) : IsHead(d, i)
  BY HeadDeclared DEF Ready
<1>2. d \in Declarations /\ d.id = unit[i].id
  BY <1>1 DEF Declarations, IsHead
<1>3. ASSUME NEW e \in Declarations, e.index # 0, e.id = unit[i].id PROVE FALSE
  <2>1. PICK j \in DOMAIN unit : e \in DeclaredBy(j)
    BY DEF Declarations
  <2>2. HasParameters(j) /\ \E k \in DOMAIN unit[j].parameterIds : IsParameter(e, j, k)
    BY <1>3, <2>1, DeclaredIs DEF Ready, IsHead
  <2>3. PICK k \in DOMAIN unit[j].parameterIds : e.id = unit[j].parameterIds[k]
    BY <2>2 DEF IsParameter
  <2>4. NamesOK
    BY DEF Ready
  <2>5. \A l \in DOMAIN unit[j].parameterIds : unit[j].parameterIds[l] # unit[i].id
    BY <2>2, <2>4 DEF NamesOK
  <2> QED BY <1>3, <2>3, <2>5
<1> QED BY <1>2, <1>3, HeadDeclared DEF DeclaredIds, ParameterIds, Ready, NamesOK

\* One more item, whose symbol now says what it declares too.
LEMMA NameBound ==
  ASSUME Ready, NEW n \in Nat, NEW i \in DOMAIN unit, i = n + 1, Named(i), Permitted(i),
         NEW A, NEW B, Passed(A, n, B), NEW info \in SymbolInfos,
         IF Linkable(i) THEN Shared(info, Sharing(unit[i].id, i)) /\ info.constant = "missing"
                        ELSE Own(info, i)
  PROVE  Passed([A EXCEPT ![unit[i].id] = info], i, B)
<1> DEFINE id == unit[i].id
           E  == [A EXCEPT ![id] = info]
<1>1. A \in Map(Ids, SymbolInfos) /\ DOMAIN A = DeclaredIds /\ B \subseteq ParameterIds
  BY DEF Passed
<1>2. id \in DOMAIN A /\ id \notin B
  BY <1>1, NamesOfItems
<1>3. /\ E \in Map(Ids, SymbolInfos) /\ DOMAIN E = DOMAIN A
      /\ E[id] = info /\ \A x \in DOMAIN A : x # id => E[x] = A[x]
  BY <1>1, <1>2 DEF Map
<1>4. 1 .. i = 1 .. n \cup {i} /\ 1 .. i \subseteq DOMAIN unit
  BY ItemTyped DEF Ready
<1> HIDE DEF E
<1>5. Untouched(E, i, B)
  <2> SUFFICES ASSUME NEW x \in DOMAIN A, x \notin B, \A k \in 1 .. i : Named(k) => unit[k].id # x
               PROVE  Blank(x, E[x])
    BY <1>3 DEF Untouched
  <2>1. x # id /\ \A k \in 1 .. n : Named(k) => unit[k].id # x
    BY <1>4
  <2> QED BY <1>3, <2>1 DEF Passed, Untouched
<1>6. \A x \in B : Bare(E[x])
  <2>1. \A x \in B : x \in DOMAIN A
    BY <1>1 DEF ParameterIds, DeclaredIds
  <2> QED BY <1>2, <1>3, <2>1 DEF Passed
<1>7. ASSUME NEW k \in 1 .. i, Named(k) PROVE Touched(E, i, k)
  <2>1. k \in DOMAIN unit
    BY <1>4
  <2>2. CASE unit[k].id = id
    <3>1. CASE k = i
      BY <1>3, <3>1 DEF Touched
    <3>2. CASE k # i
      <4>1. Linkable(k) /\ Linkable(i)
        BY <1>7, <2>1, <2>2, <3>2 DEF Ready, NamesOK
      <4> QED BY <1>3, <2>2, <4>1 DEF Touched
    <3> QED BY <3>1, <3>2
  <2>3. CASE unit[k].id # id
    <3>1. k \in 1 .. n
      BY <1>4, <2>3
    <3>2. Sharing(unit[k].id, i) = Sharing(unit[k].id, n)
      BY <1>4, <2>3 DEF Sharing
    <3>3. unit[k].id \in DOMAIN A
      BY <1>1, <1>7, <2>1, NamesOfItems
    <3>4. Touched(A, n, k)
      BY <1>7, <3>1 DEF Passed
    <3> QED BY <1>3, <2>3, <3>2, <3>3, <3>4 DEF Touched
  <2> QED BY <2>2, <2>3
<1>8. \A k \in 1 .. i : Permitted(k)
  BY <1>4 DEF Passed
<1> QED BY <1>1, <1>3, <1>5, <1>6, <1>7, <1>8 DEF Passed, E

\* One more item that declares nothing.
LEMMA NothingBound ==
  ASSUME Ready, NEW n \in Nat, NEW i \in DOMAIN unit, i = n + 1, ~Named(i),
         NEW A, NEW B, Passed(A, n, B)
  PROVE  Passed(A, i, B)
<1>1. 1 .. i = 1 .. n \cup {i} /\ 1 .. i \subseteq DOMAIN unit
  BY ItemTyped DEF Ready
<1>2. \A id : Sharing(id, i) = Sharing(id, n)
  BY <1>1 DEF Sharing
<1>3. Untouched(A, i, B)
  BY <1>1 DEF Passed, Untouched
<1>4. \A k \in 1 .. i : Named(k) => Touched(A, i, k)
  BY <1>1, <1>2 DEF Passed, Touched
<1>5. \A k \in 1 .. i : Permitted(k)
  BY <1>1 DEF Passed, Permitted, Named
<1> QED BY <1>3, <1>4, <1>5 DEF Passed

\* One more parameter.
LEMMA ParameterBound ==
  ASSUME Ready, NEW n \in Nat, n <= Len(unit), NEW A, NEW B, Passed(A, n, B), NEW p \in ParameterIds,
         p \notin B, NEW info \in SymbolInfos, Bare(info)
  PROVE  /\ p \in DOMAIN A /\ Blank(p, A[p]) /\ A[p] \in SymbolInfos
         /\ Passed([A EXCEPT ![p] = info], n, B \cup {p})
<1> DEFINE E == [A EXCEPT ![p] = info]
<1>1. /\ A \in Map(Ids, SymbolInfos) /\ DOMAIN A = DeclaredIds /\ B \subseteq ParameterIds
      /\ p \in DOMAIN A
  BY DEF Passed, ParameterIds, DeclaredIds
<1>2. \A k \in 1 .. n : k \in DOMAIN unit /\ (Named(k) => unit[k].id # p)
  <2>1. \A k \in 1 .. n : k \in DOMAIN unit
    BY DEF Ready, UnitOK
  <2> QED BY <2>1, NamesOfItems
<1>3. Blank(p, A[p]) /\ A[p] \in SymbolInfos
  BY <1>1, <1>2 DEF Passed, Untouched, Map
<1>4. /\ E \in Map(Ids, SymbolInfos) /\ DOMAIN E = DOMAIN A
      /\ E[p] = info /\ \A x \in DOMAIN A : x # p => E[x] = A[x]
  BY <1>1 DEF Map
<1> HIDE DEF E
<1>5. Untouched(E, n, B \cup {p})
  BY <1>4 DEF Passed, Untouched
<1>6. \A x \in B \cup {p} : Bare(E[x])
  <2>1. \A x \in B : x \in DOMAIN A
    BY <1>1 DEF ParameterIds, DeclaredIds
  <2> QED BY <1>4, <2>1 DEF Passed
<1>7. \A k \in 1 .. n : Named(k) => Touched(E, n, k)
  <2> SUFFICES ASSUME NEW k \in 1 .. n, Named(k) PROVE Touched(E, n, k)
    OBVIOUS
  <2>1. unit[k].id # p /\ unit[k].id \in DOMAIN A
    BY <1>1, <1>2, NamesOfItems
  <2>2. E[unit[k].id] = A[unit[k].id]
    BY <1>4, <2>1
  <2> QED BY <2>2 DEF Passed, Touched
<1> QED BY <1>1, <1>3, <1>4, <1>5, <1>6, <1>7 DEF Passed, E

\* What the first declaration of a name with linkage finds, and the linkage it gives.
FirstFor(info, i) ==
  /\ info.type = NoType /\ info.duration = "automatic"
  /\ info.initial = "none" /\ info.constant = "missing" /\ ~info.defined
  /\ info.linkage = "external"
  /\ LinkageOfItems[i] = IF unit[i].storage = "static" THEN "internal" ELSE "external"

\* The symbol a further declaration with linkage finds.
LEMMA SharedSymbol ==
  ASSUME Ready, NEW n \in Nat, NEW i \in DOMAIN unit, i = n + 1, Named(i), Linkable(i),
         NEW A, NEW B, Passed(A, n, B),
         NEW T, T = Sharing(unit[i].id, n), NEW info, info = A[unit[i].id]
  PROVE  /\ unit[i].id \in DOMAIN A /\ info \in SymbolInfos
         /\ T \subseteq DOMAIN unit /\ i \notin T /\ Sharing(unit[i].id, i) = T \cup {i}
         /\ FirstFor(info, i) \/ \E k \in T : TRUE
         /\ T # {} => Shared(info, T) /\ info.constant = "missing" /\ info.type # NoType
         /\ \A k \in T : SameLinked(i, k) /\ SameLinked(k, i) /\ k # i
<1> DEFINE id == unit[i].id
<1>1. A \in Map(Ids, SymbolInfos) /\ DOMAIN A = DeclaredIds /\ B \subseteq ParameterIds
  BY DEF Passed
<1>2. id \in DOMAIN A /\ id \notin B /\ info \in SymbolInfos
  <2>1. id \in DOMAIN A /\ id \notin B
    BY <1>1, NamesOfItems
  <2> QED BY <1>1, <2>1, Mapped
<1>3. 1 .. i = 1 .. n \cup {i} /\ i \notin 1 .. n /\ 1 .. i \subseteq DOMAIN unit
  BY ItemTyped DEF Ready
<1>4. T \subseteq DOMAIN unit /\ i \notin T /\ Sharing(id, i) = T \cup {i}
  BY <1>3 DEF Sharing
<1>5. id = <<unit[i].name>>
  BY DEF Ready, NamesOK
<1>6. \A k \in 1 .. n : Named(k) /\ unit[k].id = id => k \in T
  <2> SUFFICES ASSUME NEW k \in 1 .. n, Named(k), unit[k].id = id PROVE Linkable(k)
    BY DEF Sharing
  <2> QED BY <1>3 DEF Ready, NamesOK
<1>7. ASSUME NEW k \in T PROVE SameLinked(i, k) /\ SameLinked(k, i) /\ k # i
  <2>1. Named(k) /\ Linkable(k) /\ unit[k].id = id /\ k \in DOMAIN unit
    BY <1>4 DEF Sharing
  <2>2. unit[k].id = <<unit[k].name>>
    BY <2>1 DEF Ready, NamesOK
  <2>3. unit[k].name = unit[i].name
    BY <1>5, <2>1, <2>2
  <2>4. Linked(k) /\ Linked(i)
    BY <2>1, HeadDeclared DEF Ready
  <2> QED BY <1>4, <2>3, <2>4 DEF SameLinked, Linked
<1>8. ASSUME T = {} PROVE FirstFor(info, i)
  <2>1. Blank(id, info)
    BY <1>2, <1>6, <1>8 DEF Passed, Untouched
  <2>2. ~Numeral(id)
    <3>1. \A a, b, c : <<a>> # <<b, c>>
      OBVIOUS
    <3> QED BY <1>5, <3>1 DEF Numeral
  <2>3. \A k \in 1 .. i - 1 : Named(k) /\ Linkable(k) => unit[k].name # unit[i].name
    <3> SUFFICES ASSUME NEW k \in 1 .. n, Named(k), Linkable(k), unit[k].name = unit[i].name
                 PROVE  FALSE
      OBVIOUS
    <3>1. unit[k].id = <<unit[k].name>>
      BY <1>3 DEF Ready, NamesOK
    <3> QED BY <1>5, <1>6, <1>8, <3>1
  <2>4. LinkageOfItems[i] = IF unit[i].storage = "static" THEN "internal" ELSE "external"
    BY <2>3, FirstLinkage DEF Ready
  <2> QED BY <2>1, <2>2, <2>4 DEF Blank, FirstFor
<1>9. ASSUME T # {}
      PROVE  Shared(info, T) /\ info.constant = "missing" /\ info.type # NoType
  <2>1. PICK k \in T : TRUE
    BY <1>9
  <2>2. k \in 1 .. n /\ Named(k) /\ Linkable(k) /\ unit[k].id = id
    BY <2>1 DEF Sharing
  <2>3. Touched(A, n, k)
    BY <2>2 DEF Passed
  <2>4. Shared(info, T) /\ info.constant = "missing"
    BY <2>2, <2>3 DEF Touched
  <2> QED BY <2>1, <2>4 DEF Shared, Typed, NoType
<1> QED BY <1>2, <1>4, <1>7, <1>8, <1>9

\* The linkage is that of all declarations, if they agree.
LEMMA LinkageShared ==
  ASSUME NEW i, NEW T, NEW info, NEW linkage,
         \A k \in T : SameLinked(i, k) /\ i \in DOMAIN unit /\ k \in DOMAIN unit,
         T = {} => linkage = LinkageOfItems[i] /\ linkage \in {"internal", "external"},
         T # {} => LinkedAs(info, T) /\ linkage = info.linkage,
         NEW after, after.linkage = linkage
  PROVE  LinkedAs(after, T \cup {i})
<1>1. CASE T = {}
  BY <1>1 DEF LinkedAs
<1>2. CASE T # {}
  <2>1. PICK k \in T : TRUE
    BY <1>2
  <2>2. ~MixedLinkage => LinkageOfItems[i] = LinkageOfItems[k]
    BY <2>1 DEF MixedLinkage
  <2>3. ~MixedLinkage => \A l \in T \cup {i} : linkage = LinkageOfItems[l]
    BY <1>2, <2>1, <2>2 DEF LinkedAs
  <2> QED BY <1>2, <2>3 DEF LinkedAs
<1> QED BY <1>1, <1>2

\* Two kinds of thing with one name.
LEMMA BadKinds ==
  ASSUME NEW i \in DOMAIN unit, NEW k \in DOMAIN unit, SameLinked(i, k), SameLinked(k, i),
         IsFunction(i) # IsFunction(k)
  PROVE  Bad
<1>1. KindConflict(FALSE)
  BY DEF KindConflict, IsFunction
<1> QED BY <1>1 DEF Bad, Undefined

\* Two definitions of one name.
LEMMA BadDefinitions ==
  ASSUME NEW i \in DOMAIN unit, NEW k \in DOMAIN unit, SameLinked(i, k), i # k,
         Defines(i), Defines(k)
  PROVE  Bad
BY DEF Bad, MustBeRejected, Redefined

\* What a conflict of linkages says of the unit.
LEMMA BadLinkages ==
  ASSUME NEW i \in DOMAIN unit, NEW T, T # {}, T \subseteq DOMAIN unit,
         \A k \in T : SameLinked(i, k), NEW info, LinkedAs(info, T),
         info.linkage # LinkageOfItems[i]
  PROVE  Bad
<1>1. PICK k \in T : TRUE
  OBVIOUS
<1>2. MixedLinkage
  BY <1>1 DEF LinkedAs, MixedLinkage
<1> QED BY <1>2 DEF Bad, Undefined

\* Update changes one symbol of a table.
LEMMA Updated ==
  ASSUME NEW t \in TypedTables, NEW id \in DOMAIN t.allSymbols, NEW info \in SymbolInfos
  PROVE  /\ Update(t, id, info) \in TypedTables
         /\ Update(t, id, info).allSymbols = [t.allSymbols EXCEPT ![id] = info]
<1>1. [t.allSymbols EXCEPT ![id] = info] \in Map(Ids, SymbolInfos)
  <2>1. t.allSymbols \in Map(Ids, SymbolInfos)
    BY DEF TypedTables
  <2>2. PICK S \in SUBSET Ids : t.allSymbols \in [S -> SymbolInfos]
    BY <2>1 DEF Map
  <2>3. [t.allSymbols EXCEPT ![id] = info] \in [S -> SymbolInfos]
    BY <2>2
  <2> QED BY <2>3 DEF Map
<1>2. PICK s : s = [t.allSymbols EXCEPT ![id] = info]
  OBVIOUS
<1>3. Update(t, id, info) = [t EXCEPT !.allSymbols = s]
  BY <1>2 DEF Update
<1> QED BY <1>1, <1>2, <1>3 DEF TypedTables

\* The outcome of binding a name: the next symbols are right, or the unit is not.
Binds(r, i, B) ==
  /\ r.ok \in BOOLEAN
  /\ r.ok => r.table \in TypedTables /\ Passed(r.table.allSymbols, i, B)
  /\ ~r.ok => Bad

\* An error that the unit has.
LEMMA ReportedBad ==
  ASSUME Bad, NEW t, NEW i, NEW B
  PROVE  Binds(Reported(t), i, B)
BY DEF Binds, Reported

\* A symbol that says what it should is bound to the name.
LEMMA BoundName ==
  ASSUME Ready, NEW n \in Nat, NEW i \in DOMAIN unit, i = n + 1, Named(i), Permitted(i),
         NEW t \in TypedTables, NEW B, Passed(t.allSymbols, n, B), NEW info \in SymbolInfos,
         IF Linkable(i) THEN Shared(info, Sharing(unit[i].id, i)) /\ info.constant = "missing"
                        ELSE Own(info, i)
  PROVE  Binds(Bound(t, unit[i].id, info), i, B)
<1>1. unit[i].id \in DOMAIN t.allSymbols
  BY NamesOfItems DEF Passed
<1>2. Passed([t.allSymbols EXCEPT ![unit[i].id] = info], i, B)
  BY NameBound
<1>3. /\ Update(t, unit[i].id, info) \in TypedTables
      /\ Update(t, unit[i].id, info).allSymbols = [t.allSymbols EXCEPT ![unit[i].id] = info]
  BY <1>1, Updated
<1> QED BY <1>2, <1>3 DEF Binds, Bound

\* BindFunction keeps the symbols right or meets an error.
LEMMA FunctionBound ==
  ASSUME Ready, NEW n \in Nat, NEW i \in DOMAIN unit, i = n + 1, HasParameters(i),
         NEW t \in TypedTables, NEW B, Passed(t.allSymbols, n, B),
         NEW isDefinition, isDefinition = (unit[i].kind = "function")
  PROVE  Binds(BindFunction(t, unit[i], isDefinition), i, B)
<1> DEFINE id == unit[i].id
<1>1. PICK A : A = t.allSymbols
  OBVIOUS
<1>2. PICK info, T : info = A[id] /\ T = Sharing(id, n)
  OBVIOUS
<1>3. Named(i) /\ Linkable(i) /\ Permitted(i) /\ IsFunction(i)
  BY DEF HasParameters, Named, Linkable, Permitted, IsFunction
<1>4. Passed(A, n, B)
  BY <1>1
<1>5. /\ id \in DOMAIN A /\ info \in SymbolInfos
      /\ T \subseteq DOMAIN unit /\ i \notin T /\ Sharing(id, i) = T \cup {i}
  BY <1>2, <1>3, <1>4, SharedSymbol
<1>6. T = {} => /\ info.type = NoType /\ info.duration = "automatic"
                /\ info.initial = "none" /\ info.constant = "missing" /\ ~info.defined
                /\ info.linkage = "external"
                /\ LinkageOfItems[i] = IF unit[i].storage = "static" THEN "internal" ELSE "external"
  <2>1. FirstFor(info, i) \/ \E k \in T : TRUE
    BY <1>2, <1>3, <1>4, SharedSymbol
  <2> QED BY <2>1 DEF FirstFor
<1>7. T # {} => Shared(info, T) /\ info.constant = "missing" /\ info.type # NoType
  BY <1>2, <1>3, <1>4, SharedSymbol
<1>8. \A k \in T : SameLinked(i, k) /\ SameLinked(k, i) /\ k # i
  BY <1>2, <1>3, <1>4, SharedSymbol
<1>9. PICK linkage : linkage = IF unit[i].storage = "static" THEN "internal" ELSE "external"
  OBVIOUS
<1>10. PICK after : after = [info EXCEPT !.type = IF info.type = NoType THEN "function" ELSE @,
                                         !.linkage = IF info.type = NoType THEN linkage ELSE @,
                                         !.defined = @ \/ isDefinition]
  OBVIOUS
<1>11. /\ after \in SymbolInfos
       /\ after.type = IF info.type = NoType THEN "function" ELSE info.type
       /\ after.linkage = IF info.type = NoType THEN linkage ELSE info.linkage
       /\ after.defined = (info.defined \/ isDefinition)
       /\ after.duration = info.duration /\ after.initial = info.initial
       /\ after.constant = info.constant
  <2>1. linkage \in {"external", "internal", "none"} /\ isDefinition \in BOOLEAN
    BY <1>9
  <2> QED BY <1>5, <1>10, <2>1 DEF SymbolInfos
<1>12. PICK conflict : conflict = (info.type # NoType /\ FunctionConflicts(info, linkage, isDefinition))
  OBVIOUS
<1>13. CASE conflict
  <2>1. BindFunction(t, unit[i], isDefinition) = Reported(t)
    BY <1>1, <1>2, <1>9, <1>12, <1>13 DEF BindFunction
  <2>2. T # {} /\ FunctionConflicts(info, linkage, isDefinition)
    BY <1>6, <1>12, <1>13
  <2>3. CASE info.type # "function"
    <3>1. PICK k \in T : TRUE
      BY <2>2
    <3>2. ~IsFunction(k)
      BY <1>7, <2>2, <2>3 DEF Shared, Typed
    <3>3. Bad
      BY <1>3, <1>5, <1>8, <3>1, <3>2, BadKinds
    <3> QED BY <2>1, <3>3, ReportedBad
  <2>4. CASE linkage = "internal" /\ info.linkage = "external"
    <3>1. LinkedAt(i) # {} /\ unit[i].storage = "static"
      BY <1>3, <1>9, <2>4, HeadDeclared DEF Ready, Linked
    <3>2. LinkageOfItems[i] = "internal"
      BY <3>1, LinkagesGiven DEF GivenLinkage, Ready
    <3>3. LinkedAs(info, T)
      BY <1>7, <2>2 DEF Shared
    <3>4. Bad
      BY <1>5, <1>8, <2>2, <2>4, <3>2, <3>3, BadLinkages
    <3> QED BY <2>1, <3>4, ReportedBad
  <2>5. CASE isDefinition /\ info.defined
    <3>1. PICK k \in T : unit[k].kind = "function"
      BY <1>7, <2>2, <2>5 DEF Shared, DefinedBy
    <3>2. Defines(k) /\ Defines(i)
      BY <2>5, <3>1 DEF Defines
    <3>3. Bad
      BY <1>5, <1>8, <3>1, <3>2, BadDefinitions
    <3> QED BY <2>1, <3>3, ReportedBad
  <2> QED BY <2>2, <2>3, <2>4, <2>5 DEF FunctionConflicts
<1>14. CASE ~conflict
  <2>1. BindFunction(t, unit[i], isDefinition) = Bound(t, id, after)
    <3>1. CASE info.type = NoType
      <4>1. after = [[info EXCEPT !.type = "function", !.linkage = linkage]
                       EXCEPT !.defined = @ \/ isDefinition]
        BY <1>5, <1>10, <3>1 DEF SymbolInfos
      <4> QED BY <1>1, <1>2, <1>9, <3>1, <4>1 DEF BindFunction
    <3>2. CASE info.type # NoType
      <4>1. after = [info EXCEPT !.defined = @ \/ isDefinition]
        BY <1>5, <1>10, <3>2 DEF SymbolInfos
      <4>2. ~(info.type # NoType /\ FunctionConflicts(info, linkage, isDefinition))
        BY <1>12, <1>14
      <4> QED BY <1>1, <1>2, <1>9, <3>2, <4>1, <4>2 DEF BindFunction
    <3> QED BY <3>1, <3>2
  <2>2. T # {} => /\ info.type = "function"
                  /\ ~(linkage = "internal" /\ info.linkage = "external")
                  /\ ~(isDefinition /\ info.defined)
    BY <1>7, <1>12, <1>14 DEF FunctionConflicts
  <2>3. after.type = "function"
    BY <1>6, <1>11, <2>2
  <2>4. \A k \in T : IsFunction(k)
    <3>1. \A k \in T : info.type = IF IsFunction(k) THEN "function" ELSE "object"
      BY <1>7 DEF Shared, Typed
    <3> QED BY <2>2, <3>1
  <2>5. Typed(after, T \cup {i})
    BY <1>3, <2>3, <2>4 DEF Typed
  <2>6. Stored(after)
    BY <1>6, <1>7, <1>11, <2>2, <2>3 DEF Stored, Shared
  <2>7. DefinedBy(after, T \cup {i})
    <3>1. info.defined <=> \E k \in T : unit[k].kind = "function"
      BY <1>6, <1>7 DEF Shared, DefinedBy
    <3> QED BY <1>11, <3>1 DEF DefinedBy
  <2>8. Initialized(after, T \cup {i})
    <3>1. ~GivesValue(i) /\ ~IsTentative(i)
      BY DEF HasParameters, GivesValue, IsTentative
    <3>2. Initialized(info, T)
      BY <1>6, <1>7 DEF Shared, Initialized
    <3> QED BY <1>11, <3>1, <3>2 DEF Initialized
  <2>9. DefinedOnce(T \cup {i})
    <3>1. \A k \in T : Defines(k) => unit[k].kind = "function"
      BY <2>4 DEF Defines, IsFunction
    <3>2. Defines(i) => isDefinition
      BY <1>3 DEF Defines, IsFunction
    <3>3. \A k \in T : ~(Defines(k) /\ Defines(i))
      BY <1>7, <2>2, <3>1, <3>2 DEF Shared, DefinedBy
    <3>4. T # {} => DefinedOnce(T)
      BY <1>7 DEF Shared
    <3> QED BY <3>3, <3>4 DEF DefinedOnce
  <2>10. LinkedAs(after, T \cup {i})
    <3>1. T = {} => /\ after.linkage = LinkageOfItems[i]
                    /\ after.linkage \in {"internal", "external"}
      BY <1>6, <1>9, <1>11
    <3>2. T # {} => LinkedAs(info, T) /\ after.linkage = info.linkage
      BY <1>7, <1>11 DEF Shared
    <3>3. \A k \in T : SameLinked(i, k) /\ i \in DOMAIN unit /\ k \in DOMAIN unit
      BY <1>5, <1>8
    <3> QED BY <3>1, <3>2, <3>3, LinkageShared
  <2>11. after.constant = "missing"
    BY <1>6, <1>7, <1>11
  <2>12. Shared(after, Sharing(id, i)) /\ after.constant = "missing"
    BY <1>5, <2>5, <2>6, <2>7, <2>8, <2>9, <2>10, <2>11 DEF Shared
  <2> QED BY <1>3, <1>11, <2>1, <2>12, BoundName
<1> QED BY <1>12, <1>13, <1>14

\* BindFileScopeObject keeps the symbols right or meets an error.
LEMMA FileScopeObjectBound ==
  ASSUME Ready, NEW n \in Nat, NEW i \in DOMAIN unit, i = n + 1,
         unit[i].kind = "variable", InFileScope(i),
         NEW t \in TypedTables, NEW B, Passed(t.allSymbols, n, B)
  PROVE  Binds(BindFileScopeObject(t, unit[i]), i, B)
<1> DEFINE id == unit[i].id
<1>1. PICK A : A = t.allSymbols
  OBVIOUS
<1>2. PICK info, T : info = A[id] /\ T = Sharing(id, n)
  OBVIOUS
<1>3. Named(i) /\ Linkable(i) /\ Permitted(i) /\ ~IsFunction(i)
  BY DEF Named, Linkable, Permitted, IsFunction
<1>4. Passed(A, n, B)
  BY <1>1
<1>5. /\ id \in DOMAIN A /\ info \in SymbolInfos
      /\ T \subseteq DOMAIN unit /\ i \notin T /\ Sharing(id, i) = T \cup {i}
  BY <1>2, <1>3, <1>4, SharedSymbol
<1>6. T = {} => /\ info.type = NoType /\ info.initial = "none" /\ ~info.defined
                /\ LinkageOfItems[i] = IF unit[i].storage = "static" THEN "internal" ELSE "external"
  <2>1. FirstFor(info, i) \/ \E k \in T : TRUE
    BY <1>2, <1>3, <1>4, SharedSymbol
  <2> QED BY <2>1 DEF FirstFor
<1>7. T # {} => Shared(info, T) /\ info.constant = "missing" /\ info.type # NoType
  BY <1>2, <1>3, <1>4, SharedSymbol
<1>8. \A k \in T : SameLinked(i, k) /\ SameLinked(k, i) /\ k # i
  BY <1>2, <1>3, <1>4, SharedSymbol
<1>9. PICK newInitial, declared, linkage, conflict :
        /\ newInitial = IF HasInitializer(unit[i]) THEN "initial"
                        ELSE IF unit[i].storage = "extern" THEN "none" ELSE "tentative"
        /\ declared = IF unit[i].storage = "static" THEN "internal" ELSE "external"
        /\ linkage = IF info.type # NoType /\ unit[i].storage = "extern" THEN info.linkage ELSE declared
        /\ conflict = \/ info.type # "object"
                      \/ unit[i].storage # "extern" /\ info.linkage # linkage
                      \/ info.initial = "initial" /\ newInitial = "initial"
  OBVIOUS
<1>10. /\ newInitial \in {"none", "tentative", "initial"}
       /\ newInitial = "initial" <=> GivesValue(i)
       /\ newInitial = "none" <=> ~GivesValue(i) /\ ~IsTentative(i)
       /\ Defines(i) <=> GivesValue(i)
  BY <1>9 DEF GivesValue, IsTentative, Defines
<1>11. PICK initial : initial = IF ReplacesInitial(info, newInitial) THEN newInitial ELSE info.initial
  OBVIOUS
<1>12. /\ initial \in {"none", "tentative", "initial"}
       /\ initial = "initial" <=> newInitial = "initial" \/ (info.type # NoType /\ info.initial = "initial")
       /\ initial = "none" <=> newInitial = "none" /\ (info.type # NoType => info.initial = "none")
  <2>1. info.initial \in {"none", "tentative", "initial"}
    BY <1>5 DEF SymbolInfos
  <2> QED BY <1>10, <1>11, <2>1 DEF ReplacesInitial, InitialRank
<1>13. PICK after : after = [info EXCEPT !.type = "object", !.linkage = linkage, !.duration = "static",
                                         !.initial = initial,
                                         !.constant = IF ReplacesInitial(info, newInitial)
                                                      THEN "missing" ELSE @]
  OBVIOUS
<1>14. /\ after \in SymbolInfos
       /\ after.type = "object" /\ after.linkage = linkage /\ after.duration = "static"
       /\ after.initial = initial /\ after.defined = info.defined
       /\ after.constant \in {"missing", info.constant}
  <2>1. linkage \in {"external", "internal", "none"}
    <3>1. info.linkage \in {"external", "internal", "none"}
      BY <1>5 DEF SymbolInfos
    <3> QED BY <1>9, <3>1
  <2> QED BY <1>5, <1>12, <1>13, <2>1 DEF SymbolInfos
<1>15. CASE info.type # NoType /\ conflict
  <2>1. BindFileScopeObject(t, unit[i]) = Reported(t)
    <3> DEFINE isInternal == unit[i].storage = "static"
    <3> QED BY <1>1, <1>2, <1>9, <1>15 DEF BindFileScopeObject
  <2>2. T # {}
    BY <1>6, <1>15
  <2>3. CASE info.type # "object"
    <3>1. PICK k \in T : TRUE
      BY <2>2
    <3>2. IsFunction(k)
      BY <1>7, <2>2, <2>3 DEF Shared, Typed
    <3>3. Bad
      BY <1>3, <1>5, <1>8, <3>1, <3>2, BadKinds
    <3> QED BY <2>1, <3>3, ReportedBad
  <2>4. CASE unit[i].storage # "extern" /\ info.linkage # linkage
    <3>1. LinkedAt(i) # {}
      BY <1>3, HeadDeclared DEF Ready, Linked
    <3>2. LinkageOfItems[i] = linkage
      BY <1>9, <2>4, <3>1, LinkagesGiven DEF GivenLinkage, Inherits, Ready
    <3>3. LinkedAs(info, T)
      BY <1>7, <2>2 DEF Shared
    <3>4. Bad
      BY <1>5, <1>8, <2>2, <2>4, <3>2, <3>3, BadLinkages
    <3> QED BY <2>1, <3>4, ReportedBad
  <2>5. CASE info.initial = "initial" /\ newInitial = "initial"
    <3>1. PICK k \in T : GivesValue(k)
      BY <1>7, <2>2, <2>5 DEF Shared, Initialized
    <3>2. Defines(k) /\ Defines(i)
      BY <1>10, <2>5, <3>1 DEF Defines, GivesValue
    <3>3. Bad
      BY <1>5, <1>8, <3>1, <3>2, BadDefinitions
    <3> QED BY <2>1, <3>3, ReportedBad
  <2> QED BY <1>9, <1>15, <2>3, <2>4, <2>5
<1>16. CASE ~(info.type # NoType /\ conflict)
  <2>1. BindFileScopeObject(t, unit[i]) = Bound(t, id, after)
    <3>1. CASE ReplacesInitial(info, newInitial)
      <4>1. after = [[info EXCEPT !.type = "object", !.linkage = linkage, !.duration = "static"]
                       EXCEPT !.initial = newInitial, !.constant = "missing"]
        BY <1>5, <1>11, <1>13, <3>1 DEF SymbolInfos
      <4> QED BY <1>1, <1>2, <1>9, <1>16, <3>1, <4>1 DEF BindFileScopeObject
    <3>2. CASE ~ReplacesInitial(info, newInitial)
      <4>1. after = [info EXCEPT !.type = "object", !.linkage = linkage, !.duration = "static"]
        BY <1>5, <1>11, <1>13, <3>2 DEF SymbolInfos
      <4> QED BY <1>1, <1>2, <1>9, <1>16, <3>2, <4>1 DEF BindFileScopeObject
    <3> QED BY <3>1, <3>2
  <2>2. T # {} => /\ info.type = "object"
                  /\ unit[i].storage # "extern" => info.linkage = linkage
                  /\ ~(info.initial = "initial" /\ newInitial = "initial")
    BY <1>7, <1>9, <1>16
  <2>3. \A k \in T : ~IsFunction(k)
    <3>1. \A k \in T : info.type = IF IsFunction(k) THEN "function" ELSE "object"
      BY <1>7 DEF Shared, Typed
    <3> QED BY <2>2, <3>1
  <2>4. Typed(after, T \cup {i})
    BY <1>3, <1>14, <2>3 DEF Typed
  <2>5. Stored(after)
    BY <1>14 DEF Stored
  <2>6. DefinedBy(after, T \cup {i})
    <3>1. info.defined <=> \E k \in T : unit[k].kind = "function"
      BY <1>6, <1>7 DEF Shared, DefinedBy
    <3> QED BY <1>14, <3>1 DEF DefinedBy
  <2>7. Initialized(after, T \cup {i})
    <3>1. T # {} => Initialized(info, T)
      BY <1>7 DEF Shared
    <3>2. T = {} => info.type = NoType
      BY <1>6
    <3>3. T # {} => info.type # NoType
      BY <1>7
    <3> QED BY <1>10, <1>12, <1>14, <3>1, <3>2, <3>3 DEF Initialized
  <2>8. DefinedOnce(T \cup {i})
    <3>1. \A k \in T : Defines(k) => GivesValue(k)
      BY <2>3 DEF Defines, IsFunction, GivesValue
    <3>2. \A k \in T : ~(Defines(k) /\ Defines(i))
      BY <1>7, <1>10, <2>2, <3>1 DEF Shared, Initialized
    <3>3. T # {} => DefinedOnce(T)
      BY <1>7 DEF Shared
    <3> QED BY <3>2, <3>3 DEF DefinedOnce
  <2>9. LinkedAs(after, T \cup {i})
    <3>1. T = {} => linkage = LinkageOfItems[i] /\ linkage \in {"internal", "external"}
      BY <1>6, <1>9
    <3>2. T # {} => LinkedAs(info, T) /\ linkage = info.linkage
      BY <1>7, <1>9, <2>2 DEF Shared
    <3>3. \A k \in T : SameLinked(i, k) /\ i \in DOMAIN unit /\ k \in DOMAIN unit
      BY <1>5, <1>8
    <3> QED BY <1>14, <3>1, <3>2, <3>3, LinkageShared
  <2>10. after.constant = "missing"
    <3>1. T # {} => info.constant = "missing"
      BY <1>7
    <3>2. T = {} => after.constant = "missing"
      BY <1>6, <1>5, <1>13 DEF ReplacesInitial, SymbolInfos
    <3> QED BY <1>14, <3>1, <3>2
  <2>11. Shared(after, Sharing(id, i)) /\ after.constant = "missing"
    BY <1>5, <2>4, <2>5, <2>6, <2>7, <2>8, <2>9, <2>10 DEF Shared
  <2> QED BY <1>3, <1>14, <2>1, <2>11, BoundName
<1> QED BY <1>15, <1>16

\* The symbol that the declaration of an object without linkage finds.
LEMMA OwnSymbol ==
  ASSUME Ready, NEW n \in Nat, NEW i \in DOMAIN unit, i = n + 1, Named(i), ~Linkable(i),
         NEW A, NEW B, Passed(A, n, B), NEW info, info = A[unit[i].id]
  PROVE  /\ info \in SymbolInfos
         /\ info.type = NoType /\ info.duration = "automatic" /\ info.initial = "none"
         /\ info.constant = "missing" /\ info.linkage = "none"
<1> DEFINE id == unit[i].id
<1>1. A \in Map(Ids, SymbolInfos) /\ DOMAIN A = DeclaredIds /\ B \subseteq ParameterIds
  BY DEF Passed
<1>2. id \in DOMAIN A /\ id \notin B
  BY <1>1, NamesOfItems
<1>3. info \in SymbolInfos
  BY <1>1, <1>2, Mapped
<1>4. 1 .. i = 1 .. n \cup {i} /\ i \notin 1 .. n /\ 1 .. i \subseteq DOMAIN unit
  BY ItemTyped DEF Ready
<1>5. \A k \in 1 .. n : Named(k) => unit[k].id # id
  <2> SUFFICES ASSUME NEW k \in 1 .. n, Named(k), unit[k].id = id PROVE FALSE
    OBVIOUS
  <2>1. NamesOK
    BY DEF Ready
  <2>2. k \in DOMAIN unit /\ k # i
    BY <1>4
  <2> QED BY <2>1, <2>2 DEF NamesOK
<1>6. Blank(id, info)
  BY <1>2, <1>5 DEF Passed, Untouched
<1>7. Numeral(id)
  BY DEF Ready, NamesOK
<1> QED BY <1>3, <1>6, <1>7 DEF Blank

\* BindBlockScopeObject keeps the symbol of a declaration that refers to another one.
LEMMA LocalExternBound ==
  ASSUME Ready, NEW n \in Nat, NEW i \in DOMAIN unit, i = n + 1,
         unit[i].kind = "variable", ~InFileScope(i), unit[i].storage = "extern",
         NEW t \in TypedTables, NEW B, Passed(t.allSymbols, n, B)
  PROVE  Binds(BindBlockScopeObject(t, unit[i]), i, B)
<1> DEFINE id == unit[i].id
<1>1. PICK A : A = t.allSymbols
  OBVIOUS
<1>2. PICK info, T : info = A[id] /\ T = Sharing(id, n)
  OBVIOUS
<1>3. Named(i) /\ Linkable(i) /\ ~IsFunction(i)
  BY DEF Named, Linkable, IsFunction
<1>4. Passed(A, n, B)
  BY <1>1
<1>5. /\ id \in DOMAIN A /\ info \in SymbolInfos
      /\ T \subseteq DOMAIN unit /\ i \notin T /\ Sharing(id, i) = T \cup {i}
  BY <1>2, <1>3, <1>4, SharedSymbol
<1>6. T = {} => /\ info.type = NoType /\ info.initial = "none" /\ ~info.defined
                /\ info.linkage = "external" /\ info.constant = "missing"
                /\ LinkageOfItems[i] = "external"
  <2>1. FirstFor(info, i) \/ \E k \in T : TRUE
    BY <1>2, <1>3, <1>4, SharedSymbol
  <2> QED BY <2>1 DEF FirstFor
<1>7. T # {} => Shared(info, T) /\ info.constant = "missing" /\ info.type # NoType
  BY <1>2, <1>3, <1>4, SharedSymbol
<1>8. \A k \in T : SameLinked(i, k) /\ SameLinked(k, i) /\ k # i
  BY <1>2, <1>3, <1>4, SharedSymbol
<1>9. CASE HasInitializer(unit[i])
  <2>1. InitializedLocalExtern
    BY <1>9 DEF InitializedLocalExtern
  <2>2. Bad
    BY <2>1 DEF Bad, MustBeRejected
  <2>3. BindBlockScopeObject(t, unit[i]) = Reported(t)
    BY <1>9 DEF BindBlockScopeObject
  <2> QED BY <2>2, <2>3, ReportedBad
<1>10. CASE ~HasInitializer(unit[i]) /\ info.type \notin {NoType, "object"}
  <2>1. PICK k \in T : TRUE
    BY <1>6, <1>10
  <2>2. IsFunction(k)
    BY <1>7, <1>10, <2>1 DEF Shared, Typed
  <2>3. Bad
    BY <1>3, <1>5, <1>8, <2>1, <2>2, BadKinds
  <2>4. BindBlockScopeObject(t, unit[i]) = Reported(t)
    BY <1>1, <1>2, <1>10 DEF BindBlockScopeObject
  <2> QED BY <2>3, <2>4, ReportedBad
<1>11. CASE ~HasInitializer(unit[i]) /\ info.type \in {NoType, "object"}
  <2>1. PICK after : after = IF info.type = NoType
                             THEN [[info EXCEPT !.type = "object"]
                                     EXCEPT !.initial = "none", !.duration = "static"] ELSE info
    OBVIOUS
  <2>2. BindBlockScopeObject(t, unit[i]) = Bound(t, id, after)
    BY <1>1, <1>2, <1>11, <2>1 DEF BindBlockScopeObject
  <2>3. /\ after \in SymbolInfos
        /\ after.type = "object" /\ after.linkage = info.linkage /\ after.defined = info.defined
        /\ after.constant = info.constant
        /\ info.type = NoType => after.initial = "none" /\ after.duration = "static"
        /\ info.type # NoType => after = info
    BY <1>5, <1>11, <2>1 DEF SymbolInfos
  <2>4. T # {} => info.type = "object" /\ after = info
    BY <1>7, <1>11, <2>3
  <2>5. Typed(after, T \cup {i})
    <3>1. \A k \in T : info.type = IF IsFunction(k) THEN "function" ELSE "object"
      BY <1>7 DEF Shared, Typed
    <3> QED BY <1>3, <2>3, <2>4, <3>1 DEF Typed
  <2>6. Stored(after)
    BY <1>6, <1>7, <2>3, <2>4 DEF Stored, Shared
  <2>7. DefinedBy(after, T \cup {i})
    <3>1. info.defined <=> \E k \in T : unit[k].kind = "function"
      BY <1>6, <1>7 DEF Shared, DefinedBy
    <3> QED BY <2>3, <3>1 DEF DefinedBy
  <2>8. Initialized(after, T \cup {i})
    <3>1. ~GivesValue(i) /\ ~IsTentative(i) /\ after.initial = info.initial
      BY <1>6, <2>3, <2>4 DEF GivesValue, IsTentative
    <3>2. Initialized(info, T)
      BY <1>6, <1>7 DEF Shared, Initialized
    <3> QED BY <3>1, <3>2 DEF Initialized
  <2>9. DefinedOnce(T \cup {i})
    <3>1. ~Defines(i)
      BY DEF Defines
    <3>2. T # {} => DefinedOnce(T)
      BY <1>7 DEF Shared
    <3> QED BY <3>1, <3>2 DEF DefinedOnce
  <2>10. LinkedAs(after, T \cup {i})
    <3>1. T = {} => info.linkage = LinkageOfItems[i] /\ info.linkage \in {"internal", "external"}
      BY <1>6
    <3>2. T # {} => LinkedAs(info, T) /\ info.linkage = info.linkage
      BY <1>7 DEF Shared
    <3>3. \A k \in T : SameLinked(i, k) /\ i \in DOMAIN unit /\ k \in DOMAIN unit
      BY <1>5, <1>8
    <3> QED BY <2>3, <3>1, <3>2, <3>3, LinkageShared
  <2>11. after.constant = "missing"
    BY <1>6, <1>7, <2>3
  <2>12. Shared(after, Sharing(id, i)) /\ after.constant = "missing"
    BY <1>5, <2>5, <2>6, <2>7, <2>8, <2>9, <2>10, <2>11 DEF Shared
  <2>13. Permitted(i)
    BY <1>11 DEF Permitted
  <2> QED BY <1>3, <2>2, <2>3, <2>12, <2>13, BoundName
<1> QED BY <1>9, <1>10, <1>11

\* BindBlockScopeObject describes an object without linkage.
LEMMA LocalObjectBound ==
  ASSUME Ready, NEW n \in Nat, NEW i \in DOMAIN unit, i = n + 1,
         Named(i), ~Linkable(i), unit[i].storage # "extern", Permitted(i),
         NEW t \in TypedTables, NEW B, Passed(t.allSymbols, n, B)
  PROVE  Binds(BindBlockScopeObject(t, unit[i]), i, B)
<1> DEFINE id == unit[i].id
<1>1. PICK A : A = t.allSymbols
  OBVIOUS
<1>2. PICK info : info = A[id]
  OBVIOUS
<1>3. /\ info \in SymbolInfos
      /\ info.type = NoType /\ info.duration = "automatic" /\ info.initial = "none"
      /\ info.constant = "missing" /\ info.linkage = "none"
  BY <1>1, <1>2, OwnSymbol
<1>4. CASE unit[i].storage = "static"
  <2>1. PICK constant : constant = LocalStaticConstant(info, unit[i])
    OBVIOUS
  <2>2. constant = IF HasInitializer(unit[i]) THEN "missing" ELSE "zero"
    BY <1>3, <2>1 DEF LocalStaticConstant
  <2>3. PICK after : after = [[info EXCEPT !.type = "object"]
                                EXCEPT !.initial = "initial", !.duration = "static", !.constant = constant]
    OBVIOUS
  <2>4. BindBlockScopeObject(t, unit[i]) = Bound(t, id, after)
    BY <1>1, <1>2, <1>4, <2>1, <2>3 DEF BindBlockScopeObject
  <2>5. /\ after \in SymbolInfos /\ after.type = "object" /\ after.linkage = "none"
        /\ after.duration = "static" /\ after.initial = "initial" /\ after.constant = constant
    BY <1>3, <2>2, <2>3 DEF SymbolInfos
  <2>6. Own(after, i)
    BY <1>4, <2>2, <2>5 DEF Own
  <2> QED BY <2>4, <2>5, <2>6, BoundName
<1>5. CASE unit[i].storage # "static"
  <2>1. PICK after : after = [[info EXCEPT !.type = "object"] EXCEPT !.duration = "automatic"]
    OBVIOUS
  <2>2. BindBlockScopeObject(t, unit[i]) = Bound(t, id, after)
    BY <1>1, <1>2, <1>5, <2>1 DEF BindBlockScopeObject
  <2>3. /\ after \in SymbolInfos /\ after.type = "object" /\ after.linkage = "none"
        /\ after.duration = "automatic" /\ after.initial = "none"
    BY <1>3, <2>1 DEF SymbolInfos
  <2>4. Own(after, i)
    BY <1>5, <2>3 DEF Own, Bare
  <2> QED BY <2>2, <2>3, <2>4, BoundName
<1> QED BY <1>4, <1>5

\* BindParameters describes every parameter of a definition and never meets an error.
LEMMA ParametersBound ==
  ASSUME Ready, NEW i \in DOMAIN unit, NEW ids \in Seq(Ids), NEW t \in TypedTables,
         NEW B, Passed(t.allSymbols, i, B),
         \A k \in DOMAIN ids : ids[k] \in ParameterIds \ B,
         \A k, l \in DOMAIN ids : ids[k] = ids[l] => k = l
  PROVE  /\ BindParameters(t, ids).ok = TRUE /\ BindParameters(t, ids).table \in TypedTables
         /\ Passed(BindParameters(t, ids).table.allSymbols, i, B \cup Range(ids))
<1> DEFINE N == Len(ids)
           base == [table |-> t, ok |-> TRUE]
           Rule(g, n) == g = [k \in 0 .. n |-> IF k = 0 THEN base ELSE BindParameter(g[k - 1], ids[k])]
           S == {n \in Nat : \E g : Rule(g, n)}
           Known(n) == B \cup {ids[k] : k \in 1 .. n}
           Visited(n, r) == /\ r = [table |-> r.table, ok |-> TRUE] /\ r.table \in TypedTables
                            /\ Passed(r.table.allSymbols, i, Known(n))
<1>1. N \in Nat /\ DOMAIN ids = 1 .. N /\ i \in Nat /\ i <= Len(unit)
  BY ItemTyped DEF Ready
<1>2. 0 \in S
  <2>1. Rule([k \in 0 .. 0 |-> base], 0)
    OBVIOUS
  <2> QED BY <2>1
<1>3. ASSUME NEW n \in Nat, n \in S PROVE n + 1 \in S
  <2>1. PICK g : Rule(g, n)
    BY <1>3
  <2> DEFINE h == [k \in 0 .. n + 1 |-> IF k = n + 1 THEN BindParameter(g[n], ids[n + 1]) ELSE g[k]]
  <2>2. \A k \in 0 .. n : h[k] = g[k]
    OBVIOUS
  <2>3. ASSUME NEW k \in 0 .. n + 1
        PROVE  h[k] = IF k = 0 THEN base ELSE BindParameter(h[k - 1], ids[k])
    <3> HIDE DEF base
    <3>1. CASE k = n + 1
      BY <2>2, <3>1
    <3>2. CASE k \in 1 .. n
      <4>1. h[k] = g[k] /\ h[k - 1] = g[k - 1]
        BY <2>2, <3>2
      <4> QED BY <2>1, <3>2, <4>1
    <3>3. CASE k = 0
      BY <2>1, <2>2, <3>3
    <3> QED BY <3>1, <3>2, <3>3
  <2>4. h = [k \in 0 .. n + 1 |-> h[k]]
    OBVIOUS
  <2> HIDE DEF h, base
  <2>5. Rule(h, n + 1)
    BY <2>3, <2>4
  <2> QED BY <2>5
<1>4. \A n \in Nat : n \in S
  BY <1>2, <1>3, SetInduction
<1>5. \E r : Rule(r, N)
  BY <1>1, <1>4
<1>6. BindParameters(t, ids) = (CHOOSE r : Rule(r, N))[N]
  BY DEF BindParameters
<1>7. PICK g : Rule(g, N) /\ BindParameters(t, ids) = g[N]
  BY <1>5, <1>6
<1> DEFINE T == {n \in Nat : n <= N => Visited(n, g[n])}
<1>8. Visited(0, base)
  <2>1. Known(0) = B
    OBVIOUS
  <2>2. base = [table |-> base.table, ok |-> TRUE] /\ base.table = t
    OBVIOUS
  <2> HIDE DEF base, Known
  <2> QED BY <2>1, <2>2
<1>9. ASSUME NEW n \in Nat, n + 1 <= N, NEW r, Visited(n, r)
      PROVE  Visited(n + 1, BindParameter(r, ids[n + 1]))
  <2>1. PICK A, p : A = r.table.allSymbols /\ p = ids[n + 1]
    OBVIOUS
  <2>2. p \in ParameterIds /\ p \notin Known(n) /\ Known(n + 1) = Known(n) \cup {p}
    BY <1>1, <1>9, <2>1
  <2>3. PICK info : info = A[p]
    OBVIOUS
  <2>4. Passed(A, i, Known(n))
    BY <1>9, <2>1
  <2> HIDE DEF Known
  <2>5. p \in DOMAIN A /\ A \in Map(Ids, SymbolInfos)
    BY <2>2, <2>4 DEF Passed, ParameterIds, DeclaredIds
  <2>6. info \in SymbolInfos
    BY <2>3, <2>5, Mapped
  <2>7. Blank(p, info)
    <3>1. \A k \in 1 .. i : Named(k) => unit[k].id # p
      <4>1. \A k \in 1 .. i : k \in DOMAIN unit
        BY ItemTyped DEF Ready
      <4> QED BY <2>2, <4>1, NamesOfItems
    <3> QED BY <2>2, <2>3, <2>4, <2>5, <3>1 DEF Passed, Untouched
  <2>8. PICK after : after = [info EXCEPT !.type = "object"]
    OBVIOUS
  <2>9. after \in SymbolInfos /\ Bare(after)
    BY <2>6, <2>7, <2>8 DEF SymbolInfos, Blank, Bare
  <2>10. Passed([A EXCEPT ![p] = after], i, Known(n) \cup {p})
    BY <1>1, <2>2, <2>4, <2>9, ParameterBound
  <2>11. BindParameter(r, p) = [r EXCEPT !.table = Update(@, p, after)]
    BY <2>1, <2>3, <2>7, <2>8 DEF BindParameter, Blank
  <2>12. PICK u : u = Update(r.table, p, after)
    OBVIOUS
  <2>13. u \in TypedTables /\ u.allSymbols = [A EXCEPT ![p] = after]
    BY <1>9, <2>1, <2>5, <2>9, <2>12, Updated
  <2>14. PICK b : b = BindParameter(r, p)
    OBVIOUS
  <2>15. b = [r EXCEPT !.table = u]
    BY <2>11, <2>12, <2>14
  <2>16. b = [table |-> b.table, ok |-> TRUE] /\ b.table = u
    <3>1. PICK s : s = r.table
      OBVIOUS
    <3>2. r = [table |-> s, ok |-> TRUE]
      BY <1>9, <3>1
    <3> QED BY <2>15, <3>2
  <2>17. Visited(n + 1, b)
    <3>1. Passed(b.table.allSymbols, i, Known(n + 1))
      BY <2>2, <2>10, <2>13, <2>16
    <3> QED BY <2>13, <2>16, <3>1
  <2> HIDE DEF Visited
  <2> QED BY <2>1, <2>14, <2>17
<1>10. \A n \in Nat : n \in T
  <2> HIDE DEF Visited, base
  <2>1. \A k \in 0 .. N : g[k] = IF k = 0 THEN base ELSE BindParameter(g[k - 1], ids[k])
    BY <1>7
  <2>2. 0 \in T
    BY <1>1, <1>8, <2>1
  <2>3. ASSUME NEW n \in Nat, n \in T PROVE n + 1 \in T
    <3>1. CASE n + 1 <= N
      <4>1. g[n + 1] = BindParameter(g[n], ids[n + 1])
        BY <1>1, <2>1, <3>1
      <4>2. Visited(n, g[n])
        BY <1>1, <2>3, <3>1
      <4> QED BY <1>9, <3>1, <4>1, <4>2
    <3>2. CASE ~(n + 1 <= N)
      BY <3>2
    <3> QED BY <3>1, <3>2
  <2> QED BY <2>2, <2>3, SetInduction
<1>11. Visited(N, g[N])
  <2> HIDE DEF Visited, N
  <2>1. N \in T /\ N <= N
    BY <1>1, <1>10
  <2> QED BY <2>1
<1>12. Known(N) = B \cup Range(ids)
  BY <1>1 DEF Range
<1>13. PICK w : w = BindParameters(t, ids) /\ w = g[N]
  BY <1>7
<1>14. w.ok = TRUE /\ w.table \in TypedTables /\ Passed(w.table.allSymbols, i, Known(N))
  <2>1. Visited(N, w)
    BY <1>11, <1>13
  <2> HIDE DEF Known
  <2> QED BY <2>1
<1> QED BY <1>12, <1>13, <1>14

\* The names of the parameters of the functions that the first n items define.
BoundUpTo(n) == UNION {Range(unit[j].parameterIds) : j \in {m \in 1 .. n : unit[m].kind = "function"}}

\* Defining a function adds the names of its parameters, which no item before it bound.
LEMMA ParametersAdded ==
  ASSUME Ready, NEW n \in Nat, NEW i \in DOMAIN unit, i = n + 1
  PROVE  /\ unit[i].kind # "function" => BoundUpTo(i) = BoundUpTo(n)
         /\ unit[i].kind = "function" =>
              /\ BoundUpTo(i) = BoundUpTo(n) \cup Range(unit[i].parameterIds)
              /\ \A k \in DOMAIN unit[i].parameterIds :
                   unit[i].parameterIds[k] \in ParameterIds \ BoundUpTo(n)
              /\ \A k, l \in DOMAIN unit[i].parameterIds :
                   unit[i].parameterIds[k] = unit[i].parameterIds[l] => k = l
<1>1. 1 .. i = 1 .. n \cup {i} /\ i \notin 1 .. n /\ 1 .. i \subseteq DOMAIN unit
  BY ItemTyped DEF Ready
<1>2. CASE unit[i].kind # "function"
  BY <1>1, <1>2 DEF BoundUpTo
<1>3. CASE unit[i].kind = "function"
  <2>1. BoundUpTo(i) = BoundUpTo(n) \cup Range(unit[i].parameterIds)
    BY <1>1, <1>3 DEF BoundUpTo
  <2>2. HasParameters(i)
    BY <1>3 DEF HasParameters
  <2>3. \A j \in DOMAIN unit : HasParameters(j) =>
          \A k \in DOMAIN unit[i].parameterIds, l \in DOMAIN unit[j].parameterIds :
            unit[i].parameterIds[k] = unit[j].parameterIds[l] => i = j /\ k = l
    BY <2>2 DEF Ready, NamesOK
  <2>4. ASSUME NEW k \in DOMAIN unit[i].parameterIds
        PROVE  unit[i].parameterIds[k] \in ParameterIds \ BoundUpTo(n)
    <3>1. PICK d \in DeclaredBy(i) : IsParameter(d, i, k)
      BY <2>2, ParameterDeclared DEF Ready
    <3>2. k # 0
      BY ItemTyped DEF Ready
    <3>3. d \in Declarations /\ d.index # 0 /\ d.id = unit[i].parameterIds[k]
      BY <3>1, <3>2 DEF IsParameter, Declarations
    <3>4. ASSUME NEW j \in 1 .. n, unit[j].kind = "function",
                 unit[i].parameterIds[k] \in Range(unit[j].parameterIds)
          PROVE  FALSE
      <4>1. PICK l \in DOMAIN unit[j].parameterIds :
               unit[i].parameterIds[k] = unit[j].parameterIds[l]
        BY <3>4 DEF Range
      <4>2. HasParameters(j) /\ j \in DOMAIN unit
        BY <1>1, <3>4 DEF HasParameters
      <4> QED BY <1>1, <2>3, <4>1, <4>2
    <3> QED BY <3>3, <3>4 DEF ParameterIds, BoundUpTo
  <2> QED BY <1>3, <2>1, <2>2, <2>3, <2>4
<1> QED BY <1>2, <1>3

\* An object that has the name of a function.
LEMMA NameOfFunction ==
  ASSUME Ready, NEW n \in Nat, NEW i \in DOMAIN unit, i = n + 1, unit[i].kind = "variable",
         NEW A, NEW B, Passed(A, n, B), A[unit[i].id].type = "function"
  PROVE  Bad
<1>1. PICK info, T : info = A[unit[i].id] /\ T = Sharing(unit[i].id, n)
  OBVIOUS
<1>2. Named(i) /\ ~IsFunction(i) /\ Linkable(i) \in BOOLEAN
  BY DEF Named, IsFunction, Linkable
<1>3. Linkable(i)
  <2>1. "function" # NoType
    BY DEF NoType
  <2> QED BY <1>1, <1>2, <2>1, OwnSymbol
<1>4. FirstFor(info, i) \/ \E k \in T : TRUE
  BY <1>1, <1>2, <1>3, SharedSymbol
<1>5. PICK k \in T : TRUE
  BY <1>1, <1>4 DEF FirstFor, NoType
<1>6. T # {} => Shared(info, T)
  BY <1>1, <1>2, <1>3, SharedSymbol
<1>7. T \subseteq DOMAIN unit /\ \A m \in T : SameLinked(i, m) /\ SameLinked(m, i)
  BY <1>1, <1>2, <1>3, SharedSymbol
<1>8. IsFunction(k)
  BY <1>1, <1>5, <1>6 DEF Shared, Typed
<1> QED BY <1>2, <1>5, <1>7, <1>8, BadKinds

\* VisitDeclaration keeps the symbols right or meets an error.
LEMMA DeclarationVisited ==
  ASSUME Ready, NEW n \in Nat, NEW i \in DOMAIN unit, i = n + 1,
         NEW t \in TypedTables, Passed(t.allSymbols, n, BoundUpTo(n))
  PROVE  Binds(VisitDeclaration(t, i), i, BoundUpTo(i))
<1>1. unit[i].kind \in Kinds
  BY ItemTyped DEF Ready, Items
<1>2. CASE unit[i].kind = "function"
  <2>1. HasParameters(i) /\ TRUE = (unit[i].kind = "function")
    BY <1>2 DEF HasParameters
  <2>2. PICK f : f = BindFunction(t, unit[i], TRUE)
    OBVIOUS
  <2>3. Binds(f, i, BoundUpTo(n))
    BY <2>1, <2>2, FunctionBound
  <2>4. VisitDeclaration(t, i) = IF f.ok THEN BindParameters(f.table, unit[i].parameterIds) ELSE f
    BY <1>2, <2>2 DEF VisitDeclaration
  <2>5. CASE ~f.ok
    BY <2>3, <2>4, <2>5 DEF Binds
  <2>6. CASE f.ok
    <3>1. f.table \in TypedTables /\ Passed(f.table.allSymbols, i, BoundUpTo(n))
      BY <2>3, <2>6 DEF Binds
    <3>2. unit[i].parameterIds \in Seq(Ids)
      BY ItemTyped DEF Ready
    <3>3. PICK r : r = BindParameters(f.table, unit[i].parameterIds)
      OBVIOUS
    <3>4. \A k \in DOMAIN unit[i].parameterIds :
            unit[i].parameterIds[k] \in ParameterIds \ BoundUpTo(n)
      BY <1>2, ParametersAdded
    <3>5. \A k, l \in DOMAIN unit[i].parameterIds :
            unit[i].parameterIds[k] = unit[i].parameterIds[l] => k = l
      BY <1>2, ParametersAdded
    <3>6. /\ r.ok = TRUE /\ r.table \in TypedTables
          /\ Passed(r.table.allSymbols, i, BoundUpTo(n) \cup Range(unit[i].parameterIds))
      BY <3>1, <3>2, <3>3, <3>4, <3>5, ParametersBound
    <3>7. BoundUpTo(i) = BoundUpTo(n) \cup Range(unit[i].parameterIds)
      BY <1>2, ParametersAdded
    <3> QED BY <2>4, <2>6, <3>3, <3>6, <3>7 DEF Binds
  <2> QED BY <2>3, <2>5, <2>6 DEF Binds
<1>3. unit[i].kind # "function" => BoundUpTo(i) = BoundUpTo(n)
  BY ParametersAdded
<1>4. CASE unit[i].kind = "prototype"
  <2>1. HasParameters(i) /\ FALSE = (unit[i].kind = "function")
    BY <1>4 DEF HasParameters
  <2>2. Binds(BindFunction(t, unit[i], FALSE), i, BoundUpTo(n))
    BY <2>1, FunctionBound
  <2>3. VisitDeclaration(t, i) = BindFunction(t, unit[i], FALSE)
    BY <1>4 DEF VisitDeclaration
  <2> QED BY <1>3, <1>4, <2>2, <2>3
<1>5. CASE unit[i].kind = "variable"
  <2>1. Named(i)
    BY <1>5 DEF Named
  <2>2. CASE t.allSymbols[unit[i].id].type = "function"
    <3>1. VisitDeclaration(t, i) = Reported(t)
      BY <1>5, <2>2 DEF VisitDeclaration
    <3>2. Bad
      BY <1>5, <2>2, NameOfFunction
    <3> QED BY <3>1, <3>2, ReportedBad
  <2>3. CASE t.allSymbols[unit[i].id].type # "function" /\ InFileScope(i)
    <3>1. VisitDeclaration(t, i) = BindFileScopeObject(t, unit[i])
      BY <1>5, <2>3 DEF VisitDeclaration
    <3>2. Binds(BindFileScopeObject(t, unit[i]), i, BoundUpTo(n))
      BY <1>5, <2>3, FileScopeObjectBound
    <3> QED BY <1>3, <1>5, <3>1, <3>2
  <2>4. CASE t.allSymbols[unit[i].id].type # "function" /\ ~InFileScope(i)
    <3>1. VisitDeclaration(t, i) = BindBlockScopeObject(t, unit[i])
      BY <1>5, <2>4 DEF VisitDeclaration
    <3>2. CASE unit[i].storage = "extern"
      <4>1. Binds(BindBlockScopeObject(t, unit[i]), i, BoundUpTo(n))
        BY <1>5, <2>4, <3>2, LocalExternBound
      <4> QED BY <1>3, <1>5, <3>1, <4>1
    <3>3. CASE unit[i].storage # "extern"
      <4>1. ~Linkable(i) /\ Permitted(i)
        BY <1>5, <2>4, <3>3 DEF Linkable, HasParameters, Permitted
      <4>2. Binds(BindBlockScopeObject(t, unit[i]), i, BoundUpTo(n))
        BY <2>1, <3>3, <4>1, LocalObjectBound
      <4> QED BY <1>3, <1>5, <3>1, <4>2
    <3> QED BY <3>2, <3>3
  <2> QED BY <2>2, <2>3, <2>4 DEF InFileScope
<1>6. CASE unit[i].kind = "for"
  <2>1. CASE unit[i].storage # "none"
    <3>1. VisitDeclaration(t, i) = Reported(t)
      BY <1>6, <2>1 DEF VisitDeclaration
    <3>2. Bad
      BY <1>6, <2>1 DEF Bad, MustBeRejected, StorageInForHeader
    <3> QED BY <3>1, <3>2, ReportedBad
  <2>2. CASE unit[i].storage = "none"
    <3>1. Named(i) /\ ~Linkable(i) /\ Permitted(i) /\ unit[i].storage # "extern"
      BY <1>6, <2>2 DEF Named, Linkable, HasParameters, Permitted
    <3>2. VisitDeclaration(t, i) = BindBlockScopeObject(t, unit[i])
      BY <1>6, <2>2 DEF VisitDeclaration
    <3>3. Binds(BindBlockScopeObject(t, unit[i]), i, BoundUpTo(n))
      BY <3>1, LocalObjectBound
    <3> QED BY <1>3, <1>6, <3>2, <3>3
  <2> QED BY <2>1, <2>2
<1>7. CASE unit[i].kind \in {"compound", "use"}
  <2>1. VisitDeclaration(t, i) = [table |-> t, ok |-> TRUE]
    BY <1>7 DEF VisitDeclaration
  <2>2. ~Named(i)
    BY <1>7 DEF Named
  <2>3. Passed(t.allSymbols, i, BoundUpTo(n))
    BY <2>2, NothingBound
  <2>4. BoundUpTo(i) = BoundUpTo(n)
    BY <1>3, <1>7
  <2>5. PICK r : r = VisitDeclaration(t, i)
    OBVIOUS
  <2>6. r.table = t /\ r.ok = TRUE
    BY <2>1, <2>5
  <2> QED BY <2>3, <2>4, <2>5, <2>6 DEF Binds
<1> QED BY <1>1, <1>2, <1>4, <1>5, <1>6, <1>7 DEF Kinds

\* Before the first item every symbol is as the resolver made it.
LEMMA NothingPassed ==
  ASSUME Core
  PROVE  table \in TypedTables /\ Passed(table.allSymbols, 0, {})
<1>1. PICK t, D, open : t = table /\ D = Declarations /\ open = Open
  OBVIOUS
<1>2. t \in Tables /\ NamesHold(t, D) /\ SymbolsHold(t, D)
  BY <1>1 DEF Core, Holds
<1>3. Infos \subseteq SymbolInfos
  <2> SUFFICES ASSUME NEW id \in Ids, NEW n \in Ident, NEW l \in {"external", "none"}
               PROVE  Symbol(id, n, l) \in SymbolInfos
    BY DEF Infos
  <2> QED BY DEF Symbol, SymbolInfos
<1>4. Map(Ids, Infos) \subseteq Map(Ids, SymbolInfos)
  <2> SUFFICES ASSUME NEW S \in SUBSET Ids, NEW f \in [S -> Infos] PROVE f \in [S -> SymbolInfos]
    BY DEF Map
  <2> QED BY <1>3
<1>5. t \in TypedTables
  BY <1>2, <1>4 DEF Tables, TypedTables
<1>6. t.allSymbols \in Map(Ids, SymbolInfos) /\ DOMAIN t.allSymbols = DeclaredIds
  BY <1>1, <1>2, <1>5 DEF TypedTables, SymbolsHold, DeclaredIds
<1>7. ASSUME NEW d \in D PROVE Blank(d.id, t.allSymbols[d.id])
  <2>1. t.allSymbols[d.id] = Symbol(d.id, d.name, LinkageOf(d))
    BY <1>2 DEF SymbolsHold
  <2>2. d.linked \in BOOLEAN /\ (d.linked => d.id = <<d.name>>) /\ (~d.linked => Numbered(t, d))
    BY <1>2 DEF NamesHold
  <2>3. CASE d.linked
    <3>1. ~Numeral(d.id)
      <4>1. \A a, b, c : <<a>> # <<b, c>>
        OBVIOUS
      <4> QED BY <2>2, <2>3, <4>1 DEF Numeral
    <3> QED BY <2>1, <2>3, <3>1 DEF Blank, Symbol, LinkageOf
  <2>4. CASE ~d.linked
    <3>1. Numeral(d.id)
      BY <2>2, <2>4 DEF Numbered, Numeral
    <3> QED BY <2>1, <2>4, <3>1 DEF Blank, Symbol, LinkageOf
  <2> QED BY <2>2, <2>3, <2>4
<1>8. Untouched(t.allSymbols, 0, {})
  <2> SUFFICES ASSUME NEW id \in DOMAIN t.allSymbols PROVE Blank(id, t.allSymbols[id])
    BY DEF Untouched
  <2>1. PICK d \in D : d.id = id
    BY <1>2 DEF SymbolsHold
  <2> QED BY <1>7, <2>1
<1>9. Passed(t.allSymbols, 0, {})
  <2>1. 1 .. 0 = {}
    OBVIOUS
  <2> QED BY <1>6, <1>8, <2>1 DEF Passed
<1> QED BY <1>1, <1>5, <1>9

\* The visits of all items: every symbol says what the unit declares, or the unit has an error.
LEMMA AllVisited ==
  ASSUME Core, Made, NamesOK
  PROVE  Binds(DeclarationsVisited, Len(unit), BoundUpTo(Len(unit)))
<1> DEFINE N == Len(unit)
           base == [table |-> table, ok |-> TRUE]
           Step(r, k) == IF r.ok THEN VisitDeclaration(r.table, k) ELSE r
           Rule(g, n) == g = [k \in 0 .. n |-> IF k = 0 THEN base ELSE Step(g[k - 1], k)]
           S == {n \in Nat : \E g : Rule(g, n)}
           Visited(n, r) == Binds(r, n, BoundUpTo(n))
<1>1. Ready /\ N \in Nat /\ DOMAIN unit = 1 .. N
  BY DEF Core, Shape, Ready, UnitOK
<1>2. 0 \in S
  <2>1. Rule([k \in 0 .. 0 |-> base], 0)
    OBVIOUS
  <2> QED BY <2>1
<1>3. ASSUME NEW n \in Nat, n \in S PROVE n + 1 \in S
  <2>1. PICK g : Rule(g, n)
    BY <1>3
  <2> DEFINE h == [k \in 0 .. n + 1 |-> IF k = n + 1 THEN Step(g[n], n + 1) ELSE g[k]]
  <2>2. \A k \in 0 .. n : h[k] = g[k]
    OBVIOUS
  <2>3. ASSUME NEW k \in 0 .. n + 1
        PROVE  h[k] = IF k = 0 THEN base ELSE Step(h[k - 1], k)
    <3> HIDE DEF base, Step
    <3>1. CASE k = n + 1
      BY <2>2, <3>1
    <3>2. CASE k \in 1 .. n
      <4>1. h[k] = g[k] /\ h[k - 1] = g[k - 1]
        BY <2>2, <3>2
      <4> QED BY <2>1, <3>2, <4>1
    <3>3. CASE k = 0
      BY <2>1, <2>2, <3>3
    <3> QED BY <3>1, <3>2, <3>3
  <2>4. h = [k \in 0 .. n + 1 |-> h[k]]
    OBVIOUS
  <2> HIDE DEF h, base, Step
  <2>5. Rule(h, n + 1)
    BY <2>3, <2>4
  <2> QED BY <2>5
<1>4. \A n \in Nat : n \in S
  BY <1>2, <1>3, SetInduction
<1>5. \E r : Rule(r, N)
  BY <1>1, <1>4
<1>6. DeclarationsVisited = (CHOOSE r : Rule(r, N))[N]
  BY DEF DeclarationsVisited
<1>7. PICK g : Rule(g, N) /\ DeclarationsVisited = g[N]
  BY <1>5, <1>6
<1> DEFINE T == {n \in Nat : n <= N => Visited(n, g[n])}
<1>8. Visited(0, base)
  <2>1. BoundUpTo(0) = {}
    BY DEF BoundUpTo
  <2>2. base.table = table /\ base.ok = TRUE
    OBVIOUS
  <2>3. table \in TypedTables /\ Passed(table.allSymbols, 0, {})
    BY NothingPassed
  <2> HIDE DEF base
  <2> QED BY <2>1, <2>2, <2>3 DEF Binds
<1>9. ASSUME NEW n \in Nat, n + 1 <= N, NEW r, Visited(n, r) PROVE Visited(n + 1, Step(r, n + 1))
  <2>1. n + 1 \in DOMAIN unit
    BY <1>1, <1>9
  <2>2. CASE r.ok
    <3>1. r.table \in TypedTables /\ Passed(r.table.allSymbols, n, BoundUpTo(n))
      BY <1>9, <2>2 DEF Binds
    <3>2. Binds(VisitDeclaration(r.table, n + 1), n + 1, BoundUpTo(n + 1))
      BY <1>1, <2>1, <3>1, DeclarationVisited
    <3> QED BY <2>2, <3>2
  <2>3. CASE ~r.ok
    BY <1>9, <2>3 DEF Binds
  <2> QED BY <2>2, <2>3
<1>10. \A n \in Nat : n \in T
  <2> HIDE DEF Visited, base, Step
  <2>1. \A k \in 0 .. N : g[k] = IF k = 0 THEN base ELSE Step(g[k - 1], k)
    BY <1>7
  <2>2. 0 \in T
    BY <1>1, <1>8, <2>1
  <2>3. ASSUME NEW n \in Nat, n \in T PROVE n + 1 \in T
    <3>1. CASE n + 1 <= N
      <4>1. g[n + 1] = Step(g[n], n + 1)
        BY <1>1, <2>1, <3>1
      <4>2. Visited(n, g[n])
        BY <1>1, <2>3, <3>1
      <4> QED BY <1>9, <3>1, <4>1, <4>2
    <3>2. CASE ~(n + 1 <= N)
      BY <3>2
    <3> QED BY <3>1, <3>2
  <2> QED BY <2>2, <2>3, SetInduction
<1>11. Visited(N, g[N])
  <2> HIDE DEF Visited, N
  <2>1. N \in T /\ N <= N
    BY <1>1, <1>10
  <2> QED BY <2>1
<1> QED BY <1>7, <1>11

\* Two items that declare one name with linkage share its symbol.
LEMMA SharedByBoth ==
  ASSUME Ready, NEW A, NEW B, Passed(A, Len(unit), B),
         NEW i \in DOMAIN unit, NEW j \in DOMAIN unit, SameLinked(i, j)
  PROVE  \E T : i \in T /\ j \in T /\ T \subseteq DOMAIN unit /\ Shared(A[unit[i].id], T)
<1>1. Named(i) /\ Named(j)
  BY DeclaredIs DEF SameLinked, LinkedAt, Ready
<1>2. Linkable(i) /\ Linkable(j)
  BY <1>1, HeadDeclared DEF SameLinked, Linked, Ready
<1>3. unit[i].id = unit[j].id
  BY <1>1, <1>2 DEF Ready, NamesOK, SameLinked
<1>4. i \in 1 .. Len(unit) /\ j \in 1 .. Len(unit) /\ DOMAIN unit = 1 .. Len(unit)
  BY ItemTyped DEF Ready
<1>5. Touched(A, Len(unit), i)
  BY <1>1, <1>4 DEF Passed
<1> QED BY <1>1, <1>2, <1>3, <1>4, <1>5 DEF Touched, Sharing

\* A unit whose declarations were all accepted has none of the errors this pass is for.
LEMMA DeclarationsAccepted ==
  ASSUME Ready, NEW A, NEW B, Passed(A, Len(unit), B)
  PROVE  /\ ~Redefined /\ ~KindConflict(TRUE) /\ ~KindConflict(FALSE)
         /\ ~InitializedLocalExtern /\ ~StorageInForHeader
<1>1. ASSUME NEW i \in DOMAIN unit, NEW j \in DOMAIN unit, SameLinked(i, j)
      PROVE  /\ Defines(i) /\ Defines(j) => i = j
             /\ ~(IsFunction(i) /\ ~IsFunction(j))
  <2>1. PICK T : i \in T /\ j \in T /\ T \subseteq DOMAIN unit /\ Shared(A[unit[i].id], T)
    BY <1>1, SharedByBoth
  <2>2. DefinedOnce(T) /\ Typed(A[unit[i].id], T)
    BY <2>1 DEF Shared
  <2> QED BY <2>1, <2>2 DEF DefinedOnce, Typed
<1>2. \A i \in DOMAIN unit : Permitted(i)
  BY ItemTyped DEF Passed, Ready
<1> QED BY <1>1, <1>2 DEF Redefined, KindConflict, InitializedLocalExtern, StorageInForHeader, Permitted

-----------------------------------------------------------------------------
(* The expression type checker.  A holds the symbols the declarations gave,*)
(* E what the initializers of the first n items made of them.              *)

\* An item whose initializer has to be a constant.
Initializes(A, k) == /\ unit[k].kind \in {"variable", "for"} /\ HasInitializer(unit[k])
                     /\ HasStaticDuration(A[unit[k].id])
SameButConstant(x, y) == /\ x.type = y.type /\ x.linkage = y.linkage /\ x.duration = y.duration
                         /\ x.initial = y.initial /\ x.defined = y.defined
Given(E, A, n) ==
  /\ E \in Map(Ids, SymbolInfos) /\ DOMAIN E = DOMAIN A
  /\ \A id \in DOMAIN A : SameButConstant(E[id], A[id])
  /\ \A id \in DOMAIN A :
       E[id].constant = IF \E k \in 1 .. n : Initializes(A, k) /\ unit[k].id = id
                        THEN "given" ELSE A[id].constant
  /\ \A k \in 1 .. n : Initializes(A, k) => unit[k].initializer = "constant"

\* The outcome of checking an initializer.
Checks(r, A, n) ==
  /\ r.ok \in BOOLEAN
  /\ r.ok => r.table \in TypedTables /\ Given(r.table.allSymbols, A, n)
  /\ ~r.ok => VariableStaticInitializer

\* The symbol of an item that declares an object has the duration C says.
LEMMA DurationOfItem ==
  ASSUME Ready, NEW A, NEW B, Passed(A, Len(unit), B), NEW i \in DOMAIN unit,
         unit[i].kind \in {"variable", "for"}, HasInitializer(unit[i])
  PROVE  /\ unit[i].id \in DOMAIN A /\ A[unit[i].id] \in SymbolInfos
         /\ HasStaticDuration(A[unit[i].id])
              <=> unit[i].kind = "variable" /\ (InFileScope(i) \/ unit[i].storage = "static")
<1> DEFINE id == unit[i].id
<1>1. Named(i) /\ ~HasParameters(i) /\ ~IsFunction(i)
  BY DEF Named, HasParameters, IsFunction
<1>2. A \in Map(Ids, SymbolInfos) /\ DOMAIN A = DeclaredIds
  BY DEF Passed
<1>3. id \in DOMAIN A /\ A[id] \in SymbolInfos
  BY <1>1, <1>2, NamesOfItems, Mapped
<1>4. i \in 1 .. Len(unit) /\ unit[i].storage \in {"none", "static", "extern"}
  BY ItemTyped DEF Ready
<1>5. Touched(A, Len(unit), i) /\ Permitted(i)
  BY <1>1, <1>4 DEF Passed
<1>6. CASE Linkable(i)
  <2>1. unit[i].kind = "variable" /\ InFileScope(i)
    BY <1>1, <1>5, <1>6 DEF Linkable, Permitted
  <2>2. i \in Sharing(id, Len(unit)) /\ Shared(A[id], Sharing(id, Len(unit)))
    BY <1>1, <1>4, <1>5, <1>6 DEF Touched, Sharing
  <2>3. A[id].type = "object"
    BY <1>1, <2>2 DEF Shared, Typed
  <2>4. A[id].duration = "static"
    BY <2>2, <2>3 DEF Shared, Stored
  <2> QED BY <1>3, <2>1, <2>4 DEF HasStaticDuration
<1>7. CASE ~Linkable(i)
  <2>1. Own(A[id], i)
    BY <1>5, <1>7 DEF Touched
  <2>2. unit[i].kind = "variable" => ~InFileScope(i)
    BY <1>7 DEF Linkable
  <2>3. unit[i].kind = "for" => unit[i].storage = "none"
    BY <1>5 DEF Permitted
  <2>4. A[id].duration = IF unit[i].storage = "static" THEN "static" ELSE "automatic"
    BY <2>1 DEF Own, Bare
  <2> QED BY <1>3, <2>2, <2>3, <2>4 DEF HasStaticDuration
<1> QED BY <1>6, <1>7

\* CheckInitializer gives the symbol its constant, or the initializer is none.
LEMMA InitializerChecked ==
  ASSUME Ready, NEW A, NEW B, Passed(A, Len(unit), B),
         NEW n \in Nat, NEW i \in DOMAIN unit, i = n + 1,
         NEW t \in TypedTables, Given(t.allSymbols, A, n)
  PROVE  Checks(CheckInitializer(t, i), A, i)
<1> DEFINE id == unit[i].id
<1>1. PICK E : E = t.allSymbols
  OBVIOUS
<1>2. Given(E, A, n)
  BY <1>1
<1>3. PICK r : r = CheckInitializer(t, i)
  OBVIOUS
<1>4. 1 .. i = 1 .. n \cup {i} /\ i \notin 1 .. n
  BY ItemTyped DEF Ready
<1>5. CASE unit[i].kind \notin {"variable", "for"} \/ ~HasInitializer(unit[i])
  <2>1. r.table = t /\ r.ok = TRUE
    BY <1>3, <1>5 DEF CheckInitializer
  <2>2. ~Initializes(A, i)
    BY <1>5 DEF Initializes
  <2>3. Given(E, A, i)
    BY <1>2, <1>4, <2>2 DEF Given
  <2> QED BY <1>1, <1>3, <2>1, <2>3 DEF Checks
<1>6. CASE unit[i].kind \in {"variable", "for"} /\ HasInitializer(unit[i])
  <2>1. id \in DOMAIN A /\ A[id] \in SymbolInfos
    BY <1>6, DurationOfItem
  <2>2. PICK info : info = E[id]
    OBVIOUS
  <2>3. id \in DOMAIN E /\ info \in SymbolInfos /\ SameButConstant(info, A[id])
    BY <1>2, <2>1, <2>2, Mapped DEF Given
  <2>4. HasStaticDuration(info) <=> HasStaticDuration(A[id])
    BY <2>3 DEF SameButConstant, HasStaticDuration
  <2>5. Initializes(A, i) <=> HasStaticDuration(info)
    BY <1>6, <2>4 DEF Initializes, HasStaticDuration
  <2>6. CASE ~HasStaticDuration(info)
    <3>1. r.table = t /\ r.ok = TRUE
      BY <1>1, <1>3, <2>2, <2>6 DEF CheckInitializer
    <3>2. Given(E, A, i)
      BY <1>2, <1>4, <2>5, <2>6 DEF Given
    <3> QED BY <1>1, <1>3, <3>1, <3>2 DEF Checks
  <2>7. CASE HasStaticDuration(info) /\ unit[i].initializer # "constant"
    <3>1. r.ok = FALSE
      BY <1>1, <1>3, <1>6, <2>2, <2>7 DEF CheckInitializer, Reported
    <3>2. unit[i].initializer \in Names
      <4>1. unit[i].initializer \in Names \cup {"none", "constant"}
        BY ItemTyped DEF Ready
      <4> QED BY <1>6, <2>7, <4>1 DEF HasInitializer
    <3>3. unit[i].kind = "variable" /\ (InFileScope(i) \/ unit[i].storage = "static")
      BY <1>6, <2>4, <2>7, DurationOfItem
    <3>4. VariableStaticInitializer
      BY <3>2, <3>3 DEF VariableStaticInitializer
    <3> QED BY <1>3, <3>1, <3>4 DEF Checks
  <2>8. CASE HasStaticDuration(info) /\ unit[i].initializer = "constant"
    <3>1. PICK after : after = [info EXCEPT !.constant = "given"]
      OBVIOUS
    <3>2. /\ after \in SymbolInfos /\ after.constant = "given" /\ SameButConstant(after, A[id])
      <4>1. after \in SymbolInfos /\ after.constant = "given" /\ SameButConstant(after, info)
        BY <2>3, <3>1 DEF SymbolInfos, SameButConstant
      <4> QED BY <2>3, <4>1 DEF SameButConstant
    <3>3. r = Bound(t, id, after)
      BY <1>1, <1>3, <1>6, <2>2, <2>8, <3>1 DEF CheckInitializer
    <3>4. PICK u : u = Update(t, id, after)
      OBVIOUS
    <3>5. u \in TypedTables /\ u.allSymbols = [E EXCEPT ![id] = after]
      BY <1>1, <2>3, <3>2, <3>4, Updated
    <3>6. PICK F : F = [E EXCEPT ![id] = after]
      OBVIOUS
    <3>7. /\ DOMAIN F = DOMAIN E /\ F[id] = after /\ \A x \in DOMAIN E : x # id => F[x] = E[x]
      BY <2>3, <3>6
    <3>8. F \in Map(Ids, SymbolInfos)
      BY <3>5, <3>6 DEF TypedTables
    <3>9. Initializes(A, i)
      BY <2>5, <2>8
    <3>10. \A x \in DOMAIN A : SameButConstant(F[x], A[x])
      BY <1>2, <3>2, <3>7 DEF Given
    <3>11. ASSUME NEW x \in DOMAIN A
           PROVE  F[x].constant = IF \E k \in 1 .. i : Initializes(A, k) /\ unit[k].id = x
                                  THEN "given" ELSE A[x].constant
      <4>1. CASE x = id
        BY <1>4, <3>2, <3>7, <3>9, <4>1
      <4>2. CASE x # id
        <5>1. F[x] = E[x]
          BY <1>2, <3>7, <4>2 DEF Given
        <5>2. (\E k \in 1 .. i : Initializes(A, k) /\ unit[k].id = x)
                <=> \E k \in 1 .. n : Initializes(A, k) /\ unit[k].id = x
          BY <1>4, <4>2
        <5> QED BY <1>2, <5>1, <5>2 DEF Given
      <4> QED BY <4>1, <4>2
    <3>12. \A k \in 1 .. i : Initializes(A, k) => unit[k].initializer = "constant"
      BY <1>2, <1>4, <2>8 DEF Given
    <3>13. Given(F, A, i)
      BY <1>2, <3>7, <3>8, <3>10, <3>11, <3>12 DEF Given
    <3>14. r.ok = TRUE /\ r.table = u
      BY <3>3, <3>4 DEF Bound
    <3> QED BY <1>3, <3>5, <3>6, <3>13, <3>14 DEF Checks
  <2>9. HasStaticDuration(info) \in BOOLEAN
    BY DEF HasStaticDuration
  <2> QED BY <2>6, <2>7, <2>8, <2>9
<1> QED BY <1>5, <1>6

\* No initializer was visited.
LEMMA NothingGiven ==
  ASSUME NEW A, A \in Map(Ids, SymbolInfos)
  PROVE  Given(A, A, 0)
<1>1. 1 .. 0 = {}
  OBVIOUS
<1> QED BY <1>1 DEF Given, SameButConstant

\* The visits of all initializers: every constant is there, or an initializer is none.
LEMMA AllChecked ==
  ASSUME Ready, table \in TypedTables, NEW B, Passed(table.allSymbols, Len(unit), B)
  PROVE  Checks(ExpressionsVisited, table.allSymbols, Len(unit))
<1> DEFINE N == Len(unit)
           A == table.allSymbols
           base == [table |-> table, ok |-> TRUE]
           Step(r, k) == IF r.ok THEN CheckInitializer(r.table, k) ELSE r
           Rule(g, n) == g = [k \in 0 .. n |-> IF k = 0 THEN base ELSE Step(g[k - 1], k)]
           S == {n \in Nat : \E g : Rule(g, n)}
           Visited(n, r) == Checks(r, A, n)
<1>1. N \in Nat /\ DOMAIN unit = 1 .. N
  BY DEF Ready, UnitOK
<1>2. 0 \in S
  <2>1. Rule([k \in 0 .. 0 |-> base], 0)
    OBVIOUS
  <2> QED BY <2>1
<1>3. ASSUME NEW n \in Nat, n \in S PROVE n + 1 \in S
  <2>1. PICK g : Rule(g, n)
    BY <1>3
  <2> DEFINE h == [k \in 0 .. n + 1 |-> IF k = n + 1 THEN Step(g[n], n + 1) ELSE g[k]]
  <2>2. \A k \in 0 .. n : h[k] = g[k]
    OBVIOUS
  <2>3. ASSUME NEW k \in 0 .. n + 1
        PROVE  h[k] = IF k = 0 THEN base ELSE Step(h[k - 1], k)
    <3> HIDE DEF base, Step
    <3>1. CASE k = n + 1
      BY <2>2, <3>1
    <3>2. CASE k \in 1 .. n
      <4>1. h[k] = g[k] /\ h[k - 1] = g[k - 1]
        BY <2>2, <3>2
      <4> QED BY <2>1, <3>2, <4>1
    <3>3. CASE k = 0
      BY <2>1, <2>2, <3>3
    <3> QED BY <3>1, <3>2, <3>3
  <2>4. h = [k \in 0 .. n + 1 |-> h[k]]
    OBVIOUS
  <2> HIDE DEF h, base, Step
  <2>5. Rule(h, n + 1)
    BY <2>3, <2>4
  <2> QED BY <2>5
<1>4. \A n \in Nat : n \in S
  BY <1>2, <1>3, SetInduction
<1>5. \E r : Rule(r, N)
  BY <1>1, <1>4
<1>6. ExpressionsVisited = (CHOOSE r : Rule(r, N))[N]
  BY DEF ExpressionsVisited
<1>7. PICK g : Rule(g, N) /\ ExpressionsVisited = g[N]
  BY <1>5, <1>6
<1> DEFINE T == {n \in Nat : n <= N => Visited(n, g[n])}
<1>8. Visited(0, base)
  <2>1. base.table = table /\ base.ok = TRUE
    OBVIOUS
  <2>2. Given(A, A, 0)
    BY NothingGiven DEF Passed
  <2> HIDE DEF base
  <2> QED BY <2>1, <2>2 DEF Checks
<1>9. ASSUME NEW n \in Nat, n + 1 <= N, NEW r, Visited(n, r) PROVE Visited(n + 1, Step(r, n + 1))
  <2>1. n + 1 \in DOMAIN unit
    BY <1>1, <1>9
  <2>2. CASE r.ok
    <3>1. r.table \in TypedTables /\ Given(r.table.allSymbols, A, n)
      BY <1>9, <2>2 DEF Checks
    <3>2. Checks(CheckInitializer(r.table, n + 1), A, n + 1)
      BY <2>1, <3>1, InitializerChecked
    <3> QED BY <2>2, <3>2
  <2>3. CASE ~r.ok
    BY <1>9, <2>3 DEF Checks
  <2> QED BY <2>2, <2>3
<1>10. \A n \in Nat : n \in T
  <2> HIDE DEF Visited, base, Step
  <2>1. \A k \in 0 .. N : g[k] = IF k = 0 THEN base ELSE Step(g[k - 1], k)
    BY <1>7
  <2>2. 0 \in T
    BY <1>1, <1>8, <2>1
  <2>3. ASSUME NEW n \in Nat, n \in T PROVE n + 1 \in T
    <3>1. CASE n + 1 <= N
      <4>1. g[n + 1] = Step(g[n], n + 1)
        BY <1>1, <2>1, <3>1
      <4>2. Visited(n, g[n])
        BY <1>1, <2>3, <3>1
      <4> QED BY <1>9, <3>1, <4>1, <4>2
    <3>2. CASE ~(n + 1 <= N)
      BY <3>2
    <3> QED BY <3>1, <3>2
  <2> QED BY <2>2, <2>3, SetInduction
<1>11. Visited(N, g[N])
  <2> HIDE DEF Visited, N
  <2>1. N \in T /\ N <= N
    BY <1>1, <1>10
  <2> QED BY <2>1
<1> QED BY <1>7, <1>11

\* A unit whose initializers were all accepted has none that had to be a constant and is not.
LEMMA InitializersAccepted ==
  ASSUME Ready, NEW A, NEW B, Passed(A, Len(unit), B), NEW E, Given(E, A, Len(unit))
  PROVE  ~VariableStaticInitializer
<1> SUFFICES ASSUME NEW i \in DOMAIN unit, unit[i].kind = "variable",
                    InFileScope(i) \/ unit[i].storage = "static", unit[i].initializer \in Names
             PROVE  FALSE
  BY DEF VariableStaticInitializer
<1>1. unit[i].initializer \notin {"none", "constant"}
  BY InitializersAssumption
<1>2. HasInitializer(unit[i])
  BY <1>1 DEF HasInitializer
<1>3. Initializes(A, i)
  BY <1>2, DurationOfItem DEF Initializes
<1>4. i \in 1 .. Len(unit)
  BY ItemTyped DEF Ready
<1> QED BY <1>1, <1>3, <1>4 DEF Given

\* After both passes: every symbol that is defined with a value has that value's constant.
LEMMA ConstantsGiven ==
  ASSUME Ready, NEW A, Passed(A, Len(unit), BoundUpTo(Len(unit))),
         NEW E, Given(E, A, Len(unit)), NEW id \in DOMAIN E, E[id].initial = "initial"
  PROVE  E[id].constant # "missing"
<1>1. /\ DOMAIN E = DOMAIN A /\ id \in DOMAIN A /\ A[id].initial = "initial"
      /\ E[id].constant = IF \E k \in 1 .. Len(unit) : Initializes(A, k) /\ unit[k].id = id
                          THEN "given" ELSE A[id].constant
  BY DEF Given, SameButConstant
<1>2. id \notin BoundUpTo(Len(unit))
  <2>1. \A x \in BoundUpTo(Len(unit)) : Bare(A[x])
    BY DEF Passed
  <2> QED BY <1>1, <2>1 DEF Bare
<1>3. PICK k \in 1 .. Len(unit) : Named(k) /\ unit[k].id = id
  BY <1>1, <1>2 DEF Passed, Untouched, Blank
<1>4. Touched(A, Len(unit), k)
  BY <1>3 DEF Passed
<1>5. DOMAIN unit = 1 .. Len(unit)
  BY ItemTyped DEF Ready
<1>6. CASE Linkable(k)
  <2>1. PICK T : T = Sharing(id, Len(unit)) /\ Shared(A[id], T)
    BY <1>3, <1>4, <1>6 DEF Touched
  <2>2. PICK l \in T : GivesValue(l)
    BY <1>1, <2>1 DEF Shared, Initialized
  <2>3. l \in 1 .. Len(unit) /\ unit[l].id = id
    BY <2>1 DEF Sharing
  <2>4. Initializes(A, l)
    BY <1>5, <2>2, <2>3, DurationOfItem DEF GivesValue, Initializes
  <2> QED BY <1>1, <2>3, <2>4
<1>7. CASE ~Linkable(k)
  <2>1. Own(A[id], k)
    BY <1>3, <1>4, <1>7 DEF Touched
  <2>2. /\ unit[k].storage = "static"
        /\ A[id].duration = "static"
        /\ A[id].constant = IF HasInitializer(unit[k]) THEN "missing" ELSE "zero"
    BY <1>1, <2>1 DEF Own, Bare
  <2>3. CASE HasInitializer(unit[k])
    <3>1. unit[k].kind \in {"variable", "for"}
      BY <1>3, <1>7 DEF Named, Linkable, HasParameters
    <3>2. Initializes(A, k)
      BY <1>3, <2>2, <2>3, <3>1 DEF Initializes, HasStaticDuration
    <3> QED BY <1>1, <1>3, <3>2
  <2>4. CASE ~HasInitializer(unit[k])
    BY <1>1, <2>2, <2>4
  <2> QED BY <2>3, <2>4
<1> QED BY <1>6, <1>7

-----------------------------------------------------------------------------
(* The invariant over the three passes.                                    *)

\* All declarations a use sees have its unique name.
Determined(u) == \A d \in Visible(Declarations, u.name, u.at, u.scope) : u.id = d.id

\* The unit after the resolver: it has no error of scope and what is read is declared.
Sane == /\ Ready /\ ~ScopeErrors
        /\ \A u \in Uses : u.at \in DOMAIN unit /\ Resolved(u) /\ Determined(u)

\* The resolver leaves the unit so.
LEMMA ResolverIsSane == Core /\ Made => Sane
<1> SUFFICES ASSUME Core, Made PROVE Sane
  OBVIOUS
<1>1. Ready /\ ~ScopeErrors
  BY NamesMade, NoErrors DEF Ready, Core, Shape
<1>2. PICK t, D : t = table /\ D = Declarations
  OBVIOUS
<1>3. NamesHold(t, D) /\ Distinct(D)
  BY <1>2 DEF Core, Holds
<1>4. ASSUME NEW u \in Uses PROVE Determined(u)
  <2>1. PICK d \in Visible(D, u.name, u.at, u.scope) : u.id = d.id
    BY <1>2 DEF Core, Resolved
  <2>2. ASSUME NEW e \in Visible(D, u.name, u.at, u.scope) PROVE e.id = d.id
    <3>1. d \in D /\ e \in D /\ d.name = e.name /\ d.scope = e.scope
      BY DEF Visible, Before
    <3>2. (d.linked /\ e.linked) \/ d = e
      BY <1>3, <3>1 DEF Distinct, Collide
    <3> QED BY <1>3, <3>1, <3>2 DEF NamesHold
  <2> QED BY <1>2, <2>1, <2>2 DEF Determined
<1> QED BY <1>1, <1>4 DEF Sane, Core
\* The symbols after the declarations, and after the initializers.
AllPassed(A)   == Passed(A, Len(unit), BoundUpTo(Len(unit)))
AllGiven(E, A) == Given(E, A, Len(unit))

\* The linkage C gives is about the unit only.
LEMMA LinkagesKept ==
  ASSUME unit' = unit
  PROVE  LinkageOfItems' = LinkageOfItems
BY DEF LinkageOfItems, GivenLinkage, PriorLinkage, LinkedAt, Inherits, Declarations, DeclaredBy,
       ScopeWithin, FunctionBody, DeclarationOf

\* So are the errors C knows.
LEMMA ErrorsKept ==
  ASSUME unit' = unit
  PROVE  (Bad' <=> Bad) /\ (ScopeErrors' <=> ScopeErrors)
<1>1. Declarations' = Declarations /\ Uses' = Uses
  BY DEF Declarations, Uses, DeclaredBy, UsedBy, ScopeWithin, FunctionBody
<1>2. ASSUME NEW use \in Uses PROVE Denoted(use)' = Denoted(use)
  BY <1>1 DEF Denoted, VisibleAt
<1>3. ScopeErrors' <=> ScopeErrors
  BY <1>1, <1>2 DEF ScopeErrors, Redeclared, Undeclared, LocalStaticFunction
<1>4. \A i, j : SameLinked(i, j)' <=> SameLinked(i, j)
  BY DEF SameLinked, LinkedAt, DeclaredBy, ScopeWithin, FunctionBody
<1>5. \A i : (Defines(i)' <=> Defines(i)) /\ (IsFunction(i)' <=> IsFunction(i))
  BY DEF Defines, IsFunction, InFileScope
<1>6. Redefined' <=> Redefined
  BY <1>4, <1>5 DEF Redefined
<1>7. \A i : ScopeWithin(unit[i].path)' = ScopeWithin(unit[i].path)
  BY DEF ScopeWithin, FunctionBody
<1>8. (KindConflict(TRUE)' <=> KindConflict(TRUE)) /\ (KindConflict(FALSE)' <=> KindConflict(FALSE))
  BY <1>4, <1>5, <1>7 DEF KindConflict
<1>9. (InitializedLocalExtern' <=> InitializedLocalExtern) /\ (StorageInForHeader' <=> StorageInForHeader)
  BY DEF InitializedLocalExtern, StorageInForHeader, InFileScope
<1>10. VariableStaticInitializer' <=> VariableStaticInitializer
  BY DEF VariableStaticInitializer, InFileScope
<1>11. MixedLinkage' <=> MixedLinkage
  BY <1>4, LinkagesKept DEF MixedLinkage
<1> QED BY <1>3, <1>6, <1>8, <1>9, <1>10, <1>11 DEF Bad, MustBeRejected, Undefined

\* And what the passes rely on.
LEMMA SanityKept ==
  ASSUME unit' = unit, Sane
  PROVE  Sane'
<1>1. Declarations' = Declarations /\ Uses' = Uses
  BY DEF Declarations, Uses, DeclaredBy, UsedBy, ScopeWithin, FunctionBody
<1>2. \A u \in Uses : (Resolved(u)' <=> Resolved(u)) /\ (Determined(u)' <=> Determined(u))
  BY <1>1 DEF Resolved, Determined
<1>3. UnitOK' <=> UnitOK
  BY DEF UnitOK
<1>4. Made' <=> Made
  BY DEF Made, Placed
<1>5. NamesOK' <=> NamesOK
  BY DEF NamesOK, Named, Linkable, HasParameters, InFileScope
<1> QED BY <1>1, <1>2, <1>3, <1>4, <1>5, ErrorsKept DEF Sane, Ready

\* And what the symbols say of it.
LEMMA SymbolsKept ==
  ASSUME unit' = unit, NEW A, NEW E
  PROVE  (AllPassed(A)' <=> AllPassed(A)) /\ (AllGiven(E, A)' <=> AllGiven(E, A))
<1>1. /\ DeclaredIds' = DeclaredIds /\ ParameterIds' = ParameterIds
      /\ BoundUpTo(Len(unit))' = BoundUpTo(Len(unit)) /\ (MixedLinkage' <=> MixedLinkage)
  <2>1. Declarations' = Declarations
    BY DEF Declarations, DeclaredBy, ScopeWithin, FunctionBody
  <2>2. \A i, j : SameLinked(i, j)' <=> SameLinked(i, j)
    BY DEF SameLinked, LinkedAt, DeclaredBy, ScopeWithin, FunctionBody
  <2>3. MixedLinkage' <=> MixedLinkage
    BY <2>2, LinkagesKept DEF MixedLinkage
  <2> QED BY <2>1, <2>3 DEF DeclaredIds, ParameterIds, BoundUpTo
<1>2. \A k : (Named(k)' <=> Named(k)) /\ (Linkable(k)' <=> Linkable(k))
  BY DEF Named, Linkable, HasParameters, InFileScope
<1>3. \A k : /\ IsFunction(k)' <=> IsFunction(k)
             /\ Defines(k)' <=> Defines(k)
             /\ GivesValue(k)' <=> GivesValue(k)
             /\ IsTentative(k)' <=> IsTentative(k)
             /\ Permitted(k)' <=> Permitted(k)
  BY DEF IsFunction, Defines, GivesValue, IsTentative, Permitted, InFileScope
<1>4. \A id, n : Sharing(id, n)' = Sharing(id, n)
  BY <1>2 DEF Sharing
<1>5. \A info, T : Shared(info, T)' <=> Shared(info, T)
  BY <1>1, <1>3, LinkagesKept DEF Shared, Typed, Stored, DefinedBy, Initialized, DefinedOnce, LinkedAs
<1>6. \A n, k : Touched(A, n, k)' <=> Touched(A, n, k)
  BY <1>2, <1>4, <1>5 DEF Touched, Own
<1>7. \A n, B : Untouched(A, n, B)' <=> Untouched(A, n, B)
  BY <1>2 DEF Untouched
<1>8. AllPassed(A)' <=> AllPassed(A)
  BY <1>1, <1>2, <1>3, <1>6, <1>7 DEF AllPassed, Passed
<1>9. AllGiven(E, A)' <=> AllGiven(E, A)
  BY DEF AllGiven, Given, Initializes
<1> QED BY <1>8, <1>9

\* What holds before each pass, unless an error was reported.
Expects(pass) ==
  CASE pass \in {"resolving", "declaring"} -> Core /\ Made
    [] pass = "checking" ->
         Sane /\ table \in TypedTables /\ \E A : A = table.allSymbols /\ AllPassed(A)
    [] pass = "generating" ->
         Sane /\ \E A, E : E = table.allSymbols /\ AllPassed(A) /\ AllGiven(E, A)
    [] OTHER -> TRUE
\* The inductive invariant of the three passes.
PassesInv == /\ rejected \in BOOLEAN
             /\ rejected => Bad /\ phase # "generating"
             /\ ~rejected => Expects(phase)

\* The unit is what it was, and so are the symbols: nothing was lost.
LEMMA ExpectedStill ==
  ASSUME unit' = unit, table' = table, nesting' = nesting, suppress' = suppress, NEW pass, Expects(pass)
  PROVE  Expects(pass)'
<1>1. Core' <=> Core
  BY Unchanged
<1>2. Made' <=> Made
  BY DEF Made, Placed
<1>3. Sane => Sane'
  BY SanityKept
<1>4. \A A, E : (AllPassed(A)' <=> AllPassed(A)) /\ (AllGiven(E, A)' <=> AllGiven(E, A))
  BY SymbolsKept
<1> QED BY <1>1, <1>2, <1>3, <1>4 DEF Expects

\* A unit of no items.
LEMMA EmptyMade == EmptyUnit => Core /\ Made
BY EmptyCore DEF EmptyUnit, Made

\* The same of the next state.
LEMMA NextEmptyMade == EmptyUnit' => Core' /\ Made'
BY EmptyMade, PTL

\* The invariant holds at the start.
LEMMA StartPasses == LInit => PassesInv
<1> SUFFICES ASSUME LInit PROVE PassesInv
  OBVIOUS
<1>1. EmptyUnit /\ rejected = FALSE /\ phase = "resolving"
  BY DEF LInit, Init, EmptyUnit
<1> QED BY <1>1, EmptyMade DEF PassesInv, Expects

\* The resolver's visits.
LEMMA ResolvePasses ==
  ASSUME PassesInv, ResolveItem
  PROVE  PassesInv'
<1>1. phase = "resolving" /\ phase' = "resolving" /\ Resolve
  BY DEF ResolveItem, passVars
<1>2. ~rejected
  BY <1>1 DEF Resolve, VisitFunctionDefinition, VisitPrototype, VisitVariable, VisitFor,
              VisitCompound, VisitUse, EndCompound, CanGrow
<1>3. Core /\ Made /\ rejected \in BOOLEAN
  BY <1>1, <1>2 DEF PassesInv, Expects
<1>4. Sound
  BY <1>1, <1>3, ResolveKeeps
<1>5. CASE rejected'
  <2>1. Bad'
    BY <1>4, <1>5 DEF Sound, Bad, MustBeRejected
  <2> QED BY <1>1, <1>5, <2>1 DEF PassesInv
<1>6. CASE ~rejected'
  <2>1. Core' /\ Made' /\ rejected' = FALSE
    BY <1>1, <1>3, <1>4, <1>6, MadeKept DEF Sound
  <2> QED BY <1>1, <2>1 DEF PassesInv, Expects
<1> QED BY <1>4, <1>5, <1>6 DEF Sound

\* The declaration type checker.
LEMMA DeclarationsPass ==
  ASSUME PassesInv, CheckDeclarations
  PROVE  PassesInv'
<1>1. PICK v : v = DeclarationsVisited
  OBVIOUS
<1>2. /\ phase = "declaring" /\ ~rejected /\ unit' = unit
      /\ table' = v.table /\ rejected' = ~v.ok
      /\ phase' = IF rejected' THEN phase ELSE "checking"
  BY <1>1 DEF CheckDeclarations, RunPass
<1>3. Core /\ Made
  BY <1>2 DEF PassesInv, Expects
<1>4. NamesOK
  BY <1>3, NamesMade
<1>5. Binds(v, Len(unit), BoundUpTo(Len(unit)))
  BY <1>1, <1>3, <1>4, AllVisited
<1>6. CASE ~v.ok
  <2>1. Bad'
    BY <1>2, <1>5, <1>6, ErrorsKept DEF Binds
  <2> QED BY <1>2, <1>6, <2>1 DEF PassesInv
<1>7. CASE v.ok
  <2>1. Sane
    BY <1>3, ResolverIsSane
  <2>2. Sane'
    BY <1>2, <2>1, SanityKept
  <2>3. PICK A : A = v.table.allSymbols
    OBVIOUS
  <2>4. v.table \in TypedTables /\ AllPassed(A)
    BY <1>5, <1>7, <2>3 DEF Binds, AllPassed
  <2>5. AllPassed(A)'
    BY <1>2, <2>4, SymbolsKept
  <2>6. table' \in TypedTables /\ A = table'.allSymbols
    BY <1>2, <2>3, <2>4
  <2>7. (table \in TypedTables)' /\ (\E X : X = table.allSymbols /\ AllPassed(X))'
    BY <2>5, <2>6 DEF TypedTables
  <2>8. rejected' = FALSE /\ phase' = "checking"
    BY <1>2, <1>7
  <2> QED BY <2>2, <2>7, <2>8 DEF PassesInv, Expects
<1> QED BY <1>6, <1>7

\* The expression type checker.
LEMMA ExpressionsPass ==
  ASSUME PassesInv, CheckExpressions
  PROVE  PassesInv'
<1>1. PICK v : v = ExpressionsVisited
  OBVIOUS
<1>2. /\ phase = "checking" /\ ~rejected /\ unit' = unit
      /\ table' = v.table /\ rejected' = ~v.ok
      /\ phase' = IF rejected' THEN phase ELSE "generating"
  BY <1>1 DEF CheckExpressions, RunPass
<1>3. Sane /\ table \in TypedTables /\ \E A : A = table.allSymbols /\ AllPassed(A)
  BY <1>2 DEF PassesInv, Expects
<1>4. PICK A : A = table.allSymbols /\ AllPassed(A)
  BY <1>3
<1>5. Passed(table.allSymbols, Len(unit), BoundUpTo(Len(unit)))
  BY <1>4 DEF AllPassed
<1>6. Checks(v, A, Len(unit))
  BY <1>1, <1>3, <1>4, <1>5, AllChecked DEF Sane
<1>7. CASE ~v.ok
  <2>1. Bad
    BY <1>6, <1>7 DEF Checks, Bad, MustBeRejected
  <2>2. Bad'
    BY <1>2, <2>1, ErrorsKept
  <2> QED BY <1>2, <1>7, <2>2 DEF PassesInv
<1>8. CASE v.ok
  <2>1. Sane'
    BY <1>2, <1>3, SanityKept
  <2>2. PICK E : E = v.table.allSymbols
    OBVIOUS
  <2>3. AllGiven(E, A)
    BY <1>6, <1>8, <2>2 DEF Checks, AllGiven
  <2>4. AllPassed(A)' /\ AllGiven(E, A)'
    BY <1>2, <1>4, <2>3, SymbolsKept
  <2>5. E = table'.allSymbols
    BY <1>2, <2>2
  <2>6. (\E X, Y : Y = table.allSymbols /\ AllPassed(X) /\ AllGiven(Y, X))'
    BY <2>4, <2>5
  <2>7. rejected' = FALSE /\ phase' = "generating"
    BY <1>2, <1>8
  <2> QED BY <2>1, <2>6, <2>7 DEF PassesInv, Expects
<1> QED BY <1>7, <1>8

\* Every step keeps the invariant.
LEMMA StepPasses == PassesInv /\ [LNext]_vars => PassesInv'
<1> SUFFICES ASSUME PassesInv, [LNext]_vars PROVE PassesInv'
  OBVIOUS
<1>1. CASE ResolveItem
  BY <1>1, ResolvePasses
<1>2. CASE EndUnit
  <2>1. /\ phase = "resolving" /\ phase' = "declaring" /\ ~rejected /\ rejected' = rejected
        /\ unit' = unit /\ table' = table /\ nesting' = nesting /\ suppress' = suppress
    BY <1>2 DEF EndUnit, scopeVars
  <2>2. Core /\ Made
    BY <2>1 DEF PassesInv, Expects
  <2>3. Core' /\ Made'
    BY <2>1, <2>2, Unchanged DEF Made, Placed
  <2>4. rejected' = FALSE
    BY <2>1 DEF PassesInv
  <2> QED BY <2>1, <2>3, <2>4 DEF PassesInv, Expects
<1>3. CASE CheckDeclarations
  BY <1>3, DeclarationsPass
<1>4. CASE CheckExpressions
  BY <1>4, ExpressionsPass
<1>5. CASE Generate
  <2>1. EmptyUnit' /\ rejected' = FALSE /\ phase' \in {"resolving", "linking"}
    BY <1>5 DEF Generate, BeginUnit, EmptyUnit
  <2>2. Core' /\ Made'
    BY <2>1, NextEmptyMade
  <2> QED BY <2>1, <2>2 DEF PassesInv, Expects
<1>6. CASE UNCHANGED vars
  <2>1. /\ unit' = unit /\ rejected' = rejected /\ phase' = phase
        /\ table' = table /\ nesting' = nesting /\ suppress' = suppress
    BY <1>6 DEF vars, scopeVars, passVars
  <2>2. CASE rejected
    <3>1. Bad'
      BY <2>1, <2>2, ErrorsKept DEF PassesInv
    <3> QED BY <2>1, <2>2, <3>1 DEF PassesInv
  <2>3. CASE ~rejected
    <3>1. PICK pass : pass = phase
      OBVIOUS
    <3>2. Expects(pass)
      BY <2>3, <3>1 DEF PassesInv
    <3>3. Expects(pass)'
      BY <2>1, <3>2, ExpectedStill
    <3>4. rejected' = FALSE /\ phase' = pass
      BY <2>1, <2>3, <3>1 DEF PassesInv
    <3> QED BY <3>3, <3>4 DEF PassesInv
  <2> QED BY <2>2, <2>3 DEF PassesInv
<1> QED BY <1>1, <1>2, <1>3, <1>4, <1>5, <1>6 DEF LNext

\* A unit that all passes accepted has no error that must be reported.
LEMMA AcceptedIsValid ==
  ASSUME Sane, NEW A, AllPassed(A), NEW E, AllGiven(E, A)
  PROVE  ~MustBeRejected
<1>1. Ready /\ Passed(A, Len(unit), BoundUpTo(Len(unit))) /\ Given(E, A, Len(unit)) /\ ~ScopeErrors
  BY DEF Sane, AllPassed, AllGiven
<1>2. ~Redefined /\ ~KindConflict(TRUE) /\ ~InitializedLocalExtern /\ ~StorageInForHeader
  BY <1>1, DeclarationsAccepted
<1>3. ~VariableStaticInitializer
  BY <1>1, InitializersAccepted
<1> QED BY <1>1, <1>2, <1>3 DEF MustBeRejected

\* A declaration that a use of its name sees is not that of a prototype's parameter.
LEMMA SeenParameter ==
  ASSUME Ready, NEW u \in Uses, NEW j \in DOMAIN unit, unit[j].kind = "prototype", j \in u.scope
  PROVE  FALSE
<1>1. PICK i \in DOMAIN unit : u \in UsedBy(i)
  BY DEF Uses
<1>2. unit[i].kind \in {"use", "variable", "for"}
  BY <1>1 DEF UsedBy
<1>3. /\ u.scope \subseteq ScopeWithin(unit[i].path) \cup {i}
      /\ unit[i].kind = "for" \/ u.scope \subseteq ScopeWithin(unit[i].path)
  <2>1. PICK here, item : here = ScopeWithin(unit[i].path) /\ item = unit[i]
    OBVIOUS
  <2>2. CASE item.kind = "use"
    BY <1>1, <2>1, <2>2 DEF UsedBy
  <2>3. CASE item.kind = "variable"
    BY <1>1, <2>1, <2>3 DEF UsedBy
  <2>4. CASE item.kind = "for"
    BY <1>1, <2>1, <2>4 DEF UsedBy
  <2> QED BY <1>2, <2>1, <2>2, <2>3, <2>4
<1>4. j \in ScopeWithin(unit[i].path)
  BY <1>3
<1>5. PICK k \in DOMAIN unit[i].path : unit[i].path[k] = j
  BY <1>4 DEF ScopeWithin, Range
<1>6. Placed(i)
  BY DEF Ready, Made
<1> QED BY <1>5, <1>6 DEF Placed

\* A declaration that a use sees gave its symbol a type.
LEMMA SeenIsTyped ==
  ASSUME Ready, NEW A, AllPassed(A), NEW u \in Uses, NEW d \in Declarations, d.scope \subseteq u.scope
  PROVE  d.id \in DOMAIN A /\ A[d.id].type # NoType
<1>1. Passed(A, Len(unit), BoundUpTo(Len(unit)))
  BY DEF AllPassed
<1>2. d.id \in DOMAIN A
  BY <1>1 DEF Passed, DeclaredIds
<1>3. PICK j \in DOMAIN unit : d \in DeclaredBy(j)
  BY DEF Declarations
<1>4. /\ Named(j) /\ d.at = j
      /\ \/ IsHead(d, j)
         \/ HasParameters(j) /\ \E k \in DOMAIN unit[j].parameterIds : IsParameter(d, j, k)
  BY <1>3, DeclaredIs DEF Ready
<1>5. j \in 1 .. Len(unit)
  BY ItemTyped DEF Ready
<1>6. CASE IsHead(d, j)
  <2>1. d.id = unit[j].id
    BY <1>6 DEF IsHead
  <2>2. Touched(A, Len(unit), j)
    BY <1>1, <1>4, <1>5 DEF Passed
  <2>3. CASE Linkable(j)
    <3>1. j \in Sharing(d.id, Len(unit)) /\ Shared(A[d.id], Sharing(d.id, Len(unit)))
      BY <1>4, <1>5, <2>1, <2>2, <2>3 DEF Touched, Sharing
    <3> QED BY <1>2, <3>1 DEF Shared, Typed, NoType
  <2>4. CASE ~Linkable(j)
    BY <1>2, <2>1, <2>2, <2>4 DEF Touched, Own, NoType
  <2> QED BY <2>3, <2>4
<1>7. CASE HasParameters(j) /\ \E k \in DOMAIN unit[j].parameterIds : IsParameter(d, j, k)
  <2>1. PICK k \in DOMAIN unit[j].parameterIds : IsParameter(d, j, k)
    BY <1>7
  <2>2. j \in u.scope /\ d.id = unit[j].parameterIds[k]
    BY <2>1 DEF IsParameter
  <2>3. unit[j].kind # "prototype"
    BY <2>2, SeenParameter
  <2>4. unit[j].kind = "function"
    BY <1>7, <2>3 DEF HasParameters
  <2>5. d.id \in BoundUpTo(Len(unit))
    BY <1>5, <2>1, <2>2, <2>4 DEF BoundUpTo, Range
  <2>6. Bare(A[d.id])
    BY <1>1, <2>5 DEF Passed
  <2> QED BY <1>2, <2>6 DEF Bare, NoType
<1> QED BY <1>4, <1>6, <1>7

\* A name that is read is that of a use.
LEMMA UsedIdRead ==
  ASSUME Ready, NEW id \in UsedIds
  PROVE  \E u \in Uses : u.id = id
<1>1. PICK i \in DOMAIN unit : id = unit[i].usedId /\ unit[i].usedId # Nobody
  BY DEF UsedIds
<1>2. Reads(unit[i])
  BY <1>1 DEF Ready, Made, Filled
<1>3. \E u \in UsedBy(i) : u.id = id
  <2>1. PICK item, here : item = unit[i] /\ here = ScopeWithin(unit[i].path)
    OBVIOUS
  <2>2. CASE item.kind = "use"
    BY <1>1, <2>1, <2>2 DEF UsedBy
  <2>3. CASE item.kind = "variable" /\ item.initializer \in Names
    BY <1>1, <2>1, <2>3 DEF UsedBy
  <2>4. CASE item.kind = "for" /\ item.initializer \in Names
    BY <1>1, <2>1, <2>4 DEF UsedBy
  <2> QED BY <1>2, <2>1, <2>2, <2>3, <2>4 DEF Reads
<1> QED BY <1>3 DEF Uses

\* Every name that is read has a symbol with a type.
LEMMA UsedIsTyped ==
  ASSUME Sane, NEW A, AllPassed(A), NEW id \in UsedIds
  PROVE  id \in DOMAIN A /\ A[id].type # NoType
<1>1. Ready
  BY DEF Sane
<1>2. PICK u \in Uses : u.id = id
  BY <1>1, UsedIdRead
<1>3. PICK d \in Visible(Declarations, u.name, u.at, u.scope) : u.id = d.id
  BY DEF Sane, Resolved
<1>4. d \in Declarations /\ d.scope \subseteq u.scope
  BY <1>3 DEF Visible, Before
<1> QED BY <1>1, <1>2, <1>3, <1>4, SeenIsTyped

\* Whatever the names, storage classes, parameter lists and initializers, and however
\* many and deep the items: the three passes together report an error only in a unit
\* that C does not define, and in every unit that breaks a rule C says must be diagnosed.
THEOREM UnitsJudged == LSpec => []AcceptsExactlyValidUnits
<1>1. PassesInv => AcceptsExactlyValidUnits
  <2> SUFFICES ASSUME PassesInv PROVE AcceptsExactlyValidUnits
    OBVIOUS
  <2>1. rejected => MustBeRejected \/ Undefined
    BY DEF PassesInv, Bad
  <2>2. ASSUME phase = "generating" PROVE ~MustBeRejected
    <3>1. Sane /\ \E A, E : E = table.allSymbols /\ AllPassed(A) /\ AllGiven(E, A)
      BY <2>2 DEF PassesInv, Expects
    <3> QED BY <3>1, AcceptedIsValid
  <2> QED BY <2>1, <2>2 DEF AcceptsExactlyValidUnits
<1> QED BY <1>1, StartPasses, StepPasses, PTL DEF LSpec

\* When code is generated, every static variable with an initial value has its constant,
\* and every name that is read has a symbol with a type, whatever the unit.
THEOREM SymbolsCompleted == LSpec => []SymbolsAreComplete
<1>1. PassesInv => SymbolsAreComplete
  <2> SUFFICES ASSUME PassesInv, phase = "generating"
               PROVE  /\ \A name \in StaticVariables(table) :
                           table.allSymbols[name].initial = "initial"
                             => table.allSymbols[name].constant # "missing"
                      /\ \A id \in UsedIds : table.allSymbols[id].type # NoType
    BY DEF SymbolsAreComplete
  <2>1. Sane /\ \E A, E : E = table.allSymbols /\ AllPassed(A) /\ AllGiven(E, A)
    BY DEF PassesInv, Expects
  <2>2. PICK A, E : E = table.allSymbols /\ AllPassed(A) /\ AllGiven(E, A)
    BY <2>1
  <2>3. /\ Ready /\ Passed(A, Len(unit), BoundUpTo(Len(unit))) /\ Given(E, A, Len(unit))
    BY <2>1, <2>2 DEF Sane, AllPassed, AllGiven
  <2>4. \A name \in StaticVariables(table) : E[name].initial = "initial" => E[name].constant # "missing"
    <3>1. \A name \in StaticVariables(table) : name \in DOMAIN E
      BY <2>2 DEF StaticVariables
    <3> QED BY <2>3, <3>1, ConstantsGiven
  <2>5. ASSUME NEW id \in UsedIds PROVE E[id].type # NoType
    <3>1. id \in DOMAIN A /\ A[id].type # NoType
      BY <2>1, <2>2, UsedIsTyped
    <3>2. E[id].type = A[id].type
      BY <2>3, <3>1 DEF Given, SameButConstant
    <3> QED BY <3>1, <3>2
  <2> QED BY <2>2, <2>4, <2>5
<1> QED BY <1>1, StartPasses, StepPasses, PTL DEF LSpec

-----------------------------------------------------------------------------
(* The object file of a unit: its symbols are what C says the unit defines.*)

\* A unit that all passes accepted and whose declarations agree on linkages: A holds
\* what the declarations gave its symbols, E what the symbols are in the end.
Compiled(A, E) == /\ Sane /\ AllPassed(A) /\ AllGiven(E, A) /\ E = table.allSymbols
                  /\ ~MixedLinkage

\* The two kinds of definitions in C that have no initializer, and a thing an item defines.
Tentative(i) == /\ LinkedAt(i) # {} /\ InFileScope(i)
                /\ unit[i].kind = "variable" /\ unit[i].storage # "extern"
                /\ ~\E j \in DOMAIN unit : SameLinked(i, j) /\ Defines(j)
LocalStatic(i) == unit[i].kind = "variable" /\ ~InFileScope(i) /\ unit[i].storage = "static"
Thing(i, linkage, value) == [id |-> unit[i].id, linkage |-> linkage, value |-> value]

\* The definitions, one kind after the other.
LEMMA DefinitionsAre ==
  CDefinitions =
    {Thing(i, LinkageOfItems[i], IF IsFunction(i) THEN "code" ELSE "given") :
       i \in {k \in DOMAIN unit : Defines(k)}}
    \cup {Thing(i, LinkageOfItems[i], "zero") : i \in {k \in DOMAIN unit : Tentative(k)}}
    \cup {Thing(i, "none", IF HasInitializer(unit[i]) THEN "given" ELSE "zero") :
            i \in {k \in DOMAIN unit : LocalStatic(k)}}
BY DEF CDefinitions, Tentative, LocalStatic, Thing

\* The symbols the assembly defines.
LEMMA DefinedSymbolsAre ==
  ASSUME NEW E, E = table.allSymbols, NEW S, S = DefinedSymbols(table)
  PROVE  /\ DOMAIN S = StaticVariables(table) \cup DefinedFunctions
         /\ \A n \in StaticVariables(table) :
              /\ S[n].global = IsGlobal(E[n])
              /\ S[n].value = IF E[n].initial = "initial" THEN E[n].constant ELSE "zero"
         /\ \A n \in DefinedFunctions \ StaticVariables(table) :
              S[n].global = IsGlobal(E[n]) /\ S[n].value = "code"
<1>1. PICK variables, functions : /\ variables = AddStaticVariables(table)
                                  /\ functions = DefineFunctions(table)
  OBVIOUS
<1>2. S = [name \in DOMAIN variables \cup DOMAIN functions |->
             IF name \in DOMAIN variables THEN variables[name] ELSE functions[name]]
  BY <1>1 DEF DefinedSymbols
<1>3. /\ DOMAIN variables = StaticVariables(table)
      /\ \A n \in StaticVariables(table) :
           /\ variables[n].global = IsGlobal(E[n])
           /\ variables[n].value = IF E[n].initial = "initial" THEN E[n].constant ELSE "zero"
  BY <1>1 DEF AddStaticVariables
<1>4. /\ DOMAIN functions = DefinedFunctions
      /\ \A n \in DefinedFunctions : functions[n].global = IsGlobal(E[n]) /\ functions[n].value = "code"
  BY <1>1 DEF DefineFunctions
<1> QED BY <1>2, <1>3, <1>4

\* What the symbol of an item with linkage says of all items of its name.
LEMMA LinkedItem ==
  ASSUME NEW A, NEW E, Compiled(A, E), NEW i \in DOMAIN unit, Named(i), Linkable(i),
         NEW id, id = unit[i].id, NEW T, T = Sharing(id, Len(unit))
  PROVE  /\ id \in DOMAIN A /\ A[id] \in SymbolInfos /\ i \in T /\ T \subseteq DOMAIN unit
         /\ Shared(A[id], T) /\ A[id].linkage = LinkageOfItems[i]
         /\ A[id].linkage \in {"internal", "external"} /\ ~Numeral(id)
         /\ \A k \in DOMAIN unit : SameLinked(i, k) <=> k \in T
<1>1. Ready /\ Passed(A, Len(unit), BoundUpTo(Len(unit)))
  BY DEF Compiled, Sane, AllPassed
<1>2. A \in Map(Ids, SymbolInfos) /\ DOMAIN A = DeclaredIds
  BY <1>1 DEF Passed
<1>3. id \in DOMAIN A /\ A[id] \in SymbolInfos
  BY <1>1, <1>2, NamesOfItems, Mapped
<1>4. DOMAIN unit = 1 .. Len(unit)
  BY <1>1, ItemTyped DEF Ready
<1>5. i \in T /\ T \subseteq DOMAIN unit
  BY <1>4 DEF Sharing
<1>6. Shared(A[id], T)
  BY <1>1, <1>4 DEF Passed, Touched
<1>7. A[id].linkage = LinkageOfItems[i] /\ A[id].linkage \in {"internal", "external"}
  BY <1>5, <1>6 DEF Compiled, Shared, LinkedAs
<1>8. \A k \in DOMAIN unit : Named(k) => (Linkable(k) <=> LinkedAt(k) # {})
  BY <1>1, HeadDeclared DEF Ready, Linked
<1>9. \A k \in DOMAIN unit : LinkedAt(k) # {} => Named(k)
  BY <1>1, DeclaredIs DEF Ready, LinkedAt
<1>10. \A k \in DOMAIN unit : Named(k) /\ Linkable(k) => unit[k].id = <<unit[k].name>>
  BY <1>1 DEF Ready, NamesOK
<1>11. \A k \in DOMAIN unit : SameLinked(i, k) <=> k \in T
  <2>1. id = <<unit[i].name>> /\ LinkedAt(i) # {}
    BY <1>8, <1>10
  <2>2. ASSUME NEW k \in DOMAIN unit, SameLinked(i, k) PROVE k \in T
    <3>1. Named(k) /\ Linkable(k) /\ unit[k].name = unit[i].name
      BY <1>8, <1>9, <2>2 DEF SameLinked
    <3>2. unit[k].id = id
      BY <1>10, <2>1, <3>1
    <3> QED BY <1>4, <3>1, <3>2 DEF Sharing
  <2>3. ASSUME NEW k \in T PROVE SameLinked(i, k)
    <3>1. k \in DOMAIN unit /\ Named(k) /\ Linkable(k) /\ unit[k].id = id
      BY <1>5 DEF Sharing
    <3>2. unit[k].name = unit[i].name
      BY <1>10, <2>1, <3>1
    <3> QED BY <1>8, <2>1, <3>1, <3>2 DEF SameLinked
  <2> QED BY <2>2, <2>3
<1>12. ~Numeral(id)
  <2>1. \A a, b, c : <<a>> # <<b, c>>
    OBVIOUS
  <2> QED BY <1>10, <2>1 DEF Numeral
<1> QED BY <1>3, <1>5, <1>6, <1>7, <1>11, <1>12

\* The symbol of an object without linkage, and its constant.
LEMMA OwnItem ==
  ASSUME NEW A, NEW E, Compiled(A, E), NEW i \in DOMAIN unit, Named(i), ~Linkable(i),
         NEW id, id = unit[i].id
  PROVE  /\ id \in DOMAIN A /\ A[id] \in SymbolInfos /\ Own(A[id], i) /\ Numeral(id)
         /\ A[id].duration = "static" <=> LocalStatic(i)
         /\ LocalStatic(i) =>
              /\ A[id].initial = "initial"
              /\ E[id].constant = IF HasInitializer(unit[i]) THEN "given" ELSE "zero"
<1>1. Ready /\ Passed(A, Len(unit), BoundUpTo(Len(unit))) /\ Given(E, A, Len(unit))
  BY DEF Compiled, Sane, AllPassed, AllGiven
<1>2. A \in Map(Ids, SymbolInfos) /\ DOMAIN A = DeclaredIds
  BY <1>1 DEF Passed
<1>3. id \in DOMAIN A /\ A[id] \in SymbolInfos
  BY <1>1, <1>2, NamesOfItems, Mapped
<1>4. DOMAIN unit = 1 .. Len(unit)
  BY <1>1, ItemTyped DEF Ready
<1>5. Own(A[id], i) /\ Permitted(i)
  BY <1>1, <1>4 DEF Passed, Touched
<1>6. Numeral(id)
  BY <1>1 DEF Ready, NamesOK
<1>7. unit[i].storage = "static" <=> LocalStatic(i)
  BY <1>5 DEF Named, Linkable, HasParameters, Permitted, LocalStatic
<1>8. A[id].duration = "static" <=> LocalStatic(i)
  BY <1>5, <1>7 DEF Own, Bare
<1>9. ASSUME LocalStatic(i)
      PROVE  /\ A[id].initial = "initial"
             /\ E[id].constant = IF HasInitializer(unit[i]) THEN "given" ELSE "zero"
  <2>1. /\ A[id].initial = "initial" /\ A[id].duration = "static"
        /\ A[id].constant = IF HasInitializer(unit[i]) THEN "missing" ELSE "zero"
    BY <1>5, <1>7, <1>9 DEF Own
  <2>2. E[id].constant = IF \E k \in 1 .. Len(unit) : Initializes(A, k) /\ unit[k].id = id
                         THEN "given" ELSE A[id].constant
    BY <1>1, <1>3 DEF Given
  <2>3. CASE HasInitializer(unit[i])
    <3>1. Initializes(A, i)
      BY <1>9, <2>1, <2>3 DEF Initializes, LocalStatic, HasStaticDuration
    <3> QED BY <1>4, <2>1, <2>2, <2>3, <3>1
  <2>4. CASE ~HasInitializer(unit[i])
    <3>1. ASSUME NEW k \in 1 .. Len(unit), Initializes(A, k), unit[k].id = id PROVE FALSE
      <4>1. Named(k) /\ k \in DOMAIN unit
        BY <1>4, <3>1 DEF Initializes, Named
      <4>2. i = k
        BY <1>1, <3>1, <4>1 DEF Ready, NamesOK
      <4> QED BY <2>4, <3>1, <4>2 DEF Initializes
    <3> QED BY <2>1, <2>2, <2>4, <3>1
  <2> QED BY <2>1, <2>3, <2>4
<1> QED BY <1>3, <1>5, <1>6, <1>8, <1>9

\* A symbol that says which thing is defined, with its linkage and its initial value.
Says(A, S, id, linkage, value) == id \in DOMAIN S /\ A[id].linkage = linkage /\ S[id].value = value

\* The names of static variables, from the symbols the declarations gave.
LEMMA StaticNames ==
  ASSUME NEW A, NEW E, Compiled(A, E), NEW id \in DOMAIN A
  PROVE  /\ id \in StaticVariables(table) <=> A[id].duration = "static" /\ A[id].initial # "none"
         /\ E[id].initial = A[id].initial /\ (IsGlobal(E[id]) <=> A[id].linkage # "internal")
<1>1. Given(E, A, Len(unit)) /\ E = table.allSymbols
  BY DEF Compiled, AllGiven
<1>2. id \in DOMAIN E /\ SameButConstant(E[id], A[id])
  BY <1>1 DEF Given
<1> QED BY <1>1, <1>2 DEF StaticVariables, SameButConstant, HasStaticDuration, IsGlobal

\* A function the unit defines.
LEMMA FunctionSaid ==
  ASSUME NEW A, NEW E, Compiled(A, E), NEW S, S = DefinedSymbols(table),
         NEW i \in DOMAIN unit, unit[i].kind = "function"
  PROVE  Says(A, S, unit[i].id, LinkageOfItems[i], "code")
<1>1. Named(i) /\ Linkable(i) /\ IsFunction(i)
  BY DEF Named, Linkable, HasParameters, IsFunction
<1>2. PICK id, T : id = unit[i].id /\ T = Sharing(id, Len(unit))
  OBVIOUS
<1>3. id \in DOMAIN A /\ i \in T /\ Shared(A[id], T) /\ A[id].linkage = LinkageOfItems[i]
  BY <1>1, <1>2, LinkedItem
<1>4. A[id].duration = "automatic"
  BY <1>1, <1>3 DEF Shared, Typed, Stored
<1>5. id \in DefinedFunctions /\ id \notin StaticVariables(table)
  BY <1>2, <1>3, <1>4, StaticNames DEF DefinedFunctions
<1>6. E = table.allSymbols
  BY DEF Compiled
<1> QED BY <1>2, <1>3, <1>5, <1>6, DefinedSymbolsAre DEF Says

\* An object the unit defines with a value.
LEMMA ObjectSaid ==
  ASSUME NEW A, NEW E, Compiled(A, E), NEW S, S = DefinedSymbols(table),
         NEW i \in DOMAIN unit, GivesValue(i)
  PROVE  Says(A, S, unit[i].id, LinkageOfItems[i], "given")
<1>1. Named(i) /\ Linkable(i) /\ ~IsFunction(i)
  BY DEF Named, Linkable, HasParameters, IsFunction, GivesValue
<1>2. PICK id, T : id = unit[i].id /\ T = Sharing(id, Len(unit))
  OBVIOUS
<1>3. id \in DOMAIN A /\ i \in T /\ Shared(A[id], T) /\ A[id].linkage = LinkageOfItems[i]
  BY <1>1, <1>2, LinkedItem
<1>4. A[id].duration = "static" /\ A[id].initial = "initial"
  BY <1>1, <1>3 DEF Shared, Typed, Stored, Initialized
<1>5. id \in StaticVariables(table) /\ E[id].initial = "initial"
  BY <1>3, <1>4, StaticNames
<1>6. Initializes(A, i) /\ i \in 1 .. Len(unit)
  BY <1>2, <1>4, ItemTyped DEF Initializes, GivesValue, HasStaticDuration, Compiled, Sane, Ready
<1>7. E[id].constant = "given"
  BY <1>2, <1>3, <1>6 DEF Compiled, AllGiven, Given
<1>8. E = table.allSymbols
  BY DEF Compiled
<1> QED BY <1>2, <1>3, <1>5, <1>7, <1>8, DefinedSymbolsAre DEF Says

\* An object the unit defines without a value.
LEMMA TentativeSaid ==
  ASSUME NEW A, NEW E, Compiled(A, E), NEW S, S = DefinedSymbols(table),
         NEW i \in DOMAIN unit, Tentative(i)
  PROVE  Says(A, S, unit[i].id, LinkageOfItems[i], "zero")
<1>1. Named(i) /\ Linkable(i) /\ ~IsFunction(i)
  BY DEF Named, Linkable, HasParameters, IsFunction, Tentative
<1>2. PICK id, T : id = unit[i].id /\ T = Sharing(id, Len(unit))
  OBVIOUS
<1>3. /\ id \in DOMAIN A /\ A[id] \in SymbolInfos /\ i \in T /\ T \subseteq DOMAIN unit
      /\ Shared(A[id], T) /\ A[id].linkage = LinkageOfItems[i]
      /\ \A k \in DOMAIN unit : SameLinked(i, k) <=> k \in T
  BY <1>1, <1>2, LinkedItem
<1>4. \A k \in T : ~Defines(k)
  BY <1>3 DEF Tentative
<1>5. (\A k \in T : ~GivesValue(k)) /\ IsTentative(i)
  <2>1. \A k \in T : ~GivesValue(k)
    BY <1>4 DEF Defines, GivesValue
  <2> QED BY <1>3, <2>1 DEF IsTentative, GivesValue, Tentative
<1>6. A[id].duration = "static" /\ A[id].initial # "initial" /\ A[id].initial # "none"
  BY <1>1, <1>3, <1>5 DEF Shared, Typed, Stored, Initialized
<1>7. id \in StaticVariables(table) /\ E[id].initial # "initial"
  BY <1>3, <1>6, StaticNames
<1>8. E = table.allSymbols
  BY DEF Compiled
<1> QED BY <1>2, <1>3, <1>7, <1>8, DefinedSymbolsAre DEF Says

\* A local object with static duration.
LEMMA LocalStaticSaid ==
  ASSUME NEW A, NEW E, Compiled(A, E), NEW S, S = DefinedSymbols(table),
         NEW i \in DOMAIN unit, LocalStatic(i)
  PROVE  /\ Says(A, S, unit[i].id, "none", IF HasInitializer(unit[i]) THEN "given" ELSE "zero")
         /\ Numeral(unit[i].id)
<1>1. Named(i) /\ ~Linkable(i)
  BY DEF Named, Linkable, HasParameters, LocalStatic
<1>2. PICK id : id = unit[i].id
  OBVIOUS
<1>3. /\ id \in DOMAIN A /\ Own(A[id], i) /\ Numeral(id) /\ A[id].duration = "static"
      /\ A[id].initial = "initial"
      /\ E[id].constant = IF HasInitializer(unit[i]) THEN "given" ELSE "zero"
  BY <1>1, <1>2, OwnItem
<1>4. id \in StaticVariables(table) /\ E[id].initial = "initial"
  BY <1>3, StaticNames
<1>5. E = table.allSymbols /\ A[id].linkage = "none"
  BY <1>3 DEF Compiled, Own
<1> QED BY <1>2, <1>3, <1>4, <1>5, DefinedSymbolsAre DEF Says

\* Every definition of C has its symbol, with the linkage and the value C says.
LEMMA DefinitionHasSymbol ==
  ASSUME NEW A, NEW E, Compiled(A, E), NEW S, S = DefinedSymbols(table), NEW d \in CDefinitions
  PROVE  /\ d = [id |-> d.id, linkage |-> d.linkage, value |-> d.value]
         /\ Says(A, S, d.id, d.linkage, d.value)
<1>1. CASE d \in {Thing(i, LinkageOfItems[i], IF IsFunction(i) THEN "code" ELSE "given") :
                    i \in {k \in DOMAIN unit : Defines(k)}}
  <2>1. PICK i \in DOMAIN unit : Defines(i) /\
               d = Thing(i, LinkageOfItems[i], IF IsFunction(i) THEN "code" ELSE "given")
    BY <1>1
  <2>2. CASE unit[i].kind = "function"
    BY <2>1, <2>2, FunctionSaid DEF Thing, IsFunction
  <2>3. CASE unit[i].kind # "function"
    <3>1. GivesValue(i) /\ ~IsFunction(i)
      BY <2>1, <2>3 DEF Defines, GivesValue, IsFunction
    <3> QED BY <2>1, <3>1, ObjectSaid DEF Thing
  <2> QED BY <2>2, <2>3
<1>2. CASE d \in {Thing(i, LinkageOfItems[i], "zero") : i \in {k \in DOMAIN unit : Tentative(k)}}
  <2>1. PICK i \in DOMAIN unit : Tentative(i) /\ d = Thing(i, LinkageOfItems[i], "zero")
    BY <1>2
  <2> QED BY <2>1, TentativeSaid DEF Thing
<1>3. CASE d \in {Thing(i, "none", IF HasInitializer(unit[i]) THEN "given" ELSE "zero") :
                    i \in {k \in DOMAIN unit : LocalStatic(k)}}
  <2>1. PICK i \in DOMAIN unit :
          LocalStatic(i) /\ d = Thing(i, "none", IF HasInitializer(unit[i]) THEN "given" ELSE "zero")
    BY <1>3
  <2> QED BY <2>1, LocalStaticSaid DEF Thing
<1> QED BY <1>1, <1>2, <1>3, DefinitionsAre

\* A thing that an item defines.
LEMMA ItemDefines ==
  ASSUME NEW i \in DOMAIN unit, Defines(i) \/ Tentative(i) \/ LocalStatic(i)
  PROVE  \E d \in CDefinitions : d.id = unit[i].id
<1>1. CASE Defines(i)
  <2>1. PICK d : d = Thing(i, LinkageOfItems[i], IF IsFunction(i) THEN "code" ELSE "given")
    OBVIOUS
  <2>2. d \in CDefinitions
    BY <1>1, <2>1, DefinitionsAre
  <2> QED BY <2>1, <2>2 DEF Thing
<1>2. CASE Tentative(i)
  <2>1. PICK d : d = Thing(i, LinkageOfItems[i], "zero")
    OBVIOUS
  <2>2. d \in CDefinitions
    BY <1>2, <2>1, DefinitionsAre
  <2> QED BY <2>1, <2>2 DEF Thing
<1>3. CASE LocalStatic(i)
  <2>1. PICK d : d = Thing(i, "none", IF HasInitializer(unit[i]) THEN "given" ELSE "zero")
    OBVIOUS
  <2>2. d \in CDefinitions
    BY <1>3, <2>1, DefinitionsAre
  <2> QED BY <2>1, <2>2 DEF Thing
<1> QED BY <1>1, <1>2, <1>3

\* Every symbol is that of a definition of C.
LEMMA SymbolHasDefinition ==
  ASSUME NEW A, NEW E, Compiled(A, E), NEW S, S = DefinedSymbols(table), NEW id \in DOMAIN S
  PROVE  /\ \E d \in CDefinitions : d.id = id
         /\ id \in DOMAIN A
         /\ S[id].global <=> A[id].linkage # "internal"
<1>1. E = table.allSymbols
  BY DEF Compiled
<1>2. DOMAIN S = StaticVariables(table) \cup DefinedFunctions
  BY <1>1, DefinedSymbolsAre
<1>3. /\ Ready /\ Passed(A, Len(unit), BoundUpTo(Len(unit))) /\ DOMAIN unit = 1 .. Len(unit)
      /\ DOMAIN E = DOMAIN A
  BY ItemTyped DEF Compiled, Sane, AllPassed, AllGiven, Given, Ready, UnitOK
<1>4. CASE id \in DefinedFunctions
  <2>1. PICK i \in DOMAIN unit : unit[i].kind = "function" /\ unit[i].id = id
    BY <1>4 DEF DefinedFunctions
  <2>2. \E d \in CDefinitions : d.id = id
    BY <2>1, ItemDefines DEF Defines
  <2>3. Named(i) /\ Linkable(i)
    BY <2>1 DEF Named, Linkable, HasParameters
  <2>4. id \in DOMAIN A
    BY <2>1, <2>3, LinkedItem
  <2>5. S[id].global = IsGlobal(E[id])
    BY <1>1, <1>4, DefinedSymbolsAre
  <2> QED BY <2>2, <2>4, <2>5, StaticNames
<1>5. CASE id \in StaticVariables(table)
  <2>1. id \in DOMAIN A
    BY <1>1, <1>3, <1>5 DEF StaticVariables
  <2>2. A[id].duration = "static" /\ A[id].initial # "none"
    BY <1>5, <2>1, StaticNames
  <2>3. id \notin BoundUpTo(Len(unit))
    <3>1. \A x \in BoundUpTo(Len(unit)) : Bare(A[x])
      BY <1>3 DEF Passed
    <3> QED BY <2>2, <3>1 DEF Bare
  <2>4. PICK k \in 1 .. Len(unit) : Named(k) /\ unit[k].id = id
    BY <1>3, <2>1, <2>2, <2>3 DEF Passed, Untouched, Blank
  <2>5. CASE Linkable(k)
    <3>1. PICK T : T = Sharing(id, Len(unit))
      OBVIOUS
    <3>2. T \subseteq DOMAIN unit /\ Shared(A[id], T)
      BY <1>3, <2>4, <2>5, <3>1, LinkedItem
    <3>3. CASE \E l \in T : GivesValue(l)
      <4>1. PICK l \in T : GivesValue(l)
        BY <3>3
      <4>2. Defines(l) /\ unit[l].id = id /\ l \in DOMAIN unit
        BY <3>1, <3>2, <4>1 DEF Defines, GivesValue, Sharing
      <4> QED BY <1>1, <1>5, <2>1, <4>2, ItemDefines, StaticNames, DefinedSymbolsAre
    <3>4. CASE \A l \in T : ~GivesValue(l)
      <4>1. PICK l \in T : IsTentative(l)
        BY <2>2, <3>2, <3>4 DEF Shared, Initialized
      <4>2. l \in DOMAIN unit /\ Named(l) /\ Linkable(l) /\ unit[l].id = id
        BY <3>1, <3>2 DEF Sharing
      <4>3. A[id].type = "object"
        BY <4>1, <3>2 DEF Shared, Typed, IsTentative, IsFunction
      <4>4. ASSUME NEW j \in DOMAIN unit, SameLinked(l, j), Defines(j) PROVE FALSE
        <5>1. j \in T
          BY <3>1, <4>2, <4>4, LinkedItem
        <5>2. ~IsFunction(j)
          BY <3>2, <4>3, <5>1 DEF Shared, Typed
        <5> QED BY <3>4, <4>4, <5>1, <5>2 DEF Defines, GivesValue, IsFunction
      <4>5. LinkedAt(l) # {}
        BY <1>3, <4>2, HeadDeclared DEF Ready, Linked
      <4>6. Tentative(l)
        BY <4>1, <4>4, <4>5 DEF Tentative, IsTentative
      <4> QED BY <1>1, <1>5, <2>1, <4>2, <4>6, ItemDefines, StaticNames, DefinedSymbolsAre
    <3> QED BY <3>3, <3>4
  <2>6. CASE ~Linkable(k)
    <3>1. LocalStatic(k)
      BY <1>3, <2>2, <2>4, <2>6, OwnItem
    <3>2. k \in DOMAIN unit
      BY <1>3
    <3> QED BY <1>1, <1>5, <2>1, <2>4, <3>1, <3>2, ItemDefines, StaticNames, DefinedSymbolsAre
  <2> QED BY <2>5, <2>6
<1> QED BY <1>2, <1>4, <1>5

\* A declaration of something that lasts as long as the program.
Lasting(d) == \/ d.linked
              \/ unit[d.at].kind = "variable" /\ unit[d.at].storage = "static"
\* What C says a use denotes that resolves to this declaration.
UseOfThing(u, d) == [id |-> u.id, linkage |-> IF d.linked THEN LinkageOfItems[d.at] ELSE "none"]

\* The uses of what lasts, from the uses and the declarations they see.
LEMMA UsesAre ==
  /\ \A c \in CUses : \E u \in Uses : \E d \in Visible(Declarations, u.name, u.at, u.scope) :
       Lasting(d) /\ c = UseOfThing(u, d)
  /\ \A u \in Uses : \A d \in Visible(Declarations, u.name, u.at, u.scope) :
       Lasting(d) => UseOfThing(u, d) \in CUses
<1>1. \A u : VisibleAt(u.name, u.at, u.scope) = Visible(Declarations, u.name, u.at, u.scope)
  BY DEF VisibleAt, Visible, Before
<1>2. CUses = UNION {{UseOfThing(u, d) :
                        d \in {e \in VisibleAt(u.name, u.at, u.scope) : Lasting(e)}} : u \in Uses}
  BY DEF CUses, UseOfThing, Lasting
<1>3. ASSUME NEW c \in CUses
      PROVE  \E u \in Uses : \E d \in Visible(Declarations, u.name, u.at, u.scope) :
               Lasting(d) /\ c = UseOfThing(u, d)
  <2>1. PICK u \in Uses :
          c \in {UseOfThing(u, d) : d \in {e \in VisibleAt(u.name, u.at, u.scope) : Lasting(e)}}
    BY <1>2
  <2>2. PICK d \in VisibleAt(u.name, u.at, u.scope) : Lasting(d) /\ c = UseOfThing(u, d)
    BY <2>1
  <2> QED BY <1>1, <2>2
<1>4. ASSUME NEW u \in Uses, NEW d \in Visible(Declarations, u.name, u.at, u.scope), Lasting(d)
      PROVE  UseOfThing(u, d) \in CUses
  <2>1. UseOfThing(u, d) \in {UseOfThing(u, e) : e \in {f \in VisibleAt(u.name, u.at, u.scope) : Lasting(f)}}
    BY <1>1, <1>4
  <2> QED BY <1>2, <2>1
<1> QED BY <1>3, <1>4

\* The symbol of a declaration that a use sees says whether it lasts, and its linkage.
LEMMA SeenThing ==
  ASSUME NEW A, NEW E, Compiled(A, E), NEW u \in Uses, NEW d \in Declarations,
         d.scope \subseteq u.scope, NEW id, id = d.id
  PROVE  /\ id \in DOMAIN A /\ id # Nobody
         /\ Lasting(d) <=> A[id].duration = "static" \/ A[id].type = "function"
         /\ d.linked => /\ A[id].linkage = LinkageOfItems[d.at]
                        /\ A[id].linkage \in {"internal", "external"} /\ ~Numeral(id)
         /\ Lasting(d) /\ ~d.linked => /\ A[id].linkage = "none" /\ Numeral(id)
                                       /\ \E e \in CDefinitions : e.id = id
<1>1. Ready /\ Passed(A, Len(unit), BoundUpTo(Len(unit))) /\ AllPassed(A)
  BY DEF Compiled, Sane, AllPassed
<1>2. id \in DOMAIN A
  BY <1>1, SeenIsTyped
<1>3. id # Nobody
  <2>1. A \in Map(Ids, SymbolInfos)
    BY <1>1 DEF Passed
  <2>2. id \in Ids
    BY <1>2, <2>1, Mapped
  <2>3. CASE id \in {<<n>> : n \in Ident}
    <3>1. PICK n \in Ident : id = <<n>>
      BY <2>3
    <3> QED BY <3>1 DEF Nobody
  <2>4. CASE id \in {<<n, c>> : n \in Ident, c \in Nat}
    <3>1. PICK n \in Ident, c \in Nat : id = <<n, c>>
      BY <2>4
    <3> QED BY <3>1 DEF Nobody
  <2> QED BY <2>2, <2>3, <2>4 DEF Ids
<1>4. PICK j \in DOMAIN unit : d \in DeclaredBy(j)
  BY DEF Declarations
<1>5. /\ Named(j) /\ d.at = j
      /\ \/ IsHead(d, j)
         \/ HasParameters(j) /\ \E k \in DOMAIN unit[j].parameterIds : IsParameter(d, j, k)
  BY <1>1, <1>4, DeclaredIs DEF Ready
<1>6. j \in 1 .. Len(unit)
  BY <1>1, ItemTyped DEF Ready
<1>7. CASE IsHead(d, j) /\ Linkable(j)
  <2>1. id = unit[j].id /\ d.linked
    BY <1>7 DEF IsHead
  <2>2. PICK T : T = Sharing(id, Len(unit))
    OBVIOUS
  <2>3. /\ A[id] \in SymbolInfos /\ j \in T /\ Shared(A[id], T) /\ A[id].linkage = LinkageOfItems[j]
        /\ A[id].linkage \in {"internal", "external"} /\ ~Numeral(id)
    BY <1>5, <1>7, <2>1, <2>2, LinkedItem
  <2>4. A[id].duration = "static" \/ A[id].type = "function"
    BY <2>3 DEF Shared, Typed, Stored
  <2> QED BY <1>2, <1>3, <1>5, <2>1, <2>3, <2>4 DEF Lasting
<1>8. CASE IsHead(d, j) /\ ~Linkable(j)
  <2>1. id = unit[j].id /\ d.linked = FALSE
    BY <1>8 DEF IsHead, Linkable
  <2>2. Own(A[id], j) /\ Numeral(id) /\ (A[id].duration = "static" <=> LocalStatic(j))
    BY <1>5, <1>8, <2>1, OwnItem
  <2>3. A[id].type = "object" /\ A[id].linkage = "none"
    BY <2>2 DEF Own
  <2>4. Lasting(d) <=> LocalStatic(j)
    BY <1>5, <1>8, <2>1 DEF Lasting, LocalStatic, Linkable
  <2>5. LocalStatic(j) => \E e \in CDefinitions : e.id = id
    BY <2>1, ItemDefines
  <2> QED BY <1>2, <1>3, <2>1, <2>2, <2>3, <2>4, <2>5
<1>9. CASE HasParameters(j) /\ \E k \in DOMAIN unit[j].parameterIds : IsParameter(d, j, k)
  <2>1. PICK k \in DOMAIN unit[j].parameterIds : IsParameter(d, j, k)
    BY <1>9
  <2>2. j \in u.scope /\ id = unit[j].parameterIds[k] /\ d.linked = FALSE
    BY <2>1 DEF IsParameter
  <2>3. unit[j].kind = "function"
    BY <1>1, <1>9, <2>2, SeenParameter DEF HasParameters
  <2>4. id \in BoundUpTo(Len(unit))
    BY <1>6, <2>1, <2>2, <2>3 DEF BoundUpTo, Range
  <2>5. Bare(A[id])
    BY <1>1, <2>4 DEF Passed
  <2>6. ~Lasting(d)
    BY <1>5, <2>2, <2>3 DEF Lasting
  <2> QED BY <1>2, <1>3, <2>2, <2>5, <2>6 DEF Bare
<1> QED BY <1>5, <1>7, <1>8, <1>9

\* A definition or a use in C: its linkage, and the unique name that goes with it.
WellLinked(x) == /\ x.linkage \in {"external", "internal", "none"}
                 /\ x.linkage = "none" <=> Numeral(x.id)

\* A use has the linkage of its symbol, and is defined in the unit unless that is external.
LEMMA UseIs ==
  ASSUME NEW A, NEW E, Compiled(A, E), ~UsedButUndefined, NEW c \in CUses
  PROVE  /\ WellLinked(c) /\ A[c.id].linkage = c.linkage
         /\ c.linkage # "external" => \E e \in CDefinitions : e.id = c.id
<1>1. PICK u \in Uses : \E d \in Visible(Declarations, u.name, u.at, u.scope) :
        Lasting(d) /\ c = UseOfThing(u, d)
  BY UsesAre
<1>2. PICK d \in Visible(Declarations, u.name, u.at, u.scope) : Lasting(d) /\ c = UseOfThing(u, d)
  BY <1>1
<1>3. d \in Declarations /\ d.scope \subseteq u.scope /\ u.id = d.id
  BY DEF Visible, Before, Compiled, Sane, Determined
<1>4. c.id = d.id /\ c.linkage = IF d.linked THEN LinkageOfItems[d.at] ELSE "none"
  BY <1>2, <1>3 DEF UseOfThing
<1>5. PICK id : id = d.id
  OBVIOUS
<1>6. CASE d.linked
  BY <1>2, <1>3, <1>4, <1>5, <1>6, SeenThing DEF WellLinked, UsedButUndefined
<1>7. CASE ~d.linked
  BY <1>2, <1>3, <1>4, <1>5, <1>7, SeenThing DEF WellLinked
<1> QED BY <1>6, <1>7

\* The assembly refers to what the unit uses.
LEMMA ReferencesAre ==
  ASSUME NEW A, NEW E, Compiled(A, E)
  PROVE  /\ \A id \in References(table) : \E c \in CUses : c.id = id
         /\ \A c \in CUses : c.id \in References(table)
<1>1. Ready /\ Given(E, A, Len(unit)) /\ E = table.allSymbols
  BY DEF Compiled, Sane, AllGiven
<1>2. \A id \in DOMAIN A : E[id].duration = A[id].duration /\ E[id].type = A[id].type
  BY <1>1 DEF Given, SameButConstant
<1>3. \A u \in Uses : \A d \in Visible(Declarations, u.name, u.at, u.scope) :
        d \in Declarations /\ d.scope \subseteq u.scope /\ u.id = d.id
  BY DEF Visible, Before, Compiled, Sane, Determined
<1>4. ASSUME NEW id \in References(table) PROVE \E c \in CUses : c.id = id
  <2>1. id \in UsedIds /\ (E[id].duration = "static" \/ E[id].type = "function")
    BY <1>1 DEF References, HasStaticDuration
  <2>2. PICK u \in Uses : u.id = id
    BY <1>1, <2>1, UsedIdRead
  <2>3. PICK d \in Visible(Declarations, u.name, u.at, u.scope) : u.id = d.id
    BY DEF Compiled, Sane, Resolved
  <2>4. id \in DOMAIN A /\ (Lasting(d) <=> A[id].duration = "static" \/ A[id].type = "function")
    BY <1>3, <2>2, <2>3, SeenThing
  <2>5. UseOfThing(u, d) \in CUses
    BY <1>2, <2>1, <2>4, UsesAre
  <2> QED BY <2>2, <2>5 DEF UseOfThing
<1>5. ASSUME NEW c \in CUses PROVE c.id \in References(table)
  <2>1. PICK u \in Uses : \E d \in Visible(Declarations, u.name, u.at, u.scope) :
          Lasting(d) /\ c = UseOfThing(u, d)
    BY UsesAre
  <2>2. PICK d \in Visible(Declarations, u.name, u.at, u.scope) : Lasting(d) /\ c = UseOfThing(u, d)
    BY <2>1
  <2>3. PICK id : id = d.id
    OBVIOUS
  <2>4. c.id = id /\ u.id = id
    BY <1>3, <2>2, <2>3 DEF UseOfThing
  <2>5. /\ id \in DOMAIN A /\ id # Nobody
        /\ A[id].duration = "static" \/ A[id].type = "function"
    BY <1>3, <2>2, <2>3, SeenThing
  <2>6. PICK i \in DOMAIN unit : u \in UsedBy(i)
    BY DEF Uses
  <2>7. unit[i].usedId = id
    BY <2>4, <2>6 DEF UsedBy
  <2>8. id \in UsedIds
    BY <2>5, <2>7 DEF UsedIds
  <2> QED BY <1>1, <1>2, <2>4, <2>5, <2>8 DEF References, HasStaticDuration
<1> QED BY <1>4, <1>5

\* So has a definition.
LEMMA DefinitionIs ==
  ASSUME NEW A, NEW E, Compiled(A, E), NEW d \in CDefinitions
  PROVE  WellLinked(d)
<1>1. CASE d \in {Thing(i, LinkageOfItems[i], IF IsFunction(i) THEN "code" ELSE "given") :
                    i \in {k \in DOMAIN unit : Defines(k)}}
  <2>1. PICK i \in DOMAIN unit : Defines(i) /\ d.id = unit[i].id /\ d.linkage = LinkageOfItems[i]
    BY <1>1 DEF Thing
  <2>2. Named(i) /\ Linkable(i)
    BY <2>1 DEF Defines, Named, Linkable, HasParameters
  <2> QED BY <2>1, <2>2, LinkedItem DEF WellLinked
<1>2. CASE d \in {Thing(i, LinkageOfItems[i], "zero") : i \in {k \in DOMAIN unit : Tentative(k)}}
  <2>1. PICK i \in DOMAIN unit : Tentative(i) /\ d.id = unit[i].id /\ d.linkage = LinkageOfItems[i]
    BY <1>2 DEF Thing
  <2>2. Named(i) /\ Linkable(i)
    BY <2>1 DEF Tentative, Named, Linkable, HasParameters
  <2> QED BY <2>1, <2>2, LinkedItem DEF WellLinked
<1>3. CASE d \in {Thing(i, "none", IF HasInitializer(unit[i]) THEN "given" ELSE "zero") :
                    i \in {k \in DOMAIN unit : LocalStatic(k)}}
  <2>1. PICK i \in DOMAIN unit : LocalStatic(i) /\ d.id = unit[i].id /\ d.linkage = "none"
    BY <1>3 DEF Thing
  <2>2. PICK S : S = DefinedSymbols(table)
    OBVIOUS
  <2>3. Numeral(d.id)
    BY <2>1, <2>2, LocalStaticSaid
  <2> QED BY <2>1, <2>3 DEF WellLinked
<1> QED BY <1>1, <1>2, <1>3, DefinitionsAre

\* What an object file says of its unit: its symbols are the definitions of C, with their
\* values, and exported unless their linkage is internal; its references are the uses.
UnitRight(o) ==
  /\ \A n \in DOMAIN o.symbols : \E d \in o.definitions : d.id = n
  /\ \A d \in o.definitions : /\ WellLinked(d) /\ d.id \in DOMAIN o.symbols
                              /\ o.symbols[d.id].value = d.value
                              /\ o.symbols[d.id].global <=> d.linkage # "internal"
  /\ \A d, e \in o.definitions : d.id = e.id => d.linkage = e.linkage
  /\ \A u \in o.uses : /\ WellLinked(u) /\ u.id \in o.references
                       /\ \A d \in o.definitions : d.id = u.id => d.linkage = u.linkage
                       /\ u.linkage # "external" => \E d \in o.definitions : d.id = u.id
  /\ \A n \in o.references : \E u \in o.uses : u.id = n
ObjectsRight == /\ objects \in Seq(Range(objects))
                /\ \A k \in DOMAIN objects : UnitRight(objects[k])

\* The object file of a unit that all passes accepted is right.
LEMMA ObjectFileRight ==
  ASSUME NEW A, NEW E, Compiled(A, E), ~UsedButUndefined
  PROVE  UnitRight(ObjectFile)
<1>1. PICK S, R, D, U : S = DefinedSymbols(table) /\ R = References(table) /\ D = CDefinitions /\ U = CUses
  OBVIOUS
<1>2. \A n \in DOMAIN S : /\ \E d \in D : d.id = n
                          /\ S[n].global <=> A[n].linkage # "internal"
  BY <1>1, SymbolHasDefinition
<1>3. \A d \in D : WellLinked(d) /\ d.id \in DOMAIN S /\ S[d.id].value = d.value /\ A[d.id].linkage = d.linkage
  BY <1>1, DefinitionIs, DefinitionHasSymbol DEF Says
<1>4. \A u \in U : /\ WellLinked(u) /\ A[u.id].linkage = u.linkage
                   /\ u.linkage # "external" => \E d \in D : d.id = u.id
  BY <1>1, UseIs
<1>5. (\A n \in R : \E u \in U : u.id = n) /\ (\A u \in U : u.id \in R)
  BY <1>1, ReferencesAre
<1>6. PICK o : o = [symbols |-> S, references |-> R, definitions |-> D, uses |-> U]
  OBVIOUS
<1>7. o = ObjectFile
  BY <1>1, <1>6 DEF ObjectFile
<1>8. o.symbols = S /\ o.references = R /\ o.definitions = D /\ o.uses = U
  BY <1>6
<1>9. UnitRight(o)
  BY <1>2, <1>3, <1>4, <1>5, <1>8 DEF UnitRight
<1> QED BY <1>7, <1>9

\* Every object file is right: none is there at the start, and Generate adds one.
LEMMA StartRight == LInit => ObjectsRight
<1> SUFFICES ASSUME objects = <<>> PROVE ObjectsRight
  BY DEF LInit
<1> QED BY DEF ObjectsRight

\* Every step keeps them.
LEMMA StepRight == PassesInv /\ ObjectsRight /\ [LNext]_vars => ObjectsRight'
<1> SUFFICES ASSUME PassesInv, ObjectsRight, [LNext]_vars PROVE ObjectsRight'
  OBVIOUS
<1>1. CASE Generate
  <2>1. phase = "generating" /\ ~Undefined /\ ~UsedButUndefined /\ objects' = Append(objects, ObjectFile)
    BY <1>1 DEF Generate
  <2>2. Sane /\ \E A, E : E = table.allSymbols /\ AllPassed(A) /\ AllGiven(E, A)
    BY <2>1 DEF PassesInv, Expects
  <2>3. PICK A, E : E = table.allSymbols /\ AllPassed(A) /\ AllGiven(E, A)
    BY <2>2
  <2>4. Compiled(A, E)
    BY <2>1, <2>2, <2>3 DEF Compiled, Undefined
  <2>5. PICK o : o = ObjectFile
    OBVIOUS
  <2>6. UnitRight(o)
    BY <2>1, <2>4, <2>5, ObjectFileRight
  <2>7. objects' = Append(objects, o) /\ objects \in Seq(Range(objects))
    BY <2>1, <2>5 DEF ObjectsRight
  <2>8. /\ DOMAIN objects = 1 .. Len(objects) /\ Len(objects) \in Nat
        /\ DOMAIN objects' = 1 .. Len(objects) + 1 /\ objects'[Len(objects) + 1] = o
        /\ \A k \in DOMAIN objects : objects'[k] = objects[k]
    BY <2>7
  <2>9. \A k \in DOMAIN objects' : k \in DOMAIN objects \/ k = Len(objects) + 1
    BY <2>8
  <2>10. \A k \in DOMAIN objects' : UnitRight(objects'[k])
    BY <2>6, <2>8, <2>9 DEF ObjectsRight
  <2>11. objects' \in Seq(Range(objects'))
    <3>1. objects \in Seq(Range(objects')) /\ o \in Range(objects')
      BY <2>7, <2>8 DEF Range
    <3> QED BY <2>7, <3>1
  <2> QED BY <2>10, <2>11 DEF ObjectsRight
<1>2. CASE ~Generate
  <2>1. objects' = objects
    BY <1>2 DEF LNext, ResolveItem, EndUnit, CheckDeclarations, CheckExpressions, RunPass, vars, passVars
  <2> QED BY <2>1 DEF ObjectsRight
<1> QED BY <1>1, <1>2

-----------------------------------------------------------------------------
(* The linker: what the symbols and references of right object files mean. *)

\* A name is exported exactly by the units that define it, but for internal linkage.
LEMMA ExportsAre ==
  ASSUME ObjectsRight, NEW k \in Units, NEW n
  PROVE  /\ n \in Exported(k) <=> \E d \in objects[k].definitions : d.id = n /\ d.linkage # "internal"
         /\ ~Numeral(n) => (n \in Exported(k) <=> n \in External(k))
         /\ Numeral(n) => (n \in Exported(k) <=> n \in LocalStatics(k))
<1>1. PICK o : o = objects[k]
  OBVIOUS
<1>2. UnitRight(o)
  BY <1>1 DEF ObjectsRight, Units
<1>3. n \in Exported(k) <=> \E d \in o.definitions : d.id = n /\ d.linkage # "internal"
  BY <1>1, <1>2 DEF UnitRight, Exported, Defined
<1>4. \A d \in o.definitions : d.linkage # "internal" =>
        (d.linkage = "none" <=> Numeral(d.id)) /\ (d.linkage = "external" <=> ~Numeral(d.id))
  BY <1>2 DEF UnitRight, WellLinked
<1>5. n \in External(k) <=> \E d \in o.definitions : d.id = n /\ d.linkage = "external"
  BY <1>1 DEF External
<1>6. n \in LocalStatics(k) <=> \E d \in o.definitions : d.id = n /\ d.linkage = "none"
  BY <1>1 DEF LocalStatics
<1> QED BY <1>1, <1>3, <1>4, <1>5, <1>6

\* Exported names clash exactly if external names do, or local static objects of one name.
LEMMA ClashesAre ==
  ASSUME ObjectsRight
  PROVE  Clashes = {} <=> \A k, l \in Units : k # l => /\ External(k) \cap External(l) = {}
                                                       /\ LocalStatics(k) \cap LocalStatics(l) = {}
<1>1. Clashes = {} <=> \A k, l \in Units : k # l => \A n : ~(n \in Exported(k) /\ n \in Exported(l))
  BY DEF Clashes
<1>2. \A k \in Units : \A n : n \in Exported(k) <=> n \in External(k) \/ n \in LocalStatics(k)
  <2> TAKE k \in Units
  <2> TAKE n
  <2>1. UnitRight(objects[k])
    BY DEF ObjectsRight, Units
  <2>2. (n \in External(k) => ~Numeral(n)) /\ (n \in LocalStatics(k) => Numeral(n))
    BY <2>1 DEF UnitRight, WellLinked, External, LocalStatics
  <2> QED BY <2>2, ExportsAre
<1>3. \A k, l \in Units : \A n : ~(n \in External(k) /\ n \in LocalStatics(l))
  <2> TAKE k, l \in Units
  <2>1. UnitRight(objects[k]) /\ UnitRight(objects[l])
    BY DEF ObjectsRight, Units
  <2> QED BY <2>1 DEF UnitRight, WellLinked, External, LocalStatics
<1> QED BY <1>1, <1>2, <1>3

\* If no exported names clash, the linker takes every name from where C says it is defined.
LEMMA BindsAsInC ==
  ASSUME ObjectsRight, Clashes = {}, NEW k \in Units, NEW use \in objects[k].uses
  PROVE  Bindings(k, use.id) = CBindings(k, use)
<1>1. PICK id : id = use.id
  OBVIOUS
<1> DEFINE Matching(l) == {d \in objects[l].definitions : d.id = id /\ d.linkage = use.linkage}
           There(l)    == {<<l, d.value>> : d \in Matching(l)}
<1>2. CBindings(k, use) = UNION {There(l) : l \in IF use.linkage = "external" THEN Units ELSE {k}}
  BY <1>1 DEF CBindings
<1>3. \A l \in Units : UnitRight(objects[l])
  BY DEF ObjectsRight, Units
<1>4. \A l \in Units : Matching(l) # {} =>
        id \in Defined(l) /\ There(l) = {<<l, objects[l].symbols[id].value>>}
  <2> TAKE l \in Units
  <2> HAVE Matching(l) # {}
  <2>1. PICK d \in Matching(l) : TRUE
    OBVIOUS
  <2>2. UnitRight(objects[l])
    BY <1>3
  <2>3. \A e \in Matching(l) : id \in DOMAIN objects[l].symbols /\ objects[l].symbols[id].value = e.value
    BY <2>2 DEF UnitRight
  <2> QED BY <2>1, <2>3 DEF Defined
<1>5. WellLinked(use) /\ (\A d \in objects[k].definitions : d.id = id => d.linkage = use.linkage)
  BY <1>1, <1>3 DEF UnitRight
<1>6. id \in Defined(k) => Matching(k) # {}
  <2> HAVE id \in Defined(k)
  <2>1. PICK d \in objects[k].definitions : d.id = id
    BY <1>3 DEF UnitRight, Defined
  <2> QED BY <1>5, <2>1
<1>7. use.linkage # "external" => id \in Defined(k)
  BY <1>1, <1>3 DEF UnitRight, Defined
<1>8. use.linkage = "external" => \A l \in Units : Matching(l) # {} <=> id \in Exported(l)
  <2> HAVE use.linkage = "external"
  <2> TAKE l \in Units
  <2>1. ~Numeral(id)
    BY <1>1, <1>5 DEF WellLinked
  <2>2. id \in External(l) <=> Matching(l) # {}
    BY DEF External
  <2> QED BY <2>1, <2>2, ExportsAre
<1> HIDE DEF Matching, There
<1>9. \A l \in Units : Matching(l) = {} => There(l) = {}
  BY DEF There
<1>10. CASE id \in Defined(k)
  <2>1. Bindings(k, id) = There(k)
    BY <1>4, <1>6, <1>10 DEF Bindings
  <2>2. CASE use.linkage = "external"
    <3>1. ASSUME NEW l \in Units, l # k PROVE There(l) = {}
      <4>1. ~(id \in Exported(k) /\ id \in Exported(l))
        BY <3>1 DEF Clashes
      <4> QED BY <1>6, <1>8, <1>9, <1>10, <2>2, <4>1
    <3>2. CBindings(k, use) = UNION {There(l) : l \in Units}
      BY <1>2, <2>2
    <3>3. UNION {There(l) : l \in Units} = There(k)
      BY <3>1
    <3> QED BY <1>1, <2>1, <3>2, <3>3
  <2>3. CASE use.linkage # "external"
    <3>1. CBindings(k, use) = UNION {There(l) : l \in {k}}
      BY <1>2, <2>3
    <3> QED BY <1>1, <2>1, <3>1
  <2> QED BY <2>2, <2>3
<1>11. CASE id \notin Defined(k)
  <2>1. use.linkage = "external"
    BY <1>7, <1>11
  <2>2. Bindings(k, id) = {<<l, objects[l].symbols[id].value>> : l \in {m \in Units : id \in Exported(m)}}
    BY <1>11 DEF Bindings
  <2>3. \A l \in Units : There(l) = IF id \in Exported(l) THEN {<<l, objects[l].symbols[id].value>>} ELSE {}
    BY <1>4, <1>8, <1>9, <2>1
  <2>4. CBindings(k, use) = UNION {There(l) : l \in Units}
    BY <1>2, <2>1
  <2>5. UNION {There(l) : l \in Units} = Bindings(k, id)
    <3>1. ASSUME NEW b \in UNION {There(l) : l \in Units} PROVE b \in Bindings(k, id)
      <4>1. PICK l \in Units : b \in There(l)
        OBVIOUS
      <4> QED BY <2>2, <2>3, <4>1
    <3>2. ASSUME NEW b \in Bindings(k, id) PROVE b \in UNION {There(l) : l \in Units}
      <4>1. PICK l \in Units : id \in Exported(l) /\ b = <<l, objects[l].symbols[id].value>>
        BY <2>2, <3>2
      <4>2. b \in There(l)
        BY <2>3, <4>1
      <4> QED BY <4>2
    <3> QED BY <3>1, <3>2
  <2> QED BY <1>1, <2>4, <2>5
<1> QED BY <1>10, <1>11

\* If no exported names clash, every reference is resolved exactly if C knows a definition.
LEMMA ResolvedAsInC ==
  ASSUME ObjectsRight, Clashes = {}
  PROVE  Unresolved <=> \E k \in Units : \E use \in objects[k].uses : CBindings(k, use) = {}
<1>1. \A k \in Units : UnitRight(objects[k])
  BY DEF ObjectsRight, Units
<1>2. ASSUME Unresolved
      PROVE  \E k \in Units : \E use \in objects[k].uses : CBindings(k, use) = {}
  <2>1. PICK k \in Units : \E name \in objects[k].references : Bindings(k, name) = {}
    BY <1>2 DEF Unresolved
  <2>2. PICK name \in objects[k].references : Bindings(k, name) = {}
    BY <2>1
  <2>3. PICK use \in objects[k].uses : use.id = name
    BY <1>1 DEF UnitRight
  <2> QED BY <2>2, <2>3, BindsAsInC
<1>3. ASSUME NEW k \in Units, NEW use \in objects[k].uses, CBindings(k, use) = {}
      PROVE  Unresolved
  <2>1. use.id \in objects[k].references
    BY <1>1 DEF UnitRight
  <2>2. Bindings(k, use.id) = {}
    BY <1>3, BindsAsInC
  <2> QED BY <2>1, <2>2 DEF Unresolved
<1> QED BY <1>2, <1>3

\* The invariant of the compilers and the linker together.
LinkInv == PassesInv /\ ObjectsRight

\* It holds at the start.
LEMMA StartLinks == LInit => LinkInv
BY StartPasses, StartRight DEF LinkInv

\* Every step keeps it.
LEMMA StepLinks == LinkInv /\ [LNext]_vars => LinkInv'
BY StepPasses, StepRight DEF LinkInv

\* However many units are linked, and whatever is in them: if they link, every use of a
\* function or of an object with static duration reaches the definition C says it denotes.
THEOREM UsesReach == LSpec => []UsesReachTheirDefinition
<1>1. LinkInv => UsesReachTheirDefinition
  BY BindsAsInC DEF LinkInv, Links, UsesReachTheirDefinition
<1> QED BY <1>1, StartLinks, StepLinks, PTL DEF LSpec

\* Any units link exactly if C says they form a program and no two of them have local
\* static objects of one unique name.
THEOREM LinkingExact == LSpec => []OnlyLocalStaticsClash
<1>1. LinkInv => OnlyLocalStaticsClash
  <2> SUFFICES ASSUME ObjectsRight
               PROVE  Links <=> /\ CLinks
                                /\ \A k, l \in Units : k # l => LocalStatics(k) \cap LocalStatics(l) = {}
    BY DEF LinkInv, OnlyLocalStaticsClash
  <2>1. CASE Clashes = {}
    BY <2>1, ClashesAre, ResolvedAsInC DEF Links, CLinks
  <2>2. CASE Clashes # {}
    BY <2>2, ClashesAre DEF Links, CLinks
  <2> QED BY <2>1, <2>2
<1> QED BY <1>1, StartLinks, StepLinks, PTL DEF LSpec
=============================================================================
