---------------------------- MODULE TypeSpecifiers ----------------------------
(***************************************************************************)
(* The specifiers of a declaration: the parser adds them, in any order, to *)
(* a set with a counter per type specifier (declarations.h), from which    *)
(* TypeSpecification::ResolveType and ResolveStorageClass make a type and  *)
(* a storage class or throw (declarations.cpp).                            *)
(***************************************************************************)
EXTENDS Naturals

CONSTANT MaxSpecifiers     \* bound on the type specifiers of one declaration
ASSUME MaxSpecifiersAssumption == MaxSpecifiers \in Nat

TypeSpecifier         == {"int", "long", "signed", "unsigned", "double"}
StorageClassSpecifier == {"static", "extern"}

VARIABLE specifiers        \* the DeclarationSpecifierSet

NoSpecifiers == [counts |-> [s \in TypeSpecifier |-> 0], storage |-> {}]

Total(counts) == counts["int"] + counts["long"] + counts["signed"]
                 + counts["unsigned"] + counts["double"]

AddTypeSpecifier(s) ==
  /\ Total(specifiers.counts) < MaxSpecifiers
  /\ specifiers' = [specifiers EXCEPT !.counts[s] = @ + 1]

AddStorageClass(s) == specifiers' = [specifiers EXCEPT !.storage = @ \cup {s}]

AddSpecifier == \/ \E s \in TypeSpecifier : AddTypeSpecifier(s)
                \/ \E s \in StorageClassSpecifier : AddStorageClass(s)

Spec == specifiers = NoSpecifiers /\ [][AddSpecifier]_specifiers

-----------------------------------------------------------------------------
Thrown == "thrown"      \* std::runtime_error

\* Mutant: signed is ignored beside unsigned.
ResolveMixedSigns(counts) ==
  IF \/ \E s \in TypeSpecifier \ {"long"} : counts[s] > 1
     \/ counts["long"] > 2
     \/ counts["double"] > 0 /\ \E s \in TypeSpecifier \ {"double"} : counts[s] > 0
  THEN Thrown
  ELSE IF counts["unsigned"] > 0 THEN (IF counts["long"] > 0 THEN "ulong" ELSE "uint")
  ELSE IF counts["long"] > 0 THEN "long"
  ELSE IF counts["signed"] > 0 \/ counts["int"] > 0 THEN "int"
  ELSE IF counts["double"] > 0 THEN "double" ELSE Thrown

ResolveType(counts) ==
  IF \/ \E s \in TypeSpecifier \ {"long"} : counts[s] > 1
     \/ counts["long"] > 2
     \/ counts["double"] > 0 /\ \E s \in TypeSpecifier \ {"double"} : counts[s] > 0
     \/ counts["unsigned"] > 0 /\ counts["signed"] > 0
  THEN Thrown
  ELSE IF counts["unsigned"] > 0 THEN (IF counts["long"] > 0 THEN "ulong" ELSE "uint")
  ELSE IF counts["long"] > 0 THEN "long"
  ELSE IF counts["signed"] > 0 \/ counts["int"] > 0 THEN "int"
  ELSE IF counts["double"] > 0 THEN "double" ELSE Thrown

ResolveStorageClass(storage) ==
  IF storage = StorageClassSpecifier THEN Thrown
  ELSE IF "static" \in storage THEN "static"
  ELSE IF "extern" \in storage THEN "extern" ELSE "none"

-----------------------------------------------------------------------------
(* The list of C11 6.7.2 for the words of the subset: each of its entries  *)
(* is a multiset, given by how often int, long, signed, unsigned and       *)
(* double occur in it.                                                     *)

Words(int, long, signed, unsigned, double) ==
  [s \in TypeSpecifier |-> IF s = "int"           THEN int
                           ELSE IF s = "long"     THEN long
                           ELSE IF s = "signed"   THEN signed
                           ELSE IF s = "unsigned" THEN unsigned
                           ELSE double]

CType == {"int", "uint", "long", "ulong", "long long", "unsigned long long",
          "double", "long double"}

CSpecifiers(type) ==
  CASE type = "int"  -> {Words(1, 0, 0, 0, 0), Words(0, 0, 1, 0, 0), Words(1, 0, 1, 0, 0)}
    [] type = "uint" -> {Words(0, 0, 0, 1, 0), Words(1, 0, 0, 1, 0)}
    [] type = "long" -> {Words(i, 1, s, 0, 0) : i \in {0, 1}, s \in {0, 1}}
    [] type = "ulong" -> {Words(i, 1, 0, 1, 0) : i \in {0, 1}}
    [] type = "long long" -> {Words(i, 2, s, 0, 0) : i \in {0, 1}, s \in {0, 1}}
    [] type = "unsigned long long" -> {Words(i, 2, 0, 1, 0) : i \in {0, 1}}
    [] type = "double" -> {Words(0, 0, 0, 0, 1)}
    [] type = "long double" -> {Words(0, 1, 0, 0, 1)}

\* What the compiler has for a type of C: long long is long, which has as many
\* bits; there is no long double.
Representation(type) ==
  CASE type = "long long" -> "long"
    [] type = "unsigned long long" -> "ulong"
    [] type = "long double" -> Thrown
    [] OTHER -> type

\* Any multiset of type specifiers, in any order, is resolved to the type C
\* lists it under, and refused if C does not list it (TypeSpecification::
\* ResolveType, whose chain of conditions has an order that matters).
SpecifiersMeanWhatCSays ==
  LET counts == specifiers.counts
  IN  /\ \A type \in CType :
           counts \in CSpecifiers(type) => ResolveType(counts) = Representation(type)
      /\ (\A type \in CType : counts \notin CSpecifiers(type)) =>
           ResolveType(counts) = Thrown
=============================================================================
