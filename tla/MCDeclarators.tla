----------------------------- MODULE MCDeclarators -----------------------------
EXTENDS Declarators

P == [kind |-> "pointer", params |-> <<>>]
A == [kind |-> "array", params |-> <<>>]
F(params) == [kind |-> "function", params |-> params]
Par(b, mods) == [base |-> b, declarator |-> mods]
OneInt == <<Par("int", <<>>)>>

\* (void), (int a), (long a), (int *a), (int a[3]), (int (*a)[3]),
\* (int a(int)), (int (*a)(int)), (int *a(int))
ParameterListsDef ==
  {<<>>, OneInt, <<Par("long", <<>>)>>, <<Par("int", <<P>>)>>, <<Par("int", <<A>>)>>,
   <<Par("int", <<A, P>>)>>, <<Par("int", <<F(OneInt)>>)>>,
   <<Par("int", <<F(OneInt), P>>)>>, <<Par("int", <<P, F(OneInt)>>)>>}
=============================================================================
