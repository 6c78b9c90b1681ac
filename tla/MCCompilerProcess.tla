------------------------- MODULE MCCompilerProcess -------------------------
(***************************************************************************)
(* Two compiler processes, each with any of a set of command lines, among  *)
(* sources of every kind; a.c and a.b.c share the beginning of their names.*)
(***************************************************************************)
EXTENDS CompilerProcess, TLC

CONSTANTS p1, p2

Symmetry == Permutations({p1, p2})

A == <<"a", "c">>
B == <<"a", "b", "c">>
P == <<"p", "c">>

\* One source for each place where a source may fail.
MCKind == A :> "program" @@ B :> "program" @@ P :> "part"
          @@ <<"h", "c">> :> "broken"         @@ <<"m", "c">> :> "malformed"
          @@ <<"t", "c">> :> "throwing"       @@ <<"i", "c">> :> "ill-typed"
          @@ <<"u", "c">> :> "untranslatable" @@ <<"x", "c">> :> "exhausting"
          @@ <<"e", "c">> :> "unencodable"
          @@ <<"v", "c">> :> "program"        @@ <<"w", "c">> :> "program"

\* The TAC file of w.c, the assembly of v.c and one output cannot be written.
MCUnwritable == {<<"w", "tac", "txt">>, <<"v", "s">>, <<"readonly">>}

Flags == {<<>>, <<<<"-c">>>>, <<<<"--keep-asm">>>>, <<<<"--keep-tac">>>>,
          <<<<"-o">>, <<"out">>>>}
AST == <<"--print-ast-only">>

MCArguments ==
  {flags \o <<source>> : flags \in Flags, source \in {A, B, P}}
  \cup {<<source>> : source \in DOMAIN MCKind \cup {<<"missing", "c">>}}
  \cup {<<AST, source, A>> : source \in {P, <<"i", "c">>, <<"t", "c">>, <<"u", "c">>}}
  \cup {flags \o <<A, B>> : flags \in Flags}
  \cup {<<<<"-o">>>>, <<<<"-c">>>>, <<B, P>>, <<<<"-c">>, <<"e", "c">>>>,
        <<A, <<"-o">>, <<"readonly">>>>, <<<<"-c">>, P, <<"h", "c">>>>,
        <<<<"--keep-asm">>, <<"--keep-tac">>, P, A>>}
=============================================================================
