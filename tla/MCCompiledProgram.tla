-------------------------- MODULE MCCompiledProgram --------------------------
EXTENDS CompiledProgram

MCUnspecified == -1
MCAnswers     == {0, 1}
MCStatic      == [k |-> 1, m |-> 0]
MCAddress     == [x |-> 101, y |-> 102, p |-> 103]

\* Calls are what a program can be observed to do; each has a name of its own.
Run(f) == ExpressionStatement(Call(f))
Assigned(v, e) == ExpressionStatement(Assignment(Id(v), e))
Unit(items) == <<FunctionDefinition(Compound(items))>>

-----------------------------------------------------------------------------
\* Expressions: every operator under every other, and on constants.  The operands
\* assign to different variables: the order of two assignments is not defined.
Operators(v, l, r) ==
  {Or(l, r), And(l, r), Equal(l, r), Not(l), Conditional(l, r, Constant(0)),
   Conditional(Call("z"), l, r), Assignment(Id(v), l)}
Operands == {Call("a"), Constant(0), Constant(1)}
Expressions ==
  UNION ({Operators("w", l, r) : l \in Operators("u", Call("a"), Call("b")),
                                 r \in Operators("v", Call("c"), Call("d"))}
         \cup {Operators("w", l, r) : l, r \in Operands})

ExpressionPrograms ==
  {Unit(<<Declaration("x", e), If(Id("x"), Run("t")), Return(Id("x"))>>) : e \in Expressions}

-----------------------------------------------------------------------------
\* Statements: loops with every kind of jump in them, inside and outside
\* selections, and loops in loops.
Loops(c, body) ==
  {While(Call(c), body), DoWhile(body, Call(c)), For(Call("i"), Call(c), Call("n"), body)}
PlainLoops(body) ==
  {While(Constant(1), body), DoWhile(body, Constant(0)), While(Constant(0), body),
   For(NoExpression, NoExpression, NoExpression, body),
   For(NoExpression, Call("c"), NoExpression, body)}
AllJumps == {Break, Continue, Return(Call("r")), ReturnVoid}
Simple == AllJumps \cup {Run("s"), Compound(<<>>)}

Bodies ==
  Simple
  \cup {Compound(<<If(Call("d"), j), Run("e")>>) : j \in AllJumps}
  \cup {IfElse(Call("d"), j, k) : j, k \in Simple}
  \cup {Compound(<<IfElse(Constant(b), Run("e"), j), Run("s")>>) : j \in AllJumps, b \in {0, 1}}

LoopPrograms ==
  {Unit(<<loop, Run("end")>>) : loop \in UNION {Loops("c", b) \cup PlainLoops(b) : b \in Bodies}}

NestedPrograms ==
  {Unit(<<outer, Return(Constant(1))>>) : outer \in
     UNION {Loops("o", Compound(<<inner, If(Call("g"), j)>>)) : j \in {Break, Continue},
              inner \in UNION {Loops("c", Compound(<<If(Call("d"), k), Run("e")>>)) :
                                 k \in {Break, Continue, ReturnVoid}}}}

\* Selections on constants, in selections.
ConstantSelections(s) ==
  {If(Constant(1), s), If(Constant(0), s), IfElse(Constant(0), s, Run("t")),
   IfElse(Call("d"), s, Compound(<<>>))}
SelectionPrograms ==
  {Unit(<<selection, Run("end")>>) : selection \in
     UNION {ConstantSelections(s) : s \in ConstantSelections(Run("s"))}}

\* Jumps outside of loops, two functions, a declaration in a for, and local
\* objects, without an initializer or static, that are declared in a loop.
OtherPrograms ==
  {Unit(<<If(Call("d"), j)>>) : j \in {Break, Continue}}
  \cup {Unit(<<While(Call("c"), Run("s")), j>>) : j \in {Break, Continue}}
  \cup {Unit(<<For(Declaration("x", Call("a")), Id("x"), Assignment(Id("x"), Call("n")), b)>>) :
          b \in {Break, Continue, Run("s")}}
  \cup {Unit(<<While(Call("c"), Compound(<<Declaration("k", Constant(1)), Uninitialized("x"),
                   Assigned("x", e), If(Id("x"), Run("s")), Assigned("k", Call("d"))>>)),
               Uninitialized("m"), Return(Id("m"))>>) :
          e \in {Id("k"), Not(Id("k")), And(Id("k"), Call("a"))}}
  \cup {Unit(<<While(Call("c"), Break)>>) \o Unit(<<While(Call("c"), Continue), Return(And(Call("a"), Call("b")))>>)}

-----------------------------------------------------------------------------
\* Pointers: p points to x or y.  What is done through it, or to it, and an
\* expression it takes part in.
x == Id("x")
y == Id("y")
p == Id("p")
Effects ==
  {ExpressionStatement(e) : e \in
     {Assignment(Dereference(p), Call("d")), Assignment(Dereference(p), Not(Dereference(p))),
      Assignment(y, Dereference(p)), Assignment(p, AddressOf(y)),
      Assignment(Dereference(p), Equal(x, Dereference(p))),
      Assignment(Dereference(AddressOf(Dereference(p))), y),
      Assignment(Dereference(Conditional(Dereference(p), AddressOf(x), p)), Constant(1))}}
  \cup {Compound(<<Declaration("q", AddressOf(p)), e>>) : e \in
     {ExpressionStatement(Assignment(Dereference(Dereference(Id("q"))), Call("d"))),
      ExpressionStatement(Assignment(Dereference(Id("q")), AddressOf(y))),
      While(Dereference(Dereference(Id("q"))),
            ExpressionStatement(Assignment(Dereference(p), Call("d"))))}}
Uses(e) ==
  {e, Not(e), Equal(e, y), Equal(x, e), Or(e, y), And(y, e), Conditional(e, y, e)}
PointerPrograms ==
  {Unit(<<Declaration("x", Constant(0)), Declaration("y", Call("b")),
          Declaration("p", Conditional(Call("c"), AddressOf(x), AddressOf(y))),
          effect, If(x, Run("s")), If(y, Run("t")), Return(use)>>) :
     effect \in Effects, use \in Uses(Dereference(p))}

\* The value of an assignment through a pointer is used.
StoredValuePrograms ==
  {Unit(<<Declaration("y", Call("b")), Declaration("p", AddressOf(y)),
          Declaration("x", Assignment(Dereference(p), Call("d"))), Return(x)>>),
   Unit(<<Declaration("y", Call("b")), Declaration("p", AddressOf(y)),
          If(Assignment(Dereference(p), Call("d")), Run("s"))>>)}

MCPrograms == ExpressionPrograms \cup LoopPrograms \cup NestedPrograms \cup SelectionPrograms
              \cup OtherPrograms \cup PointerPrograms
=============================================================================
