---------------------------- MODULE SourceProgram ----------------------------
(* The syntax trees of statements and expressions, and what they mean: a       *)
(* machine that runs a tree with structured control only, without labels.      *)
(* It is the reference that the three-address code is compared with.           *)
EXTENDS Integers, Sequences, SequencesExt, Functions

\* A node of the tree: the name of a variable or function, the value of a
\* constant, and the children in the order in which they are visited.
Node(kind, name, value, parts) ==
  [kind |-> kind, name |-> name, value |-> value, parts |-> parts]

\* Expressions.
Constant(n)       == Node("constant", "", n, <<>>)
NoExpression      == Node("empty", "", 0, <<>>)      \* as in for (;;)
Id(x)             == Node("id", x, 0, <<>>)
Call(f)           == Node("call", f, 0, <<>>)
Not(e)            == Node("not", "", 0, <<e>>)
Equal(l, r)       == Node("equal", "", 0, <<l, r>>)
Or(l, r)          == Node("or", "", 0, <<l, r>>)
And(l, r)         == Node("and", "", 0, <<l, r>>)
Conditional(c, l, r) == Node("conditional", "", 0, <<c, l, r>>)
Assignment(l, r)  == Node("assignment", "", 0, <<l, r>>)
AddressOf(e)      == Node("address", "", 0, <<e>>)
Dereference(e)    == Node("dereference", "", 0, <<e>>)

\* Statements.
Declaration(x, e) == Node("declaration", x, 0, <<e>>)
Uninitialized(x)  == Node("declaration", x, 0, <<>>)
ExpressionStatement(e) == Node("expression", "", 0, <<e>>)
Compound(items)   == Node("compound", "", 0, items)
If(c, s)          == Node("if", "", 0, <<c, s>>)
IfElse(c, s, t)   == Node("ifelse", "", 0, <<c, s, t>>)
While(c, s)       == Node("while", "", 0, <<c, s>>)
DoWhile(s, c)     == Node("dowhile", "", 0, <<c, s>>)
For(i, c, n, s)   == Node("for", "", 0, <<i, c, n, s>>)
Break             == Node("break", "", 0, <<>>)
Continue          == Node("continue", "", 0, <<>>)
Return(e)         == Node("return", "", 0, <<e>>)
ReturnVoid        == Node("return", "", 0, <<>>)
FunctionDefinition(body) == Node("function", "", 0, <<body>>)

IsLoop(node) == node.kind \in {"while", "dowhile", "for"}
IsJump(node) == node.kind \in {"break", "continue"}

-----------------------------------------------------------------------------
\* The machine.  todo is what remains to be done: trees, and the items below
\* that act on the values of the expressions just evaluated.

CONSTANTS
  Unspecified,   \* the result of a function that returns no value
  Address,       \* the addresses of the variables that are pointed to
  Static         \* the objects of static duration, with the values they start with

ASSUME AddressAssumption ==
  /\ Unspecified \notin Range(Address)
  /\ \A x, y \in DOMAIN Address : Address[x] = Address[y] => x = y

\* What a pointer points to.
IsAddress(v)  == v \in Range(Address)
Pointed(v)    == CHOOSE x \in DOMAIN Address : Address[x] = v

Item(kind)        == Node(kind, "", 0, <<>>)
Choose(yes, no)   == [kind |-> "choose", yes |-> yes, no |-> no]
SetVariable(x)    == Node("set", x, 0, <<>>)
BreakMark         == Item("break mark")      \* where break leaves the loop
ContinueMark      == Item("continue mark")   \* where continue resumes it

\* What a tree stands for, one level down.
Truth(b)  == Constant(IF b THEN 1 ELSE 0)
Discarded(e) == IF e.kind = "declaration" THEN e ELSE ExpressionStatement(e)
Meaning(node) ==
  LET p == node.parts IN
  CASE node.kind = "empty"       -> <<Truth(TRUE)>>
    [] node.kind = "not"         -> p \o <<Choose(<<Truth(FALSE)>>, <<Truth(TRUE)>>)>>
    [] node.kind = "equal"       -> p \o <<Item("compare")>>
    [] node.kind = "or"          -> <<p[1], Choose(<<Truth(TRUE)>>,
                                       <<p[2], Choose(<<Truth(TRUE)>>, <<Truth(FALSE)>>)>>)>>
    [] node.kind = "and"         -> <<p[1], Choose(
                                       <<p[2], Choose(<<Truth(TRUE)>>, <<Truth(FALSE)>>)>>,
                                       <<Truth(FALSE)>>)>>
    [] node.kind = "conditional" -> <<p[1], Choose(<<p[2]>>, <<p[3]>>)>>
    [] node.kind = "address"     -> IF p[1].kind = "id" THEN <<Constant(Address[p[1].name])>>
                                    ELSE p[1].parts
    [] node.kind = "dereference" -> p \o <<Item("load")>>
    [] node.kind = "assignment"  -> IF p[1].kind = "id" THEN <<p[2], SetVariable(p[1].name)>>
                                    ELSE p[1].parts \o <<p[2], Item("store")>>
    [] node.kind = "declaration" -> IF p = <<>> \/ node.name \in DOMAIN Static THEN <<>>
                                    ELSE p \o <<SetVariable(node.name), Item("drop")>>
    [] node.kind = "expression"  -> p \o <<Item("drop")>>
    [] node.kind \in {"compound", "function"} -> p
    [] node.kind = "if"          -> <<p[1], Choose(<<p[2]>>, <<>>)>>
    [] node.kind = "ifelse"      -> <<p[1], Choose(<<p[2]>>, <<p[3]>>)>>
    [] node.kind = "while"       -> <<[node EXCEPT !.kind = "repeat"], BreakMark>>
    [] node.kind = "dowhile"     -> <<p[2], ContinueMark, [node EXCEPT !.kind = "repeat"],
                                      BreakMark>>
    [] node.kind = "repeat"      -> <<p[1], Choose(<<p[2], ContinueMark, node>>, <<>>)>>
    [] node.kind = "for"         -> <<Discarded(p[1]),
                                      [node EXCEPT !.kind = "repeat for"], BreakMark>>
    [] node.kind = "repeat for"  -> <<p[2], Choose(<<p[4], ContinueMark,
                                      ExpressionStatement(p[3]), node>>, <<>>)>>
    [] node.kind = "return"      -> p \o <<Item("leave")>>

\* The items after the first one of a kind.
After(kind, items) ==
  LET at == CHOOSE i \in DOMAIN items :
              items[i].kind = kind /\ \A j \in 1 .. i - 1 : items[j].kind # kind
  IN  SubSeq(items, at + 1, Len(items))

Start(body) == [todo |-> <<body>>, values |-> <<>>, variables |-> Static,
                result |-> Unspecified]

Finished(s) == s.todo = <<>>
Calling(s)  == ~Finished(s) /\ Head(s.todo).kind = "call"
Waiting(s)  == Finished(s) \/ Calling(s)

\* The function called at this point returns v.
Answer(s, v) == [s EXCEPT !.todo = Tail(@), !.values = Append(@, v)]

\* One step of a machine that waits for nothing.
Step(s) ==
  LET item == Head(s.todo)
      rest == Tail(s.todo)
      top  == Last(s.values)
      below == Front(s.values)
  IN CASE item.kind = "constant" -> [s EXCEPT !.todo = rest, !.values = Append(@, item.value)]
       [] item.kind = "id"       -> [s EXCEPT !.todo = rest,
                                              !.values = Append(@, s.variables[item.name])]
       [] item.kind = "choose"   -> [s EXCEPT !.todo = (IF top # 0 THEN item.yes ELSE item.no)
                                                       \o rest,
                                              !.values = below]
       [] item.kind = "compare"  -> [s EXCEPT !.todo = rest,
                                              !.values = Append(Front(below),
                                                 IF Last(below) = top THEN 1 ELSE 0)]
       [] item.kind = "set"      -> [s EXCEPT !.todo = rest,
                                              !.variables = (item.name :> top) @@ @]
       [] item.kind = "load"     -> [s EXCEPT !.todo = rest,
                                              !.values = Append(below, s.variables[Pointed(top)])]
       [] item.kind = "store"    -> [s EXCEPT !.todo = rest,
                                              !.variables = (Pointed(Last(below)) :> top) @@ @,
                                              !.values = Append(Front(below), top)]
       [] item.kind = "drop"     -> [s EXCEPT !.todo = rest, !.values = below]
       [] item.kind = "leave"    -> [s EXCEPT !.todo = <<>>,
                                              !.result = IF s.values = <<>> THEN @ ELSE top]
       [] item.kind = "break"    -> [s EXCEPT !.todo = After("break mark", rest)]
       [] item.kind = "continue" -> [s EXCEPT !.todo = After("continue mark", rest)]
       [] item.kind \in {"break mark", "continue mark"} -> [s EXCEPT !.todo = rest]
       [] OTHER                  -> [s EXCEPT !.todo = Meaning(item) \o rest]
=============================================================================
